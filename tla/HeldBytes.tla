----------------------------- MODULE HeldBytes -----------------------------
(***************************************************************************)
(* What a StreamReassembler promises: of the bytes received beyond the     *)
(* first gap it keeps those nearest to the gap, as many as fit in Capacity *)
(* together with the bytes written and not yet read; it writes a byte as   *)
(* soon as all bytes before it are there.                                  *)
(***************************************************************************)
EXTENDS Integers, FiniteSets

CONSTANTS Capacity, Length

VARIABLES next, held, buffered, known, ended

vars == <<next, held, buffered, known, ended>>

Init == next = 0 /\ held = {} /\ buffered = 0 /\ known = FALSE /\ ended = FALSE

Nearest(S, n) == {x \in S : Cardinality({y \in S : y < x}) < n}

\* What is held after the bytes [index, index + len) have arrived; eof tells
\* the end of the stream.
After(index, len, eof) ==
  LET offered == {i \in index .. index + len - 1 : i >= next}
      kept == Nearest(held \cup offered, Capacity - buffered)
      run == {i \in kept : next .. i \subseteq kept}
  IN  [next |-> next + Cardinality(run), held |-> kept \ run,
       buffered |-> buffered + Cardinality(run), known |-> known \/ eof,
       ended |-> (known \/ eof) /\ next + Cardinality(run) = Length]

Push(index, len, eof) ==
  LET after == After(index, len, eof)
  IN  /\ next' = after.next /\ held' = after.held /\ buffered' = after.buffered
      /\ known' = after.known /\ ended' = after.ended

Read(len) == len <= buffered /\ buffered' = buffered - len /\ UNCHANGED <<next, held, known, ended>>

Next ==
  \/ \E index, len \in 0..Length, eof \in BOOLEAN : Push(index, len, eof)
  \/ \E len \in 1..Capacity : Read(len)

Spec == Init /\ [][Next]_vars
=============================================================================
