--------------------------- MODULE SeqnoTracking ---------------------------
(***************************************************************************)
(* How the two users of unwrap() (TCPReceiver::get_abs_seqno and           *)
(* TCPSender::get_abs_seqno) live with it: the absolute position of the    *)
(* sequence number on the wire and the checkpoint kept by the user both    *)
(* wander, never further apart than Reach, over many wraps of the 32 bits. *)
(***************************************************************************)
EXTENDS WrappingIntegers

CONSTANTS Reach,    \* how far a sequence number may be from the checkpoint
          MaxAbs    \* bound: largest absolute sequence number

ASSUME ReachAssumption == Reach \in Nat /\ 2 * Reach < FACTOR
ASSUME MaxAbsAssumption == MaxAbs \in Nat /\ MaxAbs + FACTOR < FACTOR * FACTOR

VARIABLES isn, checkpoint, seqno

vars == <<isn, checkpoint, seqno>>

Init == isn \in Wrapping /\ checkpoint = 0 /\ seqno = wrap(0, isn)

Absolute == unwrap(seqno, isn, checkpoint)

Near(n) == n <= checkpoint + Reach /\ checkpoint <= n + Reach

\* A segment or an acknowledgment for absolute number n arrives ...
Arrive(n) == Near(n) /\ seqno' = wrap(n, isn) /\ UNCHANGED <<isn, checkpoint>>

\* ... and its position becomes the new checkpoint.
Accept == Absolute <= MaxAbs /\ checkpoint' = Absolute /\ UNCHANGED <<isn, seqno>>

Next == Accept \/ \E n \in 0 .. MaxAbs + Reach : Arrive(n)

Spec == Init /\ [][Next]_vars
-----------------------------------------------------------------------------
TypeOK == isn \in Wrapping /\ seqno \in Wrapping /\ checkpoint \in 0 .. MaxAbs

Distance(x) == IF x > checkpoint THEN x - checkpoint ELSE checkpoint - x

\* unwrap() returns "the 64-bit sequence number that wraps to n and is
\* closest to checkpoint" (wrapping_integers.cc), wherever the checkpoint is
\* relative to a multiple of 2^32, 0 included.
UnwrapIsClosest ==
  \A n \in Wrapping :
    LET x == unwrap(n, isn, checkpoint)
    IN  /\ wrap(x, isn) = n
        /\ \A y \in 0 .. MaxAbs + FACTOR : wrap(y, isn) = n => Distance(x) <= Distance(y)

\* Arriving for n within half the space of the checkpoint, a number is read
\* back as n: no wrap is miscounted.
RoundTrip ==
  \A n \in 0 .. MaxAbs + Reach : Near(n) => unwrap(wrap(n, isn), isn, checkpoint) = n
=============================================================================
