----------------------------- MODULE Reassembly -----------------------------
(***************************************************************************)
(* A StreamReassembler of capacity_ Memory at work: a stream of            *)
(* StreamLength bytes, byte i of which is the number i, is pushed in       *)
(* arbitrary substrings, in any order and any number of times, while the   *)
(* owner of the output reads from it.                                      *)
(***************************************************************************)
EXTENDS StreamReassembler

CONSTANTS Memory, StreamLength

ASSUME MemoryAssumption == Memory \in Nat \ {0}
ASSUME LengthAssumption == StreamLength \in Nat

VARIABLE r

ReassemblyInit == r = NewReassembler(Memory)

Bytes(index, len) == [k \in 1..len |-> index + k - 1]

\* eof says that the substring ends where the stream ends.
IsSubstring(index, len, eof) ==
  index + len <= StreamLength /\ (eof => index + len = StreamLength)

Pushing(index, len, eof) == push_substring(r, Bytes(index, len), index, eof)

Push(index, len, eof) == IsSubstring(index, len, eof) /\ r' = Pushing(index, len, eof)

ReadOutput(len) ==
  /\ len <= BufferSize(r.output)
  /\ r' = [r EXCEPT !.output = PopStream(@, len)]

ReassemblyNext ==
  \/ \E index, len \in 0..StreamLength, eof \in BOOLEAN : Push(index, len, eof)
  \/ \E len \in 1..Memory : ReadOutput(len)

ReassemblySpec == ReassemblyInit /\ [][ReassemblyNext]_r
-----------------------------------------------------------------------------
\* Every byte is at its place, none missing, none twice, whatever the order
\* of arrival: in the output of reassemble(), and in the slices, which are
\* disjoint, lie beyond the first gap and are counted by unasm_bytes_.  So
\* insert_without_overlap stores no byte twice and reassemble() never leaves
\* a writable slice behind.
SlicesExact ==
  /\ r.next_index = r.output.bytes_written
  /\ r.output.queue = Bytes(r.output.bytes_read, BufferSize(r.output))
  /\ \A b \in DOMAIN r.datas :
       b > r.next_index /\ r.datas[b] # <<>> /\ r.datas[b] = Bytes(b, Len(r.datas[b]))
  /\ \A b, c \in DOMAIN r.datas :
       b # c => Positions(r.datas, b) \cap Positions(r.datas, c) = {}
  /\ r.unasm_bytes = Cardinality(Stored(r.datas))

\* Memory full of bytes beyond the gap never blocks the byte that closes the
\* gap: in every state push_substring() accepts a part of every substring
\* that contains the next byte, when the output has room, because the bytes
\* furthest ahead are discarded.
GapCanAlwaysBeClosed ==
  \A index, len \in 0..StreamLength, eof \in BOOLEAN :
    (/\ IsSubstring(index, len, eof)
     /\ index <= r.next_index /\ r.next_index < index + len
     /\ RemainingCapacity(r.output) > 0)
    => Pushing(index, len, eof).next_index > r.next_index

\* The abstract view: which positions are held, not how they are sliced.
View(t) ==
  [next |-> t.next_index, held |-> Stored(t.datas), buffered |-> BufferSize(t.output),
   known |-> t.eof, ended |-> t.output.input_ended]

Held == INSTANCE HeldBytes WITH
  Capacity <- Memory, Length <- StreamLength,
  next <- View(r).next, held <- View(r).held, buffered <- View(r).buffered,
  known <- View(r).known, ended <- View(r).ended

\* No push is ignored or shortened: for every substring that may arrive now,
\* push_substring() leaves exactly what HeldBytes holds after that substring.
\* Every byte of it that is new and among the nearest to the gap is stored or
\* written, whatever the slices already there, and nothing else changes.
PushIsExact ==
  \A index, len \in 0..StreamLength, eof \in BOOLEAN :
    IsSubstring(index, len, eof)
    => View(Pushing(index, len, eof)) = Held!After(index, len, eof)

\* The slicing, the discarding from the end and the loop of reassemble()
\* keep exactly the bytes HeldBytes keeps: those nearest to the gap.  So the
\* assertion of insert_without_overlap holds (never more than capacity_
\* bytes), and the output ends exactly when the end is known and every byte
\* before it is written.
ImplementsHeldBytes == Held!Spec
=============================================================================
