-------------------------- MODULE ReassemblyProofs --------------------------
(***************************************************************************)
(* The StreamReassembler at work, for every capacity, every length of the  *)
(* stream and every order of the substrings: the slices are exact, the gap *)
(* can always be closed, no push is ignored or shortened, and the          *)
(* reassembler implements HeldBytes.                                       *)
(***************************************************************************)
EXTENDS Reassembly, ReceiverLemmas

\* Between two calls no slice begins at the gap: Settled says what the rest
\* of the state is then.
Inv == Settled(r, Memory, StreamLength)

LEMMA Constants == Memory \in Nat /\ StreamLength \in Nat
  BY MemoryAssumption, LengthAssumption

LEMMA BytesAre ==
  ASSUME NEW index \in Nat, NEW len \in Nat
  PROVE  /\ Bytes(index, len) \in Seq(Nat) /\ Len(Bytes(index, len)) = len
         /\ Run(Bytes(index, len), index)
  <1> DEFINE q == Bytes(index, len)
  <1>1. q = [k \in 1..len |-> index + k - 1]
    BY Zenon DEF Bytes
  <1>2. \A k \in 1..len : index + k - 1 \in Nat
    OBVIOUS
  <1>3. q \in Seq(Nat) /\ Len(q) = len
    BY <1>1, <1>2
  <1>4. \A k \in 1..len : q[k] = index + k - 1
    BY <1>1, Zenon
  <1> HIDE DEF q
  <1> QED
    BY <1>3, <1>4, Zenon DEF Run, q

LEMMA InitInv == ReassemblyInit => Inv
  BY Constants, NewIs, Zenon DEF ReassemblyInit, Inv

LEMMA PushMoves ==
  ASSUME Inv, NEW index \in 0..StreamLength, NEW len \in 0..StreamLength, NEW eof \in BOOLEAN,
         IsSubstring(index, len, eof), NEW t, t = Pushing(index, len, eof)
  PROVE  Pushed(r, t, Memory, StreamLength, Kept(r, Memory, index, len), eof)
  <1> DEFINE data == Bytes(index, len)
  <1>1. index \in Nat /\ len \in Nat
    BY Constants
  <1>2. data \in Seq(Nat) /\ Len(data) = len /\ Run(data, index)
    BY <1>1, BytesAre, Zenon
  <1>3. /\ index + len <= StreamLength /\ (eof => index + len = StreamLength)
        /\ t = push_substring(r, data, index, eof)
    BY Zenon DEF IsSubstring, Pushing
  <1> HIDE DEF data
  <1>4. index + Len(data) <= StreamLength /\ (eof => index + Len(data) = StreamLength)
    BY <1>2, <1>3, Zenon
  <1>5. Pushed(r, push_substring(r, data, index, eof), Memory, StreamLength,
               Kept(r, Memory, index, Len(data)), eof)
    BY <1>1, <1>2, <1>4, Constants, PushIs, Zenon DEF Inv
  <1> QED
    BY <1>2, <1>3, <1>5, Zenon

LEMMA ReadMoves ==
  ASSUME Inv, NEW len \in 1..Memory, ReadOutput(len)
  PROVE  Popped(r, r', Memory, StreamLength, len) /\ len <= Len(r.output.queue)
  <1>1. len \in Nat
    BY Constants
  <1>2. len <= Len(r.output.queue) /\ r' = [r EXCEPT !.output = PopStream(@, len)]
    BY Zenon DEF ReadOutput, BufferSize
  <1>3. Popped(r, [r EXCEPT !.output = PopStream(@, len)], Memory, StreamLength, len)
    BY <1>1, <1>2, Constants, PopIs, Zenon DEF Inv
  <1> QED
    BY <1>2, <1>3, Zenon

LEMMA NextInv == Inv /\ [ReassemblyNext]_r => Inv'
  <1> SUFFICES ASSUME Inv, [ReassemblyNext]_r
               PROVE  Inv'
    OBVIOUS
  <1>1. ASSUME NEW index \in 0..StreamLength, NEW len \in 0..StreamLength, NEW eof \in BOOLEAN,
               Push(index, len, eof)
        PROVE  Inv'
    <2>1. IsSubstring(index, len, eof) /\ r' = Pushing(index, len, eof)
      BY <1>1, Zenon DEF Push
    <2>2. Pushed(r, r', Memory, StreamLength, Kept(r, Memory, index, len), eof)
      BY <2>1, PushMoves, Zenon
    <2> QED
      BY <2>2, Zenon DEF Pushed, Inv
  <1>2. ASSUME NEW len \in 1..Memory, ReadOutput(len)
        PROVE  Inv'
    BY <1>2, ReadMoves, Zenon DEF Popped, Inv
  <1>3. CASE UNCHANGED r
    BY <1>3, Zenon DEF Inv
  <1> QED
    BY <1>1, <1>2, <1>3, Zenon DEF ReassemblyNext

LEMMA SpecInv == ReassemblySpec => []Inv
  BY InitInv, NextInv, PTL DEF ReassemblySpec

LEMMA InvExact == Inv => SlicesExact
  <1> SUFFICES ASSUME Inv
               PROVE  SlicesExact
    OBVIOUS
  <1> DEFINE s == r.output
             datas == r.datas
             next == r.next_index
  <1>1. /\ Exact(s, Memory, next) /\ Slices(datas, next, StreamLength) /\ next \in 0..StreamLength
        /\ r.unasm_bytes = Cardinality(Stored(datas))
    BY Zenon DEF Inv, Settled, Ready, Open
  <1>2. next = s.bytes_written /\ s.queue \in Seq(Nat) /\ Run(s.queue, s.bytes_read)
    BY <1>1, Zenon DEF Exact
  <1>3. ASSUME NEW q \in Seq(Nat), NEW from, Run(q, from)
        PROVE  q = Bytes(from, Len(q))
    <2>1. q = [k \in 1..Len(q) |-> q[k]]
      OBVIOUS
    <2>2. \A k \in 1..Len(q) : q[k] = from + k - 1
      BY <1>3, Zenon DEF Run
    <2> QED
      BY <2>1, <2>2, Zenon DEF Bytes
  <1>4. s.queue = Bytes(s.bytes_read, BufferSize(s))
    BY <1>2, <1>3, Zenon DEF BufferSize
  <1>5. next \in Nat
    BY <1>1, Constants
  <1>6. ASSUME NEW b \in DOMAIN datas
        PROVE  b > next /\ datas[b] # <<>> /\ datas[b] = Bytes(b, Len(datas[b]))
    <2>1. datas[b] \in Seq(Nat) /\ Len(datas[b]) > 0 /\ Run(datas[b], b)
      BY <1>1, Zenon DEF Slices, Slice
    <2>2. datas[b] = Bytes(b, Len(datas[b]))
      BY <1>3, <2>1, Zenon
    <2>3. datas[b] # <<>>
      BY <2>1
    <2>4. b \in Stored(datas)
      BY <1>1, <1>5, Constants, StoredIs, Zenon
    <2>5. b \in Nat /\ next < b
      BY <2>4, Constants, SettledGap, Zenon DEF Inv
    <2>6. b > next
      <3> HIDE DEF next
      <3> QED
        BY <1>5, <2>5
    <2> QED
      BY <2>2, <2>3, <2>6, Zenon
  <1>7. \A b, c \in DOMAIN datas : b # c => Positions(datas, b) \cap Positions(datas, c) = {}
    BY <1>1, <1>5, Constants, SlicesApart, Zenon
  <1> QED
    BY <1>1, <1>2, <1>4, <1>6, <1>7, ZenonT(30) DEF SlicesExact

\* For every stream and every order of its substrings, each byte is at its
\* place in the output and in the slices, no byte is stored twice, and
\* unasm_bytes_ counts the bytes stored.
THEOREM SlicesAlwaysExact == ReassemblySpec => []SlicesExact
  BY SpecInv, InvExact, PTL

LEMMA ClosesGap ==
  ASSUME Inv, NEW index \in 0..StreamLength, NEW len \in 0..StreamLength, NEW eof \in BOOLEAN,
         IsSubstring(index, len, eof), NEW t, t = Pushing(index, len, eof),
         index <= r.next_index, r.next_index < index + len,
         RemainingCapacity(r.output) > 0
  PROVE  t.next_index > r.next_index
  <1> DEFINE next == r.next_index
             after == t.next_index
             S == Stored(r.datas)
             offered == {i \in index .. index + len - 1 : i >= next}
             room == Memory - Len(r.output.queue)
             kept == Kept(r, Memory, index, len)
  <1>1. /\ next \in Nat /\ room \in Nat /\ S \subseteq Nat
        /\ \A x \in S : next < x
    BY Constants, SettledGap, Zenon DEF Inv
  <1>2. room > 0
    <2>1. r.output.capacity = Memory
      BY Zenon DEF Inv, Settled, Ready, Open, Exact
    <2> QED
      BY <2>1, Zenon DEF RemainingCapacity, BufferSize
  <1>3. index \in Nat /\ len \in Nat
    BY Constants
  <1>4. next \in offered
    <2> HIDE DEF next
    <2>1. index <= next /\ next < index + len
      BY Zenon DEF next
    <2> QED
      BY <1>1, <1>3, <2>1, SMTT(30), SMTT(90)
  <1>5. Below(S \cup offered, next) = {}
    <2>1. \A x \in S : ~(x < next)
      <3> HIDE DEF S, next
      <3> QED
        BY <1>1
    <2>2. \A x \in offered : ~(x < next)
      <3> HIDE DEF next
      <3> QED
        BY <1>1, <1>3
    <2> QED
      BY <2>1, <2>2, Zenon DEF Below
  <1>6. next \in kept
    <2>1. Cardinality(Below(S \cup offered, next)) = 0
      BY <1>5, FS_EmptySet, Zenon
    <2>2. 0 < room
      <3> HIDE DEF room
      <3> QED
        BY <1>1, <1>2
    <2> QED
      BY <1>4, <2>1, <2>2, Zenon DEF Kept, Nearest
  <1>7. Pushed(r, t, Memory, StreamLength, kept, eof)
    BY PushMoves, Zenon
  <1> HIDE DEF kept
  <1>8. /\ next <= after /\ Settled(t, Memory, StreamLength)
        /\ Stored(t.datas) = kept \ (next .. after - 1)
    BY <1>7, Zenon DEF Pushed
  <1>9. after \in Nat /\ after \notin Stored(t.datas)
    BY <1>8, Constants, SettledGap, Zenon
  <1>10. after # next
    <2> SUFFICES ASSUME after = next
                 PROVE  FALSE
      BY Zenon
    <2>1. next \notin next .. next - 1
      BY <1>1
    <2> QED
      BY <1>6, <1>8, <1>9, <2>1, Zenon
  <1> HIDE DEF next, after
  <1>11. after > next
    BY <1>1, <1>8, <1>9, <1>10, SMTT(30), SMTT(90)
  <1> QED
    BY <1>11, Zenon DEF next, after

\* Whatever is stored beyond the gap, push_substring() moves the gap for every
\* substring that contains the next byte, as long as the output has room.
THEOREM GapCanAlwaysClose == ReassemblySpec => []GapCanAlwaysBeClosed
  <1>1. Inv => GapCanAlwaysBeClosed
    BY ClosesGap, Zenon DEF GapCanAlwaysBeClosed
  <1> QED
    BY <1>1, SpecInv, PTL

-----------------------------------------------------------------------------
(* The reassembler implements HeldBytes.                                   *)

\* The bytes written by a push are the run of kept bytes from the gap on.
LEMMA RunWritten ==
  ASSUME NEW a \in Nat, NEW b \in Nat, NEW kept, a <= b,
         (a .. b - 1) \subseteq kept, b \notin kept, \A x \in kept : x \in Nat /\ a <= x
  PROVE  LET run == {i \in kept : a .. i \subseteq kept}
         IN  run = a .. b - 1 /\ b = a + Cardinality(run)
  <1> DEFINE run == {i \in kept : a .. i \subseteq kept}
  <1>1. ASSUME NEW i \in run
        PROVE  i \in a .. b - 1
    <2>1. i \in Nat /\ a <= i
      BY Zenon
    <2>2. b \notin a .. i
      BY Zenon
    <2> HIDE DEF run
    <2> QED
      BY <2>1, <2>2
  <1>2. ASSUME NEW i \in a .. b - 1
        PROVE  i \in run
    <2>1. (a .. i) \subseteq (a .. b - 1)
      OBVIOUS
    <2> QED
      BY <2>1, Zenon
  <1>3. run = a .. b - 1
    <2> HIDE DEF run
    <2> QED
      BY <1>1, <1>2, Zenon
  <1> HIDE DEF run
  <1> DEFINE n == b - a
  <1>4. n \in Nat /\ b = a + n /\ a + n - 1 = b - 1
    OBVIOUS
  <1> HIDE DEF n
  <1>5. Cardinality(a .. a + n - 1) = n
    BY <1>4, SpanIs, Zenon
  <1>6. Cardinality(run) = n
    BY <1>3, <1>4, <1>5, Zenon
  <1> QED
    BY <1>3, <1>4, <1>6, Zenon DEF run

LEMMA ViewIs ==
  ASSUME NEW t
  PROVE  /\ View(t).next = t.next_index /\ View(t).held = Stored(t.datas)
         /\ View(t).buffered = BufferSize(t.output)
         /\ View(t).known = t.eof /\ View(t).ended = t.output.input_ended
  BY Zenon DEF View

\* HeldBytes counts as this module does.
LEMMA SameCount == \A T : Held!Cardinality(T) = Cardinality(T)
  BY Zenon DEF Held!Cardinality, Cardinality

LEMMA PushIsAfter ==
  ASSUME Inv, NEW index \in 0..StreamLength, NEW len \in 0..StreamLength, NEW eof \in BOOLEAN,
         IsSubstring(index, len, eof), NEW t, t = Pushing(index, len, eof)
  PROVE  View(t) = Held!After(index, len, eof)
  <1> DEFINE a == r.next_index
             b == t.next_index
             S == Stored(r.datas)
             offered == {i \in index .. index + len - 1 : i >= a}
             room == Memory - Len(r.output.queue)
             kept == Kept(r, Memory, index, len)
             run == {i \in kept : a .. i \subseteq kept}
  <1>1. /\ a \in Nat /\ \A x \in S : x \in Nat /\ a < x
    BY Constants, SettledGap, Zenon DEF Inv
  <1>2. index \in Nat /\ len \in Nat
    BY Constants
  <1>3. \A x \in kept : x \in Nat /\ a <= x
    <2>1. kept \subseteq S \cup offered
      BY Zenon DEF Kept, Nearest
    <2>2. \A x \in S : x \in Nat /\ a <= x
      <3> HIDE DEF S, a
      <3> QED
        BY <1>1
    <2>3. \A x \in offered : x \in Nat /\ a <= x
      <3> HIDE DEF a
      <3> QED
        BY <1>1, <1>2
    <2> HIDE DEF kept, offered, S
    <2> QED
      BY <2>1, <2>2, <2>3, Zenon
  <1>4. kept = Held!Nearest(S \cup offered, Memory - BufferSize(r.output))
    <2>1. \A T, n : Held!Nearest(T, n) = Nearest(T, n)
      BY SameCount, Zenon DEF Nearest, Below, Held!Nearest
    <2>2. kept = Nearest(S \cup offered, room)
      BY Zenon DEF Kept
    <2> QED
      BY <2>1, <2>2, Zenon DEF BufferSize
  <1>5. Pushed(r, t, Memory, StreamLength, kept, eof)
    BY PushMoves, Zenon
  <1> HIDE DEF kept
  <1>6. /\ a <= b /\ Settled(t, Memory, StreamLength) /\ (a .. b - 1) \subseteq kept
        /\ Stored(t.datas) = kept \ (a .. b - 1)
        /\ t.output.bytes_read = r.output.bytes_read /\ t.eof = (r.eof \/ eof)
    BY <1>5, Zenon DEF Pushed
  <1>7. b \in Nat /\ b \notin Stored(t.datas)
    BY <1>6, Constants, SettledGap, Zenon
  <1>8. b \notin kept
    <2>1. b \notin a .. b - 1
      <3> HIDE DEF a, b
      <3> QED
        BY <1>1, <1>7
    <2> QED
      BY <1>6, <1>7, <2>1, Zenon
  <1>9. run = a .. b - 1 /\ b = a + Cardinality(run)
    <2> HIDE DEF a, b
    <2> QED
      BY <1>1, <1>3, <1>6, <1>7, <1>8, RunWritten, Zenon
  <1> DEFINE n == Cardinality(run)
             used == Len(r.output.queue)
             after == Len(t.output.queue)
             from == r.output.bytes_read
  <1>10. after = used + n
    <2>1. from \in Nat /\ used \in Nat /\ from + used = a
      <3>1. r.output.queue \in Seq(Nat) /\ from \in Nat /\ from + used = a
        BY Zenon DEF Inv, Settled, Ready, Open, Exact
      <3> QED
        BY <3>1
    <2>2. after \in Nat /\ from + after = b
      <3>1. t.output.queue \in Seq(Nat) /\ from + after = b
        BY <1>6, Zenon DEF Settled, Ready, Open, Exact
      <3> QED
        BY <3>1
    <2>3. n = b - a
      <3>1. n \in Int
        <4> DEFINE m == b - a
        <4>1. m \in Nat /\ a + m - 1 = b - 1
          <5> HIDE DEF a, b
          <5> QED
            BY <1>1, <1>6, <1>7
        <4> HIDE DEF m, a
        <4>2. Cardinality(a .. a + m - 1) = m
          BY <1>1, <4>1, SpanIs, Zenon
        <4>3. n = m
          BY <1>9, <4>1, <4>2, Zenon
        <4> QED
          BY <4>1, <4>3
      <3> HIDE DEF n, a, b
      <3> QED
        BY <1>1, <1>7, <1>9, <3>1, SMTT(30), SMTT(90) DEF n
    <2> HIDE DEF n, from, used, after, a, b
    <2> QED
      BY <1>1, <1>7, <2>1, <2>2, <2>3
  <1>11. t.output.input_ended = (t.eof /\ b = StreamLength)
    BY <1>6, Zenon DEF Settled, Ready, Open, Exact
  <1>12. Stored(t.datas) = kept \ run
    BY <1>6, <1>9, Zenon
  <1> DEFINE K == Held!Nearest(S \cup offered, Memory - BufferSize(r.output))
             R == {i \in K : a .. i \subseteq K}
  <1>13. K = kept /\ R = run
    BY <1>4, Zenon
  <1> HIDE DEF K, run
  <1>14. /\ b = a + Cardinality(R) /\ Stored(t.datas) = K \ R
         /\ BufferSize(t.output) = BufferSize(r.output) + Cardinality(R)
         /\ t.eof = (r.eof \/ eof)
         /\ t.output.input_ended = ((r.eof \/ eof) /\ a + Cardinality(R) = StreamLength)
    BY <1>6, <1>9, <1>10, <1>11, <1>12, <1>13, ZenonT(30) DEF BufferSize
  <1>15. Held!After(index, len, eof) =
           [next |-> a + Cardinality(R), held |-> K \ R,
            buffered |-> BufferSize(r.output) + Cardinality(R), known |-> r.eof \/ eof,
            ended |-> (r.eof \/ eof) /\ a + Cardinality(R) = StreamLength]
    BY ViewIs, SameCount, Zenon DEF Held!After, K
  <1> QED
    BY <1>14, <1>15, Zenon DEF View

\* For every capacity, length and state reached, what push_substring() leaves
\* is what HeldBytes holds after the substring: no push is ignored, none is
\* cut shorter than the memory requires.
THEOREM PushAlwaysExact == ReassemblySpec => []PushIsExact
  <1>1. Inv => PushIsExact
    BY PushIsAfter, Zenon DEF PushIsExact
  <1> QED
    BY <1>1, SpecInv, PTL

LEMMA PushHolds ==
  ASSUME Inv, NEW index \in 0..StreamLength, NEW len \in 0..StreamLength, NEW eof \in BOOLEAN,
         Push(index, len, eof)
  PROVE  Held!Push(index, len, eof)
  <1>1. View(r') = Held!After(index, len, eof)
    BY PushIsAfter, Zenon DEF Push
  <1> QED
    BY <1>1, Zenon DEF Held!Push

LEMMA ReadHolds ==
  ASSUME Inv, NEW len \in 1..Memory, ReadOutput(len)
  PROVE  Held!Read(len)
  <1>1. /\ r'.datas = r.datas /\ r'.next_index = r.next_index /\ r'.eof = r.eof
        /\ r'.output.input_ended = r.output.input_ended
        /\ Len(r'.output.queue) = Len(r.output.queue) - len /\ len <= Len(r.output.queue)
    BY ReadMoves, Zenon DEF Popped
  <1> QED
    BY <1>1, ViewIs, Zenon DEF Held!Read, BufferSize

\* For every capacity and length, each call of push_substring() and each
\* read is a step of HeldBytes: slicing, discarding from the end and the
\* loop of reassemble() keep exactly the bytes nearest to the gap.
THEOREM ReassemblerImplementsHeldBytes == ReassemblySpec => ImplementsHeldBytes
  <1>1. ReassemblyInit => Held!Init
    <2> SUFFICES ASSUME ReassemblyInit
                 PROVE  Held!Init
      OBVIOUS
    <2>1. r = [output |-> NewStream(Memory), datas |-> <<>>, unasm_bytes |-> 0,
               next_index |-> 0, eof |-> FALSE, eof_index |-> 0]
      BY Zenon DEF ReassemblyInit, NewReassembler
    <2>2. /\ r.output = NewStream(Memory) /\ r.datas = <<>> /\ r.next_index = 0 /\ r.eof = FALSE
      BY <2>1, Zenon
    <2>3. r.output.queue = <<>> /\ r.output.input_ended = FALSE
      <3> DEFINE s == r.output
      <3>1. s = [capacity |-> Memory, queue |-> <<>>, bytes_written |-> 0,
                 bytes_read |-> 0, input_ended |-> FALSE, error |-> FALSE]
        BY <2>2, Zenon DEF NewStream
      <3> HIDE DEF s
      <3>2. s.queue = <<>> /\ s.input_ended = FALSE
        BY <3>1, Zenon
      <3> QED
        BY <3>2, Zenon DEF s
    <2>4. DOMAIN r.datas = {} /\ Len(<<>>) = 0
      BY <2>2
    <2>5. Stored(r.datas) = {}
      BY <2>4, Zenon DEF Stored
    <2> QED
      BY <2>2, <2>3, <2>4, <2>5, ViewIs, ZenonT(30) DEF Held!Init, BufferSize
  <1>2. Inv /\ [ReassemblyNext]_r => [Held!Next]_(Held!vars)
    <2> SUFFICES ASSUME Inv, [ReassemblyNext]_r
                 PROVE  [Held!Next]_(Held!vars)
      OBVIOUS
    <2>1. ASSUME NEW index \in 0..StreamLength, NEW len \in 0..StreamLength, NEW eof \in BOOLEAN,
                 Push(index, len, eof)
          PROVE  Held!Next
      BY <2>1, PushHolds, Zenon DEF Held!Next
    <2>2. ASSUME NEW len \in 1..Memory, ReadOutput(len)
          PROVE  Held!Next
      BY <2>2, ReadHolds, Zenon DEF Held!Next
    <2>3. CASE UNCHANGED r
      BY <2>3, Zenon DEF Held!vars
    <2> QED
      BY <2>1, <2>2, <2>3, ZenonT(30) DEF ReassemblyNext
  <1> QED
    BY <1>1, <1>2, SpecInv, PTL DEF ReassemblySpec, ImplementsHeldBytes, Held!Spec
=============================================================================
