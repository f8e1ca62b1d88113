-------------------------- MODULE RingBufferProofs --------------------------
(***************************************************************************)
(* Proofs about module RingBuffer, for every capacity, every set of        *)
(* strings offered and every bound on the bytes written.                   *)
(***************************************************************************)
EXTENDS RingBuffer, SequenceTheorems, TLAPS

(* One wrap-around is enough for the index arithmetic of the ring. *)
LEMMA ModOnce ==
  ASSUME NEW N \in Nat \ {0}, NEW a \in Nat, a < 2 * N
  PROVE  a % N = IF a < N THEN a ELSE a - N
<1>1. CASE a < N
  BY <1>1
<1>2. CASE ~(a < N)
  <2>1. a - N \in 0 .. N - 1
    BY <1>2
  <2>2. a = N * 1 + (a - N)
    BY <2>1
  <2> QED
    BY <1>2, <2>1, <2>2
<1> QED
  BY <1>1, <1>2

(* size() without the modulus. *)
LEMMA Distance ==
  ASSUME NEW h \in Cell, NEW t \in Cell
  PROVE  (t - h + Capacity) % Capacity = IF t >= h THEN t - h ELSE t - h + Capacity
<1> DEFINE d == t - h + Capacity
<1>1. d \in Nat /\ d < 2 * Capacity
  BY CapacityAssumption DEF Cell
<1>2. d % Capacity = IF d < Capacity THEN d ELSE d - Capacity
  BY <1>1, ModOnce, CapacityAssumption
<1> QED
  BY <1>2, CapacityAssumption DEF Cell

LEMMA Advance ==
  ASSUME NEW i \in Cell, NEW n \in 0 .. Capacity
  PROVE  (i + n) % Capacity = IF i + n < Capacity THEN i + n ELSE i + n - Capacity
<1> DEFINE d == i + n
<1>1. d \in Nat /\ d < 2 * Capacity
  BY CapacityAssumption DEF Cell
<1>2. d % Capacity = IF d < Capacity THEN d ELSE d - Capacity
  BY <1>1, ModOnce, CapacityAssumption
<1> QED
  BY <1>2, CapacityAssumption DEF Cell

LEMMA SizeCases ==
  ASSUME head \in Cell, tail \in Cell
  PROVE  /\ Size = IF full THEN Capacity
                   ELSE IF tail >= head THEN tail - head ELSE tail - head + Capacity
         /\ Size \in 0 .. Capacity
  BY Distance, CapacityAssumption DEF Size, Cell

(* The inductive invariant is what the run checks: the counters need the
   type of the indices, and eof_ needs the counters. *)
IInv == TypeOK /\ SizeMatchesCounters /\ EofIffDrained

LEMMA InitIInv == RingInit => IInv
<1> SUFFICES ASSUME RingInit PROVE IInv
  OBVIOUS
<1>1. 0 \in Cell
  BY CapacityAssumption DEF Cell
<1>2. TypeOK
  BY <1>1 DEF RingInit, TypeOK
<1>3. Size = 0
  BY <1>1, Distance DEF RingInit, Size
<1> QED
  BY <1>2, <1>3 DEF RingInit, IInv, SizeMatchesCounters, EofIffDrained

(* What a write accepts fits. *)
LEMMA AcceptedFits ==
  ASSUME IInv, NEW data \in Data
  PROVE  /\ Accepted(data) \in 0 .. Capacity - Size
         /\ Accepted(data) <= Len(data)
         /\ data \in Seq(Byte) /\ Len(data) \in Nat
<1>1. data \in Seq(Byte) /\ Len(data) \in Nat
  BY DataAssumption
<1>2. Size \in 0 .. Capacity
  BY SizeCases DEF IInv, TypeOK
<1> QED
  BY <1>1, <1>2, CapacityAssumption DEF Accepted, RemainingSize

LEMMA WriteIInv ==
  ASSUME IInv, NEW data \in Data, Write(data)
  PROVE  IInv' /\ Size' = Size + Accepted(data)
<1> DEFINE n == Accepted(data)
<1>0. /\ n \in 0 .. Capacity - Size /\ n <= Len(data)
      /\ data \in Seq(Byte) /\ Len(data) \in Nat
  BY AcceptedFits
<1>1. head \in Cell /\ tail \in Cell /\ inner_data \in [Cell -> Byte]
      /\ bytes_written \in Nat /\ bytes_read \in Nat
  BY DEF IInv, TypeOK
<1>2. /\ Size = (IF full THEN Capacity
                 ELSE IF tail >= head THEN tail - head ELSE tail - head + Capacity)
      /\ Size \in 0 .. Capacity
  BY <1>1, SizeCases
<1>3. /\ tail' = (tail + n) % Capacity /\ head' = head
      /\ full' = (full \/ (tail' = head /\ n > 0))
      /\ inner_data' = PushedCells(data, n)
      /\ bytes_written' = bytes_written + n /\ bytes_read' = bytes_read
      /\ UNCHANGED <<input_ended, eof, error>> /\ ~input_ended
  BY DEF Write, PushBack, flags
<1>4. full => head = tail
  BY DEF IInv, SizeMatchesCounters
<1>4a. (full' <=> (full \/ (tail' = head /\ n > 0))) /\ head' = head
  BY <1>3
<1>5. bytes_written - bytes_read = Size
  BY DEF IInv, SizeMatchesCounters
<1> HIDE DEF n
<1>6. tail' = (IF tail + n < Capacity THEN tail + n ELSE tail + n - Capacity)
  BY <1>0, <1>1, <1>2, <1>3, Advance
<1>7. head' \in Cell /\ tail' \in Cell
  BY <1>0, <1>1, <1>2, <1>3, <1>6, CapacityAssumption DEF Cell
<1>8. inner_data' \in [Cell -> Byte]
  <2>1. \A i \in 1 .. Len(data) : data[i] \in Byte
    BY <1>0
  <2>2. Room \in 1 .. Capacity
    BY <1>1, CapacityAssumption DEF Cell, Room
  <2>3. ASSUME Room < n
        PROVE  Memcpy(Memcpy(inner_data, tail, data, 0, Room), 0, data, Room, n - Room)
                 \in [Cell -> Byte]
    BY <2>1, <2>2, <2>3, <1>0, <1>1, <1>2, CapacityAssumption DEF Memcpy, Cell, Room
  <2>4. ASSUME ~(tail >= head /\ Room < n)
        PROVE  Memcpy(inner_data, tail, data, 0, n) \in [Cell -> Byte]
    BY <2>1, <2>2, <1>0, <1>1, <1>2, CapacityAssumption DEF Memcpy, Cell, Room
  <2> QED
    BY <2>3, <2>4, <1>3 DEF PushedCells
<1>9. TypeOK'
  <2>1. bytes_written' \in Nat /\ bytes_read' \in Nat
    BY <1>0, <1>1, <1>2, <1>3, CapacityAssumption
  <2>2. full' \in BOOLEAN
    BY <1>3
  <2>3. (input_ended \in BOOLEAN)' /\ (eof \in BOOLEAN)' /\ (error \in BOOLEAN)'
    BY <1>3 DEF IInv, TypeOK
  <2> QED
    BY <1>7, <1>8, <2>1, <2>2, <2>3 DEF TypeOK, Cell
<1>10. Size' = Size + n
  <2>1. Size' = (IF full' THEN Capacity ELSE (tail' - head' + Capacity) % Capacity)
    BY DEF Size
  <2>2. (tail' - head' + Capacity) % Capacity
           = (IF tail' >= head' THEN tail' - head' ELSE tail' - head' + Capacity)
    BY <1>7, Distance
  <2> QED
    BY <2>1, <2>2, <1>0, <1>1, <1>2, <1>4a, <1>4, <1>6, CapacityAssumption DEF Cell
<1>11. SizeMatchesCounters'
  <2>1. full' => head' = tail'
    BY <1>0, <1>1, <1>2, <1>4a, <1>4, <1>6, CapacityAssumption DEF Cell
  <2>2. bytes_written' - bytes_read' = Size'
    BY <1>0, <1>1, <1>2, <1>3, <1>5, <1>10, CapacityAssumption
  <2> QED
    BY <2>1, <2>2 DEF SizeMatchesCounters
<1>12. EofIffDrained'
  BY <1>3 DEF IInv, EofIffDrained
<1> QED
  BY <1>9, <1>10, <1>11, <1>12 DEF IInv, n

LEMMA PopIInv ==
  ASSUME IInv, NEW len \in 0 .. Capacity, PopOutput(len)
  PROVE  IInv' /\ Size' = Size - len
<1>1. head \in Cell /\ tail \in Cell /\ bytes_written \in Nat /\ bytes_read \in Nat
  BY DEF IInv, TypeOK
<1>2. /\ Size = (IF full THEN Capacity
                 ELSE IF tail >= head THEN tail - head ELSE tail - head + Capacity)
      /\ Size \in 0 .. Capacity
  BY <1>1, SizeCases
<1>3. /\ len <= Size
      /\ head' = (head + len) % Capacity /\ full' = (full /\ len = 0)
      /\ inner_data' = inner_data /\ tail' = tail
      /\ bytes_read' = bytes_read + len /\ bytes_written' = bytes_written
      /\ eof' = (eof \/ (Size' = 0 /\ input_ended))
      /\ input_ended' = input_ended /\ error' = error
  BY DEF PopOutput, PopFront
<1>4. (full => head = tail) /\ bytes_written - bytes_read = Size
  BY DEF IInv, SizeMatchesCounters
<1>5. (full' <=> (full /\ len = 0)) /\ tail' = tail
  BY <1>3
<1>6. head' = (IF head + len < Capacity THEN head + len ELSE head + len - Capacity)
  BY <1>1, <1>3, Advance
<1>7. head' \in Cell /\ tail' \in Cell
  BY <1>1, <1>5, <1>6, CapacityAssumption DEF Cell
<1>8. TypeOK'
  <2>1. bytes_written' \in Nat /\ bytes_read' \in Nat
    BY <1>1, <1>3, CapacityAssumption
  <2>2. full' \in BOOLEAN /\ eof' \in BOOLEAN
    BY <1>3
  <2>3. (input_ended \in BOOLEAN)' /\ (error \in BOOLEAN)' /\ (inner_data \in [Cell -> Byte])'
    BY <1>3 DEF IInv, TypeOK, Cell
  <2> QED
    BY <1>7, <2>1, <2>2, <2>3 DEF TypeOK, Cell
<1>9. Size' = Size - len
  <2>1. Size' = (IF full' THEN Capacity ELSE (tail' - head' + Capacity) % Capacity)
    BY DEF Size
  <2>2. (tail' - head' + Capacity) % Capacity
           = (IF tail' >= head' THEN tail' - head' ELSE tail' - head' + Capacity)
    BY <1>7, Distance
  <2>3. len <= Size
    BY <1>3
  <2> QED
    BY <2>1, <2>2, <2>3, <1>1, <1>2, <1>4, <1>5, <1>6, CapacityAssumption DEF Cell
<1>10. SizeMatchesCounters'
  <2>1. full' => head' = tail'
    BY <1>1, <1>4, <1>5, <1>6, CapacityAssumption DEF Cell
  <2>2. bytes_written' - bytes_read' = Size'
    BY <1>1, <1>2, <1>3, <1>4, <1>9, CapacityAssumption
  <2> QED
    BY <2>1, <2>2 DEF SizeMatchesCounters
<1>11. EofIffDrained'
  <2>1. eof <=> (input_ended /\ bytes_read = bytes_written)
    BY DEF IInv, EofIffDrained
  <2>2. Size' = 0 <=> bytes_read' = bytes_written'
    BY <1>1, <1>2, <1>3, <1>4, <1>9, CapacityAssumption
  <2>3. bytes_read = bytes_written => bytes_read' = bytes_written'
    BY <1>1, <1>2, <1>3, <1>4, CapacityAssumption
  <2> QED
    BY <1>3, <2>1, <2>2, <2>3, Zenon DEF EofIffDrained
<1> QED
  BY <1>8, <1>9, <1>10, <1>11 DEF IInv

LEMMA EndIInv ==
  ASSUME IInv, RingEndInput
  PROVE  IInv' /\ Size' = Size
<1>1. UNCHANGED <<inner_data, head, tail, full, bytes_written, bytes_read, error>>
      /\ input_ended' = TRUE /\ eof' = (eof \/ Size = 0)
  BY DEF RingEndInput, ring
<1>2. Size' = Size
  BY <1>1 DEF Size
<1>3. TypeOK'
  BY <1>1 DEF IInv, TypeOK, Cell
<1>4. SizeMatchesCounters'
  BY <1>1, <1>2 DEF IInv, SizeMatchesCounters
<1>5. Size = 0 <=> bytes_read = bytes_written
  BY DEF IInv, SizeMatchesCounters, TypeOK
<1>6. EofIffDrained'
  BY <1>1, <1>5, Zenon DEF IInv, EofIffDrained
<1> QED
  BY <1>2, <1>3, <1>4, <1>6 DEF IInv

LEMMA ErrorIInv ==
  ASSUME IInv, RingSetError
  PROVE  IInv' /\ Size' = Size
<1>1. UNCHANGED <<inner_data, head, tail, full, bytes_written, bytes_read, input_ended, eof>>
      /\ error' = TRUE
  BY DEF RingSetError, ring
<1>2. Size' = Size
  BY <1>1 DEF Size
<1> QED
  BY <1>1, <1>2 DEF IInv, TypeOK, Cell, SizeMatchesCounters, EofIffDrained

LEMMA NextIInv == IInv /\ [RingNext]_ringVars => IInv'
<1> SUFFICES ASSUME IInv, [RingNext]_ringVars PROVE IInv'
  OBVIOUS
<1>1. CASE UNCHANGED ringVars
  BY <1>1 DEF ringVars, IInv, TypeOK, Cell, SizeMatchesCounters, EofIffDrained, Size
<1> QED
  BY <1>1, WriteIInv, PopIInv, EndIInv, ErrorIInv DEF RingNext

(* The two ends of the stream always agree on what the ring holds: size(),
   which push_back and pop_front compute from wrapped indices and full_, is
   bytes_written_ - bytes_read_, for every capacity. *)
THEOREM SizeAlwaysMatchesCounters == RingSpec => []SizeMatchesCounters
<1>1. IInv => SizeMatchesCounters
  BY DEF IInv
<1> QED
  BY <1>1, InitIInv, NextIInv, PTL DEF RingSpec

(* eof_ of byte_stream.cc is never early and never missed. *)
THEOREM EofIsExact == RingSpec => []EofIffDrained
<1>1. IInv => EofIffDrained
  BY DEF IInv
<1> QED
  BY <1>1, InitIInv, NextIInv, PTL DEF RingSpec
-----------------------------------------------------------------------------
(* What peek_front() shows, without its case distinction: the cells from
   head on, wrapping once. *)
Slot(h, k) == IF h + k - 1 < Capacity THEN h + k - 1 ELSE h + k - 1 - Capacity

Contents(cells, h, n) == [k \in 1..n |-> cells[Slot(h, k)]]

LEMMA PeekContents ==
  IInv => \A len \in 0 .. Size : PeekFront(len) = Contents(inner_data, head, len)
<1> SUFFICES ASSUME IInv, NEW len \in 0 .. Size
             PROVE  PeekFront(len) = Contents(inner_data, head, len)
  OBVIOUS
<1>1. head \in Cell /\ tail \in Cell /\ inner_data \in [Cell -> Byte]
  BY DEF IInv, TypeOK
<1>2. /\ Size = (IF full THEN Capacity
                 ELSE IF tail >= head THEN tail - head ELSE tail - head + Capacity)
      /\ Size \in 0 .. Capacity
  BY <1>1, SizeCases
<1>3. ASSUME (tail >= head /\ ~full) \/ Capacity - head >= len
      PROVE  Cells(head, len) = Contents(inner_data, head, len)
  <2>1. \A k \in 1 .. len : Slot(head, k) = head + k - 1
    BY <1>1, <1>2, <1>3, CapacityAssumption DEF Cell, Slot
  <2> QED
    BY <2>1 DEF Cells, Contents
<1>4. ASSUME Capacity - head < len
      PROVE  Cells(head, Capacity - head) \o Cells(0, len - (Capacity - head))
               = Contents(inner_data, head, len)
  <2> DEFINE a == Capacity - head
             s == Cells(head, a)
             t == Cells(0, len - a)
             u == Contents(inner_data, head, len)
  <2>1. a \in Nat /\ len - a \in Nat /\ len \in Nat /\ len <= Capacity /\ a <= len
    BY <1>1, <1>2, <1>4, CapacityAssumption DEF Cell
  <2>2. s \in Seq(Byte) /\ Len(s) = a /\ \A k \in 1..a : s[k] = inner_data[head + k - 1]
    <3>1. \A k \in 1 .. a : inner_data[head + k - 1] \in Byte
      BY <1>1, CapacityAssumption DEF Cell
    <3> QED
      BY <2>1, <3>1 DEF Cells
  <2>3. t \in Seq(Byte) /\ Len(t) = len - a /\ \A k \in 1..(len - a) : t[k] = inner_data[k - 1]
    <3>1. \A k \in 1 .. (len - a) : 0 + k - 1 = k - 1 /\ inner_data[k - 1] \in Byte
      BY <1>1, <2>1, CapacityAssumption DEF Cell
    <3> QED
      BY <2>1, <3>1 DEF Cells
  <2>4. u \in Seq(Byte) /\ Len(u) = len /\ \A k \in 1..len : u[k] = inner_data[Slot(head, k)]
    <3>1. \A k \in 1 .. len : inner_data[Slot(head, k)] \in Byte
      BY <1>1, <2>1, CapacityAssumption DEF Cell, Slot
    <3> QED
      BY <2>1, <3>1 DEF Contents
  <2> HIDE DEF s, t, u
  <2>5. s \o t \in Seq(Byte) /\ Len(s \o t) = len
    <3>1. s \o t \in Seq(Byte) /\ Len(s \o t) = Len(s) + Len(t)
      BY <2>2, <2>3, ConcatProperties
    <3> QED
      BY <3>1, <1>1, <2>1, <2>2, <2>3, CapacityAssumption DEF Cell
  <2>6. ASSUME NEW k \in 1 .. len PROVE (s \o t)[k] = u[k]
    <3>1. CASE k <= a
      <4>1. Slot(head, k) = head + k - 1
        BY <3>1, <1>1, <2>1, CapacityAssumption DEF Cell, Slot
      <4> QED
        BY <3>1, <4>1, <2>1, <2>2, <2>3, <2>4
    <3>2. CASE k > a
      <4>1. Slot(head, k) = k - a - 1 /\ k - a \in 1 .. len - a
        BY <3>2, <1>1, <2>1, CapacityAssumption DEF Cell, Slot
      <4>2. (s \o t)[k] = t[k - a]
        BY <3>2, <2>1, <2>2, <2>3
      <4> QED
        BY <4>1, <4>2, <2>3, <2>4
    <3>3. k <= a \/ k > a
      BY <2>1
    <3> QED
      BY <3>1, <3>2, <3>3
  <2>7. s \o t = u
    BY <2>4, <2>5, <2>6, SeqEqual
  <2> QED
    BY <2>7 DEF s, t, u
<1> QED
  BY <1>1, <1>2, <1>3, <1>4, CapacityAssumption DEF PeekFront, Cell

(* A sequence of cells read off the ring, entry by entry. *)
LEMMA ContentsSeq ==
  ASSUME NEW cells \in [Cell -> Byte], NEW h \in Cell, NEW n \in 0 .. Capacity
  PROVE  /\ Contents(cells, h, n) \in Seq(Byte) /\ Len(Contents(cells, h, n)) = n
         /\ \A k \in 1..n : Contents(cells, h, n)[k] = cells[Slot(h, k)]
         /\ \A k \in 1..n : Slot(h, k) \in Cell
<1>1. \A k \in 1..n : Slot(h, k) \in Cell
  BY CapacityAssumption DEF Cell, Slot
<1>2. n \in Nat /\ \A k \in 1..n : cells[Slot(h, k)] \in Byte
  BY <1>1, CapacityAssumption
<1> QED
  BY <1>1, <1>2 DEF Contents

(* push_back() appends: the cells already in use are left alone, and the
   accepted bytes follow them, whichever of its three branches is taken. *)
LEMMA WriteAppends ==
  ASSUME IInv, NEW data \in Data, Write(data)
  PROVE  Contents(inner_data, head, Size)'
           = Contents(inner_data, head, Size) \o SubSeq(data, 1, Accepted(data))
<1> DEFINE n == Accepted(data)
           m == Size
           old == Contents(inner_data, head, m)
           new == Contents(inner_data', head, m + n)
           add == SubSeq(data, 1, n)
<1>1. head \in Cell /\ tail \in Cell /\ inner_data \in [Cell -> Byte]
      /\ inner_data' \in [Cell -> Byte]
  BY WriteIInv DEF IInv, TypeOK, Cell
<1>2. /\ m = (IF full THEN Capacity
              ELSE IF tail >= head THEN tail - head ELSE tail - head + Capacity)
      /\ m \in 0 .. Capacity
  BY <1>1, SizeCases
<1>3. /\ n \in 0 .. Capacity - m /\ n <= Len(data)
      /\ data \in Seq(Byte) /\ Len(data) \in Nat
  BY AcceptedFits
<1>4. Size' = m + n /\ head' = head /\ inner_data' = PushedCells(data, n)
  BY WriteIInv DEF Write, PushBack
<1>5. full => head = tail
  BY DEF IInv, SizeMatchesCounters
<1> HIDE DEF n, m
<1>6. m + n \in 0 .. Capacity /\ n \in Nat /\ m \in Nat
  BY <1>2, <1>3, CapacityAssumption
<1>7. old \in Seq(Byte) /\ Len(old) = m
      /\ (\A k \in 1..m : old[k] = inner_data[Slot(head, k)])
      /\ (\A k \in 1..m : Slot(head, k) \in Cell)
  BY <1>1, <1>2, ContentsSeq
<1>8. new \in Seq(Byte) /\ Len(new) = m + n
      /\ (\A k \in 1..(m + n) : new[k] = inner_data'[Slot(head, k)])
      /\ (\A k \in 1..(m + n) : Slot(head, k) \in Cell)
  BY <1>1, <1>6, ContentsSeq
<1>9. add \in Seq(Byte) /\ Len(add) = n /\ \A k \in 1..n : add[k] = data[k]
  <2>1. \A i \in 1..n : data[i] \in Byte
    BY <1>3, <1>6
  <2> QED
    BY <2>1, <1>6, SubSeqProperties
<1>10. ASSUME NEW k \in 1..m PROVE inner_data'[Slot(head, k)] = inner_data[Slot(head, k)]
  <2>1. m <= Capacity /\ n <= Capacity - m /\ Capacity \in Nat \ {0}
    BY <1>2, <1>3, CapacityAssumption
  <2>2. Slot(head, k) \in Cell
    BY <1>7
  <2>3. CASE full
    BY <2>1, <2>2, <2>3, <1>1, <1>2, <1>4, <1>5, <1>6 DEF PushedCells, Memcpy, Room, Cell
  <2>4. CASE ~ full /\ tail >= head
    <3> DEFINE x == Slot(head, k)
    <3>1. x \in Cell /\ head <= x /\ x < tail
      BY <2>1, <2>2, <2>4, <1>1, <1>2, <1>6 DEF Slot, Cell
    <3>2. Room < n => n - Room <= head
      BY <2>1, <2>4, <1>1, <1>2, <1>6 DEF Room, Cell
    <3> HIDE DEF x
    <3>3. CASE Room < n
      <4> DEFINE first == Memcpy(inner_data, tail, data, 0, Room)
      <4>1. first[x] = inner_data[x]
        BY <3>1, <1>1 DEF Memcpy, Cell
      <4>2. inner_data' = Memcpy(first, 0, data, Room, n - Room)
        BY <3>3, <2>4, <1>4 DEF PushedCells
      <4> HIDE DEF first
      <4>3. ~ (x < 0 + (n - Room))
        BY <3>1, <3>2, <3>3, <1>1, <1>6, <2>1 DEF Room, Cell
      <4>4. inner_data'[x] = first[x]
        BY <4>2, <4>3, <3>1 DEF Memcpy
      <4> QED BY <4>1, <4>4 DEF x
    <3>4. CASE ~ (Room < n)
      <4>1. inner_data' = Memcpy(inner_data, tail, data, 0, n)
        BY <3>4, <1>4 DEF PushedCells
      <4>2. inner_data'[x] = inner_data[x]
        BY <4>1, <3>1, <1>1, <1>6 DEF Memcpy, Cell
      <4> QED BY <4>2 DEF x
    <3> QED BY <3>3, <3>4
  <2>5. CASE ~ full /\ tail < head
    <3> DEFINE x == Slot(head, k)
    <3>1. x \in Cell /\ (x < tail \/ x >= tail + n)
      BY <2>1, <2>2, <2>5, <1>1, <1>2, <1>6 DEF Slot, Cell
    <3>2. inner_data' = Memcpy(inner_data, tail, data, 0, n)
      BY <2>5, <1>1, <1>4 DEF PushedCells, Cell
    <3> HIDE DEF x
    <3>3. inner_data'[x] = inner_data[x]
      BY <3>1, <3>2, <1>1, <1>6 DEF Memcpy, Cell
    <3> QED BY <3>3 DEF x
  <2> QED
    BY <2>3, <2>4, <2>5, <1>1 DEF Cell
<1>11. ASSUME NEW k \in 1..n PROVE inner_data'[Slot(head, m + k)] = data[k]
  <2>1. ~ full /\ n <= Capacity - m /\ k \in 1..n /\ Capacity \in Nat \ {0}
    BY <1>2, <1>3, <1>6, CapacityAssumption
  <2> DEFINE x == Slot(head, m + k)
  <2>2. CASE tail >= head /\ Room < n
    BY <2>1, <2>2, <1>1, <1>2, <1>4, <1>6 DEF PushedCells, Memcpy, Room, Slot, Cell
  <2>3. CASE tail >= head /\ ~ (Room < n)
    BY <2>1, <2>3, <1>1, <1>2, <1>4, <1>6 DEF PushedCells, Memcpy, Room, Slot, Cell
  <2>4. CASE tail < head
    <3>1. x = tail + k - 1 /\ x \in Cell
      BY <2>1, <2>4, <1>1, <1>2, <1>6 DEF Slot, Cell
    <3>2. inner_data' = Memcpy(inner_data, tail, data, 0, n)
      BY <2>4, <1>1, <1>4 DEF PushedCells, Cell
    <3> HIDE DEF x
    <3>3. tail <= x /\ x < tail + n /\ x - tail + 0 + 1 = k
      BY <2>1, <3>1, <1>1, <1>6 DEF Cell
    <3>4. inner_data'[x] = data[x - tail + 0 + 1]
      BY <3>1, <3>2, <3>3 DEF Memcpy
    <3> QED BY <3>3, <3>4 DEF x
  <2> QED
    BY <2>2, <2>3, <2>4, <1>1 DEF Cell
<1>12. old \o add \in Seq(Byte) /\ Len(old \o add) = m + n
       /\ \A k \in 1..(m + n) : (old \o add)[k] = IF k <= m THEN old[k] ELSE add[k - m]
  BY <1>7, <1>9, ConcatProperties
<1> HIDE DEF old, new, add
<1>13. ASSUME NEW k \in 1..(m + n) PROVE new[k] = (old \o add)[k]
  <2>1. CASE k <= m
    <3>1. k \in 1..m
      BY <2>1, <1>6
    <3>2. (old \o add)[k] = old[k]
      BY <2>1, <1>12
    <3> QED
      BY <3>1, <3>2, <1>7, <1>8, <1>10
  <2>2. CASE k > m
    <3>1. k - m \in 1..n /\ m + (k - m) = k
      BY <2>2, <1>6
    <3>2. inner_data'[Slot(head, k)] = data[k - m]
      BY <3>1, <1>11
    <3> QED
      BY <3>1, <3>2, <2>2, <1>6, <1>8, <1>9, <1>12
  <2>3. k <= m \/ k > m
    BY <1>6
  <2> QED
    BY <2>1, <2>2, <2>3
<1>14. new = old \o add
  BY <1>8, <1>12, <1>13, SeqEqual
<1> QED
  BY <1>4, <1>14 DEF old, new, add, n, m, Contents, Slot

(* pop_front() drops the bytes at the front and leaves the rest in place. *)
LEMMA PopDrops ==
  ASSUME IInv, NEW len \in 0 .. Capacity, PopOutput(len)
  PROVE  Contents(inner_data, head, Size)'
           = SubSeq(Contents(inner_data, head, Size), len + 1, Size)
<1> DEFINE m == Size
           old == Contents(inner_data, head, m)
           new == Contents(inner_data, head', m - len)
           cut == SubSeq(old, len + 1, m)
<1>1. head \in Cell /\ head' \in Cell /\ inner_data \in [Cell -> Byte]
  BY PopIInv DEF IInv, TypeOK, Cell
<1>2. m \in 0 .. Capacity /\ len <= m
  BY <1>1, SizeCases DEF IInv, TypeOK, PopOutput
<1>3. Size' = m - len /\ inner_data' = inner_data /\ head' = (head + len) % Capacity
  BY PopIInv DEF PopOutput, PopFront
<1> HIDE DEF m
<1>4. m \in Nat /\ len \in Nat /\ m - len \in 0 .. Capacity /\ m - len \in Nat
  BY <1>2, CapacityAssumption
<1>5. head' = (IF head + len < Capacity THEN head + len ELSE head + len - Capacity)
  BY <1>1, <1>3, Advance
<1>6. old \in Seq(Byte) /\ Len(old) = m
      /\ (\A k \in 1..m : old[k] = inner_data[Slot(head, k)])
  BY <1>1, <1>2, ContentsSeq
<1>7. new \in Seq(Byte) /\ Len(new) = m - len
      /\ (\A k \in 1..(m - len) : new[k] = inner_data[Slot(head', k)])
  BY <1>1, <1>4, ContentsSeq
<1>8. cut \in Seq(Byte) /\ Len(cut) = m - len
      /\ \A k \in 1..(m - len) : cut[k] = old[len + k]
  <2> HIDE DEF old
  <2>1. \A i \in len + 1 .. m : old[i] \in Byte
    BY <1>4, <1>6
  <2>2. /\ cut \in Seq(Byte)
        /\ Len(cut) = IF len + 1 <= m THEN m - (len + 1) + 1 ELSE 0
        /\ \A k \in 1 .. m - (len + 1) + 1 : cut[k] = old[(len + 1) + k - 1]
    BY <2>1, <1>4, SubSeqProperties
  <2> HIDE DEF cut
  <2> QED
    BY <2>2, <1>2, <1>4
<1>9. ASSUME NEW k \in 1..(m - len) PROVE Slot(head', k) = Slot(head, len + k)
  BY <1>1, <1>2, <1>4, <1>5, CapacityAssumption DEF Slot, Cell
<1> HIDE DEF old, new, cut
<1>10. ASSUME NEW k \in 1..(m - len) PROVE new[k] = cut[k]
  <2>1. len + k \in 1..m
    BY <1>4
  <2> QED
    BY <2>1, <1>6, <1>7, <1>8, <1>9
<1>11. new = cut
  BY <1>7, <1>8, <1>10, SeqEqual
<1> QED
  BY <1>3, <1>11 DEF old, new, cut, m, Contents, Slot

-----------------------------------------------------------------------------
(* The ring implements the queue.  *)
LEMMA MappedContents ==
  IInv => /\ PeekFront(Size) = Contents(inner_data, head, Size)
          /\ Len(PeekFront(Size)) = Size
          /\ Size \in 0 .. Capacity
<1> SUFFICES ASSUME IInv
             PROVE  /\ PeekFront(Size) = Contents(inner_data, head, Size)
                    /\ Len(PeekFront(Size)) = Size
                    /\ Size \in 0 .. Capacity
  OBVIOUS
<1>1. head \in Cell /\ inner_data \in [Cell -> Byte] /\ Size \in 0 .. Capacity
  BY SizeCases DEF IInv, TypeOK
<1>2. PeekFront(Size) = Contents(inner_data, head, Size)
  BY <1>1, PeekContents
<1> QED
  BY <1>1, <1>2, ContentsSeq

LEMMA MappedContentsNext ==
  IInv' => PeekFront(Size)' = Contents(inner_data, head, Size)'
<1>1. IInv' => (PeekFront(Size) = Contents(inner_data, head, Size))'
  BY MappedContents, PTL
<1> QED
  BY <1>1

(* Stream records are compared field by field. *)
StreamSet ==
  [capacity : Nat, queue : Seq(Byte), bytes_written : Nat, bytes_read : Nat,
   input_ended : BOOLEAN, error : BOOLEAN]

LEMMA StreamEqual ==
  ASSUME NEW s \in StreamSet, NEW t \in StreamSet,
         s.capacity = t.capacity, s.queue = t.queue,
         s.bytes_written = t.bytes_written, s.bytes_read = t.bytes_read,
         s.input_ended = t.input_ended, s.error = t.error
  PROVE  s = t
  BY DEF StreamSet

LEMMA MappedInSet == IInv => MappedStream \in StreamSet
<1> SUFFICES ASSUME IInv PROVE MappedStream \in StreamSet
  OBVIOUS
<1>1. PeekFront(Size) \in Seq(Byte)
  BY MappedContents, ContentsSeq DEF IInv, TypeOK
<1>2. Capacity \in Nat
  BY CapacityAssumption
<1> QED
  BY <1>1, <1>2 DEF MappedStream, StreamSet, IInv, TypeOK

LEMMA MappedInSetNext == IInv' => MappedStream' \in StreamSet
<1>1. IInv' => (MappedStream \in StreamSet)'
  BY MappedInSet, PTL
<1> QED
  BY <1>1 DEF StreamSet

LEMMA WriteUpdate ==
  ASSUME NEW s \in StreamSet, NEW u \in StreamSet,
         u.capacity = s.capacity, u.bytes_read = s.bytes_read, u.input_ended = s.input_ended, u.error = s.error
  PROVE  u = [s EXCEPT !.queue = u.queue, !.bytes_written = u.bytes_written]
<1> DEFINE t == [s EXCEPT !.queue = u.queue, !.bytes_written = u.bytes_written]
<1>1. t \in StreamSet
  BY Zenon DEF StreamSet
<1>2. /\ t.capacity = u.capacity /\ t.queue = u.queue
      /\ t.bytes_written = u.bytes_written /\ t.bytes_read = u.bytes_read
      /\ t.input_ended = u.input_ended /\ t.error = u.error
  BY Zenon DEF StreamSet
<1> HIDE DEF t
<1>3. u = t
  BY <1>1, <1>2, StreamEqual
<1> QED
  BY <1>3 DEF t

LEMMA PopUpdate ==
  ASSUME NEW s \in StreamSet, NEW u \in StreamSet,
         u.capacity = s.capacity, u.bytes_written = s.bytes_written, u.input_ended = s.input_ended, u.error = s.error
  PROVE  u = [s EXCEPT !.queue = u.queue, !.bytes_read = u.bytes_read]
<1> DEFINE t == [s EXCEPT !.queue = u.queue, !.bytes_read = u.bytes_read]
<1>1. t \in StreamSet
  BY Zenon DEF StreamSet
<1>2. /\ t.capacity = u.capacity /\ t.queue = u.queue
      /\ t.bytes_written = u.bytes_written /\ t.bytes_read = u.bytes_read
      /\ t.input_ended = u.input_ended /\ t.error = u.error
  BY Zenon DEF StreamSet
<1> HIDE DEF t
<1>3. u = t
  BY <1>1, <1>2, StreamEqual
<1> QED
  BY <1>3 DEF t

LEMMA EndUpdate ==
  ASSUME NEW s \in StreamSet, NEW u \in StreamSet,
         u.capacity = s.capacity, u.queue = s.queue, u.bytes_written = s.bytes_written, u.bytes_read = s.bytes_read, u.error = s.error
  PROVE  u = [s EXCEPT !.input_ended = u.input_ended]
<1> DEFINE t == [s EXCEPT !.input_ended = u.input_ended]
<1>1. t \in StreamSet
  BY Zenon DEF StreamSet
<1>2. /\ t.capacity = u.capacity /\ t.queue = u.queue
      /\ t.bytes_written = u.bytes_written /\ t.bytes_read = u.bytes_read
      /\ t.input_ended = u.input_ended /\ t.error = u.error
  BY Zenon DEF StreamSet
<1> HIDE DEF t
<1>3. u = t
  BY <1>1, <1>2, StreamEqual
<1> QED
  BY <1>3 DEF t

LEMMA ErrorUpdate ==
  ASSUME NEW s \in StreamSet, NEW u \in StreamSet,
         u.capacity = s.capacity, u.queue = s.queue, u.bytes_written = s.bytes_written, u.bytes_read = s.bytes_read, u.input_ended = s.input_ended
  PROVE  u = [s EXCEPT !.error = u.error]
<1> DEFINE t == [s EXCEPT !.error = u.error]
<1>1. t \in StreamSet
  BY Zenon DEF StreamSet
<1>2. /\ t.capacity = u.capacity /\ t.queue = u.queue
      /\ t.bytes_written = u.bytes_written /\ t.bytes_read = u.bytes_read
      /\ t.input_ended = u.input_ended /\ t.error = u.error
  BY Zenon DEF StreamSet
<1> HIDE DEF t
<1>3. u = t
  BY <1>1, <1>2, StreamEqual
<1> QED
  BY <1>3 DEF t

LEMMA MappedFields ==
  /\ MappedStream.capacity = Capacity /\ MappedStream.queue = PeekFront(Size)
  /\ MappedStream.bytes_written = bytes_written /\ MappedStream.bytes_read = bytes_read
  /\ MappedStream.input_ended = input_ended /\ MappedStream.error = error
  /\ MappedStream'.capacity = Capacity /\ MappedStream'.queue = PeekFront(Size)'
  /\ MappedStream'.bytes_written = bytes_written' /\ MappedStream'.bytes_read = bytes_read'
  /\ MappedStream'.input_ended = input_ended' /\ MappedStream'.error = error'
  BY Zenon DEF MappedStream

LEMMA RefineWrite ==
  ASSUME IInv, NEW data \in Data, Write(data)
  PROVE  Queue!Write(data)
<1> DEFINE n == Accepted(data)
<1>1. IInv' /\ PeekFront(Size)' = Contents(inner_data, head, Size)'
  BY WriteIInv, MappedContentsNext
<1>2. PeekFront(Size) = Contents(inner_data, head, Size) /\ Len(PeekFront(Size)) = Size
  BY MappedContents
<1>3. PeekFront(Size)' = PeekFront(Size) \o SubSeq(data, 1, n)
  BY <1>1, <1>2, WriteAppends
<1>4. /\ ~input_ended /\ bytes_written' = bytes_written + n
      /\ UNCHANGED <<bytes_read, input_ended, error>>
  BY DEF Write, flags
<1>4a. io' = data
  BY DEF Write
<1>5. n = Queue!Least(Len(data), Queue!RemainingCapacity(MappedStream))
  BY <1>2, MappedFields DEF Accepted, RemainingSize, Queue!Least, Queue!RemainingCapacity,
                            Queue!BufferSize
<1>6. MappedStream \in StreamSet /\ MappedStream' \in StreamSet
  BY <1>1, MappedInSet, MappedInSetNext
<1>7. MappedStream' = [MappedStream EXCEPT !.queue = MappedStream'.queue,
                                           !.bytes_written = MappedStream'.bytes_written]
  <2>1. /\ MappedStream'.capacity = MappedStream.capacity /\ MappedStream'.bytes_read = MappedStream.bytes_read
        /\ MappedStream'.input_ended = MappedStream.input_ended /\ MappedStream'.error = MappedStream.error
    BY <1>4, MappedFields
  <2> QED
    BY <2>1, <1>6, WriteUpdate, Zenon
<1>8. /\ MappedStream'.queue = MappedStream.queue \o SubSeq(data, 1, n)
      /\ MappedStream'.bytes_written = MappedStream.bytes_written + n
      /\ ~MappedStream.input_ended
  BY <1>3, <1>4, MappedFields
<1> HIDE DEF n
<1> QED
  BY <1>4a, <1>5, <1>7, <1>8, Zenon DEF Queue!Write, Queue!WriteStream

(* A shorter peek shows the beginning of a longer one, although the two may
   take different branches of peek_front(). *)
LEMMA PeekIsPrefix ==
  ASSUME IInv, NEW len \in 0 .. Size
  PROVE  PeekFront(len) = SubSeq(PeekFront(Size), 1, len)
<1> DEFINE m == Size
           all == Contents(inner_data, head, m)
           some == Contents(inner_data, head, len)
           cut == SubSeq(all, 1, len)
<1>1. head \in Cell /\ inner_data \in [Cell -> Byte] /\ m \in 0 .. Capacity
  BY SizeCases DEF IInv, TypeOK
<1>2. PeekFront(len) = some /\ PeekFront(m) = all
  BY <1>1, PeekContents
<1> HIDE DEF m
<1>3. m \in Nat /\ len \in 0 .. m /\ len \in Nat /\ len \in 0 .. Capacity
  BY <1>1, CapacityAssumption DEF m
<1>4. all \in Seq(Byte) /\ Len(all) = m /\ \A k \in 1..m : all[k] = inner_data[Slot(head, k)]
  BY <1>1, ContentsSeq
<1>5. some \in Seq(Byte) /\ Len(some) = len /\ \A k \in 1..len : some[k] = inner_data[Slot(head, k)]
  BY <1>1, <1>3, ContentsSeq
<1> HIDE DEF all, some
<1>6. cut \in Seq(Byte) /\ Len(cut) = len /\ \A k \in 1..len : cut[k] = all[k]
  <2>1. \A i \in 1..len : all[i] \in Byte
    BY <1>3, <1>4
  <2> QED
    BY <2>1, <1>3, SubSeqProperties
<1> HIDE DEF cut
<1>7. ASSUME NEW k \in 1..len PROVE some[k] = cut[k]
  BY <1>3, <1>4, <1>5, <1>6
<1>8. some = cut
  BY <1>5, <1>6, <1>7, SeqEqual
<1> QED
  BY <1>2, <1>8 DEF cut, m

LEMMA RefinePop ==
  ASSUME IInv, NEW len \in 0 .. Capacity, PopOutput(len)
  PROVE  Queue!Read(len)
<1>1. IInv' /\ PeekFront(Size)' = Contents(inner_data, head, Size)'
  BY PopIInv, MappedContentsNext
<1>2. PeekFront(Size) = Contents(inner_data, head, Size) /\ Len(PeekFront(Size)) = Size
  BY MappedContents
<1>3. PeekFront(Size)' = SubSeq(PeekFront(Size), len + 1, Len(PeekFront(Size)))
  BY <1>1, <1>2, PopDrops
<1>4. /\ len <= Size /\ bytes_read' = bytes_read + len
      /\ UNCHANGED <<bytes_written, input_ended, error>>
  BY DEF PopOutput
<1>5. MappedStream \in StreamSet /\ MappedStream' \in StreamSet
  BY <1>1, MappedInSet, MappedInSetNext
<1>6. MappedStream' = [MappedStream EXCEPT !.queue = MappedStream'.queue,
                                           !.bytes_read = MappedStream'.bytes_read]
  <2>1. /\ MappedStream'.capacity = MappedStream.capacity /\ MappedStream'.bytes_written = MappedStream.bytes_written
        /\ MappedStream'.input_ended = MappedStream.input_ended /\ MappedStream'.error = MappedStream.error
    BY <1>4, MappedFields
  <2> QED
    BY <2>1, <1>5, PopUpdate, Zenon
<1>7. /\ MappedStream'.queue = SubSeq(MappedStream.queue, len + 1, Len(MappedStream.queue))
      /\ MappedStream'.bytes_read = MappedStream.bytes_read + len
      /\ len <= Len(MappedStream.queue)
  BY <1>2, <1>3, <1>4, MappedFields
<1>8. io' = SubSeq(MappedStream.queue, 1, len)
  <2>1. len \in 0 .. Size
    BY <1>4, MappedContents, CapacityAssumption
  <2> QED
    BY <2>1, PeekIsPrefix, MappedFields DEF PopOutput
<1> QED
  BY <1>6, <1>7, <1>8, Zenon DEF Queue!Read, Queue!PopStream, Queue!PeekStream, Queue!BufferSize

(* end_input() and set_error() leave the contents alone. *)
LEMMA SameContents ==
  ASSUME UNCHANGED <<inner_data, head, tail, full>>
  PROVE  PeekFront(Size)' = PeekFront(Size)
  BY DEF PeekFront, Size, Cells

(* The ring buffer of byte_stream.cc implements the bounded FIFO queue of
   module ByteQueue, with the same strings given to write() and returned by
   read(): bytes come out in the order they went in, none is lost,
   repeated or overwritten by a wrap-around, and write() accepts exactly the
   prefix that fits. *)
THEOREM RingImplementsQueue == RingSpec => ImplementsQueue
<1>1. RingInit => Queue!Init
  <2> SUFFICES ASSUME RingInit PROVE Queue!Init
    OBVIOUS
  <2>1. 0 \in Cell
    BY CapacityAssumption DEF Cell
  <2>2. Size = 0
    BY <2>1, Distance DEF RingInit, Size
  <2>3. PeekFront(Size) = <<>>
    BY <2>2 DEF RingInit, PeekFront, Cells
  <2> QED
    BY <2>3 DEF RingInit, Queue!Init, Queue!NewStream, MappedStream
<1>2. IInv /\ [RingNext]_ringVars => [Queue!Next]_(Queue!vars)
  <2> SUFFICES ASSUME IInv, [RingNext]_ringVars PROVE [Queue!Next]_(Queue!vars)
    OBVIOUS
  <2>1. CASE \E data \in Data : Write(data)
    BY <2>1, RefineWrite DEF Queue!Next
  <2>2. CASE \E len \in 0 .. Capacity : PopOutput(len)
    BY <2>2, RefinePop DEF Queue!Next
  <2>3. CASE RingEndInput
    <3>1. PeekFront(Size)' = PeekFront(Size)
      BY <2>3, SameContents DEF RingEndInput, ring
    <3>2. MappedStream \in StreamSet /\ MappedStream' \in StreamSet
      BY <2>3, EndIInv, MappedInSet, MappedInSetNext
    <3>3. MappedStream' = [MappedStream EXCEPT !.input_ended = MappedStream'.input_ended]
      <4>1. /\ MappedStream'.capacity = MappedStream.capacity /\ MappedStream'.queue = MappedStream.queue
            /\ MappedStream'.bytes_written = MappedStream.bytes_written /\ MappedStream'.bytes_read = MappedStream.bytes_read
            /\ MappedStream'.error = MappedStream.error
        BY <2>3, <3>1, MappedFields DEF RingEndInput
      <4> QED
        BY <4>1, <3>2, EndUpdate, Zenon
    <3>4. MappedStream'.input_ended = TRUE
      BY <2>3, MappedFields DEF RingEndInput
    <3>5. Queue!End
      BY <2>3, <3>3, <3>4, Zenon DEF RingEndInput, Queue!End, Queue!EndInput
    <3> QED
      BY <3>5 DEF Queue!Next
  <2>4. CASE RingSetError
    <3>1. PeekFront(Size)' = PeekFront(Size)
      BY <2>4, SameContents DEF RingSetError, ring
    <3>2. MappedStream \in StreamSet /\ MappedStream' \in StreamSet
      BY <2>4, ErrorIInv, MappedInSet, MappedInSetNext
    <3>3. MappedStream' = [MappedStream EXCEPT !.error = MappedStream'.error]
      <4>1. /\ MappedStream'.capacity = MappedStream.capacity /\ MappedStream'.queue = MappedStream.queue
            /\ MappedStream'.bytes_written = MappedStream.bytes_written /\ MappedStream'.bytes_read = MappedStream.bytes_read
            /\ MappedStream'.input_ended = MappedStream.input_ended
        BY <2>4, <3>1, MappedFields DEF RingSetError
      <4> QED
        BY <4>1, <3>2, ErrorUpdate, Zenon
    <3>4. MappedStream'.error = TRUE
      BY <2>4, MappedFields DEF RingSetError
    <3>5. Queue!Fail
      BY <2>4, <3>3, <3>4, Zenon DEF RingSetError, Queue!Fail, Queue!SetError
    <3> QED
      BY <3>5 DEF Queue!Next
  <2>5. CASE UNCHANGED ringVars
    <3>1. PeekFront(Size)' = PeekFront(Size)
      BY <2>5, SameContents DEF ringVars
    <3> QED
      BY <2>5, <3>1 DEF ringVars, MappedStream, Queue!vars
  <2> QED
    BY <2>1, <2>2, <2>3, <2>4, <2>5 DEF RingNext
<1> QED
  BY <1>1, <1>2, InitIInv, NextIInv, PTL DEF RingSpec, ImplementsQueue, Queue!Spec
=============================================================================
