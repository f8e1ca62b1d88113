----------------------------- MODULE RingBuffer -----------------------------
(***************************************************************************)
(* ByteStream and the RingBuffer it is built on (byte_stream.hh/.cc), as   *)
(* they are represented: Capacity cells, a head and a tail index that are  *)
(* equal both when the ring is empty and when it is full (full_ tells the  *)
(* two apart), byte counters and the stored flag eof_.                     *)
(***************************************************************************)
EXTENDS Integers, Sequences

CONSTANTS Byte,       \* the values of a char
          Capacity,   \* capacity_
          Data,       \* the strings the writer offers
          MaxBytes    \* bound: bytes accepted in one behaviour

ASSUME CapacityAssumption == Capacity \in Nat \ {0}
ASSUME DataAssumption == Data \subseteq Seq(Byte)
ASSUME MaxBytesAssumption == MaxBytes \in Nat

VARIABLES inner_data, head, tail, full,
          bytes_written, bytes_read, input_ended, eof, error,
          io   \* what the last call was given by write() or returned by read()

ring == <<inner_data, head, tail, full>>
flags == <<input_ended, eof, error>>
ringVars == <<inner_data, head, tail, full, bytes_written, bytes_read,
          input_ended, eof, error, io>>

Cell == 0 .. Capacity - 1

Size == IF full THEN Capacity ELSE (tail - head + Capacity) % Capacity
RemainingSize == Capacity - Size

\* The cells are uninitialised: init() only allocates them.
RingInit ==
  /\ inner_data \in [Cell -> Byte]
  /\ head = 0 /\ tail = 0 /\ full = FALSE
  /\ bytes_written = 0 /\ bytes_read = 0
  /\ input_ended = FALSE /\ eof = FALSE /\ error = FALSE /\ io = <<>>

\* memcpy(cells + to, data + from, n)
Memcpy(cells, to, data, from, n) ==
  [i \in Cell |-> IF to <= i /\ i < to + n THEN data[i - to + from + 1] ELSE cells[i]]

Room == Capacity - tail

\* Mutant: the part after the wrap is copied from the start of the data.
PushedCellsRepeated(data, len) ==
  IF tail >= head /\ Room < len
  THEN Memcpy(Memcpy(inner_data, tail, data, 0, Room), 0, data, 0, len - Room)
  ELSE Memcpy(inner_data, tail, data, 0, len)

PushedCells(data, len) ==
  IF tail >= head /\ Room < len
  THEN Memcpy(Memcpy(inner_data, tail, data, 0, Room), 0, data, Room, len - Room)
  ELSE Memcpy(inner_data, tail, data, 0, len)

\* Mutant: a push that fills the ring does not say so.
PushBackNeverFull(data, len) ==
  /\ inner_data' = PushedCells(data, len)
  /\ tail' = (tail + len) % Capacity
  /\ UNCHANGED <<full, head>>

PushBack(data, len) ==
  /\ inner_data' = PushedCells(data, len)
  /\ tail' = (tail + len) % Capacity
  /\ full' = (full \/ ((tail + len) % Capacity = head /\ len > 0))
  /\ head' = head

PopFront(len) ==
  /\ head' = (head + len) % Capacity
  /\ full' = (full /\ len = 0)
  /\ UNCHANGED <<inner_data, tail>>

\* std::copy of the cells [from, from + n)
Cells(from, n) == [k \in 1..n |-> inner_data[from + k - 1]]

PeekFront(len) ==
  IF (tail >= head /\ ~full) \/ Capacity - head >= len
  THEN Cells(head, len)
  ELSE Cells(head, Capacity - head) \o Cells(0, len - (Capacity - head))

\* write() with push_str(); its assertion is the caller's obligation not to
\* write after end_input().
Accepted(data) == IF Len(data) <= RemainingSize THEN Len(data) ELSE RemainingSize

Write(data) ==
  /\ ~input_ended
  /\ bytes_written + Accepted(data) <= MaxBytes
  /\ PushBack(data, Accepted(data))
  /\ bytes_written' = bytes_written + Accepted(data)
  /\ io' = data
  /\ UNCHANGED <<bytes_read, flags>>

\* Mutant: only end_input() raises eof_.
PopOutputNoEof(len) ==
  /\ len <= Size /\ PopFront(len)
  /\ bytes_read' = bytes_read + len /\ io' = PeekFront(len)
  /\ UNCHANGED <<bytes_written, flags>>

\* read(): peek_output(), whose result is returned, and pop_output().
PopOutput(len) ==
  /\ len <= Size
  /\ PopFront(len)
  /\ bytes_read' = bytes_read + len
  /\ eof' = (eof \/ (Size' = 0 /\ input_ended))
  /\ io' = PeekFront(len)
  /\ UNCHANGED <<bytes_written, input_ended, error>>

RingEndInput ==
  /\ input_ended' = TRUE
  /\ eof' = (eof \/ Size = 0)
  /\ io' = <<>>
  /\ UNCHANGED <<ring, bytes_written, bytes_read, error>>

RingSetError ==
  /\ error' = TRUE /\ io' = <<>>
  /\ UNCHANGED <<ring, bytes_written, bytes_read, input_ended, eof>>

RingNext ==
  \/ \E data \in Data : Write(data)
  \/ \E len \in 0..Capacity : PopOutput(len)
  \/ RingEndInput
  \/ RingSetError

RingSpec == RingInit /\ [][RingNext]_ringVars
-----------------------------------------------------------------------------
TypeOK ==
  /\ inner_data \in [Cell -> Byte]
  /\ head \in Cell /\ tail \in Cell
  /\ bytes_written \in Nat /\ bytes_read \in Nat
  /\ full \in BOOLEAN /\ input_ended \in BOOLEAN
  /\ eof \in BOOLEAN /\ error \in BOOLEAN

\* size(), computed from the two indices and full_, agrees with what the
\* counters of ByteStream say is inside, and a full ring has equal indices.
SizeMatchesCounters ==
  /\ bytes_written - bytes_read = Size
  /\ full => head = tail

\* eof() is raised exactly when the input has ended and everything written
\* has been read: the assertion of pop_output(), and the condition on which
\* TCPConnection decides to close.
EofIffDrained == eof <=> (input_ended /\ bytes_read = bytes_written)

\* The ring, seen through peek_front(size()).
MappedStream ==
  [capacity |-> Capacity, queue |-> PeekFront(Size),
   bytes_written |-> bytes_written, bytes_read |-> bytes_read,
   input_ended |-> input_ended, error |-> error]

Queue == INSTANCE ByteQueue WITH stream <- MappedStream

\* push_back, pop_front and peek_front together behave as the bounded FIFO
\* queue of ByteQueue for the same calls: what write() is given comes out of
\* read() in order, a wrap around the end of the ring loses, repeats and
\* overwrites nothing, and write() takes exactly the prefix that fits.
ImplementsQueue == Queue!Spec
=============================================================================
