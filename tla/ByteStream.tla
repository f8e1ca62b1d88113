----------------------------- MODULE ByteStream -----------------------------
(***************************************************************************)
(* A ByteStream (byte_stream.hh/.cc) as its users see it: a bounded FIFO   *)
(* queue of bytes with counters at both ends and an "input ended" mark.    *)
(* The operators take a stream record and return the record after the call.*)
(* Module RingBuffer models the representation (a ring of Capacity cells   *)
(* and the flags full_ and eof_) and is shown to implement this queue.     *)
(***************************************************************************)
EXTENDS Integers, Sequences

Least(a, b) == IF a <= b THEN a ELSE b
Greatest(a, b) == IF a >= b THEN a ELSE b

\* ByteStream::ByteStream(capacity)
NewStream(capacity) ==
  [capacity |-> capacity, queue |-> <<>>, bytes_written |-> 0,
   bytes_read |-> 0, input_ended |-> FALSE, error |-> FALSE]

BufferSize(s) == Len(s.queue)
RemainingCapacity(s) == s.capacity - BufferSize(s)

\* eof_ is raised by end_input() on an empty buffer and by the pop that
\* empties an ended stream; since an ended stream takes no more bytes, it is
\* this predicate (RingBuffer!EofIffDrained).
Eof(s) == s.input_ended /\ s.queue = <<>>

\* write(): the prefix of data that fits is accepted.
WriteStream(s, data) ==
  LET count == Least(Len(data), RemainingCapacity(s))
  IN  [s EXCEPT !.queue = @ \o SubSeq(data, 1, count),
                !.bytes_written = @ + count]

\* peek_output() and pop_output(); read() is the one followed by the other.
PeekStream(s, len) == SubSeq(s.queue, 1, len)
PopStream(s, len) ==
  [s EXCEPT !.queue = SubSeq(@, len + 1, Len(@)), !.bytes_read = @ + len]

EndInput(s) == [s EXCEPT !.input_ended = TRUE]
SetError(s) == [s EXCEPT !.error = TRUE]
=============================================================================
