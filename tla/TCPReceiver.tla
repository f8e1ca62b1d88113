---------------------------- MODULE TCPReceiver ----------------------------
(***************************************************************************)
(* TCPReceiver (tcp_receiver.hh/.cc): turns wrapped sequence numbers into  *)
(* stream indices, cuts segments to the window, feeds the reassembler, and *)
(* computes the acknowledgment number and the window it advertises.  The   *)
(* operators take a receiver record and return the record after the call.  *)
(***************************************************************************)
EXTENDS StreamReassembler, WrappingIntegers

NewReceiver(capacity) ==
  [reassembler |-> NewReassembler(capacity), capacity |-> capacity,
   received_syn |-> FALSE, received_fin |-> FALSE,
   isn |-> 0, abs_fin_seqno |-> 0, checkpoint |-> 0]

stream_out(t) == t.reassembler.output

\* Mutant: the window also excludes what waits for reassembly.
window_shrinking(t) ==
  t.capacity - BufferSize(stream_out(t)) - t.reassembler.unasm_bytes

window_size(t) == t.capacity - BufferSize(stream_out(t))

\* SYN, the bytes written, and FIN once everything before it is written.
get_abs_ackno(t) ==
  LET abs_ackno == 1 + stream_out(t).bytes_written
  IN  IF t.received_fin /\ abs_ackno = t.abs_fin_seqno THEN abs_ackno + 1 ELSE abs_ackno

has_ackno(t) == t.received_syn
ackno(t) == wrap(get_abs_ackno(t), t.isn)

\* A FIN is remembered before the segment is held against the window.
NoteFin(t, seg, stream_index) ==
  IF seg.fin /\ ~t.received_fin
  THEN [t EXCEPT !.received_fin = TRUE,
                 !.abs_fin_seqno = stream_index + 1 + Len(seg.payload)]
  ELSE t

\* Mutant: FIN is not passed on to the reassembler.
PushWithoutEof(t, seg, stream_index) ==
  LET room == get_abs_ackno(t) + window_size(t) - (stream_index + 1)
  IN  [t EXCEPT !.reassembler =
         push_substring(@, SubSeq(seg.payload, 1, Least(room, Len(seg.payload))), stream_index, FALSE)]

\* The part of the segment inside the window goes to the reassembler; when
\* something is cut off, so is the mark that the stream ends here.
PushInWindow(t, seg, stream_index) ==
  LET win_end == get_abs_ackno(t) + window_size(t)
      room == win_end - (stream_index + 1)
      push(data, eof) ==
        [t EXCEPT !.reassembler = push_substring(@, data, stream_index, eof)]
  IN  CASE Len(seg.payload) <= room -> push(seg.payload, seg.fin)
        [] 0 < room /\ room < Len(seg.payload) -> push(SubSeq(seg.payload, 1, room), FALSE)
        [] OTHER -> t

\* Mutant: SYN is not subtracted from the absolute number.
AcceptShifted(t, seg) ==
  LET abs_seqno == unwrap(seg.seqno, t.isn, t.checkpoint)
      at == IF abs_seqno = 0 THEN t ELSE [t EXCEPT !.checkpoint = abs_seqno]
  IN  IF abs_seqno = 0 /\ ~seg.syn THEN t
      ELSE PushInWindow(NoteFin(at, seg, abs_seqno), seg, abs_seqno)

AcceptSegment(t, seg) ==
  LET abs_seqno == unwrap(seg.seqno, t.isn, t.checkpoint)
      stream_index == Greatest(0, abs_seqno - 1)
      at == IF abs_seqno = 0 THEN t ELSE [t EXCEPT !.checkpoint = abs_seqno]
  IN  IF abs_seqno = 0 /\ ~seg.syn THEN t
      ELSE PushInWindow(NoteFin(at, seg, stream_index), seg, stream_index)

receiver_segment_received(t, seg) ==
  CASE ~t.received_syn /\ ~seg.syn -> t
    [] ~t.received_syn /\ seg.syn ->
         AcceptSegment([t EXCEPT !.received_syn = TRUE, !.isn = seg.seqno], seg)
    [] OTHER -> AcceptSegment(t, seg)
=============================================================================
