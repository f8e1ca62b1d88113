--------------------------- MODULE TCPConnection ---------------------------
(***************************************************************************)
(* TCPConnection (tcp_connection.hh/.cc): one TCPReceiver and one TCPSender*)
(* put together, with the rules by which a connection ends: cleanly, with  *)
(* or without lingering, or by a reset.  The operators take a connection   *)
(* record and return the record after the call; segments_out_ holds what   *)
(* the owner has to put on the network after it.                           *)
(***************************************************************************)
EXTENDS TCPReceiver, TCPSender

CONSTANTS MAX_RETX_ATTEMPTS,   \* TCPConfig::MAX_RETX_ATTEMPTS
          rt_timeout,          \* TCPConfig::rt_timeout
          MAX_WIN,             \* the largest value of the 16-bit field win
          HasFixedIsn          \* TCPConfig::fixed_isn has a value

NewConnection(recv_capacity, send_capacity, isn) ==
  [receiver |-> NewReceiver(recv_capacity),
   sender |-> NewSender(send_capacity, rt_timeout, isn),
   segments_out |-> <<>>,
   linger_after_streams_finish |-> TRUE, linger_begin |-> FALSE,
   time_since_last_segment_received |-> 0,
   active |-> TRUE, sent_syn |-> FALSE, sent_fin |-> FALSE,
   fin_acked |-> FALSE, abs_fin_seqno |-> 0,
   threw |-> FALSE]   \* a method was left by an exception

outbound(c) == c.sender.stream
inbound(c) == stream_out(c.receiver)

EndInbound(c) == [c EXCEPT !.receiver.reassembler.output = EndInput(@)]
ErrInbound(c) == [c EXCEPT !.receiver.reassembler.output = SetError(@)]

\* end_cleanly(): done at once, or begin to linger.
end_cleanly(c) ==
  IF c.linger_after_streams_finish THEN [c EXCEPT !.linger_begin = TRUE]
  ELSE [EndInbound(c) EXCEPT !.sender.stream = EndInput(@), !.active = FALSE]

end_uncleanly(c) ==
  [ErrInbound(c) EXCEPT !.sender.stream = SetError(@), !.linger_begin = FALSE,
                        !.linger_after_streams_finish = FALSE, !.active = FALSE]

\* Mutant: the end of the input is enough, read or not.
satisfy_ended(c) == inbound(c).input_ended /\ c.receiver.reassembler.unasm_bytes = 0

satisfy_prereq_1(c) == Eof(inbound(c)) /\ c.receiver.reassembler.unasm_bytes = 0
satisfy_prereq_2(c) == Eof(outbound(c)) /\ c.sent_fin /\ c.sender.bytes_in_flight = 0
satisfy_prereq_3(c) == c.fin_acked
satisfy_prereq_123(c) == satisfy_prereq_1(c) /\ satisfy_prereq_2(c) /\ satisfy_prereq_3(c)

try_to_end_cleanly(c) == IF satisfy_prereq_123(c) THEN end_cleanly(c) ELSE c

\* Mutant: the end that finished first does not linger either.
check_never_linger(c) ==
  IF Eof(inbound(c)) THEN [c EXCEPT !.linger_after_streams_finish = FALSE] ELSE c

\* Mutant: who finished first is not noticed.
check_nothing(c) == c

\* The peer finished first: it needs no lingering from us.
check_not_need_to_linger(c) ==
  IF Eof(inbound(c)) /\ ~Eof(outbound(c))
  THEN [c EXCEPT !.linger_after_streams_finish = FALSE] ELSE c

\* The window goes into every header, cut to its 16 bits, the acknowledgment
\* number only after the peer's SYN.
set_win(c, seg) == [seg EXCEPT !.win = Least(window_size(c.receiver), MAX_WIN)]

Addressed(c, seg) ==
  IF has_ackno(c.receiver)
  THEN [set_win(c, seg) EXCEPT !.ack = TRUE, !.ackno = ackno(c.receiver)]
  ELSE set_win(c, seg)

send_rst(c) ==
  LET rst == [Segment(wrap(c.sender.next_seqno, c.sender.isn), FALSE, FALSE, <<>>)
                EXCEPT !.rst = TRUE]
  IN  IF has_ackno(c.receiver)
      THEN [c EXCEPT !.segments_out = Append(@, Addressed(c, rst))] ELSE c

\* send_all(): moves the sender's segments out and notes SYN and FIN.
send_all(c) ==
  LET out == c.sender.segments_out
      fin == \E k \in DOMAIN out : out[k].fin
  IN  [c EXCEPT !.segments_out = @ \o [k \in DOMAIN out |-> Addressed(c, out[k])],
                !.sender.segments_out = <<>>,
                !.sent_syn = @ \/ \E k \in DOMAIN out : out[k].syn,
                !.sent_fin = @ \/ fin,
                !.abs_fin_seqno = IF fin THEN 1 + outbound(c).bytes_read ELSE @]

\* fill_window(), send_all() and try_to_end_cleanly() end most methods.
Pump(c) == try_to_end_cleanly(send_all([c EXCEPT !.sender = fill_window(@)]))

tcp_connect(c) ==
  LET filled == [c EXCEPT !.sender = fill_window(@)]
      syn == filled.sender.segments_out[1]
  IN  [filled EXCEPT !.segments_out = Append(@, set_win(c, syn)),
                     !.sender.segments_out = Tail(@), !.sent_syn = TRUE]

tcp_write(c, data) == Pump([c EXCEPT !.sender.stream = WriteStream(@, data)])

tcp_end_input_stream(c) == Pump([c EXCEPT !.sender.stream = EndInput(@)])

\* Before the peer's SYN only a reset that answers our SYN counts.  Whether it
\* does is decided with cfg_.fixed_isn.value(), which throws if there is none.
BeforeSyn(c, seg) ==
  CASE c.sent_syn /\ ~HasFixedIsn -> [c EXCEPT !.threw = TRUE]
    [] /\ c.sent_syn /\ HasFixedIsn /\ seg.rst
       /\ get_abs_seqno(c.sender, seg.ackno) = get_abs_seqno(c.sender, c.sender.isn) + 1
         -> end_uncleanly(c)
    [] OTHER -> c

IsKeepAlive(c, seg) ==
  /\ length_in_sequence_space(seg) = 0
  /\ has_ackno(c.receiver) /\ seg.seqno = (ackno(c.receiver) - 1) % FACTOR

\* Mutant: any acknowledgment after FIN counts as one of FIN.
TakeAnyAck(c, seg) ==
  IF ~seg.ack THEN c
  ELSE [c EXCEPT !.sender = ack_received(@, seg.ackno, seg.win), !.fin_acked = @ \/ c.sent_fin]

TakeAck(c, seg) ==
  IF ~seg.ack THEN c
  ELSE LET acked == [c EXCEPT !.sender = ack_received(@, seg.ackno, seg.win)]
       IN  [acked EXCEPT !.fin_acked =
              @ \/ (c.sent_fin /\ get_abs_seqno(acked.sender, seg.ackno) = c.abs_fin_seqno + 1)]

\* A segment after the SYN: to the receiver, to the sender, and an answer to
\* everything that takes room in the sequence space.
TakeSegment(c, seg) ==
  LET taken == check_not_need_to_linger(
                 [c EXCEPT !.receiver = receiver_segment_received(@, seg),
                           !.time_since_last_segment_received = 0])
      alive == IF IsKeepAlive(taken, seg)
               THEN [taken EXCEPT !.sender = send_empty_segment(@)] ELSE taken
      filled == [TakeAck(alive, seg) EXCEPT !.sender = fill_window(@)]
      answered == IF filled.sender.segments_out = <<>> /\ length_in_sequence_space(seg) # 0
                  THEN [filled EXCEPT !.sender = send_empty_segment(@)] ELSE filled
  IN  try_to_end_cleanly(send_all(answered))

tcp_segment_received(c, seg) ==
  CASE ~c.active -> c
    [] c.active /\ ~has_ackno(c.receiver) /\ ~seg.syn -> BeforeSyn(c, seg)
    [] c.active /\ (has_ackno(c.receiver) \/ seg.syn) /\ seg.rst ->
         end_uncleanly([c EXCEPT !.time_since_last_segment_received = 0])
    [] OTHER -> TakeSegment(c, seg)

\* The time matters only up to the end of lingering, where it is capped.
LingerTime == 10 * rt_timeout

tcp_tick(c, ms) ==
  LET ticked == [c EXCEPT !.time_since_last_segment_received = Least(@ + ms, LingerTime),
                          !.sender = sender_tick(@, ms)]
      out == send_all(ticked)
  IN  CASE ~c.active -> c
        [] c.active /\ ticked.sender.timer.consecutive_rx > MAX_RETX_ATTEMPTS ->
             end_uncleanly(send_rst(ticked))
        [] OTHER ->
             IF ~(out.linger_after_streams_finish /\ out.linger_begin) THEN try_to_end_cleanly(out)
             ELSE IF out.time_since_last_segment_received < LingerTime THEN out
             ELSE end_cleanly([out EXCEPT !.linger_after_streams_finish = FALSE])
=============================================================================
