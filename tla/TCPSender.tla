----------------------------- MODULE TCPSender -----------------------------
(***************************************************************************)
(* TCPSender (tcp_sender.hh/.cc): cuts the outgoing stream into segments   *)
(* that fit the peer's window, keeps the segments that are not fully       *)
(* acknowledged, and resends the oldest one when the timer expires.  The   *)
(* operators take a sender record and return the record after the call.    *)
(***************************************************************************)
EXTENDS ByteStream, WrappingIntegers, FiniteSetsExt

CONSTANT MAX_PAYLOAD_SIZE   \* TCPConfig::MAX_PAYLOAD_SIZE

ASSUME PayloadAssumption == MAX_PAYLOAD_SIZE \in Nat \ {0}

NewSender(capacity, retx_timeout, isn) ==
  [isn |-> isn, initial_timeout |-> retx_timeout,
   timer |-> [rto |-> retx_timeout, countdown |-> retx_timeout,
              timing |-> FALSE, consecutive_rx |-> 0],
   stream |-> NewStream(capacity), next_seqno |-> 0,
   sent_syn |-> FALSE, sent_all |-> FALSE,
   window_begin |-> 0, window_size |-> 1, actual_zero_window_size |-> FALSE,
   bytes_in_flight |-> 0, checkpoint |-> 0,
   outstanding_segs |-> <<>>, segments_out |-> <<>>]

\* A TCPSegment whose ack, ackno, win and rst are still those of an empty
\* header: TCPConnection fills them in.
Segment(seqno, syn, fin, payload) ==
  [seqno |-> seqno, syn |-> syn, fin |-> fin, payload |-> payload,
   rst |-> FALSE, ack |-> FALSE, ackno |-> 0, win |-> 0]

Flag(b) == IF b THEN 1 ELSE 0
length_in_sequence_space(seg) == Len(seg.payload) + Flag(seg.syn) + Flag(seg.fin)

\* An OutstandingSegment is a segment with its absolute sequence number.
Outstanding(s, offset, syn, fin, payload) ==
  [abs_seqno |-> s.next_seqno + offset,
   segment |-> Segment(wrap(s.next_seqno + offset, s.isn), syn, fin, payload)]

abs_seqno_at_end(o) == o.abs_seqno + length_in_sequence_space(o.segment)

get_abs_seqno(s, seqno) == unwrap(seqno, s.isn, s.checkpoint)

LengthOf(segs) ==
  LET upTo[n \in 0..Len(segs)] ==
        IF n = 0 THEN 0 ELSE upTo[n - 1] + length_in_sequence_space(segs[n].segment)
  IN  upTo[Len(segs)]

begin_timing(t) == [rto |-> t.rto, countdown |-> t.rto, timing |-> TRUE, consecutive_rx |-> 0]

reset_timer(initial) ==
  [rto |-> initial, countdown |-> initial, timing |-> FALSE, consecutive_rx |-> 0]

\* rto_ is not doubled while the peer advertises a zero window.
update_timer_after_timeout(t, zero_window) ==
  LET rto == IF zero_window THEN t.rto ELSE 2 * t.rto
  IN  [rto |-> rto, countdown |-> rto, timing |-> t.timing, consecutive_rx |-> t.consecutive_rx + 1]

\* send() and push_outstanding_seg(), for each segment of the batch in turn.
send(s, batch) ==
  IF batch = <<>> THEN s
  ELSE [s EXCEPT !.timer = IF @.timing THEN @ ELSE begin_timing(@),
                 !.segments_out = @ \o [k \in DOMAIN batch |-> batch[k].segment],
                 !.outstanding_segs = @ \o batch,
                 !.bytes_in_flight = @ + LengthOf(batch),
                 !.next_seqno = abs_seqno_at_end(batch[Len(batch)])]

connect(s) == [send(s, <<Outstanding(s, 0, TRUE, FALSE, <<>>)>>) EXCEPT !.sent_syn = TRUE]

SendFin(s) == [send(s, <<Outstanding(s, 0, FALSE, TRUE, <<>>)>>) EXCEPT !.sent_all = TRUE]

\* Mutant: the window is taken to include its right edge.
WindowRoomWide(s) == s.window_begin + s.window_size + 1 - s.next_seqno

WindowRoom(s) == s.window_begin + s.window_size - s.next_seqno

\* The loop of fill_window(): all the buffered bytes that the window admits,
\* MAX_PAYLOAD_SIZE at a time, and FIN on the last segment when the stream
\* is over and the window has room for it too.
SendSize(s) == Least(WindowRoom(s), BufferSize(s.stream))
SendEof(s) == s.stream.input_ended /\ SendSize(s) = BufferSize(s.stream) /\ SendSize(s) < WindowRoom(s)
\* Mutant: the last, short segment is left out.
BatchSizeFull(s) == SendSize(s) \div MAX_PAYLOAD_SIZE

BatchSize(s) == (SendSize(s) + MAX_PAYLOAD_SIZE - 1) \div MAX_PAYLOAD_SIZE

DataBatch(s) ==
  [k \in 1..BatchSize(s) |->
     LET offset == (k - 1) * MAX_PAYLOAD_SIZE
     IN  Outstanding(s, offset, FALSE, SendEof(s) /\ k = BatchSize(s),
                     SubSeq(s.stream.queue, offset + 1,
                            Least(offset + MAX_PAYLOAD_SIZE, SendSize(s))))]

\* Mutant: the bytes are sent without being taken off the stream.
SendDataUnread(s) == [send(s, DataBatch(s)) EXCEPT !.sent_all = SendEof(s)]

SendData(s) ==
  [send(s, DataBatch(s)) EXCEPT !.stream = PopStream(@, SendSize(s)), !.sent_all = SendEof(s)]

fill_window(s) ==
  CASE ~s.sent_syn -> connect(s)
    [] s.sent_syn /\ (s.sent_all \/ WindowRoom(s) <= 0) -> s
    [] s.sent_syn /\ ~s.sent_all /\ WindowRoom(s) > 0 /\ Eof(s.stream) -> SendFin(s)
    [] OTHER -> SendData(s)

\* Mutant: a segment counts as acknowledged when its first number is.
PartlyAcked(segs, abs_ackno) ==
  Max({n \in 0..Len(segs) : \A k \in 1..n : segs[k].abs_seqno < abs_ackno})

\* The segments at the front that end at or before abs_ackno are popped.
FullyAcked(segs, abs_ackno) ==
  Max({n \in 0..Len(segs) : \A k \in 1..n : abs_seqno_at_end(segs[k]) <= abs_ackno})

\* Mutant: the acknowledgment of SYN leaves the timer running.
TimerAfterData(s, abs_ackno, left) ==
  LET fresh == reset_timer(s.initial_timeout)
  IN  IF ~(abs_ackno > 1 /\ abs_ackno > s.checkpoint) THEN s.timer
      ELSE IF left = <<>> THEN fresh ELSE begin_timing(fresh)

\* Mutant: the timer is restarted with the backed-off timeout.
TimerKeepsBackoff(s, abs_ackno, left) ==
  LET timer == IF abs_ackno > s.checkpoint THEN begin_timing(s.timer) ELSE s.timer
  IN  IF left = <<>> THEN [timer EXCEPT !.timing = FALSE] ELSE timer

\* An acknowledgment of data, not only of SYN, restarts the timer and undoes
\* its backoff; with nothing left outstanding the timer stops.
TimerAfterAck(s, abs_ackno, left) ==
  LET timer == IF abs_ackno > 1 /\ abs_ackno > s.checkpoint
               THEN LET fresh == reset_timer(s.initial_timeout)
                    IN  IF left = <<>> THEN fresh ELSE begin_timing(fresh)
               ELSE s.timer
  IN  IF left = <<>> THEN [timer EXCEPT !.timing = FALSE] ELSE timer

\* Mutant: the flight shrinks by one for every segment popped.
AcceptAckBySegment(s, abs_ackno, win) ==
  LET popped == FullyAcked(s.outstanding_segs, abs_ackno)
      left == SubSeq(s.outstanding_segs, popped + 1, Len(s.outstanding_segs))
  IN  [s EXCEPT !.window_begin = abs_ackno, !.window_size = Greatest(win, 1),
                !.actual_zero_window_size = (win = 0),
                !.outstanding_segs = left, !.bytes_in_flight = @ - popped,
                !.timer = TimerAfterAck(s, abs_ackno, left),
                !.checkpoint = Greatest(@, abs_ackno)]

\* Mutant: a zero window is taken as it is, and never probed.
AcceptAckNoProbe(s, abs_ackno, win) ==
  LET popped == FullyAcked(s.outstanding_segs, abs_ackno)
      left == SubSeq(s.outstanding_segs, popped + 1, Len(s.outstanding_segs))
  IN  [s EXCEPT !.window_begin = abs_ackno, !.window_size = win,
                !.actual_zero_window_size = (win = 0),
                !.outstanding_segs = left,
                !.bytes_in_flight = @ - LengthOf(SubSeq(s.outstanding_segs, 1, popped)),
                !.timer = TimerAfterAck(s, abs_ackno, left),
                !.checkpoint = Greatest(@, abs_ackno)]

\* The window is overwritten by every acknowledgment of something sent, the
\* ones that are older than checkpoint_ included.
AcceptAck(s, abs_ackno, win) ==
  LET popped == FullyAcked(s.outstanding_segs, abs_ackno)
      left == SubSeq(s.outstanding_segs, popped + 1, Len(s.outstanding_segs))
  IN  [s EXCEPT !.window_begin = abs_ackno,
                !.actual_zero_window_size = (win = 0),
                !.window_size = IF win = 0 THEN 1 ELSE win,
                !.outstanding_segs = left,
                !.bytes_in_flight = @ - LengthOf(SubSeq(s.outstanding_segs, 1, popped)),
                !.timer = TimerAfterAck(s, abs_ackno, left),
                !.checkpoint = Greatest(@, abs_ackno)]

ack_received(s, ackno, win) ==
  LET abs_ackno == get_abs_seqno(s, ackno)
  IN  IF abs_ackno > s.next_seqno THEN s ELSE AcceptAck(s, abs_ackno, win)

\* resend() queues the oldest segment again.
Timeout(s) ==
  [s EXCEPT !.segments_out = Append(@, s.outstanding_segs[1].segment),
            !.timer = update_timer_after_timeout(@, s.actual_zero_window_size)]

sender_tick(s, ms) ==
  CASE ~s.timer.timing -> s
    [] s.timer.timing /\ s.timer.countdown > ms -> [s EXCEPT !.timer.countdown = @ - ms]
    [] OTHER -> Timeout(s)

send_empty_segment(s) ==
  [s EXCEPT !.segments_out =
     Append(@, Segment(wrap(s.next_seqno, s.isn), FALSE, FALSE, <<>>))]
=============================================================================
