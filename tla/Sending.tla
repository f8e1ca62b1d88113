------------------------------ MODULE Sending ------------------------------
(***************************************************************************)
(* A TCPSender at work: the application writes Length bytes (byte i is the *)
(* number i) and ends the stream, the owner calls the methods of the       *)
(* sender in any order, and acknowledgments arrive late, repeated, out of  *)
(* order, for numbers never sent, and with any window.                     *)
(***************************************************************************)
EXTENDS TCPSender

CONSTANTS Capacity, RetxTimeout, Isn, Length,
          MaxWin,     \* largest window the peer advertises
          Lag,        \* how far behind the newest acknowledgment one may be
          MaxRetx     \* the owner gives up after more retransmissions than this

ASSUME SendingAssumption ==
  /\ Capacity \in Nat \ {0} /\ RetxTimeout \in Nat \ {0} /\ Isn \in Wrapping
  /\ Length \in Nat /\ MaxWin \in Nat \ {0} /\ Lag \in Nat /\ MaxRetx \in Nat
  /\ 2 * (MaxWin + Lag + 2) < FACTOR /\ Length + FACTOR + 2 < FACTOR * FACTOR

VARIABLE snd

Init == snd = NewSender(Capacity, RetxTimeout, Isn)

\* The owner empties segments_out() before it calls again (send_all()).
Drained == [snd EXCEPT !.segments_out = <<>>]

\* stream_in().write() and stream_in().end_input()
WriteBytes(len) ==
  /\ ~snd.stream.input_ended
  /\ snd.stream.bytes_written + len <= Length
  /\ snd' = [Drained EXCEPT !.stream =
               WriteStream(@, [k \in 1..len |-> snd.stream.bytes_written + k - 1])]

EndStream == ~snd.stream.input_ended /\ snd' = [Drained EXCEPT !.stream = EndInput(@)]

FillWindow == snd' = fill_window(Drained)

\* A TCPReceiver acknowledges at least the SYN; n past next_seqno_ stands
\* for an acknowledgment of something never sent.
Ack(n, win) ==
  /\ 1 <= n /\ snd.checkpoint <= n + Lag /\ n <= snd.next_seqno + 1
  /\ snd.sent_syn
  /\ snd' = ack_received(Drained, wrap(n, Isn), win)

Tick(ms) == snd.timer.consecutive_rx <= MaxRetx /\ snd' = sender_tick(Drained, ms)

SendEmpty == snd.sent_syn /\ snd' = send_empty_segment(Drained)

Next ==
  \/ \E len \in 1..Capacity : WriteBytes(len)
  \/ EndStream
  \/ FillWindow
  \/ \E n \in 1 .. Length + 3, win \in 0..MaxWin : Ack(n, win)
  \/ \E ms \in 1..RetxTimeout : Tick(ms)
  \/ SendEmpty

Spec == Init /\ [][Next]_snd
-----------------------------------------------------------------------------
segs == snd.outstanding_segs

\* What the peer has not acknowledged can be resent: outstanding_segs_ lists
\* without gap or overlap the segments from the first one not fully
\* acknowledged up to next_seqno_, through every pop of ack_received().
UnackedIsOutstanding ==
  /\ segs = <<>> => snd.checkpoint = snd.next_seqno
  /\ segs # <<>> => /\ segs[1].abs_seqno <= snd.checkpoint
                    /\ snd.checkpoint < abs_seqno_at_end(segs[1])
                    /\ abs_seqno_at_end(segs[Len(segs)]) = snd.next_seqno
  /\ \A k \in 1 .. Len(segs) - 1 : abs_seqno_at_end(segs[k]) = segs[k + 1].abs_seqno

\* The assertions of tick(): the retransmission timer runs exactly while a
\* segment is outstanding, and a running timer has not expired between calls.
TimerRunsIffOutstanding ==
  /\ snd.timer.timing <=> segs # <<>>
  /\ snd.timer.timing => snd.timer.countdown > 0

\* bytes_in_flight() is "how many sequence numbers are occupied by segments
\* sent but not yet acknowledged" (tcp_sender.hh): the counter that send()
\* and ack_received() move separately agrees with the positions, and every
\* segment in flight holds the bytes of its position, with SYN only at 0 and
\* FIN only after the last byte of an ended stream.
FlightExact ==
  /\ snd.bytes_in_flight = IF segs = <<>> THEN 0 ELSE snd.next_seqno - segs[1].abs_seqno
  /\ \A k \in DOMAIN segs :
       LET seg == segs[k].segment
           first == segs[k].abs_seqno
       IN  /\ seg.seqno = wrap(first, Isn) /\ Len(seg.payload) <= MAX_PAYLOAD_SIZE
           /\ seg.syn <=> first = 0
           /\ seg.payload = [i \in 1..Len(seg.payload) |-> first + i - 2]
           /\ seg.fin => /\ snd.stream.input_ended
                         /\ abs_seqno_at_end(segs[k]) = snd.stream.bytes_written + 2

\* fill_window() sends nothing beyond the window of the last acknowledgment.
NewDataInWindow ==
  [][snd'.next_seqno > snd.next_seqno => snd'.next_seqno <= snd.window_begin + snd.window_size]_snd

\* With nothing outstanding no timer runs, so the window must admit the next
\* byte (a zero window counts as one); otherwise the sender waits forever.
\* ack_received() guarantees it while the window is that of the newest
\* acknowledgment, which an overtaken one may replace.
NeverStuck ==
  snd.sent_syn /\ segs = <<>> /\ snd.window_begin >= snd.checkpoint => WindowRoom(snd) > 0
=============================================================================
