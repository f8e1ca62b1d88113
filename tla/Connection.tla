----------------------------- MODULE Connection -----------------------------
(***************************************************************************)
(* What a TCPConnection promises to its owner, without sequence numbers,   *)
(* windows or timers: for every method, the set of the connections it may  *)
(* leave behind.  TCPBenchmark!KeepsPromise shows that TCPConnection keeps *)
(* to it; SpongeSocket builds on it.                                       *)
(*   opening  the handshake is not over                                    *)
(*   queued   segments_out_ is not empty                                   *)
(***************************************************************************)
EXTENDS ByteStream

CONSTANT PeerBytes   \* how much the peer's application writes

ASSUME PeerAssumption == PeerBytes \in Nat

\* A connection that waits for the peer's SYN, or that has just queued its own.
Opening(recv_capacity, send_capacity, connecting) ==
  [active |-> TRUE, opening |-> TRUE, queued |-> connecting,
   inbound |-> NewStream(recv_capacity), outbound |-> NewStream(send_capacity)]

\* The bytes of the peer are numbered from 0, and arrive in order.
Arrived(s) ==
  LET more == {WriteStream(s, [k \in 1..n |-> s.bytes_written + k - 1]) :
                 n \in 0 .. Least(RemainingCapacity(s), PeerBytes - s.bytes_written)}
  IN  more \cup {EndInput(t) : t \in {u \in more : u.bytes_written = PeerBytes}}

\* The end of both streams may be the end of the connection.
MayEnd(c) ==
  {c} \cup IF c.active /\ Eof(c.inbound) /\ Eof(c.outbound)
           THEN {[c EXCEPT !.active = FALSE]} ELSE {}

\* fill_window() takes bytes off the stream and queues segments.
Pumped(c, n, q) == [c EXCEPT !.outbound = PopStream(@, n), !.queued = @ \/ n > 0 \/ q]
Pumps(c) == UNION {MayEnd(Pumped(c, n, q)) : n \in 0..BufferSize(c.outbound), q \in BOOLEAN}

Reset(c) ==
  [c EXCEPT !.inbound = SetError(@), !.outbound = SetError(@),
            !.active = FALSE, !.opening = FALSE]

Filled(c, s, still) == [c EXCEPT !.inbound = s, !.opening = @ /\ still]

SegmentReceived(c) ==
  IF ~c.active THEN {c}
  ELSE {c, Reset(c)} \cup
       UNION {Pumps(Filled(c, s, still)) : s \in Arrived(c.inbound), still \in BOOLEAN}

\* Nothing keeps these two from a connection that has ended: the assertion
\* that it is active is not compiled into a release.
WriteData(c, data) == Pumps([c EXCEPT !.outbound = WriteStream(@, data)])
EndInputStream(c) == Pumps([c EXCEPT !.outbound = EndInput(@)])

\* A tick may retransmit, give up with a reset of its own, or end the linger.
Tick(c) ==
  IF ~c.active THEN {c}
  ELSE UNION {MayEnd(d) \cup {Reset(d)} : d \in {c, [c EXCEPT !.queued = TRUE]}}
=============================================================================
