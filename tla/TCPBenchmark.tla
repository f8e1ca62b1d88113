---------------------------- MODULE TCPBenchmark ----------------------------
(***************************************************************************)
(* The transfer of tcp_benchmark.cc: x sends a stream to y, whose own      *)
(* stream is empty and already ended, so that both open at the same time.  *)
(* A single loop writes, moves all the segments one way and then the other,*)
(* reads and lets time pass.  On the way a segment may be lost as a        *)
(* LossyFdAdapter loses it, MaxLosses times in all; with reorder the       *)
(* segments of x arrive in reverse order.                                  *)
(***************************************************************************)
EXTENDS TCPState, SequencesExt

CONSTANTS Capacity,       \* TCPConfig::send_capacity and recv_capacity
          XIsn, YIsn,
          StreamLength,   \* len
          TickSize,       \* the argument of tick()
          MaxLosses       \* bound: segments lost in one behaviour

ASSUME BenchmarkAssumption ==
  /\ Capacity \in Nat \ {0} /\ XIsn \in Wrapping /\ YIsn \in Wrapping
  /\ StreamLength \in Nat /\ TickSize \in Nat \ {0} /\ MaxLosses \in Nat

VARIABLES x, y,      \* the two connections
          segments,  \* the local vector of move_segments()
          x_closed, received, reorder,
          step,      \* the step of the loop that comes next
          lost       \* how many segments were lost

vars == <<x, y, segments, x_closed, received, reorder, step, lost>>

\* x.connect() and y.end_input_stream()
Init ==
  /\ x = tcp_connect(NewConnection(Capacity, Capacity, XIsn))
  /\ y = tcp_end_input_stream(NewConnection(Capacity, Capacity, YIsn))
  /\ segments = <<>> /\ x_closed = FALSE /\ received = <<>> /\ reorder \in BOOLEAN
  /\ step = "write" /\ lost = 0

Written == outbound(x).bytes_written
Want == Least(RemainingCapacity(outbound(x)), StreamLength - Written)
Piece == [k \in 1..Want |-> Written + k - 1]

\* One turn of the while over bytes_to_send.
Write ==
  /\ step = "write" /\ Want > 0
  /\ x' = tcp_write(x, Piece)
  /\ UNCHANGED <<y, segments, x_closed, received, reorder, step, lost>>

EndWrite ==
  /\ step = "write" /\ Want = 0 /\ step' = "move x"
  /\ x_closed' = (Written = StreamLength)
  /\ x' = IF x_closed' /\ ~x_closed THEN tcp_end_input_stream(x) ELSE x
  /\ UNCHANGED <<y, segments, received, reorder, lost>>

\* move_segments(): all that one end has queued is moved into `segments` ...
MoveX ==
  /\ step = "move x" /\ step' = "x to y"
  /\ segments' = IF reorder THEN Reverse(x.segments_out) ELSE x.segments_out
  /\ x' = [x EXCEPT !.segments_out = <<>>]
  /\ UNCHANGED <<y, x_closed, received, reorder, lost>>

MoveY ==
  /\ step = "move y" /\ step' = "y to x"
  /\ segments' = y.segments_out /\ y' = [y EXCEPT !.segments_out = <<>>]
  /\ UNCHANGED <<x, x_closed, received, reorder, lost>>

\* ... and given to the other, one by one, unless _should_drop() says to drop.
Drop ==
  /\ step \in {"x to y", "y to x"} /\ segments # <<>> /\ lost < MaxLosses
  /\ segments' = Tail(segments) /\ lost' = lost + 1
  /\ UNCHANGED <<x, y, x_closed, received, reorder, step>>

Receive ==
  /\ step \in {"x to y", "y to x"} /\ segments # <<>>
  /\ segments' = Tail(segments)
  /\ x' = IF step = "y to x" THEN tcp_segment_received(x, Head(segments)) ELSE x
  /\ y' = IF step = "x to y" THEN tcp_segment_received(y, Head(segments)) ELSE y
  /\ UNCHANGED <<x_closed, received, reorder, step, lost>>

Moved ==
  /\ step \in {"x to y", "y to x"} /\ segments = <<>>
  /\ step' = IF step = "x to y" THEN "move y" ELSE "read"
  /\ UNCHANGED <<x, y, segments, x_closed, received, reorder, lost>>

\* All the available output of y.
Read ==
  /\ step = "read" /\ step' = "tick"
  /\ received' = received \o inbound(y).queue
  /\ y' = [y EXCEPT !.receiver.reassembler.output = PopStream(@, BufferSize(@))]
  /\ UNCHANGED <<x, segments, x_closed, reorder, lost>>

\* The loop goes on until y has read everything and both have ended.
Tick ==
  /\ step = "tick"
  /\ x' = tcp_tick(x, TickSize) /\ y' = tcp_tick(y, TickSize)
  /\ step' = IF ~Eof(inbound(y')) \/ x'.active \/ y'.active THEN "write" ELSE "done"
  /\ UNCHANGED <<segments, x_closed, received, reorder, lost>>

Done == step = "done" /\ UNCHANGED vars

Next ==
  \/ Write \/ EndWrite \/ MoveX \/ MoveY \/ Drop \/ Receive \/ Moved
  \/ Read \/ Tick \/ Done

\* The loop is sequential code: until it is done it takes its next step.  This
\* is WF_vars(Next), a step being possible, and no stuttering, until then.
Runs == []<>(step = "done") \/ []<><<step # "done">>_vars

Spec == Init /\ [][Next]_vars /\ Runs
-----------------------------------------------------------------------------
Errored(c) == inbound(c).error \/ outbound(c).error

\* However the losses fall, in the opening, in the data or in the closing, the
\* loop of the benchmark ends ...
Terminates == <>(step = "done")

\* ... neither end having given up, with all that was sent received in order:
\* "strings sent vs. received don't match" is never thrown.
EndsComplete ==
  /\ ~Errored(x) /\ ~Errored(y)
  /\ Eof(inbound(y)) => received = [k \in 1..StreamLength |-> k - 1]

\* One call may follow several arrows of the diagram: a segment may both finish
\* the opening and let FIN go.
Leads == ReflexiveTransitiveClosure([a, b \in DOMAIN State |-> <<a, b>> \in Arrows], DOMAIN State)

Follows(c, d) ==
  \/ \E a, b \in DOMAIN State : state(c) = State[a] /\ state(d) = State[b] /\ Leads[a, b]
  \/ /\ state(c) \in {State.ESTABLISHED, CloseWaitLingering}
     /\ state(d) = CloseWaitLingering /\ Eof(outbound(d))
  \/ state(c) = CloseWaitLingering /\ state(d) \in {State.CLOSING, State.TIME_WAIT}

\* Every call leaves a connection in a state of RFC 793, as TCPState tells them
\* apart, that its diagram leads to from the one before; the only other state
\* is CLOSE_WAIT with the linger flag still set, when the peer's FIN found our
\* whole stream in segments, and it leads to CLOSING.
FollowsDiagram == [][Follows(x, x') /\ Follows(y, y')]_vars

\* A connection as its owner sees it.
Seen(c) ==
  [active |-> c.active, opening |-> state(c) = State.SYN_SENT, queued |-> c.segments_out # <<>>,
   inbound |-> inbound(c), outbound |-> outbound(c)]

ForX == INSTANCE Connection WITH PeerBytes <- 0
ForY == INSTANCE Connection WITH PeerBytes <- StreamLength

\* Whatever happens to its segments, every call of a TCPConnection does what
\* the abstract connection, on which TCPSpongeSocket relies, allows: bytes come
\* in order, the end of the stream comes after its last byte, bytes are taken
\* off the outbound stream only with a segment queued, and a connection is over
\* only after a reset or at the end of both streams.
KeepsPromise ==
  [][/\ step = "write" /\ step' = step => Seen(x') \in ForX!WriteData(Seen(x), Piece)
     /\ x_closed' # x_closed => Seen(x') \in ForX!EndInputStream(Seen(x))
     /\ step = "y to x" /\ x' # x => Seen(x') \in ForX!SegmentReceived(Seen(x))
     /\ step = "x to y" /\ y' # y => Seen(y') \in ForY!SegmentReceived(Seen(y))
     /\ step = "tick" => Seen(x') \in ForX!Tick(Seen(x)) /\ Seen(y') \in ForY!Tick(Seen(y))]_vars
=============================================================================
