------------------------------ MODULE TCPPair ------------------------------
(***************************************************************************)
(* Two TCPConnections and the network between them.  The segments that a   *)
(* connection enqueues go to the network, which delivers them never, late, *)
(* several times and in any order: of all the segments sent one way it     *)
(* remembers a bounded number, and any of them may be the ones.  The bytes *)
(* of a stream are numbered from 0: a byte out of place is seen.           *)
(***************************************************************************)
EXTENDS TCPConnection

CONSTANTS RecvCapacity, SendCapacity,
          ClientIsn, ServerIsn,
          ClientBytes, ServerBytes,   \* how much the two applications write
          TickSizes,                  \* ms_since_last_tick of the calls of tick()
          MaxToServer, MaxToClient,   \* bounds: segments remembered each way
          MaxTicks,                   \* bound: calls of tick() in one behaviour
          BothConnect                 \* the server calls connect() too

ASSUME PairAssumption ==
  /\ RecvCapacity \in Nat \ {0} /\ SendCapacity \in Nat \ {0}
  /\ ClientIsn \in Wrapping /\ ServerIsn \in Wrapping
  /\ ClientBytes \in Nat /\ ServerBytes \in Nat /\ TickSizes \subseteq Nat \ {0}
  /\ MaxToServer \in Nat \ {0} /\ MaxToClient \in Nat \ {0} /\ MaxTicks \in Nat
  /\ BothConnect \in BOOLEAN

VARIABLES opening,  \* whether the handshake is modelled, without data, or data after it
          conn,     \* the connection at each end
          net,      \* the segments on their way to each end
          ticks     \* calls of tick() so far

vars == <<opening, conn, net, ticks>>

Ends == {"client", "server"}
Peer(e) == IF e = "client" THEN "server" ELSE "client"
IsnOf(e) == IF e = "client" THEN ClientIsn ELSE ServerIsn
MaxInNet(e) == IF e = "client" THEN MaxToClient ELSE MaxToServer
StreamLength(e) == IF opening THEN 0 ELSE IF e = "client" THEN ClientBytes ELSE ServerBytes

InitOpening ==
  /\ opening = TRUE
  /\ conn = [e \in Ends |-> NewConnection(RecvCapacity, SendCapacity, IsnOf(e))]
  /\ net = [e \in Ends |-> {}]
  /\ ticks = 0

\* The end e is left in state c, its queue emptied into the network.  What
\* the network forgets is lost.
Call(e, c) ==
  LET all == net[Peer(e)] \cup Range(c.segments_out)
  IN  /\ conn' = [conn EXCEPT ![e] = [c EXCEPT !.segments_out = <<>>]]
      /\ \E kept \in kSubset(Least(MaxInNet(Peer(e)), Cardinality(all)), all) :
           net' = [net EXCEPT ![Peer(e)] = kept]

Runs(e) == conn[e].active /\ ~conn[e].threw

\* The application gets its socket once both SYNs have been seen.
Established(e) == Runs(e) /\ conn[e].sender.sent_syn /\ has_ackno(conn[e].receiver)

Connect(e) ==
  /\ Runs(e) /\ ~conn[e].sender.sent_syn
  /\ e = "client" \/ BothConnect
  /\ Call(e, tcp_connect(conn[e]))
  /\ UNCHANGED <<opening, ticks>>

Write(e, len) ==
  LET written == outbound(conn[e]).bytes_written
  IN  /\ Established(e) /\ ~outbound(conn[e]).input_ended
      /\ len <= RemainingCapacity(outbound(conn[e])) /\ written + len <= StreamLength(e)
      /\ Call(e, tcp_write(conn[e], [k \in 1..len |-> written + k - 1]))
      /\ UNCHANGED <<opening, ticks>>

Close(e) ==
  /\ Established(e) /\ ~outbound(conn[e]).input_ended
  /\ outbound(conn[e]).bytes_written = StreamLength(e)
  /\ Call(e, tcp_end_input_stream(conn[e]))
  /\ UNCHANGED <<opening, ticks>>

Read(e, len) ==
  /\ len <= BufferSize(inbound(conn[e]))
  /\ Call(e, [conn[e] EXCEPT !.receiver.reassembler.output = PopStream(@, len)])
  /\ UNCHANGED <<opening, ticks>>

Deliver(e, seg) ==
  Runs(e) /\ Call(e, tcp_segment_received(conn[e], seg)) /\ UNCHANGED <<opening, ticks>>

Tick(e, ms) ==
  /\ ticks < MaxTicks /\ ticks' = ticks + 1
  /\ Runs(e) /\ Call(e, tcp_tick(conn[e], ms))
  /\ UNCHANGED opening

\* The same after the handshake: SYN, SYN with ACK, and ACK have arrived and
\* the network has forgotten them.
InitEstablished ==
  /\ opening = FALSE
  /\ conn = [e \in Ends |->
       [NewConnection(RecvCapacity, SendCapacity, IsnOf(e)) EXCEPT
          !.sent_syn = TRUE,
          !.receiver.received_syn = TRUE, !.receiver.isn = IsnOf(Peer(e)),
          !.receiver.checkpoint = IF e = "client" THEN 0 ELSE 1,
          !.sender.sent_syn = TRUE, !.sender.next_seqno = 1, !.sender.checkpoint = 1,
          !.sender.window_begin = 1, !.sender.window_size = Least(RecvCapacity, MAX_WIN)]]
  /\ net = [e \in Ends |-> {}]
  /\ ticks = 0

Next ==
  \E e \in Ends :
    \/ Connect(e)
    \/ \E len \in 1..SendCapacity : Write(e, len)
    \/ Close(e)
    \/ \E len \in 1..RecvCapacity : Read(e, len)
    \/ \E seg \in net[e] : Deliver(e, seg)
    \/ \E ms \in TickSizes : Tick(e, ms)

Init == InitOpening \/ InitEstablished

Spec == Init /\ [][Next]_vars
SpecOpening == InitOpening /\ [][Next]_vars
-----------------------------------------------------------------------------
RightEdge(c) == get_abs_ackno(c.receiver) + window_size(c.receiver)

\* What the application at one end reads is what the other wrote, in order
\* and without gap or repetition, whatever the network did to the segments.
DeliveredIsPrefix ==
  \A e \in Ends :
    /\ inbound(conn[e]).queue = [k \in 1..BufferSize(inbound(conn[e])) |-> inbound(conn[e]).bytes_read + k - 1]
    /\ inbound(conn[e]).bytes_written <= outbound(conn[Peer(e)]).bytes_read
    /\ inbound(conn[e]).input_ended /\ ~inbound(conn[e]).error =>
         /\ outbound(conn[Peer(e)]).input_ended
         /\ inbound(conn[e]).bytes_written = outbound(conn[Peer(e)]).bytes_written

\* A sender takes for acknowledged only what the peer's receiver has, its FIN
\* included: no wrapped or stale acknowledgment is taken for a newer one.
AckedWasReceived ==
  \A e \in Ends :
    /\ conn[e].sender.checkpoint <= get_abs_ackno(conn[Peer(e)].receiver)
    /\ conn[e].fin_acked => inbound(conn[Peer(e)]).input_ended

\* What is sent fits the window of the receiver as it is now, except for the
\* one number by which a closed window is probed.
SenderRespectsWindow ==
  \A e \in Ends :
    conn[e].sender.next_seqno <=
      Greatest(RightEdge(conn[Peer(e)]), get_abs_ackno(conn[Peer(e)].receiver) + 1)

ClosedCleanly(c) == ~c.active /\ ~inbound(c).error

\* A connection that ended without error has delivered its whole stream to
\* the peer and has been read to the end of the peer's stream.
CleanCloseIsComplete ==
  \A e \in Ends :
    ClosedCleanly(conn[e]) =>
      /\ inbound(conn[Peer(e)]).bytes_written = StreamLength(e)
      /\ inbound(conn[Peer(e)]).input_ended
      /\ inbound(conn[e]).bytes_read = StreamLength(Peer(e))

\* Who leaves without lingering leaves nobody behind: the peer already knows
\* that its whole stream arrived, "in case the remote TCPConnection doesn't
\* know" being the reason to linger (tcp_connection.hh).
NoLingerMeansPeerKnows ==
  \A e \in Ends :
    ClosedCleanly(conn[e]) /\ ~conn[e].linger_begin => conn[Peer(e)].fin_acked

\* The initial sequence number is optional: "otherwise uses a random ISN"
\* (tcp_sender.cc), so no segment may end in an exception without it.
NoThrow == \A e \in Ends : ~conn[e].threw
=============================================================================
