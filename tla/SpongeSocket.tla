---------------------------- MODULE SpongeSocket ----------------------------
(***************************************************************************)
(* TCPSpongeSocket (tcp_sponge_socket.hh/.cc): the thread that runs the    *)
(* connection, with an event loop of four rules, and the calls of the      *)
(* owner that start and stop it.  The two share only the pair of sockets   *)
(* and _abort.  The datagram adapter can always be written; datagrams come *)
(* when they come.                                                         *)
(*   sock  what only the thread touches: the connection, its two flags     *)
(*         and the end-of-file flag of _thread_data                        *)
(*   loop  the event loop of the thread, at "done" when it has returned    *)
(*   owner "open" in connect() or listen_and_accept(), "copy" while it     *)
(*         uses the socket, "join" when it waits for the thread, "end"     *)
(*   died  the process was ended by SIGPIPE                                *)
(***************************************************************************)
EXTENDS Connection, EventLoop, LocalSocketPair

CONSTANTS RecvCapacity, SendCapacity   \* TCPConfig

VARIABLES sock, loop, pair, abort, owner, died

threadVars == <<sock, loop, pair, abort, owner, died>>

InitSocket ==
  /\ \E connecting \in BOOLEAN :
       sock = [conn |-> Opening(RecvCapacity, SendCapacity, connecting),
               outbound_shutdown |-> FALSE, inbound_shutdown |-> FALSE, eof |-> FALSE]
  /\ loop = NewLoop /\ pair = NewPair
  /\ abort = FALSE /\ owner = "open" /\ died = FALSE

\* The rules: 1 datagrams to the connection, 2 the owner's bytes to the
\* connection, 3 the peer's bytes to the owner, 4 segments to the adapter.
Over(r, s) == r = 2 /\ s.eof

\* end_input_stream() again, after the callback that has met the end: there is
\* nothing new for it to send.
Cancel(r, s) ==
  IF r = 2 THEN [s EXCEPT !.conn.outbound = EndInput(@), !.outbound_shutdown = TRUE] ELSE s

\* Mutant: a connection that has ended has nothing to send.
InterestActive(r, s) ==
  \/ r = 1 /\ s.conn.active
  \/ r = 2 /\ s.conn.active /\ ~s.outbound_shutdown /\ RemainingCapacity(s.conn.outbound) > 0
  \/ r = 3 /\ \/ s.conn.inbound.queue # <<>>
              \/ (Eof(s.conn.inbound) \/ s.conn.inbound.error) /\ ~s.inbound_shutdown
  \/ r = 4 /\ s.conn.active /\ s.conn.queued

Interest(r, s) ==
  \/ r = 1 /\ s.conn.active
  \/ r = 2 /\ s.conn.active /\ ~s.outbound_shutdown /\ RemainingCapacity(s.conn.outbound) > 0
  \/ r = 3 /\ \/ s.conn.inbound.queue # <<>>
              \/ (Eof(s.conn.inbound) \/ s.conn.inbound.error) /\ ~s.inbound_shutdown
  \/ r = 4 /\ s.conn.queued

Visit(pass, r) ==
  Visited(pass, r, Over(r, pass.state), Cancel(r, pass.state), Interest(r, pass.state))

SetUp == Visit(Visit(Visit(Visit(NewPass(loop, sock), 1), 2), 3), 4)

Ready(datagram) ==
  {r \in 1..4 : /\ r = 1 => datagram
                /\ r = 2 => Readable(pair, "thread")
                /\ r = 3 => Writable(pair, "thread")}

HungUp == IF BothClosed(pair) THEN {2, 3} ELSE {}

Alive == ~died /\ loop.at # "done"

\* wait_next_event(10): the first pass, and poll(), which gives up after the
\* 10 milliseconds.  With nothing to poll the loop is left.
Wait(datagram) ==
  /\ Alive /\ loop.at = "wait" /\ ~(owner = "open" /\ ~sock.conn.opening)
  /\ sock' = SetUp.state
  /\ loop' = IF SetUp.polled = {} THEN [loop EXCEPT !.at = "exit", !.rules = SetUp.rules]
             ELSE Polled(loop, SetUp, Ready(datagram), HungUp)
  /\ UNCHANGED <<pair, abort, owner, died>>

ServeDatagram ==
  /\ Alive /\ Serves(loop, 1) /\ loop' = Served(loop, 1)
  /\ \E c \in SegmentReceived(sock.conn) : sock' = [sock EXCEPT !.conn = c]
  /\ UNCHANGED <<pair, abort, owner, died>>

\* As many bytes as the connection has room for; at the end of file the
\* outbound stream is ended.
ServeOutbound ==
  LET limit == RemainingCapacity(sock.conn.outbound)
      eof == sock.eof \/ ReadHitsEof(pair, "thread", limit)
  IN  /\ Alive /\ Serves(loop, 2) /\ loop' = Served(loop, 2)
      /\ pair' = AfterRead(pair, "thread", limit)
      /\ \E c \in WriteData(sock.conn, ReadData(pair, "thread", limit)) :
           \E d \in IF eof THEN EndInputStream(c) ELSE {c} :
             sock' = [sock EXCEPT !.conn = d, !.eof = eof, !.outbound_shutdown = @ \/ eof]
      /\ UNCHANGED <<abort, owner, died>>

\* Mutant: everything peeked is popped, written or not.
PopAll(p, data) == Len(data)

\* Only what was actually written is popped.
PopWritten(p, data) == WriteSize(p, "thread", data)

\* Mutant: the end of the stream is taken for the end of its bytes.
InboundEnded(left) == left.input_ended \/ left.error

InboundOver(left) == Eof(left) \/ left.error

\* All the bytes that wait, as far as they fit; after the last of them, or
\* after a reset, nothing more is to be written.
ServeInbound ==
  LET inbound == sock.conn.inbound
      left == PopStream(inbound, PopWritten(pair, inbound.queue))
      over == InboundOver(left)
      written == AfterWrite(pair, "thread", inbound.queue)
  IN  /\ Alive /\ Serves(loop, 3) /\ loop' = Served(loop, 3)
      /\ died' = WriteBreaks(pair, "thread", inbound.queue)
      /\ IF died' THEN UNCHANGED <<sock, pair>>
         ELSE /\ sock' = [sock EXCEPT !.conn.inbound = left, !.inbound_shutdown = @ \/ over]
              /\ pair' = IF over THEN ShutWrite(written, "thread") ELSE written
      /\ UNCHANGED <<abort, owner>>

ServeSegments ==
  /\ Alive /\ Serves(loop, 4) /\ loop' = Served(loop, 4)
  /\ sock' = [sock EXCEPT !.conn.queued = FALSE]
  /\ UNCHANGED <<pair, abort, owner, died>>

\* A hang-up that leaves nothing to read or write.
DropRule(r) ==
  /\ Alive /\ Drops(loop, r) /\ loop' = Dropped(loop, r)
  /\ sock' = Cancel(r, sock)
  /\ UNCHANGED <<pair, abort, owner, died>>

\* Mutant: _abort is looked at when the connection has ended.
LeavesWhenEnded == abort /\ ~sock.conn.active

Leaves == abort

\* The rest of a turn of _tcp_loop(): _abort ends it, otherwise time passes.
Turn ==
  /\ Alive /\ loop.at = "serve" /\ loop.todo = {}
  /\ IF Leaves THEN loop' = [loop EXCEPT !.at = "exit"] /\ UNCHANGED sock
     ELSE /\ loop' = [loop EXCEPT !.at = "wait"]
          /\ \E c \in Tick(sock.conn) : sock' = [sock EXCEPT !.conn = c]
  /\ UNCHANGED <<pair, abort, owner, died>>

\* connect() and listen_and_accept() return when the handshake is over, or
\* the loop has nothing to do, and start the thread.
StartThread ==
  /\ Alive /\ owner = "open"
  /\ loop.at = "exit" \/ (loop.at = "wait" /\ ~sock.conn.opening)
  /\ loop' = [loop EXCEPT !.at = "wait"] /\ owner' = "copy"
  /\ UNCHANGED <<sock, pair, abort, died>>

\* The end of _tcp_main().  A connection that is still active queues a RST in
\* its destructor, in a queue that is destroyed with it.
ThreadEnds ==
  /\ Alive /\ owner # "open" /\ loop.at = "exit" /\ loop' = [loop EXCEPT !.at = "done"]
  /\ pair' = ShutBoth(pair)
  /\ sock' = IF sock.conn.active
             THEN [sock EXCEPT !.conn = Reset([@ EXCEPT !.queued = TRUE])] ELSE sock
  /\ UNCHANGED <<abort, owner, died>>

ThreadStep ==
  \/ \E datagram \in BOOLEAN : Wait(datagram)
  \/ ServeDatagram \/ ServeOutbound \/ ServeInbound \/ ServeSegments
  \/ \E r \in {2, 3} : DropRule(r)
  \/ Turn \/ StartThread \/ ThreadEnds

\* wait_until_closed(), called where the owner has finished with the socket.
wait_until_closed ==
  /\ owner' = "join" /\ pair' = ShutBoth(pair)
  /\ UNCHANGED <<sock, loop, abort, died>>

\* ~TCPSpongeSocket() of a socket whose thread was not joined.
Destroy ==
  /\ ~died /\ owner = "copy" /\ owner' = "join" /\ abort' = TRUE
  /\ UNCHANGED <<sock, loop, pair, died>>

Join ==
  /\ ~died /\ owner = "join" /\ loop.at = "done" /\ owner' = "end"
  /\ UNCHANGED <<sock, loop, pair, abort, died>>
=============================================================================
