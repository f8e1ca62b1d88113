----------------------------- MODULE StreamCopy -----------------------------
(***************************************************************************)
(* The program around a TCPSpongeSocket (tcp_udp.cc, tcp_ipv4.cc and the   *)
(* like): it opens the connection, copies stdin to the socket and the      *)
(* socket to stdout with bidirectional_stream_copy(), an event loop of its *)
(* own, and then calls wait_until_closed().  It may also be left by an     *)
(* exception, which destroys the socket.                                   *)
(*   copy  what only the copy loop touches: its two streams and flags and  *)
(*         the flags of its three descriptors                              *)
(***************************************************************************)
EXTENDS SpongeSocket, FiniteSets

CONSTANTS CopyCapacity,  \* buffer_size
          InputBytes     \* how much stdin has before its end

ASSUME CopyAssumption ==
  /\ RecvCapacity \in Nat \ {0} /\ SendCapacity \in Nat \ {0}
  /\ CopyCapacity \in Nat \ {0} /\ InputBytes \in Nat

VARIABLES copy, copyLoop, input, output

copyVars == <<copy, copyLoop, input, output>>
vars == <<threadVars, copyVars>>

Init ==
  /\ InitSocket
  /\ copy = [outbound |-> NewStream(CopyCapacity), inbound |-> NewStream(CopyCapacity),
             outbound_shutdown |-> FALSE, inbound_shutdown |-> FALSE,
             input_eof |-> FALSE, socket_eof |-> FALSE, output_closed |-> FALSE]
  /\ copyLoop = NewLoop
  /\ input = [k \in 1..InputBytes |-> k - 1]   \* what stdin still has
  /\ output = <<>>                             \* what stdout was given

\* The rules: 1 stdin to _outbound, 2 _outbound to the socket, 3 the socket to
\* _inbound, 4 _inbound to stdout.
CopyOver(r, s) ==
  \/ r = 1 /\ s.input_eof
  \/ r = 3 /\ s.socket_eof
  \/ r = 4 /\ s.output_closed

CopyCancel(r, s) ==
  IF r \in {1, 2} THEN [s EXCEPT !.outbound = EndInput(@)]
  ELSE [s EXCEPT !.inbound = EndInput(@)]

\* Mutant: the end of the socket's output is announced again and again.
CopyInterestAgain(r, s) ==
  \/ r = 1 /\ ~s.outbound.error /\ RemainingCapacity(s.outbound) > 0 /\ ~s.inbound.error
  \/ r = 2 /\ (s.outbound.queue # <<>> \/ Eof(s.outbound))
  \/ r = 3 /\ ~s.inbound.error /\ RemainingCapacity(s.inbound) > 0 /\ ~s.outbound.error
  \/ r = 4 /\ (s.inbound.queue # <<>> \/ (Eof(s.inbound) /\ ~s.inbound_shutdown))

CopyInterest(r, s) ==
  \/ r = 1 /\ ~s.outbound.error /\ RemainingCapacity(s.outbound) > 0 /\ ~s.inbound.error
  \/ r = 2 /\ (s.outbound.queue # <<>> \/ (Eof(s.outbound) /\ ~s.outbound_shutdown))
  \/ r = 3 /\ ~s.inbound.error /\ RemainingCapacity(s.inbound) > 0 /\ ~s.outbound.error
  \/ r = 4 /\ (s.inbound.queue # <<>> \/ (Eof(s.inbound) /\ ~s.inbound_shutdown))

\* stdin is a file, a terminal or a pipe: of the end of a pipe poll() reports
\* nothing but the hang-up.
Stdin == {"silent", "readable"} \cup IF input = <<>> THEN {"hung up"} ELSE {}

CopyVisit(pass, r) ==
  Visited(pass, r, CopyOver(r, pass.state), CopyCancel(r, pass.state), CopyInterest(r, pass.state))

CopySetUp ==
  CopyVisit(CopyVisit(CopyVisit(CopyVisit(NewPass(copyLoop, copy), 1), 2), 3), 4)

CopyReady(stdin) ==
  {r \in 1..4 : /\ r = 1 => stdin = "readable"
                /\ r = 2 => Writable(pair, "owner")
                /\ r = 3 => Readable(pair, "owner")}

CopyHungUp(stdin) == HungUp \cup IF stdin = "hung up" THEN {1} ELSE {}

Copies == ~died /\ owner = "copy"

\* wait_next_event(-1) waits until there is something.
CopyWait(stdin) ==
  /\ Copies /\ copyLoop.at = "wait" /\ CopySetUp.polled # {}
  /\ Wakes(CopySetUp, CopyReady(stdin), CopyHungUp(stdin))
  /\ copy' = CopySetUp.state
  /\ copyLoop' = Polled(copyLoop, CopySetUp, CopyReady(stdin), CopyHungUp(stdin))
  /\ UNCHANGED <<threadVars, input, output>>

\* With nothing left to poll the copy returns to main().
CopyEnds ==
  /\ Copies /\ copyLoop.at = "wait" /\ CopySetUp.polled = {}
  /\ copy' = CopySetUp.state
  /\ copyLoop' = [copyLoop EXCEPT !.at = "done", !.rules = CopySetUp.rules]
  /\ wait_until_closed
  /\ UNCHANGED <<input, output>>

ReadInput ==
  LET n == Least(Len(input), RemainingCapacity(copy.outbound))
      eof == copy.input_eof \/ (RemainingCapacity(copy.outbound) > 0 /\ n = 0)
      read == WriteStream(copy.outbound, SubSeq(input, 1, n))
  IN  /\ Copies /\ Serves(copyLoop, 1) /\ copyLoop' = Served(copyLoop, 1)
      /\ input' = SubSeq(input, n + 1, Len(input))
      /\ copy' = [copy EXCEPT !.input_eof = eof, !.outbound = IF eof THEN EndInput(read) ELSE read]
      /\ UNCHANGED <<threadVars, output>>

WriteSocket ==
  LET data == copy.outbound.queue
      left == PopStream(copy.outbound, WriteSize(pair, "owner", data))
      written == AfterWrite(pair, "owner", data)
  IN  /\ Copies /\ Serves(copyLoop, 2) /\ copyLoop' = Served(copyLoop, 2)
      /\ died' = WriteBreaks(pair, "owner", data)
      /\ IF died' THEN UNCHANGED <<copy, pair>>
         ELSE /\ copy' = [copy EXCEPT !.outbound = left, !.outbound_shutdown = @ \/ Eof(left)]
              /\ pair' = IF Eof(left) THEN ShutWrite(written, "owner") ELSE written
      /\ UNCHANGED <<sock, loop, abort, owner, input, output>>

ReadSocket ==
  LET limit == RemainingCapacity(copy.inbound)
      eof == copy.socket_eof \/ ReadHitsEof(pair, "owner", limit)
      read == WriteStream(copy.inbound, ReadData(pair, "owner", limit))
  IN  /\ Copies /\ Serves(copyLoop, 3) /\ copyLoop' = Served(copyLoop, 3)
      /\ pair' = AfterRead(pair, "owner", limit)
      /\ copy' = [copy EXCEPT !.socket_eof = eof, !.inbound = IF eof THEN EndInput(read) ELSE read]
      /\ UNCHANGED <<sock, loop, abort, owner, died, input, output>>

WriteOutput ==
  LET left == PopStream(copy.inbound, BufferSize(copy.inbound))
  IN  /\ Copies /\ Serves(copyLoop, 4) /\ copyLoop' = Served(copyLoop, 4)
      /\ output' = output \o copy.inbound.queue
      /\ copy' = [copy EXCEPT !.inbound = left, !.output_closed = @ \/ Eof(left),
                              !.inbound_shutdown = @ \/ Eof(left)]
      /\ UNCHANGED <<threadVars, input>>

CopyDrop(r) ==
  /\ Copies /\ Drops(copyLoop, r) /\ copyLoop' = Dropped(copyLoop, r)
  /\ copy' = CopyCancel(r, copy)
  /\ UNCHANGED <<threadVars, input, output>>

CopyTurn ==
  /\ Copies /\ copyLoop.at = "serve" /\ copyLoop.todo = {}
  /\ copyLoop' = [copyLoop EXCEPT !.at = "wait"]
  /\ UNCHANGED <<threadVars, copy, input, output>>

CopyStep ==
  \/ \E stdin \in Stdin : CopyWait(stdin)
  \/ ReadInput \/ WriteSocket \/ ReadSocket \/ WriteOutput
  \/ \E r \in 1..3 : CopyDrop(r)
  \/ CopyTurn \/ CopyEnds

Finished == (died \/ owner = "end") /\ UNCHANGED vars

Next ==
  \/ ThreadStep /\ UNCHANGED copyVars
  \/ CopyStep
  \/ Destroy /\ UNCHANGED copyVars
  \/ Join /\ UNCHANGED copyVars
  \/ Finished

CopyBlocked ==
  /\ copyLoop.at = "wait" /\ CopySetUp.polled # {}
  /\ \A stdin \in Stdin : ~Wakes(CopySetUp, CopyReady(stdin), CopyHungUp(stdin))

\* The scheduler runs both threads.  poll() in the thread of the connection
\* waits 10 milliseconds at most, so that it can always go on; the copy loop
\* can unless it waits for its descriptors.  Nothing is assumed of the peer,
\* and nothing of stdin but that, while the loop waits for nothing else, it
\* has something to read in the end.  These are the weak fairness of the steps
\* of each thread, which all change its loop, with ENABLED written out.
Fairness ==
  /\ []<>~Alive \/ []<><<TRUE>>_loop
  /\ []<>(~Copies \/ CopyBlocked) \/ []<><<TRUE>>_copyLoop
  /\ WF_owner(Join)

Spec == Init /\ [][Next]_vars /\ Fairness
-----------------------------------------------------------------------------
\* What the program prints is what the peer wrote, and what the connection
\* sends is what stdin held, byte for byte, through the buffers of both loops
\* and of the kernel, partial writes included; an end of file that is not the
\* end of the peer's stream is seen only after a reset.
StreamsIntact ==
  /\ LET through == output \o copy.inbound.queue \o pair.queue["owner"] \o sock.conn.inbound.queue
     IN  /\ through = [k \in DOMAIN through |-> k - 1]
         /\ Len(through) = sock.conn.inbound.bytes_written
  /\ LET through == sock.conn.outbound.queue \o pair.queue["thread"] \o copy.outbound.queue \o input
     IN  through = [k \in DOMAIN through |-> sock.conn.outbound.bytes_read + k - 1]
  /\ copy.socket_eof /\ ~sock.conn.inbound.error => copy.inbound.bytes_written = PeerBytes

\* Unless it was told to stop, the thread leaves no segment behind, the last
\* acknowledgment and a reset of its own included.
LastSegmentsSent == loop.at = "done" /\ ~abort => ~sock.conn.queued

\* A process is killed for writing to a socket that was shut only when the
\* inbound stream is in error: the connection was reset, by either end.
BrokenPipeAfterReset == died => sock.conn.inbound.error

\* The destructor does not wait for the peer: once _abort is set the thread
\* is joined.
AbortEnds == abort ~> (owner = "end" \/ died)

\* When the connection has ended, well or not, and stdin too, by end of file or
\* by a hang-up that erased its rule, nothing is left waiting: neither thread
\* for the other, nor a rule for a descriptor.
ProgramEnds ==
  (~sock.conn.active /\ (copy.input_eof \/ 1 \notin copyLoop.rules)) ~> (owner = "end" \/ died)

\* The rule that gives the peer's bytes to the owner copes with "the possibility
\* of a partial write" (tcp_sponge_socket.cc): it never writes to the socket
\* that it has shut.
PartialWriteHandled == [][Serves(loop, 3) /\ loop' # loop => ~died']_vars
============================================================================
