-------------------------- MODULE LocalSocketPair --------------------------
(***************************************************************************)
(* The pair of connected Unix-domain stream sockets between the owner of a *)
(* TCPSpongeSocket and the thread of its connection, as the calls of       *)
(* FileDescriptor and Socket in socket.cc and file_descriptor.cc use it.   *)
(* queue[e] are the bytes on their way to end e, closed[e] says that no    *)
(* more will follow.                                                       *)
(***************************************************************************)
EXTENDS Naturals, Sequences

CONSTANT PipeSize   \* bytes that fit in one direction

ASSUME PipeAssumption == PipeSize \in Nat \ {0}

SocketEnds == {"owner", "thread"}
OtherEnd(e) == IF e = "owner" THEN "thread" ELSE "owner"

\* socket_pair_helper()
NewPair == [queue |-> [e \in SocketEnds |-> <<>>], closed |-> [e \in SocketEnds |-> FALSE]]

\* What poll() reports of an end.
Readable(p, e) == p.queue[e] # <<>> \/ p.closed[e]
Writable(p, e) == Len(p.queue[OtherEnd(e)]) < PipeSize
BothClosed(p) == \A e \in SocketEnds : p.closed[e]

\* FileDescriptor::read(limit): a read of nothing raises _eof.
ReadSize(p, e, limit) == IF Len(p.queue[e]) <= limit THEN Len(p.queue[e]) ELSE limit
ReadData(p, e, limit) == SubSeq(p.queue[e], 1, ReadSize(p, e, limit))
AfterRead(p, e, limit) ==
  [p EXCEPT !.queue[e] = SubSeq(@, ReadSize(p, e, limit) + 1, Len(@))]
ReadHitsEof(p, e, limit) == limit > 0 /\ ReadSize(p, e, limit) = 0

\* FileDescriptor::write(data, false): as much as fits.  Bytes written to an
\* end that takes no more are answered with SIGPIPE, which nobody handles.
WriteSize(p, e, data) ==
  LET room == PipeSize - Len(p.queue[OtherEnd(e)])
  IN  IF Len(data) <= room THEN Len(data) ELSE room
AfterWrite(p, e, data) ==
  [p EXCEPT !.queue[OtherEnd(e)] = @ \o SubSeq(data, 1, WriteSize(p, e, data))]
WriteBreaks(p, e, data) == data # <<>> /\ p.closed[OtherEnd(e)]

\* Socket::shutdown(SHUT_WR) and Socket::shutdown(SHUT_RDWR)
ShutWrite(p, e) == [p EXCEPT !.closed[OtherEnd(e)] = TRUE]
ShutBoth(p) == [p EXCEPT !.closed = [e \in SocketEnds |-> TRUE]]
=============================================================================
