-------------------------- MODULE StreamCopyProofs --------------------------
(***************************************************************************)
(* Proofs that the bytes a program copies through a TCPSpongeSocket arrive *)
(* complete and in order, that the thread of the socket leaves no segment  *)
(* behind, and that SIGPIPE ends the process only after a reset, for every *)
(* size of the buffers and of the pair of sockets.                         *)
(***************************************************************************)
EXTENDS StreamCopy, TLAPS

-----------------------------------------------------------------------------
(* The inductive invariant.  The bytes of both directions are numbered     *)
(* from 0: every buffer holds a run of numbers, and begins where the next  *)
(* one on the way ends.                                                    *)

Run(q, from) == \A k \in 1..Len(q) : q[k] = from + k - 1

StreamFields(s) ==
  s \in [capacity : {s.capacity}, queue : {s.queue}, bytes_written : {s.bytes_written},
         bytes_read : {s.bytes_read}, input_ended : {s.input_ended}, error : {s.error}]

Stream(s) ==
  /\ StreamFields(s)
  /\ s.capacity \in Nat \ {0} /\ s.queue \in Seq(Nat)
  /\ s.bytes_written \in Nat /\ s.bytes_read \in Nat
  /\ s.input_ended \in BOOLEAN /\ s.error \in BOOLEAN
  /\ Len(s.queue) <= s.capacity
  /\ s.bytes_written = s.bytes_read + Len(s.queue)
  /\ Run(s.queue, s.bytes_read)

\* A connection that is over was reset, or both its streams are at their end.
ConnFields(c) ==
  c \in [active : {c.active}, opening : {c.opening}, queued : {c.queued},
         inbound : {c.inbound}, outbound : {c.outbound}]

Conn(c) ==
  /\ ConnFields(c)
  /\ c.active \in BOOLEAN /\ c.opening \in BOOLEAN /\ c.queued \in BOOLEAN
  /\ Stream(c.inbound) /\ Stream(c.outbound)
  /\ c.inbound.bytes_written <= PeerBytes
  /\ c.inbound.input_ended => c.inbound.bytes_written = PeerBytes
  /\ ~c.active => c.inbound.error \/ (Eof(c.inbound) /\ Eof(c.outbound))

SockFields(s) ==
  s \in [conn : {s.conn}, outbound_shutdown : {s.outbound_shutdown},
         inbound_shutdown : {s.inbound_shutdown}, eof : {s.eof}]

Sock(s) ==
  /\ SockFields(s)
  /\ s.outbound_shutdown \in BOOLEAN /\ s.inbound_shutdown \in BOOLEAN /\ s.eof \in BOOLEAN
  /\ Conn(s.conn)
  /\ s.conn.outbound.input_ended => s.eof

PairFields(p) == p \in [queue : {p.queue}, closed : {p.closed}]

Pair(p) ==
  /\ PairFields(p)
  /\ p.queue \in [SocketEnds -> Seq(Nat)] /\ p.closed \in [SocketEnds -> BOOLEAN]
  /\ \A e \in SocketEnds : Len(p.queue[e]) <= PipeSize

CopyFields(c) ==
  c \in [outbound : {c.outbound}, inbound : {c.inbound},
         outbound_shutdown : {c.outbound_shutdown}, inbound_shutdown : {c.inbound_shutdown},
         input_eof : {c.input_eof}, socket_eof : {c.socket_eof}, output_closed : {c.output_closed}]

Copy(c) ==
  /\ CopyFields(c)
  /\ c.outbound_shutdown \in BOOLEAN /\ c.inbound_shutdown \in BOOLEAN
  /\ c.input_eof \in BOOLEAN /\ c.socket_eof \in BOOLEAN /\ c.output_closed \in BOOLEAN
  /\ Stream(c.outbound) /\ Stream(c.inbound)
  /\ ~c.outbound.error /\ ~c.inbound.error
  /\ c.output_closed => c.socket_eof
  /\ c.inbound.input_ended => c.socket_eof
  /\ c.input_eof => c.outbound.input_ended

LoopFields(l) == l \in [at : {l.at}, rules : {l.rules}, todo : {l.todo}, dead : {l.dead}]

Loop(l) ==
  /\ LoopFields(l)
  /\ l.at \in {"wait", "serve", "exit", "done"}
  /\ l.rules \in SUBSET (1..4) /\ l.todo \in SUBSET (1..4) /\ l.dead \in SUBSET (1..4)

\* From the connection to stdout, and from stdin to the connection.
Inbound(c, p, s, out) ==
  /\ out \in Seq(Nat) /\ Run(out, 0) /\ Len(out) = c.inbound.bytes_read
  /\ Run(p.queue["owner"], c.inbound.bytes_written)
  /\ s.conn.inbound.bytes_read = c.inbound.bytes_written + Len(p.queue["owner"])

Outbound(c, p, s, in) ==
  /\ in \in Seq(Nat) /\ Run(in, c.outbound.bytes_written)
  /\ Run(p.queue["thread"], s.conn.outbound.bytes_written)
  /\ c.outbound.bytes_read = s.conn.outbound.bytes_written + Len(p.queue["thread"])

\* A direction is shut when its stream is at its end, or the connection was
\* reset; what has seen the end of file finds nothing more to read.
InboundEnds(c, p, s) ==
  /\ p.closed["owner"] => s.conn.inbound.error \/ Eof(s.conn.inbound)
  /\ c.socket_eof => p.closed["owner"] /\ p.queue["owner"] = <<>>

OutboundEnds(c, p, s, in, who) ==
  /\ p.closed["thread"] =>
       s.conn.inbound.error \/ who \in {"join", "end"} \/ (Eof(c.outbound) /\ c.outbound_shutdown)
  /\ s.eof => p.closed["thread"] /\ p.queue["thread"] = <<>>
  /\ c.outbound.input_ended => s.conn.inbound.error \/ in = <<>>

\* A rule that waits to be served is still ready; only a rule at its end is
\* dead or erased.
ThreadLoop(l, p) ==
  /\ Loop(l) /\ {1, 4} \subseteq l.rules /\ l.dead \subseteq {3}
  /\ 2 \in l.todo => Readable(p, "thread")

OwnerLoop(l, c, p, s, in) ==
  /\ Loop(l) /\ l.dead \subseteq {1, 2}
  /\ 3 \in l.todo => Readable(p, "owner")
  /\ 1 \in l.dead => in = <<>>
  /\ 2 \in l.dead => s.conn.inbound.error
  /\ 3 \notin l.rules => c.socket_eof
  /\ 4 \notin l.rules => c.socket_eof

\* What relates the two sides of the pair of sockets.
Flow(c, l, in, out, p, s, who) ==
  /\ Inbound(c, p, s, out) /\ Outbound(c, p, s, in)
  /\ InboundEnds(c, p, s) /\ OutboundEnds(c, p, s, in, who)
  /\ OwnerLoop(l, c, p, s, in)

\* The thread leaves its loop with nothing to send, unless it was told to.
ThreadLeaves(l, s, told) ==
  /\ l.at = "exit" /\ ~told => ~s.conn.active /\ ~s.conn.queued
  /\ l.at = "done" => ~s.conn.active
  /\ l.at = "done" /\ ~told => ~s.conn.queued

Inv ==
  /\ Sock(sock) /\ Pair(pair) /\ Copy(copy)
  /\ abort \in BOOLEAN /\ died \in BOOLEAN /\ owner \in {"open", "copy", "join", "end"}
  /\ Flow(copy, copyLoop, input, output, pair, sock, owner)
  /\ ThreadLoop(loop, pair) /\ ThreadLeaves(loop, sock, abort)
  /\ died => sock.conn.inbound.error

-----------------------------------------------------------------------------
(* Runs of numbers.                                                        *)

\* The bytes that a read takes off the front of a buffer, and those it leaves.
LEMMA RunCut ==
  ASSUME NEW q \in Seq(Nat), NEW from \in Nat, Run(q, from), NEW n \in 0..Len(q)
  PROVE  /\ SubSeq(q, 1, n) \in Seq(Nat) /\ Len(SubSeq(q, 1, n)) = n
         /\ Run(SubSeq(q, 1, n), from)
         /\ SubSeq(q, n + 1, Len(q)) \in Seq(Nat) /\ Len(SubSeq(q, n + 1, Len(q))) = Len(q) - n
         /\ Run(SubSeq(q, n + 1, Len(q)), from + n)
  <1> DEFINE a == SubSeq(q, 1, n)
             b == SubSeq(q, n + 1, Len(q))
  <1>1. a \in Seq(Nat) /\ Len(a) = n /\ \A k \in 1..n : a[k] = q[k]
    OBVIOUS
  <1>2. b \in Seq(Nat) /\ Len(b) = Len(q) - n /\ \A k \in 1..(Len(q) - n) : b[k] = q[n + k]
    OBVIOUS
  <1> HIDE DEF a, b
  <1>3. Len(q) \in Nat /\ n \in Nat /\ n <= Len(q)
    OBVIOUS
  <1>4. Run(a, from)
    <2> SUFFICES ASSUME NEW k \in 1..n
                 PROVE  a[k] = from + k - 1
      BY <1>1 DEF Run
    <2>1. k \in 1..Len(q) /\ a[k] = q[k]
      BY <1>1, <1>3
    <2> QED
      BY <2>1 DEF Run
  <1>5. Run(b, from + n)
    <2> SUFFICES ASSUME NEW k \in 1..(Len(q) - n)
                 PROVE  b[k] = from + n + k - 1
      BY <1>2 DEF Run
    <2>1. n + k \in 1..Len(q)
      BY <1>3
    <2>2. q[n + k] = from + (n + k) - 1
      BY <2>1 DEF Run
    <2> QED
      BY <1>2, <1>3, <2>2
  <1> QED
    BY <1>1, <1>2, <1>4, <1>5, Zenon DEF a, b

\* Bytes are added behind the last one.
LEMMA RunJoin ==
  ASSUME NEW p \in Seq(Nat), NEW q \in Seq(Nat), NEW from \in Nat,
         Run(p, from), Run(q, from + Len(p))
  PROVE  p \o q \in Seq(Nat) /\ Len(p \o q) = Len(p) + Len(q) /\ Run(p \o q, from)
  <1>1. p \o q \in Seq(Nat) /\ Len(p \o q) = Len(p) + Len(q)
    OBVIOUS
  <1>2. ASSUME NEW k \in 1..Len(p \o q)
        PROVE  (p \o q)[k] = from + k - 1
    <2>1. CASE k <= Len(p)
      <3>1. (p \o q)[k] = p[k]
        BY <2>1
      <3> QED
        BY <2>1, <3>1 DEF Run
    <2>2. CASE k > Len(p)
      <3>1. (p \o q)[k] = q[k - Len(p)] /\ k - Len(p) \in 1..Len(q)
        BY <1>1, <2>2
      <3>2. q[k - Len(p)] = from + Len(p) + (k - Len(p)) - 1
        BY <3>1 DEF Run
      <3> QED
        BY <3>1, <3>2
    <2> QED
      BY <2>1, <2>2
  <1> QED
    BY <1>1, <1>2 DEF Run

LEMMA RunEmpty ==
  ASSUME NEW from \in Nat
  PROVE  <<>> \in Seq(Nat) /\ Len(<<>>) = 0 /\ Run(<<>>, from)
  BY DEF Run

LEMMA LenEmpty ==
  ASSUME NEW q \in Seq(Nat)
  PROVE  Len(q) \in Nat /\ (Len(q) = 0 <=> q = <<>>)
  OBVIOUS

-----------------------------------------------------------------------------
(* The calls of a ByteStream.                                              *)

LEMMA StreamNumbers ==
  ASSUME NEW s, Stream(s)
  PROVE  /\ s.capacity \in Nat \ {0} /\ s.queue \in Seq(Nat) /\ Len(s.queue) \in Nat
         /\ s.bytes_written \in Nat /\ s.bytes_read \in Nat
         /\ Len(s.queue) <= s.capacity /\ s.bytes_written = s.bytes_read + Len(s.queue)
         /\ Run(s.queue, s.bytes_read)
  BY LenEmpty, Zenon DEF Stream

\* write() of no more than there is room for takes it all.
LEMMA WriteIsStream ==
  ASSUME NEW s, Stream(s), NEW data \in Seq(Nat),
         Len(data) <= RemainingCapacity(s), Run(data, s.bytes_written)
  PROVE  LET t == WriteStream(s, data)
         IN  /\ Stream(t) /\ t.queue = s.queue \o data
             /\ t.bytes_written = s.bytes_written + Len(data) /\ t.bytes_read = s.bytes_read
             /\ t.capacity = s.capacity
             /\ t.input_ended = s.input_ended /\ t.error = s.error
  <1> DEFINE t == WriteStream(s, data)
             q == s.queue \o SubSeq(data, 1, Least(Len(data), RemainingCapacity(s)))
             n == s.bytes_written + Least(Len(data), RemainingCapacity(s))
  <1>1. /\ StreamFields(t) /\ t.queue = q /\ t.bytes_written = n
        /\ t.bytes_read = s.bytes_read /\ t.capacity = s.capacity
        /\ t.input_ended = s.input_ended /\ t.error = s.error
    BY Zenon DEF Stream, StreamFields, WriteStream
  <1>2. Least(Len(data), RemainingCapacity(s)) = Len(data) /\ SubSeq(data, 1, Len(data)) = data
    BY DEF Least, RemainingCapacity, BufferSize, Stream
  <1>3. q = s.queue \o data /\ n = s.bytes_written + Len(data)
    BY <1>2, Zenon
  <1>4. /\ q \in Seq(Nat) /\ Len(q) = Len(s.queue) + Len(data) /\ Run(q, s.bytes_read)
    BY <1>3, RunJoin, Zenon DEF Stream
  <1> HIDE DEF t, q, n
  <1>5. Stream(t)
    BY <1>1, <1>3, <1>4, SMTT(30), SMTT(90) DEF Stream, RemainingCapacity, BufferSize
  <1> QED
    BY <1>1, <1>3, <1>5, Zenon DEF t

\* pop_output() of no more than there is.
LEMMA PopIsStream ==
  ASSUME NEW s, Stream(s), NEW n \in 0..Len(s.queue)
  PROVE  LET t == PopStream(s, n)
         IN  /\ Stream(t) /\ t.queue = SubSeq(s.queue, n + 1, Len(s.queue))
             /\ Len(t.queue) = Len(s.queue) - n
             /\ t.bytes_written = s.bytes_written /\ t.bytes_read = s.bytes_read + n
             /\ t.capacity = s.capacity
             /\ t.input_ended = s.input_ended /\ t.error = s.error
  <1> DEFINE t == PopStream(s, n)
             q == SubSeq(s.queue, n + 1, Len(s.queue))
  <1>1. /\ StreamFields(t) /\ t.queue = q /\ t.bytes_read = s.bytes_read + n
        /\ t.bytes_written = s.bytes_written /\ t.capacity = s.capacity
        /\ t.input_ended = s.input_ended /\ t.error = s.error
    BY Zenon DEF Stream, StreamFields, PopStream
  <1>2. q \in Seq(Nat) /\ Len(q) = Len(s.queue) - n /\ Run(q, s.bytes_read + n)
    BY RunCut, Zenon DEF Stream
  <1> HIDE DEF t, q
  <1>3. /\ t.bytes_read \in Nat /\ Len(t.queue) <= t.capacity
        /\ t.bytes_written = t.bytes_read + Len(t.queue)
    BY <1>1, <1>2, StreamNumbers, SMTT(30), SMTT(90)
  <1>4. Stream(t)
    BY <1>1, <1>2, <1>3, Zenon DEF Stream
  <1> QED
    BY <1>1, <1>2, <1>4, Zenon DEF t, q

LEMMA EndIsStream ==
  ASSUME NEW s, Stream(s)
  PROVE  LET t == EndInput(s)
         IN  /\ Stream(t) /\ t.queue = s.queue /\ t.bytes_written = s.bytes_written
             /\ t.bytes_read = s.bytes_read /\ t.capacity = s.capacity
             /\ t.input_ended /\ t.error = s.error
  <1> DEFINE t == EndInput(s)
  <1>1. /\ StreamFields(t) /\ t.queue = s.queue /\ t.bytes_written = s.bytes_written
        /\ t.bytes_read = s.bytes_read /\ t.capacity = s.capacity
        /\ t.input_ended = TRUE /\ t.error = s.error
    BY Zenon DEF Stream, StreamFields, EndInput
  <1> HIDE DEF t
  <1> QED
    BY <1>1, Zenon DEF Stream, t

LEMMA ErrorIsStream ==
  ASSUME NEW s, Stream(s)
  PROVE  LET t == SetError(s)
         IN  /\ Stream(t) /\ t.queue = s.queue /\ t.bytes_written = s.bytes_written
             /\ t.bytes_read = s.bytes_read /\ t.capacity = s.capacity
             /\ t.input_ended = s.input_ended /\ t.error
  <1> DEFINE t == SetError(s)
  <1>1. /\ StreamFields(t) /\ t.queue = s.queue /\ t.bytes_written = s.bytes_written
        /\ t.bytes_read = s.bytes_read /\ t.capacity = s.capacity
        /\ t.input_ended = s.input_ended /\ t.error = TRUE
    BY Zenon DEF Stream, StreamFields, SetError
  <1> HIDE DEF t
  <1> QED
    BY <1>1, Zenon DEF Stream, t

LEMMA NewNumbers ==
  ASSUME NEW n \in Nat \ {0}
  PROVE  0 \in Nat /\ 0 <= n /\ 0 = 0 + 0
  OBVIOUS

LEMMA NewIsStream ==
  ASSUME NEW n \in Nat \ {0}
  PROVE  LET t == NewStream(n)
         IN  /\ Stream(t) /\ t.queue = <<>> /\ t.bytes_written = 0 /\ t.bytes_read = 0
             /\ t.capacity = n /\ ~t.input_ended /\ ~t.error
  <1> DEFINE t == NewStream(n)
  <1>1. /\ StreamFields(t) /\ t.queue = <<>> /\ t.bytes_written = 0
        /\ t.bytes_read = 0 /\ t.capacity = n
        /\ t.input_ended = FALSE /\ t.error = FALSE
    BY Zenon DEF StreamFields, NewStream
  <1> HIDE DEF t
  <1> QED
    BY <1>1, RunEmpty, NewNumbers, Zenon DEF Stream, t

\* A stream without bytes stays without bytes when it is popped.
LEMMA EofPop ==
  ASSUME NEW s, Stream(s), Eof(s), NEW n \in 0..Len(s.queue)
  PROVE  Eof(PopStream(s, n))
  <1>1. Len(s.queue) = 0
    BY StreamNumbers, LenEmpty, Zenon DEF Eof
  <1>2. n = 0
    BY <1>1
  <1>3. Len(PopStream(s, n).queue) = 0
    BY <1>1, <1>2, PopIsStream
  <1> QED
    BY <1>3, PopIsStream, StreamNumbers, LenEmpty, Zenon DEF Eof

-----------------------------------------------------------------------------
(* What the calls of a connection leave as it was: n bytes were written to *)
(* it, and its outbound stream was ended or not.                           *)

Kept(c, d, n, ended) ==
  /\ Conn(d)
  /\ d.inbound.bytes_read = c.inbound.bytes_read
  /\ c.inbound.error => d.inbound.error
  /\ Eof(c.inbound) => Eof(d.inbound)
  /\ d.outbound.bytes_written = c.outbound.bytes_written + n
  /\ d.outbound.input_ended => c.outbound.input_ended \/ ended

LEMMA MayEndKeeps ==
  ASSUME NEW c, Conn(c), NEW d \in MayEnd(c)
  PROVE  Conn(d) /\ d.inbound = c.inbound /\ d.outbound = c.outbound /\ d.queued = c.queued
  <1>1. CASE d = c
    BY <1>1, Zenon
  <1>2. CASE d = [c EXCEPT !.active = FALSE] /\ Eof(c.inbound) /\ Eof(c.outbound)
    <2>1. /\ ConnFields(d) /\ d.active = FALSE /\ d.opening = c.opening /\ d.queued = c.queued
          /\ d.inbound = c.inbound /\ d.outbound = c.outbound
      BY <1>2, Zenon DEF Conn, ConnFields
    <2> QED
      BY <1>2, <2>1, Zenon DEF Conn
  <1> QED
    BY <1>1, <1>2, Zenon DEF MayEnd

LEMMA PumpsKeep ==
  ASSUME NEW c, Conn(c), NEW d \in Pumps(c)
  PROVE  Kept(c, d, 0, FALSE)
  <1>1. PICK n \in 0..BufferSize(c.outbound), q \in BOOLEAN :
          d \in MayEnd(Pumped(c, n, q))
    BY DEF Pumps
  <1> DEFINE e == Pumped(c, n, q)
             out == PopStream(c.outbound, n)
  <1>2. /\ ConnFields(e) /\ e.active = c.active /\ e.opening = c.opening
        /\ e.queued = (c.queued \/ n > 0 \/ q)
        /\ e.inbound = c.inbound /\ e.outbound = out
    BY Zenon DEF Conn, ConnFields, Pumped
  <1>3. Stream(c.outbound) /\ n \in 0..Len(c.outbound.queue)
    BY <1>1, Zenon DEF Conn, BufferSize
  <1>4. /\ Stream(out) /\ out.bytes_written = c.outbound.bytes_written
        /\ out.input_ended = c.outbound.input_ended
    BY <1>3, PopIsStream, Zenon
  <1>5. Eof(c.outbound) => Eof(out)
    BY <1>3, EofPop, Zenon
  <1> HIDE DEF e, out
  <1>6. Conn(e)
    BY <1>2, <1>4, <1>5, Zenon DEF Conn
  <1>7. Conn(d) /\ d.inbound = e.inbound /\ d.outbound = e.outbound
    BY <1>1, <1>6, MayEndKeeps, Zenon DEF e
  <1>8. c.outbound.bytes_written = c.outbound.bytes_written + 0
    BY <1>3, StreamNumbers
  <1> QED
    BY <1>2, <1>4, <1>7, <1>8, Zenon DEF Kept

\* What has arrived is the peer's, and no more than the peer has written.
Arriving(s) ==
  /\ Stream(s) /\ s.bytes_written <= PeerBytes
  /\ s.input_ended => s.bytes_written = PeerBytes

LEMMA MoreArrives ==
  ASSUME NEW s, Arriving(s),
         NEW n \in 0 .. Least(RemainingCapacity(s), PeerBytes - s.bytes_written)
  PROVE  LET t == WriteStream(s, [k \in 1..n |-> s.bytes_written + k - 1])
         IN  /\ Arriving(t) /\ t.bytes_read = s.bytes_read /\ t.error = s.error
             /\ Eof(s) => Eof(t)
  <1> DEFINE data == [k \in 1..n |-> s.bytes_written + k - 1]
             t == WriteStream(s, data)
  <1>1. /\ Stream(s) /\ s.capacity \in Nat \ {0} /\ s.queue \in Seq(Nat) /\ Len(s.queue) \in Nat
        /\ s.bytes_written \in Nat /\ Len(s.queue) <= s.capacity /\ s.bytes_written <= PeerBytes
        /\ s.input_ended => s.bytes_written = PeerBytes
    BY StreamNumbers, Zenon DEF Arriving
  <1>2. n \in Nat /\ n <= RemainingCapacity(s) /\ s.bytes_written + n <= PeerBytes
    BY <1>1, PeerAssumption, SMTT(30), SMTT(90) DEF Least, RemainingCapacity, BufferSize
  <1>3. data \in Seq(Nat) /\ Len(data) = n /\ Run(data, s.bytes_written)
    BY <1>1, <1>2 DEF Run
  <1> HIDE DEF data
  <1>4. /\ Stream(t) /\ t.queue = s.queue \o data /\ t.bytes_written = s.bytes_written + n
        /\ t.bytes_read = s.bytes_read /\ t.input_ended = s.input_ended /\ t.error = s.error
    BY <1>1, <1>2, <1>3, WriteIsStream, Zenon
  <1> HIDE DEF t
  <1>5. s.input_ended => n = 0 /\ t.bytes_written = PeerBytes
    BY <1>1, <1>2, <1>4, PeerAssumption
  <1>6. Arriving(t)
    BY <1>1, <1>2, <1>4, <1>5, Zenon DEF Arriving
  <1>7. ASSUME Eof(s) PROVE Eof(t)
    <2>1. n = 0 /\ s.queue = <<>>
      BY <1>5, <1>7, Zenon DEF Eof
    <2>2. s.queue \o data = <<>>
      BY <1>1, <1>3, <2>1
    <2> QED
      BY <1>4, <1>7, <2>2, Zenon DEF Eof
  <1> QED
    BY <1>4, <1>6, <1>7, Zenon DEF t, data

LEMMA ArrivedKeeps ==
  ASSUME NEW s, Arriving(s), NEW t \in Arrived(s)
  PROVE  /\ Arriving(t) /\ t.bytes_read = s.bytes_read /\ t.error = s.error
         /\ Eof(s) => Eof(t)
  <1> DEFINE more(n) == WriteStream(s, [k \in 1..n |-> s.bytes_written + k - 1])
  <1>1. PICK n \in 0 .. Least(RemainingCapacity(s), PeerBytes - s.bytes_written) :
          t = more(n) \/ (t = EndInput(more(n)) /\ more(n).bytes_written = PeerBytes)
    BY Zenon DEF Arrived
  <1>2. /\ Arriving(more(n)) /\ more(n).bytes_read = s.bytes_read /\ more(n).error = s.error
        /\ Eof(s) => Eof(more(n))
    BY <1>1, MoreArrives, Zenon
  <1> HIDE DEF more
  <1>3. CASE t = more(n)
    BY <1>2, <1>3, Zenon
  <1>4. CASE t = EndInput(more(n)) /\ more(n).bytes_written = PeerBytes
    <2>1. /\ Stream(t) /\ t.queue = more(n).queue /\ t.bytes_written = more(n).bytes_written
          /\ t.bytes_read = more(n).bytes_read /\ t.input_ended /\ t.error = more(n).error
      BY <1>2, <1>4, EndIsStream, Zenon DEF Arriving
    <2> QED
      BY <1>2, <1>4, <2>1, Zenon DEF Arriving, Eof
  <1> QED
    BY <1>1, <1>3, <1>4, Zenon

LEMMA ResetKeeps ==
  ASSUME NEW c, Conn(c)
  PROVE  LET d == Reset(c)
         IN  Kept(c, d, 0, FALSE) /\ d.inbound.error /\ ~d.active /\ d.queued = c.queued
  <1> DEFINE d == Reset(c)
             in == SetError(c.inbound)
             out == SetError(c.outbound)
  <1>1. /\ ConnFields(d) /\ d.active = FALSE /\ d.opening = FALSE /\ d.queued = c.queued
        /\ d.inbound = in /\ d.outbound = out
    BY Zenon DEF Conn, ConnFields, Reset
  <1>2. Stream(c.inbound) /\ Stream(c.outbound)
    BY Zenon DEF Conn
  <1>3. /\ Stream(in) /\ in.queue = c.inbound.queue /\ in.bytes_written = c.inbound.bytes_written
        /\ in.bytes_read = c.inbound.bytes_read /\ in.input_ended = c.inbound.input_ended
        /\ in.error
    BY <1>2, ErrorIsStream, Zenon
  <1>4. /\ Stream(out) /\ out.bytes_written = c.outbound.bytes_written
        /\ out.input_ended = c.outbound.input_ended
    BY <1>2, ErrorIsStream, Zenon
  <1> HIDE DEF d, in, out
  <1>5. Conn(d)
    BY <1>1, <1>3, <1>4, Zenon DEF Conn
  <1>6. c.outbound.bytes_written = c.outbound.bytes_written + 0
    BY <1>2, StreamNumbers
  <1> QED
    BY <1>1, <1>3, <1>4, <1>5, <1>6, Zenon DEF Kept, Eof, d

LEMMA SameKeeps ==
  ASSUME NEW c, Conn(c)
  PROVE  Kept(c, c, 0, FALSE)
  <1>1. c.outbound.bytes_written = c.outbound.bytes_written + 0
    BY StreamNumbers DEF Conn
  <1> QED
    BY <1>1, Zenon DEF Kept

\* segment_received()
LEMMA SegmentKeeps ==
  ASSUME NEW c, Conn(c), NEW d \in SegmentReceived(c)
  PROVE  Kept(c, d, 0, FALSE)
  <1>1. CASE d = c
    BY <1>1, SameKeeps, Zenon
  <1>2. CASE d = Reset(c)
    BY <1>2, ResetKeeps, Zenon
  <1>3. ASSUME c.active, NEW s \in Arrived(c.inbound), NEW still \in BOOLEAN,
               d \in Pumps(Filled(c, s, still))
        PROVE  Kept(c, d, 0, FALSE)
    <2> DEFINE e == Filled(c, s, still)
    <2>1. /\ ConnFields(e) /\ e.active = c.active /\ e.opening = (c.opening /\ still)
          /\ e.queued = c.queued /\ e.inbound = s /\ e.outbound = c.outbound
      BY Zenon DEF Conn, ConnFields, Filled
    <2>2. /\ Arriving(s) /\ s.bytes_read = c.inbound.bytes_read /\ s.error = c.inbound.error
          /\ Eof(c.inbound) => Eof(s)
      BY ArrivedKeeps, Zenon DEF Conn, Arriving
    <2>3. Conn(e)
      BY <1>3, <2>1, <2>2, Zenon DEF Conn, Arriving
    <2>4. Kept(e, d, 0, FALSE)
      BY <1>3, <2>3, PumpsKeep, Zenon
    <2> QED
      BY <2>1, <2>2, <2>4, Zenon DEF Kept
  <1> QED
    <2>1. \/ d = c
          \/ d = Reset(c)
          \/ c.active /\ \E s \in Arrived(c.inbound), still \in BOOLEAN : d \in Pumps(Filled(c, s, still))
      BY DEF SegmentReceived
    <2> QED
      BY <1>1, <1>2, <1>3, <2>1, Zenon

\* write(), of the bytes read off the socket: to a connection that is over
\* only when there are none, or after a reset.
LEMMA WriteKeeps ==
  ASSUME NEW c, Conn(c), NEW data \in Seq(Nat), Len(data) <= RemainingCapacity(c.outbound),
         Run(data, c.outbound.bytes_written), c.outbound.input_ended => data = <<>>,
         NEW d \in WriteData(c, data)
  PROVE  Kept(c, d, Len(data), FALSE)
  <1> DEFINE e == [c EXCEPT !.outbound = WriteStream(@, data)]
             out == WriteStream(c.outbound, data)
  <1>1. /\ ConnFields(e) /\ e.active = c.active /\ e.opening = c.opening
        /\ e.queued = c.queued /\ e.inbound = c.inbound /\ e.outbound = out
    BY Zenon DEF Conn, ConnFields
  <1>2. Stream(c.outbound)
    BY Zenon DEF Conn
  <1>3. /\ Stream(out) /\ out.queue = c.outbound.queue \o data
        /\ out.bytes_written = c.outbound.bytes_written + Len(data)
        /\ out.input_ended = c.outbound.input_ended
    BY <1>2, WriteIsStream, Zenon
  <1>4. Eof(c.outbound) => c.outbound.queue \o data = <<>>
    <2>1. <<>> \o <<>> = <<>>
      OBVIOUS
    <2> QED
      BY <2>1, Zenon DEF Eof
  <1>5. Eof(c.outbound) => Eof(out)
    BY <1>3, <1>4, Zenon DEF Eof
  <1> HIDE DEF out
  <1>6. Conn(e)
    BY <1>1, <1>3, <1>5, Zenon DEF Conn
  <1>7. Kept(e, d, 0, FALSE)
    BY <1>6, PumpsKeep, Zenon DEF WriteData
  <1> HIDE DEF e
  <1>8. d.outbound.bytes_written = c.outbound.bytes_written + Len(data)
    <2>1. d.outbound.bytes_written = out.bytes_written + 0 /\ out.bytes_written \in Nat
      BY <1>1, <1>3, <1>7, StreamNumbers, Zenon DEF Kept
    <2> QED
      BY <1>3, <2>1
  <1> QED
    BY <1>1, <1>3, <1>7, <1>8, Zenon DEF Kept

LEMMA EndKeeps ==
  ASSUME NEW c, Conn(c), NEW d \in EndInputStream(c)
  PROVE  Kept(c, d, 0, TRUE)
  <1> DEFINE e == [c EXCEPT !.outbound = EndInput(@)]
             out == EndInput(c.outbound)
  <1>1. /\ ConnFields(e) /\ e.active = c.active /\ e.opening = c.opening
        /\ e.queued = c.queued /\ e.inbound = c.inbound /\ e.outbound = out
    BY Zenon DEF Conn, ConnFields
  <1>2. /\ Stream(out) /\ out.queue = c.outbound.queue
        /\ out.bytes_written = c.outbound.bytes_written /\ out.input_ended
    BY EndIsStream, Zenon DEF Conn
  <1> HIDE DEF out
  <1>3. Conn(e)
    BY <1>1, <1>2, Zenon DEF Conn, Eof
  <1>4. Kept(e, d, 0, FALSE)
    BY <1>3, PumpsKeep, Zenon DEF EndInputStream
  <1> QED
    BY <1>1, <1>2, <1>4, Zenon DEF Kept

\* tick()
LEMMA TickKeeps ==
  ASSUME NEW c, Conn(c), NEW d \in Tick(c)
  PROVE  Kept(c, d, 0, FALSE)
  <1> DEFINE e == [c EXCEPT !.queued = TRUE]
  <1>1. /\ ConnFields(e) /\ e.active = c.active /\ e.opening = c.opening
        /\ e.queued = TRUE /\ e.inbound = c.inbound /\ e.outbound = c.outbound
    BY Zenon DEF Conn, ConnFields
  <1>2. Conn(e)
    BY <1>1, Zenon DEF Conn
  <1>3. ASSUME NEW f \in {c, e}
        PROVE  Conn(f) /\ f.inbound = c.inbound /\ f.outbound = c.outbound
    BY <1>1, <1>2, Zenon
  <1>4. \/ d = c
        \/ \E f \in {c, e} : d \in MayEnd(f) \/ d = Reset(f)
    BY Zenon DEF Tick
  <1> HIDE DEF e
  <1>5. c.outbound.bytes_written = c.outbound.bytes_written + 0
    BY StreamNumbers DEF Conn
  <1>6. ASSUME NEW f \in {c, e}, d \in MayEnd(f)
        PROVE  Kept(c, d, 0, FALSE)
    <2>1. Conn(d) /\ d.inbound = c.inbound /\ d.outbound = c.outbound
      BY <1>3, <1>6, MayEndKeeps, Zenon
    <2> QED
      BY <1>5, <2>1, Zenon DEF Kept
  <1>7. ASSUME NEW f \in {c, e}, d = Reset(f)
        PROVE  Kept(c, d, 0, FALSE)
    <2>1. Kept(f, d, 0, FALSE)
      BY <1>3, <1>7, ResetKeeps, Zenon
    <2> QED
      BY <1>3, <2>1, Zenon DEF Kept
  <1> QED
    BY <1>4, <1>6, <1>7, SameKeeps, Zenon

-----------------------------------------------------------------------------
(* The calls of the pair of sockets.                                       *)

LEMMA EndsOfPair ==
  /\ "owner" \in SocketEnds /\ "thread" \in SocketEnds /\ "owner" # "thread"
  /\ OtherEnd("owner") = "thread" /\ OtherEnd("thread") = "owner"
  BY Zenon DEF SocketEnds, OtherEnd

\* The pair p where the bytes on their way to the end e are q.
Holding(p, t, e, q) ==
  /\ Pair(t) /\ t.closed = p.closed
  /\ t.queue[e] = q /\ \A f \in SocketEnds \ {e} : t.queue[f] = p.queue[f]

Replaced(p, e, q) == [p EXCEPT !.queue[e] = q]

LEMMA HoldingPair ==
  ASSUME NEW p, Pair(p), NEW e \in SocketEnds, NEW q \in Seq(Nat), Len(q) <= PipeSize
  PROVE  Holding(p, Replaced(p, e, q), e, q)
  <1> DEFINE t == Replaced(p, e, q)
  <1>1. PairFields(t) /\ t.queue = [p.queue EXCEPT ![e] = q] /\ t.closed = p.closed
    BY Zenon DEF Pair, PairFields, Replaced
  <1>2. p.queue \in [SocketEnds -> Seq(Nat)]
    BY Zenon DEF Pair
  <1> HIDE DEF t
  <1>3. /\ t.queue \in [SocketEnds -> Seq(Nat)] /\ t.queue[e] = q
        /\ \A f \in SocketEnds \ {e} : t.queue[f] = p.queue[f]
    BY <1>1, <1>2, Zenon
  <1>4. ASSUME NEW f \in SocketEnds PROVE Len(t.queue[f]) <= PipeSize
    BY <1>3, Zenon DEF Pair
  <1> QED
    BY <1>1, <1>3, <1>4, Zenon DEF Pair, Holding, t

\* read(): what is taken off the front and what is left.
Reads(p, t, e, data, from) ==
  /\ Holding(p, t, e, t.queue[e]) /\ data \in Seq(Nat)
  /\ Run(data, from) /\ Run(t.queue[e], from + Len(data))
  /\ Len(p.queue[e]) = Len(data) + Len(t.queue[e])
  /\ p.queue[e] = <<>> => t.queue[e] = <<>> /\ data = <<>>

LEMMA ReadPair ==
  ASSUME NEW p, Pair(p), NEW e \in SocketEnds, NEW limit \in Nat,
         NEW from \in Nat, Run(p.queue[e], from)
  PROVE  /\ Reads(p, AfterRead(p, e, limit), e, ReadData(p, e, limit), from)
         /\ Len(ReadData(p, e, limit)) <= limit
         /\ ReadHitsEof(p, e, limit) => p.queue[e] = <<>>
  <1> DEFINE q == p.queue[e]
             n == ReadSize(p, e, limit)
             rest == SubSeq(q, n + 1, Len(q))
             data == SubSeq(q, 1, n)
  <1>1. q \in Seq(Nat) /\ Len(q) \in Nat /\ Len(q) <= PipeSize
    BY LenEmpty DEF Pair
  <1> HIDE DEF q
  <1>2. n \in 0..Len(q) /\ n <= limit /\ (limit > 0 /\ n = 0 => Len(q) = 0)
    BY <1>1 DEF ReadSize, q
  <1> HIDE DEF n
  <1>3. /\ data \in Seq(Nat) /\ Len(data) = n /\ Run(data, from)
        /\ rest \in Seq(Nat) /\ Len(rest) = Len(q) - n /\ Run(rest, from + n)
    BY <1>1, <1>2, RunCut, Zenon DEF q
  <1> HIDE DEF rest, data
  <1>4. Len(rest) <= PipeSize /\ Len(q) = Len(data) + Len(rest)
    BY <1>1, <1>2, <1>3, PipeAssumption
  <1>5. AfterRead(p, e, limit) = Replaced(p, e, rest) /\ ReadData(p, e, limit) = data
    BY Zenon DEF AfterRead, Replaced, ReadData, rest, data, n, q, Pair, PairFields
  <1>6. Holding(p, AfterRead(p, e, limit), e, rest)
    BY <1>3, <1>4, <1>5, HoldingPair, Zenon
  <1>7. q = <<>> => rest = <<>> /\ data = <<>>
    <2>1. ASSUME Len(q) = 0 PROVE Len(rest) = 0 /\ Len(data) = 0
      <3>1. n = 0
        BY <1>2, <2>1
      <3> QED
        BY <1>3, <2>1, <3>1
    <2> QED
      BY <1>1, <1>3, <2>1, LenEmpty, Zenon
  <1>8. ReadHitsEof(p, e, limit) => q = <<>>
    BY <1>1, <1>2, LenEmpty, Zenon DEF ReadHitsEof, n
  <1> QED
    BY <1>2, <1>3, <1>4, <1>5, <1>6, <1>7, <1>8, Zenon DEF Reads, Holding, q

\* write(): n bytes are taken, those that fit.
Writes(p, t, e, data, n, from) ==
  /\ Holding(p, t, e, t.queue[e]) /\ n \in 0..Len(data)
  /\ Run(t.queue[e], from) /\ Len(t.queue[e]) = Len(p.queue[e]) + n
  /\ data = <<>> => t.queue[e] = p.queue[e]

LEMMA WritePair ==
  ASSUME NEW p, Pair(p), NEW e \in SocketEnds, NEW f \in SocketEnds, f = OtherEnd(e),
         NEW data \in Seq(Nat), NEW from \in Nat,
         Run(p.queue[f], from), Run(data, from + Len(p.queue[f]))
  PROVE  Writes(p, AfterWrite(p, e, data), f, data, WriteSize(p, e, data), from)
  <1> DEFINE q == p.queue[f]
             n == WriteSize(p, e, data)
             more == SubSeq(data, 1, n)
  <1>1. q \in Seq(Nat) /\ Len(q) \in Nat /\ Len(q) <= PipeSize /\ Len(data) \in Nat
    BY LenEmpty DEF Pair
  <1> HIDE DEF q
  <1>2. n \in 0..Len(data) /\ Len(q) + n <= PipeSize
    <2>1. n = IF Len(data) <= PipeSize - Len(q) THEN Len(data) ELSE PipeSize - Len(q)
      BY Zenon DEF WriteSize, q
    <2> HIDE DEF n
    <2> QED
      BY <1>1, <2>1, PipeAssumption
  <1> HIDE DEF n
  <1>3. /\ more \in Seq(Nat) /\ Len(more) = n /\ Run(more, from + Len(q))
    <2>1. from + Len(q) \in Nat
      BY <1>1
    <2> QED
      BY <1>1, <1>2, <2>1, RunCut, Zenon DEF q
  <1> HIDE DEF more
  <1>4. q \o more \in Seq(Nat) /\ Len(q \o more) = Len(q) + n /\ Run(q \o more, from)
    BY <1>1, <1>3, RunJoin, Zenon DEF q
  <1>5. AfterWrite(p, e, data) = Replaced(p, f, q \o more)
    BY Zenon DEF AfterWrite, Replaced, more, n, q, Pair, PairFields
  <1>6. Holding(p, AfterWrite(p, e, data), f, q \o more)
    <2>1. Len(q \o more) <= PipeSize
      BY <1>2, <1>4, Zenon
    <2> QED
      BY <1>4, <1>5, <2>1, HoldingPair, Zenon
  <1>7. data = <<>> => q \o more = q
    <2>1. data = <<>> => n = 0
      BY <1>2, LenEmpty
    <2>2. n = 0 => more = <<>>
      BY <1>3, LenEmpty
    <2>3. q \o <<>> = q
      BY <1>1
    <2> QED
      BY <2>1, <2>2, <2>3, Zenon
  <1> QED
    BY <1>2, <1>4, <1>6, <1>7, Zenon DEF Writes, Holding, q, n

\* shutdown(SHUT_WR) and shutdown(SHUT_RDWR)
LEMMA ShutPair ==
  ASSUME NEW p, Pair(p)
  PROVE  /\ Pair(ShutBoth(p)) /\ ShutBoth(p).queue = p.queue
         /\ ShutBoth(p).closed["owner"] /\ ShutBoth(p).closed["thread"]
  <1> DEFINE t == ShutBoth(p)
  <1>1. PairFields(t) /\ t.queue = p.queue /\ t.closed = [e \in SocketEnds |-> TRUE]
    BY Zenon DEF ShutBoth, Pair, PairFields
  <1> HIDE DEF t
  <1> QED
    BY <1>1, EndsOfPair, Zenon DEF Pair, t

LEMMA ShutWritePair ==
  ASSUME NEW p, Pair(p), NEW e \in SocketEnds, NEW f \in SocketEnds, f = OtherEnd(e)
  PROVE  /\ Pair(ShutWrite(p, e)) /\ ShutWrite(p, e).queue = p.queue
         /\ ShutWrite(p, e).closed[f] /\ ShutWrite(p, e).closed[e] = p.closed[e]
  <1> DEFINE t == ShutWrite(p, e)
  <1>1. PairFields(t) /\ t.queue = p.queue /\ t.closed = [p.closed EXCEPT ![f] = TRUE]
    BY Zenon DEF ShutWrite, Pair, PairFields
  <1>2. p.closed \in [SocketEnds -> BOOLEAN]
    BY Zenon DEF Pair
  <1>3. e # f
    BY Zenon DEF SocketEnds, OtherEnd
  <1> HIDE DEF t
  <1>4. t.closed \in [SocketEnds -> BOOLEAN] /\ t.closed[f] /\ t.closed[e] = p.closed[e]
    BY <1>1, <1>2, <1>3, Zenon
  <1> QED
    BY <1>1, <1>4, Zenon DEF Pair, t

-----------------------------------------------------------------------------
(* A turn of an event loop.                                                *)

PassFields(pass) ==
  pass \in [state : {pass.state}, rules : {pass.rules}, polled : {pass.polled}]

\* What visiting the rule r changes.
Visiting(pass, t, r, over, cancelled, interested) ==
  /\ PassFields(t)
  /\ t.state = IF r \in pass.rules /\ over THEN cancelled ELSE pass.state
  /\ t.rules = IF r \in pass.rules /\ over THEN pass.rules \ {r} ELSE pass.rules
  /\ t.polled = IF r \in pass.rules /\ ~over /\ interested THEN pass.polled \cup {r}
                ELSE pass.polled

LEMMA VisitedFields ==
  ASSUME NEW pass, PassFields(pass), NEW r, NEW over \in BOOLEAN, NEW cancelled,
         NEW interested \in BOOLEAN
  PROVE  Visiting(pass, Visited(pass, r, over, cancelled, interested),
                  r, over, cancelled, interested)
  <1> DEFINE t == Visited(pass, r, over, cancelled, interested)
  <1>1. CASE r \notin pass.rules
    <2>1. t = pass
      BY <1>1, Zenon DEF Visited
    <2> QED
      BY <1>1, <2>1, Zenon DEF Visiting
  <1>2. CASE r \in pass.rules /\ over
    <2>1. t = [pass EXCEPT !.state = cancelled, !.rules = @ \ {r}]
      BY <1>2, Zenon DEF Visited
    <2>2. PassFields(t) /\ t.state = cancelled /\ t.rules = pass.rules \ {r} /\ t.polled = pass.polled
      BY <2>1, Zenon DEF PassFields
    <2> HIDE DEF t
    <2> QED
      BY <1>2, <2>2, Zenon DEF Visiting, t
  <1>3. CASE r \in pass.rules /\ ~over
    <2>1. t = [pass EXCEPT !.polled = IF interested THEN @ \cup {r} ELSE @]
      BY <1>3, Zenon DEF Visited
    <2>2. /\ PassFields(t) /\ t.state = pass.state /\ t.rules = pass.rules
          /\ t.polled = IF interested THEN pass.polled \cup {r} ELSE pass.polled
      BY <2>1, Zenon DEF PassFields
    <2> HIDE DEF t
    <2> QED
      BY <1>3, <2>2, Zenon DEF Visiting, t
  <1> QED
    BY <1>1, <1>2, <1>3, Zenon

LEMMA NewPassFields ==
  ASSUME NEW l, NEW state
  PROVE  LET pass == NewPass(l, state)
         IN  /\ PassFields(pass) /\ pass.state = state
             /\ pass.rules = l.rules /\ pass.polled = {}
  BY Zenon DEF NewPass, PassFields

\* The loop after a step.
LoopIs(t, place, rules, todo, dead) ==
  LoopFields(t) /\ t.at = place /\ t.rules = rules /\ t.todo = todo /\ t.dead = dead

At(l, place) == [l EXCEPT !.at = place]
AtWith(l, place, rules) == [l EXCEPT !.at = place, !.rules = rules]

LEMMA ServedFields ==
  ASSUME NEW l, LoopFields(l), NEW r
  PROVE  LoopIs(Served(l, r), l.at, l.rules, l.todo \ {r}, l.dead)
  BY Zenon DEF LoopFields, LoopIs, Served

LEMMA DroppedFields ==
  ASSUME NEW l, LoopFields(l), NEW r
  PROVE  LoopIs(Dropped(l, r), l.at, l.rules \ {r}, l.todo \ {r}, l.dead)
  BY Zenon DEF LoopFields, LoopIs, Dropped

LEMMA PolledFields ==
  ASSUME NEW l, LoopFields(l), NEW pass, NEW ready, NEW hungUp
  PROVE  LoopIs(Polled(l, pass, ready, hungUp), "serve", pass.rules,
                Todo(pass, ready, hungUp), Dead(pass, ready, hungUp))
  BY Zenon DEF LoopFields, LoopIs, Polled

LEMMA AtFields ==
  ASSUME NEW l, LoopFields(l), NEW place
  PROVE  LoopIs(At(l, place), place, l.rules, l.todo, l.dead)
  BY Zenon DEF LoopFields, LoopIs, At

LEMMA AtWithFields ==
  ASSUME NEW l, LoopFields(l), NEW place, NEW rules
  PROVE  LoopIs(AtWith(l, place, rules), place, rules, l.todo, l.dead)
  BY Zenon DEF LoopFields, LoopIs, AtWith

-----------------------------------------------------------------------------
(* The first pass of the thread of the socket.                             *)

\* What only the thread knows goes from s to t; n bytes were read from the
\* owner.
Onward(s, t, n) ==
  /\ Sock(t)
  /\ t.conn.inbound.bytes_read = s.conn.inbound.bytes_read
  /\ s.conn.inbound.error => t.conn.inbound.error
  /\ Eof(s.conn.inbound) => Eof(t.conn.inbound)
  /\ t.conn.outbound.bytes_written = s.conn.outbound.bytes_written + n

LEMMA SameOnward ==
  ASSUME NEW s, Sock(s)
  PROVE  Onward(s, s, 0)
  <1>1. s.conn.outbound.bytes_written = s.conn.outbound.bytes_written + 0
    BY StreamNumbers DEF Sock, Conn
  <1> QED
    BY <1>1, Zenon DEF Onward

\* The cancelled rule 2, of a socket that has seen the end of file.
LEMMA CancelOnward ==
  ASSUME NEW s, Sock(s), s.eof
  PROVE  LET t == Cancel(2, s)
         IN  /\ Onward(s, t, 0) /\ t.eof = s.eof /\ t.conn.active = s.conn.active
             /\ t.conn.queued = s.conn.queued
  <1> DEFINE t == Cancel(2, s)
             c == [s.conn EXCEPT !.outbound = EndInput(@)]
             out == EndInput(s.conn.outbound)
  <1>1. SockFields(t) /\ t.conn = c /\ t.outbound_shutdown = TRUE
        /\ t.inbound_shutdown = s.inbound_shutdown /\ t.eof = s.eof
    BY Zenon DEF Cancel, Sock, SockFields
  <1>2. /\ ConnFields(c) /\ c.active = s.conn.active /\ c.opening = s.conn.opening
        /\ c.queued = s.conn.queued /\ c.inbound = s.conn.inbound /\ c.outbound = out
    BY Zenon DEF Sock, Conn, ConnFields
  <1>3. Stream(s.conn.outbound)
    BY Zenon DEF Sock, Conn
  <1>4. /\ Stream(out) /\ out.queue = s.conn.outbound.queue
        /\ out.bytes_written = s.conn.outbound.bytes_written /\ out.input_ended
    BY <1>3, EndIsStream, Zenon
  <1>5. s.conn.outbound.bytes_written = s.conn.outbound.bytes_written + 0
    BY <1>3, StreamNumbers
  <1> HIDE DEF t, c, out
  <1>6. Conn(c)
    BY <1>2, <1>4, Zenon DEF Sock, Conn, Eof
  <1>7. Sock(t)
    BY <1>1, <1>6, Zenon DEF Sock
  <1> QED
    BY <1>1, <1>2, <1>4, <1>5, <1>7, Zenon DEF Onward, t

\* The first pass keeps the rules for datagrams and segments, and polls them
\* when the connection is active and when it has something to send.
LEMMA SetUpKeeps ==
  ASSUME Sock(sock), Loop(loop), {1, 4} \subseteq loop.rules
  PROVE  LET t == SetUp.state
         IN  /\ Onward(sock, t, 0) /\ t.eof = sock.eof
             /\ t.conn.active = sock.conn.active /\ t.conn.queued = sock.conn.queued
             /\ SetUp.rules \in SUBSET (1..4) /\ {1, 4} \subseteq SetUp.rules
             /\ SetUp.polled \in SUBSET (1..4)
             /\ sock.conn.active => 1 \in SetUp.polled
             /\ sock.conn.queued => 4 \in SetUp.polled
  <1> DEFINE p0 == NewPass(loop, sock)
             p1 == Visit(p0, 1)
             p2 == Visit(p1, 2)
             p3 == Visit(p2, 3)
             p4 == Visit(p3, 4)
             stopped == 2 \in loop.rules /\ sock.eof
  <1>1. PassFields(p0) /\ p0.state = sock /\ p0.rules = loop.rules /\ p0.polled = {}
    BY NewPassFields, Zenon
  <1>2. ASSUME NEW s
        PROVE  /\ ~Over(1, s) /\ (Over(2, s) <=> s.eof) /\ ~Over(3, s) /\ ~Over(4, s)
               /\ Interest(1, s) <=> s.conn.active
               /\ Interest(4, s) <=> s.conn.queued
    BY DEF Over, Interest
  <1>3. ASSUME NEW pass, PassFields(pass), NEW r
        PROVE  Visiting(pass, Visit(pass, r), r, Over(r, pass.state), Cancel(r, pass.state),
                        Interest(r, pass.state))
    <2>1. Over(r, pass.state) \in BOOLEAN /\ Interest(r, pass.state) \in BOOLEAN
      BY Zenon DEF Over, Interest
    <2> QED
      BY <1>3, <2>1, VisitedFields, Zenon DEF Visit
  <1>4. loop.rules \in SUBSET (1..4) /\ 1 \in loop.rules /\ 4 \in loop.rules
    BY Zenon DEF Loop
  <1> HIDE DEF p0
  <1>5. /\ PassFields(p1) /\ p1.state = sock /\ p1.rules = loop.rules
        /\ p1.polled = IF sock.conn.active THEN {1} ELSE {}
    <2>1. Visiting(p0, p1, 1, Over(1, p0.state), Cancel(1, p0.state), Interest(1, p0.state))
      BY <1>1, <1>3, Zenon
    <2> HIDE DEF p1
    <2> QED
      BY <1>1, <1>2, <1>4, <2>1, Zenon DEF Visiting
  <1> HIDE DEF p1
  <1>6. /\ PassFields(p2) /\ p2.state = IF stopped THEN Cancel(2, sock) ELSE sock
        /\ p2.rules = IF stopped THEN loop.rules \ {2} ELSE loop.rules
        /\ p2.polled = p1.polled \/ p2.polled = p1.polled \cup {2}
    <2>1. Visiting(p1, p2, 2, Over(2, p1.state), Cancel(2, p1.state), Interest(2, p1.state))
      BY <1>3, <1>5, Zenon
    <2> HIDE DEF p2
    <2> QED
      BY <1>2, <1>5, <2>1, Zenon DEF Visiting
  <1> HIDE DEF p2
  <1>7. /\ PassFields(p3) /\ p3.state = p2.state /\ p3.rules = p2.rules
        /\ p3.polled = p2.polled \/ p3.polled = p2.polled \cup {3}
    <2>1. Visiting(p2, p3, 3, Over(3, p2.state), Cancel(3, p2.state), Interest(3, p2.state))
      BY <1>3, <1>6, Zenon
    <2> HIDE DEF p3
    <2> QED
      BY <1>2, <2>1, Zenon DEF Visiting
  <1> HIDE DEF p3
  <1>8. 4 \in p3.rules /\ p3.rules \in SUBSET (1..4) /\ 1 \in p3.rules
    BY <1>4, <1>6, <1>7
  <1>9. /\ p4.state = p3.state /\ p4.rules = p3.rules
        /\ p4.polled = IF p3.state.conn.queued THEN p3.polled \cup {4} ELSE p3.polled
    <2>1. Visiting(p3, p4, 4, Over(4, p3.state), Cancel(4, p3.state), Interest(4, p3.state))
      BY <1>3, <1>7, Zenon
    <2> HIDE DEF p4
    <2> QED
      BY <1>2, <1>8, <2>1, Zenon DEF Visiting
  <1>10. SetUp = p4
    BY Zenon DEF SetUp, p0, p1, p2, p3
  <1> HIDE DEF p4
  <1>11. /\ Onward(sock, p2.state, 0) /\ p2.state.eof = sock.eof
         /\ p2.state.conn.active = sock.conn.active /\ p2.state.conn.queued = sock.conn.queued
    <2>1. CASE stopped
      <3>1. sock.eof = TRUE /\ p2.state = Cancel(2, sock)
        BY <1>6, <2>1, Zenon DEF Sock
      <3> QED
        BY <3>1, CancelOnward, Zenon
    <2>2. CASE ~stopped
      BY <1>6, <2>2, SameOnward, Zenon
    <2> QED
      BY <2>1, <2>2, Zenon
  <1>12. p4.polled \in SUBSET (1..4)
    BY <1>5, <1>6, <1>7, <1>9
  <1> QED
    BY <1>5, <1>6, <1>7, <1>8, <1>9, <1>10, <1>11, <1>12, ZenonT(30)

-----------------------------------------------------------------------------
(* The steps of the thread.                                                *)

LEMMA OnwardFlow ==
  ASSUME NEW c, NEW l, NEW in, NEW out, NEW p, NEW s, NEW t, NEW who,
         Flow(c, l, in, out, p, s, who), Sock(s), Onward(s, t, 0), t.eof = s.eof
  PROVE  Flow(c, l, in, out, p, t, who)
  <1>1. t.conn.outbound.bytes_written = s.conn.outbound.bytes_written
    BY StreamNumbers DEF Onward, Sock, Conn
  <1>2. Inbound(c, p, t, out) /\ Outbound(c, p, t, in)
    BY <1>1, Zenon DEF Flow, Inbound, Outbound, Onward
  <1>3. InboundEnds(c, p, t)
    BY Zenon DEF Flow, InboundEnds, Onward
  <1>4. OutboundEnds(c, p, t, in, who)
    BY Zenon DEF Flow, OutboundEnds, Onward
  <1>5. OwnerLoop(l, c, p, t, in)
    BY Zenon DEF Flow, OwnerLoop, Onward
  <1> QED
    BY <1>2, <1>3, <1>4, <1>5, Zenon DEF Flow

\* A step of the thread that leaves the pair of sockets alone.
Quiet ==
  /\ Onward(sock, sock', 0) /\ sock'.eof = sock.eof
  /\ ThreadLoop(loop', pair) /\ ThreadLeaves(loop', sock', abort)
  /\ UNCHANGED <<pair, abort, owner, died, copy, copyLoop, input, output>>

LEMMA QuietInv ==
  ASSUME Inv, Quiet
  PROVE  Inv'
  <1>1. Flow(copy, copyLoop, input, output, pair, sock', owner)
    BY OnwardFlow, Zenon DEF Inv, Quiet
  <1>2. died => sock'.conn.inbound.error
    BY Zenon DEF Inv, Quiet, Onward
  <1>3. /\ pair' = pair /\ abort' = abort /\ owner' = owner /\ died' = died
        /\ copy' = copy /\ copyLoop' = copyLoop /\ input' = input /\ output' = output
    BY Zenon DEF Quiet
  <1>4. /\ Sock(sock') /\ ThreadLoop(loop', pair) /\ ThreadLeaves(loop', sock', abort)
    BY Zenon DEF Quiet, Onward
  <1>5. /\ Pair(pair') /\ Copy(copy') /\ abort' \in BOOLEAN /\ died' \in BOOLEAN
        /\ owner' \in {"open", "copy", "join", "end"}
        /\ Flow(copy', copyLoop', input', output', pair', sock', owner')
        /\ ThreadLoop(loop', pair') /\ ThreadLeaves(loop', sock', abort')
        /\ died' => sock'.conn.inbound.error
    BY <1>1, <1>2, <1>3, <1>4, Zenon DEF Inv
  <1> QED
    BY <1>4, <1>5, Zenon DEF Inv

\* What poll() finds: a pair that has hung up is readable.
LEMMA PollThread ==
  ASSUME NEW datagram \in BOOLEAN
  PROVE  /\ HungUp \subseteq {2, 3}
         /\ 2 \in HungUp => Readable(pair, "thread")
         /\ 3 \in HungUp => Readable(pair, "owner")
         /\ 2 \in Ready(datagram) <=> Readable(pair, "thread")
  <1>1. BothClosed(pair) => Readable(pair, "thread") /\ Readable(pair, "owner")
    BY EndsOfPair, Zenon DEF BothClosed, Readable
  <1>2. HungUp \subseteq {2, 3} /\ (2 \in HungUp => BothClosed(pair)) /\ (3 \in HungUp => BothClosed(pair))
    BY DEF HungUp
  <1>3. 2 \in Ready(datagram) <=> Readable(pair, "thread")
    BY DEF Ready
  <1> QED
    BY <1>1, <1>2, <1>3, Zenon

LEMMA WaitInv ==
  ASSUME Inv, NEW datagram \in BOOLEAN, Wait(datagram), UNCHANGED copyVars
  PROVE  Inv'
  <1> DEFINE ready == Ready(datagram)
  <1>1. Sock(sock) /\ Loop(loop) /\ {1, 4} \subseteq loop.rules /\ LoopFields(loop)
    BY Zenon DEF Inv, ThreadLoop, Loop
  <1>2. /\ Onward(sock, sock', 0) /\ sock'.eof = sock.eof
        /\ sock'.conn.active = sock.conn.active /\ sock'.conn.queued = sock.conn.queued
        /\ SetUp.rules \in SUBSET (1..4) /\ {1, 4} \subseteq SetUp.rules
        /\ SetUp.polled \in SUBSET (1..4)
        /\ sock.conn.active => 1 \in SetUp.polled
        /\ sock.conn.queued => 4 \in SetUp.polled
    BY <1>1, SetUpKeeps, Zenon DEF Wait
  <1>3. /\ HungUp \subseteq {2, 3}
        /\ 2 \in HungUp => Readable(pair, "thread")
        /\ 2 \in ready <=> Readable(pair, "thread")
    BY PollThread, Zenon
  <1> HIDE DEF ready
  <1>4. ThreadLoop(loop', pair) /\ ThreadLeaves(loop', sock', abort)
    <2>1. CASE SetUp.polled = {}
      <3>1. LoopIs(loop', "exit", SetUp.rules, loop.todo, loop.dead)
        BY <1>1, <2>1, AtWithFields, Zenon DEF Wait, AtWith
      <3>2. Loop(loop')
        BY <1>1, <1>2, <3>1, Zenon DEF Loop, LoopIs
      <3>3. ThreadLoop(loop', pair)
        BY <1>2, <3>1, <3>2, Zenon DEF ThreadLoop, LoopIs, Inv
      <3>4. loop'.at # "done" /\ ~sock'.conn.active /\ ~sock'.conn.queued
        BY <1>2, <2>1, <3>1, Zenon DEF LoopIs
      <3> QED
        BY <3>3, <3>4, Zenon DEF ThreadLeaves
    <2>2. CASE SetUp.polled # {}
      <3>1. LoopIs(loop', "serve", SetUp.rules, Todo(SetUp, ready, HungUp), Dead(SetUp, ready, HungUp))
        BY <1>1, <2>2, PolledFields, Zenon DEF Wait, ready
      <3>2. /\ Todo(SetUp, ready, HungUp) \in SUBSET (1..4)
            /\ Dead(SetUp, ready, HungUp) \in SUBSET (1..4)
            /\ Dead(SetUp, ready, HungUp) \subseteq {3}
            /\ 2 \in Todo(SetUp, ready, HungUp) => Readable(pair, "thread")
        <4>1. Todo(SetUp, ready, HungUp) \subseteq SetUp.polled
          BY Zenon DEF Todo
        <4>2. Dead(SetUp, ready, HungUp) \subseteq HungUp \ ready
          BY Zenon DEF Dead
        <4>3. HungUp \ ready \subseteq {3}
          BY <1>3, Zenon
        <4>4. Dead(SetUp, ready, HungUp) \in SUBSET (1..4)
          BY <4>2, <4>3
        <4>5. 2 \in Todo(SetUp, ready, HungUp) => Readable(pair, "thread")
          BY <1>3, Zenon DEF Todo
        <4> QED
          BY <1>2, <4>1, <4>2, <4>3, <4>4, <4>5, Zenon
      <3>3. Loop(loop')
        BY <1>2, <3>1, <3>2, Zenon DEF Loop, LoopIs
      <3>4. ThreadLoop(loop', pair)
        BY <1>2, <3>1, <3>2, <3>3, Zenon DEF ThreadLoop, LoopIs
      <3> QED
        BY <3>1, <3>4, Zenon DEF ThreadLeaves, LoopIs
    <2> QED
      BY <2>1, <2>2, Zenon
  <1>5. Quiet
    BY <1>2, <1>4, Zenon DEF Quiet, Wait, copyVars
  <1> QED
    BY <1>5, QuietInv, Zenon

\* After a callback or a dropped rule the loop is where it was.
LEMMA ServedLoop ==
  ASSUME NEW l, NEW p, NEW s, NEW told, ThreadLoop(l, p), NEW r \in 1..4, IsNext(l, r)
  PROVE  ThreadLoop(Served(l, r), p) /\ ThreadLeaves(Served(l, r), s, told)
  <1> DEFINE t == Served(l, r)
  <1>1. Loop(l) /\ LoopFields(l) /\ l.at = "serve"
    BY Zenon DEF ThreadLoop, Loop, IsNext
  <1>2. LoopIs(t, "serve", l.rules, l.todo \ {r}, l.dead)
    BY <1>1, ServedFields, Zenon
  <1> HIDE DEF t
  <1>3. Loop(t)
    BY <1>1, <1>2, Zenon DEF Loop, LoopIs
  <1> QED
    BY <1>2, <1>3, Zenon DEF ThreadLoop, ThreadLeaves, LoopIs, t

\* Another connection in the same socket.
LEMMA WithConn ==
  ASSUME NEW s, Sock(s), NEW c, Kept(s.conn, c, 0, FALSE)
  PROVE  LET t == [s EXCEPT !.conn = c]
         IN  Onward(s, t, 0) /\ t.eof = s.eof /\ t.conn = c
  <1> DEFINE t == [s EXCEPT !.conn = c]
  <1>1. /\ SockFields(t) /\ t.conn = c /\ t.outbound_shutdown = s.outbound_shutdown
        /\ t.inbound_shutdown = s.inbound_shutdown /\ t.eof = s.eof
    BY Zenon DEF Sock, SockFields
  <1> HIDE DEF t
  <1>2. Sock(t)
    BY <1>1, Zenon DEF Sock, Kept
  <1> QED
    BY <1>1, <1>2, Zenon DEF Onward, Kept, t

LEMMA DatagramInv ==
  ASSUME Inv, ServeDatagram, UNCHANGED copyVars
  PROVE  Inv'
  <1>1. PICK c \in SegmentReceived(sock.conn) : sock' = [sock EXCEPT !.conn = c]
    BY Zenon DEF ServeDatagram
  <1>2. Sock(sock) /\ Conn(sock.conn)
    BY Zenon DEF Inv, Sock
  <1>3. Kept(sock.conn, c, 0, FALSE)
    BY <1>2, SegmentKeeps, Zenon
  <1>4. Onward(sock, sock', 0) /\ sock'.eof = sock.eof
    BY <1>1, <1>2, <1>3, WithConn, Zenon
  <1>5. 1 \in 1..4
    OBVIOUS
  <1>6. ThreadLoop(loop', pair) /\ ThreadLeaves(loop', sock', abort)
    BY <1>5, ServedLoop, Zenon DEF Inv, ServeDatagram, Serves
  <1>7. Quiet
    BY <1>4, <1>6, Zenon DEF Quiet, ServeDatagram, copyVars
  <1> QED
    BY <1>7, QuietInv, Zenon

LEMMA SegmentsInv ==
  ASSUME Inv, ServeSegments, UNCHANGED copyVars
  PROVE  Inv'
  <1> DEFINE c == [sock.conn EXCEPT !.queued = FALSE]
  <1>1. Sock(sock) /\ Conn(sock.conn)
    BY Zenon DEF Inv, Sock
  <1>2. sock' = [sock EXCEPT !.conn = c]
    BY <1>1, Zenon DEF ServeSegments, Sock, SockFields
  <1>3. /\ ConnFields(c) /\ c.active = sock.conn.active /\ c.opening = sock.conn.opening
        /\ c.queued = FALSE /\ c.inbound = sock.conn.inbound /\ c.outbound = sock.conn.outbound
    BY <1>1, Zenon DEF Conn, ConnFields
  <1>4. Kept(sock.conn, c, 0, FALSE)
    <2>1. Kept(sock.conn, sock.conn, 0, FALSE)
      BY <1>1, SameKeeps, Zenon
    <2> HIDE DEF c
    <2>2. Conn(c)
      BY <1>1, <1>3, Zenon DEF Conn
    <2> QED
      BY <1>3, <2>1, <2>2, Zenon DEF Kept
  <1> HIDE DEF c
  <1>5. Onward(sock, sock', 0) /\ sock'.eof = sock.eof
    BY <1>1, <1>2, <1>4, WithConn, Zenon
  <1>6. 4 \in 1..4
    OBVIOUS
  <1>7. ThreadLoop(loop', pair) /\ ThreadLeaves(loop', sock', abort)
    BY <1>6, ServedLoop, Zenon DEF Inv, ServeSegments, Serves
  <1>8. Quiet
    BY <1>5, <1>7, Zenon DEF Quiet, ServeSegments, copyVars
  <1> QED
    BY <1>8, QuietInv, Zenon

\* Only rule 3 is ever dropped, which changes nothing but the rules.
LEMMA DropInv ==
  ASSUME Inv, NEW r \in {2, 3}, DropRule(r), UNCHANGED copyVars
  PROVE  Inv'
  <1>1. Sock(sock) /\ Loop(loop) /\ LoopFields(loop) /\ loop.at = "serve" /\ r \in loop.dead
    BY Zenon DEF Inv, ThreadLoop, Loop, DropRule, Drops, IsNext
  <1>2. r = 3
    BY <1>1, Zenon DEF Inv, ThreadLoop
  <1>3. sock' = sock
    BY <1>2 DEF DropRule, Cancel
  <1>4. LoopIs(loop', "serve", loop.rules \ {3}, loop.todo \ {3}, loop.dead)
    BY <1>1, <1>2, DroppedFields, Zenon DEF DropRule
  <1>5. {1, 4} \subseteq loop.rules \ {3}
    BY DEF Inv, ThreadLoop
  <1>6. Loop(loop')
    BY <1>1, <1>4, Zenon DEF Loop, LoopIs
  <1>7. ThreadLoop(loop', pair)
    BY <1>4, <1>5, <1>6, Zenon DEF Inv, ThreadLoop, LoopIs
  <1>8. ThreadLeaves(loop', sock', abort)
    BY <1>4, Zenon DEF ThreadLeaves, LoopIs
  <1>9. Quiet
    BY <1>1, <1>3, <1>7, <1>8, SameOnward, Zenon DEF Quiet, DropRule, copyVars
  <1> QED
    BY <1>9, QuietInv, Zenon

\* The loop at another place, with the same rules.
LEMMA AtLoop ==
  ASSUME NEW l, NEW p, ThreadLoop(l, p), NEW place \in {"wait", "serve", "exit", "done"}
  PROVE  ThreadLoop(At(l, place), p) /\ At(l, place).at = place
  <1> DEFINE t == At(l, place)
  <1>1. LoopIs(t, place, l.rules, l.todo, l.dead)
    BY AtFields, Zenon DEF ThreadLoop, Loop
  <1> HIDE DEF t
  <1>2. Loop(t)
    BY <1>1, Zenon DEF ThreadLoop, Loop, LoopIs
  <1> QED
    BY <1>1, <1>2, Zenon DEF ThreadLoop, LoopIs, t

LEMMA TurnInv ==
  ASSUME Inv, Turn, UNCHANGED copyVars
  PROVE  Inv'
  <1>1. Sock(sock) /\ Conn(sock.conn) /\ ThreadLoop(loop, pair)
    BY Zenon DEF Inv, Sock
  <1>2. CASE Leaves
    <2>1. loop' = At(loop, "exit") /\ sock' = sock /\ abort
      BY <1>2, Zenon DEF Turn, Leaves, At
    <2>2. ThreadLoop(loop', pair) /\ loop'.at = "exit"
      BY <1>1, <2>1, AtLoop, Zenon
    <2>3. ThreadLeaves(loop', sock', abort)
      BY <2>1, <2>2, Zenon DEF ThreadLeaves
    <2>4. Quiet
      BY <1>1, <2>1, <2>2, <2>3, SameOnward, Zenon DEF Quiet, Turn, copyVars
    <2> QED
      BY <2>4, QuietInv, Zenon
  <1>3. CASE ~Leaves
    <2>1. PICK c \in Tick(sock.conn) : sock' = [sock EXCEPT !.conn = c]
      BY <1>3, Zenon DEF Turn
    <2>2. Onward(sock, sock', 0) /\ sock'.eof = sock.eof
      BY <1>1, <2>1, TickKeeps, WithConn, Zenon
    <2>3. loop' = At(loop, "wait")
      BY <1>3, Zenon DEF Turn, At
    <2>4. ThreadLoop(loop', pair) /\ loop'.at = "wait"
      BY <1>1, <2>3, AtLoop, Zenon
    <2>5. ThreadLeaves(loop', sock', abort)
      BY <2>4, Zenon DEF ThreadLeaves
    <2>6. Quiet
      BY <2>2, <2>4, <2>5, Zenon DEF Quiet, Turn, copyVars
    <2> QED
      BY <2>6, QuietInv, Zenon
  <1> QED
    BY <1>2, <1>3, Zenon

LEMMA StartInv ==
  ASSUME Inv, StartThread, UNCHANGED copyVars
  PROVE  Inv'
  <1>1. /\ owner = "open" /\ owner' = "copy" /\ loop' = At(loop, "wait")
        /\ sock' = sock /\ pair' = pair /\ abort' = abort /\ died' = died
        /\ copy' = copy /\ copyLoop' = copyLoop /\ input' = input /\ output' = output
    BY Zenon DEF StartThread, At, copyVars
  <1>2. ThreadLoop(loop', pair) /\ loop'.at = "wait"
    BY <1>1, AtLoop, Zenon DEF Inv
  <1>3. ThreadLeaves(loop', sock, abort)
    BY <1>2, Zenon DEF ThreadLeaves
  <1>4. OutboundEnds(copy, pair, sock, input, "copy")
    BY <1>1, Zenon DEF Inv, Flow, OutboundEnds
  <1>5. Flow(copy, copyLoop, input, output, pair, sock, "copy")
    BY <1>4, Zenon DEF Inv, Flow
  <1>6. /\ Sock(sock') /\ Pair(pair') /\ Copy(copy') /\ abort' \in BOOLEAN /\ died' \in BOOLEAN
        /\ owner' \in {"open", "copy", "join", "end"}
        /\ Flow(copy', copyLoop', input', output', pair', sock', owner')
        /\ ThreadLoop(loop', pair') /\ ThreadLeaves(loop', sock', abort')
        /\ died' => sock'.conn.inbound.error
    BY <1>1, <1>2, <1>3, <1>5, Zenon DEF Inv
  <1> QED
    BY <1>6, Zenon DEF Inv

\* The pair is shut by the thread at its end, or by the owner.
LEMMA ShutFlow ==
  ASSUME NEW c, NEW l, NEW in, NEW out, NEW p, NEW s, NEW who, NEW new, Pair(p),
         Flow(c, l, in, out, p, s, who),
         s.conn.inbound.error \/ Eof(s.conn.inbound),
         s.conn.inbound.error \/ new \in {"join", "end"} \/ (Eof(c.outbound) /\ c.outbound_shutdown)
  PROVE  Flow(c, l, in, out, ShutBoth(p), s, new)
  <1> DEFINE t == ShutBoth(p)
  <1>1. t.queue = p.queue /\ t.closed["owner"] /\ t.closed["thread"]
    BY ShutPair, Zenon
  <1> HIDE DEF t
  <1>2. Inbound(c, t, s, out) /\ Outbound(c, t, s, in)
    BY <1>1, Zenon DEF Flow, Inbound, Outbound
  <1>3. InboundEnds(c, t, s)
    BY <1>1, Zenon DEF Flow, InboundEnds
  <1>4. OutboundEnds(c, t, s, in, new)
    BY <1>1, Zenon DEF Flow, OutboundEnds
  <1>5. OwnerLoop(l, c, t, s, in)
    BY <1>1, Zenon DEF Flow, OwnerLoop, Readable
  <1> QED
    BY <1>2, <1>3, <1>4, <1>5, Zenon DEF Flow, t

LEMMA ThreadEndsInv ==
  ASSUME Inv, ThreadEnds, UNCHANGED copyVars
  PROVE  Inv'
  <1>1. /\ loop.at = "exit" /\ loop' = At(loop, "done") /\ pair' = ShutBoth(pair)
        /\ abort' = abort /\ owner' = owner /\ died' = died
        /\ copy' = copy /\ copyLoop' = copyLoop /\ input' = input /\ output' = output
    BY Zenon DEF ThreadEnds, At, copyVars
  <1>2. Sock(sock) /\ Conn(sock.conn) /\ Pair(pair) /\ ThreadLoop(loop, pair)
    BY Zenon DEF Inv, Sock
  <1>3. Onward(sock, sock', 0) /\ sock'.eof = sock.eof /\ ~sock'.conn.active
    <2>1. CASE sock.conn.active
      <3> DEFINE e == [sock.conn EXCEPT !.queued = TRUE]
      <3>1. /\ ConnFields(e) /\ e.active = sock.conn.active /\ e.opening = sock.conn.opening
            /\ e.queued = TRUE /\ e.inbound = sock.conn.inbound /\ e.outbound = sock.conn.outbound
        BY <1>2, Zenon DEF Conn, ConnFields
      <3>2. sock' = [sock EXCEPT !.conn = Reset(e)]
        BY <1>2, <2>1, Zenon DEF ThreadEnds, Sock, SockFields
      <3> HIDE DEF e
      <3>3. Conn(e)
        BY <1>2, <3>1, Zenon DEF Conn
      <3>4. Kept(e, Reset(e), 0, FALSE) /\ ~Reset(e).active
        BY <3>3, ResetKeeps, Zenon
      <3>5. Kept(sock.conn, Reset(e), 0, FALSE)
        BY <3>1, <3>4, Zenon DEF Kept
      <3> QED
        BY <1>2, <3>2, <3>4, <3>5, WithConn, Zenon
    <2>2. CASE ~sock.conn.active
      <3>1. sock' = sock
        BY <2>2, Zenon DEF ThreadEnds
      <3> QED
        BY <1>2, <2>2, <3>1, SameOnward, Zenon
    <2> QED
      BY <2>1, <2>2, Zenon
  <1>4. Flow(copy, copyLoop, input, output, pair, sock', owner)
    BY <1>2, <1>3, OnwardFlow, Zenon DEF Inv
  <1>5. sock'.conn.inbound.error \/ (Eof(sock'.conn.inbound) /\ sock'.eof)
    BY <1>3, Zenon DEF Onward, Sock, Conn, Eof
  <1>6. \/ sock'.conn.inbound.error \/ owner \in {"join", "end"}
        \/ Eof(copy.outbound) /\ copy.outbound_shutdown
    BY <1>4, <1>5, Zenon DEF Flow, OutboundEnds
  <1>7. Flow(copy, copyLoop, input, output, ShutBoth(pair), sock', owner)
    BY <1>2, <1>4, <1>5, <1>6, ShutFlow, Zenon
  <1>8. ThreadLoop(loop', pair) /\ loop'.at = "done"
    BY <1>1, <1>2, AtLoop, Zenon
  <1>9. Pair(pair') /\ ThreadLoop(loop', pair')
    BY <1>1, <1>2, <1>8, ShutPair, Zenon DEF ThreadLoop, Readable
  <1>10. ~abort => ~sock'.conn.queued
    BY <1>1, Zenon DEF Inv, ThreadLeaves, ThreadEnds
  <1>11. ThreadLeaves(loop', sock', abort')
    BY <1>1, <1>3, <1>8, <1>10, Zenon DEF ThreadLeaves
  <1>12. died' => sock'.conn.inbound.error
    BY <1>1, <1>3, Zenon DEF Inv, Onward
  <1>13. /\ Sock(sock') /\ Copy(copy') /\ abort' \in BOOLEAN /\ died' \in BOOLEAN
         /\ owner' \in {"open", "copy", "join", "end"}
         /\ Flow(copy', copyLoop', input', output', pair', sock', owner')
    BY <1>1, <1>3, <1>7, Zenon DEF Inv, Onward
  <1> QED
    BY <1>9, <1>11, <1>12, <1>13, Zenon DEF Inv

\* The thread has read bytes of the owner.
LEMMA OutboundFlow ==
  ASSUME NEW c, NEW l, NEW in, NEW out, NEW p, NEW t, NEW s, NEW r, NEW who, NEW data,
         Flow(c, l, in, out, p, s, who), Sock(s), Pair(p),
         Reads(p, t, "thread", data, s.conn.outbound.bytes_written), Onward(s, r, Len(data)),
         r.eof => t.closed["thread"] /\ t.queue["thread"] = <<>>
  PROVE  Flow(c, l, in, out, t, r, who)
  <1>1. t.closed = p.closed /\ t.queue["owner"] = p.queue["owner"]
    BY EndsOfPair, Zenon DEF Reads, Holding
  <1>2. Inbound(c, t, r, out)
    BY <1>1, Zenon DEF Flow, Inbound, Onward
  <1>3. Outbound(c, t, r, in)
    <2>1. /\ r.conn.outbound.bytes_written = s.conn.outbound.bytes_written + Len(data)
          /\ Run(t.queue["thread"], s.conn.outbound.bytes_written + Len(data))
          /\ Len(p.queue["thread"]) = Len(data) + Len(t.queue["thread"])
          /\ c.outbound.bytes_read = s.conn.outbound.bytes_written + Len(p.queue["thread"])
          /\ data \in Seq(Nat) /\ t.queue["thread"] \in Seq(Nat)
      BY EndsOfPair, Zenon DEF Onward, Reads, Flow, Outbound, Holding, Pair
    <2>2. s.conn.outbound.bytes_written \in Nat
      BY StreamNumbers, Zenon DEF Sock, Conn
    <2>3. c.outbound.bytes_read = r.conn.outbound.bytes_written + Len(t.queue["thread"])
      BY <2>1, <2>2
    <2> QED
      BY <2>1, <2>3, Zenon DEF Flow, Outbound
  <1>4. InboundEnds(c, t, r)
    BY <1>1, Zenon DEF Flow, InboundEnds, Onward
  <1>5. OutboundEnds(c, t, r, in, who)
    BY <1>1, Zenon DEF Flow, OutboundEnds, Onward
  <1>6. OwnerLoop(l, c, t, r, in)
    BY <1>1, Zenon DEF Flow, OwnerLoop, Onward, Readable
  <1> QED
    BY <1>2, <1>3, <1>4, <1>5, <1>6, Zenon DEF Flow

LEMMA ServeOutboundInv ==
  ASSUME Inv, ServeOutbound, UNCHANGED copyVars
  PROVE  Inv'
  <1> DEFINE from == sock.conn.outbound.bytes_written
             limit == RemainingCapacity(sock.conn.outbound)
             eof == sock.eof \/ ReadHitsEof(pair, "thread", limit)
             data == ReadData(pair, "thread", limit)
  <1>1. /\ Serves(loop, 2) /\ loop' = Served(loop, 2) /\ pair' = AfterRead(pair, "thread", limit)
        /\ abort' = abort /\ owner' = owner /\ died' = died
        /\ copy' = copy /\ copyLoop' = copyLoop /\ input' = input /\ output' = output
    BY Zenon DEF ServeOutbound, copyVars
  <1>2. PICK c \in WriteData(sock.conn, data) :
          \E d \in IF eof THEN EndInputStream(c) ELSE {c} :
            sock' = [sock EXCEPT !.conn = d, !.eof = eof, !.outbound_shutdown = @ \/ eof]
    BY Zenon DEF ServeOutbound
  <1>3. PICK d \in IF eof THEN EndInputStream(c) ELSE {c} :
          sock' = [sock EXCEPT !.conn = d, !.eof = eof, !.outbound_shutdown = @ \/ eof]
    BY <1>2, Zenon
  <1>4. /\ Sock(sock) /\ Conn(sock.conn) /\ Pair(pair) /\ Stream(sock.conn.outbound)
        /\ Flow(copy, copyLoop, input, output, pair, sock, owner)
    BY Zenon DEF Inv, Sock, Conn
  <1>5. from \in Nat /\ limit \in Nat
    BY <1>4, StreamNumbers DEF RemainingCapacity, BufferSize
  <1>6. Run(pair.queue["thread"], from)
    BY <1>4, Zenon DEF Flow, Outbound
  <1>7. /\ Reads(pair, pair', "thread", data, from) /\ Len(data) <= limit
        /\ ReadHitsEof(pair, "thread", limit) => pair.queue["thread"] = <<>>
    BY <1>1, <1>4, <1>5, <1>6, EndsOfPair, ReadPair, Zenon
  <1>8. eof \in BOOLEAN /\ (sock.eof => eof)
    BY <1>4, Zenon DEF Sock, ReadHitsEof
  <1>9. /\ SockFields(sock') /\ sock'.conn = d /\ sock'.eof = eof
        /\ sock'.outbound_shutdown = (sock.outbound_shutdown \/ eof)
        /\ sock'.inbound_shutdown = sock.inbound_shutdown
    BY <1>3, <1>4, Zenon DEF Sock, SockFields
  <1>10. sock.eof => pair.closed["thread"] /\ pair.queue["thread"] = <<>>
    BY <1>4, Zenon DEF Flow, OutboundEnds
  <1>11. Readable(pair, "thread")
    BY <1>1, Zenon DEF Inv, ThreadLoop, Serves, IsNext
  <1>12. eof => pair'.closed["thread"] /\ pair'.queue["thread"] = <<>>
    BY <1>7, <1>10, <1>11, Zenon DEF Readable, Reads, Holding
  <1>13. Kept(sock.conn, c, Len(data), FALSE)
    <2>1. sock.conn.outbound.input_ended => data = <<>>
      BY <1>4, <1>7, <1>10, Zenon DEF Sock, Reads
    <2>2. data \in Seq(Nat) /\ Run(data, from)
      BY <1>7, Zenon DEF Reads
    <2> HIDE DEF data
    <2> QED
      BY <1>2, <1>4, <1>7, <2>1, <2>2, WriteKeeps, Zenon
  <1> HIDE DEF eof, data
  <1>14. Kept(sock.conn, d, Len(data), eof)
    <2>1. CASE eof
      <3>1. Kept(c, d, 0, TRUE)
        BY <1>3, <1>13, <2>1, EndKeeps, Zenon DEF Kept
      <3>2. d.outbound.bytes_written = c.outbound.bytes_written
        BY <1>13, <3>1, StreamNumbers DEF Kept, Conn
      <3> QED
        BY <1>13, <2>1, <3>1, <3>2, Zenon DEF Kept
    <2>2. CASE ~eof
      BY <1>3, <1>13, <2>2, Zenon DEF Kept
    <2> QED
      BY <2>1, <2>2, Zenon
  <1>15. Sock(sock')
    BY <1>4, <1>8, <1>9, <1>14, Zenon DEF Sock, Kept
  <1>16. Onward(sock, sock', Len(data))
    BY <1>9, <1>14, <1>15, Zenon DEF Onward, Kept
  <1>17. Flow(copy, copyLoop, input, output, pair', sock', owner)
    BY <1>4, <1>7, <1>9, <1>12, <1>16, OutboundFlow, Zenon
  <1>18. ThreadLoop(loop', pair') /\ ThreadLeaves(loop', sock', abort)
    <2>1. ThreadLoop(loop', pair) /\ ThreadLeaves(loop', sock', abort)
      <3>1. 2 \in 1..4
        OBVIOUS
      <3> QED
        BY <1>1, <3>1, ServedLoop, Zenon DEF Inv, Serves
    <2>2. 2 \notin loop'.todo
      BY <1>1, ServedFields, ZenonT(30) DEF Inv, ThreadLoop, Loop, LoopIs
    <2> QED
      BY <2>1, <2>2, Zenon DEF ThreadLoop
  <1>19. died' => sock'.conn.inbound.error
    BY <1>1, <1>16, Zenon DEF Inv, Onward
  <1>20. /\ Pair(pair') /\ Copy(copy') /\ abort' \in BOOLEAN /\ died' \in BOOLEAN
         /\ owner' \in {"open", "copy", "join", "end"}
         /\ Flow(copy', copyLoop', input', output', pair', sock', owner')
         /\ ThreadLeaves(loop', sock', abort')
    BY <1>1, <1>7, <1>17, <1>18, Zenon DEF Inv, Reads, Holding
  <1> QED
    BY <1>15, <1>18, <1>19, <1>20, Zenon DEF Inv

\* The thread has written bytes of the peer, and pops them.
LEMMA InboundFlow ==
  ASSUME NEW c, NEW l, NEW in, NEW out, NEW p, NEW t, NEW s, NEW r, NEW who, NEW n,
         Flow(c, l, in, out, p, s, who), Sock(s), Pair(p), Copy(c),
         Writes(p, t, "owner", s.conn.inbound.queue, n, c.inbound.bytes_written),
         p.closed["owner"] => s.conn.inbound.queue = <<>>,
         r.conn.inbound.bytes_read = s.conn.inbound.bytes_read + n,
         s.conn.inbound.error => r.conn.inbound.error,
         Eof(s.conn.inbound) => Eof(r.conn.inbound),
         r.conn.outbound = s.conn.outbound, r.eof = s.eof
  PROVE  Flow(c, l, in, out, t, r, who)
  <1>1. t.closed = p.closed /\ t.queue["thread"] = p.queue["thread"]
    BY EndsOfPair, Zenon DEF Writes, Holding
  <1>2. Outbound(c, t, r, in)
    BY <1>1, Zenon DEF Flow, Outbound
  <1>3. /\ Run(t.queue["owner"], c.inbound.bytes_written)
        /\ Len(t.queue["owner"]) = Len(p.queue["owner"]) + n /\ n \in 0..Len(s.conn.inbound.queue)
        /\ s.conn.inbound.bytes_read = c.inbound.bytes_written + Len(p.queue["owner"])
        /\ s.conn.inbound.queue \in Seq(Nat) /\ c.inbound.bytes_written \in Nat
        /\ p.queue["owner"] \in Seq(Nat) /\ t.queue["owner"] \in Seq(Nat)
    BY EndsOfPair, StreamNumbers, Zenon DEF Writes, Holding, Flow, Inbound, Sock, Conn, Copy, Pair
  <1>4. r.conn.inbound.bytes_read = c.inbound.bytes_written + Len(t.queue["owner"])
    <2>1. Len(p.queue["owner"]) \in Nat /\ n \in Nat
      BY <1>3, LenEmpty
    <2> QED
      BY <1>3, <2>1
  <1>5. Inbound(c, t, r, out)
    BY <1>3, <1>4, Zenon DEF Flow, Inbound
  <1>6. p.closed["owner"] => t.queue["owner"] = p.queue["owner"]
    BY Zenon DEF Writes
  <1>7. InboundEnds(c, t, r)
    BY <1>1, <1>6, Zenon DEF Flow, InboundEnds
  <1>8. OutboundEnds(c, t, r, in, who)
    BY <1>1, Zenon DEF Flow, OutboundEnds
  <1>9. Readable(p, "owner") => Readable(t, "owner")
    <2>1. p.queue["owner"] # <<>> => t.queue["owner"] # <<>>
      BY <1>3, LenEmpty, SMTT(30), SMTT(90)
    <2> QED
      BY <1>1, <2>1, Zenon DEF Readable
  <1>10. OwnerLoop(l, c, t, r, in)
    BY <1>9, Zenon DEF Flow, OwnerLoop
  <1> QED
    BY <1>2, <1>5, <1>7, <1>8, <1>10, Zenon DEF Flow

\* A direction that is shut at the end of its stream.
LEMMA ShutInboundFlow ==
  ASSUME NEW c, NEW l, NEW in, NEW out, NEW p, NEW s, NEW who, Pair(p),
         Flow(c, l, in, out, p, s, who), s.conn.inbound.error \/ Eof(s.conn.inbound)
  PROVE  Flow(c, l, in, out, ShutWrite(p, "thread"), s, who)
  <1> DEFINE t == ShutWrite(p, "thread")
  <1>1. t.queue = p.queue /\ t.closed["owner"] /\ t.closed["thread"] = p.closed["thread"]
    BY EndsOfPair, ShutWritePair, Zenon
  <1> HIDE DEF t
  <1>2. Inbound(c, t, s, out) /\ Outbound(c, t, s, in)
    BY <1>1, Zenon DEF Flow, Inbound, Outbound
  <1>3. InboundEnds(c, t, s)
    BY <1>1, Zenon DEF Flow, InboundEnds
  <1>4. OutboundEnds(c, t, s, in, who)
    BY <1>1, Zenon DEF Flow, OutboundEnds
  <1>5. OwnerLoop(l, c, t, s, in)
    BY <1>1, Zenon DEF Flow, OwnerLoop, Readable
  <1> QED
    BY <1>2, <1>3, <1>4, <1>5, Zenon DEF Flow, t

LEMMA ServeInboundInv ==
  ASSUME Inv, ServeInbound, UNCHANGED copyVars
  PROVE  Inv'
  <1> DEFINE queue == sock.conn.inbound.queue
             n == WriteSize(pair, "thread", queue)
             left == PopStream(sock.conn.inbound, n)
             over == InboundOver(left)
             written == AfterWrite(pair, "thread", queue)
             from == copy.inbound.bytes_written
  <1>1. /\ Serves(loop, 3) /\ loop' = Served(loop, 3) /\ died' = WriteBreaks(pair, "thread", queue)
        /\ abort' = abort /\ owner' = owner
        /\ copy' = copy /\ copyLoop' = copyLoop /\ input' = input /\ output' = output
    BY Zenon DEF ServeInbound, copyVars
  <1>2. /\ Sock(sock) /\ Conn(sock.conn) /\ Pair(pair) /\ Stream(sock.conn.inbound) /\ Copy(copy)
        /\ Flow(copy, copyLoop, input, output, pair, sock, owner) /\ ThreadLoop(loop, pair)
    BY Zenon DEF Inv, Sock, Conn
  <1>3. 3 \in 1..4 /\ 3 # 2
    OBVIOUS
  <1>4. ThreadLoop(loop', pair) /\ \A s : ThreadLeaves(loop', s, abort)
    BY <1>1, <1>2, <1>3, ServedLoop, Zenon DEF Serves
  <1>5. pair.closed["owner"] => sock.conn.inbound.error \/ Eof(sock.conn.inbound)
    BY <1>2, Zenon DEF Flow, InboundEnds
  <1>6. CASE WriteBreaks(pair, "thread", queue)
    <2>1. died' = TRUE /\ sock' = sock /\ pair' = pair
      BY <1>1, <1>6, Zenon DEF ServeInbound, WriteBreaks
    <2>2. sock.conn.inbound.error
      BY <1>5, <1>6, EndsOfPair, Zenon DEF WriteBreaks, Eof
    <2>3. /\ Sock(sock') /\ Pair(pair') /\ Copy(copy') /\ abort' \in BOOLEAN /\ died' \in BOOLEAN
          /\ owner' \in {"open", "copy", "join", "end"}
          /\ Flow(copy', copyLoop', input', output', pair', sock', owner')
          /\ ThreadLoop(loop', pair') /\ ThreadLeaves(loop', sock', abort')
          /\ died' => sock'.conn.inbound.error
      BY <1>1, <1>2, <1>4, <2>1, <2>2, Zenon DEF Inv
    <2> QED
      BY <2>3, Zenon DEF Inv
  <1>7. CASE ~WriteBreaks(pair, "thread", queue)
    <2>1. /\ died' = FALSE
          /\ sock' = [sock EXCEPT !.conn.inbound = left, !.inbound_shutdown = @ \/ over]
          /\ pair' = IF over THEN ShutWrite(written, "thread") ELSE written
      BY <1>1, <1>7, Zenon DEF ServeInbound, PopWritten, WriteBreaks
    <2>2. from \in Nat /\ Run(pair.queue["owner"], from) /\ queue \in Seq(Nat)
          /\ Run(queue, from + Len(pair.queue["owner"]))
      BY <1>2, StreamNumbers, Zenon DEF Copy, Flow, Inbound
    <2>3. Writes(pair, written, "owner", queue, n, from)
      <3> HIDE DEF queue, from
      <3> QED
        BY <1>2, <2>2, EndsOfPair, WritePair, Zenon
    <2>4. n \in 0..Len(sock.conn.inbound.queue)
      BY <2>3, Zenon DEF Writes
    <2>5. /\ Stream(left) /\ left.bytes_written = sock.conn.inbound.bytes_written
          /\ left.bytes_read = sock.conn.inbound.bytes_read + n
          /\ left.input_ended = sock.conn.inbound.input_ended /\ left.error = sock.conn.inbound.error
      BY <1>2, <2>4, PopIsStream, Zenon
    <2>6. Eof(sock.conn.inbound) => Eof(left)
      BY <1>2, <2>4, EofPop, Zenon
    <2>7. over = (Eof(left) \/ left.error) /\ over \in BOOLEAN
      BY Zenon DEF InboundOver, Eof, Stream
    <2> DEFINE c == [sock.conn EXCEPT !.inbound = left]
    <2>8. /\ SockFields(sock') /\ sock'.conn = c /\ sock'.eof = sock.eof
          /\ sock'.outbound_shutdown = sock.outbound_shutdown
          /\ sock'.inbound_shutdown = (sock.inbound_shutdown \/ over)
      BY <1>2, <2>1, Zenon DEF Sock, SockFields
    <2>9. /\ ConnFields(c) /\ c.active = sock.conn.active /\ c.opening = sock.conn.opening
          /\ c.queued = sock.conn.queued /\ c.inbound = left /\ c.outbound = sock.conn.outbound
      BY <1>2, Zenon DEF Conn, ConnFields
    <2> HIDE DEF c, left, over, written, n
    <2>10. Conn(c)
      BY <1>2, <2>5, <2>6, <2>9, Zenon DEF Conn
    <2>11. Sock(sock')
      BY <1>2, <2>7, <2>8, <2>9, <2>10, Zenon DEF Sock
    <2>12. pair.closed["owner"] => queue = <<>>
      BY <1>7, EndsOfPair, Zenon DEF WriteBreaks
    <2>13. Flow(copy, copyLoop, input, output, written, sock', owner)
      BY <1>2, <2>3, <2>5, <2>6, <2>8, <2>9, <2>12, InboundFlow, Zenon
    <2>14. Pair(written)
      BY <2>3, Zenon DEF Writes, Holding
    <2>15. /\ Flow(copy, copyLoop, input, output, pair', sock', owner) /\ Pair(pair')
           /\ pair'.queue["thread"] = written.queue["thread"]
           /\ pair'.closed["thread"] = written.closed["thread"]
      <3>1. CASE over
        <4>1. pair' = ShutWrite(written, "thread")
          BY <2>1, <3>1, Zenon
        <4>2. sock'.conn.inbound.error \/ Eof(sock'.conn.inbound)
          BY <2>7, <2>8, <2>9, <3>1, Zenon
        <4>3. Flow(copy, copyLoop, input, output, ShutWrite(written, "thread"), sock', owner)
          BY <2>13, <2>14, <4>2, ShutInboundFlow, Zenon
        <4> QED
          BY <2>14, <4>1, <4>3, EndsOfPair, ShutWritePair, Zenon
      <3>2. CASE ~over
        BY <2>1, <2>13, <2>14, <3>2, Zenon
      <3> QED
        BY <3>1, <3>2, Zenon
    <2>16. pair'.queue["thread"] = pair.queue["thread"] /\ pair'.closed["thread"] = pair.closed["thread"]
      BY <2>3, <2>15, EndsOfPair, Zenon DEF Writes, Holding
    <2>17. ThreadLoop(loop', pair')
      BY <1>4, <2>16, Zenon DEF ThreadLoop, Readable
    <2>18. /\ Copy(copy') /\ abort' \in BOOLEAN /\ died' \in BOOLEAN
           /\ owner' \in {"open", "copy", "join", "end"}
           /\ Flow(copy', copyLoop', input', output', pair', sock', owner')
           /\ ThreadLeaves(loop', sock', abort')
           /\ died' => sock'.conn.inbound.error
      BY <1>1, <1>2, <1>4, <2>1, <2>15, Zenon DEF Inv
    <2> QED
      BY <2>11, <2>15, <2>17, <2>18, Zenon DEF Inv
  <1> QED
    BY <1>6, <1>7, Zenon

-----------------------------------------------------------------------------
(* The first pass of the copy loop.                                        *)

\* The two streams hold what they held; an ended one is still ended.
SameCopy(c, t) ==
  /\ Copy(t)
  /\ t.outbound.queue = c.outbound.queue /\ t.inbound.queue = c.inbound.queue
  /\ t.outbound.bytes_read = c.outbound.bytes_read
  /\ t.outbound.bytes_written = c.outbound.bytes_written
  /\ t.inbound.bytes_read = c.inbound.bytes_read
  /\ t.inbound.bytes_written = c.inbound.bytes_written
  /\ t.outbound.capacity = c.outbound.capacity /\ t.inbound.capacity = c.inbound.capacity
  /\ t.outbound_shutdown = c.outbound_shutdown
  /\ t.input_eof = c.input_eof /\ t.socket_eof = c.socket_eof /\ t.output_closed = c.output_closed

\* A cancelled rule ends the stream it fills.
LEMMA CancelOutbound ==
  ASSUME NEW c, Copy(c), NEW r \in {1, 2}
  PROVE  SameCopy(c, CopyCancel(r, c)) /\ CopyCancel(r, c).outbound.input_ended
  <1> DEFINE t == CopyCancel(r, c)
             out == EndInput(c.outbound)
  <1>1. /\ CopyFields(t) /\ t.outbound = out /\ t.inbound = c.inbound
        /\ t.outbound_shutdown = c.outbound_shutdown /\ t.inbound_shutdown = c.inbound_shutdown
        /\ t.input_eof = c.input_eof /\ t.socket_eof = c.socket_eof
        /\ t.output_closed = c.output_closed
    BY Zenon DEF CopyCancel, Copy, CopyFields
  <1>2. /\ Stream(out) /\ out.queue = c.outbound.queue /\ out.bytes_read = c.outbound.bytes_read
        /\ out.bytes_written = c.outbound.bytes_written /\ out.capacity = c.outbound.capacity
        /\ out.input_ended /\ out.error = c.outbound.error
    BY EndIsStream, Zenon DEF Copy
  <1> HIDE DEF t, out
  <1>3. Copy(t)
    BY <1>1, <1>2, Zenon DEF Copy
  <1> QED
    BY <1>1, <1>2, <1>3, Zenon DEF SameCopy, t

LEMMA CancelInbound ==
  ASSUME NEW c, Copy(c), NEW r \in {3, 4}, c.socket_eof
  PROVE  SameCopy(c, CopyCancel(r, c)) /\ CopyCancel(r, c).outbound = c.outbound
  <1> DEFINE t == CopyCancel(r, c)
             in == EndInput(c.inbound)
  <1>1. r \notin {1, 2}
    OBVIOUS
  <1>2. /\ CopyFields(t) /\ t.outbound = c.outbound /\ t.inbound = in
        /\ t.outbound_shutdown = c.outbound_shutdown /\ t.inbound_shutdown = c.inbound_shutdown
        /\ t.input_eof = c.input_eof /\ t.socket_eof = c.socket_eof
        /\ t.output_closed = c.output_closed
    BY <1>1, Zenon DEF CopyCancel, Copy, CopyFields
  <1>3. /\ Stream(in) /\ in.queue = c.inbound.queue /\ in.bytes_read = c.inbound.bytes_read
        /\ in.bytes_written = c.inbound.bytes_written /\ in.capacity = c.inbound.capacity
        /\ in.input_ended /\ in.error = c.inbound.error
    BY EndIsStream, Zenon DEF Copy
  <1> HIDE DEF t, in
  <1>4. Copy(t)
    BY <1>2, <1>3, Zenon DEF Copy
  <1> QED
    BY <1>2, <1>3, <1>4, Zenon DEF SameCopy, t

\* What the first pass cancels has already ended.  A rule that writes to the
\* socket is polled only with something to write or an end to announce; when
\* nothing is polled, the end of the socket has been read.
LEMMA CopySetUpKeeps ==
  ASSUME Copy(copy), Loop(copyLoop),
         3 \notin copyLoop.rules => copy.socket_eof, 4 \notin copyLoop.rules => copy.socket_eof
  PROVE  LET t == CopySetUp.state
         IN  /\ SameCopy(copy, t) /\ t.outbound.input_ended = copy.outbound.input_ended
             /\ CopySetUp.rules \in SUBSET (1..4) /\ CopySetUp.polled \in SUBSET (1..4)
             /\ 3 \notin CopySetUp.rules => copy.socket_eof
             /\ 4 \notin CopySetUp.rules => copy.socket_eof
             /\ 2 \in CopySetUp.polled => ~(Eof(copy.outbound) /\ copy.outbound_shutdown)
             /\ CopySetUp.polled = {} => copy.socket_eof
  <1> DEFINE p0 == NewPass(copyLoop, copy)
             p1 == CopyVisit(p0, 1)
             p2 == CopyVisit(p1, 2)
             p3 == CopyVisit(p2, 3)
             p4 == CopyVisit(p3, 4)
             Same(t) == SameCopy(copy, t) /\ t.outbound.input_ended = copy.outbound.input_ended
  <1>1. PassFields(p0) /\ p0.state = copy /\ p0.rules = copyLoop.rules /\ p0.polled = {}
    BY NewPassFields, Zenon
  <1>2. ASSUME NEW s
        PROVE  /\ (CopyOver(1, s) <=> s.input_eof) /\ ~CopyOver(2, s)
               /\ (CopyOver(3, s) <=> s.socket_eof) /\ (CopyOver(4, s) <=> s.output_closed)
    BY DEF CopyOver
  <1>3. ASSUME NEW s
        PROVE  /\ CopyInterest(2, s) <=>
                    s.outbound.queue # <<>> \/ (Eof(s.outbound) /\ ~s.outbound_shutdown)
               /\ CopyInterest(3, s) <=>
                    ~s.inbound.error /\ RemainingCapacity(s.inbound) > 0 /\ ~s.outbound.error
               /\ s.inbound.queue # <<>> => CopyInterest(4, s)
    BY DEF CopyInterest
  <1>4. ASSUME NEW pass, PassFields(pass), NEW r
        PROVE  Visiting(pass, CopyVisit(pass, r), r, CopyOver(r, pass.state),
                        CopyCancel(r, pass.state), CopyInterest(r, pass.state))
    <2>1. CopyOver(r, pass.state) \in BOOLEAN /\ CopyInterest(r, pass.state) \in BOOLEAN
      BY Zenon DEF CopyOver, CopyInterest
    <2> QED
      BY <1>4, <2>1, VisitedFields, Zenon DEF CopyVisit
  <1>5. Same(copy)
    BY Zenon DEF SameCopy
  <1>6. ASSUME NEW s, NEW t, Same(s), SameCopy(s, t), t.outbound.input_ended = s.outbound.input_ended
        PROVE  Same(t)
    BY <1>6, Zenon DEF SameCopy
  <1>7. copyLoop.rules \in SUBSET (1..4)
    BY Zenon DEF Loop
  <1> HIDE DEF p0
  <1>8. /\ PassFields(p1) /\ Same(p1.state)
        /\ p1.rules = copyLoop.rules \/ p1.rules = copyLoop.rules \ {1}
        /\ p1.polled = {} \/ p1.polled = {1}
    <2>1. Visiting(p0, p1, 1, CopyOver(1, p0.state), CopyCancel(1, p0.state), CopyInterest(1, p0.state))
      BY <1>1, <1>4, Zenon
    <2>2. copy.input_eof => Same(CopyCancel(1, copy))
      <3>1. SameCopy(copy, CopyCancel(1, copy)) /\ CopyCancel(1, copy).outbound.input_ended
        BY CancelOutbound, Zenon
      <3>2. copy.input_eof => copy.outbound.input_ended
        BY Zenon DEF Copy
      <3>3. copy.outbound.input_ended \in BOOLEAN /\ CopyCancel(1, copy).outbound.input_ended \in BOOLEAN
        BY <3>1, Zenon DEF Copy, SameCopy, Stream
      <3> QED
        BY <3>1, <3>2, <3>3, Zenon
    <2> HIDE DEF p1, Same
    <2> QED
      BY <1>1, <1>2, <1>5, <2>1, <2>2, Zenon DEF Visiting
  <1> HIDE DEF p1
  <1>9. /\ PassFields(p2) /\ p2.state = p1.state /\ p2.rules = p1.rules
        /\ p2.polled = p1.polled \/ p2.polled = p1.polled \cup {2}
        /\ p2.polled = p1.polled \/ CopyInterest(2, p1.state)
    <2>1. Visiting(p1, p2, 2, CopyOver(2, p1.state), CopyCancel(2, p1.state), CopyInterest(2, p1.state))
      BY <1>4, <1>8, Zenon
    <2> HIDE DEF p2
    <2> QED
      BY <1>2, <2>1, Zenon DEF Visiting
  <1> HIDE DEF p2
  <1>10. /\ PassFields(p3) /\ Same(p3.state)
         /\ p3.rules = p2.rules \/ (p3.rules = p2.rules \ {3} /\ copy.socket_eof)
         /\ p3.polled = p2.polled \/ p3.polled = p2.polled \cup {3}
         /\ 3 \in p2.rules /\ ~copy.socket_eof /\ CopyInterest(3, p2.state) => 3 \in p3.polled
         /\ ~copy.socket_eof => p3.state = p2.state
    <2>1. Visiting(p2, p3, 3, CopyOver(3, p2.state), CopyCancel(3, p2.state), CopyInterest(3, p2.state))
      BY <1>4, <1>9, Zenon
    <2>2. p2.state.socket_eof = copy.socket_eof /\ Same(p2.state)
      BY <1>8, <1>9, Zenon DEF SameCopy
    <2>3. ASSUME p2.state.socket_eof PROVE Same(CopyCancel(3, p2.state))
      <3>1. Copy(p2.state)
        BY <2>2, Zenon DEF SameCopy
      <3>2. /\ SameCopy(p2.state, CopyCancel(3, p2.state))
            /\ CopyCancel(3, p2.state).outbound = p2.state.outbound
        BY <2>3, <3>1, CancelInbound, Zenon
      <3> HIDE DEF Same
      <3> QED
        BY <1>6, <2>2, <3>2, Zenon
    <2> HIDE DEF p3, Same
    <2>4. CASE 3 \in p2.rules /\ copy.socket_eof
      <3>1. 3 \in p2.rules /\ CopyOver(3, p2.state)
        BY <1>2, <2>2, <2>4, Zenon
      <3>2. /\ PassFields(p3) /\ p3.state = CopyCancel(3, p2.state) /\ p3.rules = p2.rules \ {3}
            /\ p3.polled = p2.polled
        BY <2>1, <3>1, Zenon DEF Visiting
      <3> QED
        BY <2>2, <2>3, <2>4, <3>2, Zenon
    <2>5. CASE ~(3 \in p2.rules /\ copy.socket_eof)
      <3>1. ~(3 \in p2.rules /\ CopyOver(3, p2.state))
        BY <1>2, <2>2, <2>5, Zenon
      <3>2. /\ PassFields(p3) /\ p3.state = p2.state /\ p3.rules = p2.rules
            /\ p3.polled = IF 3 \in p2.rules /\ CopyInterest(3, p2.state) THEN p2.polled \cup {3}
                           ELSE p2.polled
        BY <2>1, <3>1, Zenon DEF Visiting
      <3> QED
        BY <2>2, <3>2, Zenon
    <2> QED
      BY <2>4, <2>5, Zenon
  <1> HIDE DEF p3
  <1>11. /\ Same(p4.state)
         /\ p4.rules = p3.rules \/ (p4.rules = p3.rules \ {4} /\ copy.socket_eof)
         /\ p4.polled = p3.polled \/ p4.polled = p3.polled \cup {4}
         /\ 4 \in p3.rules /\ ~copy.socket_eof /\ CopyInterest(4, p3.state) => 4 \in p4.polled
    <2>1. Visiting(p3, p4, 4, CopyOver(4, p3.state), CopyCancel(4, p3.state), CopyInterest(4, p3.state))
      BY <1>4, <1>10, Zenon
    <2>2. p3.state.output_closed => p3.state.socket_eof /\ copy.socket_eof
      BY <1>10, Zenon DEF SameCopy, Copy
    <2>3. ASSUME p3.state.output_closed PROVE Same(CopyCancel(4, p3.state))
      <3>1. Copy(p3.state) /\ Same(p3.state)
        BY <1>10, Zenon DEF SameCopy
      <3>2. /\ SameCopy(p3.state, CopyCancel(4, p3.state))
            /\ CopyCancel(4, p3.state).outbound = p3.state.outbound
        BY <2>2, <2>3, <3>1, CancelInbound, Zenon
      <3> HIDE DEF Same
      <3> QED
        BY <1>6, <3>1, <3>2, Zenon
    <2>4. Same(p3.state)
      BY <1>10, Zenon
    <2> HIDE DEF p4, Same
    <2> QED
      BY <1>2, <2>1, <2>2, <2>3, <2>4, Zenon DEF Visiting
  <1>12. CopySetUp = p4
    BY Zenon DEF CopySetUp, p0, p1, p2, p3
  <1> HIDE DEF p4
  <1>13. p4.rules \in SUBSET (1..4) /\ p4.polled \in SUBSET (1..4)
    BY <1>7, <1>8, <1>9, <1>10, <1>11, SMTT(30), SMTT(90)
  <1>14. (3 \notin p4.rules => copy.socket_eof) /\ (4 \notin p4.rules => copy.socket_eof)
    BY <1>8, <1>9, <1>10, <1>11
  <1>15. ASSUME 2 \in p4.polled
         PROVE  ~(Eof(copy.outbound) /\ copy.outbound_shutdown)
    <2>1. 2 \in p2.polled /\ 2 \notin p1.polled
      BY <1>8, <1>10, <1>11, <1>15
    <2>2. CopyInterest(2, p1.state)
      BY <1>9, <2>1, Zenon
    <2>3. p1.state.outbound.queue # <<>> \/ ~p1.state.outbound_shutdown
      BY <1>3, <2>2, Zenon
    <2> QED
      BY <1>8, <2>3, Zenon DEF SameCopy, Eof
  <1>16. ASSUME ~copy.socket_eof
         PROVE  p4.polled # {}
    <2>1. 3 \in p2.rules /\ 4 \in p3.rules
      BY <1>8, <1>9, <1>10, <1>16
    <2>2. p3.state = p2.state /\ Same(p2.state) /\ Copy(p2.state)
      BY <1>8, <1>9, <1>10, <1>16, Zenon DEF SameCopy
    <2>3. CASE RemainingCapacity(p2.state.inbound) > 0
      <3>1. CopyInterest(3, p2.state)
        BY <1>3, <2>2, <2>3, Zenon DEF Copy
      <3>2. 3 \in p3.polled
        BY <1>10, <1>16, <2>1, <3>1, Zenon
      <3> QED
        BY <1>11, <3>2, Zenon
    <2>4. CASE ~(RemainingCapacity(p2.state.inbound) > 0)
      <3>1. p2.state.inbound.queue # <<>>
        BY <2>2, <2>4, StreamNumbers, LenEmpty DEF Copy, RemainingCapacity, BufferSize
      <3>2. CopyInterest(4, p3.state)
        BY <1>3, <2>2, <3>1, Zenon
      <3>3. 4 \in p4.polled
        BY <1>11, <1>16, <2>1, <3>2, Zenon
      <3> QED
        BY <3>3, Zenon
    <2> QED
      BY <2>3, <2>4, Zenon
  <1> QED
    BY <1>11, <1>12, <1>13, <1>14, <1>15, <1>16, Zenon

-----------------------------------------------------------------------------
(* The steps of the copy loop.                                             *)

\* A step of the owner that leaves the pair of sockets alone.
LEMMA OwnerInv ==
  ASSUME Inv, Copy(copy'), Flow(copy', copyLoop', input', output', pair, sock, owner),
         UNCHANGED threadVars
  PROVE  Inv'
  <1>1. /\ sock' = sock /\ loop' = loop /\ pair' = pair /\ abort' = abort
        /\ owner' = owner /\ died' = died
    BY Zenon DEF threadVars
  <1>2. /\ Sock(sock') /\ Pair(pair') /\ abort' \in BOOLEAN /\ died' \in BOOLEAN
        /\ owner' \in {"open", "copy", "join", "end"}
        /\ Flow(copy', copyLoop', input', output', pair', sock', owner')
        /\ ThreadLoop(loop', pair') /\ ThreadLeaves(loop', sock', abort')
        /\ died' => sock'.conn.inbound.error
    BY <1>1, Zenon DEF Inv
  <1> QED
    BY <1>2, Zenon DEF Inv

\* The copy loop with other flags, or other work.
LEMMA SameFlow ==
  ASSUME NEW c, NEW d, NEW l, NEW m, NEW in, NEW out, NEW p, NEW s, NEW who,
         Flow(c, l, in, out, p, s, who), SameCopy(c, d),
         c.outbound.input_ended => d.outbound.input_ended,
         d.outbound.input_ended => s.conn.inbound.error \/ in = <<>>,
         OwnerLoop(m, d, p, s, in)
  PROVE  Flow(d, m, in, out, p, s, who)
  <1>1. Inbound(d, p, s, out) /\ Outbound(d, p, s, in)
    BY Zenon DEF Flow, Inbound, Outbound, SameCopy
  <1>2. InboundEnds(d, p, s)
    BY Zenon DEF Flow, InboundEnds, SameCopy
  <1>3. OutboundEnds(d, p, s, in, who)
    BY Zenon DEF Flow, OutboundEnds, SameCopy, Eof
  <1> QED
    BY <1>1, <1>2, <1>3, Zenon DEF Flow

LEMMA CopyWaitInv ==
  ASSUME Inv, NEW stdin \in Stdin, CopyWait(stdin)
  PROVE  Inv'
  <1> DEFINE ready == CopyReady(stdin)
             hungUp == CopyHungUp(stdin)
             todo == Todo(CopySetUp, ready, hungUp)
             dead == Dead(CopySetUp, ready, hungUp)
  <1>1. /\ owner = "copy" /\ copy' = CopySetUp.state
        /\ copyLoop' = Polled(copyLoop, CopySetUp, ready, hungUp)
        /\ UNCHANGED threadVars /\ input' = input /\ output' = output
    BY Zenon DEF CopyWait, Copies
  <1>2. /\ Copy(copy) /\ Loop(copyLoop) /\ LoopFields(copyLoop)
        /\ Flow(copy, copyLoop, input, output, pair, sock, owner)
        /\ OwnerLoop(copyLoop, copy, pair, sock, input)
        /\ OutboundEnds(copy, pair, sock, input, owner)
    BY Zenon DEF Inv, Flow, OwnerLoop, Loop
  <1>3. /\ SameCopy(copy, copy') /\ copy'.outbound.input_ended = copy.outbound.input_ended
        /\ CopySetUp.rules \in SUBSET (1..4) /\ CopySetUp.polled \in SUBSET (1..4)
        /\ 3 \notin CopySetUp.rules => copy.socket_eof
        /\ 4 \notin CopySetUp.rules => copy.socket_eof
        /\ 2 \in CopySetUp.polled => ~(Eof(copy.outbound) /\ copy.outbound_shutdown)
    <2>1. /\ 3 \notin copyLoop.rules => copy.socket_eof
          /\ 4 \notin copyLoop.rules => copy.socket_eof
      BY <1>2, Zenon DEF OwnerLoop
    <2> QED
      BY <1>1, <1>2, <2>1, CopySetUpKeeps, Zenon
  <1>4. LoopIs(copyLoop', "serve", CopySetUp.rules, todo, dead)
    BY <1>1, <1>2, PolledFields, Zenon
  <1>5. /\ 1 \in hungUp => input = <<>>
        /\ 2 \in hungUp => pair.closed["thread"]
        /\ 3 \in hungUp => Readable(pair, "owner")
        /\ hungUp \subseteq {1, 2, 3}
        /\ 3 \in ready <=> Readable(pair, "owner")
    <2>1. stdin = "hung up" => input = <<>>
      BY DEF Stdin
    <2>2. 2 \in HungUp => pair.closed["thread"]
      BY EndsOfPair, Zenon DEF HungUp, BothClosed
    <2>3. 3 \in HungUp => Readable(pair, "owner")
      BY EndsOfPair, Zenon DEF HungUp, BothClosed, Readable
    <2>4. HungUp \subseteq {2, 3} /\ 1 \notin HungUp
      BY DEF HungUp
    <2>5. /\ 1 \in hungUp => stdin = "hung up"
          /\ 2 \in hungUp => 2 \in HungUp
          /\ 3 \in hungUp => 3 \in HungUp
          /\ hungUp \subseteq {1, 2, 3}
      <3>1. \/ hungUp = HungUp \cup {}
            \/ hungUp = HungUp \cup {1} /\ stdin = "hung up"
        BY Zenon DEF CopyHungUp
      <3>2. 2 # 1 /\ 3 # 1
        OBVIOUS
      <3> HIDE DEF hungUp
      <3> QED
        BY <2>4, <3>1, <3>2, Zenon
    <2>6. 3 \in ready <=> Readable(pair, "owner")
      BY DEF CopyReady
    <2> QED
      BY <2>1, <2>2, <2>3, <2>5, <2>6, Zenon
  <1> HIDE DEF ready, hungUp
  <1>6. /\ todo \subseteq CopySetUp.polled /\ dead \subseteq CopySetUp.polled
        /\ dead \subseteq hungUp \ ready
        /\ 3 \in todo => 3 \in ready \/ 3 \in hungUp
    BY Zenon DEF Todo, Dead
  <1> HIDE DEF todo, dead
  <1>7. todo \in SUBSET (1..4) /\ dead \in SUBSET (1..4)
    BY <1>3, <1>6, Zenon
  <1>8. dead \subseteq {1, 2}
    BY <1>5, <1>6, Zenon
  <1>9. 3 \in todo => Readable(pair, "owner")
    BY <1>5, <1>6, Zenon
  <1>10. 2 \in dead => sock.conn.inbound.error
    <2>1. owner \notin {"join", "end"}
      BY <1>1
    <2> QED
      BY <1>2, <1>3, <1>5, <1>6, <2>1, Zenon DEF OutboundEnds
  <1>11. 1 \in dead => input = <<>>
    BY <1>5, <1>6, Zenon
  <1>12. Loop(copyLoop')
    BY <1>3, <1>4, <1>7, Zenon DEF Loop, LoopIs
  <1>13. OwnerLoop(copyLoop', copy', pair, sock, input)
    BY <1>3, <1>4, <1>8, <1>9, <1>10, <1>11, <1>12, Zenon DEF OwnerLoop, LoopIs, SameCopy
  <1>14. copy'.outbound.input_ended => sock.conn.inbound.error \/ input = <<>>
    BY <1>2, <1>3, Zenon DEF OutboundEnds
  <1>15. Flow(copy', copyLoop', input, output, pair, sock, owner)
    BY <1>2, <1>3, <1>13, <1>14, SameFlow, Zenon
  <1> QED
    BY <1>1, <1>3, <1>15, OwnerInv, Zenon DEF SameCopy

\* The end of the copy: the end of the socket was read, so that shutting the
\* pair cuts nothing off.
LEMMA CopyEndsInv ==
  ASSUME Inv, CopyEnds
  PROVE  Inv'
  <1>1. /\ copy' = CopySetUp.state /\ CopySetUp.polled = {}
        /\ copyLoop' = AtWith(copyLoop, "done", CopySetUp.rules)
        /\ owner' = "join" /\ pair' = ShutBoth(pair)
        /\ sock' = sock /\ loop' = loop /\ abort' = abort /\ died' = died
        /\ input' = input /\ output' = output
    BY Zenon DEF CopyEnds, wait_until_closed, AtWith
  <1>2. /\ Copy(copy) /\ Loop(copyLoop) /\ LoopFields(copyLoop) /\ Pair(pair)
        /\ Flow(copy, copyLoop, input, output, pair, sock, owner)
        /\ OwnerLoop(copyLoop, copy, pair, sock, input)
        /\ OutboundEnds(copy, pair, sock, input, owner) /\ InboundEnds(copy, pair, sock)
    BY Zenon DEF Inv, Flow, OwnerLoop, Loop
  <1>3. /\ SameCopy(copy, copy') /\ copy'.outbound.input_ended = copy.outbound.input_ended
        /\ CopySetUp.rules \in SUBSET (1..4)
        /\ 3 \notin CopySetUp.rules => copy.socket_eof
        /\ 4 \notin CopySetUp.rules => copy.socket_eof
        /\ copy.socket_eof
    <2>1. /\ 3 \notin copyLoop.rules => copy.socket_eof
          /\ 4 \notin copyLoop.rules => copy.socket_eof
      BY <1>2, Zenon DEF OwnerLoop
    <2> QED
      BY <1>1, <1>2, <2>1, CopySetUpKeeps, Zenon
  <1>4. LoopIs(copyLoop', "done", CopySetUp.rules, copyLoop.todo, copyLoop.dead)
    BY <1>1, <1>2, AtWithFields, Zenon
  <1>5. Loop(copyLoop')
    BY <1>2, <1>3, <1>4, Zenon DEF Loop, LoopIs
  <1>6. OwnerLoop(copyLoop', copy', pair, sock, input)
    BY <1>2, <1>3, <1>4, <1>5, Zenon DEF OwnerLoop, LoopIs, SameCopy
  <1>7. copy'.outbound.input_ended => sock.conn.inbound.error \/ input = <<>>
    BY <1>2, <1>3, Zenon DEF OutboundEnds
  <1>8. Flow(copy', copyLoop', input, output, pair, sock, owner)
    BY <1>2, <1>3, <1>6, <1>7, SameFlow, Zenon
  <1>9. sock.conn.inbound.error \/ Eof(sock.conn.inbound)
    BY <1>2, <1>3, Zenon DEF InboundEnds
  <1>10. Flow(copy', copyLoop', input, output, ShutBoth(pair), sock, "join")
    BY <1>2, <1>8, <1>9, ShutFlow, Zenon
  <1>11. Pair(pair') /\ pair'.closed["thread"]
    BY <1>1, <1>2, ShutPair, Zenon
  <1>12. ThreadLoop(loop', pair')
    BY <1>1, <1>11, Zenon DEF Inv, ThreadLoop, Readable
  <1>13. /\ Sock(sock') /\ Copy(copy') /\ abort' \in BOOLEAN /\ died' \in BOOLEAN
         /\ owner' \in {"open", "copy", "join", "end"}
         /\ Flow(copy', copyLoop', input', output', pair', sock', owner')
         /\ ThreadLeaves(loop', sock', abort')
         /\ died' => sock'.conn.inbound.error
    BY <1>1, <1>3, <1>10, Zenon DEF Inv, SameCopy
  <1> QED
    BY <1>11, <1>12, <1>13, Zenon DEF Inv

\* After a callback the loop is where it was.
LEMMA ServedOwner ==
  ASSUME NEW l, NEW r, NEW c, NEW d, NEW p, NEW q, NEW s, NEW in, NEW rest,
         OwnerLoop(l, c, p, s, in),
         3 \in l.todo \ {r} => Readable(q, "owner"),
         in = <<>> => rest = <<>>, c.socket_eof => d.socket_eof
  PROVE  OwnerLoop(Served(l, r), d, q, s, rest)
  <1> DEFINE t == Served(l, r)
  <1>1. Loop(l) /\ LoopFields(l)
    BY Zenon DEF OwnerLoop, Loop
  <1>2. LoopIs(t, l.at, l.rules, l.todo \ {r}, l.dead)
    BY <1>1, ServedFields, Zenon
  <1> HIDE DEF t
  <1>3. Loop(t)
    BY <1>1, <1>2, Zenon DEF Loop, LoopIs
  <1> QED
    BY <1>2, <1>3, Zenon DEF OwnerLoop, LoopIs, t

LEMMA ReadInputInv ==
  ASSUME Inv, ReadInput
  PROVE  Inv'
  <1> DEFINE cap == RemainingCapacity(copy.outbound)
             n == Least(Len(input), cap)
             eof == copy.input_eof \/ (cap > 0 /\ n = 0)
             data == SubSeq(input, 1, n)
             rest == SubSeq(input, n + 1, Len(input))
             read == WriteStream(copy.outbound, data)
             out == IF eof THEN EndInput(read) ELSE read
  <1>1. /\ owner = "copy" /\ Serves(copyLoop, 1) /\ copyLoop' = Served(copyLoop, 1)
        /\ input' = rest /\ copy' = [copy EXCEPT !.input_eof = eof, !.outbound = out]
        /\ UNCHANGED threadVars /\ output' = output
    BY Zenon DEF ReadInput, Copies
  <1>2. /\ Copy(copy) /\ Stream(copy.outbound)
        /\ Inbound(copy, pair, sock, output) /\ Outbound(copy, pair, sock, input)
        /\ InboundEnds(copy, pair, sock) /\ OutboundEnds(copy, pair, sock, input, owner)
        /\ OwnerLoop(copyLoop, copy, pair, sock, input)
    BY Zenon DEF Inv, Flow, Copy
  <1>3. /\ input \in Seq(Nat) /\ Len(input) \in Nat /\ Run(input, copy.outbound.bytes_written)
        /\ copy.outbound.bytes_written \in Nat
    BY <1>2, LenEmpty, StreamNumbers, Zenon DEF Outbound
  <1>4. cap \in Nat
    BY <1>2, StreamNumbers DEF RemainingCapacity, BufferSize
  <1> HIDE DEF cap
  <1>5. n \in 0..Len(input) /\ n <= cap /\ (cap > 0 /\ n = 0 => Len(input) = 0)
    BY <1>3, <1>4 DEF Least
  <1> HIDE DEF n
  <1>6. /\ data \in Seq(Nat) /\ Len(data) = n /\ Run(data, copy.outbound.bytes_written)
        /\ rest \in Seq(Nat) /\ Len(rest) = Len(input) - n
        /\ Run(rest, copy.outbound.bytes_written + n)
    BY <1>3, <1>5, RunCut, Zenon
  <1>7. input = <<>> => rest = <<>> /\ n = 0
    <2>1. ASSUME Len(input) = 0 PROVE n = 0 /\ Len(rest) = 0
      BY <1>5, <1>6, <2>1
    <2> QED
      BY <1>3, <1>6, <2>1, LenEmpty, Zenon
  <1> HIDE DEF data, rest
  <1>8. /\ Stream(read) /\ read.queue = copy.outbound.queue \o data
        /\ read.bytes_written = copy.outbound.bytes_written + n
        /\ read.bytes_read = copy.outbound.bytes_read
        /\ read.input_ended = copy.outbound.input_ended /\ read.error = copy.outbound.error
    BY <1>2, <1>5, <1>6, WriteIsStream, Zenon DEF cap
  <1> HIDE DEF read
  <1>9. /\ Stream(out) /\ out.queue = copy.outbound.queue \o data
        /\ out.bytes_written = copy.outbound.bytes_written + n
        /\ out.bytes_read = copy.outbound.bytes_read
        /\ copy.outbound.input_ended => out.input_ended
        /\ eof => out.input_ended
        /\ out.input_ended => copy.outbound.input_ended \/ eof
        /\ out.error = copy.outbound.error
    <2> HIDE DEF eof
    <2>1. CASE eof
      BY <1>8, <2>1, EndIsStream, Zenon
    <2>2. CASE ~eof
      BY <1>8, <2>2, Zenon
    <2> QED
      BY <2>1, <2>2, Zenon
  <1>10. /\ CopyFields(copy') /\ copy'.outbound = out /\ copy'.inbound = copy.inbound
         /\ copy'.outbound_shutdown = copy.outbound_shutdown
         /\ copy'.inbound_shutdown = copy.inbound_shutdown
         /\ copy'.input_eof = eof /\ copy'.socket_eof = copy.socket_eof
         /\ copy'.output_closed = copy.output_closed
    BY <1>1, <1>2, Zenon DEF Copy, CopyFields
  <1>11. eof \in BOOLEAN /\ (eof => copy.outbound.input_ended \/ input = <<>>)
    BY <1>2, <1>3, <1>5, LenEmpty, Zenon DEF Copy
  <1> HIDE DEF out, eof
  <1>12. Copy(copy')
    BY <1>2, <1>9, <1>10, <1>11, Zenon DEF Copy
  <1>13. Inbound(copy', pair, sock, output) /\ Outbound(copy', pair, sock, rest)
    BY <1>2, <1>6, <1>9, <1>10, Zenon DEF Inbound, Outbound
  <1>14. InboundEnds(copy', pair, sock)
    BY <1>2, <1>10, Zenon DEF InboundEnds
  <1>15. sock.conn.inbound.error \/ (Eof(copy.outbound) => Eof(copy'.outbound))
    <2>1. ASSUME ~sock.conn.inbound.error, Eof(copy.outbound)
          PROVE  Eof(out)
      <3>1. n = 0 /\ copy.outbound.queue = <<>>
        BY <1>2, <1>7, <2>1, Zenon DEF OutboundEnds, Eof
      <3>2. copy.outbound.queue \o data = <<>>
        BY <1>6, <3>1
      <3> QED
        BY <1>9, <2>1, <3>2, Zenon DEF Eof
    <2> QED
      BY <1>10, <2>1, Zenon
  <1>16. OutboundEnds(copy', pair, sock, rest, owner)
    BY <1>2, <1>7, <1>9, <1>10, <1>11, <1>15, Zenon DEF OutboundEnds
  <1>17. OwnerLoop(copyLoop', copy', pair, sock, rest)
    <2>1. 3 \in copyLoop.todo \ {1} => Readable(pair, "owner")
      BY <1>2, Zenon DEF OwnerLoop
    <2> QED
      BY <1>1, <1>2, <1>7, <1>10, <2>1, ServedOwner, Zenon
  <1>18. Flow(copy', copyLoop', input', output', pair, sock, owner)
    BY <1>1, <1>13, <1>14, <1>16, <1>17, Zenon DEF Flow
  <1> QED
    BY <1>1, <1>12, <1>18, OwnerInv, Zenon

LEMMA WriteOutputInv ==
  ASSUME Inv, WriteOutput
  PROVE  Inv'
  <1> DEFINE n == BufferSize(copy.inbound)
             left == PopStream(copy.inbound, n)
  <1>1. /\ copyLoop' = Served(copyLoop, 4) /\ output' = output \o copy.inbound.queue
        /\ copy' = [copy EXCEPT !.inbound = left, !.output_closed = @ \/ Eof(left),
                                !.inbound_shutdown = @ \/ Eof(left)]
        /\ UNCHANGED threadVars /\ input' = input
    BY Zenon DEF WriteOutput
  <1>2. /\ Copy(copy) /\ Stream(copy.inbound)
        /\ Inbound(copy, pair, sock, output) /\ Outbound(copy, pair, sock, input)
        /\ InboundEnds(copy, pair, sock) /\ OutboundEnds(copy, pair, sock, input, owner)
        /\ OwnerLoop(copyLoop, copy, pair, sock, input)
    BY Zenon DEF Inv, Flow, Copy
  <1>3. /\ copy.inbound.queue \in Seq(Nat) /\ n \in 0..Len(copy.inbound.queue)
        /\ n = Len(copy.inbound.queue)
    BY <1>2, StreamNumbers DEF BufferSize
  <1>4. /\ Stream(left) /\ left.bytes_written = copy.inbound.bytes_written
        /\ left.bytes_read = copy.inbound.bytes_read + n
        /\ left.input_ended = copy.inbound.input_ended /\ left.error = copy.inbound.error
    BY <1>2, <1>3, PopIsStream, Zenon
  <1>5. Eof(left) \in BOOLEAN /\ (Eof(left) => copy.inbound.input_ended)
    BY <1>4, Zenon DEF Eof, Stream
  <1>6. /\ CopyFields(copy') /\ copy'.outbound = copy.outbound /\ copy'.inbound = left
        /\ copy'.outbound_shutdown = copy.outbound_shutdown
        /\ copy'.inbound_shutdown = (copy.inbound_shutdown \/ Eof(left))
        /\ copy'.input_eof = copy.input_eof /\ copy'.socket_eof = copy.socket_eof
        /\ copy'.output_closed = (copy.output_closed \/ Eof(left))
    BY <1>1, <1>2, Zenon DEF Copy, CopyFields
  <1> HIDE DEF left, n
  <1>7. Copy(copy')
    BY <1>2, <1>4, <1>5, <1>6, Zenon DEF Copy
  <1>8. /\ output' \in Seq(Nat) /\ Len(output') = Len(output) + n /\ Run(output', 0)
    <2>1. /\ output \in Seq(Nat) /\ Run(output, 0) /\ Len(output) = copy.inbound.bytes_read
          /\ Run(copy.inbound.queue, copy.inbound.bytes_read)
      BY <1>2, StreamNumbers, Zenon DEF Inbound
    <2>2. 0 \in Nat /\ 0 + Len(output) = Len(output)
      BY <2>1
    <2>3. /\ output \o copy.inbound.queue \in Seq(Nat)
          /\ Len(output \o copy.inbound.queue) = Len(output) + Len(copy.inbound.queue)
          /\ Run(output \o copy.inbound.queue, 0)
      BY <1>3, <2>1, <2>2, RunJoin, Zenon
    <2> QED
      BY <1>1, <1>3, <2>3, Zenon
  <1>9. Inbound(copy', pair, sock, output') /\ Outbound(copy', pair, sock, input)
    BY <1>2, <1>4, <1>6, <1>8, Zenon DEF Inbound, Outbound
  <1>10. InboundEnds(copy', pair, sock) /\ OutboundEnds(copy', pair, sock, input, owner)
    BY <1>2, <1>6, Zenon DEF InboundEnds, OutboundEnds
  <1>11. OwnerLoop(copyLoop', copy', pair, sock, input)
    <2>1. 3 \in copyLoop.todo \ {4} => Readable(pair, "owner")
      BY <1>2, Zenon DEF OwnerLoop
    <2> QED
      BY <1>1, <1>2, <1>6, <2>1, ServedOwner, Zenon
  <1>12. Flow(copy', copyLoop', input', output', pair, sock, owner)
    BY <1>1, <1>9, <1>10, <1>11, Zenon DEF Flow
  <1> QED
    BY <1>1, <1>7, <1>12, OwnerInv, Zenon

\* Rule 1 is dropped when stdin is at its end, rule 2 after a reset.
LEMMA CopyDropInv ==
  ASSUME Inv, NEW r \in 1..3, CopyDrop(r)
  PROVE  Inv'
  <1>1. /\ r \in copyLoop.dead /\ copyLoop' = Dropped(copyLoop, r) /\ copy' = CopyCancel(r, copy)
        /\ UNCHANGED threadVars /\ input' = input /\ output' = output
    BY Zenon DEF CopyDrop, Drops
  <1>2. /\ Copy(copy) /\ Loop(copyLoop) /\ LoopFields(copyLoop)
        /\ Flow(copy, copyLoop, input, output, pair, sock, owner)
        /\ OwnerLoop(copyLoop, copy, pair, sock, input)
    BY Zenon DEF Inv, Flow, OwnerLoop, Loop
  <1>3. r \in {1, 2} /\ (sock.conn.inbound.error \/ input = <<>>)
    BY <1>1, <1>2, Zenon DEF OwnerLoop
  <1>4. SameCopy(copy, copy') /\ copy'.outbound.input_ended
    BY <1>1, <1>2, <1>3, CancelOutbound, Zenon
  <1>5. LoopIs(copyLoop', copyLoop.at, copyLoop.rules \ {r}, copyLoop.todo \ {r}, copyLoop.dead)
    BY <1>1, <1>2, DroppedFields, Zenon
  <1>6. Loop(copyLoop')
    BY <1>2, <1>5, Zenon DEF Loop, LoopIs
  <1>7. r # 3 /\ r # 4
    BY <1>3
  <1>8. OwnerLoop(copyLoop', copy', pair, sock, input)
    BY <1>2, <1>4, <1>5, <1>6, <1>7, Zenon DEF OwnerLoop, LoopIs, SameCopy
  <1>9. Flow(copy', copyLoop', input, output, pair, sock, owner)
    BY <1>2, <1>3, <1>4, <1>8, SameFlow, Zenon
  <1> QED
    BY <1>1, <1>4, <1>9, OwnerInv, Zenon DEF SameCopy

LEMMA CopyTurnInv ==
  ASSUME Inv, CopyTurn
  PROVE  Inv'
  <1>1. /\ copyLoop' = At(copyLoop, "wait") /\ copy' = copy
        /\ UNCHANGED threadVars /\ input' = input /\ output' = output
    BY Zenon DEF CopyTurn, At
  <1>2. /\ Copy(copy) /\ Loop(copyLoop) /\ LoopFields(copyLoop)
        /\ Flow(copy, copyLoop, input, output, pair, sock, owner)
        /\ OwnerLoop(copyLoop, copy, pair, sock, input)
    BY Zenon DEF Inv, Flow, OwnerLoop, Loop
  <1>3. LoopIs(copyLoop', "wait", copyLoop.rules, copyLoop.todo, copyLoop.dead)
    BY <1>1, <1>2, AtFields, Zenon
  <1>4. Loop(copyLoop')
    BY <1>2, <1>3, Zenon DEF Loop, LoopIs
  <1>5. OwnerLoop(copyLoop', copy, pair, sock, input)
    BY <1>2, <1>3, <1>4, Zenon DEF OwnerLoop, LoopIs
  <1>6. Flow(copy', copyLoop', input', output', pair, sock, owner)
    BY <1>1, <1>2, <1>5, Zenon DEF Flow
  <1> QED
    BY <1>1, <1>2, <1>6, OwnerInv, Zenon

LEMMA ReadSocketInv ==
  ASSUME Inv, ReadSocket
  PROVE  Inv'
  <1> DEFINE limit == RemainingCapacity(copy.inbound)
             eof == copy.socket_eof \/ ReadHitsEof(pair, "owner", limit)
             data == ReadData(pair, "owner", limit)
             read == WriteStream(copy.inbound, data)
             in == IF eof THEN EndInput(read) ELSE read
             from == copy.inbound.bytes_written
  <1>1. /\ Serves(copyLoop, 3) /\ copyLoop' = Served(copyLoop, 3)
        /\ pair' = AfterRead(pair, "owner", limit)
        /\ copy' = [copy EXCEPT !.socket_eof = eof, !.inbound = in]
        /\ sock' = sock /\ loop' = loop /\ abort' = abort /\ owner' = owner /\ died' = died
        /\ input' = input /\ output' = output
    BY Zenon DEF ReadSocket
  <1>2. /\ Copy(copy) /\ Stream(copy.inbound) /\ Pair(pair)
        /\ Inbound(copy, pair, sock, output) /\ Outbound(copy, pair, sock, input)
        /\ InboundEnds(copy, pair, sock) /\ OutboundEnds(copy, pair, sock, input, owner)
        /\ OwnerLoop(copyLoop, copy, pair, sock, input)
    BY Zenon DEF Inv, Flow, Copy
  <1>3. from \in Nat /\ limit \in Nat
    BY <1>2, StreamNumbers DEF RemainingCapacity, BufferSize
  <1>4. Run(pair.queue["owner"], from)
    BY <1>2, Zenon DEF Inbound
  <1>5. /\ Reads(pair, pair', "owner", data, from) /\ Len(data) <= limit
        /\ ReadHitsEof(pair, "owner", limit) => pair.queue["owner"] = <<>>
    BY <1>1, <1>2, <1>3, <1>4, EndsOfPair, ReadPair, Zenon
  <1>6. /\ Pair(pair') /\ pair'.closed = pair.closed /\ data \in Seq(Nat) /\ Run(data, from)
        /\ pair'.queue["thread"] = pair.queue["thread"]
        /\ Run(pair'.queue["owner"], from + Len(data))
        /\ Len(pair.queue["owner"]) = Len(data) + Len(pair'.queue["owner"])
        /\ pair.queue["owner"] = <<>> => pair'.queue["owner"] = <<>>
    BY <1>5, EndsOfPair, Zenon DEF Reads, Holding
  <1>7. eof \in BOOLEAN /\ (copy.socket_eof => eof)
    BY <1>2, Zenon DEF Copy, ReadHitsEof
  <1>8. Readable(pair, "owner")
    BY <1>1, <1>2, Zenon DEF OwnerLoop, Serves, IsNext
  <1>9. eof => pair'.closed["owner"] /\ pair'.queue["owner"] = <<>>
    BY <1>2, <1>5, <1>6, <1>8, Zenon DEF InboundEnds, Readable
  <1> HIDE DEF data
  <1>10. /\ Stream(read) /\ read.bytes_written = from + Len(data)
         /\ read.bytes_read = copy.inbound.bytes_read
         /\ read.input_ended = copy.inbound.input_ended /\ read.error = copy.inbound.error
    BY <1>2, <1>5, <1>6, WriteIsStream, Zenon
  <1> HIDE DEF read, eof
  <1>11. /\ Stream(in) /\ in.bytes_written = from + Len(data)
         /\ in.bytes_read = copy.inbound.bytes_read /\ in.error = copy.inbound.error
         /\ in.input_ended => copy.inbound.input_ended \/ eof
    <2>1. CASE eof
      BY <1>10, <2>1, EndIsStream, Zenon
    <2>2. CASE ~eof
      BY <1>10, <2>2, Zenon
    <2> QED
      BY <2>1, <2>2, Zenon
  <1>12. /\ CopyFields(copy') /\ copy'.outbound = copy.outbound /\ copy'.inbound = in
         /\ copy'.outbound_shutdown = copy.outbound_shutdown
         /\ copy'.inbound_shutdown = copy.inbound_shutdown
         /\ copy'.input_eof = copy.input_eof /\ copy'.socket_eof = eof
         /\ copy'.output_closed = copy.output_closed
    BY <1>1, <1>2, Zenon DEF Copy, CopyFields
  <1> HIDE DEF in
  <1>13. Copy(copy')
    BY <1>2, <1>7, <1>11, <1>12, Zenon DEF Copy
  <1>14. Inbound(copy', pair', sock, output)
    <2>1. sock.conn.inbound.bytes_read = from + Len(pair.queue["owner"])
      BY <1>2, Zenon DEF Inbound
    <2>2. Len(data) \in Nat /\ Len(pair'.queue["owner"]) \in Nat
      BY <1>6, EndsOfPair, LenEmpty, Zenon DEF Pair
    <2>3. sock.conn.inbound.bytes_read = (from + Len(data)) + Len(pair'.queue["owner"])
      <3> DEFINE all == Len(pair.queue["owner"])
                 some == Len(data)
                 rest == Len(pair'.queue["owner"])
      <3>1. from \in Nat /\ some \in Nat /\ rest \in Nat /\ all = some + rest
        BY <1>3, <1>6, <2>2, Zenon
      <3> HIDE DEF all, some, rest, from
      <3>2. from + all = (from + some) + rest
        BY <3>1
      <3> QED
        BY <2>1, <3>2, Zenon DEF all, some, rest
    <2> QED
      BY <1>2, <1>6, <1>11, <1>12, <2>3, Zenon DEF Inbound
  <1>15. Outbound(copy', pair', sock, input)
    BY <1>2, <1>6, <1>12, Zenon DEF Outbound
  <1>16. InboundEnds(copy', pair', sock) /\ OutboundEnds(copy', pair', sock, input, owner)
    BY <1>2, <1>6, <1>9, <1>12, Zenon DEF InboundEnds, OutboundEnds
  <1>17. OwnerLoop(copyLoop', copy', pair', sock, input)
    BY <1>1, <1>2, <1>7, <1>12, ServedOwner, Zenon
  <1>18. ThreadLoop(loop, pair')
    BY <1>6, Zenon DEF Inv, ThreadLoop, Readable
  <1>19. /\ Sock(sock') /\ abort' \in BOOLEAN /\ died' \in BOOLEAN
         /\ owner' \in {"open", "copy", "join", "end"}
         /\ ThreadLoop(loop', pair') /\ ThreadLeaves(loop', sock', abort')
         /\ died' => sock'.conn.inbound.error
    BY <1>1, <1>18, Zenon DEF Inv
  <1>20. Flow(copy', copyLoop', input', output', pair', sock', owner')
    BY <1>1, <1>14, <1>15, <1>16, <1>17, Zenon DEF Flow
  <1> QED
    BY <1>6, <1>13, <1>19, <1>20, Zenon DEF Inv

LEMMA WriteSocketInv ==
  ASSUME Inv, WriteSocket
  PROVE  Inv'
  <1> DEFINE data == copy.outbound.queue
             n == WriteSize(pair, "owner", data)
             left == PopStream(copy.outbound, n)
             written == AfterWrite(pair, "owner", data)
             from == sock.conn.outbound.bytes_written
  <1>1. /\ owner = "copy" /\ copyLoop' = Served(copyLoop, 2)
        /\ died' = WriteBreaks(pair, "owner", data)
        /\ sock' = sock /\ loop' = loop /\ abort' = abort /\ owner' = owner
        /\ input' = input /\ output' = output
    BY Zenon DEF WriteSocket, Copies
  <1>2. /\ Copy(copy) /\ Stream(copy.outbound) /\ Pair(pair) /\ Sock(sock)
        /\ Inbound(copy, pair, sock, output) /\ Outbound(copy, pair, sock, input)
        /\ InboundEnds(copy, pair, sock) /\ OutboundEnds(copy, pair, sock, input, owner)
        /\ OwnerLoop(copyLoop, copy, pair, sock, input)
    BY Zenon DEF Inv, Flow, Copy
  <1>3. owner \notin {"join", "end"}
    BY <1>1
  <1>4. 3 \in copyLoop.todo \ {2} => Readable(pair, "owner")
    BY <1>2, Zenon DEF OwnerLoop
  <1>5. CASE WriteBreaks(pair, "owner", data)
    <2>1. died' = TRUE /\ copy' = copy /\ pair' = pair
      BY <1>1, <1>5, Zenon DEF WriteSocket, WriteBreaks
    <2>2. sock.conn.inbound.error
      BY <1>2, <1>3, <1>5, EndsOfPair, Zenon DEF WriteBreaks, OutboundEnds, Eof
    <2>3. OwnerLoop(copyLoop', copy, pair, sock, input)
      BY <1>1, <1>2, <1>4, ServedOwner, Zenon
    <2>4. Flow(copy', copyLoop', input', output', pair', sock', owner')
      BY <1>1, <1>2, <2>1, <2>3, Zenon DEF Flow
    <2>5. /\ Sock(sock') /\ Pair(pair') /\ Copy(copy') /\ abort' \in BOOLEAN /\ died' \in BOOLEAN
          /\ owner' \in {"open", "copy", "join", "end"}
          /\ ThreadLoop(loop', pair') /\ ThreadLeaves(loop', sock', abort')
          /\ died' => sock'.conn.inbound.error
      BY <1>1, <1>2, <2>1, <2>2, Zenon DEF Inv
    <2> QED
      BY <2>4, <2>5, Zenon DEF Inv
  <1>6. CASE ~WriteBreaks(pair, "owner", data)
    <2>1. /\ died' = FALSE
          /\ copy' = [copy EXCEPT !.outbound = left, !.outbound_shutdown = @ \/ Eof(left)]
          /\ pair' = IF Eof(left) THEN ShutWrite(written, "owner") ELSE written
      BY <1>1, <1>6, Zenon DEF WriteSocket, WriteBreaks
    <2>2. /\ from \in Nat /\ Run(pair.queue["thread"], from) /\ data \in Seq(Nat)
          /\ Run(data, from + Len(pair.queue["thread"]))
          /\ copy.outbound.bytes_read = from + Len(pair.queue["thread"])
      BY <1>2, StreamNumbers, Zenon DEF Sock, Conn, Outbound
    <2>3. Writes(pair, written, "thread", data, n, from)
      <3> HIDE DEF data, from
      <3> QED
        BY <1>2, <2>2, EndsOfPair, WritePair, Zenon
    <2>4. /\ Pair(written) /\ written.closed = pair.closed /\ n \in 0..Len(copy.outbound.queue)
          /\ written.queue["owner"] = pair.queue["owner"]
          /\ Run(written.queue["thread"], from)
          /\ Len(written.queue["thread"]) = Len(pair.queue["thread"]) + n
          /\ data = <<>> => written.queue["thread"] = pair.queue["thread"]
      BY <2>3, EndsOfPair, Zenon DEF Writes, Holding
    <2>5. /\ Stream(left) /\ left.bytes_written = copy.outbound.bytes_written
          /\ left.bytes_read = copy.outbound.bytes_read + n
          /\ left.input_ended = copy.outbound.input_ended /\ left.error = copy.outbound.error
      BY <1>2, <2>4, PopIsStream, Zenon
    <2>6. Eof(copy.outbound) => Eof(left)
      BY <1>2, <2>4, EofPop, Zenon
    <2>7. Eof(left) \in BOOLEAN
      BY <2>5, Zenon DEF Eof, Stream
    <2>8. /\ CopyFields(copy') /\ copy'.outbound = left /\ copy'.inbound = copy.inbound
          /\ copy'.outbound_shutdown = (copy.outbound_shutdown \/ Eof(left))
          /\ copy'.inbound_shutdown = copy.inbound_shutdown
          /\ copy'.input_eof = copy.input_eof /\ copy'.socket_eof = copy.socket_eof
          /\ copy'.output_closed = copy.output_closed
      BY <1>2, <2>1, Zenon DEF Copy, CopyFields
    <2> HIDE DEF left, written, n
    <2>9. Copy(copy')
      BY <1>2, <2>5, <2>7, <2>8, Zenon DEF Copy
    <2>10. /\ Pair(pair') /\ pair'.queue = written.queue
           /\ pair'.closed["owner"] = pair.closed["owner"]
           /\ pair.closed["thread"] => pair'.closed["thread"]
           /\ pair'.closed["thread"] => pair.closed["thread"] \/ Eof(left)
      <3>1. CASE Eof(left)
        <4>1. pair' = ShutWrite(written, "owner")
          BY <2>1, <3>1, Zenon
        <4> DEFINE shut == ShutWrite(written, "owner")
        <4>2. /\ Pair(shut) /\ shut.queue = written.queue
              /\ shut.closed["thread"] /\ shut.closed["owner"] = written.closed["owner"]
          BY <2>4, EndsOfPair, ShutWritePair, Zenon
        <4> HIDE DEF shut
        <4>3. pair' = shut
          BY <4>1, Zenon DEF shut
        <4> QED
          BY <2>4, <3>1, <4>2, <4>3, Zenon
      <3>2. CASE ~Eof(left)
        BY <2>1, <2>4, <3>2, Zenon
      <3> QED
        BY <3>1, <3>2, Zenon
    <2>11. pair.closed["thread"] => data = <<>>
      BY <1>6, EndsOfPair, Zenon DEF WriteBreaks
    <2>12. Inbound(copy', pair', sock, output)
      BY <1>2, <2>4, <2>8, <2>10, Zenon DEF Inbound
    <2>13. Outbound(copy', pair', sock, input)
      <3>1. Len(pair.queue["thread"]) \in Nat /\ n \in Nat
        BY <1>2, <2>2, <2>4, EndsOfPair, LenEmpty, SMTT(30), SMTT(90) DEF Pair
      <3>2. left.bytes_read = from + Len(written.queue["thread"])
        BY <2>2, <2>4, <2>5, <3>1
      <3> QED
        BY <1>2, <2>4, <2>5, <2>8, <2>10, <3>2, Zenon DEF Outbound
    <2>14. InboundEnds(copy', pair', sock)
      BY <1>2, <2>4, <2>8, <2>10, Zenon DEF InboundEnds
    <2>15. OutboundEnds(copy', pair', sock, input, owner)
      BY <1>2, <2>4, <2>5, <2>6, <2>8, <2>10, <2>11, Zenon DEF OutboundEnds
    <2>16. Readable(pair, "owner") => Readable(pair', "owner")
      BY <2>4, <2>10, Zenon DEF Readable
    <2>17. OwnerLoop(copyLoop', copy', pair', sock, input)
      BY <1>1, <1>2, <1>4, <2>8, <2>16, ServedOwner, Zenon
    <2>18. Readable(pair, "thread") => Readable(pair', "thread")
      <3>1. pair.queue["thread"] # <<>> => written.queue["thread"] # <<>>
        <4>1. /\ pair.queue["thread"] \in Seq(Nat) /\ written.queue["thread"] \in Seq(Nat)
              /\ Len(written.queue["thread"]) = Len(pair.queue["thread"]) + n /\ n \in Nat
          BY <1>2, <2>2, <2>4, EndsOfPair, LenEmpty DEF Pair
        <4> QED
          BY <4>1, LenEmpty, SMTT(30), SMTT(90)
      <3> QED
        BY <2>10, <3>1, Zenon DEF Readable
    <2>19. ThreadLoop(loop, pair')
      BY <2>18, Zenon DEF Inv, ThreadLoop
    <2>20. Flow(copy', copyLoop', input', output', pair', sock', owner')
      BY <1>1, <2>12, <2>13, <2>14, <2>15, <2>17, Zenon DEF Flow
    <2>21. /\ Sock(sock') /\ abort' \in BOOLEAN /\ died' \in BOOLEAN
           /\ owner' \in {"open", "copy", "join", "end"}
           /\ ThreadLoop(loop', pair') /\ ThreadLeaves(loop', sock', abort')
           /\ died' => sock'.conn.inbound.error
      BY <1>1, <2>1, <2>19, Zenon DEF Inv
    <2> QED
      BY <2>9, <2>10, <2>20, <2>21, Zenon DEF Inv
  <1> QED
    BY <1>5, <1>6, Zenon


-----------------------------------------------------------------------------
(* The owner's last steps, the initial state, and the invariant.           *)

\* The owner goes on to wait for the thread, or to the end of main().
LEMMA OwnerMovesInv ==
  ASSUME Inv, owner' \in {"join", "end"}, abort' \in BOOLEAN, abort => abort',
         sock' = sock, loop' = loop, pair' = pair, died' = died, UNCHANGED copyVars
  PROVE  Inv'
  <1>1. /\ sock' = sock /\ loop' = loop /\ pair' = pair /\ died' = died
        /\ copy' = copy /\ copyLoop' = copyLoop /\ input' = input /\ output' = output
    BY Zenon DEF copyVars
  <1>2. Flow(copy, copyLoop, input, output, pair, sock, owner')
    BY Zenon DEF Inv, Flow, OutboundEnds
  <1>3. ThreadLeaves(loop, sock, abort')
    BY Zenon DEF Inv, ThreadLeaves
  <1>4. owner' \in {"open", "copy", "join", "end"}
    BY Zenon
  <1>5. /\ Sock(sock) /\ Pair(pair) /\ Copy(copy) /\ died \in BOOLEAN
        /\ ThreadLoop(loop, pair)
        /\ died => sock.conn.inbound.error
    BY Zenon DEF Inv
  <1>6. /\ Sock(sock') /\ Pair(pair') /\ Copy(copy') /\ died' \in BOOLEAN
        /\ ThreadLoop(loop', pair')
        /\ died' => sock'.conn.inbound.error
    <2>1. Sock(sock') /\ Pair(pair') /\ Copy(copy') /\ ThreadLoop(loop', pair')
      BY <1>1, <1>5, Zenon
    <2>2. died' \in BOOLEAN
      BY <1>1, <1>5, Zenon
    <2>3. died' => sock'.conn.inbound.error
      BY <1>1, <1>5, <2>2, SMT, SMTT(90)
    <2> QED
      BY <2>1, <2>2, <2>3, Zenon
  <1>7. /\ Flow(copy', copyLoop', input', output', pair', sock', owner')
        /\ ThreadLeaves(loop', sock', abort')
    BY <1>1, <1>2, <1>3, Zenon
  <1> QED
    BY <1>4, <1>6, <1>7, Zenon DEF Inv

LEMMA DestroyInv ==
  ASSUME Inv, Destroy, UNCHANGED copyVars
  PROVE  Inv'
  BY OwnerMovesInv, Zenon DEF Destroy

LEMMA JoinInv ==
  ASSUME Inv, Join, UNCHANGED copyVars
  PROVE  Inv'
  BY OwnerMovesInv, Zenon DEF Join, Inv

LEMMA NewLoopIsLoop ==
  Loop(NewLoop) /\ NewLoop.rules = 1..4 /\ NewLoop.todo = {} /\ NewLoop.dead = {}
  /\ NewLoop.at = "wait"
  BY Zenon DEF NewLoop, Loop, LoopFields

LEMMA NewPairIsPair ==
  /\ Pair(NewPair)
  /\ NewPair.queue["owner"] = <<>> /\ NewPair.queue["thread"] = <<>>
  /\ NewPair.closed["owner"] = FALSE /\ NewPair.closed["thread"] = FALSE
  <1>1. /\ PairFields(NewPair) /\ NewPair.queue = [e \in SocketEnds |-> <<>>]
        /\ NewPair.closed = [e \in SocketEnds |-> FALSE]
    BY Zenon DEF NewPair, PairFields
  <1>2. <<>> \in Seq(Nat) /\ Len(<<>>) <= PipeSize
    BY PipeAssumption
  <1> QED
    BY <1>1, <1>2, EndsOfPair, Zenon DEF Pair

LEMMA OpeningIsConn ==
  ASSUME NEW connecting \in BOOLEAN
  PROVE  LET c == Opening(RecvCapacity, SendCapacity, connecting)
         IN  /\ Conn(c) /\ c.inbound.bytes_read = 0 /\ c.outbound.bytes_written = 0
             /\ ~c.outbound.input_ended /\ ~Eof(c.inbound) /\ ~c.inbound.error
  <1> DEFINE c == Opening(RecvCapacity, SendCapacity, connecting)
  <1>1. /\ ConnFields(c) /\ c.active = TRUE /\ c.opening = TRUE /\ c.queued = connecting
        /\ c.inbound = NewStream(RecvCapacity) /\ c.outbound = NewStream(SendCapacity)
    BY Zenon DEF Opening, ConnFields
  <1> HIDE DEF c
  <1>2. /\ Stream(c.inbound) /\ c.inbound.bytes_written = 0 /\ c.inbound.bytes_read = 0
        /\ ~c.inbound.input_ended /\ ~c.inbound.error
        /\ Stream(c.outbound) /\ c.outbound.bytes_written = 0 /\ ~c.outbound.input_ended
    <2>1. RecvCapacity \in Nat \ {0} /\ SendCapacity \in Nat \ {0}
      BY CopyAssumption, Zenon
    <2>2. /\ Stream(c.inbound) /\ c.inbound.bytes_written = 0 /\ c.inbound.bytes_read = 0
          /\ ~c.inbound.input_ended /\ ~c.inbound.error
      BY <1>1, <2>1, NewIsStream, Zenon
    <2>3. Stream(c.outbound) /\ c.outbound.bytes_written = 0 /\ ~c.outbound.input_ended
      BY <1>1, <2>1, NewIsStream, Zenon
    <2> QED
      BY <2>2, <2>3, Zenon
  <1>3. c.inbound.bytes_written <= PeerBytes
    BY <1>2, PeerAssumption
  <1> QED
    BY <1>1, <1>2, <1>3, Zenon DEF Conn, Eof, c

LEMMA InitInv ==
  ASSUME Init
  PROVE  Inv
  <1>1. PICK connecting \in BOOLEAN :
          sock = [conn |-> Opening(RecvCapacity, SendCapacity, connecting),
                  outbound_shutdown |-> FALSE, inbound_shutdown |-> FALSE, eof |-> FALSE]
    BY Zenon DEF Init, InitSocket
  <1>2. /\ loop = NewLoop /\ pair = NewPair /\ abort = FALSE /\ owner = "open" /\ died = FALSE
        /\ copyLoop = NewLoop /\ output = <<>>
    BY Zenon DEF Init, InitSocket
  <1>3. /\ SockFields(sock) /\ sock.conn = Opening(RecvCapacity, SendCapacity, connecting)
        /\ sock.outbound_shutdown = FALSE /\ sock.inbound_shutdown = FALSE /\ sock.eof = FALSE
    BY <1>1, Zenon DEF SockFields
  <1>4. /\ Conn(sock.conn) /\ sock.conn.inbound.bytes_read = 0
        /\ sock.conn.outbound.bytes_written = 0 /\ ~sock.conn.outbound.input_ended
    BY <1>3, OpeningIsConn, Zenon
  <1>5. Sock(sock)
    BY <1>3, <1>4, Zenon DEF Sock
  <1>6. /\ CopyFields(copy) /\ copy.outbound = NewStream(CopyCapacity)
        /\ copy.inbound = NewStream(CopyCapacity)
        /\ copy.outbound_shutdown = FALSE /\ copy.inbound_shutdown = FALSE
        /\ copy.input_eof = FALSE /\ copy.socket_eof = FALSE /\ copy.output_closed = FALSE
    BY Zenon DEF Init, CopyFields
  <1>7. /\ Stream(copy.outbound) /\ Stream(copy.inbound)
        /\ copy.outbound.bytes_written = 0 /\ copy.outbound.bytes_read = 0
        /\ copy.inbound.bytes_written = 0 /\ copy.inbound.bytes_read = 0
        /\ ~copy.outbound.input_ended /\ ~copy.inbound.input_ended
        /\ ~copy.outbound.error /\ ~copy.inbound.error
    BY <1>6, CopyAssumption, NewIsStream, Zenon
  <1>8. Copy(copy)
    BY <1>6, <1>7, Zenon DEF Copy
  <1>9. input \in Seq(Nat) /\ Run(input, 0)
    <2>1. input = [k \in 1..InputBytes |-> k - 1]
      BY Zenon DEF Init
    <2> QED
      BY <2>1, CopyAssumption DEF Run
  <1>10. /\ output \in Seq(Nat) /\ Run(output, 0) /\ Len(output) = 0
         /\ Run(pair.queue["owner"], 0) /\ Run(pair.queue["thread"], 0)
         /\ Len(pair.queue["owner"]) = 0 /\ Len(pair.queue["thread"]) = 0
    <2>1. <<>> \in Seq(Nat) /\ Run(<<>>, 0) /\ Len(<<>>) = 0
      BY DEF Run
    <2> QED
      BY <1>2, <2>1, NewPairIsPair, Zenon
  <1>11. Inbound(copy, pair, sock, output)
    <2>1. sock.conn.inbound.bytes_read = copy.inbound.bytes_written + Len(pair.queue["owner"])
      BY <1>4, <1>7, <1>10
    <2> QED
      BY <1>7, <1>10, <2>1, Zenon DEF Inbound
  <1>12. Outbound(copy, pair, sock, input)
    <2>1. copy.outbound.bytes_read = sock.conn.outbound.bytes_written + Len(pair.queue["thread"])
      BY <1>4, <1>7, <1>10
    <2> QED
      BY <1>4, <1>7, <1>9, <1>10, <2>1, Zenon DEF Outbound
  <1>13. InboundEnds(copy, pair, sock) /\ OutboundEnds(copy, pair, sock, input, owner)
    BY <1>2, <1>3, <1>6, <1>7, NewPairIsPair, Zenon DEF InboundEnds, OutboundEnds
  <1>14. 1 \in 1..4 /\ 3 \in 1..4 /\ 4 \in 1..4
    OBVIOUS
  <1>15. OwnerLoop(copyLoop, copy, pair, sock, input) /\ ThreadLoop(loop, pair)
    BY <1>2, <1>14, NewLoopIsLoop, Zenon DEF OwnerLoop, ThreadLoop
  <1>16. ThreadLeaves(loop, sock, abort)
    BY <1>2, NewLoopIsLoop DEF ThreadLeaves
  <1> QED
    BY <1>2, <1>5, <1>8, <1>11, <1>12, <1>13, <1>15, <1>16, NewPairIsPair, ZenonT(30) DEF Inv, Flow

LEMMA ThreadStepInv ==
  ASSUME Inv, ThreadStep, UNCHANGED copyVars
  PROVE  Inv'
  BY WaitInv, DatagramInv, ServeOutboundInv, ServeInboundInv, SegmentsInv, DropInv, TurnInv,
     StartInv, ThreadEndsInv, Zenon DEF ThreadStep

LEMMA CopyStepInv ==
  ASSUME Inv, CopyStep
  PROVE  Inv'
  BY CopyWaitInv, ReadInputInv, WriteSocketInv, ReadSocketInv, WriteOutputInv, CopyDropInv,
     CopyTurnInv, CopyEndsInv, Zenon DEF CopyStep

LEMMA StutterInv ==
  ASSUME Inv, UNCHANGED vars
  PROVE  Inv'
  <1>1. /\ sock' = sock /\ loop' = loop /\ pair' = pair /\ abort' = abort
        /\ owner' = owner /\ died' = died
        /\ copy' = copy /\ copyLoop' = copyLoop /\ input' = input /\ output' = output
    BY Zenon DEF vars, threadVars, copyVars
  <1> QED
    BY <1>1, Zenon DEF Inv

LEMMA NextInv ==
  ASSUME Inv, [Next]_vars
  PROVE  Inv'
  BY ThreadStepInv, CopyStepInv, DestroyInv, JoinInv, StutterInv, Zenon DEF Next, Finished

LEMMA AlwaysInv ==
  Spec => []Inv
  BY InitInv, NextInv, PTL DEF Spec


-----------------------------------------------------------------------------
(* What the invariant says of the whole way of the bytes.                  *)

LEMMA RunIsCount ==
  ASSUME NEW q \in Seq(Nat), NEW from \in Nat, Run(q, from)
  PROVE  q = [k \in DOMAIN q |-> from + k - 1]
  <1>1. DOMAIN q = 1..Len(q) /\ q = [k \in 1..Len(q) |-> q[k]]
    OBVIOUS
  <1> QED
    BY <1>1 DEF Run

LEMMA InboundIntact ==
  ASSUME Inv
  PROVE  LET through == output \o copy.inbound.queue \o pair.queue["owner"] \o sock.conn.inbound.queue
         IN  /\ through = [k \in DOMAIN through |-> k - 1]
             /\ Len(through) = sock.conn.inbound.bytes_written
  <1> DEFINE a == output
             b == copy.inbound.queue
             c == pair.queue["owner"]
             d == sock.conn.inbound.queue
             ab == a \o b
             abc == ab \o c
             abcd == abc \o d
  <1>1. /\ Inbound(copy, pair, sock, output) /\ Stream(copy.inbound) /\ Stream(sock.conn.inbound)
        /\ Pair(pair)
    BY Zenon DEF Inv, Flow, Copy, Sock, Conn
  <1>2. /\ a \in Seq(Nat) /\ Run(a, 0) /\ Len(a) \in Nat /\ Len(a) = copy.inbound.bytes_read
        /\ b \in Seq(Nat) /\ Run(b, copy.inbound.bytes_read) /\ Len(b) \in Nat
        /\ copy.inbound.bytes_written = copy.inbound.bytes_read + Len(b)
        /\ c \in Seq(Nat) /\ Run(c, copy.inbound.bytes_written) /\ Len(c) \in Nat
        /\ sock.conn.inbound.bytes_read = copy.inbound.bytes_written + Len(c)
        /\ d \in Seq(Nat) /\ Run(d, sock.conn.inbound.bytes_read)
        /\ sock.conn.inbound.bytes_written = sock.conn.inbound.bytes_read + Len(d)
    BY <1>1, StreamNumbers, LenEmpty, EndsOfPair, Zenon DEF Inbound, Pair
  <1> HIDE DEF a, b, c, d
  <1>3. 0 \in Nat /\ 0 + Len(a) = copy.inbound.bytes_read
    BY <1>2
  <1>4. ab \in Seq(Nat) /\ Len(ab) = Len(a) + Len(b) /\ Run(ab, 0)
    BY <1>2, <1>3, RunJoin, Zenon
  <1>5. Len(ab) = copy.inbound.bytes_written /\ 0 + Len(ab) = copy.inbound.bytes_written
    BY <1>2, <1>4
  <1> HIDE DEF ab
  <1>6. abc \in Seq(Nat) /\ Len(abc) = Len(ab) + Len(c) /\ Run(abc, 0)
    BY <1>2, <1>3, <1>4, <1>5, RunJoin, Zenon
  <1>7. /\ Len(abc) = sock.conn.inbound.bytes_read
        /\ 0 + Len(abc) = sock.conn.inbound.bytes_read
    BY <1>2, <1>5, <1>6
  <1> HIDE DEF abc
  <1>8. abcd \in Seq(Nat) /\ Len(abcd) = Len(abc) + Len(d) /\ Run(abcd, 0)
    BY <1>2, <1>3, <1>6, <1>7, RunJoin, Zenon
  <1>9. Len(abcd) = sock.conn.inbound.bytes_written
    BY <1>2, <1>7, <1>8, Zenon
  <1> HIDE DEF abcd
  <1>10. abcd = [k \in DOMAIN abcd |-> k - 1]
    <2>1. abcd = [k \in DOMAIN abcd |-> 0 + k - 1]
      BY <1>3, <1>8, RunIsCount, Zenon
    <2>2. DOMAIN abcd = 1..Len(abcd) /\ Len(abcd) \in Nat
      BY <1>8
    <2>3. \A k \in DOMAIN abcd : 0 + k - 1 = k - 1
      BY <2>2
    <2> QED
      BY <2>1, <2>3, Zenon
  <1> QED
    BY <1>9, <1>10, Zenon DEF a, b, c, d, ab, abc, abcd

LEMMA OutboundIntact ==
  ASSUME Inv
  PROVE  LET through == sock.conn.outbound.queue \o pair.queue["thread"] \o copy.outbound.queue \o input
         IN  through = [k \in DOMAIN through |-> sock.conn.outbound.bytes_read + k - 1]
  <1> DEFINE a == sock.conn.outbound.queue
             b == pair.queue["thread"]
             c == copy.outbound.queue
             d == input
             from == sock.conn.outbound.bytes_read
             ab == a \o b
             abc == ab \o c
             abcd == abc \o d
  <1>1. /\ Outbound(copy, pair, sock, input) /\ Stream(copy.outbound) /\ Stream(sock.conn.outbound)
        /\ Pair(pair)
    BY Zenon DEF Inv, Flow, Copy, Sock, Conn
  <1>2. /\ from \in Nat /\ a \in Seq(Nat) /\ Run(a, from) /\ Len(a) \in Nat
        /\ sock.conn.outbound.bytes_written = from + Len(a)
        /\ b \in Seq(Nat) /\ Run(b, sock.conn.outbound.bytes_written) /\ Len(b) \in Nat
        /\ copy.outbound.bytes_read = sock.conn.outbound.bytes_written + Len(b)
        /\ c \in Seq(Nat) /\ Run(c, copy.outbound.bytes_read) /\ Len(c) \in Nat
        /\ copy.outbound.bytes_written = copy.outbound.bytes_read + Len(c)
        /\ d \in Seq(Nat) /\ Run(d, copy.outbound.bytes_written)
    BY <1>1, StreamNumbers, LenEmpty, EndsOfPair, Zenon DEF Outbound, Pair
  <1> HIDE DEF a, b, c, d, from
  <1>3. Run(b, from + Len(a))
    BY <1>2, Zenon
  <1>4. ab \in Seq(Nat) /\ Len(ab) = Len(a) + Len(b) /\ Run(ab, from)
    BY <1>2, <1>3, RunJoin, Zenon
  <1>5. from + Len(ab) = copy.outbound.bytes_read
    BY <1>2, <1>4
  <1> HIDE DEF ab
  <1>6. abc \in Seq(Nat) /\ Len(abc) = Len(ab) + Len(c) /\ Run(abc, from)
    BY <1>2, <1>4, <1>5, RunJoin, Zenon
  <1>7. from + Len(abc) = copy.outbound.bytes_written
    <2>1. Len(ab) \in Nat
      BY <1>4, LenEmpty, Zenon
    <2>2. /\ from \in Nat /\ Len(c) \in Nat /\ from + Len(ab) = copy.outbound.bytes_read
          /\ Len(abc) = Len(ab) + Len(c)
          /\ copy.outbound.bytes_written = copy.outbound.bytes_read + Len(c)
      BY <1>2, <1>5, <1>6, Zenon
    <2> HIDE DEF abc
    <2> QED
      BY <2>1, <2>2
  <1> HIDE DEF abc
  <1>8. abcd \in Seq(Nat) /\ Run(abcd, from)
    BY <1>2, <1>6, <1>7, RunJoin, Zenon
  <1> HIDE DEF abcd
  <1>9. abcd = [k \in DOMAIN abcd |-> from + k - 1]
    BY <1>2, <1>8, RunIsCount, Zenon
  <1> QED
    BY <1>9, Zenon DEF a, b, c, d, from, ab, abc, abcd

LEMMA EndIntact ==
  ASSUME Inv, copy.socket_eof, ~sock.conn.inbound.error
  PROVE  copy.inbound.bytes_written = PeerBytes
  <1>1. pair.queue["owner"] = <<>> /\ Eof(sock.conn.inbound)
    BY Zenon DEF Inv, Flow, InboundEnds
  <1>2. /\ Stream(sock.conn.inbound) /\ sock.conn.inbound.bytes_written = PeerBytes
        /\ sock.conn.inbound.queue = <<>>
    BY <1>1, Zenon DEF Inv, Sock, Conn, Eof
  <1>3. /\ sock.conn.inbound.bytes_written = sock.conn.inbound.bytes_read + Len(<<>>)
        /\ sock.conn.inbound.bytes_read = copy.inbound.bytes_written + Len(<<>>)
        /\ sock.conn.inbound.bytes_read \in Nat /\ copy.inbound.bytes_written \in Nat
    BY <1>1, <1>2, StreamNumbers, Zenon DEF Inv, Flow, Copy, Inbound
  <1> QED
    BY <1>2, <1>3

-----------------------------------------------------------------------------
(* The properties.                                                         *)

\* What bidirectional_stream_copy() prints is what the peer wrote, and what
\* the connection sends is what stdin held, byte for byte, through the buffers
\* of both loops and of the pair of sockets, and an end of file before the end
\* of the peer's stream follows a reset, for every capacity of every buffer
\* and every length of the two streams.
THEOREM AlwaysStreamsIntact ==
  Spec => []StreamsIntact
  <1>1. Inv => StreamsIntact
    BY InboundIntact, OutboundIntact, EndIntact, Zenon DEF StreamsIntact
  <1> QED
    BY <1>1, AlwaysInv, PTL

\* The thread of a TCPSpongeSocket that was not told to stop returns from
\* _tcp_main() only when segments_out() is empty.
THEOREM LastSegmentsAlwaysSent ==
  Spec => []LastSegmentsSent
  <1>1. Inv => LastSegmentsSent
    BY Zenon DEF Inv, ThreadLeaves, LastSegmentsSent
  <1> QED
    BY <1>1, AlwaysInv, PTL

\* Neither loop writes to an end of the pair that was shut, which would end
\* the process with SIGPIPE, unless the connection was reset.
THEOREM BrokenPipeOnlyAfterReset ==
  Spec => []BrokenPipeAfterReset
  <1>1. Inv => BrokenPipeAfterReset
    BY Zenon DEF Inv, BrokenPipeAfterReset
  <1> QED
    BY <1>1, AlwaysInv, PTL
=============================================================================
