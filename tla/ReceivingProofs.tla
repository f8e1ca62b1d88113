-------------------------- MODULE ReceivingProofs --------------------------
(***************************************************************************)
(* A TCPReceiver at work, for every capacity, every stream, every width of *)
(* the sequence number and every initial sequence number: bytes reach the  *)
(* application at their place, the right edge of the window never moves    *)
(* left, and an acknowledged FIN is the end of the stream.                 *)
(***************************************************************************)
EXTENDS Receiving, ReceiverLemmas

LEMMA Constants ==
  /\ RecvCapacity \in Nat /\ RecvCapacity > 0 /\ Length \in Nat /\ MaxPayload \in Nat /\ MaxPayload > 0
  /\ Isn \in Wrapping /\ Overrun \in Nat /\ Lag \in Nat
  /\ FACTOR \in Nat /\ FACTOR > 1
  BY ReceivingAssumption, FactorAssumption

IsReceiver(t) ==
  t \in [reassembler : {t.reassembler}, capacity : {t.capacity},
         received_syn : {t.received_syn}, received_fin : {t.received_fin},
         isn : {t.isn}, abs_fin_seqno : {t.abs_fin_seqno}, checkpoint : {t.checkpoint}]

\* What holds whether or not the segment in hand has been noted: the
\* reassembler is settled and a noted FIN is at the end of the stream.
Sound(t) ==
  /\ IsReceiver(t) /\ t.capacity = RecvCapacity
  /\ Settled(t.reassembler, RecvCapacity, Length)
  /\ t.received_syn \in BOOLEAN /\ t.received_fin \in BOOLEAN
  /\ t.received_syn => t.isn = Isn
  /\ t.received_fin => t.abs_fin_seqno = Length + 1
  /\ t.checkpoint \in 0 .. Length + 1

\* The checkpoint is where the last segment began.  It stays close enough to
\* the ackno for the next segment to be within half the sequence space of it.
Tracked(t) ==
  /\ ~t.received_syn => t.checkpoint = 0
  /\ get_abs_ackno(t) <= t.checkpoint + (Lag + RecvCapacity + 1)
  /\ t.checkpoint <= get_abs_ackno(t) + (RecvCapacity + Overrun)

\* A peer that keeps to the window never has a FIN cut off.
FinPassedOn(t) == Overrun = 0 /\ t.received_fin => t.reassembler.eof

Inv == Sound(rcv) /\ Tracked(rcv) /\ FinPassedOn(rcv)

-----------------------------------------------------------------------------
(* The segments of the peer.                                               *)

LEMMA SegmentIs ==
  ASSUME NEW first \in 0 .. Length + 1, NEW last \in 0 .. Length + 1, first <= last
  PROVE  LET seg == Segment(first, last)
             index == Greatest(0, first - 1)
         IN  /\ seg.seqno = wrap(first, Isn) /\ seg.syn = (first = 0)
             /\ seg.fin = (last = Length + 1)
             /\ index \in Nat /\ seg.payload \in Seq(Nat) /\ Run(seg.payload, index)
             /\ index + Len(seg.payload) = Least(last, Length)
  <1> DEFINE index == Greatest(0, first - 1)
             from == Greatest(first, 1)
             n == Least(last, Length) - from + 1
             payload == [k \in 1..n |-> from + k - 2]
             seg == Segment(first, last)
  <1>1. /\ seg.seqno = wrap(first, Isn) /\ seg.syn = (first = 0)
        /\ seg.fin = (last = Length + 1) /\ seg.payload = payload
    BY Zenon DEF Segment
  <1>2. /\ index \in Nat /\ from = index + 1 /\ n \in Nat /\ index + n = Least(last, Length)
    BY Constants, SMTT(30), SMTT(90) DEF Greatest, Least
  <1> HIDE DEF index, from, n
  <1>3. \A k \in 1..n : from + k - 2 \in Nat /\ from + k - 2 = index + k - 1
    BY <1>2
  <1>4. payload \in Seq(Nat) /\ Len(payload) = n
    BY <1>2, <1>3
  <1>5. Run(payload, index)
    <2>1. \A k \in 1..n : payload[k] = index + k - 1
      BY <1>3, Zenon
    <2> QED
      BY <1>4, <2>1, Zenon DEF Run
  <1> HIDE DEF payload
  <1>6. index + Len(payload) = Least(last, Length)
    BY <1>2, <1>4, Zenon
  <1> HIDE DEF seg
  <1> QED
    BY <1>1, <1>2, <1>4, <1>5, <1>6, Zenon DEF seg, index

-----------------------------------------------------------------------------
(* The acknowledgment number and the window.                               *)

LEMMA SoundNumbers ==
  ASSUME NEW t, Sound(t)
  PROVE  LET next == t.reassembler.next_index
             read == stream_out(t).bytes_read
         IN  /\ next \in Nat /\ next <= Length /\ read \in Nat
             /\ read <= next /\ next <= read + RecvCapacity
             /\ window_size(t) = RecvCapacity - (next - read)
             /\ get_abs_ackno(t) = IF t.received_fin /\ next = Length THEN next + 2 ELSE next + 1
  <1> DEFINE next == t.reassembler.next_index
             s == stream_out(t)
             read == s.bytes_read
             used == Len(s.queue)
  <1>1. next \in 0..Length /\ Exact(s, RecvCapacity, next)
    BY Zenon DEF Sound, Settled, Ready, Open, stream_out
  <1>2. /\ s.bytes_written = next /\ read \in Nat /\ read + used = next /\ used <= RecvCapacity
        /\ s.queue \in Seq(Nat)
    BY <1>1, Zenon DEF Exact
  <1>3. used \in Nat
    BY <1>2
  <1>4. window_size(t) = RecvCapacity - used
    BY Zenon DEF window_size, BufferSize, Sound
  <1>5. get_abs_ackno(t) = IF t.received_fin /\ 1 + next = Length + 1 THEN 1 + next + 1 ELSE 1 + next
    BY <1>2, Zenon DEF get_abs_ackno, Sound
  <1> HIDE DEF next, s, read, used
  <1>6. /\ next \in Nat /\ next <= Length /\ read <= next /\ next <= read + RecvCapacity
        /\ RecvCapacity - used = RecvCapacity - (next - read)
    BY <1>1, <1>2, <1>3, Constants, SMTT(30), SMTT(90)
  <1>7. (1 + next = Length + 1) = (next = Length) /\ 1 + next + 1 = next + 2 /\ 1 + next = next + 1
    BY <1>6, Constants
  <1>8. get_abs_ackno(t) = IF t.received_fin /\ next = Length THEN next + 2 ELSE next + 1
    BY <1>5, <1>7, Zenon
  <1> QED
    BY <1>2, <1>4, <1>6, <1>8, Zenon DEF next, s, read


-----------------------------------------------------------------------------
(* One call of segment_received().                                         *)

\* What pushing a part of a segment does to the receiver.
Moved(u, v) ==
  /\ Sound(v)
  /\ v.received_syn = u.received_syn /\ v.received_fin = u.received_fin
  /\ v.checkpoint = u.checkpoint
  /\ u.reassembler.next_index <= v.reassembler.next_index
  /\ stream_out(v).bytes_read = stream_out(u).bytes_read
  /\ u.reassembler.eof => v.reassembler.eof

LEMMA WithReassembler ==
  ASSUME NEW u, Sound(u), NEW x, Settled(x, RecvCapacity, Length)
  PROVE  LET v == [u EXCEPT !.reassembler = x]
         IN  /\ Sound(v) /\ v.reassembler = x
             /\ v.received_syn = u.received_syn /\ v.received_fin = u.received_fin
             /\ v.checkpoint = u.checkpoint
  <1> DEFINE v == [u EXCEPT !.reassembler = x]
  <1>1. IsReceiver(u)
    BY Zenon DEF Sound
  <1>2. /\ IsReceiver(v) /\ v.reassembler = x /\ v.capacity = u.capacity
        /\ v.received_syn = u.received_syn /\ v.received_fin = u.received_fin
        /\ v.isn = u.isn /\ v.abs_fin_seqno = u.abs_fin_seqno /\ v.checkpoint = u.checkpoint
    BY <1>1, Zenon DEF IsReceiver
  <1> HIDE DEF v
  <1>3. Sound(v)
    BY <1>2, Zenon DEF Sound
  <1> QED
    BY <1>2, <1>3, Zenon DEF v

LEMMA PushInWindowIs ==
  ASSUME NEW u, Sound(u), NEW seg, NEW index \in Nat,
         seg.payload \in Seq(Nat), Run(seg.payload, index), seg.fin \in BOOLEAN,
         index + Len(seg.payload) <= Length, seg.fin => index + Len(seg.payload) = Length
  PROVE  LET v == PushInWindow(u, seg, index)
         IN  /\ Moved(u, v)
             /\ index + 1 + Len(seg.payload) <= RightEdge(u) => (seg.fin => v.reassembler.eof)
  <1> DEFINE len == Len(seg.payload)
             room == RightEdge(u) - (index + 1)
             v == PushInWindow(u, seg, index)
             r == u.reassembler
             push(data, eof) == [u EXCEPT !.reassembler = push_substring(@, data, index, eof)]
  <1>1. len \in Nat /\ room \in Int /\ RightEdge(u) \in Int
    <2> DEFINE next == u.reassembler.next_index
               read == stream_out(u).bytes_read
    <2>1. /\ next \in Nat /\ read \in Nat /\ window_size(u) = RecvCapacity - (next - read)
          /\ get_abs_ackno(u) = IF u.received_fin /\ next = Length THEN next + 2 ELSE next + 1
      BY SoundNumbers, Zenon
    <2>2. len \in Nat
      OBVIOUS
    <2> HIDE DEF next, read, len
    <2>3. window_size(u) \in Int /\ get_abs_ackno(u) \in Int
      BY <2>1, Constants
    <2>4. RightEdge(u) \in Int
      BY <2>3 DEF RightEdge
    <2> QED
      BY <2>2, <2>4
  <1>2. Settled(r, RecvCapacity, Length) /\ IsReceiver(u)
    BY Zenon DEF Sound
  <1>3. v = CASE len <= room -> push(seg.payload, seg.fin)
              [] 0 < room /\ room < len -> push(SubSeq(seg.payload, 1, room), FALSE)
              [] OTHER -> u
    BY Zenon DEF PushInWindow, RightEdge
  <1>4. ASSUME NEW data \in Seq(Nat), NEW eof \in BOOLEAN, Run(data, index),
               index + Len(data) <= Length, eof => index + Len(data) = Length
        PROVE  Moved(u, push(data, eof)) /\ (eof => push(data, eof).reassembler.eof)
    <2> DEFINE x == push_substring(r, data, index, eof)
    <2>1. Pushed(r, x, RecvCapacity, Length, Kept(r, RecvCapacity, index, Len(data)), eof)
      BY <1>2, <1>4, Constants, PushIs, Zenon
    <2> HIDE DEF x
    <2>2. /\ Settled(x, RecvCapacity, Length) /\ r.next_index <= x.next_index
          /\ x.output.bytes_read = r.output.bytes_read /\ x.eof = (r.eof \/ eof)
      BY <2>1, Zenon DEF Pushed
    <2> DEFINE w == [u EXCEPT !.reassembler = x]
    <2>3. /\ Sound(w) /\ w.reassembler = x /\ w.checkpoint = u.checkpoint
          /\ w.received_syn = u.received_syn /\ w.received_fin = u.received_fin
      BY <2>2, WithReassembler, Zenon
    <2>4. push(data, eof) = w
      BY Zenon DEF x
    <2> HIDE DEF w, push
    <2> QED
      BY <2>2, <2>3, <2>4, Zenon DEF Moved, stream_out
  <1> HIDE DEF v, push
  <1>5. CASE len <= room
    <2>1. ~(0 < room /\ room < len)
      <3> HIDE DEF len, room
      <3> QED
        BY <1>1, <1>5
    <2>2. v = push(seg.payload, seg.fin)
      BY <1>3, <1>5, <2>1, Zenon
    <2> QED
      BY <1>4, <2>2, Zenon DEF v
  <1>6. CASE 0 < room /\ room < len
    <2>1. ~(len <= room) /\ ~(index + 1 + len <= RightEdge(u)) /\ room \in 0..len
          /\ 1 \in 1 .. len + 1 /\ room \in 1 - 1 .. len /\ room - 1 + 1 = room
          /\ \A k \in 1..room : k \in 1..len /\ 1 + k - 1 = k
      <3> DEFINE edge == RightEdge(u)
      <3> HIDE DEF len, edge
      <3> QED
        BY <1>1, <1>6 DEF edge
    <2>2. v = push(SubSeq(seg.payload, 1, room), FALSE)
      BY <1>3, <1>6, <2>1, Zenon
    <2> DEFINE data == SubSeq(seg.payload, 1, room)
    <2> HIDE DEF room
    <2>3. /\ data \in Seq(Nat) /\ Len(data) = room
          /\ \A k \in 1..room : data[k] = seg.payload[k]
      <3> DEFINE q == seg.payload
                 i == 1
      <3>1. i \in 1 .. Len(q) + 1 /\ room \in i - 1 .. Len(q)
        BY <2>1, Zenon
      <3> HIDE DEF q, i
      <3>2. q \in Seq(Nat)
        BY Zenon DEF q
      <3>3. /\ SubSeq(q, i, room) \in Seq(Nat) /\ Len(SubSeq(q, i, room)) = room - i + 1
            /\ \A k \in 1 .. room - i + 1 : SubSeq(q, i, room)[k] = q[i + k - 1]
        BY <3>1, <3>2, SubSeqIs, Zenon
      <3> QED
        BY <2>1, <3>3, Zenon DEF q, i
    <2>4. Run(data, index)
      BY <2>1, <2>3, Zenon DEF Run
    <2>5. index + Len(data) <= Length
      <3> HIDE DEF len, data
      <3>1. index + len <= Length
        BY Zenon DEF len
      <3> QED
        BY <1>1, <1>6, <2>3, <3>1, Constants
    <2> HIDE DEF data
    <2>6. Moved(u, push(data, FALSE))
      BY <1>4, <2>3, <2>4, <2>5, Zenon
    <2> QED
      BY <2>1, <2>2, <2>6, Zenon DEF v, data
  <1>7. CASE ~(len <= room) /\ ~(0 < room /\ room < len)
    <2>1. v = u
      BY <1>3, <1>7, Zenon
    <2>2. ~(index + 1 + len <= RightEdge(u))
      <3> DEFINE edge == RightEdge(u)
      <3> HIDE DEF len, edge
      <3> QED
        BY <1>1, <1>7 DEF edge
    <2>3. r.next_index <= r.next_index
      BY SoundNumbers
    <2>4. Moved(u, u)
      BY <2>3, Zenon DEF Moved
    <2> QED
      BY <2>1, <2>2, <2>4, Zenon DEF v
  <1> QED
    BY <1>5, <1>6, <1>7, Zenon


\* As bytes are written and read and the FIN is noted, neither the ackno nor
\* the right edge of the window moves left; the ackno moves by the capacity
\* and the FIN at most while nothing is read.
LEMMA EdgesGrow ==
  ASSUME NEW t, Sound(t), NEW v, Sound(v),
         t.reassembler.next_index <= v.reassembler.next_index,
         stream_out(t).bytes_read <= stream_out(v).bytes_read,
         t.received_fin => v.received_fin
  PROVE  /\ get_abs_ackno(t) <= get_abs_ackno(v) /\ RightEdge(t) <= RightEdge(v)
         /\ stream_out(t).bytes_read = stream_out(v).bytes_read =>
              get_abs_ackno(v) <= get_abs_ackno(t) + (RecvCapacity + 1)
         /\ get_abs_ackno(t) \in Nat /\ get_abs_ackno(v) \in Nat
         /\ RightEdge(t) \in Nat /\ RightEdge(v) \in Nat
         /\ RightEdge(t) <= get_abs_ackno(t) + RecvCapacity
  <1> DEFINE n == t.reassembler.next_index
             m == v.reassembler.next_index
             a == stream_out(t).bytes_read
             b == stream_out(v).bytes_read
             w == window_size(t)
             x == window_size(v)
             p == get_abs_ackno(t)
             q == get_abs_ackno(v)
             tf == t.received_fin
             vf == v.received_fin
  <1>1. /\ n \in Nat /\ n <= Length /\ a \in Nat /\ a <= n /\ n <= a + RecvCapacity
        /\ w = RecvCapacity - (n - a) /\ p = IF tf /\ n = Length THEN n + 2 ELSE n + 1
    BY SoundNumbers, Zenon
  <1>2. /\ m \in Nat /\ m <= Length /\ b \in Nat /\ b <= m /\ m <= b + RecvCapacity
        /\ x = RecvCapacity - (m - b) /\ q = IF vf /\ m = Length THEN m + 2 ELSE m + 1
    BY SoundNumbers, Zenon
  <1>3. n <= m /\ a <= b /\ (tf => vf) /\ RightEdge(t) = p + w /\ RightEdge(v) = q + x
    BY Zenon DEF RightEdge
  <1> HIDE DEF n, m, a, b, w, x, p, q, tf, vf
  <1>4. /\ p <= q /\ p \in Nat /\ q \in Nat /\ (a = b => q <= p + (RecvCapacity + 1))
        /\ p + w <= p + RecvCapacity
    BY <1>1, <1>2, <1>3, Constants
  <1>5. p + w = IF tf /\ n = Length THEN a + RecvCapacity + 2 ELSE a + RecvCapacity + 1
    BY <1>1, Constants
  <1>6. q + x = IF vf /\ m = Length THEN b + RecvCapacity + 2 ELSE b + RecvCapacity + 1
    BY <1>2, Constants
  <1>7. p + w <= q + x /\ p + w \in Nat /\ q + x \in Nat
    BY <1>1, <1>2, <1>3, <1>5, <1>6, Constants
  <1> QED
    BY <1>3, <1>4, <1>7, Zenon DEF p, q, a, b

\* A segment that may arrive is less than half the sequence space from the
\* checkpoint, so unwrap() finds the number it was sent with.
LEMMA ReadBack ==
  ASSUME Inv, NEW first \in 0 .. Length + 1, NEW last \in 0 .. Length + 1, first <= last,
         get_abs_ackno(rcv) <= first + Lag, Permitted(first, last)
  PROVE  unwrap(wrap(first, Isn), Isn, rcv.checkpoint) = first
  <1> DEFINE cp == rcv.checkpoint
             a == get_abs_ackno(rcv)
             edge == RightEdge(rcv)
             reach == 2 * RecvCapacity + Overrun + Lag
  <1>1. Sound(rcv) /\ cp \in 0 .. Length + 1
        /\ a <= cp + (Lag + RecvCapacity + 1) /\ cp <= a + (RecvCapacity + Overrun)
    BY Zenon DEF Inv, Sound, Tracked
  <1>2. a \in Nat /\ edge \in Nat /\ edge <= a + RecvCapacity
    <2> DEFINE n == rcv.reassembler.next_index
               b == stream_out(rcv).bytes_read
    <2>1. n \in Nat /\ b \in Nat
      BY <1>1, SoundNumbers, Zenon
    <2>2. n <= n /\ b <= b
      BY <2>1
    <2> QED
      BY <1>1, <2>2, EdgesGrow, Zenon
  <1>3. last < edge + Overrun \/ first = a
    BY Zenon DEF Permitted
  <1>4. a <= first + Lag
    BY Zenon
  <1> HIDE DEF cp, a, edge
  <1>5. first \in Nat /\ cp \in Nat /\ first <= cp + reach /\ cp <= first + reach /\ reach \in Nat
    BY <1>1, <1>2, <1>3, <1>4, Constants, SMTT(30), SMTT(90)
  <1>6. 2 * reach < FACTOR /\ cp + FACTOR < FACTOR * FACTOR
    <2> DEFINE W == FACTOR * FACTOR
    <2>1. Length + FACTOR + 2 < W /\ 2 * (2 * RecvCapacity + MaxPayload + Overrun + Lag) <= FACTOR /\ W \in Nat
      BY ReceivingAssumption, Constants
    <2> HIDE DEF W
    <2>2. 2 * reach < FACTOR /\ cp + FACTOR < W
      BY <1>1, <2>1, Constants
    <2> QED
      BY <2>2 DEF W
  <1> HIDE DEF reach
  <1> QED
    BY <1>5, <1>6, Constants, UnwrapWrap, Zenon DEF cp


\* What the arrival of the numbers first to last does: the checkpoint moves
\* to first unless it is the SYN, a FIN is noted, and it is passed on when it
\* is inside the window.
Accepted(t, v, first, last) ==
  /\ Sound(v) /\ v.received_syn
  /\ v.checkpoint = IF first = 0 THEN t.checkpoint ELSE first
  /\ v.received_fin = (t.received_fin \/ last = Length + 1)
  /\ t.reassembler.next_index <= v.reassembler.next_index
  /\ stream_out(v).bytes_read = stream_out(t).bytes_read
  /\ t.reassembler.eof => v.reassembler.eof
  /\ last = Length + 1 /\ last <= RightEdge(t) => v.reassembler.eof

LEMMA AcceptIs ==
  ASSUME NEW t, Sound(t), t.received_syn,
         NEW first \in 0 .. Length + 1, NEW last \in 0 .. Length + 1, first <= last,
         unwrap(wrap(first, Isn), Isn, t.checkpoint) = first
  PROVE  Accepted(t, AcceptSegment(t, Segment(first, last)), first, last)
  <1> DEFINE seg == Segment(first, last)
             index == Greatest(0, first - 1)
             at == IF first = 0 THEN t ELSE [t EXCEPT !.checkpoint = first]
             u == NoteFin(at, seg, index)
             v == PushInWindow(u, seg, index)
             len == Len(seg.payload)
  <1>1. /\ seg.seqno = wrap(first, Isn) /\ seg.syn = (first = 0) /\ seg.fin = (last = Length + 1)
        /\ index \in Nat /\ seg.payload \in Seq(Nat) /\ Run(seg.payload, index)
        /\ index + len = Least(last, Length)
    BY SegmentIs, Zenon
  <1>2. IsReceiver(t) /\ t.isn = Isn
    BY Zenon DEF Sound
  <1>3. AcceptSegment(t, seg) = v
    <2> HIDE DEF seg, index
    <2>1. unwrap(seg.seqno, t.isn, t.checkpoint) = first
      BY <1>1, <1>2, Zenon
    <2>2. AcceptSegment(t, seg) =
            IF first = 0 /\ ~seg.syn THEN t
            ELSE PushInWindow(NoteFin(IF first = 0 THEN t ELSE [t EXCEPT !.checkpoint = first],
                                      seg, index), seg, index)
      BY <2>1, Zenon DEF AcceptSegment, index
    <2> QED
      BY <1>1, <2>2, Zenon
  <1> HIDE DEF seg
  <1>4. index + len <= Length /\ (last = Length + 1 => index + len = Length) /\ len \in Nat
    <2>1. Least(last, Length) <= Length /\ (last = Length + 1 => Least(last, Length) = Length)
      BY Constants DEF Least
    <2>2. len \in Nat
      BY <1>1
    <2> QED
      BY <1>1, <2>1, <2>2, Zenon
  <1> HIDE DEF index
  <1>5. /\ Sound(at) /\ at.received_syn = t.received_syn /\ at.received_fin = t.received_fin
        /\ at.reassembler = t.reassembler
        /\ at.checkpoint = IF first = 0 THEN t.checkpoint ELSE first
    <2>1. CASE first = 0
      BY <2>1, Zenon
    <2>2. CASE first # 0
      <3> DEFINE s == [t EXCEPT !.checkpoint = first]
      <3>1. /\ IsReceiver(s) /\ s.reassembler = t.reassembler /\ s.capacity = t.capacity
            /\ s.received_syn = t.received_syn /\ s.received_fin = t.received_fin
            /\ s.isn = t.isn /\ s.abs_fin_seqno = t.abs_fin_seqno /\ s.checkpoint = first
        BY <1>2, Zenon DEF IsReceiver
      <3>2. at = s
        BY <2>2, Zenon
      <3> HIDE DEF s, at
      <3>3. Sound(s)
        BY <3>1, Zenon DEF Sound
      <3> QED
        BY <2>2, <3>1, <3>2, <3>3, Zenon
    <2> QED
      BY <2>1, <2>2, Zenon
  <1> HIDE DEF at
  <1>6. /\ Sound(u) /\ u.received_syn = t.received_syn /\ u.reassembler = t.reassembler
        /\ u.received_fin = (t.received_fin \/ last = Length + 1) /\ u.checkpoint = at.checkpoint
    <2>1. CASE seg.fin /\ ~at.received_fin
      <3> DEFINE end == index + 1 + len
                 s == [at EXCEPT !.received_fin = TRUE, !.abs_fin_seqno = end]
      <3>1. u = s
        BY <2>1, Zenon DEF NoteFin
      <3>2. IsReceiver(at)
        BY <1>5, Zenon DEF Sound
      <3>3. end = Length + 1
        <4>1. index + len = Length
          BY <1>1, <1>4, <2>1, Zenon
        <4> HIDE DEF len
        <4> QED
          BY <1>1, <1>4, <4>1, Constants
      <3> HIDE DEF end
      <3>4. /\ IsReceiver(s) /\ s.reassembler = at.reassembler /\ s.capacity = at.capacity
            /\ s.received_syn = at.received_syn /\ s.received_fin = TRUE
            /\ s.isn = at.isn /\ s.abs_fin_seqno = end /\ s.checkpoint = at.checkpoint
        BY <3>2, Zenon DEF IsReceiver
      <3> HIDE DEF s, u
      <3>5. Sound(s)
        BY <1>5, <3>3, <3>4, Zenon DEF Sound
      <3>6. TRUE = (t.received_fin \/ last = Length + 1)
        BY <1>1, <2>1, Zenon
      <3> QED
        BY <1>5, <3>1, <3>4, <3>5, <3>6, Zenon
    <2>2. CASE ~(seg.fin /\ ~at.received_fin)
      <3>1. u = at
        BY <2>2, Zenon DEF NoteFin
      <3> HIDE DEF u
      <3>2. t.received_fin \in BOOLEAN
        BY Zenon DEF Sound
      <3>3. at.received_fin = (t.received_fin \/ last = Length + 1)
        BY <1>1, <1>5, <2>2, <3>2, Zenon
      <3> QED
        BY <1>5, <3>1, <3>3, Zenon
    <2> QED
      BY <2>1, <2>2, Zenon
  <1> HIDE DEF u
  <1>7. /\ Moved(u, v) /\ (index + 1 + len <= RightEdge(u) => (seg.fin => v.reassembler.eof))
    <2>1. seg.fin \in BOOLEAN /\ (seg.fin => index + len = Length)
      BY <1>1, <1>4, Zenon
    <2> QED
      BY <1>1, <1>4, <1>6, <2>1, PushInWindowIs, Zenon
  <1> HIDE DEF v
  <1>8. RightEdge(t) <= RightEdge(u) /\ RightEdge(t) \in Nat /\ RightEdge(u) \in Nat
    <2>1. /\ t.reassembler.next_index <= u.reassembler.next_index
          /\ stream_out(t).bytes_read <= stream_out(u).bytes_read
          /\ (t.received_fin => u.received_fin)
      <3>1. t.reassembler.next_index \in Nat /\ stream_out(t).bytes_read \in Nat
        BY SoundNumbers, Zenon
      <3>2. t.reassembler.next_index <= t.reassembler.next_index
            /\ stream_out(t).bytes_read <= stream_out(t).bytes_read
        BY <3>1
      <3> QED
        BY <1>6, <3>2, Zenon DEF stream_out
    <2> QED
      BY <1>6, <2>1, EdgesGrow, Zenon
  <1>9. ASSUME last = Length + 1, last <= RightEdge(t)
        PROVE  v.reassembler.eof
    <2> DEFINE e == RightEdge(t)
               f == RightEdge(u)
    <2>1. e <= f /\ e \in Nat /\ f \in Nat /\ last <= e /\ index + len = Length
      BY <1>4, <1>8, <1>9, Zenon
    <2> HIDE DEF e, f, len
    <2>2. index + 1 + len <= f
      BY <1>1, <1>4, <1>9, <2>1, Constants
    <2> QED
      BY <1>1, <1>7, <1>9, <2>2, Zenon DEF f
  <1> QED
    BY <1>3, <1>5, <1>6, <1>7, <1>9, ZenonT(30) DEF Moved, Accepted, stream_out, seg


\* The receiver just before AcceptSegment: the SYN has been noted.
LEMMA Opened ==
  ASSUME NEW t, Sound(t), ~t.received_syn
  PROVE  LET u == [t EXCEPT !.received_syn = TRUE, !.isn = Isn]
         IN  /\ Sound(u) /\ u.received_syn /\ u.reassembler = t.reassembler
             /\ u.received_fin = t.received_fin /\ u.checkpoint = t.checkpoint
             /\ RightEdge(u) = RightEdge(t)
  <1> DEFINE u == [t EXCEPT !.received_syn = TRUE, !.isn = Isn]
  <1>1. IsReceiver(t)
    BY Zenon DEF Sound
  <1>2. /\ IsReceiver(u) /\ u.reassembler = t.reassembler /\ u.capacity = t.capacity
        /\ u.received_syn = TRUE /\ u.received_fin = t.received_fin
        /\ u.isn = Isn /\ u.abs_fin_seqno = t.abs_fin_seqno /\ u.checkpoint = t.checkpoint
    BY <1>1, Zenon DEF IsReceiver
  <1> HIDE DEF u
  <1>3. Sound(u)
    BY <1>2, Zenon DEF Sound
  <1>4. RightEdge(u) = RightEdge(t)
    BY <1>2, Zenon DEF RightEdge, get_abs_ackno, window_size, stream_out
  <1> QED
    BY <1>2, <1>3, <1>4, Zenon DEF u

LEMMA WrapZero == wrap(0, Isn) = Isn
  <1>1. Isn \in 0 .. FACTOR - 1 /\ 0 % FACTOR = 0
    BY Constants DEF Wrapping
  <1>2. Isn + 0 = Isn /\ Isn % FACTOR = Isn
    BY <1>1, Constants
  <1> QED
    BY <1>1, <1>2, Zenon DEF wrap

LEMMA ArriveAccepts ==
  ASSUME Inv, NEW first \in 0 .. Length + 1, NEW last \in 0 .. Length + 1, Arrive(first, last)
  PROVE  Accepted(rcv, rcv', first, last)
  <1> DEFINE seg == Segment(first, last)
             cp == rcv.checkpoint
  <1>1. /\ first <= last /\ get_abs_ackno(rcv) <= first + Lag /\ Permitted(first, last)
        /\ (first > 0 => rcv.received_syn) /\ rcv' = receiver_segment_received(rcv, seg)
    BY Zenon DEF Arrive
  <1>2. unwrap(wrap(first, Isn), Isn, cp) = first
    BY <1>1, ReadBack, Zenon
  <1>3. seg.seqno = wrap(first, Isn) /\ seg.syn = (first = 0)
    BY <1>1, SegmentIs, Zenon
  <1>4. Sound(rcv)
    BY Zenon DEF Inv
  <1> HIDE DEF seg
  <1>5. CASE rcv.received_syn
    <2>1. rcv' = AcceptSegment(rcv, seg)
      BY <1>1, <1>5, Zenon DEF receiver_segment_received
    <2>2. Accepted(rcv, AcceptSegment(rcv, Segment(first, last)), first, last)
      BY <1>1, <1>2, <1>4, <1>5, AcceptIs, Zenon
    <2> QED
      BY <2>1, <2>2, Zenon DEF seg
  <1>6. CASE ~rcv.received_syn
    <2> DEFINE u == [rcv EXCEPT !.received_syn = TRUE, !.isn = Isn]
    <2>1. first = 0
      <3>1. ~(first > 0)
        BY <1>1, <1>6, Zenon
      <3> QED
        BY <3>1, Constants
    <2>2. rcv' = AcceptSegment(u, seg)
      <3>1. seg.syn /\ seg.seqno = Isn
        BY <1>3, <2>1, WrapZero, Zenon
      <3> QED
        BY <1>1, <1>6, <3>1, Zenon DEF receiver_segment_received
    <2>3. /\ Sound(u) /\ u.received_syn /\ u.reassembler = rcv.reassembler
          /\ u.received_fin = rcv.received_fin /\ u.checkpoint = cp
          /\ RightEdge(u) = RightEdge(rcv)
      BY <1>4, <1>6, Opened, Zenon
    <2> HIDE DEF u
    <2>4. unwrap(wrap(first, Isn), Isn, u.checkpoint) = first
      BY <1>2, <2>3, Zenon
    <2>5. Accepted(u, AcceptSegment(u, Segment(first, last)), first, last)
      BY <1>1, <2>3, <2>4, AcceptIs, Zenon
    <2>6. Accepted(u, rcv', first, last)
      BY <2>2, <2>5, Zenon DEF seg
    <2> QED
      BY <2>3, <2>6, Zenon DEF Accepted, stream_out
  <1> QED
    BY <1>5, <1>6, Zenon


\* What a read does: only bytes_read moves.
LEMMA ReadMoves ==
  ASSUME Inv, NEW len \in 1..RecvCapacity, Read(len)
  PROVE  /\ Sound(rcv') /\ rcv'.checkpoint = rcv.checkpoint
         /\ rcv'.received_syn = rcv.received_syn /\ rcv'.received_fin = rcv.received_fin
         /\ rcv'.reassembler.next_index = rcv.reassembler.next_index
         /\ rcv'.reassembler.eof = rcv.reassembler.eof
         /\ stream_out(rcv').bytes_read = stream_out(rcv).bytes_read + len
  <1> DEFINE r == rcv.reassembler
             x == [r EXCEPT !.output = PopStream(@, len)]
             v == [rcv EXCEPT !.reassembler = x]
  <1>1. len \in Nat
    BY Constants
  <1>2. len <= Len(r.output.queue) /\ rcv' = v
    BY Zenon DEF Read, stream_out, BufferSize
  <1>3. Sound(rcv) /\ Settled(r, RecvCapacity, Length)
    BY Zenon DEF Inv, Sound
  <1>4. Popped(r, x, RecvCapacity, Length, len)
    BY <1>1, <1>2, <1>3, Constants, PopIs, Zenon
  <1> HIDE DEF x
  <1>5. /\ Settled(x, RecvCapacity, Length) /\ x.next_index = r.next_index /\ x.eof = r.eof
        /\ x.output.bytes_read = r.output.bytes_read + len
    BY <1>4, Zenon DEF Popped
  <1>6. /\ Sound(v) /\ v.reassembler = x /\ v.checkpoint = rcv.checkpoint
        /\ v.received_syn = rcv.received_syn /\ v.received_fin = rcv.received_fin
    BY <1>3, <1>5, WithReassembler, Zenon
  <1> HIDE DEF v
  <1> QED
    BY <1>2, <1>5, <1>6, Zenon DEF stream_out

-----------------------------------------------------------------------------
(* The invariant.                                                          *)

LEMMA InitInv == ReceivingInit => Inv
  <1> SUFFICES ASSUME ReceivingInit
               PROVE  Inv
    OBVIOUS
  <1> DEFINE r == NewReassembler(RecvCapacity)
  <1>1. Settled(r, RecvCapacity, Length) /\ r.next_index = 0 /\ r.output.bytes_read = 0
    BY Constants, NewIs, Zenon
  <1>2. rcv = [reassembler |-> r, capacity |-> RecvCapacity, received_syn |-> FALSE,
               received_fin |-> FALSE, isn |-> 0, abs_fin_seqno |-> 0, checkpoint |-> 0]
    BY Zenon DEF ReceivingInit, NewReceiver
  <1> HIDE DEF r
  <1>3. /\ rcv.reassembler = r /\ rcv.capacity = RecvCapacity /\ rcv.received_syn = FALSE
        /\ rcv.received_fin = FALSE /\ rcv.isn = 0 /\ rcv.abs_fin_seqno = 0 /\ rcv.checkpoint = 0
    BY <1>2, Zenon
  <1>4. IsReceiver(rcv)
    BY <1>2, <1>3, Zenon DEF IsReceiver
  <1>5. 0 \in 0 .. Length + 1
    BY Constants
  <1>6. Sound(rcv)
    BY <1>1, <1>3, <1>4, <1>5, Zenon DEF Sound
  <1>7. get_abs_ackno(rcv) = 0 + 1
    BY <1>1, <1>3, <1>6, SoundNumbers, Zenon
  <1>8. Tracked(rcv)
    BY <1>3, <1>7, Constants DEF Tracked
  <1> QED
    BY <1>3, <1>6, <1>8, Zenon DEF Inv, FinPassedOn

\* Both kinds of step move the receiver forward.
Forward(t, v) ==
  /\ Sound(t) /\ Sound(v)
  /\ t.reassembler.next_index <= v.reassembler.next_index
  /\ stream_out(t).bytes_read <= stream_out(v).bytes_read
  /\ t.received_fin => v.received_fin

LEMMA StepForward ==
  ASSUME Inv, ReceivingNext
  PROVE  Forward(rcv, rcv')
  <1> DEFINE n == rcv.reassembler.next_index
             b == stream_out(rcv).bytes_read
  <1>1. Sound(rcv) /\ rcv.received_fin \in BOOLEAN
    BY Zenon DEF Inv, Sound
  <1>2. n \in Nat /\ b \in Nat
    BY <1>1, SoundNumbers, Zenon
  <1>3. n <= n /\ b <= b
    BY <1>2
  <1>4. ASSUME NEW first \in 0 .. Length + 1, NEW last \in 0 .. Length + 1, Arrive(first, last)
        PROVE  Forward(rcv, rcv')
    <2>1. Accepted(rcv, rcv', first, last)
      BY <1>4, ArriveAccepts, Zenon
    <2> QED
      BY <1>1, <1>3, <2>1, Zenon DEF Accepted, Forward
  <1>5. ASSUME NEW len \in 1..RecvCapacity, Read(len)
        PROVE  Forward(rcv, rcv')
    <2>1. b <= b + len
      BY <1>2, Constants
    <2> QED
      BY <1>1, <1>3, <1>5, <2>1, ReadMoves, Zenon DEF Forward
  <1> QED
    BY <1>4, <1>5, Zenon DEF ReceivingNext


LEMMA ArriveInv ==
  ASSUME Inv, NEW first \in 0 .. Length + 1, NEW last \in 0 .. Length + 1, Arrive(first, last)
  PROVE  Inv'
  <1> DEFINE cp == rcv.checkpoint
             dp == rcv'.checkpoint
             a == get_abs_ackno(rcv)
             b == get_abs_ackno(rcv')
             edge == RightEdge(rcv)
  <1>1. Accepted(rcv, rcv', first, last)
    BY ArriveAccepts, Zenon
  <1>2. /\ Sound(rcv') /\ rcv'.received_syn /\ dp = IF first = 0 THEN cp ELSE first
        /\ rcv'.received_fin = (rcv.received_fin \/ last = Length + 1)
        /\ stream_out(rcv').bytes_read = stream_out(rcv).bytes_read
        /\ (rcv.reassembler.eof => rcv'.reassembler.eof)
        /\ (last = Length + 1 /\ last <= edge => rcv'.reassembler.eof)
    BY <1>1, Zenon DEF Accepted
  <1>3. Forward(rcv, rcv')
    BY StepForward, Zenon DEF ReceivingNext
  <1>4. /\ a <= b /\ b <= a + (RecvCapacity + 1) /\ a \in Nat /\ b \in Nat
        /\ edge \in Nat /\ edge <= a + RecvCapacity
    BY <1>2, <1>3, EdgesGrow, Zenon DEF Forward
  <1>5. /\ first <= last /\ a <= first + Lag
        /\ (last < edge + Overrun \/ (window_size(rcv) = 0 /\ first = last /\ first = a))
    BY Zenon DEF Arrive, Permitted
  <1>6. /\ cp \in 0 .. Length + 1
        /\ a <= cp + (Lag + RecvCapacity + 1) /\ cp <= a + (RecvCapacity + Overrun)
    BY Zenon DEF Inv, Sound, Tracked
  <1> HIDE DEF cp, dp, a, b
  <1>7. b <= dp + (Lag + RecvCapacity + 1) /\ dp <= b + (RecvCapacity + Overrun)
    <2>1. edge \in Nat
      BY <1>4
    <2> HIDE DEF edge
    <2>2. CASE first = 0
      BY <1>2, <1>4, <1>5, <1>6, <2>2, Constants
    <2>3. CASE first # 0
      BY <1>2, <1>4, <1>5, <1>6, <2>3, Constants
    <2> QED
      BY <2>2, <2>3
  <1>8. Tracked(rcv')
    BY <1>2, <1>7, Zenon DEF Tracked, b, dp
  <1>9. ASSUME Overrun = 0, rcv'.received_fin
        PROVE  rcv'.reassembler.eof
    <2>1. CASE rcv.received_fin
      BY <1>2, <1>9, <2>1, Zenon DEF Inv, FinPassedOn
    <2>2. CASE last = Length + 1
      <3>1. last <= edge
        <4>1. CASE last < edge + Overrun
          <5> HIDE DEF edge
          <5> QED
            BY <1>4, <1>9, <4>1, Constants
        <4>2. CASE window_size(rcv) = 0 /\ first = last /\ first = a
          <5>1. edge = a + 0
            BY <4>2, Zenon DEF RightEdge, a
          <5> HIDE DEF edge
          <5> QED
            BY <1>4, <4>2, <5>1
        <4> QED
          BY <1>5, <4>1, <4>2
      <3> QED
        BY <1>2, <2>2, <3>1, Zenon
    <2> QED
      BY <1>2, <1>9, <2>1, <2>2, Zenon
  <1> QED
    BY <1>2, <1>8, <1>9, Zenon DEF Inv, FinPassedOn

LEMMA ReadInv ==
  ASSUME Inv, NEW len \in 1..RecvCapacity, Read(len)
  PROVE  Inv'
  <1>1. /\ Sound(rcv') /\ rcv'.checkpoint = rcv.checkpoint
        /\ rcv'.received_syn = rcv.received_syn /\ rcv'.received_fin = rcv.received_fin
        /\ rcv'.reassembler.next_index = rcv.reassembler.next_index
        /\ rcv'.reassembler.eof = rcv.reassembler.eof
    BY ReadMoves, Zenon
  <1>2. get_abs_ackno(rcv') = get_abs_ackno(rcv)
    <2> DEFINE n == rcv.reassembler.next_index
               number == IF rcv.received_fin /\ n = Length THEN n + 2 ELSE n + 1
    <2>1. Sound(rcv)
      BY Zenon DEF Inv
    <2>2. get_abs_ackno(rcv) = number
      BY <2>1, SoundNumbers, Zenon
    <2>3. get_abs_ackno(rcv') = number
      BY <1>1, SoundNumbers, Zenon
    <2> HIDE DEF number
    <2> QED
      BY <2>2, <2>3, Zenon
  <1> QED
    BY <1>1, <1>2, Zenon DEF Inv, Tracked, FinPassedOn

LEMMA NextInv == Inv /\ [ReceivingNext]_rcv => Inv'
  <1> SUFFICES ASSUME Inv, [ReceivingNext]_rcv
               PROVE  Inv'
    OBVIOUS
  <1>1. ASSUME NEW first \in 0 .. Length + 1, NEW last \in 0 .. Length + 1, Arrive(first, last)
        PROVE  Inv'
    BY <1>1, ArriveInv, Zenon
  <1>2. ASSUME NEW len \in 1..RecvCapacity, Read(len)
        PROVE  Inv'
    BY <1>2, ReadInv, Zenon
  <1>3. CASE UNCHANGED rcv
    BY <1>3, Zenon DEF Inv
  <1> QED
    BY <1>1, <1>2, <1>3, Zenon DEF ReceivingNext

LEMMA SpecInv == ReceivingSpec => []Inv
  BY InitInv, NextInv, PTL DEF ReceivingSpec

-----------------------------------------------------------------------------
(* The properties.                                                         *)

\* However often the sequence number wraps, and however duplicates move the
\* checkpoint back, the output of the receiver is the next piece of the
\* stream and every stored substring is at its index.
THEOREM BytesAlwaysInPlace == ReceivingSpec => []BytesInPlace
  <1>1. Inv => BytesInPlace
    <2> SUFFICES ASSUME Inv
                 PROVE  BytesInPlace
      OBVIOUS
    <2> DEFINE r == rcv.reassembler
               s == stream_out(rcv)
               q == s.queue
               datas == r.datas
    <2>1. Exact(s, RecvCapacity, r.next_index) /\ Slices(datas, r.next_index, Length)
      BY Zenon DEF Inv, Sound, Settled, Ready, Open, stream_out
    <2>2. q \in Seq(Nat) /\ \A k \in 1..Len(q) : q[k] = s.bytes_read + k - 1
      BY <2>1, Zenon DEF Exact, Run
    <2>3. q = [k \in 1..Len(q) |-> s.bytes_read + k - 1]
      <3> HIDE DEF q
      <3>1. q = [k \in 1..Len(q) |-> q[k]]
        BY <2>2
      <3> QED
        BY <2>2, <3>1, Zenon
    <2>4. ASSUME NEW b \in DOMAIN datas
          PROVE  datas[b][1] = b
      <3>1. /\ datas[b] \in Seq(Nat) /\ Len(datas[b]) > 0
            /\ \A k \in 1..Len(datas[b]) : datas[b][k] = b + k - 1
        BY <2>1, Zenon DEF Slices, Slice, Run
      <3>2. b \in Nat
        <4>1. r.next_index \in Nat
          BY SoundNumbers, Zenon DEF Inv
        <4>2. DOMAIN datas \subseteq r.next_index .. Length - 1
          BY <2>1, Zenon DEF Slices
        <4> HIDE DEF datas, r
        <4> QED
          BY <4>1, <4>2, Constants
      <3>3. 1 \in 1..Len(datas[b]) /\ b + 1 - 1 = b
        BY <3>1, <3>2
      <3> QED
        BY <3>1, <3>3, Zenon
    <2> QED
      BY <2>3, <2>4, Zenon DEF BytesInPlace, BufferSize
  <1> QED
    BY <1>1, SpecInv, PTL

\* Whatever arrives and whatever the application reads, the peer is never
\* told a smaller ackno + window_size than before.
THEOREM WindowEdgeNeverShrinks == ReceivingSpec => WindowNeverShrinks
  <1>1. Inv /\ [ReceivingNext]_rcv => [RightEdge(rcv)' >= RightEdge(rcv)]_rcv
    <2> SUFFICES ASSUME Inv, ReceivingNext
                 PROVE  RightEdge(rcv)' >= RightEdge(rcv)
      OBVIOUS
    <2>1. Forward(rcv, rcv')
      BY StepForward, Zenon
    <2>2. RightEdge(rcv) <= RightEdge(rcv') /\ RightEdge(rcv) \in Nat /\ RightEdge(rcv') \in Nat
      BY <2>1, EdgesGrow, Zenon DEF Forward
    <2> DEFINE e == RightEdge(rcv)
               f == RightEdge(rcv')
    <2>3. RightEdge(rcv)' = f
      BY Zenon
    <2>4. f >= e
      <3>1. e <= f /\ e \in Nat /\ f \in Nat
        BY <2>2, Zenon
      <3> HIDE DEF e, f
      <3> QED
        BY <3>1
    <2> QED
      BY <2>3, <2>4, Zenon
  <1> QED
    BY <1>1, SpecInv, PTL DEF ReceivingSpec, WindowNeverShrinks

\* When the peer keeps to the window it is told, as the TCPSender of this
\* repository does, the FIN is acknowledged only once the reader has the end
\* of the stream.
THEOREM AckedFinAlwaysEnd ==
  ASSUME Overrun = 0
  PROVE  ReceivingSpec => []AckedFinIsEnd
  <1>1. Inv => AckedFinIsEnd
    <2> SUFFICES ASSUME Inv, get_abs_ackno(rcv) = Length + 2
                 PROVE  stream_out(rcv).input_ended
      BY Zenon DEF AckedFinIsEnd
    <2> DEFINE r == rcv.reassembler
               n == r.next_index
               a == get_abs_ackno(rcv)
    <2>1. Sound(rcv) /\ (rcv.received_fin => r.eof)
      BY Zenon DEF Inv, FinPassedOn
    <2>2. /\ n \in Nat /\ n <= Length
          /\ a = IF rcv.received_fin /\ n = Length THEN n + 2 ELSE n + 1
      BY <2>1, SoundNumbers, Zenon
    <2>3. a = Length + 2
      BY Zenon
    <2> HIDE DEF n, a
    <2>4. rcv.received_fin /\ n = Length
      BY <2>2, <2>3, Constants
    <2> QED
      BY <2>1, <2>4, Zenon DEF Sound, Settled, Ready, stream_out, n
  <1> QED
    BY <1>1, SpecInv, PTL
=============================================================================
