--------------------------- MODULE SendingProofs ---------------------------
(***************************************************************************)
(* Proofs about TCPSender at work (module Sending), for every window,      *)
(* payload size, timeout and stream.                                       *)
(***************************************************************************)
EXTENDS Sending, SequenceTheorems, WellFoundedInduction, TLAPS

TimerSet == [rto : Nat \ {0}, countdown : Nat, timing : BOOLEAN, consecutive_rx : Nat]

SegmentSet ==
  [seqno : Int, syn : BOOLEAN, fin : BOOLEAN, payload : Seq(Int),
   rst : BOOLEAN, ack : BOOLEAN, ackno : Int, win : Int]

OutstandingSet == [abs_seqno : Nat, segment : SegmentSet]

StreamSet ==
  [capacity : Nat, queue : Seq(Int), bytes_written : Int, bytes_read : Int,
   input_ended : BOOLEAN, error : BOOLEAN]

\* The values of bytes_in_flight are left open here: FlightExact says
\* what they are.
SenderSet(Flight) ==
  [isn : Wrapping, initial_timeout : Nat \ {0}, timer : TimerSet, stream : StreamSet,
   next_seqno : Nat, sent_syn : BOOLEAN, sent_all : BOOLEAN,
   window_begin : Nat, window_size : Nat \ {0}, actual_zero_window_size : BOOLEAN,
   bytes_in_flight : Flight, checkpoint : Nat,
   outstanding_segs : Seq(OutstandingSet), segments_out : Seq(SegmentSet)]

IsSender(s) == s \in SenderSet({s.bytes_in_flight})

LEMMA SenderFields ==
  ASSUME NEW s, IsSender(s)
  PROVE  /\ s.isn \in Wrapping /\ s.initial_timeout \in Nat \ {0}
         /\ s.timer \in TimerSet /\ s.stream \in StreamSet
         /\ s.next_seqno \in Nat /\ s.checkpoint \in Nat
         /\ s.sent_syn \in BOOLEAN /\ s.sent_all \in BOOLEAN
         /\ s.window_begin \in Nat /\ s.window_size \in Nat \ {0}
         /\ s.outstanding_segs \in Seq(OutstandingSet) /\ s.segments_out \in Seq(SegmentSet)
  BY Zenon DEF IsSender, SenderSet

\* The fields of a sender after send(), which appends a batch.
LEMMA SendFields ==
  ASSUME NEW s, IsSender(s), NEW batch, batch # <<>>, NEW t, t = send(s, batch)
  PROVE  /\ t.checkpoint = s.checkpoint
         /\ t.next_seqno = abs_seqno_at_end(batch[Len(batch)])
         /\ t.outstanding_segs = s.outstanding_segs \o batch
         /\ t.timer = IF s.timer.timing THEN s.timer ELSE begin_timing(s.timer)
<1>1. t.checkpoint = s.checkpoint
  BY ZenonT(30) DEF IsSender, SenderSet, send
<1>2. t.next_seqno = abs_seqno_at_end(batch[Len(batch)])
  BY ZenonT(30) DEF IsSender, SenderSet, send
<1>3. t.outstanding_segs = s.outstanding_segs \o batch
  BY ZenonT(30) DEF IsSender, SenderSet, send
<1>4. t.timer = IF s.timer.timing THEN s.timer ELSE begin_timing(s.timer)
  BY ZenonT(30) DEF IsSender, SenderSet, send
<1> QED BY <1>1, <1>2, <1>3, <1>4

\* UnackedIsOutstanding and TimerRunsIffOutstanding of any sender.
Covered(s) ==
  /\ s.outstanding_segs = <<>> => s.checkpoint = s.next_seqno
  /\ s.outstanding_segs # <<>> =>
       /\ s.outstanding_segs[1].abs_seqno <= s.checkpoint
       /\ s.checkpoint < abs_seqno_at_end(s.outstanding_segs[1])
       /\ abs_seqno_at_end(s.outstanding_segs[Len(s.outstanding_segs)]) = s.next_seqno
  /\ \A k \in 1 .. Len(s.outstanding_segs) - 1 :
       abs_seqno_at_end(s.outstanding_segs[k]) = s.outstanding_segs[k + 1].abs_seqno

Timed(s) ==
  /\ s.timer.timing <=> s.outstanding_segs # <<>>
  /\ s.timer.timing => s.timer.countdown > 0

Inv(s) == IsSender(s) /\ s.checkpoint <= s.next_seqno /\ Covered(s) /\ Timed(s)

\* Inv depends on four fields only.
LEMMA InvFrom ==
  ASSUME NEW s, NEW t, Inv(s), IsSender(t), t.checkpoint = s.checkpoint,
         t.next_seqno = s.next_seqno, t.outstanding_segs = s.outstanding_segs, t.timer = s.timer
  PROVE  Inv(t)
  BY Zenon DEF Inv, Covered, Timed

LEMMA EndNat ==
  ASSUME NEW o \in OutstandingSet
  PROVE  /\ abs_seqno_at_end(o) \in Nat /\ abs_seqno_at_end(o) >= o.abs_seqno
         /\ length_in_sequence_space(o.segment) \in Nat
<1>1. o.abs_seqno \in Nat /\ o.segment.payload \in Seq(Int)
  BY Zenon DEF OutstandingSet, SegmentSet
<1>2. Len(o.segment.payload) \in Nat
  BY <1>1
<1>3. Flag(o.segment.syn) \in Nat /\ Flag(o.segment.fin) \in Nat
  BY DEF Flag
<1> DEFINE syn == Flag(o.segment.syn)
           fin == Flag(o.segment.fin)
           len == Len(o.segment.payload)
           length == length_in_sequence_space(o.segment)
<1>4. length = len + syn + fin /\ abs_seqno_at_end(o) = o.abs_seqno + length
  BY Zenon DEF abs_seqno_at_end, length_in_sequence_space
<1> HIDE DEF syn, fin, len, length
<1>5. syn \in Nat /\ fin \in Nat /\ len \in Nat
  BY <1>2, <1>3 DEF syn, fin, len
<1>6. length \in Nat
  BY <1>4, <1>5
<1> QED
  BY <1>1, <1>4, <1>6 DEF length

\* A batch that continues the outstanding segments without gap.
GoodBatch(s, batch) ==
  /\ batch \in Seq(OutstandingSet) /\ batch # <<>>
  /\ batch[1].abs_seqno = s.next_seqno /\ s.next_seqno < abs_seqno_at_end(batch[1])
  /\ s.next_seqno <= abs_seqno_at_end(batch[Len(batch)])
  /\ \A k \in 1 .. Len(batch) - 1 : abs_seqno_at_end(batch[k]) = batch[k + 1].abs_seqno

LEMMA SendIsSender ==
  ASSUME NEW s, IsSender(s), NEW batch \in Seq(OutstandingSet), batch # <<>>
  PROVE  IsSender(send(s, batch))
<1> DEFINE t == send(s, batch)
<1>1. abs_seqno_at_end(batch[Len(batch)]) \in Nat
  <2>1. batch[Len(batch)] \in OutstandingSet
    OBVIOUS
  <2> QED BY <2>1, EndNat
<1>2. s.outstanding_segs \o batch \in Seq(OutstandingSet)
  <2>1. s.outstanding_segs \in Seq(OutstandingSet)
    BY SenderFields, Zenon
  <2> QED BY <2>1
<1>3. s.segments_out \o [k \in DOMAIN batch |-> batch[k].segment] \in Seq(SegmentSet)
  <2>1. s.segments_out \in Seq(SegmentSet)
    BY SenderFields, Zenon
  <2>2. \A k \in DOMAIN batch : batch[k].segment \in SegmentSet
    <3>1. \A k \in DOMAIN batch : batch[k] \in OutstandingSet
      OBVIOUS
    <3> QED BY <3>1, Zenon DEF OutstandingSet
  <2>3. [k \in DOMAIN batch |-> batch[k].segment] \in Seq(SegmentSet)
    BY <2>2
  <2> QED BY <2>1, <2>3
<1>4. s.timer \in TimerSet
  BY SenderFields, Zenon
<1>5. begin_timing(s.timer) \in TimerSet
  BY <1>4 DEF TimerSet, begin_timing
<1>6. t.timer \in TimerSet
  <2>1. t = send(s, batch)
    OBVIOUS
  <2> HIDE DEF t
  <2>2. t.timer = IF s.timer.timing THEN s.timer ELSE begin_timing(s.timer)
    BY <2>1, SendFields
  <2> QED BY <1>4, <1>5, <2>2, Zenon
<1> QED
  BY <1>1, <1>2, <1>3, <1>6, ZenonT(60) DEF IsSender, SenderSet, send

\* Sending a good batch: the outstanding segments stay without gap, and the
\* timer is started if it was not running.
LEMMA SendInv ==
  ASSUME NEW s, Inv(s), NEW batch, GoodBatch(s, batch)
  PROVE  Inv(send(s, batch))
<1> DEFINE t == send(s, batch)
           old == s.outstanding_segs
           new == t.outstanding_segs
<1>1. /\ IsSender(s) /\ Covered(s) /\ Timed(s) /\ s.checkpoint <= s.next_seqno
      /\ batch \in Seq(OutstandingSet) /\ batch # <<>>
  BY DEF Inv, GoodBatch
<1>2. IsSender(t)
  BY <1>1, SendIsSender
<1>3. /\ t.checkpoint = s.checkpoint /\ new = old \o batch
      /\ t.next_seqno = abs_seqno_at_end(batch[Len(batch)])
      /\ t.timer = IF s.timer.timing THEN s.timer ELSE begin_timing(s.timer)
  <2>1. t = send(s, batch) /\ IsSender(s) /\ batch # <<>>
    BY <1>1
  <2> HIDE DEF t
  <2> QED BY <2>1, SendFields
<1> HIDE DEF t
<1>4. /\ old \in Seq(OutstandingSet) /\ s.timer \in TimerSet
      /\ s.checkpoint \in Nat /\ s.next_seqno \in Nat /\ t.next_seqno \in Nat
  BY <1>1, <1>2, SenderFields, Zenon
<1> HIDE DEF old, new
<1>5. t.checkpoint <= t.next_seqno
  BY <1>1, <1>3, <1>4 DEF GoodBatch
<1>6. /\ new # <<>> /\ Len(new) = Len(old) + Len(batch) /\ Len(batch) > 0
      /\ \A k \in 1..Len(old) : new[k] = old[k]
      /\ \A k \in 1..Len(batch) : new[Len(old) + k] = batch[k]
  BY <1>1, <1>3, <1>4
<1>7. Timed(t)
  BY <1>1, <1>3, <1>4, <1>6 DEF Timed, begin_timing, TimerSet, new, old
<1>8. /\ new[1].abs_seqno <= t.checkpoint
      /\ t.checkpoint < abs_seqno_at_end(new[1])
  <2>1. CASE old = <<>>
    BY <2>1, <1>1, <1>3, <1>4, <1>6 DEF Covered, GoodBatch, old
  <2>2. CASE old # <<>>
    BY <2>2, <1>1, <1>3, <1>4, <1>6 DEF Covered, old
  <2> QED BY <2>1, <2>2
<1>9. abs_seqno_at_end(new[Len(new)]) = t.next_seqno
  BY <1>3, <1>4, <1>6, <1>1
<1>10. ASSUME NEW k \in 1 .. Len(new) - 1
       PROVE  abs_seqno_at_end(new[k]) = new[k + 1].abs_seqno
  <2> Len(old) \in Nat /\ Len(batch) \in Nat
    BY <1>1, <1>4
  <2>0. /\ \A i \in 1 .. Len(old) - 1 : abs_seqno_at_end(old[i]) = old[i + 1].abs_seqno
        /\ old # <<>> => abs_seqno_at_end(old[Len(old)]) = s.next_seqno
        /\ batch[1].abs_seqno = s.next_seqno
    BY <1>1, Zenon DEF Covered, GoodBatch, old
  <2>1. CASE k < Len(old)
    <3>1. k \in 1 .. Len(old) - 1 /\ k \in 1..Len(old) /\ k + 1 \in 1..Len(old)
      BY <2>1
    <3>2. new[k] = old[k] /\ new[k + 1] = old[k + 1]
      BY <3>1, <1>6, Zenon
    <3> QED BY <3>1, <3>2, <2>0, Zenon
  <2>2. CASE k = Len(old)
    <3>1. k \in 1..Len(old) /\ old # <<>> /\ 1 \in 1..Len(batch)
      BY <2>2, <1>6, <1>4
    <3>2. new[k] = old[Len(old)] /\ new[k + 1] = batch[1]
      BY <3>1, <2>2, <1>6
    <3> QED BY <3>1, <3>2, <2>0, Zenon
  <2>3. CASE k > Len(old)
    <3> DEFINE j == k - Len(old)
    <3>1. j \in 1 .. Len(batch) - 1 /\ k = Len(old) + j /\ k + 1 = Len(old) + (j + 1)
      BY <2>3, <1>1, <1>4, <1>6
    <3> HIDE DEF j
    <3>2. new[k] = batch[j] /\ new[k + 1] = batch[j + 1]
      BY <3>1, <1>1, <1>6
    <3> QED BY <3>1, <3>2 DEF GoodBatch
  <2> QED BY <2>1, <2>2, <2>3, <1>4
<1>11. Covered(t)
  BY <1>6, <1>8, <1>9, <1>10 DEF Covered, new
<1> QED
  BY <1>2, <1>5, <1>7, <1>11 DEF Inv, t

LEMMA ModNat == ASSUME NEW a \in Int, NEW f \in Nat \ {0} PROVE a % f \in Nat
  OBVIOUS

LEMMA WrapInt == ASSUME NEW n \in Nat, NEW isn \in Wrapping PROVE wrap(n, isn) \in Int
<1>1. isn \in Int /\ FACTOR \in Nat \ {0} /\ n \in Int
  BY FactorAssumption DEF Wrapping
<1>2. n % FACTOR \in Nat
  BY <1>1, ModNat
<1>3. isn + (n % FACTOR) \in Int
  BY <1>1, <1>2
<1> QED BY <1>1, <1>3, ModNat DEF wrap

\* What a segment made by Outstanding() occupies.
LEMMA OutstandingFacts ==
  ASSUME NEW s, IsSender(s), NEW offset \in Nat, NEW syn \in BOOLEAN, NEW fin \in BOOLEAN,
         NEW payload \in Seq(Int)
  PROVE  LET o == Outstanding(s, offset, syn, fin, payload)
         IN  /\ o \in OutstandingSet /\ o.abs_seqno = s.next_seqno + offset
             /\ abs_seqno_at_end(o) = s.next_seqno + offset + (Len(payload) + Flag(syn) + Flag(fin))
<1> DEFINE n == s.next_seqno + offset
           seqno == wrap(n, s.isn)
           seg == Segment(seqno, syn, fin, payload)
           o == Outstanding(s, offset, syn, fin, payload)
<1>1. s.next_seqno \in Nat /\ s.isn \in Wrapping
  BY SenderFields, Zenon
<1>2. n \in Nat
  BY <1>1
<1>3. seqno \in Int
  BY <1>1, <1>2, WrapInt
<1>4. o = [abs_seqno |-> n, segment |-> seg]
  BY Zenon DEF Outstanding
<1> HIDE DEF n, seqno, o
<1>5. seg \in SegmentSet
  BY <1>3 DEF SegmentSet, Segment
<1>6. seg.payload = payload /\ seg.syn = syn /\ seg.fin = fin
  BY Zenon DEF Segment
<1> HIDE DEF seg
<1>7. o \in OutstandingSet /\ o.abs_seqno = n /\ o.segment = seg
  BY <1>2, <1>4, <1>5 DEF OutstandingSet
<1>8. abs_seqno_at_end(o) = n + (Len(payload) + Flag(syn) + Flag(fin))
  BY <1>6, <1>7, Zenon DEF abs_seqno_at_end, length_in_sequence_space
<1> QED
  BY <1>7, <1>8 DEF n, o

\* connect() and the FIN of an empty stream send one segment of one number.
LEMMA OneNumberInv ==
  ASSUME NEW s, Inv(s), NEW syn \in BOOLEAN, NEW fin \in BOOLEAN, Flag(syn) + Flag(fin) = 1
  PROVE  Inv(send(s, <<Outstanding(s, 0, syn, fin, <<>>)>>))
<1> DEFINE none == <<>>
           zero == 0
           o == Outstanding(s, zero, syn, fin, none)
           batch == <<o>>
<1>1. IsSender(s) /\ s.next_seqno \in Nat
  BY SenderFields, Zenon DEF Inv
<1>2. Len(none) = 0 /\ zero = 0
  OBVIOUS
<1>2a. zero \in Nat /\ none \in Seq(Int)
  OBVIOUS
<1>2b. IsSender(s)
  BY <1>1
<1> HIDE DEF none, zero
<1>3. /\ o \in OutstandingSet /\ o.abs_seqno = s.next_seqno + zero
      /\ abs_seqno_at_end(o) = s.next_seqno + zero + (Len(none) + Flag(syn) + Flag(fin))
  BY <1>2a, <1>2b, OutstandingFacts, SMT, SMTT(90)
<1> HIDE DEF o
<1>4. batch \in Seq(OutstandingSet) /\ batch # <<>> /\ Len(batch) = 1 /\ batch[1] = o
  BY <1>3
<1>5. o.abs_seqno = s.next_seqno /\ abs_seqno_at_end(o) = s.next_seqno + 1
  <2>1. Flag(syn) \in Nat /\ Flag(fin) \in Nat
    BY DEF Flag
  <2> QED BY <2>1, <1>1, <1>2, <1>3
<1> HIDE DEF batch
<1>6. GoodBatch(s, batch)
  BY <1>1, <1>4, <1>5 DEF GoodBatch
<1>7. Inv(send(s, batch))
  BY <1>6, SendInv
<1> QED
  BY <1>7 DEF batch, o, none, zero

LEMMA SetSentSyn ==
  ASSUME NEW s, Inv(s)
  PROVE  Inv([s EXCEPT !.sent_syn = TRUE])
<1> DEFINE t == [s EXCEPT !.sent_syn = TRUE]
<1>1. IsSender(s)
  BY DEF Inv
<1>2. /\ IsSender(t) /\ t.checkpoint = s.checkpoint /\ t.next_seqno = s.next_seqno
      /\ t.outstanding_segs = s.outstanding_segs /\ t.timer = s.timer
  BY <1>1, Zenon DEF IsSender, SenderSet
<1> QED BY <1>2, InvFrom, Zenon

LEMMA SetSentAll ==
  ASSUME NEW s, Inv(s), NEW v \in BOOLEAN
  PROVE  Inv([s EXCEPT !.sent_all = v])
<1> DEFINE t == [s EXCEPT !.sent_all = v]
<1>1. IsSender(s)
  BY DEF Inv
<1>2. /\ IsSender(t) /\ t.checkpoint = s.checkpoint /\ t.next_seqno = s.next_seqno
      /\ t.outstanding_segs = s.outstanding_segs /\ t.timer = s.timer
  BY <1>1, Zenon DEF IsSender, SenderSet
<1> QED BY <1>2, InvFrom, Zenon

LEMMA SetStream ==
  ASSUME NEW s, Inv(s), NEW stream \in StreamSet
  PROVE  Inv([s EXCEPT !.stream = stream])
<1> DEFINE t == [s EXCEPT !.stream = stream]
<1>1. IsSender(s)
  BY DEF Inv
<1>2. /\ IsSender(t) /\ t.checkpoint = s.checkpoint /\ t.next_seqno = s.next_seqno
      /\ t.outstanding_segs = s.outstanding_segs /\ t.timer = s.timer
  BY <1>1, Zenon DEF IsSender, SenderSet
<1> QED BY <1>2, InvFrom, Zenon

LEMMA SetTimer ==
  ASSUME NEW s, Inv(s), NEW timer \in TimerSet, timer.timing = s.timer.timing, timer.countdown > 0
  PROVE  Inv([s EXCEPT !.timer = timer])
<1> DEFINE t == [s EXCEPT !.timer = timer]
<1>1. IsSender(s) /\ s.checkpoint <= s.next_seqno /\ Covered(s) /\ Timed(s)
  BY DEF Inv
<1>2. /\ IsSender(t) /\ t.checkpoint = s.checkpoint /\ t.next_seqno = s.next_seqno
      /\ t.outstanding_segs = s.outstanding_segs /\ t.timer = timer
  BY <1>1, Zenon DEF IsSender, SenderSet
<1> HIDE DEF t
<1>3. Covered(t)
  BY <1>1, <1>2, Zenon DEF Covered
<1>4. Timed(t)
  BY <1>1, <1>2, Zenon DEF Timed
<1>5. t.checkpoint <= t.next_seqno
  BY <1>1, <1>2, Zenon
<1> QED BY <1>2, <1>3, <1>4, <1>5, Zenon DEF Inv, t

LEMMA SetSegmentsOut ==
  ASSUME NEW s, Inv(s), NEW out \in Seq(SegmentSet)
  PROVE  Inv([s EXCEPT !.segments_out = out])
<1> DEFINE t == [s EXCEPT !.segments_out = out]
<1>1. IsSender(s)
  BY DEF Inv
<1>2. /\ IsSender(t) /\ t.checkpoint = s.checkpoint /\ t.next_seqno = s.next_seqno
      /\ t.outstanding_segs = s.outstanding_segs /\ t.timer = s.timer
  BY <1>1, Zenon DEF IsSender, SenderSet
<1> QED BY <1>2, InvFrom, Zenon

\* BatchSize is the number of pieces of size M that cover total bytes.
LEMMA CeilFacts ==
  ASSUME NEW M \in Nat \ {0}, NEW total \in Nat, total > 0
  PROVE  LET n == (total + M - 1) \div M
         IN  n \in Nat /\ n >= 1 /\ (n - 1) * M < total /\ total <= n * M
<1> DEFINE x == total + M - 1
           n == x \div M
           r == x % M
<1>1. x \in Nat /\ x >= M
  OBVIOUS
<1> HIDE DEF x
<1>2. x = n * M + r /\ n \in Nat /\ r \in 0 .. M - 1
  BY <1>1
<1> HIDE DEF n, r
<1>3. (n - 1) * M = n * M - M
  BY <1>2
<1>4. n # 0
  <2> SUFFICES ASSUME n = 0 PROVE FALSE
    OBVIOUS
  <2>1. n * M = 0
    OBVIOUS
  <2> QED BY <2>1, <1>1, <1>2
<1>5. total = x - M + 1
  BY DEF x
<1>6. n * M \in Int
  BY <1>2
<1>7. (n - 1) * M < total /\ total <= n * M
  BY <1>2, <1>3, <1>5, <1>6, <1>1
<1> QED BY <1>2, <1>4, <1>7 DEF n, x

LEMMA Multiples ==
  ASSUME NEW M \in Nat \ {0}, NEW n \in Nat, NEW k \in 1..n
  PROVE  /\ (k - 1) * M \in Nat /\ (k - 1) * M <= (n - 1) * M
         /\ (k - 1) * M + M = k * M
<1>1. k - 1 \in Nat /\ n - k \in Nat
  OBVIOUS
<1>2. (k - 1) * M \in Nat /\ (n - k) * M \in Nat
  BY <1>1
<1>3. (n - 1) * M = (k - 1) * M + (n - k) * M
  OBVIOUS
<1>4. (k - 1) * M + M = k * M
  OBVIOUS
<1> QED BY <1>2, <1>3, <1>4

LEMMA SendSizeFacts ==
  ASSUME NEW s, IsSender(s), WindowRoom(s) > 0
  PROVE  /\ SendSize(s) \in Nat /\ SendSize(s) <= Len(s.stream.queue)
         /\ s.stream.queue \in Seq(Int) /\ SendEof(s) \in BOOLEAN
<1>1. s.next_seqno \in Nat /\ s.window_begin \in Nat /\ s.window_size \in Nat /\ s.stream \in StreamSet
  BY SenderFields
<1>2. s.stream.queue \in Seq(Int)
  BY <1>1, Zenon DEF StreamSet
<1>3. WindowRoom(s) \in Int
  BY <1>1 DEF WindowRoom
<1>4. Len(s.stream.queue) \in Nat
  BY <1>2
<1>5. SendSize(s) = IF WindowRoom(s) <= Len(s.stream.queue) THEN WindowRoom(s) ELSE Len(s.stream.queue)
  BY Zenon DEF SendSize, Least, BufferSize
<1>6. SendSize(s) \in Nat /\ SendSize(s) <= Len(s.stream.queue)
  BY <1>3, <1>4, <1>5
<1>7. SendEof(s) \in BOOLEAN
  BY Zenon DEF SendEof
<1> QED BY <1>2, <1>6, <1>7

\* The k-th segment of the loop of fill_window(): all but the last are full.
LEMMA BatchElement ==
  ASSUME NEW s, IsSender(s), WindowRoom(s) > 0, SendSize(s) > 0, NEW k \in 1..BatchSize(s)
  PROVE  LET o == DataBatch(s)[k]
             offset == (k - 1) * MAX_PAYLOAD_SIZE
         IN  /\ o \in OutstandingSet /\ o.abs_seqno = s.next_seqno + offset
             /\ abs_seqno_at_end(o) > o.abs_seqno
             /\ k < BatchSize(s) =>
                  abs_seqno_at_end(o) = s.next_seqno + (k * MAX_PAYLOAD_SIZE)
<1> DEFINE M == MAX_PAYLOAD_SIZE
           total == SendSize(s)
           n == BatchSize(s)
           queue == s.stream.queue
           offset == (k - 1) * M
           hi == Least(offset + M, total)
           fin == SendEof(s) /\ k = n
           no == FALSE
           payload == SubSeq(queue, offset + 1, hi)
           o == Outstanding(s, offset, no, fin, payload)
<1>1. M \in Nat \ {0} /\ s.next_seqno \in Nat
  BY PayloadAssumption, SenderFields
<1>2. total \in Nat /\ total <= Len(queue) /\ queue \in Seq(Int) /\ total > 0
  BY SendSizeFacts
<1>3. n \in Nat /\ n >= 1 /\ (n - 1) * M < total /\ total <= n * M
  BY <1>1, <1>2, CeilFacts DEF BatchSize
<1>4. DataBatch(s)[k] = o
  BY Zenon DEF DataBatch
<1>5. k \in 1..n
  OBVIOUS
<1>6. fin \in BOOLEAN /\ no \in BOOLEAN /\ Flag(no) = 0 /\ Flag(fin) \in {0, 1} /\ (k < n => Flag(fin) = 0)
  <2>1. k < n => k # n
    BY <1>3, <1>5
  <2>2. fin \in BOOLEAN /\ no \in BOOLEAN
    OBVIOUS
  <2>3. Flag(no) = 0 /\ Flag(fin) \in {0, 1}
    BY DEF Flag
  <2>4. k # n => Flag(fin) = 0
    BY Zenon DEF Flag
  <2> QED BY <2>1, <2>2, <2>3, <2>4
<1> HIDE DEF M, total, n
<1>7. /\ offset \in Nat /\ offset <= (n - 1) * M /\ offset + M = k * M
  BY <1>1, <1>3, <1>5, Multiples
<1>8. k < n => k * M <= (n - 1) * M
  <2> SUFFICES ASSUME k < n PROVE k * M <= (n - 1) * M
    OBVIOUS
  <2>1. k + 1 \in 1..n /\ (k + 1) - 1 = k
    BY <1>3, <1>5
  <2>2. ((k + 1) - 1) * M <= (n - 1) * M
    BY <2>1, <1>1, <1>3, Multiples
  <2> QED BY <2>1, <2>2
<1>9. (n - 1) * M \in Int /\ k * M \in Int
  BY <1>1, <1>3, <1>5
<1> HIDE DEF offset
<1>10. /\ hi \in Nat /\ offset < hi /\ hi <= Len(queue)
       /\ k < n => hi = offset + M
  BY <1>1, <1>2, <1>3, <1>7, <1>8, <1>9 DEF Least
<1> HIDE DEF hi, fin, no, queue
<1>11. payload \in Seq(Int) /\ Len(payload) = hi - offset
  <2>1. offset + 1 \in Int /\ hi \in Int /\ \A i \in offset + 1 .. hi : queue[i] \in Int
    BY <1>2, <1>7, <1>10
  <2>2. /\ payload \in Seq(Int)
        /\ Len(payload) = IF offset + 1 <= hi THEN hi - (offset + 1) + 1 ELSE 0
    BY <2>1, SubSeqProperties
  <2> QED BY <2>2, <1>7, <1>10
<1> HIDE DEF payload
<1>12. /\ o \in OutstandingSet /\ o.abs_seqno = s.next_seqno + offset
       /\ abs_seqno_at_end(o) = s.next_seqno + offset + (Len(payload) + Flag(no) + Flag(fin))
  <2>1. offset \in Nat /\ no \in BOOLEAN /\ fin \in BOOLEAN /\ payload \in Seq(Int)
    BY <1>6, <1>7, <1>11
  <2> QED BY <2>1, OutstandingFacts, SMT, SMTT(90)
<1> HIDE DEF o
<1>13. /\ abs_seqno_at_end(o) > o.abs_seqno
       /\ k < n => abs_seqno_at_end(o) = s.next_seqno + k * M
  <2> DEFINE f == Flag(fin)
             z == Flag(no)
             len == Len(payload)
             end == abs_seqno_at_end(o)
  <2>1. z = 0 /\ f \in {0, 1} /\ (k < n => f = 0) /\ end = s.next_seqno + offset + (len + z + f)
    BY <1>6, <1>12
  <2>2. len = hi - offset
    BY <1>11
  <2> HIDE DEF f, z, len, end
  <2>3. end = s.next_seqno + hi + f
    BY <2>1, <2>2, <1>10, <1>7, <1>1
  <2>4. end > o.abs_seqno /\ (k < n => end = s.next_seqno + k * M)
    <3> DEFINE km == k * M
    <3>1. /\ offset + M = km /\ offset < hi /\ offset \in Nat /\ hi \in Nat
          /\ o.abs_seqno = s.next_seqno + offset /\ s.next_seqno \in Nat
      BY <1>1, <1>7, <1>10, <1>12
    <3>2. k < n => hi = km /\ f = 0
      BY <1>10, <2>1, <3>1
    <3> HIDE DEF km
    <3>3. end > o.abs_seqno
      BY <2>1, <2>3, <3>1
    <3>4. k < n => end = s.next_seqno + km
      BY <2>3, <3>1, <3>2
    <3> QED BY <3>3, <3>4 DEF km
  <2> QED BY <2>4 DEF end
<1> QED BY <1>4, <1>12, <1>13 DEF offset, M, n

\* The loop of fill_window() sends a good batch, or nothing.
LEMMA DataBatchGood ==
  ASSUME NEW s, IsSender(s), WindowRoom(s) > 0, SendSize(s) > 0
  PROVE  GoodBatch(s, DataBatch(s))
<1> DEFINE M == MAX_PAYLOAD_SIZE
           n == BatchSize(s)
           batch == DataBatch(s)
<1>1. M \in Nat \ {0} /\ s.next_seqno \in Nat
  BY PayloadAssumption, SenderFields
<1>2. n \in Nat /\ n >= 1
  BY <1>1, SendSizeFacts, CeilFacts DEF BatchSize
<1>3. \A k \in 1..n :
        /\ batch[k] \in OutstandingSet /\ batch[k].abs_seqno = s.next_seqno + (k - 1) * M
        /\ abs_seqno_at_end(batch[k]) > batch[k].abs_seqno
        /\ k < n => abs_seqno_at_end(batch[k]) = s.next_seqno + (k * M)
  BY BatchElement, Zenon
<1>4. DOMAIN batch = 1..n /\ batch = [k \in 1..n |-> batch[k]]
  BY Zenon DEF DataBatch
<1> HIDE DEF batch, n, M
<1>5. batch \in Seq(OutstandingSet) /\ Len(batch) = n /\ batch # <<>>
  BY <1>2, <1>3, <1>4
<1>6. batch[1].abs_seqno = s.next_seqno /\ s.next_seqno < abs_seqno_at_end(batch[1])
  <2>1. (1 - 1) * M = 0 /\ 1 \in 1..n
    BY <1>1, <1>2
  <2>2. batch[1].abs_seqno = s.next_seqno + (1 - 1) * M /\ abs_seqno_at_end(batch[1]) > batch[1].abs_seqno
    BY <2>1, <1>3
  <2> QED BY <2>1, <2>2, <1>1
<1>7. s.next_seqno <= abs_seqno_at_end(batch[n])
  <2>1. n \in 1..n
    BY <1>2
  <2>2. (n - 1) * M \in Nat
    BY <2>1, <1>1, <1>2, Multiples
  <2>3. batch[n].abs_seqno = s.next_seqno + (n - 1) * M /\ abs_seqno_at_end(batch[n]) > batch[n].abs_seqno
    BY <2>1, <1>3
  <2>4. abs_seqno_at_end(batch[n]) \in Nat
    BY <2>1, <1>3, EndNat
  <2> QED BY <2>2, <2>3, <2>4, <1>1
<1>8. ASSUME NEW k \in 1 .. n - 1
      PROVE  abs_seqno_at_end(batch[k]) = batch[k + 1].abs_seqno
  <2>1. k \in 1..n /\ k + 1 \in 1..n /\ k < n /\ (k + 1) - 1 = k
    BY <1>2
  <2> QED BY <2>1, <1>3
<1> QED BY <1>5, <1>6, <1>7, <1>8 DEF GoodBatch, batch

LEMMA PopIsStream ==
  ASSUME NEW st \in StreamSet, NEW n \in Nat
  PROVE  PopStream(st, n) \in StreamSet
<1>1. st.queue \in Seq(Int) /\ st.bytes_read \in Int
  BY Zenon DEF StreamSet
<1>2. SubSeq(st.queue, n + 1, Len(st.queue)) \in Seq(Int) /\ st.bytes_read + n \in Int
  <2>1. \A i \in n + 1 .. Len(st.queue) : st.queue[i] \in Int
    BY <1>1
  <2>2. n + 1 \in Int /\ Len(st.queue) \in Int
    BY <1>1
  <2> QED BY <1>1, <2>1, <2>2, SubSeqProperties
<1> QED BY <1>2, Zenon DEF StreamSet, PopStream

\* What SendData() changes besides sending.
LEMMA SetStreamAndSentAll ==
  ASSUME NEW s, Inv(s), NEW n \in Nat, NEW v \in BOOLEAN
  PROVE  Inv([s EXCEPT !.stream = PopStream(@, n), !.sent_all = v])
<1> DEFINE t == [s EXCEPT !.stream = PopStream(@, n), !.sent_all = v]
<1>1. IsSender(s)
  BY DEF Inv
<1>2. PopStream(s.stream, n) \in StreamSet
  BY <1>1, SenderFields, PopIsStream
<1>3. /\ IsSender(t) /\ t.checkpoint = s.checkpoint /\ t.next_seqno = s.next_seqno
      /\ t.outstanding_segs = s.outstanding_segs /\ t.timer = s.timer
  BY <1>1, <1>2, Zenon DEF IsSender, SenderSet
<1> QED BY <1>3, InvFrom, Zenon

LEMMA SendDataInv ==
  ASSUME NEW s, Inv(s), WindowRoom(s) > 0
  PROVE  Inv(SendData(s))
<1> DEFINE t == send(s, DataBatch(s))
<1>1. IsSender(s)
  BY DEF Inv
<1>2. SendSize(s) \in Nat /\ SendEof(s) \in BOOLEAN
  BY <1>1, SendSizeFacts
<1>3. Inv(t)
  <2>1. CASE SendSize(s) > 0
    BY <2>1, <1>1, DataBatchGood, SendInv
  <2>2. CASE SendSize(s) = 0
    <3>1. (0 + MAX_PAYLOAD_SIZE - 1) \div MAX_PAYLOAD_SIZE = 0
      BY PayloadAssumption
    <3>2. BatchSize(s) = 0
      BY <2>2, <3>1 DEF BatchSize
    <3>3. DataBatch(s) = <<>>
      BY <3>2 DEF DataBatch
    <3>4. t = s
      BY <3>3 DEF send
    <3> QED BY <3>4
  <2> QED BY <2>1, <2>2, <1>2
<1> HIDE DEF t
<1>4. Inv([t EXCEPT !.stream = PopStream(@, SendSize(s)), !.sent_all = SendEof(s)])
  BY <1>2, <1>3, SetStreamAndSentAll, Zenon
<1> QED BY <1>4 DEF SendData, t

LEMMA WindowRoomInt == ASSUME NEW s, Inv(s) PROVE WindowRoom(s) \in Int
<1>1. s.next_seqno \in Nat /\ s.window_begin \in Nat /\ s.window_size \in Nat
  BY SenderFields DEF Inv
<1> QED BY <1>1 DEF WindowRoom

LEMMA FillInv ==
  ASSUME NEW s, Inv(s)
  PROVE  Inv(fill_window(s))
<1>1. CASE ~s.sent_syn
  <2>1. Flag(TRUE) + Flag(FALSE) = 1 /\ TRUE \in BOOLEAN /\ FALSE \in BOOLEAN
    BY DEF Flag
  <2>2. Inv(send(s, <<Outstanding(s, 0, TRUE, FALSE, <<>>)>>))
    BY <2>1, OneNumberInv
  <2>3. Inv(connect(s))
    BY <2>2, SetSentSyn DEF connect
  <2>4. fill_window(s) = connect(s)
    BY <1>1, Zenon DEF fill_window
  <2> QED BY <2>3, <2>4
<1>2. CASE s.sent_syn /\ (s.sent_all \/ WindowRoom(s) <= 0)
  <2>1. WindowRoom(s) <= 0 => ~(WindowRoom(s) > 0)
    BY WindowRoomInt
  <2>2. fill_window(s) = s
    BY <1>2, <2>1, Zenon DEF fill_window
  <2> QED BY <2>2
<1>3. CASE s.sent_syn /\ ~s.sent_all /\ WindowRoom(s) > 0 /\ Eof(s.stream)
  <2>1. Flag(FALSE) + Flag(TRUE) = 1 /\ TRUE \in BOOLEAN /\ FALSE \in BOOLEAN
    BY DEF Flag
  <2>2. Inv(send(s, <<Outstanding(s, 0, FALSE, TRUE, <<>>)>>))
    BY <2>1, OneNumberInv
  <2>3. Inv(SendFin(s))
    BY <2>1, <2>2, SetSentAll DEF SendFin
  <2>4. ~(WindowRoom(s) <= 0)
    BY <1>3, WindowRoomInt
  <2>5. fill_window(s) = SendFin(s)
    BY <1>3, <2>4, Zenon DEF fill_window
  <2> QED BY <2>3, <2>5
<1>4. CASE s.sent_syn /\ ~s.sent_all /\ WindowRoom(s) > 0 /\ ~Eof(s.stream)
  <2>1. ~(WindowRoom(s) <= 0)
    BY <1>4, WindowRoomInt
  <2>2. fill_window(s) = SendData(s)
    BY <1>4, <2>1, Zenon DEF fill_window
  <2> QED BY <1>4, <2>2, SendDataInv
<1> QED BY <1>1, <1>2, <1>3, <1>4, WindowRoomInt

LEMMA NatMin ==
  ASSUME NEW T, T \subseteq Nat, T # {}
  PROVE  \E x \in T : \A y \in T : x <= y
<1> DEFINE R == OpToRel(<, Nat)
<1>1. IsWellFoundedOn(R, Nat)
  BY NatLessThanWellFounded, Zenon
<1>2. \A x, y \in Nat : x < y => <<x, y>> \in R
  BY Zenon DEF OpToRel
<1> HIDE DEF R
<1>3. PICK x \in T : \A y \in T : ~(<<y, x>> \in R)
  BY <1>1, WFMin
<1>4. \A y \in T : ~(y < x)
  BY <1>2, <1>3
<1> QED BY <1>4

\* The loop of ack_received() stops before the first segment that is not
\* fully acknowledged.
LEMMA FullyAckedFacts ==
  ASSUME NEW segments \in Seq(OutstandingSet), NEW a \in Nat
  PROVE  LET p == FullyAcked(segments, a)
         IN  /\ p \in 0 .. Len(segments)
             /\ \A k \in 1..p : abs_seqno_at_end(segments[k]) <= a
             /\ p < Len(segments) => abs_seqno_at_end(segments[p + 1]) > a
<1> DEFINE N == Len(segments)
           end(k) == abs_seqno_at_end(segments[k])
           S == {n \in 0..N : \A k \in 1..n : end(k) <= a}
           T == {k \in 1 .. N + 1 : k = N + 1 \/ end(k) > a}
           p == FullyAcked(segments, a)
<1>1. N \in Nat /\ \A k \in 1..N : end(k) \in Nat
  BY EndNat
<1>2. p = CHOOSE x \in S : \A y \in S : x >= y
  BY DEF FullyAcked, Max
<1> HIDE DEF end, p
<1>3. \E x \in S : \A y \in S : x >= y
  <2>1. T \subseteq Nat /\ N + 1 \in T
    BY <1>1
  <2>2. PICK m \in T : \A y \in T : m <= y
    BY <2>1, NatMin
  <2>3. m \in 1 .. N + 1
    BY <2>2
  <2>4. \A k \in 1 .. m - 1 : end(k) <= a
    <3> SUFFICES ASSUME NEW k \in 1 .. m - 1 PROVE end(k) <= a
      OBVIOUS
    <3>1. k \in 1..N /\ ~(m <= k)
      BY <1>1, <2>3
    <3>2. ~(end(k) > a)
      BY <1>1, <2>2, <3>1
    <3> QED BY <1>1, <3>1, <3>2
  <2>5. m - 1 \in S
    BY <1>1, <2>3, <2>4
  <2>6. \A y \in S : m - 1 >= y
    <3> SUFFICES ASSUME NEW y \in S, ~(m - 1 >= y) PROVE FALSE
      OBVIOUS
    <3>1. m \in 1..y /\ m \in 1..N
      BY <1>1, <2>3
    <3>2. end(m) <= a /\ end(m) > a
      BY <1>1, <2>2, <3>1
    <3> QED BY <1>1, <3>1, <3>2
  <2> QED BY <2>5, <2>6
<1>4. p \in S /\ \A y \in S : p >= y
  BY <1>2, <1>3
<1>5. ASSUME p < N PROVE end(p + 1) > a
  <2> SUFFICES ASSUME ~(end(p + 1) > a) PROVE FALSE
    OBVIOUS
  <2>1. p + 1 \in 1..N /\ end(p + 1) <= a
    BY <1>1, <1>4, <1>5
  <2>2. \A k \in 1 .. p + 1 : k \in 1..p \/ k = p + 1
    BY <1>1, <1>4
  <2>3. p + 1 \in S
    BY <1>1, <1>4, <2>1, <2>2
  <2> QED BY <1>1, <1>4, <2>3
<1> QED BY <1>1, <1>4, <1>5 DEF end, p

LEMMA UnwrapNat ==
  ASSUME NEW n \in Int, NEW i \in Int, NEW cp \in Nat
  PROVE  unwrap(n, i, cp) \in Nat
<1>1. ASSUME NEW x \in Int PROVE U64(x) \in Nat
  <2>1. FACTOR * FACTOR \in Nat \ {0}
    BY FactorAssumption
  <2> QED BY <2>1, ModNat DEF U64
<1>2. (n - i) % FACTOR \in Nat /\ (cp \div FACTOR) * FACTOR \in Nat /\ FACTOR \in Nat
  BY FactorAssumption
<1>3. U64((cp \div FACTOR) * FACTOR + ((n - i) % FACTOR)) \in Nat
  BY <1>1, <1>2
<1> QED BY <1>1, <1>2, <1>3 DEF unwrap

LEMMA TimerAfterAckFacts ==
  ASSUME NEW s, IsSender(s), Timed(s), NEW a \in Nat, NEW left,
         left # <<>> => s.outstanding_segs # <<>>
  PROVE  LET t == TimerAfterAck(s, a, left)
         IN  /\ t \in TimerSet
             /\ t.timing <=> left # <<>>
             /\ t.timing => t.countdown > 0
<1> DEFINE fresh == reset_timer(s.initial_timeout)
           begun == begin_timing(fresh)
           newer == a > 1 /\ a > s.checkpoint
           t == TimerAfterAck(s, a, left)
<1>1. /\ s.timer \in TimerSet /\ s.initial_timeout \in Nat \ {0}
      /\ s.timer.timing <=> s.outstanding_segs # <<>>
      /\ s.timer.timing => s.timer.countdown > 0
  BY SenderFields DEF Timed
<1>2. fresh \in TimerSet /\ begun \in TimerSet /\ begun.timing /\ begun.countdown > 0
  <2>1. fresh \in TimerSet /\ fresh.rto = s.initial_timeout
    BY <1>1 DEF reset_timer, TimerSet
  <2>2. begun \in TimerSet /\ begun.timing /\ begun.countdown = fresh.rto
    BY <1>1, <2>1 DEF begin_timing, TimerSet
  <2> QED BY <1>1, <2>1, <2>2
<1>3. CASE left = <<>>
  <2> DEFINE old == IF newer THEN fresh ELSE s.timer
  <2>1. t = [old EXCEPT !.timing = FALSE]
    BY <1>3, Zenon DEF TimerAfterAck
  <2>2. old \in TimerSet
    BY <1>1, <1>2
  <2> HIDE DEF old
  <2>3. t \in TimerSet /\ ~t.timing
    BY <2>1, <2>2, Zenon DEF TimerSet
  <2> QED BY <1>3, <2>3
<1>4. CASE left # <<>>
  <2>1. t = IF newer THEN begun ELSE s.timer
    BY <1>4, Zenon DEF TimerAfterAck
  <2> HIDE DEF t, begun, newer, fresh
  <2> QED BY <1>1, <1>2, <1>4, <2>1 DEF t
<1> QED BY <1>3, <1>4

\* The fields of a sender after AcceptAck().
LEMMA AcceptFields ==
  ASSUME NEW s, IsSender(s), NEW a \in Nat, NEW w \in Nat,
         NEW left \in Seq(OutstandingSet),
         left = SubSeq(s.outstanding_segs, FullyAcked(s.outstanding_segs, a) + 1,
                       Len(s.outstanding_segs)),
         TimerAfterAck(s, a, left) \in TimerSet
  PROVE  LET t == AcceptAck(s, a, w)
         IN  /\ IsSender(t) /\ t.outstanding_segs = left /\ t.next_seqno = s.next_seqno
             /\ t.timer = TimerAfterAck(s, a, left)
             /\ t.checkpoint = Greatest(s.checkpoint, a)
<1> DEFINE size == IF w = 0 THEN 1 ELSE w
           zero == (w = 0)
           popped == FullyAcked(s.outstanding_segs, a)
           flight == s.bytes_in_flight - LengthOf(SubSeq(s.outstanding_segs, 1, popped))
           newest == Greatest(s.checkpoint, a)
           timer == TimerAfterAck(s, a, left)
           t == AcceptAck(s, a, w)
<1>1. size \in Nat \ {0} /\ zero \in BOOLEAN
  OBVIOUS
<1>2. newest \in Nat
  BY SenderFields DEF Greatest
<1>3. t = [s EXCEPT !.window_begin = a, !.actual_zero_window_size = zero, !.window_size = size,
                    !.outstanding_segs = left, !.bytes_in_flight = flight,
                    !.timer = timer, !.checkpoint = newest]
  BY Zenon DEF AcceptAck
<1>4. timer \in TimerSet
  OBVIOUS
<1> HIDE DEF size, zero, flight, newest, timer, t, popped
<1>5. IsSender(t)
  BY <1>1, <1>2, <1>3, <1>4, ZenonT(60) DEF IsSender, SenderSet
<1>6. /\ t.outstanding_segs = left /\ t.next_seqno = s.next_seqno
      /\ t.timer = timer /\ t.checkpoint = newest
  BY <1>3, Zenon DEF IsSender, SenderSet
<1> QED BY <1>5, <1>6 DEF t, newest, timer

LEMMA Suffix ==
  ASSUME NEW S, NEW q \in Seq(S), NEW p \in 0 .. Len(q)
  PROVE  LET left == SubSeq(q, p + 1, Len(q))
         IN  /\ left \in Seq(S) /\ Len(left) = Len(q) - p
             /\ \A k \in 1 .. Len(q) - p : left[k] = q[p + k]
<1> DEFINE m == Len(q)
           left == SubSeq(q, p + 1, m)
<1>1. m \in Nat /\ p \in Nat /\ p <= m /\ \A i \in p + 1 .. m : q[i] \in S
  OBVIOUS
<1> HIDE DEF m
<1>2. /\ left \in Seq(S)
      /\ Len(left) = IF p + 1 <= m THEN m - (p + 1) + 1 ELSE 0
      /\ \A k \in 1 .. m - (p + 1) + 1 : left[k] = q[(p + 1) + k - 1]
  BY <1>1, SubSeqProperties
<1> HIDE DEF left
<1>3. m - (p + 1) + 1 = m - p /\ \A k \in 1 .. m - p : (p + 1) + k - 1 = p + k
  BY <1>1
<1>4. Len(left) = m - p
  BY <1>1, <1>2
<1>5. \A k \in 1 .. m - p : left[k] = q[p + k]
  BY <1>2, <1>3
<1> QED BY <1>2, <1>4, <1>5 DEF left, m

LEMMA AcceptInv ==
  ASSUME NEW s, Inv(s), NEW a \in Nat, a <= s.next_seqno, NEW w \in Nat
  PROVE  Inv(AcceptAck(s, a, w))
<1> DEFINE old == s.outstanding_segs
           N == Len(old)
           p == FullyAcked(old, a)
           left == SubSeq(old, p + 1, N)
           end(k) == abs_seqno_at_end(old[k])
           cp == s.checkpoint
           next == s.next_seqno
           t == AcceptAck(s, a, w)
<1>1. IsSender(s) /\ Covered(s) /\ Timed(s) /\ cp <= next
  BY DEF Inv
<1>2. /\ old \in Seq(OutstandingSet) /\ cp \in Nat /\ next \in Nat
      /\ N \in Nat /\ \A k \in 1..N : end(k) \in Nat /\ old[k].abs_seqno \in Nat
  <2>1. old \in Seq(OutstandingSet) /\ cp \in Nat /\ next \in Nat
    BY <1>1, SenderFields
  <2>2. \A k \in 1..N : old[k] \in OutstandingSet
    BY <2>1
  <2> QED BY <2>1, <2>2, EndNat DEF OutstandingSet
<1>3. /\ p \in 0..N
      /\ \A k \in 1..p : end(k) <= a
      /\ p < N => end(p + 1) > a
  BY <1>2, FullyAckedFacts
<1> HIDE DEF p
<1>4. /\ old = <<>> => cp = next
      /\ old # <<>> => old[1].abs_seqno <= cp /\ cp < end(1) /\ end(N) = next
      /\ \A k \in 1 .. N - 1 : end(k) = old[k + 1].abs_seqno
  BY <1>1 DEF Covered
<1>5. /\ left \in Seq(OutstandingSet) /\ Len(left) = N - p
      /\ \A k \in 1 .. N - p : left[k] = old[p + k]
  BY <1>2, <1>3, Suffix
<1> HIDE DEF left
<1>6. left # <<>> <=> p < N
  <2>1. left # <<>> <=> Len(left) # 0
    BY <1>5
  <2> QED BY <1>2, <1>3, <1>5, <2>1
<1>7. old # <<>> <=> N > 0
  BY <1>2
<1> DEFINE timer == TimerAfterAck(s, a, left)
<1>8. timer \in TimerSet /\ (timer.timing <=> left # <<>>) /\ (timer.timing => timer.countdown > 0)
  <2>1. left # <<>> => s.outstanding_segs # <<>>
    BY <1>2, <1>3, <1>6, <1>7
  <2> QED BY <1>1, <2>1, TimerAfterAckFacts
<1>9. /\ IsSender(t) /\ t.outstanding_segs = left /\ t.next_seqno = next
      /\ t.timer = timer /\ t.checkpoint = Greatest(cp, a)
  BY <1>1, <1>5, <1>8, AcceptFields DEF left, p
<1> HIDE DEF t, timer
<1> DEFINE newest == Greatest(cp, a)
<1>10. newest \in Nat /\ newest <= next
  BY <1>1, <1>2 DEF Greatest
<1>11. p >= 1 => newest = a
  BY <1>2, <1>3, <1>4, <1>7 DEF Greatest
<1>12. left = <<>> => newest = next
  <2>1. CASE p = 0
    BY <1>2, <1>3, <1>4, <1>6, <1>7, <2>1 DEF Greatest
  <2>2. CASE p >= 1
    BY <1>2, <1>3, <1>4, <1>6, <1>7, <1>11, <2>2
  <2> QED BY <1>3, <2>1, <2>2
<1>13. ASSUME left # <<>>
       PROVE  /\ left[1].abs_seqno <= newest /\ newest < abs_seqno_at_end(left[1])
              /\ abs_seqno_at_end(left[Len(left)]) = next
  <2>1. p < N /\ left[1] = old[p + 1] /\ left[Len(left)] = old[N]
    <3>1. p < N
      BY <1>6, <1>13
    <3>2. 1 \in 1 .. N - p /\ N - p \in 1 .. N - p /\ p + (N - p) = N
      BY <1>2, <1>3, <3>1
    <3> QED BY <1>5, <3>1, <3>2
  <2>2. end(N) = next /\ end(p + 1) > a /\ end(p + 1) \in Nat /\ old[p + 1].abs_seqno \in Nat
    <3>1. N \in 1..N /\ p + 1 \in 1..N
      BY <1>2, <1>3, <2>1
    <3>2. N > 0
      BY <1>2, <1>3, <2>1
    <3>3. end(N) = next
      BY <1>4, <1>7, <3>2, Zenon
    <3>4. end(p + 1) \in Nat /\ old[p + 1].abs_seqno \in Nat
      BY <1>2, <3>1, Zenon
    <3> QED BY <1>3, <2>1, <3>3, <3>4
  <2>3. old[p + 1].abs_seqno <= newest /\ newest < end(p + 1)
    <3>1. CASE p = 0
      <4>1. N > 0 /\ p + 1 = 1
        BY <1>2, <2>1, <3>1
      <4>2. old[1].abs_seqno <= cp /\ cp < end(1)
        BY <1>4, <1>7, <4>1, Zenon
      <4>3. old[p + 1].abs_seqno <= cp /\ cp < end(p + 1)
        BY <4>1, <4>2
      <4> HIDE DEF old, end, cp
      <4> QED BY <1>2, <2>2, <4>3 DEF Greatest
    <3>2. CASE p >= 1
      <4>1. p \in 1 .. N - 1 /\ p \in 1..p
        BY <1>2, <1>3, <2>1, <3>2
      <4>2. end(p) = old[p + 1].abs_seqno /\ end(p) <= a
        BY <1>3, <1>4, <4>1
      <4> QED BY <1>11, <2>2, <3>2, <4>2
    <3> QED BY <1>3, <3>1, <3>2
  <2> QED BY <2>1, <2>2, <2>3
<1>14. \A k \in 1 .. Len(left) - 1 : abs_seqno_at_end(left[k]) = left[k + 1].abs_seqno
  <2> SUFFICES ASSUME NEW k \in 1 .. Len(left) - 1
               PROVE  abs_seqno_at_end(left[k]) = left[k + 1].abs_seqno
    OBVIOUS
  <2>1. p + k \in 1 .. N - 1 /\ p + (k + 1) = (p + k) + 1
    BY <1>2, <1>3, <1>5
  <2>2. left[k] = old[p + k] /\ left[k + 1] = old[p + (k + 1)]
    BY <1>2, <1>3, <1>5
  <2> QED BY <1>4, <2>1, <2>2
<1> HIDE DEF newest
<1>15. t.checkpoint = newest
  BY <1>9 DEF newest
<1>16. Covered(t)
  BY <1>9, <1>12, <1>13, <1>14, <1>15 DEF Covered
<1>17. Timed(t)
  BY <1>8, <1>9 DEF Timed
<1>18. t.checkpoint <= t.next_seqno
  BY <1>9, <1>10, <1>15
<1> QED BY <1>9, <1>16, <1>17, <1>18 DEF Inv, t

LEMMA AckInv ==
  ASSUME NEW s, Inv(s), NEW ackno \in Int, NEW w \in Nat
  PROVE  Inv(ack_received(s, ackno, w))
<1> DEFINE a == get_abs_seqno(s, ackno)
<1>1. s.isn \in Int /\ s.checkpoint \in Nat /\ s.next_seqno \in Nat
  BY SenderFields DEF Inv, Wrapping
<1>2. a \in Nat
  BY <1>1, UnwrapNat DEF get_abs_seqno
<1> HIDE DEF a
<1>3. ack_received(s, ackno, w) = IF a > s.next_seqno THEN s ELSE AcceptAck(s, a, w)
  BY DEF ack_received, a
<1>4. CASE a > s.next_seqno
  BY <1>3, <1>4
<1>5. CASE a <= s.next_seqno
  <2>1. Inv(AcceptAck(s, a, w))
    BY <1>2, <1>5, AcceptInv
  <2> QED BY <1>1, <1>2, <1>3, <1>5, <2>1
<1> QED BY <1>1, <1>2, <1>4, <1>5

LEMMA TickInv ==
  ASSUME NEW s, Inv(s), NEW ms \in Nat
  PROVE  Inv(sender_tick(s, ms))
<1> DEFINE t == sender_tick(s, ms)
           old == s.timer
<1>1. IsSender(s) /\ Timed(s)
  BY DEF Inv
<1>2. /\ old \in TimerSet /\ old.rto \in Nat \ {0} /\ old.countdown \in Nat
      /\ old.timing \in BOOLEAN /\ old.consecutive_rx \in Nat
      /\ s.outstanding_segs \in Seq(OutstandingSet) /\ s.segments_out \in Seq(SegmentSet)
  <2>1. old \in TimerSet /\ s.outstanding_segs \in Seq(OutstandingSet) /\ s.segments_out \in Seq(SegmentSet)
    BY <1>1, SenderFields
  <2> QED BY <2>1 DEF TimerSet
<1>3. CASE ~old.timing
  <2>1. t = s
    BY <1>3, Zenon DEF sender_tick
  <2> QED BY <2>1
<1>4. CASE old.timing /\ old.countdown > ms
  <2> DEFINE left == old.countdown - ms
             new == [old EXCEPT !.countdown = left]
  <2>1. left \in Nat /\ left > 0
    BY <1>2, <1>4
  <2>2. t = [s EXCEPT !.timer.countdown = @ - ms]
    BY <1>4, Zenon DEF sender_tick
  <2> HIDE DEF left
  <2>3. new \in TimerSet /\ new.timing = old.timing /\ new.countdown = left
    BY <1>2, <2>1, Zenon DEF TimerSet
  <2>4. t = [s EXCEPT !.timer = new]
    BY <2>2 DEF left
  <2> HIDE DEF new, t
  <2>5. Inv(t)
    BY <1>4, <2>1, <2>3, <2>4, SetTimer
  <2> QED BY <2>5 DEF t
<1>5. CASE old.timing /\ ~(old.countdown > ms)
  <2> DEFINE new == update_timer_after_timeout(old, s.actual_zero_window_size)
             out == Append(s.segments_out, s.outstanding_segs[1].segment)
             u == [s EXCEPT !.segments_out = out]
  <2>1. s.outstanding_segs # <<>>
    BY <1>1, <1>5 DEF Timed
  <2>2. out \in Seq(SegmentSet)
    <3>1. s.outstanding_segs[1] \in OutstandingSet
      BY <1>2, <2>1
    <3>2. s.outstanding_segs[1].segment \in SegmentSet
      BY <3>1 DEF OutstandingSet
    <3> QED BY <1>2, <3>2
  <2>3. new \in TimerSet /\ new.timing = old.timing /\ new.countdown > 0
    <3> DEFINE rto == IF s.actual_zero_window_size THEN old.rto ELSE 2 * old.rto
    <3>1. rto \in Nat \ {0} /\ rto > 0 /\ old.consecutive_rx + 1 \in Nat
      <4> DEFINE r == old.rto
                 d == 2 * r
      <4>1. rto = r \/ rto = d
        BY Zenon
      <4>2. r \in Nat \ {0} /\ old.consecutive_rx \in Nat
        BY <1>2, Zenon
      <4> HIDE DEF r, rto, old
      <4>3. d \in Nat \ {0} /\ r > 0 /\ d > 0
        BY <4>2
      <4>4. old.consecutive_rx + 1 \in Nat
        BY <4>2
      <4> HIDE DEF d
      <4> QED BY <4>1, <4>2, <4>3, <4>4
    <3>2. new = [rto |-> rto, countdown |-> rto, timing |-> old.timing,
                 consecutive_rx |-> old.consecutive_rx + 1]
      BY Zenon DEF update_timer_after_timeout
    <3> HIDE DEF rto, new
    <3> QED BY <1>2, <3>1, <3>2 DEF TimerSet
  <2>4. t = [s EXCEPT !.segments_out = out, !.timer = new]
    BY <1>5, Zenon DEF sender_tick, Timeout
  <2>5. Inv(u) /\ IsSender(u)
    BY <2>2, SetSegmentsOut DEF Inv
  <2>6. u.timer = old /\ u.outstanding_segs = s.outstanding_segs
    BY <1>1, Zenon DEF IsSender, SenderSet
  <2>7. t = [u EXCEPT !.timer = new]
    BY <2>4
  <2> HIDE DEF new, out, t, u
  <2>8. Inv(t)
    BY <1>5, <2>3, <2>5, <2>6, <2>7, SetTimer
  <2> QED BY <2>8 DEF t
<1> QED BY <1>3, <1>4, <1>5

LEMMA WriteInv ==
  ASSUME NEW s, Inv(s), NEW len \in Nat, NEW first \in Int
  PROVE  Inv([s EXCEPT !.stream = WriteStream(@, [k \in 1..len |-> first + k - 1])])
<1> DEFINE st == s.stream
           data == [k \in 1..len |-> first + k - 1]
           count == Least(Len(data), RemainingCapacity(st))
           queue == st.queue \o SubSeq(data, 1, count)
           new == WriteStream(st, data)
<1>1. st \in StreamSet
  BY SenderFields DEF Inv
<1>2. st.capacity \in Nat /\ st.queue \in Seq(Int) /\ st.bytes_written \in Int
  BY <1>1, Zenon DEF StreamSet
<1>3. data \in Seq(Int) /\ Len(data) = len /\ \A k \in 1..len : data[k] \in Int
  OBVIOUS
<1> HIDE DEF data
<1>4. count \in Int /\ count <= len
  BY <1>2, <1>3 DEF Least, RemainingCapacity, BufferSize
<1>5. new = [st EXCEPT !.queue = @ \o SubSeq(data, 1, count), !.bytes_written = @ + count]
  BY Zenon DEF WriteStream
<1> HIDE DEF count, new
<1>6. SubSeq(data, 1, count) \in Seq(Int)
  <2>1. \A i \in 1..count : data[i] \in Int
    BY <1>3, <1>4
  <2> QED BY <1>4, <2>1, SubSeqProperties
<1>7. queue \in Seq(Int) /\ st.bytes_written + count \in Int
  BY <1>2, <1>4, <1>6
<1>8. new \in StreamSet
  BY <1>1, <1>5, <1>7, Zenon DEF StreamSet
<1>9. Inv([s EXCEPT !.stream = new])
  BY <1>8, SetStream, Zenon
<1> QED BY <1>9, Zenon DEF new, data

LEMMA InitInv == Init => Inv(snd)
<1> SUFFICES ASSUME Init PROVE Inv(snd)
  OBVIOUS
<1> DEFINE timer == [rto |-> RetxTimeout, countdown |-> RetxTimeout, timing |-> FALSE, consecutive_rx |-> 0]
           stream == NewStream(Capacity)
<1>1. timer \in TimerSet /\ ~timer.timing
  BY SendingAssumption DEF TimerSet
<1>2. stream \in StreamSet
  BY SendingAssumption DEF StreamSet, NewStream
<1>3. snd = [isn |-> Isn, initial_timeout |-> RetxTimeout, timer |-> timer,
             stream |-> stream, next_seqno |-> 0, sent_syn |-> FALSE, sent_all |-> FALSE,
             window_begin |-> 0, window_size |-> 1, actual_zero_window_size |-> FALSE,
             bytes_in_flight |-> 0, checkpoint |-> 0,
             outstanding_segs |-> <<>>, segments_out |-> <<>>]
  BY Zenon DEF Init, NewSender
<1> HIDE DEF timer, stream
<1>4. /\ <<>> \in Seq(OutstandingSet) /\ <<>> \in Seq(SegmentSet) /\ 0 \in Nat /\ 1 \in Nat \ {0}
      /\ RetxTimeout \in Nat \ {0} /\ Isn \in Wrapping
  BY SendingAssumption
<1>5. IsSender(snd)
  BY <1>1, <1>2, <1>3, <1>4 DEF IsSender, SenderSet
<1>6. snd.checkpoint = 0 /\ snd.next_seqno = 0 /\ snd.outstanding_segs = <<>> /\ snd.timer = timer
  BY <1>3
<1>7. Covered(snd) /\ Timed(snd)
  BY <1>1, <1>6 DEF Covered, Timed
<1> QED BY <1>5, <1>6, <1>7 DEF Inv

\* Every call on the sender preserves the invariant, whatever the owner and
\* the peer do in between.
LEMMA NextInv == Inv(snd) /\ [Next]_snd => Inv(snd)'
<1> SUFFICES ASSUME Inv(snd), [Next]_snd PROVE Inv(snd')
  OBVIOUS
<1> DEFINE s == Drained
<1>1. Inv(s) /\ IsSender(s)
  <2>1. <<>> \in Seq(SegmentSet)
    OBVIOUS
  <2> QED BY <2>1, SetSegmentsOut DEF Drained, Inv
<1> HIDE DEF s
<1>2. ASSUME NEW len \in 1..Capacity, WriteBytes(len) PROVE Inv(snd')
  <2> DEFINE first == snd.stream.bytes_written
             data == [k \in 1..len |-> first + k - 1]
  <2>1. first \in Int /\ len \in Nat
    <3>1. snd.stream \in StreamSet
      BY SenderFields DEF Inv
    <3> QED BY <3>1, SendingAssumption DEF StreamSet
  <2>2. snd' = [s EXCEPT !.stream = WriteStream(@, data)]
    BY <1>2, Zenon DEF WriteBytes, s
  <2> HIDE DEF first
  <2>3. Inv([s EXCEPT !.stream = WriteStream(@, data)])
    BY <1>1, <2>1, WriteInv, Zenon
  <2> QED BY <2>2, <2>3, Zenon
<1>3. CASE EndStream
  <2> DEFINE st == EndInput(s.stream)
  <2>1. s.stream \in StreamSet
    BY <1>1, SenderFields, Zenon
  <2>2. st \in StreamSet
    BY <2>1, Zenon DEF EndInput, StreamSet
  <2>3. snd' = [s EXCEPT !.stream = st]
    BY <1>3, Zenon DEF EndStream, s
  <2>4. Inv([s EXCEPT !.stream = st])
    BY <1>1, <2>2, SetStream, Zenon
  <2> QED BY <2>3, <2>4, Zenon
<1>4. CASE FillWindow
  BY <1>1, <1>4, FillInv DEF FillWindow, s
<1>5. ASSUME NEW n \in 1 .. Length + 3, NEW win \in 0..MaxWin, Ack(n, win) PROVE Inv(snd')
  <2>1. n \in Nat /\ win \in Nat /\ Isn \in Wrapping
    BY SendingAssumption
  <2>2. wrap(n, Isn) \in Int
    BY <2>1, WrapInt
  <2>3. Inv(ack_received(s, wrap(n, Isn), win))
    BY <1>1, <2>1, <2>2, AckInv
  <2> QED BY <1>5, <2>3 DEF Ack, s
<1>6. ASSUME NEW ms \in 1..RetxTimeout, Tick(ms) PROVE Inv(snd')
  <2>1. ms \in Nat
    BY SendingAssumption
  <2>2. Inv(sender_tick(s, ms))
    BY <1>1, <2>1, TickInv
  <2> QED BY <1>6, <2>2 DEF Tick, s
<1>7. CASE SendEmpty
  <2> DEFINE seg == Segment(wrap(s.next_seqno, s.isn), FALSE, FALSE, <<>>)
  <2>1. s.next_seqno \in Nat /\ s.isn \in Wrapping /\ s.segments_out \in Seq(SegmentSet)
    BY <1>1, SenderFields, Zenon
  <2>2. wrap(s.next_seqno, s.isn) \in Int
    BY <2>1, WrapInt
  <2>3. seg \in SegmentSet
    BY <2>2 DEF Segment, SegmentSet
  <2> HIDE DEF seg
  <2> DEFINE out == Append(s.segments_out, seg)
  <2>4. out \in Seq(SegmentSet)
    BY <2>1, <2>3
  <2>5. snd' = [s EXCEPT !.segments_out = out]
    BY <1>7, Zenon DEF SendEmpty, send_empty_segment, s, seg
  <2>6. Inv([s EXCEPT !.segments_out = out])
    BY <1>1, <2>4, SetSegmentsOut, Zenon
  <2> QED BY <2>5, <2>6, Zenon
<1>8. CASE UNCHANGED snd
  BY <1>8
<1> QED BY <1>2, <1>3, <1>4, <1>5, <1>6, <1>7, <1>8 DEF Next

LEMMA AlwaysInv == Spec => []Inv(snd)
  BY InitInv, NextInv, PTL DEF Spec

\* What the peer has not acknowledged can always be resent: through every
\* interleaving of writes, fill_window(), late, repeated and unacceptable
\* acknowledgments and timeouts, outstanding_segs_ covers the numbers from
\* the first unacknowledged segment to next_seqno_ without gap or overlap.
THEOREM UnackedAlwaysOutstanding == Spec => []UnackedIsOutstanding
<1>1. Inv(snd) => UnackedIsOutstanding
  BY DEF Inv, Covered, UnackedIsOutstanding, segs
<1> QED BY <1>1, AlwaysInv, PTL

\* The assertions of tick() hold: the timer runs exactly while a segment is
\* outstanding and is never left expired, so that something sent and not
\* acknowledged is always going to be resent.
THEOREM TimerAlwaysRuns == Spec => []TimerRunsIffOutstanding
<1>1. Inv(snd) => TimerRunsIffOutstanding
  BY DEF Inv, Timed, TimerRunsIffOutstanding, segs
<1> QED BY <1>1, AlwaysInv, PTL

-----------------------------------------------------------------------------
(* What is in flight: the bytes the outstanding segments hold, the counter *)
(* bytes_in_flight_ and the window.  These rest on Inv, on the position of *)
(* the stream that next_seqno_ stands for, and on the sum that LengthOf    *)
(* computes for consecutive segments.                                      *)

\* The lengths of consecutive segments add up to the distance between their
\* ends: the recursive sum satisfies its equation, since the distances do,
\* and differs from them nowhere, since it would differ at a least place.
LEMMA LengthOfSegments ==
  ASSUME NEW q \in Seq(OutstandingSet), q # <<>>,
         \A k \in 1 .. Len(q) - 1 : abs_seqno_at_end(q[k]) = q[k + 1].abs_seqno
  PROVE  LengthOf(q) = abs_seqno_at_end(q[Len(q)]) - q[1].abs_seqno
<1> DEFINE N == Len(q)
           len(n) == length_in_sequence_space(q[n].segment)
           pos(n) == q[n].abs_seqno
           Sum(f) == f = [n \in 0..N |-> IF n = 0 THEN 0 ELSE f[n - 1] + len(n)]
           g == [n \in 0..N |-> IF n = 0 THEN 0 ELSE pos(n) + len(n) - pos(1)]
           sum == CHOOSE f : Sum(f)
           Wrong == {n \in 0..N : sum[n] # g[n]}
<1>1. LengthOf(q) = sum[N]
  BY Zenon DEF LengthOf
<1>2. N \in Nat \ {0} /\ \A n \in 1..N : len(n) \in Nat /\ pos(n) \in Nat
  <2>1. N \in Nat \ {0} /\ \A n \in 1..N : q[n] \in OutstandingSet
    OBVIOUS
  <2> QED BY <2>1, EndNat DEF OutstandingSet
<1>3. \A n \in 1 .. N - 1 : pos(n) + len(n) = pos(n + 1)
  BY DEF abs_seqno_at_end
<1>4. abs_seqno_at_end(q[N]) = pos(N) + len(N)
  BY DEF abs_seqno_at_end
<1> HIDE DEF N, len, pos
<1>5. \A n \in 0..N : n = 0 \/ n \in 1..N
  BY <1>2
<1>6. g[0] = 0 /\ \A n \in 1..N : g[n] = pos(n) + len(n) - pos(1)
  BY <1>2
<1>7. \A n \in 1..N : g[n] = g[n - 1] + len(n)
  <2> SUFFICES ASSUME NEW n \in 1..N PROVE g[n] = g[n - 1] + len(n)
    BY Zenon
  <2> HIDE DEF g
  <2>1. CASE n = 1
    BY <1>2, <1>6, <2>1
  <2>2. CASE n > 1
    <3>1. n - 1 \in 1 .. N - 1 /\ (n - 1) + 1 = n /\ n - 1 \in 1..N
      BY <1>2, <2>2
    <3>2. pos(n - 1) + len(n - 1) = pos(n)
      BY <1>3, <3>1
    <3>3. g[n - 1] = pos(n - 1) + len(n - 1) - pos(1) /\ g[n] = pos(n) + len(n) - pos(1)
      BY <1>6, <3>1
    <3>4. pos(n) \in Nat /\ len(n) \in Nat /\ pos(1) \in Nat /\ pos(n - 1) \in Nat /\ len(n - 1) \in Nat
      BY <1>2, <3>1
    <3> QED BY <3>2, <3>3, <3>4, SMTT(30), SMTT(90)
  <2> QED BY <2>1, <2>2
<1>8. Sum(g)
  <2>1. \A n \in 0..N : g[n] = IF n = 0 THEN 0 ELSE g[n - 1] + len(n)
    BY <1>5, <1>6, <1>7, Zenon
  <2>2. g = [n \in 0..N |-> g[n]]
    BY Zenon
  <2> HIDE DEF g
  <2> QED BY <2>1, <2>2, Zenon
<1> HIDE DEF Sum, g
<1>9. Sum(sum)
  BY <1>8, Zenon
<1> HIDE DEF sum
<1>10. sum[0] = 0 /\ \A n \in 1..N : sum[n] = sum[n - 1] + len(n)
  <2>1. \A n \in 0..N : sum[n] = IF n = 0 THEN 0 ELSE sum[n - 1] + len(n)
    BY <1>9, Zenon DEF Sum
  <2>2. 0 \in 0..N /\ \A n \in 1..N : n \in 0..N /\ n # 0
    BY <1>2
  <2> QED BY <2>1, <2>2
<1>11. Wrong = {}
  <2> SUFFICES ASSUME Wrong # {} PROVE FALSE
    OBVIOUS
  <2>1. Wrong \subseteq Nat
    BY <1>2
  <2>2. PICK m \in Wrong : \A n \in Wrong : m <= n
    BY <2>1, NatMin, Zenon
  <2>3. m \in 0..N /\ sum[m] # g[m] /\ \A n \in 0..N : n < m => sum[n] = g[n]
    BY <2>1, <2>2
  <2>4. m \in 1..N /\ m - 1 \in 0..N /\ m - 1 < m
    BY <1>2, <1>6, <1>10, <2>3
  <2> QED BY <1>7, <1>10, <2>3, <2>4
<1>12. sum[N] = g[N] /\ N \in 1..N
  BY <1>2, <1>11
<1>13. LengthOf(q) = abs_seqno_at_end(q[N]) - pos(1)
  BY <1>1, <1>2, <1>4, <1>6, <1>12, SMTT(30), SMTT(90)
<1> QED BY <1>13 DEF N, pos

LEMMA LengthOfNone == LengthOf(<<>>) = 0
<1> DEFINE Sum(f) == f = [n \in 0..Len(<<>>) |->
                            IF n = 0 THEN 0
                            ELSE f[n - 1] + length_in_sequence_space(<<>>[n].segment)]
           g == [n \in 0..0 |-> 0]
           sum == CHOOSE f : Sum(f)
<1>1. LengthOf(<<>>) = sum[0]
  <2>1. LengthOf(<<>>) = sum[Len(<<>>)]
    BY Zenon DEF LengthOf
  <2> QED BY <2>1
<1>2. Sum(g)
  <2>1. 0..Len(<<>>) = {0} /\ 0..0 = {0}
    OBVIOUS
  <2> QED BY <2>1, Zenon
<1> HIDE DEF Sum
<1>3. Sum(sum)
  BY <1>2, Zenon
<1> HIDE DEF sum
<1>4. 0 \in 0..Len(<<>>)
  OBVIOUS
<1>5. sum[0] = 0
  BY <1>3, <1>4, Zenon DEF Sum
<1> QED BY <1>1, <1>5

\* The bytes in the queue are those after the ones read: byte i is i.
Queued(st) ==
  /\ st.bytes_read \in Nat /\ Len(st.queue) <= st.capacity
  /\ st.bytes_written = st.bytes_read + Len(st.queue)
  /\ \A i \in 1..Len(st.queue) : st.queue[i] = st.bytes_read + i - 1

\* A segment that holds the bytes of its position in the stream.
Placed(o, isn, ended, written) ==
  /\ o.segment.seqno = wrap(o.abs_seqno, isn)
  /\ Len(o.segment.payload) <= MAX_PAYLOAD_SIZE
  /\ o.segment.syn <=> o.abs_seqno = 0
  /\ o.segment.payload = [i \in 1..Len(o.segment.payload) |-> o.abs_seqno + i - 2]
  /\ o.segment.fin => ended /\ abs_seqno_at_end(o) = written + 2

AllPlaced(q, isn, st) ==
  \A k \in 1..Len(q) : Placed(q[k], isn, st.input_ended, st.bytes_written)

FlightOf(q, next) == IF q = <<>> THEN 0 ELSE next - q[1].abs_seqno

\* next_seqno_ is the position of the stream: SYN, the bytes read, FIN.
Positioned(st, next, syn, all) ==
  /\ ~syn => next = 0 /\ st.bytes_read = 0 /\ ~all
  /\ syn => next = 1 + st.bytes_read + Flag(all)
  /\ all => st.input_ended /\ st.queue = <<>>

Data(s) ==
  /\ s.isn = Isn /\ Queued(s.stream)
  /\ AllPlaced(s.outstanding_segs, s.isn, s.stream)
  /\ Positioned(s.stream, s.next_seqno, s.sent_syn, s.sent_all)
  /\ s.bytes_in_flight = FlightOf(s.outstanding_segs, s.next_seqno)

LEMMA DataFrom ==
  ASSUME NEW s, NEW t, Data(s), t.isn = s.isn, t.stream = s.stream, t.next_seqno = s.next_seqno,
         t.sent_syn = s.sent_syn, t.sent_all = s.sent_all,
         t.outstanding_segs = s.outstanding_segs, t.bytes_in_flight = s.bytes_in_flight
  PROVE  Data(t)
  BY Zenon DEF Data

\* The fields that send() leaves alone, and the flight after it.
LEMMA SendKeeps ==
  ASSUME NEW s, IsSender(s), NEW batch, batch # <<>>
  PROVE  LET t == send(s, batch)
         IN  /\ t.isn = s.isn /\ t.stream = s.stream
             /\ t.sent_syn = s.sent_syn /\ t.sent_all = s.sent_all
             /\ t.bytes_in_flight = s.bytes_in_flight + LengthOf(batch)
<1> DEFINE t == send(s, batch)
<1>1. t.isn = s.isn /\ t.stream = s.stream
  BY ZenonT(90) DEF IsSender, SenderSet, send
<1>2. t.sent_syn = s.sent_syn /\ t.sent_all = s.sent_all
  BY ZenonT(90) DEF IsSender, SenderSet, send
<1>3. t.bytes_in_flight = s.bytes_in_flight + LengthOf(batch)
  BY ZenonT(90) DEF IsSender, SenderSet, send
<1> QED BY <1>1, <1>2, <1>3

\* Sending a batch of placed segments keeps the flight exact.
LEMMA SendFlight ==
  ASSUME NEW s, Inv(s), Data(s), NEW batch, GoodBatch(s, batch),
         \A k \in 1..Len(batch) : Placed(batch[k], s.isn, s.stream.input_ended, s.stream.bytes_written)
  PROVE  LET t == send(s, batch)
         IN  /\ AllPlaced(t.outstanding_segs, s.isn, s.stream)
             /\ t.bytes_in_flight = FlightOf(t.outstanding_segs, t.next_seqno)
<1> DEFINE t == send(s, batch)
           old == s.outstanding_segs
           new == t.outstanding_segs
           first == batch[1].abs_seqno
           last == abs_seqno_at_end(batch[Len(batch)])
<1>1. /\ IsSender(s) /\ batch \in Seq(OutstandingSet) /\ batch # <<>>
      /\ first = s.next_seqno
      /\ \A k \in 1 .. Len(batch) - 1 : abs_seqno_at_end(batch[k]) = batch[k + 1].abs_seqno
  BY DEF Inv, GoodBatch
<1>2. /\ new = old \o batch /\ t.next_seqno = last
      /\ t.bytes_in_flight = s.bytes_in_flight + LengthOf(batch)
  <2>1. t = send(s, batch) /\ IsSender(s) /\ batch # <<>>
    BY <1>1
  <2>2. t.bytes_in_flight = s.bytes_in_flight + LengthOf(batch)
    BY <1>1, SendKeeps, Zenon
  <2> HIDE DEF t
  <2>3. new = old \o batch /\ t.next_seqno = last
    BY <2>1, SendFields, Zenon
  <2> QED BY <2>2, <2>3
<1>3. old \in Seq(OutstandingSet) /\ s.next_seqno \in Nat
  BY <1>1, SenderFields, Zenon
<1>4. LengthOf(batch) = last - first
  BY <1>1, LengthOfSegments, Zenon
<1>5. last \in Nat /\ first \in Nat
  <2>1. batch[Len(batch)] \in OutstandingSet
    BY <1>1
  <2> QED BY <2>1, <1>1, <1>3, EndNat
<1> HIDE DEF t, old, new, last, first
<1>6. /\ new # <<>> /\ Len(new) = Len(old) + Len(batch) /\ Len(batch) > 0
      /\ \A k \in 1..Len(old) : new[k] = old[k]
      /\ \A k \in 1..Len(batch) : new[Len(old) + k] = batch[k]
  BY <1>1, <1>2, <1>3, SMTT(30), SMTT(90)
<1>7. AllPlaced(new, s.isn, s.stream)
  <2> DEFINE P(o) == Placed(o, s.isn, s.stream.input_ended, s.stream.bytes_written)
  <2>1. \A k \in 1..Len(old) : P(old[k])
    BY Zenon DEF Data, AllPlaced, old
  <2>2. \A k \in 1..Len(batch) : P(batch[k])
    OBVIOUS
  <2> SUFFICES ASSUME NEW k \in 1..Len(new) PROVE P(new[k])
    BY DEF AllPlaced
  <2> HIDE DEF P
  <2>3. Len(old) \in Nat /\ Len(batch) \in Nat
    BY <1>1, <1>3
  <2>4. CASE k <= Len(old)
    BY <1>6, <2>1, <2>3, <2>4, SMTT(30), SMTT(90)
  <2>5. CASE k > Len(old)
    <3> DEFINE j == k - Len(old)
    <3>1. j \in 1..Len(batch) /\ k = Len(old) + j
      BY <1>6, <2>3, <2>5
    <3> HIDE DEF j
    <3> QED BY <1>6, <2>2, <3>1
  <2> QED BY <2>3, <2>4, <2>5
<1>8. t.bytes_in_flight = FlightOf(new, t.next_seqno)
  <2>1. s.bytes_in_flight = IF old = <<>> THEN 0 ELSE s.next_seqno - old[1].abs_seqno
    BY DEF Data, FlightOf, old
  <2>2. CASE old = <<>>
    <3>1. new[1].abs_seqno = first /\ s.bytes_in_flight = 0
      BY <1>6, <2>1, <2>2 DEF first
    <3> QED BY <1>2, <1>4, <1>5, <1>6, <3>1 DEF FlightOf
  <2>3. CASE old # <<>>
    <3>1. new[1].abs_seqno = old[1].abs_seqno /\ old[1].abs_seqno \in Nat
      <4>1. 1 \in 1..Len(old) /\ old[1] \in OutstandingSet
        BY <1>3, <2>3
      <4> QED BY <4>1, <1>6 DEF OutstandingSet
    <3>2. s.bytes_in_flight = s.next_seqno - old[1].abs_seqno
      BY <2>1, <2>3
    <3>3. first = s.next_seqno
      BY <1>1 DEF first
    <3> DEFINE a == old[1].abs_seqno
               flight == t.bytes_in_flight
    <3>4. flight = s.bytes_in_flight + (last - first) /\ s.bytes_in_flight = first - a /\ a \in Nat
      BY <1>2, <1>4, <3>1, <3>2, <3>3, ZenonT(60), SMTT(60)
    <3> HIDE DEF a, flight
    <3>5. flight = last - a
      BY <1>5, <3>4
    <3> QED BY <1>2, <1>6, <3>1, <3>5 DEF FlightOf, a, flight
  <2> QED BY <2>2, <2>3
<1> QED BY <1>7, <1>8 DEF new, t

\* What connect() and the FIN of an empty stream put in their segment.
LEMMA OneNumberData ==
  ASSUME NEW s, Inv(s), Data(s), NEW syn \in BOOLEAN, NEW fin \in BOOLEAN,
         Flag(syn) + Flag(fin) = 1, syn <=> s.next_seqno = 0,
         fin => s.stream.input_ended /\ s.next_seqno + 1 = s.stream.bytes_written + 2,
         NEW t, t = send(s, <<Outstanding(s, 0, syn, fin, <<>>)>>)
  PROVE  /\ AllPlaced(t.outstanding_segs, s.isn, s.stream)
         /\ t.bytes_in_flight = FlightOf(t.outstanding_segs, t.next_seqno)
         /\ t.next_seqno = s.next_seqno + 1
         /\ t.isn = s.isn /\ t.stream = s.stream
         /\ t.sent_syn = s.sent_syn /\ t.sent_all = s.sent_all
<1> DEFINE none == <<>>
           zero == 0
           o == Outstanding(s, zero, syn, fin, none)
           batch == <<o>>
<1>1. IsSender(s) /\ s.next_seqno \in Nat
  BY SenderFields, Zenon DEF Inv
<1>2. Len(none) = 0 /\ zero = 0 /\ none = <<>>
  OBVIOUS
<1>3. zero \in Nat /\ none \in Seq(Int) /\ IsSender(s)
  BY <1>1
<1>4. none = [i \in 1..0 |-> s.next_seqno + i - 2] /\ MAX_PAYLOAD_SIZE \in Nat
  BY PayloadAssumption
<1>5. /\ o.segment.payload = none /\ o.segment.syn = syn /\ o.segment.fin = fin
      /\ o.segment.seqno = wrap(s.next_seqno + zero, s.isn)
  BY Zenon DEF Outstanding, Segment
<1> HIDE DEF none, zero
<1>6. /\ o \in OutstandingSet /\ o.abs_seqno = s.next_seqno + zero
      /\ abs_seqno_at_end(o) = s.next_seqno + zero + (Len(none) + Flag(syn) + Flag(fin))
  BY <1>3, OutstandingFacts, SMT, SMTT(90)
<1> HIDE DEF o
<1>7. o.abs_seqno = s.next_seqno /\ abs_seqno_at_end(o) = s.next_seqno + 1
  <2>1. Flag(syn) \in Nat /\ Flag(fin) \in Nat
    BY DEF Flag
  <2> QED BY <2>1, <1>1, <1>2, <1>6, SMTT(30), SMTT(90)
<1>8. s.next_seqno + zero = s.next_seqno
  BY <1>1, <1>2
<1>9. Placed(o, s.isn, s.stream.input_ended, s.stream.bytes_written)
  <2>1. o.segment.payload = [i \in 1..Len(o.segment.payload) |-> o.abs_seqno + i - 2]
    BY <1>2, <1>4, <1>5, <1>7
  <2>2. Len(o.segment.payload) <= MAX_PAYLOAD_SIZE
    BY <1>2, <1>4, <1>5
  <2>3. o.segment.seqno = wrap(o.abs_seqno, s.isn)
    BY <1>5, <1>7, <1>8, ZenonT(60), SMTT(60)
  <2>4. o.segment.syn <=> o.abs_seqno = 0
    BY <1>5, <1>7
  <2>5. o.segment.fin => s.stream.input_ended /\ abs_seqno_at_end(o) = s.stream.bytes_written + 2
    BY <1>5, <1>7
  <2> QED BY <2>1, <2>2, <2>3, <2>4, <2>5, ZenonT(60), SMTT(60) DEF Placed
<1>10. batch \in Seq(OutstandingSet) /\ batch # <<>> /\ Len(batch) = 1 /\ batch[1] = o
  BY <1>6
<1>11. t = send(s, batch)
  BY <1>2 DEF o, none, zero
<1> HIDE DEF batch
<1>12. GoodBatch(s, batch)
  BY <1>1, <1>7, <1>10, SMTT(30), SMTT(90) DEF GoodBatch
<1>13. /\ AllPlaced(t.outstanding_segs, s.isn, s.stream)
       /\ t.bytes_in_flight = FlightOf(t.outstanding_segs, t.next_seqno)
  BY <1>9, <1>10, <1>11, <1>12, SendFlight, SMTT(30), SMTT(90)
<1>14. t.next_seqno = s.next_seqno + 1
  BY <1>1, <1>7, <1>10, <1>11, SendFields, SMTT(30), SMTT(90)
<1>15. batch # <<>> /\ IsSender(s)
  BY <1>1, <1>10
<1>16. t.isn = s.isn /\ t.stream = s.stream /\ t.sent_syn = s.sent_syn /\ t.sent_all = s.sent_all
  BY <1>11, <1>15, SendKeeps, SMTT(30), SMTT(90)
<1> QED BY <1>13, <1>14, <1>16

LEMMA ConnectData ==
  ASSUME NEW s, Inv(s), Data(s), ~s.sent_syn
  PROVE  Data(connect(s)) /\ connect(s).next_seqno = 1
<1> DEFINE u == send(s, <<Outstanding(s, 0, TRUE, FALSE, <<>>)>>)
           t == connect(s)
<1>1. Flag(TRUE) + Flag(FALSE) = 1 /\ Flag(FALSE) + Flag(TRUE) = 1 /\ TRUE \in BOOLEAN /\ FALSE \in BOOLEAN
  BY DEF Flag
<1>2. /\ s.isn = Isn /\ Queued(s.stream)
      /\ s.next_seqno = 0 /\ s.stream.bytes_read = 0 /\ ~s.sent_all
  BY Zenon DEF Data, Positioned
<1>3. /\ AllPlaced(u.outstanding_segs, s.isn, s.stream)
      /\ u.bytes_in_flight = FlightOf(u.outstanding_segs, u.next_seqno)
      /\ u.next_seqno = s.next_seqno + 1
      /\ u.isn = s.isn /\ u.stream = s.stream
      /\ u.sent_syn = s.sent_syn /\ u.sent_all = s.sent_all
  BY <1>1, <1>2, OneNumberData, Zenon
<1>4. Inv(u) /\ IsSender(u)
  BY <1>1, OneNumberInv, Zenon DEF Inv
<1>5. t = [u EXCEPT !.sent_syn = TRUE]
  BY DEF connect
<1> HIDE DEF u, t
<1>6. /\ t.outstanding_segs = u.outstanding_segs /\ t.bytes_in_flight = u.bytes_in_flight
      /\ t.next_seqno = u.next_seqno /\ t.isn = u.isn /\ t.stream = u.stream
      /\ t.sent_syn = TRUE /\ t.sent_all = u.sent_all
  BY <1>4, <1>5, Zenon DEF IsSender, SenderSet
<1>7. t.next_seqno = 1
  BY <1>2, <1>3, <1>6
<1>8. Positioned(t.stream, t.next_seqno, t.sent_syn, t.sent_all)
  <2>1. t.next_seqno = 1 /\ t.sent_syn = TRUE /\ ~t.sent_all /\ t.stream.bytes_read = 0
    BY <1>2, <1>3, <1>6, <1>7
  <2>2. 1 = 1 + 0 + Flag(FALSE)
    BY DEF Flag
  <2> QED BY <2>1, <2>2 DEF Positioned, Flag
<1> QED BY <1>2, <1>3, <1>6, <1>7, <1>8, ZenonT(60), SMTT(60) DEF Data, t

\* The stream is over: FIN takes the number after the last byte.
LEMMA SendFinData ==
  ASSUME NEW s, Inv(s), Data(s), s.sent_syn, ~s.sent_all, Eof(s.stream)
  PROVE  Data(SendFin(s)) /\ SendFin(s).next_seqno = s.next_seqno + 1
<1> DEFINE u == send(s, <<Outstanding(s, 0, FALSE, TRUE, <<>>)>>)
           t == SendFin(s)
           st == s.stream
<1>1. Flag(TRUE) + Flag(FALSE) = 1 /\ Flag(FALSE) + Flag(TRUE) = 1 /\ TRUE \in BOOLEAN /\ FALSE \in BOOLEAN
  BY DEF Flag
<1>2. /\ s.isn = Isn /\ Queued(st) /\ Positioned(st, s.next_seqno, s.sent_syn, s.sent_all)
  BY Zenon DEF Data
<1>3. st.queue \in Seq(Int) /\ IsSender(s)
  BY SenderFields, Zenon DEF Inv, StreamSet
<1>4. st.input_ended /\ st.queue = <<>>
  BY <1>3 DEF Eof, BufferSize
<1>5. /\ s.next_seqno = st.bytes_read + 1 /\ st.bytes_read \in Nat
      /\ st.bytes_written = st.bytes_read
  BY <1>1, <1>2, <1>4 DEF Queued, Positioned, Flag
<1> HIDE DEF st
<1>6. s.next_seqno # 0 /\ s.next_seqno + 1 = st.bytes_written + 2 /\ s.next_seqno + 1 = st.bytes_read + 2
  BY <1>5
<1>7. /\ AllPlaced(u.outstanding_segs, s.isn, s.stream)
      /\ u.bytes_in_flight = FlightOf(u.outstanding_segs, u.next_seqno)
      /\ u.next_seqno = s.next_seqno + 1
      /\ u.isn = s.isn /\ u.stream = s.stream
      /\ u.sent_syn = s.sent_syn /\ u.sent_all = s.sent_all
  BY <1>1, <1>4, <1>6, OneNumberData, ZenonT(90) DEF st
<1>8. Inv(u) /\ IsSender(u)
  BY <1>1, OneNumberInv, Zenon DEF Inv
<1>9. t = [u EXCEPT !.sent_all = TRUE]
  BY DEF SendFin
<1> HIDE DEF u, t
<1>10. /\ t.outstanding_segs = u.outstanding_segs /\ t.bytes_in_flight = u.bytes_in_flight
       /\ t.next_seqno = u.next_seqno /\ t.isn = u.isn /\ t.stream = u.stream
       /\ t.sent_syn = u.sent_syn /\ t.sent_all = TRUE
  BY <1>8, <1>9, Zenon DEF IsSender, SenderSet
<1>11. Positioned(t.stream, t.next_seqno, t.sent_syn, t.sent_all)
  <2>1. /\ t.next_seqno = st.bytes_read + 2 /\ t.stream = st /\ t.sent_all = TRUE
        /\ t.sent_syn = s.sent_syn
    BY <1>6, <1>7, <1>10 DEF st
  <2>2. st.bytes_read + 2 = 1 + st.bytes_read + Flag(TRUE)
    BY <1>5 DEF Flag
  <2> QED BY <1>4, <2>1, <2>2, Zenon DEF Positioned
<1> QED BY <1>2, <1>7, <1>10, <1>11, Zenon DEF Data, t, st

\* The k-th segment of the loop of fill_window() carries the bytes of its
\* position, and the last one ends where the bytes taken (and FIN) end.
LEMMA BatchContent ==
  ASSUME NEW s, Inv(s), Data(s), s.sent_syn, ~s.sent_all, WindowRoom(s) > 0, SendSize(s) > 0,
         NEW k \in 1..BatchSize(s)
  PROVE  LET o == DataBatch(s)[k]
         IN  /\ Placed(o, s.isn, s.stream.input_ended, s.stream.bytes_written)
             /\ k = BatchSize(s) => abs_seqno_at_end(o) = s.next_seqno + SendSize(s) + Flag(SendEof(s))
<1> DEFINE M == MAX_PAYLOAD_SIZE
           total == SendSize(s)
           n == BatchSize(s)
           queue == s.stream.queue
           read == s.stream.bytes_read
           next == s.next_seqno
           offset == (k - 1) * M
           hi == Least(offset + M, total)
           eof == SendEof(s)
           fin == eof /\ k = n
           no == FALSE
           payload == SubSeq(queue, offset + 1, hi)
           o == Outstanding(s, offset, no, fin, payload)
<1>1. M \in Nat \ {0} /\ next \in Nat /\ IsSender(s)
  BY PayloadAssumption, SenderFields DEF Inv
<1>2. total \in Nat /\ total <= Len(queue) /\ queue \in Seq(Int) /\ total > 0 /\ eof \in BOOLEAN
  BY <1>1, SendSizeFacts
<1>3. n \in Nat /\ n >= 1 /\ (n - 1) * M < total /\ total <= n * M
  BY <1>1, <1>2, CeilFacts, Zenon DEF BatchSize
<1>4. DataBatch(s)[k] = o
  BY Zenon DEF DataBatch
<1>5. k \in 1..n
  OBVIOUS
<1>6. /\ read \in Nat /\ s.stream.bytes_written = read + Len(queue)
      /\ \A i \in 1..Len(queue) : queue[i] = read + i - 1
  BY DEF Data, Queued
<1>7. next = 1 + read
  <2>1. next = 1 + read + Flag(FALSE)
    BY DEF Data, Positioned, Flag
  <2> QED BY <2>1, <1>6 DEF Flag
<1>8. eof => s.stream.input_ended /\ total = Len(queue)
  BY Zenon DEF SendEof, BufferSize
<1>9. fin \in BOOLEAN /\ no \in BOOLEAN /\ Flag(no) = 0 /\ Flag(fin) \in {0, 1}
  <2>1. fin \in BOOLEAN /\ no \in BOOLEAN
    OBVIOUS
  <2>2. Flag(no) = 0 /\ Flag(fin) \in {0, 1}
    BY DEF Flag
  <2> QED BY <2>1, <2>2, Zenon
<1>10. k = n => Flag(fin) = Flag(eof)
  BY Zenon DEF Flag
<1>11. fin => eof /\ k = n /\ Flag(fin) = 1
  BY Zenon DEF Flag
<1> HIDE DEF M, total, n, queue, read, next, eof
<1>12. /\ offset \in Nat /\ offset <= (n - 1) * M /\ offset + M = k * M
  BY <1>1, <1>3, <1>5, Multiples, ZenonT(60), SMTT(60)
<1> HIDE DEF offset
<1>13. (n - 1) * M \in Int /\ n * M \in Int
  BY <1>1, <1>3
<1>14. /\ hi \in Nat /\ offset < hi /\ hi <= total /\ hi <= offset + M
       /\ k = n => hi = total
  BY <1>1, <1>2, <1>3, <1>12, <1>13, SMTT(30), SMTT(90) DEF Least
<1> HIDE DEF hi, fin, no
<1>15. /\ payload \in Seq(Int) /\ Len(payload) = hi - offset
       /\ \A i \in 1 .. hi - offset : payload[i] = queue[offset + i]
  <2>1. offset + 1 \in Int /\ hi \in Int /\ \A i \in offset + 1 .. hi : queue[i] \in Int
    BY <1>2, <1>12, <1>14, SMTT(30), SMTT(90)
  <2>2. /\ payload \in Seq(Int)
        /\ Len(payload) = IF offset + 1 <= hi THEN hi - (offset + 1) + 1 ELSE 0
        /\ \A i \in 1 .. hi - (offset + 1) + 1 : payload[i] = queue[(offset + 1) + i - 1]
    BY <2>1, SubSeqProperties
  <2> HIDE DEF payload
  <2>3. \A i \in 1 .. hi - offset : (offset + 1) + i - 1 = offset + i /\ i \in 1 .. hi - (offset + 1) + 1
    BY <1>12, <1>14, SMTT(30), SMTT(90)
  <2>4. \A i \in 1 .. hi - offset : payload[i] = queue[offset + i]
    BY <2>2, <2>3
  <2> QED BY <1>12, <1>14, <2>2, <2>4, SMTT(30), SMTT(90)
<1>16. /\ o.segment.payload = payload /\ o.segment.syn = no /\ o.segment.fin = fin
       /\ o.segment.seqno = wrap(next + offset, s.isn)
  BY Zenon DEF Outstanding, Segment, next
<1> HIDE DEF payload
<1>17. /\ o.abs_seqno = next + offset
       /\ abs_seqno_at_end(o) = next + offset + (Len(payload) + Flag(no) + Flag(fin))
  <2>1. offset \in Nat /\ no \in BOOLEAN /\ fin \in BOOLEAN /\ payload \in Seq(Int) /\ IsSender(s)
    BY <1>1, <1>9, <1>12, <1>15, ZenonT(60), SMTT(60)
  <2> QED BY <2>1, OutstandingFacts, SMT, SMTT(30), SMTT(90) DEF next
<1> HIDE DEF o
<1>18. abs_seqno_at_end(o) = next + hi + Flag(fin)
  <2> DEFINE f == Flag(fin)
             z == Flag(no)
             end == abs_seqno_at_end(o)
  <2>1. z = 0 /\ f \in {0, 1} /\ end = next + offset + (Len(payload) + z + f)
    BY <1>9, <1>17, ZenonT(60), SMTT(60)
  <2> HIDE DEF f, z, end
  <2>2. end = next + hi + f
    BY <1>1, <1>12, <1>14, <1>15, <2>1, SMTT(30), SMTT(90)
  <2> QED BY <2>2 DEF f, end
<1>19. k = n => abs_seqno_at_end(o) = next + total + Flag(eof)
  BY <1>10, <1>14, <1>18, ZenonT(60), SMTT(60)
<1>20. Placed(o, s.isn, s.stream.input_ended, s.stream.bytes_written)
  <2>1. o.segment.seqno = wrap(o.abs_seqno, s.isn)
    BY <1>16, <1>17, ZenonT(60), SMTT(60)
  <2>2. Len(o.segment.payload) <= M
    BY <1>1, <1>12, <1>14, <1>15, <1>16, SMTT(30), SMTT(90)
  <2>3. o.segment.syn <=> o.abs_seqno = 0
    <3>1. o.abs_seqno # 0
      BY <1>6, <1>7, <1>12, <1>17, SMTT(30), SMTT(90)
    <3> QED BY <1>16, <3>1, ZenonT(60), SMTT(60) DEF no
  <2>4. o.segment.payload = [i \in 1..Len(o.segment.payload) |-> o.abs_seqno + i - 2]
    <3>1. \A i \in 1 .. hi - offset : payload[i] = next + offset + i - 2
      <4> SUFFICES ASSUME NEW i \in 1 .. hi - offset PROVE payload[i] = next + offset + i - 2
        OBVIOUS
      <4>1. offset + i \in 1..Len(queue) /\ i \in Int
        BY <1>2, <1>12, <1>14
      <4>2. payload[i] = read + (offset + i) - 1
        BY <1>6, <1>15, <4>1, Zenon
      <4> QED BY <1>6, <1>7, <1>12, <4>1, <4>2, SMTT(30), SMTT(90)
    <3>2. payload = [i \in 1..Len(payload) |-> payload[i]]
      BY <1>15
    <3>3. payload = [i \in 1..Len(payload) |-> next + offset + i - 2]
      BY <1>15, <3>1, <3>2
    <3> QED BY <1>16, <1>17, <3>3, ZenonT(60), SMTT(60)
  <2>5. o.segment.fin => s.stream.input_ended /\ abs_seqno_at_end(o) = s.stream.bytes_written + 2
    <3> SUFFICES ASSUME fin PROVE s.stream.input_ended /\ abs_seqno_at_end(o) = s.stream.bytes_written + 2
      BY <1>16
    <3>1. s.stream.input_ended /\ hi = Len(queue) /\ Flag(fin) = 1
      BY <1>8, <1>11, <1>14, Zenon
    <3>2. abs_seqno_at_end(o) = next + Len(queue) + 1
      BY <1>18, <3>1, Zenon
    <3>3. Len(queue) \in Nat
      BY <1>2
    <3> QED BY <1>6, <1>7, <3>1, <3>2, <3>3, SMTT(30), SMTT(90)
  <2> QED BY <2>1, <2>2, <2>3, <2>4, <2>5, ZenonT(60), SMTT(60) DEF Placed, M
<1> QED BY <1>4, <1>19, <1>20 DEF n, next, total, eof

\* pop_output() of n buffered bytes.
LEMMA PopQueued ==
  ASSUME NEW st \in StreamSet, Queued(st), NEW n \in 0..Len(st.queue), NEW u, u = PopStream(st, n)
  PROVE  /\ Queued(u) /\ u.bytes_read = st.bytes_read + n
         /\ Len(u.queue) = Len(st.queue) - n
         /\ u.bytes_written = st.bytes_written /\ u.input_ended = st.input_ended
<1> DEFINE q == st.queue
           left == SubSeq(q, n + 1, Len(q))
<1>1. q \in Seq(Int) /\ st.capacity \in Nat
  BY Zenon DEF StreamSet
<1>2. /\ u.queue = left /\ u.bytes_read = st.bytes_read + n /\ u.capacity = st.capacity
      /\ u.bytes_written = st.bytes_written /\ u.input_ended = st.input_ended
  BY Zenon DEF PopStream, StreamSet
<1>3. /\ left \in Seq(Int) /\ Len(left) = Len(q) - n
      /\ \A k \in 1 .. Len(q) - n : left[k] = q[n + k]
  BY <1>1, Suffix, Zenon
<1> HIDE DEF left
<1>4. /\ st.bytes_read \in Nat /\ Len(q) <= st.capacity /\ st.bytes_written = st.bytes_read + Len(q)
      /\ \A i \in 1..Len(q) : q[i] = st.bytes_read + i - 1
  BY DEF Queued
<1> HIDE DEF q
<1>5. Len(q) \in Nat /\ n \in Nat /\ n <= Len(q)
  BY <1>1 DEF q
<1>6. ASSUME NEW i \in 1..Len(left) PROVE left[i] = (st.bytes_read + n) + i - 1
  <2>1. n + i \in 1..Len(q) /\ i \in 1 .. Len(q) - n /\ i \in Int
    BY <1>3, <1>5
  <2>2. left[i] = st.bytes_read + (n + i) - 1
    BY <1>3, <1>4, <2>1
  <2> QED BY <1>4, <1>5, <2>1, <2>2, SMTT(30), SMTT(90)
<1>7. /\ st.bytes_read + n \in Nat /\ Len(left) <= st.capacity
      /\ st.bytes_written = (st.bytes_read + n) + Len(left)
  <2> DEFINE len == Len(q)
             rest == Len(left)
  <2>1. rest = len - n /\ len \in Nat /\ len <= st.capacity /\ st.bytes_written = st.bytes_read + len
    BY <1>3, <1>4, <1>5, ZenonT(60), SMTT(60)
  <2> HIDE DEF len, rest
  <2>2. /\ st.bytes_read + n \in Nat /\ rest <= st.capacity
        /\ st.bytes_written = (st.bytes_read + n) + rest
    BY <1>1, <1>4, <1>5, <2>1, SMTT(30), SMTT(90)
  <2> QED BY <2>2 DEF rest
<1>8. Queued(u)
  BY <1>2, <1>6, <1>7 DEF Queued
<1> QED BY <1>2, <1>3, <1>8 DEF q

\* What SendData() does to the sender, in one place: size numbers for the
\* bytes, and one more for FIN.
LEMMA SendDataFacts ==
  ASSUME NEW s, Inv(s), Data(s), s.sent_syn, ~s.sent_all, WindowRoom(s) > 0, ~Eof(s.stream),
         NEW t, t = SendData(s)
  PROVE  /\ t.isn = s.isn /\ t.sent_syn = s.sent_syn /\ t.sent_all = SendEof(s)
         /\ t.stream = PopStream(s.stream, SendSize(s))
         /\ t.next_seqno = s.next_seqno + SendSize(s) + Flag(SendEof(s))
         /\ AllPlaced(t.outstanding_segs, s.isn, s.stream)
         /\ t.bytes_in_flight = FlightOf(t.outstanding_segs, t.next_seqno)
<1> DEFINE batch == DataBatch(s)
           u == send(s, batch)
           n == BatchSize(s)
<1>1. IsSender(s) /\ s.next_seqno \in Nat
  BY SenderFields DEF Inv
<1>2. SendSize(s) \in Nat /\ SendEof(s) \in BOOLEAN
  BY <1>1, SendSizeFacts
<1>3. t = [u EXCEPT !.stream = PopStream(@, SendSize(s)), !.sent_all = SendEof(s)]
  BY DEF SendData
<1>4. /\ IsSender(u) /\ u.isn = s.isn /\ u.stream = s.stream /\ u.sent_syn = s.sent_syn
      /\ u.next_seqno = s.next_seqno + SendSize(s) + Flag(SendEof(s))
      /\ AllPlaced(u.outstanding_segs, s.isn, s.stream)
      /\ u.bytes_in_flight = FlightOf(u.outstanding_segs, u.next_seqno)
  <2>1. CASE SendSize(s) > 0
    <3>1. GoodBatch(s, batch)
      BY <1>1, <2>1, DataBatchGood, ZenonT(60), SMTT(60)
    <3>2. batch \in Seq(OutstandingSet) /\ batch # <<>>
      BY <3>1 DEF GoodBatch
    <3>3. n \in Nat /\ n >= 1
      BY <1>2, <2>1, PayloadAssumption, CeilFacts, ZenonT(60), SMTT(60) DEF BatchSize
    <3>4. Len(batch) = n
      BY <3>3 DEF DataBatch
    <3>5. \A k \in 1..n :
            /\ Placed(batch[k], s.isn, s.stream.input_ended, s.stream.bytes_written)
            /\ k = n => abs_seqno_at_end(batch[k]) = s.next_seqno + SendSize(s) + Flag(SendEof(s))
      BY <2>1, BatchContent, Zenon
    <3>6. u = send(s, batch)
      OBVIOUS
    <3> HIDE DEF u, n, batch
    <3>7. /\ AllPlaced(u.outstanding_segs, s.isn, s.stream)
          /\ u.bytes_in_flight = FlightOf(u.outstanding_segs, u.next_seqno)
      BY <3>1, <3>4, <3>5, <3>6, SendFlight, ZenonT(60), SMTT(60)
    <3>8. u.isn = s.isn /\ u.stream = s.stream /\ u.sent_syn = s.sent_syn
      <4>1. IsSender(s) /\ batch # <<>>
        BY <1>1, <3>2, ZenonT(60), SMTT(60)
      <4> QED BY <4>1, SendKeeps, Zenon DEF u
    <3>9. u.next_seqno = abs_seqno_at_end(batch[n])
      BY <1>1, <3>2, <3>4, <3>6, SendFields, ZenonT(60), SMTT(60)
    <3>10. n \in 1..n
      BY <3>3
    <3>11. u.next_seqno = s.next_seqno + SendSize(s) + Flag(SendEof(s))
      BY <3>5, <3>9, <3>10, ZenonT(60), SMTT(60)
    <3>12. IsSender(u)
      BY <1>1, <3>2, <3>6, SendIsSender
    <3> QED BY <3>7, <3>8, <3>11, <3>12, ZenonT(60), SMTT(60)
  <2>2. CASE SendSize(s) = 0
    <3>1. (0 + MAX_PAYLOAD_SIZE - 1) \div MAX_PAYLOAD_SIZE = 0
      BY PayloadAssumption
    <3>2. BatchSize(s) = 0
      BY <2>2, <3>1 DEF BatchSize
    <3>3. batch = <<>>
      BY <3>2 DEF DataBatch
    <3>4. u = s
      BY <3>3 DEF send
    <3>5. ~SendEof(s)
      <4>1. s.stream.queue \in Seq(Int)
        BY <1>1, SendSizeFacts
      <4>2. Len(s.stream.queue) = 0 => s.stream.queue = <<>>
        BY <4>1
      <4> QED BY <2>2, <4>2, Zenon DEF SendEof, Eof, BufferSize
    <3>6. Flag(SendEof(s)) = 0
      BY <3>5, Zenon DEF Flag
    <3>7. u.next_seqno = s.next_seqno + SendSize(s) + Flag(SendEof(s))
      BY <1>1, <2>2, <3>4, <3>6, SMTT(30), SMTT(90)
    <3> QED BY <1>1, <3>4, <3>7, Zenon DEF Data
  <2>3. SendSize(s) > 0 \/ SendSize(s) = 0
    BY <1>2
  <2> QED BY <2>1, <2>2, <2>3, ZenonT(90)
<1> HIDE DEF u
<1>5. /\ t.isn = u.isn /\ t.sent_syn = u.sent_syn /\ t.sent_all = SendEof(s)
      /\ t.stream = PopStream(u.stream, SendSize(s)) /\ t.next_seqno = u.next_seqno
      /\ t.outstanding_segs = u.outstanding_segs /\ t.bytes_in_flight = u.bytes_in_flight
  BY <1>3, <1>4, Zenon DEF IsSender, SenderSet
<1> QED BY <1>4, <1>5

LEMMA SendDataData ==
  ASSUME NEW s, Inv(s), Data(s), s.sent_syn, ~s.sent_all, WindowRoom(s) > 0, ~Eof(s.stream)
  PROVE  Data(SendData(s))
<1> DEFINE t == SendData(s)
           st == s.stream
           u == PopStream(st, SendSize(s))
           eof == SendEof(s)
<1>1. /\ t.isn = s.isn /\ t.sent_syn = s.sent_syn /\ t.sent_all = eof /\ t.stream = u
      /\ t.next_seqno = s.next_seqno + SendSize(s) + Flag(eof)
      /\ AllPlaced(t.outstanding_segs, s.isn, st)
      /\ t.bytes_in_flight = FlightOf(t.outstanding_segs, t.next_seqno)
  BY SendDataFacts, Zenon
<1>2. IsSender(s) /\ st \in StreamSet /\ s.next_seqno \in Nat
  BY SenderFields DEF Inv
<1>3. /\ SendSize(s) \in 0..Len(st.queue) /\ st.queue \in Seq(Int) /\ eof \in BOOLEAN
      /\ SendSize(s) \in Nat
  <2>1. SendSize(s) \in Nat /\ SendSize(s) <= Len(st.queue) /\ st.queue \in Seq(Int) /\ eof \in BOOLEAN
    BY <1>2, SendSizeFacts
  <2> QED BY <2>1
<1>4. eof => st.input_ended /\ SendSize(s) = Len(st.queue)
  BY Zenon DEF SendEof, BufferSize
<1>5. s.isn = Isn /\ Queued(st) /\ st.bytes_read \in Nat /\ s.next_seqno = 1 + st.bytes_read
  <2>1. s.isn = Isn /\ Queued(st) /\ st.bytes_read \in Nat
    BY DEF Data, Queued
  <2>2. s.next_seqno = 1 + st.bytes_read + Flag(FALSE)
    BY DEF Data, Positioned, Flag
  <2> QED BY <2>1, <2>2, SMTT(30), SMTT(90) DEF Flag
<1> HIDE DEF t, u, st, eof
<1>6. /\ Queued(u) /\ u.bytes_read = st.bytes_read + SendSize(s)
      /\ Len(u.queue) = Len(st.queue) - SendSize(s)
      /\ u.bytes_written = st.bytes_written /\ u.input_ended = st.input_ended
  BY <1>2, <1>3, <1>5, PopQueued, ZenonT(60), SMTT(60) DEF u
<1>7. u.queue \in Seq(Int)
  <2>1. u \in StreamSet
    BY <1>2, <1>3, PopIsStream, ZenonT(60), SMTT(60) DEF u
  <2> QED BY <2>1, Zenon DEF StreamSet
<1>8. eof => u.queue = <<>> /\ u.input_ended
  BY <1>3, <1>4, <1>6, <1>7
<1>9. AllPlaced(t.outstanding_segs, t.isn, t.stream)
  BY <1>1, <1>6, Zenon DEF AllPlaced
<1>10. Positioned(t.stream, t.next_seqno, t.sent_syn, t.sent_all)
  <2>1. Flag(eof) \in {0, 1}
    BY DEF Flag
  <2> DEFINE f == Flag(eof)
  <2>2. t.next_seqno = s.next_seqno + SendSize(s) + f
    BY <1>1
  <2>3. f \in Nat
    BY <2>1
  <2> HIDE DEF f
  <2>4. t.next_seqno = 1 + u.bytes_read + f
    BY <1>3, <1>5, <1>6, <2>2, <2>3, SMTT(30), SMTT(90)
  <2> QED BY <1>1, <1>8, <2>4, Zenon DEF Positioned, f
<1> QED BY <1>1, <1>5, <1>6, <1>9, <1>10, Zenon DEF Data, t

\* The four cases of fill_window().
LEMMA FillCases ==
  ASSUME NEW s, Inv(s)
  PROVE  \/ ~s.sent_syn /\ fill_window(s) = connect(s)
         \/ fill_window(s) = s
         \/ /\ s.sent_syn /\ ~s.sent_all /\ WindowRoom(s) > 0 /\ Eof(s.stream)
            /\ fill_window(s) = SendFin(s)
         \/ /\ s.sent_syn /\ ~s.sent_all /\ WindowRoom(s) > 0 /\ ~Eof(s.stream)
            /\ fill_window(s) = SendData(s)
<1>1. WindowRoom(s) <= 0 <=> ~(WindowRoom(s) > 0)
  BY WindowRoomInt
<1> QED BY <1>1, Zenon DEF fill_window

LEMMA FillData ==
  ASSUME NEW s, Inv(s), Data(s)
  PROVE  Data(fill_window(s))
  BY FillCases, ConnectData, SendFinData, SendDataData

\* The fields of a sender after AcceptAck() that its data depend on.
LEMMA AcceptKeeps ==
  ASSUME NEW s, IsSender(s), NEW a \in Nat, NEW w \in Nat
  PROVE  LET t == AcceptAck(s, a, w)
             popped == FullyAcked(s.outstanding_segs, a)
         IN  /\ t.isn = s.isn /\ t.stream = s.stream /\ t.next_seqno = s.next_seqno
             /\ t.sent_syn = s.sent_syn /\ t.sent_all = s.sent_all
             /\ t.outstanding_segs =
                  SubSeq(s.outstanding_segs, popped + 1, Len(s.outstanding_segs))
             /\ t.bytes_in_flight =
                  s.bytes_in_flight - LengthOf(SubSeq(s.outstanding_segs, 1, popped))
<1> DEFINE t == AcceptAck(s, a, w)
           popped == FullyAcked(s.outstanding_segs, a)
           left == SubSeq(s.outstanding_segs, popped + 1, Len(s.outstanding_segs))
           size == IF w = 0 THEN 1 ELSE w
           zero == (w = 0)
           flight == s.bytes_in_flight - LengthOf(SubSeq(s.outstanding_segs, 1, popped))
           newest == Greatest(s.checkpoint, a)
           timer == TimerAfterAck(s, a, left)
<1>1. t = [s EXCEPT !.window_begin = a, !.actual_zero_window_size = zero, !.window_size = size,
                    !.outstanding_segs = left, !.bytes_in_flight = flight,
                    !.timer = timer, !.checkpoint = newest]
  BY Zenon DEF AcceptAck
<1> HIDE DEF t, size, zero, flight, newest, timer, left
<1>2. /\ t.isn = s.isn /\ t.stream = s.stream /\ t.next_seqno = s.next_seqno
      /\ t.sent_syn = s.sent_syn /\ t.sent_all = s.sent_all
      /\ t.outstanding_segs = left /\ t.bytes_in_flight = flight
  BY <1>1, Zenon DEF IsSender, SenderSet
<1> QED BY <1>2, Zenon DEF t, left, flight

\* The numbers of the popped segments leave the flight, no others.
LEMMA AcceptData ==
  ASSUME NEW s, Inv(s), Data(s), NEW a \in Nat, NEW w \in Nat
  PROVE  Data(AcceptAck(s, a, w))
<1> DEFINE old == s.outstanding_segs
           N == Len(old)
           p == FullyAcked(old, a)
           left == SubSeq(old, p + 1, N)
           acked == SubSeq(old, 1, p)
           end(k) == abs_seqno_at_end(old[k])
           pos(k) == old[k].abs_seqno
           next == s.next_seqno
           t == AcceptAck(s, a, w)
<1>1. IsSender(s) /\ Covered(s)
  BY DEF Inv
<1>2. old \in Seq(OutstandingSet) /\ next \in Nat /\ N \in Nat
  BY <1>1, SenderFields
<1>3. \A k \in 1..N : end(k) \in Nat /\ pos(k) \in Nat
  <2>1. \A k \in 1..N : old[k] \in OutstandingSet
    BY <1>2
  <2> QED BY <2>1, EndNat DEF OutstandingSet
<1>4. p \in 0..N
  BY <1>2, FullyAckedFacts, Zenon
<1>5. /\ old # <<>> => end(N) = next
      /\ \A k \in 1 .. N - 1 : end(k) = pos(k + 1)
  BY <1>1 DEF Covered
<1>6. /\ t.isn = s.isn /\ t.stream = s.stream /\ t.next_seqno = s.next_seqno
      /\ t.sent_syn = s.sent_syn /\ t.sent_all = s.sent_all /\ t.outstanding_segs = left
      /\ t.bytes_in_flight = s.bytes_in_flight - LengthOf(acked)
  BY <1>1, AcceptKeeps, ZenonT(90)
<1> HIDE DEF p, t
<1>7. /\ left \in Seq(OutstandingSet) /\ Len(left) = N - p
      /\ \A k \in 1 .. N - p : left[k] = old[p + k]
  BY <1>2, <1>4, Suffix, ZenonT(60), SMTT(60)
<1>8. AllPlaced(left, s.isn, s.stream)
  <2> DEFINE P(o) == Placed(o, s.isn, s.stream.input_ended, s.stream.bytes_written)
  <2>1. \A k \in 1..N : P(old[k])
    BY Zenon DEF Data, AllPlaced
  <2> SUFFICES ASSUME NEW k \in 1..Len(left) PROVE P(left[k])
    BY Zenon DEF AllPlaced
  <2> HIDE DEF P, left, old
  <2>2. k \in 1 .. N - p /\ p + k \in 1..N
    BY <1>2, <1>4, <1>7, SMTT(30), SMTT(90)
  <2> QED BY <1>7, <2>1, <2>2, ZenonT(60), SMTT(60)
<1>9. s.bytes_in_flight = FlightOf(old, next)
  BY DEF Data
<1>10. s.bytes_in_flight - LengthOf(acked) = FlightOf(left, next)
  <2>1. CASE p = 0
    <3>1. acked = <<>>
      BY <2>1
    <3>2. left = old
      BY <1>2, <2>1, SubSeqFull, SMTT(30), SMTT(90)
    <3>3. FlightOf(old, next) \in Int
      <4>1. CASE old = <<>>
        BY <4>1 DEF FlightOf
      <4>2. CASE old # <<>>
        <5>1. 1 \in 1..N
          BY <1>2, <4>2
        <5>2. pos(1) \in Nat
          BY <1>3, <5>1, Zenon
        <5>3. FlightOf(old, next) = next - pos(1)
          BY <4>2, Zenon DEF FlightOf
        <5> QED BY <1>2, <5>2, <5>3, SMTT(30), SMTT(90)
      <4> QED BY <4>1, <4>2
    <3> DEFINE f == FlightOf(old, next)
    <3>4. s.bytes_in_flight = f /\ LengthOf(acked) = 0 /\ FlightOf(left, next) = f
      BY <1>9, <3>1, <3>2, LengthOfNone, Zenon
    <3> HIDE DEF f
    <3> QED BY <3>3, <3>4 DEF f
  <2>2. CASE p > 0
    <3>0. p \in 1..N /\ 1 \in 1..N /\ N \in 1..N /\ old # <<>>
      BY <1>2, <1>4, <2>2, SMTT(30), SMTT(90)
    <3>1. /\ acked \in Seq(OutstandingSet) /\ Len(acked) = p
          /\ \A k \in 1..p : acked[k] = old[k]
      BY <1>2, <3>0
    <3>2. LengthOf(acked) = end(p) - pos(1)
      <4> HIDE DEF acked, end, pos, old, N
      <4>1. acked # <<>> /\ acked[1] = old[1] /\ acked[Len(acked)] = old[p]
        BY <1>4, <3>0, <3>1, SMTT(30), SMTT(90)
      <4>2. \A k \in 1 .. Len(acked) - 1 : abs_seqno_at_end(acked[k]) = acked[k + 1].abs_seqno
        <5> SUFFICES ASSUME NEW k \in 1 .. p - 1
                     PROVE  abs_seqno_at_end(acked[k]) = acked[k + 1].abs_seqno
          BY <3>1
        <5>1. k \in 1..p /\ k + 1 \in 1..p /\ k \in 1 .. N - 1
          BY <1>2, <3>0
        <5>2. end(k) = pos(k + 1)
          BY <1>5, <5>1, ZenonT(60), SMTT(60)
        <5> QED BY <3>1, <5>1, <5>2, ZenonT(60), SMTT(60) DEF end, pos
      <4>3. LengthOf(acked) = abs_seqno_at_end(acked[Len(acked)]) - acked[1].abs_seqno
        BY <3>1, <4>1, <4>2, LengthOfSegments, ZenonT(60), SMTT(60)
      <4> QED BY <4>1, <4>3 DEF end, pos
    <3>3. s.bytes_in_flight = next - pos(1)
      BY <1>9, <3>0, Zenon DEF FlightOf
    <3>4. end(p) \in Nat /\ pos(1) \in Nat
      BY <1>3, <3>0, Zenon
    <3> DEFINE ep == end(p)
               p1 == pos(1)
               flight == s.bytes_in_flight - LengthOf(acked)
    <3>5. flight = (next - p1) - (ep - p1) /\ ep \in Nat /\ p1 \in Nat
      BY <3>2, <3>3, <3>4, Zenon
    <3> HIDE DEF ep, p1, flight, acked
    <3>6. flight = next - ep
      BY <1>2, <3>5, SMTT(30), SMTT(90)
    <3>7. CASE p = N
      <4>1. left = <<>> /\ ep = next
        BY <1>5, <1>7, <3>0, <3>7, SMTT(30), SMTT(90) DEF ep
      <4> QED BY <1>2, <3>6, <4>1, SMTT(30), SMTT(90) DEF FlightOf, flight
    <3>8. CASE p # N
      <4>1. p \in 1 .. N - 1 /\ 1 \in 1 .. N - p
        BY <1>2, <3>0, <3>8, SMTT(30), SMTT(90)
      <4> HIDE DEF left
      <4>2. left # <<>> /\ left[1] = old[p + 1]
        BY <1>2, <1>4, <1>7, <4>1, SMTT(30), SMTT(90)
      <4>3. ep = left[1].abs_seqno
        BY <1>5, <4>1, <4>2, ZenonT(60), SMTT(60) DEF ep
      <4> QED BY <3>6, <4>2, <4>3, ZenonT(60), SMTT(60) DEF FlightOf, flight
    <3> QED BY <3>7, <3>8, ZenonT(60), SMTT(60)
  <2> QED BY <1>4, <2>1, <2>2, SMTT(30), SMTT(90)
<1>11. s.isn = Isn /\ Queued(s.stream) /\ Positioned(s.stream, s.next_seqno, s.sent_syn, s.sent_all)
  BY DEF Data
<1> QED BY <1>6, <1>8, <1>10, <1>11, Zenon DEF Data, t

LEMMA AckData ==
  ASSUME NEW s, Inv(s), Data(s), NEW ackno \in Int, NEW w \in Nat
  PROVE  Data(ack_received(s, ackno, w))
<1> DEFINE a == get_abs_seqno(s, ackno)
<1>1. s.isn \in Int /\ s.checkpoint \in Nat /\ s.next_seqno \in Nat
  BY SenderFields DEF Inv, Wrapping
<1>2. a \in Nat
  BY <1>1, UnwrapNat, Zenon DEF get_abs_seqno
<1> HIDE DEF a
<1>3. ack_received(s, ackno, w) = IF a > s.next_seqno THEN s ELSE AcceptAck(s, a, w)
  BY DEF ack_received, a
<1>4. Data(AcceptAck(s, a, w))
  BY <1>2, AcceptData
<1> QED BY <1>3, <1>4

\* tick() touches the timer and segments_out_ only.
LEMMA TickData ==
  ASSUME NEW s, Inv(s), Data(s), NEW ms
  PROVE  Data(sender_tick(s, ms))
<1> DEFINE t == sender_tick(s, ms)
<1>1. IsSender(s)
  BY DEF Inv
<1>2. \/ t = s
      \/ t = [s EXCEPT !.timer.countdown = @ - ms]
      \/ t = Timeout(s)
  BY Zenon DEF sender_tick
<1> HIDE DEF t
<1>3. /\ t.isn = s.isn /\ t.stream = s.stream /\ t.next_seqno = s.next_seqno
      /\ t.sent_syn = s.sent_syn /\ t.sent_all = s.sent_all
      /\ t.outstanding_segs = s.outstanding_segs /\ t.bytes_in_flight = s.bytes_in_flight
  BY <1>1, <1>2, ZenonT(90) DEF IsSender, SenderSet, Timeout
<1> QED BY <1>3, DataFrom, Zenon DEF t

\* A new stream in the place of the old one.
LEMMA StreamData ==
  ASSUME NEW s, Inv(s), Data(s), NEW st, Queued(st),
         AllPlaced(s.outstanding_segs, s.isn, st),
         Positioned(st, s.next_seqno, s.sent_syn, s.sent_all)
  PROVE  Data([s EXCEPT !.stream = st])
<1> DEFINE t == [s EXCEPT !.stream = st]
<1>1. /\ t.isn = s.isn /\ t.stream = st /\ t.next_seqno = s.next_seqno
      /\ t.sent_syn = s.sent_syn /\ t.sent_all = s.sent_all
      /\ t.outstanding_segs = s.outstanding_segs /\ t.bytes_in_flight = s.bytes_in_flight
  BY Zenon DEF Inv, IsSender, SenderSet
<1> HIDE DEF t
<1>2. s.isn = Isn /\ s.bytes_in_flight = FlightOf(s.outstanding_segs, s.next_seqno)
  BY DEF Data
<1> QED BY <1>1, <1>2, Zenon DEF Data, t

LEMMA EndData ==
  ASSUME NEW s, Inv(s), Data(s)
  PROVE  Data([s EXCEPT !.stream = EndInput(@)])
<1> DEFINE st == s.stream
           new == EndInput(st)
<1>1. st \in StreamSet
  BY SenderFields DEF Inv
<1>2. /\ new.queue = st.queue /\ new.bytes_read = st.bytes_read /\ new.capacity = st.capacity
      /\ new.bytes_written = st.bytes_written /\ new.input_ended
  BY <1>1, Zenon DEF EndInput, StreamSet
<1> HIDE DEF new
<1>3. /\ Queued(st) /\ AllPlaced(s.outstanding_segs, s.isn, st)
      /\ Positioned(st, s.next_seqno, s.sent_syn, s.sent_all)
  BY DEF Data
<1>4. Queued(new)
  BY <1>2, <1>3, Zenon DEF Queued
<1>5. AllPlaced(s.outstanding_segs, s.isn, new)
  BY <1>2, <1>3, Zenon DEF AllPlaced, Placed
<1>6. Positioned(new, s.next_seqno, s.sent_syn, s.sent_all)
  BY <1>2, <1>3, Zenon DEF Positioned
<1> QED BY <1>4, <1>5, <1>6, StreamData, Zenon DEF new

\* write() of the next bytes of the stream: the ones that fit are queued.
LEMMA WriteData ==
  ASSUME NEW s, Inv(s), Data(s), ~s.stream.input_ended, NEW len \in Nat
  PROVE  Data([s EXCEPT !.stream =
                 WriteStream(@, [k \in 1..len |-> s.stream.bytes_written + k - 1])])
<1> DEFINE st == s.stream
           written == st.bytes_written
           data == [k \in 1..len |-> written + k - 1]
           count == Least(Len(data), RemainingCapacity(st))
           taken == SubSeq(data, 1, count)
           q == st.queue
           new == WriteStream(st, data)
<1>1. st \in StreamSet
  BY SenderFields DEF Inv
<1>2. st.capacity \in Nat /\ q \in Seq(Int) /\ Len(q) \in Nat /\ written \in Int
  BY <1>1 DEF StreamSet
<1>3. /\ Queued(st) /\ AllPlaced(s.outstanding_segs, s.isn, st)
      /\ Positioned(st, s.next_seqno, s.sent_syn, s.sent_all)
  BY DEF Data
<1>4. /\ st.bytes_read \in Nat /\ Len(q) <= st.capacity /\ written = st.bytes_read + Len(q)
      /\ \A i \in 1..Len(q) : q[i] = st.bytes_read + i - 1
  BY <1>3 DEF Queued
<1>5. data \in Seq(Int) /\ Len(data) = len /\ \A k \in 1..len : data[k] = written + k - 1
  BY <1>2
<1> HIDE DEF data
<1>6. count \in Nat /\ count <= len /\ count <= st.capacity - Len(q)
  <2> DEFINE room == st.capacity - Len(q)
  <2>1. count = IF len <= room THEN len ELSE room
    BY <1>5, Zenon DEF Least, RemainingCapacity, BufferSize
  <2>2. room \in Nat
    BY <1>2, <1>4
  <2> HIDE DEF room, count
  <2> QED BY <2>1, <2>2 DEF room
<1>7. /\ new.queue = q \o taken /\ new.bytes_written = written + count
      /\ new.bytes_read = st.bytes_read /\ new.capacity = st.capacity
      /\ new.input_ended = st.input_ended
  BY <1>1, Zenon DEF WriteStream, StreamSet
<1> HIDE DEF count, new
<1>8. /\ taken \in Seq(Int) /\ Len(taken) = count
      /\ \A k \in 1..count : taken[k] = written + k - 1
  BY <1>5, <1>6, SMTT(30), SMTT(90)
<1> HIDE DEF taken, q, written, st
<1> DEFINE all == q \o taken
<1>9. /\ Len(all) = Len(q) + count
      /\ \A i \in 1 .. Len(q) + count : all[i] = IF i <= Len(q) THEN q[i] ELSE taken[i - Len(q)]
  BY <1>2, <1>8, ConcatProperties, ZenonT(60), SMTT(60)
<1> HIDE DEF all
<1>10. ASSUME NEW i \in 1..Len(all) PROVE all[i] = st.bytes_read + i - 1
  <2>1. CASE i <= Len(q)
    <3>1. i \in 1..Len(q) /\ i \in 1 .. Len(q) + count
      BY <1>2, <1>6, <1>9, <2>1, SMTT(30), SMTT(90)
    <3>2. all[i] = q[i]
      BY <1>9, <2>1, <3>1, Zenon
    <3> QED BY <1>4, <3>1, <3>2, Zenon
  <2>2. CASE i > Len(q)
    <3>1. i - Len(q) \in 1..count /\ all[i] = taken[i - Len(q)] /\ i \in Int
      BY <1>2, <1>6, <1>9, <2>2
    <3>2. all[i] = written + (i - Len(q)) - 1
      BY <1>8, <3>1, ZenonT(60), SMTT(60)
    <3> QED BY <1>2, <1>4, <3>1, <3>2, SMTT(30), SMTT(90)
  <2> QED BY <1>2, <2>1, <2>2
<1>11. Queued(new)
  <2>1. Len(all) <= st.capacity /\ written + count = st.bytes_read + Len(all)
    BY <1>2, <1>4, <1>6, <1>9, SMTT(30), SMTT(90)
  <2> QED BY <1>4, <1>7, <1>10, <2>1, ZenonT(60), SMTT(60) DEF Queued, all
<1>12. AllPlaced(s.outstanding_segs, s.isn, new)
  <2>1. ~st.input_ended /\ ~new.input_ended
    BY <1>7 DEF st
  <2> QED BY <1>3, <2>1, Zenon DEF AllPlaced, Placed
<1>13. Positioned(new, s.next_seqno, s.sent_syn, s.sent_all)
  <2>1. ~st.input_ended
    BY DEF st
  <2>2. ~s.sent_all
    BY <1>3, <2>1, Zenon DEF Positioned
  <2> QED BY <1>3, <1>7, <2>2, Zenon DEF Positioned
<1> QED BY <1>11, <1>12, <1>13, StreamData, Zenon DEF new, data, written, st

LEMMA InitData == Init => Data(snd)
<1> SUFFICES ASSUME Init PROVE Data(snd)
  OBVIOUS
<1>1. /\ snd.isn = Isn /\ snd.stream = NewStream(Capacity) /\ snd.next_seqno = 0
      /\ snd.sent_syn = FALSE /\ snd.sent_all = FALSE
      /\ snd.outstanding_segs = <<>> /\ snd.bytes_in_flight = 0
  BY Zenon DEF Init, NewSender
<1>2. Queued(NewStream(Capacity)) /\ NewStream(Capacity).bytes_read = 0
  BY SendingAssumption DEF Queued, NewStream
<1>3. AllPlaced(<<>>, Isn, NewStream(Capacity)) /\ FlightOf(<<>>, 0) = 0
  BY DEF AllPlaced, FlightOf
<1>4. Positioned(NewStream(Capacity), 0, FALSE, FALSE)
  BY <1>2 DEF Positioned
<1> QED BY <1>1, <1>2, <1>3, <1>4, Zenon DEF Data

\* The owner has taken the segments away.
LEMMA DrainedFacts ==
  ASSUME Inv(snd), Data(snd)
  PROVE  /\ Inv(Drained) /\ Data(Drained) /\ IsSender(Drained)
         /\ Drained.stream = snd.stream /\ Drained.next_seqno = snd.next_seqno
         /\ Drained.sent_syn = snd.sent_syn
         /\ Drained.window_begin = snd.window_begin /\ Drained.window_size = snd.window_size
<1> DEFINE t == Drained
<1>1. IsSender(snd) /\ <<>> \in Seq(SegmentSet)
  BY DEF Inv
<1>2. Inv(t) /\ IsSender(t)
  BY <1>1, SetSegmentsOut, ZenonT(90) DEF Drained, Inv
<1>3. /\ t.isn = snd.isn /\ t.stream = snd.stream /\ t.next_seqno = snd.next_seqno
      /\ t.sent_syn = snd.sent_syn /\ t.sent_all = snd.sent_all
      /\ t.outstanding_segs = snd.outstanding_segs /\ t.bytes_in_flight = snd.bytes_in_flight
  BY <1>1, Zenon DEF IsSender, SenderSet, Drained
<1>4. t.window_begin = snd.window_begin /\ t.window_size = snd.window_size
  BY <1>1, Zenon DEF IsSender, SenderSet, Drained
<1> HIDE DEF t
<1>5. Data(t)
  BY <1>3, DataFrom, Zenon
<1> QED BY <1>2, <1>3, <1>4, <1>5, ZenonT(60), SMTT(60) DEF t

\* Every call on the sender keeps its data in place.
LEMMA NextData == Inv(snd) /\ Data(snd) /\ [Next]_snd => Data(snd)'
<1> SUFFICES ASSUME Inv(snd), Data(snd), [Next]_snd PROVE Data(snd')
  BY DEF Data
<1> DEFINE s == Drained
<1>1. Inv(s) /\ Data(s) /\ IsSender(s) /\ s.stream = snd.stream
  BY DrainedFacts
<1> HIDE DEF s
<1>2. ASSUME NEW len \in 1..Capacity, WriteBytes(len) PROVE Data(snd')
  <2>1. len \in Nat /\ ~snd.stream.input_ended
    BY <1>2, SendingAssumption DEF WriteBytes
  <2>2. snd' = [s EXCEPT !.stream =
                  WriteStream(@, [k \in 1..len |-> s.stream.bytes_written + k - 1])]
    BY <1>1, <1>2, Zenon DEF WriteBytes, s
  <2>3. ~s.stream.input_ended
    BY <1>1, <2>1
  <2> QED BY <1>1, <2>1, <2>2, <2>3, WriteData, ZenonT(90)
<1>3. CASE EndStream
  <2>1. snd' = [s EXCEPT !.stream = EndInput(@)]
    BY <1>3, Zenon DEF EndStream, s
  <2> QED BY <1>1, <2>1, EndData, Zenon
<1>4. CASE FillWindow
  BY <1>1, <1>4, FillData, ZenonT(60), SMTT(60) DEF FillWindow, s
<1>5. ASSUME NEW n \in 1 .. Length + 3, NEW win \in 0..MaxWin, Ack(n, win) PROVE Data(snd')
  <2>1. n \in Nat /\ win \in Nat /\ Isn \in Wrapping
    BY SendingAssumption
  <2>2. wrap(n, Isn) \in Int
    BY <2>1, WrapInt
  <2>3. Data(ack_received(s, wrap(n, Isn), win))
    BY <1>1, <2>1, <2>2, AckData, ZenonT(60), SMTT(60)
  <2> QED BY <1>5, <2>3 DEF Ack, s
<1>6. ASSUME NEW ms \in 1..RetxTimeout, Tick(ms) PROVE Data(snd')
  BY <1>1, <1>6, TickData DEF Tick, s
<1>7. CASE SendEmpty
  <2> DEFINE out == Append(s.segments_out, Segment(wrap(s.next_seqno, s.isn), FALSE, FALSE, <<>>))
             t == [s EXCEPT !.segments_out = out]
  <2>1. snd' = t
    BY <1>7, Zenon DEF SendEmpty, send_empty_segment, s
  <2> HIDE DEF out
  <2>2. /\ t.isn = s.isn /\ t.stream = s.stream /\ t.next_seqno = s.next_seqno
        /\ t.sent_syn = s.sent_syn /\ t.sent_all = s.sent_all
        /\ t.outstanding_segs = s.outstanding_segs /\ t.bytes_in_flight = s.bytes_in_flight
    BY <1>1, Zenon DEF IsSender, SenderSet
  <2> QED BY <1>1, <2>1, <2>2, DataFrom, Zenon
<1>8. CASE UNCHANGED snd
  BY <1>8
<1> QED BY <1>2, <1>3, <1>4, <1>5, <1>6, <1>7, <1>8, ZenonT(60), SMTT(60) DEF Next

LEMMA AlwaysData == Spec => [](Inv(snd) /\ Data(snd))
  BY InitInv, NextInv, InitData, NextData, PTL DEF Spec

\* bytes_in_flight() counts the numbers of the outstanding segments exactly,
\* whatever was sent, popped and resent, and each of those segments holds the
\* bytes of its position in the stream.
THEOREM FlightAlwaysExact == Spec => []FlightExact
<1>1. Inv(snd) /\ Data(snd) => FlightExact
  <2> SUFFICES ASSUME Inv(snd), Data(snd) PROVE FlightExact
    OBVIOUS
  <2>1. segs \in Seq(OutstandingSet)
    BY SenderFields DEF Inv, segs
  <2>2. DOMAIN segs = 1..Len(segs)
    BY <2>1
  <2>3. snd.bytes_in_flight = IF segs = <<>> THEN 0 ELSE snd.next_seqno - segs[1].abs_seqno
    BY Zenon DEF Data, FlightOf, segs
  <2>4. \A k \in DOMAIN segs : Placed(segs[k], Isn, snd.stream.input_ended, snd.stream.bytes_written)
    BY <2>2, Zenon DEF Data, AllPlaced, segs
  <2> QED BY <2>3, <2>4, Zenon DEF FlightExact, Placed
<1> QED BY <1>1, AlwaysData, PTL

\* With nothing outstanding no timer runs: ack_received() has then left a
\* window that admits the next byte, unless an overtaken acknowledgment has
\* replaced the window of the newest one.
THEOREM SenderNeverStuck == Spec => []NeverStuck
<1>1. Inv(snd) => NeverStuck
  <2> SUFFICES ASSUME Inv(snd), segs = <<>>, snd.window_begin >= snd.checkpoint
               PROVE  WindowRoom(snd) > 0
    BY DEF NeverStuck
  <2>1. snd.checkpoint = snd.next_seqno
    BY DEF Inv, Covered, segs
  <2>2. snd.next_seqno \in Nat /\ snd.window_begin \in Nat /\ snd.window_size \in Nat \ {0}
    BY SenderFields DEF Inv
  <2> QED BY <2>1, <2>2 DEF WindowRoom
<1> QED BY <1>1, AlwaysInv, PTL

\* A call that sends new numbers sends none beyond the window of the last
\* acknowledgment: SYN and FIN count, and the loop of fill_window() stops.
LEMMA FillInWindow ==
  ASSUME NEW s, Inv(s), Data(s)
  PROVE  \/ fill_window(s).next_seqno = s.next_seqno
         \/ fill_window(s).next_seqno <= s.window_begin + s.window_size
<1> DEFINE next == s.next_seqno
           edge == s.window_begin + s.window_size
           t == fill_window(s)
<1>1. IsSender(s) /\ next \in Nat /\ s.window_begin \in Nat /\ s.window_size \in Nat \ {0}
  BY SenderFields DEF Inv
<1>2. WindowRoom(s) = edge - next /\ edge \in Nat /\ edge >= 1
  BY <1>1 DEF WindowRoom
<1> HIDE DEF edge, t, next
<1>3. CASE ~s.sent_syn /\ t = connect(s)
  <2>1. t.next_seqno = 1
    BY <1>3, ConnectData
  <2> QED BY <1>2, <2>1 DEF t, edge
<1>4. CASE t = s
  BY <1>4 DEF t
<1>5. CASE /\ s.sent_syn /\ ~s.sent_all /\ WindowRoom(s) > 0 /\ Eof(s.stream)
           /\ t = SendFin(s)
  <2>1. t.next_seqno = next + 1
    BY <1>5, SendFinData DEF next
  <2>2. edge - next > 0
    BY <1>2, <1>5
  <2> QED BY <1>1, <1>2, <2>1, <2>2, SMTT(30), SMTT(90) DEF t, edge
<1>6. CASE /\ s.sent_syn /\ ~s.sent_all /\ WindowRoom(s) > 0 /\ ~Eof(s.stream)
           /\ t = SendData(s)
  <2> DEFINE f == Flag(SendEof(s))
             size == SendSize(s)
  <2>1. t.next_seqno = next + size + f
    BY <1>6, SendDataFacts DEF next
  <2>2. s.stream.queue \in Seq(Int) /\ size \in Nat
    BY <1>1, <1>6, SendSizeFacts, ZenonT(60), SMTT(60)
  <2>3. size <= edge - next
    <3>1. Len(s.stream.queue) \in Nat
      BY <2>2
    <3>2. size = IF WindowRoom(s) <= Len(s.stream.queue) THEN WindowRoom(s) ELSE Len(s.stream.queue)
      BY Zenon DEF SendSize, Least, BufferSize
    <3> QED BY <1>1, <1>2, <3>1, <3>2, SMTT(30), SMTT(90)
  <2>4. f = 0 \/ (f = 1 /\ size < edge - next)
    <3>1. SendEof(s) => size < WindowRoom(s)
      BY Zenon DEF SendEof
    <3>2. f = 0 \/ (f = 1 /\ SendEof(s))
      BY Zenon DEF Flag
    <3> QED BY <1>2, <3>1, <3>2
  <2> HIDE DEF f, size
  <2>5. t.next_seqno <= edge
    BY <1>1, <1>2, <2>1, <2>2, <2>3, <2>4, SMTT(30), SMTT(90)
  <2> QED BY <2>5, ZenonT(60), SMTT(60) DEF t, edge
<1> QED BY <1>3, <1>4, <1>5, <1>6, FillCases, ZenonT(90) DEF t

\* fill_window() never sends beyond the window that ack_received() took last,
\* and no other call sends new numbers.
THEOREM NewDataAlwaysInWindow == Spec => NewDataInWindow
<1> DEFINE Fits == snd'.next_seqno > snd.next_seqno =>
                     snd'.next_seqno <= snd.window_begin + snd.window_size
<1>1. Inv(snd) /\ Data(snd) /\ [Next]_snd => [Fits]_snd
  <2> SUFFICES ASSUME Inv(snd), Data(snd), Next PROVE Fits
    OBVIOUS
  <2> DEFINE s == Drained
  <2>1. /\ Inv(s) /\ Data(s) /\ IsSender(s) /\ s.next_seqno = snd.next_seqno
        /\ s.window_begin = snd.window_begin /\ s.window_size = snd.window_size
    BY DrainedFacts
  <2>2. snd.next_seqno \in Nat
    BY SenderFields DEF Inv
  <2> HIDE DEF s
  <2>3. CASE FillWindow
    <3>1. snd' = fill_window(s)
      BY <2>3 DEF FillWindow, s
    <3>2. snd'.next_seqno = s.next_seqno \/ snd'.next_seqno <= s.window_begin + s.window_size
      BY <2>1, <3>1, FillInWindow, ZenonT(60), SMTT(60)
    <3> QED BY <2>1, <2>2, <3>2, SMTT(30), SMTT(90)
  <2>4. CASE ~FillWindow
    <3>1. snd'.next_seqno = s.next_seqno
      <4>1. ASSUME NEW len \in 1..Capacity, WriteBytes(len) PROVE snd'.next_seqno = s.next_seqno
        BY <2>1, <4>1, Zenon DEF WriteBytes, IsSender, SenderSet, s
      <4>2. CASE EndStream
        BY <2>1, <4>2, Zenon DEF EndStream, IsSender, SenderSet, s
      <4>3. ASSUME NEW n \in 1 .. Length + 3, NEW win \in 0..MaxWin, Ack(n, win)
            PROVE  snd'.next_seqno = s.next_seqno
        <5> DEFINE a == get_abs_seqno(s, wrap(n, Isn))
        <5>1. snd' = s \/ snd' = AcceptAck(s, a, win)
          BY <4>3, Zenon DEF Ack, ack_received, s
        <5>2. n \in Nat /\ win \in Nat /\ Isn \in Wrapping /\ s.isn \in Int /\ s.checkpoint \in Nat
          BY <2>1, SendingAssumption, SenderFields, SMTT(30), SMTT(90) DEF Wrapping
        <5>3. wrap(n, Isn) \in Int
          BY <5>2, WrapInt
        <5>4. a \in Nat
          BY <5>2, <5>3, UnwrapNat, Zenon DEF get_abs_seqno
        <5> HIDE DEF a
        <5>5. AcceptAck(s, a, win).next_seqno = s.next_seqno
          BY <2>1, <5>2, <5>4, AcceptKeeps, ZenonT(90)
        <5> QED BY <5>1, <5>5
      <4>4. ASSUME NEW ms \in 1..RetxTimeout, Tick(ms) PROVE snd'.next_seqno = s.next_seqno
        <5>1. \/ snd' = s
              \/ snd' = [s EXCEPT !.timer.countdown = @ - ms]
              \/ snd' = Timeout(s)
          BY <4>4, Zenon DEF Tick, sender_tick, s
        <5> QED BY <2>1, <5>1, ZenonT(90) DEF IsSender, SenderSet, Timeout
      <4>5. CASE SendEmpty
        BY <2>1, <4>5, Zenon DEF SendEmpty, send_empty_segment, IsSender, SenderSet, s
      <4> QED BY <2>4, <4>1, <4>2, <4>3, <4>4, <4>5, ZenonT(60), SMTT(60) DEF Next
    <3> QED BY <2>1, <2>2, <3>1, SMTT(30), SMTT(90)
  <2> QED BY <2>3, <2>4
<1> QED BY <1>1, AlwaysData, PTL DEF Spec, NewDataInWindow
=============================================================================
