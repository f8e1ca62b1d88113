----------------------------- MODULE LanProofs -----------------------------
(***************************************************************************)
(* Proofs about the interfaces of a local network (module Lan), for any    *)
(* hosts, times and numbers of datagrams, on a reliable and a lossy wire.  *)
(***************************************************************************)
EXTENDS Lan, SequenceTheorems, WellFoundedInduction, TLAPS

Addresses == Hosts \X Nat
Datagrams == [src : Hosts, dst : Hosts, id : Nat]
IsMap(m, T) == DOMAIN m \subseteq Hosts /\ m \in [DOMAIN m -> T]

\* The fields of an interface, whatever they hold.
HasFields(n) ==
  n \in [ethernet_address : {n.ethernet_address}, ip_address : {n.ip_address},
         frames_out : {n.frames_out}, waiting_dgrams : {n.waiting_dgrams},
         ip_eth_map : {n.ip_eth_map}, ip_waiting_time_map : {n.ip_waiting_time_map}]

IsInterface(n) ==
  /\ HasFields(n)
  /\ IsMap(n.waiting_dgrams, Seq(Datagrams))
  /\ IsMap(n.ip_eth_map, [addr : Addresses, time : Nat])
  /\ IsMap(n.ip_waiting_time_map, Nat)

Queue(n, ip) == IF ip \in DOMAIN n.waiting_dgrams THEN n.waiting_dgrams[ip] ELSE <<>>

\* WaitingIffPending of one interface.
Pending(n) ==
  /\ DOMAIN n.waiting_dgrams = DOMAIN n.ip_waiting_time_map
  /\ DOMAIN n.waiting_dgrams \cap DOMAIN n.ip_eth_map = {}
  /\ \A ip \in DOMAIN n.waiting_dgrams : n.waiting_dgrams[ip] # <<>>

\* eth is an address that ip has or had.
Had(rep, ip, eth) == \E g \in 0..rep[ip] : eth = Eth(ip, g)

Known(n, rep) ==
  \A ip \in DOMAIN n.ip_eth_map :
    n.ip_eth_map[ip].time <= MappingTime /\ Had(rep, ip, n.ip_eth_map[ip].addr)

Addressed(n) ==
  \A ip \in DOMAIN n.waiting_dgrams : \A k \in 1..Len(n.waiting_dgrams[ip]) :
    n.waiting_dgrams[ip][k].dst = ip

\* How long ago the last request was is what the interface counts while it
\* waits for the answer; an answer that came since is younger than the request.
Dated(n, ages) ==
  \A ip \in Hosts :
    /\ ip \in DOMAIN n.ip_waiting_time_map => n.ip_waiting_time_map[ip] = ages[ip]
    /\ ip \notin DOMAIN n.ip_waiting_time_map /\ ages[ip] <= PendingTime =>
         ip \in DOMAIN n.ip_eth_map /\ n.ip_eth_map[ip].time <= ages[ip]

Counting(a) == [k \in 1..a |-> k]

\* The datagrams for an address: first those sent, then those that wait.
NumberedFor(queue, given, sent) ==
  /\ Len(queue) <= given
  /\ sent = Counting(given - Len(queue))
  /\ \A k \in 1..Len(queue) : queue[k].id = given - Len(queue) + k

Numbered(n, given, sent) == \A ip \in Hosts : NumberedFor(Queue(n, ip), given[ip], sent[ip])

Good(h, n, rep, ages) ==
  /\ IsInterface(n) /\ n.ethernet_address = Eth(h, rep[h]) /\ n.ip_address = h
  /\ Pending(n) /\ Known(n, rep) /\ Addressed(n) /\ Dated(n, ages)

\* The addresses in a frame are right, or were.
Truthful(f, rep) ==
  /\ f.type = "IPv4" => f.payload.dst \in Hosts /\ Had(rep, f.payload.dst, f.dst)
  /\ f.type = "ARP" => f.payload.sender_ip \in Hosts /\ Had(rep, f.payload.sender_ip, f.payload.sender_eth)

Host(h, n, rep, ages, given, sent) ==
  n.frames_out = <<>> /\ Good(h, n, rep, ages) /\ Numbered(n, given, sent)

\* The inductive invariant.
Network(itf, w, rep, sub, tr, ages) ==
  /\ rep \in [Hosts -> Nat] /\ sub \in [Hosts -> [Hosts -> Nat]] /\ ages \in [Hosts -> [Hosts -> Nat]]
  /\ DOMAIN itf = Hosts /\ DOMAIN tr = Hosts
  /\ \A carried \in w : Truthful(carried[2], rep)
  /\ \A h \in Hosts : Host(h, itf[h], rep, ages[h], sub[h], tr[h])

Inv == Network(interface, wire, replaced, submitted, transmitted, since)
-----------------------------------------------------------------------------
LEMMA PutMap ==
  ASSUME NEW T, NEW m, IsMap(m, T), NEW key \in Hosts, NEW v \in T
  PROVE  /\ IsMap(Put(m, key, v), T) /\ DOMAIN Put(m, key, v) = DOMAIN m \cup {key}
         /\ Put(m, key, v)[key] = v
         /\ \A k \in DOMAIN m : k # key => Put(m, key, v)[k] = m[k]
  BY DEF IsMap, Put

LEMMA EraseMap ==
  ASSUME NEW T, NEW m, IsMap(m, T), NEW key
  PROVE  /\ IsMap(Erase(m, key), T) /\ DOMAIN Erase(m, key) = DOMAIN m \ {key}
         /\ \A k \in DOMAIN m : k # key => Erase(m, key)[k] = m[k]
  BY DEF IsMap, Erase, Restrict

LEMMA NatMin ==
  ASSUME NEW T, T \subseteq Nat, T # {}
  PROVE  \E x \in T : \A y \in T : x <= y
<1> DEFINE R == OpToRel(<, Nat)
<1>1. IsWellFoundedOn(R, Nat)
  BY NatLessThanWellFounded, Zenon
<1>2. \A x, y \in Nat : x < y => <<x, y>> \in R
  BY Zenon DEF OpToRel
<1> HIDE DEF R
<1>3. PICK x \in T : \A y \in T : ~(<<y, x>> \in R)
  BY <1>1, WFMin, Zenon
<1>4. \A y \in T : ~(y < x)
  BY <1>2, <1>3, Zenon
<1> QED BY <1>4

\* Of frames that are all for ip up to the m-th, and none after, Dgrams takes
\* the first m.
LEMMA DgramsOfPrefix ==
  ASSUME NEW frames, Len(frames) \in Nat, NEW m \in 0..Len(frames), NEW ip,
         \A k \in 1..m : frames[k].type = "IPv4" /\ frames[k].payload.dst = ip,
         \A k \in m + 1 .. Len(frames) : ~(frames[k].type = "IPv4" /\ frames[k].payload.dst = ip)
  PROVE  Dgrams(frames, ip) = [k \in 1..m |-> frames[k].payload.id]
<1> DEFINE N == Len(frames)
           mine(k) == frames[k].type = "IPv4" /\ frames[k].payload.dst = ip
           id(k) == frames[k].payload.id
           Sum(f) == f = [n \in 0..N |-> IF n = 0 THEN <<>>
                                         ELSE IF mine(n) THEN Append(f[n - 1], id(n))
                                         ELSE f[n - 1]]
           top(n) == IF n <= m THEN n ELSE m
           g == [n \in 0..N |-> [k \in 1..top(n) |-> id(k)]]
           sum == CHOOSE f : Sum(f)
           Wrong == {n \in 0..N : sum[n] # g[n]}
<1>1. Dgrams(frames, ip) = sum[N]
  BY Zenon DEF Dgrams
<1>2. /\ N \in Nat /\ m \in 0..N
      /\ \A k \in 1..m : mine(k)
      /\ \A k \in m + 1 .. N : ~mine(k)
  OBVIOUS
<1> HIDE DEF N, mine, id
<1>3. g[0] = <<>>
  BY <1>2
<1>4. \A n \in 1..N : g[n] = IF mine(n) THEN Append(g[n - 1], id(n)) ELSE g[n - 1]
  <2> SUFFICES ASSUME NEW n \in 1..N
               PROVE  g[n] = IF mine(n) THEN Append(g[n - 1], id(n)) ELSE g[n - 1]
    BY Zenon
  <2>1. n \in 0..N /\ n - 1 \in 0..N
    BY <1>2
  <2>2. g[n] = [k \in 1..top(n) |-> id(k)] /\ g[n - 1] = [k \in 1..top(n - 1) |-> id(k)]
    BY <2>1
  <2>3. CASE n <= m
    <3>1. mine(n) /\ top(n) = n /\ top(n - 1) = n - 1
      BY <1>2, <2>3
    <3>2. [k \in 1..n |-> id(k)] = Append([k \in 1..n - 1 |-> id(k)], id(n))
      OBVIOUS
    <3> QED BY <2>2, <3>1, <3>2, Zenon
  <2>4. CASE ~(n <= m)
    <3>1. ~mine(n) /\ top(n) = m /\ top(n - 1) = m
      BY <1>2, <2>4
    <3> QED BY <2>2, <3>1, Zenon
  <2> QED BY <2>3, <2>4
<1>5. Sum(g)
  <2>1. \A n \in 0..N : n = 0 \/ n \in 1..N
    BY <1>2
  <2>2. \A n \in 0..N : g[n] = IF n = 0 THEN <<>>
                                ELSE IF mine(n) THEN Append(g[n - 1], id(n)) ELSE g[n - 1]
    <3> SUFFICES ASSUME NEW n \in 0..N
                 PROVE  g[n] = IF n = 0 THEN <<>>
                                ELSE IF mine(n) THEN Append(g[n - 1], id(n)) ELSE g[n - 1]
      BY Zenon
    <3> HIDE DEF g
    <3>1. 0 \notin 1..N
      OBVIOUS
    <3> QED BY <1>3, <1>4, <2>1, <3>1, Zenon
  <2>3. g = [n \in 0..N |-> g[n]]
    BY Zenon
  <2> HIDE DEF g
  <2> QED BY <2>2, <2>3, Zenon
<1> HIDE DEF Sum, g
<1>6. Sum(sum)
  BY <1>5, Zenon
<1> HIDE DEF sum
<1>7. sum[0] = <<>> /\ \A n \in 1..N : sum[n] = IF mine(n) THEN Append(sum[n - 1], id(n)) ELSE sum[n - 1]
  <2>1. \A n \in 0..N : sum[n] = IF n = 0 THEN <<>>
                                  ELSE IF mine(n) THEN Append(sum[n - 1], id(n)) ELSE sum[n - 1]
    BY <1>6, Zenon DEF Sum
  <2>2. 0 \in 0..N /\ \A n \in 1..N : n \in 0..N /\ n # 0
    BY <1>2
  <2> QED BY <2>1, <2>2, Zenon
<1>8. Wrong = {}
  <2> SUFFICES ASSUME Wrong # {} PROVE FALSE
    OBVIOUS
  <2>1. Wrong \subseteq Nat
    BY <1>2
  <2>2. PICK w \in Wrong : \A n \in Wrong : w <= n
    BY <2>1, NatMin, Zenon
  <2>3. w \in 0..N /\ sum[w] # g[w] /\ \A n \in 0..N : n < w => sum[n] = g[n]
    BY <2>1, <2>2
  <2>4. w # 0
    BY <1>3, <1>7, <2>3
  <2>5. w \in 1..N /\ w - 1 \in 0..N /\ w - 1 < w
    BY <1>2, <2>3, <2>4
  <2>6. sum[w - 1] = g[w - 1]
    BY <2>3, <2>5
  <2> QED BY <1>4, <1>7, <2>3, <2>5, <2>6, ZenonT(90)
<1>9. N \in 0..N /\ top(N) = m
  BY <1>2
<1>10. sum[N] = [k \in 1..m |-> id(k)]
  BY <1>8, <1>9, Zenon DEF g
<1> QED BY <1>1, <1>10, Zenon DEF id

\* The fields of an interface after each part of a call.
LEMMA PushFields ==
  ASSUME NEW n, HasFields(n), NEW frame
  PROVE  LET t == Push(n, frame)
         IN  /\ HasFields(t)
             /\ t.ethernet_address = n.ethernet_address /\ t.ip_address = n.ip_address
             /\ t.frames_out = Append(n.frames_out, frame)
             /\ t.waiting_dgrams = n.waiting_dgrams /\ t.ip_eth_map = n.ip_eth_map
             /\ t.ip_waiting_time_map = n.ip_waiting_time_map
  BY Zenon DEF HasFields, Push

LEMMA EmptiedFields ==
  ASSUME NEW n, HasFields(n)
  PROVE  LET t == [n EXCEPT !.frames_out = <<>>]
         IN  /\ HasFields(t)
             /\ t.ethernet_address = n.ethernet_address /\ t.ip_address = n.ip_address
             /\ t.frames_out = <<>>
             /\ t.waiting_dgrams = n.waiting_dgrams /\ t.ip_eth_map = n.ip_eth_map
             /\ t.ip_waiting_time_map = n.ip_waiting_time_map
  BY Zenon DEF HasFields

LEMMA EnqueueFields ==
  ASSUME NEW n, HasFields(n), NEW dgram, NEW ip
  PROVE  LET t == Enqueue(n, dgram, ip)
         IN  /\ HasFields(t)
             /\ t.ethernet_address = n.ethernet_address /\ t.ip_address = n.ip_address
             /\ t.frames_out = n.frames_out
             /\ t.waiting_dgrams = Put(n.waiting_dgrams, ip, Append(Queue(n, ip), dgram))
             /\ t.ip_eth_map = n.ip_eth_map
             /\ t.ip_waiting_time_map = n.ip_waiting_time_map
  BY Zenon DEF HasFields, Enqueue, Queue

LEMMA TimerFields ==
  ASSUME NEW n, HasFields(n), NEW ip
  PROVE  LET t == [n EXCEPT !.ip_waiting_time_map = Put(@, ip, 0)]
         IN  /\ HasFields(t)
             /\ t.ethernet_address = n.ethernet_address /\ t.ip_address = n.ip_address
             /\ t.frames_out = n.frames_out
             /\ t.waiting_dgrams = n.waiting_dgrams /\ t.ip_eth_map = n.ip_eth_map
             /\ t.ip_waiting_time_map = Put(n.ip_waiting_time_map, ip, 0)
  BY Zenon DEF HasFields

FramesFor(n, eth, queue) == [k \in DOMAIN queue |-> Frame(n, eth, "IPv4", queue[k])]

LEMMA LearnFields ==
  ASSUME NEW n, HasFields(n), NEW arp
  PROVE  LET t == Learn(n, arp)
             ip == arp.sender_ip
             pending == ip \in DOMAIN n.ip_waiting_time_map
         IN  /\ HasFields(t)
             /\ t.ethernet_address = n.ethernet_address /\ t.ip_address = n.ip_address
             /\ t.ip_eth_map = Put(n.ip_eth_map, ip, [addr |-> arp.sender_eth, time |-> 0])
             /\ pending => /\ t.frames_out = n.frames_out \o FramesFor(n, arp.sender_eth, n.waiting_dgrams[ip])
                           /\ t.waiting_dgrams = Erase(n.waiting_dgrams, ip)
                           /\ t.ip_waiting_time_map = Erase(n.ip_waiting_time_map, ip)
             /\ ~pending => /\ t.frames_out = n.frames_out
                            /\ t.waiting_dgrams = n.waiting_dgrams
                            /\ t.ip_waiting_time_map = n.ip_waiting_time_map
  BY ZenonT(90) DEF HasFields, Learn, FramesFor

Ticked(n, ms, t) ==
  /\ HasFields(t) /\ t.ethernet_address = n.ethernet_address /\ t.ip_address = n.ip_address
  /\ t.frames_out = n.frames_out /\ t.waiting_dgrams = n.waiting_dgrams
  /\ t.ip_waiting_time_map =
       [ip \in DOMAIN n.ip_waiting_time_map |->
          IF n.ip_waiting_time_map[ip] + ms > PendingTime THEN PendingTime + 1
          ELSE n.ip_waiting_time_map[ip] + ms]
  /\ DOMAIN t.ip_eth_map = {ip \in DOMAIN n.ip_eth_map : n.ip_eth_map[ip].time + ms <= MappingTime}
  /\ t.ip_eth_map = [ip \in DOMAIN t.ip_eth_map |->
                       [n.ip_eth_map[ip] EXCEPT !.time = n.ip_eth_map[ip].time + ms]]

LEMMA TickFields ==
  ASSUME NEW n, HasFields(n), NEW ms
  PROVE  Ticked(n, ms, interface_tick(n, ms))
<1> DEFINE t == interface_tick(n, ms)
<1>1. /\ HasFields(t)
      /\ t.ethernet_address = n.ethernet_address /\ t.ip_address = n.ip_address
      /\ t.frames_out = n.frames_out
      /\ t.waiting_dgrams = n.waiting_dgrams
  BY ZenonT(90) DEF HasFields, interface_tick
<1>2. t.ip_waiting_time_map =
        [ip \in DOMAIN n.ip_waiting_time_map |->
           IF n.ip_waiting_time_map[ip] + ms > PendingTime THEN PendingTime + 1
           ELSE n.ip_waiting_time_map[ip] + ms]
  BY ZenonT(90) DEF HasFields, interface_tick
<1> DEFINE age == [ip \in DOMAIN n.ip_eth_map |-> n.ip_eth_map[ip].time + ms]
           older == [ip \in DOMAIN n.ip_eth_map |-> [n.ip_eth_map[ip] EXCEPT !.time = age[ip]]]
           young == {ip \in DOMAIN n.ip_eth_map : age[ip] <= MappingTime}
<1>3. t.ip_eth_map = Restrict(older, young)
  BY ZenonT(90) DEF HasFields, interface_tick
<1>4. young = {ip \in DOMAIN n.ip_eth_map : n.ip_eth_map[ip].time + ms <= MappingTime}
  BY Zenon
<1>5. t.ip_eth_map = [ip \in young |-> older[ip]]
  BY <1>3, Zenon DEF Restrict
<1>6. \A ip \in young : older[ip] = [n.ip_eth_map[ip] EXCEPT !.time = n.ip_eth_map[ip].time + ms]
  BY Zenon
<1> HIDE DEF t, older, age, young
<1>7. DOMAIN t.ip_eth_map = young
  BY <1>5, Zenon
<1>8. t.ip_eth_map = [ip \in DOMAIN t.ip_eth_map |->
                        [n.ip_eth_map[ip] EXCEPT !.time = n.ip_eth_map[ip].time + ms]]
  BY <1>5, <1>6, <1>7, ZenonT(90)
<1> QED BY <1>1, <1>2, <1>4, <1>7, <1>8, Zenon DEF Ticked, t

LEMMA NewFields ==
  ASSUME NEW eth, NEW ip
  PROVE  LET t == NewInterface(eth, ip)
         IN  /\ HasFields(t)
             /\ t.ethernet_address = eth /\ t.ip_address = ip
             /\ t.frames_out = <<>>
             /\ t.waiting_dgrams = EmptyMap /\ t.ip_eth_map = EmptyMap
             /\ t.ip_waiting_time_map = EmptyMap
  BY Zenon DEF HasFields, NewInterface

LEMMA EmptyIsMap == \A T : DOMAIN EmptyMap = {} /\ IsMap(EmptyMap, T)
  BY DEF EmptyMap, IsMap

\* The three ways send_datagram() goes.
Sent(n, dgram, ip, t) ==
  /\ ip \in DOMAIN n.ip_eth_map
  /\ t.frames_out = Append(n.frames_out, Frame(n, n.ip_eth_map[ip].addr, "IPv4", dgram))
  /\ t.waiting_dgrams = n.waiting_dgrams
  /\ t.ip_waiting_time_map = n.ip_waiting_time_map

Waits(n, dgram, ip, t) ==
  /\ ip \notin DOMAIN n.ip_eth_map
  /\ ip \in DOMAIN n.ip_waiting_time_map /\ n.ip_waiting_time_map[ip] <= PendingTime
  /\ t.frames_out = n.frames_out
  /\ t.waiting_dgrams = Put(n.waiting_dgrams, ip, Append(Queue(n, ip), dgram))
  /\ t.ip_waiting_time_map = n.ip_waiting_time_map

Asks(n, dgram, ip, t) ==
  /\ ip \notin DOMAIN n.ip_eth_map
  /\ ~(ip \in DOMAIN n.ip_waiting_time_map /\ n.ip_waiting_time_map[ip] <= PendingTime)
  /\ t.frames_out = Append(n.frames_out,
                           Frame(n, ETHERNET_BROADCAST, "ARP", ARPMessage(n, "REQUEST", NoEth, ip)))
  /\ t.waiting_dgrams = Put(n.waiting_dgrams, ip, Append(Queue(n, ip), dgram))
  /\ t.ip_waiting_time_map = Put(n.ip_waiting_time_map, ip, 0)

LEMMA SendCases ==
  ASSUME NEW n, HasFields(n), NEW dgram, NEW ip
  PROVE  LET t == send_datagram(n, dgram, ip)
         IN  /\ HasFields(t)
             /\ t.ethernet_address = n.ethernet_address /\ t.ip_address = n.ip_address
             /\ t.ip_eth_map = n.ip_eth_map
             /\ Sent(n, dgram, ip, t) \/ Waits(n, dgram, ip, t) \/ Asks(n, dgram, ip, t)
<1> DEFINE q == Enqueue(n, dgram, ip)
<1>1. CASE ip \in DOMAIN n.ip_eth_map
  BY <1>1, PushFields, Zenon DEF send_datagram, Sent
<1>2. CASE ip \notin DOMAIN n.ip_eth_map
  <2>1. send_datagram(n, dgram, ip) = Request(q, ip)
    BY <1>2, Zenon DEF send_datagram
  <2>2. /\ HasFields(q)
        /\ q.ethernet_address = n.ethernet_address /\ q.ip_address = n.ip_address
        /\ q.frames_out = n.frames_out
        /\ q.waiting_dgrams = Put(n.waiting_dgrams, ip, Append(Queue(n, ip), dgram))
        /\ q.ip_eth_map = n.ip_eth_map
        /\ q.ip_waiting_time_map = n.ip_waiting_time_map
    BY EnqueueFields
  <2> HIDE DEF q
  <2>3. CASE ip \in DOMAIN n.ip_waiting_time_map /\ n.ip_waiting_time_map[ip] <= PendingTime
    <3>1. Request(q, ip) = q
      BY <2>2, <2>3, Zenon DEF Request
    <3> QED BY <1>2, <2>1, <2>2, <2>3, <3>1, Zenon DEF Waits
  <2>4. CASE ~(ip \in DOMAIN n.ip_waiting_time_map /\ n.ip_waiting_time_map[ip] <= PendingTime)
    <3> DEFINE u == [q EXCEPT !.ip_waiting_time_map = Put(@, ip, 0)]
               frame == Frame(q, ETHERNET_BROADCAST, "ARP", ARPMessage(q, "REQUEST", NoEth, ip))
    <3>1. Request(q, ip) = Push(u, frame)
      BY <2>2, <2>4, Zenon DEF Request
    <3>2. /\ HasFields(u)
          /\ u.ethernet_address = q.ethernet_address /\ u.ip_address = q.ip_address
          /\ u.frames_out = q.frames_out
          /\ u.waiting_dgrams = q.waiting_dgrams /\ u.ip_eth_map = q.ip_eth_map
          /\ u.ip_waiting_time_map = Put(q.ip_waiting_time_map, ip, 0)
      BY <2>2, TimerFields, Zenon
    <3>3. frame = Frame(n, ETHERNET_BROADCAST, "ARP", ARPMessage(n, "REQUEST", NoEth, ip))
      BY <2>2, Zenon DEF Frame, ARPMessage
    <3> HIDE DEF u, frame
    <3>4. LET t == Push(u, frame)
          IN  /\ HasFields(t)
              /\ t.ethernet_address = u.ethernet_address /\ t.ip_address = u.ip_address
              /\ t.frames_out = Append(u.frames_out, frame)
              /\ t.waiting_dgrams = u.waiting_dgrams /\ t.ip_eth_map = u.ip_eth_map
              /\ t.ip_waiting_time_map = u.ip_waiting_time_map
      BY <3>2, PushFields, Zenon
    <3> QED BY <1>2, <2>1, <2>2, <2>4, <3>1, <3>2, <3>3, <3>4, Zenon DEF Asks
  <2> QED BY <2>3, <2>4
<1> QED BY <1>1, <1>2

LEMMA QueueOf ==
  ASSUME NEW n, IsInterface(n), NEW ip
  PROVE  Queue(n, ip) \in Seq(Datagrams)
  BY DEF IsInterface, IsMap, Queue

LEMMA CountOn ==
  ASSUME NEW a \in Nat, NEW b \in Nat
  PROVE  Counting(a) \o [k \in 1..b |-> a + k] = Counting(a + b) /\ Counting(a) \o <<>> = Counting(a)
  BY DEF Counting

\* What a call that sends at most one frame transmits and asks for.
LEMMA NoFrame ==
  /\ Requested(<<>>) = {}
  /\ \A d : Dgrams(<<>>, d) = <<>>
<1>1. Requested(<<>>) = {}
  BY DEF Requested
<1>2. ASSUME NEW d PROVE Dgrams(<<>>, d) = <<>>
  <2>1. Dgrams(<<>>, d) = [k \in 1..0 |-> <<>>[k].payload.id]
    <3>1. Len(<<>>) \in Nat /\ 0 \in 0..Len(<<>>) /\ 1..0 = {} /\ 0 + 1 .. Len(<<>>) = {}
      OBVIOUS
    <3> QED BY <3>1, DgramsOfPrefix, Zenon
  <2> QED BY <2>1
<1> QED BY <1>1, <1>2

LEMMA OneDgram ==
  ASSUME NEW f, f.type = "IPv4"
  PROVE  /\ Requested(<<f>>) = {}
         /\ Dgrams(<<f>>, f.payload.dst) = <<f.payload.id>>
         /\ \A d : d # f.payload.dst => Dgrams(<<f>>, d) = <<>>
<1>1. Requested(<<f>>) = {}
  BY DEF Requested
<1> DEFINE s == <<f>>
<1>2. /\ Len(s) \in Nat /\ 0 \in 0..Len(s) /\ 1 \in 0..Len(s) /\ s[1] = f
      /\ 1..1 = {1} /\ 1..0 = {} /\ 1 + 1 .. Len(s) = {} /\ 0 + 1 .. Len(s) = {1}
  OBVIOUS
<1>3. [k \in 1..1 |-> s[k].payload.id] = <<f.payload.id>> /\ [k \in 1..0 |-> s[k].payload.id] = <<>>
  OBVIOUS
<1> HIDE DEF s
<1>4. Dgrams(s, f.payload.dst) = [k \in 1..1 |-> s[k].payload.id]
  <2>1. \A k \in 1..1 : s[k].type = "IPv4" /\ s[k].payload.dst = f.payload.dst
    BY <1>2, Zenon
  <2>2. \A k \in 1 + 1 .. Len(s) : ~(s[k].type = "IPv4" /\ s[k].payload.dst = f.payload.dst)
    BY <1>2, Zenon
  <2>3. Len(s) \in Nat /\ 1 \in 0..Len(s)
    BY <1>2, Zenon
  <2> QED BY <2>1, <2>2, <2>3, DgramsOfPrefix, SMTT(30), ZenonT(90)
<1>5. ASSUME NEW d, d # f.payload.dst PROVE Dgrams(s, d) = [k \in 1..0 |-> s[k].payload.id]
  <2>1. \A k \in 1..0 : s[k].type = "IPv4" /\ s[k].payload.dst = d
    BY <1>2, Zenon
  <2>2. \A k \in 0 + 1 .. Len(s) : ~(s[k].type = "IPv4" /\ s[k].payload.dst = d)
    BY <1>2, <1>5, Zenon
  <2> QED BY <1>2, <2>1, <2>2, DgramsOfPrefix
<1> QED BY <1>1, <1>3, <1>4, <1>5, Zenon DEF s

LEMMA OneRequest ==
  ASSUME NEW f, f.type = "ARP", f.payload.opcode = "REQUEST"
  PROVE  /\ Requested(<<f>>) = {f.payload.target_ip}
         /\ \A d : Dgrams(<<f>>, d) = <<>>
<1>1. Requested(<<f>>) = {f.payload.target_ip}
  BY DEF Requested
<1> DEFINE s == <<f>>
<1>2. Len(s) \in Nat /\ 0 \in 0..Len(s) /\ 1..0 = {} /\ 0 + 1 .. Len(s) = {1} /\ s[1] = f
  OBVIOUS
<1> HIDE DEF s
<1>3. "ARP" # "IPv4"
  OBVIOUS
<1>4. ASSUME NEW d PROVE Dgrams(s, d) = [k \in 1..0 |-> s[k].payload.id]
  BY <1>2, <1>3, DgramsOfPrefix, ZenonT(90)
<1>5. [k \in 1..0 |-> s[k].payload.id] = <<>>
  OBVIOUS
<1> QED BY <1>1, <1>4, <1>5, Zenon DEF s

\* What waits with the datagram behind it, and what was sent before.
LEMMA NumberedWaits ==
  ASSUME NEW q \in Seq(Datagrams), NEW given \in Nat, NEW sent, NumberedFor(q, given, sent),
         NEW d \in Datagrams, d.id = given + 1
  PROVE  NumberedFor(Append(q, d), given + 1, sent)
<1>1. Len(Append(q, d)) = Len(q) + 1 /\ Len(q) \in Nat
      /\ \A k \in 1 .. Len(q) + 1 : Append(q, d)[k] = IF k = Len(q) + 1 THEN d ELSE q[k]
  OBVIOUS
<1>2. (given + 1) - (Len(q) + 1) = given - Len(q)
  BY <1>1
<1>3. \A k \in 1 .. Len(q) + 1 : Append(q, d)[k].id = given - Len(q) + k
  <2> SUFFICES ASSUME NEW k \in 1 .. Len(q) + 1 PROVE Append(q, d)[k].id = given - Len(q) + k
    OBVIOUS
  <2>1. CASE k = Len(q) + 1
    BY <1>1, <2>1
  <2>2. CASE k \in 1..Len(q)
    BY <1>1, <2>2 DEF NumberedFor
  <2> QED BY <1>1, <2>1, <2>2
<1> QED BY <1>1, <1>2, <1>3 DEF NumberedFor

LEMMA NumberedSent ==
  ASSUME NEW given \in Nat, NEW sent, NumberedFor(<<>>, given, sent)
  PROVE  NumberedFor(<<>>, given + 1, sent \o <<given + 1>>)
<1>1. sent = Counting(given)
  BY DEF NumberedFor
<1>2. <<given + 1>> = [k \in 1..1 |-> given + k]
  OBVIOUS
<1>3. sent \o <<given + 1>> = Counting(given + 1)
  BY <1>1, <1>2, CountOn, Zenon
<1> QED BY <1>3 DEF NumberedFor

LEMMA NumberedStill ==
  ASSUME NEW q \in Seq(Datagrams), NEW given \in Nat, NEW sent, NumberedFor(q, given, sent)
  PROVE  NumberedFor(q, given, sent \o <<>>)
<1>1. given - Len(q) \in Nat /\ sent = Counting(given - Len(q))
  BY DEF NumberedFor
<1>2. sent \o <<>> = sent
  BY <1>1, CountOn
<1> QED BY <1>2

\* A queue is sent as a whole.
LEMMA NumberedFlushed ==
  ASSUME NEW q \in Seq(Datagrams), NEW given \in Nat, NEW sent, NumberedFor(q, given, sent)
  PROVE  NumberedFor(<<>>, given, sent \o [k \in 1..Len(q) |-> q[k].id])
<1> DEFINE a == given - Len(q)
<1>1. a \in Nat /\ Len(q) \in Nat /\ a + Len(q) = given /\ sent = Counting(a)
  BY DEF NumberedFor
<1>2. [k \in 1..Len(q) |-> q[k].id] = [k \in 1..Len(q) |-> a + k]
  BY DEF NumberedFor
<1> HIDE DEF a
<1>3. sent \o [k \in 1..Len(q) |-> q[k].id] = Counting(given)
  BY <1>1, <1>2, CountOn, Zenon
<1>4. Len(<<>>) = 0 /\ given - 0 = given /\ 0 <= given /\ 1..0 = {}
  OBVIOUS
<1> QED BY <1>3, <1>4, Zenon DEF NumberedFor

\* Good depends on the tables only; they do not name the frames sent.
LEMMA GoodFields ==
  ASSUME NEW h, NEW n, NEW rep, NEW ages, Good(h, n, rep, ages)
  PROVE  /\ HasFields(n) /\ IsInterface(n)
         /\ IsMap(n.waiting_dgrams, Seq(Datagrams))
         /\ IsMap(n.ip_eth_map, [addr : Addresses, time : Nat])
         /\ IsMap(n.ip_waiting_time_map, Nat)
         /\ n.ethernet_address = Eth(h, rep[h]) /\ n.ip_address = h
  BY Zenon DEF Good, IsInterface

LEMMA GoodFrom ==
  ASSUME NEW h, NEW n, NEW rep, NEW ages, Good(h, n, rep, ages), NEW t, HasFields(t),
         t.ethernet_address = n.ethernet_address, t.ip_address = n.ip_address,
         t.waiting_dgrams = n.waiting_dgrams, t.ip_eth_map = n.ip_eth_map,
         t.ip_waiting_time_map = n.ip_waiting_time_map
  PROVE  Good(h, t, rep, ages)
<1>1. IsInterface(t) /\ t.ethernet_address = Eth(h, rep[h]) /\ t.ip_address = h
  BY Zenon DEF Good, IsInterface
<1>2. Pending(t)
  BY Zenon DEF Good, Pending
<1>3. Known(t, rep)
  BY Zenon DEF Good, Known
<1>4. Addressed(t)
  BY DEF Good, Addressed
<1>5. Dated(t, ages)
  BY Zenon DEF Good, Dated
<1> QED BY <1>1, <1>2, <1>3, <1>4, <1>5, Zenon DEF Good

LEMMA FrameFields ==
  ASSUME NEW n, NEW dst, NEW type, NEW payload
  PROVE  LET f == Frame(n, dst, type, payload)
         IN  f.dst = dst /\ f.type = type /\ f.payload = payload
  BY DEF Frame

LEMMA HadSelf ==
  ASSUME NEW h \in Hosts, NEW rep \in [Hosts -> Nat]
  PROVE  Had(rep, h, Eth(h, rep[h])) /\ Eth(h, rep[h]) \in Addresses
  BY DEF Had, Eth, Addresses

\* A truthful ARP message with an opcode about an address.
Speaks(f, opcode, ip, rep) ==
  f.type = "ARP" /\ f.payload.opcode = opcode /\ f.payload.target_ip = ip /\ Truthful(f, rep)

LEMMA ARPTruthful ==
  ASSUME NEW h \in Hosts, NEW rep \in [Hosts -> Nat], NEW n, n.ethernet_address = Eth(h, rep[h]),
         n.ip_address = h, NEW dst, NEW opcode, NEW eth, NEW ip
  PROVE  Speaks(Frame(n, dst, "ARP", ARPMessage(n, opcode, eth, ip)), opcode, ip, rep)
<1> DEFINE m == ARPMessage(n, opcode, eth, ip)
           f == Frame(n, dst, "ARP", m)
<1>1. m.opcode = opcode /\ m.target_ip = ip /\ m.sender_ip = h /\ m.sender_eth = Eth(h, rep[h])
  BY DEF ARPMessage
<1>2. f.type = "ARP" /\ f.payload = m
  BY FrameFields
<1>3. "ARP" # "IPv4"
  OBVIOUS
<1> HIDE DEF m, f
<1>4. Truthful(f, rep)
  BY <1>1, <1>2, <1>3, HadSelf, Zenon DEF Truthful
<1> QED BY <1>1, <1>2, <1>4, Zenon DEF Speaks, m, f

\* What a call of send_datagram() may rely on, and what holds after it.
Before(h, ip, rep, ages, n, dgram, given, sent) ==
  /\ h \in Hosts /\ ip \in Hosts /\ rep \in [Hosts -> Nat] /\ ages \in [Hosts -> Nat]
  /\ Good(h, n, rep, ages) /\ n.frames_out = <<>>
  /\ dgram \in Datagrams /\ dgram.dst = ip /\ dgram.id = given[ip] + 1
  /\ given \in [Hosts -> Nat] /\ Numbered(n, given, sent)

SameBut(n, t) ==
  /\ HasFields(t) /\ t.ethernet_address = n.ethernet_address /\ t.ip_address = n.ip_address
  /\ t.ip_eth_map = n.ip_eth_map

NumberedAfter(ip, given, sent, t) ==
  Numbered(t, [given EXCEPT ![ip] = given[ip] + 1],
           [d \in Hosts |-> sent[d] \o Dgrams(t.frames_out, d)])

After(h, ip, rep, ages, given, sent, t) ==
  /\ Good(h, t, rep, [d \in Hosts |-> IF d \in Requested(t.frames_out) THEN 0 ELSE ages[d]])
  /\ \A d \in Requested(t.frames_out) : ages[d] > PendingTime
  /\ \A k \in DOMAIN t.frames_out : Truthful(t.frames_out[k], rep)
  /\ NumberedAfter(ip, given, sent, t)

LEMMA SentGood ==
  ASSUME NEW h, NEW ip, NEW rep, NEW ages, NEW n, NEW dgram, NEW given, NEW sent, NEW t,
         Before(h, ip, rep, ages, n, dgram, given, sent), SameBut(n, t), Sent(n, dgram, ip, t)
  PROVE  After(h, ip, rep, ages, given, sent, t)
<1> USE DEF Before, SameBut
<1> DEFINE f == Frame(n, n.ip_eth_map[ip].addr, "IPv4", dgram)
           new == [d \in Hosts |-> IF d \in Requested(t.frames_out) THEN 0 ELSE ages[d]]
<1>1. f.type = "IPv4" /\ f.payload = dgram /\ f.dst = n.ip_eth_map[ip].addr
  BY FrameFields
<1> HIDE DEF f
<1>2. t.frames_out = <<f>>
  <2>1. t.frames_out = Append(<<>>, f)
    BY Zenon DEF Sent, f
  <2> QED BY <2>1
<1>3. Requested(t.frames_out) = {} /\ Dgrams(t.frames_out, ip) = <<given[ip] + 1>>
      /\ \A d : d # ip => Dgrams(t.frames_out, d) = <<>>
  BY <1>1, <1>2, OneDgram
<1>4. new = ages
  BY <1>3
<1>5. Good(h, t, rep, ages)
  BY GoodFrom, Zenon DEF Sent
<1>6. Truthful(f, rep)
  <2>1. Had(rep, ip, f.dst)
    BY <1>1, Zenon DEF Good, Known, Sent
  <2>2. "IPv4" # "ARP"
    OBVIOUS
  <2> QED BY <1>1, <2>1, <2>2, Zenon DEF Truthful
<1>7. \A k \in DOMAIN t.frames_out : Truthful(t.frames_out[k], rep)
  BY <1>2, <1>6
<1>8. NumberedAfter(ip, given, sent, t)
  <2> SUFFICES ASSUME NEW d \in Hosts
               PROVE  NumberedFor(Queue(t, d), [given EXCEPT ![ip] = given[ip] + 1][d],
                                  sent[d] \o Dgrams(t.frames_out, d))
    BY DEF Numbered, NumberedAfter
  <2>1. Queue(t, d) = Queue(n, d)
    BY Zenon DEF Queue, Sent
  <2>2. Queue(n, d) \in Seq(Datagrams) /\ NumberedFor(Queue(n, d), given[d], sent[d])
    BY GoodFields, QueueOf, Zenon DEF Numbered
  <2>3. CASE d = ip
    <3>1. Queue(n, d) = <<>>
      BY <2>3, Zenon DEF Queue, Good, Pending, Sent
    <3>2. NumberedFor(<<>>, given[ip] + 1, sent[ip] \o <<given[ip] + 1>>)
      BY <2>2, <2>3, <3>1, NumberedSent
    <3> QED BY <1>3, <2>1, <2>3, <3>1, <3>2, ZenonT(60), SMTT(60)
  <2>4. CASE d # ip
    <3>1. NumberedFor(Queue(n, d), given[d], sent[d] \o <<>>)
      BY <2>2, NumberedStill
    <3> QED BY <1>3, <2>1, <2>4, <3>1, Zenon
  <2> QED BY <2>3, <2>4
<1> QED BY <1>3, <1>4, <1>5, <1>7, <1>8, Zenon DEF After

\* One more datagram waits for an address, whose last request is as old as
\* the interface counts.
Queued(n, dgram, ip, t) ==
  /\ SameBut(n, t) /\ ip \notin DOMAIN n.ip_eth_map
  /\ t.waiting_dgrams = Put(n.waiting_dgrams, ip, Append(Queue(n, ip), dgram))

Redated(n, ip, ages, t, new) ==
  /\ IsMap(t.ip_waiting_time_map, Nat)
  /\ DOMAIN t.ip_waiting_time_map = DOMAIN n.ip_waiting_time_map \cup {ip}
  /\ new \in [Hosts -> Nat] /\ new[ip] = t.ip_waiting_time_map[ip]
  /\ \A d \in Hosts : d # ip => new[d] = ages[d]
  /\ \A d \in DOMAIN n.ip_waiting_time_map :
       d # ip => t.ip_waiting_time_map[d] = n.ip_waiting_time_map[d]

LEMMA QueuedGood ==
  ASSUME NEW h, NEW ip, NEW rep, NEW ages, NEW n, NEW dgram, NEW given, NEW sent, NEW t, NEW new,
         Before(h, ip, rep, ages, n, dgram, given, sent), Queued(n, dgram, ip, t),
         Redated(n, ip, ages, t, new)
  PROVE  Good(h, t, rep, new)
<1> USE DEF Before, SameBut, Queued, Redated
<1> DEFINE q == Append(Queue(n, ip), dgram)
<1>1. Queue(n, ip) \in Seq(Datagrams)
  BY GoodFields, QueueOf, ZenonT(60), SMTT(60)
<1>2. q \in Seq(Datagrams) /\ q # <<>>
  BY <1>1, AppendProperties
<1>3. /\ IsMap(t.waiting_dgrams, Seq(Datagrams))
      /\ DOMAIN t.waiting_dgrams = DOMAIN n.waiting_dgrams \cup {ip}
      /\ t.waiting_dgrams[ip] = q
      /\ \A k \in DOMAIN n.waiting_dgrams : k # ip => t.waiting_dgrams[k] = n.waiting_dgrams[k]
  <2>1. IsMap(n.waiting_dgrams, Seq(Datagrams))
    BY GoodFields
  <2> HIDE DEF q
  <2>2. t.waiting_dgrams = Put(n.waiting_dgrams, ip, q)
    BY ZenonT(60), SMTT(60) DEF q
  <2>3. /\ IsMap(Put(n.waiting_dgrams, ip, q), Seq(Datagrams))
        /\ DOMAIN Put(n.waiting_dgrams, ip, q) = DOMAIN n.waiting_dgrams \cup {ip}
        /\ Put(n.waiting_dgrams, ip, q)[ip] = q
        /\ \A k \in DOMAIN n.waiting_dgrams : k # ip => Put(n.waiting_dgrams, ip, q)[k] = n.waiting_dgrams[k]
    BY <1>2, <2>1, ZenonT(60), SMTT(60) DEF IsMap, Put
  <2> QED BY <2>2, <2>3, Zenon
<1>4. \A k \in 1..Len(q) : q[k].dst = ip
  <2>1. \A k \in 1..Len(Queue(n, ip)) : Queue(n, ip)[k].dst = ip
    BY DEF Good, Addressed, Queue
  <2>2. Len(q) = Len(Queue(n, ip)) + 1
        /\ \A k \in 1 .. Len(Queue(n, ip)) + 1 :
             q[k] = IF k = Len(Queue(n, ip)) + 1 THEN dgram ELSE Queue(n, ip)[k]
    BY <1>1, SMTT(30), SMTT(90)
  <2>3. \A k \in 1 .. Len(Queue(n, ip)) + 1 : k = Len(Queue(n, ip)) + 1 \/ k \in 1..Len(Queue(n, ip))
    BY <1>1, SMTT(30), SMTT(90)
  <2> HIDE DEF q
  <2>4. ASSUME NEW k \in 1..Len(q) PROVE q[k].dst = ip
    <3>1. k \in 1 .. Len(Queue(n, ip)) + 1
      BY <2>2
    <3>2. CASE k = Len(Queue(n, ip)) + 1
      BY <2>2, <3>1, <3>2, Zenon
    <3>3. CASE k \in 1..Len(Queue(n, ip)) /\ k # Len(Queue(n, ip)) + 1
      BY <2>1, <2>2, <3>1, <3>3, Zenon
    <3> QED BY <2>3, <3>1, <3>2, <3>3, Zenon
  <2> QED BY <2>4, ZenonT(60), SMTT(60)
<1> HIDE DEF q
<1>5. IsInterface(t) /\ t.ethernet_address = Eth(h, rep[h]) /\ t.ip_address = h
  BY <1>3, Zenon DEF Good, IsInterface
<1>6. Pending(t)
  BY <1>2, <1>3, ZenonT(90) DEF Good, Pending
<1>7. Known(t, rep)
  BY Zenon DEF Good, Known
<1>8. Addressed(t)
  <2> SUFFICES ASSUME NEW d \in DOMAIN t.waiting_dgrams
               PROVE  \A k \in 1..Len(t.waiting_dgrams[d]) : t.waiting_dgrams[d][k].dst = d
    BY ZenonT(60), SMTT(60) DEF Addressed
  <2>1. CASE d = ip
    BY <1>3, <1>4, <2>1, Zenon
  <2>2. CASE d # ip
    <3>1. d \in DOMAIN n.waiting_dgrams /\ t.waiting_dgrams[d] = n.waiting_dgrams[d]
      BY <1>3, <2>2, Zenon
    <3>2. \A k \in 1..Len(n.waiting_dgrams[d]) : n.waiting_dgrams[d][k].dst = d
      BY <3>1, ZenonT(60), SMTT(60) DEF Good, Addressed
    <3> QED BY <3>1, <3>2, ZenonT(60), SMTT(60)
  <2> QED BY <2>1, <2>2, ZenonT(60), SMTT(60)
<1>9. Dated(t, new)
  <2> SUFFICES ASSUME NEW d \in Hosts
               PROVE  /\ d \in DOMAIN t.ip_waiting_time_map => t.ip_waiting_time_map[d] = new[d]
                      /\ d \notin DOMAIN t.ip_waiting_time_map /\ new[d] <= PendingTime =>
                           d \in DOMAIN t.ip_eth_map /\ t.ip_eth_map[d].time <= new[d]
    BY Zenon DEF Dated
  <2>1. CASE d = ip
    BY <2>1, Zenon
  <2>2. CASE d # ip
    BY <2>2, ZenonT(90) DEF Good, Dated
  <2> QED BY <2>1, <2>2
<1> QED BY <1>5, <1>6, <1>7, <1>8, <1>9, ZenonT(90) DEF Good

\* No datagram is transmitted.
Silent(t) == \A d : Dgrams(t.frames_out, d) = <<>>

LEMMA QueuedNumbered ==
  ASSUME NEW h, NEW ip, NEW rep, NEW ages, NEW n, NEW dgram, NEW given, NEW sent, NEW t,
         Before(h, ip, rep, ages, n, dgram, given, sent), Queued(n, dgram, ip, t), Silent(t)
  PROVE  NumberedAfter(ip, given, sent, t)
<1> USE DEF Before, Queued, Silent
<1> SUFFICES ASSUME NEW d \in Hosts
             PROVE  NumberedFor(Queue(t, d), [given EXCEPT ![ip] = given[ip] + 1][d],
                                sent[d] \o <<>>)
  BY Zenon DEF Numbered, NumberedAfter
<1> DEFINE q == Append(Queue(n, ip), dgram)
<1>1. \A k : Queue(n, k) \in Seq(Datagrams)
  BY GoodFields, QueueOf
<1>2. q \in Seq(Datagrams)
  BY <1>1
<1>3. NumberedFor(q, given[ip] + 1, sent[ip])
  BY <1>1, NumberedWaits, ZenonT(60), SMTT(60) DEF Numbered
<1> HIDE DEF q
<1>4. IsMap(n.waiting_dgrams, Seq(Datagrams)) /\ t.waiting_dgrams = Put(n.waiting_dgrams, ip, q)
  BY GoodFields DEF q
<1>5. /\ DOMAIN t.waiting_dgrams = DOMAIN n.waiting_dgrams \cup {ip}
      /\ t.waiting_dgrams[ip] = q
      /\ \A k \in DOMAIN n.waiting_dgrams : k # ip => t.waiting_dgrams[k] = n.waiting_dgrams[k]
  <2>1. /\ IsMap(Put(n.waiting_dgrams, ip, q), Seq(Datagrams))
        /\ DOMAIN Put(n.waiting_dgrams, ip, q) = DOMAIN n.waiting_dgrams \cup {ip}
        /\ Put(n.waiting_dgrams, ip, q)[ip] = q
        /\ \A k \in DOMAIN n.waiting_dgrams : k # ip => Put(n.waiting_dgrams, ip, q)[k] = n.waiting_dgrams[k]
    BY <1>2, <1>4, ZenonT(60), SMTT(60) DEF IsMap, Put
  <2> QED BY <1>4, <2>1, ZenonT(90)
<1>6. CASE d = ip
  <2>1. Queue(t, d) = q
    BY <1>5, <1>6, Zenon DEF Queue
  <2>2. NumberedFor(q, given[ip] + 1, sent[ip] \o <<>>)
    <3>1. given[ip] + 1 \in Nat
      OBVIOUS
    <3> QED BY <1>2, <1>3, <3>1, NumberedStill, ZenonT(60), SMTT(60)
  <2> QED BY <1>6, <2>1, <2>2
<1>7. CASE d # ip
  <2>1. Queue(t, d) = Queue(n, d)
    BY <1>5, <1>7, Zenon DEF Queue
  <2>2. NumberedFor(Queue(n, d), given[d], sent[d] \o <<>>)
    BY <1>1, NumberedStill DEF Numbered
  <2> QED BY <1>7, <2>1, <2>2
<1> QED BY <1>6, <1>7

LEMMA WaitsGood ==
  ASSUME NEW h, NEW ip, NEW rep, NEW ages, NEW n, NEW dgram, NEW given, NEW sent, NEW t,
         Before(h, ip, rep, ages, n, dgram, given, sent), SameBut(n, t), Waits(n, dgram, ip, t)
  PROVE  After(h, ip, rep, ages, given, sent, t)
<1> USE DEF Before, SameBut
<1> DEFINE new == [d \in Hosts |-> IF d \in Requested(t.frames_out) THEN 0 ELSE ages[d]]
<1>1. /\ ip \notin DOMAIN n.ip_eth_map /\ ip \in DOMAIN n.ip_waiting_time_map
      /\ t.frames_out = <<>>
      /\ t.waiting_dgrams = Put(n.waiting_dgrams, ip, Append(Queue(n, ip), dgram))
      /\ t.ip_waiting_time_map = n.ip_waiting_time_map
  BY Zenon DEF Waits
<1>2. Requested(t.frames_out) = {} /\ Silent(t)
  BY <1>1, NoFrame DEF Silent
<1>3. new = ages
  BY <1>2
<1>4. Queued(n, dgram, ip, t)
  BY <1>1, Zenon DEF Queued
<1>5. Redated(n, ip, ages, t, ages)
  <2>1. DOMAIN t.ip_waiting_time_map = DOMAIN n.ip_waiting_time_map \cup {ip}
    BY <1>1
  <2>2. IsMap(t.ip_waiting_time_map, Nat) /\ ages[ip] = t.ip_waiting_time_map[ip]
    BY <1>1, GoodFields, ZenonT(90) DEF Good, Dated
  <2> QED BY <1>1, <2>1, <2>2, Zenon DEF Redated
<1>6. \A k \in DOMAIN t.frames_out : Truthful(t.frames_out[k], rep)
  BY <1>1
<1> HIDE DEF Before, SameBut, new
<1>7. Good(h, t, rep, new)
  BY <1>3, <1>4, <1>5, QueuedGood
<1>8. NumberedAfter(ip, given, sent, t)
  BY <1>2, <1>4, QueuedNumbered
<1> QED BY <1>2, <1>6, <1>7, <1>8, Zenon DEF After, new

LEMMA AsksGood ==
  ASSUME NEW h, NEW ip, NEW rep, NEW ages, NEW n, NEW dgram, NEW given, NEW sent, NEW t,
         Before(h, ip, rep, ages, n, dgram, given, sent), SameBut(n, t), Asks(n, dgram, ip, t)
  PROVE  After(h, ip, rep, ages, given, sent, t)
<1> USE DEF Before, SameBut
<1> DEFINE new == [d \in Hosts |-> IF d \in Requested(t.frames_out) THEN 0 ELSE ages[d]]
<1> DEFINE f == Frame(n, ETHERNET_BROADCAST, "ARP", ARPMessage(n, "REQUEST", NoEth, ip))
<1>1. f.type = "ARP" /\ f.payload.opcode = "REQUEST" /\ f.payload.target_ip = ip /\ Truthful(f, rep)
  <2>1. /\ h \in Hosts /\ rep \in [Hosts -> Nat]
        /\ n.ethernet_address = Eth(h, rep[h]) /\ n.ip_address = h
    BY Zenon DEF Good
  <2> HIDE DEF Before, SameBut
  <2>2. Speaks(f, "REQUEST", ip, rep)
    BY <2>1, ARPTruthful, ZenonT(90)
  <2> HIDE DEF f
  <2> QED BY <2>2, Zenon DEF Speaks
<1>2. /\ ip \notin DOMAIN n.ip_eth_map
      /\ ~(ip \in DOMAIN n.ip_waiting_time_map /\ n.ip_waiting_time_map[ip] <= PendingTime)
      /\ t.frames_out = Append(<<>>, f)
      /\ t.waiting_dgrams = Put(n.waiting_dgrams, ip, Append(Queue(n, ip), dgram))
      /\ t.ip_waiting_time_map = Put(n.ip_waiting_time_map, ip, 0)
  BY Zenon DEF Asks
<1> HIDE DEF f
<1>3. t.frames_out = <<f>>
  BY <1>2, SMTT(30), SMTT(90)
<1>4. Requested(t.frames_out) = {ip} /\ Silent(t)
  BY <1>1, <1>3, OneRequest, ZenonT(60), SMTT(60) DEF Silent
<1>5. new \in [Hosts -> Nat] /\ new[ip] = 0 /\ \A d \in Hosts : d # ip => new[d] = ages[d]
  BY <1>4
<1>6. Redated(n, ip, ages, t, new)
  <2>1. IsMap(n.ip_waiting_time_map, Nat)
    BY GoodFields, ZenonT(60), SMTT(60)
  <2> DEFINE p == Put(n.ip_waiting_time_map, ip, 0)
  <2>2. /\ IsMap(p, Nat) /\ DOMAIN p = DOMAIN n.ip_waiting_time_map \cup {ip}
        /\ p[ip] = 0
        /\ \A d \in DOMAIN n.ip_waiting_time_map : d # ip => p[d] = n.ip_waiting_time_map[d]
    BY <2>1 DEF IsMap, Put
  <2> HIDE DEF p
  <2>3. t.ip_waiting_time_map = p
    BY <1>2 DEF p
  <2>4. /\ IsMap(t.ip_waiting_time_map, Nat)
        /\ DOMAIN t.ip_waiting_time_map = DOMAIN n.ip_waiting_time_map \cup {ip}
        /\ new[ip] = t.ip_waiting_time_map[ip]
        /\ \A d \in DOMAIN n.ip_waiting_time_map :
             d # ip => t.ip_waiting_time_map[d] = n.ip_waiting_time_map[d]
    BY <1>5, <2>2, <2>3, Zenon
  <2> QED BY <1>5, <2>4, Zenon DEF Redated
<1>7. ages[ip] > PendingTime
  <2>1. /\ ip \in DOMAIN n.ip_waiting_time_map => n.ip_waiting_time_map[ip] = ages[ip]
        /\ ip \notin DOMAIN n.ip_waiting_time_map /\ ages[ip] <= PendingTime => ip \in DOMAIN n.ip_eth_map
    BY Zenon DEF Good, Dated
  <2>2. ~(ages[ip] <= PendingTime)
    BY <1>2, <2>1, Zenon
  <2> QED BY <2>2, TimeAssumption
<1>8. Queued(n, dgram, ip, t)
  BY <1>2, Zenon DEF Queued
<1>9. \A k \in DOMAIN t.frames_out : Truthful(t.frames_out[k], rep)
  BY <1>1, <1>3
<1> HIDE DEF Before, SameBut, new
<1>10. Good(h, t, rep, new)
  BY <1>6, <1>8, QueuedGood
<1>11. NumberedAfter(ip, given, sent, t)
  BY <1>4, <1>8, QueuedNumbered
<1> QED BY <1>4, <1>7, <1>9, <1>10, <1>11, Zenon DEF After, new

LEMMA SendGood ==
  ASSUME NEW h, NEW ip, NEW rep, NEW ages, NEW n, NEW dgram, NEW given, NEW sent,
         Before(h, ip, rep, ages, n, dgram, given, sent)
  PROVE  After(h, ip, rep, ages, given, sent, send_datagram(n, dgram, ip))
<1> DEFINE t == send_datagram(n, dgram, ip)
<1>1. HasFields(n)
  BY GoodFields, Zenon DEF Before
<1>2. SameBut(n, t) /\ (Sent(n, dgram, ip, t) \/ Waits(n, dgram, ip, t) \/ Asks(n, dgram, ip, t))
  BY <1>1, SendCases DEF SameBut
<1> HIDE DEF t
<1>3. After(h, ip, rep, ages, given, sent, t)
  BY <1>2, SentGood, WaitsGood, AsksGood
<1> QED BY <1>3 DEF t

\* The frames of a call of recv_frame(): those for a queue, then ARP.
Flushes(q, eth, frames) ==
  /\ Len(frames) \in Nat /\ DOMAIN frames = 1..Len(frames) /\ Len(q) <= Len(frames)
  /\ \A k \in 1..Len(q) : /\ frames[k].type = "IPv4" /\ frames[k].payload = q[k]
                          /\ frames[k].dst = eth
  /\ \A k \in Len(q) + 1 .. Len(frames) : frames[k].type = "ARP"

Ids(q) == [k \in 1..Len(q) |-> q[k].id]

AllFor(ip, q) == \A k \in 1..Len(q) : q[k].dst = ip

\* The datagrams in the frames are those of the queue.
Carries(q, ip, frames) ==
  /\ Dgrams(frames, ip) = Ids(q)
  /\ \A d : d # ip => Dgrams(frames, d) = <<>>

LEMMA FlushedDgrams ==
  ASSUME NEW q \in Seq(Datagrams), NEW ip, AllFor(ip, q),
         NEW eth, NEW frames, Flushes(q, eth, frames)
  PROVE  Carries(q, ip, frames)
<1>1. Len(q) \in Nat /\ Len(frames) \in Nat /\ Len(q) \in 0..Len(frames) /\ 0 \in 0..Len(frames)
  BY DEF Flushes
<1>2. \A k \in 1..Len(frames) : k \in 1..Len(q) \/ k \in Len(q) + 1 .. Len(frames)
  BY <1>1
<1>3. \A k \in 1..Len(q) : frames[k].type = "IPv4" /\ frames[k].payload = q[k] /\ frames[k].payload.dst = ip
  BY DEF Flushes, AllFor
<1>4. \A k \in Len(q) + 1 .. Len(frames) : frames[k].type # "IPv4"
  BY DEF Flushes
<1>5. Dgrams(frames, ip) = [k \in 1..Len(q) |-> frames[k].payload.id]
  <2>1. \A k \in 1..Len(q) : frames[k].type = "IPv4" /\ frames[k].payload.dst = ip
    BY <1>3, Zenon
  <2>2. \A k \in Len(q) + 1 .. Len(frames) : ~(frames[k].type = "IPv4" /\ frames[k].payload.dst = ip)
    BY <1>4, Zenon
  <2> QED BY <1>1, <2>1, <2>2, DgramsOfPrefix, SMTT(30), ZenonT(90)
<1>6. [k \in 1..Len(q) |-> frames[k].payload.id] = Ids(q)
  BY <1>3 DEF Ids
<1>7. ASSUME NEW d, d # ip PROVE Dgrams(frames, d) = <<>>
  <2>1. \A k \in 1..0 : frames[k].type = "IPv4" /\ frames[k].payload.dst = d
    OBVIOUS
  <2>2. 0 + 1 .. Len(frames) = 1..Len(frames)
    OBVIOUS
  <2>3. \A k \in 0 + 1 .. Len(frames) : ~(frames[k].type = "IPv4" /\ frames[k].payload.dst = d)
    BY <1>2, <1>3, <1>4, <1>7, <2>2, ZenonT(90)
  <2>4. Dgrams(frames, d) = [k \in 1..0 |-> frames[k].payload.id]
    BY <1>1, <2>1, <2>3, DgramsOfPrefix, SMTT(30), ZenonT(90)
  <2> QED BY <2>4
<1> QED BY <1>5, <1>6, <1>7, ZenonT(60), SMTT(60) DEF Carries

\* What a call of recv_frame() may rely on when it reads an ARP message, and
\* what holds after any call.
Hears(h, rep, ages, n, arp, given, sent) ==
  /\ h \in Hosts /\ rep \in [Hosts -> Nat] /\ ages \in [Hosts -> Nat]
  /\ Good(h, n, rep, ages) /\ n.frames_out = <<>>
  /\ arp.sender_ip \in Hosts /\ Had(rep, arp.sender_ip, arp.sender_eth)
  /\ given \in [Hosts -> Nat] /\ Numbered(n, given, sent)

Called(h, rep, ages, given, sent, t) ==
  /\ Good(h, t, rep, ages)
  /\ \A k \in DOMAIN t.frames_out : Truthful(t.frames_out[k], rep)
  /\ Numbered(t, given, [d \in Hosts |-> sent[d] \o Dgrams(t.frames_out, d)])

\* The tables after Learn: the sender is known and nothing waits for it.
Learnt(n, arp, t) ==
  /\ HasFields(t) /\ t.ethernet_address = n.ethernet_address /\ t.ip_address = n.ip_address
  /\ t.ip_eth_map = Put(n.ip_eth_map, arp.sender_ip, [addr |-> arp.sender_eth, time |-> 0])
  /\ t.waiting_dgrams = Erase(n.waiting_dgrams, arp.sender_ip)
  /\ t.ip_waiting_time_map = Erase(n.ip_waiting_time_map, arp.sender_ip)

\* Nothing but the queue of the address learnt is sent.
SendsQueue(n, arp, t) == t.frames_out = FramesFor(n, arp.sender_eth, Queue(n, arp.sender_ip))

LEMMA LearnCases ==
  ASSUME NEW h, NEW rep, NEW ages, NEW n, NEW arp, NEW given, NEW sent,
         Hears(h, rep, ages, n, arp, given, sent)
  PROVE  Learnt(n, arp, Learn(n, arp)) /\ SendsQueue(n, arp, Learn(n, arp))
<1> USE DEF SendsQueue
<1> SUFFICES ASSUME Good(h, n, rep, ages), n.frames_out = <<>>
             PROVE  Learnt(n, arp, Learn(n, arp)) /\ SendsQueue(n, arp, Learn(n, arp))
  BY Zenon DEF Hears
<1> DEFINE t == Learn(n, arp)
           ip == arp.sender_ip
<1>1. /\ HasFields(t)
      /\ t.ethernet_address = n.ethernet_address /\ t.ip_address = n.ip_address
      /\ t.ip_eth_map = Put(n.ip_eth_map, ip, [addr |-> arp.sender_eth, time |-> 0])
      /\ ip \in DOMAIN n.ip_waiting_time_map =>
           /\ t.frames_out = n.frames_out \o FramesFor(n, arp.sender_eth, n.waiting_dgrams[ip])
           /\ t.waiting_dgrams = Erase(n.waiting_dgrams, ip)
           /\ t.ip_waiting_time_map = Erase(n.ip_waiting_time_map, ip)
      /\ ip \notin DOMAIN n.ip_waiting_time_map =>
           /\ t.frames_out = n.frames_out
           /\ t.waiting_dgrams = n.waiting_dgrams
           /\ t.ip_waiting_time_map = n.ip_waiting_time_map
  <2>1. HasFields(n)
    BY GoodFields, Zenon
  <2> QED BY <2>1, LearnFields, Zenon
<1>2. DOMAIN n.waiting_dgrams = DOMAIN n.ip_waiting_time_map
  BY Zenon DEF Good, Pending
<1> HIDE DEF t, ip
<1>3. Queue(n, ip) \in Seq(Datagrams)
  BY GoodFields, QueueOf
<1>4. CASE ip \in DOMAIN n.ip_waiting_time_map
  <2>1. Queue(n, ip) = n.waiting_dgrams[ip]
    BY <1>2, <1>4, Zenon DEF Queue
  <2>2. t.frames_out = <<>> \o FramesFor(n, arp.sender_eth, Queue(n, ip))
    BY <1>1, <1>4, <2>1, ZenonT(90)
  <2> DEFINE fs == FramesFor(n, arp.sender_eth, Queue(n, ip))
  <2>3. fs \in Seq({fs[k] : k \in DOMAIN fs})
    BY <1>3 DEF FramesFor
  <2> HIDE DEF fs
  <2>4. <<>> \o fs = fs
    BY <2>3, SMTT(30), SMTT(90)
  <2>5. t.frames_out = fs
    BY <2>2, <2>4 DEF fs
  <2> QED BY <1>1, <1>4, <2>5, Zenon DEF Learnt, t, ip, fs
<1>5. CASE ip \notin DOMAIN n.ip_waiting_time_map
  <2>1. Queue(n, ip) = <<>>
    BY <1>2, <1>5, Zenon DEF Queue
  <2>2. FramesFor(n, arp.sender_eth, Queue(n, ip)) = <<>>
    BY <2>1 DEF FramesFor
  <2>3. /\ Erase(n.waiting_dgrams, ip) = n.waiting_dgrams
        /\ Erase(n.ip_waiting_time_map, ip) = n.ip_waiting_time_map
    <3>1. IsMap(n.waiting_dgrams, Seq(Datagrams)) /\ IsMap(n.ip_waiting_time_map, Nat)
      BY GoodFields
    <3> QED BY <1>2, <1>5, <3>1, ZenonT(60), SMTT(60) DEF IsMap, Erase, Restrict
  <2> QED BY <1>1, <1>5, <2>2, <2>3, Zenon DEF Learnt, t, ip
<1> QED BY <1>4, <1>5

LEMMA LearntGood ==
  ASSUME NEW h, NEW rep, NEW ages, NEW n, NEW arp, NEW given, NEW sent, NEW t,
         Hears(h, rep, ages, n, arp, given, sent), Learnt(n, arp, t)
  PROVE  Good(h, t, rep, ages)
<1> USE DEF Hears, Learnt
<1> DEFINE ip == arp.sender_ip
           entry == [addr |-> arp.sender_eth, time |-> 0]
<1>1. entry \in [addr : Addresses, time : Nat] /\ entry.time = 0 /\ entry.addr = arp.sender_eth
  BY DEF Had, Eth, Addresses
<1> HIDE DEF entry
<1>2. /\ IsMap(n.waiting_dgrams, Seq(Datagrams))
      /\ IsMap(n.ip_eth_map, [addr : Addresses, time : Nat])
      /\ IsMap(n.ip_waiting_time_map, Nat)
  BY GoodFields, Zenon
<1>3. t.ip_eth_map = Put(n.ip_eth_map, ip, entry)
  BY ZenonT(90) DEF entry
<1>4. /\ IsMap(t.waiting_dgrams, Seq(Datagrams)) /\ DOMAIN t.waiting_dgrams = DOMAIN n.waiting_dgrams \ {ip}
      /\ \A d \in DOMAIN n.waiting_dgrams : d # ip => t.waiting_dgrams[d] = n.waiting_dgrams[d]
  BY <1>2, SMTT(30), SMTT(90) DEF IsMap, Erase, Restrict
<1>5. /\ IsMap(t.ip_waiting_time_map, Nat)
      /\ DOMAIN t.ip_waiting_time_map = DOMAIN n.ip_waiting_time_map \ {ip}
      /\ \A d \in DOMAIN n.ip_waiting_time_map :
           d # ip => t.ip_waiting_time_map[d] = n.ip_waiting_time_map[d]
  BY <1>2, SMTT(30), SMTT(90) DEF IsMap, Erase, Restrict
<1>6. /\ IsMap(t.ip_eth_map, [addr : Addresses, time : Nat])
      /\ DOMAIN t.ip_eth_map = DOMAIN n.ip_eth_map \cup {ip} /\ t.ip_eth_map[ip] = entry
      /\ \A d \in DOMAIN n.ip_eth_map : d # ip => t.ip_eth_map[d] = n.ip_eth_map[d]
  <2> DEFINE T == [addr : Addresses, time : Nat]
  <2>1. entry \in T /\ IsMap(n.ip_eth_map, T) /\ ip \in Hosts
    BY <1>1, <1>2, ZenonT(60), SMTT(60)
  <2> HIDE DEF T, Hears, Learnt
  <2>2. IsMap(t.ip_eth_map, T)
        /\ DOMAIN t.ip_eth_map = DOMAIN n.ip_eth_map \cup {ip} /\ t.ip_eth_map[ip] = entry
        /\ \A d \in DOMAIN n.ip_eth_map : d # ip => t.ip_eth_map[d] = n.ip_eth_map[d]
    BY <1>3, <2>1 DEF IsMap, Put
  <2> QED BY <2>2, ZenonT(60), SMTT(60) DEF T
<1> HIDE DEF ip
<1>7. IsInterface(t) /\ t.ethernet_address = Eth(h, rep[h]) /\ t.ip_address = h
  BY <1>4, <1>5, <1>6, ZenonT(90) DEF Good, IsInterface
<1>8. Pending(t)
  <2>1. Pending(n)
    BY DEF Good
  <2>2. DOMAIN t.waiting_dgrams = DOMAIN t.ip_waiting_time_map
    BY <1>4, <1>5, <2>1, ZenonT(90) DEF Pending
  <2>3. DOMAIN t.waiting_dgrams \cap DOMAIN t.ip_eth_map = {}
    BY <1>4, <1>6, <2>1, ZenonT(60), SMTT(60) DEF Pending
  <2>4. \A d \in DOMAIN t.waiting_dgrams : t.waiting_dgrams[d] # <<>>
    BY <1>4, <2>1, ZenonT(60), SMTT(60) DEF Pending
  <2> QED BY <2>2, <2>3, <2>4, ZenonT(60), SMTT(60) DEF Pending
<1>9. Known(t, rep)
  <2> SUFFICES ASSUME NEW d \in DOMAIN t.ip_eth_map
               PROVE  t.ip_eth_map[d].time <= MappingTime /\ Had(rep, d, t.ip_eth_map[d].addr)
    BY ZenonT(60), SMTT(60) DEF Known
  <2>1. CASE d = ip
    BY <1>1, <1>6, <2>1, TimeAssumption, SMTT(30), SMTT(90) DEF ip
  <2>2. CASE d # ip
    BY <1>6, <2>2, ZenonT(90) DEF Good, Known
  <2> QED BY <2>1, <2>2, ZenonT(60), SMTT(60)
<1>10. Addressed(t)
  <2>1. Addressed(n)
    BY Zenon DEF Good
  <2> QED BY <1>4, <2>1, ZenonT(60), SMTT(60) DEF Addressed
<1>11. Dated(t, ages)
  <2> SUFFICES ASSUME NEW d \in Hosts
               PROVE  /\ d \in DOMAIN t.ip_waiting_time_map => t.ip_waiting_time_map[d] = ages[d]
                      /\ d \notin DOMAIN t.ip_waiting_time_map /\ ages[d] <= PendingTime =>
                           d \in DOMAIN t.ip_eth_map /\ t.ip_eth_map[d].time <= ages[d]
    BY ZenonT(90) DEF Dated
  <2>1. CASE d = ip
    BY <1>1, <1>5, <1>6, <2>1
  <2>2. CASE d # ip
    BY <1>5, <1>6, <2>2, ZenonT(90) DEF Good, Dated
  <2> QED BY <2>1, <2>2
<1> QED BY <1>7, <1>8, <1>9, <1>10, <1>11, ZenonT(90) DEF Good

LEMMA LearntNumbered ==
  ASSUME NEW h, NEW rep, NEW ages, NEW n, NEW arp, NEW given, NEW sent, NEW t,
         Hears(h, rep, ages, n, arp, given, sent), t.waiting_dgrams = Erase(n.waiting_dgrams, arp.sender_ip),
         Flushes(Queue(n, arp.sender_ip), arp.sender_eth, t.frames_out)
  PROVE  /\ Numbered(t, given, [d \in Hosts |-> sent[d] \o Dgrams(t.frames_out, d)])
         /\ \A k \in 1..Len(Queue(n, arp.sender_ip)) : Truthful(t.frames_out[k], rep)
<1> USE DEF Hears
<1> DEFINE ip == arp.sender_ip
           q == Queue(n, ip)
<1>1. \A d : Queue(n, d) \in Seq(Datagrams)
  BY GoodFields, QueueOf, ZenonT(60), SMTT(60)
<1>2. AllFor(ip, q)
  <2>1. Addressed(n)
    BY Zenon DEF Good
  <2>2. CASE ip \in DOMAIN n.waiting_dgrams
    BY <2>1, <2>2, ZenonT(60), SMTT(60) DEF Addressed, Queue, AllFor
  <2>3. CASE ip \notin DOMAIN n.waiting_dgrams
    <3>1. q = <<>>
      BY <2>3, Zenon DEF Queue
    <3>2. \A k \in 1..Len(<<>>) : FALSE
      OBVIOUS
    <3> QED BY <3>1, <3>2, Zenon DEF AllFor
  <2> QED BY <2>2, <2>3, Zenon
<1>3. IsMap(n.waiting_dgrams, Seq(Datagrams))
  BY GoodFields, ZenonT(60), SMTT(60)
<1>4. /\ DOMAIN t.waiting_dgrams = DOMAIN n.waiting_dgrams \ {ip}
      /\ \A d \in DOMAIN n.waiting_dgrams : d # ip => t.waiting_dgrams[d] = n.waiting_dgrams[d]
  BY <1>3 DEF IsMap, Erase, Restrict
<1>5. Queue(t, ip) = <<>> /\ \A d : d # ip => Queue(t, d) = Queue(n, d)
  BY <1>4, ZenonT(90) DEF Queue
<1> HIDE DEF q
<1>6. Flushes(q, arp.sender_eth, t.frames_out) /\ q \in Seq(Datagrams)
  BY <1>1, ZenonT(60), SMTT(60) DEF q
<1>7. /\ Dgrams(t.frames_out, ip) = Ids(q)
      /\ \A d : d # ip => Dgrams(t.frames_out, d) = <<>>
  <2> HIDE DEF Hears, ip
  <2>1. Carries(q, ip, t.frames_out)
    BY <1>2, <1>6, FlushedDgrams, ZenonT(60), SMTT(60)
  <2> QED BY <2>1, Zenon DEF Carries
<1>8. Numbered(t, given, [d \in Hosts |-> sent[d] \o Dgrams(t.frames_out, d)])
  <2> SUFFICES ASSUME NEW d \in Hosts
               PROVE  NumberedFor(Queue(t, d), given[d], sent[d] \o Dgrams(t.frames_out, d))
    BY ZenonT(60), SMTT(60) DEF Numbered
  <2>1. NumberedFor(Queue(n, d), given[d], sent[d]) /\ given[d] \in Nat
    BY ZenonT(60), SMTT(60) DEF Numbered
  <2>2. CASE d = ip
    <3>1. NumberedFor(<<>>, given[ip], sent[ip] \o Ids(q))
      BY <1>6, <2>1, <2>2, NumberedFlushed, ZenonT(60), SMTT(60) DEF q, Ids
    <3> QED BY <1>5, <1>7, <2>2, <3>1, ZenonT(60), SMTT(60)
  <2>3. CASE d # ip
    <3>1. NumberedFor(Queue(n, d), given[d], sent[d] \o <<>>)
      BY <1>1, <2>1, NumberedStill
    <3> QED BY <1>5, <1>7, <2>3, <3>1, ZenonT(90)
  <2> QED BY <2>2, <2>3, ZenonT(60), SMTT(60)
<1>9. ASSUME NEW k \in 1..Len(q) PROVE Truthful(t.frames_out[k], rep)
  <2>1. t.frames_out[k].type = "IPv4" /\ t.frames_out[k].payload = q[k]
        /\ t.frames_out[k].dst = arp.sender_eth
    BY <1>6, ZenonT(60), SMTT(60) DEF Flushes
  <2>2. q[k].dst = ip
    BY <1>2 DEF AllFor
  <2>3. "IPv4" # "ARP"
    OBVIOUS
  <2> QED BY <2>1, <2>2, <2>3, ZenonT(90) DEF Truthful
<1> QED BY <1>8, <1>9, ZenonT(60), SMTT(60) DEF q

LEMMA ReadGood ==
  ASSUME NEW h, NEW rep, NEW ages, NEW n, NEW arp, NEW given, NEW sent,
         Hears(h, rep, ages, n, arp, given, sent)
  PROVE  Called(h, rep, ages, given, sent, Reply(Learn(n, arp), arp))
<1> DEFINE u == Learn(n, arp)
           t == Reply(u, arp)
           q == Queue(n, arp.sender_ip)
           fs == FramesFor(n, arp.sender_eth, q)
<1>1. Good(h, n, rep, ages) /\ n.frames_out = <<>> /\ h \in Hosts /\ rep \in [Hosts -> Nat]
  BY ZenonT(60), SMTT(60) DEF Hears
<1>2. Learnt(n, arp, u) /\ u.frames_out = fs
  <2>1. Learnt(n, arp, Learn(n, arp)) /\ SendsQueue(n, arp, Learn(n, arp))
    BY LearnCases, ZenonT(60), SMTT(60)
  <2> QED BY <2>1, Zenon DEF SendsQueue
<1>3. q \in Seq(Datagrams)
  BY <1>1, GoodFields, QueueOf
<1> HIDE DEF u, q
<1>4. Len(fs) = Len(q) /\ Len(q) \in Nat /\ DOMAIN fs = 1..Len(q)
  BY <1>3 DEF FramesFor
<1>5. \A k \in 1..Len(q) : fs[k] = Frame(n, arp.sender_eth, "IPv4", q[k])
  BY <1>3, SMTT(30), SMTT(90) DEF FramesFor
<1>6. \A k \in 1..Len(q) : fs[k].type = "IPv4" /\ fs[k].payload = q[k] /\ fs[k].dst = arp.sender_eth
  BY <1>5, FrameFields
<1>7. fs \in Seq({fs[k] : k \in DOMAIN fs})
  BY <1>3, SMTT(30), SMTT(90) DEF FramesFor
<1> HIDE DEF fs
<1>8. HasFields(u) /\ Good(h, u, rep, ages)
  <2>1. Good(h, u, rep, ages)
    BY <1>2, LearntGood, Zenon
  <2>2. HasFields(u)
    BY <1>2, Zenon DEF Learnt
  <2> QED BY <2>1, <2>2
<1>9. u.ethernet_address = Eth(h, rep[h]) /\ u.ip_address = h
  BY <1>8, GoodFields
<1>10. CASE t = u
  <2>1. Flushes(q, arp.sender_eth, t.frames_out)
    <3>1. Flushes(q, arp.sender_eth, fs)
      BY <1>4, <1>6 DEF Flushes
    <3> QED BY <1>2, <1>10, <3>1, ZenonT(90)
  <2>2. t.waiting_dgrams = Erase(n.waiting_dgrams, arp.sender_ip)
    BY <1>2, <1>10, ZenonT(90) DEF Learnt
  <2> HIDE DEF t
  <2>3. /\ Numbered(t, given, [d \in Hosts |-> sent[d] \o Dgrams(t.frames_out, d)])
        /\ \A k \in 1..Len(q) : Truthful(t.frames_out[k], rep)
    BY <2>1, <2>2, LearntNumbered, Zenon DEF q
  <2>4. DOMAIN t.frames_out = 1..Len(q)
    BY <1>2, <1>4, <1>10, Zenon
  <2> QED BY <1>8, <1>10, <2>3, <2>4, Zenon DEF Called, t, u
<1>11. CASE t # u
  <2> DEFINE f == Frame(u, arp.sender_eth, "ARP", ARPMessage(u, "REPLY", arp.sender_eth, arp.sender_ip))
  <2>1. f.type = "ARP" /\ Truthful(f, rep)
    <3>1. Speaks(f, "REPLY", arp.sender_ip, rep)
      BY <1>1, <1>9, ARPTruthful, ZenonT(60), SMTT(60)
    <3> HIDE DEF f
    <3> QED BY <3>1, Zenon DEF Speaks
  <2>2. t = Push(u, f)
    BY <1>11, Zenon DEF Reply
  <2> HIDE DEF t, f
  <2>3. /\ HasFields(t)
        /\ t.ethernet_address = u.ethernet_address /\ t.ip_address = u.ip_address
        /\ t.frames_out = Append(u.frames_out, f)
        /\ t.waiting_dgrams = u.waiting_dgrams /\ t.ip_eth_map = u.ip_eth_map
        /\ t.ip_waiting_time_map = u.ip_waiting_time_map
    BY <1>8, <2>2, PushFields, Zenon
  <2>4. Good(h, t, rep, ages)
    BY <1>8, <2>3, GoodFrom
  <2>5. t.frames_out = Append(fs, f)
    BY <1>2, <2>3, Zenon
  <2>6. /\ Len(t.frames_out) = Len(q) + 1 /\ DOMAIN t.frames_out = 1 .. Len(q) + 1
        /\ t.frames_out[Len(q) + 1] = f
        /\ \A k \in 1..Len(q) : t.frames_out[k] = fs[k]
    BY <1>4, <1>7, <2>5
  <2>7. Flushes(q, arp.sender_eth, t.frames_out)
    <3>1. Len(q) + 1 .. Len(q) + 1 = {Len(q) + 1} /\ Len(q) <= Len(q) + 1 /\ Len(q) + 1 \in Nat
      BY <1>4
    <3> QED BY <1>6, <2>1, <2>6, <3>1, Zenon DEF Flushes
  <2>8. t.waiting_dgrams = Erase(n.waiting_dgrams, arp.sender_ip)
    BY <1>2, <2>3, ZenonT(90) DEF Learnt
  <2>9. /\ Numbered(t, given, [d \in Hosts |-> sent[d] \o Dgrams(t.frames_out, d)])
        /\ \A k \in 1..Len(q) : Truthful(t.frames_out[k], rep)
    BY <2>7, <2>8, LearntNumbered, Zenon DEF q
  <2>10. \A k \in 1 .. Len(q) + 1 : k \in 1..Len(q) \/ k = Len(q) + 1
    BY <1>4
  <2>11. \A k \in DOMAIN t.frames_out : Truthful(t.frames_out[k], rep)
    BY <2>1, <2>6, <2>9, <2>10, ZenonT(90)
  <2> QED BY <2>4, <2>9, <2>11, ZenonT(90) DEF Called, t, u
<1> QED BY <1>10, <1>11, ZenonT(60), SMTT(60)

\* A call that sends nothing and keeps the queues.
LEMMA QuietNumbered ==
  ASSUME NEW n, IsInterface(n), NEW given \in [Hosts -> Nat], NEW sent, Numbered(n, given, sent),
         NEW t, t.frames_out = <<>>, t.waiting_dgrams = n.waiting_dgrams
  PROVE  Numbered(t, given, [d \in Hosts |-> sent[d] \o Dgrams(t.frames_out, d)])
<1> SUFFICES ASSUME NEW d \in Hosts PROVE NumberedFor(Queue(t, d), given[d], sent[d] \o <<>>)
  BY NoFrame, Zenon DEF Numbered
<1>1. Queue(t, d) = Queue(n, d)
  BY Zenon DEF Queue
<1>2. Queue(n, d) \in Seq(Datagrams)
  BY QueueOf
<1> QED BY <1>1, <1>2, NumberedStill DEF Numbered

LEMMA RecvGood ==
  ASSUME NEW h \in Hosts, NEW rep \in [Hosts -> Nat], NEW ages \in [Hosts -> Nat], NEW n,
         Good(h, n, rep, ages), n.frames_out = <<>>, NEW frame, Truthful(frame, rep),
         NEW given \in [Hosts -> Nat], NEW sent, Numbered(n, given, sent), NEW parses
  PROVE  Called(h, rep, ages, given, sent, recv_frame(n, frame, parses))
<1>1. CASE ForMe(n, frame) /\ frame.type = "ARP" /\ parses
  <2>1. recv_frame(n, frame, parses) = Reply(Learn(n, frame.payload), frame.payload)
    BY <1>1, Zenon DEF recv_frame
  <2>2. Hears(h, rep, ages, n, frame.payload, given, sent)
    BY <1>1, Zenon DEF Hears, Truthful
  <2> QED BY <2>1, <2>2, ReadGood
<1>2. CASE ~(ForMe(n, frame) /\ frame.type = "ARP" /\ parses)
  <2>1. recv_frame(n, frame, parses) = n
    BY <1>2, ZenonT(90) DEF recv_frame
  <2>2. Numbered(n, given, [d \in Hosts |-> sent[d] \o Dgrams(n.frames_out, d)])
    BY QuietNumbered, GoodFields, ZenonT(90)
  <2>3. \A k \in DOMAIN n.frames_out : Truthful(n.frames_out[k], rep)
    OBVIOUS
  <2> QED BY <2>1, <2>2, <2>3, Zenon DEF Called
<1> QED BY <1>1, <1>2, ZenonT(90)

LEMMA TickGood ==
  ASSUME NEW h \in Hosts, NEW rep \in [Hosts -> Nat], NEW ages \in [Hosts -> Nat], NEW n,
         Good(h, n, rep, ages), n.frames_out = <<>>, NEW ms \in Nat,
         NEW given \in [Hosts -> Nat], NEW sent, Numbered(n, given, sent)
  PROVE  Called(h, rep, [d \in Hosts |-> Least(ages[d] + ms, PendingTime + 1)], given, sent,
                interface_tick(n, ms))
<1> DEFINE t == interface_tick(n, ms)
           new == [d \in Hosts |-> Least(ages[d] + ms, PendingTime + 1)]
<1>1. /\ HasFields(n) /\ IsInterface(n)
      /\ IsMap(n.waiting_dgrams, Seq(Datagrams))
      /\ IsMap(n.ip_eth_map, [addr : Addresses, time : Nat])
      /\ IsMap(n.ip_waiting_time_map, Nat)
  BY GoodFields, ZenonT(90)
<1>2. /\ HasFields(t)
      /\ t.ethernet_address = n.ethernet_address /\ t.ip_address = n.ip_address
      /\ t.frames_out = n.frames_out
      /\ t.waiting_dgrams = n.waiting_dgrams
      /\ t.ip_waiting_time_map =
           [ip \in DOMAIN n.ip_waiting_time_map |->
              IF n.ip_waiting_time_map[ip] + ms > PendingTime THEN PendingTime + 1
              ELSE n.ip_waiting_time_map[ip] + ms]
      /\ DOMAIN t.ip_eth_map = {ip \in DOMAIN n.ip_eth_map : n.ip_eth_map[ip].time + ms <= MappingTime}
      /\ t.ip_eth_map = [ip \in DOMAIN t.ip_eth_map |->
                           [n.ip_eth_map[ip] EXCEPT !.time = n.ip_eth_map[ip].time + ms]]
  <2>1. Ticked(n, ms, t)
    BY <1>1, TickFields, ZenonT(60), SMTT(60)
  <2> HIDE DEF t
  <2> QED BY <2>1, ZenonT(90) DEF Ticked
<1>3. DOMAIN n.ip_eth_map \subseteq Hosts /\ \A ip \in DOMAIN n.ip_eth_map :
        n.ip_eth_map[ip] \in [addr : Addresses, time : Nat] /\ n.ip_eth_map[ip].time \in Nat
  BY <1>1 DEF IsMap
<1>4. \A ip \in DOMAIN t.ip_eth_map :
        /\ ip \in DOMAIN n.ip_eth_map /\ n.ip_eth_map[ip].time + ms <= MappingTime
        /\ t.ip_eth_map[ip].addr = n.ip_eth_map[ip].addr
        /\ t.ip_eth_map[ip].time = n.ip_eth_map[ip].time + ms
        /\ t.ip_eth_map[ip] \in [addr : Addresses, time : Nat]
  <2> SUFFICES ASSUME NEW ip \in DOMAIN t.ip_eth_map
               PROVE  /\ ip \in DOMAIN n.ip_eth_map /\ n.ip_eth_map[ip].time + ms <= MappingTime
                      /\ t.ip_eth_map[ip].addr = n.ip_eth_map[ip].addr
                      /\ t.ip_eth_map[ip].time = n.ip_eth_map[ip].time + ms
                      /\ t.ip_eth_map[ip] \in [addr : Addresses, time : Nat]
    BY Zenon
  <2> HIDE DEF t
  <2>1. ip \in DOMAIN n.ip_eth_map /\ n.ip_eth_map[ip].time + ms <= MappingTime
    BY <1>2, Zenon
  <2> DEFINE e == n.ip_eth_map[ip]
             old == e.time + ms
  <2>2. t.ip_eth_map[ip] = [e EXCEPT !.time = old]
    BY <1>2, Zenon
  <2>3. e \in [addr : Addresses, time : Nat] /\ old \in Nat
    BY <1>3, <2>1, SMTT(30), SMTT(90)
  <2> HIDE DEF e, old
  <2>4. [e EXCEPT !.time = old] \in [addr : Addresses, time : Nat]
        /\ [e EXCEPT !.time = old].addr = e.addr /\ [e EXCEPT !.time = old].time = old
    BY <2>3, Zenon
  <2> QED BY <2>1, <2>2, <2>4, Zenon DEF e, old
<1> HIDE DEF t
<1>5. IsMap(t.ip_eth_map, [addr : Addresses, time : Nat])
  <2>1. DOMAIN t.ip_eth_map \subseteq Hosts
    BY <1>3, <1>4
  <2>2. t.ip_eth_map = [ip \in DOMAIN t.ip_eth_map |-> t.ip_eth_map[ip]]
    BY <1>2, Zenon
  <2> QED BY <1>4, <2>1, <2>2, ZenonT(90) DEF IsMap
<1>6. /\ DOMAIN t.ip_waiting_time_map = DOMAIN n.ip_waiting_time_map
      /\ \A ip \in DOMAIN n.ip_waiting_time_map :
           t.ip_waiting_time_map[ip] =
             IF n.ip_waiting_time_map[ip] + ms > PendingTime THEN PendingTime + 1
             ELSE n.ip_waiting_time_map[ip] + ms
  BY <1>2, Zenon
<1>7. Known(t, rep)
  BY <1>3, <1>4, ZenonT(90) DEF Good, Known
<1>8. ASSUME NEW d \in Hosts
      PROVE  /\ d \in DOMAIN t.ip_waiting_time_map => t.ip_waiting_time_map[d] = new[d]
             /\ d \notin DOMAIN t.ip_waiting_time_map /\ new[d] <= PendingTime =>
                  d \in DOMAIN t.ip_eth_map /\ t.ip_eth_map[d].time <= new[d]
  <2>1. /\ d \in DOMAIN n.ip_waiting_time_map => n.ip_waiting_time_map[d] = ages[d]
        /\ d \notin DOMAIN n.ip_waiting_time_map /\ ages[d] <= PendingTime =>
             d \in DOMAIN n.ip_eth_map /\ n.ip_eth_map[d].time <= ages[d]
    BY Zenon DEF Good, Dated
  <2>2. ages[d] \in Nat /\ PendingTime \in Nat /\ MappingTime \in Nat /\ PendingTime <= MappingTime
    BY TimeAssumption, ZenonT(60), SMTT(60)
  <2>3. new[d] = Least(ages[d] + ms, PendingTime + 1)
    BY ZenonT(60), SMTT(60)
  <2> HIDE DEF new
  <2>4. new[d] = IF ages[d] + ms > PendingTime THEN PendingTime + 1 ELSE ages[d] + ms
    BY <2>2, <2>3 DEF Least
  <2>5. ASSUME d \in DOMAIN t.ip_waiting_time_map PROVE t.ip_waiting_time_map[d] = new[d]
    <3>1. d \in DOMAIN n.ip_waiting_time_map
      BY <1>6, <2>5, Zenon
    <3> QED BY <1>6, <2>1, <2>4, <3>1, Zenon
  <2>6. ASSUME d \notin DOMAIN t.ip_waiting_time_map, new[d] <= PendingTime
        PROVE  d \in DOMAIN t.ip_eth_map /\ t.ip_eth_map[d].time <= new[d]
    <3>1. d \notin DOMAIN n.ip_waiting_time_map
      BY <1>6, <2>6, ZenonT(90)
    <3>2. ages[d] <= PendingTime /\ ages[d] + ms <= PendingTime /\ new[d] = ages[d] + ms
      BY <2>2, <2>4, <2>6, SMTT(30), SMTT(90)
    <3>3. d \in DOMAIN n.ip_eth_map /\ n.ip_eth_map[d].time <= ages[d]
      BY <2>1, <3>1, <3>2, ZenonT(90)
    <3>4. n.ip_eth_map[d].time \in Nat
      BY <1>3, <3>3, ZenonT(60), SMTT(60)
    <3>5. n.ip_eth_map[d].time + ms <= MappingTime /\ n.ip_eth_map[d].time + ms <= new[d]
      BY <2>2, <3>2, <3>3, <3>4, SMTT(30), SMTT(90)
    <3>6. d \in DOMAIN t.ip_eth_map
      BY <1>2, <3>3, <3>5, Zenon
    <3> QED BY <1>4, <3>5, <3>6, Zenon
  <2> QED BY <2>5, <2>6
<1>9. IsMap(t.ip_waiting_time_map, Nat)
  <2>1. \A d \in DOMAIN n.ip_waiting_time_map : n.ip_waiting_time_map[d] \in Nat
    BY <1>1, ZenonT(60), SMTT(60) DEF IsMap
  <2>2. \A d \in DOMAIN n.ip_waiting_time_map : t.ip_waiting_time_map[d] \in Nat
    <3> SUFFICES ASSUME NEW d \in DOMAIN n.ip_waiting_time_map PROVE t.ip_waiting_time_map[d] \in Nat
      OBVIOUS
    <3>1. t.ip_waiting_time_map[d] = PendingTime + 1
          \/ t.ip_waiting_time_map[d] = n.ip_waiting_time_map[d] + ms
      BY <1>6, Zenon
    <3> QED BY <2>1, <3>1, TimeAssumption, SMTT(30), SMTT(90)
  <2>3. t.ip_waiting_time_map = [d \in DOMAIN t.ip_waiting_time_map |-> t.ip_waiting_time_map[d]]
    BY <1>2, Zenon
  <2>4. DOMAIN t.ip_waiting_time_map \subseteq Hosts
    BY <1>1, <1>6, Zenon DEF IsMap
  <2> QED BY <1>6, <2>2, <2>3, <2>4, ZenonT(90) DEF IsMap
<1>10. Good(h, t, rep, new)
  <2>1. IsInterface(t) /\ t.ethernet_address = Eth(h, rep[h]) /\ t.ip_address = h
    BY <1>1, <1>2, <1>5, <1>9, ZenonT(90) DEF Good, IsInterface
  <2>2. Pending(t)
    <3>1. DOMAIN t.ip_eth_map \subseteq DOMAIN n.ip_eth_map
      BY <1>4
    <3>2. t.waiting_dgrams = n.waiting_dgrams
      BY <1>2, ZenonT(60), SMTT(60)
    <3> QED BY <1>6, <3>1, <3>2, ZenonT(60), SMTT(60) DEF Good, Pending
  <2>3. Addressed(t)
    <3>1. t.waiting_dgrams = n.waiting_dgrams
      BY <1>2
    <3> QED BY <3>1 DEF Good, Addressed
  <2>4. Dated(t, new)
    BY <1>8, Zenon DEF Dated
  <2> QED BY <1>7, <2>1, <2>2, <2>3, <2>4, ZenonT(90) DEF Good
<1>11. Numbered(t, given, [d \in Hosts |-> sent[d] \o Dgrams(t.frames_out, d)])
  <2>1. t.frames_out = <<>> /\ t.waiting_dgrams = n.waiting_dgrams
    BY <1>2, Zenon
  <2> QED BY <1>1, <2>1, QuietNumbered, Zenon
<1>12. \A k \in DOMAIN t.frames_out : Truthful(t.frames_out[k], rep)
  <2>1. t.frames_out = <<>>
    BY <1>2
  <2> QED BY <2>1
<1> QED BY <1>10, <1>11, <1>12, Zenon DEF Called, t

LEMMA NewGood ==
  ASSUME NEW h \in Hosts, NEW rep \in [Hosts -> Nat]
  PROVE  LET n == NewInterface(Eth(h, rep[h]), h)
             never == [d \in Hosts |-> PendingTime + 1]
         IN  /\ n.frames_out = <<>> /\ Good(h, n, rep, never)
             /\ Numbered(n, [d \in Hosts |-> 0], [d \in Hosts |-> <<>>])
<1> DEFINE n == NewInterface(Eth(h, rep[h]), h)
           never == [d \in Hosts |-> PendingTime + 1]
<1>1. /\ HasFields(n)
      /\ n.ethernet_address = Eth(h, rep[h]) /\ n.ip_address = h
      /\ n.frames_out = <<>>
      /\ n.waiting_dgrams = EmptyMap /\ n.ip_eth_map = EmptyMap
      /\ n.ip_waiting_time_map = EmptyMap
  BY NewFields, ZenonT(90)
<1> HIDE DEF n
<1>2. DOMAIN n.waiting_dgrams = {} /\ DOMAIN n.ip_eth_map = {} /\ DOMAIN n.ip_waiting_time_map = {}
  BY <1>1, EmptyIsMap, Zenon
<1>3. IsInterface(n)
  BY <1>1, EmptyIsMap, Zenon DEF IsInterface
<1>4. Pending(n) /\ Known(n, rep) /\ Addressed(n)
  BY <1>2 DEF Pending, Known, Addressed
<1>5. Dated(n, never)
  <2>1. \A d \in Hosts : ~(never[d] <= PendingTime)
    BY TimeAssumption
  <2> HIDE DEF never
  <2> QED BY <1>2, <2>1, Zenon DEF Dated
<1>6. Good(h, n, rep, never)
  BY <1>1, <1>3, <1>4, <1>5, Zenon DEF Good
<1>7. Numbered(n, [d \in Hosts |-> 0], [d \in Hosts |-> <<>>])
  <2> SUFFICES ASSUME NEW d \in Hosts PROVE NumberedFor(Queue(n, d), 0, <<>>)
    BY DEF Numbered
  <2>1. Queue(n, d) = <<>>
    BY <1>2, Zenon DEF Queue
  <2>2. NumberedFor(<<>>, 0, <<>>)
    BY DEF NumberedFor, Counting
  <2> QED BY <2>1, <2>2
<1> QED BY <1>1, <1>6, <1>7, Zenon DEF n

\* An address a host had stays one it had.
LEMMA HadStill ==
  ASSUME NEW rep \in [Hosts -> Nat], NEW new \in [Hosts -> Nat], \A d \in Hosts : rep[d] <= new[d],
         NEW ip \in Hosts, NEW eth, Had(rep, ip, eth)
  PROVE  Had(new, ip, eth)
  BY DEF Had

LEMMA TruthfulStill ==
  ASSUME NEW rep \in [Hosts -> Nat], NEW new \in [Hosts -> Nat], \A d \in Hosts : rep[d] <= new[d],
         NEW f, Truthful(f, rep)
  PROVE  Truthful(f, new)
  BY HadStill, Zenon DEF Truthful

LEMMA GoodStill ==
  ASSUME NEW rep \in [Hosts -> Nat], NEW new \in [Hosts -> Nat], \A d \in Hosts : rep[d] <= new[d],
         NEW h \in Hosts, new[h] = rep[h], NEW n, NEW ages, Good(h, n, rep, ages)
  PROVE  Good(h, n, new, ages)
<1>1. DOMAIN n.ip_eth_map \subseteq Hosts
  BY GoodFields DEF IsMap
<1>2. Known(n, rep)
  BY ZenonT(60), SMTT(60) DEF Good
<1>3. Known(n, new)
  BY <1>1, <1>2, HadStill DEF Known
<1> QED BY <1>3, ZenonT(90) DEF Good

\* A call at h, in which its interface becomes n.
Calls(h, n, itf, w, rep, sub, tr, ages, itf2, w2, sub2, tr2, ages2) ==
  /\ h \in Hosts
  /\ Called(h, rep, ages2[h], sub2[h], tr[h], n)
  /\ itf2 = [itf EXCEPT ![h] = [n EXCEPT !.frames_out = <<>>]]
  /\ tr2 = [tr EXCEPT ![h] = [ip \in Hosts |-> tr[h][ip] \o Dgrams(n.frames_out, ip)]]
  /\ sub2 \in [Hosts -> [Hosts -> Nat]] /\ ages2 \in [Hosts -> [Hosts -> Nat]]
  /\ \A d \in Hosts : d # h => sub2[d] = sub[d] /\ ages2[d] = ages[d]
  /\ w2 \subseteq w \cup ((Hosts \ {h}) \X {n.frames_out[k] : k \in DOMAIN n.frames_out})

LEMMA CallsInv ==
  ASSUME NEW h, NEW n, NEW itf, NEW w, NEW rep, NEW sub, NEW tr, NEW ages,
         NEW itf2, NEW w2, NEW sub2, NEW tr2, NEW ages2, Network(itf, w, rep, sub, tr, ages),
         Calls(h, n, itf, w, rep, sub, tr, ages, itf2, w2, sub2, tr2, ages2)
  PROVE  Network(itf2, w2, rep, sub2, tr2, ages2)
<1> USE DEF Calls
<1> DEFINE e == [n EXCEPT !.frames_out = <<>>]
           sent == [ip \in Hosts |-> tr[h][ip] \o Dgrams(n.frames_out, ip)]
<1>1. Good(h, n, rep, ages2[h]) /\ Numbered(n, sub2[h], sent)
      /\ \A k \in DOMAIN n.frames_out : Truthful(n.frames_out[k], rep)
  BY Zenon DEF Called
<1>2. /\ HasFields(e)
      /\ e.ethernet_address = n.ethernet_address /\ e.ip_address = n.ip_address
      /\ e.frames_out = <<>>
      /\ e.waiting_dgrams = n.waiting_dgrams /\ e.ip_eth_map = n.ip_eth_map
      /\ e.ip_waiting_time_map = n.ip_waiting_time_map
  BY <1>1, GoodFields, EmptiedFields, Zenon
<1> HIDE DEF e, sent
<1>3. Good(h, e, rep, ages2[h])
  BY <1>1, <1>2, GoodFrom, ZenonT(60), SMTT(60)
<1>4. Numbered(e, sub2[h], sent)
  <2>1. \A d : Queue(e, d) = Queue(n, d)
    BY <1>2, Zenon DEF Queue
  <2> QED BY <1>1, <2>1 DEF Numbered
<1>5. itf2 = [itf EXCEPT ![h] = e] /\ tr2 = [tr EXCEPT ![h] = sent]
  BY Zenon DEF e, sent
<1>6. DOMAIN itf = Hosts /\ DOMAIN tr = Hosts /\ DOMAIN itf2 = Hosts /\ DOMAIN tr2 = Hosts
      /\ itf2[h] = e /\ tr2[h] = sent /\ \A d \in Hosts : d # h => itf2[d] = itf[d] /\ tr2[d] = tr[d]
  BY <1>5, Zenon DEF Network
<1>7. ASSUME NEW d \in Hosts PROVE Host(d, itf2[d], rep, ages2[d], sub2[d], tr2[d])
  <2>1. CASE d = h
    BY <1>2, <1>3, <1>4, <1>6, <2>1, ZenonT(90) DEF Host
  <2>2. CASE d # h
    BY <1>6, <2>2, Zenon DEF Network
  <2> QED BY <2>1, <2>2
<1>8. ASSUME NEW c \in w2 PROVE Truthful(c[2], rep)
  <2>1. CASE c \in w
    BY <2>1, Zenon DEF Network
  <2>2. CASE c \in (Hosts \ {h}) \X {n.frames_out[k] : k \in DOMAIN n.frames_out}
    <3>1. c[2] \in {n.frames_out[k] : k \in DOMAIN n.frames_out}
      BY <2>2
    <3> QED BY <1>1, <3>1, Zenon
  <2> QED BY <2>1, <2>2, ZenonT(60), SMTT(60)
<1> QED BY <1>6, <1>7, <1>8, Zenon DEF Network

LEMMA CarriedSome ==
  ASSUME NEW all, NEW w \in Carried(all)
  PROVE  w \subseteq all
  BY DEF Carried, kSubset

LEMMA InitInv == Init => Inv
<1> SUFFICES ASSUME Init PROVE Inv
  OBVIOUS
<1>1. replaced = [h \in Hosts |-> 0] /\ wire = {}
  BY DEF Init
<1>2. replaced \in [Hosts -> Nat] /\ \A h \in Hosts : replaced[h] = 0
  BY <1>1
<1> DEFINE none == [ip \in Hosts |-> 0]
           nothing == [ip \in Hosts |-> <<>>]
           never == [ip \in Hosts |-> PendingTime + 1]
<1>3. submitted = [h \in Hosts |-> none] /\ transmitted = [h \in Hosts |-> nothing]
      /\ since = [h \in Hosts |-> never] /\ interface = [h \in Hosts |-> NewInterface(Eth(h, 0), h)]
  BY Zenon DEF Init, PerPair
<1>4. none \in [Hosts -> Nat] /\ never \in [Hosts -> Nat]
  BY TimeAssumption
<1>5. ASSUME NEW h \in Hosts PROVE Host(h, interface[h], replaced, since[h], submitted[h], transmitted[h])
  <2> DEFINE n == NewInterface(Eth(h, replaced[h]), h)
  <2>1. n.frames_out = <<>> /\ Good(h, n, replaced, never) /\ Numbered(n, none, nothing)
    BY <1>2, NewGood, Zenon
  <2> HIDE DEF none, nothing, never
  <2>2. interface[h] = n /\ since[h] = never /\ submitted[h] = none /\ transmitted[h] = nothing
    BY <1>2, <1>3, ZenonT(60), SMTT(60)
  <2> HIDE DEF n
  <2> QED BY <2>1, <2>2, Zenon DEF Host
<1> HIDE DEF none, nothing, never
<1>6. submitted \in [Hosts -> [Hosts -> Nat]] /\ since \in [Hosts -> [Hosts -> Nat]]
      /\ DOMAIN interface = Hosts /\ DOMAIN transmitted = Hosts
  BY <1>3, <1>4
<1> QED BY <1>1, <1>2, <1>5, <1>6, Zenon DEF Inv, Network

LEMMA HostFacts ==
  ASSUME NEW h \in Hosts, Inv
  PROVE  /\ replaced \in [Hosts -> Nat] /\ submitted[h] \in [Hosts -> Nat] /\ since[h] \in [Hosts -> Nat]
         /\ submitted \in [Hosts -> [Hosts -> Nat]] /\ since \in [Hosts -> [Hosts -> Nat]]
         /\ interface[h].frames_out = <<>> /\ Good(h, interface[h], replaced, since[h])
         /\ Numbered(interface[h], submitted[h], transmitted[h])
<1>1. /\ replaced \in [Hosts -> Nat] /\ submitted \in [Hosts -> [Hosts -> Nat]]
      /\ since \in [Hosts -> [Hosts -> Nat]]
      /\ Host(h, interface[h], replaced, since[h], submitted[h], transmitted[h])
  BY Zenon DEF Inv, Network
<1>2. submitted[h] \in [Hosts -> Nat] /\ since[h] \in [Hosts -> Nat]
  BY <1>1
<1> QED BY <1>1, <1>2, Zenon DEF Host

\* What send_datagram() does to the interface of a host, whenever it is called.
LEMMA GivenGood ==
  ASSUME Inv, NEW h \in Hosts, NEW ip \in Hosts
  PROVE  After(h, ip, replaced, since[h], submitted[h], transmitted[h], Given(h, ip))
<1> DEFINE dgram == [src |-> h, dst |-> ip, id |-> submitted[h][ip] + 1]
<1>1. /\ replaced \in [Hosts -> Nat] /\ submitted[h] \in [Hosts -> Nat] /\ since[h] \in [Hosts -> Nat]
      /\ interface[h].frames_out = <<>> /\ Good(h, interface[h], replaced, since[h])
      /\ Numbered(interface[h], submitted[h], transmitted[h])
  BY HostFacts, ZenonT(60), SMTT(60)
<1>2. dgram \in Datagrams /\ dgram.dst = ip /\ dgram.id = submitted[h][ip] + 1
  BY <1>1 DEF Datagrams
<1>3. Given(h, ip) = send_datagram(interface[h], dgram, ip)
  BY Zenon DEF Given
<1> HIDE DEF dgram
<1>4. Before(h, ip, replaced, since[h], interface[h], dgram, submitted[h], transmitted[h])
  BY <1>1, <1>2, ZenonT(90) DEF Before
<1> QED BY <1>3, <1>4, SendGood, ZenonT(60), SMTT(60)

LEMMA SendInv ==
  ASSUME Inv, NEW h \in Hosts, NEW ip \in Hosts, Send(h, ip)
  PROVE  Inv'
<1> DEFINE id == submitted[h][ip] + 1
           n == Given(h, ip)
           new == [d \in Hosts |-> IF d \in Requested(n.frames_out) THEN 0 ELSE since[h][d]]
           given == [submitted[h] EXCEPT ![ip] = submitted[h][ip] + 1]
<1>1. /\ submitted' = [submitted EXCEPT ![h][ip] = id]
      /\ since' = [since EXCEPT ![h] = new]
      /\ Call(h, n, wire) /\ lossy' = lossy /\ replaced' = replaced
  BY ZenonT(90) DEF Send
<1>2. /\ replaced \in [Hosts -> Nat] /\ submitted[h] \in [Hosts -> Nat] /\ since[h] \in [Hosts -> Nat]
      /\ submitted \in [Hosts -> [Hosts -> Nat]] /\ since \in [Hosts -> [Hosts -> Nat]]
  BY HostFacts, ZenonT(60), SMTT(60)
<1>3. After(h, ip, replaced, since[h], submitted[h], transmitted[h], n)
  BY GivenGood, Zenon
<1> HIDE DEF n
<1>4. new \in [Hosts -> Nat] /\ given \in [Hosts -> Nat]
  <2>1. since[h] \in [Hosts -> Nat] /\ submitted[h] \in [Hosts -> Nat]
    BY <1>2, Zenon
  <2>2. submitted[h][ip] + 1 \in Nat
    BY <2>1
  <2>3. \A d \in Hosts : (IF d \in Requested(n.frames_out) THEN 0 ELSE since[h][d]) \in Nat
    BY <2>1
  <2> QED BY <2>1, <2>2, <2>3, ZenonT(60), SMTT(60)
<1>5. Called(h, replaced, new, given, transmitted[h], n)
  BY <1>3, Zenon DEF After, NumberedAfter, Called
<1> HIDE DEF new
<1>6. submitted' = [submitted EXCEPT ![h] = given]
  BY <1>1, Zenon
<1> HIDE DEF given
<1>7. /\ submitted'[h] = given /\ since'[h] = new
      /\ \A d \in Hosts : d # h => submitted'[d] = submitted[d] /\ since'[d] = since[d]
      /\ submitted' \in [Hosts -> [Hosts -> Nat]] /\ since' \in [Hosts -> [Hosts -> Nat]]
  BY <1>1, <1>2, <1>4, <1>6, ZenonT(60), SMTT(60)
<1>8. wire' \subseteq wire \cup ((Hosts \ {h}) \X {n.frames_out[k] : k \in DOMAIN n.frames_out})
  BY <1>1, CarriedSome DEF Call
<1>9. /\ interface' = [interface EXCEPT ![h] = [n EXCEPT !.frames_out = <<>>]]
      /\ transmitted' = [transmitted EXCEPT ![h] = [d \in Hosts |-> transmitted[h][d] \o Dgrams(n.frames_out, d)]]
  BY <1>1, Zenon DEF Call, Inv, Network
<1>10. Calls(h, n, interface, wire, replaced, submitted, transmitted, since,
             interface', wire', submitted', transmitted', since')
  BY <1>5, <1>7, <1>8, <1>9, ZenonT(90) DEF Calls
<1>11. Network(interface', wire', replaced', submitted', transmitted', since')
  <2>1. Network(interface, wire, replaced, submitted, transmitted, since)
    BY Zenon DEF Inv
  <2>2. Network(interface', wire', replaced, submitted', transmitted', since')
    BY <1>10, <2>1, CallsInv, ZenonT(60), SMTT(60)
  <2> QED BY <1>1, <2>2, Zenon
<1> QED BY <1>11, Zenon DEF Inv

LEMMA ReceiveInv ==
  ASSUME Inv, NEW h \in Hosts, NEW frame, NEW parses, Receive(h, frame, parses)
  PROVE  Inv'
<1> DEFINE n == recv_frame(interface[h], frame, parses)
<1>1. PICK rest \in {wire \ {<<h, frame>>}} \cup (IF lossy THEN {wire} ELSE {}) : Call(h, n, rest)
  BY Zenon DEF Receive
<1>2. /\ <<h, frame>> \in wire /\ lossy' = lossy /\ replaced' = replaced
      /\ submitted' = submitted /\ since' = since
  BY Zenon DEF Receive
<1>3. rest \subseteq wire
  BY <1>1, ZenonT(60), SMTT(60)
<1>4. /\ replaced \in [Hosts -> Nat] /\ submitted[h] \in [Hosts -> Nat] /\ since[h] \in [Hosts -> Nat]
      /\ submitted \in [Hosts -> [Hosts -> Nat]] /\ since \in [Hosts -> [Hosts -> Nat]]
      /\ interface[h].frames_out = <<>> /\ Good(h, interface[h], replaced, since[h])
      /\ Numbered(interface[h], submitted[h], transmitted[h])
  BY HostFacts
<1>5. Truthful(frame, replaced)
  <2>1. Truthful(<<h, frame>>[2], replaced)
    BY <1>2, ZenonT(90) DEF Inv, Network
  <2> QED BY <2>1
<1>6. Called(h, replaced, since[h], submitted[h], transmitted[h], n)
  BY <1>4, <1>5, RecvGood, Zenon
<1> HIDE DEF n
<1>7. wire' \subseteq rest \cup ((Hosts \ {h}) \X {n.frames_out[k] : k \in DOMAIN n.frames_out})
  BY <1>1, CarriedSome, ZenonT(60), SMTT(60) DEF Call
<1>8. wire' \subseteq wire \cup ((Hosts \ {h}) \X {n.frames_out[k] : k \in DOMAIN n.frames_out})
  BY <1>3, <1>7
<1>9. /\ interface' = [interface EXCEPT ![h] = [n EXCEPT !.frames_out = <<>>]]
      /\ transmitted' = [transmitted EXCEPT ![h] = [d \in Hosts |-> transmitted[h][d] \o Dgrams(n.frames_out, d)]]
  BY <1>1, Zenon DEF Call, Inv, Network
<1>10. Calls(h, n, interface, wire, replaced, submitted, transmitted, since,
             interface', wire', submitted', transmitted', since')
  BY <1>2, <1>4, <1>6, <1>8, <1>9, ZenonT(90) DEF Calls
<1>11. Network(interface', wire', replaced', submitted', transmitted', since')
  BY <1>2, <1>10, CallsInv, ZenonT(60), SMTT(60) DEF Inv
<1> QED BY <1>11, Zenon DEF Inv

LEMMA TickInv ==
  ASSUME Inv, NEW h \in Hosts, NEW ms \in TickSizes, Tick(h, ms)
  PROVE  Inv'
<1> DEFINE n == interface_tick(interface[h], ms)
           new == [d \in Hosts |-> Least(since[h][d] + ms, PendingTime + 1)]
<1>1. /\ Call(h, n, wire) /\ lossy' = lossy /\ replaced' = replaced /\ submitted' = submitted
      /\ since' = [since EXCEPT ![h] = new]
  BY ZenonT(90) DEF Tick
<1>2. /\ replaced \in [Hosts -> Nat] /\ submitted[h] \in [Hosts -> Nat] /\ since[h] \in [Hosts -> Nat]
      /\ submitted \in [Hosts -> [Hosts -> Nat]] /\ since \in [Hosts -> [Hosts -> Nat]]
      /\ interface[h].frames_out = <<>> /\ Good(h, interface[h], replaced, since[h])
      /\ Numbered(interface[h], submitted[h], transmitted[h])
  BY HostFacts
<1>3. ms \in Nat
  BY LanAssumption, ZenonT(60), SMTT(60)
<1>4. Called(h, replaced, new, submitted[h], transmitted[h], n)
  BY <1>2, <1>3, TickGood, ZenonT(90)
<1> HIDE DEF n
<1>5. \A d \in Hosts : new[d] \in Nat
  BY <1>2, <1>3, TimeAssumption, SMTT(30), SMTT(90) DEF Least
<1>6. new \in [Hosts -> Nat]
  BY <1>5, ZenonT(60), SMTT(60)
<1> HIDE DEF new
<1>7. /\ since'[h] = new /\ \A d \in Hosts : d # h => since'[d] = since[d]
      /\ since' \in [Hosts -> [Hosts -> Nat]]
  BY <1>1, <1>2, <1>6, ZenonT(60), SMTT(60)
<1>8. wire' \subseteq wire \cup ((Hosts \ {h}) \X {n.frames_out[k] : k \in DOMAIN n.frames_out})
  BY <1>1, CarriedSome, ZenonT(60), SMTT(60) DEF Call
<1>9. /\ interface' = [interface EXCEPT ![h] = [n EXCEPT !.frames_out = <<>>]]
      /\ transmitted' = [transmitted EXCEPT ![h] = [d \in Hosts |-> transmitted[h][d] \o Dgrams(n.frames_out, d)]]
  BY <1>1, Zenon DEF Call, Inv, Network
<1>10. Calls(h, n, interface, wire, replaced, submitted, transmitted, since,
             interface', wire', submitted', transmitted', since')
  BY <1>1, <1>2, <1>4, <1>7, <1>8, <1>9, ZenonT(90) DEF Calls
<1>11. Network(interface', wire', replaced', submitted', transmitted', since')
  BY <1>1, <1>10, CallsInv, ZenonT(60), SMTT(60) DEF Inv
<1> QED BY <1>11, Zenon DEF Inv

LEMMA ReplaceInv ==
  ASSUME Inv, NEW h \in Hosts, Replace(h)
  PROVE  Inv'
<1> DEFINE n == NewInterface(Eth(h, replaced'[h]), h)
           none == [ip \in Hosts |-> 0]
           nothing == [ip \in Hosts |-> <<>>]
           never == [ip \in Hosts |-> PendingTime + 1]
<1>1. /\ replaced' = [replaced EXCEPT ![h] = replaced[h] + 1]
      /\ interface' = [interface EXCEPT ![h] = n]
      /\ submitted' = [submitted EXCEPT ![h] = none]
      /\ transmitted' = [transmitted EXCEPT ![h] = nothing]
      /\ since' = [since EXCEPT ![h] = never]
      /\ wire' = wire
  BY Zenon DEF Replace
<1>2. /\ replaced \in [Hosts -> Nat] /\ submitted \in [Hosts -> [Hosts -> Nat]]
      /\ since \in [Hosts -> [Hosts -> Nat]] /\ DOMAIN interface = Hosts /\ DOMAIN transmitted = Hosts
  BY Zenon DEF Inv, Network
<1>3. /\ replaced' \in [Hosts -> Nat] /\ \A d \in Hosts : replaced[d] <= replaced'[d]
      /\ \A d \in Hosts : d # h => replaced'[d] = replaced[d]
  BY <1>1, <1>2
<1>4. n.frames_out = <<>> /\ Good(h, n, replaced', never) /\ Numbered(n, none, nothing)
  BY <1>3, NewGood, Zenon
<1>5. none \in [Hosts -> Nat] /\ never \in [Hosts -> Nat] /\ \A d \in Hosts : never[d] = PendingTime + 1
  BY TimeAssumption, SMTT(30), SMTT(90)
<1> HIDE DEF n, none, nothing, never
<1>6. /\ interface'[h] = n /\ submitted'[h] = none /\ transmitted'[h] = nothing /\ since'[h] = never
      /\ \A d \in Hosts : d # h => /\ interface'[d] = interface[d] /\ submitted'[d] = submitted[d]
                                  /\ transmitted'[d] = transmitted[d] /\ since'[d] = since[d]
      /\ DOMAIN interface' = Hosts /\ DOMAIN transmitted' = Hosts
  BY <1>1, <1>2, ZenonT(60), SMTT(60)
<1>7. submitted' \in [Hosts -> [Hosts -> Nat]] /\ since' \in [Hosts -> [Hosts -> Nat]]
  BY <1>1, <1>2, <1>5, ZenonT(60), SMTT(60)
<1>8. ASSUME NEW d \in Hosts
      PROVE  Host(d, interface'[d], replaced', since'[d], submitted'[d], transmitted'[d])
  <2>1. CASE d = h
    BY <1>4, <1>6, <2>1, Zenon DEF Host
  <2>2. CASE d # h
    <3>1. /\ interface[d].frames_out = <<>> /\ Good(d, interface[d], replaced, since[d])
          /\ Numbered(interface[d], submitted[d], transmitted[d])
      BY HostFacts
    <3>2. Good(d, interface[d], replaced', since[d])
      BY <1>2, <1>3, <2>2, <3>1, GoodStill, ZenonT(90)
    <3> QED BY <1>6, <2>2, <3>1, <3>2, ZenonT(90) DEF Host
  <2> QED BY <2>1, <2>2
<1>9. ASSUME NEW c \in wire' PROVE Truthful(c[2], replaced')
  <2>1. Truthful(c[2], replaced)
    BY <1>1, Zenon DEF Inv, Network
  <2> QED BY <1>2, <1>3, <2>1, TruthfulStill, Zenon
<1>10. Network(interface', wire', replaced', submitted', transmitted', since')
  BY <1>3, <1>6, <1>7, <1>8, <1>9, ZenonT(90) DEF Network
<1> QED BY <1>10, Zenon DEF Inv

LEMMA NextInv == Inv /\ [Next]_vars => Inv'
<1> SUFFICES ASSUME Inv, [Next]_vars PROVE Inv'
  OBVIOUS
<1>1. CASE Next
  <2>1. PICK h \in Hosts :
          \/ \E ip \in Hosts : Send(h, ip)
          \/ \E frame \in Frames : Receive(h, frame, TRUE)
          \/ \E frame \in Frames : lossy /\ Receive(h, frame, FALSE)
          \/ \E ms \in TickSizes : Tick(h, ms)
          \/ Replace(h)
    BY <1>1, Zenon DEF Next
  <2> QED BY <2>1, SendInv, ReceiveInv, TickInv, ReplaceInv, Zenon
<1>2. CASE UNCHANGED vars
  BY <1>2, Zenon DEF vars, Inv
<1> QED BY <1>1, <1>2

LEMMA AlwaysInv == Spec => []Inv
  BY InitInv, NextInv, PTL DEF Spec

\* The assertion of recv_frame() holds, and no datagram waits for an address
\* that is known, on any wire and for any number of hosts.
THEOREM AlwaysWaitingIffPending == Spec => []WaitingIffPending
<1>1. Inv => WaitingIffPending
  <2> SUFFICES ASSUME Inv, NEW h \in Hosts PROVE Pending(interface[h])
    BY Zenon DEF WaitingIffPending, Pending
  <2>1. Good(h, interface[h], replaced, since[h])
    BY HostFacts
  <2> QED BY <2>1, Zenon DEF Good
<1> QED BY <1>1, AlwaysInv, PTL

\* No interface sends two requests for an address within PendingTime, the
\* five seconds of send_datagram(), whatever it learns or forgets meanwhile.
THEOREM RequestsAlwaysSpaced == Spec => []RequestsSpaced
<1>1. Inv => RequestsSpaced
  <2> SUFFICES ASSUME Inv, NEW h \in Hosts, NEW ip \in Hosts \ {h},
                      NEW asked \in Requested(Given(h, ip).frames_out)
               PROVE  since[h][asked] > PendingTime
    BY Zenon DEF RequestsSpaced
  <2>1. ip \in Hosts
    BY Zenon
  <2>2. After(h, ip, replaced, since[h], submitted[h], transmitted[h], Given(h, ip))
    BY <2>1, GivenGood, Zenon
  <2> QED BY <2>2, Zenon DEF After
<1> QED BY <1>1, AlwaysInv, PTL

\* IPv4 frames from send_datagram() and recv_frame() carry an Ethernet address
\* that the next hop has or had, and tick() keeps no mapping too long.
THEOREM FramesAlwaysReachNextHop == Spec => []FramesReachNextHop
<1>1. Inv => FramesReachNextHop
  <2> SUFFICES ASSUME Inv PROVE FramesReachNextHop
    OBVIOUS
  <2>1. ASSUME NEW f \in Frames, f.type = "IPv4"
        PROVE  \E g \in 0..replaced[f.payload.dst] : f.dst = Eth(f.payload.dst, g)
    <3>1. Truthful(f, replaced)
      BY Zenon DEF Inv, Network, Frames
    <3> QED BY <2>1, <3>1, Zenon DEF Truthful, Had
  <2>2. ASSUME NEW h \in Hosts, NEW ip \in DOMAIN interface[h].ip_eth_map
        PROVE  interface[h].ip_eth_map[ip].time <= MappingTime
    <3>1. Good(h, interface[h], replaced, since[h])
      BY HostFacts
    <3> QED BY <3>1, Zenon DEF Good, Known
  <2> QED BY <2>1, <2>2, Zenon DEF FramesReachNextHop
<1> QED BY <1>1, AlwaysInv, PTL

\* The interface loses no datagram given to send_datagram(), sends none twice,
\* and keeps their order, through requests, replies, ticks and expiry.
THEOREM AlwaysOnceAndInOrder == Spec => []OnceAndInOrder
<1>1. Inv => OnceAndInOrder
  <2> SUFFICES ASSUME Inv, NEW h \in Hosts, NEW ip \in Hosts
               PROVE  transmitted[h][ip] \o waiting(h, ip) = Counting(submitted[h][ip])
    BY Zenon DEF OnceAndInOrder, Counting
  <2> DEFINE q == Queue(interface[h], ip)
  <2>1. /\ submitted[h] \in [Hosts -> Nat] /\ Good(h, interface[h], replaced, since[h])
        /\ Numbered(interface[h], submitted[h], transmitted[h])
    BY HostFacts, ZenonT(60), SMTT(60)
  <2>2. q \in Seq(Datagrams)
    BY <2>1, GoodFields, QueueOf, ZenonT(60), SMTT(60)
  <2>3. waiting(h, ip) = [k \in DOMAIN q |-> q[k].id]
    <3>1. CASE ip \in DOMAIN interface[h].waiting_dgrams
      BY <3>1, Zenon DEF waiting, Queue
    <3>2. CASE ip \notin DOMAIN interface[h].waiting_dgrams
      <4>1. waiting(h, ip) = <<>> /\ q = <<>>
        BY <3>2, Zenon DEF waiting, Queue
      <4>2. [k \in DOMAIN <<>> |-> <<>>[k].id] = <<>>
        BY SMTT(30), SMTT(90)
      <4> QED BY <4>1, <4>2, Zenon
    <3> QED BY <3>1, <3>2
  <2>4. NumberedFor(q, submitted[h][ip], transmitted[h][ip]) /\ submitted[h][ip] \in Nat
    BY <2>1 DEF Numbered
  <2> HIDE DEF q
  <2>5. waiting(h, ip) = [k \in 1..Len(q) |-> q[k].id]
    BY <2>2, <2>3, SMTT(30), SMTT(90)
  <2>6. NumberedFor(<<>>, submitted[h][ip], transmitted[h][ip] \o waiting(h, ip))
    BY <2>2, <2>4, <2>5, NumberedFlushed, ZenonT(60), SMTT(60)
  <2>7. Len(<<>>) = 0 /\ submitted[h][ip] - 0 = submitted[h][ip]
    BY <2>4
  <2> QED BY <2>6, <2>7, Zenon DEF NumberedFor
<1> QED BY <1>1, AlwaysInv, PTL
=============================================================================
