-------------------------------- MODULE Lan --------------------------------
(***************************************************************************)
(* Hosts with a NetworkInterface each on one Ethernet.  Every frame goes to*)
(* every other host, once, in any order; or, if the wire is lossy, never, *)
(* late, or several times, and then a host may be replaced by one with the *)
(* same IP address and a new Ethernet address, which mappings expire for.  *)
(* The datagrams from one host to another are numbered from 1.             *)
(***************************************************************************)
EXTENDS NetworkInterface, FiniteSets, FiniteSetsExt

CONSTANTS Hosts,       \* the IP addresses
          TickSizes,   \* ms_since_last_tick of the calls of tick()
          MaxDgrams,   \* bound: datagrams from one host to another
          MaxInWire,   \* bound: frames remembered by a lossy wire
          MaxReplaced  \* bound: how often a host is replaced

ASSUME LanAssumption ==
  /\ TickSizes \subseteq Nat \ {0}
  /\ MaxDgrams \in Nat /\ MaxInWire \in Nat \ {0} /\ MaxReplaced \in Nat

VARIABLES lossy,        \* whether frames may be lost and repeated, and hosts replaced
          interface,    \* the interface of each host
          wire,         \* the frames on their way, with the host each goes to
          replaced,     \* how often each host has been replaced
          submitted,    \* how many datagrams each host was given for each other
          transmitted,  \* the datagrams each interface sent in IPv4 frames, by destination
          since         \* time since the last request for an address, up to PendingTime + 1

vars == <<lossy, interface, wire, replaced, submitted, transmitted, since>>

Eth(h, generation) == <<h, generation>>
PerPair(value) == [h \in Hosts |-> [ip \in Hosts |-> value]]

Init ==
  /\ lossy \in BOOLEAN
  /\ interface = [h \in Hosts |-> NewInterface(Eth(h, 0), h)]
  /\ wire = {}
  /\ replaced = [h \in Hosts |-> 0]
  /\ submitted = PerPair(0)
  /\ transmitted = PerPair(<<>>)
  /\ since = PerPair(PendingTime + 1)

Least(a, b) == IF a < b THEN a ELSE b

\* What the wire may hold of the frames put on it.
Carried(all) ==
  IF lossy THEN kSubset(Least(MaxInWire, Cardinality(all)), all) ELSE {all}

Dgrams(frames, ip) ==
  LET upTo[n \in 0..Len(frames)] ==
        IF n = 0 THEN <<>>
        ELSE IF frames[n].type = "IPv4" /\ frames[n].payload.dst = ip
        THEN Append(upTo[n - 1], frames[n].payload.id)
        ELSE upTo[n - 1]
  IN  upTo[Len(frames)]

Requested(frames) ==
  {frames[k].payload.target_ip : k \in {j \in DOMAIN frames :
     frames[j].type = "ARP" /\ frames[j].payload.opcode = "REQUEST"}}

\* The interface of h is left in state n, its queue emptied onto the wire;
\* from is what the wire held before.
Call(h, n, from) ==
  /\ interface' = [interface EXCEPT ![h] = [n EXCEPT !.frames_out = <<>>]]
  /\ wire' \in Carried(from \cup ((Hosts \ {h}) \X {n.frames_out[k] : k \in DOMAIN n.frames_out}))
  /\ transmitted' = [transmitted EXCEPT ![h] = [ip \in Hosts |-> @[ip] \o Dgrams(n.frames_out, ip)]]

\* The interface of h after it is given the next datagram for ip.
Given(h, ip) ==
  send_datagram(interface[h], [src |-> h, dst |-> ip, id |-> submitted[h][ip] + 1], ip)

Send(h, ip) ==
  LET id == submitted[h][ip] + 1
      n == Given(h, ip)
  IN  /\ h # ip /\ id <= MaxDgrams
      /\ submitted' = [submitted EXCEPT ![h][ip] = id]
      /\ since' = [since EXCEPT ![h] = [d \in Hosts |-> IF d \in Requested(n.frames_out) THEN 0 ELSE @[d]]]
      /\ Call(h, n, wire)
      /\ UNCHANGED <<lossy, replaced>>

Receive(h, frame, parses) ==
  /\ <<h, frame>> \in wire
  /\ \E rest \in {wire \ {<<h, frame>>}} \cup (IF lossy THEN {wire} ELSE {}) :
       Call(h, recv_frame(interface[h], frame, parses), rest)
  /\ UNCHANGED <<lossy, replaced, submitted, since>>

Tick(h, ms) ==
  /\ Call(h, interface_tick(interface[h], ms), wire)
  /\ since' = [since EXCEPT ![h] = [ip \in Hosts |-> Least(@[ip] + ms, PendingTime + 1)]]
  /\ UNCHANGED <<lossy, replaced, submitted>>

Replace(h) ==
  /\ lossy /\ replaced[h] < MaxReplaced
  /\ replaced' = [replaced EXCEPT ![h] = @ + 1]
  /\ interface' = [interface EXCEPT ![h] = NewInterface(Eth(h, replaced'[h]), h)]
  /\ submitted' = [submitted EXCEPT ![h] = [ip \in Hosts |-> 0]]
  /\ transmitted' = [transmitted EXCEPT ![h] = [ip \in Hosts |-> <<>>]]
  /\ since' = [since EXCEPT ![h] = [ip \in Hosts |-> PendingTime + 1]]
  /\ UNCHANGED <<lossy, wire>>

Frames == {carried[2] : carried \in wire}

Next ==
  \E h \in Hosts :
    \/ \E ip \in Hosts : Send(h, ip)
    \/ \E frame \in Frames : Receive(h, frame, TRUE)
    \/ \E frame \in Frames : lossy /\ Receive(h, frame, FALSE)
    \/ \E ms \in TickSizes : Tick(h, ms)
    \/ Replace(h)

Spec == Init /\ [][Next]_vars

\* A frame on the wire stays until it is received.
Fairness == \A h \in Hosts : WF_vars(\E frame \in Frames : Receive(h, frame, TRUE))
FairSpec == Spec /\ Fairness
-----------------------------------------------------------------------------
waiting(h, ip) ==
  LET n == interface[h]
  IN  IF ip \in DOMAIN n.waiting_dgrams
      THEN [k \in DOMAIN n.waiting_dgrams[ip] |-> n.waiting_dgrams[ip][k].id] ELSE <<>>

\* The assertion of recv_frame(), that datagrams wait for every address with
\* a pending request, and more: none waits for another address, and none for
\* one that is known, so that no later datagram overtakes it.
WaitingIffPending ==
  \A h \in Hosts :
    LET n == interface[h]
    IN  /\ DOMAIN n.waiting_dgrams = DOMAIN n.ip_waiting_time_map
        /\ DOMAIN n.waiting_dgrams \cap DOMAIN n.ip_eth_map = {}
        /\ \A ip \in DOMAIN n.waiting_dgrams : n.waiting_dgrams[ip] # <<>>

\* Through requests, replies and expiry an interface loses no datagram it was
\* given, sends none twice, and keeps the order for each next hop.
OnceAndInOrder ==
  \A h, ip \in Hosts :
    transmitted[h][ip] \o waiting(h, ip) = [k \in 1..submitted[h][ip] |-> k]

\* A datagram is framed for an Ethernet address that its next hop has or had,
\* however old the ARP messages that send_datagram() and recv_frame() rely on,
\* and no mapping is kept longer than MappingTime after such a message.
FramesReachNextHop ==
  /\ \A f \in Frames :
       f.type = "IPv4" => \E g \in 0..replaced[f.payload.dst] : f.dst = Eth(f.payload.dst, g)
  /\ \A h \in Hosts : \A ip \in DOMAIN interface[h].ip_eth_map :
       interface[h].ip_eth_map[ip].time <= MappingTime

\* "pending mappings last five seconds" (tests/net_interface.cc): whenever a
\* datagram is given to send_datagram(), no second request for an address goes
\* out within PendingTime of the last one, not even at the same instant,
\* whatever was learnt, expired or asked for in between.
RequestsSpaced ==
  \A h \in Hosts : \A ip \in Hosts \ {h} :
    \A asked \in Requested(Given(h, ip).frames_out) : since[h][asked] > PendingTime

\* On a wire that delivers every frame, what send_datagram() left waiting for an
\* address is sent: the request is answered, and the answer is not missed.
WaitingIsSent ==
  \A h \in Hosts : \A ip \in Hosts \ {h} :
    ~lossy /\ waiting(h, ip) # <<>> ~> waiting(h, ip) = <<>>
=============================================================================
