-------------------------- MODULE NetworkInterface --------------------------
(***************************************************************************)
(* NetworkInterface (network_interface.hh/.cc): datagrams to and from      *)
(* Ethernet frames, with the addresses of the next hops found by ARP.  The *)
(* operators take the record of an interface and return it after the call. *)
(***************************************************************************)
EXTENDS Integers, Sequences, Functions

CONSTANTS ETHERNET_BROADCAST,
          PendingTime,   \* 5000 ms: a request is not repeated for so long
          MappingTime,   \* 30000 ms: a mapping is used for so long
          NoEth          \* the all-zero address of an empty field

ASSUME TimeAssumption == PendingTime \in Nat /\ MappingTime \in Nat /\ PendingTime <= MappingTime

EmptyMap == [ip \in {} |-> 0]
Put(map, key, value) == [k \in DOMAIN map \cup {key} |-> IF k = key THEN value ELSE map[k]]
Erase(map, key) == Restrict(map, DOMAIN map \ {key})

NewInterface(eth, ip) ==
  [ethernet_address |-> eth, ip_address |-> ip, frames_out |-> <<>>,
   waiting_dgrams |-> EmptyMap, ip_eth_map |-> EmptyMap, ip_waiting_time_map |-> EmptyMap]

Frame(n, dst, type, payload) ==
  [src |-> n.ethernet_address, dst |-> dst, type |-> type, payload |-> payload]

ARPMessage(n, opcode, target_eth, target_ip) ==
  [opcode |-> opcode, sender_eth |-> n.ethernet_address, sender_ip |-> n.ip_address,
   target_eth |-> target_eth, target_ip |-> target_ip]

Push(n, frame) == [n EXCEPT !.frames_out = Append(@, frame)]

\* Mutant of Request: a request for every datagram.
RequestAlways(n, ip) ==
  Push([n EXCEPT !.ip_waiting_time_map = Put(@, ip, 0)],
       Frame(n, ETHERNET_BROADCAST, "ARP", ARPMessage(n, "REQUEST", NoEth, ip)))

\* Broadcast a request unless one for the same address is still pending.
Request(n, ip) ==
  IF ip \in DOMAIN n.ip_waiting_time_map /\ n.ip_waiting_time_map[ip] <= PendingTime THEN n
  ELSE Push([n EXCEPT !.ip_waiting_time_map = Put(@, ip, 0)],
            Frame(n, ETHERNET_BROADCAST, "ARP", ARPMessage(n, "REQUEST", NoEth, ip)))

\* Mutant of Enqueue: a new queue in place of the one that is there.
EnqueueReplacing(n, dgram, ip) == [n EXCEPT !.waiting_dgrams = Put(@, ip, <<dgram>>)]

Enqueue(n, dgram, ip) ==
  [n EXCEPT !.waiting_dgrams =
     Put(@, ip, Append(IF ip \in DOMAIN @ THEN @[ip] ELSE <<>>, dgram))]

send_datagram(n, dgram, next_hop) ==
  IF next_hop \in DOMAIN n.ip_eth_map
  THEN Push(n, Frame(n, n.ip_eth_map[next_hop].addr, "IPv4", dgram))
  ELSE Request(Enqueue(n, dgram, next_hop), next_hop)

\* Mutant of Learn: the request stays pending after the answer.
LearnStillPending(n, arp) ==
  LET ip == arp.sender_ip
      learnt == [n EXCEPT !.ip_eth_map = Put(@, ip, [addr |-> arp.sender_eth, time |-> 0])]
      queue == n.waiting_dgrams[ip]
  IN  IF ip \notin DOMAIN n.waiting_dgrams THEN learnt
      ELSE [learnt EXCEPT
              !.waiting_dgrams = Erase(@, ip),
              !.frames_out = @ \o [k \in DOMAIN queue |-> Frame(n, arp.sender_eth, "IPv4", queue[k])]]

\* Mutant of Learn: the address is taken from the target fields.
LearnTarget(n, arp) ==
  [n EXCEPT !.ip_eth_map = Put(@, arp.sender_ip, [addr |-> arp.target_eth, time |-> 0]),
            !.ip_waiting_time_map = Erase(@, arp.sender_ip),
            !.waiting_dgrams = Erase(@, arp.sender_ip),
            !.frames_out = @ \o
              IF arp.sender_ip \notin DOMAIN n.waiting_dgrams THEN <<>>
              ELSE [k \in DOMAIN n.waiting_dgrams[arp.sender_ip] |->
                      Frame(n, arp.target_eth, "IPv4", n.waiting_dgrams[arp.sender_ip][k])]]

\* The sender of any ARP message is remembered, and what waited for it goes out.
Learn(n, arp) ==
  LET ip == arp.sender_ip
      learnt == [n EXCEPT !.ip_eth_map = Put(@, ip, [addr |-> arp.sender_eth, time |-> 0])]
      queue == n.waiting_dgrams[ip]
  IN  IF ip \notin DOMAIN n.ip_waiting_time_map THEN learnt
      ELSE [learnt EXCEPT
              !.ip_waiting_time_map = Erase(@, ip), !.waiting_dgrams = Erase(@, ip),
              !.frames_out = @ \o [k \in DOMAIN queue |-> Frame(n, arp.sender_eth, "IPv4", queue[k])]]

Reply(n, arp) ==
  IF arp.opcode = "REQUEST" /\ arp.target_ip = n.ip_address
  THEN Push(n, Frame(n, arp.sender_eth, "ARP", ARPMessage(n, "REPLY", arp.sender_eth, arp.sender_ip)))
  ELSE n

\* Mutant of ForMe: broadcasts are ignored.
ForMeUnicast(n, frame) == frame.dst = n.ethernet_address

ForMe(n, frame) == frame.dst \in {n.ethernet_address, ETHERNET_BROADCAST}

\* A payload that does not parse is dropped.  An unknown type trips an
\* assertion only in a debug build and is otherwise ignored.
recv_frame(n, frame, parses) ==
  IF ForMe(n, frame) /\ frame.type = "ARP" /\ parses
  THEN Reply(Learn(n, frame.payload), frame.payload) ELSE n

\* The optional datagram that recv_frame() returns.
Returned(n, frame, parses) ==
  IF ForMe(n, frame) /\ frame.type = "IPv4" /\ parses THEN <<frame.payload>> ELSE <<>>

\* Past PendingTime the age of a request does not matter: it is capped there.
interface_tick(n, ms) ==
  LET age == [ip \in DOMAIN n.ip_eth_map |-> n.ip_eth_map[ip].time + ms]
      older == [ip \in DOMAIN n.ip_eth_map |-> [n.ip_eth_map[ip] EXCEPT !.time = age[ip]]]
      Aged(t) == IF t + ms > PendingTime THEN PendingTime + 1 ELSE t + ms
  IN  [n EXCEPT
         !.ip_waiting_time_map = [ip \in DOMAIN @ |-> Aged(@[ip])],
         !.ip_eth_map = Restrict(older, {ip \in DOMAIN @ : age[ip] <= MappingTime})]
=============================================================================
