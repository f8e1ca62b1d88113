-------------------------- MODULE NetworkSimulator --------------------------
(***************************************************************************)
(* The program apps/network_simulator.cc on a smaller network: a Router    *)
(* with two interfaces, a host behind the first and two hosts behind the   *)
(* second, as behind eth0 and uun3.  Hosts send datagrams and note who is  *)
(* to receive them, simulate() moves frames until nothing moves, and       *)
(* check() compares.  Where the program has one table of routes and one    *)
(* list of datagrams, here are all small ones.                             *)
(***************************************************************************)
EXTENDS Router, FiniteSets

CONSTANTS NextHops, Ttls, Senders,
          RoutePrefixes,                   \* the values of route_prefix that are added
          MaxPrefixLength,            \* longest prefix_length that is added
          AnyDestination,             \* hosts send to networks the scenario avoids
          MaxRoutes, MaxSends,        \* bounds
          MaxRounds                   \* rounds of simulate(), 256 in the program

ASSUME SimulatorAssumption ==
  /\ RoutePrefixes \subseteq 0 .. 2 ^ Width - 1 /\ MaxPrefixLength \in 0..Width
  /\ AnyDestination \in BOOLEAN /\ Ttls \subseteq 0..255
  /\ MaxRoutes \in Nat /\ MaxSends \in Nat /\ MaxRounds \in Nat

VARIABLES net,        \* the router and the hosts with their interfaces
          expecting,  \* the datagrams that each host expects to receive
          sent,       \* how many datagrams have been sent
          round       \* rounds of simulate() done, or Idle between its calls

vars == <<net, expecting, sent, round>>

Idle == -1

Addresses == 0 .. 2 ^ Width - 1
Hosts == {0, 2, 3}                       \* by address
Interfaces == {1, 2}
LinkOf(h) == IF h = 0 THEN 1 ELSE 2
RouterIp(i) == 2 ^ Width + i
EthOf(ip) == <<"host", ip>>

\* What is connected by simulate_physical_connections(), link by link.
Links == <<  << <<"router", 1>>, <<"host", 0>> >>,
             << <<"router", 2>>, <<"host", 2>>, <<"host", 3>> >>  >>

Init ==
  /\ net = [router |-> NewRouter([i \in Interfaces |-> NewInterface(<<"router", i>>, RouterIp(i))]),
            host |-> [interfaces |-> [h \in Hosts |-> NewInterface(EthOf(h), h)],
                      datagrams_out |-> [h \in Hosts |-> <<>>]]]
  /\ expecting = [h \in Hosts |-> {}]
  /\ sent = 0
  /\ round = Idle
-----------------------------------------------------------------------------
\* The high-order bits of an address that a prefix of length len is about.
HighBits(ip, len) == ip \div 2 ^ (Width - len)

Network(prefix, len) == <<HighBits(prefix, len), len>>

\* The constructor of Network: one route for each network.  The prefix may have
\* bits past its length, as 128.30.76.255/16 has.
AddRoute(prefix, len, hop, i) ==
  /\ sent = 0 /\ Len(net.router.routes) < MaxRoutes
  /\ \A k \in DOMAIN net.router.routes :
       LET route == net.router.routes[k]
       IN  Network(route.route_prefix, route.prefix_length) # Network(prefix, len)
  /\ net' = [net EXCEPT !.router = add_route(@, prefix, len, hop, i)]
  /\ UNCHANGED <<expecting, sent, round>>

\* The routes whose prefix agrees with ip in its prefix_length high-order bits.
Applicable(ip) ==
  {k \in DOMAIN net.router.routes :
     LET len == net.router.routes[k].prefix_length
     IN  HighBits(net.router.routes[k].route_prefix, len) = HighBits(ip, len)}

Best(ip) ==
  {k \in Applicable(ip) : \A j \in Applicable(ip) :
     net.router.routes[j].prefix_length <= net.router.routes[k].prefix_length}

HopOf(route, dgram) == IF route.next_hop = Direct THEN dgram.dst ELSE route.next_hop

\* Who is to receive the datagram, as the scenario of the program says it: the
\* next hop of the best route, if it is on the link that the route names.
Receivers(dgram) ==
  {h \in Hosts :
     /\ dgram.ttl > 1
     /\ \E k \in Best(dgram.dst) :
          LET route == net.router.routes[k]
          IN  h = HopOf(route, dgram) /\ LinkOf(h) = route.interface_num}

\* The scenario of the program sends nothing into the network of a route whose
\* prefix has bits past its length: nothing into 128.30.0.0/16.
InScenario(dst) ==
  \A k \in Applicable(dst) :
    LET route == net.router.routes[k]
    IN  route.route_prefix % 2 ^ (Width - route.prefix_length) = 0

SendTo(h, dst, ttl) ==
  LET dgram == [src |-> h, dst |-> dst, ttl |-> ttl, id |-> sent + 1]
  IN  /\ round = Idle /\ sent < MaxSends
      /\ ~AnyDestination => InScenario(dst)
      /\ sent' = sent + 1
      /\ net' = [net EXCEPT !.host.interfaces[h] = send_datagram(@, dgram, RouterIp(LinkOf(h)))]
      /\ expecting' = [g \in Hosts |-> expecting[g] \cup
                         IF g \in Receivers(dgram) THEN {[dgram EXCEPT !.ttl = @ - 1]} ELSE {}]
      /\ UNCHANGED round
-----------------------------------------------------------------------------
FramesOut(n, station) == n[station[1]].interfaces[station[2]].frames_out

\* deliver(): one frame to one interface.
Deliver(n, hop) == [n EXCEPT ![hop.to[1]] = async_recv_frame(@, hop.to[2], hop.frame, TRUE)]

Clear(n, station, count) ==
  [n EXCEPT ![station[1]].interfaces[station[2]].frames_out = SubSeq(@, count + 1, Len(@))]

\* The frames of each station, as they are before anything is delivered, go to
\* each other station; what they make the stations send waits for the next round.
exchange_frames(n, link) ==
  LET FromTo(s, t) == [k \in DOMAIN FramesOut(n, s) |-> [to |-> t, frame |-> FramesOut(n, s)[k]]]
      From(s) == FlattenSeq([k \in DOMAIN link |-> IF link[k] = s THEN <<>> ELSE FromTo(s, link[k])])
      delivered == FoldLeft(Deliver, n, FlattenSeq([k \in DOMAIN link |-> From(link[k])]))
  IN  FoldLeft(LAMBDA acc, s : Clear(acc, s, Len(FramesOut(n, s))), delivered, link)

simulate_physical_connections(n) == FoldLeft(exchange_frames, n, Links)

Moving(n) ==
  \/ FlattenSeq(n.router.datagrams_out) # <<>>
  \/ \E k \in DOMAIN Links : \E j \in DOMAIN Links[k] : FramesOut(n, Links[k][j]) # <<>>

StartSimulate ==
  round = Idle /\ sent > 0 /\ round' = 0 /\ UNCHANGED <<net, expecting, sent>>

\* The undefined shift by Width is reached only with a prefix of that length.
Shifts == IF MaxPrefixLength = Width THEN BOOLEAN ELSE {FALSE}

\* One turn of the loop of simulate().  A turn that moves nothing is left out.
Round(wraps) ==
  /\ round # Idle /\ Moving(net)
  /\ net' = simulate_physical_connections([net EXCEPT !.router = route_all(@, wraps)])
  /\ round' = round + 1
  /\ UNCHANGED <<expecting, sent>>

\* check() of every host; one that got something else, or not everything, throws.
Check ==
  /\ round # Idle /\ ~Moving(net)
  /\ round' = Idle
  /\ net' = [net EXCEPT !.host.datagrams_out = [h \in Hosts |-> <<>>]]
  /\ expecting' = [h \in Hosts |-> {}]
  /\ UNCHANGED sent

Next ==
  \/ \E prefix \in RoutePrefixes, len \in 0..MaxPrefixLength, hop \in NextHops, i \in Interfaces :
       AddRoute(prefix, len, hop, i)
  \/ \E h \in Senders, dst \in Addresses, ttl \in Ttls : SendTo(h, dst, ttl)
  \/ StartSimulate
  \/ \E wraps \in Shifts : Round(wraps)
  \/ Check

Spec == Init /\ [][Next]_vars
-----------------------------------------------------------------------------
\* After simulate() no host throws in check(): each has received exactly what
\* it expects, once, with its TTL less one, whatever was known to ARP before
\* and whatever other routes the table has, those that match nothing included;
\* and the frames came to rest within the rounds that the program allows.
CheckPasses ==
  /\ round <= MaxRounds
  /\ round # Idle /\ ~Moving(net) =>
       \A h \in Hosts : LET got == net.host.datagrams_out[h]
                        IN  ToSet(got) = expecting[h] /\ Len(got) = Cardinality(expecting[h])

Pending == FlattenSeq(net.router.datagrams_out)

\* Where the interfaces of router r have datagram id, framed or waiting for
\* ARP: as interface, Ethernet address it goes to, and TTL.
Placed(r, id) ==
  UNION {LET n == r.interfaces[i]
             Waits(ip) == {d \in ToSet(n.waiting_dgrams[ip]) : d.id = id}
         IN  {<<i, f.dst, f.payload.ttl>> :
                f \in {g \in ToSet(n.frames_out) : g.type = "IPv4" /\ g.payload.id = id}}
             \cup UNION {{<<i, EthOf(ip), d.ttl>> : d \in Waits(ip)} : ip \in DOMAIN n.waiting_dgrams} :
         i \in Interfaces}

\* route() sends each datagram out "as specified by the route with the longest
\* prefix_length that matches the datagram's destination address" (router.hh),
\* where prefix_length says "how many high-order (most-significant) bits of the
\* route_prefix will need to match" (router.cc), with its TTL less one; and
\* drops it if no route matches or the TTL runs out.  The code compares the
\* masked address with the whole route_prefix, and shifts 1U by prefix_length:
\* this fails for a prefix with bits past its length and for one of all bits.
RoutedByLongestPrefix ==
  \A k \in DOMAIN Pending, wraps \in Shifts :
    LET d == Pending[k]
        Out(route) == <<route.interface_num, EthOf(HopOf(route, d)), d.ttl - 1>>
    IN  Placed(route_all(net.router, wraps), d.id) =
          {Out(net.router.routes[j]) : j \in IF d.ttl <= 1 THEN {} ELSE Best(d.dst)}
=============================================================================
