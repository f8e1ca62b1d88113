------------------------------- MODULE Router -------------------------------
(***************************************************************************)
(* Router and AsyncNetworkInterface (router.hh/.cc): interfaces, each with *)
(* a queue of the datagrams it received, and the routes between them.      *)
(* Addresses are numbers of Width bits, 32 in the code.                    *)
(***************************************************************************)
EXTENDS NetworkInterface, SequencesExt

CONSTANTS Width, Direct   \* Direct: a route without next hop

ASSUME WidthAssumption == Width \in Nat \ {0}

NewRouter(interfaces) ==
  [interfaces |-> interfaces, datagrams_out |-> [i \in DOMAIN interfaces |-> <<>>], routes |-> <<>>]

add_route(r, prefix, len, next_hop, num) ==
  [r EXCEPT !.routes = Append(@, [route_prefix |-> prefix, prefix_length |-> len,
                                  next_hop |-> next_hop, interface_num |-> num])]

async_recv_frame(r, i, frame, parses) ==
  [r EXCEPT !.interfaces[i] = recv_frame(@, frame, parses),
            !.datagrams_out[i] = @ \o Returned(r.interfaces[i], frame, parses)]

\* x << n on Width bits.  A shift by Width is undefined; the processor leaves
\* x as it is (it takes n modulo Width) or shifts everything out.
Shift(x, n, wraps) ==
  IF n < Width THEN (x * 2 ^ n) % 2 ^ Width ELSE IF wraps THEN x ELSE 0

Mask(len, wraps) == Shift((Shift(1, len, wraps) - 1) % 2 ^ Width, Width - len, wraps)

\* mask & ip, for a mask of ones followed by zeros.
Masked(mask, ip) == IF mask = 0 THEN 0 ELSE ip - (ip % (2 ^ Width - mask))

Matches(route, ip, wraps) == Masked(Mask(route.prefix_length, wraps), ip) = route.route_prefix

\* Mutant of Lookup: the first match is taken, whatever its length.
LookupFirst(routes, ip, wraps) ==
  LET First(best, k) == IF best = -1 /\ Matches(routes[k], ip, wraps) THEN k ELSE best
  IN  FoldLeftDomain(First, -1, routes)

\* The loop over the routes: a match at least as long as the best one so far
\* replaces it.
Lookup(routes, ip, wraps) ==
  LET Better(best, k) ==
        IF Matches(routes[k], ip, wraps) /\ routes[k].prefix_length >= best.max_prefix_len
        THEN [max_prefix_len |-> routes[k].prefix_length, idx |-> k] ELSE best
  IN  FoldLeftDomain(Better, [max_prefix_len |-> 0, idx |-> -1], routes).idx

route_one_datagram(r, dgram, wraps) ==
  LET idx == Lookup(r.routes, dgram.dst, wraps)
      route == r.routes[idx]
      hop == IF route.next_hop = Direct THEN dgram.dst ELSE route.next_hop
  IN  IF dgram.ttl <= 1 \/ idx = -1 THEN r
      ELSE [r EXCEPT !.interfaces[route.interface_num] =
                       send_datagram(@, [dgram EXCEPT !.ttl = @ - 1], hop)]

\* Every datagram of every interface, in order.
route_all(r, wraps) ==
  LET Step(acc, dgram) == route_one_datagram(acc, dgram, wraps)
  IN  [FoldLeft(Step, r, FlattenSeq(r.datagrams_out))
         EXCEPT !.datagrams_out = [i \in DOMAIN @ |-> <<>>]]
=============================================================================
