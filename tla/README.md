# Sponge in TLA+

A verification project for Sponge, a user-space TCP/IP stack: a byte stream, a
reassembler, a TCP receiver, sender and connection, an Ethernet/ARP interface
and a router (`libsponge`), with packet formats, adapters and a socket around
them and programs that use it (`apps`). The modules are translated from the
code. TLC checks them on small instances, and TLAPS proves the results listed
under *Proofs* for every value of the constants.

## 1. Parts

| Part | State | Operations | Talks to | What is hard |
|---|---|---|---|---|
| `ByteStream`, `RingBuffer` (`byte_stream`) | cells, two indices, counters, `eof_` | write, peek, pop, read, end_input | everything above | equal indices mean empty or full; wrapping copies; `eof_` is stored |
| `WrappingInt32` (`wrapping_integers`) | none | wrap, unwrap | receiver, sender | closest number, at the edges of the interval and at 0 |
| `StreamReassembler` | slices by index, `eof_index_` | push_substring | receiver | overlaps, full memory, end known early |
| `TCPReceiver` | SYN/FIN seen, checkpoint | segment_received, ackno, window_size | connection | FIN against the window, stale checkpoint |
| `TCPSender` | outstanding segments, window, timer | fill_window, ack_received, tick, send_empty_segment | connection | stale acknowledgments, zero window, backoff |
| `TCPConnection`, `TCPState` | both of them, lingering | connect, write, end_input_stream, segment_received, tick | socket, network | loss, repetition, reordering; who lingers |
| formats and adapters (`tcp_helpers`) | addresses, listening | parse, serialize, read, write | socket, interface | damaged and foreign datagrams, adopting a peer |
| `TCPSpongeSocket`, `EventLoop` | four rules, two threads, `_abort` | connect, listen, the loop, close | connection, kernel | stale readiness, shutdown races, ends of file |
| `bidirectional_stream_copy` | two streams, four rules | the copy loop | socket, stdin, stdout | both loops waiting for each other |
| `NetworkInterface` | ARP cache, waiting datagrams | send_datagram, recv_frame, tick | router, Ethernet | lost requests, expiry |
| `Router`, `network_simulator` | routes, interfaces, hosts | add_route, route, simulate, check | interfaces | longest prefix, TTL, coming to rest |

The same parts, with sources and status, are the `components` of
`PROJECT.json`; `hazards` there lists what is hard to test, line by line.

## 2. Modules

| Module | Models |
|---|---|
| `ByteStream` | a `ByteStream` as a record with a queue: the form the others use |
| `RingBuffer` | `ByteStream` with its `RingBuffer`: cells, `head_`, `tail_`, the flag that tells empty from full |
| `ByteQueue` | what a byte stream promises: a bounded FIFO queue with an end |
| `WrappingIntegers`, `SeqnoTracking` | `wrap`, `unwrap`, with `FACTOR` for the 2^32 of the code; a receiver that follows a moving number through them |
| `Packets` | TCP, IPv4, Ethernet and ARP headers and the Internet checksum, in words of 16 bits |
| `FdAdapter`, `Wire` | the adapters over UDP, TUN and TAP and the lossy one; a client, a listener and the network between them, carrying the numbers of `SeqnoTracking` |
| `StreamReassembler`, `Reassembly` | the class; a stream pushed in arbitrary substrings |
| `HeldBytes` | what the reassembler promises: it keeps the bytes nearest to the gap |
| `TCPReceiver`, `Receiving` | the class; a peer whose segments are repeated and reordered |
| `TCPSender`, `Sending` | the class; an owner and a peer that acknowledges late and out of order |
| `TCPConnection`, `TCPPair` | the class; two connections and the network between them |
| `TCPState`, `TCPBenchmark` | the official states; the transfer of `tcp_benchmark.cc` with losses |
| `Connection` | what a `TCPConnection` promises to its owner |
| `EventLoop`, `LocalSocketPair` | the two passes of `wait_next_event()`; the pair of local sockets |
| `SpongeSocket`, `StreamCopy` | the socket with its thread; the program around it with its copy loop |
| `NetworkInterface`, `Lan` | the class; hosts on one Ethernet, some replaced by others |
| `Router`, `NetworkSimulator` | `Router` and `AsyncNetworkInterface`; the simulator on three hosts with all small tables of routes |
| `MCInbound`, `MCSending` | values for TLC: the three layers a received byte passes, each checked in turn; the loop of `fill_window()` as a reference |
| `RingBufferProofs`, `SeqnoTrackingProofs`, `SendingProofs`, `ReceiverLemmas`, `ReassemblyProofs`, `ReceivingProofs`, `LanProofs`, `StreamCopyProofs` | the theorems |

A class is a module of operators, one per method, from a record of the class's
members to the record after the call, so that a class uses another as in the
code. A second module (`Reassembly`, `Receiving`, `Sending`, `TCPPair`, `Lan`,
`Wire`) holds the variables, and one action per call an owner may make.
`TCPBenchmark`, `NetworkSimulator` and `StreamCopy` follow the code of a
program instead. Fields keep the names of the members without the trailing
underscore.

How the socket is put on the connection. `SpongeSocket` does not contain
`TCPConnection`, whose states would multiply with those of two event loops. It
uses `Connection`: for each method, the set of connections it may leave behind,
without sequence numbers, windows or timers. `TCPBenchmark!KeepsPromise` checks
that every call of a `TCPConnection` in the benchmark is one of them.

Abstractions:

- Bytes are numbers. In a stream byte *i* is the number *i*, so a byte out of
  place is seen.
- Loops over slices and segments are given by what they compute; for
  `fill_window()` the run `sending` holds that against the loop.
- `FACTOR` is small so that sequence numbers wrap within a run.
- Absolute numbers are unbounded except in `WrappingIntegers`, whose arithmetic
  is modulo `FACTOR * FACTOR` as `uint64_t` is modulo 2^64.
- `assert` is compiled out of the default (Release) build. The assertions of
  `tick()`, `insert_without_overlap()` and the like appear as properties.
- `RingBuffer` and `ByteQueue` share the variable `io`, the string given to
  `write()` or returned by `read()`, so that the refinement compares contents.
- `ImplementsHeldBytes` compares which bytes are held and leaves the substring
  of a push existential, so it does not see a push that does too little.
  `PushIsExact` does: it names the substring. `SlicesExact` is about contents.
- A packet is a sequence of 16-bit words, the unit of the checksum; a payload is
  one word. Fields that keep their default and nobody reads are constant words.
- A datagram adapter can always be written. The local sockets hold `PipeSize`
  bytes each way. They report readiness, end of file, hang-ups and broken pipes
  as Linux does for a pair of stream sockets.
- IP addresses in `Lan` are names; in `Router` they are numbers of `Width` bits.
  A shift by `Width` is undefined and becomes the choice `wraps`: the count is
  taken modulo `Width`, or everything is shifted out.
- The age of a pending ARP request is capped just past its limit.
- A round of `simulate()` that moves nothing is left out.

The network of `TCPPair` keeps a bounded set of segments in each direction. It
may deliver any of them, any number of times and in any order. When the bound is
exceeded it forgets any, so every segment may be lost. The network of `Wire` does
the same with one datagram each way, and damages one bit of it. The
Ethernet of `Lan` is the same for frames if it is `lossy`, which `Init` chooses;
otherwise it delivers every frame once, in any order. `TCPBenchmark` moves all
segments at once, as its program does, in order or reversed, and loses at most
`MaxLosses`.

## 3. Runs

| Run | Question |
|---|---|
| `inbound` | of the receiver: are bytes in place after wraps and duplicates, does the window never shrink, does an acknowledged FIN end the stream? Of the reassembler: are the slices exact, can the gap always be closed, does every push keep just what fits (`HeldBytes`)? Of the byte stream: is the ring a queue, and is `eof()` exact? |
| `wire` | is what the listener takes what its peer wrote, do both hear each other, and does `unwrap` find the number that was sent? |
| `sending` | are outstanding segments, counters and timer consistent under any acknowledgments, is the window kept, and does the sender stall only behind an overtaken one? |
| `tcp_pair` | from an opening (simultaneous included) and from an established connection: is only what arrived taken for acknowledged, is the delivered stream a prefix of the written one, the window respected, a clean close complete, and does whoever does not linger leave a peer that knows? |
| `tcp_random_isn` | *violated*: does no segment end in an exception when `fixed_isn` is not set? |
| `benchmark` | does the transfer end, complete, through states of RFC 793, with every call as `Connection` says? |
| `lan` | does an interface keep, send once and in order what it was given, not ask too often, and send what waits if no frame is lost? |
| `simulator` | does each host get, once, the datagrams that a longest matching route brings it, whatever else is in the table? |
| `route_host_bits` | *violated*: does a datagram leave by a longest matching route when a prefix has bits past its length? |
| `route_full_prefix` | *violated*: does it when a prefix has all bits of an address? |
| `socket` | are both streams intact, are the last segments sent, and do both threads end? |
| `socket_partial_write` | *violated*: does the rule that feeds the owner handle a partial write? |

What the violated runs show:

- `tcp_random_isn`: `segment_received()` reads `cfg_.fixed_isn.value()` in
  SYN_SENT. A SYN that arrives twice is answered the second time by a bare ACK;
  if that overtakes the SYN of the server, the client throws. `tcp_pair` and
  `benchmark` therefore set `fixed_isn`, as their losses lead there too.
- `socket_partial_write`: after a reset rule 3 shuts the local socket even when
  its write took only part of the bytes, stays interested because bytes are
  left, and writes to the socket it has shut. The process gets SIGPIPE.
  `BrokenPipeAfterReset`, in `socket`, says that only a reset leads to it.
- `route_host_bits`: `route_one_datagram()` compares the masked destination with
  the whole prefix. The comment of `add_route()` speaks of the high-order bits of
  the prefix only, and `apps/network_simulator.cc` adds 128.30.76.255/16. Such a
  route never matches, and datagrams into its network are dropped or leave by
  a shorter route. `simulator` has such routes too, and sends, like the program,
  nothing into their networks: it shows that they do not disturb the others.
- `route_full_prefix`: the comment of `add_route()` allows prefixes of up to 32
  bits. The mask of a /32 route is made with `1U << 32`, which is undefined, and
  where the count is taken modulo 32 the mask is 0. Then 0.0.0.0/32 matches every
  address, and any other /32 route none. `simulator` has no such route
  (`MaxPrefixLength < Width`), and neither has the program.

Three more things that the models show. They have no run of their own:

- With `Overrun = 2` and `FACTOR = 26` in `MCInbound.cfg` the peer sends past the
  window. A FIN whose segment does not fit is noted but its end is not pushed;
  once the missing bytes have arrived without it, the FIN is acknowledged and the
  reader never sees the end (`AckedFinIsEnd`). This sender never does that.
- `ack_received()` takes the window of an overtaken acknowledgment, although a
  test (`tests/send_ack.cc`) is called "Old ACK is ignored". With nothing
  outstanding this may close the window with no timer to reopen it. `NeverStuck`
  says that nothing else does.
- A `TCPConnection` may be in CLOSE_WAIT with the linger flag still set, which
  `TCPState` has no name for: the peer's FIN came when our stream was all in
  segments and our FIN not yet sent. `FollowsDiagram` names it as the one
  exception; such a connection lingers where RFC 793 would not.

Bounds. Streams are a few bytes, longer than the capacity where one component is
studied, so that buffers fill, wrap and are cut. `FACTOR` is 8 to 22 and the
initial numbers are near it, so sequence numbers wrap; in `wire` they go round
up to three times. Windows go from 0 to above the payload size.

- `inbound`: the three layers are separate initial states of one run and do not
  interact in it; `Memory` and `StreamLength` belong to the reassembler, `RecvCapacity`
  and `Length` to the receiver. `GapCanAlwaysBeClosed` and `PushIsExact` ask, in every
  state, about every substring, so a push that is ignored or cut is seen.
- `tcp_pair`: the network remembers two segments to the server and one to the
  client, which is enough for a loss, a duplicate and an overtaking. `MaxTicks`
  bounds the calls of `tick()`, each long enough to expire a timer or end
  lingering; `MAX_RETX_ATTEMPTS` is 1 so that giving up is reached. The client
  writes two bytes and the server none, and both close. Openings and established
  connections are separate initial states. Longer exchanges, and data in
  both directions, are not checked.
- `benchmark`: five bytes through buffers of two, with three losses wherever they
  fall. With a fourth the end that lingers may be gone before the FIN of the
  other comes again, as in any TCP.
- `wire`: damage is one of the bits 0, 8, 9 and 13 of any word of a datagram,
  while the receiver has accepted nothing; bit 15 is beyond TLC's integers. ARP
  frames are not damaged, since they carry no checksum.
- `lan`: two hosts and two datagrams each way. A request is pending for 1 unit
  and a mapping lives for 2, so that requests become old and mappings expire
  between any two steps. A lossy Ethernet remembers one frame and each host may
  be replaced once.
- `simulator`: addresses of two bits, two routes, two datagrams, TTLs 1 and 2:
  enough for nested prefixes, equal lengths, stray bits, no match and an expired
  TTL. No network has two routes. `AnyDestination` lets the two violated runs send
  where the program does not. Seven
  rounds suffice for everything to come to rest; the program has 256.
- `socket`: one byte from stdin, two from the peer, one byte of room in each
  direction of the socket pair. `socket_partial_write` differs in that the copy
  loop has room for one byte only, so that the local socket stays full.

Deadlock is not checked for `TCPPair`, `Wire` and `NetworkSimulator`: their
bounded inputs run out. `TCPBenchmark` and `StreamCopy` have an action for being
finished, so that any other stop is found.

Fairness. `lan` assumes that a host takes frames as long as there are
some for it: the owner of an interface hands over what the Ethernet
delivers. The number of datagrams is bounded, so every frame is taken in the
end. `send_datagram()` and `tick()` are not assumed to be called again, and
nothing is claimed when a request is lost: the code repeats it only with the
next datagram. `benchmark` assumes that its loop, which is sequential code, takes
its next step. `socket` assumes that the scheduler runs both threads: that of the
connection can always go on, since its `poll()` waits 10 milliseconds at most,
and the copy loop can unless it waits for its descriptors. Nothing is assumed of
the peer. `ProgramEnds` is about a connection that has ended and a copy loop that
will not read stdin again, be it at its end or hung up; that the connection ends is
`Terminates` of `benchmark`.

## 4. Proofs

| Theorem | Says |
|---|---|
| `SizeAlwaysMatchesCounters`, `EofIsExact` | the ring's size and `eof()` agree with the counters |
| `RingImplementsQueue` | `RingBuffer` refines `ByteQueue` |
| `RoundTripAlways` | `unwrap` inverts `wrap` within half the space of the checkpoint |
| `UnwrapAlwaysClosest` | of the numbers that wrap to its argument `unwrap` returns the nearest |
| `UnackedAlwaysOutstanding` | outstanding segments cover, without gap, what is not acknowledged |
| `TimerAlwaysRuns` | the timer runs exactly while a segment is outstanding, and is not expired |
| `FlightAlwaysExact` | `bytes_in_flight_` is the sum of the outstanding lengths, and each segment holds the bytes of its place |
| `NewDataAlwaysInWindow` | no call sends a new number beyond the window |
| `SenderNeverStuck` | with nothing outstanding the window admits the next byte, unless an overtaken acknowledgment replaced it |
| `SlicesAlwaysExact` | every byte at its place in output and slices, none stored twice, all counted |
| `GapCanAlwaysClose` | the byte at the gap is taken whenever the output has room |
| `PushAlwaysExact` | every push leaves what `HeldBytes` holds after that very substring |
| `ReassemblerImplementsHeldBytes` | `Reassembly` refines `HeldBytes` |
| `BytesAlwaysInPlace` | the receiver hands every byte on at its place, however often numbers wrap |
| `WindowEdgeNeverShrinks` | the right edge of the window never moves left |
| `AckedFinAlwaysEnd` | a FIN is acknowledged only when the reader has the end, if the peer keeps to the window (`Overrun = 0`) |
| `AlwaysWaitingIffPending` | datagrams wait for exactly the addresses that were asked for |
| `AlwaysOnceAndInOrder` | an interface loses, repeats and reorders no datagram |
| `FramesAlwaysReachNextHop` | every IPv4 frame has an address its next hop has or had |
| `RequestsAlwaysSpaced` | no call sends a second ARP request within `PendingTime`, not even at the same instant |
| `AlwaysStreamsIntact` | both streams pass the two event loops and the pair of sockets byte for byte; an early end of file follows a reset |
| `LastSegmentsAlwaysSent` | the thread of the socket leaves no segment behind unless it is told to stop |
| `BrokenPipeOnlyAfterReset` | SIGPIPE needs a reset |

They hold for all constants that satisfy the named assumptions of the modules:

- capacities, payload size, timeouts and the size of the socket pair are
  positive, and numbers of bytes, datagrams and steps are natural;
- in `SeqnoTracking`, what arrives is less than half of `FACTOR` from the
  checkpoint; in `Sending` the window with the lag of an acknowledgment is (65535
  against 2^31 in the code), in `Receiving` twice the capacity with a payload, the
  overrun and the lag; the stream stays below the largest absolute number;
- in `NetworkInterface` a request is pending no longer than a mapping lives (5
  and 30 seconds in the code).

The arguments, one inductive invariant per component:

- `RingBufferProofs`, `IInv`: the type invariant, `SizeMatchesCounters` and
  `EofIffDrained`. The counters need the type of the indices, and `eof_` needs
  the counters. The refinement uses `IInv` at every step.
- `SendingProofs`, `Inv`: the sender is well typed, the checkpoint is not past
  `next_seqno_`, the segments are consecutive up to it (`Covered`), and the timer
  agrees with them (`Timed`). The properties alone are not inductive, since which
  segments `ack_received()` pops depends on every segment having a positive
  length and a place in the chain. Each method has a lemma that it preserves
  `Inv`, and `NextInv` combines them.
- `SendingProofs`, `Data` on top of that: `next_seqno_` stands for a position of
  the stream, which is where the bytes still in it begin, and every outstanding
  segment holds the bytes of its own place. The counter follows from a lemma about
  the sum: the lengths of consecutive segments add up to the distance between
  their ends.
- `ReassemblyProofs`, `Inv`, which is `Settled` of the reassembler: the output
  holds the bytes up to the gap, the slices are disjoint runs beyond it and are
  counted, they fit in memory with what is not read, the output has ended exactly
  when the known end is reached, and no slice begins at the gap. The last part
  fails between `insert_without_overlap()` and the end of the loop, where `Ready`
  holds. `ReceiverLemmas` shows what each operator does to `Ready`:
  `NewSlicesAre` (the new slices hold exactly the missing bytes),
  `DiscardKeepsNearest` (what is discarded are the bytes furthest ahead, because a
  stored byte survives exactly when more bytes than that lie from it on),
  `ReassembleIs` (the loop writes the run at the gap and stops at the next one) and
  `PushIs` (all of `push_substring()`). The branch of `reassemble()` for a slice
  larger than the room of the output is never taken: memory bounds slices and
  output together. The four properties follow from `Inv` and `PushIs`.
- `ReceivingProofs`, `Inv`: the reassembler of the receiver is `Settled` (`Sound`),
  the checkpoint is within the window and the lag of the ackno (`Tracked`), and a
  peer that keeps to the window has had its FIN passed on (`FinPassedOn`).
  `Tracked` is what makes the properties inductive: a late duplicate moves the
  checkpoint back, so that the next segment is unwrapped near an old number, and
  it is placed rightly because that number is still less than half the sequence
  space away. Then one segment is one `push_substring()`, and `PushIs` applies.
- `LanProofs`, `Network`: per host, waiting datagrams and pending requests belong
  together, nothing waits for a known address, and what is sent with what waits
  is, in this order, what was submitted. Across hosts, every mapping in a cache or
  in a frame on its way is one that its owner has or had. The properties need each
  other: a reply flushes what waits to an address that is only right because the
  frames are.
- `StreamCopyProofs`, `Inv`: every buffer on the way holds a run of consecutive
  numbers that begins where the next buffer ends (`Inbound`, `Outbound`). A
  direction is shut only if its stream is at its end or the connection was reset,
  and who has seen the end of file finds nothing more to read (`InboundEnds`,
  `OutboundEnds`). A rule found readable stays so until it is served, whatever the
  other thread does (`ThreadLoop`, `OwnerLoop`), which is what the end of file
  depends on. TLC checks `Inv` on the instance of `socket` before it is proved.
- `RoundTripAlways` and `UnwrapAlwaysClosest` are about `SeqnoTracking` alone,
  where every near number may arrive; `wire` checks the same with the numbers that
  datagrams bring.

The sums, concatenations and loops that these proofs need (`LengthOf` in
`TCPSender`, `Dgrams` in `Lan`, `TotalLength` and the turns of `reassemble` in
`StreamReassembler`) are recursive functions on an interval or on finite sets. What such a function
computes is proved without an induction rule: a candidate satisfies the equation,
so the function exists, and if it differed from the candidate it would at a least
number, which the equation excludes. `EventLoop` keeps the rules of a loop as a set,
in the order of their numbers, since the list of the code is only ever shortened.

Only model-checked:

- liveness (`Terminates`, `WaitingIsSent`, `AbortEnds`, `ProgramEnds`): fairness is
  outside the prover's reach;
- `FillWindowIsLoop`, which is about a `RECURSIVE` operator;
- the connection, the pair and the benchmark, which contain all of the classes
  above;
- formats and adapters (`Wire`), whose words are computed by bit arithmetic, and
  the router in the simulator, whose bounded rounds are the statement.

## 5. Not modelled

- `Address`, `UDPSocket`, `TCPSocket`, `TunFD`, name resolution and the clock:
  wrappers of system calls, with no state of their own.
- `Buffer` and `BufferList`: how strings share storage. They are sequences here.
- Printing: `summary()`, `to_string()`, `name()`, hex dumps, debugging output.
- The command lines of the programs, which set constants; `webget`, `tun`,
  `udp_tcpdump` and `tcp_native`, which are input and output around the
  kernel's sockets.
- `tick()` of the TAP adapter, which calls that of its interface (`Lan`), and the
  frame its constructor sends. Payloads of an odd number of bytes.
- Signals during `poll()`, errors of descriptors, and the check of the event loop
  for a callback that leaves its descriptor untouched. The counters behind that
  check are also changed by `_tcp_main()` through `shutdown()` without a lock; a
  lost increment would matter only to the check.
- The widths of `rto_` and of the millisecond counters: eight doublings of a
  16-bit timeout stay below 2^32.
- What a peer whose application does not read for nine timeouts should get: the
  code resets it, since probes of a closed window count as retransmissions, and
  nothing in the repository says what is meant.
- The move constructor of `RingBuffer`.
