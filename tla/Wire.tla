-------------------------------- MODULE Wire --------------------------------
(***************************************************************************)
(* How the sequence numbers of SeqnoTracking reach the receiver: a client  *)
(* writes segments through its adapter to a listening server, and the      *)
(* network between the two devices loses, repeats and damages datagrams    *)
(* while others send datagrams to the server too.  Damage is one wrong bit *)
(* in the IPv4 datagram (in the UDP payload for the adapter over UDP): the *)
(* links have their own checks, routers do not.                            *)
(***************************************************************************)
EXTENDS SeqnoTracking, FdAdapter, FiniteSets

CONSTANTS Kinds,        \* the adapters: a subset of {"udp", "tun", "tap"}
          Isns,         \* the initial sequence numbers of the client
          FlippedBits,  \* which bits of a word go wrong (15 is beyond TLC's integers)
          FlipUntil     \* bound: damage only while checkpoint <= FlipUntil

ASSUME WireAssumption ==
  Kinds \subseteq {"udp", "tun", "tap"} /\ Isns \subseteq Wrapping /\ FlippedBits \subseteq 0..14

VARIABLES client, server,   \* the two adapters
          to_server, to_client,   \* the datagram on its way, in a set
          written,                \* the number of the client's segment that waits for ARP
          heard                   \* what the server's read() has just returned, with its origin

wire_vars == <<isn, checkpoint, seqno, client, server, to_server, to_client, written, heard>>

Broadcast == <<65535, 65535, 65535>>
NoAddress == <<0, 0, 0>>
ClientEth == <<512, 0, 1>>
ServerEth == <<512, 0, 2>>
ClientAddress == Address(10, 1000)
ServerAddress == Address(20, 80)

\* Other senders: another program at the client's address, another host with
\* the client's port, and the client's own traffic to another port.
Strangers == {<<Address(10, 1001), ServerAddress>>, <<Address(11, 1000), ServerAddress>>,
              <<ClientAddress, Address(20, 81)>>}

WireInit ==
  /\ Init /\ isn \in Isns
  /\ \E kind \in Kinds :
       /\ client = NewAdapter(kind, ClientAddress, ServerAddress, FALSE, ClientEth, 20)
       /\ server = NewAdapter(kind, IF kind = "tun" THEN Address(0, 80) ELSE ServerAddress,
                              Address(0, 0), TRUE, ServerEth, 10)
  /\ to_server = {} /\ to_client = {} /\ written = 0 /\ heard = <<>>

Segment(flags, seq, ack, payload) ==
  [header |-> [sport |-> 0, dport |-> 0, seqno |-> seq, ackno |-> ack, doff |-> 5, flags |-> flags,
               win |-> 64000, cksum |-> 0, uptr |-> 0],
   payload |-> payload]

\* What the client sends at absolute sequence number n.
ClientSegment(n) ==
  IF n = 0 THEN Segment({"syn"}, wrap(n, isn), 0, <<>>) ELSE Segment({"ack"}, wrap(n, isn), 7, <<n>>)

ServerSegment == Segment({"ack"}, 0, 1, <<9>>)

\* Datagrams with their origin; the network keeps one of them at most.
Sent(who, n, datagrams) ==
  {[origin |-> who, n |-> n, datagram |-> datagrams[k]] : k \in DOMAIN datagrams}
Kept(before, sent) == {{}} \cup {{d} : d \in before \cup sent}

Emptied(a) == [a EXCEPT !.out = <<>>]

ClientWrites(n, drop) ==
  LET a == lossy_write(client, ClientSegment(n), drop)
  IN  /\ Near(n)
      /\ drop => client.kind # "tap"
      /\ written' = IF a.interface.waiting_dgrams = EmptyMap THEN 0 ELSE n
      /\ client.interface.waiting_dgrams = EmptyMap
      /\ heard' = <<>>
      /\ client' = Emptied(a)
      /\ to_server' \in Kept(to_server, Sent("client", n, a.out))
      /\ UNCHANGED <<isn, checkpoint, seqno, server, to_client>>

ServerWrites ==
  LET a == write(server, ServerSegment)
  IN  /\ ~server.listening /\ server.interface.waiting_dgrams = EmptyMap
      /\ heard' = <<>>
      /\ server' = Emptied(a)
      /\ to_client' \in Kept(to_client, Sent("server", 0, a.out))
      /\ UNCHANGED <<isn, checkpoint, seqno, client, to_server, written>>

\* Others use the adapter of the same kind; a SYN of theirs carries RST, so
\* that the server waits for the client.  UDP ports are the kernel's business.
StrangerWrites(s, flags) ==
  LET a == write(NewAdapter(client.kind, s[1], s[2], FALSE, ClientEth, 20), Segment(flags, 3, 7, <<5>>))
  IN  /\ client.kind = "tun" \/ (client.kind = "udp" /\ s[2] = ServerAddress)
      /\ heard' = <<>>
      /\ to_server' \in Kept(to_server, Sent("stranger", 0, a.out))
      /\ UNCHANGED <<isn, checkpoint, seqno, client, server, to_client, written>>

Flip(w, bit) == IF (w \div 2 ^ bit) % 2 = 1 THEN w - 2 ^ bit ELSE w + 2 ^ bit

\* The words of an IPv4 datagram (of a UDP payload) on the device.
Exposed(kind, words) ==
  IF kind = "tap" THEN (IF words[7] = FrameType.IPv4 THEN 8..Len(words) ELSE {}) ELSE 1..Len(words)

Damaged(kind, datagram) ==
  {[datagram EXCEPT !.words[k] = Flip(@, bit)] :
     k \in Exposed(kind, datagram.words), bit \in FlippedBits}

\* What read() may make of the datagram d.
Results(d) ==
  {read(server, datagram) : datagram \in {d.datagram} \cup
     IF checkpoint <= FlipUntil THEN Damaged(server.kind, d.datagram) ELSE {}}
  \cup IF server.kind = "tap" THEN {} ELSE {lossy_read(server, d.datagram, TRUE)}

\* The server reads; a segment that its adapter returns goes to the receiver.
\* No datagram outlives the numbers near its own (the maximum segment lifetime).
ServerReads(d) ==
  \E result \in Results(d) :
    /\ d \in to_server /\ Near(d.n)
    /\ server' = Emptied(result.adapter)
    /\ to_server' \in {to_server, to_server \ {d}}
    /\ to_client' \in Kept(to_client, Sent("server", 0, result.adapter.out))
    /\ heard' = [k \in DOMAIN result.segment |-> [origin |-> d.origin, n |-> d.n, segment |-> result.segment[k]]]
    /\ seqno' = IF result.segment = <<>> THEN seqno ELSE result.segment[1].header.seqno
    /\ UNCHANGED <<isn, checkpoint, client, written>>

ClientReads(d) ==
  LET result == read(client, d.datagram)
  IN  /\ d \in to_client
      /\ heard' = <<>>
      /\ client' = Emptied(result.adapter)
      /\ to_client' \in {to_client, to_client \ {d}}
      /\ to_server' \in Kept(to_server, Sent("client", written, result.adapter.out))
      /\ written' = IF client'.interface.waiting_dgrams = EmptyMap THEN 0 ELSE written
      /\ UNCHANGED <<isn, checkpoint, seqno, server>>

ReceiverAccepts == Accept /\ heard' = <<>> /\ UNCHANGED <<client, server, to_server, to_client, written>>

WireNext ==
  \/ \E n \in 0 .. MaxAbs + Reach, drop \in BOOLEAN : ClientWrites(n, drop)
  \/ ServerWrites
  \/ \E s \in Strangers, flags \in {{}, {"syn", "rst"}} : StrangerWrites(s, flags)
  \/ \E d \in to_server : ServerReads(d)
  \/ \E d \in to_client : ClientReads(d)
  \/ ReceiverAccepts

WireSpec == WireInit /\ [][WireNext]_wire_vars
-----------------------------------------------------------------------------
\* Equal in the fields that TCPHeader::operator== compares.
Same(x, y) ==
  x.payload = y.payload /\
  \A f \in {"seqno", "ackno", "doff", "flags", "win", "uptr"} : x.header[f] = y.header[f]

\* Every segment that read() hands to the connection is one that the client
\* wrote to it, unchanged, and the receiver unwraps its sequence number to the
\* absolute number it was sent with: neither a wrong bit nor another sender gets through,
\* although IPv4Datagram::parse() does not look at the verdict of
\* IPv4Header::parse() on the checksum, the version or the length of the header.
Intact ==
  heard # <<>> =>
    /\ heard[1].origin = "client" /\ Absolute = heard[1].n
    /\ Same(heard[1].segment, ClientSegment(heard[1].n))

CarriesSegment(d) == client.kind = "tap" => d.datagram.words[7] = FrameType.IPv4

\* Once the listener has adopted its peer, even from a SYN that the lossy
\* adapter then dropped, each end accepts every undamaged segment of the other:
\* ports and addresses are recorded the right way round.
PeersHearEachOther ==
  /\ \A d \in to_client : CarriesSegment(d) => read(client, d.datagram).segment # <<>>
  /\ \A d \in to_server :
       d.origin = "client" /\ ~server.listening /\ CarriesSegment(d)
         => read(server, d.datagram).segment # <<>>
=============================================================================
