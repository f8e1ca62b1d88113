----------------------------- MODULE FdAdapter -----------------------------
(***************************************************************************)
(* The adapters between TCPConnection and a device (fd_adapter, tcp_over_ip*)
(* and tuntap_adapter in tcp_helpers): TCP in UDP payloads ("udp"), in     *)
(* IPv4 datagrams on a TUN device ("tun") or in Ethernet frames on a TAP   *)
(* device ("tap"), and the LossyFdAdapter around the first two.  An        *)
(* adapter is a record; out is what it wrote to its device.                *)
(***************************************************************************)
EXTENDS Packets, NetworkInterface

Address(ip, port) == [ip |-> ip, port |-> port]

NewAdapter(kind, source, destination, listening, eth, next_hop) ==
  [kind |-> kind, listening |-> listening, source |-> source, destination |-> destination,
   interface |-> NewInterface(eth, source.ip), next_hop |-> next_hop, out |-> <<>>]

\* A datagram as the device carries it, with the addresses that the kernel
\* keeps for a UDP socket.
Datagram(a, words) == [from |-> a.source, to |-> a.destination, words |-> words]

\* The frame with its payload in words.
FrameWords(f) ==
  EthernetFrame_serialize(f,
    IF f.type = "IPv4" THEN IPv4Datagram_serialize(f.payload) ELSE ARPMessage_serialize(f.payload))

send_pending(a) ==
  LET frames == a.interface.frames_out
  IN  [a EXCEPT !.out = @ \o [k \in DOMAIN frames |-> Datagram(a, FrameWords(frames[k]))],
                !.interface.frames_out = <<>>]

WithPorts(a, seg) ==
  [seg EXCEPT !.header.sport = a.source.port, !.header.dport = a.destination.port]

wrap_tcp_in_ip(a, seg) ==
  LET header == [NewIPv4Header EXCEPT !.src = a.source.ip, !.dst = a.destination.ip,
                                      !.len = 20 + seg.header.doff * 4 + 2 * Len(seg.payload)]
  IN  [header |-> header, payload |-> TCPSegment_serialize(WithPorts(a, seg), pseudo_cksum(header))]

write_udp(a, seg) ==
  [a EXCEPT !.out = Append(@, Datagram(a, TCPSegment_serialize(WithPorts(a, seg), 0)))]

write_tun(a, seg) ==
  [a EXCEPT !.out = Append(@, Datagram(a, IPv4Datagram_serialize(wrap_tcp_in_ip(a, seg))))]

write_tap(a, seg) ==
  send_pending([a EXCEPT !.interface = send_datagram(@, wrap_tcp_in_ip(a, seg), a.next_hop)])

write(a, seg) ==
  CASE a.kind = "udp" -> write_udp(a, seg)
    [] a.kind = "tun" -> write_tun(a, seg)
    [] a.kind = "tap" -> write_tap(a, seg)

\* What read() leaves behind: the adapter and the optional segment.
Nothing(a) == [adapter |-> a, segment |-> <<>>]
Something(a, seg) == [adapter |-> a, segment |-> <<seg>>]

\* A listening adapter takes the sender of the first SYN for its peer.
Adopts(a, seg) == a.listening /\ "syn" \in seg.header.flags /\ "rst" \notin seg.header.flags

read_udp(a, datagram) ==
  LET parsed == TCPSegment_parse(datagram.words, 0)
      seg == parsed.segment
  IN  IF \/ ~a.listening /\ datagram.from # a.destination
         \/ parsed.result # "NoError"
         \/ a.listening /\ ~Adopts(a, seg)
      THEN Nothing(a)
      ELSE IF Adopts(a, seg)
      THEN Something([a EXCEPT !.destination = datagram.from, !.listening = FALSE], seg)
      ELSE Something(a, seg)

\* Mutant of FromPeer: the port of the peer is not compared.
FromAnyPort(a, seg) == TRUE

FromPeer(a, seg) == seg.header.sport = a.destination.port

unwrap_tcp_in_ip(a, dgram) ==
  LET parsed == TCPSegment_parse(dgram.payload, pseudo_cksum(dgram.header))
      seg == parsed.segment
      adopted == [a EXCEPT !.source.ip = dgram.header.dst, !.listening = FALSE,
                           !.destination = Address(dgram.header.src, seg.header.sport)]
  IN  IF \/ ~a.listening /\ dgram.header.dst # a.source.ip
         \/ ~a.listening /\ dgram.header.src # a.destination.ip
         \/ dgram.header.proto # PROTO_TCP
         \/ parsed.result # "NoError"
         \/ seg.header.dport # a.source.port
         \/ a.listening /\ ~Adopts(a, seg)
      THEN Nothing(a)
      ELSE IF Adopts(a, seg) THEN Something(adopted, seg)
      ELSE IF FromPeer(a, seg) THEN Something(a, seg) ELSE Nothing(a)

read_tun(a, datagram) ==
  LET parsed == IPv4Datagram_parse(datagram.words)
  IN  IF parsed.result # "NoError" THEN Nothing(a) ELSE unwrap_tcp_in_ip(a, parsed.dgram)

\* recv_frame() parses the payload by the type of the frame.
read_tap(a, datagram) ==
  LET frame == EthernetFrame_parse(datagram.words)
      ip == IPv4Datagram_parse(frame.payload)
      arp == ARPMessage_parse(frame.payload)
      parses == \/ frame.type = "IPv4" /\ ip.result = "NoError"
                \/ frame.type = "ARP" /\ arp.result = "NoError"
      parsed == [frame EXCEPT !.payload = IF ~parses THEN <<>>
                                          ELSE IF frame.type = "IPv4" THEN ip.dgram ELSE arp.arp]
      returned == Returned(a.interface, parsed, parses)
      received == send_pending([a EXCEPT !.interface = recv_frame(@, parsed, parses)])
  IN  IF returned = <<>> THEN Nothing(received) ELSE unwrap_tcp_in_ip(received, returned[1])

read(a, datagram) ==
  CASE a.kind = "udp" -> read_udp(a, datagram)
    [] a.kind = "tun" -> read_tun(a, datagram)
    [] a.kind = "tap" -> read_tap(a, datagram)

\* LossyFdAdapter: what is read and then dropped has been read all the same.
lossy_read(a, datagram, drop) ==
  IF drop THEN Nothing(read(a, datagram).adapter) ELSE read(a, datagram)

lossy_write(a, seg, drop) == IF drop THEN a ELSE write(a, seg)
=============================================================================
