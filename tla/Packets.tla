------------------------------ MODULE Packets ------------------------------
(***************************************************************************)
(* The formats on the wire: Ethernet frames, ARP messages, IPv4 datagrams  *)
(* and TCP segments, parsed and serialized as the tcp_helpers do.  What is *)
(* on the wire is a sequence of 16-bit words; a payload is one too.  The   *)
(* parsers return what the code goes on with, which is not always the      *)
(* verdict of the header's own parse().                                    *)
(***************************************************************************)
EXTENDS Integers, FiniteSetsExt, SequencesExt

Word == 65536

\* NetParser and NetUnparser.  What lies beyond the end of the buffer reads
\* as 0; each format says when that is an error.
U16(buffer, k) == IF k <= Len(buffer) THEN buffer[k] ELSE 0
U32(buffer, k) == IF k < Len(buffer) THEN buffer[k] * Word + buffer[k + 1] ELSE 0
Rest(buffer, n) == SubSeq(buffer, n + 1, Len(buffer))
Unparse32(value) == <<value \div Word, value % Word>>
Zeros(n) == [k \in 1..n |-> 0]

\* InternetChecksum: the complement of the sum with its carries added in.
Checksum(initial, words) ==
  LET sum == FoldLeft(LAMBDA acc, w : acc + w, initial, words)
  IN  Word - 1 - (IF sum = 0 THEN 0 ELSE 1 + ((sum - 1) % (Word - 1)))
-----------------------------------------------------------------------------
FlagBit == [urg |-> 32, ack |-> 16, psh |-> 8, rst |-> 4, syn |-> 2, fin |-> 1]
FlagWord(flags) == MapThenSumSet(LAMBDA f : FlagBit[f], flags)
FlagsIn(word) == {f \in DOMAIN FlagBit : (word \div FlagBit[f]) % 2 = 1}

TCPHeader_serialize(h) ==
  <<h.sport, h.dport>> \o Unparse32(h.seqno) \o Unparse32(h.ackno)
    \o <<h.doff * 4096 + FlagWord(h.flags), h.win, h.cksum, h.uptr>> \o Zeros(2 * h.doff - 10)

TCPHeader_parse(p) ==
  [sport |-> U16(p, 1), dport |-> U16(p, 2), seqno |-> U32(p, 3), ackno |-> U32(p, 5),
   doff |-> U16(p, 7) \div 4096, flags |-> FlagsIn(U16(p, 7)),
   win |-> U16(p, 8), cksum |-> U16(p, 9), uptr |-> U16(p, 10)]

TCPSegment_serialize(seg, datagram_layer_checksum) ==
  LET cleared == TCPHeader_serialize([seg.header EXCEPT !.cksum = 0]) \o seg.payload
  IN  [cleared EXCEPT ![9] = Checksum(datagram_layer_checksum, cleared)]

\* A header that says it is shorter than 5 * 4 bytes is taken to have that
\* length: the verdict HeaderTooShort of TCPHeader::parse() is not looked at.
TCPSegment_parse(buffer, datagram_layer_checksum) ==
  LET header == TCPHeader_parse(buffer)
      length == 10 + (IF header.doff < 5 THEN 0 ELSE 2 * header.doff - 10)
  IN  IF Checksum(datagram_layer_checksum, buffer) # 0 THEN [result |-> "BadChecksum"]
      ELSE IF Len(buffer) < length THEN [result |-> "PacketTooShort"]
      ELSE [result |-> "NoError", segment |-> [header |-> header, payload |-> Rest(buffer, length)]]
-----------------------------------------------------------------------------
PROTO_TCP == 6

\* Left out: tos, id, fragment flags and offset, which keep their defaults
\* ("don't fragment" is one bit of the fourth word) and are never looked at.
NewIPv4Header ==
  [ver |-> 4, hlen |-> 5, len |-> 0, ttl |-> 128, proto |-> PROTO_TCP, cksum |-> 0,
   src |-> 0, dst |-> 0]

payload_length(h) == (h.len - 4 * h.hlen) % Word

\* Mutant of pseudo_cksum: the addresses are left out.
pseudo_without_addresses(h) == h.proto + payload_length(h)

pseudo_cksum(h) ==
  h.src \div Word + (h.src % Word) + h.dst \div Word + (h.dst % Word) + h.proto + payload_length(h)

IPv4Header_serialize(h) ==
  <<h.ver * 4096 + h.hlen * 256, h.len, 0, 16384, h.ttl * 256 + h.proto, h.cksum>>
    \o Unparse32(h.src) \o Unparse32(h.dst) \o Zeros(2 * h.hlen - 10)

IPv4Header_fields(p) ==
  [ver |-> p[1] \div 4096, hlen |-> (p[1] \div 256) % 16, len |-> p[2],
   ttl |-> p[5] \div 256, proto |-> p[5] % 256, cksum |-> p[6], src |-> U32(p, 7), dst |-> U32(p, 9)]

\* The verdict of IPv4Header::parse() ...
IPv4Header_verdict(p) ==
  LET h == IPv4Header_fields(p)
  IN  IF Len(p) < 10 \/ Len(p) < 2 * h.hlen THEN "PacketTooShort"
      ELSE IF h.ver # 4 THEN "WrongIPVersion"
      ELSE IF h.hlen < 5 THEN "HeaderTooShort"
      ELSE IF 2 * Len(p) # h.len THEN "TruncatedPacket"
      ELSE IF Checksum(0, SubSeq(p, 1, 2 * h.hlen)) # 0 THEN "BadChecksum" ELSE "NoError"

\* ... and how many words it has read.
IPv4Header_read(p) ==
  CASE Len(p) < 10 -> 0
    [] IPv4Header_verdict(p) \in {"BadChecksum", "NoError"} -> 2 * IPv4Header_fields(p).hlen
    [] OTHER -> 10

IPv4Datagram_serialize(dgram) ==
  LET cleared == IPv4Header_serialize([dgram.header EXCEPT !.cksum = 0])
  IN  [cleared EXCEPT ![6] = Checksum(0, cleared)] \o dgram.payload

\* Only the length of the payload decides: the verdict on the header, a bad
\* checksum included, is dropped.  A buffer too short for a header leaves the
\* default header, whose payload length no such buffer has.
IPv4Datagram_parse(buffer) ==
  LET payload == Rest(buffer, IPv4Header_read(buffer))
  IN  IF Len(buffer) < 10 THEN [result |-> "PacketTooShort"]
      ELSE [result |-> IF 2 * Len(payload) # payload_length(IPv4Header_fields(buffer))
                       THEN "PacketTooShort" ELSE "NoError",
            dgram |-> [header |-> IPv4Header_fields(buffer), payload |-> payload]]
-----------------------------------------------------------------------------
\* An Ethernet address is three words.
FrameType == [IPv4 |-> 2048, ARP |-> 2054]
Opcode == [REQUEST |-> 1, REPLY |-> 2]

ARPMessage_serialize(arp) ==
  <<1, FrameType.IPv4, 6 * 256 + 4, Opcode[arp.opcode]>>
    \o arp.sender_eth \o Unparse32(arp.sender_ip) \o arp.target_eth \o Unparse32(arp.target_ip)

supported(p) == SubSeq(p, 1, 3) = <<1, FrameType.IPv4, 6 * 256 + 4>> /\ p[4] \in {1, 2}

ARPMessage_parse(p) ==
  IF Len(p) < 14 THEN [result |-> "PacketTooShort"]
  ELSE IF ~supported(p) THEN [result |-> "Unsupported"]
  ELSE [result |-> "NoError",
        arp |-> [opcode |-> IF p[4] = 1 THEN "REQUEST" ELSE "REPLY",
                 sender_eth |-> SubSeq(p, 5, 7), sender_ip |-> U32(p, 8),
                 target_eth |-> SubSeq(p, 10, 12), target_ip |-> U32(p, 13)]]

EthernetHeader_serialize(h) == h.dst \o h.src \o <<FrameType[h.type]>>

EthernetHeader_parse(p) ==
  [dst |-> SubSeq(p, 1, 3), src |-> SubSeq(p, 4, 6),
   type |-> IF p[7] = FrameType.IPv4 THEN "IPv4" ELSE IF p[7] = FrameType.ARP THEN "ARP" ELSE "none"]

EthernetFrame_serialize(header, payload) == EthernetHeader_serialize(header) \o payload

\* A frame too short for a header keeps the default header, with no address
\* and no type, and is not an error either.
EthernetFrame_parse(p) ==
  IF Len(p) < 7 THEN [dst |-> Zeros(3), src |-> Zeros(3), type |-> "none", payload |-> p]
  ELSE [payload |-> Rest(p, 7)] @@ EthernetHeader_parse(p)
=============================================================================
