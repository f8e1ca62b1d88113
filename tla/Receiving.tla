----------------------------- MODULE Receiving -----------------------------
(***************************************************************************)
(* A TCPReceiver at work: a peer sends SYN, Length bytes (byte i is the    *)
(* number i) and FIN in segments that arrive in any order and any number   *)
(* of times, while the application reads.  Overrun is how many sequence    *)
(* numbers past the advertised window the peer may send: 0 for the         *)
(* TCPSender of this repository.                                           *)
(***************************************************************************)
EXTENDS TCPReceiver

CONSTANTS RecvCapacity, Length, MaxPayload, Isn, Overrun,
          Lag   \* bound: how far below the ackno a late duplicate may start

ASSUME ReceivingAssumption ==
  /\ RecvCapacity \in Nat \ {0} /\ Length \in Nat /\ MaxPayload \in Nat \ {0}
  /\ Isn \in Wrapping /\ Overrun \in Nat /\ Lag \in Nat
  /\ 2 * (2 * RecvCapacity + MaxPayload + Overrun + Lag) <= FACTOR
  /\ Length + FACTOR + 2 < FACTOR * FACTOR

VARIABLE rcv

ReceivingInit == rcv = NewReceiver(RecvCapacity)

\* Sequence space: 0 is SYN, i + 1 is byte i, Length + 1 is FIN.
Segment(first, last) ==
  [seqno |-> wrap(first, Isn), syn |-> first = 0, fin |-> last = Length + 1,
   payload |-> [k \in 1 .. Least(last, Length) - Greatest(first, 1) + 1
                  |-> Greatest(first, 1) + k - 2]]

RightEdge(t) == get_abs_ackno(t) + window_size(t)

\* What the peer may have sent: numbers inside the window (the window it is
\* told about never shrinks), or one number when the window is closed.
Permitted(first, last) ==
  \/ last < RightEdge(rcv) + Overrun
  \/ window_size(rcv) = 0 /\ first = last /\ first = get_abs_ackno(rcv)

Arrive(first, last) ==
  /\ first <= last /\ last <= Length + 1 /\ last - first < MaxPayload
  /\ get_abs_ackno(rcv) <= first + Lag
  /\ first > 0 => rcv.received_syn
  /\ Permitted(first, last)
  /\ rcv' = receiver_segment_received(rcv, Segment(first, last))

Read(len) ==
  /\ len <= BufferSize(stream_out(rcv))
  /\ rcv' = [rcv EXCEPT !.reassembler.output = PopStream(@, len)]

ReceivingNext ==
  \/ \E first, last \in 0 .. Length + 1 : Arrive(first, last)
  \/ \E len \in 1..RecvCapacity : Read(len)

ReceivingSpec == ReceivingInit /\ [][ReceivingNext]_rcv
-----------------------------------------------------------------------------
\* Bytes reach the application at their place although the sequence number
\* wraps several times on the way and duplicates move the checkpoint back.
BytesInPlace ==
  LET out == stream_out(rcv)
  IN  /\ out.queue = [k \in 1..BufferSize(out) |-> out.bytes_read + k - 1]
      /\ \A b \in DOMAIN rcv.reassembler.datas : rcv.reassembler.datas[b][1] = b

\* The right edge of the window (ackno + window_size, the first number that
\* "will not be accepted", tcp_receiver.hh) never moves left: what the peer
\* was allowed to send stays allowed.
WindowNeverShrinks == [][RightEdge(rcv)' >= RightEdge(rcv)]_rcv

\* The ackno passes the FIN only when the end of the stream has been handed
\* to the reader: it is "the first byte in the stream that the receiver
\* hasn't received" (tcp_receiver.hh).
AckedFinIsEnd == get_abs_ackno(rcv) = Length + 2 => stream_out(rcv).input_ended
=============================================================================
