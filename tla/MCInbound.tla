----------------------------- MODULE MCInbound -----------------------------
(***************************************************************************)
(* The three layers a received byte passes, for TLC: TCPReceiver,          *)
(* StreamReassembler and the ring of ByteStream.  Every layer is driven on *)
(* its own, with every input its caller may give it; a behaviour takes the *)
(* steps of one layer, and the others stay as they were constructed.       *)
(***************************************************************************)
EXTENDS RingBuffer, Reassembly, Receiving, SequencesExt

CONSTANT MaxLen   \* bound: the longest string offered to the ring

MCData == BoundedSeq(Byte, MaxLen)

VARIABLE layer

MCInit ==
  /\ layer \in {"ring", "reassembler", "receiver"}
  /\ RingInit /\ ReassemblyInit /\ ReceivingInit
  /\ layer = "ring" \/ \A i, j \in Cell : inner_data[i] = inner_data[j]

MCNext ==
  \/ layer = "ring" /\ RingNext /\ UNCHANGED <<layer, r, rcv>>
  \/ layer = "reassembler" /\ ReassemblyNext /\ UNCHANGED <<layer, ringVars, rcv>>
  \/ layer = "receiver" /\ ReceivingNext /\ UNCHANGED <<layer, ringVars, r>>

MCSpec == MCInit /\ [][MCNext]_<<layer, ringVars, r, rcv>>
=============================================================================
