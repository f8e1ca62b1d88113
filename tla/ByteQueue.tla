----------------------------- MODULE ByteQueue -----------------------------
(***************************************************************************)
(* What a ByteStream promises, as a state machine: the writer appends, the *)
(* reader removes from the front, never more than Capacity bytes are held, *)
(* and nothing is written after the end of the input.                      *)
(***************************************************************************)
EXTENDS ByteStream

CONSTANTS Capacity, Data

VARIABLES stream,
          io   \* what the last call was given by write() or returned by read()

vars == <<stream, io>>

Init == stream = NewStream(Capacity) /\ io = <<>>

Write(data) == ~stream.input_ended /\ stream' = WriteStream(stream, data) /\ io' = data

Read(len) ==
  /\ len <= BufferSize(stream)
  /\ stream' = PopStream(stream, len) /\ io' = PeekStream(stream, len)

End == stream' = EndInput(stream) /\ io' = <<>>

Fail == stream' = SetError(stream) /\ io' = <<>>

Next == (\E data \in Data : Write(data)) \/ (\E len \in 0..Capacity : Read(len)) \/ End \/ Fail

Spec == Init /\ [][Next]_vars
=============================================================================
