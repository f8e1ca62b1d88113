------------------------- MODULE StreamReassembler -------------------------
(***************************************************************************)
(* StreamReassembler (stream_reassembler.hh/.cc): substrings of a stream   *)
(* arrive in any order, overlapping and repeated; the bytes beyond the     *)
(* first gap are kept as disjoint slices, the contiguous ones are written  *)
(* to the output ByteStream.  The operators take a reassembler record and  *)
(* return the record after the call.                                       *)
(***************************************************************************)
EXTENDS ByteStream, FiniteSetsExt, Functions, TLC

NewReassembler(capacity) ==
  [output |-> NewStream(capacity), datas |-> <<>>, unasm_bytes |-> 0,
   next_index |-> 0, eof |-> FALSE, eof_index |-> 0]

\* datas_ maps the index of the first byte of a slice to its bytes.
Positions(datas, b) == b .. b + Len(datas[b]) - 1
Stored(datas) == UNION {Positions(datas, b) : b \in DOMAIN datas}
Without(datas, b) == Restrict(datas, DOMAIN datas \ {b})

\* emplace() and insert() leave a slice alone that is already there.
Inserted(datas, slices) ==
  [b \in DOMAIN datas \cup DOMAIN slices |-> IF b \in DOMAIN datas THEN datas[b] ELSE slices[b]]

TotalLength(datas) == MapThenSumSet(LAMBDA b : Len(datas[b]), DOMAIN datas)

check_eof(r) ==
  IF r.eof /\ r.next_index = r.eof_index THEN [r EXCEPT !.output = EndInput(@)] ELSE r

\* Mutant: the slices already stored are not cut out.
NeededOverlapping(datas, begin, end) == IF begin < end THEN begin :> end ELSE <<>>

\* Mutant: the loop over the stored slices ends at the first range.
NeededFirst(datas, begin, end) ==
  LET missing == (begin .. end - 1) \ Stored(datas)
      b == Min(missing)
  IN  IF missing = {} THEN <<>>
      ELSE b :> CHOOSE e \in b + 1 .. end : (b .. e - 1) \subseteq missing /\ e \notin missing

\* The maximal ranges of [begin, end) that no stored slice covers, as a map
\* from the first index of each to the index after it.
NeededRanges(datas, begin, end) ==
  LET missing == (begin .. end - 1) \ Stored(datas)
      starts == {i \in missing : i = begin \/ i - 1 \notin missing}
  IN  [b \in starts |-> CHOOSE e \in b + 1 .. end :
                          (b .. e - 1) \subseteq missing /\ e \notin missing]

\* Mutant: the bytes nearest to the gap are discarded.
DiscardLowest(datas, n) ==
  LET below(b) == TotalLength(Restrict(datas, {c \in DOMAIN datas : c < b}))
      cut(b) == Greatest(0, n - below(b))
      rest == {b \in DOMAIN datas : cut(b) < Len(datas[b])}
  IN  [b \in {c + cut(c) : c \in rest} |->
         LET c == CHOOSE d \in rest : d + cut(d) = b IN SubSeq(datas[c], cut(c) + 1, Len(datas[c]))]

\* Mutant: the slice where n is reached is dropped as a whole.
DiscardWhole(datas, n) ==
  LET above(b) == TotalLength(Restrict(datas, {c \in DOMAIN datas : c > b}))
  IN  Restrict(datas, {b \in DOMAIN datas : n <= above(b)})

\* Discards the n stored bytes with the highest indices: whole slices from
\* the last one on, then the tail of the slice where n is reached.
Discard(datas, n) ==
  LET above(b) == TotalLength(Restrict(datas, {c \in DOMAIN datas : c > b}))
      kept(b) == Len(datas[b]) - Greatest(0, n - above(b))
  IN  [b \in {c \in DOMAIN datas : kept(c) > 0} |-> SubSeq(datas[b], 1, kept(b))]

\* capacity_ bounds the bytes held in slices and in the output together.
remaining_memory(r) == r.output.capacity - (r.unasm_bytes + BufferSize(r.output))

insert_without_overlap(r, data, index) ==
  LET needed == NeededRanges(r.datas, index, index + Len(data))
      slices == [b \in DOMAIN needed |-> SubSeq(data, b - index + 1, needed[b] - index)]
      insert_size == TotalLength(slices)
      exceeded == Greatest(0, insert_size - remaining_memory(r))
  IN  [r EXCEPT !.datas = Discard(Inserted(r.datas, slices), exceeded),
                !.unasm_bytes = @ + insert_size - exceeded]

\* One turn of the loop of reassemble(), on the slice that begins at the gap.
\* The second case writes what fits and moves the slice without dropping the
\* bytes it wrote; the output is then full, and further turns change nothing.
Assemble(r) ==
  LET b == r.next_index
      data == r.datas[b]
      room == RemainingCapacity(r.output)
  IN  IF b \notin DOMAIN r.datas THEN r
      ELSE IF Len(data) <= room
      THEN check_eof([r EXCEPT !.output = WriteStream(@, data),
                               !.unasm_bytes = @ - Len(data),
                               !.next_index = @ + Len(data),
                               !.datas = Without(@, b)])
      ELSE [r EXCEPT !.output = WriteStream(@, data),
                     !.unasm_bytes = @ - room,
                     !.next_index = @ + room,
                     !.datas = Inserted(Without(@, b), b + room :> data)]

\* The loop takes at most one turn for every slice.
reassemble(r) ==
  LET last == Cardinality(DOMAIN r.datas)
      turn[k \in 0..last] == IF k = 0 THEN check_eof(r) ELSE Assemble(turn[k - 1])
  IN  turn[last]

push_substring(r, data, index, eof) ==
  LET end == index + Len(data)
      noted == IF eof /\ ~r.eof THEN [r EXCEPT !.eof = TRUE, !.eof_index = end] ELSE r
      ended == IF eof THEN check_eof(noted) ELSE noted
      begin == Greatest(index, r.next_index)
  IN  IF Len(data) = 0 \/ end <= r.next_index THEN ended
      ELSE reassemble(insert_without_overlap(ended, SubSeq(data, begin - index + 1, Len(data)), begin))
=============================================================================
