----------------------------- MODULE MCSending -----------------------------
(* Sending with the loop of fill_window() written out turn by turn, as a    *)
(* reference for the batch that DataBatch computes at once.                 *)
EXTENDS Sending

RECURSIVE FillLoop(_, _)
FillLoop(s, remaining_window_size) ==
  IF remaining_window_size = 0 \/ BufferSize(s.stream) = 0 \/ s.sent_all THEN s
  ELSE LET read_size == Least(Least(remaining_window_size, MAX_PAYLOAD_SIZE), BufferSize(s.stream))
           read == [s EXCEPT !.stream = PopStream(@, read_size)]
           send_eof == Eof(read.stream) /\ read_size < remaining_window_size
           payload == PeekStream(s.stream, read_size)
           sent == send(read, <<Outstanding(s, 0, FALSE, send_eof, payload)>>)
       IN  FillLoop([sent EXCEPT !.sent_all = send_eof],
                    remaining_window_size - read_size - Flag(send_eof))

\* The segments of one call of fill_window() are those of its loop, which
\* reads, decides on FIN and shrinks the window once per segment.
FillWindowIsLoop ==
  snd.sent_syn /\ ~snd.sent_all /\ WindowRoom(snd) > 0 /\ ~Eof(snd.stream)
    => fill_window(snd) = FillLoop(snd, WindowRoom(snd))
=============================================================================
