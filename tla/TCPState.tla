------------------------------ MODULE TCPState ------------------------------
(***************************************************************************)
(* TCPState (tcp_state.hh/.cc): the "official" state of a connection, read *)
(* off its sender, its receiver and its two flags.                         *)
(***************************************************************************)
EXTENDS TCPConnection, Relation

receiver_summary(t) ==
  CASE stream_out(t).error -> "ERROR"
    [] ~stream_out(t).error /\ ~has_ackno(t) -> "LISTEN"
    [] ~stream_out(t).error /\ has_ackno(t) /\ stream_out(t).input_ended -> "FIN_RECV"
    [] OTHER -> "SYN_RECV"

sender_summary(s) ==
  IF s.stream.error THEN "ERROR"
  ELSE IF s.next_seqno = 0 THEN "CLOSED"
  ELSE IF s.next_seqno = s.bytes_in_flight THEN "SYN_SENT"
  ELSE IF ~Eof(s.stream) \/ s.next_seqno < s.stream.bytes_written + 2 THEN "SYN_ACKED"
  ELSE IF s.bytes_in_flight > 0 THEN "FIN_SENT" ELSE "FIN_ACKED"

\* TCPConnection::state()
state(c) == [sender |-> sender_summary(c.sender), receiver |-> receiver_summary(c.receiver),
             active |-> c.active, linger |-> c.active /\ c.linger_after_streams_finish]

Official(sender, receiver, active, linger) ==
  [sender |-> sender, receiver |-> receiver, active |-> active, linger |-> linger]

\* The states that have a name, and the name's meaning.
State ==
  [LISTEN      |-> Official("CLOSED", "LISTEN", TRUE, TRUE),
   SYN_RCVD    |-> Official("SYN_SENT", "SYN_RECV", TRUE, TRUE),
   SYN_SENT    |-> Official("SYN_SENT", "LISTEN", TRUE, TRUE),
   ESTABLISHED |-> Official("SYN_ACKED", "SYN_RECV", TRUE, TRUE),
   CLOSE_WAIT  |-> Official("SYN_ACKED", "FIN_RECV", TRUE, FALSE),
   LAST_ACK    |-> Official("FIN_SENT", "FIN_RECV", TRUE, FALSE),
   CLOSING     |-> Official("FIN_SENT", "FIN_RECV", TRUE, TRUE),
   FIN_WAIT_1  |-> Official("FIN_SENT", "SYN_RECV", TRUE, TRUE),
   FIN_WAIT_2  |-> Official("FIN_ACKED", "SYN_RECV", TRUE, TRUE),
   TIME_WAIT   |-> Official("FIN_ACKED", "FIN_RECV", TRUE, TRUE),
   RESET       |-> Official("ERROR", "ERROR", FALSE, FALSE),
   CLOSED      |-> Official("FIN_ACKED", "FIN_RECV", FALSE, FALSE)]

\* A state the table leaves out: the peer's FIN came when all of our own stream
\* had been read into segments but our FIN had not been sent.
CloseWaitLingering == Official("SYN_ACKED", "FIN_RECV", TRUE, TRUE)

\* The arrows of the diagram of RFC 793, by the names of the table.
Arrows ==
  {<<"LISTEN", "SYN_RCVD">>, <<"LISTEN", "SYN_SENT">>, <<"SYN_SENT", "SYN_RCVD">>,
   <<"SYN_SENT", "ESTABLISHED">>, <<"SYN_RCVD", "ESTABLISHED">>,
   <<"ESTABLISHED", "FIN_WAIT_1">>, <<"ESTABLISHED", "CLOSE_WAIT">>,
   <<"FIN_WAIT_1", "FIN_WAIT_2">>, <<"FIN_WAIT_1", "CLOSING">>,
   <<"FIN_WAIT_2", "TIME_WAIT">>, <<"CLOSING", "TIME_WAIT">>, <<"TIME_WAIT", "CLOSED">>,
   <<"CLOSE_WAIT", "LAST_ACK">>, <<"LAST_ACK", "CLOSED">>}
=============================================================================
