----------------------------- MODULE MCExchange ------------------------------
(***************************************************************************)
(* The instance of Exchange that TLC checks: buffers of three bytes, in    *)
(* which a word has at most two pieces, and two commands with the same     *)
(* first piece.  47115 is 3000 in the order of the network, and 65536 is 0  *)
(* in a sin_port.                                                          *)
(***************************************************************************)
EXTENDS Exchange

CONSTANT NotANumber

Line(k, v) == [key |-> k, blank |-> TRUE, value |-> v]

NoPort        == <<Line("receive_buffer_size", 2),
                   Line("send_buffer_size", 5)>>
NoReceiveSize == <<Line("port", 3000), Line("send_buffer_size", 5)>>
NoBlank       == <<[Line("port", 3000) EXCEPT !.blank = FALSE]>>

MCFiles ==
  {default_settings,
   <<Line("port", 80), Line("port", 3000),
     Line("receive_buffer_size", NotANumber), Line("send_buffer_size", 4)>>,
   NoPort,
   <<Line("port", NotANumber), Line("receive_buffer_size", 4),
     Line("send_buffer_size", 2)>>,
   <<Line("port", 65536), Line("receive_buffer_size", 3)>>,
   NoReceiveSize, NoBlank}

\* What ServesAsDocumented speaks of.
MCDocumented == {NoPort, NoReceiveSize, NoBlank}

MCIds      == {<<"ce">>}
MCCommands == {<<"random-", "gpa">>, <<"random-", "age">>}
MCExit     == <<"exit">>
MCQuit     == <<"quit">>
=============================================================================
