------------------------------- MODULE MCReply -------------------------------
(***************************************************************************)
(* The instance of Reply that TLC checks: a buffer of eight characters, an *)
(* empty advertisement, one that fits to the last byte, and one with a     *)
(* line that does not fit; files that may not be opened.                  *)
(***************************************************************************)
EXTENDS Reply

MCAdTexts == {<<>>, <<4, 1>>, <<1, 9>>}
=============================================================================
