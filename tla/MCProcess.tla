----------------------------- MODULE MCProcess ------------------------------
(***************************************************************************)
(* The instances of Process that TLC checks.                               *)
(***************************************************************************)
EXTENDS Process
=============================================================================
