------------------------------ MODULE MCServer ------------------------------
(***************************************************************************)
(* The instances of Server that TLC checks.                                *)
(***************************************************************************)
EXTENDS Server
=============================================================================
