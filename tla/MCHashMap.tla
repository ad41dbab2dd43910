----------------------------- MODULE MCHashMap ------------------------------
(***************************************************************************)
(* The instance of HashMap that TLC checks: ints of four bits, and hashes  *)
(* that collide, among them the int that has no negation.                  *)
(***************************************************************************)
EXTENDS HashMap

FourBitHashes == {-8, -5, 4}
=============================================================================
