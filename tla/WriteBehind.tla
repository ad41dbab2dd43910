----------------------------- MODULE WriteBehind ----------------------------
(***************************************************************************)
(* What the clients of the server are promised about the records they      *)
(* change: memory changes at once, and the disk follows by whole           *)
(* snapshots, each of them a state that memory really was in.              *)
(***************************************************************************)
CONSTANTS Keys, Values, Absent

VARIABLES
  memory,  (* the value of each key that is in effect                       *)
  disk     (* the value of each key that a restart would find               *)

vars == <<memory, disk>>

Init ==
  /\ memory \in [Keys -> Values \union {Absent}]
  /\ disk = memory

\* A key gets a value; it never loses the one it has for none.
Change(k, v) ==
  /\ memory' = [memory EXCEPT ![k] = v]
  /\ UNCHANGED disk

Save ==
  /\ disk' = memory
  /\ UNCHANGED memory

Next == (\E k \in Keys, v \in Values : Change(k, v)) \/ Save

Spec == Init /\ [][Next]_vars

\* A difference between the two does not last for ever unsaved.
LiveSpec == Spec /\ WF_vars(Save)
=============================================================================
