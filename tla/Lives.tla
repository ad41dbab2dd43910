-------------------------------- MODULE Lives --------------------------------
(***************************************************************************)
(* What module Process promises to those who only care for the data: a     *)
(* process loads its data before it binds the port, threads that change    *)
(* data run only while it has the port, one process at a time has it, and  *)
(* any process may end at any time.  How the lockfile, signals and the     *)
(* port bring this about is Process's business.                            *)
(***************************************************************************)
CONSTANT Starters  (* bound: the processes that start a server, each once   *)

VARIABLE life      (* the stage of each process                             *)

Stages == {"before", "init", "bind", "serving", "gone"}

Init == life = [p \in Starters |-> "before"]

Goto(p, from, to) ==
  /\ life[p] = from
  /\ life' = [life EXCEPT ![p] = to]

Begin(p) == Goto(p, "before", "init")
Load(p)  == Goto(p, "init", "bind")

Serve(p) ==
  /\ \A q \in Starters : life[q] # "serving"
  /\ Goto(p, "bind", "serving")

End(p) == \E stage \in Stages \ {"gone"} : Goto(p, stage, "gone")

Next == \E p \in Starters : Begin(p) \/ Load(p) \/ Serve(p) \/ End(p)

Spec == Init /\ [][Next]_life
=============================================================================
