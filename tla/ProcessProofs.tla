--------------------------- MODULE ProcessProofs ----------------------------
(***************************************************************************)
(* The lockfile protocol of Process.c, for any number of processes: what   *)
(* TLC checks of module Process on three starters, proved.                 *)
(***************************************************************************)
EXTENDS Process, TLAPS

Creating == {"install", "create"}
Owning   == {"write", "init", "bind", "serving"}

(***************************************************************************)
(* As long as no creation has raced with another process: a starter that   *)
(* has passed its check still finds no lockfile, one that has created it   *)
(* still owns it, and no other starter owns it or may yet remove it.       *)
(***************************************************************************)
Unraced ==
  \A p \in Starters :
    /\ pc[p] \in Creating => lockfile = None
    /\ pc[p] = "write" => lockfile = Empty /\ p \in writers
    /\ pc[p] \in Owning \ {"write"} => lockfile = p
    /\ \A o \in Starters \ {p} :
         pc[p] \in Owning => pc[o] \notin Owning \union Ending

Inv == TypeOK /\ LockfileHasCause /\ (~raced => Unraced)

(***************************************************************************)
(* Type correctness is inductive.                                          *)
(***************************************************************************)
LEMMA TypeStep == TypeOK /\ [Next]_vars => TypeOK'
<1> SUFFICES ASSUME TypeOK, [Next]_vars PROVE TypeOK'
  OBVIOUS
<1> USE ProcessAssumption DEF TypeOK, Goto, End, Locked, Alive, Unhandled,
      Handled, Ending, Gone, StopPCs
<1>1. ASSUME NEW p \in Starters, Run(p) PROVE TypeOK'
  BY <1>1 DEF Run
<1>2. ASSUME NEW p \in Starters, SpawnHeadless(p) PROVE TypeOK'
  BY <1>2 DEF SpawnHeadless
<1>3. ASSUME NEW p \in Starters, CheckLockfile(p) PROVE TypeOK'
  BY <1>3 DEF CheckLockfile
<1>4. ASSUME NEW p \in Starters, Refuse(p) PROVE TypeOK'
  BY <1>4 DEF Refuse
<1>5. ASSUME NEW p \in Starters, InstallHandlers(p) PROVE TypeOK'
  BY <1>5 DEF InstallHandlers
<1>6. ASSUME NEW p \in Starters, OpenLockfile(p) PROVE TypeOK'
  BY <1>6 DEF OpenLockfile
<1>7. ASSUME NEW p \in Starters, WriteLockfile(p) PROVE TypeOK'
  BY <1>7 DEF WriteLockfile
<1>8. ASSUME NEW p \in Starters, Initialize(p) PROVE TypeOK'
  BY <1>8 DEF Initialize
<1>9. ASSUME NEW p \in Starters, StartServer(p) PROVE TypeOK'
  BY <1>9 DEF StartServer
<1>10. ASSUME NEW p \in Starters, StartFails(p) PROVE TypeOK'
  BY <1>10 DEF StartFails
<1>11. ASSUME NEW p \in Starters, EnterHandler(p) PROVE TypeOK'
  BY <1>11 DEF EnterHandler
<1>12. ASSUME NEW p \in Starters, DeleteLockfile(p) PROVE TypeOK'
  BY <1>12 DEF DeleteLockfile
<1>13. ASSUME NEW p \in Starters, Exit(p) PROVE TypeOK'
  BY <1>13 DEF Exit
<1>14. ASSUME NEW p \in Starters, DieOfSignal(p) PROVE TypeOK'
  BY <1>14 DEF DieOfSignal
<1>15. ASSUME NEW p \in Starters, Interrupt(p) PROVE TypeOK'
  BY <1>15 DEF Interrupt
<1>16. ASSUME NEW p \in Starters, Crash(p) PROVE TypeOK'
  BY <1>16 DEF Crash
<1>17. ASSUME NEW q \in Stoppers, ReadLockfile(q) PROVE TypeOK'
  BY <1>17 DEF ReadLockfile
<1>18. ASSUME NEW q \in Stoppers, NothingToStop(q) PROVE TypeOK'
  BY <1>18 DEF NothingToStop
<1>19. ASSUME NEW q \in Stoppers, Kill(q) PROVE TypeOK'
  BY <1>19 DEF Kill
<1>20. ASSUME NEW q \in Stoppers, KillFails(q) PROVE TypeOK'
  BY <1>20 DEF KillFails
<1>21. ASSUME UNCHANGED vars PROVE TypeOK'
  BY <1>21 DEF vars
<1>22. ASSUME NEW p \in Starters, HandleAgain(p) PROVE TypeOK'
  BY <1>22 DEF HandleAgain
<1> QED
  BY <1>1, <1>2, <1>3, <1>4, <1>5, <1>6, <1>7, <1>8, <1>9, <1>10, <1>11,
     <1>12, <1>13, <1>14, <1>15, <1>16, <1>17, <1>18, <1>19, <1>20, <1>21, <1>22
     DEF Next, StarterStep, SignalStep, StopperStep

(***************************************************************************)
(* A lockfile keeps its cause.                                             *)
(***************************************************************************)
LEMMA CauseStep ==
  TypeOK /\ LockfileHasCause /\ [Next]_vars => LockfileHasCause'
<1> SUFFICES ASSUME TypeOK, LockfileHasCause, [Next]_vars
             PROVE  LockfileHasCause'
  OBVIOUS
<1> USE ProcessAssumption DEF TypeOK, LockfileHasCause, Goto, End, Locked,
      Alive, Unhandled, Handled, Ending, Gone, StopPCs
<1>1. ASSUME NEW p \in Starters, Run(p) PROVE LockfileHasCause'
  BY <1>1 DEF Run
<1>2. ASSUME NEW p \in Starters, SpawnHeadless(p) PROVE LockfileHasCause'
  BY <1>2 DEF SpawnHeadless
<1>3. ASSUME NEW p \in Starters, CheckLockfile(p) PROVE LockfileHasCause'
  BY <1>3 DEF CheckLockfile
<1>4. ASSUME NEW p \in Starters, Refuse(p) PROVE LockfileHasCause'
  BY <1>4 DEF Refuse
<1>5. ASSUME NEW p \in Starters, InstallHandlers(p) PROVE LockfileHasCause'
  BY <1>5 DEF InstallHandlers
<1>6. ASSUME NEW p \in Starters, OpenLockfile(p) PROVE LockfileHasCause'
  BY <1>6 DEF OpenLockfile
<1>7. ASSUME NEW p \in Starters, WriteLockfile(p) PROVE LockfileHasCause'
  BY <1>7 DEF WriteLockfile
<1>8. ASSUME NEW p \in Starters, Initialize(p) PROVE LockfileHasCause'
  BY <1>8 DEF Initialize
<1>9. ASSUME NEW p \in Starters, StartServer(p) PROVE LockfileHasCause'
  BY <1>9 DEF StartServer
<1>10. ASSUME NEW p \in Starters, StartFails(p) PROVE LockfileHasCause'
  BY <1>10 DEF StartFails
<1>11. ASSUME NEW p \in Starters, EnterHandler(p) PROVE LockfileHasCause'
  BY <1>11 DEF EnterHandler
<1>12. ASSUME NEW p \in Starters, DeleteLockfile(p) PROVE LockfileHasCause'
  BY <1>12 DEF DeleteLockfile
<1>13. ASSUME NEW p \in Starters, Exit(p) PROVE LockfileHasCause'
  BY <1>13 DEF Exit
<1>14. ASSUME NEW p \in Starters, DieOfSignal(p) PROVE LockfileHasCause'
  BY <1>14 DEF DieOfSignal
<1>15. ASSUME NEW p \in Starters, Interrupt(p) PROVE LockfileHasCause'
  BY <1>15 DEF Interrupt
<1>16. ASSUME NEW p \in Starters, Crash(p) PROVE LockfileHasCause'
  BY <1>16 DEF Crash
<1>17. ASSUME NEW q \in Stoppers, ReadLockfile(q) PROVE LockfileHasCause'
  BY <1>17 DEF ReadLockfile
<1>18. ASSUME NEW q \in Stoppers, NothingToStop(q) PROVE LockfileHasCause'
  BY <1>18 DEF NothingToStop
<1>19. ASSUME NEW q \in Stoppers, Kill(q) PROVE LockfileHasCause'
  BY <1>19 DEF Kill
<1>20. ASSUME NEW q \in Stoppers, KillFails(q) PROVE LockfileHasCause'
  BY <1>20 DEF KillFails
<1>21. ASSUME UNCHANGED vars PROVE LockfileHasCause'
  BY <1>21 DEF vars
<1>22. ASSUME NEW p \in Starters, HandleAgain(p) PROVE LockfileHasCause'
  BY <1>22 DEF HandleAgain
<1> QED
  BY <1>1, <1>2, <1>3, <1>4, <1>5, <1>6, <1>7, <1>8, <1>9, <1>10, <1>11,
     <1>12, <1>13, <1>14, <1>15, <1>16, <1>17, <1>18, <1>19, <1>20, <1>21, <1>22
     DEF Next, StarterStep, SignalStep, StopperStep

(***************************************************************************)
(* A step that races with nobody keeps the lockfile in its owner's hands.  *)
(***************************************************************************)
LEMMA UnracedStep ==
  TypeOK /\ (~raced => Unraced) /\ [Next]_vars => (~raced' => Unraced')
<1> SUFFICES ASSUME TypeOK, ~raced => Unraced, [Next]_vars, ~raced'
             PROVE  Unraced'
  OBVIOUS
<1> USE ProcessAssumption DEF TypeOK, Unraced, Creating, Owning, Goto, End,
      Locked, Alive, Unhandled, Handled, Ending, Gone, StopPCs
<1>1. ASSUME NEW p \in Starters, Run(p) PROVE Unraced'
  BY <1>1 DEF Run
<1>2. ASSUME NEW p \in Starters, SpawnHeadless(p) PROVE Unraced'
  BY <1>2 DEF SpawnHeadless
<1>3. ASSUME NEW p \in Starters, CheckLockfile(p) PROVE Unraced'
  BY <1>3 DEF CheckLockfile
<1>4. ASSUME NEW p \in Starters, Refuse(p) PROVE Unraced'
  BY <1>4 DEF Refuse
<1>5. ASSUME NEW p \in Starters, InstallHandlers(p) PROVE Unraced'
  BY <1>5 DEF InstallHandlers
<1>6. ASSUME NEW p \in Starters, OpenLockfile(p) PROVE Unraced'
  <2>1. raced' = (raced \/ \E o \in Starters \ {p} :
                             pc[o] \in {"install", "create"} \union Ending)
    BY <1>6 DEF OpenLockfile
  <2>2. ~raced /\ \A o \in Starters \ {p} :
                   pc[o] \notin Creating \union Ending
    BY <2>1, Zenon DEF Creating
  <2>3. /\ pc[p] = "create" /\ pc'[p] = "write"
        /\ \A o \in Starters \ {p} : pc'[o] = pc[o]
        /\ lockfile = None /\ lockfile' = Empty /\ p \in writers'
    BY <1>6, <2>2 DEF OpenLockfile
  <2>4. \A o \in Starters : pc[o] \notin Owning
    BY <2>2, <2>3
  <2> QED
    BY <2>2, <2>3, <2>4
<1>7. ASSUME NEW p \in Starters, WriteLockfile(p) PROVE Unraced'
  BY <1>7 DEF WriteLockfile
<1>8. ASSUME NEW p \in Starters, Initialize(p) PROVE Unraced'
  BY <1>8 DEF Initialize
<1>9. ASSUME NEW p \in Starters, StartServer(p) PROVE Unraced'
  BY <1>9 DEF StartServer
<1>10. ASSUME NEW p \in Starters, StartFails(p) PROVE Unraced'
  BY <1>10 DEF StartFails
<1>11. ASSUME NEW p \in Starters, EnterHandler(p) PROVE Unraced'
  BY <1>11 DEF EnterHandler
<1>12. ASSUME NEW p \in Starters, DeleteLockfile(p) PROVE Unraced'
  BY <1>12 DEF DeleteLockfile
<1>13. ASSUME NEW p \in Starters, Exit(p) PROVE Unraced'
  BY <1>13 DEF Exit
<1>14. ASSUME NEW p \in Starters, DieOfSignal(p) PROVE Unraced'
  BY <1>14 DEF DieOfSignal
<1>15. ASSUME NEW p \in Starters, Interrupt(p) PROVE Unraced'
  BY <1>15 DEF Interrupt
<1>16. ASSUME NEW p \in Starters, Crash(p) PROVE Unraced'
  BY <1>16 DEF Crash
<1>17. ASSUME NEW q \in Stoppers, ReadLockfile(q) PROVE Unraced'
  BY <1>17 DEF ReadLockfile
<1>18. ASSUME NEW q \in Stoppers, NothingToStop(q) PROVE Unraced'
  BY <1>18 DEF NothingToStop
<1>19. ASSUME NEW q \in Stoppers, Kill(q) PROVE Unraced'
  BY <1>19 DEF Kill
<1>20. ASSUME NEW q \in Stoppers, KillFails(q) PROVE Unraced'
  BY <1>20 DEF KillFails
<1>21. ASSUME UNCHANGED vars PROVE Unraced'
  BY <1>21 DEF vars
<1>22. ASSUME NEW p \in Starters, HandleAgain(p) PROVE Unraced'
  BY <1>22 DEF HandleAgain
<1> QED
  BY <1>1, <1>2, <1>3, <1>4, <1>5, <1>6, <1>7, <1>8, <1>9, <1>10, <1>11,
     <1>12, <1>13, <1>14, <1>15, <1>16, <1>17, <1>18, <1>19, <1>20, <1>21, <1>22
     DEF Next, StarterStep, SignalStep, StopperStep

LEMMA InitInv == Init => Inv
  BY ProcessAssumption DEF Init, Inv, TypeOK, LockfileHasCause, Unraced,
     Creating, Owning, StopPCs, Alive, Unhandled, Handled, Ending, Gone

LEMMA InvHolds == Spec => []Inv
<1>1. Inv /\ [Next]_vars => Inv'
  BY TypeStep, CauseStep, UnracedStep DEF Inv
<1> QED
  BY <1>1, InitInv, PTL DEF Spec

(***************************************************************************)
(* Type correctness of the lockfile protocol; among others, a stopper only *)
(* ever signals a process id that it has read.                             *)
(***************************************************************************)
THEOREM TypeCorrect == Spec => []TypeOK
<1>1. Inv => TypeOK
  BY DEF Inv
<1> QED
  BY <1>1, InvHolds, PTL

(***************************************************************************)
(* Without a creation that races, stop finds the server (Process.c:158 and *)
(* File.c:203 and 214).                                                    *)
(***************************************************************************)
THEOREM ServerIsNamed == Spec => []LockfileNamesServer
<1>1. Inv => LockfileNamesServer
  BY DEF Inv, Unraced, LockfileNamesServer, Owning
<1> QED
  BY <1>1, InvHolds, PTL

(***************************************************************************)
(* A lockfile outlives its process only if that failed or was killed.      *)
(***************************************************************************)
THEOREM LockfileIsExplained == Spec => []LockfileHasCause
<1>1. Inv => LockfileHasCause
  BY DEF Inv
<1> QED
  BY <1>1, InvHolds, PTL

-----------------------------------------------------------------------------
(***************************************************************************)
(* The refinement of Lives.  The process that has the port is serving or   *)
(* on its way out, and nobody else serves.                                 *)
(***************************************************************************)
PortHeld ==
  /\ TypeOK
  /\ \A p \in Starters :
       /\ port = p => pc[p] \in {"serving", "handler", "exit"}
       /\ pc[p] = "serving" => port = p

LEMMA PortStep == PortHeld /\ [Next]_vars => PortHeld'
<1> SUFFICES ASSUME PortHeld, [Next]_vars PROVE PortHeld'
  OBVIOUS
<1>0. TypeOK /\ TypeOK'
  BY TypeStep DEF PortHeld
<1> USE <1>0, ProcessAssumption DEF PortHeld, TypeOK, Goto, End, Alive,
      Unhandled, Handled, Ending, Gone, StopPCs
<1>1. ASSUME NEW p \in Starters, Run(p) PROVE PortHeld'
  BY <1>1 DEF Run
<1>2. ASSUME NEW p \in Starters, SpawnHeadless(p) PROVE PortHeld'
  BY <1>2 DEF SpawnHeadless
<1>3. ASSUME NEW p \in Starters, CheckLockfile(p) PROVE PortHeld'
  BY <1>3 DEF CheckLockfile
<1>4. ASSUME NEW p \in Starters, Refuse(p) PROVE PortHeld'
  BY <1>4 DEF Refuse
<1>5. ASSUME NEW p \in Starters, InstallHandlers(p) PROVE PortHeld'
  BY <1>5 DEF InstallHandlers
<1>6. ASSUME NEW p \in Starters, OpenLockfile(p) PROVE PortHeld'
  BY <1>6 DEF OpenLockfile
<1>7. ASSUME NEW p \in Starters, WriteLockfile(p) PROVE PortHeld'
  BY <1>7 DEF WriteLockfile
<1>8. ASSUME NEW p \in Starters, Initialize(p) PROVE PortHeld'
  BY <1>8 DEF Initialize
<1>9. ASSUME NEW p \in Starters, StartServer(p) PROVE PortHeld'
  BY <1>9 DEF StartServer
<1>10. ASSUME NEW p \in Starters, StartFails(p) PROVE PortHeld'
  BY <1>10 DEF StartFails
<1>11. ASSUME NEW p \in Starters, EnterHandler(p) PROVE PortHeld'
  BY <1>11 DEF EnterHandler
<1>12. ASSUME NEW p \in Starters, DeleteLockfile(p) PROVE PortHeld'
  BY <1>12 DEF DeleteLockfile
<1>13. ASSUME NEW p \in Starters, Exit(p) PROVE PortHeld'
  BY <1>13 DEF Exit
<1>14. ASSUME NEW p \in Starters, DieOfSignal(p) PROVE PortHeld'
  BY <1>14 DEF DieOfSignal
<1>15. ASSUME NEW p \in Starters, Interrupt(p) PROVE PortHeld'
  BY <1>15 DEF Interrupt
<1>16. ASSUME NEW p \in Starters, Crash(p) PROVE PortHeld'
  BY <1>16 DEF Crash
<1>17. ASSUME NEW q \in Stoppers, StopperStep(q) PROVE PortHeld'
  BY <1>17 DEF StopperStep, ReadLockfile, NothingToStop, Kill, KillFails
<1>18. ASSUME UNCHANGED vars PROVE PortHeld'
  BY <1>18 DEF vars
<1>19. ASSUME NEW p \in Starters, HandleAgain(p) PROVE PortHeld'
  BY <1>19 DEF HandleAgain
<1> QED
  BY <1>1, <1>2, <1>3, <1>4, <1>5, <1>6, <1>7, <1>8, <1>9, <1>10, <1>11,
     <1>12, <1>13, <1>14, <1>15, <1>16, <1>17, <1>18, <1>19
     DEF Next, StarterStep, SignalStep

(***************************************************************************)
(* A step of one process changes the life of that process only; and the    *)
(* step from one stage to another is a step of Lives.                      *)
(***************************************************************************)
LEMMA LifeGoes ==
  ASSUME NEW p \in Starters, NEW from, NEW to,
         LifeOf(p) = from, LifeOf(p)' = to,
         \A q \in Starters \ {p} : LifeOf(q)' = LifeOf(q)
  PROVE  L!Goto(p, from, to)
  BY DEF L!Goto, life

LEMMA LifeStays ==
  ASSUME \A q \in Starters : LifeOf(q)' = LifeOf(q)
  PROVE  UNCHANGED life
  BY DEF life

LEMMA LifeEnds ==
  ASSUME NEW p \in Starters, LifeOf(p)' = "gone",
         \A q \in Starters \ {p} : LifeOf(q)' = LifeOf(q)
  PROVE  L!End(p) \/ UNCHANGED life
<1>1. CASE LifeOf(p) = "gone"
  BY <1>1, LifeStays
<1>2. CASE LifeOf(p) # "gone"
  <2>1. L!Goto(p, LifeOf(p), "gone")
    BY LifeGoes
  <2>2. LifeOf(p) \in L!Stages \ {"gone"}
    BY <1>2 DEF LifeOf, L!Stages
  <2> QED
    BY <2>1, <2>2 DEF L!End
<1> QED
  BY <1>1, <1>2

LEMMA LivesStep ==
  PortHeld /\ PortHeld' /\ [Next]_vars => L!Next \/ UNCHANGED life
<1> SUFFICES ASSUME PortHeld, PortHeld', [Next]_vars
             PROVE  L!Next \/ UNCHANGED life
  OBVIOUS
<1> USE ProcessAssumption DEF PortHeld, TypeOK, Goto, End, Alive, Unhandled,
      Handled, Ending, Gone, StopPCs, LifeOf, Before
<1>1. ASSUME NEW p \in Starters, Run(p) PROVE L!Next \/ UNCHANGED life
  BY <1>1, LifeStays DEF Run
<1>2. ASSUME NEW p \in Starters, SpawnHeadless(p) PROVE L!Next \/ UNCHANGED life
  BY <1>2, LifeStays DEF SpawnHeadless
<1>3. ASSUME NEW p \in Starters, CheckLockfile(p) PROVE L!Next \/ UNCHANGED life
  BY <1>3, LifeStays DEF CheckLockfile
<1>4. ASSUME NEW p \in Starters, Refuse(p) PROVE L!Next \/ UNCHANGED life
  <2>1. LifeOf(p)' = "gone"
    BY <1>4 DEF Refuse
  <2>2. \A q \in Starters \ {p} : LifeOf(q)' = LifeOf(q)
    BY <1>4 DEF Refuse
  <2> QED
    BY <2>1, <2>2, LifeEnds DEF L!Next
<1>5. ASSUME NEW p \in Starters, InstallHandlers(p)
      PROVE  L!Next \/ UNCHANGED life
  BY <1>5, LifeStays DEF InstallHandlers
<1>6. ASSUME NEW p \in Starters, OpenLockfile(p) PROVE L!Next \/ UNCHANGED life
  BY <1>6, LifeStays DEF OpenLockfile
<1>7. ASSUME NEW p \in Starters, WriteLockfile(p) PROVE L!Next \/ UNCHANGED life
  <2>1. LifeOf(p) = "before" /\ LifeOf(p)' = "init"
    BY <1>7 DEF WriteLockfile
  <2>2. \A q \in Starters \ {p} : LifeOf(q)' = LifeOf(q)
    BY <1>7 DEF WriteLockfile
  <2>3. L!Goto(p, "before", "init")
    BY <2>1, <2>2, LifeGoes
  <2> QED
    BY <2>3 DEF L!Next, L!Begin
<1>8. ASSUME NEW p \in Starters, Initialize(p) PROVE L!Next \/ UNCHANGED life
  <2>1. LifeOf(p) = "init" /\ LifeOf(p)' = "bind"
    BY <1>8 DEF Initialize
  <2>2. \A q \in Starters \ {p} : LifeOf(q)' = LifeOf(q)
    BY <1>8 DEF Initialize
  <2>3. L!Goto(p, "init", "bind")
    BY <2>1, <2>2, LifeGoes
  <2> QED
    BY <2>3 DEF L!Next, L!Load
<1>9. ASSUME NEW p \in Starters, StartServer(p) PROVE L!Next \/ UNCHANGED life
  <2>1. LifeOf(p) = "bind" /\ LifeOf(p)' = "serving"
    BY <1>9 DEF StartServer
  <2>2. \A q \in Starters \ {p} : LifeOf(q)' = LifeOf(q)
    BY <1>9 DEF StartServer
  <2>3. \A q \in Starters : LifeOf(q) # "serving"
    BY <1>9 DEF StartServer
  <2>4. L!Goto(p, "bind", "serving")
    BY <2>1, <2>2, LifeGoes
  <2>5. \A q \in Starters : life[q] # "serving"
    BY <2>3 DEF life
  <2> QED
    BY <2>4, <2>5 DEF L!Next, L!Serve
<1>10. ASSUME NEW p \in Starters, StartFails(p) PROVE L!Next \/ UNCHANGED life
  <2>1. LifeOf(p)' = "gone"
    BY <1>10 DEF StartFails
  <2>2. \A q \in Starters \ {p} : LifeOf(q)' = LifeOf(q)
    BY <1>10 DEF StartFails
  <2> QED
    BY <2>1, <2>2, LifeEnds DEF L!Next
<1>11. ASSUME NEW p \in Starters, EnterHandler(p) PROVE L!Next \/ UNCHANGED life
  <2>1. \A q \in Starters \ {p} : LifeOf(q)' = LifeOf(q)
    BY <1>11 DEF EnterHandler
  <2>2. CASE port = p
    BY <1>11, <2>1, <2>2, LifeStays DEF EnterHandler
  <2>3. CASE port # p
    <3>1. LifeOf(p)' = "gone"
      BY <1>11, <2>3 DEF EnterHandler
    <3> QED
      BY <2>1, <3>1, LifeEnds DEF L!Next
  <2> QED
    BY <2>2, <2>3
<1>12. ASSUME NEW p \in Starters, DeleteLockfile(p)
      PROVE  L!Next \/ UNCHANGED life
  BY <1>12, LifeStays DEF DeleteLockfile
<1>13. ASSUME NEW p \in Starters, Exit(p) PROVE L!Next \/ UNCHANGED life
  <2>1. LifeOf(p)' = "gone"
    BY <1>13 DEF Exit
  <2>2. \A q \in Starters \ {p} : LifeOf(q)' = LifeOf(q)
    BY <1>13 DEF Exit
  <2> QED
    BY <2>1, <2>2, LifeEnds DEF L!Next
<1>14. ASSUME NEW p \in Starters, DieOfSignal(p) PROVE L!Next \/ UNCHANGED life
  <2>1. LifeOf(p)' = "gone"
    BY <1>14 DEF DieOfSignal
  <2>2. \A q \in Starters \ {p} : LifeOf(q)' = LifeOf(q)
    BY <1>14 DEF DieOfSignal
  <2> QED
    BY <2>1, <2>2, LifeEnds DEF L!Next
<1>15. ASSUME NEW p \in Starters, Interrupt(p) PROVE L!Next \/ UNCHANGED life
  BY <1>15, LifeStays DEF Interrupt
<1>16. ASSUME NEW p \in Starters, Crash(p) PROVE L!Next \/ UNCHANGED life
  <2>1. LifeOf(p)' = "gone"
    BY <1>16 DEF Crash
  <2>2. \A q \in Starters \ {p} : LifeOf(q)' = LifeOf(q)
    BY <1>16 DEF Crash
  <2> QED
    BY <2>1, <2>2, LifeEnds DEF L!Next
<1>17. ASSUME NEW q \in Stoppers, StopperStep(q) PROVE UNCHANGED life
  BY <1>17, LifeStays
     DEF StopperStep, ReadLockfile, NothingToStop, Kill, KillFails
<1>18. ASSUME UNCHANGED vars PROVE UNCHANGED life
  BY <1>18, LifeStays DEF vars
<1>19. ASSUME NEW p \in Starters, HandleAgain(p) PROVE UNCHANGED life
  BY <1>19, LifeStays DEF HandleAgain
<1> QED
  BY <1>1, <1>2, <1>3, <1>4, <1>5, <1>6, <1>7, <1>8, <1>9, <1>10, <1>11,
     <1>12, <1>13, <1>14, <1>15, <1>16, <1>17, <1>18, <1>19
     DEF Next, StarterStep, SignalStep

(***************************************************************************)
(* Process implements Lives, for any number of processes: what Registry    *)
(* shows of the registered file rests on no more than this.                *)
(***************************************************************************)
THEOREM ProcessImplementsLives == Spec => ImplementsLives
<1>1. Init => PortHeld /\ L!Init
  BY InitInv, ProcessAssumption
     DEF Inv, PortHeld, Init, L!Init, life, LifeOf, Before
<1>2. PortHeld /\ PortHeld' /\ [Next]_vars => [L!Next]_life
  BY LivesStep
<1> QED
  BY <1>1, <1>2, PortStep, PTL DEF Spec, ImplementsLives, L!Spec
=============================================================================
