------------------------------ MODULE Process -------------------------------
(***************************************************************************)
(* Process.c and the lockfile of File.c: processes of the same program     *)
(* that start a server (from a terminal or headlessly) and processes that  *)
(* stop it, seen from outside.  What the server does while it serves is    *)
(* module Server.                                                          *)
(*                                                                         *)
(* The operating system is external: signals are delivered between any two *)
(* steps, a process may be killed at any time (a crash, SIGKILL, or the    *)
(* SIGPIPE of a send to a client that is gone), one process at a time can  *)
(* be bound to the port, and process ids are not used again.               *)
(***************************************************************************)
EXTENDS Integers

CONSTANTS
  Starters,  (* bound: the processes that start a server, each of them once *)
  Stoppers,  (* bound: the processes that run "server stop", each once      *)
  None,      (* no lockfile; no process                                     *)
  Empty      (* a lockfile that fopen has created or truncated              *)

ASSUME ProcessAssumption ==
  /\ Starters \intersect Stoppers = {}
  /\ None \notin Starters \union Stoppers
  /\ Empty \notin Starters \union Stoppers \union {None}

VARIABLES
  pc,        (* where each process is                                       *)
  lockfile,  (* None, Empty or the process id in it                         *)
  writers,   (* the starters whose open FILE is the present lockfile        *)
  port,      (* the process that is bound to the port                       *)
  pending,   (* the starters with a SIGTERM or SIGINT to be delivered       *)
  target,    (* the process id that a stopper has read                      *)
  raced      (* history: a lockfile was created while another process was   *)
             (* between its check and its own creation, or between entering *)
             (* its handler and its end, when a handler of its may still    *)
             (* remove whatever lockfile there is                           *)

vars == <<pc, lockfile, writers, port, pending, target, raced>>

Unhandled == {"headless", "check", "install"}
Handled   == {"create", "write", "init", "bind", "serving"}
Ending    == {"handler", "exit"}
Alive     == Unhandled \union Handled \union Ending
Gone      == {"refused", "failed", "killed", "exited"}
StopPCs   == {"idle", "kill", "terminated", "not_running", "no_pid"}

Init ==
  /\ pc = [p \in Starters \union Stoppers |-> "idle"]
  /\ lockfile = None
  /\ writers = {}
  /\ port = None
  /\ pending = {}
  /\ target = [q \in Stoppers |-> None]
  /\ raced = FALSE

Goto(p, from, to) ==
  /\ pc[p] = from
  /\ pc' = [pc EXCEPT ![p] = to]

\* The process ends, and the system closes what it had open.
End(p, from, to) ==
  /\ Goto(p, from, to)
  /\ writers' = writers \ {p}
  /\ port' = IF port = p THEN None ELSE port
  /\ pending' = pending \ {p}

\* FileStatus(LOCKFILE) > 0
Locked == lockfile # None

(***************************************************************************)
(* Starting: main, RunHeadless and RunCommand.                             *)
(***************************************************************************)
Run(p) ==
  /\ Goto(p, "idle", "check") \/ Goto(p, "idle", "headless")
  /\ UNCHANGED <<lockfile, writers, port, pending, target, raced>>

\* The process that RunHeadless starts runs RunCommand and checks again.
SpawnHeadless(p) ==
  /\ ~Locked
  /\ Goto(p, "headless", "check")
  /\ UNCHANGED <<lockfile, writers, port, pending, target, raced>>

\* Mutant of CheckLockfile: RunCommand relies on the check of RunHeadless.
SkipCheck(p) ==
  /\ Goto(p, "check", "install")
  /\ UNCHANGED <<lockfile, writers, port, pending, target, raced>>

CheckLockfile(p) ==
  /\ ~Locked
  /\ Goto(p, "check", "install")
  /\ UNCHANGED <<lockfile, writers, port, pending, target, raced>>

\* "Server process already running."
Refuse(p) ==
  /\ Locked
  /\ End(p, "headless", "refused") \/ End(p, "check", "refused")
  /\ UNCHANGED <<lockfile, target, raced>>

InstallHandlers(p) ==
  /\ Goto(p, "install", "create")
  /\ UNCHANGED <<lockfile, writers, port, pending, target, raced>>

\* CreateLockfile: fopen(LOCKFILE, "w") truncates a file that is there.
OpenLockfile(p) ==
  /\ Goto(p, "create", "write")
  /\ lockfile' = Empty
  /\ writers' = writers \union {p}
  /\ raced' = (raced \/ \E o \in Starters \ {p} :
                            pc[o] \in {"install", "create"} \union Ending)
  /\ UNCHANGED <<port, pending, target>>

\* Mutant of WriteLockfile: no fclose, so the process id stays in the buffer.
WriteUnflushed(p) ==
  /\ Goto(p, "write", "init")
  /\ UNCHANGED <<lockfile, writers, port, pending, target, raced>>

\* fprintf and fclose: lost if the file has been removed under the FILE.
WriteLockfile(p) ==
  /\ Goto(p, "write", "init")
  /\ lockfile' = IF p \in writers THEN p ELSE lockfile
  /\ writers' = writers \ {p}
  /\ UNCHANGED <<port, pending, target, raced>>

Initialize(p) ==
  /\ Goto(p, "init", "bind")
  /\ UNCHANGED <<lockfile, writers, port, pending, target, raced>>

\* Mutant of StartServer: the error of bind is not looked at.
StartUnbound(p) ==
  /\ Goto(p, "bind", "serving")
  /\ port' = p
  /\ UNCHANGED <<lockfile, writers, pending, target, raced>>

\* StartServer: bind, the update thread, listen and the accept loop, which
\* ends only with the process.
StartServer(p) ==
  /\ port = None
  /\ Goto(p, "bind", "serving")
  /\ port' = p
  /\ UNCHANGED <<lockfile, writers, pending, target, raced>>

\* RunCommand returns early when a step fails; the lockfile stays.
StartFails(p) ==
  /\ \E step \in {"create", "init", "bind"} : End(p, step, "failed")
  /\ UNCHANGED <<lockfile, target, raced>>

(***************************************************************************)
(* Ending: SignalHandle, DeleteLockfile, and deaths nobody handles.        *)
(***************************************************************************)

\* Ctrl-C or a kill from a shell.
Interrupt(p) ==
  /\ pc[p] \in Alive
  /\ pending' = pending \union {p}
  /\ UNCHANGED <<pc, lockfile, writers, port, target, raced>>

\* SIGTERM has its handler before SIGINT has: between the two calls of
\* signal() a signal may be either.
EnterHandler(p) ==
  /\ p \in pending
  /\ \E at \in Handled \union {"install"} : Goto(p, at, "handler")
  /\ pending' = pending \ {p}
  /\ UNCHANGED <<lockfile, writers, port, target, raced>>

\* Mutant of DeleteLockfile: the handler leaves the file where it is.
LeaveLockfile(p) ==
  /\ Goto(p, "handler", "exit")
  /\ UNCHANGED <<lockfile, writers, port, pending, target, raced>>

\* Mutant of DeleteLockfile: the handler returns instead of calling exit.
DeleteAndReturn(p) ==
  /\ Goto(p, "handler", "serving")
  /\ lockfile' = None
  /\ writers' = {}
  /\ UNCHANGED <<port, pending, target, raced>>

DeleteLockfile(p) ==
  /\ Goto(p, "handler", "exit")
  /\ lockfile' = None
  /\ writers' = {}
  /\ UNCHANGED <<port, pending, target, raced>>

\* A second handler: signal() blocks only the same signal and only in the
\* thread that handles it, so that the other signal nests in the handler and
\* other threads handle either.  Of two handlers the first to remove the file
\* is DeleteLockfile; this is a later one, while exit is under way.
HandleAgain(p) ==
  /\ p \in pending
  /\ pc[p] = "exit"
  /\ lockfile' = None
  /\ writers' = {}
  /\ pending' = pending \ {p}
  /\ UNCHANGED <<pc, port, target, raced>>

Exit(p) ==
  /\ End(p, "exit", "exited")
  /\ UNCHANGED <<lockfile, target, raced>>

\* The default action of a signal before signal() has been called.
DieOfSignal(p) ==
  /\ p \in pending
  /\ \E at \in Unhandled : End(p, at, "killed")
  /\ UNCHANGED <<lockfile, target, raced>>

Crash(p) ==
  /\ \E at \in Alive : End(p, at, "killed")
  /\ UNCHANGED <<lockfile, target, raced>>

(***************************************************************************)
(* Stopping: StopCommand and TerminateExistingServer.                      *)
(***************************************************************************)
\* Mutant of ReadLockfile: pid >= 0, so that an empty lockfile will do.
ReadAnyLockfile(q) ==
  /\ lockfile # None
  /\ Goto(q, "idle", "kill")
  /\ target' = [target EXCEPT ![q] = lockfile]
  /\ UNCHANGED <<lockfile, writers, port, pending, raced>>

ReadLockfile(q) ==
  /\ lockfile \in Starters
  /\ Goto(q, "idle", "kill")
  /\ target' = [target EXCEPT ![q] = lockfile]
  /\ UNCHANGED <<lockfile, writers, port, pending, raced>>

\* No lockfile, or one without a process id in it.
NothingToStop(q) ==
  /\ \/ lockfile = None /\ Goto(q, "idle", "not_running")
     \/ lockfile = Empty /\ Goto(q, "idle", "no_pid")
  /\ UNCHANGED <<lockfile, writers, port, pending, target, raced>>

Kill(q) ==
  /\ Goto(q, "kill", "terminated")
  /\ pc[target[q]] \in Alive
  /\ pending' = pending \union {target[q]}
  /\ UNCHANGED <<lockfile, writers, port, target, raced>>

\* kill returns -1, which StopCommand takes for a missing lockfile.
KillFails(q) ==
  /\ Goto(q, "kill", "not_running")
  /\ pc[target[q]] \notin Alive
  /\ UNCHANGED <<lockfile, writers, port, pending, target, raced>>

StarterStep(p) ==
  \/ SpawnHeadless(p) \/ CheckLockfile(p) \/ Refuse(p) \/ InstallHandlers(p)
  \/ OpenLockfile(p) \/ WriteLockfile(p) \/ Initialize(p) \/ StartServer(p)
  \/ StartFails(p)

SignalStep(p) ==
  EnterHandler(p) \/ DeleteLockfile(p) \/ Exit(p) \/ DieOfSignal(p)

StopperStep(q) ==
  ReadLockfile(q) \/ NothingToStop(q) \/ Kill(q) \/ KillFails(q)

Next ==
  \/ \E p \in Starters :
       \/ Run(p) \/ StarterStep(p) \/ SignalStep(p) \/ HandleAgain(p)
       \/ Interrupt(p) \/ Crash(p)
  \/ \E q \in Stoppers : StopperStep(q)

Spec == Init /\ [][Next]_vars

(***************************************************************************)
(* A signal is delivered and its handler runs to its exit.  Nothing else   *)
(* has to happen.                                                          *)
(***************************************************************************)
LiveSpec == Spec /\ \A p \in Starters : WF_vars(SignalStep(p))

-----------------------------------------------------------------------------
TypeOK ==
  /\ pc \in [Starters \union Stoppers ->
               {"idle"} \union Alive \union Gone \union StopPCs]
  /\ \A p \in Starters : pc[p] \in {"idle"} \union Alive \union Gone
  /\ \A q \in Stoppers : pc[q] \in StopPCs
  /\ lockfile \in Starters \union {None, Empty}
  /\ writers \subseteq Starters
  /\ port \in Starters \union {None}
  /\ pending \subseteq Starters
  /\ target \in [Stoppers -> Starters \union {None}]
  /\ \A q \in Stoppers : pc[q] \in {"kill", "terminated"} => target[q] # None
  /\ raced \in BOOLEAN

(***************************************************************************)
(* Unless a lockfile was created while another starter was between its     *)
(* check and its own creation, or between entering its signal handler and  *)
(* its end, a serving process is the one that the lockfile names, so stop  *)
(* finds it.                                                               *)
(***************************************************************************)
LockfileNamesServer ==
  \A p \in Starters : pc[p] = "serving" /\ ~raced => lockfile = p

(***************************************************************************)
(* A lockfile that is there has a cause: the starter it names (or one that *)
(* has just created it) is still going, or failed, or was killed.  A       *)
(* server that was stopped by a signal never keeps the next one out.       *)
(***************************************************************************)
LockfileHasCause ==
  lockfile # None =>
    \E p \in Starters :
      /\ lockfile \in {p, Empty}
      /\ pc[p] \in {"write", "init", "bind", "serving", "handler",
                   "failed", "killed"}

(***************************************************************************)
(* Whenever stop reports that it terminated a server, that process does    *)
(* end, wherever in its start, service or shutdown the signal meets it.    *)
(***************************************************************************)
StopEndsServer ==
  \A q \in Stoppers, p \in Starters :
    (pc[q] = "terminated" /\ target[q] = p) ~> pc[p] \in Gone

(***************************************************************************)
(* Whatever the lockfile says, Process implements Lives, which module      *)
(* Registry builds on: data is loaded before the port is bound, threads    *)
(* that change it run only in the one process that has the port, and that  *)
(* one keeps them while it handles its signal and exits.                   *)
(***************************************************************************)
Before == {"idle", "create", "write"} \union Unhandled

LifeOf(p) ==
  IF port = p THEN "serving"
  ELSE IF pc[p] \in Before THEN "before"
  ELSE IF pc[p] \in {"init", "bind"} THEN pc[p]
  ELSE "gone"

life == [p \in Starters |-> LifeOf(p)]

L == INSTANCE Lives

ImplementsLives == L!Spec

(***************************************************************************)
(* "The presence of a lockfile indicates that a server process is already  *)
(* running. The lockfile contains the process ID of the running process."  *)
(* (File.h:14)  Check and creation are two steps, and the handler of a     *)
(* second starter removes the file of the first.                           *)
(***************************************************************************)
ServerHasLockfile ==
  \A p \in Starters : pc[p] = "serving" => lockfile = p
=============================================================================
