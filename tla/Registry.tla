------------------------------ MODULE Registry ------------------------------
(***************************************************************************)
(* The registered file across the lives of server processes.  Module Lives *)
(* (which Process implements) says which process may do what when, and     *)
(* this module adds what Initialize reads, what clients change while the   *)
(* process serves, what its update thread writes, and what is left when it *)
(* exits or is killed.                                                     *)
(*                                                                         *)
(* The whole text is smaller than the buffer of a FILE, so it reaches the  *)
(* disk at fclose, or as much of it as there is when exit flushes FILEs.   *)
(***************************************************************************)
EXTENDS RegisteredFile

CONSTANTS
  Starters,  (* bound: the processes that start a server, each of them once *)
  NoFile     (* there is no registered file                                 *)

VARIABLES
  life,    (* the stage of each process, as in Lives                        *)
  file,    (* the text of the registered file, or NoFile                    *)
  tested,  (* what FileStatus told a starter that initialises               *)
  memory,  (* the users map of each process                                 *)
  dirty,   (* shared.dirty of each process                                  *)
  saving,  (* whether its update thread is between the lock and fclose      *)
  acked,   (* history: the users who have ever registered                   *)
  unsaved, (* history: the users who have registered and whom no save has   *)
           (* written since                                                 *)
  spoilt   (* history: the file has been damaged in one of the ways that    *)
           (* are listed below                                              *)

ASSUME RegistryAssumption == NoFile \notin Text

L == INSTANCE Lives

local == <<tested, memory, dirty, saving>>
history == <<acked, unsaved, spoilt>>
registryVars == <<file, local, history>>
vars == <<life, registryVars>>

Init ==
  /\ L!Init
  /\ \/ file = NoFile /\ acked = {}
     \/ \E users \in [Users -> Records] :
          /\ file = TextOf(users)
          /\ acked = {u \in Users : users[u].registered}
  /\ tested = [p \in Starters |-> "none"]
  /\ memory = [p \in Starters |-> NoUsers]
  /\ dirty = [p \in Starters |-> FALSE]
  /\ saving = [p \in Starters |-> FALSE]
  /\ unsaved = {}
  /\ spoilt = FALSE

\* The memory of a process goes with it.
Forget(p) ==
  /\ tested' = [tested EXCEPT ![p] = "none"]
  /\ memory' = [memory EXCEPT ![p] = NoUsers]
  /\ dirty' = [dirty EXCEPT ![p] = FALSE]
  /\ saving' = [saving EXCEPT ![p] = FALSE]

(***************************************************************************)
(* The ways in which the file is damaged: a starter truncates a file that  *)
(* has come into being since it looked; a process serves records that are  *)
(* not those in the file; exit cuts a save short; a text that is shorter   *)
(* by two characters or more leaves the end of the one before.  (One       *)
(* character is the last digit of a number that ends in the same digit.)   *)
(***************************************************************************)
Truncates        == file \notin {NoFile, <<>>}
ServesOther(p)   == ~Readable(file) \/ UsersOf(file) # memory[p]
Cuts(text)       == Overwrite(file, text) # file
LeavesTail(text) == Len(file) > Len(text) + 1

Spoils(damage) == spoilt' = (spoilt \/ damage)

Registered(users) == {u \in Users : users[u].registered}

(***************************************************************************)
(* Initialize: CreateOrOpenFileVerbose tests for the file and then opens   *)
(* it, with "w+" if it was not there.                                      *)
(***************************************************************************)
FileStatus(p) ==
  /\ life[p] = "init"
  /\ tested[p] = "none"
  /\ tested' = [tested EXCEPT ![p] = IF file = NoFile THEN "absent"
                                                      ELSE "present"]
  /\ UNCHANGED <<life, file, memory, dirty, saving, history>>

CreateFile(p) ==
  /\ L!Load(p)
  /\ tested[p] = "absent"
  /\ file' = <<>>
  /\ Spoils(Truncates)
  /\ UNCHANGED <<local, acked, unsaved>>

\* A file that does not scan to its end leaves only Crash: Initialize fails.
OpenFile(p) ==
  /\ L!Load(p)
  /\ tested[p] = "present"
  /\ Readable(file)
  /\ memory' = [memory EXCEPT ![p] = UsersOf(file)]
  /\ UNCHANGED <<file, tested, dirty, saving, history>>

\* Mutant of StartServer: the error of bind is not looked at.
StartAnyway(p) ==
  /\ L!Goto(p, "bind", "serving")
  /\ Spoils(ServesOther(p))
  /\ UNCHANGED <<file, local, acked, unsaved>>

StartServer(p) ==
  /\ L!Serve(p)
  /\ Spoils(ServesOther(p))
  /\ UNCHANGED <<file, local, acked, unsaved>>

(***************************************************************************)
(* While p serves its threads run, whatever its main thread does.          *)
(* The login of a registered user stores the address, with no lock and no  *)
(* dirty flag; that of an unregistered user is in no record before the     *)
(* user registers, and is part of Register here.                           *)
(***************************************************************************)
Login(p, u, a) ==
  /\ life[p] = "serving"
  /\ memory[p][u].registered
  /\ memory' = [memory EXCEPT ![p][u].ip = a]
  /\ UNCHANGED <<life, file, tested, dirty, saving, history>>

\* Mutant of SetRecord: the dirty flag is not raised.
SetRecordOnly(p, u, user) ==
  /\ life[p] = "serving"
  /\ ~saving[p]
  /\ memory' = [memory EXCEPT ![p][u] = user]
  /\ acked' = acked \union {u}
  /\ unsaved' = IF memory[p][u].registered THEN unsaved
                                           ELSE unsaved \union {u}
  /\ UNCHANGED <<life, file, tested, dirty, saving, spoilt>>

\* Under the mutex, hence not during a save.
SetRecord(p, u, user) ==
  /\ life[p] = "serving"
  /\ ~saving[p]
  /\ memory' = [memory EXCEPT ![p][u] = user]
  /\ dirty' = [dirty EXCEPT ![p] = TRUE]
  /\ acked' = acked \union {u}
  /\ unsaved' = IF memory[p][u].registered THEN unsaved
                                           ELSE unsaved \union {u}
  /\ UNCHANGED <<life, file, tested, saving, spoilt>>

Register(p, u, a) ==
  /\ ~memory[p][u].registered
  /\ \E pr \in Profiles :
       SetRecord(p, u, [registered |-> TRUE, age |-> pr.age, gpa |-> pr.gpa,
                        ip |-> a, lastConnection |-> <<"0">>])

Randomize(p, u) ==
  /\ memory[p][u].registered
  /\ \E pr \in Profiles :
       SetRecord(p, u, [memory[p][u] EXCEPT !.age = pr.age, !.gpa = pr.gpa])

(***************************************************************************)
(* StartUpdateThread.  The loop over the users, which module UpdateThread  *)
(* takes one record at a time, is one step: all that can change under it   *)
(* is an address, and a text with the older address is also that of a save *)
(* before the login.                                                       *)
(***************************************************************************)

\* Mutant of BeginSave: fopen with "w", which truncates the file at once.
BeginSaveTruncated(p) ==
  /\ life[p] = "serving"
  /\ dirty[p]
  /\ ~saving[p]
  /\ dirty' = [dirty EXCEPT ![p] = FALSE]
  /\ saving' = [saving EXCEPT ![p] = TRUE]
  /\ file' = <<>>
  /\ UNCHANGED <<life, tested, memory, history>>

BeginSave(p) ==
  /\ life[p] = "serving"
  /\ dirty[p]
  /\ ~saving[p]
  /\ dirty' = [dirty EXCEPT ![p] = FALSE]
  /\ saving' = [saving EXCEPT ![p] = TRUE]
  /\ UNCHANGED <<life, file, tested, memory, history>>

Save(p) ==
  /\ saving[p]
  /\ file' = Overwrite(file, TextOf(memory[p]))
  /\ saving' = [saving EXCEPT ![p] = FALSE]
  /\ Spoils(LeavesTail(TextOf(memory[p])))
  /\ unsaved' = unsaved \ Registered(memory[p])
  /\ UNCHANGED <<life, tested, memory, dirty, acked>>

(***************************************************************************)
(* The ends of a process.  exit flushes what the update thread has put     *)
(* into its FILE, which may end anywhere in a record.                      *)
(***************************************************************************)
Exit(p) ==
  /\ L!End(p)
  /\ IF saving[p]
     THEN LET text == TextOf(memory[p])
          IN  \E n \in 0 .. Len(text) :
                /\ file' = Overwrite(file, SubSeq(text, 1, n))
                /\ Spoils(Cuts(SubSeq(text, 1, n)))
     ELSE UNCHANGED <<file, spoilt>>
  /\ Forget(p)
  /\ UNCHANGED <<acked, unsaved>>

Crash(p) ==
  /\ L!End(p)
  /\ Forget(p)
  /\ UNCHANGED <<file, history>>

Begin(p) ==
  /\ L!Begin(p)
  /\ UNCHANGED registryVars

LifeStep(p) ==
  \/ Begin(p) \/ FileStatus(p) \/ CreateFile(p) \/ OpenFile(p)
  \/ StartServer(p) \/ Exit(p) \/ Crash(p)

ServingStep(p) ==
  \/ \E u \in Users : Randomize(p, u)
  \/ \E u \in Users, a \in Addrs : Login(p, u, a) \/ Register(p, u, a)
  \/ BeginSave(p) \/ Save(p)

Next == \E p \in Starters : LifeStep(p) \/ ServingStep(p)

Spec == Init /\ [][Next]_vars

-----------------------------------------------------------------------------
TypeOK ==
  /\ life \in [Starters -> L!Stages]
  /\ file = NoFile \/ file \in Text
  /\ tested \in [Starters -> {"none", "absent", "present"}]
  /\ memory \in [Starters -> [Users -> UserRecord]]
  /\ dirty \in [Starters -> BOOLEAN]
  /\ saving \in [Starters -> BOOLEAN]
  /\ acked \subseteq Users /\ unsaved \subseteq Users
  /\ spoilt \in BOOLEAN

(***************************************************************************)
(* Only the process that has the port writes to the registered file, so    *)
(* two never write at the same time, even when both got past the lockfile. *)
(***************************************************************************)
OneSaver ==
  \A p, q \in Starters : saving[p] /\ saving[q] => p = q

(***************************************************************************)
(* When nothing has spoilt the file, a restart would find every record     *)
(* that the serving process has in memory, age and gpa, unless a save is   *)
(* due or under way.                                                       *)
(***************************************************************************)
SavedWhenIdle ==
  ~spoilt =>
    \A p \in Starters :
      life[p] = "serving" /\ ~dirty[p] /\ ~saving[p] =>
        /\ Readable(file)
        /\ \A u \in Users :
             LET saved == UsersOf(file)[u]
             IN  /\ saved.registered = memory[p][u].registered
                 /\ saved.age = memory[p][u].age
                 /\ saved.gpa = memory[p][u].gpa

RegisteredIn(t) ==
  IF t = NoFile THEN {}
  ELSE IF ~Readable(t) THEN {}
  ELSE Registered(UsersOf(t))

(***************************************************************************)
(* A user who is in the file stays in the file, over saves, restarts and   *)
(* crashes, until something spoils it.                                     *)
(***************************************************************************)
StaysInFile ==
  [][file' # file /\ ~spoilt' =>
       RegisteredIn(file) \subseteq RegisteredIn(file')]_vars

(***************************************************************************)
(* The program says "registered" before anything is on the disk, and exits *)
(* without a last save (Process.c:153).  While nothing has spoilt the      *)
(* file, this costs a user the registration only if no save has come to    *)
(* its end since, in this process or a later one, and the process that     *)
(* has the user in memory is about to save.                                *)
(***************************************************************************)
OnlyUnsavedAreLost ==
  ~spoilt =>
    /\ acked \ RegisteredIn(file) \subseteq unsaved
    /\ \A p \in Starters :
         life[p] = "serving" /\ ~dirty[p] /\ ~saving[p] =>
           Registered(memory[p]) \intersect unsaved = {}

(***************************************************************************)
(* While nothing has spoilt the file, whoever is in it, or is registered   *)
(* in the memory of the server, did register at some time.                 *)
(***************************************************************************)
NobodyElse ==
  ~spoilt =>
    /\ RegisteredIn(file) \subseteq acked
    /\ \A p \in Starters, u \in Users :
         life[p] = "serving" /\ memory[p][u].registered => u \in acked

(***************************************************************************)
(* "GPA and age are populated at the time a user is registered, and saved  *)
(* and loaded from a file." (Data.h:42)  What the update thread has saved  *)
(* is what Initialize can load.                                            *)
(***************************************************************************)
SavedFileLoads ==
  \A p \in Starters :
    life[p] = "serving" /\ ~dirty[p] /\ ~saving[p] => Readable(file)
=============================================================================
