---------------------------- MODULE UpdateThread ----------------------------
(***************************************************************************)
(* StartUpdateThread of Connection.c: once a second the update thread      *)
(* tests shared.dirty and, under the mutex, writes every registered user's *)
(* record to the registered file.  File.c writes through a FILE whose      *)
(* buffer reaches the disk at fclose; file is what the disk holds after    *)
(* it.  The text of the file (that it is not truncated, that a record has  *)
(* no line end) is left out: file holds a record per user.                 *)
(***************************************************************************)
EXTENDS Shared

VARIABLES
  upc,     (* where the update thread is                                    *)
  cursor,  (* the loop variable i of UpdateRegisteredFileFromUsersMap       *)
  out,     (* the records written to the FILE and not yet flushed           *)
  file     (* the records in the registered file                            *)

updateVars == <<upc, cursor, out, file>>

NoFile == [u \in Users |-> NoRecord]

UpdateInit ==
  /\ upc = "check"
  /\ cursor = 1
  /\ out = NoFile
  /\ file \in [Users -> Record \union {NoRecord}]

UpdateTypeOK ==
  /\ upc \in {"check", "lock", "open", "write"}
  /\ cursor \in 1 .. RECORD_COUNT + 1
  /\ out \in [Users -> [profile : Profiles \union {NoProfile},
                        ip : Addrs \union {NoAddr}]]
  /\ file \in [Users -> [profile : Profiles \union {NoProfile},
                         ip : Addrs \union {NoAddr}]]

GotoU(from, to) ==
  /\ upc = from
  /\ upc' = to

\* What fprintf writes for user u: nothing for one that is not registered.
RecordOf(u) ==
  IF u \in registered THEN [profile |-> profile[u], ip |-> ip[u]]
                      ELSE NoRecord

\* if(shared.dirty), read without the lock
SeeDirty ==
  /\ GotoU("check", "lock")
  /\ dirty
  /\ UNCHANGED <<sharedVars, cursor, out, file>>

\* Take the lock and clear the flag, before anything is written.
ClearDirty ==
  /\ GotoU("lock", "open")
  /\ Lock(Updater)
  /\ dirty' = FALSE
  /\ UNCHANGED <<slotVars, userVars, cursor, out, file>>

OpenFile ==
  /\ GotoU("open", "write")
  /\ cursor' = 1
  /\ out' = NoFile
  /\ UNCHANGED <<sharedVars, file>>

\* Mutant of OpenFails: the flag stays down.
OpenFailsForgets ==
  /\ GotoU("open", "check")
  /\ Unlock(Updater)
  /\ UNCHANGED <<slotVars, userVars, dirty, cursor, out, file>>

\* Mutant of OpenFails: it returns before the unlock.
OpenFailsLocked ==
  /\ GotoU("open", "check")
  /\ dirty' = TRUE
  /\ UNCHANGED <<slotVars, userVars, mutex, cursor, out, file>>

\* The file cannot be opened: the flag goes up again for the next round.
OpenFails ==
  /\ GotoU("open", "check")
  /\ dirty' = TRUE
  /\ Unlock(Updater)
  /\ UNCHANGED <<slotVars, userVars, cursor, out, file>>

\* Mutant of WriteRecord: i <= RECORD_COUNT instead of i < RECORD_COUNT.
WriteRecordTooFar ==
  /\ upc = "write"
  /\ cursor <= RECORD_COUNT + 1
  /\ out' = [out EXCEPT ![cursor] = RecordOf(cursor)]
  /\ cursor' = cursor + 1
  /\ UNCHANGED <<sharedVars, upc, file>>

WriteRecord ==
  /\ upc = "write"
  /\ cursor <= RECORD_COUNT
  /\ out' = [out EXCEPT ![cursor] = RecordOf(cursor)]
  /\ cursor' = cursor + 1
  /\ UNCHANGED <<sharedVars, upc, file>>

\* Mutant of CloseFile: the loop ends one record early.
CloseFileEarly ==
  /\ cursor >= RECORD_COUNT
  /\ GotoU("write", "check")
  /\ file' = out
  /\ cursor' = 1
  /\ out' = NoFile
  /\ Unlock(Updater)
  /\ UNCHANGED <<slotVars, userVars, dirty>>

\* fclose and the unlock.  The locals end with the round.
CloseFile ==
  /\ cursor > RECORD_COUNT
  /\ GotoU("write", "check")
  /\ file' = out
  /\ cursor' = 1
  /\ out' = NoFile
  /\ Unlock(Updater)
  /\ UNCHANGED <<slotVars, userVars, dirty>>

UpdateNext ==
  SeeDirty \/ ClearDirty \/ OpenFile \/ OpenFails \/ WriteRecord \/ CloseFile
=============================================================================
