------------------------------- MODULE Server -------------------------------
(***************************************************************************)
(* The running server: the accept loop of StartServer in the main thread,  *)
(* the connection threads it creates, and the update thread, over the      *)
(* data they share.                                                        *)
(***************************************************************************)
EXTENDS Connection, UpdateThread

VARIABLES
  server_pc,    (* where the accept loop is                                 *)
  next_client,  (* the slot NextAvailableConnection is at, or has returned  *)
  spawned       (* threads created so far; none of them is ever joined      *)

mainVars == <<server_pc, next_client, spawned>>
vars == <<sharedVars, threadVars, updateVars, mainVars>>

Init ==
  /\ UpdateInit
  /\ SharedInit(file)
  /\ ConnectionInit
  /\ server_pc = "find"
  /\ next_client = 0
  /\ spawned = 0

GotoM(from, to) ==
  /\ server_pc = from
  /\ server_pc' = to

(***************************************************************************)
(* NextAvailableConnection looks at one slot after the other; slots are    *)
(* given back behind its back.  Past the last slot it returns NULL, and    *)
(* StartServer sleeps and starts over.                                     *)
(***************************************************************************)
\* Mutant of TakeSlot: a slot that is closing counts as available.
TakeClosingSlot ==
  /\ GotoM("find", "accept")
  /\ status[next_client] # "ACTIVE"
  /\ UNCHANGED <<sharedVars, threadVars, updateVars, next_client, spawned>>

TakeSlot ==
  /\ GotoM("find", "accept")
  /\ status[next_client] = "CLOSED"
  /\ UNCHANGED <<sharedVars, threadVars, updateVars, next_client, spawned>>

SkipSlot ==
  /\ server_pc = "find"
  /\ status[next_client] # "CLOSED"
  /\ next_client' = (next_client + 1) % MaxConnections
  /\ UNCHANGED <<sharedVars, threadVars, updateVars, server_pc, spawned>>

Accept(a) ==
  /\ GotoM("accept", "start")
  /\ socket' = [socket EXCEPT ![next_client] = TRUE]
  /\ address' = [address EXCEPT ![next_client] = a]
  /\ UNCHANGED <<status, state, user, userVars, lockVars, threadVars,
                 updateVars, next_client, spawned>>

AcceptFails ==
  /\ GotoM("accept", "find")
  /\ next_client' = 0
  /\ UNCHANGED <<sharedVars, threadVars, updateVars, spawned>>

\* The slot becomes ACTIVE whether or not a thread will serve it.
Activate ==
  /\ GotoM("start", "find")
  /\ status' = [status EXCEPT ![next_client] = "ACTIVE"]
  /\ next_client' = 0
  /\ UNCHANGED <<socket, address, state, user, userVars, lockVars, updateVars>>

StartThread ==
  /\ Activate
  /\ spawned < MaxThreads
  /\ spawned' = spawned + 1
  /\ pc' = [pc EXCEPT ![spawned + 1] = "welcome"]
  /\ conn' = [conn EXCEPT ![spawned + 1] = next_client]
  /\ UNCHANGED found

\* pthread_create fails, as it will once MaxThreads exist; nobody notices.
StartThreadFails ==
  /\ Activate
  /\ UNCHANGED <<threadVars, spawned>>

MainNext ==
  \/ TakeSlot \/ SkipSlot
  \/ AcceptFails \/ (\E a \in Addrs : Accept(a))
  \/ StartThread \/ StartThreadFails

(***************************************************************************)
(* The whole program.                                                      *)
(***************************************************************************)
Next ==
  \/ ConnectionNext /\ UNCHANGED <<updateVars, mainVars>>
  \/ UpdateNext /\ UNCHANGED <<threadVars, mainVars>>
  \/ MainNext

Spec == Init /\ [][Next]_vars

(***************************************************************************)
(* Fairness.  A thread that can run does run.  A thread that waits for the *)
(* mutex gets it if it is free again and again: every holder lets go of it *)
(* for a sleep or a round trip to a client before it asks for it again.    *)
(* The registered file can be opened in one of infinitely many tries.  A   *)
(* client need not do anything.                                            *)
(***************************************************************************)
ThreadFairness(t) ==
  /\ WF_vars(Step(t) /\ UNCHANGED <<updateVars, mainVars>>)
  /\ SF_vars(LockMutex(t) /\ UNCHANGED <<updateVars, mainVars>>)

UpdateFairness ==
  LET Fair(A) == A /\ UNCHANGED <<threadVars, mainVars>> IN
  /\ WF_vars(Fair(SeeDirty)) /\ SF_vars(Fair(ClearDirty))
  /\ SF_vars(Fair(OpenFile))
  /\ WF_vars(Fair(WriteRecord)) /\ WF_vars(Fair(CloseFile))

LiveSpec ==
  Spec /\ UpdateFairness /\ (\A t \in Threads : ThreadFairness(t))

-----------------------------------------------------------------------------
TypeOK ==
  /\ SharedTypeOK
  /\ ConnectionTypeOK
  /\ UpdateTypeOK
  /\ server_pc \in {"find", "accept", "start"}
  /\ next_client \in Slots
  /\ spawned \in 0 .. MaxThreads

Holds(t, s) == pc[t] \in Live /\ conn[t] = s

(***************************************************************************)
(* A slot of connections[] is in the hands of one thread at a time, and    *)
(* while the main thread fills it in (accept writes its socket and         *)
(* address) no connection thread is left that uses it.                     *)
(***************************************************************************)
SlotHasOneOwner ==
  /\ \A t1, t2 \in Threads, s \in Slots :
       Holds(t1, s) /\ Holds(t2, s) => t1 = t2
  /\ server_pc # "find" => \A t \in Threads : ~Holds(t, next_client)

(***************************************************************************)
(* A thread's socket is open until the thread closes it, and a slot that   *)
(* accept may overwrite holds no open socket: no descriptor is lost when a *)
(* slot is used again, and none is used after it was closed.               *)
(***************************************************************************)
SocketFollowsSlot ==
  /\ \A t \in Threads :
       pc[t] \in Live \ {"unset", "finish"} => socket[conn[t]]
  /\ \A s \in Slots :
       status[s] = "CLOSED" /\ socket[s]
         => server_pc = "start" /\ next_client = s

\* The threads, or the updater, that are between a lock and its unlock.
InCritical ==
  {t \in Threads : pc[t] \in Critical}
    \union (IF upc \in {"open", "write"} THEN {Updater} ELSE {})

(***************************************************************************)
(* Only one of the connection threads and the update thread is between its *)
(* pthread_mutex_lock and pthread_mutex_unlock, and it holds the mutex.    *)
(***************************************************************************)
MutualExclusion ==
  InCritical = IF mutex = Free THEN {} ELSE {mutex}

(***************************************************************************)
(* A thread that takes commands has logged in: its slot names the user it  *)
(* found, its state is not ENTRY (so the "invalid state" branch is dead    *)
(* and _register never follows a NULL user), and the commands of a         *)
(* registered user are open to registered users only.                      *)
(***************************************************************************)
LoggedInSession ==
  \A t \in Threads :
    /\ pc[t] \in Serving \ {"claim"} => User(t) = found[t] /\ User(t) # NoUser
    /\ pc[t] \in Serving \ {"claim", "stamp", "admit"}
         => state[conn[t]] # "ENTRY"
    /\ pc[t] \in Live \ {"welcome"} /\ state[conn[t]] = "REGISTERED"
         => User(t) \in registered

(***************************************************************************)
(* The who command lists nobody who is gone: a user is flagged connected   *)
(* only while some thread of theirs has still to clear the flag.           *)
(***************************************************************************)
NoGhostLogin ==
  \A u \in connected : \E t \in Threads :
    /\ pc[t] \in (Serving \union Cleanup) \ {"claim", "finish"}
    /\ User(t) = u

(***************************************************************************)
(* Only the end of one of a user's own sessions takes the user's connected *)
(* flag away: a slot's new thread never logs out the user that the slot    *)
(* belonged to before.                                                     *)
(***************************************************************************)
OnlyOwnLogout ==
  [][\A u \in connected \ connected' :
       \E t \in Threads : pc[t] # pc'[t] /\ found[t] = u]_vars

(***************************************************************************)
(* No change of a registered user's record is forgotten: what is on disk   *)
(* is what is in memory, or the dirty flag is up, or the thread that made  *)
(* the change has yet to raise it, or the update thread has taken the flag *)
(* down and everything it has written so far is current.                   *)
(***************************************************************************)
Changing == \E t \in Threads : pc[t] = "mark"
Saving ==
  /\ upc \in {"open", "write"}
  /\ upc = "write" => \A u \in Users :
       u < cursor => out[u].profile = RecordOf(u).profile
Saved == \A u \in Users : file[u].profile = RecordOf(u).profile
SavedOrDirty == Saved \/ dirty \/ Changing \/ Saving

(***************************************************************************)
(* Registration is for good, in memory and in the registered file.         *)
(***************************************************************************)
StaysRegistered ==
  [][/\ registered \subseteq registered'
     /\ \A u \in Users :
          file[u].profile # NoProfile => file'[u].profile # NoProfile]_vars

(***************************************************************************)
(* The server implements WriteBehind: an age or gpa changes in memory and  *)
(* the file follows by consistent snapshots of all the users.              *)
(***************************************************************************)
Records == INSTANCE WriteBehind WITH
  Keys <- Users, Values <- Profiles, Absent <- NoProfile,
  memory <- [u \in Users |-> RecordOf(u).profile],
  disk <- [u \in Users |-> file[u].profile]

SnapshotsOfRecords == Records!Spec

(***************************************************************************)
(* With the fairness above, every change does reach the file.              *)
(***************************************************************************)
RecordsReachDisk == Records!LiveSpec

(***************************************************************************)
(* A slot whose thread has decided to close it is given back to accept.    *)
(***************************************************************************)
ClosingSlotReturns ==
  \A s \in Slots : status[s] = "CLOSING" ~> status[s] = "CLOSED"

(***************************************************************************)
(* A client that asked to register or for a random value gets its answer,  *)
(* however the other threads use the mutex.                                *)
(***************************************************************************)
CommandCompletes ==
  \A t \in Threads : pc[t] \in {"reg_lock", "rnd_lock"} ~> pc[t] = "loop"

-----------------------------------------------------------------------------
(***************************************************************************)
(* What the repository says and the code does not do.                      *)
(***************************************************************************)

(***************************************************************************)
(* "You are already connected." (Connection.c:79): no two sessions of one  *)
(* user.  The flag is tested and set in two steps without the lock.        *)
(***************************************************************************)
OneSessionPerUser ==
  \A t1, t2 \in Threads :
    pc[t1] = "command" /\ pc[t2] = "command" /\ User(t1) = User(t2) => t1 = t2

(***************************************************************************)
(* "IP is set each time a user connects, and saved in the file."           *)
(* (Data.h:42)  Logging in does not raise the dirty flag.                  *)
(***************************************************************************)
AddressSaved ==
  \A u \in Users, a \in Addrs :
    (u \in registered /\ ip[u] = a) ~> (ip[u] # a \/ file[u].ip = a)
=============================================================================
