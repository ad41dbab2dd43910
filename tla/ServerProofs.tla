---------------------------- MODULE ServerProofs ----------------------------
(***************************************************************************)
(* Proofs about Server, for any number of users, slots and threads.        *)
(*                                                                         *)
(* The invariant Inv is inductive.  A step of a connection thread is       *)
(* analysed once, in lemma ThreadEffect, which says what such a step can   *)
(* do to the thread's own slot and to the shared data; every conjunct of   *)
(* Inv that speaks of all threads is then preserved because two live       *)
(* threads have different slots (Ownership) and because shared data change *)
(* only under the mutex (Locking).                                         *)
(***************************************************************************)
EXTENDS Server, TLAPS

\* Who a slot belongs to, told from its status and the accept loop.
Ownership ==
  /\ \A t \in Threads : pc[t] \in Live => status[conn[t]] # "CLOSED"
  /\ \A t1, t2 \in Threads :
       pc[t1] \in Live /\ pc[t2] \in Live /\ conn[t1] = conn[t2] => t1 = t2
  /\ server_pc # "find" => status[next_client] = "CLOSED"
  /\ \A t \in Threads : spawned < t => pc[t] = "none"

\* Whom thread t serves, and what its slot says of it.
SessionOf(t) ==
  /\ pc[t] \in Serving => found[t] \in Users
  /\ pc[t] \in Serving \ {"claim"} => User(t) = found[t]
  /\ pc[t] \in {"identify", "claim"} => User(t) = NoUser
  /\ pc[t] \in Cleanup => User(t) \in {NoUser, found[t]}
  /\ pc[t] \in {"identify", "claim", "stamp", "admit"}
       => state[conn[t]] = "ENTRY"
  /\ pc[t] \in Serving \ {"claim", "stamp", "admit"} => state[conn[t]] # "ENTRY"
  /\ pc[t] \in {"rnd_lock", "rnd_set"} => state[conn[t]] = "REGISTERED"
  /\ pc[t] \in Live \ {"welcome"} /\ state[conn[t]] = "REGISTERED"
       => User(t) \in registered
Session == \A t \in Threads : SessionOf(t)

\* The mutex is held by exactly those who are past its lock.
Locking ==
  /\ \A t \in Threads : pc[t] \in Critical <=> mutex = t
  /\ upc \in {"open", "write"} <=> mutex = Updater

\* Where a slot's descriptor is open.
Sockets ==
  /\ \A t \in Threads :
       /\ pc[t] \in Live \ {"unset", "finish"} => socket[conn[t]]
       /\ pc[t] \in {"unset", "finish"} => ~socket[conn[t]]
  /\ \A s \in Slots :
       status[s] = "CLOSED" /\ socket[s]
         => server_pc = "start" /\ next_client = s
  /\ server_pc = "start" => socket[next_client]

\* What the update thread has written so far is current, and the users whom
\* the file, the FILE buffer and memory know are in step.
Snapshot ==
  /\ \A u \in Users : u \in registered <=> profile[u] # NoProfile
  /\ \A u \in Users : file[u].profile # NoProfile => u \in registered
  /\ upc = "write" => \A u \in Users :
       u < cursor => out[u].profile = RecordOf(u).profile

Inv ==
  /\ TypeOK /\ Ownership /\ Session /\ Locking
  /\ Sockets /\ NoGhostLogin /\ Snapshot /\ SavedOrDirty

-----------------------------------------------------------------------------
(***************************************************************************)
(* What a step of connection thread t can do.                              *)
(***************************************************************************)
ThreadAction(t) ==
  /\ Peer(t) \/ LockMutex(t) \/ Step(t)
  /\ UNCHANGED <<updateVars, mainVars>>

\* It touches its own slot and no other thread.
LocalTo(t) ==
  /\ pc[t] \in Live
  /\ \A o \in Threads \ {t} : pc'[o] = pc[o] /\ found'[o] = found[o]
  /\ \A s \in Slots \ {conn[t]} :
       /\ status'[s] = status[s] /\ socket'[s] = socket[s]
       /\ state'[s] = state[s] /\ user'[s] = user[s]
  /\ pc'[t] \in Live => status'[conn[t]] \in {status[conn[t]], "CLOSING"}
  /\ registered \subseteq registered'
  /\ UNCHANGED <<conn, updateVars, mainVars>>

\* It enters and leaves the critical section with the mutex.
UsesMutex(t) ==
  \/ (pc[t] \in Critical <=> pc'[t] \in Critical) /\ mutex' = mutex
  \/ mutex = Free /\ mutex' = t /\ pc[t] \notin Critical /\ pc'[t] \in Critical
  \/ mutex = t /\ mutex' = Free /\ pc[t] \in Critical /\ pc'[t] \notin Critical

\* It closes its socket once, before it gives the slot back.
KeepsSocket(t) ==
  /\ pc[t] = "close" => pc'[t] = "unset" /\ ~socket'[conn[t]]
  /\ pc[t] # "close" => socket' = socket /\ pc'[t] # "unset"
  /\ pc'[t] = "finish" => pc[t] = "unset"
  /\ pc[t] = "unset" => pc'[t] = "finish"
  /\ pc[t] = "finish" <=> pc'[t] \notin Live
  /\ pc'[t] \notin Live => status'[conn[t]] = "CLOSED"

\* The states in which a thread's user is flagged, or may still be.
Flagging == (Serving \union Cleanup) \ {"claim", "finish"}

\* It flags its own user, and clears the flag before it forgets the user.
KeepsFlag(t) ==
  \A u \in connected' :
    \/ pc'[t] \in Flagging /\ User(t)' = u
    \/ u \in connected /\ ~(pc[t] \in Flagging /\ User(t) = u)

\* It logs out nobody but the user it found itself.
LogsOutSelf(t) ==
  \A u \in connected \ connected' : pc[t] # pc'[t] /\ found[t] = u

\* It changes a record inside the critical section and then says so.
Changes(t) ==
  /\ pc[t] \in {"reg_set", "rnd_set"} /\ pc'[t] = "mark"
  /\ registered' = registered \union {User(t)}
  /\ \E p \in Profiles : profile' = [profile EXCEPT ![User(t)] = p]
TracksChange(t) ==
  \/ Changes(t) /\ dirty' = dirty
  \/ UNCHANGED <<registered, profile>> /\ dirty'
  \/ UNCHANGED <<registered, profile, dirty>> /\ pc[t] # "mark"

LEMMA ThreadEffect ==
  ASSUME TypeOK, Session, NEW t \in Threads, ThreadAction(t)
  PROVE  /\ LocalTo(t) /\ UsesMutex(t) /\ KeepsSocket(t)
         /\ KeepsFlag(t) /\ LogsOutSelf(t) /\ TracksChange(t)
<1> USE DEF LocalTo, UsesMutex, KeepsSocket, KeepsFlag, Flagging, LogsOutSelf, Changes,
      TracksChange, ThreadAction, TypeOK, SharedTypeOK, ConnectionTypeOK,
      Session, SessionOf, User, Live, Serving, Cleanup, Critical, Users, NoUser,
      slotVars, userVars, lockVars, sharedVars
<1>1. CASE Welcome(t)
  BY <1>1 DEF Welcome, Goto, ResetSlot
<1>2. CASE Claim(t)
  BY <1>2 DEF Claim, Goto
<1>3. CASE StampAddress(t)
  BY <1>3 DEF StampAddress, Goto
<1>4. CASE Admit(t)
  BY <1>4 DEF Admit, Goto
<1>5. CASE SetRegistered(t)
  <2>1. LocalTo(t)
    BY <1>5 DEF SetRegistered, Goto
  <2>2. UsesMutex(t) /\ KeepsSocket(t) /\ KeepsFlag(t) /\ LogsOutSelf(t)
    BY <1>5 DEF SetRegistered, Goto
  <2>3. TracksChange(t)
    BY <1>5 DEF SetRegistered, Goto
  <2> QED
    BY <2>1, <2>2, <2>3
<1>6. CASE SetRandom(t)
  <2>1. LocalTo(t)
    BY <1>6 DEF SetRandom, Goto
  <2>2. UsesMutex(t) /\ KeepsSocket(t) /\ KeepsFlag(t) /\ LogsOutSelf(t)
    BY <1>6 DEF SetRandom, Goto
  <2>3. TracksChange(t)
    <3>1. pc[t] = "rnd_set" /\ pc'[t] = "mark"
      BY <1>6 DEF SetRandom, Goto
    <3>2. User(t) \in registered
      BY <3>1
    <3>3. registered' = registered \union {User(t)} /\ dirty' = dirty
      BY <1>6, <3>2 DEF SetRandom
    <3> QED
      BY <1>6, <3>1, <3>3 DEF SetRandom
  <2> QED
    BY <2>1, <2>2, <2>3
<1>7. CASE MarkDirty(t)
  BY <1>7 DEF MarkDirty, Goto, Unlock
<1>8. CASE Release(t)
  BY <1>8 DEF Release, Goto, ClearConnected
<1>9. CASE CloseSocket(t)
  BY <1>9 DEF CloseSocket, Goto
<1>10. CASE Unset(t)
  BY <1>10 DEF Unset, Goto, ClearConnected
<1>11. CASE Finish(t)
  BY <1>11 DEF Finish, Goto
<1>12. CASE LockMutex(t)
  BY <1>12 DEF LockMutex, Goto, Lock
<1>13. CASE \E u \in Users \union {NoUser} : Identify(t, u)
  BY <1>13 DEF Identify, Goto
<1>14. CASE \E u \in Users \union {NoUser} : TurnAway(t, u)
  BY <1>14 DEF TurnAway, Closing, Goto, ClearConnected
<1>15. CASE HangUp(t)
  BY <1>15 DEF HangUp, Closing, Goto
<1>16. CASE Exit(t)
  BY <1>16 DEF Exit, Closing, Goto, ClearConnected
<1>17. CASE Reply(t)
  BY <1>17 DEF Reply, Goto
<1>18. CASE Register(t)
  BY <1>18 DEF Register, Goto
<1>19. CASE Randomize(t)
  BY <1>19 DEF Randomize, Goto
<1>20. CASE Send(t)
  BY <1>20 DEF Send, Goto
<1>21. CASE WelcomeFails(t)
  BY <1>21 DEF WelcomeFails, Closing, Goto, ResetSlot
<1>22. CASE SendFails(t)
  BY <1>22 DEF SendFails, Closing, Goto
<1> QED
  BY <1>1, <1>2, <1>3, <1>4, <1>5, <1>6, <1>7, <1>8,
     <1>9, <1>10, <1>11, <1>12, <1>13, <1>14, <1>15, <1>16,
     <1>17, <1>18, <1>19, <1>20, <1>21, <1>22
     DEF ThreadAction, Peer, Step

LEMMA ThreadType ==
  ASSUME TypeOK, Session, NEW t \in Threads, ThreadAction(t)
  PROVE  TypeOK'
<1> USE DEF Session, SessionOf, ThreadAction, TypeOK, SharedTypeOK,
      ConnectionTypeOK, UpdateTypeOK, PCs, Live, Serving, Cleanup, User,
      slotVars, userVars, lockVars, sharedVars, updateVars, mainVars, Users,
      NoUser, Updater, Free
<1>1. CASE Welcome(t)
  BY <1>1 DEF Welcome, Goto, ResetSlot
<1>2. CASE Claim(t)
  <2>1. found[t] \in Users
    BY <1>2 DEF Claim, Goto
  <2>2. connected' \subseteq Users
    BY <1>2, <2>1 DEF Claim
  <2>3. pc' \in [Threads -> PCs] /\ user' \in [Slots -> Users \union {NoUser}]
    BY <1>2, <2>1 DEF Claim, Goto
  <2> QED
    BY <1>2, <2>2, <2>3 DEF Claim
<1>3. CASE StampAddress(t)
  BY <1>3 DEF StampAddress, Goto
<1>4. CASE Admit(t)
  BY <1>4 DEF Admit, Goto
<1>5. CASE SetRegistered(t)
  <2>1. pc[t] = "reg_set" /\ pc' = [pc EXCEPT ![t] = "mark"]
    BY <1>5 DEF SetRegistered, Goto
  <2>2. User(t) \in Users
    BY <2>1
  <2>3. registered' \subseteq Users
    BY <1>5, <2>2 DEF SetRegistered
  <2> QED
    BY <1>5, <2>1, <2>2, <2>3 DEF SetRegistered
<1>6. CASE SetRandom(t)
  BY <1>6 DEF SetRandom, Goto
<1>7. CASE MarkDirty(t)
  BY <1>7 DEF MarkDirty, Goto, Unlock
<1>8. CASE Release(t)
  BY <1>8 DEF Release, Goto, ClearConnected
<1>9. CASE CloseSocket(t)
  BY <1>9 DEF CloseSocket, Goto
<1>10. CASE Unset(t)
  BY <1>10 DEF Unset, Goto, ClearConnected
<1>11. CASE Finish(t)
  BY <1>11 DEF Finish, Goto
<1>12. CASE LockMutex(t)
  BY <1>12 DEF LockMutex, Goto, Lock
<1>13. CASE \E u \in Users \union {NoUser} : Identify(t, u)
  BY <1>13 DEF Identify, Goto
<1>14. CASE \E u \in Users \union {NoUser} : TurnAway(t, u)
  <2>1. connected' \subseteq Users
    BY <1>14 DEF TurnAway, ClearConnected
  <2>2. /\ pc' \in [Threads -> PCs]
        /\ status' \in [Slots -> {"CLOSED", "ACTIVE", "CLOSING"}]
    BY <1>14 DEF TurnAway, Closing, Goto
  <2> QED
    BY <1>14, <2>1, <2>2 DEF TurnAway
<1>15. CASE HangUp(t)
  BY <1>15 DEF HangUp, Closing, Goto
<1>16. CASE Exit(t)
  BY <1>16 DEF Exit, Closing, Goto, ClearConnected
<1>17. CASE Reply(t)
  BY <1>17 DEF Reply, Goto
<1>18. CASE Register(t)
  BY <1>18 DEF Register, Goto
<1>19. CASE Randomize(t)
  BY <1>19 DEF Randomize, Goto
<1>20. CASE Send(t)
  BY <1>20 DEF Send, Goto
<1>21. CASE WelcomeFails(t)
  BY <1>21 DEF WelcomeFails, Closing, Goto, ResetSlot
<1>22. CASE SendFails(t)
  BY <1>22 DEF SendFails, Closing, Goto
<1> QED
  BY <1>1, <1>2, <1>3, <1>4, <1>5, <1>6, <1>7, <1>8,
     <1>9, <1>10, <1>11, <1>12, <1>13, <1>14, <1>15, <1>16,
     <1>17, <1>18, <1>19, <1>20, <1>21, <1>22
     DEF ThreadAction, Peer, Step

LEMMA ThreadSession ==
  ASSUME TypeOK, Session, NEW t \in Threads, ThreadAction(t)
  PROVE  SessionOf(t)'
<1> USE DEF Session, SessionOf, ThreadAction, TypeOK, SharedTypeOK,
      ConnectionTypeOK, Live, Serving, Cleanup, User, slotVars, userVars,
      sharedVars, Users, NoUser
<1>1. CASE Welcome(t)
  BY <1>1 DEF Welcome, Goto, ResetSlot
<1>2. CASE Claim(t)
  <2>1. pc[t] = "claim" /\ pc'[t] = "stamp" /\ found'[t] = found[t]
    BY <1>2 DEF Claim, Goto
  <2>2. user'[conn'[t]] = found[t] /\ state'[conn'[t]] = "ENTRY"
    BY <1>2, <2>1 DEF Claim
  <2> QED
    BY <2>1, <2>2
<1>3. CASE StampAddress(t)
  BY <1>3 DEF StampAddress, Goto
<1>4. CASE Admit(t)
  BY <1>4 DEF Admit, Goto
<1>5. CASE SetRegistered(t)
  BY <1>5 DEF SetRegistered, Goto
<1>6. CASE SetRandom(t)
  BY <1>6 DEF SetRandom, Goto
<1>7. CASE MarkDirty(t)
  BY <1>7 DEF MarkDirty, Goto, Unlock
<1>8. CASE Release(t)
  BY <1>8 DEF Release, Goto, ClearConnected
<1>9. CASE CloseSocket(t)
  BY <1>9 DEF CloseSocket, Goto
<1>10. CASE Unset(t)
  BY <1>10 DEF Unset, Goto, ClearConnected
<1>11. CASE Finish(t)
  BY <1>11 DEF Finish, Goto
<1>12. CASE LockMutex(t)
  BY <1>12 DEF LockMutex, Goto, Lock
<1>13. CASE \E u \in Users \union {NoUser} : Identify(t, u)
  BY <1>13 DEF Identify, Goto
<1>14. CASE \E u \in Users \union {NoUser} : TurnAway(t, u)
  <2>1. pc[t] = "identify" /\ pc'[t] = "release" /\ UNCHANGED <<conn, user, state>>
    BY <1>14 DEF TurnAway, Closing, Goto
  <2> QED
    BY <2>1
<1>15. CASE HangUp(t)
  BY <1>15 DEF HangUp, Closing, Goto
<1>16. CASE Exit(t)
  BY <1>16 DEF Exit, Closing, Goto, ClearConnected
<1>17. CASE Reply(t)
  BY <1>17 DEF Reply, Goto
<1>18. CASE Register(t)
  BY <1>18 DEF Register, Goto
<1>19. CASE Randomize(t)
  BY <1>19 DEF Randomize, Goto
<1>20. CASE Send(t)
  BY <1>20 DEF Send, Goto
<1>21. CASE WelcomeFails(t)
  BY <1>21 DEF WelcomeFails, Closing, Goto, ResetSlot
<1>22. CASE SendFails(t)
  BY <1>22 DEF SendFails, Closing, Goto
<1> QED
  BY <1>1, <1>2, <1>3, <1>4, <1>5, <1>6, <1>7, <1>8,
     <1>9, <1>10, <1>11, <1>12, <1>13, <1>14, <1>15, <1>16,
     <1>17, <1>18, <1>19, <1>20, <1>21, <1>22
     DEF ThreadAction, Peer, Step

LEMMA ThreadOwnership ==
  ASSUME TypeOK, Ownership, NEW t \in Threads, LocalTo(t)
  PROVE  Ownership'
<1>1. t <= spawned
  BY DEF LocalTo, Ownership, TypeOK, Live, Serving, Cleanup, Threads
<1> USE DEF LocalTo, TypeOK, SharedTypeOK, ConnectionTypeOK, mainVars
<1>2. \A o \in Threads : pc'[o] \in Live => pc[o] \in Live
  OBVIOUS
<1>3. ASSUME NEW o \in Threads, pc'[o] \in Live
      PROVE  status'[conn[o]] # "CLOSED"
  <2>1. CASE o = t
    BY <2>1, <1>3 DEF Ownership
  <2>2. CASE o # t
    BY <2>2, <1>2, <1>3 DEF Ownership
  <2> QED
    BY <2>1, <2>2
<1>4. server_pc' # "find" => status'[next_client'] = "CLOSED"
  BY DEF Ownership
<1>5. \A o \in Threads : spawned' < o => pc'[o] = "none"
  BY <1>1 DEF Ownership, Threads
<1> QED
  BY <1>2, <1>3, <1>4, <1>5 DEF Ownership

\* The slot of another live thread is not the slot of t.
LEMMA OtherSlot ==
  ASSUME TypeOK, Ownership, NEW t \in Threads, LocalTo(t),
         NEW o \in Threads \ {t}, pc[o] \in Live
  PROVE  /\ pc'[o] = pc[o] /\ found'[o] = found[o] /\ conn'[o] = conn[o]
         /\ user'[conn[o]] = user[conn[o]] /\ state'[conn[o]] = state[conn[o]]
         /\ socket'[conn[o]] = socket[conn[o]]
  BY DEF LocalTo, Ownership, TypeOK, ConnectionTypeOK

LEMMA ThreadSessions ==
  ASSUME TypeOK, Ownership, Session, NEW t \in Threads, ThreadAction(t)
  PROVE  Session'
<1>1. LocalTo(t)
  BY ThreadEffect
<1>2. ASSUME NEW o \in Threads \ {t}
      PROVE  SessionOf(o)'
  <2>1. CASE pc[o] \in Live
    <3>1. SessionOf(o) /\ registered \subseteq registered'
      BY <1>1 DEF Session, LocalTo
    <3> QED
      BY <1>1, <2>1, <3>1, OtherSlot DEF SessionOf, User
  <2>2. CASE pc[o] \notin Live
    BY <1>1, <2>2 DEF SessionOf, LocalTo, Live, Serving, Cleanup
  <2> QED
    BY <2>1, <2>2
<1> QED
  BY <1>2, ThreadSession DEF Session

LEMMA ThreadLocking ==
  ASSUME TypeOK, Locking, NEW t \in Threads, LocalTo(t), UsesMutex(t)
  PROVE  Locking'
<1> USE DEF Locking, LocalTo, updateVars, Threads, Updater, Free
<1>1. CASE (pc[t] \in Critical <=> pc'[t] \in Critical) /\ mutex' = mutex
  BY <1>1
<1>2. CASE mutex = Free /\ mutex' = t /\ pc'[t] \in Critical
  BY <1>2
<1>3. CASE mutex = t /\ mutex' = Free /\ pc'[t] \notin Critical
  BY <1>3
<1> QED
  BY <1>1, <1>2, <1>3 DEF UsesMutex

LEMMA ThreadSockets ==
  ASSUME TypeOK, Ownership, Sockets, NEW t \in Threads, LocalTo(t), KeepsSocket(t)
  PROVE  Sockets'
<1>1. ASSUME NEW o \in Threads
      PROVE  /\ pc'[o] \in Live \ {"unset", "finish"} => socket'[conn'[o]]
             /\ pc'[o] \in {"unset", "finish"} => ~socket'[conn'[o]]
  <2>1. CASE o = t
    BY <2>1 DEF LocalTo, KeepsSocket, Sockets, TypeOK, ConnectionTypeOK,
      Live, Cleanup
  <2>2. CASE o # t /\ pc[o] \in Live
    BY <2>2, OtherSlot DEF Sockets
  <2>3. CASE o # t /\ pc[o] \notin Live
    BY <2>3 DEF LocalTo, Live, Cleanup
  <2> QED
    BY <2>1, <2>2, <2>3
<1>2. ASSUME NEW s \in Slots, status'[s] = "CLOSED", socket'[s]
      PROVE  server_pc' = "start" /\ next_client' = s
  <2>1. CASE s = conn[t]
    BY <1>2, <2>1 DEF LocalTo, KeepsSocket, Sockets, Ownership
  <2>2. CASE s # conn[t]
    BY <1>2, <2>2 DEF LocalTo, Sockets, mainVars
  <2> QED
    BY <2>1, <2>2
<1>3. server_pc' = "start" => socket'[next_client']
  BY DEF LocalTo, Sockets, Ownership, TypeOK, mainVars
<1> QED
  BY <1>1, <1>2, <1>3 DEF Sockets

LEMMA ThreadFlags ==
  ASSUME TypeOK, Ownership, NoGhostLogin, NEW t \in Threads, LocalTo(t),
         KeepsFlag(t)
  PROVE  NoGhostLogin'
<1> SUFFICES ASSUME NEW u \in connected'
             PROVE  \E o \in Threads : pc'[o] \in Flagging /\ User(o)' = u
  BY DEF NoGhostLogin, Flagging
<1>1. CASE pc'[t] \in Flagging /\ User(t)' = u
  BY <1>1
<1>2. CASE u \in connected /\ ~(pc[t] \in Flagging /\ User(t) = u)
  <2>1. PICK o \in Threads : pc[o] \in Flagging /\ User(o) = u
    BY <1>2 DEF NoGhostLogin, Flagging
  <2>2. o # t /\ pc[o] \in Live
    BY <1>2, <2>1 DEF Flagging, Live
  <2> QED
    BY <2>1, <2>2, OtherSlot DEF User
<1> QED
  BY <1>1, <1>2 DEF KeepsFlag

LEMMA ThreadSnapshot ==
  ASSUME Inv, NEW t \in Threads, LocalTo(t), TracksChange(t)
  PROVE  Snapshot' /\ SavedOrDirty'
<1>1. CASE Changes(t) /\ dirty' = dirty
  <2>1. User(t) \in Users
    BY <1>1 DEF Changes, Inv, Session, SessionOf, Serving
  <2>2. upc \notin {"open", "write"}
    BY <1>1 DEF Changes, Critical, Inv, Locking, Updater, Threads
  <2>3. \A u \in Users : u \in registered' <=> profile'[u] # NoProfile
    BY <1>1, <2>1, SharedAssumption
       DEF Changes, Inv, Snapshot, TypeOK, SharedTypeOK
  <2>4. Snapshot'
    BY <1>1, <2>2, <2>3 DEF Changes, Inv, Snapshot, LocalTo, updateVars
  <2>5. Changing'
    BY <1>1 DEF Changes, Changing
  <2> QED
    BY <2>4, <2>5 DEF SavedOrDirty
<1>2. CASE UNCHANGED <<registered, profile>>
  <2>1. \A u \in Users : RecordOf(u).profile' = RecordOf(u).profile
    BY <1>2 DEF RecordOf, NoRecord
  <2>2. Snapshot'
    BY <1>2, <2>1 DEF Inv, Snapshot, LocalTo, updateVars
  <2>3. CASE dirty'
    BY <2>2, <2>3 DEF SavedOrDirty
  <2>4. CASE dirty' = dirty /\ pc[t] # "mark"
    <3>1. Changing => Changing'
      BY <2>4 DEF Changing, LocalTo
    <3>2. Saving => Saving'
      BY <2>1 DEF Saving, LocalTo, updateVars
    <3>3. Saved => Saved'
      BY <2>1 DEF Saved, LocalTo, updateVars
    <3> QED
      BY <2>2, <2>4, <3>1, <3>2, <3>3 DEF SavedOrDirty, Inv
  <2> QED
    BY <1>2, <2>3, <2>4 DEF TracksChange, Changes, LocalTo
<1> QED
  BY <1>1, <1>2 DEF TracksChange

LEMMA ThreadInv ==
  ASSUME Inv, NEW t \in Threads, ThreadAction(t)
  PROVE  Inv'
<1>1. /\ LocalTo(t) /\ UsesMutex(t) /\ KeepsSocket(t)
      /\ KeepsFlag(t) /\ TracksChange(t)
  BY ThreadEffect DEF Inv
<1> QED
  BY <1>1, ThreadType, ThreadOwnership, ThreadSessions, ThreadLocking,
     ThreadSockets, ThreadFlags, ThreadSnapshot DEF Inv

-----------------------------------------------------------------------------
(***************************************************************************)
(* The update thread.                                                      *)
(***************************************************************************)
UpdateAction == UpdateNext /\ UNCHANGED <<threadVars, mainVars>>

\* It leaves the slots and the users alone.
LEMMA UpdateEffect ==
  ASSUME UpdateAction
  PROVE  UNCHANGED <<slotVars, userVars, threadVars, mainVars>>
  BY DEF UpdateAction, UpdateNext, SeeDirty, ClearDirty, OpenFile, OpenFails,
    WriteRecord, CloseFile, sharedVars

LEMMA UpdateType ==
  ASSUME TypeOK, UpdateAction
  PROVE  TypeOK'
<1> USE DEF UpdateAction, TypeOK, SharedTypeOK, ConnectionTypeOK, UpdateTypeOK,
      sharedVars, slotVars, userVars, lockVars, threadVars, mainVars, Users
<1>1. CASE SeeDirty
  BY <1>1 DEF SeeDirty, GotoU
<1>2. CASE ClearDirty
  BY <1>2 DEF ClearDirty, GotoU, Lock, Updater
<1>3. CASE OpenFile
  BY <1>3, SharedAssumption DEF OpenFile, GotoU, NoFile, NoRecord
<1>4. CASE OpenFails
  BY <1>4 DEF OpenFails, GotoU, Unlock, Free
<1>5. CASE WriteRecord
  BY <1>5, SharedAssumption DEF WriteRecord, RecordOf, NoRecord
<1>6. CASE CloseFile
  BY <1>6, SharedAssumption
     DEF CloseFile, GotoU, Unlock, Free, NoFile, NoRecord
<1> QED
  BY <1>1, <1>2, <1>3, <1>4, <1>5, <1>6 DEF UpdateNext

LEMMA UpdateLocking ==
  ASSUME TypeOK, Locking, UpdateAction
  PROVE  Locking'
<1> USE DEF UpdateAction, Locking, threadVars, Threads, Updater, Free
<1>1. CASE SeeDirty
  BY <1>1 DEF SeeDirty, GotoU, sharedVars, lockVars
<1>2. CASE ClearDirty
  BY <1>2 DEF ClearDirty, GotoU, Lock
<1>3. CASE OpenFile
  BY <1>3 DEF OpenFile, GotoU, sharedVars, lockVars
<1>4. CASE OpenFails
  BY <1>4 DEF OpenFails, GotoU, Unlock
<1>5. CASE WriteRecord
  BY <1>5 DEF WriteRecord, sharedVars, lockVars
<1>6. CASE CloseFile
  BY <1>6 DEF CloseFile, GotoU, Unlock
<1> QED
  BY <1>1, <1>2, <1>3, <1>4, <1>5, <1>6 DEF UpdateNext

\* When the file is closed, what was written is what is in memory.
LEMMA CloseFileSaves ==
  ASSUME TypeOK, Snapshot, CloseFile
  PROVE  \A u \in Users : file'[u].profile = RecordOf(u).profile
  BY SharedAssumption DEF CloseFile, GotoU, Snapshot, TypeOK, UpdateTypeOK, Users

LEMMA UpdateSnapshot ==
  ASSUME TypeOK, Snapshot, SavedOrDirty, UpdateAction
  PROVE  Snapshot' /\ SavedOrDirty'
<1>1. UNCHANGED <<registered, profile, pc>>
  BY UpdateEffect DEF userVars, threadVars
<1>2. \A u \in Users : RecordOf(u).profile' = RecordOf(u).profile
  BY <1>1 DEF RecordOf, NoRecord
<1>3. Changing => Changing'
  BY <1>1 DEF Changing
<1> USE DEF UpdateAction
<1>4. CASE SeeDirty
  BY <1>1, <1>2, <1>3, <1>4
     DEF SeeDirty, GotoU, Snapshot, SavedOrDirty, sharedVars, lockVars
<1>5. CASE ClearDirty
  <2>1. upc' = "open" /\ UNCHANGED <<cursor, out, file>>
    BY <1>5 DEF ClearDirty, GotoU
  <2> QED
    BY <1>1, <1>2, <2>1 DEF Snapshot, SavedOrDirty, Saving
<1>6. CASE OpenFile
  <2>1. upc = "open" /\ upc' = "write" /\ cursor' = 1 /\ UNCHANGED <<file, dirty>>
    BY <1>6 DEF OpenFile, GotoU, sharedVars, lockVars
  <2>2. \A u \in Users : ~(u < cursor')
    BY <2>1 DEF Users
  <2> QED
    BY <1>1, <1>2, <2>1, <2>2 DEF Snapshot, SavedOrDirty, Saving
<1>7. CASE OpenFails
  <2>1. upc' = "check" /\ dirty' /\ UNCHANGED <<cursor, out, file>>
    BY <1>7 DEF OpenFails, GotoU
  <2> QED
    BY <1>1, <2>1 DEF Snapshot, SavedOrDirty
<1>8. CASE WriteRecord
  <2>1. upc = "write" /\ upc' = "write" /\ file' = file /\ cursor' = cursor + 1
        /\ out' = [out EXCEPT ![cursor] = RecordOf(cursor)]
    BY <1>8 DEF WriteRecord
  <2>2. ASSUME NEW u \in Users, u < cursor'
        PROVE  out'[u].profile = RecordOf(u).profile'
    BY <1>2, <2>1, <2>2 DEF Snapshot, TypeOK, UpdateTypeOK, Users
  <2> QED
    BY <1>1, <2>1, <2>2 DEF Snapshot, SavedOrDirty, Saving
<1>9. CASE CloseFile
  <2>1. Saved'
    BY <1>2, <1>9, CloseFileSaves DEF Saved
  <2>2. \A u \in Users : file'[u].profile # NoProfile => u \in registered
    BY <1>9, CloseFileSaves DEF RecordOf, NoRecord
  <2>3. upc' = "check"
    BY <1>9 DEF CloseFile, GotoU
  <2> QED
    BY <1>1, <2>1, <2>2, <2>3 DEF Snapshot, SavedOrDirty
<1> QED
  BY <1>4, <1>5, <1>6, <1>7, <1>8, <1>9 DEF UpdateNext

LEMMA UpdateInv ==
  ASSUME Inv, UpdateAction
  PROVE  Inv'
<1>1. UNCHANGED <<slotVars, userVars, threadVars, mainVars>>
  BY UpdateEffect
<1>2. Ownership' /\ Session' /\ Sockets' /\ NoGhostLogin'
  BY <1>1 DEF Inv, Ownership, Session, SessionOf, Sockets, NoGhostLogin, User,
    slotVars, userVars, threadVars, mainVars
<1> QED
  BY <1>2, UpdateType, UpdateLocking, UpdateSnapshot DEF Inv

-----------------------------------------------------------------------------
(***************************************************************************)
(* The main thread.                                                        *)
(***************************************************************************)

\* It changes neither the users nor the mutex nor a thread that exists.
LEMMA MainEffect ==
  ASSUME MainNext
  PROVE  UNCHANGED <<userVars, lockVars, updateVars, user, state, found>>
  BY DEF MainNext, TakeSlot, SkipSlot, AcceptFails, Accept, StartThread,
    StartThreadFails, Activate, sharedVars, slotVars, threadVars

LEMMA MainType ==
  ASSUME TypeOK, MainNext
  PROVE  TypeOK'
<1> USE SharedAssumption DEF TypeOK, SharedTypeOK, ConnectionTypeOK,
      UpdateTypeOK, sharedVars, slotVars, userVars, lockVars, threadVars,
      updateVars, Slots, Threads
<1>1. CASE TakeSlot
  BY <1>1 DEF TakeSlot, GotoM
<1>2. CASE SkipSlot
  BY <1>2 DEF SkipSlot
<1>3. CASE AcceptFails
  BY <1>3 DEF AcceptFails, GotoM
<1>4. CASE \E a \in Addrs : Accept(a)
  BY <1>4 DEF Accept, GotoM
<1>5. CASE StartThread
  BY <1>5 DEF StartThread, Activate, GotoM, PCs, Live
<1>6. CASE StartThreadFails
  BY <1>6 DEF StartThreadFails, Activate, GotoM
<1> QED
  BY <1>1, <1>2, <1>3, <1>4, <1>5, <1>6 DEF MainNext

\* A new thread gets a slot that no live thread has.
NewThread(n) ==
  /\ spawned' = n /\ spawned = n - 1
  /\ pc[n] = "none" /\ pc'[n] = "welcome" /\ conn'[n] = next_client
  /\ status'[next_client] = "ACTIVE"
  /\ \A o \in Threads \ {n} : pc'[o] = pc[o] /\ conn'[o] = conn[o]
  /\ \A o \in Threads : pc[o] \in Live => conn[o] # next_client
  /\ \A s \in Slots \ {next_client} : status'[s] = status[s]
  /\ server_pc = "start" /\ server_pc' = "find" /\ UNCHANGED socket

LEMMA StartThreadEffect ==
  ASSUME TypeOK, Ownership, StartThread
  PROVE  spawned + 1 \in Threads /\ NewThread(spawned + 1)
  BY SharedAssumption DEF NewThread, StartThread, Activate, GotoM, TypeOK,
    SharedTypeOK, ConnectionTypeOK, Ownership, Threads

LEMMA MainOwnership ==
  ASSUME TypeOK, Ownership, MainNext
  PROVE  Ownership'
<1>0. StartThread => spawned + 1 \in Threads /\ NewThread(spawned + 1)
  BY StartThreadEffect
<1> USE SharedAssumption DEF TypeOK, SharedTypeOK, ConnectionTypeOK, sharedVars,
      slotVars, threadVars, Slots
<1>1. CASE TakeSlot
  BY <1>1 DEF TakeSlot, GotoM, Ownership
<1>2. CASE SkipSlot
  BY <1>2 DEF SkipSlot, Ownership
<1>3. CASE AcceptFails
  BY <1>3 DEF AcceptFails, GotoM, Ownership
<1>4. CASE \E a \in Addrs : Accept(a)
  BY <1>4 DEF Accept, GotoM, Ownership
<1>5. CASE StartThread
  <2>1. spawned + 1 \in Threads /\ NewThread(spawned + 1)
    BY <1>0, <1>5
  <2> HIDE DEF TypeOK
  <2>2. \A o \in Threads : pc'[o] \in Live => status'[conn'[o]] # "CLOSED"
    <3>1. pc'[spawned + 1] \in Live => status'[conn'[spawned + 1]] # "CLOSED"
      BY <2>1 DEF NewThread
    <3>2. ASSUME NEW o \in Threads \ {spawned + 1}, pc'[o] \in Live
          PROVE  status'[conn'[o]] # "CLOSED"
      <4>1. pc[o] \in Live /\ conn'[o] = conn[o] /\ conn[o] # next_client
        BY <2>1, <3>2 DEF NewThread
      <4>2. conn[o] \in Slots
        BY DEF TypeOK
      <4> QED
        BY <2>1, <4>1, <4>2 DEF NewThread, Ownership
    <3> QED
      BY <3>1, <3>2
  <2>3. \A o \in Threads : spawned' < o => pc'[o] = "none"
    BY <2>1 DEF NewThread, Ownership, Threads
  <2>4. \A t1, t2 \in Threads :
          pc'[t1] \in Live /\ pc'[t2] \in Live /\ conn'[t1] = conn'[t2] => t1 = t2
    BY <2>1 DEF NewThread, Ownership
  <2> QED
    BY <2>1, <2>2, <2>3, <2>4 DEF NewThread, Ownership
<1>6. CASE StartThreadFails
  BY <1>6 DEF StartThreadFails, Activate, GotoM, Ownership
<1> QED
  BY <1>1, <1>2, <1>3, <1>4, <1>5, <1>6 DEF MainNext

LEMMA MainSockets ==
  ASSUME TypeOK, Ownership, Sockets, MainNext
  PROVE  Sockets'
<1>0. StartThread => NewThread(spawned + 1)
  BY StartThreadEffect
<1> USE SharedAssumption DEF TypeOK, SharedTypeOK, ConnectionTypeOK, Sockets,
      sharedVars, slotVars, threadVars, Slots
<1>1. CASE TakeSlot
  BY <1>1 DEF TakeSlot, GotoM
<1>2. CASE SkipSlot
  BY <1>2 DEF SkipSlot
<1>3. CASE AcceptFails
  BY <1>3 DEF AcceptFails, GotoM
<1>4. CASE \E a \in Addrs : Accept(a)
  BY <1>4 DEF Accept, GotoM, Ownership, Live, Cleanup
<1>5. CASE StartThread
  <2>1. NewThread(spawned + 1)
    BY <1>0, <1>5
  <2>2. \A o \in Threads : o # spawned + 1 => pc'[o] = pc[o] /\ conn'[o] = conn[o]
    BY <2>1 DEF NewThread
  <2>3. \A s \in Slots : status'[s] = "CLOSED" => status[s] = "CLOSED" /\ s # next_client
    BY <2>1 DEF NewThread
  <2> QED
    BY <2>1, <2>2, <2>3 DEF NewThread, Live, Cleanup
<1>6. CASE StartThreadFails
  BY <1>6 DEF StartThreadFails, Activate, GotoM
<1> QED
  BY <1>1, <1>2, <1>3, <1>4, <1>5, <1>6 DEF MainNext

\* Every other conjunct only looks at threads that have been welcomed.
LEMMA MainThreads ==
  ASSUME TypeOK, Ownership, MainNext, NEW o \in Threads
  PROVE  \/ pc'[o] = pc[o] /\ conn'[o] = conn[o]
         \/ pc[o] = "none" /\ pc'[o] = "welcome"
<1>1. CASE StartThread
  BY <1>1, StartThreadEffect DEF NewThread
<1>2. CASE ~StartThread
  BY <1>2 DEF MainNext, TakeSlot, SkipSlot, AcceptFails, Accept,
    StartThreadFails, threadVars
<1> QED
  BY <1>1, <1>2

LEMMA MainInv ==
  ASSUME Inv, MainNext
  PROVE  Inv'
<1> USE DEF Inv
<1>1. TypeOK' /\ Ownership' /\ Sockets'
  BY MainType, MainOwnership, MainSockets
<1>2. UNCHANGED <<userVars, lockVars, updateVars, user, state, found>>
  BY MainEffect
<1>3. Session'
  BY <1>2, MainThreads DEF Session, SessionOf, User, Serving, Cleanup, userVars
<1>4. Locking'
  BY <1>2, MainThreads DEF Locking, Critical, lockVars, updateVars
<1>5. NoGhostLogin'
  <2> SUFFICES ASSUME NEW u \in connected'
               PROVE  \E o \in Threads : pc'[o] \in Flagging /\ User(o)' = u
    BY DEF NoGhostLogin, Flagging
  <2>1. PICK o \in Threads : pc[o] \in Flagging /\ User(o) = u
    BY <1>2 DEF NoGhostLogin, Flagging, userVars
  <2>2. pc[o] # "none"
    BY <2>1 DEF Flagging, Serving, Cleanup
  <2> QED
    BY <1>2, <2>1, <2>2, MainThreads DEF User
<1>6. Snapshot'
  BY <1>2 DEF Snapshot, RecordOf, userVars, updateVars
<1>7. SavedOrDirty'
  <2>1. Changing => Changing'
    BY MainThreads DEF Changing
  <2> QED
    BY <1>2, <2>1 DEF SavedOrDirty, Saved, Saving, RecordOf, userVars, lockVars,
      updateVars
<1> QED
  BY <1>1, <1>3, <1>4, <1>5, <1>6, <1>7

-----------------------------------------------------------------------------
(***************************************************************************)
(* The invariant holds.                                                    *)
(***************************************************************************)
LEMMA InitInv == Init => Inv
<1> SUFFICES ASSUME Init PROVE Inv
  OBVIOUS
<1> USE SharedAssumption DEF Init, SharedInit, InitializeServer,
         ReadRegisteredFileIntoUsersMap, InitializeShared, ConnectionInit, UpdateInit
<1>1. TypeOK
  <2>1. SharedTypeOK
    <3>1. \A u \in Users : /\ file[u].profile \in Profiles \union {NoProfile}
                           /\ file[u].ip \in Addrs \union {NoAddr}
      BY DEF Record, NoRecord
    <3>2. /\ profile \in [Users -> Profiles \union {NoProfile}]
          /\ ip \in [Users -> Addrs \union {NoAddr}]
      BY <3>1
    <3>3. registered \subseteq Users
      OBVIOUS
    <3> QED
      BY <3>2, <3>3 DEF SharedTypeOK, Slots
  <2>2. ConnectionTypeOK
    BY DEF ConnectionTypeOK, PCs, Slots
  <2>3. UpdateTypeOK
    BY DEF UpdateTypeOK, Record, NoRecord, NoFile
  <2> QED
    BY <2>1, <2>2, <2>3 DEF TypeOK, Slots
<1>2. Ownership /\ Session
  BY DEF Ownership, Session, SessionOf, Live, Serving, Cleanup
<1>3. Locking
  BY DEF Locking, Critical, Free, Updater, Threads
<1>4. Sockets /\ NoGhostLogin
  BY DEF Sockets, NoGhostLogin, Live, Serving, Cleanup
<1>5. \A u \in Users : /\ u \in registered <=> file[u].profile # NoProfile
                       /\ profile[u] = file[u].profile
  BY DEF Record, NoRecord
<1>6. Saved
  BY <1>5 DEF Saved, RecordOf, NoRecord
<1>7. Snapshot
  BY <1>5 DEF Snapshot
<1> QED
  BY <1>1, <1>2, <1>3, <1>4, <1>6, <1>7 DEF Inv, SavedOrDirty

LEMMA StepInv == Inv /\ [Next]_vars => Inv'
<1> SUFFICES ASSUME Inv, [Next]_vars PROVE Inv'
  OBVIOUS
<1>1. CASE ConnectionNext /\ UNCHANGED <<updateVars, mainVars>>
  BY <1>1, ThreadInv DEF ConnectionNext, ThreadAction
<1>2. CASE UpdateNext /\ UNCHANGED <<threadVars, mainVars>>
  BY <1>2, UpdateInv DEF UpdateAction
<1>3. CASE MainNext
  BY <1>3, MainInv
<1>4. CASE UNCHANGED vars
  BY <1>4 DEF vars, Inv, TypeOK, SharedTypeOK, ConnectionTypeOK, UpdateTypeOK,
    Ownership, Session, SessionOf, Locking, Sockets, NoGhostLogin, Snapshot,
    SavedOrDirty, Saved, Saving, Changing, RecordOf, User, sharedVars, slotVars,
    userVars, lockVars, threadVars, updateVars, mainVars
<1> QED
  BY <1>1, <1>2, <1>3, <1>4 DEF Next

LEMMA InvHolds == Spec => []Inv
  BY InitInv, StepInv, PTL DEF Spec

-----------------------------------------------------------------------------
(***************************************************************************)
(* The theorems.                                                           *)
(***************************************************************************)

(***************************************************************************)
(* Every variable keeps its type: no slot, user or thread outside the      *)
(* arrays is ever named, and registered and connected hold real users.     *)
(***************************************************************************)
THEOREM TypeCorrect == Spec => []TypeOK
<1>1. Inv => TypeOK
  BY DEF Inv
<1> QED
  BY <1>1, InvHolds, PTL

(***************************************************************************)
(* A slot of connections[] is one thread's, and accept never writes to a   *)
(* slot that a thread still uses.                                          *)
(***************************************************************************)
THEOREM SlotsNotShared == Spec => []SlotHasOneOwner
<1>1. Inv => SlotHasOneOwner
  BY DEF Inv, Ownership, SlotHasOneOwner, Holds
<1> QED
  BY <1>1, InvHolds, PTL

(***************************************************************************)
(* No descriptor is used after close or lost when its slot is used again.  *)
(***************************************************************************)
THEOREM SocketsFollowSlots == Spec => []SocketFollowsSlot
<1>1. Inv => SocketFollowsSlot
  BY DEF Inv, Sockets, SocketFollowsSlot
<1> QED
  BY <1>1, InvHolds, PTL

(***************************************************************************)
(* The mutex keeps the connection threads and the update thread apart.     *)
(***************************************************************************)
THEOREM MutexExcludes == Spec => []MutualExclusion
<1>1. ASSUME Inv PROVE MutualExclusion
  <2> USE DEF Locking, InCritical, Threads, Updater, Free
  <2>1. TypeOK /\ Locking
    BY <1>1 DEF Inv
  <2>2. CASE mutex = Free
    <3>1. \A t \in Threads : pc[t] \notin Critical
      BY <2>1, <2>2
    <3> QED
      BY <2>1, <2>2, <3>1 DEF MutualExclusion
  <2>3. CASE mutex = Updater
    <3>1. \A t \in Threads : pc[t] \notin Critical
      BY <2>1, <2>3
    <3> QED
      BY <2>1, <2>3, <3>1 DEF MutualExclusion
  <2>4. CASE mutex \in Threads
    <3>1. \A t \in Threads : pc[t] \in Critical <=> t = mutex
      BY <2>1, <2>4
    <3>2. upc \notin {"open", "write"}
      BY <2>1, <2>4
    <3> QED
      BY <2>4, <3>1, <3>2 DEF MutualExclusion
  <2> QED
    BY <2>1, <2>2, <2>3, <2>4 DEF TypeOK, SharedTypeOK
<1> QED
  BY <1>1, InvHolds, PTL

(***************************************************************************)
(* A thread takes commands only after a login, and a registered user's     *)
(* commands only from a registered user.                                   *)
(***************************************************************************)
THEOREM SessionsAreLoggedIn == Spec => []LoggedInSession
<1>1. ASSUME Inv PROVE LoggedInSession
  <2> SUFFICES ASSUME NEW t \in Threads
      PROVE /\ pc[t] \in Serving \ {"claim"}
                 => User(t) = found[t] /\ User(t) # NoUser
            /\ pc[t] \in Serving \ {"claim", "stamp", "admit"}
                 => state[conn[t]] # "ENTRY"
            /\ pc[t] \in Live \ {"welcome"} /\ state[conn[t]] = "REGISTERED"
                 => User(t) \in registered
    BY DEF LoggedInSession
  <2>1. SessionOf(t)
    BY <1>1 DEF Inv, Session
  <2> QED
    BY <2>1 DEF SessionOf, Users, NoUser
<1> QED
  BY <1>1, InvHolds, PTL

(***************************************************************************)
(* Nobody is listed as connected after the last of their threads is done.  *)
(***************************************************************************)
THEOREM NoGhosts == Spec => []NoGhostLogin
<1>1. Inv => NoGhostLogin
  BY DEF Inv
<1> QED
  BY <1>1, InvHolds, PTL

(***************************************************************************)
(* A user's connected flag is taken away only by a thread of that user.    *)
(***************************************************************************)
THEOREM LogoutIsOwn == Spec => OnlyOwnLogout
<1> DEFINE Own == \A u \in connected \ connected' :
                    \E t \in Threads : pc[t] # pc'[t] /\ found[t] = u
<1>1. ASSUME Inv, [Next]_vars PROVE Own
  <2>1. ASSUME NEW t \in Threads, ThreadAction(t) PROVE Own
    BY <1>1, <2>1, ThreadEffect DEF Inv, LogsOutSelf
  <2>2. CASE UpdateAction \/ MainNext \/ UNCHANGED vars
    BY <2>2, UpdateEffect, MainEffect DEF userVars, vars, sharedVars
  <2> QED
    BY <1>1, <2>1, <2>2 DEF Next, ConnectionNext, ThreadAction, UpdateAction
<1>2. Inv /\ [Next]_vars => [Own]_vars
  BY <1>1
<1> QED
  BY <1>2, InvHolds, PTL DEF Spec, OnlyOwnLogout

(***************************************************************************)
(* No change of age, gpa or registration is forgotten by the dirty flag.   *)
(***************************************************************************)
THEOREM ChangesNotForgotten == Spec => []SavedOrDirty
<1>1. Inv => SavedOrDirty
  BY DEF Inv
<1> QED
  BY <1>1, InvHolds, PTL

(***************************************************************************)
(* Registration is never undone, in memory or in the file.                 *)
(***************************************************************************)
THEOREM RegistrationLasts == Spec => StaysRegistered
<1> DEFINE Lasts == /\ registered \subseteq registered'
                    /\ \A u \in Users :
                         file[u].profile # NoProfile => file'[u].profile # NoProfile
<1>1. ASSUME Inv, [Next]_vars PROVE Lasts
  <2>1. ASSUME NEW t \in Threads, ThreadAction(t) PROVE Lasts
    BY <1>1, <2>1, ThreadEffect DEF Inv, LocalTo, updateVars
  <2>2. CASE UpdateAction
    <3>1. registered' = registered
      BY <2>2, UpdateEffect DEF userVars
    <3>2. CASE CloseFile
      BY <1>1, <3>1, <3>2, CloseFileSaves DEF Inv, Snapshot, RecordOf
    <3>3. CASE ~CloseFile
      BY <2>2, <3>1, <3>3 DEF UpdateAction, UpdateNext, SeeDirty, ClearDirty,
        OpenFile, OpenFails, WriteRecord
    <3> QED
      BY <3>2, <3>3
  <2>3. CASE MainNext
    BY <2>3, MainEffect DEF userVars, updateVars
  <2>4. CASE UNCHANGED vars
    BY <2>4 DEF vars, sharedVars, userVars, updateVars
  <2> QED
    BY <1>1, <2>1, <2>2, <2>3, <2>4
       DEF Next, ConnectionNext, ThreadAction, UpdateAction
<1>2. Inv /\ [Next]_vars => [Lasts]_vars
  BY <1>1
<1> QED
  BY <1>2, InvHolds, PTL DEF Spec, StaysRegistered

-----------------------------------------------------------------------------
(***************************************************************************)
(* The refinement: memory and disk of WriteBehind are the profiles that    *)
(* would be written and those that are in the file.                        *)
(***************************************************************************)
Memory == [u \in Users |-> RecordOf(u).profile]
Disk   == [u \in Users |-> file[u].profile]

LEMMA MemoryKept ==
  ASSUME UNCHANGED <<registered, profile>>
  PROVE  UNCHANGED Memory
  BY DEF Memory, RecordOf, NoRecord

LEMMA DiskKept ==
  ASSUME UNCHANGED file
  PROVE  UNCHANGED Disk
  BY DEF Disk

\* A thread's step is a Change of its own user, or nothing.
LEMMA ThreadChanges ==
  ASSUME Inv, NEW t \in Threads, ThreadAction(t)
  PROVE  \/ UNCHANGED <<Memory, Disk>>
         \/ \E u \in Users, p \in Profiles :
              Memory' = [Memory EXCEPT ![u] = p] /\ UNCHANGED Disk
<1>1. TracksChange(t) /\ UNCHANGED file
  BY ThreadEffect DEF Inv, LocalTo, updateVars
<1>2. UNCHANGED Disk
  BY <1>1, DiskKept
<1>3. CASE UNCHANGED <<registered, profile>>
  BY <1>2, <1>3, MemoryKept
<1>4. CASE Changes(t)
  <2>1. User(t) \in Users
    BY <1>4 DEF Changes, Inv, Session, SessionOf, Serving
  <2>2. PICK p \in Profiles : profile' = [profile EXCEPT ![User(t)] = p]
    BY <1>4 DEF Changes
  <2>3. registered' = registered \union {User(t)}
    BY <1>4 DEF Changes
  <2>4. profile \in [Users -> Profiles \union {NoProfile}]
    BY DEF Inv, TypeOK, SharedTypeOK
  <2>5. ASSUME NEW u \in Users
        PROVE  RecordOf(u).profile' =
                 IF u = User(t) THEN p ELSE RecordOf(u).profile
    BY <2>1, <2>2, <2>3, <2>4 DEF RecordOf, NoRecord
  <2>6. Memory' = [u \in Users |-> IF u = User(t) THEN p ELSE Memory[u]]
    BY <2>5 DEF Memory
  <2>7. Memory' = [Memory EXCEPT ![User(t)] = p]
    BY <2>6 DEF Memory
  <2> QED
    BY <1>2, <2>1, <2>7
<1> QED
  BY <1>1, <1>3, <1>4 DEF TracksChange

\* A step of the update thread is a Save, or nothing.
LEMMA UpdateSaves ==
  ASSUME Inv, UpdateAction
  PROVE  UNCHANGED Memory /\ (Disk' = Memory \/ UNCHANGED Disk)
<1>1. UNCHANGED Memory
  BY UpdateEffect, MemoryKept DEF userVars
<1>2. CASE CloseFile
  BY <1>1, <1>2, CloseFileSaves DEF Disk, Memory, Inv
<1>3. CASE ~CloseFile
  BY <1>1, <1>3, DiskKept DEF UpdateAction, UpdateNext, SeeDirty, ClearDirty,
    OpenFile, OpenFails, WriteRecord
<1> QED
  BY <1>1, <1>2, <1>3

(***************************************************************************)
(* The server implements WriteBehind's safety part: what a client changes  *)
(* is in memory at once, and the file only ever goes from one snapshot of  *)
(* all the users' records to a later one.                                  *)
(***************************************************************************)
THEOREM ServerWritesBehind == Spec => SnapshotsOfRecords
<1>1. Init => Records!Init
  <2> SUFFICES ASSUME Init PROVE Records!Init
    OBVIOUS
  <2>1. Inv
    BY InitInv
  <2>2. \A u \in Users : file[u].profile = RecordOf(u).profile
    BY <2>1, SharedAssumption DEF Init, SharedInit, InitializeServer,
         ReadRegisteredFileIntoUsersMap, InitializeShared, UpdateInit, RecordOf,
      Record, NoRecord
  <2>3. \A u \in Users : RecordOf(u).profile \in Profiles \union {NoProfile}
    BY <2>1 DEF Inv, TypeOK, SharedTypeOK, RecordOf, NoRecord
  <2> QED
    BY <2>2, <2>3 DEF Records!Init
<1>2. Inv /\ [Next]_vars => [Records!Next]_(Records!vars)
  <2> SUFFICES ASSUME Inv, [Next]_vars
      PROVE \/ UNCHANGED <<Memory, Disk>>
            \/ \E u \in Users, p \in Profiles :
                 Memory' = [Memory EXCEPT ![u] = p] /\ UNCHANGED Disk
            \/ Disk' = Memory /\ UNCHANGED Memory
    BY DEF Records!Next, Records!vars, Records!Change, Records!Save, Memory, Disk
  <2>1. CASE ConnectionNext /\ UNCHANGED <<updateVars, mainVars>>
    BY <2>1, ThreadChanges DEF ConnectionNext, ThreadAction
  <2>2. CASE UpdateNext /\ UNCHANGED <<threadVars, mainVars>>
    BY <2>2, UpdateSaves DEF UpdateAction
  <2>3. CASE MainNext
    BY <2>3, MainEffect, MemoryKept, DiskKept DEF userVars, updateVars
  <2>4. CASE UNCHANGED vars
    BY <2>4, MemoryKept, DiskKept DEF vars, sharedVars, userVars, updateVars
  <2> QED
    BY <2>1, <2>2, <2>3, <2>4 DEF Next
<1> QED
  BY <1>1, <1>2, InvHolds, PTL DEF Spec, SnapshotsOfRecords, Records!Spec
=============================================================================
