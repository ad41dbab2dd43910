----------------------------- MODULE Connection -----------------------------
(***************************************************************************)
(* StartConnectionThread of Connection.c, one program counter per thread.  *)
(* A step ends where the thread blocks or where another thread can see or  *)
(* change what it reads next; what only this thread touches (its buffers,  *)
(* its slot while the slot is not CLOSED) is folded into the step around   *)
(* it.  The client and the network are external: a send fails or not, a    *)
(* recv returns a message, 0 or an error, as they please.                  *)
(***************************************************************************)
EXTENDS Shared

VARIABLES
  pc,      (* where each thread is; "none" before pthread_create            *)
  conn,    (* the thread's p_connection, a slot                             *)
  found    (* the local `user` once it has passed the check, else NoUser    *)

threadVars == <<pc, conn, found>>

Serving  == {"claim", "stamp", "admit", "loop", "command",
             "reg_lock", "reg_set", "rnd_lock", "rnd_set", "mark"}
Critical == {"reg_set", "rnd_set", "mark"}
Cleanup  == {"release", "close", "unset", "finish"}
Live     == {"welcome", "identify"} \union Serving \union Cleanup
PCs      == {"none", "exited"} \union Live

ConnectionInit ==
  /\ pc = [t \in Threads |-> "none"]
  /\ conn = [t \in Threads |-> 0]
  /\ found = [t \in Threads |-> NoUser]

ConnectionTypeOK ==
  /\ pc \in [Threads -> PCs]
  /\ conn \in [Threads -> Slots]
  /\ found \in [Threads -> Users \union {NoUser}]

Goto(t, from, to) ==
  /\ pc[t] = from
  /\ pc' = [pc EXCEPT ![t] = to]

User(t) == user[conn[t]]

\* Mutant of ClearConnected: only a registered session clears the flag.
ClearIfRegistered(t) ==
  connected' = IF state[conn[t]] = "REGISTERED" THEN connected \ {User(t)}
                                                ELSE connected

\* if(connection->user != NULL) connection->user->connected = 0
ClearConnected(t) == connected' = connected \ {User(t)}

\* connection->status = CLOSING: the thread falls through to its cleanup
Closing(t, from) ==
  /\ Goto(t, from, "release")
  /\ status' = [status EXCEPT ![conn[t]] = "CLOSING"]

(***************************************************************************)
(* The thread starts, resets its slot and greets the client.               *)
(***************************************************************************)
\* Mutant of ResetSlot: the user of the slot's last connection is left there.
ResetStateOnly(t) ==
  /\ state' = [state EXCEPT ![conn[t]] = "ENTRY"]
  /\ UNCHANGED user

ResetSlot(t) ==
  /\ state' = [state EXCEPT ![conn[t]] = "ENTRY"]
  /\ user' = [user EXCEPT ![conn[t]] = NoUser]

Welcome(t) ==
  /\ Goto(t, "welcome", "identify")
  /\ ResetSlot(t)
  /\ UNCHANGED <<status, socket, address, userVars, lockVars, conn, found>>

WelcomeFails(t) ==
  /\ Closing(t, "welcome")
  /\ ResetSlot(t)
  /\ UNCHANGED <<socket, address, userVars, lockVars, conn, found>>

(***************************************************************************)
(* The client answers with a user ID; NoUser stands for an ID that is not  *)
(* in the users map.  Reading user->connected is a step of its own: the    *)
(* flag is set one step later, and no lock is held in between.             *)
(***************************************************************************)
Identify(t, u) ==
  /\ u \in Users \ connected
  /\ Goto(t, "identify", "claim")
  /\ found' = [found EXCEPT ![t] = u]
  /\ UNCHANGED <<sharedVars, conn>>

\* "No such user" or "You are already connected.", then MessageAndClose.
TurnAway(t, u) ==
  /\ u = NoUser \/ u \in connected
  /\ Closing(t, "identify")
  /\ ClearConnected(t)
  /\ UNCHANGED <<socket, address, state, user, registered, profile, ip,
                 lockVars, conn, found>>

\* Mutant of Claim: connection->user is not assigned.
ClaimUnbound(t) ==
  /\ Goto(t, "claim", "stamp")
  /\ connected' = connected \union {found[t]}
  /\ UNCHANGED <<slotVars, registered, profile, ip, lockVars, conn, found>>

Claim(t) ==
  /\ Goto(t, "claim", "stamp")
  /\ user' = [user EXCEPT ![conn[t]] = found[t]]
  /\ connected' = connected \union {found[t]}
  /\ UNCHANGED <<status, socket, address, state, registered, profile, ip,
                 lockVars, conn, found>>

StampAddress(t) ==
  /\ Goto(t, "stamp", "admit")
  /\ ip' = [ip EXCEPT ![User(t)] = address[conn[t]]]
  /\ UNCHANGED <<slotVars, connected, registered, profile, lockVars,
                 conn, found>>

Admit(t) ==
  /\ Goto(t, "admit", "loop")
  /\ state' = [state EXCEPT ![conn[t]] =
                 IF User(t) \in registered THEN "REGISTERED" ELSE "ACCESSING"]
  /\ UNCHANGED <<status, socket, address, user, userVars, lockVars,
                 conn, found>>

(***************************************************************************)
(* The command loop.  MessageOrClose sends the answer to the last command  *)
(* (and may block there until the client reads) and then blocks in recv.   *)
(* The guard leaves out the branch "You entered an invalid state!", which  *)
(* LoggedInSession of module Server shows is never reached.                *)
(***************************************************************************)
Send(t) ==
  /\ state[conn[t]] # "ENTRY"
  /\ Goto(t, "loop", "command")
  /\ UNCHANGED <<sharedVars, conn, found>>

SendFails(t) ==
  /\ Closing(t, "loop")
  /\ UNCHANGED <<socket, address, state, user, userVars, lockVars, conn, found>>

\* recv returns 0 or an error.
HangUp(t) ==
  /\ \/ Closing(t, "identify")
     \/ Closing(t, "command")
  /\ UNCHANGED <<socket, address, state, user, userVars, lockVars, conn, found>>

\* "exit": MessageAndClose
Exit(t) ==
  /\ Closing(t, "command")
  /\ ClearConnected(t)
  /\ UNCHANGED <<socket, address, state, user, registered, profile, ip,
                 lockVars, conn, found>>

\* The commands that change nothing: help, who, myinfo, advertisement, a
\* second register and every message the session's state does not know.
Reply(t) ==
  /\ Goto(t, "command", "loop")
  /\ UNCHANGED <<sharedVars, conn, found>>

\* Mutant of Register: the mutex is not taken.
RegisterUnlocked(t) ==
  /\ state[conn[t]] = "ACCESSING"
  /\ User(t) \notin registered
  /\ Goto(t, "command", "reg_set")
  /\ UNCHANGED <<sharedVars, conn, found>>

\* "register": the flag is tested before the lock is taken.
Register(t) ==
  /\ state[conn[t]] = "ACCESSING"
  /\ User(t) \notin registered
  /\ Goto(t, "command", "reg_lock")
  /\ UNCHANGED <<sharedVars, conn, found>>

\* "random-gpa" and "random-age"
Randomize(t) ==
  /\ state[conn[t]] = "REGISTERED"
  /\ Goto(t, "command", "rnd_lock")
  /\ UNCHANGED <<sharedVars, conn, found>>

LockMutex(t) ==
  /\ \/ Goto(t, "reg_lock", "reg_set")
     \/ Goto(t, "rnd_lock", "rnd_set")
  /\ Lock(t)
  /\ UNCHANGED <<slotVars, userVars, dirty, conn, found>>

SetRegistered(t) ==
  /\ Goto(t, "reg_set", "mark")
  /\ registered' = registered \union {User(t)}
  /\ \E p \in Profiles : profile' = [profile EXCEPT ![User(t)] = p]
  /\ state' = [state EXCEPT ![conn[t]] = "REGISTERED"]
  /\ UNCHANGED <<status, socket, address, user, connected, ip, lockVars,
                 conn, found>>

SetRandom(t) ==
  /\ Goto(t, "rnd_set", "mark")
  /\ \E p \in Profiles : profile' = [profile EXCEPT ![User(t)] = p]
  /\ UNCHANGED <<slotVars, connected, registered, ip, lockVars, conn, found>>

MarkDirty(t) ==
  /\ Goto(t, "mark", "loop")
  /\ dirty' = TRUE
  /\ Unlock(t)
  /\ UNCHANGED <<slotVars, userVars, conn, found>>

(***************************************************************************)
(* The end of the thread.  The connected flag is cleared before and after  *)
(* the socket is closed; the slot is given back last.                      *)
(***************************************************************************)
Release(t) ==
  /\ Goto(t, "release", "close")
  /\ ClearConnected(t)
  /\ UNCHANGED <<slotVars, registered, profile, ip, lockVars, conn, found>>

\* Mutant of CloseSocket: the descriptor is forgotten.
ForgetSocket(t) ==
  /\ Goto(t, "close", "unset")
  /\ UNCHANGED <<sharedVars, conn, found>>

CloseSocket(t) ==
  /\ Goto(t, "close", "unset")
  /\ socket' = [socket EXCEPT ![conn[t]] = FALSE]
  /\ UNCHANGED <<status, address, state, user, userVars, lockVars, conn, found>>

Unset(t) ==
  /\ Goto(t, "unset", "finish")
  /\ ClearConnected(t)
  /\ UNCHANGED <<slotVars, registered, profile, ip, lockVars, conn, found>>

\* Mutant of Finish: the slot is not given back.
FinishOnly(t) ==
  /\ Goto(t, "finish", "exited")
  /\ UNCHANGED <<sharedVars, conn, found>>

Finish(t) ==
  /\ Goto(t, "finish", "exited")
  /\ status' = [status EXCEPT ![conn[t]] = "CLOSED"]
  /\ UNCHANGED <<socket, address, state, user, userVars, lockVars, conn, found>>

\* What the client and the network do next.
Peer(t) ==
  \/ \E u \in Users \union {NoUser} : Identify(t, u) \/ TurnAway(t, u)
  \/ HangUp(t) \/ Exit(t) \/ Reply(t) \/ Register(t) \/ Randomize(t)
  \/ WelcomeFails(t) \/ Send(t) \/ SendFails(t)

\* What the thread does of its own accord.
Step(t) ==
  \/ Welcome(t) \/ Claim(t) \/ StampAddress(t) \/ Admit(t)
  \/ SetRegistered(t) \/ SetRandom(t) \/ MarkDirty(t)
  \/ Release(t) \/ CloseSocket(t) \/ Unset(t) \/ Finish(t)

ConnectionNext == \E t \in Threads : Peer(t) \/ LockMutex(t) \/ Step(t)
=============================================================================
