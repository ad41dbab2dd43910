------------------------------- MODULE Shared -------------------------------
(***************************************************************************)
(* The data that the threads of one server process share: the connections  *)
(* array of Server.c, the User records of Data.h (reached through the      *)
(* users map), and ClientShared of Connection.h with its mutex and dirty   *)
(* flag.  Connection, UpdateThread and Server add the threads that act on  *)
(* them.                                                                   *)
(*                                                                         *)
(* A User's age and gpa are one value, its profile: the code only ever     *)
(* draws them at random and writes them out together.  Reads and writes of *)
(* a short (connected, dirty, status) are atomic: they are aligned machine *)
(* words, and each loop that polls one calls a function the compiler       *)
(* cannot see through.                                                     *)
(***************************************************************************)
EXTENDS Integers

CONSTANTS
  RECORD_COUNT,    (* the number of User records                            *)
  MaxConnections,  (* server.max_connections: the size of connections[]     *)
  MaxThreads,      (* bound: threads the process can create before          *)
                   (* pthread_create fails for good, since none is joined   *)
  Profiles,        (* the values of (age, gpa) of a registered user         *)
  Addrs,           (* the client addresses                                  *)
  NoProfile,       (* (0, 0.0): the user has not registered                 *)
  NoAddr           (* "": the user has never connected                      *)

ASSUME SharedAssumption ==
  /\ RECORD_COUNT \in Nat \ {0}
  /\ MaxConnections \in Nat \ {0}
  /\ MaxThreads \in Nat \ {0}
  /\ NoProfile \notin Profiles
  /\ NoAddr \notin Addrs

Users   == 1 .. RECORD_COUNT
NoUser  == 0                       \* connection->user == NULL
Slots   == 0 .. MaxConnections - 1
Threads == 1 .. MaxThreads

\* Holders of shared.mutex besides the connection threads.
Updater == 0
Free    == -1

\* What a line of the registered file says of a user, or that it has none.
Record   == [profile : Profiles, ip : Addrs]
NoRecord == [profile |-> NoProfile, ip |-> NoAddr]

VARIABLES
  status,      (* connections[s].status                                     *)
  socket,      (* whether connections[s].socket is an open descriptor       *)
  address,     (* connections[s].address                                    *)
  state,       (* connections[s].state                                      *)
  user,        (* connections[s].user                                       *)
  connected,   (* the users whose connected flag is 1                       *)
  registered,  (* the users whose registered flag is 1                      *)
  profile,     (* age and gpa of each user                                  *)
  ip,          (* ip of each user                                           *)
  mutex,       (* the holder of shared.mutex                                *)
  dirty        (* shared.dirty                                              *)

slotVars == <<status, socket, address, state, user>>
userVars == <<connected, registered, profile, ip>>
lockVars == <<mutex, dirty>>
sharedVars == <<slotVars, userVars, lockVars>>

(***************************************************************************)
(* The process has just initialised: every slot is CLOSED (what else the   *)
(* slots hold is set before it is read), no user is connected, and the     *)
(* records are those that Initialize read from the registered file.        *)
(***************************************************************************)
InitializeServer ==
  /\ status = [s \in Slots |-> "CLOSED"]
  /\ socket = [s \in Slots |-> FALSE]
  /\ address = [s \in Slots |-> NoAddr]
  /\ state = [s \in Slots |-> "ENTRY"]
  /\ user = [s \in Slots |-> NoUser]

ReadRegisteredFileIntoUsersMap(file) ==
  /\ registered = {u \in Users : file[u] # NoRecord}
  /\ profile = [u \in Users |-> file[u].profile]
  /\ ip = [u \in Users |-> file[u].ip]

InitializeShared ==
  /\ mutex = Free
  /\ dirty = FALSE

SharedInit(file) ==
  /\ InitializeServer
  /\ connected = {}
  /\ ReadRegisteredFileIntoUsersMap(file)
  /\ InitializeShared

SharedTypeOK ==
  /\ status \in [Slots -> {"CLOSED", "ACTIVE", "CLOSING"}]
  /\ socket \in [Slots -> BOOLEAN]
  /\ address \in [Slots -> Addrs \union {NoAddr}]
  /\ state \in [Slots -> {"ENTRY", "ACCESSING", "REGISTERED"}]
  /\ user \in [Slots -> Users \union {NoUser}]
  /\ connected \subseteq Users
  /\ registered \subseteq Users
  /\ profile \in [Users -> Profiles \union {NoProfile}]
  /\ ip \in [Users -> Addrs \union {NoAddr}]
  /\ mutex \in Threads \union {Updater, Free}
  /\ dirty \in BOOLEAN

Lock(holder) ==
  /\ mutex = Free
  /\ mutex' = holder

Unlock(holder) ==
  /\ mutex = holder
  /\ mutex' = Free
=============================================================================
