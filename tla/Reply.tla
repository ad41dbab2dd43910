-------------------------------- MODULE Reply --------------------------------
(***************************************************************************)
(* What the commands write into a connection thread's send_buffer, and the *)
(* advertisement command with the directory and the descriptors it shares  *)
(* with the other threads and with whoever edits the directory.  Texts     *)
(* are their lengths; an advertisement is the lengths of its lines.        *)
(***************************************************************************)
EXTENDS Integers, Sequences, FiniteSets

CONSTANTS
  Threads,         (* bound: connection threads that run at the same time   *)
  AdFiles,         (* the names of regular files that ADS_DIR may hold      *)
  AdTexts,         (* what such a file may contain                          *)
  Secret,          (* a file that this process may not open                 *)
  Absent,          (* the file is not there                                 *)
  Junk, Folder,    (* what an uninitialised name holds, if not an old name: *)
                   (* no file's name, or the empty one of ADS_DIR itself    *)
  MaxFiles,        (* the descriptors this process may have open            *)
  MaxEdits,        (* bound: changes of the directory by others             *)
  RECORD_COUNT,
  SendBufferSize,  (* shared.send_buffer_size                               *)
  MessageLength,   (* "<Message>"                                           *)
  CopiedLengths,   (* the replies that one call of strcpy starts: greetings,*)
                   (* help, register, errors and "Goodbye."                 *)
  InfoLength,      (* the reply to myinfo                                   *)
  OnlineLength,    (* "<OnlineUser>" and an id                              *)
  ValueLength,     (* "<User.GPA>" or "<User.Age>" and the value            *)
  DisconnectLength (* "<Disconnect>"                                        *)

Texts == Seq(Nat \ {0})

ASSUME ReplyAssumption ==
  /\ AdTexts \subseteq Texts
  /\ <<>> \in AdTexts
  /\ Absent \notin Texts /\ Secret \notin Texts /\ Absent # Secret
  /\ IsFiniteSet(AdFiles)
  /\ Junk \notin AdFiles /\ Folder \notin AdFiles /\ Junk # Folder
  /\ {MaxFiles, MaxEdits, RECORD_COUNT, MessageLength, InfoLength,
      OnlineLength, ValueLength, DisconnectLength} \union CopiedLengths
       \subseteq Nat

(***************************************************************************)
(* The buffer is larger than every reply whose length the code does not    *)
(* limit.  Nothing in the code sees to that; the default is 1024.          *)
(***************************************************************************)
ASSUME SizeAssumption ==
  /\ SendBufferSize \in Nat
  /\ MessageLength < SendBufferSize
  /\ \A n \in CopiedLengths : n + DisconnectLength < SendBufferSize
  /\ \A k \in 0 .. RECORD_COUNT : k * OnlineLength < SendBufferSize
  /\ ValueLength < SendBufferSize

VARIABLES
  pc,     (* where each thread is; "gone" when it has no connection, "dead" *)
          (* when a signal has ended the process in it                      *)
  len,    (* strlen(send_buffer) of each thread                             *)
  left,   (* the files GetRandomFileNameFromDir has yet to pass, else 0     *)
  name,   (* the file name it has found, else Junk                          *)
  rest,   (* the lines of the opened file that are still unread             *)
  text,   (* history: the advertisement in the buffer; Absent: another reply *)
  dir,    (* the text of each file of ADS_DIR, Secret or Absent; the        *)
          (* directory itself is never removed                              *)
  fds,    (* the descriptors that are open                                  *)
  edits,  (* the changes others have made to the directory                  *)
  disturbed  (* history: the threads in whose command one of them came      *)

threadVars == <<pc, len, left, name, rest, text>>
vars == <<threadVars, dir, fds, edits, disturbed>>

Present == {f \in AdFiles : dir[f] # Absent}

Init ==
  /\ pc = [t \in Threads |-> "gone"]
  /\ len = [t \in Threads |-> 0]
  /\ left = [t \in Threads |-> 0]
  /\ name = [t \in Threads |-> Junk]
  /\ rest = [t \in Threads |-> <<>>]
  /\ text = [t \in Threads |-> Absent]
  /\ dir \in [AdFiles -> AdTexts \union {Secret, Absent}]
  /\ fds = 0
  /\ edits = 0
  /\ disturbed = {}

Goto(t, from, to) ==
  /\ pc[t] = from
  /\ pc' = [pc EXCEPT ![t] = to]

Write(t, n) == len' = [len EXCEPT ![t] = n]
Extend(t, n) == Write(t, len[t] + n)

(***************************************************************************)
(* The conversation.                                                       *)
(***************************************************************************)
Connect(t) ==
  /\ Goto(t, "gone", "loop")
  /\ fds < MaxFiles
  /\ fds' = fds + 1
  /\ \E n \in CopiedLengths : Write(t, n)
  /\ UNCHANGED <<left, name, rest, text, dir, edits, disturbed>>

Leave(t, from) ==
  /\ Goto(t, from, "gone")
  /\ fds' = fds - 1
  /\ text' = [text EXCEPT ![t] = Absent]
  /\ UNCHANGED <<left, name, rest, dir, edits, disturbed>>

HangUp(t) == Leave(t, "loop") /\ UNCHANGED len

\* Mutant of Message: the buffer keeps what was sent.
MessageKept(t) ==
  /\ Goto(t, "loop", "command")
  /\ UNCHANGED <<len, left, name, rest, text, dir, fds, edits, disturbed>>

\* MessageOrClose sends the reply, gets a command and empties the buffer.
Message(t) ==
  /\ Goto(t, "loop", "command")
  /\ Write(t, 0)
  /\ text' = [text EXCEPT ![t] = Absent]
  /\ disturbed' = disturbed \ {t}
  /\ UNCHANGED <<left, name, rest, dir, fds, edits>>

\* MessageAndClose
Goodbye(t) ==
  /\ \E n \in CopiedLengths : Write(t, n + DisconnectLength)
  /\ Leave(t, "command")

Answers(t) ==
  /\ Goto(t, "command", "loop")
  /\ UNCHANGED <<left, name, rest, text, dir, fds, edits, disturbed>>

\* _help, _register and the errors
Copy(t) == Answers(t) /\ \E n \in CopiedLengths : Write(t, n)

\* snprintf
_myinfo(t) ==
  /\ Answers(t)
  /\ Write(t, IF InfoLength < SendBufferSize THEN InfoLength
                                             ELSE SendBufferSize - 1)

_who(t) ==
  Answers(t) /\ \E k \in 0 .. RECORD_COUNT : Extend(t, k * OnlineLength)

\* _rand_gpa and _rand_age
_rand(t) == Answers(t) /\ Extend(t, ValueLength)

(***************************************************************************)
(* _advertisement.                                                         *)
(***************************************************************************)
Die(t, from) ==
  /\ Goto(t, from, "dead")
  /\ UNCHANGED <<len, left, name, rest, text, dir, fds, edits, disturbed>>

\* Mutant of Count: it looks at every entry, "." and ".." included.
CountEntries == Cardinality(Present) + 2

\* NumberOfFilesInDirectory
Count == Cardinality(Present)

\* opendir returns NULL, or rand() % 0
ChooseFails(t) ==
  /\ fds = MaxFiles \/ Count = 0
  /\ Die(t, "command")

Choose(t) ==
  /\ Goto(t, "command", "find")
  /\ fds < MaxFiles
  /\ \E i \in 0 .. Count - 1 : left' = [left EXCEPT ![t] = i]
  /\ UNCHANGED <<len, name, rest, text, dir, fds, edits, disturbed>>

FindFails(t) == fds = MaxFiles /\ Die(t, "find")

\* readdir returns the files in an order of its own.  When there are not as
\* many of them any more, the name is what the stack holds.
Find(t) ==
  /\ Goto(t, "find", "status")
  /\ fds < MaxFiles
  /\ \E f \in AdFiles \union {Junk, Folder} :
       /\ left[t] < Cardinality(Present) => f \in Present
       /\ name' = [name EXCEPT ![t] = f]
  /\ left' = [left EXCEPT ![t] = 0]
  /\ Extend(t, MessageLength)
  /\ UNCHANGED <<rest, text, dir, fds, edits, disturbed>>

\* FileStatus in CatFileToBuffer
Status(t) ==
  /\ name[t] \in Present \union {Folder}
  /\ Goto(t, "status", "test")
  /\ UNCHANGED <<len, left, name, rest, text, dir, fds, edits, disturbed>>

NoFile(t) ==
  /\ name[t] \notin Present \union {Folder}
  /\ Goto(t, "status", "loop")
  /\ name' = [name EXCEPT ![t] = Junk]
  /\ UNCHANGED <<len, left, rest, text, dir, fds, edits, disturbed>>

\* The file is there and is one that this process may not open.
Locked(f) == f \in AdFiles /\ dir[f] = Secret

\* CreateOrOpenFileVerbose looks once more: "w+" if the file has gone.
Test(t) ==
  /\ ~Locked(name[t])
  /\ Goto(t, "test",
          IF name[t] \in Present \union {Folder} THEN "open" ELSE "create")
  /\ UNCHANGED <<len, left, name, rest, text, dir, fds, edits, disturbed>>

\* CreateOrOpenFileVerbose returns NULL and fgets follows it: the file may
\* not be opened, "r+" meets a directory or a file that has gone since, or
\* no descriptor is left.
OpenFails(t) ==
  \/ Locked(name[t]) /\ (Die(t, "test") \/ Die(t, "create"))
  \/ (name[t] \notin Present \/ Locked(name[t])) /\ Die(t, "open")
  \/ fds = MaxFiles /\ (Die(t, "open") \/ Die(t, "create"))

Cat(t, from, ad) ==
  /\ Goto(t, from, "cat")
  /\ fds < MaxFiles
  /\ ~Locked(name[t])
  /\ dir' = [dir EXCEPT ![name[t]] = ad]
  /\ rest' = [rest EXCEPT ![t] = ad]
  /\ text' = [text EXCEPT ![t] = ad]
  /\ fds' = fds + 1
  /\ UNCHANGED <<len, left, name, edits, disturbed>>

\* "r+"
Open(t) == name[t] \in Present /\ Cat(t, "open", dir[name[t]])

\* "w+" empties a file that has come since.
Create(t) == Cat(t, "create", <<>>)

Room(t) == SendBufferSize - len[t]

\* Mutant of Full: the loop tests only the result of fgets, which is not
\* NULL when there is room for nothing but the '\0'.
NeverFull(t) == FALSE

\* Mutant of Full: buffer_size - strlen(buffer) > 2
FullEarly(t) == Room(t) <= 2

Full(t) == Room(t) <= 1

\* fgets reads a line, or as much of it as leaves room for the '\0'.
Taken(t) ==
  LET line == Head(rest[t])
  IN  IF line <= Room(t) - 1 THEN line ELSE Room(t) - 1

\* Mutant of Unread: a line that has been read to its end stays, empty.
UnreadZero(t, n) == <<Head(rest[t]) - n>> \o Tail(rest[t])

Unread(t, n) ==
  IF Head(rest[t]) = n THEN Tail(rest[t])
                       ELSE <<Head(rest[t]) - n>> \o Tail(rest[t])

CatLine(t) ==
  /\ pc[t] = "cat"
  /\ rest[t] # <<>>
  /\ ~Full(t)
  /\ Extend(t, Taken(t))
  /\ rest' = [rest EXCEPT ![t] = Unread(t, Taken(t))]
  /\ UNCHANGED <<pc, left, name, text, dir, fds, edits, disturbed>>

\* The file stays open.
CatEnds(t) ==
  /\ rest[t] = <<>> \/ Full(t)
  /\ Goto(t, "cat", "loop")
  /\ rest' = [rest EXCEPT ![t] = <<>>]
  /\ name' = [name EXCEPT ![t] = Junk]
  /\ UNCHANGED <<len, left, text, dir, fds, edits, disturbed>>

AdStep(t) ==
  \/ Choose(t) \/ ChooseFails(t) \/ Find(t) \/ FindFails(t) \/ Status(t)
  \/ NoFile(t) \/ Test(t) \/ OpenFails(t) \/ Open(t) \/ Create(t)
  \/ CatLine(t) \/ CatEnds(t)

\* The threads that are busy with an advertisement.
Busy == {"find", "status", "test", "open", "create", "cat"}

\* Somebody adds, changes or removes a file.
Edit(f, ad) ==
  /\ edits < MaxEdits
  /\ edits' = edits + 1
  /\ dir' = [dir EXCEPT ![f] = ad]
  /\ disturbed' = disturbed \union {t \in Threads : pc[t] \in Busy}
  /\ UNCHANGED <<threadVars, fds>>

Talk(t) ==
  \/ Connect(t) \/ HangUp(t) \/ Message(t) \/ Goodbye(t)
  \/ Copy(t) \/ _myinfo(t) \/ _who(t) \/ _rand(t)

Crashed == \E t \in Threads : pc[t] = "dead"

Next ==
  /\ ~Crashed
  /\ \/ \E t \in Threads : Talk(t) \/ AdStep(t)
     \/ \E f \in AdFiles, ad \in AdTexts \union {Secret, Absent} : Edit(f, ad)

Spec == Init /\ [][Next]_vars

\* A thread that is busy with an advertisement goes on.
LiveSpec ==
  Spec /\ \A t \in Threads : WF_vars(pc[t] \in Busy /\ ~Crashed /\ AdStep(t))

-----------------------------------------------------------------------------
TypeOK ==
  /\ pc \in [Threads -> {"gone", "loop", "command", "dead"} \union Busy]
  /\ len \in [Threads -> Nat]
  /\ left \in [Threads -> Nat]
  /\ name \in [Threads -> AdFiles \union {Junk, Folder}]
  /\ \A t \in Threads : pc[t] \in {"create", "cat"} => name[t] \in AdFiles
  /\ rest \in [Threads -> Texts]
  /\ text \in [Threads -> Texts \union {Absent}]
  /\ dir \in [AdFiles -> Texts \union {Secret, Absent}]
  /\ fds \in Int /\ fds <= MaxFiles
  /\ edits \in 0 .. MaxEdits
  /\ disturbed \subseteq Threads

(***************************************************************************)
(* Every reply, with its '\0', fits into send_buffer: the fixed ones, the  *)
(* ones that are appended piece by piece, and advertisements of any        *)
(* length, copied line by line with the room that is left.                 *)
(***************************************************************************)
ReplyFits == \A t \in Threads : len[t] < SendBufferSize

\* The length of a whole text.
Total(ad) ==
  LET upTo[n \in 0 .. Len(ad)] == IF n = 0 THEN 0 ELSE upTo[n - 1] + ad[n]
  IN  upTo[Len(ad)]

(***************************************************************************)
(* A client gets the whole text of an advertisement after "<Message>", or  *)
(* as much of it as fills the buffer to the last byte, however the file    *)
(* is cut into lines and the lines into calls of fgets.                    *)
(***************************************************************************)
AdIsWhole ==
  \A t \in Threads :
    pc[t] = "loop" /\ text[t] # Absent =>
      LET all == MessageLength + Total(text[t])
      IN  len[t] = IF all < SendBufferSize THEN all ELSE SendBufferSize - 1

(***************************************************************************)
(* The command looks at the directory five times: it counts the files,     *)
(* picks one, tests for it twice and opens it.  While nobody else changes  *)
(* the directory in between, whatever other threads do, it comes to a file *)
(* that is there, creates or empties none, and kills the server only if    *)
(* there is no file, no descriptor is left, or the file may not be opened. *)
(***************************************************************************)
QuietAdIsFound ==
  \A t \in Threads \ disturbed :
    /\ pc[t] \in {"status", "test", "open"} => name[t] \in Present
    /\ pc[t] # "create"
    /\ pc[t] = "dead" =>
         fds = MaxFiles \/ Present = {} \/ Locked(name[t])

(***************************************************************************)
(* An advertisement ends, whatever the file and the room left, or the      *)
(* server does.                                                            *)
(***************************************************************************)
AdvertisementEnds ==
  \A t \in Threads : pc[t] \in Busy ~> (pc[t] = "loop" \/ Crashed)
=============================================================================
