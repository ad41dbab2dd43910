------------------------------ MODULE Exchange -------------------------------
(***************************************************************************)
(* One conversation of the example client with the server, byte by byte,   *)
(* from the settings file that gives the server its port and its buffers.  *)
(* TCP keeps the order of bytes and nothing else: recv returns as many as  *)
(* it likes of those that have come.  The client sends its whole sendBuff, *)
(* whatever stands in it after the '\0'; the server takes what is in its   *)
(* receive_buffer up to the first '\0'.  The client's blocks are sequences *)
(* of pieces of words, the server's only so many bytes.                    *)
(***************************************************************************)
EXTENDS Settings

CONSTANTS
  SettingsFiles,  (* what the settings file may hold                        *)
  Ports,          (* the ports that the user of the client may type         *)
  Ephemeral,      (* the sin_ports the system may choose when asked for 0   *)
  Ids,            (* the user ids the server knows                          *)
  Commands,       (* what else the user types, "exit" and "QUIT" apart      *)
  Exit, Quit,     (* these two, each a sequence of pieces like the others   *)
  NUL,            (* '\0'                                                   *)
  Junk,           (* any other byte that is no piece of a word              *)
  BUFSIZE,        (* RCVBUFSIZE and SNDBUFSIZE of client.c                  *)
  Capacity,       (* what TCP stores in one direction before send blocks    *)
  MaxTyped        (* bound: how often the user types something              *)

Words  == Ids \union Commands \union {Exit, Quit}
Pieces == UNION {{w[i] : i \in DOMAIN w} : w \in Words}
Bytes  == Pieces \union {NUL, Junk}

ASSUME ExchangeAssumption ==
  /\ NUL \notin Pieces \union {Junk} /\ Junk \notin Pieces
  /\ \A w \in Words : w \in Seq(Pieces) /\ Len(w) \in 1 .. BUFSIZE - 1
  /\ BUFSIZE \in Nat /\ Capacity \in Nat /\ MaxTyped \in Nat
  /\ BUFSIZE <= Capacity
  /\ Ports \subseteq Nat \ {0}
  /\ \A p \in Ephemeral : p \in Nat \ {0} /\ p < 65536
  /\ Quit \notin Ids

VARIABLES
  file,       (* the settings file                                          *)
  properties, (* the ServerProperties                                       *)
  typedPort,  (* the port the user has typed                                *)
  bound,      (* the sin_port that the server is bound to                   *)
  early,      (* history: the client was refused by a server that had not   *)
              (* come to bind its port, or could not                        *)
  client,     (* where the client is                                        *)
  sendBuff,   (* the client's sendBuff                                      *)
  server,     (* where the connection thread of the server is               *)
  session,    (* whether it has found the user: its state is not ENTRY      *)
  receive_buffer,
  toServer,   (* the bytes on their way to the server                       *)
  toClient,   (* how many are on their way to the client                    *)
  typed,      (* how often the user has typed something                     *)
  first,      (* history: the first word typed                              *)
  asked,      (* history: the words typed and not yet taken by the server   *)
  astray,     (* history: the server has taken something else than asked    *)
  taken,      (* history: the user was connected by another conversation    *)
  short       (* history: a recv has returned other than a whole message    *)

clientVars == <<client, sendBuff, typed, first>>
serverVars == <<server, session, receive_buffer>>
history == <<asked, astray, taken, short>>
setup == <<file, properties, typedPort, bound, early>>
vars == <<setup, clientVars, serverVars, toServer, toClient, history>>

SendSize    == properties.send_buffer_size
ReceiveSize == properties.receive_buffer_size

\* Memory that nobody has set: all '\0' or not.
Unset(n) == {[i \in 1 .. n |-> b] : b \in {NUL, Junk}}

Init ==
  /\ file \in SettingsFiles
  /\ properties = _readSettingsMapIntoServerStruct(MapOf(file))
  /\ typedPort \in Ports
  /\ bound = 0
  /\ early = FALSE
  /\ client = "connect"
  /\ sendBuff \in Unset(BUFSIZE)
  /\ server = "start"
  /\ session = FALSE
  /\ receive_buffer \in Unset(ReceiveSize)
  /\ toServer = <<>>
  /\ toClient = 0
  /\ typed = 0
  /\ first = <<>>
  /\ asked = <<>>
  /\ astray = FALSE
  /\ taken = FALSE
  /\ short = FALSE

(***************************************************************************)
(* The server starts.                                                      *)
(***************************************************************************)
Ready(from, to) ==
  /\ server = from
  /\ server' = to
  /\ UNCHANGED <<file, properties, typedPort, early, clientVars, session,
                 receive_buffer, toServer, toClient, history>>

\* Initialize fails, and with it the start.
ScanFails ==
  /\ ~Scans(file)
  /\ Ready("start", "unread")
  /\ UNCHANGED bound

\* Something before it fails, or another program has the port or only root
\* may have it.
BindFails == Ready("start", "down") /\ UNCHANGED bound

\* bind and listen
StartServer ==
  /\ Scans(file)
  /\ Ready("start", "accept")
  /\ IF properties.port = 0 THEN bound' \in Ephemeral
                            ELSE bound' = properties.port

(***************************************************************************)
(* The client.                                                             *)
(***************************************************************************)
Listening == server = "accept" /\ htons(typedPort) = bound

Refused ==
  /\ client = "connect"
  /\ ~Listening
  /\ client' = "refused"
  /\ early' = (server \in {"start", "down"})
  /\ UNCHANGED <<file, properties, typedPort, bound, sendBuff, typed, first,
                 serverVars, toServer, toClient, history>>

Connect ==
  /\ client = "connect"
  /\ Listening
  /\ client' = "greeting"
  /\ server' = "send"
  /\ UNCHANGED <<setup, sendBuff, typed, first, session,
                 receive_buffer, toServer, toClient, history>>

\* Mutant of Block: what follows the word is not a '\0'.
BlockUnended(w) == w \o SubSeq(sendBuff, Len(w) + 1, BUFSIZE)

\* Mutant of Block: only the string is sent.
BlockOfWord(w) == w \o <<NUL>>

\* scanf("%s", sendBuff)
Block(w) == w \o <<NUL>> \o SubSeq(sendBuff, Len(w) + 2, BUFSIZE)

Type(w) ==
  /\ client = "type"
  /\ typed < MaxTyped
  /\ typed' = typed + 1
  /\ first' = IF typed = 0 THEN w ELSE first
  /\ sendBuff' = Block(w)
  /\ asked' = Append(asked, w)
  /\ client' = "send"
  /\ UNCHANGED <<setup, serverVars, toServer, toClient, astray, taken, short>>

\* strupr, which stops at the '\0'; an upper-case word is no word.
Upper(block) ==
  [i \in DOMAIN block |->
     IF \E j \in 1 .. i : block[j] = NUL THEN block[i] ELSE Junk]

\* strcmp
IsQuit == SubSeq(sendBuff, 1, Len(Quit) + 1) = Append(Quit, NUL)

\* Mutant of AfterSend: the next line is typed before an answer is here.
AfterSendAtOnce == IF IsQuit THEN "end" ELSE "type"

AfterSend == IF IsQuit THEN "end" ELSE "answer"

\* The server may have closed the socket: the bytes are lost.
ClientSend ==
  /\ client = "send"
  /\ Len(toServer) + BUFSIZE <= Capacity \/ server = "closed"
  /\ toServer' = IF server = "closed" THEN <<>> ELSE toServer \o sendBuff
  /\ client' = AfterSend
  /\ sendBuff' = Upper(sendBuff)
  /\ UNCHANGED <<setup, typed, first, serverVars, toClient, history>>

\* recv returns something.
ClientRecv ==
  /\ client \in {"greeting", "answer"}
  /\ \E n \in 1 .. BUFSIZE + 1 :
       /\ n <= toClient
       /\ toClient' = toClient - n
       /\ short' = (short \/ n # SendSize)
  /\ client' = "type"
  /\ UNCHANGED <<setup, sendBuff, typed, first, serverVars,
                 toServer, asked, astray, taken>>

\* recv returns 0, or an error if the server closed with bytes unread.  After
\* the greeting the client goes on.
ClientRecvEnds ==
  /\ client \in {"greeting", "answer"}
  /\ server = "closed"
  /\ toClient = 0 \/ toServer # <<>>
  /\ client' = IF client = "greeting" THEN "type" ELSE "end"
  /\ UNCHANGED <<setup, sendBuff, typed, first, serverVars,
                 toServer, toClient, history>>

ClientClose ==
  /\ client = "end"
  /\ client' = "closed"
  /\ UNCHANGED <<setup, sendBuff, typed, first, serverVars,
                 toServer, toClient, history>>

(***************************************************************************)
(* The connection thread of the server.  "send" and "recv" are the halves  *)
(* of MessageOrClose, "bye" is MessageAndClose.  A client that has closed  *)
(* its socket makes send lose the bytes, fail, or raise SIGPIPE, which     *)
(* ends the conversation (and the process) as well.                        *)
(***************************************************************************)
Room == toClient + SendSize <= Capacity

ServerSend ==
  /\ server \in {"send", "bye"}
  /\ \/ /\ Room
        /\ toClient' = toClient + SendSize
        /\ server' = IF server = "send" THEN "recv" ELSE "closed"
     \/ /\ client = "closed"
        /\ server' \in {IF server = "send" THEN "recv" ELSE "closed",
                        "closed"}
        /\ UNCHANGED toClient
  /\ receive_buffer' = [i \in DOMAIN receive_buffer |->
                          IF i = 1 /\ server = "send" THEN NUL
                                                     ELSE receive_buffer[i]]
  /\ UNCHANGED <<setup, clientVars, session, toServer, history>>

\* The string in a buffer; if no '\0' is in it, what follows decides.
Strings(buffer) ==
  LET ends == {i \in DOMAIN buffer : buffer[i] = NUL}
  IN  IF ends = {}
      THEN {buffer, Append(buffer, Junk)}
      ELSE {SubSeq(buffer, 1, i - 1) : i \in
             {j \in ends : \A k \in ends : j <= k}}

\* Mutant of AfterText: an empty line is not answered.
AfterTextSilent(text, connected) ==
  CASE ~session /\ (text \notin Ids \/ connected) -> "bye"
    [] session /\ text = Exit -> "bye"
    [] session /\ text = <<>> -> "recv"
    [] OTHER -> "send"

\* ENTRY: "No such user", "You are already connected." or a session.  Then
\* every command is answered.
AfterText(text, connected) ==
  CASE ~session /\ (text \notin Ids \/ connected) -> "bye"
    [] session /\ text = Exit -> "bye"
    [] OTHER -> "send"

\* Whether the user of an id is connected is other conversations' business.
ServerRecv ==
  /\ server = "recv"
  /\ \E n \in 1 .. ReceiveSize :
       /\ n <= Len(toServer)
       /\ receive_buffer' = SubSeq(toServer, 1, n)
                              \o SubSeq(receive_buffer, n + 1, ReceiveSize)
       /\ toServer' = SubSeq(toServer, n + 1, Len(toServer))
       /\ short' = (short \/ n # BUFSIZE)
  /\ \E text \in Strings(receive_buffer'), connected \in BOOLEAN :
       /\ server' = AfterText(text, connected)
       /\ session' = (session \/ (text \in Ids /\ ~connected))
       /\ taken' = (taken \/ (~session /\ text \in Ids /\ connected))
       /\ IF asked # <<>> /\ text = Head(asked)
          THEN asked' = Tail(asked) /\ UNCHANGED astray
          ELSE astray' = TRUE /\ UNCHANGED asked
  /\ UNCHANGED <<setup, clientVars, toClient>>

\* recv returns 0 or an error: no room in the buffer, or no client.
ServerRecvEnds ==
  /\ server = "recv"
  /\ ReceiveSize = 0 \/ client = "closed"
  /\ server' = "closed"
  /\ toServer' = <<>>
  /\ UNCHANGED <<setup, clientVars, session, receive_buffer,
                 toClient, history>>

ClientStep == ClientSend \/ ClientRecv \/ ClientRecvEnds \/ ClientClose
ServerStep == ServerSend \/ ServerRecv \/ ServerRecvEnds

Next ==
  \/ ScanFails \/ BindFails \/ StartServer
  \/ Refused \/ Connect
  \/ \E w \in Words : Type(w)
  \/ ClientStep \/ ServerStep

Spec == Init /\ [][Next]_vars

\* Both programs go on when they can; the user need not type anything.
LiveSpec == Spec /\ WF_vars(ClientStep) /\ WF_vars(ServerStep)

-----------------------------------------------------------------------------
TypeOK ==
  /\ file \in SettingsFiles
  /\ typedPort \in Ports
  /\ properties.port \in Nat /\ properties.port < 65536
  /\ bound \in Nat /\ bound < 65536
  /\ early \in BOOLEAN
  /\ SendSize \in Nat \ {0}
  /\ properties.backlog \in Nat \ {0}
  /\ properties.max_connections \in Nat \ {0}
  /\ client \in {"connect", "refused", "greeting", "type", "send", "answer",
                 "end", "closed"}
  /\ sendBuff \in Seq(Bytes) /\ Len(sendBuff) = BUFSIZE
  /\ server \in {"start", "unread", "down", "accept", "send", "recv", "bye",
                 "closed"}
  /\ session \in BOOLEAN
  /\ receive_buffer \in Seq(Bytes) /\ Len(receive_buffer) = ReceiveSize
  /\ toServer \in Seq(Bytes) /\ Len(toServer) <= Capacity
  /\ toClient \in 0 .. Capacity
  /\ typed \in 0 .. MaxTyped
  /\ first \in Words \union {<<>>}
  /\ asked \in Seq(Words)
  /\ astray \in BOOLEAN
  /\ taken \in BOOLEAN
  /\ short \in BOOLEAN

(***************************************************************************)
(* As long as every recv returns a message that is whole, the server takes *)
(* the words that the user types, one by one and in their order, and       *)
(* nothing else that the blocks or the buffers hold.  After a shorter one  *)
(* it may take pieces, or pieces completed from the command before.        *)
(***************************************************************************)
OnlyAsked == astray => short

(***************************************************************************)
(* Client and server do not wait in send for each other to read, unless    *)
(* one of them has read other than a message: this takes a buffer that is  *)
(* smaller than the other side's, or a network that cuts or joins them.    *)
(***************************************************************************)
MutualWaitHasCause ==
  /\ client = "send" /\ Len(toServer) + BUFSIZE > Capacity
  /\ server \in {"send", "bye"} /\ ~Room
  => short

(***************************************************************************)
(* Once the server has bound its port, nobody who types the port that a    *)
(* readable settings file gives is refused, whatever its lines and their   *)
(* order, unless 16 bits hold nothing of that port.  A file that gives no  *)
(* port, or cannot be read, is another matter: see ServesAsDocumented.     *)
(***************************************************************************)
RefusedHasCause ==
  /\ client = "refused"
  /\ Scans(file) /\ Found(MapOf(file), "port")
  /\ MapOf(file)["port"] = typedPort
  => early \/ typedPort % 65536 = 0

(***************************************************************************)
(* A user with a known id gets a session, if the settings file gives any   *)
(* receive_buffer_size, valid or not, unless a message came in parts or    *)
(* the user is in a session already.                                       *)
(***************************************************************************)
TurnedAwayHasCause ==
  /\ server = "closed" /\ ~session /\ first \in Ids
  /\ Found(MapOf(file), "receive_buffer_size")
  => short \/ taken

(***************************************************************************)
(* What the repository says of settings files: a row is "a key, 0 or more  *)
(* space, an '=' symbol, and a value" (File.h:30), "No port setting found. *)
(* Defaulting to 3000." (Server.c:27) and "No receive_buffer_size setting  *)
(* found. Defaulting to 1024." (Server.c:53).  So a user who types the     *)
(* port of the file, or else 3000, and a known id is served, with the same *)
(* exceptions as above.                                                    *)
(***************************************************************************)
ServesAsDocumented ==
  typedPort = Setting(MapOf(file), "port", 3000) =>
    /\ client = "refused" => early
    /\ server = "closed" /\ ~session /\ first \in Ids => short \/ taken

(***************************************************************************)
(* A client that waits in recv gets an answer, or the end of the           *)
(* connection, however messages are cut.                                   *)
(***************************************************************************)
Waiting == client \in {"greeting", "answer"}

AnswerComes == Waiting ~> ~Waiting
=============================================================================
