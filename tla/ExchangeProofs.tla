--------------------------- MODULE ExchangeProofs ----------------------------
(***************************************************************************)
(* The conversation for all buffer sizes, words and settings files.  That  *)
(* answers come speaks of fairness and stays with TLC.                     *)
(***************************************************************************)
EXTENDS Exchange, TLAPS

(***************************************************************************)
(* Whatever the settings file holds, the server gets usable numbers.       *)
(***************************************************************************)
LEMMA SettingPositive ==
  ASSUME NEW map, NEW key, NEW default \in Nat \ {0}
  PROVE  Setting(map, key, default) \in Nat \ {0}
<1>1. atoi(map[key]) \in Int
  BY DEF atoi
<1> QED
  BY <1>1 DEF Setting

LEMMA SwappedInRange ==
  ASSUME NEW p \in Nat, p < 65536
  PROVE  LET r == 256 * (p % 256) + p \div 256
         IN  r \in Nat /\ r < 65536
<1>1. p % 256 \in Nat /\ p % 256 < 256
  OBVIOUS
<1>2. p \div 256 \in Nat /\ p \div 256 < 256
  OBVIOUS
<1> QED
  BY <1>1, <1>2

LEMMA PortInRange ==
  ASSUME NEW map
  PROVE  Port(map) \in Nat /\ Port(map) < 65536
<1>1. Setting(map, "port", 3000) \in Nat
  <2>1. 3000 \in Nat \ {0}
    OBVIOUS
  <2> QED
    BY <2>1, SettingPositive
<1>2. ASSUME NEW n \in Nat PROVE htons(n) \in Nat /\ htons(n) < 65536
  <2>1. n % 65536 \in Nat /\ n % 65536 < 65536
    OBVIOUS
  <2> QED
    BY <2>1, SwappedInRange DEF htons
<1> QED
  BY <1>1, <1>2 DEF Port

LEMMA PropertiesUsable ==
  ASSUME NEW map, NEW p,
         p = _readSettingsMapIntoServerStruct(map)
  PROVE  /\ p.port \in Nat /\ p.port < 65536
         /\ p.send_buffer_size \in Nat \ {0}
         /\ p.receive_buffer_size \in Nat
         /\ p.backlog \in Nat \ {0}
         /\ p.max_connections \in Nat \ {0}
<1>1. \A key : \A default \in Nat \ {0} :
        Setting(map, key, default) \in Nat \ {0}
  BY SettingPositive
<1>2. 10 \in Nat \ {0} /\ 20 \in Nat \ {0} /\ DefaultSize \in Nat \ {0}
  BY SettingsAssumption
<1>3. Port(map) \in Nat /\ Port(map) < 65536
  BY PortInRange
<1> QED
  BY <1>1, <1>2, <1>3 DEF _readSettingsMapIntoServerStruct

(***************************************************************************)
(* Buffers.                                                                *)
(***************************************************************************)
LEMMA UnsetTyped ==
  ASSUME NEW n \in Nat, NEW buffer \in Unset(n)
  PROVE  buffer \in Seq(Bytes) /\ Len(buffer) = n
<1>1. PICK b \in {NUL, Junk} : buffer = [i \in 1 .. n |-> b]
  BY DEF Unset
<1>2. b \in Bytes
  BY DEF Bytes
<1> QED
  BY <1>1, <1>2

LEMMA WordsTyped ==
  ASSUME NEW w \in Words
  PROVE  /\ w \in Seq(Pieces) /\ w \in Seq(Bytes)
         /\ Len(w) \in 1 .. BUFSIZE - 1
         /\ \A i \in 1 .. Len(w) : w[i] # NUL
<1>1. w \in Seq(Pieces) /\ Len(w) \in 1 .. BUFSIZE - 1
  BY ExchangeAssumption
<1>2. \A i \in 1 .. Len(w) : w[i] \in Pieces
  BY <1>1
<1>3. NUL \notin Pieces
  BY ExchangeAssumption
<1>4. w \in Seq(Bytes)
  BY <1>1, <1>2 DEF Bytes
<1> QED
  BY <1>1, <1>2, <1>3, <1>4

\* The buffer starts with the string w.
Holds(buffer, w) ==
  /\ Len(buffer) > Len(w)
  /\ \A i \in 1 .. Len(w) : buffer[i] = w[i]
  /\ buffer[Len(w) + 1] = NUL

LEMMA Joined ==
  ASSUME NEW S, NEW s \in Seq(S), NEW t \in Seq(S)
  PROVE  /\ s \o t \in Seq(S)
         /\ Len(s \o t) = Len(s) + Len(t)
         /\ \A i \in 1 .. Len(s) : (s \o t)[i] = s[i]
OBVIOUS

LEMMA BlockHolds ==
  ASSUME NEW w \in Words,
         sendBuff \in Seq(Bytes), Len(sendBuff) = BUFSIZE
  PROVE  /\ Block(w) \in Seq(Bytes)
         /\ Len(Block(w)) = BUFSIZE
         /\ Holds(Block(w), w)
<1> DEFINE rest == SubSeq(sendBuff, Len(w) + 2, BUFSIZE)
           head == w \o <<NUL>>
<1>1. w \in Seq(Bytes) /\ Len(w) \in 1 .. BUFSIZE - 1 /\ BUFSIZE \in Nat
  BY WordsTyped, ExchangeAssumption
<1>2. <<NUL>> \in Seq(Bytes) /\ Len(<<NUL>>) = 1
  BY DEF Bytes
<1>3. rest \in Seq(Bytes) /\ Len(rest) = BUFSIZE - Len(w) - 1
  BY <1>1
<1>4. /\ head \in Seq(Bytes)
      /\ Len(head) = Len(w) + 1
      /\ \A i \in 1 .. Len(w) : head[i] = w[i]
  BY <1>1, <1>2, Joined
<1>5. head[Len(w) + 1] = NUL
  BY <1>1
<1>6. Block(w) = head \o rest
  BY DEF Block
<1> HIDE DEF rest, head
<1>7. /\ head \o rest \in Seq(Bytes)
      /\ Len(head \o rest) = Len(head) + Len(rest)
      /\ \A i \in 1 .. Len(head) : (head \o rest)[i] = head[i]
  BY <1>3, <1>4, Joined
<1>8. /\ Block(w) \in Seq(Bytes)
      /\ Len(Block(w)) = Len(head) + Len(rest)
      /\ \A i \in 1 .. Len(head) : Block(w)[i] = head[i]
  BY <1>6, <1>7
<1> QED
  BY <1>1, <1>3, <1>4, <1>5, <1>8 DEF Holds

LEMMA UpperTyped ==
  ASSUME NEW block \in Seq(Bytes)
  PROVE  Upper(block) \in Seq(Bytes) /\ Len(Upper(block)) = Len(block)
<1>1. \A i \in 1 .. Len(block) : Upper(block)[i] \in Bytes
  BY DEF Upper, Bytes
<1>2. Upper(block) = [i \in 1 .. Len(block) |-> Upper(block)[i]]
  BY DEF Upper
<1> QED
  BY <1>1, <1>2

(***************************************************************************)
(* The text that the server compares is the word, whatever follows it.     *)
(***************************************************************************)
LEMMA StringsOfBlock ==
  ASSUME NEW w \in Words, NEW buffer \in Seq(Bytes), Holds(buffer, w),
         NEW text \in Strings(buffer)
  PROVE  text = w
<1> DEFINE ends == {i \in DOMAIN buffer : buffer[i] = NUL}
           last == Len(w) + 1
<1>1. /\ w \in Seq(Bytes) /\ Len(w) \in Nat
      /\ \A i \in 1 .. Len(w) : w[i] # NUL
  BY WordsTyped
<1>2. last \in ends /\ \A k \in ends : last <= k
  BY <1>1 DEF Holds
<1>3. PICK i \in ends : /\ \A k \in ends : i <= k
                         /\ text = SubSeq(buffer, 1, i - 1)
  BY <1>2 DEF Strings
<1>4. i = last
  BY <1>1, <1>2, <1>3
<1>5. text = SubSeq(buffer, 1, Len(w))
  BY <1>1, <1>3, <1>4
<1>6. /\ text \in Seq(Bytes) /\ Len(text) = Len(w)
      /\ \A j \in 1 .. Len(w) : text[j] = w[j]
  BY <1>1, <1>5 DEF Holds
<1> QED
  BY <1>1, <1>6

(***************************************************************************)
(* Typing.                                                                 *)
(***************************************************************************)
USE DEF SendSize, ReceiveSize

LEMMA StringsTyped ==
  ASSUME NEW n \in Nat, NEW m \in Nat, n <= m,
         NEW come \in Seq(Bytes), n <= Len(come),
         NEW buffer \in Seq(Bytes), Len(buffer) = m,
         NEW new, new = SubSeq(come, 1, n) \o SubSeq(buffer, n + 1, m)
  PROVE  /\ new \in Seq(Bytes) /\ Len(new) = m
         /\ \A i \in 1 .. n : new[i] = come[i]
<1> DEFINE head == SubSeq(come, 1, n)
           rest == SubSeq(buffer, n + 1, m)
<1>1. /\ head \in Seq(Bytes) /\ Len(head) = n
      /\ \A i \in 1 .. n : head[i] = come[i]
  OBVIOUS
<1>2. rest \in Seq(Bytes) /\ Len(rest) = m - n
  OBVIOUS
<1>3. new = head \o rest
  OBVIOUS
<1> HIDE DEF head, rest
<1>4. /\ head \o rest \in Seq(Bytes)
      /\ Len(head \o rest) = Len(head) + Len(rest)
      /\ \A i \in 1 .. Len(head) : (head \o rest)[i] = head[i]
  BY <1>1, <1>2, Joined
<1> QED
  BY <1>1, <1>2, <1>3, <1>4

LEMMA ClearedTyped ==
  ASSUME receive_buffer \in Seq(Bytes), ServerSend
  PROVE  /\ receive_buffer' \in Seq(Bytes)
         /\ Len(receive_buffer') = Len(receive_buffer)
<1> DEFINE buffer == receive_buffer
           new == receive_buffer'
<1>0. new = [i \in DOMAIN buffer |-> IF i = 1 /\ server = "send" THEN NUL
                                     ELSE buffer[i]]
  BY DEF ServerSend
<1> HIDE DEF new
<1>1. DOMAIN buffer = 1 .. Len(buffer) /\ Len(buffer) \in Nat
  OBVIOUS
<1>2. NUL \in Bytes
  BY DEF Bytes
<1>3. \A i \in 1 .. Len(buffer) : new[i] \in Bytes
  BY <1>0, <1>1, <1>2
<1>4. new = [i \in 1 .. Len(buffer) |-> new[i]]
  BY <1>0, <1>1
<1>5. new \in Seq(Bytes) /\ Len(new) = Len(buffer)
  BY <1>1, <1>3, <1>4
<1> QED
  BY <1>5 DEF new

TypeInv == TypeOK /\ ReceiveSize \in Nat

LEMMA InitTyped == Init => TypeInv
<1> SUFFICES ASSUME Init PROVE TypeInv
  OBVIOUS
<1>1. /\ properties.port \in Nat /\ properties.port < 65536
      /\ SendSize \in Nat \ {0} /\ ReceiveSize \in Nat
      /\ properties.backlog \in Nat \ {0}
      /\ properties.max_connections \in Nat \ {0}
  BY PropertiesUsable DEF Init
<1>2. BUFSIZE \in Nat /\ Capacity \in Nat /\ MaxTyped \in Nat
  BY ExchangeAssumption
<1>3. sendBuff \in Seq(Bytes) /\ Len(sendBuff) = BUFSIZE
  BY <1>2, UnsetTyped DEF Init
<1>4. receive_buffer \in Seq(Bytes) /\ Len(receive_buffer) = ReceiveSize
  BY <1>1, UnsetTyped DEF Init
<1>5. /\ file \in SettingsFiles /\ typedPort \in Ports
      /\ client = "connect" /\ server = "start" /\ bound = 0
      /\ toServer = <<>> /\ toClient = 0 /\ typed = 0 /\ asked = <<>>
  BY DEF Init
<1>6. toServer \in Seq(Bytes) /\ Len(toServer) <= Capacity
  BY <1>2, <1>5
<1>7. toClient \in 0 .. Capacity /\ typed \in 0 .. MaxTyped
  BY <1>2, <1>5
<1>8. asked \in Seq(Words) /\ first \in Words \union {<<>>}
  BY <1>5 DEF Init
<1>9. /\ session \in BOOLEAN /\ astray \in BOOLEAN /\ short \in BOOLEAN
      /\ early \in BOOLEAN /\ taken \in BOOLEAN
  BY DEF Init
<1>10. /\ client \in {"connect", "refused", "greeting", "type", "send",
                      "answer", "end", "closed"}
       /\ server \in {"start", "unread", "down", "accept", "send", "recv",
                      "bye", "closed"}
  BY <1>5
<1>11. bound \in Nat /\ bound < 65536
  BY <1>5
<1> QED
  BY <1>1, <1>3, <1>4, <1>5, <1>6, <1>7, <1>8, <1>9, <1>10,
     <1>11 DEF TypeInv, TypeOK

LEMMA ServerRecvTyped == TypeInv /\ ServerRecv => TypeInv'
<1> SUFFICES ASSUME TypeInv, ServerRecv PROVE TypeInv'
  OBVIOUS
<1>1. /\ ReceiveSize \in Nat /\ BUFSIZE \in Nat /\ Capacity \in Nat
      /\ receive_buffer \in Seq(Bytes) /\ Len(receive_buffer) = ReceiveSize
      /\ toServer \in Seq(Bytes) /\ Len(toServer) <= Capacity
      /\ asked \in Seq(Words)
      /\ session \in BOOLEAN /\ astray \in BOOLEAN /\ short \in BOOLEAN
      /\ taken \in BOOLEAN
  BY ExchangeAssumption DEF TypeInv, TypeOK
<1>2. PICK n \in 1 .. ReceiveSize :
        /\ n <= Len(toServer)
        /\ receive_buffer' = SubSeq(toServer, 1, n)
                               \o SubSeq(receive_buffer, n + 1, ReceiveSize)
        /\ toServer' = SubSeq(toServer, n + 1, Len(toServer))
        /\ short' = (short \/ n # BUFSIZE)
  BY DEF ServerRecv
<1>3. receive_buffer' \in Seq(Bytes) /\ Len(receive_buffer') = ReceiveSize
  <2> DEFINE m == ReceiveSize
  <2>1. n \in Nat /\ m \in Nat /\ n <= m /\ Len(receive_buffer) = m
    BY <1>1
  <2>2. receive_buffer' = SubSeq(toServer, 1, n)
                           \o SubSeq(receive_buffer, n + 1, m)
    BY <1>2
  <2> HIDE DEF m
  <2>3. receive_buffer' \in Seq(Bytes) /\ Len(receive_buffer') = m
    BY <1>1, <1>2, <2>1, <2>2, StringsTyped
  <2> QED
    BY <2>3 DEF m
<1>4. toServer' \in Seq(Bytes) /\ Len(toServer') <= Capacity
  BY <1>1, <1>2
<1>5. PICK text \in Strings(receive_buffer'), connected \in BOOLEAN :
        /\ server' = AfterText(text, connected)
        /\ session' = (session \/ (text \in Ids /\ ~connected))
        /\ taken' = (taken \/ (~session /\ text \in Ids /\ connected))
        /\ IF asked # <<>> /\ text = Head(asked)
           THEN asked' = Tail(asked) /\ UNCHANGED astray
           ELSE astray' = TRUE /\ UNCHANGED asked
  BY DEF ServerRecv
<1>6. server' \in {"bye", "send"}
  BY <1>5 DEF AfterText
<1>7. /\ session' \in BOOLEAN /\ astray' \in BOOLEAN
      /\ short' \in BOOLEAN /\ taken' \in BOOLEAN
  BY <1>1, <1>2, <1>5
<1>8. asked' \in Seq(Words)
  <2>1. CASE asked = <<>>
    BY <1>1, <1>5, <2>1
  <2>2. CASE asked # <<>>
    <3>1. Tail(asked) \in Seq(Words)
      BY <1>1, <2>2
    <3> QED
      BY <1>1, <1>5, <3>1
  <2> QED
    BY <2>1, <2>2
<1>9. UNCHANGED <<setup, file, properties, typedPort, bound, early, client, sendBuff, typed, first,
                  toClient>>
  BY DEF ServerRecv, setup, clientVars
<1> QED
  BY <1>3, <1>4, <1>6, <1>7, <1>8, <1>9 DEF TypeInv, TypeOK

LEMMA NextTyped == TypeInv /\ [Next]_vars => TypeInv'
<1> SUFFICES ASSUME TypeInv, [Next]_vars PROVE TypeInv'
  OBVIOUS
<1>0. BUFSIZE \in Nat /\ Capacity \in Nat /\ MaxTyped \in Nat
  BY ExchangeAssumption
<1> USE <1>0 DEF TypeInv, TypeOK, setup, clientVars, serverVars, history
<1>1. CASE Refused
  BY <1>1 DEF Refused
<1>12. CASE ScanFails
  BY <1>12 DEF ScanFails, Ready
<1>13. CASE BindFails
  BY <1>13 DEF BindFails, Ready
<1>14. CASE StartServer
  <2>1. bound' \in Nat /\ bound' < 65536
    BY <1>14, ExchangeAssumption DEF StartServer
  <2> QED
    BY <1>14, <2>1 DEF StartServer, Ready
<1>2. CASE Connect
  BY <1>2 DEF Connect
<1>3. ASSUME NEW w \in Words, Type(w) PROVE TypeInv'
  <2>1. sendBuff' \in Seq(Bytes) /\ Len(sendBuff') = BUFSIZE
    BY <1>3, BlockHolds DEF Type
  <2>2. asked' \in Seq(Words)
    BY <1>3 DEF Type
  <2> QED
    BY <1>3, <2>1, <2>2 DEF Type
<1>4. CASE ClientSend
  <2>1. sendBuff' \in Seq(Bytes) /\ Len(sendBuff') = BUFSIZE
    BY <1>4, UpperTyped DEF ClientSend
  <2>2. toServer' \in Seq(Bytes) /\ Len(toServer') <= Capacity
    <3>1. CASE server = "closed"
      BY <1>4, <3>1 DEF ClientSend
    <3>2. CASE server # "closed"
      <4>1. toServer' = toServer \o sendBuff
        BY <1>4, <3>2 DEF ClientSend
      <4>2. Len(toServer) + BUFSIZE <= Capacity
        BY <1>4, <3>2 DEF ClientSend
      <4> QED
        BY <4>1, <4>2, Joined
    <3> QED
      BY <3>1, <3>2
  <2>3. client' \in {"end", "answer"}
    BY <1>4 DEF ClientSend, AfterSend
  <2> QED
    BY <1>4, <2>1, <2>2, <2>3 DEF ClientSend
<1>5. CASE ClientRecv
  BY <1>5 DEF ClientRecv
<1>6. CASE ClientRecvEnds
  BY <1>6 DEF ClientRecvEnds
<1>7. CASE ClientClose
  BY <1>7 DEF ClientClose
<1>8. CASE ServerSend
  <2>1. /\ receive_buffer' \in Seq(Bytes)
        /\ Len(receive_buffer') = Len(receive_buffer)
    BY <1>8, ClearedTyped
  <2>2. toClient' \in 0 .. Capacity
    BY <1>8 DEF ServerSend, Room
  <2>3. server' \in {"recv", "closed"}
    BY <1>8 DEF ServerSend
  <2> QED
    BY <1>8, <2>1, <2>2, <2>3 DEF ServerSend
<1>9. CASE ServerRecv
  BY <1>9, ServerRecvTyped
<1>10. CASE ServerRecvEnds
  BY <1>10 DEF ServerRecvEnds
<1>11. CASE UNCHANGED vars
  BY <1>11 DEF vars
<1> QED
  BY <1>1, <1>2, <1>3, <1>4, <1>5, <1>6, <1>7, <1>8, <1>9, <1>10, <1>11,
     <1>12, <1>13, <1>14 DEF Next, ClientStep, ServerStep

(***************************************************************************)
(* The variables have their types: the settings are usable whatever the    *)
(* file holds, the buffers keep their sizes, and TCP stores no more bytes  *)
(* than it can.                                                            *)
(***************************************************************************)
THEOREM TypeCorrect == Spec => []TypeOK
<1>1. TypeInv => TypeOK
  BY DEF TypeInv
<1> QED
  BY InitTyped, NextTyped, <1>1, PTL DEF Spec

(***************************************************************************)
(* While every recv returns a whole message, one message at most is under  *)
(* way, and it is what one of the two waits for.                           *)
(***************************************************************************)
InFlight ==
  /\ server = "recv"
  /\ Len(toServer) = BUFSIZE
  /\ \E w \in Words : asked = <<w>> /\ Holds(toServer, w)

NothingAsked ==
  /\ toServer = <<>>
  /\ server # "closed" => asked = <<>>

Waits == {"start", "unread", "down", "accept"}

USE DEF Waits

BeforeStart == server \in Waits /\ NothingAsked /\ toClient = 0

Greeted ==
  /\ NothingAsked
  /\ \/ server = "send" /\ toClient = 0
     \/ server \in {"recv", "closed"} /\ toClient = SendSize

Prompted == server \in {"recv", "closed"} /\ NothingAsked /\ toClient = 0

Asking ==
  /\ server \in {"recv", "closed"} /\ toServer = <<>> /\ toClient = 0
  /\ server = "recv" => \E w \in Words : asked = <<w>> /\ Holds(sendBuff, w)

Answering ==
  /\ NothingAsked
  /\ \/ server \in {"send", "bye", "closed"} /\ toClient = 0
     \/ server \in {"recv", "closed"} /\ toClient = SendSize

Ending == server \notin Waits /\ (InFlight \/ NothingAsked)

InStep ==
  ~short =>
    /\ ~astray
    /\ client \in {"connect", "refused"} => BeforeStart
    /\ client = "greeting" => Greeted
    /\ client = "type" => Prompted
    /\ client = "send" => Asking
    /\ client = "answer" => (InFlight /\ toClient = 0) \/ Answering
    /\ client \in {"end", "closed"} => Ending

LEMMA InitInStep == Init => InStep
BY DEF Init, InStep, BeforeStart, NothingAsked

LEMMA TypeInStep ==
  ASSUME TypeInv, InStep, NEW w \in Words, Type(w)
  PROVE  InStep'
<1> SUFFICES ASSUME ~short' PROVE InStep'
  BY DEF InStep
<1>1. ~short /\ ~astray /\ ~astray' /\ client' = "send" /\ Prompted
  BY DEF Type, InStep
<1>2. /\ server' = server /\ toServer' = toServer /\ toClient' = toClient
      /\ sendBuff' = Block(w) /\ asked' = Append(asked, w)
  BY DEF Type, serverVars
<1>3. Holds(sendBuff', w)
  BY <1>2, BlockHolds DEF TypeInv, TypeOK
<1>4. server = "recv" => asked' = <<w>>
  BY <1>1, <1>2 DEF Prompted, NothingAsked
<1>5. Asking'
  BY <1>1, <1>2, <1>3, <1>4 DEF Asking, Prompted, NothingAsked
<1> QED
  BY <1>1, <1>5 DEF InStep

LEMMA ClientSendInStep ==
  ASSUME TypeInv, InStep, ClientSend
  PROVE  InStep'
<1> SUFFICES ASSUME ~short' PROVE InStep'
  BY DEF InStep
<1>1. ~short /\ ~astray /\ ~astray' /\ Asking
  BY DEF ClientSend, InStep, history
<1>2. /\ server' = server /\ toClient' = toClient /\ asked' = asked
      /\ client' \in {"end", "answer"}
  BY DEF ClientSend, AfterSend, serverVars, history
<1>3. CASE server = "closed"
  <2>1. toServer' = <<>> /\ NothingAsked' /\ toClient' = 0
    BY <1>1, <1>2, <1>3 DEF ClientSend, NothingAsked, Asking
  <2> QED
    BY <1>1, <1>2, <1>3, <2>1 DEF InStep, Answering, Ending
<1>4. CASE server = "recv"
  <2>1. sendBuff \in Seq(Bytes) /\ Len(sendBuff) = BUFSIZE
    BY DEF TypeInv, TypeOK
  <2>2. toServer' = sendBuff
    BY <1>1, <1>4, <2>1 DEF ClientSend, Asking
  <2>3. InFlight' /\ toClient' = 0
    BY <1>1, <1>2, <1>4, <2>1, <2>2 DEF Asking, InFlight
  <2> QED
    BY <1>1, <1>2, <1>4, <2>3 DEF InStep, Ending
<1> QED
  BY <1>1, <1>3, <1>4 DEF Asking

LEMMA ClientRecvInStep ==
  ASSUME TypeInv, InStep, ClientRecv
  PROVE  InStep'
<1> SUFFICES ASSUME ~short' PROVE InStep'
  BY DEF InStep
<1>1. PICK n \in 1 .. BUFSIZE + 1 :
        /\ n <= toClient
        /\ toClient' = toClient - n
        /\ short' = (short \/ n # SendSize)
  BY DEF ClientRecv
<1>2. ~short /\ n = SendSize
  BY <1>1
<1>3. ~astray /\ ~astray' /\ client' = "type"
  BY <1>2 DEF ClientRecv, InStep
<1>4. toClient >= 1 /\ toClient # 0 /\ SendSize \in Nat
  BY <1>1, ExchangeAssumption DEF TypeInv, TypeOK
<1>5. Greeted \/ Answering
  BY <1>2, <1>4 DEF ClientRecv, InStep
<1>6. server \in {"recv", "closed"} /\ NothingAsked /\ toClient = SendSize
  BY <1>4, <1>5 DEF Greeted, Answering
<1>7. UNCHANGED <<server, toServer, asked>> /\ toClient' = 0
  BY <1>1, <1>2, <1>4, <1>6 DEF ClientRecv, serverVars
<1>8. Prompted'
  BY <1>6, <1>7 DEF Prompted, NothingAsked
<1> QED
  BY <1>3, <1>8 DEF InStep

LEMMA ClientRecvEndsInStep ==
  ASSUME TypeInv, InStep, ClientRecvEnds
  PROVE  InStep'
<1> SUFFICES ASSUME ~short' PROVE InStep'
  BY DEF InStep
<1>1. UNCHANGED <<server, toServer, toClient, asked, astray, short>>
  BY DEF ClientRecvEnds, serverVars, history
<1>2. ~short /\ ~astray /\ ~astray' /\ server = "closed"
  BY <1>1 DEF ClientRecvEnds, InStep
<1>3. SendSize # 0
  BY DEF TypeInv, TypeOK
<1>4. CASE client = "greeting"
  BY <1>2, <1>3, <1>4 DEF ClientRecvEnds, InStep, Greeted, NothingAsked
<1>5. CASE client = "answer"
  <2>1. client' = "end" /\ NothingAsked
    BY <1>2, <1>5 DEF ClientRecvEnds, InStep, Answering, InFlight
  <2>2. Ending'
    BY <1>1, <1>2, <2>1 DEF Ending, NothingAsked
  <2> QED
    BY <1>2, <2>1, <2>2 DEF InStep
<1> QED
  BY <1>4, <1>5 DEF ClientRecvEnds

LEMMA ServerSendInStep ==
  ASSUME TypeInv, InStep, ServerSend
  PROVE  InStep'
<1> SUFFICES ASSUME ~short' PROVE InStep'
  BY DEF InStep
<1>1. UNCHANGED <<client, toServer, asked, astray, short, properties>>
  BY DEF ServerSend, setup, clientVars, history
<1>2. ~short /\ ~astray /\ ~astray'
  BY <1>1 DEF InStep
<1>3. server \in {"send", "bye"} /\ server' \in {"recv", "closed"}
  BY DEF ServerSend
<1>4. SendSize \in Nat \ {0}
  BY DEF TypeInv, TypeOK
<1>5. client \in {"greeting", "answer", "end", "closed"}
  BY <1>2, <1>3 DEF InStep, BeforeStart, Prompted, Asking, TypeInv, TypeOK
<1>6. NothingAsked /\ NothingAsked'
  BY <1>1, <1>2, <1>3, <1>5
     DEF InStep, Greeted, Answering, Ending, InFlight, NothingAsked
<1>7. CASE client = "greeting"
  <2>1. toClient = 0 /\ server = "send"
    BY <1>2, <1>3, <1>7 DEF InStep, Greeted
  <2>2. toClient' = SendSize'
    BY <1>1, <1>4, <1>7, <2>1 DEF ServerSend
  <2> QED
    BY <1>1, <1>2, <1>3, <1>6, <1>7, <2>2 DEF InStep, Greeted
<1>8. CASE client = "answer"
  <2>1. toClient = 0
    BY <1>2, <1>3, <1>4, <1>8 DEF InStep, Answering, InFlight
  <2>2. toClient' = SendSize'
    BY <1>1, <1>4, <1>8, <2>1 DEF ServerSend
  <2> QED
    BY <1>1, <1>2, <1>3, <1>6, <1>8, <2>2 DEF InStep, Answering
<1>9. CASE client \in {"end", "closed"}
  BY <1>1, <1>2, <1>3, <1>6, <1>9 DEF InStep, Ending
<1> QED
  BY <1>5, <1>7, <1>8, <1>9

LEMMA ServerRecvInStep ==
  ASSUME TypeInv, InStep, ServerRecv
  PROVE  InStep'
<1> SUFFICES ASSUME ~short' PROVE InStep'
  BY DEF InStep
<1>1. UNCHANGED <<client, toClient, sendBuff, properties>>
  BY DEF ServerRecv, setup, clientVars
<1>2. PICK n \in 1 .. ReceiveSize :
        /\ n <= Len(toServer)
        /\ receive_buffer' = SubSeq(toServer, 1, n)
                               \o SubSeq(receive_buffer, n + 1, ReceiveSize)
        /\ toServer' = SubSeq(toServer, n + 1, Len(toServer))
        /\ short' = (short \/ n # BUFSIZE)
  BY DEF ServerRecv
<1>3. PICK text \in Strings(receive_buffer'), connected \in BOOLEAN :
        /\ server' = AfterText(text, connected)
        /\ IF asked # <<>> /\ text = Head(asked)
           THEN asked' = Tail(asked) /\ UNCHANGED astray
           ELSE astray' = TRUE /\ UNCHANGED asked
  BY DEF ServerRecv
<1>4. ~short /\ ~astray /\ n = BUFSIZE
  BY <1>2 DEF InStep
<1>5. /\ ReceiveSize \in Nat /\ n \in Nat /\ n <= ReceiveSize /\ n >= 1
      /\ receive_buffer \in Seq(Bytes) /\ Len(receive_buffer) = ReceiveSize
      /\ toServer \in Seq(Bytes)
  BY <1>2 DEF TypeInv, TypeOK
<1>6. toServer # <<>>
  BY <1>2, <1>5
<1>7. InFlight /\ client \in {"answer", "end", "closed"}
  BY <1>4, <1>6
     DEF InStep, BeforeStart, Greeted, Prompted, Asking, Answering, Ending,
         NothingAsked, TypeInv, TypeOK
<1>8. PICK w \in Words : asked = <<w>> /\ Holds(toServer, w)
  BY <1>7 DEF InFlight
<1>9. Len(toServer) = n
  BY <1>4, <1>7 DEF InFlight
<1>10. receive_buffer' \in Seq(Bytes) /\ Holds(receive_buffer', w)
  <2> DEFINE m == ReceiveSize
  <2>1. m \in Nat /\ n <= m /\ Len(receive_buffer) = m
    BY <1>5
  <2>2. receive_buffer' = SubSeq(toServer, 1, n)
                           \o SubSeq(receive_buffer, n + 1, m)
    BY <1>2
  <2> HIDE DEF m
  <2>3. /\ receive_buffer' \in Seq(Bytes) /\ Len(receive_buffer') = m
        /\ \A i \in 1 .. n : receive_buffer'[i] = toServer[i]
    BY <1>5, <1>9, <2>1, <2>2, StringsTyped
  <2>4. Len(w) \in Nat /\ Len(w) + 1 <= n
    BY <1>8, <1>9, WordsTyped DEF Holds
  <2> QED
    BY <1>5, <1>8, <2>1, <2>3, <2>4 DEF Holds
<1>11. text = w
  BY <1>10, StringsOfBlock
<1>12. asked' = <<>> /\ ~astray'
  BY <1>3, <1>4, <1>8, <1>11
<1>13. toServer' = <<>>
  BY <1>2, <1>5, <1>9
<1>14. server' \in {"send", "bye"}
  BY <1>3 DEF AfterText
<1>15. client = "answer" => toClient = 0
  BY <1>4, <1>6, <1>7 DEF InStep, Answering, NothingAsked
<1> QED
  BY <1>1, <1>7, <1>12, <1>13, <1>14, <1>15
     DEF InStep, Answering, Ending, NothingAsked

LEMMA ServerRecvEndsInStep ==
  ASSUME TypeInv, InStep, ServerRecvEnds
  PROVE  InStep'
<1> SUFFICES ASSUME ~short' PROVE InStep'
  BY DEF InStep
<1>1. UNCHANGED <<client, toClient, asked, astray, short, properties>>
  BY DEF ServerRecvEnds, setup, clientVars, history
<1>2. /\ ~short /\ ~astray /\ ~astray'
      /\ server = "recv" /\ server' = "closed" /\ toServer' = <<>>
  BY <1>1 DEF ServerRecvEnds, InStep
<1>3. NothingAsked' /\ client \notin {"connect", "refused"}
  BY <1>2 DEF NothingAsked, InStep, BeforeStart
<1>4. client = "greeting" => Greeted'
  BY <1>1, <1>2, <1>3 DEF InStep, Greeted
<1>5. client = "type" => Prompted'
  BY <1>1, <1>2, <1>3 DEF InStep, Prompted
<1>6. client = "send" => Asking'
  BY <1>1, <1>2, <1>3 DEF InStep, Asking
<1>7. client = "answer" => Answering'
  BY <1>1, <1>2, <1>3 DEF InStep, Answering
<1>8. client \in {"end", "closed"} => Ending'
  BY <1>1, <1>2, <1>3 DEF Ending
<1> QED
  BY <1>1, <1>2, <1>3, <1>4, <1>5, <1>6, <1>7, <1>8 DEF InStep

LEMMA NextInStep == TypeInv /\ InStep /\ [Next]_vars => InStep'
<1> SUFFICES ASSUME TypeInv, InStep, [Next]_vars PROVE InStep'
  OBVIOUS
<1>1. CASE Refused
  BY <1>1 DEF Refused, InStep, BeforeStart, NothingAsked, serverVars, history
<1>12. ASSUME NEW from \in Waits, NEW to \in Waits, Ready(from, to)
       PROVE  InStep'
  BY <1>12 DEF Ready, InStep, BeforeStart, Greeted, Prompted, Asking,
               Answering, Ending, InFlight, NothingAsked, clientVars,
               history
<1>13. CASE ScanFails \/ BindFails \/ StartServer
  BY <1>12, <1>13 DEF ScanFails, BindFails, StartServer
<1>2. CASE Connect
  BY <1>2 DEF Connect, InStep, BeforeStart, NothingAsked, Greeted, history
<1>3. ASSUME NEW w \in Words, Type(w) PROVE InStep'
  BY <1>3, TypeInStep
<1>4. CASE ClientSend
  BY <1>4, ClientSendInStep
<1>5. CASE ClientRecv
  BY <1>5, ClientRecvInStep
<1>6. CASE ClientRecvEnds
  BY <1>6, ClientRecvEndsInStep
<1>7. CASE ClientClose
  BY <1>7 DEF ClientClose, InStep, Ending, InFlight, NothingAsked,
              serverVars, history
<1>8. CASE ServerSend
  BY <1>8, ServerSendInStep
<1>9. CASE ServerRecv
  BY <1>9, ServerRecvInStep
<1>10. CASE ServerRecvEnds
  BY <1>10, ServerRecvEndsInStep
<1>11. CASE UNCHANGED vars
  BY <1>11 DEF vars, setup, clientVars, serverVars, history, InStep,
               BeforeStart, Greeted, Prompted, Asking, Answering, Ending,
               InFlight, NothingAsked
<1> QED
  BY <1>1, <1>2, <1>3, <1>4, <1>5, <1>6, <1>7, <1>8, <1>9, <1>10, <1>11,
     <1>13 DEF Next, ClientStep, ServerStep

(***************************************************************************)
(* What the server takes for an id or a command is what the user typed, if *)
(* every recv returned a whole message.                                    *)
(***************************************************************************)
THEOREM TakesWhatIsAsked == Spec => []OnlyAsked
<1>1. InStep => OnlyAsked
  BY DEF InStep, OnlyAsked
<1> QED
  BY InitTyped, NextTyped, InitInStep, NextInStep, <1>1, PTL DEF Spec

(***************************************************************************)
(* The two sides do not both wait in send, if every recv returned a whole  *)
(* message: while the client sends, the server has nothing to send.        *)
(***************************************************************************)
THEOREM MutualWaitsHaveCauses == Spec => []MutualWaitHasCause
<1>1. InStep => MutualWaitHasCause
  BY DEF InStep, Asking, MutualWaitHasCause
<1> QED
  BY InitTyped, NextTyped, InitInStep, NextInStep, <1>1, PTL DEF Spec

\* A client that connects finds no other conversation, and a server that
\* listens does so on the port of its properties.
Listens ==
  /\ typedPort \in Ports
  /\ properties = _readSettingsMapIntoServerStruct(MapOf(file))
  /\ client = "connect" => server \in Waits
  /\ server = "unread" => ~Scans(file)
  /\ server = "accept" /\ properties.port # 0 => bound = properties.port
  /\ RefusedHasCause

LEMMA SwappedNotZero ==
  ASSUME NEW n \in Nat, n % 65536 # 0
  PROVE  htons(n) # 0
<1> DEFINE p == n % 65536
<1>1. p \in Nat /\ p < 65536 /\ p # 0
  OBVIOUS
<1>2. htons(n) = 256 * (p % 256) + p \div 256
  BY DEF htons
<1> HIDE DEF p
<1> DEFINE low  == p % 256
           high == p \div 256
<1>3. p = 256 * high + low /\ low \in Nat /\ high \in Nat
  BY <1>1
<1>4. htons(n) = 256 * low + high
  BY <1>2
<1> HIDE DEF low, high
<1> QED
  BY <1>1, <1>3, <1>4

LEMMA ListensOnPort ==
  ASSUME Listens, Found(MapOf(file), "port"),
         MapOf(file)["port"] = typedPort, typedPort % 65536 # 0,
         server = "accept"
  PROVE  Listening
<1>1. typedPort \in Nat \ {0}
  BY ExchangeAssumption DEF Listens
<1>2. Setting(MapOf(file), "port", 3000) = typedPort
  BY <1>1 DEF Setting, atoi
<1>3. properties.port = Port(MapOf(file))
  BY DEF Listens, _readSettingsMapIntoServerStruct
<1>4. properties.port = htons(typedPort)
  BY <1>2, <1>3 DEF Port
<1>5. properties.port # 0
  BY <1>1, <1>4, SwappedNotZero
<1> QED
  BY <1>4, <1>5 DEF Listens, Listening

LEMMA StartListens ==
  ASSUME Listens, ScanFails \/ BindFails \/ StartServer
  PROVE  Listens'
<1>1. UNCHANGED <<file, properties, typedPort, early, client>>
  BY DEF ScanFails, BindFails, StartServer, Ready, clientVars
<1>2. /\ server' \in Waits
      /\ server' = "unread" => ~Scans(file)
      /\ server' = "accept" /\ properties.port # 0 => bound' = properties.port
  BY DEF ScanFails, BindFails, StartServer, Ready
<1> QED
  BY <1>1, <1>2 DEF Listens, RefusedHasCause

LEMMA RefusedListens ==
  ASSUME Listens, Refused
  PROVE  Listens'
<1>1. /\ client = "connect" /\ client' = "refused" /\ ~Listening
      /\ early' = (server \in {"start", "down"})
      /\ UNCHANGED <<file, properties, typedPort, bound, server>>
  BY DEF Refused, serverVars
<1>2. ASSUME Scans(file), Found(MapOf(file), "port"),
             MapOf(file)["port"] = typedPort, ~early'
      PROVE  typedPort % 65536 = 0
  <2>1. server = "accept"
    BY <1>1, <1>2 DEF Listens
  <2> QED
    BY <1>1, <1>2, <2>1, ListensOnPort
<1> QED
  BY <1>1, <1>2 DEF Listens, RefusedHasCause

LEMMA OthersListen ==
  ASSUME Listens,
         UNCHANGED <<file, properties, typedPort, bound, early>>,
         client' = client \/ client' \notin {"connect", "refused"},
         server' = server \/ server' \notin Waits,
         client' = "connect" => server' = server
  PROVE  Listens'
BY DEF Listens, RefusedHasCause

(***************************************************************************)
(* Nobody is refused by a server that has bound its port who types the     *)
(* port of its settings file, if the file can be read and 16 bits hold     *)
(* something of the port.                                                  *)
(***************************************************************************)
THEOREM RefusalsHaveCauses == Spec => []RefusedHasCause
<1>1. Init => Listens
  BY DEF Init, Listens, RefusedHasCause
<1>2. Listens /\ [Next]_vars => Listens'
  <2> SUFFICES ASSUME Listens, [Next]_vars PROVE Listens'
    OBVIOUS
  <2>1. CASE Refused
    BY <2>1, RefusedListens
  <2>2. CASE ScanFails \/ BindFails \/ StartServer
    BY <2>2, StartListens
  <2>3. CASE Connect
    BY <2>3, OthersListen DEF Connect, setup
  <2>4. ASSUME NEW w \in Words, Type(w) PROVE Listens'
    BY <2>4, OthersListen DEF Type, setup, serverVars
  <2>5. CASE ClientStep
    <3>1. /\ UNCHANGED <<file, properties, typedPort, bound, early>>
          /\ client' \notin {"connect", "refused"}
          /\ UNCHANGED server
      BY <2>5 DEF ClientStep, ClientSend, ClientRecv, ClientRecvEnds,
                  ClientClose, setup, serverVars, AfterSend
    <3> QED
      BY <3>1, OthersListen
  <2>6. CASE ServerStep
    <3>1. /\ UNCHANGED <<file, properties, typedPort, bound, early, client>>
          /\ server \in {"send", "bye", "recv"}
          /\ server' \in {"send", "bye", "recv", "closed"}
      BY <2>6 DEF ServerStep, ServerSend, ServerRecv, ServerRecvEnds, setup,
                  clientVars, AfterText
    <3>2. client # "connect"
      BY <3>1 DEF Listens
    <3> QED
      BY <3>1, <3>2, OthersListen
  <2>7. CASE UNCHANGED vars
    BY <2>7, OthersListen DEF vars, setup, clientVars, serverVars
  <2> QED
    BY <2>1, <2>2, <2>3, <2>4, <2>5, <2>6, <2>7 DEF Next
<1>3. Listens => RefusedHasCause
  BY DEF Listens
<1> QED
  BY <1>1, <1>2, <1>3, PTL DEF Spec

(***************************************************************************)
(* The first word: until the server has found its user, it is the only one *)
(* typed, and the client waits for its answer.                             *)
(***************************************************************************)
FirstTyped ==
  ~short /\ ~taken /\ ReceiveSize # 0 =>
    /\ typed = 0 =>
         /\ first = <<>>
         /\ client \in {"connect", "refused", "greeting", "type"}
         /\ server \notin {"bye", "closed"}
    /\ typed # 0 /\ first \in Ids /\ ~session =>
         server = "recv" /\ client \in {"send", "answer"} /\ asked = <<first>>

LEMMA IdIsNoQuit ==
  ASSUME NEW id \in Ids, sendBuff \in Seq(Bytes), Holds(sendBuff, id)
  PROVE  AfterSend = "answer"
<1> DEFINE q == Len(Quit)
<1>1. /\ Quit \in Seq(Bytes) /\ q \in Nat
      /\ \A i \in 1 .. q : Quit[i] # NUL
  BY WordsTyped DEF Words
<1>2. id \in Seq(Bytes) /\ Len(id) \in Nat
  BY WordsTyped DEF Words
<1>3. SUFFICES ASSUME SubSeq(sendBuff, 1, q + 1) = Append(Quit, NUL)
               PROVE  FALSE
  BY DEF AfterSend, IsQuit
<1>4. /\ \A i \in 1 .. q : sendBuff[i] = Quit[i]
      /\ sendBuff[q + 1] = NUL
  <2> DEFINE block == SubSeq(sendBuff, 1, q + 1)
             ended == Append(Quit, NUL)
  <2>1. \A i \in 1 .. q + 1 : block[i] = sendBuff[i]
    BY <1>1
  <2>2. ended[q + 1] = NUL /\ \A i \in 1 .. q : ended[i] = Quit[i]
    BY <1>1
  <2>3. block = ended
    BY <1>3
  <2> HIDE DEF block, ended, q
  <2> QED
    BY <1>1, <2>1, <2>2, <2>3
<1>5. /\ \A i \in 1 .. Len(id) : sendBuff[i] = id[i] /\ id[i] # NUL
      /\ sendBuff[Len(id) + 1] = NUL
  BY WordsTyped DEF Holds, Words
<1> HIDE DEF q
<1>6. q = Len(id)
  <2>1. ~(q < Len(id))
    BY <1>1, <1>2, <1>4, <1>5
  <2>2. ~(Len(id) < q)
    BY <1>1, <1>2, <1>4, <1>5
  <2> QED
    BY <1>1, <1>2, <2>1, <2>2
<1>7. id = Quit
  BY <1>1, <1>2, <1>4, <1>5, <1>6 DEF q
<1> QED
  BY <1>7, ExchangeAssumption

LEMMA InitFirstTyped == Init => FirstTyped
BY DEF Init, FirstTyped

LEMMA NextFirstTyped ==
  TypeInv /\ InStep /\ FirstTyped /\ [Next]_vars => FirstTyped'
<1> SUFFICES ASSUME TypeInv, InStep, FirstTyped, [Next]_vars,
                    ~short', ~taken', ReceiveSize' # 0
             PROVE  FirstTyped'
  BY DEF FirstTyped
<1>0. /\ ~short /\ ~taken /\ properties' = properties /\ ReceiveSize # 0
      /\ typed \in Nat /\ InStep'
  <2>1. properties' = properties
    BY DEF Next, ScanFails, BindFails, StartServer, Ready, Refused, Connect,
           Type, ClientStep, ServerStep, ClientSend, ClientRecv,
           ClientRecvEnds, ClientClose, ServerSend, ServerRecv,
           ServerRecvEnds, vars, setup
  <2>2. CASE ClientRecv \/ ServerRecv
    <3>1. ~short
      BY <2>2 DEF ClientRecv, ServerRecv
    <3>2. ~taken
      BY <2>2 DEF ClientRecv, ServerRecv
    <3> QED
      BY <2>1, <3>1, <3>2, NextInStep DEF TypeInv, TypeOK
  <2>3. CASE ~(ClientRecv \/ ServerRecv)
    <3>1. UNCHANGED <<short, taken>>
      BY <2>3 DEF Next, ScanFails, BindFails, StartServer, Ready, Refused,
         Connect, Type, ClientStep, ServerStep, ClientSend, ClientRecvEnds,
         ClientClose, ServerSend, ServerRecvEnds, vars, history
    <3> QED
      BY <2>1, <3>1, NextInStep DEF TypeInv, TypeOK
  <2> QED
    BY <2>2, <2>3
<1> USE <1>0 DEF FirstTyped
<1>1. CASE Refused
  BY <1>1 DEF Refused, serverVars, history
<1>12. ASSUME NEW from \in Waits, NEW to \in Waits, Ready(from, to)
       PROVE  FirstTyped'
  BY <1>12 DEF Ready, clientVars, history
<1>13. CASE ScanFails \/ BindFails \/ StartServer
  BY <1>12, <1>13 DEF ScanFails, BindFails, StartServer
<1>2. CASE Connect
  BY <1>2 DEF Connect, history
<1>3. ASSUME NEW w \in Words, Type(w) PROVE FirstTyped'
  <2>1. typed' # 0 /\ client' = "send" /\ UNCHANGED <<server, session>>
    BY <1>3 DEF Type, serverVars
  <2>2. CASE typed = 0
    <3>1. server = "recv" /\ asked = <<>> /\ first' = w
      BY <1>3, <2>2 DEF Type, InStep, Prompted, NothingAsked
    <3> QED
      BY <1>3, <2>1, <3>1 DEF Type
  <2>3. CASE typed # 0
    BY <1>3, <2>1, <2>3 DEF Type
  <2> QED
    BY <2>2, <2>3
<1>4. CASE ClientSend
  <2>1. UNCHANGED <<typed, first, server, session, asked>>
    BY <1>4 DEF ClientSend, serverVars, history
  <2>2. ASSUME first \in Ids, ~session, typed # 0 PROVE client' = "answer"
    <3>1. PICK w \in Words : asked = <<w>> /\ Holds(sendBuff, w)
      BY <1>4, <2>2 DEF ClientSend, InStep, Asking
    <3>2. w = first
      BY <2>2, <3>1
    <3> QED
      BY <1>4, <2>2, <3>1, <3>2, IdIsNoQuit DEF ClientSend, TypeInv, TypeOK
  <2>3. typed # 0
    BY <1>4 DEF ClientSend
  <2> QED
    BY <2>1, <2>2, <2>3
<1>5. CASE ClientRecv
  <2>1. UNCHANGED <<typed, first, server, session, asked>> /\ client' = "type"
    BY <1>5 DEF ClientRecv, serverVars
  <2>2. ASSUME first \in Ids, ~session, typed # 0 PROVE FALSE
    <3>1. client = "answer" /\ asked = <<first>> /\ server = "recv"
      BY <1>5, <2>2 DEF ClientRecv
    <3>2. asked # <<>>
      BY <3>1
    <3>3. toClient = 0
      BY <3>1, <3>2 DEF InStep, Answering, NothingAsked
    <3> QED
      BY <1>5, <3>3, ExchangeAssumption DEF ClientRecv
  <2> QED
    BY <1>5, <2>1, <2>2 DEF ClientRecv
<1>6. CASE ClientRecvEnds
  BY <1>6 DEF ClientRecvEnds, serverVars, history
<1>7. CASE ClientClose
  BY <1>7 DEF ClientClose, serverVars, history
<1>8. CASE ServerSend
  BY <1>8 DEF ServerSend, clientVars, history
<1>9. CASE ServerRecv
  <2>1. UNCHANGED <<typed, first, client>> /\ toServer # <<>>
    BY <1>9 DEF ServerRecv, clientVars, TypeInv, TypeOK
  <2>2. typed # 0
    BY <1>9, <2>1 DEF InStep, BeforeStart, Greeted, Prompted, NothingAsked
  <2>3. ASSUME first \in Ids, ~session PROVE session'
    <3>1. asked = <<first>>
      BY <2>2, <2>3
    <3>2. ~astray'
      BY DEF InStep
    <3>3. PICK text \in Strings(receive_buffer'), connected \in BOOLEAN :
            /\ session' = (session \/ (text \in Ids /\ ~connected))
            /\ taken' = (taken \/ (~session /\ text \in Ids /\ connected))
            /\ IF asked # <<>> /\ text = Head(asked)
               THEN asked' = Tail(asked) /\ UNCHANGED astray
               ELSE astray' = TRUE /\ UNCHANGED asked
      BY <1>9 DEF ServerRecv
    <3>4. text = Head(asked)
      BY <3>2, <3>3
    <3>5. text = first
      BY <3>1, <3>4
    <3> QED
      BY <2>3, <3>3, <3>5
  <2>4. session => session'
    <3>1. PICK text \in Strings(receive_buffer'), connected \in BOOLEAN :
            session' = (session \/ (text \in Ids /\ ~connected))
      BY <1>9 DEF ServerRecv
    <3> QED
      BY <3>1
  <2>5. first' \in Ids => session'
    <3>1. first' = first
      BY <2>1
    <3>2. CASE session
      BY <2>4, <3>2
    <3>3. CASE ~session
      BY <2>3, <3>1, <3>3
    <3> QED
      BY <3>2, <3>3
  <2>6. typed' # 0
    BY <2>1, <2>2
  <2> QED
    BY <2>5, <2>6
<1>10. CASE ServerRecvEnds
  BY <1>10 DEF ServerRecvEnds, clientVars, history
<1>11. CASE UNCHANGED vars
  BY <1>11 DEF vars, clientVars, serverVars, history
<1> QED
  BY <1>1, <1>2, <1>3, <1>4, <1>5, <1>6, <1>7, <1>8, <1>9, <1>10, <1>11,
     <1>13 DEF Next, ClientStep, ServerStep

(***************************************************************************)
(* A user whose id the server knows and whose settings file has a          *)
(* receive_buffer_size is turned away only if a message has come in parts  *)
(* or the user is in a session already.                                    *)
(***************************************************************************)
THEOREM UsersGetIn == Spec => []TurnedAwayHasCause
<1> DEFINE Given ==
             Found(MapOf(file), "receive_buffer_size") => ReceiveSize # 0
<1>1. Init => Given
  <2> SUFFICES ASSUME Init, Found(MapOf(file), "receive_buffer_size")
               PROVE  ReceiveSize # 0
    OBVIOUS
  <2>1. ReceiveSize = Setting(MapOf(file), "receive_buffer_size", DefaultSize)
    BY DEF Init, _readSettingsMapIntoServerStruct
  <2> QED
    BY <2>1, SettingPositive, SettingsAssumption
<1>2. Given /\ [Next]_vars => Given'
  BY DEF Next, ScanFails, BindFails, StartServer, Ready, Refused, Connect,
         Type, ClientStep, ServerStep, ClientSend, ClientRecv,
         ClientRecvEnds, ClientClose, ServerSend, ServerRecv,
         ServerRecvEnds, vars, setup
<1>3. TypeInv /\ Given /\ FirstTyped => TurnedAwayHasCause
  <2>1. <<>> \notin Ids
    BY WordsTyped DEF Words
  <2> QED
    BY <2>1 DEF FirstTyped, TurnedAwayHasCause
<1> HIDE DEF Given
<1> QED
  BY <1>1, <1>2, <1>3, InitTyped, NextTyped, InitInStep, NextInStep,
     InitFirstTyped, NextFirstTyped, PTL DEF Spec
=============================================================================
