--------------------------- MODULE RegisteredFile ---------------------------
(***************************************************************************)
(* The text of the registered file: what UpdateRegisteredFileFromUsersMap  *)
(* prints for a user and what ReadRegisteredFileIntoUsersMap makes of a    *)
(* text.  Where one record ends and how long it is decides what a reader   *)
(* finds, because the file is written over its old text and has no line    *)
(* ends; so a text is a sequence of characters, with short ids, addresses  *)
(* and numbers.  The fields of a record are kept as they are printed.      *)
(***************************************************************************)
EXTENDS Integers, Sequences

CONSTANTS
  Chars,             (* the characters of a text                            *)
  RECORD_COUNT,      (* the number of User records                          *)
  accepted_userIDs,  (* the id of each of them, as characters               *)
  Profiles,          (* the values of (age, gpa), as they are printed       *)
  Addrs              (* the client addresses, as they are printed           *)

Users  == 1 .. RECORD_COUNT
TAB    == "\t"
Digits == {"0", "1", "2", "3", "4", "5", "6", "7", "8", "9"}
Text   == Seq(Chars)

(***************************************************************************)
(* What the program prints: ids without blanks that start with a letter    *)
(* and are told apart, ages without a sign or leading zeros, a gpa with    *)
(* digits on either side of its point, and addresses without blanks.       *)
(***************************************************************************)
Words  == Seq(Chars \ {TAB}) \ {<<>>}
Ints   == {s \in Seq(Digits) \ {<<>>} : s[1] # "0"}
Floats == {s \in Text :
             \E d \in 2 .. Len(s) :
               /\ s[d] = "."
               /\ \A i \in 1 .. Len(s) : i # d => s[i] \in Digits}

ASSUME RegisteredFileAssumption ==
  /\ Digits \union {TAB, "."} \subseteq Chars
  /\ RECORD_COUNT \in Nat
  /\ \A u \in Users :
       /\ accepted_userIDs[u] \in Words
       /\ accepted_userIDs[u][1] \notin Digits
       /\ \A v \in Users : accepted_userIDs[u] = accepted_userIDs[v] => u = v
  /\ \A pr \in Profiles : pr.age \in Ints /\ pr.gpa \in Floats
  /\ Addrs \subseteq Words

\* A User that memset has cleared, and one with its age and gpa.
Unregistered ==
  [registered |-> FALSE, age |-> <<"0">>, gpa |-> <<"0">>, ip |-> <<>>,
   lastConnection |-> <<"0">>]

UserRecord == [registered : BOOLEAN, age : Text, gpa : Text, ip : Text,
               lastConnection : Text]

NoUsers == [u \in Users |-> Unregistered]

\* What earlier servers may have left.
Records ==
  {Unregistered} \union
  {[registered |-> TRUE, age |-> pr.age, gpa |-> pr.gpa, ip |-> a,
    lastConnection |-> <<"0">>] : pr \in Profiles, a \in Addrs}

\* Mutant of RecordText: the id of the user after this one.
RecordTextShifted(u, user) ==
  IF ~user.registered THEN <<>>
  ELSE accepted_userIDs[(u % RECORD_COUNT) + 1] \o <<TAB>> \o user.age
         \o <<TAB>> \o user.gpa \o <<TAB>> \o user.ip \o <<TAB>>
         \o user.lastConnection

\* fprintf(reg_file, "%s\t%d\t%f\t%s\t%ld", ...) for a registered user
RecordText(u, user) ==
  IF ~user.registered THEN <<>>
  ELSE accepted_userIDs[u] \o <<TAB>> \o user.age \o <<TAB>> \o user.gpa
         \o <<TAB>> \o user.ip \o <<TAB>> \o user.lastConnection

\* The text of a whole users map.
TextOf(users) ==
  LET upTo[n \in 0 .. RECORD_COUNT] ==
        IF n = 0 THEN <<>> ELSE upTo[n - 1] \o RecordText(n, users[n])
  IN  upTo[RECORD_COUNT]

\* Writing text from the start of a file that was opened with "r+".
Overwrite(file, text) == text \o SubSeq(file, Len(text) + 1, Len(file))

(***************************************************************************)
(* fscanf.  The end of a run of characters of text t that starts at p, and *)
(* the fields that its conversions take, each after blanks.                *)
(***************************************************************************)
Stop(t, p, chars) ==
  CHOOSE q \in p .. Len(t) + 1 :
    /\ q = Len(t) + 1 \/ t[q] \notin chars
    /\ \A r \in p .. q - 1 : t[r] \in chars

Skip(t, p)   == Stop(t, p, {TAB})
EndS(t, p)   == Stop(t, p, Chars \ {TAB})
EndD(t, p)   == Stop(t, p, Digits)
EndF(t, p)   == LET q == EndD(t, p)
                IN  IF q <= Len(t) /\ t[q] = "." THEN EndD(t, q + 1) ELSE q

\* What %d and %ld store, printed again: no leading zeros.
Number(s) ==
  LET q == Stop(s, 1, {"0"})
  IN  IF q > Len(s) THEN <<"0">> ELSE SubSeq(s, q, Len(s))

(***************************************************************************)
(* One call of fscanf at p: how many items it assigns (-1 for EOF), the    *)
(* fields and where the next call goes on.                                 *)
(* A save prints ids that fit userID[9] and addresses that fit the         *)
(* userLastIP[16]; in a spoilt text %s may read more and overwrite what    *)
(* lies behind them, which is left out, as is that %f keeps a float and    *)
(* not the digits it has read.                                             *)
(***************************************************************************)
Scan(t, p) ==
  LET b1 == Skip(t, p)   e1 == EndS(t, b1)
      b2 == Skip(t, e1)  e2 == EndD(t, b2)
      b3 == Skip(t, e2)  e3 == EndF(t, b3)
      b4 == Skip(t, e3)  e4 == EndS(t, b4)
      b5 == Skip(t, e4)  e5 == EndD(t, b5)
      isFloat == \E q \in b3 .. e3 - 1 : t[q] \in Digits
  IN  [items |-> CASE b1 > Len(t) -> -1
                   [] b1 <= Len(t) /\ e2 = b2 -> 1
                   [] e2 > b2 /\ ~isFloat -> 2
                   [] isFloat /\ e4 = b4 -> 3
                   [] e4 > b4 /\ e5 = b5 -> 4
                   [] OTHER -> 5,
       userID |-> SubSeq(t, b1, e1 - 1),
       user |-> [registered |-> TRUE,
                 age |-> Number(SubSeq(t, b2, e2 - 1)),
                 gpa |-> SubSeq(t, b3, e3 - 1),
                 ip |-> SubSeq(t, b4, e4 - 1),
                 lastConnection |-> Number(SubSeq(t, b5, e5 - 1))],
       next |-> e5]

\* The calls of fscanf up to the first that does not assign five items.
Scans(t) ==
  LET from[p \in 1 .. Len(t) + 1] ==
        LET s == Scan(t, p)
        IN  IF s.items = 5 THEN <<s>> \o from[s.next] ELSE <<s>>
  IN  from[1]

\* ReadRegisteredFileIntoUsersMap returns 0.
Readable(t) == LET s == Scans(t) IN s[Len(s)].items = -1

\* The records of user u that were read, and the user they make.
RecordsOf(s, u) ==
  {i \in 1 .. Len(s) : s[i].items = 5 /\ s[i].userID = accepted_userIDs[u]}

UserOf(s, u) ==
  LET own == RecordsOf(s, u)
  IN  IF own = {} THEN Unregistered
      ELSE s[CHOOSE i \in own : \A j \in own : j <= i].user

\* Mutant of UsersOf: the users are counted from 0.
UsersFromZero(t) ==
  LET s == Scans(t) IN [u \in 0 .. RECORD_COUNT - 1 |-> UserOf(s, u + 1)]

\* The users map after it: a later record of a user replaces an earlier
\* one, and a record of an id that is not in the map is passed over.
UsersOf(t) == LET s == Scans(t) IN [u \in Users |-> UserOf(s, u)]
=============================================================================
