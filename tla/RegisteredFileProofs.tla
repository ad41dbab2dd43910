------------------------ MODULE RegisteredFileProofs ------------------------
(***************************************************************************)
(* The registered file for any number of users and any ids, profiles and   *)
(* addresses that the program prints: every text makes a users map, and    *)
(* the text of a users map makes that map.                                 *)
(***************************************************************************)
EXTENDS RegisteredFile, Recursion, SequenceTheorems

(***************************************************************************)
(* Stop: a run ends somewhere, and in one place only.                      *)
(***************************************************************************)
Ends(t, p, chars, q) ==
  /\ q \in p .. Len(t) + 1
  /\ q = Len(t) + 1 \/ t[q] \notin chars
  /\ \A r \in p .. q - 1 : t[r] \in chars

LEMMA StopEnds ==
  ASSUME NEW t \in Text, NEW p \in 1 .. Len(t) + 1, NEW chars
  PROVE  Ends(t, p, chars, Stop(t, p, chars))
<1> DEFINE T == {q \in p .. Len(t) + 1 : q = Len(t) + 1 \/ t[q] \notin chars}
<1>1. Len(t) \in Nat
  BY DEF Text
<1>2. T \subseteq Nat /\ Len(t) + 1 \in T
  BY <1>1
<1>3. PICK q \in T : \A r \in T : q <= r
  <2> HIDE DEF T
  <2> QED
    BY <1>2, LeastExists
<1>4. \A r \in p .. q - 1 : t[r] \in chars
  BY <1>1, <1>3
<1>5. q \in p .. Len(t) + 1 /\ Ends(t, p, chars, q)
  BY <1>3, <1>4 DEF Ends
<1> QED
  BY <1>5 DEF Stop, Ends

LEMMA StopIs ==
  ASSUME NEW t \in Text, NEW p \in 1 .. Len(t) + 1, NEW chars,
         NEW q, Ends(t, p, chars, q)
  PROVE  Stop(t, p, chars) = q
<1> DEFINE s == Stop(t, p, chars)
<1>1. Ends(t, p, chars, s)
  BY StopEnds
<1>2. Len(t) \in Nat
  BY DEF Text
<1> HIDE DEF s
<1>3. s \in Int /\ q \in Int
  BY <1>1, <1>2 DEF Ends
<1>4. ~ (s < q)
  <2> SUFFICES ASSUME s < q PROVE FALSE
    OBVIOUS
  <2>1. s \in p .. q - 1 /\ s # Len(t) + 1
    BY <1>1, <1>2, <1>3 DEF Ends
  <2> QED
    BY <1>1, <2>1 DEF Ends
<1>5. ~ (q < s)
  <2> SUFFICES ASSUME q < s PROVE FALSE
    OBVIOUS
  <2>1. q \in p .. s - 1 /\ q # Len(t) + 1
    BY <1>1, <1>2, <1>3 DEF Ends
  <2> QED
    BY <1>1, <2>1 DEF Ends
<1>6. s = q
  BY <1>3, <1>4, <1>5
<1> QED
  BY <1>6 DEF s

(***************************************************************************)
(* One call of fscanf makes a record of whatever text there is, and goes   *)
(* on behind what it has assigned.                                         *)
(***************************************************************************)
Places(t) == 1 .. Len(t) + 1

LEMMA StopTyped ==
  ASSUME NEW t \in Text, NEW p \in Places(t), NEW chars
  PROVE  /\ Stop(t, p, chars) \in Places(t)
         /\ p <= Stop(t, p, chars)
<1>1. Ends(t, p, chars, Stop(t, p, chars))
  BY StopEnds DEF Places
<1>2. Len(t) \in Nat
  BY DEF Text
<1> QED
  BY <1>1, <1>2 DEF Ends, Places

LEMMA EndFTyped ==
  ASSUME NEW t \in Text, NEW p \in Places(t)
  PROVE  EndF(t, p) \in Places(t) /\ p <= EndF(t, p)
<1> DEFINE q == EndD(t, p)
<1>1. q \in Places(t) /\ p <= q
  BY StopTyped DEF EndD
<1>2. EndF(t, p) = IF q <= Len(t) /\ t[q] = "." THEN EndD(t, q + 1) ELSE q
  BY DEF EndF
<1> HIDE DEF q
<1>3. Len(t) \in Nat
  BY DEF Text
<1>4. CASE q <= Len(t) /\ t[q] = "."
  <2>1. q + 1 \in Places(t)
    BY <1>1, <1>3, <1>4 DEF Places
  <2>2. EndD(t, q + 1) \in Places(t) /\ q + 1 <= EndD(t, q + 1)
    BY <2>1, StopTyped DEF EndD
  <2> QED
    BY <1>1, <1>2, <1>3, <1>4, <2>2 DEF Places
<1>5. CASE ~ (q <= Len(t) /\ t[q] = ".")
  BY <1>1, <1>2, <1>5
<1> QED
  BY <1>4, <1>5

LEMMA SubTextTyped ==
  ASSUME NEW t \in Text, NEW p \in Places(t), NEW q \in Places(t)
  PROVE  SubSeq(t, p, q - 1) \in Text
<1>1. Len(t) \in Nat /\ \A i \in 1 .. Len(t) : t[i] \in Chars
  BY DEF Text
<1>2. p \in Int /\ q - 1 \in Int /\ \A i \in p .. q - 1 : t[i] \in Chars
  BY <1>1 DEF Places
<1> QED
  BY <1>2, SubSeqProperties DEF Text

LEMMA NumberTyped ==
  ASSUME NEW s \in Text
  PROVE  Number(s) \in Text
<1> DEFINE q == Stop(s, 1, {"0"})
<1>1. 1 \in Places(s) /\ Len(s) + 1 \in Places(s) /\ (Len(s) + 1) - 1 = Len(s)
  BY DEF Text, Places
<1>2. q \in Places(s)
  BY <1>1, StopTyped
<1>3. SubSeq(s, q, Len(s)) \in Text
  <2> HIDE DEF q
  <2> QED
    BY <1>1, <1>2, SubTextTyped
<1>4. <<"0">> \in Text
  BY RegisteredFileAssumption DEF Text, Digits
<1> QED
  BY <1>3, <1>4 DEF Number

ScanResult ==
  [items : {-1} \union 1 .. 5, userID : Text, user : UserRecord, next : Nat]

LEMMA ScanTyped ==
  ASSUME NEW t \in Text, NEW p \in Places(t)
  PROVE  /\ Scan(t, p) \in ScanResult
         /\ Scan(t, p).next \in Places(t)
         /\ Scan(t, p).items = 5 => p < Scan(t, p).next
<1> DEFINE b1 == Skip(t, p)   e1 == EndS(t, b1)
           b2 == Skip(t, e1)  e2 == EndD(t, b2)
           b3 == Skip(t, e2)  e3 == EndF(t, b3)
           b4 == Skip(t, e3)  e4 == EndS(t, b4)
           b5 == Skip(t, e4)  e5 == EndD(t, b5)
           isFloat == \E q \in b3 .. e3 - 1 : t[q] \in Digits
           items == CASE b1 > Len(t) -> -1
                      [] b1 <= Len(t) /\ e2 = b2 -> 1
                      [] e2 > b2 /\ ~isFloat -> 2
                      [] isFloat /\ e4 = b4 -> 3
                      [] e4 > b4 /\ e5 = b5 -> 4
                      [] OTHER -> 5
           age == Number(SubSeq(t, b2, e2 - 1))
           gpa == SubSeq(t, b3, e3 - 1)
           ip == SubSeq(t, b4, e4 - 1)
           last == Number(SubSeq(t, b5, e5 - 1))
           user == [registered |-> TRUE, age |-> age, gpa |-> gpa, ip |-> ip,
                    lastConnection |-> last]
           userID == SubSeq(t, b1, e1 - 1)
<1> USE DEF Skip, EndS, EndD
<1>1. b1 \in Places(t) /\ p <= b1
  BY StopTyped
<1>2. e1 \in Places(t) /\ b1 <= e1
  <2> HIDE DEF b1
  <2> QED
    BY <1>1, StopTyped
<1>3. b2 \in Places(t) /\ e1 <= b2
  <2> HIDE DEF e1
  <2> QED
    BY <1>2, StopTyped
<1>4. e2 \in Places(t) /\ b2 <= e2
  <2> HIDE DEF b2
  <2> QED
    BY <1>3, StopTyped
<1>5. b3 \in Places(t) /\ e2 <= b3
  <2> HIDE DEF e2
  <2> QED
    BY <1>4, StopTyped
<1>6. e3 \in Places(t) /\ b3 <= e3
  <2> HIDE DEF b3
  <2> QED
    BY <1>5, EndFTyped
<1>7. b4 \in Places(t) /\ e3 <= b4
  <2> HIDE DEF e3
  <2> QED
    BY <1>6, StopTyped
<1>8. e4 \in Places(t) /\ b4 <= e4
  <2> HIDE DEF b4
  <2> QED
    BY <1>7, StopTyped
<1>9. b5 \in Places(t) /\ e4 <= b5
  <2> HIDE DEF e4
  <2> QED
    BY <1>8, StopTyped
<1>10. e5 \in Places(t) /\ b5 <= e5
  <2> HIDE DEF b5
  <2> QED
    BY <1>9, StopTyped
<1>11. Scan(t, p) = [items |-> items, userID |-> userID, user |-> user,
                     next |-> e5]
  BY DEF Scan
<1> HIDE DEF b1, e1, b2, e2, b3, e3, b4, e4, b5, e5, isFloat, Skip, EndS, EndD
<1>12. userID \in Text /\ gpa \in Text /\ ip \in Text
  BY <1>1, <1>2, <1>5, <1>6, <1>7, <1>8, SubTextTyped
<1>13. age \in Text /\ last \in Text
  <2>1. SubSeq(t, b2, e2 - 1) \in Text /\ SubSeq(t, b5, e5 - 1) \in Text
    BY <1>3, <1>4, <1>9, <1>10, SubTextTyped
  <2> QED
    BY <2>1, NumberTyped
<1>14. user \in UserRecord
  <2> HIDE DEF age, gpa, ip, last
  <2> QED
    BY <1>12, <1>13 DEF UserRecord
<1>15. items \in {-1} \union 1 .. 5
  OBVIOUS
<1>16. Len(t) \in Nat
  BY DEF Text
<1>17. items = 5 => p < e5
  <2> SUFFICES ASSUME items = 5 PROVE p < e5
    OBVIOUS
  <2>1. b1 <= Len(t) => e2 # b2
    OBVIOUS
  <2>2. ~ (b1 > Len(t))
    OBVIOUS
  <2> QED
    BY <1>1, <1>2, <1>3, <1>4, <1>5, <1>6, <1>7, <1>8, <1>9, <1>10, <1>16,
       <2>1, <2>2 DEF Places
<1>18. e5 \in Nat
  BY <1>10, <1>16 DEF Places
<1> HIDE DEF items, user, userID
<1> QED
  BY <1>10, <1>11, <1>12, <1>14, <1>15, <1>17, <1>18 DEF ScanResult

(***************************************************************************)
(* Scans is the recursion that it is written as.                           *)
(***************************************************************************)
ScansFrom(t, f) ==
  /\ f \in [Places(t) -> Seq(ScanResult)]
  /\ \A p \in Places(t) :
       f[p] = IF Scan(t, p).items = 5
              THEN <<Scan(t, p)>> \o f[Scan(t, p).next]
              ELSE <<Scan(t, p)>>

LEMMA ScansIs ==
  ASSUME NEW t \in Text
  PROVE  \E f : ScansFrom(t, f) /\ Scans(t) = f[1]
<1> DEFINE N == Len(t) + 1
           item == [p \in 1 .. N |-> Scan(t, p)]
           more == {p \in 1 .. N : Scan(t, p).items = 5}
           next == [p \in more |-> Scan(t, p).next]
           F(f) == [p \in 1 .. Len(t) + 1 |->
                      IF Scan(t, p).items = 5
                      THEN <<Scan(t, p)>> \o f[Scan(t, p).next]
                      ELSE <<Scan(t, p)>>]
           Solves(f) == \A p \in 1 .. N :
                          f[p] = IF Scan(t, p).items = 5
                                 THEN <<Scan(t, p)>> \o f[Scan(t, p).next]
                                 ELSE <<Scan(t, p)>>
           g == CHOOSE h : h = F(h)
<1>1. N \in Nat /\ Places(t) = 1 .. N /\ 1 \in 1 .. N
  BY DEF Text, Places
<1>2. item \in [1 .. N -> ScanResult]
  BY <1>1, ScanTyped
<1>3. more \in SUBSET (1 .. N)
  OBVIOUS
<1>4. next \in [more -> 1 .. N] /\ \A p \in more : p < next[p]
  BY <1>1, ScanTyped
<1>5. PICK f \in [1 .. N -> Seq(ScanResult)] :
        /\ Jumps(N, item, more, next, f)
        /\ \A h : Jumps(N, item, more, next, h) =>
                    \A p \in 1 .. N : h[p] = f[p]
  <2> HIDE DEF N, item, more, next, F, Solves, g
  <2>1. JumpTable(N, ScanResult, item, more, next)
    BY <1>1, <1>2, <1>3, <1>4 DEF JumpTable
  <2> QED
    BY <2>1, RecursionByJumps
<1>6. ASSUME NEW h PROVE Jumps(N, item, more, next, h) <=> Solves(h)
  BY DEF Jumps
<1>7. Solves(f)
  <2> HIDE DEF Solves, N, item, more, next
  <2> QED
    BY <1>5, <1>6
<1>8. f = F(f)
  BY <1>5, <1>7
<1>9. g = F(g)
  <2> HIDE DEF F
  <2> QED
    BY <1>8
<1>10. Scans(t) = g[1]
  BY DEF Scans
<1> HIDE DEF g
<1>11. Solves(g)
  BY <1>9
<1>12. \A p \in 1 .. N : g[p] = f[p]
  <2> HIDE DEF Solves, N, item, more, next
  <2> QED
    BY <1>5, <1>6, <1>11
<1>13. Scans(t) = f[1]
  BY <1>1, <1>10, <1>12
<1>14. ScansFrom(t, f)
  <2>1. f \in [Places(t) -> Seq(ScanResult)]
    BY <1>1, <1>5
  <2> QED
    BY <1>1, <1>7, <2>1 DEF ScansFrom
<1> QED
  BY <1>13, <1>14

LEMMA ScansTyped ==
  ASSUME NEW t \in Text
  PROVE  Scans(t) \in Seq(ScanResult)
<1>1. PICK f : ScansFrom(t, f) /\ Scans(t) = f[1]
  BY ScansIs
<1>2. 1 \in Places(t)
  BY DEF Text, Places
<1> QED
  BY <1>1, <1>2 DEF ScansFrom

(***************************************************************************)
(* A user who was read at all has one of the records of its id.            *)
(***************************************************************************)
LEMMA UserOfIs ==
  ASSUME NEW s \in Seq(ScanResult), NEW u, RecordsOf(s, u) # {}
  PROVE  \E i \in RecordsOf(s, u) : UserOf(s, u) = s[i].user
<1> DEFINE own == RecordsOf(s, u)
           i == CHOOSE k \in own : \A j \in own : j <= k
<1>1. Len(s) \in Nat /\ own \subseteq 0 .. Len(s) /\ own # {}
  BY DEF RecordsOf
<1>2. \E k \in own : \A j \in own : j <= k
  <2> HIDE DEF own
  <2> QED
    BY <1>1, GreatestExists
<1>3. i \in own
  <2> HIDE DEF own
  <2> QED
    BY <1>2
<1>4. UserOf(s, u) = s[i].user
  BY DEF UserOf
<1> QED
  BY <1>3, <1>4

LEMMA UnregisteredTyped == Unregistered \in UserRecord
<1>1. <<"0">> \in Text /\ <<>> \in Text
  BY RegisteredFileAssumption DEF Text, Digits
<1> QED
  BY <1>1 DEF Unregistered, UserRecord

(***************************************************************************)
(* The operators of the reader give every user a record for any text, so   *)
(* that a users map that is made of one keeps its type.                    *)
(***************************************************************************)
LEMMA EveryTextMakesUsers ==
  ASSUME NEW t \in Text
  PROVE  UsersOf(t) \in [Users -> UserRecord]
<1>1. Scans(t) \in Seq(ScanResult)
  BY ScansTyped
<1>2. ASSUME NEW u \in Users, NEW s \in Seq(ScanResult)
      PROVE  UserOf(s, u) \in UserRecord
  <2>1. CASE RecordsOf(s, u) = {}
    BY <2>1, UnregisteredTyped DEF UserOf
  <2>2. CASE RecordsOf(s, u) # {}
    <3>1. PICK i \in RecordsOf(s, u) : UserOf(s, u) = s[i].user
      BY <2>2, UserOfIs
    <3>2. s[i] \in ScanResult
      BY DEF RecordsOf
    <3> QED
      BY <3>1, <3>2 DEF ScanResult
  <2> QED
    BY <2>1, <2>2
<1> QED
  BY <1>1, <1>2 DEF UsersOf

(***************************************************************************)
(* The word w is in text t at place p.                                     *)
(***************************************************************************)
At(t, p, w) ==
  /\ p + Len(w) <= Len(t) + 1
  /\ \A i \in 1 .. Len(w) : t[p + i - 1] = w[i]

LEMMA AtJoined ==
  ASSUME NEW t \in Text, NEW p \in Places(t), NEW a \in Text, NEW b \in Text,
         At(t, p, a \o b)
  PROVE  At(t, p, a) /\ At(t, p + Len(a), b)
<1>1. Len(t) \in Nat /\ Len(a) \in Nat /\ Len(b) \in Nat /\ p \in Nat
  BY DEF Text, Places
<1>2. /\ Len(a \o b) = Len(a) + Len(b)
      /\ \A i \in 1 .. Len(a) + Len(b) :
           (a \o b)[i] = IF i <= Len(a) THEN a[i] ELSE b[i - Len(a)]
  BY ConcatProperties DEF Text
<1> DEFINE c == a \o b
<1>3. /\ p + Len(c) <= Len(t) + 1 /\ Len(c) = Len(a) + Len(b)
      /\ \A i \in 1 .. Len(c) : t[p + i - 1] = c[i]
      /\ \A i \in 1 .. Len(a) + Len(b) :
           c[i] = IF i <= Len(a) THEN a[i] ELSE b[i - Len(a)]
  BY <1>2 DEF At
<1> HIDE DEF c
<1>4. At(t, p, a)
  BY <1>1, <1>3 DEF At
<1>5. ASSUME NEW i \in 1 .. Len(b)
      PROVE  t[(p + Len(a)) + i - 1] = b[i]
  <2>1. /\ Len(a) + i \in 1 .. Len(c) /\ ~ (Len(a) + i <= Len(a))
        /\ (Len(a) + i) - Len(a) = i
        /\ p + (Len(a) + i) - 1 = (p + Len(a)) + i - 1
    BY <1>1, <1>3
  <2>2. c[Len(a) + i] = b[i] /\ t[p + (Len(a) + i) - 1] = c[Len(a) + i]
    BY <1>1, <1>3, <2>1
  <2> QED
    BY <2>1, <2>2
<1>6. At(t, p + Len(a), b)
  BY <1>1, <1>3, <1>5 DEF At
<1> QED
  BY <1>4, <1>6

\* A word that something else follows is what a conversion takes.
LEMMA StopBehind ==
  ASSUME NEW t \in Text, NEW p \in Places(t), NEW w \in Text, At(t, p, w),
         NEW chars, \A i \in 1 .. Len(w) : w[i] \in chars,
         p + Len(w) = Len(t) + 1 \/ t[p + Len(w)] \notin chars
  PROVE  /\ Stop(t, p, chars) = p + Len(w)
         /\ p + Len(w) \in Places(t)
<1>1. Len(t) \in Nat /\ Len(w) \in Nat /\ p \in Nat /\ p >= 1
  BY DEF Text, Places
<1>2. p + Len(w) \in p .. Len(t) + 1 /\ p \in 1 .. Len(t) + 1
  BY <1>1 DEF At, Places
<1>3. ASSUME NEW r \in p .. (p + Len(w)) - 1 PROVE t[r] \in chars
  <2>1. (r - p) + 1 \in 1 .. Len(w) /\ p + ((r - p) + 1) - 1 = r
    BY <1>1
  <2> QED
    BY <2>1 DEF At
<1>4. Ends(t, p, chars, p + Len(w))
  BY <1>2, <1>3 DEF Ends
<1> QED
  BY <1>1, <1>2, <1>4, StopIs DEF Places

LEMMA TakenAt ==
  ASSUME NEW t \in Text, NEW p \in Places(t), NEW w \in Text, At(t, p, w)
  PROVE  SubSeq(t, p, (p + Len(w)) - 1) = w
<1> DEFINE q == (p + Len(w)) - 1
           s == SubSeq(t, p, q)
<1>1. Len(t) \in Nat /\ Len(w) \in Nat /\ p \in Nat /\ p >= 1
  BY DEF Text, Places
<1>2. p \in Int /\ q \in Int /\ \A i \in p .. q : t[i] \in Chars
  BY <1>1 DEF At, Text
<1>3. /\ s \in Seq(Chars)
      /\ Len(s) = IF p <= q THEN q - p + 1 ELSE 0
      /\ \A i \in 1 .. q - p + 1 : s[i] = t[p + i - 1]
  <2> HIDE DEF q
  <2> QED
    BY <1>2, SubSeqProperties
<1>4. Len(s) = Len(w) /\ q - p + 1 = Len(w)
  BY <1>1, <1>3
<1>5. \A i \in 1 .. Len(s) : s[i] = w[i]
  <2> HIDE DEF s, q
  <2> QED
    BY <1>3, <1>4 DEF At
<1> HIDE DEF s, q
<1>6. s = w
  BY <1>3, <1>4, <1>5, SeqEqual DEF Text
<1> QED
  BY <1>6 DEF s, q

\* Conversions take the blank before them.
LEMMA SkipTab ==
  ASSUME NEW t \in Text, NEW p \in Places(t), p < Len(t),
         t[p] = TAB, t[p + 1] # TAB
  PROVE  Skip(t, p) = p + 1
<1>1. Len(t) \in Nat /\ p \in 1 .. Len(t) + 1
  BY DEF Text, Places
<1>2. Ends(t, p, {TAB}, p + 1)
  BY <1>1 DEF Ends
<1> QED
  BY <1>1, <1>2, StopIs DEF Skip

LEMMA SkipNothing ==
  ASSUME NEW t \in Text, NEW p \in Places(t),
         p = Len(t) + 1 \/ t[p] # TAB
  PROVE  Skip(t, p) = p
<1>1. Len(t) \in Nat /\ p \in 1 .. Len(t) + 1
  BY DEF Text, Places
<1>2. Ends(t, p, {TAB}, p)
  BY <1>1 DEF Ends
<1> QED
  BY <1>1, <1>2, StopIs DEF Skip

LEMMA NumberOfInt ==
  ASSUME NEW w \in Ints
  PROVE  Number(w) = w
<1>1. w \in Seq(Chars) /\ w # <<>> /\ w[1] # "0"
  <2>1. w \in Seq(Digits) /\ Digits \subseteq Chars
    BY RegisteredFileAssumption DEF Ints
  <2> QED
    BY <2>1, SeqMonotonic DEF Ints
<1>2. Len(w) \in Nat /\ Len(w) >= 1
  BY <1>1
<1>3. Ends(w, 1, {"0"}, 1)
  BY <1>1, <1>2 DEF Ends
<1>4. Stop(w, 1, {"0"}) = 1
  BY <1>1, <1>2, <1>3, StopIs DEF Text
<1>5. SubSeq(w, 1, Len(w)) = w
  BY <1>1, SubSeqFull
<1> QED
  BY <1>2, <1>4, <1>5 DEF Number

LEMMA NumberOfZeros ==
  ASSUME NEW w \in Text, \A i \in 1 .. Len(w) : w[i] = "0"
  PROVE  Number(w) = <<"0">>
<1>1. Len(w) \in Nat
  BY DEF Text
<1>2. Ends(w, 1, {"0"}, Len(w) + 1)
  BY <1>1 DEF Ends
<1>3. Stop(w, 1, {"0"}) = Len(w) + 1
  BY <1>1, <1>2, StopIs
<1> QED
  BY <1>1, <1>3 DEF Number

LEMMA EndOfFloat ==
  ASSUME NEW t \in Text, NEW p \in Places(t), NEW w \in Floats, At(t, p, w),
         p + Len(w) <= Len(t), t[p + Len(w)] = TAB
  PROVE  /\ EndF(t, p) = p + Len(w)
         /\ \E q \in p .. (p + Len(w)) - 1 : t[q] \in Digits
<1>1. Len(t) \in Nat /\ Len(w) \in Nat /\ p \in Nat /\ p >= 1
  BY DEF Text, Places, Floats
<1>2. PICK d \in 2 .. Len(w) :
        w[d] = "." /\ \A i \in 1 .. Len(w) : i # d => w[i] \in Digits
  BY DEF Floats
<1> DEFINE q == p + d - 1
<1>3. "." \notin Digits /\ TAB \notin Digits
  BY DEF Digits, TAB
<1>4. ASSUME NEW r \in p .. (p + Len(w)) - 1
      PROVE  r # q => t[r] \in Digits
  <2>1. /\ (r - p) + 1 \in 1 .. Len(w) /\ p + ((r - p) + 1) - 1 = r
        /\ r # q => (r - p) + 1 # d
    BY <1>1
  <2> QED
    BY <1>2, <2>1 DEF At
<1>5. t[q] = "." /\ q \in p .. (p + Len(w)) - 1 /\ q # p
  BY <1>1, <1>2 DEF At
<1> HIDE DEF q
<1>6. q \in Nat /\ q <= Len(t) /\ q + 1 \in Places(t)
  BY <1>1, <1>5 DEF Places
<1>7. EndD(t, p) = q
  <2>1. Ends(t, p, Digits, q)
    BY <1>1, <1>3, <1>4, <1>5, <1>6 DEF Ends
  <2> QED
    BY <2>1, StopIs DEF EndD, Places
<1>8. EndD(t, q + 1) = p + Len(w)
  <2>1. Ends(t, q + 1, Digits, p + Len(w))
    BY <1>1, <1>3, <1>4, <1>5, <1>6 DEF Ends
  <2> QED
    BY <1>6, <2>1, StopIs DEF EndD, Places
<1>9. EndF(t, p) = p + Len(w)
  BY <1>5, <1>6, <1>7, <1>8 DEF EndF
<1>10. p \in p .. (p + Len(w)) - 1 /\ t[p] \in Digits
  BY <1>1, <1>4, <1>5
<1> QED
  BY <1>9, <1>10

LEMMA RecordTyped ==
  ASSUME NEW user \in Records
  PROVE  /\ user \in UserRecord
         /\ ~user.registered => user = Unregistered
         /\ user.registered =>
              /\ user.age \in Ints /\ user.age \in Text
              /\ user.gpa \in Floats /\ user.gpa \in Text
              /\ user.ip \in Words /\ user.ip \in Text
              /\ user.lastConnection = <<"0">>
              /\ user = [registered |-> TRUE, age |-> user.age,
                         gpa |-> user.gpa, ip |-> user.ip,
                         lastConnection |-> user.lastConnection]
<1>1. CASE user = Unregistered
  BY <1>1, UnregisteredTyped DEF Unregistered
<1>2. CASE user # Unregistered
  <2>1. PICK pr \in Profiles, a \in Addrs :
          user = [registered |-> TRUE, age |-> pr.age, gpa |-> pr.gpa,
                  ip |-> a, lastConnection |-> <<"0">>]
    BY <1>2 DEF Records
  <2>2. pr.age \in Ints /\ pr.gpa \in Floats /\ a \in Words
    BY RegisteredFileAssumption
  <2>3. Digits \subseteq Chars /\ "0" \in Chars
        /\ Chars \ {TAB} \subseteq Chars
    BY RegisteredFileAssumption DEF Digits
  <2>4. pr.age \in Text
    BY <2>2, <2>3, SeqMonotonic DEF Ints, Text
  <2>5. pr.gpa \in Text
    BY <2>2 DEF Floats
  <2>6. a \in Text
    BY <2>2, <2>3, SeqMonotonic DEF Words, Text
  <2>7. <<"0">> \in Text
    BY <2>3 DEF Text
  <2> QED
    BY <2>1, <2>2, <2>4, <2>5, <2>6, <2>7 DEF UserRecord
<1> QED
  BY <1>1, <1>2

LEMMA IdTyped ==
  ASSUME NEW u \in Users
  PROVE  /\ accepted_userIDs[u] \in Words
         /\ accepted_userIDs[u] \in Text
         /\ accepted_userIDs[u][1] \notin Digits
<1>1. accepted_userIDs[u] \in Words /\ accepted_userIDs[u][1] \notin Digits
  BY RegisteredFileAssumption
<1>2. /\ accepted_userIDs[u] \in Seq(Chars \ {TAB})
      /\ Chars \ {TAB} \subseteq Chars
  BY <1>1 DEF Words
<1>3. accepted_userIDs[u] \in Text
  BY <1>2, SeqMonotonic DEF Text
<1> QED
  BY <1>1, <1>3

\* A word has a first character, and no character of it is a blank.
LEMMA WordAt ==
  ASSUME NEW t \in Text, NEW p \in Places(t), NEW w \in Words, w \in Text,
         At(t, p, w), p + Len(w) <= Len(t), t[p + Len(w)] = TAB
  PROVE  /\ t[p] = w[1] /\ t[p] # TAB /\ p < p + Len(w)
         /\ EndS(t, p) = p + Len(w)
         /\ SubSeq(t, p, (p + Len(w)) - 1) = w
<1>1. /\ w \in Seq(Chars \ {TAB}) /\ w # <<>>
      /\ Len(t) \in Nat /\ p \in Nat
  BY DEF Words, Text, Places
<1>2. Len(w) \in Nat /\ Len(w) >= 1
      /\ \A i \in 1 .. Len(w) : w[i] \in Chars \ {TAB}
  BY <1>1
<1>3. t[p] = w[1] /\ w[1] # TAB
  <2>1. 1 \in 1 .. Len(w) /\ p + 1 - 1 = p
    BY <1>1, <1>2
  <2> QED
    BY <1>2, <2>1 DEF At
<1>4. Stop(t, p, Chars \ {TAB}) = p + Len(w)
  BY <1>2, StopBehind
<1>5. SubSeq(t, p, (p + Len(w)) - 1) = w
  BY TakenAt
<1> QED
  BY <1>1, <1>2, <1>3, <1>4, <1>5 DEF EndS

\* Likewise a number.
LEMMA IntAt ==
  ASSUME NEW t \in Text, NEW p \in Places(t), NEW w \in Ints, w \in Text,
         At(t, p, w), p + Len(w) <= Len(t), t[p + Len(w)] = TAB
  PROVE  /\ t[p] # TAB /\ p < p + Len(w)
         /\ EndD(t, p) = p + Len(w)
         /\ Number(SubSeq(t, p, (p + Len(w)) - 1)) = w
<1>1. /\ w \in Seq(Digits) /\ w # <<>> /\ TAB \notin Digits
      /\ Len(t) \in Nat /\ p \in Nat
  BY DEF Ints, Text, Places, TAB, Digits
<1>2. Len(w) \in Nat /\ Len(w) >= 1 /\ \A i \in 1 .. Len(w) : w[i] \in Digits
  BY <1>1
<1>3. t[p] # TAB
  <2>1. 1 \in 1 .. Len(w) /\ p + 1 - 1 = p
    BY <1>1, <1>2
  <2> QED
    BY <1>1, <1>2, <2>1 DEF At
<1>4. Stop(t, p, Digits) = p + Len(w)
  BY <1>1, <1>2, StopBehind
<1>5. SubSeq(t, p, (p + Len(w)) - 1) = w
  BY TakenAt
<1>6. Number(w) = w
  BY NumberOfInt
<1>7. Number(SubSeq(t, p, (p + Len(w)) - 1)) = w
  BY <1>5, <1>6
<1>8. p < p + Len(w)
  BY <1>1, <1>2
<1> QED
  BY <1>3, <1>4, <1>7, <1>8 DEF EndD

\* And a number with a point.
LEMMA FloatAt ==
  ASSUME NEW t \in Text, NEW p \in Places(t), NEW w \in Floats, w \in Text,
         At(t, p, w), p + Len(w) <= Len(t), t[p + Len(w)] = TAB
  PROVE  /\ t[p] # TAB /\ p < p + Len(w)
         /\ EndF(t, p) = p + Len(w)
         /\ \E q \in p .. (p + Len(w)) - 1 : t[q] \in Digits
         /\ SubSeq(t, p, (p + Len(w)) - 1) = w
<1>1. /\ Len(w) \in Nat /\ Len(w) >= 2 /\ w[1] \in Digits /\ TAB \notin Digits
      /\ Len(t) \in Nat /\ p \in Nat
  <2>1. Len(w) \in Nat
    BY DEF Text
  <2>2. PICK d \in 2 .. Len(w) :
          \A i \in 1 .. Len(w) : i # d => w[i] \in Digits
    BY DEF Floats
  <2> QED
    BY <2>1, <2>2 DEF Digits, TAB, Text, Places
<1>2. t[p] = w[1]
  <2>1. 1 \in 1 .. Len(w) /\ p + 1 - 1 = p
    BY <1>1
  <2> QED
    BY <2>1 DEF At
<1> QED
  BY <1>1, <1>2, EndOfFloat, TakenAt

(***************************************************************************)
(* Where the fields of a printed record are.                               *)
(***************************************************************************)
FieldsAt(t, p, id, user) ==
  LET p2 == p + Len(id) + 1
      p3 == p2 + Len(user.age) + 1
      p4 == p3 + Len(user.gpa) + 1
      p5 == p4 + Len(user.ip) + 1
  IN  /\ {p2, p3, p4, p5} \subseteq Places(t) /\ p5 <= Len(t)
      /\ At(t, p, id)        /\ t[p2 - 1] = TAB
      /\ At(t, p2, user.age) /\ t[p3 - 1] = TAB
      /\ At(t, p3, user.gpa) /\ t[p4 - 1] = TAB
      /\ At(t, p4, user.ip)  /\ t[p5 - 1] = TAB
      /\ t[p5] = "0"

\* One word and the blank behind it.
LEMMA FieldOf ==
  ASSUME NEW t \in Text, NEW p \in Places(t), NEW a \in Text, NEW w \in Text,
         At(t, p, (a \o <<TAB>>) \o w)
  PROVE  /\ At(t, p, a \o <<TAB>>) /\ At(t, p, a)
         /\ t[p + Len(a)] = TAB
         /\ Len(a \o <<TAB>>) = Len(a) + 1
         /\ p + Len(a) + 1 \in Places(t)
         /\ At(t, p + Len(a) + 1, w)
<1>1. <<TAB>> \in Text /\ Len(<<TAB>>) = 1 /\ <<TAB>>[1] = TAB
  BY RegisteredFileAssumption DEF Text
<1>2. Len(a) \in Nat /\ Len(w) \in Nat /\ Len(t) \in Nat /\ p \in Nat /\ p >= 1
  BY DEF Text, Places
<1>3. a \o <<TAB>> \in Text /\ Len(a \o <<TAB>>) = Len(a) + 1
  BY <1>1, ConcatProperties DEF Text
<1>4. At(t, p, a \o <<TAB>>) /\ At(t, p + Len(a \o <<TAB>>), w)
  BY <1>3, AtJoined
<1>5. At(t, p, a) /\ At(t, p + Len(a), <<TAB>>)
  BY <1>1, <1>4, AtJoined
<1>6. t[p + Len(a)] = TAB
  <2>1. 1 \in 1 .. Len(<<TAB>>) /\ (p + Len(a)) + 1 - 1 = p + Len(a)
    BY <1>1, <1>2
  <2> QED
    BY <1>1, <1>5, <2>1 DEF At
<1>7. p + Len(a) + 1 \in Places(t) /\ p + Len(a \o <<TAB>>) = p + Len(a) + 1
  BY <1>2, <1>3, <1>4 DEF At, Places
<1> QED
  BY <1>3, <1>4, <1>5, <1>6, <1>7

LEMMA FieldsOfRecord ==
  ASSUME NEW t \in Text, NEW p \in Places(t), NEW u \in Users,
         NEW user \in Records, user.registered,
         At(t, p, RecordText(u, user))
  PROVE  /\ FieldsAt(t, p, accepted_userIDs[u], user)
         /\ RecordText(u, user) \in Text
         /\ Len(RecordText(u, user)) =
              Len(accepted_userIDs[u]) + Len(user.age) + Len(user.gpa)
                + Len(user.ip) + 5
<1> DEFINE id == accepted_userIDs[u]
           age == user.age
           gpa == user.gpa
           ip == user.ip
           r1 == id \o <<TAB>>  r2 == r1 \o age
           r3 == r2 \o <<TAB>>  r4 == r3 \o gpa
           r5 == r4 \o <<TAB>>  r6 == r5 \o ip
           r7 == r6 \o <<TAB>>  r8 == r7 \o <<"0">>
<1>1. id \in Text /\ age \in Text /\ gpa \in Text /\ ip \in Text
  BY IdTyped, RecordTyped
<1>2. RecordText(u, user) = r8
  BY RecordTyped DEF RecordText
<1>3. <<TAB>> \in Text /\ <<"0">> \in Text /\ Len(<<TAB>>) = 1
      /\ Len(<<"0">>) = 1 /\ <<"0">>[1] = "0"
  BY RegisteredFileAssumption DEF Text, Digits
<1>4. /\ Len(id) \in Nat /\ Len(age) \in Nat /\ Len(gpa) \in Nat
      /\ Len(ip) \in Nat /\ Len(t) \in Nat /\ p \in Nat
  BY <1>1 DEF Text, Places
<1> HIDE DEF id, age, gpa, ip
<1>5. ASSUME NEW a \in Text, NEW b \in Text
      PROVE  a \o b \in Text /\ Len(a \o b) = Len(a) + Len(b)
  BY ConcatProperties DEF Text
<1>6. r1 \in Text /\ Len(r1) = Len(id) + 1
  BY <1>1, <1>3, <1>5
<1> HIDE DEF r1
<1>7. r2 \in Text /\ Len(r2) = Len(id) + 1 + Len(age)
  BY <1>1, <1>5, <1>6
<1> HIDE DEF r2
<1>8. r3 \in Text /\ Len(r3) = Len(id) + Len(age) + 2
  BY <1>3, <1>4, <1>5, <1>7
<1> HIDE DEF r3
<1>9. r4 \in Text /\ Len(r4) = Len(id) + Len(age) + 2 + Len(gpa)
  BY <1>1, <1>5, <1>8
<1> HIDE DEF r4
<1>10. r5 \in Text /\ Len(r5) = Len(id) + Len(age) + Len(gpa) + 3
  BY <1>3, <1>4, <1>5, <1>9
<1> HIDE DEF r5
<1>11. r6 \in Text /\ Len(r6) = Len(id) + Len(age) + Len(gpa) + 3 + Len(ip)
  BY <1>1, <1>5, <1>10
<1> HIDE DEF r6
<1>12. r7 \in Text /\ Len(r7) = Len(id) + Len(age) + Len(gpa) + Len(ip) + 4
  BY <1>3, <1>4, <1>5, <1>11
<1> HIDE DEF r7
<1>13. r8 \in Text /\ Len(r8) = Len(id) + Len(age) + Len(gpa) + Len(ip) + 5
  BY <1>3, <1>4, <1>5, <1>12
<1>14. At(t, p, r8)
  BY <1>2
<1>15. /\ At(t, p, r7) /\ At(t, p, r6)
       /\ t[p + Len(r6)] = TAB
       /\ p + Len(r6) + 1 \in Places(t)
       /\ At(t, p + Len(r6) + 1, <<"0">>)
  BY <1>3, <1>11, <1>14, FieldOf DEF r7
<1>16. At(t, p, r5) /\ At(t, p + Len(r5), ip)
  BY <1>1, <1>10, <1>15, AtJoined DEF r6
<1>17. /\ At(t, p, r4)
       /\ t[p + Len(r4)] = TAB
       /\ p + Len(r4) + 1 \in Places(t)
  BY <1>1, <1>9, <1>15, FieldOf DEF r5, r6
<1>18. At(t, p, r3) /\ At(t, p + Len(r3), gpa)
  BY <1>1, <1>8, <1>17, AtJoined DEF r4
<1>19. /\ At(t, p, r2)
       /\ t[p + Len(r2)] = TAB
       /\ p + Len(r2) + 1 \in Places(t)
  BY <1>1, <1>7, <1>17, FieldOf DEF r3, r4
<1>20. At(t, p, r1) /\ At(t, p + Len(r1), age)
  BY <1>1, <1>6, <1>19, AtJoined DEF r2
<1>21. /\ At(t, p, id)
       /\ t[p + Len(id)] = TAB
       /\ p + Len(id) + 1 \in Places(t)
  BY <1>1, <1>19, FieldOf DEF r1, r2
<1>22. t[p + Len(r6) + 1] = "0" /\ p + Len(r6) + 1 <= Len(t)
  <2> DEFINE q == p + Len(r6) + 1
  <2>1. q \in Nat /\ Len(t) \in Nat
    BY <1>4, <1>15 DEF Places
  <2>2. At(t, q, <<"0">>)
    BY <1>15
  <2> HIDE DEF q
  <2>3. 1 \in 1 .. Len(<<"0">>) /\ q + 1 - 1 = q
    BY <1>3, <2>1
  <2>4. t[q] = "0" /\ q <= Len(t)
    BY <1>3, <2>1, <2>2, <2>3 DEF At
  <2> QED
    BY <2>4 DEF q
<1> DEFINE p2 == p + Len(id) + 1
           p3 == p2 + Len(age) + 1
           p4 == p3 + Len(gpa) + 1
           p5 == p4 + Len(ip) + 1
<1>23. /\ p2 = p + Len(r1) /\ p2 - 1 = p + Len(id)
       /\ p3 = p + Len(r3) /\ p3 = p + Len(r2) + 1 /\ p3 - 1 = p + Len(r2)
       /\ p4 = p + Len(r5) /\ p4 = p + Len(r4) + 1 /\ p4 - 1 = p + Len(r4)
       /\ p5 = p + Len(r6) + 1 /\ p5 - 1 = p + Len(r6)
  BY <1>4, <1>6, <1>7, <1>8, <1>9, <1>10, <1>11
<1>24. FieldsAt(t, p, id, user)
  <2> HIDE DEF p2, p3, p4, p5, r8
  <2>1. At(t, p, id) /\ t[p2 - 1] = TAB /\ p2 \in Places(t)
    BY <1>21, <1>23
  <2>2. At(t, p2, age) /\ t[p3 - 1] = TAB /\ p3 \in Places(t)
    BY <1>19, <1>20, <1>23
  <2>3. At(t, p3, gpa) /\ t[p4 - 1] = TAB /\ p4 \in Places(t)
    BY <1>17, <1>18, <1>23
  <2>4. At(t, p4, ip) /\ t[p5 - 1] = TAB /\ p5 \in Places(t)
    BY <1>15, <1>16, <1>23
  <2>5. t[p5] = "0" /\ p5 <= Len(t)
    BY <1>22, <1>23
  <2>6. {p2, p3, p4, p5} \subseteq Places(t)
    BY <2>1, <2>2, <2>3, <2>4
  <2> QED
    BY <2>1, <2>2, <2>3, <2>4, <2>5, <2>6
       DEF FieldsAt, p2, p3, p4, p5, age, gpa, ip
<1> QED
  BY <1>2, <1>13, <1>24 DEF id, age, gpa, ip

(***************************************************************************)
(* fscanf takes a printed record as it was printed, whether or not one     *)
(* more "0" of an older text is behind it, and goes on behind its zeros.   *)
(***************************************************************************)
LastAt(p, id, user) ==
  p + Len(id) + Len(user.age) + Len(user.gpa) + Len(user.ip) + 4

LEMMA ScanOfFields ==
  ASSUME NEW t \in Text, NEW p \in Places(t), NEW u \in Users,
         NEW user \in Records, user.registered,
         FieldsAt(t, p, accepted_userIDs[u], user),
         NEW last, NEW q, last = LastAt(p, accepted_userIDs[u], user),
         q \in Places(t), last < q, q = Len(t) + 1 \/ t[q] \notin Digits,
         \A r \in last .. q - 1 : t[r] = "0"
  PROVE  Scan(t, p) =
           [items |-> 5, userID |-> accepted_userIDs[u], user |-> user,
            next |-> q]
<1> DEFINE id == accepted_userIDs[u]
           age == user.age
           gpa == user.gpa
           ip == user.ip
           p2 == p + Len(id) + 1
           p3 == p2 + Len(age) + 1
           p4 == p3 + Len(gpa) + 1
           p5 == p4 + Len(ip) + 1
<1>1. /\ id \in Words /\ id \in Text /\ age \in Ints /\ age \in Text
      /\ gpa \in Floats /\ gpa \in Text /\ ip \in Words /\ ip \in Text
  BY IdTyped, RecordTyped
<1>2. /\ Len(id) \in Nat /\ Len(age) \in Nat /\ Len(gpa) \in Nat
      /\ Len(ip) \in Nat /\ Len(t) \in Nat /\ p \in Nat
  BY <1>1 DEF Text, Places
<1>3. /\ {p2, p3, p4, p5} \subseteq Places(t) /\ p5 <= Len(t)
      /\ At(t, p, id)  /\ t[p2 - 1] = TAB
      /\ At(t, p2, age) /\ t[p3 - 1] = TAB
      /\ At(t, p3, gpa) /\ t[p4 - 1] = TAB
      /\ At(t, p4, ip)  /\ t[p5 - 1] = TAB
      /\ t[p5] = "0"
  BY DEF FieldsAt
<1>5a. last = p + Len(id) + Len(age) + Len(gpa) + Len(ip) + 4
  BY DEF LastAt
<1> HIDE DEF id, age, gpa, ip
<1>4. /\ p2 - 1 = p + Len(id) /\ p3 - 1 = p2 + Len(age)
      /\ p4 - 1 = p3 + Len(gpa) /\ p5 - 1 = p4 + Len(ip)
      /\ p2 \in Nat /\ p3 \in Nat /\ p4 \in Nat /\ p5 \in Nat
      /\ p < p2 /\ p2 < p3 /\ p3 < p4 /\ p4 < p5
  BY <1>2
<1>5. last = p5
  BY <1>2, <1>5a
<1> HIDE DEF p2, p3, p4, p5
<1>6. /\ t[p] # TAB /\ EndS(t, p) = p2 - 1 /\ SubSeq(t, p, p2 - 2) = id
      /\ p < p2 - 1
  <2>1. p + Len(id) <= Len(t) /\ t[p + Len(id)] = TAB
    BY <1>2, <1>3, <1>4
  <2>2. /\ t[p] # TAB /\ p < p + Len(id) /\ EndS(t, p) = p + Len(id)
        /\ SubSeq(t, p, (p + Len(id)) - 1) = id
    BY <1>1, <1>3, <2>1, WordAt
  <2>3. (p + Len(id)) - 1 = p2 - 2
    BY <1>4
  <2> QED
    BY <1>4, <2>2, <2>3
<1>7. /\ t[p2] # TAB /\ EndD(t, p2) = p3 - 1
      /\ Number(SubSeq(t, p2, p3 - 2)) = age
      /\ p2 < p3 - 1
  <2>1. p2 + Len(age) <= Len(t) /\ t[p2 + Len(age)] = TAB /\ p2 \in Places(t)
    BY <1>2, <1>3, <1>4
  <2>2. /\ t[p2] # TAB /\ p2 < p2 + Len(age) /\ EndD(t, p2) = p2 + Len(age)
        /\ Number(SubSeq(t, p2, (p2 + Len(age)) - 1)) = age
    BY <1>1, <1>3, <2>1, IntAt
  <2>3. (p2 + Len(age)) - 1 = p3 - 2
    BY <1>4
  <2> QED
    BY <1>4, <2>2, <2>3
<1>8. /\ t[p3] # TAB /\ EndF(t, p3) = p4 - 1
      /\ \E r \in p3 .. (p4 - 1) - 1 : t[r] \in Digits
      /\ SubSeq(t, p3, p4 - 2) = gpa
      /\ p3 < p4 - 1
  <2>1. p3 + Len(gpa) <= Len(t) /\ t[p3 + Len(gpa)] = TAB /\ p3 \in Places(t)
    BY <1>2, <1>3, <1>4
  <2>2. /\ t[p3] # TAB /\ p3 < p3 + Len(gpa) /\ EndF(t, p3) = p3 + Len(gpa)
        /\ \E r \in p3 .. (p3 + Len(gpa)) - 1 : t[r] \in Digits
        /\ SubSeq(t, p3, (p3 + Len(gpa)) - 1) = gpa
    BY <1>1, <1>3, <2>1, FloatAt
  <2>3. (p3 + Len(gpa)) - 1 = p4 - 2
    BY <1>4
  <2> QED
    BY <1>4, <2>2, <2>3
<1>9. /\ t[p4] # TAB /\ EndS(t, p4) = p5 - 1 /\ SubSeq(t, p4, p5 - 2) = ip
      /\ p4 < p5 - 1
  <2>1. p4 + Len(ip) <= Len(t) /\ t[p4 + Len(ip)] = TAB /\ p4 \in Places(t)
    BY <1>2, <1>3, <1>4
  <2>2. /\ t[p4] # TAB /\ p4 < p4 + Len(ip) /\ EndS(t, p4) = p4 + Len(ip)
        /\ SubSeq(t, p4, (p4 + Len(ip)) - 1) = ip
    BY <1>1, <1>3, <2>1, WordAt
  <2>3. (p4 + Len(ip)) - 1 = p5 - 2
    BY <1>4
  <2> QED
    BY <1>4, <2>2, <2>3
<1>10. t[p5] # TAB /\ EndD(t, p5) = q
  <2>1. "0" # TAB /\ "0" \in Digits
    BY DEF TAB, Digits
  <2>2. Ends(t, p5, Digits, q)
    BY <1>2, <1>4, <1>5, <2>1 DEF Ends, Places
  <2>3. p5 \in 1 .. Len(t) + 1
    BY <1>3 DEF Places
  <2> QED
    BY <1>3, <2>1, <2>2, <2>3, StopIs DEF EndD
<1>11. Number(SubSeq(t, p5, q - 1)) = user.lastConnection
  <2> DEFINE w == SubSeq(t, p5, q - 1)
  <2>1. p5 \in Int /\ q - 1 \in Int /\ \A r \in p5 .. q - 1 : t[r] \in Chars
    BY <1>2, <1>4 DEF Places, Text
  <2>2. /\ w \in Text
        /\ Len(w) = IF p5 <= q - 1 THEN (q - 1) - p5 + 1 ELSE 0
        /\ \A i \in 1 .. (q - 1) - p5 + 1 : w[i] = t[p5 + i - 1]
    BY <2>1, SubSeqProperties DEF Text
  <2>3. q \in Nat
    BY <1>2 DEF Places
  <2> HIDE DEF w
  <2>4. ASSUME NEW i \in 1 .. Len(w) PROVE w[i] = "0"
    <3>1. i \in 1 .. (q - 1) - p5 + 1 /\ p5 + i - 1 \in last .. q - 1
      BY <1>4, <1>5, <2>2, <2>3
    <3> QED
      BY <2>2, <3>1
  <2>5. Number(w) = <<"0">>
    BY <2>2, <2>4, NumberOfZeros
  <2> QED
    BY <2>5, RecordTyped DEF w
<1>12. /\ Skip(t, p) = p /\ Skip(t, p2 - 1) = p2 /\ Skip(t, p3 - 1) = p3
       /\ Skip(t, p4 - 1) = p4 /\ Skip(t, p5 - 1) = p5
  <2>1. ASSUME NEW r \in Nat, r - 1 >= 1, r <= Len(t),
               t[r - 1] = TAB, t[r] # TAB
        PROVE  Skip(t, r - 1) = r
    <3>1. r - 1 \in Places(t) /\ r - 1 < Len(t) /\ (r - 1) + 1 = r
      BY <1>2, <2>1 DEF Places
    <3>2. Skip(t, r - 1) = (r - 1) + 1
      BY <2>1, <3>1, SkipTab
    <3> QED
      BY <3>1, <3>2
  <2>2. \A r \in {p2, p3, p4, p5} : r \in Nat /\ r - 1 >= 1 /\ r <= Len(t)
    <3>1. p >= 1 /\ p5 <= Len(t)
      BY <1>3 DEF Places
    <3> QED
      BY <1>2, <1>4, <3>1
  <2>3. Skip(t, p2 - 1) = p2
    BY <1>3, <1>7, <2>1, <2>2
  <2>4. Skip(t, p3 - 1) = p3
    BY <1>3, <1>8, <2>1, <2>2
  <2>5. Skip(t, p4 - 1) = p4
    BY <1>3, <1>9, <2>1, <2>2
  <2>6. Skip(t, p5 - 1) = p5
    BY <1>3, <1>10, <2>1, <2>2
  <2> QED
    BY <1>6, <2>3, <2>4, <2>5, <2>6, SkipNothing
<1> DEFINE b1 == Skip(t, p)   e1 == EndS(t, b1)
           b2 == Skip(t, e1)  e2 == EndD(t, b2)
           b3 == Skip(t, e2)  e3 == EndF(t, b3)
           b4 == Skip(t, e3)  e4 == EndS(t, b4)
           b5 == Skip(t, e4)  e5 == EndD(t, b5)
           isFloat == \E r \in b3 .. e3 - 1 : t[r] \in Digits
           items == CASE b1 > Len(t) -> -1
                      [] b1 <= Len(t) /\ e2 = b2 -> 1
                      [] e2 > b2 /\ ~isFloat -> 2
                      [] isFloat /\ e4 = b4 -> 3
                      [] e4 > b4 /\ e5 = b5 -> 4
                      [] OTHER -> 5
           readAge == Number(SubSeq(t, b2, e2 - 1))
           readLast == Number(SubSeq(t, b5, e5 - 1))
           readUser == [registered |-> TRUE, age |-> readAge,
                        gpa |-> SubSeq(t, b3, e3 - 1),
                        ip |-> SubSeq(t, b4, e4 - 1),
                        lastConnection |-> readLast]
           readID == SubSeq(t, b1, e1 - 1)
<1>13. Scan(t, p) = [items |-> items, userID |-> readID, user |-> readUser,
                     next |-> e5]
  BY DEF Scan
<1>14. b1 = p /\ e1 = p2 - 1 /\ b2 = p2 /\ e2 = p3 - 1
  BY <1>6, <1>7, <1>12
<1>15. b3 = p3 /\ e3 = p4 - 1 /\ b4 = p4 /\ e4 = p5 - 1
  BY <1>8, <1>9, <1>12, <1>14
<1>16. b5 = p5 /\ e5 = q
  BY <1>10, <1>12, <1>15
<1> HIDE DEF b1, e1, b2, e2, b3, e3, b4, e4, b5, e5
<1>17. isFloat
  BY <1>8, <1>15
<1>18. ~ (b1 > Len(t)) /\ e2 # b2 /\ e4 # b4 /\ e5 # b5
  <2>1. q \in Nat /\ p5 < q /\ p5 <= Len(t)
    BY <1>2, <1>3, <1>5 DEF Places
  <2>2. ~ (b1 > Len(t))
    BY <1>2, <1>4, <1>14, <2>1
  <2>3. e2 # b2
    BY <1>4, <1>7, <1>14
  <2>4. e4 # b4
    BY <1>4, <1>9, <1>15
  <2>5. e5 # b5
    BY <1>4, <1>16, <2>1
  <2> QED
    BY <2>2, <2>3, <2>4, <2>5
<1> HIDE DEF isFloat
<1>19. items = 5
  BY <1>17, <1>18
<1>20. (p2 - 1) - 1 = p2 - 2 /\ (p3 - 1) - 1 = p3 - 2
       /\ (p4 - 1) - 1 = p4 - 2 /\ (p5 - 1) - 1 = p5 - 2
  BY <1>4
<1>21. readID = id
  BY <1>6, <1>14, <1>20
<1>22. /\ readAge = age /\ SubSeq(t, b3, e3 - 1) = gpa
       /\ SubSeq(t, b4, e4 - 1) = ip /\ readLast = user.lastConnection
  BY <1>7, <1>8, <1>9, <1>11, <1>14, <1>15, <1>16, <1>20
<1>23. readUser = user
  <2> HIDE DEF readAge, readLast
  <2>1. readUser = [registered |-> TRUE, age |-> age, gpa |-> gpa, ip |-> ip,
                    lastConnection |-> user.lastConnection]
    BY <1>22
  <2> QED
    BY <2>1, RecordTyped DEF age, gpa, ip
<1> HIDE DEF items, readUser, readID
<1> QED
  BY <1>13, <1>16, <1>19, <1>21, <1>23 DEF id

(***************************************************************************)
(* TextOf is the recursion that it is written as, too.                     *)
(***************************************************************************)
LEMMA RecordTextTyped ==
  ASSUME NEW u \in Users, NEW user \in UserRecord
  PROVE  RecordText(u, user) \in Text
<1>1. <<TAB>> \in Text /\ <<"0">> \in Text /\ <<>> \in Text
  BY RegisteredFileAssumption DEF Text, Digits
<1>2. ASSUME NEW a \in Text, NEW b \in Text PROVE a \o b \in Text
  BY ConcatProperties DEF Text
<1>3. CASE ~user.registered
  BY <1>1, <1>3 DEF RecordText
<1>4. CASE user.registered
  <2> DEFINE r1 == accepted_userIDs[u] \o <<TAB>>
             r2 == r1 \o user.age  r3 == r2 \o <<TAB>>
             r4 == r3 \o user.gpa  r5 == r4 \o <<TAB>>
             r6 == r5 \o user.ip   r7 == r6 \o <<TAB>>
  <2>1. /\ accepted_userIDs[u] \in Text
        /\ user.age \in Text /\ user.gpa \in Text /\ user.ip \in Text
        /\ user.lastConnection \in Text
    BY IdTyped DEF UserRecord
  <2>2. RecordText(u, user) = r7 \o user.lastConnection
    BY <1>4 DEF RecordText
  <2>3. r1 \in Text
    BY <1>1, <1>2, <2>1
  <2> HIDE DEF r1
  <2>4. r2 \in Text /\ r3 \in Text
    BY <1>1, <1>2, <2>1, <2>3
  <2> HIDE DEF r3
  <2>5. r4 \in Text /\ r5 \in Text
    BY <1>1, <1>2, <2>1, <2>4
  <2> HIDE DEF r5
  <2>6. r6 \in Text /\ r7 \in Text
    BY <1>1, <1>2, <2>1, <2>5
  <2> HIDE DEF r7
  <2> QED
    BY <1>2, <2>1, <2>2, <2>6
<1> QED
  BY <1>3, <1>4

TextUpTo(users, f) ==
  /\ f \in [0 .. RECORD_COUNT -> Text]
  /\ f[0] = <<>>
  /\ \A n \in Users : f[n] = f[n - 1] \o RecordText(n, users[n])

LEMMA TextOfIs ==
  ASSUME NEW users \in [Users -> UserRecord]
  PROVE  \E f : TextUpTo(users, f) /\ TextOf(users) = f[RECORD_COUNT]
<1> DEFINE N == RECORD_COUNT
           base == <<>>
           step == [x \in (1 .. N) \X Text |->
                      x[2] \o RecordText(x[1], users[x[1]])]
           F(f) == [n \in 0 .. N |->
                      IF n = 0 THEN <<>>
                      ELSE f[n - 1] \o RecordText(n, users[n])]
           Solves(f) == /\ f[0] = <<>>
                        /\ \A n \in 1 .. N :
                             f[n] = f[n - 1] \o RecordText(n, users[n])
           g == CHOOSE h : h = F(h)
<1>1. N \in Nat /\ Users = 1 .. N
  BY RegisteredFileAssumption DEF Users
<1>2. base \in Text
  BY DEF Text
<1>3. step \in [(1 .. N) \X Text -> Text]
  <2>1. ASSUME NEW n \in 1 .. N, NEW a \in Text
        PROVE  a \o RecordText(n, users[n]) \in Text
    <3>1. RecordText(n, users[n]) \in Text
      BY <1>1, RecordTextTyped
    <3> QED
      BY <3>1, ConcatProperties DEF Text
  <2> QED
    BY <2>1
<1>4. PICK f \in [0 .. N -> Text] : StepsUp(N, base, step, f)
  <2> HIDE DEF N, base, step, F, Solves, g
  <2>1. StepTable(N, Text, base, step)
    BY <1>1, <1>2, <1>3 DEF StepTable
  <2> QED
    BY <2>1, RecursionUpTo
<1>5. Solves(f)
  <2>1. ASSUME NEW n \in 1 .. N
        PROVE  step[<<n, f[n - 1]>>] = f[n - 1] \o RecordText(n, users[n])
    <3>1. n - 1 \in 0 .. N /\ f[n - 1] \in Text
      BY <1>1
    <3> QED
      BY <3>1
  <2> QED
    BY <1>4, <2>1 DEF StepsUp
<1>6. f = F(f)
  <2>1. ASSUME NEW n \in 0 .. N
        PROVE  f[n] = IF n = 0 THEN <<>>
                      ELSE f[n - 1] \o RecordText(n, users[n])
    <3>1. n = 0 \/ n \in 1 .. N
      BY <1>1
    <3>2. CASE n = 0
      BY <1>5, <3>2
    <3>3. CASE n \in 1 .. N
      <4>1. n # 0 /\ f[n] = f[n - 1] \o RecordText(n, users[n])
        BY <1>1, <1>5, <3>3
      <4> QED
        BY <4>1
    <3> QED
      BY <3>1, <3>2, <3>3
  <2> HIDE DEF N
  <2> QED
    BY <1>4, <2>1
<1>7. g = F(g)
  <2> HIDE DEF F
  <2> QED
    BY <1>6
<1>8. TextOf(users) = g[N]
  BY DEF TextOf
<1> HIDE DEF g
<1>9. Solves(g)
  BY <1>1, <1>7
<1>10. \A n \in 0 .. N : g[n] = f[n]
  <2> DEFINE Same == {n \in 0 .. N : g[n] = f[n]}
  <2>1. 0 \in Same
    BY <1>1, <1>5, <1>9
  <2>2. ASSUME NEW n \in 1 .. N, n - 1 \in Same PROVE n \in Same
    <3>1. g[n - 1] = f[n - 1] /\ n \in 0 .. N
      BY <1>1, <2>2
    <3>2. g[n] = g[n - 1] \o RecordText(n, users[n])
      BY <1>9
    <3>3. f[n] = f[n - 1] \o RecordText(n, users[n])
      BY <1>5
    <3> QED
      BY <3>1, <3>2, <3>3
  <2>3. \A n \in 0 .. N : n \in Same
    <3> HIDE DEF Same, N
    <3> QED
      BY <1>1, <2>1, <2>2, InductionUpTo
  <2> QED
    BY <2>3
<1>11. TextUpTo(users, f)
  BY <1>1, <1>4, <1>5 DEF TextUpTo
<1>12. TextOf(users) = f[RECORD_COUNT]
  BY <1>1, <1>8, <1>10
<1> QED
  BY <1>11, <1>12

LEMMA TextOfTyped ==
  ASSUME NEW users \in [Users -> UserRecord]
  PROVE  TextOf(users) \in Text
<1>1. PICK f : TextUpTo(users, f) /\ TextOf(users) = f[RECORD_COUNT]
  BY TextOfIs
<1>2. RECORD_COUNT \in 0 .. RECORD_COUNT
  BY RegisteredFileAssumption
<1> QED
  BY <1>1, <1>2 DEF TextUpTo

LEMMA LengthUpTo ==
  ASSUME NEW users \in [Users -> Records], NEW f, TextUpTo(users, f),
         NEW n \in Users
  PROVE  /\ n \in Nat /\ n - 1 \in 0 .. RECORD_COUNT /\ n \in 0 .. RECORD_COUNT
         /\ f[n - 1] \in Text /\ f[n] \in Text
         /\ RecordText(n, users[n]) \in Text
         /\ Len(f[n]) = Len(f[n - 1]) + Len(RecordText(n, users[n]))
         /\ ~users[n].registered => f[n] = f[n - 1]
<1>1. n \in Nat /\ n - 1 \in 0 .. RECORD_COUNT /\ n \in 0 .. RECORD_COUNT
  BY RegisteredFileAssumption DEF Users
<1>2. f[n - 1] \in Text /\ f[n] \in Text
  BY <1>1 DEF TextUpTo
<1>3. RecordText(n, users[n]) \in Text
  BY RecordTyped, RecordTextTyped
<1>4. f[n] = f[n - 1] \o RecordText(n, users[n])
  BY DEF TextUpTo
<1>5. Len(f[n]) = Len(f[n - 1]) + Len(RecordText(n, users[n]))
  BY <1>2, <1>3, <1>4, ConcatProperties DEF Text
<1>6. ~users[n].registered => f[n] = f[n - 1]
  BY <1>2, <1>4, ConcatEmptySeq DEF Text, RecordText
<1> QED
  BY <1>1, <1>2, <1>3, <1>5, <1>6

(***************************************************************************)
(* In a text that starts with that of users, each record is behind the     *)
(* text of the users before.                                               *)
(***************************************************************************)
LEMMA RecordIsAt ==
  ASSUME NEW users \in [Users -> Records], NEW f, TextUpTo(users, f),
         NEW t \in Text, At(t, 1, f[RECORD_COUNT])
  PROVE  \A n \in Users :
           /\ Len(f[n - 1]) + 1 \in Places(t)
           /\ At(t, Len(f[n - 1]) + 1, RecordText(n, users[n]))
<1> DEFINE T == {n \in 0 .. RECORD_COUNT : At(t, 1, f[n])}
<1>1. RECORD_COUNT \in Nat /\ 1 \in Places(t) /\ Len(t) \in Nat
  BY RegisteredFileAssumption DEF Places, Text
<1>2. RECORD_COUNT \in T
  BY <1>1
<1>3. ASSUME NEW n \in Users, n \in T
      PROVE  /\ At(t, 1, f[n - 1])
             /\ At(t, 1 + Len(f[n - 1]), RecordText(n, users[n]))
  <2>1. At(t, 1, f[n - 1] \o RecordText(n, users[n]))
    BY <1>3 DEF TextUpTo
  <2> QED
    BY <1>1, <2>1, LengthUpTo, AtJoined
<1>4. ASSUME NEW n \in 1 .. RECORD_COUNT, n \in T PROVE n - 1 \in T
  <2>1. n \in Users
    BY DEF Users
  <2> QED
    BY <1>3, <1>4, <2>1, LengthUpTo
<1>5. \A n \in 0 .. RECORD_COUNT : n \in T
  <2> HIDE DEF T
  <2> QED
    BY <1>1, <1>2, <1>4, InductionDownFrom
<1>6. ASSUME NEW n \in Users
      PROVE  /\ Len(f[n - 1]) + 1 \in Places(t)
             /\ At(t, Len(f[n - 1]) + 1, RecordText(n, users[n]))
  <2>1. n \in T /\ n - 1 \in T
    <3> HIDE DEF T
    <3> QED
      BY <1>5, LengthUpTo
  <2>2. Len(f[n - 1]) \in Nat /\ 1 + Len(f[n - 1]) = Len(f[n - 1]) + 1
    BY LengthUpTo DEF Text
  <2>3. At(t, 1, f[n - 1])
    BY <2>1
  <2>4. Len(f[n - 1]) + 1 \in Places(t)
    BY <1>1, <2>2, <2>3 DEF At, Places
  <2> QED
    BY <1>3, <2>1, <2>2, <2>4
<1> QED
  BY <1>6

(***************************************************************************)
(* What a save of users leaves: their text, and behind it perhaps the last *)
(* character of a text that was longer by one.                             *)
(***************************************************************************)
SavedText(t, users) ==
  \/ t = TextOf(users)
  \/ TextOf(users) # <<>> /\ t = TextOf(users) \o <<"0">>

LEMMA SavedTextIs ==
  ASSUME NEW users \in [Users -> Records], NEW t, SavedText(t, users)
  PROVE  /\ t \in Text /\ TextOf(users) \in Text
         /\ At(t, 1, TextOf(users))
         /\ \/ Len(t) = Len(TextOf(users))
            \/ /\ Len(t) = Len(TextOf(users)) + 1
               /\ t[Len(t)] = "0"
               /\ Len(TextOf(users)) # 0
<1> DEFINE full == TextOf(users)
<1>1. full \in Text
  <2>1. users \in [Users -> UserRecord]
    BY RecordTyped
  <2> QED
    BY <2>1, TextOfTyped
<1>2. t = full \/ (full # <<>> /\ t = full \o <<"0">>)
  BY DEF SavedText
<1> HIDE DEF full
<1>3. Len(full) \in Nat
  BY <1>1 DEF Text
<1>4. CASE t = full
  <2>1. At(t, 1, full)
    BY <1>3, <1>4 DEF At
  <2> QED
    BY <1>1, <1>4, <2>1 DEF full
<1>5. CASE full # <<>> /\ t = full \o <<"0">>
  <2>1. <<"0">> \in Text /\ Len(<<"0">>) = 1 /\ <<"0">>[1] = "0"
    BY RegisteredFileAssumption DEF Text, Digits
  <2> DEFINE zero == <<"0">>
  <2> HIDE DEF zero
  <2>2. /\ full \o zero \in Text /\ Len(full \o zero) = Len(full) + 1
        /\ \A i \in 1 .. Len(full) + 1 :
             (full \o zero)[i] = IF i <= Len(full) THEN full[i]
                                 ELSE zero[i - Len(full)]
    BY <1>1, <2>1, ConcatProperties DEF Text, zero
  <2>3. t = full \o zero
    BY <1>5 DEF zero
  <2>4. /\ t \in Text /\ Len(t) = Len(full) + 1
        /\ \A i \in 1 .. Len(full) + 1 :
             t[i] = IF i <= Len(full) THEN full[i] ELSE zero[i - Len(full)]
    BY <2>2, <2>3
  <2>5. t[Len(t)] = "0"
    BY <1>3, <2>1, <2>4 DEF zero
  <2>6. At(t, 1, full)
    BY <1>3, <2>4 DEF At
  <2>7. Len(full) # 0
    BY <1>1, <1>5 DEF Text
  <2> QED
    BY <1>1, <2>4, <2>5, <2>6, <2>7 DEF full
<1> QED
  BY <1>2, <1>4, <1>5

(***************************************************************************)
(* Where a reader is after the records of the first n users.               *)
(***************************************************************************)
More(users, n) == \E u \in Users : u > n /\ users[u].registered

PlaceAfter(t, users, f, n) ==
  IF More(users, n) THEN Len(f[n]) + 1 ELSE Len(t) + 1

LEMMA FieldsInSave ==
  ASSUME NEW users \in [Users -> Records], NEW t, SavedText(t, users),
         NEW f, TextUpTo(users, f), TextOf(users) = f[RECORD_COUNT],
         NEW n \in Users, users[n].registered
  PROVE  /\ Len(f[n - 1]) + 1 \in Places(t)
         /\ FieldsAt(t, Len(f[n - 1]) + 1, accepted_userIDs[n], users[n])
         /\ LastAt(Len(f[n - 1]) + 1, accepted_userIDs[n], users[n])
              = Len(f[n])
         /\ Len(f[n]) \in Nat /\ Len(f[n]) <= Len(t) /\ t[Len(f[n])] = "0"
<1> DEFINE p == Len(f[n - 1]) + 1
           id == accepted_userIDs[n]
           user == users[n]
<1>1. t \in Text /\ At(t, 1, f[RECORD_COUNT])
  BY SavedTextIs
<1>2. p \in Places(t) /\ At(t, p, RecordText(n, users[n]))
  BY <1>1, RecordIsAt
<1>3. user \in Records
  OBVIOUS
<1>4. /\ FieldsAt(t, p, id, user)
      /\ Len(RecordText(n, user)) =
           Len(id) + Len(user.age) + Len(user.gpa) + Len(user.ip) + 5
  BY <1>1, <1>2, <1>3, FieldsOfRecord
<1>5. /\ Len(id) \in Nat /\ Len(user.age) \in Nat /\ Len(user.gpa) \in Nat
      /\ Len(user.ip) \in Nat
  BY <1>3, IdTyped, RecordTyped DEF Text
<1>6. /\ Len(f[n - 1]) \in Nat
      /\ Len(f[n]) = Len(f[n - 1]) + Len(RecordText(n, user))
  <2> HIDE DEF p, id
  <2>1. f[n - 1] \in Text
    BY LengthUpTo
  <2>2. Len(f[n]) = Len(f[n - 1]) + Len(RecordText(n, users[n]))
    BY LengthUpTo
  <2> QED
    BY <2>1, <2>2 DEF Text
<1>7. LastAt(p, id, user) = Len(f[n]) /\ Len(f[n]) \in Nat
  <2> DEFINE a == Len(id)  b == Len(user.age)  c == Len(user.gpa)
             d == Len(user.ip)  m == Len(f[n - 1])
  <2>1. LastAt(p, id, user) = p + a + b + c + d + 4
    BY DEF LastAt
  <2>2. /\ a \in Nat /\ b \in Nat /\ c \in Nat /\ d \in Nat /\ m \in Nat
        /\ Len(f[n]) = m + (a + b + c + d + 5) /\ p = m + 1
    BY <1>4, <1>5, <1>6
  <2> HIDE DEF a, b, c, d, m, p
  <2> QED
    BY <2>1, <2>2
<1>8. Len(f[n]) <= Len(t) /\ t[Len(f[n])] = "0"
  <2> DEFINE p2 == p + Len(id) + 1
             p3 == p2 + Len(user.age) + 1
             p4 == p3 + Len(user.gpa) + 1
             p5 == p4 + Len(user.ip) + 1
  <2>1. p5 <= Len(t) /\ t[p5] = "0"
    BY <1>4 DEF FieldsAt
  <2>2. p5 = LastAt(p, id, user)
    <3> DEFINE a == Len(id)  b == Len(user.age)  c == Len(user.gpa)
               d == Len(user.ip)
    <3>1. a \in Nat /\ b \in Nat /\ c \in Nat /\ d \in Nat /\ p \in Nat
      BY <1>1, <1>2, <1>5 DEF Places, Text
    <3>2. LastAt(p, id, user) = p + a + b + c + d + 4
      BY DEF LastAt
    <3>3. p5 = ((((((p + a) + 1) + b) + 1) + c) + 1) + d + 1
      OBVIOUS
    <3> HIDE DEF a, b, c, d, p, p5
    <3> QED
      BY <3>1, <3>2, <3>3
  <2> HIDE DEF p5
  <2> QED
    BY <1>7, <2>1, <2>2
<1> QED
  BY <1>2, <1>4, <1>7, <1>8

\* Before a record that is not the last one of a save, and behind the last
\* one, stands what no number goes on with.
LEMMA NextPlace ==
  ASSUME NEW users \in [Users -> Records], NEW t, SavedText(t, users),
         NEW f, TextUpTo(users, f), TextOf(users) = f[RECORD_COUNT]
  PROVE  \A n \in 0 .. RECORD_COUNT :
           /\ f[n] \in Text
           /\ More(users, n) =>
                Len(f[n]) + 1 <= Len(t) /\ t[Len(f[n]) + 1] \notin Digits
           /\ ~More(users, n) => Len(f[n]) = Len(f[RECORD_COUNT])
<1> DEFINE Next(n) ==
             Len(f[n]) + 1 <= Len(t) /\ t[Len(f[n]) + 1] \notin Digits
           T == {n \in 0 .. RECORD_COUNT :
                   /\ More(users, n) => Next(n)
                   /\ ~More(users, n) => Len(f[n]) = Len(f[RECORD_COUNT])}
<1>1. RECORD_COUNT \in Nat /\ Users = 1 .. RECORD_COUNT
  BY RegisteredFileAssumption DEF Users
<1>2. RECORD_COUNT \in T
  BY <1>1 DEF More
<1>3. ASSUME NEW n \in 1 .. RECORD_COUNT, n \in T PROVE n - 1 \in T
  <2>1. n \in Users /\ n - 1 \in 0 .. RECORD_COUNT
    BY <1>1
  <2>2. CASE users[n].registered
    <3>1. More(users, n - 1)
      BY <1>1, <2>1, <2>2 DEF More
    <3> DEFINE p == Len(f[n - 1]) + 1
               id == accepted_userIDs[n]
    <3>2. p \in Places(t) /\ FieldsAt(t, p, id, users[n])
      BY <2>1, <2>2, FieldsInSave
    <3>3. id \in Words /\ id \in Text /\ id[1] \notin Digits
      BY <2>1, IdTyped
    <3>4. t \in Text
      BY SavedTextIs
    <3> HIDE DEF p, id
    <3>5. At(t, p, id) /\ p + Len(id) <= Len(t) /\ t[p + Len(id)] = TAB
      <4>1. /\ p + Len(id) + 1 \in Places(t) /\ At(t, p, id)
            /\ t[(p + Len(id) + 1) - 1] = TAB
        BY <3>2 DEF FieldsAt
      <4>2. Len(id) \in Nat /\ p \in Nat /\ Len(t) \in Nat
        BY <3>2, <3>3, <3>4 DEF Places, Text
      <4>3. (p + Len(id) + 1) - 1 = p + Len(id)
        BY <4>2
      <4> QED
        BY <4>1, <4>2, <4>3 DEF Places
    <3>6. t[p] = id[1] /\ p < p + Len(id)
      BY <3>2, <3>3, <3>4, <3>5, WordAt
    <3>7. p <= Len(t)
      BY <3>2, <3>3, <3>4, <3>5, <3>6 DEF Places, Text
    <3> QED
      BY <2>1, <3>1, <3>3, <3>6, <3>7 DEF p
  <2>3. CASE ~users[n].registered
    <3>1. f[n] = f[n - 1]
      BY <2>1, <2>3, LengthUpTo
    <3>2. More(users, n - 1) <=> More(users, n)
      <4>1. ASSUME NEW u \in Users, users[u].registered
            PROVE  u > n - 1 <=> u > n
        <5>1. u # n
          BY <2>3, <4>1
        <5> QED
          BY <1>1, <5>1
      <4> QED
        BY <4>1 DEF More
    <3> QED
      BY <1>3, <2>1, <3>1, <3>2
  <2> QED
    BY <2>2, <2>3
<1>4. \A n \in 0 .. RECORD_COUNT : n \in T
  <2> HIDE DEF T
  <2> QED
    BY <1>1, <1>2, <1>3, InductionDownFrom
<1> QED
  BY <1>4 DEF TextUpTo

LEMMA PlaceTyped ==
  ASSUME NEW users \in [Users -> Records], NEW t, SavedText(t, users),
         NEW f, TextUpTo(users, f), TextOf(users) = f[RECORD_COUNT],
         NEW n \in 0 .. RECORD_COUNT
  PROVE  PlaceAfter(t, users, f, n) \in Places(t)
<1>1. t \in Text /\ f[n] \in Text
  BY SavedTextIs, NextPlace
<1>2. Len(t) \in Nat /\ Len(f[n]) \in Nat
  BY <1>1 DEF Text
<1>3. More(users, n) => Len(f[n]) + 1 <= Len(t)
  BY NextPlace
<1> QED
  BY <1>2, <1>3 DEF PlaceAfter, Places

LEMMA ScanInSave ==
  ASSUME NEW users \in [Users -> Records], NEW t, SavedText(t, users),
         NEW f, TextUpTo(users, f), TextOf(users) = f[RECORD_COUNT],
         NEW n \in Users, users[n].registered
  PROVE  Scan(t, Len(f[n - 1]) + 1) =
           [items |-> 5, userID |-> accepted_userIDs[n], user |-> users[n],
            next |-> PlaceAfter(t, users, f, n)]
<1> DEFINE p == Len(f[n - 1]) + 1
           last == Len(f[n])
           q == PlaceAfter(t, users, f, n)
<1>1. /\ t \in Text
      /\ \/ Len(t) = Len(TextOf(users))
         \/ Len(t) = Len(TextOf(users)) + 1 /\ t[Len(t)] = "0"
  BY SavedTextIs
<1>2. /\ p \in Places(t) /\ FieldsAt(t, p, accepted_userIDs[n], users[n])
      /\ last = LastAt(p, accepted_userIDs[n], users[n])
      /\ last \in Nat /\ last <= Len(t) /\ t[last] = "0"
  BY FieldsInSave
<1>3. n \in 0 .. RECORD_COUNT
  BY RegisteredFileAssumption DEF Users
<1>4. q \in Places(t) /\ q = IF More(users, n) THEN last + 1 ELSE Len(t) + 1
  BY <1>3, PlaceTyped DEF PlaceAfter
<1>5. /\ More(users, n) => last + 1 <= Len(t) /\ t[last + 1] \notin Digits
      /\ ~More(users, n) => last = Len(TextOf(users))
  BY <1>3, NextPlace
<1> HIDE DEF p, last, q
<1>6. Len(t) \in Nat
  BY <1>1 DEF Text
<1>7. last < q /\ (q = Len(t) + 1 \/ t[q] \notin Digits)
  BY <1>2, <1>4, <1>5, <1>6
<1>8. ASSUME NEW r \in last .. q - 1 PROVE t[r] = "0"
  <2>1. CASE r = last
    BY <1>2, <2>1
  <2>2. CASE r # last
    <3>1. r \in Int /\ r > last /\ r < q
      BY <1>2, <1>4, <1>6, <2>2 DEF Places
    <3>2. ~More(users, n) /\ r <= Len(t)
      BY <1>2, <1>4, <1>5, <1>6, <3>1
    <3>3. Len(t) = last + 1 /\ t[Len(t)] = "0"
      BY <1>1, <1>2, <1>5, <1>6, <3>1, <3>2
    <3>4. r = Len(t)
      BY <1>2, <3>1, <3>2, <3>3
    <3> QED
      BY <3>3, <3>4
  <2> QED
    BY <2>1, <2>2
<1>9. Scan(t, p) =
        [items |-> 5, userID |-> accepted_userIDs[n], user |-> users[n],
         next |-> q]
  BY <1>1, <1>2, <1>4, <1>7, <1>8, ScanOfFields
<1> QED
  BY <1>9 DEF p, q

(***************************************************************************)
(* What is read behind the first n users of a save: each of the others who *)
(* is registered, with the record that was saved, and nobody else.         *)
(***************************************************************************)
Reads(s, n, users) ==
  /\ s \in Seq(ScanResult) /\ Len(s) >= 1
  /\ s[Len(s)].items = -1
  /\ \A i \in 1 .. Len(s) : s[i].items = 5 =>
       \E u \in Users :
         /\ u > n /\ users[u].registered
         /\ s[i].userID = accepted_userIDs[u] /\ s[i].user = users[u]
  /\ \A u \in Users : u > n /\ users[u].registered =>
       \E i \in 1 .. Len(s) :
         s[i].items = 5 /\ s[i].userID = accepted_userIDs[u]

LEMMA ReadsEnd ==
  ASSUME NEW users \in [Users -> Records], NEW t \in Text, NEW g,
         ScansFrom(t, g)
  PROVE  Reads(g[Len(t) + 1], RECORD_COUNT, users)
<1> DEFINE p == Len(t) + 1
           sc == Scan(t, p)
<1>1. Len(t) \in Nat /\ p \in Places(t)
  BY DEF Text, Places
<1>2. ASSUME NEW chars PROVE Stop(t, p, chars) = p
  <2>1. Ends(t, p, chars, p)
    BY <1>1 DEF Ends
  <2> QED
    BY <1>1, <2>1, StopIs DEF Places
<1>3. /\ Skip(t, p) = p /\ EndS(t, p) = p /\ EndD(t, p) = p
      /\ EndF(t, p) = p
  <2>1. Skip(t, p) = p /\ EndS(t, p) = p /\ EndD(t, p) = p
    BY <1>2 DEF Skip, EndS, EndD
  <2>2. ~ (p <= Len(t))
    BY <1>1
  <2> QED
    BY <2>1, <2>2 DEF EndF
<1>4. sc.items = -1 /\ sc.items # 5
  <2> HIDE DEF p
  <2>1. p > Len(t) /\ ~ (p <= Len(t)) /\ ~ (p > p) /\ p .. p - 1 = {}
    BY <1>1 DEF p
  <2> DEFINE float == \E q \in p .. p - 1 : t[q] \in Digits
  <2>2. ~float
    BY <2>1
  <2> HIDE DEF float
  <2>3. sc.items = CASE p > Len(t) -> -1
                     [] p <= Len(t) /\ p = p -> 1
                     [] p > p /\ ~float -> 2
                     [] float /\ p = p -> 3
                     [] p > p /\ p = p -> 4
                     [] OTHER -> 5
    BY <1>3 DEF Scan, float
  <2> QED
    BY <2>1, <2>2, <2>3
<1>5. sc \in ScanResult /\ g[p] = <<sc>>
  <2>1. sc \in ScanResult
    BY <1>1, ScanTyped
  <2>2. g[p] = IF sc.items = 5 THEN <<sc>> \o g[sc.next] ELSE <<sc>>
    BY <1>1 DEF ScansFrom
  <2> HIDE DEF sc, p
  <2> QED
    BY <1>4, <2>1, <2>2
<1> HIDE DEF sc, p
<1>6. /\ g[p] \in Seq(ScanResult) /\ Len(g[p]) = 1 /\ g[p][1] = sc
  BY <1>5
<1>7. ASSUME NEW u \in Users PROVE ~ (u > RECORD_COUNT)
  BY RegisteredFileAssumption DEF Users
<1>8. \A i \in 1 .. Len(g[p]) : g[p][i].items # 5
  BY <1>4, <1>6
<1> QED
  BY <1>4, <1>6, <1>7, <1>8 DEF Reads, p

LEMMA ReadsOneMore ==
  ASSUME NEW users \in [Users -> Records], NEW s, NEW sc \in ScanResult,
         NEW n \in Users, Reads(s, n, users), users[n].registered,
         sc.items = 5, sc.userID = accepted_userIDs[n], sc.user = users[n]
  PROVE  Reads(<<sc>> \o s, n - 1, users)
<1> DEFINE one == <<sc>>
           all == one \o s
<1>1. /\ one \in Seq(ScanResult) /\ Len(one) = 1 /\ one[1] = sc
      /\ s \in Seq(ScanResult) /\ Len(s) \in Nat /\ Len(s) >= 1
  BY DEF Reads
<1>2. /\ RECORD_COUNT \in Nat /\ Users = 1 .. RECORD_COUNT /\ n \in Int
  BY RegisteredFileAssumption DEF Users
<1> HIDE DEF one
<1>3. /\ all \in Seq(ScanResult) /\ Len(all) = 1 + Len(s)
      /\ \A i \in 1 .. 1 + Len(s) :
           all[i] = IF i <= 1 THEN one[i] ELSE s[i - 1]
  <2>1. /\ all \in Seq(ScanResult) /\ Len(all) = Len(one) + Len(s)
        /\ \A i \in 1 .. Len(one) + Len(s) :
             all[i] = IF i <= Len(one) THEN one[i] ELSE s[i - Len(one)]
    <3>1. one \in Seq(ScanResult) /\ s \in Seq(ScanResult)
      BY <1>1
    <3> QED
      BY <3>1, ConcatProperties
  <2> HIDE DEF all
  <2> QED
    BY <1>1, <2>1
<1> HIDE DEF all
<1>4. all[1] = sc
  <2>1. 1 \in 1 .. 1 + Len(s) /\ 1 <= 1
    BY <1>1
  <2>2. all[1] = one[1]
    BY <1>3, <2>1
  <2> QED
    BY <1>1, <2>2
<1>5. ASSUME NEW i \in 1 .. Len(s)
      PROVE  i + 1 \in 1 .. Len(all) /\ all[i + 1] = s[i]
  <2>1. i + 1 \in 1 .. 1 + Len(s) /\ ~ (i + 1 <= 1) /\ (i + 1) - 1 = i
    BY <1>1
  <2> QED
    BY <1>3, <2>1
<1>6. all[Len(all)].items = -1
  <2>1. Len(s) \in 1 .. Len(s) /\ Len(all) = Len(s) + 1
    BY <1>1, <1>3
  <2>2. all[Len(all)] = s[Len(s)]
    BY <1>5, <2>1
  <2> QED
    BY <2>2 DEF Reads
<1>7. ASSUME NEW i \in 1 .. Len(all), all[i].items = 5
      PROVE  \E u \in Users :
               /\ u > n - 1 /\ users[u].registered
               /\ all[i].userID = accepted_userIDs[u]
               /\ all[i].user = users[u]
  <2>1. CASE i = 1
    <3>1. n > n - 1
      BY <1>2
    <3> QED
      BY <1>4, <2>1, <3>1
  <2>2. CASE i # 1
    <3>1. i - 1 \in 1 .. Len(s) /\ (i - 1) + 1 = i
      BY <1>1, <1>3, <2>2
    <3>2. all[i] = s[i - 1]
      BY <1>5, <3>1
    <3>3. PICK u \in Users :
            /\ u > n /\ users[u].registered
            /\ s[i - 1].userID = accepted_userIDs[u]
            /\ s[i - 1].user = users[u]
      BY <1>7, <3>1, <3>2 DEF Reads
    <3>4. u > n - 1
      BY <1>2, <3>3
    <3> QED
      BY <3>2, <3>3, <3>4
  <2> QED
    BY <2>1, <2>2
<1>8. ASSUME NEW u \in Users, u > n - 1, users[u].registered
      PROVE  \E i \in 1 .. Len(all) :
               all[i].items = 5 /\ all[i].userID = accepted_userIDs[u]
  <2>1. u = n \/ u > n
    BY <1>2, <1>8
  <2>2. CASE u = n
    <3>1. 1 \in 1 .. Len(all)
      BY <1>1, <1>3
    <3> QED
      BY <1>4, <2>2, <3>1
  <2>3. CASE u > n
    <3>1. PICK i \in 1 .. Len(s) :
            s[i].items = 5 /\ s[i].userID = accepted_userIDs[u]
      BY <1>8, <2>3 DEF Reads
    <3> QED
      BY <1>5, <3>1
  <2> QED
    BY <2>1, <2>2, <2>3
<1>9. Len(all) >= 1
  BY <1>1, <1>3
<1>10. Reads(all, n - 1, users)
  BY <1>3, <1>6, <1>7, <1>8, <1>9 DEF Reads
<1> QED
  BY <1>10 DEF all, one

LEMMA ReadsInSave ==
  ASSUME NEW users \in [Users -> Records], NEW t, SavedText(t, users),
         NEW f, TextUpTo(users, f), TextOf(users) = f[RECORD_COUNT],
         NEW g, ScansFrom(t, g)
  PROVE  \A n \in 0 .. RECORD_COUNT :
           Reads(g[PlaceAfter(t, users, f, n)], n, users)
<1> DEFINE place(n) == PlaceAfter(t, users, f, n)
           T == {n \in 0 .. RECORD_COUNT : Reads(g[place(n)], n, users)}
<1>1. RECORD_COUNT \in Nat /\ Users = 1 .. RECORD_COUNT /\ t \in Text
  BY RegisteredFileAssumption, SavedTextIs DEF Users
<1>2. RECORD_COUNT \in T
  <2>1. ~More(users, RECORD_COUNT)
    BY <1>1 DEF More
  <2>2. place(RECORD_COUNT) = Len(t) + 1
    BY <2>1 DEF PlaceAfter
  <2> QED
    BY <1>1, <2>2, ReadsEnd
<1>3. ASSUME NEW n \in 1 .. RECORD_COUNT, n \in T PROVE n - 1 \in T
  <2>1. n \in Users /\ n - 1 \in 0 .. RECORD_COUNT /\ n \in Int
    BY <1>1
  <2>2. Reads(g[place(n)], n, users)
    BY <1>3
  <2>3. CASE users[n].registered
    <3> DEFINE p == Len(f[n - 1]) + 1
               sc == Scan(t, p)
    <3>1. More(users, n - 1)
      BY <1>1, <2>1, <2>3 DEF More
    <3>2. place(n - 1) = p
      BY <3>1 DEF PlaceAfter
    <3>3. p \in Places(t)
      BY <2>1, <2>3, FieldsInSave
    <3>4. sc \in ScanResult
      BY <1>1, <3>3, ScanTyped
    <3>5. sc = [items |-> 5, userID |-> accepted_userIDs[n],
                user |-> users[n], next |-> place(n)]
      BY <2>1, <2>3, ScanInSave
    <3>6. g[p] = IF sc.items = 5 THEN <<sc>> \o g[sc.next] ELSE <<sc>>
      BY <3>3 DEF ScansFrom
    <3> HIDE DEF place, p, sc
    <3>7. /\ sc.items = 5 /\ sc.userID = accepted_userIDs[n]
          /\ sc.user = users[n] /\ sc.next = place(n)
      BY <3>5
    <3>8. Reads(<<sc>> \o g[place(n)], n - 1, users)
      BY <2>1, <2>2, <2>3, <3>4, <3>7, ReadsOneMore
    <3>9. g[place(n - 1)] = <<sc>> \o g[place(n)]
      BY <3>2, <3>6, <3>7
    <3> QED
      BY <2>1, <3>8, <3>9
  <2>4. CASE ~users[n].registered
    <3>1. f[n] = f[n - 1]
      BY <2>1, <2>4, LengthUpTo
    <3>2. ASSUME NEW u \in Users, users[u].registered
          PROVE  u > n - 1 <=> u > n
      <4>1. u # n
        BY <2>4, <3>2
      <4> QED
        BY <1>1, <4>1
    <3>3. place(n - 1) = place(n)
      <4>1. More(users, n - 1) <=> More(users, n)
        BY <3>2 DEF More
      <4> QED
        BY <3>1, <4>1 DEF PlaceAfter
    <3> HIDE DEF place
    <3>4. Reads(g[place(n)], n - 1, users)
      BY <2>2, <3>2 DEF Reads
    <3> QED
      BY <2>1, <3>3, <3>4
  <2> QED
    BY <2>3, <2>4
<1>4. \A n \in 0 .. RECORD_COUNT : n \in T
  <2> HIDE DEF T
  <2> QED
    BY <1>1, <1>2, <1>3, InductionDownFrom
<1> QED
  BY <1>4

LEMMA SaveReadFromStart ==
  ASSUME NEW users \in [Users -> Records], NEW t, SavedText(t, users)
  PROVE  Reads(Scans(t), 0, users)
<1>1. t \in Text
  BY SavedTextIs
<1>2. users \in [Users -> UserRecord]
  BY RecordTyped
<1>3. PICK f : TextUpTo(users, f) /\ TextOf(users) = f[RECORD_COUNT]
  BY <1>2, TextOfIs
<1>4. PICK g : ScansFrom(t, g) /\ Scans(t) = g[1]
  BY <1>1, ScansIs
<1>5. 0 \in 0 .. RECORD_COUNT /\ f[0] = <<>>
  BY <1>3, RegisteredFileAssumption DEF TextUpTo
<1>6. PlaceAfter(t, users, f, 0) = 1
  <2>1. CASE More(users, 0)
    BY <1>5, <2>1 DEF PlaceAfter
  <2>2. CASE ~More(users, 0)
    <3>1. Len(TextOf(users)) = 0
      <4>1. Len(f[0]) = Len(f[RECORD_COUNT])
        BY <1>3, <1>5, <2>2, NextPlace
      <4> QED
        BY <1>3, <1>5, <4>1
    <3>2. Len(t) = 0
      BY <3>1, SavedTextIs
    <3> QED
      BY <2>2, <3>2 DEF PlaceAfter
  <2> QED
    BY <2>1, <2>2
<1>7. Reads(g[PlaceAfter(t, users, f, 0)], 0, users)
  BY <1>3, <1>4, <1>5, ReadsInSave
<1> QED
  BY <1>4, <1>6, <1>7

(***************************************************************************)
(* What the update thread has saved is what Initialize loads (File.c:122,  *)
(* File.c:89): the text of a users map makes that map again, record for    *)
(* record, also when the last digit of a text that was longer by one is    *)
(* still behind it.                                                        *)
(***************************************************************************)
THEOREM SavedUsersAreRead ==
  ASSUME NEW users \in [Users -> Records], NEW t, SavedText(t, users)
  PROVE  Readable(t) /\ UsersOf(t) = users
<1> DEFINE s == Scans(t)
<1>1. Reads(s, 0, users)
  BY SaveReadFromStart
<1>2. Readable(t)
  BY <1>1 DEF Reads, Readable
<1> HIDE DEF s
<1>3. ASSUME NEW u \in Users, NEW i \in RecordsOf(s, u)
      PROVE  users[u].registered /\ s[i].user = users[u]
  <2>1. /\ i \in 1 .. Len(s) /\ s[i].items = 5
        /\ s[i].userID = accepted_userIDs[u]
    BY DEF RecordsOf
  <2>2. PICK v \in Users :
          /\ users[v].registered
          /\ s[i].userID = accepted_userIDs[v] /\ s[i].user = users[v]
    BY <1>1, <2>1 DEF Reads
  <2>3. u = v
    BY <2>1, <2>2, RegisteredFileAssumption
  <2> QED
    BY <2>2, <2>3
<1>4. ASSUME NEW u \in Users PROVE UserOf(s, u) = users[u]
  <2>1. CASE users[u].registered
    <3>1. u > 0
      BY RegisteredFileAssumption DEF Users
    <3>2. RecordsOf(s, u) # {}
      BY <1>1, <2>1, <3>1 DEF Reads, RecordsOf
    <3>3. s \in Seq(ScanResult)
      BY <1>1 DEF Reads
    <3>4. PICK i \in RecordsOf(s, u) : UserOf(s, u) = s[i].user
      BY <3>2, <3>3, UserOfIs
    <3> QED
      BY <1>3, <3>4
  <2>2. CASE ~users[u].registered
    <3>1. RecordsOf(s, u) = {}
      BY <1>3, <2>2
    <3>2. UserOf(s, u) = Unregistered
      BY <3>1 DEF UserOf
    <3>3. users[u] = Unregistered
      BY <2>2, RecordTyped
    <3> QED
      BY <3>2, <3>3
  <2> QED
    BY <2>1, <2>2
<1>5. UsersOf(t) = [u \in Users |-> UserOf(s, u)]
  BY DEF UsersOf, s
<1>6. UsersOf(t) = users
  BY <1>4, <1>5
<1> QED
  BY <1>2, <1>6

(***************************************************************************)
(* Writing over an older text.                                             *)
(***************************************************************************)
LEMMA OverwriteTyped ==
  ASSUME NEW t \in Text, NEW text \in Text
  PROVE  Overwrite(t, text) \in Text
<1>1. /\ Len(t) \in Nat /\ Len(text) \in Nat
      /\ \A i \in 1 .. Len(t) : t[i] \in Chars
  BY DEF Text
<1>2. /\ Len(text) + 1 \in Int /\ Len(t) \in Int
      /\ \A i \in Len(text) + 1 .. Len(t) : t[i] \in Chars
  BY <1>1
<1>3. SubSeq(t, Len(text) + 1, Len(t)) \in Seq(Chars)
  BY <1>2, SubSeqProperties DEF Text
<1> QED
  BY <1>3, ConcatProperties DEF Overwrite, Text

LEMMA PrefixTyped ==
  ASSUME NEW text \in Text, NEW n \in 0 .. Len(text)
  PROVE  SubSeq(text, 1, n) \in Text
<1>1. Len(text) \in Nat /\ \A i \in 1 .. Len(text) : text[i] \in Chars
  BY DEF Text
<1>2. 1 \in Int /\ n \in Int /\ \A i \in 1 .. n : text[i] \in Chars
  BY <1>1
<1> QED
  BY <1>2, SubSeqProperties DEF Text

LEMMA NoUsersNoText ==
  /\ NoUsers \in [Users -> Records]
  /\ TextOf(NoUsers) = <<>>
<1>1. NoUsers \in [Users -> Records] /\ NoUsers \in [Users -> UserRecord]
  BY UnregisteredTyped DEF NoUsers, Records
<1>2. PICK f : TextUpTo(NoUsers, f) /\ TextOf(NoUsers) = f[RECORD_COUNT]
  BY <1>1, TextOfIs
<1>3. 0 \in 0 .. RECORD_COUNT /\ f[0] = <<>>
  BY <1>2, RegisteredFileAssumption DEF TextUpTo
<1>4. ~More(NoUsers, 0)
  BY DEF More, NoUsers, Unregistered
<1>5. SavedText(TextOf(NoUsers), NoUsers)
  BY DEF SavedText
<1>6. Len(f[0]) = Len(f[RECORD_COUNT])
  BY <1>1, <1>2, <1>3, <1>4, <1>5, NextPlace
<1>7. TextOf(NoUsers) \in Text
  BY <1>1, TextOfTyped
<1>8. Len(TextOf(NoUsers)) = 0
  BY <1>2, <1>3, <1>6
<1> QED
  BY <1>1, <1>7, <1>8 DEF Text

\* A save ends with the 0 of the last record, or of the text before it.
LEMMA SavedTextEnds ==
  ASSUME NEW users \in [Users -> Records], NEW t, SavedText(t, users),
         t # <<>>
  PROVE  Len(t) >= 2 /\ t[Len(t)] = "0"
<1> DEFINE full == TextOf(users)
           R == {u \in Users : users[u].registered}
<1>1. /\ t \in Text /\ full \in Text
      /\ \/ Len(t) = Len(full)
         \/ Len(t) = Len(full) + 1 /\ t[Len(t)] = "0"
      /\ Len(full) = 0 => Len(t) = 0
  BY SavedTextIs
<1>2. Len(t) \in Nat /\ Len(full) \in Nat /\ Len(t) # 0 /\ Len(full) # 0
  BY <1>1 DEF Text
<1>3. users \in [Users -> UserRecord]
  BY RecordTyped
<1>4. PICK f : TextUpTo(users, f) /\ full = f[RECORD_COUNT]
  BY <1>3, TextOfIs
<1> HIDE DEF full
<1>5. 0 \in 0 .. RECORD_COUNT /\ f[0] = <<>>
  BY <1>4, RegisteredFileAssumption DEF TextUpTo
<1>6. More(users, 0)
  <2>1. ~More(users, 0) => Len(f[0]) = Len(f[RECORD_COUNT])
    BY <1>4, <1>5, NextPlace DEF full
  <2> QED
    BY <1>2, <1>4, <1>5, <2>1
<1>7. R # {} /\ R \subseteq 0 .. RECORD_COUNT /\ RECORD_COUNT \in Nat
  BY <1>6, RegisteredFileAssumption DEF More, Users
<1>8. PICK n \in R : \A u \in R : u <= n
  <2> HIDE DEF R
  <2> QED
    BY <1>7, GreatestExists
<1>9. n \in Users /\ users[n].registered /\ n \in 0 .. RECORD_COUNT
  BY <1>7
<1>10. ~More(users, n)
  BY <1>8, RegisteredFileAssumption DEF More, Users
<1>11. Len(f[n]) = Len(full)
  BY <1>4, <1>9, <1>10, NextPlace DEF full
<1> DEFINE p == Len(f[n - 1]) + 1
           id == accepted_userIDs[n]
           user == users[n]
<1>12. /\ p \in Places(t) /\ LastAt(p, id, user) = Len(f[n])
       /\ t[Len(f[n])] = "0"
  BY <1>4, <1>9, FieldsInSave DEF full
<1>13. LastAt(p, id, user) >= 2
  <2>1. /\ Len(id) \in Nat /\ Len(user.age) \in Nat /\ Len(user.gpa) \in Nat
        /\ Len(user.ip) \in Nat
    BY <1>9, IdTyped, RecordTyped DEF Text
  <2> DEFINE a == Len(id)  b == Len(user.age)  c == Len(user.gpa)
             d == Len(user.ip)
  <2>2. p \in Nat
    BY <1>2, <1>12 DEF Places
  <2>3. a \in Nat /\ b \in Nat /\ c \in Nat /\ d \in Nat
    BY <2>1
  <2>4. LastAt(p, id, user) = p + a + b + c + d + 4
    BY DEF LastAt
  <2> HIDE DEF p, a, b, c, d
  <2> QED
    BY <2>2, <2>3, <2>4
<1> HIDE DEF p, id, user
<1>14. Len(full) >= 2 /\ t[Len(full)] = "0"
  BY <1>11, <1>12, <1>13
<1> QED
  BY <1>1, <1>2, <1>14

(***************************************************************************)
(* A save over an older save is a save (File.c:43 opens the file with      *)
(* "r+"), provided the older text is longer by one at most.                *)
(***************************************************************************)
THEOREM SaveOverSave ==
  ASSUME NEW old \in [Users -> Records], NEW t, SavedText(t, old),
         NEW users \in [Users -> Records], Len(t) <= Len(TextOf(users)) + 1
  PROVE  SavedText(Overwrite(t, TextOf(users)), users)
<1> DEFINE full == TextOf(users)
           rest == SubSeq(t, Len(full) + 1, Len(t))
<1>1. t \in Text
  BY SavedTextIs
<1>2. full \in Text
  <2>1. users \in [Users -> UserRecord]
    BY RecordTyped
  <2> QED
    BY <2>1, TextOfTyped
<1>3. Overwrite(t, full) = full \o rest
  BY DEF Overwrite
<1> HIDE DEF full
<1>4. /\ Len(t) \in Nat /\ Len(full) \in Nat
      /\ \A i \in 1 .. Len(t) : t[i] \in Chars
  BY <1>1, <1>2 DEF Text
<1>5. Len(t) <= Len(full) + 1
  BY DEF full
<1>6. /\ rest \in Seq(Chars)
      /\ Len(rest) = IF Len(full) + 1 <= Len(t)
                     THEN Len(t) - (Len(full) + 1) + 1 ELSE 0
      /\ \A i \in 1 .. Len(t) - (Len(full) + 1) + 1 :
           rest[i] = t[Len(full) + 1 + i - 1]
  <2>1. /\ Len(full) + 1 \in Int /\ Len(t) \in Int
        /\ \A i \in Len(full) + 1 .. Len(t) : t[i] \in Chars
    BY <1>4
  <2> QED
    BY <1>1, <2>1, SubSeqProperties DEF Text
<1> HIDE DEF rest
<1>7. CASE Len(t) <= Len(full)
  <2>1. Len(rest) = 0
    BY <1>4, <1>6, <1>7
  <2>2. rest = <<>>
    BY <1>6, <2>1
  <2>3. full \o rest = full
    BY <1>2, <2>2, ConcatEmptySeq DEF Text
  <2> QED
    BY <1>3, <2>3 DEF SavedText, full
<1>8. CASE ~ (Len(t) <= Len(full))
  <2>1. Len(t) = Len(full) + 1
    BY <1>4, <1>5, <1>8
  <2>2. t # <<>>
    BY <1>4, <2>1
  <2>3. Len(t) >= 2 /\ t[Len(t)] = "0"
    BY <2>2, SavedTextEnds
  <2>4. Len(rest) = 1 /\ rest[1] = "0"
    <3>1. /\ Len(full) + 1 <= Len(t) /\ Len(t) - (Len(full) + 1) + 1 = 1
          /\ Len(full) + 1 + 1 - 1 = Len(t) /\ 1 \in 1 .. 1
      BY <1>4, <2>1
    <3> QED
      BY <1>6, <2>3, <3>1
  <2>5. rest = <<"0">>
    <3>1. "0" \in Chars
      BY RegisteredFileAssumption DEF Digits
    <3> DEFINE zero == <<"0">>
    <3>2. zero \in Seq(Chars) /\ Len(zero) = 1 /\ zero[1] = "0"
      BY <3>1
    <3> HIDE DEF zero
    <3>3. \A i \in 1 .. Len(rest) : rest[i] = zero[i]
      BY <2>4, <3>2
    <3>4. rest = zero
      BY <1>6, <2>4, <3>2, <3>3, SeqEqual
    <3> QED
      BY <3>4 DEF zero
  <2>6. full # <<>>
    BY <1>4, <2>1, <2>3
  <2> QED
    BY <1>3, <2>5, <2>6 DEF SavedText, full
<1> QED
  BY <1>7, <1>8
=============================================================================
