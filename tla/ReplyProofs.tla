---------------------------- MODULE ReplyProofs -----------------------------
(***************************************************************************)
(* The send buffer for every number of threads, every size and every       *)
(* directory: what is written fits, an advertisement arrives whole, and    *)
(* one that nobody disturbs finds its file.  That it arrives at all is a   *)
(* matter of fairness and stays with TLC.                                  *)
(***************************************************************************)
EXTENDS Reply, Recursion, FiniteSetTheorems, SequenceTheorems, TLAPS

LEMMA Numbers ==
  /\ MaxFiles \in Nat /\ MaxEdits \in Nat /\ SendBufferSize \in Nat
  /\ MessageLength \in Nat /\ InfoLength \in Nat /\ ValueLength \in Nat
  /\ MessageLength < SendBufferSize /\ ValueLength < SendBufferSize
  /\ \A n \in CopiedLengths :
       /\ n \in Nat /\ n + DisconnectLength \in Nat
       /\ n < SendBufferSize /\ n + DisconnectLength < SendBufferSize
  /\ \A k \in 0 .. RECORD_COUNT :
       k * OnlineLength \in Nat /\ k * OnlineLength < SendBufferSize
  /\ AdTexts \subseteq Texts
  /\ <<>> \in Texts
  /\ Junk \notin AdFiles /\ Folder \notin AdFiles
<1>1. /\ {MaxFiles, MaxEdits, RECORD_COUNT, MessageLength, InfoLength,
          OnlineLength, ValueLength, DisconnectLength} \subseteq Nat
      /\ CopiedLengths \subseteq Nat
  BY ReplyAssumption
<1>2. RECORD_COUNT \in Nat /\ OnlineLength \in Nat /\ DisconnectLength \in Nat
  BY <1>1
<1>3. \A k \in 0 .. RECORD_COUNT :
        k * OnlineLength \in Nat /\ k * OnlineLength < SendBufferSize
  BY <1>2, SizeAssumption
<1>4. ASSUME NEW n \in CopiedLengths
      PROVE  /\ n \in Nat /\ n + DisconnectLength \in Nat
             /\ n < SendBufferSize /\ n + DisconnectLength < SendBufferSize
  <2>1. n \in Nat
    BY <1>1
  <2> QED
    BY <1>2, <2>1, SizeAssumption
<1> QED
  BY <1>1, <1>3, <1>4, ReplyAssumption, SizeAssumption

(***************************************************************************)
(* What fgets takes leaves room for the '\0' and takes the text further.   *)
(***************************************************************************)
LEMMA FgetsFits ==
  ASSUME TypeOK, NEW t \in Threads, len[t] < SendBufferSize,
         rest[t] # <<>>, ~Full(t)
  PROVE  /\ Taken(t) \in Nat \ {0}
         /\ len[t] + Taken(t) < SendBufferSize
         /\ Unread(t, Taken(t)) \in Texts
<1>1. rest[t] \in Seq(Nat \ {0}) /\ len[t] \in Nat
  BY DEF TypeOK, Texts
<1>2. Head(rest[t]) \in Nat \ {0} /\ Tail(rest[t]) \in Seq(Nat \ {0})
  BY <1>1
<1>3. SendBufferSize \in Nat
  BY SizeAssumption
<1>4. Taken(t) \in Nat \ {0} /\ Taken(t) <= Head(rest[t])
      /\ Taken(t) <= Room(t) - 1
  BY <1>1, <1>2, <1>3 DEF Taken, Room, Full
<1>5. len[t] + Taken(t) < SendBufferSize
  BY <1>1, <1>3, <1>4 DEF Room
<1>6. CASE Head(rest[t]) = Taken(t)
  BY <1>2, <1>4, <1>5, <1>6 DEF Unread, Texts
<1>7. CASE Head(rest[t]) # Taken(t)
  <2>1. Head(rest[t]) - Taken(t) \in Nat \ {0}
    BY <1>2, <1>4, <1>7
  <2>2. <<Head(rest[t]) - Taken(t)>> \o Tail(rest[t]) \in Seq(Nat \ {0})
    BY <1>2, <2>1
  <2> QED
    BY <1>4, <1>5, <1>7, <2>2 DEF Unread, Texts
<1> QED
  BY <1>6, <1>7

(***************************************************************************)
(* Fits is inductive: a thread that dispatches a command has an empty      *)
(* buffer, which MessageOrClose has seen to, so that whatever a command    *)
(* appends, it appends to nothing or to its own "<Message>".               *)
(***************************************************************************)
Fits ==
  /\ TypeOK
  /\ \A t \in Threads :
       /\ len[t] < SendBufferSize
       /\ pc[t] \in {"command", "find"} => len[t] = 0
       /\ pc[t] = "test" => name[t] \in AdFiles \union {Folder}

LEMMA InitFits == Init => Fits
<1> SUFFICES ASSUME Init PROVE Fits
  OBVIOUS
<1> USE Numbers DEF Init
<1>1. dir \in [AdFiles -> Texts \union {Secret, Absent}]
  <2>1. dir \in [AdFiles -> AdTexts \union {Secret, Absent}]
    OBVIOUS
  <2>2. AdTexts \union {Secret, Absent} \subseteq Texts \union {Secret, Absent}
    OBVIOUS
  <2> QED
    BY <2>1, <2>2
<1>2. 0 < SendBufferSize
  BY SizeAssumption
<1>3. 0 \in 0 .. MaxEdits /\ 0 \in Int /\ 0 <= MaxFiles
  OBVIOUS
<1>4. TypeOK
  BY <1>1, <1>3 DEF TypeOK
<1>5. \A t \in Threads :
        /\ len[t] < SendBufferSize
        /\ pc[t] \in {"command", "find"} => len[t] = 0
        /\ pc[t] = "test" => name[t] \in AdFiles \union {Folder}
  BY <1>2
<1> QED
  BY <1>4, <1>5 DEF Fits

LEMMA FitsStep == Fits /\ [Next]_vars => Fits'
<1> SUFFICES ASSUME Fits, [Next]_vars PROVE Fits'
  OBVIOUS
<1> USE Numbers DEF Fits, TypeOK, Goto, Busy
<1>1. ASSUME NEW t \in Threads, Connect(t) PROVE Fits'
  BY <1>1 DEF Connect, Write
<1>2. ASSUME NEW t \in Threads, HangUp(t) PROVE Fits'
  BY <1>2 DEF HangUp, Leave
<1>3. ASSUME NEW t \in Threads, Message(t) PROVE Fits'
  BY <1>3 DEF Message, Write
<1>4. ASSUME NEW t \in Threads, Goodbye(t) PROVE Fits'
  BY <1>4 DEF Goodbye, Leave, Write
<1>5. ASSUME NEW t \in Threads, Copy(t) PROVE Fits'
  BY <1>5 DEF Copy, Answers, Write
<1>6. ASSUME NEW t \in Threads, _myinfo(t) PROVE Fits'
  BY <1>6 DEF _myinfo, Answers, Write
<1>7. ASSUME NEW t \in Threads, _who(t) PROVE Fits'
  BY <1>7 DEF _who, Answers, Extend, Write
<1>8. ASSUME NEW t \in Threads, _rand(t) PROVE Fits'
  BY <1>8 DEF _rand, Answers, Extend, Write
<1>9. ASSUME NEW t \in Threads, Choose(t) PROVE Fits'
  BY <1>9 DEF Choose, Count
<1>10. ASSUME NEW t \in Threads, NEW from, Die(t, from) PROVE Fits'
  BY <1>10 DEF Die
<1>11. ASSUME NEW t \in Threads, Find(t) PROVE Fits'
  BY <1>11 DEF Find, Extend, Write, Present
<1>12. ASSUME NEW t \in Threads, Status(t) PROVE Fits'
  BY <1>12 DEF Status, Present
<1>13. ASSUME NEW t \in Threads, NoFile(t) PROVE Fits'
  BY <1>13 DEF NoFile
<1>14. ASSUME NEW t \in Threads, Test(t) PROVE Fits'
  BY <1>14 DEF Test, Present
<1>15. ASSUME NEW t \in Threads, Open(t) \/ Create(t) PROVE Fits'
  <2>1. ASSUME NEW from, NEW ad \in Texts, Cat(t, from, ad),
               name[t] \in AdFiles
        PROVE  Fits'
    BY <2>1 DEF Cat
  <2>2. CASE Open(t)
    <3>1. name[t] \in AdFiles
      BY <2>2 DEF Open, Present
    <3>2. dir[name[t]] \in Texts
      BY <2>2, <3>1 DEF Open, Cat, Present, Locked
    <3> QED
      BY <2>1, <2>2, <3>1, <3>2 DEF Open
  <2>3. CASE Create(t)
    BY <2>1, <2>3 DEF Create, Cat
  <2> QED
    BY <1>15, <2>2, <2>3
<1>16. ASSUME NEW t \in Threads, CatLine(t) PROVE Fits'
  <2>1. /\ Taken(t) \in Nat \ {0}
        /\ len[t] + Taken(t) < SendBufferSize
        /\ Unread(t, Taken(t)) \in Texts
    BY <1>16, FgetsFits DEF CatLine
  <2> QED
    BY <1>16, <2>1 DEF CatLine, Extend, Write
<1>17. ASSUME NEW t \in Threads, CatEnds(t) PROVE Fits'
  BY <1>17 DEF CatEnds
<1>18. ASSUME NEW f \in AdFiles, NEW ad \in AdTexts \union {Secret, Absent},
             Edit(f, ad)
      PROVE  Fits'
  BY <1>18 DEF Edit, threadVars
<1>19. ASSUME UNCHANGED vars PROVE Fits'
  BY <1>19 DEF vars, threadVars
<1> QED
  BY <1>1, <1>2, <1>3, <1>4, <1>5, <1>6, <1>7, <1>8, <1>9, <1>10, <1>11,
     <1>12, <1>13, <1>14, <1>15, <1>16, <1>17, <1>18, <1>19
     DEF Next, Talk, AdStep, ChooseFails, FindFails, OpenFails

LEMMA FitsHolds == Spec => []Fits
  BY InitFits, FitsStep, PTL DEF Spec

(***************************************************************************)
(* Type correctness; only a regular file is ever created or copied, never  *)
(* ADS_DIR itself, which the tests before it let pass.                     *)
(***************************************************************************)
THEOREM TypeCorrect == Spec => []TypeOK
<1>1. Fits => TypeOK
  BY DEF Fits
<1> QED
  BY <1>1, FitsHolds, PTL

(***************************************************************************)
(* No reply is longer than the buffer (File.c:190, Connection.c:184 and    *)
(* the commands), given SizeAssumption: a buffer that holds the replies    *)
(* whose length the code does not limit.  The settings file may set a      *)
(* smaller one.                                                            *)
(***************************************************************************)
THEOREM RepliesFit == Spec => []ReplyFits
<1>1. Fits => ReplyFits
  BY DEF Fits, ReplyFits
<1> QED
  BY <1>1, FitsHolds, PTL

(***************************************************************************)
(* The threads that nobody disturbs.  One that has chosen has yet to pass  *)
(* fewer files than there are; one that has found a file finds it again.   *)
(* Files may come (another thread, which was disturbed, creates one) but   *)
(* none goes.                                                              *)
(***************************************************************************)
Quiet(t) ==
  t \notin disturbed =>
    /\ pc[t] = "find" => left[t] < Cardinality(Present)
    /\ pc[t] \in {"status", "test", "open"} => name[t] \in Present
    /\ pc[t] # "create"
    /\ pc[t] = "dead" => fds = MaxFiles \/ Present = {} \/ Locked(name[t])

LEMMA PresentIsFinite ==
  /\ IsFiniteSet(Present) /\ Cardinality(Present) \in Nat
  /\ IsFiniteSet(Present') /\ Cardinality(Present') \in Nat
<1>1. Present \subseteq AdFiles /\ Present' \subseteq AdFiles
  BY DEF Present
<1> QED
  BY <1>1, ReplyAssumption, FS_Subset, FS_CardinalityType

\* No step of a thread takes a file away.
LEMMA FilesStay ==
  ASSUME Fits, NEW t \in Threads, Talk(t) \/ AdStep(t)
  PROVE  Present \subseteq Present'
<1>1. ASSUME UNCHANGED dir PROVE Present \subseteq Present'
  BY <1>1 DEF Present
<1>2. ASSUME NEW from, NEW ad \in Texts, Cat(t, from, ad)
      PROVE  Present \subseteq Present'
  <2>1. dir' = [dir EXCEPT ![name[t]] = ad] /\ ad # Absent
    BY <1>2, ReplyAssumption DEF Cat
  <2> QED
    BY <2>1 DEF Present, Fits, TypeOK
<1>3. CASE Open(t)
  <2>1. dir[name[t]] \in Texts
    BY <1>3 DEF Open, Cat, Present, Locked, Fits, TypeOK
  <2> QED
    BY <1>2, <1>3, <2>1 DEF Open
<1>4. CASE Create(t)
  BY <1>2, <1>4, Numbers DEF Create
<1>5. CASE Talk(t)
  BY <1>1, <1>5 DEF Talk, Connect, HangUp, Goodbye, Leave, Message, Copy,
     _myinfo, _who, _rand, Answers
<1>6. ASSUME AdStep(t), ~Open(t), ~Create(t) PROVE UNCHANGED dir
  BY <1>6 DEF AdStep, Choose, Find, Status, NoFile, Test, CatLine, CatEnds,
     ChooseFails, FindFails, OpenFails, Die
<1> QED
  BY <1>1, <1>3, <1>4, <1>5, <1>6

\* A thread that stands still is not concerned by a step of another.
LEMMA QuietWaits ==
  ASSUME Fits, NEW u \in Threads, Quiet(u), pc[u] # "dead",
         pc'[u] = pc[u], left'[u] = left[u], name'[u] = name[u],
         u \notin disturbed' => u \notin disturbed,
         Present \subseteq Present'
  PROVE  Quiet(u)'
<1>1. Cardinality(Present) <= Cardinality(Present')
  BY PresentIsFinite, FS_Subset
<1>2. left[u] \in Nat
  BY DEF Fits, TypeOK
<1>3. pc[u] = "find" /\ u \notin disturbed' => left'[u] < Cardinality(Present')
  BY <1>1, <1>2, PresentIsFinite DEF Quiet
<1> QED
  BY <1>3 DEF Quiet

LEMMA QuietTalks ==
  ASSUME Fits, NEW t \in Threads, Talk(t)
  PROVE  pc'[t] \in {"gone", "loop", "command"}
<1> USE DEF Fits, TypeOK, Goto
<1> QED
  BY DEF Talk, Connect, HangUp, Goodbye, Leave, Message, Copy, _myinfo, _who,
     _rand, Answers

LEMMA QuietKept ==
  ASSUME Fits, NEW t \in Threads, Quiet(t), AdStep(t)
  PROVE  Quiet(t)'
<1> SUFFICES ASSUME t \notin disturbed PROVE Quiet(t)'
  BY DEF AdStep, Choose, Find, Status, NoFile, Test, Open, Create, Cat,
     CatLine, CatEnds, ChooseFails, FindFails, OpenFails, Die, Quiet
<1> USE DEF Goto
<1>1. CASE Choose(t)
  <2>1. PICK i \in 0 .. Count - 1 : left' = [left EXCEPT ![t] = i]
    BY <1>1 DEF Choose
  <2>2. pc'[t] = "find" /\ left'[t] = i /\ dir' = dir
    BY <1>1, <2>1 DEF Choose, Fits, TypeOK
  <2>3. i < Cardinality(Present) /\ Present' = Present
    BY <2>1, <2>2, PresentIsFinite DEF Count, Present
  <2> QED
    BY <2>2, <2>3 DEF Quiet
<1>2. CASE Find(t)
  <2>1. pc'[t] = "status" /\ name'[t] \in Present /\ dir' = dir
    BY <1>2 DEF Find, Quiet, Fits, TypeOK
  <2> QED
    BY <2>1 DEF Quiet, Present
<1>3. CASE Status(t)
  <2>1. /\ pc'[t] = "test" /\ name' = name /\ dir' = dir
        /\ name[t] \in Present
    BY <1>3 DEF Status, Quiet, Fits, TypeOK
  <2> QED
    BY <2>1 DEF Quiet, Present
<1>4. CASE NoFile(t)
  BY <1>4 DEF NoFile, Quiet, Fits, TypeOK
<1>5. CASE Test(t)
  <2>1. /\ pc'[t] = "open" /\ name' = name /\ dir' = dir
        /\ name[t] \in Present
    BY <1>5 DEF Test, Quiet, Fits, TypeOK
  <2> QED
    BY <2>1 DEF Quiet, Present
<1>6. CASE Open(t) \/ Create(t)
  BY <1>6 DEF Open, Create, Cat, Quiet, Fits, TypeOK
<1>7. CASE CatLine(t)
  BY <1>7 DEF CatLine, Quiet
<1>8. CASE CatEnds(t)
  BY <1>8 DEF CatEnds, Quiet, Fits, TypeOK
<1>9. ASSUME NEW from, Die(t, from),
             fds = MaxFiles \/ Present = {} \/ Locked(name[t])
      PROVE  Quiet(t)'
  <2>1. /\ pc'[t] = "dead" /\ fds' = fds /\ name' = name /\ dir' = dir
    BY <1>9 DEF Die, Fits, TypeOK
  <2> QED
    BY <1>9, <2>1 DEF Quiet, Present, Locked
<1>10. CASE ChooseFails(t)
  <2>1. fds = MaxFiles \/ Present = {}
    BY <1>10, PresentIsFinite, FS_EmptySet DEF ChooseFails, Count
  <2> QED
    BY <1>9, <1>10, <2>1 DEF ChooseFails
<1>11. CASE FindFails(t)
  BY <1>9, <1>11 DEF FindFails
<1>12. CASE OpenFails(t)
  <2>1. pc[t] = "open" => name[t] \in Present
    BY DEF Quiet
  <2> QED
    BY <1>9, <1>12, <2>1 DEF OpenFails, Die
<1> QED
  BY <1>1, <1>2, <1>3, <1>4, <1>5, <1>6, <1>7, <1>8, <1>10, <1>11, <1>12
     DEF AdStep

LEMMA QuietOthers ==
  ASSUME Fits, NEW t \in Threads, Talk(t) \/ AdStep(t),
         NEW u \in Threads, u # t
  PROVE  /\ pc'[u] = pc[u] /\ left'[u] = left[u] /\ name'[u] = name[u]
         /\ u \notin disturbed' => u \notin disturbed
<1> USE DEF Fits, TypeOK, Goto, Write, Extend
<1>1. CASE Talk(t)
  BY <1>1 DEF Talk, Connect, HangUp, Goodbye, Leave, Message, Copy, _myinfo,
        _who, _rand, Answers
<1>2. CASE AdStep(t)
  BY <1>2 DEF AdStep, Choose, Find, Status, NoFile, Test, Open, Create, Cat,
        CatLine, CatEnds, ChooseFails, FindFails, OpenFails, Die
<1> QED
  BY <1>1, <1>2

\* Whom an edit finds at work it disturbs; the others look at nothing.
LEMMA QuietEdit ==
  ASSUME Fits, NEW u \in Threads, pc[u] # "dead",
         NEW f, NEW ad, Edit(f, ad)
  PROVE  Quiet(u)'
<1>1. pc' = pc /\ (u \notin disturbed' => pc[u] \notin Busy)
  BY DEF Edit, threadVars
<1> QED
  BY <1>1 DEF Quiet, Busy

(***************************************************************************)
(* An advertisement command that nobody disturbs finds one of the files it *)
(* has counted and opens it, for any number of threads and files; it kills *)
(* the server only for want of files, of descriptors or of a permission    *)
(* (File.c:127, 147, 161, 191, 31 and 43).                                 *)
(***************************************************************************)
THEOREM QuietAdsAreFound == Spec => []QuietAdIsFound
<1> DEFINE AllQuiet == \A t \in Threads : Quiet(t)
<1>1. Init => AllQuiet
  BY DEF Init, Quiet
<1>2. Fits /\ AllQuiet /\ [Next]_vars => AllQuiet'
  <2> SUFFICES ASSUME Fits, AllQuiet, [Next]_vars, NEW u \in Threads
               PROVE  Quiet(u)'
    OBVIOUS
  <2>1. Quiet(u)
    OBVIOUS
  <2>2. CASE UNCHANGED vars
    BY <2>1, <2>2 DEF vars, threadVars, Quiet, Present, Locked
  <2>3. CASE Next
    <3>1. pc[u] # "dead"
      BY <2>3 DEF Next, Crashed
    <3>2. ASSUME NEW t \in Threads, Talk(t) \/ AdStep(t) PROVE Quiet(u)'
      <4>1. CASE u # t
        BY <2>1, <3>1, <3>2, <4>1, QuietOthers, FilesStay, QuietWaits
      <4>2. CASE u = t /\ Talk(t)
        BY <4>2, QuietTalks DEF Quiet
      <4>3. CASE u = t /\ AdStep(t)
        BY <2>1, <4>3, QuietKept
      <4> QED
        BY <3>2, <4>1, <4>2, <4>3
    <3>3. ASSUME NEW f, NEW ad, Edit(f, ad) PROVE Quiet(u)'
      BY <3>1, <3>3, QuietEdit
    <3> QED
      BY <2>3, <3>2, <3>3 DEF Next
  <2> QED
    BY <2>2, <2>3
<1>3. AllQuiet => QuietAdIsFound
  BY DEF Quiet, QuietAdIsFound
<1> QED
  BY <1>1, <1>2, <1>3, FitsHolds, PTL DEF Spec

(***************************************************************************)
(* The length of an advertisement is the sum of those of its lines.        *)
(***************************************************************************)
SumUpTo(ad, f) ==
  /\ f \in [0 .. Len(ad) -> Nat]
  /\ f[0] = 0
  /\ \A n \in 1 .. Len(ad) : f[n] = f[n - 1] + ad[n]

LEMMA TotalIs ==
  ASSUME NEW ad \in Texts
  PROVE  \E f : SumUpTo(ad, f) /\ Total(ad) = f[Len(ad)]
<1> DEFINE N == Len(ad)
           step == [x \in (1 .. N) \X Nat |-> x[2] + ad[x[1]]]
           F(f) == [n \in 0 .. N |-> IF n = 0 THEN 0 ELSE f[n - 1] + ad[n]]
           Solves(f) == /\ f[0] = 0
                        /\ \A n \in 1 .. N : f[n] = f[n - 1] + ad[n]
           g == CHOOSE h : h = F(h)
<1>1. N \in Nat /\ \A n \in 1 .. N : ad[n] \in Nat
  BY DEF Texts
<1>2. step \in [(1 .. N) \X Nat -> Nat]
  <2>1. ASSUME NEW n \in 1 .. N, NEW m \in Nat PROVE m + ad[n] \in Nat
    BY <1>1
  <2> QED
    BY <2>1
<1>3. PICK f \in [0 .. N -> Nat] : StepsUp(N, 0, step, f)
  <2> HIDE DEF N, step
  <2>1. StepTable(N, Nat, 0, step)
    BY <1>1, <1>2 DEF StepTable
  <2> QED
    BY <2>1, RecursionUpTo
<1>4. Solves(f)
  <2>1. ASSUME NEW n \in 1 .. N PROVE step[<<n, f[n - 1]>>] = f[n - 1] + ad[n]
    <3>1. n - 1 \in 0 .. N /\ f[n - 1] \in Nat
      BY <1>1
    <3> QED
      BY <3>1
  <2> QED
    BY <1>3, <2>1 DEF StepsUp
<1>5. f = F(f)
  <2>1. ASSUME NEW n \in 0 .. N
        PROVE  f[n] = IF n = 0 THEN 0 ELSE f[n - 1] + ad[n]
    <3>1. CASE n = 0
      BY <1>4, <3>1
    <3>2. CASE n # 0
      <4>1. n \in 1 .. N
        BY <1>1, <3>2
      <4> QED
        BY <1>4, <3>2, <4>1
    <3> QED
      BY <3>1, <3>2
  <2> HIDE DEF N
  <2> QED
    BY <1>3, <2>1
<1>6. g = F(g)
  <2> HIDE DEF F
  <2> QED
    BY <1>5
<1>7. Total(ad) = g[N]
  BY DEF Total
<1> HIDE DEF g
<1>8. Solves(g)
  BY <1>1, <1>6
<1>9. \A n \in 0 .. N : g[n] = f[n]
  <2> DEFINE Same == {n \in 0 .. N : g[n] = f[n]}
  <2>1. 0 \in Same
    BY <1>1, <1>4, <1>8
  <2>2. ASSUME NEW n \in 1 .. N, n - 1 \in Same PROVE n \in Same
    <3>1. g[n - 1] = f[n - 1] /\ n \in 0 .. N
      BY <1>1, <2>2
    <3> QED
      BY <1>4, <1>8, <3>1
  <2>3. \A n \in 0 .. N : n \in Same
    <3> HIDE DEF Same, N
    <3> QED
      BY <1>1, <2>1, <2>2, InductionUpTo
  <2> QED
    BY <2>3
<1>10. SumUpTo(ad, f) /\ N \in 0 .. N
  BY <1>1, <1>3, <1>4 DEF SumUpTo
<1> QED
  BY <1>7, <1>9, <1>10

LEMMA TotalTyped ==
  ASSUME NEW ad \in Texts
  PROVE  Total(ad) \in Nat
<1>1. PICK f : SumUpTo(ad, f) /\ Total(ad) = f[Len(ad)]
  BY TotalIs
<1>2. Len(ad) \in 0 .. Len(ad)
  BY DEF Texts
<1> QED
  BY <1>1, <1>2 DEF SumUpTo

LEMMA TotalEmpty == Total(<<>>) = 0
<1>1. <<>> \in Texts /\ Len(<<>>) = 0
  BY DEF Texts
<1>2. PICK f : SumUpTo(<<>>, f) /\ Total(<<>>) = f[Len(<<>>)]
  BY <1>1, TotalIs
<1> QED
  BY <1>1, <1>2 DEF SumUpTo

\* The first line and the others.
LEMMA TotalOfLines ==
  ASSUME NEW ad \in Texts, ad # <<>>
  PROVE  /\ Head(ad) \in Nat \ {0} /\ Tail(ad) \in Texts
         /\ Total(Tail(ad)) \in Nat
         /\ Total(ad) = Head(ad) + Total(Tail(ad))
<1> DEFINE tail == Tail(ad)
           N == Len(tail)
<1>1. /\ ad \in Seq(Nat \ {0}) /\ Len(ad) \in Nat /\ Len(ad) >= 1
      /\ Head(ad) = ad[1] /\ Head(ad) \in Nat \ {0}
      /\ tail \in Texts /\ N = Len(ad) - 1
      /\ \A n \in 1 .. N : tail[n] = ad[n + 1]
  BY DEF Texts
<1> HIDE DEF tail
<1>2. PICK f : SumUpTo(ad, f) /\ Total(ad) = f[Len(ad)]
  BY TotalIs
<1>3. PICK g : SumUpTo(tail, g) /\ Total(tail) = g[N]
  BY <1>1, TotalIs
<1> HIDE DEF N
<1>4. N \in Nat /\ N + 1 = Len(ad)
  BY <1>1
<1>5. /\ f[0] = 0 /\ \A n \in 1 .. N + 1 : f[n] = f[n - 1] + ad[n]
      /\ g[0] = 0 /\ \A n \in 1 .. N : g[n] = g[n - 1] + tail[n]
      /\ \A n \in 0 .. N : g[n] \in Nat
  BY <1>2, <1>3, <1>4 DEF SumUpTo, N
<1> DEFINE T == {n \in 0 .. N : f[n + 1] = Head(ad) + g[n]}
<1>6. 0 \in T
  <2>1. 1 \in 1 .. N + 1 /\ 1 - 1 = 0 /\ 0 + 1 = 1 /\ 0 \in 0 .. N
    BY <1>4
  <2>2. f[1] = 0 + ad[1]
    BY <1>5, <2>1
  <2> QED
    BY <1>1, <1>5, <2>1, <2>2
<1>7. ASSUME NEW n \in 1 .. N, n - 1 \in T PROVE n \in T
  <2>1. /\ n + 1 \in 1 .. N + 1 /\ (n + 1) - 1 = n /\ (n - 1) + 1 = n
        /\ n \in 0 .. N /\ n - 1 \in 0 .. N
    BY <1>4
  <2>2. f[n] = Head(ad) + g[n - 1]
    BY <1>7, <2>1
  <2>3. f[n + 1] = f[n] + ad[n + 1]
    BY <1>5, <2>1
  <2>4. g[n] = g[n - 1] + ad[n + 1]
    BY <1>1, <1>5
  <2>5. g[n - 1] \in Nat /\ ad[n + 1] \in Nat /\ Head(ad) \in Nat
    BY <1>1, <1>4, <1>5, <2>1
  <2>6. f[n + 1] = Head(ad) + g[n]
    BY <2>2, <2>3, <2>4, <2>5
  <2> QED
    BY <2>1, <2>6
<1>8. \A n \in 0 .. N : n \in T
  <2> HIDE DEF T
  <2> QED
    BY <1>4, <1>6, <1>7, InductionUpTo
<1>9. f[N + 1] = Head(ad) + g[N]
  BY <1>4, <1>8
<1>10. Total(tail) \in Nat
  BY <1>1, TotalTyped
<1> QED
  BY <1>1, <1>2, <1>3, <1>4, <1>9, <1>10 DEF tail


\* What one call of fgets takes is missing from what is unread.
LEMMA TotalOfUnread ==
  ASSUME Fits, NEW t \in Threads, rest[t] # <<>>, ~Full(t)
  PROVE  /\ Taken(t) \in Nat
         /\ Total(rest[t]) = Taken(t) + Total(Unread(t, Taken(t)))
<1>1. Taken(t) \in Nat \ {0} /\ Unread(t, Taken(t)) \in Texts
  BY FgetsFits DEF Fits
<1>2. rest[t] \in Texts
  BY DEF Fits, TypeOK
<1> DEFINE n == Taken(t)
           h == Head(rest[t])
           tail == Tail(rest[t])
           s == <<h - n>> \o tail
<1>3. /\ h \in Nat \ {0} /\ tail \in Texts /\ Total(tail) \in Nat
      /\ Total(rest[t]) = h + Total(tail)
  BY <1>2, TotalOfLines
<1>4. n <= h
  BY <1>3, SizeAssumption DEF Fits, TypeOK, Taken, Room
<1>5. Unread(t, n) = IF h = n THEN tail ELSE s
  BY DEF Unread
<1> HIDE DEF n, h, tail
<1>6. CASE h = n
  BY <1>1, <1>3, <1>5, <1>6 DEF n
<1>7. CASE h # n
  <2>1. h - n \in Nat \ {0}
    BY <1>1, <1>3, <1>4, <1>7 DEF n
  <2>2. s \in Texts /\ s # <<>> /\ Head(s) = h - n /\ Tail(s) = tail
    <3> DEFINE one == <<h - n>>
    <3>1. one \in Seq(Nat \ {0}) /\ Len(one) = 1 /\ one[1] = h - n
      BY <2>1
    <3>2. tail \in Seq(Nat \ {0})
      BY <1>3 DEF Texts
    <3> HIDE DEF one
    <3> DEFINE all == one \o tail
    <3>3. /\ all \in Seq(Nat \ {0}) /\ Len(all) = Len(one) + Len(tail)
          /\ \A i \in 1 .. Len(one) + Len(tail) :
               all[i] = IF i <= Len(one) THEN one[i] ELSE tail[i - Len(one)]
      BY <3>1, <3>2, ConcatProperties
    <3> HIDE DEF all
    <3>4. Len(tail) \in Nat /\ Len(all) = Len(tail) + 1
      BY <3>1, <3>2, <3>3
    <3>5. all # <<>> /\ Head(all) = h - n
      <4>1. 1 \in 1 .. Len(one) + Len(tail) /\ 1 <= Len(one)
        BY <3>1, <3>4
      <4>2. all[1] = one[1]
        BY <3>3, <4>1
      <4>3. all # <<>>
        BY <3>4
      <4> QED
        BY <3>1, <3>3, <4>2, <4>3
    <3>6. /\ Tail(all) \in Seq(Nat \ {0}) /\ Len(Tail(all)) = Len(all) - 1
          /\ \A i \in 1 .. Len(Tail(all)) : Tail(all)[i] = all[i + 1]
      BY <3>3, <3>5, HeadTailProperties
    <3>7. ASSUME NEW i \in 1 .. Len(tail) PROVE Tail(all)[i] = tail[i]
      <4>1. /\ i + 1 \in 1 .. Len(one) + Len(tail) /\ ~ (i + 1 <= Len(one))
            /\ (i + 1) - Len(one) = i /\ i \in 1 .. Len(Tail(all))
        BY <3>1, <3>4, <3>6
      <4> QED
        BY <3>3, <3>6, <4>1
    <3>8. Len(Tail(all)) = Len(tail)
      BY <3>4, <3>6
    <3>9. Tail(all) = tail
      BY <3>2, <3>6, <3>7, <3>8, SeqEqual
    <3> QED
      BY <3>3, <3>5, <3>9 DEF all, one, Texts
  <2> HIDE DEF s
  <2>3. Total(s) = (h - n) + Total(tail)
    BY <2>2, TotalOfLines
  <2>4. Total(rest[t]) = n + Total(s)
    BY <1>1, <1>3, <2>1, <2>3 DEF n
  <2> QED
    BY <1>1, <1>5, <1>7, <2>4 DEF n
<1> QED
  BY <1>6, <1>7

(***************************************************************************)
(* Of an advertisement that is being copied, what is in the buffer and     *)
(* what is unread make the whole; and no other reply is taken for one.     *)
(***************************************************************************)
Whole(t) == MessageLength + Total(text[t])

Looking == {"status", "test", "open", "create"}

AdSoFar(t) ==
  /\ pc[t] \in {"gone", "command", "find"} \union Looking =>
       text[t] = Absent
  /\ pc[t] \in Looking => len[t] = MessageLength
  /\ pc[t] = "cat" =>
       text[t] # Absent /\ len[t] + Total(rest[t]) = Whole(t)
  /\ pc[t] = "loop" /\ text[t] # Absent =>
       len[t] = IF Whole(t) < SendBufferSize THEN Whole(t)
                                             ELSE SendBufferSize - 1

\* A thread is not concerned in what changes none of its variables.
LEMMA OthersKept ==
  ASSUME NEW t, AdSoFar(t),
         pc'[t] = pc[t] /\ len'[t] = len[t],
         rest'[t] = rest[t] /\ text'[t] = text[t]
  PROVE  AdSoFar(t)'
BY DEF AdSoFar, Whole, Looking

LEMMA TalkKept ==
  ASSUME Fits, NEW t \in Threads, AdSoFar(t), Talk(t)
  PROVE  AdSoFar(t)'
<1> USE DEF Fits, TypeOK, Goto, AdSoFar, Looking
<1>1. CASE Connect(t)
  BY <1>1 DEF Connect
<1>2. ASSUME NEW from, Leave(t, from) PROVE AdSoFar(t)'
  BY <1>2 DEF Leave
<1>3. CASE Message(t)
  BY <1>3 DEF Message
<1>4. CASE Answers(t)
  BY <1>4 DEF Answers
<1> QED
  BY <1>1, <1>2, <1>3, <1>4
     DEF Talk, HangUp, Goodbye, Copy, _myinfo, _who, _rand

LEMMA AdKept ==
  ASSUME Fits, NEW t \in Threads, AdSoFar(t), AdStep(t)
  PROVE  AdSoFar(t)'
<1> USE DEF Goto, Looking
<1>1. CASE Choose(t)
  BY <1>1 DEF Choose, AdSoFar, Fits, TypeOK
<1>2. CASE Find(t)
  <2>1. len[t] = 0 /\ text[t] = Absent
    BY <1>2 DEF Find, Fits, AdSoFar
  <2>2. len' = [len EXCEPT ![t] = len[t] + MessageLength]
    BY <1>2 DEF Find, Extend, Write
  <2>3. len'[t] = MessageLength
    BY <2>1, <2>2, Numbers DEF Fits, TypeOK
  <2>4. pc'[t] = "status" /\ text' = text
    BY <1>2 DEF Find, Fits, TypeOK
  <2> QED
    BY <2>1, <2>3, <2>4 DEF AdSoFar
<1>3. CASE Status(t) \/ NoFile(t) \/ Test(t)
  <2>1. /\ pc[t] \in {"status", "test"}
        /\ pc'[t] \in {"test", "open", "create", "loop"}
    BY <1>3 DEF Status, NoFile, Test, Fits, TypeOK
  <2>2. UNCHANGED <<len, rest, text>>
    BY <1>3 DEF Status, NoFile, Test
  <2> QED
    BY <2>1, <2>2 DEF AdSoFar
<1>4. CASE Open(t) \/ Create(t)
  <2>1. PICK ad \in Texts, from \in {"open", "create"} : Cat(t, from, ad)
    <3>1. CASE Open(t)
      <4>1. dir[name[t]] \in Texts
        BY <3>1 DEF Open, Cat, Present, Locked, Fits, TypeOK
      <4> QED
        BY <3>1, <4>1 DEF Open
    <3>2. CASE Create(t)
      BY <3>2, Numbers DEF Create
    <3> QED
      BY <1>4, <3>1, <3>2
  <2>2. /\ rest' = [rest EXCEPT ![t] = ad] /\ text' = [text EXCEPT ![t] = ad]
        /\ pc' = [pc EXCEPT ![t] = "cat"] /\ pc[t] = from /\ len' = len
    BY <2>1 DEF Cat
  <2>3. rest'[t] = ad /\ text'[t] = ad /\ pc'[t] = "cat"
    BY <2>2 DEF Fits, TypeOK
  <2>4. len'[t] = MessageLength
    BY <2>2 DEF AdSoFar
  <2>5. ad # Absent
    BY ReplyAssumption
  <2> QED
    BY <2>3, <2>4, <2>5 DEF AdSoFar, Whole
<1>5. CASE CatLine(t)
  <2> DEFINE n == Taken(t)
             un == Unread(t, n)
  <2>1. n \in Nat /\ Total(rest[t]) = n + Total(un)
    BY <1>5, TotalOfUnread DEF CatLine
  <2>2. un \in Texts
    BY <1>5, FgetsFits DEF CatLine, Fits
  <2>3. Total(un) \in Nat
    BY <2>2, TotalTyped
  <2>4. /\ pc[t] = "cat" /\ pc' = pc /\ text' = text
        /\ len' = [len EXCEPT ![t] = len[t] + n]
        /\ rest' = [rest EXCEPT ![t] = un]
    BY <1>5 DEF CatLine, Extend, Write
  <2> HIDE DEF n, un
  <2>5. len'[t] = len[t] + n /\ rest'[t] = un /\ len[t] \in Nat
    BY <2>4 DEF Fits, TypeOK
  <2>6. text[t] # Absent /\ len[t] + Total(rest[t]) = Whole(t)
    BY <2>4 DEF AdSoFar
  <2>7. len'[t] + Total(rest'[t]) = Whole(t)
    BY <2>1, <2>3, <2>5, <2>6
  <2> QED
    BY <2>4, <2>6, <2>7 DEF AdSoFar, Whole
<1>6. CASE CatEnds(t)
  <2>1. /\ pc[t] = "cat" /\ pc'[t] = "loop" /\ len' = len /\ text' = text
        /\ rest[t] = <<>> \/ Full(t)
    BY <1>6 DEF CatEnds, Fits, TypeOK
  <2>2. /\ rest[t] \in Texts /\ len[t] \in Nat /\ len[t] < SendBufferSize
        /\ SendBufferSize \in Nat
    BY Numbers DEF Fits, TypeOK
  <2>3. text[t] # Absent /\ len[t] + Total(rest[t]) = Whole(t)
    BY <2>1 DEF AdSoFar
  <2>4. len[t] = IF Whole(t) < SendBufferSize THEN Whole(t)
                                              ELSE SendBufferSize - 1
    <3>1. CASE rest[t] = <<>>
      <4>1. Total(rest[t]) = 0
        BY <3>1, TotalEmpty
      <4> QED
        BY <2>2, <2>3, <4>1
    <3>2. CASE rest[t] # <<>>
      <4>1. Total(rest[t]) \in Nat /\ Total(rest[t]) >= 1
        <5> DEFINE h == Head(rest[t])  others == Total(Tail(rest[t]))
        <5>1. /\ h \in Nat \ {0} /\ others \in Nat
              /\ Total(rest[t]) = h + others
          BY <2>2, <3>2, TotalOfLines
        <5> HIDE DEF h, others
        <5> QED
          BY <5>1
      <4>2. SendBufferSize - len[t] <= 1
        BY <2>1, <3>2 DEF Full, Room
      <4> QED
        BY <2>2, <2>3, <4>1, <4>2
    <3> QED
      BY <3>1, <3>2
  <2> QED
    BY <2>1, <2>3, <2>4 DEF AdSoFar, Whole
<1>7. ASSUME NEW from, Die(t, from) PROVE AdSoFar(t)'
  BY <1>7 DEF Die, AdSoFar, Fits, TypeOK
<1> QED
  BY <1>1, <1>2, <1>3, <1>4, <1>5, <1>6, <1>7
     DEF AdStep, ChooseFails, FindFails, OpenFails

LEMMA OneAtATime ==
  ASSUME Fits, NEW t \in Threads, Talk(t) \/ AdStep(t),
         NEW u \in Threads, u # t
  PROVE  /\ pc'[u] = pc[u] /\ len'[u] = len[u]
         /\ rest'[u] = rest[u] /\ text'[u] = text[u]
<1> USE DEF Fits, TypeOK, Goto, Write, Extend
<1>1. CASE Talk(t)
  BY <1>1 DEF Talk, Connect, HangUp, Goodbye, Leave, Message, Copy, _myinfo,
        _who, _rand, Answers
<1>2. CASE AdStep(t)
  BY <1>2 DEF AdStep, Choose, Find, Status, NoFile, Test, Open, Create, Cat,
        CatLine, CatEnds, ChooseFails, FindFails, OpenFails, Die
<1> QED
  BY <1>1, <1>2

(***************************************************************************)
(* An advertisement arrives whole, or fills the buffer to its last byte    *)
(* (File.c:190), whatever its lines and whatever others do meanwhile.      *)
(***************************************************************************)
THEOREM AdsAreWhole == Spec => []AdIsWhole
<1> DEFINE SoFar == \A t \in Threads : AdSoFar(t)
<1>1. Init => SoFar
  BY DEF Init, AdSoFar, Looking
<1>2. Fits /\ SoFar /\ [Next]_vars => SoFar'
  <2> SUFFICES ASSUME Fits, SoFar, [Next]_vars, NEW u \in Threads
               PROVE  AdSoFar(u)'
    OBVIOUS
  <2>1. AdSoFar(u)
    OBVIOUS
  <2>2. ASSUME NEW t \in Threads, Talk(t) \/ AdStep(t) PROVE AdSoFar(u)'
    <3>1. CASE u = t
      BY <2>1, <2>2, <3>1, TalkKept, AdKept
    <3>2. CASE u # t
      BY <2>1, <2>2, <3>2, OneAtATime, OthersKept
    <3> QED
      BY <3>1, <3>2
  <2>3. ASSUME UNCHANGED threadVars PROVE AdSoFar(u)'
    BY <2>1, <2>3, OthersKept DEF threadVars
  <2> QED
    BY <2>2, <2>3 DEF Next, Edit, vars
<1>3. SoFar => AdIsWhole
  BY DEF AdSoFar, Whole, AdIsWhole
<1> QED
  BY <1>1, <1>2, <1>3, FitsHolds, PTL DEF Spec

=============================================================================
