--------------------------- MODULE RegistryProofs ---------------------------
(***************************************************************************)
(* The registered file over the lives of server processes, for any number  *)
(* of processes and users and whatever ids, profiles and addresses are     *)
(* printed.  What the text of a save says is taken from the theorems of    *)
(* RegisteredFileProofs.                                                   *)
(***************************************************************************)
EXTENDS Registry, RegisteredFileProofs, TLAPS

USE DEF history

\* No two processes serve at once, and only one that serves saves.
Serving == {p \in Starters : life[p] = "serving"}

SaverServes ==
  /\ life \in [Starters -> L!Stages]
  /\ saving \in [Starters -> BOOLEAN]
  /\ \A p, q \in Serving : p = q
  /\ \A p \in Starters : saving[p] => life[p] = "serving"

\* The steps of the threads of a process that serves.
LEMMA ServingStays ==
  ASSUME SaverServes, NEW p \in Starters, ServingStep(p)
  PROVE  SaverServes'
<1> USE DEF SaverServes, Serving, L!Stages
<1>1. ASSUME NEW u \in Users, Randomize(p, u) PROVE SaverServes'
  BY <1>1 DEF Randomize, SetRecord
<1>2. ASSUME NEW u \in Users, NEW a \in Addrs, Login(p, u, a)
      PROVE  SaverServes'
  BY <1>2 DEF Login
<1>3. ASSUME NEW u \in Users, NEW a \in Addrs, Register(p, u, a)
      PROVE  SaverServes'
  BY <1>3 DEF Register, SetRecord
<1>4. CASE BeginSave(p)
  BY <1>4 DEF BeginSave
<1>5. CASE Save(p)
  BY <1>5 DEF Save
<1> QED
  BY <1>1, <1>2, <1>3, <1>4, <1>5 DEF ServingStep

\* The steps from one stage of a process to the next.
LEMMA StageStays ==
  ASSUME SaverServes, NEW p \in Starters, LifeStep(p)
  PROVE  SaverServes'
<1> USE DEF SaverServes, Serving, L!Stages, L!Goto, local, registryVars
<1>1. CASE Begin(p)
  BY <1>1 DEF Begin, L!Begin
<1>2. CASE FileStatus(p)
  BY <1>2 DEF FileStatus
<1>3. CASE CreateFile(p)
  BY <1>3 DEF CreateFile, L!Load
<1>4. CASE OpenFile(p)
  BY <1>4 DEF OpenFile, L!Load
<1>5. CASE StartServer(p)
  BY <1>5 DEF StartServer, L!Serve
<1>6. ASSUME L!End(p), Forget(p) PROVE SaverServes'
  BY <1>6 DEF L!End, Forget
<1> QED
  BY <1>1, <1>2, <1>3, <1>4, <1>5, <1>6 DEF LifeStep, Exit, Crash

LEMMA SaverServesHolds == Spec => []SaverServes
<1>1. Init => SaverServes
  BY DEF Init, L!Init, SaverServes, Serving, L!Stages
<1>2. SaverServes /\ [Next]_vars => SaverServes'
  <2>1. SaverServes /\ Next => SaverServes'
    BY ServingStays, StageStays DEF Next
  <2>2. SaverServes /\ UNCHANGED vars => SaverServes'
    BY DEF SaverServes, Serving, vars, registryVars, local
  <2> QED
    BY <2>1, <2>2
<1> QED
  BY <1>1, <1>2, PTL DEF Spec

(***************************************************************************)
(* Two processes never write to the registered file at the same time       *)
(* (Server.c:116 before Connection.c:126): the port is the lock.           *)
(***************************************************************************)
THEOREM SavesExclude == Spec => []OneSaver
<1>1. SaverServes => OneSaver
  BY DEF SaverServes, Serving, OneSaver
<1> QED
  BY <1>1, SaverServesHolds, PTL

(***************************************************************************)
(* Registry adds data to Lives and takes no freedom that Lives lacks, so   *)
(* it composes with whatever implements Lives.                             *)
(***************************************************************************)
THEOREM RegistryImplementsLives == Spec => L!Spec
<1>1. Init => L!Init
  BY DEF Init
<1>2. ASSUME NEW p \in Starters, LifeStep(p) PROVE L!Next \/ UNCHANGED life
  BY <1>2 DEF LifeStep, Begin, FileStatus, CreateFile, OpenFile, StartServer,
        Exit, Crash, L!Next
<1>3. ASSUME NEW p \in Starters, ServingStep(p) PROVE UNCHANGED life
  BY <1>3 DEF ServingStep, Randomize, Login, Register, SetRecord, BeginSave,
        Save
<1>4. [Next]_vars => [L!Next]_life
  BY <1>2, <1>3 DEF Next, vars
<1> QED
  BY <1>1, <1>4, PTL DEF Spec, L!Spec

(***************************************************************************)
(* The types of the variables.  A process that has looked at the file, or  *)
(* has opened it, has a file: nothing removes it.                          *)
(***************************************************************************)
Opened(p) == tested[p] = "present" \/ life[p] \in {"bind", "serving"}

FileOpened == \A p \in Starters : Opened(p) => file # NoFile

Typed == TypeOK /\ FileOpened /\ SaverServes

LEMMA ProfileTyped ==
  ASSUME NEW pr \in Profiles, NEW a \in Addrs
  PROVE  /\ pr.age \in Text /\ pr.gpa \in Text /\ a \in Text
         /\ <<"0">> \in Text
<1>1. pr.age \in Seq(Digits) /\ Digits \subseteq Chars
  BY RegisteredFileAssumption DEF Ints
<1>2. a \in Seq(Chars \ {TAB}) /\ Chars \ {TAB} \subseteq Chars
  BY RegisteredFileAssumption DEF Words
<1>3. pr.age \in Text
  BY <1>1, SeqMonotonic DEF Text
<1>4. a \in Text
  BY <1>2, SeqMonotonic DEF Text
<1>5. pr.gpa \in Text
  BY RegisteredFileAssumption DEF Floats
<1>6. <<"0">> \in Text
  BY RegisteredFileAssumption DEF Text, Digits
<1> QED
  BY <1>3, <1>4, <1>5, <1>6

\* The record that Register and Randomize store.
LEMMA SetRecordTyped ==
  ASSUME Typed, NEW p \in Starters, NEW u \in Users, NEW user \in UserRecord,
         SetRecord(p, u, user)
  PROVE  TypeOK' /\ FileOpened'
<1>1. memory' \in [Starters -> [Users -> UserRecord]]
  BY DEF Typed, TypeOK, SetRecord
<1>2. dirty' \in [Starters -> BOOLEAN]
  BY DEF Typed, TypeOK, SetRecord
<1>3. acked' \subseteq Users /\ unsaved' \subseteq Users
  BY DEF Typed, TypeOK, SetRecord
<1>4. UNCHANGED <<life, file, tested, saving, spoilt>>
  BY DEF SetRecord
<1> QED
  BY <1>1, <1>2, <1>3, <1>4 DEF Typed, TypeOK, FileOpened, Opened

LEMMA ServingTyped ==
  ASSUME Typed, NEW p \in Starters, ServingStep(p)
  PROVE  TypeOK' /\ FileOpened'
<1> USE DEF Typed
<1>1. ASSUME NEW u \in Users, Randomize(p, u) PROVE TypeOK' /\ FileOpened'
  <2>1. PICK pr \in Profiles :
          SetRecord(p, u, [memory[p][u] EXCEPT !.age = pr.age,
                                                !.gpa = pr.gpa])
    BY <1>1 DEF Randomize
  <2>2. memory[p][u] \in UserRecord
    BY DEF TypeOK
  <2>3. pr.age \in Text /\ pr.gpa \in Text
    <3>1. pr.age \in Seq(Digits) /\ Digits \subseteq Chars
      BY RegisteredFileAssumption DEF Ints
    <3>2. pr.gpa \in Text
      BY RegisteredFileAssumption DEF Floats
    <3> QED
      BY <3>1, <3>2, SeqMonotonic DEF Text
  <2> DEFINE user == [memory[p][u] EXCEPT !.age = pr.age, !.gpa = pr.gpa]
  <2>4. user \in UserRecord
    BY <2>2, <2>3 DEF UserRecord
  <2>5. SetRecord(p, u, user)
    BY <2>1
  <2> HIDE DEF user
  <2> QED
    BY <2>4, <2>5, SetRecordTyped
<1>2. ASSUME NEW u \in Users, NEW a \in Addrs, Login(p, u, a)
      PROVE  TypeOK' /\ FileOpened'
  <2>1. a \in Text
    <3>1. a \in Seq(Chars \ {TAB}) /\ Chars \ {TAB} \subseteq Chars
      BY RegisteredFileAssumption DEF Words
    <3> QED
      BY <3>1, SeqMonotonic DEF Text
  <2>2. memory \in [Starters -> [Users -> UserRecord]]
    BY DEF TypeOK
  <2>3. memory' = [memory EXCEPT ![p][u].ip = a]
    BY <1>2 DEF Login
  <2> DEFINE user == [memory[p][u] EXCEPT !.ip = a]
  <2>4. memory' = [memory EXCEPT ![p][u] = user]
    BY <2>3
  <2>5. user \in UserRecord
    BY <2>1, <2>2 DEF UserRecord
  <2> HIDE DEF user
  <2>6. memory' \in [Starters -> [Users -> UserRecord]]
    BY <2>2, <2>4, <2>5
  <2> QED
    BY <1>2, <2>6 DEF Login, TypeOK, FileOpened, Opened
<1>3. ASSUME NEW u \in Users, NEW a \in Addrs, Register(p, u, a)
      PROVE  TypeOK' /\ FileOpened'
  <2>1. PICK pr \in Profiles :
          SetRecord(p, u, [registered |-> TRUE, age |-> pr.age,
                           gpa |-> pr.gpa, ip |-> a,
                           lastConnection |-> <<"0">>])
    BY <1>3 DEF Register
  <2> DEFINE user == [registered |-> TRUE, age |-> pr.age, gpa |-> pr.gpa,
                      ip |-> a, lastConnection |-> <<"0">>]
  <2>2. user \in UserRecord
    BY ProfileTyped DEF UserRecord
  <2>3. SetRecord(p, u, user)
    BY <2>1
  <2> HIDE DEF user
  <2> QED
    BY <2>2, <2>3, SetRecordTyped
<1>4. CASE BeginSave(p)
  BY <1>4 DEF BeginSave, TypeOK, FileOpened, Opened
<1>5. CASE Save(p)
  <2>1. file \in Text
    <3>1. life[p] = "serving"
      BY <1>5 DEF Save, SaverServes
    <3> QED
      BY <3>1 DEF TypeOK, FileOpened, Opened
  <2>2. TextOf(memory[p]) \in Text
    <3>1. memory[p] \in [Users -> UserRecord]
      BY DEF TypeOK
    <3> QED
      BY <3>1, TextOfTyped
  <2>3. file' \in Text
    BY <1>5, <2>1, <2>2, OverwriteTyped DEF Save
  <2>4. file' # NoFile
    BY <2>3, RegistryAssumption
  <2>5. spoilt' \in BOOLEAN
    BY <1>5 DEF Save, Spoils, TypeOK
  <2>6. saving' \in [Starters -> BOOLEAN]
    BY <1>5 DEF Save, TypeOK
  <2>7. UNCHANGED <<life, tested, memory, dirty, acked>>
    BY <1>5 DEF Save
  <2>8. unsaved' \subseteq Users
    BY <1>5 DEF Save, TypeOK
  <2> QED
    BY <2>3, <2>4, <2>5, <2>6, <2>7, <2>8 DEF TypeOK, FileOpened, Opened
<1> QED
  BY <1>1, <1>2, <1>3, <1>4, <1>5 DEF ServingStep

LEMMA NoUsersTyped == NoUsers \in [Users -> UserRecord]
  BY UnregisteredTyped DEF NoUsers

LEMMA LifeTyped ==
  ASSUME Typed, NEW p \in Starters, LifeStep(p)
  PROVE  TypeOK' /\ FileOpened'
<1> USE DEF Typed, L!Stages, L!Goto
<1>1. CASE Begin(p)
  BY <1>1 DEF Begin, L!Begin, registryVars, local, TypeOK, FileOpened, Opened
<1>2. CASE FileStatus(p)
  BY <1>2 DEF FileStatus, TypeOK, FileOpened, Opened
<1>3. CASE CreateFile(p)
  <2>1. file' \in Text /\ file' # NoFile
    <3>1. <<>> \in Text
      BY DEF Text
    <3> QED
      BY <1>3, <3>1, RegistryAssumption DEF CreateFile
  <2>2. spoilt' \in BOOLEAN
    BY <1>3 DEF CreateFile, Spoils, Truncates, TypeOK
  <2>3. life' \in [Starters -> L!Stages]
    BY <1>3 DEF CreateFile, L!Load, TypeOK
  <2>4. UNCHANGED <<tested, memory, dirty, saving, acked, unsaved>>
    BY <1>3 DEF CreateFile, local
  <2> QED
    BY <2>1, <2>2, <2>3, <2>4 DEF TypeOK, FileOpened
<1>4. CASE OpenFile(p)
  <2>1. file # NoFile /\ file \in Text
    BY <1>4 DEF OpenFile, TypeOK, FileOpened, Opened
  <2>2. UsersOf(file) \in [Users -> UserRecord]
    BY <2>1, EveryTextMakesUsers
  <2>3. memory' \in [Starters -> [Users -> UserRecord]]
    BY <1>4, <2>2 DEF OpenFile, TypeOK
  <2>4. life' \in [Starters -> L!Stages]
    BY <1>4 DEF OpenFile, L!Load, TypeOK
  <2>5. UNCHANGED <<file, tested, dirty, saving, acked, unsaved, spoilt>>
    BY <1>4 DEF OpenFile
  <2> QED
    BY <2>1, <2>3, <2>4, <2>5 DEF TypeOK, FileOpened
<1>5. CASE StartServer(p)
  <2>1. spoilt' \in BOOLEAN
    BY <1>5 DEF StartServer, Spoils, ServesOther, TypeOK
  <2>2. life' \in [Starters -> L!Stages] /\ life[p] = "bind"
    BY <1>5 DEF StartServer, L!Serve, TypeOK
  <2>3. file # NoFile
    BY <2>2 DEF FileOpened, Opened
  <2>4. UNCHANGED <<file, tested, memory, dirty, saving, acked, unsaved>>
    BY <1>5 DEF StartServer, local
  <2> QED
    BY <2>1, <2>2, <2>3, <2>4 DEF TypeOK, FileOpened
<1>6. ASSUME L!End(p), Forget(p), UNCHANGED <<acked, unsaved>>,
             UNCHANGED <<file, spoilt>> \/
               (file' \in Text /\ spoilt' \in BOOLEAN)
      PROVE  TypeOK' /\ FileOpened'
  <2>1. life' = [life EXCEPT ![p] = "gone"]
    BY <1>6 DEF L!End
  <2>2. life' \in [Starters -> L!Stages]
    BY <2>1 DEF TypeOK
  <2>3. memory' \in [Starters -> [Users -> UserRecord]]
    BY <1>6, NoUsersTyped DEF Forget, TypeOK
  <2>4. /\ tested' \in [Starters -> {"none", "absent", "present"}]
        /\ dirty' \in [Starters -> BOOLEAN]
        /\ saving' \in [Starters -> BOOLEAN]
    BY <1>6 DEF Forget, TypeOK
  <2>5. (file' = NoFile \/ file' \in Text) /\ spoilt' \in BOOLEAN
    BY <1>6 DEF TypeOK
  <2>6. FileOpened'
    <3>1. file # NoFile => file' # NoFile
      BY <1>6, RegistryAssumption
    <3>2. ASSUME NEW q \in Starters, Opened(q)' PROVE Opened(q)
      BY <1>6, <2>1, <3>2 DEF Opened, Forget, TypeOK
    <3> QED
      BY <3>1, <3>2 DEF FileOpened
  <2> QED
    BY <1>6, <2>2, <2>3, <2>4, <2>5, <2>6 DEF TypeOK
<1>7. CASE Exit(p)
  <2>1. L!End(p) /\ Forget(p) /\ UNCHANGED <<acked, unsaved>>
    BY <1>7 DEF Exit
  <2>2. CASE ~saving[p]
    <3>1. UNCHANGED <<file, spoilt>>
      BY <1>7, <2>2 DEF Exit
    <3> QED
      BY <1>6, <2>1, <3>1
  <2>3. CASE saving[p]
    <3> DEFINE text == TextOf(memory[p])
    <3>1. PICK n \in 0 .. Len(text) :
            /\ file' = Overwrite(file, SubSeq(text, 1, n))
            /\ Spoils(Cuts(SubSeq(text, 1, n)))
      BY <1>7, <2>3 DEF Exit
    <3>2. file \in Text
      BY <2>3 DEF TypeOK, SaverServes, FileOpened, Opened
    <3>3. text \in Text
      <4>1. memory[p] \in [Users -> UserRecord]
        BY DEF TypeOK
      <4> QED
        BY <4>1, TextOfTyped
    <3> HIDE DEF text
    <3>4. SubSeq(text, 1, n) \in Text
      BY <3>3, PrefixTyped
    <3>5. file' \in Text
      BY <3>1, <3>2, <3>4, OverwriteTyped
    <3>6. spoilt' \in BOOLEAN
      BY <3>1 DEF Spoils, Cuts, TypeOK
    <3> QED
      BY <1>6, <2>1, <3>5, <3>6
  <2> QED
    BY <2>2, <2>3
<1>8. CASE Crash(p)
  <2>1. /\ L!End(p) /\ Forget(p)
        /\ UNCHANGED <<file, acked, unsaved, spoilt>>
    BY <1>8 DEF Crash
  <2> QED
    BY <1>6, <2>1
<1> QED
  BY <1>1, <1>2, <1>3, <1>4, <1>5, <1>7, <1>8 DEF LifeStep

LEMMA TypedHolds == Spec => []Typed
<1>1. Init => Typed
  <2> SUFFICES ASSUME Init PROVE Typed
    OBVIOUS
  <2>1. SaverServes /\ FileOpened
    BY DEF Init, L!Init, SaverServes, Serving, L!Stages, FileOpened, Opened
  <2>2. (file = NoFile \/ file \in Text) /\ acked \subseteq Users
    <3>1. CASE file = NoFile /\ acked = {}
      BY <3>1
    <3>2. CASE \E users \in [Users -> Records] :
                 /\ file = TextOf(users)
                 /\ acked = {u \in Users : users[u].registered}
      <4>1. PICK users \in [Users -> Records] :
              /\ file = TextOf(users)
              /\ acked = {u \in Users : users[u].registered}
        BY <3>2
      <4>2. users \in [Users -> UserRecord]
        BY RecordTyped
      <4> QED
        BY <4>1, <4>2, TextOfTyped
    <3> QED
      BY <3>1, <3>2 DEF Init
  <2>3. memory \in [Starters -> [Users -> UserRecord]]
    BY NoUsersTyped DEF Init
  <2>4. /\ life \in [Starters -> L!Stages]
        /\ tested \in [Starters -> {"none", "absent", "present"}]
        /\ dirty \in [Starters -> BOOLEAN]
        /\ saving \in [Starters -> BOOLEAN]
        /\ spoilt \in BOOLEAN /\ unsaved \subseteq Users
    BY DEF Init, L!Init, L!Stages
  <2> QED
    BY <2>1, <2>2, <2>3, <2>4 DEF Typed, TypeOK
<1>2. Typed /\ [Next]_vars => Typed'
  <2> SUFFICES ASSUME Typed, [Next]_vars PROVE Typed'
    OBVIOUS
  <2>1. CASE Next
    <3>1. PICK p \in Starters : LifeStep(p) \/ ServingStep(p)
      BY <2>1 DEF Next
    <3>2. SaverServes'
      BY <3>1, ServingStays, StageStays DEF Typed
    <3>3. TypeOK' /\ FileOpened'
      BY <3>1, ServingTyped, LifeTyped
    <3> QED
      BY <3>2, <3>3 DEF Typed
  <2>2. CASE UNCHANGED vars
    BY <2>2 DEF Typed, TypeOK, FileOpened, Opened, SaverServes, Serving, vars,
          registryVars, local
  <2> QED
    BY <2>1, <2>2
<1> QED
  BY <1>1, <1>2, PTL DEF Spec

(***************************************************************************)
(* Whatever a cut save has left in the file and whatever a reader makes of *)
(* it, the variables keep their types.                                     *)
(***************************************************************************)
THEOREM TypeCorrect == Spec => []TypeOK
<1>1. Typed => TypeOK
  BY DEF Typed
<1> QED
  BY <1>1, TypedHolds, PTL

(***************************************************************************)
(* The file is what a save has left, and the server that serves has every  *)
(* user of it, with the same age and gpa when no save is due or under way. *)
(* Records have the form that the program prints.                          *)
(***************************************************************************)
InStep(users, saved) ==
  \A u \in Users :
    /\ saved[u].registered = users[u].registered
    /\ saved[u].age = users[u].age
    /\ saved[u].gpa = users[u].gpa

FileIsSave ==
  file = NoFile \/ \E users \in [Users -> Records] : SavedText(file, users)

HasFile(p) ==
  /\ memory[p] \in [Users -> Records]
  /\ RegisteredIn(file) \subseteq Registered(memory[p])
  /\ ~dirty[p] /\ ~saving[p] =>
       Readable(file) /\ InStep(memory[p], UsersOf(file))

FileInv ==
  ~spoilt => FileIsSave /\ \A p \in Serving : HasFile(p)

LEMMA SavedRegistered ==
  ASSUME NEW users \in [Users -> Records], NEW t, SavedText(t, users)
  PROVE  /\ Readable(t) /\ UsersOf(t) = users
         /\ RegisteredIn(t) = Registered(users)
<1>1. Readable(t) /\ UsersOf(t) = users
  BY SavedUsersAreRead
<1>2. t # NoFile
  BY SavedTextIs, RegistryAssumption
<1> QED
  BY <1>1, <1>2 DEF RegisteredIn, Registered

\* A record of the form that the program prints keeps it.
RecordOf(yes, age, gpa, ip, zero) ==
  [registered |-> yes, age |-> age, gpa |-> gpa, ip |-> ip,
   lastConnection |-> zero]

LEMMA RecordOfIsRecord ==
  ASSUME NEW pr \in Profiles, NEW a \in Addrs
  PROVE  RecordOf(TRUE, pr.age, pr.gpa, a, <<"0">>) \in Records
<1> DEFINE yes == TRUE
           zero == <<"0">>
           All == {RecordOf(yes, q.age, q.gpa, b, zero) :
                     q \in Profiles, b \in Addrs}
<1>1. All \subseteq Records
  BY DEF Records, RecordOf
<1> HIDE DEF yes, zero
<1>2. RecordOf(yes, pr.age, pr.gpa, a, zero) \in All
  BY DEF RecordOf
<1> HIDE DEF All
<1>3. RecordOf(yes, pr.age, pr.gpa, a, zero) \in Records
  BY <1>1, <1>2
<1> QED
  BY <1>3 DEF yes, zero

LEMMA OtherIP ==
  ASSUME NEW yes, NEW age, NEW gpa, NEW ip, NEW zero, NEW ip2
  PROVE  [RecordOf(yes, age, gpa, ip, zero) EXCEPT !.ip = ip2] =
           RecordOf(yes, age, gpa, ip2, zero)
BY DEF RecordOf

LEMMA OtherAge ==
  ASSUME NEW yes, NEW age, NEW gpa, NEW ip, NEW zero, NEW age2
  PROVE  [RecordOf(yes, age, gpa, ip, zero) EXCEPT !.age = age2] =
           RecordOf(yes, age2, gpa, ip, zero)
BY DEF RecordOf

LEMMA OtherGPA ==
  ASSUME NEW yes, NEW age, NEW gpa, NEW ip, NEW zero, NEW gpa2
  PROVE  [RecordOf(yes, age, gpa, ip, zero) EXCEPT !.gpa = gpa2] =
           RecordOf(yes, age, gpa2, ip, zero)
BY DEF RecordOf

LEMMA RecordKept ==
  ASSUME NEW user \in Records, user.registered,
         NEW pr \in Profiles, NEW a \in Addrs
  PROVE  /\ [user EXCEPT !.ip = a] \in Records
         /\ [user EXCEPT !.age = pr.age, !.gpa = pr.gpa] \in Records
<1> DEFINE yes == TRUE
           zero == <<"0">>
<1>1. user # Unregistered
  BY DEF Unregistered
<1>2. PICK pr2 \in Profiles, a2 \in Addrs :
        user = RecordOf(yes, pr2.age, pr2.gpa, a2, zero)
  BY <1>1 DEF Records, RecordOf
<1> DEFINE age == pr2.age   age2 == pr.age
           gpa == pr2.gpa   gpa2 == pr.gpa
<1>3. /\ RecordOf(yes, age, gpa, a, zero) \in Records
      /\ RecordOf(yes, age2, gpa2, a2, zero) \in Records
      /\ user = RecordOf(yes, age, gpa, a2, zero)
  BY <1>2, RecordOfIsRecord
<1> HIDE DEF yes, zero, age, age2, gpa, gpa2
<1>4. [RecordOf(yes, age, gpa, a2, zero) EXCEPT !.ip = a] \in Records
  <2>1. [RecordOf(yes, age, gpa, a2, zero) EXCEPT !.ip = a] =
          RecordOf(yes, age, gpa, a, zero)
    BY OtherIP
  <2> QED
    BY <1>3, <2>1
<1>5. [RecordOf(yes, age, gpa, a2, zero) EXCEPT !.age = age2,
                                                !.gpa = gpa2] \in Records
  <2> DEFINE r == RecordOf(yes, age, gpa, a2, zero)
             r2 == [r EXCEPT !.age = age2]
  <2>1. r2 = RecordOf(yes, age2, gpa, a2, zero)
    BY OtherAge
  <2>2. [r EXCEPT !.age = age2, !.gpa = gpa2] = [r2 EXCEPT !.gpa = gpa2]
    OBVIOUS
  <2> HIDE DEF r2
  <2>3. [r2 EXCEPT !.gpa = gpa2] = RecordOf(yes, age2, gpa2, a2, zero)
    BY <2>1, OtherGPA
  <2> QED
    BY <1>3, <2>2, <2>3
<1>6. /\ [user EXCEPT !.ip = a] \in Records
      /\ [user EXCEPT !.age = age2, !.gpa = gpa2] \in Records
  BY <1>3, <1>4, <1>5
<1> QED
  BY <1>6 DEF age2, gpa2


(***************************************************************************)
(* The steps of a process that serves.                                     *)
(***************************************************************************)
UsersStay ==
  file' # file /\ ~spoilt' => RegisteredIn(file) \subseteq RegisteredIn(file')

\* A record is stored: by Login, which leaves age and gpa, or by the others,
\* which raise the dirty flag.
LEMMA StoreKept ==
  ASSUME Typed, FileInv, NEW p \in Starters, life[p] = "serving",
         NEW u \in Users, NEW user, spoilt \/ user \in Records,
         user.registered,
         memory' = [memory EXCEPT ![p][u] = user],
         UNCHANGED <<life, file, saving, spoilt>>,
         \/ dirty'[p]
         \/ /\ dirty' = dirty /\ memory[p][u].registered
            /\ user.age = memory[p][u].age /\ user.gpa = memory[p][u].gpa
  PROVE  FileInv' /\ UsersStay
<1> SUFFICES ASSUME ~spoilt PROVE FileInv'
  BY DEF FileInv, UsersStay
<1>1. p \in Serving
  BY DEF Serving
<1>2. FileIsSave /\ HasFile(p)
  BY <1>1 DEF FileInv
<1>3. FileIsSave'
  BY <1>2 DEF FileIsSave
<1>4. ASSUME NEW q \in Serving' PROVE q = p
  BY <1>1 DEF Typed, SaverServes, Serving
<1> DEFINE m == memory[p]
           m2 == [memory[p] EXCEPT ![u] = user]
<1>5. memory'[p] = m2
  BY DEF Typed, TypeOK
<1>6. m \in [Users -> Records] /\ RegisteredIn(file) \subseteq Registered(m)
  BY <1>2 DEF HasFile
<1> HIDE DEF m
<1>7. m2 = [m EXCEPT ![u] = user]
  BY DEF m
<1> HIDE DEF m2
<1>8. m2 \in [Users -> Records]
  BY <1>6, <1>7
<1>9. Registered(m) \subseteq Registered(m2)
  BY <1>6, <1>7 DEF Registered
<1>10. ASSUME ~dirty'[p], ~saving'[p]
       PROVE  Readable(file) /\ InStep(m2, UsersOf(file))
  <2>1. /\ ~dirty[p] /\ ~saving[p] /\ m[u].registered
        /\ user.age = m[u].age /\ user.gpa = m[u].gpa
    BY <1>10 DEF m
  <2>2. Readable(file) /\ InStep(m, UsersOf(file))
    BY <1>2, <2>1 DEF HasFile, m
  <2>3. ASSUME NEW v \in Users
        PROVE  /\ m2[v].registered = m[v].registered
               /\ m2[v].age = m[v].age /\ m2[v].gpa = m[v].gpa
    <3>1. CASE v = u
      <4>1. m2[v] = user
        BY <1>6, <1>7, <3>1
      <4>2. user.registered = m[u].registered
        BY <1>6, <2>1 DEF Records, Unregistered
      <4> QED
        BY <2>1, <3>1, <4>1, <4>2
    <3>2. CASE v # u
      BY <1>6, <1>7, <3>2
    <3> QED
      BY <3>1, <3>2
  <2> QED
    BY <2>2, <2>3 DEF InStep
<1>11. HasFile(p)'
  BY <1>5, <1>6, <1>8, <1>9, <1>10 DEF HasFile
<1> QED
  BY <1>3, <1>4, <1>11 DEF FileInv

\* The save itself.
LEMMA SaveWrites ==
  ASSUME Typed, FileInv, NEW p \in Starters, Save(p), ~spoilt'
  PROVE  /\ life[p] = "serving" /\ ~spoilt
         /\ memory[p] \in [Users -> Records]
         /\ RegisteredIn(file) \subseteq Registered(memory[p])
         /\ SavedText(file', memory[p])
<1> DEFINE m == memory[p]
<1>1. ~spoilt /\ ~LeavesTail(TextOf(m))
  BY DEF Save, Spoils
<1>2. life[p] = "serving" /\ p \in Serving /\ file # NoFile
  BY DEF Save, Typed, SaverServes, Serving, FileOpened, Opened
<1>3. FileIsSave /\ HasFile(p)
  BY <1>1, <1>2 DEF FileInv
<1>4. m \in [Users -> Records] /\ RegisteredIn(file) \subseteq Registered(m)
  BY <1>3 DEF HasFile
<1>5. PICK old \in [Users -> Records] : SavedText(file, old)
  BY <1>2, <1>3 DEF FileIsSave
<1>6. file \in Text /\ TextOf(m) \in Text
  <2>1. SavedText(TextOf(m), m)
    BY DEF SavedText
  <2> HIDE DEF m
  <2> QED
    BY <1>4, <1>5, <2>1, SavedTextIs
<1>7. Len(file) <= Len(TextOf(m)) + 1
  <2>1. Len(file) \in Nat /\ Len(TextOf(m)) \in Nat
    BY <1>6 DEF Text
  <2>2. ~ (Len(file) > Len(TextOf(m)) + 1)
    BY <1>1 DEF LeavesTail
  <2> HIDE DEF m
  <2> QED
    BY <2>1, <2>2
<1>8. file' = Overwrite(file, TextOf(m))
  BY DEF Save
<1>9. SavedText(file', m)
  <2> HIDE DEF m
  <2> QED
    BY <1>4, <1>5, <1>7, <1>8, SaveOverSave
<1> QED
  BY <1>1, <1>2, <1>4, <1>9

LEMMA SaveKept ==
  ASSUME Typed, FileInv, NEW p \in Starters, Save(p)
  PROVE  FileInv' /\ UsersStay
<1> SUFFICES ASSUME ~spoilt' PROVE FileInv' /\ UsersStay
  BY DEF FileInv, UsersStay
<1> DEFINE m == memory[p]
<1>1. /\ life[p] = "serving" /\ m \in [Users -> Records]
      /\ RegisteredIn(file) \subseteq Registered(m) /\ SavedText(file', m)
  BY SaveWrites
<1>2. memory'[p] = m
  BY DEF Save
<1>3. InStep(m, m)
  BY DEF InStep
<1>4. \A q \in Serving' : q = p
  BY <1>1 DEF Save, Serving, Typed, SaverServes
<1> HIDE DEF m
<1>5. /\ Readable(file') /\ UsersOf(file') = m
      /\ RegisteredIn(file') = Registered(m)
  BY <1>1, SavedRegistered
<1>6. FileIsSave' /\ HasFile(p)'
  BY <1>1, <1>2, <1>3, <1>5 DEF FileIsSave, HasFile
<1> QED
  BY <1>1, <1>4, <1>5, <1>6 DEF FileInv, UsersStay

LEMMA ServingKept ==
  ASSUME Typed, FileInv, NEW p \in Starters, ServingStep(p)
  PROVE  FileInv' /\ UsersStay
<1>1. ASSUME NEW u \in Users, Randomize(p, u) PROVE FileInv' /\ UsersStay
  <2>1. PICK pr \in Profiles :
          SetRecord(p, u, [memory[p][u] EXCEPT !.age = pr.age,
                                                !.gpa = pr.gpa])
    BY <1>1 DEF Randomize
  <2> DEFINE was == memory[p][u]
             user == [was EXCEPT !.age = pr.age, !.gpa = pr.gpa]
  <2>2. was.registered /\ life[p] = "serving" /\ ~saving[p]
    BY <1>1, <2>1 DEF Randomize, SetRecord
  <2>3. was \in UserRecord
    BY DEF Typed, TypeOK
  <2>4. spoilt \/ was \in Records
    BY <2>2 DEF FileInv, HasFile, Serving
  <2>5. SetRecord(p, u, user)
    BY <2>1
  <2> HIDE DEF was
  <2>6. user.registered
    BY <2>2, <2>3 DEF UserRecord
  <2>7. spoilt \/ user \in Records
    <3>1. CASE spoilt
      BY <3>1
    <3>2. CASE was \in Records
      <4>1. PICK any \in Addrs : TRUE
        BY <2>2, <3>2 DEF Records, Unregistered
      <4> QED
        BY <2>2, <3>2, RecordKept
    <3> QED
      BY <2>4, <3>1, <3>2
  <2> HIDE DEF user
  <2>8. /\ memory' = [memory EXCEPT ![p][u] = user] /\ dirty'[p]
        /\ UNCHANGED <<life, file, saving, spoilt>>
    BY <2>5 DEF SetRecord, Typed, TypeOK
  <2> QED
    BY <2>2, <2>6, <2>7, <2>8, StoreKept
<1>2. ASSUME NEW u \in Users, NEW a \in Addrs, Login(p, u, a)
      PROVE  FileInv' /\ UsersStay
  <2> DEFINE was == memory[p][u]
             user == [was EXCEPT !.ip = a]
  <2>1. was.registered /\ life[p] = "serving"
    BY <1>2 DEF Login
  <2>2. was \in UserRecord
    BY DEF Typed, TypeOK
  <2>3. spoilt \/ was \in Records
    BY <2>1 DEF FileInv, HasFile, Serving
  <2>4. /\ memory' = [memory EXCEPT ![p][u] = user] /\ dirty' = dirty
        /\ UNCHANGED <<life, file, saving, spoilt>>
    BY <1>2 DEF Login
  <2> HIDE DEF was
  <2>5. user.registered /\ user.age = was.age /\ user.gpa = was.gpa
    BY <2>1, <2>2 DEF UserRecord
  <2>6. spoilt \/ user \in Records
    <3>1. CASE spoilt
      BY <3>1
    <3>2. CASE was \in Records
      <4>1. PICK any \in Profiles : TRUE
        BY <2>1, <3>2 DEF Records, Unregistered
      <4> QED
        BY <2>1, <3>2, RecordKept
    <3> QED
      BY <2>3, <3>1, <3>2
  <2> HIDE DEF user
  <2>7. /\ user.registered /\ memory[p][u].registered
        /\ user.age = memory[p][u].age /\ user.gpa = memory[p][u].gpa
    BY <2>1, <2>5 DEF was
  <2> QED
    BY <2>1, <2>4, <2>6, <2>7, StoreKept
<1>3. ASSUME NEW u \in Users, NEW a \in Addrs, Register(p, u, a)
      PROVE  FileInv' /\ UsersStay
  <2>1. PICK pr \in Profiles :
          SetRecord(p, u, [registered |-> TRUE, age |-> pr.age,
                           gpa |-> pr.gpa, ip |-> a,
                           lastConnection |-> <<"0">>])
    BY <1>3 DEF Register
  <2> DEFINE user == [registered |-> TRUE, age |-> pr.age, gpa |-> pr.gpa,
                      ip |-> a, lastConnection |-> <<"0">>]
  <2>2. user \in Records
    BY RecordOfIsRecord DEF RecordOf
  <2>3. user.registered
    OBVIOUS
  <2>4. SetRecord(p, u, user)
    BY <2>1
  <2> HIDE DEF user
  <2>5. /\ memory' = [memory EXCEPT ![p][u] = user] /\ dirty'[p]
        /\ UNCHANGED <<life, file, saving, spoilt>>
        /\ life[p] = "serving"
    BY <2>4 DEF SetRecord, Typed, TypeOK
  <2> QED
    BY <2>2, <2>3, <2>5, StoreKept
<1>4. CASE BeginSave(p)
  <2>1. /\ UNCHANGED <<life, file, memory, spoilt>>
        /\ saving'[p] /\ p \in Serving
    BY <1>4 DEF BeginSave, Typed, TypeOK, Serving
  <2>2. UsersStay
    BY <2>1 DEF UsersStay
  <2>3. ASSUME ~spoilt' PROVE FileIsSave' /\ HasFile(p)'
    <3>1. FileIsSave /\ HasFile(p)
      BY <2>1, <2>3 DEF FileInv
    <3> QED
      BY <2>1, <3>1 DEF FileIsSave, HasFile
  <2>4. \A q \in Serving' : q = p
    BY <2>1 DEF Serving, Typed, SaverServes
  <2> QED
    BY <2>2, <2>3, <2>4 DEF FileInv
<1>5. CASE Save(p)
  BY <1>5, SaveKept
<1> QED
  BY <1>1, <1>2, <1>3, <1>4, <1>5 DEF ServingStep


(***************************************************************************)
(* The steps from one stage of a process to the next.                      *)
(***************************************************************************)

\* Those that leave the file as it is, and nobody starts to serve.
LEMMA NobodyStarts ==
  ASSUME FileInv, UNCHANGED file, ~spoilt' => ~spoilt,
         \A q \in Serving' :
           /\ q \in Serving
           /\ memory'[q] = memory[q]
           /\ dirty'[q] = dirty[q] /\ saving'[q] = saving[q]
  PROVE  FileInv' /\ UsersStay
<1>1. UsersStay
  BY DEF UsersStay
<1>2. ASSUME ~spoilt' PROVE FileIsSave' /\ \A q \in Serving' : HasFile(q)'
  <2>1. FileIsSave'
    BY <1>2 DEF FileInv, FileIsSave
  <2>2. ASSUME NEW q \in Serving' PROVE HasFile(q)'
    <3>1. HasFile(q)
      BY <1>2, <2>2 DEF FileInv
    <3>2. /\ memory'[q] = memory[q] /\ file' = file
          /\ dirty'[q] = dirty[q] /\ saving'[q] = saving[q]
      BY <2>2
    <3> QED
      BY <3>1, <3>2 DEF HasFile
  <2> QED
    BY <2>1, <2>2
<1> QED
  BY <1>1, <1>2 DEF FileInv

LEMMA CreateKept ==
  ASSUME Typed, FileInv, NEW p \in Starters, CreateFile(p)
  PROVE  FileInv' /\ UsersStay
<1> SUFFICES ASSUME ~spoilt' PROVE FileInv' /\ UsersStay
  BY DEF FileInv, UsersStay
<1>1. file \in {NoFile, <<>>} /\ ~spoilt /\ file' = <<>>
  BY DEF CreateFile, Spoils, Truncates
<1>2. life' = [life EXCEPT ![p] = "bind"]
  BY DEF CreateFile, L!Load, L!Goto
<1>3. UNCHANGED <<memory, dirty, saving>>
  BY DEF CreateFile, local
<1>4. \A q \in Serving' : q \in Serving
  BY <1>2 DEF Serving, Typed, TypeOK
<1>5. CASE file = <<>>
  <2>1. UNCHANGED file
    BY <1>1, <1>5
  <2> QED
    BY <1>1, <1>3, <1>4, <2>1, NobodyStarts
<1>6. CASE file = NoFile
  <2>1. Serving' = {}
    BY <1>4, <1>6 DEF Typed, FileOpened, Opened, Serving
  <2>2. SavedText(file', NoUsers)
    BY <1>1, NoUsersNoText DEF SavedText
  <2>3. FileIsSave'
    BY <2>2, NoUsersNoText DEF FileIsSave
  <2>4. RegisteredIn(file) = {}
    BY <1>6 DEF RegisteredIn
  <2> QED
    BY <2>1, <2>3, <2>4 DEF FileInv, UsersStay
<1> QED
  BY <1>1, <1>5, <1>6

LEMMA StartKept ==
  ASSUME Typed, FileInv, NEW p \in Starters, StartServer(p)
  PROVE  FileInv' /\ UsersStay
<1>1. UNCHANGED <<file, memory, dirty, saving>>
  BY DEF StartServer, local
<1>2. UsersStay
  BY <1>1 DEF UsersStay
<1> SUFFICES ASSUME ~spoilt' PROVE FileInv'
  BY <1>2 DEF FileInv
<1>3. ~spoilt /\ Readable(file) /\ UsersOf(file) = memory[p]
  BY DEF StartServer, Spoils, ServesOther
<1>4. /\ life[p] = "bind" /\ \A q \in Starters : life[q] # "serving"
      /\ life' = [life EXCEPT ![p] = "serving"]
  BY DEF StartServer, L!Serve, L!Goto
<1>5. file # NoFile
  BY <1>4 DEF Typed, FileOpened, Opened
<1>6. PICK users \in [Users -> Records] : SavedText(file, users)
  BY <1>3, <1>5 DEF FileInv, FileIsSave
<1>7. /\ memory[p] = users /\ Readable(file) /\ UsersOf(file) = users
      /\ RegisteredIn(file) = Registered(users)
  BY <1>3, <1>6, SavedRegistered
<1>8. InStep(users, users)
  BY DEF InStep
<1>9. HasFile(p)'
  BY <1>1, <1>6, <1>7, <1>8 DEF HasFile
<1>10. FileIsSave'
  BY <1>1, <1>6 DEF FileIsSave
<1>11. \A q \in Serving' : q = p
  BY <1>4 DEF Serving, Typed, TypeOK
<1> QED
  BY <1>9, <1>10, <1>11 DEF FileInv

LEMMA EndKept ==
  ASSUME Typed, FileInv, NEW p \in Starters, L!End(p), Forget(p),
         UNCHANGED file, ~spoilt' => ~spoilt
  PROVE  FileInv' /\ UsersStay
<1>1. life' = [life EXCEPT ![p] = "gone"]
  BY DEF L!End, L!Goto
<1>2. ASSUME NEW q \in Serving'
      PROVE  /\ q \in Serving /\ memory'[q] = memory[q]
             /\ dirty'[q] = dirty[q] /\ saving'[q] = saving[q]
  <2>1. q \in Starters /\ q # p /\ q \in Serving
    BY <1>1 DEF Serving, Typed, TypeOK
  <2> QED
    BY <2>1 DEF Forget, Typed, TypeOK
<1> QED
  BY <1>2, NobodyStarts

LEMMA LifeKept ==
  ASSUME Typed, FileInv, NEW p \in Starters, LifeStep(p)
  PROVE  FileInv' /\ UsersStay
<1>1. CASE Begin(p)
  <2>1. UNCHANGED <<file, memory, dirty, saving, spoilt>>
    BY <1>1 DEF Begin, registryVars, local
  <2>2. \A q \in Serving' : q \in Serving
    BY <1>1 DEF Begin, L!Begin, L!Goto, Serving, Typed, TypeOK
  <2> QED
    BY <2>1, <2>2, NobodyStarts
<1>2. CASE FileStatus(p)
  <2>1. UNCHANGED <<life, file, memory, dirty, saving, spoilt>>
    BY <1>2 DEF FileStatus
  <2>2. \A q \in Serving' : q \in Serving
    BY <2>1 DEF Serving
  <2> QED
    BY <2>1, <2>2, NobodyStarts
<1>3. CASE OpenFile(p)
  <2>1. UNCHANGED <<file, dirty, saving, spoilt>>
    BY <1>3 DEF OpenFile
  <2>2. ASSUME NEW q \in Serving'
        PROVE  q \in Serving /\ memory'[q] = memory[q]
    <3>1. life[p] = "init" /\ life' = [life EXCEPT ![p] = "bind"]
      BY <1>3 DEF OpenFile, L!Load, L!Goto
    <3>2. q \in Starters /\ q # p /\ q \in Serving
      BY <3>1 DEF Serving, Typed, TypeOK
    <3> QED
      BY <1>3, <3>2 DEF OpenFile, Typed, TypeOK
  <2> QED
    BY <2>1, <2>2, NobodyStarts
<1>4. CASE Exit(p)
  <2>1. L!End(p) /\ Forget(p)
    BY <1>4 DEF Exit
  <2>2. CASE ~saving[p]
    BY <1>4, <2>1, <2>2, EndKept DEF Exit
  <2>3. CASE saving[p]
    <3> DEFINE text == TextOf(memory[p])
    <3>1. PICK n \in 0 .. Len(text) :
            /\ file' = Overwrite(file, SubSeq(text, 1, n))
            /\ Spoils(Cuts(SubSeq(text, 1, n)))
      BY <1>4, <2>3 DEF Exit
    <3> HIDE DEF text
    <3>2. ~spoilt' => UNCHANGED file /\ ~spoilt
      BY <3>1 DEF Spoils, Cuts
    <3>3. CASE spoilt'
      BY <3>3 DEF FileInv, UsersStay
    <3>4. CASE ~spoilt'
      BY <2>1, <3>2, <3>4, EndKept
    <3> QED
      BY <3>3, <3>4
  <2> QED
    BY <2>2, <2>3
<1>5. CASE Crash(p)
  BY <1>5, EndKept DEF Crash
<1> QED
  BY <1>1, <1>2, <1>3, <1>4, <1>5, CreateKept, StartKept DEF LifeStep

LEMMA FileInvHolds == Spec => [](Typed /\ FileInv)
<1>1. Init => FileInv
  <2> SUFFICES ASSUME Init PROVE FileIsSave /\ Serving = {}
    BY DEF FileInv
  <2>1. FileIsSave
    <3>1. ASSUME NEW users \in [Users -> Records], file = TextOf(users)
          PROVE  SavedText(file, users)
      BY <3>1 DEF SavedText
    <3> QED
      BY <3>1 DEF Init, FileIsSave
  <2>2. Serving = {}
    BY DEF Init, L!Init, Serving
  <2> QED
    BY <2>1, <2>2
<1>2. Typed /\ FileInv /\ [Next]_vars => FileInv'
  <2> SUFFICES ASSUME Typed, FileInv, [Next]_vars PROVE FileInv'
    OBVIOUS
  <2>1. CASE Next
    BY <2>1, ServingKept, LifeKept DEF Next
  <2>2. CASE UNCHANGED vars
    BY <2>2 DEF FileInv, FileIsSave, HasFile, Serving, vars, registryVars,
          local
  <2> QED
    BY <2>1, <2>2
<1> QED
  BY <1>1, <1>2, TypedHolds, PTL DEF Spec

(***************************************************************************)
(* When no save is due or under way, a restart would find every record of  *)
(* the server that serves (Connection.c:33 to Connection.c:45).            *)
(***************************************************************************)
THEOREM SavesReachTheFile == Spec => []SavedWhenIdle
<1>1. FileInv => SavedWhenIdle
  BY DEF FileInv, HasFile, InStep, Serving, SavedWhenIdle
<1> QED
  BY <1>1, FileInvHolds, PTL

(***************************************************************************)
(* A save, a restart or a crash takes no user out of a file that nothing   *)
(* has spoilt.                                                             *)
(***************************************************************************)
THEOREM UsersStayInFile == Spec => StaysInFile
<1>1. Typed /\ FileInv /\ [Next]_vars => [UsersStay]_vars
  <2> SUFFICES ASSUME Typed, FileInv, Next PROVE UsersStay
    OBVIOUS
  <2> QED
    BY ServingKept, LifeKept DEF Next
<1>2. Spec => [][UsersStay]_vars
  BY <1>1, FileInvHolds, PTL DEF Spec
<1> QED
  BY <1>2 DEF StaysInFile, UsersStay

(***************************************************************************)
(* Initialize fails on no file that nothing has spoilt (File.c:104,        *)
(* Process.c:110): the other side of MCRegistryUnreadable.                 *)
(***************************************************************************)
THEOREM UnspoiltFileLoads ==
  Spec => [](~spoilt /\ file # NoFile => Readable(file))
<1>1. FileInv => (~spoilt /\ file # NoFile => Readable(file))
  BY SavedRegistered DEF FileInv, FileIsSave
<1> QED
  BY <1>1, FileInvHolds, PTL

LEMMA StoreAcked ==
  ASSUME Typed, NobodyElse, NEW p \in Starters, life[p] = "serving",
         NEW u \in Users, NEW user,
         memory' = [memory EXCEPT ![p][u] = user],
         UNCHANGED <<life, file, spoilt>>,
         \/ acked' = acked \union {u}
         \/ acked' = acked /\ memory[p][u].registered
  PROVE  NobodyElse'
<1> SUFFICES ASSUME ~spoilt PROVE NobodyElse'
  BY DEF NobodyElse, Serving, Registered
<1>1. p \in Serving /\ \A q \in Serving' : q = p
  BY DEF Serving, Typed, SaverServes
<1>2. /\ RegisteredIn(file) \subseteq acked
      /\ Registered(memory[p]) \subseteq acked
  BY <1>1 DEF NobodyElse, Serving, Registered
<1>3. acked \subseteq acked' /\ u \in acked'
  BY <1>2 DEF Registered
<1>4. memory'[p] = [memory[p] EXCEPT ![u] = user]
  BY DEF Typed, TypeOK
<1>5. Registered(memory'[p]) \subseteq Registered(memory[p]) \union {u}
  BY <1>4 DEF Registered, Typed, TypeOK
<1> QED
  BY <1>1, <1>2, <1>3, <1>5 DEF NobodyElse, Serving, Registered

LEMMA ServingAcked ==
  ASSUME Typed, FileInv, NobodyElse, NEW p \in Starters, ServingStep(p)
  PROVE  NobodyElse'
<1>1. ASSUME NEW u \in Users, NEW user, SetRecord(p, u, user)
      PROVE  NobodyElse'
  BY <1>1, StoreAcked DEF SetRecord
<1>2. ASSUME NEW u \in Users, NEW a \in Addrs, Login(p, u, a)
      PROVE  NobodyElse'
  BY <1>2, StoreAcked DEF Login
<1>3. CASE BeginSave(p)
  BY <1>3 DEF BeginSave, NobodyElse, Serving
<1>4. CASE Save(p)
  <2> SUFFICES ASSUME ~spoilt' PROVE NobodyElse'
    BY DEF NobodyElse, Serving, Registered
  <2>1. ~spoilt /\ UNCHANGED <<life, memory, acked>> /\ saving[p]
    BY <1>4 DEF Save, Spoils
  <2>2. p \in Serving /\ Serving' = Serving
    BY <2>1 DEF Serving, Typed, SaverServes
  <2>3. RegisteredIn(file') \subseteq Registered(memory[p])
    <3>1. HasFile(p)'
      BY <1>4, <2>2, SaveKept DEF FileInv
    <3>2. \A q \in Starters : saving'[q] => q # p
      BY <1>4 DEF Save, Typed, TypeOK
    <3> QED
      BY <2>1, <3>1 DEF HasFile
  <2> QED
    BY <2>1, <2>2, <2>3 DEF NobodyElse, Serving, Registered
<1> QED
  BY <1>1, <1>2, <1>3, <1>4 DEF ServingStep, Randomize, Register

LEMMA LifeHistory ==
  ASSUME NEW p \in Starters, LifeStep(p), ~spoilt'
  PROVE  /\ ~spoilt /\ UNCHANGED <<acked, unsaved>>
         /\ RegisteredIn(file') = RegisteredIn(file)
<1>1. CASE Begin(p)
  BY <1>1 DEF Begin, registryVars
<1>2. CASE FileStatus(p)
  BY <1>2 DEF FileStatus
<1>3. CASE CreateFile(p)
  <2>1. /\ ~spoilt /\ file \in {NoFile, <<>>} /\ file' = <<>>
        /\ UNCHANGED <<acked, unsaved>>
    BY <1>3 DEF CreateFile, Spoils, Truncates
  <2>2. SavedText(file', NoUsers) /\ NoUsers \in [Users -> Records]
    BY <2>1, NoUsersNoText DEF SavedText
  <2>3. RegisteredIn(file') = Registered(NoUsers)
    BY <2>2, SavedRegistered
  <2>4. Registered(NoUsers) = {}
    BY DEF Registered, NoUsers, Unregistered
  <2>5. CASE file = NoFile
    BY <2>1, <2>3, <2>4, <2>5 DEF RegisteredIn
  <2>6. CASE file = <<>>
    BY <2>1, <2>6
  <2> QED
    BY <2>1, <2>5, <2>6
<1>4. CASE OpenFile(p)
  BY <1>4 DEF OpenFile
<1>5. CASE StartServer(p)
  BY <1>5 DEF StartServer, Spoils
<1>6. CASE Exit(p)
  <2>1. UNCHANGED <<acked, unsaved>>
    BY <1>6 DEF Exit
  <2>2. CASE saving[p]
    BY <1>6, <2>1, <2>2 DEF Exit, Spoils, Cuts
  <2>3. CASE ~saving[p]
    BY <1>6, <2>1, <2>3 DEF Exit
  <2> QED
    BY <2>2, <2>3
<1>7. CASE Crash(p)
  BY <1>7 DEF Crash
<1> QED
  BY <1>1, <1>2, <1>3, <1>4, <1>5, <1>6, <1>7 DEF LifeStep

LEMMA LifeAcked ==
  ASSUME Typed, FileInv, NobodyElse, NEW p \in Starters, LifeStep(p)
  PROVE  NobodyElse'
<1> SUFFICES ASSUME ~spoilt' PROVE NobodyElse'
  BY DEF NobodyElse, Serving, Registered
<1>1. ~spoilt /\ acked' = acked /\ RegisteredIn(file') = RegisteredIn(file)
  BY LifeHistory
<1>2. FileInv'
  BY LifeKept
<1>3. RegisteredIn(file') \subseteq acked
  BY <1>1 DEF NobodyElse, Serving, Registered
<1>4. ASSUME NEW q \in Serving' PROVE Registered(memory'[q]) \subseteq acked
  <2>1. CASE StartServer(p) /\ q = p
    <3>1. /\ UNCHANGED <<file, memory>> /\ UsersOf(file) = memory[p]
          /\ Readable(file)
      BY <1>1, <2>1 DEF StartServer, local, Spoils, ServesOther
    <3>2. file # NoFile
      BY <2>1 DEF StartServer, L!Serve, L!Goto, Typed, FileOpened, Opened
    <3>3. RegisteredIn(file) = Registered(memory[p])
      BY <3>1, <3>2 DEF RegisteredIn, Registered
    <3> QED
      BY <1>1, <2>1, <3>1, <3>3 DEF NobodyElse, Serving, Registered
  <2>2. CASE ~ (StartServer(p) /\ q = p)
    <3>1. q \in Serving
      BY <2>2 DEF LifeStep, Begin, FileStatus, CreateFile, OpenFile,
                  StartServer, Exit, Crash, L!Begin, L!Load, L!Serve, L!End,
                  L!Goto, Serving, Typed, TypeOK
    <3>2. memory'[q] = memory[q]
      <4>1. CASE q = p
        <5>1. life[p] = "serving" /\ life'[p] = "serving"
          BY <3>1, <4>1 DEF Serving
        <5> QED
          BY <4>1, <5>1
             DEF LifeStep, Begin, FileStatus, CreateFile, OpenFile,
                 StartServer, Exit, Crash, L!Begin, L!Load, L!Serve, L!End,
                 L!Goto, Typed, TypeOK, local, registryVars
      <4>2. CASE q # p
        <5>1. \/ memory'[q] = memory[q]
              \/ \E m : memory' = [memory EXCEPT ![p] = m]
          <6>1. CASE Begin(p) \/ CreateFile(p) \/ StartServer(p)
            BY <6>1 DEF Begin, CreateFile, StartServer, local, registryVars
          <6>2. CASE FileStatus(p)
            BY <6>2 DEF FileStatus
          <6>3. CASE OpenFile(p)
            BY <6>3 DEF OpenFile
          <6>4. CASE Exit(p) \/ Crash(p)
            BY <6>4 DEF Exit, Crash, Forget
          <6> QED
            BY <6>1, <6>2, <6>3, <6>4 DEF LifeStep
        <5>2. q \in Starters
          BY <3>1 DEF Serving
        <5> QED
          BY <4>2, <5>1, <5>2 DEF Typed, TypeOK
      <4> QED
        BY <4>1, <4>2
    <3> QED
      BY <1>1, <3>1, <3>2 DEF NobodyElse, Serving, Registered
  <2> QED
    BY <2>1, <2>2
<1> QED
  BY <1>1, <1>3, <1>4 DEF NobodyElse, Serving, Registered

(***************************************************************************)
(* While nothing has spoilt the file, whoever is in it, or in the memory   *)
(* of the server, has registered (Connection.c:229).                       *)
(***************************************************************************)
THEOREM NobodyElseIsSaved == Spec => []NobodyElse
<1>1. Init => NobodyElse
  <2> SUFFICES ASSUME Init PROVE NobodyElse
    OBVIOUS
  <2>1. Serving = {}
    BY DEF Init, L!Init, Serving
  <2>2. RegisteredIn(file) \subseteq acked
    <3>1. CASE file = NoFile
      BY <3>1 DEF RegisteredIn
    <3>2. ASSUME NEW users \in [Users -> Records], file = TextOf(users),
                 acked = {u \in Users : users[u].registered}
          PROVE  RegisteredIn(file) \subseteq acked
      <4>1. SavedText(file, users)
        BY <3>2 DEF SavedText
      <4>2. RegisteredIn(file) = Registered(users)
        BY <4>1, SavedRegistered
      <4> QED
        BY <3>2, <4>2 DEF Registered
    <3> QED
      BY <3>1, <3>2 DEF Init
  <2> QED
    BY <2>1, <2>2 DEF NobodyElse, Serving, Registered
<1>2. Typed /\ FileInv /\ NobodyElse /\ [Next]_vars => NobodyElse'
  <2> SUFFICES ASSUME Typed, FileInv, NobodyElse, [Next]_vars
               PROVE  NobodyElse'
    OBVIOUS
  <2>1. CASE Next
    BY <2>1, ServingAcked, LifeAcked DEF Next
  <2>2. CASE UNCHANGED vars
    BY <2>2 DEF NobodyElse, Serving, Registered, vars, registryVars, local
  <2> QED
    BY <2>1, <2>2
<1> QED
  BY <1>1, <1>2, FileInvHolds, PTL DEF Spec


(***************************************************************************)
(* The users whom no save has written are those who have registered and    *)
(* are not in the file.                                                    *)
(***************************************************************************)
Unwritten ==
  ~spoilt => /\ acked \ RegisteredIn(file) \subseteq unsaved
             /\ RegisteredIn(file) \intersect unsaved = {}

LEMMA ServingUnwritten ==
  ASSUME Typed, FileInv, NobodyElse, Unwritten, NEW p \in Starters,
         ServingStep(p)
  PROVE  Unwritten'
<1>1. ASSUME NEW u \in Users, NEW user, SetRecord(p, u, user)
      PROVE  Unwritten'
  <2> SUFFICES ASSUME ~spoilt PROVE Unwritten'
    BY <1>1 DEF Unwritten, SetRecord
  <2>1. /\ life[p] = "serving" /\ acked' = acked \union {u}
        /\ UNCHANGED <<file, spoilt>>
    BY <1>1 DEF SetRecord
  <2>2. CASE memory[p][u].registered
    <3>1. u \in acked /\ unsaved' = unsaved
      BY <1>1, <2>1, <2>2 DEF NobodyElse, SetRecord
    <3> QED
      BY <2>1, <3>1 DEF Unwritten
  <2>3. CASE ~memory[p][u].registered
    <3>1. unsaved' = unsaved \union {u}
      BY <1>1, <2>3 DEF SetRecord
    <3>2. u \notin RegisteredIn(file)
      BY <2>1, <2>3 DEF FileInv, HasFile, Serving, Registered
    <3> QED
      BY <2>1, <3>1, <3>2 DEF Unwritten
  <2> QED
    BY <2>2, <2>3
<1>2. ASSUME NEW u \in Users, NEW a \in Addrs, Login(p, u, a)
      PROVE  Unwritten'
  BY <1>2 DEF Login, Unwritten
<1>3. CASE BeginSave(p)
  BY <1>3 DEF BeginSave, Unwritten
<1>4. CASE Save(p)
  <2> SUFFICES ASSUME ~spoilt' PROVE Unwritten'
    BY DEF Unwritten
  <2> DEFINE m == memory[p]
  <2>1. /\ ~spoilt /\ m \in [Users -> Records] /\ SavedText(file', m)
        /\ RegisteredIn(file) \subseteq Registered(m)
    BY <1>4, SaveWrites
  <2>2. acked' = acked /\ unsaved' = unsaved \ Registered(m)
    BY <1>4 DEF Save
  <2> HIDE DEF m
  <2>3. RegisteredIn(file') = Registered(m)
    BY <2>1, SavedRegistered
  <2> QED
    BY <2>1, <2>2, <2>3 DEF Unwritten
<1> QED
  BY <1>1, <1>2, <1>3, <1>4 DEF ServingStep, Randomize, Register

(***************************************************************************)
(* A user who has registered is in the file unless no save has come to its *)
(* end since, and a server that has such a user in memory is about to save *)
(* (Connection.c:229 to Connection.c:245, Process.c:153).                  *)
(***************************************************************************)
THEOREM SavedUsersAreKept == Spec => []OnlyUnsavedAreLost
<1>1. Init => Unwritten
  <2> SUFFICES ASSUME Init PROVE /\ acked \subseteq RegisteredIn(file)
                                 /\ unsaved = {}
    BY DEF Unwritten
  <2>1. ASSUME NEW users \in [Users -> Records], file = TextOf(users),
               acked = {u \in Users : users[u].registered}
        PROVE  acked \subseteq RegisteredIn(file)
    <3>1. RegisteredIn(file) = Registered(users)
      BY <2>1, SavedRegistered DEF SavedText
    <3> QED
      BY <2>1, <3>1 DEF Registered
  <2> QED
    BY <2>1 DEF Init
<1>2. Typed /\ FileInv /\ NobodyElse /\ Unwritten /\ [Next]_vars => Unwritten'
  <2> SUFFICES ASSUME Typed, FileInv, NobodyElse, Unwritten, [Next]_vars
               PROVE  Unwritten'
    OBVIOUS
  <2>1. ASSUME NEW p \in Starters, LifeStep(p) PROVE Unwritten'
    BY <2>1, LifeHistory DEF Unwritten
  <2>2. CASE Next
    BY <2>1, <2>2, ServingUnwritten DEF Next
  <2>3. CASE UNCHANGED vars
    BY <2>3 DEF Unwritten, RegisteredIn, Registered, vars, registryVars
  <2> QED
    BY <2>2, <2>3
<1>3. Typed /\ FileInv /\ Unwritten => OnlyUnsavedAreLost
  <2> SUFFICES ASSUME Typed, FileInv, Unwritten, ~spoilt,
                      NEW p \in Starters, life[p] = "serving",
                      ~dirty[p], ~saving[p]
               PROVE  Registered(memory[p]) \subseteq RegisteredIn(file)
    BY DEF Unwritten, OnlyUnsavedAreLost
  <2>1. Readable(file) /\ InStep(memory[p], UsersOf(file))
    BY DEF FileInv, HasFile, Serving
  <2>2. file # NoFile
    BY DEF Typed, FileOpened, Opened
  <2> QED
    BY <2>1, <2>2 DEF RegisteredIn, Registered, InStep
<1> QED
  BY <1>1, <1>2, <1>3, FileInvHolds, NobodyElseIsSaved, PTL DEF Spec
=============================================================================
