--------------------------- MODULE HashMapProofs ----------------------------
(***************************************************************************)
(* The hash map implements MapSpec, for any keys, values, hashes and       *)
(* number of buckets.                                                      *)
(***************************************************************************)
EXTENDS HashMap, TLAPS

Inv == TypeOK /\ OneEntryPerKey

(***************************************************************************)
(* The index of a key.                                                     *)
(***************************************************************************)
LEMMA IndexIsInRange ==
  ASSUME hash \in [Keys -> HashValues]
  PROVE  IndexInRange
<1> SUFFICES ASSUME NEW k \in Keys PROVE Index(k) \in Indices
  BY DEF IndexInRange
<1> DEFINE h == hash[k]
<1>1. h \in Int /\ IntMin \in Int /\ IntMin <= h /\ size \in Nat \ {0}
  <2>1. hash[k] \in IntMin .. IntMax
    BY HashMapAssumption
  <2> QED
    BY <2>1, HashMapAssumption
<1>2. CASE h = IntMin
  BY <1>1, <1>2, HashMapAssumption DEF Index, Negated, Remainder, Indices
<1>3. CASE h # IntMin
  <2>1. Negated(h) \in Nat
    BY <1>1, <1>3 DEF Negated
  <2>2. Index(k) = Negated(h) % size
    BY <2>1 DEF Index, Remainder
  <2> QED
    BY <1>1, <2>1, <2>2 DEF Indices
<1> QED
  BY <1>2, <1>3

-----------------------------------------------------------------------------
(***************************************************************************)
(* Chains.                                                                 *)
(***************************************************************************)
Good(chain) ==
  /\ chain \in Seq(Entry)
  /\ \A i, j \in DOMAIN chain : chain[i].key = chain[j].key => i = j

Lookup(chain, k) == IF Has(chain, k) THEN chain[First(chain, k)].data ELSE NULL

\* In a chain without duplicates, the first entry of a key is its only one.
LEMMA FirstIsOnly ==
  ASSUME NEW chain, Good(chain), NEW i \in DOMAIN chain
  PROVE  Has(chain, chain[i].key) /\ First(chain, chain[i].key) = i
<1> DEFINE k == chain[i].key
           Is(n) == chain[n].key = k /\ \A j \in 1 .. n - 1 : chain[j].key # k
<1>1. DOMAIN chain = 1 .. Len(chain) /\ Len(chain) \in Nat
  BY DEF Good
<1>2. Is(i)
  BY <1>1 DEF Good
<1>3. \A n \in DOMAIN chain : Is(n) => n = i
  BY DEF Good
<1>4. First(chain, k) = i
  BY <1>2, <1>3 DEF First
<1> QED
  BY <1>4 DEF Has

LEMMA HasFirst ==
  ASSUME NEW chain, Good(chain), NEW k, Has(chain, k)
  PROVE  First(chain, k) \in DOMAIN chain /\ chain[First(chain, k)].key = k
<1> PICK i \in DOMAIN chain : chain[i].key = k
  BY DEF Has
<1> QED
  BY FirstIsOnly

\* Lookup by the entry that answers it.
LEMMA LookupEntry ==
  ASSUME NEW chain, Good(chain), NEW i \in DOMAIN chain
  PROVE  Lookup(chain, chain[i].key) = chain[i].data
  BY FirstIsOnly DEF Lookup

(***************************************************************************)
(* Setting a key changes that key and no other.                            *)
(***************************************************************************)
LEMMA InsertGood ==
  ASSUME NEW chain, Good(chain), NEW k \in Keys, NEW v \in Values
  PROVE  /\ Good(BucketInsert(chain, k, v))
         /\ Lookup(BucketInsert(chain, k, v), k) = v
         /\ \A o \in Keys \ {k} :
              Lookup(BucketInsert(chain, k, v), o) = Lookup(chain, o)
         /\ \A i \in DOMAIN BucketInsert(chain, k, v) :
              \/ BucketInsert(chain, k, v)[i].key = k
              \/ i \in DOMAIN chain
                 /\ BucketInsert(chain, k, v)[i].key = chain[i].key
<1> DEFINE new == BucketInsert(chain, k, v)
<1>0. /\ chain \in Seq(Entry) /\ Len(chain) \in Nat
      /\ DOMAIN chain = 1 .. Len(chain)
      /\ \A i \in DOMAIN chain : chain[i] \in Entry
  BY DEF Good
<1>1. CASE Has(chain, k)
  <2> DEFINE f == First(chain, k)
  <2>1. f \in DOMAIN chain /\ chain[f].key = k
    BY <1>1, HasFirst
  <2>2. new = [chain EXCEPT ![f].data = v]
    BY <1>1 DEF BucketInsert
  <2>3. /\ DOMAIN new = DOMAIN chain
        /\ new[f] = [chain[f] EXCEPT !.data = v]
        /\ \A i \in DOMAIN chain \ {f} : new[i] = chain[i]
    BY <2>1, <2>2
  <2>4. /\ new[f].key = k /\ new[f].data = v
        /\ new[f] \in Entry /\ f \in DOMAIN new
    BY <2>1, <2>3, <1>0 DEF Entry
  <2>5. \A i \in DOMAIN chain : new[i].key = chain[i].key
    BY <2>1, <2>3, <2>4
  <2>6. new \in Seq(Entry)
    <3>1. \A i \in DOMAIN chain : new[i] \in Entry
      BY <1>0, <2>3, <2>4
    <3>2. new \in [1 .. Len(chain) -> Entry]
      BY <1>0, <2>2, <2>3, <3>1
    <3> QED
      BY <1>0, <3>2
  <2> HIDE DEF new, f
  <2>7. Good(new)
    BY <2>3, <2>5, <2>6 DEF Good
  <2>8. Lookup(new, k) = v
    BY <2>4, <2>7, LookupEntry
  <2>9. \A o \in Keys \ {k} : Lookup(new, o) = Lookup(chain, o)
    <3> SUFFICES ASSUME NEW o \in Keys \ {k}
                 PROVE  Lookup(new, o) = Lookup(chain, o)
      OBVIOUS
    <3>1. CASE Has(chain, o)
      <4> PICK i \in DOMAIN chain : chain[i].key = o
        BY <3>1 DEF Has
      <4>1. new[i] = chain[i]
        BY <2>1, <2>3
      <4> QED
        BY <4>1, <2>3, <2>7, LookupEntry
    <3>2. CASE ~Has(chain, o)
      <4>1. ~Has(new, o)
        BY <3>2, <2>3, <2>5 DEF Has
      <4> QED
        BY <3>2, <4>1 DEF Lookup
    <3> QED
      BY <3>1, <3>2
  <2>10. \A i \in DOMAIN new : i \in DOMAIN chain /\ new[i].key = chain[i].key
    BY <2>3, <2>5
  <2> QED
    BY <2>7, <2>8, <2>9, <2>10 DEF new
<1>2. CASE ~Has(chain, k)
  <2> DEFINE e == [key |-> k, data |-> v]
             n == Len(chain) + 1
  <2>1. new = Append(chain, e) /\ e \in Entry
    BY <1>2 DEF BucketInsert, Entry
  <2>2. /\ new \in Seq(Entry) /\ DOMAIN new = 1 .. n /\ new[n] = e
        /\ \A i \in DOMAIN chain : i \in DOMAIN new /\ new[i] = chain[i]
        /\ \A i \in DOMAIN new : i = n \/ i \in DOMAIN chain
    BY <1>0, <2>1
  <2>3. \A i \in DOMAIN chain : chain[i].key # k
    BY <1>2 DEF Has
  <2>4. new[n].key = k /\ new[n].data = v /\ n \in DOMAIN new
    BY <1>0, <2>2
  <2> HIDE DEF new, e, n
  <2>5. Good(new)
    BY <2>2, <2>3, <2>4 DEF Good
  <2>6. Lookup(new, k) = v
    BY <2>4, <2>5, LookupEntry
  <2>7. \A o \in Keys \ {k} : Lookup(new, o) = Lookup(chain, o)
    <3> SUFFICES ASSUME NEW o \in Keys \ {k}
                 PROVE  Lookup(new, o) = Lookup(chain, o)
      OBVIOUS
    <3>1. CASE Has(chain, o)
      <4> PICK i \in DOMAIN chain : chain[i].key = o
        BY <3>1 DEF Has
      <4> QED
        BY <2>2, <2>5, LookupEntry
    <3>2. CASE ~Has(chain, o)
      <4>1. ~Has(new, o)
        BY <3>2, <2>2, <2>4 DEF Has
      <4> QED
        BY <3>2, <4>1 DEF Lookup
    <3> QED
      BY <3>1, <3>2
  <2>8. \A i \in DOMAIN new :
          new[i].key = k \/ (i \in DOMAIN chain /\ new[i].key = chain[i].key)
    BY <2>2, <2>4
  <2> QED
    BY <2>5, <2>6, <2>7, <2>8 DEF new
<1> QED
  BY <1>1, <1>2

(***************************************************************************)
(* Unlinking a key's entry removes that key and no other.                  *)
(***************************************************************************)
LEMMA WithoutGood ==
  ASSUME NEW chain, Good(chain), NEW f \in DOMAIN chain
  PROVE  /\ Good(Without(chain, f))
         /\ Lookup(Without(chain, f), chain[f].key) = NULL
         /\ \A o \in Keys \ {chain[f].key} :
              Lookup(Without(chain, f), o) = Lookup(chain, o)
         /\ \A i \in DOMAIN Without(chain, f) : \E j \in DOMAIN chain :
              Without(chain, f)[i].key = chain[j].key
<1> DEFINE new == Without(chain, f)
           from(i) == IF i < f THEN i ELSE i + 1
<1>0. /\ chain \in Seq(Entry) /\ Len(chain) \in Nat \ {0}
      /\ DOMAIN chain = 1 .. Len(chain)
      /\ \A i \in DOMAIN chain : chain[i] \in Entry
  BY DEF Good
<1>1. /\ DOMAIN new = 1 .. Len(chain) - 1
      /\ \A i \in DOMAIN new : /\ from(i) \in DOMAIN chain \ {f}
                               /\ new[i] = chain[from(i)]
  BY <1>0 DEF Without
<1>2. \A i, j \in DOMAIN new : from(i) = from(j) => i = j
  BY <1>0, <1>1
<1>3. \A j \in DOMAIN chain \ {f} : \E i \in DOMAIN new : from(i) = j
  <2> SUFFICES ASSUME NEW j \in DOMAIN chain \ {f}
               PROVE  \E i \in DOMAIN new : from(i) = j
    OBVIOUS
  <2>1. CASE j < f
    BY <1>0, <1>1, <2>1
  <2>2. CASE ~(j < f)
    <3>1. j - 1 \in DOMAIN new /\ from(j - 1) = j
      BY <1>0, <1>1, <2>2
    <3> QED
      BY <3>1
  <2> QED
    BY <2>1, <2>2
<1>4. new \in Seq(Entry)
  BY <1>0, <1>1 DEF Without
<1> HIDE DEF new, from
<1>5. Good(new)
  BY <1>1, <1>2, <1>4 DEF Good
<1>6. \A i \in DOMAIN new : new[i].key # chain[f].key
  BY <1>1 DEF Good
<1>7. Lookup(new, chain[f].key) = NULL
  BY <1>6 DEF Lookup, Has
<1>8. \A o \in Keys \ {chain[f].key} : Lookup(new, o) = Lookup(chain, o)
  <2> SUFFICES ASSUME NEW o \in Keys \ {chain[f].key}
               PROVE  Lookup(new, o) = Lookup(chain, o)
    OBVIOUS
  <2>1. CASE Has(chain, o)
    <3> PICK j \in DOMAIN chain : chain[j].key = o
      BY <2>1 DEF Has
    <3> PICK i \in DOMAIN new : from(i) = j
      BY <1>3
    <3>1. new[i] = chain[j]
      BY <1>1
    <3> QED
      BY <3>1, <1>5, LookupEntry
  <2>2. CASE ~Has(chain, o)
    <3>1. ~Has(new, o)
      BY <2>2, <1>1 DEF Has
    <3> QED
      BY <2>2, <3>1 DEF Lookup
  <2> QED
    BY <2>1, <2>2
<1>9. \A i \in DOMAIN new : \E j \in DOMAIN chain : new[i].key = chain[j].key
  BY <1>1
<1> QED
  BY <1>5, <1>7, <1>8, <1>9 DEF new

-----------------------------------------------------------------------------
(***************************************************************************)
(* The buckets.                                                            *)
(***************************************************************************)
LEMMA ChainGood ==
  ASSUME Inv, NEW k \in Keys
  PROVE  /\ Index(k) \in Indices /\ Chain(k) \in Seq(Entry) /\ Good(Chain(k))
         /\ \A i \in DOMAIN Chain(k) : Index(Chain(k)[i].key) = Index(k)
<1>1. Index(k) \in Indices
  BY IndexIsInRange DEF Inv, TypeOK, IndexInRange
<1> QED
  BY <1>1 DEF Inv, TypeOK, OneEntryPerKey, Chain, Good

\* What a call leaves behind that replaces the chain of k by another one.
Replaces(k, chain) ==
  /\ buckets' = [buckets EXCEPT ![Index(k)] = chain]
  /\ hash' = hash

LEMMA ReplaceGood ==
  ASSUME Inv, NEW k \in Keys, NEW chain, Replaces(k, chain), Good(chain),
         \A i \in DOMAIN chain : Index(chain[i].key) = Index(k),
         \A o \in Keys \ {k} : Lookup(chain, o) = Lookup(Chain(k), o)
  PROVE  /\ buckets' \in [Indices -> Seq(Entry)]
         /\ OneEntryPerKey'
         /\ Contents' = [Contents EXCEPT ![k] = Lookup(chain, k)]
<1>1. /\ Index(k) \in Indices
      /\ \A o \in Keys : Index(o) \in Indices /\ Index(o)' = Index(o)
  BY ChainGood DEF Replaces, Index
<1>2. /\ buckets' \in [Indices -> Seq(Entry)]
      /\ buckets'[Index(k)] = chain
      /\ \A n \in Indices \ {Index(k)} : buckets'[n] = buckets[n]
  BY <1>1 DEF Replaces, Good, Inv, TypeOK
<1>3. OneEntryPerKey'
  <2> SUFFICES ASSUME NEW n \in Indices, NEW i \in DOMAIN buckets'[n]
               PROVE  /\ Index(buckets'[n][i].key) = n
                      /\ \A j \in DOMAIN buckets'[n] :
                           buckets'[n][i].key = buckets'[n][j].key => i = j
    BY DEF OneEntryPerKey, Index, Replaces
  <2>1. CASE n = Index(k)
    BY <1>2, <2>1 DEF Good
  <2>2. CASE n # Index(k)
    BY <1>2, <2>2 DEF Inv, OneEntryPerKey
  <2> QED
    BY <2>1, <2>2
<1>4. /\ Chain(k)' = chain
      /\ \A o \in Keys \ {k} : Lookup(Chain(o)', o) = Lookup(Chain(o), o)
  <2>1. Chain(k)' = chain
    BY <1>1, <1>2 DEF Chain
  <2>2. ASSUME NEW o \in Keys \ {k}
        PROVE  Lookup(Chain(o)', o) = Lookup(Chain(o), o)
    <3>1. CASE Index(o) = Index(k)
      <4>1. Chain(o)' = chain /\ Chain(o) = Chain(k)
        BY <1>1, <1>2, <3>1 DEF Chain
      <4> QED
        BY <4>1
    <3>2. CASE Index(o) # Index(k)
      <4>1. Chain(o)' = Chain(o)
        BY <1>1, <1>2, <3>2 DEF Chain
      <4> QED
        BY <4>1
    <3> QED
      BY <3>1, <3>2
  <2> QED
    BY <2>1, <2>2
<1>5. /\ Contents = [o \in Keys |-> Lookup(Chain(o), o)]
      /\ Contents' = [o \in Keys |-> Lookup(Chain(o)', o)]
  BY DEF Contents, Lookup, Found, Has, First
<1> HIDE DEF Lookup
<1>6. Contents' = [Contents EXCEPT ![k] = Lookup(chain, k)]
  BY <1>4, <1>5
<1> QED
  BY <1>2, <1>3, <1>6

-----------------------------------------------------------------------------
(***************************************************************************)
(* The steps.  Each keeps the invariant and is a step of MapSpec, or a     *)
(* crash, which leaves the map's contents and the last result alone.       *)
(***************************************************************************)
LEMMA SetStep ==
  ASSUME Inv, NEW k \in Keys, NEW v \in Values, MapSet(k, v)
  PROVE  Inv' /\ Abstract!Set(k, v)
<1> DEFINE chain == BucketInsert(Chain(k), k, v)
<1>1. Good(Chain(k)) /\ Index(k) \in Indices
  BY ChainGood
<1>2. Replaces(k, chain)
  BY DEF MapSet, Replaces, Chain
<1>3. /\ Good(chain) /\ Lookup(chain, k) = v
      /\ \A o \in Keys \ {k} : Lookup(chain, o) = Lookup(Chain(k), o)
  BY <1>1, InsertGood
<1>4. \A i \in DOMAIN chain : Index(chain[i].key) = Index(k)
  BY <1>1, InsertGood, ChainGood
<1> HIDE DEF chain
<1>5. /\ buckets' \in [Indices -> Seq(Entry)] /\ OneEntryPerKey'
      /\ Contents' = [Contents EXCEPT ![k] = Lookup(chain, k)]
  BY <1>2, <1>3, <1>4, ReplaceGood
<1>6. UNCHANGED <<hash, result, crashed>>
  BY DEF MapSet
<1> QED
  BY <1>3, <1>5, <1>6 DEF Inv, TypeOK, Abstract!Set

LEMMA ResultStep ==
  ASSUME Inv, NEW k \in Keys
  PROVE  /\ Contents[k] = Lookup(Chain(k), k)
         /\ Has(Chain(k), k) <=> Contents[k] # NULL
         /\ Has(Chain(k), k) => Found(k) = Abstract!ResultOf(k)
         /\ ~Has(Chain(k), k) => NotFound = Abstract!ResultOf(k)
         /\ Abstract!ResultOf(k) \in
              [found : BOOLEAN, data : Values \union {NULL}]
<1>1. Contents[k] = Lookup(Chain(k), k)
  BY DEF Contents, Lookup, Found
<1>2. ASSUME Has(Chain(k), k)
      PROVE  Chain(k)[First(Chain(k), k)].data \in Values
  <2>1. First(Chain(k), k) \in DOMAIN Chain(k) /\ Chain(k) \in Seq(Entry)
    BY <1>2, ChainGood, HasFirst
  <2>2. Chain(k)[First(Chain(k), k)] \in Entry
    BY <2>1
  <2> QED
    BY <2>2 DEF Entry
<1>3. Has(Chain(k), k) <=> Contents[k] # NULL
  BY <1>1, <1>2, HashMapAssumption DEF Lookup
<1>4. Contents[k] \in Values \union {NULL}
  BY <1>1, <1>2 DEF Lookup
<1> QED
  BY <1>1, <1>3, <1>4 DEF Lookup, Found, NotFound, Abstract!ResultOf

LEMMA GetStep ==
  ASSUME Inv, NEW k \in Keys, MapGet(k)
  PROVE  Inv' /\ Abstract!Get(k)
<1>1. result' = Abstract!ResultOf(k)
  BY ResultStep DEF MapGet
<1>2. UNCHANGED <<hash, buckets, crashed>>
  BY DEF MapGet
<1>3. UNCHANGED Contents
  BY <1>2 DEF Contents, Has, Chain, Index, Found, First
<1>4. OneEntryPerKey'
  BY <1>2 DEF Inv, OneEntryPerKey, Index
<1>5. TypeOK'
  BY <1>1, <1>2, ResultStep DEF Inv, TypeOK
<1> QED
  BY <1>1, <1>3, <1>4, <1>5 DEF Inv, Abstract!Get

LEMMA MissingStep ==
  ASSUME Inv, NEW k \in Keys, DeleteMissing(k)
  PROVE  Inv' /\ Abstract!Delete(k, FALSE)
<1>1. result' = Abstract!ResultOf(k) /\ Contents[k] = NULL
  BY ResultStep DEF DeleteMissing
<1>2. UNCHANGED <<hash, buckets, crashed>>
  BY DEF DeleteMissing
<1>3. UNCHANGED Contents
  BY <1>2 DEF Contents, Has, Chain, Index, Found, First
<1>4. Contents' = [Contents EXCEPT ![k] = NULL]
  BY <1>1, <1>3 DEF Contents
<1>5. OneEntryPerKey'
  BY <1>2 DEF Inv, OneEntryPerKey, Index
<1>6. TypeOK'
  BY <1>1, <1>2, ResultStep DEF Inv, TypeOK
<1> QED
  BY <1>1, <1>4, <1>5, <1>6 DEF Inv, Abstract!Delete

LEMMA UnlinkStep ==
  ASSUME Inv, NEW k \in Keys, NEW free_it \in BOOLEAN, Has(Chain(k), k),
         Unlink(k, free_it), UNCHANGED <<hash, crashed>>
  PROVE  Inv' /\ Abstract!Delete(k, free_it)
<1> DEFINE f == First(Chain(k), k)
           chain == Without(Chain(k), f)
<1>1. /\ Good(Chain(k)) /\ Index(k) \in Indices
      /\ f \in DOMAIN Chain(k) /\ Chain(k)[f].key = k
  BY ChainGood, HasFirst
<1>2. Replaces(k, chain)
  BY DEF Unlink, Replaces, Chain
<1>3. /\ Good(chain) /\ Lookup(chain, k) = NULL
      /\ \A o \in Keys \ {k} : Lookup(chain, o) = Lookup(Chain(k), o)
      /\ \A i \in DOMAIN chain : \E j \in DOMAIN Chain(k) :
           chain[i].key = Chain(k)[j].key
  BY <1>1, WithoutGood
<1>4. \A i \in DOMAIN chain : Index(chain[i].key) = Index(k)
  <2>1. \A j \in DOMAIN Chain(k) : Index(Chain(k)[j].key) = Index(k)
    BY ChainGood
  <2> QED
    BY <1>3, <2>1
<1> HIDE DEF chain, f
<1>5. /\ buckets' \in [Indices -> Seq(Entry)] /\ OneEntryPerKey'
      /\ Contents' = [Contents EXCEPT ![k] = Lookup(chain, k)]
  BY <1>2, <1>3, <1>4, ReplaceGood
<1>6. result' = [Found(k) EXCEPT !.data = IF free_it THEN NULL ELSE @]
  BY DEF Unlink
<1>7. /\ Found(k) = Abstract!ResultOf(k)
      /\ Abstract!ResultOf(k) \in
           [found : BOOLEAN, data : Values \union {NULL}]
  BY ResultStep
<1>8. /\ result' = IF free_it THEN [Abstract!ResultOf(k) EXCEPT !.data = NULL]
                              ELSE Abstract!ResultOf(k)
      /\ result' \in [found : BOOLEAN, data : Values \union {NULL}]
  BY <1>6, <1>7
<1>9. TypeOK'
  BY <1>5, <1>8 DEF Inv, TypeOK
<1> QED
  BY <1>3, <1>5, <1>8, <1>9 DEF Inv, Abstract!Delete

LEMMA CrashStep ==
  ASSUME Inv, UNCHANGED <<hash, buckets, result>>, crashed' \in BOOLEAN
  PROVE  Inv' /\ UNCHANGED Abstract!vars
<1>1. UNCHANGED Contents
  BY DEF Contents, Has, Chain, Index, Found, First
<1>2. OneEntryPerKey'
  BY DEF Inv, OneEntryPerKey, Index
<1>3. TypeOK'
  BY DEF Inv, TypeOK
<1> QED
  BY <1>1, <1>2, <1>3 DEF Inv, Abstract!vars

LEMMA InvStep == Inv /\ [Next]_vars => Inv' /\ [Abstract!Next]_(Abstract!vars)
<1> SUFFICES ASSUME Inv, [Next]_vars
             PROVE  Inv' /\ [Abstract!Next]_(Abstract!vars)
  OBVIOUS
<1>1. ASSUME NEW k \in Keys, NEW v \in Values, MapSet(k, v)
      PROVE  Inv' /\ Abstract!Next
  BY <1>1, SetStep DEF Abstract!Next
<1>2. ASSUME NEW k \in Keys, MapGet(k)
      PROVE  Inv' /\ Abstract!Next
  BY <1>2, GetStep DEF Abstract!Next
<1>3. ASSUME NEW k \in Keys, DeleteMissing(k)
      PROVE  Inv' /\ Abstract!Next
  BY <1>3, MissingStep DEF Abstract!Next
<1>4. ASSUME NEW k \in Keys, NEW free_it \in BOOLEAN, DeleteHead(k, free_it)
      PROVE  Inv' /\ Abstract!Next
  BY <1>4, UnlinkStep DEF DeleteHead, Abstract!Next
<1>5. ASSUME NEW k \in Keys, NEW free_it \in BOOLEAN, DeleteLink(k, free_it)
      PROVE  Inv' /\ [Abstract!Next]_(Abstract!vars)
  <2>1. ASSUME Unlink(k, free_it), UNCHANGED <<hash, crashed>>
        PROVE  Inv' /\ Abstract!Next
    BY <1>5, <2>1, UnlinkStep DEF DeleteLink, Abstract!Next
  <2>2. ASSUME crashed' = TRUE, UNCHANGED <<hash, buckets, result>>
        PROVE  Inv' /\ UNCHANGED Abstract!vars
    BY <2>2, CrashStep
  <2> QED
    BY <1>5, <2>1, <2>2 DEF DeleteLink
<1>6. ASSUME UNCHANGED vars
      PROVE  Inv' /\ UNCHANGED Abstract!vars
  BY <1>6, CrashStep DEF vars, Inv, TypeOK
<1> QED
  BY <1>1, <1>2, <1>3, <1>4, <1>5, <1>6 DEF Next

LEMMA InitInv == Init => Inv /\ Abstract!Init
<1> SUFFICES ASSUME Init PROVE Inv /\ Abstract!Init
  OBVIOUS
<1>1. TypeOK
  <2>1. <<>> \in Seq(Entry)
    OBVIOUS
  <2>2. buckets \in [Indices -> Seq(Entry)]
    BY <2>1, Zenon DEF Init
  <2> QED
    BY <2>2 DEF Init, TypeOK
<1>2. OneEntryPerKey
  BY DEF Init, OneEntryPerKey
<1>3. \A k \in Keys : Chain(k) = <<>>
  BY <1>1, IndexIsInRange DEF Init, Chain, TypeOK, IndexInRange
<1>4. Contents = [k \in Keys |-> NULL]
  BY <1>3 DEF Contents, Has
<1> QED
  BY <1>1, <1>2, <1>4 DEF Inv, Init, Abstract!Init

LEMMA InvHolds == Spec => []Inv
  BY InitInv, InvStep, PTL DEF Spec

-----------------------------------------------------------------------------
(***************************************************************************)
(* Types: a bucket of map.c holds entries with a key, and a map_result     *)
(* holds data that was stored or NULL.                                     *)
(***************************************************************************)
THEOREM TypeCorrect == Spec => []TypeOK
<1>1. Inv => TypeOK
  BY DEF Inv
<1> QED
  BY <1>1, InvHolds, PTL

(***************************************************************************)
(* hash_string never yields an index outside the buckets (map.c:42).       *)
(***************************************************************************)
THEOREM IndicesInRange == Spec => []IndexInRange
<1>1. Inv => IndexInRange
  BY IndexIsInRange DEF Inv, TypeOK
<1> QED
  BY <1>1, InvHolds, PTL

(***************************************************************************)
(* A key has one entry at most, in its own bucket (map.c:68 and 128).      *)
(***************************************************************************)
THEOREM KeysAreUnique == Spec => []OneEntryPerKey
<1>1. Inv => OneEntryPerKey
  BY DEF Inv
<1> QED
  BY <1>1, InvHolds, PTL

(***************************************************************************)
(* The hash map implements the map of map.h until it crashes.              *)
(***************************************************************************)
THEOREM HashMapIsMap == Spec => ImplementsMap
<1>1. Init => Abstract!Init
  BY InitInv
<1>2. Inv /\ [Next]_vars => [Abstract!Next]_(Abstract!vars)
  BY InvStep
<1> QED
  BY <1>1, <1>2, InvHolds, PTL DEF Spec, ImplementsMap, Abstract!Spec
=============================================================================
