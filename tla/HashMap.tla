------------------------------ MODULE HashMap -------------------------------
(***************************************************************************)
(* The hash map of map.c.  A bucket is the sequence of the entries of its  *)
(* chain, empty where the C bucket has a NULL key.  What the FNV loop of   *)
(* hash_string computes for a key is arbitrary, an int of IntBits bits;    *)
(* how it becomes an index is what the code does, the most negative int    *)
(* included.                                                               *)
(***************************************************************************)
EXTENDS Integers, Sequences

CONSTANTS
  Keys,
  Values,      (* the pointers that callers store                          *)
  NULL,
  Capacity,    (* the argument of NewMap                                   *)
  IntBits,     (* the width of an int                                      *)
  HashValues   (* what the loop of hash_string may yield                   *)

IntMin == -(2 ^ (IntBits - 1))
IntMax == 2 ^ (IntBits - 1) - 1

\* num_to_log & ~t clears one bit after the other, the lowest first.
ClearLow(n, bits) == n - (n % (2 ^ bits))

hash_log2(n) ==
  CHOOSE i \in 1 .. IntBits :
    /\ ClearLow(n, i) = 0
    /\ \A j \in 1 .. i - 1 : ClearLow(n, j) # 0

\* hash_upperLimit(hash_log2(capacity))
size == 2 ^ hash_log2(Capacity)

Indices == 0 .. size - 1

(***************************************************************************)
(* Both IntMin and size are powers of two, so that the remainder of the    *)
(* one int that cannot be negated is an index as well.                     *)
(***************************************************************************)
ASSUME HashMapAssumption ==
  /\ NULL \notin Values \union Keys
  /\ IntBits \in Nat /\ IntMin \in Int /\ IntMin < 0
  /\ HashValues \subseteq IntMin .. IntMax
  /\ size \in Nat \ {0}
  /\ (-IntMin) % size = 0

VARIABLES
  hash,     (* the hash of each key; it never changes                      *)
  buckets,
  result,   (* the map_result of the last call                             *)
  crashed   (* a call has not returned                                     *)

vars == <<hash, buckets, result, crashed>>

Entry == [key : Keys, data : Values]

\* Mutant of Negated: the sign is not looked at.
KeptSign(h) == h

\* hash *= -1 leaves IntMin as it is.
Negated(h) == IF h < 0 /\ h # IntMin THEN -h ELSE h

\* The % of C truncates towards zero.
Remainder(h) == IF h < 0 THEN -((-h) % size) ELSE h % size

Index(k) == Remainder(Negated(hash[k]))

Chain(k) == buckets[Index(k)]

Has(chain, k) == \E i \in DOMAIN chain : chain[i].key = k

\* The first entry of the chain with the key.
First(chain, k) ==
  CHOOSE i \in DOMAIN chain :
    /\ chain[i].key = k
    /\ \A j \in 1 .. i - 1 : chain[j].key # k

Without(chain, i) ==
  [j \in 1 .. Len(chain) - 1 |-> IF j < i THEN chain[j] ELSE chain[j + 1]]

Init ==
  /\ hash \in [Keys -> HashValues]
  /\ buckets = [i \in Indices |-> <<>>]
  /\ result = [found |-> FALSE, data |-> NULL]
  /\ crashed = FALSE

\* Mutant of BucketInsert: only the head is compared with the key.
InsertPastHead(chain, k, v) ==
  IF chain # <<>> /\ chain[1].key = k
  THEN [chain EXCEPT ![1].data = v]
  ELSE Append(chain, [key |-> k, data |-> v])

\* Mutant of BucketInsert: the key of a new link is not set.
InsertUnkeyed(chain, k, v) ==
  IF Has(chain, k)
  THEN [chain EXCEPT ![First(chain, k)].data = v]
  ELSE Append(chain, [key |-> IF chain = <<>> THEN k ELSE NULL, data |-> v])

BucketInsert(chain, k, v) ==
  IF Has(chain, k)
  THEN [chain EXCEPT ![First(chain, k)].data = v]
  ELSE Append(chain, [key |-> k, data |-> v])

MapSet(k, v) ==
  /\ ~crashed
  /\ buckets' = [buckets EXCEPT ![Index(k)] = BucketInsert(@, k, v)]
  /\ UNCHANGED <<hash, result, crashed>>

NotFound == [found |-> FALSE, data |-> NULL]
Found(k) == [found |-> TRUE, data |-> Chain(k)[First(Chain(k), k)].data]

MapGet(k) ==
  /\ ~crashed
  /\ result' = IF Has(Chain(k), k) THEN Found(k) ELSE NotFound
  /\ UNCHANGED <<hash, buckets, crashed>>

DeleteMissing(k) ==
  /\ ~crashed
  /\ ~Has(Chain(k), k)
  /\ result' = NotFound
  /\ UNCHANGED <<hash, buckets, crashed>>

\* Mutant of Unlink: the whole chain goes with its first entry.
UnlinkChain(k, free_it) ==
  /\ buckets' = [buckets EXCEPT ![Index(k)] = <<>>]
  /\ result' = [Found(k) EXCEPT !.data = IF free_it THEN NULL ELSE @]

Unlink(k, free_it) ==
  /\ buckets' = [buckets EXCEPT ![Index(k)] = Without(@, First(@, k))]
  /\ result' = [Found(k) EXCEPT !.data = IF free_it THEN NULL ELSE @]

DeleteHead(k, free_it) ==
  /\ ~crashed
  /\ Has(Chain(k), k)
  /\ First(Chain(k), k) = 1
  /\ Unlink(k, free_it)
  /\ UNCHANGED <<hash, crashed>>

(***************************************************************************)
(* _bucket_delete unlinks and frees the link and then goes round its loop  *)
(* with the freed link once more.  If the freed memory happens to hold     *)
(* another string and the old next, it returns as it should; if free() has *)
(* put something else in place of the key, or the key is compared as equal *)
(* and freed again, the process is gone.                                   *)
(***************************************************************************)
DeleteLink(k, free_it) ==
  /\ ~crashed
  /\ Has(Chain(k), k)
  /\ First(Chain(k), k) # 1
  /\ \/ Unlink(k, free_it) /\ UNCHANGED <<hash, crashed>>
     \/ crashed' = TRUE /\ UNCHANGED <<hash, buckets, result>>

Next ==
  \E k \in Keys :
    \/ \E v \in Values : MapSet(k, v)
    \/ MapGet(k)
    \/ DeleteMissing(k)
    \/ \E free_it \in BOOLEAN :
         DeleteHead(k, free_it) \/ DeleteLink(k, free_it)

Spec == Init /\ [][Next]_vars

-----------------------------------------------------------------------------
TypeOK ==
  /\ hash \in [Keys -> HashValues]
  /\ buckets \in [Indices -> Seq(Entry)]
  /\ result \in [found : BOOLEAN, data : Values \union {NULL}]
  /\ crashed \in BOOLEAN

(***************************************************************************)
(* Whatever hash_string computes, the index is one of the buckets'.        *)
(***************************************************************************)
IndexInRange == \A k \in Keys : Index(k) \in Indices

(***************************************************************************)
(* A key has at most one entry, in the bucket of its hash, however sets    *)
(* and deletes of colliding keys were mixed: delete removes all there is.  *)
(***************************************************************************)
OneEntryPerKey ==
  \A n \in Indices : \A i \in DOMAIN buckets[n] :
    /\ Index(buckets[n][i].key) = n
    /\ \A j \in DOMAIN buckets[n] :
         buckets[n][i].key = buckets[n][j].key => i = j

(***************************************************************************)
(* Until it crashes, the hash map is the map that map.h describes.         *)
(***************************************************************************)
Contents ==
  [k \in Keys |-> IF Has(Chain(k), k) THEN Found(k).data ELSE NULL]

Abstract == INSTANCE MapSpec WITH contents <- Contents

ImplementsMap == Abstract!Spec
=============================================================================
