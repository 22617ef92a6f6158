------------------------------ MODULE HashTable ------------------------------
(* lib/kernel/hash.c and the commands of os#0's main.c that work on it.    *)
(* Buckets are chained lists that are searched from end to end, so a       *)
(* bucket is a set; bucket_cnt is a power of two, and masking a hash value *)
(* with bucket_cnt - 1 is taking the rest.                                 *)
EXTENDS Integers, FiniteSets

CONSTANTS
  Items,      \* the struct hash_item there may be
  Keys,       \* what their data may be
  NoKey,      \* of an item that is not allocated
  Hash,       \* hash_int: key -> number
  MinBuckets  \* 4 in the code

\* BEST_ELEMS_PER_BUCKET
Best == 2

ASSUME HashAssumption ==
  /\ IsFiniteSet(Items)
  /\ Hash \in [Keys -> Nat]
  /\ MinBuckets \in Nat \ {0}
  /\ NoKey \notin Keys

VARIABLES
  bucket_cnt,
  buckets,    \* bucket number -> set of items
  elem_cnt,
  key,        \* item -> its data
  altered     \* has hash_apply changed keys in the table?

hashvars == <<bucket_cnt, buckets, elem_cnt, key, altered>>

BucketNumbers(n) == 0 .. n - 1
Within(t) == UNION {t[b] : b \in DOMAIN t}
InTable == Within(buckets)

\* hash_init; "create hashtable" and hash_clear leave a table without elements.
HashInit ==
  /\ bucket_cnt = MinBuckets
  /\ buckets = [b \in BucketNumbers(MinBuckets) |-> {}]
  /\ elem_cnt = 0
  /\ key = [x \in Items |-> NoKey]
  /\ altered = FALSE

IndexOf(k, n) == Hash[k] % n

FindBucket(k) == buckets[IndexOf(k, bucket_cnt)]

\* What find_elem may return: the first equal one of the bucket.
FindElem(k) == {x \in FindBucket(k) : key[x] = k}

-----------------------------------------------------------------------------
(* rehash                                                                  *)

\* No odd number but 1 divides a power of two.
PowersOf2(n) == {p \in 1 .. n : \A d \in 2 .. p : p % d = 0 => d % 2 = 0}

\* Bits are turned off from below until a power of two is left.
LargestPower(n) == CHOOSE p \in PowersOf2(n) : \A q \in PowersOf2(n) : q <= p

NewBucketCount(n) ==
  IF n \div Best < MinBuckets THEN LargestPower(MinBuckets) ELSE LargestPower(n \div Best)

\* Variant: the index is taken before the new bucket_cnt is installed.
Redistributed_Early(t, n, d) ==
  [b \in BucketNumbers(n) |->
     {x \in Within(t) : IndexOf(d[x], bucket_cnt) = b}]
\* Every element of t moves to the bucket it has among n by its data d.
Redistributed(t, n, d) ==
  [b \in BucketNumbers(n) |-> {x \in Within(t) : IndexOf(d[x], n) = b}]

\* From buckets t with count elements and data d; malloc may fail.
Rehash(t, count, d) ==
  LET n == NewBucketCount(count) IN
  /\ elem_cnt' = count /\ key' = d /\ UNCHANGED altered
  /\ \/ bucket_cnt' = bucket_cnt /\ buckets' = t
     \/ n # bucket_cnt /\ bucket_cnt' = n /\ buckets' = Redistributed(t, n, d)

-----------------------------------------------------------------------------
(* The commands.  An item is made for each call, and what is not in the    *)
(* table after it is freed, or lost: in either case it is nobody's.        *)

\* Of an equal item only the old one is kept.
HashInsert(x, k) ==
  /\ key[x] = NoKey
  /\ IF FindElem(k) # {} THEN Rehash(buckets, elem_cnt, key)
     ELSE Rehash([buckets EXCEPT ![IndexOf(k, bucket_cnt)] = @ \cup {x}], elem_cnt + 1,
                 [key EXCEPT ![x] = k])

\* Variant: the item that goes is not counted.
HashReplace_Recount(x, k) ==
  /\ key[x] = NoKey
  /\ \/ /\ FindElem(k) = {}
        /\ Rehash([buckets EXCEPT ![IndexOf(k, bucket_cnt)] = @ \cup {x}], elem_cnt + 1,
                  [key EXCEPT ![x] = k])
     \/ \E old \in FindElem(k) :
          Rehash([buckets EXCEPT ![IndexOf(k, bucket_cnt)] = (@ \ {old}) \cup {x}],
                 elem_cnt + 1, [key EXCEPT ![x] = k, ![old] = NoKey])
\* Of equal items the first one goes.
HashReplace(x, k) ==
  /\ key[x] = NoKey
  /\ \/ /\ FindElem(k) = {}
        /\ Rehash([buckets EXCEPT ![IndexOf(k, bucket_cnt)] = @ \cup {x}], elem_cnt + 1,
                  [key EXCEPT ![x] = k])
     \/ \E old \in FindElem(k) :
          Rehash([buckets EXCEPT ![IndexOf(k, bucket_cnt)] = (@ \ {old}) \cup {x}], elem_cnt,
                 [key EXCEPT ![x] = k, ![old] = NoKey])

\* With nothing to delete rehash is not called.
HashDelete(k) ==
  \E x \in FindElem(k) :
    Rehash([buckets EXCEPT ![IndexOf(k, bucket_cnt)] = @ \ {x}], elem_cnt - 1,
           [key EXCEPT ![x] = NoKey])

\* hash_clear, and hash_init in place of what there was.
HashClear(n) ==
  /\ bucket_cnt' = n
  /\ buckets' = [b \in BucketNumbers(n) |-> {}]
  /\ elem_cnt' = 0 /\ altered' = FALSE
  /\ key' = [x \in Items |-> NoKey]

\* square_func and triple_func change the data of the elements in place.
HashApply(f) ==
  /\ \A x \in InTable : f[key[x]] \in Keys
  /\ key' = [x \in Items |-> IF x \in InTable THEN f[key[x]] ELSE key[x]]
  /\ altered' = (altered \/ \E x \in InTable : f[key[x]] # key[x])
  /\ UNCHANGED <<bucket_cnt, buckets, elem_cnt>>

Square == [k \in Keys |-> k * k]
Triple == [k \in Keys |-> k * k * k]

NewItem == CHOOSE x \in Items : key[x] = NoKey

HashCommand ==
  \/ \E k \in Keys : /\ \E x \in Items : key[x] = NoKey
                     /\ HashInsert(NewItem, k) \/ HashReplace(NewItem, k)
  \/ \E k \in Keys : HashDelete(k)
  \/ HashClear(bucket_cnt) \/ HashClear(MinBuckets)
  \/ HashApply(Square) \/ HashApply(Triple)

HashSpec == HashInit /\ [][HashCommand]_hashvars

-----------------------------------------------------------------------------
\* Through inserts, replacements, deletions and moves to more and to fewer
\* buckets, with and without memory for them, elem_cnt is the number of items
\* in the table, and each is in one bucket only.
CountExact ==
  /\ elem_cnt = Cardinality(InTable)
  /\ \A b, c \in BucketNumbers(bucket_cnt) : b # c => buckets[b] \cap buckets[c] = {}

\* "Finds and returns an element equal to E in hash table H, or a null pointer
\* if no equal element exists in the table": what is in the table is found in
\* the one bucket that is searched, and only one item has a given key, as long
\* as nobody has changed keys under the table.
FindExact ==
  ~altered => \A k \in Keys :
    LET equal == {x \in InTable : key[x] = k}
    IN  FindElem(k) = equal /\ \A x, y \in equal : x = y
=============================================================================
