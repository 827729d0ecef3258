----------------------------- MODULE Dictionary -----------------------------
(***************************************************************************)
(* jem::dictionary (support/dictionary.hpp and .cpp): an open-addressing   *)
(* hash table of strings, with quadratic probing and tombstones.  A probe  *)
(* ends at the key or at a hole, so every operation relies on there being  *)
(* a hole.  The full hash stored beside each bucket is that of its entry.  *)
(*                                                                         *)
(* alloc_table does not clear what _aligned_malloc returns: a table is     *)
(* empty only if the memory is new from the system.  On recycled memory    *)
(* the next operation follows garbage, and the model stops.                *)
(***************************************************************************)
EXTENDS Naturals, FiniteSets

CONSTANTS
  Keys,
  Hash,          \* hash_string
  FirstSizes,    \* sizes for the first table, powers of two
  FreshMemory    \* what alloc_table may get: "zeroed", "recycled"

Hole      == "hole"
Tombstone == "tombstone"

ASSUME KeyAssumption ==
  /\ IsFiniteSet(Keys) /\ {Hole, Tombstone} \cap Keys = {}
  /\ Hash \in [Keys -> Nat]
\* is_pow2
PowerOfTwo(n) == \A d \in 2 .. n : n % d = 0 => d % 2 = 0

ASSUME TableAssumption ==
  /\ \A n \in FirstSizes : n \in Nat \ {0} /\ PowerOfTwo(n)
  /\ FreshMemory \subseteq {"zeroed", "recycled"}

VARIABLES
  table,       \* TheTable: a function on 0 .. NumBuckets - 1
  numItems, numTombstones,
  garbage,     \* a table was made of recycled memory
  stored       \* history: the keys inserted and not removed since

dictVars == <<table, numItems, numTombstones, garbage, stored>>

Buckets(t) == DOMAIN t
Size(t)    == Cardinality(Buckets(t))

\* alloc_table, once somebody has zeroed the memory.
EmptyTable(n) == [b \in 0 .. n - 1 |-> Hole]

\* The i-th bucket looked at, from that of the hash: 1, 2, 3, ... further each.
Triangle(i)       == (i * (i + 1)) \div 2
Probed(t, key, i) == (Hash[key] + Triangle(i)) % Size(t)

\* Where the search for the key in t stops: nowhere, if no bucket stops it.
Stops(t, key) ==
  {i \in Buckets(t) : t[Probed(t, key, i)] \in {Hole, key}}
Least(S) == CHOOSE i \in S : \A j \in S : i <= j

\* find_key: the bucket of the key, if it is there.
FindKey(t, key) ==
  {Probed(t, key, i) : i \in {i \in Stops(t, key) :
                                i = Least(Stops(t, key)) /\ t[Probed(t, key, i)] = key}}

\* Mutant: the first tombstone is taken before the key is searched to the end.
FirstTombstoneFound(t, key) ==
  LET stop == Least({i \in Buckets(t) :
                       t[Probed(t, key, i)] \in {Hole, key, Tombstone}})
  IN  Probed(t, key, stop)

\* lookup_bucket_for: the key's bucket, or the first tombstone on the way to
\* the hole, or the hole.
LookupBucketFor(t, key) ==
  LET stop  == Least(Stops(t, key))
      tombs == {i \in 0 .. stop : t[Probed(t, key, i)] = Tombstone}
  IN  IF t[Probed(t, key, stop)] = Hole /\ tombs # {}
      THEN Probed(t, key, Least(tombs)) ELSE Probed(t, key, stop)

\* rehash_table: each entry goes to the first hole of its probe sequence.
Placed(new, entry) ==
  IF entry \in Keys THEN [new EXCEPT ![LookupBucketFor(new, entry)] = entry] ELSE new
Moved(t, n) ==
  LET moved[i \in 0 .. Size(t)] ==
        IF i = 0 THEN EmptyTable(n) ELSE Placed(moved[i - 1], t[i - 1])
  IN  moved[Size(t)]

\* The size to rehash to: double if more than 3/4 full, the same if at most
\* 1/8 of the buckets are holes.
NewSize(n, items, tombs) ==
  IF items * 4 > n * 3 THEN {2 * n}
  ELSE IF n - (items + tombs) <= n \div 8 THEN {n} ELSE {}

DictInit ==
  /\ \E n \in FirstSizes : table = EmptyTable(n)
  /\ numItems = 0 /\ numTombstones = 0
  /\ garbage \in {memory = "recycled" : memory \in FreshMemory}
  /\ stored = {}
----------------------------------------------------------------------------
\* try_emplace and insert, which change nothing if the key is there: fill the
\* bucket, and rehash if need be.
TryEmplace(key) ==
  LET bucket == LookupBucketFor(table, key)
      filled == [table EXCEPT ![bucket] = key]
      tombs  == IF table[bucket] = Tombstone THEN numTombstones - 1
                ELSE numTombstones
      sizes  == NewSize(Size(table), numItems + 1, tombs)
  IN  /\ ~garbage /\ table[bucket] # key
      /\ numItems' = numItems + 1
      /\ stored' = stored \cup {key}
      /\ IF sizes = {}
         THEN table' = filled /\ numTombstones' = tombs /\ UNCHANGED garbage
         ELSE \E n \in sizes, memory \in FreshMemory :
                /\ table' = Moved(filled, n) /\ numTombstones' = 0
                /\ garbage' = (memory = "recycled")

\* remove_key
RemoveKey(key) ==
  /\ ~garbage
  /\ \E bucket \in FindKey(table, key) :
       /\ table' = [table EXCEPT ![bucket] = Tombstone]
       /\ numItems' = numItems - 1 /\ numTombstones' = numTombstones + 1
  /\ stored' = stored \ {key}
  /\ UNCHANGED garbage

\* clear, which keeps the tombstones of an empty dictionary
Clear ==
  /\ ~garbage /\ numItems # 0
  /\ table' = EmptyTable(Size(table))
  /\ numItems' = 0 /\ numTombstones' = 0
  /\ stored' = {}
  /\ UNCHANGED garbage

DictNext ==
  \/ \E key \in Keys : TryEmplace(key) \/ RemoveKey(key)
  \/ Clear

DictSpec == DictInit /\ [][DictNext]_dictVars
----------------------------------------------------------------------------
DictTypeOK ==
  /\ table \in [0 .. Size(table) - 1 -> Keys \cup {Hole, Tombstone}]
  /\ numItems \in Nat /\ numTombstones \in Nat /\ garbage \in BOOLEAN
  /\ stored \subseteq Keys

(* On zeroed memory a search finds exactly the keys that were inserted and *)
(* not removed since, however collisions, tombstones and rehashing have    *)
(* moved them, and it ends, as there is a hole.                            *)
FindsExactly ==
  ~garbage =>
    /\ \E b \in Buckets(table) : table[b] = Hole
    /\ {key \in Keys : FindKey(table, key) # {}} = stored
    /\ numItems = Cardinality(stored)
=============================================================================
