------------------------------ MODULE HashMap ------------------------------
(* The open-addressing table of cstl/src/hash_map.c and the set built on it in  *)
(* hash_set.c: linear probing, tombstones, and a new table when an entry would  *)
(* fill more than seven tenths of it or the tombstones outnumber the entries.   *)
(* An operation makes its copies first and happens as a whole or not at all.    *)
EXTENDS Integers, Sequences, FiniteSets, SequencesExt

CONSTANTS Keys,        \* a set of positive integers
          Twice,       \* the keys that are put with either of two values
          Hash,        \* what the key's hash function answers
          Set,         \* whether the table is used through hash_set.c
          MinBuckets,  \* SALTS_HASH_MIN_BUCKETS, a power of two
          Limit,       \* entry_limit of an initialised handle
          Arrays       \* the sequences of pairs that from_arrays() is called with

VARIABLES table,       \* the buckets with states, hashes, keys and values; size, tombstones
          limit,       \* entry_limit; 0 while the typed handle is semantically zero
          walk,        \* the cursor and the yield of a range of this generation
          entries      \* the reference: the values by key

vars == <<table, limit, walk, entries>>

Unlimited == 1000      \* SIZE_MAX
Values(k) == IF k \in Twice THEN {1, 2} ELSE {1}
Empty == [state |-> "empty", hash |-> 0, key |-> 0, value |-> 0]
Tombstone == [Empty EXCEPT !.state = "tombstone"]
Buckets(n) == [i \in 1 .. n |-> Empty]
Start == [at |-> 1, got |-> <<>>]
New == [slots |-> <<>>, size |-> 0, tombstones |-> 0]

hash_map_hash(k) == IF Hash[k] = 0 THEN 1 ELSE Hash[k]

(* The i-th bucket a probe for the hash visits, of a table of n (a power of 2). *)
Probe(h, i, n) == 1 + ((h + i) % n)

PowerFrom(p, n) == LET f[q \in 1 .. 2 * n + p] == IF q >= n THEN q ELSE f[2 * q] IN f[p]

(* Mutant: as many buckets as entries are enough.                               *)
hash_buckets_for_entriesTight(n) == IF n = 0 THEN 0 ELSE PowerFrom(MinBuckets, n - 1)

hash_buckets_for_entries(n) ==
    IF n = 0 THEN 0
    ELSE PowerFrom(MinBuckets, n + (n \div 7) * 3 + ((n % 7) * 3 + 6) \div 7)

----------------------------------------------------------------------------
(* Mutant: a tombstone ends the search as an empty bucket does.                 *)
StopsTombstone(b) == b.state # "occupied"

(* An empty bucket ends the search for a key.                                   *)
Stops(b) == b.state = "empty"

(* The bucket of the key, 0 when the search stops before it is found.           *)
hash_map_find_slot(t, k) ==
    LET n == Len(t)
        h == hash_map_hash(k)
        f[i \in 0 .. n] ==
            IF i = n THEN 0
            ELSE LET s == Probe(h, i, n) IN
                 IF Stops(t[s]) THEN 0
                 ELSE IF /\ t[s].state = "occupied" /\ t[s].hash = h /\ t[s].key = k THEN s
                 ELSE f[i + 1]
    IN f[0]

(* The first tombstone on the way to an empty bucket, or else that bucket.      *)
hash_map_insert_slot(t, h) ==
    LET n == Len(t)
        f[i \in 0 .. n, tomb \in 0 .. n] ==
            IF i = n THEN tomb
            ELSE LET s == Probe(h, i, n) IN
                 IF t[s].state = "empty" THEN IF tomb = 0 THEN s ELSE tomb
                 ELSE f[i + 1, IF /\ t[s].state = "tombstone" /\ tomb = 0 THEN s ELSE tomb]
    IN f[0, 0]

hash_map_rehash_insert(t, b) == [t EXCEPT ![hash_map_insert_slot(t, b.hash)] = b]

(* Mutant: the table is copied bucket by bucket into the larger one.            *)
hash_map_rehashCopied(t, n) == [i \in 1 .. n |-> IF i <= Len(t) THEN t[i] ELSE Empty]

hash_map_rehash(t, n) ==
    FoldLeft(hash_map_rehash_insert, Buckets(n), SelectSeq(t, LAMBDA b : b.state = "occupied"))

(* A table for n entries is needed, or this one has too many tombstones.        *)
Rehashes(t, n) ==
    \/ hash_buckets_for_entries(n) > Len(t.slots)
    \/ /\ t.tombstones > t.size
       /\ Len(t.slots) # 0

Rehashed(t, n) ==
    LET b == hash_buckets_for_entries(n)
    IN [slots |-> hash_map_rehash(t.slots, IF b < Len(t.slots) THEN Len(t.slots) ELSE b),
        size |-> t.size, tombstones |-> 0]

hash_map_ensure_insert(t, n) == IF Rehashes(t, n) THEN Rehashed(t, n) ELSE t

----------------------------------------------------------------------------
Init ==
    /\ table = New
    /\ limit \in {0, Limit}
    /\ walk = Start
    /\ entries = [k \in Keys |-> 0]

(* hash_map_materialize_for_mutation: a zero handle becomes one without limit.  *)
Materialized == IF limit = 0 THEN Unlimited ELSE limit

Replace(t, k, v) == [t EXCEPT !.slots[hash_map_find_slot(t.slots, k)].value = v]

(* Mutant: the tombstone an entry is put on stays counted.                      *)
UsedKept(t, k) == 0

(* Whether the entry goes onto a tombstone.                                     *)
Used(t, k) ==
    IF t[hash_map_insert_slot(t, hash_map_hash(k))].state = "tombstone" THEN 1 ELSE 0

Insert(t, k, v) ==
    LET h == hash_map_hash(k)
        u == hash_map_ensure_insert(t, t.size + 1)
    IN [slots |-> [u.slots EXCEPT ![hash_map_insert_slot(u.slots, h)] =
                      [state |-> "occupied", hash |-> h, key |-> k, value |-> v]],
        size |-> t.size + 1,
        tombstones |-> u.tombstones - Used(u.slots, k)]

Put(t, e) ==
    IF hash_map_find_slot(t.slots, e[1]) # 0 THEN Replace(t, e[1], e[2]) ELSE Insert(t, e[1], e[2])

hash_map_put(k, v) ==
    /\ table' = Put(table, <<k, v>>)
    /\ table'.size <= Materialized
    /\ limit' = Materialized
    /\ walk' = Start
    /\ entries' = [entries EXCEPT ![k] = v]

(* hash_set_add leaves a key that is present, and its generation, alone.        *)
hash_set_add(k) == hash_map_find_slot(table.slots, k) = 0 /\ hash_map_put(k, 1)

(* The next of a sequence of puts, on a table that is evaluated once.            *)
Then(t, e) == CHOOSE u \in {Put(v, e) : v \in {t}} : TRUE

(* The pairs are put into a temporary, which replaces what the handle held.     *)
hash_map_from_arrays(array) ==
    \E t \in {FoldLeft(Then, New, array)} :
    /\ t.size <= Limit
    /\ table' = t
    /\ limit' = Limit
    /\ walk' = Start
    /\ entries' = [k \in Keys |-> FoldLeft(LAMBDA v, e : IF e[1] = k THEN e[2] ELSE v, 0, array)]

(* A set that has been initialised is not built again.                          *)
hash_set_from_common(array) == limit = 0 /\ hash_map_from_arrays(array)

(* Mutant: an entry that is removed leaves an empty bucket.                     *)
VacatedEmpty == Empty

(* What an entry leaves behind when it is removed.                              *)
Vacated == Tombstone

hash_map_remove(k) ==
    /\ hash_map_find_slot(table.slots, k) # 0
    /\ table' = [slots |-> [table.slots EXCEPT ![hash_map_find_slot(table.slots, k)] = Vacated],
                 size |-> table.size - 1,
                 tombstones |-> table.tombstones + 1]
    /\ walk' = Start
    /\ entries' = [entries EXCEPT ![k] = 0]
    /\ UNCHANGED limit

(* Mutant: the tombstones are still counted after clear().                      *)
hash_map_clearKept ==
    /\ table.size # 0
    /\ table' = [table EXCEPT !.slots = Buckets(Len(@)), !.size = 0]
    /\ walk' = Start /\ entries' = [k \in Keys |-> 0]
    /\ UNCHANGED limit

(* A table that holds only tombstones keeps them.                               *)
hash_map_clear ==
    /\ table.size # 0
    /\ table' = [table EXCEPT !.slots = Buckets(Len(@)), !.size = 0, !.tombstones = 0]
    /\ walk' = Start /\ entries' = [k \in Keys |-> 0]
    /\ UNCHANGED limit

(* Mutant: reserve() makes a new table in the same generation.                  *)
hash_map_reserveQuietly(n) ==
    /\ n <= Materialized /\ ~(limit = 0 /\ n = 0)
    /\ limit' = Materialized
    /\ table' = hash_map_ensure_insert(table, n)
    /\ UNCHANGED <<walk, entries>>

hash_map_reserve(n) ==
    /\ n <= Materialized /\ ~(limit = 0 /\ n = 0)
    /\ limit' = Materialized
    /\ table' = hash_map_ensure_insert(table, n)
    /\ walk' = IF Rehashes(table, n) THEN Start ELSE walk
    /\ UNCHANGED entries

(* The next occupied bucket at or behind the cursor.                            *)
NextAt(i) == SelectInSubSeq(table.slots, i, Len(table.slots), LAMBDA b : b.state = "occupied")

stl_hash_map_next ==
    /\ NextAt(walk.at) # 0
    /\ LET b == table.slots[NextAt(walk.at)]
       IN walk' = [at |-> NextAt(walk.at) + 1, got |-> Append(walk.got, <<b.key, b.value>>)]
    /\ UNCHANGED <<table, limit, entries>>

Next ==
    \/ \E k \in Keys : \E v \in Values(k) : IF Set THEN hash_set_add(k) ELSE hash_map_put(k, v)
    \/ \E k \in Keys : hash_map_remove(k)
    \/ \E array \in Arrays : IF Set THEN hash_set_from_common(array) ELSE hash_map_from_arrays(array)
    \/ hash_map_clear
    \/ \E n \in {0, Cardinality(Keys)} : hash_map_reserve(n)
    \/ stl_hash_map_next

Spec == Init /\ [][Next]_vars

----------------------------------------------------------------------------
Held == {k \in Keys : entries[k] # 0}
Occupied == {i \in DOMAIN table.slots : table.slots[i].state = "occupied"}

(* hash_map_get finds exactly the keys that were put and not removed, with      *)
(* their last value, however probing chains were broken and rebuilt.            *)
ContentsAgree ==
    \A k \in Keys : LET s == hash_map_find_slot(table.slots, k)
                    IN (IF s = 0 THEN 0 ELSE table.slots[s].value) = entries[k]

(* The counters say what the buckets hold, and an entry always has a bucket.    *)
ShapeSound ==
    /\ table.size = Cardinality(Occupied)
    /\ table.tombstones = Cardinality({i \in DOMAIN table.slots : table.slots[i].state = "tombstone"})
    /\ Cardinality(Occupied) = Cardinality(Held)
    /\ Occupied # {} => 10 * table.size <= 7 * Len(table.slots)

(* A range that no mutation has ended has yielded no entry twice, and when it   *)
(* is done it has yielded them all.                                             *)
WalkExact ==
    LET got == ToSet(walk.got) IN
    /\ Cardinality(got) = Len(walk.got)
    /\ got \subseteq {<<k, entries[k]>> : k \in Held}
    /\ NextAt(walk.at) = 0 => Cardinality(got) = Cardinality(Held)
=============================================================================
