------------------------------ MODULE MemoryCache ------------------------------
(***************************************************************************)
(* The memory of one cache level (internal/cache/memory_cache.go).  A      *)
(* cache is the sequence of its entries, the one that was not used for the *)
(* longest time first; an entry whose TTL has passed is dead, and stays    *)
(* until a look-up or the cleanup finds it.  Each operator is one critical *)
(* section of the cache's mutex.  Left out: hit counts, and the limit in   *)
(* bytes, which the code declares and never looks at.                      *)
(***************************************************************************)
EXTENDS Integers, Sequences, SequencesExt

CONSTANTS
  Keys,
  Values,
  MaxL1       \* maxSize of NewMemoryCache

ASSUME LevelOneParameters == MaxL1 \in Nat \ {0}

None == "none"    \* nil: no value

Entry == [key : Keys, val : Values, dead : BOOLEAN]

KeysOf(c) == {c[i].key : i \in DOMAIN c}
HasKey(c, k) == k \in KeysOf(c)

PlaceOf(c, k) == CHOOSE i \in DOMAIN c : c[i].key = k
Find(c, k)    == c[PlaceOf(c, k)]

\* Delete.
L1Delete(c, k) == IF HasKey(c, k) THEN RemoveAt(c, PlaceOf(c, k)) ELSE c

\* The head of Set: a full cache loses its least recently used entry, also
\* when the key to be set is in it.
Evict(c) == IF Len(c) >= MaxL1 THEN Tail(c) ELSE c

\* Set.
L1Set(c, k, v) == Append(L1Delete(Evict(c), k), [key |-> k, val |-> v, dead |-> FALSE])

\* Get: the value found, and the cache after it.
Live(c, k) == HasKey(c, k) /\ ~Find(c, k).dead
L1Get(c, k) ==
  IF Live(c, k) THEN [val |-> Find(c, k).val, cache |-> Append(L1Delete(c, k), Find(c, k))]
  ELSE [val |-> None, cache |-> L1Delete(c, k)]

\* CleanExpired goes from entry to entry.
CleanExpired(c) ==
  LET kept[n \in 0..Len(c)] ==
        IF n = 0 THEN <<>> ELSE IF c[n].dead THEN kept[n - 1] ELSE Append(kept[n - 1], c[n])
  IN kept[Len(c)]

\* The TTL of the entry of k passes.
Die(c, k) == [i \in DOMAIN c |-> IF c[i].key = k THEN [c[i] EXCEPT !.dead = TRUE] ELSE c[i]]
================================================================================
