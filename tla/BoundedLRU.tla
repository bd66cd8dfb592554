----------------------------- MODULE BoundedLRU -----------------------------
(***************************************************************************)
(* The bounded LRU cache of cache.py, as operators on its state.  order is *)
(* the order of the OrderedDict, least recently used first; bytes is the   *)
(* running total estimated_bytes.                                          *)
(***************************************************************************)
EXTENDS Integers, Sequences, FiniteSets, FiniteSetsExt

CONSTANTS
  MaxEntries,         \* max_entries
  MaxBytes,           \* max_bytes
  Ttl                 \* ttl_seconds, in ticks of the clock

ASSUME CacheAssumption ==
  /\ MaxEntries \in Nat \ {0}
  /\ MaxBytes \in Nat \ {0}
  /\ Ttl \in Nat \ {0}

EmptyCache == [order |-> <<>>, entry |-> [k \in {} |-> 0], bytes |-> 0]

Keys(c) == DOMAIN c.entry
Bytes(c, K) == MapThenSumSet(LAMBDA k : c.entry[k].bytes, K)

Without(order, k) ==
  LET place == CHOOSE i \in 1 .. Len(order) : order[i] = k
  IN  [i \in 1 .. Len(order) - 1 |-> order[IF i < place THEN i ELSE i + 1]]

\* _evict
Evict(c, k) ==
  [order |-> Without(c.order, k),
   entry |-> [j \in Keys(c) \ {k} |-> c.entry[j]],
   bytes |-> c.bytes - c.entry[k].bytes]

\* _evict of the first key, n times.
Oldest(c, n) == {c.order[i] : i \in 1 .. n}
EvictOldest(c, n) ==
  [order |-> SubSeq(c.order, n + 1, Len(c.order)),
   entry |-> [j \in Keys(c) \ Oldest(c, n) |-> c.entry[j]],
   bytes |-> c.bytes - Bytes(c, Oldest(c, n))]

IsFresh(c, k, now) == k \in Keys(c) /\ now - c.entry[k].created < Ttl

\* Mutants of Promoted: a hit renews the entry; a hit leaves the order alone.
Renewed(c, k, now) ==
  [order |-> Append(Without(c.order, k), k),
   entry |-> [c.entry EXCEPT ![k].used = now, ![k].created = now],
   bytes |-> c.bytes]
TouchedInPlace(c, k, now) == [c EXCEPT !.entry[k].used = now]

\* move_to_end
Promoted(c, k, now) ==
  [order |-> Append(Without(c.order, k), k),
   entry |-> [c.entry EXCEPT ![k].used = now],
   bytes |-> c.bytes]

\* get removes an expired entry and promotes a live one.
AfterGet(c, k, now) ==
  IF IsFresh(c, k, now) THEN Promoted(c, k, now)
  ELSE IF k \in Keys(c) THEN Evict(c, k) ELSE c

Inserted(c, k, size, now) ==
  [order |-> Append(c.order, k),
   entry |-> [j \in Keys(c) \cup {k} |->
     IF j = k THEN [bytes |-> size, created |-> now, used |-> now] ELSE c.entry[j]],
   bytes |-> c.bytes + size]

Fits(c) == Cardinality(Keys(c)) <= MaxEntries /\ c.bytes <= MaxBytes

\* Mutant of Surplus: the entries are counted, their bytes are not.
SurplusEntries(c) ==
  IF Cardinality(Keys(c)) <= MaxEntries THEN 0 ELSE Cardinality(Keys(c)) - MaxEntries

\* The eviction loop of put takes the least recently used entries, and no more of
\* them than it must.
Surplus(c) ==
  CHOOSE n \in 0 .. Len(c.order) :
    /\ Fits(EvictOldest(c, n))
    /\ \A m \in 0 .. n - 1 : ~Fits(EvictOldest(c, m))

\* What put evicts: the entry it replaces, and what has to make room.
Replaced(c, k) == Keys(c) \cap {k}
Stores(size) == size <= MaxBytes
WithNew(c, k, size, now) ==
  Inserted(IF Replaced(c, k) = {} THEN c ELSE Evict(c, k), k, size, now)
AfterPut(c, k, size, now) ==
  IF ~Stores(size) THEN c
  ELSE EvictOldest(WithNew(c, k, size, now), Surplus(WithNew(c, k, size, now)))
EvictedByPut(c, k, size, now) ==
  IF ~Stores(size) THEN 0
  ELSE Cardinality(Replaced(c, k)) + Surplus(WithNew(c, k, size, now))
=============================================================================
