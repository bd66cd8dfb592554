---------------------------- MODULE CacheManager ----------------------------
(***************************************************************************)
(* The cache manager of cache.py: a layer of rendered system prefixes, and *)
(* a layer of token ids that handlers fill concurrently, because tokenize  *)
(* awaits the backend between its lookup and its store.                    *)
(***************************************************************************)
EXTENDS BoundedLRU

CONSTANTS
  Calls,              \* calls of tokenize, each made at most once
  Prompts,            \* prompts, by their cache key
  Prefixes,           \* leading system prefixes, by their cache key
  SizeOf,             \* SizeOf[k]: estimated bytes of what is stored under k
  MaxRenders,         \* bound on the calls of render_prompt
  MaxTime             \* bound on the clock

ASSUME ManagerAssumption ==
  /\ IsFiniteSet(Calls) /\ IsFiniteSet(Prompts) /\ IsFiniteSet(Prefixes)
  /\ SizeOf \in [Prompts \cup Prefixes -> Nat]
  /\ MaxRenders \in Nat /\ MaxTime \in Nat

VARIABLES
  prompt,             \* _prompt
  tokens,             \* _tokens
  operations,         \* cache_operations[layer][result]
  gauge,              \* estimated_cache_bytes
  call,               \* call[c]: where the call of tokenize is
  promptOf,           \* promptOf[c]: its prompt
  servedAt,           \* servedAt[c]: when it returned, for HitHasSource
  now                 \* time.monotonic

vars == <<prompt, tokens, operations, gauge, call, promptOf, servedAt, now>>

Layers == {"prompt_template", "tokenization"}
Results == {"hit", "miss", "eviction"}

Init ==
  /\ prompt = EmptyCache /\ tokens = EmptyCache
  /\ operations = [l \in Layers |-> [x \in Results |-> 0]]
  /\ gauge = 0
  /\ call = [c \in Calls |-> "new"]
  /\ promptOf \in [Calls -> Prompts]
  /\ servedAt = [c \in Calls |-> 0]
  /\ now = 0

\* _event, and _evicted for each entry that went.
Count(l, hits, misses, evictions) ==
  operations' = [operations EXCEPT
    ![l].hit = @ + hits, ![l].miss = @ + misses, ![l].eviction = @ + evictions]

\* What get evicts: the entry, if it has expired.
EvictedByGet(c, k) == IF IsFresh(c, k, now) THEN 0 ELSE Cardinality(Keys(c) \cap {k})

\* render_prompt does not suspend: a lookup, and a store if it missed.
Render(s) ==
  LET looked == AfterGet(prompt, s, now)
      missed == ~IsFresh(prompt, s, now)
  IN  /\ operations["prompt_template"].hit + operations["prompt_template"].miss < MaxRenders
      /\ prompt' = IF missed THEN AfterPut(looked, s, SizeOf[s], now) ELSE looked
      /\ IF missed
         THEN Count("prompt_template", 0, 1,
                EvictedByGet(prompt, s) + EvictedByPut(looked, s, SizeOf[s], now))
         ELSE Count("prompt_template", 1, 0, 0)
      /\ gauge' = IF missed THEN prompt'.bytes + tokens.bytes ELSE gauge
      /\ UNCHANGED <<tokens, call, promptOf, servedAt, now>>

\* tokenize up to the await: a hit returns.
Hit(c) ==
  /\ call[c] = "new" /\ IsFresh(tokens, promptOf[c], now)
  /\ tokens' = AfterGet(tokens, promptOf[c], now)
  /\ Count("tokenization", 1, 0, 0)
  /\ call' = [call EXCEPT ![c] = "hit"]
  /\ servedAt' = [servedAt EXCEPT ![c] = now]
  /\ UNCHANGED <<prompt, gauge, promptOf, now>>

\* A miss drops an expired entry and awaits the backend's tokenizer.
Miss(c) ==
  /\ call[c] = "new" /\ ~IsFresh(tokens, promptOf[c], now)
  /\ tokens' = AfterGet(tokens, promptOf[c], now)
  /\ Count("tokenization", 0, 1, EvictedByGet(tokens, promptOf[c]))
  /\ gauge' = IF EvictedByGet(tokens, promptOf[c]) = 0 THEN gauge
              ELSE prompt.bytes + tokens'.bytes
  /\ call' = [call EXCEPT ![c] = "tokenizing"]
  /\ UNCHANGED <<prompt, promptOf, servedAt, now>>

\* Mutant of Evictions: an entry that is replaced does not count.
EvictionsForRoom(k) ==
  EvictedByPut(tokens, k, SizeOf[k], now) - Cardinality(Replaced(tokens, k))

Evictions(k) == EvictedByPut(tokens, k, SizeOf[k], now)

\* The tokenizer returns and the result is stored, whoever stored it meanwhile.
Store(c) ==
  LET k == promptOf[c]
  IN  /\ call[c] = "tokenizing"
      /\ tokens' = AfterPut(tokens, k, SizeOf[k], now)
      /\ Count("tokenization", 0, 0, Evictions(k))
      /\ gauge' = prompt.bytes + tokens'.bytes
      /\ call' = [call EXCEPT ![c] = IF Stores(SizeOf[k]) THEN "stored" ELSE "returned"]
      /\ servedAt' = [servedAt EXCEPT ![c] = now]
      /\ UNCHANGED <<prompt, promptOf, now>>

\* The tokenizer raises, or the handler is cancelled while it waits.
Fail(c) ==
  /\ call[c] = "tokenizing"
  /\ call' = [call EXCEPT ![c] = "failed"]
  /\ UNCHANGED <<prompt, tokens, operations, gauge, promptOf, servedAt, now>>

\* clear, at the end of the lifespan: calls may still be waiting for a tokenizer.
Clear ==
  /\ Keys(prompt) \cup Keys(tokens) # {}
  /\ prompt' = EvictOldest(prompt, Len(prompt.order))
  /\ tokens' = EvictOldest(tokens, Len(tokens.order))
  /\ operations' = [operations EXCEPT
       !["prompt_template"].eviction = @ + Cardinality(Keys(prompt)),
       !["tokenization"].eviction = @ + Cardinality(Keys(tokens))]
  /\ gauge' = prompt'.bytes + tokens'.bytes
  /\ UNCHANGED <<call, promptOf, servedAt, now>>

Tick == now < MaxTime /\ now' = now + 1 /\ UNCHANGED
          <<prompt, tokens, operations, gauge, call, promptOf, servedAt>>

Next ==
  \/ \E s \in Prefixes : Render(s)
  \/ \E c \in Calls : Hit(c) \/ Miss(c) \/ Store(c) \/ Fail(c)
  \/ Clear
  \/ Tick

Spec == Init /\ [][Next]_vars

-----------------------------------------------------------------------------
\* Every variable has its type.
TypeOK ==
  /\ \A c \in {prompt, tokens} :
       /\ c.bytes \in Nat
       /\ c.order \in Seq(Keys(c)) /\ Len(c.order) = Cardinality(Keys(c))
       /\ \A k \in Keys(c) : c.entry[k] \in [bytes : Nat, created : 0 .. now, used : 0 .. now]
  /\ Keys(prompt) \subseteq Prefixes /\ Keys(tokens) \subseteq Prompts
  /\ operations \in [Layers -> [Results -> Nat]]
  /\ gauge \in Nat /\ now \in 0 .. MaxTime
  /\ call \in [Calls -> {"new", "hit", "tokenizing", "stored", "returned", "failed"}]
  /\ promptOf \in [Calls -> Prompts] /\ servedAt \in [Calls -> 0 .. MaxTime]

\* Neither layer outgrows its bounds, although calls that missed together store the
\* same prompt again; the totals and the gauge are the bytes really held.
WithinBounds ==
  /\ \A c \in {prompt, tokens} : Fits(c) /\ c.bytes = Bytes(c, Keys(c))
  /\ gauge = prompt.bytes + tokens.bytes

\* Every miss is accounted for: its call still waits, failed, returned something too
\* large to keep, or stored an entry that is still there or was counted as evicted.
MissesAccounted ==
  operations["tokenization"].miss =
    Cardinality({c \in Calls : call[c] \in {"tokenizing", "failed", "returned"}})
      + Cardinality(Keys(tokens)) + operations["tokenization"].eviction

\* A hit answers with what another call stored less than ttl_seconds before, however
\* often the entry was read since.
HitHasSource ==
  \A c \in Calls : call[c] = "hit" =>
    \E d \in Calls : /\ call[d] = "stored" /\ promptOf[d] = promptOf[c]
                     /\ servedAt[c] \in servedAt[d] .. servedAt[d] + Ttl - 1

\* Both layers keep their entries in the order of last_access, so what put evicts to
\* make room was used no later than anything it keeps.
OrderedByUse ==
  \A c \in {prompt, tokens} : \A i, j \in 1 .. Len(c.order) :
    i < j => c.entry[c.order[i]].used <= c.entry[c.order[j]].used
=============================================================================
