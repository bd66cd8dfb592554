-------------------------- MODULE SchedulingPolicy --------------------------
(***************************************************************************)
(* The order in which queued work is ranked (select_item in scheduler.py)  *)
(* and the batches that order gives (compatible and form_batch).           *)
(* Constant level only.  A work item is a record                           *)
(*   [sequence, enqueuedAt, priority, tokens, stream, sampling]            *)
(* where tokens is WorkItem.estimated_tokens and sampling stands for the   *)
(* triple (temperature, top_p, stop).                                      *)
(***************************************************************************)
EXTENDS Integers, FiniteSets, FiniteSetsExt

CONSTANTS
  Policy,              \* SchedulingPolicy: "fifo", "priority" or "shortest_job"
  AgingSeconds,        \* aging_seconds, in ticks of the model's clock
  MaxBatchSize,        \* max_batch_size
  BatchTokenBudget     \* batch_token_budget

Policies == {"fifo", "priority", "shortest_job"}

ASSUME PolicyAssumption ==
  /\ Policy \in Policies
  /\ AgingSeconds \in Nat \ {0}
  /\ MaxBatchSize \in Nat \ {0}
  /\ BatchTokenBudget \in Nat \ {0}

AtLeastZero(n) == IF n < 0 THEN 0 ELSE n

\* Mutant of AgeSteps: operands swapped, so nothing ages.
AgeStepsBackwards(item, now) == AtLeastZero(item.enqueuedAt - now) \div AgingSeconds

AgeSteps(item, now) == AtLeastZero(now - item.enqueuedAt) \div AgingSeconds

\* The first component of the ranking key; the smallest key is served first.
Score(item, now) ==
  CASE Policy = "fifo"         -> item.sequence
    [] Policy = "priority"     -> -(item.priority + AgeSteps(item, now))
    [] Policy = "shortest_job" -> AtLeastZero(item.tokens - AgeSteps(item, now))

\* The whole key is (score, sequence).
Precedes(a, b, now) ==
  \/ Score(a, now) < Score(b, now)
  \/ Score(a, now) = Score(b, now) /\ a.sequence < b.sequence

IsFirst(a, items, now) == \A b \in items \ {a} : Precedes(a, b, now)

Compatible(left, right) ==
  ~left.stream /\ ~right.stream /\ left.sampling = right.sampling

TotalTokens(items) == MapThenSumSet(LAMBDA i : i.tokens, items)

\* form_batch walks the queue in rank order and takes every candidate that is
\* compatible with the seed while there is room and token budget.  So batch is
\* what it returns iff it holds exactly the candidates that fit next to the
\* members ranked before them.  The seed itself is never held to the budget.
\* Mutant of Fits: the candidate's own tokens are not counted.
FitsBeforeAdding(c, seed, ahead, capacity) ==
  /\ Compatible(seed, c)
  /\ Cardinality(ahead) < (IF capacity < MaxBatchSize THEN capacity ELSE MaxBatchSize)
  /\ TotalTokens(ahead) <= BatchTokenBudget

Fits(c, seed, ahead, capacity) ==
  /\ Compatible(seed, c)
  /\ Cardinality(ahead) < (IF capacity < MaxBatchSize THEN capacity ELSE MaxBatchSize)
  /\ TotalTokens(ahead) + c.tokens <= BatchTokenBudget

IsBatch(seed, batch, items, capacity, now) ==
  /\ IsFirst(seed, items, now)
  /\ seed \in batch /\ batch \subseteq items
  /\ \A c \in items \ {seed} :
       c \in batch <=>
         LET ahead == {b \in batch \ {c} : b = seed \/ Precedes(b, c, now)}
         IN  Fits(c, seed, ahead, capacity)
=============================================================================
