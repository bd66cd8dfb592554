---------------------------- MODULE PromptRoutes ----------------------------
(***************************************************************************)
(* Token sequences, their prefixes, and the route that is reported for one *)
(* (prefix_router.py): what the router and its specification share.        *)
(***************************************************************************)
EXTENDS Integers, Sequences, FiniteSets

CONSTANTS
  Tokens,             \* token ids
  Inputs,             \* the token sequences that are observed
  MinMatch,           \* min_match_tokens
  MaxPrefix           \* max_prefix_tokens

ASSUME RouteAssumption ==
  /\ Inputs \subseteq Seq(Tokens)
  /\ MinMatch \in Nat \ {0} /\ MaxPrefix \in Nat \ {0}

Prefix(p, n) == SubSeq(p, 1, n)
Starts(n, p) == Len(n) <= Len(p) /\ Prefix(p, Len(n)) = n

Bounded(p) == Prefix(p, IF Len(p) < MaxPrefix THEN Len(p) ELSE MaxPrefix)

Kind(matched) == IF matched >= MinMatch THEN "prefix_hit" ELSE "prefix_miss"
Saved(kind, matched) == IF kind = "prefix_hit" THEN matched ELSE 0

\* A PrefixRoute; matched_ratio is matched / prompt.
Route(kind, prompt, matched, candidates) ==
  [kind |-> kind, prompt |-> prompt, matched |-> matched,
   saved |-> Saved(kind, matched), candidates |-> candidates]

\* The counters of the router after one more request.
Counted(totals, kind, matched) ==
  [requests |-> totals.requests + 1,
   matches  |-> totals.matches + (IF kind = "prefix_hit" THEN 1 ELSE 0),
   saved    |-> totals.saved + Saved(kind, matched)]
=============================================================================
