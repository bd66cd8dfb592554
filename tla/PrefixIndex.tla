---------------------------- MODULE PrefixIndex -----------------------------
(***************************************************************************)
(* What the prefix router promises: a prompt is compared with every prompt *)
(* observed before it, each cut to the same bound.  The route reports the  *)
(* longest prefix it shares with any of them, and how many share its first *)
(* token.  PrefixRouter implements this with a tree of tokens.             *)
(***************************************************************************)
EXTENDS PromptRoutes

VARIABLES
  enabled,            \* prefix_router_enabled
  seen,               \* pairs <<p, k>>: the bounded prompt p was observed a k-th time
  totals,             \* [requests, matches, saved]
  route               \* what the last observe() returned

vars == <<enabled, seen, totals, route>>

-----------------------------------------------------------------------------
\* The observed prompts that begin with n.
Sharing(n) == {o \in seen : Starts(n, o[1])}

\* The longest prefix of p that an observed prompt begins with has n tokens.
IsMatch(p, n) ==
  /\ n \in 0 .. Len(p)
  /\ n > 0 => Sharing(Prefix(p, n)) # {}
  /\ \A m \in n + 1 .. Len(p) : Sharing(Prefix(p, m)) = {}

Init ==
  /\ enabled \in BOOLEAN /\ seen = {}
  /\ totals = [requests |-> 0, matches |-> 0, saved |-> 0]
  /\ route = Route("none", 0, 0, 0)

Ignore(p) ==
  /\ ~enabled \/ p = <<>>
  /\ route' = Route("disabled", Len(p), 0, 0)
  /\ totals' = Counted(totals, "disabled", 0)
  /\ UNCHANGED <<enabled, seen>>

Compare(p, n) ==
  LET bounded == Bounded(p)
  IN  /\ enabled /\ p # <<>> /\ IsMatch(bounded, n)
      /\ route' = Route(Kind(n), Len(p), n,
                        IF n = 0 THEN 0 ELSE Cardinality(Sharing(Prefix(bounded, 1))))
      /\ totals' = Counted(totals, Kind(n), n)
      /\ seen' = seen \cup {<<bounded, 1 + Cardinality({o \in seen : o[1] = bounded})>>}
      /\ UNCHANGED enabled

Next == \E p \in Inputs : Ignore(p) \/ \E n \in 0 .. Len(Bounded(p)) : Compare(p, n)

Spec == Init /\ [][Next]_vars
=============================================================================
