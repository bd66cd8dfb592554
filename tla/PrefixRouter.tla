---------------------------- MODULE PrefixRouter ----------------------------
(***************************************************************************)
(* The prefix router (prefix_router.py): a tree of tokens in which every   *)
(* observed prompt is a path from the root.  A node is named by its path,  *)
(* so the children of a node are its extensions by one token.              *)
(***************************************************************************)
EXTENDS PromptRoutes

VARIABLES
  enabled,            \* _enabled
  nodes,              \* nodes[path]: [visits, terminal] of the _Node at that path
  totals,             \* [requests, matches, saved]: total_matched_tokens is saved too
  route               \* what the last observe() returned

routerVars == <<enabled, nodes, totals, route>>

-----------------------------------------------------------------------------
RouterInit ==
  /\ enabled \in BOOLEAN
  /\ nodes = [path \in {<<>>} |-> [visits |-> 0, terminal |-> 0]]
  /\ totals = [requests |-> 0, matches |-> 0, saved |-> 0]
  /\ route = Route("none", 0, 0, 0)

\* The depths that _longest_match reaches: it stops at the first token without child.
Walk(p) == {n \in 1 .. Len(p) : \A m \in 1 .. n : Prefix(p, m) \in DOMAIN nodes}

\* The length of the walk and the most visits of a node on it.
IsMatched(p, n) == n \in 0 .. Len(p) /\ Walk(p) = 1 .. n
IsMostVisited(p, v) ==
  IF Walk(p) = {} THEN v = 0
  ELSE /\ \E n \in Walk(p) : v = nodes[Prefix(p, n)].visits
       /\ \A n \in Walk(p) : nodes[Prefix(p, n)].visits <= v

\* _insert, from the root down.
PathTo(p) == {Prefix(p, n) : n \in 0 .. Len(p)}
Node(path) ==
  IF path \in DOMAIN nodes THEN nodes[path] ELSE [visits |-> 0, terminal |-> 0]

\* Mutant of Insert: only the last node of the path counts the visit.
InsertLeaf(p) ==
  nodes' = [path \in DOMAIN nodes \cup PathTo(p) |->
    [visits   |-> Node(path).visits + (IF path = p THEN 1 ELSE 0),
     terminal |-> Node(path).terminal + (IF path = p THEN 1 ELSE 0)]]

Insert(p) ==
  nodes' = [path \in DOMAIN nodes \cup PathTo(p) |->
    [visits   |-> Node(path).visits + (IF path \in PathTo(p) THEN 1 ELSE 0),
     terminal |-> Node(path).terminal + (IF path = p THEN 1 ELSE 0)]]

\* observe, which suspends nowhere: a router that is off or an empty prompt only counts.
Pass(p) ==
  /\ ~enabled \/ p = <<>>
  /\ route' = Route("disabled", Len(p), 0, 0)
  /\ totals' = Counted(totals, "disabled", 0)
  /\ UNCHANGED <<enabled, nodes>>

MatchAndInsert(p, n, v) ==
  /\ enabled /\ p # <<>>
  /\ IsMatched(Bounded(p), n) /\ IsMostVisited(Bounded(p), v)
  /\ route' = Route(Kind(n), Len(p), n, v)
  /\ totals' = Counted(totals, Kind(n), n)
  /\ Insert(Bounded(p))
  /\ UNCHANGED enabled

Observe(p) ==
  \/ Pass(p)
  \/ \E n \in 0 .. Len(Bounded(p)), v \in 0 .. totals.requests : MatchAndInsert(p, n, v)

RouterSpec == RouterInit /\ [][\E p \in Inputs : Observe(p)]_routerVars

-----------------------------------------------------------------------------
\* Every time a prompt ended at a node it was observed.
Observed == UNION {{p} \X (1 .. nodes[p].terminal) : p \in DOMAIN nodes}

\* The observed prompts whose path goes through a node.
Through(path) == {o \in Observed : Starts(path, o[1])}

\* What makes the tree equivalent to the list: it is closed under prefixes, each of
\* its nodes but the root is on the path of a prompt, and its visits count them.
NodesTyped ==
  \A q \in DOMAIN nodes : q \in Seq(Tokens) /\ nodes[q] \in [visits : Nat, terminal : Nat]
TreeClosed ==
  <<>> \in DOMAIN nodes /\ \A q \in DOMAIN nodes : \A n \in 0 .. Len(q) : Prefix(q, n) \in DOMAIN nodes
VisitsExact ==
  /\ IsFiniteSet(Observed)
  /\ \A q \in DOMAIN nodes : nodes[q].visits = Cardinality(Through(q))
NodesVisited == \A q \in DOMAIN nodes : q # <<>> => Through(q) # {}
RouterInvariant == NodesTyped /\ TreeClosed /\ VisitsExact /\ NodesVisited

Index == INSTANCE PrefixIndex WITH seen <- Observed

\* The tree answers like the list of all earlier prompts: it reports the longest
\* prefix shared with any of them and the number of those that share its beginning.
RoutesLikeIndex == Index!Spec
=============================================================================
