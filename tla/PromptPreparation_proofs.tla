---------------------- MODULE PromptPreparation_proofs -----------------------
(***************************************************************************)
(* Prompt preparation, for every configuration.  The tree of tokens routes *)
(* like the list of all earlier prompts: RouterInvariant is inductive, and *)
(* with it every step of PrefixRouter is one of PrefixIndex.  The caches   *)
(* keep to their bounds and count exactly, a hit has a source that is not  *)
(* too old, and the order of eviction is the order of use: CacheInvariant  *)
(* is inductive.  Both hold of the handlers that use the one and then the  *)
(* other.                                                                  *)
(***************************************************************************)
EXTENDS PromptPreparation, ListsAndSums, WellFoundedInduction

-----------------------------------------------------------------------------
\* Prefixes of sequences.
LEMMA PrefixIn ==
  \A p \in Seq(Tokens) : \A n \in 0 .. Len(p) :
    /\ Prefix(p, n) \in Seq(Tokens) /\ Len(Prefix(p, n)) = n
    /\ \A i \in 1 .. n : Prefix(p, n)[i] = p[i]
<1> SUFFICES ASSUME NEW p \in Seq(Tokens), NEW n \in 0 .. Len(p)
             PROVE  /\ Prefix(p, n) \in Seq(Tokens) /\ Len(Prefix(p, n)) = n
                    /\ \A i \in 1 .. n : Prefix(p, n)[i] = p[i]
  OBVIOUS
<1>1. \A i \in 1 .. n : p[i] \in Tokens
  OBVIOUS
<1>2. /\ SubSeq(p, 1, n) \in Seq(Tokens)
      /\ Len(SubSeq(p, 1, n)) = IF 1 <= n THEN n - 1 + 1 ELSE 0
      /\ \A i \in 1 .. n - 1 + 1 : SubSeq(p, 1, n)[i] = p[1 + i - 1]
  BY <1>1, SubSeqProperties
<1> QED BY <1>2 DEF Prefix

LEMMA PrefixOfPrefix ==
  \A p \in Seq(Tokens) : \A n \in 0 .. Len(p) : \A m \in 0 .. n :
    Prefix(Prefix(p, n), m) = Prefix(p, m)
<1> SUFFICES ASSUME NEW p \in Seq(Tokens), NEW n \in 0 .. Len(p), NEW m \in 0 .. n
             PROVE  Prefix(Prefix(p, n), m) = Prefix(p, m)
  OBVIOUS
<1>1. /\ Prefix(p, n) \in Seq(Tokens) /\ Len(Prefix(p, n)) = n
      /\ \A i \in 1 .. n : Prefix(p, n)[i] = p[i]
  BY PrefixIn
<1>2. /\ Prefix(p, m) \in Seq(Tokens) /\ Len(Prefix(p, m)) = m
      /\ \A i \in 1 .. m : Prefix(p, m)[i] = p[i]
  BY PrefixIn
<1>3. /\ Prefix(Prefix(p, n), m) \in Seq(Tokens) /\ Len(Prefix(Prefix(p, n), m)) = m
      /\ \A i \in 1 .. m : Prefix(Prefix(p, n), m)[i] = Prefix(p, n)[i]
  BY <1>1, PrefixIn
<1>4. \A i \in 1 .. m : Prefix(Prefix(p, n), m)[i] = Prefix(p, m)[i]
  BY <1>1, <1>2, <1>3
<1> QED BY <1>2, <1>3, <1>4, SeqEqual

LEMMA WholePrefix ==
  \A p \in Seq(Tokens) : Prefix(p, Len(p)) = p
<1> SUFFICES ASSUME NEW p \in Seq(Tokens) PROVE Prefix(p, Len(p)) = p
  OBVIOUS
<1>1. Len(p) \in 0 .. Len(p)
  OBVIOUS
<1>2. /\ Prefix(p, Len(p)) \in Seq(Tokens) /\ Len(Prefix(p, Len(p))) = Len(p)
      /\ \A i \in 1 .. Len(p) : Prefix(p, Len(p))[i] = p[i]
  BY <1>1, PrefixIn
<1> QED BY <1>2, SeqEqual

LEMMA BoundedIn ==
  \A p \in Inputs : Bounded(p) \in Seq(Tokens)
<1> SUFFICES ASSUME NEW p \in Inputs PROVE Bounded(p) \in Seq(Tokens)
  OBVIOUS
<1>1. p \in Seq(Tokens) /\ MaxPrefix \in Nat
  BY RouteAssumption
<1>2. (IF Len(p) < MaxPrefix THEN Len(p) ELSE MaxPrefix) \in 0 .. Len(p)
  BY <1>1
<1> QED BY <1>1, <1>2, PrefixIn DEF Bounded

-----------------------------------------------------------------------------
\* An observed prompt is a node at which prompts end.
LEMMA ObservedPairs ==
  \A o : o \in Observed <=>
         \E q \in DOMAIN nodes : \E k \in 1 .. nodes[q].terminal : o = <<q, k>>
<1>1. \A o : o \in Observed => \E q \in DOMAIN nodes : o \in {q} \X (1 .. nodes[q].terminal)
  BY DEF Observed
<1>2. \A o : (\E q \in DOMAIN nodes : o \in {q} \X (1 .. nodes[q].terminal)) => o \in Observed
  BY DEF Observed
<1> QED BY <1>1, <1>2

\* All prefixes of a node on the path of a prompt are nodes.
LEMMA NodesOfThrough ==
  ASSUME RouterInvariant, NEW q \in Seq(Tokens), Through(q) # {}
  PROVE  q \in DOMAIN nodes
<1>1. PICK o \in Observed : Starts(q, o[1])
  BY DEF Through
<1>2. o[1] \in DOMAIN nodes
  BY ObservedPairs
<1>3. Prefix(o[1], Len(q)) = q /\ Len(q) \in 0 .. Len(o[1])
  BY <1>1, <1>2 DEF Starts, RouterInvariant, NodesTyped
<1> QED BY <1>2, <1>3 DEF RouterInvariant, TreeClosed

\* The walk and the visits on it agree with the prompts observed before.
LEMMA MatchIsLongest ==
  ASSUME RouterInvariant, NEW b \in Seq(Tokens), NEW n, IsMatched(b, n)
  PROVE  /\ n \in 0 .. Len(b)
         /\ n > 0 => Through(Prefix(b, n)) # {}
         /\ \A m \in n + 1 .. Len(b) : Through(Prefix(b, m)) = {}
<1>1. n \in 0 .. Len(b) /\ Walk(b) = 1 .. n
  BY DEF IsMatched
<1>2. ASSUME n > 0 PROVE Through(Prefix(b, n)) # {}
  <2>1. n \in Walk(b)
    BY <1>1, <1>2
  <2>2. Prefix(b, n) \in DOMAIN nodes
    BY <1>1, <1>2, <2>1 DEF Walk
  <2>3. Len(Prefix(b, n)) = n
    BY <1>1, PrefixIn
  <2>4. Prefix(b, n) # <<>>
    BY <1>2, <2>3
  <2> QED BY <2>2, <2>4 DEF RouterInvariant, NodesVisited
<1>3. ASSUME NEW m \in n + 1 .. Len(b), Through(Prefix(b, m)) # {} PROVE FALSE
  <2>1. m \in 1 .. Len(b) /\ m \notin Walk(b)
    BY <1>1
  <2>2. PICK j \in 1 .. m : Prefix(b, j) \notin DOMAIN nodes
    BY <2>1 DEF Walk
  <2>3. Prefix(b, m) \in Seq(Tokens) /\ Len(Prefix(b, m)) = m
    BY <2>1, PrefixIn
  <2>4. Prefix(b, m) \in DOMAIN nodes
    BY <1>3, <2>3, NodesOfThrough
  <2>5. Prefix(Prefix(b, m), j) \in DOMAIN nodes
    BY <2>3, <2>4 DEF RouterInvariant, TreeClosed
  <2>6. Prefix(Prefix(b, m), j) = Prefix(b, j)
    BY <2>1, <2>2, PrefixOfPrefix
  <2> QED BY <2>2, <2>5, <2>6
<1> QED BY <1>1, <1>2, <1>3

LEMMA MostVisitedIsFirst ==
  ASSUME RouterInvariant, NEW b \in Seq(Tokens), NEW n, IsMatched(b, n),
         NEW v \in Nat, IsMostVisited(b, v)
  PROVE  v = IF n = 0 THEN 0 ELSE Cardinality(Through(Prefix(b, 1)))
<1>1. n \in 0 .. Len(b) /\ Walk(b) = 1 .. n
  BY DEF IsMatched
<1>2. CASE n = 0
  <2>1. Walk(b) = {}
    BY <1>1, <1>2
  <2> QED BY <1>2, <2>1 DEF IsMostVisited
<1>3. CASE n # 0
  <2>0. n \in Nat /\ 1 <= n /\ n <= Len(b)
    BY <1>1, <1>3
  <2>a. 1 \in 1 .. n
    BY <2>0
  <2>1. 1 \in Walk(b) /\ Walk(b) # {}
    BY <1>1, <2>a
  <2>2. PICK j \in 1 .. n : v = nodes[Prefix(b, j)].visits
    BY <1>1, <2>1 DEF IsMostVisited
  <2>3. nodes[Prefix(b, 1)].visits <= v
    BY <2>1 DEF IsMostVisited
  <2>4. Prefix(b, 1) \in DOMAIN nodes /\ Prefix(b, j) \in DOMAIN nodes
    BY <1>1, <2>1, <2>2 DEF Walk
  <2>5. Through(Prefix(b, j)) \subseteq Through(Prefix(b, 1))
    <3> SUFFICES ASSUME NEW o \in Observed, Starts(Prefix(b, j), o[1])
                 PROVE  Starts(Prefix(b, 1), o[1])
      BY DEF Through
    <3>1. o[1] \in Seq(Tokens)
      BY ObservedPairs DEF RouterInvariant, NodesTyped
    <3>0. j \in 0 .. Len(b) /\ 1 \in 0 .. Len(b) /\ 1 \in 0 .. j
      BY <2>0, <2>2
    <3>2. Len(Prefix(b, j)) = j /\ Len(Prefix(b, 1)) = 1
      BY <3>0, PrefixIn
    <3>3. j <= Len(o[1]) /\ Prefix(o[1], j) = Prefix(b, j)
      BY <3>2 DEF Starts
    <3>4. Prefix(Prefix(b, j), 1) = Prefix(b, 1)
      BY <3>0, PrefixOfPrefix
    <3>5. j \in 0 .. Len(o[1])
      BY <3>0, <3>1, <3>3
    <3>6. Prefix(Prefix(o[1], j), 1) = Prefix(o[1], 1)
      BY <3>0, <3>1, <3>5, PrefixOfPrefix
    <3>7. 1 <= Len(o[1]) /\ Prefix(o[1], 1) = Prefix(b, 1)
      BY <3>0, <3>3, <3>4, <3>5, <3>6
    <3> QED BY <3>2, <3>7 DEF Starts
  <2>6. IsFiniteSet(Observed) /\ Through(Prefix(b, 1)) \in SUBSET Observed
    BY DEF RouterInvariant, VisitsExact, Through
  <2>7. IsFiniteSet(Through(Prefix(b, 1)))
    BY <2>6, FS_Subset
  <2>8. Cardinality(Through(Prefix(b, j))) <= Cardinality(Through(Prefix(b, 1)))
    BY <2>5, <2>7, FS_Subset
  <2>9. /\ nodes[Prefix(b, 1)].visits = Cardinality(Through(Prefix(b, 1)))
        /\ nodes[Prefix(b, j)].visits = Cardinality(Through(Prefix(b, j)))
    BY <2>4 DEF RouterInvariant, VisitsExact
  <2>10. nodes[Prefix(b, 1)].visits \in Nat
    BY <2>4 DEF RouterInvariant, NodesTyped
  <2> QED BY <1>3, <2>2, <2>3, <2>8, <2>9, <2>10
<1> QED BY <1>2, <1>3

\* A prompt was observed as often as it ended at its node.
LEMMA TerminalCounts ==
  ASSUME RouterInvariant, NEW b \in Seq(Tokens)
  PROVE  /\ Node(b).terminal \in Nat
         /\ Cardinality({o \in Observed : o[1] = b}) = Node(b).terminal
<1> DEFINE t == Node(b).terminal
<1>1. t \in Nat
  BY DEF Node, RouterInvariant, NodesTyped
<1>2. {o \in Observed : o[1] = b} = {b} \X (1 .. t)
  <2>1. ASSUME NEW o \in Observed, o[1] = b PROVE o \in {b} \X (1 .. t)
    BY <2>1, ObservedPairs DEF Node
  <2>2. ASSUME NEW o \in {b} \X (1 .. t) PROVE o \in Observed /\ o[1] = b
    <3>1. PICK k \in 1 .. t : o = <<b, k>>
      OBVIOUS
    <3>2. b \in DOMAIN nodes /\ t = nodes[b].terminal
      BY <3>1 DEF Node
    <3> QED BY <3>1, <3>2, ObservedPairs
  <2> HIDE DEF t
  <2> QED BY <2>1, <2>2
<1>3. IsFiniteSet({b}) /\ Cardinality({b}) = 1
  BY FS_Singleton
<1> HIDE DEF t
<1>4. IsFiniteSet(1 .. t) /\ Cardinality(1 .. t) = t
  BY <1>1, FS_Interval
<1>5. Cardinality({b} \X (1 .. t)) = Cardinality({b}) * Cardinality(1 .. t)
  BY <1>3, <1>4, FS_Product
<1>6. Cardinality({b} \X (1 .. t)) = t
  BY <1>1, <1>3, <1>4, <1>5
<1> QED BY <1>1, <1>2, <1>6 DEF t

-----------------------------------------------------------------------------
\* What inserting a bounded prompt does to the observed prompts and to the tree.
LEMMA InsertObserves ==
  ASSUME RouterInvariant, NEW b \in Seq(Tokens), Insert(b)
  PROVE  /\ Observed' = Observed \cup {<<b, Node(b).terminal + 1>>}
         /\ <<b, Node(b).terminal + 1>> \notin Observed
<1> DEFINE t == Node(b).terminal
<1>1. t \in Nat
  BY TerminalCounts
<1>2. b \in PathTo(b)
  <2>1. Len(b) \in 0 .. Len(b) /\ b = Prefix(b, Len(b))
    BY WholePrefix
  <2> QED BY <2>1 DEF PathTo
<1>3. /\ DOMAIN nodes' = DOMAIN nodes \cup PathTo(b)
      /\ \A q \in DOMAIN nodes' :
           nodes'[q].terminal = Node(q).terminal + (IF q = b THEN 1 ELSE 0)
  BY DEF Insert
<1>4. nodes'[b].terminal = t + 1 /\ b \in DOMAIN nodes'
  BY <1>2, <1>3
<1>5. \A q \in DOMAIN nodes : q # b => nodes'[q].terminal = nodes[q].terminal
  BY <1>3 DEF Node, RouterInvariant, NodesTyped
<1>6. \A q \in DOMAIN nodes' : q # b /\ q \notin DOMAIN nodes => nodes'[q].terminal = 0
  BY <1>3 DEF Node
<1>7. (b \in DOMAIN nodes => t = nodes[b].terminal) /\ (b \notin DOMAIN nodes => t = 0)
  BY DEF Node
<1> HIDE DEF t
<1>8. \A o : o \in Observed' <=>
             \E q \in DOMAIN nodes' : \E k \in 1 .. nodes'[q].terminal : o = <<q, k>>
  <2>1. \A o : o \in Observed' =>
               \E q \in DOMAIN nodes' : o \in {q} \X (1 .. nodes'[q].terminal)
    BY DEF Observed
  <2>2. \A o : (\E q \in DOMAIN nodes' : o \in {q} \X (1 .. nodes'[q].terminal)) =>
               o \in Observed'
    BY DEF Observed
  <2> QED BY <2>1, <2>2
<1>9. ASSUME NEW o \in Observed' PROVE o \in Observed \cup {<<b, t + 1>>}
  <2>1. PICK q \in DOMAIN nodes' : \E k \in 1 .. nodes'[q].terminal : o = <<q, k>>
    BY <1>8
  <2>2. PICK k \in 1 .. nodes'[q].terminal : o = <<q, k>>
    BY <2>1
  <2>3. CASE q = b /\ k = t + 1
    BY <2>2, <2>3
  <2>4. CASE q = b /\ k # t + 1
    <3>1. k \in 1 .. t
      BY <1>1, <1>4, <2>2, <2>4
    <3>2. b \in DOMAIN nodes /\ t = nodes[b].terminal
      BY <1>7, <3>1
    <3> QED BY <2>2, <2>4, <3>1, <3>2, ObservedPairs
  <2>5. CASE q # b
    <3>1. q \in DOMAIN nodes
      BY <1>6, <2>2, <2>5
    <3> QED BY <1>5, <2>2, <2>5, <3>1, ObservedPairs
  <2> QED BY <2>3, <2>4, <2>5
<1>10. ASSUME NEW o \in Observed PROVE o \in Observed'
  <2>1. PICK q \in DOMAIN nodes : \E k \in 1 .. nodes[q].terminal : o = <<q, k>>
    BY ObservedPairs
  <2>2. PICK k \in 1 .. nodes[q].terminal : o = <<q, k>>
    BY <2>1
  <2>3. q \in DOMAIN nodes' /\ k \in 1 .. nodes'[q].terminal
    BY <1>1, <1>3, <1>4, <1>5, <1>7, <2>2
  <2> QED BY <1>8, <2>2, <2>3
<1>11. <<b, t + 1>> \in Observed'
  BY <1>1, <1>4, <1>8
<1>12. <<b, t + 1>> \notin Observed
  <2> SUFFICES ASSUME <<b, t + 1>> \in Observed PROVE FALSE
    OBVIOUS
  <2>1. PICK q \in DOMAIN nodes : \E k \in 1 .. nodes[q].terminal : <<b, t + 1>> = <<q, k>>
    BY ObservedPairs
  <2>2. b \in DOMAIN nodes /\ t + 1 \in 1 .. nodes[b].terminal
    BY <2>1
  <2> QED BY <1>1, <1>7, <2>2
<1> QED BY <1>9, <1>10, <1>11, <1>12 DEF t

\* The nodes on the path of a prompt are those it starts with.
LEMMA PathIsStarts ==
  ASSUME NEW b \in Seq(Tokens), NEW q \in Seq(Tokens)
  PROVE  q \in PathTo(b) <=> Starts(q, b)
<1>1. ASSUME q \in PathTo(b) PROVE Starts(q, b)
  <2>1. PICK n \in 0 .. Len(b) : q = Prefix(b, n)
    BY <1>1 DEF PathTo
  <2>2. Len(q) = n
    BY <2>1, PrefixIn
  <2> QED BY <2>1, <2>2 DEF Starts
<1>2. ASSUME Starts(q, b) PROVE q \in PathTo(b)
  <2>1. Len(q) \in 0 .. Len(b) /\ q = Prefix(b, Len(q))
    BY <1>2 DEF Starts
  <2> QED BY <2>1 DEF PathTo
<1> QED BY <1>1, <1>2

LEMMA PathTyped ==
  ASSUME NEW b \in Seq(Tokens), NEW q \in PathTo(b)
  PROVE  q \in Seq(Tokens) /\ \A n \in 0 .. Len(q) : Prefix(q, n) \in PathTo(b)
<1>1. PICK m \in 0 .. Len(b) : q = Prefix(b, m)
  BY DEF PathTo
<1>2. q \in Seq(Tokens) /\ Len(q) = m
  BY <1>1, PrefixIn
<1>3. ASSUME NEW n \in 0 .. Len(q) PROVE Prefix(q, n) \in PathTo(b)
  <2>1. n \in 0 .. m /\ n \in 0 .. Len(b)
    BY <1>1, <1>2
  <2>2. Prefix(q, n) = Prefix(b, n)
    BY <1>1, <2>1, PrefixOfPrefix
  <2> QED BY <2>1, <2>2 DEF PathTo
<1> QED BY <1>2, <1>3

LEMMA InsertKeeps ==
  ASSUME RouterInvariant, NEW b \in Seq(Tokens), Insert(b)
  PROVE  RouterInvariant'
<1> DEFINE new == <<b, Node(b).terminal + 1>>
<1>1. DOMAIN nodes' = DOMAIN nodes \cup PathTo(b)
  BY DEF Insert
<1>a. \A q \in DOMAIN nodes' : nodes'[q] =
         [visits   |-> Node(q).visits + (IF q \in PathTo(b) THEN 1 ELSE 0),
          terminal |-> Node(q).terminal + (IF q = b THEN 1 ELSE 0)]
  BY DEF Insert
<1>2. Observed' = Observed \cup {new} /\ new \notin Observed
  BY InsertObserves
<1>3. \A q \in DOMAIN nodes' : q \in Seq(Tokens)
  BY <1>1, PathTyped DEF RouterInvariant, NodesTyped
<1>4. \A q \in DOMAIN nodes' : Node(q).visits \in Nat /\ Node(q).terminal \in Nat
  BY DEF Node, RouterInvariant, NodesTyped
<1>5. NodesTyped'
  <2>1. ASSUME NEW q \in DOMAIN nodes' PROVE nodes'[q] \in [visits : Nat, terminal : Nat]
    <3>1. /\ Node(q).visits + (IF q \in PathTo(b) THEN 1 ELSE 0) \in Nat
          /\ Node(q).terminal + (IF q = b THEN 1 ELSE 0) \in Nat
      BY <1>4
    <3> QED BY <1>a, <3>1
  <2> QED BY <1>3, <2>1 DEF NodesTyped
<1>6. TreeClosed'
  <2>1. <<>> \in DOMAIN nodes'
    BY <1>1 DEF RouterInvariant, TreeClosed
  <2>2. ASSUME NEW q \in DOMAIN nodes', NEW n \in 0 .. Len(q)
        PROVE  Prefix(q, n) \in DOMAIN nodes'
    BY <1>1, <2>2, PathTyped DEF RouterInvariant, TreeClosed
  <2> QED BY <2>1, <2>2 DEF TreeClosed
<1>7. new[1] = b
  OBVIOUS
<1> HIDE DEF new
<1>8. ASSUME NEW q \in DOMAIN nodes'
      PROVE  Through(q)' = IF q \in PathTo(b) THEN Through(q) \cup {new} ELSE Through(q)
  <2>1. q \in PathTo(b) <=> Starts(q, b)
    BY <1>3, PathIsStarts
  <2>2. Through(q)' = {o \in Observed \cup {new} : Starts(q, o[1])}
    BY <1>2 DEF Through
  <2> QED BY <1>7, <2>1, <2>2 DEF Through
<1>9. IsFiniteSet(Observed)
  BY DEF RouterInvariant, VisitsExact
<1>10. ASSUME NEW q \in DOMAIN nodes'
       PROVE  /\ IsFiniteSet(Through(q)) /\ new \notin Through(q)
              /\ Node(q).visits = Cardinality(Through(q))
  <2>1. Through(q) \in SUBSET Observed
    BY DEF Through
  <2>2. IsFiniteSet(Through(q)) /\ new \notin Through(q)
    BY <1>2, <1>9, <2>1, FS_Subset
  <2>3. CASE q \in DOMAIN nodes
    BY <2>2, <2>3 DEF Node, RouterInvariant, VisitsExact
  <2>4. CASE q \notin DOMAIN nodes
    <3>1. Through(q) = {}
      BY <1>3, <2>4, NodesOfThrough
    <3> QED BY <2>2, <2>4, <3>1, FS_EmptySet DEF Node
  <2> QED BY <2>3, <2>4
<1>11. VisitsExact'
  <2>1. IsFiniteSet(Observed')
    BY <1>2, <1>9, FS_AddElement
  <2>2. ASSUME NEW q \in DOMAIN nodes'
        PROVE  nodes'[q].visits = Cardinality(Through(q)')
    <3>0. nodes'[q].visits = Node(q).visits + (IF q \in PathTo(b) THEN 1 ELSE 0)
      BY <1>a
    <3>1. CASE q \in PathTo(b)
      <4>1. Cardinality(Through(q) \cup {new}) = Cardinality(Through(q)) + 1
        BY <1>10, FS_AddElement
      <4> QED BY <1>8, <1>10, <3>0, <3>1, <4>1
    <3>2. CASE q \notin PathTo(b)
      BY <1>4, <1>8, <1>10, <3>0, <3>2
    <3> QED BY <3>1, <3>2
  <2> QED BY <2>1, <2>2 DEF VisitsExact
<1>12. NodesVisited'
  <2> SUFFICES ASSUME NEW q \in DOMAIN nodes', q # <<>> PROVE Through(q)' # {}
    BY DEF NodesVisited
  <2>1. CASE q \in PathTo(b)
    BY <1>8, <2>1
  <2>2. CASE q \notin PathTo(b)
    BY <1>1, <1>8, <2>2 DEF RouterInvariant, NodesVisited
  <2> QED BY <2>1, <2>2
<1> QED BY <1>5, <1>6, <1>11, <1>12 DEF RouterInvariant

-----------------------------------------------------------------------------
\* Every step of the router keeps RouterInvariant and is a step of PrefixIndex.
LEMMA IndexSharing ==
  \A q : Index!Sharing(q) = Through(q)
BY DEF Index!Sharing, Through, Index!Starts, Starts, Index!Prefix, Prefix

LEMMA IndexCardinality ==
  \A S : Index!Cardinality(S) = Cardinality(S)
BY DEF Index!Cardinality, Cardinality

LEMMA PassIgnores ==
  ASSUME NEW p \in Inputs, RouterInvariant, Pass(p)
  PROVE  RouterInvariant' /\ Index!Ignore(p)
<1>1. UNCHANGED <<enabled, nodes>>
  BY DEF Pass
<1>2. Observed' = Observed
  BY <1>1 DEF Observed
<1>3. \A q : Through(q)' = Through(q)
  BY <1>2 DEF Through
<1>4. RouterInvariant'
  BY <1>1, <1>2, <1>3
     DEF RouterInvariant, NodesTyped, TreeClosed, VisitsExact, NodesVisited
<1>5. /\ ~enabled \/ p = <<>>
      /\ route' = Index!Route("disabled", Len(p), 0, 0)
      /\ totals' = Index!Counted(totals, "disabled", 0)
  BY DEF Pass, Route, Counted, Saved, Index!Route, Index!Counted, Index!Saved
<1> QED BY <1>1, <1>2, <1>4, <1>5 DEF Index!Ignore

LEMMA MatchCompares ==
  ASSUME NEW p \in Inputs, RouterInvariant,
         NEW n, NEW v \in Nat, MatchAndInsert(p, n, v)
  PROVE  RouterInvariant' /\ Index!Compare(p, n) /\ n \in 0 .. Len(Bounded(p))
<1> DEFINE b == Bounded(p)
<1>1. b \in Seq(Tokens)
  BY BoundedIn
<1>2. /\ enabled /\ p # <<>> /\ UNCHANGED enabled
      /\ route' = Route(Kind(n), Len(p), n, v)
      /\ totals' = Counted(totals, Kind(n), n)
      /\ IsMatched(b, n) /\ IsMostVisited(b, v) /\ Insert(b)
  BY DEF MatchAndInsert
<1>3. b = Index!Bounded(p)
  BY DEF Bounded, Prefix, Index!Bounded, Index!Prefix
<1> HIDE DEF b
<1>4. RouterInvariant'
  BY <1>1, <1>2, InsertKeeps
<1>5. Index!IsMatch(b, n) /\ n \in 0 .. Len(b)
  <2>1. /\ n \in 0 .. Len(b)
        /\ n > 0 => Through(Prefix(b, n)) # {}
        /\ \A m \in n + 1 .. Len(b) : Through(Prefix(b, m)) = {}
    BY <1>1, <1>2, MatchIsLongest
  <2>2. \A m : Index!Prefix(b, m) = Prefix(b, m)
    BY DEF Index!Prefix, Prefix
  <2> QED BY <2>1, <2>2, IndexSharing DEF Index!IsMatch
<1>6. v = IF n = 0 THEN 0 ELSE Index!Cardinality(Index!Sharing(Index!Prefix(b, 1)))
  <2>1. v = IF n = 0 THEN 0 ELSE Cardinality(Through(Prefix(b, 1)))
    BY <1>1, <1>2, MostVisitedIsFirst
  <2>2. Index!Prefix(b, 1) = Prefix(b, 1)
    BY DEF Index!Prefix, Prefix
  <2>3. Index!Sharing(Index!Prefix(b, 1)) = Through(Prefix(b, 1))
    BY <2>2, IndexSharing
  <2> QED BY <2>1, <2>3, IndexCardinality
<1>7. route' = Index!Route(Index!Kind(n), Len(p), n, v)
  BY <1>2 DEF Route, Kind, Saved, Index!Route, Index!Kind, Index!Saved
<1>8. totals' = Index!Counted(totals, Index!Kind(n), n)
  BY <1>2 DEF Counted, Kind, Saved, Index!Counted, Index!Kind, Index!Saved
<1>9. Observed' = Observed \cup
        {<<b, 1 + Index!Cardinality({o \in Observed : o[1] = b})>>}
  <2> DEFINE t == Node(b).terminal
  <2>1. Observed' = Observed \cup {<<b, t + 1>>}
    BY <1>1, <1>2, InsertObserves
  <2>2. t \in Nat /\ Cardinality({o \in Observed : o[1] = b}) = t
    BY <1>1, TerminalCounts
  <2> HIDE DEF t
  <2>3. Index!Cardinality({o \in Observed : o[1] = b}) = t
    BY <2>2, IndexCardinality
  <2>4. t + 1 = 1 + t
    BY <2>2
  <2> QED BY <2>1, <2>3, <2>4
<1>10. Index!Compare(p, n)
  BY <1>2, <1>3, <1>5, <1>6, <1>7, <1>8, <1>9 DEF Index!Compare
<1> QED BY <1>4, <1>5, <1>10 DEF b

\* totals.requests bounds the visits that observe() may find, so it is a natural.
TotalsTyped == totals.requests \in Nat

LEMMA RouterStep ==
  ASSUME RouterInvariant, TotalsTyped, [\E p \in Inputs : Observe(p)]_routerVars
  PROVE  RouterInvariant' /\ TotalsTyped' /\ [Index!Next]_(Index!vars)
<1>1. ASSUME NEW p \in Inputs, Observe(p)
      PROVE  RouterInvariant' /\ TotalsTyped' /\ Index!Next
  <2>1. CASE Pass(p)
    <3>1. RouterInvariant' /\ Index!Ignore(p)
      BY <2>1, PassIgnores
    <3>2. TotalsTyped'
      BY <2>1 DEF Pass, Counted, TotalsTyped
    <3> QED BY <3>1, <3>2 DEF Index!Next
  <2>2. CASE \E n \in 0 .. Len(Bounded(p)), v \in 0 .. totals.requests : MatchAndInsert(p, n, v)
    <3>1. PICK n \in 0 .. Len(Bounded(p)), v \in 0 .. totals.requests : MatchAndInsert(p, n, v)
      BY <2>2
    <3>2. v \in Nat
      BY <3>1 DEF TotalsTyped
    <3>3. RouterInvariant' /\ Index!Compare(p, n) /\ n \in 0 .. Len(Bounded(p))
      BY <3>1, <3>2, MatchCompares
    <3>4. Bounded(p) = Index!Bounded(p)
      BY DEF Bounded, Prefix, Index!Bounded, Index!Prefix
    <3>5. TotalsTyped'
      BY <3>1 DEF MatchAndInsert, Counted, TotalsTyped
    <3> QED BY <3>3, <3>4, <3>5 DEF Index!Next
  <2> QED BY <1>1, <2>1, <2>2 DEF Observe
<1>2. CASE UNCHANGED routerVars
  <2>1. UNCHANGED <<enabled, nodes, totals, route>>
    BY <1>2 DEF routerVars
  <2>2. Observed' = Observed
    BY <2>1 DEF Observed
  <2>3. \A q : Through(q)' = Through(q)
    BY <2>2 DEF Through
  <2>4. RouterInvariant'
    BY <2>1, <2>2, <2>3
       DEF RouterInvariant, NodesTyped, TreeClosed, VisitsExact, NodesVisited
  <2> QED BY <2>1, <2>2, <2>4 DEF TotalsTyped, Index!vars
<1> QED BY <1>1, <1>2

LEMMA RouterStarts ==
  ASSUME RouterInit
  PROVE  RouterInvariant /\ TotalsTyped /\ Index!Init
<1>1. /\ DOMAIN nodes = {<<>>}
      /\ nodes[<<>>] = [visits |-> 0, terminal |-> 0]
  BY DEF RouterInit
<1>2. Observed = {}
  <2>1. \A q \in DOMAIN nodes : 1 .. nodes[q].terminal = {}
    BY <1>1
  <2> QED BY <2>1, ObservedPairs
<1>3. \A q : Through(q) = {}
  BY <1>2 DEF Through
<1>4. NodesTyped
  BY <1>1 DEF NodesTyped
<1>5. TreeClosed
  <2>1. Prefix(<<>>, 0) = <<>>
    BY SubSeqEmpty DEF Prefix
  <2> QED BY <1>1, <2>1 DEF TreeClosed
<1>6. VisitsExact
  <2>1. IsFiniteSet(Observed)
    BY <1>2, FS_EmptySet
  <2>2. \A q \in DOMAIN nodes : nodes[q].visits = 0
    BY <1>1
  <2>3. \A q : Cardinality(Through(q)) = 0
    BY <1>3, FS_EmptySet
  <2> QED BY <2>1, <2>2, <2>3 DEF VisitsExact
<1>7. NodesVisited
  BY <1>1 DEF NodesVisited
<1>8. Index!Init
  BY <1>2 DEF RouterInit, Route, Saved, Index!Init, Index!Route, Index!Saved
<1> QED BY <1>4, <1>5, <1>6, <1>7, <1>8 DEF RouterInvariant, TotalsTyped, RouterInit

-----------------------------------------------------------------------------
\* In every run of prefix_router.py's observe, the tree is closed under prefixes and
\* the visits of a node are the prompts that were inserted through it.
THEOREM TreeCorrect == RouterSpec => []RouterInvariant
<1>1. RouterInit => RouterInvariant /\ TotalsTyped
  BY RouterStarts
<1>2. RouterInvariant /\ TotalsTyped /\ [\E p \in Inputs : Observe(p)]_routerVars
        => RouterInvariant' /\ TotalsTyped'
  BY RouterStep
<1> QED BY <1>1, <1>2, PTL DEF RouterSpec

\* The router implements PrefixIndex: observe() matches the longest prefix shared with
\* an earlier prompt, and never the prompt itself, for every vocabulary and bound.
THEOREM IndexImplemented == RouterSpec => RoutesLikeIndex
<1>1. RouterInit => RouterInvariant /\ TotalsTyped /\ Index!Init
  BY RouterStarts
<1>2. RouterInvariant /\ TotalsTyped /\ [\E p \in Inputs : Observe(p)]_routerVars
        => RouterInvariant' /\ TotalsTyped' /\ [Index!Next]_(Index!vars)
  BY RouterStep
<1> QED BY <1>1, <1>2, PTL DEF RouterSpec, RoutesLikeIndex, Index!Spec

-----------------------------------------------------------------------------
(* Bytes *)

BytesOf(c, K) == [k \in K |-> c.entry[k].bytes]
Sized(c, K) == \A k \in K : c.entry[k].bytes \in Nat
SameBytes(c, d, K) == \A k \in K : c.entry[k].bytes = d.entry[k].bytes

\* Bytes counts the units of the entries' sizes.
LEMMA BytesIsCount ==
  ASSUME NEW c, NEW K, IsFiniteSet(K), \A k \in K : c.entry[k].bytes \in Nat
  PROVE  Bytes(c, K) = Cardinality(Units(BytesOf(c, K), K))
<1> DEFINE w == BytesOf(c, K)
           f == CHOOSE g : g = [s \in SUBSET K |->
                  IF s = {} THEN 0 ELSE c.entry[Chosen(s)].bytes + g[s \ {Chosen(s)}]]
           count == [s \in SUBSET K |-> Cardinality(Units(w, s))]
<1>1. Bytes(c, K) = f[K]
  BY DEF Bytes, MapThenSumSet, MapThenFoldSet, Chosen
<1>2. w \in [K -> Nat]
  BY DEF BytesOf
<1>3. \A s \in SUBSET K : s # {} => Chosen(s) \in K /\ w[Chosen(s)] = c.entry[Chosen(s)].bytes
  BY DEF Chosen, BytesOf
<1> HIDE DEF w
<1>4. SumsUp(count, w, K)
  BY <1>2, CountingSumsUp
<1>5. count = [s \in SUBSET K |->
        IF s = {} THEN 0 ELSE c.entry[Chosen(s)].bytes + count[s \ {Chosen(s)}]]
  <2> HIDE DEF count
  <2> QED BY <1>3, <1>4 DEF SumsUp
<1>6. f = [s \in SUBSET K |->
        IF s = {} THEN 0 ELSE c.entry[Chosen(s)].bytes + f[s \ {Chosen(s)}]]
  <2> HIDE DEF count
  <2> QED BY <1>5
<1> HIDE DEF f
<1>7. SumsUp(f, w, K)
  BY <1>3, <1>6 DEF SumsUp
<1>8. f[K] = Cardinality(Units(w, K))
  BY <1>2, <1>7, SumsAreCounts
<1> QED BY <1>1, <1>8 DEF w

\* Bytes depends on the sizes only, and what is left when some entries go is what
\* they do not hold.
LEMMA BytesLess ==
  ASSUME NEW c, NEW d, NEW K, NEW O, IsFiniteSet(K), O \subseteq K,
         Sized(c, K), SameBytes(d, c, K \ O)
  PROVE  /\ Bytes(c, K) \in Nat /\ Bytes(c, O) \in Nat /\ Bytes(d, K \ O) \in Nat
         /\ Bytes(d, K \ O) = Bytes(c, K) - Bytes(c, O)
<1> DEFINE A == K \ O
           v == BytesOf(c, K)
           part == Cardinality(Units(v, A))
           gone == Cardinality(Units(v, O))
           whole == Cardinality(Units(v, K))
<1>1. IsFiniteSet(A) /\ IsFiniteSet(O) /\ A \cap O = {} /\ A \cup O = K
  BY FS_Subset
<1>2. \A k \in K : c.entry[k].bytes \in Nat /\ v[k] = c.entry[k].bytes
  BY DEF Sized, BytesOf
<1>3. \A k \in A : d.entry[k].bytes = c.entry[k].bytes
  BY DEF SameBytes
<1> HIDE DEF A, v
<1>4. Bytes(c, K) = whole
  BY <1>2, BytesIsCount DEF v
<1>5. Bytes(c, O) = gone
  <2>1. \A k \in O : c.entry[k].bytes \in Nat
    BY <1>2
  <2>2. Bytes(c, O) = Cardinality(Units(BytesOf(c, O), O))
    BY <1>1, <2>1, BytesIsCount
  <2>3. \A k \in O : BytesOf(c, O)[k] = v[k]
    BY <1>2 DEF BytesOf
  <2> QED BY <2>2, <2>3, UnitsSame
<1>6. Bytes(d, A) = part
  <2>1. \A k \in A : d.entry[k].bytes \in Nat
    BY <1>1, <1>2, <1>3
  <2>2. Bytes(d, A) = Cardinality(Units(BytesOf(d, A), A))
    BY <1>1, <2>1, BytesIsCount
  <2>3. \A k \in A : BytesOf(d, A)[k] = v[k]
    BY <1>1, <1>2, <1>3 DEF BytesOf
  <2> QED BY <2>2, <2>3, UnitsSame
<1>7. part \in Nat /\ gone \in Nat /\ whole = part + gone
  <2>1. \A k \in A : v[k] \in Nat
    BY <1>1, <1>2
  <2>2. \A k \in O : v[k] \in Nat
    BY <1>2
  <2>3. \A k \in A \cup O : v[k] \in Nat
    BY <2>1, <2>2
  <2>4. part \in Nat /\ gone \in Nat
    BY <1>1, <2>1, <2>2, UnitsFinite
  <2>5. Cardinality(Units(v, A \cup O)) = part + gone
    BY <1>1, <2>3, UnitsSplit
  <2> QED BY <1>1, <2>4, <2>5
<1> HIDE DEF part, gone, whole
<1>8. whole \in Nat /\ part = whole - gone
  BY <1>7
<1> QED BY <1>4, <1>5, <1>6, <1>7, <1>8 DEF A

LEMMA BytesOfOne ==
  ASSUME NEW c, NEW k, c.entry[k].bytes \in Nat
  PROVE  Bytes(c, {k}) = c.entry[k].bytes
<1>1. IsFiniteSet({k})
  BY FS_Singleton
<1>2. Bytes(c, {k}) = Cardinality(Units(BytesOf(c, {k}), {k}))
  BY <1>1, BytesIsCount
<1>3. BytesOf(c, {k})[k] = c.entry[k].bytes
  BY DEF BytesOf
<1> QED BY <1>2, <1>3, UnitsOfOne

LEMMA BytesOfNone == \A c : Bytes(c, {}) = 0
<1>1. ASSUME NEW c PROVE Bytes(c, {}) = 0
  <2>1. Bytes(c, {}) = Cardinality(Units(BytesOf(c, {}), {}))
    BY FS_EmptySet, BytesIsCount
  <2> QED BY <2>1, UnitsOfNone
<1> QED BY <1>1

-----------------------------------------------------------------------------
(* One cache *)

\* The order lists each key once.
Listed(order, K) ==
  /\ order \in Seq(K)
  /\ \A i, j \in 1 .. Len(order) : order[i] = order[j] => i = j
  /\ \A k \in K : \E i \in 1 .. Len(order) : order[i] = k

Typed(c, t) == \A k \in Keys(c) : c.entry[k] \in [bytes : Nat, created : 0 .. t, used : 0 .. t]

ByUse(c) ==
  \A i, j \in 1 .. Len(c.order) : i < j => c.entry[c.order[i]].used <= c.entry[c.order[j]].used

\* A cache whose total is exact, but which may exceed its bounds.
Exact(c, t) ==
  /\ Listed(c.order, Keys(c)) /\ Typed(c, t) /\ ByUse(c)
  /\ c.bytes = Bytes(c, Keys(c))

LEMMA KeysCounted ==
  ASSUME NEW order, NEW K, Listed(order, K)
  PROVE  IsFiniteSet(K) /\ Cardinality(K) = Len(order) /\ Len(order) \in Nat
<1>1. Len(order) \in Nat /\ order \in [1 .. Len(order) -> K]
  BY DEF Listed
<1>2. /\ \A i, j \in 1 .. Len(order) : order[i] = order[j] => i = j
      /\ \A k \in K : \E i \in 1 .. Len(order) : order[i] = k
  BY DEF Listed
<1> QED BY <1>1, <1>2, NumberedSet

\* What Without leaves: the other keys, in their order.
LEMMA WithoutLists ==
  ASSUME NEW order, NEW K, Listed(order, K), NEW k \in K
  PROVE  /\ Listed(Without(order, k), K \ {k})
         /\ Len(Without(order, k)) = Len(order) - 1
         /\ \E place \in 1 .. Len(order) :
              \A i \in 1 .. Len(order) - 1 :
                Without(order, k)[i] = order[IF i < place THEN i ELSE i + 1]
<1> DEFINE n == Len(order)
           place == CHOOSE i \in 1 .. n : order[i] = k
           rest == Without(order, k)
           at(i) == IF i < place THEN i ELSE i + 1
<1>1. n \in Nat /\ order \in [1 .. n -> K]
  BY DEF Listed
<1>2. place \in 1 .. n /\ order[place] = k
  BY DEF Listed
<1>3. rest = [i \in 1 .. n - 1 |-> order[at(i)]]
  BY DEF Without
<1>4. \A i, j \in 1 .. n : order[i] = order[j] => i = j
  BY DEF Listed
<1>5. \A i \in K : \E j \in 1 .. n : order[j] = i
  BY DEF Listed
<1> HIDE DEF n, place, rest
<1>6. \A i \in 1 .. n - 1 : at(i) \in 1 .. n /\ at(i) # place
  BY <1>1, <1>2
<1>7. \A i \in 1 .. n - 1 : rest[i] \in K \ {k}
  <2>1. ASSUME NEW i \in 1 .. n - 1 PROVE order[at(i)] \in K \ {k}
    <3>1. at(i) \in 1 .. n /\ at(i) # place
      BY <1>6
    <3> HIDE DEF at
    <3> QED BY <1>1, <1>2, <1>4, <3>1
  <2> QED BY <1>3, <2>1
<1>8. n - 1 \in Nat /\ Len(rest) = n - 1 /\ rest \in Seq(K \ {k})
  BY <1>1, <1>2, <1>3, <1>7
<1>9. ASSUME NEW i \in 1 .. n - 1, NEW j \in 1 .. n - 1, rest[i] = rest[j] PROVE i = j
  <2>1. order[at(i)] = order[at(j)]
    BY <1>3, <1>9
  <2>2. at(i) = at(j)
    BY <1>4, <1>6, <2>1
  <2> QED BY <1>1, <1>2, <2>2
<1>10. ASSUME NEW l \in K \ {k} PROVE \E i \in 1 .. n - 1 : rest[i] = l
  <2>1. PICK j \in 1 .. n : order[j] = l
    BY <1>5
  <2>2. j # place
    BY <1>2, <2>1
  <2> DEFINE i == IF j < place THEN j ELSE j - 1
  <2>3. i \in 1 .. n - 1 /\ at(i) = j
    BY <1>1, <1>2, <2>2
  <2>4. rest[i] = l
    BY <1>3, <2>1, <2>3
  <2> QED BY <2>3, <2>4
<1>11. Listed(rest, K \ {k})
  BY <1>8, <1>9, <1>10 DEF Listed
<1> QED BY <1>2, <1>3, <1>8, <1>11 DEF rest, n

LEMMA ExactBytes ==
  ASSUME NEW c, NEW t, Exact(c, t)
  PROVE  c.bytes \in Nat
<1>1. Listed(c.order, Keys(c)) /\ Typed(c, t) /\ c.bytes = Bytes(c, Keys(c))
  BY DEF Exact
<1>2. IsFiniteSet(Keys(c)) /\ Keys(c) \subseteq Keys(c)
  BY <1>1, KeysCounted
<1>3. Sized(c, Keys(c)) /\ SameBytes(c, c, Keys(c) \ Keys(c))
  BY <1>1 DEF Sized, SameBytes, Typed
<1>4. Bytes(c, Keys(c)) \in Nat
  BY <1>2, <1>3, BytesLess
<1> QED BY <1>1, <1>4

\* _evict keeps a cache exact.
LEMMA EvictExact ==
  ASSUME NEW c, NEW t, Exact(c, t), NEW k \in Keys(c)
  PROVE  /\ Exact(Evict(c, k), t)
         /\ Keys(Evict(c, k)) = Keys(c) \ {k}
         /\ Evict(c, k).bytes = c.bytes - c.entry[k].bytes
         /\ \A j \in Keys(c) \ {k} : Evict(c, k).entry[j] = c.entry[j]
<1> DEFINE d == Evict(c, k)
           K == Keys(c)
           n == Len(c.order)
<1>1. /\ Keys(d) = K \ {k}
      /\ d.order = Without(c.order, k)
      /\ d.bytes = c.bytes - c.entry[k].bytes
      /\ \A j \in K \ {k} : d.entry[j] = c.entry[j]
  BY DEF Evict, Keys
<1>2. Listed(c.order, K) /\ Typed(c, t) /\ ByUse(c) /\ c.bytes = Bytes(c, K)
  BY DEF Exact
<1>3. IsFiniteSet(K) /\ n \in Nat
  BY <1>2, KeysCounted
<1>4. /\ Listed(d.order, Keys(d)) /\ Len(d.order) = n - 1
      /\ \E place \in 1 .. n :
           \A i \in 1 .. n - 1 : d.order[i] = c.order[IF i < place THEN i ELSE i + 1]
  <2>1. k \in K
    OBVIOUS
  <2> HIDE DEF d, K
  <2>2. /\ Listed(Without(c.order, k), K \ {k}) /\ Len(Without(c.order, k)) = Len(c.order) - 1
        /\ \E place \in 1 .. Len(c.order) :
             \A i \in 1 .. Len(c.order) - 1 :
               Without(c.order, k)[i] = c.order[IF i < place THEN i ELSE i + 1]
    BY <1>2, <2>1, WithoutLists
  <2> QED BY <1>1, <2>2
<1> HIDE DEF d, K
<1>5. Typed(d, t)
  BY <1>1, <1>2 DEF Typed, K
<1>6. ByUse(d)
  <2>1. PICK place \in 1 .. n :
          \A i \in 1 .. n - 1 : d.order[i] = c.order[IF i < place THEN i ELSE i + 1]
    BY <1>4
  <2>2. ASSUME NEW i \in 1 .. n - 1, NEW j \in 1 .. n - 1, i < j
        PROVE  d.entry[d.order[i]].used <= d.entry[d.order[j]].used
    <3> DEFINE p == IF i < place THEN i ELSE i + 1
               q == IF j < place THEN j ELSE j + 1
    <3>1. p \in 1 .. n /\ q \in 1 .. n /\ p < q
      BY <1>3, <2>2
    <3>2. d.order[i] = c.order[p] /\ d.order[j] = c.order[q]
      BY <2>1
    <3> HIDE DEF p, q
    <3>3. c.entry[c.order[p]].used <= c.entry[c.order[q]].used
      BY <1>2, <3>1 DEF ByUse
    <3>4. d.order[i] \in Keys(d) /\ d.order[j] \in Keys(d)
      <4>1. d.order \in Seq(Keys(d)) /\ Len(d.order) = n - 1
        BY <1>4 DEF Listed
      <4>2. d.order \in [1 .. n - 1 -> Keys(d)]
        BY <4>1
      <4> QED BY <4>2
    <3> QED BY <1>1, <3>2, <3>3, <3>4
  <2> HIDE DEF n
  <2> QED BY <1>4, <2>2 DEF ByUse
<1>7. d.bytes = Bytes(d, Keys(d))
  <2>1. Sized(c, K)
    BY <1>2 DEF Typed, K, Sized
  <2>2. {k} \subseteq K /\ SameBytes(d, c, K \ {k})
    BY <1>1 DEF K, SameBytes
  <2>3. Bytes(d, K \ {k}) = Bytes(c, K) - Bytes(c, {k})
    BY <1>3, <2>1, <2>2, BytesLess
  <2>4. Bytes(c, {k}) = c.entry[k].bytes
    BY <2>1, <2>2, BytesOfOne DEF Sized
  <2> QED BY <1>1, <1>2, <2>3, <2>4
<1>8. Exact(d, t)
  BY <1>4, <1>5, <1>6, <1>7 DEF Exact
<1> QED BY <1>1, <1>8 DEF d, K

\* _evict n times, from the front.
LEMMA EvictOldestExact ==
  ASSUME NEW c, NEW t, Exact(c, t), NEW n \in 0 .. Len(c.order)
  PROVE  /\ Exact(EvictOldest(c, n), t)
         /\ Keys(EvictOldest(c, n)) \subseteq Keys(c)
         /\ Cardinality(Keys(EvictOldest(c, n))) = Cardinality(Keys(c)) - n
         /\ EvictOldest(c, n).bytes <= c.bytes
         /\ \A k \in Keys(EvictOldest(c, n)) : EvictOldest(c, n).entry[k] = c.entry[k]
<1> DEFINE d == EvictOldest(c, n)
           K == Keys(c)
           O == Oldest(c, n)
           l == Len(c.order)
<1>1. /\ Keys(d) = K \ O
      /\ d.order = SubSeq(c.order, n + 1, l)
      /\ d.bytes = c.bytes - Bytes(c, O)
      /\ \A j \in K \ O : d.entry[j] = c.entry[j]
  BY DEF EvictOldest, Keys
<1>2. Listed(c.order, K) /\ Typed(c, t) /\ ByUse(c) /\ c.bytes = Bytes(c, K)
  BY DEF Exact
<1>3. IsFiniteSet(K) /\ l \in Nat /\ Cardinality(K) = l
  BY <1>2, KeysCounted
<1>4. /\ c.order \in Seq(K)
      /\ \A i, j \in 1 .. l : c.order[i] = c.order[j] => i = j
      /\ \A k \in K : \E i \in 1 .. l : c.order[i] = k
  BY <1>2 DEF Listed
<1>5. /\ d.order \in Seq(K) /\ Len(d.order) = l - n
      /\ \A i \in 1 .. l - n : d.order[i] = c.order[i + n] /\ i + n \in 1 .. l
  <2>1. ASSUME NEW s \in Seq(K), NEW m \in 0 .. Len(s)
        PROVE  /\ SubSeq(s, m + 1, Len(s)) \in Seq(K)
               /\ Len(SubSeq(s, m + 1, Len(s))) = Len(s) - m
               /\ \A i \in 1 .. Len(s) - m : SubSeq(s, m + 1, Len(s))[i] = s[i + m]
    BY <2>1
  <2>2. \A i \in 1 .. l - n : i + n \in 1 .. l
    BY <1>3
  <2> HIDE DEF d, K
  <2> QED BY <1>1, <1>4, <2>1, <2>2
<1>6. O = {c.order[i] : i \in 1 .. n} /\ O \subseteq K
  BY <1>3, <1>4 DEF Oldest
<1> HIDE DEF d, K, O, l
<1>7. ASSUME NEW i \in 1 .. l PROVE c.order[i] \in O <=> i <= n
  <2>1. n \in Nat /\ l \in Nat /\ n <= l /\ 1 .. n \subseteq 1 .. l
    BY <1>3 DEF l
  <2>2. ASSUME c.order[i] \in O PROVE i <= n
    <3>1. PICK j \in 1 .. n : c.order[i] = c.order[j]
      BY <1>6, <2>2
    <3>2. i = j
      BY <1>4, <2>1, <3>1
    <3> QED BY <3>2
  <2>3. ASSUME i <= n PROVE c.order[i] \in O
    <3>1. i \in 1 .. n
      BY <2>1, <2>3
    <3> QED BY <1>6, <3>1
  <2> QED BY <2>2, <2>3
<1>8. Listed(d.order, Keys(d))
  <2>1. ASSUME NEW i \in 1 .. l - n PROVE d.order[i] \in K \ O
    <3> DEFINE p == i + n
    <3>0. p \in 1 .. l /\ ~(p <= n)
      BY <1>3, <1>5 DEF l
    <3> HIDE DEF p
    <3>1. c.order[i + n] \notin O
      BY <1>7, <3>0 DEF p
    <3>2. c.order[i + n] \in K
      BY <1>4, <1>5 DEF l
    <3> QED BY <1>5, <3>1, <3>2
  <2>2. d.order \in Seq(K \ O)
    BY <1>5, <2>1
  <2>3. ASSUME NEW i \in 1 .. l - n, NEW j \in 1 .. l - n, d.order[i] = d.order[j]
        PROVE  i = j
    <3> DEFINE p == i + n
               q == j + n
    <3>1. p \in 1 .. l /\ q \in 1 .. l /\ d.order[i] = c.order[p] /\ d.order[j] = c.order[q]
      BY <1>5
    <3> HIDE DEF p, q
    <3>2. p = q
      BY <1>4, <2>3, <3>1
    <3> QED BY <1>3, <3>2 DEF p, q, l
  <2>4. ASSUME NEW k \in K \ O PROVE \E i \in 1 .. l - n : d.order[i] = k
    <3>1. PICK j \in 1 .. l : c.order[j] = k
      BY <1>4
    <3>2. ~(j <= n)
      BY <1>7, <3>1
    <3>3. j - n \in 1 .. l - n /\ (j - n) + n = j
      BY <1>3, <3>2 DEF l
    <3> QED BY <1>5, <3>1, <3>3
  <2> QED BY <1>1, <1>5, <2>2, <2>3, <2>4 DEF Listed
<1>9. Typed(d, t)
  BY <1>1, <1>2 DEF Typed, K
<1>10. ByUse(d)
  <2>1. ASSUME NEW i \in 1 .. l - n, NEW j \in 1 .. l - n, i < j
        PROVE  d.entry[d.order[i]].used <= d.entry[d.order[j]].used
    <3>1. i + n < j + n /\ i + n \in 1 .. l /\ j + n \in 1 .. l
      BY <1>5, <2>1
    <3>2. c.entry[c.order[i + n]].used <= c.entry[c.order[j + n]].used
      BY <1>2, <3>1 DEF ByUse, l
    <3>3. d.order[i] \in Keys(d) /\ d.order[j] \in Keys(d)
      <4>1. d.order \in [1 .. l - n -> Keys(d)]
        BY <1>5, <1>8 DEF Listed
      <4> QED BY <4>1
    <3> QED BY <1>1, <1>5, <3>2, <3>3
  <2> QED BY <1>5, <2>1 DEF ByUse
<1>11. /\ d.bytes = Bytes(d, Keys(d)) /\ d.bytes <= c.bytes
  <2>1. Sized(c, K)
    BY <1>2 DEF Typed, K, Sized
  <2>2. SameBytes(d, c, K \ O)
    BY <1>1 DEF SameBytes
  <2>3. /\ Bytes(c, K) \in Nat /\ Bytes(c, O) \in Nat
        /\ Bytes(d, K \ O) = Bytes(c, K) - Bytes(c, O)
    <3>1. IsFiniteSet(K) /\ O \subseteq K
      BY <1>3, <1>6
    <3> QED BY <2>1, <2>2, <3>1, BytesLess, SMTT(30)
  <2> DEFINE whole == Bytes(c, K)
             gone == Bytes(c, O)
  <2>4. /\ whole \in Nat /\ gone \in Nat /\ d.bytes = whole - gone /\ c.bytes = whole
        /\ Bytes(d, Keys(d)) = whole - gone
    BY <1>1, <1>2, <2>3
  <2> HIDE DEF whole, gone
  <2> QED BY <2>4
<1>12. Exact(d, t)
  BY <1>8, <1>9, <1>10, <1>11 DEF Exact
<1>13. Cardinality(Keys(d)) = l - n
  BY <1>5, <1>8, KeysCounted
<1> QED BY <1>1, <1>3, <1>11, <1>12, <1>13 DEF d, K
\* A new key at the end of the order.
LEMMA AppendLists ==
  ASSUME NEW order, NEW K, Listed(order, K), NEW k, k \notin K
  PROVE  Listed(Append(order, k), K \cup {k})
<1> DEFINE n == Len(order)
           more == Append(order, k)
<1>1. order \in Seq(K) /\ n \in Nat
  BY DEF Listed
<1>2. /\ more \in Seq(K \cup {k}) /\ Len(more) = n + 1
      /\ \A i \in 1 .. n : more[i] = order[i] /\ order[i] \in K
      /\ more[n + 1] = k
  BY <1>1
<1>3. /\ \A i, j \in 1 .. n : order[i] = order[j] => i = j
      /\ \A l \in K : \E i \in 1 .. n : order[i] = l
  BY DEF Listed
<1> HIDE DEF n, more
<1>4. \A i \in 1 .. n + 1 : i \in 1 .. n \/ i = n + 1
  BY <1>1
<1>5. ASSUME NEW i \in 1 .. n + 1, NEW j \in 1 .. n + 1, more[i] = more[j]
      PROVE  i = j
  BY <1>2, <1>3, <1>4, <1>5
<1>6. ASSUME NEW l \in K \cup {k} PROVE \E i \in 1 .. n + 1 : more[i] = l
  <2>1. CASE l = k
    BY <1>1, <1>2, <2>1
  <2>2. CASE l \in K
    <3>1. PICK i \in 1 .. n : order[i] = l
      BY <1>3, <2>2
    <3>2. i \in 1 .. n + 1
      BY <1>1
    <3> QED BY <1>2, <3>1, <3>2
  <2> QED BY <2>1, <2>2
<1>7. Listed(more, K \cup {k})
  BY <1>2, <1>5, <1>6 DEF Listed
<1> QED BY <1>7 DEF more

\* What was just used goes to the end.
LEMMA UsedLast ==
  ASSUME NEW c, NEW t \in Nat, Exact(c, t), NEW d, NEW k, k \notin Keys(c),
         d.order = Append(c.order, k), Keys(d) = Keys(c) \cup {k},
         \A j \in Keys(c) : d.entry[j] = c.entry[j],
         d.entry[k].used = t
  PROVE  ByUse(d)
<1> DEFINE n == Len(c.order)
           K == Keys(c)
<1>1. Listed(c.order, K) /\ Typed(c, t) /\ ByUse(c)
  BY DEF Exact
<1>2. n \in Nat
  BY <1>1, KeysCounted
<1>3. /\ Len(d.order) = n + 1
      /\ \A i \in 1 .. n : d.order[i] = c.order[i] /\ c.order[i] \in K
      /\ d.order[n + 1] = k
  <2>1. c.order \in Seq(K) /\ d.order = Append(c.order, k)
    BY <1>1 DEF Listed
  <2> HIDE DEF K
  <2> QED BY <2>1
<1>4. \A j \in K : d.entry[j] = c.entry[j] /\ c.entry[j].used \in 0 .. t
  BY <1>1 DEF Typed
<1>5. \A i, j \in 1 .. n : i < j => c.entry[c.order[i]].used <= c.entry[c.order[j]].used
  BY <1>1 DEF ByUse
<1> HIDE DEF n, K
<1>6. ASSUME NEW i \in 1 .. n + 1, NEW j \in 1 .. n + 1, i < j
      PROVE  d.entry[d.order[i]].used <= d.entry[d.order[j]].used
  <2>1. i \in 1 .. n /\ (j \in 1 .. n \/ j = n + 1)
    BY <1>2, <1>6
  <2>2. CASE j \in 1 .. n
    <3>1. c.entry[c.order[i]].used <= c.entry[c.order[j]].used
      BY <1>5, <1>6, <2>1, <2>2
    <3>2. /\ d.entry[d.order[i]] = c.entry[c.order[i]]
          /\ d.entry[d.order[j]] = c.entry[c.order[j]]
      BY <1>3, <1>4, <2>1, <2>2
    <3> QED BY <3>1, <3>2
  <2>3. CASE j = n + 1
    <3>1. d.entry[d.order[i]].used \in 0 .. t
      BY <1>3, <1>4, <2>1
    <3>2. d.entry[d.order[j]].used = t
      BY <1>3, <2>3
    <3> DEFINE x == d.entry[d.order[i]].used
               y == d.entry[d.order[j]].used
    <3> HIDE DEF x, y
    <3>3. x \in 0 .. t /\ y = t
      BY <3>1, <3>2 DEF x, y
    <3>4. x <= y
      BY <3>3
    <3> QED BY <3>4 DEF x, y
  <2> QED BY <2>1, <2>2, <2>3
<1> QED BY <1>3, <1>6 DEF ByUse

\* put adds an entry.
LEMMA InsertedExact ==
  ASSUME NEW c, NEW t \in Nat, Exact(c, t), NEW k, k \notin Keys(c), NEW size \in Nat
  PROVE  /\ Exact(Inserted(c, k, size, t), t)
         /\ Keys(Inserted(c, k, size, t)) = Keys(c) \cup {k}
         /\ Inserted(c, k, size, t).entry[k] = [bytes |-> size, created |-> t, used |-> t]
         /\ \A j \in Keys(c) : Inserted(c, k, size, t).entry[j] = c.entry[j]
<1> DEFINE d == Inserted(c, k, size, t)
           K == Keys(c)
<1>1. /\ Keys(d) = K \cup {k}
      /\ d.order = Append(c.order, k)
      /\ d.bytes = c.bytes + size
      /\ d.entry[k] = [bytes |-> size, created |-> t, used |-> t]
      /\ \A j \in K : d.entry[j] = c.entry[j]
  BY DEF Inserted, Keys
<1>2. Listed(c.order, K) /\ Typed(c, t) /\ c.bytes = Bytes(c, K)
  BY DEF Exact
<1>3. IsFiniteSet(K) /\ k \notin K
  BY <1>2, KeysCounted
<1> HIDE DEF d
<1>4. Listed(d.order, Keys(d))
  BY <1>1, <1>2, <1>3, AppendLists
<1>5. Typed(d, t)
  <2>1. d.entry[k] \in [bytes : Nat, created : 0 .. t, used : 0 .. t]
    BY <1>1
  <2>2. \A j \in K : d.entry[j] \in [bytes : Nat, created : 0 .. t, used : 0 .. t]
    BY <1>1, <1>2 DEF Typed
  <2> QED BY <1>1, <2>1, <2>2 DEF Typed
<1>6. ByUse(d)
  <2>1. d.entry[k].used = t
    BY <1>1
  <2> QED BY <1>1, <1>3, <2>1, UsedLast
<1> HIDE DEF K
<1>7. d.bytes = Bytes(d, Keys(d))
  <2> DEFINE D == Keys(d)
  <2>1. IsFiniteSet(D) /\ {k} \subseteq D /\ D \ {k} = K
    BY <1>1, <1>3, FS_AddElement
  <2>2. Sized(d, D)
    BY <1>5 DEF Typed, Sized
  <2>3. SameBytes(c, d, D \ {k})
    BY <1>1, <2>1 DEF SameBytes
  <2> HIDE DEF D
  <2>4. /\ Bytes(d, D) \in Nat /\ Bytes(d, {k}) \in Nat
        /\ Bytes(c, D \ {k}) = Bytes(d, D) - Bytes(d, {k})
    BY <2>1, <2>2, <2>3, BytesLess
  <2>5. Bytes(d, {k}) = size
    BY <1>1, BytesOfOne
  <2> DEFINE whole == Bytes(d, D)
  <2>6. whole \in Nat /\ c.bytes = whole - size /\ d.bytes = c.bytes + size
    BY <1>1, <1>2, <2>1, <2>4, <2>5
  <2> HIDE DEF whole
  <2>7. d.bytes = whole
    BY <2>6
  <2> QED BY <2>7 DEF whole, D
<1>8. Exact(d, t)
  BY <1>4, <1>5, <1>6, <1>7 DEF Exact
<1> QED BY <1>1, <1>8 DEF d, K

\* A hit moves its entry to the end.
LEMMA PromotedExact ==
  ASSUME NEW c, NEW t \in Nat, Exact(c, t), NEW k \in Keys(c)
  PROVE  /\ Exact(Promoted(c, k, t), t)
         /\ Keys(Promoted(c, k, t)) = Keys(c)
         /\ Promoted(c, k, t).bytes = c.bytes
         /\ \A j \in Keys(c) : Promoted(c, k, t).entry[j].created = c.entry[j].created
<1> DEFINE d == Promoted(c, k, t)
           e == Evict(c, k)
           K == Keys(c)
<1>1. /\ Keys(d) = K /\ d.bytes = c.bytes
      /\ d.order = Append(Without(c.order, k), k)
      /\ d.entry = [c.entry EXCEPT ![k].used = t]
  BY DEF Promoted, Keys
<1>2. Listed(c.order, K) /\ Typed(c, t) /\ c.bytes = Bytes(c, K)
  BY DEF Exact
<1>3. /\ k \in K /\ \A j \in K : c.entry[j] \in [bytes : Nat, created : 0 .. t, used : 0 .. t]
  BY <1>2 DEF Typed
<1>4. /\ \A j \in K \ {k} : d.entry[j] = c.entry[j]
      /\ d.entry[k] = [c.entry[k] EXCEPT !.used = t]
  BY <1>1 DEF Keys
<1>5. Exact(e, t) /\ Keys(e) = K \ {k} /\ \A j \in K \ {k} : e.entry[j] = c.entry[j]
  BY EvictExact
<1>6. e.order = Without(c.order, k)
  BY DEF Evict
<1> HIDE DEF d, e, K
<1>7. /\ d.entry[k] \in [bytes : Nat, created : 0 .. t, used : 0 .. t]
      /\ d.entry[k].used = t /\ d.entry[k].bytes = c.entry[k].bytes
      /\ d.entry[k].created = c.entry[k].created
  BY <1>3, <1>4
<1>8. Typed(d, t)
  BY <1>1, <1>3, <1>4, <1>7 DEF Typed
<1>9. Keys(d) = Keys(e) \cup {k} /\ k \notin Keys(e)
  BY <1>1, <1>3, <1>5
<1>10. ByUse(d)
  <2>1. d.order = Append(e.order, k) /\ \A j \in Keys(e) : d.entry[j] = e.entry[j]
    BY <1>1, <1>4, <1>5, <1>6
  <2> QED BY <1>5, <1>7, <1>9, <2>1, UsedLast
<1>11. Listed(d.order, Keys(d))
  <2>1. Listed(e.order, Keys(e))
    BY <1>5 DEF Exact
  <2>2. Listed(Append(e.order, k), Keys(e) \cup {k})
    BY <1>9, <2>1, AppendLists
  <2> QED BY <1>1, <1>6, <1>9, <2>2
<1>12. d.bytes = Bytes(d, Keys(d))
  <2> DEFINE none == {}
  <2>1. IsFiniteSet(K) /\ none \subseteq K /\ K \ none = K
    BY <1>2, KeysCounted
  <2>2. Sized(c, K)
    BY <1>3 DEF Sized
  <2>3. SameBytes(d, c, K \ none)
    BY <1>4, <1>7 DEF SameBytes
  <2>4. Bytes(c, none) = 0
    BY BytesOfNone
  <2> HIDE DEF none
  <2>5. Bytes(c, K) \in Nat /\ Bytes(d, K \ none) = Bytes(c, K) - Bytes(c, none)
    BY <2>1, <2>2, <2>3, BytesLess
  <2> DEFINE whole == Bytes(c, K)
  <2>6. whole \in Nat /\ Bytes(d, K) = whole - 0
    BY <2>1, <2>4, <2>5
  <2> HIDE DEF whole
  <2>7. Bytes(d, K) = whole
    BY <2>6
  <2> QED BY <1>1, <1>2, <2>7 DEF whole
<1>13. Exact(d, t)
  BY <1>8, <1>10, <1>11, <1>12 DEF Exact
<1>14. \A j \in K : d.entry[j].created = c.entry[j].created
  BY <1>4, <1>7
<1> QED BY <1>1, <1>13, <1>14 DEF d, K

\* What get leaves.
LEMMA AfterGetExact ==
  ASSUME NEW c, NEW t \in Nat, Exact(c, t), NEW k
  PROVE  /\ Exact(AfterGet(c, k, t), t)
         /\ Keys(AfterGet(c, k, t)) = IF IsFresh(c, k, t) THEN Keys(c) ELSE Keys(c) \ {k}
         /\ AfterGet(c, k, t).bytes <= c.bytes
         /\ \A j \in Keys(AfterGet(c, k, t)) :
              AfterGet(c, k, t).entry[j].created = c.entry[j].created
<1> DEFINE d == AfterGet(c, k, t)
<1>0. c.bytes \in Nat
  BY ExactBytes
<1>1. CASE IsFresh(c, k, t)
  <2>1. k \in Keys(c) /\ d = Promoted(c, k, t)
    BY <1>1 DEF IsFresh, AfterGet
  <2> HIDE DEF d
  <2>2. /\ Exact(d, t) /\ Keys(d) = Keys(c) /\ d.bytes = c.bytes
        /\ \A j \in Keys(c) : d.entry[j].created = c.entry[j].created
    BY <2>1, PromotedExact
  <2> QED BY <1>0, <1>1, <2>2 DEF d
<1>2. CASE ~IsFresh(c, k, t) /\ k \in Keys(c)
  <2>1. d = Evict(c, k)
    BY <1>2 DEF AfterGet
  <2> HIDE DEF d
  <2>2. /\ Exact(d, t) /\ Keys(d) = Keys(c) \ {k} /\ d.bytes = c.bytes - c.entry[k].bytes
        /\ \A j \in Keys(c) \ {k} : d.entry[j] = c.entry[j]
    BY <1>2, <2>1, EvictExact
  <2>3. c.entry[k].bytes \in Nat
    BY <1>2 DEF Exact, Typed
  <2>4. d.bytes <= c.bytes
    BY <1>0, <2>2, <2>3
  <2> QED BY <1>2, <2>2, <2>4 DEF d
<1>3. CASE k \notin Keys(c)
  <2>1. d = c /\ ~IsFresh(c, k, t)
    BY <1>3 DEF AfterGet, IsFresh
  <2> QED BY <1>0, <1>3, <2>1
<1> QED BY <1>1, <1>2, <1>3

\* The eviction loop of put ends within the bounds: at the latest, with an empty
\* cache.
LEMMA SurplusFits ==
  ASSUME NEW c, NEW t, Exact(c, t)
  PROVE  Surplus(c) \in 0 .. Len(c.order) /\ Fits(EvictOldest(c, Surplus(c)))
<1> DEFINE l == Len(c.order)
           N == {n \in 0 .. l : Fits(EvictOldest(c, n))}
<1>1. l \in Nat /\ Cardinality(Keys(c)) = l
  BY KeysCounted DEF Exact
<1>2. l \in N
  <2> DEFINE d == EvictOldest(c, l)
  <2>1. l \in 0 .. l
    BY <1>1
  <2>2. Exact(d, t) /\ Cardinality(Keys(d)) = Cardinality(Keys(c)) - l
    BY <2>1, EvictOldestExact
  <2> HIDE DEF d, l
  <2>3. Cardinality(Keys(d)) = 0 /\ IsFiniteSet(Keys(d))
    BY <1>1, <2>2, KeysCounted DEF Exact
  <2>4. Keys(d) = {}
    BY <2>3, FS_EmptySet
  <2>5. d.bytes = 0
    BY <2>2, <2>4, BytesOfNone DEF Exact
  <2>6. Fits(d)
    BY <2>3, <2>5, CacheAssumption DEF Fits
  <2> QED BY <2>1, <2>6 DEF d
<1> HIDE DEF l
<1>3. N \subseteq Nat /\ N # {}
  BY <1>1, <1>2
<1> HIDE DEF N
<1>4. PICK n \in N : \A m \in N : ~(<<m, n>> \in OpToRel(<, Nat))
  BY <1>3, NatLessThanWellFounded, WFMin
<1>5. \A m \in N : ~(m < n)
  BY <1>3, <1>4 DEF OpToRel
<1>6. n \in 0 .. l /\ Fits(EvictOldest(c, n))
  BY DEF N
<1>7. ASSUME NEW m \in 0 .. n - 1 PROVE ~Fits(EvictOldest(c, m))
  <2>1. m \in 0 .. l /\ m < n
    BY <1>1, <1>6
  <2> QED BY <1>5, <2>1 DEF N
<1> QED BY <1>6, <1>7 DEF Surplus, l

\* What put leaves: a layer within its bounds, in which only the entry stored is
\* new; and it counts every entry that went.
LEMMA AfterPutExact ==
  ASSUME NEW c, NEW t \in Nat, Exact(c, t), NEW k, NEW size \in Nat, Stores(size)
  PROVE  /\ Exact(AfterPut(c, k, size, t), t) /\ Fits(AfterPut(c, k, size, t))
         /\ Keys(AfterPut(c, k, size, t)) \subseteq Keys(c) \cup {k}
         /\ EvictedByPut(c, k, size, t) \in Nat
         /\ Cardinality(Keys(AfterPut(c, k, size, t))) + EvictedByPut(c, k, size, t)
              = Cardinality(Keys(c)) + 1
         /\ \A j \in Keys(AfterPut(c, k, size, t)) :
              AfterPut(c, k, size, t).entry[j].created =
                IF j = k THEN t ELSE c.entry[j].created
<1> DEFINE b == IF Replaced(c, k) = {} THEN c ELSE Evict(c, k)
           e == Inserted(b, k, size, t)
           n == Surplus(e)
           d == EvictOldest(e, n)
           K == Keys(c)
           replaced == Cardinality(Replaced(c, k))
<1>1. e = WithNew(c, k, size, t) /\ d = AfterPut(c, k, size, t)
  BY DEF WithNew, AfterPut
<1>2. EvictedByPut(c, k, size, t) = replaced + n
  BY <1>1 DEF EvictedByPut
<1>3. IsFiniteSet(K) /\ Cardinality(K) \in Nat
  BY KeysCounted, FS_CardinalityType DEF Exact
<1>4. /\ Exact(b, t) /\ Keys(b) = K \ {k}
      /\ \A j \in K \ {k} : b.entry[j] = c.entry[j]
      /\ replaced \in Nat /\ Cardinality(K \ {k}) + replaced = Cardinality(K)
  <2>1. CASE k \in K
    <3>1. Replaced(c, k) = {k} /\ b = Evict(c, k)
      BY <2>1 DEF Replaced
    <3> HIDE DEF b
    <3>2. /\ Exact(b, t) /\ Keys(b) = K \ {k}
          /\ \A j \in K \ {k} : b.entry[j] = c.entry[j]
      BY <2>1, <3>1, EvictExact
    <3>3. replaced = 1 /\ Cardinality(K \ {k}) = Cardinality(K) - 1
      BY <1>3, <2>1, <3>1, FS_Singleton, FS_RemoveElement
    <3> HIDE DEF replaced
    <3> QED BY <1>3, <3>2, <3>3
  <2>2. CASE k \notin K
    <3>1. Replaced(c, k) = {} /\ b = c /\ K \ {k} = K
      BY <2>2 DEF Replaced
    <3>2. replaced = 0
      BY <3>1, FS_EmptySet
    <3> HIDE DEF replaced
    <3> QED BY <1>3, <3>1, <3>2
  <2> QED BY <2>1, <2>2
<1> HIDE DEF b
<1>5. /\ Exact(e, t) /\ Keys(e) = (K \ {k}) \cup {k}
      /\ e.entry[k].created = t
      /\ \A j \in K \ {k} : e.entry[j] = c.entry[j]
  <2>1. k \notin Keys(b) /\ Exact(b, t)
    BY <1>4
  <2>2. /\ Exact(e, t) /\ Keys(e) = Keys(b) \cup {k}
        /\ e.entry[k] = [bytes |-> size, created |-> t, used |-> t]
        /\ \A j \in Keys(b) : e.entry[j] = b.entry[j]
    BY <2>1, InsertedExact
  <2> QED BY <1>4, <2>2
<1>6. Cardinality(Keys(e)) = Cardinality(K \ {k}) + 1 /\ Cardinality(K \ {k}) \in Nat
  <2> DEFINE rest == K \ {k}
  <2>1. IsFiniteSet(rest) /\ k \notin rest
    BY <1>3, FS_Subset
  <2> HIDE DEF rest
  <2>2. Cardinality(rest \cup {k}) = Cardinality(rest) + 1 /\ Cardinality(rest) \in Nat
    BY <2>1, FS_AddElement, FS_CardinalityType
  <2> QED BY <1>5, <2>2 DEF rest
<1> HIDE DEF e
<1>7. n \in 0 .. Len(e.order) /\ Fits(d)
  BY <1>5, SurplusFits
<1> HIDE DEF n
<1>8. /\ Exact(d, t) /\ Keys(d) \subseteq Keys(e)
      /\ Cardinality(Keys(d)) = Cardinality(Keys(e)) - n
      /\ \A j \in Keys(d) : d.entry[j] = e.entry[j]
  BY <1>5, <1>7, EvictOldestExact
<1>9. Len(e.order) \in Nat /\ n \in Nat
  BY <1>5, <1>7, KeysCounted DEF Exact
<1> HIDE DEF d
<1>10. ASSUME NEW j \in Keys(d)
       PROVE  d.entry[j].created = IF j = k THEN t ELSE c.entry[j].created
  BY <1>5, <1>8
<1>11. Keys(d) \subseteq K \cup {k}
  BY <1>5, <1>8
<1> DEFINE left == Cardinality(Keys(d))
           full == Cardinality(Keys(e))
           others == Cardinality(K \ {k})
           had == Cardinality(K)
<1>12. /\ left = full - n /\ full = others + 1 /\ others \in Nat
       /\ others + replaced = had /\ replaced \in Nat
  BY <1>4, <1>6, <1>8
<1> HIDE DEF left, full, others, had, replaced
<1>13. left + (replaced + n) = had + 1 /\ replaced + n \in Nat
  BY <1>9, <1>12
<1> QED BY <1>1, <1>2, <1>7, <1>8, <1>10, <1>11, <1>13 DEF left, had, K
-----------------------------------------------------------------------------
(* The cache manager *)

\* The calls whose miss left no entry.
Uncached(f) == {c \in Calls : f[c] \in {"tokenizing", "failed", "returned"}}

CallStates == {"new", "hit", "tokenizing", "stored", "returned", "failed"}

LayersExact ==
  /\ Exact(prompt, now) /\ Fits(prompt) /\ Keys(prompt) \subseteq Prefixes
  /\ Exact(tokens, now) /\ Fits(tokens) /\ Keys(tokens) \subseteq Prompts
CountsTyped == operations \in [Layers -> [Results -> Nat]]
GaugeExact == gauge = prompt.bytes + tokens.bytes
CallsTyped ==
  /\ now \in 0 .. MaxTime
  /\ call \in [Calls -> CallStates]
  /\ promptOf \in [Calls -> Prompts] /\ servedAt \in [Calls -> 0 .. MaxTime]

\* An entry was stored by a call that has not forgotten it: HitHasSource needs it,
\* because the call that hits looks at the entry and not at who made it.
EntriesHaveSource ==
  \A k \in Keys(tokens) : \E d \in Calls :
    call[d] = "stored" /\ promptOf[d] = k /\ servedAt[d] = tokens.entry[k].created

CacheInvariant ==
  /\ LayersExact /\ CountsTyped /\ GaugeExact /\ CallsTyped
  /\ EntriesHaveSource /\ HitHasSource /\ MissesAccounted

\* Time passes for a cache as well.
LEMMA ExactLater ==
  ASSUME NEW c, NEW t \in Nat, Exact(c, t)
  PROVE  Exact(c, t + 1)
<1>1. Typed(c, t + 1)
  <2>1. 0 .. t \subseteq 0 .. (t + 1)
    OBVIOUS
  <2>2. [bytes : Nat, created : 0 .. t, used : 0 .. t]
          \subseteq [bytes : Nat, created : 0 .. (t + 1), used : 0 .. (t + 1)]
    BY <2>1
  <2> QED BY <2>2 DEF Exact, Typed
<1> QED BY <1>1 DEF Exact

LEMMA CountAdds ==
  ASSUME CountsTyped, NEW l \in Layers, NEW hits \in Nat, NEW misses \in Nat,
         NEW evictions \in Nat, Count(l, hits, misses, evictions)
  PROVE  /\ CountsTyped'
         /\ operations'[l].miss = operations[l].miss + misses
         /\ operations'[l].eviction = operations[l].eviction + evictions
         /\ \A m \in Layers \ {l} : operations'[m] = operations[m]
<1>1. operations \in [Layers -> [Results -> Nat]]
  BY DEF CountsTyped
<1> DEFINE counted(o) == [o EXCEPT !.hit = @ + hits, !.miss = @ + misses, !.eviction = @ + evictions]
<1>2. operations' = [operations EXCEPT ![l] = counted(operations[l])]
  BY <1>1 DEF Count, Results
<1>3. ASSUME NEW o \in [Results -> Nat]
      PROVE  /\ counted(o) \in [Results -> Nat]
             /\ counted(o).miss = o.miss + misses
             /\ counted(o).eviction = o.eviction + evictions
  <2> DEFINE o1 == [o EXCEPT !.hit = @ + hits]
             o2 == [o1 EXCEPT !.miss = @ + misses]
             o3 == [o2 EXCEPT !.eviction = @ + evictions]
  <2>1. counted(o) = o3
    OBVIOUS
  <2>2. o1 \in [Results -> Nat] /\ o1.miss = o.miss /\ o1.eviction = o.eviction
    BY <1>3 DEF Results
  <2> HIDE DEF o1
  <2>3. o2 \in [Results -> Nat] /\ o2.miss = o1.miss + misses /\ o2.eviction = o1.eviction
    BY <2>2 DEF Results
  <2> HIDE DEF o2
  <2>4. o3 \in [Results -> Nat] /\ o3.miss = o2.miss /\ o3.eviction = o2.eviction + evictions
    BY <2>3 DEF Results
  <2> HIDE DEF o3, counted
  <2> QED BY <2>1, <2>2, <2>3, <2>4
<1> HIDE DEF counted
<1>4. /\ counted(operations[l]) \in [Results -> Nat]
      /\ counted(operations[l]).miss = operations[l].miss + misses
      /\ counted(operations[l]).eviction = operations[l].eviction + evictions
  BY <1>1, <1>3
<1>5. operations' \in [Layers -> [Results -> Nat]]
  BY <1>1, <1>2, <1>4
<1>6. operations'[l] = counted(operations[l])
      /\ \A m \in Layers \ {l} : operations'[m] = operations[m]
  BY <1>1, <1>2
<1> QED BY <1>4, <1>5, <1>6 DEF CountsTyped

\* What a lookup does to a layer.
LEMMA LayerAfterGet ==
  ASSUME NEW c, NEW t \in Nat, Exact(c, t), Fits(c), NEW k
  PROVE  Exact(AfterGet(c, k, t), t) /\ Fits(AfterGet(c, k, t))
         /\ Keys(AfterGet(c, k, t)) \subseteq Keys(c)
<1> DEFINE d == AfterGet(c, k, t)
<1>1. /\ Exact(d, t)
      /\ Keys(d) = IF IsFresh(c, k, t) THEN Keys(c) ELSE Keys(c) \ {k}
      /\ d.bytes <= c.bytes
  BY AfterGetExact
<1> HIDE DEF d
<1>2. Keys(d) \subseteq Keys(c)
  BY <1>1
<1>3. IsFiniteSet(Keys(c))
  BY KeysCounted DEF Exact
<1>4. Cardinality(Keys(d)) <= Cardinality(Keys(c))
      /\ Cardinality(Keys(d)) \in Nat /\ Cardinality(Keys(c)) \in Nat
  BY <1>2, <1>3, FS_Subset, FS_CardinalityType
<1>5. c.bytes \in Nat /\ d.bytes \in Nat
  BY <1>1, ExactBytes
<1>6. Fits(d)
  BY <1>1, <1>4, <1>5, CacheAssumption DEF Fits
<1> QED BY <1>1, <1>2, <1>6 DEF d

\* What a store does to a layer, whether or not it stores.
LEMMA LayerAfterPut ==
  ASSUME NEW c, NEW t \in Nat, Exact(c, t), Fits(c), NEW k, NEW size \in Nat
  PROVE  /\ Exact(AfterPut(c, k, size, t), t) /\ Fits(AfterPut(c, k, size, t))
         /\ Keys(AfterPut(c, k, size, t)) \subseteq Keys(c) \cup {k}
         /\ EvictedByPut(c, k, size, t) \in Nat
<1>1. CASE Stores(size)
  BY <1>1, AfterPutExact
<1>2. CASE ~Stores(size)
  <2>1. AfterPut(c, k, size, t) = c /\ EvictedByPut(c, k, size, t) = 0
    BY <1>2 DEF AfterPut, EvictedByPut
  <2> QED BY <2>1
<1> QED BY <1>1, <1>2

\* What a lookup evicts.
LEMMA EvictedByGetCounts ==
  ASSUME NEW c, NEW t \in Nat, Exact(c, t), t = now, NEW k
  PROVE  /\ EvictedByGet(c, k) \in Nat
         /\ Cardinality(Keys(AfterGet(c, k, t))) + EvictedByGet(c, k) = Cardinality(Keys(c))
         /\ EvictedByGet(c, k) = 0 => AfterGet(c, k, t).bytes = c.bytes
<1> DEFINE K == Keys(c)
           d == AfterGet(c, k, t)
<1>1. IsFiniteSet(K) /\ Cardinality(K) \in Nat
  BY KeysCounted, FS_CardinalityType DEF Exact
<1>2. Keys(d) = IF IsFresh(c, k, t) THEN K ELSE K \ {k}
  BY AfterGetExact
<1>3. CASE IsFresh(c, k, t)
  <2>1. EvictedByGet(c, k) = 0 /\ d = Promoted(c, k, t)
    BY <1>3 DEF EvictedByGet, AfterGet
  <2>2. d.bytes = c.bytes
    BY <2>1 DEF Promoted
  <2>3. Keys(d) = K
    BY <1>2, <1>3
  <2> HIDE DEF K, d
  <2> QED BY <1>1, <2>1, <2>2, <2>3 DEF K, d
<1>4. CASE ~IsFresh(c, k, t) /\ k \in K
  <2>1. EvictedByGet(c, k) = Cardinality(K \cap {k}) /\ K \cap {k} = {k}
    BY <1>4 DEF EvictedByGet
  <2>2. Cardinality({k}) = 1 /\ Cardinality(K \ {k}) = Cardinality(K) - 1
    BY <1>1, <1>4, FS_Singleton, FS_RemoveElement
  <2>3. Keys(d) = K \ {k}
    BY <1>2, <1>4
  <2>4. EvictedByGet(c, k) = 1
    BY <2>1, <2>2
  <2> HIDE DEF K, d
  <2> QED BY <1>1, <2>2, <2>3, <2>4 DEF K, d
<1>5. CASE k \notin K
  <2>1. ~IsFresh(c, k, t) /\ K \cap {k} = {} /\ d = c
    BY <1>5 DEF IsFresh, AfterGet
  <2>2. EvictedByGet(c, k) = 0
    BY <1>5, <2>1, FS_EmptySet DEF EvictedByGet
  <2> QED BY <1>1, <2>1, <2>2
<1> QED BY <1>3, <1>4, <1>5

\* Each part of the invariant, when one layer changes.
LEMMA RenderKeeps ==
  ASSUME CacheInvariant, NEW s \in Prefixes, Render(s)
  PROVE  CacheInvariant'
<1> DEFINE looked == AfterGet(prompt, s, now)
           missed == ~IsFresh(prompt, s, now)
           size == SizeOf[s]
           evicted == EvictedByGet(prompt, s) + EvictedByPut(looked, s, size, now)
<1>1. /\ LayersExact /\ CountsTyped /\ GaugeExact /\ CallsTyped
      /\ EntriesHaveSource /\ HitHasSource /\ MissesAccounted
  BY DEF CacheInvariant
<1>2. /\ prompt' = IF missed THEN AfterPut(looked, s, size, now) ELSE looked
      /\ gauge' = IF missed THEN prompt'.bytes + tokens.bytes ELSE gauge
      /\ tokens' = tokens /\ call' = call /\ promptOf' = promptOf
      /\ servedAt' = servedAt /\ now' = now
      /\ IF missed THEN Count("prompt_template", 0, 1, evicted)
         ELSE Count("prompt_template", 1, 0, 0)
  BY DEF Render
<1>3. now \in Nat /\ size \in Nat /\ Exact(prompt, now) /\ Fits(prompt)
      /\ Keys(prompt) \subseteq Prefixes
  BY <1>1, ManagerAssumption DEF LayersExact, CallsTyped
<1>4. /\ Exact(looked, now) /\ Fits(looked) /\ Keys(looked) \subseteq Keys(prompt)
      /\ EvictedByGet(prompt, s) \in Nat
      /\ EvictedByGet(prompt, s) = 0 => looked.bytes = prompt.bytes
  BY <1>3, LayerAfterGet, EvictedByGetCounts
<1> HIDE DEF looked, size
<1>5. /\ Exact(AfterPut(looked, s, size, now), now) /\ Fits(AfterPut(looked, s, size, now))
      /\ Keys(AfterPut(looked, s, size, now)) \subseteq Keys(looked) \cup {s}
      /\ EvictedByPut(looked, s, size, now) \in Nat
  BY <1>3, <1>4, LayerAfterPut
<1>6. evicted \in Nat
  BY <1>4, <1>5
<1>7. LayersExact'
  <2>1. Exact(prompt', now) /\ Fits(prompt') /\ Keys(prompt') \subseteq Prefixes
    <3>1. CASE missed
      BY <1>2, <1>3, <1>4, <1>5, <3>1
    <3>2. CASE ~missed
      BY <1>2, <1>3, <1>4, <3>2
    <3> QED BY <3>1, <3>2
  <2> QED BY <1>1, <1>2, <2>1 DEF LayersExact
<1>8. CountsTyped' /\ operations'["tokenization"] = operations["tokenization"]
  <2>1. "prompt_template" \in Layers /\ "tokenization" \in Layers \ {"prompt_template"}
    BY DEF Layers
  <2> HIDE DEF evicted, missed
  <2>2. CASE missed
    BY <1>1, <1>2, <1>6, <2>1, <2>2, CountAdds
  <2>3. CASE ~missed
    BY <1>1, <1>2, <2>1, <2>3, CountAdds
  <2> QED BY <2>2, <2>3
<1>9. GaugeExact'
  <2>1. CASE missed
    BY <1>2, <2>1 DEF GaugeExact
  <2>2. CASE ~missed
    <3>1. EvictedByGet(prompt, s) = 0
      BY <2>2 DEF EvictedByGet
    <3> QED BY <1>1, <1>2, <1>4, <2>2, <3>1 DEF GaugeExact
  <2> QED BY <2>1, <2>2
<1>10. CallsTyped' /\ EntriesHaveSource' /\ HitHasSource'
  BY <1>1, <1>2 DEF CallsTyped, EntriesHaveSource, HitHasSource
<1>11. MissesAccounted'
  BY <1>1, <1>2, <1>8 DEF MissesAccounted
<1> QED BY <1>7, <1>8, <1>9, <1>10, <1>11 DEF CacheInvariant

\* One call moves on: the calls whose miss left no entry.
LEMMA UncachedMoves ==
  ASSUME CallsTyped, NEW c \in Calls, NEW x, call' = [call EXCEPT ![c] = x]
  PROVE  /\ Uncached(call) \in SUBSET Calls /\ Cardinality(Uncached(call)) \in Nat
         /\ x \in {"tokenizing", "failed", "returned"} /\ c \notin Uncached(call) =>
              Cardinality(Uncached(call')) = Cardinality(Uncached(call)) + 1
         /\ x \in {"tokenizing", "failed", "returned"} /\ c \in Uncached(call) =>
              Uncached(call') = Uncached(call)
         /\ x \notin {"tokenizing", "failed", "returned"} /\ c \notin Uncached(call) =>
              Uncached(call') = Uncached(call)
         /\ x \notin {"tokenizing", "failed", "returned"} /\ c \in Uncached(call) =>
              Cardinality(Uncached(call')) = Cardinality(Uncached(call)) - 1
<1> DEFINE W == {"tokenizing", "failed", "returned"}
           U == Uncached(call)
           V == Uncached(call')
<1>1. call' \in [Calls -> CallStates \cup {x}] /\ call'[c] = x
      /\ \A d \in Calls \ {c} : call'[d] = call[d]
  BY DEF CallsTyped
<1>2. \A d : d \in U <=> d \in Calls /\ call[d] \in W
  BY DEF Uncached
<1>3. \A d : d \in V <=> d \in Calls /\ call'[d] \in W
  BY DEF Uncached
<1>4. V = IF x \in W THEN U \cup {c} ELSE U \ {c}
  <2> HIDE DEF U, V, W
  <2> QED BY <1>1, <1>2, <1>3
<1>5. IsFiniteSet(U) /\ U \subseteq Calls
  BY ManagerAssumption, FS_Subset DEF Uncached
<1> HIDE DEF U, V, W
<1>6. /\ Cardinality(U) \in Nat
      /\ c \notin U => Cardinality(U \cup {c}) = Cardinality(U) + 1
      /\ c \in U => Cardinality(U \ {c}) = Cardinality(U) - 1
  BY <1>5, FS_AddElement, FS_RemoveElement, FS_CardinalityType
<1>7. /\ c \in U => U \cup {c} = U
      /\ c \notin U => U \ {c} = U
  OBVIOUS
<1> QED BY <1>4, <1>5, <1>6, <1>7 DEF U, V, W

\* A hit answers with an entry some call stored, and that has not expired.
LEMMA HitKeeps ==
  ASSUME CacheInvariant, NEW c \in Calls, Hit(c)
  PROVE  CacheInvariant'
<1> DEFINE k == promptOf[c]
           got == AfterGet(tokens, k, now)
<1>1. /\ LayersExact /\ CountsTyped /\ GaugeExact /\ CallsTyped
      /\ EntriesHaveSource /\ HitHasSource /\ MissesAccounted
  BY DEF CacheInvariant
<1>2. /\ call[c] = "new" /\ IsFresh(tokens, k, now)
      /\ tokens' = got /\ Count("tokenization", 1, 0, 0)
      /\ call' = [call EXCEPT ![c] = "hit"]
      /\ servedAt' = [servedAt EXCEPT ![c] = now]
      /\ prompt' = prompt /\ gauge' = gauge /\ promptOf' = promptOf /\ now' = now
  BY DEF Hit
<1>3. /\ now \in Nat /\ Exact(tokens, now) /\ Fits(tokens) /\ Keys(tokens) \subseteq Prompts
      /\ Exact(prompt, now) /\ Fits(prompt) /\ Keys(prompt) \subseteq Prefixes
  BY <1>1 DEF LayersExact, CallsTyped
<1>4. /\ Exact(got, now) /\ Fits(got) /\ Keys(got) = Keys(tokens)
      /\ \A j \in Keys(tokens) : got.entry[j].created = tokens.entry[j].created
  BY <1>2, <1>3, AfterGetExact, LayerAfterGet
<1>5. got.bytes = tokens.bytes
  <2>1. EvictedByGet(tokens, k) = 0
    BY <1>2 DEF EvictedByGet
  <2> QED BY <1>3, <2>1, EvictedByGetCounts
<1> HIDE DEF got, k
<1>6. LayersExact'
  BY <1>2, <1>3, <1>4 DEF LayersExact
<1>7. /\ CountsTyped'
      /\ operations'["tokenization"].miss = operations["tokenization"].miss + 0
      /\ operations'["tokenization"].eviction = operations["tokenization"].eviction + 0
  BY <1>1, <1>2, CountAdds DEF Layers
<1>8. GaugeExact'
  BY <1>1, <1>2, <1>5 DEF GaugeExact
<1>9. CallsTyped'
  BY <1>1, <1>2 DEF CallsTyped, CallStates
<1>10. /\ call'[c] = "hit" /\ servedAt'[c] = now
       /\ \A d \in Calls \ {c} : call'[d] = call[d] /\ servedAt'[d] = servedAt[d]
  BY <1>1, <1>2 DEF CallsTyped
<1>11. \A d \in Calls : call[d] = "stored" =>
         call'[d] = "stored" /\ servedAt'[d] = servedAt[d] /\ promptOf'[d] = promptOf[d]
  BY <1>2, <1>10
<1>12. EntriesHaveSource'
  BY <1>1, <1>2, <1>4, <1>11 DEF EntriesHaveSource
<1>13. HitHasSource'
  <2>1. ASSUME NEW e \in Calls, call'[e] = "hit"
        PROVE  \E d \in Calls : /\ call'[d] = "stored" /\ promptOf'[d] = promptOf'[e]
                                /\ servedAt'[e] \in servedAt'[d] .. servedAt'[d] + Ttl - 1
    <3>1. CASE e = c
      <4>1. k \in Keys(tokens) /\ now - tokens.entry[k].created < Ttl
        BY <1>2 DEF IsFresh
      <4>2. tokens.entry[k].created \in 0 .. now
        BY <1>3, <4>1 DEF Exact, Typed
      <4>3. PICK d \in Calls :
              call[d] = "stored" /\ promptOf[d] = k /\ servedAt[d] = tokens.entry[k].created
        BY <1>1, <4>1 DEF EntriesHaveSource
      <4> DEFINE made == tokens.entry[k].created
      <4> HIDE DEF made
      <4>4. now \in made .. made + Ttl - 1
        BY <1>3, <4>1, <4>2, CacheAssumption DEF made
      <4>5. call'[d] = "stored" /\ servedAt'[d] = made /\ promptOf'[d] = promptOf'[e]
        BY <1>2, <1>11, <3>1, <4>3 DEF made, k
      <4> QED BY <1>10, <3>1, <4>4, <4>5
    <3>2. CASE e # c
      <4>1. call[e] = "hit" /\ servedAt'[e] = servedAt[e] /\ promptOf'[e] = promptOf[e]
        BY <1>2, <1>10, <2>1, <3>2
      <4>2. PICK d \in Calls : /\ call[d] = "stored" /\ promptOf[d] = promptOf[e]
                               /\ servedAt[e] \in servedAt[d] .. servedAt[d] + Ttl - 1
        BY <1>1, <4>1 DEF HitHasSource
      <4> QED BY <1>11, <4>1, <4>2
    <3> QED BY <3>1, <3>2
  <2> QED BY <2>1 DEF HitHasSource
<1>14. MissesAccounted'
  <2>1. Uncached(call') = Uncached(call)
    <3>1. c \notin Uncached(call)
      BY <1>2 DEF Uncached
    <3>2. "hit" \notin {"tokenizing", "failed", "returned"}
      OBVIOUS
    <3> QED BY <1>1, <1>2, <3>1, <3>2, UncachedMoves
  <2>2. operations["tokenization"].miss =
          Cardinality(Uncached(call)) + Cardinality(Keys(tokens)) + operations["tokenization"].eviction
    BY <1>1 DEF MissesAccounted, Uncached
  <2>3. operations["tokenization"].miss \in Nat /\ operations["tokenization"].eviction \in Nat
    BY <1>1 DEF CountsTyped, Layers, Results
  <2>4. operations'["tokenization"].miss =
          Cardinality(Uncached(call')) + Cardinality(Keys(tokens'))
            + operations'["tokenization"].eviction
    BY <1>2, <1>4, <1>7, <2>1, <2>2, <2>3
  <2> QED BY <2>4 DEF MissesAccounted, Uncached
<1> QED BY <1>6, <1>7, <1>8, <1>9, <1>12, <1>13, <1>14 DEF CacheInvariant

\* While no call that stored or hit changes, what it stored or hit stands.
LEMMA SourcesStay ==
  ASSUME HitHasSource, promptOf' = promptOf,
         \A d \in Calls : call[d] \in {"stored", "hit"} =>
           call'[d] = call[d] /\ servedAt'[d] = servedAt[d],
         \A d \in Calls : call'[d] = "hit" => call[d] = "hit"
  PROVE  HitHasSource'
<1>1. ASSUME NEW e \in Calls, call'[e] = "hit"
      PROVE  \E d \in Calls : /\ call'[d] = "stored" /\ promptOf'[d] = promptOf'[e]
                              /\ servedAt'[e] \in servedAt'[d] .. servedAt'[d] + Ttl - 1
  <2>1. call[e] = "hit" /\ servedAt'[e] = servedAt[e] /\ promptOf'[e] = promptOf[e]
    BY <1>1
  <2>2. PICK d \in Calls : /\ call[d] = "stored" /\ promptOf[d] = promptOf[e]
                           /\ servedAt[e] \in servedAt[d] .. servedAt[d] + Ttl - 1
    BY <2>1 DEF HitHasSource
  <2>3. call'[d] = "stored" /\ servedAt'[d] = servedAt[d] /\ promptOf'[d] = promptOf[d]
    BY <2>2
  <2> QED BY <2>1, <2>2, <2>3
<1> QED BY <1>1 DEF HitHasSource

\* The counts of a layer as the next state has them.
LEMMA MissesCounted ==
  ASSUME CountsTyped, MissesAccounted, NEW left \in Nat, NEW kept \in Nat, NEW misses \in Nat,
         NEW evictions \in Nat,
         operations'["tokenization"].miss = operations["tokenization"].miss + misses,
         operations'["tokenization"].eviction = operations["tokenization"].eviction + evictions,
         Cardinality(Uncached(call')) = left, Cardinality(Keys(tokens')) = kept,
         Cardinality(Uncached(call)) \in Nat, Cardinality(Keys(tokens)) \in Nat,
         left + kept + evictions
           = Cardinality(Uncached(call)) + Cardinality(Keys(tokens)) + misses
  PROVE  MissesAccounted'
<1>1. operations["tokenization"].miss =
        Cardinality(Uncached(call)) + Cardinality(Keys(tokens)) + operations["tokenization"].eviction
  BY DEF MissesAccounted, Uncached
<1>2. operations["tokenization"].miss \in Nat /\ operations["tokenization"].eviction \in Nat
  BY DEF CountsTyped, Layers, Results
<1>3. operations'["tokenization"].miss =
        Cardinality(Uncached(call')) + Cardinality(Keys(tokens'))
          + operations'["tokenization"].eviction
  BY <1>1, <1>2
<1> QED BY <1>3 DEF MissesAccounted, Uncached

\* A miss drops the entry that has expired.
LEMMA MissKeeps ==
  ASSUME CacheInvariant, NEW c \in Calls, Miss(c)
  PROVE  CacheInvariant'
<1> DEFINE k == promptOf[c]
           got == AfterGet(tokens, k, now)
           gone == EvictedByGet(tokens, k)
<1>1. /\ LayersExact /\ CountsTyped /\ GaugeExact /\ CallsTyped
      /\ EntriesHaveSource /\ HitHasSource /\ MissesAccounted
  BY DEF CacheInvariant
<1>2. /\ call[c] = "new" /\ ~IsFresh(tokens, k, now)
      /\ tokens' = got /\ Count("tokenization", 0, 1, gone)
      /\ gauge' = IF gone = 0 THEN gauge ELSE prompt.bytes + tokens'.bytes
      /\ call' = [call EXCEPT ![c] = "tokenizing"]
      /\ servedAt' = servedAt /\ prompt' = prompt /\ promptOf' = promptOf /\ now' = now
  BY DEF Miss
<1>3. /\ now \in Nat /\ Exact(tokens, now) /\ Fits(tokens) /\ Keys(tokens) \subseteq Prompts
      /\ Exact(prompt, now) /\ Fits(prompt) /\ Keys(prompt) \subseteq Prefixes
  BY <1>1 DEF LayersExact, CallsTyped
<1>4. /\ Exact(got, now) /\ Fits(got) /\ Keys(got) \subseteq Keys(tokens)
      /\ \A j \in Keys(got) : got.entry[j].created = tokens.entry[j].created
  BY <1>3, AfterGetExact, LayerAfterGet
<1>5. /\ gone \in Nat /\ Cardinality(Keys(got)) + gone = Cardinality(Keys(tokens))
      /\ gone = 0 => got.bytes = tokens.bytes
  BY <1>3, EvictedByGetCounts
<1> HIDE DEF got, k, gone
<1>6. LayersExact'
  BY <1>2, <1>3, <1>4 DEF LayersExact
<1>7. /\ CountsTyped'
      /\ operations'["tokenization"].miss = operations["tokenization"].miss + 1
      /\ operations'["tokenization"].eviction = operations["tokenization"].eviction + gone
  BY <1>1, <1>2, <1>5, CountAdds DEF Layers
<1>8. GaugeExact'
  BY <1>1, <1>2, <1>5 DEF GaugeExact
<1>9. CallsTyped'
  BY <1>1, <1>2 DEF CallsTyped, CallStates
<1>10. /\ call'[c] = "tokenizing"
       /\ \A d \in Calls \ {c} : call'[d] = call[d]
  BY <1>1, <1>2 DEF CallsTyped
<1>11. \A d \in Calls : call[d] \in {"stored", "hit"} =>
         call'[d] = call[d] /\ servedAt'[d] = servedAt[d]
  BY <1>2, <1>10
<1>12. EntriesHaveSource'
  BY <1>1, <1>2, <1>4, <1>11 DEF EntriesHaveSource
<1>13. HitHasSource'
  BY <1>1, <1>2, <1>10, <1>11, SourcesStay
<1>14. MissesAccounted'
  <2> DEFINE before == Cardinality(Uncached(call))
             had == Cardinality(Keys(tokens))
             left == Cardinality(Uncached(call'))
             kept == Cardinality(Keys(tokens'))
  <2>1. before \in Nat /\ left = before + 1
    <3>1. c \notin Uncached(call)
      BY <1>2 DEF Uncached
    <3> QED BY <1>1, <1>2, <3>1, UncachedMoves
  <2>2. had \in Nat /\ kept \in Nat /\ kept + gone = had
    BY <1>2, <1>3, <1>4, <1>5, KeysCounted DEF Exact
  <2> HIDE DEF before, had, left, kept
  <2>3. left \in Nat /\ left + kept + gone = before + had + 1
    BY <1>5, <2>1, <2>2
  <2> QED BY <1>1, <1>5, <1>7, <2>1, <2>2, <2>3, MissesCounted DEF before, had, left, kept
<1> QED BY <1>6, <1>7, <1>8, <1>9, <1>12, <1>13, <1>14 DEF CacheInvariant

\* A store that keeps its result becomes the source of its entry, and what it evicts
\* is counted; one that is too large to keep leaves everything.
LEMMA StoreKeeps ==
  ASSUME CacheInvariant, NEW c \in Calls, Store(c)
  PROVE  CacheInvariant'
<1> DEFINE k == promptOf[c]
           size == SizeOf[k]
           put == AfterPut(tokens, k, size, now)
           gone == EvictedByPut(tokens, k, size, now)
           fits == Stores(size)
<1>1. /\ LayersExact /\ CountsTyped /\ GaugeExact /\ CallsTyped
      /\ EntriesHaveSource /\ HitHasSource /\ MissesAccounted
  BY DEF CacheInvariant
<1>2. /\ call[c] = "tokenizing" /\ tokens' = put
      /\ Count("tokenization", 0, 0, gone)
      /\ gauge' = prompt.bytes + tokens'.bytes
      /\ call' = [call EXCEPT ![c] = IF fits THEN "stored" ELSE "returned"]
      /\ servedAt' = [servedAt EXCEPT ![c] = now]
      /\ prompt' = prompt /\ promptOf' = promptOf /\ now' = now
  BY DEF Store, Evictions
<1>3. /\ now \in Nat /\ Exact(tokens, now) /\ Fits(tokens) /\ Keys(tokens) \subseteq Prompts
      /\ Exact(prompt, now) /\ Fits(prompt) /\ Keys(prompt) \subseteq Prefixes
  BY <1>1 DEF LayersExact, CallsTyped
<1>4. k \in Prompts /\ size \in Nat
  <2>1. k \in Prompts
    BY <1>1 DEF CallsTyped
  <2> QED BY <2>1, ManagerAssumption
<1>5. fits =>
        /\ Cardinality(Keys(put)) + gone = Cardinality(Keys(tokens)) + 1
        /\ \A j \in Keys(put) :
             put.entry[j].created = IF j = k THEN now ELSE tokens.entry[j].created
  <2>1. ASSUME fits
        PROVE  /\ Cardinality(Keys(put)) + gone = Cardinality(Keys(tokens)) + 1
               /\ \A j \in Keys(put) :
                    put.entry[j].created = IF j = k THEN now ELSE tokens.entry[j].created
    <3> HIDE DEF k, size
    <3> QED BY <1>3, <1>4, <2>1, AfterPutExact
  <2> QED BY <2>1
<1>6. ~fits => put = tokens /\ gone = 0
  BY DEF AfterPut, EvictedByPut
<1> HIDE DEF k, size
<1>7. Exact(put, now) /\ Fits(put) /\ Keys(put) \subseteq Keys(tokens) \cup {k} /\ gone \in Nat
  BY <1>3, <1>4, LayerAfterPut
<1> HIDE DEF put, gone, fits
<1>8. LayersExact'
  BY <1>2, <1>3, <1>4, <1>7 DEF LayersExact
<1>9. /\ CountsTyped'
      /\ operations'["tokenization"].miss = operations["tokenization"].miss + 0
      /\ operations'["tokenization"].eviction = operations["tokenization"].eviction + gone
  BY <1>1, <1>2, <1>7, CountAdds DEF Layers
<1>10. GaugeExact'
  BY <1>2 DEF GaugeExact
<1>11. CallsTyped'
  BY <1>1, <1>2 DEF CallsTyped, CallStates
<1>12. /\ call'[c] = IF fits THEN "stored" ELSE "returned"
       /\ servedAt'[c] = now
       /\ \A d \in Calls \ {c} : call'[d] = call[d] /\ servedAt'[d] = servedAt[d]
  BY <1>1, <1>2 DEF CallsTyped
<1>13. \A d \in Calls : call[d] \in {"stored", "hit"} =>
         call'[d] = call[d] /\ servedAt'[d] = servedAt[d]
  BY <1>2, <1>12
<1>14. EntriesHaveSource'
  <2>1. ASSUME NEW j \in Keys(put)
        PROVE  \E d \in Calls : /\ call'[d] = "stored" /\ promptOf'[d] = j
                                /\ servedAt'[d] = put.entry[j].created
    <3>1. CASE fits /\ j = k
      BY <1>2, <1>5, <1>12, <3>1 DEF k
    <3>2. CASE ~(fits /\ j = k)
      <4>1. j \in Keys(tokens) /\ put.entry[j].created = tokens.entry[j].created
        BY <1>5, <1>6, <1>7, <3>2
      <4>2. PICK d \in Calls : /\ call[d] = "stored" /\ promptOf[d] = j
                               /\ servedAt[d] = tokens.entry[j].created
        BY <1>1, <4>1 DEF EntriesHaveSource
      <4> QED BY <1>2, <1>13, <4>1, <4>2
    <3> QED BY <3>1, <3>2
  <2> QED BY <1>2, <2>1 DEF EntriesHaveSource
<1>15. HitHasSource'
  BY <1>1, <1>2, <1>12, <1>13, SourcesStay
<1>16. MissesAccounted'
  <2> DEFINE before == Cardinality(Uncached(call))
             had == Cardinality(Keys(tokens))
             left == Cardinality(Uncached(call'))
             kept == Cardinality(Keys(tokens'))
  <2>1. before \in Nat /\ left \in Nat /\ left = IF fits THEN before - 1 ELSE before
    <3>1. c \in Uncached(call) /\ "stored" \notin {"tokenizing", "failed", "returned"}
      BY <1>2 DEF Uncached
    <3>2. before \in Nat /\ Cardinality(Uncached(call')) = IF fits THEN before - 1 ELSE before
      <4>1. CASE fits
        <5>1. call' = [call EXCEPT ![c] = "stored"]
          BY <1>2, <4>1
        <5> QED BY <1>1, <3>1, <4>1, <5>1, UncachedMoves
      <4>2. CASE ~fits
        <5>1. call' = [call EXCEPT ![c] = "returned"]
          BY <1>2, <4>2
        <5> QED BY <1>1, <3>1, <4>2, <5>1, UncachedMoves
      <4> QED BY <4>1, <4>2
    <3>3. Cardinality(Uncached(call')) \in Nat
      <4>1. IsFiniteSet(Uncached(call'))
        BY ManagerAssumption, FS_Subset DEF Uncached
      <4> QED BY <4>1, FS_CardinalityType
    <3> QED BY <3>2, <3>3
  <2>2. had \in Nat /\ kept \in Nat /\ kept + gone = IF fits THEN had + 1 ELSE had
    <3>1. had \in Nat /\ kept \in Nat
      BY <1>2, <1>3, <1>7, KeysCounted DEF Exact
    <3> QED BY <1>2, <1>5, <1>6, <3>1
  <2> HIDE DEF before, had, left, kept
  <2>3. left + kept + gone = before + had + 0
    BY <1>7, <2>1, <2>2
  <2> QED BY <1>1, <1>7, <1>9, <2>1, <2>2, <2>3, MissesCounted DEF before, had, left, kept
<1> QED BY <1>8, <1>9, <1>10, <1>11, <1>14, <1>15, <1>16 DEF CacheInvariant

LEMMA FailKeeps ==
  ASSUME CacheInvariant, NEW c \in Calls, Fail(c)
  PROVE  CacheInvariant'
<1>1. /\ LayersExact /\ CountsTyped /\ GaugeExact /\ CallsTyped
      /\ EntriesHaveSource /\ HitHasSource /\ MissesAccounted
  BY DEF CacheInvariant
<1>2. /\ call[c] = "tokenizing" /\ call' = [call EXCEPT ![c] = "failed"]
      /\ UNCHANGED <<prompt, tokens, operations, gauge, promptOf, servedAt, now>>
  BY DEF Fail
<1>3. LayersExact' /\ CountsTyped' /\ GaugeExact'
  BY <1>1, <1>2 DEF LayersExact, CountsTyped, GaugeExact
<1>4. CallsTyped'
  BY <1>1, <1>2 DEF CallsTyped, CallStates
<1>5. call'[c] = "failed" /\ \A d \in Calls \ {c} : call'[d] = call[d]
  BY <1>1, <1>2 DEF CallsTyped
<1>6. \A d \in Calls : call[d] \in {"stored", "hit"} =>
        call'[d] = call[d] /\ servedAt'[d] = servedAt[d]
  BY <1>2, <1>5
<1>7. EntriesHaveSource'
  BY <1>1, <1>2, <1>6 DEF EntriesHaveSource
<1>8. HitHasSource'
  BY <1>1, <1>2, <1>5, <1>6, SourcesStay
<1>9. Uncached(call') = Uncached(call)
  BY <1>2, <1>5 DEF Uncached
<1>10. MissesAccounted'
  BY <1>1, <1>2, <1>9 DEF MissesAccounted, Uncached
<1> QED BY <1>3, <1>4, <1>7, <1>8, <1>10 DEF CacheInvariant

\* A layer that is cleared.
LEMMA Emptied ==
  ASSUME NEW c, NEW t \in Nat, Exact(c, t)
  PROVE  /\ Exact(EvictOldest(c, Len(c.order)), t) /\ Fits(EvictOldest(c, Len(c.order)))
         /\ Keys(EvictOldest(c, Len(c.order))) = {}
<1> DEFINE d == EvictOldest(c, Len(c.order))
           l == Len(c.order)
<1>1. l \in Nat /\ Cardinality(Keys(c)) = l
  BY KeysCounted DEF Exact
<1>2. l \in 0 .. l
  BY <1>1
<1>3. Exact(d, t) /\ Cardinality(Keys(d)) = Cardinality(Keys(c)) - l
  BY <1>2, EvictOldestExact
<1> HIDE DEF d, l
<1>4. Cardinality(Keys(d)) = 0 /\ IsFiniteSet(Keys(d))
  BY <1>1, <1>3, KeysCounted DEF Exact
<1>5. Keys(d) = {}
  BY <1>4, FS_EmptySet
<1>6. d.bytes = 0
  BY <1>3, <1>5, BytesOfNone DEF Exact
<1>7. Fits(d)
  BY <1>4, <1>6, CacheAssumption DEF Fits
<1> QED BY <1>3, <1>5, <1>7 DEF d

LEMMA ClearKeeps ==
  ASSUME CacheInvariant, Clear
  PROVE  CacheInvariant'
<1>1. /\ LayersExact /\ CountsTyped /\ GaugeExact /\ CallsTyped
      /\ EntriesHaveSource /\ HitHasSource /\ MissesAccounted
  BY DEF CacheInvariant
<1> DEFINE kept == Cardinality(Keys(tokens))
           rendered == Cardinality(Keys(prompt))
<1>2. /\ prompt' = EvictOldest(prompt, Len(prompt.order))
      /\ tokens' = EvictOldest(tokens, Len(tokens.order))
      /\ operations' = [operations EXCEPT
           !["prompt_template"].eviction = @ + rendered, !["tokenization"].eviction = @ + kept]
      /\ gauge' = prompt'.bytes + tokens'.bytes
      /\ call' = call /\ promptOf' = promptOf /\ servedAt' = servedAt /\ now' = now
  BY DEF Clear
<1>3. now \in Nat /\ Exact(tokens, now) /\ Exact(prompt, now)
  BY <1>1 DEF LayersExact, CallsTyped
<1>4. kept \in Nat /\ rendered \in Nat
  BY <1>3, KeysCounted DEF Exact
<1>5. /\ Exact(prompt', now) /\ Fits(prompt') /\ Keys(prompt') = {}
      /\ Exact(tokens', now) /\ Fits(tokens') /\ Keys(tokens') = {}
  BY <1>2, <1>3, Emptied
<1>6. LayersExact'
  BY <1>2, <1>5 DEF LayersExact
<1> HIDE DEF kept, rendered
<1>7. /\ CountsTyped'
      /\ operations'["tokenization"].miss = operations["tokenization"].miss + 0
      /\ operations'["tokenization"].eviction = operations["tokenization"].eviction + kept
  <2> DEFINE more(o, n) == [o EXCEPT !.eviction = @ + n]
  <2>1. operations \in [Layers -> [Results -> Nat]]
    BY <1>1 DEF CountsTyped
  <2>2. ASSUME NEW o \in [Results -> Nat], NEW n \in Nat
        PROVE  more(o, n) \in [Results -> Nat] /\ more(o, n).miss = o.miss
               /\ more(o, n).eviction = o.eviction + n
    BY <2>2 DEF Results
  <2>3. operations' = [[operations EXCEPT
                          !["prompt_template"] = more(operations["prompt_template"], rendered)]
                        EXCEPT !["tokenization"] = more(operations["tokenization"], kept)]
    BY <1>2, <2>1 DEF Layers
  <2>4. /\ more(operations["prompt_template"], rendered) \in [Results -> Nat]
        /\ more(operations["tokenization"], kept) \in [Results -> Nat]
        /\ more(operations["tokenization"], kept).miss = operations["tokenization"].miss
        /\ more(operations["tokenization"], kept).eviction
             = operations["tokenization"].eviction + kept
    BY <1>4, <2>1, <2>2 DEF Layers
  <2> HIDE DEF more
  <2>5. operations' \in [Layers -> [Results -> Nat]]
        /\ operations'["tokenization"] = more(operations["tokenization"], kept)
    BY <2>1, <2>3, <2>4 DEF Layers
  <2>6. operations["tokenization"].miss \in Nat
    BY <2>1 DEF Layers, Results
  <2> QED BY <2>4, <2>5, <2>6 DEF CountsTyped
<1>8. GaugeExact' /\ CallsTyped'
  BY <1>1, <1>2 DEF GaugeExact, CallsTyped
<1>9. EntriesHaveSource'
  BY <1>5 DEF EntriesHaveSource
<1>10. HitHasSource'
  BY <1>1, <1>2 DEF HitHasSource
<1>11. MissesAccounted'
  <2> DEFINE before == Cardinality(Uncached(call))
  <2>1. before \in Nat
    <3>1. IsFiniteSet(Uncached(call))
      BY ManagerAssumption, FS_Subset DEF Uncached
    <3> QED BY <3>1, FS_CardinalityType
  <2>2. Cardinality(Uncached(call')) = before /\ Cardinality(Keys(tokens')) = 0
    BY <1>2, <1>5, FS_EmptySet
  <2> HIDE DEF before
  <2>3. before + 0 + kept = before + kept + 0
    BY <1>4, <2>1
  <2> QED BY <1>1, <1>4, <1>7, <2>1, <2>2, <2>3, MissesCounted DEF before, kept
<1> QED BY <1>6, <1>7, <1>8, <1>9, <1>10, <1>11 DEF CacheInvariant

LEMMA TickKeeps ==
  ASSUME CacheInvariant, Tick
  PROVE  CacheInvariant'
<1>1. /\ LayersExact /\ CountsTyped /\ GaugeExact /\ CallsTyped
      /\ EntriesHaveSource /\ HitHasSource /\ MissesAccounted
  BY DEF CacheInvariant
<1>2. /\ now < MaxTime /\ now' = now + 1
      /\ UNCHANGED <<prompt, tokens, operations, gauge, call, promptOf, servedAt>>
  BY DEF Tick
<1>3. now \in Nat /\ MaxTime \in Nat
  BY <1>1, ManagerAssumption DEF CallsTyped
<1>4. LayersExact'
  BY <1>1, <1>2, <1>3, ExactLater DEF LayersExact
<1>5. CallsTyped'
  BY <1>1, <1>2, <1>3 DEF CallsTyped
<1> QED BY <1>1, <1>2, <1>4, <1>5
        DEF CacheInvariant, CountsTyped, GaugeExact, EntriesHaveSource, HitHasSource, MissesAccounted

LEMMA CachesStart ==
  ASSUME Init
  PROVE  CacheInvariant
<1>1. Exact(EmptyCache, 0) /\ Fits(EmptyCache) /\ Keys(EmptyCache) = {} /\ EmptyCache.bytes = 0
  <2>1. Keys(EmptyCache) = {} /\ EmptyCache.order = <<>> /\ EmptyCache.bytes = 0
    BY DEF Keys, EmptyCache
  <2>2. Bytes(EmptyCache, {}) = 0 /\ Cardinality({}) = 0
    BY BytesOfNone, FS_EmptySet
  <2>3. Listed(<<>>, {})
    BY DEF Listed
  <2> HIDE DEF EmptyCache
  <2>4. Exact(EmptyCache, 0)
    BY <2>1, <2>2, <2>3 DEF Exact, Typed, ByUse
  <2>5. Fits(EmptyCache)
    BY <2>1, <2>2, CacheAssumption DEF Fits
  <2> QED BY <2>1, <2>4, <2>5
<1>2. LayersExact /\ GaugeExact
  BY <1>1 DEF Init, LayersExact, GaugeExact
<1>3. CountsTyped /\ operations["tokenization"].miss = 0 /\ operations["tokenization"].eviction = 0
  BY DEF Init, CountsTyped, Layers, Results
<1>4. CallsTyped
  BY ManagerAssumption DEF Init, CallsTyped, CallStates
<1>5. EntriesHaveSource /\ HitHasSource
  BY <1>1 DEF Init, EntriesHaveSource, HitHasSource
<1>6. MissesAccounted
  <2>1. Uncached(call) = {}
    BY DEF Init, Uncached
  <2>2. Cardinality(Uncached(call)) = 0 /\ Cardinality(Keys(tokens)) = 0
    BY <1>1, <2>1, FS_EmptySet DEF Init
  <2> QED BY <1>3, <2>2 DEF MissesAccounted, Uncached
<1> QED BY <1>2, <1>3, <1>4, <1>5, <1>6 DEF CacheInvariant

-----------------------------------------------------------------------------
(* Theorems *)

LEMMA CachesStep ==
  ASSUME CacheInvariant, [Next]_vars
  PROVE  CacheInvariant'
<1>1. CASE \E s \in Prefixes : Render(s)
  BY <1>1, RenderKeeps
<1>2. CASE \E c \in Calls : Hit(c) \/ Miss(c) \/ Store(c) \/ Fail(c)
  BY <1>2, HitKeeps, MissKeeps, StoreKeeps, FailKeeps
<1>3. CASE Clear \/ Tick
  BY <1>3, ClearKeeps, TickKeeps
<1>4. CASE UNCHANGED vars
  BY <1>4 DEF vars, CacheInvariant, LayersExact, CountsTyped, GaugeExact, CallsTyped,
              EntriesHaveSource, HitHasSource, MissesAccounted
<1> QED BY <1>1, <1>2, <1>3, <1>4 DEF Next

LEMMA CachesKept == Spec => []CacheInvariant
<1>1. Init => CacheInvariant
  BY CachesStart
<1>2. CacheInvariant /\ [Next]_vars => CacheInvariant'
  BY CachesStep
<1> QED BY <1>1, <1>2, PTL DEF Spec

\* Every variable of the cache manager has its type; in particular the order of each
\* layer lists exactly the keys of its entries.
THEOREM CachesTyped == Spec => []TypeOK
<1>1. CacheInvariant => TypeOK
  <2>1. ASSUME NEW c, NEW t \in Nat, Exact(c, t)
        PROVE  /\ c.bytes \in Nat
               /\ c.order \in Seq(Keys(c)) /\ Len(c.order) = Cardinality(Keys(c))
               /\ \A k \in Keys(c) : c.entry[k] \in [bytes : Nat, created : 0 .. t, used : 0 .. t]
    BY <2>1, ExactBytes, KeysCounted DEF Exact, Listed, Typed
  <2>2. SUFFICES ASSUME CacheInvariant PROVE TypeOK
    OBVIOUS
  <2>3. now \in Nat /\ Exact(prompt, now) /\ Exact(tokens, now)
    BY <2>2 DEF CacheInvariant, LayersExact, CallsTyped
  <2>4. \A c \in {prompt, tokens} :
          /\ c.bytes \in Nat
          /\ c.order \in Seq(Keys(c)) /\ Len(c.order) = Cardinality(Keys(c))
          /\ \A k \in Keys(c) : c.entry[k] \in [bytes : Nat, created : 0 .. now, used : 0 .. now]
    BY <2>1, <2>3
  <2>5. gauge \in Nat
    BY <2>2, <2>4 DEF CacheInvariant, GaugeExact
  <2> QED BY <2>2, <2>4, <2>5
          DEF CacheInvariant, LayersExact, CountsTyped, CallsTyped, CallStates, TypeOK
<1> QED BY <1>1, CachesKept, PTL

\* Neither layer outgrows its bounds, and the totals and the gauge are the bytes held,
\* whatever calls missed together and stored again.
THEOREM CachesBounded == Spec => []WithinBounds
<1>1. CacheInvariant => WithinBounds
  BY DEF CacheInvariant, LayersExact, GaugeExact, Exact, WithinBounds
<1> QED BY <1>1, CachesKept, PTL

\* Every miss is accounted for by a call without an entry, an entry or an eviction.
THEOREM MissesAreAccounted == Spec => []MissesAccounted
<1>1. CacheInvariant => MissesAccounted
  BY DEF CacheInvariant
<1> QED BY <1>1, CachesKept, PTL

\* A hit answers with what another call stored less than ttl_seconds before.
THEOREM HitsHaveSources == Spec => []HitHasSource
<1>1. CacheInvariant => HitHasSource
  BY DEF CacheInvariant
<1> QED BY <1>1, CachesKept, PTL

\* The order of eviction is the order of last_access.
THEOREM EvictionFollowsUse == Spec => []OrderedByUse
<1>1. CacheInvariant => OrderedByUse
  BY DEF CacheInvariant, LayersExact, Exact, ByUse, OrderedByUse
<1> QED BY <1>1, CachesKept, PTL

\* The handlers that prepare prompts use the caches and the router as these are used
\* alone, so that what holds of either holds of both together.
THEOREM PreparationComposes == PrepareSpec => Spec /\ RouterSpec
<1>1. PrepareInit => Init /\ RouterInit /\ CacheInvariant
  BY CachesStart DEF PrepareInit
<1>2. ASSUME CacheInvariant, [PrepareNext]_<<vars, routerVars>>
      PROVE  /\ CacheInvariant' /\ [Next]_vars
             /\ [\E p \in Inputs : Observe(p)]_routerVars
  <2>1. [Next]_vars
    BY <1>2 DEF PrepareNext, Next, vars
  <2>2. [\E p \in Inputs : Observe(p)]_routerVars
    <3>1. \A c \in Calls : TokensOf[promptOf[c]] \in Inputs
      BY <1>2, PreparationAssumption DEF CacheInvariant, CallsTyped
    <3>2. CASE \E c \in Calls : Routed(c)
      BY <3>1, <3>2 DEF Routed
    <3>3. CASE UNCHANGED routerVars
      BY <3>3
    <3> QED BY <1>2, <3>2, <3>3 DEF PrepareNext
  <2> QED BY <1>2, <2>1, <2>2, CachesStep
<1> QED BY <1>1, <1>2, PTL DEF PrepareSpec, Spec, RouterSpec

\* Prompts are routed like a list of all earlier prompts would route them, from the
\* moment they leave the cache.
THEOREM PreparedPromptsRouted == PrepareSpec => RoutesLikeIndex
  BY PreparationComposes, IndexImplemented, PTL
=============================================================================
