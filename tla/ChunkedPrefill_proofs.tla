------------------------ MODULE ChunkedPrefill_proofs -----------------------
(***************************************************************************)
(* Proofs about ChunkedPrefill, for every list of specs, chunk size, bound *)
(* and policy: a request is where its remaining work says, the loop ends   *)
(* within the work there is, and no decode waits longer for its next token *)
(* than its policy promises.                                               *)
(***************************************************************************)
EXTENDS ChunkedPrefill, ListsAndSums

-----------------------------------------------------------------------------
(* The inductive invariant *)

Shapes ==
  /\ reqs \in Seq([arrival : Nat, prompt : Nat, saved : Nat, output : Nat])
  /\ options \in [policy : Policies, chunk : Nat \ {0}, bound : Nat \ {0}]
  /\ tick \in Nat
  /\ waitingPrefill \in Seq(Rids) /\ waitingDecode \in Seq(Rids)
  /\ prefillRemaining \in [Rids -> Nat] /\ outputRemaining \in [Rids -> Int]
  /\ firstDecodeStep \in [Rids -> Int] /\ lastDecodeStep \in [Rids -> Int]
  /\ widestGap \in [Rids -> Nat] /\ completedAt \in [Rids -> Int]

\* What arrived before a step and has a prompt, or only its output, ahead of it.
ToPrefill(now) == {i \in Rids : reqs[i].arrival < now /\ prefillRemaining[i] > 0}
ToDecode(now) ==
  {i \in Rids : reqs[i].arrival < now /\ prefillRemaining[i] = 0 /\ Incomplete(i)}

Lists ==
  /\ Distinct(waitingPrefill) /\ InList(waitingPrefill) = ToPrefill(tick)
  /\ Distinct(waitingDecode) /\ InList(waitingDecode) = ToDecode(tick)

Begun(i) == lastDecodeStep[i] # None

\* What the counters of a request say of each other.
Told(i) ==
  /\ prefillRemaining[i] <= EffectivePrefill(reqs[i])
  /\ outputRemaining[i] <= reqs[i].output
  /\ reqs[i].output > 0 => outputRemaining[i] >= 0
  /\ Incomplete(i) /\ reqs[i].output > 0 => outputRemaining[i] > 0
  /\ ~Incomplete(i) => /\ Begun(i) /\ reqs[i].output > 0
                       /\ completedAt[i] = lastDecodeStep[i] + 1
  /\ Begun(i) => /\ prefillRemaining[i] = 0
                 /\ lastDecodeStep[i] < tick
                 /\ firstDecodeStep[i] \in reqs[i].arrival .. lastDecodeStep[i]
  /\ ~Begun(i) => firstDecodeStep[i] = None /\ widestGap[i] = 0

ChunksLeft == [i \in Rids |-> ChunksFor(prefillRemaining[i])]
AllChunks == [i \in Rids |-> Chunks(i)]
WorkLeft == [i \in Rids |-> ChunksLeft[i] + outputRemaining[i]]
Work == [i \in Rids |-> Chunks(i) + reqs[i].output]

\* From the last arrival on every step takes one piece of the work.
OnTime ==
  AllDecode /\ Rids # {} /\ tick >= FinalArrival
  => tick - FinalArrival + Total(WorkLeft, Rids) <= Total(Work, Rids)

\* Those that decoded when i was overdue.
Overtakers(i) ==
  {j \in Rids \ {i} : lastDecodeStep[j] >= lastDecodeStep[i] + options.bound}

\* How long a request that has begun has waited, and for whom.
Waited(i) ==
  /\ options.policy = "decode_first" =>
       waitingDecode[1] = i /\ lastDecodeStep[i] = tick - 1
  /\ options.policy = "prefill_first" =>
       /\ waitingDecode[1] = i
       /\ tick - lastDecodeStep[i] - 1 + Total(ChunksLeft, Rids \ {i})
            <= Total(AllChunks, Rids \ {i})
  /\ options.policy = "mixed_slo" =>
       tick - (lastDecodeStep[i] + options.bound) <= Cardinality(Overtakers(i))

Waits == \A i \in Rids : /\ Incomplete(i) /\ Begun(i) => Waited(i)
                         /\ widestGap[i] <= GapBound(i)

IInv == Shapes /\ Lists /\ (\A i \in Rids : Told(i)) /\ OnTime /\ Waits

-----------------------------------------------------------------------------
(* Arithmetic *)

\* It takes a chunk, if there is anything left, to have less than before.
LEMMA ChunksFall ==
  ASSUME NEW c \in Nat \ {0}, NEW p \in Nat, NEW q \in Nat
  PROVE  /\ (q + c - 1) \div c \in Nat
         /\ p <= q => (p + c - 1) \div c <= (q + c - 1) \div c
         /\ q > 0 /\ (p = 0 \/ p + c <= q) => (p + c - 1) \div c < (q + c - 1) \div c
<1> DEFINE m == (p + c - 1) \div c
           n == (q + c - 1) \div c
<1>1. p + c - 1 \in Nat /\ q + c - 1 \in Nat
  OBVIOUS
<1>2. m \in Nat /\ c * m <= p + c - 1 /\ p + c - 1 < c * m + c
  BY <1>1, QuotientBounds
<1>3. n \in Nat /\ c * n <= q + c - 1 /\ q + c - 1 < c * n + c
  BY <1>1, QuotientBounds
<1> HIDE DEF m, n
<1>4. ASSUME p <= q PROVE m <= n
  <2>1. SUFFICES ASSUME n + 1 <= m PROVE FALSE
    BY <1>2, <1>3
  <2>2. c * (n + 1) <= c * m
    BY <1>2, <1>3, <2>1
  <2>3. c * (n + 1) = c * n + c
    BY <1>3
  <2>4. c * m \in Int /\ c * n \in Int
    BY <1>2, <1>3
  <2> QED BY <1>2, <1>3, <1>4, <2>2, <2>3, <2>4
<1>5. ASSUME q > 0, p = 0 \/ p + c <= q PROVE m < n
  <2>1. SUFFICES ASSUME n <= m PROVE FALSE
    BY <1>2, <1>3
  <2>2. c * n <= c * m /\ c * m \in Int /\ c * n \in Int
    BY <1>2, <1>3, <2>1
  <2>3. CASE p + c <= q
    BY <1>2, <1>3, <2>2, <2>3
  <2>4. CASE p = 0
    <3>1. m = 0
      <4>1. SUFFICES ASSUME m >= 1 PROVE FALSE
        BY <1>2
      <4>2. c * m >= c
        BY <1>2, <4>1
      <4> QED BY <1>2, <2>2, <2>4, <4>2
    <3>2. n = 0
      BY <1>3, <2>1, <3>1
    <3>3. c * n = 0
      BY <3>2
    <3> QED BY <1>3, <1>5, <3>3
  <2> QED BY <1>5, <2>3, <2>4
<1> QED BY <1>3, <1>4, <1>5 DEF m, n

-----------------------------------------------------------------------------
(* The lists after the arrivals, and what is chosen from them *)

\* What the specs are.
LEMMA SpecsTyped ==
  ASSUME Shapes
  PROVE  /\ Len(reqs) \in Nat /\ Rids = 1 .. Len(reqs) /\ IsFiniteSet(Rids)
         /\ \A i \in Rids : /\ reqs[i].arrival \in Nat /\ reqs[i].prompt \in Nat
                            /\ reqs[i].saved \in Nat /\ reqs[i].output \in Nat
<1> DEFINE T == [arrival : Nat, prompt : Nat, saved : Nat, output : Nat]
<1>1. reqs \in Seq(T)
  BY DEF Shapes
<1>2. \A t \in T : t.arrival \in Nat /\ t.prompt \in Nat /\ t.saved \in Nat /\ t.output \in Nat
  OBVIOUS
<1> HIDE DEF T
<1>3. /\ Len(reqs) \in Nat /\ Rids = 1 .. Len(reqs)
      /\ \A i \in 1 .. Len(reqs) : reqs[i] \in T
  BY <1>1, ListTyped DEF Rids
<1>4. IsFiniteSet(1 .. Len(reqs))
  BY <1>3, FS_Interval
<1> QED BY <1>2, <1>3, <1>4

\* No request arrives after the last one.
LEMMA LatestArrival ==
  ASSUME Shapes, Rids # {}
  PROVE  FinalArrival \in Nat /\ \A i \in Rids : reqs[i].arrival <= FinalArrival
<1> DEFINE A == {reqs[i].arrival : i \in Rids}
<1>1. IsFiniteSet(Rids) /\ \A i \in Rids : reqs[i].arrival \in Nat
  BY SpecsTyped
<1>2. A \in SUBSET Int /\ A # {} /\ \A a \in A : a \in Nat
  BY <1>1
<1>3. IsFiniteSet(A)
  <2> DEFINE f == [i \in Rids |-> reqs[i].arrival]
  <2>1. f \in Surjection(Rids, A)
    BY DEF Surjection
  <2> HIDE DEF f, A
  <2> QED BY <1>1, <2>1, FS_Surjection
<1>4. FinalArrival = Max(A) /\ \A i \in Rids : reqs[i].arrival \in A
  BY DEF FinalArrival
<1> HIDE DEF A
<1> QED BY <1>2, <1>3, <1>4, GreatestMember

\* The lists that a step chooses from: who has arrived by then, by what is left.
LEMMA ListsSeen ==
  ASSUME IInv
  PROVE  /\ Prefills \in Seq(Rids) /\ Distinct(Prefills)
         /\ InList(Prefills) = ToPrefill(tick + 1)
         /\ Decodes \in Seq(Rids) /\ Distinct(Decodes)
         /\ InList(Decodes) = ToDecode(tick + 1)
         /\ waitingDecode # <<>> => Decodes[1] = waitingDecode[1]
<1>1. /\ tick \in Nat /\ prefillRemaining \in [Rids -> Nat]
      /\ waitingPrefill \in Seq(Rids) /\ waitingDecode \in Seq(Rids)
  BY DEF IInv, Shapes
<1>2. \A i \in Rids : /\ reqs[i].arrival \in Nat /\ prefillRemaining[i] \in Nat
                      /\ reqs[i].arrival < tick + 1
                          <=> reqs[i].arrival < tick \/ reqs[i].arrival = tick
                      /\ prefillRemaining[i] > 0 <=> prefillRemaining[i] # 0
                      /\ ~(reqs[i].arrival < tick /\ reqs[i].arrival = tick)
  BY <1>1, SpecsTyped DEF IInv
<1>3. \A i \in Rids : reqs[i].arrival = tick => Incomplete(i)
  <2>1. \A i \in Rids : Begun(i) => /\ lastDecodeStep[i] < tick
                                    /\ firstDecodeStep[i] \in reqs[i].arrival .. lastDecodeStep[i]
    BY DEF IInv, Told
  <2>2. \A i \in Rids : ~Incomplete(i) => Begun(i)
    BY DEF IInv, Told
  <2>3. \A i \in Rids : lastDecodeStep[i] \in Int
    BY DEF IInv, Shapes
  <2> SUFFICES ASSUME NEW i \in Rids, reqs[i].arrival = tick, ~Incomplete(i) PROVE FALSE
    OBVIOUS
  <2>4. Begun(i)
    BY <2>2
  <2>5. lastDecodeStep[i] < tick /\ firstDecodeStep[i] \in tick .. lastDecodeStep[i]
    BY <2>1, <2>4
  <2> QED BY <1>1, <2>3, <2>5
<1> DEFINE all == [i \in Rids |-> i]
           new == {i \in Rids : reqs[i].arrival = tick /\ Incomplete(i)}
<1>4. all \in Seq(Rids) /\ Distinct(all) /\ InList(all) = Rids
  <2>1. Rids = 1 .. Len(reqs) /\ Len(reqs) \in Nat
    BY <1>1, ListTyped DEF Rids
  <2>2. all \in [1 .. Len(reqs) -> Rids]
    BY <2>1
  <2> DEFINE n == Len(reqs)
  <2>3. n \in Nat /\ all \in [1 .. n -> Rids] /\ \A k \in 1 .. n : all[k] = k
    BY <2>1, <2>2
  <2> HIDE DEF all, n
  <2>4. all \in Seq(Rids) /\ Len(all) = n /\ DOMAIN all = 1 .. n
    BY <2>3, NumberedList
  <2>5. Distinct(all)
    BY <2>3, <2>4 DEF Distinct
  <2>6. InList(all) = 1 .. n
    BY <2>3, <2>4 DEF InList
  <2> QED BY <2>1, <2>4, <2>5, <2>6 DEF n
<1>5. /\ NewRequests \in Seq(Rids) /\ Distinct(NewRequests)
      /\ InList(NewRequests) = {i \in Rids : reqs[i].arrival = tick}
  <2>1. NewRequests = Keep(all, new)
    BY DEF NewRequests
  <2>2. new = {i \in Rids : reqs[i].arrival = tick}
    BY <1>3
  <2> HIDE DEF all, new
  <2>3. Keep(all, new) \in Seq(Rids) /\ Distinct(Keep(all, new))
        /\ InList(Keep(all, new)) = Rids \cap new
    BY <1>4, KeepList
  <2> QED BY <2>1, <2>2, <2>3
<1>6. /\ PrefillQueue \in Seq(Rids) /\ Distinct(PrefillQueue)
      /\ InList(PrefillQueue) = ToPrefill(tick) \cup {i \in Rids : reqs[i].arrival = tick}
  <2>1. Distinct(waitingPrefill) /\ InList(waitingPrefill) = ToPrefill(tick)
    BY DEF IInv, Lists
  <2>2. InList(waitingPrefill) \cap InList(NewRequests) = {}
    BY <1>1, <1>2, <1>5, <2>1 DEF ToPrefill
  <2> QED BY <1>1, <1>5, <2>1, <2>2, ConcatLists DEF PrefillQueue
<1> DEFINE toPrefill == {i \in Rids : prefillRemaining[i] # 0}
           toDecode == {i \in Rids : prefillRemaining[i] = 0}
<1>7. /\ Prefills \in Seq(Rids) /\ Distinct(Prefills)
      /\ InList(Prefills) = InList(PrefillQueue) \cap toPrefill
  <2>1. Prefills = Keep(PrefillQueue, toPrefill)
    BY DEF Prefills
  <2> HIDE DEF toPrefill
  <2> QED BY <1>6, <2>1, KeepList
<1>8. InList(PrefillQueue) \cap toPrefill = ToPrefill(tick + 1)
  BY <1>2, <1>6 DEF ToPrefill
<1> DEFINE ready == Keep(PrefillQueue, toDecode)
<1>9. ready \in Seq(Rids) /\ Distinct(ready) /\ InList(ready) = InList(PrefillQueue) \cap toDecode
  <2> HIDE DEF toDecode
  <2> QED BY <1>6, KeepList
<1>10. InList(PrefillQueue) \cap toDecode
         = {i \in Rids : reqs[i].arrival = tick /\ prefillRemaining[i] = 0}
  BY <1>2, <1>6 DEF ToPrefill
<1>11. Distinct(waitingDecode) /\ InList(waitingDecode) = ToDecode(tick)
  BY DEF IInv, Lists
<1>12. InList(waitingDecode) \cap InList(ready) = {}
  BY <1>2, <1>9, <1>10, <1>11 DEF ToDecode
<1>13. Decodes = waitingDecode \o ready
  BY DEF Decodes
<1> HIDE DEF ready
<1>14. /\ Decodes \in Seq(Rids) /\ Distinct(Decodes)
       /\ InList(Decodes) = InList(waitingDecode) \cup InList(ready)
       /\ \A k \in 1 .. Len(waitingDecode) : Decodes[k] = waitingDecode[k]
  BY <1>1, <1>9, <1>11, <1>12, <1>13, ConcatLists
<1>15. InList(waitingDecode) \cup InList(ready) = ToDecode(tick + 1)
  BY <1>2, <1>3, <1>9, <1>10, <1>11 DEF ToDecode
<1>16. waitingDecode # <<>> => 1 \in 1 .. Len(waitingDecode)
  BY <1>1, ListTyped
<1> QED BY <1>7, <1>8, <1>14, <1>15, <1>16

\* Among overdue requests the choice is one that no other is more urgent than.
LEMMA MostUrgentLeast ==
  ASSUME IInv, NEW overdue \in Seq(Rids), overdue # <<>>
  PROVE  /\ MostUrgent(overdue) \in InList(overdue)
         /\ \A j \in InList(overdue) : ~MoreUrgent(j, MostUrgent(overdue))
<1>1. lastDecodeStep \in [Rids -> Int]
  BY DEF IInv, Shapes
<1>2. \A i \in Rids : reqs[i].arrival \in Nat /\ lastDecodeStep[i] \in Int
  BY <1>1, SpecsTyped DEF IInv
<1>3. \A i \in Rids : LastOr(i) + 1 \in Nat /\ LastOr(i) \in Int
  <2>1. \A i \in Rids : lastDecodeStep[i] = None \/ lastDecodeStep[i] \in Nat
    <3>1. \A i \in Rids : Begun(i) => firstDecodeStep[i] \in reqs[i].arrival .. lastDecodeStep[i]
      BY DEF IInv, Told
    <3> QED BY <1>2, <3>1 DEF Begun
  <2> QED BY <2>1 DEF LastOr, None
<1>4. /\ Len(overdue) \in Nat /\ DOMAIN overdue = 1 .. Len(overdue) /\ Len(overdue) # 0
      /\ \A k \in 1 .. Len(overdue) : overdue[k] \in Rids
      /\ InList(overdue) = {overdue[k] : k \in 1 .. Len(overdue)}
  BY ListTyped
<1> DEFINE P == 1 .. Len(overdue)
           waits == {LastOr(overdue[k]) + 1 : k \in P}
<1>5. PICK least \in waits : \A w \in waits : least <= w
  <2>1. waits \in SUBSET Nat /\ waits # {}
    BY <1>3, <1>4
  <2> HIDE DEF waits
  <2> QED BY <2>1, LeastNumber
<1> DEFINE ties == {k \in P : LastOr(overdue[k]) + 1 = least}
           arrivals == {reqs[overdue[k]].arrival : k \in ties}
<1>6. PICK first \in arrivals : \A a \in arrivals : first <= a
  <2>1. arrivals \in SUBSET Nat /\ arrivals # {}
    BY <1>2, <1>4, <1>5
  <2> HIDE DEF arrivals
  <2> QED BY <2>1, LeastNumber
<1>7. PICK m \in P : LastOr(overdue[m]) + 1 = least /\ reqs[overdue[m]].arrival = first
  BY <1>6
<1> DEFINE best == {k \in P : \A n \in P : ~MoreUrgent(overdue[n], overdue[k])}
<1>8. m \in best
  <2> SUFFICES ASSUME NEW n \in P PROVE ~MoreUrgent(overdue[n], overdue[m])
    BY <1>7
  <2>1. /\ LastOr(overdue[n]) \in Int /\ LastOr(overdue[m]) \in Int
        /\ reqs[overdue[n]].arrival \in Nat /\ reqs[overdue[m]].arrival \in Nat
    BY <1>2, <1>3, <1>4
  <2>2. least <= LastOr(overdue[n]) + 1
    BY <1>5
  <2>3. LastOr(overdue[n]) + 1 = least => first <= reqs[overdue[n]].arrival
    BY <1>6
  <2> QED BY <1>7, <2>1, <2>2, <2>3 DEF MoreUrgent
<1>9. Min(best) \in best
  <2>1. best \in SUBSET Nat /\ best # {}
    BY <1>4, <1>8
  <2> HIDE DEF best
  <2>2. \E n \in best : \A k \in best : n <= k
    BY <2>1, LeastNumber
  <2> QED BY <2>2 DEF Min
<1>10. MostUrgent(overdue) = overdue[Min(best)]
  BY <1>4 DEF MostUrgent
<1> DEFINE b == Min(best)
<1>11. b \in P /\ \A n \in P : ~MoreUrgent(overdue[n], overdue[b])
  BY <1>9
<1> HIDE DEF b
<1> QED BY <1>4, <1>10, <1>11 DEF b

\* What is chosen, by policy.
LEMMA Selects ==
  ASSUME IInv
  PROVE  \/ /\ Selected.operation = "prefill" /\ Selected.request \in ToPrefill(tick + 1)
            /\ options.policy = "decode_first" => ToDecode(tick + 1) = {}
            /\ options.policy = "mixed_slo" => \A j \in ToDecode(tick + 1) : ~Urgent(j)
         \/ /\ Selected.operation = "decode" /\ Selected.request \in ToDecode(tick + 1)
            /\ options.policy # "mixed_slo" => Selected.request = Decodes[1]
            /\ options.policy = "mixed_slo" =>
                 \A j \in ToDecode(tick + 1) :
                   Urgent(j) => Urgent(Selected.request) /\ ~MoreUrgent(j, Selected.request)
         \/ /\ Selected.operation = "idle"
            /\ ToPrefill(tick + 1) = {} /\ ToDecode(tick + 1) = {}
<1>1. /\ Prefills \in Seq(Rids) /\ InList(Prefills) = ToPrefill(tick + 1)
      /\ Decodes \in Seq(Rids) /\ InList(Decodes) = ToDecode(tick + 1)
  BY ListsSeen
<1>2. options.policy \in Policies
  BY DEF IInv, Shapes
<1>3. ASSUME NEW list \in Seq(Rids)
      PROVE  /\ list # <<>> => Head(list) = list[1] /\ list[1] \in InList(list)
             /\ list = <<>> => InList(list) = {}
  <2>1. list # <<>> => 1 \in DOMAIN list
    BY ListTyped
  <2>2. list = <<>> => DOMAIN list = {}
    BY ListTyped
  <2> QED BY <2>1, <2>2 DEF InList
<1>4. LET s == PrefillElseDecode(Prefills, Decodes)
      IN  \/ s.operation = "prefill" /\ s.request \in ToPrefill(tick + 1)
          \/ /\ s.operation = "decode" /\ s.request \in ToDecode(tick + 1)
             /\ s.request = Decodes[1]
          \/ s.operation = "idle" /\ ToPrefill(tick + 1) = {} /\ ToDecode(tick + 1) = {}
  <2>1. CASE Prefills # <<>>
    BY <1>1, <1>3, <2>1 DEF PrefillElseDecode, HeadOf
  <2>2. CASE Prefills = <<>> /\ Decodes # <<>>
    BY <1>1, <1>3, <2>2 DEF PrefillElseDecode, HeadOf
  <2>3. CASE Prefills = <<>> /\ Decodes = <<>>
    BY <1>1, <1>3, <2>3 DEF PrefillElseDecode, Idle
  <2> QED BY <2>1, <2>2, <2>3
<1>5. CASE options.policy = "prefill_first"
  <2>1. Selected = PrefillElseDecode(Prefills, Decodes)
    BY <1>5 DEF Selected, Select
  <2> QED BY <1>4, <1>5, <2>1
<1>6. CASE options.policy = "decode_first"
  <2>1. Selected = DecodeElsePrefill(Prefills, Decodes)
    BY <1>6 DEF Selected, Select
  <2>2. CASE Decodes # <<>>
    BY <1>1, <1>3, <1>6, <2>1, <2>2 DEF DecodeElsePrefill, HeadOf
  <2>3. CASE Decodes = <<>>
    BY <1>1, <1>3, <1>4, <1>6, <2>1, <2>3 DEF DecodeElsePrefill
  <2> QED BY <2>2, <2>3
<1>7. CASE options.policy = "mixed_slo"
  <2> DEFINE urgent == {i \in Rids : Urgent(i)}
  <2>1. /\ Overdue(Decodes) \in Seq(Rids)
        /\ InList(Overdue(Decodes)) = ToDecode(tick + 1) \cap urgent
    <3>1. Overdue(Decodes) = Keep(Decodes, urgent)
      BY DEF Overdue
    <3> HIDE DEF urgent
    <3> QED BY <1>1, <3>1, KeepList
  <2>2. \A j \in ToDecode(tick + 1) : j \in Rids
    BY DEF ToDecode
  <2>3. CASE Overdue(Decodes) # <<>>
    <3>1. Selected = [operation |-> "decode", request |-> MostUrgent(Overdue(Decodes))]
      BY <1>7, <2>3 DEF Selected, Select
    <3>2. /\ MostUrgent(Overdue(Decodes)) \in InList(Overdue(Decodes))
          /\ \A j \in InList(Overdue(Decodes)) : ~MoreUrgent(j, MostUrgent(Overdue(Decodes)))
      BY <2>1, <2>3, MostUrgentLeast
    <3> QED BY <1>7, <2>1, <2>2, <3>1, <3>2
  <2>4. CASE Overdue(Decodes) = <<>>
    <3>1. Selected = PrefillElseDecode(Prefills, Decodes)
      BY <1>7, <2>4 DEF Selected, Select
    <3>2. \A j \in ToDecode(tick + 1) : ~Urgent(j)
      BY <1>3, <2>1, <2>2, <2>4
    <3> QED BY <1>4, <1>7, <3>1, <3>2
  <2> QED BY <2>3, <2>4
<1> QED BY <1>2, <1>5, <1>6, <1>7 DEF Policies

-----------------------------------------------------------------------------
(* The three kinds of step, by what they change *)

Prefilled(i, left) ==
  /\ i \in ToPrefill(tick + 1) /\ left \in Nat
  /\ left < prefillRemaining[i] /\ ChunksFor(left) < ChunksFor(prefillRemaining[i])
  /\ prefillRemaining' = [prefillRemaining EXCEPT ![i] = left]
  /\ waitingPrefill' \in Seq(Rids) /\ Distinct(waitingPrefill')
  /\ waitingDecode' \in Seq(Rids) /\ Distinct(waitingDecode')
  /\ InList(waitingPrefill') = IF left = 0 THEN ToPrefill(tick + 1) \ {i}
                                           ELSE ToPrefill(tick + 1)
  /\ InList(waitingDecode') = IF left = 0 THEN ToDecode(tick + 1) \cup {i}
                                          ELSE ToDecode(tick + 1)
  /\ waitingDecode # <<>> => waitingDecode'[1] = waitingDecode[1]
  /\ options.policy = "decode_first" => ToDecode(tick + 1) = {}
  /\ options.policy = "mixed_slo" => \A j \in ToDecode(tick + 1) : ~Urgent(j)
  /\ UNCHANGED <<outputRemaining, firstDecodeStep, lastDecodeStep, widestGap, completedAt>>

Decoded(i) ==
  /\ i \in ToDecode(tick + 1)
  /\ firstDecodeStep' = [firstDecodeStep EXCEPT ![i] = IF @ = None THEN tick ELSE @]
  /\ widestGap' = [widestGap EXCEPT ![i] =
       IF lastDecodeStep[i] = None THEN @ ELSE Max({@, tick - lastDecodeStep[i]})]
  /\ lastDecodeStep' = [lastDecodeStep EXCEPT ![i] = tick]
  /\ outputRemaining' = [outputRemaining EXCEPT ![i] = @ - 1]
  /\ completedAt' = [completedAt EXCEPT ![i] =
       IF outputRemaining[i] = 1 THEN tick + 1 ELSE @]
  /\ waitingPrefill' \in Seq(Rids) /\ Distinct(waitingPrefill')
  /\ waitingDecode' \in Seq(Rids) /\ Distinct(waitingDecode')
  /\ InList(waitingPrefill') = ToPrefill(tick + 1)
  /\ InList(waitingDecode') = IF outputRemaining[i] = 1 THEN ToDecode(tick + 1) \ {i}
                                                        ELSE ToDecode(tick + 1)
  /\ options.policy # "mixed_slo" =>
       /\ waitingDecode # <<>> => waitingDecode[1] = i
       /\ outputRemaining[i] # 1 => waitingDecode'[1] = i
  /\ options.policy = "mixed_slo" =>
       \A j \in ToDecode(tick + 1) : Urgent(j) => Urgent(i) /\ ~MoreUrgent(j, i)
  /\ UNCHANGED prefillRemaining

Idled ==
  /\ ToPrefill(tick + 1) = {} /\ ToDecode(tick + 1) = {}
  /\ waitingPrefill' \in Seq(Rids) /\ Distinct(waitingPrefill')
  /\ waitingDecode' \in Seq(Rids) /\ Distinct(waitingDecode')
  /\ InList(waitingPrefill') = {} /\ InList(waitingDecode') = {}
  /\ UNCHANGED <<prefillRemaining, outputRemaining, firstDecodeStep, lastDecodeStep,
                 widestGap, completedAt>>

LEMMA StepCases ==
  ASSUME IInv, PrefillStep
  PROVE  /\ tick' = tick + 1 /\ reqs' = reqs /\ options' = options
         /\ \E i \in Rids : Incomplete(i)
         /\ (\E i \in Rids, left \in Nat : Prefilled(i, left))
            \/ (\E i \in Rids : Decoded(i)) \/ Idled
<1>1. /\ tick' = tick + 1 /\ reqs' = reqs /\ options' = options
      /\ \E i \in Rids : Incomplete(i)
  BY DEF PrefillStep
<1>2. /\ Prefills \in Seq(Rids) /\ Distinct(Prefills)
      /\ InList(Prefills) = ToPrefill(tick + 1)
      /\ Decodes \in Seq(Rids) /\ Distinct(Decodes)
      /\ InList(Decodes) = ToDecode(tick + 1)
      /\ waitingDecode # <<>> => Decodes[1] = waitingDecode[1]
  BY ListsSeen
<1>3. ToPrefill(tick + 1) \subseteq Rids /\ ToDecode(tick + 1) \subseteq Rids
  BY DEF ToPrefill, ToDecode
<1>4. \A i : /\ Without(Prefills, i) \in Seq(Rids) /\ Distinct(Without(Prefills, i))
             /\ InList(Without(Prefills, i)) = ToPrefill(tick + 1) \ {i}
             /\ Without(Decodes, i) \in Seq(Rids) /\ Distinct(Without(Decodes, i))
             /\ InList(Without(Decodes, i)) = ToDecode(tick + 1) \ {i}
  <2> SUFFICES ASSUME NEW i, NEW list \in Seq(Rids), Distinct(list)
               PROVE  /\ Without(list, i) \in Seq(Rids) /\ Distinct(Without(list, i))
                      /\ InList(Without(list, i)) = InList(list) \ {i}
    BY <1>2
  <2>1. /\ Without(list, i) \in Seq(Rids) /\ Distinct(Without(list, i))
        /\ InList(Without(list, i)) = InList(list) \cap (Rids \ {i})
    BY KeepList DEF Without
  <2>2. InList(list) \subseteq Rids
    BY ListTyped
  <2> QED BY <2>1, <2>2
<1>5. CASE Selected.operation = "prefill"
  <2> DEFINE i == Selected.request
             left == Max({0, prefillRemaining[i] - options.chunk})
  <2>1. /\ i \in ToPrefill(tick + 1)
        /\ options.policy = "decode_first" => ToDecode(tick + 1) = {}
        /\ options.policy = "mixed_slo" => \A j \in ToDecode(tick + 1) : ~Urgent(j)
    BY <1>5, Selects
  <2>2. Prefill(i, Prefills, Decodes)
    BY <1>5 DEF PrefillStep
  <2>3. /\ i \in Rids /\ prefillRemaining[i] \in Nat /\ prefillRemaining[i] > 0
        /\ options.chunk \in Nat \ {0} /\ prefillRemaining \in [Rids -> Nat]
    BY <1>3, <2>1 DEF IInv, Shapes, ToPrefill
  <2>4. /\ prefillRemaining' = [prefillRemaining EXCEPT ![i] = left]
        /\ waitingPrefill' = IF left = 0 THEN Without(Prefills, i) ELSE Prefills
        /\ waitingDecode' = IF left = 0 THEN Append(Decodes, i) ELSE Decodes
        /\ UNCHANGED <<outputRemaining, firstDecodeStep, lastDecodeStep, widestGap, completedAt>>
    BY <2>2 DEF Prefill
  <2> HIDE DEF i
  <2>5. left = IF 0 <= prefillRemaining[i] - options.chunk
               THEN prefillRemaining[i] - options.chunk ELSE 0
    BY <2>3, MaxOfTwo
  <2> HIDE DEF left
  <2>6. /\ left \in Nat /\ left < prefillRemaining[i]
        /\ left = 0 \/ left + options.chunk <= prefillRemaining[i]
    BY <2>3, <2>5
  <2>7. ChunksFor(left) < ChunksFor(prefillRemaining[i])
    BY <2>3, <2>6, ChunksFall DEF ChunksFor
  <2>8. i \notin ToDecode(tick + 1)
    BY <2>3 DEF ToDecode
  <2>9. /\ Append(Decodes, i) \in Seq(Rids) /\ Distinct(Append(Decodes, i))
        /\ InList(Append(Decodes, i)) = ToDecode(tick + 1) \cup {i}
        /\ \A k \in 1 .. Len(Decodes) : Append(Decodes, i)[k] = Decodes[k]
    BY <1>2, <2>3, <2>8, AppendList
  <2>10. waitingDecode # <<>> => waitingDecode'[1] = waitingDecode[1]
    <3>1. waitingDecode # <<>> => 1 \in DOMAIN waitingDecode
      <4>1. waitingDecode \in Seq(Rids)
        BY DEF IInv, Shapes
      <4> QED BY <4>1, ListTyped
    <3>2. waitingDecode # <<>> => ToDecode(tick) # {}
      <4>1. InList(waitingDecode) = ToDecode(tick)
        BY DEF IInv, Lists
      <4> QED BY <3>1, <4>1 DEF InList
    <3>3. \A j \in Rids : reqs[j].arrival < tick => reqs[j].arrival < tick + 1
      <4>1. tick \in Nat /\ Shapes
        BY DEF IInv, Shapes
      <4> QED BY <4>1, SpecsTyped
    <3>4. ToDecode(tick) \subseteq ToDecode(tick + 1)
      BY <3>3 DEF ToDecode
    <3>5. waitingDecode # <<>> => 1 \in 1 .. Len(Decodes)
      <4>1. InList(Decodes) = {Decodes[k] : k \in 1 .. Len(Decodes)} /\ Len(Decodes) \in Nat
        BY <1>2, ListTyped
      <4>2. waitingDecode # <<>> => \E k : k \in 1 .. Len(Decodes)
        BY <1>2, <3>2, <3>4, <4>1
      <4> QED BY <4>1, <4>2
    <3> QED BY <1>2, <2>4, <2>9, <3>5
  <2>11. Prefilled(i, left)
    BY <1>2, <1>4, <2>1, <2>4, <2>6, <2>7, <2>9, <2>10 DEF Prefilled
  <2> QED BY <1>1, <2>3, <2>6, <2>11
<1>6. CASE Selected.operation = "decode"
  <2> DEFINE i == Selected.request
  <2>1. /\ i \in ToDecode(tick + 1)
        /\ options.policy # "mixed_slo" => i = Decodes[1]
        /\ options.policy = "mixed_slo" =>
             \A j \in ToDecode(tick + 1) : Urgent(j) => Urgent(i) /\ ~MoreUrgent(j, i)
    BY <1>6, Selects
  <2>2. Decode(i, Prefills, Decodes)
    BY <1>6 DEF PrefillStep
  <2> HIDE DEF i
  <2>3. waitingDecode' = IF outputRemaining[i] = 1 THEN Without(Decodes, i) ELSE Decodes
    BY <2>2 DEF Decode
  <2>4. Decoded(i)
    BY <1>2, <1>4, <2>1, <2>2, <2>3 DEF Decoded, Decode
  <2> QED BY <1>1, <1>3, <2>1, <2>4
<1>7. CASE Selected.operation = "idle"
  <2>1. Idled
    BY <1>2, <1>7, Selects DEF Idled, PrefillStep
  <2> QED BY <1>1, <2>1
<1> QED BY <1>5, <1>6, <1>7, Selects

-----------------------------------------------------------------------------
(* Every step keeps the invariant *)

\* The types, in each kind of step.
LEMMA ShapesKept ==
  ASSUME IInv, PrefillStep
  PROVE  Shapes'
<1>1. tick' = tick + 1 /\ reqs' = reqs /\ options' = options
  BY StepCases
<1>2. Shapes /\ tick \in Nat
  BY DEF IInv, Shapes
<1>3. ASSUME NEW i \in Rids, NEW left \in Nat, Prefilled(i, left) PROVE Shapes'
  BY <1>1, <1>2, <1>3 DEF Shapes, Prefilled, Rids
<1>4. ASSUME NEW i \in Rids, Decoded(i) PROVE Shapes'
  <2>1. /\ widestGap[i] \in Nat /\ lastDecodeStep[i] \in Int
        /\ lastDecodeStep[i] # None => lastDecodeStep[i] < tick
    BY <1>2 DEF IInv, Shapes, Told, Begun
  <2>2. lastDecodeStep[i] # None => Max({widestGap[i], tick - lastDecodeStep[i]}) \in Nat
    BY <1>2, <2>1, MaxOfTwo
  <2>3. widestGap' \in [Rids -> Nat]
    BY <1>2, <1>4, <2>1, <2>2 DEF Shapes, Decoded
  <2>4. /\ firstDecodeStep' \in [Rids -> Int] /\ lastDecodeStep' \in [Rids -> Int]
        /\ outputRemaining' \in [Rids -> Int] /\ completedAt' \in [Rids -> Int]
        /\ prefillRemaining' \in [Rids -> Nat]
        /\ waitingPrefill' \in Seq(Rids) /\ waitingDecode' \in Seq(Rids)
    BY <1>2, <1>4 DEF Shapes, Decoded
  <2>5. Rids' = Rids
    BY <1>1 DEF Rids
  <2>6. /\ reqs' \in Seq([arrival : Nat, prompt : Nat, saved : Nat, output : Nat])
        /\ options' \in [policy : Policies, chunk : Nat \ {0}, bound : Nat \ {0}]
        /\ tick' \in Nat
    BY <1>1, <1>2 DEF Shapes
  <2> QED BY <2>3, <2>4, <2>5, <2>6 DEF Shapes
<1>5. ASSUME Idled PROVE Shapes'
  BY <1>1, <1>2, <1>5 DEF Shapes, Idled, Rids
<1> QED BY <1>3, <1>4, <1>5, StepCases

\* The lists hold who has work of their kind left.
LEMMA ListsKept ==
  ASSUME IInv, PrefillStep
  PROVE  Lists'
<1>1. tick' = tick + 1 /\ reqs' = reqs
  BY StepCases
<1>2. Shapes /\ \A i \in Rids : Told(i)
  BY DEF IInv
<1>3. Rids' = Rids
  BY <1>1 DEF Rids
<1>4. ASSUME NEW i \in Rids, NEW left \in Nat, Prefilled(i, left) PROVE Lists'
  <2>1. /\ Distinct(waitingPrefill') /\ Distinct(waitingDecode')
        /\ prefillRemaining' = [prefillRemaining EXCEPT ![i] = left]
        /\ completedAt' = completedAt
        /\ i \in ToPrefill(tick + 1)
        /\ InList(waitingPrefill') = IF left = 0 THEN ToPrefill(tick + 1) \ {i}
                                                 ELSE ToPrefill(tick + 1)
        /\ InList(waitingDecode') = IF left = 0 THEN ToDecode(tick + 1) \cup {i}
                                                ELSE ToDecode(tick + 1)
    BY <1>4 DEF Prefilled
  <2>2. prefillRemaining \in [Rids -> Nat]
    BY <1>2 DEF Shapes
  <2>3. i \in Rids /\ reqs[i].arrival < tick + 1 /\ prefillRemaining[i] > 0
    BY <2>1 DEF ToPrefill
  <2>4. Incomplete(i)
    BY <1>2, <2>2, <2>3 DEF Told
  <2>5. InList(waitingPrefill') = {j \in Rids : reqs[j].arrival < tick + 1 /\ prefillRemaining'[j] > 0}
    BY <2>1, <2>2, <2>3 DEF ToPrefill
  <2>6. InList(waitingDecode') = {j \in Rids : /\ reqs[j].arrival < tick + 1
                                             /\ prefillRemaining'[j] = 0 /\ Incomplete(j)}
    BY <2>1, <2>2, <2>3, <2>4 DEF ToDecode
  <2> QED BY <1>1, <1>3, <2>1, <2>5, <2>6 DEF Lists, ToPrefill, ToDecode, Incomplete
<1>5. ASSUME NEW i \in Rids, Decoded(i) PROVE Lists'
  <2>1. /\ Distinct(waitingPrefill') /\ Distinct(waitingDecode')
        /\ prefillRemaining' = prefillRemaining
        /\ completedAt' = [completedAt EXCEPT ![i] =
             IF outputRemaining[i] = 1 THEN tick + 1 ELSE @]
        /\ i \in ToDecode(tick + 1)
        /\ InList(waitingPrefill') = ToPrefill(tick + 1)
        /\ InList(waitingDecode') = IF outputRemaining[i] = 1 THEN ToDecode(tick + 1) \ {i}
                                                              ELSE ToDecode(tick + 1)
    BY <1>5 DEF Decoded
  <2>2. completedAt \in [Rids -> Int] /\ tick \in Nat
    BY <1>2 DEF Shapes
  <2>3. tick + 1 # None
    BY <2>2 DEF None
  <2>4. InList(waitingDecode') = {j \in Rids : /\ reqs[j].arrival < tick + 1
                                             /\ prefillRemaining[j] = 0 /\ completedAt'[j] = None}
    BY <2>1, <2>2, <2>3 DEF ToDecode, Incomplete
  <2> QED BY <1>1, <1>3, <2>1, <2>4 DEF Lists, ToPrefill, ToDecode, Incomplete
<1>6. ASSUME Idled PROVE Lists'
  BY <1>1, <1>3, <1>6 DEF Lists, Idled, ToPrefill, ToDecode, Incomplete
<1> QED BY <1>4, <1>5, <1>6, StepCases

\* The counters tell the same.
LEMMA ToldKept ==
  ASSUME IInv, PrefillStep, NEW k \in Rids
  PROVE  Told(k)'
<1>1. tick' = tick + 1 /\ reqs' = reqs
  BY StepCases
<1>2. /\ Told(k) /\ tick \in Nat /\ k \in Rids
      /\ prefillRemaining \in [Rids -> Nat] /\ outputRemaining \in [Rids -> Int]
      /\ firstDecodeStep \in [Rids -> Int] /\ lastDecodeStep \in [Rids -> Int]
      /\ widestGap \in [Rids -> Nat] /\ completedAt \in [Rids -> Int]
  BY DEF IInv, Shapes
<1>3. reqs[k].arrival \in Nat /\ reqs[k].output \in Nat /\ reqs[k].prompt \in Nat
      /\ reqs[k].saved \in Nat
  BY SpecsTyped DEF IInv
<1>4. EffectivePrefill(reqs[k]) \in Nat
  BY <1>3, MaxOfTwo DEF EffectivePrefill
<1>5. UNCHANGED <<outputRemaining, firstDecodeStep, lastDecodeStep, widestGap, completedAt>>
      /\ prefillRemaining'[k] <= prefillRemaining[k] /\ prefillRemaining'[k] \in Nat
      => Told(k)'
  <2> SUFFICES ASSUME UNCHANGED <<outputRemaining, firstDecodeStep, lastDecodeStep, widestGap,
                                  completedAt>>,
                      prefillRemaining'[k] <= prefillRemaining[k], prefillRemaining'[k] \in Nat
               PROVE  Told(k)'
    OBVIOUS
  <2>1. EffectivePrefill(reqs[k])' = EffectivePrefill(reqs[k])
    BY <1>1 DEF EffectivePrefill
  <2>2. prefillRemaining'[k] <= EffectivePrefill(reqs[k])
    BY <1>2, <1>4 DEF Told
  <2>3. Begun(k) => prefillRemaining'[k] = 0 /\ lastDecodeStep[k] < tick + 1
    BY <1>2 DEF Told
  <2> QED BY <1>1, <1>2, <2>1, <2>2, <2>3 DEF Told, Begun, Incomplete
<1>6. ASSUME NEW i \in Rids, NEW left \in Nat, Prefilled(i, left) PROVE Told(k)'
  <2>1. prefillRemaining'[k] <= prefillRemaining[k] /\ prefillRemaining'[k] \in Nat
    BY <1>2, <1>6 DEF Prefilled
  <2> QED BY <1>5, <1>6, <2>1 DEF Prefilled
<1>7. ASSUME NEW i \in Rids, Decoded(i) PROVE Told(k)'
  <2>1. /\ i \in ToDecode(tick + 1) /\ prefillRemaining' = prefillRemaining
        /\ firstDecodeStep' = [firstDecodeStep EXCEPT ![i] = IF @ = None THEN tick ELSE @]
        /\ lastDecodeStep' = [lastDecodeStep EXCEPT ![i] = tick]
        /\ outputRemaining' = [outputRemaining EXCEPT ![i] = @ - 1]
        /\ completedAt' = [completedAt EXCEPT ![i] =
             IF outputRemaining[i] = 1 THEN tick + 1 ELSE @]
        /\ k # i => widestGap'[k] = widestGap[k]
    BY <1>2, <1>7 DEF Decoded
  <2>2. reqs[i].arrival < tick + 1 /\ prefillRemaining[i] = 0 /\ Incomplete(i)
    BY <2>1 DEF ToDecode
  <2>3. EffectivePrefill(reqs[k])' = EffectivePrefill(reqs[k])
    BY <1>1 DEF EffectivePrefill
  <2>4. CASE k # i
    <3>1. /\ prefillRemaining'[k] = prefillRemaining[k] /\ firstDecodeStep'[k] = firstDecodeStep[k]
          /\ lastDecodeStep'[k] = lastDecodeStep[k] /\ outputRemaining'[k] = outputRemaining[k]
          /\ completedAt'[k] = completedAt[k] /\ widestGap'[k] = widestGap[k]
      BY <1>2, <2>1, <2>4
    <3>2. Begun(k) => lastDecodeStep[k] < tick + 1
      BY <1>2 DEF Told
    <3> QED BY <1>1, <1>2, <2>3, <3>1, <3>2 DEF Told, Begun, Incomplete
  <2>5. CASE k = i
    <3>1. /\ prefillRemaining'[k] = 0
          /\ firstDecodeStep'[k] = IF firstDecodeStep[k] = None THEN tick ELSE firstDecodeStep[k]
          /\ lastDecodeStep'[k] = tick /\ outputRemaining'[k] = outputRemaining[k] - 1
          /\ completedAt'[k] = IF outputRemaining[k] = 1 THEN tick + 1 ELSE None
      BY <1>2, <2>1, <2>2, <2>5 DEF Incomplete
    <3>2. Begun(k)'
      BY <1>2, <3>1 DEF Begun, None
    <3>3. firstDecodeStep'[k] \in reqs[k].arrival .. tick
      <4>1. CASE Begun(k)
        <5>1. firstDecodeStep[k] \in reqs[k].arrival .. lastDecodeStep[k] /\ lastDecodeStep[k] < tick
          BY <1>2, <4>1 DEF Told
        <5>2. lastDecodeStep[k] \in Int /\ firstDecodeStep[k] # None
          BY <1>2, <1>3, <5>1 DEF None
        <5> QED BY <1>2, <1>3, <3>1, <5>1, <5>2
      <4>2. CASE ~Begun(k)
        <5>1. firstDecodeStep[k] = None
          BY <1>2, <4>2 DEF Told
        <5> QED BY <1>2, <1>3, <2>2, <2>5, <3>1, <5>1
      <4> QED BY <4>1, <4>2
    <3>4. /\ outputRemaining[k] \in Int /\ outputRemaining[k] <= reqs[k].output
          /\ reqs[k].output > 0 => outputRemaining[k] > 0
      BY <1>2, <2>2, <2>5 DEF Told
    <3>5. outputRemaining[k] = 1 => reqs[k].output > 0
      BY <1>3, <3>4
    <3>6. /\ prefillRemaining'[k] <= EffectivePrefill(reqs[k])
          /\ outputRemaining'[k] <= reqs[k].output
          /\ reqs[k].output > 0 => outputRemaining'[k] >= 0
          /\ completedAt'[k] = None /\ reqs[k].output > 0 => outputRemaining'[k] > 0
          /\ completedAt'[k] # None => reqs[k].output > 0 /\ completedAt'[k] = tick + 1
          /\ lastDecodeStep'[k] < tick + 1
      BY <1>2, <1>3, <1>4, <3>1, <3>4, <3>5 DEF None
    <3> QED BY <1>1, <2>3, <3>1, <3>2, <3>3, <3>6 DEF Told, Begun, Incomplete
  <2> QED BY <2>4, <2>5
<1>8. ASSUME Idled PROVE Told(k)'
  BY <1>2, <1>5, <1>8 DEF Idled
<1> QED BY <1>6, <1>7, <1>8, StepCases

\* What a step leaves of the work, for each request and in all.
LEMMA WorkFalls ==
  ASSUME IInv, PrefillStep
  PROVE  /\ Rids' = Rids
         /\ \A k \in Rids : /\ ChunksLeft[k] \in Nat /\ ChunksLeft'[k] \in Nat
                            /\ AllChunks[k] \in Nat
                            /\ ChunksLeft'[k] <= ChunksLeft[k] /\ ChunksLeft[k] <= AllChunks[k]
         /\ AllDecode =>
              /\ \A k \in Rids : /\ WorkLeft[k] \in Nat /\ WorkLeft'[k] \in Nat /\ Work[k] \in Nat
                                 /\ WorkLeft'[k] <= WorkLeft[k] /\ WorkLeft[k] <= Work[k]
              /\ ~Idled => \E k \in Rids : WorkLeft'[k] < WorkLeft[k]
<1>1. /\ reqs' = reqs /\ options' = options
      /\ (\E i \in Rids, left \in Nat : Prefilled(i, left)) \/ (\E i \in Rids : Decoded(i)) \/ Idled
  BY StepCases
<1>2. /\ prefillRemaining \in [Rids -> Nat] /\ outputRemaining \in [Rids -> Int]
      /\ options.chunk \in Nat \ {0}
  BY DEF IInv, Shapes
<1>3. Rids' = Rids
  BY <1>1 DEF Rids
<1>4. \A k \in Rids : /\ reqs[k].output \in Nat /\ EffectivePrefill(reqs[k]) \in Nat
                      /\ prefillRemaining[k] \in Nat /\ outputRemaining[k] \in Int
                      /\ prefillRemaining[k] <= EffectivePrefill(reqs[k])
                      /\ outputRemaining[k] <= reqs[k].output
                      /\ reqs[k].output > 0 => outputRemaining[k] >= 0
                      /\ Incomplete(k) /\ reqs[k].output > 0 => outputRemaining[k] > 0
  <2> SUFFICES ASSUME NEW k \in Rids
               PROVE  reqs[k].output \in Nat /\ EffectivePrefill(reqs[k]) \in Nat
    BY <1>2 DEF IInv, Told
  <2>1. reqs[k].output \in Nat /\ reqs[k].prompt \in Nat /\ reqs[k].saved \in Nat
    BY SpecsTyped DEF IInv
  <2> QED BY <2>1, MaxOfTwo DEF EffectivePrefill
<1>5. \A p, q \in Nat : /\ ChunksFor(q) \in Nat /\ ChunksFor(q)' = ChunksFor(q)
                        /\ p <= q => ChunksFor(p) <= ChunksFor(q)
  BY <1>1, <1>2, ChunksFall DEF ChunksFor
<1>6. \A k \in Rids : /\ ChunksLeft[k] = ChunksFor(prefillRemaining[k])
                      /\ AllChunks[k] = ChunksFor(EffectivePrefill(reqs[k]))
                      /\ WorkLeft[k] = ChunksLeft[k] + outputRemaining[k]
                      /\ Work[k] = AllChunks[k] + reqs[k].output
  BY DEF ChunksLeft, AllChunks, WorkLeft, Work, Chunks
<1>7. \A k \in Rids : ChunksLeft[k] \in Nat /\ AllChunks[k] \in Nat /\ ChunksLeft[k] <= AllChunks[k]
  BY <1>4, <1>5, <1>6
<1>8. AllDecode => \A k \in Rids : WorkLeft[k] \in Nat /\ Work[k] \in Nat /\ WorkLeft[k] <= Work[k]
  BY <1>4, <1>6, <1>7 DEF AllDecode
<1>9. \A k \in Rids : WorkLeft'[k] = ChunksLeft'[k] + outputRemaining'[k]
  BY <1>3 DEF WorkLeft
<1>10. \A k \in Rids : prefillRemaining'[k] \in Nat =>
                        ChunksLeft'[k] = ChunksFor(prefillRemaining'[k])
  BY <1>1, <1>3 DEF ChunksLeft, ChunksFor
<1>11. CASE \E i \in Rids, left \in Nat : Prefilled(i, left)
  <2>1. PICK i \in Rids, left \in Nat : Prefilled(i, left)
    BY <1>11
  <2>2. /\ left < prefillRemaining[i] /\ ChunksFor(left) < ChunksFor(prefillRemaining[i])
        /\ prefillRemaining' = [prefillRemaining EXCEPT ![i] = left]
        /\ outputRemaining' = outputRemaining
    BY <2>1 DEF Prefilled
  <2>3. \A k \in Rids : /\ prefillRemaining'[k] = IF k = i THEN left ELSE prefillRemaining[k]
                        /\ outputRemaining'[k] = outputRemaining[k]
    BY <1>2, <2>2
  <2>4. \A k \in Rids : /\ ChunksLeft'[k] \in Nat /\ ChunksLeft'[k] <= ChunksLeft[k]
                        /\ k = i => ChunksLeft'[k] < ChunksLeft[k]
    BY <1>4, <1>5, <1>6, <1>10, <2>2, <2>3
  <2>5. AllDecode => \A k \in Rids : WorkLeft'[k] \in Nat /\ WorkLeft'[k] <= WorkLeft[k]
                                     /\ (k = i => WorkLeft'[k] < WorkLeft[k])
    BY <1>4, <1>6, <1>7, <1>9, <2>3, <2>4 DEF AllDecode
  <2> QED BY <1>3, <1>7, <1>8, <2>4, <2>5
<1>12. CASE \E i \in Rids : Decoded(i)
  <2>1. PICK i \in Rids : Decoded(i)
    BY <1>12
  <2>2. /\ outputRemaining' = [outputRemaining EXCEPT ![i] = @ - 1]
        /\ prefillRemaining' = prefillRemaining /\ Incomplete(i)
    BY <2>1 DEF Decoded, ToDecode
  <2>3. \A k \in Rids : /\ prefillRemaining'[k] = prefillRemaining[k]
                        /\ outputRemaining'[k] = outputRemaining[k] - (IF k = i THEN 1 ELSE 0)
    BY <1>2, <2>2
  <2>4. \A k \in Rids : ChunksLeft'[k] = ChunksLeft[k]
    BY <1>4, <1>6, <1>10, <2>3
  <2>5. AllDecode => \A k \in Rids : WorkLeft'[k] \in Nat /\ WorkLeft'[k] <= WorkLeft[k]
                                     /\ (k = i => WorkLeft'[k] < WorkLeft[k])
    <3> SUFFICES ASSUME AllDecode, NEW k \in Rids
                 PROVE  WorkLeft'[k] \in Nat /\ WorkLeft'[k] <= WorkLeft[k]
                        /\ (k = i => WorkLeft'[k] < WorkLeft[k])
      OBVIOUS
    <3>1. reqs[k].output > 0
      BY DEF AllDecode
    <3>2. WorkLeft'[k] = ChunksLeft[k] + (outputRemaining[k] - (IF k = i THEN 1 ELSE 0))
      BY <1>9, <2>3, <2>4
    <3>3. WorkLeft[k] = ChunksLeft[k] + outputRemaining[k] /\ ChunksLeft[k] \in Nat
      BY <1>6, <1>7
    <3>4. outputRemaining[k] \in Int /\ outputRemaining[k] >= IF k = i THEN 1 ELSE 0
      BY <1>4, <2>2, <3>1
    <3> QED BY <3>2, <3>3, <3>4
  <2> QED BY <1>3, <1>7, <1>8, <2>4, <2>5
<1>13. CASE Idled
  <2>1. \A k \in Rids : prefillRemaining'[k] = prefillRemaining[k]
                        /\ outputRemaining'[k] = outputRemaining[k]
    BY <1>13 DEF Idled
  <2>2. \A k \in Rids : ChunksLeft'[k] = ChunksLeft[k]
    BY <1>4, <1>6, <1>10, <2>1
  <2>3. \A k \in Rids : WorkLeft'[k] = WorkLeft[k]
    BY <1>6, <1>9, <2>1, <2>2
  <2>4. AllDecode => \A k \in Rids : WorkLeft'[k] \in Nat /\ WorkLeft'[k] <= WorkLeft[k]
    BY <1>8, <2>3
  <2> QED BY <1>3, <1>7, <1>8, <1>13, <2>2, <2>4
<1> QED BY <1>1, <1>11, <1>12, <1>13

\* A step late enough finds whoever is not done.
LEMMA OnTimeKept ==
  ASSUME IInv, PrefillStep
  PROVE  OnTime'
<1>1. /\ tick' = tick + 1 /\ reqs' = reqs /\ options' = options
      /\ \E i \in Rids : Incomplete(i)
  BY StepCases
<1>2. tick \in Nat /\ IsFiniteSet(Rids) /\ \A i \in Rids : reqs[i].arrival \in Nat
  BY SpecsTyped DEF IInv, Shapes
<1>3. /\ Rids' = Rids /\ FinalArrival' = FinalArrival /\ (AllDecode' <=> AllDecode) /\ Work' = Work
  <2>1. Rids' = Rids
    BY <1>1 DEF Rids
  <2>2. FinalArrival' = FinalArrival
    BY <1>1, <2>1 DEF FinalArrival, Max
  <2>3. (AllDecode' <=> AllDecode)
    BY <1>1, <2>1 DEF AllDecode
  <2>4. Work' = Work
    BY <1>1, <2>1 DEF Work, Chunks, ChunksFor, EffectivePrefill, Max
  <2> QED BY <2>1, <2>2, <2>3, <2>4
<1>a. Total(WorkLeft, Rids)' = Total(WorkLeft', Rids) /\ Total(Work, Rids)' = Total(Work, Rids)
  BY <1>3 DEF Total, MapThenSumSet, MapThenFoldSet
<1>5. Rids # {} => FinalArrival \in Nat /\ \A i \in Rids : reqs[i].arrival <= FinalArrival
  BY LatestArrival DEF IInv
<1>4. SUFFICES ASSUME AllDecode, Rids # {}, tick + 1 >= FinalArrival
               PROVE  tick + 1 - FinalArrival + Total(WorkLeft', Rids) <= Total(Work, Rids)
  <2>1. OnTime' <=> (AllDecode' /\ Rids' # {} /\ tick' >= FinalArrival'
                     => tick' - FinalArrival' + Total(WorkLeft, Rids)' <= Total(Work, Rids)')
    BY DEF OnTime
  <2>2. Rids # {} => FinalArrival \in Nat
    BY <1>5
  <2> QED BY <2>1, <2>2, <1>1, <1>2, <1>3, <1>a
<1>6. /\ \A k \in Rids : /\ WorkLeft[k] \in Nat /\ WorkLeft'[k] \in Nat /\ Work[k] \in Nat
                         /\ WorkLeft'[k] <= WorkLeft[k] /\ WorkLeft[k] <= Work[k]
                         /\ WorkLeft'[k] <= Work[k]
      /\ ~Idled => \E k \in Rids : WorkLeft'[k] < WorkLeft[k]
  <2>1. /\ \A k \in Rids : /\ WorkLeft[k] \in Nat /\ WorkLeft'[k] \in Nat /\ Work[k] \in Nat
                           /\ WorkLeft'[k] <= WorkLeft[k] /\ WorkLeft[k] <= Work[k]
        /\ ~Idled => \E k \in Rids : WorkLeft'[k] < WorkLeft[k]
    BY <1>4, WorkFalls
  <2> QED BY <2>1
<1> DEFINE left == WorkLeft'
<1>7. /\ Total(left, Rids) \in Nat /\ Total(WorkLeft, Rids) \in Nat /\ Total(Work, Rids) \in Nat
      /\ Total(left, Rids) <= Total(Work, Rids)
      /\ ~Idled => Total(left, Rids) < Total(WorkLeft, Rids)
  <2>1. /\ \A k \in Rids : /\ WorkLeft[k] \in Nat /\ left[k] \in Nat /\ Work[k] \in Nat
                           /\ left[k] <= WorkLeft[k] /\ left[k] <= Work[k]
        /\ ~Idled => \E k \in Rids : left[k] < WorkLeft[k]
    BY <1>6
  <2> HIDE DEF left
  <2> QED BY <1>2, <2>1, TotalMonotone
<1>b. FinalArrival \in Nat /\ \A i \in Rids : reqs[i].arrival <= FinalArrival
  BY <1>4, <1>5
<1>8. CASE tick >= FinalArrival
  <2>1. ~Idled
    <3>1. PICK k \in Rids : Incomplete(k)
      BY <1>1
    <3>2. reqs[k].arrival < tick + 1 /\ prefillRemaining[k] \in Nat
      <4>1. prefillRemaining \in [Rids -> Nat]
        BY DEF IInv, Shapes
      <4> QED BY <1>2, <1>b, <1>8, <4>1
    <3>3. k \in ToPrefill(tick + 1) \cup ToDecode(tick + 1)
      BY <3>1, <3>2 DEF ToPrefill, ToDecode
    <3> QED BY <3>3 DEF Idled
  <2>2. tick - FinalArrival + Total(WorkLeft, Rids) <= Total(Work, Rids)
    BY <1>4, <1>8 DEF IInv, OnTime
  <2> HIDE DEF left
  <2>3. tick + 1 - FinalArrival + Total(left, Rids) <= Total(Work, Rids)
    BY <1>2, <1>b, <1>7, <2>1, <2>2
  <2> QED BY <2>3 DEF left
<1>9. CASE tick < FinalArrival
  <2>1. tick + 1 - FinalArrival = 0
    BY <1>2, <1>4, <1>b, <1>9
  <2> HIDE DEF left
  <2>2. tick + 1 - FinalArrival + Total(left, Rids) <= Total(Work, Rids)
    BY <1>7, <2>1
  <2> QED BY <2>2 DEF left
<1> QED BY <1>2, <1>b, <1>8, <1>9

-----------------------------------------------------------------------------
(* Waiting for the next token *)

\* The promises are numbers, and change in no step.
LEMMA GapBoundTyped ==
  ASSUME Shapes, NEW k \in Rids
  PROVE  /\ Total(AllChunks, Rids \ {k}) \in Nat /\ Cardinality(Rids \ {k}) \in Nat
         /\ options.bound \in Nat \ {0} /\ GapBound(k) \in Nat
         /\ options.policy = "decode_first" => GapBound(k) = 1
         /\ options.policy = "prefill_first" =>
              GapBound(k) = 1 + Total(AllChunks, Rids \ {k})
         /\ options.policy = "mixed_slo" =>
              GapBound(k) = options.bound + Cardinality(Rids \ {k})
<1>1. options.policy \in Policies /\ options.bound \in Nat \ {0} /\ options.chunk \in Nat \ {0}
  BY DEF Shapes
<1>2. IsFiniteSet(Rids \ {k}) /\ Cardinality(Rids \ {k}) \in Nat
  <2>1. IsFiniteSet(Rids)
    BY SpecsTyped
  <2>2. IsFiniteSet(Rids \ {k})
    BY <2>1, FS_Difference
  <2> QED BY <2>2, FS_CardinalityType
<1>3. \A j \in Rids : AllChunks[j] \in Nat
  <2> SUFFICES ASSUME NEW j \in Rids PROVE Chunks(j) \in Nat
    BY DEF AllChunks
  <2>1. reqs[j].prompt \in Nat /\ reqs[j].saved \in Nat
    BY SpecsTyped
  <2>2. EffectivePrefill(reqs[j]) \in Nat
    BY <2>1, MaxOfTwo DEF EffectivePrefill
  <2> QED BY <1>1, <2>2, ChunksFall DEF Chunks, ChunksFor
<1> DEFINE others == Rids \ {k}
<1>4. Total(AllChunks, others) \in Nat
  <2>1. IsFiniteSet(others) /\ \A j \in others : AllChunks[j] \in Nat
    BY <1>2, <1>3
  <2> HIDE DEF others
  <2> QED BY <2>1, TotalIsCount
<1>5. AllChunks = [j \in Rids |-> Chunks(j)]
  BY DEF AllChunks
<1>6. CASE options.policy = "decode_first"
  <2>1. GapBound(k) = 1
    BY <1>6 DEF GapBound
  <2> QED BY <1>1, <1>2, <1>4, <1>6, <2>1
<1>7. CASE options.policy = "prefill_first"
  <2>1. GapBound(k) = 1 + Total(AllChunks, others)
    BY <1>5, <1>7 DEF GapBound
  <2> HIDE DEF others
  <2>2. GapBound(k) \in Nat
    BY <1>4, <2>1
  <2> QED BY <1>1, <1>2, <1>4, <1>7, <2>1, <2>2 DEF others
<1>8. CASE options.policy = "mixed_slo"
  <2>1. GapBound(k) = options.bound + Cardinality(others)
    BY <1>8 DEF GapBound
  <2>2. GapBound(k) \in Nat
    BY <1>1, <1>2, <2>1
  <2> QED BY <1>1, <1>2, <1>4, <1>8, <2>1, <2>2
<1> QED BY <1>1, <1>6, <1>7, <1>8 DEF Policies

\* Who has begun has waited no longer than promised.
LEMMA WaitBounded ==
  ASSUME IInv, NEW k \in Rids, Incomplete(k), Begun(k)
  PROVE  tick - lastDecodeStep[k] <= GapBound(k)
<1>1. /\ Shapes /\ Waited(k) /\ tick \in Nat /\ lastDecodeStep[k] \in Int
      /\ lastDecodeStep[k] < tick
  BY DEF IInv, Shapes, Waits, Told
<1>2. options.policy \in Policies
  BY <1>1 DEF Shapes
<1> DEFINE others == Rids \ {k}
<1>3. /\ IsFiniteSet(Rids) /\ IsFiniteSet(others)
  BY <1>1, SpecsTyped, FS_Difference
<1>4. CASE options.policy = "decode_first"
  <2>1. lastDecodeStep[k] = tick - 1
    BY <1>1, <1>4 DEF Waited
  <2>2. GapBound(k) = 1
    BY <1>1, <1>4, GapBoundTyped
  <2> QED BY <1>1, <2>1, <2>2
<1>5. CASE options.policy = "prefill_first"
  <2>1. \A j \in others : ChunksLeft[j] \in Nat
    <3> SUFFICES ASSUME NEW j \in Rids PROVE ChunksFor(prefillRemaining[j]) \in Nat
      BY DEF ChunksLeft
    <3>1. prefillRemaining[j] \in Nat /\ options.chunk \in Nat \ {0}
      BY <1>1 DEF Shapes
    <3> QED BY <3>1, ChunksFall DEF ChunksFor
  <2> HIDE DEF others
  <2>2. Total(ChunksLeft, others) \in Nat
    BY <1>3, <2>1, TotalIsCount
  <2>3. /\ tick - lastDecodeStep[k] - 1 + Total(ChunksLeft, others) <= Total(AllChunks, others)
        /\ GapBound(k) = 1 + Total(AllChunks, others) /\ Total(AllChunks, others) \in Nat
    BY <1>1, <1>5, GapBoundTyped DEF Waited, others
  <2> QED BY <1>1, <2>2, <2>3
<1>6. CASE options.policy = "mixed_slo"
  <2>1. Overtakers(k) \in SUBSET others
    BY DEF Overtakers
  <2> HIDE DEF others
  <2>2. Cardinality(Overtakers(k)) <= Cardinality(others) /\ Cardinality(Overtakers(k)) \in Nat
    BY <1>3, <2>1, FS_Subset, FS_CardinalityType
  <2>3. /\ tick - (lastDecodeStep[k] + options.bound) <= Cardinality(Overtakers(k))
        /\ GapBound(k) = options.bound + Cardinality(others)
        /\ Cardinality(others) \in Nat /\ options.bound \in Nat
    BY <1>1, <1>6, GapBoundTyped DEF Waited, others
  <2> QED BY <1>1, <2>2, <2>3
<1> QED BY <1>2, <1>4, <1>5, <1>6 DEF Policies

\* The chunks that the others have left, after a step.
LEMMA OthersChunks ==
  ASSUME IInv, PrefillStep, NEW k \in Rids
  PROVE  /\ Total(ChunksLeft', Rids \ {k}) \in Nat /\ Total(ChunksLeft, Rids \ {k}) \in Nat
         /\ Total(ChunksLeft', Rids \ {k}) <= Total(AllChunks, Rids \ {k})
         /\ (\E j \in Rids \ {k} : ChunksLeft'[j] < ChunksLeft[j]) =>
              Total(ChunksLeft', Rids \ {k}) < Total(ChunksLeft, Rids \ {k})
<1> DEFINE others == Rids \ {k}
           left == ChunksLeft'
<1>1. IsFiniteSet(others)
  BY SpecsTyped, FS_Difference DEF IInv
<1>2. \A j \in others : /\ left[j] \in Nat /\ ChunksLeft[j] \in Nat /\ AllChunks[j] \in Nat
                        /\ left[j] <= ChunksLeft[j] /\ left[j] <= AllChunks[j]
  <2> SUFFICES ASSUME NEW j \in Rids
               PROVE  /\ left[j] \in Nat /\ ChunksLeft[j] \in Nat /\ AllChunks[j] \in Nat
                      /\ left[j] <= ChunksLeft[j] /\ left[j] <= AllChunks[j]
    OBVIOUS
  <2>1. /\ ChunksLeft[j] \in Nat /\ left[j] \in Nat /\ AllChunks[j] \in Nat
        /\ left[j] <= ChunksLeft[j] /\ ChunksLeft[j] <= AllChunks[j]
    BY WorkFalls
  <2> HIDE DEF left
  <2> QED BY <2>1
<1> HIDE DEF others, left
<1>3. /\ Total(left, others) \in Nat /\ Total(ChunksLeft, others) \in Nat
      /\ Total(left, others) <= Total(AllChunks, others)
      /\ (\E j \in others : left[j] < ChunksLeft[j]) =>
           Total(left, others) < Total(ChunksLeft, others)
  BY <1>1, <1>2, TotalMonotone
<1> QED BY <1>3 DEF others, left

\* No step lets anyone wait too long.
LEMMA WaitsKept ==
  ASSUME IInv, PrefillStep, NEW k \in Rids, Incomplete(k)', Begun(k)'
  PROVE  Waited(k)'
<1>1. /\ tick' = tick + 1 /\ reqs' = reqs /\ options' = options
      /\ (\E i \in Rids, left \in Nat : Prefilled(i, left)) \/ (\E i \in Rids : Decoded(i)) \/ Idled
  BY StepCases
<1>2. /\ Shapes /\ tick \in Nat /\ lastDecodeStep \in [Rids -> Int] /\ Rids' = Rids
      /\ options.bound \in Nat \ {0} /\ IsFiniteSet(Rids)
      /\ prefillRemaining \in [Rids -> Nat] /\ outputRemaining \in [Rids -> Int]
      /\ completedAt \in [Rids -> Int] /\ waitingDecode \in Seq(Rids)
  <2>1. Shapes
    BY DEF IInv
  <2>2. Rids' = Rids
    BY <1>1 DEF Rids
  <2> QED BY <2>1, <2>2, SpecsTyped DEF Shapes
<1>3. \A j \in Rids : lastDecodeStep[j] \in Int /\ (lastDecodeStep[j] = None \/ lastDecodeStep[j] \in Nat)
  <2> SUFFICES ASSUME NEW j \in Rids, Begun(j) PROVE lastDecodeStep[j] \in Nat
    BY <1>2 DEF Begun
  <2>1. firstDecodeStep[j] \in reqs[j].arrival .. lastDecodeStep[j]
    BY DEF IInv, Told
  <2>2. reqs[j].arrival \in Nat /\ lastDecodeStep[j] \in Int
    BY <1>2, SpecsTyped
  <2> QED BY <2>1, <2>2
\* The three promises, in the state after the step.
<1>4. ASSUME /\ options.policy = "decode_first" =>
                  waitingDecode'[1] = k /\ lastDecodeStep'[k] = tick
             /\ options.policy = "prefill_first" =>
                  /\ waitingDecode'[1] = k
                  /\ tick - lastDecodeStep'[k] + Total(ChunksLeft', Rids \ {k})
                       <= Total(AllChunks, Rids \ {k})
             /\ options.policy = "mixed_slo" =>
                  tick + 1 - (lastDecodeStep'[k] + options.bound) <= Cardinality(Overtakers(k)'),
             lastDecodeStep'[k] \in Int
      PROVE  Waited(k)'
  <2>1. AllChunks' = AllChunks
    BY <1>1, <1>2 DEF AllChunks, Chunks, ChunksFor, EffectivePrefill, Max
  <2>2. Total(ChunksLeft, Rids \ {k})' = Total(ChunksLeft', Rids \ {k})
    BY <1>2 DEF Total, MapThenSumSet, MapThenFoldSet
  <2>3. Total(AllChunks, Rids \ {k})' = Total(AllChunks, Rids \ {k})
    BY <1>2, <2>1 DEF Total, MapThenSumSet, MapThenFoldSet
  <2>4. Cardinality(Overtakers(k))' = Cardinality(Overtakers(k)')
    OBVIOUS
  <2>5. /\ tick' - 1 = tick /\ tick' - lastDecodeStep'[k] - 1 = tick - lastDecodeStep'[k]
        /\ tick' - (lastDecodeStep'[k] + options.bound)
             = tick + 1 - (lastDecodeStep'[k] + options.bound)
    <3>1. /\ tick' = tick + 1 /\ tick \in Nat /\ lastDecodeStep'[k] \in Int
          /\ options.bound \in Nat
      BY <1>1, <1>2, <1>4
    <3> QED BY <3>1
  <2>6. options.policy = "decode_first" =>
          waitingDecode'[1] = k /\ lastDecodeStep'[k] = tick' - 1
    BY <1>4, <2>5
  <2>7. options.policy = "prefill_first" =>
          /\ waitingDecode'[1] = k
          /\ tick' - lastDecodeStep'[k] - 1 + Total(ChunksLeft, Rids \ {k})'
               <= Total(AllChunks, Rids \ {k})'
    BY <1>4, <2>2, <2>3, <2>5
  <2>8. options.policy = "mixed_slo" =>
          tick' - (lastDecodeStep'[k] + options.bound) <= Cardinality(Overtakers(k))'
    BY <1>4, <2>4, <2>5
  <2>9. Waited(k)' <=>
          /\ options'.policy = "decode_first" =>
               waitingDecode'[1] = k /\ lastDecodeStep'[k] = tick' - 1
          /\ options'.policy = "prefill_first" =>
               /\ waitingDecode'[1] = k
               /\ tick' - lastDecodeStep'[k] - 1 + Total(ChunksLeft, Rids \ {k})'
                    <= Total(AllChunks, Rids \ {k})'
          /\ options'.policy = "mixed_slo" =>
               tick' - (lastDecodeStep'[k] + options'.bound) <= Cardinality(Overtakers(k))'
    BY DEF Waited
  <2> QED BY <1>1, <2>6, <2>7, <2>8, <2>9
<1>5. /\ Overtakers(k)' = {j \in Rids \ {k} :
             lastDecodeStep'[j] >= lastDecodeStep'[k] + options.bound}
      /\ IsFiniteSet(Overtakers(k)') /\ Cardinality(Overtakers(k)') \in Nat
  <2>1. Overtakers(k)' = {j \in Rids \ {k} :
             lastDecodeStep'[j] >= lastDecodeStep'[k] + options.bound}
    BY <1>1, <1>2 DEF Overtakers
  <2>2. IsFiniteSet(Overtakers(k)')
    BY <1>2, <2>1, FS_Subset
  <2> QED BY <2>1, <2>2, FS_CardinalityType
\* Who had begun and stays among the waiting.
<1>6. ASSUME Incomplete(k), Begun(k)
      PROVE  /\ Waited(k) /\ k \in ToDecode(tick + 1) /\ waitingDecode # <<>>
             /\ prefillRemaining[k] = 0
             /\ lastDecodeStep[k] \in Nat /\ lastDecodeStep[k] < tick
             /\ Urgent(k) <=> tick >= lastDecodeStep[k] + options.bound
  <2>1. /\ prefillRemaining[k] = 0 /\ lastDecodeStep[k] < tick
        /\ firstDecodeStep[k] \in reqs[k].arrival .. lastDecodeStep[k]
    BY <1>6 DEF IInv, Told
  <2>2. reqs[k].arrival \in Nat /\ lastDecodeStep[k] \in Int
    BY <1>2, SpecsTyped
  <2>3. reqs[k].arrival < tick /\ reqs[k].arrival < tick + 1 /\ lastDecodeStep[k] \in Nat
    BY <1>2, <2>1, <2>2
  <2>4. k \in ToDecode(tick) /\ k \in ToDecode(tick + 1)
    BY <1>6, <2>1, <2>3 DEF ToDecode
  <2>5. waitingDecode # <<>>
    <3>1. InList(waitingDecode) = ToDecode(tick)
      BY DEF IInv, Lists
    <3>2. waitingDecode = <<>> => DOMAIN waitingDecode = {}
      BY <1>2, ListTyped
    <3> QED BY <2>4, <3>1, <3>2 DEF InList
  <2>6. Due(k) = lastDecodeStep[k] + options.bound /\ Due(k) # None
    BY <1>2, <1>6, <2>3 DEF Due, Begun, None
  <2>7. Waited(k)
    BY <1>6 DEF IInv, Waits
  <2> QED BY <2>1, <2>3, <2>4, <2>5, <2>6, <2>7 DEF Urgent
<1>7. ASSUME NEW i \in Rids, NEW left \in Nat, Prefilled(i, left) PROVE Waited(k)'
  <2>1. /\ lastDecodeStep' = lastDecodeStep /\ completedAt' = completedAt
        /\ i \in ToPrefill(tick + 1)
        /\ ChunksFor(left) < ChunksFor(prefillRemaining[i])
        /\ prefillRemaining' = [prefillRemaining EXCEPT ![i] = left]
        /\ waitingDecode # <<>> => waitingDecode'[1] = waitingDecode[1]
        /\ options.policy = "decode_first" => ToDecode(tick + 1) = {}
        /\ options.policy = "mixed_slo" => \A j \in ToDecode(tick + 1) : ~Urgent(j)
    BY <1>7 DEF Prefilled
  <2>2. Incomplete(k) /\ Begun(k) /\ lastDecodeStep'[k] = lastDecodeStep[k]
    BY <2>1 DEF Incomplete, Begun
  <2>3. /\ Waited(k) /\ k \in ToDecode(tick + 1) /\ waitingDecode # <<>>
        /\ prefillRemaining[k] = 0 /\ lastDecodeStep[k] \in Nat
        /\ Urgent(k) <=> tick >= lastDecodeStep[k] + options.bound
    BY <1>6, <2>2
  <2>4. i # k
    BY <2>1, <2>3 DEF ToPrefill
  <2>5. ASSUME options.policy = "prefill_first"
        PROVE  /\ waitingDecode'[1] = k
               /\ tick - lastDecodeStep'[k] + Total(ChunksLeft', Rids \ {k})
                    <= Total(AllChunks, Rids \ {k})
    <3>1. /\ waitingDecode[1] = k
          /\ tick - lastDecodeStep[k] - 1 + Total(ChunksLeft, Rids \ {k})
               <= Total(AllChunks, Rids \ {k})
      BY <2>3, <2>5 DEF Waited
    <3>2. ChunksLeft'[i] < ChunksLeft[i]
      <4>1. ChunksLeft[i] = ChunksFor(prefillRemaining[i])
        BY DEF ChunksLeft
      <4>2. ChunksLeft'[i] = ChunksFor(left)
        BY <1>1, <1>2, <2>1 DEF ChunksLeft, ChunksFor
      <4> QED BY <2>1, <4>1, <4>2
    <3>3. /\ Total(ChunksLeft', Rids \ {k}) < Total(ChunksLeft, Rids \ {k})
          /\ Total(ChunksLeft', Rids \ {k}) \in Nat /\ Total(ChunksLeft, Rids \ {k}) \in Nat
      BY <2>4, <3>2, OthersChunks
    <3>4. Total(AllChunks, Rids \ {k}) \in Nat
      BY <1>2, GapBoundTyped
    <3> QED BY <1>2, <2>1, <2>2, <2>3, <3>1, <3>3, <3>4
  <2>6. options.policy = "mixed_slo" =>
          tick + 1 - (lastDecodeStep'[k] + options.bound) <= Cardinality(Overtakers(k)')
    <3>1. options.policy = "mixed_slo" => ~(tick >= lastDecodeStep[k] + options.bound)
      BY <2>1, <2>3
    <3>2. Cardinality(Overtakers(k)') \in Nat
      BY <1>5
    <3>3. tick \in Nat /\ options.bound \in Nat /\ lastDecodeStep[k] \in Nat
      BY <1>2, <2>3
    <3>4. options.policy = "mixed_slo" => tick + 1 - (lastDecodeStep[k] + options.bound) <= 0
      BY <3>1, <3>3
    <3> QED BY <2>2, <3>2, <3>3, <3>4
  <2>7. lastDecodeStep'[k] \in Int
    BY <2>2, <2>3
  <2> QED BY <1>4, <2>1, <2>3, <2>5, <2>6, <2>7
<1>8. ASSUME NEW i \in Rids, Decoded(i) PROVE Waited(k)'
  <2>1. /\ lastDecodeStep' = [lastDecodeStep EXCEPT ![i] = tick]
        /\ completedAt' = [completedAt EXCEPT ![i] =
             IF outputRemaining[i] = 1 THEN tick + 1 ELSE @]
        /\ i \in ToDecode(tick + 1)
        /\ options.policy # "mixed_slo" =>
             /\ waitingDecode # <<>> => waitingDecode[1] = i
             /\ outputRemaining[i] # 1 => waitingDecode'[1] = i
        /\ options.policy = "mixed_slo" =>
             \A j \in ToDecode(tick + 1) : Urgent(j) => Urgent(i) /\ ~MoreUrgent(j, i)
    BY <1>8 DEF Decoded
  <2>2. CASE k = i
    <3>1. lastDecodeStep'[k] = tick
      BY <1>2, <2>1, <2>2
    <3>2. outputRemaining[i] # 1
      BY <1>2, <2>1, <2>2 DEF Incomplete, None
    <3>3. options.policy = "prefill_first" =>
            tick - lastDecodeStep'[k] + Total(ChunksLeft', Rids \ {k})
              <= Total(AllChunks, Rids \ {k})
      <4>1. /\ Total(ChunksLeft', Rids \ {k}) <= Total(AllChunks, Rids \ {k})
            /\ Total(ChunksLeft', Rids \ {k}) \in Nat
        BY OthersChunks
      <4>2. Total(AllChunks, Rids \ {k}) \in Nat
        BY <1>2, GapBoundTyped
      <4> QED BY <1>2, <3>1, <4>1, <4>2
    <3>4. options.policy = "mixed_slo" =>
            tick + 1 - (lastDecodeStep'[k] + options.bound) <= Cardinality(Overtakers(k)')
      <4>1. Cardinality(Overtakers(k)') \in Nat
        BY <1>5
      <4> QED BY <1>2, <3>1, <4>1
    <3>5. /\ options.policy = "decode_first" => options.policy # "mixed_slo"
          /\ options.policy = "prefill_first" => options.policy # "mixed_slo"
      OBVIOUS
    <3>6. lastDecodeStep'[k] \in Int
      BY <1>2, <3>1
    <3> QED BY <1>4, <2>1, <2>2, <3>1, <3>2, <3>3, <3>4, <3>5, <3>6
  <2>3. CASE k # i
    <3>1. lastDecodeStep'[k] = lastDecodeStep[k] /\ completedAt'[k] = completedAt[k]
      BY <1>2, <2>1, <2>3
    <3>2. Incomplete(k) /\ Begun(k)
      BY <3>1 DEF Incomplete, Begun
    <3>3. /\ Waited(k) /\ k \in ToDecode(tick + 1) /\ waitingDecode # <<>>
          /\ lastDecodeStep[k] \in Nat /\ lastDecodeStep[k] < tick
          /\ Urgent(k) <=> tick >= lastDecodeStep[k] + options.bound
      BY <1>6, <3>2
    <3>4. options.policy \notin {"decode_first", "prefill_first"}
      <4>1. options.policy \in {"decode_first", "prefill_first"} => waitingDecode[1] = k
        BY <3>3 DEF Waited
      <4> QED BY <2>1, <2>3, <3>3, <4>1
    <3>5. ASSUME options.policy = "mixed_slo"
          PROVE  tick + 1 - (lastDecodeStep'[k] + options.bound) <= Cardinality(Overtakers(k)')
      <4>1. CASE ~Urgent(k)
        <5>1. Cardinality(Overtakers(k)') \in Nat
          BY <1>5
        <5>2. ~(tick >= lastDecodeStep[k] + options.bound)
          BY <3>3, <4>1
        <5>3. tick \in Nat /\ options.bound \in Nat /\ lastDecodeStep[k] \in Nat
          BY <1>2, <3>3
        <5>4. tick + 1 - (lastDecodeStep[k] + options.bound) <= 0
          BY <5>2, <5>3
        <5> QED BY <3>1, <5>1, <5>3, <5>4
      <4>2. CASE Urgent(k)
        <5>1. ~MoreUrgent(k, i)
          BY <2>1, <3>3, <3>5, <4>2
        <5>2. i \notin Overtakers(k)
          <6> SUFFICES ASSUME lastDecodeStep[i] >= lastDecodeStep[k] + options.bound
                       PROVE  MoreUrgent(k, i)
            BY <5>1 DEF Overtakers
          <6>1. lastDecodeStep[i] \in Nat /\ lastDecodeStep[i] > 0 /\ lastDecodeStep[i] > lastDecodeStep[k]
            <7>1. /\ options.bound \in Nat \ {0} /\ lastDecodeStep[k] \in Nat
                  /\ lastDecodeStep[i] \in Int
              BY <1>2, <1>3, <3>3
            <7> QED BY <7>1
          <6>2. LastOr(i) = lastDecodeStep[i]
            BY <6>1 DEF LastOr, None
          <6>3. LastOr(k) = -1 \/ LastOr(k) = lastDecodeStep[k]
            BY DEF LastOr
          <6>4. LastOr(k) < LastOr(i)
            BY <3>3, <6>1, <6>2, <6>3
          <6> QED BY <6>4 DEF MoreUrgent
        <5>3. Overtakers(k)' = Overtakers(k) \cup {i}
          <6>1. \A j \in Rids : lastDecodeStep'[j] = IF j = i THEN tick ELSE lastDecodeStep[j]
            BY <1>2, <2>1
          <6>2. tick >= lastDecodeStep[k] + options.bound
            BY <3>3, <4>2
          <6> QED BY <1>5, <2>3, <3>1, <6>1, <6>2 DEF Overtakers
        <5>4. IsFiniteSet(Overtakers(k)) /\ Cardinality(Overtakers(k)) \in Nat
          <6>1. IsFiniteSet(Overtakers(k))
            BY <1>2, FS_Subset DEF Overtakers
          <6> QED BY <6>1, FS_CardinalityType
        <5>5. Cardinality(Overtakers(k)') = Cardinality(Overtakers(k)) + 1
          BY <5>2, <5>3, <5>4, FS_AddElement
        <5>6. tick - (lastDecodeStep[k] + options.bound) <= Cardinality(Overtakers(k))
          BY <3>3, <3>5 DEF Waited
        <5>7. tick \in Nat /\ options.bound \in Nat /\ lastDecodeStep[k] \in Nat
          BY <1>2, <3>3
        <5> QED BY <3>1, <5>4, <5>5, <5>6, <5>7
      <4> QED BY <4>1, <4>2
    <3>6. lastDecodeStep'[k] \in Int
      BY <3>1, <3>3
    <3> QED BY <1>4, <3>4, <3>5, <3>6
  <2> QED BY <2>2, <2>3
<1>9. ASSUME Idled PROVE Waited(k)'
  <2>1. Incomplete(k) /\ Begun(k)
    BY <1>9 DEF Idled, Incomplete, Begun
  <2>2. k \in ToDecode(tick + 1)
    BY <1>6, <2>1
  <2> QED BY <1>9, <2>2 DEF Idled
<1> QED BY <1>1, <1>7, <1>8, <1>9

\* Nor do the gaps that are recorded exceed the promise.
LEMMA GapsKept ==
  ASSUME IInv, PrefillStep, NEW k \in Rids
  PROVE  widestGap'[k] <= GapBound(k)'
<1>1. /\ tick' = tick + 1 /\ reqs' = reqs /\ options' = options
      /\ (\E i \in Rids, left \in Nat : Prefilled(i, left)) \/ (\E i \in Rids : Decoded(i)) \/ Idled
  BY StepCases
<1>2. /\ Shapes /\ widestGap \in [Rids -> Nat] /\ tick \in Nat /\ lastDecodeStep \in [Rids -> Int]
      /\ widestGap[k] <= GapBound(k) /\ GapBound(k) \in Nat
  BY GapBoundTyped DEF IInv, Shapes, Waits
<1>3. GapBound(k)' = GapBound(k)
  BY <1>1 DEF GapBound, Total, MapThenSumSet, MapThenFoldSet, Chunks, ChunksFor,
              EffectivePrefill, Max, Rids, Cardinality
<1>4. ASSUME NEW i \in Rids, NEW left \in Nat, Prefilled(i, left)
      PROVE  widestGap'[k] <= GapBound(k)'
  BY <1>2, <1>3, <1>4 DEF Prefilled
<1>5. ASSUME NEW i \in Rids, Decoded(i) PROVE widestGap'[k] <= GapBound(k)'
  <2>1. /\ i \in ToDecode(tick + 1)
        /\ widestGap' = [widestGap EXCEPT ![i] =
             IF lastDecodeStep[i] = None THEN @ ELSE Max({@, tick - lastDecodeStep[i]})]
    BY <1>5 DEF Decoded
  <2>2. CASE k = i /\ lastDecodeStep[i] # None
    <3>1. Incomplete(k) /\ Begun(k)
      BY <2>1, <2>2 DEF ToDecode, Begun
    <3>2. tick - lastDecodeStep[k] <= GapBound(k)
      BY <3>1, WaitBounded
    <3> DEFINE waited == tick - lastDecodeStep[k]
    <3>3. widestGap'[k] = Max({widestGap[k], waited}) /\ waited \in Int
      BY <1>2, <2>1, <2>2
    <3> HIDE DEF waited
    <3>4. widestGap'[k] = IF widestGap[k] <= waited THEN waited ELSE widestGap[k]
      BY <1>2, <3>3, MaxOfTwo
    <3> QED BY <1>2, <1>3, <3>2, <3>4 DEF waited
  <2>3. CASE ~(k = i /\ lastDecodeStep[i] # None)
    <3>1. widestGap'[k] = widestGap[k]
      BY <1>2, <2>1, <2>3
    <3> QED BY <1>2, <1>3, <3>1
  <2> QED BY <2>2, <2>3
<1>6. ASSUME Idled PROVE widestGap'[k] <= GapBound(k)'
  BY <1>2, <1>3, <1>6 DEF Idled
<1> QED BY <1>1, <1>4, <1>5, <1>6

-----------------------------------------------------------------------------
(* What is given to the loop *)

\* The specs of the command line are specs.
LEMMA CommandLineTyped ==
  ASSUME NEW args \in [requests : Nat, interval : Nat, prompt : Nat, output : Nat, saved : Nat]
  PROVE  DeterministicWorkload(args)
           \in Seq([arrival : Nat, prompt : Nat, saved : Nat, output : Nat])
<1> DEFINE T == [arrival : Nat, prompt : Nat, saved : Nat, output : Nat]
           f(i) == [arrival |-> (i - 1) * args.interval,
                    prompt  |-> args.prompt + ((i - 1) % 3) * Max({1, args.prompt \div 4}),
                    saved   |-> IF i = 1 THEN 0 ELSE args.saved,
                    output  |-> args.output + ((i - 1) % 2) * Max({1, args.output \div 2})]
<1>1. /\ args.requests \in Nat /\ args.interval \in Nat /\ args.prompt \in Nat
      /\ args.output \in Nat /\ args.saved \in Nat
  OBVIOUS
<1>2. \A q \in Nat : Max({1, q}) \in Nat
  BY MaxOfTwo
<1>3. Max({1, args.prompt \div 4}) \in Nat /\ Max({1, args.output \div 2}) \in Nat
  <2>1. args.prompt \div 4 \in Nat /\ args.output \div 2 \in Nat
    BY <1>1
  <2> QED BY <1>2, <2>1
<1>4. ASSUME NEW i \in 1 .. args.requests PROVE f(i) \in T
  <2>1. i - 1 \in Nat /\ (i - 1) % 3 \in Nat /\ (i - 1) % 2 \in Nat
    BY <1>1
  <2>2. \A a, b \in Nat : a * b \in Nat /\ a + b \in Nat
    OBVIOUS
  <2>3. (i - 1) * args.interval \in Nat
    BY <1>1, <2>1, <2>2
  <2>4. args.prompt + ((i - 1) % 3) * Max({1, args.prompt \div 4}) \in Nat
    BY <1>1, <1>3, <2>1, <2>2
  <2>5. args.output + ((i - 1) % 2) * Max({1, args.output \div 2}) \in Nat
    BY <1>1, <1>3, <2>1, <2>2
  <2> QED BY <1>1, <2>3, <2>4, <2>5
<1>5. DeterministicWorkload(args) = [i \in 1 .. args.requests |-> f(i)]
  BY DEF DeterministicWorkload
<1> HIDE DEF f
<1>6. DeterministicWorkload(args) \in [1 .. args.requests -> T]
  BY <1>4, <1>5
<1> HIDE DEF T
<1>7. DeterministicWorkload(args) \in Seq(T)
  <2> DEFINE n == args.requests
  <2>1. n \in Nat /\ DeterministicWorkload(args) \in [1 .. n -> T]
    BY <1>1, <1>6
  <2> HIDE DEF n
  <2> QED BY <2>1, NumberedList
<1> QED BY <1>7 DEF T

\* The loop starts in the invariant.
LEMMA InitInvariant ==
  ASSUME PrefillInit
  PROVE  IInv
<1>1. reqs \in Seq([arrival : Nat, prompt : Nat, saved : Nat, output : Nat])
  <2>1. CASE reqs \in RequestLists
    BY <2>1, PrefillArgumentsTyped
  <2>2. CASE \E args \in Comparisons : reqs = DeterministicWorkload(args)
    BY <2>2, PrefillArgumentsTyped, CommandLineTyped
  <2> QED BY <2>1, <2>2 DEF PrefillInit
<1> DEFINE n == Len(reqs)
<1>2. /\ Rids = 1 .. n /\ n \in Nat /\ IsFiniteSet(Rids)
      /\ \A i \in Rids : /\ reqs[i].arrival \in Nat /\ reqs[i].prompt \in Nat
                         /\ reqs[i].saved \in Nat /\ reqs[i].output \in Nat
  <2> DEFINE T == [arrival : Nat, prompt : Nat, saved : Nat, output : Nat]
  <2>1. \A t \in T : t.arrival \in Nat /\ t.prompt \in Nat /\ t.saved \in Nat /\ t.output \in Nat
    OBVIOUS
  <2> HIDE DEF T
  <2>2. /\ n \in Nat /\ Rids = 1 .. n /\ \A i \in 1 .. n : reqs[i] \in T
    BY <1>1, ListTyped DEF Rids, T
  <2>3. IsFiniteSet(1 .. n)
    <3> HIDE DEF n
    <3> QED BY <2>2, FS_Interval
  <2> QED BY <2>1, <2>2, <2>3
<1>3. \A i \in Rids : EffectivePrefill(reqs[i]) \in Nat
  <2> SUFFICES ASSUME NEW i \in Rids PROVE EffectivePrefill(reqs[i]) \in Nat
    OBVIOUS
  <2>1. reqs[i].prompt - reqs[i].saved \in Int
    BY <1>2
  <2> QED BY <2>1, MaxOfTwo DEF EffectivePrefill
<1>4. options \in [policy : Policies, chunk : Nat \ {0}, bound : Nat \ {0}]
  BY PrefillArgumentsTyped DEF PrefillInit
<1>5. /\ tick = 0 /\ waitingPrefill = <<>> /\ waitingDecode = <<>>
      /\ prefillRemaining = [i \in Rids |-> EffectivePrefill(reqs[i])]
      /\ outputRemaining = [i \in Rids |-> reqs[i].output]
      /\ firstDecodeStep = [i \in Rids |-> None] /\ lastDecodeStep = [i \in Rids |-> None]
      /\ widestGap = [i \in Rids |-> 0] /\ completedAt = [i \in Rids |-> None]
  BY DEF PrefillInit
<1>6. Shapes
  <2>1. /\ prefillRemaining \in [Rids -> Nat] /\ outputRemaining \in [Rids -> Int]
        /\ firstDecodeStep \in [Rids -> Int] /\ lastDecodeStep \in [Rids -> Int]
        /\ widestGap \in [Rids -> Nat] /\ completedAt \in [Rids -> Int]
    BY <1>2, <1>3, <1>5 DEF None
  <2>2. tick \in Nat /\ waitingPrefill \in Seq(Rids) /\ waitingDecode \in Seq(Rids)
    BY <1>5
  <2> QED BY <1>1, <1>4, <2>1, <2>2 DEF Shapes
<1>7. Lists
  <2>1. ToPrefill(tick) = {} /\ ToDecode(tick) = {}
    BY <1>2, <1>5 DEF ToPrefill, ToDecode
  <2>2. InList(<<>>) = {} /\ Distinct(<<>>)
    BY DEF InList, Distinct
  <2> QED BY <1>5, <2>1, <2>2 DEF Lists
<1>8. \A i \in Rids : Told(i)
  BY <1>2, <1>3, <1>5 DEF Told, Begun, Incomplete
<1>9. OnTime
  <2> SUFFICES ASSUME AllDecode, Rids # {}, tick >= FinalArrival
               PROVE  tick - FinalArrival + Total(WorkLeft, Rids) <= Total(Work, Rids)
    BY DEF OnTime
  <2>1. FinalArrival \in Nat
    BY <1>6, LatestArrival
  <2>2. WorkLeft = Work
    BY <1>5 DEF WorkLeft, Work, ChunksLeft, Chunks
  <2>3. \A i \in Rids : Work[i] \in Nat
    <3> SUFFICES ASSUME NEW i \in Rids PROVE Chunks(i) + reqs[i].output \in Nat
      BY DEF Work
    <3>1. Chunks(i) \in Nat
      BY <1>3, <1>4, ChunksFall DEF Chunks, ChunksFor
    <3> QED BY <1>2, <3>1
  <2>4. Total(Work, Rids) \in Nat
    BY <1>2, <2>3, TotalIsCount
  <2> QED BY <1>5, <2>1, <2>2, <2>4
<1>10. Waits
  <2> SUFFICES ASSUME NEW i \in Rids PROVE ~Begun(i) /\ widestGap[i] <= GapBound(i)
    BY DEF Waits
  <2>1. GapBound(i) \in Nat /\ widestGap[i] = 0
    BY <1>5, <1>6, GapBoundTyped
  <2> QED BY <1>5, <2>1 DEF Begun
<1> QED BY <1>6, <1>7, <1>8, <1>9, <1>10 DEF IInv

\* Every step keeps the invariant.
LEMMA StepInvariant ==
  ASSUME IInv, PrefillStep
  PROVE  IInv'
<1>1. Rids' = Rids
  BY StepCases DEF Rids
<1>2. \A k \in Rids' : Told(k)'
  BY <1>1, ToldKept
<1>3. Waits'
  BY <1>1, WaitsKept, GapsKept DEF Waits
<1> QED BY <1>2, <1>3, ShapesKept, ListsKept, OnTimeKept DEF IInv

\* No step changes what the invariant is about.
LEMMA StutterInvariant ==
  ASSUME IInv, UNCHANGED prefillVars
  PROVE  IInv'
<1>1. /\ reqs' = reqs /\ options' = options /\ tick' = tick
      /\ waitingPrefill' = waitingPrefill /\ waitingDecode' = waitingDecode
      /\ prefillRemaining' = prefillRemaining /\ outputRemaining' = outputRemaining
      /\ firstDecodeStep' = firstDecodeStep /\ lastDecodeStep' = lastDecodeStep
      /\ widestGap' = widestGap /\ completedAt' = completedAt
  BY DEF prefillVars
<1>2. Rids' = Rids
  BY <1>1 DEF Rids
<1>3. Shapes'
  BY <1>1, <1>2 DEF IInv, Shapes
<1>4. Lists'
  BY <1>1, <1>2 DEF IInv, Lists, ToPrefill, ToDecode, Incomplete
<1>5. \A k \in Rids' : Told(k)'
  BY <1>1, <1>2 DEF IInv, Told, Begun, Incomplete, EffectivePrefill, Max
<1>6. OnTime'
  <2>1. FinalArrival' = FinalArrival
    BY <1>1, <1>2 DEF FinalArrival, Max
  <2>2. AllDecode' <=> AllDecode
    BY <1>1, <1>2 DEF AllDecode
  <2>3. Work' = Work
    BY <1>1, <1>2 DEF Work, Chunks, ChunksFor, EffectivePrefill, Max
  <2>4. WorkLeft' = WorkLeft
    BY <1>1, <1>2 DEF WorkLeft, ChunksLeft, ChunksFor
  <2>5. Total(WorkLeft, Rids)' = Total(WorkLeft, Rids) /\ Total(Work, Rids)' = Total(Work, Rids)
    BY <1>2, <2>3, <2>4 DEF Total, MapThenSumSet, MapThenFoldSet
  <2> SUFFICES ASSUME AllDecode', Rids' # {}, (tick >= FinalArrival)'
               PROVE  (tick - FinalArrival + Total(WorkLeft, Rids) <= Total(Work, Rids))'
    BY DEF OnTime
  <2>6. tick >= FinalArrival
    BY <1>1, <2>1
  <2>7. tick - FinalArrival + Total(WorkLeft, Rids) <= Total(Work, Rids)
    BY <1>2, <2>2, <2>6 DEF IInv, OnTime
  <2> QED BY <1>1, <2>1, <2>5, <2>7
<1>7. Waits'
  <2>1. ChunksLeft' = ChunksLeft /\ AllChunks' = AllChunks
    BY <1>1, <1>2 DEF ChunksLeft, AllChunks, Chunks, ChunksFor, EffectivePrefill, Max
  <2>2. \A i \in Rids : /\ Total(ChunksLeft, Rids \ {i})' = Total(ChunksLeft, Rids \ {i})
                        /\ Total(AllChunks, Rids \ {i})' = Total(AllChunks, Rids \ {i})
    BY <1>2, <2>1 DEF Total, MapThenSumSet, MapThenFoldSet
  <2>3. \A i \in Rids : GapBound(i)' = GapBound(i)
    BY <1>1, <1>2 DEF GapBound, Total, MapThenSumSet, MapThenFoldSet, Chunks, ChunksFor,
                     EffectivePrefill, Max, Cardinality
  <2>4. \A i \in Rids : Cardinality(Overtakers(i))' = Cardinality(Overtakers(i))
    BY <1>1, <1>2 DEF Overtakers, Cardinality
  <2>5. \A i \in Rids : Waited(i) => Waited(i)'
    BY <1>1, <2>2, <2>4 DEF Waited
  <2>6. \A i \in Rids : /\ (Incomplete(i) /\ Begun(i))' => Incomplete(i) /\ Begun(i)
                        /\ widestGap'[i] = widestGap[i]
    BY <1>1 DEF Incomplete, Begun
  <2>7. Waits
    BY DEF IInv
  <2> QED BY <1>2, <2>3, <2>5, <2>6, <2>7 DEF Waits
<1> QED BY <1>3, <1>4, <1>5, <1>6, <1>7 DEF IInv

\* The invariant holds for every list of specs, policy, chunk size and bound.
THEOREM InvariantHolds == PrefillSpec => []IInv
<1>1. IInv /\ [PrefillStep]_prefillVars => IInv'
  BY StepInvariant, StutterInvariant
<1> QED BY <1>1, InitInvariant, PTL DEF PrefillSpec

-----------------------------------------------------------------------------
(* What the invariant gives *)

\* Every counter of the loop stays in its range: no request prefills more than its
\* prompt or decodes more than its output, its first token comes between its arrival
\* and its latest one, and it is done in the step of its last one.
THEOREM TypesHold == PrefillSpec => []PrefillTypeOK
<1>1. ASSUME IInv PROVE PrefillTypeOK
  <2>1. Shapes /\ tick \in Nat
    BY <1>1 DEF IInv, Shapes
  <2>2. ASSUME NEW i \in Rids
        PROVE  /\ prefillRemaining[i] <= reqs[i].prompt
               /\ reqs[i].output > 0 => outputRemaining[i] \in 0 .. reqs[i].output
               /\ firstDecodeStep[i] \in {None} \cup reqs[i].arrival .. lastDecodeStep[i]
               /\ lastDecodeStep[i] < tick
               /\ completedAt[i] \in {None, lastDecodeStep[i] + 1}
    <3>1. /\ reqs[i].prompt \in Nat /\ reqs[i].saved \in Nat /\ reqs[i].output \in Nat
      BY <2>1, SpecsTyped
    <3>2. /\ Told(i) /\ prefillRemaining[i] \in Nat /\ outputRemaining[i] \in Int
      BY <1>1 DEF IInv, Shapes
    <3>3. EffectivePrefill(reqs[i]) \in Nat /\ EffectivePrefill(reqs[i]) <= reqs[i].prompt
      BY <3>1, MaxOfTwo DEF EffectivePrefill
    <3>4. prefillRemaining[i] <= reqs[i].prompt
      BY <3>1, <3>2, <3>3 DEF Told
    <3>5. reqs[i].output > 0 => outputRemaining[i] \in 0 .. reqs[i].output
      BY <3>1, <3>2 DEF Told
    <3>6. lastDecodeStep[i] < tick
      BY <2>1, <3>2 DEF Told, Begun, None
    <3>7. /\ firstDecodeStep[i] \in {None} \cup reqs[i].arrival .. lastDecodeStep[i]
          /\ completedAt[i] \in {None, lastDecodeStep[i] + 1}
      BY <3>2 DEF Told, Incomplete
    <3> QED BY <3>4, <3>5, <3>6, <3>7
  <2> QED BY <2>1, <2>2 DEF PrefillTypeOK, Shapes
<1> QED BY <1>1, InvariantHolds, PTL

\* The filters and appends of the loop put every request that arrived once in the one
\* list its remaining work says, and none in a list where it has nothing to do.
THEOREM WorkIsPlaced == PrefillSpec => []RequestsPlaced
<1>1. ASSUME IInv PROVE RequestsPlaced
  <2>1. /\ waitingPrefill \in Seq(Rids) /\ waitingDecode \in Seq(Rids) /\ Lists
    BY <1>1 DEF IInv, Shapes
  <2>2. ASSUME NEW i \in Rids
        PROVE  /\ Times(i, waitingPrefill) = IF i \in ToPrefill(tick) THEN 1 ELSE 0
               /\ Times(i, waitingDecode) = IF i \in ToDecode(tick) THEN 1 ELSE 0
    BY <2>1, TimesOnce DEF Lists
  <2> QED BY <2>2 DEF RequestsPlaced, ToPrefill, ToDecode
<1> QED BY <1>1, InvariantHolds, PTL

\* The loop of run() is over by the last arrival and one step for every chunk and
\* every token there is, if every request has something to decode; and never if one
\* has not, since only a decoded token completes a request.
THEOREM LoopEnds == PrefillSpec => []PrefillEndsByHorizon
<1>1. ASSUME IInv PROVE PrefillEndsByHorizon
  <2>1. /\ Shapes /\ tick \in Nat /\ IsFiniteSet(Rids) /\ OnTime
        /\ prefillRemaining \in [Rids -> Nat] /\ outputRemaining \in [Rids -> Int]
        /\ options.chunk \in Nat \ {0}
        /\ \A i \in Rids : Told(i) /\ reqs[i].output \in Nat
    BY <1>1, SpecsTyped DEF IInv, Shapes
  <2>2. CASE ~AllDecode
    <3>1. PICK i \in Rids : ~(reqs[i].output > 0)
      BY <2>2 DEF AllDecode
    <3>2. Incomplete(i)
      BY <2>1, <3>1 DEF Told
    <3> QED BY <2>2, <3>2 DEF PrefillEndsByHorizon
  <2>3. CASE AllDecode
    <3> SUFFICES ASSUME NEW i \in Rids, Incomplete(i) PROVE tick < PrefillHorizon
      BY <2>3 DEF PrefillEndsByHorizon
    <3>1. FinalArrival \in Nat
      BY <2>1, LatestArrival
    <3>2. \A k \in Rids : ChunksLeft[k] \in Nat /\ Chunks(k) \in Nat
      <4> SUFFICES ASSUME NEW k \in Rids PROVE ChunksLeft[k] \in Nat /\ Chunks(k) \in Nat
        OBVIOUS
      <4>1. reqs[k].prompt \in Nat /\ reqs[k].saved \in Nat
        BY <2>1, SpecsTyped
      <4>2. EffectivePrefill(reqs[k]) \in Nat /\ prefillRemaining[k] \in Nat
        BY <2>1, <4>1, MaxOfTwo DEF EffectivePrefill
      <4>3. ChunksFor(EffectivePrefill(reqs[k])) \in Nat /\ ChunksFor(prefillRemaining[k]) \in Nat
        BY <2>1, <4>2, ChunksFall DEF ChunksFor
      <4> QED BY <4>3 DEF ChunksLeft, Chunks
    <3>3. \A k \in Rids : outputRemaining[k] \in Nat
      BY <2>1, <2>3 DEF Told, AllDecode
    <3>4. outputRemaining[i] > 0
      BY <2>1, <2>3 DEF Told, AllDecode
    <3> DEFINE none == [k \in Rids |-> 0]
    <3>5. /\ \A k \in Rids : none[k] \in Nat /\ WorkLeft[k] \in Nat /\ none[k] <= WorkLeft[k]
          /\ none[i] < WorkLeft[i]
      BY <3>2, <3>3, <3>4 DEF WorkLeft
    <3>6. \A k \in Rids : Work[k] \in Nat
      BY <2>1, <3>2 DEF Work
    <3> HIDE DEF none
    <3>7. /\ Total(none, Rids) \in Nat /\ Total(WorkLeft, Rids) \in Nat
          /\ Total(none, Rids) < Total(WorkLeft, Rids)
      BY <2>1, <3>5, TotalMonotone
    <3>8. Total(Work, Rids) \in Nat
      BY <2>1, <3>6, TotalIsCount
    <3>9. PrefillHorizon = FinalArrival + Total(Work, Rids)
      BY DEF PrefillHorizon, Work
    <3> SUFFICES ASSUME tick >= PrefillHorizon PROVE FALSE
      BY <2>1, <3>1, <3>8, <3>9
    <3>10. tick - FinalArrival + Total(WorkLeft, Rids) <= Total(Work, Rids)
      <4>1. tick >= FinalArrival
        BY <2>1, <3>1, <3>8, <3>9
      <4> QED BY <2>1, <2>3, <4>1 DEF OnTime
    <3> QED BY <2>1, <3>1, <3>7, <3>8, <3>9, <3>10
  <2> QED BY <2>2, <2>3
<1> QED BY <1>1, InvariantHolds, PTL

\* Whatever arrives meanwhile, a request that decodes waits no longer for its next
\* token than its policy promises: one step, the prefills of all others, or the bound
\* and one step for each of the others.
THEOREM GapsBounded == PrefillSpec => []TokenGapsBounded
<1>1. ASSUME IInv PROVE TokenGapsBounded
  <2>1. \A i \in Rids : widestGap[i] <= GapBound(i)
    BY <1>1 DEF IInv, Waits
  <2> QED BY <1>1, <2>1, WaitBounded DEF TokenGapsBounded, Begun
<1> QED BY <1>1, InvariantHolds, PTL
=============================================================================
