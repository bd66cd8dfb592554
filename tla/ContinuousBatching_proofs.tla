---------------------- MODULE ContinuousBatching_proofs ----------------------
(***************************************************************************)
(* Proofs about ContinuousBatching, for every list of specs and every pair *)
(* of capacities: a sequence is in one list, the loop ends within the work *)
(* there is exactly if every sequence can be served, no sequence beats the *)
(* steps it needs alone, and where none overtakes another the whole is no  *)
(* slower than the static cohorts.                                         *)
(***************************************************************************)
EXTENDS ContinuousBatching, ListsAndSums

-----------------------------------------------------------------------------
(* The inductive invariant *)

Shapes ==
  /\ specs \in Seq([arrival : Int, prompt : Nat, decode : Nat])
  /\ capacity \in (Nat \ {0}) \X (Nat \ {0})
  /\ step \in Nat
  /\ waiting \in Seq(Ids) /\ prefilling \in Seq(Ids) /\ decoding \in Seq(Ids)
  /\ promptRemaining \in [Ids -> Int] /\ decodeRemaining \in [Ids -> Int]
  /\ firstTokenStep \in [Ids -> Int] /\ completedStep \in [Ids -> Int]

\* What is left when a prompt is done: an empty one is done when it is below zero.
Floor(i) == IF specs[i].prompt = 0 THEN -1 ELSE 0

\* What came before a step, with its prompt ahead or with only its output.
Come(now) == {i \in Ids : 0 <= specs[i].arrival /\ specs[i].arrival < now}
ToPrefill(now) == {i \in Come(now) : promptRemaining[i] > Floor(i)}
ToDecode(now) == {i \in Come(now) : promptRemaining[i] = 0 /\ Floor(i) = 0 /\ Unfinished(i)}

Lists ==
  /\ Distinct(waiting) /\ Distinct(prefilling) /\ Distinct(decoding)
  /\ InList(waiting) \cap InList(prefilling) = {}
  /\ InList(waiting) \cup InList(prefilling) = ToPrefill(step)
  /\ InList(decoding) = ToDecode(step)
  /\ Len(prefilling) <= capacity[1]
  /\ waiting # <<>> => Len(prefilling) = capacity[1]

\* The steps that i has had of those it needs.
Had(i) == specs[i].prompt - promptRemaining[i] + specs[i].decode - decodeRemaining[i]

\* What the counters of a sequence say of each other.
Told(i) ==
  /\ promptRemaining[i] \in Floor(i) .. specs[i].prompt
  /\ decodeRemaining[i] <= specs[i].decode
  /\ specs[i].decode > 0 => decodeRemaining[i] >= 0
  /\ Unfinished(i) /\ specs[i].decode > 0 => decodeRemaining[i] > 0
  /\ firstTokenStep[i] \in {None} \cup 0 .. step - 1
  /\ i \in Come(step) => Had(i) <= step - specs[i].arrival
  /\ i \notin Come(step) => /\ promptRemaining[i] = specs[i].prompt
                            /\ decodeRemaining[i] = specs[i].decode /\ Unfinished(i)
  /\ ~Unfinished(i) =>
       /\ Floor(i) = 0 /\ promptRemaining[i] = 0 /\ specs[i].decode > 0
       /\ completedStep[i] \in firstTokenStep[i] + 1 .. step
       /\ completedStep[i] - specs[i].arrival >= Ideal(i)

\* From the last arrival on every step takes one piece of the work.
WorkLeft == [i \in Ids |-> promptRemaining[i] + decodeRemaining[i]]
Work == [i \in Ids |-> Ideal(i)]
OnTime ==
  AllProper /\ Ids # {} /\ step >= LastArrival
  => step - LastArrival + Total(WorkLeft, Ids) <= Total(Work, Ids)

\* Where no sequence overtakes another the lists keep the order of the specs.
InOrder == AllProper /\ NoOvertaking /\ capacity[1] >= capacity[2]
Before(S, T) == \A x \in S, y \in T : x < y

Ordered ==
  InOrder => /\ Rising(waiting) /\ Rising(prefilling) /\ Rising(decoding)
             /\ Before(InList(decoding), InList(prefilling))
             /\ Before(InList(decoding), InList(waiting))
             /\ Before(InList(prefilling), InList(waiting))
             /\ \A i, j \in Ids : i < j => promptRemaining[i] <= promptRemaining[j]

\* The cohort of a sequence, and when the static batches start it.
CohortOf(i) == (i - 1) \div capacity[2] + 1
StartOf(k) == CohortStart(k, CohortEnd[k - 1])

\* No sequence is further behind than its cohort would be.
KeepsUp ==
  InOrder => /\ step <= StaticMakespan
             /\ \A i \in Ids :
                  Unfinished(i) /\ step >= StartOf(CohortOf(i))
                  => WorkLeft[i] + step <= StartOf(CohortOf(i)) + Ideal(i)

IInv == Shapes /\ Lists /\ (\A i \in Ids : Told(i)) /\ OnTime /\ Ordered /\ KeepsUp

-----------------------------------------------------------------------------
(* The specs, and what a stage takes from a queue *)

\* What the specs and the capacities are.
LEMMA SpecsTyped ==
  ASSUME Shapes
  PROVE  /\ Len(specs) \in Nat /\ Ids = 1 .. Len(specs) /\ IsFiniteSet(Ids)
         /\ \A i \in Ids : /\ specs[i].arrival \in Int /\ specs[i].prompt \in Nat
                           /\ specs[i].decode \in Nat /\ Ideal(i) \in Nat
                           /\ Floor(i) \in Int /\ Floor(i) \in {-1, 0}
                           /\ Floor(i) = 0 <=> specs[i].prompt > 0
         /\ capacity[1] \in Nat \ {0} /\ capacity[2] \in Nat \ {0}
<1> DEFINE T == [arrival : Int, prompt : Nat, decode : Nat]
<1>1. specs \in Seq(T) /\ capacity \in (Nat \ {0}) \X (Nat \ {0})
  BY DEF Shapes
<1>2. \A t \in T : t.arrival \in Int /\ t.prompt \in Nat /\ t.decode \in Nat
  OBVIOUS
<1> HIDE DEF T
<1>3. /\ Len(specs) \in Nat /\ Ids = 1 .. Len(specs)
      /\ \A i \in 1 .. Len(specs) : specs[i] \in T
  BY <1>1, ListTyped DEF Ids
<1>4. IsFiniteSet(1 .. Len(specs))
  BY <1>3, FS_Interval
<1>5. \A i \in Ids : /\ specs[i].arrival \in Int /\ specs[i].prompt \in Nat
                     /\ specs[i].decode \in Nat
  BY <1>2, <1>3
<1>6. \A i \in Ids : Ideal(i) \in Nat /\ Floor(i) \in Int /\ Floor(i) \in {-1, 0}
                     /\ (Floor(i) = 0 <=> specs[i].prompt > 0)
  BY <1>5 DEF Ideal, Floor
<1> QED BY <1>1, <1>3, <1>4, <1>5, <1>6

\* A stage that takes from the head of a queue as many as it has room for.
LEMMA Admits ==
  ASSUME Shapes, NEW queue \in Seq(Ids), NEW stage \in Seq(Ids),
         Len(stage) <= capacity[1], Distinct(queue), Distinct(stage),
         InList(stage) \cap InList(queue) = {}
  PROVE  LET full == stage \o Admitted(queue, stage)
             back == Behind(queue, stage)
         IN  /\ full \in Seq(Ids) /\ Distinct(full) /\ Len(full) <= capacity[1]
             /\ back \in Seq(Ids) /\ Distinct(back)
             /\ back # <<>> => Len(full) = capacity[1]
             /\ InList(back) \cap InList(full) = {}
             /\ InList(back) \cup InList(full) = InList(queue) \cup InList(stage)
             /\ InList(stage) \subseteq InList(full) /\ InList(back) \subseteq InList(queue)
             /\ \A p \in 1 .. Len(queue) :
                  Len(stage) + p <= capacity[1] => queue[p] \in InList(full)
             /\ Rising(queue) /\ Rising(stage) /\ Before(InList(stage), InList(queue))
                => Rising(full) /\ Rising(back) /\ Before(InList(full), InList(back))
<1> DEFINE n == Admissible(queue, stage)
           front == SubSeq(queue, 1, n)
           back == SubSeq(queue, n + 1, Len(queue))
<1>1. Len(queue) \in Nat /\ Len(stage) \in Nat /\ capacity[1] \in Nat \ {0}
  BY ListTyped, SpecsTyped
<1>2. /\ n \in 0 .. Len(queue) /\ Len(stage) + n <= capacity[1]
      /\ n = Len(queue) \/ Len(stage) + n = capacity[1]
      /\ \A p \in 1 .. Len(queue) : Len(stage) + p <= capacity[1] => p \in 1 .. n
  BY <1>1 DEF Admissible, Lesser
<1> HIDE DEF n
<1>3. /\ front \in Seq(Ids) /\ Len(front) = n
      /\ back \in Seq(Ids) /\ Len(back) = Len(queue) - n
      /\ \A k \in 1 .. n : front[k] = queue[k]
      /\ InList(front) \cup InList(back) = InList(queue)
      /\ Distinct(front) /\ Distinct(back) /\ InList(front) \cap InList(back) = {}
      /\ Rising(queue) => /\ Rising(front) /\ Rising(back)
                          /\ \A x \in InList(front), y \in InList(back) : x < y
  BY <1>2, CutLists
<1> HIDE DEF front, back
<1> DEFINE full == stage \o front
<1>4. /\ full \in Seq(Ids) /\ Len(full) = Len(stage) + Len(front)
      /\ InList(full) = InList(stage) \cup InList(front)
      /\ Distinct(full)
      /\ Rising(stage) /\ Rising(front) /\ (\A x \in InList(stage), y \in InList(front) : x < y)
         => Rising(full)
  <2>1. InList(stage) \cap InList(front) = {} /\ front \in Seq(Ids) /\ Distinct(front)
    BY <1>3
  <2> QED BY <2>1, ConcatLists
<1> HIDE DEF full
<1>5. back # <<>> => Len(full) = capacity[1]
  <2>1. back # <<>> => Len(back) # 0
    BY <1>3, ListTyped
  <2> QED BY <1>1, <1>2, <1>3, <1>4, <2>1
<1>6. ASSUME NEW p \in 1 .. Len(queue), Len(stage) + p <= capacity[1]
      PROVE  queue[p] \in InList(full)
  <2>1. InList(front) = {front[k] : k \in 1 .. Len(front)}
    BY <1>3, ListTyped
  <2>2. p \in 1 .. n
    BY <1>2, <1>6
  <2> QED BY <1>3, <1>4, <2>1, <2>2
<1>7. ASSUME Rising(queue), Rising(stage), Before(InList(stage), InList(queue))
      PROVE  Rising(full) /\ Rising(back) /\ Before(InList(full), InList(back))
  BY <1>3, <1>4, <1>7 DEF Before
<1>8. Len(full) <= capacity[1]
  BY <1>1, <1>2, <1>3, <1>4
<1>9. Admitted(queue, stage) = front /\ Behind(queue, stage) = back
  BY DEF Admitted, Behind, front, back, n
<1> QED BY <1>3, <1>4, <1>5, <1>6, <1>7, <1>8, <1>9 DEF full

-----------------------------------------------------------------------------
(* The lists after the arrivals *)

\* What the stage leaves in the queue.
Left == Behind(Queue, prefilling)

\* Who comes in a step was not there before, and has its prompt ahead.
LEMMA Comes ==
  ASSUME IInv
  PROVE  /\ step \in Nat
         /\ Come(step + 1) = Come(step) \cup {i \in Ids : specs[i].arrival = step}
         /\ Come(step) \cap {i \in Ids : specs[i].arrival = step} = {}
         /\ \A i \in Ids : specs[i].arrival = step =>
              promptRemaining[i] > Floor(i) /\ Unfinished(i)
         /\ ToPrefill(step + 1) = ToPrefill(step) \cup {i \in Ids : specs[i].arrival = step}
         /\ ToDecode(step + 1) = ToDecode(step)
<1>1. step \in Nat /\ \A i \in Ids : promptRemaining[i] \in Int
  BY DEF IInv, Shapes
<1>2. \A i \in Ids : /\ specs[i].arrival \in Int /\ specs[i].prompt \in Nat
                     /\ Floor(i) \in {-1, 0} /\ (Floor(i) = 0 <=> specs[i].prompt > 0)
  BY SpecsTyped DEF IInv
<1> DEFINE new == {i \in Ids : specs[i].arrival = step}
<1>3. Come(step + 1) = Come(step) \cup new /\ Come(step) \cap new = {}
  BY <1>1, <1>2 DEF Come
<1>4. ASSUME NEW i \in new PROVE promptRemaining[i] > Floor(i) /\ Unfinished(i)
  <2>1. promptRemaining[i] = specs[i].prompt /\ Unfinished(i)
    BY <1>3 DEF IInv, Told
  <2> QED BY <1>2, <2>1
<1>5. ToPrefill(step + 1) = ToPrefill(step) \cup new
  BY <1>3, <1>4 DEF ToPrefill
<1>6. \A i \in new : ~(promptRemaining[i] = 0 /\ Floor(i) = 0)
  BY <1>1, <1>2, <1>4
<1>7. ToDecode(step + 1) = ToDecode(step)
  BY <1>3, <1>6 DEF ToDecode
<1> QED BY <1>1, <1>3, <1>4, <1>5, <1>7

\* The queue of a step: who waited, then who comes.
LEMMA Queued ==
  ASSUME IInv
  PROVE  /\ Arrived \in Seq(Ids) /\ Distinct(Arrived) /\ Rising(Arrived)
         /\ InList(Arrived) = {i \in Ids : specs[i].arrival = step}
         /\ Queue \in Seq(Ids) /\ Distinct(Queue)
         /\ InList(Queue) = InList(waiting) \cup InList(Arrived)
         /\ InList(prefilling) \cap InList(Queue) = {}
         /\ InList(prefilling) \cup InList(Queue) = ToPrefill(step + 1)
<1>1. Shapes /\ Lists /\ waiting \in Seq(Ids)
  BY DEF IInv, Shapes
<1> DEFINE all == [i \in Ids |-> i]
           new == {i \in Ids : specs[i].arrival = step}
<1>2. all \in Seq(Ids) /\ Distinct(all) /\ Rising(all) /\ InList(all) = Ids
  <2>1. Ids = 1 .. Len(specs) /\ Len(specs) \in Nat
    BY <1>1, SpecsTyped
  <2> DEFINE n == Len(specs)
  <2>2. n \in Nat /\ Ids = 1 .. n /\ all \in [1 .. n -> Ids] /\ \A k \in 1 .. n : all[k] = k
    BY <2>1
  <2> HIDE DEF all, n
  <2>3. all \in Seq(Ids) /\ Len(all) = n /\ DOMAIN all = 1 .. n
    BY <2>2, NumberedList
  <2>4. Distinct(all) /\ Rising(all)
    BY <2>2, <2>3 DEF Distinct, Rising
  <2>5. InList(all) = 1 .. n
    BY <2>2, <2>3 DEF InList
  <2> QED BY <2>2, <2>3, <2>4, <2>5
<1>3. /\ Arrived \in Seq(Ids) /\ Distinct(Arrived) /\ Rising(Arrived) /\ InList(Arrived) = new
  <2>1. Arrived = Keep(all, new) /\ Ids \cap new = new
    BY DEF Arrived
  <2> HIDE DEF all, new
  <2> QED BY <1>2, <2>1, KeepList
<1>4. InList(waiting) \cap new = {} /\ InList(prefilling) \cap new = {}
  <2>1. ToPrefill(step) \cap new = {}
    BY Comes DEF ToPrefill
  <2> QED BY <1>1, <2>1 DEF Lists
<1> HIDE DEF new
<1>5. /\ Queue \in Seq(Ids) /\ Distinct(Queue)
      /\ InList(Queue) = InList(waiting) \cup InList(Arrived)
  <2>1. Distinct(waiting)
    BY <1>1 DEF Lists
  <2> QED BY <1>1, <1>3, <1>4, <2>1, ConcatLists DEF Queue
<1>6. InList(prefilling) \cap InList(Queue) = {}
  BY <1>1, <1>3, <1>4, <1>5 DEF Lists
<1>7. InList(prefilling) \cup InList(Queue) = ToPrefill(step + 1)
  BY <1>1, <1>3, <1>5, Comes DEF Lists, new
<1> QED BY <1>3, <1>5, <1>6, <1>7 DEF new

\* What a step prefills and decodes.
LEMMA Found ==
  ASSUME IInv
  PROVE  /\ Stage \in Seq(Ids) /\ Distinct(Stage) /\ Len(Stage) <= capacity[1]
         /\ Left \in Seq(Ids) /\ Distinct(Left) /\ (Left # <<>> => Len(Stage) = capacity[1])
         /\ InList(Left) \cap InList(Stage) = {}
         /\ InList(Left) \cup InList(Stage) = ToPrefill(step + 1)
         /\ InList(prefilling) \subseteq InList(Stage)
         /\ \A p \in 1 .. Len(Queue) :
              Len(prefilling) + p <= capacity[1] => Queue[p] \in InList(Stage)
         /\ Served \subseteq ToDecode(step) /\ Served \subseteq Ids
         /\ \A p \in 1 .. Len(decoding) : p <= capacity[2] => decoding[p] \in Served
<1>1. /\ Shapes /\ Lists /\ prefilling \in Seq(Ids) /\ decoding \in Seq(Ids)
      /\ Distinct(prefilling) /\ Len(prefilling) <= capacity[1]
  BY DEF IInv, Shapes, Lists
<1>2. /\ Queue \in Seq(Ids) /\ Distinct(Queue)
      /\ InList(prefilling) \cap InList(Queue) = {}
      /\ InList(prefilling) \cup InList(Queue) = ToPrefill(step + 1)
  BY Queued
<1>3. /\ Stage \in Seq(Ids) /\ Distinct(Stage) /\ Len(Stage) <= capacity[1]
      /\ Left \in Seq(Ids) /\ Distinct(Left) /\ (Left # <<>> => Len(Stage) = capacity[1])
      /\ InList(Left) \cap InList(Stage) = {}
      /\ InList(Left) \cup InList(Stage) = InList(Queue) \cup InList(prefilling)
      /\ InList(prefilling) \subseteq InList(Stage)
      /\ \A p \in 1 .. Len(Queue) :
           Len(prefilling) + p <= capacity[1] => Queue[p] \in InList(Stage)
  BY <1>1, <1>2, Admits DEF Stage, Left
<1>4. /\ Served \subseteq InList(decoding)
      /\ \A p \in 1 .. capacity[2] : p <= Len(decoding) => decoding[p] \in Served
  <2>1. capacity[2] \in Nat
    BY <1>1, SpecsTyped
  <2> QED BY <1>1, <2>1, FirstOfList DEF Served
<1>5. \A p \in 1 .. Len(decoding) : p <= capacity[2] => p \in 1 .. capacity[2]
  <2>1. Len(decoding) \in Nat /\ capacity[2] \in Nat
    BY <1>1, ListTyped, SpecsTyped
  <2> QED BY <2>1
<1>6. \A p \in 1 .. Len(decoding) : p <= Len(decoding)
  <2>1. Len(decoding) \in Nat
    BY <1>1, ListTyped
  <2> QED BY <2>1
<1>7. InList(decoding) = ToDecode(step) /\ ToDecode(step) \subseteq Ids
  BY <1>1 DEF Lists, ToDecode, Come
<1> QED BY <1>2, <1>3, <1>4, <1>5, <1>6, <1>7

\* Without overtaking all lists, and one after the other, are in the order of the specs.
LEMMA FoundInOrder ==
  ASSUME IInv, InOrder
  PROVE  /\ Rising(Queue) /\ Before(InList(prefilling), InList(Queue))
         /\ Rising(Stage) /\ Rising(Left) /\ Before(InList(Stage), InList(Left))
         /\ Before(InList(decoding), InList(Stage)) /\ Before(InList(decoding), InList(Left))
<1>1. /\ Shapes /\ Lists /\ Ordered /\ step \in Nat
      /\ waiting \in Seq(Ids) /\ prefilling \in Seq(Ids) /\ decoding \in Seq(Ids)
      /\ Distinct(prefilling) /\ Len(prefilling) <= capacity[1]
  BY DEF IInv, Shapes, Lists
<1>2. /\ Rising(waiting) /\ Rising(prefilling)
      /\ Before(InList(decoding), InList(prefilling))
      /\ Before(InList(decoding), InList(waiting))
      /\ Before(InList(prefilling), InList(waiting))
  BY <1>1 DEF Ordered
<1>3. /\ Arrived \in Seq(Ids) /\ Rising(Arrived)
      /\ InList(Arrived) = {i \in Ids : specs[i].arrival = step}
      /\ Queue \in Seq(Ids) /\ Distinct(Queue)
      /\ InList(Queue) = InList(waiting) \cup InList(Arrived)
      /\ InList(prefilling) \cap InList(Queue) = {}
  BY Queued
<1>4. Before(Come(step), InList(Arrived))
  <2> SUFFICES ASSUME NEW x \in Come(step), NEW y \in Ids, specs[y].arrival = step
               PROVE  x < y
    BY <1>3 DEF Before
  <2>1. x \in Ids /\ specs[x].arrival < step /\ specs[x].arrival \in Int
    BY <1>1, SpecsTyped DEF Come
  <2>2. x \in Nat /\ y \in Nat
    BY <1>1, <2>1, SpecsTyped
  <2>3. CASE x = y
    BY <1>1, <2>1, <2>3
  <2>4. CASE y < x
    <3>1. specs[y].arrival <= specs[x].arrival
      BY <2>1, <2>4 DEF InOrder, NoOvertaking
    <3> QED BY <1>1, <2>1, <3>1
  <2> QED BY <2>2, <2>3, <2>4
<1>5. /\ InList(waiting) \subseteq Come(step) /\ InList(prefilling) \subseteq Come(step)
      /\ InList(decoding) \subseteq Come(step)
  BY <1>1 DEF Lists, ToPrefill, ToDecode
<1>6. Rising(Queue)
  <2>1. \A x \in InList(waiting), y \in InList(Arrived) : x < y
    BY <1>4, <1>5 DEF Before
  <2> QED BY <1>1, <1>2, <1>3, <2>1, ConcatLists DEF Queue
<1>7. Before(InList(prefilling), InList(Queue)) /\ Before(InList(decoding), InList(Queue))
  BY <1>2, <1>3, <1>4, <1>5 DEF Before
<1>8. /\ Rising(Stage) /\ Rising(Left) /\ Before(InList(Stage), InList(Left))
      /\ InList(Left) \cup InList(Stage) = InList(Queue) \cup InList(prefilling)
  BY <1>1, <1>2, <1>3, <1>6, <1>7, Admits DEF Stage, Left
<1>9. Before(InList(decoding), InList(Stage)) /\ Before(InList(decoding), InList(Left))
  BY <1>2, <1>7, <1>8 DEF Before
<1> QED BY <1>6, <1>7, <1>8, <1>9

-----------------------------------------------------------------------------
(* What a step does *)

\* The counters, one by one.
LEMMA Counts ==
  ASSUME IInv, BatchingStep
  PROVE  /\ step' = step + 1 /\ specs' = specs /\ capacity' = capacity /\ Ids' = Ids
         /\ promptRemaining' \in [Ids -> Int] /\ decodeRemaining' \in [Ids -> Int]
         /\ firstTokenStep' \in [Ids -> Int] /\ completedStep' \in [Ids -> Int]
         /\ \A i \in Ids :
              /\ promptRemaining'[i] = promptRemaining[i] - (IF i \in InList(Stage) THEN 1 ELSE 0)
              /\ decodeRemaining'[i] = decodeRemaining[i] - (IF i \in Served THEN 1 ELSE 0)
              /\ firstTokenStep'[i] = IF i \in Served /\ firstTokenStep[i] = None
                                      THEN step ELSE firstTokenStep[i]
              /\ completedStep'[i] = IF i \in Served /\ decodeRemaining[i] = 1
                                     THEN step + 1 ELSE completedStep[i]
<1>1. /\ step \in Nat /\ promptRemaining \in [Ids -> Int] /\ decodeRemaining \in [Ids -> Int]
      /\ firstTokenStep \in [Ids -> Int] /\ completedStep \in [Ids -> Int]
  BY DEF IInv, Shapes
<1>2. step' = step + 1 /\ specs' = specs /\ capacity' = capacity
  BY DEF BatchingStep
<1>3. /\ firstTokenStep' = [i \in Ids |->
           IF i \in Served /\ firstTokenStep[i] = None THEN step ELSE firstTokenStep[i]]
      /\ completedStep' = [i \in Ids |->
           IF i \in Served /\ decodeRemaining[i] = 1 THEN step + 1 ELSE completedStep[i]]
  BY DEF BatchingStep, Gone, Leaves
<1>4. /\ decodeRemaining' =
           [i \in Ids |-> decodeRemaining[i] - (IF i \in Served THEN 1 ELSE 0)]
      /\ promptRemaining' =
           [i \in Ids |-> promptRemaining[i] - (IF i \in InList(Stage) THEN 1 ELSE 0)]
  BY DEF BatchingStep
<1>5. \A i \in Ids : /\ promptRemaining[i] - (IF i \in InList(Stage) THEN 1 ELSE 0) \in Int
                     /\ decodeRemaining[i] - (IF i \in Served THEN 1 ELSE 0) \in Int
  BY <1>1
<1>6. /\ firstTokenStep' \in [Ids -> Int] /\ completedStep' \in [Ids -> Int]
  BY <1>1, <1>3
<1>7. promptRemaining' \in [Ids -> Int] /\ decodeRemaining' \in [Ids -> Int]
  BY <1>4, <1>5
<1>8. \A i \in Ids :
        /\ promptRemaining'[i] = promptRemaining[i] - (IF i \in InList(Stage) THEN 1 ELSE 0)
        /\ decodeRemaining'[i] = decodeRemaining[i] - (IF i \in Served THEN 1 ELSE 0)
  BY <1>4
<1>9. \A i \in Ids :
        /\ firstTokenStep'[i] = IF i \in Served /\ firstTokenStep[i] = None
                                THEN step ELSE firstTokenStep[i]
        /\ completedStep'[i] = IF i \in Served /\ decodeRemaining[i] = 1
                               THEN step + 1 ELSE completedStep[i]
  BY <1>3
<1> QED BY <1>2, <1>6, <1>7, <1>8, <1>9 DEF Ids

\* Who is in the stage is not done; who is served has its prompt behind it.
LEMMA Apart ==
  ASSUME IInv, NEW i \in Ids
  PROVE  /\ i \in InList(Stage) => /\ promptRemaining[i] > Floor(i) /\ Unfinished(i)
                                   /\ i \in Come(step + 1) /\ i \notin Served
         /\ i \in Served => /\ promptRemaining[i] = 0 /\ Floor(i) = 0 /\ Unfinished(i)
                            /\ i \in Come(step)
<1>1. /\ Told(i) /\ promptRemaining[i] \in Int
  BY DEF IInv, Shapes
<1>2. Floor(i) \in Int
  BY SpecsTyped DEF IInv
<1>3. i \in InList(Stage) => i \in Come(step + 1) /\ promptRemaining[i] > Floor(i)
  BY Found DEF ToPrefill
<1>4. i \in Served => promptRemaining[i] = 0 /\ Floor(i) = 0 /\ Unfinished(i) /\ i \in Come(step)
  BY Found DEF ToDecode
<1>5. promptRemaining[i] > Floor(i) => Unfinished(i)
  BY <1>1, <1>2 DEF Told
<1> QED BY <1>3, <1>4, <1>5

\* The lists.
LEMMA Moves ==
  ASSUME IInv, BatchingStep
  PROVE  /\ decoding' \in Seq(Ids) /\ Distinct(decoding')
         /\ InList(decoding') = (ToDecode(step) \ Gone)
                                  \cup {i \in InList(Stage) : promptRemaining[i] = 1}
         /\ prefilling' \in Seq(Ids) /\ Distinct(prefilling') /\ Len(prefilling') <= capacity[1]
         /\ waiting' \in Seq(Ids) /\ Distinct(waiting')
         /\ waiting' # <<>> => Len(prefilling') = capacity[1]
         /\ InList(waiting') \cap InList(prefilling') = {}
         /\ InList(waiting') \cup InList(prefilling')
              = InList(Left) \cup {i \in InList(Stage) : promptRemaining[i] > 1}
         /\ InOrder => /\ Rising(waiting') /\ Rising(prefilling') /\ Rising(decoding')
                       /\ Before(InList(decoding'), InList(prefilling'))
                       /\ Before(InList(decoding'), InList(waiting'))
                       /\ Before(InList(prefilling'), InList(waiting'))
<1>1. /\ Shapes /\ Lists /\ Ordered /\ promptRemaining \in [Ids -> Int]
      /\ decoding \in Seq(Ids) /\ Distinct(decoding) /\ InList(decoding) = ToDecode(step)
  BY DEF IInv, Shapes, Lists
<1>2. /\ Stage \in Seq(Ids) /\ Distinct(Stage) /\ Len(Stage) <= capacity[1]
      /\ Left \in Seq(Ids) /\ Distinct(Left)
      /\ InList(Left) \cap InList(Stage) = {}
  BY Found
<1>3. InList(Stage) \subseteq Ids
  BY <1>2, ListTyped
<1> DEFINE ones == {i \in Ids : promptRemaining[i] = 1}
           more == {i \in Ids : promptRemaining[i] > 1}
           stay == Ids \ Gone
           still == Keep(decoding, stay)
<1>4. /\ Ready \in Seq(Ids) /\ Distinct(Ready) /\ InList(Ready) = InList(Stage) \cap ones
      /\ Rising(Stage) => Rising(Ready)
  <2>1. Ready = Keep(Stage, ones)
    BY DEF Ready
  <2> HIDE DEF ones
  <2> QED BY <1>2, <2>1, KeepList
<1>5. /\ Rest \in Seq(Ids) /\ Distinct(Rest) /\ InList(Rest) = InList(Stage) \cap more
      /\ Len(Rest) <= capacity[1] /\ (Rising(Stage) => Rising(Rest))
  <2>1. Rest = Keep(Stage, more)
    BY DEF Rest
  <2> HIDE DEF more
  <2>2. /\ Rest \in Seq(Ids) /\ Distinct(Rest) /\ InList(Rest) = InList(Stage) \cap more
        /\ Len(Rest) <= Len(Stage) /\ (Rising(Stage) => Rising(Rest))
    BY <1>2, <2>1, KeepList
  <2>3. Len(Rest) \in Nat /\ Len(Stage) \in Nat /\ capacity[1] \in Nat
    BY <1>1, <1>2, <2>2, ListTyped, SpecsTyped
  <2> QED BY <1>2, <2>2, <2>3
<1>6. /\ still \in Seq(Ids) /\ Distinct(still) /\ InList(still) = InList(decoding) \cap stay
      /\ Rising(decoding) => Rising(still)
  <2> HIDE DEF stay
  <2> QED BY <1>1, KeepList
<1>7. decoding' = still \o Ready
  BY DEF BatchingStep
<1>8. /\ prefilling' = Rest \o Admitted(Left, Rest) /\ waiting' = Behind(Left, Rest)
  BY DEF BatchingStep, Left
<1>9. InList(still) \cap InList(Ready) = {}
  <2>1. \A i \in ToDecode(step) : promptRemaining[i] = 0
    BY DEF ToDecode
  <2>2. \A i \in ones : promptRemaining[i] = 1
    OBVIOUS
  <2>3. ToDecode(step) \cap ones = {}
    BY <2>1, <2>2
  <2> HIDE DEF still, ones
  <2> QED BY <1>1, <1>4, <1>6, <2>3
<1> HIDE DEF still
<1>10. /\ decoding' \in Seq(Ids) /\ Distinct(decoding')
       /\ InList(decoding') = InList(still) \cup InList(Ready)
       /\ /\ Rising(still) /\ Rising(Ready) /\ \A x \in InList(still), y \in InList(Ready) : x < y
          => Rising(decoding')
  BY <1>4, <1>6, <1>7, <1>9, ConcatLists
<1>11. InList(decoding') = (ToDecode(step) \ Gone)
                             \cup {i \in InList(Stage) : promptRemaining[i] = 1}
  BY <1>1, <1>3, <1>4, <1>6, <1>10 DEF ToDecode, Come
<1>12. InList(Rest) \cap InList(Left) = {}
  BY <1>2, <1>5
<1>13. /\ prefilling' \in Seq(Ids) /\ Distinct(prefilling') /\ Len(prefilling') <= capacity[1]
       /\ waiting' \in Seq(Ids) /\ Distinct(waiting')
       /\ waiting' # <<>> => Len(prefilling') = capacity[1]
       /\ InList(waiting') \cap InList(prefilling') = {}
       /\ InList(waiting') \cup InList(prefilling') = InList(Left) \cup InList(Rest)
       /\ Rising(Left) /\ Rising(Rest) /\ Before(InList(Rest), InList(Left))
          => Rising(prefilling') /\ Rising(waiting') /\ Before(InList(prefilling'), InList(waiting'))
  BY <1>1, <1>2, <1>5, <1>8, <1>12, Admits
<1>14. InList(Rest) = {i \in InList(Stage) : promptRemaining[i] > 1}
  BY <1>3, <1>5
<1>15. ASSUME InOrder
       PROVE  /\ Rising(waiting') /\ Rising(prefilling') /\ Rising(decoding')
              /\ Before(InList(decoding'), InList(prefilling'))
              /\ Before(InList(decoding'), InList(waiting'))
              /\ Before(InList(prefilling'), InList(waiting'))
  <2>1. /\ Rising(Stage) /\ Rising(Left) /\ Before(InList(Stage), InList(Left))
        /\ Before(InList(decoding), InList(Stage)) /\ Before(InList(decoding), InList(Left))
    BY <1>15, FoundInOrder
  <2>2. /\ Rising(decoding)
        /\ \A i, j \in Ids : i < j => promptRemaining[i] <= promptRemaining[j]
    BY <1>1, <1>15 DEF Ordered
  <2>3. Before(InList(Ready), InList(Rest))
    <3> SUFFICES ASSUME NEW x \in InList(Ready), NEW y \in InList(Rest) PROVE x < y
      BY DEF Before
    <3>1. /\ x \in Ids /\ y \in Ids /\ promptRemaining[x] = 1 /\ promptRemaining[y] > 1
          /\ promptRemaining[x] \in Int /\ promptRemaining[y] \in Int
      BY <1>1, <1>4, <1>5
    <3>2. x \in Nat /\ y \in Nat
      BY <1>1, <3>1, SpecsTyped
    <3>3. ~(y < x) /\ y # x
      BY <2>2, <3>1
    <3> QED BY <3>2, <3>3
  <2>4. Rising(decoding')
    <3>1. \A x \in InList(still), y \in InList(Ready) : x < y
      BY <1>4, <1>6, <2>1 DEF Before
    <3> QED BY <1>4, <1>6, <1>10, <2>1, <2>2, <3>1
  <2>5. Before(InList(Rest), InList(Left))
    BY <1>5, <2>1 DEF Before
  <2>6. /\ Rising(waiting') /\ Rising(prefilling')
        /\ Before(InList(prefilling'), InList(waiting'))
    BY <1>5, <1>13, <2>1, <2>5
  <2>7. Before(InList(decoding'), InList(Left) \cup InList(Rest))
    BY <1>4, <1>5, <1>6, <1>10, <2>1, <2>3 DEF Before
  <2>8. InList(prefilling') \subseteq InList(Left) \cup InList(Rest)
        /\ InList(waiting') \subseteq InList(Left) \cup InList(Rest)
    BY <1>13
  <2> QED BY <2>4, <2>6, <2>7, <2>8 DEF Before
<1> QED BY <1>10, <1>11, <1>13, <1>14, <1>15

-----------------------------------------------------------------------------
(* Every step keeps the invariant *)

\* The types.
LEMMA ShapesKept ==
  ASSUME IInv, BatchingStep
  PROVE  Shapes'
<1>1. /\ step' = step + 1 /\ specs' = specs /\ capacity' = capacity /\ Ids' = Ids
      /\ promptRemaining' \in [Ids -> Int] /\ decodeRemaining' \in [Ids -> Int]
      /\ firstTokenStep' \in [Ids -> Int] /\ completedStep' \in [Ids -> Int]
  BY Counts
<1>2. decoding' \in Seq(Ids) /\ prefilling' \in Seq(Ids) /\ waiting' \in Seq(Ids)
  BY Moves
<1>3. /\ specs \in Seq([arrival : Int, prompt : Nat, decode : Nat])
      /\ capacity \in (Nat \ {0}) \X (Nat \ {0}) /\ step + 1 \in Nat
  BY DEF IInv, Shapes
<1> QED BY <1>1, <1>2, <1>3 DEF Shapes

\* What was there and what comes, after the step.
LEMMA SetsMove ==
  ASSUME IInv, BatchingStep
  PROVE  /\ ToPrefill(step)' = InList(Left) \cup {i \in InList(Stage) : promptRemaining[i] > 1}
         /\ ToDecode(step)' = (ToDecode(step) \ Gone)
                                \cup {i \in InList(Stage) : promptRemaining[i] = 1}
         /\ Come(step)' = Come(step + 1)
<1>1. /\ step' = step + 1 /\ specs' = specs /\ Ids' = Ids
      /\ \A i \in Ids :
           /\ promptRemaining'[i] = promptRemaining[i] - (IF i \in InList(Stage) THEN 1 ELSE 0)
           /\ completedStep'[i] = IF i \in Served /\ decodeRemaining[i] = 1
                                  THEN step + 1 ELSE completedStep[i]
  BY Counts
<1>2. /\ step \in Nat /\ step + 1 # None
      /\ \A i \in Ids : promptRemaining[i] \in Int /\ promptRemaining[i] <= specs[i].prompt
  <2>1. step \in Nat /\ \A i \in Ids : promptRemaining[i] \in Int /\ Told(i)
    BY DEF IInv, Shapes
  <2>2. \A i \in Ids : Floor(i) \in Int /\ specs[i].prompt \in Nat
    BY SpecsTyped DEF IInv
  <2> QED BY <2>1, <2>2 DEF None, Told
<1>3. \A i \in Ids : Floor(i) \in {-1, 0} /\ specs[i].prompt \in Nat
                     /\ (Floor(i) = 0 <=> specs[i].prompt > 0)
  BY SpecsTyped DEF IInv
<1>4. /\ Come(step)' = Come(step + 1)
      /\ ToPrefill(step)' = {i \in Come(step + 1) : promptRemaining'[i] > Floor(i)}
      /\ ToDecode(step)' = {i \in Come(step + 1) :
                              promptRemaining'[i] = 0 /\ Floor(i) = 0 /\ completedStep'[i] = None}
  BY <1>1 DEF Come, ToPrefill, ToDecode, Floor, Unfinished
<1>5. /\ InList(Left) \cup InList(Stage) = ToPrefill(step + 1)
      /\ InList(Left) \cap InList(Stage) = {}
      /\ Served \subseteq ToDecode(step) /\ ToDecode(step + 1) = ToDecode(step)
  BY Found, Comes
<1>6. Come(step + 1) \subseteq Ids /\ ToDecode(step) \subseteq Ids
  BY DEF Come, ToDecode
<1>7. Gone = {i \in Served : decodeRemaining[i] = 1}
  BY DEF Gone, Leaves
<1>8. ASSUME NEW i \in Come(step + 1)
      PROVE  /\ promptRemaining'[i] > Floor(i)
                  <=> \/ i \in InList(Left)
                      \/ i \in InList(Stage) /\ promptRemaining[i] > 1
             /\ (promptRemaining'[i] = 0 /\ Floor(i) = 0 /\ completedStep'[i] = None)
                  <=> \/ i \in ToDecode(step) \ Gone
                      \/ i \in InList(Stage) /\ promptRemaining[i] = 1
  <2>1. i \in Ids /\ (i \in ToPrefill(step + 1) <=> promptRemaining[i] > Floor(i))
    BY <1>6 DEF ToPrefill
  <2>2. i \in ToDecode(step) <=>
          promptRemaining[i] = 0 /\ Floor(i) = 0 /\ completedStep[i] = None
    BY <1>5 DEF ToDecode, Unfinished
  <2>3. CASE i \in InList(Stage)
    <3>1. /\ promptRemaining'[i] = promptRemaining[i] - 1 /\ completedStep'[i] = completedStep[i]
          /\ i \notin InList(Left) /\ promptRemaining[i] > Floor(i) /\ completedStep[i] = None
          /\ promptRemaining[i] \in Int /\ promptRemaining[i] <= specs[i].prompt
          /\ specs[i].prompt \in Nat /\ Floor(i) \in {-1, 0}
          /\ (Floor(i) = 0 <=> specs[i].prompt > 0)
      BY <1>1, <1>2, <1>3, <1>5, <2>1, <2>3, Apart DEF Unfinished
    <3>2. promptRemaining[i] - 1 > Floor(i) <=> promptRemaining[i] > 1
      BY <3>1
    <3>3. promptRemaining[i] - 1 = 0 /\ Floor(i) = 0 <=> promptRemaining[i] = 1
      BY <3>1
    <3>4. i \notin ToDecode(step)
      BY <2>2, <3>1
    <3> QED BY <2>3, <3>1, <3>2, <3>3, <3>4
  <2>4. CASE i \notin InList(Stage)
    <3>1. promptRemaining'[i] = promptRemaining[i]
      BY <1>1, <1>2, <2>1, <2>4
    <3>2. completedStep'[i] = None <=> i \notin Gone /\ completedStep[i] = None
      BY <1>1, <1>2, <1>7, <2>1
    <3> QED BY <1>5, <2>1, <2>2, <2>4, <3>1, <3>2
  <2> QED BY <2>3, <2>4
<1>9. InList(Left) \cup InList(Stage) \subseteq Come(step + 1) /\ ToDecode(step) \subseteq Come(step + 1)
  BY <1>5 DEF ToPrefill, ToDecode
<1> QED BY <1>4, <1>8, <1>9

LEMMA ListsKept ==
  ASSUME IInv, BatchingStep
  PROVE  Lists'
<1>1. capacity' = capacity
  BY Counts
<1> QED BY <1>1, Moves, SetsMove DEF Lists

LEMMA ToldKept ==
  ASSUME IInv, BatchingStep, NEW i \in Ids
  PROVE  Told(i)'
<1>1. /\ step' = step + 1 /\ specs' = specs
      /\ promptRemaining'[i] = promptRemaining[i] - (IF i \in InList(Stage) THEN 1 ELSE 0)
      /\ decodeRemaining'[i] = decodeRemaining[i] - (IF i \in Served THEN 1 ELSE 0)
      /\ firstTokenStep'[i] = IF i \in Served /\ firstTokenStep[i] = None
                              THEN step ELSE firstTokenStep[i]
      /\ completedStep'[i] = IF i \in Served /\ decodeRemaining[i] = 1
                             THEN step + 1 ELSE completedStep[i]
  BY Counts
<1>2. /\ Told(i) /\ step \in Nat /\ promptRemaining[i] \in Int /\ decodeRemaining[i] \in Int
      /\ firstTokenStep[i] \in Int /\ completedStep[i] \in Int
  BY DEF IInv, Shapes
<1>3. /\ specs[i].arrival \in Int /\ specs[i].prompt \in Nat /\ specs[i].decode \in Nat
      /\ Floor(i) \in {-1, 0} /\ (Floor(i) = 0 <=> specs[i].prompt > 0)
  BY SpecsTyped DEF IInv
<1>4. Floor(i)' = Floor(i) /\ Ideal(i)' = Ideal(i)
  BY <1>1 DEF Floor, Ideal
<1>5. (i \in Come(step))' <=> i \in Come(step + 1)
  BY SetsMove
<1>6. /\ i \in InList(Stage) => /\ promptRemaining[i] > Floor(i) /\ Unfinished(i)
                                /\ i \in Come(step + 1) /\ i \notin Served
      /\ i \in Served => /\ promptRemaining[i] = 0 /\ Floor(i) = 0 /\ Unfinished(i)
                         /\ i \in Come(step)
  BY Apart
<1>7. /\ i \in Come(step) => i \in Come(step + 1)
      /\ i \in Come(step + 1) /\ i \notin Come(step) => specs[i].arrival = step
  BY Comes
<1>8. promptRemaining'[i] \in Floor(i) .. specs[i].prompt
  <2>1. /\ promptRemaining[i] >= Floor(i) /\ promptRemaining[i] <= specs[i].prompt
        /\ i \in InList(Stage) => promptRemaining[i] > Floor(i)
    BY <1>2, <1>3, <1>6 DEF Told
  <2> QED BY <1>1, <1>2, <1>3, <2>1
<1>9. /\ decodeRemaining[i] <= specs[i].decode
      /\ specs[i].decode > 0 => decodeRemaining[i] >= 0
      /\ Unfinished(i) /\ specs[i].decode > 0 => decodeRemaining[i] > 0
      /\ firstTokenStep[i] \in {None} \cup 0 .. step - 1
  BY <1>2 DEF Told
<1>10. /\ decodeRemaining'[i] <= specs[i].decode
       /\ specs[i].decode > 0 => decodeRemaining'[i] >= 0
  BY <1>1, <1>2, <1>3, <1>6, <1>9
<1>11. firstTokenStep'[i] \in {None} \cup 0 .. step
  BY <1>1, <1>2, <1>9
<1>12. completedStep'[i] = None => /\ completedStep[i] = None
                                   /\ ~(i \in Served /\ decodeRemaining[i] = 1)
  BY <1>1, <1>2 DEF None
<1>13. completedStep'[i] = None /\ specs[i].decode > 0 => decodeRemaining'[i] > 0
  <2> SUFFICES ASSUME completedStep'[i] = None, specs[i].decode > 0
               PROVE  decodeRemaining'[i] > 0
    OBVIOUS
  <2>1. decodeRemaining[i] > 0 /\ ~(i \in Served /\ decodeRemaining[i] = 1)
    BY <1>9, <1>12 DEF Unfinished
  <2> QED BY <1>1, <1>2, <2>1
<1> DEFINE had == specs[i].prompt - promptRemaining[i] + specs[i].decode - decodeRemaining[i]
           now == specs[i].prompt - promptRemaining'[i] + specs[i].decode - decodeRemaining'[i]
<1>14. had \in Int /\ now \in Int /\ now <= had + 1
       /\ (i \notin InList(Stage) /\ i \notin Served => now = had)
  BY <1>1, <1>2, <1>3, <1>6
<1>15. /\ i \in Come(step) => had <= step - specs[i].arrival
       /\ i \notin Come(step) => /\ promptRemaining[i] = specs[i].prompt
                                 /\ decodeRemaining[i] = specs[i].decode /\ Unfinished(i)
  BY <1>2 DEF Told, Had
<1>16. i \notin Come(step) => had = 0
  BY <1>3, <1>15
<1> HIDE DEF had
<1>17. i \in Come(step + 1) => now <= step + 1 - specs[i].arrival
  BY <1>2, <1>3, <1>7, <1>14, <1>15, <1>16
<1>18. i \notin Come(step + 1) => /\ promptRemaining'[i] = specs[i].prompt
                                  /\ decodeRemaining'[i] = specs[i].decode
                                  /\ completedStep'[i] = None
  <2> SUFFICES ASSUME i \notin Come(step + 1)
               PROVE  /\ promptRemaining'[i] = specs[i].prompt
                      /\ decodeRemaining'[i] = specs[i].decode /\ completedStep'[i] = None
    OBVIOUS
  <2>1. i \notin Come(step) /\ i \notin InList(Stage) /\ i \notin Served
    BY <1>6, <1>7
  <2> QED BY <1>1, <1>2, <1>15, <2>1 DEF Unfinished
<1>19. ASSUME completedStep'[i] # None
       PROVE  /\ Floor(i) = 0 /\ promptRemaining'[i] = 0 /\ specs[i].decode > 0
              /\ completedStep'[i] \in firstTokenStep'[i] + 1 .. step + 1
              /\ completedStep'[i] - specs[i].arrival >= specs[i].prompt + specs[i].decode
  <2>1. CASE i \in Served /\ decodeRemaining[i] = 1
    <3>1. /\ promptRemaining'[i] = 0 /\ Floor(i) = 0 /\ promptRemaining[i] = 0
          /\ completedStep'[i] = step + 1 /\ i \in Come(step)
      BY <1>1, <1>2, <1>6, <2>1
    <3>2. firstTokenStep'[i] \in Int /\ firstTokenStep'[i] <= step
      BY <1>2, <1>11 DEF None
    <3>3. specs[i].decode > 0
      BY <1>3, <1>9, <2>1
    <3>4. had = specs[i].prompt + specs[i].decode - 1 /\ had <= step - specs[i].arrival
      BY <1>3, <1>15, <2>1, <3>1 DEF had
    <3>5. step + 1 - specs[i].arrival >= specs[i].prompt + specs[i].decode
      BY <1>2, <1>3, <3>4
    <3>6. step + 1 \in firstTokenStep'[i] + 1 .. step + 1
      BY <1>2, <3>2
    <3>7. completedStep'[i] = step + 1 /\ promptRemaining'[i] = 0 /\ Floor(i) = 0
      BY <3>1
    <3>8. completedStep'[i] - specs[i].arrival >= specs[i].prompt + specs[i].decode
      BY <1>2, <1>3, <3>5, <3>7
    <3>9. completedStep'[i] \in firstTokenStep'[i] + 1 .. step + 1
      BY <3>6, <3>7
    <3> QED BY <3>3, <3>7, <3>8, <3>9
  <2>2. CASE ~(i \in Served /\ decodeRemaining[i] = 1)
    <3>1. completedStep'[i] = completedStep[i] /\ ~Unfinished(i)
      BY <1>1, <1>19, <2>2 DEF Unfinished
    <3>2. i \notin Served /\ i \notin InList(Stage)
      BY <1>6, <3>1
    <3>3. promptRemaining'[i] = promptRemaining[i] /\ firstTokenStep'[i] = firstTokenStep[i]
      BY <1>1, <1>2, <3>2
    <3>4. /\ Floor(i) = 0 /\ promptRemaining[i] = 0 /\ specs[i].decode > 0
          /\ completedStep[i] \in firstTokenStep[i] + 1 .. step
          /\ completedStep[i] - specs[i].arrival >= specs[i].prompt + specs[i].decode
      BY <1>2, <3>1 DEF Told, Ideal
    <3>5. completedStep[i] \in firstTokenStep[i] + 1 .. step + 1
      BY <1>2, <3>4
    <3> QED BY <3>1, <3>3, <3>4, <3>5
  <2> QED BY <2>1, <2>2
<1>a. step' = step + 1 /\ specs' = specs
  BY <1>1
<1>b. /\ step \in Nat /\ specs[i].arrival \in Int
      /\ promptRemaining'[i] \in Int /\ decodeRemaining'[i] \in Int
  BY <1>1, <1>2, <1>3
<1>20. firstTokenStep'[i] \in {None} \cup 0 .. step + 1 - 1
  BY <1>2, <1>11
<1>21. (promptRemaining[i] \in Floor(i) .. specs[i].prompt)'
  BY <1>4, <1>8, <1>a
<1>22. (/\ decodeRemaining[i] <= specs[i].decode
        /\ specs[i].decode > 0 => decodeRemaining[i] >= 0
        /\ Unfinished(i) /\ specs[i].decode > 0 => decodeRemaining[i] > 0)'
  BY <1>3, <1>10, <1>13, <1>a, <1>b DEF Unfinished
<1>23. (firstTokenStep[i] \in {None} \cup 0 .. step - 1)'
  BY <1>20, <1>a, <1>b
<1>24. (i \in Come(step) => Had(i) <= step - specs[i].arrival)'
  <2>1. Had(i)' = now
    BY <1>a DEF Had
  <2> HIDE DEF now
  <2> QED BY <1>5, <1>17, <1>a, <1>b, <2>1
<1>25. (i \notin Come(step) => /\ promptRemaining[i] = specs[i].prompt
                              /\ decodeRemaining[i] = specs[i].decode /\ Unfinished(i))'
  BY <1>5, <1>18, <1>a DEF Unfinished
<1>26. (~Unfinished(i) =>
         /\ Floor(i) = 0 /\ promptRemaining[i] = 0 /\ specs[i].decode > 0
         /\ completedStep[i] \in firstTokenStep[i] + 1 .. step
         /\ completedStep[i] - specs[i].arrival >= Ideal(i))'
  <2>1. Ideal(i)' = specs[i].prompt + specs[i].decode
    BY <1>4 DEF Ideal
  <2>2. SUFFICES ASSUME completedStep'[i] # None
                 PROVE  (/\ Floor(i) = 0 /\ promptRemaining[i] = 0 /\ specs[i].decode > 0
                         /\ completedStep[i] \in firstTokenStep[i] + 1 .. step
                         /\ completedStep[i] - specs[i].arrival >= Ideal(i))'
    BY DEF Unfinished
  <2> QED BY <1>4, <1>19, <1>a, <1>b, <2>1, <2>2
<1> QED BY <1>21, <1>22, <1>23, <1>24, <1>25, <1>26 DEF Told

LEMMA OrderedKept ==
  ASSUME IInv, BatchingStep
  PROVE  Ordered'
<1>1. /\ step' = step + 1 /\ specs' = specs /\ capacity' = capacity /\ Ids' = Ids
      /\ \A i \in Ids :
           promptRemaining'[i] = promptRemaining[i] - (IF i \in InList(Stage) THEN 1 ELSE 0)
  BY Counts
<1>2. InOrder' <=> InOrder
  BY <1>1 DEF InOrder, AllProper, Proper, NoOvertaking
<1> SUFFICES ASSUME InOrder
             PROVE  (/\ Rising(waiting) /\ Rising(prefilling) /\ Rising(decoding)
                     /\ Before(InList(decoding), InList(prefilling))
                     /\ Before(InList(decoding), InList(waiting))
                     /\ Before(InList(prefilling), InList(waiting))
                     /\ \A i, j \in Ids : i < j => promptRemaining[i] <= promptRemaining[j])'
  BY <1>2 DEF Ordered
<1>3. (/\ Rising(waiting) /\ Rising(prefilling) /\ Rising(decoding)
       /\ Before(InList(decoding), InList(prefilling))
       /\ Before(InList(decoding), InList(waiting))
       /\ Before(InList(prefilling), InList(waiting)))'
  BY Moves
<1>4. ASSUME NEW i \in Ids, NEW j \in Ids, i < j
      PROVE  promptRemaining'[i] <= promptRemaining'[j]
  <2>1. /\ promptRemaining[i] \in Int /\ promptRemaining[j] \in Int /\ step \in Nat
        /\ Told(i) /\ Told(j) /\ Ordered /\ i \in Nat /\ j \in Nat
    <3>1. Shapes /\ Told(i) /\ Told(j) /\ Ordered
      BY DEF IInv
    <3>2. i \in Nat /\ j \in Nat
      BY <3>1, SpecsTyped
    <3> QED BY <3>1, <3>2 DEF Shapes
  <2>2. promptRemaining[i] <= promptRemaining[j]
    BY <1>4, <2>1 DEF Ordered
  <2>3. /\ promptRemaining'[i] = promptRemaining[i] - (IF i \in InList(Stage) THEN 1 ELSE 0)
        /\ promptRemaining'[j] = promptRemaining[j] - (IF j \in InList(Stage) THEN 1 ELSE 0)
    BY <1>1
  <2>4. CASE j \notin InList(Stage)
    BY <2>1, <2>2, <2>3, <2>4
  <2>5. CASE j \in InList(Stage)
    <3>1. j \in Come(step + 1) /\ promptRemaining[j] > 0
      <4>1. j \in Come(step + 1) /\ promptRemaining[j] > Floor(j)
        BY <2>5, Apart
      <4>2. Floor(j) = 0
        BY SpecsTyped DEF IInv, InOrder, AllProper, Proper
      <4> QED BY <4>1, <4>2
    <3>2. i \in Come(step + 1)
      <4>1. specs[i].arrival <= specs[j].arrival /\ 0 <= specs[i].arrival
        BY <1>4 DEF InOrder, NoOvertaking, AllProper, Proper
      <4>2. specs[i].arrival \in Int /\ specs[j].arrival \in Int /\ specs[j].arrival < step + 1
        BY <3>1, SpecsTyped DEF IInv, Come
      <4>3. specs[i].arrival < step + 1
        BY <2>1, <4>1, <4>2
      <4> QED BY <4>1, <4>3 DEF Come
    <3>3. Floor(i) = 0
      BY SpecsTyped DEF IInv, InOrder, AllProper, Proper
    <3>4. CASE promptRemaining[i] > 0
      <4>1. i \in InList(Left) \cup InList(Stage)
        BY <3>2, <3>3, <3>4, Found DEF ToPrefill
      <4>2. i \notin InList(Left)
        <5>1. Before(InList(Stage), InList(Left))
          BY FoundInOrder
        <5>2. ~(j < i)
          BY <1>4, <2>1
        <5> QED BY <2>5, <5>1, <5>2 DEF Before
      <4> QED BY <2>1, <2>2, <2>3, <2>5, <4>1, <4>2
    <3>5. CASE ~(promptRemaining[i] > 0)
      <4>1. promptRemaining[i] >= Floor(i)
        BY <2>1, <3>3 DEF Told
      <4>2. promptRemaining[i] = 0
        BY <2>1, <3>3, <3>5, <4>1
      <4>3. i \notin InList(Stage)
        BY <3>3, <3>5, Apart
      <4> QED BY <2>1, <2>3, <2>5, <3>1, <4>2, <4>3
    <3> QED BY <3>4, <3>5
  <2> QED BY <2>4, <2>5
<1> QED BY <1>1, <1>3, <1>4

\* No sequence arrives after the last one.
LEMMA LatestArrival ==
  ASSUME Shapes, Ids # {}
  PROVE  LastArrival \in Int /\ \A i \in Ids : specs[i].arrival <= LastArrival
<1> DEFINE A == {specs[i].arrival : i \in Ids}
<1>1. IsFiniteSet(Ids) /\ \A i \in Ids : specs[i].arrival \in Int
  BY SpecsTyped
<1>2. A \in SUBSET Int /\ A # {} /\ \A a \in A : a \in Int
  BY <1>1
<1>3. IsFiniteSet(A)
  <2> DEFINE f == [i \in Ids |-> specs[i].arrival]
  <2>1. f \in Surjection(Ids, A)
    BY DEF Surjection
  <2> HIDE DEF f, A
  <2> QED BY <1>1, <2>1, FS_Surjection
<1>4. LastArrival = Max(A) /\ \A i \in Ids : specs[i].arrival \in A
  BY DEF LastArrival
<1> HIDE DEF A
<1> QED BY <1>2, <1>3, <1>4, GreatestMember

\* Where every sequence is proper its work is a number, and whoever is not done has some.
LEMMA WorkTyped ==
  ASSUME Shapes, \A i \in Ids : Told(i), AllProper, NEW k \in Ids
  PROVE  /\ WorkLeft[k] \in Nat /\ Work[k] \in Nat /\ WorkLeft[k] <= Work[k]
         /\ promptRemaining[k] \in Nat /\ decodeRemaining[k] \in Nat /\ Floor(k) = 0
         /\ Unfinished(k) => decodeRemaining[k] > 0 /\ WorkLeft[k] > 0
         /\ WorkLeft[k] = promptRemaining[k] + decodeRemaining[k] /\ Work[k] = Ideal(k)
<1>1. /\ specs[k].prompt \in Nat /\ specs[k].decode \in Nat /\ specs[k].prompt > 0
      /\ specs[k].decode > 0 /\ Floor(k) = 0
  BY SpecsTyped DEF AllProper, Proper
<1>2. promptRemaining[k] \in Int /\ decodeRemaining[k] \in Int /\ Told(k)
  BY DEF Shapes
<1>3. /\ promptRemaining[k] \in Nat /\ promptRemaining[k] <= specs[k].prompt
      /\ decodeRemaining[k] \in Nat /\ decodeRemaining[k] <= specs[k].decode
      /\ Unfinished(k) => decodeRemaining[k] > 0
  BY <1>1, <1>2 DEF Told
<1>4. WorkLeft[k] = promptRemaining[k] + decodeRemaining[k] /\ Work[k] = Ideal(k)
      /\ Ideal(k) = specs[k].prompt + specs[k].decode
  BY DEF WorkLeft, Work, Ideal
<1> QED BY <1>1, <1>3, <1>4

\* What a step leaves of the work of each sequence.
LEMMA WorkFalls ==
  ASSUME IInv, BatchingStep, AllProper, NEW k \in Ids
  PROVE  /\ WorkLeft'[k] \in Nat
         /\ WorkLeft'[k] = IF k \in InList(Stage) \cup Served THEN WorkLeft[k] - 1 ELSE WorkLeft[k]
<1>1. /\ Ids' = Ids
      /\ promptRemaining'[k] = promptRemaining[k] - (IF k \in InList(Stage) THEN 1 ELSE 0)
      /\ decodeRemaining'[k] = decodeRemaining[k] - (IF k \in Served THEN 1 ELSE 0)
  BY Counts
<1>2. WorkLeft'[k] = promptRemaining'[k] + decodeRemaining'[k]
  BY <1>1 DEF WorkLeft
<1>3. /\ promptRemaining[k] \in Nat /\ decodeRemaining[k] \in Nat /\ Floor(k) = 0
      /\ Unfinished(k) => decodeRemaining[k] > 0
      /\ WorkLeft[k] = promptRemaining[k] + decodeRemaining[k]
  BY WorkTyped DEF IInv
<1>4. /\ k \in InList(Stage) => promptRemaining[k] > 0 /\ k \notin Served
      /\ k \in Served => decodeRemaining[k] > 0
  BY <1>3, Apart
<1>5. CASE k \in InList(Stage)
  BY <1>1, <1>2, <1>3, <1>4, <1>5
<1>6. CASE k \in Served
  BY <1>1, <1>2, <1>3, <1>4, <1>6
<1>7. CASE k \notin InList(Stage) /\ k \notin Served
  BY <1>1, <1>2, <1>3, <1>7
<1> QED BY <1>5, <1>6, <1>7

\* A step prefills or decodes someone, if anyone who came is not done.
LEMMA SomeoneMoves ==
  ASSUME IInv, AllProper, NEW i \in Come(step + 1), Unfinished(i)
  PROVE  \E k \in Ids : k \in InList(Stage) \cup Served
<1>1. /\ Shapes /\ Lists /\ i \in Ids /\ promptRemaining[i] \in Nat /\ Floor(i) = 0
      /\ decoding \in Seq(Ids)
  BY WorkTyped DEF IInv, Shapes, Come
<1>2. capacity[1] \in Nat \ {0} /\ capacity[2] \in Nat \ {0}
  BY <1>1, SpecsTyped
<1>3. CASE promptRemaining[i] > 0
  <2>1. i \in InList(Left) \cup InList(Stage)
    BY <1>1, <1>3, Found DEF ToPrefill
  <2>2. CASE i \in InList(Stage)
    BY <1>1, <2>2
  <2>3. CASE i \in InList(Left)
    <3>1. Left # <<>>
      <4>1. Left \in Seq(Ids)
        BY Found
      <4>2. InList(Left) = {Left[k] : k \in 1 .. Len(Left)} /\ Len(Left) \in Nat
        BY <4>1, ListTyped
      <4>3. Len(Left) # 0
        BY <2>3, <4>2
      <4> QED BY <4>1, <4>3, ListTyped
    <3>2. Stage \in Seq(Ids) /\ Len(Stage) = capacity[1]
      BY <3>1, Found
    <3>3. /\ InList(Stage) = {Stage[k] : k \in 1 .. Len(Stage)} /\ InList(Stage) \subseteq Ids
      BY <3>2, ListTyped
    <3>4. 1 \in 1 .. Len(Stage)
      BY <1>2, <3>2
    <3> QED BY <3>3, <3>4
  <2> QED BY <2>1, <2>2, <2>3
<1>4. CASE ~(promptRemaining[i] > 0)
  <2>1. promptRemaining[i] = 0
    BY <1>1, <1>4
  <2>2. i \in ToDecode(step + 1)
    BY <1>1, <2>1 DEF ToDecode
  <2>3. i \in InList(decoding)
    BY <1>1, <2>2, Comes DEF Lists
  <2>4. InList(decoding) = {decoding[k] : k \in 1 .. Len(decoding)} /\ Len(decoding) \in Nat
    BY <1>1, ListTyped
  <2>5. 1 \in 1 .. Len(decoding) /\ 1 <= capacity[2]
    BY <1>2, <2>3, <2>4
  <2>6. decoding[1] \in Served /\ Served \subseteq Ids
    BY <2>5, Found
  <2> QED BY <2>6
<1> QED BY <1>3, <1>4

LEMMA OnTimeKept ==
  ASSUME IInv, BatchingStep
  PROVE  OnTime'
<1>1. /\ step' = step + 1 /\ specs' = specs /\ Ids' = Ids /\ \E i \in Ids : Unfinished(i)
  BY Counts DEF BatchingStep
<1>2. Shapes /\ step \in Nat /\ IsFiniteSet(Ids) /\ \A i \in Ids : specs[i].arrival \in Int
  BY SpecsTyped DEF IInv, Shapes
<1>3. LastArrival' = LastArrival /\ (AllProper' <=> AllProper) /\ Work' = Work
  <2>1. LastArrival' = LastArrival
    BY <1>1 DEF LastArrival, Max
  <2>2. AllProper' <=> AllProper
    BY <1>1 DEF AllProper, Proper
  <2>3. Work' = Work
    BY <1>1 DEF Work, Ideal
  <2> QED BY <2>1, <2>2, <2>3
<1>4. Total(WorkLeft, Ids)' = Total(WorkLeft', Ids) /\ Total(Work, Ids)' = Total(Work, Ids)
  BY <1>1, <1>3 DEF Total, MapThenSumSet, MapThenFoldSet
<1>5. Ids # {} => LastArrival \in Int /\ \A i \in Ids : specs[i].arrival <= LastArrival
  BY <1>2, LatestArrival
<1>6. SUFFICES ASSUME AllProper, Ids # {}, step + 1 >= LastArrival
               PROVE  step + 1 - LastArrival + Total(WorkLeft', Ids) <= Total(Work, Ids)
  <2> SUFFICES ASSUME AllProper', Ids' # {}, (step >= LastArrival)'
               PROVE  (step - LastArrival + Total(WorkLeft, Ids) <= Total(Work, Ids))'
    BY DEF OnTime
  <2>1. AllProper /\ Ids # {} /\ step + 1 >= LastArrival
    BY <1>1, <1>3
  <2>2. step + 1 - LastArrival + Total(WorkLeft', Ids) <= Total(Work, Ids)
    BY <1>6, <2>1
  <2>3. step' - LastArrival' = step + 1 - LastArrival
    <3>1. LastArrival \in Int /\ step \in Int
      BY <1>2, <1>5, <2>1
    <3>2. step' = step + 1 /\ LastArrival' = LastArrival
      BY <1>1, <1>3
    <3> QED BY <3>1, <3>2
  <2> QED BY <1>4, <2>2, <2>3
<1>7. \A k \in Ids : /\ WorkLeft[k] \in Nat /\ WorkLeft'[k] \in Nat /\ Work[k] \in Nat
                     /\ WorkLeft'[k] <= WorkLeft[k] /\ WorkLeft'[k] <= Work[k]
                     /\ k \in InList(Stage) \cup Served => WorkLeft'[k] < WorkLeft[k]
  <2> SUFFICES ASSUME NEW k \in Ids
               PROVE  /\ WorkLeft[k] \in Nat /\ WorkLeft'[k] \in Nat /\ Work[k] \in Nat
                      /\ WorkLeft'[k] <= WorkLeft[k] /\ WorkLeft'[k] <= Work[k]
                      /\ k \in InList(Stage) \cup Served => WorkLeft'[k] < WorkLeft[k]
    OBVIOUS
  <2>1. WorkLeft[k] \in Nat /\ Work[k] \in Nat /\ WorkLeft[k] <= Work[k]
    BY <1>6, WorkTyped DEF IInv
  <2>2. /\ WorkLeft'[k] \in Nat
        /\ WorkLeft'[k] = IF k \in InList(Stage) \cup Served THEN WorkLeft[k] - 1 ELSE WorkLeft[k]
    BY <1>6, WorkFalls
  <2> QED BY <2>1, <2>2
<1> DEFINE left == WorkLeft'
           someone == \E k \in Ids : k \in InList(Stage) \cup Served
<1>8. /\ Total(left, Ids) \in Nat /\ Total(WorkLeft, Ids) \in Nat /\ Total(Work, Ids) \in Nat
      /\ Total(left, Ids) <= Total(Work, Ids)
      /\ someone => Total(left, Ids) < Total(WorkLeft, Ids)
  <2>1. /\ \A k \in Ids : /\ WorkLeft[k] \in Nat /\ left[k] \in Nat /\ Work[k] \in Nat
                          /\ left[k] <= WorkLeft[k] /\ left[k] <= Work[k]
        /\ someone => \E k \in Ids : left[k] < WorkLeft[k]
    BY <1>7
  <2> HIDE DEF left, someone
  <2> QED BY <1>2, <2>1, TotalMonotone
<1>9. CASE step >= LastArrival
  <2>1. someone
    <3>1. PICK i \in Ids : Unfinished(i)
      BY <1>1
    <3>2. specs[i].arrival < step + 1
      BY <1>2, <1>5, <1>6, <1>9
    <3>3. i \in Come(step + 1)
      BY <1>6, <3>2 DEF Come, AllProper, Proper
    <3> QED BY <1>6, <3>1, <3>3, SomeoneMoves
  <2>2. step - LastArrival + Total(WorkLeft, Ids) <= Total(Work, Ids)
    BY <1>6, <1>9 DEF IInv, OnTime
  <2> HIDE DEF left, someone
  <2>3. LastArrival \in Int
    BY <1>5, <1>6
  <2>4. step + 1 - LastArrival + Total(left, Ids) <= Total(Work, Ids)
    BY <1>2, <1>8, <2>1, <2>2, <2>3
  <2> QED BY <2>4 DEF left
<1>10. CASE step < LastArrival
  <2>1. step + 1 - LastArrival = 0
    BY <1>2, <1>5, <1>6, <1>10
  <2> HIDE DEF left
  <2>2. step + 1 - LastArrival + Total(left, Ids) <= Total(Work, Ids)
    BY <1>8, <2>1
  <2> QED BY <2>2 DEF left
<1> QED BY <1>2, <1>5, <1>6, <1>9, <1>10

-----------------------------------------------------------------------------
(* The static cohorts *)

\* A quotient is the one number its bounds allow.
LEMMA QuotientIs ==
  ASSUME NEW a \in Nat, NEW c \in Nat \ {0}, NEW q \in Nat, c * q <= a, a < c * q + c
  PROVE  a \div c = q
<1> DEFINE m == a \div c
<1>1. m \in Nat /\ c * m <= a /\ a < c * m + c
  BY QuotientBounds
<1> HIDE DEF m
<1>2. c * m \in Int /\ c * q \in Int /\ c * (m + 1) = c * m + c /\ c * (q + 1) = c * q + c
  BY <1>1
<1>3. ~(m < q)
  <2> SUFFICES ASSUME m + 1 <= q PROVE FALSE
    BY <1>1
  <2>1. c * (m + 1) <= c * q
    BY <1>1
  <2> QED BY <1>1, <1>2, <2>1
<1>4. ~(q < m)
  <2> SUFFICES ASSUME q + 1 <= m PROVE FALSE
    BY <1>1
  <2>1. c * (q + 1) <= c * m
    BY <1>1
  <2> QED BY <1>1, <1>2, <2>1
<1> QED BY <1>1, <1>3, <1>4 DEF m

\* The first of a cohort.
FirstOfCohort(i) == capacity[2] * ((i - 1) \div capacity[2]) + 1

\* Where the cohorts begin and end.
LEMMA CohortPlaces ==
  ASSUME Shapes, NEW i \in Ids
  PROVE  /\ Cohorts \in Nat /\ CohortOf(i) \in 1 .. Cohorts /\ i \in Cohort(CohortOf(i))
         /\ FirstOfCohort(i) \in Nat /\ i <= FirstOfCohort(i) + capacity[2] - 1
         /\ \A j \in Ids : j < FirstOfCohort(i) => CohortOf(j) < CohortOf(i)
<1> DEFINE c == capacity[2]
           n == Len(specs)
           q == (i - 1) \div c
           all == (n + c - 1) \div c
<1>1. c \in Nat \ {0} /\ n \in Nat /\ Ids = 1 .. n
  BY SpecsTyped
<1>2. i - 1 \in Nat /\ n + c - 1 \in Nat /\ i <= n
  BY <1>1
<1>3. q \in Nat /\ c * q <= i - 1 /\ i - 1 < c * q + c
  BY <1>1, <1>2, QuotientBounds
<1>4. all \in Nat /\ c * all <= n + c - 1 /\ n + c - 1 < c * all + c
  BY <1>1, <1>2, QuotientBounds
<1>5. Cohorts = all /\ CohortOf(i) = q + 1 /\ FirstOfCohort(i) = c * q + 1
  BY DEF Cohorts, CohortOf, FirstOfCohort
<1>6. ASSUME NEW j \in Ids, j < c * q + 1 PROVE CohortOf(j) < q + 1
  <2> DEFINE m == (j - 1) \div c
  <2>1. j - 1 \in Nat /\ j \in Nat
    BY <1>1
  <2>2. m \in Nat /\ c * m <= j - 1
    BY <1>1, <2>1, QuotientBounds
  <2>3. CohortOf(j) = m + 1
    BY DEF CohortOf
  <2> HIDE DEF c, q, m
  <2>4. ~(q <= m)
    <3> SUFFICES ASSUME q <= m PROVE FALSE
      OBVIOUS
    <3>1. c * q <= c * m /\ c * q \in Int /\ c * m \in Int
      BY <1>1, <1>3, <2>2
    <3>2. j <= c * q
      BY <1>6, <2>1, <3>1
    <3>3. c * m <= j - 1
      BY <2>2
    <3> QED BY <2>1, <3>1, <3>2, <3>3
  <2> QED BY <1>3, <2>2, <2>3, <2>4
<1>7. i \in Cohort(CohortOf(i))
  <2>1. CohortOf(i) - 1 = q
    BY <1>3, <1>5
  <2> QED BY <2>1 DEF Cohort
<1> HIDE DEF c, n, q, all
<1>8. q + 1 <= all
  <2> SUFFICES ASSUME all <= q PROVE FALSE
    BY <1>3, <1>4
  <2>1. c * all <= c * q /\ c * q \in Int /\ c * all \in Int
    BY <1>1, <1>3, <1>4
  <2> QED BY <1>1, <1>2, <1>3, <1>4, <2>1
<1>9. c * q \in Nat
  BY <1>1, <1>3
<1>10. i <= c * q + 1 + c - 1 /\ c * q + 1 \in Nat /\ q + 1 \in 1 .. all
  BY <1>1, <1>2, <1>3, <1>4, <1>8, <1>9
<1> QED BY <1>4, <1>5, <1>6, <1>7, <1>10 DEF c

\* No cohort is empty.
LEMMA CohortMembers ==
  ASSUME Shapes, NEW k \in 1 .. Cohorts
  PROVE  /\ Cohorts \in Nat /\ Cohort(k) # {} /\ IsFiniteSet(Cohort(k)) /\ Cohort(k) \subseteq Ids
<1> DEFINE c == capacity[2]
           n == Len(specs)
           all == (n + c - 1) \div c
<1>1. c \in Nat \ {0} /\ n \in Nat /\ Ids = 1 .. n /\ IsFiniteSet(Ids)
  BY SpecsTyped
<1>2. n + c - 1 \in Nat
  BY <1>1
<1>3. all \in Nat /\ c * all <= n + c - 1
  BY <1>1, <1>2, QuotientBounds
<1>4. Cohorts = all
  BY DEF Cohorts
<1>5. Cohort(k) = {i \in Ids : (i - 1) \div c = k - 1}
  BY DEF Cohort
<1> HIDE DEF c, n, all
<1>6. k \in Nat /\ k - 1 \in Nat /\ k <= all
  BY <1>3, <1>4
<1> DEFINE p == k - 1
           f == c * p
<1>7. f \in Nat /\ f + c <= n + c - 1
  <2>1. c * k <= c * all /\ c * k \in Int /\ c * all \in Int
    BY <1>1, <1>3, <1>6
  <2>2. c * k = c * (k - 1) + c
    BY <1>1, <1>6
  <2>3. c * (k - 1) \in Nat
    BY <1>1, <1>6
  <2> QED BY <1>1, <1>3, <2>1, <2>2, <2>3
<1>8. f \div c = p
  <2>1. p \in Nat /\ c * p <= f /\ f < c * p + c
    BY <1>1, <1>6, <1>7
  <2> HIDE DEF p
  <2>2. f \in Nat
    BY <1>7
  <2> HIDE DEF f
  <2> QED BY <1>1, <2>1, <2>2, QuotientIs
<1>9. f + 1 \in Ids /\ (f + 1) - 1 = f
  BY <1>1, <1>7
<1> HIDE DEF f
<1>10. f + 1 \in Cohort(k)
  BY <1>5, <1>8, <1>9
<1>11. IsFiniteSet(Cohort(k)) /\ Cohort(k) \subseteq Ids
  BY <1>1, <1>5, FS_Subset
<1> QED BY <1>3, <1>4, <1>10, <1>11

\* When a cohort ends that may start when the one before it is done.
EndOf(k, before) == CohortStart(k, before) + Max({Ideal(i) : i \in Cohort(k)})

\* The ends are one after the other what the recursion says.
LEMMA EndsRecur ==
  ASSUME Cohorts \in Nat
  PROVE  CohortEnd = [k \in 0 .. Cohorts |-> IF k = 0 THEN 0 ELSE EndOf(k, CohortEnd[k - 1])]
<1> DEFINE Recurs(n, f) == f = [k \in 0 .. n |-> IF k = 0 THEN 0 ELSE EndOf(k, f[k - 1])]
           wrong == {n \in Nat : ~\E f : Recurs(n, f)}
<1>1. wrong = {}
  <2> SUFFICES ASSUME wrong # {} PROVE FALSE
    OBVIOUS
  <2>1. PICK n \in wrong : \A m \in wrong : n <= m
    <3>1. wrong \in SUBSET Nat
      OBVIOUS
    <3> HIDE DEF wrong
    <3> QED BY <3>1, LeastNumber
  <2>2. n \in Nat /\ ~\E f : Recurs(n, f)
    BY <2>1
  <2>3. CASE n = 0
    <3> DEFINE zero == [k \in 0 .. 0 |-> 0]
    <3>1. zero = [k \in 0 .. 0 |-> IF k = 0 THEN 0 ELSE EndOf(k, zero[k - 1])]
      <4>1. \A k \in 0 .. 0 : k = 0
        OBVIOUS
      <4> QED BY <4>1
    <3>2. Recurs(0, zero)
      BY <3>1
    <3> QED BY <2>2, <2>3, <3>2
  <2>4. CASE n # 0
    <3>1. n - 1 \in Nat /\ n - 1 < n
      BY <2>2, <2>4
    <3>2. n - 1 \notin wrong
      BY <2>1, <2>2, <3>1
    <3>3. PICK f : Recurs(n - 1, f)
      BY <3>1, <3>2
    <3>4. f = [k \in 0 .. n - 1 |-> IF k = 0 THEN 0 ELSE EndOf(k, f[k - 1])]
      BY <3>3
    <3> DEFINE g == [k \in 0 .. n |-> IF k = n THEN EndOf(n, f[n - 1]) ELSE f[k]]
    <3>5. ASSUME NEW k \in 0 .. n PROVE g[k] = IF k = 0 THEN 0 ELSE EndOf(k, g[k - 1])
      <4>1. CASE k = n
        <5>1. g[k] = EndOf(n, f[n - 1]) /\ k # 0
          BY <2>4, <4>1
        <5>2. g[n - 1] = f[n - 1]
          BY <2>2, <3>1
        <5> QED BY <4>1, <5>1, <5>2
      <4>2. CASE k # n
        <5>1. k \in 0 .. n - 1 /\ g[k] = f[k]
          BY <2>2, <4>2
        <5>2. f[k] = IF k = 0 THEN 0 ELSE EndOf(k, f[k - 1])
          BY <3>4, <5>1
        <5>3. k # 0 => g[k - 1] = f[k - 1]
          <6>1. k # 0 => k - 1 \in 0 .. n /\ k - 1 # n
            BY <2>2, <5>1
          <6> QED BY <6>1
        <5> QED BY <5>1, <5>2, <5>3
      <4> QED BY <4>1, <4>2
    <3>6. g = [k \in 0 .. n |-> g[k]]
      OBVIOUS
    <3> HIDE DEF g
    <3>7. g = [k \in 0 .. n |-> IF k = 0 THEN 0 ELSE EndOf(k, g[k - 1])]
      BY <3>5, <3>6
    <3>8. Recurs(n, g)
      BY <3>7
    <3> QED BY <2>2, <3>8
  <2> QED BY <2>3, <2>4
<1> DEFINE Fits(f) == Recurs(Cohorts, f)
<1>2. \E f : Fits(f)
  BY <1>1
<1>3. CohortEnd = CHOOSE f : Fits(f)
  BY DEF CohortEnd, EndOf
<1> HIDE DEF Fits
<1>4. Fits(CohortEnd)
  BY <1>2, <1>3
<1> QED BY <1>4 DEF Fits

\* A cohort starts after the one before and after its members come, and ends no
\* earlier than any of its members would alone.
LEMMA CohortLasts ==
  ASSUME Shapes, AllProper, NEW k \in 1 .. Cohorts, NEW before \in Nat
  PROVE  /\ CohortStart(k, before) \in Nat /\ before <= CohortStart(k, before)
         /\ EndOf(k, before) \in Nat
         /\ \A i \in Cohort(k) : /\ specs[i].arrival <= CohortStart(k, before)
                                 /\ CohortStart(k, before) + Ideal(i) <= EndOf(k, before)
<1> DEFINE A == {specs[i].arrival : i \in Cohort(k)}
           B == {before} \cup A
           C == {Ideal(i) : i \in Cohort(k)}
<1>1. /\ Cohort(k) # {} /\ IsFiniteSet(Cohort(k))
      /\ \A i \in Cohort(k) : specs[i].arrival \in Nat /\ Ideal(i) \in Nat
  <2>1. Cohort(k) # {} /\ IsFiniteSet(Cohort(k)) /\ Cohort(k) \subseteq Ids
    BY CohortMembers
  <2>2. \A i \in Ids : specs[i].arrival \in Int /\ Ideal(i) \in Nat /\ specs[i].arrival >= 0
    BY SpecsTyped DEF AllProper, Proper
  <2> QED BY <2>1, <2>2
<1>2. IsFiniteSet(A) /\ IsFiniteSet(C)
  <2> DEFINE f == [i \in Cohort(k) |-> specs[i].arrival]
             g == [i \in Cohort(k) |-> Ideal(i)]
  <2>1. f \in Surjection(Cohort(k), A) /\ g \in Surjection(Cohort(k), C)
    BY DEF Surjection
  <2> HIDE DEF f, g, A, C
  <2> QED BY <1>1, <2>1, FS_Surjection
<1>3. B \in SUBSET Int /\ B # {} /\ before \in B /\ B \in SUBSET Nat
      /\ (\A i \in Cohort(k) : specs[i].arrival \in B)
  BY <1>1
<1>4. C \in SUBSET Int /\ C \in SUBSET Nat /\ C # {} /\ (\A i \in Cohort(k) : Ideal(i) \in C)
  BY <1>1
<1>5. IsFiniteSet(B)
  <2> HIDE DEF A
  <2>1. IsFiniteSet({before})
    BY FS_Singleton
  <2> QED BY <1>2, <2>1, FS_Union
<1>6. CohortStart(k, before) = Max(B) /\ EndOf(k, before) = Max(B) + Max(C)
  BY DEF CohortStart, EndOf
<1> HIDE DEF B, C
<1>7. Max(B) \in B /\ \A x \in B : x <= Max(B)
  BY <1>3, <1>5, GreatestMember
<1>8. Max(C) \in C /\ \A x \in C : x <= Max(C)
  BY <1>2, <1>4, GreatestMember
<1>9. Max(B) \in Nat /\ Max(C) \in Nat
  BY <1>3, <1>4, <1>7, <1>8
<1>10. \A i \in Cohort(k) : Ideal(i) <= Max(C) /\ Ideal(i) \in Nat
  BY <1>1, <1>4, <1>8
<1>11. \A i \in Cohort(k) : Max(B) + Ideal(i) <= Max(B) + Max(C)
  BY <1>9, <1>10
<1>12. before <= Max(B) /\ \A i \in Cohort(k) : specs[i].arrival <= Max(B)
  BY <1>3, <1>7
<1> HIDE DEF A
<1>13. CohortStart(k, before) \in Nat /\ EndOf(k, before) \in Nat
  BY <1>6, <1>9
<1> QED BY <1>6, <1>11, <1>12, <1>13

\* The ends of all cohorts.
LEMMA CohortEnds ==
  ASSUME Shapes, AllProper, Cohorts \in Nat
  PROVE  /\ CohortEnd[0] = 0 /\ \A k \in 0 .. Cohorts : CohortEnd[k] \in Nat
         /\ \A k \in 1 .. Cohorts :
              /\ StartOf(k) \in Nat /\ CohortEnd[k - 1] <= StartOf(k)
              /\ CohortEnd[k - 1] <= CohortEnd[k]
              /\ \A i \in Cohort(k) : /\ specs[i].arrival <= StartOf(k)
                                      /\ StartOf(k) + Ideal(i) <= CohortEnd[k]
<1>1. /\ CohortEnd[0] = 0
      /\ \A k \in 1 .. Cohorts : CohortEnd[k] = EndOf(k, CohortEnd[k - 1])
  <2>1. CohortEnd = [k \in 0 .. Cohorts |-> IF k = 0 THEN 0 ELSE EndOf(k, CohortEnd[k - 1])]
    BY EndsRecur
  <2>2. \A k \in 0 .. Cohorts :
          CohortEnd[k] = IF k = 0 THEN 0 ELSE EndOf(k, CohortEnd[k - 1])
    <3> DEFINE e(k) == IF k = 0 THEN 0 ELSE EndOf(k, CohortEnd[k - 1])
    <3>1. CohortEnd = [k \in 0 .. Cohorts |-> e(k)]
      BY <2>1
    <3> HIDE DEF e
    <3>2. \A k \in 0 .. Cohorts : CohortEnd[k] = e(k)
      BY <3>1
    <3> QED BY <3>2 DEF e
  <2>3. 0 \in 0 .. Cohorts /\ \A k \in 1 .. Cohorts : k \in 0 .. Cohorts /\ k # 0
    OBVIOUS
  <2> QED BY <2>2, <2>3
<1> DEFINE wrong == {k \in 0 .. Cohorts : CohortEnd[k] \notin Nat}
<1>2. wrong = {}
  <2> SUFFICES ASSUME wrong # {} PROVE FALSE
    OBVIOUS
  <2>1. PICK k \in wrong : \A m \in wrong : k <= m
    <3>1. wrong \in SUBSET Nat
      OBVIOUS
    <3> HIDE DEF wrong
    <3> QED BY <3>1, LeastNumber
  <2>2. k \in 0 .. Cohorts /\ k # 0 /\ CohortEnd[k] \notin Nat
    BY <1>1, <2>1
  <2>3. k \in 1 .. Cohorts /\ k - 1 \in 0 .. Cohorts /\ ~(k <= k - 1)
    BY <2>2
  <2>4. CohortEnd[k - 1] \in Nat
    BY <2>1, <2>3
  <2>5. EndOf(k, CohortEnd[k - 1]) \in Nat
    BY <2>3, <2>4, CohortLasts
  <2> QED BY <1>1, <2>2, <2>3, <2>5
<1>3. \A k \in 0 .. Cohorts : CohortEnd[k] \in Nat
  BY <1>2
<1>4. ASSUME NEW k \in 1 .. Cohorts
      PROVE  /\ StartOf(k) \in Nat /\ CohortEnd[k - 1] <= StartOf(k)
             /\ CohortEnd[k - 1] <= CohortEnd[k]
             /\ \A i \in Cohort(k) : /\ specs[i].arrival <= StartOf(k)
                                     /\ StartOf(k) + Ideal(i) <= CohortEnd[k]
  <2> DEFINE before == CohortEnd[k - 1]
  <2>1. before \in Nat
    <3>1. k - 1 \in 0 .. Cohorts
      OBVIOUS
    <3> QED BY <1>3, <3>1
  <2>2. StartOf(k) = CohortStart(k, before) /\ CohortEnd[k] = EndOf(k, before)
    BY <1>1 DEF StartOf
  <2> HIDE DEF before
  <2>3. /\ CohortStart(k, before) \in Nat /\ before <= CohortStart(k, before)
        /\ EndOf(k, before) \in Nat
        /\ \A i \in Cohort(k) : /\ specs[i].arrival <= CohortStart(k, before)
                                /\ CohortStart(k, before) + Ideal(i) <= EndOf(k, before)
    BY <2>1, CohortLasts
  <2>4. before <= EndOf(k, before)
    <3>1. PICK i \in Cohort(k) : Ideal(i) \in Nat
      <4>1. Cohort(k) # {} /\ Cohort(k) \subseteq Ids
        BY CohortMembers
      <4> QED BY <4>1, SpecsTyped
    <3> QED BY <2>1, <2>3, <3>1
  <2> QED BY <2>2, <2>3, <2>4 DEF before
<1> QED BY <1>1, <1>3, <1>4

\* A later cohort ends later.
LEMMA EndsRise ==
  ASSUME Shapes, AllProper, Cohorts \in Nat, NEW m \in 0 .. Cohorts
  PROVE  \A n \in m .. Cohorts : CohortEnd[m] <= CohortEnd[n]
<1> DEFINE wrong == {n \in m .. Cohorts : ~(CohortEnd[m] <= CohortEnd[n])}
<1> SUFFICES ASSUME wrong # {} PROVE FALSE
  OBVIOUS
<1>1. /\ \A k \in 0 .. Cohorts : CohortEnd[k] \in Nat
      /\ \A k \in 1 .. Cohorts : CohortEnd[k - 1] <= CohortEnd[k]
  BY CohortEnds
<1>2. PICK n \in wrong : \A k \in wrong : n <= k
  <2>1. wrong \in SUBSET Nat
    OBVIOUS
  <2> HIDE DEF wrong
  <2> QED BY <2>1, LeastNumber
<1>3. n \in m .. Cohorts /\ ~(CohortEnd[m] <= CohortEnd[n])
  BY <1>2
<1>4. n # m
  BY <1>1, <1>3
<1>5. n - 1 \in m .. Cohorts /\ n \in 1 .. Cohorts /\ ~(n <= n - 1) /\ n - 1 \in 0 .. Cohorts
      /\ n \in 0 .. Cohorts
  BY <1>3, <1>4
<1>6. CohortEnd[m] <= CohortEnd[n - 1]
  BY <1>2, <1>5
<1>7. CohortEnd[n - 1] <= CohortEnd[n]
  BY <1>1, <1>5
<1>8. CohortEnd[m] \in Nat /\ CohortEnd[n - 1] \in Nat /\ CohortEnd[n] \in Nat
  BY <1>1, <1>5
<1> QED BY <1>3, <1>6, <1>7, <1>8

-----------------------------------------------------------------------------
(* Keeping up with the cohorts *)

\* When its cohort may start, all earlier ones are done.
LEMMA EarlierDone ==
  ASSUME IInv, InOrder, NEW i \in Ids, NEW j \in Ids, CohortOf(j) < CohortOf(i),
         step >= StartOf(CohortOf(i))
  PROVE  ~Unfinished(j)
<1> DEFINE m == CohortOf(j)
           k == CohortOf(i)
<1>1. Shapes /\ AllProper /\ step \in Nat
  BY DEF IInv, Shapes, InOrder
<1>2. Cohorts \in Nat /\ m \in 1 .. Cohorts /\ k \in 1 .. Cohorts /\ j \in Cohort(m)
  BY <1>1, CohortPlaces
<1>3. Ideal(j) \in Nat
  BY <1>1, SpecsTyped
<1> SUFFICES ASSUME Unfinished(j) PROVE FALSE
  OBVIOUS
<1>4. WorkLeft[j] \in Nat /\ WorkLeft[j] > 0
  BY <1>1, WorkTyped DEF IInv
<1>5. InOrder /\ KeepsUp
  BY DEF IInv
<1>6. step >= StartOf(m) => WorkLeft[j] + step <= StartOf(m) + Ideal(j)
  BY <1>5 DEF KeepsUp
<1> HIDE DEF m, k
<1>7. m \in 0 .. Cohorts /\ k - 1 \in m .. Cohorts /\ k - 1 \in 0 .. Cohorts
  BY <1>2 DEF m, k
<1>8. /\ StartOf(m) \in Nat /\ StartOf(m) + Ideal(j) <= CohortEnd[m]
      /\ StartOf(k) \in Nat /\ CohortEnd[k - 1] <= StartOf(k)
      /\ CohortEnd[m] \in Nat /\ CohortEnd[k - 1] \in Nat
  BY <1>1, <1>2, <1>7, CohortEnds
<1>9. CohortEnd[m] <= CohortEnd[k - 1]
  BY <1>1, <1>2, <1>7, EndsRise
<1>10. step >= StartOf(k)
  BY DEF k
<1> QED BY <1>1, <1>3, <1>4, <1>6, <1>8, <1>9, <1>10

\* Then each of its members that is not done is prefilled or decoded in every step.
LEMMA InTurn ==
  ASSUME IInv, InOrder, NEW i \in Ids, Unfinished(i), step >= StartOf(CohortOf(i))
  PROVE  i \in InList(Stage) \cup Served
<1> DEFINE a == FirstOfCohort(i)
<1>1. /\ Shapes /\ Lists /\ Ordered /\ AllProper /\ step \in Nat
      /\ capacity[1] \in Nat /\ capacity[2] \in Nat /\ capacity[1] >= capacity[2]
      /\ prefilling \in Seq(Ids) /\ decoding \in Seq(Ids)
      /\ Ids = 1 .. Len(specs) /\ Len(specs) \in Nat
  BY SpecsTyped DEF IInv, Shapes, InOrder
<1>2. /\ Cohorts \in Nat /\ CohortOf(i) \in 1 .. Cohorts /\ i \in Cohort(CohortOf(i))
      /\ a \in Nat /\ i <= a + capacity[2] - 1
      /\ \A j \in Ids : j < a => CohortOf(j) < CohortOf(i)
  BY <1>1, CohortPlaces
<1>3. \A j \in Ids : Unfinished(j) => j >= a
  <2>1. \A j \in Ids : j < a => ~Unfinished(j)
    BY <1>2, EarlierDone
  <2>2. \A j \in Ids : j \in Nat
    BY <1>1
  <2> QED BY <1>2, <2>1, <2>2
<1> HIDE DEF a
<1>4. i \in Come(step + 1)
  <2>1. specs[i].arrival <= StartOf(CohortOf(i)) /\ StartOf(CohortOf(i)) \in Nat
    BY <1>1, <1>2, CohortEnds
  <2>2. specs[i].arrival \in Int /\ 0 <= specs[i].arrival
    BY <1>1, SpecsTyped DEF AllProper, Proper
  <2>3. specs[i].arrival < step + 1
    BY <1>1, <2>1, <2>2
  <2> QED BY <2>2, <2>3 DEF Come
<1>5. \A j \in Ids : promptRemaining[j] \in Nat /\ Floor(j) = 0
  BY <1>1, WorkTyped DEF IInv
<1>6. CASE promptRemaining[i] > 0
  <2>1. /\ Queue \in Seq(Ids)
        /\ InList(prefilling) \cup InList(Queue) = ToPrefill(step + 1)
    BY Queued
  <2>2. i \in InList(prefilling) \cup InList(Queue)
    BY <1>4, <1>5, <1>6, <2>1 DEF ToPrefill
  <2>3. CASE i \in InList(prefilling)
    BY <2>3, Found
  <2>4. CASE i \in InList(Queue)
    <3>1. PICK p \in 1 .. Len(Queue) : Queue[p] = i
      BY <2>1, <2>4, ListTyped
    <3> DEFINE whole == prefilling \o Queue
    <3>2. /\ whole \in Seq(Ids) /\ Len(whole) = Len(prefilling) + Len(Queue)
          /\ InList(whole) = ToPrefill(step + 1) /\ Rising(whole)
      <4>1. /\ Rising(prefilling) /\ Rising(Queue)
            /\ \A x \in InList(prefilling), y \in InList(Queue) : x < y
        BY <1>1, FoundInOrder DEF Ordered, Before
      <4> QED BY <1>1, <2>1, <4>1, ConcatLists
    <3>3. /\ Len(prefilling) \in Nat /\ Len(Queue) \in Nat
          /\ whole[Len(prefilling) + p] = i /\ Len(prefilling) + p \in 1 .. Len(whole)
      <4>1. Len(prefilling) \in Nat /\ Len(Queue) \in Nat
        BY <1>1, <2>1, ListTyped
      <4>2. Len(prefilling) + p \in 1 .. Len(prefilling) + Len(Queue)
        BY <4>1
      <4>3. whole[Len(prefilling) + p] = Queue[p]
        BY <1>1, <2>1, <4>1, <4>2, ConcatProperties
      <4> QED BY <3>1, <3>2, <4>1, <4>2, <4>3
    <3> HIDE DEF whole
    <3>4. \A x \in InList(whole) : x >= a
      <4>1. \A x \in ToPrefill(step + 1) : x \in Ids /\ promptRemaining[x] > 0
        BY <1>5 DEF ToPrefill, Come
      <4>2. \A x \in Ids : promptRemaining[x] > 0 => Unfinished(x)
        BY <1>5 DEF IInv, Told
      <4> QED BY <1>3, <3>2, <4>1, <4>2
    <3>5. whole \in Seq(Int)
      <4>1. Ids \subseteq Int
        BY <1>1
      <4>2. whole \in Seq(Ids)
        BY <3>2
      <4> QED BY <4>1, <4>2, ListWidened
    <3>6. i >= a + (Len(prefilling) + p) - 1
      <4> DEFINE place == Len(prefilling) + p
      <4>1. a \in Int /\ place \in 1 .. Len(whole) /\ whole[place] = i /\ Rising(whole)
        BY <1>2, <3>2, <3>3
      <4> HIDE DEF place
      <4>2. \A q \in 1 .. Len(whole) : whole[q] >= a + q - 1
        BY <3>4, <3>5, <4>1, RisingPlaces
      <4>3. i >= a + place - 1
        BY <4>1, <4>2
      <4> QED BY <4>3 DEF place
    <3>7. Len(prefilling) + p <= capacity[1]
      <4> DEFINE place == Len(prefilling) + p
      <4>1. i \in Nat /\ place \in Nat
        BY <1>1, <3>3
      <4>2. i >= a + place - 1
        BY <3>6
      <4> HIDE DEF place
      <4>3. place <= capacity[1]
        BY <1>1, <1>2, <4>1, <4>2
      <4> QED BY <4>3 DEF place
    <3> QED BY <3>1, <3>7, Found
  <2> QED BY <2>2, <2>3, <2>4
<1>7. CASE ~(promptRemaining[i] > 0)
  <2>1. promptRemaining[i] = 0
    BY <1>5, <1>7
  <2>2. i \in InList(decoding) /\ InList(decoding) = ToDecode(step)
    BY <1>1, <1>4, <1>5, <2>1, Comes DEF ToDecode, Lists
  <2>3. Len(decoding) \in Nat /\ \E p \in 1 .. Len(decoding) : decoding[p] = i
    BY <1>1, <2>2, ListTyped
  <2>4. PICK p \in 1 .. Len(decoding) : decoding[p] = i
    BY <2>3
  <2>5. \A x \in InList(decoding) : x >= a
    BY <1>3, <2>2 DEF ToDecode, Come
  <2>6. decoding \in Seq(Int) /\ Rising(decoding)
    <3>1. Ids \subseteq Int
      BY <1>1
    <3>2. Rising(decoding)
      BY <1>1 DEF Ordered
    <3> QED BY <1>1, <3>1, <3>2
  <2>7. i >= a + p - 1
    <3>1. a \in Int
      BY <1>2
    <3> QED BY <2>4, <2>5, <2>6, <3>1, RisingPlaces
  <2>8. p <= capacity[2]
    <3>1. i \in Nat /\ p \in Nat
      BY <1>1, <2>3
    <3> QED BY <1>1, <1>2, <2>7, <3>1
  <2> QED BY <2>4, <2>8, Found
<1> QED BY <1>6, <1>7

\* What the cohorts are does not change while specs and capacity stay.
LEMMA CohortsStay ==
  ASSUME specs' = specs, capacity' = capacity
  PROVE  /\ Ids' = Ids /\ StaticMakespan' = StaticMakespan /\ (InOrder' <=> InOrder)
         /\ \A i \in Ids : StartOf(CohortOf(i))' = StartOf(CohortOf(i)) /\ Ideal(i)' = Ideal(i)
<1>1. Ids' = Ids /\ Cohorts' = Cohorts
  BY DEF Ids, Cohorts
<1>2. CohortEnd' = CohortEnd
  BY <1>1 DEF CohortEnd, CohortStart, Cohort, Ideal, Max
<1>3. StaticMakespan' = StaticMakespan
  BY <1>1, <1>2 DEF StaticMakespan
<1>4. \A k : CohortStart(k, CohortEnd[k - 1])' = CohortStart(k, CohortEnd[k - 1])
  BY <1>1, <1>2 DEF CohortStart, Cohort, Max
<1>5. \A i \in Ids : StartOf(CohortOf(i))' = StartOf(CohortOf(i)) /\ Ideal(i)' = Ideal(i)
  BY <1>4 DEF StartOf, CohortOf, Ideal
<1>6. InOrder' <=> InOrder
  BY <1>1 DEF InOrder, AllProper, Proper, NoOvertaking
<1> QED BY <1>1, <1>3, <1>5, <1>6

LEMMA KeepsUpKept ==
  ASSUME IInv, BatchingStep
  PROVE  KeepsUp'
<1>1. /\ step' = step + 1 /\ specs' = specs /\ capacity' = capacity /\ Ids' = Ids
      /\ step \in Nat /\ Shapes /\ KeepsUp /\ \E i \in Ids : Unfinished(i)
  BY Counts DEF BatchingStep, IInv, Shapes
<1>2. /\ StaticMakespan' = StaticMakespan /\ (InOrder' <=> InOrder)
      /\ \A i \in Ids : StartOf(CohortOf(i))' = StartOf(CohortOf(i)) /\ Ideal(i)' = Ideal(i)
  BY <1>1, CohortsStay
<1> SUFFICES ASSUME InOrder
             PROVE  (/\ step <= StaticMakespan
                     /\ \A i \in Ids :
                          Unfinished(i) /\ step >= StartOf(CohortOf(i))
                          => WorkLeft[i] + step <= StartOf(CohortOf(i)) + Ideal(i))'
  BY <1>2 DEF KeepsUp
<1>3. AllProper
  BY DEF InOrder
<1>4. ASSUME NEW i \in Ids
      PROVE  /\ Cohorts \in Nat /\ CohortOf(i) \in 1 .. Cohorts /\ CohortOf(i) \in 0 .. Cohorts
             /\ StartOf(CohortOf(i)) \in Nat /\ Ideal(i) \in Nat
             /\ StartOf(CohortOf(i)) + Ideal(i) <= CohortEnd[CohortOf(i)]
             /\ CohortEnd[CohortOf(i)] \in Nat
             /\ WorkLeft[i] \in Nat /\ WorkLeft[i] <= Ideal(i)
             /\ Unfinished(i) => WorkLeft[i] > 0
  <2>1. Cohorts \in Nat /\ CohortOf(i) \in 1 .. Cohorts /\ i \in Cohort(CohortOf(i))
    BY <1>1, CohortPlaces
  <2>2. CohortOf(i) \in 0 .. Cohorts
    BY <2>1
  <2>3. /\ WorkLeft[i] \in Nat /\ WorkLeft[i] <= Ideal(i)
        /\ Unfinished(i) => WorkLeft[i] > 0
    BY <1>3, WorkTyped DEF IInv
  <2>4. Ideal(i) \in Nat
    BY <1>1, SpecsTyped
  <2> QED BY <1>1, <1>3, <2>1, <2>2, <2>3, <2>4, CohortEnds
<1>5. step + 1 <= StaticMakespan
  <2>1. PICK i \in Ids : Unfinished(i)
    BY <1>1
  <2> DEFINE k == CohortOf(i)
  <2>2. /\ Cohorts \in Nat /\ k \in 0 .. Cohorts /\ Cohorts \in k .. Cohorts
        /\ Cohorts \in 0 .. Cohorts
    BY <1>4
  <2>3. CohortEnd[k] <= CohortEnd[Cohorts] /\ CohortEnd[Cohorts] \in Nat
    BY <1>1, <1>3, <2>2, EndsRise, CohortEnds
  <2>4. /\ StartOf(k) \in Nat /\ Ideal(i) \in Nat /\ CohortEnd[k] \in Nat
        /\ StartOf(k) + Ideal(i) <= CohortEnd[k] /\ WorkLeft[i] \in Nat /\ WorkLeft[i] > 0
        /\ step >= StartOf(k) => WorkLeft[i] + step <= StartOf(k) + Ideal(i)
    BY <1>1, <1>4, <2>1 DEF KeepsUp
  <2> HIDE DEF k
  <2>5. step < CohortEnd[Cohorts]
    BY <1>1, <2>3, <2>4
  <2> QED BY <1>1, <2>3, <2>5 DEF StaticMakespan
<1>6. ASSUME NEW i \in Ids, completedStep'[i] = None, step + 1 >= StartOf(CohortOf(i))
      PROVE  WorkLeft'[i] + (step + 1) <= StartOf(CohortOf(i)) + Ideal(i)
  <2>1. /\ WorkLeft'[i] \in Nat
        /\ WorkLeft'[i] = IF i \in InList(Stage) \cup Served THEN WorkLeft[i] - 1 ELSE WorkLeft[i]
    BY <1>3, WorkFalls
  <2>2. Unfinished(i)
    <3>1. /\ completedStep'[i] = IF i \in Served /\ decodeRemaining[i] = 1
                                 THEN step + 1 ELSE completedStep[i]
      BY Counts
    <3>2. step + 1 # None
      BY <1>1 DEF None
    <3> QED BY <1>6, <3>1, <3>2 DEF Unfinished
  <2> DEFINE start == StartOf(CohortOf(i))
  <2>3. /\ start \in Nat /\ Ideal(i) \in Nat /\ WorkLeft[i] \in Nat /\ WorkLeft[i] <= Ideal(i)
    BY <1>4
  <2>4. CASE step >= start
    <3>1. i \in InList(Stage) \cup Served
      BY <2>2, <2>4, InTurn
    <3>2. WorkLeft[i] + step <= start + Ideal(i)
      BY <1>1, <2>2, <2>4 DEF KeepsUp
    <3> HIDE DEF start
    <3>3. WorkLeft'[i] + (step + 1) <= start + Ideal(i)
      BY <1>1, <2>1, <2>3, <3>1, <3>2
    <3> QED BY <3>3 DEF start
  <2>5. CASE step < start
    <3>1. step + 1 >= start
      BY <1>6
    <3> HIDE DEF start
    <3>2. WorkLeft'[i] + (step + 1) <= start + Ideal(i)
      BY <1>1, <2>1, <2>3, <2>5, <3>1
    <3> QED BY <3>2 DEF start
  <2> HIDE DEF start
  <2> QED BY <1>1, <2>3, <2>4, <2>5
<1>7. (step <= StaticMakespan)'
  BY <1>1, <1>2, <1>5
<1>8. ASSUME NEW i \in Ids, Unfinished(i)', (step >= StartOf(CohortOf(i)))'
      PROVE  (WorkLeft[i] + step <= StartOf(CohortOf(i)) + Ideal(i))'
  <2> DEFINE start == StartOf(CohortOf(i))
  <2>1. start' = start /\ Ideal(i)' = Ideal(i) /\ step' = step + 1
    BY <1>1, <1>2
  <2>2. completedStep'[i] = None /\ step + 1 >= start
    BY <1>8, <2>1 DEF Unfinished
  <2>3. WorkLeft'[i] + (step + 1) <= start + Ideal(i)
    BY <1>6, <2>2
  <2> QED BY <2>1, <2>3
<1> QED BY <1>1, <1>7, <1>8

-----------------------------------------------------------------------------
(* The invariant holds *)

\* The command line makes well-formed specs.
LEMMA CommandLineTyped ==
  ASSUME NEW requests \in Nat, NEW interval \in Int
  PROVE  Workload(requests, interval) \in Seq([arrival : Int, prompt : Nat, decode : Nat])
<1> DEFINE T == [arrival : Int, prompt : Nat, decode : Nat]
           f(i) == [arrival |-> (i - 1) * interval,
                    prompt  |-> 1 + ((i - 1) % 3),
                    decode  |-> 2 + (((i - 1) * 3) % 9)]
<1>1. ASSUME NEW i \in 1 .. requests PROVE f(i) \in T
  <2>1. i - 1 \in Nat /\ (i - 1) % 3 \in Nat
    OBVIOUS
  <2>2. (i - 1) * interval \in Int
    <3>1. \A a, b \in Int : a * b \in Int
      OBVIOUS
    <3> QED BY <2>1, <3>1
  <2>3. ((i - 1) * 3) % 9 \in Nat
    <3>1. \A a \in Nat : (a * 3) % 9 \in Nat
      OBVIOUS
    <3> QED BY <2>1, <3>1
  <2>4. 1 + ((i - 1) % 3) \in Nat /\ 2 + (((i - 1) * 3) % 9) \in Nat
    <3>1. \A a \in Nat : 1 + a \in Nat /\ 2 + a \in Nat
      OBVIOUS
    <3> QED BY <2>1, <2>3, <3>1
  <2> QED BY <2>2, <2>4
<1>2. Workload(requests, interval) = [i \in 1 .. requests |-> f(i)]
  BY DEF Workload
<1> HIDE DEF f
<1>3. Workload(requests, interval) \in [1 .. requests -> T]
  BY <1>1, <1>2
<1> HIDE DEF T
<1>4. Workload(requests, interval) \in Seq(T)
  BY <1>3, NumberedList
<1> QED BY <1>4 DEF T

\* The loop starts in the invariant.
LEMMA InitInvariant ==
  ASSUME BatchingInit
  PROVE  IInv
<1>1. specs \in Seq([arrival : Int, prompt : Nat, decode : Nat])
  <2>1. CASE specs \in Workloads
    BY <2>1, ArgumentsTyped
  <2>2. CASE \E c \in CommandLines : specs = Workload(c[1], c[2])
    <3>1. PICK c \in CommandLines : specs = Workload(c[1], c[2])
      BY <2>2
    <3>2. c[1] \in Nat /\ c[2] \in Int
      BY ArgumentsTyped
    <3> QED BY <3>1, <3>2, CommandLineTyped
  <2> QED BY <2>1, <2>2 DEF BatchingInit
<1>2. capacity \in (Nat \ {0}) \X (Nat \ {0})
  BY ArgumentsTyped DEF BatchingInit
<1>3. /\ step = 0 /\ waiting = <<>> /\ prefilling = <<>> /\ decoding = <<>>
      /\ promptRemaining = [i \in Ids |-> specs[i].prompt]
      /\ decodeRemaining = [i \in Ids |-> specs[i].decode]
      /\ firstTokenStep = [i \in Ids |-> None] /\ completedStep = [i \in Ids |-> None]
  BY DEF BatchingInit
<1>4. Shapes
  <2> DEFINE T == [arrival : Int, prompt : Nat, decode : Nat]
  <2>1. specs \in Seq(T) /\ \A t \in T : t.prompt \in Int /\ t.decode \in Int
    BY <1>1
  <2> HIDE DEF T
  <2>2. \A i \in Ids : specs[i] \in T
    BY <2>1, ListTyped DEF Ids
  <2>3. /\ promptRemaining \in [Ids -> Int] /\ decodeRemaining \in [Ids -> Int]
        /\ firstTokenStep \in [Ids -> Int] /\ completedStep \in [Ids -> Int]
    BY <1>3, <2>1, <2>2 DEF None
  <2>4. step \in Nat /\ waiting \in Seq(Ids) /\ prefilling \in Seq(Ids) /\ decoding \in Seq(Ids)
    BY <1>3
  <2> QED BY <1>1, <1>2, <2>3, <2>4 DEF Shapes
<1>5. /\ Len(specs) \in Nat /\ IsFiniteSet(Ids) /\ capacity[2] \in Nat \ {0}
      /\ \A i \in Ids : /\ specs[i].arrival \in Int /\ specs[i].prompt \in Nat
                        /\ specs[i].decode \in Nat /\ Ideal(i) \in Nat /\ Floor(i) \in {-1, 0}
                        /\ Floor(i) = 0 <=> specs[i].prompt > 0
  BY <1>4, SpecsTyped
<1>6. Come(step) = {}
  BY <1>3, <1>5 DEF Come
<1>7. InList(<<>>) = {} /\ Distinct(<<>>) /\ Rising(<<>>) /\ Len(<<>>) = 0
  BY DEF InList, Distinct, Rising
<1>8. Lists
  <2>1. ToPrefill(step) = {} /\ ToDecode(step) = {}
    BY <1>6 DEF ToPrefill, ToDecode
  <2>2. 0 <= capacity[1]
    BY <1>4, SpecsTyped
  <2> QED BY <1>3, <1>7, <2>1, <2>2 DEF Lists
<1>9. \A i \in Ids : Told(i)
  BY <1>3, <1>5, <1>6 DEF Told, Unfinished
<1>10. WorkLeft = Work /\ \A i \in Ids : WorkLeft[i] = Ideal(i)
  BY <1>3 DEF WorkLeft, Work, Ideal
<1>11. OnTime
  <2> SUFFICES ASSUME AllProper, Ids # {}, step >= LastArrival
               PROVE  step - LastArrival + Total(WorkLeft, Ids) <= Total(Work, Ids)
    BY DEF OnTime
  <2>1. LastArrival \in Int /\ \A i \in Ids : specs[i].arrival <= LastArrival
    BY <1>4, LatestArrival
  <2>2. PICK first \in Ids : specs[first].arrival \in Int /\ specs[first].arrival >= 0
    BY <1>5 DEF AllProper, Proper
  <2>3. LastArrival >= 0
    BY <2>1, <2>2
  <2>4. \A i \in Ids : Work[i] \in Nat
    BY <1>5 DEF Work
  <2>5. Total(Work, Ids) \in Nat
    BY <1>5, <2>4, TotalIsCount
  <2> QED BY <1>3, <1>10, <2>1, <2>3, <2>5
<1>12. Ordered
  <2> SUFFICES ASSUME InOrder PROVE \A i, j \in Ids : i < j => promptRemaining[i] <= promptRemaining[j]
    BY <1>3, <1>7 DEF Ordered, Before
  <2> QED BY <1>3 DEF InOrder, NoOvertaking
<1>13. KeepsUp
  <2> SUFFICES ASSUME InOrder
               PROVE  /\ step <= StaticMakespan
                      /\ \A i \in Ids : WorkLeft[i] + step <= StartOf(CohortOf(i)) + Ideal(i)
    BY DEF KeepsUp
  <2>1. AllProper
    BY DEF InOrder
  <2>2. Cohorts \in Nat
    <3>1. Len(specs) + capacity[2] - 1 \in Nat
      BY <1>5
    <3> QED BY <1>5, <3>1, QuotientBounds DEF Cohorts
  <2>3. /\ \A k \in 0 .. Cohorts : CohortEnd[k] \in Nat
        /\ \A k \in 1 .. Cohorts : StartOf(k) \in Nat
    BY <1>4, <2>1, <2>2, CohortEnds
  <2>4. StaticMakespan \in Nat
    BY <2>2, <2>3 DEF StaticMakespan
  <2>5. ASSUME NEW i \in Ids PROVE WorkLeft[i] + step <= StartOf(CohortOf(i)) + Ideal(i)
    <3>1. StartOf(CohortOf(i)) \in Nat
      BY <1>4, <2>3, CohortPlaces
    <3> QED BY <1>3, <1>5, <1>10, <3>1
  <2> QED BY <1>3, <2>4, <2>5
<1> QED BY <1>4, <1>8, <1>9, <1>11, <1>12, <1>13 DEF IInv

\* Every step keeps the invariant.
LEMMA StepInvariant ==
  ASSUME IInv, BatchingStep
  PROVE  IInv'
<1>1. Ids' = Ids
  BY Counts
<1>2. \A i \in Ids' : Told(i)'
  BY <1>1, ToldKept
<1> QED BY <1>2, ShapesKept, ListsKept, OnTimeKept, OrderedKept, KeepsUpKept DEF IInv

\* No step changes what the invariant is about.
LEMMA StutterInvariant ==
  ASSUME IInv, UNCHANGED batchingVars
  PROVE  IInv'
<1>1. /\ specs' = specs /\ capacity' = capacity /\ step' = step
      /\ waiting' = waiting /\ prefilling' = prefilling /\ decoding' = decoding
      /\ promptRemaining' = promptRemaining /\ decodeRemaining' = decodeRemaining
      /\ firstTokenStep' = firstTokenStep /\ completedStep' = completedStep
  BY DEF batchingVars
<1>2. /\ Ids' = Ids /\ StaticMakespan' = StaticMakespan /\ (InOrder' <=> InOrder)
      /\ \A i \in Ids : StartOf(CohortOf(i))' = StartOf(CohortOf(i)) /\ Ideal(i)' = Ideal(i)
  BY <1>1, CohortsStay
<1>3. Shapes'
  BY <1>1, <1>2 DEF IInv, Shapes
<1>4. Lists'
  BY <1>1, <1>2 DEF IInv, Lists, ToPrefill, ToDecode, Come, Floor, Unfinished
<1>5. \A i \in Ids' : Told(i)'
  BY <1>1, <1>2 DEF IInv, Told, Come, Had, Floor, Unfinished, Ideal
<1>6. WorkLeft' = WorkLeft /\ Work' = Work
  BY <1>1, <1>2 DEF WorkLeft, Work, Ideal
<1>7. OnTime'
  <2>1. LastArrival' = LastArrival
    BY <1>1, <1>2 DEF LastArrival, Max
  <2>2. AllProper' <=> AllProper
    BY <1>1, <1>2 DEF AllProper, Proper
  <2>3. Total(WorkLeft, Ids)' = Total(WorkLeft, Ids) /\ Total(Work, Ids)' = Total(Work, Ids)
    BY <1>2, <1>6 DEF Total, MapThenSumSet, MapThenFoldSet
  <2> SUFFICES ASSUME AllProper', Ids' # {}, (step >= LastArrival)'
               PROVE  (step - LastArrival + Total(WorkLeft, Ids) <= Total(Work, Ids))'
    BY DEF OnTime
  <2>4. step >= LastArrival
    BY <1>1, <2>1
  <2>5. step - LastArrival + Total(WorkLeft, Ids) <= Total(Work, Ids)
    BY <1>2, <2>2, <2>4 DEF IInv, OnTime
  <2> QED BY <1>1, <2>1, <2>3, <2>5
<1>8. Ordered'
  BY <1>1, <1>2 DEF IInv, Ordered
<1>9. KeepsUp'
  <2> SUFFICES ASSUME InOrder'
               PROVE  (/\ step <= StaticMakespan
                       /\ \A i \in Ids : Unfinished(i) /\ step >= StartOf(CohortOf(i))
                            => WorkLeft[i] + step <= StartOf(CohortOf(i)) + Ideal(i))'
    BY DEF KeepsUp
  <2>1. /\ step <= StaticMakespan
        /\ \A i \in Ids : Unfinished(i) /\ step >= StartOf(CohortOf(i))
             => WorkLeft[i] + step <= StartOf(CohortOf(i)) + Ideal(i)
    BY <1>2 DEF IInv, KeepsUp
  <2>2. \A i \in Ids : Unfinished(i)' <=> Unfinished(i)
    BY <1>1 DEF Unfinished
  <2> QED BY <1>1, <1>2, <1>6, <2>1, <2>2
<1> QED BY <1>3, <1>4, <1>5, <1>7, <1>8, <1>9 DEF IInv

\* The invariant holds for every list of specs and every pair of capacities.
THEOREM InvariantHolds == BatchingSpec => []IInv
<1>1. IInv /\ [BatchingStep]_batchingVars => IInv'
  BY StepInvariant, StutterInvariant
<1> QED BY <1>1, InitInvariant, PTL DEF BatchingSpec

-----------------------------------------------------------------------------
(* What the invariant gives *)

\* Every counter of the loop stays in its range: a prompt or an output is counted down
\* to zero and no further (an empty prompt to -1, once), and a sequence completes after
\* its first token and not later than now.
THEOREM TypesHold == BatchingSpec => []BatchingTypeOK
<1>1. ASSUME IInv PROVE BatchingTypeOK
  <2>1. Shapes
    BY <1>1 DEF IInv
  <2>2. ASSUME NEW i \in Ids
        PROVE  /\ promptRemaining[i] \in (IF specs[i].prompt = 0 THEN -1 ELSE 0) .. specs[i].prompt
               /\ specs[i].decode > 0 => decodeRemaining[i] \in 0 .. specs[i].decode
               /\ firstTokenStep[i] \in {None} \cup 0 .. step - 1
               /\ completedStep[i] \in {None} \cup firstTokenStep[i] + 1 .. step
    <3>1. Told(i) /\ decodeRemaining[i] \in Int
      BY <1>1 DEF IInv, Shapes
    <3>2. specs[i].decode \in Nat
      BY <2>1, SpecsTyped
    <3>3. specs[i].decode > 0 => decodeRemaining[i] \in 0 .. specs[i].decode
      BY <3>1, <3>2 DEF Told
    <3>4. /\ promptRemaining[i] \in (IF specs[i].prompt = 0 THEN -1 ELSE 0) .. specs[i].prompt
          /\ firstTokenStep[i] \in {None} \cup 0 .. step - 1
          /\ completedStep[i] \in {None} \cup firstTokenStep[i] + 1 .. step
      BY <3>1 DEF Told, Floor, Unfinished
    <3> QED BY <3>3, <3>4
  <2> QED BY <2>1, <2>2 DEF BatchingTypeOK, Shapes
<1> QED BY <1>1, InvariantHolds, PTL

\* Taking from a queue, moving on and leaving keep every sequence that arrived and is
\* not done in exactly one of the three lists; only an empty prompt drops out of all.
\* And the prefill stage is neither overfull nor left with room while one waits.
THEOREM WorkIsPlaced == BatchingSpec => []WorkPlaced
<1>1. ASSUME IInv PROVE WorkPlaced
  <2> DEFINE held == waiting \o prefilling
             all == held \o decoding
  <2>1. /\ waiting \in Seq(Ids) /\ prefilling \in Seq(Ids) /\ decoding \in Seq(Ids) /\ Lists
        /\ Shapes /\ step \in Nat
    BY <1>1 DEF IInv, Shapes
  <2>2. /\ held \in Seq(Ids) /\ Distinct(held) /\ InList(held) = ToPrefill(step)
    BY <2>1, ConcatLists DEF Lists
  <2> HIDE DEF held
  <2>3. ToPrefill(step) \cap ToDecode(step) = {}
    <3> SUFFICES ASSUME NEW i \in ToPrefill(step), i \in ToDecode(step) PROVE FALSE
      OBVIOUS
    <3>1. promptRemaining[i] > 0 /\ promptRemaining[i] = 0
      BY DEF ToPrefill, ToDecode
    <3> QED BY <3>1
  <2>4. all \in Seq(Ids) /\ Distinct(all) /\ InList(all) = ToPrefill(step) \cup ToDecode(step)
    BY <2>1, <2>2, <2>3, ConcatLists DEF Lists
  <2>5. ASSUME NEW i \in Ids
        PROVE  i \in ToPrefill(step) \cup ToDecode(step)
               <=> /\ specs[i].arrival \in 0 .. step - 1
                   /\ Unfinished(i) /\ promptRemaining[i] >= 0
    <3>1. Told(i) /\ promptRemaining[i] \in Int
      BY <1>1 DEF IInv, Shapes
    <3>2. specs[i].arrival \in Int /\ Floor(i) \in {-1, 0}
      BY <2>1, SpecsTyped
    <3>3. i \in Come(step) <=> specs[i].arrival \in 0 .. step - 1
      BY <2>1, <3>2 DEF Come
    <3>4. promptRemaining[i] > Floor(i) => Unfinished(i)
      BY <3>1, <3>2 DEF Told
    <3>5. promptRemaining[i] >= 0
          <=> promptRemaining[i] > Floor(i) \/ (promptRemaining[i] = 0 /\ Floor(i) = 0)
      BY <3>1, <3>2
    <3>6. i \in ToPrefill(step) <=> i \in Come(step) /\ promptRemaining[i] > Floor(i)
      BY DEF ToPrefill
    <3>7. i \in ToDecode(step)
          <=> i \in Come(step) /\ promptRemaining[i] = 0 /\ Floor(i) = 0 /\ Unfinished(i)
      BY DEF ToDecode
    <3> QED BY <3>3, <3>4, <3>5, <3>6, <3>7
  <2>6. \A i \in Ids : Times(i, all)
                         = IF /\ specs[i].arrival \in 0 .. step - 1
                              /\ Unfinished(i) /\ promptRemaining[i] >= 0
                           THEN 1 ELSE 0
    <3> HIDE DEF all
    <3>1. \A i \in Ids : Times(i, all) = IF i \in InList(all) THEN 1 ELSE 0
      BY <2>4, TimesOnce
    <3> QED BY <2>4, <2>5, <3>1
  <2>7. all = waiting \o prefilling \o decoding
    BY DEF held
  <2> HIDE DEF all
  <2> QED BY <2>1, <2>6, <2>7 DEF WorkPlaced, Lists
<1> QED BY <1>1, InvariantHolds, PTL

\* The loop of run() is over by the last arrival and the work there is, if every
\* sequence arrives at a step there is, with a prompt and something to decode; and
\* never if one does not, since then no step completes it.
THEOREM LoopEnds == BatchingSpec => []EndsByHorizon
<1>1. ASSUME IInv PROVE EndsByHorizon
  <2>1. /\ Shapes /\ step \in Nat /\ IsFiniteSet(Ids) /\ OnTime
        /\ \A i \in Ids : Told(i)
    BY <1>1, SpecsTyped DEF IInv, Shapes
  <2>2. CASE ~AllProper
    <3>1. PICK i \in Ids : ~Proper(i)
      BY <2>2 DEF AllProper
    <3>2. Unfinished(i)
      <4> SUFFICES ASSUME ~Unfinished(i) PROVE FALSE
        OBVIOUS
      <4>1. i \in Come(step) /\ Floor(i) = 0 /\ specs[i].decode > 0
        BY <2>1 DEF Told
      <4>2. specs[i].arrival \in Int /\ (Floor(i) = 0 <=> specs[i].prompt > 0)
        BY <2>1, SpecsTyped
      <4>3. specs[i].arrival >= 0
        BY <4>1, <4>2 DEF Come
      <4> QED BY <3>1, <4>1, <4>2, <4>3 DEF Proper
    <3> QED BY <2>2, <3>2 DEF EndsByHorizon
  <2>3. CASE AllProper
    <3> SUFFICES ASSUME NEW i \in Ids, Unfinished(i) PROVE step < Horizon
      BY <2>3 DEF EndsByHorizon
    <3>1. LastArrival \in Int
      BY <2>1, LatestArrival
    <3> DEFINE none == [k \in Ids |-> 0]
    <3>2. /\ \A k \in Ids : /\ none[k] \in Nat /\ WorkLeft[k] \in Nat /\ Work[k] \in Nat
                            /\ none[k] <= WorkLeft[k]
          /\ none[i] < WorkLeft[i]
      <4>1. \A k \in Ids : none[k] = 0
        OBVIOUS
      <4>2. \A k \in Ids : /\ WorkLeft[k] \in Nat /\ Work[k] \in Nat
                           /\ Unfinished(k) => WorkLeft[k] > 0
        BY <2>1, <2>3, WorkTyped
      <4> HIDE DEF none
      <4> QED BY <4>1, <4>2
    <3> HIDE DEF none
    <3>3. /\ Total(none, Ids) \in Nat /\ Total(WorkLeft, Ids) \in Nat
          /\ Total(none, Ids) < Total(WorkLeft, Ids)
      BY <2>1, <3>2, TotalMonotone
    <3>4. Total(Work, Ids) \in Nat
      BY <2>1, <3>2, TotalIsCount
    <3>5. Horizon = LastArrival + Total(Work, Ids)
      BY DEF Horizon, Work
    <3> SUFFICES ASSUME step >= Horizon PROVE FALSE
      BY <2>1, <3>1, <3>4, <3>5
    <3>6. step >= LastArrival
      BY <2>1, <3>1, <3>4, <3>5
    <3>7. step - LastArrival + Total(WorkLeft, Ids) <= Total(Work, Ids)
      BY <2>1, <2>3, <3>6 DEF OnTime
    <3> QED BY <2>1, <3>1, <3>3, <3>4, <3>5, <3>7
  <2> QED BY <2>2, <2>3
<1> QED BY <1>1, InvariantHolds, PTL

\* No sequence is done in fewer steps than it needs alone; and with a prefill stage as
\* wide as the batch, and no prompt that overtakes another, the run takes no more
\* steps than the static cohorts the program compares it with.
THEOREM NoSlowerThanCohorts == BatchingSpec => []StaticNoBetter
<1>1. ASSUME IInv PROVE StaticNoBetter
  <2>1. \A i \in Ids : ~Unfinished(i) => completedStep[i] - specs[i].arrival >= Ideal(i)
    BY <1>1 DEF IInv, Told
  <2>2. InOrder => step <= StaticMakespan
    BY <1>1 DEF IInv, KeepsUp
  <2> QED BY <2>1, <2>2 DEF StaticNoBetter, InOrder
<1> QED BY <1>1, InvariantHolds, PTL
=============================================================================
