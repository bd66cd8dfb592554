------------------------- MODULE ContinuousBatching -------------------------
(***************************************************************************)
(* The step loop of ContinuousBatchSimulator (continuous_batching.py):     *)
(* sequences arrive, are admitted to a bounded prefill stage, then decode  *)
(* one token per step in a bounded batch that they enter and leave one by  *)
(* one.  A sequence is named by its position in the list of specs.  The    *)
(* static cohorts the same program compares with are at the end.           *)
(***************************************************************************)
EXTENDS StepLoops

CONSTANTS
  Workloads,          \* lists of [arrival, prompt, decode] given to run()
  CommandLines,       \* pairs <<requests, arrival_interval_steps>>
  Capacities          \* pairs of positive <<prefill_capacity, decode_capacity>>

\* An interval may be negative, and with it an arrival: argparse takes any integer.
ASSUME ArgumentsTyped ==
  /\ Workloads \subseteq Seq([arrival : Int, prompt : Nat, decode : Nat])
  /\ CommandLines \subseteq Nat \X Int
  /\ Capacities \subseteq (Nat \ {0}) \X (Nat \ {0})

VARIABLES
  specs, capacity,    \* the arguments of run() and __init__
  step,
  waiting, prefilling, decoding,    \* the three lists, each in its order
  promptRemaining, decodeRemaining, firstTokenStep, completedStep

batchingVars == <<specs, capacity, step, waiting, prefilling, decoding,
                  promptRemaining, decodeRemaining, firstTokenStep, completedStep>>

-----------------------------------------------------------------------------
\* _workload: what the command line simulates.
Workload(requests, interval) ==
  [i \in 1 .. requests |->
    [arrival |-> (i - 1) * interval,
     prompt  |-> 1 + ((i - 1) % 3),
     decode  |-> 2 + (((i - 1) * 3) % 9)]]

Ids == DOMAIN specs
Ideal(i) == specs[i].prompt + specs[i].decode
Unfinished(i) == completedStep[i] = None

BatchingInit ==
  /\ specs \in Workloads \cup {Workload(c[1], c[2]) : c \in CommandLines}
  /\ capacity \in Capacities
  /\ step = 0
  /\ waiting = <<>> /\ prefilling = <<>> /\ decoding = <<>>
  /\ promptRemaining = [i \in Ids |-> specs[i].prompt]
  /\ decodeRemaining = [i \in Ids |-> specs[i].decode]
  /\ firstTokenStep = [i \in Ids |-> None]
  /\ completedStep = [i \in Ids |-> None]

-----------------------------------------------------------------------------
(* One iteration, in the order of the code. *)

Converging == step <= StepLimit     \* bound; above it run() raises RuntimeError

Arrived == Keep([i \in Ids |-> i], {i \in Ids : specs[i].arrival = step})
Queue == waiting \o Arrived

\* Mutant of Admissible: the stage is filled again only when it is empty.
AdmissibleWhenEmpty(queue, stage) ==
  IF stage = <<>> THEN Lesser(Len(queue), capacity[1]) ELSE 0

\* How many sequences a prefill stage of that length takes from a queue.
Admissible(queue, stage) == Lesser(Len(queue), capacity[1] - Len(stage))
Admitted(queue, stage) == SubSeq(queue, 1, Admissible(queue, stage))

Behind(queue, stage) == SubSeq(queue, Admissible(queue, stage) + 1, Len(queue))

Stage == prefilling \o Admitted(Queue, prefilling)
Ready == Keep(Stage, {i \in Ids : promptRemaining[i] = 1})
Rest == Keep(Stage, {i \in Ids : promptRemaining[i] > 1})

\* Mutants of Served: the sequences that have just finished their prompt join; a
\* cut of the list one short.
ServedAtOnce == InList(FirstOf(decoding \o Ready, capacity[2]))
ServedShort == InList(FirstOf(decoding, capacity[2] - 1))

\* The head of the decode list; what is beyond the capacity waits its turn.
Served == InList(FirstOf(decoding, capacity[2]))

Leaves(i) == decodeRemaining[i] = 1
Gone == {i \in Served : Leaves(i)}

BatchingStep ==
  /\ Converging /\ \E i \in Ids : Unfinished(i)
  /\ firstTokenStep' = [i \in Ids |->
       IF i \in Served /\ firstTokenStep[i] = None THEN step ELSE firstTokenStep[i]]
  /\ decodeRemaining' = [i \in Ids |-> decodeRemaining[i] - (IF i \in Served THEN 1 ELSE 0)]
  /\ completedStep' = [i \in Ids |-> IF i \in Gone THEN step + 1 ELSE completedStep[i]]
  /\ promptRemaining' =
       [i \in Ids |-> promptRemaining[i] - (IF i \in InList(Stage) THEN 1 ELSE 0)]
  /\ decoding' = Keep(decoding, Ids \ Gone) \o Ready
  /\ LET behind == Behind(Queue, prefilling)
     IN  /\ prefilling' = Rest \o Admitted(behind, Rest)
         /\ waiting' = Behind(behind, Rest)
  /\ step' = step + 1
  /\ UNCHANGED <<specs, capacity>>

BatchingSpec == BatchingInit /\ [][BatchingStep]_batchingVars

-----------------------------------------------------------------------------
(* simulate_static_batches: cohorts of batch_size sequences in the order of
   arrival; a cohort starts when the one before it is done and all its members
   are there, and ends with its longest member.  The code sorts the specs by
   (arrival_step, request_id); here they are taken in the order of the list, which
   is the same where they arrive in that order and are named in it. *)
Cohorts == (Len(specs) + capacity[2] - 1) \div capacity[2]
Cohort(k) == {i \in Ids : (i - 1) \div capacity[2] = k - 1}
CohortStart(k, before) == Max({before} \cup {specs[i].arrival : i \in Cohort(k)})
CohortEnd[k \in 0 .. Cohorts] ==
  IF k = 0 THEN 0
  ELSE CohortStart(k, CohortEnd[k - 1]) + Max({Ideal(i) : i \in Cohort(k)})
StaticMakespan == CohortEnd[Cohorts]

-----------------------------------------------------------------------------
\* Every variable has its type, and each count the sign and order it must have.
BatchingTypeOK ==
  /\ specs \in Seq([arrival : Int, prompt : Nat, decode : Nat])
  /\ capacity \in (Nat \ {0}) \X (Nat \ {0})
  /\ step \in Nat
  /\ waiting \in Seq(Ids) /\ prefilling \in Seq(Ids) /\ decoding \in Seq(Ids)
  /\ promptRemaining \in [Ids -> Int] /\ decodeRemaining \in [Ids -> Int]
  /\ firstTokenStep \in [Ids -> Int] /\ completedStep \in [Ids -> Int]
  /\ \A i \in Ids :
       /\ promptRemaining[i] \in (IF specs[i].prompt = 0 THEN -1 ELSE 0) .. specs[i].prompt
       /\ specs[i].decode > 0 => decodeRemaining[i] \in 0 .. specs[i].decode
       /\ firstTokenStep[i] \in {None} \cup 0 .. step - 1
       /\ completedStep[i] \in {None} \cup firstTokenStep[i] + 1 .. step

\* A sequence that arrived and is not done is in exactly one list, except that an
\* empty prompt drops out of all three; and none waits while there is room.
WorkPlaced ==
  /\ \A i \in Ids :
       Times(i, waiting \o prefilling \o decoding)
         = IF /\ specs[i].arrival \in 0 .. step - 1
              /\ Unfinished(i) /\ promptRemaining[i] >= 0
           THEN 1 ELSE 0
  /\ Len(prefilling) <= capacity[1]
  /\ waiting # <<>> => Len(prefilling) = capacity[1]

LastArrival == Max({specs[i].arrival : i \in Ids})
Horizon == LastArrival + Total([i \in Ids |-> Ideal(i)], Ids)
Proper(i) == specs[i].arrival >= 0 /\ specs[i].prompt > 0 /\ specs[i].decode > 0
AllProper == \A i \in Ids : Proper(i)

\* The loop ends, and no later than the work there is, exactly if every sequence
\* arrives at a step there is, with a prompt and something to decode.
EndsByHorizon ==
  IF AllProper
  THEN (\E i \in Ids : Unfinished(i)) => step < Horizon
  ELSE \E i \in Ids : Unfinished(i)

\* The specs are in the order of arrival, and no prompt is longer than a later one.
NoOvertaking ==
  \A i, j \in Ids : i < j => /\ specs[i].arrival <= specs[j].arrival
                             /\ specs[i].prompt <= specs[j].prompt

\* No sequence beats the steps it needs alone; and with a prefill stage as wide as
\* the batch, and no prompt short enough to overtake another, the whole is no
\* slower than the cohorts it is compared with.
StaticNoBetter ==
  /\ \A i \in Ids : ~Unfinished(i) => completedStep[i] - specs[i].arrival >= Ideal(i)
  /\ AllProper /\ NoOvertaking /\ capacity[1] >= capacity[2] /\ specs # <<>>
       => step <= StaticMakespan

\* What the command line prints of its own workloads says the same, although their
\* prompts do overtake, as long as the stage is as wide as the batch.
CommandLineNoSlower ==
  /\ \E c \in CommandLines : specs = Workload(c[1], c[2])
  /\ AllProper /\ capacity[1] >= capacity[2] /\ specs # <<>>
  => step <= StaticMakespan
=============================================================================
