---------------------------- MODULE MCSimulators ----------------------------
(* The block manager and the two step loops on small workloads.  They share nothing:
   one of them runs, from a state in which the other two rest.  A loop rests at the
   empty list, the block manager where it begins. *)
EXTENDS KVBlocks, ContinuousBatching, ChunkedPrefill

\* Three that arrive together, one by one or the last one late.
Arrivals == {<<0, 0, 0>>, <<0, 1, 2>>, <<1, 1, 4>>}

\* [prompt, decode] of three sequences, an empty prompt and nothing to decode among
\* them.
Sizes == {<<1, 1>>, <<1, 3>>, <<3, 1>>, <<2, 2>>, <<0, 1>>, <<1, 0>>}

Threes ==
  {[i \in 1 .. 3 |-> [arrival |-> a[i], prompt |-> s[i][1], decode |-> s[i][2]]] :
     a \in Arrivals, s \in [1 .. 3 -> Sizes]}

\* Four sequences of which the second is overtaken for so long that the whole takes
\* 16 steps in batches of two, and 15 in cohorts of two.
Overtaken ==
  [i \in 1 .. 4 |-> [arrival |-> 0,
                     prompt  |-> <<1, 4, 1, 1>>[i],
                     decode  |-> <<9, 6, 4, 4>>[i]]]

MCWorkloads == Threes \cup {Overtaken}
MCCommandLines == {0, 4, 7, 10} \X (-1 .. 2)
MCCapacities == {<<1, 1>>, <<1, 2>>, <<2, 1>>, <<2, 2>>, <<3, 2>>}

\* [prompt, saved, output] of three requests, a saved prefix longer than the prompt
\* and nothing to decode among them.
RequestSizes == {<<1, 0, 1>>, <<1, 0, 3>>, <<3, 0, 1>>, <<3, 1, 2>>, <<1, 2, 2>>, <<1, 0, 0>>}

MCRequestLists ==
  {[i \in 1 .. 3 |->
      [arrival |-> a[i], prompt |-> s[i][1], saved |-> s[i][2], output |-> s[i][3]]] :
     a \in Arrivals, s \in [1 .. 3 -> RequestSizes]}

MCComparisons ==
  [requests : {0, 3, 5}, interval : 0 .. 1, prompt : {2}, output : {2}, saved : {0, 1, 3}]

BatchingRests == specs = <<>> /\ capacity = <<1, 1>>
PrefillRests == reqs = <<>> /\ options = [policy |-> "mixed_slo", chunk |-> 1, bound |-> 1]

SimulatorsInit ==
  /\ Init
  /\ \/ BatchingInit /\ reqs = <<>> /\ PrefillInit /\ PrefillRests
     \/ PrefillInit /\ specs = <<>> /\ BatchingInit /\ BatchingRests

SimulatorsNext ==
  \/ BatchingStep /\ UNCHANGED <<vars, prefillVars>>
  \/ PrefillStep /\ UNCHANGED <<vars, batchingVars>>
  \/ Next /\ BatchingRests /\ PrefillRests /\ UNCHANGED <<batchingVars, prefillVars>>

SimulatorsSpec == SimulatorsInit /\ [][SimulatorsNext]_<<vars, batchingVars, prefillVars>>
=============================================================================
