--------------------------- MODULE ChunkedPrefill ---------------------------
(***************************************************************************)
(* The step loop of ChunkedPrefillSimulator (chunked_prefill.py): in every *)
(* step either one request prefills a chunk of its prompt or one request   *)
(* decodes a token, and the policy chooses which.  A request is named by   *)
(* its position in the list of specs.                                      *)
(***************************************************************************)
EXTENDS StepLoops

CONSTANTS
  RequestLists,       \* lists of [arrival, prompt, saved, output] given to run()
  Comparisons,        \* [requests, interval, prompt, output, saved]: command line and UI
  ChunkSizes, Bounds  \* positive: chunk_size and decode_tpot_slo_steps

\* What the body of the UI's endpoint admits; no count is negative.
ASSUME PrefillArgumentsTyped ==
  /\ RequestLists \subseteq Seq([arrival : Nat, prompt : Nat, saved : Nat, output : Nat])
  /\ Comparisons \subseteq [requests : Nat, interval : Nat, prompt : Nat, output : Nat, saved : Nat]
  /\ ChunkSizes \subseteq Nat \ {0} /\ Bounds \subseteq Nat \ {0}

Policies == {"prefill_first", "decode_first", "mixed_slo"}

VARIABLES
  reqs, options,      \* the arguments of run() and __init__: [policy, chunk, bound]
  tick,               \* step
  waitingPrefill, waitingDecode,
  prefillRemaining, outputRemaining, firstDecodeStep, lastDecodeStep,
  widestGap,          \* max(inter_token_steps)
  completedAt         \* completed_step

prefillVars == <<reqs, options, tick, waitingPrefill, waitingDecode,
                 prefillRemaining, outputRemaining, firstDecodeStep, lastDecodeStep,
                 widestGap, completedAt>>

-----------------------------------------------------------------------------
\* deterministic_workload: only the first request saves no prefix.
DeterministicWorkload(args) ==
  [i \in 1 .. args.requests |->
    [arrival |-> (i - 1) * args.interval,
     prompt  |-> args.prompt + ((i - 1) % 3) * Max({1, args.prompt \div 4}),
     saved   |-> IF i = 1 THEN 0 ELSE args.saved,
     output  |-> args.output + ((i - 1) % 2) * Max({1, args.output \div 2})]]

EffectivePrefill(spec) == Max({0, spec.prompt - spec.saved})

Rids == DOMAIN reqs
Incomplete(i) == completedAt[i] = None

PrefillInit ==
  /\ reqs \in RequestLists \cup {DeterministicWorkload(args) : args \in Comparisons}
  /\ options \in [policy : Policies, chunk : ChunkSizes, bound : Bounds]
  /\ tick = 0
  /\ waitingPrefill = <<>> /\ waitingDecode = <<>>
  /\ prefillRemaining = [i \in Rids |-> EffectivePrefill(reqs[i])]
  /\ outputRemaining = [i \in Rids |-> reqs[i].output]
  /\ firstDecodeStep = [i \in Rids |-> None]
  /\ lastDecodeStep = [i \in Rids |-> None]
  /\ widestGap = [i \in Rids |-> 0]
  /\ completedAt = [i \in Rids |-> None]

-----------------------------------------------------------------------------
(* The policies choose from the two lists as they stand after the arrivals. *)

Due(i) == IF lastDecodeStep[i] = None THEN firstDecodeStep[i]
          ELSE lastDecodeStep[i] + options.bound
Urgent(i) == Due(i) = None \/ tick >= Due(i)

\* `last_decode_step or -1`: a token at step 0 counts as none.
LastOr(i) == IF lastDecodeStep[i] \in {None, 0} THEN -1 ELSE lastDecodeStep[i]
MoreUrgent(i, j) ==
  \/ LastOr(i) < LastOr(j)
  \/ LastOr(i) = LastOr(j) /\ reqs[i].arrival < reqs[j].arrival

\* Mutant of MostUrgent: the last of the overdue requests, whatever they wait.
LatestUrgent(overdue) == overdue[Len(overdue)]

\* The first minimum in the order of the list.
MostUrgent(overdue) ==
  overdue[Min({k \in DOMAIN overdue :
                 \A n \in DOMAIN overdue : ~MoreUrgent(overdue[n], overdue[k])})]

HeadOf(list, operation) == [operation |-> operation, request |-> Head(list)]
Idle == [operation |-> "idle", request |-> None]

PrefillElseDecode(prefills, decodes) ==
  IF prefills # <<>> THEN HeadOf(prefills, "prefill")
  ELSE IF decodes # <<>> THEN HeadOf(decodes, "decode") ELSE Idle

DecodeElsePrefill(prefills, decodes) ==
  IF decodes # <<>> THEN HeadOf(decodes, "decode")
  ELSE PrefillElseDecode(prefills, decodes)

Overdue(decodes) == Keep(decodes, {i \in Rids : Urgent(i)})

Select(prefills, decodes) ==
  CASE options.policy = "prefill_first" -> PrefillElseDecode(prefills, decodes)
    [] options.policy = "decode_first" -> DecodeElsePrefill(prefills, decodes)
    [] options.policy = "mixed_slo" /\ Overdue(decodes) # <<>> ->
         [operation |-> "decode", request |-> MostUrgent(Overdue(decodes))]
    [] OTHER -> PrefillElseDecode(prefills, decodes)

-----------------------------------------------------------------------------
\* Mutant of Without: the first goes, whoever was served.
WithoutFirst(list, i) == Tail(list)

Without(list, i) == Keep(list, Rids \ {i})

Prefill(i, prefills, decodes) ==
  LET left == Max({0, prefillRemaining[i] - options.chunk})
  IN  /\ prefillRemaining' = [prefillRemaining EXCEPT ![i] = left]
      /\ waitingPrefill' = IF left = 0 THEN Without(prefills, i) ELSE prefills
      /\ waitingDecode' = IF left = 0 THEN Append(decodes, i) ELSE decodes
      /\ UNCHANGED <<outputRemaining, firstDecodeStep, lastDecodeStep, widestGap, completedAt>>

Decode(i, prefills, decodes) ==
  LET last == outputRemaining[i] = 1
  IN  /\ firstDecodeStep' = [firstDecodeStep EXCEPT ![i] = IF @ = None THEN tick ELSE @]
      /\ widestGap' = [widestGap EXCEPT ![i] =
           IF lastDecodeStep[i] = None THEN @ ELSE Max({@, tick - lastDecodeStep[i]})]
      /\ lastDecodeStep' = [lastDecodeStep EXCEPT ![i] = tick]
      /\ outputRemaining' = [outputRemaining EXCEPT ![i] = @ - 1]
      /\ completedAt' = [completedAt EXCEPT ![i] = IF last THEN tick + 1 ELSE @]
      /\ waitingPrefill' = prefills
      /\ waitingDecode' = IF last THEN Without(decodes, i) ELSE decodes
      /\ UNCHANGED prefillRemaining

(* One iteration of the loop: what is already prefilled when it arrives goes
   straight to the decode list. *)
NewRequests ==
  Keep([i \in Rids |-> i],
       {i \in Rids : reqs[i].arrival = tick /\ Incomplete(i)})
PrefillQueue == waitingPrefill \o NewRequests
Prefills == Keep(PrefillQueue, {i \in Rids : prefillRemaining[i] # 0})

\* Mutant of Decodes: what has nothing to prefill leaves one list and joins no other.
DecodesOnly == waitingDecode

Decodes == waitingDecode \o Keep(PrefillQueue, {i \in Rids : prefillRemaining[i] = 0})
Selected == Select(Prefills, Decodes)

PrefillStep ==
  /\ tick <= StepLimit              \* bound; above it run() raises RuntimeError
  /\ \E i \in Rids : Incomplete(i)
  /\ \/ Selected.operation = "prefill" /\ Prefill(Selected.request, Prefills, Decodes)
     \/ Selected.operation = "decode" /\ Decode(Selected.request, Prefills, Decodes)
     \/ /\ Selected.operation = "idle"
        /\ waitingPrefill' = Prefills /\ waitingDecode' = Decodes
        /\ UNCHANGED <<prefillRemaining, outputRemaining, firstDecodeStep,
                       lastDecodeStep, widestGap, completedAt>>
  /\ tick' = tick + 1
  /\ UNCHANGED <<reqs, options>>

PrefillSpec == PrefillInit /\ [][PrefillStep]_prefillVars

-----------------------------------------------------------------------------
(* What a prefill of that many tokens takes. *)
ChunksFor(tokens) == (tokens + options.chunk - 1) \div options.chunk
Chunks(i) == ChunksFor(EffectivePrefill(reqs[i]))

\* Every variable has its type, and each count the sign and order it must have.
PrefillTypeOK ==
  /\ reqs \in Seq([arrival : Nat, prompt : Nat, saved : Nat, output : Nat])
  /\ options \in [policy : Policies, chunk : Nat \ {0}, bound : Nat \ {0}]
  /\ tick \in Nat
  /\ waitingPrefill \in Seq(Rids) /\ waitingDecode \in Seq(Rids)
  /\ prefillRemaining \in [Rids -> Nat] /\ outputRemaining \in [Rids -> Int]
  /\ firstDecodeStep \in [Rids -> Int] /\ lastDecodeStep \in [Rids -> Int]
  /\ widestGap \in [Rids -> Nat] /\ completedAt \in [Rids -> Int]
  /\ \A i \in Rids :
       /\ prefillRemaining[i] <= reqs[i].prompt
       /\ reqs[i].output > 0 => outputRemaining[i] \in 0 .. reqs[i].output
       /\ firstDecodeStep[i] \in {None} \cup reqs[i].arrival .. lastDecodeStep[i]
       /\ lastDecodeStep[i] < tick
       /\ completedAt[i] \in {None, lastDecodeStep[i] + 1}

\* Every request that arrived is in the one list its remaining work says.
RequestsPlaced ==
  \A i \in Rids :
    LET there == reqs[i].arrival < tick
    IN  /\ Times(i, waitingPrefill) = IF there /\ prefillRemaining[i] > 0 THEN 1 ELSE 0
        /\ Times(i, waitingDecode)
             = IF there /\ prefillRemaining[i] = 0 /\ Incomplete(i) THEN 1 ELSE 0

FinalArrival == Max({reqs[i].arrival : i \in Rids})
PrefillHorizon ==
  FinalArrival + Total([i \in Rids |-> Chunks(i) + reqs[i].output], Rids)
AllDecode == \A i \in Rids : reqs[i].output > 0

\* The loop ends, and no later than the work there is, exactly if every request
\* has something to decode.
PrefillEndsByHorizon ==
  IF AllDecode THEN (\E i \in Rids : Incomplete(i)) => tick < PrefillHorizon
               ELSE \E i \in Rids : Incomplete(i)

\* How long a request that has begun to decode may wait for its next token.
GapBound(i) ==
  CASE options.policy = "decode_first" -> 1
    [] options.policy = "prefill_first" -> 1 + Total([j \in Rids |-> Chunks(j)], Rids \ {i})
    [] options.policy = "mixed_slo" -> options.bound + Cardinality(Rids \ {i})

\* Whatever arrives meanwhile, no decode waits longer: under the mixed policy each
\* other request goes at most once between a token's being due and its turn.
TokenGapsBounded ==
  \A i \in Rids :
    /\ widestGap[i] <= GapBound(i)
    /\ Incomplete(i) /\ lastDecodeStep[i] # None => tick - lastDecodeStep[i] <= GapBound(i)
=============================================================================
