----------------------- MODULE RequestScheduler_proofs -----------------------
(***************************************************************************)
(* What holds of RequestScheduler for every configuration.  The first half *)
(* is about its bookkeeping: it keeps its types, its registries agree and  *)
(* no wake-up is missed (RegistryInvariant is inductive), and it implements*)
(* RequestLifecycle, and so delivers and counts every outcome once         *)
(* (OutcomeInvariant).  The second half is about what becomes of the       *)
(* requests: every request the scheduler lets go of has been answered,     *)
(* timeouts and failures have their causes and shutdown leaves nothing     *)
(* running (AnswerInvariant); streams end with their marker                *)
(* (StreamInvariant); batches keep to their limits, as the queue and the   *)
(* slots do (BatchInvariant); and overtaking is bounded (QueuedInThePast). *)
(***************************************************************************)
EXTENDS RequestSchedulerProperties, ListsAndSums

\* The sets of requests that are counted are finite, so counters are naturals.
LEMMA CountIsNat ==
  ASSUME NEW S \in SUBSET Requests
  PROVE  IsFiniteSet(S) /\ Cardinality(S) \in Nat
  BY RequestsFinite, FS_Subset, FS_CardinalityType

\* _force_output keeps the buffer a sequence of entries.
LEMMA ForceOutputType ==
  ASSUME NEW buffer \in Seq({"token", "error", "end"})
  PROVE  ForceOutput(buffer) \in Seq({"token", "error", "end"})
<1>1. StreamBufferSize \in Nat \ {0}
  BY ConfigAssumption
<1>2. CASE Len(buffer) < StreamBufferSize
  BY <1>2 DEF ForceOutput
<1>3. CASE ~(Len(buffer) < StreamBufferSize)
  <2>1. buffer # <<>>
    BY <1>1, <1>3
  <2>2. Tail(buffer) \in Seq({"token", "error", "end"})
    BY <2>1
  <2> QED BY <1>3, <2>2 DEF ForceOutput
<1> QED BY <1>2, <1>3

\* put appends an entry to a buffer.
LEMMA PutType ==
  ASSUME OutcomeTypes, NEW t \in Requests, NEW entry \in {"token", "error", "end"}
  PROVE  [output EXCEPT ![t] = Append(@, entry)]
           \in [Requests -> Seq({"token", "error", "end"})]
<1>1. output \in [Requests -> Seq({"token", "error", "end"})]
  BY DEF OutcomeTypes
<1>2. Append(output[t], entry) \in Seq({"token", "error", "end"})
  BY <1>1
<1> QED BY <1>1, <1>2

\* _terminal_error gives its members outcomes of the right type.
LEMMA TerminalErrorTypes ==
  ASSUME OutcomeTypes,
         NEW S \in SUBSET Requests, NEW kind \in [Requests -> ErrorStates],
         TerminalError(S, kind)
  PROVE  OutcomeTypes'
<1>1. ErrorStates \subseteq RequestStates /\ ErrorStates \subseteq Outcomes
  BY DEF ErrorStates, RequestStates, Outcomes, TerminalStates
<1>2. state' \in [Requests -> RequestStates]
  BY <1>1 DEF TerminalError, OutcomeTypes
<1>3. result' \in [Requests -> Outcomes \cup {"pending", "abandoned"}]
  BY <1>1 DEF TerminalError, OutcomeTypes
<1>4. finished' \in [TerminalStates -> Nat]
  <2>1. \A k \in TerminalStates :
          Cardinality({r \in Live(S) : kind[r] = k}) \in Nat
    BY CountIsNat DEF Live
  <2>2. finished' = [k \in TerminalStates |->
                       finished[k] + Cardinality({r \in Live(S) : kind[r] = k})]
    BY DEF TerminalError
  <2>3. \A k \in TerminalStates : finished[k] \in Nat
    BY DEF OutcomeTypes
  <2> HIDE DEF Live
  <2>4. \A k \in TerminalStates :
          finished[k] + Cardinality({r \in Live(S) : kind[r] = k}) \in Nat
    BY <2>1, <2>3
  <2> QED BY <2>2, <2>4
<1>5. output' \in [Requests -> Seq({"token", "error", "end"})]
  <2>1. \A r \in Requests : ForceOutput(output[r]) \in Seq({"token", "error", "end"})
    BY ForceOutputType DEF OutcomeTypes
  <2> QED BY <2>1 DEF TerminalError, OutcomeTypes
<1> QED BY <1>2, <1>3, <1>4, <1>5 DEF OutcomeTypes

\* Completion gives outcomes of the right type.
LEMMA CompleteTypes ==
  ASSUME OutcomeTypes, NEW S \in SUBSET Requests, Complete(S)
  PROVE  /\ state' \in [Requests -> RequestStates]
         /\ result' \in [Requests -> Outcomes \cup {"pending", "abandoned"}]
         /\ finished' \in [TerminalStates -> Nat]
<1>1. "completed" \in RequestStates /\ "completed" \in Outcomes
      /\ "completed" \in TerminalStates
  BY DEF RequestStates, Outcomes, TerminalStates
<1>2. Cardinality(S) \in Nat
  BY CountIsNat
<1> QED BY <1>1, <1>2 DEF Complete, OutcomeTypes

\* cancel keeps every type, whichever of its cases applies.
LEMMA CancelTypes ==
  ASSUME TypeOK, RegistriesAgree,
         NEW r \in Requests, NEW kind \in ErrorStates, Cancel(r, kind)
  PROVE  /\ OutcomeTypes'
         /\ queue' \subseteq Requests /\ items' \subseteq Requests
         /\ cancellation' \in [Requests -> ErrorStates]
         /\ cancelling' \subseteq Requests
         /\ dispatcher' \in {"notified", "waiting", "sleeping", "forming", "stopped"}
<1> USE DEF TypeOK
<1>0. Uniformly(kind) \in [Requests -> ErrorStates] /\ {r} \in SUBSET Requests
  BY DEF Uniformly
<1>1. CASE CancelIgnored(r)
  BY <1>1 DEF CancelIgnored, outcomeVars, OutcomeTypes, RegistryTypes, ItemTypes, TaskTypes
<1>2. CASE CancelAlone(r, kind)
  <2>1. r \in active
    BY <1>2 DEF CancelAlone
  <2>2. batchOf[r] \in Requests
    BY <2>1 DEF RegistriesAgree, ItemTypes
  <2> QED BY <1>2, <2>2 DEF CancelAlone, outcomeVars, OutcomeTypes, RegistryTypes,
             ItemTypes, TaskTypes
<1>3. CASE CancelMember(r, kind)
  <2>1. OutcomeTypes'
    BY <1>0, <1>3, TerminalErrorTypes DEF CancelMember
  <2> QED BY <1>3, <2>1 DEF CancelMember, RegistryTypes, ItemTypes, TaskTypes
<1>4. CASE CancelQueued(r, kind)
  <2>1. OutcomeTypes'
    BY <1>0, <1>4, TerminalErrorTypes DEF CancelQueued
  <2> QED BY <1>4, <2>1 DEF CancelQueued, NotifyAll, RegistryTypes, ItemTypes, TaskTypes
<1> QED BY <1>1, <1>2, <1>3, <1>4 DEF Cancel

-----------------------------------------------------------------------------
(* Types *)

\* The initial values have their types.
LEMMA InitTypes == Init => TypeOK
<1> SUFFICES ASSUME Init PROVE TypeOK
  OBVIOUS
<1>1. OutcomeTypes
  <2>1. <<>> \in Seq({"token", "error", "end"})
    OBVIOUS
  <2> QED BY <2>1 DEF Init, OutcomeTypes, RequestStates
<1>2. RegistryTypes /\ ItemTypes /\ TaskTypes /\ WorldTypes
  BY DEF Init, RegistryTypes, ItemTypes, ErrorStates, TaskTypes, TaskStates, WorldTypes
<1> QED BY <1>1, <1>2 DEF TypeOK

\* Evaluating the predicate of wait_for leaves the dispatcher somewhere it may be.
LEMMA AfterWaitForType ==
  ASSUME NEW queued, NEW running
  PROVE  AfterWaitFor(queued, running)
           \in {"notified", "waiting", "sleeping", "forming", "stopped"}
  BY DEF AfterWaitFor

\* A step of a batch task keeps every type.
LEMMA TaskStepTypes ==
  ASSUME TypeOK, NEW t \in Requests, TaskStep(t)
  PROVE  TypeOK'
<1> USE DEF TypeOK
<1>0. Members(t) \in SUBSET Requests
      /\ Uniformly("failed") \in [Requests -> ErrorStates]
      /\ Uniformly("timed_out") \in [Requests -> ErrorStates]
  BY DEF Members, Uniformly, ErrorStates
<1>1. ASSUME UNCHANGED <<registryVars, itemVars, cancelling, dispatcher, worldVars>>,
             TaskEnds(t)
      PROVE  RegistryTypes' /\ ItemTypes' /\ TaskTypes' /\ WorldTypes'
  BY <1>1 DEF registryVars, itemVars, worldVars, TaskEnds, RegistryTypes, ItemTypes,
              TaskTypes, TaskStates, WorldTypes
<1>2. CASE StartTask(t)
  BY <1>2 DEF StartTask, registryVars, itemVars, worldVars, OutcomeTypes, RequestStates,
              RegistryTypes, ItemTypes, TaskTypes, TaskStates, WorldTypes
<1>3. CASE StartRaises(t)
  BY <1>0, <1>1, <1>3, TerminalErrorTypes DEF StartRaises
<1>4. CASE BackendReturns(t)
  <2>1. Receivers(t) \in SUBSET Requests
    BY DEF Receivers, Members
  <2>2. Complete(Receivers(t)) /\ output' = output
    BY <1>4 DEF BackendReturns
  <2>3. OutcomeTypes'
    BY <2>1, <2>2, CompleteTypes DEF OutcomeTypes
  <2> QED BY <1>1, <1>4, <2>3 DEF BackendReturns
<1>5. CASE BackendFails(t)
  BY <1>0, <1>1, <1>5, TerminalErrorTypes DEF BackendFails
<1>6. CASE StreamYields(t)
  <2>1. output' \in [Requests -> Seq({"token", "error", "end"})]
    BY <1>6, PutType DEF StreamYields, OutcomeTypes
  <2>2. pc' \in [Requests -> TaskStates]
    BY <1>6 DEF StreamYields, TaskTypes, TaskStates
  <2>3. generated' \in [Requests -> Nat]
    BY <1>6 DEF StreamYields, ItemTypes
  <2>4. state' \in [Requests -> RequestStates]
    BY <1>6 DEF StreamYields, OutcomeTypes, RequestStates
  <2> QED BY <1>6, <2>1, <2>2, <2>3, <2>4 DEF StreamYields, registryVars, worldVars,
             OutcomeTypes, RegistryTypes, ItemTypes, TaskTypes, WorldTypes
<1>7. CASE StreamEnds(t)
  <2>1. output' \in [Requests -> Seq({"token", "error", "end"})]
    BY <1>7, PutType DEF StreamEnds, OutcomeTypes
  <2>2. pc' \in [Requests -> TaskStates]
    BY <1>7 DEF StreamEnds, TaskEnds, TaskTypes, TaskStates
  <2>3. OutcomeTypes'
    BY <1>7, <2>1, CompleteTypes DEF StreamEnds, OutcomeTypes
  <2> QED BY <1>7, <2>2, <2>3 DEF StreamEnds, registryVars, itemVars, worldVars,
             RegistryTypes, ItemTypes, TaskTypes, WorldTypes
<1>8. CASE PutResumes(t)
  <2>1. output' \in [Requests -> Seq({"token", "error", "end"})]
    <3>1. \A e \in {"token", "error", "end"} :
            [output EXCEPT ![t] = Append(@, e)] \in [Requests -> Seq({"token", "error", "end"})]
      BY PutType
    <3>2. \E e \in {"token", "end"} : output' = [output EXCEPT ![t] = Append(@, e)]
      BY <1>8 DEF PutResumes
    <3> QED BY <3>1, <3>2
  <2>2. pc' \in [Requests -> TaskStates]
    BY <1>8 DEF PutResumes, TaskEnds, TaskTypes, TaskStates
  <2> QED BY <1>8, <2>1, <2>2 DEF PutResumes, registryVars, itemVars, worldVars,
             OutcomeTypes, RegistryTypes, ItemTypes, TaskTypes, WorldTypes
<1>9. CASE TimeoutFires(t)
  BY <1>0, <1>1, <1>9, TerminalErrorTypes DEF TimeoutFires
<1>10. CASE CancelDelivered(t)
  <2>1. OutcomeTypes'
    <3>1. CASE pc[t] = "created"
      BY <1>10, <3>1 DEF CancelDelivered, HandleCancel, outcomeVars, OutcomeTypes
    <3>2. CASE pc[t] # "created"
      BY <1>0, <1>10, <3>2, TerminalErrorTypes DEF CancelDelivered, HandleCancel, ItemTypes
    <3> QED BY <3>1, <3>2
  <2> QED BY <1>1, <1>10, <2>1 DEF CancelDelivered
<1>11. CASE Finished(t)
  BY <1>11 DEF Finished, Forget, NotifyAll, outcomeVars, itemVars, worldVars,
     OutcomeTypes, RegistryTypes, ItemTypes, TaskTypes, TaskStates, WorldTypes
<1> QED BY <1>2, <1>3, <1>4, <1>5, <1>6, <1>7, <1>8, <1>9, <1>10, <1>11 DEF TaskStep

\* A step of a client, a deadline or admission keeps every type.
LEMMA RequestStepTypes ==
  ASSUME TypeOK, RegistriesAgree, NEW r \in Requests, RequestStep(r)
  PROVE  TypeOK'
<1> USE DEF TypeOK
<1>0. /\ "cancelled" \in ErrorStates /\ "timed_out" \in ErrorStates
      /\ Stream \subseteq Requests
  BY ConfigAssumption DEF ErrorStates
<1>1. ASSUME NEW kind \in ErrorStates, Cancel(r, kind), NEW value \in {"none", "armed", "fired"},
             AlarmBecomes(r, value),
             UNCHANGED <<active, sequence, enqueuedAt, batchOf, generated, pc, submitted,
                         now, expired, phase>>,
             reading' \subseteq reading
      PROVE  TypeOK'
  <2>1. alarm' \in [Requests -> {"none", "armed", "fired"}]
    BY <1>1 DEF AlarmBecomes, RegistryTypes
  <2> QED BY <1>1, <2>1, CancelTypes DEF RegistryTypes, ItemTypes, TaskTypes, WorldTypes
<1>2. CASE Submit(r)
  BY <1>0, <1>2 DEF Submit, InitialAlarm, NotifyAll, OutcomeTypes, RequestStates,
     RegistryTypes, ItemTypes, TaskTypes, WorldTypes
<1>3. CASE Reject(r)
  <2>1. "rejected" \in RequestStates /\ "rejected" \in TerminalStates
    BY DEF RequestStates, TerminalStates
  <2> QED BY <1>3, <2>1 DEF Reject, registryVars, itemVars, taskVars, worldVars,
             OutcomeTypes, RegistryTypes, ItemTypes, TaskTypes, WorldTypes
<1>4. CASE CancelRequest(r)
  <2>1. alarm[r] \in {"none", "armed", "fired"}
    BY DEF RegistryTypes
  <2> QED BY <1>0, <1>1, <1>4, <2>1 DEF CancelRequest, worldVars
<1>5. CASE DeadlinePasses(r)
  BY <1>5 DEF DeadlinePasses, outcomeVars, registryVars, itemVars, taskVars,
     OutcomeTypes, RegistryTypes, ItemTypes, TaskTypes, WorldTypes
<1>6. CASE Expire(r)
  BY <1>0, <1>1, <1>6 DEF Expire, worldVars
<1>7. CASE ClientReads(r)
  <2>1. Tail(output[r]) \in Seq({"token", "error", "end"})
    BY <1>7 DEF ClientReads, OutcomeTypes
  <2>2. OutcomeTypes'
    BY <1>7, <2>1 DEF ClientReads, OutcomeTypes
  <2> QED BY <1>7, <2>2 DEF ClientReads, registryVars, itemVars, taskVars,
             RegistryTypes, ItemTypes, TaskTypes, WorldTypes
<1>8. CASE ClientDisconnects(r)
  <2>1. alarm[r] \in {"none", "armed", "fired"} /\ reading' \subseteq reading
    BY <1>8 DEF ClientDisconnects, RegistryTypes
  <2> QED BY <1>0, <1>1, <1>8, <2>1 DEF ClientDisconnects
<1>9. CASE HandlerCancelled(r)
  BY <1>9 DEF HandlerCancelled, registryVars, itemVars, taskVars, worldVars,
     OutcomeTypes, RegistryTypes, ItemTypes, TaskTypes, WorldTypes
<1> QED BY <1>2, <1>3, <1>4, <1>5, <1>6, <1>7, <1>8, <1>9 DEF RequestStep

\* A step of the dispatcher keeps every type.
LEMMA DispatcherStepTypes ==
  ASSUME TypeOK, DispatcherWakes \/ DispatchNothing \/ Dispatch
  PROVE  TypeOK'
<1> USE DEF TypeOK
<1>1. CASE DispatcherWakes
  BY <1>1, AfterWaitForType DEF DispatcherWakes, outcomeVars, registryVars, itemVars,
     worldVars, OutcomeTypes, RegistryTypes, ItemTypes, TaskTypes, WorldTypes
<1>2. CASE DispatchNothing
  BY <1>2, AfterWaitForType DEF DispatchNothing, outcomeVars, registryVars, itemVars,
     worldVars, OutcomeTypes, RegistryTypes, ItemTypes, TaskTypes, WorldTypes
<1>3. CASE Dispatch
  <2>1. PICK batch \in SUBSET queue : \E seed \in batch :
          /\ FormBatch(seed, batch)
          /\ queue' = queue \ batch
          /\ active' = active \cup batch
          /\ batchOf' = [r \in Requests |-> IF r \in batch THEN seed ELSE batchOf[r]]
          /\ pc' = [pc EXCEPT ![seed] = "created"]
    BY <1>3 DEF Dispatch
  <2>2. PICK seed \in batch :
          /\ queue' = queue \ batch
          /\ active' = active \cup batch
          /\ batchOf' = [r \in Requests |-> IF r \in batch THEN seed ELSE batchOf[r]]
          /\ pc' = [pc EXCEPT ![seed] = "created"]
    BY <2>1
  <2>3. seed \in Requests /\ batch \subseteq Requests
    BY DEF RegistryTypes
  <2>4. batchOf' \in [Requests -> Requests \cup {None}] /\ pc' \in [Requests -> TaskStates]
    BY <2>2, <2>3 DEF ItemTypes, TaskTypes, TaskStates
  <2>5. dispatcher' \in {"notified", "waiting", "sleeping", "forming", "stopped"}
    BY <1>3, AfterWaitForType DEF Dispatch
  <2> QED BY <1>3, <2>2, <2>3, <2>4, <2>5 DEF Dispatch, outcomeVars, worldVars,
             OutcomeTypes, RegistryTypes, ItemTypes, TaskTypes, WorldTypes
<1> QED BY <1>1, <1>2, <1>3

\* The end of the lifespan keeps every type.
LEMMA LifespanStepTypes ==
  ASSUME TypeOK, LifespanStep
  PROVE  TypeOK'
<1> USE DEF TypeOK
<1>1. CASE StopDispatcher
  BY <1>1 DEF StopDispatcher, outcomeVars, registryVars, itemVars, OutcomeTypes,
     RegistryTypes, ItemTypes, TaskTypes, WorldTypes
<1>2. CASE CancelQueue
  <2> DEFINE cancelled == {r \in queue : result[r] = "pending"}
  <2>1. cancelled \in SUBSET Requests /\ Uniformly("cancelled") \in [Requests -> ErrorStates]
    BY DEF RegistryTypes, Uniformly, ErrorStates
  <2>2. TerminalError(cancelled, Uniformly("cancelled"))
    BY <1>2 DEF CancelQueue
  <2>3. OutcomeTypes'
    BY <2>1, <2>2, TerminalErrorTypes
  <2> QED BY <1>2, <2>3 DEF CancelQueue, Forget, itemVars, taskVars,
             RegistryTypes, ItemTypes, TaskTypes, WorldTypes
<1>3. CASE GraceEnds
  BY <1>3 DEF GraceEnds, outcomeVars, registryVars, itemVars, OutcomeTypes,
     RegistryTypes, ItemTypes, TaskTypes, WorldTypes
<1>4. CASE Unload
  BY <1>4 DEF Unload, outcomeVars, registryVars, itemVars, taskVars, OutcomeTypes,
     RegistryTypes, ItemTypes, TaskTypes, WorldTypes
<1> QED BY <1>1, <1>2, <1>3, <1>4 DEF LifespanStep

\* Every step keeps every type.  Cancelling a request that holds a slot relies on
\* its having a batch, hence on RegistriesAgree.
LEMMA StepTypes ==
  ASSUME TypeOK, RegistriesAgree, [Next]_vars
  PROVE  TypeOK'
<1>1. CASE Tick
  BY <1>1 DEF Tick, outcomeVars, registryVars, itemVars, taskVars, TypeOK, OutcomeTypes,
     RegistryTypes, ItemTypes, TaskTypes, WorldTypes
<1>2. CASE UNCHANGED vars
  BY <1>2 DEF vars, outcomeVars, registryVars, itemVars, taskVars, worldVars, TypeOK,
     OutcomeTypes, RegistryTypes, ItemTypes, TaskTypes, WorldTypes
<1> QED BY <1>1, <1>2, TaskStepTypes, RequestStepTypes, DispatcherStepTypes,
           LifespanStepTypes DEF Next

-----------------------------------------------------------------------------
(* Registries *)

\* The initial registries are empty.
LEMMA InitRegistries == Init => RegistriesAgree /\ BatchesNamed
  BY DEF Init, RegistriesAgree, BatchesNamed

\* A step that leaves the registries and the batches alone, reaps no task and
\* makes no request validated again keeps the registries in agreement.
LEMMA QuietStep ==
  ASSUME RegistriesAgree, BatchesNamed, TypeOK,
         UNCHANGED <<registryVars, batchOf>>,
         \A t \in Requests : pc'[t] = "reaped" <=> pc[t] = "reaped",
         \A r \in Requests : state'[r] = "validated" => state[r] = "validated"
  PROVE  RegistriesAgree' /\ BatchesNamed'
<1>1. \A r \in Requests : batchOf[r] # None => batchOf[r] \in Requests
  BY DEF TypeOK, ItemTypes
<1>2. RegistriesAgree'
  BY <1>1 DEF RegistriesAgree, registryVars
<1>3. BatchesNamed'
  BY DEF BatchesNamed, registryVars
<1> QED BY <1>2, <1>3

\* _terminal_error and completion never make a request validated.
LEMMA TerminalErrorEnds ==
  ASSUME NEW S \in SUBSET Requests, NEW kind \in [Requests -> ErrorStates],
         TerminalError(S, kind)
  PROVE  \A r \in Requests : state'[r] = "validated" => state[r] = "validated"
<1>1. \A r \in Requests : kind[r] # "validated"
  BY DEF ErrorStates
<1> QED BY <1>1 DEF TerminalError

\* A step of a batch task keeps the registries in agreement.  Only Finished
\* touches them: it drops the members of the batch, none of whom is queued.
LEMMA TaskStepRegistries ==
  ASSUME TypeOK, RegistriesAgree, BatchesNamed, NEW t \in Requests, TaskStep(t)
  PROVE  RegistriesAgree' /\ BatchesNamed'
<1>0. /\ Members(t) \in SUBSET Requests
      /\ Uniformly("failed") \in [Requests -> ErrorStates]
      /\ Uniformly("timed_out") \in [Requests -> ErrorStates]
      /\ cancellation \in [Requests -> ErrorStates]
      /\ pc \in [Requests -> TaskStates]
      /\ state \in [Requests -> RequestStates]
  BY DEF Members, Uniformly, ErrorStates, TypeOK, OutcomeTypes, ItemTypes, TaskTypes
<1>1. ASSUME TaskEnds(t), pc[t] # "reaped"
      PROVE  \A u \in Requests : pc'[u] = "reaped" <=> pc[u] = "reaped"
  BY <1>0, <1>1 DEF TaskEnds
<1>2. CASE StartTask(t)
  BY <1>0, <1>2, QuietStep DEF StartTask, itemVars
<1>3. CASE StartRaises(t)
  BY <1>0, <1>1, <1>3, QuietStep, TerminalErrorEnds DEF StartRaises, itemVars
<1>4. CASE BackendReturns(t)
  BY <1>0, <1>1, <1>4, QuietStep DEF BackendReturns, Generating, Complete, itemVars
<1>5. CASE BackendFails(t)
  BY <1>0, <1>1, <1>5, QuietStep, TerminalErrorEnds DEF BackendFails, Generating, itemVars
<1>6. CASE StreamYields(t)
  <2>1. \A u \in Requests : pc'[u] = "reaped" <=> pc[u] = "reaped"
    BY <1>0, <1>6 DEF StreamYields, Generating
  <2>2. \A r \in Requests : state'[r] = "validated" => state[r] = "validated"
    BY <1>0, <1>6 DEF StreamYields
  <2> QED BY <1>6, <2>1, <2>2, QuietStep DEF StreamYields
<1>7. CASE StreamEnds(t)
  <2>1. \A u \in Requests : pc'[u] = "reaped" <=> pc[u] = "reaped"
    BY <1>0, <1>7 DEF StreamEnds, Generating, TaskEnds
  <2>2. \A r \in Requests : state'[r] = "validated" => state[r] = "validated"
    BY <1>0, <1>7 DEF StreamEnds, Complete
  <2> QED BY <1>7, <2>1, <2>2, QuietStep DEF StreamEnds, itemVars
<1>8. CASE PutResumes(t)
  <2>1. \A u \in Requests : pc'[u] = "reaped" <=> pc[u] = "reaped"
    BY <1>0, <1>8 DEF PutResumes, TaskEnds
  <2> QED BY <1>8, <2>1, QuietStep DEF PutResumes, itemVars
<1>9. CASE TimeoutFires(t)
  <2>1. pc[t] # "reaped"
    BY <1>9 DEF TimeoutFires
  <2> QED BY <1>0, <1>1, <1>9, <2>1, QuietStep, TerminalErrorEnds DEF TimeoutFires, itemVars
<1>10. CASE CancelDelivered(t)
  <2>1. pc[t] # "reaped"
    BY <1>10 DEF CancelDelivered, Unfinished
  <2>2. \A r \in Requests : state'[r] = "validated" => state[r] = "validated"
    BY <1>0, <1>10, TerminalErrorEnds DEF CancelDelivered, HandleCancel, outcomeVars
  <2> QED BY <1>1, <1>10, <2>1, <2>2, QuietStep DEF CancelDelivered, itemVars
<1>11. CASE Finished(t)
  <2>1. /\ pc' = [pc EXCEPT ![t] = "reaped"] /\ pc[t] # "reaped"
        /\ active' = active \ Members(t) /\ Forget(Members(t))
        /\ UNCHANGED <<state, queue, batchOf>>
    BY <1>11 DEF Finished, HasFinished, outcomeVars, itemVars
  <2>2. \A r \in Requests : r \in Members(t) <=> batchOf[r] = t
    BY DEF Members
  <2>3. Members(t) \cap queue = {}
    BY <2>2, ConfigAssumption DEF BatchesNamed, TypeOK, RegistryTypes
  <2>4. items' = queue' \cup active' /\ queue' \cap active' = {}
    BY <2>1, <2>3 DEF RegistriesAgree, Forget
  <2>5. \A r \in Requests : alarm'[r] # "none" <=> r \in items'
    BY <2>1 DEF RegistriesAgree, Forget
  <2>6. \A r \in Requests : pc'[r] = IF r = t THEN "reaped" ELSE pc[r]
    BY <1>0, <2>1
  <2>7. \A r \in Requests :
          r \in active' <=> batchOf'[r] # None /\ pc'[batchOf'[r]] # "reaped"
    <3> SUFFICES ASSUME NEW r \in Requests
                 PROVE  r \in active' <=> batchOf[r] # None /\ pc'[batchOf[r]] # "reaped"
      BY <2>1
    <3>1. batchOf[r] # None => batchOf[r] \in Requests
      BY DEF TypeOK, ItemTypes
    <3>2. r \in active <=> batchOf[r] # None /\ pc[batchOf[r]] # "reaped"
      BY DEF RegistriesAgree
    <3> QED BY <2>1, <2>2, <2>6, <3>1, <3>2, ConfigAssumption
  <2>8. BatchesNamed'
    BY <2>1 DEF BatchesNamed, Forget
  <2> QED BY <2>4, <2>5, <2>7, <2>8 DEF RegistriesAgree
<1> QED BY <1>2, <1>3, <1>4, <1>5, <1>6, <1>7, <1>8, <1>9, <1>10, <1>11 DEF TaskStep

\* cancel keeps the registries in agreement: only a queued request leaves them,
\* and the deadline task goes with it.
LEMMA CancelRegistries ==
  ASSUME TypeOK, RegistriesAgree, BatchesNamed,
         NEW r \in Requests, NEW kind \in ErrorStates, Cancel(r, kind),
         NEW value, AlarmBecomes(r, value), r \in items => value # "none",
         UNCHANGED <<active, batchOf, pc>>
  PROVE  RegistriesAgree' /\ BatchesNamed'
<1>0. /\ Uniformly(kind) \in [Requests -> ErrorStates] /\ {r} \in SUBSET Requests
      /\ alarm \in [Requests -> {"none", "armed", "fired"}]
      /\ \A s \in Requests : batchOf[s] # None => batchOf[s] \in Requests
  BY DEF Uniformly, TypeOK, RegistryTypes, ItemTypes
<1>1. \A s \in Requests : state'[s] = "validated" => state[s] = "validated"
  BY <1>0, TerminalErrorEnds
     DEF Cancel, CancelIgnored, CancelAlone, CancelMember, CancelQueued, outcomeVars
<1>2. \/ queue' = queue /\ items' = items
      \/ r \notin active /\ queue' = queue \ {r} /\ items' = items \ {r}
  BY DEF Cancel, CancelIgnored, CancelAlone, CancelMember, CancelQueued
<1>3. items' = queue' \cup active' /\ queue' \cap active' = {}
  BY <1>2 DEF RegistriesAgree
<1>4. \A s \in Requests : alarm'[s] # "none" <=> s \in items'
  <2>1. \A s \in Requests : alarm[s] # "none" <=> s \in items
    BY DEF RegistriesAgree
  <2>2. items' \subseteq items /\ items \ items' \subseteq {r}
    BY <1>2
  <2> QED BY <1>0, <2>1, <2>2 DEF AlarmBecomes
<1>5. \A s \in Requests :
        s \in active' <=> batchOf'[s] # None /\ pc'[batchOf'[s]] # "reaped"
  BY <1>0 DEF RegistriesAgree
<1>6. BatchesNamed'
  BY <1>1, <1>2 DEF BatchesNamed
<1> QED BY <1>3, <1>4, <1>5, <1>6 DEF RegistriesAgree

\* A step of a client, a deadline or admission keeps the registries in agreement.
LEMMA RequestStepRegistries ==
  ASSUME TypeOK, RegistriesAgree, BatchesNamed, NEW r \in Requests, RequestStep(r)
  PROVE  RegistriesAgree' /\ BatchesNamed'
<1>0. "cancelled" \in ErrorStates /\ "timed_out" \in ErrorStates
  BY DEF ErrorStates
<1>1. /\ r \in items => alarm[r] # "none"
      /\ state \in [Requests -> RequestStates]
  BY DEF RegistriesAgree, TypeOK, OutcomeTypes
<1>2. CASE Submit(r)
  <2>1. /\ state[r] = "validated" /\ state' = [state EXCEPT ![r] = "queued"]
        /\ queue' = queue \cup {r} /\ items' = items \cup {r}
        /\ alarm' = [alarm EXCEPT ![r] = InitialAlarm(r)]
        /\ UNCHANGED <<active, batchOf, pc>>
    BY <1>2 DEF Submit
  <2>2. r \notin items /\ batchOf[r] = None /\ InitialAlarm(r) # "none"
    BY <2>1 DEF BatchesNamed, InitialAlarm
  <2>3. items' = queue' \cup active' /\ queue' \cap active' = {}
    BY <2>1, <2>2 DEF RegistriesAgree
  <2>4. \A s \in Requests : alarm'[s] # "none" <=> s \in items'
    BY <2>1, <2>2 DEF RegistriesAgree, TypeOK, RegistryTypes
  <2>5. \A s \in Requests :
          s \in active' <=> batchOf'[s] # None /\ pc'[batchOf'[s]] # "reaped"
    BY <2>1 DEF RegistriesAgree
  <2>6. BatchesNamed'
    BY <1>1, <2>1, <2>2 DEF BatchesNamed
  <2> QED BY <2>3, <2>4, <2>5, <2>6 DEF RegistriesAgree
<1>3. CASE Reject(r)
  BY <1>1, <1>3, QuietStep DEF Reject, itemVars, taskVars
<1>4. CASE CancelRequest(r)
  BY <1>0, <1>1, <1>4, CancelRegistries DEF CancelRequest
<1>5. CASE DeadlinePasses(r)
  BY <1>5, QuietStep DEF DeadlinePasses, outcomeVars, itemVars, taskVars
<1>6. CASE Expire(r)
  <2>1. "fired" # "none"
    OBVIOUS
  <2> QED BY <1>0, <1>6, <2>1, CancelRegistries DEF Expire
<1>7. CASE ClientReads(r)
  BY <1>7, QuietStep DEF ClientReads, itemVars, taskVars
<1>8. CASE ClientDisconnects(r)
  BY <1>0, <1>1, <1>8, CancelRegistries DEF ClientDisconnects
<1>9. CASE HandlerCancelled(r)
  BY <1>9, QuietStep DEF HandlerCancelled, itemVars, taskVars
<1> QED BY <1>2, <1>3, <1>4, <1>5, <1>6, <1>7, <1>8, <1>9 DEF RequestStep

\* A step of the dispatcher keeps the registries in agreement: a batch is named
\* after a member that had no batch, so its name was nobody's.
LEMMA DispatcherStepRegistries ==
  ASSUME TypeOK, RegistriesAgree, BatchesNamed, DispatcherWakes \/ DispatchNothing \/ Dispatch
  PROVE  RegistriesAgree' /\ BatchesNamed'
<1>1. CASE DispatcherWakes
  BY <1>1, QuietStep DEF DispatcherWakes, outcomeVars, itemVars
<1>2. CASE DispatchNothing
  BY <1>2, QuietStep DEF DispatchNothing, outcomeVars, itemVars
<1>3. CASE Dispatch
  <2>1. PICK batch \in SUBSET queue : \E seed \in batch :
          /\ queue' = queue \ batch
          /\ active' = active \cup batch
          /\ batchOf' = [r \in Requests |-> IF r \in batch THEN seed ELSE batchOf[r]]
          /\ pc' = [pc EXCEPT ![seed] = "created"]
    BY <1>3 DEF Dispatch
  <2>2. PICK seed \in batch :
          /\ queue' = queue \ batch
          /\ active' = active \cup batch
          /\ batchOf' = [r \in Requests |-> IF r \in batch THEN seed ELSE batchOf[r]]
          /\ pc' = [pc EXCEPT ![seed] = "created"]
    BY <2>1
  <2>3. UNCHANGED <<state, items, alarm>>
    BY <1>3 DEF Dispatch, outcomeVars
  <2>4. /\ batch \subseteq Requests /\ seed \in Requests /\ seed # None
        /\ pc \in [Requests -> TaskStates]
        /\ \A r \in Requests : batchOf[r] # None => batchOf[r] \in Requests
    BY ConfigAssumption DEF TypeOK, RegistryTypes, ItemTypes, TaskTypes
  <2>5. \A r \in batch : batchOf[r] = None
    BY <2>4 DEF BatchesNamed
  <2>6. \A r \in Requests : batchOf[r] \notin batch
    BY <2>4, <2>5, ConfigAssumption DEF BatchesNamed
  <2>7. items' = queue' \cup active' /\ queue' \cap active' = {}
    BY <2>2, <2>3 DEF RegistriesAgree
  <2>8. \A r \in Requests :
          r \in active' <=> batchOf'[r] # None /\ pc'[batchOf'[r]] # "reaped"
    <3> SUFFICES ASSUME NEW r \in Requests
                 PROVE  r \in active' <=> batchOf'[r] # None /\ pc'[batchOf'[r]] # "reaped"
      OBVIOUS
    <3>1. CASE r \in batch
      BY <2>2, <2>4, <3>1
    <3>2. CASE r \notin batch
      <4>1. batchOf'[r] = batchOf[r]
        BY <2>2, <3>2
      <4>2. batchOf[r] # None => pc'[batchOf[r]] = pc[batchOf[r]]
        BY <2>2, <2>4, <2>6
      <4> QED BY <2>2, <3>2, <4>1, <4>2 DEF RegistriesAgree
    <3> QED BY <3>1, <3>2
  <2>9. BatchesNamed'
    <3> SUFFICES ASSUME NEW r \in Requests
                 PROVE  /\ batchOf'[r] # None => batchOf'[batchOf'[r]] = batchOf'[r]
                        /\ r \in queue' => batchOf'[r] = None
                        /\ state'[r] = "validated" => r \notin items' /\ batchOf'[r] = None
      BY DEF BatchesNamed
    <3>1. CASE r \in batch
      <4>1. r \in items /\ r \notin queue'
        BY <2>2, <3>1 DEF RegistriesAgree
      <4> QED BY <2>2, <2>3, <2>4, <3>1, <4>1 DEF BatchesNamed
    <3>2. CASE r \notin batch
      BY <2>2, <2>3, <2>4, <2>6, <3>2 DEF BatchesNamed
    <3> QED BY <3>1, <3>2
  <2> QED BY <2>3, <2>7, <2>8, <2>9 DEF RegistriesAgree
<1> QED BY <1>1, <1>2, <1>3

\* The end of the lifespan keeps the registries in agreement.
LEMMA LifespanStepRegistries ==
  ASSUME TypeOK, RegistriesAgree, BatchesNamed, LifespanStep
  PROVE  RegistriesAgree' /\ BatchesNamed'
<1>1. CASE StopDispatcher
  BY <1>1, QuietStep DEF StopDispatcher, outcomeVars, itemVars
<1>2. CASE CancelQueue
  <2> DEFINE cancelled == {r \in queue : result[r] = "pending"}
  <2>1. /\ cancelled \in SUBSET Requests /\ cancelled \subseteq queue
        /\ Uniformly("cancelled") \in [Requests -> ErrorStates]
    BY DEF TypeOK, RegistryTypes, Uniformly, ErrorStates
  <2>2. /\ TerminalError(cancelled, Uniformly("cancelled"))
        /\ queue' = queue \ cancelled /\ Forget(cancelled)
        /\ UNCHANGED <<active, batchOf, pc>>
    BY <1>2 DEF CancelQueue, itemVars, taskVars
  <2> HIDE DEF cancelled
  <2>3. \A r \in Requests : state'[r] = "validated" => state[r] = "validated"
    BY <2>1, <2>2, TerminalErrorEnds
  <2>4. items' = queue' \cup active' /\ queue' \cap active' = {}
    BY <2>1, <2>2 DEF RegistriesAgree, Forget
  <2>5. \A r \in Requests : alarm'[r] # "none" <=> r \in items'
    BY <2>2 DEF RegistriesAgree, Forget
  <2>6. \A r \in Requests :
          r \in active' <=> batchOf'[r] # None /\ pc'[batchOf'[r]] # "reaped"
    BY <2>2 DEF RegistriesAgree
  <2>7. BatchesNamed'
    BY <2>2, <2>3 DEF BatchesNamed, Forget
  <2> QED BY <2>4, <2>5, <2>6, <2>7 DEF RegistriesAgree
<1>3. CASE GraceEnds
  BY <1>3, QuietStep DEF GraceEnds, outcomeVars, itemVars
<1>4. CASE Unload
  BY <1>4, QuietStep DEF Unload, outcomeVars, itemVars, taskVars
<1> QED BY <1>1, <1>2, <1>3, <1>4 DEF LifespanStep

-----------------------------------------------------------------------------
(* The theorems *)

\* RegistryInvariant is inductive.
LEMMA RegistryInvariantInductive ==
  /\ Init => RegistryInvariant
  /\ RegistryInvariant /\ [Next]_vars => RegistryInvariant'
<1>1. Init => RegistryInvariant
  BY InitTypes, InitRegistries DEF RegistryInvariant
<1>2. ASSUME RegistryInvariant, [Next]_vars PROVE RegistryInvariant'
  <2>1. TypeOK /\ RegistriesAgree /\ BatchesNamed
    BY <1>2 DEF RegistryInvariant
  <2>2. TypeOK'
    BY <1>2, <2>1, StepTypes
  <2>3. ASSUME Tick PROVE RegistriesAgree' /\ BatchesNamed'
    BY <2>1, <2>3, QuietStep DEF Tick, outcomeVars, itemVars, taskVars
  <2>4. ASSUME UNCHANGED vars PROVE RegistriesAgree' /\ BatchesNamed'
    BY <2>1, <2>4, QuietStep DEF vars, outcomeVars, itemVars, taskVars
  <2>5. RegistriesAgree' /\ BatchesNamed'
    BY <1>2, <2>1, <2>3, <2>4, TaskStepRegistries, RequestStepRegistries,
       DispatcherStepRegistries, LifespanStepRegistries DEF Next
  <2> QED BY <2>2, <2>5 DEF RegistryInvariant
<1> QED BY <1>1, <1>2

\* In every run, whatever the configuration, every variable has its type.
THEOREM TypeCorrect == Spec => []TypeOK
<1>1. RegistryInvariant => TypeOK
  BY DEF RegistryInvariant
<1> QED BY <1>1, RegistryInvariantInductive, PTL DEF Spec

\* In every run the registries of the scheduler agree: no item, slot or deadline
\* task is leaked or released twice, whatever interleaving of completion,
\* cancellation, deadlines and shutdown ends the request.
THEOREM RegistriesCorrect == Spec => []RegistriesAgree
<1>1. RegistryInvariant => RegistriesAgree
  BY DEF RegistryInvariant
<1> QED BY <1>1, RegistryInvariantInductive, PTL DEF Spec

-----------------------------------------------------------------------------
(* Wake-ups *)

\* A step either wakes a waiting dispatcher or gives it nothing to do: only
\* admission enlarges the queue and only _finished frees slots.
LEMMA WakeupKept ==
  NoMissedWakeup /\ [Next]_vars => NoMissedWakeup'
<1> SUFFICES ASSUME NoMissedWakeup, [Next]_vars, dispatcher' = "waiting"
             PROVE  ~CanDispatch(queue', active')
  BY DEF NoMissedWakeup, CanDispatch
<1>1. ASSUME dispatcher = "waiting", queue' \subseteq queue, active' = active
      PROVE  ~CanDispatch(queue', active')
  BY <1>1 DEF NoMissedWakeup, CanDispatch
<1>2. \A queued, running :
        AfterWaitFor(queued, running) = "waiting" => ~CanDispatch(queued, running)
  BY DEF AfterWaitFor
<1>3. NotifyAll => dispatcher' # "waiting"
  BY DEF NotifyAll
<1>4. CASE DispatcherWakes \/ DispatchNothing
  BY <1>2, <1>4 DEF DispatcherWakes, DispatchNothing, registryVars
<1>5. CASE Dispatch
  BY <1>2, <1>5 DEF Dispatch
<1>6. ASSUME NEW t \in Requests, TaskStep(t) PROVE ~CanDispatch(queue', active')
  BY <1>1, <1>3, <1>6 DEF TaskStep, StartTask, StartRaises, BackendReturns, BackendFails,
     StreamYields, StreamEnds, PutResumes, TimeoutFires, CancelDelivered, Finished,
     registryVars
<1>7. ASSUME NEW r \in Requests, NEW kind, Cancel(r, kind), active' = active
      PROVE  ~CanDispatch(queue', active')
  BY <1>1, <1>3, <1>7 DEF Cancel, CancelIgnored, CancelAlone, CancelMember, CancelQueued
<1>8. ASSUME NEW r \in Requests, RequestStep(r) PROVE ~CanDispatch(queue', active')
  <2>1. CASE CancelRequest(r) \/ Expire(r) \/ ClientDisconnects(r)
    BY <1>7, <2>1 DEF CancelRequest, Expire, ClientDisconnects
  <2>2. CASE Submit(r)
    BY <1>3, <2>2 DEF Submit
  <2>3. CASE Reject(r) \/ DeadlinePasses(r) \/ ClientReads(r) \/ HandlerCancelled(r)
    BY <1>1, <2>3 DEF Reject, DeadlinePasses, ClientReads, HandlerCancelled, registryVars,
       taskVars
  <2> QED BY <1>8, <2>1, <2>2, <2>3 DEF RequestStep
<1>9. CASE LifespanStep
  BY <1>1, <1>9 DEF LifespanStep, StopDispatcher, CancelQueue, GraceEnds, Unload,
     registryVars, taskVars
<1>10. CASE Tick \/ UNCHANGED vars
  BY <1>1, <1>10 DEF Tick, vars, registryVars, taskVars
<1> QED BY <1>4, <1>5, <1>6, <1>8, <1>9, <1>10 DEF Next

\* The dispatcher never sleeps on the condition while it has something to do.
THEOREM WakeupsNotMissed == Spec => []NoMissedWakeup
<1>1. Init => NoMissedWakeup
  BY DEF Init, NoMissedWakeup
<1> QED BY <1>1, WakeupKept, PTL DEF Spec

-----------------------------------------------------------------------------
(* What the abstract specification calls by its own names *)

\* The instance counts with a copy of Cardinality.
LEMMA SameCardinality == \A S : Lifecycle!Cardinality(S) = Cardinality(S)
  BY DEF Lifecycle!Cardinality, Cardinality

\* The instance speaks of the same states.
LEMMA SameStates ==
  /\ Lifecycle!RequestStates = RequestStates
  /\ Lifecycle!TerminalStates = TerminalStates
  /\ Lifecycle!ErrorStates = ErrorStates
  BY DEF Lifecycle!RequestStates, RequestStates, Lifecycle!TerminalStates, TerminalStates,
     Lifecycle!ErrorStates, ErrorStates

-----------------------------------------------------------------------------
(* What one step of the abstract specification preserves *)

\* A step of RequestLifecycle keeps results in agreement with states.
LEMMA LifecycleDelivers ==
  ASSUME TypeOK, OutcomeDelivered, Lifecycle!Next
  PROVE  OutcomeDelivered'
<1> SUFFICES ASSUME NEW r \in Requests
             PROVE  /\ state'[r] \in Outcomes => result'[r] \in {state'[r], "abandoned"}
                    /\ result'[r] \in Outcomes => state'[r] = result'[r]
  BY DEF OutcomeDelivered
<1>0. /\ state[r] \in Outcomes => result[r] \in {state[r], "abandoned"}
      /\ result[r] \in Outcomes => state[r] = result[r]
      /\ result[r] \in Outcomes \cup {"pending", "abandoned"}
      /\ Outcomes \subseteq TerminalStates
      /\ "pending" \notin Outcomes /\ "abandoned" \notin Outcomes
  BY DEF OutcomeDelivered, TypeOK, OutcomeTypes, Outcomes, TerminalStates
<1>1. Lifecycle!Advance(r) \/ Lifecycle!Abandon(r)
  BY DEF Lifecycle!Next
<1>2. CASE Lifecycle!Abandon(r)
  BY <1>0, <1>2 DEF Lifecycle!Abandon, Lifecycle!TerminalStates, Outcomes, TerminalStates
<1>3. CASE state'[r] = state[r] /\ result'[r] = result[r]
  BY <1>0, <1>3
<1>4. CASE /\ Lifecycle!CanReachInOneSection(state[r], state'[r])
           /\ result'[r] =
                IF state'[r] \in Lifecycle!TerminalStates \ {"rejected"} /\ result[r] = "pending"
                THEN state'[r] ELSE result[r]
  <2>1. state[r] \notin TerminalStates
    BY <1>4 DEF Lifecycle!CanReachInOneSection, Lifecycle!CanTransition,
       Lifecycle!TerminalStates, TerminalStates
  <2>2. result[r] \in {"pending", "abandoned"}
    BY <1>0, <2>1
  <2> QED BY <1>0, <1>4, <2>2 DEF Lifecycle!TerminalStates, Outcomes, TerminalStates
<1> QED BY <1>1, <1>2, <1>3, <1>4 DEF Lifecycle!Advance

\* A step of RequestLifecycle keeps the counters right: whoever is in a terminal
\* state stays there, and the newcomers are counted.
LEMMA LifecycleCounts ==
  ASSUME TypeOK, CountedOnce, Lifecycle!Next
  PROVE  CountedOnce'
<1> SUFFICES ASSUME NEW k \in TerminalStates
             PROVE  finished'[k] = Cardinality({r \in Requests : state'[r] = k})
  BY DEF CountedOnce
<1> DEFINE before == {r \in Requests : state[r] = k}
           after  == {r \in Requests : state'[r] = k}
           newly  == Lifecycle!NewlyIn(k)
<1>1. finished'[k] = finished[k] + Cardinality(newly)
  BY SameCardinality, SameStates DEF Lifecycle!Next
<1>2. finished[k] = Cardinality(before)
  BY DEF CountedOnce
<1>3. \A r \in before : state'[r] = k
  <2> SUFFICES ASSUME NEW r \in before PROVE state'[r] = k
    OBVIOUS
  <2>1. Lifecycle!Advance(r) \/ Lifecycle!Abandon(r)
    BY DEF Lifecycle!Next
  <2> QED BY <2>1 DEF Lifecycle!Advance, Lifecycle!Abandon, Lifecycle!CanReachInOneSection,
             Lifecycle!CanTransition, Lifecycle!TerminalStates, TerminalStates
<1>4. after = before \cup newly /\ before \cap newly = {}
  BY <1>3 DEF Lifecycle!NewlyIn
<1>5. before \in SUBSET Requests /\ newly \in SUBSET Requests
  BY DEF Lifecycle!NewlyIn
<1> HIDE DEF before, after, newly
<1>6. /\ IsFiniteSet(before) /\ Cardinality(before) \in Nat
      /\ IsFiniteSet(newly) /\ Cardinality(newly) \in Nat
  BY <1>5, CountIsNat
<1>7. Cardinality(after) = Cardinality(before) + Cardinality(newly) - Cardinality({})
  BY <1>4, <1>6, FS_Union
<1>8. Cardinality(after) = Cardinality(before) + Cardinality(newly)
  BY <1>6, <1>7, FS_EmptySet
<1> QED BY <1>1, <1>2, <1>8 DEF after

-----------------------------------------------------------------------------
(* How the helpers of RequestScheduler implement a step of RequestLifecycle *)

\* To implement a step it is enough that every request advances or is abandoned
\* and that the counters grow by the newcomers.
LEMMA StepRefines ==
  ASSUME OutcomeTypes',
         \A r \in Requests : Lifecycle!Advance(r) \/ Lifecycle!Abandon(r),
         NEW newly, \A k \in TerminalStates : newly[k] = Lifecycle!NewlyIn(k),
         finished' = [k \in TerminalStates |-> finished[k] + Cardinality(newly[k])]
  PROVE  Lifecycle!Next
<1>1. finished' = [k \in Lifecycle!TerminalStates |->
                     finished[k] + Lifecycle!Cardinality(Lifecycle!NewlyIn(k))]
  BY SameCardinality, SameStates
<1>2. result' \in [Requests -> TerminalStates \cup {"pending", "abandoned"}]
  BY DEF OutcomeTypes, Outcomes
<1> QED BY <1>1, <1>2, SameStates DEF Lifecycle!Next, OutcomeTypes

\* Some requests advance to a state that is not terminal.
LEMMA AdvanceRefines ==
  ASSUME OutcomeTypes, OutcomeTypes', UNCHANGED <<result, finished>>,
         \A r \in Requests :
           \/ state'[r] = state[r]
           \/ CanReachInOneSection(state[r], state'[r]) /\ state'[r] \notin TerminalStates
  PROVE  Lifecycle!Next
<1> DEFINE newly == [k \in TerminalStates |-> {}]
<1>1. \A r \in Requests : Lifecycle!Advance(r)
  BY SameStates DEF Lifecycle!Advance, CanReachInOneSection, Lifecycle!CanReachInOneSection,
     CanTransition, Lifecycle!CanTransition, NextStates, Lifecycle!NextStates
<1>2. \A k \in TerminalStates : newly[k] = Lifecycle!NewlyIn(k)
  BY DEF Lifecycle!NewlyIn
<1>3. finished' = [k \in TerminalStates |-> finished[k] + Cardinality(newly[k])]
  <2>1. \A k \in TerminalStates : finished[k] + Cardinality(newly[k]) = finished[k]
    BY FS_EmptySet DEF OutcomeTypes
  <2>2. finished' = [k \in TerminalStates |-> finished[k]]
    BY DEF OutcomeTypes
  <2> QED BY <2>1, <2>2, Zenon
<1> QED BY <1>1, <1>2, <1>3, StepRefines

\* _terminal_error: every live member ends, and its pending result with it.
LEMMA TerminalErrorRefines ==
  ASSUME OutcomeTypes, OutcomeTypes', OutcomeDelivered,
         NEW S \in SUBSET Requests, NEW kind \in [Requests -> ErrorStates],
         TerminalError(S, kind)
  PROVE  Lifecycle!Next
<1> DEFINE newly == [k \in TerminalStates |-> {r \in Live(S) : kind[r] = k}]
<1>0. /\ ErrorStates \subseteq TerminalStates \ {"rejected"}
      /\ \A r \in Requests : kind[r] \in ErrorStates
      /\ \A r \in Requests : state[r] \in RequestStates
  BY DEF ErrorStates, TerminalStates, OutcomeTypes
<1>1. \A r \in Requests :
        /\ state'[r] = IF r \in Live(S) THEN kind[r] ELSE state[r]
        /\ result'[r] =
             IF r \in Live(S) /\ result[r] = "pending" THEN kind[r] ELSE result[r]
  BY DEF TerminalError
<1>2. \A r \in Requests : Lifecycle!Advance(r)
  <2> SUFFICES ASSUME NEW r \in Requests PROVE Lifecycle!Advance(r)
    OBVIOUS
  <2>1. CASE r \in Live(S)
    <3>1. state[r] \notin TerminalStates
      BY <2>1 DEF Live
    <3>2. Lifecycle!CanReachInOneSection(state[r], state'[r])
      BY <1>0, <1>1, <2>1, <3>1, SameStates
         DEF Lifecycle!CanReachInOneSection, Lifecycle!CanTransition
    <3> QED BY <1>0, <1>1, <2>1, <3>2, SameStates DEF Lifecycle!Advance
  <2>2. CASE r \notin Live(S)
    BY <1>1, <2>2 DEF Lifecycle!Advance
  <2> QED BY <2>1, <2>2
<1>3. \A k \in TerminalStates : newly[k] = Lifecycle!NewlyIn(k)
  <2> SUFFICES ASSUME NEW k \in TerminalStates
               PROVE  {r \in Live(S) : kind[r] = k} = {r \in Requests : state[r] # k /\ state'[r] = k}
    BY DEF Lifecycle!NewlyIn
  <2> QED BY <1>0, <1>1 DEF Live
<1>4. finished' = [k \in TerminalStates |-> finished[k] + Cardinality(newly[k])]
  <2>1. \A k \in TerminalStates : newly[k] = {r \in Live(S) : kind[r] = k}
    OBVIOUS
  <2>2. finished' = [k \in TerminalStates |->
                       finished[k] + Cardinality({r \in Live(S) : kind[r] = k})]
    BY DEF TerminalError
  <2> QED BY <2>1, <2>2, Zenon
<1> QED BY <1>2, <1>3, <1>4, StepRefines

\* Completion of members that are being generated.
LEMMA CompleteRefines ==
  ASSUME OutcomeTypes, OutcomeTypes', NEW S \in SUBSET Requests,
         \A r \in S : state[r] \in {"prefill", "decoding"},
         Complete(S)
  PROVE  Lifecycle!Next
<1> DEFINE newly == [k \in TerminalStates |-> IF k = "completed" THEN S ELSE {}]
<1>1. \A r \in Requests :
        /\ state'[r] = IF r \in S THEN "completed" ELSE state[r]
        /\ result'[r] = IF r \in S /\ result[r] = "pending" THEN "completed" ELSE result[r]
  BY DEF Complete
<1>2. \A r \in Requests : Lifecycle!Advance(r)
  <2> SUFFICES ASSUME NEW r \in Requests PROVE Lifecycle!Advance(r)
    OBVIOUS
  <2>1. CASE r \in S
    <3>1. /\ Lifecycle!CanTransition("prefill", "decoding")
          /\ Lifecycle!CanTransition("decoding", "completed")
          /\ "decoding" \in Lifecycle!RequestStates
      BY DEF Lifecycle!CanTransition, Lifecycle!NextStates, Lifecycle!RequestStates,
         Lifecycle!TerminalStates, Lifecycle!ErrorStates
    <3>2. Lifecycle!CanReachInOneSection(state[r], "completed")
      BY <2>1, <3>1 DEF Lifecycle!CanReachInOneSection
    <3> QED BY <1>1, <2>1, <3>2 DEF Lifecycle!Advance, Lifecycle!TerminalStates
  <2>2. CASE r \notin S
    BY <1>1, <2>2 DEF Lifecycle!Advance
  <2> QED BY <2>1, <2>2
<1>3. \A k \in TerminalStates : newly[k] = Lifecycle!NewlyIn(k)
  BY <1>1 DEF Lifecycle!NewlyIn, TerminalStates
<1>4. finished' = [k \in TerminalStates |-> finished[k] + Cardinality(newly[k])]
  <2>1. \A k \in TerminalStates : k # "completed" => finished[k] + Cardinality(newly[k]) = finished[k]
    BY FS_EmptySet DEF OutcomeTypes
  <2>2. "completed" \in TerminalStates /\ newly["completed"] = S
    BY DEF TerminalStates
  <2> HIDE DEF newly
  <2>3. finished' = [finished EXCEPT !["completed"] = finished["completed"] + Cardinality(S)]
    BY DEF Complete
  <2>4. \A k \in TerminalStates : finished'[k] = finished[k] + Cardinality(newly[k])
    BY <2>1, <2>2, <2>3 DEF OutcomeTypes
  <2>5. finished' = [k \in TerminalStates |-> finished'[k]]
    BY DEF OutcomeTypes
  <2> QED BY <2>4, <2>5
<1> QED BY <1>2, <1>3, <1>4, StepRefines

-----------------------------------------------------------------------------
(* Every step of RequestScheduler implements one of RequestLifecycle, or none *)

\* A step of a batch task.  A task in the backend completes only members that
\* are still being generated: a pending result shows that nobody ended them.
LEMMA TaskStepRefines ==
  ASSUME OutcomeInvariant, TypeOK', NEW t \in Requests, TaskStep(t)
  PROVE  Lifecycle!Next \/ UNCHANGED <<state, result, finished>>
<1>0. /\ OutcomeTypes /\ OutcomeTypes' /\ OutcomeDelivered /\ TasksProgress
      /\ Members(t) \in SUBSET Requests
      /\ Uniformly("failed") \in [Requests -> ErrorStates]
      /\ Uniformly("timed_out") \in [Requests -> ErrorStates]
      /\ cancellation \in [Requests -> ErrorStates]
  BY DEF OutcomeInvariant, RegistryInvariant, TypeOK, ItemTypes, Members, Uniformly,
     ErrorStates
<1>1. ASSUME Generating(t)
      PROVE  /\ \A r \in Members(t) : state[r] \in {"prefill", "decoding"} \cup ErrorStates
             /\ Alone(t) => state[t] \in {"prefill", "decoding"}
  BY <1>0, <1>1 DEF Generating, TasksProgress
<1>2. CASE StartTask(t)
  <2>1. CanReachInOneSection("queued", "prefill")
    <3>1. CanTransition("queued", "scheduled") /\ CanTransition("scheduled", "prefill")
      BY DEF CanTransition, NextStates, RequestStates, TerminalStates
    <3> QED BY <3>1 DEF CanReachInOneSection, RequestStates
  <2>2. "prefill" \notin TerminalStates
    BY DEF TerminalStates
  <2> QED BY <1>0, <1>2, <2>1, <2>2, AdvanceRefines DEF StartTask
<1>3. CASE StartRaises(t)
  BY <1>0, <1>3, TerminalErrorRefines DEF StartRaises
<1>4. CASE BackendReturns(t)
  <2>1. Receivers(t) \in SUBSET Requests
    BY DEF Receivers, Members
  <2>2. \A r \in Receivers(t) : state[r] \in {"prefill", "decoding"}
    <3>1. CASE Alone(t)
      BY <1>1, <1>4, <3>1 DEF Receivers, BackendReturns
    <3>2. CASE ~Alone(t)
      <4> SUFFICES ASSUME NEW r \in Members(t), result[r] = "pending"
                   PROVE  state[r] \in {"prefill", "decoding"}
        BY <3>2 DEF Receivers
      <4>1. state[r] \notin Outcomes
        BY <1>0 DEF OutcomeDelivered, Outcomes, TerminalStates
      <4> QED BY <1>1, <1>4, <4>1 DEF BackendReturns, Outcomes, TerminalStates, ErrorStates
    <3> QED BY <3>1, <3>2
  <2> QED BY <1>0, <1>4, <2>1, <2>2, CompleteRefines DEF BackendReturns
<1>5. CASE BackendFails(t)
  BY <1>0, <1>5, TerminalErrorRefines DEF BackendFails
<1>6. t \in Stream /\ Generating(t) => state[t] \in {"prefill", "decoding"}
  <2> SUFFICES ASSUME t \in Stream, Generating(t) PROVE state[t] \in {"prefill", "decoding"}
    OBVIOUS
  <2>1. batchOf[t] = t
    BY <1>0 DEF TasksProgress, Generating
  <2>2. Alone(t)
    BY <2>1, ConfigAssumption DEF Alone, OutcomeInvariant, StreamsAlone
  <2> QED BY <1>1, <2>2
<1>7. CASE StreamYields(t)
  <2>1. CanTransition("prefill", "decoding")
    BY DEF CanTransition, NextStates, RequestStates, TerminalStates
  <2>2. state[t] = "decoding" \/ CanReachInOneSection(state[t], "decoding")
    BY <1>6, <1>7, <2>1 DEF StreamYields, CanReachInOneSection
  <2>3. \A r \in Requests : state'[r] = IF r = t THEN "decoding" ELSE state[r]
    BY <1>0, <1>7 DEF StreamYields, OutcomeTypes
  <2>4. "decoding" \notin TerminalStates /\ UNCHANGED <<result, finished>>
    BY <1>7 DEF StreamYields, TerminalStates
  <2> QED BY <1>0, <2>2, <2>3, <2>4, AdvanceRefines
<1>8. CASE StreamEnds(t)
  <2>1. \A r \in {t} : state[r] \in {"prefill", "decoding"}
    BY <1>6, <1>8 DEF StreamEnds
  <2> QED BY <1>0, <1>8, <2>1, CompleteRefines DEF StreamEnds
<1>9. CASE PutResumes(t)
  BY <1>9 DEF PutResumes
<1>10. CASE TimeoutFires(t)
  BY <1>0, <1>10, TerminalErrorRefines DEF TimeoutFires
<1>11. CASE CancelDelivered(t)
  BY <1>0, <1>11, TerminalErrorRefines DEF CancelDelivered, HandleCancel, outcomeVars
<1>12. CASE Finished(t)
  BY <1>12 DEF Finished, outcomeVars
<1> QED BY <1>2, <1>3, <1>4, <1>5, <1>7, <1>8, <1>9, <1>10, <1>11, <1>12 DEF TaskStep

\* cancel ends the request or does nothing yet.
LEMMA CancelRefines ==
  ASSUME OutcomeTypes, OutcomeTypes', OutcomeDelivered,
         NEW r \in Requests, NEW kind \in ErrorStates, Cancel(r, kind)
  PROVE  Lifecycle!Next \/ UNCHANGED <<state, result, finished>>
<1>1. {r} \in SUBSET Requests /\ Uniformly(kind) \in [Requests -> ErrorStates]
  BY DEF Uniformly
<1>2. CASE CancelMember(r, kind) \/ CancelQueued(r, kind)
  BY <1>1, <1>2, TerminalErrorRefines DEF CancelMember, CancelQueued
<1>3. CASE CancelIgnored(r) \/ CancelAlone(r, kind)
  BY <1>3 DEF CancelIgnored, CancelAlone, outcomeVars
<1> QED BY <1>2, <1>3 DEF Cancel

\* A step of admission, a deadline or a client.
LEMMA RequestStepRefines ==
  ASSUME OutcomeInvariant, TypeOK', NEW r \in Requests, RequestStep(r)
  PROVE  Lifecycle!Next \/ UNCHANGED <<state, result, finished>>
<1>0. /\ OutcomeTypes /\ OutcomeTypes' /\ OutcomeDelivered
      /\ "cancelled" \in ErrorStates /\ "timed_out" \in ErrorStates
  BY DEF OutcomeInvariant, RegistryInvariant, TypeOK, ErrorStates
<1>1. CASE Submit(r)
  <2>1. CanTransition("validated", "queued")
    BY DEF CanTransition, NextStates, RequestStates, TerminalStates
  <2>2. \A s \in Requests : state'[s] = IF s = r THEN "queued" ELSE state[s]
    BY <1>0, <1>1 DEF Submit, OutcomeTypes
  <2>3. state[r] = "validated" /\ UNCHANGED <<result, finished>> /\ "queued" \notin TerminalStates
    BY <1>1 DEF Submit, TerminalStates
  <2> QED BY <1>0, <2>1, <2>2, <2>3, AdvanceRefines DEF CanReachInOneSection
<1>2. CASE Reject(r)
  <2> DEFINE newly == [k \in TerminalStates |-> IF k = "rejected" THEN {r} ELSE {}]
  <2>1. /\ state[r] = "validated" /\ UNCHANGED result
        /\ \A s \in Requests : state'[s] = IF s = r THEN "rejected" ELSE state[s]
        /\ finished' = [finished EXCEPT !["rejected"] = finished["rejected"] + 1]
    BY <1>0, <1>2 DEF Reject, OutcomeTypes
  <2>2. \A s \in Requests : Lifecycle!Advance(s)
    <3>1. Lifecycle!CanTransition("validated", "rejected")
      BY DEF Lifecycle!CanTransition, Lifecycle!NextStates, Lifecycle!RequestStates,
         Lifecycle!TerminalStates
    <3> QED BY <2>1, <3>1 DEF Lifecycle!Advance, Lifecycle!CanReachInOneSection
  <2>3. \A k \in TerminalStates : newly[k] = Lifecycle!NewlyIn(k)
    BY <2>1 DEF Lifecycle!NewlyIn, TerminalStates
  <2>4. finished' = [k \in TerminalStates |-> finished[k] + Cardinality(newly[k])]
    <3>1. \A k \in TerminalStates : k # "rejected" => finished[k] + Cardinality(newly[k]) = finished[k]
      BY <1>0, FS_EmptySet DEF OutcomeTypes
    <3>2. "rejected" \in TerminalStates /\ newly["rejected"] = {r}
      BY DEF TerminalStates
    <3> HIDE DEF newly
    <3>3. Cardinality(newly["rejected"]) = 1
      BY <3>2, FS_Singleton
    <3>4. \A k \in TerminalStates : finished'[k] = finished[k] + Cardinality(newly[k])
      BY <1>0, <2>1, <3>1, <3>2, <3>3 DEF OutcomeTypes
    <3>5. finished' = [k \in TerminalStates |-> finished'[k]]
      BY <1>0 DEF OutcomeTypes
    <3> QED BY <3>4, <3>5
  <2> QED BY <1>0, <2>2, <2>3, <2>4, StepRefines
<1>3. CASE CancelRequest(r) \/ Expire(r) \/ ClientDisconnects(r)
  BY <1>0, <1>3, CancelRefines DEF CancelRequest, Expire, ClientDisconnects
<1>4. CASE DeadlinePasses(r) \/ ClientReads(r)
  BY <1>4 DEF DeadlinePasses, ClientReads, outcomeVars
<1>5. CASE HandlerCancelled(r)
  <2> DEFINE newly == [k \in TerminalStates |-> {}]
  <2>1. /\ state[r] \notin TerminalStates /\ result[r] = "pending"
        /\ UNCHANGED <<state, finished>>
        /\ \A s \in Requests : result'[s] = IF s = r THEN "abandoned" ELSE result[s]
    BY <1>0, <1>5 DEF HandlerCancelled, OutcomeDelivered, OutcomeTypes, Outcomes, TerminalStates
  <2>2. \A s \in Requests : Lifecycle!Advance(s) \/ Lifecycle!Abandon(s)
    BY <2>1, SameStates DEF Lifecycle!Advance, Lifecycle!Abandon
  <2>3. \A k \in TerminalStates : newly[k] = Lifecycle!NewlyIn(k)
    BY <2>1 DEF Lifecycle!NewlyIn
  <2>4. finished' = [k \in TerminalStates |-> finished[k] + Cardinality(newly[k])]
    <3>1. \A k \in TerminalStates : finished[k] + Cardinality(newly[k]) = finished[k]
      BY <1>0, FS_EmptySet DEF OutcomeTypes
    <3>2. finished' = [k \in TerminalStates |-> finished[k]]
      BY <1>0, <2>1 DEF OutcomeTypes
    <3> QED BY <3>1, <3>2, Zenon
  <2> QED BY <1>0, <2>2, <2>3, <2>4, StepRefines
<1> QED BY <1>1, <1>2, <1>3, <1>4, <1>5 DEF RequestStep

\* Every step implements a step of RequestLifecycle or leaves its variables alone.
LEMMA NextRefines ==
  ASSUME OutcomeInvariant, TypeOK', [Next]_vars
  PROVE  Lifecycle!Next \/ UNCHANGED <<state, result, finished>>
<1>1. CASE DispatcherWakes \/ DispatchNothing \/ Dispatch
  BY <1>1 DEF DispatcherWakes, DispatchNothing, Dispatch, outcomeVars
<1>2. CASE StopDispatcher \/ GraceEnds \/ Unload
  BY <1>2 DEF StopDispatcher, GraceEnds, Unload, outcomeVars
<1>3. CASE CancelQueue
  <2> DEFINE cancelled == {r \in queue : result[r] = "pending"}
  <2>1. /\ cancelled \in SUBSET Requests /\ Uniformly("cancelled") \in [Requests -> ErrorStates]
        /\ OutcomeTypes /\ OutcomeTypes' /\ OutcomeDelivered
    BY DEF OutcomeInvariant, RegistryInvariant, TypeOK, RegistryTypes, Uniformly, ErrorStates
  <2>2. TerminalError(cancelled, Uniformly("cancelled"))
    BY <1>3 DEF CancelQueue
  <2> HIDE DEF cancelled
  <2> QED BY <2>1, <2>2, TerminalErrorRefines
<1>4. CASE Tick \/ UNCHANGED vars
  BY <1>4 DEF Tick, vars, outcomeVars
<1> QED BY <1>1, <1>2, <1>3, <1>4, TaskStepRefines, RequestStepRefines DEF Next, LifespanStep

-----------------------------------------------------------------------------
(* Batches and the progress of their tasks *)

\* Two queued requests are different items, for they have different sequence
\* numbers; so every member of a batch is compatible with its seed.
LEMMA MembersCompatible ==
  ASSUME QueueNumbered, NEW batch \in SUBSET queue, NEW seed \in batch,
         FormBatch(seed, batch), NEW r \in batch, r # seed
  PROVE  Compatible(Item(seed), Item(r))
<1> DEFINE batchItems == {Item(s) : s \in batch}
           queueItems == {Item(s) : s \in queue}
<1>1. IsBatch(Item(seed), batchItems, queueItems, FreeSlots, now)
  BY DEF FormBatch
<1>2. Item(r).sequence = sequence[r] /\ Item(seed).sequence = sequence[seed]
  BY DEF Item
<1>3. sequence[r] # sequence[seed]
  BY DEF QueueNumbered
<1>4. Item(r) # Item(seed)
  BY <1>2, <1>3
<1>5. Item(r) \in batchItems /\ Item(r) \in queueItems
  OBVIOUS
<1> HIDE DEF batchItems, queueItems
<1>6. \E ahead : Fits(Item(r), Item(seed), ahead, FreeSlots)
  BY <1>1, <1>4, <1>5 DEF IsBatch
<1> QED BY <1>6 DEF Fits

\* A batch that contains a stream contains nothing else.
LEMMA StreamDispatchedAlone ==
  ASSUME QueueNumbered, NEW batch \in SUBSET queue, NEW seed \in batch,
         FormBatch(seed, batch), NEW r \in batch, r \in Stream
  PROVE  batch = {r} /\ seed = r
<1>1. \A s \in batch : s # seed => s \notin Stream /\ seed \notin Stream
  BY MembersCompatible DEF Compatible, Item
<1> QED BY <1>1

\* How far members have come is kept by a step that changes no batch, starts no
\* task, and ends members only with their task or beside other members.
LEMMA ProgressKept ==
  ASSUME TypeOK, TasksProgress, UNCHANGED batchOf,
         \A t \in Requests :
           /\ pc'[t] # "none" => pc[t] # "none"
           /\ pc'[t] \in {"generating", "putting_token"} =>
                pc[t] \in {"generating", "putting_token"},
         \A r \in Requests :
           \/ state'[r] = state[r]
           \/ state'[r] \in {"prefill", "decoding"}
           \/ state'[r] \in ErrorStates /\ ~Alone(r)
           \/ batchOf[r] = None
           \/ pc'[batchOf[r]] \notin {"generating", "putting_token"}
  PROVE  TasksProgress'
<1> SUFFICES ASSUME NEW t \in Requests
             PROVE  /\ pc'[t] # "none" => batchOf'[t] = t
                    /\ pc'[t] \in {"generating", "putting_token"} =>
                         /\ \A r \in Members(t)' :
                              state'[r] \in {"prefill", "decoding"} \cup ErrorStates
                         /\ Alone(t)' => state'[t] \in {"prefill", "decoding"}
  BY DEF TasksProgress
<1>1. pc'[t] # "none" => batchOf'[t] = t
  BY DEF TasksProgress
<1>2. ASSUME pc'[t] \in {"generating", "putting_token"}
      PROVE  /\ \A r \in Members(t)' :
                  state'[r] \in {"prefill", "decoding"} \cup ErrorStates
             /\ Alone(t)' => state'[t] \in {"prefill", "decoding"}
  <2>1. Members(t)' = Members(t) /\ (Alone(t)' <=> Alone(t))
    BY DEF Members, Alone
  <2>2. /\ \A r \in Members(t) : state[r] \in {"prefill", "decoding"} \cup ErrorStates
        /\ Alone(t) => state[t] \in {"prefill", "decoding"}
    BY <1>2 DEF TasksProgress
  <2>3. batchOf[t] = t /\ t # None /\ \A r \in Members(t) : r \in Requests /\ batchOf[r] = t
    BY <1>1, <1>2, ConfigAssumption DEF Members
  <2> QED BY <1>2, <2>1, <2>2, <2>3
<1> QED BY <1>1, <1>2

\* A step of a batch task keeps the progress of every task.
LEMMA TaskStepProgress ==
  ASSUME OutcomeInvariant, NEW t \in Requests, TaskStep(t)
  PROVE  TasksProgress'
<1>0. /\ TypeOK /\ TasksProgress
      /\ pc \in [Requests -> TaskStates] /\ state \in [Requests -> RequestStates]
      /\ \A r \in Requests : r \in Members(t) <=> batchOf[r] = t
  BY DEF OutcomeInvariant, RegistryInvariant, TypeOK, OutcomeTypes, TaskTypes, Members
<1>1. ASSUME UNCHANGED batchOf, TaskEnds(t), pc[t] # "none",
             \A r \in Requests : r \in Members(t) \/ state'[r] = state[r]
      PROVE  TasksProgress'
  <2>1. \A u \in Requests : pc'[u] = IF u = t THEN "done" ELSE pc[u]
    BY <1>0, <1>1 DEF TaskEnds
  <2> QED BY <1>0, <1>1, <2>1, ProgressKept
<1>2. CASE StartTask(t)
  <2>1. /\ UNCHANGED batchOf /\ pc[t] = "created"
        /\ \A u \in Requests : pc'[u] = IF u = t THEN "generating" ELSE pc[u]
        /\ \A r \in Requests : state'[r] = IF r \in Members(t) THEN "prefill" ELSE state[r]
    BY <1>0, <1>2 DEF StartTask, itemVars
  <2> SUFFICES ASSUME NEW u \in Requests
               PROVE  /\ pc'[u] # "none" => batchOf[u] = u
                      /\ pc'[u] \in {"generating", "putting_token"} =>
                           /\ \A r \in Members(u) :
                                state'[r] \in {"prefill", "decoding"} \cup ErrorStates
                           /\ Alone(u) => state'[u] \in {"prefill", "decoding"}
    BY <2>1 DEF TasksProgress, Members, Alone
  <2>2. CASE u = t
    BY <1>0, <2>1, <2>2 DEF TasksProgress, Members
  <2>3. CASE u # t
    BY <1>0, <2>1, <2>3 DEF TasksProgress, Members
  <2> QED BY <2>2, <2>3
<1>3. \A S \in SUBSET Requests, kind \in [Requests -> ErrorStates] :
        TerminalError(S, kind) => \A r \in Requests : r \in S \/ state'[r] = state[r]
  BY DEF TerminalError, Live
<1>4. /\ Members(t) \in SUBSET Requests /\ cancellation \in [Requests -> ErrorStates]
      /\ Uniformly("failed") \in [Requests -> ErrorStates]
      /\ Uniformly("timed_out") \in [Requests -> ErrorStates]
  BY <1>0 DEF Members, Uniformly, ErrorStates, TypeOK, ItemTypes
<1>5. CASE StartRaises(t)
  BY <1>1, <1>3, <1>4, <1>5 DEF StartRaises, itemVars
<1>6. CASE BackendReturns(t)
  <2>1. \A r \in Requests : r \in Members(t) \/ state'[r] = state[r]
    <3>1. pc[t] # "none" /\ Complete(Receivers(t))
      BY <1>6 DEF BackendReturns, Generating
    <3>2. batchOf[t] = t
      BY <1>0, <3>1 DEF TasksProgress
    <3>3. Receivers(t) \subseteq Members(t)
      BY <1>0, <3>2 DEF Receivers
    <3> QED BY <1>0, <3>1, <3>3 DEF Complete
  <2> QED BY <1>1, <1>6, <2>1 DEF BackendReturns, Generating, itemVars
<1>7. CASE BackendFails(t)
  BY <1>1, <1>3, <1>4, <1>7 DEF BackendFails, Generating, itemVars
<1>8. CASE StreamYields(t)
  <2>1. \A r \in Requests : state'[r] = state[r] \/ state'[r] \in {"prefill", "decoding"}
    BY <1>0, <1>8 DEF StreamYields
  <2>2. \A u \in Requests :
          /\ pc'[u] # "none" => pc[u] # "none"
          /\ pc'[u] \in {"generating", "putting_token"} =>
               pc[u] \in {"generating", "putting_token"}
    BY <1>0, <1>8 DEF StreamYields, Generating
  <2> QED BY <1>0, <1>8, <2>1, <2>2, ProgressKept DEF StreamYields
<1>9. CASE StreamEnds(t)
  <2>1. \A u \in Requests :
          /\ pc'[u] # "none" => pc[u] # "none"
          /\ pc'[u] \in {"generating", "putting_token"} =>
               u # t /\ pc[u] \in {"generating", "putting_token"}
    BY <1>0, <1>9 DEF StreamEnds, Generating, TaskEnds
  <2>2. batchOf[t] = t
    BY <1>0, <1>9 DEF TasksProgress, StreamEnds, Generating
  <2>3. \A r \in Requests : state'[r] = state[r] \/ r = t
    BY <1>0, <1>9 DEF StreamEnds, Complete
  <2>4. pc'[t] \notin {"generating", "putting_token"} /\ UNCHANGED batchOf
    BY <1>9, <2>1 DEF StreamEnds, itemVars
  <2> QED BY <1>0, <2>1, <2>2, <2>3, <2>4, ProgressKept
<1>10. CASE PutResumes(t)
  <2>1. \A u \in Requests :
          /\ pc'[u] # "none" => pc[u] # "none"
          /\ pc'[u] \in {"generating", "putting_token"} =>
               pc[u] \in {"generating", "putting_token"}
    BY <1>0, <1>10 DEF PutResumes, TaskEnds
  <2> QED BY <1>0, <1>10, <2>1, ProgressKept DEF PutResumes, itemVars
<1>11. CASE TimeoutFires(t)
  <2>1. pc[t] # "none"
    BY <1>11 DEF TimeoutFires
  <2> QED BY <1>1, <1>3, <1>4, <1>11, <2>1 DEF TimeoutFires, itemVars
<1>12. CASE CancelDelivered(t)
  <2>1. pc[t] # "none"
    BY <1>12 DEF CancelDelivered, Unfinished
  <2>2. \A r \in Requests : r \in Members(t) \/ state'[r] = state[r]
    BY <1>3, <1>4, <1>12 DEF CancelDelivered, HandleCancel, outcomeVars
  <2> QED BY <1>1, <1>12, <2>1, <2>2 DEF CancelDelivered, itemVars
<1>13. CASE Finished(t)
  <2>1. /\ UNCHANGED <<state, batchOf>>
        /\ \A u \in Requests : pc'[u] = IF u = t THEN "reaped" ELSE pc[u]
        /\ pc[t] = "done"
    BY <1>0, <1>13 DEF Finished, HasFinished, outcomeVars, itemVars
  <2> QED BY <1>0, <2>1, ProgressKept
<1> QED BY <1>2, <1>5, <1>6, <1>7, <1>8, <1>9, <1>10, <1>11, <1>12, <1>13 DEF TaskStep

\* cancel takes a member out of a batch only where others remain, and ends a
\* request without a batch only if it is queued.
LEMMA CancelProgress ==
  ASSUME OutcomeInvariant, NEW r \in Requests, NEW kind \in ErrorStates,
         Cancel(r, kind), UNCHANGED <<batchOf, pc>>
  PROVE  TasksProgress'
<1>0. TypeOK /\ TasksProgress
  BY DEF OutcomeInvariant, RegistryInvariant
<1>1. \A s \in Requests :
        \/ state'[s] = state[s]
        \/ state'[s] \in ErrorStates /\ ~Alone(s)
        \/ batchOf[s] = None
  <2>1. CASE CancelIgnored(r) \/ CancelAlone(r, kind)
    BY <2>1 DEF CancelIgnored, CancelAlone, outcomeVars
  <2>2. CASE CancelMember(r, kind)
    BY <2>2 DEF CancelMember, TerminalError, Uniformly, Live
  <2>3. CASE CancelQueued(r, kind)
    <3>1. r \in items /\ r \notin active
      BY <2>3 DEF CancelQueued, Pending
    <3>2. batchOf[r] = None
      BY <3>1 DEF OutcomeInvariant, RegistryInvariant, RegistriesAgree, BatchesNamed
    <3> QED BY <2>3, <3>2 DEF CancelQueued, TerminalError, Live
  <2> QED BY <2>1, <2>2, <2>3 DEF Cancel
<1> QED BY <1>0, <1>1, ProgressKept

\* A step of admission, a deadline or a client keeps the progress of every task.
LEMMA RequestStepProgress ==
  ASSUME OutcomeInvariant, NEW r \in Requests, RequestStep(r)
  PROVE  TasksProgress'
<1>0. /\ TypeOK /\ TasksProgress /\ BatchesNamed /\ state \in [Requests -> RequestStates]
      /\ "cancelled" \in ErrorStates /\ "timed_out" \in ErrorStates
  BY DEF OutcomeInvariant, RegistryInvariant, ErrorStates, TypeOK, OutcomeTypes
<1>1. CASE Submit(r) \/ Reject(r)
  <2>1. /\ UNCHANGED <<batchOf, pc>>
        /\ batchOf[r] = None
        /\ \A s \in Requests : s = r \/ state'[s] = state[s]
    BY <1>0, <1>1 DEF Submit, Reject, itemVars, taskVars, BatchesNamed
  <2> QED BY <1>0, <2>1, ProgressKept
<1>2. CASE CancelRequest(r) \/ Expire(r) \/ ClientDisconnects(r)
  BY <1>0, <1>2, CancelProgress DEF CancelRequest, Expire, ClientDisconnects
<1>3. CASE DeadlinePasses(r) \/ ClientReads(r) \/ HandlerCancelled(r)
  <2>1. UNCHANGED <<state, batchOf, pc>>
    BY <1>3 DEF DeadlinePasses, ClientReads, HandlerCancelled, outcomeVars, itemVars, taskVars
  <2> QED BY <1>0, <2>1, ProgressKept
<1> QED BY <1>1, <1>2, <1>3 DEF RequestStep

\* Dispatching names a new task and leaves the others their members.
LEMMA DispatchProgress ==
  ASSUME OutcomeInvariant, Dispatch
  PROVE  TasksProgress' /\ StreamsAlone'
<1>0. /\ TypeOK /\ TasksProgress /\ BatchesNamed /\ StreamsAlone /\ QueueNumbered
      /\ queue \subseteq Requests /\ pc \in [Requests -> TaskStates]
      /\ UNCHANGED state
  BY DEF OutcomeInvariant, RegistryInvariant, TypeOK, RegistryTypes, TaskTypes,
     Dispatch, outcomeVars
<1>1. PICK batch \in SUBSET queue : \E seed \in batch :
        /\ FormBatch(seed, batch)
        /\ batchOf' = [r \in Requests |-> IF r \in batch THEN seed ELSE batchOf[r]]
        /\ pc' = [pc EXCEPT ![seed] = "created"]
  BY DEF Dispatch
<1>2. PICK seed \in batch :
        /\ FormBatch(seed, batch)
        /\ batchOf' = [r \in Requests |-> IF r \in batch THEN seed ELSE batchOf[r]]
        /\ pc' = [pc EXCEPT ![seed] = "created"]
  BY <1>1
<1>3. \A r \in batch : batchOf[r] = None /\ r \in Requests /\ r # None
  BY <1>0, ConfigAssumption DEF BatchesNamed
<1>4. \A t \in Requests : t \notin batch =>
        /\ Members(t)' = Members(t)
        /\ pc'[t] = pc[t]
  <2> SUFFICES ASSUME NEW t \in Requests, t \notin batch
               PROVE  Members(t)' = Members(t) /\ pc'[t] = pc[t]
    OBVIOUS
  <2>1. t # None /\ t # seed
    BY ConfigAssumption
  <2> QED BY <1>0, <1>2, <1>3, <2>1 DEF Members
<1>5. \A t \in batch : pc[t] = "none"
  BY <1>0, <1>3 DEF TasksProgress
<1>6. TasksProgress'
  <2> SUFFICES ASSUME NEW t \in Requests
               PROVE  /\ pc'[t] # "none" => batchOf'[t] = t
                      /\ pc'[t] \in {"generating", "putting_token"} =>
                           /\ \A r \in Members(t)' :
                                state'[r] \in {"prefill", "decoding"} \cup ErrorStates
                           /\ Alone(t)' => state'[t] \in {"prefill", "decoding"}
    BY DEF TasksProgress
  <2>1. CASE t \in batch
    BY <1>0, <1>2, <1>3, <1>5, <2>1
  <2>2. CASE t \notin batch
    <3>1. batchOf'[t] = batchOf[t] /\ pc'[t] = pc[t] /\ Members(t)' = Members(t)
      BY <1>2, <1>4, <2>2
    <3>2. pc[t] # "none" => batchOf[t] = t /\ (Alone(t)' <=> Alone(t))
      BY <1>0, <3>1 DEF TasksProgress, Alone
    <3> QED BY <1>0, <3>1, <3>2 DEF TasksProgress
  <2> QED BY <2>1, <2>2
<1>7. StreamsAlone'
  <2> SUFFICES ASSUME NEW r \in Stream, batchOf'[r] # None
               PROVE  {s \in Requests : batchOf'[s] = batchOf'[r]} = {r}
    BY DEF StreamsAlone, Members
  <2>0. r \in Requests
    BY ConfigAssumption
  <2>1. CASE r \in batch
    <3>1. batch = {r} /\ seed = r
      BY <1>0, <1>2, <2>1, StreamDispatchedAlone
    <3>2. \A s \in Requests : batchOf[s] # r
      BY <1>0, <1>3, <2>0, <2>1 DEF BatchesNamed
    <3> QED BY <1>2, <2>0, <3>1, <3>2
  <2>2. CASE r \notin batch
    <3>1. batchOf'[r] = batchOf[r] /\ batchOf[r] \in Requests
      BY <1>0, <1>2, <2>0, <2>2 DEF TypeOK, ItemTypes
    <3>2. batchOf[r] \notin batch
      BY <1>0, <1>3, <2>0, <3>1 DEF BatchesNamed
    <3>3. {s \in Requests : batchOf'[s] = batchOf[r]} = Members(batchOf[r])
      BY <1>2, <1>3, <3>1, <3>2, ConfigAssumption DEF Members
    <3>4. Members(batchOf[r]) = {r}
      BY <1>0, <3>1, ConfigAssumption DEF StreamsAlone
    <3> QED BY <3>1, <3>3, <3>4
  <2> QED BY <2>1, <2>2
<1> QED BY <1>6, <1>7

\* Every step keeps the progress of every task.
LEMMA StepProgress ==
  ASSUME OutcomeInvariant, [Next]_vars
  PROVE  TasksProgress'
<1>0. /\ TypeOK /\ TasksProgress /\ BatchesNamed
      /\ queue \subseteq Requests
  BY DEF OutcomeInvariant, RegistryInvariant, TypeOK, RegistryTypes
<1>1. CASE CancelQueue
  <2>1. \A r \in Requests : state'[r] = state[r] \/ r \in queue
    BY <1>1 DEF CancelQueue, TerminalError, Live
  <2> QED BY <1>0, <1>1, <2>1, ProgressKept DEF CancelQueue, itemVars, taskVars, BatchesNamed
<1>2. CASE \/ DispatcherWakes \/ DispatchNothing \/ StopDispatcher \/ GraceEnds
           \/ Unload \/ Tick \/ UNCHANGED vars
  <2>1. UNCHANGED <<state, batchOf, pc>>
    BY <1>2 DEF DispatcherWakes, DispatchNothing, StopDispatcher, GraceEnds, Unload, Tick,
       vars, outcomeVars, itemVars, taskVars
  <2> QED BY <1>0, <2>1, ProgressKept
<1> QED BY <1>1, <1>2, TaskStepProgress, RequestStepProgress, DispatchProgress
        DEF Next, LifespanStep

\* A step other than Submit enters nothing into the queue and numbers nothing, so
\* QueueNumbered is kept; Submit gives out the next number.
LEMMA StepNumbers ==
  ASSUME OutcomeInvariant, [Next]_vars
  PROVE  QueueNumbered'
<1>0. /\ QueueNumbered /\ queue \subseteq Requests /\ submitted \in Nat
      /\ sequence \in [Requests -> Nat]
  BY DEF OutcomeInvariant, RegistryInvariant, TypeOK, RegistryTypes, ItemTypes, WorldTypes
<1>1. ASSUME queue' \subseteq queue, UNCHANGED <<sequence, submitted>>
      PROVE  QueueNumbered'
  BY <1>0, <1>1 DEF QueueNumbered
<1>2. ASSUME NEW r \in Requests, Submit(r)
      PROVE  QueueNumbered'
  <2>1. /\ queue' = queue \cup {r} /\ submitted' = submitted + 1
        /\ \A s \in Requests : sequence'[s] = IF s = r THEN submitted ELSE sequence[s]
    BY <1>0, <1>2 DEF Submit
  <2>2. r \notin queue
    BY <1>2 DEF Submit, OutcomeInvariant, RegistryInvariant, RegistriesAgree, BatchesNamed
  <2>3. \A s \in queue : sequence[s] \in Nat /\ sequence[s] < submitted
    BY <1>0 DEF QueueNumbered
  <2>4. \A s \in queue' : sequence'[s] < submitted'
    BY <1>0, <2>1, <2>3
  <2>5. \A s \in queue' : \A u \in queue' \ {s} : sequence'[s] # sequence'[u]
    BY <1>0, <2>1, <2>2, <2>3 DEF QueueNumbered
  <2> QED BY <2>4, <2>5 DEF QueueNumbered
<1>3. ASSUME NEW t \in Requests, TaskStep(t)
      PROVE  queue' \subseteq queue /\ UNCHANGED <<sequence, submitted>>
  BY <1>3 DEF TaskStep, StartTask, StartRaises, BackendReturns, BackendFails, StreamYields,
     StreamEnds, PutResumes, TimeoutFires, CancelDelivered, Finished, registryVars,
     itemVars, worldVars
<1>4. ASSUME NEW r \in Requests, RequestStep(r), ~Submit(r)
      PROVE  queue' \subseteq queue /\ UNCHANGED <<sequence, submitted>>
  <2>1. CASE Reject(r) \/ DeadlinePasses(r) \/ ClientReads(r) \/ HandlerCancelled(r)
    BY <2>1 DEF Reject, DeadlinePasses, ClientReads, HandlerCancelled, registryVars,
       itemVars, worldVars
  <2>2. CASE CancelRequest(r) \/ Expire(r) \/ ClientDisconnects(r)
    BY <2>2 DEF CancelRequest, Expire, ClientDisconnects, Cancel, CancelIgnored,
       CancelAlone, CancelMember, CancelQueued, worldVars
  <2> QED BY <1>4, <2>1, <2>2 DEF RequestStep
<1>5. ASSUME \/ DispatcherWakes \/ DispatchNothing \/ Dispatch \/ LifespanStep \/ Tick
             \/ UNCHANGED vars
      PROVE  queue' \subseteq queue /\ UNCHANGED <<sequence, submitted>>
  BY <1>5 DEF DispatcherWakes, DispatchNothing, Dispatch, LifespanStep, StopDispatcher,
     CancelQueue, GraceEnds, Unload, Tick, vars, registryVars, itemVars, worldVars
<1> QED BY <1>1, <1>2, <1>3, <1>4, <1>5 DEF Next

\* Only Dispatch puts requests into batches, and a stream into one of its own.
LEMMA StepStreams ==
  ASSUME OutcomeInvariant, [Next]_vars
  PROVE  StreamsAlone'
<1>0. StreamsAlone
  BY DEF OutcomeInvariant
<1>1. ASSUME UNCHANGED batchOf PROVE StreamsAlone'
  BY <1>0, <1>1 DEF StreamsAlone, Members
<1>2. ASSUME NEW t \in Requests, TaskStep(t) PROVE UNCHANGED batchOf
  BY <1>2 DEF TaskStep, StartTask, StartRaises, BackendReturns, BackendFails, StreamYields,
     StreamEnds, PutResumes, TimeoutFires, CancelDelivered, Finished, itemVars
<1>3. ASSUME NEW r \in Requests, RequestStep(r) PROVE UNCHANGED batchOf
  BY <1>3 DEF RequestStep, Submit, Reject, CancelRequest, DeadlinePasses, Expire,
     ClientReads, ClientDisconnects, HandlerCancelled, itemVars
<1>4. ASSUME \/ DispatcherWakes \/ DispatchNothing \/ LifespanStep \/ Tick \/ UNCHANGED vars
      PROVE  UNCHANGED batchOf
  BY <1>4 DEF DispatcherWakes, DispatchNothing, LifespanStep, StopDispatcher, CancelQueue,
     GraceEnds, Unload, Tick, vars, itemVars
<1> QED BY <1>1, <1>2, <1>3, <1>4, DispatchProgress DEF Next

-----------------------------------------------------------------------------
(* The lifecycle *)

\* The initial state satisfies OutcomeInvariant and is initial for RequestLifecycle.
LEMMA InitRefines == Init => OutcomeInvariant /\ Lifecycle!Init
<1> SUFFICES ASSUME Init PROVE OutcomeInvariant /\ Lifecycle!Init
  OBVIOUS
<1>1. RegistryInvariant
  BY RegistryInvariantInductive
<1>2. QueueNumbered /\ StreamsAlone /\ TasksProgress
  BY ConfigAssumption DEF Init, QueueNumbered, StreamsAlone, TasksProgress
<1>3. OutcomeDelivered
  BY DEF Init, OutcomeDelivered, Outcomes, TerminalStates
<1>4. CountedOnce
  <2> SUFFICES ASSUME NEW k \in TerminalStates
               PROVE  finished[k] = Cardinality({r \in Requests : state[r] = k})
    BY DEF CountedOnce
  <2>1. {r \in Requests : state[r] = k} = {}
    BY DEF Init, TerminalStates
  <2> QED BY <2>1, FS_EmptySet DEF Init
<1>5. Lifecycle!Init
  BY SameStates DEF Init, Lifecycle!Init
<1> QED BY <1>1, <1>2, <1>3, <1>4, <1>5 DEF OutcomeInvariant

\* OutcomeInvariant is inductive, and a step from it is one of RequestLifecycle.
LEMMA OutcomeInvariantInductive ==
  OutcomeInvariant /\ [Next]_vars =>
    OutcomeInvariant' /\ [Lifecycle!Next]_(Lifecycle!vars)
<1> SUFFICES ASSUME OutcomeInvariant, [Next]_vars
             PROVE  OutcomeInvariant' /\ [Lifecycle!Next]_(Lifecycle!vars)
  OBVIOUS
<1>1. RegistryInvariant'
  BY RegistryInvariantInductive DEF OutcomeInvariant
<1>2. Lifecycle!Next \/ UNCHANGED <<state, result, finished>>
  BY <1>1, NextRefines DEF RegistryInvariant
<1>3. OutcomeDelivered' /\ CountedOnce'
  <2>1. CASE Lifecycle!Next
    BY <2>1, LifecycleDelivers, LifecycleCounts DEF OutcomeInvariant, RegistryInvariant
  <2>2. CASE UNCHANGED <<state, result, finished>>
    BY <2>2 DEF OutcomeInvariant, OutcomeDelivered, CountedOnce
  <2> QED BY <1>2, <2>1, <2>2
<1> QED BY <1>1, <1>2, <1>3, StepProgress, StepNumbers, StepStreams
        DEF OutcomeInvariant, Lifecycle!vars

\* The request scheduler implements the contract of RequestLifecycle, whatever the
\* limits, the policy and the order in which everybody acts.
THEOREM LifecycleImplemented == Spec => ImplementsLifecycle
  BY InitRefines, OutcomeInvariantInductive, PTL DEF Spec, ImplementsLifecycle, Lifecycle!Spec

\* Whoever ends a request first decides, and its waiter is told that outcome.
THEOREM OutcomesDelivered == Spec => []OutcomeDelivered
<1>1. OutcomeInvariant => OutcomeDelivered
  BY DEF OutcomeInvariant
<1> QED BY <1>1, InitRefines, OutcomeInvariantInductive, PTL DEF Spec

\* Every outcome is counted exactly once.
THEOREM OutcomesCounted == Spec => []CountedOnce
<1>1. OutcomeInvariant => CountedOnce
  BY DEF OutcomeInvariant
<1> QED BY <1>1, InitRefines, OutcomeInvariantInductive, PTL DEF Spec

-----------------------------------------------------------------------------
(* Kinds of outcome *)

\* The kinds of outcome that the code gives to _terminal_error.
LEMMA KindTypes ==
  /\ Uniformly("failed") \in [Requests -> ErrorStates]
  /\ Uniformly("timed_out") \in [Requests -> ErrorStates]
  /\ Uniformly("cancelled") \in [Requests -> ErrorStates]
  /\ "cancelled" \in ErrorStates /\ "timed_out" \in ErrorStates
  BY DEF Uniformly, ErrorStates

\* An outcome is final and an answer is not taken back; who ends is answered.
LEMMA OutcomesFinal ==
  ASSUME OutcomeInvariant, [Next]_vars
  PROVE  \A r \in Requests :
           /\ state[r] \in TerminalStates => state'[r] = state[r]
           /\ result[r] # "pending" => result'[r] # "pending"
           /\ state'[r] \in Outcomes => result'[r] # "pending"
           /\ state[r] \in Outcomes => result[r] # "pending"
<1> SUFFICES ASSUME NEW r \in Requests
             PROVE  /\ state[r] \in TerminalStates => state'[r] = state[r]
                    /\ result[r] # "pending" => result'[r] # "pending"
                    /\ state'[r] \in Outcomes => result'[r] # "pending"
                    /\ state[r] \in Outcomes => result[r] # "pending"
  OBVIOUS
<1>1. OutcomeInvariant'
  BY OutcomeInvariantInductive
<1>2. /\ state'[r] \in Outcomes => result'[r] \in {state'[r], "abandoned"}
      /\ state[r] \in Outcomes => result[r] \in {state[r], "abandoned"}
  BY <1>1 DEF OutcomeInvariant, OutcomeDelivered
<1>3. "pending" \notin Outcomes
  BY DEF Outcomes, TerminalStates
<1>4. /\ state'[r] \in Outcomes => result'[r] # "pending"
      /\ state[r] \in Outcomes => result[r] # "pending"
  BY <1>2, <1>3
<1>5. \/ Lifecycle!Advance(r) \/ Lifecycle!Abandon(r)
      \/ UNCHANGED <<state, result, finished>>
  BY <1>1, NextRefines DEF OutcomeInvariant, RegistryInvariant, Lifecycle!Next
<1>6. /\ state[r] \in TerminalStates => state'[r] = state[r]
      /\ result[r] # "pending" => result'[r] # "pending"
  <2>1. CASE UNCHANGED <<state, result, finished>>
    BY <2>1
  <2>2. CASE Lifecycle!Advance(r)
    BY <2>2, SameStates
       DEF Lifecycle!Advance, Lifecycle!CanReachInOneSection, Lifecycle!CanTransition
  <2>3. CASE Lifecycle!Abandon(r)
    BY <2>3 DEF Lifecycle!Abandon
  <2> QED BY <1>5, <2>1, <2>2, <2>3
<1> QED BY <1>4, <1>6

\* _terminal_error leaves no member without a terminal state.
LEMMA TerminalErrorEffect ==
  ASSUME OutcomeTypes, NEW S \in SUBSET Requests, NEW kind \in [Requests -> ErrorStates],
         TerminalError(S, kind)
  PROVE  \A r \in Requests :
           /\ state'[r] = IF r \in S /\ state[r] \notin TerminalStates
                          THEN kind[r] ELSE state[r]
           /\ result'[r] = IF r \in S /\ state[r] \notin TerminalStates /\ result[r] = "pending"
                           THEN kind[r] ELSE result[r]
           /\ kind[r] \in ErrorStates
  BY DEF TerminalError, Live

-----------------------------------------------------------------------------
(* What a step of a batch task touches *)

\* A step of a task touches its own members and its own progress only.
LEMMA TaskStepLocal ==
  ASSUME OutcomeInvariant, NEW t \in Requests, TaskStep(t)
  PROVE  /\ UNCHANGED <<batchOf, queue, cancellation, expired, phase>>
         /\ \A u \in Requests : u # t => pc'[u] = pc[u]
         /\ \A r \in Requests : batchOf[r] # t => state'[r] = state[r] /\ result'[r] = result[r]
         /\ pc[t] # "none" /\ pc'[t] \notin {"none", "created"}
         /\ batchOf[t] = t
<1>0. /\ OutcomeTypes /\ pc \in [Requests -> TaskStates]
      /\ \A u \in Requests : pc[u] # "none" => batchOf[u] = u
      /\ cancellation \in [Requests -> ErrorStates]
      /\ Members(t) = {r \in Requests : batchOf[r] = t}
  BY DEF OutcomeInvariant, RegistryInvariant, TypeOK, TaskTypes, ItemTypes, TasksProgress,
     Members
<1>1. UNCHANGED <<batchOf, queue, cancellation, expired, phase>>
  BY DEF TaskStep, StartTask, StartRaises, BackendReturns, BackendFails, StreamYields,
     StreamEnds, PutResumes, TimeoutFires, CancelDelivered, Finished, registryVars,
     itemVars, worldVars
<1>2. pc[t] # "none"
  BY DEF TaskStep, StartTask, StartRaises, BackendReturns, BackendFails, StreamYields,
     StreamEnds, PutResumes, TimeoutFires, CancelDelivered, Finished, Generating,
     HasFinished, Unfinished
<1>3. batchOf[t] = t
  BY <1>0, <1>2
<1>4. /\ \A u \in Requests : u # t => pc'[u] = pc[u]
      /\ pc'[t] \notin {"none", "created"}
  <2>1. CASE StartTask(t) \/ PutResumes(t) \/ Finished(t)
    BY <1>0, <2>1 DEF StartTask, PutResumes, TaskEnds, Finished
  <2>2. CASE StreamYields(t) \/ StreamEnds(t)
    BY <1>0, <2>2 DEF StreamYields, StreamEnds, TaskEnds, Generating
  <2>3. CASE TaskEnds(t)
    BY <1>0, <2>3 DEF TaskEnds
  <2> QED BY <2>1, <2>2, <2>3
          DEF TaskStep, StartRaises, BackendReturns, BackendFails, TimeoutFires, CancelDelivered
<1>5. \A r \in Requests : batchOf[r] # t => state'[r] = state[r] /\ result'[r] = result[r]
  <2>1. ASSUME NEW kind \in [Requests -> ErrorStates], TerminalError(Members(t), kind)
        PROVE  \A r \in Requests :
                 batchOf[r] # t => state'[r] = state[r] /\ result'[r] = result[r]
    <3>1. Members(t) \in SUBSET Requests
      BY <1>0
    <3> QED BY <1>0, <2>1, <3>1, TerminalErrorEffect
  <2>2. CASE StartTask(t) \/ StreamYields(t)
    BY <1>0, <1>3, <2>2 DEF StartTask, StreamYields, OutcomeTypes
  <2>3. CASE BackendReturns(t)
    BY <1>0, <1>3, <2>3 DEF BackendReturns, Receivers, Complete
  <2>4. CASE StreamEnds(t)
    BY <1>0, <1>3, <2>4 DEF StreamEnds, Complete
  <2>5. CASE PutResumes(t) \/ Finished(t)
    BY <2>5 DEF PutResumes, Finished, outcomeVars
  <2>6. CASE StartRaises(t) \/ BackendFails(t) \/ TimeoutFires(t)
    BY <2>1, <2>6, KindTypes DEF StartRaises, BackendFails, TimeoutFires
  <2>7. CASE CancelDelivered(t)
    BY <1>0, <2>1, <2>7 DEF CancelDelivered, HandleCancel, outcomeVars
  <2> QED BY <2>2, <2>3, <2>4, <2>5, <2>6, <2>7 DEF TaskStep
<1> QED BY <1>1, <1>2, <1>3, <1>4, <1>5

-----------------------------------------------------------------------------
(* Answers *)

\* A member that _terminal_error passes over has ended; so a task that fails all
\* its members leaves them answered.
LEMMA FailedAreAnswered ==
  ASSUME OutcomeInvariant, [Next]_vars,
         NEW S \in SUBSET Requests, NEW kind \in [Requests -> ErrorStates],
         TerminalError(S, kind), \A r \in S : state[r] # "rejected"
  PROVE  \A r \in S : result'[r] # "pending"
<1>1. OutcomeTypes
  BY DEF OutcomeInvariant, RegistryInvariant, TypeOK
<1>2. \A r \in S : state'[r] \in Outcomes
  BY <1>1, TerminalErrorEffect DEF Outcomes, TerminalStates, ErrorStates
<1> QED BY <1>2, OutcomesFinal

\* A task leaves the backend with every member answered, unless it was cancelled
\* before its first step.
LEMMA TaskLeavesAnswers ==
  ASSUME OutcomeInvariant, AnswersTracked, NEW t \in Requests, TaskStep(t), [Next]_vars,
         pc'[t] \in {"putting_end", "done", "reaped"},
         NEW r \in Requests, batchOf[r] = t
  PROVE  result'[r] # "pending" \/ state'[r] = "queued"
<1>0. /\ OutcomeTypes /\ pc \in [Requests -> TaskStates] /\ t # None
      /\ cancellation \in [Requests -> ErrorStates]
      /\ Members(t) \in SUBSET Requests /\ r \in Members(t)
      /\ \A s \in Members(t) : s \in Requests /\ batchOf[s] = t
  BY ConfigAssumption DEF OutcomeInvariant, RegistryInvariant, TypeOK, TaskTypes, ItemTypes,
     Members
<1>1. \A s \in Members(t) : pc[t] = "created" => state[s] \in {"queued"} \cup ErrorStates
  BY <1>0 DEF AnswersTracked
<1>2. \A s \in Members(t) : pc[t] \in {"generating", "putting_token"} =>
        state[s] \in {"prefill", "decoding"} \cup ErrorStates
  BY DEF OutcomeInvariant, TasksProgress
<1>3. pc[t] \in {"created", "generating", "putting_token"} =>
        \A s \in Members(t) : state[s] # "rejected"
  BY <1>1, <1>2 DEF ErrorStates
<1>4. pc[t] \in {"putting_end", "done", "reaped"} => result[r] # "pending" \/ state[r] = "queued"
  BY <1>0 DEF AnswersTracked
<1>5. CASE StartTask(t) \/ StreamYields(t)
  BY <1>0, <1>5 DEF StartTask, StreamYields, Generating
<1>6. CASE StartRaises(t) \/ BackendFails(t) \/ TimeoutFires(t)
  <2>1. /\ pc[t] \in {"created", "generating", "putting_token"}
        /\ \E kind \in [Requests -> ErrorStates] : TerminalError(Members(t), kind)
    BY <1>6, KindTypes DEF StartRaises, BackendFails, TimeoutFires, Generating
  <2> QED BY <1>0, <1>3, <2>1, FailedAreAnswered
<1>7. CASE BackendReturns(t)
  <2>1. r \in Receivers(t) => state'[r] = "completed"
    BY <1>0, <1>7 DEF BackendReturns, Complete
  <2>2. r \in Receivers(t) \/ result[r] # "pending"
    <3>1. batchOf[t] = t
      BY TaskStepLocal
    <3> QED BY <1>0, <3>1 DEF Receivers, Alone
  <2>3. "completed" \in Outcomes
    BY DEF Outcomes, TerminalStates
  <2> QED BY <2>1, <2>2, <2>3, OutcomesFinal
<1>8. CASE StreamEnds(t)
  <2>1. batchOf[t] = t /\ t \in Stream
    BY <1>8, TaskStepLocal DEF StreamEnds
  <2>2. r = t
    BY <1>0, <2>1 DEF OutcomeInvariant, StreamsAlone
  <2>3. state'[r] = "completed" /\ "completed" \in Outcomes
    BY <1>8, <2>2 DEF StreamEnds, Complete, Outcomes, TerminalStates
  <2> QED BY <2>3, OutcomesFinal
<1>9. CASE PutResumes(t)
  <2>1. UNCHANGED <<state, result>>
    BY <1>9 DEF PutResumes
  <2>2. pc[t] = "putting_end"
    BY <1>0, <1>9 DEF PutResumes
  <2> QED BY <1>4, <2>1, <2>2
<1>10. CASE CancelDelivered(t)
  <2>1. CASE pc[t] = "created"
    <3>1. UNCHANGED <<state, result>>
      BY <1>10, <2>1 DEF CancelDelivered, HandleCancel, outcomeVars
    <3>2. state[r] \in ErrorStates => state[r] \in Outcomes
      BY DEF ErrorStates, Outcomes, TerminalStates
    <3> QED BY <1>0, <1>1, <2>1, <3>1, <3>2, OutcomesFinal
  <2>2. CASE pc[t] = "putting_end"
    <3>1. CASE state[r] = "queued"
      <4>1. \A s \in Requests : s \in Members(t) /\ state[s] \notin TerminalStates =>
              state'[s] \in ErrorStates
        BY <1>0, <1>10, <2>2, TerminalErrorEffect DEF CancelDelivered, HandleCancel
      <4>2. state'[r] \in Outcomes
        BY <1>0, <3>1, <4>1 DEF ErrorStates, Outcomes, TerminalStates
      <4> QED BY <4>2, OutcomesFinal
    <3>2. CASE result[r] # "pending"
      BY <3>2, OutcomesFinal
    <3> QED BY <1>4, <2>2, <3>1, <3>2
  <2>3. CASE pc[t] \in {"generating", "putting_token"}
    BY <1>0, <1>3, <1>10, <2>3, FailedAreAnswered DEF CancelDelivered, HandleCancel
  <2> QED BY <1>10, <2>1, <2>2, <2>3 DEF CancelDelivered, Unfinished
<1>11. CASE Finished(t)
  <2>1. UNCHANGED <<state, result>> /\ pc[t] = "done"
    BY <1>11 DEF Finished, HasFinished, outcomeVars
  <2> QED BY <1>4, <2>1
<1> QED BY <1>5, <1>6, <1>7, <1>8, <1>9, <1>10, <1>11 DEF TaskStep

\* What a step of admission, a deadline or a client touches: one request, which it
\* admits, rejects or ends.  What stays queued keeps its state.
LEMMA RequestStepLocal ==
  ASSUME OutcomeInvariant, NEW r \in Requests, RequestStep(r)
  PROVE  /\ UNCHANGED <<batchOf, pc, phase>> /\ expired \subseteq expired'
         /\ \A s \in Requests :
              \/ state'[s] = state[s]
              \/ state'[s] \in {"cancelled", "timed_out"}
                 /\ (state'[s] = "timed_out" => s \in expired)
              \/ state[s] = "validated" /\ state'[s] \in {"queued", "rejected"}
         /\ \A s \in queue' :
              \/ s \in queue /\ state'[s] = state[s]
              \/ state'[s] = "queued" /\ phase = "up"
<1>0. /\ state \in [Requests -> RequestStates] /\ OutcomeTypes
      /\ queue \subseteq Requests /\ queue \cap active = {}
      /\ \A s \in queue : s \in items
      /\ \A s \in Requests : state[s] = "validated" => s \notin items
  BY DEF OutcomeInvariant, RegistryInvariant, TypeOK, OutcomeTypes, RegistryTypes,
     RegistriesAgree, BatchesNamed
<1>1. UNCHANGED <<batchOf, pc, phase>> /\ expired \subseteq expired'
  BY DEF RequestStep, Submit, Reject, CancelRequest, DeadlinePasses, Expire, ClientReads,
     ClientDisconnects, HandlerCancelled, itemVars, taskVars, worldVars
<1>2. ASSUME NEW kind \in {"cancelled", "timed_out"}, Cancel(r, kind),
             kind = "timed_out" => r \in expired
      PROVE  /\ \A s \in Requests :
                  \/ state'[s] = state[s]
                  \/ state'[s] = kind /\ s = r
             /\ \A s \in queue' : s \in queue /\ state'[s] = state[s]
  <2>1. {r} \in SUBSET Requests /\ Uniformly(kind) \in [Requests -> ErrorStates]
    BY DEF Uniformly, ErrorStates
  <2>2. CASE CancelIgnored(r) \/ CancelAlone(r, kind)
    BY <2>2 DEF CancelIgnored, CancelAlone, outcomeVars
  <2>3. ASSUME TerminalError({r}, Uniformly(kind))
        PROVE  \A s \in Requests :
                 \/ state'[s] = state[s]
                 \/ state'[s] = kind /\ s = r
    BY <1>0, <2>1, <2>3, TerminalErrorEffect DEF Uniformly
  <2>4. CASE CancelMember(r, kind)
    <3>1. queue' = queue /\ r \notin queue /\ kind # "none"
      BY <1>0, <2>4 DEF CancelMember
    <3>2. \A s \in Requests : s # r => state'[s] = state[s]
      BY <2>4 DEF CancelMember, TerminalError, Live
    <3> QED BY <1>0, <2>3, <2>4, <3>1, <3>2 DEF CancelMember
  <2>5. CASE CancelQueued(r, kind)
    <3>1. queue' = queue \ {r}
      BY <2>5 DEF CancelQueued
    <3>2. \A s \in Requests : s # r => state'[s] = state[s]
      BY <2>5 DEF CancelQueued, TerminalError, Live
    <3> QED BY <1>0, <2>3, <2>5, <3>1, <3>2 DEF CancelQueued
  <2> QED BY <1>2, <2>2, <2>4, <2>5 DEF Cancel
<1>3. CASE CancelRequest(r) \/ Expire(r) \/ ClientDisconnects(r)
  BY <1>1, <1>2, <1>3 DEF CancelRequest, Expire, ClientDisconnects
<1>4. CASE Submit(r)
  <2>1. /\ \A s \in Requests : state'[s] = IF s = r THEN "queued" ELSE state[s]
        /\ queue' = queue \cup {r} /\ state[r] = "validated" /\ phase = "up"
    BY <1>0, <1>4 DEF Submit, RejectionReasons
  <2> QED BY <1>0, <1>1, <2>1
<1>5. CASE Reject(r)
  <2>1. /\ \A s \in Requests : state'[s] = IF s = r THEN "rejected" ELSE state[s]
        /\ queue' = queue /\ state[r] = "validated"
    BY <1>0, <1>5 DEF Reject, registryVars
  <2> QED BY <1>0, <1>1, <2>1
<1>6. CASE DeadlinePasses(r) \/ ClientReads(r) \/ HandlerCancelled(r)
  BY <1>1, <1>6 DEF DeadlinePasses, ClientReads, HandlerCancelled, outcomeVars, registryVars
<1> QED BY <1>3, <1>4, <1>5, <1>6 DEF RequestStep

\* Shutdown ends queued requests only, and leaves only abandoned ones in the queue.
LEMMA CancelQueueLocal ==
  ASSUME OutcomeInvariant, CancelQueue
  PROVE  /\ UNCHANGED <<batchOf, pc, cancellation, expired, dispatcher>>
         /\ phase = "stopping" /\ phase' = "draining"
         /\ \A s \in Requests :
              state'[s] = state[s] \/ (s \in queue /\ state'[s] = "cancelled")
         /\ \A s \in queue' :
              s \in queue /\ state'[s] = state[s] /\ result[s] # "pending" /\ result'[s] = result[s]
<1> DEFINE cancelled == {r \in queue : result[r] = "pending"}
<1>1. /\ cancelled \in SUBSET Requests /\ OutcomeTypes
      /\ Uniformly("cancelled") \in [Requests -> ErrorStates]
      /\ queue \subseteq Requests
  BY KindTypes DEF OutcomeInvariant, RegistryInvariant, TypeOK, RegistryTypes
<1>2. /\ TerminalError(cancelled, Uniformly("cancelled")) /\ queue' = queue \ cancelled
      /\ UNCHANGED <<batchOf, pc, cancellation, expired, dispatcher>>
      /\ phase = "stopping" /\ phase' = "draining"
  BY DEF CancelQueue, itemVars, taskVars
<1>3. /\ \A s \in cancelled : s \in queue
      /\ \A s \in queue : s \notin cancelled => result[s] # "pending"
  OBVIOUS
<1> HIDE DEF cancelled
<1>4. \A s \in Requests :
        /\ state'[s] = state[s] \/ (s \in cancelled /\ state'[s] = "cancelled")
        /\ s \notin cancelled => state'[s] = state[s] /\ result'[s] = result[s]
  BY <1>1, <1>2, TerminalErrorEffect DEF Uniformly
<1>5. \A s \in queue' :
        s \in queue /\ state'[s] = state[s] /\ result[s] # "pending" /\ result'[s] = result[s]
  BY <1>1, <1>2, <1>3, <1>4
<1> QED BY <1>2, <1>3, <1>4, <1>5

\* The other steps of the dispatcher and of the lifespan touch no request.
QuietSteps ==
  \/ DispatcherWakes \/ DispatchNothing \/ StopDispatcher \/ GraceEnds \/ Unload \/ Tick
  \/ UNCHANGED vars

LEMMA QuietStepsLocal ==
  ASSUME QuietSteps
  PROVE  UNCHANGED <<outcomeVars, registryVars, itemVars, pc, submitted, expired, reading>>
  BY DEF QuietSteps, DispatcherWakes, DispatchNothing, StopDispatcher, GraceEnds, Unload,
     Tick, vars, taskVars, worldVars

\* The cases of a step.
LEMMA StepCases ==
  ASSUME [Next]_vars
  PROVE  \/ \E t \in Requests : TaskStep(t)
         \/ \E r \in Requests : RequestStep(r)
         \/ Dispatch \/ CancelQueue \/ QuietSteps
  BY DEF Next, LifespanStep, QuietSteps

\* Steps that move no task and change the members of batches only by ending them
\* keep AnswersTracked.
LEMMA AnswersKept ==
  ASSUME OutcomeInvariant, AnswersTracked, [Next]_vars, UNCHANGED <<batchOf, pc>>,
         \A s \in queue' : state'[s] = "queued",
         \A s \in Requests :
           batchOf[s] # None => state'[s] = state[s] \/ state'[s] \in ErrorStates
  PROVE  AnswersTracked'
<1>1. ErrorStates \subseteq Outcomes
  BY DEF ErrorStates, Outcomes, TerminalStates
<1> SUFFICES ASSUME NEW r \in Requests, batchOf[r] # None
             PROVE  /\ pc[batchOf[r]] # "none"
                    /\ pc[batchOf[r]] = "created" => state'[r] \in {"queued"} \cup ErrorStates
                    /\ pc[batchOf[r]] \in {"putting_end", "done", "reaped"} =>
                         result'[r] # "pending" \/ state'[r] = "queued"
  BY DEF AnswersTracked
<1>2. /\ pc[batchOf[r]] # "none"
      /\ pc[batchOf[r]] = "created" => state[r] \in {"queued"} \cup ErrorStates
      /\ pc[batchOf[r]] \in {"putting_end", "done", "reaped"} =>
           result[r] # "pending" \/ state[r] = "queued"
  BY DEF AnswersTracked
<1> QED BY <1>1, <1>2, OutcomesFinal

\* Every step keeps AnswersTracked.
LEMMA StepAnswers ==
  ASSUME OutcomeInvariant, AnswersTracked, [Next]_vars
  PROVE  AnswersTracked'
<1>0. /\ BatchesNamed /\ queue \subseteq Requests /\ state \in [Requests -> RequestStates]
      /\ \A s \in queue : state[s] = "queued" /\ batchOf[s] = None
      /\ \A s \in Requests : batchOf[s] # None => batchOf[s] \in Requests
      /\ pc \in [Requests -> TaskStates] /\ None \notin Requests
  BY ConfigAssumption DEF OutcomeInvariant, RegistryInvariant, TypeOK, RegistryTypes,
     OutcomeTypes, ItemTypes, TaskTypes, BatchesNamed, AnswersTracked
<1>1. ASSUME NEW t \in Requests, TaskStep(t)
      PROVE  AnswersTracked'
  <2>1. /\ UNCHANGED <<batchOf, queue>>
        /\ \A u \in Requests : u # t => pc'[u] = pc[u]
        /\ \A r \in Requests : batchOf[r] # t => state'[r] = state[r] /\ result'[r] = result[r]
        /\ pc'[t] \notin {"none", "created"}
    BY <1>1, TaskStepLocal
  <2>2. \A s \in queue' : state'[s] = "queued"
    BY <1>0, <2>1
  <2> SUFFICES ASSUME NEW r \in Requests, batchOf[r] # None
               PROVE  /\ pc'[batchOf[r]] # "none"
                      /\ pc'[batchOf[r]] = "created" => state'[r] \in {"queued"} \cup ErrorStates
                      /\ pc'[batchOf[r]] \in {"putting_end", "done", "reaped"} =>
                           result'[r] # "pending" \/ state'[r] = "queued"
    BY <2>1, <2>2 DEF AnswersTracked
  <2>3. CASE batchOf[r] = t
    BY <1>1, <2>1, <2>3, TaskLeavesAnswers
  <2>4. CASE batchOf[r] # t
    BY <1>0, <2>1, <2>4 DEF AnswersTracked
  <2> QED BY <2>3, <2>4
<1>2. ASSUME NEW r \in Requests, RequestStep(r)
      PROVE  AnswersTracked'
  <2>1. /\ UNCHANGED <<batchOf, pc>>
        /\ \A s \in Requests :
             \/ state'[s] = state[s]
             \/ state'[s] \in {"cancelled", "timed_out"}
             \/ state[s] = "validated"
        /\ \A s \in queue' : (s \in queue /\ state'[s] = state[s]) \/ state'[s] = "queued"
    BY <1>2, RequestStepLocal
  <2>2. \A s \in Requests : batchOf[s] # None => state[s] # "validated"
    BY <1>0 DEF BatchesNamed
  <2> QED BY <1>0, <2>1, <2>2, AnswersKept, KindTypes
<1>3. CASE Dispatch
  <2>1. PICK batch \in SUBSET queue : \E seed \in batch :
          /\ queue' = queue \ batch
          /\ batchOf' = [r \in Requests |-> IF r \in batch THEN seed ELSE batchOf[r]]
          /\ pc' = [pc EXCEPT ![seed] = "created"]
    BY <1>3 DEF Dispatch
  <2>2. PICK seed \in batch :
          /\ queue' = queue \ batch
          /\ batchOf' = [r \in Requests |-> IF r \in batch THEN seed ELSE batchOf[r]]
          /\ pc' = [pc EXCEPT ![seed] = "created"]
    BY <2>1
  <2>3. UNCHANGED <<state, result>>
    BY <1>3 DEF Dispatch, outcomeVars
  <2>4. \A s \in queue' : state'[s] = "queued"
    BY <1>0, <2>2, <2>3
  <2> SUFFICES ASSUME NEW r \in Requests, batchOf'[r] # None
               PROVE  /\ pc'[batchOf'[r]] # "none"
                      /\ pc'[batchOf'[r]] = "created" => state'[r] \in {"queued"} \cup ErrorStates
                      /\ pc'[batchOf'[r]] \in {"putting_end", "done", "reaped"} =>
                           result'[r] # "pending" \/ state'[r] = "queued"
    BY <2>4 DEF AnswersTracked
  <2>5. CASE r \in batch
    BY <1>0, <2>2, <2>3, <2>5
  <2>6. CASE r \notin batch
    <3>1. batchOf'[r] = batchOf[r] /\ batchOf[r] \in Requests
      BY <1>0, <2>2, <2>6
    <3>2. batchOf[r] # seed
      BY <1>0, <3>1 DEF BatchesNamed
    <3>3. pc'[batchOf[r]] = pc[batchOf[r]]
      BY <1>0, <2>2, <3>1, <3>2
    <3> QED BY <1>0, <2>3, <3>1, <3>3 DEF AnswersTracked
  <2> QED BY <2>5, <2>6
<1>4. CASE CancelQueue
  BY <1>0, <1>4, CancelQueueLocal, AnswersKept
<1>5. CASE QuietSteps
  <2>1. UNCHANGED <<batchOf, pc, queue, state>>
    BY <1>5, QuietStepsLocal DEF outcomeVars, registryVars, itemVars
  <2> QED BY <1>0, <2>1, AnswersKept
<1> QED BY <1>1, <1>2, <1>3, <1>4, <1>5, StepCases

\* Who leaves the queue has ended or has a batch, and who becomes queued is in it.
LEMMA QueueLeft ==
  ASSUME OutcomeInvariant, AnswersTracked, [Next]_vars
  PROVE  /\ \A r \in queue \ queue' : batchOf'[r] # None \/ state'[r] \in ErrorStates
         /\ \A r \in Requests :
              state[r] = "validated" /\ state'[r] # "validated" =>
                r \in queue' \/ state'[r] \in TerminalStates
<1>0. /\ queue \subseteq Requests /\ OutcomeTypes /\ state \in [Requests -> RequestStates]
      /\ \A r \in queue : state[r] = "queued"
      /\ \A r \in Requests : state[r] = "validated" => batchOf[r] = None
      /\ None \notin Requests /\ "queued" \notin TerminalStates /\ "validated" \notin TerminalStates
      /\ ErrorStates \subseteq TerminalStates
  BY ConfigAssumption DEF OutcomeInvariant, RegistryInvariant, TypeOK, RegistryTypes,
     OutcomeTypes, AnswersTracked, BatchesNamed, TerminalStates, ErrorStates
<1>1. ASSUME NEW t \in Requests, TaskStep(t)
      PROVE  queue' = queue /\ \A r \in Requests : state[r] = "validated" => state'[r] = state[r]
  BY <1>0, <1>1, TaskStepLocal
<1>2. ASSUME NEW r \in Requests, RequestStep(r)
      PROVE  /\ \A s \in queue \ queue' : state'[s] \in ErrorStates
             /\ \A s \in Requests :
                  state[s] = "validated" /\ state'[s] # "validated" =>
                    s \in queue' \/ state'[s] \in TerminalStates
  <2>1. ASSUME NEW kind \in ErrorStates, Cancel(r, kind)
        PROVE  \A s \in queue \ queue' : state'[s] \in ErrorStates
    <3>1. {r} \in SUBSET Requests /\ Uniformly(kind) \in [Requests -> ErrorStates]
      BY DEF Uniformly
    <3>2. CASE CancelQueued(r, kind)
      <4>1. queue' = queue \ {r} /\ TerminalError({r}, Uniformly(kind))
        BY <3>2 DEF CancelQueued
      <4>2. r \in queue => state'[r] \in ErrorStates
        BY <1>0, <3>1, <4>1, TerminalErrorEffect
      <4> QED BY <4>1, <4>2
    <3>3. CASE CancelIgnored(r) \/ CancelAlone(r, kind) \/ CancelMember(r, kind)
      BY <3>3 DEF CancelIgnored, CancelAlone, CancelMember
    <3> QED BY <2>1, <3>2, <3>3 DEF Cancel
  <2>2. \A s \in queue \ queue' : state'[s] \in ErrorStates
    BY <1>2, <2>1, KindTypes DEF RequestStep, Submit, Reject, CancelRequest, DeadlinePasses,
       Expire, ClientReads, ClientDisconnects, HandlerCancelled, registryVars
  <2>3. \A s \in Requests :
          \/ state'[s] = state[s]
          \/ state'[s] \in {"cancelled", "timed_out"}
          \/ state[s] = "validated" /\ state'[s] \in {"queued", "rejected"}
    BY <1>2, RequestStepLocal
  <2>4. CASE Submit(r)
    <3>1. \A s \in Requests : state'[s] = IF s = r THEN "queued" ELSE state[s]
      BY <1>0, <2>4 DEF Submit
    <3>2. r \in queue'
      BY <2>4 DEF Submit
    <3> QED BY <2>2, <3>1, <3>2
  <2>5. CASE ~Submit(r)
    <3>1. \A s \in Requests : state[s] = "validated" => state'[s] # "queued"
      <4>1. CASE Reject(r)
        BY <1>0, <4>1 DEF Reject
      <4>2. CASE DeadlinePasses(r) \/ ClientReads(r) \/ HandlerCancelled(r)
        BY <4>2 DEF DeadlinePasses, ClientReads, HandlerCancelled, outcomeVars
      <4>3. CASE CancelRequest(r) \/ Expire(r) \/ ClientDisconnects(r)
        <5>1. \E kind \in ErrorStates : Cancel(r, kind)
          BY <4>3, KindTypes DEF CancelRequest, Expire, ClientDisconnects
        <5>2. PICK kind \in ErrorStates : Cancel(r, kind)
          BY <5>1
        <5>3. \/ UNCHANGED state
              \/ TerminalError({r}, Uniformly(kind))
          BY <5>2 DEF Cancel, CancelIgnored, CancelAlone, CancelMember, CancelQueued, outcomeVars
        <5>4. {r} \in SUBSET Requests /\ Uniformly(kind) \in [Requests -> ErrorStates]
          BY DEF Uniformly
        <5>5. CASE TerminalError({r}, Uniformly(kind))
          BY <1>0, <5>4, <5>5, TerminalErrorEffect
        <5> QED BY <5>3, <5>5
      <4> QED BY <1>2, <2>5, <4>1, <4>2, <4>3 DEF RequestStep
    <3> QED BY <2>2, <2>3, <3>1 DEF TerminalStates
  <2> QED BY <2>4, <2>5
<1>3. CASE Dispatch
  <2>1. PICK batch \in SUBSET queue : \E seed \in batch :
          /\ queue' = queue \ batch
          /\ batchOf' = [r \in Requests |-> IF r \in batch THEN seed ELSE batchOf[r]]
    BY <1>3 DEF Dispatch
  <2>2. UNCHANGED state
    BY <1>3 DEF Dispatch, outcomeVars
  <2> QED BY <1>0, <2>1, <2>2
<1>4. CASE CancelQueue
  <2>1. PICK cancelled \in SUBSET queue :
          /\ TerminalError(cancelled, Uniformly("cancelled"))
          /\ queue' = queue \ cancelled
    BY <1>4 DEF CancelQueue
  <2>2. cancelled \in SUBSET Requests
    BY <1>0
  <2>3. \A s \in Requests :
          /\ state'[s] = IF s \in cancelled /\ state[s] \notin TerminalStates
                         THEN Uniformly("cancelled")[s] ELSE state[s]
          /\ Uniformly("cancelled")[s] \in ErrorStates
    BY <1>0, <2>1, <2>2, KindTypes, TerminalErrorEffect
  <2> QED BY <1>0, <2>1, <2>2, <2>3
<1>5. CASE QuietSteps
  BY <1>5, QuietStepsLocal DEF outcomeVars, registryVars
<1> QED BY <1>1, <1>2, <1>3, <1>4, <1>5, StepCases

\* A batch keeps its members, and a deadline that passed stays passed.
LEMMA BatchesStay ==
  ASSUME OutcomeInvariant, [Next]_vars
  PROVE  /\ expired \subseteq expired'
         /\ \A r \in Requests : batchOf[r] # None => batchOf'[r] = batchOf[r]
<1>1. CASE Dispatch
  <2>1. PICK batch \in SUBSET queue : \E seed \in batch :
          batchOf' = [r \in Requests |-> IF r \in batch THEN seed ELSE batchOf[r]]
    BY <1>1 DEF Dispatch
  <2>2. \A r \in Requests : r \in batch => batchOf[r] = None
    BY DEF OutcomeInvariant, RegistryInvariant, BatchesNamed
  <2> QED BY <1>1, <2>1, <2>2 DEF Dispatch, worldVars
<1>2. ASSUME NEW t \in Requests, TaskStep(t) PROVE UNCHANGED <<batchOf, expired>>
  BY <1>2, TaskStepLocal
<1>3. ASSUME NEW r \in Requests, RequestStep(r)
      PROVE  UNCHANGED batchOf /\ expired \subseteq expired'
  BY <1>3, RequestStepLocal
<1>4. CASE CancelQueue \/ QuietSteps
  BY <1>4, CancelQueueLocal, QuietStepsLocal DEF itemVars
<1> QED BY <1>1, <1>2, <1>3, <1>4, StepCases

\* Every step keeps ReleasedIsAnswered.
LEMMA StepReleases ==
  ASSUME OutcomeInvariant, AnswersTracked, ReleasedIsAnswered, [Next]_vars
  PROVE  ReleasedIsAnswered'
<1> SUFFICES ASSUME NEW r \in Requests, state'[r] \notin {"validated", "rejected"},
                    r \notin items'
             PROVE  result'[r] # "pending" \/ LostStart(r)'
  BY DEF ReleasedIsAnswered
<1>0. OutcomeInvariant' /\ AnswersTracked'
  BY OutcomeInvariantInductive, StepAnswers
<1>1. /\ items = queue \cup active /\ items' = queue' \cup active'
      /\ r \in active <=> batchOf[r] # None /\ pc[batchOf[r]] # "reaped"
      /\ r \in active' <=> batchOf'[r] # None /\ pc'[batchOf'[r]] # "reaped"
  BY <1>0 DEF OutcomeInvariant, RegistryInvariant, RegistriesAgree
<1>2. CASE batchOf'[r] # None
  <2>1. pc'[batchOf'[r]] = "reaped"
    BY <1>1, <1>2
  <2>2. result'[r] # "pending" \/ state'[r] = "queued"
    BY <1>0, <1>2, <2>1 DEF AnswersTracked
  <2> QED BY <1>2, <2>1, <2>2 DEF LostStart
<1>3. CASE batchOf'[r] = None
  <2>1. batchOf[r] = None
    BY <1>3, BatchesStay
  <2>2. state'[r] \in TerminalStates => result'[r] # "pending"
    BY OutcomesFinal DEF Outcomes
  <2>3. ErrorStates \subseteq TerminalStates
    BY DEF ErrorStates, TerminalStates
  <2>4. CASE r \in queue
    BY <1>1, <1>3, <2>2, <2>3, <2>4, QueueLeft
  <2>5. CASE state[r] = "validated"
    BY <1>1, <2>2, <2>5, QueueLeft
  <2>6. CASE r \notin queue /\ state[r] # "validated"
    <3>1. r \notin items /\ ~LostStart(r)
      BY <1>1, <2>1, <2>6 DEF LostStart
    <3>2. state[r] # "rejected"
      BY OutcomesFinal DEF TerminalStates
    <3>3. result[r] # "pending"
      BY <2>6, <3>1, <3>2 DEF ReleasedIsAnswered
    <3> QED BY <3>3, OutcomesFinal
  <2> QED BY <2>4, <2>5, <2>6
<1> QED BY <1>2, <1>3

-----------------------------------------------------------------------------
(* Causes *)

\* What a task may give as an error to its members, and why.
LEMMA TaskStepErrors ==
  ASSUME OutcomeInvariant, AnswersTracked, NEW t \in Requests, TaskStep(t),
         NEW r \in Requests, state'[r] # state[r]
  PROVE  /\ batchOf[r] = t
         /\ state'[r] = "timed_out" =>
              Members(t) \cap expired # {} \/ cancellation[r] = "timed_out"
         /\ state'[r] = "failed" =>
              \/ BackendMayFail
              \/ \E s \in Members(t) : state[s] \in ErrorStates
              \/ cancellation[r] = "failed"
<1>0. /\ OutcomeTypes /\ Members(t) \in SUBSET Requests
      /\ cancellation \in [Requests -> ErrorStates]
      /\ state \in [Requests -> RequestStates]
  BY DEF OutcomeInvariant, RegistryInvariant, TypeOK, OutcomeTypes, ItemTypes, Members
<1>1. batchOf[r] = t
  BY TaskStepLocal
<1>2. CASE StartTask(t) \/ StreamYields(t)
  BY <1>0, <1>1, <1>2 DEF StartTask, StreamYields
<1>3. CASE BackendReturns(t) \/ StreamEnds(t)
  BY <1>0, <1>1, <1>3 DEF BackendReturns, StreamEnds, Complete
<1>4. CASE PutResumes(t) \/ Finished(t)
  BY <1>4 DEF PutResumes, Finished, outcomeVars
<1>5. CASE StartRaises(t)
  <2>1. state'[r] = "failed"
    BY <1>0, <1>5, KindTypes, TerminalErrorEffect DEF StartRaises, Uniformly
  <2>2. \A s \in Members(t) : state[s] \in {"queued"} \cup ErrorStates
    BY <1>5, ConfigAssumption DEF StartRaises, AnswersTracked, Members
  <2> QED BY <1>1, <1>5, <2>1, <2>2 DEF StartRaises
<1>6. CASE BackendFails(t)
  <2>1. state'[r] = "failed"
    BY <1>0, <1>6, KindTypes, TerminalErrorEffect DEF BackendFails, Uniformly
  <2> QED BY <1>1, <1>6, <2>1 DEF BackendFails
<1>7. CASE TimeoutFires(t)
  <2>1. state'[r] = "timed_out"
    BY <1>0, <1>7, KindTypes, TerminalErrorEffect DEF TimeoutFires, Uniformly
  <2> QED BY <1>1, <1>7, <2>1 DEF TimeoutFires
<1>8. CASE CancelDelivered(t)
  <2>1. state'[r] = cancellation[r]
    BY <1>0, <1>8, TerminalErrorEffect DEF CancelDelivered, HandleCancel, outcomeVars
  <2> QED BY <1>1, <2>1
<1> QED BY <1>2, <1>3, <1>4, <1>5, <1>6, <1>7, <1>8 DEF TaskStep

\* Every step keeps CancellationHasCause: only cancel writes cancellation_state.
LEMMA StepCancellation ==
  ASSUME OutcomeInvariant, CancellationHasCause, [Next]_vars
  PROVE  CancellationHasCause'
<1>0. /\ cancellation \in [Requests -> ErrorStates] /\ expired \subseteq expired'
      /\ \A r \in Requests :
           \/ cancellation[r] = "cancelled"
           \/ cancellation[r] = "timed_out" /\ r \in expired
  BY BatchesStay DEF OutcomeInvariant, RegistryInvariant, TypeOK, ItemTypes,
     CancellationHasCause
<1>1. ASSUME UNCHANGED cancellation PROVE CancellationHasCause'
  BY <1>0, <1>1 DEF CancellationHasCause
<1>2. ASSUME NEW r \in Requests, NEW kind \in {"cancelled", "timed_out"}, Cancel(r, kind),
             kind = "timed_out" => r \in expired
      PROVE  CancellationHasCause'
  <2>1. \/ cancellation' = cancellation
        \/ cancellation' = [cancellation EXCEPT ![r] = kind]
    BY <1>2 DEF Cancel, CancelIgnored, CancelAlone, CancelMember, CancelQueued
  <2>2. \A s \in Requests : cancellation'[s] = cancellation[s] \/ (cancellation'[s] = kind /\ s = r)
    BY <1>0, <2>1
  <2> QED BY <1>0, <1>2, <2>2 DEF CancellationHasCause
<1>3. ASSUME NEW r \in Requests, RequestStep(r) PROVE CancellationHasCause'
  <2>1. CASE CancelRequest(r) \/ Expire(r) \/ ClientDisconnects(r)
    BY <1>2, <2>1 DEF CancelRequest, Expire, ClientDisconnects
  <2>2. CASE Submit(r) \/ Reject(r) \/ DeadlinePasses(r) \/ ClientReads(r) \/ HandlerCancelled(r)
    BY <1>1, <2>2 DEF Submit, Reject, DeadlinePasses, ClientReads, HandlerCancelled, itemVars
  <2> QED BY <1>3, <2>1, <2>2 DEF RequestStep
<1>4. ASSUME NEW t \in Requests, TaskStep(t) PROVE CancellationHasCause'
  BY <1>1, <1>4, TaskStepLocal
<1>5. CASE Dispatch
  BY <1>1, <1>5 DEF Dispatch
<1>6. CASE CancelQueue \/ QuietSteps
  BY <1>1, <1>6, CancelQueueLocal, QuietStepsLocal DEF itemVars
<1> QED BY <1>3, <1>4, <1>5, <1>6, StepCases

\* Who ends with an error ends in a step of its task, in a cancel of its own or
\* with the queue.
LEMMA StepErrors ==
  ASSUME OutcomeInvariant, [Next]_vars, NEW r \in Requests, state'[r] # state[r]
  PROVE  \/ \E t \in Requests : TaskStep(t)
         \/ state'[r] = "timed_out" /\ r \in expired
         \/ state'[r] \notin {"timed_out", "failed"}
<1>1. ASSUME NEW s \in Requests, RequestStep(s)
      PROVE  \/ state'[r] = "timed_out" /\ r \in expired
             \/ state'[r] \notin {"timed_out", "failed"}
  BY <1>1, RequestStepLocal
<1>2. CASE CancelQueue
  BY <1>2, CancelQueueLocal
<1>3. CASE Dispatch \/ QuietSteps
  BY <1>3, QuietStepsLocal DEF Dispatch, outcomeVars
<1> QED BY <1>1, <1>2, <1>3, StepCases

\* Every step keeps TimeoutHasCause.
LEMMA StepTimeouts ==
  ASSUME OutcomeInvariant, AnswersTracked, CancellationHasCause, TimeoutHasCause, [Next]_vars
  PROVE  TimeoutHasCause'
<1> SUFFICES ASSUME NEW r \in Requests, state'[r] = "timed_out"
             PROVE  \/ r \in expired'
                    \/ batchOf'[r] # None /\ Members(batchOf[r])' \cap expired' # {}
  BY DEF TimeoutHasCause
<1>1. \/ r \in expired
      \/ batchOf[r] # None /\ Members(batchOf[r]) \cap expired # {}
  <2>1. CASE state[r] = "timed_out"
    BY <2>1 DEF TimeoutHasCause
  <2>2. ASSUME state[r] # "timed_out", NEW t \in Requests, TaskStep(t)
        PROVE  \/ r \in expired
               \/ batchOf[r] # None /\ Members(batchOf[r]) \cap expired # {}
    <3>1. /\ batchOf[r] = t
          /\ Members(t) \cap expired # {} \/ cancellation[r] = "timed_out"
      BY <2>2, TaskStepErrors
    <3> QED BY <3>1, ConfigAssumption DEF CancellationHasCause
  <2> QED BY <2>1, <2>2, StepErrors
<1>2. /\ expired \subseteq expired'
      /\ \A s \in Requests : batchOf[s] # None => batchOf'[s] = batchOf[s]
  BY BatchesStay
<1> QED BY <1>1, <1>2 DEF Members

\* Every step keeps FailureHasCause.
LEMMA StepFailures ==
  ASSUME OutcomeInvariant, AnswersTracked, CancellationHasCause, FailureHasCause, [Next]_vars
  PROVE  FailureHasCause'
<1> SUFFICES ASSUME NEW r \in Requests, state'[r] = "failed"
             PROVE  \/ BackendMayFail
                    \/ /\ batchOf'[r] # None
                       /\ \E s \in Members(batchOf[r])' : state'[s] \in {"cancelled", "timed_out"}
  BY DEF FailureHasCause
<1>1. \/ BackendMayFail
      \/ /\ batchOf[r] # None
         /\ \E s \in Members(batchOf[r]) : state[s] \in {"cancelled", "timed_out"}
  <2>1. CASE state[r] = "failed"
    BY <2>1 DEF FailureHasCause
  <2>2. ASSUME state[r] # "failed", NEW t \in Requests, TaskStep(t)
        PROVE  \/ BackendMayFail
               \/ /\ batchOf[r] # None
                  /\ \E s \in Members(batchOf[r]) : state[s] \in {"cancelled", "timed_out"}
    <3>1. /\ batchOf[r] = t /\ t # None
          /\ \/ BackendMayFail
             \/ \E s \in Members(t) : state[s] \in ErrorStates
      BY <2>2, TaskStepErrors, ConfigAssumption DEF CancellationHasCause
    <3>2. ASSUME NEW s \in Members(t), state[s] = "failed"
          PROVE  BackendMayFail \/ \E u \in Members(t) : state[u] \in {"cancelled", "timed_out"}
      <4>1. s \in Requests /\ batchOf[s] = t
        BY DEF Members
      <4> QED BY <3>2, <4>1 DEF FailureHasCause
    <3> QED BY <3>1, <3>2 DEF ErrorStates
  <2> QED BY <2>1, <2>2, StepErrors
<1>2. \A s \in Requests : batchOf[s] # None => batchOf'[s] = batchOf[s]
  BY BatchesStay
<1>3. \A s \in Requests : state[s] \in {"cancelled", "timed_out"} => state'[s] = state[s]
  BY OutcomesFinal DEF TerminalStates
<1> QED BY <1>1, <1>2, <1>3 DEF Members

-----------------------------------------------------------------------------
(* Shutdown *)

\* How the lifespan proceeds: only CancelQueue leaves "stopping", only Unload
\* reaches "unloaded".
LEMMA PhaseMoves ==
  ASSUME OutcomeInvariant, [Next]_vars
  PROVE  \/ phase' = phase
         \/ StopDispatcher /\ phase' = "stopping"
         \/ CancelQueue
         \/ phase = "draining" /\ phase' = "cancelling"
         \/ Unload /\ phase' = "unloaded" /\ phase \in {"draining", "cancelling"}
<1>1. ASSUME NEW t \in Requests, TaskStep(t) PROVE phase' = phase
  BY <1>1, TaskStepLocal
<1>2. ASSUME NEW r \in Requests, RequestStep(r) PROVE phase' = phase
  BY <1>2, RequestStepLocal
<1>3. CASE Dispatch
  BY <1>3 DEF Dispatch, worldVars
<1>4. CASE QuietSteps
  BY <1>4 DEF QuietSteps, DispatcherWakes, DispatchNothing, StopDispatcher, GraceEnds,
     Unload, Tick, vars, worldVars
<1> QED BY <1>1, <1>2, <1>3, <1>4, StepCases

\* A stopped dispatcher is not woken up.
LEMMA StoppedStays ==
  ASSUME OutcomeInvariant, [Next]_vars, dispatcher = "stopped"
  PROVE  dispatcher' = "stopped"
<1>1. NotifyAll => dispatcher' = "stopped"
  BY DEF NotifyAll
<1>2. ASSUME NEW t \in Requests, TaskStep(t) PROVE dispatcher' = "stopped"
  BY <1>1, <1>2 DEF TaskStep, StartTask, StartRaises, BackendReturns, BackendFails,
     StreamYields, StreamEnds, PutResumes, TimeoutFires, CancelDelivered, Finished
<1>3. ASSUME NEW r \in Requests, RequestStep(r) PROVE dispatcher' = "stopped"
  BY <1>1, <1>3 DEF RequestStep, Submit, Reject, CancelRequest, DeadlinePasses, Expire,
     ClientReads, ClientDisconnects, HandlerCancelled, Cancel, CancelIgnored, CancelAlone,
     CancelMember, CancelQueued, taskVars
<1>4. ~Dispatch
  BY DEF Dispatch
<1>5. CASE CancelQueue
  BY <1>5, CancelQueueLocal
<1>6. CASE QuietSteps
  BY <1>6 DEF QuietSteps, DispatcherWakes, DispatchNothing, StopDispatcher, GraceEnds,
     Unload, Tick, vars, taskVars
<1> QED BY <1>2, <1>3, <1>4, <1>5, <1>6, StepCases

\* Every step keeps ShutdownTracked.
LEMMA StepShutdown ==
  ASSUME OutcomeInvariant, ShutdownTracked, [Next]_vars
  PROVE  ShutdownTracked'
<1>1. phase' # "up" => dispatcher' = "stopped"
  <2>1. CASE StopDispatcher
    BY <2>1 DEF StopDispatcher
  <2>2. CASE phase # "up"
    BY <2>2, StoppedStays DEF ShutdownTracked
  <2>3. CASE phase' = phase
    BY <2>2, <2>3
  <2> QED BY <2>1, <2>2, <2>3, PhaseMoves, CancelQueueLocal
<1>2. ASSUME phase' \notin {"up", "stopping"}, NEW r \in queue'
      PROVE  result'[r] # "pending"
  <2>1. CASE CancelQueue
    BY <2>1, CancelQueueLocal
  <2>2. CASE ~CancelQueue
    <3>1. phase \notin {"up", "stopping"}
      BY <1>2, <2>2, PhaseMoves
    <3>2. r \in queue
      <4>1. ASSUME NEW s \in Requests, RequestStep(s) PROVE r \in queue
        BY <3>1, <4>1, RequestStepLocal
      <4>2. ASSUME NEW t \in Requests, TaskStep(t) PROVE r \in queue
        BY <4>2, TaskStepLocal
      <4>3. CASE Dispatch \/ QuietSteps
        BY <4>3, QuietStepsLocal DEF Dispatch, registryVars
      <4> QED BY <2>2, <4>1, <4>2, <4>3, StepCases
    <3>3. r \in Requests
      BY <3>2 DEF OutcomeInvariant, RegistryInvariant, TypeOK, RegistryTypes
    <3> QED BY <3>1, <3>2, <3>3, OutcomesFinal DEF ShutdownTracked
  <2> QED BY <2>1, <2>2
<1> QED BY <1>1, <1>2 DEF ShutdownTracked

\* Every step keeps UnloadedIsIdle: once unloaded nothing starts any more, and
\* what was admitted is released, abandoned in the queue, or waits to be reaped.
LEMMA StepUnloads ==
  ASSUME OutcomeInvariant, AnswersTracked, ShutdownTracked, UnloadedIsIdle, [Next]_vars,
         ReleasedIsAnswered', ShutdownTracked', AnswersTracked'
  PROVE  UnloadedIsIdle'
<1> SUFFICES ASSUME phase' = "unloaded" PROVE UnloadedIsIdle'
  BY DEF UnloadedIsIdle
<1>0. pc \in [Requests -> TaskStates]
  BY DEF OutcomeInvariant, RegistryInvariant, TypeOK, TaskTypes
<1>1. \A t \in Requests : pc'[t] \notin Unfinished
  <2>1. CASE Unload
    BY <2>1 DEF Unload, NoTaskPending, taskVars
  <2>2. CASE ~Unload
    <3>1. phase = "unloaded"
      BY <2>2, PhaseMoves, CancelQueueLocal
    <3>2. \A t \in Requests : pc[t] \notin Unfinished
      BY <3>1 DEF UnloadedIsIdle
    <3>3. ASSUME NEW t \in Requests, TaskStep(t)
          PROVE  \A u \in Requests : pc'[u] \notin Unfinished
      <4>1. Finished(t)
        BY <3>2, <3>3 DEF TaskStep, StartTask, StartRaises, BackendReturns, BackendFails,
           StreamYields, StreamEnds, PutResumes, TimeoutFires, CancelDelivered, Generating,
           Unfinished
      <4> QED BY <1>0, <3>2, <4>1 DEF Finished, Unfinished
    <3>4. ASSUME NEW r \in Requests, RequestStep(r) PROVE UNCHANGED pc
      BY <3>4, RequestStepLocal
    <3>5. ~Dispatch
      BY <3>1 DEF ShutdownTracked, Dispatch
    <3>6. CASE CancelQueue \/ QuietSteps
      BY <3>2, <3>6, CancelQueueLocal, QuietStepsLocal
    <3> QED BY <3>2, <3>3, <3>4, <3>5, <3>6, StepCases
  <2> QED BY <2>1, <2>2
<1>2. ASSUME NEW r \in Requests, state'[r] \notin {"validated", "rejected"}
      PROVE  result'[r] # "pending" \/ LostStart(r)'
  <2>1. OutcomeInvariant'
    BY OutcomeInvariantInductive
  <2>2. /\ items' = queue' \cup active' /\ pc' \in [Requests -> TaskStates]
        /\ r \in active' => batchOf'[r] # None /\ pc'[batchOf'[r]] # "reaped"
        /\ batchOf' \in [Requests -> Requests \cup {None}]
    BY <2>1 DEF OutcomeInvariant, RegistryInvariant, RegistriesAgree, TypeOK, TaskTypes,
       ItemTypes
  <2>3. CASE r \notin items'
    BY <1>2, <2>3 DEF ReleasedIsAnswered
  <2>4. CASE r \in queue'
    BY <2>4 DEF ShutdownTracked
  <2>5. CASE r \in active'
    <3>1. batchOf'[r] \in Requests /\ batchOf'[r] # None
      BY <2>2, <2>5
    <3>2. pc'[batchOf'[r]] # "none"
      BY <3>1 DEF AnswersTracked
    <3>3. pc'[batchOf'[r]] = "done"
      BY <1>1, <2>2, <2>5, <3>1, <3>2 DEF TaskStates, Unfinished
    <3> QED BY <3>1, <3>3 DEF AnswersTracked, LostStart
  <2> QED BY <2>2, <2>3, <2>4, <2>5
<1> QED BY <1>1, <1>2 DEF UnloadedIsIdle

-----------------------------------------------------------------------------
(* The theorems *)

\* AnswerInvariant is inductive.
LEMMA AnswerInvariantInductive ==
  /\ Init => AnswerInvariant
  /\ AnswerInvariant /\ [Next]_vars => AnswerInvariant'
<1>1. ASSUME Init PROVE AnswerInvariant
  <2>1. OutcomeInvariant
    BY <1>1, InitRefines
  <2>2. AnswersTracked /\ CancellationHasCause /\ ShutdownTracked
    BY <1>1 DEF Init, AnswersTracked, CancellationHasCause, ShutdownTracked
  <2>3. ReleasedIsAnswered /\ TimeoutHasCause /\ FailureHasCause /\ UnloadedIsIdle
    BY <1>1 DEF Init, ReleasedIsAnswered, TimeoutHasCause, FailureHasCause, UnloadedIsIdle
  <2> QED BY <2>1, <2>2, <2>3 DEF AnswerInvariant
<1>2. ASSUME AnswerInvariant, [Next]_vars PROVE AnswerInvariant'
  <2>1. /\ OutcomeInvariant /\ AnswersTracked /\ CancellationHasCause /\ ShutdownTracked
        /\ ReleasedIsAnswered /\ TimeoutHasCause /\ FailureHasCause /\ UnloadedIsIdle
    BY <1>2 DEF AnswerInvariant
  <2>2. OutcomeInvariant'
    BY <1>2, <2>1, OutcomeInvariantInductive
  <2>3. AnswersTracked' /\ CancellationHasCause' /\ ShutdownTracked' /\ ReleasedIsAnswered'
    BY <1>2, <2>1, StepAnswers, StepCancellation, StepShutdown, StepReleases
  <2>4. TimeoutHasCause' /\ FailureHasCause' /\ UnloadedIsIdle'
    BY <1>2, <2>1, <2>3, StepTimeouts, StepFailures, StepUnloads
  <2> QED BY <2>2, <2>3, <2>4 DEF AnswerInvariant
<1> QED BY <1>1, <1>2

\* A request that has left the scheduler has been answered, unless its task was
\* cancelled before its first step.
THEOREM ReleasedRequestsAnswered == Spec => []ReleasedIsAnswered
<1>1. AnswerInvariant => ReleasedIsAnswered
  BY DEF AnswerInvariant
<1> QED BY <1>1, AnswerInvariantInductive, PTL DEF Spec

\* No request times out before some member of its batch has passed its deadline.
THEOREM TimeoutsCaused == Spec => []TimeoutHasCause
<1>1. AnswerInvariant => TimeoutHasCause
  BY DEF AnswerInvariant
<1> QED BY <1>1, AnswerInvariantInductive, PTL DEF Spec

\* While the backend does not fail, only a member of a batch that lost another
\* member before it started fails.
THEOREM FailuresCaused == Spec => []FailureHasCause
<1>1. AnswerInvariant => FailureHasCause
  BY DEF AnswerInvariant
<1> QED BY <1>1, AnswerInvariantInductive, PTL DEF Spec

\* Once the backend is unloaded no task can call it and nobody waits for an
\* answer, except for a task cancelled before its first step.
THEOREM UnloadedWhenIdle == Spec => []UnloadedIsIdle
<1>1. AnswerInvariant => UnloadedIsIdle
  BY DEF AnswerInvariant
<1> QED BY <1>1, AnswerInvariantInductive, PTL DEF Spec

-----------------------------------------------------------------------------
(* Streams: what their clients read, and the bound of their buffers.  The
   inductive invariant is StreamInvariant. *)

Entries == {"token", "error", "end"}

-----------------------------------------------------------------------------
(* Buffers *)

\* A buffer that holds tokens only.
TokensOnly(buffer) == \A i \in 1 .. Len(buffer) : buffer[i] = "token"

\* A buffer fits the state of its stream: only its last entry is not a token and
\* says how the stream ended; when the client must be told, it is there.
Fitting(buffer, st, mustTell) ==
  /\ \A i \in 1 .. Len(buffer) - 1 : buffer[i] = "token"
  /\ buffer # <<>> =>
       /\ buffer[Len(buffer)] = "end" => st = "completed"
       /\ buffer[Len(buffer)] = "error" => st \in ErrorStates
  /\ mustTell /\ st \in Outcomes => buffer # <<>> /\ buffer[Len(buffer)] # "token"

\* The client of r reads on, and nothing holds back or lost the end of its stream.
MustTell(r) == r \in reading /\ pc[r] # "putting_end" /\ ~LostEnd(r)

\* Appending to tokens leaves tokens before the last entry.
LEMMA AppendToTokens ==
  ASSUME NEW buffer \in Seq(Entries), TokensOnly(buffer), NEW entry \in Entries
  PROVE  /\ \A i \in 1 .. Len(Append(buffer, entry)) - 1 : Append(buffer, entry)[i] = "token"
         /\ Append(buffer, entry) # <<>>
         /\ Append(buffer, entry)[Len(Append(buffer, entry))] = entry
         /\ Len(Append(buffer, entry)) = Len(buffer) + 1
<1>1. Len(Append(buffer, entry)) = Len(buffer) + 1 /\ Len(buffer) \in Nat
  OBVIOUS
<1>2. \A i \in 1 .. Len(buffer) : Append(buffer, entry)[i] = buffer[i]
  OBVIOUS
<1>3. Append(buffer, entry)[Len(buffer) + 1] = entry
  OBVIOUS
<1>4. Append(buffer, entry) # <<>>
  <2>1. Len(<<>>) = 0
    OBVIOUS
  <2> QED BY <1>1, <2>1
<1> QED BY <1>1, <1>2, <1>3, <1>4 DEF TokensOnly

\* Reading from the head of a buffer shortens it and keeps the rest.
LEMMA TailOfBuffer ==
  ASSUME NEW buffer \in Seq(Entries), buffer # <<>>
  PROVE  /\ Tail(buffer) \in Seq(Entries)
         /\ Len(Tail(buffer)) = Len(buffer) - 1
         /\ \A i \in 1 .. Len(Tail(buffer)) : Tail(buffer)[i] = buffer[i + 1]
         /\ Head(buffer) = buffer[1]
         /\ Len(buffer) \in Nat \ {0}
         /\ Tail(buffer) # <<>> <=> Len(buffer) # 1
<1>1. /\ Tail(buffer) \in Seq(Entries)
      /\ Len(Tail(buffer)) = Len(buffer) - 1
      /\ \A i \in 1 .. Len(Tail(buffer)) : Tail(buffer)[i] = buffer[i + 1]
      /\ Head(buffer) = buffer[1]
      /\ Len(buffer) \in Nat \ {0}
  OBVIOUS
<1>2. \A b \in Seq(Entries) : b # <<>> <=> Len(b) # 0
  OBVIOUS
<1>3. Tail(buffer) # <<>> <=> Len(Tail(buffer)) # 0
  BY <1>1, <1>2
<1> QED BY <1>1, <1>3

\* _force_output puts the error behind tokens, and keeps the bound.
LEMMA ForceOutputEnds ==
  ASSUME NEW buffer \in Seq(Entries), TokensOnly(buffer), Len(buffer) <= StreamBufferSize
  PROVE  /\ \A i \in 1 .. Len(ForceOutput(buffer)) - 1 : ForceOutput(buffer)[i] = "token"
         /\ ForceOutput(buffer) # <<>>
         /\ ForceOutput(buffer)[Len(ForceOutput(buffer))] = "error"
         /\ Len(ForceOutput(buffer)) <= StreamBufferSize
<1>0. StreamBufferSize \in Nat \ {0} /\ "error" \in Entries /\ Len(buffer) \in Nat
  BY ConfigAssumption DEF Entries
<1>1. CASE Len(buffer) < StreamBufferSize
  <2>1. ForceOutput(buffer) = Append(buffer, "error")
    BY <1>1 DEF ForceOutput
  <2> QED BY <1>0, <1>1, <2>1, AppendToTokens
<1>2. CASE Len(buffer) = StreamBufferSize
  <2>1. buffer # <<>>
    BY <1>0, <1>2
  <2>2. /\ Tail(buffer) \in Seq(Entries) /\ Len(Tail(buffer)) = Len(buffer) - 1
        /\ TokensOnly(Tail(buffer))
    BY <2>1, TailOfBuffer DEF TokensOnly
  <2>3. ForceOutput(buffer) = Append(Tail(buffer), "error")
    BY <1>0, <1>2 DEF ForceOutput
  <2> QED BY <1>0, <1>2, <2>2, <2>3, AppendToTokens
<1> QED BY <1>0, <1>1, <1>2

\* A fitting buffer of a stream that has not ended holds tokens only.
LEMMA LiveHoldsTokens ==
  ASSUME NEW buffer \in Seq(Entries), NEW st, st \notin TerminalStates, NEW mustTell,
         Fitting(buffer, st, mustTell)
  PROVE  TokensOnly(buffer)
<1>1. st # "completed" /\ st \notin ErrorStates
  BY DEF TerminalStates, ErrorStates
<1>2. CASE buffer = <<>>
  BY <1>2 DEF TokensOnly
<1>3. CASE buffer # <<>>
  <2>1. Len(buffer) \in Nat \ {0}
    BY <1>3
  <2>2. buffer[Len(buffer)] \in Entries
    BY <2>1
  <2>3. buffer[Len(buffer)] = "token"
    BY <1>1, <1>3, <2>2 DEF Fitting, Entries
  <2> QED BY <2>1, <2>3 DEF Fitting, TokensOnly
<1> QED BY <1>2, <1>3

-----------------------------------------------------------------------------
(* What a step does to one stream *)

\* Nothing happens to what its client reads, except that the client may go away
\* or a cancelled task may drop the end.
Kept(r) ==
  /\ output'[r] = output[r] /\ state'[r] = state[r]
  /\ r \in reading' => r \in reading
  /\ pc[r] = "putting_end" => pc'[r] = "putting_end" \/ r \in cancelling
  /\ pc'[r] = "putting_end" => pc[r] = "putting_end"

\* It is admitted or makes progress.
Proceeds(r) ==
  /\ state[r] \notin TerminalStates /\ state'[r] \notin Outcomes
  /\ output'[r] = output[r] /\ pc'[r] # "putting_end"

\* It ends with an error.
Fails(r) ==
  /\ state[r] \notin TerminalStates /\ state'[r] \in ErrorStates
  /\ output'[r] = ForceOutput(output[r]) /\ pc'[r] # "putting_end"

\* A token is put into its buffer.
PutsToken(r) ==
  /\ state[r] \notin TerminalStates /\ state'[r] \notin TerminalStates
  /\ Len(output[r]) < StreamBufferSize
  /\ output'[r] = Append(output[r], "token") /\ pc'[r] # "putting_end"

\* It completes, and its end is put at once or has to wait.
Completes(r) ==
  /\ state[r] \notin TerminalStates /\ state'[r] = "completed"
  /\ \/ /\ Len(output[r]) < StreamBufferSize
        /\ output'[r] = Append(output[r], "end") /\ pc'[r] # "putting_end"
     \/ output'[r] = output[r] /\ pc'[r] = "putting_end"

\* Its end is put after waiting.
PutsEnd(r) ==
  /\ pc[r] = "putting_end" /\ state'[r] = state[r]
  /\ Len(output[r]) < StreamBufferSize
  /\ output'[r] = Append(output[r], "end") /\ pc'[r] # "putting_end"

\* Its client reads.
IsRead(r) ==
  /\ r \in reading /\ output[r] # <<>> /\ output'[r] = Tail(output[r])
  /\ state'[r] = state[r] /\ pc'[r] = pc[r]
  /\ Head(output[r]) # "token" => r \notin reading'

Moves(r) ==
  \/ Kept(r) \/ Proceeds(r) \/ Fails(r) \/ PutsToken(r) \/ Completes(r) \/ PutsEnd(r)
  \/ IsRead(r)

\* _terminal_error either ends a stream with an error or leaves it as it is.
LEMMA TerminalErrorMoves ==
  ASSUME OutcomeTypes, EndPending, NEW r \in Stream,
         NEW S \in SUBSET Requests, NEW kind \in [Requests -> ErrorStates],
         TerminalError(S, kind), reading' \subseteq reading,
         pc'[r] = "putting_end" => pc[r] = "putting_end",
         pc[r] = "putting_end" => pc'[r] = "putting_end" \/ r \in cancelling
  PROVE  Kept(r) \/ Fails(r)
<1>0. r \in Requests
  BY ConfigAssumption
<1>1. /\ state'[r] = IF r \in Live(S) THEN kind[r] ELSE state[r]
      /\ output'[r] = IF r \in Live(S) \cap Stream THEN ForceOutput(output[r]) ELSE output[r]
      /\ kind[r] \in ErrorStates
  BY <1>0 DEF TerminalError
<1>2. CASE r \in Live(S)
  <2>1. state[r] \notin TerminalStates
    BY <1>2 DEF Live
  <2>2. pc'[r] # "putting_end"
    BY <1>0, <2>1 DEF EndPending, TerminalStates
  <2> QED BY <1>1, <1>2, <2>1, <2>2 DEF Fails
<1>3. CASE r \notin Live(S)
  BY <1>1, <1>3 DEF Kept
<1> QED BY <1>2, <1>3

\* A step of a batch task.
LEMMA TaskStepMoves ==
  ASSUME OutcomeInvariant, EndPending, NEW r \in Stream, NEW t \in Requests, TaskStep(t)
  PROVE  Moves(r) /\ cancelling' = cancelling
<1>0. /\ r \in Requests /\ OutcomeTypes /\ pc \in [Requests -> TaskStates]
      /\ cancellation \in [Requests -> ErrorStates]
      /\ Members(t) \in SUBSET Requests
      /\ Uniformly("failed") \in [Requests -> ErrorStates]
      /\ Uniformly("timed_out") \in [Requests -> ErrorStates]
      /\ state \in [Requests -> RequestStates]
      /\ output \in [Requests -> Seq(Entries)]
  BY ConfigAssumption DEF OutcomeInvariant, RegistryInvariant, TypeOK, OutcomeTypes, TaskTypes,
     ItemTypes, Members, Uniformly, ErrorStates, Entries
<1>1. reading' = reading /\ cancelling' = cancelling
  BY DEF TaskStep, StartTask, StartRaises, BackendReturns, BackendFails, StreamYields,
     StreamEnds, PutResumes, TimeoutFires, CancelDelivered, Finished, worldVars
<1>2. \A u \in Requests : pc[u] # "none" => batchOf[u] = u
  BY DEF OutcomeInvariant, TasksProgress
<1>3. batchOf[t] = t => r = t \/ r \notin Members(t)
  <2> SUFFICES ASSUME batchOf[t] = t, r \in Members(t) PROVE r = t
    OBVIOUS
  <2>1. batchOf[r] = t /\ t \in Members(t) /\ t # None
    BY ConfigAssumption DEF Members
  <2> QED BY <2>1 DEF OutcomeInvariant, StreamsAlone
<1>4. ASSUME Generating(t) \/ pc[t] = "putting_token"
      PROVE  r \in Members(t) => r = t /\ state[t] \in {"prefill", "decoding"}
  <2>1. batchOf[t] = t /\ pc[t] \in {"generating", "putting_token"}
    BY <1>2, <1>4 DEF Generating
  <2>2. r = t => Alone(t)
    BY <2>1, ConfigAssumption DEF OutcomeInvariant, StreamsAlone, Alone
  <2> QED BY <1>3, <2>1, <2>2 DEF OutcomeInvariant, TasksProgress
<1>5. ASSUME TaskEnds(t), pc[t] = "putting_end" => t \in cancelling
      PROVE  /\ pc'[r] = "putting_end" => pc[r] = "putting_end"
             /\ pc[r] = "putting_end" => pc'[r] = "putting_end" \/ r \in cancelling
  BY <1>0, <1>5 DEF TaskEnds
<1>6. CASE StartTask(t)
  <2>1. /\ pc[t] = "created" /\ \A s \in Members(t) : state[s] = "queued"
        /\ \A u \in Requests : pc'[u] = IF u = t THEN "generating" ELSE pc[u]
        /\ \A s \in Requests : state'[s] = IF s \in Members(t) THEN "prefill" ELSE state[s]
        /\ output' = output
    BY <1>0, <1>6 DEF StartTask
  <2>2. CASE r \in Members(t)
    <3>1. r = t
      BY <1>2, <1>3, <2>1, <2>2
    <3>2. Proceeds(r)
      BY <1>0, <2>1, <2>2, <3>1 DEF Proceeds, TerminalStates, Outcomes
    <3> QED BY <1>1, <3>2 DEF Moves
  <2>3. CASE r \notin Members(t)
    <3>1. Kept(r)
      BY <1>0, <1>1, <2>1, <2>3 DEF Kept
    <3> QED BY <1>1, <3>1 DEF Moves
  <2> QED BY <2>2, <2>3
<1>7. CASE StartRaises(t) \/ BackendFails(t) \/ TimeoutFires(t)
  <2>1. PICK kind \in [Requests -> ErrorStates] : TerminalError(Members(t), kind)
    BY <1>0, <1>7 DEF StartRaises, BackendFails, TimeoutFires
  <2>2. TaskEnds(t) /\ pc[t] # "putting_end"
    BY <1>7 DEF StartRaises, BackendFails, TimeoutFires, Generating
  <2> QED BY <1>0, <1>1, <1>5, <2>1, <2>2, TerminalErrorMoves DEF Moves
<1>8. CASE CancelDelivered(t)
  <2>1. TaskEnds(t) /\ t \in cancelling
    BY <1>8 DEF CancelDelivered
  <2>2. CASE UNCHANGED outcomeVars
    <3>1. Kept(r)
      BY <1>1, <1>5, <2>1, <2>2 DEF Kept, outcomeVars
    <3> QED BY <1>1, <3>1 DEF Moves
  <2>3. CASE TerminalError(Members(t), cancellation)
    BY <1>0, <1>1, <1>5, <2>1, <2>3, TerminalErrorMoves DEF Moves
  <2> QED BY <1>8, <2>2, <2>3 DEF CancelDelivered, HandleCancel
<1>9. CASE BackendReturns(t)
  <2>1. batchOf[t] = t /\ r # t /\ TaskEnds(t) /\ output' = output /\ Complete(Receivers(t))
        /\ pc[t] = "generating"
    BY <1>2, <1>9 DEF BackendReturns, Generating
  <2>2. r \notin Receivers(t)
    BY <1>3, <2>1 DEF Receivers
  <2>3. state'[r] = state[r]
    BY <1>0, <2>1, <2>2 DEF Complete
  <2>4. Kept(r)
    BY <1>1, <1>5, <2>1, <2>3 DEF Kept
  <2> QED BY <1>1, <2>4 DEF Moves
<1>10. CASE StreamYields(t)
  <2>1. Generating(t) /\ pc[t] = "generating" /\ batchOf[t] = t
    BY <1>2, <1>10 DEF StreamYields, Generating
  <2>2. CASE r # t
    <3>1. output'[r] = output[r] /\ pc'[r] = pc[r] /\ state'[r] = state[r]
      BY <1>0, <1>10, <2>2 DEF StreamYields
    <3> QED BY <1>1, <3>1 DEF Kept, Moves
  <2>3. CASE r = t
    <3>1. state[r] \notin TerminalStates
      BY <1>0, <1>4, <2>1, <2>3 DEF Members, TerminalStates
    <3>2. state'[r] = "decoding" /\ "decoding" \notin TerminalStates
      BY <1>0, <1>10, <2>3 DEF StreamYields, TerminalStates
    <3>3. CASE Len(output[r]) < StreamBufferSize
      <4>1. output'[r] = Append(output[r], "token") /\ pc'[r] = "generating"
        BY <1>0, <1>10, <2>1, <2>3, <3>3 DEF StreamYields
      <4> QED BY <1>1, <3>1, <3>2, <3>3, <4>1 DEF PutsToken, Moves
    <3>4. CASE ~(Len(output[r]) < StreamBufferSize)
      <4>1. output'[r] = output[r] /\ pc'[r] = "putting_token"
        BY <1>0, <1>10, <2>1, <2>3, <3>4 DEF StreamYields
      <4> QED BY <1>1, <3>1, <3>2, <4>1 DEF Proceeds, Moves, Outcomes
    <3> QED BY <3>3, <3>4
  <2> QED BY <2>2, <2>3
<1>11. CASE StreamEnds(t)
  <2>1. Generating(t) /\ pc[t] = "generating" /\ batchOf[t] = t
    BY <1>2, <1>11 DEF StreamEnds, Generating
  <2>2. CASE r # t
    <3>1. output'[r] = output[r] /\ pc'[r] = pc[r] /\ state'[r] = state[r]
      BY <1>0, <1>11, <2>2 DEF StreamEnds, TaskEnds, Complete
    <3> QED BY <1>1, <3>1 DEF Kept, Moves
  <2>3. CASE r = t
    <3>1. state[r] \notin TerminalStates
      BY <1>0, <1>4, <2>1, <2>3 DEF Members, TerminalStates
    <3>2. state'[r] = "completed"
      BY <1>0, <1>11, <2>3 DEF StreamEnds, Complete
    <3>3. CASE Len(output[r]) < StreamBufferSize
      <4>1. output'[r] = Append(output[r], "end") /\ pc'[r] = "done"
        BY <1>0, <1>11, <2>1, <2>3, <3>3 DEF StreamEnds, TaskEnds
      <4> QED BY <1>1, <3>1, <3>2, <3>3, <4>1 DEF Completes, Moves
    <3>4. CASE ~(Len(output[r]) < StreamBufferSize)
      <4>1. output'[r] = output[r] /\ pc'[r] = "putting_end"
        BY <1>0, <1>11, <2>1, <2>3, <3>4 DEF StreamEnds
      <4> QED BY <1>1, <3>1, <3>2, <4>1 DEF Completes, Moves
    <3> QED BY <3>3, <3>4
  <2> QED BY <2>2, <2>3
<1>12. CASE PutResumes(t)
  <2>1. state' = state /\ Len(output[t]) < StreamBufferSize
    BY <1>12 DEF PutResumes
  <2>2. CASE r # t
    <3>1. output'[r] = output[r] /\ pc'[r] = pc[r]
      BY <1>0, <1>12, <2>2 DEF PutResumes, TaskEnds
    <3> QED BY <1>1, <2>1, <3>1 DEF Kept, Moves
  <2>3. CASE r = t /\ pc[t] = "putting_token"
    <3>1. output'[r] = Append(output[r], "token") /\ pc'[r] = "generating"
      BY <1>0, <1>12, <2>3 DEF PutResumes
    <3>2. state[r] \notin TerminalStates
      BY <1>0, <1>2, <1>4, <2>3 DEF Members, TerminalStates
    <3> QED BY <1>1, <2>1, <2>3, <3>1, <3>2 DEF PutsToken, Moves
  <2>4. CASE r = t /\ pc[t] = "putting_end"
    <3>1. output'[r] = Append(output[r], "end") /\ pc'[r] = "done"
      BY <1>0, <1>12, <2>4 DEF PutResumes, TaskEnds
    <3> QED BY <1>1, <2>1, <2>4, <3>1 DEF PutsEnd, Moves
  <2> QED BY <1>12, <2>2, <2>3, <2>4 DEF PutResumes
<1>13. CASE Finished(t)
  <2>1. /\ UNCHANGED <<state, output>> /\ pc[t] = "done"
        /\ \A u \in Requests : pc'[u] = IF u = t THEN "reaped" ELSE pc[u]
    BY <1>0, <1>13 DEF Finished, HasFinished, outcomeVars
  <2> QED BY <1>0, <1>1, <2>1 DEF Kept, Moves
<1> QED BY <1>6, <1>7, <1>8, <1>9, <1>10, <1>11, <1>12, <1>13 DEF TaskStep

\* A step of admission, a deadline or a client.
LEMMA RequestStepMoves ==
  ASSUME OutcomeInvariant, EndPending, NEW r \in Stream, NEW s \in Requests, RequestStep(s)
  PROVE  Moves(r) /\ cancelling \subseteq cancelling'
<1>0. /\ r \in Requests /\ OutcomeTypes
      /\ state \in [Requests -> RequestStates]
      /\ output \in [Requests -> Seq(Entries)]
      /\ "cancelled" \in ErrorStates /\ "timed_out" \in ErrorStates
  BY ConfigAssumption DEF OutcomeInvariant, RegistryInvariant, TypeOK, OutcomeTypes,
     ErrorStates, Entries
<1>1. ASSUME NEW kind \in ErrorStates, Cancel(s, kind), pc' = pc, reading' \subseteq reading
      PROVE  Moves(r) /\ cancelling \subseteq cancelling'
  <2>1. {s} \in SUBSET Requests /\ Uniformly(kind) \in [Requests -> ErrorStates]
    BY DEF Uniformly
  <2>2. cancelling \subseteq cancelling'
    BY <1>1 DEF Cancel, CancelIgnored, CancelAlone, CancelMember, CancelQueued
  <2>3. UNCHANGED outcomeVars \/ TerminalError({s}, Uniformly(kind))
    BY <1>1 DEF Cancel, CancelIgnored, CancelAlone, CancelMember, CancelQueued
  <2>4. CASE UNCHANGED outcomeVars
    <3>1. Kept(r)
      BY <1>1, <2>4 DEF Kept, outcomeVars
    <3> QED BY <2>2, <3>1 DEF Moves
  <2>5. CASE TerminalError({s}, Uniformly(kind))
    BY <1>0, <1>1, <2>1, <2>2, <2>5, TerminalErrorMoves DEF Moves
  <2> QED BY <2>3, <2>4, <2>5
<1>2. CASE CancelRequest(s) \/ Expire(s) \/ ClientDisconnects(s)
  BY <1>0, <1>1, <1>2 DEF CancelRequest, Expire, ClientDisconnects, worldVars
<1>3. CASE Submit(s) \/ Reject(s)
  <2>1. /\ output' = output /\ pc' = pc /\ cancelling' = cancelling
        /\ state[s] = "validated"
        /\ \A u \in Requests : u # s => state'[u] = state[u] /\ (u \in reading' => u \in reading)
        /\ state'[s] \in {"queued", "rejected"}
    BY <1>0, <1>3 DEF Submit, Reject, taskVars, worldVars
  <2>2. CASE r = s
    <3>1. state[r] \notin TerminalStates /\ state'[r] \notin Outcomes
      BY <2>1, <2>2 DEF TerminalStates, Outcomes
    <3>2. pc[r] # "putting_end"
      BY <1>0, <2>1, <2>2 DEF EndPending
    <3> QED BY <2>1, <3>1, <3>2 DEF Proceeds, Moves
  <2>3. CASE r # s
    BY <1>0, <2>1, <2>3 DEF Kept, Moves
  <2> QED BY <2>2, <2>3
<1>4. CASE ClientReads(s)
  <2>1. /\ state' = state /\ pc' = pc /\ cancelling' = cancelling
        /\ s \in reading /\ output[s] # <<>>
        /\ \A u \in Requests : output'[u] = IF u = s THEN Tail(output[s]) ELSE output[u]
        /\ reading' \subseteq reading
        /\ Head(output[s]) # "token" => s \notin reading'
    BY <1>0, <1>4 DEF ClientReads, taskVars
  <2>2. CASE r = s
    BY <1>0, <2>1, <2>2 DEF IsRead, Moves
  <2>3. CASE r # s
    BY <1>0, <2>1, <2>3 DEF Kept, Moves
  <2> QED BY <2>2, <2>3
<1>5. CASE DeadlinePasses(s) \/ HandlerCancelled(s)
  BY <1>5 DEF DeadlinePasses, HandlerCancelled, outcomeVars, taskVars, worldVars, Kept, Moves
<1> QED BY <1>2, <1>3, <1>4, <1>5 DEF RequestStep

\* Every step moves a stream in one of these ways, and takes no cancel() back.
LEMMA StreamMoves ==
  ASSUME OutcomeInvariant, EndPending, [Next]_vars, NEW r \in Stream
  PROVE  Moves(r) /\ cancelling \subseteq cancelling'
<1>0. /\ r \in Requests /\ OutcomeTypes /\ queue \subseteq Requests
      /\ pc \in [Requests -> TaskStates]
  BY ConfigAssumption DEF OutcomeInvariant, RegistryInvariant, TypeOK, RegistryTypes, TaskTypes
<1>1. CASE Dispatch
  <2>1. PICK seed \in queue : pc' = [pc EXCEPT ![seed] = "created"]
    BY <1>1 DEF Dispatch
  <2>2. batchOf[seed] = None /\ seed # None /\ seed \in Requests
    BY <1>0, ConfigAssumption DEF OutcomeInvariant, RegistryInvariant, BatchesNamed
  <2>3. pc[seed] = "none"
    BY <2>2 DEF OutcomeInvariant, TasksProgress
  <2>4. UNCHANGED <<state, output, reading, cancelling>>
    BY <1>1 DEF Dispatch, outcomeVars, worldVars
  <2> QED BY <1>0, <2>1, <2>2, <2>3, <2>4 DEF Kept, Moves
<1>2. CASE CancelQueue
  <2>1. PICK cancelled \in SUBSET queue : TerminalError(cancelled, Uniformly("cancelled"))
    BY <1>2 DEF CancelQueue
  <2>2. cancelled \in SUBSET Requests /\ Uniformly("cancelled") \in [Requests -> ErrorStates]
    BY <1>0 DEF Uniformly, ErrorStates
  <2>3. UNCHANGED <<pc, reading, cancelling>>
    BY <1>2 DEF CancelQueue, taskVars
  <2> QED BY <1>0, <2>1, <2>2, <2>3, TerminalErrorMoves DEF Moves
<1>3. CASE \/ DispatcherWakes \/ DispatchNothing \/ StopDispatcher \/ Unload \/ Tick
           \/ GraceEnds \/ UNCHANGED vars
  <2>1. UNCHANGED <<state, output, pc, reading>> /\ cancelling \subseteq cancelling'
    BY <1>3 DEF DispatcherWakes, DispatchNothing, StopDispatcher, Unload, Tick, GraceEnds,
       vars, outcomeVars, taskVars, worldVars
  <2> QED BY <2>1 DEF Kept, Moves
<1> QED BY <1>1, <1>2, <1>3, TaskStepMoves, RequestStepMoves DEF Next, LifespanStep

-----------------------------------------------------------------------------
(* StreamInvariant *)

\* StreamsTerminated in terms of the buffers.
LEMMA TerminatedAsFitting ==
  /\ StreamsTerminated <=> \A r \in Stream : Fitting(output[r], state[r], MustTell(r))
  /\ StreamsTerminated' <=> \A r \in Stream : Fitting(output'[r], state'[r], MustTell(r)')
<1>1. StreamsTerminated <=> \A r \in Stream : Fitting(output[r], state[r], MustTell(r))
  BY DEF StreamsTerminated, Fitting, MustTell
<1>2. StreamsTerminated' <=> \A r \in Stream : Fitting(output'[r], state'[r], MustTell(r)')
  BY DEF StreamsTerminated, Fitting, MustTell
<1> QED BY <1>1, <1>2

\* Whatever happens to a stream, its buffer fits its state, within its bound.
LEMMA MovesKeepFitting ==
  ASSUME NEW r \in Stream, output[r] \in Seq(Entries), Moves(r), cancelling \subseteq cancelling',
         Len(output[r]) <= StreamBufferSize, state[r] \in TerminalStates => state'[r] = state[r],
         pc[r] = "putting_end" => state[r] = "completed" /\ TokensOnly(output[r]),
         Fitting(output[r], state[r], MustTell(r))
  PROVE  /\ Fitting(output'[r], state'[r], MustTell(r)')
         /\ Len(output'[r]) <= StreamBufferSize
         /\ pc'[r] = "putting_end" => state'[r] = "completed" /\ TokensOnly(output'[r])
<1>0. /\ StreamBufferSize \in Nat \ {0} /\ Len(output[r]) \in Nat
      /\ {"token", "error", "end"} \subseteq Entries
      /\ ErrorStates \subseteq Outcomes /\ "completed" \in Outcomes /\ "completed" \notin ErrorStates
      /\ Outcomes \subseteq TerminalStates
  BY ConfigAssumption DEF Entries, Outcomes, TerminalStates, ErrorStates
<1>1. state[r] \notin TerminalStates => TokensOnly(output[r])
  BY LiveHoldsTokens
<1>2. ASSUME TokensOnly(output[r]), output'[r] = output[r], ~(MustTell(r)' /\ state'[r] \in Outcomes)
      PROVE  Fitting(output'[r], state'[r], MustTell(r)')
  <2>1. output[r] # <<>> => Len(output[r]) \in 1 .. Len(output[r])
    BY <1>0
  <2> QED BY <1>0, <1>2, <2>1 DEF TokensOnly, Fitting
<1>3. CASE Kept(r)
  <2>1. MustTell(r)' => MustTell(r)
    BY <1>3 DEF Kept, MustTell, LostEnd
  <2> QED BY <1>3, <2>1 DEF Kept, Fitting
<1>4. CASE Proceeds(r)
  BY <1>1, <1>2, <1>4 DEF Proceeds
<1>5. CASE Fails(r)
  <2>1. /\ \A i \in 1 .. Len(output'[r]) - 1 : output'[r][i] = "token"
        /\ output'[r] # <<>> /\ output'[r][Len(output'[r])] = "error"
        /\ Len(output'[r]) <= StreamBufferSize
    BY <1>1, <1>5, ForceOutputEnds DEF Fails
  <2> QED BY <1>5, <2>1 DEF Fails, Fitting
<1>6. ASSUME TokensOnly(output[r]), Len(output[r]) < StreamBufferSize,
             NEW entry \in Entries, output'[r] = Append(output[r], entry)
      PROVE  /\ \A i \in 1 .. Len(output'[r]) - 1 : output'[r][i] = "token"
             /\ output'[r] # <<>> /\ output'[r][Len(output'[r])] = entry
             /\ Len(output'[r]) <= StreamBufferSize
  BY <1>0, <1>6, AppendToTokens
<1>7. CASE PutsToken(r)
  <2>1. /\ \A i \in 1 .. Len(output'[r]) - 1 : output'[r][i] = "token"
        /\ output'[r] # <<>> /\ output'[r][Len(output'[r])] = "token"
        /\ Len(output'[r]) <= StreamBufferSize
    BY <1>0, <1>1, <1>6, <1>7 DEF PutsToken
  <2> QED BY <1>0, <1>7, <2>1 DEF PutsToken, Fitting
<1>8. ASSUME TokensOnly(output[r]), Len(output[r]) < StreamBufferSize, state'[r] = "completed",
             output'[r] = Append(output[r], "end"), pc'[r] # "putting_end"
      PROVE  /\ Fitting(output'[r], state'[r], MustTell(r)')
             /\ Len(output'[r]) <= StreamBufferSize
  <2>1. /\ \A i \in 1 .. Len(output'[r]) - 1 : output'[r][i] = "token"
        /\ output'[r] # <<>> /\ output'[r][Len(output'[r])] = "end"
        /\ Len(output'[r]) <= StreamBufferSize
    BY <1>0, <1>6, <1>8
  <2> QED BY <1>8, <2>1 DEF Fitting
<1>9. CASE Completes(r)
  <2>1. CASE output'[r] = output[r] /\ pc'[r] = "putting_end"
    <3>1. ~MustTell(r)'
      BY <2>1 DEF MustTell
    <3> QED BY <1>1, <1>2, <1>9, <2>1, <3>1 DEF Completes
  <2>2. CASE ~(output'[r] = output[r] /\ pc'[r] = "putting_end")
    BY <1>1, <1>8, <1>9, <2>2 DEF Completes
  <2> QED BY <2>1, <2>2
<1>10. CASE PutsEnd(r)
  BY <1>8, <1>10 DEF PutsEnd
<1>11. CASE IsRead(r)
  <2>1. /\ Len(output'[r]) = Len(output[r]) - 1
        /\ \A i \in 1 .. Len(output'[r]) : output'[r][i] = output[r][i + 1]
        /\ Head(output[r]) = output[r][1]
        /\ Len(output[r]) \in Nat \ {0}
        /\ output'[r] # <<>> <=> Len(output[r]) # 1
    BY <1>11, TailOfBuffer DEF IsRead
  <2>2. /\ \A i \in 1 .. Len(output[r]) - 1 : output[r][i] = "token"
        /\ output[r][Len(output[r])] = "end" => state[r] = "completed"
        /\ output[r][Len(output[r])] = "error" => state[r] \in ErrorStates
        /\ MustTell(r) /\ state[r] \in Outcomes => output[r][Len(output[r])] # "token"
    BY <1>11 DEF IsRead, Fitting
  <2>3. \A i \in 1 .. Len(output'[r]) - 1 : output'[r][i] = "token"
    <3> SUFFICES ASSUME NEW i \in 1 .. Len(output'[r]) - 1 PROVE output'[r][i] = "token"
      OBVIOUS
    <3>1. i \in 1 .. Len(output'[r]) /\ i + 1 \in 1 .. Len(output[r]) - 1
      BY <2>1
    <3> QED BY <2>1, <2>2, <3>1
  <2>4. output'[r] # <<>> => output'[r][Len(output'[r])] = output[r][Len(output[r])]
    <3>1. Len(output[r]) # 1 => Len(output'[r]) \in 1 .. Len(output'[r])
      BY <2>1
    <3> QED BY <2>1, <3>1
  <2>5. ASSUME MustTell(r)', state'[r] \in Outcomes
        PROVE  output'[r] # <<>> /\ output'[r][Len(output'[r])] # "token"
    <3>1. MustTell(r) /\ r \in reading' /\ state[r] \in Outcomes
      BY <1>11, <2>5 DEF IsRead, MustTell, LostEnd
    <3>2. output[r][Len(output[r])] # "token" /\ output[r][1] = "token"
      BY <1>11, <2>1, <2>2, <3>1 DEF IsRead
    <3> QED BY <2>1, <2>4, <3>2
  <2>6. Fitting(output'[r], state'[r], MustTell(r)')
    BY <1>11, <2>2, <2>3, <2>4, <2>5 DEF IsRead, Fitting
  <2>7. pc'[r] = "putting_end" => state'[r] = "completed" /\ TokensOnly(output'[r])
    BY <1>11, <2>1 DEF IsRead, TokensOnly
  <2>8. Len(output'[r]) <= StreamBufferSize
    BY <1>0, <2>1
  <2> QED BY <2>6, <2>7, <2>8
<1> QED BY <1>3, <1>4, <1>5, <1>7, <1>9, <1>10, <1>11
        DEF Moves, Kept, Proceeds, Fails, PutsToken, Completes, PutsEnd

\* Nothing is ever put for a request that does not stream, or within the bound.
LEMMA OthersBounded ==
  ASSUME OutcomeInvariant, BuffersBounded, [Next]_vars, NEW r \in Requests, r \notin Stream
  PROVE  Len(output'[r]) <= StreamBufferSize
<1>0. /\ output \in [Requests -> Seq(Entries)] /\ reading \subseteq Stream
      /\ StreamBufferSize \in Nat \ {0} /\ output[r] \in Seq(Entries)
      /\ Len(output[r]) <= StreamBufferSize
  BY ConfigAssumption DEF OutcomeInvariant, RegistryInvariant, TypeOK, OutcomeTypes, WorldTypes,
     BuffersBounded, Entries
<1>1. ASSUME output'[r] = output[r] PROVE Len(output'[r]) <= StreamBufferSize
  BY <1>0, <1>1
<1>2. ASSUME NEW S, NEW kind, TerminalError(S, kind) PROVE output'[r] = output[r]
  BY <1>2 DEF TerminalError
<1>3. ASSUME NEW t \in Requests, TaskStep(t) PROVE Len(output'[r]) <= StreamBufferSize
  <2>1. CASE StreamYields(t) \/ StreamEnds(t)
    BY <1>0, <1>1, <2>1 DEF StreamYields, StreamEnds
  <2>2. CASE PutResumes(t)
    <3>1. \/ output'[r] = output[r]
          \/ /\ Len(output[r]) < StreamBufferSize
             /\ \E entry \in Entries : output'[r] = Append(output[r], entry)
      BY <1>0, <2>2 DEF PutResumes, Entries
    <3> QED BY <1>0, <1>1, <3>1
  <2>3. CASE \/ StartTask(t) \/ BackendReturns(t) \/ Finished(t)
    BY <1>1, <2>3 DEF StartTask, BackendReturns, Finished, outcomeVars
  <2>4. CASE StartRaises(t) \/ BackendFails(t) \/ TimeoutFires(t) \/ CancelDelivered(t)
    BY <1>1, <1>2, <2>4 DEF StartRaises, BackendFails, TimeoutFires, CancelDelivered,
       HandleCancel, outcomeVars
  <2> QED BY <1>3, <2>1, <2>2, <2>3, <2>4 DEF TaskStep
<1>4. ASSUME NEW s \in Requests, RequestStep(s) PROVE output'[r] = output[r]
  <2>1. CASE CancelRequest(s) \/ Expire(s) \/ ClientDisconnects(s)
    BY <1>2, <2>1 DEF CancelRequest, Expire, ClientDisconnects, Cancel, CancelIgnored,
       CancelAlone, CancelMember, CancelQueued, outcomeVars
  <2>2. CASE ClientReads(s)
    BY <1>0, <2>2 DEF ClientReads
  <2>3. CASE Submit(s) \/ Reject(s) \/ DeadlinePasses(s) \/ HandlerCancelled(s)
    BY <2>3 DEF Submit, Reject, DeadlinePasses, HandlerCancelled, outcomeVars
  <2> QED BY <1>4, <2>1, <2>2, <2>3 DEF RequestStep
<1>5. CASE CancelQueue
  BY <1>1, <1>2, <1>5 DEF CancelQueue
<1>6. CASE \/ DispatcherWakes \/ DispatchNothing \/ Dispatch \/ StopDispatcher \/ Unload
           \/ Tick \/ GraceEnds \/ UNCHANGED vars
  BY <1>1, <1>6 DEF DispatcherWakes, DispatchNothing, Dispatch, StopDispatcher, Unload, Tick,
     GraceEnds, vars, outcomeVars
<1> QED BY <1>1, <1>3, <1>4, <1>5, <1>6 DEF Next, LifespanStep

\* Tasks of requests that do not stream never wait to put an end.
LEMMA OnlyStreamsEnd ==
  ASSUME OutcomeInvariant, EndPending, [Next]_vars, NEW r \in Requests, r \notin Stream
  PROVE  pc'[r] # "putting_end"
<1>0. pc[r] # "putting_end" /\ pc \in [Requests -> TaskStates]
  BY DEF EndPending, OutcomeInvariant, RegistryInvariant, TypeOK, TaskTypes
<1>1. ASSUME NEW t \in Requests, TaskStep(t) PROVE pc'[r] # "putting_end"
  <2>1. CASE StreamEnds(t)
    BY <1>0, <2>1 DEF StreamEnds, TaskEnds
  <2>2. CASE ~StreamEnds(t)
    BY <1>0, <1>1, <2>2 DEF TaskStep, StartTask, StartRaises, BackendReturns, BackendFails,
       StreamYields, PutResumes, TimeoutFires, CancelDelivered, Finished, TaskEnds
  <2> QED BY <2>1, <2>2
<1>2. ASSUME NEW s \in Requests, RequestStep(s) PROVE pc' = pc
  BY <1>2 DEF RequestStep, Submit, Reject, CancelRequest, DeadlinePasses, Expire, ClientReads,
     ClientDisconnects, HandlerCancelled, taskVars
<1>3. CASE Dispatch
  BY <1>0, <1>3 DEF Dispatch
<1>4. CASE \/ DispatcherWakes \/ DispatchNothing \/ LifespanStep \/ Tick \/ UNCHANGED vars
  BY <1>0, <1>4 DEF DispatcherWakes, DispatchNothing, LifespanStep, StopDispatcher, CancelQueue,
     GraceEnds, Unload, Tick, vars, taskVars
<1> QED BY <1>0, <1>1, <1>2, <1>3, <1>4 DEF Next

\* StreamInvariant is inductive.
LEMMA StreamInvariantInductive ==
  /\ Init => StreamInvariant
  /\ StreamInvariant /\ [Next]_vars => StreamInvariant'
<1>0. Stream \subseteq Requests /\ StreamBufferSize \in Nat \ {0}
  BY ConfigAssumption
<1>1. ASSUME Init PROVE StreamInvariant
  <2>1. OutcomeInvariant
    BY <1>1, InitRefines
  <2>2. EndPending
    BY <1>1 DEF Init, EndPending
  <2>3. \A r \in Requests : output[r] = <<>> /\ state[r] = "validated"
    BY <1>1 DEF Init
  <2>4. BuffersBounded
    BY <1>0, <2>3 DEF BuffersBounded
  <2>5. \A r \in Stream : Fitting(output[r], state[r], MustTell(r))
    BY <1>0, <2>3 DEF Fitting, Outcomes, TerminalStates
  <2> QED BY <2>1, <2>2, <2>4, <2>5, TerminatedAsFitting DEF StreamInvariant
<1>2. ASSUME StreamInvariant, [Next]_vars PROVE StreamInvariant'
  <2>0. OutcomeInvariant /\ EndPending /\ BuffersBounded /\ StreamsTerminated
    BY <1>2 DEF StreamInvariant
  <2>1. OutcomeInvariant'
    BY <1>2, <2>0, OutcomeInvariantInductive
  <2>2. ASSUME NEW r \in Stream
        PROVE  /\ Fitting(output'[r], state'[r], MustTell(r)')
               /\ Len(output'[r]) <= StreamBufferSize
               /\ pc'[r] = "putting_end" => state'[r] = "completed" /\ TokensOnly(output'[r])
    <3>1. r \in Requests /\ output[r] \in Seq(Entries)
      BY <1>0, <2>0 DEF OutcomeInvariant, RegistryInvariant, TypeOK, OutcomeTypes, Entries
    <3>2. Moves(r) /\ cancelling \subseteq cancelling'
      BY <1>2, <2>0, StreamMoves
    <3>3. state[r] \in TerminalStates => state'[r] = state[r]
      BY <1>2, <2>0, <3>1, OutcomesFinal
    <3>4. /\ Len(output[r]) <= StreamBufferSize
          /\ pc[r] = "putting_end" => state[r] = "completed" /\ TokensOnly(output[r])
          /\ Fitting(output[r], state[r], MustTell(r))
      BY <2>0, <3>1, TerminatedAsFitting DEF BuffersBounded, EndPending, TokensOnly
    <3> QED BY <3>1, <3>2, <3>3, <3>4, MovesKeepFitting
  <2>3. StreamsTerminated'
    BY <2>2, TerminatedAsFitting
  <2>4. BuffersBounded'
    BY <1>2, <2>0, <2>2, OthersBounded DEF BuffersBounded
  <2>5. EndPending'
    BY <1>2, <2>0, <2>2, OnlyStreamsEnd DEF EndPending, TokensOnly
  <2> QED BY <2>1, <2>3, <2>4, <2>5 DEF StreamInvariant
<1> QED BY <1>1, <1>2

\* What the client of a stream reads is tokens and then, once, how the stream
\* ended, unless shutdown makes _run drop it.
THEOREM StreamsWellTerminated == Spec => []StreamsTerminated
<1>1. StreamInvariant => StreamsTerminated
  BY DEF StreamInvariant
<1> QED BY <1>1, StreamInvariantInductive, PTL DEF Spec

-----------------------------------------------------------------------------
(* Token totals *)

\* The tokens of the items of S, as weights.
TokensOf(S) == [i \in S |-> i.tokens]

\* TotalTokens counts the units of these weights.
LEMMA TokensAreCounts ==
  ASSUME NEW S, IsFiniteSet(S), \A i \in S : i.tokens \in Nat
  PROVE  TotalTokens(S) = Cardinality(Units(TokensOf(S), S))
<1> DEFINE w == TokensOf(S)
           f == CHOOSE g : g = [s \in SUBSET S |->
                  IF s = {} THEN 0 ELSE Chosen(s).tokens + g[s \ {Chosen(s)}]]
           count == [s \in SUBSET S |-> Cardinality(Units(w, s))]
<1>1. TotalTokens(S) = f[S]
  BY DEF TotalTokens, MapThenSumSet, MapThenFoldSet, Chosen
<1>2. w \in [S -> Nat]
  BY DEF TokensOf
<1>3. \A s \in SUBSET S : s # {} => Chosen(s) \in S /\ w[Chosen(s)] = Chosen(s).tokens
  BY DEF Chosen, TokensOf
<1>4. SumsUp(count, w, S)
  BY <1>2, CountingSumsUp
<1>5. count = [s \in SUBSET S |->
                  IF s = {} THEN 0 ELSE Chosen(s).tokens + count[s \ {Chosen(s)}]]
  <2> HIDE DEF count, w
  <2> QED BY <1>3, <1>4 DEF SumsUp
<1>6. f = [s \in SUBSET S |->
                  IF s = {} THEN 0 ELSE Chosen(s).tokens + f[s \ {Chosen(s)}]]
  <2> HIDE DEF count
  <2> QED BY <1>5
<1>7. SumsUp(f, w, S)
  <2> HIDE DEF f, w
  <2> QED BY <1>3, <1>6 DEF SumsUp
<1> HIDE DEF f, w
<1>8. f[S] = Cardinality(Units(w, S))
  BY <1>2, <1>7, SumsAreCounts
<1> QED BY <1>1, <1>8 DEF w

\* One more item adds its tokens.
LEMMA TotalAdds ==
  ASSUME NEW S, IsFiniteSet(S), NEW c, c \notin S, \A i \in S \cup {c} : i.tokens \in Nat
  PROVE  /\ TotalTokens(S) \in Nat
         /\ TotalTokens(S \cup {c}) = TotalTokens(S) + c.tokens
<1> DEFINE T == S \cup {c}
           w == TokensOf(T)
<1>1. IsFiniteSet(T)
  BY FS_AddElement
<1>2. TotalTokens(S) = Cardinality(Units(TokensOf(S), S))
  BY TokensAreCounts
<1>3. TotalTokens(T) = Cardinality(Units(w, T))
  BY <1>1, TokensAreCounts
<1>4. Units(TokensOf(S), S) = Units(w, S)
  BY DEF Units, TokensOf
<1>5. \A i \in T : w[i] = i.tokens
  BY DEF TokensOf
<1> HIDE DEF w
<1>6. Cardinality(Units(w, S \cup {c})) = Cardinality(Units(w, S)) + w[c]
  BY <1>5, UnitsAdd
<1>7. Cardinality(Units(w, S)) \in Nat
  BY <1>5, UnitsFinite
<1> QED BY <1>2, <1>3, <1>4, <1>5, <1>6, <1>7

\* Some of the items have no more tokens than all of them.
LEMMA TotalOfPart ==
  ASSUME NEW T, IsFiniteSet(T), NEW S \in SUBSET T, \A i \in T : i.tokens \in Nat
  PROVE  /\ TotalTokens(S) \in Nat /\ TotalTokens(T) \in Nat
         /\ TotalTokens(S) <= TotalTokens(T)
<1> DEFINE w == TokensOf(T)
<1>1. IsFiniteSet(S) /\ \A i \in T : w[i] \in Nat
  BY FS_Subset DEF TokensOf
<1>2. /\ TotalTokens(S) = Cardinality(Units(TokensOf(S), S))
      /\ TotalTokens(T) = Cardinality(Units(w, T))
  BY <1>1, TokensAreCounts
<1>3. Units(TokensOf(S), S) = Units(w, S) /\ Units(w, S) \subseteq Units(w, T)
  BY DEF Units, TokensOf
<1> HIDE DEF w
<1>4. IsFiniteSet(Units(w, T)) /\ Cardinality(Units(w, T)) \in Nat
  BY <1>1, UnitsFinite, FS_CardinalityType
<1> QED BY <1>2, <1>3, <1>4, FS_Subset, FS_CardinalityType

-----------------------------------------------------------------------------
(* The ranking *)

\* The items the dispatcher ranks: integers to compare, numbered apart.
Rankable(S) ==
  /\ \A i \in S : /\ i.sequence \in Int /\ i.enqueuedAt \in Int /\ i.priority \in Int
                  /\ i.tokens \in Nat
  /\ \A i, j \in S : i.sequence = j.sequence => i = j

\* An aging step is a natural number, and how many of them fit.
LEMMA AgeStepsBound ==
  ASSUME NEW i, NEW at \in Int, i.enqueuedAt \in Int
  PROVE  /\ AgeSteps(i, at) \in Nat
         /\ i.enqueuedAt <= at =>
              /\ AgingSeconds * AgeSteps(i, at) <= at - i.enqueuedAt
              /\ at - i.enqueuedAt < AgingSeconds * AgeSteps(i, at) + AgingSeconds
<1> DEFINE n == AtLeastZero(at - i.enqueuedAt)
<1>1. AgingSeconds \in Nat \ {0}
  BY PolicyAssumption
<1>2. n \in Nat /\ (i.enqueuedAt <= at => n = at - i.enqueuedAt)
  BY DEF AtLeastZero
<1> HIDE DEF n
<1>3. /\ n \div AgingSeconds \in Nat
      /\ AgingSeconds * (n \div AgingSeconds) <= n
      /\ n < AgingSeconds * (n \div AgingSeconds) + AgingSeconds
  BY <1>1, <1>2
<1>4. AgeSteps(i, at) = n \div AgingSeconds
  BY DEF AgeSteps, n
<1> QED BY <1>2, <1>3, <1>4

\* Every rankable item has an integer score.
LEMMA ScoreType ==
  ASSUME NEW S, Rankable(S), NEW i \in S, NEW at \in Int
  PROVE  Score(i, at) \in Int
<1>1. Policy \in Policies
  BY PolicyAssumption
<1>2. /\ AgeSteps(i, at) \in Nat /\ i.sequence \in Int /\ i.priority \in Int /\ i.tokens \in Nat
  BY AgeStepsBound DEF Rankable
<1> QED BY <1>1, <1>2 DEF Score, Policies, AtLeastZero

\* Precedes is a strict total order of rankable items.
LEMMA RankingTotal ==
  ASSUME NEW S, Rankable(S), NEW at \in Int
  PROVE  /\ \A i \in S : ~Precedes(i, i, at)
         /\ \A i, j \in S : i # j => Precedes(i, j, at) \/ Precedes(j, i, at)
         /\ \A i, j, k \in S :
              Precedes(i, j, at) /\ Precedes(j, k, at) => Precedes(i, k, at)
<1>1. \A i \in S : Score(i, at) \in Int
  BY ScoreType
<1>2. /\ \A i \in S : i.sequence \in Int
      /\ \A i, j \in S : i.sequence = j.sequence => i = j
  BY DEF Rankable
<1> QED BY <1>1, <1>2 DEF Precedes

\* Of finitely many rankable items one is ranked last.
LEMMA LastRanked ==
  ASSUME NEW S, IsFiniteSet(S), S # {}, Rankable(S), NEW at \in Int
  PROVE  \E c \in S : \A i \in S \ {c} : Precedes(i, c, at)
<1> DEFINE behind == [i \in S |-> {j \in S : Precedes(i, j, at)}]
           family == {behind[i] : i \in S}
<1>1. family \subseteq FiniteSubsetsOf(S) /\ family # {}
  <2>1. family \subseteq SUBSET S /\ family # {}
    OBVIOUS
  <2> HIDE DEF family
  <2> QED BY <2>1, FS_FiniteSubsetsOfFinite
<1>2. IsWellFoundedOn(StrictSubsetOrdering(S), FiniteSubsetsOf(S))
  BY FS_StrictSubsetOrderingWellFounded
<1>3. PICK least \in family : \A T \in family : ~(<<T, least>> \in StrictSubsetOrdering(S))
  <2> HIDE DEF family
  <2> QED BY <1>1, <1>2, WFMin
<1>4. PICK c \in S : least = behind[c]
  OBVIOUS
<1>5. ASSUME NEW i \in S, i # c PROVE Precedes(i, c, at)
  <2> SUFFICES ASSUME Precedes(c, i, at) PROVE FALSE
    BY <1>5, RankingTotal
  <2>1. behind[i] \subseteq behind[c] /\ i \in behind[c] /\ i \notin behind[i]
    BY RankingTotal
  <2>2. behind[i] \in SUBSET S /\ behind[c] \in SUBSET S /\ behind[i] \in family
    OBVIOUS
  <2> HIDE DEF behind, family
  <2>3. <<behind[i], behind[c]>> \in StrictSubsetOrdering(S)
    BY <2>1, <2>2 DEF StrictSubsetOrdering
  <2> QED BY <1>3, <1>4, <2>2, <2>3
<1> QED BY <1>5

\* form_batch keeps to its limits: the last member was taken when all the others
\* already were.
LEMMA BatchLimits ==
  ASSUME NEW queued, IsFiniteSet(queued), Rankable(queued),
         NEW seed, NEW batch, NEW capacity \in Int, NEW at \in Int,
         IsBatch(seed, batch, queued, capacity, at), batch # {seed}
  PROVE  /\ Cardinality(batch) <= capacity /\ Cardinality(batch) <= MaxBatchSize
         /\ TotalTokens(batch) <= BatchTokenBudget
<1> DEFINE others == batch \ {seed}
<1>1. /\ batch \subseteq queued /\ seed \in batch /\ others # {}
      /\ \A i \in queued \ {seed} : Precedes(seed, i, at)
  BY DEF IsBatch, IsFirst
<1>2. IsFiniteSet(others) /\ IsFiniteSet(batch) /\ Rankable(others)
  BY <1>1, FS_Subset DEF Rankable
<1>3. PICK c \in others : \A i \in others \ {c} : Precedes(i, c, at)
  <2> HIDE DEF others
  <2> QED BY <1>1, <1>2, LastRanked
<1> DEFINE ahead == {b \in batch \ {c} : b = seed \/ Precedes(b, c, at)}
<1>4. ahead = batch \ {c}
  BY <1>3
<1>5. Fits(c, seed, ahead, capacity)
  BY <1>1, <1>3 DEF IsBatch
<1>6. /\ IsFiniteSet(ahead) /\ c \notin ahead /\ batch = ahead \cup {c}
      /\ \A i \in ahead \cup {c} : i.tokens \in Nat
  BY <1>1, <1>2, <1>3, <1>4, FS_RemoveElement DEF Rankable
<1> HIDE DEF ahead, others
<1>7. Cardinality(batch) = Cardinality(ahead) + 1 /\ Cardinality(ahead) \in Nat
  BY <1>6, FS_AddElement, FS_CardinalityType
<1>8. TotalTokens(batch) = TotalTokens(ahead) + c.tokens
  BY <1>6, TotalAdds
<1>9. MaxBatchSize \in Nat
  BY PolicyAssumption
<1> QED BY <1>5, <1>7, <1>8, <1>9 DEF Fits

-----------------------------------------------------------------------------
(* The batches of the dispatcher *)

\* Queued requests are rankable items, one item each.
LEMMA QueueRankable ==
  ASSUME OutcomeInvariant
  PROVE  /\ Rankable({Item(r) : r \in queue})
         /\ \A S \in SUBSET queue :
              /\ IsFiniteSet(S) /\ IsFiniteSet({Item(r) : r \in S})
              /\ Cardinality({Item(r) : r \in S}) = Cardinality(S)
<1>0. /\ QueueNumbered /\ queue \in SUBSET Requests
      /\ sequence \in [Requests -> Nat] /\ enqueuedAt \in [Requests -> Nat]
      /\ PromptTokens \in [Requests -> Nat] /\ MaxTokens \in [Requests -> Nat \ {0}]
      /\ PriorityOf \in [Requests -> Int]
  BY ConfigAssumption DEF OutcomeInvariant, RegistryInvariant, TypeOK, RegistryTypes, ItemTypes
<1>1. \A r \in Requests : /\ Item(r).sequence = sequence[r] /\ Item(r).enqueuedAt = enqueuedAt[r]
                          /\ Item(r).priority = PriorityOf[r]
                          /\ Item(r).tokens = PromptTokens[r] + MaxTokens[r]
  BY DEF Item, EstimatedTokens
<1>2. \A r, s \in queue : sequence[r] = sequence[s] => r = s
  BY <1>0 DEF QueueNumbered
<1>3. Rankable({Item(r) : r \in queue})
  <2> SUFFICES ASSUME NEW r \in queue, NEW s \in queue
               PROVE  /\ Item(r).sequence \in Int /\ Item(r).enqueuedAt \in Int
                      /\ Item(r).priority \in Int /\ Item(r).tokens \in Nat
                      /\ Item(r).sequence = Item(s).sequence => Item(r) = Item(s)
    BY DEF Rankable
  <2> QED BY <1>0, <1>1, <1>2
<1>4. ASSUME NEW S \in SUBSET queue
      PROVE  /\ IsFiniteSet(S) /\ IsFiniteSet({Item(r) : r \in S})
             /\ Cardinality({Item(r) : r \in S}) = Cardinality(S)
  <2> DEFINE T == {Item(r) : r \in S}
             f == [r \in S |-> Item(r)]
  <2>1. IsFiniteSet(S)
    BY <1>0, CountIsNat
  <2>2. \A r, s \in S : Item(r) = Item(s) => r = s
    BY <1>0, <1>1, <1>2
  <2>3. f \in Surjection(S, T)
    BY DEF Surjection
  <2>4. f \in [S -> T] /\ \A r, s \in S : f[r] = f[s] => r = s
    BY <2>2
  <2> HIDE DEF f, T
  <2>5. f \in Injection(S, T)
    BY <2>4 DEF Injection, IsInjective
  <2> QED BY <2>1, <2>3, <2>5, FS_Surjection DEF T
<1> QED BY <1>3, <1>4

\* A batch of several requests fits into the free slots and keeps to size and
\* budget.
LEMMA BatchFits ==
  ASSUME OutcomeInvariant, CanDispatch(queue, active),
         NEW batch \in SUBSET queue, NEW seed \in batch, FormBatch(seed, batch)
  PROVE  /\ Cardinality(batch) <= FreeSlots
         /\ Cardinality(batch) > 1 =>
              /\ Cardinality(batch) <= MaxBatchSize
              /\ TotalTokens({Item(r) : r \in batch}) <= BatchTokenBudget
              /\ batch \cap Stream = {}
              /\ \A r, s \in batch : Sampling[r] = Sampling[s]
<1> DEFINE batchItems == {Item(r) : r \in batch}
           queueItems == {Item(r) : r \in queue}
<1>0. /\ QueueNumbered /\ queue \in SUBSET Requests /\ active \in SUBSET Requests /\ now \in Int
      /\ MaxActive \in Nat
  BY ConfigAssumption DEF OutcomeInvariant, RegistryInvariant, TypeOK, RegistryTypes, WorldTypes
<1>1. FreeSlots \in Int /\ FreeSlots >= 1
  <2>1. Cardinality(active) \in Nat
    BY <1>0, CountIsNat
  <2> QED BY <1>0, <2>1 DEF FreeSlots, CanDispatch
<1>2. /\ Rankable(queueItems) /\ IsFiniteSet(queueItems)
      /\ IsFiniteSet(batch) /\ Cardinality(batchItems) = Cardinality(batch)
  BY QueueRankable
<1>3. IsBatch(Item(seed), batchItems, queueItems, FreeSlots, now)
  BY DEF FormBatch
<1> HIDE DEF batchItems, queueItems
<1>4. CASE batchItems = {Item(seed)}
  <2>1. Cardinality(batch) = 1
    BY <1>2, <1>4, FS_Singleton
  <2> QED BY <1>1, <2>1
<1>5. CASE batchItems # {Item(seed)}
  <2>1. /\ Cardinality(batchItems) <= FreeSlots /\ Cardinality(batchItems) <= MaxBatchSize
        /\ TotalTokens(batchItems) <= BatchTokenBudget
    BY <1>0, <1>1, <1>2, <1>3, <1>5, BatchLimits
  <2>2. ASSUME Cardinality(batch) > 1 PROVE batch \cap Stream = {}
    <3>1. Cardinality({seed}) = 1
      BY FS_Singleton
    <3>2. batch # {seed}
      BY <2>2, <3>1
    <3> QED BY <1>0, <3>2, StreamDispatchedAlone
  <2>3. \A r \in batch : Sampling[r] = Sampling[seed]
    BY <1>0, MembersCompatible DEF Compatible, Item
  <2> QED BY <1>2, <2>1, <2>2, <2>3 DEF batchItems
<1> QED BY <1>4, <1>5

\* Only Dispatch and Submit change what BatchesCompatible speaks of, and Submit
\* only for a request that is in no batch yet.
LEMMA BatchedItemsStay ==
  ASSUME OutcomeInvariant, [Next]_vars, ~Dispatch
  PROVE  /\ UNCHANGED batchOf
         /\ \A r \in Requests : batchOf[r] # None => Item(r)' = Item(r)
<1>0. BatchesNamed
  BY DEF OutcomeInvariant, RegistryInvariant
<1>1. ASSUME UNCHANGED <<batchOf, sequence, enqueuedAt>>
      PROVE  UNCHANGED batchOf /\ \A r \in Requests : Item(r)' = Item(r)
  BY <1>1 DEF Item
<1>2. ASSUME NEW t \in Requests, TaskStep(t) PROVE UNCHANGED <<batchOf, sequence, enqueuedAt>>
  BY <1>2 DEF TaskStep, StartTask, StartRaises, BackendReturns, BackendFails, StreamYields,
     StreamEnds, PutResumes, TimeoutFires, CancelDelivered, Finished, itemVars
<1>3. CASE \E t \in Requests : TaskStep(t)
  BY <1>1, <1>2, <1>3
<1>4. ASSUME NEW r \in Requests, RequestStep(r), ~Submit(r)
      PROVE  UNCHANGED <<batchOf, sequence, enqueuedAt>>
  BY <1>4 DEF RequestStep, Reject, CancelRequest, DeadlinePasses, Expire, ClientReads,
     ClientDisconnects, HandlerCancelled, itemVars
<1>5. ASSUME NEW r \in Requests, Submit(r)
      PROVE  /\ UNCHANGED batchOf
             /\ \A s \in Requests : batchOf[s] # None => Item(s)' = Item(s)
  <2>1. /\ UNCHANGED batchOf /\ batchOf[r] = None
        /\ \A s \in Requests : s # r => sequence'[s] = sequence[s] /\ enqueuedAt'[s] = enqueuedAt[s]
    <3>1. sequence \in [Requests -> Nat] /\ enqueuedAt \in [Requests -> Nat]
      BY DEF OutcomeInvariant, RegistryInvariant, TypeOK, ItemTypes
    <3> QED BY <1>0, <1>5, <3>1 DEF Submit, BatchesNamed
  <2> QED BY <2>1 DEF Item
<1>6. CASE \E r \in Requests : RequestStep(r)
  BY <1>1, <1>4, <1>5, <1>6
<1>7. CASE CancelQueue \/ QuietSteps
  BY <1>1, <1>7, QuietStepsLocal DEF CancelQueue, itemVars
<1> QED BY <1>3, <1>6, <1>7, StepCases

\* Every step keeps BatchesCompatible: a batch never changes once it is formed.
LEMMA StepBatches ==
  ASSUME OutcomeInvariant, BatchesCompatible, [Next]_vars
  PROVE  BatchesCompatible'
<1> DEFINE Good(S, totalOfS) ==
      Cardinality(S) > 1 =>
        /\ Cardinality(S) <= MaxBatchSize
        /\ totalOfS <= BatchTokenBudget
        /\ S \cap Stream = {}
        /\ \A r, s \in S : Sampling[r] = Sampling[s]
<1>0. /\ \A t \in Requests : Good(Members(t), TotalTokens({Item(r) : r \in Members(t)}))
      /\ queue \in SUBSET Requests /\ BatchesNamed
      /\ batchOf \in [Requests -> Requests \cup {None}] /\ None \notin Requests
  BY ConfigAssumption DEF BatchesCompatible, OutcomeInvariant, RegistryInvariant, TypeOK,
     RegistryTypes, ItemTypes
<1> SUFFICES ASSUME NEW t \in Requests
             PROVE  Good(Members(t)', TotalTokens({Item(r)' : r \in Members(t)'}))
  BY DEF BatchesCompatible
<1>1. ASSUME Members(t)' = Members(t), \A r \in Members(t) : Item(r)' = Item(r)
      PROVE  Good(Members(t)', TotalTokens({Item(r)' : r \in Members(t)'}))
  <2>1. {Item(r)' : r \in Members(t)'} = {Item(r) : r \in Members(t)}
    BY <1>1
  <2> HIDE DEF Good
  <2> QED BY <1>0, <1>1, <2>1
<1>2. CASE ~Dispatch
  <2>1. Members(t)' = Members(t) /\ \A r \in Members(t) : Item(r)' = Item(r)
    BY <1>0, <1>2, BatchedItemsStay DEF Members
  <2> HIDE DEF Good
  <2> QED BY <1>1, <2>1
<1>3. CASE Dispatch
  <2>0. PICK batch \in SUBSET queue : \E seed \in batch :
          /\ FormBatch(seed, batch)
          /\ batchOf' = [r \in Requests |-> IF r \in batch THEN seed ELSE batchOf[r]]
    BY <1>3 DEF Dispatch
  <2>1. PICK seed \in batch :
          /\ FormBatch(seed, batch)
          /\ batchOf' = [r \in Requests |-> IF r \in batch THEN seed ELSE batchOf[r]]
    BY <2>0
  <2>2. CanDispatch(queue, active) /\ UNCHANGED <<sequence, enqueuedAt>>
    BY <1>3 DEF Dispatch
  <2>3. \A r \in Requests : Item(r)' = Item(r)
    BY <2>2 DEF Item
  <2>4. \A r \in batch : r \in Requests /\ batchOf[r] = None
    BY <1>0 DEF BatchesNamed
  <2>5. \A r \in Requests : batchOf[r] # seed
    BY <1>0, <2>4 DEF BatchesNamed
  <2>6. CASE t = seed
    <3>1. Members(t)' = batch
      BY <1>0, <2>1, <2>4, <2>5, <2>6 DEF Members
    <3>2. Good(batch, TotalTokens({Item(r) : r \in batch}))
      BY <2>1, <2>2, BatchFits
    <3>3. {Item(r)' : r \in batch} = {Item(r) : r \in batch}
      BY <2>3, <2>4
    <3> HIDE DEF Good
    <3> QED BY <3>1, <3>2, <3>3
  <2>7. CASE t # seed
    <3>1. Members(t)' = Members(t)
      BY <1>0, <2>1, <2>4, <2>5, <2>7 DEF Members
    <3> HIDE DEF Good
    <3> QED BY <1>1, <2>3, <3>1 DEF Members
  <2> QED BY <2>6, <2>7
<1> QED BY <1>2, <1>3

\* Every step keeps the slots within max_active: a batch fits into the free ones.
LEMMA StepSlots ==
  ASSUME OutcomeInvariant, SlotsBounded, [Next]_vars
  PROVE  SlotsBounded'
<1>0. /\ active \in SUBSET Requests /\ queue \in SUBSET Requests
      /\ IsFiniteSet(active) /\ Cardinality(active) \in Nat /\ MaxActive \in Nat
  BY ConfigAssumption, CountIsNat DEF OutcomeInvariant, RegistryInvariant, TypeOK, RegistryTypes
<1>1. ASSUME active' \subseteq active PROVE SlotsBounded'
  <2>1. Cardinality(active') <= Cardinality(active) /\ Cardinality(active') \in Nat
    BY <1>0, <1>1, FS_Subset, FS_CardinalityType
  <2> QED BY <1>0, <2>1 DEF SlotsBounded
<1>2. CASE Dispatch
  <2>0. PICK batch \in SUBSET queue : \E seed \in batch :
          FormBatch(seed, batch) /\ active' = active \cup batch
    BY <1>2 DEF Dispatch
  <2>1. Cardinality(batch) <= FreeSlots /\ active' = active \cup batch
    BY <1>2, <2>0, BatchFits DEF Dispatch
  <2>2. /\ IsFiniteSet(batch) /\ Cardinality(batch) \in Nat
        /\ IsFiniteSet(active \cap batch) /\ Cardinality(active \cap batch) \in Nat
    BY <1>0, CountIsNat
  <2>3. Cardinality(active') =
          Cardinality(active) + Cardinality(batch) - Cardinality(active \cap batch)
    BY <1>0, <2>1, <2>2, FS_Union
  <2> QED BY <1>0, <2>1, <2>2, <2>3 DEF FreeSlots, SlotsBounded
<1>3. ASSUME NEW t \in Requests, TaskStep(t) PROVE active' \subseteq active
  BY <1>3 DEF TaskStep, StartTask, StartRaises, BackendReturns, BackendFails, StreamYields,
     StreamEnds, PutResumes, TimeoutFires, CancelDelivered, Finished, registryVars
<1>4. ASSUME NEW r \in Requests, RequestStep(r) PROVE active' \subseteq active
  BY <1>4 DEF RequestStep, Submit, Reject, CancelRequest, DeadlinePasses, Expire, ClientReads,
     ClientDisconnects, HandlerCancelled, registryVars
<1>5. CASE CancelQueue \/ QuietSteps
  BY <1>1, <1>5, QuietStepsLocal DEF CancelQueue, registryVars
<1> QED BY <1>1, <1>2, <1>3, <1>4, <1>5, StepCases

\* Every step keeps the queue within max_queued: submit checks it.
LEMMA StepQueue ==
  ASSUME OutcomeInvariant, QueueBounded, [Next]_vars
  PROVE  QueueBounded'
<1>0. /\ queue \in SUBSET Requests /\ IsFiniteSet(queue) /\ Cardinality(queue) \in Nat
      /\ MaxQueued \in Nat
  BY ConfigAssumption, CountIsNat DEF OutcomeInvariant, RegistryInvariant, TypeOK, RegistryTypes
<1>1. ASSUME queue' \subseteq queue PROVE QueueBounded'
  <2>1. Cardinality(queue') <= Cardinality(queue) /\ Cardinality(queue') \in Nat
    BY <1>0, <1>1, FS_Subset, FS_CardinalityType
  <2> QED BY <1>0, <2>1 DEF QueueBounded
<1>2. ASSUME NEW r \in Requests, Submit(r) PROVE QueueBounded'
  <2>1. ~(Cardinality(queue) >= MaxQueued) /\ queue' = queue \cup {r}
    <3>1. "queue_full" \notin RejectionReasons(r)
      BY <1>2 DEF Submit
    <3> QED BY <1>2, <3>1 DEF Submit, RejectionReasons
  <2>2. Cardinality(queue \cup {r}) =
          IF r \in queue THEN Cardinality(queue) ELSE Cardinality(queue) + 1
    BY <1>0, FS_AddElement
  <2> QED BY <1>0, <2>1, <2>2 DEF QueueBounded
<1>3. ASSUME NEW r \in Requests, RequestStep(r), ~Submit(r) PROVE queue' \subseteq queue
  BY <1>3 DEF RequestStep, Reject, CancelRequest, DeadlinePasses, Expire, ClientReads,
     ClientDisconnects, HandlerCancelled, registryVars, Cancel, CancelIgnored, CancelAlone,
     CancelMember, CancelQueued
<1>4. ASSUME NEW t \in Requests, TaskStep(t) PROVE queue' \subseteq queue
  BY <1>4, TaskStepLocal
<1>5. CASE Dispatch
  BY <1>1, <1>5 DEF Dispatch
<1>6. CASE CancelQueue \/ QuietSteps
  BY <1>1, <1>6, QuietStepsLocal DEF CancelQueue, registryVars
<1> QED BY <1>1, <1>2, <1>3, <1>4, <1>5, <1>6, StepCases

LEMMA BatchInvariantInductive ==
  /\ Init => BatchInvariant
  /\ BatchInvariant /\ [Next]_vars => BatchInvariant'
<1>1. ASSUME Init PROVE BatchInvariant
  <2>1. OutcomeInvariant
    BY <1>1, InitRefines
  <2>2. queue = {} /\ active = {} /\ \A r \in Requests : batchOf[r] = None
    BY <1>1 DEF Init
  <2>3. QueueBounded /\ SlotsBounded
    BY <2>2, ConfigAssumption, FS_EmptySet DEF QueueBounded, SlotsBounded
  <2>4. \A t \in Requests : Members(t) = {}
    BY <2>2, ConfigAssumption DEF Members
  <2>5. BatchesCompatible
    BY <2>4, FS_EmptySet DEF BatchesCompatible
  <2> QED BY <2>1, <2>3, <2>5 DEF BatchInvariant
<1>2. ASSUME BatchInvariant, [Next]_vars PROVE BatchInvariant'
  BY <1>2, OutcomeInvariantInductive, StepQueue, StepSlots, StepBatches DEF BatchInvariant
<1> QED BY <1>1, <1>2

\* Batches keep to size and token budget and mix neither streams nor sampling
\* settings.
THEOREM BatchesAreCompatible == Spec => []BatchesCompatible
<1>1. BatchInvariant => BatchesCompatible
  BY DEF BatchInvariant
<1> QED BY <1>1, BatchInvariantInductive, PTL DEF Spec

\* The queue, the slots and the buffers of streams keep to their bounds.
THEOREM ResourcesAreBounded == Spec => []ResourcesBounded
<1>1. BatchInvariant /\ StreamInvariant => ResourcesBounded
  BY DEF BatchInvariant, StreamInvariant, ResourcesBounded
<1> QED BY <1>1, BatchInvariantInductive, StreamInvariantInductive, PTL DEF Spec

-----------------------------------------------------------------------------
(* The order of dispatching *)

\* Multiplication by the aging period keeps an order.
LEMMA PeriodsOrdered ==
  ASSUME NEW m \in Int, NEW n \in Int, m <= n
  PROVE  AgingSeconds * m <= AgingSeconds * n
<1>1. AgingSeconds \in Nat
  BY PolicyAssumption
<1>2. n - m \in Nat /\ AgingSeconds * (n - m) \in Nat
  BY <1>1
<1>3. AgingSeconds * (n - m) = AgingSeconds * n - AgingSeconds * m
  BY <1>1
<1> QED BY <1>1, <1>2, <1>3

\* An item that is served before one with a smaller sequence number came within its
\* head start.
LEMMA OvertakingItems ==
  ASSUME NEW a \in Requests, NEW b \in Requests, TypeOK,
         enqueuedAt[a] <= now, enqueuedAt[b] <= now, sequence[b] > sequence[a],
         Precedes(Item(b), Item(a), now)
  PROVE  enqueuedAt[b] - enqueuedAt[a] < AgingSeconds * HeadStart(b, a)
<1> DEFINE agedA == AgeSteps(Item(a), now)
           agedB == AgeSteps(Item(b), now)
<1>0. /\ Policy \in Policies /\ AgingSeconds \in Nat \ {0}
      /\ sequence[a] \in Nat /\ sequence[b] \in Nat /\ now \in Nat
      /\ enqueuedAt[a] \in Nat /\ enqueuedAt[b] \in Nat
      /\ PriorityOf[a] \in Int /\ PriorityOf[b] \in Int
      /\ EstimatedTokens(a) \in Nat /\ EstimatedTokens(b) \in Nat
  BY PolicyAssumption, ConfigAssumption DEF TypeOK, ItemTypes, WorldTypes, EstimatedTokens
<1>1. \A r \in Requests : /\ Item(r).sequence = sequence[r] /\ Item(r).enqueuedAt = enqueuedAt[r]
                          /\ Item(r).priority = PriorityOf[r]
                          /\ Item(r).tokens = EstimatedTokens(r)
  BY DEF Item
<1>2. /\ agedA \in Nat /\ now - enqueuedAt[a] < AgingSeconds * agedA + AgingSeconds
      /\ agedB \in Nat /\ AgingSeconds * agedB <= now - enqueuedAt[b]
  BY <1>0, <1>1, AgeStepsBound
<1> HIDE DEF agedA, agedB
<1>3. Policy # "fifo" /\ HeadStart(b, a) \in Int /\ agedA - agedB + 1 <= HeadStart(b, a)
  <2>1. CASE Policy = "fifo"
    BY <1>0, <1>1, <2>1 DEF Precedes, Score
  <2>2. CASE Policy = "priority"
    <3>1. /\ Score(Item(a), now) = -(PriorityOf[a] + agedA)
          /\ Score(Item(b), now) = -(PriorityOf[b] + agedB)
      BY <1>1, <2>2 DEF Score, agedA, agedB
    <3>2. Score(Item(b), now) < Score(Item(a), now)
      BY <1>0, <1>1, <1>2, <3>1 DEF Precedes
    <3> QED BY <1>0, <1>2, <2>2, <3>1, <3>2 DEF HeadStart
  <2>3. CASE Policy = "shortest_job"
    <3>1. /\ Score(Item(a), now) = AtLeastZero(EstimatedTokens(a) - agedA)
          /\ Score(Item(b), now) = AtLeastZero(EstimatedTokens(b) - agedB)
      BY <1>1, <2>3 DEF Score, agedA, agedB
    <3>2. Score(Item(b), now) < Score(Item(a), now)
      BY <1>0, <1>1, <1>2, <3>1 DEF Precedes, AtLeastZero
    <3> QED BY <1>0, <1>2, <2>3, <3>1, <3>2 DEF HeadStart, AtLeastZero
  <2> QED BY <1>0, <2>1, <2>2, <2>3 DEF Policies
<1>4. AgingSeconds * (agedA - agedB + 1) <= AgingSeconds * HeadStart(b, a)
  BY <1>2, <1>3, PeriodsOrdered
<1>5. /\ AgingSeconds * (agedA - agedB + 1) = AgingSeconds * agedA + AgingSeconds - AgingSeconds * agedB
      /\ AgingSeconds * agedA \in Int /\ AgingSeconds * agedB \in Int
      /\ AgingSeconds * HeadStart(b, a) \in Int
  BY <1>0, <1>2, <1>3
<1> QED BY <1>0, <1>2, <1>4, <1>5

\* Nothing is ever queued in the future.
LEMMA QueuedInThePastInductive ==
  /\ Init => QueuedInThePast
  /\ TypeOK /\ QueuedInThePast /\ [Next]_vars => QueuedInThePast'
<1>1. Init => QueuedInThePast
  BY DEF Init, QueuedInThePast
<1>2. ASSUME TypeOK, QueuedInThePast, [Next]_vars PROVE QueuedInThePast'
  <2>0. /\ now \in Nat /\ enqueuedAt \in [Requests -> Nat]
        /\ \A r \in Requests : enqueuedAt[r] <= now
    BY <1>2 DEF TypeOK, ItemTypes, WorldTypes, QueuedInThePast
  <2>1. ASSUME enqueuedAt' = enqueuedAt, now' = now PROVE QueuedInThePast'
    BY <2>0, <2>1 DEF QueuedInThePast
  <2>2. ASSUME NEW t \in Requests, TaskStep(t) PROVE enqueuedAt' = enqueuedAt /\ now' = now
    BY <2>2 DEF TaskStep, StartTask, StartRaises, BackendReturns, BackendFails, StreamYields,
       StreamEnds, PutResumes, TimeoutFires, CancelDelivered, Finished, itemVars, worldVars
  <2>3. ASSUME NEW r \in Requests, RequestStep(r), ~Submit(r)
        PROVE  enqueuedAt' = enqueuedAt /\ now' = now
    BY <2>3 DEF RequestStep, Reject, CancelRequest, DeadlinePasses, Expire, ClientReads,
       ClientDisconnects, HandlerCancelled, itemVars, worldVars
  <2>4. ASSUME NEW r \in Requests, Submit(r) PROVE QueuedInThePast'
    BY <2>0, <2>4 DEF Submit, QueuedInThePast
  <2>5. CASE Tick
    BY <2>0, <2>5 DEF Tick, itemVars, QueuedInThePast
  <2>6. CASE Dispatch \/ DispatcherWakes \/ DispatchNothing \/ LifespanStep
    BY <2>1, <2>6 DEF Dispatch, DispatcherWakes, DispatchNothing, LifespanStep, StopDispatcher,
       CancelQueue, GraceEnds, Unload, itemVars, worldVars
  <2>7. CASE UNCHANGED vars
    BY <2>1, <2>7 DEF vars, itemVars, worldVars
  <2> QED BY <1>2, <2>1, <2>2, <2>3, <2>4, <2>5, <2>6, <2>7 DEF Next
<1> QED BY <1>1, <1>2

\* A candidate that form_batch leaves behind, ranked before one that it takes, does
\* not fit the batch: it may not run with the seed, or not within the budget.
LEMMA SkippedHasNoPlace ==
  ASSUME NEW queued, IsFiniteSet(queued), Rankable(queued),
         NEW seed, NEW batch, NEW capacity \in Int, NEW at \in Int,
         IsBatch(seed, batch, queued, capacity, at),
         NEW a \in queued \ batch, NEW b \in batch \ {seed}, Precedes(a, b, at)
  PROVE  ~Compatible(seed, a) \/ TotalTokens(batch) + a.tokens > BatchTokenBudget
<1> DEFINE aheadOfA == {i \in batch \ {a} : i = seed \/ Precedes(i, a, at)}
           aheadOfB == {i \in batch \ {b} : i = seed \/ Precedes(i, b, at)}
<1>0. batch \subseteq queued /\ seed \in batch
  BY DEF IsBatch
<1>1. ~Fits(a, seed, aheadOfA, capacity) /\ Fits(b, seed, aheadOfB, capacity)
  BY <1>0 DEF IsBatch
<1>2. aheadOfA \subseteq aheadOfB
  <2>1. ~Precedes(b, a, at)
    BY <1>0, RankingTotal
  <2> QED BY <1>0, <2>1, RankingTotal
<1>3. aheadOfA \subseteq batch /\ IsFiniteSet(batch) /\ IsFiniteSet(aheadOfA) /\ IsFiniteSet(aheadOfB)
  <2>1. aheadOfA \subseteq batch /\ aheadOfB \subseteq batch /\ IsFiniteSet(batch)
    BY <1>0, FS_Subset
  <2> HIDE DEF aheadOfA, aheadOfB
  <2> QED BY <2>1, FS_Subset
<1> HIDE DEF aheadOfA, aheadOfB
<1>4. /\ Cardinality(aheadOfA) \in Nat /\ Cardinality(aheadOfB) \in Nat
      /\ Cardinality(aheadOfA) <= Cardinality(aheadOfB)
  BY <1>2, <1>3, FS_Subset, FS_CardinalityType
<1>5. /\ TotalTokens(aheadOfA) \in Nat /\ TotalTokens(batch) \in Nat /\ a.tokens \in Nat
      /\ TotalTokens(aheadOfA) <= TotalTokens(batch)
  BY <1>0, <1>3, TotalOfPart DEF Rankable
<1>6. MaxBatchSize \in Nat /\ BatchTokenBudget \in Nat
  BY PolicyAssumption
<1>7. ~Compatible(seed, a) \/ TotalTokens(aheadOfA) + a.tokens > BatchTokenBudget
  BY <1>1, <1>4, <1>5, <1>6 DEF Fits
<1> QED BY <1>5, <1>6, <1>7

\* What is dispatched is a batch that form_batch made of the queue.
LEMMA DispatchedIsBatch ==
  ASSUME OutcomeInvariant, [Next]_vars, NEW b \in Dispatched
  PROVE  /\ Dispatched \subseteq queue /\ batchOf'[b] \in Dispatched
         /\ FormBatch(batchOf'[b], Dispatched)
<1>0. BatchesNamed /\ queue \subseteq Requests /\ None \notin Requests
  BY ConfigAssumption DEF OutcomeInvariant, RegistryInvariant, TypeOK, RegistryTypes
<1>1. b \in queue /\ batchOf'[b] # None /\ \A r \in queue : batchOf[r] = None
  BY <1>0 DEF Dispatched, BatchesNamed
<1>2. Dispatch
  BY <1>0, <1>1, BatchedItemsStay
<1>3. PICK batch \in SUBSET queue : \E seed \in batch :
        /\ FormBatch(seed, batch)
        /\ batchOf' = [r \in Requests |-> IF r \in batch THEN seed ELSE batchOf[r]]
  BY <1>2 DEF Dispatch
<1>4. PICK seed \in batch :
        /\ FormBatch(seed, batch)
        /\ batchOf' = [r \in Requests |-> IF r \in batch THEN seed ELSE batchOf[r]]
  BY <1>3
<1>5. Dispatched = batch /\ \A r \in batch : batchOf'[r] = seed
  BY <1>0, <1>1, <1>4 DEF Dispatched
<1> QED BY <1>4, <1>5

\* A request that came later is dispatched before one that stays queued only within
\* its head start, or next to a seed whose batch has no place for the earlier one.
THEOREM OvertakingIsBounded == Spec => BoundedOvertaking
<1> DEFINE Within(a, b) == enqueuedAt[b] - enqueuedAt[a] < AgingSeconds * HeadStart(b, a)
           Bounded == \A b \in Dispatched, a \in queue \ Dispatched :
             sequence[b] > sequence[a] =>
               \/ enqueuedAt[b] - enqueuedAt[a] < AgingSeconds * HeadStart(b, a)
               \/ batchOf'[b] # b /\ NoPlaceFor(a, b)
<1>1. ASSUME OutcomeInvariant, QueuedInThePast, [Next]_vars PROVE Bounded
  <2> SUFFICES ASSUME NEW b \in Dispatched, NEW a \in queue \ Dispatched,
                      sequence[b] > sequence[a]
               PROVE  Within(a, b) \/ (batchOf'[b] # b /\ NoPlaceFor(a, b))
    OBVIOUS
  <2> DEFINE seed == batchOf'[b]
             queueItems == {Item(r) : r \in queue}
             batchItems == {Item(r) : r \in Dispatched}
  <2>1. /\ TypeOK /\ queue \subseteq Requests /\ now \in Nat /\ FreeSlots \in Int
        /\ sequence[a] \in Nat /\ sequence[b] \in Nat
    <3>1. TypeOK /\ queue \subseteq Requests /\ active \in SUBSET Requests
      BY <1>1 DEF OutcomeInvariant, RegistryInvariant, TypeOK, RegistryTypes
    <3>2. a \in Requests /\ b \in Requests
      BY <3>1 DEF Dispatched
    <3>3. Cardinality(active) \in Nat /\ MaxActive \in Nat
      BY <3>1, CountIsNat, ConfigAssumption
    <3> QED BY <3>1, <3>2, <3>3 DEF TypeOK, ItemTypes, WorldTypes, FreeSlots
  <2>2. Dispatched \subseteq queue /\ seed \in Dispatched /\ FormBatch(seed, Dispatched)
    BY <1>1, DispatchedIsBatch
  <2>3. Rankable(queueItems) /\ IsFiniteSet(queueItems)
    BY <1>1, QueueRankable
  <2>4. \A r, s \in queue : Item(r) = Item(s) => r = s
    <3>1. QueueNumbered /\ \A r \in queue : Item(r).sequence = sequence[r]
      BY <1>1 DEF OutcomeInvariant, Item
    <3> QED BY <3>1 DEF QueueNumbered
  <2>5. Item(a) \in queueItems \ batchItems /\ Item(b) \in batchItems /\ Item(a) # Item(b)
    BY <2>2, <2>4
  <2>6. IsBatch(Item(seed), batchItems, queueItems, FreeSlots, now)
    BY <2>2 DEF FormBatch
  <2>7. ASSUME Precedes(Item(b), Item(a), now) PROVE Within(a, b)
    BY <1>1, <2>1, <2>2, <2>7, OvertakingItems DEF QueuedInThePast
  <2>8. CASE b = seed
    <3>1. IsFirst(Item(b), queueItems, now)
      BY <2>6, <2>8 DEF IsBatch
    <3>2. Item(a) \in queueItems \ {Item(b)}
      BY <2>5
    <3>3. Precedes(Item(b), Item(a), now)
      BY <3>1, <3>2 DEF IsFirst
    <3> QED BY <2>7, <3>3
  <2>9. CASE b # seed /\ ~Precedes(Item(b), Item(a), now)
    <3>1. Item(b) # Item(seed) /\ batchItems \subseteq queueItems
      BY <2>2, <2>4, <2>9
    <3>2. Item(a).tokens = EstimatedTokens(a)
      BY DEF Item
    <3> HIDE DEF queueItems, batchItems, seed
    <3>5. now \in Int /\ Item(a) \in queueItems /\ Item(b) \in queueItems
      BY <2>1, <2>5, <3>1
    <3>3. Precedes(Item(a), Item(b), now)
      BY <2>3, <2>5, <2>9, <3>5, RankingTotal
    <3>6. Item(a) \in queueItems \ batchItems /\ Item(b) \in batchItems \ {Item(seed)}
      BY <2>5, <3>1
    <3>4. \/ ~Compatible(Item(seed), Item(a))
          \/ TotalTokens(batchItems) + Item(a).tokens > BatchTokenBudget
      BY <2>1, <2>3, <2>6, <3>3, <3>5, <3>6, SkippedHasNoPlace
    <3> QED BY <2>9, <3>2, <3>4 DEF NoPlaceFor, seed, batchItems
  <2> QED BY <2>7, <2>8, <2>9
<1>2. OutcomeInvariant => TypeOK
  BY DEF OutcomeInvariant, RegistryInvariant
<1> QED BY <1>1, <1>2, InitRefines, OutcomeInvariantInductive, QueuedInThePastInductive,
           PTL DEF Spec, BoundedOvertaking
=============================================================================
