-------------------------- MODULE RequestScheduler --------------------------
(***************************************************************************)
(* The request path of the server: admission, the dispatcher, the tasks    *)
(* that run batches and streams, cancellation and deadlines (scheduler.py),*)
(* the clients of the HTTP handlers (api.py) and graceful shutdown         *)
(* (lifecycle.py, main.py).                                                *)
(*                                                                         *)
(* Everything runs on one asyncio event loop, so an action is a stretch of *)
(* code between two suspension points.  No coroutine suspends while it     *)
(* holds _condition, except in Condition.wait, which releases it: taking   *)
(* the lock never suspends, and submit, cancel, _terminal_error and        *)
(* _finished are one action each.  A batch task is named by the request    *)
(* that seeded it.                                                         *)
(***************************************************************************)
EXTENDS RequestState, SchedulingPolicy, Sequences

CONSTANTS
  Requests,           \* the requests clients ever make
  None,               \* no task
  Stream,             \* requests with stream=True
  Sampling,           \* Sampling[r]: temperature, top_p and stop, as one value
  PromptTokens,       \* PromptTokens[r]: generation.prompt_token_count
  MaxTokens,          \* MaxTokens[r]: generation.max_tokens
  PriorityOf,         \* PriorityOf[r]: the priority given to submit
  Deadlined,          \* requests whose context has a deadline
  Cancellable,        \* requests somebody may call cancel for, or disconnect from
  Deserting,          \* non-streaming requests whose HTTP handler may be cancelled
  MaxQueued, MaxActive, MaxPromptTokens, MaxOutputTokens, MaxTotalTokens,
  StreamBufferSize,
  BatchWait,          \* whether max_batch_wait_seconds is positive
  BackendMayFail,     \* whether generate, generate_batch and stream may raise
  MayShutDown,        \* whether the lifespan may end
  MaxClock            \* bound on the clock that ages queued work

ASSUME ConfigAssumption ==
  /\ None \notin Requests
  /\ Stream \subseteq Requests
  /\ Deadlined \subseteq Requests
  /\ Cancellable \subseteq Requests
  /\ Deserting \subseteq Requests \ Stream
  /\ PromptTokens \in [Requests -> Nat]
  /\ MaxTokens \in [Requests -> Nat \ {0}]
  /\ PriorityOf \in [Requests -> Int]
  /\ DOMAIN Sampling = Requests
  /\ {MaxQueued, MaxActive, MaxPromptTokens, MaxOutputTokens, MaxTotalTokens,
      StreamBufferSize} \subseteq Nat \ {0}
  /\ {BatchWait, BackendMayFail, MayShutDown} \subseteq BOOLEAN
  /\ MaxClock \in Nat

ASSUME RequestsFinite == IsFiniteSet(Requests)

VARIABLES
  \* Outcome of each request.
  state,              \* context.state
  result,             \* item.result: "pending", its outcome, or "abandoned"
  finished,           \* LifecycleMetrics and the requests_* counters, by outcome
  output,             \* item.output of a stream: "token", "error" or "end" entries
  \* The scheduler's registries.
  queue,              \* _queue, as a set: its order is by rank
  items,              \* the keys of _items
  active,             \* the keys of _active_tasks
  alarm,              \* _deadline_tasks[r]: "none", "armed" or "fired"
  \* One work item.
  sequence,           \* item.sequence
  enqueuedAt,         \* item.enqueued_at
  batchOf,            \* item.batch_id: the seed of its batch, or None
  cancellation,       \* item.cancellation_state
  generated,          \* item.generated_tokens of a stream
  \* Tasks.
  pc,                 \* pc[t]: where batch task t is suspended
  cancelling,         \* tasks with a cancel() not yet delivered
  dispatcher,         \* where _dispatch is suspended
  \* The surroundings.
  submitted,          \* _sequence
  now,                \* the clock
  expired,            \* requests whose deadline has passed
  reading,            \* streams whose client still reads
  phase               \* progress of the lifespan towards its end

outcomeVars == <<state, result, finished, output>>
registryVars == <<queue, items, active, alarm>>
itemVars == <<sequence, enqueuedAt, batchOf, cancellation, generated>>
taskVars == <<pc, cancelling, dispatcher>>
worldVars == <<submitted, now, expired, reading, phase>>
vars == <<outcomeVars, registryVars, itemVars, taskVars, worldVars>>

-----------------------------------------------------------------------------
TaskStates == {"none", "created", "generating", "putting_token", "putting_end",
               "done", "reaped"}
Unfinished == {"created", "generating", "putting_token", "putting_end"}
Outcomes == TerminalStates \ {"rejected"}

EstimatedTokens(r) == PromptTokens[r] + MaxTokens[r]

Item(r) ==
  [sequence |-> sequence[r], enqueuedAt |-> enqueuedAt[r],
   priority |-> PriorityOf[r], tokens |-> EstimatedTokens(r),
   stream |-> r \in Stream, sampling |-> Sampling[r]]

Members(t) == {r \in Requests : batchOf[r] = t}
Alone(r) == Members(batchOf[r]) = {r}
Pending(r) == r \in items /\ result[r] = "pending"

CanDispatch(queued, running) == queued # {} /\ Cardinality(running) < MaxActive

\* Where wait_for leaves the dispatcher once it has evaluated its predicate.
AfterWaitFor(queued, running) ==
  IF ~CanDispatch(queued, running) THEN "waiting"
  ELSE IF BatchWait THEN "sleeping" ELSE "forming"

\* With no batch wait the dispatcher forms one batch after the other without
\* suspending, and nothing else runs in between.
DispatcherSuspended == dispatcher # "forming"

\* Mutant of NotifyAll: waiters are not notified.
NotifyNobody == UNCHANGED dispatcher

NotifyAll ==
  dispatcher' = IF dispatcher = "waiting" THEN "notified" ELSE dispatcher

Init ==
  /\ state = [r \in Requests |-> "validated"]
  /\ result = [r \in Requests |-> "pending"]
  /\ finished = [k \in TerminalStates |-> 0]
  /\ output = [r \in Requests |-> <<>>]
  /\ queue = {} /\ items = {} /\ active = {}
  /\ alarm = [r \in Requests |-> "none"]
  /\ sequence = [r \in Requests |-> 0]
  /\ enqueuedAt = [r \in Requests |-> 0]
  /\ batchOf = [r \in Requests |-> None]
  /\ cancellation = [r \in Requests |-> "cancelled"]
  /\ generated = [r \in Requests |-> 0]
  /\ pc = [r \in Requests |-> "none"]
  /\ cancelling = {}
  /\ dispatcher = "notified"     \* start() created its task
  /\ submitted = 0 /\ now = 0
  /\ expired = {} /\ reading = {}
  /\ phase = "up"

-----------------------------------------------------------------------------
(* Outcomes *)

\* Mutant of ForceOutput: a full buffer drops the error.
ForceOutputDrops(buffer) ==
  IF Len(buffer) < StreamBufferSize THEN Append(buffer, "error") ELSE buffer

\* _force_output of a terminal error: a full buffer loses its oldest entry.
ForceOutput(buffer) ==
  Append(IF Len(buffer) < StreamBufferSize THEN buffer ELSE Tail(buffer), "error")

Uniformly(kind) == [r \in Requests |-> kind]

\* Mutant of Live: a request may end twice.
EveryMember(S) == S

\* The members of S that have not ended yet: _terminal_error returns at once for
\* the others.
Live(S) == {r \in S : state[r] \notin TerminalStates}

\* _terminal_error for every member of S: kind[r] becomes the outcome of each
\* one that has none yet.
TerminalError(S, kind) ==
  LET live == Live(S)
  IN  /\ state' = [r \in Requests |-> IF r \in live THEN kind[r] ELSE state[r]]
      /\ result' = [r \in Requests |->
           IF r \in live /\ result[r] = "pending" THEN kind[r] ELSE result[r]]
      /\ finished' = [k \in TerminalStates |->
           finished[k] + Cardinality({r \in live : kind[r] = k})]
      /\ output' = [r \in Requests |->
           IF r \in live \cap Stream THEN ForceOutput(output[r]) ELSE output[r]]

\* Each member of S completes; a future its waiter abandoned is left alone.
Complete(S) ==
  /\ state' = [r \in Requests |-> IF r \in S THEN "completed" ELSE state[r]]
  /\ result' = [r \in Requests |->
       IF r \in S /\ result[r] = "pending" THEN "completed" ELSE result[r]]
  /\ finished' = [finished EXCEPT !["completed"] = @ + Cardinality(S)]

-----------------------------------------------------------------------------
(* Admission *)

\* The checks of submit that r fails; the code reports the first one.
RejectionReasons(r) ==
  {reason \in {"shutting_down", "prompt_too_long", "output_too_long",
               "total_estimated_tokens", "queue_full"} :
     CASE reason = "shutting_down"          -> phase # "up"
       [] reason = "prompt_too_long"        -> PromptTokens[r] > MaxPromptTokens
       [] reason = "output_too_long"        -> MaxTokens[r] > MaxOutputTokens
       [] reason = "total_estimated_tokens" -> EstimatedTokens(r) > MaxTotalTokens
       [] reason = "queue_full"             -> Cardinality(queue) >= MaxQueued}

Reject(r) ==
  /\ DispatcherSuspended
  /\ state[r] = "validated"
  /\ RejectionReasons(r) # {}
  /\ state' = [state EXCEPT ![r] = "rejected"]
  /\ finished' = [finished EXCEPT !["rejected"] = @ + 1]
  /\ UNCHANGED <<result, output, registryVars, itemVars, taskVars, worldVars>>

\* Mutant of InitialAlarm: no deadline task is created.
NoAlarm(r) == "fired"

\* _expire returns at once when the context has no deadline.
InitialAlarm(r) == IF r \in Deadlined THEN "armed" ELSE "fired"

Submit(r) ==
  /\ DispatcherSuspended
  /\ state[r] = "validated"
  /\ RejectionReasons(r) = {}
  /\ state' = [state EXCEPT ![r] = "queued"]
  /\ sequence' = [sequence EXCEPT ![r] = submitted]
  /\ submitted' = submitted + 1
  /\ enqueuedAt' = [enqueuedAt EXCEPT ![r] = now]
  /\ queue' = queue \cup {r}
  /\ items' = items \cup {r}
  /\ alarm' = [alarm EXCEPT ![r] = InitialAlarm(r)]
  /\ reading' = IF r \in Stream THEN reading \cup {r} ELSE reading
  /\ NotifyAll
  /\ UNCHANGED <<result, finished, output, active, batchOf, cancellation,
                 generated, pc, cancelling, now, expired, phase>>

-----------------------------------------------------------------------------
(* The dispatcher *)

\* The dispatcher runs again after a notification, or for the first time.
DispatcherWakes ==
  /\ dispatcher = "notified"
  /\ dispatcher' = AfterWaitFor(queue, active)
  /\ UNCHANGED <<outcomeVars, registryVars, itemVars, pc, cancelling, worldVars>>

\* The queue was emptied while the dispatcher slept for max_batch_wait_seconds.
DispatchNothing ==
  /\ dispatcher = "sleeping"
  /\ ~CanDispatch(queue, active)
  /\ dispatcher' = AfterWaitFor(queue, active)
  /\ UNCHANGED <<outcomeVars, registryVars, itemVars, pc, cancelling, worldVars>>

\* Mutant of FreeSlots: the slots in use are not subtracted.
AllSlots == MaxActive

FreeSlots == MaxActive - Cardinality(active)

FormBatch(seed, batch) ==
  IsBatch(Item(seed), {Item(r) : r \in batch}, {Item(r) : r \in queue}, FreeSlots, now)

\* One iteration of the loop of _dispatch, up to its next suspension.
Dispatch ==
  /\ dispatcher \in {"sleeping", "forming"}
  /\ CanDispatch(queue, active)
  /\ \E batch \in SUBSET queue : \E seed \in batch :
       /\ FormBatch(seed, batch)
       /\ queue' = queue \ batch
       /\ active' = active \cup batch
       /\ batchOf' = [r \in Requests |-> IF r \in batch THEN seed ELSE batchOf[r]]
       /\ pc' = [pc EXCEPT ![seed] = "created"]
  /\ dispatcher' = AfterWaitFor(queue', active')
  /\ UNCHANGED <<outcomeVars, items, alarm, sequence, enqueuedAt, cancellation,
                 generated, cancelling, worldVars>>

-----------------------------------------------------------------------------
(* Batch tasks: _run_batch, and _run_complete or _run for a batch of one *)

TaskEnds(t) == pc' = [pc EXCEPT ![t] = "done"]

\* The first step of a task nobody cancelled before it: SCHEDULED, then PREFILL,
\* then the call of the backend.
StartTask(t) ==
  /\ DispatcherSuspended
  /\ pc[t] = "created" /\ t \notin cancelling
  /\ \A r \in Members(t) : state[r] = "queued"
  /\ pc' = [pc EXCEPT ![t] = "generating"]
  /\ state' = [r \in Requests |-> IF r \in Members(t) THEN "prefill" ELSE state[r]]
  /\ UNCHANGED <<result, finished, output, registryVars, itemVars, cancelling,
                 dispatcher, worldVars>>

\* A member became terminal before the first step: transition(SCHEDULED) raises
\* InvalidStateTransition, which fails every other member.
StartRaises(t) ==
  /\ DispatcherSuspended
  /\ pc[t] = "created" /\ t \notin cancelling
  /\ \E r \in Members(t) : state[r] # "queued"
  /\ TerminalError(Members(t), Uniformly("failed"))
  /\ TaskEnds(t)
  /\ UNCHANGED <<registryVars, itemVars, cancelling, dispatcher, worldVars>>

Generating(t) ==
  DispatcherSuspended /\ pc[t] = "generating" /\ t \notin cancelling

\* Mutant of Receivers: without "if item.result.done(): continue".
AllMembers(t) == Members(t)

\* A batch passes over the members whose future is done; a request alone
\* completes whatever its future.
Receivers(t) ==
  IF Alone(t) THEN {t} ELSE {r \in Members(t) : result[r] = "pending"}

\* generate or generate_batch returns.
BackendReturns(t) ==
  /\ Generating(t) /\ t \notin Stream
  /\ Complete(Receivers(t))
  /\ TaskEnds(t)
  /\ UNCHANGED <<output, registryVars, itemVars, cancelling, dispatcher, worldVars>>

\* The backend raises, or returns the wrong number of results.
BackendFails(t) ==
  /\ BackendMayFail /\ Generating(t)
  /\ TerminalError(Members(t), Uniformly("failed"))
  /\ TaskEnds(t)
  /\ UNCHANGED <<registryVars, itemVars, cancelling, dispatcher, worldVars>>

\* The stream yields a token, which put() appends unless the buffer is full.
\* Bound: at most max_tokens tokens.
StreamYields(t) ==
  /\ Generating(t) /\ t \in Stream
  /\ generated[t] < MaxTokens[t]
  /\ generated' = [generated EXCEPT ![t] = @ + 1]
  /\ state' = [state EXCEPT ![t] = "decoding"]
  /\ IF Len(output[t]) < StreamBufferSize
     THEN output' = [output EXCEPT ![t] = Append(@, "token")] /\ UNCHANGED pc
     ELSE pc' = [pc EXCEPT ![t] = "putting_token"] /\ UNCHANGED output
  /\ UNCHANGED <<result, finished, registryVars, sequence, enqueuedAt, batchOf,
                 cancellation, cancelling, dispatcher, worldVars>>

\* The stream is exhausted: the request completes and _run's finally block puts
\* the end marker, waiting for room without any deadline.
StreamEnds(t) ==
  /\ Generating(t) /\ t \in Stream
  /\ Complete({t})
  /\ IF Len(output[t]) < StreamBufferSize
     THEN output' = [output EXCEPT ![t] = Append(@, "end")] /\ TaskEnds(t)
     ELSE pc' = [pc EXCEPT ![t] = "putting_end"] /\ UNCHANGED output
  /\ UNCHANGED <<registryVars, itemVars, cancelling, dispatcher, worldVars>>

\* A put() that waited for room goes through.
PutResumes(t) ==
  /\ DispatcherSuspended
  /\ t \notin cancelling
  /\ Len(output[t]) < StreamBufferSize
  /\ \/ /\ pc[t] = "putting_token"
        /\ output' = [output EXCEPT ![t] = Append(@, "token")]
        /\ pc' = [pc EXCEPT ![t] = "generating"]
     \/ /\ pc[t] = "putting_end"
        /\ output' = [output EXCEPT ![t] = Append(@, "end")]
        /\ TaskEnds(t)
  /\ UNCHANGED <<state, result, finished, registryVars, itemVars, cancelling,
                 dispatcher, worldVars>>

\* asyncio.timeout expires, set to the earliest deadline of the members.  A
\* cancel() already pending wins over it.
TimeoutFires(t) ==
  /\ DispatcherSuspended
  /\ pc[t] \in {"generating", "putting_token"} /\ t \notin cancelling
  /\ Members(t) \cap expired # {}
  /\ TerminalError(Members(t), Uniformly("timed_out"))
  /\ TaskEnds(t)
  /\ UNCHANGED <<registryVars, itemVars, cancelling, dispatcher, worldVars>>

\* Mutants of HandleCancel: the error is not handled; cancellation_state is not
\* consulted; the error counts as a failure.
CancelUnhandled(t) == UNCHANGED outcomeVars
CancelTimesOut(t) == TerminalError(Members(t), Uniformly("timed_out"))
CancelFails(t) == TerminalError(Members(t), Uniformly("failed"))

\* A task cancelled before its first step never runs its body, so nothing
\* handles the CancelledError.
HandleCancel(t) ==
  IF pc[t] = "created" THEN UNCHANGED outcomeVars
  ELSE TerminalError(Members(t), cancellation)

\* CancelledError reaches the task.
CancelDelivered(t) ==
  /\ DispatcherSuspended
  /\ t \in cancelling /\ pc[t] \in Unfinished
  /\ HandleCancel(t)
  /\ TaskEnds(t)
  /\ UNCHANGED <<registryVars, itemVars, cancelling, dispatcher, worldVars>>

\* Mutant of HasFinished: the slot is released by the body of the task.
BodyHasFinished(t) == pc[t] = "done" /\ state[t] \in TerminalStates

HasFinished(t) == pc[t] = "done"

\* Mutant of Forget: the deadline task is not popped.
ForgetItemOnly(S) == items' = items \ S /\ UNCHANGED alarm

\* The entries of _items and _deadline_tasks are popped.
Forget(S) ==
  /\ items' = items \ S
  /\ alarm' = [r \in Requests |-> IF r \in S THEN "none" ELSE alarm[r]]

\* The done callback and _finished: the slots are free again.
Finished(t) ==
  /\ DispatcherSuspended
  /\ HasFinished(t)
  /\ pc' = [pc EXCEPT ![t] = "reaped"]
  /\ active' = active \ Members(t)
  /\ Forget(Members(t))
  /\ NotifyAll
  /\ UNCHANGED <<outcomeVars, queue, itemVars, cancelling, worldVars>>

-----------------------------------------------------------------------------
(* Cancellation *)

\* cancel(r, kind), in its four cases.
CancelIgnored(r) ==
  /\ ~Pending(r)
  /\ UNCHANGED <<outcomeVars, queue, items, cancellation, cancelling, dispatcher>>

CancelAlone(r, kind) ==
  /\ Pending(r) /\ r \in active /\ Alone(r)
  /\ cancellation' = [cancellation EXCEPT ![r] = kind]
  /\ cancelling' = cancelling \cup {batchOf[r]}
  /\ UNCHANGED <<outcomeVars, queue, items, dispatcher>>

CancelMember(r, kind) ==
  /\ Pending(r) /\ r \in active /\ ~Alone(r)
  /\ cancellation' = [cancellation EXCEPT ![r] = kind]
  /\ TerminalError({r}, Uniformly(kind))
  /\ UNCHANGED <<queue, items, cancelling, dispatcher>>

CancelQueued(r, kind) ==
  /\ Pending(r) /\ r \notin active
  /\ cancellation' = [cancellation EXCEPT ![r] = kind]
  /\ queue' = queue \ {r}
  /\ items' = items \ {r}
  /\ TerminalError({r}, Uniformly(kind))
  /\ NotifyAll
  /\ UNCHANGED cancelling

Cancel(r, kind) ==
  \/ CancelIgnored(r)
  \/ CancelAlone(r, kind)
  \/ CancelMember(r, kind)
  \/ CancelQueued(r, kind)

\* Mutant of AlarmBecomes: the entry is set to None instead of popped.
AlarmSetToNone(r, value) ==
  alarm' = [alarm EXCEPT ![r] = IF r \in items' THEN value ELSE None]

\* The entry of _deadline_tasks goes with the item.
AlarmBecomes(r, value) ==
  alarm' = [alarm EXCEPT ![r] = IF r \in items' THEN value ELSE "none"]

CancelRequest(r) ==
  /\ DispatcherSuspended
  /\ r \in Cancellable \cap items
  /\ Cancel(r, "cancelled")
  /\ AlarmBecomes(r, alarm[r])
  /\ UNCHANGED <<active, sequence, enqueuedAt, batchOf, generated, pc, worldVars>>

DeadlinePasses(r) ==
  /\ DispatcherSuspended
  /\ r \in Deadlined \cap items /\ r \notin expired
  /\ expired' = expired \cup {r}
  /\ UNCHANGED <<outcomeVars, registryVars, itemVars, taskVars, submitted, now,
                 reading, phase>>

\* _expire wakes up.
Expire(r) ==
  /\ DispatcherSuspended
  /\ alarm[r] = "armed" /\ r \in expired
  /\ Cancel(r, "timed_out")
  /\ AlarmBecomes(r, "fired")
  /\ UNCHANGED <<active, sequence, enqueuedAt, batchOf, generated, pc, worldVars>>

-----------------------------------------------------------------------------
(* Clients, as api.py serves them *)

\* The generator of a streaming response takes the next entry; an error or the
\* end closes the response.
ClientReads(r) ==
  /\ DispatcherSuspended
  /\ r \in reading /\ output[r] # <<>>
  /\ output' = [output EXCEPT ![r] = Tail(@)]
  /\ reading' = IF Head(output[r]) = "token" THEN reading ELSE reading \ {r}
  /\ UNCHANGED <<state, result, finished, registryVars, itemVars, taskVars,
                 submitted, now, expired, phase>>

\* The client of a stream goes away: the generator's finally block cancels the
\* request, unless its result is done.
ClientDisconnects(r) ==
  /\ DispatcherSuspended
  /\ r \in Cancellable \cap reading
  /\ reading' = reading \ {r}
  /\ Cancel(r, "cancelled")
  /\ AlarmBecomes(r, alarm[r])
  /\ UNCHANGED <<active, sequence, enqueuedAt, batchOf, generated, pc,
                 submitted, now, expired, phase>>

\* The handler of a non-streaming request is cancelled while it awaits the
\* result: asyncio cancels the awaited future first, so the cancel() that
\* follows finds the result done and returns.
HandlerCancelled(r) ==
  /\ DispatcherSuspended
  /\ r \in Deserting /\ state[r] \notin {"validated", "rejected"}
  /\ result[r] = "pending"
  /\ result' = [result EXCEPT ![r] = "abandoned"]
  /\ UNCHANGED <<state, finished, output, registryVars, itemVars, taskVars, worldVars>>

-----------------------------------------------------------------------------
(* The end of the lifespan *)

\* shutdown() stops admission and cancels the dispatcher.
StopDispatcher ==
  /\ DispatcherSuspended
  /\ MayShutDown /\ phase = "up"
  /\ phase' = "stopping"
  /\ dispatcher' = "stopped"
  /\ UNCHANGED <<outcomeVars, registryVars, itemVars, pc, cancelling, submitted,
                 now, expired, reading>>

\* The rest of shutdown() cancels what is queued, then LifecycleManager.shutdown
\* starts to wait for the tasks.
CancelQueue ==
  LET cancelled == {r \in queue : result[r] = "pending"}
  IN  /\ phase = "stopping"
      /\ phase' = "draining"
      /\ TerminalError(cancelled, Uniformly("cancelled"))
      /\ queue' = queue \ cancelled
      /\ Forget(cancelled)
      /\ UNCHANGED <<active, itemVars, taskVars, submitted, now, expired, reading>>

\* The grace period ends: every task still pending is cancelled.  The ready
\* queue of the loop is first in first out and shutdown suspends at least twice
\* after the dispatcher stops, so every task has had its first step by then.
GraceEnds ==
  /\ phase = "draining"
  /\ \E t \in Requests : pc[t] \in Unfinished
  /\ \A t \in Requests : pc[t] # "created"
  /\ phase' = "cancelling"
  /\ cancelling' = cancelling \cup {t \in Requests : pc[t] \in Unfinished}
  /\ UNCHANGED <<outcomeVars, registryVars, itemVars, pc, dispatcher, submitted,
                 now, expired, reading>>

\* Mutant of NoTaskPending: the tasks are not awaited.
WaitForNothing == TRUE

NoTaskPending == \A t \in Requests : pc[t] \notin Unfinished

\* No task is pending any more: the cache is cleared and the backend unloaded.
Unload ==
  /\ phase \in {"draining", "cancelling"}
  /\ NoTaskPending
  /\ phase' = "unloaded"
  /\ UNCHANGED <<outcomeVars, registryVars, itemVars, taskVars, submitted, now,
                 expired, reading>>

\* Bound: the clock stops at MaxClock.
Tick ==
  /\ DispatcherSuspended
  /\ now < MaxClock
  /\ now' = now + 1
  /\ UNCHANGED <<outcomeVars, registryVars, itemVars, taskVars, submitted,
                 expired, reading, phase>>

-----------------------------------------------------------------------------
TaskStep(t) ==
  \/ StartTask(t) \/ StartRaises(t)
  \/ BackendReturns(t) \/ BackendFails(t)
  \/ StreamYields(t) \/ StreamEnds(t) \/ PutResumes(t)
  \/ TimeoutFires(t) \/ CancelDelivered(t)
  \/ Finished(t)

RequestStep(r) ==
  \/ Submit(r) \/ Reject(r)
  \/ CancelRequest(r) \/ DeadlinePasses(r) \/ Expire(r)
  \/ ClientReads(r) \/ ClientDisconnects(r) \/ HandlerCancelled(r)

LifespanStep == StopDispatcher \/ CancelQueue \/ GraceEnds \/ Unload

Next ==
  \/ DispatcherWakes \/ DispatchNothing \/ Dispatch
  \/ \E r \in Requests : RequestStep(r) \/ TaskStep(r)
  \/ LifespanStep
  \/ Tick

Spec == Init /\ [][Next]_vars

-----------------------------------------------------------------------------
(* Fairness.  asyncio runs every ready callback and time passes, so tasks take
   their steps, timers fire and deadlines come.  A client that still reads goes
   on reading.  The backend may hang, but a call of it ends when it is cancelled: of
   an MPS stream, which then waits for its thread, this holds if the thread ends. *)

EventLoopFairness ==
  /\ WF_vars(Dispatch) /\ WF_vars(DispatcherWakes) /\ WF_vars(DispatchNothing)
  /\ WF_vars(CancelQueue) /\ WF_vars(GraceEnds) /\ WF_vars(Unload)
  /\ \A t \in Requests :
       /\ WF_vars(StartTask(t)) /\ WF_vars(StartRaises(t))
       /\ WF_vars(PutResumes(t)) /\ WF_vars(TimeoutFires(t))
       /\ WF_vars(CancelDelivered(t)) /\ WF_vars(Finished(t))
       /\ WF_vars(DeadlinePasses(t)) /\ WF_vars(Expire(t))

ClientFairness == \A r \in Requests : WF_vars(ClientReads(r))

FairSpec == Spec /\ EventLoopFairness /\ ClientFairness
=============================================================================
