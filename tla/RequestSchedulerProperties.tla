--------------------- MODULE RequestSchedulerProperties ---------------------
(***************************************************************************)
(* What RequestScheduler guarantees, and what the repository says of it    *)
(* that the code does not do.                                              *)
(***************************************************************************)
EXTENDS RequestScheduler

\* Every variable has its type.
OutcomeTypes ==
  /\ state \in [Requests -> RequestStates]
  /\ result \in [Requests -> Outcomes \cup {"pending", "abandoned"}]
  /\ finished \in [TerminalStates -> Nat]
  /\ output \in [Requests -> Seq({"token", "error", "end"})]
RegistryTypes ==
  /\ queue \subseteq Requests /\ items \subseteq Requests /\ active \subseteq Requests
  /\ alarm \in [Requests -> {"none", "armed", "fired"}]
ItemTypes ==
  /\ sequence \in [Requests -> Nat] /\ enqueuedAt \in [Requests -> Nat]
  /\ batchOf \in [Requests -> Requests \cup {None}]
  /\ cancellation \in [Requests -> ErrorStates]
  /\ generated \in [Requests -> Nat]
TaskTypes ==
  /\ pc \in [Requests -> TaskStates]
  /\ cancelling \subseteq Requests
  /\ dispatcher \in {"notified", "waiting", "sleeping", "forming", "stopped"}
WorldTypes ==
  /\ submitted \in Nat /\ now \in Nat
  /\ expired \subseteq Requests /\ reading \subseteq Stream
  /\ phase \in {"up", "stopping", "draining", "cancelling", "unloaded"}
TypeOK == OutcomeTypes /\ RegistryTypes /\ ItemTypes /\ TaskTypes /\ WorldTypes

\* The configured bounds hold at every moment: the queue, the slots that batches
\* fill several at a time, and the buffer between a stream and its client.
QueueBounded == Cardinality(queue) <= MaxQueued
SlotsBounded == Cardinality(active) <= MaxActive
BuffersBounded == \A r \in Requests : Len(output[r]) <= StreamBufferSize
ResourcesBounded == QueueBounded /\ SlotsBounded /\ BuffersBounded

\* The registries agree: an item is either queued or holds a slot, it has its
\* deadline task until it leaves, and it holds the slot exactly while the task
\* of its batch has not been reaped.  So nothing is leaked or released twice.
RegistriesAgree ==
  /\ items = queue \cup active /\ queue \cap active = {}
  /\ \A r \in Requests :
       /\ alarm[r] # "none" <=> r \in items
       /\ r \in active <=> batchOf[r] # None /\ pc[batchOf[r]] # "reaped"

\* What makes RegistriesAgree inductive: a batch is named after one of its own
\* members, what is queued has no batch, and a request that was not submitted is
\* nowhere yet.
BatchesNamed ==
  \A r \in Requests :
    /\ batchOf[r] # None => batchOf[batchOf[r]] = batchOf[r]
    /\ r \in queue => batchOf[r] = None
    /\ state[r] = "validated" => r \notin items /\ batchOf[r] = None

RegistryInvariant == TypeOK /\ RegistriesAgree /\ BatchesNamed

\* The result of a request agrees with its state: whoever ends it first, the
\* waiter is told that outcome, and no other.
OutcomeDelivered ==
  \A r \in Requests :
    /\ state[r] \in Outcomes => result[r] \in {state[r], "abandoned"}
    /\ result[r] \in Outcomes => state[r] = result[r]

\* The metrics count every outcome exactly once, although a deadline, a client,
\* the backend and the shutdown may all try to end the same request.
CountedOnce ==
  \A k \in TerminalStates : finished[k] = Cardinality({r \in Requests : state[r] = k})

\* What makes OutcomeDelivered inductive: queued work is numbered apart, so a
\* stream, which is compatible with nothing, runs alone; and while a task is in
\* the backend its members are being generated or have ended early, the only
\* member of a batch of one being still there.
QueueNumbered ==
  \A r \in queue :
    sequence[r] < submitted /\ \A s \in queue \ {r} : sequence[r] # sequence[s]
StreamsAlone == \A r \in Stream : batchOf[r] # None => Members(batchOf[r]) = {r}
TasksProgress ==
  \A t \in Requests :
    /\ pc[t] # "none" => batchOf[t] = t
    /\ pc[t] \in {"generating", "putting_token"} =>
         /\ \A r \in Members(t) : state[r] \in {"prefill", "decoding"} \cup ErrorStates
         /\ Alone(t) => state[t] \in {"prefill", "decoding"}

OutcomeInvariant ==
  /\ RegistryInvariant /\ QueueNumbered /\ StreamsAlone /\ TasksProgress
  /\ OutcomeDelivered /\ CountedOnce

\* The dispatcher never sleeps on the condition while it has something to do:
\* no notification is missing or lost.
NoMissedWakeup == dispatcher = "waiting" => ~CanDispatch(queue, active)

\* The task of r was cancelled before its first step, so its body never ran.
LostStart(r) ==
  /\ batchOf[r] # None /\ pc[batchOf[r]] \in {"done", "reaped"}
  /\ state[r] = "queued"

\* A request that has left the scheduler has been answered, unless its task was
\* cancelled before its first step.
ReleasedIsAnswered ==
  \A r \in Requests :
    state[r] \notin {"validated", "rejected"} /\ r \notin items =>
      result[r] # "pending" \/ LostStart(r)

\* A request times out only after the deadline of a member of its batch.
TimeoutHasCause ==
  \A r \in Requests : state[r] = "timed_out" =>
    r \in expired \/ (batchOf[r] # None /\ Members(batchOf[r]) \cap expired # {})

\* While the backend does not fail, a request fails only in a batch of which
\* another member ended early, cancelled or timed out.
FailureHasCause ==
  \A r \in Requests : state[r] = "failed" =>
    \/ BackendMayFail
    \/ batchOf[r] # None
       /\ \E s \in Members(batchOf[r]) : state[s] \in {"cancelled", "timed_out"}

\* Batches keep to size and budget and mix neither streams nor sampling settings.
BatchesCompatible ==
  \A t \in Requests : Cardinality(Members(t)) > 1 =>
    /\ Cardinality(Members(t)) <= MaxBatchSize
    /\ TotalTokens({Item(r) : r \in Members(t)}) <= BatchTokenBudget
    /\ Members(t) \cap Stream = {}
    /\ \A r, s \in Members(t) : Sampling[r] = Sampling[s]

\* Once the backend is unloaded no task can call it, and every admitted request
\* has been answered (or lost its task before the first step).
UnloadedIsIdle ==
  phase = "unloaded" =>
    /\ \A t \in Requests : pc[t] \notin Unfinished
    /\ \A r \in Requests : state[r] \notin {"validated", "rejected"} =>
         result[r] # "pending" \/ LostStart(r)

\* Shutdown cancelled the task of a completed stream while it waited for room to
\* put the end marker: the marker is lost.
LostEnd(r) == state[r] = "completed" /\ r \in cancelling

\* A stream's buffer never holds anything after its end or error entry, which is
\* the one that fits its outcome, and a client that still reads an ended stream
\* has such an entry to come, unless shutdown made _run drop it.
StreamsTerminated ==
  \A r \in Stream :
    LET buffer == output[r]
        last == buffer[Len(buffer)]
    IN  /\ \A i \in 1 .. Len(buffer) - 1 : buffer[i] = "token"
        /\ buffer # <<>> =>
             /\ last = "end" => state[r] = "completed"
             /\ last = "error" => state[r] \in ErrorStates
        /\ r \in reading /\ state[r] \in Outcomes =>
             \/ pc[r] = "putting_end" \/ LostEnd(r)
             \/ buffer # <<>> /\ last # "token"

\* What makes ReleasedIsAnswered inductive: queued work has not ended, a batch has
\* its task, a task that has not started has only queued members and members ended
\* early, and a task leaves the backend with its members answered, or lost.
AnswersTracked ==
  /\ \A r \in queue : state[r] = "queued"
  /\ \A r \in Requests : batchOf[r] # None =>
       /\ pc[batchOf[r]] # "none"
       /\ pc[batchOf[r]] = "created" => state[r] \in {"queued"} \cup ErrorStates
       /\ pc[batchOf[r]] \in {"putting_end", "done", "reaped"} =>
            result[r] # "pending" \/ state[r] = "queued"

\* What makes TimeoutHasCause and FailureHasCause inductive: the state that cancel
\* leaves for the task to deliver has the same causes.
CancellationHasCause ==
  \A r \in Requests :
    \/ cancellation[r] = "cancelled"
    \/ cancellation[r] = "timed_out" /\ r \in expired

\* What makes UnloadedIsIdle inductive: nothing is dispatched once shutdown began,
\* and it leaves only abandoned requests in the queue.
ShutdownTracked ==
  /\ phase # "up" => dispatcher = "stopped"
  /\ phase \notin {"up", "stopping"} => \A r \in queue : result[r] # "pending"

AnswerInvariant ==
  /\ OutcomeInvariant /\ AnswersTracked /\ CancellationHasCause /\ ShutdownTracked
  /\ ReleasedIsAnswered /\ TimeoutHasCause /\ FailureHasCause /\ UnloadedIsIdle

\* What makes StreamsTerminated inductive: the buffer of a stream that waits to
\* put its end marker, having completed, holds tokens only.
EndPending ==
  \A r \in Requests : pc[r] = "putting_end" =>
    /\ r \in Stream /\ state[r] = "completed"
    /\ \A i \in 1 .. Len(output[r]) : output[r][i] = "token"

StreamInvariant ==
  OutcomeInvariant /\ EndPending /\ BuffersBounded /\ StreamsTerminated

BatchInvariant == OutcomeInvariant /\ QueueBounded /\ SlotsBounded /\ BatchesCompatible

\* What makes BoundedOvertaking hold: nothing was queued in the future.
QueuedInThePast == \A r \in Requests : enqueuedAt[r] <= now

\* The scheduler implements RequestLifecycle: whatever happens to a request, its
\* state, its result and the counters move together along legal transitions,
\* and stay put once it has ended.
Lifecycle == INSTANCE RequestLifecycle
  WITH Requests <- Requests, state <- state, result <- result, finished <- finished
ImplementsLifecycle == Lifecycle!Spec

\* In priority and shortest-job order, by how many aging steps b outranks a
\* when both have waited equally long.
HeadStart(b, a) ==
  CASE Policy = "fifo"         -> 0
    [] Policy = "priority"     -> PriorityOf[b] - PriorityOf[a]
    [] Policy = "shortest_job" -> EstimatedTokens(a) - EstimatedTokens(b)

\* The requests that a step of the dispatcher takes from the queue: one batch.
Dispatched == {r \in queue : batchOf'[r] # None}

\* a could not join the batch of b: it may not run with the seed, or exceeds what is
\* left of the token budget.
NoPlaceFor(a, b) ==
  \/ ~Compatible(Item(batchOf'[b]), Item(a))
  \/ TotalTokens({Item(r) : r \in Dispatched}) + EstimatedTokens(a) > BatchTokenBudget

\* Starvation is bounded: a request that came later is dispatched before one that
\* stays in the queue only if the head start it has is worth more than the time
\* between them, which is never the case in fifo order; or as the mate of a seed
\* that goes first by this rule, in a batch that has no place for the earlier one.
BoundedOvertaking ==
  [][\A b \in Dispatched, a \in queue \ Dispatched :
       sequence[b] > sequence[a] =>
         \/ enqueuedAt[b] - enqueuedAt[a] < AgingSeconds * HeadStart(b, a)
         \/ batchOf'[b] # b /\ NoPlaceFor(a, b)]_vars

\* Every admitted request is eventually answered, even if the backend hangs,
\* provided it has a deadline and its task is not cancelled before its first step.
Answered ==
  \A r \in Deadlined : state[r] = "queued" ~> (result[r] # "pending" \/ LostStart(r))

\* Every slot is given back, unless a stream's client went away and nobody
\* empties its buffer.
SlotsFreed ==
  \A r \in Requests :
    r \in active ~> (r \notin active \/ r \in Stream \ reading)

\* Every streaming response that is still read comes to an end, unless its task
\* is cancelled before its first step or in its last put.
ResponsesEnd ==
  \A r \in Stream \cap Deadlined :
    r \in reading ~> (r \notin reading \/ LostStart(r) \/ LostEnd(r))

-----------------------------------------------------------------------------
(* What the repository says and the code does not do.  Each of these is refuted
   by a run of its own. *)

\* cancel "releases the completion channels" of active work: no request leaves
\* the scheduler with its result pending.
CancelReleasesChannels ==
  \A r \in Requests :
    state[r] \notin {"validated", "rejected"} /\ r \notin items => result[r] # "pending"

\* RequestTimedOut is raised "when a request deadline expires": its own deadline.
TimedOutAtOwnDeadline ==
  \A r \in Requests : state[r] = "timed_out" => r \in expired

\* "Cancellation cleanup": a request whose handler was cancelled is not queued.
CancelledHandlerLeavesQueue ==
  \A r \in queue : result[r] # "abandoned"

\* "Active-request limits, deadlines": every request gives its slot back.
EverySlotFreed == \A r \in Requests : r \in active ~> r \notin active
=============================================================================
