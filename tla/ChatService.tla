---------------------------- MODULE ChatService -----------------------------
(***************************************************************************)
(* The server as its clients see it: the handlers of api.py over the mock  *)
(* backend and the scheduler.  Of the scheduler there is what it promises  *)
(* (RequestLifecycle, which RequestScheduler implements): an admitted      *)
(* request moves along its states and ends, at the latest by its deadline; *)
(* except that it, or its end, may be lost, and the handler is stranded.   *)
(***************************************************************************)
EXTENDS RequestState, Integers, FiniteSets, Sequences, FiniteSetsExt

CONSTANTS
  MaxRequests,        \* bound on the requests clients make
  MaxPrompt, MaxOutput, MaxTotal, MaxQueued,   \* the scheduler's limits
  Faults              \* fault configurations of the mock backend

ASSUME ServiceAssumption ==
  /\ {MaxRequests, MaxPrompt, MaxOutput, MaxTotal, MaxQueued} \subseteq Nat
  /\ Faults \subseteq [failLoad : BOOLEAN, failGeneration : BOOLEAN, failAfter : Nat,
                       memoryPressure : BOOLEAN, unhealthyAfter : Nat]

Requests == 1 .. MaxRequests
NotSet == 0           \* fail_after_tokens or unhealthy_after_requests is None

VARIABLES
  faults, health, begun,     \* the mock: its faults, _status and _requests_seen
  app,                       \* the lifespan: starting, serving, draining, stopped
  body,                      \* body[r]: [prompt, output, stream, known] as r was sent
  handler,                   \* handler[r]: where chat_completion is
  state, cause,              \* the request's state, and why it failed
  produced,                  \* tokens of its stream or result so far
  reply,                     \* reply[r]: what has been sent back
  received, finished         \* requests_received and the counters of outcomes

serverVars == <<faults, health, begun, app, body, handler, state, cause, produced,
                reply, received, finished>>
mockVars == <<faults, health, begun>>

NoReply == [status |-> 0, tokens |-> 0, error |-> FALSE, finish |-> FALSE, closed |-> FALSE]
NoBody == [prompt |-> 0, output |-> 0, stream |-> FALSE, known |-> FALSE]

ServerInit ==
  /\ faults \in Faults
  /\ health = "loading" /\ begun = 0
  /\ app = "starting"
  /\ body = [r \in Requests |-> NoBody]
  /\ handler = [r \in Requests |-> "none"]
  /\ state = [r \in Requests |-> "received"]
  /\ cause = [r \in Requests |-> "none"]
  /\ produced = [r \in Requests |-> 0]
  /\ reply = [r \in Requests |-> NoReply]
  /\ received = 0
  /\ finished = [k \in TerminalStates |-> 0]

-----------------------------------------------------------------------------
\* What was lost is not in the queue any more, and stays "queued" for ever.
Queued == {r \in Requests : state[r] = "queued" /\ handler[r] \in {"waiting", "streaming"}}
Live(r) == r \in Queued \/ state[r] \in {"prefill", "decoding"}

\* These requests end, and are counted, together.
End(rs, k) ==
  /\ state' = [r \in Requests |-> IF r \in rs THEN k ELSE state[r]]
  /\ finished' = [finished EXCEPT ![k] = @ + Cardinality(rs)]

Fail(r, category) ==
  End({r}, "failed") /\ cause' = [cause EXCEPT ![r] = category]

accepting == app = "serving"

\* The lifespan up to its yield; a backend that does not load stops it there.
Load ==
  /\ app = "starting"
  /\ IF faults.failLoad THEN health' = "unhealthy" /\ app' = "stopped"
     ELSE health' = "ready" /\ app' = "serving"
  /\ UNCHANGED <<faults, begun, body, handler, state, cause, produced, reply, received, finished>>

TurnsUnhealthy ==
  health = "ready" /\ faults.unhealthyAfter # NotSet /\ begun >= faults.unhealthyAfter

\* _begin_request of the mock: what it raises.
BeginError ==
  IF health # "ready" \/ TurnsUnhealthy THEN "backend_unhealthy"
  ELSE IF faults.memoryPressure THEN "memory_pressure"
  ELSE IF faults.failGeneration /\ faults.failAfter = NotSet THEN "backend_generation_failed"
  ELSE "none"

\* The scheduler takes r from its queue and calls the backend.
Begin(r) ==
  /\ r \in Queued
  /\ begun' = IF health = "ready" THEN begun + 1 ELSE begun
  /\ health' = IF TurnsUnhealthy THEN "unhealthy" ELSE health
  /\ IF BeginError = "none"
     THEN state' = [state EXCEPT ![r] = "prefill"] /\ UNCHANGED <<cause, finished>>
     ELSE Fail(r, BeginError)
  /\ UNCHANGED <<faults, app, body, handler, produced, reply, received>>

\* The mock answers with three words, or fewer.
Words(r) == Min({3, body[r].output})
Breaks(r) == faults.failAfter # NotSet /\ produced[r] >= faults.failAfter

\* A token; the fault that follows one is raised when the next is asked for.
Token(r) ==
  /\ state[r] \in {"prefill", "decoding"} /\ produced[r] < Words(r) /\ ~Breaks(r)
  /\ produced' = [produced EXCEPT ![r] = @ + 1]
  /\ state' = [state EXCEPT ![r] = IF body[r].stream THEN "decoding" ELSE @]
  /\ UNCHANGED <<mockVars, app, body, handler, cause, reply, received, finished>>

Break(r) ==
  /\ state[r] \in {"prefill", "decoding"} /\ Breaks(r)
  /\ Fail(r, "backend_generation_failed")
  /\ UNCHANGED <<mockVars, app, body, handler, produced, reply, received>>

Complete(r) ==
  /\ state[r] \in {"prefill", "decoding"} /\ produced[r] = Words(r) /\ ~Breaks(r)
  /\ End({r}, "completed")
  /\ UNCHANGED <<mockVars, app, body, handler, cause, produced, reply, received>>

DeadlinePasses(r) ==
  /\ Live(r) /\ End({r}, "timed_out")
  /\ UNCHANGED <<mockVars, app, body, handler, cause, produced, reply, received>>

\* The deadline of r cancels its task before the task's first step: it never runs, and
\* nothing ends r or answers its handler.
LostStart(r) ==
  /\ r \in Queued /\ handler' = [handler EXCEPT ![r] = "stranded"]
  /\ UNCHANGED <<mockVars, app, body, state, cause, produced, reply, received, finished>>

-----------------------------------------------------------------------------
(* chat_completion: up to the first await, after the awaits of the preparation, and
   then _complete or the generator of _stream_response. *)

Answered(r, code) == reply' = [reply EXCEPT ![r].status = code, ![r].closed = TRUE]

Refusal(r) == IF ~body[r].known THEN {404} ELSE IF ~accepting THEN {503} ELSE {}

Receive(r) ==
  /\ handler[r] = "sent" /\ app \in {"serving", "draining"}
  /\ received' = received + 1
  /\ \/ /\ \E code \in Refusal(r) : Answered(r, code)
        /\ handler' = [handler EXCEPT ![r] = "ended"] /\ UNCHANGED state
     \/ /\ Refusal(r) = {}
        /\ handler' = [handler EXCEPT ![r] = "preparing"]
        /\ state' = [state EXCEPT ![r] = "validated"] /\ UNCHANGED reply
  /\ UNCHANGED <<mockVars, app, body, cause, produced, finished>>

\* The checks of submit in their order, each with its HTTP code.
Reasons(r) ==
  <<[holds |-> ~accepting, code |-> 503],
    [holds |-> body[r].prompt > MaxPrompt, code |-> 413],
    [holds |-> body[r].output > MaxOutput, code |-> 422],
    [holds |-> body[r].prompt + body[r].output > MaxTotal, code |-> 413],
    [holds |-> Cardinality(Queued) >= MaxQueued, code |-> 429]>>
Rejections(r) == {i \in DOMAIN Reasons(r) : Reasons(r)[i].holds}

Submit(r) ==
  /\ handler[r] = "preparing"
  /\ IF Rejections(r) # {}
     THEN /\ End({r}, "rejected") /\ Answered(r, Reasons(r)[Min(Rejections(r))].code)
          /\ handler' = [handler EXCEPT ![r] = "ended"]
     ELSE /\ state' = [state EXCEPT ![r] = "queued"]
          /\ handler' = [handler EXCEPT ![r] = IF body[r].stream THEN "streaming" ELSE "waiting"]
          /\ reply' = [reply EXCEPT ![r].status = IF body[r].stream THEN 200 ELSE 0]
          /\ UNCHANGED finished
  /\ UNCHANGED <<mockVars, app, body, cause, produced, received>>

StatusForCategory(category) ==
  IF category \in {"memory_pressure", "backend_unhealthy", "backend_load_failed"} THEN 503 ELSE 500

\* _complete
StatusFor(r) ==
  CASE state[r] = "completed" -> 200
    [] state[r] = "timed_out" -> 504
    [] state[r] = "cancelled" -> 499
    [] state[r] = "failed" -> StatusForCategory(cause[r])

Answer(r) ==
  /\ handler[r] = "waiting" /\ state[r] \in TerminalStates
  /\ reply' = [reply EXCEPT ![r].status = StatusFor(r), ![r].closed = TRUE, ![r].tokens =
       IF state[r] = "completed" THEN produced[r] ELSE 0]
  /\ handler' = [handler EXCEPT ![r] = "ended"]
  /\ UNCHANGED <<mockVars, app, body, state, cause, produced, received, finished>>

StreamToken(r) ==
  /\ handler[r] \in {"streaming", "stranded"} /\ reply[r].tokens < produced[r]
  /\ reply' = [reply EXCEPT ![r].tokens = @ + 1]
  /\ UNCHANGED <<mockVars, app, body, handler, state, cause, produced, received, finished>>

\* Mutant of Drained: the end marker overtakes the last token.
DrainedButOne(r) == reply[r].tokens + 1 >= produced[r]

Drained(r) == reply[r].tokens = produced[r]

\* The end of a completed stream comes behind its tokens; an error may displace some
\* (_force_output).  [DONE] follows in both cases.
StreamEnds(r) ==
  /\ handler[r] = "streaming"
  /\ \/ /\ state[r] = "completed" /\ Drained(r)
        /\ reply' = [reply EXCEPT ![r].finish = TRUE, ![r].closed = TRUE]
     \/ /\ state[r] \in TerminalStates \ {"completed"}
        /\ reply' = [reply EXCEPT ![r].error = TRUE, ![r].closed = TRUE]
  /\ handler' = [handler EXCEPT ![r] = "ended"]
  /\ UNCHANGED <<mockVars, app, body, state, cause, produced, received, finished>>

\* A stream whose client is gone cancels its request, or loses it before its task's
\* first step; a plain handler waits on.
Disconnected(r) ==
  /\ handler[r] \in {"streaming", "stranded"} /\ body[r].stream
  /\ \/ Live(r) /\ End({r}, "cancelled")
     \/ (Live(r) => r \in Queued) /\ UNCHANGED <<state, finished>>
  /\ handler' = [handler EXCEPT ![r] = "ended"]
  /\ UNCHANGED <<mockVars, app, body, cause, produced, reply, received>>

\* scheduler.shutdown: admission ends and the queue is cancelled.
Stop ==
  /\ app = "serving" /\ app' = "draining"
  /\ End(Queued, "cancelled")
  /\ UNCHANGED <<mockVars, body, handler, cause, produced, reply, received>>

\* Completed streams whose task may still wait for room to put the end marker.
Ending == {r \in Requests : handler[r] = "streaming" /\ state[r] = "completed" /\ ~Drained(r)}

\* lifecycle.shutdown after its grace, which drops such markers, and unload.
Unload ==
  /\ app = "draining" /\ app' = "stopped"
  /\ End({r \in Requests : Live(r)}, "cancelled")
  /\ \E lost \in SUBSET Ending :
       handler' = [r \in Requests |-> IF r \in lost THEN "stranded" ELSE handler[r]]
  /\ health' = "unloaded"
  /\ UNCHANGED <<faults, begun, body, cause, produced, reply, received>>

ServerStep(r) ==
  \/ Receive(r) \/ Submit(r) \/ Answer(r) \/ StreamToken(r) \/ StreamEnds(r)
  \/ Begin(r) \/ Token(r) \/ Break(r) \/ Complete(r) \/ DeadlinePasses(r)
  \/ LostStart(r)
=============================================================================
