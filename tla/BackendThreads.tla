--------------------------- MODULE BackendThreads ---------------------------
(***************************************************************************)
(* The calls of the MLX and the MPS backend: coroutines of the event loop  *)
(* that put blocking work on the default thread pool (asyncio.to_thread).  *)
(* Cancelling a coroutine removes its work from the pool's queue but does  *)
(* not interrupt a thread.  An MPS stream has two jobs: its generation,    *)
(* and one at a time the wait for the next fragment of its streamer.       *)
(***************************************************************************)
EXTENDS Integers, FiniteSets, Sequences, SequencesExt

CONSTANTS
  MaxCalls,          \* bound on the calls made
  MaxTokens,         \* MaxTokens[c]: max_tokens of the request of call c
  MaxActive,         \* max_active_requests: the calls the scheduler has open
  Workers            \* the threads of the pool

Calls == 1 .. MaxCalls

\* Each open MPS stream may block one thread before its generation has one.
ASSUME PoolAssumption ==
  /\ {MaxCalls, MaxActive, Workers} \subseteq Nat /\ MaxTokens \in [Calls -> Nat]
  /\ Workers > MaxActive

VARIABLES
  backend, status,   \* "mlx" or "mps", and its _status
  stream,            \* stream[c]: c is a call of stream, not of generate(_batch)
  task,              \* task[c]: where the coroutine of c is
  outcome,           \* outcome[c]: "none", "returned", "raised" or "cancelled"
  pool, running,     \* the jobs queued for a thread, and those that have one
  unstarted,         \* calls whose generation task was created and has not run yet
  generation,        \* generation[c]: the generation of an MPS stream, or its future
  fragments,         \* fragments[c]: the queue of the TextIteratorStreamer
  stop, more,        \* stop_event, and whether the model goes on after its last token
  tokens, late,      \* tokens generated, and those when the call was given up
  lost               \* lost[c]: texts of the model that the scheduler did not get

callVars == <<task, outcome>>
poolVars == <<pool, running, unstarted>>
modelVars == <<generation, fragments, more, tokens, late, lost>>
vars == <<backend, status, stream, callVars, poolVars, modelVars, stop>>

Init ==
  /\ backend \in {"mlx", "mps"} /\ status = "unloaded"
  /\ stream \in [Calls -> BOOLEAN]
  /\ task = [c \in Calls |-> "idle"]
  /\ outcome = [c \in Calls |-> "none"]
  /\ pool = <<>> /\ running = {} /\ unstarted = {}
  /\ generation = [c \in Calls |-> "pending"]
  /\ fragments = [c \in Calls |-> <<>>]
  /\ stop = [c \in Calls |-> FALSE]
  /\ more = [c \in Calls |-> TRUE]
  /\ tokens = [c \in Calls |-> 0] /\ late = [c \in Calls |-> 0]
  /\ lost = [c \in Calls |-> 0]

-----------------------------------------------------------------------------
Work(c) == <<c, "work">>
Wait(c) == <<c, "wait">>
Awaited(c) == IF stream[c] THEN Wait(c) ELSE Work(c)
Piped(c) == stream[c] /\ backend = "mps"
Open == {c \in Calls : task[c] \in {"awaiting", "holding", "joining", "closing"}}
\* The call is over, or its clean-up has begun: nobody will read another token.  A
\* dropped generator is not given up yet, as nothing has told it that it is dropped.
GivenUp(c) == task[c] \in {"closing", "ended"}
Settled(c) == generation[c] \in {"succeeded", "failed", "cancelled"}

\* The coroutine of c ends.
Ends(c, how) ==
  /\ task' = [task EXCEPT ![c] = "ended"]
  /\ outcome' = [outcome EXCEPT ![c] = how]

Queue(job) == pool' = Append(pool, job)
Unqueue(job) == pool' = RemoveFirst(pool, job)

\* load: its worker runs before there are calls.
StartLoad ==
  /\ status = "unloaded" /\ Open = {} /\ \A c \in Calls : task[c] = "idle"
  /\ status' = "loading"
  /\ UNCHANGED <<backend, stream, callVars, poolVars, modelVars, stop>>

LoadEnds ==
  /\ status = "loading" /\ status' \in {"ready", "unhealthy"}
  /\ UNCHANGED <<backend, stream, callVars, poolVars, modelVars, stop>>

\* unload, after the scheduler's tasks have ended; threads may still be at work.
Unload ==
  /\ status = "ready" /\ Open = {} /\ \E c \in Calls : task[c] # "idle"
  /\ status' = "unloaded"
  /\ UNCHANGED <<backend, stream, callVars, poolVars, modelVars, stop>>

\* generate, generate_batch, tokenize, render_prompt: one job.  stream: the wait
\* for the first event, queued before the generation task gets to run.  A backend
\* that is not ready raises before there is a job, and handlers call tokenize and
\* render_prompt before admission: jobs beyond MaxActive that end by themselves.
Begin(c) ==
  /\ status = "ready" /\ task[c] = "idle" /\ Cardinality(Open) < MaxActive
  /\ c > 1 => task[c - 1] # "idle"
  /\ task' = [task EXCEPT ![c] = "awaiting"]
  /\ Queue(Awaited(c))
  /\ unstarted' = IF Piped(c) THEN unstarted \cup {c} ELSE unstarted
  /\ UNCHANGED <<backend, status, stream, outcome, running, modelVars, stop>>

GenerationTaskStarts(c) ==
  /\ c \in unstarted /\ unstarted' = unstarted \ {c}
  /\ Queue(Work(c))
  /\ UNCHANGED <<backend, status, stream, callVars, running, modelVars, stop>>

\* A free thread takes the oldest job.
Take ==
  /\ pool # <<>> /\ Cardinality(running) < Workers
  /\ running' = running \cup {Head(pool)} /\ pool' = Tail(pool)
  /\ UNCHANGED <<backend, status, stream, callVars, unstarted, modelVars, stop>>

-----------------------------------------------------------------------------
(* Threads. *)

\* A single job returns or raises, to whoever still waits for it.
WholeReturns(c) ==
  /\ ~stream[c] /\ Work(c) \in running /\ running' = running \ {Work(c)}
  /\ IF task[c] = "awaiting" THEN \E how \in {"returned", "raised"} : Ends(c, how)
     ELSE UNCHANGED callVars
  /\ UNCHANGED <<backend, status, stream, pool, unstarted, modelVars, stop>>

\* MLX, _next_event: a token, or the end of the iterator, or an error.
NextEvent(c) ==
  /\ backend = "mlx" /\ Wait(c) \in running /\ running' = running \ {Wait(c)}
  /\ \/ /\ tokens[c] < MaxTokens[c]
        /\ tokens' = [tokens EXCEPT ![c] = @ + 1]
        /\ IF task[c] = "awaiting"
           THEN task' = [task EXCEPT ![c] = "holding"] /\ UNCHANGED <<outcome, late, lost>>
           ELSE /\ late' = [late EXCEPT ![c] = @ + 1] /\ lost' = [lost EXCEPT ![c] = @ + 1]
                /\ UNCHANGED callVars
     \/ /\ IF task[c] = "awaiting" THEN \E how \in {"returned", "raised"} : Ends(c, how)
           ELSE UNCHANGED callVars
        /\ UNCHANGED <<tokens, late, lost>>
  /\ UNCHANGED <<backend, status, stream, pool, unstarted, generation, fragments, more, stop>>

\* Mutant of GoesOn: CancellationCriteria is not asked.
GoesOnRegardless(c, isLast) == ~isLast /\ tokens[c] + 1 < MaxTokens[c]

\* After each token the model stops at an end-of-sequence token, at max_new_tokens,
\* or when CancellationCriteria finds the event set.
GoesOn(c, isLast) == ~isLast /\ tokens[c] + 1 < MaxTokens[c] /\ ~stop[c]

\* MPS, inside model.generate: a token, and the text that became printable with it.
PutToken(c) ==
  /\ Work(c) \in running /\ Piped(c) /\ generation[c] = "pending" /\ more[c]
  /\ tokens' = [tokens EXCEPT ![c] = @ + 1]
  /\ late' = [late EXCEPT ![c] = IF GivenUp(c) THEN @ + 1 ELSE @]
  /\ \E isLast \in BOOLEAN : more' = [more EXCEPT ![c] = GoesOn(c, isLast)]
  /\ \E text \in {"text", "empty"} : fragments' = [fragments EXCEPT ![c] = Append(@, text)]
  /\ UNCHANGED <<backend, status, stream, callVars, poolVars, generation, stop, lost>>

\* Mutant of EndMarker: end() is not in a finally.
EndMarkerOnSuccess(c) == IF more[c] THEN <<>> ELSE <<"text", "end">>

\* generate returns or raises; streamer.end() flushes the text it held back and puts
\* the end marker.  (A generate that succeeds has ended the streamer itself: the empty
\* text and the second marker that follow then are never read, and not modelled.)
EndMarker(c) == <<"text", "end">>

EndStreamer(c) ==
  /\ Work(c) \in running /\ Piped(c) /\ generation[c] = "pending"
  /\ generation' = [generation EXCEPT ![c] = IF more[c] THEN "failing" ELSE "succeeding"]
  /\ fragments' = [fragments EXCEPT ![c] = @ \o EndMarker(c)]
  /\ UNCHANGED <<backend, status, stream, callVars, poolVars, more, tokens, late, stop, lost>>

\* The inputs cannot be built: this raises before the try, and nothing is put.
InputsFail(c) ==
  /\ Work(c) \in running /\ Piped(c) /\ generation[c] = "pending" /\ tokens[c] = 0
  /\ generation' = [generation EXCEPT ![c] = "failing"]
  /\ UNCHANGED <<backend, status, stream, callVars, poolVars, fragments, more, tokens, late,
                 lost, stop>>

\* The thread of the generation is done, and so is the future.  A task that joins it
\* goes on, and one that gathers it in its finally ends as it was ending.
WorkReturns(c) ==
  /\ Work(c) \in running /\ generation[c] \in {"succeeding", "failing"}
  /\ running' = running \ {Work(c)}
  /\ LET succeeded == generation[c] = "succeeding"
     IN  /\ generation' = [generation EXCEPT ![c] = IF succeeded THEN "succeeded" ELSE "failed"]
         /\ IF task[c] = "joining" THEN Ends(c, IF succeeded THEN "returned" ELSE "raised")
            ELSE IF task[c] = "closing" THEN Ends(c, "cancelled")
            ELSE UNCHANGED callVars
  /\ UNCHANGED <<backend, status, stream, pool, unstarted, fragments, more, tokens,
                 late, lost, stop>>

\* Mutant of Joined: the generation is not awaited after the end marker.
JoinedNever(c) == Ends(c, "returned")

\* `await generation` after the end marker.
Joined(c) ==
  CASE generation[c] = "succeeded" -> Ends(c, "returned")
    [] generation[c] = "failed" -> Ends(c, "raised")
    [] OTHER -> task' = [task EXCEPT ![c] = "joining"] /\ UNCHANGED outcome

\* MPS, _stream_next: blocks until there is a fragment.  An empty text is skipped.
StreamNext(c) ==
  /\ backend = "mps" /\ Wait(c) \in running /\ fragments[c] # <<>>
  /\ fragments' = [fragments EXCEPT ![c] = Tail(@)]
  /\ running' = running \ {Wait(c)}
  /\ lost' = [lost EXCEPT ![c] =
       IF Head(fragments[c]) = "text" /\ task[c] # "awaiting" THEN @ + 1 ELSE @]
  /\ IF task[c] # "awaiting" THEN UNCHANGED <<callVars, pool>>
     ELSE CASE Head(fragments[c]) = "text" ->
                 task' = [task EXCEPT ![c] = "holding"] /\ UNCHANGED <<outcome, pool>>
            [] Head(fragments[c]) = "empty" -> Queue(Wait(c)) /\ UNCHANGED callVars
            [] OTHER -> Joined(c) /\ UNCHANGED pool
  /\ UNCHANGED <<backend, status, stream, unstarted, generation, more, tokens, late, stop>>

-----------------------------------------------------------------------------
(* The event loop. *)

\* The scheduler has handled the event and asks for the next one.
AskNext(c) ==
  /\ task[c] = "holding" /\ task' = [task EXCEPT ![c] = "awaiting"]
  /\ Queue(Wait(c))
  /\ UNCHANGED <<backend, status, stream, outcome, running, unstarted, modelVars, stop>>

\* The task is cancelled (deadline, client or shutdown) while it awaits a job.  An
\* MPS stream sets its event and waits for the generation to end.
CancelAwaiting(c) ==
  /\ task[c] = "awaiting" /\ Unqueue(Awaited(c))
  /\ stop' = [stop EXCEPT ![c] = Piped(c)]
  /\ IF Piped(c) /\ ~Settled(c)
     THEN task' = [task EXCEPT ![c] = "closing"] /\ UNCHANGED outcome
     ELSE Ends(c, "cancelled")
  /\ UNCHANGED <<backend, status, stream, running, unstarted, modelVars>>

\* It is cancelled while it handles an event: the generator is left at its yield.
CancelHolding(c) ==
  /\ task[c] = "holding"
  /\ IF Piped(c) THEN /\ task' = [task EXCEPT ![c] = "dropped"]
                      /\ outcome' = [outcome EXCEPT ![c] = "cancelled"]
     ELSE Ends(c, "cancelled")
  /\ UNCHANGED <<backend, status, stream, poolVars, modelVars, stop>>

\* The event loop closes a dropped generator, which runs its finally.
Finalize(c) ==
  /\ task[c] = "dropped" /\ Ends(c, "cancelled")
  /\ stop' = [stop EXCEPT ![c] = TRUE]
  /\ UNCHANGED <<backend, status, stream, poolVars, modelVars>>

\* It is cancelled while it awaits the generation, and cancels that with it: a
\* generation that has no thread yet will never have one.
CancelJoin(c) ==
  /\ task[c] \in {"joining", "closing"} /\ Ends(c, "cancelled")
  /\ stop' = [stop EXCEPT ![c] = TRUE]
  /\ unstarted' = unstarted \ {c} /\ Unqueue(Work(c))
  /\ generation' = [generation EXCEPT ![c] = IF Work(c) \in running THEN @ ELSE "cancelled"]
  /\ UNCHANGED <<backend, status, stream, running, fragments, more, tokens, late, lost>>

Thread(c) ==
  \/ WholeReturns(c) \/ NextEvent(c) \/ PutToken(c) \/ EndStreamer(c) \/ InputsFail(c)
  \/ WorkReturns(c) \/ StreamNext(c)

Cancel(c) == CancelAwaiting(c) \/ CancelHolding(c) \/ CancelJoin(c)

Next ==
  \/ StartLoad \/ LoadEnds \/ Unload \/ Take
  \/ \E c \in Calls :
       Begin(c) \/ GenerationTaskStarts(c) \/ Thread(c) \/ AskNext(c) \/ Cancel(c) \/ Finalize(c)

\* Threads run, and the event loop runs what is ready; nothing need be called,
\* cancelled, loaded or unloaded.
Fairness ==
  /\ WF_vars(Take)
  /\ \A c \in Calls : WF_vars(Thread(c)) /\ WF_vars(GenerationTaskStarts(c)) /\ WF_vars(Finalize(c))

Spec == Init /\ [][Next]_vars /\ Fairness

-----------------------------------------------------------------------------
\* A stream that returns normally has yielded every text that was generated, and its
\* generation did not fail: an error cannot pass for a short answer.
StreamsFaithful ==
  \A c \in Calls : stream[c] /\ outcome[c] = "returned" =>
    lost[c] = 0 /\ fragments[c] = <<>> /\ (Piped(c) => generation[c] = "succeeded")

\* Once a stream is given up its model generates at most one more token, whichever of
\* its awaits was cancelled, and how often.  This starts with the clean-up: a stream
\* cancelled between two tokens leaves its generator dropped, and the model goes on
\* until the event loop closes the generator.
StopsPromptly == \A c \in Calls : late[c] <= 1

\* Every variable has its type.
Jobs == Calls \X {"work", "wait"}
TaskTypes ==
  /\ backend \in {"mlx", "mps"} /\ stream \in [Calls -> BOOLEAN]
  /\ task \in [Calls -> {"idle", "awaiting", "holding", "joining", "closing", "dropped", "ended"}]
  /\ outcome \in [Calls -> {"none", "returned", "raised", "cancelled"}]
PoolTypes == pool \in Seq(Jobs) /\ running \subseteq Jobs /\ unstarted \subseteq Calls
ModelTypes ==
  /\ generation \in [Calls -> {"pending", "succeeding", "failing", "succeeded", "failed", "cancelled"}]
  /\ fragments \in [Calls -> Seq({"text", "empty", "end"})]
  /\ stop \in [Calls -> BOOLEAN] /\ more \in [Calls -> BOOLEAN]
  /\ late \in [Calls -> Nat] /\ lost \in [Calls -> Nat]
TypeOK == TaskTypes /\ PoolTypes /\ ModelTypes

\* What makes StreamsFaithful and StopsPromptly inductive.  A call has one wait at a
\* time: it is queued while the call awaits it, and survives the call only in a
\* thread, when the call is cancelled.
Once(s, e) == \A i, j \in 1 .. Len(s) : s[i] = e /\ s[j] = e => i = j
WaitTracked(c) ==
  /\ Once(pool, Wait(c))
  /\ Contains(pool, Wait(c)) => stream[c] /\ task[c] = "awaiting" /\ Wait(c) \notin running
  /\ Wait(c) \in running =>
       stream[c] /\ (task[c] \in {"awaiting", "closing"} \/ outcome[c] = "cancelled")

\* The end marker comes last, when nothing is generated any more, and a call that
\* joins its generation has read everything.  Nothing is lost before a call ends.
EndComesLast(s) == \A i \in 1 .. Len(s) : s[i] = "end" => i = Len(s)
TextTracked(c) ==
  /\ EndComesLast(fragments[c])
  /\ Contains(fragments[c], "end") => generation[c] # "pending"
  /\ fragments[c] # <<>> => Piped(c)
  /\ task[c] \in {"holding", "joining"} => stream[c]
  /\ task[c] = "joining" => Piped(c) /\ fragments[c] = <<>> /\ generation[c] # "pending"
  /\ task[c] \in {"idle", "awaiting", "holding", "joining"} => lost[c] = 0 /\ outcome[c] = "none"
  /\ task[c] = "closing" => outcome[c] = "none"
  /\ task[c] = "dropped" => Piped(c) /\ outcome[c] = "cancelled"

\* A model that may go on for a call given up has been told to stop, and what is late
\* came with the last step of the model or of the last thread.
LateTracked(c) ==
  IF Piped(c) THEN /\ GivenUp(c) /\ generation[c] = "pending" /\ more[c] => stop[c]
                   /\ late[c] > 0 => ~more[c]
  ELSE ~GivenUp(c) \/ Wait(c) \in running => late[c] = 0

ThreadInvariant ==
  /\ TypeOK /\ StreamsFaithful /\ StopsPromptly
  /\ \A c \in Calls : WaitTracked(c) /\ TextTracked(c) /\ LateTracked(c)

\* A wait for a fragment that cannot come: the generation of c was cancelled before it
\* had a thread, or failed before its try block.
Starved(c) ==
  /\ Wait(c) \in running /\ fragments[c] = <<>>
  /\ generation[c] \in {"failing", "failed", "cancelled"} /\ more[c] /\ tokens[c] = 0

\* Every thread that is given a job becomes free again, however calls end, as long as
\* no wait is starved: the waits of streams cannot use up the pool between them.
WorkersReturn ==
  \A c \in Calls :
    (Work(c) \in running \/ Wait(c) \in running) ~>
      ({Work(c), Wait(c)} \cap running = {} \/ \E d \in Calls : Starved(d))
=============================================================================
