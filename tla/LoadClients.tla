---------------------------- MODULE LoadClients -----------------------------
(***************************************************************************)
(* The programs that ask the server for completions and judge its answers: *)
(* the load generator in its closed and open modes (benchmark.py), the     *)
(* quality prompts of quantization.py and the control room page (ui.py).   *)
(* The direct baseline of compare_mlx.py runs the closed mode's loop       *)
(* without a server.  Requests are numbered in the order they are sent.    *)
(***************************************************************************)
EXTENDS ChatService

CONSTANTS
  Limits,             \* --concurrency, one scenario after the other
  PromptLengths, OutputLengths

ASSUME ClientAssumption ==
  Limits \cup PromptLengths \cup OutputLengths \subseteq Nat \ {0}

VARIABLES
  client, limit,      \* which program runs, with what concurrency
  streamed,           \* --stream; the quality prompts always stream
  combinations,       \* Workload: the buckets in their shuffled order
  sequence,           \* the requests sent so far
  offered,            \* the tasks the open mode has created
  flight,             \* the requests that are being waited for
  verdict,            \* verdict[r]: "none", or what the program makes of the answer
  over,               \* the duration is over, or the program gave up
  tracker             \* ConcurrencyTracker: [current, peak]

clientVars == <<client, limit, streamed, combinations, sequence, offered, flight, verdict,
                over, tracker>>

\* The load generator runs; the other programs wait for each answer.
Tracked == client \in {"closed", "open", "direct"}

ClientInit ==
  /\ client \in {"closed", "open", "direct", "quality", "page"}
  /\ limit \in (IF Tracked THEN Limits ELSE {1})
  /\ streamed \in BOOLEAN /\ (client = "quality" => streamed)
  /\ LET buckets == PromptLengths \X OutputLengths
     IN  combinations \in {f \in [1 .. Cardinality(buckets) -> buckets] :
                             \A b \in buckets : \E i \in DOMAIN f : f[i] = b}
  /\ sequence = 0 /\ offered = 0 /\ flight = {} /\ over = FALSE
  /\ verdict = [r \in Requests |-> "none"]
  /\ tracker = [current |-> 0, peak |-> 0]

-----------------------------------------------------------------------------
\* Mutant of HasRoom: the semaphore of the open mode is not released.
HasRoomOnce == sequence < limit

\* A worker of the closed mode is free, or the semaphore of the open mode.
HasRoom == Cardinality(flight) < limit

\* The open mode starts what was offered even when its time is over.
MayAsk == IF client = "open" THEN sequence < offered ELSE ~over /\ sequence < MaxRequests

Entered == [current |-> tracker.current + 1, peak |-> Max({tracker.peak, tracker.current + 1})]

\* Mutant of Exited: a request that times out is not taken off.
ExitedIfAnswered(v) ==
  IF v = "client_timeout" THEN tracker ELSE [tracker EXCEPT !.current = @ - 1]

Exited(v) == [tracker EXCEPT !.current = @ - 1]

\* Workload.next: the buckets in turn.
Bucket(n) == combinations[(n % Len(combinations)) + 1]

\* The page lets its user name any model.
Bodies(bucket) ==
  [prompt : {bucket[1]}, output : {bucket[2]}, stream : {streamed},
   known : IF client = "page" THEN BOOLEAN ELSE {TRUE}]

\* _one_request until the request is sent; the server was there when the program began.
Ask ==
  LET r == sequence + 1
  IN  /\ MayAsk /\ HasRoom
      /\ sequence = 0 /\ client # "direct" => app = "serving"
      /\ \E b \in Bodies(Bucket(sequence)) : body' = [body EXCEPT ![r] = b]
      /\ handler' = [handler EXCEPT ![r] = IF client = "direct" THEN "none" ELSE "sent"]
      /\ sequence' = r /\ flight' = flight \cup {r}
      /\ tracker' = IF Tracked THEN Entered ELSE tracker
      /\ UNCHANGED <<mockVars, app, state, cause, produced, reply, received, finished>>
      /\ UNCHANGED <<client, limit, streamed, combinations, offered, verdict, over>>

\* The interval between two arrivals of the open mode passes.
Offer ==
  /\ client = "open" /\ ~over /\ offered < MaxRequests /\ app # "starting"
  /\ offered' = offered + 1
  /\ UNCHANGED <<serverVars, client, limit, streamed, combinations, sequence, flight, verdict, over, tracker>>

\* evaluate: a quality prompt without an answer raises and ends it.
GivesUp(v) == client = "quality" /\ v # "success"

\* _one_request from the answer to its sample.
Leave(r, v) ==
  /\ flight' = flight \ {r}
  /\ verdict' = [verdict EXCEPT ![r] = v]
  /\ tracker' = IF Tracked THEN Exited(v) ELSE tracker
  /\ over' = (over \/ GivesUp(v))
  /\ UNCHANGED <<serverVars, client, limit, streamed, combinations, sequence, offered>>

\* Each program looks at the status, and not at what a stream held.
Sample(r) ==
  IF reply[r].status = 200 THEN "success"
  ELSE IF reply[r].status = 504 THEN "timeout" ELSE "http_error"
QualityResult(r) == IF reply[r].status < 400 THEN "success" ELSE "raised"
PageStage(r) == IF reply[r].status = 200 THEN "success" ELSE "shown_as_failed"

Judgement(r) ==
  CASE client = "quality" -> QualityResult(r)
    [] client = "page" -> PageStage(r)
    [] OTHER -> Sample(r)

Judge(r) == r \in flight /\ reply[r].closed /\ Leave(r, Judgement(r))

\* httpx times out; the page waits for ever.
ClientTimeout(r) ==
  /\ r \in flight /\ ~reply[r].closed /\ client \notin {"page", "direct"}
  /\ Leave(r, "client_timeout")

\* The server is gone: httpx.HTTPError, or fetch rejects.
ConnectionLost(r) ==
  /\ r \in flight /\ ~reply[r].closed /\ app = "stopped"
  /\ Leave(r, "connection_error")

\* The baseline's thread returns a text or raises; nothing times it out.
DirectReturns(r) ==
  /\ r \in flight /\ client = "direct"
  /\ \E v \in {"success", "exception"} : Leave(r, v)

DurationPasses ==
  /\ ~over /\ over' = TRUE
  /\ UNCHANGED <<serverVars, client, limit, streamed, combinations, sequence, offered, flight, verdict, tracker>>

ServerNext ==
  /\ client # "direct"
  /\ \/ Load \/ Stop \/ Unload
     \/ \E r \in Requests : ServerStep(r) \/ (verdict[r] # "none" /\ Disconnected(r))
  /\ UNCHANGED clientVars

Next ==
  \/ ServerNext
  \/ Ask \/ Offer \/ DurationPasses
  \/ \E r \in Requests : Judge(r) \/ ClientTimeout(r) \/ ConnectionLost(r) \/ DirectReturns(r)

vars == <<serverVars, clientVars>>

\* Handlers run, deadlines pass, answers arrive and httpx times out where none does;
\* nobody has to stop the server, and no request need be lost.
Fairness ==
  /\ WF_vars(Ask)
  /\ \A r \in Requests :
       /\ WF_vars(Receive(r) /\ UNCHANGED clientVars)
       /\ WF_vars(Submit(r) /\ UNCHANGED clientVars)
       /\ WF_vars((Answer(r) \/ StreamToken(r) \/ StreamEnds(r)) /\ UNCHANGED clientVars)
       /\ WF_vars(DeadlinePasses(r) /\ UNCHANGED clientVars)
       /\ WF_vars(Judge(r) \/ ClientTimeout(r) \/ ConnectionLost(r) \/ DirectReturns(r))

Init == ServerInit /\ ClientInit

Spec == Init /\ [][Next]_vars /\ Fairness

-----------------------------------------------------------------------------
Abandoned == {r \in Requests : verdict[r] \in {"client_timeout", "connection_error"}}

\* What a program reports of a request is what happened to it, although the answer,
\* its timeout, the deadline and shutdown race: a success was completed and came
\* with all its tokens, except that a stream which broke off counts as one as well.
SamplesTruthful ==
  \A r \in Requests :
    /\ verdict[r] = "success" /\ client # "direct" =>
         \/ state[r] = "completed" /\ reply[r].tokens = produced[r]
         \/ body[r].stream /\ reply[r].error /\ state[r] \in TerminalStates
    /\ verdict[r] = "timeout" => state[r] = "timed_out"
    /\ verdict[r] \in {"http_error", "raised", "shown_as_failed"} =>
         CASE reply[r].status \in {413, 422, 429} -> state[r] = "rejected"
           [] reply[r].status = 404 -> state[r] = "received"
           [] reply[r].status = 499 -> state[r] = "cancelled"
           [] reply[r].status = 504 -> state[r] = "timed_out"
           [] reply[r].status = 500 -> state[r] = "failed"
           [] reply[r].status = 503 -> state[r] \in {"received", "rejected", "failed"}

\* The counts agree: each request received is refused, under way or in exactly one
\* counter of outcomes; the load generator never exceeds its concurrency, and only
\* what it abandoned still runs behind its back.
LedgersAgree ==
  /\ LET atServer == {r \in Requests : handler[r] \notin {"none", "sent"}}
         refused  == {r \in atServer : state[r] = "received"}
         underway == {r \in atServer : state[r] \notin TerminalStates \cup {"received"}}
     IN  /\ received = Cardinality(atServer)
         /\ received = Cardinality(refused) + Cardinality(underway)
                       + MapThenSumSet(LAMBDA k : finished[k], TerminalStates)
         /\ underway \subseteq flight \cup Abandoned
  /\ Tracked => tracker.current = Cardinality(flight) /\ tracker.peak <= limit

\* The page has no timeout, and waits for ever for a handler that is never told.
WaitsForEver(r) == client = "page" /\ handler[r] = "stranded"

\* When its time is over, the program ends: each request sent gets its verdict, and
\* the open mode sends all that it offered.  The page ends unless the server has lost
\* what it waits for; the other programs have their timeouts.
EverySampled ==
  over ~> /\ over /\ \A r \in flight : WaitsForEver(r)
          /\ client = "open" /\ sequence > 0 => sequence = offered

\* benchmark.py:94: "Aggregate one benchmark scenario without hiding failed requests."
NoFailureHidden ==
  \A r \in Requests : client \in {"closed", "open"} /\ verdict[r] = "success" => state[r] = "completed"
=============================================================================
