-------------------------- MODULE RequestLifecycle --------------------------
(***************************************************************************)
(* What the serving path promises about every request, whatever the order  *)
(* in which tasks, clients, deadlines and the backend act:                 *)
(*   - its state only moves along the transitions of lifecycle.py;         *)
(*   - the step that makes it terminal also resolves its result future     *)
(*     with that same outcome, unless its waiter already abandoned the     *)
(*     future, and counts the outcome once;                                *)
(*   - nothing about it changes afterwards.                                *)
(* RequestScheduler is shown to implement this specification.              *)
(***************************************************************************)
EXTENDS RequestState, Naturals, FiniteSets

CONSTANT Requests    \* the requests clients ever make

VARIABLES
  state,             \* state[r]: RequestContext.state
  result,            \* result[r]: "pending", the outcome, or "abandoned"
  finished           \* finished[k]: how many requests were counted as ending in k

vars == <<state, result, finished>>

Init ==
  /\ state = [r \in Requests |-> "validated"]
  /\ result = [r \in Requests |-> "pending"]
  /\ finished = [k \in TerminalStates |-> 0]

\* One request moves on, or is left alone.
Advance(r) ==
  \/ state'[r] = state[r] /\ result'[r] = result[r]
  \/ /\ CanReachInOneSection(state[r], state'[r])
     /\ result'[r] =
          IF state'[r] \in TerminalStates \ {"rejected"} /\ result[r] = "pending"
          THEN state'[r] ELSE result[r]

\* The task awaiting a future is cancelled, and the future with it.
Abandon(r) ==
  /\ state'[r] = state[r] /\ state[r] \notin TerminalStates
  /\ result[r] = "pending" /\ result'[r] = "abandoned"

NewlyIn(k) == {r \in Requests : state[r] # k /\ state'[r] = k}

Next ==
  /\ \A r \in Requests : Advance(r) \/ Abandon(r)
  /\ state' \in [Requests -> RequestStates]
  /\ result' \in [Requests -> TerminalStates \cup {"pending", "abandoned"}]
  /\ finished' = [k \in TerminalStates |-> finished[k] + Cardinality(NewlyIn(k))]

Spec == Init /\ [][Next]_vars
=============================================================================
