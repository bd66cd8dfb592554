---------------------------- MODULE RequestState ----------------------------
(***************************************************************************)
(* The explicit states of one inference request and the transitions that   *)
(* RequestContext.transition accepts (lifecycle.py).  Constant level only: *)
(* every other module of the request path extends this one.                *)
(***************************************************************************)

RequestStates ==
  {"received", "validated", "queued", "scheduled", "prefill", "decoding",
   "completed", "cancelled", "timed_out", "rejected", "failed"}

TerminalStates == {"completed", "cancelled", "timed_out", "rejected", "failed"}

\* The terminal states transition() accepts from every state that is not terminal.
ErrorStates == {"cancelled", "timed_out", "failed"}

\* The table _NEXT; a state it does not list has no ordinary successor.
NextStates ==
  [s \in RequestStates |->
     CASE s = "received"  -> {"validated", "rejected"}
       [] s = "validated" -> {"queued", "rejected"}
       [] s = "queued"    -> {"scheduled"}
       [] s = "scheduled" -> {"prefill"}
       [] s = "prefill"   -> {"decoding"}
       [] s = "decoding"  -> {"completed"}
       [] OTHER           -> {}]

\* transition(target) returns normally from state s; otherwise it raises
\* InvalidStateTransition and leaves the state alone.
CanTransition(s, target) ==
  /\ s \notin TerminalStates
  /\ target \in NextStates[s] \cup ErrorStates

\* A section of code that does not suspend calls transition() at most twice
\* for one request (queued -> scheduled -> prefill and
\* prefill -> decoding -> completed).
CanReachInOneSection(s, target) ==
  \/ CanTransition(s, target)
  \/ \E mid \in RequestStates : CanTransition(s, mid) /\ CanTransition(mid, target)
=============================================================================
