----------------------------- MODULE StepLoops ------------------------------
(* What the step loops of the two batching simulators share beside their lists. *)
EXTENDS StepLists

CONSTANT StepLimit    \* the 1_000_000 steps after which run() gives up

ASSUME LimitTyped == StepLimit \in Nat

None == -1            \* no step yet, or no request
=============================================================================
