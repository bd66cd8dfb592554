----------------------------- MODULE MCService ------------------------------
(* A small instance of LoadClients. *)
EXTENDS LoadClients

NoFault == [failLoad |-> FALSE, failGeneration |-> FALSE, failAfter |-> 0,
            memoryPressure |-> FALSE, unhealthyAfter |-> 0]

\* No fault, and each fault of the mock alone.
MCFaults ==
  {NoFault, [NoFault EXCEPT !.failLoad = TRUE], [NoFault EXCEPT !.failGeneration = TRUE],
   [NoFault EXCEPT !.failAfter = 1], [NoFault EXCEPT !.memoryPressure = TRUE],
   [NoFault EXCEPT !.unhealthyAfter = 1]}
=============================================================================
