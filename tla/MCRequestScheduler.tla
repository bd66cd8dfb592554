------------------------- MODULE MCRequestScheduler -------------------------
(***************************************************************************)
(* Small instances of RequestScheduler for TLC.                            *)
(***************************************************************************)
EXTENDS RequestSchedulerProperties

CONSTANTS r1, r2, r3, r4

Every(value) == [r \in Requests |-> value]

\* Requests that may share a batch, one with other sampling settings.
SamplingOfLast(last) == [r \in Requests |-> IF r = last THEN "hot" ELSE "cold"]
R3Apart == SamplingOfLast(r3)
R4Apart == SamplingOfLast(r4)
SamplingAlike == Every("cold")

OneToken == Every(1)
TwoTokensForR1 == [r \in Requests |-> IF r = r1 THEN 2 ELSE 1]
TwoTokensForR3 == [r \in Requests |-> IF r = r3 THEN 2 ELSE 1]
SamePriority == Every(0)

\* r1 has the lowest priority and r3 the highest.
RisingPriority ==
  [r \in Requests |-> CASE r = r1 -> 0 [] r = r3 -> 2 [] OTHER -> 1]
=============================================================================
