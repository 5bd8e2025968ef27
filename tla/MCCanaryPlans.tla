--------------------------- MODULE MCCanaryPlans ---------------------------
(***************************************************************************)
(* A small instance of CanaryPlans for TLC: two-leg plans, dear and cheap, *)
(* and one that no limit lets through.                                     *)
(***************************************************************************)
EXTENDS CanaryPlans, TLC

CONSTANTS dear, cheap, oversized

MCRuns == dear \cup cheap \cup oversized
MCLegs == [r \in MCRuns |-> 1 .. 2]

\* A hedge and a leg whose amount makes the plan dear, cheap or oversized.
Amount(r) == IF r \in dear THEN 2 ELSE IF r \in cheap THEN 1 ELSE 3
MCStake == [r \in MCRuns |-> <<1, Amount(r)>>]

\* Processes, and plans of one capital, are interchangeable.
Symmetry == Permutations(Procs) \cup Permutations(dear) \cup Permutations(cheap)
=============================================================================
