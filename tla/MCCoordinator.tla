--------------------------- MODULE MCCoordinator ---------------------------
(***************************************************************************)
(* Small instances of the execution core for TLC. Betfair reconciles by    *)
(* customer reference, BetFlag does not.                                   *)
(***************************************************************************)
EXTENDS ExecutionOrders, TLC

CONSTANTS m1, m2, betfair, betflag, retail

MCMarkets == {m1, m2}
MCVenues  == {betfair, betflag}
MCRefVenues == {betfair}

Opp(m, l, v) == [market |-> m, live |-> l, venue |-> v]

\* Two automatic legs; a manual leg that prepare has to move to the front; a
\* manual leg hedged at the venue that cannot reconcile, on another market;
\* and a plan that prepare refuses.
SerialOpportunities ==
  { Opp(m1, TRUE, <<betfair, betflag>>), Opp(m1, TRUE, <<betfair, retail>>),
    Opp(m2, TRUE, <<retail, betflag>>), Opp(m1, TRUE, <<retail, retail>>) }

\* Two automatic legs, a manual leg, and a dry run.
ConcurrentOpportunities ==
  { Opp(m1, TRUE, <<betfair, betflag>>), Opp(m1, TRUE, <<betflag, retail>>),
    Opp(m1, FALSE, <<retail, betfair>>) }

\* One plan of two automatic legs, for two processes resuming it side by side.
TwinOpportunities == { Opp(m1, TRUE, <<betfair, betflag>>) }

\* Three outcomes: the case where two legs are left open, which no single
\* rescue order can close.
ThreeWayOpportunities ==
  { Opp(m1, TRUE, <<betfair, betflag, betfair>>),
    Opp(m1, TRUE, <<betfair, betflag, retail>>),
    Opp(m2, TRUE, <<retail, betflag, betflag>>),
    Opp(m1, FALSE, <<betflag, retail, betfair>>),
    Opp(m1, TRUE, <<retail, betfair, retail>>) }

LiveOpportunities ==
  { Opp(m1, TRUE, <<betfair, betflag>>), Opp(m2, TRUE, <<retail, betflag>>) }

\* Execution ids and processes are interchangeable; only runs without liveness
\* properties use this.
Symmetry == Permutations(Executions) \cup Permutations(Procs)
=============================================================================
