--------------------------- MODULE MCShadowLoop ---------------------------
(***************************************************************************)
(* A small instance of ShadowLoop for TLC: a direct source with a daily    *)
(* limit, and an aggregator with a monthly one that also carries the       *)
(* direct source's operator.                                               *)
(***************************************************************************)
EXTENDS ShadowLoop, TLC

CONSTANTS p1, p2, direct, aggregator

\* A process by itself runs over two months; two side by side start in the
\* middle of a day and meet the next.
MCStart == <<0, 1>>
MCHorizon == <<4, 2>>
MCFaults == <<2, 0>>

FleetSymmetry == Permutations(Procs)

MCSources == <<direct, aggregator>>

Pace(hot, near, base) == "hot" :> hot @@ "near_event" :> near @@ "base" :> base

MCPolicy ==
  direct :>
    [enabled |-> TRUE, configured |-> TRUE, interval |-> Pace(1, 2, 2), retry |-> 1,
     dayLimit |-> 1, monthLimit |-> None, units |-> 1, maxAge |-> 1, rank |-> 2,
     operators |-> {"betfair"}] @@
  aggregator :>
    [enabled |-> TRUE, configured |-> TRUE, interval |-> Pace(1, 1, 3), retry |-> 1,
     dayLimit |-> None, monthLimit |-> 4, units |-> 2, maxAge |-> 2, rank |-> 1,
     operators |-> {"betfair", "snai"}]
=============================================================================
