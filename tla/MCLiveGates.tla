---------------------------- MODULE MCLiveGates ----------------------------
(***************************************************************************)
(* A small instance of LiveGates for TLC: two automatic venues, a policy   *)
(* file edited once, and plans that use one venue or both.                 *)
(***************************************************************************)
EXTENDS LiveGates, TLC

CONSTANTS p1, p2, betfair, betflag

MCVenues == <<betfair, betflag>>

Leg(venue, stake) == [venue |-> venue, stake |-> stake]
Quote(stake, deep) == [stake |-> stake, deep |-> deep]
Both(h, a) == "home" :> h @@ "away" :> a

\* The first plan is on both venues; the second has a manual leg, and betflag has
\* the money but not the depth to replace its leg at betfair.
MCPlans ==
  {[legs |-> Both(Leg(betfair, 4), Leg(betflag, 5)),
    quotes |-> betfair :> Both(Quote(4, TRUE), Quote(5, TRUE)) @@
               betflag :> Both(Quote(5, TRUE), Quote(5, TRUE))],
   [legs |-> Both(Leg("manual", 4), Leg(betfair, 5)),
    quotes |-> betfair :> Both(None, Quote(5, TRUE)) @@
               betflag :> Both(Quote(4, TRUE), Quote(6, FALSE))]}

MCSafe == 0 :> TRUE @@ 1 :> FALSE
MCMinimum == 0 :> 6 @@ 1 :> 6

\* One process certifies venues and commissions, the other is the monitor or
\* prepares, at the same time.
MCCommands == p1 :> {"certify", "commission"} @@ p2 :> {"monitor", "prepare"}
=============================================================================
