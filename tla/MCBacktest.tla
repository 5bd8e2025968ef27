---------------------------- MODULE MCBacktest ----------------------------
(***************************************************************************)
(* A small instance of Backtest for TLC: a match that starts late and one  *)
(* that starts early, and three bookmakers, one without costs, one with a  *)
(* commission, one with a stake fee, a fixed cost and a stake limit.       *)
(***************************************************************************)
EXTENDS Backtest, TLC

CONSTANTS late, early, b1, b2, b3

MCMarkets == {late, early}
MCBooks == {b1, b2, b3}
MCCommence == late :> 5 @@ early :> 3

Free == [fee |-> 0, commission |-> 0, slippage |-> 0, fixed |-> 0,
         minStake |-> 1, maxStake |-> Unlimited]
MCProfile == b1 :> Free
          @@ b2 :> [Free EXCEPT !.commission = 1, !.slippage = 1]
          @@ b3 :> [Free EXCEPT !.fee = 1, !.fixed = 2, !.minStake = 10, !.maxStake = 40]

Quote(m, o, b, odds, age) ==
  [market |-> m, outcome |-> o, book |-> b, odds |-> odds, age |-> age, expected |-> 2]

Home1 == Quote(late, "home", b1, 23, 0)
Away2 == Quote(late, "away", b2, 100, 9)
Away1 == Quote(late, "away", b1, 21, 1)
Away3 == Quote(late, "away", b3, 33, 0)
Dear3 == Quote(late, "away", b3, 19, 0)
Pair  == { Quote(early, "home", b2, 100, 0), Quote(early, "away", b1, 17, 0) }

\* Nothing; an outcome quoted by a price that is too old and one that costs eat
\* up; a choice of two away quotes, one at the bookmaker of the home quote; both
\* markets.
MCSnapshots ==
  { {}, {Home1, Away2, Dear3}, {Home1, Away1, Away3}, {Home1, Away3} \cup Pair }

Setup(mode, enforce, one, persistence, latency, explicit, available) ==
  [mode |-> mode, enforce |-> enforce, oneTrade |-> one, persistence |-> persistence,
   latency |-> latency, explicit |-> explicit, available |-> available]

Tight == b1 :> 60 @@ b2 :> 45 @@ b3 :> 30
Open  == [Tight EXCEPT ![b3] = Unlimited]

MCConfigs ==
  { Setup("guaranteed", TRUE, FALSE, 0, 0, {b1, b2}, Tight),
    Setup("guaranteed", FALSE, TRUE, 1, 1, {}, Unconstrained),
    Setup("results", TRUE, FALSE, 0, 0, {b1, b2}, Tight),
    Setup("results", TRUE, TRUE, 1, 0, {b1}, Open) }

\* Results mode with wallets but without limits.
MCUnenforced == { Setup("results", FALSE, TRUE, 0, 0, {b1, b2}, Tight) }
=============================================================================
