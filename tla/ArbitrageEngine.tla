-------------------------- MODULE ArbitrageEngine --------------------------
(***************************************************************************)
(* The surebet engine: which combinations of quotes, one per outcome, pay  *)
(* more than they cost whatever the result, and what is staked on each     *)
(* leg. Money is in cents and odds, fees and commissions are in tenths.    *)
(* Decimal divisions are exact rationals here and only what the code       *)
(* rounds down is rounded down.                                            *)
(***************************************************************************)
EXTENDS Integers, FiniteSets, FiniteSetsExt, Functions

CONSTANTS
  Books,       \* canonical bookmaker names
  Profile,     \* Profile[b]: the cost profile of b
  MinNetRoi,   \* min_net_roi, in percent
  MaxAge,      \* max_quote_age_seconds
  Skew,        \* how far ahead of the scan a quote may be stamped
  Unlimited    \* no limit on a stake or a balance

CostProfile == [fee : 0..9, commission : 0..9, slippage : 0..5, fixed : Nat,
                minStake : Nat \ {0}, maxStake : Nat \cup {Unlimited}]

\* CostProfile's and BacktestConfig's Field constraints.
ASSUME EngineAssumption ==
  /\ Unlimited \notin Int
  /\ Profile \in [Books -> CostProfile]
  /\ MinNetRoi \in Nat /\ MaxAge \in Nat /\ Skew \in Nat

---------------------------------------------------------------------------
(* Odds                                                                    *)

EffectiveOdds(q) == (q.odds * (10 - Profile[q.book].slippage)) \div 10

NetReturnFactor(q) ==
  10 + ((EffectiveOdds(q) - 10) * (10 - Profile[q.book].commission)) \div 10

---------------------------------------------------------------------------
(* One combination: a set of quotes S, one for each outcome                *)

FixedTotal(S) == SumFunction([q \in S |-> Profile[q.book].fixed])

\* Rationals, as a numerator and a positive denominator.
Less(r, s) == r.n * s.d < s.n * r.d

FactorProduct(S) ==
  FoldFunction(LAMBDA x, y : x * y, 1, [q \in S |-> NetReturnFactor(q)])

\* The equal return on every leg of S that an amount of money buys there.
ReturnFor(money, S) ==
  [n |-> (money - FixedTotal(S)) * FactorProduct(S),
   d |-> SumFunction([q \in S |-> (10 + Profile[q.book].fee) * FactorProduct(S \ {q})])]

At(S, b) == { q \in S : q.book = b }
Limited(S, balance) == { b \in Books : At(S, b) # {} /\ balance[b] # Unlimited }

\* What the balance of a bookmaker allows, all its legs of S together.
BookCaps(S, balance) ==
  { ReturnFor(balance[b], At(S, b)) : b \in Limited(S, balance) }

StakeCaps(S) ==
  { [n |-> Profile[q.book].maxStake * NetReturnFactor(q), d |-> 10] :
      q \in { p \in S : Profile[p.book].maxStake # Unlimited } }

Stakes(S, bankroll, balance) ==
  LET caps == {ReturnFor(bankroll, S)} \cup StakeCaps(S) \cup BookCaps(S, balance)
      target == CHOOSE r \in caps : \A s \in caps : ~ Less(s, r)
  IN  [q \in S |-> (target.n * 10) \div (target.d * NetReturnFactor(q))]

\* In tenths of a cent: what a stake costs, and what it returns if it wins.
CashOutlay(q, stake) == stake * (10 + Profile[q.book].fee) + 10 * Profile[q.book].fixed
NetReturn(q, stake) == stake * NetReturnFactor(q)

CashUsed(stakes) ==
  SumFunction([q \in DOMAIN stakes |-> CashOutlay(q, stakes[q])])

GuaranteedReturn(stakes) == Min({ NetReturn(q, stakes[q]) : q \in DOMAIN stakes })
GuaranteedProfit(stakes) == GuaranteedReturn(stakes) - CashUsed(stakes)

Cents(tenths) == tenths \div 10
Outlay(stakes, q) == Cents(CashOutlay(q, stakes[q]))
OutlayAt(stakes, b) ==
  SumFunction([q \in At(DOMAIN stakes, b) |-> Outlay(stakes, q)])

\* There is money for the fixed costs, at each bookmaker and in all, ...
Affordable(S, bankroll, balance) ==
  /\ FixedTotal(S) < bankroll
  /\ \A b \in Limited(S, balance) : balance[b] > FixedTotal(At(S, b))

\* (mutant) The ROI before costs decides.
PaysEnough_Gross(stakes) ==
  LET staked == SumFunction(stakes)
      payout == Min({ stakes[q] * q.odds : q \in DOMAIN stakes })
  IN  100 * (payout - 10 * staked) >= MinNetRoi * 10 * staked

PaysEnough(stakes) == 100 * GuaranteedProfit(stakes) >= MinNetRoi * CashUsed(stakes)

\* ... and the rounded stakes are allowed and pay enough.
Acceptable(stakes, bankroll, balance) ==
  /\ \A q \in DOMAIN stakes : stakes[q] >= Profile[q.book].minStake
  /\ CashUsed(stakes) > 0 /\ CashUsed(stakes) <= 10 * bankroll
  /\ \A b \in Limited(DOMAIN stakes, balance) : OutlayAt(stakes, b) <= balance[b]
  /\ PaysEnough(stakes)

---------------------------------------------------------------------------
(* find_arbitrage                                                          *)

\* The quotes of one event+market that are neither stale nor from the future.
Group(quotes, m) ==
  { q \in quotes : q.market = m /\ q.age <= MaxAge /\ q.age >= - Skew }

\* The choices of one quote per outcome, if every outcome is quoted.
Combinations(group) ==
  LET outcomes == { q.outcome : q \in group }
  IN  IF group = {} \/ Cardinality(outcomes) # Max({ q.expected : q \in group })
      THEN {}
      ELSE { S \in SUBSET group : /\ Cardinality(S) = Cardinality(outcomes)
                                  /\ { q.outcome : q \in S } = outcomes }

\* What is found for market m: the stakes of every combination worth taking.
Surebets(quotes, m, bankroll, balance) ==
  { stakes \in { Stakes(S, bankroll, balance) :
                   S \in { T \in Combinations(Group(quotes, m)) :
                             Affordable(T, bankroll, balance) } } :
      Acceptable(stakes, bankroll, balance) }

\* The one with the highest guaranteed profit, to the cent.
BestOf(surebets) ==
  CHOOSE s \in surebets :
    \A t \in surebets : Cents(GuaranteedProfit(t)) <= Cents(GuaranteedProfit(s))

\* The order in which opportunities are returned: by ROI, then by profit.
Precedes(s, t) ==
  LET a == GuaranteedProfit(s) * CashUsed(t)
      b == GuaranteedProfit(t) * CashUsed(s)
  IN  a > b \/ (a = b /\ Cents(GuaranteedProfit(s)) > Cents(GuaranteedProfit(t)))

Unconstrained == [b \in Books |-> Unlimited]
=============================================================================
