------------------------------ MODULE Backtest ------------------------------
(***************************************************************************)
(* run_backtest: stored scans are replayed in time order, surebets that    *)
(* have lasted long enough are traded, and positions are paid out once     *)
(* their event is settled. Each signal of a scan is a step, because the    *)
(* settlement archive may be written by another process in the meantime.   *)
(***************************************************************************)
EXTENDS ArbitrageEngine, Sequences

CONSTANTS
  Markets,          \* event+market keys
  Commence,         \* Commence[m]: when the event of m starts
  Snapshots,        \* the sets of quotes a scan may have stored
  Configs,          \* configurations
  Void,             \* a recorded outcome that is none of those quoted
  None,
  InitialBankroll, StakePerOpportunity, SettlementDelay,
  Gaps,             \* bound: the times between two scans
  MaxScans,         \* bound: scans replayed
  ResultTimes,      \* bound: when an event may be recorded as settled
  MaxRecords        \* bound: writes to the settlement archive

Outcomes == { q.outcome : q \in UNION Snapshots }
Balances == [Books -> Nat \cup {Unlimited}]
Config   == [mode : {"guaranteed", "results"}, enforce : BOOLEAN, oneTrade : BOOLEAN,
             persistence : Nat, latency : Nat,
             explicit : SUBSET Books,       \* the books the mapping names
             available : Balances]          \* LiquidityBook.available

\* Positive amounts, a balance for every book the mapping names, and odds for
\* which the products with a slippage and a commission are whole tenths above 1.
ASSUME BacktestAssumption ==
  /\ None \notin Int /\ None \notin Books /\ IsFiniteSet(Markets)
  /\ Configs \subseteq Config
  /\ \A c \in Configs : \A b \in c.explicit : c.available[b] # Unlimited
  /\ {InitialBankroll, StakePerOpportunity} \subseteq Nat \ {0}
  /\ SettlementDelay \in Nat /\ MaxScans \in Nat /\ MaxRecords \in Nat
  /\ Gaps \subseteq Nat \ {0} /\ ResultTimes \subseteq Nat
  /\ Commence \in [Markets -> Nat]
  /\ Void \notin Outcomes
  /\ \A qs \in Snapshots : IsFiniteSet(qs)
  /\ \A q \in UNION Snapshots :
       /\ q.market \in Markets /\ q.book \in Books
       /\ {q.odds, q.expected} \subseteq Nat /\ q.age \in Int
       /\ (q.odds * (10 - Profile[q.book].slippage)) % 10 = 0
       /\ EffectiveOdds(q) > 10
       /\ ((EffectiveOdds(q) - 10) * (10 - Profile[q.book].commission)) % 10 = 0

VARIABLES
  config,      \* the configuration, and the static balances
  results,     \* settlement_results: the winner and settlement time of a market
  records,     \* how often results was written (bound)
  now,         \* scan_time
  scans,       \* per scan replayed: its time and the markets it signalled
  quotes,      \* the scan's quotes
  todo,        \* its signals still to be looked at, with their stakes
  qualifying,  \* qualifying_since
  cash,
  trades,      \* what was traded; the index of a trade is the position's seq
  active,      \* the positions not settled
  exposure,    \* current_exposure
  wallets      \* None: no wallet for this bookmaker

vars == <<config, results, records, now, scans, quotes, todo, qualifying, cash,
          trades, active, exposure, wallets>>
Inputs == <<config, results, records>>
Books_ == <<cash, trades, active, exposure>>

Init ==
  /\ config \in Configs
  /\ results = [m \in Markets |-> None]
  /\ records = 0
  /\ now = 0 /\ scans = <<>> /\ quotes = {} /\ todo = <<>>
  /\ qualifying = [m \in Markets |-> None]
  /\ cash = InitialBankroll
  /\ trades = <<>> /\ active = {}
  /\ exposure = [b \in Books |-> 0]
  /\ wallets = [b \in Books |->
                  IF b \in config.explicit THEN config.available[b] ELSE None]

Realistic == config.mode = "results"

---------------------------------------------------------------------------
(* One scan                                                                *)

\* The positions whose event is settled by time t.
Due(t) == { i \in active : trades[i].settleAt <= t }

\* What the trades took, gave back, and staked at a bookmaker.
Ids == DOMAIN trades
Capitals == [i \in Ids |-> trades[i].capital]
Returns == [i \in Ids |-> trades[i].return]
Outlays(b) == [i \in Ids |-> trades[i].outlay[b]]

\* (mutant) A position pays its return and gives its capital back.
Settled_CapitalToo(due) ==
  cash' = cash + SumFunctionOnSet(Returns, due) + SumFunctionOnSet(Capitals, due)

Settled(due) == cash' = cash + SumFunctionOnSet(Returns, due)

\* (mutant) Only the first position due is released.
Released_First(due) ==
  exposure' = [b \in Books |->
    LET first == { i \in due : \A j \in due : i <= j }
    IN  Max({0, exposure[b] - SumFunctionOnSet(Outlays(b), first)})]

Released(due) ==
  exposure' = [b \in Books |->
    Max({0, exposure[b] - SumFunctionOnSet(Outlays(b), due)})]

PaidAt(due, b) == SumFunctionOnSet(Returns, { i \in due : trades[i].payout = b })

\* Results mode: the winner's bookmaker is credited, and gets a wallet if it
\* had none.
Credited(due) ==
  wallets' = [b \in Books |->
    IF \E i \in due : trades[i].payout = b
    THEN (IF wallets[b] = None THEN 0 ELSE wallets[b]) + PaidAt(due, b)
    ELSE wallets[b]]

\* What find_arbitrage finds in a scan with the nominal stake, and the orders
\* in which it may return it.
Nominal(qs, m) == Surebets(qs, m, StakePerOpportunity, Unconstrained)
Found(qs) == { m \in Markets : Nominal(qs, m) # {} }
Orders(qs) ==
  { s \in [1..Cardinality(Found(qs)) -> Found(qs)] :
      /\ { s[i] : i \in DOMAIN s } = Found(qs)
      /\ \A i, j \in DOMAIN s :
           Precedes(BestOf(Nominal(qs, s[i])), BestOf(Nominal(qs, s[j]))) => i < j }

Signals == { [quotes |-> qs, found |-> Found(qs), orders |-> Orders(qs)] : qs \in Snapshots }

\* (mutant) A scan without any quotes is passed over.
Forgotten_NotByEmpty(qs, found) ==
  qualifying' = [m \in Markets |->
    IF qs = {} \/ m \in found THEN qualifying[m] ELSE None]

\* A market not signalled by the scan has to start over, and so have all if the
\* scan stored no quotes.
Forgotten(qs, found) ==
  qualifying' = [m \in Markets |-> IF m \in found THEN qualifying[m] ELSE None]

Scan(signals, t) ==
  /\ todo = <<>> /\ Len(scans) < MaxScans
  /\ now' = t /\ quotes' = signals.quotes
  /\ scans' = Append(scans, [at |-> t, found |-> signals.found])
  /\ active' = active \ Due(t)
  /\ Settled(Due(t)) /\ Released(Due(t)) /\ Credited(Due(t))
  /\ Forgotten(signals.quotes, signals.found)
  /\ todo' \in signals.orders
  /\ UNCHANGED <<trades, Inputs>>

---------------------------------------------------------------------------
(* One signal                                                              *)

FirstSeen(m) == IF qualifying[m] = None THEN now ELSE qualifying[m]

Lasted(m) == now - FirstSeen(m) >= config.persistence + config.latency

\* The checks before the opportunity is computed again, in the code's order:
\* persistence and latency, one trade per market, not started, cash, a result.
Tradable(m) ==
  /\ Lasted(m)
  /\ config.oneTrade => \A i \in DOMAIN trades : trades[i].market # m
  /\ Commence[m] > now /\ cash >= 1
  /\ Realistic => results[m] # None

\* ensure_wallet: the wallets after every bookmaker quoted in the scan has been
\* asked for.
Ensured ==
  [b \in Books |->
    IF /\ Realistic /\ config.enforce /\ wallets[b] = None
       /\ config.available[b] # Unlimited /\ \E q \in quotes : q.book = b
    THEN config.available[b] ELSE wallets[b]]

\* (mutant) The static balances, whatever is staked already.
ExecutionLiquidity_Static ==
  IF config.enforce THEN config.available ELSE Unconstrained

\* execution_liquidity_for: what may be staked at each bookmaker.
ExecutionLiquidity ==
  IF ~ config.enforce THEN Unconstrained
  ELSE IF Realistic
  THEN [b \in Books |-> IF Ensured[b] # None THEN Ensured[b] ELSE config.available[b]]
  ELSE [b \in Books |-> IF config.available[b] = Unlimited THEN Unlimited
                        ELSE Max({0, config.available[b] - exposure[b]})]

Allocation == Min({StakePerOpportunity, cash})
Executable(m) == Surebets(quotes, m, Allocation, ExecutionLiquidity)
Capital(stakes) == Cents(CashUsed(stakes))

WinningLeg(m, stakes) == { q \in DOMAIN stakes : q.outcome = results[m].winner }

\* The last refusals: too dear, a result that is none of the legs, a wallet
\* that does not cover its legs.
Fillable(m, stakes) ==
  /\ Capital(stakes) <= cash
  /\ Realistic => WinningLeg(m, stakes) # {}
  /\ Realistic /\ config.enforce =>
       \A b \in Books : Ensured[b] # None => Ensured[b] >= OutlayAt(stakes, b)

\* (mutant) Settled when the result says, even before the event is over.
SettleAt_ResultOnly(m) ==
  IF Realistic THEN results[m].settledAt ELSE Commence[m] + SettlementDelay

SettleAt(m) ==
  IF Realistic THEN Max({Commence[m] + SettlementDelay, results[m].settledAt})
  ELSE Commence[m] + SettlementDelay

Return(m, stakes) ==
  IF Realistic
  THEN LET win == CHOOSE q \in WinningLeg(m, stakes) : TRUE
       IN  Cents(NetReturn(win, stakes[win]))
  ELSE Capital(stakes) + Cents(GuaranteedProfit(stakes))

Trade(m, stakes) ==
  [market |-> m, firstSeen |-> FirstSeen(m), detected |-> now,
   settleAt |-> SettleAt(m), capital |-> Capital(stakes),
   return |-> Return(m, stakes),
   outlay |-> [b \in Books |-> OutlayAt(stakes, b)],
   payout |-> IF Realistic THEN (CHOOSE q \in WinningLeg(m, stakes) : TRUE).book
              ELSE None]

\* (mutant) The whole capital is taken from every wallet involved.
Debited_Capital(stakes) ==
  wallets' = [b \in Books |->
    IF Ensured[b] # None /\ Realistic /\ config.enforce /\ OutlayAt(stakes, b) > 0
    THEN Ensured[b] - Capital(stakes) ELSE Ensured[b]]

\* (mutant) Stakes leave the bankroll and not the wallets.
Debited_Never(stakes) == wallets' = Ensured

Debited(stakes) ==
  wallets' = [b \in Books |->
    IF Ensured[b] # None /\ Realistic /\ config.enforce
    THEN Ensured[b] - OutlayAt(stakes, b) ELSE Ensured[b]]

NextSignal(m) ==
  /\ todo # <<>> /\ m = Head(todo)
  /\ todo' = Tail(todo)
  /\ qualifying' = [qualifying EXCEPT ![m] = FirstSeen(m)]
  /\ UNCHANGED <<now, scans, quotes, Inputs>>

PassSignal(m) ==
  /\ NextSignal(m) /\ ~ Tradable(m)
  /\ UNCHANGED <<Books_, wallets>>

Rejected ==
  /\ wallets' = Ensured
  /\ UNCHANGED Books_

Traded(m, stakes) ==
  /\ cash' = cash - Capital(stakes)
  /\ trades' = Append(trades, Trade(m, stakes))
  /\ active' = active \cup {Len(trades) + 1}
  /\ exposure' = [b \in Books |-> exposure[b] + OutlayAt(stakes, b)]
  /\ Debited(stakes)

\* The opportunity is computed again for the cash and the balances of now, and
\* traded if it is still there and passes the last checks.
TrySignal(m) ==
  /\ NextSignal(m) /\ Tradable(m)
  /\ LET executable == Executable(m)
         stakes == BestOf(executable)
     IN  IF executable # {} /\ Fillable(m, stakes) THEN Traded(m, stakes) ELSE Rejected

\* save_settlement_result, by whoever maintains the archive; a later record
\* replaces an earlier one. Guaranteed mode does not read it.
RecordResult(m, winner, t) ==
  /\ Realistic /\ records < MaxRecords
  /\ records' = records + 1
  /\ results' = [results EXCEPT ![m] = [winner |-> winner, settledAt |-> t]]
  /\ UNCHANGED <<config, now, scans, quotes, todo, qualifying, Books_, wallets>>

Next ==
  \/ \E signals \in Signals, gap \in Gaps : Scan(signals, now + gap)
  \/ \E m \in Markets : PassSignal(m) \/ TrySignal(m)
  \/ \E m \in Markets, w \in Outcomes \cup {Void}, t \in ResultTimes :
       RecordResult(m, w, t)

Spec == Init /\ [][Next]_vars

---------------------------------------------------------------------------
(* The figures reported                                                    *)

Profits == [i \in Ids |-> trades[i].return - trades[i].capital]

LockedCapital == SumFunctionOnSet(Capitals, active)

ProjectedEquity == cash + SumFunctionOnSet(Returns, active)

RealizedProfit == cash + LockedCapital - InitialBankroll
ProjectedProfit == ProjectedEquity - InitialBankroll

---------------------------------------------------------------------------
(* Properties                                                              *)

\* Types; cash, wallets and positions never go below zero, which only the
\* chain of limits through engine, allocation and wallets ensures.
TypeOK ==
  /\ config \in Configs
  /\ records \in 0..MaxRecords
  /\ now \in Nat /\ Len(scans) <= MaxScans /\ quotes \in Snapshots \cup {{}}
  /\ \A i \in DOMAIN todo : todo[i] \in Markets
  /\ \A m \in Markets : qualifying[m] = None \/ qualifying[m] \in 0..now
  /\ cash \in Nat
  /\ active \subseteq Ids
  /\ exposure \in [Books -> Nat]
  /\ wallets \in [Books -> Nat \cup {None}]

\* The realised profit of the report is the profit of the trades settled so
\* far, and the projected one that of all trades: no money is made or lost
\* between cash, locked capital and payouts (lines 356-362).
ReportAddsUp ==
  /\ RealizedProfit = SumFunctionOnSet(Profits, Ids \ active)
  /\ ProjectedProfit = SumFunctionOnSet(Profits, Ids)

\* A trade is a surebet still after all rounding, whatever combination of
\* costs, caps and little cash it was computed from: it never pays less than it
\* took, whichever outcome wins.
SurebetNeverLoses == \A i \in Ids : trades[i].return >= trades[i].capital

\* The exposure at a bookmaker is the sum of the open positions' outlays there,
\* so that the max(0, ...) of the settlement loop never hides a difference.
ExposureIsOpenOutlay ==
  \A b \in Books :
    exposure[b] = SumFunctionOnSet(Outlays(b), active)

\* Guaranteed mode with limits enforced: positions open at the same time never
\* stake more at a bookmaker than its balance.
ExposureIsCovered ==
  config.mode = "guaranteed" /\ config.enforce =>
    \A b \in Books :
      config.available[b] # Unlimited => exposure[b] <= config.available[b]

Staked(b) == SumFunctionOnSet(Outlays(b), Ids)
Paid(b) == PaidAt(Ids \ active, b)
Limitless == { b \in Books : config.available[b] = Unlimited }

\* Results mode with limits enforced: a wallet is what it started with, less
\* every stake placed there, plus what it paid out for settled wins.
WalletsAddUp ==
  Realistic /\ config.enforce /\ Limitless = {} =>
    \A b \in Books :
      wallets[b] # None => wallets[b] = config.available[b] - Staked(b) + Paid(b)

\* "Cash outlays are removed from the corresponding bookmaker wallets and only
\* the winning leg's net return is credited back": the docstring says it of
\* results mode (backtest.py:105-107), with limits enforced or not.
OutlaysLeaveWallets ==
  Realistic =>
    \A b \in config.explicit :
      wallets[b] = config.available[b] - Staked(b) + Paid(b)

\* A trade's market was signalled without a break, and without an empty scan,
\* from when it was first seen until it was traded, and for at least the
\* persistence and the latency: the scans are the witness.
TradesPersisted ==
  \A i \in Ids :
    /\ trades[i].detected - trades[i].firstSeen >= config.persistence + config.latency
    /\ \E j \in DOMAIN scans : scans[j].at = trades[i].firstSeen
    /\ \A j \in DOMAIN scans :
         scans[j].at \in trades[i].firstSeen .. trades[i].detected =>
           trades[i].market \in scans[j].found

\* No trade is settled before its event can be over, and money in an open
\* position is not available: nothing is active beyond its settlement time.
SettledInTime ==
  /\ \A i \in Ids \ active : now >= Commence[trades[i].market] + SettlementDelay
  /\ \A i \in active : trades[i].settleAt > now \/ trades[i].detected = now
=============================================================================
