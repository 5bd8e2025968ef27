# Sportage in TLA+

Sportage finds arbitrage between bookmakers and, when told to, executes it: one
bet per outcome of a market, at different operators. No transaction spans two
bookmakers, so the program keeps a durable ledger and a state machine that tries
to end every run hedged, rescued, flat, or loudly stopped. Around that machine
stand the gates that let live risk in, the shadow loop that collects scans within
the budgets of its odds sources, and the back-test that replays them. This
directory models all four, checks them with TLC on small instances and proves
their safety properties with TLAPS for instances of any size.

All source paths below are relative to `src/src/arbengine/` unless they begin
with `src/`.

## 1. The system

### Components

| component | state it keeps | operations | status |
|---|---|---|---|
| execution coordinator (`execution_coordinator.py`, `execution_storage.py`) | five SQLite tables: runs, legs, events, market locks, the global halt | `prepare`, `confirm_manual_leg`, `resume` (with `_safe_submit`, `_rescue`, `_emergency`) | modelled |
| zero-exposure abort (`execution_abort.py`) | the same tables | `abort_if_flat` | modelled |
| operator commands (`execution_cli.py`, `execution_cli_v14.py`) | none | `prepare`, `confirm`, `resume`, `halt`, `resolve-emergency`, `abort`, `status` | partly |
| execution connectors (`connectors/execution.py`, `execution_health.py`, `betfair.py`, `betflag.py`) | circuit breakers, in memory, per process | `preflight`, `place_order`, `reconcile_order`, `cancel_order` | partly |
| canary guard (`canary.py`) | table of order attempts, unique by operator and reference | `assert_plan`, `authorize_order`, `finish_order` | modelled |
| venue certification (`venue_certification.py`) | a row per venue with its term | `certify`, `valid` | modelled |
| commissioning (`commissioning.py`, `commissioning_cli.py`) | stored reports with a fingerprint of the policy file | `run_commissioning`, the gate `assert_current_commissioning` | modelled |
| live readiness (`live_readiness.py`) | none | the rescue map over certified venues | modelled |
| account funds (`account_funds.py`) | snapshots of balances | `assert_live_funding`, `assert_order_funded` | partly |
| direct venue monitor (`direct_venue_monitor.py`, `direct_venues.py`) | a status table | its certifications, on a timer | partly |
| adaptive scheduler (`providers/scheduler.py`, `scheduler_storage.py`) | quote cache in memory, call and unit budgets in SQLite | `fetch_report`, `can_spend`, `record` | modelled |
| provider health (`providers/health.py`, `provider_health_storage.py`) | a report and a coverage per scan | `save_report` | modelled |
| shadow validation (`shadow.py`) | a scan in progress | `run_shadow_loop` | modelled |
| snapshot storage (`storage.py`, `scan_history.py`, `result_archive.py`) | scans, quotes, opportunities, the settlement archive | scan sessions, replay | partly |
| back-test (`backtest.py`, `liquidity.py`, `coverage_backtest.py`) | cash, wallets, open positions | one pass over stored scans | modelled |
| engine (`engine.py`, `costs.py`, `models.py`) | none | `find_arbitrage` | modelled |
| market signals (`market_signals.py`) | signals per scan | statistics of odds | partly |
| operations (`src/ops/`) | none | the shadow unit's restart and timed kill | partly |
| odds readers, sessions and catalogue, user interfaces | none of their own | HTTP, parsing, presentation | not modelled |

`PROJECT.json` lists every component with its sources, and the hazards with
their lines.

### How they interact

Each operator command is a process of its own. Processes share one SQLite file
and nothing else; every method of `ExecutionStore` commits by itself, so between
any two writes of a command other commands may run, and the process may die. A
resume walks over the plan's legs: for each one it builds a connector, and
`HealthTrackedExecutionConnector` asks the breaker, the venue's preflight, the
certification, the account funds and the canary before the order goes out. What
comes back goes to the ledger and decides the next move. The venues act on their
own: an order in their book may be matched or lapse at any time.

Before `prepare --live` inserts a run it asks, in this order, readiness (which
reads the certificates), the accounts, commissioning and the canary. The
certificates are written by an operator's command, by the monitor's timer and by
commissioning itself, and the policy file can be edited under all of them.

The shadow loop calls the scheduler, which calls the odds sources side by side
and charges them in a ledger that every process on the database shares; what it
answers is stored with the scan, in several commits. The back-test reads the
scans that ended well, and while it runs the settlement archive may be written.

### What is hard

Commands that interleave on one run; a crash between the venue's acceptance and
the ledger's record; an answer that is lost; a cancel that comes too late; an
operator who reports late, aborts or clears the halt at the wrong moment; a
partial match that looks like a full one; a rescue routed to the venue that has
just failed; two runs after the same market. A certificate whose checks took longer
than expected, or one recorded over a newer one; a policy file edited while
commissioning reads it; a run created while commissioning looks elsewhere. Calls
made and not yet charged when the process dies; a budget that rolls over within a
fetch; a ledger row written from an old reading; an answer too slow for the
cache; a scan cut off between two commits. A result that arrives while a trade is
open, is corrected, or settles a match that has not been played; wallets and
exposure over a long series of stakes and payouts.

What makes each component correct: for the coordinator and the abort, that final
statuses tell the truth, that no order is sent twice, that locks and the halt
hold; for the connectors, that a result never claims more than the venue holds;
for the canary, that no day exceeds its limits; for the gates, that nothing
expired, unchecked or overtaken lets a live run in; for the scheduler, that
budgets are kept, that nothing is charged that was not called, and that a quote
served is fresh enough; for the engine, that a surebet is one after all rounding;
for the back-test, that money is conserved; for scan storage, that an unfinished
scan is never replayed as a whole one.

## 2. The modules

- `VenueReplies` is the contract between the coordinator and the two official
  venues. It keeps what a venue really holds of an order (`Book`) apart from
  what the connector returns (`Result`). `PlaceReplies`, `LostBooks`,
  `ReconcileResults` and `CancelBooks` give the pairs that can occur: Betfair's
  status table, BetFlag's immediate-or-cancel with its swallowed cancel, the row
  Betfair's look-up reads, and BetFlag's look-up, which gets neither market nor
  order from the coordinator and so never finds anything.
- `ExecutionCoordinator` is the core: it EXTENDS the contract and models the
  commands, the ledger, the operators, the venues and crashes. It holds the
  properties and, marked `(mutant)`, the altered definitions that show that each
  property can be broken.
- `CanaryOrders` and `CanaryPlans` are the two halves of the canary guard, which
  share the clock and no table: orders asked of it just before a venue is called,
  and live runs created through it. They take apart what the core takes as one
  step, the check and the insertion, and let midnight fall in between.
- `OrderIntent` is the abstract specification of the core: what it promises about
  each single order, with no runs, commands or processes in it. `ExecutionOrders`
  is the refinement mapping (`Orders <- Key`, `claimed <- Claimed`, the rest by
  name) and the property `ImplementsOrderIntent`.
- `LiveGates` models what stands before a live run: certification, commissioning
  and `prepare --live` up to the insertion.
- `AdaptiveScheduler` models the scheduler and its ledger; `ShadowLoop` EXTENDS it
  with the scan that calls it, its commits, and how processes end and start.
- `ArbitrageEngine` is `find_arbitrage` as operators; `Backtest` EXTENDS it and
  replays scans.
- `MCCoordinator`, `MCCanaryOrders`, `MCCanaryPlans`, `MCLiveGates`, `MCShadowLoop`
  and `MCBacktest` give TLC its instances.
- `ExecutionCoordinatorProofs`, `ExecutionOrdersProofs`, `CanaryOrdersProofs`,
  `CanaryPlansProofs`, `LiveGatesProofs`, `ShadowLoopProofs` and `BacktestProofs`
  hold the theorems about the module each is named after; `SumTheorems` has what
  they need to know about sums and products over finite sets.

### State and actions

| variable | code |
|---|---|
| `runStatus`, `plan` | `execution_runs.status`, `.plan_json` |
| `legs[e][l]` | `execution_legs`; leg 0 is the rescue leg `R1`; status and matched stake |
| `lock[m]` | `execution_locks` |
| `halted` | `execution_control.halted` |
| `attempts` | `canary_order_attempts`, unique by operator and reference |
| `pc[p]`, `job[p]` | where a command is and what its process remembers, its breakers included |
| `book`, `sent` | outside the program: what the venues hold, how often an order was submitted |
| `confirmed`, `neutralised` | outside the program: what operators reported or closed by hand |

A step of a command is one database write or one venue call, with the
computation before it. `resume` is `ResumeLoad` (the run's row), `ResumeHalted`
or `ResumeChecked` (the halt), `ResumeMark`, then per leg `SkipLeg` or
`SubmitLeg`, the steps of `_safe_submit` (`PreflightOk`, the gates,
`CanaryAuthorized`, `Send` or `SendRaises`, `Reconcile`, `CancelRemainder`,
`Requery`), `Save`, and at the end `LegsDone`, or `Orphan` and one of the four
routes of `_rescue`, then `Settle`, `SetHalt` and `ReleaseLock`. `prepare` is
`PrepareStart` to `PrepareLeg`, with `PrepareUndo` for its `except` branch. The
abort is one action since the code wraps it in one IMMEDIATE transaction. The
rows of `execution_events` are an audit log nothing reads back and are left out.

In the canary's modules a process enters with the start of the day in a local
variable (`AuthorizeOrder`, `AssertPlan`), passes or fails the query and its
comparisons (`OrderAllowed`, `OrderRefused`, `PlanAllowed`, `PlanRefused`), and
inserts with the time of the insertion (`InsertAttempt`, `Duplicate`,
`CreateRun`). `attempt` is `canary_order_attempts`, `run` the live rows of
`execution_runs`, `day` the UTC day. `EndRun` is any `update_run` to a terminal
status. A terminal status is not the end of a run: `ReopenRun` is the write over it
of a late `confirm_manual_leg` (`execution_coordinator.py:335`, `346`), or of a
resume whose check came before (`450`), and what `assert_plan` counts as active then
grows without having been asked. Amounts are integers; every comparison with a limit is kept.

`LiveGates` has the shared tables `cert` (`venue_certifications`), `report` (the
last row of `commissioning_runs`) and `runs` (live rows of `execution_runs`, whether
active, and since when; `EndRun` and `ReopenRun` as in the canary), the policy file as a `version`, and per process its place
(`task`) and local variables (`probe`, `local`). `StartCertify`, `Probe` and
`RecordCertificate` are `certify`; `StartCommissioning` to `RecordReport` are
`run_commissioning` check by check, calling the same certification when it
refreshes; `CheckReadiness`, `ReadAccount`, `PassFunding`, `PassCommissioning`
and `CreateRun` are `prepare --live`. `Stop` is any refusal, exception or crash.
A step ends wherever a remote call is made.

`AdaptiveScheduler` has the `ledger` (`scheduler_source_state`), a `cache` and a
`tick` per process, and the history `calls`, which counts what was really asked
of each source. A tick is `BeginTick`, then per source `SkipSource`,
`TakeSource` or `BlockSource` with `RecordBlocked`, the calls (`FetchOne`, each
ending at its own time), `Collect`, and per source called `ReadLedger` and
`WriteLedger`, the two halves of `record`. `ShadowLoop` adds `scan` (the row of
`scans` and what is stored with its id) and `loop`: one action for each commit of
a cycle (`StartScan`, `SaveReport`, `SaveQuotes`, `SaveOpportunities`,
`SaveSignals`, `Complete`), and `Raise`, `RaiseInserting`, `Fail`, `Kill`,
`Restart`.

`Backtest` has the variables of `run_backtest` under their names (`cash`,
`active`, `exposure` for `current_exposure`, `wallets`, `qualifying` for
`qualifying_since`), the archive `results`, and `trades` and `scans` as history.
`Scan` settles what is due and forgets markets that were not signalled;
`PassSignal` and `TrySignal` look at one signal each, the second computing the
opportunity again for the cash and balances of now; `RecordResult` is another
process writing the archive between two signals.

### What is abstracted

- Stakes are 0, 1 (a part) and 2 (all). Every comparison of the control flow is
  among these: nothing matched, something, at least the requested stake.
- Odds, costs, profit and depth appear as their outcomes: `prepare` may be
  refused, `_rescue` may find no route (`RouteImpossible`), and any open breaker
  excludes its venue. `RouteCovered` is the case where every outcome already
  has a return.
- Certification and account funds are one gate that may refuse; the canary's
  liability limits are a refusal that may happen there, its daily count and its
  unique index are modelled. `CanaryOrders` has the limits in full.
- In `LiveGates` a plan gives for every quote the stake that pays its payout at
  stressed odds, and whether there is depth for it. Balances, buffer and ceiling
  are computed.
- The scheduler's unit of time is five seconds, the skew that `_fresh_cache`
  tolerates. The pace of the market (`hot`, `near_event`, `base`), which follows
  from odds and kick-off times, is an input, and so is whether a scan finds
  something. A quote is the time at which it was observed.
- The engine counts money in cents and odds and fees in tenths. Where the code
  divides decimals it uses exact rationals, and rounds down where the code does;
  the assumptions of `Backtest` pick odds whose products stay whole.

## 3. Assumptions

- The canary policy is enabled, as shipped, and `SPORTAGE_LIVE_EXECUTION` is on.
  With the canary off there is no unique index, and nothing in the code stops a
  second submission of a reference.
- A breaker's cooldown (60 s by default) does not end within one command, and a
  command does not span midnight UTC.
- Betfair's look-up knows the order by its `customerOrderRef` or does not list it.
- BetFlag's answer echoes the size that was asked for.
- In the core, counting the day's attempts and inserting the new one is one step;
  it is two in the code, and in `CanaryOrders`. No property of the core depends on
  the count; that the row is there before the order is sent, and that one process
  at a time sends it, is `RecordedFirst` there.
- An exception out of `preflight`, `reconcile_order` or `cancel_order` ends the
  command where it is; the model has it as `Crash`.
- `FillOrKill` is `ExecutionPolicy.require_full_fill_exchange` (on by default).
  `PromptCancel = TRUE` means that a cancel takes the whole remainder and that
  nothing is matched meanwhile; it is the venues' good behaviour, not the code's.
- `Liberties` names what operators may do that the procedure asks them not to
  and that no code prevents: abort or resolve a run a command works on, abort
  without reporting a bet they have placed, report on a leg that no longer
  waits for it (a second report, or one on a run that has ended), clear the halt
  while another run is in emergency. `{}` is an operator who keeps to the procedure,
  any larger set adds behaviours.
- `LateReports = TRUE` lets Betfair's report of a placement be no success, a TIMEOUT
  say, for an order that is in the book all the same. The connector takes each such
  report as a rejection and keeps its matched size (`connectors/betfair.py:301-328`).
  `FALSE` means that only orders that did not arrive are reported so; it is Betfair's
  good behaviour, not the code's.
- An operator reports the amount really taken, and it is positive if accepted.
- Two live runs at a time need `max_active_live_executions` above its default of
  1, or a run left from an earlier day.

- In `LiveGates` every gate is enabled and all is in production; certificates for
  staging are accepted by no gate and left out. A policy file that is edited does
  not return to an old text.
- The shadow loop attaches the database's ledger (`shadow.py:49-51`). It is killed
  by an operator, by systemd every six hours, or by a crash; `KeyboardInterrupt`
  is not caught, so that a scan interrupted stays `running`. `MaxFaults` counts
  exceptions and kills.
- Two shadow processes on one database make one scan each, a single one as many
  as its time allows.

**Fairness.** `FairSpec` asks weak fairness of each process's own next step: a
command that is running goes on, since it is straight-line code whose calls have
timeouts and whose loops are bounded by the legs and by
`max_reconcile_attempts`. Nothing is asked of operators or venues. Only
`ResumeSettles` needs it; the other modules state safety only and no fairness.

## 4. The runs

The coordinator's runs fix two venues, Betfair and BetFlag, and up to two markets.
Only Betfair reconciles by reference, except in `CoordinatorConcurrent`, where
both do so that two resumes meet on every path.

| run | instance | properties | distinct states |
|---|---|---|---|
| `CoordinatorSerial` | 1 run, 1 process, 3 legs, fill-or-kill, prompt cancel, no crash | `AbortedIsFlat`, `CompletedIsHedged`, `RescuedIsCovered`, `LedgerIsTruthful`, `RescueAvoidsFailedVenue`, `ResumeSettles` | 5.5 thousand |
| `TwoRuns` | 2 runs, 1 process, 2 legs, two markets | `ActiveRunHoldsLock`, `EmergencyHalts`, `EmergencyIsSticky` | 0.9 million |
| `CoordinatorConcurrent` | 1 run, 2 processes resuming it side by side, 2 automatic legs, partial fills | `TypeOK`, `AtMostOnePlacement`, `LedgerNeverOverstates` | 1.9 million |
| `CoordinatorDegraded` | 1 run, 1 process, 1 crash, late cancels, late reports, all liberties | `OrdersAreArmed`, `RescueNeedsExposure`, `ImplementsOrderIntent` | 1.2 million |
| `CanaryOrders` | 2 processes, 5 orders of two sizes, 2 days, crashes | `SendingIsRecorded`, `AttemptBudget`, `LiabilityBudget` | 49 thousand |
| `CanaryPlans` | 2 processes, 6 plans of three sizes, 2 days, crashes | `PreparationBudget`, `CapitalBudget`, `ActiveBudget` | 11 thousand |
| `LiveGates` | 2 processes, 2 venues, 2 plans, a policy file edited once, clock to 2, 1 live run at a time | `TypeOK`, `CertificateIsRecent`, `CommissionedConfigWasChecked`, `NoRiskPredatesItsCommissioning`, `PlanSurvivesOneFailure` | 2.7 million |
| `ShadowLoop` | one process over two months, or two over one midnight; 2 sources, 1 operator in both | `TypeOK`, `NeverOvercharged`, `BudgetsKept`, `ReplayableIsWhole`, `ReceiptNeverOverstates`, `CoverageVouches` | 0.8 million |
| `Backtest` | 2 markets, 3 bookmakers, 4 configurations, 3 scans, 2 writes to the archive | `TypeOK`, `ReportAddsUp`, `SurebetNeverLoses`, `ExposureIsOpenOutlay`, `ExposureIsCovered`, `WalletsAddUp`, `TradesPersisted`, `SettledInTime` | 0.1 million |

What they show: in the world the protocol is written for (serial), an aborted run
is flat, a completed one is fully hedged, a rescued one covers every outcome
exactly once, the ledger tells what the venues hold, and a resume comes to an
end. Locks and the halt survive any order of commands on two runs. Two resumes
side by side send nothing twice, and the reason is the canary's index alone; nor
does either write more into the ledger than a venue holds, with orders matched in
part and looked up.
When everything degrades, a crash included, no order goes out for a dry run or ahead
of the manual leg, no rescue is bought against nothing, and every order keeps to
`OrderIntent`: recorded, then submitted once, its matched part never shrinking, and
never claimed beyond it, whence the ledger claims no more than the venues hold.

The canary checks and then inserts, without a transaction around both, so its
limits are not absolute when commands run side by side: each process beyond the
first may overrun a daily limit once. That this is all that can go wrong with
attempts, liability, preparations and capital, at midnight too, is what the two
canary runs show, and with one process these limits hold exactly. The limit on active
runs does not: a run that had ended and is reopened takes a slot that nobody
checks. `ActiveBudget` allows for the runs of the day that were reopened and for
nothing else.

`LiveGates`: whatever is certified, commissioned and prepared side by side, a
valid certificate rests on checks that are younger than its term; a commissioning
that lets a run in has read one version of the policy file, a safe one, the one
in force; when a run is inserted under it, no run is active that has been so since
before its start, so that an older one among them had ended and was reopened
since; and a plan that is inserted has, for each automatic venue it uses, another
that could pay its own legs and the lost ones.

`ShadowLoop`: with the database to itself, a shadow process keeps to the daily
and monthly limits across midnights, months and restarts, but for the calls of
one tick per exception or kill, which were made and never charged. Several
processes may write over each other's charge, but never charge what was not
called. A scan that a back-test reads is whole, whatever was killed or raised
before; a failed one claims no more than it stored; and the coverage by which a
scan is selected is that of quotes fresh at its start.

`Backtest`: cash, locked capital and reported profits agree with the trades; no
trade can lose, after all rounding, costs and caps; exposure is the sum of what
is open and stays covered; wallets are what was there, less stakes, plus payouts;
a trade's market was signalled without a break for the time asked; nothing is
settled early or left open late, whatever is corrected in the archive before and
after it was traded on.

Bounds. One run is enough for what a run does to itself, and since runs share
only the lock, the halt and the canary's count, two are enough for what one does
to another. Two legs give every shape of a hedge; three legs add the case of two
open outcomes, which no single rescue closes, and the exact cover of
`RescuedIsCovered`. `MaxAttempts` is 2 or 3 where the limit has to bite and 8
where it must not. In the canary's runs every limit is reached and overrun
exactly as far as its property allows, with rows to spare. Two days are one
midnight; a row of two days ago counts like one of yesterday. One crash
separates a write from the next; a second one would only repeat it on the retry.
Fill-or-kill is on but for `CoordinatorConcurrent`, where both venues answer as
Betfair does. It binds Betfair only: in `CoordinatorDegraded` it is BetFlag's orders
that are matched in part, rest, and are cancelled too late. The theorems below
have both at once.

In `LiveGates` every term is 1 unit of a clock that goes to 2, so that a check can
outlast it; one process certifies or commissions while the other is the
monitor or prepares; the second version of the policy is unsafe; one plan uses both
venues, the other one of them and a manual leg, for which the other venue has the
money and not the depth; balances lie on either side of every reserve; the one run
ends, is reopened, or makes room for another. In `ShadowLoop` a
day is 2 units and a month 4, the horizon is both of a day and a month, one
source has a daily limit and the other a monthly one that two calls reach, and
two faults are one before and one after a restart. In `Backtest` the bookmakers
have between them every kind of cost and cap, the scans include an empty one, a
stale quote and a choice of legs, three scans at gaps of 1 and 3 are enough to trade,
settle, trade on with what came back and settle that, and the archive is written
twice: a match is settled, declared void, corrected or never recorded, before or
after it can be over.

`CHECK_DEADLOCK` is off only in the runs of `ShadowLoop` and `Backtest`, which
end with their clock or their last scan. In the coordinator's runs an operator can
always halt, so it says little, and `ResumeSettles` is what rules out a command that
is stuck.

### Where code and protocol disagree

Three runs look for a counterexample to a sentence of the repository and find one
within seconds:

| run | sentence | what happens |
|---|---|---|
| `HaltRace` | "Never submit a new live order when the global execution halt is active." (`src/docs/EXECUTION_PROTOCOL.md:7`) | the halt is read once, before the loop |
| `CrashRetry` | "An `UNKNOWN` placement is reconciled before any retry" (`src/docs/EXECUTION_PROTOCOL.md:10`) | after a crash the leg is resubmitted, refused, and the run recorded flat although the order was matched |
| `BacktestWallets` | "Cash outlays are removed from the corresponding bookmaker wallets and only the winning leg's net return is credited back" (`backtest.py:105-107`) | without enforced limits wallets are credited (188-192) and never debited (326-331) |

`CrashRetry` states a property that `CoordinatorSerial` checks as well
(`AbortedIsFlat`): it holds without crashes and fails with one, which is what the
assumption is worth. `WalletsAddUp` is the part of the third sentence that holds.

Eight more were met while modelling. The models contain the behaviour, and the
properties of the passing runs are stated, or checked under conditions, so that they
do not depend on it:

- `src/docs/EXECUTION_PROTOCOL.md:20` asks for manual reconciliation of an
  emergency. `resolve-emergency` asks for no status of the run it is called with, and
  once it has cleared the one halt (`execution_cli.py:381`), resuming another run in
  emergency is not refused (`execution_coordinator.py:422`). `EmergencyIsSticky` is
  checked without that liberty.
- Line 81 has both legs confirmed as matched before a run is completed. Without
  fill-or-kill, an order that lost its remainder is looked up as accepted
  (`betfair.py:352`), and the run is completed with a part of a leg.
  `CompletedIsHedged` is checked with fill-or-kill.
- Line 9 has a timeout `UNKNOWN`, "never automatically `REJECTED`". Betfair's report
  of a placement is taken as a rejection whenever it is no success, a TIMEOUT
  included (`betfair.py:304`), and is not looked up (`execution_coordinator.py:381`).
  The row then says too little, and only that: `ImplementsOrderIntent` is checked
  with such reports, what final statuses promise without them.
- Line 8 allows one active lock on a market. An abort that falls between a
  resume's check and its write (`execution_coordinator.py:450`) frees the lock
  while the resume goes on. `ActiveRunHoldsLock` is checked without that liberty.
- `src/docs/CANARY.md:16` limits the live executions that are active at the same
  time. A late confirmation makes a run active that had ended and whose slot has
  gone to another one (`execution_coordinator.py:335`, `346`); so does a resume that
  raced an abort. `ActiveBudget` has these runs on top.
- Nor is a run still open at midnight counted the next day (`canary.py:142`).
  `ActiveBudget` is about the runs of one day.
- `src/docs/SCHEDULER.md:26` says that restarting does not reset the counters. In
  `scan` and `resume` the scheduler keeps its ledger in memory
  (`execution_cli.py:289`); the shadow loop, which is modelled, does not.
- A call that takes more than five seconds is charged, and its quotes are dropped
  as too far in the future (`providers/scheduler.py:165-172`), since the age is
  taken from the start of the tick. `Fresh` has this.

## 5. What is proved

Every safety property that a passing run checks is stated by a theorem, for every
value of the constants that the modules' assumptions allow. All but eight
have no other hypothesis; eight of the core, which the code grants only under
conditions, name these conditions, and they are those of the run that checks
the property.

### The execution core

`ExecutionCoordinatorProofs` assumes `CoreAssumption` and `VenueAssumption`
only: any number of runs, markets, venues, processes, legs, crashes, any set of
opportunities, any liberties.

- **`TypeCorrect`**: `Spec => []TypeOK`. `TypeOK` is not inductive: `Save` writes
  the row `job.slot` and moves the loop on, so one has to know that a command at
  work has a run, that its loop index is a leg's when it prepares one, and that
  the order in hand is that leg's or the rescue, at an automatic venue. `Sound`
  says this of each process; `TypeInv` adds it. There is a lemma per group of
  actions, over four lemmas about how a step moves its process.
- **`AtMostOnce`**: `Spec => []AtMostOnePlacement`. The invariant `OnceInv` says
  that what was sent is on the canary's record; that a process about to submit
  has its row there and that order has not been sent; and that no two
  processes are about to submit the same one. Every action but three is "calm":
  it touches neither the record nor the count nor who is about to submit.
- **`OnlyArmed`**: `Spec => []OrdersAreArmed`. A run's status tells that its
  manual leg was reported; a command that read such a status may go on to
  submit; the status a command is about to write must keep telling it. `ArmedInv`
  says all three, and survives late confirmations and aborts under a running
  command.

`ExecutionOrdersProofs` builds on these three, with the same assumptions only.

- **`NeverOverstates`**: `Spec => []LedgerNeverOverstates`. A row is written from a
  result that a process carries since the venue's answer, while the venue goes on
  matching and other processes write. The invariant is `OrderInv`: the types and
  `OnceInv`, with `RunInv` (which runs have rows, and that their plans are sorted),
  `BookInv` (a venue that was not asked holds nothing) and `ClaimInv` (a result on
  its way to the ledger is covered by the book and is that of the plan's own
  order). `HonestReplies` says that no reply of the contract claims more than the
  book it comes with; `BooksGrow`, that a book never shrinks.
- **`RescuesFollowExposure`**: `Spec => []RescueNeedsExposure`. `ExposureInv` adds
  to `OrderInv` that a manual row with a stake was reported by an operator, and
  that a process with a rescue in hand works on an exposed run; exposure never
  ends.
- **`Implements`**: `Spec => ImplementsOrderIntent`. Initial states map to initial
  states (`IntentInit`), and under `OrderInv` every step maps to a step of one
  order or to a stutter (`IntentStep`): the canary's row to `Authorise`, `Send`
  and `SendRaises` to `Submit`, a cancel and the venue's own moves to `Match`, an
  operator's bet to `BetByHand`, and every write of a leg's row to `Claim`, for
  which `ClaimInv` is needed.

The other eight theorems of these two modules carry a hypothesis on the constants.
`Serial` says that there is one command at a time, that none dies, and that
operators keep to the procedure: they confirm, abort, resolve and clear the halt when
it asks for it. `Orderly` adds that orders are filled or killed, that a cancel comes in time, and
that a failure is reported only of an order that did not arrive. These are real conditions: `CrashRetry` breaks `AbortedIsFlat` with a
crash, and section 4 tells what a late abort does to the lock, a halt cleared early
to an emergency, and an order cut short to a completed run. Which theorem needs which
part of them is not settled (section 6). The number of runs, legs, venues and
markets, the plans and the venues' replies stay arbitrary.

- **`LockHeld`**, **`HaltSet`**, **`StaysInEmergency`**: `Serial` implies that `Spec`
  keeps `ActiveRunHoldsLock`, `EmergencyHalts` and `EmergencyIsSticky`. Not inductive
  by themselves: a command that frees a lock must have ended its run, and one that
  clears the halt must leave no other run in emergency. `Guarded` says, of each
  place of a command, that it holds its run's lock while it may write a status, that
  it does not work on a run in emergency, and what has been settled when it is about
  to give the lock or the halt back; `GateInv` joins it with the two invariants.
- **`AbortsAreFlat`**, **`CompletesHedged`**, **`RescuesCover`**, **`LedgerTells`**,
  **`RescuesAvoidFailed`**: `Orderly` implies the five properties that
  `CoordinatorSerial` checks. What a final status promises rests on everything its
  command has learnt since it read the run, so the invariant `SerialInv` has two
  halves. `Standing` gives, for each status, what rows and books of a run at rest
  look like (`Fits`). `Working` gives what a command knows at each of its steps: on
  its way to the orders (`Coming`), in the loop, where every earlier leg has a row
  that tells its book and a refused one has opened its venue's breaker (`Looping`),
  in a rescue, where one outcome is missing and nothing was bought for it yet
  (`Rescuing`), of the order in hand (`InHand`), and with a verdict (`Leaving`).
  `KeyInv` says at which venues a run can have orders at all. A step touches one run,
  so the lemmas `Keeps...` carry `Standing` over for the others, `Suffices` reduces a
  step to the place where it leaves its own run, and a lemma per group of actions
  (`Leaves...`) does that.

### The gates

`CanaryOrdersProofs` and `CanaryPlansProofs` assume that limits are positive and
that tables and processes are finite: any orders, plans, amounts and number of
processes and days.

- **`AttemptsBounded`**, **`PreparationsBounded`**, **`ActiveBounded`**: the daily
  limits with one unit of slack per further process. The budget alone is not
  inductive. `RoomToday` adds the processes that have passed the check and not
  yet inserted: today's rows and they together stay below the limit plus the
  number of processes. A process that passes saw fewer than the limit of today's
  rows, even if it began yesterday, for then it counted yesterday's as well; an
  insertion moves one unit from one side to the other; midnight empties the
  rows. Every other step is "calm", by one lemma. `ActiveBounded` is proved for the
  runs that never ended and holds with the reopened ones on top: a reopening adds
  to both sides.
- **`RecordedFirst`**: `Spec => []SendingIsRecorded`, by itself inductive with the
  types.

- **`LiabilityBounded`**, **`CapitalBounded`**: the same for amounts, with one
  largest order or plan of slack per further process. `RoomForLiability` and
  `RoomForCapital` add what those that have passed will insert to the day's sum;
  `PassedSizes` keeps the largest size a bound of what has passed. Insertion moves
  one summand from one sum to the other (`SumTheorems`).

`LiveGatesProofs` assumes `VenuesAssumption` and `GatesAssumption`: a list of
distinct venues that is not empty, two outcomes, any plans, balances, terms, policy
versions and number of processes.

- **`CertificatesRecent`**, **`ConfigChecked`**, **`NoOlderRisk`**,
  **`OneFailureSurvived`**, with **`TypeCorrect`**: the four properties of the gates.
  Each is about what a process read some steps ago, so `GatesInv` says of every
  place what the local variables there vouch for. `CertificatesInv`: a certification
  began before its first check, whoever writes the row last. `CommissionInv` and
  `ReportInv`: a commissioning's fingerprint, if it is still that of the file, is
  that of the one version it has read since, a safe one, and no run has been active
  since before its start; the file never goes back to an old version. `PrepareInv`: of
  a preparation at its i-th account, that the earlier balances are read; past the
  reserve, that the plan survives each failure with the balances it has seen.

### The shadow loop

`ShadowLoopProofs` assumes `SchedulerAssumption`, `NoneAssumption` and
`ShadowAssumption`: any sources and policies, days and months, fleets and faults.

- **`NeverCharged`**: `Spec => []NeverOvercharged`. The ledger is written from an
  old reading while other processes charge the same source. `HonestInv` says that
  each row, and each reading on its way to be written, charges no more than the calls
  made that day and month less those that ticks still owe (`Covers`): a writer pays
  its own debt with what it adds, so its write is covered even when it overwrites
  another's.
- **`KeepsBudgets`**: `Spec => []BudgetsKept`. `BudgetInv` is about a process that
  has the database to itself: the row of the ledger and what the tick still owes
  account for all calls of the day but one tick's for each fault; and a source that is
  due had room when it was taken, of the row that is still there when it is written.
- **`ReplaysWholeScans`**, **`ReceiptsAreModest`**, **`CoverageIsFresh`**, with
  **`TypeCorrect`**: `ScanInv` says of each stage of a cycle which commits of its scan
  are in the archive, and of the cache that what it holds is no newer than the tolerated
  skew allows, which is what coverage is computed from.

### The back-test

`BacktestProofs` assumes `EngineAssumption` and `BacktestAssumption`: any markets,
bookmakers, costs, quotes, configurations, gaps between scans and number of them. Beyond
what types ask, the assumptions say that snapshots are finite, that a limit set
explicitly is a number, and that quotes pay more than they take and do so in whole
units.

- **`NeverLoses`**, **`SettlesInTime`**, with **`TypeCorrect`**: `TypeInv` and
  `TradesInv`. What `find_arbitrage` keeps has a positive profit after rounding, caps
  and fixed costs, for any set of quotes; no cash or exposure goes below zero since an
  opportunity is computed again for what is left.
- **`ReportCorrect`**, **`ExposureCorrect`**, **`ExposureBounded`**: `CashInv`. Cash
  is what there was, less the capital of all trades, plus the returns of the settled
  ones; exposure is the sum of the open outlays, so that the code's `max(0, ...)`
  cuts nothing off.
- **`WalletsCorrect`**: `WalletsInv` says that a bookmaker without a wallet
  has no stake and pays nothing out, whence each wallet's sum.
- **`TradesLasted`**: `ScansInv` says that a market waiting to qualify was in every
  scan since it was first seen, which a trade then inherits.

`SumTheorems` proves what `SumFunctionOnSet`, a fold, computes: zero on the empty
set, one summand more with one element more (`SumInsert`, `SumRemove`), and from these
monotonicity, disjoint unions and the change of one summand. A fold picks its elements
by CHOOSE; that the order does not matter is proved once here, by induction over sets
of good numbers and good sets, not over predicates.

### What is only model-checked

`ResumeSettles`: liveness under fairness, and ENABLED with it, is beyond the prover.
The three runs of section 4 that look for counterexamples have no theorem either.

## 6. Plan

What is left, in this order:

1. The eight theorems with hypotheses, taken apart: which of `Serial` and `Orderly` each
   one really needs, and what remains true without it.
2. The composition of `LiveGates` with the core, so that a gate before an order
   is the certificate itself and not a refusal that may happen.
3. A shadow process and a back-test on one database.

### Not modelled

- Odds readers, sessions and the catalogue: HTTP, payload parsing, a login call
  and static tables, all of it input to the models.
- User interfaces: presentation over the stores above.
- Market statistics: what they compute from odds decides nothing in the modelled
  parts. That they are stored with a scan, and when, is in `ShadowLoop`.
- Tables that are written and shown and that no gate reads: snapshots of
  accounts, the monitor's status, `execution_events`, the health figures besides
  coverage.
- The import of result files, schema migration, reports, and the scripts and
  units other than the shadow unit's.
- The breaker's cooldown, which does not end within a command.
