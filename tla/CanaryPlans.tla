---------------------------- MODULE CanaryPlans ----------------------------
(***************************************************************************)
(* The canary's limits on live plans, under concurrent commands.           *)
(*                                                                         *)
(* ExecutionStore.create_run calls CanaryGuard.assert_plan and then inserts *)
(* the run. assert_plan takes the start of the current UTC day, reads the  *)
(* live runs created since and compares them with the policy; the insertion *)
(* comes after, stamped with its own time. No transaction spans these      *)
(* steps, each command has a connection of its own, and midnight may fall  *)
(* anywhere. The policy is enabled. A refusal, by a size limit or by the   *)
(* commissioning gate that comes first, changes nothing and is no step.    *)
(***************************************************************************)
EXTENDS Integers, FiniteSets, Functions

CONSTANTS
  Procs,                \* the commands that may be at work at the same time
  Runs,                 \* execution ids of live runs
  Legs,                 \* Legs[r]: the leg numbers of the plan of r
  Stake, Liability,     \* of a leg; a lay order's liability is not its stake
  MaxLegStake, MaxOrderLiability, MaxExecutionCapital,
  MaxLiveExecutions, MaxDailyCapital, MaxActive,
  None,
  MaxDay                \* bound: the last day

\* The limits are positive: the Field constraints of CanaryPolicy.
ASSUME PolicyAssumption ==
  /\ {MaxLegStake, MaxOrderLiability, MaxExecutionCapital, MaxLiveExecutions,
      MaxDailyCapital, MaxActive} \subseteq Nat \ {0}
  /\ \A r \in Runs : \A l \in Legs[r] : Stake[r][l] \in Nat /\ Liability[r][l] \in Nat
  /\ MaxDay \in Nat

\* The table, the plans and the processes are finite.
ASSUME FiniteAssumption ==
  /\ IsFiniteSet(Procs) /\ Procs # {} /\ IsFiniteSet(Runs)
  /\ \A r \in Runs : IsFiniteSet(Legs[r])

VARIABLES
  day,      \* the UTC day
  run,      \* execution_runs, live rows: day of creation and status, where what
            \* was terminal and no longer is counts as "reopened"
  call      \* call[p]: where p is inside create_run, the run it creates, and
            \* the day start it works with

vars == <<day, run, call>>

Days == 0 .. MaxDay
Idle == [at |-> "idle", run |-> None, start |-> 0]

Init ==
  /\ day = 0
  /\ run = [r \in Runs |-> [status |-> "none", day |-> 0]]
  /\ call = [p \in Procs |-> Idle]

---------------------------------------------------------------------------
\* (mutant) Ended runs are not counted.
RunsSince_Active(t) ==
  { r \in Runs : run[r].status \in {"open", "reopened"} /\ run[r].day >= t }

RunsSince(t) == { r \in Runs : run[r].status # "none" /\ run[r].day >= t }
ActiveSince(t) == { r \in RunsSince(t) : run[r].status # "terminal" }

Capital == [r \in Runs |-> SumFunctionOnSet(Liability[r], Legs[r])]
CapitalOf(S) == SumFunctionOnSet(Capital, S)

WithinSize(r) ==
  /\ Legs[r] # {}
  /\ \A l \in Legs[r] :
       Stake[r][l] <= MaxLegStake /\ Liability[r][l] <= MaxOrderLiability
  /\ Capital[r] <= MaxExecutionCapital

\* (mutant) The plan's own capital is left out of the sum.
WithinDay_BeforePlan(r, t) ==
  /\ Cardinality(RunsSince(t)) < MaxLiveExecutions
  /\ Cardinality(ActiveSince(t)) < MaxActive
  /\ CapitalOf(RunsSince(t)) <= MaxDailyCapital

\* (mutant) Off by one.
WithinDay_Inclusive(r, t) ==
  /\ Cardinality(RunsSince(t)) < MaxLiveExecutions
  /\ Cardinality(ActiveSince(t)) <= MaxActive
  /\ CapitalOf(RunsSince(t)) + Capital[r] <= MaxDailyCapital

WithinDay(r, t) ==
  /\ Cardinality(RunsSince(t)) < MaxLiveExecutions
  /\ Cardinality(ActiveSince(t)) < MaxActive
  /\ CapitalOf(RunsSince(t)) + Capital[r] <= MaxDailyCapital

Goto(p, place) == call' = [call EXCEPT ![p].at = place]
Return(p) == call' = [call EXCEPT ![p] = Idle]

\* create_run for a plan that passes the size limits; the day's start is then
\* kept in a local variable. The execution id is new.
AssertPlan(p, r) ==
  /\ call[p].at = "idle"
  /\ run[r].status = "none" /\ \A q \in Procs : call[q].run # r
  /\ WithinSize(r)
  /\ call' = [call EXCEPT ![p] = [at |-> "plan", run |-> r, start |-> day]]
  /\ UNCHANGED <<day, run>>

\* The query and the comparisons.
PlanAllowed(p) ==
  /\ call[p].at = "plan" /\ WithinDay(call[p].run, call[p].start)
  /\ Goto(p, "create")
  /\ UNCHANGED <<day, run>>

PlanRefused(p) ==
  /\ call[p].at = "plan" /\ ~ WithinDay(call[p].run, call[p].start)
  /\ Return(p)
  /\ UNCHANGED <<day, run>>

\* The insertion, stamped with the day it happens.
CreateRun(p) ==
  /\ call[p].at = "create"
  /\ run' = [run EXCEPT ![call[p].run] = [status |-> "open", day |-> day]]
  /\ Return(p)
  /\ UNCHANGED day

\* The run is completed, rescued or aborted.
EndRun(r) ==
  /\ run[r].status \in {"open", "reopened"}
  /\ run' = [run EXCEPT ![r].status = "terminal"]
  /\ UNCHANGED <<day, call>>

\* A late confirm_manual_leg, which looks at no status, or a resume whose check
\* came before the run ended, writes PREPARED, RESCUING or EXECUTING over it.
ReopenRun(r) ==
  /\ run[r].status = "terminal"
  /\ run' = [run EXCEPT ![r].status = "reopened"]
  /\ UNCHANGED <<day, call>>

NextDay ==
  /\ day < MaxDay
  /\ day' = day + 1
  /\ UNCHANGED <<run, call>>

\* The process dies before the insertion is committed.
Crash(p) ==
  /\ call[p].at # "idle"
  /\ Return(p)
  /\ UNCHANGED <<day, run>>

Step(p) ==
  \/ \E r \in Runs : AssertPlan(p, r)
  \/ PlanAllowed(p) \/ PlanRefused(p) \/ CreateRun(p) \/ Crash(p)

Next == (\E p \in Procs : Step(p)) \/ (\E r \in Runs : EndRun(r) \/ ReopenRun(r)) \/ NextDay

Spec == Init /\ [][Next]_vars

---------------------------------------------------------------------------
(* Properties                                                              *)

\* Types; no row and no day start is of a day that has not come.
TypeOK ==
  /\ day \in Days
  /\ run \in [Runs -> [status : {"none", "open", "terminal", "reopened"}, day : 0 .. day]]
  /\ call \in [Procs -> [at : {"idle", "plan", "create"},
                         run : Runs \cup {None}, start : 0 .. day]]
  /\ \A p \in Procs : call[p].at # "idle" => call[p].run \in Runs

\* How far a limit may be overrun: each other process may have passed the
\* check before the rows it should have counted were there.
Others == Cardinality(Procs) - 1

RunsOn(d) == { r \in Runs : run[r].status # "none" /\ run[r].day = d }
ActiveOn(d) == { r \in RunsOn(d) : run[r].status # "terminal" }
ReopenedOn(d) == { r \in RunsOn(d) : run[r].status = "reopened" }

\* However the commands interleave and wherever midnight falls, the live runs
\* created on a UTC day, ended ones included, exceed
\* max_live_executions_per_day by at most one for each further process: cycles
\* of prepare and abort do not get around the limit.
PreparationBudget ==
  \A d \in Days : Cardinality(RunsOn(d)) <= MaxLiveExecutions + Others

\* The capital of the runs created on a day exceeds max_daily_prepared_capital
\* by at most one largest plan for each further process.
CapitalBudget ==
  \A d \in Days :
    CapitalOf(RunsOn(d)) <= MaxDailyCapital + Others * MaxExecutionCapital

\* Of the runs created on one day, at most max_active_live_executions are
\* active at a time, and one more for each further process and for each run
\* that had ended and was reopened: nothing else gets around the limit.
ActiveBudget ==
  \A d \in Days :
    Cardinality(ActiveOn(d)) <= MaxActive + Others + Cardinality(ReopenedOn(d))
=============================================================================
