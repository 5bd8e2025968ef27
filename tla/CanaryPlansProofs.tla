------------------------- MODULE CanaryPlansProofs -------------------------
(***************************************************************************)
(* Proofs about CanaryPlans, for any plans, limits, number of processes    *)
(* and of days: its type invariant, and the daily limits on the number of  *)
(* live runs created, of those active, and on the capital prepared.        *)
(***************************************************************************)
EXTENDS CanaryPlans, FiniteSetTheorems, SumTheorems, TLAPS

\* Initially no run and no call is there, and the day is the first.
LEMMA InitTypes == Init => TypeOK
  BY PolicyAssumption DEF Init, TypeOK, Days, Idle

\* One step, taken by one process, by midnight or by nobody, keeps the types.
LEMMA StepTypes == TypeOK /\ [Next]_vars => TypeOK'
<1> SUFFICES ASSUME TypeOK, [Next]_vars
             PROVE  TypeOK'
  OBVIOUS
<1> USE PolicyAssumption DEF TypeOK, Days
<1>1. ASSUME NEW p \in Procs, NEW r \in Runs, AssertPlan(p, r) PROVE TypeOK'
  BY <1>1 DEF AssertPlan
<1>2. ASSUME NEW p \in Procs, PlanAllowed(p) PROVE TypeOK'
  BY <1>2 DEF PlanAllowed, Goto
<1>3. ASSUME NEW p \in Procs, PlanRefused(p) \/ Crash(p) PROVE TypeOK'
  BY <1>3 DEF PlanRefused, Crash, Return, Idle
<1>4. ASSUME NEW p \in Procs, CreateRun(p) PROVE TypeOK'
  <2>1. call[p].run \in Runs
    BY <1>4 DEF CreateRun
  <2> QED
    BY <1>4, <2>1 DEF CreateRun, Return, Idle
<1>5. ASSUME NEW r \in Runs, EndRun(r) \/ ReopenRun(r) PROVE TypeOK'
  BY <1>5 DEF EndRun, ReopenRun
<1>6. CASE NextDay
  <2>1. day' \in Days /\ 0 .. day \subseteq 0 .. day'
    BY <1>6 DEF NextDay
  <2> QED
    BY <1>6, <2>1 DEF NextDay
<1>7. CASE UNCHANGED vars
  BY <1>7 DEF vars
<1> QED
  BY <1>1, <1>2, <1>3, <1>4, <1>5, <1>6, <1>7 DEF Next, Step

\* Types: no row and no day start is of a day that has not come
\* (execution_runs, _day_start).
THEOREM TypeCorrect == Spec => []TypeOK
  BY InitTypes, StepTypes, PTL DEF Spec

---------------------------------------------------------------------------
(* Who creates which run                                                   *)

\* The processes that have passed the check and not yet inserted their run.
Creating == { p \in Procs : call[p].at = "create" }

\* A run that is being prepared is not in the table, and one process prepares it.
Fresh ==
  \A p \in Procs : call[p].at # "idle" =>
    /\ run[call[p].run].status = "none"
    /\ \A q \in Procs \ {p} : call[q].at # "idle" => call[q].run # call[p].run

\* Ids are drawn fresh, and an idle process has none.
LEMMA StepFresh ==
  ASSUME TypeOK, Fresh, [Next]_vars
  PROVE  Fresh'
<1> USE DEF TypeOK, Fresh
<1>1. ASSUME NEW p \in Procs, NEW r \in Runs, AssertPlan(p, r) PROVE Fresh'
  BY <1>1 DEF AssertPlan
<1>2. ASSUME NEW p \in Procs, PlanAllowed(p) PROVE Fresh'
  BY <1>2 DEF PlanAllowed, Goto
<1>3. ASSUME NEW p \in Procs, PlanRefused(p) \/ Crash(p) PROVE Fresh'
  <2>1. run' = run /\ \A q \in Procs : call'[q] = IF q = p THEN Idle ELSE call[q]
    BY <1>3 DEF PlanRefused, Crash, Return
  <2>2. Idle.at = "idle"
    BY DEF Idle
  <2> QED
    BY <2>1, <2>2
<1>4. ASSUME NEW p \in Procs, CreateRun(p) PROVE Fresh'
  <2>1. \A q \in Procs : call'[q] = IF q = p THEN Idle ELSE call[q]
    BY <1>4 DEF CreateRun, Return
  <2>2. \A x \in Runs \ {call[p].run} : run'[x] = run[x]
    BY <1>4 DEF CreateRun
  <2>3. call[p].at # "idle" /\ Idle.at = "idle"
    BY <1>4 DEF CreateRun, Idle
  <2> QED
    BY <2>1, <2>2, <2>3
<1>5. ASSUME NEW r \in Runs, EndRun(r) \/ ReopenRun(r) PROVE Fresh'
  BY <1>5 DEF EndRun, ReopenRun
<1>6. ASSUME NextDay PROVE Fresh'
  BY <1>6 DEF NextDay
<1>7. ASSUME UNCHANGED vars PROVE Fresh'
  BY <1>7 DEF vars
<1> QED
  BY <1>1, <1>2, <1>3, <1>4, <1>5, <1>6, <1>7 DEF Next, Step

---------------------------------------------------------------------------
(* The daily limits                                                        *)

\* The runs of a day that have been active since they were created.
OpenOn(d) == { r \in RunsOn(d) : run[r].status = "open" }

OpenBudget == \A d \in Days : Cardinality(OpenOn(d)) <= MaxActive + Others

\* A check passed today saw fewer than the limit of today's rows; whoever
\* passed it since then is still among the processes. This is what has to hold
\* of the current day; the days before only lose open runs, and a run that is
\* reopened is not open again.
RoomToday ==
  /\ Cardinality(RunsOn(day)) + Cardinality(Creating)
       < MaxLiveExecutions + Cardinality(Procs)
  /\ Cardinality(OpenOn(day)) + Cardinality(Creating)
       < MaxActive + Cardinality(Procs)

Budgets == RoomToday /\ PreparationBudget /\ OpenBudget

BudgetInv == TypeOK /\ Fresh /\ Budgets

\* Sets of processes and of runs can be counted.
LEMMA Counting ==
  /\ Cardinality(Procs) \in Nat \ {0}
  /\ \A S \in SUBSET Procs :
       IsFiniteSet(S) /\ Cardinality(S) \in Nat /\ Cardinality(S) <= Cardinality(Procs)
  /\ \A S \in SUBSET Runs :
       /\ IsFiniteSet(S) /\ Cardinality(S) \in Nat
       /\ \A T \in SUBSET S : Cardinality(T) <= Cardinality(S)
<1>1. Cardinality(Procs) \in Nat \ {0}
  BY FiniteAssumption, FS_CardinalityType, FS_EmptySet
<1>2. \A S \in SUBSET Procs :
        IsFiniteSet(S) /\ Cardinality(S) \in Nat /\ Cardinality(S) <= Cardinality(Procs)
  BY FiniteAssumption, FS_Subset, FS_CardinalityType
<1>3. \A S \in SUBSET Runs : IsFiniteSet(S) /\ Cardinality(S) \in Nat
  BY FiniteAssumption, FS_Subset, FS_CardinalityType
<1>4. \A S \in SUBSET Runs : \A T \in SUBSET S : Cardinality(T) <= Cardinality(S)
  BY <1>3, FS_Subset
<1> QED
  BY <1>1, <1>2, <1>3, <1>4

\* The sets that are counted, and their sizes.
LEMMA Sizes ==
  /\ Creating \subseteq Procs /\ Cardinality(Creating) \in Nat
  /\ Cardinality(Creating) <= Cardinality(Procs)
  /\ \A d : /\ RunsOn(d) \subseteq Runs /\ OpenOn(d) \subseteq Runs
            /\ Cardinality(RunsOn(d)) \in Nat /\ Cardinality(OpenOn(d)) \in Nat
<1>1. Creating \subseteq Procs /\ \A d : RunsOn(d) \subseteq Runs /\ OpenOn(d) \subseteq Runs
  BY DEF Creating, RunsOn, OpenOn
<1> QED
  BY <1>1, Counting

\* A step that creates no run and lets no process pass the check.
LEMMA Calm ==
  ASSUME BudgetInv, TypeOK', day' = day, Creating' \subseteq Creating,
         \A d \in Days : RunsOn(d)' = RunsOn(d) /\ OpenOn(d)' \subseteq OpenOn(d)
  PROVE  Budgets'
<1> USE DEF BudgetInv, Budgets
<1>1. day \in Days /\ Days' = Days
  BY DEF TypeOK, Days
<1>2. Cardinality(Creating') <= Cardinality(Creating) /\ Cardinality(Creating') \in Nat
  <2>1. IsFiniteSet(Creating) /\ Creating' \in SUBSET Procs
    BY Sizes, Counting
  <2> QED
    BY <2>1, FS_Subset, Counting
<1>3. \A d \in Days : /\ Cardinality(OpenOn(d)') <= Cardinality(OpenOn(d))
                      /\ Cardinality(OpenOn(d)') \in Nat
  <2> SUFFICES ASSUME NEW d \in Days
               PROVE  /\ Cardinality(OpenOn(d)') <= Cardinality(OpenOn(d))
                      /\ Cardinality(OpenOn(d)') \in Nat
    OBVIOUS
  <2>1. OpenOn(d) \in SUBSET Runs /\ OpenOn(d)' \in SUBSET OpenOn(d)
    BY Sizes
  <2> QED
    BY <2>1, Counting
<1>4. RunsOn(day)' = RunsOn(day) /\ OpenOn(day)' \subseteq OpenOn(day)
        /\ Cardinality(OpenOn(day)') <= Cardinality(OpenOn(day))
        /\ Cardinality(OpenOn(day)') \in Nat
  BY <1>1, <1>3
<1>5. RoomToday'
  BY <1>2, <1>4, Sizes, Counting, PolicyAssumption DEF RoomToday
<1>6. PreparationBudget'
  BY <1>1 DEF PreparationBudget, Others
<1>7. OpenBudget'
  <2> SUFFICES ASSUME NEW d \in Days PROVE Cardinality(OpenOn(d)') <= MaxActive + Others
    BY <1>1 DEF OpenBudget, Others
  <2>1. Cardinality(OpenOn(d)) <= MaxActive + Others
    BY DEF OpenBudget
  <2> QED
    BY <2>1, <1>3, Sizes, Counting, PolicyAssumption DEF Others
<1> QED
  BY <1>5, <1>6, <1>7

\* A process passes the check: the rows it counted include those of today.
LEMMA AllowedKeeps ==
  ASSUME BudgetInv, TypeOK', NEW p \in Procs, PlanAllowed(p)
  PROVE  Budgets'
<1> USE DEF BudgetInv, Budgets
<1> DEFINE t == call[p].start
<1>1. RunsOn(day) \subseteq RunsSince(t) /\ OpenOn(day) \subseteq ActiveSince(t)
  BY DEF TypeOK, RunsOn, OpenOn, RunsSince, ActiveSince, Days
<1>2. Cardinality(RunsSince(t)) < MaxLiveExecutions /\ Cardinality(ActiveSince(t)) < MaxActive
  BY DEF PlanAllowed, WithinDay
<1>3. RunsSince(t) \in SUBSET Runs /\ ActiveSince(t) \in SUBSET Runs
  BY DEF RunsSince, ActiveSince
<1>4. Cardinality(RunsOn(day)) <= Cardinality(RunsSince(t))
        /\ Cardinality(OpenOn(day)) <= Cardinality(ActiveSince(t))
  BY <1>1, <1>3, Counting
<1>5. Cardinality(RunsOn(day)) < MaxLiveExecutions /\ Cardinality(OpenOn(day)) < MaxActive
  BY <1>2, <1>3, <1>4, Sizes, Counting, PolicyAssumption
<1>6. \A d : RunsOn(d)' = RunsOn(d) /\ OpenOn(d)' = OpenOn(d)
  BY DEF PlanAllowed, RunsOn, OpenOn
<1>7. RunsOn(day)' = RunsOn(day) /\ OpenOn(day)' = OpenOn(day)
  BY DEF PlanAllowed, RunsOn, OpenOn
<1>8. Creating' \in SUBSET Procs
  BY DEF Creating
<1>9. Cardinality(Creating') <= Cardinality(Procs) /\ Cardinality(Creating') \in Nat
  BY <1>8, Counting
<1>10. RoomToday'
  BY <1>5, <1>7, <1>9, Sizes, Counting, PolicyAssumption DEF RoomToday
<1>11. PreparationBudget' /\ OpenBudget'
  BY <1>6 DEF PreparationBudget, OpenBudget, Others, Days
<1> QED
  BY <1>10, <1>11

\* A run is inserted: one row more, one process less that may insert.
LEMMA CreateKeeps ==
  ASSUME BudgetInv, TypeOK', NEW p \in Procs, CreateRun(p)
  PROVE  Budgets'
<1> USE DEF BudgetInv, Budgets
<1> DEFINE r == call[p].run
<1>1. r \in Runs /\ day' = day /\ p \in Creating /\ run[r].status = "none"
  BY DEF CreateRun, TypeOK, Creating, Fresh
<1>2. \A x \in Runs : run'[x] = IF x = r THEN [status |-> "open", day |-> day] ELSE run[x]
  BY <1>1 DEF CreateRun, TypeOK
<1>3. RunsOn(day)' = RunsOn(day) \cup {r} /\ r \notin RunsOn(day)
  BY <1>1, <1>2 DEF RunsOn
<1>4. OpenOn(day)' = OpenOn(day) \cup {r} /\ r \notin OpenOn(day)
  BY <1>1, <1>2 DEF OpenOn, RunsOn
<1>5. \A d \in Days \ {day} : RunsOn(d)' = RunsOn(d) /\ OpenOn(d)' = OpenOn(d)
  BY <1>1, <1>2 DEF RunsOn, OpenOn
<1>6. Creating' = Creating \ {p}
  BY DEF CreateRun, Return, Idle, TypeOK, Creating
<1>7. /\ Cardinality(RunsOn(day)') = Cardinality(RunsOn(day)) + 1
      /\ Cardinality(OpenOn(day)') = Cardinality(OpenOn(day)) + 1
  <2>1. IsFiniteSet(RunsOn(day)) /\ IsFiniteSet(OpenOn(day))
    BY Sizes, Counting
  <2> QED
    BY <1>3, <1>4, <2>1, FS_AddElement
<1>8. Cardinality(Creating') = Cardinality(Creating) - 1
  BY <1>1, <1>6, Sizes, Counting, FS_RemoveElement
<1>9. Cardinality(Creating') \in Nat
  BY <1>6, Sizes, Counting
<1>10. RoomToday'
  BY <1>1, <1>7, <1>8, Sizes, Counting, PolicyAssumption DEF RoomToday
<1>11. /\ Cardinality(RunsOn(day)') <= MaxLiveExecutions + Others
       /\ Cardinality(OpenOn(day)') <= MaxActive + Others
  BY <1>7, <1>8, <1>9, Sizes, Counting, PolicyAssumption DEF RoomToday, Others
<1>12. PreparationBudget'
  BY <1>1, <1>5, <1>11 DEF PreparationBudget, Others, Days, TypeOK
<1>13. OpenBudget'
  BY <1>1, <1>5, <1>11 DEF OpenBudget, Others, Days, TypeOK
<1> QED
  BY <1>10, <1>12, <1>13

\* Midnight: no run of the new day is there, whoever has passed a check before.
LEMMA MidnightKeeps ==
  ASSUME BudgetInv, TypeOK', NextDay
  PROVE  Budgets'
<1> USE DEF BudgetInv, Budgets
<1>1. \A d \in Days : RunsOn(d)' = RunsOn(d) /\ OpenOn(d)' = OpenOn(d)
  BY DEF NextDay, RunsOn, OpenOn
<1>2. RunsOn(day)' = {} /\ OpenOn(day)' = {}
  BY DEF NextDay, RunsOn, OpenOn, TypeOK, Days
<1>3. Cardinality(RunsOn(day)') = 0 /\ Cardinality(OpenOn(day)') = 0
  BY <1>2, FS_EmptySet
<1>4. Creating' \in SUBSET Procs
  BY DEF Creating
<1>5. Cardinality(Creating') <= Cardinality(Procs) /\ Cardinality(Creating') \in Nat
  BY <1>4, Counting
<1>6. RoomToday'
  BY <1>3, <1>5, Counting, PolicyAssumption DEF RoomToday
<1>7. PreparationBudget' /\ OpenBudget'
  BY <1>1 DEF PreparationBudget, OpenBudget, Others, Days
<1> QED
  BY <1>6, <1>7

\* A first day without runs or processes inside has room.
LEMMA InitBudget == Init => BudgetInv
<1> SUFFICES ASSUME Init PROVE BudgetInv
  OBVIOUS
<1>1. \A d \in Days : RunsOn(d) = {} /\ OpenOn(d) = {}
  BY DEF Init, RunsOn, OpenOn
<1>2. Creating = {} /\ day \in Days /\ Fresh
  BY PolicyAssumption DEF Init, Creating, Idle, Days, Fresh
<1>3. Cardinality({}) = 0
  BY FS_EmptySet
<1>4. RoomToday
  BY <1>1, <1>2, <1>3, Counting, PolicyAssumption DEF RoomToday
<1>5. PreparationBudget /\ OpenBudget
  BY <1>1, <1>3, Counting, PolicyAssumption DEF PreparationBudget, OpenBudget, Others
<1> QED
  BY <1>2, <1>4, <1>5, InitTypes DEF BudgetInv, Budgets

\* Every step keeps the invariant; all but three are calm.
LEMMA StepBudget == BudgetInv /\ [Next]_vars => BudgetInv'
<1> SUFFICES ASSUME BudgetInv, [Next]_vars
             PROVE  BudgetInv'
  OBVIOUS
<1>0. TypeOK' /\ Fresh'
  BY StepTypes, StepFresh DEF BudgetInv
<1>1. ASSUME NEW p \in Procs, NEW r \in Runs, AssertPlan(p, r) PROVE Budgets'
  <2>1. day' = day /\ Creating' \subseteq Creating
          /\ \A d \in Days : RunsOn(d)' = RunsOn(d) /\ OpenOn(d)' \subseteq OpenOn(d)
    BY <1>1 DEF AssertPlan, Creating, RunsOn, OpenOn, BudgetInv, TypeOK
  <2> QED
    BY <1>0, <2>1, Calm
<1>2. ASSUME NEW p \in Procs, PlanAllowed(p) PROVE Budgets'
  BY <1>0, <1>2, AllowedKeeps
<1>3. ASSUME NEW p \in Procs, PlanRefused(p) \/ Crash(p) PROVE Budgets'
  <2>1. day' = day /\ Creating' \subseteq Creating
          /\ \A d \in Days : RunsOn(d)' = RunsOn(d) /\ OpenOn(d)' \subseteq OpenOn(d)
    BY <1>3 DEF PlanRefused, Crash, Return, Idle, Creating, RunsOn, OpenOn,
                BudgetInv, TypeOK
  <2> QED
    BY <1>0, <2>1, Calm
<1>4. ASSUME NEW p \in Procs, CreateRun(p) PROVE Budgets'
  BY <1>0, <1>4, CreateKeeps
<1>5. ASSUME NEW r \in Runs, EndRun(r) \/ ReopenRun(r) PROVE Budgets'
  <2>1. /\ \A x \in Runs : run'[x].day = run[x].day
        /\ \A x \in Runs \ {r} : run'[x].status = run[x].status
        /\ run[r].status # "none" /\ run'[r].status \in {"terminal", "reopened"}
    BY <1>5 DEF EndRun, ReopenRun, BudgetInv, TypeOK
  <2>2. day' = day /\ Creating' \subseteq Creating
    BY <1>5 DEF EndRun, ReopenRun, Creating
  <2>3. \A d \in Days : RunsOn(d)' = RunsOn(d)
    BY <2>1, <2>2 DEF RunsOn
  <2>4. \A d \in Days : OpenOn(d)' \subseteq OpenOn(d)
    BY <2>1, <2>2 DEF OpenOn, RunsOn
  <2> QED
    BY <1>0, <2>2, <2>3, <2>4, Calm
<1>6. ASSUME NextDay PROVE Budgets'
  BY <1>0, <1>6, MidnightKeeps
<1>7. ASSUME UNCHANGED vars PROVE Budgets'
  <2>1. day' = day /\ Creating' \subseteq Creating
          /\ \A d \in Days : RunsOn(d)' = RunsOn(d) /\ OpenOn(d)' \subseteq OpenOn(d)
    BY <1>7 DEF vars, Creating, RunsOn, OpenOn
  <2> QED
    BY <1>0, <2>1, Calm
<1>8. Budgets'
  BY <1>1, <1>2, <1>3, <1>4, <1>5, <1>6, <1>7 DEF Next, Step
<1> QED
  BY <1>0, <1>8 DEF BudgetInv

\* The daily limit on live preparations is overrun by at most one run for each
\* further process, however many of the runs have ended (assert_plan,
\* create_run).
THEOREM PreparationsBounded == Spec => []PreparationBudget
<1>1. BudgetInv => PreparationBudget
  BY DEF BudgetInv, Budgets
<1> QED
  BY <1>1, InitBudget, StepBudget, PTL DEF Spec

\* The active runs of a day are the open and the reopened ones.
LEMMA ActiveIsOpenOrReopened ==
  ASSUME TypeOK, NEW d \in Days
  PROVE  Cardinality(ActiveOn(d)) <= Cardinality(OpenOn(d)) + Cardinality(ReopenedOn(d))
<1>1. ActiveOn(d) = OpenOn(d) \cup ReopenedOn(d)
  BY DEF ActiveOn, OpenOn, ReopenedOn, RunsOn, TypeOK
<1>2. OpenOn(d) \in SUBSET Runs /\ ReopenedOn(d) \in SUBSET Runs
  BY DEF OpenOn, ReopenedOn, RunsOn
<1>3. IsFiniteSet(OpenOn(d)) /\ IsFiniteSet(ReopenedOn(d))
  BY <1>2, Counting
<1>4. OpenOn(d) \cap ReopenedOn(d) \in SUBSET Runs
  BY <1>2
<1>5. /\ Cardinality(OpenOn(d)) \in Nat /\ Cardinality(ReopenedOn(d)) \in Nat
      /\ Cardinality(OpenOn(d) \cap ReopenedOn(d)) \in Nat
  BY <1>2, <1>4, Counting
<1>6. Cardinality(ActiveOn(d)) = Cardinality(OpenOn(d)) + Cardinality(ReopenedOn(d))
                                   - Cardinality(OpenOn(d) \cap ReopenedOn(d))
  BY <1>1, <1>3, FS_Union
<1> QED
  BY <1>5, <1>6

\* Of one day's live runs, at most the limit are active, one more for each
\* further process, and one for each run that had ended and was reopened
\* (assert_plan, create_run; a late confirm_manual_leg or a racing resume).
THEOREM ActiveBounded == Spec => []ActiveBudget
<1>1. BudgetInv => ActiveBudget
  <2> SUFFICES ASSUME BudgetInv, NEW d \in Days
               PROVE  Cardinality(ActiveOn(d))
                        <= MaxActive + Others + Cardinality(ReopenedOn(d))
    BY DEF ActiveBudget
  <2>1. Cardinality(OpenOn(d)) <= MaxActive + Others
    BY DEF BudgetInv, Budgets, OpenBudget
  <2>2. Cardinality(ActiveOn(d)) <= Cardinality(OpenOn(d)) + Cardinality(ReopenedOn(d))
    BY ActiveIsOpenOrReopened DEF BudgetInv
  <2>3. ActiveOn(d) \in SUBSET Runs /\ OpenOn(d) \in SUBSET Runs /\ ReopenedOn(d) \in SUBSET Runs
    BY DEF ActiveOn, OpenOn, ReopenedOn, RunsOn
  <2>4. /\ Cardinality(ActiveOn(d)) \in Nat /\ Cardinality(OpenOn(d)) \in Nat
        /\ Cardinality(ReopenedOn(d)) \in Nat
    BY <2>3, Counting
  <2> QED
    BY <2>1, <2>2, <2>4, Counting, PolicyAssumption DEF Others
<1> QED
  BY <1>1, InitBudget, StepBudget, PTL DEF Spec

---------------------------------------------------------------------------
(* The daily capital                                                       *)

\* What p may still add to the day: the capital of the plan it has passed the
\* check with and not yet inserted.
Pending == [p \in Procs |-> IF call[p].at = "create" THEN Capital[call[p].run] ELSE 0]

\* A plan at work is within the limit of one execution, and one that has passed
\* the check is no larger than the limit of a day.
PassedSizes ==
  \A p \in Procs :
    /\ call[p].at # "idle" => Capital[call[p].run] <= MaxExecutionCapital
    /\ call[p].at = "create" => Capital[call[p].run] <= MaxDailyCapital

\* The last process to pass a check saw room for its own plan; each other one
\* may add a plan nobody has seen.
RoomForCapital ==
  CapitalOf(RunsOn(day)) + SumFunctionOnSet(Pending, Procs)
    <= MaxDailyCapital + Others * MaxExecutionCapital

CapitalInv == TypeOK /\ Fresh /\ PassedSizes /\ RoomForCapital /\ CapitalBudget

\* The sums are natural numbers, and so is the overrun.
LEMMA Sums ==
  /\ \A r \in Runs : Capital[r] \in Nat
  /\ \A S \in SUBSET Runs : IsFiniteSet(S) /\ CapitalOf(S) \in Nat
  /\ Others \in Nat /\ Others * MaxExecutionCapital \in Nat
  /\ MaxDailyCapital \in Nat /\ MaxExecutionCapital \in Nat
<1>1. \A S \in SUBSET Runs : IsFiniteSet(S)
  BY Counting
<1>2. \A r \in Runs : Capital[r] \in Nat
  <2> SUFFICES ASSUME NEW r \in Runs PROVE Capital[r] \in Nat
    OBVIOUS
  <2>1. IsFiniteSet(Legs[r]) /\ \A l \in Legs[r] : Liability[r][l] \in Nat
    BY FiniteAssumption, PolicyAssumption
  <2>2. SumFunctionOnSet(Liability[r], Legs[r]) \in Nat
    BY <2>1, SumType
  <2> QED
    BY <2>2 DEF Capital
<1>3. \A S \in SUBSET Runs : CapitalOf(S) \in Nat
  <2> SUFFICES ASSUME NEW S \in SUBSET Runs PROVE CapitalOf(S) \in Nat
    OBVIOUS
  <2>1. IsFiniteSet(S) /\ \A x \in S : Capital[x] \in Nat
    BY <1>1, <1>2
  <2> QED
    BY <2>1, SumType DEF CapitalOf
<1>4. Others \in Nat
  BY Counting DEF Others
<1>5. MaxDailyCapital \in Nat /\ MaxExecutionCapital \in Nat
  BY PolicyAssumption
<1>6. \A a, b \in Nat : a * b \in Nat
  OBVIOUS
<1> QED
  BY <1>1, <1>2, <1>3, <1>4, <1>5, <1>6

\* What is pending is a natural number for each process, and no larger than the
\* largest plan and than the limit of a day.
LEMMA PendingSizes ==
  ASSUME TypeOK, PassedSizes
  PROVE  /\ \A p \in Procs : Pending[p] \in Nat /\ Pending[p] <= MaxExecutionCapital
                               /\ Pending[p] <= MaxDailyCapital
         /\ SumFunctionOnSet(Pending, Procs) \in Nat
<1>1. \A p \in Procs : Pending[p] \in Nat /\ Pending[p] <= MaxExecutionCapital
                         /\ Pending[p] <= MaxDailyCapital
  BY Sums DEF Pending, TypeOK, PassedSizes
<1>2. SumFunctionOnSet(Pending, Procs) \in Nat
  BY <1>1, FiniteAssumption, SumType
<1> QED
  BY <1>1, <1>2

\* All but one of the processes.
LEMMA PendingOfOthers ==
  ASSUME TypeOK, PassedSizes, NEW p \in Procs
  PROVE  SumFunctionOnSet(Pending, Procs) <= Pending[p] + Others * MaxExecutionCapital
<1>1. IsFiniteSet(Procs \ {p}) /\ Cardinality(Procs \ {p}) = Others
  BY FiniteAssumption, FS_RemoveElement DEF Others
<1>2. \A q \in Procs : Pending[q] \in Int /\ Pending[q] <= MaxExecutionCapital
  BY PendingSizes
<1>3. SumFunctionOnSet(Pending, Procs \ {p}) <= Cardinality(Procs \ {p}) * MaxExecutionCapital
  BY <1>1, <1>2, Sums, SumBounded
<1>4. SumFunctionOnSet(Pending, Procs)
        = Pending[p] + SumFunctionOnSet(Pending, Procs \ {p})
  BY <1>2, FiniteAssumption, SumRemove
<1>5. SumFunctionOnSet(Pending, Procs \ {p}) \in Int
  BY <1>1, <1>2, SumType
<1>6. SumFunctionOnSet(Pending, Procs \ {p}) <= Others * MaxExecutionCapital
  BY <1>1, <1>3
<1> QED
  BY <1>2, <1>4, <1>5, <1>6, Sums

\* A plan at work keeps its size.
LEMMA StepSizes == TypeOK /\ PassedSizes /\ [Next]_vars => PassedSizes'
<1> SUFFICES ASSUME TypeOK, PassedSizes, [Next]_vars
             PROVE  PassedSizes'
  OBVIOUS
<1> USE DEF TypeOK, PassedSizes
<1>1. ASSUME NEW p \in Procs, NEW r \in Runs, AssertPlan(p, r) PROVE PassedSizes'
  BY <1>1 DEF AssertPlan, WithinSize
<1>2. ASSUME NEW p \in Procs, PlanAllowed(p) PROVE PassedSizes'
  <2>1. RunsSince(call[p].start) \in SUBSET Runs /\ call[p].run \in Runs
    BY <1>2 DEF RunsSince, PlanAllowed
  <2>2. CapitalOf(RunsSince(call[p].start)) \in Nat /\ Capital[call[p].run] \in Nat
    BY <2>1, Sums
  <2>3. Capital[call[p].run] <= MaxDailyCapital
    BY <1>2, <2>2, Sums DEF PlanAllowed, WithinDay
  <2> QED
    BY <1>2, <2>3 DEF PlanAllowed, Goto
<1>3. ASSUME NEW p \in Procs, PlanRefused(p) \/ CreateRun(p) \/ Crash(p) PROVE PassedSizes'
  BY <1>3 DEF PlanRefused, CreateRun, Crash, Return, Idle
<1>4. ASSUME NEW r \in Runs, EndRun(r) \/ ReopenRun(r) PROVE PassedSizes'
  BY <1>4 DEF EndRun, ReopenRun
<1>5. CASE NextDay
  BY <1>5 DEF NextDay
<1>6. CASE UNCHANGED vars
  BY <1>6 DEF vars
<1> QED
  BY <1>1, <1>2, <1>3, <1>4, <1>5, <1>6 DEF Next, Step

\* A step that creates no run and leaves no more pending.
LEMMA CalmCapital ==
  ASSUME CapitalInv, TypeOK', PassedSizes', day' = day,
         \A p \in Procs : Pending'[p] <= Pending[p],
         \A d \in Days : RunsOn(d)' = RunsOn(d)
  PROVE  RoomForCapital' /\ CapitalBudget'
<1>1. \A p \in Procs : Pending[p] \in Nat
  BY PendingSizes DEF CapitalInv
<1>2. SumFunctionOnSet(Pending, Procs) \in Nat
  BY PendingSizes DEF CapitalInv
<1>3. \A p \in Procs : Pending'[p] \in Nat
  BY Sums DEF Pending, TypeOK
<1>4. SumFunctionOnSet(Pending', Procs) \in Nat
  BY <1>3, FiniteAssumption, SumType
<1>5. SumFunctionOnSet(Pending', Procs) <= SumFunctionOnSet(Pending, Procs)
  <2>1. \A p \in Procs : Pending'[p] \in Int /\ Pending[p] \in Int /\ Pending'[p] <= Pending[p]
    BY <1>1, <1>3
  <2> QED
    BY <2>1, FiniteAssumption, SumOfLess
<1>6. RunsOn(day)' = RunsOn(day) /\ RunsOn(day) \in SUBSET Runs
  BY DEF CapitalInv, TypeOK, RunsOn
<1>7. CapitalOf(RunsOn(day))' = CapitalOf(RunsOn(day))
        /\ CapitalOf(RunsOn(day)) \in Nat
  BY <1>6, Sums DEF CapitalOf, Capital
<1>8. RoomForCapital'
  BY <1>2, <1>4, <1>5, <1>7, Sums DEF CapitalInv, RoomForCapital, Others
<1>9. CapitalBudget'
  BY DEF CapitalInv, CapitalBudget, CapitalOf, Capital, Others, Days
<1> QED
  BY <1>8, <1>9

\* A process passes the check: the rows it summed up include those of today.
LEMMA AllowedKeepsCapital ==
  ASSUME CapitalInv, TypeOK', PassedSizes', NEW p \in Procs, PlanAllowed(p)
  PROVE  RoomForCapital' /\ CapitalBudget'
<1> USE DEF CapitalInv
<1>1. call[p].run \in Runs /\ Capital[call[p].run] \in Nat
  BY Sums DEF PlanAllowed, TypeOK
<1>2. RunsOn(day) \in SUBSET RunsSince(call[p].start)
  BY DEF TypeOK, RunsOn, RunsSince, Days
<1>3. RunsSince(call[p].start) \in SUBSET Runs /\ RunsOn(day) \in SUBSET Runs
  BY DEF RunsSince, RunsOn
<1>4. CapitalOf(RunsSince(call[p].start)) + Capital[call[p].run] <= MaxDailyCapital
  BY DEF PlanAllowed, WithinDay
<1>5. CapitalOf(RunsOn(day)) <= CapitalOf(RunsSince(call[p].start))
  <2>1. IsFiniteSet(RunsSince(call[p].start))
          /\ \A x \in RunsSince(call[p].start) : Capital[x] \in Nat
    BY <1>3, Sums
  <2> QED
    BY <1>2, <2>1, SumMonotone DEF CapitalOf
<1>6. CapitalOf(RunsOn(day)) + Capital[call[p].run] <= MaxDailyCapital
  BY <1>1, <1>3, <1>4, <1>5, Sums
<1>7. \A d \in Days : RunsOn(d)' = RunsOn(d)
  BY DEF PlanAllowed, RunsOn
<1>8. RunsOn(day)' = RunsOn(day)
  BY DEF PlanAllowed, RunsOn
<1>9. Pending'[p] = Capital[call[p].run]
  BY <1>1 DEF PlanAllowed, Goto, TypeOK, Pending
<1>10. SumFunctionOnSet(Pending, Procs)' <= Pending'[p] + Others * MaxExecutionCapital
  <2>1. (SumFunctionOnSet(Pending, Procs) <= Pending[p] + Others * MaxExecutionCapital)'
    BY PendingOfOthers, PTL
  <2> QED
    BY <2>1 DEF Others
<1>11. SumFunctionOnSet(Pending', Procs) \in Nat
  <2>1. \A q \in Procs : Pending'[q] \in Nat
    BY Sums DEF Pending, TypeOK
  <2> QED
    BY <2>1, FiniteAssumption, SumType
<1>12. CapitalOf(RunsOn(day))' = CapitalOf(RunsOn(day))
         /\ CapitalOf(RunsOn(day)) \in Nat
  BY <1>3, <1>8, Sums DEF CapitalOf, Capital
<1>13. RoomForCapital'
  BY <1>1, <1>6, <1>9, <1>10, <1>11, <1>12, Sums DEF RoomForCapital, Others
<1>14. CapitalBudget'
  BY <1>7 DEF CapitalBudget, CapitalOf, Capital, Others, Days
<1> QED
  BY <1>13, <1>14

\* A run is inserted: what was pending is in the table.
LEMMA CreateKeepsCapital ==
  ASSUME CapitalInv, TypeOK', PassedSizes', NEW p \in Procs, CreateRun(p)
  PROVE  RoomForCapital' /\ CapitalBudget'
<1> USE DEF CapitalInv
<1> DEFINE r == call[p].run
<1>1. r \in Runs /\ Capital[r] \in Nat /\ day' = day /\ run[r].status = "none"
  BY Sums DEF CreateRun, TypeOK, Fresh
<1>2. \A x \in Runs : run'[x] = IF x = r THEN [status |-> "open", day |-> day] ELSE run[x]
  BY <1>1 DEF CreateRun, TypeOK
<1>3. RunsOn(day)' = RunsOn(day) \cup {r} /\ r \notin RunsOn(day)
  BY <1>1, <1>2 DEF RunsOn
<1>4. \A d \in Days \ {day} : RunsOn(d)' = RunsOn(d)
  BY <1>1, <1>2 DEF RunsOn
<1>5. RunsOn(day) \in SUBSET Runs
  BY DEF RunsOn
<1>6. CapitalOf(RunsOn(day) \cup {r}) = CapitalOf(RunsOn(day)) + Capital[r]
  <2>1. IsFiniteSet(RunsOn(day)) /\ \A y \in RunsOn(day) \cup {r} : Capital[y] \in Int
    BY <1>1, <1>5, Sums
  <2> HIDE DEF r
  <2> QED
    BY <1>3, <2>1, SumInsert DEF CapitalOf
<1>7. CapitalOf(RunsOn(day))' = CapitalOf(RunsOn(day)) + Capital[r]
  BY <1>3, <1>6 DEF CapitalOf, Capital
<1>8. \A q \in Procs : Pending[q] \in Int /\ Pending'[q] \in Nat
  <2>1. \A q \in Procs : Pending'[q] \in Nat
    BY Sums DEF Pending, TypeOK
  <2> QED
    BY <2>1, PendingSizes
<1>9. Pending[p] = Capital[r] /\ Pending'[p] = 0
  BY DEF CreateRun, Return, Idle, TypeOK, Pending
<1>10. \A q \in Procs \ {p} : Pending'[q] = Pending[q]
  BY DEF CreateRun, Return, TypeOK, Pending
<1>11. SumFunctionOnSet(Pending', Procs)
         = SumFunctionOnSet(Pending, Procs) - Pending[p] + Pending'[p]
  BY <1>8, <1>10, FiniteAssumption, SumOfOneChange
<1>12. SumFunctionOnSet(Pending, Procs) \in Nat /\ SumFunctionOnSet(Pending', Procs) \in Nat
  BY <1>8, PendingSizes, FiniteAssumption, SumType
<1>13. CapitalOf(RunsOn(day)) \in Nat
  BY <1>5, Sums
<1>14. RoomForCapital'
  BY <1>1, <1>7, <1>9, <1>11, <1>12, <1>13, Sums DEF RoomForCapital, Others
<1>15. CapitalOf(RunsOn(day))' <= MaxDailyCapital + Others * MaxExecutionCapital
  BY <1>1, <1>7, <1>9, <1>11, <1>12, <1>13, Sums DEF RoomForCapital
<1>16. CapitalBudget'
  BY <1>1, <1>4, <1>15 DEF CapitalBudget, CapitalOf, Capital, Others, Days, TypeOK
<1> QED
  BY <1>14, <1>16

\* Midnight: the new day has no run yet, and each process may bring the plan
\* it has passed the check with the day before.
LEMMA MidnightKeepsCapital ==
  ASSUME CapitalInv, TypeOK', PassedSizes', NextDay
  PROVE  RoomForCapital' /\ CapitalBudget'
<1> USE DEF CapitalInv
<1>1. \A d \in Days : RunsOn(d)' = RunsOn(d)
  BY DEF NextDay, RunsOn
<1>2. RunsOn(day)' = {}
  BY DEF NextDay, RunsOn, TypeOK, Days
<1>3. CapitalOf(RunsOn(day))' = 0
  BY <1>2, SumEmpty DEF CapitalOf
<1>4. Pending' = Pending
  BY DEF NextDay, Pending, Capital
<1>5. PICK p \in Procs : TRUE
  BY FiniteAssumption
<1>6. SumFunctionOnSet(Pending, Procs) <= Pending[p] + Others * MaxExecutionCapital
  BY PendingOfOthers
<1>7. Pending[p] \in Nat /\ Pending[p] <= MaxDailyCapital
        /\ SumFunctionOnSet(Pending, Procs) \in Nat
  BY PendingSizes
<1>8. RoomForCapital'
  BY <1>3, <1>4, <1>6, <1>7, Sums DEF RoomForCapital, Others
<1>9. CapitalBudget'
  BY <1>1 DEF CapitalBudget, CapitalOf, Capital, Others, Days
<1> QED
  BY <1>8, <1>9

\* Nothing is created or pending at first.
LEMMA InitCapital == Init => CapitalInv
<1> SUFFICES ASSUME Init PROVE CapitalInv
  OBVIOUS
<1>1. \A d \in Days : RunsOn(d) = {}
  BY DEF Init, RunsOn
<1>2. CapitalOf({}) = 0
  BY SumEmpty DEF CapitalOf
<1>3. \A p \in Procs : call[p].at = "idle"
  BY DEF Init, Idle
<1>4. PassedSizes /\ Fresh
  BY <1>3 DEF PassedSizes, Fresh
<1>5. TypeOK
  BY InitTypes
<1>6. SumFunctionOnSet(Pending, Procs) <= 0 /\ SumFunctionOnSet(Pending, Procs) \in Nat
  <2>1. \A p \in Procs : Pending[p] \in Int /\ Pending[p] <= 0
    BY <1>3 DEF Pending
  <2>2. SumFunctionOnSet(Pending, Procs) <= Cardinality(Procs) * 0
    BY <2>1, FiniteAssumption, SumBounded
  <2>3. Cardinality(Procs) * 0 = 0
    BY Counting
  <2> QED
    BY <1>4, <1>5, <2>2, <2>3, PendingSizes
<1>7. day \in Days
  BY <1>5 DEF TypeOK
<1>8. \A d \in Days : CapitalOf(RunsOn(d)) = 0
  BY <1>1, <1>2, Zenon
<1>9. RoomForCapital /\ CapitalBudget
  BY <1>6, <1>7, <1>8, Sums DEF RoomForCapital, CapitalBudget
<1> QED
  BY <1>4, <1>5, <1>9 DEF CapitalInv

\* Every step keeps the invariant; all but three are calm.
LEMMA StepCapital == CapitalInv /\ [Next]_vars => CapitalInv'
<1> SUFFICES ASSUME CapitalInv, [Next]_vars
             PROVE  CapitalInv'
  OBVIOUS
<1>0. TypeOK' /\ Fresh' /\ PassedSizes'
  BY StepTypes, StepFresh, StepSizes DEF CapitalInv
<1> DEFINE Kept == RoomForCapital' /\ CapitalBudget'
<1>a. \A p \in Procs : Pending[p] \in Nat
  BY PendingSizes DEF CapitalInv
<1>1. ASSUME NEW p \in Procs, NEW r \in Runs, AssertPlan(p, r) PROVE Kept
  <2>1. day' = day /\ \A d \in Days : RunsOn(d)' = RunsOn(d)
    BY <1>1 DEF AssertPlan, RunsOn
  <2>2. \A q \in Procs : Pending'[q] = Pending[q]
    BY <1>1 DEF AssertPlan, Pending, Capital, CapitalInv, TypeOK
  <2>3. \A q \in Procs : Pending'[q] <= Pending[q]
    BY <1>a, <2>2
  <2> QED
    BY <1>0, <2>1, <2>3, CalmCapital
<1>2. ASSUME NEW p \in Procs, PlanAllowed(p) PROVE Kept
  BY <1>0, <1>2, AllowedKeepsCapital
<1>3. ASSUME NEW p \in Procs, PlanRefused(p) \/ Crash(p) PROVE Kept
  <2>1. day' = day /\ \A d \in Days : RunsOn(d)' = RunsOn(d)
    BY <1>3 DEF PlanRefused, Crash, RunsOn
  <2>2. \A q \in Procs : Pending'[q] = IF q = p THEN 0 ELSE Pending[q]
    BY <1>3 DEF PlanRefused, Crash, Return, Idle, Pending, Capital, CapitalInv, TypeOK
  <2>3. \A q \in Procs : Pending'[q] <= Pending[q]
    BY <1>a, <2>2
  <2> QED
    BY <1>0, <2>1, <2>3, CalmCapital
<1>4. ASSUME NEW p \in Procs, CreateRun(p) PROVE Kept
  BY <1>0, <1>4, CreateKeepsCapital
<1>5. ASSUME NEW r \in Runs, EndRun(r) \/ ReopenRun(r) PROVE Kept
  <2>1. /\ \A x \in Runs : run'[x].day = run[x].day
        /\ \A x \in Runs \ {r} : run'[x].status = run[x].status
        /\ run[r].status # "none" /\ run'[r].status # "none"
    BY <1>5 DEF EndRun, ReopenRun, CapitalInv, TypeOK
  <2>2. day' = day
    BY <1>5 DEF EndRun, ReopenRun
  <2>3. \A d \in Days : RunsOn(d)' = RunsOn(d)
    BY <2>1, <2>2 DEF RunsOn
  <2>4. \A q \in Procs : Pending'[q] <= Pending[q]
    BY <1>5, <1>a DEF EndRun, ReopenRun, Pending
  <2> QED
    BY <1>0, <2>2, <2>3, <2>4, CalmCapital
<1>6. ASSUME NextDay PROVE Kept
  BY <1>0, <1>6, MidnightKeepsCapital
<1>7. ASSUME UNCHANGED vars PROVE Kept
  <2>1. day' = day /\ \A d \in Days : RunsOn(d)' = RunsOn(d)
    BY <1>7 DEF vars, RunsOn
  <2>2. \A q \in Procs : Pending'[q] <= Pending[q]
    BY <1>7, <1>a DEF vars, Pending
  <2> QED
    BY <1>0, <2>1, <2>2, CalmCapital
<1>8. Kept
  BY <1>1, <1>2, <1>3, <1>4, <1>5, <1>6, <1>7 DEF Next, Step
<1> QED
  BY <1>0, <1>8 DEF CapitalInv

\* The capital of the live runs created on a day overruns its limit by at most
\* one largest plan for each further process, however many of the runs have
\* ended (assert_plan, create_run).
THEOREM CapitalBounded == Spec => []CapitalBudget
<1>1. CapitalInv => CapitalBudget
  BY DEF CapitalInv
<1> QED
  BY <1>1, InitCapital, StepCapital, PTL DEF Spec
=============================================================================
