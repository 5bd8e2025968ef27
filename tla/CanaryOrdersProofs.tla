------------------------ MODULE CanaryOrdersProofs ------------------------
(***************************************************************************)
(* Proofs about CanaryOrders, for any orders, liabilities, limits, number  *)
(* of processes and of days: its type invariant, the order of recording    *)
(* and sending, and the daily limits on attempts and on liability.         *)
(***************************************************************************)
EXTENDS CanaryOrders, FiniteSetTheorems, SumTheorems, TLAPS

\* Initially no row and no call is there, and the day is the first.
LEMMA InitTypes == Init => TypeOK
  BY PolicyAssumption DEF Init, TypeOK, Days, Idle

\* One step, taken by one process, by midnight or by nobody, keeps the types.
LEMMA StepTypes == TypeOK /\ [Next]_vars => TypeOK'
<1> SUFFICES ASSUME TypeOK, [Next]_vars
             PROVE  TypeOK'
  OBVIOUS
<1> USE PolicyAssumption DEF TypeOK, Days
<1>1. ASSUME NEW p \in Procs, NEW o \in Orders, AuthorizeOrder(p, o) PROVE TypeOK'
  BY <1>1 DEF AuthorizeOrder
<1>2. ASSUME NEW p \in Procs, OrderAllowed(p) PROVE TypeOK'
  BY <1>2 DEF OrderAllowed, Goto
<1>3. ASSUME NEW p \in Procs, OrderRefused(p) \/ Duplicate(p) \/ Crash(p) PROVE TypeOK'
  BY <1>3 DEF OrderRefused, Duplicate, Crash, Return, Idle
<1>4. ASSUME NEW p \in Procs, InsertAttempt(p) PROVE TypeOK'
  <2>1. call[p].order \in Orders
    BY <1>4 DEF InsertAttempt
  <2> QED
    BY <1>4, <2>1 DEF InsertAttempt, Goto
<1>5. ASSUME NEW p \in Procs, FinishOrder(p) PROVE TypeOK'
  <2>1. call[p].order \in Orders
    BY <1>5 DEF FinishOrder
  <2> QED
    BY <1>5, <2>1 DEF FinishOrder, Return, Idle
<1>6. CASE NextDay
  <2>1. day' \in Days /\ 0 .. day \subseteq 0 .. day'
    BY <1>6 DEF NextDay
  <2> QED
    BY <1>6, <2>1 DEF NextDay
<1>7. CASE UNCHANGED vars
  BY <1>7 DEF vars
<1> QED
  BY <1>1, <1>2, <1>3, <1>4, <1>5, <1>6, <1>7 DEF Next, Step

\* Types: no row and no day start is of a day that has not come
\* (canary_order_attempts, _day_start).
THEOREM TypeCorrect == Spec => []TypeOK
  BY InitTypes, StepTypes, PTL DEF Spec

---------------------------------------------------------------------------
(* Recorded before it is sent                                              *)

\* A process begins to send with a row it has just inserted, and until it
\* finishes nobody can insert that row again or close it.
LEMMA StepSending ==
  TypeOK /\ SendingIsRecorded /\ [Next]_vars => SendingIsRecorded'
<1> SUFFICES ASSUME TypeOK, SendingIsRecorded, [Next]_vars
             PROVE  SendingIsRecorded'
  OBVIOUS
<1> USE DEF TypeOK, SendingIsRecorded
<1>1. ASSUME NEW p \in Procs, NEW o \in Orders, AuthorizeOrder(p, o)
      PROVE  SendingIsRecorded'
  BY <1>1 DEF AuthorizeOrder
<1>2. ASSUME NEW p \in Procs, OrderAllowed(p) PROVE SendingIsRecorded'
  BY <1>2 DEF OrderAllowed, Goto
<1>3. ASSUME NEW p \in Procs, OrderRefused(p) \/ Duplicate(p) \/ Crash(p)
      PROVE  SendingIsRecorded'
  <2>1. attempt' = attempt /\ \A q \in Procs : call'[q] = IF q = p THEN Idle ELSE call[q]
    BY <1>3 DEF OrderRefused, Duplicate, Crash, Return
  <2>2. Idle.at # "sending"
    BY DEF Idle
  <2> QED
    BY <2>1, <2>2
<1>4. ASSUME NEW p \in Procs, InsertAttempt(p) PROVE SendingIsRecorded'
  <2>1. call[p].order \in Orders /\ attempt[call[p].order].status = "none"
    BY <1>4 DEF InsertAttempt
  <2> QED
    BY <1>4, <2>1 DEF InsertAttempt, Goto
<1>5. ASSUME NEW p \in Procs, FinishOrder(p) PROVE SendingIsRecorded'
  <2>1. call[p].order \in Orders
    BY <1>5 DEF FinishOrder
  <2> QED
    BY <1>5, <2>1 DEF FinishOrder, Return, Idle
<1>6. CASE NextDay
  BY <1>6 DEF NextDay
<1>7. CASE UNCHANGED vars
  BY <1>7 DEF vars
<1> QED
  BY <1>1, <1>2, <1>3, <1>4, <1>5, <1>6, <1>7 DEF Next, Step

\* An order is on the canary's record before the venue is called for it, and
\* is being sent by one process at a time (authorize_order).
THEOREM RecordedFirst == Spec => []SendingIsRecorded
<1>1. Init => SendingIsRecorded
  BY DEF Init, SendingIsRecorded, Idle
<1> QED
  BY <1>1, InitTypes, StepTypes, StepSending, PTL DEF Spec

---------------------------------------------------------------------------
(* The daily limit                                                         *)

\* The processes that have passed the check and not yet inserted their row.
Inserting == { p \in Procs : call[p].at = "insert" }

\* A check passed today saw fewer than MaxAttempts of today's rows; whoever
\* passed it since then is still among the processes. This is what has to hold
\* of the current day; the days before do not change any more.
RoomToday ==
  Cardinality(AttemptsOn(day)) + Cardinality(Inserting) < MaxAttempts + Cardinality(Procs)

BudgetInv == TypeOK /\ SendingIsRecorded /\ RoomToday /\ AttemptBudget

\* Sets of processes and of orders can be counted.
LEMMA Counting ==
  /\ Cardinality(Procs) \in Nat \ {0}
  /\ \A S \in SUBSET Procs :
       IsFiniteSet(S) /\ Cardinality(S) \in Nat /\ Cardinality(S) <= Cardinality(Procs)
  /\ \A S \in SUBSET Orders :
       /\ IsFiniteSet(S) /\ Cardinality(S) \in Nat
       /\ \A T \in SUBSET S : Cardinality(T) <= Cardinality(S)
<1>1. Cardinality(Procs) \in Nat \ {0}
  BY FiniteAssumption, FS_CardinalityType, FS_EmptySet
<1>2. \A S \in SUBSET Procs :
        IsFiniteSet(S) /\ Cardinality(S) \in Nat /\ Cardinality(S) <= Cardinality(Procs)
  BY FiniteAssumption, FS_Subset, FS_CardinalityType
<1>3. \A S \in SUBSET Orders : IsFiniteSet(S) /\ Cardinality(S) \in Nat
  BY FiniteAssumption, FS_Subset, FS_CardinalityType
<1>4. \A S \in SUBSET Orders : \A T \in SUBSET S : Cardinality(T) <= Cardinality(S)
  BY <1>3, FS_Subset
<1> QED
  BY <1>1, <1>2, <1>3, <1>4

\* A step that records no attempt and lets no process pass the check.
LEMMA Calm ==
  ASSUME BudgetInv, TypeOK', day' = day, Inserting' \subseteq Inserting,
         \A d \in Days : AttemptsOn(d)' = AttemptsOn(d)
  PROVE  RoomToday' /\ AttemptBudget'
<1>1. Inserting \subseteq Procs /\ AttemptsOn(day) \subseteq Orders
  BY DEF Inserting, AttemptsOn
<1>2. IsFiniteSet(Inserting) /\ IsFiniteSet(Inserting')
        /\ Cardinality(Inserting) \in Nat /\ Cardinality(Inserting') \in Nat
        /\ Cardinality(AttemptsOn(day)) \in Nat
  BY <1>1, Counting
<1>3. Cardinality(Inserting') <= Cardinality(Inserting)
  BY <1>2, FS_Subset
<1>4. AttemptsOn(day)' = AttemptsOn(day)
  BY DEF BudgetInv, TypeOK
<1>5. RoomToday'
  BY <1>2, <1>3, <1>4, Counting, PolicyAssumption DEF BudgetInv, RoomToday
<1>6. AttemptBudget'
  BY DEF BudgetInv, AttemptBudget, Others, Days
<1> QED
  BY <1>5, <1>6

\* A process passes the check: the rows it counted include those of today.
LEMMA AllowedKeeps ==
  ASSUME BudgetInv, TypeOK', NEW p \in Procs, OrderAllowed(p)
  PROVE  RoomToday' /\ AttemptBudget'
<1> USE DEF BudgetInv
<1>1. AttemptsOn(day) \subseteq AttemptsSince(call[p].start)
  BY DEF TypeOK, AttemptsOn, AttemptsSince, Days
<1>2. Cardinality(AttemptsSince(call[p].start)) < MaxAttempts
  BY DEF OrderAllowed, WithinDay
<1>3. AttemptsSince(call[p].start) \subseteq Orders
  BY DEF AttemptsSince
<1>4. Cardinality(AttemptsOn(day)) < MaxAttempts /\ Cardinality(AttemptsOn(day)) \in Nat
  <2>1. AttemptsOn(day) \in SUBSET AttemptsSince(call[p].start)
    BY <1>1
  <2>2. Cardinality(AttemptsOn(day)) <= Cardinality(AttemptsSince(call[p].start))
    BY <2>1, <1>3, Counting
  <2>3. Cardinality(AttemptsOn(day)) \in Nat
          /\ Cardinality(AttemptsSince(call[p].start)) \in Nat
    BY <1>1, <1>3, Counting
  <2> QED
    BY <1>2, <2>2, <2>3, PolicyAssumption
<1>5. AttemptsOn(day)' = AttemptsOn(day) /\ \A d \in Days : AttemptsOn(d)' = AttemptsOn(d)
  BY DEF OrderAllowed, AttemptsOn
<1>6. Inserting' \subseteq Procs
  BY DEF Inserting
<1>7. Cardinality(Inserting') <= Cardinality(Procs) /\ Cardinality(Inserting') \in Nat
  BY <1>6, Counting
<1>8. RoomToday'
  BY <1>4, <1>5, <1>7, Counting, PolicyAssumption DEF RoomToday
<1>9. AttemptBudget'
  BY <1>5 DEF AttemptBudget, Others, Days
<1> QED
  BY <1>8, <1>9

\* A row is inserted: one attempt more, one process less that may insert.
LEMMA InsertKeeps ==
  ASSUME BudgetInv, TypeOK', NEW p \in Procs, InsertAttempt(p)
  PROVE  RoomToday' /\ AttemptBudget'
<1> USE DEF BudgetInv
<1> DEFINE o == call[p].order
<1>1. o \in Orders /\ day' = day /\ p \in Inserting
  BY DEF InsertAttempt, TypeOK, Inserting
<1>2. AttemptsOn(day)' = AttemptsOn(day) \cup {o} /\ o \notin AttemptsOn(day)
  BY <1>1 DEF InsertAttempt, TypeOK, AttemptsOn
<1>3. \A d \in Days \ {day} : AttemptsOn(d)' = AttemptsOn(d)
  <2> SUFFICES ASSUME NEW d \in Days \ {day} PROVE AttemptsOn(d)' = AttemptsOn(d)
    OBVIOUS
  <2>1. \A x \in Orders : attempt'[x] = IF x = o THEN [status |-> "authorized", day |-> day]
                                                ELSE attempt[x]
    BY <1>1 DEF InsertAttempt, TypeOK
  <2>2. attempt[o].status = "none"
    BY DEF InsertAttempt
  <2> QED
    BY <2>1, <2>2 DEF AttemptsOn
<1>4. Inserting' = Inserting \ {p}
  BY DEF InsertAttempt, Goto, TypeOK, Inserting
<1>5. Inserting \subseteq Procs /\ AttemptsOn(day) \subseteq Orders
  BY DEF Inserting, AttemptsOn
<1>6. Cardinality(AttemptsOn(day)') = Cardinality(AttemptsOn(day)) + 1
  BY <1>2, <1>5, Counting, FS_AddElement
<1>7. Cardinality(Inserting') = Cardinality(Inserting) - 1
  BY <1>1, <1>4, <1>5, Counting, FS_RemoveElement
<1>8. Cardinality(AttemptsOn(day)) \in Nat /\ Cardinality(Inserting) \in Nat
        /\ Cardinality(Inserting') \in Nat
  BY <1>4, <1>5, Counting
<1>9. RoomToday'
  BY <1>1, <1>6, <1>7, <1>8, Counting, PolicyAssumption DEF RoomToday
<1>10. Cardinality(AttemptsOn(day)') <= MaxAttempts + Others
  BY <1>6, <1>7, <1>8, Counting, PolicyAssumption DEF RoomToday, Others
<1>11. AttemptBudget'
  BY <1>1, <1>3, <1>10 DEF AttemptBudget, Others, Days, TypeOK
<1> QED
  BY <1>9, <1>11

\* Midnight: no row of the new day is there, whoever has passed a check before.
LEMMA MidnightKeeps ==
  ASSUME BudgetInv, TypeOK', NextDay
  PROVE  RoomToday' /\ AttemptBudget'
<1> USE DEF BudgetInv
<1>1. \A d \in Days : AttemptsOn(d)' = AttemptsOn(d)
  BY DEF NextDay, AttemptsOn
<1>2. AttemptsOn(day)' = {}
  BY DEF NextDay, AttemptsOn, TypeOK, Days
<1>3. Cardinality(AttemptsOn(day)') = 0
  BY <1>2, FS_EmptySet
<1>4. Inserting' \subseteq Procs
  BY DEF Inserting
<1>5. Cardinality(Inserting') <= Cardinality(Procs) /\ Cardinality(Inserting') \in Nat
  BY <1>4, Counting
<1>6. RoomToday'
  BY <1>3, <1>5, Counting, PolicyAssumption DEF RoomToday
<1>7. AttemptBudget'
  BY <1>1 DEF AttemptBudget, Others, Days
<1> QED
  BY <1>6, <1>7

\* A first day without rows or processes inside has room.
LEMMA InitBudget == Init => BudgetInv
<1> SUFFICES ASSUME Init PROVE BudgetInv
  OBVIOUS
<1>1. \A d \in Days : AttemptsOn(d) = {}
  BY DEF Init, AttemptsOn
<1>2. Inserting = {} /\ day \in Days
  BY PolicyAssumption DEF Init, Inserting, Idle, Days
<1>3. Cardinality({}) = 0
  BY FS_EmptySet
<1>4. RoomToday /\ AttemptBudget
  BY <1>1, <1>2, <1>3, Counting, PolicyAssumption DEF RoomToday, AttemptBudget, Others
<1> QED
  BY <1>4, InitTypes DEF BudgetInv, Init, SendingIsRecorded, Idle

\* Every step keeps the invariant; all but three are calm.
LEMMA StepBudget == BudgetInv /\ [Next]_vars => BudgetInv'
<1> SUFFICES ASSUME BudgetInv, [Next]_vars
             PROVE  BudgetInv'
  OBVIOUS
<1>0. TypeOK' /\ SendingIsRecorded'
  BY StepTypes, StepSending DEF BudgetInv
<1>1. ASSUME NEW p \in Procs, NEW o \in Orders, AuthorizeOrder(p, o)
      PROVE  RoomToday' /\ AttemptBudget'
  <2>1. day' = day /\ Inserting' \subseteq Inserting
          /\ \A d \in Days : AttemptsOn(d)' = AttemptsOn(d)
    BY <1>1 DEF AuthorizeOrder, Inserting, AttemptsOn, BudgetInv, TypeOK
  <2> QED
    BY <1>0, <2>1, Calm
<1>2. ASSUME NEW p \in Procs, OrderAllowed(p) PROVE RoomToday' /\ AttemptBudget'
  BY <1>0, <1>2, AllowedKeeps
<1>3. ASSUME NEW p \in Procs, OrderRefused(p) \/ Duplicate(p) \/ Crash(p)
      PROVE  RoomToday' /\ AttemptBudget'
  <2>1. day' = day /\ Inserting' \subseteq Inserting
          /\ \A d \in Days : AttemptsOn(d)' = AttemptsOn(d)
    BY <1>3 DEF OrderRefused, Duplicate, Crash, Return, Idle, Inserting, AttemptsOn,
                BudgetInv, TypeOK
  <2> QED
    BY <1>0, <2>1, Calm
<1>4. ASSUME NEW p \in Procs, InsertAttempt(p) PROVE RoomToday' /\ AttemptBudget'
  BY <1>0, <1>4, InsertKeeps
<1>5. ASSUME NEW p \in Procs, FinishOrder(p) PROVE RoomToday' /\ AttemptBudget'
  <2>1. call[p].order \in Orders /\ day' = day
    BY <1>5 DEF FinishOrder, BudgetInv, TypeOK
  <2>2. Inserting' \subseteq Inserting
    BY <1>5 DEF FinishOrder, Return, Idle, Inserting, BudgetInv, TypeOK
  <2>3. attempt[call[p].order].status # "none"
    BY <1>5 DEF FinishOrder, BudgetInv, SendingIsRecorded
  <2>4. \A d \in Days : AttemptsOn(d)' = AttemptsOn(d)
    BY <1>5, <2>1, <2>3 DEF FinishOrder, AttemptsOn, BudgetInv, TypeOK
  <2> QED
    BY <1>0, <2>1, <2>2, <2>4, Calm
<1>6. ASSUME NextDay PROVE RoomToday' /\ AttemptBudget'
  BY <1>0, <1>6, MidnightKeeps
<1>7. ASSUME UNCHANGED vars PROVE RoomToday' /\ AttemptBudget'
  <2>1. day' = day /\ Inserting' \subseteq Inserting
          /\ \A d \in Days : AttemptsOn(d)' = AttemptsOn(d)
    BY <1>7 DEF vars, Inserting, AttemptsOn
  <2> QED
    BY <1>0, <2>1, Calm
<1>8. RoomToday' /\ AttemptBudget'
  BY <1>1, <1>2, <1>3, <1>4, <1>5, <1>6, <1>7 DEF Next, Step
<1> QED
  BY <1>0, <1>8 DEF BudgetInv

\* The daily limit on order attempts is overrun by at most one attempt for each
\* further process, wherever midnight falls and whatever crashes
\* (authorize_order).
THEOREM AttemptsBounded == Spec => []AttemptBudget
<1>1. BudgetInv => AttemptBudget
  BY DEF BudgetInv
<1> QED
  BY <1>1, InitBudget, StepBudget, PTL DEF Spec

---------------------------------------------------------------------------
(* The daily liability                                                     *)

\* What p may still add to the day: the liability of the order it has passed
\* the check with and not yet recorded.
Pending == [p \in Procs |-> IF call[p].at = "insert" THEN Liability[call[p].order] ELSE 0]

\* An order at work is within the size limit, and one that has passed the check
\* is no larger than the limit of a day.
PassedSizes ==
  \A p \in Procs :
    /\ call[p].at # "idle" => Liability[call[p].order] <= MaxOrderLiability
    /\ call[p].at = "insert" => Liability[call[p].order] <= MaxDailyLiability

\* The last process to pass a check saw room for its own order; each other one
\* may add an order nobody has seen.
RoomForLiability ==
  LiabilityOf(AttemptsOn(day)) + SumFunctionOnSet(Pending, Procs)
    <= MaxDailyLiability + Others * MaxOrderLiability

LiabilityInv ==
  TypeOK /\ SendingIsRecorded /\ PassedSizes /\ RoomForLiability /\ LiabilityBudget

\* The sums are natural numbers, and so is the overrun.
LEMMA Sums ==
  /\ \A S \in SUBSET Orders : IsFiniteSet(S) /\ LiabilityOf(S) \in Nat
  /\ Others \in Nat /\ Others * MaxOrderLiability \in Nat
  /\ MaxDailyLiability \in Nat /\ MaxOrderLiability \in Nat
<1>1. \A S \in SUBSET Orders : IsFiniteSet(S)
  BY Counting
<1>2. \A S \in SUBSET Orders : LiabilityOf(S) \in Nat
  <2> SUFFICES ASSUME NEW S \in SUBSET Orders PROVE LiabilityOf(S) \in Nat
    OBVIOUS
  <2>1. IsFiniteSet(S) /\ \A x \in S : Liability[x] \in Nat
    BY <1>1, PolicyAssumption
  <2> QED
    BY <2>1, SumType DEF LiabilityOf
<1>3. Others \in Nat
  BY Counting DEF Others
<1>4. MaxDailyLiability \in Nat /\ MaxOrderLiability \in Nat
  BY PolicyAssumption
<1>5. \A a, b \in Nat : a * b \in Nat
  OBVIOUS
<1> QED
  BY <1>1, <1>2, <1>3, <1>4, <1>5

\* What is pending is a natural number for each process, and no larger than the
\* largest order and than the limit of a day.
LEMMA PendingSizes ==
  ASSUME TypeOK, PassedSizes
  PROVE  /\ \A p \in Procs : Pending[p] \in Nat /\ Pending[p] <= MaxOrderLiability
                               /\ Pending[p] <= MaxDailyLiability
         /\ SumFunctionOnSet(Pending, Procs) \in Nat
<1>1. \A p \in Procs : Pending[p] \in Nat /\ Pending[p] <= MaxOrderLiability
                         /\ Pending[p] <= MaxDailyLiability
  BY PolicyAssumption DEF Pending, TypeOK, PassedSizes
<1>2. SumFunctionOnSet(Pending, Procs) \in Nat
  BY <1>1, FiniteAssumption, SumType
<1> QED
  BY <1>1, <1>2

\* All but one of the processes.
LEMMA PendingOfOthers ==
  ASSUME TypeOK, PassedSizes, NEW p \in Procs
  PROVE  SumFunctionOnSet(Pending, Procs) <= Pending[p] + Others * MaxOrderLiability
<1>1. IsFiniteSet(Procs \ {p}) /\ Cardinality(Procs \ {p}) = Others
  BY FiniteAssumption, FS_RemoveElement DEF Others
<1>2. \A q \in Procs : Pending[q] \in Int /\ Pending[q] <= MaxOrderLiability
  BY PendingSizes
<1>3. SumFunctionOnSet(Pending, Procs \ {p}) <= Cardinality(Procs \ {p}) * MaxOrderLiability
  BY <1>1, <1>2, Sums, SumBounded
<1>4. SumFunctionOnSet(Pending, Procs)
        = Pending[p] + SumFunctionOnSet(Pending, Procs \ {p})
  BY <1>2, FiniteAssumption, SumRemove
<1>5. SumFunctionOnSet(Pending, Procs \ {p}) \in Int
  BY <1>1, <1>2, SumType
<1>6. SumFunctionOnSet(Pending, Procs \ {p}) <= Others * MaxOrderLiability
  BY <1>1, <1>3
<1> QED
  BY <1>2, <1>4, <1>5, <1>6, Sums

\* An order at work keeps its size.
LEMMA StepSizes == TypeOK /\ PassedSizes /\ [Next]_vars => PassedSizes'
<1> SUFFICES ASSUME TypeOK, PassedSizes, [Next]_vars
             PROVE  PassedSizes'
  OBVIOUS
<1> USE DEF TypeOK, PassedSizes
<1>1. ASSUME NEW p \in Procs, NEW o \in Orders, AuthorizeOrder(p, o) PROVE PassedSizes'
  BY <1>1 DEF AuthorizeOrder
<1>2. ASSUME NEW p \in Procs, OrderAllowed(p) PROVE PassedSizes'
  <2>1. AttemptsSince(call[p].start) \in SUBSET Orders /\ call[p].order \in Orders
    BY <1>2 DEF AttemptsSince, OrderAllowed
  <2>2. LiabilityOf(AttemptsSince(call[p].start)) \in Nat /\ Liability[call[p].order] \in Nat
    BY <2>1, Sums, PolicyAssumption
  <2>3. Liability[call[p].order] <= MaxDailyLiability
    BY <1>2, <2>2, Sums DEF OrderAllowed, WithinDay
  <2> QED
    BY <1>2, <2>3 DEF OrderAllowed, Goto
<1>3. ASSUME NEW p \in Procs, OrderRefused(p) \/ Duplicate(p) \/ Crash(p) PROVE PassedSizes'
  BY <1>3 DEF OrderRefused, Duplicate, Crash, Return, Idle
<1>4. ASSUME NEW p \in Procs, InsertAttempt(p) PROVE PassedSizes'
  BY <1>4 DEF InsertAttempt, Goto
<1>5. ASSUME NEW p \in Procs, FinishOrder(p) PROVE PassedSizes'
  BY <1>5 DEF FinishOrder, Return, Idle
<1>6. CASE NextDay
  BY <1>6 DEF NextDay
<1>7. CASE UNCHANGED vars
  BY <1>7 DEF vars
<1> QED
  BY <1>1, <1>2, <1>3, <1>4, <1>5, <1>6, <1>7 DEF Next, Step

\* A step that records no attempt and leaves no more pending.
LEMMA CalmLiability ==
  ASSUME LiabilityInv, TypeOK', PassedSizes', day' = day,
         \A p \in Procs : Pending'[p] <= Pending[p],
         \A d \in Days : AttemptsOn(d)' = AttemptsOn(d)
  PROVE  RoomForLiability' /\ LiabilityBudget'
<1>1. \A p \in Procs : Pending[p] \in Nat
  BY PendingSizes DEF LiabilityInv
<1>2. SumFunctionOnSet(Pending, Procs) \in Nat
  BY PendingSizes DEF LiabilityInv
<1>3. \A p \in Procs : Pending'[p] \in Nat
  BY PolicyAssumption DEF Pending, TypeOK
<1>4. SumFunctionOnSet(Pending', Procs) \in Nat
  BY <1>3, FiniteAssumption, SumType
<1>5. SumFunctionOnSet(Pending', Procs) <= SumFunctionOnSet(Pending, Procs)
  <2>1. \A p \in Procs : Pending'[p] \in Int /\ Pending[p] \in Int /\ Pending'[p] <= Pending[p]
    BY <1>1, <1>3
  <2> QED
    BY <2>1, FiniteAssumption, SumOfLess
<1>6. AttemptsOn(day)' = AttemptsOn(day) /\ AttemptsOn(day) \in SUBSET Orders
  BY DEF LiabilityInv, TypeOK, AttemptsOn
<1>7. LiabilityOf(AttemptsOn(day))' = LiabilityOf(AttemptsOn(day))
        /\ LiabilityOf(AttemptsOn(day)) \in Nat
  BY <1>6, Sums DEF LiabilityOf
<1>8. RoomForLiability'
  BY <1>2, <1>4, <1>5, <1>7, Sums DEF LiabilityInv, RoomForLiability, Others
<1>9. LiabilityBudget'
  BY DEF LiabilityInv, LiabilityBudget, LiabilityOf, Others, Days
<1> QED
  BY <1>8, <1>9

\* A process passes the check: the rows it summed up include those of today.
LEMMA AllowedKeepsLiability ==
  ASSUME LiabilityInv, TypeOK', PassedSizes', NEW p \in Procs, OrderAllowed(p)
  PROVE  RoomForLiability' /\ LiabilityBudget'
<1> USE DEF LiabilityInv
<1>1. call[p].order \in Orders /\ Liability[call[p].order] \in Nat
  BY PolicyAssumption DEF OrderAllowed, TypeOK
<1>2. AttemptsOn(day) \in SUBSET AttemptsSince(call[p].start)
  BY DEF TypeOK, AttemptsOn, AttemptsSince, Days
<1>3. AttemptsSince(call[p].start) \in SUBSET Orders /\ AttemptsOn(day) \in SUBSET Orders
  BY DEF AttemptsSince, AttemptsOn
<1>4. LiabilityOf(AttemptsSince(call[p].start)) + Liability[call[p].order] <= MaxDailyLiability
  BY DEF OrderAllowed, WithinDay
<1>5. LiabilityOf(AttemptsOn(day)) <= LiabilityOf(AttemptsSince(call[p].start))
  <2>1. IsFiniteSet(AttemptsSince(call[p].start))
          /\ \A x \in AttemptsSince(call[p].start) : Liability[x] \in Nat
    BY <1>3, Sums, PolicyAssumption
  <2> QED
    BY <1>2, <2>1, SumMonotone DEF LiabilityOf
<1>6. LiabilityOf(AttemptsOn(day)) + Liability[call[p].order] <= MaxDailyLiability
  BY <1>1, <1>3, <1>4, <1>5, Sums
<1>7. \A d \in Days : AttemptsOn(d)' = AttemptsOn(d)
  BY DEF OrderAllowed, AttemptsOn
<1>8. AttemptsOn(day)' = AttemptsOn(day)
  BY DEF OrderAllowed, AttemptsOn
<1>9. Pending'[p] = Liability[call[p].order]
  BY <1>1 DEF OrderAllowed, Goto, TypeOK, Pending
<1>10. SumFunctionOnSet(Pending, Procs)' <= Pending'[p] + Others * MaxOrderLiability
  <2>1. (SumFunctionOnSet(Pending, Procs) <= Pending[p] + Others * MaxOrderLiability)'
    BY PendingOfOthers, PTL
  <2> QED
    BY <2>1 DEF Others
<1>11. SumFunctionOnSet(Pending', Procs) \in Nat
  <2>1. \A q \in Procs : Pending'[q] \in Nat
    BY PolicyAssumption DEF Pending, TypeOK
  <2> QED
    BY <2>1, FiniteAssumption, SumType
<1>12. LiabilityOf(AttemptsOn(day))' = LiabilityOf(AttemptsOn(day))
         /\ LiabilityOf(AttemptsOn(day)) \in Nat
  BY <1>3, <1>8, Sums DEF LiabilityOf
<1>13. RoomForLiability'
  BY <1>1, <1>6, <1>9, <1>10, <1>11, <1>12, Sums DEF RoomForLiability, Others
<1>14. LiabilityBudget'
  BY <1>7 DEF LiabilityBudget, LiabilityOf, Others, Days
<1> QED
  BY <1>13, <1>14

\* A row is inserted: what was pending is on record.
LEMMA InsertKeepsLiability ==
  ASSUME LiabilityInv, TypeOK', PassedSizes', NEW p \in Procs, InsertAttempt(p)
  PROVE  RoomForLiability' /\ LiabilityBudget'
<1> USE DEF LiabilityInv
<1> DEFINE o == call[p].order
<1>1. o \in Orders /\ Liability[o] \in Nat /\ day' = day
  BY PolicyAssumption DEF InsertAttempt, TypeOK
<1>2. AttemptsOn(day)' = AttemptsOn(day) \cup {o} /\ o \notin AttemptsOn(day)
  BY <1>1 DEF InsertAttempt, TypeOK, AttemptsOn
<1>3. \A d \in Days \ {day} : AttemptsOn(d)' = AttemptsOn(d)
  <2> SUFFICES ASSUME NEW d \in Days \ {day} PROVE AttemptsOn(d)' = AttemptsOn(d)
    OBVIOUS
  <2>1. \A x \in Orders : attempt'[x] = IF x = o THEN [status |-> "authorized", day |-> day]
                                                ELSE attempt[x]
    BY <1>1 DEF InsertAttempt, TypeOK
  <2>2. attempt[o].status = "none"
    BY DEF InsertAttempt
  <2> QED
    BY <2>1, <2>2 DEF AttemptsOn
<1>4. AttemptsOn(day) \in SUBSET Orders
  BY DEF AttemptsOn
<1>5. LiabilityOf(AttemptsOn(day) \cup {o}) = LiabilityOf(AttemptsOn(day)) + Liability[o]
  <2>1. IsFiniteSet(AttemptsOn(day)) /\ \A y \in AttemptsOn(day) \cup {o} : Liability[y] \in Int
    BY <1>1, <1>4, Sums, PolicyAssumption
  <2> HIDE DEF o
  <2> QED
    BY <1>2, <2>1, SumInsert DEF LiabilityOf
<1>6. LiabilityOf(AttemptsOn(day))' = LiabilityOf(AttemptsOn(day)) + Liability[o]
  BY <1>2, <1>5 DEF LiabilityOf
<1>7. \A q \in Procs : Pending[q] \in Int /\ Pending'[q] \in Nat
  <2>1. \A q \in Procs : Pending'[q] \in Nat
    BY PolicyAssumption DEF Pending, TypeOK
  <2> QED
    BY <2>1, PendingSizes
<1>8. Pending[p] = Liability[o] /\ Pending'[p] = 0
  BY DEF InsertAttempt, Goto, TypeOK, Pending
<1>9. \A q \in Procs \ {p} : Pending'[q] = Pending[q]
  BY DEF InsertAttempt, Goto, TypeOK, Pending
<1>10. SumFunctionOnSet(Pending', Procs)
         = SumFunctionOnSet(Pending, Procs) - Pending[p] + Pending'[p]
  BY <1>7, <1>9, FiniteAssumption, SumOfOneChange
<1>11. SumFunctionOnSet(Pending, Procs) \in Nat /\ SumFunctionOnSet(Pending', Procs) \in Nat
  BY <1>7, PendingSizes, FiniteAssumption, SumType
<1>12. LiabilityOf(AttemptsOn(day)) \in Nat
  BY <1>4, Sums
<1>13. RoomForLiability'
  BY <1>1, <1>6, <1>8, <1>10, <1>11, <1>12, Sums DEF RoomForLiability, Others
<1>14. LiabilityOf(AttemptsOn(day))' <= MaxDailyLiability + Others * MaxOrderLiability
  BY <1>1, <1>6, <1>8, <1>10, <1>11, <1>12, Sums DEF RoomForLiability
<1>15. LiabilityBudget'
  BY <1>1, <1>3, <1>14 DEF LiabilityBudget, LiabilityOf, Others, Days, TypeOK
<1> QED
  BY <1>13, <1>15

\* Midnight: the new day has no row yet, and each process may bring the order
\* it has passed the check with the day before.
LEMMA MidnightKeepsLiability ==
  ASSUME LiabilityInv, TypeOK', PassedSizes', NextDay
  PROVE  RoomForLiability' /\ LiabilityBudget'
<1> USE DEF LiabilityInv
<1>1. \A d \in Days : AttemptsOn(d)' = AttemptsOn(d)
  BY DEF NextDay, AttemptsOn
<1>2. AttemptsOn(day)' = {}
  BY DEF NextDay, AttemptsOn, TypeOK, Days
<1>3. LiabilityOf(AttemptsOn(day))' = 0
  BY <1>2, SumEmpty DEF LiabilityOf
<1>4. Pending' = Pending
  BY DEF NextDay, Pending
<1>5. PICK p \in Procs : TRUE
  BY FiniteAssumption
<1>6. SumFunctionOnSet(Pending, Procs) <= Pending[p] + Others * MaxOrderLiability
  BY PendingOfOthers
<1>7. Pending[p] \in Nat /\ Pending[p] <= MaxDailyLiability
        /\ SumFunctionOnSet(Pending, Procs) \in Nat
  BY PendingSizes
<1>8. RoomForLiability'
  BY <1>3, <1>4, <1>6, <1>7, Sums DEF RoomForLiability, Others
<1>9. LiabilityBudget'
  BY <1>1 DEF LiabilityBudget, LiabilityOf, Others, Days
<1> QED
  BY <1>8, <1>9

\* Nothing is recorded or pending at first.
LEMMA InitLiability == Init => LiabilityInv
<1> SUFFICES ASSUME Init PROVE LiabilityInv
  OBVIOUS
<1>1. \A d \in Days : AttemptsOn(d) = {}
  BY DEF Init, AttemptsOn
<1>2. LiabilityOf({}) = 0
  BY SumEmpty DEF LiabilityOf
<1>3. \A p \in Procs : call[p].at = "idle"
  BY DEF Init, Idle
<1>4. PassedSizes
  BY <1>3 DEF PassedSizes
<1>5. TypeOK
  BY InitTypes
<1>6. SumFunctionOnSet(Pending, Procs) <= 0 /\ SumFunctionOnSet(Pending, Procs) \in Nat
  <2>1. \A p \in Procs : Pending[p] \in Int /\ Pending[p] <= 0
    BY <1>3 DEF Pending
  <2>2. SumFunctionOnSet(Pending, Procs) <= Cardinality(Procs) * 0
    BY <2>1, FiniteAssumption, SumBounded
  <2>3. Cardinality(Procs) * 0 = 0
    BY Counting
  <2> QED
    BY <1>4, <1>5, <2>2, <2>3, PendingSizes
<1>7. day \in Days
  BY <1>5 DEF TypeOK
<1>8. \A d \in Days : LiabilityOf(AttemptsOn(d)) = 0
  BY <1>1, <1>2, Zenon
<1>9. RoomForLiability /\ LiabilityBudget
  BY <1>6, <1>7, <1>8, Sums DEF RoomForLiability, LiabilityBudget
<1> QED
  BY <1>4, <1>5, <1>9 DEF LiabilityInv, Init, SendingIsRecorded, Idle

\* Every step keeps the invariant; all but three are calm.
LEMMA StepLiability == LiabilityInv /\ [Next]_vars => LiabilityInv'
<1> SUFFICES ASSUME LiabilityInv, [Next]_vars
             PROVE  LiabilityInv'
  OBVIOUS
<1>0. TypeOK' /\ SendingIsRecorded' /\ PassedSizes'
  BY StepTypes, StepSending, StepSizes DEF LiabilityInv
<1> DEFINE Kept == RoomForLiability' /\ LiabilityBudget'
<1>a. \A p \in Procs : Pending[p] \in Nat
  BY PendingSizes DEF LiabilityInv
<1>1. ASSUME NEW p \in Procs, NEW o \in Orders, AuthorizeOrder(p, o) PROVE Kept
  <2>1. day' = day /\ \A d \in Days : AttemptsOn(d)' = AttemptsOn(d)
    BY <1>1 DEF AuthorizeOrder, AttemptsOn
  <2>2. \A q \in Procs : Pending'[q] = Pending[q]
    BY <1>1 DEF AuthorizeOrder, Pending, LiabilityInv, TypeOK
  <2>3. \A q \in Procs : Pending'[q] <= Pending[q]
    BY <1>a, <2>2
  <2> QED
    BY <1>0, <2>1, <2>3, CalmLiability
<1>2. ASSUME NEW p \in Procs, OrderAllowed(p) PROVE Kept
  BY <1>0, <1>2, AllowedKeepsLiability
<1>3. ASSUME NEW p \in Procs, OrderRefused(p) \/ Duplicate(p) \/ Crash(p) PROVE Kept
  <2>1. day' = day /\ \A d \in Days : AttemptsOn(d)' = AttemptsOn(d)
    BY <1>3 DEF OrderRefused, Duplicate, Crash, AttemptsOn
  <2>2. \A q \in Procs : Pending'[q] = IF q = p THEN 0 ELSE Pending[q]
    BY <1>3 DEF OrderRefused, Duplicate, Crash, Return, Idle, Pending, LiabilityInv, TypeOK
  <2>3. \A q \in Procs : Pending'[q] <= Pending[q]
    BY <1>a, <2>2
  <2> QED
    BY <1>0, <2>1, <2>3, CalmLiability
<1>4. ASSUME NEW p \in Procs, InsertAttempt(p) PROVE Kept
  BY <1>0, <1>4, InsertKeepsLiability
<1>5. ASSUME NEW p \in Procs, FinishOrder(p) PROVE Kept
  <2>1. call[p].order \in Orders /\ day' = day
    BY <1>5 DEF FinishOrder, LiabilityInv, TypeOK
  <2>2. attempt[call[p].order].status # "none"
    BY <1>5 DEF FinishOrder, LiabilityInv, SendingIsRecorded
  <2>3. \A d \in Days : AttemptsOn(d)' = AttemptsOn(d)
    BY <1>5, <2>1, <2>2 DEF FinishOrder, AttemptsOn, LiabilityInv, TypeOK
  <2>4. \A q \in Procs : Pending'[q] = IF q = p THEN 0 ELSE Pending[q]
    BY <1>5 DEF FinishOrder, Return, Idle, Pending, LiabilityInv, TypeOK
  <2>5. \A q \in Procs : Pending'[q] <= Pending[q]
    BY <1>a, <2>4
  <2> QED
    BY <1>0, <2>1, <2>3, <2>5, CalmLiability
<1>6. ASSUME NextDay PROVE Kept
  BY <1>0, <1>6, MidnightKeepsLiability
<1>7. ASSUME UNCHANGED vars PROVE Kept
  <2>1. day' = day /\ \A d \in Days : AttemptsOn(d)' = AttemptsOn(d)
    BY <1>7 DEF vars, AttemptsOn
  <2>2. \A q \in Procs : Pending'[q] <= Pending[q]
    BY <1>7, <1>a DEF vars, Pending
  <2> QED
    BY <1>0, <2>1, <2>2, CalmLiability
<1>8. Kept
  BY <1>1, <1>2, <1>3, <1>4, <1>5, <1>6, <1>7 DEF Next, Step
<1> QED
  BY <1>0, <1>8 DEF LiabilityInv

\* The liability authorised on a day overruns its limit by at most one largest
\* order for each further process, wherever midnight falls and whatever crashes
\* (authorize_order).
THEOREM LiabilityBounded == Spec => []LiabilityBudget
<1>1. LiabilityInv => LiabilityBudget
  BY DEF LiabilityInv
<1> QED
  BY <1>1, InitLiability, StepLiability, PTL DEF Spec
=============================================================================
