---------------------------- MODULE CanaryOrders ----------------------------
(***************************************************************************)
(* The canary's limits on orders sent through an API, under concurrent     *)
(* commands.                                                               *)
(*                                                                         *)
(* CanaryGuard.authorize_order takes the start of the current UTC day,     *)
(* counts and sums the attempts recorded since, compares with the policy,  *)
(* and then inserts a row stamped with the time of the insertion; the venue *)
(* is called after that and finish_order records its answer. No transaction *)
(* spans the count and the insertion, each command has a connection of its *)
(* own, and midnight may fall anywhere. The policy is enabled and every    *)
(* order has a reference, as the coordinator's orders do.                  *)
(***************************************************************************)
EXTENDS Integers, FiniteSets, Functions

CONSTANTS
  Procs,                \* the commands that may be at work at the same time
  Orders,               \* orders, each one an operator and a reference
  Liability,            \* of an order
  MaxOrderLiability, MaxAttempts, MaxDailyLiability,
  None,
  MaxDay                \* bound: the last day

\* The limits are positive: the Field constraints of CanaryPolicy.
ASSUME PolicyAssumption ==
  /\ {MaxOrderLiability, MaxAttempts, MaxDailyLiability} \subseteq Nat \ {0}
  /\ Liability \in [Orders -> Nat]
  /\ MaxDay \in Nat

\* The table and the processes are finite.
ASSUME FiniteAssumption ==
  IsFiniteSet(Procs) /\ Procs # {} /\ IsFiniteSet(Orders)

VARIABLES
  day,      \* the UTC day
  attempt,  \* canary_order_attempts, unique by order: status and day
  call      \* call[p]: where p is, its order, and the day start it works with

vars == <<day, attempt, call>>

Days == 0 .. MaxDay
Idle == [at |-> "idle", order |-> None, start |-> 0]

Init ==
  /\ day = 0
  /\ attempt = [o \in Orders |-> [status |-> "none", day |-> 0]]
  /\ call = [p \in Procs |-> Idle]

---------------------------------------------------------------------------
\* (mutant) Only attempts whose outcome is not known yet are counted.
AttemptsSince_Pending(t) ==
  { o \in Orders : attempt[o].status = "authorized" /\ attempt[o].day >= t }

AttemptsSince(t) ==
  { o \in Orders : attempt[o].status # "none" /\ attempt[o].day >= t }

LiabilityOf(S) == SumFunctionOnSet(Liability, S)

\* (mutant) The order's own liability is left out of the sum.
WithinDay_BeforeOrder(o, t) ==
  /\ Cardinality(AttemptsSince(t)) < MaxAttempts
  /\ LiabilityOf(AttemptsSince(t)) <= MaxDailyLiability

WithinDay(o, t) ==
  /\ Cardinality(AttemptsSince(t)) < MaxAttempts
  /\ LiabilityOf(AttemptsSince(t)) + Liability[o] <= MaxDailyLiability

Goto(p, place) == call' = [call EXCEPT ![p].at = place]
Return(p) == call' = [call EXCEPT ![p] = Idle]

\* An order within the size limit; the day's start is kept in a local variable.
AuthorizeOrder(p, o) ==
  /\ call[p].at = "idle"
  /\ Liability[o] <= MaxOrderLiability
  /\ call' = [call EXCEPT ![p] = [at |-> "order", order |-> o, start |-> day]]
  /\ UNCHANGED <<day, attempt>>

\* The query and the comparisons.
OrderAllowed(p) ==
  /\ call[p].at = "order" /\ WithinDay(call[p].order, call[p].start)
  /\ Goto(p, "insert")
  /\ UNCHANGED <<day, attempt>>

OrderRefused(p) ==
  /\ call[p].at = "order" /\ ~ WithinDay(call[p].order, call[p].start)
  /\ Return(p)
  /\ UNCHANGED <<day, attempt>>

\* (mutant) A reference that is already there has its row replaced.
InsertAttempt_Upsert(p) ==
  /\ call[p].at = "insert"
  /\ attempt' = [attempt EXCEPT ![call[p].order] =
                   [status |-> "authorized", day |-> day]]
  /\ Goto(p, "sending")
  /\ UNCHANGED day

\* The row is committed before the venue is called.
InsertAttempt(p) ==
  /\ call[p].at = "insert" /\ attempt[call[p].order].status = "none"
  /\ attempt' = [attempt EXCEPT ![call[p].order] =
                   [status |-> "authorized", day |-> day]]
  /\ Goto(p, "sending")
  /\ UNCHANGED day

\* The unique index refuses a reference that is already there.
Duplicate(p) ==
  /\ call[p].at = "insert" /\ attempt[call[p].order].status # "none"
  /\ Return(p)
  /\ UNCHANGED <<day, attempt>>

\* The venue has answered or its call has raised.
FinishOrder(p) ==
  /\ call[p].at = "sending"
  /\ attempt' = [attempt EXCEPT ![call[p].order].status = "finished"]
  /\ Return(p)
  /\ UNCHANGED day

NextDay ==
  /\ day < MaxDay
  /\ day' = day + 1
  /\ UNCHANGED <<attempt, call>>

\* The process dies; an attempt it has recorded stays authorized for ever.
Crash(p) ==
  /\ call[p].at # "idle"
  /\ Return(p)
  /\ UNCHANGED <<day, attempt>>

Step(p) ==
  \/ \E o \in Orders : AuthorizeOrder(p, o)
  \/ OrderAllowed(p) \/ OrderRefused(p)
  \/ InsertAttempt(p) \/ Duplicate(p) \/ FinishOrder(p) \/ Crash(p)

Next == (\E p \in Procs : Step(p)) \/ NextDay

Spec == Init /\ [][Next]_vars

---------------------------------------------------------------------------
(* Properties                                                              *)

\* Types; no row and no day start is of a day that has not come.
TypeOK ==
  /\ day \in Days
  /\ attempt \in [Orders -> [status : {"none", "authorized", "finished"},
                             day : 0 .. day]]
  /\ call \in [Procs -> [at : {"idle", "order", "insert", "sending"},
                         order : Orders \cup {None}, start : 0 .. day]]
  /\ \A p \in Procs : call[p].at # "idle" => call[p].order \in Orders

\* How far a limit may be overrun: each other process may have passed the
\* check before the rows it should have counted were there.
Others == Cardinality(Procs) - 1

AttemptsOn(d) == { o \in Orders : attempt[o].status # "none" /\ attempt[o].day = d }

\* While the venue is being called for an order its attempt is on record and
\* still open, and no other process is calling for the same order
\* (src/docs/CANARY.md:39, "persisted before the underlying API call").
SendingIsRecorded ==
  \A p \in Procs : call[p].at = "sending" =>
    /\ attempt[call[p].order].status = "authorized"
    /\ \A q \in Procs \ {p} :
         call[q].at = "sending" => call[q].order # call[p].order

\* However the commands interleave and wherever midnight falls, the order
\* attempts of a UTC day, failed ones included, exceed
\* max_api_order_attempts_per_day by at most one for each further process; one
\* process at a time keeps the limit exactly.
AttemptBudget ==
  \A d \in Days : Cardinality(AttemptsOn(d)) <= MaxAttempts + Others

\* The liability authorised on a day exceeds max_daily_api_liability by at most
\* one largest order for each further process.
LiabilityBudget ==
  \A d \in Days :
    LiabilityOf(AttemptsOn(d)) <= MaxDailyLiability + Others * MaxOrderLiability
=============================================================================
