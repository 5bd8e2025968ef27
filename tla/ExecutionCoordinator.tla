----------------------- MODULE ExecutionCoordinator -----------------------
(***************************************************************************)
(* The execution core of Sportage: the coordinator's commands (prepare,    *)
(* confirm, resume), the zero-exposure abort, the operator's halt and      *)
(* resolve-emergency, and the durable ledger they share.                   *)
(*                                                                         *)
(* Each command is a process of its own. All of them work on one SQLite    *)
(* file, and every store method commits by itself, so each database write  *)
(* and each venue call is a step of its own: other processes run between   *)
(* any two of them, and a process can die between any two of them.         *)
(***************************************************************************)
EXTENDS VenueReplies, FiniteSets

CONSTANTS
  Executions,      \* execution ids
  Markets,         \* event+market keys
  Procs,           \* command processes that can run at the same time
  Retail,          \* the operator of a manual leg
  None,            \* no execution
  NLegs,           \* legs of a plan, one per outcome
  Opportunities,   \* what prepare can be called on
  MaxAttempts,     \* CanaryPolicy.max_api_order_attempts_per_day
  MaxCrashes,      \* bound: how many times a process dies
  Liberties        \* how operators depart from the procedure; {}: they do not

Legs   == 1..NLegs
Rescue == 0              \* the ledger row of the rescue leg R1
Slots  == 0..NLegs
Plan   == [market : Markets, live : BOOLEAN, venue : [Legs -> Venues \cup {Retail}]]
Key    == Executions \X Slots \X (Venues \cup {Retail})

\* What no code prevents operators from doing: abort or resolve a run that a
\* command is working on, abort without reporting a bet they placed, report on
\* a run that no longer waits or a second time, clear the halt with a run still
\* in emergency.
Liberty == {"abort_busy", "resolve_busy", "abort_unreported", "late_confirm",
            "clear_early"}

ASSUME CoreAssumption ==
  /\ NLegs \in Nat \ {0}
  /\ Retail \notin Venues
  /\ None \notin Executions
  /\ Opportunities \subseteq Plan
  /\ MaxAttempts \in Nat
  /\ MaxCrashes \in Nat
  /\ Liberties \subseteq Liberty

RunStatus == {"none", "prepared", "waiting_manual", "executing", "rescuing",
              "rescued", "completed", "aborted", "emergency"}
Terminal  == {"completed", "rescued", "aborted"}
LegStatus == ResultStatus \cup {"absent", "prepared", "manual_required"}
LegRow    == [status : LegStatus, matched : Stakes]

Steps == {"idle", "lock", "create", "legs", "undo",
          "halt_check", "mark", "leg", "preflight", "gate", "send",
          "reconcile", "cancel", "requery", "save", "orphan", "route",
          "settle", "set_halt", "release", "resolve", "clear_halt"}

\* What a process remembers: the run it works on, the loop index, the ledger
\* row and venue of the order in hand, that order's result, the status it is
\* about to record, and its circuit breakers (execution_health is per process).
Job == [run : Executions \cup {None}, leg : 1..(NLegs + 1), slot : Slots,
        via : Venues \cup {Retail}, res : Result, verdict : RunStatus,
        tripped : SUBSET Venues]

IdleJob == [run |-> None, leg |-> 1, slot |-> Rescue, via |-> Retail,
            res |-> Unknown, verdict |-> "none", tripped |-> {}]

VARIABLES
  plan,       \* plan_json of each execution
  runStatus,  \* execution_runs.status
  legs,       \* execution_legs: status and matched stake, by leg
  lock,       \* execution_locks: the execution that holds each market
  halted,     \* execution_control.halted
  attempts,   \* canary_order_attempts: the (operator, reference) pairs
  book,       \* what each venue really holds, by order
  sent,       \* how often each order was submitted to its venue
  confirmed,  \* executions whose manual leg was reported accepted
  neutralised,\* executions whose positions an operator closed by hand
  pc, job,    \* the processes
  crashes

ledger == <<runStatus, legs, lock, halted, attempts>>
venue  == <<book, sent>>
told   == <<confirmed, neutralised>>
vars   == <<plan, runStatus, legs, lock, halted, attempts, book, sent,
            confirmed, neutralised, pc, job, crashes>>

-----------------------------------------------------------------------------
(* Helpers *)

HasManual(e) == \E l \in Legs : plan[e].venue[l] = Retail
Run(p) == job[p].run
K(p)   == <<job[p].run, job[p].slot, job[p].via>>

AtWork(e) == \E p \in Procs : Run(p) = e

Goto(p, s) == pc' = [pc EXCEPT ![p] = s]
Finish(p)  == Goto(p, "idle") /\ job' = [job EXCEPT ![p] = IdleJob]
Start(p, e, s) ==
  /\ pc[p] = "idle"
  /\ Goto(p, s)
  /\ job' = [job EXCEPT ![p] = [IdleJob EXCEPT !.run = e]]

SetRun(e, s) == runStatus' = [runStatus EXCEPT ![e] = s]
\* (mutant) The row keeps its old matched stake.
SaveLeg_StatusOnly(e, l, r) == legs' = [legs EXCEPT ![e][l].status = r.status]
SaveLeg(e, l, r) ==
  legs' = [legs EXCEPT ![e][l] = [status |-> r.status, matched |-> r.matched]]

\* (mutant) The lock is deleted whoever holds it.
Release_AnyOwner(e) == lock' = [lock EXCEPT ![plan[e].market] = None]
\* release_lock deletes the row only if it belongs to the execution.
Release(e) ==
  lock' = [lock EXCEPT ![plan[e].market] = IF @ = e THEN None ELSE @]

\* staged.sort: the manual leg, of which there is at most one, goes first.
ManualFirst(v) ==
  IF \E m \in Legs : v[m] = Retail
  THEN LET m == CHOOSE i \in Legs : v[i] = Retail
       IN  [i \in Legs |-> IF i = 1 THEN v[m] ELSE IF i <= m THEN v[i - 1] ELSE v[i]]
  ELSE v

\* An execution id nobody has used: prepare draws a new uuid.
Fresh(e) ==
  /\ runStatus[e] = "none"
  /\ ~AtWork(e)
  /\ \A m \in Markets : lock[m] # e

\* (mutant) Every leg with an order result counts as exposure.
Positive_AnyResult(e) == {l \in Legs : legs[e][l].status \in ResultStatus}
\* _accepted_exposure counts the plan's legs with a matched stake.
Positive(e) == {l \in Legs : legs[e][l].matched > 0}
Missing(e)  == Legs \ Positive(e)
\* (mutant) A partial match counts as accepted.
Accepted_AnyMatch(e) == {l \in Slots : legs[e][l].matched > 0}
Accepted(e) == {l \in Slots : legs[e][l].status = "accepted"}

\* (mutant) The venue that failed stays available.
Trip_StaysHealthy(p, r) == [job EXCEPT ![p].res = r]
Trip(p, r) == [job EXCEPT ![p].res = r, ![p].tripped = @ \cup {job[p].via}]

-----------------------------------------------------------------------------
(* prepare *)

PrepareStart(p, e) ==
  /\ Fresh(e)
  /\ ~halted
  /\ Cardinality({l \in Legs : plan[e].venue[l] = Retail}) <= 1
  /\ \E l \in Legs : plan[e].venue[l] # Retail
  /\ plan' = [plan EXCEPT ![e].venue = ManualFirst(@)]
  /\ Start(p, e, "lock")
  /\ UNCHANGED <<ledger, venue, told, crashes>>

PrepareLock(p) ==
  /\ pc[p] = "lock"
  /\ \/ /\ lock[plan[Run(p)].market] = None
        /\ lock' = [lock EXCEPT ![plan[Run(p)].market] = Run(p)]
        /\ Goto(p, "create")
        /\ job' = job
     \/ /\ lock[plan[Run(p)].market] # None
        /\ Finish(p)
        /\ lock' = lock
  /\ UNCHANGED <<plan, runStatus, legs, halted, attempts, venue, told, crashes>>

PrepareCreate(p) ==
  /\ pc[p] = "create"
  /\ SetRun(Run(p), IF HasManual(Run(p)) THEN "waiting_manual" ELSE "prepared")
  /\ Goto(p, "legs")
  /\ UNCHANGED <<plan, legs, lock, halted, attempts, venue, told, job, crashes>>

\* CanaryGuard.assert_plan, called by create_run for live runs only, refuses.
PrepareRefused(p) ==
  /\ pc[p] = "create"
  /\ plan[Run(p)].live
  /\ Goto(p, "undo")
  /\ UNCHANGED <<plan, ledger, venue, told, job, crashes>>

PrepareLeg(p) ==
  LET l == job[p].leg
      s == IF plan[Run(p)].venue[l] = Retail THEN "manual_required" ELSE "prepared"
  IN
  /\ pc[p] = "legs"
  /\ SaveLeg(Run(p), l, Reported(s, 0))
  /\ IF l = NLegs THEN Finish(p)
     ELSE job' = [job EXCEPT ![p].leg = l + 1] /\ pc' = pc
  /\ UNCHANGED <<plan, runStatus, lock, halted, attempts, venue, told, crashes>>

\* A write of prepare raises: the lock goes, what was written stays.
PrepareError(p) ==
  /\ pc[p] \in {"create", "legs"}
  /\ crashes < MaxCrashes
  /\ crashes' = crashes + 1
  /\ Goto(p, "undo")
  /\ UNCHANGED <<plan, ledger, venue, told, job>>

PrepareUndo(p) ==
  /\ pc[p] = "undo"
  /\ Release(Run(p))
  /\ Finish(p)
  /\ UNCHANGED <<plan, runStatus, legs, halted, attempts, venue, told, crashes>>

-----------------------------------------------------------------------------
(* The manual leg: the operator's bet, and confirm *)

ManualKey(e) == <<e, 1, Retail>>

\* The operator follows the link that prepare printed and the bookmaker takes
\* the bet, or a part of it.
OperatorBets(e, m) ==
  /\ runStatus[e] = "waiting_manual"
  /\ plan[e].live
  /\ legs[e][1].status = "manual_required"
  /\ book[ManualKey(e)] = Untouched
  /\ book' = [book EXCEPT ![ManualKey(e)] = Closed(m)]
  /\ UNCHANGED <<plan, ledger, sent, told, pc, job, crashes>>

\* confirm_manual_leg itself looks at no status, neither the run's nor the
\* leg's, and takes no lock; the procedure is to report once, on a run that
\* still waits for it. An operator knows of a run whose first row is there.
MayConfirm(e) ==
  \/ runStatus[e] = "waiting_manual"
  \/ "late_confirm" \in Liberties /\ legs[e][1].status # "absent"

ConfirmAccepted(p, e) ==
  LET m == book[ManualKey(e)].held IN
  /\ HasManual(e) /\ MayConfirm(e)
  /\ plan[e].live
  /\ m > 0
  /\ SaveLeg(e, 1, Reported(IF m >= Full THEN "accepted" ELSE "partially_matched", m))
  /\ confirmed' = confirmed \cup {e}
  /\ pc[p] = "idle"
  /\ Goto(p, "settle")
  /\ job' = [job EXCEPT ![p] = [IdleJob EXCEPT
       !.run = e, !.verdict = IF m >= Full THEN "prepared" ELSE "rescuing"]]
  /\ UNCHANGED <<plan, runStatus, lock, halted, attempts, venue, neutralised, crashes>>

ConfirmRejected(p, e) ==
  /\ HasManual(e) /\ MayConfirm(e)
  /\ book[ManualKey(e)].held = 0
  /\ SaveLeg(e, 1, Rejected)
  /\ pc[p] = "idle"
  /\ Goto(p, "settle")
  /\ job' = [job EXCEPT ![p] = [IdleJob EXCEPT !.run = e, !.verdict = "aborted"]]
  /\ UNCHANGED <<plan, runStatus, lock, halted, attempts, venue, told, crashes>>

-----------------------------------------------------------------------------
(* abort, one IMMEDIATE transaction *)

UnsafeLegStatuses == {"accepted", "partially_matched", "pending", "unknown"}

AbortIfFlat(e) ==
  /\ runStatus[e] \in {"waiting_manual", "prepared"}
  /\ \E l \in Slots : legs[e][l].status # "absent"
  /\ \A l \in Slots : /\ legs[e][l].status \notin UnsafeLegStatuses
                      /\ legs[e][l].matched = 0
  /\ lock[plan[e].market] \in {None, e}
  /\ AtWork(e) => "abort_busy" \in Liberties
  /\ book[ManualKey(e)].held > 0 => "abort_unreported" \in Liberties
  /\ SetRun(e, "aborted")
  /\ Release(e)
  /\ UNCHANGED <<plan, legs, halted, attempts, venue, told, pc, job, crashes>>

-----------------------------------------------------------------------------
(* resume: checks and the loop over the plan's legs *)

\* (mutant) A run that waits for its manual leg is taken too.
ResumeLoad_Waiting(p, e) ==
  /\ runStatus[e] \notin Terminal \cup {"none"}
  /\ plan[e].live
  /\ Start(p, e, "halt_check")
  /\ UNCHANGED <<plan, ledger, venue, told, crashes>>

\* get_run, then halt_state: two reads.
ResumeLoad(p, e) ==
  /\ runStatus[e] \notin Terminal \cup {"none", "waiting_manual"}
  /\ plan[e].live
  /\ Start(p, e, "halt_check")
  /\ UNCHANGED <<plan, ledger, venue, told, crashes>>

ResumeHalted(p) ==
  /\ pc[p] = "halt_check"
  /\ halted
  /\ Finish(p)
  /\ UNCHANGED <<plan, ledger, venue, told, crashes>>

\* (mutant) The halt is not looked at.
ResumeChecked_HaltIgnored(p) ==
  /\ pc[p] = "halt_check"
  /\ Goto(p, "mark")
  /\ UNCHANGED <<plan, ledger, venue, told, job, crashes>>

ResumeChecked(p) ==
  /\ pc[p] = "halt_check"
  /\ ~halted
  /\ Goto(p, "mark")
  /\ UNCHANGED <<plan, ledger, venue, told, job, crashes>>

ResumeMark(p) ==
  /\ pc[p] = "mark"
  /\ SetRun(Run(p), "executing")
  /\ Goto(p, "leg")
  /\ UNCHANGED <<plan, legs, lock, halted, attempts, venue, told, job, crashes>>

AtLeg(p) == pc[p] = "leg" /\ job[p].leg \in Legs
Stored(p) == legs[Run(p)][job[p].leg].status
VenueOfLeg(p) == plan[Run(p)].venue[job[p].leg]

\* next(...) over get_legs has no default: a missing row ends the command.
LegRowMissing(p) ==
  /\ AtLeg(p)
  /\ Stored(p) = "absent"
  /\ Finish(p)
  /\ UNCHANGED <<plan, ledger, venue, told, crashes>>

\* (mutant) The loop has no branch for a manual leg.
SkipLeg_AcceptedOnly(p) ==
  /\ AtLeg(p)
  /\ Stored(p) = "accepted"
  /\ job' = [job EXCEPT ![p].leg = @ + 1]
  /\ UNCHANGED <<plan, ledger, venue, told, pc, crashes>>

SkipLeg(p) ==
  /\ AtLeg(p)
  /\ Stored(p) # "absent"
  /\ Stored(p) = "accepted" \/ VenueOfLeg(p) = Retail
  /\ job' = [job EXCEPT ![p].leg = @ + 1]
  /\ UNCHANGED <<plan, ledger, venue, told, pc, crashes>>

SubmitLeg(p) ==
  /\ AtLeg(p)
  /\ Stored(p) \notin {"absent", "accepted"}
  /\ VenueOfLeg(p) # Retail
  /\ job' = [job EXCEPT ![p].slot = job[p].leg, ![p].via = VenueOfLeg(p)]
  /\ Goto(p, "preflight")
  /\ UNCHANGED <<plan, ledger, venue, told, crashes>>

\* After the loop: as many accepted rows as the plan has legs, R1 included.
LegsDone(p) ==
  /\ pc[p] = "leg"
  /\ job[p].leg = NLegs + 1
  /\ IF Cardinality(Accepted(Run(p))) = NLegs
     THEN /\ Goto(p, "settle")
          /\ job' = [job EXCEPT ![p].verdict = "completed"]
     ELSE Goto(p, "orphan") /\ job' = job
  /\ UNCHANGED <<plan, ledger, venue, told, crashes>>

-----------------------------------------------------------------------------
(* _safe_submit, through the health-tracked connector *)

\* The breaker is open, or the venue's preflight is not ok (which opens it).
PreflightRefused(p) ==
  /\ pc[p] = "preflight"
  /\ job' = Trip(p, Rejected)
  /\ Goto(p, "save")
  /\ UNCHANGED <<plan, ledger, venue, told, crashes>>

PreflightOk(p) ==
  /\ pc[p] = "preflight"
  /\ job[p].via \notin job[p].tripped
  /\ Goto(p, "gate")
  /\ UNCHANGED <<plan, ledger, venue, told, job, crashes>>

\* The certification gate or the account-funds gate refuses.
GateRefused(p) ==
  /\ pc[p] = "gate"
  /\ job' = Trip(p, Rejected)
  /\ Goto(p, "save")
  /\ UNCHANGED <<plan, ledger, venue, told, crashes>>

\* (mutant) No unique index.
CanaryAllows_Again(k) == Cardinality(attempts) < MaxAttempts
\* authorize_order: the day's limit, then the unique index on (operator, ref).
CanaryAllows(k) == Cardinality(attempts) < MaxAttempts /\ k \notin attempts

\* The canary refuses, for one of these or because of the liability of this
\* order or of the day's orders. Its refusal leaves the breaker closed.
CanaryRefused(p) ==
  /\ pc[p] = "gate"
  /\ job' = [job EXCEPT ![p].res = Rejected]
  /\ Goto(p, "save")
  /\ UNCHANGED <<plan, ledger, venue, told, crashes>>

\* (mutant) The attempt is recorded without its operator.
CanaryAuthorized_NoOperator(p) ==
  /\ pc[p] = "gate"
  /\ CanaryAllows(K(p))
  /\ attempts' = attempts \cup {<<job[p].run, job[p].slot>>}
  /\ Goto(p, "send")
  /\ UNCHANGED <<plan, runStatus, legs, lock, halted, venue, told, job, crashes>>

CanaryAuthorized(p) ==
  /\ pc[p] = "gate"
  /\ CanaryAllows(K(p))
  /\ attempts' = attempts \cup {K(p)}
  /\ Goto(p, "send")
  /\ UNCHANGED <<plan, runStatus, legs, lock, halted, venue, told, job, crashes>>

TrippingStatus == {"rejected", "partially_matched", "cancelled", "unknown"}
AfterReply(r) == IF r.status \in {"pending", "partially_matched"} THEN "cancel" ELSE "save"

\* place_order returns; most results that are not accepted open the breaker.
Send(p) ==
  /\ pc[p] = "send"
  /\ \E r \in PlaceReplies(job[p].via) :
       /\ book' = [book EXCEPT ![K(p)] = r.book]
       /\ sent' = [sent EXCEPT ![K(p)] = @ + 1]
       /\ job' = IF r.result.status \in TrippingStatus THEN Trip(p, r.result)
                 ELSE [job EXCEPT ![p].res = r.result]
       /\ Goto(p, AfterReply(r.result))
  /\ UNCHANGED <<plan, ledger, told, crashes>>

\* place_order raises: not a rejection.
SendRaises(p) ==
  /\ pc[p] = "send"
  /\ \E b \in LostBooks(job[p].via) : book' = [book EXCEPT ![K(p)] = b]
  /\ sent' = [sent EXCEPT ![K(p)] = @ + 1]
  /\ job' = Trip(p, Unknown)
  /\ Goto(p, "reconcile")
  /\ UNCHANGED <<plan, ledger, told, crashes>>

\* The bounded loop of look-ups: one of them succeeds, or none does.
Reconcile(p) ==
  /\ pc[p] = "reconcile"
  /\ \E r \in ReconcileResults(job[p].via, book[K(p)]) :
       /\ job' = [job EXCEPT ![p].res = r]
       /\ Goto(p, AfterReply(r))
  /\ UNCHANGED <<plan, ledger, venue, told, crashes>>

\* A pending order is looked up again after the cancel; a partially matched
\* one is not, and keeps the amount it had before.
CancelRemainder(p) ==
  /\ pc[p] = "cancel"
  /\ \E b \in CancelBooks(book[K(p)]) : book' = [book EXCEPT ![K(p)] = b]
  /\ Goto(p, IF job[p].res.status = "pending" THEN "requery" ELSE "save")
  /\ UNCHANGED <<plan, ledger, sent, told, job, crashes>>

Requery(p) ==
  /\ pc[p] = "requery"
  /\ \E r \in ReconcileResults(job[p].via, book[K(p)]) :
       job' = [job EXCEPT ![p].res = r]
  /\ Goto(p, "save")
  /\ UNCHANGED <<plan, ledger, venue, told, crashes>>

\* (mutants) Some match is enough; a timeout is a rejection.
FullyMatched_Some(r) == r.matched > 0
Uncertain_Never(r) == FALSE

FullyMatched(r) == r.status = "accepted"
Uncertain(r)    == r.status = "unknown"

\* The order in hand is dealt with: the loop's variables are bound anew.
Done(j) == [j EXCEPT !.slot = Rescue, !.via = Retail, !.res = Unknown]

\* save_leg, and where the command goes with that result.
Save(p) ==
  LET j == job[p] IN
  /\ pc[p] = "save"
  /\ SaveLeg(j.run, j.slot, j.res)
  /\ \/ /\ j.slot = Rescue
        /\ job' = [job EXCEPT ![p] = [Done(j) EXCEPT !.verdict =
                     IF FullyMatched(j.res) THEN "rescued" ELSE "emergency"]]
        /\ Goto(p, "settle")
     \/ /\ j.slot # Rescue /\ FullyMatched(j.res)
        /\ job' = [job EXCEPT ![p] = [Done(j) EXCEPT !.leg = @ + 1]]
        /\ Goto(p, "leg")
     \/ /\ j.slot # Rescue /\ Uncertain(j.res)
        /\ job' = [job EXCEPT ![p] = [Done(j) EXCEPT !.verdict = "emergency"]]
        /\ Goto(p, "settle")
     \/ /\ j.slot # Rescue /\ ~FullyMatched(j.res) /\ ~Uncertain(j.res)
        /\ job' = [job EXCEPT ![p] = Done(j)]
        /\ Goto(p, "orphan")
  /\ UNCHANGED <<plan, runStatus, lock, halted, attempts, venue, told, crashes>>

-----------------------------------------------------------------------------
(* _rescue and _emergency *)

Orphan(p) ==
  /\ pc[p] = "orphan"
  /\ SetRun(Run(p), "rescuing")
  /\ Goto(p, "route")
  /\ UNCHANGED <<plan, legs, lock, halted, attempts, venue, told, job, crashes>>

Decide(p, s) ==
  /\ job' = [job EXCEPT ![p].verdict = s]
  /\ Goto(p, "settle")
  /\ UNCHANGED <<plan, ledger, venue, told, crashes>>

RouteNoExposure(p) ==
  /\ pc[p] = "route"
  /\ Positive(Run(p)) = {}
  /\ Decide(p, "aborted")

\* No quote within policy, not enough depth, more than one rescue leg, or a
\* projected loss above the limit.
RouteImpossible(p) ==
  /\ pc[p] = "route"
  /\ Positive(Run(p)) # {}
  /\ Decide(p, "emergency")

\* Every outcome has some matched stake: there is nothing to buy, since the
\* target is the smallest of the returns.
RouteCovered(p) ==
  /\ pc[p] = "route"
  /\ Positive(Run(p)) # {} /\ Missing(Run(p)) = {}
  /\ Decide(p, "rescued")

RouteRescue(p, v) ==
  /\ pc[p] = "route"
  /\ Positive(Run(p)) # {}
  /\ Cardinality(Missing(Run(p))) = 1
  /\ v \notin job[p].tripped
  /\ job' = [job EXCEPT ![p].slot = Rescue, ![p].via = v]
  /\ Goto(p, "preflight")
  /\ UNCHANGED <<plan, ledger, venue, told, crashes>>

\* update_run with the status decided; what follows depends on it.
Settle(p) ==
  /\ pc[p] = "settle"
  /\ SetRun(Run(p), job[p].verdict)
  /\ \/ /\ job[p].verdict = "emergency"
        /\ Goto(p, "set_halt") /\ job' = job
     \/ /\ job[p].verdict \in Terminal
        /\ Goto(p, "release") /\ job' = job
     \/ /\ job[p].verdict \in {"prepared", "rescuing"}
        /\ Finish(p)
  /\ UNCHANGED <<plan, legs, lock, halted, attempts, venue, told, crashes>>

\* (mutant) The emergency sets no halt.
SetHalt_Forgotten(p) ==
  /\ pc[p] = "set_halt"
  /\ Finish(p)
  /\ UNCHANGED <<plan, ledger, venue, told, crashes>>

SetHalt(p) ==
  /\ pc[p] = "set_halt"
  /\ halted' = TRUE
  /\ Finish(p)
  /\ UNCHANGED <<plan, runStatus, legs, lock, attempts, venue, told, crashes>>

ReleaseLock(p) ==
  /\ pc[p] = "release"
  /\ Release(Run(p))
  /\ Finish(p)
  /\ UNCHANGED <<plan, runStatus, legs, halted, attempts, venue, told, crashes>>

-----------------------------------------------------------------------------
(* halt and resolve-emergency *)

OperatorHalts ==
  /\ halted' = TRUE
  /\ UNCHANGED <<plan, runStatus, legs, lock, attempts, venue, told, pc, job, crashes>>

\* --confirm-flat: the operator has closed every position of the run. The
\* command takes any run, whatever its status.
Resolve(p, e) ==
  /\ runStatus[e] # "none"
  /\ AtWork(e) => "resolve_busy" \in Liberties
  /\ neutralised' = neutralised \cup {e}
  /\ Release(e)
  /\ Start(p, e, "resolve")
  /\ UNCHANGED <<plan, runStatus, legs, halted, attempts, venue, confirmed, crashes>>

\* --clear-global-halt is the operator's choice; the procedure is to leave the
\* halt while another run is in emergency.
ResolveMark(p) ==
  /\ pc[p] = "resolve"
  /\ SetRun(Run(p), "aborted")
  /\ \/ Finish(p)
     \/ /\ \/ \A e \in Executions \ {Run(p)} : runStatus[e] # "emergency"
           \/ "clear_early" \in Liberties
        /\ Goto(p, "clear_halt") /\ job' = job
  /\ UNCHANGED <<plan, legs, lock, halted, attempts, venue, told, crashes>>

ClearHalt(p) ==
  /\ pc[p] = "clear_halt"
  /\ halted' = FALSE
  /\ Finish(p)
  /\ UNCHANGED <<plan, runStatus, legs, lock, attempts, venue, told, crashes>>

-----------------------------------------------------------------------------
(* The environment *)

\* The process is killed, or an exception nobody catches ends it: one of
\* preflight, reconcile_order or cancel_order raises, or SQLite does.
Crash(p) ==
  /\ pc[p] # "idle"
  /\ crashes < MaxCrashes
  /\ crashes' = crashes + 1
  /\ Finish(p)
  /\ UNCHANGED <<plan, ledger, venue, told>>

\* An order that lies in a venue's book is matched further, or lapses.
VenueMatches(k) ==
  /\ book[k].resting
  /\ \E h \in Stakes : h > book[k].held /\ book' = [book EXCEPT ![k] = Arrived(h)]
  /\ UNCHANGED <<plan, ledger, sent, told, pc, job, crashes>>

VenueLapses(k) ==
  /\ book[k].resting
  /\ book' = [book EXCEPT ![k].resting = FALSE]
  /\ UNCHANGED <<plan, ledger, sent, told, pc, job, crashes>>

-----------------------------------------------------------------------------

Init ==
  /\ plan \in [Executions -> Opportunities]
  /\ runStatus = [e \in Executions |-> "none"]
  /\ legs = [e \in Executions |-> [l \in Slots |-> [status |-> "absent", matched |-> 0]]]
  /\ lock = [m \in Markets |-> None]
  /\ halted = FALSE
  /\ attempts = {}
  /\ book = [k \in Key |-> Untouched]
  /\ sent = [k \in Key |-> 0]
  /\ confirmed = {}
  /\ neutralised = {}
  /\ pc = [p \in Procs |-> "idle"]
  /\ job = [p \in Procs |-> IdleJob]
  /\ crashes = 0

\* The steps a running command takes by itself.
Step(p) ==
  \/ PrepareLock(p) \/ PrepareCreate(p) \/ PrepareRefused(p) \/ PrepareLeg(p)
  \/ PrepareUndo(p)
  \/ ResumeHalted(p) \/ ResumeChecked(p) \/ ResumeMark(p)
  \/ LegRowMissing(p) \/ SkipLeg(p) \/ SubmitLeg(p) \/ LegsDone(p)
  \/ PreflightRefused(p) \/ PreflightOk(p) \/ GateRefused(p)
  \/ CanaryRefused(p) \/ CanaryAuthorized(p)
  \/ Send(p) \/ SendRaises(p) \/ Reconcile(p) \/ CancelRemainder(p) \/ Requery(p)
  \/ Save(p) \/ Orphan(p)
  \/ RouteNoExposure(p) \/ RouteImpossible(p) \/ RouteCovered(p)
  \/ \E v \in Venues : RouteRescue(p, v)
  \/ Settle(p) \/ SetHalt(p) \/ ReleaseLock(p) \/ ResolveMark(p) \/ ClearHalt(p)

\* The commands an operator starts, and what happens outside any command.
Command(p, e) ==
  \/ PrepareStart(p, e) \/ ConfirmAccepted(p, e) \/ ConfirmRejected(p, e)
  \/ ResumeLoad(p, e) \/ Resolve(p, e)

Environment ==
  \/ OperatorHalts
  \/ \E e \in Executions : AbortIfFlat(e) \/ \E m \in 1..Full : OperatorBets(e, m)
  \/ \E k \in Key : VenueMatches(k) \/ VenueLapses(k)

Next ==
  \/ \E p \in Procs : Step(p) \/ PrepareError(p) \/ Crash(p)
  \/ \E p \in Procs, e \in Executions : Command(p, e)
  \/ Environment

Spec == Init /\ [][Next]_vars

\* A command that runs keeps running; operators and venues owe nothing.
FairSpec == Spec /\ \A p \in Procs : WF_vars(Step(p))
-----------------------------------------------------------------------------
(* Properties *)

\* Every variable has its type: the ledger's rows, the venues' books, the
\* processes' memory.
TypeOK ==
  /\ plan \in [Executions -> Plan]
  /\ runStatus \in [Executions -> RunStatus]
  /\ legs \in [Executions -> [Slots -> LegRow]]
  /\ lock \in [Markets -> Executions \cup {None}]
  /\ halted \in BOOLEAN
  /\ attempts \subseteq Key
  /\ book \in [Key -> Book]
  /\ sent \in [Key -> Nat]
  /\ confirmed \subseteq Executions
  /\ neutralised \subseteq Executions
  /\ pc \in [Procs -> Steps]
  /\ job \in [Procs -> Job]
  /\ crashes \in Nat

\* An order reference is submitted to a venue at most once, whatever crashes,
\* retries of resume and concurrent resumes of the same run happen: the
\* canary's unique index is what stops the second submission.
AtMostOnePlacement == \A k \in Key : sent[k] <= 1

\* No automatic order goes out for a plan that was not armed live, and none
\* for a plan with a manual leg before an operator reported that leg accepted
\* (the difficult primary first, the hedge after it).
OrdersAreArmed ==
  \A k \in Key : sent[k] > 0 =>
    /\ plan[k[1]].live
    /\ HasManual(k[1]) => k[1] \in confirmed

\* A rescue order is only ever bought against something: a leg of the same
\* run was submitted before it, or its manual leg was reported accepted.
RescueNeedsExposure ==
  \A k \in Key : (sent[k] > 0 /\ k[2] = Rescue) =>
    \/ k[1] \in confirmed
    \/ \E l \in Legs, v \in Venues : sent[<<k[1], l, v>>] > 0

Flat(e) == \A k \in Key : k[1] = e => book[k].held = 0 /\ ~book[k].resting

\* A run recorded as aborted leaves nothing at any venue, neither a matched
\* stake nor an order that can still match, unless an operator vouched for it
\* ("No matched exposure remained", "No exposure opened").
AbortedIsFlat ==
  \A e \in Executions \ neutralised : runStatus[e] = "aborted" => Flat(e)

Held(e, l) == book[<<e, l, plan[e].venue[l]>>].held

\* A run recorded as completed holds every leg in full at its own venue
\* (FULLY_HEDGED: both legs confirmed matched).
CompletedIsHedged ==
  \A e \in Executions : runStatus[e] = "completed" => \A l \in Legs : Held(e, l) = Full

\* A run recorded as rescued covers each outcome: every leg holds something,
\* or exactly one holds nothing and one rescue order is matched in full. No
\* outcome is covered twice.
RescuedIsCovered ==
  \A e \in Executions : runStatus[e] = "rescued" =>
    LET open    == {l \in Legs : Held(e, l) = 0}
        bought  == {v \in Venues : book[<<e, Rescue, v>>].held > 0}
    IN  /\ Cardinality(open) = Cardinality(bought)
        /\ Cardinality(open) <= 1
        /\ \A v \in bought : book[<<e, Rescue, v>>].held = Full

\* Between commands the durable leg rows tell what the venues hold, unless
\* the row itself says that nobody knows, or that nobody has reported yet.
LedgerIsTruthful ==
  \A e \in Executions : ~AtWork(e) => \A l \in Legs :
    \/ legs[e][l].status \in {"unknown", "manual_required"}
    \/ legs[e][l].matched = Held(e, l)

\* The ledger never claims more than the venue holds, even with cancels that
\* come late, lost answers, crashes and concurrent commands. (It may claim
\* less: that is what the emergency path is for.)
LedgerNeverOverstates ==
  \A e \in Executions, l \in Legs : legs[e][l].matched <= Held(e, l)

\* As long as a run is not terminal it holds the lock of its market, so no
\* second run can be opened on that market. (A run being resolved has let go
\* of its lock one write earlier.)
ActiveRunHoldsLock ==
  \A e \in Executions : runStatus[e] \notin Terminal \cup {"none"} =>
    \/ lock[plan[e].market] = e
    \/ \E p \in Procs : Run(p) = e /\ pc[p] = "resolve"

\* A run in emergency means that the global halt is set, or that the process
\* that declared it is about to set it.
EmergencyHalts ==
  \A e \in Executions : runStatus[e] = "emergency" =>
    halted \/ \E p \in Procs : Run(p) = e /\ pc[p] = "set_halt"

\* A run leaves the emergency status only by resolve-emergency on that very
\* run: "emergency locks ... require explicit manual reconciliation".
EmergencyIsSticky ==
  [][\A e \in Executions :
       runStatus[e] = "emergency" /\ runStatus'[e] # "emergency"
         => \E p \in Procs : Run(p) = e /\ pc[p] = "resolve"]_vars

\* No order is submitted while the global halt is set.
HaltStopsOrders == [][halted => sent' = sent]_vars

\* A rescue order goes to a venue only if every order that the run submitted
\* there before was accepted: a venue that failed is circuit-broken for the rest
\* of the command, and a later command finds the run settled.
RescueAvoidsFailedVenue ==
  \A p \in Procs :
    pc[p] = "send" /\ job[p].slot = Rescue =>
      \A l \in Legs :
        sent[<<Run(p), l, job[p].via>>] > 0 => legs[Run(p)][l].status = "accepted"

\* A resume that has begun to execute comes to an end: the run does not stay
\* "executing".
ResumeSettles ==
  \A e \in Executions :
    runStatus[e] = "executing"
      ~> runStatus[e] \in Terminal \cup {"emergency"}
=============================================================================
