--------------------- MODULE ExecutionCoordinatorProofs ---------------------
(***************************************************************************)
(* Proofs about ExecutionCoordinator, for any executions, markets, venues, *)
(* number of processes and of legs: its type invariant, that an order is   *)
(* submitted at most once, and that only armed runs send orders; and, for  *)
(* one command at a time, that locks and the halt hold.                    *)
(***************************************************************************)
EXTENDS ExecutionCoordinator, TLAPS

-----------------------------------------------------------------------------
(* The operators the model is built from *)

\* What a venue does with an order and what its connector says of it are a
\* book entry and a result (connectors/betfair.py, connectors/betflag.py).
LEMMA VenueTypes ==
  ASSUME NEW v, NEW b \in Book
  PROVE  /\ \A r \in PlaceReplies(v) : r.result \in Result /\ r.book \in Book
         /\ LostBooks(v) \subseteq Book
         /\ ReconcileResults(v, b) \subseteq Result
         /\ CancelBooks(b) \subseteq Book
<1>1. \A h \in Stakes : Arrived(h) \in Book /\ Closed(h) \in Book /\ Lying(h) \in Book
  BY DEF Arrived, Closed, Lying, Book, Stakes, Full
<1>2. Untouched \in Book /\ Unknown \in Result /\ Rejected \in Result
  BY DEF Untouched, Book, Stakes, Full, Unknown, Rejected, Reported, Result, ResultStatus
<1>3. \A s \in ResultStatus, h \in Stakes : Reported(s, h) \in Result
  BY DEF Reported, Result
<1>4. \A s \in ResultStatus, h \in Stakes, c \in Book :
        LET r == Reply(s, h, c) IN r.result \in Result /\ r.book \in Book
  BY <1>3 DEF Reply
<1>5. Full \in Stakes /\ 0 \in Stakes /\ 1 \in Stakes /\ 1..Full \subseteq Stakes
  BY DEF Full, Stakes
<1>6. \A s \in {"accepted", "partially_matched", "pending", "rejected", "cancelled", "unknown"} :
        s \in ResultStatus
  BY DEF ResultStatus
<1>7. \A r \in BetfairPlace : r.result \in Result /\ r.book \in Book
  <2> SUFFICES ASSUME NEW r \in BetfairPlace PROVE r.result \in Result /\ r.book \in Book
    OBVIOUS
  <2>1. CASE r \in LateReplies
    <3>1. PICK d \in BetfairBooks : \E m \in 0..d.held : r = Reply("rejected", m, d)
      BY <2>1 DEF LateReplies
    <3>2. d \in Book
      BY <1>1, <1>5 DEF BetfairBooks
    <3>3. 0..d.held \subseteq Stakes
      BY <3>2 DEF Book, Stakes, Full
    <3> QED BY <1>6, <3>1, <3>2, <3>3, <1>4
  <2>2. CASE r \notin LateReplies
    <3>1. \E s \in ResultStatus, h \in Stakes, c \in Book : r = Reply(s, h, c)
      BY <1>1, <1>2, <1>5, <1>6, <2>2 DEF BetfairPlace
    <3> QED BY <3>1, <1>4
  <2> QED BY <2>1, <2>2
<1>8. \A r \in BetFlagPlace : r.result \in Result /\ r.book \in Book
  <2> SUFFICES ASSUME NEW r \in BetFlagPlace PROVE r.result \in Result /\ r.book \in Book
    OBVIOUS
  <2>1. \E s \in ResultStatus, h \in Stakes, c \in Book : r = Reply(s, h, c)
    BY <1>1, <1>2, <1>5, <1>6 DEF BetFlagPlace
  <2> QED BY <2>1, <1>4
<1>9. LostBooks(v) \subseteq Book
  BY <1>1, <1>2, <1>5 DEF LostBooks, BetfairBooks
<1>10. ReconcileResults(v, b) \subseteq Result
  BY <1>2, <1>3, <1>5, <1>6 DEF ReconcileResults, RowResult, Book
<1>11. CancelBooks(b) \subseteq Book
  BY DEF CancelBooks, Book
<1> QED BY <1>7, <1>8, <1>9, <1>10, <1>11 DEF PlaceReplies

\* prepare's sort keeps the plan a plan, and keeps whether it has a manual leg.
LEMMA ManualFirstKeeps ==
  ASSUME NEW v \in [Legs -> Venues \cup {Retail}]
  PROVE  /\ ManualFirst(v) \in [Legs -> Venues \cup {Retail}]
         /\ (\E l \in Legs : ManualFirst(v)[l] = Retail) <=> (\E l \in Legs : v[l] = Retail)
<1>0. NLegs \in Nat \ {0}
  BY CoreAssumption
<1>1. CASE \E m \in Legs : v[m] = Retail
  <2> DEFINE m == CHOOSE i \in Legs : v[i] = Retail
             w == [i \in Legs |-> IF i = 1 THEN v[m] ELSE IF i <= m THEN v[i - 1] ELSE v[i]]
  <2>1. m \in Legs /\ v[m] = Retail
    BY <1>1
  <2>2. ManualFirst(v) = w
    BY <1>1 DEF ManualFirst
  <2> HIDE DEF m
  <2>3. w \in [Legs -> Venues \cup {Retail}]
    BY <2>1, <1>0 DEF Legs
  <2>4. 1 \in Legs /\ w[1] = Retail
    BY <2>1, <1>0 DEF Legs
  <2> QED BY <1>1, <2>2, <2>3, <2>4
<1>2. CASE ~ \E m \in Legs : v[m] = Retail
  BY <1>2 DEF ManualFirst
<1> QED BY <1>1, <1>2
-----------------------------------------------------------------------------
(* The type invariant *)

Preparing  == {"lock", "create", "legs"}
Submitting == {"preflight", "gate", "send", "reconcile", "cancel", "requery", "save"}

DataOK ==
  /\ plan \in [Executions -> Plan]
  /\ runStatus \in [Executions -> RunStatus]
  /\ legs \in [Executions -> [Slots -> LegRow]]
  /\ lock \in [Markets -> Executions \cup {None}]
  /\ halted \in BOOLEAN
  /\ attempts \subseteq Key
  /\ book \in [Key -> Book]
  /\ sent \in [Key -> Nat]
  /\ confirmed \subseteq Executions
  /\ neutralised \subseteq Executions
  /\ crashes \in Nat

\* TypeOK is not inductive: a command that runs has a run to work on, its loop
\* index is that of a leg while it prepares one, and an order in hand is that of
\* this leg or the rescue, at an automatic venue.
Sound(c, j) ==
  /\ c \in Steps /\ j \in Job
  /\ c # "idle" => j.run \in Executions
  /\ c \in Preparing => j.leg \in Legs
  /\ c \in Submitting => j.via \in Venues /\ j.slot \in {Rescue, j.leg}

ProcsOK ==
  /\ pc \in [Procs -> Steps]
  /\ job \in [Procs -> Job]
  /\ \A p \in Procs : Sound(pc[p], job[p])

TypeInv == DataOK /\ ProcsOK

\* What the assumption on NLegs gives: which leg and slot numbers there are.
LEMMA Constants ==
  /\ NLegs \in Nat /\ NLegs >= 1
  /\ Legs \subseteq Slots /\ Legs \subseteq 1..(NLegs + 1)
  /\ 1 \in Legs /\ Rescue \in Slots /\ Rescue \notin Legs
  /\ NLegs + 1 \in 1..(NLegs + 1)
  /\ \A l \in Legs : l + 1 \in 1..(NLegs + 1) /\ (l # NLegs => l + 1 \in Legs)
  /\ IdleJob \in Job
  /\ Unknown \in Result /\ Rejected \in Result
BY CoreAssumption
   DEF Legs, Slots, Rescue, IdleJob, Job, Unknown, Rejected, Reported, Result,
       ResultStatus, Stakes, Full, RunStatus

\* The four ways in which an action moves the process that takes it.
LEMMA Moves ==
  ASSUME ProcsOK, NEW p \in Procs, NEW s \in Steps, NEW j, Sound(s, j), Goto(p, s),
         job' = [job EXCEPT ![p] = j]
  PROVE  ProcsOK'
BY DEF ProcsOK, Goto, Sound

\* The process goes on with the job it has.
LEMMA Stays ==
  ASSUME ProcsOK, NEW p \in Procs, NEW s \in Steps, Goto(p, s), job' = job,
         pc[p] # "idle",
         s \in Preparing => pc[p] \in Preparing,
         s \in Submitting => pc[p] \in Submitting
  PROVE  ProcsOK'
<1>1. Sound(s, job[p]) /\ job' = [job EXCEPT ![p] = job[p]]
  BY DEF ProcsOK, Sound
<1> QED BY <1>1, Moves

\* It takes a run, with a fresh job.
LEMMA Starts ==
  ASSUME ProcsOK, NEW p \in Procs, NEW e \in Executions, NEW s \in Steps \ Submitting,
         Start(p, e, s)
  PROVE  ProcsOK'
<1> DEFINE j == [IdleJob EXCEPT !.run = e]
<1>1. Sound(s, j)
  BY Constants DEF Sound, IdleJob, Job
<1> QED BY <1>1, Moves DEF Start

\* Its command ends, and it forgets the job.
LEMMA Finishes ==
  ASSUME ProcsOK, NEW p \in Procs, Finish(p)
  PROVE  ProcsOK'
<1>1. Sound("idle", IdleJob) /\ "idle" \in Steps
  BY Constants DEF Sound, Steps, Preparing, Submitting
<1> QED BY <1>1, Moves DEF Finish

\* No command runs at first, and the ledger is empty.
LEMMA TypeInit == Init => TypeInv
<1> SUFFICES ASSUME Init PROVE TypeInv
  OBVIOUS
<1>1. plan \in [Executions -> Plan]
  BY CoreAssumption DEF Init
<1>2. legs \in [Executions -> [Slots -> LegRow]]
  BY DEF Init, LegRow, LegStatus, Stakes, Full
<1>3. book \in [Key -> Book] /\ sent \in [Key -> Nat]
  BY DEF Init, Untouched, Book, Stakes, Full
<1>4. DataOK
  BY <1>1, <1>2, <1>3 DEF Init, DataOK, RunStatus
<1>5. ProcsOK
  BY Constants DEF Init, ProcsOK, Sound, Steps, Preparing, Submitting
<1> QED BY <1>4, <1>5 DEF TypeInv

\* What is known of the run and the order of a process at work.
LEMMA AtWorkTypes ==
  ASSUME TypeInv, NEW p \in Procs, pc[p] # "idle"
  PROVE  /\ Run(p) \in Executions /\ job[p] \in Job /\ K(p) \in Key
         /\ plan[Run(p)] \in Plan /\ plan[Run(p)].market \in Markets
         /\ book[K(p)] \in Book
BY DEF TypeInv, DataOK, ProcsOK, Sound, Run, K, Key, Job, Plan

\* save_leg keeps the leg rows well typed.
LEMMA SaveLegTypes ==
  ASSUME TypeInv, NEW e \in Executions, NEW l \in Slots, NEW r,
         r.status \in LegStatus, r.matched \in Stakes, SaveLeg(e, l, r)
  PROVE  legs' \in [Executions -> [Slots -> LegRow]]
<1> DEFINE row == [status |-> r.status, matched |-> r.matched]
<1>1. row \in LegRow
  BY DEF LegRow
<1>2. legs \in [Executions -> [Slots -> LegRow]]
  BY DEF TypeInv, DataOK
<1> QED BY <1>1, <1>2 DEF SaveLeg

\* release_lock keeps the locks well typed.
LEMMA ReleaseTypes ==
  ASSUME TypeInv, NEW e \in Executions, Release(e)
  PROVE  lock' \in [Markets -> Executions \cup {None}]
BY DEF TypeInv, DataOK, Release

\* The type invariant through prepare, its errors included.
LEMMA TypePrepare ==
  ASSUME TypeInv, NEW p \in Procs,
         \/ \E e \in Executions : PrepareStart(p, e)
         \/ PrepareLock(p) \/ PrepareCreate(p)
         \/ PrepareRefused(p) \/ PrepareLeg(p) \/ PrepareError(p) \/ PrepareUndo(p)
  PROVE  TypeInv'
<1> USE DEF ledger, venue, told
<1>0. DataOK /\ ProcsOK
  BY DEF TypeInv
<1>1. ASSUME NEW e \in Executions, PrepareStart(p, e) PROVE TypeInv'
  <2>1. ProcsOK'
    BY <1>0, <1>1, Starts DEF PrepareStart, Steps, Submitting
  <2>2. DataOK'
    BY <1>0, <1>1, ManualFirstKeeps DEF PrepareStart, DataOK, Plan
  <2> QED BY <2>1, <2>2 DEF TypeInv
<1>2. CASE PrepareLock(p)
  <2>1. ProcsOK'
    BY <1>0, <1>2, Stays, Finishes DEF PrepareLock, Steps, Preparing, Submitting
  <2>2. DataOK'
    BY <1>0, <1>2, AtWorkTypes DEF PrepareLock, DataOK
  <2> QED BY <2>1, <2>2 DEF TypeInv
<1>3. CASE PrepareCreate(p)
  <2>1. ProcsOK'
    BY <1>0, <1>3, Stays DEF PrepareCreate, Steps, Preparing, Submitting
  <2>2. DataOK'
    BY <1>0, <1>3 DEF PrepareCreate, DataOK, SetRun, RunStatus
  <2> QED BY <2>1, <2>2 DEF TypeInv
<1>4. CASE PrepareRefused(p)
  <2>1. ProcsOK'
    BY <1>0, <1>4, Stays DEF PrepareRefused, Steps, Preparing, Submitting
  <2> QED BY <1>0, <1>4, <2>1 DEF PrepareRefused, DataOK, TypeInv
<1>5. CASE PrepareLeg(p)
  <2> DEFINE l == job[p].leg
             j == [job[p] EXCEPT !.leg = l + 1]
             s == IF plan[Run(p)].venue[l] = Retail THEN "manual_required" ELSE "prepared"
  <2>1. pc[p] = "legs" /\ Run(p) \in Executions /\ l \in Legs /\ job[p] \in Job
    BY <1>0, <1>5, AtWorkTypes DEF PrepareLeg, ProcsOK, Sound, Preparing
  <2>2. ProcsOK'
    <3>1. CASE l = NLegs
      BY <1>0, <1>5, <3>1, Finishes DEF PrepareLeg
    <3>2. CASE l # NLegs
      <4>1. Sound("legs", j)
        BY <2>1, <3>2, Constants DEF Sound, Job, Run, Preparing, Submitting, Steps
      <4>2. Goto(p, "legs") /\ job' = [job EXCEPT ![p] = j]
        BY <1>0, <1>5, <2>1, <3>2 DEF PrepareLeg, Goto, ProcsOK
      <4> QED BY <1>0, <4>1, <4>2, Moves DEF Sound
    <3> QED BY <3>1, <3>2
  <2>3. legs' \in [Executions -> [Slots -> LegRow]]
    <3>1. SaveLeg(Run(p), l, Reported(s, 0)) /\ l \in Slots
      BY <1>5, <2>1, Constants DEF PrepareLeg
    <3>2. Reported(s, 0).status \in LegStatus /\ Reported(s, 0).matched \in Stakes
      BY DEF Reported, LegStatus, Stakes, Full
    <3> QED BY <2>1, <3>1, <3>2, SaveLegTypes
  <2> QED BY <1>0, <1>5, <2>2, <2>3 DEF PrepareLeg, DataOK, TypeInv
<1>6. CASE PrepareError(p)
  <2>1. ProcsOK'
    BY <1>0, <1>6, Stays DEF PrepareError, Steps, Preparing, Submitting
  <2> QED BY <1>0, <1>6, <2>1 DEF PrepareError, DataOK, TypeInv
<1>7. CASE PrepareUndo(p)
  <2>1. ProcsOK'
    BY <1>0, <1>7, Finishes DEF PrepareUndo
  <2> QED BY <1>0, <1>7, <2>1, AtWorkTypes, ReleaseTypes DEF PrepareUndo, DataOK, TypeInv
<1> QED BY <1>1, <1>2, <1>3, <1>4, <1>5, <1>6, <1>7

\* The type invariant through the manual leg: bet, confirm, abort.
LEMMA TypeManual ==
  ASSUME TypeInv, NEW e \in Executions,
         \/ \E m \in 1..Full : OperatorBets(e, m)
         \/ \E p \in Procs : ConfirmAccepted(p, e) \/ ConfirmRejected(p, e)
         \/ AbortIfFlat(e)
  PROVE  TypeInv'
<1> USE DEF ledger, venue, told
<1>0. /\ DataOK /\ ProcsOK
      /\ ManualKey(e) \in Key /\ book[ManualKey(e)] \in Book /\ 1 \in Slots
  BY Constants DEF TypeInv, DataOK, ManualKey, Key
<1>1. ASSUME NEW m \in 1..Full, OperatorBets(e, m) PROVE TypeInv'
  <2>1. Closed(m) \in Book
    BY DEF Closed, Book, Stakes, Full
  <2>2. ProcsOK'
    BY <1>0, <1>1 DEF OperatorBets, ProcsOK
  <2> QED BY <1>0, <1>1, <2>1, <2>2 DEF OperatorBets, DataOK, TypeInv
<1>2. ASSUME NEW p \in Procs, ConfirmAccepted(p, e) PROVE TypeInv'
  <2> DEFINE h == book[ManualKey(e)].held
             r == Reported(IF h >= Full THEN "accepted" ELSE "partially_matched", h)
             j == [IdleJob EXCEPT !.run = e,
                                  !.verdict = IF h >= Full THEN "prepared" ELSE "rescuing"]
  <2>1. Sound("settle", j)
    BY Constants DEF Sound, IdleJob, Job, RunStatus, Steps, Preparing, Submitting
  <2>2. ProcsOK'
    BY <1>0, <1>2, <2>1, Moves DEF ConfirmAccepted, Sound
  <2>3. r.status \in LegStatus /\ r.matched \in Stakes
    BY <1>0 DEF Reported, LegStatus, ResultStatus, Book
  <2>4. legs' \in [Executions -> [Slots -> LegRow]]
    BY <1>0, <1>2, <2>3, SaveLegTypes DEF ConfirmAccepted
  <2> QED BY <1>0, <1>2, <2>2, <2>4 DEF ConfirmAccepted, DataOK, TypeInv
<1>3. ASSUME NEW p \in Procs, ConfirmRejected(p, e) PROVE TypeInv'
  <2> DEFINE j == [IdleJob EXCEPT !.run = e, !.verdict = "aborted"]
  <2>1. Sound("settle", j)
    BY Constants DEF Sound, IdleJob, Job, RunStatus, Steps, Preparing, Submitting
  <2>2. ProcsOK'
    BY <1>0, <1>3, <2>1, Moves DEF ConfirmRejected, Sound
  <2>3. Rejected.status \in LegStatus /\ Rejected.matched \in Stakes
    BY DEF Rejected, Reported, LegStatus, ResultStatus, Stakes, Full
  <2>4. legs' \in [Executions -> [Slots -> LegRow]]
    BY <1>0, <1>3, <2>3, SaveLegTypes DEF ConfirmRejected
  <2> QED BY <1>0, <1>3, <2>2, <2>4 DEF ConfirmRejected, DataOK, TypeInv
<1>4. CASE AbortIfFlat(e)
  <2>1. ProcsOK'
    BY <1>0, <1>4 DEF AbortIfFlat, ProcsOK
  <2> QED BY <1>0, <1>4, <2>1, ReleaseTypes
          DEF AbortIfFlat, SetRun, RunStatus, DataOK, TypeInv
<1> QED BY <1>1, <1>2, <1>3, <1>4

\* The type invariant through resume and its loop over the legs.
LEMMA TypeResume ==
  ASSUME TypeInv, NEW p \in Procs,
         \/ \E e \in Executions : ResumeLoad(p, e)
         \/ ResumeHalted(p) \/ ResumeChecked(p) \/ ResumeMark(p)
         \/ LegRowMissing(p) \/ SkipLeg(p) \/ SubmitLeg(p) \/ LegsDone(p)
  PROVE  TypeInv'
<1> USE DEF ledger, venue, told
<1>0. DataOK /\ ProcsOK
  BY DEF TypeInv
<1>1. ASSUME NEW e \in Executions, ResumeLoad(p, e) PROVE TypeInv'
  <2>1. ProcsOK'
    BY <1>0, <1>1, Starts DEF ResumeLoad, Steps, Submitting
  <2> QED BY <1>0, <1>1, <2>1 DEF ResumeLoad, DataOK, TypeInv
<1>2. CASE ResumeHalted(p)
  BY <1>0, <1>2, Finishes DEF ResumeHalted, DataOK, TypeInv
<1>3. CASE ResumeChecked(p)
  <2>1. ProcsOK'
    BY <1>0, <1>3, Stays DEF ResumeChecked, Steps, Preparing, Submitting
  <2> QED BY <1>0, <1>3, <2>1 DEF ResumeChecked, DataOK, TypeInv
<1>4. CASE ResumeMark(p)
  <2>1. ProcsOK'
    BY <1>0, <1>4, Stays DEF ResumeMark, Steps, Preparing, Submitting
  <2> QED BY <1>0, <1>4, <2>1 DEF ResumeMark, SetRun, RunStatus, DataOK, TypeInv
<1>5. CASE LegRowMissing(p)
  BY <1>0, <1>5, Finishes DEF LegRowMissing, DataOK, TypeInv
<1>6. CASE SkipLeg(p)
  <2> DEFINE j == [job[p] EXCEPT !.leg = job[p].leg + 1]
  <2>1. pc[p] = "leg" /\ job[p].leg \in Legs
    BY <1>6 DEF SkipLeg, AtLeg
  <2>2. Sound("leg", j)
    BY <2>1, AtWorkTypes, Constants DEF Sound, Job, Run, Steps, Preparing, Submitting
  <2>3. Goto(p, "leg") /\ job' = [job EXCEPT ![p] = j]
    BY <1>0, <1>6, <2>1 DEF SkipLeg, Goto, ProcsOK
  <2>4. ProcsOK'
    BY <1>0, <2>2, <2>3, Moves DEF Sound
  <2> QED BY <1>0, <1>6, <2>4 DEF SkipLeg, DataOK, TypeInv
<1>7. CASE SubmitLeg(p)
  <2> DEFINE l == job[p].leg
             j == [job[p] EXCEPT !.slot = l, !.via = VenueOfLeg(p)]
  <2>1. pc[p] = "leg" /\ l \in Legs
    BY <1>7 DEF SubmitLeg, AtLeg
  <2>2. VenueOfLeg(p) \in Venues
    BY <1>7, <2>1, AtWorkTypes DEF SubmitLeg, VenueOfLeg, Plan
  <2>3. Sound("preflight", j)
    BY <2>1, <2>2, AtWorkTypes, Constants DEF Sound, Job, Run, Steps, Preparing, Submitting
  <2>4. Goto(p, "preflight") /\ job' = [job EXCEPT ![p] = j]
    BY <1>0, <1>7 DEF SubmitLeg, ProcsOK
  <2>5. ProcsOK'
    BY <1>0, <2>3, <2>4, Moves DEF Sound
  <2> QED BY <1>0, <1>7, <2>5 DEF SubmitLeg, DataOK, TypeInv
<1>8. CASE LegsDone(p)
  <2> DEFINE j == [job[p] EXCEPT !.verdict = "completed"]
  <2>1. Sound("settle", j)
    BY <1>8, AtWorkTypes
       DEF LegsDone, Sound, Job, Run, RunStatus, Steps, Preparing, Submitting
  <2>2. CASE Cardinality(Accepted(Run(p))) = NLegs
    <3>1. Goto(p, "settle") /\ job' = [job EXCEPT ![p] = j]
      BY <1>0, <1>8, <2>2 DEF LegsDone, ProcsOK
    <3>2. ProcsOK'
      BY <1>0, <2>1, <3>1, Moves DEF Sound
    <3> QED BY <1>0, <1>8, <3>2 DEF LegsDone, DataOK, TypeInv
  <2>3. CASE Cardinality(Accepted(Run(p))) # NLegs
    <3>1. ProcsOK'
      BY <1>0, <1>8, <2>3, Stays DEF LegsDone, Steps, Preparing, Submitting
    <3> QED BY <1>0, <1>8, <3>1 DEF LegsDone, DataOK, TypeInv
  <2> QED BY <2>2, <2>3
<1> QED BY <1>1, <1>2, <1>3, <1>4, <1>5, <1>6, <1>7, <1>8

\* A process in _safe_submit, one way or another, puts a result in its hand.
LEMMA HoldsResult ==
  ASSUME TypeInv, NEW p \in Procs, pc[p] \in Submitting, NEW r \in Result,
         NEW s \in Steps, s \in Submitting,
         NEW T \in SUBSET Venues,
         Goto(p, s), job' = [job EXCEPT ![p] = [job[p] EXCEPT !.res = r, !.tripped = T]]
  PROVE  ProcsOK'
<1>1. ProcsOK /\ pc[p] # "idle" /\ s \notin Preparing
  BY DEF TypeInv, Submitting, Preparing
<1>2. Sound(pc[p], job[p])
  BY <1>1 DEF ProcsOK
<1>3. Sound(s, [job[p] EXCEPT !.res = r, !.tripped = T])
  BY <1>1, <1>2 DEF Sound, Job
<1> QED BY <1>1, <1>3, Moves

\* It may also open the breaker of the venue in hand.
LEMMA Trips ==
  ASSUME TypeInv, NEW p \in Procs, pc[p] \in Submitting, NEW r \in Result,
         NEW s \in Steps, s \in Submitting,
         Goto(p, s),
         job' = Trip(p, r) \/ job' = [job EXCEPT ![p].res = r]
  PROVE  ProcsOK'
<1>1. job \in [Procs -> Job] /\ job[p].tripped \in SUBSET Venues /\ job[p].via \in Venues
  BY DEF TypeInv, ProcsOK, Sound, Job
<1>2. CASE job' = Trip(p, r)
  <2> DEFINE T == job[p].tripped \cup {job[p].via}
  <2>1. T \in SUBSET Venues
    BY <1>1
  <2>2. job' = [job EXCEPT ![p] = [job[p] EXCEPT !.res = r, !.tripped = T]]
    BY <1>1, <1>2 DEF Trip
  <2> QED BY <2>1, <2>2, HoldsResult
<1>3. CASE job' = [job EXCEPT ![p].res = r]
  <2>1. job' = [job EXCEPT ![p] = [job[p] EXCEPT !.res = r, !.tripped = job[p].tripped]]
    BY <1>1, <1>3 DEF Job
  <2> QED BY <1>1, <2>1, HoldsResult
<1> QED BY <1>2, <1>3

\* The type invariant through _safe_submit and the save of its result.
LEMMA TypeSubmit ==
  ASSUME TypeInv, NEW p \in Procs,
         \/ PreflightRefused(p) \/ PreflightOk(p) \/ GateRefused(p)
         \/ CanaryRefused(p) \/ CanaryAuthorized(p) \/ Send(p) \/ SendRaises(p)
         \/ Reconcile(p) \/ CancelRemainder(p) \/ Requery(p) \/ Save(p)
  PROVE  TypeInv'
<1> USE DEF ledger, venue, told
<1>0. /\ DataOK /\ ProcsOK /\ pc[p] \in Submitting /\ job[p] \in Job /\ Run(p) \in Executions
      /\ K(p) \in Key /\ book[K(p)] \in Book
  BY AtWorkTypes
     DEF TypeInv, Submitting, PreflightRefused, PreflightOk, GateRefused, CanaryRefused,
         CanaryAuthorized, Send, SendRaises, Reconcile, CancelRemainder, Requery, Save
<1>a. \A r \in Result : AfterReply(r) \in Submitting
  BY DEF AfterReply, Submitting
<1>b. Submitting \subseteq Steps /\ Submitting \cap Preparing = {} /\ "idle" \notin Submitting
  BY DEF Submitting, Preparing, Steps
<1>c. "save" \in Submitting /\ "gate" \in Submitting /\ "send" \in Submitting
      /\ "reconcile" \in Submitting /\ "requery" \in Submitting
  BY DEF Submitting
<1>1. CASE PreflightRefused(p)
  <2>1. ProcsOK'
    BY <1>0, <1>1, <1>b, <1>c, Constants, Trips DEF PreflightRefused
  <2> QED BY <1>0, <1>1, <2>1 DEF PreflightRefused, DataOK, TypeInv
<1>2. CASE PreflightOk(p)
  <2>1. ProcsOK'
    BY <1>0, <1>2, <1>b, <1>c, Stays DEF PreflightOk
  <2> QED BY <1>0, <1>2, <2>1 DEF PreflightOk, DataOK, TypeInv
<1>3. CASE GateRefused(p)
  <2>1. ProcsOK'
    BY <1>0, <1>3, <1>b, <1>c, Constants, Trips DEF GateRefused
  <2> QED BY <1>0, <1>3, <2>1 DEF GateRefused, DataOK, TypeInv
<1>4. CASE CanaryRefused(p)
  <2>1. ProcsOK'
    BY <1>0, <1>4, <1>b, <1>c, Constants, Trips DEF CanaryRefused
  <2> QED BY <1>0, <1>4, <2>1 DEF CanaryRefused, DataOK, TypeInv
<1>5. CASE CanaryAuthorized(p)
  <2>1. ProcsOK'
    BY <1>0, <1>5, <1>b, <1>c, Stays DEF CanaryAuthorized
  <2> QED BY <1>0, <1>5, <2>1 DEF CanaryAuthorized, DataOK, TypeInv
<1>6. CASE Send(p)
  <2>1. PICK r \in PlaceReplies(job[p].via) :
          /\ book' = [book EXCEPT ![K(p)] = r.book]
          /\ job' = IF r.result.status \in TrippingStatus THEN Trip(p, r.result)
                    ELSE [job EXCEPT ![p].res = r.result]
          /\ Goto(p, AfterReply(r.result))
    BY <1>6 DEF Send
  <2>2. r.result \in Result /\ r.book \in Book
    BY <1>0, VenueTypes
  <2>3. ProcsOK'
    BY <1>0, <2>1, <2>2, <1>a, <1>b, Trips
  <2>4. book' \in [Key -> Book]
    BY <1>0, <2>1, <2>2 DEF DataOK
  <2>5. sent' \in [Key -> Nat]
    BY <1>0, <1>6 DEF Send, DataOK
  <2> QED BY <1>0, <1>6, <2>3, <2>4, <2>5 DEF Send, DataOK, TypeInv
<1>7. CASE SendRaises(p)
  <2>1. book' \in [Key -> Book]
    BY <1>0, <1>7, VenueTypes DEF SendRaises, DataOK
  <2>2. sent' \in [Key -> Nat]
    BY <1>0, <1>7 DEF SendRaises, DataOK
  <2>3. ProcsOK'
    BY <1>0, <1>7, <1>b, <1>c, Constants, Trips DEF SendRaises
  <2> QED BY <1>0, <1>7, <2>1, <2>2, <2>3 DEF SendRaises, DataOK, TypeInv
<1>8. CASE Reconcile(p)
  <2>1. PICK r \in ReconcileResults(job[p].via, book[K(p)]) :
          job' = [job EXCEPT ![p].res = r] /\ Goto(p, AfterReply(r))
    BY <1>8 DEF Reconcile
  <2>2. r \in Result
    BY <1>0, VenueTypes
  <2>3. ProcsOK'
    BY <1>0, <2>1, <2>2, <1>a, <1>b, Trips
  <2> QED BY <1>0, <1>8, <2>3 DEF Reconcile, DataOK, TypeInv
<1>9. CASE CancelRemainder(p)
  <2>1. book' \in [Key -> Book]
    BY <1>0, <1>9, VenueTypes DEF CancelRemainder, DataOK
  <2>2. ProcsOK'
    BY <1>0, <1>9, <1>b, <1>c, Stays DEF CancelRemainder
  <2> QED BY <1>0, <1>9, <2>1, <2>2 DEF CancelRemainder, DataOK, TypeInv
<1>10. CASE Requery(p)
  <2>1. PICK r \in ReconcileResults(job[p].via, book[K(p)]) : job' = [job EXCEPT ![p].res = r]
    BY <1>10 DEF Requery
  <2>2. r \in Result
    BY <1>0, VenueTypes
  <2>3. ProcsOK'
    BY <1>0, <1>10, <2>1, <2>2, <1>b, <1>c, Trips DEF Requery
  <2> QED BY <1>0, <1>10, <2>3 DEF Requery, DataOK, TypeInv
<1>11. CASE Save(p)
  <2> DEFINE d == Done(job[p])
             j(s) == [d EXCEPT !.verdict = s]
             n == [d EXCEPT !.leg = job[p].leg + 1]
  <2>1. /\ job[p].run \in Executions /\ job[p].slot \in Slots
        /\ job[p].res.status \in LegStatus /\ job[p].res.matched \in Stakes
    BY <1>0 DEF Job, Run, Result, LegStatus
  <2>2. legs' \in [Executions -> [Slots -> LegRow]]
    BY <1>11, <2>1, SaveLegTypes DEF Save
  <2>d. d \in Job /\ d.run = job[p].run /\ d.leg = job[p].leg
    BY <1>0, Constants DEF Done, Job
  <2>3. \A s \in RunStatus : Sound("settle", j(s))
    <3> HIDE DEF d
    <3> QED BY <2>1, <2>d DEF Sound, Job, Steps, Preparing, Submitting
  <2>4. job[p].slot # Rescue => Sound("leg", n)
    <3>1. SUFFICES ASSUME job[p].slot # Rescue PROVE Sound("leg", n)
      OBVIOUS
    <3>2. job[p].slot = job[p].leg /\ job[p].leg \in Legs
      BY <1>0, <2>1, <3>1 DEF ProcsOK, Sound, Slots, Legs, Rescue
    <3> HIDE DEF d
    <3> QED BY <2>1, <2>d, <3>2, Constants DEF Sound, Job, Steps, Preparing, Submitting
  <2>5. Sound("orphan", d)
    <3> HIDE DEF d
    <3> QED BY <2>1, <2>d DEF Sound, Steps, Preparing, Submitting
  <2>6. \/ \E s \in RunStatus : Goto(p, "settle") /\ job' = [job EXCEPT ![p] = j(s)]
        \/ job[p].slot # Rescue /\ Goto(p, "leg") /\ job' = [job EXCEPT ![p] = n]
        \/ Goto(p, "orphan") /\ job' = [job EXCEPT ![p] = d]
    <3>1. CASE job[p].slot = Rescue
      BY <1>11, <3>1 DEF Save, RunStatus
    <3>2. CASE job[p].slot # Rescue /\ FullyMatched(job[p].res)
      BY <1>11, <3>2, <2>d DEF Save, FullyMatched, Uncertain
    <3>3. CASE job[p].slot # Rescue /\ Uncertain(job[p].res)
      BY <1>11, <3>3 DEF Save, FullyMatched, Uncertain, RunStatus
    <3>4. CASE job[p].slot # Rescue /\ ~FullyMatched(job[p].res) /\ ~Uncertain(job[p].res)
      BY <1>11, <3>4 DEF Save
    <3> QED BY <3>1, <3>2, <3>3, <3>4
  <2>7. ProcsOK'
    <3>1. "settle" \in Steps /\ "leg" \in Steps /\ "orphan" \in Steps
      BY DEF Steps
    <3> HIDE DEF d, j, n
    <3> QED BY <1>0, <2>3, <2>4, <2>5, <2>6, <3>1, Moves
  <2> QED BY <1>0, <1>11, <2>2, <2>7 DEF Save, DataOK, TypeInv
<1> QED BY <1>1, <1>2, <1>3, <1>4, <1>5, <1>6, <1>7, <1>8, <1>9, <1>10, <1>11

\* The type invariant through _rescue, _emergency and the end of a run.
LEMMA TypeRescue ==
  ASSUME TypeInv, NEW p \in Procs,
         \/ Orphan(p) \/ RouteNoExposure(p) \/ RouteImpossible(p) \/ RouteCovered(p)
         \/ (\E v \in Venues : RouteRescue(p, v)) \/ Settle(p) \/ SetHalt(p) \/ ReleaseLock(p)
  PROVE  TypeInv'
<1> USE DEF ledger, venue, told
<1>0. /\ DataOK /\ ProcsOK /\ pc[p] # "idle" /\ job[p] \in Job /\ Run(p) \in Executions
      /\ job[p].run \in Executions
  BY AtWorkTypes
     DEF TypeInv, Run, Orphan, RouteNoExposure, RouteImpossible, RouteCovered, RouteRescue,
         Settle, SetHalt, ReleaseLock
<1>d. ASSUME NEW s \in RunStatus, Decide(p, s) PROVE TypeInv'
  <2> DEFINE j == [job[p] EXCEPT !.verdict = s]
  <2>1. Sound("settle", j)
    BY <1>0 DEF Sound, Job, Steps, Preparing, Submitting
  <2>2. job' = [job EXCEPT ![p] = j] /\ Goto(p, "settle")
    BY <1>0, <1>d DEF Decide, ProcsOK
  <2>3. ProcsOK'
    BY <1>0, <2>1, <2>2, Moves DEF Sound
  <2> QED BY <1>0, <1>d, <2>3 DEF Decide, DataOK, TypeInv
<1>1. CASE Orphan(p)
  <2>1. ProcsOK'
    BY <1>0, <1>1, Stays DEF Orphan, Steps, Preparing, Submitting
  <2> QED BY <1>0, <1>1, <2>1 DEF Orphan, SetRun, RunStatus, DataOK, TypeInv
<1>2. CASE RouteNoExposure(p)
  BY <1>2, <1>d DEF RouteNoExposure, RunStatus
<1>3. CASE RouteImpossible(p)
  BY <1>3, <1>d DEF RouteImpossible, RunStatus
<1>4. CASE RouteCovered(p)
  BY <1>4, <1>d DEF RouteCovered, RunStatus
<1>5. ASSUME NEW v \in Venues, RouteRescue(p, v) PROVE TypeInv'
  <2> DEFINE j == [job[p] EXCEPT !.slot = Rescue, !.via = v]
  <2>1. Sound("preflight", j)
    BY <1>0, Constants DEF Sound, Job, Steps, Preparing, Submitting
  <2>2. job' = [job EXCEPT ![p] = j] /\ Goto(p, "preflight")
    BY <1>0, <1>5 DEF RouteRescue, ProcsOK
  <2>3. ProcsOK'
    BY <1>0, <2>1, <2>2, Moves DEF Sound
  <2> QED BY <1>0, <1>5, <2>3 DEF RouteRescue, DataOK, TypeInv
<1>6. CASE Settle(p)
  <2>1. ProcsOK'
    BY <1>0, <1>6, Stays, Finishes DEF Settle, Steps, Preparing, Submitting
  <2>2. DataOK'
    BY <1>0, <1>6 DEF Settle, SetRun, Job, DataOK
  <2> QED BY <2>1, <2>2 DEF TypeInv
<1>7. CASE SetHalt(p)
  BY <1>0, <1>7, Finishes DEF SetHalt, DataOK, TypeInv
<1>8. CASE ReleaseLock(p)
  BY <1>0, <1>8, Finishes, ReleaseTypes DEF ReleaseLock, DataOK, TypeInv
<1> QED BY <1>1, <1>2, <1>3, <1>4, <1>5, <1>6, <1>7, <1>8

\* The type invariant through resolve-emergency and a crash.
LEMMA TypeOperators ==
  ASSUME TypeInv, NEW p \in Procs,
         \/ \E e \in Executions : Resolve(p, e)
         \/ ResolveMark(p) \/ ClearHalt(p) \/ Crash(p)
  PROVE  TypeInv'
<1> USE DEF ledger, venue, told
<1>0. DataOK /\ ProcsOK
  BY DEF TypeInv
<1>1. ASSUME NEW e \in Executions, Resolve(p, e) PROVE TypeInv'
  <2>1. ProcsOK'
    BY <1>0, <1>1, Starts DEF Resolve, Steps, Submitting
  <2> QED BY <1>0, <1>1, <2>1, ReleaseTypes DEF Resolve, DataOK, TypeInv
<1>2. CASE ResolveMark(p)
  <2>1. ProcsOK'
    BY <1>0, <1>2, Stays, Finishes DEF ResolveMark, Steps, Preparing, Submitting
  <2> QED BY <1>0, <1>2, <2>1 DEF ResolveMark, SetRun, RunStatus, DataOK, TypeInv
<1>3. CASE ClearHalt(p)
  BY <1>0, <1>3, Finishes DEF ClearHalt, DataOK, TypeInv
<1>4. CASE Crash(p)
  BY <1>0, <1>4, Finishes DEF Crash, DataOK, TypeInv
<1> QED BY <1>1, <1>2, <1>3, <1>4

\* The type invariant through what a venue does with a resting order.
LEMMA TypeVenues ==
  ASSUME TypeInv, NEW k \in Key, VenueMatches(k) \/ VenueLapses(k)
  PROVE  TypeInv'
<1> USE DEF ledger, told
<1>0. DataOK /\ ProcsOK /\ book \in [Key -> Book] /\ book[k] \in Book
  BY DEF TypeInv, DataOK
<1>1. CASE VenueMatches(k)
  <2>1. \A h \in Stakes : Arrived(h) \in Book
    BY DEF Arrived, Closed, Lying, Book
  <2>2. book' \in [Key -> Book]
    BY <1>0, <1>1, <2>1 DEF VenueMatches
  <2> QED BY <1>0, <1>1, <2>2 DEF VenueMatches, DataOK, ProcsOK, TypeInv
<1>2. CASE VenueLapses(k)
  <2>1. [book[k] EXCEPT !.resting = FALSE] \in Book
    BY <1>0 DEF Book
  <2>2. book' \in [Key -> Book]
    BY <1>0, <1>2, <2>1 DEF VenueLapses
  <2> QED BY <1>0, <1>2, <2>2 DEF VenueLapses, DataOK, ProcsOK, TypeInv
<1> QED BY <1>1, <1>2

\* The type invariant is inductive.
LEMMA TypeStep == TypeInv /\ [Next]_vars => TypeInv'
<1> SUFFICES ASSUME TypeInv, [Next]_vars PROVE TypeInv'
  OBVIOUS
<1>1. ASSUME NEW p \in Procs, Step(p) \/ PrepareError(p) \/ Crash(p) PROVE TypeInv'
  BY <1>1, TypePrepare, TypeResume, TypeSubmit, TypeRescue, TypeOperators DEF Step
<1>2. ASSUME NEW p \in Procs, NEW e \in Executions, Command(p, e) PROVE TypeInv'
  BY <1>2, TypePrepare, TypeManual, TypeResume, TypeOperators DEF Command
<1>3. CASE Environment
  <2>1. CASE OperatorHalts
    BY <2>1 DEF OperatorHalts, venue, told, DataOK, ProcsOK, TypeInv
  <2> QED BY <1>3, <2>1, TypeManual, TypeVenues DEF Environment
<1>4. CASE UNCHANGED vars
  BY <1>4 DEF vars, TypeInv, DataOK, ProcsOK
<1> QED BY <1>1, <1>2, <1>3, <1>4 DEF Next

\* Every variable keeps its type, for any number of executions, processes and
\* legs: a command that runs always has a run, an order in hand always belongs
\* to the leg of its loop or is the rescue.
THEOREM TypeCorrect == Spec => []TypeOK
<1>1. TypeInv => TypeOK
  BY DEF TypeInv, DataOK, ProcsOK, TypeOK
<1> QED BY <1>1, TypeInit, TypeStep, PTL DEF Spec
-----------------------------------------------------------------------------
(* An order is submitted at most once *)

\* A command changes no process but its own.
Others(p) == \A q \in Procs \ {p} : pc'[q] = pc[q] /\ job'[q] = job[q]

Acts(p) == Step(p) \/ PrepareError(p) \/ Crash(p) \/ \E e \in Executions : Command(p, e)

\* Whatever a process does, the other processes keep their place and job.
LEMMA OthersStay ==
  ASSUME TypeInv, NEW p \in Procs, Acts(p)
  PROVE  Others(p)
<1> USE DEF Others, Goto, Finish, Start
<1>1. pc \in [Procs -> Steps] /\ job \in [Procs -> Job]
  BY DEF TypeInv, ProcsOK
<1>2. CASE \/ PrepareLock(p) \/ PrepareCreate(p) \/ PrepareRefused(p) \/ PrepareLeg(p)
           \/ PrepareUndo(p) \/ PrepareError(p) \/ Crash(p)
  BY <1>1, <1>2
     DEF PrepareLock, PrepareCreate, PrepareRefused, PrepareLeg, PrepareUndo, PrepareError, Crash
<1>3. CASE \E e \in Executions : Command(p, e)
  BY <1>1, <1>3
     DEF Command, PrepareStart, ConfirmAccepted, ConfirmRejected, ResumeLoad, Resolve
<1>4. CASE \/ ResumeHalted(p) \/ ResumeChecked(p) \/ ResumeMark(p)
           \/ LegRowMissing(p) \/ SkipLeg(p) \/ SubmitLeg(p) \/ LegsDone(p)
  BY <1>1, <1>4
     DEF ResumeHalted, ResumeChecked, ResumeMark, LegRowMissing, SkipLeg, SubmitLeg, LegsDone
<1>5. CASE \/ PreflightRefused(p) \/ PreflightOk(p) \/ GateRefused(p)
           \/ CanaryRefused(p) \/ CanaryAuthorized(p)
  BY <1>1, <1>5
     DEF PreflightRefused, PreflightOk, GateRefused, CanaryRefused, CanaryAuthorized, Trip
<1>6. CASE Send(p) \/ SendRaises(p) \/ Reconcile(p) \/ CancelRemainder(p) \/ Requery(p)
  BY <1>1, <1>6 DEF Send, SendRaises, Reconcile, CancelRemainder, Requery, Trip
<1>7. CASE Save(p)
  BY <1>1, <1>7 DEF Save, Done
<1>8. CASE \/ Orphan(p) \/ RouteNoExposure(p) \/ RouteImpossible(p) \/ RouteCovered(p)
           \/ \E v \in Venues : RouteRescue(p, v)
  BY <1>1, <1>8
     DEF Orphan, RouteNoExposure, RouteImpossible, RouteCovered, RouteRescue, Decide
<1>9. CASE Settle(p) \/ SetHalt(p) \/ ReleaseLock(p) \/ ResolveMark(p) \/ ClearHalt(p)
  BY <1>1, <1>9 DEF Settle, SetHalt, ReleaseLock, ResolveMark, ClearHalt
<1> QED BY <1>2, <1>3, <1>4, <1>5, <1>6, <1>7, <1>8, <1>9 DEF Acts, Step

\* Only the canary's authorisation and the submission itself touch the attempts,
\* the submissions, or who is about to submit.
Calm(p) == attempts' = attempts /\ sent' = sent /\ pc'[p] # "send"

\* Every action of a process is calm but the three that concern an order.
LEMMA CalmSteps ==
  ASSUME TypeInv, NEW p \in Procs, Acts(p)
  PROVE  Calm(p) \/ CanaryAuthorized(p) \/ Send(p) \/ SendRaises(p)
<1> USE DEF Calm, Goto, Finish, Start, ledger, venue
<1>1. pc \in [Procs -> Steps]
  BY DEF TypeInv, ProcsOK
<1>2. CASE \/ PrepareLock(p) \/ PrepareCreate(p) \/ PrepareRefused(p) \/ PrepareLeg(p)
           \/ PrepareUndo(p) \/ PrepareError(p) \/ Crash(p)
  BY <1>1, <1>2
     DEF PrepareLock, PrepareCreate, PrepareRefused, PrepareLeg, PrepareUndo, PrepareError, Crash
<1>3. CASE \E e \in Executions : Command(p, e)
  BY <1>1, <1>3
     DEF Command, PrepareStart, ConfirmAccepted, ConfirmRejected, ResumeLoad, Resolve
<1>4. CASE \/ ResumeHalted(p) \/ ResumeChecked(p) \/ ResumeMark(p)
           \/ LegRowMissing(p) \/ SkipLeg(p) \/ SubmitLeg(p) \/ LegsDone(p)
  BY <1>1, <1>4
     DEF ResumeHalted, ResumeChecked, ResumeMark, LegRowMissing, SkipLeg, SubmitLeg, LegsDone,
         AtLeg
<1>5. CASE PreflightRefused(p) \/ PreflightOk(p) \/ GateRefused(p) \/ CanaryRefused(p)
  BY <1>1, <1>5 DEF PreflightRefused, PreflightOk, GateRefused, CanaryRefused
<1>6. CASE Reconcile(p) \/ CancelRemainder(p) \/ Requery(p)
  BY <1>1, <1>6 DEF Reconcile, CancelRemainder, Requery, AfterReply
<1>7. CASE Save(p)
  BY <1>1, <1>7 DEF Save, Done
<1>8. CASE \/ Orphan(p) \/ RouteNoExposure(p) \/ RouteImpossible(p) \/ RouteCovered(p)
           \/ \E v \in Venues : RouteRescue(p, v)
  BY <1>1, <1>8
     DEF Orphan, RouteNoExposure, RouteImpossible, RouteCovered, RouteRescue, Decide
<1>9. CASE Settle(p) \/ SetHalt(p) \/ ReleaseLock(p) \/ ResolveMark(p) \/ ClearHalt(p)
  BY <1>1, <1>9 DEF Settle, SetHalt, ReleaseLock, ResolveMark, ClearHalt
<1> QED BY <1>2, <1>3, <1>4, <1>5, <1>6, <1>7, <1>8, <1>9 DEF Acts, Step

\* AtMostOnePlacement is not inductive. What makes it hold is that the canary's
\* row is there before the order is: whoever is about to submit has inserted the
\* row, nobody else can be about to submit the same order, and nobody has yet.
OnceInv ==
  /\ \A k \in Key : sent[k] <= 1 /\ (sent[k] > 0 => k \in attempts)
  /\ \A p \in Procs : pc[p] = "send" => K(p) \in attempts /\ sent[K(p)] = 0
  /\ \A p, q \in Procs : p # q /\ pc[p] = "send" /\ pc[q] = "send" => K(p) # K(q)

\* OnceInv is inductive, given the types.
LEMMA OnceStep == TypeInv /\ OnceInv /\ [Next]_vars => OnceInv'
<1> SUFFICES ASSUME TypeInv, OnceInv, [Next]_vars PROVE OnceInv'
  OBVIOUS
<1> USE DEF OnceInv
<1>1. pc \in [Procs -> Steps] /\ sent \in [Key -> Nat]
  BY DEF TypeInv, DataOK, ProcsOK
<1>2. ASSUME NEW p \in Procs, Acts(p), Calm(p) PROVE OnceInv'
  BY <1>1, <1>2, OthersStay DEF Calm, Others, K
<1>3. ASSUME NEW p \in Procs, CanaryAuthorized(p) PROVE OnceInv'
  <2>1. Others(p)
    BY <1>3, OthersStay DEF Acts, Step
  <2>2. /\ K(p) \notin attempts /\ attempts' = attempts \cup {K(p)}
        /\ sent' = sent /\ K(p)' = K(p) /\ K(p) \in Key
    BY <1>3, AtWorkTypes DEF CanaryAuthorized, CanaryAllows, K, venue
  <2>3. \A q \in Procs \ {p} : pc'[q] = pc[q] /\ K(q)' = K(q)
    BY <2>1 DEF Others, K
  <2>4. sent[K(p)] = 0
    BY <1>1, <2>2
  <2> QED BY <2>2, <2>3, <2>4
<1>4. ASSUME NEW p \in Procs, Send(p) \/ SendRaises(p) PROVE OnceInv'
  <2>1. Others(p)
    BY <1>4, OthersStay DEF Acts, Step
  <2>2. /\ pc[p] = "send" /\ attempts' = attempts /\ K(p) \in Key
        /\ sent' = [sent EXCEPT ![K(p)] = @ + 1]
    BY <1>4, AtWorkTypes DEF Send, SendRaises, ledger
  <2>3. pc'[p] # "send"
    BY <1>1, <1>4 DEF Send, SendRaises, Goto, AfterReply
  <2>4. \A q \in Procs \ {p} : pc'[q] = pc[q] /\ K(q)' = K(q)
    BY <2>1 DEF Others, K
  <2>5. \A q \in Procs : pc'[q] = "send" => K(q)' = K(q) /\ K(q) # K(p) /\ K(q) \in Key
    BY <2>2, <2>3, <2>4, AtWorkTypes
  <2> QED BY <1>1, <2>2, <2>3, <2>4, <2>5
<1>5. CASE Environment
  BY <1>5 DEF Environment, OperatorHalts, AbortIfFlat, OperatorBets, VenueMatches, VenueLapses,
     ledger, venue, told, K
<1>6. CASE UNCHANGED vars
  BY <1>6 DEF vars, K
<1> QED BY <1>2, <1>3, <1>4, <1>5, <1>6, CalmSteps DEF Next, Acts

\* Whatever crashes, retries and concurrent resumes happen, no order reference
\* is submitted twice to a venue.
THEOREM AtMostOnce == Spec => []AtMostOnePlacement
<1>1. Init => OnceInv
  BY DEF Init, OnceInv
<1>2. OnceInv => AtMostOnePlacement
  BY DEF OnceInv, AtMostOnePlacement
<1> QED BY <1>1, <1>2, TypeInit, TypeStep, OnceStep, PTL DEF Spec
-----------------------------------------------------------------------------
(* Orders go out only for armed runs *)

ManualReported(e) == HasManual(e) => e \in confirmed

\* The steps of a command that may still submit an order.
Bound == Submitting \cup {"halt_check", "mark", "leg", "orphan", "route"}

\* OrdersAreArmed is not inductive. The status of a run tells that its manual leg
\* was reported, a command that read such a status may go on to submit, and the
\* status it will record later must keep telling the truth.
ArmedInv ==
  /\ \A k \in Key : sent[k] > 0 => plan[k[1]].live /\ ManualReported(k[1])
  /\ \A p \in Procs : pc[p] \in Bound => plan[Run(p)].live /\ ManualReported(Run(p))
  /\ \A p \in Procs : pc[p] = "settle" /\ job[p].verdict # "aborted" => ManualReported(Run(p))
  /\ \A e \in Executions :
       runStatus[e] \notin {"none", "waiting_manual", "aborted"} => ManualReported(e)

\* A plan stays live or dry, and keeps its manual leg, whoever reports what.
LEMMA PlansStay ==
  ASSUME TypeInv, [Next]_vars, NEW e \in Executions
  PROVE  /\ plan'[e].live = plan[e].live
         /\ ManualReported(e) => ManualReported(e)'
<1> USE DEF ledger, venue, told
<1>1. plan \in [Executions -> Plan]
  BY DEF TypeInv, DataOK
<1>2. ASSUME plan' = plan, confirmed \subseteq confirmed'
      PROVE  plan'[e].live = plan[e].live /\ (ManualReported(e) => ManualReported(e)')
  BY <1>2 DEF ManualReported, HasManual
<1>3. ASSUME NEW p \in Procs, NEW f \in Executions, PrepareStart(p, f)
      PROVE  plan'[e].live = plan[e].live /\ (ManualReported(e) => ManualReported(e)')
  <2>1. plan' = [plan EXCEPT ![f].venue = ManualFirst(plan[f].venue)] /\ confirmed' = confirmed
    BY <1>3 DEF PrepareStart
  <2>2. CASE e # f
    BY <1>1, <2>1, <2>2 DEF ManualReported, HasManual
  <2>3. CASE e = f
    <3>1. /\ plan'[e].live = plan[e].live
          /\ plan'[e].venue = ManualFirst(plan[e].venue)
          /\ plan[e].venue \in [Legs -> Venues \cup {Retail}]
      BY <1>1, <2>1, <2>3 DEF Plan
    <3>2. HasManual(e)' <=> HasManual(e)
      BY <3>1, ManualFirstKeeps DEF HasManual
    <3> QED BY <2>1, <3>1, <3>2 DEF ManualReported
  <2> QED BY <2>2, <2>3
<1>4. ASSUME NEW p \in Procs, Step(p) \/ PrepareError(p) \/ Crash(p)
      PROVE  plan' = plan /\ confirmed' = confirmed
  BY <1>4 DEF Step, PrepareError, Crash,
     PrepareLock, PrepareCreate, PrepareRefused, PrepareLeg, PrepareUndo,
     ResumeHalted, ResumeChecked, ResumeMark, LegRowMissing, SkipLeg, SubmitLeg, LegsDone,
     PreflightRefused, PreflightOk, GateRefused, CanaryRefused, CanaryAuthorized,
     Send, SendRaises, Reconcile, CancelRemainder, Requery, Save, Orphan, Decide,
     RouteNoExposure, RouteImpossible, RouteCovered, RouteRescue, Settle, SetHalt,
     ReleaseLock, ResolveMark, ClearHalt
<1>5. ASSUME NEW p \in Procs, NEW f \in Executions,
             ConfirmAccepted(p, f) \/ ConfirmRejected(p, f) \/ ResumeLoad(p, f) \/ Resolve(p, f)
      PROVE  plan' = plan /\ confirmed \subseteq confirmed'
  BY <1>5 DEF ConfirmAccepted, ConfirmRejected, ResumeLoad, Resolve
<1>6. CASE Environment \/ UNCHANGED vars
  BY <1>2, <1>6 DEF Environment, OperatorHalts, AbortIfFlat, OperatorBets, VenueMatches,
     VenueLapses, vars
<1> QED BY <1>2, <1>3, <1>4, <1>5, <1>6 DEF Next, Command

\* Most steps submit nothing, record no status, and stay among the steps of a
\* command that was bound to submit before.
Follows(p) ==
  /\ sent' = sent /\ runStatus' = runStatus
  /\ pc'[p] \in Bound \cup {"settle"} => pc[p] \in Bound /\ job'[p].run = job[p].run

\* How a process can come to a step that may still submit, or to settle a run.
LEMMA FollowingSteps ==
  ASSUME TypeInv, NEW p \in Procs, Acts(p)
  PROVE  \/ Follows(p)
         \/ PrepareCreate(p) \/ ResumeMark(p) \/ Orphan(p) \/ Settle(p) \/ ResolveMark(p)
         \/ Send(p) \/ SendRaises(p)
         \/ \E e \in Executions :
              ConfirmAccepted(p, e) \/ ConfirmRejected(p, e) \/ ResumeLoad(p, e)
<1> USE DEF Follows, Bound, Submitting, Goto, Finish, Start, ledger, venue
<1>1. pc \in [Procs -> Steps] /\ job \in [Procs -> Job]
  BY DEF TypeInv, ProcsOK
<1>2. CASE \/ PrepareLock(p) \/ PrepareRefused(p) \/ PrepareLeg(p)
           \/ PrepareUndo(p) \/ PrepareError(p) \/ Crash(p)
  BY <1>1, <1>2
     DEF PrepareLock, PrepareRefused, PrepareLeg, PrepareUndo, PrepareError, Crash
<1>3. ASSUME NEW e \in Executions, PrepareStart(p, e) \/ Resolve(p, e) PROVE Follows(p)
  BY <1>1, <1>3 DEF PrepareStart, Resolve
<1>4. CASE \/ ResumeHalted(p) \/ ResumeChecked(p) \/ LegRowMissing(p)
           \/ SkipLeg(p) \/ SubmitLeg(p) \/ LegsDone(p)
  <2> USE <1>1
  <2>1. CASE ResumeHalted(p) \/ ResumeChecked(p) \/ LegRowMissing(p)
    BY <2>1 DEF ResumeHalted, ResumeChecked, LegRowMissing, AtLeg
  <2>2. CASE SkipLeg(p) \/ SubmitLeg(p)
    BY <2>2 DEF SkipLeg, SubmitLeg, AtLeg, Job
  <2>3. CASE LegsDone(p)
    BY <2>3 DEF LegsDone, Job
  <2> QED BY <1>4, <2>1, <2>2, <2>3
<1>5. CASE \/ PreflightRefused(p) \/ PreflightOk(p) \/ GateRefused(p)
           \/ CanaryRefused(p) \/ CanaryAuthorized(p)
  BY <1>1, <1>5
     DEF PreflightRefused, PreflightOk, GateRefused, CanaryRefused, CanaryAuthorized, Trip, Job
<1>6. CASE Reconcile(p) \/ CancelRemainder(p) \/ Requery(p)
  BY <1>1, <1>6 DEF Reconcile, CancelRemainder, Requery, AfterReply, Job
<1>7. CASE Save(p)
  BY <1>1, <1>7 DEF Save, Done, Job
<1>8. CASE \/ RouteNoExposure(p) \/ RouteImpossible(p) \/ RouteCovered(p)
           \/ \E v \in Venues : RouteRescue(p, v)
  BY <1>1, <1>8
     DEF RouteNoExposure, RouteImpossible, RouteCovered, RouteRescue, Decide, Job
<1>9. CASE SetHalt(p) \/ ReleaseLock(p) \/ ClearHalt(p)
  BY <1>1, <1>9 DEF SetHalt, ReleaseLock, ClearHalt
<1> QED BY <1>2, <1>3, <1>4, <1>5, <1>6, <1>7, <1>8, <1>9 DEF Acts, Step, Command

\* ArmedInv is inductive, given the types.
LEMMA ArmedStep == TypeInv /\ ArmedInv /\ [Next]_vars => ArmedInv'
<1> SUFFICES ASSUME TypeInv, ArmedInv, [Next]_vars PROVE ArmedInv'
  OBVIOUS
<1> USE DEF ArmedInv
<1>1. /\ pc \in [Procs -> Steps] /\ job \in [Procs -> Job] /\ sent \in [Key -> Nat]
      /\ runStatus \in [Executions -> RunStatus]
      /\ \A p \in Procs : pc[p] # "idle" => Run(p) \in Executions
      /\ \A k \in Key : k[1] \in Executions
  BY DEF TypeInv, DataOK, ProcsOK, Sound, Run, Key
<1>2. \A e \in Executions : /\ plan'[e].live = plan[e].live
                            /\ ManualReported(e) => ManualReported(e)'
  BY PlansStay
\* Each conjunct holds again for whatever did not change.
<1>3. ASSUME sent' = sent
      PROVE  \A k \in Key : sent'[k] > 0 => plan'[k[1]].live /\ ManualReported(k[1])'
  BY <1>1, <1>2, <1>3
<1>4. ASSUME NEW p \in Procs, Others(p)
      PROVE  \A q \in Procs \ {p} :
               /\ pc'[q] \in Bound => plan'[Run(q)'].live /\ ManualReported(Run(q))'
               /\ pc'[q] = "settle" /\ job'[q].verdict # "aborted" => ManualReported(Run(q))'
  <2> SUFFICES ASSUME NEW q \in Procs \ {p}
               PROVE /\ pc'[q] \in Bound => plan'[Run(q)'].live /\ ManualReported(Run(q))'
                     /\ pc'[q] = "settle" /\ job'[q].verdict # "aborted" => ManualReported(Run(q))'
    OBVIOUS
  <2>1. pc'[q] = pc[q] /\ job'[q] = job[q]
    BY <1>4 DEF Others
  <2>2. pc[q] \in Bound \cup {"settle"} => Run(q) \in Executions
    BY <1>1 DEF Bound, Submitting
  <2>3. Run(q)' = Run(q) /\ (ManualReported(Run(q))' <=> ManualReported(job[q].run)')
    BY <2>1 DEF Run, ManualReported, HasManual
  <2> QED BY <1>2, <2>1, <2>2, <2>3 DEF Run
<1>5. ASSUME NEW p \in Procs, NEW e \in Executions, Run(p)' = e, plan[e].live, ManualReported(e)
      PROVE  plan'[Run(p)'].live /\ ManualReported(Run(p))'
  BY <1>2, <1>5 DEF ManualReported, HasManual
<1>a. ASSUME NEW p \in Procs, Acts(p), sent' = sent, runStatus' = runStatus,
             pc'[p] \in Bound => plan'[Run(p)'].live /\ ManualReported(Run(p))',
             pc'[p] = "settle" /\ job'[p].verdict # "aborted" => ManualReported(Run(p))'
      PROVE  ArmedInv'
  <2>1. \A e \in Executions :
          runStatus'[e] \notin {"none", "waiting_manual", "aborted"} => ManualReported(e)'
    BY <1>2, <1>a
  <2> QED BY <1>3, <1>4, <1>a, <2>1, OthersStay
<1>6. ASSUME NEW p \in Procs, Acts(p), sent' = sent, NEW s \in RunStatus,
             SetRun(Run(p), s), Run(p) \in Executions, job' = job \/ pc'[p] = "idle",
             s \notin {"none", "waiting_manual", "aborted"} => ManualReported(Run(p)),
             pc'[p] \in Bound => pc[p] \in Bound, pc'[p] # "settle"
      PROVE  ArmedInv'
  <2>1. /\ pc'[p] \in Bound => plan'[Run(p)'].live /\ ManualReported(Run(p))'
        /\ pc'[p] # "settle"
    BY <1>1, <1>2, <1>6 DEF Run, ManualReported, HasManual, Bound, Submitting
  <2>2. ASSUME NEW e \in Executions,
               runStatus'[e] \notin {"none", "waiting_manual", "aborted"}
        PROVE  ManualReported(e)'
    BY <1>1, <1>2, <1>6, <2>2 DEF SetRun
  <2> QED BY <1>3, <1>4, <1>6, <2>1, <2>2, OthersStay
<1>7. ASSUME NEW p \in Procs, Acts(p) PROVE ArmedInv'
  <2>1. CASE Follows(p)
    <3>1. CASE pc'[p] \in Bound \cup {"settle"}
      <4>1. pc[p] \in Bound /\ Run(p)' = Run(p)
        BY <2>1, <3>1 DEF Follows, Run
      <4>2. PICK e \in Executions : e = Run(p)
        BY <1>1, <4>1 DEF Bound, Submitting
      <4>3. plan[e].live /\ ManualReported(e)
        BY <4>1, <4>2 DEF ManualReported, HasManual
      <4>4. plan'[Run(p)'].live /\ ManualReported(Run(p))'
        BY <1>5, <4>1, <4>2, <4>3
      <4> QED BY <1>a, <1>7, <2>1, <4>4 DEF Follows
    <3>2. CASE pc'[p] \notin Bound \cup {"settle"}
      BY <1>a, <1>7, <2>1, <3>2 DEF Follows
    <3> QED BY <3>1, <3>2
  <2>2. CASE PrepareCreate(p)
    BY <1>1, <1>6, <1>7, <2>2
       DEF PrepareCreate, RunStatus, ManualReported, Goto, Bound, Submitting, venue
  <2>3. CASE ResumeMark(p)
    BY <1>1, <1>6, <1>7, <2>3 DEF ResumeMark, RunStatus, Goto, Bound, Submitting, venue
  <2>4. CASE Orphan(p)
    BY <1>1, <1>6, <1>7, <2>4 DEF Orphan, RunStatus, Goto, Bound, Submitting, venue
  <2>5. CASE Settle(p)
    <3>1. job[p].verdict \in RunStatus
      BY <1>1 DEF Job
    <3> QED BY <1>1, <1>6, <1>7, <2>5, <3>1
            DEF Settle, RunStatus, Goto, Finish, Bound, Submitting, venue
  <2>6. CASE ResolveMark(p)
    BY <1>1, <1>6, <1>7, <2>6
       DEF ResolveMark, RunStatus, Goto, Finish, Bound, Submitting, venue
  <2>7. CASE Send(p) \/ SendRaises(p)
    <3>1. /\ pc[p] = "send" /\ sent' = [sent EXCEPT ![K(p)] = @ + 1] /\ K(p)[1] = Run(p)
          /\ runStatus' = runStatus
      BY <2>7 DEF Send, SendRaises, K, Run, ledger
    <3>2. plan[Run(p)].live /\ ManualReported(Run(p)) /\ Run(p) \in Executions
      BY <1>1, <3>1 DEF Bound, Submitting
    <3>3. \A k \in Key : sent'[k] > 0 => plan'[k[1]].live /\ ManualReported(k[1])'
      BY <1>1, <1>2, <3>1, <3>2
    <3>4. job'[p].run = Run(p) /\ pc'[p] # "settle"
      <4>1. CASE Send(p)
        <5>1. PICK r \in PlaceReplies(job[p].via) :
                /\ job' = IF r.result.status \in TrippingStatus THEN Trip(p, r.result)
                          ELSE [job EXCEPT ![p].res = r.result]
                /\ Goto(p, AfterReply(r.result))
          BY <4>1 DEF Send
        <5> QED BY <1>1, <5>1 DEF Goto, AfterReply, Trip, Run, Job
      <4>2. CASE SendRaises(p)
        BY <1>1, <4>2 DEF SendRaises, Goto, Trip, Run, Job
      <4> QED BY <2>7, <4>1, <4>2
    <3>5. plan'[Run(p)'].live /\ ManualReported(Run(p))'
      <4>1. PICK e \in Executions : e = Run(p)
        BY <3>2
      <4>2. plan[e].live /\ ManualReported(e) /\ Run(p)' = e
        BY <3>2, <3>4, <4>1 DEF Run, ManualReported, HasManual
      <4> QED BY <1>5, <4>2
    <3>6. \A e \in Executions :
            runStatus'[e] \notin {"none", "waiting_manual", "aborted"} => ManualReported(e)'
      BY <1>2, <3>1
    <3> QED BY <1>4, <1>7, <3>3, <3>4, <3>5, <3>6, OthersStay
  <2>8. ASSUME NEW e \in Executions, ConfirmAccepted(p, e) \/ ConfirmRejected(p, e)
        PROVE  ArmedInv'
    <3>1. /\ sent' = sent /\ runStatus' = runStatus /\ pc'[p] = "settle" /\ Run(p)' = e
      <4>1. CASE ConfirmAccepted(p, e)
        BY <1>1, <4>1 DEF ConfirmAccepted, Goto, Run, venue, IdleJob
      <4>2. CASE ConfirmRejected(p, e)
        BY <1>1, <4>2 DEF ConfirmRejected, Goto, Run, venue, IdleJob
      <4> QED BY <2>8, <4>1, <4>2
    <3>2. job'[p].verdict # "aborted" => e \in confirmed'
      <4>1. CASE ConfirmAccepted(p, e)
        BY <4>1 DEF ConfirmAccepted
      <4>2. CASE ConfirmRejected(p, e)
        BY <1>1, <4>2 DEF ConfirmRejected, IdleJob
      <4> QED BY <2>8, <4>1, <4>2
    <3>3. pc'[p] \notin Bound
      BY <3>1 DEF Bound, Submitting
    <3>4. job'[p].verdict # "aborted" => ManualReported(Run(p))'
      BY <3>1, <3>2 DEF ManualReported
    <3> QED BY <1>a, <1>7, <3>1, <3>3, <3>4
  <2>9. ASSUME NEW e \in Executions, ResumeLoad(p, e)
        PROVE  ArmedInv'
    <3>1. /\ sent' = sent /\ runStatus' = runStatus /\ pc'[p] = "halt_check" /\ Run(p)' = e
          /\ plan[e].live /\ runStatus[e] \notin {"none", "waiting_manual", "aborted"}
      BY <1>1, <2>9 DEF ResumeLoad, Start, Goto, Run, ledger, venue, IdleJob, Terminal
    <3>2. plan'[Run(p)'].live /\ ManualReported(Run(p))'
      BY <1>5, <3>1
    <3> QED BY <1>a, <1>7, <3>1, <3>2
  <2> QED BY <1>7, <2>1, <2>2, <2>3, <2>4, <2>5, <2>6, <2>7, <2>8, <2>9, FollowingSteps
<1>8. ASSUME pc' = pc, job' = job, sent' = sent,
             \A e \in Executions : runStatus'[e] \in {runStatus[e], "aborted"}
      PROVE  ArmedInv'
  <2>1. \A p \in Procs : pc[p] \in Bound \cup {"settle"} => Run(p) \in Executions
    BY <1>1 DEF Bound, Submitting
  <2>2. \A p \in Procs : Run(p)' = Run(p)
    BY <1>8 DEF Run
  <2>3. \A p \in Procs :
          /\ pc'[p] \in Bound => plan'[Run(p)'].live /\ ManualReported(Run(p))'
          /\ pc'[p] = "settle" /\ job'[p].verdict # "aborted" => ManualReported(Run(p))'
    BY <1>2, <1>8, <2>1, <2>2 DEF ManualReported, HasManual
  <2> QED BY <1>2, <1>3, <1>8, <2>3
<1>9. CASE Environment \/ UNCHANGED vars
  <2>1. /\ pc' = pc /\ job' = job /\ sent' = sent
        /\ \A e \in Executions : runStatus'[e] \in {runStatus[e], "aborted"}
    BY <1>1, <1>9 DEF Environment, OperatorHalts, AbortIfFlat, OperatorBets, VenueMatches,
       VenueLapses, vars, ledger, venue, SetRun
  <2> QED BY <1>8, <2>1
<1> QED BY <1>7, <1>9 DEF Next, Acts

\* No automatic order is submitted for a dry-run plan, nor before the manual leg
\* of its plan was reported accepted, even when operators abort, resolve or
\* confirm at the wrong time.
THEOREM OnlyArmed == Spec => []OrdersAreArmed
<1>1. Init => ArmedInv
  BY DEF Init, ArmedInv, Bound, Submitting
<1>2. ArmedInv => OrdersAreArmed
  BY DEF ArmedInv, OrdersAreArmed, ManualReported
<1> QED BY <1>1, <1>2, TypeInit, TypeStep, ArmedStep, PTL DEF Spec
-----------------------------------------------------------------------------
(* Locks and the halt, one command at a time *)

\* The conditions of the runs TwoRuns and CoordinatorSerial: one command at a
\* time, none of them dies, and operators keep to the procedure.
Serial == (\A p, q \in Procs : p = q) /\ MaxCrashes = 0 /\ Liberties = {}

\* The steps of a command that works on a run it has recorded or read.
Holding == {"legs", "halt_check", "mark", "leg", "orphan", "route", "settle"} \cup Submitting

\* Neither ActiveRunHoldsLock nor EmergencyHalts is inductive: a command that may
\* write a status holds the lock while it does, it does not work on a run in
\* emergency, and the halt is cleared only when no run is left in emergency.
Guarded(p) ==
  /\ pc[p] \in Holding \cup {"create", "undo"} => lock[plan[Run(p)].market] = Run(p)
  /\ pc[p] \in {"lock", "create", "undo"} => runStatus[Run(p)] = "none"
  /\ pc[p] = "release" => runStatus[Run(p)] \in Terminal
  /\ pc[p] \in Holding \ {"halt_check"} => runStatus[Run(p)] # "emergency"
  /\ pc[p] = "clear_halt" => \A e \in Executions : runStatus[e] # "emergency"
GateInv == ActiveRunHoldsLock /\ EmergencyHalts /\ \A p \in Procs : Guarded(p)

\* A step that writes neither a status nor a lock nor the halt, and takes its
\* process nowhere that Guarded asks more of.
Plain(p) ==
  /\ runStatus' = runStatus /\ lock' = lock /\ halted' = halted
  /\ plan' = plan
  /\ pc[p] \notin {"resolve", "set_halt"}
  /\ pc'[p] \in Holding => pc[p] \in Holding /\ job'[p].run = job[p].run
  /\ pc'[p] = "undo" => pc[p] = "create" /\ job'[p].run = job[p].run
  /\ pc'[p] \notin {"create", "lock", "release", "clear_halt"}
  /\ pc[p] = "halt_check" => pc'[p] = "idle"

\* The steps of a process that are not plain.
Marked(p) ==
  \/ PrepareLock(p) \/ PrepareCreate(p) \/ PrepareUndo(p) \/ ResumeChecked(p)
  \/ ResumeMark(p) \/ Orphan(p) \/ Settle(p) \/ SetHalt(p) \/ ReleaseLock(p)
  \/ ResolveMark(p) \/ ClearHalt(p)
  \/ \E e \in Executions : Command(p, e)

\* Every step of a process that does not die is plain or one of the marked ones.
LEMMA PlainSteps ==
  ASSUME TypeInv, Serial, NEW p \in Procs, Acts(p)
  PROVE  Plain(p) \/ Marked(p)
<1> USE DEF Plain, Holding, Submitting, Goto, Finish, ledger, venue, told
<1>1. pc \in [Procs -> Steps] /\ job \in [Procs -> Job]
  BY DEF TypeInv, ProcsOK
<1>2. ~PrepareError(p) /\ ~Crash(p)
  BY DEF Serial, PrepareError, Crash, TypeInv, DataOK
<1>3. CASE PrepareRefused(p) \/ PrepareLeg(p) \/ ResumeHalted(p) \/ LegRowMissing(p)
  BY <1>1, <1>3 DEF PrepareRefused, PrepareLeg, ResumeHalted, LegRowMissing, AtLeg, Job
<1>4. CASE SkipLeg(p) \/ SubmitLeg(p) \/ LegsDone(p)
  BY <1>1, <1>4 DEF SkipLeg, SubmitLeg, LegsDone, AtLeg, Job
<1>5. CASE \/ PreflightRefused(p) \/ PreflightOk(p) \/ GateRefused(p)
           \/ CanaryRefused(p) \/ CanaryAuthorized(p)
  BY <1>1, <1>5
     DEF PreflightRefused, PreflightOk, GateRefused, CanaryRefused, CanaryAuthorized, Trip, Job
<1>6. CASE Send(p)
  <2>1. PICK r \in PlaceReplies(job[p].via) :
          /\ job' = IF r.result.status \in TrippingStatus THEN Trip(p, r.result)
                    ELSE [job EXCEPT ![p].res = r.result]
          /\ Goto(p, AfterReply(r.result))
    BY <1>6 DEF Send
  <2>2. job'[p].run = job[p].run /\ pc'[p] \in {"cancel", "save"} /\ pc[p] = "send"
    BY <1>1, <1>6, <2>1 DEF Send, AfterReply, Trip, Job
  <2> QED BY <1>6, <2>2 DEF Send
<1>7. CASE SendRaises(p) \/ Reconcile(p) \/ CancelRemainder(p) \/ Requery(p)
  BY <1>1, <1>7 DEF SendRaises, Reconcile, CancelRemainder, Requery, AfterReply, Trip, Job
<1>8. CASE Save(p)
  BY <1>1, <1>8 DEF Save, Done, Job
<1>9. CASE \/ RouteNoExposure(p) \/ RouteImpossible(p) \/ RouteCovered(p)
           \/ \E v \in Venues : RouteRescue(p, v)
  BY <1>1, <1>9
     DEF RouteNoExposure, RouteImpossible, RouteCovered, RouteRescue, Decide, Job
<1> QED BY <1>2, <1>3, <1>4, <1>5, <1>6, <1>7, <1>8, <1>9 DEF Acts, Step, Marked

\* GateInv is inductive, one command at a time.
LEMMA GateStep == TypeInv /\ Serial /\ GateInv /\ [Next]_vars => GateInv'
<1> SUFFICES ASSUME TypeInv, Serial, GateInv, [Next]_vars PROVE GateInv'
  OBVIOUS
<1> USE DEF ledger, venue, told, Goto, Finish, Start, Terminal
<1>1. /\ pc \in [Procs -> Steps] /\ job \in [Procs -> Job]
      /\ runStatus \in [Executions -> RunStatus] /\ plan \in [Executions -> Plan]
      /\ lock \in [Markets -> Executions \cup {None}]
      /\ \A p \in Procs : pc[p] # "idle" => job[p].run \in Executions
      /\ \A e \in Executions : plan[e].market \in Markets
      /\ None \notin Executions
  BY CoreAssumption DEF TypeInv, DataOK, ProcsOK, Sound, Plan
<1>2. /\ \A p, q \in Procs : p = q
      /\ \A p \in Procs : Guarded(p)
      /\ \A e \in Executions : runStatus[e] \notin Terminal \cup {"none"} =>
           \/ lock[plan[e].market] = e
           \/ \E p \in Procs : job[p].run = e /\ pc[p] = "resolve"
      /\ \A e \in Executions : runStatus[e] = "emergency" =>
           halted \/ \E p \in Procs : job[p].run = e /\ pc[p] = "set_halt"
  BY DEF Serial, GateInv, ActiveRunHoldsLock, EmergencyHalts, Run
\* What is to be shown of a step of the one process.
<1>3. ASSUME NEW p \in Procs,
             \A e \in Executions : plan'[e].market = plan[e].market,
             \A e \in Executions : runStatus'[e] \notin Terminal \cup {"none"} =>
               lock'[plan[e].market] = e \/ (job'[p].run = e /\ pc'[p] = "resolve"),
             \A e \in Executions : runStatus'[e] = "emergency" =>
               halted' \/ (job'[p].run = e /\ pc'[p] = "set_halt"),
             Guarded(p)'
      PROVE  GateInv'
  <2>1. ActiveRunHoldsLock'
    BY <1>3 DEF ActiveRunHoldsLock, Run
  <2>2. EmergencyHalts'
    BY <1>3 DEF EmergencyHalts, Run
  <2>3. \A q \in Procs : Guarded(q)'
    BY <1>2, <1>3
  <2> QED BY <2>1, <2>2, <2>3 DEF GateInv
<1>4. ASSUME NEW p \in Procs, Plain(p) PROVE GateInv'
  <2>1. \A e \in Executions : runStatus'[e] \notin Terminal \cup {"none"} =>
          lock'[plan[e].market] = e
    BY <1>2, <1>4 DEF Plain
  <2>2. \A e \in Executions : runStatus'[e] = "emergency" => halted'
    BY <1>2, <1>4 DEF Plain
  <2>3. Guarded(p)'
    BY <1>2, <1>4 DEF Plain, Guarded, Holding, Submitting, Run
  <2>4. \A e \in Executions : plan'[e].market = plan[e].market
    BY <1>4 DEF Plain
  <2> QED BY <1>3, <2>1, <2>2, <2>3, <2>4
\* A step that writes the status of the run it works on, whose lock it holds.
<1>5. ASSUME NEW p \in Procs, NEW s \in RunStatus, pc[p] \in Holding \cup {"create"},
             SetRun(Run(p), s), lock' = lock, halted' = halted, plan' = plan,
             pc'[p] \in Holding => s # "emergency" /\ job' = job,
             pc'[p] = "release" => s \in Terminal /\ job' = job,
             s = "emergency" => pc'[p] = "set_halt" /\ job' = job,
             pc'[p] \notin {"lock", "create", "undo", "clear_halt"}
      PROVE  GateInv'
  <2>1. /\ Run(p) \in Executions /\ lock[plan[Run(p)].market] = Run(p)
        /\ runStatus'[Run(p)] = s /\ pc[p] \notin {"resolve", "set_halt"}
        /\ \A e \in Executions \ {Run(p)} : runStatus'[e] = runStatus[e]
    BY <1>1, <1>2, <1>5 DEF SetRun, Guarded, Holding, Submitting, Run
  <2>2. \A e \in Executions : runStatus'[e] \notin Terminal \cup {"none"} =>
          lock'[plan[e].market] = e
    BY <1>2, <1>5, <2>1
  <2>3. \A e \in Executions : runStatus'[e] = "emergency" =>
          halted' \/ (job'[p].run = e /\ pc'[p] = "set_halt")
    BY <1>2, <1>5, <2>1 DEF Run
  <2>4. Guarded(p)'
    BY <1>5, <2>1 DEF Guarded, Run
  <2> QED BY <1>3, <1>5, <2>2, <2>3, <2>4
\* A step that frees the lock of a run that no longer needs it.
<1>6. ASSUME NEW e \in Executions, Release(e)
      PROVE  \A f \in Executions \ {e} : lock[plan[f].market] = f => lock'[plan[f].market] = f
  BY <1>1, <1>6 DEF Release
<1>7. ASSUME NEW p \in Procs, Marked(p) PROVE GateInv'
  <2> DEFINE e == Run(p)
  <2>1. CASE PrepareLock(p)
    <3>1. /\ e \in Executions /\ pc[p] = "lock" /\ runStatus[e] = "none"
          /\ runStatus' = runStatus /\ halted' = halted /\ plan' = plan
      BY <1>1, <1>2, <2>1 DEF PrepareLock, Guarded, Run
    <3>2. CASE lock[plan[e].market] = None
      <4>1. /\ lock' = [lock EXCEPT ![plan[e].market] = e]
            /\ pc'[p] = "create" /\ job' = job
        BY <1>1, <2>1, <3>2 DEF PrepareLock
      <4>2. \A f \in Executions : runStatus'[f] \notin Terminal \cup {"none"} =>
              lock'[plan[f].market] = f
        BY <1>1, <1>2, <3>1, <3>2, <4>1
      <4>3. Guarded(p)'
        BY <1>1, <3>1, <4>1 DEF Guarded, Run, Holding, Submitting
      <4>4. \A f \in Executions : runStatus'[f] = "emergency" => halted'
        BY <1>2, <3>1
      <4> QED BY <1>3, <3>1, <4>2, <4>3, <4>4
    <3>3. CASE lock[plan[e].market] # None
      <4>1. lock' = lock /\ pc'[p] = "idle"
        BY <1>1, <2>1, <3>3 DEF PrepareLock
      <4>2. Plain(p)
        BY <3>1, <4>1 DEF Plain, Holding, Submitting
      <4> QED BY <1>4, <4>2
    <3> QED BY <3>2, <3>3
  <2>2. CASE PrepareCreate(p)
    <3>1. /\ pc[p] = "create" /\ pc'[p] = "legs" /\ job' = job /\ lock' = lock
          /\ halted' = halted /\ plan' = plan
      BY <1>1, <2>2 DEF PrepareCreate
    <3> QED BY <1>5, <2>2, <3>1 DEF PrepareCreate, RunStatus
  <2>3. CASE PrepareUndo(p) \/ ReleaseLock(p)
    <3>1. /\ e \in Executions /\ pc[p] \in {"undo", "release"} /\ pc'[p] = "idle" /\ Release(e)
          /\ runStatus' = runStatus /\ halted' = halted /\ plan' = plan
          /\ runStatus[e] \in Terminal \cup {"none"}
      BY <1>1, <1>2, <2>3 DEF PrepareUndo, ReleaseLock, Guarded, Run
    <3>2. \A f \in Executions : runStatus'[f] \notin Terminal \cup {"none"} =>
            lock'[plan[f].market] = f
      BY <1>2, <1>6, <3>1
    <3>3. \A f \in Executions : runStatus'[f] = "emergency" => halted'
      BY <1>2, <3>1
    <3>4. Guarded(p)'
      BY <3>1 DEF Guarded, Holding, Submitting
    <3> QED BY <1>3, <3>1, <3>2, <3>3, <3>4
  <2>4. CASE ResumeChecked(p)
    <3>1. /\ pc[p] = "halt_check" /\ ~halted /\ pc'[p] = "mark" /\ job' = job /\ lock' = lock
          /\ runStatus' = runStatus /\ halted' = halted /\ plan' = plan
          /\ e \in Executions
      BY <1>1, <2>4 DEF ResumeChecked, Run
    <3>2. \A f \in Executions : runStatus[f] # "emergency"
      BY <1>2, <3>1
    <3>3. \A f \in Executions : runStatus'[f] \notin Terminal \cup {"none"} =>
            lock'[plan[f].market] = f
      BY <1>2, <3>1
    <3>4. Guarded(p)'
      BY <1>2, <3>1, <3>2 DEF Guarded, Run, Holding
    <3> QED BY <1>3, <3>1, <3>2, <3>3, <3>4
  <2>5. CASE ResumeMark(p) \/ Orphan(p)
    <3>1. /\ pc[p] \in {"mark", "orphan"} /\ pc'[p] \in {"leg", "route"} /\ job' = job
          /\ lock' = lock /\ halted' = halted /\ plan' = plan
          /\ SetRun(e, "executing") \/ SetRun(e, "rescuing")
      BY <1>1, <2>5 DEF ResumeMark, Orphan
    <3> QED BY <1>5, <3>1 DEF RunStatus, Holding
  <2>6. CASE Settle(p)
    <3>1. /\ pc[p] = "settle" /\ SetRun(e, job[p].verdict) /\ job[p].verdict \in RunStatus
          /\ lock' = lock /\ halted' = halted /\ plan' = plan
          /\ \/ job[p].verdict = "emergency" /\ pc'[p] = "set_halt" /\ job' = job
             \/ job[p].verdict \in Terminal /\ pc'[p] = "release" /\ job' = job
             \/ job[p].verdict \in {"prepared", "rescuing"} /\ pc'[p] = "idle"
      BY <1>1, <2>6 DEF Settle, Job
    <3> QED BY <1>5, <3>1 DEF Holding, Submitting
  <2>7. CASE SetHalt(p)
    <3>1. /\ pc[p] = "set_halt" /\ pc'[p] = "idle" /\ halted' = TRUE /\ lock' = lock
          /\ runStatus' = runStatus /\ plan' = plan
      BY <1>1, <2>7 DEF SetHalt
    <3>2. \A f \in Executions : runStatus'[f] \notin Terminal \cup {"none"} =>
            lock'[plan[f].market] = f
      BY <1>2, <3>1
    <3>3. Guarded(p)'
      BY <3>1 DEF Guarded, Holding, Submitting
    <3> QED BY <1>3, <3>1, <3>2, <3>3
  <2>8. CASE ResolveMark(p)
    <3>1. /\ pc[p] = "resolve" /\ e \in Executions
          /\ runStatus' = [runStatus EXCEPT ![e] = "aborted"]
          /\ lock' = lock /\ halted' = halted /\ plan' = plan
          /\ \/ pc'[p] = "idle"
             \/ /\ pc'[p] = "clear_halt"
                /\ \A f \in Executions \ {e} : runStatus[f] # "emergency"
      BY <1>1, <2>8 DEF ResolveMark, SetRun, Serial, Run
    <3>2. \A f \in Executions : runStatus'[f] \notin Terminal \cup {"none"} =>
            lock'[plan[f].market] = f
      BY <1>1, <1>2, <3>1 DEF Run
    <3>3. \A f \in Executions : runStatus'[f] = "emergency" => halted'
      BY <1>1, <1>2, <3>1
    <3>4. Guarded(p)'
      BY <1>1, <3>1 DEF Guarded, Holding, Submitting
    <3> QED BY <1>3, <3>1, <3>2, <3>3, <3>4
  <2>9. CASE ClearHalt(p)
    <3>1. /\ pc[p] = "clear_halt" /\ pc'[p] = "idle" /\ lock' = lock
          /\ runStatus' = runStatus /\ plan' = plan
          /\ \A f \in Executions : runStatus[f] # "emergency"
      BY <1>1, <1>2, <2>9 DEF ClearHalt, Guarded
    <3>2. \A f \in Executions : runStatus'[f] \notin Terminal \cup {"none"} =>
            lock'[plan[f].market] = f
      BY <1>2, <3>1
    <3>3. Guarded(p)'
      BY <3>1 DEF Guarded, Holding, Submitting
    <3> QED BY <1>3, <3>1, <3>2, <3>3
  \* The commands find no process at work, so that every active run holds its lock.
  <2>10. ASSUME NEW f \in Executions, Command(p, f) PROVE GateInv'
    <3>1. /\ pc[p] = "idle" /\ job'[p].run = f
          /\ runStatus' = runStatus /\ halted' = halted
          /\ \A i \in Executions : plan'[i].market = plan[i].market
          /\ \/ pc'[p] = "lock" /\ runStatus[f] = "none" /\ lock' = lock
             \/ pc'[p] = "settle" /\ runStatus[f] = "waiting_manual" /\ lock' = lock
             \/ /\ pc'[p] = "halt_check" /\ lock' = lock
                /\ runStatus[f] \notin Terminal \cup {"none"}
             \/ pc'[p] = "resolve" /\ Release(f)
      <4>1. CASE PrepareStart(p, f)
        BY <1>1, <4>1 DEF PrepareStart, Fresh, IdleJob
      <4>2. CASE ConfirmAccepted(p, f)
        BY <1>1, <4>2 DEF ConfirmAccepted, MayConfirm, Serial, IdleJob
      <4>3. CASE ConfirmRejected(p, f)
        BY <1>1, <4>3 DEF ConfirmRejected, MayConfirm, Serial, IdleJob
      <4>4. CASE ResumeLoad(p, f) \/ Resolve(p, f)
        BY <1>1, <4>4 DEF ResumeLoad, Resolve, IdleJob
      <4> QED BY <2>10, <4>1, <4>2, <4>3, <4>4 DEF Command
    <3>2. \A i \in Executions : runStatus[i] \notin Terminal \cup {"none"} =>
            lock[plan[i].market] = i
      BY <1>2, <3>1
    <3>3. \A i \in Executions : runStatus'[i] = "emergency" => halted'
      BY <1>2, <3>1
    <3>4. \A i \in Executions : runStatus'[i] \notin Terminal \cup {"none"} =>
            lock'[plan[i].market] = i \/ (job'[p].run = i /\ pc'[p] = "resolve")
      BY <1>6, <3>1, <3>2
    <3>5. Guarded(p)'
      BY <3>1, <3>2 DEF Guarded, Holding, Submitting, Run
    <3> QED BY <1>3, <3>1, <3>3, <3>4, <3>5
  <2> QED BY <1>7, <2>1, <2>2, <2>3, <2>4, <2>5, <2>6, <2>7, <2>8, <2>9, <2>10 DEF Marked
\* The operator's abort touches only a run that no command works on.
<1>8. ASSUME NEW f \in Executions, AbortIfFlat(f) PROVE GateInv'
  <2>1. /\ \A p \in Procs : job[p].run # f
        /\ runStatus' = [runStatus EXCEPT ![f] = "aborted"]
        /\ Release(f) /\ plan' = plan /\ halted' = halted /\ pc' = pc /\ job' = job
    BY <1>8 DEF AbortIfFlat, AtWork, SetRun, Serial, Run
  <2>2. \A i \in Executions \ {f} : runStatus'[i] = runStatus[i]
    BY <1>1, <2>1
  <2>3. runStatus'[f] = "aborted"
    BY <1>1, <2>1
  <2>4. ActiveRunHoldsLock'
    BY <1>2, <1>6, <2>1, <2>2, <2>3 DEF ActiveRunHoldsLock, Run
  <2>5. EmergencyHalts'
    BY <1>2, <2>1, <2>2, <2>3 DEF EmergencyHalts, Run
  <2>6. ASSUME NEW q \in Procs PROVE Guarded(q)'
    <3>0. Guarded(q)
      BY <1>2
    <3>1. CASE pc[q] = "clear_halt"
      BY <1>2, <2>1, <2>2, <2>3, <3>1 DEF Guarded, Holding, Submitting
    <3>2. CASE pc[q] \in Holding \cup {"create", "undo", "lock", "release"}
      <4>1. pc[q] # "idle" /\ job[q].run \in Executions \ {f}
        BY <1>1, <2>1, <3>2 DEF Holding, Submitting
      <4>2. PICK i \in Executions \ {f} : i = job[q].run
        BY <4>1
      <4>3. runStatus'[i] = runStatus[i] /\ (lock[plan[i].market] = i => lock'[plan[i].market] = i)
        BY <1>6, <2>1, <2>2
      <4>4. pc[q] # "clear_halt"
        BY <3>2 DEF Holding, Submitting
      <4> QED BY <2>1, <3>0, <4>2, <4>3, <4>4 DEF Guarded, Run
    <3>3. CASE pc[q] \notin Holding \cup {"create", "undo", "lock", "release", "clear_halt"}
      BY <2>1, <3>3 DEF Guarded
    <3> QED BY <3>1, <3>2, <3>3
  <2> QED BY <2>4, <2>5, <2>6 DEF GateInv
<1>9. ASSUME \/ OperatorHalts \/ (\E e \in Executions, m \in 1..Full : OperatorBets(e, m))
             \/ (\E k \in Key : VenueMatches(k) \/ VenueLapses(k)) \/ UNCHANGED vars
      PROVE  GateInv'
  <2>1. /\ plan' = plan /\ runStatus' = runStatus /\ lock' = lock /\ pc' = pc /\ job' = job
        /\ halted => halted'
    BY <1>9 DEF OperatorHalts, OperatorBets, VenueMatches, VenueLapses, vars
  <2>2. ActiveRunHoldsLock'
    BY <1>2, <2>1 DEF ActiveRunHoldsLock, Run
  <2>3. EmergencyHalts'
    BY <1>2, <2>1 DEF EmergencyHalts, Run
  <2>4. \A q \in Procs : Guarded(q)'
    BY <1>2, <2>1 DEF Guarded, Run
  <2> QED BY <2>2, <2>3, <2>4 DEF GateInv
<1> QED BY <1>4, <1>7, <1>8, <1>9, PlainSteps DEF Next, Acts, Environment

\* No run has a status at first, and no command runs.
LEMMA GateInit == Init => GateInv
BY DEF Init, GateInv, ActiveRunHoldsLock, EmergencyHalts, Guarded, Holding, Submitting

\* As long as a run is active it holds the lock of its market, whatever commands
\* follow one another on any number of runs: no second run can be opened there.
THEOREM LockHeld == Serial => (Spec => []ActiveRunHoldsLock)
<1> SUFFICES ASSUME Serial PROVE Spec => []ActiveRunHoldsLock
  OBVIOUS
<1> DEFINE I == TypeInv /\ GateInv
<1>1. Init => I
  BY TypeInit, GateInit
<1>2. I /\ [Next]_vars => I'
  BY TypeStep, GateStep
<1>3. I => ActiveRunHoldsLock
  BY DEF GateInv
<1> QED BY <1>1, <1>2, <1>3, PTL DEF Spec

\* A run recorded in emergency has set the global halt, or the command that
\* recorded it is about to; the halt is never cleared under such a run.
THEOREM HaltSet == Serial => (Spec => []EmergencyHalts)
<1> SUFFICES ASSUME Serial PROVE Spec => []EmergencyHalts
  OBVIOUS
<1> DEFINE I == TypeInv /\ GateInv
<1>1. Init => I
  BY TypeInit, GateInit
<1>2. I /\ [Next]_vars => I'
  BY TypeStep, GateStep
<1>3. I => EmergencyHalts
  BY DEF GateInv
<1> QED BY <1>1, <1>2, <1>3, PTL DEF Spec

\* A run leaves the emergency only in resolve-emergency on that very run: the
\* halt keeps every resume from it, and no other command writes its status.
THEOREM StaysInEmergency == Serial => (Spec => EmergencyIsSticky)
<1> SUFFICES ASSUME Serial PROVE Spec => EmergencyIsSticky
  OBVIOUS
<1> DEFINE I == TypeInv /\ GateInv
           Kept == \A e \in Executions : runStatus[e] = "emergency" /\ runStatus'[e] # "emergency"
                     => \E p \in Procs : Run(p) = e /\ pc[p] = "resolve"
<1>1. Init => I
  BY TypeInit, GateInit
<1>2. I /\ [Next]_vars => I'
  BY TypeStep, GateStep
<1>3. I /\ [Next]_vars => [Kept]_vars
  <2> SUFFICES ASSUME TypeInv, GateInv, Next, NEW e \in Executions,
                      runStatus[e] = "emergency", runStatus'[e] # "emergency"
               PROVE  \E p \in Procs : Run(p) = e /\ pc[p] = "resolve"
    OBVIOUS
  <2> USE DEF ledger
  <2>1. ASSUME NEW p \in Procs, Acts(p)
        PROVE  \E q \in Procs : Run(q) = e /\ pc[q] = "resolve"
    <3>1. Marked(p)
      BY <2>1, PlainSteps DEF Plain
    <3>2. Guarded(p) /\ runStatus \in [Executions -> RunStatus]
      BY DEF GateInv, TypeInv, DataOK
    <3>3. runStatus' = [runStatus EXCEPT ![Run(p)] = runStatus'[Run(p)]]
          /\ pc[p] \in {"create", "mark", "orphan", "settle", "resolve"}
      BY <3>1, <3>2
         DEF Marked, PrepareLock, PrepareCreate, PrepareUndo, ResumeChecked, ResumeMark, Orphan,
             Settle, SetHalt, ReleaseLock, ResolveMark, ClearHalt, SetRun, Command, PrepareStart,
             ConfirmAccepted, ConfirmRejected, ResumeLoad, Resolve
    <3> QED BY <3>2, <3>3 DEF Guarded, Holding
  <2>2. CASE Environment
    BY <2>2 DEF Environment, OperatorHalts, OperatorBets, VenueMatches, VenueLapses,
       AbortIfFlat, SetRun, TypeInv, DataOK
  <2> QED BY <2>1, <2>2 DEF Next, Acts
<1> QED BY <1>1, <1>2, <1>3, PTL DEF Spec, EmergencyIsSticky
=============================================================================
