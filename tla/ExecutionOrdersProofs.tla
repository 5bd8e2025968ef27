------------------------ MODULE ExecutionOrdersProofs ------------------------
(***************************************************************************)
(* For any executions, venues, processes and legs: the ledger never claims *)
(* more than the venues hold, and the execution core implements            *)
(* OrderIntent, one order at a time. With one command at a time and venues *)
(* that keep their word, each status of a run means what it says.          *)
(***************************************************************************)
EXTENDS ExecutionOrders, ExecutionCoordinatorProofs, FiniteSetTheorems
-----------------------------------------------------------------------------
(* What a connector reports against what its venue holds *)

\* No reply, look-up or cancel of a connector reports more than the venue holds
\* of the order, and no cancel takes back what is matched.
LEMMA HonestReplies ==
  ASSUME NEW v, NEW b \in Book
  PROVE  /\ \A r \in PlaceReplies(v) : r.result.matched <= r.book.held
         /\ \A r \in ReconcileResults(v, b) : r.matched <= b.held
         /\ \A c \in CancelBooks(b) :
              c.held = b.held /\ (~b.resting => c = b)
<1>1. \A r \in BetfairPlace : r.result.matched <= r.book.held
  <2>1. \A r \in LateReplies : r.result.matched <= r.book.held
    BY DEF LateReplies, Reply, Reported
  <2> QED BY <2>1 DEF BetfairPlace, Reply, Reported, Untouched, Lying, Closed, Full
<1>2. \A r \in BetFlagPlace : r.result.matched <= r.book.held
  <2>1. \A h \in Stakes : Reply("unknown", 0, Arrived(h)).result.matched = 0
                          /\ Arrived(h).held = h /\ h >= 0
    BY DEF Reply, Reported, Arrived, Lying, Closed, Stakes, Full
  <2>2. \A h \in 1..Full : LET r == Reply("cancelled", 0, Closed(h))
                           IN  r.result.matched = 0 /\ r.book.held = h /\ h >= 0
    BY DEF Reply, Reported, Closed, Full
  <2> QED BY <2>1, <2>2 DEF BetFlagPlace, Reply, Reported, Untouched, Lying, Closed, Full
<1>3. \A r \in ReconcileResults(v, b) : r.matched <= b.held
  BY DEF ReconcileResults, RowResult, Reported, Unknown, Book, Stakes, Full
<1>4. \A c \in CancelBooks(b) : c.held = b.held /\ (~b.resting => c = b)
  BY DEF CancelBooks, Book
<1> QED BY <1>1, <1>2, <1>3, <1>4 DEF PlaceReplies
-----------------------------------------------------------------------------
(* A run, its plan and its rows *)

\* prepare has put the manual leg, if there is one, first.
Sorted(e) == HasManual(e) => plan[e].venue[1] = Retail

\* The steps of a command whose run has a row in execution_runs.
Known == Steps \ {"idle", "lock", "create", "undo"}

NoRow == [status |-> "absent", matched |-> 0]

\* A run without a status has no leg rows, a run with one has its plan sorted,
\* and only commands that prepare work on a run without a status.
RunInv ==
  /\ \A p \in Procs : pc[p] \in Known => runStatus[Run(p)] # "none"
  /\ \A p \in Procs : pc[p] \in {"lock", "create"} => Sorted(Run(p))
  /\ \A p \in Procs : pc[p] = "settle" => job[p].verdict # "none"
  /\ \A e \in Executions : runStatus[e] # "none" => Sorted(e)
  /\ \A e \in Executions : runStatus[e] = "none" => \A l \in Slots : legs[e][l] = NoRow

\* prepare's sort puts the manual leg first.
LEMMA ManualFirstSorts ==
  ASSUME NEW v \in [Legs -> Venues \cup {Retail}], \E l \in Legs : v[l] = Retail
  PROVE  ManualFirst(v)[1] = Retail
<1> DEFINE m == CHOOSE i \in Legs : v[i] = Retail
<1>1. m \in Legs /\ v[m] = Retail
  OBVIOUS
<1>2. ManualFirst(v) = [i \in Legs |->
        IF i = 1 THEN v[m] ELSE IF i <= m THEN v[i - 1] ELSE v[i]]
  BY DEF ManualFirst
<1> HIDE DEF m
<1> QED BY <1>1, <1>2, Constants

\* A step that keeps plans, statuses and leg rows, and takes its process to no
\* step that RunInv asks more of.
Quiet(p) ==
  /\ plan' = plan /\ legs' = legs /\ runStatus' = runStatus
  /\ pc'[p] \in Known => pc[p] \in Known /\ job'[p].run = job[p].run
  /\ pc'[p] \in {"lock", "create"} => pc[p] \in {"lock", "create"} /\ job'[p].run = job[p].run
  /\ pc'[p] = "settle" => job'[p].verdict # "none"

\* The steps of a process that are not quiet.
Loud(p) ==
  \/ PrepareCreate(p) \/ PrepareLeg(p) \/ ResumeMark(p) \/ Save(p) \/ Orphan(p)
  \/ Settle(p) \/ ResolveMark(p)
  \/ \E e \in Executions :
       \/ PrepareStart(p, e) \/ ConfirmAccepted(p, e) \/ ConfirmRejected(p, e)
       \/ ResumeLoad(p, e) \/ Resolve(p, e)

\* Every step of a process is quiet or one of the loud ones.
LEMMA QuietSteps ==
  ASSUME TypeInv, NEW p \in Procs, Acts(p)
  PROVE  Quiet(p) \/ Loud(p)
<1> USE DEF Quiet, Known, Steps, Goto, Finish, ledger, venue, told
<1>1. pc \in [Procs -> Steps] /\ job \in [Procs -> Job]
  BY DEF TypeInv, ProcsOK
<1>2. CASE \/ PrepareLock(p) \/ PrepareRefused(p) \/ PrepareUndo(p)
           \/ PrepareError(p) \/ Crash(p)
  BY <1>1, <1>2 DEF PrepareLock, PrepareRefused, PrepareUndo, PrepareError, Crash
<1>3. CASE \/ ResumeHalted(p) \/ ResumeChecked(p) \/ LegRowMissing(p)
  BY <1>1, <1>3 DEF ResumeHalted, ResumeChecked, LegRowMissing, AtLeg
<1>4. CASE SkipLeg(p) \/ SubmitLeg(p)
  BY <1>1, <1>4 DEF SkipLeg, SubmitLeg, AtLeg, Job
<1>5. CASE LegsDone(p)
  BY <1>1, <1>5 DEF LegsDone, Job
<1>6. CASE \/ PreflightRefused(p) \/ PreflightOk(p) \/ GateRefused(p)
           \/ CanaryRefused(p) \/ CanaryAuthorized(p)
  BY <1>1, <1>6
     DEF PreflightRefused, PreflightOk, GateRefused, CanaryRefused, CanaryAuthorized, Trip, Job
<1>7. CASE Send(p) \/ SendRaises(p)
  <2>1. CASE Send(p)
    <3>1. PICK r \in PlaceReplies(job[p].via) :
            /\ job' = IF r.result.status \in TrippingStatus THEN Trip(p, r.result)
                      ELSE [job EXCEPT ![p].res = r.result]
            /\ Goto(p, AfterReply(r.result))
      BY <2>1 DEF Send
    <3>2. job'[p].run = job[p].run
      BY <1>1, <3>1 DEF Trip, Job
    <3>3. pc'[p] \in {"cancel", "save"} /\ pc[p] = "send"
      BY <1>1, <2>1, <3>1 DEF Send, AfterReply
    <3> QED BY <2>1, <3>2, <3>3 DEF Send
  <2>2. CASE SendRaises(p)
    BY <1>1, <2>2 DEF SendRaises, Trip, Job
  <2> QED BY <1>7, <2>1, <2>2
<1>8. CASE Reconcile(p) \/ CancelRemainder(p) \/ Requery(p)
  BY <1>1, <1>8 DEF Reconcile, CancelRemainder, Requery, AfterReply, Job
<1>9. CASE \/ RouteNoExposure(p) \/ RouteImpossible(p) \/ RouteCovered(p)
           \/ \E v \in Venues : RouteRescue(p, v)
  BY <1>1, <1>9
     DEF RouteNoExposure, RouteImpossible, RouteCovered, RouteRescue, Decide, Job
<1>10. CASE SetHalt(p) \/ ReleaseLock(p) \/ ClearHalt(p)
  BY <1>1, <1>10 DEF SetHalt, ReleaseLock, ClearHalt
<1> QED BY <1>2, <1>3, <1>4, <1>5, <1>6, <1>7, <1>8, <1>9, <1>10
        DEF Acts, Step, Command, Loud

\* RunInv is inductive, given the types.
LEMMA RunStep == TypeInv /\ RunInv /\ [Next]_vars => RunInv'
<1> SUFFICES ASSUME TypeInv, RunInv, [Next]_vars PROVE RunInv'
  OBVIOUS
<1> USE DEF RunInv
<1>1. /\ pc \in [Procs -> Steps] /\ job \in [Procs -> Job]
      /\ runStatus \in [Executions -> RunStatus] /\ plan \in [Executions -> Plan]
      /\ legs \in [Executions -> [Slots -> LegRow]]
      /\ \A p \in Procs : pc[p] # "idle" => job[p].run \in Executions
  BY DEF TypeInv, DataOK, ProcsOK, Sound
<1>2. ASSUME NEW p \in Procs, Acts(p), plan' = plan,
             \A e \in Executions : runStatus[e] # "none" => runStatus'[e] # "none",
             \A e \in Executions : runStatus'[e] # "none" => Sorted(e),
             \A e \in Executions :
               runStatus'[e] = "none" => \A l \in Slots : legs'[e][l] = NoRow,
             pc'[p] \in Known => runStatus'[job'[p].run] # "none",
             pc'[p] \in {"lock", "create"} => Sorted(job'[p].run),
             pc'[p] = "settle" => job'[p].verdict # "none"
      PROVE  RunInv'
  <2>1. Others(p)
    BY <1>2, OthersStay
  <2>2. \A e : Sorted(e)' <=> Sorted(e)
    BY <1>2 DEF Sorted, HasManual
  <2>3. \A q \in Procs : pc'[q] \in Known => runStatus'[Run(q)'] # "none"
    BY <1>1, <1>2, <2>1 DEF Others, Run, Known
  <2>4. \A q \in Procs : pc'[q] \in {"lock", "create"} => Sorted(Run(q))'
    BY <1>2, <2>1 DEF Others, Run, Sorted, HasManual
  <2>5. \A q \in Procs : pc'[q] = "settle" => job'[q].verdict # "none"
    BY <1>2, <2>1 DEF Others
  <2> QED BY <1>2, <2>2, <2>3, <2>4, <2>5
<1>3. ASSUME NEW p \in Procs, Acts(p), Quiet(p) PROVE RunInv'
  BY <1>1, <1>2, <1>3 DEF Quiet, Run
\* A command that writes the status of a run.
<1>4. ASSUME NEW p \in Procs, Acts(p), NEW s \in RunStatus \ {"none"},
             pc[p] # "idle", SetRun(Run(p), s), plan' = plan, legs' = legs,
             Sorted(Run(p)), job' = job \/ pc'[p] = "idle",
             pc'[p] \notin {"lock", "create", "settle"}
      PROVE  RunInv'
  <2>1. /\ Run(p) \in Executions /\ runStatus' = [runStatus EXCEPT ![Run(p)] = s]
        /\ runStatus'[Run(p)] # "none"
        /\ \A e \in Executions : e # Run(p) => runStatus'[e] = runStatus[e]
    BY <1>1, <1>4 DEF SetRun, Run
  <2>2. pc'[p] \in Known => runStatus'[job'[p].run] # "none"
    BY <1>4, <2>1 DEF Run, Known
  <2> QED BY <1>2, <1>4, <2>1, <2>2
\* A command that writes a leg row of a run with a status.
<1>5. ASSUME NEW p \in Procs, Acts(p), NEW e \in Executions, NEW l \in Slots, NEW r,
             SaveLeg(e, l, r), runStatus[e] # "none", plan' = plan, runStatus' = runStatus,
             pc'[p] \in Known => job'[p].run = e,
             pc'[p] \notin {"lock", "create"},
             pc'[p] = "settle" => job'[p].verdict # "none"
      PROVE  RunInv'
  <2>1. \A f \in Executions : f # e => legs'[f] = legs[f]
    BY <1>1, <1>5 DEF SaveLeg
  <2> QED BY <1>2, <1>5, <2>1
<1>6. ASSUME NEW p \in Procs, NEW e \in Executions, PrepareStart(p, e) PROVE RunInv'
  <2>0. Acts(p)
    BY <1>6 DEF Acts, Command
  <2>1. /\ runStatus[e] = "none" /\ \A q \in Procs : job[q].run # e
        /\ plan' = [plan EXCEPT ![e].venue = ManualFirst(plan[e].venue)]
        /\ runStatus' = runStatus /\ legs' = legs /\ pc'[p] = "lock" /\ job'[p].run = e
    BY <1>1, <1>6 DEF PrepareStart, Fresh, AtWork, Run, Start, Goto, IdleJob, ledger
  <2>2. \A f \in Executions \ {e} : Sorted(f)' <=> Sorted(f)
    BY <1>1, <2>1 DEF Sorted, HasManual
  <2>3. Sorted(e)'
    <3>1. plan'[e].venue = ManualFirst(plan[e].venue)
          /\ plan[e].venue \in [Legs -> Venues \cup {Retail}]
      BY <1>1, <2>1 DEF Plan
    <3> QED BY <3>1, ManualFirstKeeps, ManualFirstSorts DEF Sorted, HasManual
  <2>4. Others(p)
    BY <2>0, OthersStay
  <2>5. \A q \in Procs : pc'[q] \in Known => runStatus'[Run(q)'] # "none"
    BY <2>1, <2>4 DEF Others, Run, Known
  <2>6. \A q \in Procs : pc'[q] \in {"lock", "create"} => Sorted(Run(q))'
    <3> SUFFICES ASSUME NEW q \in Procs, pc'[q] \in {"lock", "create"}
                 PROVE  Sorted(Run(q))'
      OBVIOUS
    <3>1. CASE q = p
      <4>1. Run(q)' = e
        BY <2>1, <3>1 DEF Run
      <4> QED BY <2>3, <4>1 DEF Sorted, HasManual
    <3>2. CASE q # p
      <4>1. pc'[q] = pc[q] /\ job'[q] = job[q] /\ Run(q) \in Executions \ {e}
        BY <1>1, <2>1, <2>4, <3>2 DEF Others, Run
      <4>2. PICK f \in Executions \ {e} : f = Run(q)
        BY <4>1
      <4>3. Sorted(f)' /\ Run(q)' = f
        BY <2>2, <4>1, <4>2 DEF Run
      <4> QED BY <4>3 DEF Sorted, HasManual
    <3> QED BY <3>1, <3>2
  <2>7. \A q \in Procs : pc'[q] = "settle" => job'[q].verdict # "none"
    BY <2>1, <2>4 DEF Others
  <2> QED BY <2>1, <2>2, <2>3, <2>5, <2>6, <2>7
<1>7. ASSUME NEW p \in Procs, Acts(p), Loud(p) PROVE RunInv'
  <2> USE DEF Goto, Finish, Known, Steps, ledger, venue, told
  <2>1. CASE PrepareCreate(p)
    <3>1. pc[p] = "create" /\ Sorted(Run(p)) /\ pc'[p] = "legs" /\ job' = job
          /\ plan' = plan /\ legs' = legs
      BY <1>1, <2>1 DEF PrepareCreate
    <3> QED BY <1>1, <1>4, <1>7, <2>1, <3>1 DEF PrepareCreate, RunStatus
  <2>2. CASE PrepareLeg(p)
    <3>1. pc[p] = "legs" /\ Run(p) \in Executions /\ job[p].leg \in Slots
      BY <1>1, <2>2, Constants DEF PrepareLeg, TypeInv, ProcsOK, Sound, Preparing, Run
    <3>2. pc'[p] \in {"legs", "idle"} /\ (pc'[p] = "legs" => job'[p].run = Run(p))
      BY <1>1, <2>2, <3>1 DEF PrepareLeg, Run, Job
    <3>3. plan' = plan /\ runStatus' = runStatus
      BY <2>2 DEF PrepareLeg
    <3> QED BY <1>5, <1>7, <2>2, <3>1, <3>2, <3>3 DEF PrepareLeg
  <2>3. CASE Save(p)
    <3>1. pc[p] = "save" /\ Run(p) \in Executions /\ job[p].slot \in Slots
          /\ SaveLeg(Run(p), job[p].slot, job[p].res)
          /\ plan' = plan /\ runStatus' = runStatus
      BY <1>1, <2>3 DEF Save, Run, Job
    <3>2. \/ \E s \in {"rescued", "emergency"} :
               pc'[p] = "settle" /\ job'[p] = [Done(job[p]) EXCEPT !.verdict = s]
          \/ pc'[p] = "leg" /\ job'[p] = [Done(job[p]) EXCEPT !.leg = @ + 1]
          \/ pc'[p] = "orphan" /\ job'[p] = Done(job[p])
      <4>1. CASE job[p].slot = Rescue
        BY <1>1, <2>3, <4>1 DEF Save
      <4>2. CASE job[p].slot # Rescue /\ FullyMatched(job[p].res)
        BY <1>1, <2>3, <4>2 DEF Save, FullyMatched, Uncertain
      <4>3. CASE job[p].slot # Rescue /\ ~FullyMatched(job[p].res)
        BY <1>1, <2>3, <4>3 DEF Save
      <4> QED BY <4>1, <4>2, <4>3
    <3>3. job'[p].run = Run(p) /\ (pc'[p] = "settle" => job'[p].verdict # "none")
      BY <1>1, <3>2 DEF Done, Run, Job
    <3> QED BY <1>5, <1>7, <3>1, <3>2, <3>3
  <2>4. CASE ResumeMark(p) \/ Orphan(p)
    <3>1. /\ pc[p] \in {"mark", "orphan"} /\ pc'[p] \in {"leg", "route"} /\ job' = job
          /\ plan' = plan /\ legs' = legs
          /\ SetRun(Run(p), "executing") \/ SetRun(Run(p), "rescuing")
      BY <1>1, <2>4 DEF ResumeMark, Orphan
    <3>2. Sorted(Run(p))
      BY <1>1, <3>1 DEF Run
    <3> QED BY <1>4, <1>7, <3>1, <3>2 DEF RunStatus
  <2>5. CASE Settle(p)
    <3>1. /\ pc[p] = "settle" /\ pc'[p] \in {"set_halt", "release", "idle"}
          /\ job' = job \/ pc'[p] = "idle"
          /\ plan' = plan /\ legs' = legs /\ SetRun(Run(p), job[p].verdict)
      BY <1>1, <2>5 DEF Settle
    <3>2. Sorted(Run(p)) /\ job[p].verdict \in RunStatus \ {"none"}
      BY <1>1, <3>1 DEF Run, Job
    <3> QED BY <1>4, <1>7, <3>1, <3>2
  <2>6. CASE ResolveMark(p)
    <3>1. /\ pc[p] = "resolve" /\ pc'[p] \in {"clear_halt", "idle"}
          /\ job' = job \/ pc'[p] = "idle"
          /\ plan' = plan /\ legs' = legs /\ SetRun(Run(p), "aborted")
      BY <1>1, <2>6 DEF ResolveMark
    <3>2. Sorted(Run(p))
      BY <1>1, <3>1 DEF Run
    <3> QED BY <1>4, <1>7, <3>1, <3>2 DEF RunStatus
  <2>7. ASSUME NEW e \in Executions, ConfirmAccepted(p, e) \/ ConfirmRejected(p, e)
        PROVE  RunInv'
    <3>1. runStatus[e] # "none"
      <4>1. MayConfirm(e)
        BY <2>7 DEF ConfirmAccepted, ConfirmRejected
      <4>2. legs[e][1].status # "absent" => legs[e][1] # NoRow
        BY DEF NoRow
      <4> QED BY <4>1, <4>2, Constants DEF MayConfirm
    <3>2. /\ pc'[p] = "settle" /\ job'[p].run = e /\ job'[p].verdict # "none"
          /\ plan' = plan /\ runStatus' = runStatus
      <4>1. CASE ConfirmAccepted(p, e)
        BY <1>1, <4>1 DEF ConfirmAccepted, IdleJob
      <4>2. CASE ConfirmRejected(p, e)
        BY <1>1, <4>2 DEF ConfirmRejected, IdleJob
      <4> QED BY <2>7, <4>1, <4>2
    <3>3. \E r : SaveLeg(e, 1, r)
      BY <2>7 DEF ConfirmAccepted, ConfirmRejected
    <3> QED BY <1>5, <1>7, <3>1, <3>2, <3>3, Constants
  <2>8. ASSUME NEW e \in Executions, ResumeLoad(p, e) \/ Resolve(p, e) PROVE RunInv'
    <3>1. /\ plan' = plan /\ runStatus' = runStatus /\ legs' = legs
          /\ pc'[p] \in {"halt_check", "resolve"} /\ job'[p].run = e
          /\ runStatus[e] # "none"
      BY <1>1, <2>8 DEF ResumeLoad, Resolve, Start, IdleJob
    <3> QED BY <1>2, <1>7, <3>1
  <2> QED BY <1>6, <1>7, <2>1, <2>2, <2>3, <2>4, <2>5, <2>6, <2>7, <2>8 DEF Loud
<1>8. CASE Environment \/ UNCHANGED vars
  <2> DEFINE Kept ==
        /\ pc' = pc /\ job' = job /\ plan' = plan /\ legs' = legs
        /\ \A e \in Executions :
             \/ runStatus'[e] = runStatus[e]
             \/ runStatus'[e] = "aborted" /\ runStatus[e] # "none"
  <2>1. Kept
    <3> USE DEF ledger, venue, told
    <3>1. ASSUME NEW f \in Executions, AbortIfFlat(f) PROVE Kept
      <4>1. /\ runStatus[f] \in {"waiting_manual", "prepared"}
            /\ runStatus' = [runStatus EXCEPT ![f] = "aborted"]
            /\ pc' = pc /\ job' = job /\ plan' = plan /\ legs' = legs
        BY <3>1 DEF AbortIfFlat, SetRun
      <4> QED BY <1>1, <4>1
    <3>2. CASE UNCHANGED vars
      BY <3>2 DEF vars
    <3> QED BY <1>8, <3>1, <3>2
            DEF Environment, OperatorHalts, OperatorBets, VenueMatches, VenueLapses
  <2>2. \A e : Sorted(e)' <=> Sorted(e)
    BY <2>1 DEF Sorted, HasManual
  <2>3. \A q \in Procs : pc[q] \in Known => Run(q) \in Executions /\ Run(q)' = Run(q)
    BY <1>1, <2>1 DEF Run, Known
  <2>4. \A q \in Procs : pc'[q] \in {"lock", "create"} => Sorted(Run(q))'
    BY <2>1 DEF Run, Sorted, HasManual
  <2> QED BY <2>1, <2>2, <2>3, <2>4
<1> QED BY <1>3, <1>7, <1>8, QuietSteps DEF Next, Acts
-----------------------------------------------------------------------------
(* What the venues hold changes one order at a time *)

\* Only automatic orders are on the canary's record, and a venue that was not
\* asked for an order holds nothing of it.
BookInv ==
  /\ \A k \in attempts : k[3] # Retail
  /\ \A k \in Key : k[3] # Retail /\ sent[k] = 0 => book[k] = Untouched

\* The steps of a process that neither record, submit nor cancel an order.
Still == attempts' = attempts /\ sent' = sent /\ book' = book

\* What a process can do to the canary's record and to the venues' books.
LEMMA StillSteps ==
  ASSUME NEW p \in Procs, Acts(p)
  PROVE  Still \/ CanaryAuthorized(p) \/ Send(p) \/ SendRaises(p) \/ CancelRemainder(p)
<1> USE DEF Still, ledger, venue
<1>1. CASE Step(p)
  BY <1>1 DEF Step, PrepareLock, PrepareCreate, PrepareRefused, PrepareLeg, PrepareUndo,
     ResumeHalted, ResumeChecked, ResumeMark, LegRowMissing, SkipLeg, SubmitLeg, LegsDone,
     PreflightRefused, PreflightOk, GateRefused, CanaryRefused, Reconcile, Requery, Save,
     Orphan, Decide, RouteNoExposure, RouteImpossible, RouteCovered, RouteRescue, Settle,
     SetHalt, ReleaseLock, ResolveMark, ClearHalt
<1>2. CASE PrepareError(p) \/ Crash(p) \/ \E e \in Executions : Command(p, e)
  BY <1>2 DEF PrepareError, Crash, Command, PrepareStart, ConfirmAccepted, ConfirmRejected,
     ResumeLoad, Resolve
<1> QED BY <1>1, <1>2 DEF Acts

\* Every step of the execution core is a step of one order of OrderIntent, or
\* leaves the record, the submissions and the books alone.
LEMMA OrderSteps ==
  ASSUME TypeInv, OnceInv, BookInv, [Next]_vars
  PROVE  \/ Still
         \/ \E k \in Key : \/ Intent!Authorise(k) /\ k[3] # Retail
                           \/ Intent!Submit(k)
                           \/ Intent!Match(k)
                           \/ Intent!BetByHand(k) /\ k[3] = Retail
<1> USE DEF ledger, venue, told
<1>1. /\ book \in [Key -> Book] /\ sent \in [Key -> Nat] /\ attempts \subseteq Key
      /\ \A h \in Stakes : Arrived(h) \in Book /\ Closed(h) \in Book
      /\ Untouched.resting = FALSE
  BY DEF TypeInv, DataOK, Arrived, Closed, Lying, Untouched, Book, Stakes, Full
<1>2. ASSUME plan' = plan, legs' = legs PROVE Claimed' = Claimed
  BY <1>2 DEF Claimed, IsLegOf
<1>3. ASSUME NEW p \in Procs, CanaryAuthorized(p)
      PROVE  Intent!Authorise(K(p)) /\ K(p) \in Key /\ K(p)[3] # Retail
  <2>1. K(p) \in Key /\ K(p)[3] = job[p].via /\ job[p].via \in Venues
    BY <1>3, AtWorkTypes DEF CanaryAuthorized, TypeInv, ProcsOK, Sound, Submitting, K
  <2> QED BY <1>2, <1>3, <2>1, CoreAssumption
          DEF CanaryAuthorized, CanaryAllows, Intent!Authorise
<1>4. ASSUME NEW p \in Procs, Send(p) \/ SendRaises(p)
      PROVE  Intent!Submit(K(p)) /\ K(p) \in Key
  <2>1. /\ K(p) \in Key /\ K(p)[3] = job[p].via /\ job[p].via \in Venues /\ pc[p] = "send"
        /\ book[K(p)] \in Book
    BY <1>4, AtWorkTypes DEF Send, SendRaises, TypeInv, ProcsOK, Sound, Submitting, K
  <2>2. K(p) \in attempts /\ sent[K(p)] = 0 /\ book[K(p)] = Untouched
    BY <2>1, CoreAssumption DEF OnceInv, BookInv
  <2>3. /\ sent' = [sent EXCEPT ![K(p)] = 1] /\ attempts' = attempts /\ Claimed' = Claimed
    BY <1>1, <1>2, <1>4, <2>1, <2>2 DEF Send, SendRaises
  <2>4. \E b \in Book : book' = [book EXCEPT ![K(p)] = b]
    <3>1. CASE Send(p)
      BY <2>1, <3>1, VenueTypes DEF Send
    <3>2. CASE SendRaises(p)
      BY <2>1, <3>2, VenueTypes DEF SendRaises
    <3> QED BY <1>4, <3>1, <3>2
  <2> QED BY <2>1, <2>2, <2>3, <2>4 DEF Intent!Submit
<1>5. ASSUME NEW p \in Procs, CancelRemainder(p)
      PROVE  Still \/ (Intent!Match(K(p)) /\ K(p) \in Key)
  <2>1. K(p) \in Key /\ book[K(p)] \in Book
    BY <1>5, AtWorkTypes DEF CancelRemainder
  <2>2. PICK b \in CancelBooks(book[K(p)]) : book' = [book EXCEPT ![K(p)] = b]
    BY <1>5 DEF CancelRemainder
  <2>3. b \in Book /\ b.held = book[K(p)].held /\ (~book[K(p)].resting => b = book[K(p)])
    BY <2>1, HonestReplies, VenueTypes
  <2>4. attempts' = attempts /\ sent' = sent /\ Claimed' = Claimed
    BY <1>2, <1>5 DEF CancelRemainder
  <2>5. CASE ~book[K(p)].resting
    BY <1>1, <2>1, <2>2, <2>3, <2>4, <2>5 DEF Still
  <2>6. CASE book[K(p)].resting
    <3>1. b.held >= book[K(p)].held
      BY <2>1, <2>3 DEF Book, Stakes
    <3> QED BY <2>1, <2>2, <2>3, <2>4, <2>6, <3>1 DEF Intent!Match
  <2> QED BY <2>5, <2>6
<1>6. ASSUME NEW k \in Key, VenueMatches(k) \/ VenueLapses(k) PROVE Intent!Match(k)
  <2>1. attempts' = attempts /\ sent' = sent /\ Claimed' = Claimed /\ book[k].resting
    BY <1>2, <1>6 DEF VenueMatches, VenueLapses
  <2>2. \E b \in Book : b.held >= book[k].held /\ book' = [book EXCEPT ![k] = b]
    <3>0. book[k] \in Book
      BY <1>1
    <3>1. CASE VenueMatches(k)
      <4>1. \A h \in Stakes : Arrived(h).held = h /\ Arrived(h) \in Book
        BY <1>1 DEF Arrived, Closed, Lying
      <4>2. PICK h \in Stakes : h > book[k].held /\ book' = [book EXCEPT ![k] = Arrived(h)]
        BY <3>1 DEF VenueMatches
      <4>3. Arrived(h) \in Book /\ Arrived(h).held >= book[k].held
        BY <3>0, <4>1, <4>2 DEF Stakes, Full, Book
      <4> QED BY <4>2, <4>3
    <3>2. CASE VenueLapses(k)
      <4> DEFINE b == [book[k] EXCEPT !.resting = FALSE]
      <4>a. b \in Book /\ b.held = book[k].held
        BY <3>0 DEF Book
      <4>1. b \in Book /\ b.held >= book[k].held
        <5> HIDE DEF b
        <5>1. book[k].held \in Int
          BY <3>0 DEF Book, Stakes, Full
        <5> QED BY <4>a, <5>1
      <4>2. book' = [book EXCEPT ![k] = b]
        BY <3>2 DEF VenueLapses
      <4> QED BY <4>1, <4>2
    <3> QED BY <1>6, <3>1, <3>2
  <2> QED BY <2>1, <2>2 DEF Intent!Match
<1>7. ASSUME NEW e \in Executions, NEW m \in 1..Full, OperatorBets(e, m)
      PROVE  Intent!BetByHand(ManualKey(e)) /\ ManualKey(e)[3] = Retail /\ ManualKey(e) \in Key
  <2>1. ManualKey(e) \in Key /\ ManualKey(e)[3] = Retail
    BY Constants DEF ManualKey, Key
  <2>2. Closed(m) \in Book /\ ~Closed(m).resting
    <3>1. m \in Stakes
      BY DEF Stakes, Full
    <3>2. ~Closed(m).resting
      BY DEF Closed
    <3> QED BY <1>1, <3>1, <3>2
  <2> QED BY <1>2, <1>7, <2>1, <2>2 DEF OperatorBets, BookInv, Intent!BetByHand
<1>8. ASSUME NEW p \in Procs, Acts(p) 
      PROVE  \/ Still
             \/ \E k \in Key : \/ Intent!Authorise(k) /\ k[3] # Retail
                               \/ Intent!Submit(k) \/ Intent!Match(k)
  BY <1>3, <1>4, <1>5, <1>8, StillSteps
<1>9. CASE Environment \/ UNCHANGED vars
  BY <1>6, <1>7, <1>9 DEF Environment, OperatorHalts, AbortIfFlat, vars, Still
<1> QED BY <1>8, <1>9 DEF Next, Acts

\* BookInv is inductive, given the types and that orders are sent once.
LEMMA BookStep == TypeInv /\ OnceInv /\ BookInv /\ [Next]_vars => BookInv'
<1> SUFFICES ASSUME TypeInv, OnceInv, BookInv, [Next]_vars PROVE BookInv'
  OBVIOUS
<1> USE DEF BookInv
<1>1. book \in [Key -> Book] /\ sent \in [Key -> Nat] /\ ~Untouched.resting
  BY DEF TypeInv, DataOK, Untouched
<1>2. CASE Still
  BY <1>2 DEF Still
<1>3. ASSUME NEW k \in Key, Intent!Authorise(k), k[3] # Retail PROVE BookInv'
  BY <1>3 DEF Intent!Authorise
<1>4. ASSUME NEW k \in Key, Intent!Submit(k) PROVE BookInv'
  BY <1>1, <1>4 DEF Intent!Submit
<1>5. ASSUME NEW k \in Key, Intent!Match(k) PROVE BookInv'
  BY <1>1, <1>5 DEF Intent!Match
<1>6. ASSUME NEW k \in Key, Intent!BetByHand(k), k[3] = Retail PROVE BookInv'
  BY <1>1, <1>6 DEF Intent!BetByHand
<1> QED BY <1>2, <1>3, <1>4, <1>5, <1>6, OrderSteps

\* No step takes back what is matched of an order.
LEMMA BooksGrow ==
  ASSUME TypeInv, OnceInv, BookInv, [Next]_vars, NEW k \in Key
  PROVE  book[k].held \in Stakes /\ book'[k].held \in Stakes /\ book[k].held <= book'[k].held
<1>1. book \in [Key -> Book] /\ book' \in [Key -> Book]
  BY TypeStep DEF TypeInv, DataOK
<1>2. \A j \in Key : book[j].held \in Int /\ book'[j].held \in Int
  BY <1>1 DEF Book, Stakes, Full
<1>3. Untouched.held = 0 /\ book'[k].held >= 0
  BY <1>1 DEF Untouched, Book, Stakes, Full
<1>4. ASSUME Still PROVE book[k].held <= book'[k].held
  BY <1>2, <1>4 DEF Still
<1>5. ASSUME NEW j \in Key,
             Intent!Authorise(j) \/ Intent!Submit(j) \/ Intent!Match(j) \/ Intent!BetByHand(j)
      PROVE  book[k].held <= book'[k].held
  <2>1. CASE j # k \/ Intent!Authorise(j)
    BY <1>1, <1>2, <1>5, <2>1
       DEF Intent!Authorise, Intent!Submit, Intent!Match, Intent!BetByHand
  <2>2. CASE j = k /\ (Intent!Submit(j) \/ Intent!BetByHand(j))
    BY <1>2, <1>3, <2>2 DEF Intent!Submit, Intent!BetByHand
  <2>3. CASE j = k /\ Intent!Match(j)
    BY <1>1, <1>2, <2>3 DEF Intent!Match
  <2> QED BY <1>5, <2>1, <2>2, <2>3
<1>6. book[k].held \in Stakes /\ book'[k].held \in Stakes
  BY <1>1 DEF Book
<1> QED BY <1>4, <1>5, <1>6, OrderSteps
-----------------------------------------------------------------------------
(* The ledger claims no more than the venues hold *)

\* The steps between a venue's answer and the save of what it said.
Answered == {"cancel", "requery", "save"}

\* LedgerNeverOverstates is not inductive: a result on its way to the ledger must
\* be covered as well, and it must be the result of the plan's own order.
ClaimInv ==
  /\ \A p \in Procs :
       pc[p] \in Submitting /\ job[p].slot # Rescue => job[p].via = plan[Run(p)].venue[job[p].slot]
  /\ \A p \in Procs : pc[p] \in Answered => job[p].res.matched <= book[K(p)].held
  /\ LedgerNeverOverstates

\* What a step must leave alone, and where it may take its process, to keep the
\* two parts of ClaimInv that are about processes.
Carries(p) ==
  /\ pc'[p] \in Submitting =>
       /\ pc[p] \in Submitting
       /\ job'[p].run = job[p].run /\ job'[p].slot = job[p].slot /\ job'[p].via = job[p].via
  /\ pc'[p] \in Answered => job'[p].res.matched <= book'[K(p)].held

\* A process takes an order in hand only at its loop's leg or at a rescue, and
\* afterwards only its result changes, which the book covers.
LEMMA CarryingSteps ==
  ASSUME TypeInv, OnceInv, BookInv, ClaimInv, NEW p \in Procs, Acts(p)
  PROVE  Carries(p) \/ SubmitLeg(p) \/ \E v \in Venues : RouteRescue(p, v)
<1> USE DEF Carries, Submitting, Answered, Goto, Finish, Start, ledger, venue
<1>1. /\ pc \in [Procs -> Steps] /\ job \in [Procs -> Job] /\ book \in [Key -> Book]
      /\ 0 \in Stakes
  BY DEF TypeInv, DataOK, ProcsOK, Stakes, Full
<1>2. [Next]_vars
  BY DEF Next, Acts
<1>3. pc[p] \in Submitting =>
        K(p) \in Key /\ book[K(p)] \in Book /\ book[K(p)].held \in Stakes
        /\ book'[K(p)].held \in Stakes /\ book[K(p)].held <= book'[K(p)].held
  BY <1>2, AtWorkTypes, BooksGrow
<1>4. CASE \/ PrepareLock(p) \/ PrepareCreate(p) \/ PrepareRefused(p) \/ PrepareLeg(p)
           \/ PrepareUndo(p) \/ PrepareError(p) \/ Crash(p)
  BY <1>1, <1>4
     DEF PrepareLock, PrepareCreate, PrepareRefused, PrepareLeg, PrepareUndo, PrepareError, Crash
<1>5. CASE \E e \in Executions : Command(p, e)
  BY <1>1, <1>5
     DEF Command, PrepareStart, ConfirmAccepted, ConfirmRejected, ResumeLoad, Resolve
<1>6. CASE \/ ResumeHalted(p) \/ ResumeChecked(p) \/ ResumeMark(p)
           \/ LegRowMissing(p) \/ SkipLeg(p) \/ LegsDone(p)
  BY <1>1, <1>6
     DEF ResumeHalted, ResumeChecked, ResumeMark, LegRowMissing, SkipLeg, LegsDone, AtLeg
<1>7. CASE PreflightRefused(p) \/ GateRefused(p) \/ CanaryRefused(p)
  <2>1. /\ pc'[p] = "save" /\ pc[p] \in Submitting /\ book' = book
        /\ job' = [job EXCEPT ![p].res = Rejected] \/ job' = Trip(p, Rejected)
    BY <1>1, <1>7 DEF PreflightRefused, GateRefused, CanaryRefused
  <2>2. /\ job'[p].run = job[p].run /\ job'[p].slot = job[p].slot /\ job'[p].via = job[p].via
        /\ job'[p].res.matched = 0
    BY <1>1, <2>1 DEF Trip, Rejected, Reported, Job
  <2> QED BY <1>3, <2>1, <2>2 DEF Stakes, Full
<1>8. CASE PreflightOk(p) \/ CanaryAuthorized(p)
  BY <1>1, <1>8 DEF PreflightOk, CanaryAuthorized
<1>9. CASE Send(p)
  <2>1. PICK r \in PlaceReplies(job[p].via) :
          /\ book' = [book EXCEPT ![K(p)] = r.book]
          /\ job' = IF r.result.status \in TrippingStatus THEN Trip(p, r.result)
                    ELSE [job EXCEPT ![p].res = r.result]
    BY <1>9 DEF Send
  <2>2. pc[p] = "send" /\ r.result.matched <= r.book.held
    BY <1>3, <1>9, HonestReplies DEF Send
  <2>3. /\ job'[p].run = job[p].run /\ job'[p].slot = job[p].slot /\ job'[p].via = job[p].via
        /\ job'[p].res = r.result
    BY <1>1, <2>1 DEF Trip, Job
  <2> QED BY <1>1, <1>3, <2>1, <2>2, <2>3
<1>10. CASE SendRaises(p)
  <2>1. pc'[p] = "reconcile" /\ pc[p] = "send" /\ job' = Trip(p, Unknown)
    BY <1>1, <1>10 DEF SendRaises
  <2> QED BY <1>1, <2>1 DEF Trip, Job
<1>11. CASE Reconcile(p) \/ Requery(p)
  <2>1. PICK r \in ReconcileResults(job[p].via, book[K(p)]) : job' = [job EXCEPT ![p].res = r]
    BY <1>11 DEF Reconcile, Requery
  <2>2. pc[p] \in Submitting /\ r.matched <= book[K(p)].held /\ book' = book
    BY <1>3, <1>11, HonestReplies DEF Reconcile, Requery
  <2>3. /\ job'[p].run = job[p].run /\ job'[p].slot = job[p].slot /\ job'[p].via = job[p].via
        /\ job'[p].res = r
    BY <1>1, <2>1 DEF Job
  <2> QED BY <2>2, <2>3
<1>a. CASE CancelRemainder(p)
  <2>1. pc[p] = "cancel" /\ job' = job
    BY <1>a DEF CancelRemainder
  <2>2. job[p].res.matched <= book[K(p)].held /\ job[p].res.matched \in Stakes
    BY <1>1, <2>1 DEF ClaimInv, Job, Result
  <2>3. job'[p].res.matched <= book'[K(p)].held
    BY <1>3, <2>1, <2>2 DEF Stakes, Full
  <2> QED BY <2>1, <2>3
<1>12. CASE Save(p)
  BY <1>1, <1>12 DEF Save
<1>13. CASE \/ Orphan(p) \/ RouteNoExposure(p) \/ RouteImpossible(p) \/ RouteCovered(p)
  BY <1>1, <1>13 DEF Orphan, RouteNoExposure, RouteImpossible, RouteCovered, Decide
<1>14. CASE Settle(p) \/ SetHalt(p) \/ ReleaseLock(p) \/ ResolveMark(p) \/ ClearHalt(p)
  BY <1>1, <1>14 DEF Settle, SetHalt, ReleaseLock, ResolveMark, ClearHalt
<1> QED BY <1>4, <1>5, <1>6, <1>7, <1>8, <1>9, <1>10, <1>11, <1>a, <1>12,
        <1>13, <1>14
        DEF Acts, Step

\* The leg rows change only where a leg is prepared, reported by the operator, or
\* its order's result saved; and plans only where a run begins to be prepared.
LEMMA RowSteps ==
  ASSUME NEW p \in Procs, Acts(p)
  PROVE  \/ plan' = plan /\ legs' = legs
         \/ PrepareLeg(p) \/ Save(p)
         \/ \E e \in Executions :
              PrepareStart(p, e) \/ ConfirmAccepted(p, e) \/ ConfirmRejected(p, e)
<1> USE DEF ledger, venue, told
<1>1. CASE Step(p)
  BY <1>1 DEF Step, PrepareLock, PrepareCreate, PrepareRefused, PrepareUndo,
     ResumeHalted, ResumeChecked, ResumeMark, LegRowMissing, SkipLeg, SubmitLeg, LegsDone,
     PreflightRefused, PreflightOk, GateRefused, CanaryRefused, CanaryAuthorized, Send,
     SendRaises, Reconcile, CancelRemainder, Requery,
     Orphan, Decide, RouteNoExposure, RouteImpossible, RouteCovered, RouteRescue, Settle,
     SetHalt, ReleaseLock, ResolveMark, ClearHalt
<1>2. CASE PrepareError(p) \/ Crash(p) \/ \E e \in Executions : Command(p, e)
  BY <1>2 DEF PrepareError, Crash, Command, ResumeLoad, Resolve
<1> QED BY <1>1, <1>2 DEF Acts

\* A leg row is only ever written with what its own order holds, or less.
Writes(e, l, m) ==
  /\ m \in Stakes /\ m <= Held(e, l)
  /\ \E s : SaveLeg(e, l, Reported(s, m))

\* What a step can do to the plans and the leg rows.
LEMMA RowWrites ==
  ASSUME TypeInv, RunInv, ClaimInv, NEW p \in Procs, Acts(p)
  PROVE  \/ plan' = plan /\ legs' = legs
         \/ \E e \in Executions :
              /\ legs' = legs /\ \A l \in Slots : legs[e][l] = NoRow
              /\ \A f \in Executions \ {e} : plan'[f] = plan[f]
         \/ plan' = plan /\ \E e \in Executions, l \in Legs, m \in Stakes : Writes(e, l, m)
         \/ plan' = plan /\ \E e \in Executions : \E r : SaveLeg(e, Rescue, r)
<1> USE DEF ledger, venue, told
<1>1. /\ pc \in [Procs -> Steps] /\ job \in [Procs -> Job] /\ plan \in [Executions -> Plan]
      /\ book \in [Key -> Book] /\ legs \in [Executions -> [Slots -> LegRow]]
      /\ 0 \in Stakes
  BY DEF TypeInv, DataOK, ProcsOK, Stakes, Full
<1>2. \A e \in Executions, l \in Legs :
        <<e, l, plan[e].venue[l]>> \in Key /\ Held(e, l) \in Stakes /\ 0 <= Held(e, l)
  <2> SUFFICES ASSUME NEW e \in Executions, NEW l \in Legs
               PROVE <<e, l, plan[e].venue[l]>> \in Key /\ Held(e, l) \in Stakes /\ 0 <= Held(e, l)
    OBVIOUS
  <2>1. plan[e].venue[l] \in Venues \cup {Retail} /\ l \in Slots
    BY <1>1, Constants DEF Plan
  <2>2. <<e, l, plan[e].venue[l]>> \in Key
    BY <2>1 DEF Key
  <2>3. book[<<e, l, plan[e].venue[l]>>] \in Book
    BY <1>1, <2>2
  <2> QED BY <2>2, <2>3 DEF Held, Book, Stakes, Full
<1>3. ASSUME NEW e \in Executions, PrepareStart(p, e)
      PROVE  /\ legs' = legs /\ \A l \in Slots : legs[e][l] = NoRow
             /\ \A f \in Executions \ {e} : plan'[f] = plan[f]
  BY <1>1, <1>3 DEF PrepareStart, Fresh, RunInv
<1>4. CASE PrepareLeg(p)
  <2>1. Run(p) \in Executions /\ job[p].leg \in Legs
    BY <1>4 DEF PrepareLeg, TypeInv, ProcsOK, Sound, Preparing, Run
  <2>2. \E s : SaveLeg(Run(p), job[p].leg, Reported(s, 0))
    BY <1>4 DEF PrepareLeg
  <2>3. Writes(Run(p), job[p].leg, 0)
    BY <1>1, <1>2, <2>1, <2>2 DEF Writes
  <2> QED BY <1>1, <1>4, <2>1, <2>3 DEF PrepareLeg
<1>5. CASE Save(p)
  <2>1. /\ plan' = plan /\ SaveLeg(Run(p), job[p].slot, job[p].res) /\ pc[p] = "save"
    BY <1>5 DEF Save, Run
  <2>2. Run(p) \in Executions /\ job[p].slot \in Slots /\ job[p].res \in Result
    BY <1>1, <2>1, AtWorkTypes DEF Job
  <2>3. CASE job[p].slot = Rescue
    BY <2>1, <2>2, <2>3
  <2>4. CASE job[p].slot # Rescue
    <3> DEFINE l == job[p].slot
               m == job[p].res.matched
    <3>1. l \in Legs /\ m \in Stakes
      BY <2>2, <2>4 DEF Slots, Legs, Rescue, Result
    <3>2. m <= Held(Run(p), l)
      BY <2>1, <2>4 DEF ClaimInv, Submitting, Answered, K, Held, Run
    <3>3. SaveLeg(Run(p), l, Reported(job[p].res.status, m))
      BY <2>1 DEF SaveLeg, Reported
    <3> QED BY <2>1, <2>2, <3>1, <3>2, <3>3 DEF Writes
  <2> QED BY <2>3, <2>4
<1>6. ASSUME NEW e \in Executions, ConfirmAccepted(p, e) \/ ConfirmRejected(p, e)
      PROVE  plan' = plan /\ \E m \in Stakes : Writes(e, 1, m)
  <2>1. CASE ConfirmAccepted(p, e)
    <3>1. runStatus[e] # "none"
      <4>1. legs[e][1].status # "absent" => legs[e][1] # NoRow
        BY DEF NoRow
      <4> QED BY <2>1, <4>1, Constants DEF ConfirmAccepted, MayConfirm, RunInv
    <3>2. plan[e].venue[1] = Retail
      BY <2>1, <3>1 DEF ConfirmAccepted, RunInv, Sorted
    <3>3. Held(e, 1) = book[ManualKey(e)].held
      BY <3>2 DEF Held, ManualKey
    <3>4. Held(e, 1) \in Stakes /\ Held(e, 1) <= Held(e, 1)
      <4>1. Held(e, 1) \in Stakes
        BY <1>2, Constants
      <4> QED BY <4>1 DEF Stakes, Full
    <3> QED BY <2>1, <3>3, <3>4 DEF ConfirmAccepted, Writes
  <2>2. CASE ConfirmRejected(p, e)
    <3>1. 0 <= Held(e, 1)
      BY <1>2, Constants
    <3> QED BY <1>1, <2>2, <3>1 DEF ConfirmRejected, Rejected, Writes
  <2> QED BY <1>6, <2>1, <2>2
<1>7. 1 \in Legs
  BY Constants
<1> QED BY <1>3, <1>4, <1>5, <1>6, <1>7, RowSteps

\* A write takes one row to the amount written and leaves the others alone.
LEMMA WritesOneRow ==
  ASSUME TypeInv, NEW e \in Executions, NEW l \in Legs, NEW m \in Stakes, Writes(e, l, m)
  PROVE  /\ legs'[e][l].matched = m
         /\ \A f \in Executions, i \in Legs :
              f # e \/ i # l => legs'[f][i].matched = legs[f][i].matched
<1>1. legs \in [Executions -> [Slots -> LegRow]] /\ l \in Slots /\ Legs \subseteq Slots
  BY Constants DEF TypeInv, DataOK
<1>2. PICK s : SaveLeg(e, l, Reported(s, m))
  BY DEF Writes
<1> QED BY <1>1, <1>2 DEF SaveLeg, Reported

\* A write of a rescue's row leaves the rows of the plan's legs alone.
LEMMA RescueRowIsApart ==
  ASSUME TypeInv, NEW e \in Executions, NEW r, SaveLeg(e, Rescue, r)
  PROVE  \A f \in Executions, i \in Legs : legs'[f][i] = legs[f][i]
<1>1. legs \in [Executions -> [Slots -> LegRow]] /\ Rescue \notin Legs /\ Legs \subseteq Slots
  BY Constants DEF TypeInv, DataOK
<1> QED BY <1>1 DEF SaveLeg

\* The part of ClaimInv that is about the ledger is kept.
LEMMA RowsStayCovered ==
  ASSUME TypeInv, OnceInv, BookInv, RunInv, ClaimInv, [Next]_vars
  PROVE  LedgerNeverOverstates'
<1> DEFINE key(e, l) == <<e, l, plan[e].venue[l]>>
<1>1. /\ plan \in [Executions -> Plan] /\ book \in [Key -> Book] /\ Legs \subseteq Slots
      /\ plan' \in [Executions -> Plan] /\ book' \in [Key -> Book]
      /\ legs \in [Executions -> [Slots -> LegRow]]
  BY TypeStep, Constants DEF TypeInv, DataOK
<1>2. \A e \in Executions, l \in Legs :
        /\ key(e, l) \in Key /\ key(e, l)' \in Key
        /\ legs[e][l].matched \in Int /\ book[key(e, l)].held \in Int
        /\ book'[key(e, l)].held \in Int /\ book'[key(e, l)'].held \in Int
        /\ 0 <= book'[key(e, l)'].held
        /\ legs[e][l].matched <= book[key(e, l)].held
        /\ book[key(e, l)].held <= book'[key(e, l)].held
  <2> SUFFICES ASSUME NEW e \in Executions, NEW l \in Legs
               PROVE  /\ key(e, l) \in Key /\ key(e, l)' \in Key
                      /\ legs[e][l].matched \in Int /\ book[key(e, l)].held \in Int
                      /\ book'[key(e, l)].held \in Int /\ book'[key(e, l)'].held \in Int
                      /\ 0 <= book'[key(e, l)'].held
                      /\ legs[e][l].matched <= book[key(e, l)].held
                      /\ book[key(e, l)].held <= book'[key(e, l)].held
    OBVIOUS
  <2>1. key(e, l) \in Key /\ key(e, l)' \in Key
    <3>1. plan[e].venue[l] \in Venues \cup {Retail} /\ plan'[e].venue[l] \in Venues \cup {Retail}
      BY <1>1 DEF Plan
    <3> QED BY <1>1, <3>1 DEF Key
  <2> HIDE DEF key
  <2>2. book[key(e, l)] \in Book /\ book'[key(e, l)] \in Book /\ book'[key(e, l)'] \in Book
    BY <1>1, <2>1
  <2>3. \A b \in Book : b.held \in Int /\ 0 <= b.held
    BY DEF Book, Stakes, Full
  <2>4. legs[e][l].matched \in Int
    BY <1>1 DEF LegRow, Stakes, Full
  <2>5. legs[e][l].matched <= book[key(e, l)].held
    BY DEF ClaimInv, LedgerNeverOverstates, Held, key
  <2> QED BY <2>1, <2>2, <2>3, <2>4, <2>5, BooksGrow
<1> HIDE DEF key
<1>3. SUFFICES ASSUME NEW e \in Executions, NEW l \in Legs
               PROVE  legs'[e][l].matched <= book'[key(e, l)'].held
  BY DEF LedgerNeverOverstates, Held, key
<1>4. ASSUME plan' = plan, legs'[e][l].matched = legs[e][l].matched
      PROVE  legs'[e][l].matched <= book'[key(e, l)'].held
  <2>1. key(e, l)' = key(e, l)
    BY <1>4 DEF key
  <2> QED BY <1>2, <1>4, <2>1
<1>5. ASSUME NEW f \in Executions, legs' = legs, \A i \in Slots : legs[f][i] = NoRow,
             \A g \in Executions \ {f} : plan'[g] = plan[g]
      PROVE  legs'[e][l].matched <= book'[key(e, l)'].held
  <2>1. CASE e = f
    BY <1>1, <1>2, <1>5, <2>1 DEF NoRow
  <2>2. CASE e # f
    <3>1. key(e, l)' = key(e, l)
      BY <1>5, <2>2 DEF key
    <3> QED BY <1>2, <1>5, <3>1
  <2> QED BY <2>1, <2>2
<1>6. ASSUME plan' = plan, NEW f \in Executions, NEW i \in Legs, NEW m \in Stakes, Writes(f, i, m)
      PROVE  legs'[e][l].matched <= book'[key(e, l)'].held
  <2>1. CASE e = f /\ l = i
    <3>1. legs'[e][l].matched = m /\ m <= book[key(e, l)].held /\ m \in Int
      BY <1>6, <2>1, WritesOneRow DEF Writes, Held, key, Stakes, Full
    <3>2. key(e, l)' = key(e, l)
      BY <1>6 DEF key
    <3> QED BY <1>2, <3>1, <3>2
  <2>2. CASE e # f \/ l # i
    BY <1>4, <1>6, <2>2, WritesOneRow
  <2> QED BY <2>1, <2>2
<1>7. ASSUME plan' = plan, NEW f \in Executions, NEW r, SaveLeg(f, Rescue, r)
      PROVE  legs'[e][l].matched <= book'[key(e, l)'].held
  BY <1>4, <1>7, RescueRowIsApart
<1>8. ASSUME NEW p \in Procs, Acts(p) PROVE legs'[e][l].matched <= book'[key(e, l)'].held
  BY <1>4, <1>5, <1>6, <1>7, <1>8, RowWrites
<1>9. CASE Environment \/ UNCHANGED vars
  <2>1. plan' = plan /\ legs' = legs
    BY <1>9 DEF Environment, OperatorHalts, AbortIfFlat, OperatorBets, VenueMatches,
       VenueLapses, vars, ledger
  <2> QED BY <1>4, <2>1
<1> QED BY <1>8, <1>9 DEF Next, Acts

\* Orders in hand stay orders of the plan: a plan changes only while its run is
\* not yet known, and nobody works on such a run but its own prepare.
LEMMA PlansInHandStay ==
  ASSUME TypeInv, [Next]_vars, NEW q \in Procs, pc[q] \in Submitting
  PROVE  plan'[Run(q)] = plan[Run(q)]
<1> USE DEF ledger, venue, told
<1>1. plan \in [Executions -> Plan] /\ Run(q) \in Executions
  BY AtWorkTypes DEF TypeInv, DataOK, Submitting
<1>2. ASSUME NEW p \in Procs, NEW e \in Executions, PrepareStart(p, e)
      PROVE  plan'[Run(q)] = plan[Run(q)]
  BY <1>1, <1>2 DEF PrepareStart, Fresh, AtWork
<1>3. ASSUME NEW p \in Procs, Acts(p) PROVE plan'[Run(q)] = plan[Run(q)]
  BY <1>2, <1>3, RowSteps DEF PrepareLeg, Save, ConfirmAccepted, ConfirmRejected
<1>4. CASE Environment \/ UNCHANGED vars
  BY <1>4 DEF Environment, OperatorHalts, AbortIfFlat, OperatorBets, VenueMatches,
     VenueLapses, vars
<1> QED BY <1>3, <1>4 DEF Next, Acts

\* ClaimInv is inductive, given the types and the three invariants before it.
LEMMA ClaimStep ==
  TypeInv /\ OnceInv /\ BookInv /\ RunInv /\ ClaimInv /\ [Next]_vars => ClaimInv'
<1> SUFFICES ASSUME TypeInv, OnceInv, BookInv, RunInv, ClaimInv, [Next]_vars PROVE ClaimInv'
  OBVIOUS
<1> DEFINE Mine(q) == pc[q] \in Submitting /\ job[q].slot # Rescue
                        => job[q].via = plan[Run(q)].venue[job[q].slot]
           Covered(q) == pc[q] \in Answered => job[q].res.matched <= book[K(q)].held
<1>1. /\ pc \in [Procs -> Steps] /\ job \in [Procs -> Job]
      /\ Answered \subseteq Submitting
      /\ \A q \in Procs : Mine(q) /\ Covered(q)
  BY DEF TypeInv, ProcsOK, Answered, Submitting, ClaimInv
\* A process that is not the one to act, or none acts.
<1>2. ASSUME NEW q \in Procs, pc'[q] = pc[q], job'[q] = job[q]
      PROVE  Mine(q)' /\ Covered(q)'
  <2>1. Run(q)' = Run(q) /\ K(q)' = K(q)
    BY <1>2 DEF Run, K
  <2>2. Mine(q)'
    BY <1>1, <1>2, <2>1, PlansInHandStay
  <2>3. Covered(q)'
    <3>1. SUFFICES ASSUME pc[q] \in Answered PROVE job[q].res.matched <= book'[K(q)].held
      BY <1>2, <2>1
    <3>2. K(q) \in Key /\ job[q].res.matched \in Stakes /\ job[q].res.matched <= book[K(q)].held
      BY <1>1, <3>1, AtWorkTypes DEF Job, Result, Submitting
    <3> QED BY <3>2, BooksGrow DEF Stakes, Full
  <2> QED BY <2>2, <2>3
<1>3. ASSUME NEW p \in Procs, Acts(p), Carries(p) PROVE Mine(p)' /\ Covered(p)'
  <2>1. pc'[p] \in Submitting => pc[p] \in Submitting /\ Run(p)' = Run(p) /\ K(p)' = K(p)
    BY <1>3 DEF Carries, Run, K
  <2>2. Mine(p)'
    BY <1>1, <1>3, <2>1, PlansInHandStay DEF Carries
  <2>3. Covered(p)'
    BY <1>1, <1>3, <2>1 DEF Carries
  <2> QED BY <2>2, <2>3
<1>4. ASSUME NEW p \in Procs, SubmitLeg(p) PROVE Mine(p)' /\ Covered(p)'
  <2>1. /\ pc'[p] = "preflight" /\ plan' = plan /\ job[p] \in Job
        /\ job' = [job EXCEPT ![p].slot = job[p].leg, ![p].via = VenueOfLeg(p)]
    BY <1>1, <1>4 DEF SubmitLeg, Goto
  <2>2. Run(p)' = Run(p) /\ job'[p].via = plan[Run(p)].venue[job'[p].slot]
    BY <1>1, <2>1 DEF Run, VenueOfLeg, Job
  <2> QED BY <2>1, <2>2 DEF Answered
<1>5. ASSUME NEW p \in Procs, NEW v \in Venues, RouteRescue(p, v) PROVE Mine(p)' /\ Covered(p)'
  <2>1. pc'[p] = "preflight" /\ job'[p].slot = Rescue
    BY <1>1, <1>5 DEF RouteRescue, Goto, Job
  <2> QED BY <2>1 DEF Answered
<1>6. ASSUME NEW p \in Procs, Acts(p), NEW q \in Procs PROVE Mine(q)' /\ Covered(q)'
  <2>1. CASE q = p
    BY <1>3, <1>4, <1>5, <1>6, <2>1, CarryingSteps
  <2>2. CASE q # p
    BY <1>2, <1>6, <2>2, OthersStay DEF Others
  <2> QED BY <2>1, <2>2
<1>7. ASSUME Environment \/ UNCHANGED vars, NEW q \in Procs PROVE Mine(q)' /\ Covered(q)'
  <2>1. pc' = pc /\ job' = job
    BY <1>7 DEF Environment, OperatorHalts, AbortIfFlat, OperatorBets, VenueMatches,
       VenueLapses, vars
  <2> QED BY <1>2, <2>1
<1>8. \A q \in Procs : Mine(q)' /\ Covered(q)'
  BY <1>6, <1>7 DEF Next, Acts
<1> QED BY <1>8, RowsStayCovered DEF ClaimInv

OrderInv == TypeInv /\ OnceInv /\ RunInv /\ BookInv /\ ClaimInv

\* The invariants hold at first.
LEMMA OrderInit == Init => OrderInv
<1> SUFFICES ASSUME Init PROVE OrderInv
  OBVIOUS
<1>1. TypeInv /\ OnceInv
  BY TypeInit DEF Init, OnceInv
<1>2. RunInv
  BY DEF Init, RunInv, Known, NoRow
<1>3. BookInv
  BY DEF Init, BookInv
<1>4. LedgerNeverOverstates
  <2> SUFFICES ASSUME NEW e \in Executions, NEW l \in Legs
               PROVE  legs[e][l].matched <= Held(e, l)
    BY DEF LedgerNeverOverstates
  <2>1. plan[e].venue[l] \in Venues \cup {Retail} /\ l \in Slots
    BY <1>1, Constants DEF TypeInv, DataOK, Plan
  <2>2. <<e, l, plan[e].venue[l]>> \in Key
    BY <2>1 DEF Key
  <2>3. Held(e, l) = 0
    BY <2>2 DEF Init, Held, Untouched
  <2> QED BY <2>1, <2>3 DEF Init
<1> QED BY <1>1, <1>2, <1>3, <1>4
        DEF Init, OrderInv, ClaimInv, Submitting, Answered

\* They are inductive together.
LEMMA OrderInvStep == OrderInv /\ [Next]_vars => OrderInv'
BY TypeStep, OnceStep, RunStep, BookStep, ClaimStep DEF OrderInv

\* Whatever is lost, cut short, retried or done side by side, no leg row of the
\* ledger claims more than the venue holds of that leg.
THEOREM NeverOverstates == Spec => []LedgerNeverOverstates
<1>1. OrderInv => LedgerNeverOverstates
  BY DEF OrderInv, ClaimInv
<1> QED BY <1>1, OrderInit, OrderInvStep, PTL DEF Spec
-----------------------------------------------------------------------------
(* A rescue is bought only against exposure *)

Exposed(e) ==
  e \in confirmed \/ \E l \in Legs, v \in Venues : sent[<<e, l, v>>] > 0

\* RescueNeedsExposure is not inductive: the row of a manual leg shows a stake
\* only once an operator has reported it, and a process with a rescue in hand
\* works on a run that is exposed already.
ExposureInv ==
  /\ \A e \in Executions, l \in Legs :
       legs[e][l].matched > 0 /\ plan[e].venue[l] = Retail => e \in confirmed
  /\ \A p \in Procs : pc[p] \in Submitting /\ job[p].slot = Rescue => Exposed(Run(p))
  /\ RescueNeedsExposure

\* A run that is exposed stays exposed.
LEMMA ExposureStays ==
  ASSUME OrderInv, [Next]_vars
  PROVE  /\ confirmed \subseteq confirmed'
         /\ \A k \in Key : sent[k] > 0 => sent'[k] > 0
         /\ \A e \in Executions : Exposed(e) => Exposed(e)'
<1> USE DEF ledger, venue, told
<1>1. sent \in [Key -> Nat] /\ \A l \in Legs : l \in Slots
  BY Constants DEF OrderInv, TypeInv, DataOK
<1>2. \A k \in Key : sent[k] > 0 => sent'[k] > 0
  <2>1. ASSUME NEW j \in Key,
               Intent!Authorise(j) \/ Intent!Submit(j) \/ Intent!Match(j) \/ Intent!BetByHand(j)
        PROVE  \A k \in Key : sent[k] > 0 => sent'[k] > 0
    BY <1>1, <2>1 DEF Intent!Authorise, Intent!Submit, Intent!Match, Intent!BetByHand
  <2> QED BY <2>1, OrderSteps DEF OrderInv, Still
<1>3. confirmed \subseteq confirmed'
  <2>1. ASSUME NEW p \in Procs, Step(p) \/ PrepareError(p) \/ Crash(p)
        PROVE  confirmed' = confirmed
    BY <2>1 DEF Step, PrepareError, Crash,
       PrepareLock, PrepareCreate, PrepareRefused, PrepareLeg, PrepareUndo,
       ResumeHalted, ResumeChecked, ResumeMark, LegRowMissing, SkipLeg, SubmitLeg, LegsDone,
       PreflightRefused, PreflightOk, GateRefused, CanaryRefused, CanaryAuthorized,
       Send, SendRaises, Reconcile, CancelRemainder, Requery, Save, Orphan, Decide,
       RouteNoExposure, RouteImpossible, RouteCovered, RouteRescue, Settle, SetHalt,
       ReleaseLock, ResolveMark, ClearHalt
  <2>2. ASSUME NEW p \in Procs, NEW e \in Executions, Command(p, e)
        PROVE  confirmed \subseteq confirmed'
    BY <2>2 DEF Command, PrepareStart, ConfirmAccepted, ConfirmRejected, ResumeLoad, Resolve
  <2>3. CASE Environment \/ UNCHANGED vars
    BY <2>3 DEF Environment, OperatorHalts, AbortIfFlat, OperatorBets, VenueMatches,
       VenueLapses, vars
  <2> QED BY <2>1, <2>2, <2>3 DEF Next
<1>4. ASSUME NEW e \in Executions, Exposed(e) PROVE Exposed(e)'
  <2>1. CASE e \in confirmed
    BY <1>3, <2>1 DEF Exposed
  <2>2. ASSUME NEW l \in Legs, NEW v \in Venues, sent[<<e, l, v>>] > 0
        PROVE  Exposed(e)'
    <3>1. <<e, l, v>> \in Key
      BY <1>1, <2>2 DEF Key
    <3> QED BY <1>2, <2>2, <3>1 DEF Exposed
  <2> QED BY <1>4, <2>1, <2>2 DEF Exposed
<1> QED BY <1>2, <1>3, <1>4

\* A stake on a leg's row means that its venue was asked for the leg, or that an
\* operator reported it.
LEMMA StakesExpose ==
  ASSUME OrderInv, ExposureInv, NEW e \in Executions, NEW l \in Legs, legs[e][l].matched > 0
  PROVE  Exposed(e)
<1> DEFINE v == plan[e].venue[l]
           k == <<e, l, v>>
<1>1. v \in Venues \cup {Retail} /\ l \in Slots
  BY Constants DEF OrderInv, TypeInv, DataOK, Plan
<1>2. k \in Key
  BY <1>1 DEF Key
<1>3. legs[e][l].matched \in Int /\ book[k].held \in Int /\ legs[e][l].matched <= book[k].held
      /\ sent[k] \in Nat
  <2>1. book[k] \in Book /\ legs[e][l] \in LegRow /\ sent[k] \in Nat
    BY <1>1, <1>2 DEF OrderInv, TypeInv, DataOK
  <2>2. legs[e][l].matched <= book[k].held
    BY DEF OrderInv, ClaimInv, LedgerNeverOverstates, Held
  <2> HIDE DEF k
  <2> QED BY <2>1, <2>2 DEF Book, LegRow, Stakes, Full
<1>4. CASE v = Retail
  BY <1>4 DEF ExposureInv, Exposed
<1>5. CASE v \in Venues
  <2>1. book[k] # Untouched
    BY <1>3 DEF Untouched
  <2>2. sent[k] # 0
    BY <1>2, <1>5, <2>1, CoreAssumption DEF OrderInv, BookInv
  <2> QED BY <1>3, <1>5, <2>2 DEF Exposed
<1> QED BY <1>1, <1>4, <1>5

\* The part of ExposureInv that is about manual legs is kept.
LEMMA ReportsAreRecorded ==
  ASSUME OrderInv, ExposureInv, [Next]_vars, NEW e \in Executions, NEW l \in Legs,
         legs'[e][l].matched > 0, plan'[e].venue[l] = Retail
  PROVE  e \in confirmed'
<1> USE DEF ledger, venue, told
<1>1. /\ legs \in [Executions -> [Slots -> LegRow]] /\ Legs \subseteq Slots
      /\ pc \in [Procs -> Steps] /\ job \in [Procs -> Job]
  BY Constants DEF OrderInv, TypeInv, DataOK, ProcsOK
<1>2. ASSUME legs'[e][l].matched = legs[e][l].matched, plan'[e].venue = plan[e].venue
      PROVE  e \in confirmed'
  BY <1>2, ExposureStays DEF ExposureInv
<1>3. ASSUME NEW p \in Procs, NEW f \in Executions, PrepareStart(p, f) PROVE e \in confirmed'
  <2>1. legs' = legs /\ plan' = [plan EXCEPT ![f].venue = ManualFirst(plan[f].venue)]
        /\ runStatus[f] = "none"
    BY <1>3 DEF PrepareStart, Fresh
  <2>2. CASE e = f
    BY <1>1, <2>1, <2>2 DEF OrderInv, RunInv, NoRow
  <2>3. CASE e # f
    BY <1>2, <2>1, <2>3 DEF OrderInv, TypeInv, DataOK
  <2> QED BY <2>2, <2>3
<1>4. ASSUME NEW p \in Procs, PrepareLeg(p) PROVE e \in confirmed'
  <2>1. plan' = plan /\ \E s : SaveLeg(Run(p), job[p].leg, Reported(s, 0))
    BY <1>4 DEF PrepareLeg
  <2>2. legs'[e][l].matched = legs[e][l].matched \/ legs'[e][l].matched = 0
    BY <1>1, <2>1 DEF SaveLeg, Reported
  <2> QED BY <1>2, <2>1, <2>2
<1>5. ASSUME NEW p \in Procs, Save(p) PROVE e \in confirmed'
  <2>1. /\ plan' = plan /\ SaveLeg(Run(p), job[p].slot, job[p].res) /\ pc[p] = "save"
    BY <1>5 DEF Save, Run
  <2>2. CASE e # Run(p) \/ l # job[p].slot
    <3>1. legs'[e][l] = legs[e][l]
      BY <1>1, <2>1, <2>2 DEF SaveLeg
    <3> QED BY <1>2, <2>1, <3>1
  <2>3. CASE e = Run(p) /\ l = job[p].slot
    <3>1. job[p].via \in Venues /\ job[p].via = plan[e].venue[l]
      BY <2>1, <2>3, Constants DEF OrderInv, TypeInv, ProcsOK, Sound, ClaimInv, Submitting
    <3> QED BY <2>1, <3>1, CoreAssumption
  <2> QED BY <2>2, <2>3
<1>6. ASSUME NEW p \in Procs, NEW f \in Executions, ConfirmAccepted(p, f) \/ ConfirmRejected(p, f)
      PROVE  e \in confirmed'
  <2>1. plan' = plan
    BY <1>6 DEF ConfirmAccepted, ConfirmRejected
  <2>2. CASE ConfirmAccepted(p, f)
    <3>1. confirmed' = confirmed \cup {f} /\ \E r : SaveLeg(f, 1, r)
      BY <2>2 DEF ConfirmAccepted
    <3>2. e = f \/ legs'[e] = legs[e]
      BY <1>1, <3>1 DEF SaveLeg
    <3> QED BY <1>2, <2>1, <3>1, <3>2
  <2>3. CASE ConfirmRejected(p, f)
    <3>1. SaveLeg(f, 1, Rejected)
      BY <2>3 DEF ConfirmRejected
    <3>2. legs'[e][l].matched = legs[e][l].matched \/ legs'[e][l].matched = 0
      BY <1>1, <3>1 DEF SaveLeg, Rejected, Reported
    <3> QED BY <1>2, <2>1, <3>2
  <2> QED BY <1>6, <2>2, <2>3
<1>7. ASSUME NEW p \in Procs, Acts(p) PROVE e \in confirmed'
  BY <1>2, <1>3, <1>4, <1>5, <1>6, <1>7, RowSteps
<1>8. CASE Environment \/ UNCHANGED vars
  <2>1. plan' = plan /\ legs' = legs
    BY <1>8 DEF Environment, OperatorHalts, AbortIfFlat, OperatorBets, VenueMatches,
       VenueLapses, vars
  <2> QED BY <1>2, <2>1
<1> QED BY <1>7, <1>8 DEF Next, Acts

\* ExposureInv is inductive, given the invariants before it.
LEMMA ExposureStep == OrderInv /\ ExposureInv /\ [Next]_vars => ExposureInv'
<1> SUFFICES ASSUME OrderInv, ExposureInv, [Next]_vars PROVE ExposureInv'
  OBVIOUS
<1> DEFINE Backed(q) == pc[q] \in Submitting /\ job[q].slot = Rescue => Exposed(Run(q))
<1>1. /\ TypeInv /\ pc \in [Procs -> Steps] /\ job \in [Procs -> Job]
      /\ sent \in [Key -> Nat] /\ Rescue \notin Legs
      /\ \A q \in Procs : Backed(q)
      /\ \A q \in Procs : pc[q] \in Submitting => Run(q) \in Executions
  BY AtWorkTypes, Constants DEF OrderInv, TypeInv, DataOK, ProcsOK, ExposureInv, Submitting
<1>2. \A e \in Executions : Exposed(e) => Exposed(e)'
  BY ExposureStays
<1>3. ASSUME NEW q \in Procs,
             pc'[q] \in Submitting => pc[q] \in Submitting /\ job'[q].run = job[q].run
                                      /\ job'[q].slot = job[q].slot
      PROVE  Backed(q)'
  <2> SUFFICES ASSUME pc'[q] \in Submitting, job'[q].slot = Rescue PROVE Exposed(Run(q))'
    OBVIOUS
  <2>1. pc[q] \in Submitting /\ job[q].slot = Rescue /\ Run(q)' = Run(q)
    BY <1>3 DEF Run
  <2>2. PICK e \in Executions : e = Run(q)
    BY <1>1, <2>1
  <2>3. Exposed(e)' /\ Run(q)' = e
    BY <1>1, <1>2, <2>1, <2>2 DEF Exposed
  <2> QED BY <2>3 DEF Exposed
<1>4. ASSUME NEW p \in Procs, SubmitLeg(p) PROVE Backed(p)'
  <2>1. job'[p].slot = job[p].leg /\ job[p].leg \in Legs
    BY <1>1, <1>4 DEF SubmitLeg, AtLeg, Job
  <2> QED BY <1>1, <2>1
<1>5. ASSUME NEW p \in Procs, NEW v \in Venues, RouteRescue(p, v) PROVE Backed(p)'
  <2>1. /\ Run(p) \in Executions /\ job'[p].run = Run(p)
        /\ \E l \in Legs : legs[Run(p)][l].matched > 0
    BY <1>1, <1>5, AtWorkTypes DEF RouteRescue, Positive, Run, Job
  <2>2. PICK e \in Executions : e = Run(p)
    BY <2>1
  <2>3. Exposed(e)' /\ Run(p)' = e
    BY <1>2, <2>1, <2>2, StakesExpose DEF Run
  <2> QED BY <2>3 DEF Exposed
<1>6. ASSUME NEW p \in Procs, Acts(p), NEW q \in Procs PROVE Backed(q)'
  <2>1. CASE q = p
    BY <1>3, <1>4, <1>5, <1>6, <2>1, CarryingSteps DEF OrderInv, Carries
  <2>2. CASE q # p
    <3>1. pc'[q] = pc[q] /\ job'[q] = job[q]
      BY <1>1, <1>6, <2>2, OthersStay DEF Others
    <3> QED BY <1>3, <3>1
  <2> QED BY <2>1, <2>2
<1>7. ASSUME Environment \/ UNCHANGED vars, NEW q \in Procs PROVE Backed(q)'
  <2>1. pc' = pc /\ job' = job
    BY <1>7 DEF Environment, OperatorHalts, AbortIfFlat, OperatorBets, VenueMatches,
       VenueLapses, vars
  <2> QED BY <1>3, <2>1
<1>8. \A q \in Procs : Backed(q)'
  BY <1>6, <1>7 DEF Next, Acts
<1>9. RescueNeedsExposure'
  <2> SUFFICES ASSUME NEW k \in Key, sent'[k] > 0, k[2] = Rescue PROVE Exposed(k[1])'
    BY DEF RescueNeedsExposure, Exposed
  <2>0. PICK e \in Executions : e = k[1]
    BY DEF Key
  <2>1. CASE sent[k] > 0
    <3>1. Exposed(e)
      BY <2>0, <2>1 DEF ExposureInv, RescueNeedsExposure, Exposed
    <3>2. Exposed(e)'
      BY <1>2, <3>1
    <3> QED BY <2>0, <3>2 DEF Exposed
  <2>2. CASE ~(sent[k] > 0)
    <3>1. PICK p \in Procs : Send(p) \/ SendRaises(p)
      <4>1. sent' # sent
        BY <2>2
      <4>2. ASSUME NEW p \in Procs, Acts(p) PROVE Send(p) \/ SendRaises(p)
        BY <1>1, <4>1, <4>2, CalmSteps DEF Calm, CanaryAuthorized, venue
      <4>3. ~Environment /\ ~UNCHANGED vars
        BY <4>1 DEF Environment, OperatorHalts, AbortIfFlat, OperatorBets, VenueMatches,
           VenueLapses, vars, venue
      <4> QED BY <4>2, <4>3 DEF Next, Acts
    <3>2. pc[p] = "send" /\ K(p) = k
      BY <1>1, <2>2, <3>1 DEF Send, SendRaises
    <3>3. job[p].slot = Rescue /\ Run(p) = e
      BY <2>0, <3>2 DEF K, Run
    <3>4. Exposed(e)
      BY <1>1, <3>2, <3>3 DEF Submitting, Exposed
    <3>5. Exposed(e)'
      BY <1>2, <3>4
    <3> QED BY <2>0, <3>5 DEF Exposed
  <2> QED BY <2>1, <2>2
<1> HIDE DEF Backed
<1>10. \A e \in Executions, l \in Legs :
         legs'[e][l].matched > 0 /\ plan'[e].venue[l] = Retail => e \in confirmed'
  BY ReportsAreRecorded
<1> QED BY <1>8, <1>9, <1>10 DEF ExposureInv, Backed

\* A rescue order goes out only for a run that holds, or may hold, something:
\* its manual leg was reported accepted, or a leg of it was submitted before.
THEOREM RescuesFollowExposure == Spec => []RescueNeedsExposure
<1>1. Init => ExposureInv
  <2> SUFFICES ASSUME Init PROVE ExposureInv
    OBVIOUS
  <2> QED BY Constants DEF Init, ExposureInv, Submitting, RescueNeedsExposure
<1>2. ExposureInv => RescueNeedsExposure
  BY DEF ExposureInv
<1> QED BY <1>1, <1>2, OrderInit, OrderInvStep, ExposureStep, PTL DEF Spec
-----------------------------------------------------------------------------
(* The refinement *)

\* What the ledger claims of an order changes by one write, or not at all.
LEMMA ClaimSteps ==
  ASSUME TypeInv, RunInv, ClaimInv, Still, NEW p \in Procs, Acts(p)
  PROVE  Claimed' = Claimed \/ \E k \in Key : Intent!Claim(k)
<1>1. /\ legs \in [Executions -> [Slots -> LegRow]] /\ Legs \subseteq Slots
      /\ plan \in [Executions -> Plan] /\ \A k \in Key : k[1] \in Executions
  BY Constants DEF TypeInv, DataOK, Key
<1>2. ASSUME plan' = plan,
             \A e \in Executions, l \in Legs : legs'[e][l].matched = legs[e][l].matched
      PROVE  Claimed' = Claimed
  BY <1>1, <1>2 DEF Claimed, IsLegOf
<1>3. ASSUME NEW e \in Executions, legs' = legs, \A l \in Slots : legs[e][l] = NoRow,
             \A f \in Executions \ {e} : plan'[f] = plan[f]
      PROVE  Claimed' = Claimed
  <2>1. ASSUME NEW k \in Key PROVE Claimed'[k] = Claimed[k]
    <3>1. CASE k[1] = e
      BY <1>1, <1>3, <3>1 DEF Claimed, IsLegOf, NoRow
    <3>2. CASE k[1] # e
      BY <1>1, <1>3, <3>2 DEF Claimed, IsLegOf
    <3> QED BY <3>1, <3>2
  <2> QED BY <2>1 DEF Claimed
<1>4. ASSUME plan' = plan, NEW e \in Executions, NEW l \in Legs, NEW m \in Stakes,
             Writes(e, l, m)
      PROVE  \E k \in Key : Intent!Claim(k)
  <2> DEFINE k == <<e, l, plan[e].venue[l]>>
  <2>1. k \in Key
    <3>1. plan[e].venue[l] \in Venues \cup {Retail}
      BY <1>1 DEF Plan
    <3> QED BY <1>1, <3>1 DEF Key
  <2>2. Claimed'[k] = m
    BY <1>4, <2>1, WritesOneRow DEF Claimed, IsLegOf
  <2>3. ASSUME NEW j \in Key, j # k PROVE Claimed'[j] = Claimed[j]
    <3>1. IsLegOf(j)' <=> IsLegOf(j)
      BY <1>4 DEF IsLegOf
    <3>2. IsLegOf(j) => j[1] # e \/ j[2] # l
      BY <2>3 DEF IsLegOf, Key
    <3> QED BY <1>1, <1>4, <3>1, <3>2, WritesOneRow DEF Claimed, IsLegOf
  <2>4. Claimed' = [Claimed EXCEPT ![k] = Claimed'[k]]
    <3> HIDE DEF k
    <3>1. Claimed = [j \in Key |-> Claimed[j]] /\ Claimed' = [j \in Key |-> Claimed'[j]]
      BY DEF Claimed
    <3> QED BY <2>1, <2>3, <3>1
  <2>5. m \in 0..book[k].held
    <3>1. book[k].held \in Stakes
      BY <2>1 DEF TypeInv, DataOK, Book
    <3> QED BY <1>4, <3>1 DEF Writes, Held, Stakes, Full
  <2> QED BY <2>1, <2>2, <2>4, <2>5 DEF Intent!Claim, Still
<1>5. ASSUME plan' = plan, NEW e \in Executions, NEW r, SaveLeg(e, Rescue, r)
      PROVE  Claimed' = Claimed
  BY <1>2, <1>5, RescueRowIsApart
<1> QED BY <1>2, <1>3, <1>4, <1>5, RowWrites

\* No order is recorded, sent, held or claimed at first.
LEMMA IntentInit == Init => Intent!Init
<1> SUFFICES ASSUME Init PROVE Intent!Init
  OBVIOUS
<1>1. Claimed = [k \in Key |-> 0]
  <2>1. ASSUME NEW k \in Key PROVE Claimed[k] = 0
    BY DEF Init, Claimed, IsLegOf, Key, Legs, Slots
  <2> QED BY <2>1 DEF Claimed
<1> QED BY <1>1 DEF Init, Intent!Init

\* Each step is a step of one order, or concerns none.
LEMMA IntentStep == OrderInv /\ [Next]_vars => [Intent!Next]_(Intent!orders)
<1> SUFFICES ASSUME OrderInv, [Next]_vars PROVE [Intent!Next]_(Intent!orders)
  OBVIOUS
<1>1. ASSUME NEW k \in Key,
             Intent!Authorise(k) \/ Intent!Submit(k) \/ Intent!Match(k) \/ Intent!BetByHand(k)
             \/ Intent!Claim(k)
      PROVE  Intent!Next
  BY <1>1 DEF Intent!Next
<1>2. ASSUME Still, Claimed' = Claimed PROVE UNCHANGED Intent!orders
  BY <1>2 DEF Still, Intent!orders
<1>3. CASE Still
  <2>1. ASSUME NEW p \in Procs, Acts(p) PROVE [Intent!Next]_(Intent!orders)
    BY <1>1, <1>2, <1>3, <2>1, ClaimSteps DEF OrderInv
  <2>2. CASE Environment \/ UNCHANGED vars
    <3>1. plan' = plan /\ legs' = legs
      BY <2>2 DEF Environment, OperatorHalts, AbortIfFlat, OperatorBets, VenueMatches,
         VenueLapses, vars, ledger
    <3>2. Claimed' = Claimed
      BY <3>1 DEF Claimed, IsLegOf
    <3> QED BY <1>2, <1>3, <3>2
  <2> QED BY <2>1, <2>2 DEF Next, Acts
<1>4. CASE ~Still
  BY <1>1, <1>4, OrderSteps DEF OrderInv
<1> QED BY <1>3, <1>4

\* The execution core implements OrderIntent, for any number of executions,
\* processes and legs, with every crash, lost answer and departure from the
\* procedure that the model has.
THEOREM Implements == Spec => ImplementsOrderIntent
<1>1. Spec => Intent!Init /\ [][Intent!Next]_(Intent!orders)
  BY OrderInit, OrderInvStep, IntentInit, IntentStep, PTL DEF Spec
<1> QED BY <1>1 DEF ImplementsOrderIntent, Intent!Spec
-----------------------------------------------------------------------------
(* Where orders can be *)

\* An order is placed where the plan says, or as a rescue; a bet by hand only on
\* a first leg that the plan leaves to the operator. Only prepare asks for one.
KeyInv ==
  /\ \A k \in Key : sent[k] > 0 =>
       runStatus[k[1]] # "none" /\ (k[2] = Rescue \/ k[3] = plan[k[1]].venue[k[2]])
  /\ \A k \in Key : k[3] = Retail /\ book[k] # Untouched =>
       /\ runStatus[k[1]] # "none" /\ k[2] = 1 /\ plan[k[1]].venue[1] = Retail
       /\ ~book[k].resting
  /\ \A e \in Executions, l \in Slots :
       legs[e][l].status = "manual_required" =>
         runStatus[e] # "none" /\ l \in Legs /\ plan[e].venue[l] = Retail

\* The commands that write a run's status.
LEMMA StatusSteps ==
  ASSUME NEW p \in Procs, Acts(p)
  PROVE  \/ runStatus' = runStatus
         \/ PrepareCreate(p) \/ ResumeMark(p) \/ Orphan(p) \/ Settle(p) \/ ResolveMark(p)
<1> USE DEF ledger, venue, told
<1>1. CASE Step(p)
  BY <1>1 DEF Step, PrepareLock, PrepareRefused, PrepareLeg, PrepareUndo,
     ResumeHalted, ResumeChecked, LegRowMissing, SkipLeg, SubmitLeg, LegsDone,
     PreflightRefused, PreflightOk, GateRefused, CanaryRefused, CanaryAuthorized, Send,
     SendRaises, Reconcile, CancelRemainder, Requery, Save, Decide,
     RouteNoExposure, RouteImpossible, RouteCovered, RouteRescue,
     SetHalt, ReleaseLock, ClearHalt
<1>2. CASE PrepareError(p) \/ Crash(p) \/ \E e \in Executions : Command(p, e)
  BY <1>2 DEF PrepareError, Crash, Command, PrepareStart, ConfirmAccepted, ConfirmRejected,
     ResumeLoad, Resolve
<1> QED BY <1>1, <1>2 DEF Acts

\* A run that has a status keeps having one, and keeps its plan.
LEMMA KnownStays ==
  ASSUME TypeInv, RunInv, [Next]_vars, NEW e \in Executions, runStatus[e] # "none"
  PROVE  runStatus'[e] # "none" /\ plan'[e] = plan[e]
<1> USE DEF ledger, venue, told
<1>1. /\ runStatus \in [Executions -> RunStatus]
      /\ pc \in [Procs -> Steps] /\ job \in [Procs -> Job]
  BY DEF TypeInv, DataOK, ProcsOK
<1>2. ASSUME NEW p \in Procs, Acts(p) PROVE runStatus'[e] # "none" /\ plan'[e] = plan[e]
  <2>1. runStatus'[e] # "none"
    <3>1. CASE PrepareCreate(p) \/ ResumeMark(p) \/ Orphan(p) \/ ResolveMark(p)
      BY <1>1, <3>1 DEF PrepareCreate, ResumeMark, Orphan, ResolveMark, SetRun
    <3>2. CASE Settle(p)
      BY <1>1, <3>2 DEF Settle, SetRun, RunInv
    <3> QED BY <1>2, <3>1, <3>2, StatusSteps
  <2>2. plan'[e] = plan[e]
    <3>1. ASSUME NEW f \in Executions, PrepareStart(p, f) PROVE plan'[e] = plan[e]
      BY <3>1 DEF PrepareStart, Fresh
    <3> QED BY <1>2, <3>1, RowSteps DEF PrepareLeg, Save, ConfirmAccepted, ConfirmRejected
  <2> QED BY <2>1, <2>2
<1>3. CASE Environment \/ UNCHANGED vars
  BY <1>1, <1>3 DEF Environment, OperatorHalts, AbortIfFlat, SetRun, OperatorBets,
     VenueMatches, VenueLapses, vars
<1> QED BY <1>2, <1>3 DEF Next, Acts

\* KeyInv holds at first.
LEMMA KeyInit == Init => KeyInv
BY DEF Init, KeyInv

\* KeyInv is inductive, given the invariants above.
LEMMA KeyStep == OrderInv /\ KeyInv /\ [Next]_vars => KeyInv'
<1> SUFFICES ASSUME OrderInv, KeyInv, [Next]_vars PROVE KeyInv'
  OBVIOUS
<1> USE DEF ledger, venue, told
<1>1. /\ TypeInv /\ RunInv /\ OnceInv /\ BookInv /\ ClaimInv
      /\ book \in [Key -> Book] /\ sent \in [Key -> Nat]
      /\ legs \in [Executions -> [Slots -> LegRow]]
      /\ \A k \in Key : k[1] \in Executions
  BY DEF OrderInv, TypeInv, DataOK, Key
<1>2. \A e \in Executions : runStatus[e] # "none" => runStatus'[e] # "none" /\ plan'[e] = plan[e]
  BY <1>1, KnownStays
<1>3. ASSUME NEW p \in Procs, Send(p) \/ SendRaises(p)
      PROVE  /\ K(p) \in Key /\ K(p)[3] # Retail /\ runStatus[K(p)[1]] # "none"
             /\ K(p)[2] = Rescue \/ K(p)[3] = plan[K(p)[1]].venue[K(p)[2]]
             /\ sent' = [sent EXCEPT ![K(p)] = sent[K(p)] + 1]
             /\ \E b \in Book : book' = [book EXCEPT ![K(p)] = b]
  <2>1. pc[p] = "send" /\ sent' = [sent EXCEPT ![K(p)] = sent[K(p)] + 1]
    BY <1>3 DEF Send, SendRaises
  <2>2. K(p) \in Key /\ job[p].via \in Venues
    BY <1>1, <2>1, AtWorkTypes DEF TypeInv, ProcsOK, Sound, Submitting, K, Run
  <2>3. /\ runStatus[Run(p)] # "none"
        /\ job[p].slot # Rescue => job[p].via = plan[Run(p)].venue[job[p].slot]
    BY <1>1, <2>1 DEF RunInv, Known, Steps, ClaimInv, Submitting
  <2>4. book[K(p)] \in Book
    BY <1>1, <2>2
  <2>5. \E b \in Book : book' = [book EXCEPT ![K(p)] = b]
    <3>1. CASE Send(p)
      BY <2>4, <3>1, VenueTypes DEF Send
    <3>2. CASE SendRaises(p)
      BY <2>4, <3>2, VenueTypes DEF SendRaises
    <3> QED BY <1>3, <3>1, <3>2
  <2>6. K(p)[1] = Run(p) /\ K(p)[2] = job[p].slot /\ K(p)[3] = job[p].via
    BY DEF K, Run
  <2>7. K(p)[3] # Retail
    BY <2>2, <2>6, CoreAssumption
  <2>8. runStatus[K(p)[1]] # "none"
    BY <2>3, <2>6
  <2>9. K(p)[2] = Rescue \/ K(p)[3] = plan[K(p)[1]].venue[K(p)[2]]
    BY <2>3, <2>6
  <2>10. K(p) \in Key
    BY <2>2
  <2> QED BY <2>1, <2>5, <2>7, <2>8, <2>9, <2>10
<1>4. \A k \in Key : sent'[k] > 0 =>
        runStatus'[k[1]] # "none" /\ (k[2] = Rescue \/ k[3] = plan'[k[1]].venue[k[2]])
  <2>1. CASE sent' = sent
    BY <1>1, <1>2, <2>1 DEF KeyInv
  <2>2. ASSUME NEW p \in Procs, Send(p) \/ SendRaises(p)
        PROVE  \A k \in Key : sent'[k] > 0 =>
          runStatus'[k[1]] # "none" /\ (k[2] = Rescue \/ k[3] = plan'[k[1]].venue[k[2]])
    BY <1>1, <1>2, <1>3, <2>2 DEF KeyInv
  <2>3. ASSUME NEW p \in Procs, Acts(p) PROVE sent' = sent \/ Send(p) \/ SendRaises(p)
    BY <2>3, StillSteps DEF Still, CanaryAuthorized, CancelRemainder
  <2>4. CASE Environment \/ UNCHANGED vars
    BY <2>1, <2>4 DEF Environment, OperatorHalts, AbortIfFlat, OperatorBets,
       VenueMatches, VenueLapses, vars
  <2> QED BY <2>1, <2>2, <2>3, <2>4 DEF Next, Acts
<1>5. \A k \in Key : k[3] = Retail /\ book'[k] # Untouched =>
        /\ runStatus'[k[1]] # "none" /\ k[2] = 1 /\ plan'[k[1]].venue[1] = Retail
        /\ ~book'[k].resting
  <2> SUFFICES ASSUME NEW k \in Key, k[3] = Retail, book'[k] # Untouched
               PROVE  /\ runStatus'[k[1]] # "none" /\ k[2] = 1 /\ plan'[k[1]].venue[1] = Retail
                      /\ ~book'[k].resting
    OBVIOUS
  <2>1. CASE book'[k] = book[k]
    BY <1>1, <1>2, <2>1 DEF KeyInv
  <2>2. ASSUME NEW p \in Procs, Acts(p) PROVE book'[k] = book[k]
    <3>1. CASE Send(p) \/ SendRaises(p)
      BY <1>1, <1>3, <3>1
    <3>2. CASE CancelRemainder(p)
      <4>1. K(p) \in Key /\ K(p)[3] # Retail
        BY <1>1, <3>2, AtWorkTypes, CoreAssumption
           DEF CancelRemainder, TypeInv, ProcsOK, Sound, Submitting, K
      <4> QED BY <1>1, <3>2, <4>1 DEF CancelRemainder
    <3> QED BY <2>2, <3>1, <3>2, StillSteps DEF Still, CanaryAuthorized
  <2>3. ASSUME NEW e \in Executions, NEW m \in 1..Full, OperatorBets(e, m)
        PROVE  /\ runStatus'[k[1]] # "none" /\ k[2] = 1 /\ plan'[k[1]].venue[1] = Retail
               /\ ~book'[k].resting
    <3>1. CASE k # ManualKey(e)
      BY <1>1, <2>1, <2>3, <3>1 DEF OperatorBets
    <3>2. CASE k = ManualKey(e)
      <4>1. book'[k] = Closed(m) /\ k[1] = e /\ k[2] = 1 /\ ~Closed(m).resting
        BY <1>1, <2>3, <3>2 DEF OperatorBets, ManualKey, Closed
      <4>2. runStatus[e] # "none" /\ plan[e].venue[1] = Retail
        BY <2>3, Constants DEF OperatorBets, KeyInv
      <4> QED BY <1>2, <4>1, <4>2
    <3> QED BY <3>1, <3>2
  <2>4. ASSUME NEW j \in Key, VenueMatches(j) \/ VenueLapses(j) PROVE book'[k] = book[k]
    <3>1. j # k
      BY <2>4 DEF VenueMatches, VenueLapses, KeyInv, Untouched
    <3> QED BY <1>1, <2>4, <3>1 DEF VenueMatches, VenueLapses
  <2>5. CASE OperatorHalts \/ (\E e \in Executions : AbortIfFlat(e)) \/ UNCHANGED vars
    BY <2>1, <2>5 DEF OperatorHalts, AbortIfFlat, vars
  <2> QED BY <2>1, <2>2, <2>3, <2>4, <2>5 DEF Next, Acts, Environment
<1>6. \A e \in Executions, l \in Slots :
        legs'[e][l].status = "manual_required" =>
          runStatus'[e] # "none" /\ l \in Legs /\ plan'[e].venue[l] = Retail
  <2>1. CASE legs' = legs
    BY <1>2, <2>1 DEF KeyInv
  \* A row that is written with a status of its own.
  <2>2. ASSUME NEW f \in Executions, NEW i \in Slots, NEW r, SaveLeg(f, i, r),
               r.status = "manual_required" =>
                 runStatus[f] # "none" /\ i \in Legs /\ plan[f].venue[i] = Retail
        PROVE  \A e \in Executions, l \in Slots :
                 legs'[e][l].status = "manual_required" =>
                   runStatus'[e] # "none" /\ l \in Legs /\ plan'[e].venue[l] = Retail
    <3>1. legs'[f][i].status = r.status
          /\ \A e \in Executions, l \in Slots : e # f \/ l # i => legs'[e][l] = legs[e][l]
      BY <1>1, <2>2 DEF SaveLeg
    <3> QED BY <1>2, <2>2, <3>1 DEF KeyInv
  <2>3. ASSUME NEW p \in Procs, PrepareLeg(p)
        PROVE  \E r : /\ SaveLeg(Run(p), job[p].leg, r)
                      /\ Run(p) \in Executions /\ job[p].leg \in Slots
                      /\ r.status = "manual_required" =>
                           /\ runStatus[Run(p)] # "none" /\ job[p].leg \in Legs
                           /\ plan[Run(p)].venue[job[p].leg] = Retail
    <3>1. pc[p] = "legs" /\ Run(p) \in Executions /\ job[p].leg \in Legs
          /\ job[p].leg \in Slots /\ runStatus[Run(p)] # "none"
      BY <1>1, <2>3, Constants
         DEF PrepareLeg, TypeInv, ProcsOK, Sound, Preparing, Run, RunInv, Known, Steps
    <3> DEFINE s == IF plan[Run(p)].venue[job[p].leg] = Retail
                    THEN "manual_required" ELSE "prepared"
    <3>2. SaveLeg(Run(p), job[p].leg, Reported(s, 0)) /\ Reported(s, 0).status = s
      BY <2>3 DEF PrepareLeg, Reported
    <3> QED BY <3>1, <3>2
  <2>4. ASSUME NEW p \in Procs, Save(p)
        PROVE  \E r : /\ SaveLeg(Run(p), job[p].slot, r)
                      /\ Run(p) \in Executions /\ job[p].slot \in Slots
                      /\ r.status # "manual_required"
    <3>1. job[p].res.status \in ResultStatus /\ Run(p) \in Executions /\ job[p].slot \in Slots
      BY <1>1, <2>4, AtWorkTypes DEF Save, Job, Result
    <3> QED BY <2>4, <3>1 DEF Save, Run, ResultStatus
  <2>5. ASSUME NEW p \in Procs, NEW e \in Executions,
               ConfirmAccepted(p, e) \/ ConfirmRejected(p, e)
        PROVE  \E r : SaveLeg(e, 1, r) /\ r.status # "manual_required"
    BY <2>5 DEF ConfirmAccepted, ConfirmRejected, Reported, Rejected
  <2>6. ASSUME NEW p \in Procs, Acts(p)
        PROVE  \/ legs' = legs
               \/ PrepareLeg(p) \/ Save(p)
               \/ \E e \in Executions : ConfirmAccepted(p, e) \/ ConfirmRejected(p, e)
    BY <2>6, RowSteps DEF PrepareStart
  <2>7. CASE Environment \/ UNCHANGED vars
    BY <2>1, <2>7 DEF Environment, OperatorHalts, AbortIfFlat, OperatorBets,
       VenueMatches, VenueLapses, vars
  <2> QED BY <2>1, <2>2, <2>3, <2>4, <2>5, <2>6, <2>7, Constants DEF Next, Acts
<1> QED BY <1>4, <1>5, <1>6 DEF KeyInv
-----------------------------------------------------------------------------
(* One command at a time, at venues that keep their word *)

\* The conditions of CoordinatorSerial: besides one command at a time, orders are
\* filled or killed where the venue offers it, a cancel takes the remainder, and
\* what Betfair reports as no success has not reached its book.
Orderly == Serial /\ FillOrKill /\ PromptCancel /\ ~LateReports

\* A row, or a result, tells all there is to know of an order.
Tells(r, b) == r.matched = b.held /\ ~b.resting /\ (r.status = "accepted" => r.matched = Full)

Own(e, l)     == <<e, l, plan[e].venue[l]>>
Told(e, l)    == Tells(legs[e][l], book[Own(e, l)])
AllTold(e)    == \A l \in Legs : Told(e, l)
Vouched(e)    == \A l \in Legs :
                   Told(e, l) \/ legs[e][l].status \in {"unknown", "manual_required"}
Laid(e)       == \A l \in Legs : legs[e][l].status # "absent"
NotSent(e, l) == sent[Own(e, l)] = 0
Unsent(e)     == \A k \in Key : k[1] = e => sent[k] = 0
Unrescued(e)  == \A v \in Venues : sent[<<e, Rescue, v>>] = 0

\* A run before its first order: only a bet by hand may have gone unreported.
Early(e) ==
  /\ Unsent(e) /\ legs[e][Rescue] = NoRow
  /\ \A l \in Legs : Told(e, l) \/ (l = 1 /\ legs[e][1].status = "manual_required")
Ready(e) == Unsent(e) /\ legs[e][Rescue] = NoRow /\ AllTold(e) /\ Laid(e)

\* RescuedIsCovered of one run.
Bought(e) == {v \in Venues : book[<<e, Rescue, v>>].held > 0}
Open(e)   == {l \in Legs : Held(e, l) = 0}
Closing(e) ==
  /\ Cardinality(Open(e)) = Cardinality(Bought(e))
  /\ Cardinality(Open(e)) <= 1
  /\ \A v \in Bought(e) : book[<<e, Rescue, v>>].held = Full

\* What a status says of a run.
Fits(e, s) ==
  /\ Vouched(e)
  /\ s = "waiting_manual" => Early(e) /\ Laid(e)
  /\ s \in {"prepared", "rescuing"} => Ready(e)
  /\ s # "executing"
  /\ s = "completed" => \A l \in Legs : Held(e, l) = Full /\ Told(e, l)
  /\ s = "rescued" =>
       AllTold(e) /\ Closing(e) /\ \A v \in Venues : ~book[<<e, Rescue, v>>].resting
  /\ s = "aborted" => e \in neutralised \/ Flat(e)

Standing(e) == \A s \in RunStatus : runStatus[e] = s => Fits(e, s)

Asking == {"preflight", "gate", "send"}      \* the venue has not been asked yet
Asked  == {"reconcile", "cancel", "save"}    \* it has, or will not be

\* A leg that was sent and not accepted has opened its venue's breaker.
Broken(p, e, l) ==
  \A v \in Venues : sent[<<e, l, v>>] > 0 =>
    legs[e][l].status = "accepted" \/ v \in job[p].tripped

\* A command on its way to its orders.
Coming(p, e) ==
  /\ pc[p] \in {"lock", "create"} => job[p].leg = 1
  /\ pc[p] = "legs" =>
       /\ runStatus[e] = IF HasManual(e) THEN "waiting_manual" ELSE "prepared"
       /\ Early(e)
       /\ \A l \in Legs : IF l < job[p].leg THEN legs[e][l].status # "absent"
                                            ELSE legs[e][l] = NoRow
  /\ pc[p] = "halt_check" =>
       runStatus[e] \in {"prepared", "rescuing", "emergency"} /\ Standing(e)
  /\ pc[p] = "mark" => Ready(e)
  /\ pc[p] \in {"mark", "leg", "orphan", "route"} \cup Submitting =>
       runStatus[e] \notin Terminal \cup {"waiting_manual"}

\* A command in its loop over the legs.
Looping(p, e) ==
  /\ pc[p] = "leg" \/ (pc[p] \in Asking /\ job[p].slot # Rescue) =>
       /\ Laid(e) /\ legs[e][Rescue] = NoRow /\ Unrescued(e)
       /\ \A l \in Legs : Told(e, l) /\ Broken(p, e, l)
       /\ \A l \in Legs : l >= job[p].leg => NotSent(e, l)
  /\ pc[p] \in Asked /\ job[p].slot # Rescue =>
       /\ Laid(e) /\ legs[e][Rescue] = NoRow /\ Unrescued(e)
       /\ \A l \in Legs : l # job[p].slot => Told(e, l) /\ Broken(p, e, l)
       /\ \A l \in Legs : l > job[p].leg => NotSent(e, l)

\* A command in _rescue.
Rescuing(p, e) ==
  /\ pc[p] \in {"orphan", "route"} \/ (pc[p] \in Asking /\ job[p].slot = Rescue) =>
       Unrescued(e) /\ \A l \in Legs : Told(e, l) /\ Broken(p, e, l)
  /\ pc[p] \in Submitting /\ job[p].slot = Rescue =>
       /\ AllTold(e) /\ Cardinality(Missing(e)) = 1
       /\ \A v \in Venues : v # job[p].via => sent[<<e, Rescue, v>>] = 0

\* What a command knows of the order in its hand. Once orders are filled or
\* killed, no answer is ever "pending", so that nothing is looked up again.
InHand(p) ==
  LET b == book[K(p)]  r == job[p].res IN
  /\ pc[p] \in {"gate", "send"} => job[p].via \notin job[p].tripped
  /\ pc[p] = "reconcile" =>
       /\ job[p].via \in job[p].tripped
       /\ job[p].via \in RefVenues => ~b.resting /\ (b.received => b.held \in {0, Full})
  /\ pc[p] = "cancel" => r.status = "partially_matched"
  /\ pc[p] # "requery"
  /\ pc[p] \in {"cancel", "save"} =>
       /\ r.status = "unknown" \/ Tells(r, b)
       /\ sent[K(p)] > 0 /\ r.status # "accepted" => job[p].via \in job[p].tripped

\* A command on its way out.
Leaving(p, e) ==
  /\ pc[p] = "settle" =>
       /\ \A s \in RunStatus : job[p].verdict = s => Fits(e, s)
       /\ runStatus[e] \notin Terminal
       /\ runStatus[e] = "waiting_manual" => legs[e][1].status # "manual_required"
  /\ pc[p] = "set_halt" => runStatus[e] = "emergency" /\ Standing(e)
  /\ pc[p] = "release"  => Standing(e)
  /\ pc[p] = "resolve" => e \in neutralised /\ Standing(e)
  /\ pc[p] = "clear_halt" => runStatus[e] = "aborted" /\ Standing(e)

Working(p, e) == Coming(p, e) /\ Looping(p, e) /\ Rescuing(p, e) /\ InHand(p) /\ Leaving(p, e)

\* What the five statuses promise is not inductive: it rests on what a command
\* knows at each of its steps of the run it works on.
SerialInv ==
  /\ \A p \in Procs : pc[p] = "idle" => Run(p) = None
  /\ \A e \in Executions : ~AtWork(e) => Standing(e)
  /\ \A p \in Procs, e \in Executions : Run(p) = e => Working(p, e)

\* All the invariants it is inductive with.
BaseInv == OrderInv /\ KeyInv /\ GateInv
-----------------------------------------------------------------------------
(* What is known of orders and results *)

\* The keys of a run's orders, and the types of its rows and books.
LEMMA RunTypes ==
  ASSUME BaseInv, NEW e \in Executions
  PROVE  /\ \A l \in Legs :
              /\ l \in Slots /\ l # Rescue /\ plan[e].venue[l] \in Venues \cup {Retail}
              /\ Own(e, l) \in Key /\ book[Own(e, l)] \in Book /\ legs[e][l] \in LegRow
              /\ sent[Own(e, l)] \in Nat
              /\ \A v \in Venues : <<e, l, v>> \in Key /\ sent[<<e, l, v>>] \in Nat
         /\ \A v \in Venues :
              /\ <<e, Rescue, v>> \in Key /\ book[<<e, Rescue, v>>] \in Book
              /\ sent[<<e, Rescue, v>>] \in Nat
         /\ ManualKey(e) \in Key /\ book[ManualKey(e)] \in Book
         /\ runStatus[e] \in RunStatus /\ legs[e] \in [Slots -> LegRow]
         /\ e # None
<1>1. /\ plan \in [Executions -> Plan] /\ legs \in [Executions -> [Slots -> LegRow]]
      /\ book \in [Key -> Book] /\ sent \in [Key -> Nat]
      /\ runStatus \in [Executions -> RunStatus]
  BY DEF BaseInv, OrderInv, TypeInv, DataOK
<1>2. \A l \in Slots, v \in Venues \cup {Retail} : <<e, l, v>> \in Key
  BY DEF Key
<1>3. \A l \in Legs : l \in Slots /\ l # Rescue /\ plan[e].venue[l] \in Venues \cup {Retail}
  BY <1>1, Constants DEF Plan
<1>4. Rescue \in Slots /\ 1 \in Slots
  BY Constants
<1>5. \A l \in Legs : Own(e, l) \in Key
  BY <1>2, <1>3 DEF Own
<1>6. ManualKey(e) \in Key
  BY <1>2, <1>4 DEF ManualKey
<1> QED BY <1>1, <1>2, <1>3, <1>4, <1>5, <1>6, CoreAssumption

\* An order of a run that holds anything was sent as the plan says, or as a
\* rescue, or was bet by hand on the first leg.
LEMMA Touched ==
  ASSUME BaseInv, NEW k \in Key, book[k] # Untouched
  PROVE  /\ runStatus[k[1]] # "none"
         /\ \/ sent[k] > 0 /\ k[2] = Rescue /\ k[3] \in Venues
            \/ sent[k] > 0 /\ k[2] \in Legs /\ k = Own(k[1], k[2])
            \/ k = ManualKey(k[1]) /\ k = Own(k[1], 1) /\ ~book[k].resting
<1>1. /\ k = <<k[1], k[2], k[3]>> /\ k[2] \in Slots /\ k[3] \in Venues \cup {Retail}
      /\ sent[k] \in Nat /\ k[1] \in Executions
  BY DEF BaseInv, OrderInv, TypeInv, DataOK, Key
<1>2. k[2] # Rescue => k[2] \in Legs
  BY <1>1 DEF Slots, Legs, Rescue
<1>3. CASE k[3] = Retail
  <2>1. runStatus[k[1]] # "none" /\ k[2] = 1 /\ plan[k[1]].venue[1] = Retail /\ ~book[k].resting
    BY <1>3 DEF BaseInv, KeyInv
  <2> QED BY <1>1, <1>3, <2>1 DEF ManualKey, Own
<1>4. CASE k[3] # Retail
  <2>1. sent[k] > 0
    BY <1>1, <1>4 DEF BaseInv, OrderInv, BookInv
  <2>2. runStatus[k[1]] # "none" /\ (k[2] = Rescue \/ k[3] = plan[k[1]].venue[k[2]])
    BY <2>1 DEF BaseInv, KeyInv
  <2> QED BY <1>1, <1>2, <1>4, <2>1, <2>2 DEF Own
<1> QED BY <1>3, <1>4

\* Before its first order a run holds at most its bet by hand.
LEMMA UnsentMeans ==
  ASSUME BaseInv, NEW e \in Executions, Unsent(e)
  PROVE  /\ Unrescued(e)
         /\ \A l \in Legs : NotSent(e, l) /\ \A p \in Procs : Broken(p, e, l)
         /\ \A l \in Legs : book[Own(e, l)] # Untouched =>
              l = 1 /\ Own(e, l) = ManualKey(e) /\ ~book[ManualKey(e)].resting
         /\ book[ManualKey(e)].held = 0 => Flat(e)
<1>1. Unrescued(e)
  BY RunTypes DEF Unsent, Unrescued
<1>2. \A l \in Legs : NotSent(e, l) /\ \A p \in Procs : Broken(p, e, l)
  BY RunTypes DEF Unsent, NotSent, Broken, Own
<1>3. ASSUME NEW k \in Key, k[1] = e, book[k] # Untouched
      PROVE  k = ManualKey(e) /\ k = Own(e, 1) /\ ~book[k].resting
  BY <1>3, Touched DEF Unsent
<1>4. ASSUME NEW l \in Legs, book[Own(e, l)] # Untouched
      PROVE  l = 1 /\ Own(e, l) = ManualKey(e) /\ ~book[ManualKey(e)].resting
  <2>1. Own(e, l) \in Key /\ Own(e, l)[1] = e /\ Own(e, l)[2] = l
    BY RunTypes DEF Own
  <2> QED BY <1>3, <1>4, <2>1 DEF ManualKey
<1>5. ASSUME book[ManualKey(e)].held = 0, NEW k \in Key, k[1] = e
      PROVE  book[k].held = 0 /\ ~book[k].resting
  BY <1>3, <1>5 DEF Untouched
<1> QED BY <1>1, <1>2, <1>4, <1>5 DEF Flat

\* A run without a status has no rows, and its venues hold nothing of it.
LEMMA FreshRun ==
  ASSUME BaseInv, NEW e \in Executions, runStatus[e] = "none"
  PROVE  Unsent(e) /\ AllTold(e) /\ Fits(e, "none") /\ \A l \in Slots : legs[e][l] = NoRow
<1>1. \A l \in Slots : legs[e][l] = NoRow
  BY DEF BaseInv, OrderInv, RunInv
<1>2. Unsent(e)
  BY DEF BaseInv, KeyInv, Unsent, OrderInv, TypeInv, DataOK
<1>3. \A l \in Legs : Told(e, l)
  <2> SUFFICES ASSUME NEW l \in Legs PROVE Told(e, l)
    OBVIOUS
  <2>1. Own(e, l) \in Key /\ Own(e, l)[1] = e /\ l \in Slots
    BY RunTypes DEF Own
  <2>2. book[Own(e, l)] = Untouched
    BY <2>1, Touched
  <2> QED BY <1>1, <2>1, <2>2 DEF Told, Tells, NoRow, Untouched
<1> QED BY <1>1, <1>2, <1>3 DEF AllTold, Fits, Vouched

\* A run whose legs are told to hold nothing, and that has no rescue, is flat.
LEMMA ToldFlat ==
  ASSUME BaseInv, NEW e \in Executions, AllTold(e), Unrescued(e),
         \A l \in Legs : legs[e][l].matched = 0
  PROVE  Flat(e)
<1> SUFFICES ASSUME NEW k \in Key, k[1] = e PROVE book[k].held = 0 /\ ~book[k].resting
  BY DEF Flat
<1>1. CASE book[k] = Untouched
  BY <1>1 DEF Untouched
<1>2. CASE book[k] # Untouched
  <2>1. ~(sent[k] > 0 /\ k[2] = Rescue /\ k[3] \in Venues)
    <3>1. k = <<k[1], k[2], k[3]>>
      BY DEF Key
    <3> QED BY <3>1 DEF Unrescued
  <2>2. \E l \in Legs : k = Own(e, l)
    BY <1>2, <2>1, Touched, Constants
  <2> QED BY <2>2 DEF AllTold, Told, Tells
<1> QED BY <1>1, <1>2

\* A prompt venue never reports an order as pending; unless it does not know,
\* its answer tells what it holds.
LEMMA PromptReplies ==
  ASSUME FillOrKill, PromptCancel, ~LateReports, NEW v
  PROVE  /\ \A r \in PlaceReplies(v) :
              /\ r.result.status \in ResultStatus \ {"pending"}
              /\ r.result.status = "unknown" \/ Tells(r.result, r.book)
         /\ v \in RefVenues => \A b \in LostBooks(v) :
              ~b.resting /\ (b.received => b.held \in {0, Full})
<1>1. \A r \in BetfairPlace :
        r.result.status \in ResultStatus \ {"pending"} /\ Tells(r.result, r.book)
  BY DEF BetfairPlace, Reply, Reported, Untouched, Closed, Tells, ResultStatus, Full
<1>2. \A r \in BetFlagPlace :
        /\ r.result.status \in ResultStatus \ {"pending"}
        /\ r.result.status = "unknown" \/ Tells(r.result, r.book)
  <2>1. \A b : Reply("unknown", 0, b).result.status = "unknown"
    BY DEF Reply, Reported
  <2>2. ASSUME NEW r \in BetFlagPlace
        PROVE  \/ r = Reply("accepted", Full, Closed(Full))
               \/ r = Reply("partially_matched", 1, Closed(1))
               \/ r = Reply("cancelled", 0, Closed(0))
               \/ \E b : r = Reply("unknown", 0, b)
    BY DEF BetFlagPlace
  <2>3. \A s, m : s # "accepted" \/ m = Full => Tells(Reported(s, m), Closed(m))
    BY DEF Reported, Closed, Tells
  <2>4. \A s, m, b : Reply(s, m, b).result = Reported(s, m) /\ Reply(s, m, b).book = b
                     /\ Reported(s, m).status = s
    BY DEF Reply, Reported
  <2> QED BY <2>1, <2>2, <2>3, <2>4 DEF ResultStatus
<1>3. v \in RefVenues => \A b \in LostBooks(v) :
        ~b.resting /\ (b.received => b.held \in {0, Full})
  BY DEF LostBooks, BetfairBooks, Untouched, Closed
<1> QED BY <1>1, <1>2, <1>3 DEF PlaceReplies

\* So does its look-up of an order that does not rest.
LEMMA PromptLookUps ==
  ASSUME NEW v, NEW b \in Book, NEW r \in ReconcileResults(v, b),
         v \in RefVenues => ~b.resting /\ (b.received => b.held \in {0, Full})
  PROVE  /\ r.status \in {"unknown", "accepted", "cancelled"}
         /\ r.status = "unknown" \/ Tells(r, b)
BY DEF ReconcileResults, RowResult, Unknown, Reported, Tells, Full, Book, Stakes
-----------------------------------------------------------------------------
(* Steps that leave a run alone *)

\* The plan, the rows and the orders of a run stay as they are, but for what its
\* resting orders do by themselves.
Kept(e) ==
  /\ plan'[e] = plan[e] /\ legs'[e] = legs[e]
  /\ \A k \in Key : k[1] = e => sent'[k] = sent[k] /\ (~book[k].resting => book'[k] = book[k])
  /\ e \in neutralised => e \in neutralised'

\* What such a step keeps of a run: everything that is told of it.
LEMMA Keeps ==
  ASSUME BaseInv, NEW e \in Executions, Kept(e)
  PROVE  /\ \A l \in Legs :
              /\ Own(e, l)' = Own(e, l) /\ (NotSent(e, l) => NotSent(e, l)')
              /\ Told(e, l) => Told(e, l)' /\ Held(e, l)' = Held(e, l)
         /\ Vouched(e) => Vouched(e)'
         /\ Unsent(e) => Unsent(e)'
         /\ Unrescued(e) => Unrescued(e)'
         /\ Early(e) => Early(e)'
         /\ Ready(e) => Ready(e)'
         /\ Flat(e) => Flat(e)'
         /\ AllTold(e) => AllTold(e)'
         /\ (Laid(e) <=> Laid(e)') /\ (HasManual(e) <=> HasManual(e)')
         /\ Missing(e)' = Missing(e)
<1>1. \A l \in Legs : Own(e, l)' = Own(e, l) /\ Own(e, l) \in Key /\ Own(e, l)[1] = e
  BY RunTypes DEF Own, Kept
<1>2. \A l \in Legs : NotSent(e, l) => NotSent(e, l)'
  BY <1>1 DEF NotSent, Kept
<1>3. ASSUME NEW l \in Legs, Told(e, l) PROVE Told(e, l)' /\ Held(e, l)' = Held(e, l)
  <2>1. ~book[Own(e, l)].resting
    BY <1>3 DEF Told, Tells
  <2>2. book'[Own(e, l)] = book[Own(e, l)]
    BY <1>1, <2>1 DEF Kept
  <2>3. Told(e, l)'
    BY <1>1, <1>3, <2>2 DEF Told, Tells, Kept
  <2>4. Held(e, l)' = Held(e, l)
    BY <1>1, <2>2 DEF Held, Own
  <2> QED BY <2>3, <2>4
<1>4. legs'[e] = legs[e]
  BY DEF Kept
<1>5. Vouched(e) => Vouched(e)'
  BY <1>3, <1>4 DEF Vouched
<1>6. Unsent(e) => Unsent(e)'
  BY DEF Unsent, Kept
<1>7. Unrescued(e) => Unrescued(e)'
  BY RunTypes DEF Unrescued, Kept
<1>8. Early(e) => Early(e)'
  BY <1>3, <1>4, <1>6 DEF Early
<1>9. (Laid(e) <=> Laid(e)') /\ (AllTold(e) => AllTold(e)')
  BY <1>3, <1>4 DEF Laid, AllTold
<1>10. Ready(e) => Ready(e)'
  BY <1>4, <1>6, <1>9 DEF Ready
<1>11. Flat(e) => Flat(e)'
  BY DEF Flat, Kept
<1>12. Missing(e)' = Missing(e)
  BY <1>4 DEF Missing, Positive
<1>13. HasManual(e) <=> HasManual(e)'
  BY DEF HasManual, Kept
<1> QED BY <1>1, <1>2, <1>3, <1>5, <1>6, <1>7, <1>8, <1>9, <1>10, <1>11, <1>12, <1>13

\* And whatever status fits it.
LEMMA KeepsFit ==
  ASSUME BaseInv, NEW e \in Executions, Kept(e), NEW s \in RunStatus, Fits(e, s)
  PROVE  Fits(e, s)'
<1>1. (Vouched(e) => Vouched(e)') /\ (Early(e) => Early(e)') /\ (Laid(e) => Laid(e)')
      /\ (Ready(e) => Ready(e)') /\ (AllTold(e) => AllTold(e)') /\ (Flat(e) => Flat(e)')
  BY Keeps
<1>2. \A l \in Legs : Told(e, l) => Told(e, l)' /\ Held(e, l)' = Held(e, l)
  BY Keeps
<1>3. e \in neutralised => e \in neutralised'
  BY DEF Kept
<1>4. ASSUME s = "rescued"
      PROVE  AllTold(e)' /\ Closing(e)' /\ \A v \in Venues : ~book'[<<e, Rescue, v>>].resting
  <2>1. AllTold(e) /\ Closing(e) /\ \A v \in Venues : ~book[<<e, Rescue, v>>].resting
    BY <1>4 DEF Fits
  <2>2. \A v \in Venues : book'[<<e, Rescue, v>>] = book[<<e, Rescue, v>>]
    BY <2>1, RunTypes DEF Kept
  <2>3. Open(e)' = Open(e)
    BY <1>2, <2>1 DEF AllTold, Open
  <2>4. Bought(e)' = Bought(e) /\ \A v \in Bought(e) : v \in Venues
    BY <2>2 DEF Bought
  <2>5. Closing(e)'
    BY <2>1, <2>2, <2>3, <2>4 DEF Closing
  <2> QED BY <1>1, <2>1, <2>2, <2>5
<1> QED BY <1>1, <1>2, <1>3, <1>4 DEF Fits

\* A run that is left alone, status and all, goes on standing where it stood.
LEMMA KeepsStanding ==
  ASSUME BaseInv, NEW e \in Executions, Kept(e), runStatus'[e] = runStatus[e], Standing(e)
  PROVE  Standing(e)'
BY KeepsFit DEF Standing

\* So does what is said of its broken venues.
LEMMA KeepsBroken ==
  ASSUME BaseInv, NEW e \in Executions, Kept(e), NEW p \in Procs,
         job[p].tripped \subseteq job'[p].tripped, NEW l \in Legs, Broken(p, e, l)
  PROVE  Broken(p, e, l)'
BY RunTypes DEF Broken, Kept

\* And a command that works on it and does not move.
LEMMA KeepsWorking ==
  ASSUME BaseInv, NEW e \in Executions, Kept(e), runStatus'[e] = runStatus[e],
         NEW p \in Procs, pc'[p] = pc[p], job'[p] = job[p],
         Run(p) = e, Working(p, e)
  PROVE  Working(p, e)'
<1>1. /\ legs'[e] = legs[e] /\ (e \in neutralised => e \in neutralised')
      /\ \A l \in Legs : Broken(p, e, l) => Broken(p, e, l)'
  BY KeepsBroken DEF Kept
<1>2. Standing(e) => Standing(e)'
  BY KeepsStanding
<1>3. \A s \in RunStatus : Fits(e, s) => Fits(e, s)'
  BY KeepsFit
<1>4. Coming(p, e)'
  <2>1. /\ (Early(e) => Early(e)') /\ (Ready(e) => Ready(e)')
        /\ HasManual(e) <=> HasManual(e)'
    BY Keeps
  <2>2. Coming(p, e)
    BY DEF Working
  <2>3. CASE pc[p] = "legs"
    BY <1>1, <2>1, <2>2, <2>3 DEF Coming, Submitting
  <2>4. CASE pc[p] # "legs"
    BY <1>1, <1>2, <2>1, <2>2, <2>4 DEF Coming
  <2> QED BY <2>3, <2>4
<1>5. Looping(p, e)' /\ Rescuing(p, e)'
  <2>1. /\ \A l \in Legs : (Told(e, l) => Told(e, l)') /\ (NotSent(e, l) => NotSent(e, l)')
        /\ (Laid(e) => Laid(e)') /\ (Unrescued(e) => Unrescued(e)')
        /\ (AllTold(e) => AllTold(e)') /\ Missing(e)' = Missing(e)
    BY Keeps
  <2>2. \A v \in Venues : sent'[<<e, Rescue, v>>] = sent[<<e, Rescue, v>>]
    BY RunTypes DEF Kept
  <2>3. Looping(p, e)'
    BY <1>1, <2>1 DEF Looping, Working
  <2>4. Rescuing(p, e)'
    BY <1>1, <2>1, <2>2 DEF Rescuing, Working
  <2> QED BY <2>3, <2>4
<1>6. InHand(p)'
  <2>1. K(p)' = K(p) /\ K(p)[1] = e
    BY DEF K, Run
  <2>2. CASE pc[p] \in Submitting
    <3>1. K(p) \in Key
      BY <2>2, AtWorkTypes DEF BaseInv, OrderInv, Submitting
    <3>2. sent'[K(p)] = sent[K(p)] /\ (~book[K(p)].resting => book'[K(p)] = book[K(p)])
      BY <2>1, <3>1 DEF Kept
    <3> QED BY <2>1, <3>2 DEF InHand, Working, Tells
  <2>3. CASE pc[p] \notin Submitting
    BY <2>3 DEF InHand, Submitting
  <2> QED BY <2>2, <2>3
<1>7. Leaving(p, e)'
  <2>1. Vouched(e) => Vouched(e)'
    BY Keeps
  <2> QED BY <1>1, <1>2, <1>3, <2>1 DEF Leaving, Working
<1> QED BY <1>4, <1>5, <1>6, <1>7 DEF Working

\* A command writes rows and asks venues only about the run it works on.
LEMMA KeptSteps ==
  ASSUME BaseInv, NEW p \in Procs, Acts(p), NEW e \in Executions
  PROVE  \/ Kept(e)
         \/ /\ Run(p) = e
            /\ PrepareLeg(p) \/ Send(p) \/ SendRaises(p) \/ CancelRemainder(p) \/ Save(p)
         \/ PrepareStart(p, e) \/ ConfirmAccepted(p, e) \/ ConfirmRejected(p, e)
<1> USE DEF ledger, venue, told
<1>1. /\ TypeInv /\ plan \in [Executions -> Plan] /\ legs \in [Executions -> [Slots -> LegRow]]
      /\ book \in [Key -> Book] /\ sent \in [Key -> Nat]
  BY DEF BaseInv, OrderInv, TypeInv, DataOK
<1>2. \/ plan'[e] = plan[e] /\ legs'[e] = legs[e]
      \/ Run(p) = e /\ (PrepareLeg(p) \/ Save(p))
      \/ PrepareStart(p, e) \/ ConfirmAccepted(p, e) \/ ConfirmRejected(p, e)
  <2>1. CASE PrepareLeg(p) \/ Save(p)
    BY <1>1, <2>1 DEF PrepareLeg, Save, SaveLeg, Run
  <2>2. ASSUME NEW f \in Executions,
               PrepareStart(p, f) \/ ConfirmAccepted(p, f) \/ ConfirmRejected(p, f), f # e
        PROVE  plan'[e] = plan[e] /\ legs'[e] = legs[e]
    BY <1>1, <2>2 DEF PrepareStart, ConfirmAccepted, ConfirmRejected, SaveLeg
  <2> QED BY <2>1, <2>2, RowSteps
<1>3. \/ \A k \in Key : k[1] = e => sent'[k] = sent[k] /\ book'[k] = book[k]
      \/ Run(p) = e /\ (Send(p) \/ SendRaises(p) \/ CancelRemainder(p))
  <2>1. K(p)[1] = Run(p)
    BY DEF K, Run
  <2>2. ASSUME Run(p) # e, Send(p) \/ SendRaises(p) \/ CancelRemainder(p)
        PROVE  \A k \in Key : k[1] = e => sent'[k] = sent[k] /\ book'[k] = book[k]
    BY <1>1, <2>1, <2>2 DEF Send, SendRaises, CancelRemainder
  <2> QED BY <2>2, StillSteps DEF Still, CanaryAuthorized
<1>4. e \in neutralised => e \in neutralised'
  <2>1. CASE Step(p)
    BY <2>1 DEF Step, PrepareLock, PrepareCreate, PrepareRefused, PrepareLeg, PrepareUndo,
       ResumeHalted, ResumeChecked, ResumeMark, LegRowMissing, SkipLeg, SubmitLeg, LegsDone,
       PreflightRefused, PreflightOk, GateRefused, CanaryRefused, CanaryAuthorized, Send,
       SendRaises, Reconcile, CancelRemainder, Requery, Save, Orphan, Decide,
       RouteNoExposure, RouteImpossible, RouteCovered, RouteRescue, Settle,
       SetHalt, ReleaseLock, ResolveMark, ClearHalt
  <2>2. CASE PrepareError(p) \/ Crash(p) \/ \E f \in Executions : Command(p, f)
    BY <2>2 DEF PrepareError, Crash, Command, PrepareStart, ConfirmAccepted, ConfirmRejected,
       ResumeLoad, Resolve
  <2> QED BY <2>1, <2>2 DEF Acts
<1> QED BY <1>2, <1>3, <1>4 DEF Kept
-----------------------------------------------------------------------------
(* Where a step leaves the run it is about *)

\* The command goes on with the run, or ends and leaves it standing.
Leaves(p, e) ==
  \/ pc'[p] # "idle" /\ job'[p].run = e /\ Working(p, e)'
  \/ pc'[p] = "idle" /\ job'[p].run = None /\ Standing(e)'

\* All a step of a command has to show is where it leaves its own run.
LEMMA Suffices ==
  ASSUME BaseInv, SerialInv, Serial, NEW p \in Procs, Acts(p), NEW e \in Executions,
         Run(p) = e \/ pc[p] = "idle", Leaves(p, e)
  PROVE  SerialInv'
<1> USE DEF ledger, venue, told
<1>1. /\ TypeInv /\ pc \in [Procs -> Steps] /\ job \in [Procs -> Job]
      /\ runStatus \in [Executions -> RunStatus]
  BY DEF BaseInv, OrderInv, TypeInv, DataOK, ProcsOK
<1>2. \A q \in Procs : q = p
  BY DEF Serial
<1>3. None \notin Executions
  BY CoreAssumption
<1>4. pc[p] = "idle" => Run(p) = None
  BY DEF SerialInv
<1>5. ASSUME NEW f \in Executions, f # e PROVE Kept(f) /\ runStatus'[f] = runStatus[f]
  <2>1. Run(p) # f
    BY <1>3, <1>4, <1>5
  <2>2. Kept(f)
    <3>1. CASE PrepareStart(p, f) \/ ConfirmAccepted(p, f) \/ ConfirmRejected(p, f)
      <4>1. job'[p].run = f
        BY <1>1, <3>1 DEF PrepareStart, ConfirmAccepted, ConfirmRejected, Start, IdleJob
      <4> QED BY <1>3, <1>5, <4>1 DEF Leaves
    <3> QED BY <2>1, <3>1, KeptSteps
  <2>3. runStatus'[f] = runStatus[f]
    BY <1>1, <2>1, StatusSteps DEF PrepareCreate, ResumeMark, Orphan, Settle, ResolveMark, SetRun
  <2> QED BY <2>2, <2>3
<1>6. ASSUME NEW q \in Procs, pc'[q] = "idle" PROVE job'[q].run = None
  BY <1>2, <1>6 DEF Leaves
<1>7. ASSUME NEW f \in Executions, \A q \in Procs : job'[q].run # f PROVE Standing(f)'
  <2>1. CASE f = e
    BY <1>7, <2>1 DEF Leaves
  <2>2. CASE f # e
    <3>1. ~AtWork(f)
      BY <1>2, <1>3, <1>4, <2>2 DEF AtWork
    <3> QED BY <1>5, <2>2, <3>1, KeepsStanding DEF SerialInv
  <2> QED BY <2>1, <2>2
<1>8. ASSUME NEW q \in Procs, NEW f \in Executions, job'[q].run = f PROVE Working(q, f)'
  BY <1>2, <1>3, <1>8 DEF Leaves
<1> QED BY <1>6, <1>7, <1>8 DEF SerialInv, AtWork, Run

\* What is known of a command at work, and of the order in its hand.
LEMMA InWork ==
  ASSUME BaseInv, NEW p \in Procs, NEW e \in Executions, Run(p) = e, pc[p] # "idle"
  PROVE  /\ pc \in [Procs -> Steps] /\ job \in [Procs -> Job] /\ job[p] \in Job
         /\ job[p].run = e /\ runStatus \in [Executions -> RunStatus]
         /\ legs \in [Executions -> [Slots -> LegRow]]
         /\ book \in [Key -> Book] /\ sent \in [Key -> Nat]
         /\ pc[p] \in Submitting =>
              /\ job[p].via \in Venues /\ K(p) = <<e, job[p].slot, job[p].via>>
              /\ K(p) \in Key /\ book[K(p)] \in Book /\ sent[K(p)] \in Nat
              /\ job[p].slot # Rescue =>
                   /\ job[p].slot \in Legs /\ job[p].slot = job[p].leg
                   /\ job[p].via = plan[e].venue[job[p].slot] /\ K(p) = Own(e, job[p].slot)
<1>1. /\ TypeInv /\ ClaimInv /\ pc \in [Procs -> Steps] /\ job \in [Procs -> Job]
      /\ runStatus \in [Executions -> RunStatus]
      /\ legs \in [Executions -> [Slots -> LegRow]]
      /\ book \in [Key -> Book] /\ sent \in [Key -> Nat]
      /\ Sound(pc[p], job[p])
  BY DEF BaseInv, OrderInv, TypeInv, DataOK, ProcsOK
<1>2. job[p] \in Job /\ job[p].run = e
  BY <1>1 DEF Run
<1>3. ASSUME pc[p] \in Submitting
      PROVE  /\ job[p].via \in Venues /\ K(p) = <<e, job[p].slot, job[p].via>>
             /\ K(p) \in Key /\ book[K(p)] \in Book /\ sent[K(p)] \in Nat
  <2>1. job[p].via \in Venues /\ K(p) = <<e, job[p].slot, job[p].via>>
    BY <1>1, <1>2, <1>3 DEF Sound, K
  <2>2. K(p) \in Key
    BY <1>1, AtWorkTypes
  <2> QED BY <1>1, <2>1, <2>2
<1>4. ASSUME pc[p] \in Submitting, job[p].slot # Rescue
      PROVE  /\ job[p].slot \in Legs /\ job[p].slot = job[p].leg
             /\ job[p].via = plan[e].venue[job[p].slot] /\ K(p) = Own(e, job[p].slot)
  <2>1. job[p].slot \in Legs
    BY <1>2, <1>4 DEF Job, Slots, Legs, Rescue
  <2>2. job[p].slot = job[p].leg
    BY <1>1, <1>4 DEF Sound
  <2>3. job[p].via = plan[e].venue[job[p].slot]
    BY <1>1, <1>4 DEF ClaimInv
  <2> QED BY <1>3, <1>4, <2>1, <2>2, <2>3 DEF Own
<1> QED BY <1>1, <1>2, <1>3, <1>4

\* The steps that leave even their own run's rows and orders alone.
LEMMA StillKeeps ==
  ASSUME BaseInv, NEW p \in Procs, Acts(p), NEW e \in Executions,
         pc[p] \notin {"idle", "legs", "send", "cancel", "save"}
  PROVE  Kept(e)
BY KeptSteps DEF PrepareLeg, Send, SendRaises, CancelRemainder, Save, PrepareStart,
   ConfirmAccepted, ConfirmRejected, Start

\* A command that ends, as far as its process goes.
LEMMA Ends ==
  ASSUME BaseInv, NEW p \in Procs, Finish(p)
  PROVE  pc'[p] = "idle" /\ job'[p].run = None
BY DEF BaseInv, OrderInv, TypeInv, ProcsOK, Finish, Goto, IdleJob
-----------------------------------------------------------------------------
(* The steps of prepare *)

\* The steps before the run has a row, and the undoing of them.
LEMMA LeavesFresh ==
  ASSUME BaseInv, NEW p \in Procs, NEW e \in Executions, Run(p) = e, Working(p, e), Acts(p),
         PrepareLock(p) \/ PrepareCreate(p) \/ PrepareRefused(p) \/ PrepareUndo(p)
  PROVE  Leaves(p, e)
<1> USE DEF ledger, venue, told
<1>1. pc[p] \in {"lock", "create", "undo"}
  BY DEF PrepareLock, PrepareCreate, PrepareRefused, PrepareUndo
<1>2. /\ pc \in [Procs -> Steps] /\ job \in [Procs -> Job] /\ job[p].run = e
      /\ runStatus \in [Executions -> RunStatus]
  BY <1>1, InWork
<1>3. Kept(e)
  BY <1>1, StillKeeps
<1>4. runStatus[e] = "none"
  BY <1>1 DEF BaseInv, GateInv, Guarded
<1>5. /\ Unsent(e) /\ AllTold(e) /\ Fits(e, "none") /\ \A l \in Slots : legs[e][l] = NoRow
  BY <1>4, FreshRun
<1>6. Standing(e)
  BY <1>4, <1>5 DEF Standing
<1>7. CASE PrepareLock(p) /\ pc'[p] # "idle"
  <2>1. pc'[p] = "create" /\ job' = job /\ pc[p] = "lock"
    BY <1>2, <1>7 DEF PrepareLock, Goto, Finish
  <2>2. job[p].leg = 1
    BY <2>1 DEF Working, Coming
  <2>3. Working(p, e)'
    BY <2>1, <2>2
       DEF Working, Coming, Looping, Rescuing, InHand, Leaving, Asking, Asked, Submitting
  <2> QED BY <1>2, <2>1, <2>3 DEF Leaves
<1>8. CASE PrepareCreate(p)
  <2>1. /\ pc'[p] = "legs" /\ job' = job /\ pc[p] = "create" /\ job[p].leg = 1
        /\ runStatus'[e] = IF HasManual(e) THEN "waiting_manual" ELSE "prepared"
    BY <1>2, <1>8 DEF PrepareCreate, Goto, SetRun, Working, Coming
  <2>2. Early(e) /\ Rescue \in Slots /\ Legs \subseteq Slots
    BY <1>5, Constants DEF Early, AllTold
  <2>3. Early(e)' /\ (HasManual(e) <=> HasManual(e)') /\ legs'[e] = legs[e]
    BY <1>3, <2>2, Keeps DEF Kept
  <2>4. \A l \in Legs : ~(l < 1) /\ legs[e][l] = NoRow
    BY <1>5, <2>2 DEF Legs
  <2>5. Coming(p, e)'
    BY <2>1, <2>3, <2>4 DEF Coming, Submitting
  <2>6. Working(p, e)'
    BY <2>1, <2>5
       DEF Working, Looping, Rescuing, InHand, Leaving, Asking, Asked, Submitting
  <2> QED BY <1>2, <2>1, <2>6 DEF Leaves
<1>9. CASE PrepareRefused(p)
  <2>1. pc'[p] = "undo" /\ job' = job
    BY <1>2, <1>9 DEF PrepareRefused, Goto
  <2>2. Working(p, e)'
    BY <2>1
       DEF Working, Coming, Looping, Rescuing, InHand, Leaving, Asking, Asked, Submitting
  <2> QED BY <1>2, <2>1, <2>2 DEF Leaves
<1>10. CASE PrepareUndo(p) \/ (PrepareLock(p) /\ pc'[p] = "idle")
  <2>1. Finish(p) /\ runStatus'[e] = runStatus[e]
    BY <1>2, <1>10 DEF PrepareUndo, PrepareLock, Goto
  <2>2. Standing(e)'
    BY <1>3, <1>6, <2>1, KeepsStanding
  <2> QED BY <2>1, <2>2, Ends DEF Leaves
<1> QED BY <1>7, <1>8, <1>9, <1>10

\* A leg laid out: the last one leaves the run waiting for its bet, or ready.
LEMMA LeavesLaying ==
  ASSUME BaseInv, NEW p \in Procs, NEW e \in Executions, Run(p) = e, Working(p, e),
         PrepareLeg(p)
  PROVE  Leaves(p, e)
<1> USE DEF ledger, venue, told
<1>1. /\ pc[p] = "legs" /\ plan' = plan /\ runStatus' = runStatus /\ book' = book
      /\ sent' = sent /\ neutralised' = neutralised
  BY DEF PrepareLeg
<1>2. /\ pc \in [Procs -> Steps] /\ job \in [Procs -> Job] /\ job[p].run = e
      /\ legs \in [Executions -> [Slots -> LegRow]]
  BY <1>1, InWork
<1>3. PICK l \in Legs : l = job[p].leg
  BY <1>1 DEF BaseInv, OrderInv, TypeInv, ProcsOK, Sound, Preparing
<1>4. PICK s \in {"manual_required", "prepared"} :
        /\ SaveLeg(e, l, Reported(s, 0))
        /\ s = IF plan[e].venue[l] = Retail THEN "manual_required" ELSE "prepared"
  BY <1>2, <1>3 DEF PrepareLeg, Run
<1>5. /\ legs'[e][l] = [status |-> s, matched |-> 0] /\ Legs \subseteq Slots /\ l # Rescue
      /\ \A i \in Slots : i # l => legs'[e][i] = legs[e][i]
  BY <1>2, <1>4, Constants DEF SaveLeg, Reported
<1>6. /\ runStatus[e] = IF HasManual(e) THEN "waiting_manual" ELSE "prepared"
      /\ Early(e)
      /\ \A i \in Legs : IF i < l THEN legs[e][i].status # "absent" ELSE legs[e][i] = NoRow
  BY <1>1, <1>3 DEF Working, Coming
<1>7. legs[e][l] = NoRow
  BY <1>6 DEF Legs
<1>8. \A i \in Legs : (Told(e, i) => Told(e, i)')
  <2>1. Told(e, l) => Told(e, l)'
    BY <1>1, <1>4, <1>5, <1>7 DEF Told, Tells, Own, NoRow
  <2>2. \A i \in Legs : i # l /\ Told(e, i) => Told(e, i)'
    BY <1>1, <1>5 DEF Told, Own
  <2> QED BY <2>1, <2>2
<1>9. Early(e)'
  <2>1. Unsent(e)' /\ (legs[e][Rescue] = NoRow)'
    BY <1>1, <1>5, <1>6, Constants DEF Early, Unsent
  <2>2. Told(e, l)'
    BY <1>6, <1>7, <1>8 DEF Early, NoRow
  <2>3. \A i \in Legs : i # l =>
          Told(e, i)' \/ (i = 1 /\ legs'[e][1].status = "manual_required")
    BY <1>5, <1>6, <1>8 DEF Early
  <2> QED BY <2>1, <2>2, <2>3 DEF Early
<1>10. \A i \in Legs : i < l + 1 => legs'[e][i].status # "absent"
  BY <1>5, <1>6 DEF Legs
<1>11. \A i \in Legs : ~(i < l + 1) => legs'[e][i] = NoRow
  BY <1>5, <1>6 DEF Legs
<1>12. CASE l = NLegs
  <2>1. Finish(p)
    BY <1>3, <1>12 DEF PrepareLeg
  <2>2. Laid(e)'
    BY <1>10, <1>12, Constants DEF Laid, Legs
  <2>3. Vouched(e)'
    BY <1>9 DEF Early, Vouched
  <2>4. CASE HasManual(e)
    <3>1. Fits(e, "waiting_manual")'
      BY <1>9, <2>2, <2>3 DEF Fits
    <3> QED BY <1>1, <1>6, <2>1, <2>4, <3>1, Ends DEF Leaves, Standing
  <2>5. CASE ~HasManual(e)
    <3>1. AllTold(e)'
      <4>1. legs[e][1].status # "manual_required"
        BY <2>5, Constants DEF BaseInv, KeyInv, HasManual
      <4> QED BY <1>6, <1>8, <4>1 DEF Early, AllTold
    <3>2. Fits(e, "prepared")'
      BY <1>9, <2>2, <2>3, <3>1 DEF Fits, Ready, Early
    <3> QED BY <1>1, <1>6, <2>1, <2>5, <3>2, Ends DEF Leaves, Standing
  <2> QED BY <2>4, <2>5
<1>13. CASE l # NLegs
  <2>1. pc'[p] = "legs" /\ job'[p].leg = l + 1 /\ job'[p].run = e
    BY <1>1, <1>2, <1>3, <1>13 DEF PrepareLeg, Job
  <2>2. HasManual(e)' <=> HasManual(e)
    BY <1>1 DEF HasManual
  <2>3. Coming(p, e)'
    BY <1>1, <1>6, <1>9, <1>10, <1>11, <2>1, <2>2 DEF Coming, Submitting
  <2>4. Working(p, e)'
    BY <2>1, <2>3
       DEF Working, Looping, Rescuing, InHand, Leaving, Asking, Asked, Submitting
  <2> QED BY <2>1, <2>4 DEF Leaves
<1> QED BY <1>12, <1>13
-----------------------------------------------------------------------------
(* The steps of resume *)

\* The checks that come before the loop, and the mark that starts it.
LEMMA LeavesResuming ==
  ASSUME BaseInv, Serial, NEW p \in Procs, NEW e \in Executions, Run(p) = e, Working(p, e),
         Acts(p), ResumeHalted(p) \/ ResumeChecked(p) \/ ResumeMark(p)
  PROVE  Leaves(p, e)
<1> USE DEF ledger, venue, told
<1>1. pc[p] \in {"halt_check", "mark"}
  BY DEF ResumeHalted, ResumeChecked, ResumeMark
<1>2. /\ pc \in [Procs -> Steps] /\ job \in [Procs -> Job] /\ job[p].run = e
      /\ runStatus \in [Executions -> RunStatus]
  BY <1>1, InWork
<1>3. Kept(e)
  BY <1>1, StillKeeps
<1>4. CASE ResumeHalted(p)
  <2>1. Standing(e) /\ runStatus' = runStatus /\ Finish(p)
    BY <1>4 DEF ResumeHalted, Working, Coming
  <2>2. Standing(e)'
    BY <1>3, <2>1, KeepsStanding
  <2> QED BY <2>1, <2>2, Ends DEF Leaves
<1>5. CASE ResumeChecked(p)
  <2>1. /\ pc[p] = "halt_check" /\ pc'[p] = "mark" /\ job' = job
        /\ runStatus' = runStatus /\ ~halted
    BY <1>2, <1>5 DEF ResumeChecked, Goto
  <2>2. runStatus[e] \in {"prepared", "rescuing", "emergency"} /\ Standing(e)
    BY <2>1 DEF Working, Coming
  <2>3. runStatus[e] # "emergency"
    <3>1. \A q \in Procs : q = p
      BY DEF Serial
    <3> QED BY <2>1, <3>1 DEF BaseInv, GateInv, EmergencyHalts
  <2>4. Ready(e)
    BY <2>2, <2>3 DEF Standing, Fits, RunStatus
  <2>5. Ready(e)'
    BY <1>3, <2>4, Keeps
  <2>6. Working(p, e)'
    BY <2>1, <2>2, <2>3, <2>5
       DEF Working, Coming, Looping, Rescuing, InHand, Leaving, Asking, Asked, Submitting,
           Terminal
  <2> QED BY <1>2, <2>1, <2>6 DEF Leaves
<1>6. CASE ResumeMark(p)
  <2>1. /\ pc[p] = "mark" /\ pc'[p] = "leg" /\ job' = job /\ runStatus'[e] = "executing"
    BY <1>2, <1>6 DEF ResumeMark, Goto, SetRun, Run
  <2>2. Ready(e)
    BY <2>1 DEF Working, Coming
  <2>3. Ready(e)'
    BY <1>3, <2>2, Keeps
  <2>4. Unrescued(e) /\ \A l \in Legs : NotSent(e, l) /\ Broken(p, e, l)
    BY <2>2, UnsentMeans DEF Ready
  <2>5. Unrescued(e)' /\ \A l \in Legs : NotSent(e, l)' /\ Broken(p, e, l)'
    BY <1>3, <2>1, <2>4, Keeps, KeepsBroken
  <2>6. Looping(p, e)'
    BY <2>1, <2>3, <2>5 DEF Looping, Ready, AllTold, Asked
  <2>7. Working(p, e)'
    BY <2>1, <2>6
       DEF Working, Coming, Rescuing, InHand, Leaving, Asking, Submitting, Terminal
  <2> QED BY <1>2, <2>1, <2>7 DEF Leaves
<1> QED BY <1>4, <1>5, <1>6

\* As many accepted rows as legs, and none of them a rescue's: all are accepted.
LEMMA AllAccepted ==
  ASSUME BaseInv, NEW e \in Executions, legs[e][Rescue] = NoRow,
         Cardinality(Accepted(e)) = NLegs
  PROVE  \A l \in Legs : legs[e][l].status = "accepted"
<1>1. Accepted(e) \subseteq Legs
  BY DEF Accepted, NoRow, Slots, Legs, Rescue
<1>2. IsFiniteSet(Legs) /\ Cardinality(Legs) = NLegs
  BY Constants, FS_Interval DEF Legs
<1>3. Accepted(e) = Legs
  BY <1>1, <1>2, FS_Subset
<1> QED BY <1>3 DEF Accepted

\* The loop over the legs, up to an order or to its end.
LEMMA LeavesLooping ==
  ASSUME BaseInv, NEW p \in Procs, NEW e \in Executions, Run(p) = e, Working(p, e),
         Acts(p), LegRowMissing(p) \/ SkipLeg(p) \/ SubmitLeg(p) \/ LegsDone(p)
  PROVE  Leaves(p, e)
<1> USE DEF ledger, venue, told
<1>1. pc[p] = "leg"
  BY DEF LegRowMissing, SkipLeg, SubmitLeg, LegsDone, AtLeg
<1>2. /\ pc \in [Procs -> Steps] /\ job \in [Procs -> Job] /\ job[p].run = e
      /\ job[p] \in Job
  BY <1>1, InWork
<1>3. Kept(e)
  BY <1>1, StillKeeps
<1>4. runStatus' = runStatus /\ legs' = legs
  BY DEF LegRowMissing, SkipLeg, SubmitLeg, LegsDone
<1>5. /\ Laid(e) /\ legs[e][Rescue] = NoRow /\ Unrescued(e)
      /\ \A l \in Legs : Told(e, l) /\ Broken(p, e, l)
      /\ \A l \in Legs : l >= job[p].leg => NotSent(e, l)
      /\ runStatus[e] \notin Terminal \cup {"waiting_manual"}
  BY <1>1 DEF Working, Looping, Coming
<1>6. /\ Laid(e)' /\ (legs[e][Rescue] = NoRow)' /\ Unrescued(e)'
      /\ \A l \in Legs : Told(e, l)'
      /\ \A l \in Legs : NotSent(e, l) => NotSent(e, l)'
  BY <1>3, <1>4, <1>5, Keeps
<1>7. job'[p].tripped = job[p].tripped => \A l \in Legs : Broken(p, e, l)'
  BY <1>3, <1>5, KeepsBroken
<1>8. job[p].leg \in Int /\ \A l \in Legs : l \in Int
  BY <1>2, Constants DEF Job, Legs
<1>9. ~LegRowMissing(p)
  BY <1>5 DEF LegRowMissing, AtLeg, Stored, Laid, Run
<1>10. CASE SkipLeg(p)
  <2>1. /\ pc'[p] = "leg" /\ job'[p].run = e /\ job'[p].leg = job[p].leg + 1
        /\ job'[p].tripped = job[p].tripped
    BY <1>1, <1>2, <1>10 DEF SkipLeg, Job
  <2>2. \A l \in Legs : l >= job[p].leg + 1 => NotSent(e, l)'
    BY <1>5, <1>6, <1>8
  <2>3. Looping(p, e)'
    BY <1>6, <1>7, <2>1, <2>2 DEF Looping, Asked
  <2>4. Working(p, e)'
    BY <1>4, <1>5, <2>1, <2>3
       DEF Working, Coming, Rescuing, InHand, Leaving, Asking, Submitting
  <2> QED BY <2>1, <2>4 DEF Leaves
<1>11. CASE SubmitLeg(p)
  <2>1. /\ pc'[p] = "preflight" /\ job'[p].run = e /\ job'[p].leg = job[p].leg
        /\ job'[p].slot = job[p].leg /\ job[p].leg \in Legs
        /\ job'[p].tripped = job[p].tripped
    BY <1>2, <1>11 DEF SubmitLeg, Job, Goto, AtLeg
  <2>2. job'[p].slot # Rescue
    BY <2>1, Constants
  <2>3. Looping(p, e)'
    BY <1>5, <1>6, <1>7, <2>1, <2>2 DEF Looping, Asked
  <2>4. Working(p, e)'
    BY <1>4, <1>5, <2>1, <2>2, <2>3
       DEF Working, Coming, Rescuing, InHand, Leaving
  <2> QED BY <2>1, <2>4 DEF Leaves
<1>12. CASE LegsDone(p) /\ Cardinality(Accepted(e)) = NLegs
  <2>1. /\ pc'[p] = "settle" /\ job'[p].run = e /\ job'[p].verdict = "completed"
    BY <1>2, <1>12 DEF LegsDone, Job, Goto, Run
  <2>2. \A l \in Legs : legs[e][l].status = "accepted"
    BY <1>5, <1>12, AllAccepted
  <2>3. \A l \in Legs : Held(e, l) = Full
    BY <1>5, <2>2 DEF Told, Tells, Own, Held
  <2>4. \A l \in Legs : Held(e, l)' = Full /\ Told(e, l)'
    BY <1>3, <1>5, <2>3, Keeps
  <2>5. Fits(e, "completed")'
    BY <2>4 DEF Fits, Vouched
  <2>6. Working(p, e)'
    BY <1>4, <1>5, <2>1, <2>5
       DEF Working, Coming, Looping, Rescuing, InHand, Leaving, Asking, Asked, Submitting
  <2> QED BY <2>1, <2>6 DEF Leaves
<1>13. CASE LegsDone(p) /\ Cardinality(Accepted(e)) # NLegs
  <2>1. pc'[p] = "orphan" /\ job' = job
    BY <1>2, <1>13 DEF LegsDone, Goto, Run
  <2>2. Rescuing(p, e)'
    BY <1>6, <1>7, <2>1 DEF Rescuing, Submitting
  <2>3. Working(p, e)'
    BY <1>4, <1>5, <2>1, <2>2
       DEF Working, Coming, Looping, InHand, Leaving, Asking, Asked
  <2> QED BY <1>2, <2>1, <2>3 DEF Leaves
<1> QED BY <1>9, <1>10, <1>11, <1>12, <1>13
-----------------------------------------------------------------------------
(* The steps of _safe_submit *)

\* Before its venue is asked nothing is known there of the order in hand.
LEMMA NotAskedYet ==
  ASSUME BaseInv, NEW p \in Procs, NEW e \in Executions, Run(p) = e, Working(p, e),
         pc[p] \in Asking
  PROVE  sent[K(p)] = 0 /\ book[K(p)] = Untouched
<1>1. /\ pc[p] \in Submitting /\ job[p].leg \in Int
  BY InWork, Constants DEF Asking, Submitting, Job
<1>2. /\ job[p].via \in Venues /\ K(p) = <<e, job[p].slot, job[p].via>> /\ K(p) \in Key
      /\ sent[K(p)] \in Nat
      /\ job[p].slot # Rescue =>
           job[p].slot \in Legs /\ job[p].slot = job[p].leg /\ K(p) = Own(e, job[p].slot)
  BY <1>1, InWork DEF Submitting
<1>3. sent[K(p)] = 0
  <2>1. CASE job[p].slot = Rescue
    BY <1>2, <2>1 DEF Working, Rescuing, Unrescued
  <2>2. CASE job[p].slot # Rescue
    BY <1>1, <1>2, <2>2 DEF Working, Looping, NotSent
  <2> QED BY <2>1, <2>2
<1>4. K(p)[3] # Retail
  BY <1>2, CoreAssumption
<1> QED BY <1>2, <1>3, <1>4 DEF BaseInv, OrderInv, BookInv

\* The gates before an order: it is refused, or comes one gate further.
LEMMA LeavesAsking ==
  ASSUME BaseInv, NEW p \in Procs, NEW e \in Executions, Run(p) = e, Working(p, e),
         Acts(p),
         \/ PreflightRefused(p) \/ PreflightOk(p) \/ GateRefused(p)
         \/ CanaryRefused(p) \/ CanaryAuthorized(p)
  PROVE  Leaves(p, e)
<1> USE DEF ledger, venue, told
<1>1. pc[p] \in {"preflight", "gate"} /\ pc[p] \in Asking /\ pc[p] \in Submitting
  BY DEF PreflightRefused, PreflightOk, GateRefused, CanaryRefused, CanaryAuthorized,
         Asking, Submitting
<1>2. /\ pc \in [Procs -> Steps] /\ job \in [Procs -> Job] /\ job[p].run = e
      /\ job[p] \in Job /\ K(p) \in Key
      /\ job[p].slot # Rescue => job[p].slot = job[p].leg
  BY <1>1, InWork DEF Submitting
<1>3. Kept(e)
  BY <1>1, StillKeeps
<1>4. runStatus' = runStatus /\ legs' = legs /\ sent' = sent /\ book' = book
  BY DEF PreflightRefused, PreflightOk, GateRefused, CanaryRefused, CanaryAuthorized
<1>5. sent[K(p)] = 0 /\ book[K(p)] = Untouched
  BY <1>1, NotAskedYet
<1>6. /\ job'[p].run = e /\ job'[p].slot = job[p].slot /\ job'[p].via = job[p].via
      /\ job'[p].leg = job[p].leg /\ job[p].tripped \subseteq job'[p].tripped
      /\ \/ pc'[p] = "save" /\ job'[p].res = Rejected
         \/ pc'[p] = "gate" /\ pc[p] = "preflight" /\ job[p].via \notin job'[p].tripped
         \/ pc'[p] = "send" /\ pc[p] = "gate" /\ job' = job
  BY <1>2 DEF PreflightRefused, PreflightOk, GateRefused, CanaryRefused, CanaryAuthorized,
              Trip, Job, Goto
<1>7. K(p)' = K(p)
  BY <1>2, <1>6 DEF K
<1>8. runStatus'[e] \notin Terminal \cup {"waiting_manual"}
  BY <1>1, <1>4 DEF Working, Coming
<1>9. \A l \in Legs :
        /\ Told(e, l) => Told(e, l)'
        /\ Broken(p, e, l) => Broken(p, e, l)'
        /\ NotSent(e, l) => NotSent(e, l)'
  BY <1>3, <1>6, Keeps, KeepsBroken
<1>10. /\ Laid(e) => Laid(e)'
       /\ Unrescued(e) => Unrescued(e)'
       /\ AllTold(e) => AllTold(e)'
       /\ Missing(e)' = Missing(e)
  BY <1>3, Keeps
<1>11. InHand(p)'
  BY <1>4, <1>5, <1>6, <1>7
     DEF InHand, Working, Tells, Rejected, Reported, Untouched, Asking
<1>12. CASE job[p].slot # Rescue
  <2>1. /\ Laid(e) /\ legs[e][Rescue] = NoRow /\ Unrescued(e)
        /\ \A l \in Legs : Told(e, l) /\ Broken(p, e, l)
        /\ \A l \in Legs : l >= job[p].leg => NotSent(e, l)
    BY <1>1, <1>12 DEF Working, Looping
  <2>2. job[p].leg \in Int /\ \A l \in Legs : l \in Int
    BY <1>2, Constants DEF Job, Legs
  <2>3. /\ Laid(e)' /\ (legs[e][Rescue] = NoRow)' /\ Unrescued(e)'
        /\ \A l \in Legs : Told(e, l)' /\ Broken(p, e, l)'
        /\ \A l \in Legs : l >= job[p].leg => NotSent(e, l)'
        /\ \A l \in Legs : l > job[p].leg => NotSent(e, l)'
    BY <1>4, <1>9, <1>10, <2>1, <2>2
  <2>4. Looping(p, e)'
    BY <1>6, <2>3 DEF Looping
  <2> QED BY <1>6, <1>8, <1>11, <1>12, <2>4
          DEF Leaves, Working, Coming, Rescuing, Leaving, Asking, Asked, Submitting
<1>13. CASE job[p].slot = Rescue
  <2>1. /\ Unrescued(e) /\ AllTold(e) /\ Cardinality(Missing(e)) = 1
        /\ \A l \in Legs : Told(e, l) /\ Broken(p, e, l)
    BY <1>1, <1>13 DEF Working, Rescuing, AllTold
  <2>2. /\ Unrescued(e)' /\ AllTold(e)' /\ Cardinality(Missing(e)') = 1
        /\ \A l \in Legs : Told(e, l)' /\ Broken(p, e, l)'
    BY <1>9, <1>10, <2>1
  <2>3. Rescuing(p, e)'
    BY <1>6, <1>13, <2>2 DEF Rescuing, Unrescued
  <2> QED BY <1>6, <1>8, <1>11, <1>13, <2>3
          DEF Leaves, Working, Coming, Looping, Leaving, Asking, Asked, Submitting
<1> QED BY <1>12, <1>13

\* What an order that is submitted or cancelled leaves alone of its run.
LEMMA OneOrder ==
  ASSUME BaseInv, NEW p \in Procs, NEW e \in Executions, Run(p) = e, pc[p] \in Submitting,
         plan' = plan, legs' = legs,
         \A k \in Key : k # K(p) => sent'[k] = sent[k] /\ book'[k] = book[k],
         job[p].tripped \subseteq job'[p].tripped
  PROVE  /\ \A l \in Legs : l # job[p].slot =>
              /\ Told(e, l) => Told(e, l)'
              /\ Broken(p, e, l) => Broken(p, e, l)'
              /\ NotSent(e, l) => NotSent(e, l)'
         /\ job[p].slot # Rescue /\ Unrescued(e) => Unrescued(e)'
         /\ job[p].slot = Rescue =>
              /\ AllTold(e) => AllTold(e)'
              /\ \A v \in Venues : v # job[p].via =>
                   sent'[<<e, Rescue, v>>] = sent[<<e, Rescue, v>>]
         /\ (Laid(e) <=> Laid(e)') /\ Missing(e)' = Missing(e)
<1>1. K(p) = <<e, job[p].slot, job[p].via>>
  BY InWork DEF Submitting
<1>2. \A l \in Legs : Own(e, l) \in Key /\ Own(e, l)' = Own(e, l) /\ Own(e, l)[2] = l
  BY RunTypes DEF Own
<1>3. \A l \in Legs : l # job[p].slot => Own(e, l) # K(p)
  BY <1>1, <1>2
<1>4. ASSUME NEW l \in Legs, l # job[p].slot
      PROVE  /\ Told(e, l) => Told(e, l)'
             /\ Broken(p, e, l) => Broken(p, e, l)'
             /\ NotSent(e, l) => NotSent(e, l)'
  <2>1. Told(e, l) => Told(e, l)'
    BY <1>2, <1>3, <1>4 DEF Told
  <2>2. NotSent(e, l) => NotSent(e, l)'
    BY <1>2, <1>3, <1>4 DEF NotSent
  <2>3. \A v \in Venues : sent'[<<e, l, v>>] = sent[<<e, l, v>>]
    BY <1>1, <1>4, RunTypes
  <2>4. Broken(p, e, l) => Broken(p, e, l)'
    BY <2>3 DEF Broken
  <2> QED BY <2>1, <2>2, <2>4
<1>5. \A v \in Venues : <<e, Rescue, v>> \in Key
  BY RunTypes
<1>6. job[p].slot # Rescue /\ Unrescued(e) => Unrescued(e)'
  BY <1>1, <1>5 DEF Unrescued
<1>7. job[p].slot = Rescue /\ AllTold(e) => AllTold(e)'
  BY <1>4, Constants DEF AllTold
<1>8. \A v \in Venues : v # job[p].via => sent'[<<e, Rescue, v>>] = sent[<<e, Rescue, v>>]
  BY <1>1, <1>5
<1>9. (Laid(e) <=> Laid(e)') /\ Missing(e)' = Missing(e)
  BY DEF Laid, Missing, Positive
<1> QED BY <1>4, <1>6, <1>7, <1>8, <1>9

\* A venue that was asked has its order in the hand of the command, which keeps
\* the run but for that order.
LEMMA LeavesAsked ==
  ASSUME BaseInv, NEW p \in Procs, NEW e \in Executions, Run(p) = e, Working(p, e),
         pc[p] \in {"send", "reconcile", "cancel"}, pc'[p] \in Asked,
         plan' = plan, legs' = legs, runStatus' = runStatus,
         \A k \in Key : k # K(p) => sent'[k] = sent[k] /\ book'[k] = book[k],
         job'[p].run = e, job'[p].leg = job[p].leg, job'[p].slot = job[p].slot,
         job'[p].via = job[p].via, job[p].tripped \subseteq job'[p].tripped,
         InHand(p)'
  PROVE  Leaves(p, e)
<1>1. /\ pc[p] \in Submitting /\ pc[p] \in Asking \cup Asked /\ pc'[p] \in Submitting
      /\ pc'[p] \notin Asking \cup {"leg", "orphan", "route", "settle", "idle"}
  BY DEF Submitting, Asking, Asked
<1>2. /\ job[p] \in Job
      /\ job[p].slot # Rescue => job[p].slot \in Legs /\ job[p].slot = job[p].leg
  BY <1>1, InWork DEF Submitting
<1>3. job[p].leg \in Int /\ \A l \in Legs : l \in Int
  BY <1>2, Constants DEF Job, Legs
<1>4. runStatus'[e] \notin Terminal \cup {"waiting_manual"}
  BY <1>1 DEF Working, Coming
<1>5. CASE job[p].slot # Rescue
  <2>1. /\ Laid(e) /\ legs[e][Rescue] = NoRow /\ Unrescued(e)
        /\ \A l \in Legs : l # job[p].slot => Told(e, l) /\ Broken(p, e, l)
        /\ \A l \in Legs : l > job[p].leg => NotSent(e, l)
    BY <1>1, <1>3, <1>5 DEF Working, Looping
  <2>2. \A l \in Legs : l > job[p].leg => l # job[p].slot
    BY <1>2, <1>3, <1>5
  <2>3. /\ Laid(e)' /\ (legs[e][Rescue] = NoRow)' /\ Unrescued(e)'
        /\ \A l \in Legs : l # job[p].slot => Told(e, l)' /\ Broken(p, e, l)'
        /\ \A l \in Legs : l > job[p].leg => NotSent(e, l)'
    BY <1>1, <1>5, <2>1, <2>2, OneOrder
  <2>4. Looping(p, e)'
    BY <1>1, <2>3 DEF Looping
  <2> QED BY <1>1, <1>4, <1>5, <2>4
          DEF Leaves, Working, Coming, Rescuing, Leaving, Asked, Submitting
<1>6. CASE job[p].slot = Rescue
  <2>1. /\ AllTold(e) /\ Cardinality(Missing(e)) = 1
        /\ \A v \in Venues : v # job[p].via => sent[<<e, Rescue, v>>] = 0
    BY <1>1, <1>6 DEF Working, Rescuing
  <2>2. /\ AllTold(e)' /\ Cardinality(Missing(e)') = 1
        /\ \A v \in Venues : v # job[p].via => sent'[<<e, Rescue, v>>] = 0
    BY <1>1, <1>6, <2>1, OneOrder
  <2>3. Rescuing(p, e)'
    BY <1>1, <1>6, <2>2 DEF Rescuing
  <2> QED BY <1>1, <1>4, <1>6, <2>3
          DEF Leaves, Working, Coming, Looping, Leaving, Asked, Submitting
<1> QED BY <1>5, <1>6

\* The submission, whether place_order returns or raises.
LEMMA LeavesSending ==
  ASSUME BaseInv, Orderly, NEW p \in Procs, NEW e \in Executions, Run(p) = e, Working(p, e),
         Send(p) \/ SendRaises(p)
  PROVE  Leaves(p, e)
<1> USE DEF ledger, venue, told
<1>1. /\ pc[p] = "send" /\ plan' = plan /\ legs' = legs /\ runStatus' = runStatus
      /\ sent' = [sent EXCEPT ![K(p)] = sent[K(p)] + 1]
  BY DEF Send, SendRaises
<1>2. /\ pc \in [Procs -> Steps] /\ job \in [Procs -> Job] /\ job[p].run = e
      /\ job[p] \in Job /\ book \in [Key -> Book] /\ sent \in [Key -> Nat] /\ K(p) \in Key
      /\ job[p].via \in Venues
  BY <1>1, InWork DEF Submitting
<1>3. \A r \in PlaceReplies(job[p].via) :
        /\ r.result.status \in ResultStatus \ {"pending"}
        /\ r.result.status = "unknown" \/ Tells(r.result, r.book)
  BY PromptReplies DEF Orderly
<1>4. job[p].via \in RefVenues => \A b \in LostBooks(job[p].via) :
        ~b.resting /\ (b.received => b.held \in {0, Full})
  BY PromptReplies DEF Orderly
<1>5. CASE Send(p)
  <2>1. PICK r \in PlaceReplies(job[p].via) :
          /\ book' = [book EXCEPT ![K(p)] = r.book]
          /\ job' = IF r.result.status \in TrippingStatus THEN Trip(p, r.result)
                    ELSE [job EXCEPT ![p].res = r.result]
          /\ Goto(p, AfterReply(r.result))
    BY <1>5 DEF Send
  <2>2. /\ job'[p].run = e /\ job'[p].leg = job[p].leg /\ job'[p].slot = job[p].slot
        /\ job'[p].via = job[p].via /\ job[p].tripped \subseteq job'[p].tripped
        /\ job'[p].res = r.result
        /\ r.result.status \in TrippingStatus => job[p].via \in job'[p].tripped
    BY <1>2, <2>1 DEF Trip, Job
  <2>3. K(p)' = K(p) /\ book'[K(p)] = r.book
    BY <1>2, <2>1, <2>2 DEF K
  <2>4. \/ pc'[p] = "cancel" /\ r.result.status = "partially_matched"
        \/ pc'[p] = "save"
    BY <1>2, <1>3, <2>1 DEF Goto, AfterReply
  <2>5. r.result.status # "accepted" => job[p].via \in job'[p].tripped
    BY <1>3, <2>2 DEF ResultStatus, TrippingStatus
  <2>6. InHand(p)'
    BY <1>3, <2>2, <2>3, <2>4, <2>5 DEF InHand
  <2>7. \A k \in Key : k # K(p) => sent'[k] = sent[k] /\ book'[k] = book[k]
    BY <1>1, <1>2, <2>1
  <2>8. pc'[p] \in Asked
    BY <2>4 DEF Asked
  <2> QED BY <1>1, <2>2, <2>6, <2>7, <2>8, LeavesAsked
<1>6. CASE SendRaises(p)
  <2>1. PICK b \in LostBooks(job[p].via) : book' = [book EXCEPT ![K(p)] = b]
    BY <1>6 DEF SendRaises
  <2>2. /\ job'[p].run = e /\ job'[p].leg = job[p].leg /\ job'[p].slot = job[p].slot
        /\ job'[p].via = job[p].via /\ job[p].tripped \subseteq job'[p].tripped
        /\ job[p].via \in job'[p].tripped /\ pc'[p] = "reconcile"
    BY <1>2, <1>6 DEF SendRaises, Trip, Job, Goto
  <2>3. K(p)' = K(p) /\ book'[K(p)] = b
    BY <1>2, <2>1, <2>2 DEF K
  <2>4. InHand(p)'
    BY <1>4, <2>2, <2>3 DEF InHand
  <2>5. \A k \in Key : k # K(p) => sent'[k] = sent[k] /\ book'[k] = book[k]
    BY <1>1, <1>2, <2>1
  <2>6. pc'[p] \in Asked
    BY <2>2 DEF Asked
  <2> QED BY <1>1, <2>2, <2>4, <2>5, <2>6, LeavesAsked
<1> QED BY <1>5, <1>6

\* What follows an answer: a look-up or a cancel.
LEMMA LeavesAnswered ==
  ASSUME BaseInv, NEW p \in Procs, NEW e \in Executions, Run(p) = e, Working(p, e),
         Reconcile(p) \/ CancelRemainder(p) \/ Requery(p)
  PROVE  Leaves(p, e)
<1> USE DEF ledger, venue, told
<1>1. /\ pc[p] \in {"reconcile", "cancel"} /\ plan' = plan /\ legs' = legs
      /\ runStatus' = runStatus /\ sent' = sent
  BY DEF Reconcile, CancelRemainder, Requery, Working, InHand
<1>2. /\ pc \in [Procs -> Steps] /\ job \in [Procs -> Job] /\ job[p].run = e
      /\ job[p] \in Job /\ book \in [Key -> Book] /\ K(p) \in Key /\ book[K(p)] \in Book
  BY <1>1, InWork DEF Submitting
<1>3. InHand(p)
  BY DEF Working
<1>4. CASE Reconcile(p)
  <2>1. PICK r \in ReconcileResults(job[p].via, book[K(p)]) :
          job' = [job EXCEPT ![p].res = r] /\ Goto(p, AfterReply(r))
    BY <1>4 DEF Reconcile
  <2>2. pc[p] = "reconcile" /\ book' = book
    BY <1>4 DEF Reconcile
  <2>3. /\ r.status \in {"unknown", "accepted", "cancelled"}
        /\ r.status = "unknown" \/ Tells(r, book[K(p)])
    BY <1>2, <1>3, <2>2, PromptLookUps DEF InHand
  <2>4. /\ job'[p].run = e /\ job'[p].leg = job[p].leg /\ job'[p].slot = job[p].slot
        /\ job'[p].via = job[p].via /\ job'[p].tripped = job[p].tripped /\ job'[p].res = r
        /\ pc'[p] = "save"
    BY <1>2, <2>1, <2>3 DEF Job, Goto, AfterReply
  <2>5. K(p)' = K(p)
    BY <1>2, <2>4 DEF K
  <2>6. InHand(p)'
    BY <1>3, <2>2, <2>3, <2>4, <2>5 DEF InHand
  <2>7. pc'[p] \in Asked
    BY <2>4 DEF Asked
  <2> QED BY <1>1, <2>2, <2>4, <2>6, <2>7, LeavesAsked
<1>5. CASE CancelRemainder(p)
  <2>1. PICK b \in CancelBooks(book[K(p)]) : book' = [book EXCEPT ![K(p)] = b]
    BY <1>5 DEF CancelRemainder
  <2>2. /\ pc[p] = "cancel" /\ job' = job
        /\ pc'[p] = IF job[p].res.status = "pending" THEN "requery" ELSE "save"
    BY <1>2, <1>5 DEF CancelRemainder, Goto
  <2>3. job[p].res.status = "partially_matched" /\ Tells(job[p].res, book[K(p)])
    BY <1>3, <2>2 DEF InHand
  <2>4. b = book[K(p)]
    BY <1>2, <2>3, HonestReplies DEF Tells
  <2>5. book' = book
    BY <1>2, <2>1, <2>4
  <2>6. InHand(p)'
    BY <1>1, <1>3, <2>2, <2>3, <2>5 DEF InHand, K
  <2>7. pc'[p] \in Asked
    BY <2>2, <2>3 DEF Asked
  <2> QED BY <1>1, <1>2, <2>2, <2>5, <2>6, <2>7, LeavesAsked
<1>6. ~Requery(p)
  BY <1>3 DEF Requery, InHand
<1> QED BY <1>4, <1>5, <1>6

\* Where a command goes with a result that it saves, and what it remembers.
LEMMA SaveMoves ==
  ASSUME BaseInv, NEW p \in Procs, NEW e \in Executions, Run(p) = e, Save(p)
  PROVE  /\ job'[p].run = e /\ job'[p].tripped = job[p].tripped
         /\ job[p].slot = Rescue =>
              /\ pc'[p] = "settle"
              /\ job'[p].verdict = IF FullyMatched(job[p].res) THEN "rescued" ELSE "emergency"
         /\ job[p].slot # Rescue =>
              /\ FullyMatched(job[p].res) => pc'[p] = "leg" /\ job'[p].leg = job[p].leg + 1
              /\ Uncertain(job[p].res) => pc'[p] = "settle" /\ job'[p].verdict = "emergency"
              /\ ~FullyMatched(job[p].res) /\ ~Uncertain(job[p].res) => pc'[p] = "orphan"
<1>1. pc[p] = "save"
  BY DEF Save
<1>2. /\ pc \in [Procs -> Steps] /\ job \in [Procs -> Job] /\ job[p].run = e /\ job[p] \in Job
  BY <1>1, InWork
<1> DEFINE d == Done(job[p])
<1>3. d \in Job /\ d.run = e /\ d.leg = job[p].leg /\ d.tripped = job[p].tripped
  BY <1>2, Constants DEF Done, Job
<1>4. ~(FullyMatched(job[p].res) /\ Uncertain(job[p].res))
  BY DEF FullyMatched, Uncertain
<1>5. \/ /\ job[p].slot = Rescue /\ Goto(p, "settle")
         /\ job' = [job EXCEPT ![p] = [d EXCEPT !.verdict =
                      IF FullyMatched(job[p].res) THEN "rescued" ELSE "emergency"]]
      \/ /\ job[p].slot # Rescue /\ FullyMatched(job[p].res) /\ Goto(p, "leg")
         /\ job' = [job EXCEPT ![p] = [d EXCEPT !.leg = d.leg + 1]]
      \/ /\ job[p].slot # Rescue /\ Uncertain(job[p].res) /\ Goto(p, "settle")
         /\ job' = [job EXCEPT ![p] = [d EXCEPT !.verdict = "emergency"]]
      \/ /\ job[p].slot # Rescue /\ ~FullyMatched(job[p].res) /\ ~Uncertain(job[p].res)
         /\ Goto(p, "orphan") /\ job' = [job EXCEPT ![p] = d]
  BY DEF Save
<1> HIDE DEF d
<1> QED BY <1>2, <1>3, <1>4, <1>5 DEF Goto, Job

\* A leg's order is dealt with: its row tells it, unless nobody knows.
LEMMA LegSaved ==
  ASSUME BaseInv, NEW p \in Procs, NEW e \in Executions, Run(p) = e, Working(p, e),
         Save(p), job[p].slot # Rescue, job[p].tripped \subseteq job'[p].tripped
  PROVE  /\ Laid(e)' /\ (legs[e][Rescue] = NoRow)' /\ Unrescued(e)'
         /\ \A l \in Legs : l # job[p].slot => Told(e, l)'
         /\ \A l \in Legs : l = job[p].slot =>
              /\ legs'[e][l].status = job[p].res.status
              /\ job[p].res.status # "unknown" => Told(e, l)'
         /\ job[p].res.status # "unknown" => \A l \in Legs : Broken(p, e, l)'
         /\ \A l \in Legs : l >= job[p].leg + 1 => NotSent(e, l)'
<1> USE DEF ledger, venue, told
<1>1. /\ pc[p] = "save" /\ pc[p] \in Asked /\ plan' = plan /\ book' = book /\ sent' = sent
      /\ SaveLeg(job[p].run, job[p].slot, job[p].res)
  BY DEF Save, Asked
<1>2. /\ job[p] \in Job /\ job[p].run = e /\ legs \in [Executions -> [Slots -> LegRow]]
      /\ job[p].slot \in Legs /\ job[p].slot = job[p].leg /\ K(p) = Own(e, job[p].slot)
      /\ job[p].via = plan[e].venue[job[p].slot] /\ job[p].via \in Venues
  BY <1>1, InWork DEF Submitting
<1>3. PICK l \in Legs : l = job[p].slot
  BY <1>2
<1>4. PICK r \in Result : r = job[p].res
  BY <1>2 DEF Job
<1>5. /\ Legs \subseteq Slots /\ Rescue \in Slots /\ l # Rescue
      /\ legs'[e][l] = [status |-> r.status, matched |-> r.matched]
      /\ \A i \in Slots : i # l => legs'[e][i] = legs[e][i]
  BY <1>1, <1>2, <1>3, <1>4, Constants DEF SaveLeg
<1>6. /\ Laid(e) /\ legs[e][Rescue] = NoRow /\ Unrescued(e)
      /\ \A i \in Legs : i # l => Told(e, i) /\ Broken(p, e, i)
      /\ \A i \in Legs : i > job[p].leg => NotSent(e, i)
  BY <1>1, <1>3 DEF Working, Looping
<1>7. Laid(e)' /\ (legs[e][Rescue] = NoRow)' /\ Unrescued(e)'
  <2>1. r.status # "absent"
    BY DEF Result, ResultStatus
  <2> QED BY <1>1, <1>5, <1>6, <2>1 DEF Laid, Unrescued
<1>8. \A i \in Legs : i # l => Told(e, i)' /\ Broken(p, e, i)'
  <2>1. \A i \in Legs : i # l => Told(e, i)'
    BY <1>1, <1>5, <1>6 DEF Told, Own
  <2>2. \A i \in Legs : i # l => Broken(p, e, i)'
    BY <1>1, <1>5, <1>6 DEF Broken
  <2> QED BY <2>1, <2>2
<1>9. ASSUME r.status # "unknown" PROVE Told(e, l)' /\ Broken(p, e, l)'
  <2>1. /\ Tells(r, book[Own(e, l)])
        /\ sent[Own(e, l)] > 0 /\ r.status # "accepted" => job[p].via \in job[p].tripped
    BY <1>1, <1>2, <1>3, <1>4, <1>9 DEF Working, InHand
  <2>2. Told(e, l)'
    BY <1>1, <1>5, <2>1 DEF Told, Tells, Own
  <2>3. ASSUME NEW v \in Venues, sent[<<e, l, v>>] > 0 PROVE v = job[p].via
    <3>1. <<e, l, v>> \in Key
      BY RunTypes
    <3> QED BY <1>2, <1>3, <1>5, <2>3, <3>1 DEF BaseInv, KeyInv
  <2>4. Broken(p, e, l)'
    BY <1>1, <1>2, <1>3, <1>5, <2>1, <2>3 DEF Broken, Own
  <2> QED BY <2>2, <2>4
<1>10. \A i \in Legs : i >= job[p].leg + 1 => NotSent(e, i)'
  <2>1. job[p].leg \in Int /\ \A i \in Legs : i \in Int
    BY <1>2, Constants DEF Job, Legs
  <2> QED BY <1>1, <1>6, <2>1 DEF NotSent, Own
<1> QED BY <1>3, <1>4, <1>5, <1>7, <1>8, <1>9, <1>10

\* The save of a leg's result: the next leg, the rescue or the emergency.
LEMMA LeavesSavingLeg ==
  ASSUME BaseInv, NEW p \in Procs, NEW e \in Executions, Run(p) = e, Working(p, e),
         Save(p), job[p].slot # Rescue
  PROVE  Leaves(p, e)
<1> USE DEF ledger, venue, told
<1>1. /\ pc[p] = "save" /\ runStatus' = runStatus
  BY DEF Save
<1>2. /\ pc \in [Procs -> Steps] /\ job \in [Procs -> Job] /\ job[p].run = e
      /\ job[p] \in Job /\ job[p].slot \in Legs
  BY <1>1, InWork DEF Submitting
<1>3. runStatus'[e] \notin Terminal \cup {"waiting_manual"}
  BY <1>1 DEF Working, Coming, Submitting
<1>4. job'[p].run = e /\ job'[p].tripped = job[p].tripped
  BY SaveMoves
<1>5. /\ Laid(e)' /\ (legs[e][Rescue] = NoRow)' /\ Unrescued(e)'
      /\ \A l \in Legs : l # job[p].slot => Told(e, l)'
      /\ \A l \in Legs : l = job[p].slot =>
           /\ legs'[e][l].status = job[p].res.status
           /\ job[p].res.status # "unknown" => Told(e, l)'
      /\ job[p].res.status # "unknown" => \A l \in Legs : Broken(p, e, l)'
      /\ \A l \in Legs : l >= job[p].leg + 1 => NotSent(e, l)'
  BY <1>4, LegSaved
<1>6. job[p].res.status # "unknown" => \A l \in Legs : Told(e, l)'
  BY <1>5
<1>7. CASE FullyMatched(job[p].res)
  <2>1. pc'[p] = "leg" /\ job'[p].leg = job[p].leg + 1
    BY <1>7, SaveMoves
  <2>2. Looping(p, e)'
    BY <1>5, <1>6, <1>7, <2>1 DEF Looping, Asked, FullyMatched
  <2> QED BY <1>3, <1>4, <2>1, <2>2
          DEF Leaves, Working, Coming, Rescuing, InHand, Leaving, Asking, Submitting
<1>8. CASE Uncertain(job[p].res)
  <2>1. pc'[p] = "settle" /\ job'[p].verdict = "emergency"
    BY <1>8, SaveMoves
  <2>2. Fits(e, "emergency")'
    BY <1>5, <1>8 DEF Fits, Vouched, Uncertain
  <2> QED BY <1>3, <1>4, <2>1, <2>2
          DEF Leaves, Working, Coming, Looping, Rescuing, InHand, Leaving, Asking, Asked,
              Submitting
<1>9. CASE ~FullyMatched(job[p].res) /\ ~Uncertain(job[p].res)
  <2>1. pc'[p] = "orphan"
    BY <1>9, SaveMoves
  <2>2. Rescuing(p, e)'
    BY <1>5, <1>6, <1>9, <2>1 DEF Rescuing, Submitting, Uncertain
  <2> QED BY <1>3, <1>4, <2>1, <2>2
          DEF Leaves, Working, Coming, Looping, InHand, Leaving, Asking, Asked
<1> QED BY <1>7, <1>8, <1>9

\* The save of a rescue's result: the run is covered, or in emergency.
LEMMA LeavesSavingRescue ==
  ASSUME BaseInv, NEW p \in Procs, NEW e \in Executions, Run(p) = e, Working(p, e),
         Save(p), job[p].slot = Rescue
  PROVE  Leaves(p, e)
<1> USE DEF ledger, venue, told
<1>1. /\ pc[p] = "save" /\ runStatus' = runStatus /\ plan' = plan /\ book' = book
      /\ SaveLeg(job[p].run, Rescue, job[p].res)
  BY DEF Save
<1>2. /\ pc \in [Procs -> Steps] /\ job \in [Procs -> Job] /\ job[p].run = e
      /\ job[p] \in Job /\ job[p].via \in Venues /\ K(p) = <<e, Rescue, job[p].via>>
  BY <1>1, InWork DEF Submitting
<1>3. runStatus'[e] \notin Terminal \cup {"waiting_manual"}
  BY <1>1 DEF Working, Coming, Submitting
<1>4. /\ job'[p].run = e /\ pc'[p] = "settle"
      /\ job'[p].verdict = IF FullyMatched(job[p].res) THEN "rescued" ELSE "emergency"
  BY SaveMoves
<1>5. /\ AllTold(e) /\ Cardinality(Missing(e)) = 1
      /\ \A v \in Venues : v # job[p].via => sent[<<e, Rescue, v>>] = 0
  BY <1>1 DEF Working, Rescuing, Submitting
<1>6. \A l \in Legs : legs'[e][l] = legs[e][l]
  BY <1>1, <1>2, RescueRowIsApart DEF BaseInv, OrderInv
<1>7. AllTold(e)'
  BY <1>1, <1>5, <1>6 DEF AllTold, Told, Own
<1>8. Vouched(e)'
  BY <1>7 DEF AllTold, Vouched
<1>9. CASE FullyMatched(job[p].res)
  <2>1. Tells(job[p].res, book[K(p)]) /\ job[p].res.status = "accepted"
    BY <1>1, <1>9 DEF Working, InHand, FullyMatched
  <2>2. book[<<e, Rescue, job[p].via>>].held = Full /\ ~book[<<e, Rescue, job[p].via>>].resting
    BY <1>2, <2>1 DEF Tells
  <2>3. \A v \in Venues : v # job[p].via => book[<<e, Rescue, v>>] = Untouched
    BY <1>5, RunTypes, CoreAssumption DEF BaseInv, OrderInv, BookInv
  <2>4. Bought(e)' = {job[p].via}
    BY <1>1, <1>2, <2>2, <2>3 DEF Bought, Untouched, Full
  <2>5. Open(e)' = Missing(e)
    <3>1. \A l \in Legs : legs[e][l].matched = Held(e, l) /\ legs[e][l].matched \in Stakes
      BY <1>5, RunTypes DEF AllTold, Told, Tells, Held, Own, LegRow
    <3>2. \A l \in Legs : Held(e, l)' = Held(e, l)
      BY <1>1 DEF Held
    <3> QED BY <3>1, <3>2 DEF Open, Missing, Positive, Stakes, Full
  <2>6. Cardinality({job[p].via}) = 1
    BY FS_Singleton
  <2>7. Closing(e)'
    <3>1. Cardinality(Open(e)') = 1 /\ Cardinality(Bought(e)') = 1
      BY <1>5, <2>4, <2>5, <2>6
    <3>2. \A v \in Bought(e)' : book'[<<e, Rescue, v>>].held = Full
      BY <1>1, <2>2, <2>4
    <3> QED BY <3>1, <3>2 DEF Closing
  <2>8. \A v \in Venues : ~book'[<<e, Rescue, v>>].resting
    BY <1>1, <2>2, <2>3 DEF Untouched
  <2>9. Fits(e, "rescued")'
    BY <1>7, <1>8, <2>7, <2>8 DEF Fits
  <2> QED BY <1>3, <1>4, <1>9, <2>9
          DEF Leaves, Working, Coming, Looping, Rescuing, InHand, Leaving, Asking, Asked,
              Submitting
<1>10. CASE ~FullyMatched(job[p].res)
  <2>1. Fits(e, "emergency")'
    BY <1>8 DEF Fits
  <2> QED BY <1>3, <1>4, <1>10, <2>1
          DEF Leaves, Working, Coming, Looping, Rescuing, InHand, Leaving, Asking, Asked,
              Submitting
<1> QED BY <1>9, <1>10
-----------------------------------------------------------------------------
(* The steps of _rescue *)

\* Every leg holds something and no rescue was bought: the run is covered.
LEMMA CoveredByLegs ==
  ASSUME BaseInv, NEW e \in Executions, AllTold(e), Unrescued(e), Missing(e) = {}
  PROVE  Fits(e, "rescued")
<1>1. \A l \in Legs : legs[e][l].matched = Held(e, l) /\ legs[e][l].matched \in Stakes
  BY RunTypes DEF AllTold, Told, Tells, Held, Own, LegRow
<1>2. Open(e) = {}
  BY <1>1 DEF Open, Missing, Positive, Stakes, Full
<1>3. \A v \in Venues : book[<<e, Rescue, v>>] = Untouched
  <2>1. \A v \in Venues : <<e, Rescue, v>> \in Key /\ sent[<<e, Rescue, v>>] = 0 /\ v # Retail
    BY RunTypes, CoreAssumption DEF Unrescued
  <2>2. \A k \in Key : k[3] # Retail /\ sent[k] = 0 => book[k] = Untouched
    BY DEF BaseInv, OrderInv, BookInv
  <2> QED BY <2>1, <2>2
<1>4. Bought(e) = {}
  BY <1>3 DEF Bought, Untouched
<1>5. Closing(e)
  BY <1>2, <1>4, FS_EmptySet DEF Closing
<1>6. \A v \in Venues : ~book[<<e, Rescue, v>>].resting
  <2>1. ~Untouched.resting
    BY DEF Untouched
  <2> QED BY <1>3, <2>1
<1> QED BY <1>5, <1>6 DEF Fits, Vouched, AllTold

\* The routes of a run with an orphan.
LEMMA LeavesRescuing ==
  ASSUME BaseInv, NEW p \in Procs, NEW e \in Executions, Run(p) = e, Working(p, e),
         Acts(p),
         \/ Orphan(p) \/ RouteNoExposure(p) \/ RouteImpossible(p) \/ RouteCovered(p)
         \/ \E v \in Venues : RouteRescue(p, v)
  PROVE  Leaves(p, e)
<1> USE DEF ledger, venue, told
<1>1. pc[p] \in {"orphan", "route"}
  BY DEF Orphan, RouteNoExposure, RouteImpossible, RouteCovered, RouteRescue
<1>2. /\ pc \in [Procs -> Steps] /\ job \in [Procs -> Job] /\ job[p].run = e
      /\ job[p] \in Job /\ runStatus \in [Executions -> RunStatus]
  BY <1>1, InWork
<1>3. Kept(e)
  BY <1>1, StillKeeps
<1>4. /\ Unrescued(e) /\ AllTold(e) /\ \A l \in Legs : Told(e, l) /\ Broken(p, e, l)
      /\ runStatus[e] \notin Terminal \cup {"waiting_manual"}
  BY <1>1 DEF Working, Rescuing, Coming, AllTold
<1>5. /\ Unrescued(e)' /\ AllTold(e)' /\ (\A l \in Legs : Told(e, l)')
      /\ Missing(e)' = Missing(e)
  BY <1>3, <1>4, Keeps
<1>6. job'[p].tripped = job[p].tripped => \A l \in Legs : Broken(p, e, l)'
  BY <1>3, <1>4, KeepsBroken
<1>7. CASE Orphan(p)
  <2>1. pc'[p] = "route" /\ job' = job /\ runStatus'[e] = "rescuing"
    BY <1>2, <1>7 DEF Orphan, Goto, SetRun, Run
  <2>2. Rescuing(p, e)'
    BY <1>5, <1>6, <2>1 DEF Rescuing, Submitting
  <2> QED BY <1>2, <2>1, <2>2
          DEF Leaves, Working, Coming, Looping, InHand, Leaving, Asking, Asked, Terminal
\* A verdict that fits the run.
<1>8. ASSUME NEW s \in RunStatus, Decide(p, s), Fits(e, s) PROVE Leaves(p, e)
  <2>1. /\ pc'[p] = "settle" /\ job'[p].run = e /\ job'[p].verdict = s
        /\ runStatus' = runStatus
    BY <1>2, <1>8 DEF Decide, Goto, Job
  <2>2. Fits(e, s)'
    BY <1>3, <1>8, KeepsFit
  <2> QED BY <1>4, <2>1, <2>2
          DEF Leaves, Working, Coming, Looping, Rescuing, InHand, Leaving, Asking, Asked,
              Submitting
<1>9. CASE RouteNoExposure(p)
  <2>1. \A l \in Legs : legs[e][l].matched = 0
    BY <1>2, <1>9, RunTypes DEF RouteNoExposure, Positive, LegRow, Stakes, Full, Run
  <2>2. Flat(e)
    BY <1>4, <2>1, ToldFlat
  <2>3. Fits(e, "aborted")
    BY <1>4, <2>2 DEF Fits, Vouched
  <2> QED BY <1>8, <1>9, <2>3 DEF RouteNoExposure, RunStatus
<1>10. CASE RouteImpossible(p)
  <2>1. Fits(e, "emergency")
    BY <1>4 DEF Fits, Vouched
  <2> QED BY <1>8, <1>10, <2>1 DEF RouteImpossible, RunStatus
<1>11. CASE RouteCovered(p)
  <2>1. Missing(e) = {}
    BY <1>2, <1>11 DEF RouteCovered, Run
  <2>2. Fits(e, "rescued")
    BY <1>4, <2>1, CoveredByLegs
  <2> QED BY <1>8, <1>11, <2>2 DEF RouteCovered, RunStatus
<1>12. ASSUME NEW v \in Venues, RouteRescue(p, v) PROVE Leaves(p, e)
  <2>1. /\ pc'[p] = "preflight" /\ job'[p].run = e /\ job'[p].slot = Rescue
        /\ job'[p].via = v /\ job'[p].tripped = job[p].tripped
        /\ runStatus' = runStatus /\ Cardinality(Missing(e)) = 1
    BY <1>2, <1>12 DEF RouteRescue, Goto, Job, Run
  <2>2. Rescuing(p, e)'
    BY <1>5, <1>6, <2>1 DEF Rescuing, Unrescued
  <2> QED BY <1>4, <2>1, <2>2
          DEF Leaves, Working, Coming, Looping, InHand, Leaving, Asking, Asked
<1> QED BY <1>7, <1>9, <1>10, <1>11, <1>12
-----------------------------------------------------------------------------
(* The steps that settle a run *)

\* The status written, and what follows it.
LEMMA LeavesSettling ==
  ASSUME BaseInv, NEW p \in Procs, NEW e \in Executions, Run(p) = e, Working(p, e),
         Acts(p),
         Settle(p) \/ SetHalt(p) \/ ReleaseLock(p) \/ ResolveMark(p) \/ ClearHalt(p)
  PROVE  Leaves(p, e)
<1> USE DEF ledger, venue, told
<1>1. pc[p] \in {"settle", "set_halt", "release", "resolve", "clear_halt"}
  BY DEF Settle, SetHalt, ReleaseLock, ResolveMark, ClearHalt
<1>2. /\ pc \in [Procs -> Steps] /\ job \in [Procs -> Job] /\ job[p].run = e
      /\ job[p] \in Job /\ runStatus \in [Executions -> RunStatus]
      /\ runStatus[e] \in RunStatus
  BY <1>1, InWork
<1>3. Kept(e)
  BY <1>1, StillKeeps
<1>4. CASE Settle(p)
  <2>1. pc[p] = "settle" /\ runStatus'[e] = job[p].verdict /\ job[p].verdict \in RunStatus
    BY <1>2, <1>4 DEF Settle, SetRun, Run, Job
  <2>2. PICK s \in RunStatus : s = job[p].verdict
    BY <2>1
  <2>3. Fits(e, s)
    BY <2>1, <2>2 DEF Working, Leaving
  <2>4. Fits(e, s)'
    BY <1>3, <2>3, KeepsFit
  <2>5. Standing(e)'
    BY <2>1, <2>2, <2>4 DEF Standing
  <2>6. CASE s \in {"prepared", "rescuing"}
    <3>1. Finish(p)
      BY <1>4, <2>2, <2>6 DEF Settle, Terminal
    <3> QED BY <2>5, <3>1, Ends DEF Leaves
  <2>7. CASE s \notin {"prepared", "rescuing"}
    <3>1. /\ job' = job
          /\ \/ pc'[p] = "set_halt" /\ s = "emergency"
             \/ pc'[p] = "release"
      BY <1>2, <1>4, <2>2, <2>7 DEF Settle, Goto
    <3>2. Working(p, e)'
      BY <2>1, <2>2, <2>5, <3>1
         DEF Working, Coming, Looping, Rescuing, InHand, Leaving, Asking, Asked, Submitting
    <3> QED BY <1>2, <3>1, <3>2 DEF Leaves
  <2> QED BY <2>6, <2>7
<1>5. CASE SetHalt(p) \/ ReleaseLock(p) \/ ClearHalt(p)
  <2>1. Standing(e) /\ runStatus' = runStatus /\ Finish(p)
    BY <1>5 DEF SetHalt, ReleaseLock, ClearHalt, Working, Leaving
  <2>2. Standing(e)'
    BY <1>3, <2>1, KeepsStanding
  <2> QED BY <2>1, <2>2, Ends DEF Leaves
<1>6. CASE ResolveMark(p)
  <2>1. pc[p] = "resolve" /\ runStatus'[e] = "aborted"
    BY <1>2, <1>6 DEF ResolveMark, SetRun, Run
  <2>2. e \in neutralised /\ Vouched(e)
    BY <1>2, <2>1 DEF Working, Leaving, Standing, Fits
  <2>3. Fits(e, "aborted")
    BY <2>2 DEF Fits
  <2>4. Fits(e, "aborted")'
    BY <1>3, <2>3, KeepsFit DEF RunStatus
  <2>5. Standing(e)'
    BY <2>1, <2>4 DEF Standing
  <2>6. CASE Finish(p)
    BY <2>5, <2>6, Ends DEF Leaves
  <2>7. CASE ~Finish(p)
    <3>1. pc'[p] = "clear_halt" /\ job' = job
      BY <1>2, <1>6, <2>7 DEF ResolveMark, Goto
    <3>2. Working(p, e)'
      BY <2>1, <2>5, <3>1
         DEF Working, Coming, Looping, Rescuing, InHand, Leaving, Asking, Asked, Submitting
    <3> QED BY <1>2, <3>1, <3>2 DEF Leaves
  <2> QED BY <2>6, <2>7
<1> QED BY <1>4, <1>5, <1>6
-----------------------------------------------------------------------------
(* The commands that start *)

\* The commands that take up a run without writing a row.
LEMMA LeavesStarting ==
  ASSUME BaseInv, Serial, SerialInv, NEW p \in Procs, NEW e \in Executions, pc[p] = "idle",
         PrepareStart(p, e) \/ ResumeLoad(p, e) \/ Resolve(p, e)
  PROVE  Leaves(p, e)
<1> USE DEF ledger, venue, told
<1>1. /\ pc \in [Procs -> Steps] /\ job \in [Procs -> Job]
      /\ runStatus \in [Executions -> RunStatus]
  BY DEF BaseInv, OrderInv, TypeInv, DataOK, ProcsOK
<1>2. Standing(e) /\ Run(p) # e
  <2>1. \A q \in Procs : q = p
    BY DEF Serial
  <2>2. Run(p) = None /\ None \notin Executions
    BY CoreAssumption DEF SerialInv
  <2>3. ~AtWork(e)
    BY <2>1, <2>2 DEF AtWork
  <2> QED BY <2>2, <2>3 DEF SerialInv
<1>3. \A s : Start(p, e, s) =>
        pc'[p] = s /\ job'[p].run = e /\ job'[p].leg = 1 /\ job'[p].slot = Rescue
  BY <1>1 DEF Start, Goto, IdleJob
<1>4. CASE PrepareStart(p, e)
  <2>1. pc'[p] = "lock" /\ job'[p].run = e /\ job'[p].leg = 1
    BY <1>3, <1>4 DEF PrepareStart
  <2> QED BY <2>1
          DEF Leaves, Working, Coming, Looping, Rescuing, InHand, Leaving, Asking, Asked,
              Submitting
<1>5. CASE ResumeLoad(p, e)
  <2>1. /\ pc'[p] = "halt_check" /\ job'[p].run = e /\ runStatus' = runStatus
        /\ plan' = plan /\ legs' = legs /\ sent' = sent /\ book' = book
        /\ neutralised' = neutralised
    BY <1>3, <1>5 DEF ResumeLoad
  <2>2. Kept(e)
    BY <2>1 DEF Kept
  <2>3. runStatus[e] \in {"prepared", "rescuing", "emergency"}
    <3>1. runStatus[e] # "executing"
      BY <1>2 DEF Standing, Fits, RunStatus
    <3> QED BY <1>1, <1>5, <3>1 DEF ResumeLoad, Terminal, RunStatus
  <2>4. Standing(e)'
    BY <1>2, <2>1, <2>2, KeepsStanding
  <2> QED BY <2>1, <2>3, <2>4
          DEF Leaves, Working, Coming, Looping, Rescuing, InHand, Leaving, Asking, Asked,
              Submitting
<1>6. CASE Resolve(p, e)
  <2>1. /\ pc'[p] = "resolve" /\ job'[p].run = e /\ runStatus' = runStatus
        /\ plan' = plan /\ legs' = legs /\ sent' = sent /\ book' = book
        /\ neutralised' = neutralised \cup {e}
    BY <1>3, <1>6 DEF Resolve
  <2>2. Kept(e)
    BY <2>1 DEF Kept
  <2>3. Standing(e)'
    BY <1>2, <2>1, <2>2, KeepsStanding
  <2> QED BY <2>1, <2>3
          DEF Leaves, Working, Coming, Looping, Rescuing, InHand, Leaving, Asking, Asked,
              Submitting
<1> QED BY <1>4, <1>5, <1>6

\* The report on the manual leg writes its row and decides how the run goes on.
LEMMA LeavesConfirming ==
  ASSUME BaseInv, Serial, SerialInv, NEW p \in Procs, NEW e \in Executions,
         ConfirmAccepted(p, e) \/ ConfirmRejected(p, e)
  PROVE  Leaves(p, e)
<1> USE DEF ledger, venue, told
<1>1. /\ pc \in [Procs -> Steps] /\ job \in [Procs -> Job]
      /\ runStatus \in [Executions -> RunStatus] /\ pc[p] = "idle"
      /\ legs \in [Executions -> [Slots -> LegRow]]
      /\ 1 \in Legs /\ Legs \subseteq Slots /\ Rescue \notin Legs /\ Rescue \in Slots
  BY Constants DEF BaseInv, OrderInv, TypeInv, DataOK, ProcsOK, ConfirmAccepted, ConfirmRejected
<1>2. /\ plan' = plan /\ runStatus' = runStatus /\ book' = book /\ sent' = sent
      /\ neutralised' = neutralised /\ runStatus[e] = "waiting_manual" /\ HasManual(e)
  BY DEF ConfirmAccepted, ConfirmRejected, MayConfirm, Serial
<1>3. Standing(e)
  <2>1. \A q \in Procs : q = p
    BY DEF Serial
  <2>2. Run(p) = None /\ None \notin Executions
    BY <1>1, CoreAssumption DEF SerialInv
  <2>3. ~AtWork(e)
    BY <2>1, <2>2 DEF AtWork
  <2> QED BY <2>3 DEF SerialInv
<1>4. Early(e) /\ Laid(e)
  BY <1>2, <1>3 DEF Standing, Fits, RunStatus
<1>5. ManualKey(e) = Own(e, 1)
  BY <1>2 DEF BaseInv, OrderInv, RunInv, Sorted, ManualKey, Own
<1>6. /\ book[Own(e, 1)] \in Book /\ (~book[Own(e, 1)].resting)
  <2>1. book[Own(e, 1)] \in Book
    BY <1>1, RunTypes
  <2>2. CASE book[Own(e, 1)] = Untouched
    <3>1. ~Untouched.resting
      BY DEF Untouched
    <3> QED BY <2>1, <2>2, <3>1
  <2>3. CASE book[Own(e, 1)] # Untouched
    BY <1>1, <1>4, <1>5, <2>1, <2>3, UnsentMeans DEF Early
  <2> QED BY <2>1, <2>2, <2>3
<1>7. PICK r \in [status : {"accepted", "partially_matched", "rejected"}, matched : Stakes] :
        /\ SaveLeg(e, 1, r) /\ r.matched = book[Own(e, 1)].held
        /\ r.status = "accepted" => r.matched = Full
        /\ pc'[p] = "settle" /\ job'[p].run = e
        /\ \/ ConfirmAccepted(p, e) /\ job'[p].verdict \in {"prepared", "rescuing"}
           \/ ConfirmRejected(p, e) /\ job'[p].verdict = "aborted" /\ r.matched = 0
  <2> DEFINE m == book[ManualKey(e)].held
  <2>1. m \in Stakes /\ m = book[Own(e, 1)].held /\ (m >= Full => m = Full)
    BY <1>5, <1>6 DEF Book, Stakes, Full
  <2>2. CASE ConfirmAccepted(p, e)
    <3> DEFINE s == IF m >= Full THEN "accepted" ELSE "partially_matched"
    <3>1. SaveLeg(e, 1, Reported(s, m))
      BY <2>2 DEF ConfirmAccepted
    <3>2. /\ pc'[p] = "settle" /\ job'[p].run = e
          /\ job'[p].verdict = IF m >= Full THEN "prepared" ELSE "rescuing"
      BY <1>1, <2>2 DEF ConfirmAccepted, Goto, IdleJob
    <3>3. /\ Reported(s, m).matched = m /\ (Reported(s, m).status = "accepted" => m >= Full)
          /\ Reported(s, m) \in
               [status : {"accepted", "partially_matched", "rejected"}, matched : Stakes]
      BY <2>1 DEF Reported
    <3> HIDE DEF m, s
    <3> QED BY <2>1, <2>2, <3>1, <3>2, <3>3
  <2>3. CASE ConfirmRejected(p, e)
    <3>1. /\ SaveLeg(e, 1, Rejected) /\ m = 0
          /\ pc'[p] = "settle" /\ job'[p].run = e /\ job'[p].verdict = "aborted"
      BY <1>1, <2>3 DEF ConfirmRejected, Goto, IdleJob
    <3>2. /\ Rejected.matched = 0 /\ Rejected.status = "rejected"
          /\ Rejected \in
               [status : {"accepted", "partially_matched", "rejected"}, matched : Stakes]
      BY DEF Rejected, Reported, Stakes, Full
    <3> HIDE DEF m
    <3> QED BY <2>1, <2>3, <3>1, <3>2
  <2> QED BY <2>2, <2>3
<1>8. /\ legs'[e][1] = [status |-> r.status, matched |-> r.matched]
      /\ \A l \in Slots : l # 1 => legs'[e][l] = legs[e][l]
  BY <1>1, <1>7 DEF SaveLeg
<1>9. AllTold(e)'
  <2>1. Told(e, 1)'
    BY <1>2, <1>6, <1>7, <1>8 DEF Told, Tells, Own
  <2>2. \A l \in Legs : l # 1 => Told(e, l)'
    BY <1>1, <1>2, <1>4, <1>8 DEF Early, Told, Own
  <2> QED BY <2>1, <2>2 DEF AllTold
<1>10. Ready(e)'
  <2>1. Unsent(e)' /\ (legs[e][Rescue] = NoRow)'
    BY <1>1, <1>2, <1>4, <1>8 DEF Early, Unsent
  <2>2. Laid(e)'
    BY <1>1, <1>4, <1>7, <1>8 DEF Laid
  <2> QED BY <1>9, <2>1, <2>2 DEF Ready
<1>11. Vouched(e)'
  BY <1>9 DEF AllTold, Vouched
<1>12. \A s \in {"prepared", "rescuing"} : Fits(e, s)'
  BY <1>10, <1>11 DEF Fits
<1>13. r.matched = 0 => Fits(e, "aborted")'
  <2>1. ASSUME r.matched = 0 PROVE Flat(e)
    BY <1>4, <1>5, <1>7, <2>1, UnsentMeans DEF Early
  <2>2. Flat(e) => Flat(e)'
    BY <1>2 DEF Flat
  <2> QED BY <1>11, <2>1, <2>2 DEF Fits
<1>14. Leaving(p, e)'
  <2>1. runStatus'[e] \notin Terminal /\ legs'[e][1].status # "manual_required"
    BY <1>2, <1>7, <1>8 DEF Terminal
  <2>2. \A s \in RunStatus : job'[p].verdict = s => Fits(e, s)'
    BY <1>7, <1>12, <1>13
  <2> QED BY <1>7, <2>1, <2>2 DEF Leaving
<1> QED BY <1>7, <1>14
        DEF Leaves, Working, Coming, Looping, Rescuing, InHand, Asking, Asked, Submitting
-----------------------------------------------------------------------------
(* The steps of the environment *)

\* A run that such a step leaves alone, or leaves as SerialInv asks.
Spared(e) ==
  \/ Kept(e) /\ runStatus'[e] = runStatus[e]
  \/ ~AtWork(e) /\ Standing(e)'
  \/ AtWork(e) /\ \A p \in Procs : Run(p) = e => Working(p, e)'

\* A step of no command that spares every run keeps SerialInv.
LEMMA KeepsAll ==
  ASSUME BaseInv, SerialInv, pc' = pc, job' = job, \A e \in Executions : Spared(e)
  PROVE  SerialInv'
<1>1. \A p \in Procs : pc'[p] = "idle" => Run(p)' = None
  BY DEF SerialInv, Run
<1>2. \A e \in Executions : AtWork(e)' <=> AtWork(e)
  BY DEF AtWork, Run
<1>3. ASSUME NEW e \in Executions, ~AtWork(e) PROVE Standing(e)'
  BY <1>3, KeepsStanding DEF SerialInv, Spared
<1>4. ASSUME NEW p \in Procs, NEW e \in Executions, Run(p) = e PROVE Working(p, e)'
  <2>1. CASE Kept(e) /\ runStatus'[e] = runStatus[e]
    <3>1. Working(p, e) /\ pc'[p] = pc[p] /\ job'[p] = job[p]
      BY <1>4 DEF SerialInv
    <3> QED BY <1>4, <2>1, <3>1, KeepsWorking
  <2>2. AtWork(e)
    BY <1>4 DEF AtWork
  <2> QED BY <1>4, <2>1, <2>2 DEF Spared
<1> QED BY <1>1, <1>2, <1>3, <1>4 DEF SerialInv, Run

\* The zero-exposure abort takes only a run that nobody works on and that is flat.
LEMMA AbortKeeps ==
  ASSUME BaseInv, Serial, SerialInv, NEW e \in Executions, AbortIfFlat(e)
  PROVE  SerialInv'
<1> USE DEF ledger, venue, told
<1>1. /\ runStatus \in [Executions -> RunStatus]
      /\ plan' = plan /\ legs' = legs /\ sent' = sent /\ book' = book
      /\ neutralised' = neutralised /\ pc' = pc /\ job' = job
      /\ runStatus' = [runStatus EXCEPT ![e] = "aborted"]
      /\ runStatus[e] \in {"waiting_manual", "prepared"}
      /\ ~AtWork(e) /\ ~(book[ManualKey(e)].held > 0)
  BY DEF AbortIfFlat, SetRun, BaseInv, OrderInv, TypeInv, DataOK, Serial
<1>2. \A f \in Executions : Kept(f)
  BY <1>1 DEF Kept
<1>3. Standing(e)
  BY <1>1 DEF SerialInv
<1>4. Vouched(e) /\ Unsent(e)
  BY <1>1, <1>3 DEF Standing, Fits, RunStatus, Early, Ready
<1>5. book[ManualKey(e)].held = 0
  BY <1>1, RunTypes DEF Book, Stakes, Full
<1>6. Fits(e, "aborted")
  BY <1>4, <1>5, UnsentMeans DEF Fits
<1>7. Fits(e, "aborted")'
  BY <1>2, <1>6, KeepsFit DEF RunStatus
<1>8. Standing(e)'
  BY <1>1, <1>7 DEF Standing
<1>9. \A f \in Executions : Spared(f)
  BY <1>1, <1>2, <1>8 DEF Spared
<1> QED BY <1>1, <1>9, KeepsAll

\* A bet by hand goes to a run that waits for it: whoever works on that run is
\* still laying its legs, or has come to resolve it.
LEMMA BetKeeps ==
  ASSUME BaseInv, Serial, SerialInv, NEW e \in Executions, NEW m \in 1..Full,
         OperatorBets(e, m)
  PROVE  SerialInv'
<1> USE DEF ledger, venue, told
<1>1. /\ book \in [Key -> Book] /\ pc \in [Procs -> Steps]
      /\ plan' = plan /\ legs' = legs /\ sent' = sent /\ runStatus' = runStatus
      /\ neutralised' = neutralised /\ pc' = pc /\ job' = job
      /\ runStatus[e] = "waiting_manual" /\ legs[e][1].status = "manual_required"
      /\ \A k \in Key : k # ManualKey(e) => book'[k] = book[k]
  BY DEF OperatorBets, BaseInv, OrderInv, TypeInv, DataOK, ProcsOK
<1>2. ASSUME NEW f \in Executions, f # e PROVE Kept(f)
  BY <1>1, <1>2 DEF Kept, ManualKey
<1>3. \A l \in Legs : l # 1 => Own(e, l) \in Key /\ Own(e, l) # ManualKey(e)
  BY RunTypes DEF Own, ManualKey
<1>4. \A l \in Legs : l # 1 /\ Told(e, l) => Told(e, l)'
  BY <1>1, <1>3 DEF Told, Own
<1>5. Early(e) => Early(e)'
  BY <1>1, <1>4 DEF Early, Unsent
<1>6. Standing(e) => Standing(e)'
  <2>1. ASSUME Standing(e) PROVE Fits(e, "waiting_manual")'
    <3>1. Early(e) /\ Laid(e)
      BY <1>1, <2>1 DEF Standing, Fits, RunStatus
    <3>2. Early(e)' /\ Laid(e)'
      BY <1>1, <1>5, <3>1 DEF Laid
    <3>3. Vouched(e)'
      BY <1>1, <3>2 DEF Early, Vouched
    <3> QED BY <3>2, <3>3 DEF Fits
  <2> QED BY <1>1, <2>1 DEF Standing
<1>7. ASSUME NEW p \in Procs, Run(p) = e PROVE Working(p, e)'
  <2>1. Working(p, e) /\ Guarded(p)
    BY <1>7 DEF SerialInv, BaseInv, GateInv
  <2>2. pc[p] \in {"idle", "legs", "resolve"}
    <3>1. pc[p] \in Steps
      BY <1>1
    <3>2. runStatus[e] \notin Terminal \cup {"none", "emergency"}
      BY <1>1 DEF Terminal
    <3>3. pc[p] \notin {"lock", "create", "undo", "release", "set_halt", "clear_halt"}
      BY <1>7, <2>1, <3>2 DEF Guarded, Working, Leaving, Terminal
    <3>4. pc[p] \notin {"halt_check", "mark", "leg", "orphan", "route"} \cup Submitting
      BY <1>1, <2>1 DEF Working, Coming
    <3>5. pc[p] # "settle"
      BY <1>1, <2>1 DEF Working, Leaving
    <3> QED BY <3>1, <3>3, <3>4, <3>5 DEF Steps, Submitting
  <2>3. CASE pc[p] = "legs"
    <3>1. HasManual(e)' <=> HasManual(e)
      BY <1>1 DEF HasManual
    <3>2. Coming(p, e)'
      BY <1>1, <1>5, <2>1, <2>3, <3>1 DEF Working, Coming, Submitting
    <3> QED BY <1>1, <2>3, <3>2
            DEF Working, Looping, Rescuing, InHand, Leaving, Asking, Asked, Submitting
  <2>4. CASE pc[p] = "resolve"
    BY <1>1, <1>6, <2>1, <2>4
       DEF Working, Coming, Looping, Rescuing, InHand, Leaving, Asking, Asked, Submitting
  <2>5. CASE pc[p] = "idle"
    BY <1>1, <2>5
       DEF Working, Coming, Looping, Rescuing, InHand, Leaving, Asking, Asked, Submitting
  <2> QED BY <2>2, <2>3, <2>4, <2>5
<1>8. Spared(e)
  BY <1>6, <1>7 DEF Spared, SerialInv
<1>9. \A f \in Executions : Spared(f)
  BY <1>1, <1>2, <1>8 DEF Spared
<1> QED BY <1>1, <1>9, KeepsAll

\* The operator's halt and the venues' own steps leave every run alone.
LEMMA VenuesKeep ==
  ASSUME BaseInv, SerialInv,
         \/ OperatorHalts \/ UNCHANGED vars
         \/ \E k \in Key : VenueMatches(k) \/ VenueLapses(k)
  PROVE  SerialInv'
<1> USE DEF ledger, venue, told
<1>1. /\ book \in [Key -> Book]
      /\ plan' = plan /\ legs' = legs /\ sent' = sent /\ runStatus' = runStatus
      /\ neutralised' = neutralised /\ pc' = pc /\ job' = job
  BY DEF OperatorHalts, VenueMatches, VenueLapses, vars, BaseInv, OrderInv, TypeInv, DataOK
<1>2. \A k \in Key : ~book[k].resting => book'[k] = book[k]
  BY <1>1 DEF OperatorHalts, VenueMatches, VenueLapses, vars
<1>3. \A e \in Executions : Kept(e)
  BY <1>1, <1>2 DEF Kept
<1>4. \A e \in Executions : Spared(e)
  BY <1>1, <1>3 DEF Spared
<1> QED BY <1>1, <1>4, KeepsAll
-----------------------------------------------------------------------------
(* The invariant, and what it says of the runs *)

\* No command works at first, and no run has a status.
LEMMA SerialInit == Init => SerialInv
<1> SUFFICES ASSUME Init PROVE SerialInv
  OBVIOUS
<1>1. \A p \in Procs : pc[p] = "idle" /\ Run(p) = None
  BY DEF Init, Run, IdleJob
<1>2. \A e \in Executions : ~AtWork(e)
  BY <1>1, CoreAssumption DEF AtWork
<1>3. ASSUME NEW e \in Executions PROVE Standing(e)
  <2>1. BaseInv
    BY OrderInit, KeyInit, GateInit DEF BaseInv
  <2>2. runStatus[e] = "none"
    BY DEF Init
  <2> QED BY <2>1, <2>2, FreshRun DEF Standing
<1> QED BY <1>1, <1>2, <1>3 DEF SerialInv, AtWork

\* SerialInv is inductive, given the invariants above.
LEMMA SerialStep == BaseInv /\ SerialInv /\ Orderly /\ [Next]_vars => SerialInv'
<1> SUFFICES ASSUME BaseInv, SerialInv, Orderly, [Next]_vars PROVE SerialInv'
  OBVIOUS
<1>1. Serial
  BY DEF Orderly
<1>2. ASSUME NEW p \in Procs, Step(p) PROVE SerialInv'
  <2>1. Acts(p)
    BY <1>2 DEF Acts
  <2>2. pc[p] # "idle"
    BY <1>2 DEF Step, PrepareLock, PrepareCreate, PrepareRefused, PrepareLeg, PrepareUndo,
       ResumeHalted, ResumeChecked, ResumeMark, LegRowMissing, SkipLeg, SubmitLeg, LegsDone,
       AtLeg, PreflightRefused, PreflightOk, GateRefused, CanaryRefused, CanaryAuthorized,
       Send, SendRaises, Reconcile, CancelRemainder, Requery, Save, Orphan,
       RouteNoExposure, RouteImpossible, RouteCovered, RouteRescue, Settle,
       SetHalt, ReleaseLock, ResolveMark, ClearHalt
  <2>3. PICK e \in Executions : e = Run(p)
    BY <2>2, AtWorkTypes DEF BaseInv, OrderInv
  <2>4. Working(p, e)
    BY <2>3 DEF SerialInv
  <2>5. CASE PrepareLock(p) \/ PrepareCreate(p) \/ PrepareRefused(p) \/ PrepareUndo(p)
    BY <2>1, <2>3, <2>4, <2>5, LeavesFresh, Suffices, <1>1
  <2>6. CASE PrepareLeg(p)
    BY <2>1, <2>3, <2>4, <2>6, LeavesLaying, Suffices, <1>1
  <2>7. CASE ResumeHalted(p) \/ ResumeChecked(p) \/ ResumeMark(p)
    BY <2>1, <2>3, <2>4, <2>7, LeavesResuming, Suffices, <1>1
  <2>8. CASE LegRowMissing(p) \/ SkipLeg(p) \/ SubmitLeg(p) \/ LegsDone(p)
    BY <2>1, <2>3, <2>4, <2>8, LeavesLooping, Suffices, <1>1
  <2>9. CASE \/ PreflightRefused(p) \/ PreflightOk(p) \/ GateRefused(p)
             \/ CanaryRefused(p) \/ CanaryAuthorized(p)
    BY <2>1, <2>3, <2>4, <2>9, LeavesAsking, Suffices, <1>1
  <2>10. CASE Send(p) \/ SendRaises(p)
    BY <2>1, <2>3, <2>4, <2>10, LeavesSending, Suffices, <1>1
  <2>11. CASE Reconcile(p) \/ CancelRemainder(p) \/ Requery(p)
    BY <2>1, <2>3, <2>4, <2>11, LeavesAnswered, Suffices, <1>1
  <2>12. CASE Save(p)
    BY <2>1, <2>3, <2>4, <2>12, LeavesSavingLeg, LeavesSavingRescue, Suffices, <1>1
  <2>13. CASE \/ Orphan(p) \/ RouteNoExposure(p) \/ RouteImpossible(p) \/ RouteCovered(p)
              \/ \E v \in Venues : RouteRescue(p, v)
    BY <2>1, <2>3, <2>4, <2>13, LeavesRescuing, Suffices, <1>1
  <2>14. CASE Settle(p) \/ SetHalt(p) \/ ReleaseLock(p) \/ ResolveMark(p) \/ ClearHalt(p)
    BY <2>1, <2>3, <2>4, <2>14, LeavesSettling, Suffices, <1>1
  <2> QED BY <1>2, <2>5, <2>6, <2>7, <2>8, <2>9, <2>10, <2>11, <2>12, <2>13, <2>14 DEF Step
<1>3. ASSUME NEW p \in Procs, NEW e \in Executions, Command(p, e) PROVE SerialInv'
  <2>1. Acts(p)
    BY <1>3 DEF Acts
  <2>2. pc[p] = "idle"
    BY <1>3 DEF Command, PrepareStart, ConfirmAccepted, ConfirmRejected, ResumeLoad, Resolve,
                Start
  <2>3. Leaves(p, e)
    BY <1>1, <1>3, <2>2, LeavesStarting, LeavesConfirming DEF Command
  <2> QED BY <1>1, <2>1, <2>2, <2>3, Suffices
<1>4. ASSUME NEW p \in Procs PROVE ~PrepareError(p) /\ ~Crash(p)
  BY <1>1 DEF Serial, PrepareError, Crash, BaseInv, OrderInv, TypeInv, DataOK
<1>5. CASE Environment \/ UNCHANGED vars
  BY <1>1, <1>5, AbortKeeps, BetKeeps, VenuesKeep DEF Environment
<1> QED BY <1>2, <1>3, <1>4, <1>5 DEF Next

\* A run that has ended stands by its status, whoever still works on it.
LEMMA EndedStands ==
  ASSUME BaseInv, SerialInv, NEW e \in Executions, runStatus[e] \in Terminal
  PROVE  Standing(e)
<1>1. ASSUME NEW p \in Procs, Run(p) = e PROVE Standing(e)
  <2>1. Working(p, e) /\ Guarded(p)
    BY <1>1 DEF SerialInv, BaseInv, GateInv
  <2>2. pc[p] # "idle" /\ pc[p] \in Steps
    BY <1>1, CoreAssumption DEF SerialInv, BaseInv, OrderInv, TypeInv, ProcsOK
  <2>3. pc[p] \notin {"lock", "create", "undo", "set_halt"}
    BY <1>1, <2>1 DEF Guarded, Working, Leaving, Terminal
  <2>4. pc[p] \notin {"legs", "halt_check"}
    BY <2>1 DEF Working, Coming, Terminal
  <2>5. pc[p] \notin {"mark", "leg", "orphan", "route"} \cup Submitting
    BY <2>1 DEF Working, Coming
  <2>6. pc[p] # "settle"
    BY <2>1 DEF Working, Leaving
  <2>7. pc[p] \in {"release", "resolve", "clear_halt"}
    BY <2>2, <2>3, <2>4, <2>5, <2>6 DEF Steps, Submitting
  <2> QED BY <2>1, <2>7 DEF Working, Leaving
<1>2. CASE ~AtWork(e)
  BY <1>2 DEF SerialInv
<1> QED BY <1>1, <1>2 DEF AtWork

\* SerialInv gives the five properties.
LEMMA SerialGives ==
  ASSUME BaseInv, SerialInv
  PROVE  /\ AbortedIsFlat /\ CompletedIsHedged /\ RescuedIsCovered
         /\ LedgerIsTruthful /\ RescueAvoidsFailedVenue
<1>1. ASSUME NEW e \in Executions, NEW s \in Terminal, runStatus[e] = s PROVE Fits(e, s)
  BY <1>1, EndedStands DEF Standing, Terminal, RunStatus
<1>2. AbortedIsFlat
  BY <1>1 DEF AbortedIsFlat, Terminal, Fits
<1>3. CompletedIsHedged
  BY <1>1 DEF CompletedIsHedged, Terminal, Fits
<1>4. RescuedIsCovered
  <2>1. ASSUME NEW e \in Executions, runStatus[e] = "rescued" PROVE Closing(e)
    BY <1>1, <2>1 DEF Terminal, Fits
  <2> QED BY <2>1 DEF RescuedIsCovered, Closing, Open, Bought
<1>5. LedgerIsTruthful
  <2> SUFFICES ASSUME NEW e \in Executions, ~AtWork(e), NEW l \in Legs
               PROVE  \/ legs[e][l].status \in {"unknown", "manual_required"}
                      \/ legs[e][l].matched = Held(e, l)
    BY DEF LedgerIsTruthful
  <2>1. Vouched(e)
    BY RunTypes DEF SerialInv, Standing, Fits
  <2> QED BY <2>1 DEF Vouched, Told, Tells, Own, Held
<1>6. RescueAvoidsFailedVenue
  <2> SUFFICES ASSUME NEW p \in Procs, pc[p] = "send", job[p].slot = Rescue, NEW l \in Legs,
                      sent[<<Run(p), l, job[p].via>>] > 0
               PROVE  legs[Run(p)][l].status = "accepted"
    BY DEF RescueAvoidsFailedVenue
  <2>1. PICK e \in Executions : e = Run(p)
    BY AtWorkTypes DEF BaseInv, OrderInv
  <2>2. Working(p, e)
    BY <2>1 DEF SerialInv
  <2>3. Broken(p, e, l) /\ job[p].via \notin job[p].tripped
    BY <2>2 DEF Working, Rescuing, InHand, Asking
  <2>4. job[p].via \in Venues
    BY <2>1, InWork DEF Submitting
  <2> QED BY <2>1, <2>3, <2>4 DEF Broken
<1> QED BY <1>2, <1>3, <1>4, <1>5, <1>6

\* All the invariants together, one command at a time and at prompt venues.
LEMMA Orders == Orderly => (Spec => [](BaseInv /\ SerialInv))
<1> SUFFICES ASSUME Orderly PROVE Spec => [](BaseInv /\ SerialInv)
  OBVIOUS
<1>1. Init => BaseInv /\ SerialInv
  BY OrderInit, KeyInit, GateInit, SerialInit DEF BaseInv
<1>2. BaseInv /\ SerialInv /\ [Next]_vars => (BaseInv /\ SerialInv)'
  <2> SUFFICES ASSUME BaseInv, SerialInv, [Next]_vars PROVE BaseInv' /\ SerialInv'
    OBVIOUS
  <2>1. OrderInv' /\ KeyInv'
    BY OrderInvStep, KeyStep DEF BaseInv
  <2>2. GateInv'
    BY GateStep DEF BaseInv, OrderInv, Orderly
  <2>3. SerialInv'
    BY SerialStep
  <2> QED BY <2>1, <2>2, <2>3 DEF BaseInv
<1> QED BY <1>1, <1>2, PTL DEF Spec

\* One command at a time, with orders filled or killed and cancels that take the
\* remainder, a run recorded as aborted leaves nothing at any venue, unless an
\* operator vouched for it.
THEOREM AbortsAreFlat == Orderly => (Spec => []AbortedIsFlat)
<1> SUFFICES ASSUME Orderly PROVE Spec => []AbortedIsFlat
  OBVIOUS
<1>1. BaseInv /\ SerialInv => AbortedIsFlat
  BY SerialGives
<1> QED BY <1>1, Orders, PTL

\* Under the same conditions a run recorded as completed holds every leg in full
\* at its own venue.
THEOREM CompletesHedged == Orderly => (Spec => []CompletedIsHedged)
<1> SUFFICES ASSUME Orderly PROVE Spec => []CompletedIsHedged
  OBVIOUS
<1>1. BaseInv /\ SerialInv => CompletedIsHedged
  BY SerialGives
<1> QED BY <1>1, Orders, PTL

\* Under the same conditions a run recorded as rescued covers each outcome, and
\* none of them twice.
THEOREM RescuesCover == Orderly => (Spec => []RescuedIsCovered)
<1> SUFFICES ASSUME Orderly PROVE Spec => []RescuedIsCovered
  OBVIOUS
<1>1. BaseInv /\ SerialInv => RescuedIsCovered
  BY SerialGives
<1> QED BY <1>1, Orders, PTL

\* Under the same conditions the leg rows of a run that no command works on tell
\* what the venues hold, but where they say that nobody knows.
THEOREM LedgerTells == Orderly => (Spec => []LedgerIsTruthful)
<1> SUFFICES ASSUME Orderly PROVE Spec => []LedgerIsTruthful
  OBVIOUS
<1>1. BaseInv /\ SerialInv => LedgerIsTruthful
  BY SerialGives
<1> QED BY <1>1, Orders, PTL

\* Under the same conditions no rescue order goes to a venue that refused, or did
\* not fill, an order of the same run.
THEOREM RescuesAvoidFailed == Orderly => (Spec => []RescueAvoidsFailedVenue)
<1> SUFFICES ASSUME Orderly PROVE Spec => []RescueAvoidsFailedVenue
  OBVIOUS
<1>1. BaseInv /\ SerialInv => RescueAvoidsFailedVenue
  BY SerialGives
<1> QED BY <1>1, Orders, PTL
=============================================================================
