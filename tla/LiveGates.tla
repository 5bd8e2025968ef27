----------------------------- MODULE LiveGates -----------------------------
(***************************************************************************)
(* The gates before new live risk: venue certification (by a command, by   *)
(* the monitor's timer or by commissioning), production commissioning, and *)
(* `prepare --live` with its readiness, funding and commissioning checks.  *)
(* The certificates and the commissioning reports are shared tables; every *)
(* command is a process of its own that makes remote calls between reading *)
(* and writing them. What a venue answers is an input of each call. Every  *)
(* gate is enabled, and all is in production.                              *)
(***************************************************************************)
EXTENDS Integers, Sequences, FiniteSets, Functions

CONSTANTS
  Commands,       \* processes side by side: Commands[p], what p may be asked to do
  Venues,         \* the automatic venues, in order
  Outcomes,
  Plans,          \* the opportunities of stored scans: legs and quotes
  Balances,       \* free balances an account may show
  Safe,           \* Safe[n]: version n of the policy file enables the canary
  Minimum,        \* Minimum[n]: the free balance it asks for
  Buffer,         \* SPORTAGE_RESCUE_BALANCE_BUFFER_PCT, in percent
  CertTTL, MonitorTTL, ReportTTL,
  None,
  MaxVersion,     \* bound: the last version of the policy file
  MaxClock,       \* bound: the end of time
  MaxRuns         \* bound: live runs known at a time; a new one may take the
                  \* place of one that has ended, which then stays ended

Procs == DOMAIN Commands
Automatic == { Venues[i] : i \in 1..Len(Venues) }

\* legs: outcome -> [venue, stake]; a venue outside Automatic is a manual one.
\* quotes[v][o]: None without a fresh native quote, else the stake that pays the
\* plan's payout at stressed odds, and whether the depth is there for it.
Plan ==
  [legs   : [Outcomes -> [venue : Automatic \cup {"manual"}, stake : Nat]],
   quotes : [Automatic -> [Outcomes -> [stake : Nat, deep : BOOLEAN] \cup {None}]]]

ASSUME VenuesAssumption ==
  /\ Venues \in Seq(Automatic) /\ Venues # <<>>
  /\ \A i, j \in 1..Len(Venues) : Venues[i] = Venues[j] => i = j

ASSUME GatesAssumption ==
  /\ \A p \in Procs :
       Commands[p] \subseteq {"certify", "monitor", "commission", "prepare"}
  /\ Plans \subseteq Plan /\ IsFiniteSet(Outcomes) /\ Cardinality(Outcomes) = 2
  /\ Balances \subseteq Nat /\ Buffer \in 0..100
  /\ Safe \in [0..MaxVersion -> BOOLEAN] /\ Minimum \in [0..MaxVersion -> Nat]
  /\ {CertTTL, MonitorTTL, ReportTTL} \subseteq Nat \ {0}
  /\ {MaxVersion, MaxClock, MaxRuns} \subseteq Nat

VARIABLES
  clock,
  version,   \* of the policy file; an edited file does not go back to an old text
  cert,      \* venue_certifications: the row of a venue, or None
  report,    \* the last row of commissioning_runs, or None
  runs,      \* execution_runs, live rows: whether active, and since when
  task,      \* task[p]: the command p is at, the place in it, and a venue's index
  probe,     \* probe[p]: the certification under way, if any
  local      \* local[p]: the other local variables of the command

vars == <<clock, version, cert, report, runs, task, probe, local>>
tables == <<clock, version, cert, report, runs>>

Idle == [kind |-> "none", at |-> "idle", i |-> 1]
NoProbe == [began |-> 0, ttl |-> 0, first |-> 0]

Init ==
  /\ clock = 0 /\ version = 0
  /\ cert = [v \in Automatic |-> None]
  /\ report = None
  /\ runs = [i \in 1..MaxRuns |-> [status |-> "none", since |-> 0]]
  /\ task = [p \in Procs |-> Idle]
  /\ probe = [p \in Procs |-> NoProbe]
  /\ local = [p \in Procs |-> None]

Is(p, kind, place) == task[p].kind = kind /\ task[p].at = place
IsIdle(p) == task[p].at = "idle"
Venue(p) == Venues[task[p].i]
LastVenue(p) == task[p].i = Len(Venues)

Goto(p, place) == task' = [task EXCEPT ![p].at = place]
GotoFirst(p, place) == task' = [task EXCEPT ![p].at = place, ![p].i = 1]

\* The same for the next venue, or on to another place.
NextVenue(p, place) ==
  IF LastVenue(p) THEN GotoFirst(p, place) ELSE task' = [task EXCEPT ![p].i = @ + 1]

Return(p) ==
  /\ task' = [task EXCEPT ![p] = Idle]
  /\ local' = [local EXCEPT ![p] = None]

Valid(v) == cert[v] # None /\ cert[v].success /\ cert[v].expires > clock

---------------------------------------------------------------------------
(* Certification                                                           *)

Probing(ttl) == [began |-> clock, ttl |-> ttl, first |-> clock]

\* venue-certify of a venue, or the monitor at a configured one.
StartCertify(p, i, kind) ==
  /\ IsIdle(p) /\ kind \in Commands[p]
  /\ task' = [task EXCEPT ![p] = [kind |-> kind, at |-> "probe", i |-> i]]
  /\ probe' = [probe EXCEPT ![p] = Probing(IF kind = "monitor" THEN MonitorTTL ELSE CertTTL)]
  /\ UNCHANGED <<tables, local>>

\* (mutant) The certificate counts from its recording.
IssuedAt_End(t) == clock

IssuedAt(t) == t.began

\* (mutant) A failure is given a term as well.
Expiry_Always(t, success) == IssuedAt(t) + t.ttl

Expiry(t, success) == IF success THEN IssuedAt(t) + t.ttl ELSE IssuedAt(t)

\* The row; stale is when its oldest check will be as old as its term.
Certificate(t, success) ==
  [expires |-> Expiry(t, success), success |-> success,
   stale |-> IF success THEN t.first + t.ttl ELSE 0]

\* Without credentials the failure is recorded at once.
CertifyUnconfigured(p, v) ==
  /\ IsIdle(p) /\ "certify" \in Commands[p]
  /\ cert' = [cert EXCEPT ![v] = Certificate(Probing(CertTTL), FALSE)]
  /\ UNCHANGED <<clock, version, report, runs, task, probe, local>>

\* The first check, market data; session and preflight come later.
Probe(p) ==
  /\ task[p].at = "probe"
  /\ probe' = [probe EXCEPT ![p].first = clock]
  /\ Goto(p, "certificate")
  /\ UNCHANGED <<tables, local>>

\* When the last check is made the row is replaced, whatever has been recorded
\* meanwhile. Commissioning then goes on to the next venue.
RecordCertificate(p, success) ==
  /\ task[p].at = "certificate"
  /\ cert' = [cert EXCEPT ![Venue(p)] = Certificate(probe[p], success)]
  /\ IF task[p].kind = "commission" /\ ~ LastVenue(p)
     THEN /\ task' = [task EXCEPT ![p].at = "probe", ![p].i = @ + 1]
          /\ probe' = [probe EXCEPT ![p] = Probing(CertTTL)]
     ELSE /\ IF task[p].kind = "commission" THEN GotoFirst(p, "validity")
             ELSE task' = [task EXCEPT ![p] = Idle]
          /\ probe' = [probe EXCEPT ![p] = NoProbe]
  /\ UNCHANGED <<clock, version, report, runs, local>>

---------------------------------------------------------------------------
(* Commissioning                                                           *)

ActiveRuns == { i \in DOMAIN runs : runs[i].status = "active" }

StartCommissioning(p) ==
  /\ IsIdle(p) /\ "commission" \in Commands[p]
  /\ task' = [task EXCEPT ![p] = [kind |-> "commission", at |-> "local", i |-> 1]]
  /\ local' = [local EXCEPT ![p] = [started |-> clock, fingerprint |-> version, read |-> {}]]
  /\ UNCHANGED <<tables, probe>>

\* A check that fails leaves the report a failure, whatever the remaining ones
\* find; nothing that they change is ever asked for.
FailCheck(p, place) ==
  /\ Is(p, "commission", place)
  /\ GotoFirst(p, "record")
  /\ local' = [local EXCEPT ![p] = None]
  /\ UNCHANGED <<tables, probe>>

\* The policy file is read, as by every later step that reads it.
ReadPolicy(p) == local' = [local EXCEPT ![p].read = @ \cup {version}]

\* (mutant) Runs that are still active do not fail the commissioning.
Clean_RunsIgnored == Safe[version]

\* The configuration and the tables (the master switch, a halt and locks may fail
\* them too). Remote checks follow only if all is well, with or without new
\* certificates.
Clean == Safe[version] /\ ActiveRuns = {}

LocalChecks(p, refresh) ==
  /\ Is(p, "commission", "local") /\ Clean
  /\ ReadPolicy(p)
  /\ Goto(p, IF refresh THEN "probe" ELSE "validity")
  /\ probe' = [probe EXCEPT ![p] = IF refresh THEN Probing(CertTTL) ELSE NoProbe]
  /\ UNCHANGED tables

CheckValidity(p) ==
  /\ Is(p, "commission", "validity") /\ \A v \in Automatic : Valid(v)
  /\ GotoFirst(p, "accounts")
  /\ UNCHANGED <<tables, probe, local>>

\* An account shows its balance, and nothing bet or locked.
Sufficient(balance) == 100 * balance >= Minimum[version] * (100 + Buffer)

CheckAccount(p, balance) ==
  /\ Is(p, "commission", "accounts") /\ Sufficient(balance)
  /\ ReadPolicy(p)
  /\ NextVenue(p, "mapping")
  /\ UNCHANGED <<tables, probe>>

\* Some market is quoted alike on all venues.
CheckMapping(p) ==
  /\ Is(p, "commission", "mapping")
  /\ Goto(p, "record")
  /\ UNCHANGED <<tables, probe, local>>

\* A check does not pass, or its call raises.
CheckFails(p) ==
  \/ FailCheck(p, "local")
  \/ FailCheck(p, "validity") /\ \E v \in Automatic : ~ Valid(v)
  \/ FailCheck(p, "accounts") \/ FailCheck(p, "mapping")

\* (mutant) The fingerprint is taken when the report is made.
Fingerprint_AtEnd(t) == version

Fingerprint(t) == t.fingerprint

\* Of a report that failed only that is ever asked.
Failed == [success |-> FALSE]

RecordReport(p) ==
  LET t == local[p] IN
  /\ Is(p, "commission", "record")
  /\ report' = IF t # None THEN [success |-> TRUE, started |-> t.started, read |-> t.read,
                             fingerprint |-> Fingerprint(t), expires |-> clock + ReportTTL]
                ELSE Failed
  /\ Return(p)
  /\ UNCHANGED <<clock, version, cert, runs, probe>>

Commissioned ==
  /\ report # None /\ report.success
  /\ report.fingerprint = version /\ report.expires > clock

---------------------------------------------------------------------------
(* prepare --live                                                          *)

Used(plan) == { plan.legs[o].venue : o \in Outcomes } \cap Automatic
OutcomesAt(plan, v) == { o \in Outcomes : plan.legs[o].venue = v }
Planned(plan, v) ==
  SumFunctionOnSet([o \in Outcomes |-> plan.legs[o].stake], OutcomesAt(plan, v))
Quoted(plan) == { v \in Automatic : \A o \in Outcomes : plan.quotes[v][o] # None }

\* rescue_map[f]: certified venues that quote every outcome.
Alternatives(plan, f) == { v \in Quoted(plan) \ {f} : Valid(v) }

\* Readiness, in one reading of the certificates. A refusal ends the command.
CheckReadiness(p, plan) ==
  /\ IsIdle(p) /\ "prepare" \in Commands[p]
  /\ Used(plan) # {} /\ \A f \in Used(plan) : Valid(f) /\ Alternatives(plan, f) # {}
  /\ task' = [task EXCEPT ![p] = [kind |-> "prepare", at |-> "funds", i |-> 1]]
  /\ local' = [local EXCEPT ![p] =
       [plan |-> plan, certified |-> [f \in Used(plan) |-> Alternatives(plan, f)],
        seen |-> [v \in Automatic |-> None], under |-> 0]]
  /\ UNCHANGED <<tables, probe>>

\* The accounts in the map are read one after the other.
Mapped(t) == DOMAIN t.certified \cup UNION { t.certified[f] : f \in DOMAIN t.certified }

ReadAccount(p, balance) ==
  /\ Is(p, "prepare", "funds")
  /\ local' = [local EXCEPT ![p].seen[Venue(p)] =
                 IF Venue(p) \in Mapped(local[p]) THEN balance ELSE None]
  /\ Venue(p) \notin Mapped(local[p]) => balance = 0
  /\ NextVenue(p, "reserve")
  /\ UNCHANGED <<tables, probe>>

\* What v takes to replace the legs at f.
Replacement(plan, f, v) ==
  LET S == OutcomesAt(plan, f)
  IN  SumFunctionOnSet([o \in S |-> plan.quotes[v][o].stake], S)

CeilPercent(n) == (n * (100 + Buffer) + 99) \div 100
Reserve(plan, f, v) == CeilPercent(Replacement(plan, f, v))
Deep(plan, f, v) == \A o \in OutcomesAt(plan, f) : plan.quotes[v][o].deep

\* (mutant) The venue's own planned legs are forgotten.
FreeAfterPlanned_Gross(t, v) == t.seen[v]

FreeAfterPlanned(t, v) == t.seen[v] - Planned(t.plan, v)

Viable(t, f) ==
  { v \in t.certified[f] : /\ Deep(t.plan, f, v)
                           /\ FreeAfterPlanned(t, v) >= Reserve(t.plan, f, v) }

Funded(t) ==
  /\ \A v \in Used(t.plan) : t.seen[v] >= Planned(t.plan, v)
  /\ \A f \in DOMAIN t.certified : Viable(t, f) # {}

\* assert_live_funding ends well, and the coordinator goes to create_run.
PassFunding(p) ==
  /\ Is(p, "prepare", "reserve") /\ Funded(local[p])
  /\ Goto(p, "commissioned")
  /\ UNCHANGED <<tables, probe, local>>

\* create_run: assert_plan asks for commissioning, and the row is inserted.
PassCommissioning(p) ==
  /\ Is(p, "prepare", "commissioned") /\ Commissioned
  /\ local' = [local EXCEPT ![p] = [@ EXCEPT !.under = report.started]]
  /\ Goto(p, "insert")
  /\ UNCHANGED <<tables, probe>>

CreateRun(p, i) ==
  /\ Is(p, "prepare", "insert") /\ i \notin ActiveRuns
  /\ runs' = [runs EXCEPT ![i] = [status |-> "active", since |-> clock]]
  /\ Return(p)
  /\ UNCHANGED <<clock, version, cert, report, probe>>

\* The run is executed (module ExecutionCoordinator), and ends.
EndRun(i) ==
  /\ i \in ActiveRuns
  /\ runs' = [runs EXCEPT ![i] = [status |-> "ended", since |-> 0]]
  /\ UNCHANGED <<clock, version, cert, report, task, probe, local>>

\* A late confirm_manual_leg, which looks at no status, or a resume whose check
\* came before the run ended, makes it active again; its row is the old one.
ReopenRun(i) ==
  /\ runs[i].status = "ended"
  /\ runs' = [runs EXCEPT ![i] = [status |-> "active", since |-> clock]]
  /\ UNCHANGED <<clock, version, cert, report, task, probe, local>>

---------------------------------------------------------------------------
\* A gate refuses, a call or a database statement raises, or the process dies:
\* the command ends, and what it has not written is lost.
Stop(p) ==
  /\ ~ IsIdle(p)
  /\ Return(p)
  /\ probe' = [probe EXCEPT ![p] = NoProbe]
  /\ UNCHANGED tables

EditPolicy ==
  /\ version < MaxVersion
  /\ version' = version + 1
  /\ UNCHANGED <<clock, cert, report, runs, task, probe, local>>

\* Time passes at remote calls, between commands, and before the insertion.
Waiting(p) ==
  task[p].at \in {"idle", "probe", "certificate", "accounts", "mapping", "record",
                 "funds", "insert"}

PassTime ==
  /\ clock < MaxClock /\ \A p \in Procs : Waiting(p)
  /\ clock' = clock + 1
  /\ UNCHANGED <<version, cert, report, runs, task, probe, local>>

Certifying(p) ==
  \/ \E i \in 1..Len(Venues), kind \in {"certify", "monitor"} : StartCertify(p, i, kind)
  \/ \E v \in Automatic : CertifyUnconfigured(p, v)
  \/ Probe(p)
  \/ \E success \in BOOLEAN : RecordCertificate(p, success)

Commissioning(p) ==
  \/ StartCommissioning(p)
  \/ \E refresh \in BOOLEAN : LocalChecks(p, refresh)
  \/ CheckValidity(p)
  \/ \E balance \in Balances : CheckAccount(p, balance)
  \/ CheckMapping(p) \/ CheckFails(p) \/ RecordReport(p)

Preparing(p) ==
  \/ \E plan \in Plans : CheckReadiness(p, plan)
  \/ \E balance \in Balances : ReadAccount(p, balance)
  \/ PassFunding(p) \/ PassCommissioning(p)
  \/ \E i \in DOMAIN runs : CreateRun(p, i)

Next ==
  \/ \E p \in Procs : Certifying(p) \/ Commissioning(p) \/ Preparing(p) \/ Stop(p)
  \/ \E i \in DOMAIN runs : EndRun(i) \/ ReopenRun(i)
  \/ EditPolicy \/ PassTime

Spec == Init /\ [][Next]_vars

---------------------------------------------------------------------------
(* Properties                                                              *)

\* Types; a failed certificate has no term.
TypeOK ==
  /\ clock \in 0..MaxClock /\ version \in 0..MaxVersion
  /\ \A v \in Automatic : cert[v] # None /\ ~ cert[v].success => cert[v].expires <= clock
  /\ report # None /\ report.success => report.started \in 0..clock
  /\ \A i \in DOMAIN runs : runs[i].since \in 0..clock

\* However long its checks take, and whichever of several writers was the last,
\* a certificate that unlocks a venue rests on no check older than its term
\* (src/docs/EXECUTION_PROTOCOL.md, "Venue certification gate").
CertificateIsRecent ==
  \A v \in Automatic : Valid(v) => clock < cert[v].stale

\* The commissioning that unlocks a live plan has checked the very configuration
\* in force, whenever the file was edited (src/docs/COMMISSIONING.md).
CommissionedConfigWasChecked ==
  Commissioned => report.read = {version} /\ Safe[version]

\* Commissioning never vouches for new risk with older risk open: when a live run
\* is inserted, every live run then active has become so after the commissioning
\* that authorises the new one had begun. An old run is among them only if it had
\* ended and was reopened since.
NoRiskPredatesItsCommissioning ==
  \A p \in Procs : Is(p, "prepare", "insert") =>
    \A i \in ActiveRuns : runs[i].since >= local[p].under

\* A live plan that is inserted survives the loss of any one automatic venue: as
\* the balances were read, another certified venue can pay its own planned legs
\* and the stakes that replace all the lost ones, and has the depth for them.
PlanSurvivesOneFailure ==
  \A p \in Procs : Is(p, "prepare", "insert") =>
    LET t == local[p]
        plan == t.plan
    IN  \A f \in Used(plan) : \E v \in t.certified[f] \ {f} :
          /\ \A o \in OutcomesAt(plan, f) : plan.quotes[v][o] # None /\ plan.quotes[v][o].deep
          /\ t.seen[v] >= Planned(plan, v) + Replacement(plan, f, v)
=============================================================================
