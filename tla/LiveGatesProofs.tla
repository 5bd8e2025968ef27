-------------------------- MODULE LiveGatesProofs --------------------------
(***************************************************************************)
(* Proofs about LiveGates, for any venues, plans, balances, policy file    *)
(* versions, terms and number of processes: its type invariant, that a     *)
(* certificate is recent, that commissioning has checked the configuration *)
(* in force and vouches for no older risk, and that a live plan survives    *)
(* the loss of one venue.                                                  *)
(***************************************************************************)
EXTENDS LiveGates, SumTheorems, TLAPS

---------------------------------------------------------------------------
(* The inductive invariant                                                 *)

\* The shape of the state.
Kinds == {"none", "certify", "monitor", "commission", "prepare"}
Places == {"idle", "probe", "certificate", "local", "validity", "accounts", "mapping",
           "record", "funds", "reserve", "commissioned", "insert"}
Tasks == [Procs -> [kind : Kinds, at : Places, i : 1..Len(Venues)]]
Rows == [status : {"none", "active", "ended"}, since : 0..clock]
Shapes ==
  /\ clock \in 0..MaxClock /\ version \in 0..MaxVersion
  /\ DOMAIN cert = Automatic
  /\ runs \in [1..MaxRuns -> Rows]
  /\ task \in Tasks
  /\ probe \in [Procs -> [began : 0..clock, ttl : Nat, first : 0..clock]]
  /\ DOMAIN local = Procs

\* A certification begins before its first check, so that a certificate runs out
\* before that check is as old as its term; a failed one has run out.
CertificatesInv ==
  /\ \A p \in Procs : probe[p].began <= probe[p].first
  /\ \A v \in Automatic : cert[v] # None =>
       /\ cert[v] \in [expires : Nat, success : BOOLEAN, stale : Nat]
       /\ IF cert[v].success THEN cert[v].expires <= cert[v].stale
          ELSE cert[v].expires <= clock

\* Every live run that is active has been so since t or a later time.
RunsSince(t) == \A i \in ActiveRuns : runs[i].since >= t

\* What commissioning has established once its local checks have passed: it has
\* read no version older than the fingerprint, a fingerprint that is still in
\* force was safe, and no run has been active since before its start.
Vouched(started, fingerprint, read) ==
  /\ started \in 0..clock
  /\ fingerprint \in 0..version
  /\ read \subseteq fingerprint..version /\ read # {}
  /\ fingerprint = version => Safe[version]
  /\ RunsSince(started)

Commission == [started : Int, fingerprint : Int, read : SUBSET Int]
Vouches(t) == t \in Commission /\ Vouched(t.started, t.fingerprint, t.read)

\* The local variables of commissioning, at each place.
CommissionInv ==
  \A p \in Procs : task[p].kind = "commission" =>
    /\ task[p].at = "local" =>
         local[p] \in [started : 0..clock, fingerprint : 0..version, read : {{}}]
    /\ task[p].at \in {"probe", "certificate", "validity", "accounts", "mapping"} =>
         Vouches(local[p])
    /\ task[p].at = "record" => local[p] = None \/ Vouches(local[p])

ReportInv ==
  report # None /\ report.success =>
    Vouched(report.started, report.fingerprint, report.read)

\* The plan of prepare --live, its rescue map over certified venues that quote it,
\* and the balances read so far.
IsPrepared(t) ==
  /\ t = [plan |-> t.plan, certified |-> t.certified, seen |-> t.seen, under |-> t.under]
  /\ t.plan \in Plans
  /\ t.certified \in [Used(t.plan) -> SUBSET Automatic]
  /\ \A f \in Used(t.plan) : t.certified[f] \subseteq Quoted(t.plan) \ {f}
  /\ t.seen \in [Automatic -> Nat \cup {None}]

\* What the funding check has found: a venue for the legs of each other one.
Survives(t) ==
  \A f \in Used(t.plan) : \E v \in t.certified[f] \ {f} :
    /\ \A o \in OutcomesAt(t.plan, f) :
         t.plan.quotes[v][o] # None /\ t.plan.quotes[v][o].deep
    /\ t.seen[v] >= Planned(t.plan, v) + Replacement(t.plan, f, v)

\* The local variables of prepare --live, at each place. The balances of the
\* venues before the one it is at have been read.
PrepareInv ==
  \A p \in Procs : task[p].kind = "prepare" =>
    /\ task[p].at \in {"funds", "reserve", "commissioned", "insert"} => IsPrepared(local[p])
    /\ task[p].at = "funds" =>
         \A j \in 1..(task[p].i - 1) : Venues[j] \in Mapped(local[p]) =>
           local[p].seen[Venues[j]] \in Nat
    /\ task[p].at = "reserve" => \A v \in Mapped(local[p]) : local[p].seen[v] \in Nat
    /\ task[p].at \in {"commissioned", "insert"} => Survives(local[p])
    /\ task[p].at = "insert" => RunsSince(local[p].under) /\ local[p].under \in 0..clock

GatesInv == Shapes /\ CertificatesInv /\ CommissionInv /\ ReportInv /\ PrepareInv

---------------------------------------------------------------------------
(* Shapes                                                                  *)

\* There is a venue, and a venue of each index.
LEMMA VenueIndexes ==
  /\ Len(Venues) \in Nat \ {0} /\ 1 \in 1..Len(Venues)
  /\ \A j \in 1..Len(Venues) : Venues[j] \in Automatic
  /\ \A v \in Automatic : \E j \in 1..Len(Venues) : v = Venues[j]
<1>1. Venues \in Seq(Automatic) /\ Venues # <<>>
  BY VenuesAssumption
<1>2. Len(Venues) \in Nat \ {0}
  BY <1>1
<1> QED
  BY <1>2 DEF Automatic

\* The bounds are natural numbers.
LEMMA Bounds ==
  /\ MaxClock \in Nat /\ MaxVersion \in Nat /\ MaxRuns \in Nat
  /\ CertTTL \in Nat \ {0} /\ MonitorTTL \in Nat \ {0} /\ ReportTTL \in Nat \ {0}
  BY GatesAssumption

\* The first state has these shapes.
LEMMA InitShapes == Init => Shapes
<1> SUFFICES ASSUME Init PROVE Shapes
  OBVIOUS
<1>1. task \in Tasks
  BY VenueIndexes DEF Init, Tasks, Kinds, Places, Idle
<1>2. clock \in 0..MaxClock /\ version \in 0..MaxVersion
  BY Bounds DEF Init
<1>3. runs \in [1..MaxRuns -> Rows]
  <2>1. [status |-> "none", since |-> 0] \in Rows
    BY DEF Init, Rows
  <2> QED
    BY <2>1 DEF Init
<1>4. probe \in [Procs -> [began : 0..clock, ttl : Nat, first : 0..clock]]
  BY DEF Init, NoProbe
<1> QED
  BY <1>1, <1>2, <1>3, <1>4 DEF Init, Shapes

\* Going to a place, to the next venue or home keeps the type of the tasks.
LEMMA Moves ==
  ASSUME task \in Tasks, NEW p \in Procs, NEW place \in Places
  PROVE  /\ Goto(p, place) => task' \in Tasks
         /\ GotoFirst(p, place) => task' \in Tasks
         /\ NextVenue(p, place) => task' \in Tasks
         /\ Return(p) => task' \in Tasks
<1> DEFINE Task == [kind : Kinds, at : Places, i : 1..Len(Venues)]
<1> USE VenueIndexes DEF Tasks
<1>0. task[p] \in Task
  OBVIOUS
<1>1. Goto(p, place) => task' \in Tasks
  BY DEF Goto
<1>2. GotoFirst(p, place) => task' \in Tasks
  <2>1. [task[p] EXCEPT !.at = place, !.i = 1] \in Task
    BY <1>0
  <2>2. GotoFirst(p, place) => task' = [task EXCEPT ![p] = [task[p] EXCEPT !.at = place, !.i = 1]]
    BY <1>0 DEF GotoFirst, Task
  <2> QED
    BY <2>1, <2>2, <1>0
<1>3. NextVenue(p, place) => task' \in Tasks
  BY <1>2 DEF NextVenue, LastVenue
<1>4. Return(p) => task' \in Tasks
  BY DEF Return, Idle, Kinds, Places
<1> QED
  BY <1>1, <1>2, <1>3, <1>4

\* Every step keeps the type of the tasks.
LEMMA StepTasks == Shapes /\ [Next]_vars => task' \in Tasks
<1> SUFFICES ASSUME Shapes, [Next]_vars
             PROVE  task' \in Tasks
  OBVIOUS
<1>0. task \in Tasks /\ 1 \in 1..Len(Venues)
  BY VenueIndexes DEF Shapes
<1>a. /\ "probe" \in Places /\ "certificate" \in Places /\ "validity" \in Places
      /\ "accounts" \in Places /\ "mapping" \in Places /\ "record" \in Places
      /\ "funds" \in Places /\ "reserve" \in Places /\ "commissioned" \in Places
      /\ "insert" \in Places /\ "idle" \in Places /\ "local" \in Places
  BY DEF Places
<1>1. ASSUME NEW p \in Procs, NEW i \in 1..Len(Venues), NEW kind \in {"certify", "monitor"},
             StartCertify(p, i, kind)
      PROVE  task' \in Tasks
  BY <1>0, <1>1 DEF StartCertify, Tasks, Kinds, Places
<1>2. ASSUME NEW p \in Procs, NEW v \in Automatic, CertifyUnconfigured(p, v) PROVE task' \in Tasks
  BY <1>0, <1>2 DEF CertifyUnconfigured
<1>3. ASSUME NEW p \in Procs, NEW success \in BOOLEAN, RecordCertificate(p, success)
      PROVE  task' \in Tasks
  <2>1. CASE task[p].kind = "commission" /\ ~ LastVenue(p)
    BY <1>0, <1>3, <2>1, VenueIndexes DEF RecordCertificate, LastVenue, Tasks, Places
  <2>2. CASE task[p].kind = "commission" /\ LastVenue(p)
    BY <1>0, <1>a, <1>3, <2>2, Moves DEF RecordCertificate
  <2>3. CASE task[p].kind # "commission"
    BY <1>0, <1>3, <2>3 DEF RecordCertificate, Tasks, Idle, Kinds, Places
  <2> QED
    BY <2>1, <2>2, <2>3
<1>4. ASSUME NEW p \in Procs, StartCommissioning(p) PROVE task' \in Tasks
  BY <1>0, <1>4 DEF StartCommissioning, Tasks, Kinds, Places
<1>5. ASSUME NEW p \in Procs, NEW refresh \in BOOLEAN, LocalChecks(p, refresh)
      PROVE  task' \in Tasks
  <2>1. Goto(p, IF refresh THEN "probe" ELSE "validity")
    BY <1>5 DEF LocalChecks
  <2> QED
    BY <1>0, <1>a, <2>1, Moves
<1>6. ASSUME NEW p \in Procs, NEW place \in Places,
             \/ Goto(p, place) \/ GotoFirst(p, place) \/ NextVenue(p, place) \/ Return(p)
      PROVE  task' \in Tasks
  BY <1>0, <1>6, Moves
<1>7. ASSUME NEW p \in Procs,
             \/ Probe(p) \/ CheckValidity(p) \/ CheckMapping(p) \/ CheckFails(p)
             \/ RecordReport(p) \/ PassFunding(p) \/ PassCommissioning(p) \/ Stop(p)
      PROVE  task' \in Tasks
  BY <1>a, <1>6, <1>7 DEF Probe, CheckValidity, CheckMapping, CheckFails, FailCheck,
     RecordReport, PassFunding, PassCommissioning, Stop
<1>8. ASSUME NEW p \in Procs, NEW balance \in Balances,
             CheckAccount(p, balance) \/ ReadAccount(p, balance)
      PROVE  task' \in Tasks
  BY <1>a, <1>6, <1>8 DEF CheckAccount, ReadAccount
<1>9. ASSUME NEW p \in Procs, NEW plan \in Plans, CheckReadiness(p, plan) PROVE task' \in Tasks
  BY <1>0, <1>9 DEF CheckReadiness, Tasks, Kinds, Places
<1>10. ASSUME NEW p \in Procs, NEW i \in DOMAIN runs, CreateRun(p, i) PROVE task' \in Tasks
  BY <1>a, <1>6, <1>10 DEF CreateRun
<1>11. ASSUME UNCHANGED task PROVE task' \in Tasks
  BY <1>0, <1>11
<1> QED
  BY <1>1, <1>2, <1>3, <1>4, <1>5, <1>7, <1>8, <1>9, <1>10, <1>11
     DEF Next, Certifying, Commissioning, Preparing, EndRun, ReopenRun, EditPolicy, PassTime,
         vars

\* Time passes, and the policy file gets new versions.
LEMMA StepClock ==
  Shapes /\ [Next]_vars =>
    /\ clock' \in clock..MaxClock
    /\ version' \in version..MaxVersion
<1> SUFFICES ASSUME Shapes, [Next]_vars
             PROVE  clock' \in clock..MaxClock /\ version' \in version..MaxVersion
  OBVIOUS
<1>0. clock \in 0..MaxClock /\ version \in 0..MaxVersion /\ MaxClock \in Nat /\ MaxVersion \in Nat
  BY Bounds DEF Shapes
<1>1. CASE EditPolicy
  BY <1>0, <1>1 DEF EditPolicy
<1>2. CASE PassTime
  BY <1>0, <1>2 DEF PassTime
<1>3. CASE UNCHANGED <<clock, version>>
  BY <1>0, <1>3
<1> QED
  BY <1>1, <1>2, <1>3
     DEF Next, Certifying, Commissioning, Preparing, EndRun, ReopenRun, vars, tables,
         StartCertify, CertifyUnconfigured, Probe, RecordCertificate, StartCommissioning,
         LocalChecks, CheckValidity, CheckAccount, CheckMapping, CheckFails, FailCheck,
         RecordReport, CheckReadiness, ReadAccount, PassFunding, PassCommissioning, CreateRun,
         Stop

\* A run that is active after a step was so before, since the same time, or is new
\* or reopened.
LEMMA StepRuns ==
  Shapes /\ [Next]_vars =>
    /\ runs' \in [1..MaxRuns -> Rows']
    /\ \A i \in ActiveRuns' : runs'[i].since = clock
                              \/ (i \in ActiveRuns /\ runs'[i].since = runs[i].since)
<1> SUFFICES ASSUME Shapes, [Next]_vars
             PROVE  /\ runs' \in [1..MaxRuns -> Rows']
                    /\ \A i \in ActiveRuns' :
                         runs'[i].since = clock
                         \/ (i \in ActiveRuns /\ runs'[i].since = runs[i].since)
  OBVIOUS
<1>0. runs \in [1..MaxRuns -> Rows] /\ Rows \subseteq Rows' /\ clock \in 0..clock'
  BY StepClock, Bounds DEF Shapes, Rows
<1> USE <1>0 DEF ActiveRuns
<1>1. ASSUME NEW p \in Procs, NEW i \in DOMAIN runs, CreateRun(p, i)
      PROVE  /\ runs' \in [1..MaxRuns -> Rows']
             /\ \A k \in ActiveRuns' : runs'[k].since = clock
                  \/ (k \in ActiveRuns /\ runs'[k].since = runs[k].since)
  <2>1. [status |-> "active", since |-> clock] \in Rows'
    BY DEF Rows
  <2>2. \A k \in DOMAIN runs' : runs'[k] = IF k = i THEN [status |-> "active", since |-> clock]
                                         ELSE runs[k]
    BY <1>1 DEF CreateRun
  <2>3. runs' \in [1..MaxRuns -> Rows']
    BY <1>1, <2>1 DEF CreateRun
  <2> QED
    BY <2>2, <2>3
<1>2. ASSUME NEW i \in DOMAIN runs, ReopenRun(i)
      PROVE  /\ runs' \in [1..MaxRuns -> Rows']
             /\ \A k \in ActiveRuns' : runs'[k].since = clock
                  \/ (k \in ActiveRuns /\ runs'[k].since = runs[k].since)
  BY <1>2 DEF ReopenRun, Rows
<1>3. ASSUME NEW i \in DOMAIN runs, EndRun(i)
      PROVE  /\ runs' \in [1..MaxRuns -> Rows']
             /\ \A k \in ActiveRuns' : runs'[k].since = clock
                  \/ (k \in ActiveRuns /\ runs'[k].since = runs[k].since)
  BY <1>3 DEF EndRun, Rows
<1>4. ASSUME UNCHANGED runs
      PROVE  /\ runs' \in [1..MaxRuns -> Rows']
             /\ \A k \in ActiveRuns' : runs'[k].since = clock
                  \/ (k \in ActiveRuns /\ runs'[k].since = runs[k].since)
  BY <1>4
<1> QED
  BY <1>1, <1>2, <1>3, <1>4
     DEF Next, Certifying, Commissioning, Preparing, EditPolicy, PassTime, vars, tables,
         StartCertify, CertifyUnconfigured, Probe, RecordCertificate, StartCommissioning,
         LocalChecks, CheckValidity, CheckAccount, CheckMapping, CheckFails, FailCheck,
         RecordReport, CheckReadiness, ReadAccount, PassFunding, PassCommissioning, Stop

\* A certification that is under way began no later than its first check.
LEMMA StepProbes ==
  Shapes /\ CertificatesInv /\ [Next]_vars =>
    /\ probe' \in [Procs -> [began : 0..clock', ttl : Nat, first : 0..clock']]
    /\ \A p \in Procs : probe'[p].began <= probe'[p].first
<1> SUFFICES ASSUME Shapes, CertificatesInv, [Next]_vars
             PROVE  /\ probe' \in [Procs -> [began : 0..clock', ttl : Nat, first : 0..clock']]
                    /\ \A p \in Procs : probe'[p].began <= probe'[p].first
  OBVIOUS
<1> DEFINE Under == { t \in [began : 0..clock', ttl : Nat, first : 0..clock'] : t.began <= t.first }
<1>0. probe \in [Procs -> Under] /\ clock \in 0..clock' /\ clock \in Nat /\ clock' \in Nat
  BY StepClock, Bounds DEF Shapes, CertificatesInv
<1>a. \A ttl \in Nat : Probing(ttl) \in Under
  BY <1>0 DEF Probing
<1>b. NoProbe \in Under /\ CertTTL \in Nat /\ MonitorTTL \in Nat
  BY <1>0, Bounds DEF NoProbe
<1>c. ASSUME NEW p \in Procs, NEW t \in Under, probe' = [probe EXCEPT ![p] = t]
      PROVE  probe' \in [Procs -> Under]
  BY <1>c, <1>0
<1>1. ASSUME NEW p \in Procs, NEW i \in 1..Len(Venues), NEW kind \in {"certify", "monitor"},
             StartCertify(p, i, kind)
      PROVE  probe' \in [Procs -> Under]
  <2>1. Probing(IF kind = "monitor" THEN MonitorTTL ELSE CertTTL) \in Under
    BY <1>a, <1>b
  <2> QED
    BY <1>1, <2>1, <1>c DEF StartCertify
<1>2. ASSUME NEW p \in Procs, Probe(p) PROVE probe' \in [Procs -> Under]
  <2>1. clock' = clock
    BY <1>2 DEF Probe, tables
  <2>2. [probe[p] EXCEPT !.first = clock] \in Under
    BY <1>0, <2>1
  <2>3. probe' = [probe EXCEPT ![p] = [probe[p] EXCEPT !.first = clock]]
    BY <1>2 DEF Probe
  <2> QED
    BY <2>2, <2>3, <1>c
<1>3. ASSUME NEW p \in Procs, NEW success \in BOOLEAN, RecordCertificate(p, success)
      PROVE  probe' \in [Procs -> Under]
  BY <1>3, <1>a, <1>b, <1>c DEF RecordCertificate
<1>4. ASSUME NEW p \in Procs, NEW refresh \in BOOLEAN, LocalChecks(p, refresh)
      PROVE  probe' \in [Procs -> Under]
  <2>1. (IF refresh THEN Probing(CertTTL) ELSE NoProbe) \in Under
    BY <1>a, <1>b
  <2> QED
    BY <1>4, <2>1, <1>c DEF LocalChecks
<1>5. ASSUME NEW p \in Procs, Stop(p) PROVE probe' \in [Procs -> Under]
  BY <1>5, <1>b, <1>c DEF Stop
<1>6. ASSUME UNCHANGED probe PROVE probe' \in [Procs -> Under]
  BY <1>6, <1>0
<1>7. probe' \in [Procs -> Under]
  BY <1>1, <1>2, <1>3, <1>4, <1>5, <1>6
     DEF Next, Certifying, Commissioning, Preparing, EndRun, ReopenRun, EditPolicy, PassTime,
         vars, tables, CertifyUnconfigured, StartCommissioning, CheckValidity, CheckAccount,
         CheckMapping, CheckFails, FailCheck, RecordReport, CheckReadiness, ReadAccount,
         PassFunding, PassCommissioning, CreateRun
<1> QED
  BY <1>7

\* A certificate made of a certification under way.
LEMMA CertificateMade ==
  ASSUME Shapes, NEW t \in [began : 0..clock, ttl : Nat, first : 0..clock], t.began <= t.first,
         NEW success \in BOOLEAN
  PROVE  LET c == Certificate(t, success)
         IN  /\ c \in [expires : Nat, success : BOOLEAN, stale : Nat]
             /\ IF c.success THEN c.expires <= c.stale ELSE c.expires <= clock
<1>1. clock \in Nat /\ t.began \in Nat /\ t.first \in Nat /\ t.ttl \in Nat /\ t.began <= clock
  BY Bounds DEF Shapes
<1> QED
  BY <1>1 DEF Certificate, Expiry, IssuedAt

\* Every step keeps the certificates.
LEMMA StepCertificates ==
  Shapes /\ CertificatesInv /\ [Next]_vars => CertificatesInv' /\ DOMAIN cert' = Automatic
<1> SUFFICES ASSUME Shapes, CertificatesInv, [Next]_vars
             PROVE  CertificatesInv' /\ DOMAIN cert' = Automatic
  OBVIOUS
<1> DEFINE Made(c) == /\ c \in [expires : Nat, success : BOOLEAN, stale : Nat]
                      /\ IF c.success THEN c.expires <= c.stale ELSE c.expires <= clock
           Kept == /\ DOMAIN cert' = Automatic
                   /\ \A v \in Automatic : cert'[v] # None => Made(cert'[v])
<1>0. DOMAIN cert = Automatic /\ \A v \in Automatic : cert[v] # None => Made(cert[v])
  BY DEF Shapes, CertificatesInv
<1>1. ASSUME NEW p \in Procs, NEW v \in Automatic, CertifyUnconfigured(p, v) PROVE Kept
  <2>1. Probing(CertTTL) \in [began : 0..clock, ttl : Nat, first : 0..clock]
          /\ Probing(CertTTL).began <= Probing(CertTTL).first
    BY Bounds DEF Probing, Shapes
  <2>2. Made(Certificate(Probing(CertTTL), FALSE))
    BY <2>1, CertificateMade
  <2> HIDE DEF Made
  <2> QED
    BY <1>0, <1>1, <2>2 DEF CertifyUnconfigured
<1>2. ASSUME NEW p \in Procs, NEW success \in BOOLEAN, RecordCertificate(p, success) PROVE Kept
  <2>1. probe[p] \in [began : 0..clock, ttl : Nat, first : 0..clock]
          /\ probe[p].began <= probe[p].first
    BY DEF Shapes, CertificatesInv
  <2>2. Made(Certificate(probe[p], success))
    BY <2>1, CertificateMade
  <2>3. cert' = [cert EXCEPT ![Venue(p)] = Certificate(probe[p], success)]
    BY <1>2 DEF RecordCertificate
  <2> HIDE DEF Made
  <2> QED
    BY <1>0, <2>2, <2>3
<1>3. ASSUME UNCHANGED cert PROVE Kept
  BY <1>0, <1>3
<1>4. Kept
  BY <1>1, <1>2, <1>3
     DEF Next, Certifying, Commissioning, Preparing, EndRun, ReopenRun, EditPolicy, PassTime,
         vars, tables, StartCertify, Probe, StartCommissioning, LocalChecks, CheckValidity,
         CheckAccount, CheckMapping, CheckFails, FailCheck, RecordReport, CheckReadiness,
         ReadAccount, PassFunding, PassCommissioning, CreateRun, Stop
<1>5. \A c : Made(c) => IF c.success THEN c.expires <= c.stale ELSE c.expires <= clock'
  BY StepClock, Bounds DEF Shapes
<1> QED
  BY <1>4, <1>5, StepProbes DEF CertificatesInv

\* A step of one command leaves the others where they are.
LEMMA StepOthers ==
  ASSUME Shapes, NEW p \in Procs, Certifying(p) \/ Commissioning(p) \/ Preparing(p) \/ Stop(p)
  PROVE  /\ DOMAIN local' = Procs
         /\ \A q \in Procs \ {p} : task'[q] = task[q] /\ local'[q] = local[q]
<1>0. task \in Tasks /\ DOMAIN local = Procs
  BY DEF Shapes
<1> USE <1>0 DEF tables, Tasks
<1> DEFINE Kept == DOMAIN local' = Procs
                   /\ \A q \in Procs \ {p} : task'[q] = task[q] /\ local'[q] = local[q]
<1>1. ASSUME NEW i \in 1..Len(Venues), NEW kind \in {"certify", "monitor"},
             StartCertify(p, i, kind)
      PROVE  Kept
  BY <1>1 DEF StartCertify
<1>2. ASSUME NEW v \in Automatic, CertifyUnconfigured(p, v) PROVE Kept
  BY <1>2 DEF CertifyUnconfigured
<1>3. ASSUME NEW success \in BOOLEAN, RecordCertificate(p, success) PROVE Kept
  BY <1>3 DEF RecordCertificate, GotoFirst
<1>4. ASSUME NEW refresh \in BOOLEAN, LocalChecks(p, refresh) PROVE Kept
  BY <1>4 DEF LocalChecks, ReadPolicy, Goto
<1>5. ASSUME NEW balance \in Balances, CheckAccount(p, balance) PROVE Kept
  BY <1>5 DEF CheckAccount, ReadPolicy, NextVenue, GotoFirst
<1>6. ASSUME NEW place, FailCheck(p, place) PROVE Kept
  BY <1>6 DEF FailCheck, GotoFirst
<1>7. ASSUME Probe(p) \/ StartCommissioning(p) \/ CheckValidity(p) \/ CheckMapping(p) PROVE Kept
  BY <1>7 DEF Probe, StartCommissioning, CheckValidity, CheckMapping, Goto, GotoFirst
<1>8. ASSUME RecordReport(p) \/ Stop(p) PROVE Kept
  BY <1>8 DEF RecordReport, Stop, Return
<1>9. ASSUME NEW plan \in Plans, CheckReadiness(p, plan) PROVE Kept
  BY <1>9 DEF CheckReadiness
<1>10. ASSUME NEW balance \in Balances, ReadAccount(p, balance) PROVE Kept
  BY <1>10 DEF ReadAccount, NextVenue, GotoFirst
<1>11. ASSUME PassFunding(p) \/ PassCommissioning(p) PROVE Kept
  BY <1>11 DEF PassFunding, PassCommissioning, Goto
<1>12. ASSUME NEW i \in DOMAIN runs, CreateRun(p, i) PROVE Kept
  BY <1>12 DEF CreateRun, Return
<1> QED
  BY <1>1, <1>2, <1>3, <1>4, <1>5, <1>6, <1>7, <1>8, <1>9, <1>10, <1>11, <1>12
     DEF Certifying, Commissioning, Preparing, CheckFails

\* Every step keeps the shapes.
LEMMA StepShapes == Shapes /\ CertificatesInv /\ [Next]_vars => Shapes'
<1> SUFFICES ASSUME Shapes, CertificatesInv, [Next]_vars
             PROVE  Shapes'
  OBVIOUS
<1>1. clock' \in 0..MaxClock /\ version' \in 0..MaxVersion
  BY StepClock, Bounds DEF Shapes
<1>2. DOMAIN local' = Procs
  <2>1. ASSUME NEW p \in Procs, Certifying(p) \/ Commissioning(p) \/ Preparing(p) \/ Stop(p)
        PROVE  DOMAIN local' = Procs
    BY <2>1, StepOthers
  <2>2. ASSUME UNCHANGED local PROVE DOMAIN local' = Procs
    BY <2>2 DEF Shapes
  <2> QED
    BY <2>1, <2>2 DEF Next, EndRun, ReopenRun, EditPolicy, PassTime, vars
<1> QED
  BY <1>1, <1>2, StepTasks, StepRuns, StepProbes, StepCertificates DEF Shapes

---------------------------------------------------------------------------
(* Commissioning                                                           *)

\* Runs are created or reopened now and not earlier, so that no older risk joins.
LEMMA RunsSinceKept ==
  ASSUME Shapes, [Next]_vars, NEW t \in 0..clock, RunsSince(t)
  PROVE  RunsSince(t)'
<1>1. \A i \in ActiveRuns' : \/ runs'[i].since = clock
                             \/ i \in ActiveRuns /\ runs'[i].since = runs[i].since
  BY StepRuns
<1>2. clock \in Nat /\ t \in Nat /\ t <= clock
  BY Bounds DEF Shapes
<1>3. \A i \in ActiveRuns' : runs'[i].since >= t
  BY <1>1, <1>2 DEF RunsSince
<1> QED
  BY <1>3 DEF RunsSince

\* A new version of the policy file is none that has been read; what has been
\* established of the old one stays true.
LEMMA VouchedKept ==
  ASSUME Shapes, [Next]_vars, NEW s, NEW f, NEW r, Vouched(s, f, r)
  PROVE  Vouched(s, f, r)'
<1>1. s \in 0..clock /\ f \in 0..version /\ r \subseteq f..version /\ r # {} /\ RunsSince(s)
        /\ (f = version => Safe[version])
  BY DEF Vouched
<1>2. clock' \in clock..MaxClock /\ version' \in version..MaxVersion /\ clock \in Nat
        /\ version \in Nat /\ MaxClock \in Nat /\ MaxVersion \in Nat
  BY StepClock, Bounds DEF Shapes
<1>3. RunsSince(s)'
  BY <1>1, RunsSinceKept
<1>4. s \in 0..clock' /\ f \in 0..version'
  BY <1>1, <1>2
<1>5. f..version \subseteq f..version'
  BY <1>1, <1>2
<1>6. f = version' => Safe[version']
  BY <1>1, <1>2
<1> QED
  BY <1>1, <1>3, <1>4, <1>5, <1>6 DEF Vouched

\* Local variables that stay as they are keep vouching.
LEMMA VouchesKept ==
  ASSUME Shapes, [Next]_vars, NEW p \in Procs, Vouches(local[p]), local'[p] = local[p]
  PROVE  Vouches(local[p])'
<1>1. PICK t : t = local[p]
  OBVIOUS
<1>2. PICK s, f, r : s = t.started /\ f = t.fingerprint /\ r = t.read
  OBVIOUS
<1>3. t \in Commission /\ Vouched(s, f, r)
  BY <1>1, <1>2 DEF Vouches
<1>4. Vouched(s, f, r)'
  BY <1>3, VouchedKept
<1>5. local'[p] = t
  BY <1>1
<1> QED
  BY <1>2, <1>3, <1>4, <1>5 DEF Vouches, Vouched, RunsSince, ActiveRuns, Commission

\* What CommissionInv says of one process.
CommissionOf(p) ==
  task[p].kind = "commission" =>
    /\ task[p].at = "local" =>
         local[p] \in [started : 0..clock, fingerprint : 0..version, read : {{}}]
    /\ task[p].at \in {"probe", "certificate", "validity", "accounts", "mapping"} =>
         Vouches(local[p])
    /\ task[p].at = "record" => local[p] = None \/ Vouches(local[p])

\* A process that does not move keeps it.
LEMMA CommissionKept ==
  ASSUME Shapes, CommissionInv, [Next]_vars, NEW p \in Procs,
         task'[p] = task[p], local'[p] = local[p]
  PROVE  CommissionOf(p)'
<1>1. CommissionOf(p)
  BY DEF CommissionInv, CommissionOf
<1>2. Vouches(local[p]) => Vouches(local[p])'
  BY VouchesKept
<1>3. 0..clock \subseteq 0..clock' /\ 0..version \subseteq 0..version'
  BY StepClock, Bounds DEF Shapes
<1> QED
  BY <1>1, <1>2, <1>3 DEF CommissionOf

\* The local checks find a safe configuration and no run.
LEMMA LocalChecksVouch ==
  ASSUME Shapes, CommissionInv, NEW p \in Procs, NEW refresh \in BOOLEAN, LocalChecks(p, refresh)
  PROVE  Vouches(local[p])'
<1>1. local[p] \in [started : 0..clock, fingerprint : 0..version, read : {{}}]
  BY DEF CommissionInv, LocalChecks, Is
<1>2. local'[p] = [local[p] EXCEPT !.read = {version}]
  BY <1>1 DEF LocalChecks, ReadPolicy, Shapes
<1>3. clock' = clock /\ version' = version /\ runs' = runs
  BY DEF LocalChecks, tables
<1>4. clock \in Nat /\ version \in Nat
  BY Bounds DEF Shapes
<1>5. local'[p] \in Commission /\ local'[p].started \in 0..clock
        /\ local'[p].fingerprint \in 0..version /\ local'[p].read = {version}
  BY <1>1, <1>2, <1>4 DEF Commission
<1>6. Safe[version] /\ ActiveRuns = {}
  BY DEF LocalChecks, Clean
<1>7. ActiveRuns' = {}
  BY <1>3, <1>6 DEF ActiveRuns
<1> QED
  BY <1>3, <1>4, <1>5, <1>6, <1>7 DEF Vouches, Vouched, RunsSince

\* A later reading of the policy file reads no older version.
LEMMA AccountVouches ==
  ASSUME Shapes, CommissionInv, NEW p \in Procs, NEW balance \in Balances,
         CheckAccount(p, balance)
  PROVE  Vouches(local[p])'
<1>1. Vouches(local[p])
  BY DEF CommissionInv, CheckAccount, Is
<1>2. local'[p] = [local[p] EXCEPT !.read = local[p].read \cup {version}]
  BY DEF CheckAccount, ReadPolicy, Shapes
<1>3. clock' = clock /\ version' = version /\ runs' = runs
  BY DEF CheckAccount, tables
<1>4. clock \in Nat /\ version \in Nat
  BY Bounds DEF Shapes
<1>5. local[p] \in Commission /\ Vouched(local[p].started, local[p].fingerprint, local[p].read)
  BY <1>1 DEF Vouches
<1>6. local'[p] \in Commission /\ local'[p].started = local[p].started
        /\ local'[p].fingerprint = local[p].fingerprint
        /\ local'[p].read = local[p].read \cup {version}
  BY <1>2, <1>4, <1>5 DEF Commission
<1>7. version \in local[p].fingerprint..version
  BY <1>4, <1>5 DEF Vouched
<1>8. ActiveRuns' = ActiveRuns
  BY <1>3 DEF ActiveRuns
<1> QED
  BY <1>3, <1>5, <1>6, <1>7, <1>8 DEF Vouches, Vouched, RunsSince

\* Every step keeps what commissioning has established.
LEMMA StepCommission ==
  Shapes /\ CommissionInv /\ [Next]_vars => CommissionInv'
<1> SUFFICES ASSUME Shapes, CommissionInv, [Next]_vars
             PROVE  CommissionInv'
  OBVIOUS
<1>0. task \in Tasks /\ DOMAIN local = Procs
  BY DEF Shapes
<1>1. SUFFICES ASSUME NEW q \in Procs PROVE CommissionOf(q)'
  BY DEF CommissionInv, CommissionOf
<1>2. ASSUME UNCHANGED <<task, local>> PROVE CommissionOf(q)'
  BY <1>2, CommissionKept
<1>3. ASSUME NEW p \in Procs, Certifying(p) \/ Commissioning(p) \/ Preparing(p) \/ Stop(p)
      PROVE  CommissionOf(q)'
  <2>1. CASE q # p
    BY <1>3, <2>1, StepOthers, CommissionKept
  <2>2. CASE q = p
    <3> USE <1>0 DEF Tasks, CommissionOf
    <3>0. CommissionOf(p)
      BY DEF CommissionInv
    <3>a. local'[p] = local[p] /\ Vouches(local[p]) => Vouches(local[p])'
      BY VouchesKept
    <3>1. ASSUME NEW i \in 1..Len(Venues), NEW kind \in {"certify", "monitor"},
                 StartCertify(p, i, kind)
          PROVE  task'[p].kind # "commission"
      BY <3>1 DEF StartCertify
    <3>2. ASSUME NEW v \in Automatic, CertifyUnconfigured(p, v) PROVE CommissionOf(p)'
      BY <3>2, <1>2, <2>2 DEF CertifyUnconfigured
    <3>3. ASSUME NEW success \in BOOLEAN, RecordCertificate(p, success)
          PROVE  CommissionOf(p)'
      <4>1. CASE task[p].kind = "commission" /\ ~ LastVenue(p)
        BY <3>0, <3>a, <3>3, <4>1 DEF RecordCertificate
      <4>2. CASE task[p].kind = "commission" /\ LastVenue(p)
        BY <3>0, <3>a, <3>3, <4>2 DEF RecordCertificate, GotoFirst
      <4>3. CASE task[p].kind # "commission"
        BY <3>3, <4>3 DEF RecordCertificate, Idle
      <4> QED
        BY <4>1, <4>2, <4>3
    <3>4. ASSUME Probe(p) PROVE CommissionOf(p)'
      BY <3>0, <3>a, <3>4 DEF Probe, Goto
    <3>5. ASSUME StartCommissioning(p) PROVE CommissionOf(p)'
      <4>1. task'[p].at = "local" /\ clock' = clock /\ version' = version
              /\ local'[p] = [started |-> clock, fingerprint |-> version, read |-> {}]
        BY <3>5 DEF StartCommissioning, tables
      <4> QED
        BY <4>1, Bounds DEF Shapes
    <3>6. ASSUME NEW refresh \in BOOLEAN, LocalChecks(p, refresh) PROVE CommissionOf(p)'
      <4>1. Vouches(local[p])'
        BY <3>6, LocalChecksVouch
      <4>2. task'[p].at \in {"probe", "validity"}
        BY <3>6 DEF LocalChecks, Goto
      <4> QED
        BY <4>1, <4>2
    <3>7. ASSUME CheckValidity(p) \/ CheckMapping(p) PROVE CommissionOf(p)'
      <4>1. Vouches(local[p]) /\ local'[p] = local[p]
        BY <3>0, <3>7 DEF CheckValidity, CheckMapping, Is
      <4>2. task'[p].at \in {"accounts", "record"}
        BY <3>7 DEF CheckValidity, CheckMapping, Goto, GotoFirst
      <4> QED
        BY <4>1, <4>2, <3>a
    <3>8. ASSUME NEW balance \in Balances, CheckAccount(p, balance) PROVE CommissionOf(p)'
      <4>1. Vouches(local[p])'
        BY <3>8, AccountVouches
      <4>2. task'[p].at \in {"accounts", "mapping"}
        BY <3>8 DEF CheckAccount, NextVenue, GotoFirst, Is
      <4> QED
        BY <4>1, <4>2
    <3>9. ASSUME NEW place, FailCheck(p, place) PROVE CommissionOf(p)'
      <4>1. task'[p].at = "record" /\ local'[p] = None
        BY <3>9 DEF FailCheck, GotoFirst
      <4> QED
        BY <4>1
    <3>10. ASSUME RecordReport(p) \/ Stop(p) PROVE task'[p].kind # "commission"
      BY <3>10 DEF RecordReport, Stop, Return, Idle
    <3>11. ASSUME NEW plan \in Plans, CheckReadiness(p, plan) PROVE task'[p].kind # "commission"
      BY <3>11 DEF CheckReadiness
    <3>12. ASSUME NEW balance \in Balances, ReadAccount(p, balance)
           PROVE  task'[p].kind # "commission"
      BY <3>12 DEF ReadAccount, NextVenue, GotoFirst, Is
    <3>13. ASSUME PassFunding(p) \/ PassCommissioning(p) PROVE task'[p].kind # "commission"
      BY <3>13 DEF PassFunding, PassCommissioning, Goto, Is
    <3>14. ASSUME NEW i \in DOMAIN runs, CreateRun(p, i) PROVE task'[p].kind # "commission"
      BY <3>14 DEF CreateRun, Return, Idle
    <3>15. task'[p].kind # "commission" => CommissionOf(p)'
      OBVIOUS
    <3> QED
      BY <1>3, <2>2, <3>1, <3>2, <3>3, <3>4, <3>5, <3>6, <3>7, <3>8, <3>9, <3>10, <3>11, <3>12,
         <3>13, <3>14, <3>15 DEF Certifying, Commissioning, Preparing, CheckFails
  <2> QED
    BY <2>1, <2>2
<1> QED
  BY <1>2, <1>3 DEF Next, EndRun, ReopenRun, EditPolicy, PassTime, vars

\* A report that succeeds carries what its commissioning has established.
LEMMA StepReport ==
  Shapes /\ CommissionInv /\ ReportInv /\ [Next]_vars => ReportInv'
<1> SUFFICES ASSUME Shapes, CommissionInv, ReportInv, [Next]_vars,
                    report' # None, report'.success
             PROVE  Vouched(report.started, report.fingerprint, report.read)'
  BY DEF ReportInv
<1>1. ASSUME NEW p \in Procs, RecordReport(p)
      PROVE  Vouched(report.started, report.fingerprint, report.read)'
  <2>1. local[p] # None
    BY <1>1 DEF RecordReport, Failed
  <2>2. Vouches(local[p])
    BY <1>1, <2>1 DEF RecordReport, CommissionInv, Is
  <2>3. PICK s, f, r : s = local[p].started /\ f = local[p].fingerprint /\ r = local[p].read
    OBVIOUS
  <2>4. Vouched(s, f, r)'
    BY <2>2, <2>3, VouchedKept DEF Vouches
  <2>5. report'.started = s /\ report'.fingerprint = f /\ report'.read = r
    BY <1>1, <2>1, <2>3 DEF RecordReport, Fingerprint
  <2> QED
    BY <2>4, <2>5 DEF Vouched, RunsSince, ActiveRuns
<1>2. ASSUME UNCHANGED report
      PROVE  Vouched(report.started, report.fingerprint, report.read)'
  <2>1. PICK s, f, r : s = report.started /\ f = report.fingerprint /\ r = report.read
    OBVIOUS
  <2>2. Vouched(s, f, r)
    BY <1>2, <2>1 DEF ReportInv
  <2>3. Vouched(s, f, r)'
    BY <2>2, VouchedKept
  <2> QED
    BY <1>2, <2>1, <2>3 DEF Vouched, RunsSince, ActiveRuns
<1> QED
  BY <1>1, <1>2
     DEF Next, Certifying, Commissioning, Preparing, EndRun, ReopenRun, EditPolicy, PassTime,
         vars, tables, StartCertify, CertifyUnconfigured, Probe, RecordCertificate,
         StartCommissioning, LocalChecks, CheckValidity, CheckAccount, CheckMapping, CheckFails,
         FailCheck, CheckReadiness, ReadAccount, PassFunding, PassCommissioning, CreateRun, Stop

---------------------------------------------------------------------------
(* prepare --live                                                          *)

\* The stakes of a plan and of its replacements sum up to natural numbers.
LEMMA PlanSums ==
  ASSUME NEW plan \in Plans, NEW v \in Quoted(plan), NEW f \in Used(plan)
  PROVE  Planned(plan, v) \in Nat /\ Replacement(plan, f, v) \in Nat
<1>1. plan \in Plan /\ IsFiniteSet(Outcomes)
  BY GatesAssumption
<1>2. \A u : IsFiniteSet(OutcomesAt(plan, u)) /\ OutcomesAt(plan, u) \subseteq Outcomes
  BY <1>1, FS_Subset DEF OutcomesAt
<1>3. \A o \in Outcomes : plan.legs[o].stake \in Nat
  BY <1>1 DEF Plan
<1>4. v \in Automatic /\ \A o \in Outcomes : plan.quotes[v][o].stake \in Nat
  BY <1>1 DEF Plan, Quoted
<1>5. Planned(plan, v) \in Nat
  <2> DEFINE g == [o \in Outcomes |-> plan.legs[o].stake]
  <2>1. \A x \in OutcomesAt(plan, v) : g[x] \in Nat
    BY <1>2, <1>3
  <2> HIDE DEF g
  <2>2. SumFunctionOnSet(g, OutcomesAt(plan, v)) \in Nat
    BY <1>2, <2>1, SumType
  <2> QED
    BY <2>2 DEF Planned, g
<1>6. Replacement(plan, f, v) \in Nat
  <2> DEFINE S == OutcomesAt(plan, f)
             g == [o \in S |-> plan.quotes[v][o].stake]
  <2>1. \A x \in S : g[x] \in Nat
    BY <1>2, <1>4
  <2> HIDE DEF g
  <2>2. SumFunctionOnSet(g, S) \in Nat
    BY <1>2, <2>1, SumType
  <2> QED
    BY <2>2 DEF Replacement, g
<1> QED
  BY <1>5, <1>6

\* The buffer is not negative, and the rounding is upwards.
LEMMA CeilPercentIsMore ==
  ASSUME NEW n \in Nat
  PROVE  CeilPercent(n) \in Nat /\ CeilPercent(n) >= n
<1>1. Buffer \in Nat
  BY GatesAssumption
<1>2. n * Buffer \in Nat /\ n * (100 + Buffer) = n * 100 + n * Buffer
  BY <1>1
<1>3. \A m \in Nat : m >= n * 100 => (m + 99) \div 100 \in Nat /\ (m + 99) \div 100 >= n
  OBVIOUS
<1> QED
  BY <1>2, <1>3 DEF CeilPercent

\* The funding check has read a balance for every venue it relies on.
LEMMA FundedSurvives ==
  ASSUME NEW t, IsPrepared(t), \A v \in Mapped(t) : t.seen[v] \in Nat, Funded(t)
  PROVE  Survives(t)
<1> SUFFICES ASSUME NEW f \in Used(t.plan)
             PROVE  \E v \in t.certified[f] \ {f} :
                      /\ \A o \in OutcomesAt(t.plan, f) :
                           t.plan.quotes[v][o] # None /\ t.plan.quotes[v][o].deep
                      /\ t.seen[v] >= Planned(t.plan, v) + Replacement(t.plan, f, v)
  BY DEF Survives
<1>1. PICK v \in t.certified[f] : Deep(t.plan, f, v)
                                  /\ FreeAfterPlanned(t, v) >= Reserve(t.plan, f, v)
  BY DEF Funded, Viable, IsPrepared
<1>2. t.plan \in Plans /\ v \in Quoted(t.plan) /\ v # f
  BY DEF IsPrepared
<1>3. v \in Mapped(t)
  BY DEF Mapped, IsPrepared
<1>4. t.seen[v] \in Nat
  BY <1>3
<1>5. Planned(t.plan, v) \in Nat /\ Replacement(t.plan, f, v) \in Nat
  BY <1>2, PlanSums
<1>6. Reserve(t.plan, f, v) \in Nat /\ Reserve(t.plan, f, v) >= Replacement(t.plan, f, v)
  BY <1>5, CeilPercentIsMore DEF Reserve
<1>7. t.seen[v] >= Planned(t.plan, v) + Replacement(t.plan, f, v)
  BY <1>1, <1>4, <1>5, <1>6 DEF FreeAfterPlanned
<1>8. \A o \in OutcomesAt(t.plan, f) : t.plan.quotes[v][o] # None /\ t.plan.quotes[v][o].deep
  BY <1>1, <1>2 DEF Deep, Quoted, OutcomesAt
<1> QED
  BY <1>2, <1>7, <1>8

\* What PrepareInv says of one process.
PrepareOf(p) ==
  task[p].kind = "prepare" =>
    /\ task[p].at \in {"funds", "reserve", "commissioned", "insert"} => IsPrepared(local[p])
    /\ task[p].at = "funds" =>
         \A j \in 1..(task[p].i - 1) : Venues[j] \in Mapped(local[p]) =>
           local[p].seen[Venues[j]] \in Nat
    /\ task[p].at = "reserve" => \A v \in Mapped(local[p]) : local[p].seen[v] \in Nat
    /\ task[p].at \in {"commissioned", "insert"} => Survives(local[p])
    /\ task[p].at = "insert" => RunsSince(local[p].under) /\ local[p].under \in 0..clock

\* A process that does not move keeps it: no older risk joins.
LEMMA PrepareKept ==
  ASSUME Shapes, PrepareInv, [Next]_vars, NEW p \in Procs,
         task'[p] = task[p], local'[p] = local[p]
  PROVE  PrepareOf(p)'
<1>1. PrepareOf(p)
  BY DEF PrepareInv, PrepareOf
<1>2. PICK t : t = local[p]
  OBVIOUS
<1>3. PICK u : u = t.under
  OBVIOUS
<1>4. u \in 0..clock /\ RunsSince(u) => u \in 0..clock' /\ RunsSince(u)'
  BY RunsSinceKept, StepClock, Bounds DEF Shapes
<1>5. RunsSince(local[p].under) /\ local[p].under \in 0..clock =>
        RunsSince(local[p].under)' /\ local'[p].under \in 0..clock'
  BY <1>2, <1>3, <1>4 DEF RunsSince, ActiveRuns
<1>6. local'[p] = t
  BY <1>2
<1> QED
  BY <1>1, <1>2, <1>5, <1>6 DEF PrepareOf, IsPrepared, Survives, Mapped

\* Readiness puts together a plan and a map of venues that are certified and
\* quote it.
LEMMA ReadinessPrepares ==
  ASSUME Shapes, NEW p \in Procs, NEW plan \in Plans, CheckReadiness(p, plan)
  PROVE  PrepareOf(p)'
<1> DEFINE t == [plan |-> plan, certified |-> [f \in Used(plan) |-> Alternatives(plan, f)],
                 seen |-> [v \in Automatic |-> None], under |-> 0]
<1>1. local'[p] = t /\ task'[p] = [kind |-> "prepare", at |-> "funds", i |-> 1]
  BY DEF CheckReadiness, Shapes, Tasks
<1>2. \A f : Alternatives(plan, f) \subseteq Quoted(plan) \ {f} /\ Quoted(plan) \subseteq Automatic
  BY DEF Alternatives, Quoted
<1>3. IsPrepared(t)
  BY <1>2 DEF IsPrepared
<1> HIDE DEF t
<1>4. IsPrepared(local[p])'
  BY <1>1, <1>3 DEF IsPrepared
<1> QED
  BY <1>1, <1>4 DEF PrepareOf

\* One more balance is read, or the account is not in the map.
LEMMA AccountPrepares ==
  ASSUME Shapes, PrepareInv, NEW p \in Procs, NEW balance \in Balances, ReadAccount(p, balance)
  PROVE  PrepareOf(p)'
<1> DEFINE t == local[p]
           w == Venue(p)
<1>1. task \in Tasks /\ task[p].kind = "prepare" /\ task[p].at = "funds"
        /\ task[p].i \in 1..Len(Venues) /\ Len(Venues) \in Nat
  BY VenueIndexes DEF Shapes, Tasks, ReadAccount, Is
<1>2. IsPrepared(t) /\ balance \in Nat /\ w \in Automatic /\ w = Venues[task[p].i]
  BY <1>1, VenueIndexes, GatesAssumption DEF PrepareInv, Venue
<1>3. \A j \in 1..(task[p].i - 1) : Venues[j] \in Mapped(t) => t.seen[Venues[j]] \in Nat
  BY <1>1 DEF PrepareInv
<1>4. local'[p] = [t EXCEPT !.seen = [t.seen EXCEPT ![w] = IF w \in Mapped(t) THEN balance ELSE None]]
  BY DEF ReadAccount, Shapes
<1>5. /\ local'[p].plan = t.plan /\ local'[p].certified = t.certified
      /\ local'[p].under = t.under
      /\ local'[p].seen = [t.seen EXCEPT ![w] = IF w \in Mapped(t) THEN balance ELSE None]
      /\ local'[p] = [plan |-> t.plan, certified |-> t.certified,
                      seen |-> local'[p].seen, under |-> t.under]
  BY <1>2, <1>4 DEF IsPrepared
<1>6. IsPrepared(local[p])'
  BY <1>2, <1>5 DEF IsPrepared
<1>7. Mapped(local[p])' = Mapped(t)
  BY <1>5 DEF Mapped
<1>8. \A v \in Automatic : local'[p].seen[v] =
        IF v = w THEN IF w \in Mapped(t) THEN balance ELSE None ELSE t.seen[v]
  BY <1>2, <1>5 DEF IsPrepared
<1>9. \A j \in 1..task[p].i : Venues[j] \in Mapped(t) => local'[p].seen[Venues[j]] \in Nat
  <2> SUFFICES ASSUME NEW j \in 1..task[p].i, Venues[j] \in Mapped(t)
               PROVE  local'[p].seen[Venues[j]] \in Nat
    OBVIOUS
  <2>1. Venues[j] \in Automatic
    BY <1>1, VenueIndexes
  <2>2. CASE Venues[j] = w
    BY <1>2, <1>8, <2>1, <2>2
  <2>3. CASE Venues[j] # w
    <3>1. j \in 1..(task[p].i - 1)
      BY <1>1, <1>2, <2>3
    <3>2. t.seen[Venues[j]] \in Nat
      BY <1>3, <3>1
    <3> QED
      BY <1>8, <2>1, <2>3, <3>2
  <2> QED
    BY <2>2, <2>3
<1>10. CASE LastVenue(p)
  <2>1. task'[p].kind = "prepare" /\ task'[p].at = "reserve"
    BY <1>1, <1>10 DEF ReadAccount, NextVenue, GotoFirst, Tasks
  <2>2. Mapped(t) \subseteq Automatic
    <3>1. DOMAIN t.certified = Used(t.plan) /\ \A f \in Used(t.plan) : t.certified[f] \subseteq Automatic
      BY <1>2 DEF IsPrepared
    <3>2. Used(t.plan) \subseteq Automatic
      BY DEF Used
    <3> QED
      BY <3>1, <3>2 DEF Mapped
  <2>3. \A v \in Mapped(t) : local'[p].seen[v] \in Nat
    BY <1>9, <1>10, <2>2, VenueIndexes DEF LastVenue
  <2> QED
    BY <1>6, <1>7, <2>1, <2>3 DEF PrepareOf
<1>11. CASE ~ LastVenue(p)
  <2>1. task'[p].kind = "prepare" /\ task'[p].at = "funds" /\ task'[p].i - 1 = task[p].i
    BY <1>1, <1>11 DEF ReadAccount, NextVenue, Tasks
  <2> QED
    BY <1>6, <1>7, <1>9, <2>1 DEF PrepareOf
<1> QED
  BY <1>10, <1>11

\* Every step keeps what prepare --live has found.
LEMMA StepPrepare ==
  Shapes /\ ReportInv /\ PrepareInv /\ [Next]_vars => PrepareInv'
<1> SUFFICES ASSUME Shapes, ReportInv, PrepareInv, [Next]_vars
             PROVE  PrepareInv'
  OBVIOUS
<1>0. task \in Tasks /\ DOMAIN local = Procs
  BY DEF Shapes
<1>1. SUFFICES ASSUME NEW q \in Procs PROVE PrepareOf(q)'
  BY DEF PrepareInv, PrepareOf
<1>2. ASSUME UNCHANGED <<task, local>> PROVE PrepareOf(q)'
  BY <1>2, PrepareKept
<1>3. ASSUME NEW p \in Procs, Certifying(p) \/ Commissioning(p) \/ Preparing(p) \/ Stop(p)
      PROVE  PrepareOf(q)'
  <2>1. CASE q # p
    BY <1>3, <2>1, StepOthers, PrepareKept
  <2>2. CASE q = p
    <3> USE <1>0 DEF Tasks
    <3>0. PrepareOf(p)
      BY DEF PrepareInv, PrepareOf
    <3>a. task'[p].kind # "prepare" => PrepareOf(p)'
      BY DEF PrepareOf
    <3>b. task'[p].at \notin {"funds", "reserve", "commissioned", "insert"} => PrepareOf(p)'
      BY DEF PrepareOf
    <3>1. ASSUME NEW i \in 1..Len(Venues), NEW kind \in {"certify", "monitor"},
                 StartCertify(p, i, kind)
          PROVE  PrepareOf(p)'
      BY <3>1, <3>a DEF StartCertify
    <3>2. ASSUME NEW v \in Automatic, CertifyUnconfigured(p, v) PROVE PrepareOf(p)'
      BY <3>2, <1>2, <2>2 DEF CertifyUnconfigured
    <3>3. ASSUME NEW success \in BOOLEAN, RecordCertificate(p, success) PROVE PrepareOf(p)'
      <4>1. task'[p].at \in {"probe", "validity", "idle"}
        BY <3>3 DEF RecordCertificate, GotoFirst, Idle
      <4> QED
        BY <4>1, <3>b
    <3>4. ASSUME Probe(p) \/ CheckValidity(p) \/ CheckMapping(p) PROVE PrepareOf(p)'
      <4>1. task'[p].at \in {"certificate", "accounts", "record"}
        BY <3>4 DEF Probe, CheckValidity, CheckMapping, Goto, GotoFirst
      <4> QED
        BY <4>1, <3>b
    <3>5. ASSUME StartCommissioning(p) PROVE PrepareOf(p)'
      BY <3>5, <3>a DEF StartCommissioning
    <3>6. ASSUME NEW refresh \in BOOLEAN, LocalChecks(p, refresh) PROVE PrepareOf(p)'
      <4>1. task'[p].at \in {"probe", "validity"}
        BY <3>6 DEF LocalChecks, Goto
      <4> QED
        BY <4>1, <3>b
    <3>7. ASSUME NEW balance \in Balances, CheckAccount(p, balance) PROVE PrepareOf(p)'
      <4>1. task'[p].at \in {"accounts", "mapping"}
        BY <3>7 DEF CheckAccount, NextVenue, GotoFirst, Is
      <4> QED
        BY <4>1, <3>b
    <3>8. ASSUME NEW place, FailCheck(p, place) PROVE PrepareOf(p)'
      <4>1. task'[p].at = "record"
        BY <3>8 DEF FailCheck, GotoFirst
      <4> QED
        BY <4>1, <3>b
    <3>9. ASSUME RecordReport(p) \/ Stop(p) PROVE PrepareOf(p)'
      BY <3>9, <3>a DEF RecordReport, Stop, Return, Idle
    <3>10. ASSUME NEW plan \in Plans, CheckReadiness(p, plan) PROVE PrepareOf(p)'
      BY <3>10, ReadinessPrepares
    <3>11. ASSUME NEW balance \in Balances, ReadAccount(p, balance) PROVE PrepareOf(p)'
      BY <3>11, AccountPrepares
    <3>12. ASSUME PassFunding(p) PROVE PrepareOf(p)'
      <4>1. local'[p] = local[p] /\ task'[p].at = "commissioned"
        BY <3>12 DEF PassFunding, Goto
      <4>2. IsPrepared(local[p]) /\ Funded(local[p])
              /\ \A v \in Mapped(local[p]) : local[p].seen[v] \in Nat
        BY <3>12 DEF PassFunding, PrepareInv, Is
      <4>3. PICK t : t = local[p]
        OBVIOUS
      <4>4. IsPrepared(t) /\ Survives(t)
        BY <4>2, <4>3, FundedSurvives
      <4>5. IsPrepared(local[p])' /\ Survives(local[p])'
        BY <4>1, <4>3, <4>4 DEF IsPrepared, Survives
      <4> QED
        BY <4>1, <4>5 DEF PrepareOf
    <3>13. ASSUME PassCommissioning(p) PROVE PrepareOf(p)'
      <4>1. /\ task[p].at = "commissioned" /\ task[p].kind = "prepare" /\ task'[p].at = "insert"
            /\ report # None /\ report.success
            /\ local'[p] = [local[p] EXCEPT !.under = report.started]
            /\ clock' = clock /\ runs' = runs
        BY <3>13 DEF PassCommissioning, Goto, Is, Commissioned, tables
      <4>2. PICK t : t = local[p]
        OBVIOUS
      <4>3. IsPrepared(t) /\ Survives(t)
        BY <3>0, <4>1, <4>2 DEF PrepareOf
      <4>4. PICK u : u = report.started
        OBVIOUS
      <4>5. local'[p] = [t EXCEPT !.under = u]
        BY <4>1, <4>2, <4>4
      <4>6. /\ local'[p].plan = t.plan /\ local'[p].certified = t.certified
            /\ local'[p].seen = t.seen /\ local'[p].under = u
            /\ local'[p] = [plan |-> t.plan, certified |-> t.certified, seen |-> t.seen,
                            under |-> u]
        BY <4>3, <4>5 DEF IsPrepared
      <4>7. IsPrepared(local[p])'
        BY <4>3, <4>6 DEF IsPrepared
      <4>8. Survives(local[p])'
        BY <4>3, <4>6 DEF Survives
      <4>9. u \in 0..clock /\ RunsSince(u)
        BY <4>1, <4>4 DEF ReportInv, Vouched
      <4>10. local'[p].under \in 0..clock' /\ RunsSince(local[p].under)'
        BY <4>1, <4>6, <4>9 DEF RunsSince, ActiveRuns
      <4> QED
        BY <4>1, <4>7, <4>8, <4>10 DEF PrepareOf
    <3>14. ASSUME NEW i \in DOMAIN runs, CreateRun(p, i) PROVE PrepareOf(p)'
      BY <3>14, <3>a DEF CreateRun, Return, Idle
    <3> QED
      BY <1>3, <2>2, <3>1, <3>2, <3>3, <3>4, <3>5, <3>6, <3>7, <3>8, <3>9, <3>10, <3>11, <3>12,
         <3>13, <3>14 DEF Certifying, Commissioning, Preparing, CheckFails
  <2> QED
    BY <2>1, <2>2
<1> QED
  BY <1>2, <1>3 DEF Next, EndRun, ReopenRun, EditPolicy, PassTime, vars

---------------------------------------------------------------------------
(* The theorems                                                            *)

\* No certificate, no report and no command is there at first.
LEMMA InitGates == Init => GatesInv
<1> SUFFICES ASSUME Init PROVE GatesInv
  OBVIOUS
<1>1. CertificatesInv
  BY DEF Init, CertificatesInv, NoProbe
<1>2. CommissionInv /\ PrepareInv
  BY DEF Init, CommissionInv, PrepareInv, Idle
<1>3. ReportInv
  BY DEF Init, ReportInv
<1> QED
  BY <1>1, <1>2, <1>3, InitShapes DEF GatesInv

\* Every step keeps the invariant.
LEMMA StepGates == GatesInv /\ [Next]_vars => GatesInv'
  BY StepShapes, StepCertificates, StepCommission, StepReport, StepPrepare DEF GatesInv

\* The invariant holds of every behaviour.
LEMMA GatesInvariant == Spec => []GatesInv
  BY InitGates, StepGates, PTL DEF Spec

\* Types; a failed certificate has no term, and no commissioning and no run is
\* of a time that has not come (venue_certifications, commissioning_runs).
THEOREM TypeCorrect == Spec => []TypeOK
<1>1. GatesInv => TypeOK
  BY Bounds DEF GatesInv, Shapes, CertificatesInv, ReportInv, Vouched, TypeOK, Rows
<1> QED
  BY <1>1, GatesInvariant, PTL

\* A certificate in force rests on no check older than its term, whichever
\* command wrote it last and however long its checks took (certify).
THEOREM CertificatesRecent == Spec => []CertificateIsRecent
<1>1. GatesInv => CertificateIsRecent
  BY Bounds DEF GatesInv, Shapes, CertificatesInv, CertificateIsRecent, Valid
<1> QED
  BY <1>1, GatesInvariant, PTL

\* The commissioning in force has read the configuration in force and no other,
\* and found it safe (run_commissioning).
THEOREM ConfigChecked == Spec => []CommissionedConfigWasChecked
<1>1. GatesInv => CommissionedConfigWasChecked
  <2> SUFFICES ASSUME GatesInv, Commissioned
               PROVE  report.read = {version} /\ Safe[version]
    BY DEF CommissionedConfigWasChecked
  <2>1. Vouched(report.started, report.fingerprint, report.read) /\ report.fingerprint = version
    BY DEF GatesInv, ReportInv, Commissioned
  <2>2. version \in Nat /\ version..version = {version}
    BY Bounds DEF GatesInv, Shapes
  <2> QED
    BY <2>1, <2>2 DEF Vouched
<1> QED
  BY <1>1, GatesInvariant, PTL

\* When a live run is inserted, every active run has become so, by its creation or
\* by its reopening, since the commissioning that authorises the new one began
\* (run_commissioning, create_run; a late confirm_manual_leg or a racing resume).
THEOREM NoOlderRisk == Spec => []NoRiskPredatesItsCommissioning
<1>1. GatesInv => NoRiskPredatesItsCommissioning
  BY DEF GatesInv, PrepareInv, RunsSince, NoRiskPredatesItsCommissioning, Is
<1> QED
  BY <1>1, GatesInvariant, PTL

\* A live plan that is inserted survives the loss of any one automatic venue
\* (assert_live_readiness, assert_live_funding).
THEOREM OneFailureSurvived == Spec => []PlanSurvivesOneFailure
<1>1. GatesInv => PlanSurvivesOneFailure
  BY DEF GatesInv, PrepareInv, Survives, PlanSurvivesOneFailure, Is
<1> QED
  BY <1>1, GatesInvariant, PTL
=============================================================================
