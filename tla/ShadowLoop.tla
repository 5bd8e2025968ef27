----------------------------- MODULE ShadowLoop -----------------------------
(***************************************************************************)
(* run_shadow_loop over the adaptive scheduler: every cycle inserts a scan *)
(* row, fetches, stores the report, the quotes, the opportunities and the  *)
(* signals, and closes the scan. Each of these commits by itself. An       *)
(* exception closes the scan as failed and ends the process; a signal ends *)
(* it at once (its systemd unit does that every six hours), and it is      *)
(* started again. The back-tests read the scans that ended well.           *)
(***************************************************************************)
EXTENDS AdaptiveScheduler

CONSTANTS
  Fleets,         \* the sets of processes that may share the database
  MinCovered,     \* min_covered_operators of a coverage-aware back-test
  MaxFaults,      \* bound: exceptions and kills, MaxFaults[n] in a fleet of n processes
  Start, Horizon  \* bound: a fleet of n processes runs from Start[n] to Horizon[n]

ASSUME ShadowAssumption ==
  /\ Fleets \subseteq SUBSET Procs
  /\ MinCovered \in Nat \ {0} /\ MaxFaults \in Seq(Nat)
  /\ {Start, Horizon} \subseteq Seq(0..MaxClock)
  /\ \A f \in Fleets : Cardinality(f) \in DOMAIN MaxFaults \cap DOMAIN Start \cap DOMAIN Horizon

VARIABLES
  fleet,    \* the shadow processes on this database
  scan,     \* scan[p]: the row of p's last scan and what is stored with its id;
            \* no step touches those of an earlier scan
  loop,     \* loop[p]: where p is in its cycle, and its session
  faults    \* exceptions and kills so far

shadowVars == <<fleet, scan, loop, faults>>
vars == <<schedulerVars, shadowVars>>

NoQuotes == [o \in {} |-> 0]
Scan == [started |-> -1, status |-> "running", coverage |-> {}, quotes |-> NoQuotes,
         opportunities |-> 0, signals |-> FALSE, quoteCount |-> 0, opportunityCount |-> 0]
Sleeping == [at |-> "sleep", quoteCount |-> 0, opportunityCount |-> 0]

Init ==
  /\ SchedulerInit
  /\ fleet \in Fleets
  /\ clock = Start[Cardinality(fleet)]
  /\ scan = [p \in Procs |-> Scan]
  /\ loop = [p \in Procs |-> Sleeping]
  /\ faults = 0

OnItsOwn == Cardinality(fleet) = 1

Goto(p, place) == loop' = [loop EXCEPT ![p].at = place]
Store(p, field, value) == scan' = [scan EXCEPT ![p][field] = value]

---------------------------------------------------------------------------
(* One cycle                                                               *)

StartScan(p) ==
  /\ loop[p].at = "sleep"
  /\ ~ OnItsOwn => scan[p].started = -1          \* bound: side by side, one scan each
  /\ BeginTick(p)
  /\ scan' = [scan EXCEPT ![p] = [Scan EXCEPT !.started = clock]]
  /\ loop' = [loop EXCEPT ![p] = [Sleeping EXCEPT !.at = "fetch"]]
  /\ UNCHANGED <<fleet, faults>>

FetchReport(p) ==
  /\ loop[p].at = "fetch"
  /\ Ticking(p)
  /\ UNCHANGED shadowVars

\* save_report: health and coverage are kept even if every source has failed,
\* which then ends the scan.
SaveReport(p) ==
  /\ loop[p].at = "fetch" /\ tick[p].at = "report"
  /\ Store(p, "coverage", DOMAIN ReportedQuotes(p))
  /\ Goto(p, IF AllFailed(p) THEN "fail" ELSE "quotes")
  /\ UNCHANGED <<fleet, faults, schedulerVars>>

\* The session counts the quotes once they are saved.
SaveQuotes(p) ==
  /\ loop[p].at = "quotes"
  /\ Store(p, "quotes", ReportedQuotes(p))
  /\ loop' = [loop EXCEPT ![p].at = "opportunities",
                          ![p].quoteCount = Cardinality(DOMAIN ReportedQuotes(p))]
  /\ UNCHANGED <<fleet, faults, schedulerVars>>

\* What is found, if anything, in the quotes.
SaveOpportunities(p, found) ==
  /\ loop[p].at = "opportunities"
  /\ scan[p].quotes = NoQuotes => found = 0
  /\ Store(p, "opportunities", found)
  /\ loop' = [loop EXCEPT ![p].at = "signals", ![p].opportunityCount = found]
  /\ UNCHANGED <<fleet, faults, schedulerVars>>

\* Every market's signals, an empty list included; no count is kept.
SaveSignals(p) ==
  /\ loop[p].at = "signals"
  /\ Store(p, "signals", TRUE)
  /\ Goto(p, "complete")
  /\ UNCHANGED <<fleet, faults, schedulerVars>>

Finish(p, status) ==
  scan' = [scan EXCEPT ![p].status = status,
                       ![p].quoteCount = loop[p].quoteCount,
                       ![p].opportunityCount = loop[p].opportunityCount]

Rest(p) == tick' = [tick EXCEPT ![p] = [Resting EXCEPT !.now = tick[p].now]]

\* The process is gone, and its cache with it.
End(p) ==
  /\ loop' = [loop EXCEPT ![p] = [Sleeping EXCEPT !.at = "ended"]]
  /\ Rest(p)
  /\ cache' = [cache EXCEPT ![p] = EmptyCache]

Complete(p) ==
  /\ loop[p].at = "complete"
  /\ Finish(p, "ok")
  /\ loop' = [loop EXCEPT ![p] = Sleeping]
  /\ Rest(p)
  /\ UNCHANGED <<fleet, faults, clock, ledger, cache, calls>>

---------------------------------------------------------------------------
(* Failures                                                                *)

\* A database error, in the scheduler's ledger or in what the scan stores.
Raise(p) ==
  /\ \/ loop[p].at = "fetch" /\ tick[p].at \in {"check", "block", "read", "write"}
     \/ loop[p].at \in {"opportunities", "signals", "complete"}
  /\ Goto(p, "fail")
  /\ UNCHANGED <<fleet, scan, schedulerVars>>

\* (mutant) The quotes are counted when they are handed over.
CountOnError_Handed(p) == Cardinality(DOMAIN ReportedQuotes(p))

CountOnError(p) == 0

\* An error while rows are inserted: those inserted before it are committed
\* with what follows, and not counted.
RaiseInserting(p, part) ==
  /\ \/ /\ loop[p].at = "fetch" /\ tick[p].at = "report"
        /\ Store(p, "coverage", part)
        /\ Goto(p, "fail")
     \/ /\ loop[p].at = "quotes"
        /\ Store(p, "quotes", [o \in part |-> ReportedQuotes(p)[o]])
        /\ loop' = [loop EXCEPT ![p].at = "fail", ![p].quoteCount = CountOnError(p)]
  /\ UNCHANGED <<fleet, schedulerVars>>

\* (mutant) Whatever happened, the scan is closed the same way.
StatusOfFailure_Ok == "ok"

StatusOfFailure == "error"

Fail(p) ==
  /\ loop[p].at = "fail"
  /\ Finish(p, StatusOfFailure)
  /\ End(p)
  /\ UNCHANGED <<fleet, faults, clock, ledger, calls>>

\* The process is killed, or closing the scan raises as well: it stays "running".
Kill(p) ==
  /\ loop[p].at \notin {"sleep", "ended"}
  /\ End(p)
  /\ UNCHANGED <<fleet, scan, clock, ledger, calls>>

\* systemd starts it again, a minute later.
Restart(p) ==
  /\ loop[p].at = "ended"
  /\ loop' = [loop EXCEPT ![p] = Sleeping]
  /\ UNCHANGED <<fleet, scan, faults, schedulerVars>>

Cycle(p) ==
  \/ StartScan(p) \/ FetchReport(p) \/ SaveReport(p) \/ SaveQuotes(p)
  \/ \E n \in {0, 1} : SaveOpportunities(p, n)
  \/ SaveSignals(p) \/ Complete(p) \/ Fail(p)

Fault(p) ==
  /\ faults < MaxFaults[Cardinality(fleet)] /\ faults' = faults + 1
  /\ \/ Raise(p) \/ Kill(p)
     \/ \E part \in SUBSET DOMAIN ReportedQuotes(p) :
          part # DOMAIN ReportedQuotes(p) /\ RaiseInserting(p, part)

Next ==
  \/ \E p \in fleet : (Cycle(p) \/ Restart(p)) \/ Fault(p)
  \/ PassTime /\ clock < Horizon[Cardinality(fleet)] /\ UNCHANGED shadowVars

Spec == Init /\ [][Next]_vars

---------------------------------------------------------------------------
(* Properties                                                              *)

TypeOK ==
  /\ SchedulerTypeOK
  /\ fleet \in Fleets /\ faults \in Nat
  /\ \A p \in Procs : scan[p].started \in -1..clock

\* A shadow process that has the database to itself: the calls of the ticks
\* begun on a day stay within the daily limit, those of a month within the
\* monthly units, but for one tick per exception or kill, whose calls were made
\* and not recorded. Restarting forgets nothing that was recorded
\* (src/docs/SCHEDULER.md:26).
BudgetsKept ==
  OnItsOwn =>
    \A s \in Feeds :
      /\ Policy[s].dayLimit # None =>
           \A d \in Days : calls[s][d] <= Policy[s].dayLimit + faults
      /\ Policy[s].monthLimit # None =>
           \A d \in Days : Policy[s].units * Spent(s, DaysOf(Month(d * DayLength)))
                            <= Policy[s].monthLimit + faults * Policy[s].units

Ok(s) == s.status = "ok"

\* A replay reads scans with status 'ok' only, and each of them is whole,
\* wherever processes were killed and whatever raised: the coverage is that of
\* the quotes stored, all of them are there, and the counts are right.
ReplayableIsWhole ==
  \A p \in Procs : Ok(scan[p]) =>
    /\ scan[p].coverage = DOMAIN scan[p].quotes
    /\ scan[p].quoteCount = Cardinality(DOMAIN scan[p].quotes)
    /\ scan[p].opportunityCount = scan[p].opportunities
    /\ scan[p].signals

\* A scan that failed does not claim rows it has not stored.
ReceiptNeverOverstates ==
  \A p \in Procs : scan[p].status = "error" =>
    /\ scan[p].quoteCount <= Cardinality(DOMAIN scan[p].quotes)
    /\ scan[p].opportunityCount <= scan[p].opportunities

FreshAt(o, t, started) ==
  \E s \in Feeds : /\ o \in Policy[s].operators
                  /\ t \in started - Policy[s].maxAge .. started + Skew

\* The scans a coverage-aware back-test replays (CoverageFilteredStore): as many
\* operators as it asks for have quotes in the scan that were fresh when it was
\* made; no error, cache or slow call makes an old quote count.
Eligible(s) == Ok(s) /\ Cardinality(s.coverage) >= MinCovered
CoverageVouches ==
  \A p \in Procs : Eligible(scan[p]) =>
    Cardinality({ o \in DOMAIN scan[p].quotes :
                    FreshAt(o, scan[p].quotes[o], scan[p].started) }) >= MinCovered
=============================================================================
