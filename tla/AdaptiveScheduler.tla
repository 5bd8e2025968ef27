------------------------- MODULE AdaptiveScheduler -------------------------
(***************************************************************************)
(* AdaptiveScheduledProvider and the budget ledger it keeps in the         *)
(* database: fetch_report decides which sources are due and within budget, *)
(* calls them side by side, records the calls, and answers with whatever   *)
(* is fresh in its cache. The ledger is shared by all processes on the     *)
(* database; a process's cache is its own and dies with it. Reading the    *)
(* ledger and writing it are steps of their own, because record reads      *)
(* first and then writes absolute values.                                  *)
(*                                                                         *)
(* The unit of time is five seconds, the skew that _fresh_cache tolerates. *)
(***************************************************************************)
EXTENDS Integers, Sequences, FiniteSets, FiniteSetsExt, Functions

CONSTANTS
  Procs,         \* shadow processes
  Sources,       \* the configured sources, in order
  Policy,        \* Policy[s]: its schedule, its budget and what it covers
  None,
  DayLength, MonthLength,
  MaxClock       \* bound: the end of time

Feeds == { Sources[i] : i \in 1..Len(Sources) }
Modes == {"hot", "near_event", "base"}
Limit == Nat \cup {None}
Skew  == 1

SourcePolicy ==
  [enabled : BOOLEAN, configured : BOOLEAN,
   interval : [Modes -> Nat \ {0}], retry : Nat \ {0},
   dayLimit : Limit, monthLimit : Limit, units : Nat \ {0}, maxAge : Nat \ {0},
   rank : Nat,                         \* _SOURCE_PRIORITY
   operators : SUBSET STRING]          \* the operators whose odds it carries

\* The Field constraints of SourceSchedulePolicy; a provider without sources is
\* refused; months are whole days.
ASSUME SchedulerAssumption ==
  /\ IsFiniteSet(Procs)
  /\ Sources \in Seq(Feeds) /\ Sources # <<>>
  /\ Policy \in [Feeds -> SourcePolicy]
  /\ \A s \in Feeds : IsFiniteSet(Policy[s].operators)
  /\ \A i, j \in 1..Len(Sources) : Sources[i] = Sources[j] => i = j
  /\ {DayLength, MonthLength} \subseteq Nat \ {0} /\ MonthLength % DayLength = 0
  /\ MaxClock \in Nat

\* Days are numbered from the first; rows of scheduler_source_state, answers of a call.
Day(t) == t \div DayLength
Month(t) == t \div MonthLength
Days == 0 .. Day(MaxClock)
Rows == [day : Days, calls : Nat, month : Nat, units : Nat, due : Nat]
Answers == [ok : BOOLEAN, at : 0..MaxClock]

ASSUME NoneAssumption == None \notin Rows /\ None \notin Answers

VARIABLES
  clock,
  ledger,    \* scheduler_source_state: the row of a source, or None
  cache,     \* cache[p][s]: when the quotes cached from s were observed
  tick,      \* tick[p]: where p is inside fetch_report, and its local variables
  calls      \* history: calls[s][d] made of s by the ticks begun on day d

schedulerVars == <<clock, ledger, cache, tick, calls>>

EmptyCache == [s \in Feeds |-> None]
Resting ==
  [at |-> "idle", now |-> -1, i |-> 1, due |-> {}, got |-> EmptyCache,
   failed |-> {}, read |-> None, mode |-> "base"]

SchedulerInit ==
  /\ ledger = [s \in Feeds |-> None]
  /\ cache = [p \in Procs |-> EmptyCache]
  /\ tick = [p \in Procs |-> Resting]
  /\ calls = [s \in Feeds |-> [d \in Days |-> 0]]

---------------------------------------------------------------------------
(* The ledger                                                              *)

State(s, now) ==
  LET row == ledger[s] IN
  IF row = None THEN [calls |-> 0, units |-> 0, due |-> None]
  ELSE [calls |-> IF row.day = Day(now) THEN row.calls ELSE 0,
        units |-> IF row.month = Month(now) THEN row.units ELSE 0,
        due   |-> row.due]

DayIsSpent(s, state) == Policy[s].dayLimit # None /\ state.calls >= Policy[s].dayLimit

MonthIsSpent(s, state) ==
  Policy[s].monthLimit # None /\ state.units + Policy[s].units > Policy[s].monthLimit

\* (mutant) Only whole months are limited.
CanSpend_MonthOnly(s, state) == ~ MonthIsSpent(s, state)

CanSpend(s, state) == ~ DayIsSpent(s, state) /\ ~ MonthIsSpent(s, state)

BlockedUntil(s, state, now) ==
  IF DayIsSpent(s, state) THEN (Day(now) + 1) * DayLength
  ELSE (Month(now) + 1) * MonthLength

\* (mutant) A refused call is charged.
Charge_Always(s, n) == [calls |-> 1, units |-> Policy[s].units]

\* What a call, made (1) or not (0), adds to the row.
Charge(s, n) == [calls |-> n, units |-> n * Policy[s].units]

\* The second half of record: the row is written from what the first half read.
Upsert(p, s, n, due) ==
  ledger' = [ledger EXCEPT ![s] =
    [day   |-> Day(tick[p].now),   calls |-> tick[p].read.calls + Charge(s, n).calls,
     month |-> Month(tick[p].now), units |-> tick[p].read.units + Charge(s, n).units,
     due   |-> due]]

---------------------------------------------------------------------------
(* The cache                                                               *)

\* (mutant) Whatever is cached is fresh.
Fresh_Any(s, t, now) == t # None

\* Quotes observed well after the tick began are not fresh either.
Fresh(s, t, now) == t # None /\ now - t <= Policy[s].maxAge /\ t - now <= Skew

\* _fresh_cache: what is not fresh is dropped for good.
Pruned(held, now) == [s \in Feeds |-> IF Fresh(s, held[s], now) THEN held[s] ELSE None]

Carriers(held, o) == { s \in Feeds : held[s] # None /\ o \in Policy[s].operators }
Covered(held) == UNION { Policy[s].operators : s \in { f \in Feeds : held[f] # None } }

\* Of two sources that quote an operator, the more direct one, then the later.
Preferred(held, s, f) ==
  \/ Policy[s].rank > Policy[f].rank
  \/ Policy[s].rank = Policy[f].rank /\ held[s] >= held[f]

\* _merge_quotes: for every operator covered, when its quotes were observed.
Merged(held) ==
  [o \in Covered(held) |->
     held[CHOOSE s \in Carriers(held, o) :
            \A f \in Carriers(held, o) : Preferred(held, s, f)]]

---------------------------------------------------------------------------
(* fetch_report                                                            *)

Current(p) == Sources[tick[p].i]

\* (mutant) The loop runs past its end.
NextFrom_Beyond(S, i) ==
  LET later == { j \in i..Len(Sources) : Sources[j] \in S }
  IN  IF later = {} THEN Len(Sources) + 2 ELSE Min(later)

\* The next source in the loop that is in set S, or the end of the loop.
NextFrom(S, i) ==
  LET later == { j \in i..Len(Sources) : Sources[j] \in S }
  IN  IF later = {} THEN Len(Sources) + 1 ELSE Min(later)

Looked(p, due) ==
  LET done == tick[p].i = Len(Sources) IN
  tick' = [tick EXCEPT ![p].at = IF done THEN "fetch" ELSE "check",
                       ![p].i = IF done THEN 1 ELSE @ + 1,
                       ![p].due = due, ![p].read = None]

BeginTick(p) ==
  /\ tick[p].at = "idle" /\ clock > tick[p].now
  /\ tick' = [tick EXCEPT ![p] = [Resting EXCEPT !.at = "check", !.now = clock]]
  /\ cache' = [cache EXCEPT ![p] = Pruned(@, clock)]
  /\ UNCHANGED <<clock, ledger, calls>>

Pollable(s) == Policy[s].enabled /\ Policy[s].configured
IsDue(p, s) ==
  LET due == State(s, tick[p].now).due IN due # None => due <= tick[p].now

\* Disabled, without credentials, or not yet due: the cache has to do.
SkipSource(p) ==
  /\ tick[p].at = "check"
  /\ ~ Pollable(Current(p)) \/ ~ IsDue(p, Current(p))
  /\ Looked(p, tick[p].due)
  /\ UNCHANGED <<clock, ledger, cache, calls>>

TakeSource(p) ==
  LET s == Current(p) IN
  /\ tick[p].at = "check" /\ Pollable(s) /\ IsDue(p, s)
  /\ CanSpend(s, State(s, tick[p].now))
  /\ Looked(p, tick[p].due \cup {s})
  /\ UNCHANGED <<clock, ledger, cache, calls>>

BlockSource(p) ==
  LET s == Current(p)
      state == State(s, tick[p].now)
  IN
  /\ tick[p].at = "check" /\ Pollable(s) /\ IsDue(p, s)
  /\ ~ CanSpend(s, state)
  /\ tick' = [tick EXCEPT ![p].at = "block", ![p].read = state]
  /\ UNCHANGED <<clock, ledger, cache, calls>>

RecordBlocked(p) ==
  LET s == Current(p) IN
  /\ tick[p].at = "block"
  /\ Upsert(p, s, 0, BlockedUntil(s, tick[p].read, tick[p].now))
  /\ Looked(p, tick[p].due)
  /\ UNCHANGED <<clock, cache, calls>>

\* One of the calls made side by side ends, with quotes or an exception. Each
\* takes its own time; the calls of a tick count for the day it began.
FetchOne(p, s, ok) ==
  /\ tick[p].at = "fetch" /\ s \in tick[p].due /\ tick[p].got[s] = None
  /\ tick' = [tick EXCEPT ![p].got[s] = [ok |-> ok, at |-> clock]]
  /\ calls' = [calls EXCEPT ![s][Day(tick[p].now)] = @ + 1]
  /\ UNCHANGED <<clock, ledger, cache>>

\* All calls have ended: the cache takes the answers, and the market as it then
\* looks sets the pace. An empty cache has no urgency.
Collect(p, mode) ==
  LET due == tick[p].due
      answered == { s \in due : tick[p].got[s].ok }
      held == [s \in Feeds |-> IF s \in answered THEN tick[p].got[s].at ELSE cache[p][s]]
      fresh == Pruned(held, tick[p].now)
  IN
  /\ tick[p].at = "fetch" /\ \A s \in due : tick[p].got[s] # None
  /\ fresh = EmptyCache \/ due = {} => mode = "base"
  /\ cache' = [cache EXCEPT ![p] = fresh]
  /\ tick' = [tick EXCEPT ![p] =
       [@ EXCEPT !.at = IF due = {} THEN "report" ELSE "read", !.i = NextFrom(due, 1),
                 !.got = EmptyCache, !.failed = due \ answered, !.mode = mode]]
  /\ UNCHANGED <<clock, ledger, calls>>

ReadLedger(p) ==
  /\ tick[p].at = "read"
  /\ tick' = [tick EXCEPT ![p].at = "write", ![p].read = State(Current(p), tick[p].now)]
  /\ UNCHANGED <<clock, ledger, cache, calls>>

\* Failed calls count, and are repeated after the retry interval.
WriteLedger(p) ==
  LET s == Current(p)
      wait == IF s \in tick[p].failed THEN Policy[s].retry ELSE Policy[s].interval[tick[p].mode]
      next == NextFrom(tick[p].due, tick[p].i + 1)
  IN
  /\ tick[p].at = "write"
  /\ Upsert(p, s, 1, tick[p].now + wait)
  /\ tick' = [tick EXCEPT ![p] =
       IF next > Len(Sources)
       THEN [@ EXCEPT !.at = "report", !.i = 1, !.read = None, !.mode = "base"]
       ELSE [@ EXCEPT !.at = "read", !.i = next, !.read = None]]
  /\ UNCHANGED <<clock, cache, calls>>

\* The report: the quotes by operator, and whether every source has failed.
ReportedQuotes(p) == Merged(cache[p])
AllFailed(p) == tick[p].failed = Feeds

Ticking(p) ==
  \/ SkipSource(p) \/ TakeSource(p) \/ BlockSource(p) \/ RecordBlocked(p)
  \/ \E s \in Feeds, ok \in BOOLEAN : FetchOne(p, s, ok)
  \/ \E mode \in Modes : Collect(p, mode)
  \/ ReadLedger(p) \/ WriteLedger(p)

\* Where time passes: at a provider, between two ticks, and before a write. The
\* other steps read no clock, only tick[p].now.
Waiting(p) == tick[p].at \in {"idle", "fetch", "write"}

PassTime ==
  /\ clock < MaxClock /\ \A p \in Procs : Waiting(p)
  /\ clock' = clock + 1
  /\ UNCHANGED <<ledger, cache, tick, calls>>

---------------------------------------------------------------------------
(* Properties                                                              *)

SchedulerTypeOK ==
  /\ clock \in 0..MaxClock
  /\ ledger \in [Feeds -> Rows \cup {None}]
  /\ cache \in [Procs -> [Feeds -> 0..MaxClock \cup {None}]]
  /\ \A p \in Procs : /\ tick[p].now \in -1..clock /\ tick[p].due \subseteq Feeds
                      /\ tick[p].i \in 1..Len(Sources) + 1
  /\ calls \in [Feeds -> [Days -> Nat]]

Spent(s, D) == SumFunctionOnSet(calls[s], D)
DaysOf(m) == { d \in Days : Month(d * DayLength) = m }

\* The ledger never charges a source for calls it was not asked for, whatever
\* processes write over each other and in whatever order: a source with budget
\* left is not refused.
NeverOvercharged ==
  \A s \in Feeds : ledger[s] # None =>
    /\ ledger[s].calls <= calls[s][ledger[s].day]
    /\ ledger[s].units <= Policy[s].units * Spent(s, DaysOf(ledger[s].month))
=============================================================================
