-------------------------- MODULE ShadowLoopProofs --------------------------
(***************************************************************************)
(* Proofs about ShadowLoop, for any sources, policies, fleets of processes *)
(* and number of faults: its type invariant; that the budget ledger never  *)
(* charges for calls that were not made, whatever its processes write over *)
(* each other; that a process by itself keeps its budgets, but for one     *)
(* call per fault; and that the scans a replay reads are whole and fresh.  *)
(***************************************************************************)
EXTENDS ShadowLoop, SumTheorems, TLAPS

---------------------------------------------------------------------------
(* The inductive invariant                                                 *)

Places == {"idle", "check", "block", "fetch", "read", "write", "report"}
States == [calls : Nat, units : Nat, due : Nat \cup {None}]
Ticks ==
  [at : Places, now : -1..MaxClock, i : 1..Len(Sources) + 1, due : SUBSET Feeds,
   got : [Feeds -> Answers \cup {None}], failed : SUBSET Feeds,
   read : States \cup {None}, mode : Modes]

Operators == UNION { Policy[s].operators : s \in Feeds }
Quotes == UNION { [S -> 0..MaxClock] : S \in SUBSET Operators }
Scans ==
  [started : -1..MaxClock, status : {"running", "ok", "error"}, coverage : SUBSET Operators,
   quotes : Quotes, opportunities : Nat, signals : BOOLEAN,
   quoteCount : Nat, opportunityCount : Nat]
Stages == {"sleep", "fetch", "quotes", "opportunities", "signals", "complete", "fail", "ended"}
Loops == [at : Stages, quoteCount : Nat, opportunityCount : Nat]

\* The shape of the state.
SchedulerShapes ==
  /\ clock \in 0..MaxClock
  /\ ledger \in [Feeds -> Rows \cup {None}]
  /\ cache \in [Procs -> [Feeds -> 0..MaxClock \cup {None}]]
  /\ tick \in [Procs -> Ticks]
  /\ calls \in [Feeds -> [Days -> Nat]]
ShadowShapes ==
  /\ fleet \in Fleets /\ faults \in Nat
  /\ scan \in [Procs -> Scans]
  /\ loop \in [Procs -> Loops]

\* The local variables of fetch_report, at each place.
TickOf(p) ==
  LET t == tick[p] IN
  /\ t.now <= clock /\ (t.at # "idle" => t.now >= 0)
  /\ t.at \in {"check", "block", "read", "write"} => t.i \in 1..Len(Sources)
  /\ t.at \in {"idle", "check", "block"} => t.got = EmptyCache
  /\ t.at \in {"read", "write"} => Sources[t.i] \in t.due
  /\ t.at \in {"block", "write"} => t.read \in States

\* What a cycle has done, at each stage.
StageOf(p) ==
  /\ scan[p].started <= clock
  /\ loop[p].at \in {"sleep", "ended"} => tick[p].at = "idle"
  /\ loop[p].at \in {"quotes", "opportunities", "signals", "complete"} => tick[p].at = "report"
  /\ loop[p].at \notin {"sleep", "ended"} =>
       scan[p].started = tick[p].now /\ scan[p].status = "running"

TypeInv ==
  /\ SchedulerShapes /\ ShadowShapes
  /\ \A p \in Procs : TickOf(p) /\ StageOf(p)

\* The sources p has called and not recorded yet; the processes that owe the
\* ledger a call of s made in a tick of days D.
Indexes(s) == { j \in 1..Len(Sources) : Sources[j] = s }
Unrecorded(p) ==
  LET t == tick[p] IN
  { s \in t.due : \/ t.at = "fetch" /\ t.got[s] # None
                  \/ t.at \in {"read", "write"} /\ \A j \in Indexes(s) : j >= t.i }
Owing(s, D) == { p \in Procs : s \in Unrecorded(p) /\ Day(tick[p].now) \in D }

\* n calls of s have been recorded on days D, and those still owed are others.
Covers(s, D, n) == n + Cardinality(Owing(s, D)) <= Spent(s, D)

\* A row, or what was read of one, that charges for calls that were made.
Honest(s, row) ==
  /\ Covers(s, {row.day}, row.calls)
  /\ \E n \in Nat : row.units = Policy[s].units * n /\ Covers(s, DaysOf(row.month), n)
ReadOf(p) ==
  [day |-> Day(tick[p].now), calls |-> tick[p].read.calls,
   month |-> Month(tick[p].now), units |-> tick[p].read.units]

HonestInv ==
  /\ \A s \in Feeds : \A D \in SUBSET Days : Covers(s, D, 0)
  /\ \A s \in Feeds : ledger[s] # None => Honest(s, ledger[s])
  /\ \A p \in Procs : tick[p].at \in {"block", "write"} => Honest(Current(p), ReadOf(p))

\* A process by itself: what its ledger says of the day and the month of its
\* tick, the call it owes, and the faults are all there is to the calls made.
Owed(p, s) == IF loop[p].at = "fetch" /\ s \in Unrecorded(p) THEN 1 ELSE 0
Due(p, s) ==
  /\ loop[p].at = "fetch" /\ s \in tick[p].due
  /\ tick[p].at \in {"check", "block", "fetch"} \/ s \in Unrecorded(p)
Account(p, s) ==
  LET now == tick[p].now
      st == State(s, now)
  IN
  /\ \A d \in Days : d > Day(now) => calls[s][d] = 0
  /\ now >= 0 => calls[s][Day(now)] <= st.calls + Owed(p, s) + faults
  /\ now >= 0 => \E n \in Nat :
       /\ st.units = Policy[s].units * n
       /\ Spent(s, DaysOf(Month(now))) <= n + Owed(p, s) + faults
  /\ Due(p, s) => CanSpend(s, st)
\* What p would now read of the row of s, and what it holds of the row it handles.
Standing(p, s) == State(s, tick[p].now)
ReadsTheRow(p) ==
  tick[p].at \in {"block", "write"} => tick[p].read = Standing(p, Current(p))

BudgetInv ==
  OnItsOwn =>
    /\ \A p \in fleet : ReadsTheRow(p) /\ \A s \in Feeds : Account(p, s)
    /\ BudgetsKept

\* The cache of a tick is fresh, and so is what is stored of it.
FreshCache(p) ==
  tick[p].at # "idle" =>
    \A s \in Feeds : cache[p][s] = None \/ Fresh(s, cache[p][s], tick[p].now)

\* The rows stored so far, and their counts.
StoredOf(p) ==
  LET s == scan[p]
      at == loop[p].at
  IN
  /\ at = "quotes" => s.coverage = DOMAIN ReportedQuotes(p)
  /\ at \in {"opportunities", "signals", "complete"} \/ s.status = "ok" =>
       /\ s.coverage = DOMAIN s.quotes
       /\ \A o \in DOMAIN s.quotes : FreshAt(o, s.quotes[o], s.started)
  /\ at \in {"opportunities", "signals", "complete"} =>
       loop[p].quoteCount = Cardinality(DOMAIN s.quotes)
  /\ at \in {"signals", "complete"} => loop[p].opportunityCount = s.opportunities
  /\ at = "complete" => s.signals
  /\ at \notin {"sleep", "ended"} =>
       /\ loop[p].quoteCount <= Cardinality(DOMAIN s.quotes)
       /\ loop[p].opportunityCount <= s.opportunities
  /\ s.status = "ok" =>
       /\ s.quoteCount = Cardinality(DOMAIN s.quotes)
       /\ s.opportunityCount = s.opportunities
       /\ s.signals
  /\ s.status = "error" =>
       /\ s.quoteCount <= Cardinality(DOMAIN s.quotes)
       /\ s.opportunityCount <= s.opportunities

ScanInv == \A p \in Procs : FreshCache(p) /\ StoredOf(p)

---------------------------------------------------------------------------
(* Constants and the calendar                                              *)

\* The constants have their types, and there is a source.
LEMMA Constants ==
  /\ MaxClock \in Nat /\ DayLength \in Nat \ {0} /\ MonthLength \in Nat \ {0}
  /\ Len(Sources) \in Nat \ {0} /\ IsFiniteSet(Procs)
  /\ \A j \in 1..Len(Sources) : Sources[j] \in Feeds
  /\ \A s \in Feeds : /\ Policy[s].units \in Nat \ {0} /\ Policy[s].maxAge \in Nat
                      /\ Policy[s].retry \in Nat /\ Policy[s].rank \in Nat
                      /\ Policy[s].interval \in [Modes -> Nat]
                      /\ Policy[s].dayLimit \in Nat \cup {None}
                      /\ Policy[s].monthLimit \in Nat \cup {None}
<1>1. Len(Sources) \in Nat \ {0}
  BY SchedulerAssumption
<1>2. \A j \in 1..Len(Sources) : Sources[j] \in Feeds
  BY DEF Feeds
<1>3. ASSUME NEW s \in Feeds
      PROVE  /\ Policy[s].units \in Nat \ {0} /\ Policy[s].maxAge \in Nat
             /\ Policy[s].retry \in Nat /\ Policy[s].rank \in Nat
             /\ Policy[s].interval \in [Modes -> Nat]
             /\ Policy[s].dayLimit \in Nat \cup {None}
             /\ Policy[s].monthLimit \in Nat \cup {None}
  <2>1. Policy[s] \in SourcePolicy
    BY SchedulerAssumption
  <2> QED
    BY <2>1 DEF SourcePolicy, Limit
<1> QED
  BY <1>1, <1>2, <1>3, SchedulerAssumption

\* A quotient bounds what it is the quotient of.
LEMMA Quotient ==
  ASSUME NEW n \in Nat \ {0}, NEW x \in Int
  PROVE  x \div n \in Int /\ n * (x \div n) <= x /\ x < n * ((x \div n) + 1)
  OBVIOUS

\* Only the quotient does.
LEMMA QuotientIsUnique ==
  ASSUME NEW n \in Nat \ {0}, NEW x \in Int, NEW q \in Int, n * q <= x, x < n * (q + 1)
  PROVE  x \div n = q
<1>1. x \div n \in Int /\ n * (x \div n) <= x /\ x < n * ((x \div n) + 1)
  BY Quotient
<1>2. CASE q < x \div n
  <2>1. n * (q + 1) <= n * (x \div n)
    BY <1>1, <1>2
  <2> QED
    BY <1>1, <2>1
<1>3. CASE q > x \div n
  <2>1. n * q >= n * ((x \div n) + 1)
    BY <1>1, <1>3
  <2> QED
    BY <1>1, <2>1
<1> QED
  BY <1>1, <1>2, <1>3

\* A later time has no smaller quotient.
LEMMA QuotientGrows ==
  ASSUME NEW n \in Nat \ {0}, NEW x \in Int, NEW y \in Int, x <= y
  PROVE  x \div n <= y \div n
  OBVIOUS

\* A product grows with its factor.
LEMMA ProductGrows ==
  ASSUME NEW n \in Nat, NEW x \in Int, NEW y \in Int, x <= y
  PROVE  n * x <= n * y
  OBVIOUS

\* Days and months are numbered, those of the times before the end from zero on.
LEMMA DayTypes ==
  /\ Days \subseteq Nat /\ IsFiniteSet(Days)
  /\ \A t \in Int : Day(t) \in Int /\ Month(t) \in Int
  /\ \A t \in 0..MaxClock : Day(t) \in Days /\ Day(t) \in Nat /\ Month(t) \in Nat
  /\ \A m : DaysOf(m) \subseteq Days /\ IsFiniteSet(DaysOf(m))
<1>1. \A t \in Int : Day(t) \in Int /\ Month(t) \in Int
  BY Constants, Quotient DEF Day, Month
<1>2. Days \subseteq Nat /\ IsFiniteSet(Days)
  <2>1. Day(MaxClock) \in Int /\ 0 \in Int
    BY <1>1, Constants
  <2>2. IsFiniteSet(0 .. Day(MaxClock))
    BY <2>1, FS_Interval
  <2> QED
    BY <2>1, <2>2 DEF Days
<1>3. ASSUME NEW t \in 0..MaxClock PROVE Day(t) \in Days /\ Day(t) \in Nat /\ Month(t) \in Nat
  <2>1. Day(0) = 0 /\ Month(0) = 0
    BY Constants DEF Day, Month
  <2>2. /\ 0 \div DayLength <= t \div DayLength
        /\ t \div DayLength <= MaxClock \div DayLength
        /\ 0 \div MonthLength <= t \div MonthLength
    <3>1. /\ t \in Int /\ MaxClock \in Int /\ 0 <= t /\ t <= MaxClock
          /\ DayLength \in Nat \ {0} /\ MonthLength \in Nat \ {0}
      BY Constants
    <3>2. 0 \div DayLength <= t \div DayLength
      BY <3>1, QuotientGrows
    <3>3. t \div DayLength <= MaxClock \div DayLength
      BY <3>1, QuotientGrows
    <3>4. 0 \div MonthLength <= t \div MonthLength
      BY <3>1, QuotientGrows
    <3> QED
      BY <3>2, <3>3, <3>4
  <2> QED
    BY <1>1, <2>1, <2>2, Constants DEF Days, Day, Month
<1>4. \A m : DaysOf(m) \subseteq Days /\ IsFiniteSet(DaysOf(m))
  BY <1>2, FS_Subset DEF DaysOf
<1> QED
  BY <1>1, <1>2, <1>3, <1>4

\* The day of a time belongs to its month, since months are whole days.
LEMMA DayIsInItsMonth ==
  ASSUME NEW t \in 0..MaxClock
  PROVE  Day(t) \in DaysOf(Month(t))
<1> DEFINE k == MonthLength \div DayLength
           d == t \div DayLength
           m == t \div MonthLength
<1>1. DayLength \in Nat \ {0} /\ MonthLength \in Nat \ {0} /\ MonthLength % DayLength = 0
  BY SchedulerAssumption
<1>2. MonthLength = DayLength * k /\ k \in Int
  BY <1>1
<1>3. k \in Nat \ {0}
  BY <1>1, <1>2
<1>4. /\ d \in Int /\ DayLength * d <= t /\ t < DayLength * (d + 1)
      /\ m \in Int /\ MonthLength * m <= t /\ t < MonthLength * (m + 1)
  BY <1>1, Quotient
<1>5. k * m <= d
  <2>1. SUFFICES ASSUME d + 1 <= k * m PROVE FALSE
    BY <1>3, <1>4
  <2> HIDE DEF k, d, m
  <2>2. DayLength * (d + 1) <= DayLength * (k * m)
    BY <1>1, <1>3, <1>4, <2>1
  <2>3. DayLength * (k * m) = (DayLength * k) * m
    BY <1>1, <1>3, <1>4
  <2> QED
    BY <1>1, <1>2, <1>3, <1>4, <2>2, <2>3
<1>6. MonthLength * m <= DayLength * d
  <2> HIDE DEF k, d, m
  <2>1. DayLength * (k * m) <= DayLength * d
    BY <1>1, <1>3, <1>4, <1>5
  <2>2. DayLength * (k * m) = (DayLength * k) * m
    BY <1>1, <1>3, <1>4
  <2> QED
    BY <1>1, <1>2, <1>3, <1>4, <2>1, <2>2
<1>7. DayLength * d \in Int /\ DayLength * d = d * DayLength
  BY <1>1, <1>4
<1>8. (d * DayLength) \div MonthLength = m
  <2> HIDE DEF k, d, m
  <2>1. MonthLength * m <= d * DayLength /\ d * DayLength < MonthLength * (m + 1)
    BY <1>1, <1>4, <1>6, <1>7
  <2> QED
    BY <1>1, <1>4, <1>7, <2>1, QuotientIsUnique
<1>9. Day(t) \in Days
  BY DayTypes
<1> QED
  BY <1>8, <1>9 DEF DaysOf, Day, Month

\* The days of a later month are later days.
LEMMA LaterMonths ==
  ASSUME NEW t \in -1..MaxClock, NEW m \in Int, m > Month(t), NEW d \in DaysOf(m)
  PROVE  d > Day(t)
<1>1. d \in Nat /\ Month(d * DayLength) = m
  BY DayTypes DEF DaysOf
<1>2. d * DayLength \in Int
  BY <1>1, Constants
<1>3. d * DayLength > t
  <2>1. SUFFICES ASSUME d * DayLength <= t PROVE FALSE
    BY <1>2, Constants
  <2>2. (d * DayLength) \div MonthLength <= t \div MonthLength
    <3> DEFINE x == d * DayLength
    <3>1. x \in Int /\ x <= t /\ t \in Int /\ MonthLength \in Nat \ {0}
      BY <1>2, <2>1, Constants
    <3> HIDE DEF x
    <3>2. x \div MonthLength <= t \div MonthLength
      BY <3>1, QuotientGrows
    <3> QED
      BY <3>2 DEF x
  <2>3. t \div MonthLength \in Int
    BY Constants, Quotient
  <2> QED
    BY <1>1, <2>2, <2>3 DEF Month
<1>4. Day(t) \in Int /\ DayLength * Day(t) <= t
  BY Constants, Quotient DEF Day
<1>5. SUFFICES ASSUME d <= Day(t) PROVE FALSE
  BY <1>1, <1>4
<1>6. DayLength * d <= DayLength * Day(t)
  <2>1. DayLength \in Nat /\ d \in Int /\ Day(t) \in Int
    BY <1>1, <1>4, Constants
  <2> QED
    BY <1>5, <2>1, ProductGrows
<1> QED
  BY <1>1, <1>2, <1>3, <1>4, <1>6, Constants

---------------------------------------------------------------------------
(* The loop over the sources, and the merge of their quotes                *)

\* A finite set of integers has a least element.
LEMMA LeastElement ==
  ASSUME NEW S \in SUBSET Int, IsFiniteSet(S), S # {}
  PROVE  Min(S) \in S /\ \A y \in S : Min(S) <= y
<1>1. \E x \in S : \A y \in S : x <= y
  BY LeastInteger
<1> QED
  BY <1>1 DEF Min

\* The loop goes on at the next source of the set, or at its end.
LEMMA NextFromFinds ==
  ASSUME NEW S, NEW i \in 1..Len(Sources) + 1
  PROVE  /\ NextFrom(S, i) \in i..Len(Sources) + 1
         /\ NextFrom(S, i) <= Len(Sources) => Sources[NextFrom(S, i)] \in S
         /\ \A j \in i..Len(Sources) : Sources[j] \in S => NextFrom(S, i) <= j
<1> DEFINE later == { j \in i..Len(Sources) : Sources[j] \in S }
<1>1. i \in Int /\ Len(Sources) \in Int
  BY Constants
<1>2. IsFiniteSet(later) /\ later \in SUBSET Int
  <2>1. IsFiniteSet(i..Len(Sources))
    BY <1>1, FS_Interval
  <2> QED
    BY <1>1, <2>1, FS_Subset
<1>3. NextFrom(S, i) = IF later = {} THEN Len(Sources) + 1 ELSE Min(later)
  BY DEF NextFrom
<1>4. CASE later = {}
  <2>1. NextFrom(S, i) = Len(Sources) + 1
    BY <1>3, <1>4
  <2>2. \A j \in i..Len(Sources) : Sources[j] \notin S
    BY <1>4
  <2> HIDE DEF later
  <2> QED
    BY <1>1, <2>1, <2>2
<1>5. CASE later # {}
  <2>1. Min(later) \in later /\ \A y \in later : Min(later) <= y
    <3> HIDE DEF later
    <3> QED
      BY <1>2, <1>5, LeastElement
  <2>2. NextFrom(S, i) = Min(later)
    BY <1>3, <1>5
  <2>3. /\ NextFrom(S, i) \in i..Len(Sources) /\ Sources[NextFrom(S, i)] \in S
        /\ \A j \in i..Len(Sources) : Sources[j] \in S => NextFrom(S, i) <= j
    BY <2>1, <2>2
  <2> HIDE DEF later
  <2> QED
    BY <1>1, <2>3
<1> QED
  BY <1>4, <1>5

\* The operators are finitely many.
LEMMA OperatorsAreFinite ==
  /\ IsFiniteSet(Operators) /\ IsFiniteSet(Feeds)
  /\ \A S \in SUBSET Operators : IsFiniteSet(S) /\ Cardinality(S) \in Nat
<1>1. IsFiniteSet(Feeds)
  <2> DEFINE f == [i \in 1..Len(Sources) |-> Sources[i]]
  <2>1. f \in Surjection(1..Len(Sources), Feeds)
    BY DEF Feeds, Surjection
  <2>2. Len(Sources) \in Nat
    BY Constants
  <2>3. ExistsSurjection(1..Len(Sources), Feeds)
    BY <2>1 DEF ExistsSurjection
  <2> QED
    BY <2>2, <2>3, FS_NatSurjection
<1>2. IsFiniteSet({ Policy[s].operators : s \in Feeds })
  <2> DEFINE f == [s \in Feeds |-> Policy[s].operators]
             all == { Policy[s].operators : s \in Feeds }
  <2>1. f \in Surjection(Feeds, all)
    BY DEF Surjection
  <2> HIDE DEF f, all
  <2>2. IsFiniteSet(all)
    BY <1>1, <2>1, FS_Surjection
  <2> QED
    BY <2>2 DEF all
<1>3. IsFiniteSet(Operators)
  <2> DEFINE all == { Policy[s].operators : s \in Feeds }
  <2>1. \A T \in all : IsFiniteSet(T)
    BY SchedulerAssumption
  <2>2. IsFiniteSet(all)
    BY <1>2
  <2> HIDE DEF all
  <2>3. IsFiniteSet(UNION all)
    BY <2>1, <2>2, FS_UNION
  <2> QED
    BY <2>3 DEF Operators, all
<1> QED
  BY <1>1, <1>3, FS_Subset, FS_CardinalityType

\* Of the sources that carry an operator, one is preferred to all others.
LEMMA PreferredExists ==
  ASSUME NEW held \in [Feeds -> 0..MaxClock \cup {None}], NEW o \in Covered(held)
  PROVE  \E s \in Carriers(held, o) : \A f \in Carriers(held, o) : Preferred(held, s, f)
<1> DEFINE S == Carriers(held, o)
           G == { T \in SUBSET S : T = {} \/ \E s \in T : \A f \in T : Preferred(held, s, f) }
<1>1. S # {} /\ S \subseteq Feeds /\ \A s \in S : held[s] \in Int /\ Policy[s].rank \in Int
  <2>1. PICK s \in Feeds : held[s] # None /\ o \in Policy[s].operators
    BY DEF Covered
  <2> QED
    BY <2>1, Constants DEF Carriers
<1>2. IsFiniteSet(S)
  BY <1>1, OperatorsAreFinite, FS_Subset
<1>3. {} \in G
  OBVIOUS
<1>4. ASSUME NEW T \in SUBSET S, NEW x \in S, T \in G, x \notin T PROVE T \cup {x} \in G
  <2> HIDE DEF S
  <2>1. CASE T = {}
    <3>1. \A f \in T \cup {x} : Preferred(held, x, f)
      BY <1>1, <2>1 DEF Preferred
    <3> QED
      BY <3>1
  <2>2. CASE T # {}
    <3>1. PICK z \in T : \A f \in T : Preferred(held, z, f)
      BY <1>4, <2>2
    <3>2. CASE Preferred(held, z, x)
      <4>1. \A f \in T \cup {x} : Preferred(held, z, f)
        BY <3>1, <3>2
      <4> QED
        BY <4>1
    <3>3. CASE ~ Preferred(held, z, x)
      <4>1. \A f \in T \cup {x} : Preferred(held, x, f)
        BY <1>1, <3>1, <3>3 DEF Preferred
      <4> QED
        BY <4>1
    <3> QED
      BY <3>2, <3>3
  <2> QED
    BY <2>1, <2>2
<1>5. \A T \in SUBSET S, x \in S : T \in G /\ x \notin T => T \cup {x} \in G
  BY <1>4
<1>6. S \in G
  <2> HIDE DEF G, S
  <2> QED
    BY <1>2, <1>3, <1>5, FiniteInduction
<1>7. \E s \in S : \A f \in S : Preferred(held, s, f)
  <2> HIDE DEF S
  <2> QED
    BY <1>1, <1>6
<1> QED
  BY <1>7

\* The merge quotes every operator covered, with the time of a source that
\* carries it.
LEMMA MergeIsOfCarriers ==
  ASSUME NEW held \in [Feeds -> 0..MaxClock \cup {None}]
  PROVE  /\ Merged(held) \in Quotes
         /\ DOMAIN Merged(held) = Covered(held) /\ Covered(held) \in SUBSET Operators
         /\ \A o \in Covered(held) :
              \E s \in Feeds : /\ held[s] # None /\ o \in Policy[s].operators
                              /\ Merged(held)[o] = held[s]
<1>1. Covered(held) \in SUBSET Operators
  BY DEF Covered, Operators
<1>2. ASSUME NEW o \in Covered(held)
      PROVE  \E s \in Feeds : /\ held[s] # None /\ o \in Policy[s].operators
                             /\ Merged(held)[o] = held[s]
  <2> DEFINE s == CHOOSE s \in Carriers(held, o) :
                    \A f \in Carriers(held, o) : Preferred(held, s, f)
  <2>1. s \in Carriers(held, o)
    BY PreferredExists
  <2>2. Merged(held)[o] = held[s]
    BY DEF Merged
  <2> HIDE DEF s
  <2> QED
    BY <2>1, <2>2 DEF Carriers
<1>3. Merged(held) = [o \in Covered(held) |-> Merged(held)[o]]
  BY DEF Merged
<1>4. \A o \in Covered(held) : Merged(held)[o] \in 0..MaxClock
  BY <1>2
<1>5. Merged(held) \in [Covered(held) -> 0..MaxClock]
  BY <1>3, <1>4
<1> QED
  BY <1>1, <1>2, <1>5 DEF Quotes

---------------------------------------------------------------------------
(* Type correctness: a tick of the scheduler                               *)

\* A step of p, in its cycle or by a fault, and the steps of the fleet.
Turn(p) == Cycle(p) \/ Restart(p) \/ Fault(p)
TimePasses == PassTime /\ UNCHANGED shadowVars

\* A step is a step of a process of the fleet, or time passes.
LEMMA StepsOfNext == Next => (\E p \in fleet : Turn(p)) \/ TimePasses
  BY DEF Next, Turn, TimePasses

\* The tick of p, its cache and the ledger after a step of p; the other
\* processes are where they were.
TickMoves(p) ==
  /\ SchedulerShapes' /\ TickOf(p)'
  /\ \A q \in Procs \ {p} : tick'[q] = tick[q] /\ cache'[q] = cache[q]

\* An empty cache has its type, and so has a process at rest or at the start of
\* a tick.
LEMMA RestingTypes ==
  /\ EmptyCache \in [Feeds -> 0..MaxClock \cup {None}]
  /\ EmptyCache \in [Feeds -> Answers \cup {None}]
  /\ \A n \in -1..MaxClock : \A a \in {"idle", "check"} :
       LET t == [Resting EXCEPT !.at = a, !.now = n] IN
       /\ t \in Ticks /\ t.at = a /\ t.now = n /\ t.i = 1 /\ t.due = {} /\ t.got = EmptyCache
       /\ t.failed = {}
  /\ \A n \in -1..MaxClock :
       LET t == [Resting EXCEPT !.now = n] IN
       /\ t \in Ticks /\ t.at = "idle" /\ t.now = n /\ t.due = {} /\ t.got = EmptyCache
  /\ Resting \in Ticks /\ Resting.now = -1 /\ Resting.at = "idle" /\ Resting.got = EmptyCache
  /\ Resting.due = {}
<1>1. 1 \in 1..Len(Sources) + 1 /\ -1 \in -1..MaxClock
  BY Constants
<1>2. /\ EmptyCache \in [Feeds -> 0..MaxClock \cup {None}]
      /\ EmptyCache \in [Feeds -> Answers \cup {None}]
  <2>1. \A S : [s \in Feeds |-> None] \in [Feeds -> S \cup {None}]
    OBVIOUS
  <2> QED
    BY <2>1 DEF EmptyCache
<1>3. /\ Resting \in Ticks /\ Resting.now = -1 /\ Resting.at = "idle" /\ Resting.i = 1
      /\ Resting.due = {} /\ Resting.got = EmptyCache /\ Resting.failed = {}
  BY <1>1, <1>2 DEF Resting, Ticks, Places, Modes
<1>4. {"idle", "check"} \subseteq Places
  BY DEF Places
<1> QED
  BY <1>2, <1>3, <1>4 DEF Ticks

\* The first state has these types.
LEMMA TypeInit == Init => TypeInv
<1> SUFFICES ASSUME Init PROVE TypeInv
  OBVIOUS
<1>1. fleet \in Fleets /\ Start[Cardinality(fleet)] \in 0..MaxClock
  <2>1. Start \in Seq(0..MaxClock) /\ Cardinality(fleet) \in DOMAIN Start /\ fleet \in Fleets
    BY ShadowAssumption DEF Init
  <2> DEFINE n == Cardinality(fleet)
  <2>2. n \in 1..Len(Start)
    BY <2>1
  <2> DEFINE S == 0..MaxClock
  <2>3. Start \in Seq(S) /\ n \in 1..Len(Start)
    BY <2>1, <2>2
  <2> HIDE DEF n, S
  <2>4. Start[n] \in S
    BY <2>3
  <2> QED
    BY <2>1, <2>4 DEF n, S
<1>2. Resting \in Ticks /\ Resting.now = -1 /\ Resting.at = "idle" /\ Resting.got = EmptyCache
  BY RestingTypes
<1>3. SchedulerShapes
  BY <1>1, <1>2, RestingTypes DEF Init, SchedulerInit, SchedulerShapes
<1>4. NoQuotes \in Quotes
  <2>1. NoQuotes \in [{} -> 0..MaxClock] /\ {} \in SUBSET Operators
    BY DEF NoQuotes
  <2> QED
    BY <2>1 DEF Quotes
<1>5. Scan \in Scans /\ Sleeping \in Loops
  BY <1>4, Constants DEF Scan, Scans, Sleeping, Loops, Stages
<1>6. ShadowShapes
  BY <1>1, <1>5 DEF Init, ShadowShapes
<1>7. \A p \in Procs : TickOf(p)
  BY <1>1, <1>2, Constants DEF Init, SchedulerInit, TickOf
<1>8. \A p \in Procs : StageOf(p)
  BY <1>1, <1>2, Constants DEF Init, SchedulerInit, StageOf, Scan, Sleeping
<1> QED
  BY <1>3, <1>6, <1>7, <1>8 DEF TypeInv

\* What is read of the ledger has its type.
LEMMA StateTypes ==
  ASSUME TypeInv, NEW s \in Feeds, NEW now \in Int
  PROVE  State(s, now) \in States
<1>1. ledger[s] \in Rows \cup {None}
  BY DEF TypeInv, SchedulerShapes
<1> QED
  BY <1>1 DEF State, States, Rows

\* What is left of a cache is some of it.
LEMMA PrunedTypes ==
  ASSUME NEW held \in [Feeds -> 0..MaxClock \cup {None}], NEW now
  PROVE  Pruned(held, now) \in [Feeds -> 0..MaxClock \cup {None}]
  BY DEF Pruned

\* BeginTick keeps the types.
LEMMA TypeBegin ==
  ASSUME TypeInv, NEW p \in Procs, BeginTick(p)
  PROVE  TickMoves(p)
<1>0. clock \in -1..MaxClock /\ tick'[p] = [Resting EXCEPT !.at = "check", !.now = clock]
  BY Constants DEF TypeInv, SchedulerShapes, BeginTick
<1>1. /\ tick'[p] \in Ticks /\ tick'[p].at = "check" /\ tick'[p].now = clock /\ tick'[p].i = 1
      /\ tick'[p].got = EmptyCache
  <2> DEFINE t == [Resting EXCEPT !.at = "check", !.now = clock]
  <2>1. /\ t \in Ticks /\ t.at = "check" /\ t.now = clock /\ t.i = 1 /\ t.got = EmptyCache
    BY <1>0, RestingTypes
  <2> HIDE DEF t
  <2>2. tick'[p] = t
    BY <1>0 DEF t
  <2> QED
    BY <2>1, <2>2
<1>2. tick' \in [Procs -> Ticks] /\ \A q \in Procs \ {p} : tick'[q] = tick[q]
  BY <1>1 DEF TypeInv, SchedulerShapes, BeginTick
<1>3. cache' \in [Procs -> [Feeds -> 0..MaxClock \cup {None}]]
      /\ \A q \in Procs \ {p} : cache'[q] = cache[q]
  BY PrunedTypes DEF TypeInv, SchedulerShapes, BeginTick
<1>4. SchedulerShapes'
  BY <1>2, <1>3 DEF TypeInv, SchedulerShapes, BeginTick
<1>5. TickOf(p)'
  <2>1. clock' = clock /\ clock \in Nat
    BY Constants DEF TypeInv, SchedulerShapes, BeginTick
  <2>2. 1 \in 1..Len(Sources)
    BY Constants
  <2> QED
    BY <1>1, <2>1, <2>2 DEF TickOf
<1> QED
  BY <1>2, <1>3, <1>4, <1>5 DEF TickMoves

\* The loop over the sources goes on, whatever has become of this one.
LEMMA TypeLooked ==
  ASSUME TypeInv, NEW p \in Procs, tick[p].at \in {"check", "block"},
         NEW due \in SUBSET Feeds, Looked(p, due)
  PROVE  /\ tick' \in [Procs -> Ticks] /\ \A q \in Procs \ {p} : tick'[q] = tick[q]
         /\ clock' = clock => TickOf(p)'
         /\ tick'[p].at \in {"fetch", "check"} /\ tick'[p].now = tick[p].now
         /\ tick'[p].due = due /\ tick'[p].got = EmptyCache
<1>1. tick[p] \in Ticks /\ tick[p].i \in 1..Len(Sources) /\ tick[p].got = EmptyCache
      /\ tick[p].now >= 0 /\ tick[p].now <= clock /\ tick[p].i + 1 \in 1..Len(Sources) + 1
  BY Constants DEF TypeInv, SchedulerShapes, TickOf
<1>2. tick'[p] = [tick[p] EXCEPT !.at = IF tick[p].i = Len(Sources) THEN "fetch" ELSE "check",
                                !.i = IF tick[p].i = Len(Sources) THEN 1 ELSE tick[p].i + 1,
                                !.due = due, !.read = None]
  BY DEF Looked, TypeInv, SchedulerShapes
<1>3. tick'[p] \in Ticks
  <2>1. 1 \in 1..Len(Sources) + 1 /\ {"fetch", "check"} \subseteq Places
    BY Constants DEF Places
  <2> QED
    BY <1>1, <1>2, <2>1 DEF Ticks
<1>4. tick' \in [Procs -> Ticks] /\ \A q \in Procs \ {p} : tick'[q] = tick[q]
  BY <1>3 DEF Looked, TypeInv, SchedulerShapes
<1>5. ASSUME clock' = clock PROVE TickOf(p)'
  BY <1>1, <1>2, <1>5, Constants DEF TickOf, Ticks
<1>6. /\ tick'[p].at \in {"fetch", "check"} /\ tick'[p].now = tick[p].now
      /\ tick'[p].due = due /\ tick'[p].got = EmptyCache
  BY <1>1, <1>2 DEF Ticks
<1> QED
  BY <1>4, <1>5, <1>6

\* The steps over one source, RecordBlocked apart, keep the types.
LEMMA TypeCheck ==
  ASSUME TypeInv, NEW p \in Procs, SkipSource(p) \/ TakeSource(p) \/ BlockSource(p)
  PROVE  /\ TickMoves(p) /\ Current(p) \in Feeds
         /\ tick'[p].now = tick[p].now /\ tick'[p].got = EmptyCache
         /\ tick'[p].at \in {"fetch", "check", "block"}
         /\ SkipSource(p) => tick'[p].at # "block" /\ tick'[p].due = tick[p].due
         /\ TakeSource(p) => tick'[p].at # "block" /\ tick'[p].due = tick[p].due \cup {Current(p)}
         /\ BlockSource(p) =>
              /\ tick'[p].at = "block" /\ tick'[p].due = tick[p].due /\ tick'[p].i = tick[p].i
              /\ tick'[p].read = State(Current(p), tick[p].now)
<1>1. tick[p] \in Ticks /\ tick[p].at = "check" /\ tick[p].i \in 1..Len(Sources)
      /\ Current(p) \in Feeds /\ tick[p].now \in Int /\ tick[p].now >= 0 /\ tick[p].now <= clock
      /\ tick[p].got = EmptyCache /\ tick[p].due \in SUBSET Feeds
  BY Constants DEF TypeInv, SchedulerShapes, TickOf, SkipSource, TakeSource, BlockSource,
                   Current, Ticks
<1>2. UNCHANGED <<clock, ledger, cache, calls>>
  BY DEF SkipSource, TakeSource, BlockSource
<1>3. ASSUME NEW due \in SUBSET Feeds, Looked(p, due)
      PROVE  /\ TickMoves(p) /\ tick'[p].at \in {"fetch", "check"}
             /\ tick'[p].now = tick[p].now /\ tick'[p].due = due /\ tick'[p].got = EmptyCache
  <2>1. /\ tick' \in [Procs -> Ticks] /\ \A q \in Procs \ {p} : tick'[q] = tick[q]
        /\ clock' = clock => TickOf(p)'
        /\ tick'[p].at \in {"fetch", "check"} /\ tick'[p].now = tick[p].now
        /\ tick'[p].due = due /\ tick'[p].got = EmptyCache
    BY <1>1, <1>3, TypeLooked
  <2> QED
    BY <1>2, <2>1 DEF TickMoves, TypeInv, SchedulerShapes
<1>4. ASSUME BlockSource(p)
      PROVE  /\ TickMoves(p) /\ tick'[p].now = tick[p].now /\ tick'[p].got = EmptyCache
             /\ tick'[p].at = "block" /\ tick'[p].due = tick[p].due /\ tick'[p].i = tick[p].i
             /\ tick'[p].read = State(Current(p), tick[p].now)
  <2> DEFINE state == State(Current(p), tick[p].now)
             t == [tick[p] EXCEPT !.at = "block", !.read = state]
  <2>1. state \in States
    BY <1>1, StateTypes
  <2>2. tick' = [tick EXCEPT ![p] = t]
    BY <1>4 DEF BlockSource
  <2> HIDE DEF state
  <2>3. t \in Ticks
    BY <1>1, <2>1 DEF Ticks, Places
  <2>4. /\ t.now = tick[p].now /\ t.got = EmptyCache /\ t.at = "block" /\ t.due = tick[p].due
        /\ t.read = state /\ t.i = tick[p].i
    BY <1>1 DEF Ticks
  <2> HIDE DEF t
  <2>5. tick' \in [Procs -> Ticks] /\ tick'[p] = t /\ \A q \in Procs \ {p} : tick'[q] = tick[q]
    BY <2>2, <2>3 DEF TypeInv, SchedulerShapes
  <2>6. TickOf(p)'
    BY <1>1, <1>2, <2>1, <2>4, <2>5 DEF TickOf
  <2>7. TickMoves(p)
    BY <1>2, <2>5, <2>6 DEF TickMoves, TypeInv, SchedulerShapes
  <2> QED
    BY <2>4, <2>5, <2>7 DEF state
<1>5. CASE SkipSource(p)
  <2>1. Looked(p, tick[p].due)
    BY <1>5 DEF SkipSource
  <2>2. ~ BlockSource(p) /\ ~ TakeSource(p)
    BY <1>5 DEF SkipSource, BlockSource, TakeSource
  <2> QED
    BY <1>1, <1>3, <2>1, <2>2
<1>6. CASE TakeSource(p)
  <2>1. Looked(p, tick[p].due \cup {Current(p)})
    BY <1>6 DEF TakeSource
  <2>2. ~ BlockSource(p) /\ ~ SkipSource(p)
    BY <1>6 DEF SkipSource, BlockSource, TakeSource
  <2> QED
    BY <1>1, <1>3, <2>1, <2>2
<1>7. CASE BlockSource(p)
  <2>1. ~ TakeSource(p) /\ ~ SkipSource(p)
    BY <1>7 DEF SkipSource, BlockSource, TakeSource
  <2> QED
    BY <1>1, <1>4, <1>7, <2>1
<1> QED
  BY <1>5, <1>6, <1>7

\* A row written has the type of a row.
LEMMA TypeUpsert ==
  ASSUME TypeInv, NEW p \in Procs, tick[p].read \in States, tick[p].now >= 0,
         NEW s \in Feeds, NEW n \in {0, 1}, NEW due \in Nat, Upsert(p, s, n, due)
  PROVE  /\ ledger' \in [Feeds -> Rows \cup {None}]
         /\ ledger'[s] \in Rows
         /\ ledger'[s].day = Day(tick[p].now) /\ ledger'[s].month = Month(tick[p].now)
         /\ ledger'[s].calls = tick[p].read.calls + n
         /\ ledger'[s].units = tick[p].read.units + n * Policy[s].units
         /\ \A f \in Feeds \ {s} : ledger'[f] = ledger[f]
<1>1. tick[p].now \in 0..MaxClock
  BY DEF TypeInv, SchedulerShapes, Ticks
<1>2. Day(tick[p].now) \in Days /\ Month(tick[p].now) \in Nat
  BY <1>1, DayTypes
<1>3. Charge(s, n) = [calls |-> n, units |-> n * Policy[s].units] /\ n * Policy[s].units \in Nat
  BY Constants DEF Charge
<1> DEFINE row == [day   |-> Day(tick[p].now),   calls |-> tick[p].read.calls + Charge(s, n).calls,
                   month |-> Month(tick[p].now), units |-> tick[p].read.units + Charge(s, n).units,
                   due   |-> due]
<1>4. row \in Rows
  BY <1>2, <1>3 DEF States, Rows
<1>5. ledger' = [ledger EXCEPT ![s] = row]
  BY DEF Upsert
<1>6. row.day = Day(tick[p].now) /\ row.month = Month(tick[p].now)
      /\ row.calls = tick[p].read.calls + n
      /\ row.units = tick[p].read.units + n * Policy[s].units
  BY <1>3
<1> HIDE DEF row
<1> QED
  BY <1>4, <1>5, <1>6 DEF TypeInv, SchedulerShapes

\* RecordBlocked keeps the types.
LEMMA TypeRecordBlocked ==
  ASSUME TypeInv, NEW p \in Procs, RecordBlocked(p)
  PROVE  /\ TickMoves(p)
         /\ Current(p) \in Feeds /\ tick[p].read \in States /\ tick[p].now >= 0
         /\ \E due \in Nat : Upsert(p, Current(p), 0, due)
         /\ tick'[p].at \in {"fetch", "check"} /\ tick'[p].now = tick[p].now
         /\ tick'[p].due = tick[p].due /\ tick'[p].got = EmptyCache
<1>1. tick[p] \in Ticks /\ tick[p].at = "block" /\ tick[p].i \in 1..Len(Sources)
      /\ Current(p) \in Feeds /\ tick[p].now \in 0..MaxClock /\ tick[p].read \in States
      /\ tick[p].due \in SUBSET Feeds
  BY Constants DEF TypeInv, SchedulerShapes, TickOf, RecordBlocked, Current, Ticks
<1> DEFINE due == BlockedUntil(Current(p), tick[p].read, tick[p].now)
<1>2. due \in Nat
  <2>1. Day(tick[p].now) + 1 \in Nat /\ Month(tick[p].now) + 1 \in Nat
    <3>1. tick[p].now \in 0..MaxClock
      BY <1>1
    <3>2. Day(tick[p].now) \in Nat /\ Month(tick[p].now) \in Nat
      BY <3>1, DayTypes
    <3> QED
      BY <3>2
  <2>2. (Day(tick[p].now) + 1) * DayLength \in Nat /\ (Month(tick[p].now) + 1) * MonthLength \in Nat
    BY <2>1, Constants
  <2> QED
    BY <2>2 DEF BlockedUntil
<1>3. Upsert(p, Current(p), 0, due) /\ Looked(p, tick[p].due) /\ UNCHANGED <<clock, cache, calls>>
  BY DEF RecordBlocked
<1> HIDE DEF due
<1>4. ledger' \in [Feeds -> Rows \cup {None}]
  BY <1>1, <1>2, <1>3, TypeUpsert
<1>5. /\ tick' \in [Procs -> Ticks] /\ \A q \in Procs \ {p} : tick'[q] = tick[q]
      /\ TickOf(p)'
      /\ tick'[p].at \in {"fetch", "check"} /\ tick'[p].now = tick[p].now
      /\ tick'[p].due = tick[p].due /\ tick'[p].got = EmptyCache
  BY <1>1, <1>3, TypeLooked
<1> QED
  BY <1>1, <1>2, <1>3, <1>4, <1>5 DEF TickMoves, TypeInv, SchedulerShapes

\* FetchOne keeps the types.
LEMMA TypeFetchOne ==
  ASSUME TypeInv, NEW p \in Procs, NEW s \in Feeds, NEW ok \in BOOLEAN, FetchOne(p, s, ok)
  PROVE  /\ TickMoves(p)
         /\ tick[p].now \in 0..MaxClock /\ tick[p].got \in [Feeds -> Answers \cup {None}]
         /\ [ok |-> ok, at |-> clock] \in Answers
         /\ tick'[p] = [tick[p] EXCEPT !.got = [tick[p].got EXCEPT ![s] = [ok |-> ok, at |-> clock]]]
<1>1. tick[p] \in Ticks /\ tick[p].at = "fetch" /\ tick[p].now \in 0..MaxClock
      /\ tick[p].got \in [Feeds -> Answers \cup {None}] /\ tick[p].now <= clock
  BY DEF TypeInv, SchedulerShapes, TickOf, FetchOne, Ticks
<1> DEFINE got == [tick[p].got EXCEPT ![s] = [ok |-> ok, at |-> clock]]
<1>2. [ok |-> ok, at |-> clock] \in Answers
  BY DEF TypeInv, SchedulerShapes, Answers
<1>3. got \in [Feeds -> Answers \cup {None}]
  BY <1>1, <1>2
<1>4. tick' = [tick EXCEPT ![p] = [tick[p] EXCEPT !.got = got]]
  BY DEF FetchOne
<1> HIDE DEF got
<1>5. [tick[p] EXCEPT !.got = got] \in Ticks
  BY <1>1, <1>3 DEF Ticks
<1>6. tick' \in [Procs -> Ticks] /\ \A q \in Procs \ {p} : tick'[q] = tick[q]
      /\ tick'[p] = [tick[p] EXCEPT !.got = got]
  BY <1>4, <1>5 DEF TypeInv, SchedulerShapes
<1>7. Day(tick[p].now) \in Days
  BY <1>1, DayTypes
<1>8. calls' \in [Feeds -> [Days -> Nat]]
  BY <1>7 DEF FetchOne, TypeInv, SchedulerShapes
<1>9. SchedulerShapes'
  BY <1>6, <1>8 DEF FetchOne, TypeInv, SchedulerShapes
<1>10. TickOf(p)'
  BY <1>1, <1>6 DEF TickOf, Ticks, FetchOne
<1> QED
  BY <1>1, <1>2, <1>6, <1>9, <1>10 DEF TickMoves, FetchOne, got

\* What Collect makes of the answers: the cache, and p's tick afterwards.
Answered(p) == { s \in tick[p].due : tick[p].got[s].ok }
Gathered(p) ==
  [s \in Feeds |-> IF s \in Answered(p) THEN tick[p].got[s].at ELSE cache[p][s]]

\* Collect keeps the types.
LEMMA TypeCollect ==
  ASSUME TypeInv, NEW p \in Procs, NEW mode \in Modes, Collect(p, mode)
  PROVE  /\ TickMoves(p)
         /\ Gathered(p) \in [Feeds -> 0..MaxClock \cup {None}]
         /\ cache'[p] = Pruned(Gathered(p), tick[p].now)
         /\ tick'[p].at \in {"report", "read"} /\ (tick'[p].at = "read" <=> tick[p].due # {})
         /\ tick'[p].i = NextFrom(tick[p].due, 1)
         /\ tick'[p].now = tick[p].now /\ tick'[p].due = tick[p].due
<1>1. tick[p] \in Ticks /\ tick[p].at = "fetch" /\ tick[p].now \in 0..MaxClock
      /\ tick[p].got \in [Feeds -> Answers \cup {None}] /\ tick[p].now <= clock
      /\ tick[p].due \in SUBSET Feeds /\ cache[p] \in [Feeds -> 0..MaxClock \cup {None}]
  BY DEF TypeInv, SchedulerShapes, TickOf, Collect, Ticks
<1>2. \A s \in tick[p].due : tick[p].got[s] \in Answers
  BY <1>1 DEF Collect
<1>3. Gathered(p) \in [Feeds -> 0..MaxClock \cup {None}]
  BY <1>1, <1>2 DEF Gathered, Answered, Answers
<1> DEFINE next == NextFrom(tick[p].due, 1)
           at == IF tick[p].due = {} THEN "report" ELSE "read"
           failed == tick[p].due \ Answered(p)
           t == [tick[p] EXCEPT !.at = at, !.i = next, !.got = EmptyCache,
                                !.failed = failed, !.mode = mode]
<1>4. 1 \in 1..Len(Sources) + 1
  BY Constants
<1>5. /\ next \in 1..Len(Sources) + 1
      /\ next <= Len(Sources) => Sources[next] \in tick[p].due
      /\ \A j \in 1..Len(Sources) : Sources[j] \in tick[p].due => next <= j
  BY <1>4, NextFromFinds
<1>6. ASSUME tick[p].due # {} PROVE next \in 1..Len(Sources) /\ Sources[next] \in tick[p].due
  <2>1. PICK j \in 1..Len(Sources) : Sources[j] \in tick[p].due
    BY <1>1, <1>6 DEF Feeds
  <2> QED
    BY <1>5, <2>1, Constants
<1>7. tick' = [tick EXCEPT ![p] = t]
  BY DEF Collect, Answered
<1>8. cache' = [cache EXCEPT ![p] = Pruned(Gathered(p), tick[p].now)]
  BY DEF Collect, Answered, Gathered
<1>9. at \in {"report", "read"} /\ (at = "read" <=> tick[p].due # {}) /\ failed \in SUBSET Feeds
      /\ at \in Places
  BY <1>1 DEF Places
<1> HIDE DEF next, at, failed
<1>10. t \in Ticks
  <2>1. EmptyCache \in [Feeds -> Answers \cup {None}]
    BY RestingTypes
  <2> QED
    BY <1>1, <1>5, <1>9, <2>1 DEF Ticks
<1>11. t.at = at /\ t.i = next /\ t.now = tick[p].now /\ t.due = tick[p].due /\ t.got = EmptyCache
  BY <1>1 DEF Ticks
<1> HIDE DEF t
<1>12. tick' \in [Procs -> Ticks] /\ tick'[p] = t /\ \A q \in Procs \ {p} : tick'[q] = tick[q]
  BY <1>7, <1>10 DEF TypeInv, SchedulerShapes
<1>13. /\ cache' \in [Procs -> [Feeds -> 0..MaxClock \cup {None}]]
       /\ cache'[p] = Pruned(Gathered(p), tick[p].now)
       /\ \A q \in Procs \ {p} : cache'[q] = cache[q]
  BY <1>3, <1>8, PrunedTypes DEF TypeInv, SchedulerShapes
<1>14. SchedulerShapes'
  BY <1>12, <1>13 DEF Collect, TypeInv, SchedulerShapes
<1>15. TickOf(p)'
  <2>1. clock' = clock
    BY DEF Collect
  <2> QED
    BY <1>1, <1>6, <1>9, <1>11, <1>12, <2>1 DEF TickOf
<1> QED
  BY <1>3, <1>9, <1>11, <1>12, <1>13, <1>14, <1>15 DEF TickMoves, next

\* ReadLedger keeps the types.
LEMMA TypeReadLedger ==
  ASSUME TypeInv, NEW p \in Procs, ReadLedger(p)
  PROVE  /\ TickMoves(p) /\ Current(p) \in Feeds
         /\ tick'[p].at = "write" /\ tick'[p].i = tick[p].i
         /\ tick'[p].due = tick[p].due /\ tick'[p].now = tick[p].now
         /\ tick'[p].read = State(Current(p), tick[p].now)
<1>1. tick[p] \in Ticks /\ tick[p].at = "read" /\ tick[p].i \in 1..Len(Sources)
      /\ Current(p) \in Feeds /\ tick[p].now \in Int /\ tick[p].now >= 0 /\ tick[p].now <= clock
      /\ Sources[tick[p].i] \in tick[p].due
  BY Constants DEF TypeInv, SchedulerShapes, TickOf, ReadLedger, Current, Ticks
<1> DEFINE state == State(Current(p), tick[p].now)
<1>2. state \in States
  BY <1>1, StateTypes
<1>3. tick' = [tick EXCEPT ![p] = [tick[p] EXCEPT !.at = "write", !.read = state]]
  BY DEF ReadLedger
<1> HIDE DEF state
<1>4. [tick[p] EXCEPT !.at = "write", !.read = state] \in Ticks
  <2>1. "write" \in Places
    BY DEF Places
  <2> QED
    BY <1>1, <1>2, <2>1 DEF Ticks
<1> DEFINE t == [tick[p] EXCEPT !.at = "write", !.read = state]
<1>5. /\ t.at = "write" /\ t.read = state /\ t.i = tick[p].i
      /\ t.due = tick[p].due /\ t.now = tick[p].now
  BY <1>1 DEF Ticks
<1> HIDE DEF t
<1>6. tick' \in [Procs -> Ticks] /\ tick'[p] = t /\ \A q \in Procs \ {p} : tick'[q] = tick[q]
  BY <1>3, <1>4 DEF TypeInv, SchedulerShapes, t
<1>7. clock' = clock
  BY DEF ReadLedger
<1>8. TickOf(p)'
  BY <1>1, <1>2, <1>5, <1>6, <1>7 DEF TickOf
<1>9. TickMoves(p)
  BY <1>6, <1>8 DEF TickMoves, TypeInv, SchedulerShapes, ReadLedger
<1> QED
  BY <1>1, <1>5, <1>6, <1>9 DEF state

\* WriteLedger keeps the types, and goes on to the next source called.
LEMMA TypeWriteLedger ==
  ASSUME TypeInv, NEW p \in Procs, WriteLedger(p)
  PROVE  /\ TickMoves(p)
         /\ Current(p) \in Feeds /\ tick[p].read \in States /\ tick[p].now >= 0
         /\ \E due \in Nat : Upsert(p, Current(p), 1, due)
         /\ tick'[p].now = tick[p].now /\ tick'[p].due = tick[p].due
         /\ tick'[p].at \in {"report", "read"}
         /\ tick'[p].at = "read" =>
              /\ tick'[p].i > tick[p].i
              /\ \A j \in 1..Len(Sources) :
                   j > tick[p].i /\ Sources[j] \in tick[p].due => j >= tick'[p].i
         /\ tick'[p].at = "report" =>
              \A j \in 1..Len(Sources) : j > tick[p].i => Sources[j] \notin tick[p].due
<1>1. tick[p] \in Ticks /\ tick[p].at = "write" /\ tick[p].i \in 1..Len(Sources)
      /\ Current(p) \in Feeds /\ tick[p].now \in Nat /\ tick[p].now >= 0 /\ tick[p].now <= clock
      /\ tick[p].read \in States /\ tick[p].mode \in Modes
  BY Constants DEF TypeInv, SchedulerShapes, TickOf, WriteLedger, Current, Ticks
<1> DEFINE s == Current(p)
           wait == IF s \in tick[p].failed THEN Policy[s].retry ELSE Policy[s].interval[tick[p].mode]
           next == NextFrom(tick[p].due, tick[p].i + 1)
           t == IF next > Len(Sources)
                THEN [tick[p] EXCEPT !.at = "report", !.i = 1, !.read = None, !.mode = "base"]
                ELSE [tick[p] EXCEPT !.at = "read", !.i = next, !.read = None]
<1>2. wait \in Nat
  BY <1>1, Constants
<1>3. Upsert(p, s, 1, tick[p].now + wait) /\ tick' = [tick EXCEPT ![p] = t]
      /\ UNCHANGED <<clock, cache, calls>>
  BY DEF WriteLedger
<1>4. tick[p].i + 1 \in 1..Len(Sources) + 1
  BY <1>1, Constants
<1>5. /\ next \in tick[p].i + 1..Len(Sources) + 1
      /\ next <= Len(Sources) => Sources[next] \in tick[p].due
      /\ \A j \in tick[p].i + 1..Len(Sources) : Sources[j] \in tick[p].due => next <= j
  BY <1>4, NextFromFinds
<1>6. tick[p].now + wait \in Nat
  BY <1>1, <1>2
<1> HIDE DEF wait, next
<1>7. ledger' \in [Feeds -> Rows \cup {None}]
  BY <1>1, <1>3, <1>6, TypeUpsert
<1>8. next \in Int /\ Len(Sources) \in Int /\ tick[p].i \in Int /\ 1 \in 1..Len(Sources) + 1
      /\ "base" \in Modes /\ {"report", "read"} \subseteq Places
  BY <1>1, <1>5, Constants DEF Modes, Places
<1>9. t \in Ticks
  <2>1. CASE next > Len(Sources)
    BY <1>1, <1>8, <2>1 DEF Ticks
  <2>2. CASE ~ (next > Len(Sources))
    <3>1. next \in 1..Len(Sources) + 1
      BY <1>1, <1>5, <1>8
    <3> QED
      BY <1>1, <1>8, <2>2, <3>1 DEF Ticks
  <2> QED
    BY <2>1, <2>2
<1>10. /\ t.now = tick[p].now /\ t.due = tick[p].due
       /\ t.at = IF next > Len(Sources) THEN "report" ELSE "read"
       /\ t.at = "read" => t.i = next
  BY <1>1 DEF Ticks
<1> HIDE DEF t
<1>11. tick' \in [Procs -> Ticks] /\ tick'[p] = t /\ \A q \in Procs \ {p} : tick'[q] = tick[q]
  BY <1>3, <1>9 DEF TypeInv, SchedulerShapes
<1>12. TickOf(p)'
  BY <1>1, <1>3, <1>5, <1>8, <1>10, <1>11 DEF TickOf
<1>13. TickMoves(p)
  BY <1>3, <1>7, <1>11, <1>12 DEF TickMoves, TypeInv, SchedulerShapes
<1>14. \E due \in Nat : Upsert(p, Current(p), 1, due)
  BY <1>3, <1>6
<1>15. tick'[p].at = "read" =>
         /\ tick'[p].i > tick[p].i
         /\ \A j \in 1..Len(Sources) :
              j > tick[p].i /\ Sources[j] \in tick[p].due => j >= tick'[p].i
  BY <1>5, <1>8, <1>10, <1>11
<1>16. tick'[p].at = "report" =>
         \A j \in 1..Len(Sources) : j > tick[p].i => Sources[j] \notin tick[p].due
  BY <1>5, <1>8, <1>10, <1>11
<1> QED
  BY <1>1, <1>10, <1>11, <1>13, <1>14, <1>15, <1>16

\* Every step of fetch_report keeps the types.
LEMMA TypeTicking ==
  ASSUME TypeInv, NEW p \in Procs, Ticking(p)
  PROVE  TickMoves(p) /\ clock' = clock /\ tick'[p].now = tick[p].now
<1>1. CASE SkipSource(p) \/ TakeSource(p) \/ BlockSource(p)
  BY <1>1, TypeCheck DEF SkipSource, TakeSource, BlockSource
<1>2. CASE RecordBlocked(p)
  BY <1>2, TypeRecordBlocked DEF RecordBlocked
<1>3. CASE \E s \in Feeds, ok \in BOOLEAN : FetchOne(p, s, ok)
  <2>1. PICK s \in Feeds, ok \in BOOLEAN : FetchOne(p, s, ok)
    BY <1>3
  <2>2. TickMoves(p) /\ clock' = clock
    BY <2>1, TypeFetchOne DEF FetchOne
  <2>3. tick'[p] = [tick[p] EXCEPT !.got = [tick[p].got EXCEPT ![s] = [ok |-> ok, at |-> clock]]]
    BY <2>1, TypeFetchOne
  <2>4. tick[p] \in Ticks
    BY DEF TypeInv, SchedulerShapes
  <2> DEFINE got == [tick[p].got EXCEPT ![s] = [ok |-> ok, at |-> clock]]
  <2>5. tick'[p].now = tick[p].now
    <3>1. tick'[p] = [tick[p] EXCEPT !.got = got]
      BY <2>3
    <3> HIDE DEF got
    <3> QED
      BY <2>4, <3>1 DEF Ticks
  <2> QED
    BY <2>2, <2>5
<1>4. CASE \E mode \in Modes : Collect(p, mode)
  BY <1>4, TypeCollect DEF Collect
<1>5. CASE ReadLedger(p)
  BY <1>5, TypeReadLedger DEF ReadLedger
<1>6. CASE WriteLedger(p)
  BY <1>6, TypeWriteLedger DEF WriteLedger
<1> QED
  BY <1>1, <1>2, <1>3, <1>4, <1>5, <1>6 DEF Ticking

\* A tick that ends, with the cache or without it.
LEMMA TypeRest ==
  ASSUME TypeInv, NEW p \in Procs, Rest(p), UNCHANGED <<clock, ledger, calls>>,
         \/ cache' = cache
         \/ cache' = [cache EXCEPT ![p] = EmptyCache]
  PROVE  /\ TickMoves(p)
         /\ tick'[p].at = "idle" /\ tick'[p].now = tick[p].now /\ tick'[p].due = {}
<1>1. tick[p].now \in -1..MaxClock /\ tick[p].now <= clock
  BY DEF TypeInv, SchedulerShapes, TickOf, Ticks
<1> DEFINE t == [Resting EXCEPT !.now = tick[p].now]
<1>2. t \in Ticks /\ t.at = "idle" /\ t.now = tick[p].now /\ t.due = {} /\ t.got = EmptyCache
  BY <1>1, RestingTypes
<1>3. tick' = [tick EXCEPT ![p] = t]
  BY DEF Rest
<1> HIDE DEF t
<1>4. tick' \in [Procs -> Ticks] /\ tick'[p] = t /\ \A q \in Procs \ {p} : tick'[q] = tick[q]
  BY <1>2, <1>3 DEF TypeInv, SchedulerShapes
<1>5. /\ cache' \in [Procs -> [Feeds -> 0..MaxClock \cup {None}]]
      /\ \A q \in Procs \ {p} : cache'[q] = cache[q]
  <2>1. EmptyCache \in [Feeds -> 0..MaxClock \cup {None}]
    BY RestingTypes
  <2> QED
    BY <2>1 DEF TypeInv, SchedulerShapes
<1>6. TickOf(p)'
  BY <1>1, <1>2, <1>4 DEF TickOf
<1> QED
  BY <1>2, <1>4, <1>5, <1>6 DEF TickMoves, TypeInv, SchedulerShapes

---------------------------------------------------------------------------
(* Type correctness: a cycle of the loop                                   *)

\* A step of p touches what is p's.
CycleMoves(p) ==
  /\ TickMoves(p) /\ ShadowShapes' /\ StageOf(p)'
  /\ clock' = clock /\ fleet' = fleet
  /\ \A q \in Procs \ {p} : loop'[q] = loop[q] /\ scan'[q] = scan[q]

\* A step that leaves the scheduler alone.
LEMMA TickStays ==
  ASSUME TypeInv, NEW p \in Procs, UNCHANGED schedulerVars
  PROVE  TickMoves(p)
<1>1. clock' = clock /\ ledger' = ledger /\ cache' = cache /\ tick' = tick /\ calls' = calls
  BY DEF schedulerVars
<1>2. SchedulerShapes'
  BY <1>1 DEF TypeInv, SchedulerShapes
<1>3. TickOf(p)'
  BY <1>1 DEF TypeInv, TickOf
<1> QED
  BY <1>1, <1>2, <1>3 DEF TickMoves

\* What is reported has the types of what is stored of it.
LEMMA ReportTypes ==
  ASSUME TypeInv, NEW p \in Procs
  PROVE  /\ ReportedQuotes(p) \in Quotes
         /\ DOMAIN ReportedQuotes(p) \in SUBSET Operators
         /\ DOMAIN ReportedQuotes(p) = Covered(cache[p])
         /\ Cardinality(DOMAIN ReportedQuotes(p)) \in Nat
         /\ \A part \in SUBSET DOMAIN ReportedQuotes(p) :
              [o \in part |-> ReportedQuotes(p)[o]] \in Quotes
         /\ \A o \in Covered(cache[p]) :
              \E s \in Feeds : /\ cache[p][s] # None /\ o \in Policy[s].operators
                              /\ ReportedQuotes(p)[o] = cache[p][s]
<1>1. cache[p] \in [Feeds -> 0..MaxClock \cup {None}]
  BY DEF TypeInv, SchedulerShapes
<1>2. /\ Merged(cache[p]) \in Quotes
      /\ DOMAIN Merged(cache[p]) = Covered(cache[p]) /\ Covered(cache[p]) \in SUBSET Operators
      /\ \A o \in Covered(cache[p]) :
           \E s \in Feeds : /\ cache[p][s] # None /\ o \in Policy[s].operators
                           /\ Merged(cache[p])[o] = cache[p][s]
  BY <1>1, MergeIsOfCarriers
<1>3. ASSUME NEW part \in SUBSET Covered(cache[p])
      PROVE  [o \in part |-> Merged(cache[p])[o]] \in Quotes
  <2>1. \A o \in part : Merged(cache[p])[o] \in 0..MaxClock
    BY <1>1, <1>2
  <2>2. [o \in part |-> Merged(cache[p])[o]] \in [part -> 0..MaxClock] /\ part \in SUBSET Operators
    BY <1>2, <2>1
  <2> QED
    BY <2>2 DEF Quotes
<1> QED
  BY <1>2, <1>3, OperatorsAreFinite DEF ReportedQuotes

\* The steps of a cycle keep the types.
LEMMA TypeCycle ==
  ASSUME TypeInv, NEW p \in Procs, Cycle(p), UNCHANGED faults
  PROVE  CycleMoves(p)
<1> USE DEF TypeInv
<1>1. scan[p] \in Scans /\ loop[p] \in Loops /\ StageOf(p) /\ DOMAIN scan = Procs /\ DOMAIN loop = Procs
  BY DEF ShadowShapes
<1>2. CASE StartScan(p)
  <2>1. BeginTick(p) /\ scan' = [scan EXCEPT ![p] = [Scan EXCEPT !.started = clock]]
        /\ loop' = [loop EXCEPT ![p] = [Sleeping EXCEPT !.at = "fetch"]]
        /\ UNCHANGED <<fleet, faults>>
    BY <1>2 DEF StartScan
  <2>2. TickMoves(p) /\ clock' = clock /\ tick'[p].now = clock
    <3>1. clock \in -1..MaxClock
      BY Constants DEF SchedulerShapes
    <3> DEFINE t == [Resting EXCEPT !.at = "check", !.now = clock]
    <3>2. t.now = clock
      BY <3>1, RestingTypes
    <3> HIDE DEF t
    <3>3. tick'[p] = t
      BY <2>1 DEF BeginTick, SchedulerShapes, t
    <3> QED
      BY <2>1, <3>2, <3>3, TypeBegin DEF BeginTick
  <2>3. clock \in -1..MaxClock /\ clock \in Int /\ NoQuotes \in Quotes
    <3>1. NoQuotes \in [{} -> 0..MaxClock] /\ {} \in SUBSET Operators
      BY DEF NoQuotes
    <3>2. NoQuotes \in Quotes
      BY <3>1 DEF Quotes
    <3> QED
      BY <3>2, Constants DEF SchedulerShapes
  <2>4. [Scan EXCEPT !.started = clock] \in Scans /\ [Sleeping EXCEPT !.at = "fetch"] \in Loops
    BY <2>3 DEF Scan, Scans, Sleeping, Loops, Stages
  <2>5. /\ [Scan EXCEPT !.started = clock].started = clock
        /\ [Scan EXCEPT !.started = clock].status = "running"
        /\ [Sleeping EXCEPT !.at = "fetch"].at = "fetch"
    BY DEF Scan, Sleeping
  <2>6. ShadowShapes'
    BY <2>1, <2>4 DEF ShadowShapes
  <2>7. StageOf(p)'
    BY <1>1, <2>1, <2>2, <2>3, <2>5 DEF StageOf
  <2> QED
    BY <1>1, <2>1, <2>2, <2>6, <2>7 DEF CycleMoves
<1>3. CASE FetchReport(p)
  <2>1. TickMoves(p) /\ clock' = clock /\ tick'[p].now = tick[p].now
    BY <1>3, TypeTicking DEF FetchReport
  <2>2. loop[p].at = "fetch" /\ scan' = scan /\ loop' = loop /\ fleet' = fleet /\ faults' = faults
    BY <1>3 DEF FetchReport, shadowVars
  <2>3. ShadowShapes'
    BY <2>2 DEF ShadowShapes
  <2>4. StageOf(p)'
    BY <1>1, <2>1, <2>2 DEF StageOf
  <2> QED
    BY <2>1, <2>2, <2>3, <2>4 DEF CycleMoves
<1>4. CASE SaveReport(p)
  <2> DEFINE next == IF AllFailed(p) THEN "fail" ELSE "quotes"
             cov == DOMAIN ReportedQuotes(p)
  <2>1. /\ loop[p].at = "fetch" /\ tick[p].at = "report" /\ fleet' = fleet /\ faults' = faults
        /\ UNCHANGED schedulerVars
        /\ scan' = [scan EXCEPT ![p].coverage = cov]
        /\ loop' = [loop EXCEPT ![p].at = next]
    BY <1>4 DEF SaveReport, Store, Goto
  <2>2. cov \in SUBSET Operators /\ next \in {"fail", "quotes"} /\ next \in Stages
    BY ReportTypes DEF Stages
  <2> HIDE DEF next, cov
  <2>3. [scan[p] EXCEPT !.coverage = cov] \in Scans /\ [loop[p] EXCEPT !.at = next] \in Loops
    BY <1>1, <2>2 DEF Scans, Loops
  <2>4. ShadowShapes'
    BY <2>1, <2>3 DEF ShadowShapes
  <2>5. StageOf(p)'
    BY <1>1, <2>1, <2>2 DEF StageOf, schedulerVars, Scans, Loops
  <2> QED
    BY <1>1, <2>1, <2>4, <2>5, TickStays DEF CycleMoves, schedulerVars
<1>5. CASE SaveQuotes(p)
  <2> DEFINE qs == ReportedQuotes(p)
             n == Cardinality(DOMAIN ReportedQuotes(p))
  <2>1. /\ loop[p].at = "quotes" /\ fleet' = fleet /\ faults' = faults
        /\ UNCHANGED schedulerVars
        /\ scan' = [scan EXCEPT ![p].quotes = qs]
        /\ loop' = [loop EXCEPT ![p].at = "opportunities", ![p].quoteCount = n]
    BY <1>5 DEF SaveQuotes, Store
  <2>2. qs \in Quotes /\ n \in Nat /\ "opportunities" \in Stages
    BY ReportTypes DEF Stages
  <2> HIDE DEF qs, n
  <2>3. /\ [scan[p] EXCEPT !.quotes = qs] \in Scans
        /\ [loop[p] EXCEPT !.at = "opportunities", !.quoteCount = n] \in Loops
    BY <1>1, <2>2 DEF Scans, Loops
  <2>4. ShadowShapes'
    BY <2>1, <2>3 DEF ShadowShapes
  <2>5. StageOf(p)'
    BY <1>1, <2>1, <2>2 DEF StageOf, schedulerVars, Scans, Loops
  <2> QED
    BY <1>1, <2>1, <2>4, <2>5, TickStays DEF CycleMoves, schedulerVars
<1>6. CASE \E n \in {0, 1} : SaveOpportunities(p, n)
  <2>0. PICK n \in {0, 1} : SaveOpportunities(p, n)
    BY <1>6
  <2>1. /\ loop[p].at = "opportunities" /\ fleet' = fleet /\ faults' = faults
        /\ UNCHANGED schedulerVars
        /\ scan' = [scan EXCEPT ![p].opportunities = n]
        /\ loop' = [loop EXCEPT ![p].at = "signals", ![p].opportunityCount = n]
    BY <2>0 DEF SaveOpportunities, Store
  <2>2. n \in Nat /\ "signals" \in Stages
    BY DEF Stages
  <2>3. /\ [scan[p] EXCEPT !.opportunities = n] \in Scans
        /\ [loop[p] EXCEPT !.at = "signals", !.opportunityCount = n] \in Loops
    BY <1>1, <2>2 DEF Scans, Loops
  <2>4. ShadowShapes'
    BY <2>1, <2>3 DEF ShadowShapes
  <2>5. StageOf(p)'
    BY <1>1, <2>1, <2>2 DEF StageOf, schedulerVars, Scans, Loops
  <2> QED
    BY <1>1, <2>1, <2>4, <2>5, TickStays DEF CycleMoves, schedulerVars
<1>7. CASE SaveSignals(p)
  <2>1. /\ loop[p].at = "signals" /\ fleet' = fleet /\ faults' = faults
        /\ UNCHANGED schedulerVars
        /\ scan' = [scan EXCEPT ![p].signals = TRUE]
        /\ loop' = [loop EXCEPT ![p].at = "complete"]
    BY <1>7 DEF SaveSignals, Store, Goto
  <2>2. "complete" \in Stages
    BY DEF Stages
  <2>3. /\ [scan[p] EXCEPT !.signals = TRUE] \in Scans
        /\ [loop[p] EXCEPT !.at = "complete"] \in Loops
    BY <1>1, <2>2 DEF Scans, Loops
  <2>4. ShadowShapes'
    BY <2>1, <2>3 DEF ShadowShapes
  <2>5. StageOf(p)'
    BY <1>1, <2>1, <2>2 DEF StageOf, schedulerVars, Scans, Loops
  <2> QED
    BY <1>1, <2>1, <2>4, <2>5, TickStays DEF CycleMoves, schedulerVars
<1>8. ASSUME NEW status \in {"ok", "error"}, Finish(p, status), Rest(p),
             NEW at \in {"sleep", "ended"}, loop' = [loop EXCEPT ![p] = [Sleeping EXCEPT !.at = at]],
             UNCHANGED <<fleet, clock, ledger, calls>>,
             cache' = cache \/ cache' = [cache EXCEPT ![p] = EmptyCache]
      PROVE  CycleMoves(p)
  <2>1. /\ TickMoves(p)
        /\ tick'[p].at = "idle" /\ tick'[p].now = tick[p].now /\ tick'[p].due = {}
    BY <1>8, TypeRest
  <2> DEFINE s == [scan[p] EXCEPT !.status = status, !.quoteCount = loop[p].quoteCount,
                                  !.opportunityCount = loop[p].opportunityCount]
  <2>2. scan' = [scan EXCEPT ![p] = s]
    BY <1>8 DEF Finish, ShadowShapes
  <2>3. s \in Scans /\ s.started = scan[p].started
    BY <1>1 DEF Scans, Loops
  <2> HIDE DEF s
  <2>4. [Sleeping EXCEPT !.at = at] \in Loops /\ [Sleeping EXCEPT !.at = at].at = at
    BY DEF Sleeping, Loops, Stages
  <2>5. ShadowShapes'
    BY <1>8, <2>2, <2>3, <2>4 DEF ShadowShapes
  <2>6. StageOf(p)'
    BY <1>1, <1>8, <2>1, <2>2, <2>3, <2>4 DEF StageOf
  <2> QED
    BY <1>1, <1>8, <2>1, <2>2, <2>5, <2>6 DEF CycleMoves
<1>9. CASE Complete(p)
  <2>1. loop' = [loop EXCEPT ![p] = [Sleeping EXCEPT !.at = "sleep"]]
    BY <1>9 DEF Complete, Sleeping
  <2> QED
    BY <1>8, <1>9, <2>1 DEF Complete
<1>10. CASE Fail(p)
  BY <1>8, <1>10 DEF Fail, End, StatusOfFailure
<1> QED
  BY <1>2, <1>3, <1>4, <1>5, <1>6, <1>7, <1>9, <1>10 DEF Cycle

\* An exception, a kill and a restart keep the types.
LEMMA TypeFault ==
  ASSUME TypeInv, NEW p \in Procs, Fault(p)
  PROVE  CycleMoves(p) /\ faults' = faults + 1
<1> USE DEF TypeInv
<1>1. scan[p] \in Scans /\ loop[p] \in Loops /\ StageOf(p) /\ DOMAIN scan = Procs /\ DOMAIN loop = Procs
      /\ faults' = faults + 1 /\ faults' \in Nat
  BY DEF ShadowShapes, Fault
<1>2. CASE Raise(p)
  <2>1. /\ loop' = [loop EXCEPT ![p].at = "fail"] /\ scan' = scan /\ fleet' = fleet
        /\ UNCHANGED schedulerVars
        /\ loop[p].at \notin {"sleep", "ended"}
    BY <1>2 DEF Raise, Goto
  <2>2. [loop[p] EXCEPT !.at = "fail"] \in Loops
    BY <1>1 DEF Loops, Stages
  <2>3. ShadowShapes'
    BY <1>1, <2>1, <2>2 DEF ShadowShapes
  <2>4. StageOf(p)'
    BY <1>1, <2>1 DEF StageOf, schedulerVars, Loops
  <2> QED
    BY <1>1, <2>1, <2>3, <2>4, TickStays DEF CycleMoves, schedulerVars
<1>3. CASE Kill(p)
  <2>1. /\ loop' = [loop EXCEPT ![p] = [Sleeping EXCEPT !.at = "ended"]] /\ Rest(p)
        /\ UNCHANGED <<clock, ledger, calls>> /\ scan' = scan /\ fleet' = fleet
        /\ cache' = [cache EXCEPT ![p] = EmptyCache]
    BY <1>3 DEF Kill, End
  <2>2. /\ TickMoves(p) /\ tick'[p].at = "idle"
    BY <2>1, TypeRest
  <2>3. [Sleeping EXCEPT !.at = "ended"] \in Loops /\ [Sleeping EXCEPT !.at = "ended"].at = "ended"
    BY DEF Sleeping, Loops, Stages
  <2>4. ShadowShapes'
    BY <1>1, <2>1, <2>3 DEF ShadowShapes
  <2>5. StageOf(p)'
    BY <1>1, <2>1, <2>2, <2>3 DEF StageOf
  <2> QED
    BY <1>1, <2>1, <2>2, <2>4, <2>5 DEF CycleMoves
<1>4. CASE \E part \in SUBSET DOMAIN ReportedQuotes(p) :
             part # DOMAIN ReportedQuotes(p) /\ RaiseInserting(p, part)
  <2>1. PICK part \in SUBSET DOMAIN ReportedQuotes(p) : RaiseInserting(p, part)
    BY <1>4
  <2>2. part \in SUBSET Operators /\ [o \in part |-> ReportedQuotes(p)[o]] \in Quotes
    BY ReportTypes
  <2>3. fleet' = fleet /\ UNCHANGED schedulerVars
    BY <2>1 DEF RaiseInserting
  <2>4. CASE /\ scan' = [scan EXCEPT ![p].coverage = part]
             /\ loop' = [loop EXCEPT ![p].at = "fail"] /\ loop[p].at = "fetch"
    <3>1. [loop[p] EXCEPT !.at = "fail"] \in Loops /\ [scan[p] EXCEPT !.coverage = part] \in Scans
      BY <1>1, <2>2 DEF Loops, Stages, Scans
    <3>2. ShadowShapes'
      BY <1>1, <2>3, <2>4, <3>1 DEF ShadowShapes
    <3>3. StageOf(p)'
      BY <1>1, <2>3, <2>4 DEF StageOf, schedulerVars, Loops, Scans
    <3> QED
      BY <1>1, <2>3, <2>4, <3>2, <3>3, TickStays DEF CycleMoves, schedulerVars
  <2> DEFINE qs == [o \in part |-> ReportedQuotes(p)[o]]
  <2>5. CASE /\ scan' = [scan EXCEPT ![p].quotes = qs]
             /\ loop' = [loop EXCEPT ![p].at = "fail", ![p].quoteCount = 0] /\ loop[p].at = "quotes"
    <3> HIDE DEF qs
    <3>1. /\ [loop[p] EXCEPT !.at = "fail", !.quoteCount = 0] \in Loops
          /\ [scan[p] EXCEPT !.quotes = qs] \in Scans
      BY <1>1, <2>2 DEF Loops, Stages, Scans, qs
    <3>2. ShadowShapes'
      BY <1>1, <2>3, <2>5, <3>1 DEF ShadowShapes
    <3>3. StageOf(p)'
      BY <1>1, <2>3, <2>5 DEF StageOf, schedulerVars, Loops, Scans
    <3> QED
      BY <1>1, <2>3, <2>5, <3>2, <3>3, TickStays DEF CycleMoves, schedulerVars
  <2> QED
    BY <2>1, <2>4, <2>5 DEF RaiseInserting, Store, Goto, CountOnError
<1> QED
  BY <1>1, <1>2, <1>3, <1>4 DEF Fault

\* A process started again sleeps until its next scan.
LEMMA TypeRestart ==
  ASSUME TypeInv, NEW p \in Procs, Restart(p)
  PROVE  CycleMoves(p) /\ faults' = faults
<1>1. /\ loop' = [loop EXCEPT ![p] = Sleeping] /\ scan' = scan /\ fleet' = fleet /\ faults' = faults
      /\ UNCHANGED schedulerVars /\ loop[p].at = "ended"
  BY DEF Restart
<1>2. Sleeping \in Loops /\ Sleeping.at = "sleep"
  BY DEF Sleeping, Loops, Stages
<1>3. ShadowShapes'
  BY <1>1, <1>2 DEF TypeInv, ShadowShapes
<1>4. StageOf(p)'
  BY <1>1, <1>2 DEF TypeInv, ShadowShapes, StageOf, schedulerVars
<1> QED
  BY <1>1, <1>3, <1>4, TickStays DEF CycleMoves, schedulerVars, TypeInv, ShadowShapes

\* A step of a process moves that process only, and keeps the types.
LEMMA TypeTurn ==
  ASSUME TypeInv, NEW p \in Procs, Turn(p)
  PROVE  CycleMoves(p) /\ faults' \in {faults, faults + 1}
<1>1. CASE Cycle(p)
  <2>1. UNCHANGED faults
    BY <1>1 DEF Cycle, StartScan, FetchReport, SaveReport, SaveQuotes, SaveOpportunities,
                SaveSignals, Complete, Fail, shadowVars
  <2> QED
    BY <1>1, <2>1, TypeCycle
<1>2. CASE Restart(p)
  BY <1>2, TypeRestart
<1>3. CASE Fault(p)
  BY <1>3, TypeFault
<1> QED
  BY <1>1, <1>2, <1>3 DEF Turn

\* The processes of the fleet are processes.
LEMMA FleetTypes == TypeInv => fleet \in SUBSET Procs
  BY ShadowAssumption DEF TypeInv, ShadowShapes

\* Every step keeps the types.
LEMMA TypeStep == TypeInv /\ [Next]_vars => TypeInv'
<1> SUFFICES ASSUME TypeInv, [Next]_vars PROVE TypeInv'
  OBVIOUS
<1>1. ASSUME NEW p \in fleet, Turn(p) PROVE TypeInv'
  <2>1. p \in Procs
    BY FleetTypes
  <2>2. CycleMoves(p)
    BY <1>1, <2>1, TypeTurn
  <2>3. ASSUME NEW q \in Procs \ {p} PROVE TickOf(q)' /\ StageOf(q)'
    <3>1. /\ tick'[q] = tick[q] /\ loop'[q] = loop[q] /\ scan'[q] = scan[q] /\ clock' = clock
      BY <2>2 DEF CycleMoves, TickMoves
    <3> QED
      BY <3>1 DEF TypeInv, TickOf, StageOf
  <2> QED
    BY <2>1, <2>2, <2>3 DEF CycleMoves, TickMoves, TypeInv
<1>2. CASE TimePasses
  <2>1. /\ clock' = clock + 1 /\ clock < MaxClock
        /\ ledger' = ledger /\ cache' = cache /\ tick' = tick /\ calls' = calls
        /\ fleet' = fleet /\ scan' = scan /\ loop' = loop /\ faults' = faults
    BY <1>2 DEF TimePasses, PassTime, shadowVars
  <2>2. clock' \in 0..MaxClock /\ clock \in Nat
    BY <2>1, Constants DEF TypeInv, SchedulerShapes
  <2>3. SchedulerShapes' /\ ShadowShapes'
    BY <2>1, <2>2 DEF TypeInv, SchedulerShapes, ShadowShapes
  <2>4. ASSUME NEW p \in Procs PROVE TickOf(p)' /\ StageOf(p)'
    <3>1. tick[p].now \in Int /\ scan[p].started \in Int
      BY DEF TypeInv, SchedulerShapes, ShadowShapes, Ticks, Scans
    <3> QED
      BY <2>1, <2>2, <3>1 DEF TypeInv, TickOf, StageOf
  <2> QED
    BY <2>3, <2>4 DEF TypeInv
<1>3. CASE UNCHANGED vars
  BY <1>3 DEF vars, schedulerVars, shadowVars, TypeInv, SchedulerShapes, ShadowShapes, TickOf, StageOf
<1> QED
  BY <1>1, <1>2, <1>3, StepsOfNext

\* The types are those of TypeOK: rows of the ledger and of the scans, the cache,
\* and the place of every process, whatever raises and whoever is killed.
THEOREM TypeCorrect == Spec => []TypeOK
<1>1. TypeInv => TypeOK
  <2> SUFFICES ASSUME TypeInv PROVE TypeOK
    OBVIOUS
  <2>1. \A p \in Procs : /\ tick[p].now \in -1..clock /\ tick[p].due \subseteq Feeds
                         /\ tick[p].i \in 1..Len(Sources) + 1
    BY DEF TypeInv, SchedulerShapes, TickOf, Ticks
  <2>2. \A p \in Procs : scan[p].started \in -1..clock
    BY DEF TypeInv, SchedulerShapes, ShadowShapes, StageOf, Scans
  <2>3. SchedulerTypeOK
    BY <2>1 DEF TypeInv, SchedulerShapes, SchedulerTypeOK
  <2> QED
    BY <2>2, <2>3 DEF TypeOK, TypeInv, ShadowShapes
<1> QED
  BY <1>1, TypeInit, TypeStep, PTL DEF Spec

---------------------------------------------------------------------------
(* What the ledger owes                                                    *)

\* The index of a source is its only one.
LEMMA OneIndex ==
  ASSUME NEW i \in 1..Len(Sources)
  PROVE  Indexes(Sources[i]) = {i}
<1>1. \A j \in 1..Len(Sources) : Sources[j] = Sources[i] => j = i
  BY SchedulerAssumption
<1> QED
  BY <1>1 DEF Indexes

\* Before the calls and after the last record, nothing is unrecorded.
LEMMA NothingUnrecorded ==
  ASSUME NEW p \in Procs, TypeInv,
         tick[p].at \in {"idle", "check", "block", "report"}
           \/ (tick[p].at = "fetch" /\ tick[p].got = EmptyCache)
  PROVE  Unrecorded(p) = {}
<1>1. CASE tick[p].at \in {"idle", "check", "block", "report"}
  BY <1>1 DEF Unrecorded
<1>2. CASE tick[p].at = "fetch" /\ tick[p].got = EmptyCache
  <2>1. \A s \in Feeds : EmptyCache[s] = None
    BY DEF EmptyCache
  <2>2. tick[p].due \subseteq Feeds
    BY DEF TypeInv, SchedulerShapes, Ticks
  <2> QED
    BY <1>2, <2>1, <2>2 DEF Unrecorded
<1> QED
  BY <1>1, <1>2

\* A source whose call has ended becomes unrecorded, and no other.
LEMMA FetchAddsOne ==
  ASSUME TypeInv, NEW p \in Procs, NEW s \in Feeds, NEW ok \in BOOLEAN, FetchOne(p, s, ok)
  PROVE  /\ s \notin Unrecorded(p) /\ Unrecorded(p)' = Unrecorded(p) \cup {s}
         /\ s \in tick[p].due
         /\ tick'[p].now = tick[p].now /\ tick'[p].due = tick[p].due /\ tick'[p].at = "fetch"
<1> DEFINE answer == [ok |-> ok, at |-> clock]
           got == [tick[p].got EXCEPT ![s] = answer]
           t == [tick[p] EXCEPT !.got = got]
<1>1. /\ tick[p].got \in [Feeds -> Answers \cup {None}] /\ answer \in Answers
      /\ tick'[p] = t
  BY TypeFetchOne
<1>2. answer # None
  BY <1>1, NoneAssumption
<1>3. tick[p].at = "fetch" /\ s \in tick[p].due /\ tick[p].got[s] = None /\ tick[p] \in Ticks
  BY DEF FetchOne, TypeInv, SchedulerShapes
<1>4. tick[p].due \subseteq Feeds
  BY <1>3 DEF Ticks
<1> HIDE DEF answer
<1>5. got[s] # None /\ \A f \in Feeds \ {s} : got[f] = tick[p].got[f]
  BY <1>1, <1>2
<1> HIDE DEF got
<1>6. t.at = "fetch" /\ t.due = tick[p].due /\ t.now = tick[p].now /\ t.got = got
  BY <1>3 DEF Ticks
<1> HIDE DEF t
<1>7. Unrecorded(p) = { f \in tick[p].due : tick[p].got[f] # None }
  BY <1>3 DEF Unrecorded
<1>8. Unrecorded(p)' = { f \in tick[p].due : got[f] # None }
  BY <1>1, <1>6 DEF Unrecorded
<1>9. Unrecorded(p)' = Unrecorded(p) \cup {s}
  BY <1>3, <1>4, <1>5, <1>7, <1>8
<1> QED
  BY <1>1, <1>3, <1>6, <1>7, <1>9

\* Once all calls have ended, they all are to be recorded.
LEMMA CollectKeepsAll ==
  ASSUME TypeInv, NEW p \in Procs, NEW mode \in Modes, Collect(p, mode)
  PROVE  Unrecorded(p) = tick[p].due /\ Unrecorded(p)' = tick[p].due
<1>1. /\ tick'[p].at \in {"report", "read"} /\ (tick'[p].at = "read" <=> tick[p].due # {})
      /\ tick'[p].i = NextFrom(tick[p].due, 1)
      /\ tick'[p].now = tick[p].now /\ tick'[p].due = tick[p].due
  BY TypeCollect
<1>2. Unrecorded(p) = tick[p].due
  BY DEF Collect, Unrecorded
<1>3. 1 \in 1..Len(Sources) + 1
  BY Constants
<1>4. \A j \in 1..Len(Sources) : Sources[j] \in tick[p].due => NextFrom(tick[p].due, 1) <= j
  BY <1>3, NextFromFinds
<1>5. NextFrom(tick[p].due, 1) \in Int
  BY <1>3, NextFromFinds, Constants
<1>6. ASSUME NEW s \in tick[p].due PROVE \A j \in Indexes(s) : j >= tick'[p].i
  BY <1>1, <1>4, <1>5 DEF Indexes
<1>7. CASE tick'[p].at = "read"
  BY <1>1, <1>2, <1>6, <1>7 DEF Unrecorded
<1>8. CASE tick'[p].at = "report"
  BY <1>1, <1>2, <1>8 DEF Unrecorded
<1> QED
  BY <1>1, <1>2, <1>7, <1>8

\* A record makes its source recorded, and no other.
LEMMA WriteRemovesOne ==
  ASSUME TypeInv, NEW p \in Procs, WriteLedger(p)
  PROVE  /\ Current(p) \in Unrecorded(p)
         /\ Unrecorded(p)' = Unrecorded(p) \ {Current(p)}
<1>1. /\ tick'[p].now = tick[p].now /\ tick'[p].due = tick[p].due
      /\ tick'[p].at \in {"report", "read"}
      /\ tick'[p].at = "read" =>
           /\ tick'[p].i > tick[p].i
           /\ \A j \in 1..Len(Sources) :
                j > tick[p].i /\ Sources[j] \in tick[p].due => j >= tick'[p].i
      /\ tick'[p].at = "report" =>
           \A j \in 1..Len(Sources) : j > tick[p].i => Sources[j] \notin tick[p].due
      /\ TickMoves(p)
  BY TypeWriteLedger
<1>2. /\ tick[p].at = "write" /\ tick[p].i \in 1..Len(Sources) /\ tick[p].due \subseteq Feeds
      /\ Sources[tick[p].i] \in tick[p].due /\ tick[p].i \in Int
  BY DEF WriteLedger, TypeInv, SchedulerShapes, TickOf, Ticks
<1>3. tick'[p].i \in Int
  BY <1>1 DEF TickMoves, SchedulerShapes, Ticks
<1>4. Indexes(Current(p)) = {tick[p].i}
  BY <1>2, OneIndex DEF Current
<1>5. Unrecorded(p) = { s \in tick[p].due : \A j \in Indexes(s) : j >= tick[p].i }
  BY <1>2 DEF Unrecorded
<1>6. Current(p) \in Unrecorded(p)
  BY <1>2, <1>4, <1>5 DEF Current
<1>7. ASSUME NEW s \in tick[p].due, s # Current(p)
      PROVE  s \in Unrecorded(p)' <=> s \in Unrecorded(p)
  <2>1. PICK i \in 1..Len(Sources) : s = Sources[i]
    BY <1>2 DEF Feeds
  <2>2. Indexes(s) = {i} /\ i # tick[p].i
    BY <1>7, <2>1, OneIndex DEF Current
  <2>3. s \in Unrecorded(p) <=> i > tick[p].i
    BY <1>2, <1>5, <2>2
  <2>4. CASE tick'[p].at = "read"
    <3>1. s \in Unrecorded(p)' <=> i >= tick'[p].i
      BY <1>1, <2>2, <2>4 DEF Unrecorded
    <3> QED
      BY <1>1, <1>2, <1>3, <2>1, <2>3, <2>4, <3>1
  <2>5. CASE tick'[p].at = "report"
    <3>1. s \notin Unrecorded(p)'
      BY <2>5 DEF Unrecorded
    <3> QED
      BY <1>1, <2>1, <2>3, <2>5, <3>1
  <2> QED
    BY <1>1, <2>4, <2>5
<1>8. Current(p) \notin Unrecorded(p)'
  <2>1. SUFFICES ASSUME Current(p) \in Unrecorded(p)' PROVE FALSE
    OBVIOUS
  <2>2. tick'[p].at = "read" /\ \A j \in Indexes(Current(p)) : j >= tick'[p].i
    BY <1>1, <2>1 DEF Unrecorded
  <2> QED
    BY <1>1, <1>2, <1>3, <1>4, <2>2
<1>9. Unrecorded(p)' \subseteq tick[p].due /\ Unrecorded(p) \subseteq tick[p].due
  BY <1>1 DEF Unrecorded
<1> QED
  BY <1>6, <1>7, <1>8, <1>9

\* A step of a process ends or begins a tick, goes on with it, or is none of the
\* scheduler's.
EndsTick(p) ==
  /\ Rest(p) /\ UNCHANGED <<clock, ledger, calls>>
  /\ cache' = cache \/ cache' = [cache EXCEPT ![p] = EmptyCache]

\* The steps of a process, for the scheduler.
LEMMA KindsOfTurn ==
  ASSUME NEW p \in Procs, Turn(p)
  PROVE  BeginTick(p) \/ Ticking(p) \/ EndsTick(p) \/ UNCHANGED schedulerVars
<1>1. CASE Cycle(p)
  BY <1>1 DEF Cycle, StartScan, FetchReport, SaveReport, SaveQuotes, SaveOpportunities,
              SaveSignals, Complete, Fail, End, EndsTick
<1>2. CASE Restart(p)
  BY <1>2 DEF Restart
<1>3. CASE Fault(p)
  BY <1>3 DEF Fault, Raise, Kill, RaiseInserting, End, EndsTick
<1> QED
  BY <1>1, <1>2, <1>3 DEF Turn

\* The calls made of a source on some days are a number, and the processes that
\* owe the ledger one of them are finitely many.
LEMMA SpentTypes ==
  ASSUME TypeInv, NEW s \in Feeds, NEW D \in SUBSET Days
  PROVE  /\ Spent(s, D) \in Nat /\ IsFiniteSet(D) /\ \A d \in D : calls[s][d] \in Nat
         /\ IsFiniteSet(Owing(s, D)) /\ Cardinality(Owing(s, D)) \in Nat
<1>1. IsFiniteSet(D)
  BY DayTypes, FS_Subset
<1>2. \A d \in D : calls[s][d] \in Nat
  BY DEF TypeInv, SchedulerShapes
<1>3. Spent(s, D) \in Nat
  BY <1>1, <1>2, SumType DEF Spent
<1>4. IsFiniteSet(Owing(s, D))
  BY Constants, FS_Subset DEF Owing
<1> QED
  BY <1>1, <1>2, <1>3, <1>4, FS_CardinalityType

\* A call is one call more on the days it is of, and none on others.
LEMMA SpentOfCall ==
  ASSUME TypeInv, NEW p \in Procs, NEW s \in Feeds, NEW ok \in BOOLEAN, FetchOne(p, s, ok),
         NEW D \in SUBSET Days
  PROVE  /\ Spent(s, D)' = IF Day(tick[p].now) \in D THEN Spent(s, D) + 1 ELSE Spent(s, D)
         /\ \A f \in Feeds \ {s} : calls'[f] = calls[f] /\ Spent(f, D)' = Spent(f, D)
         /\ \A d \in Days : calls'[s][d] = IF d = Day(tick[p].now) THEN calls[s][d] + 1 ELSE calls[s][d]
<1> DEFINE d == Day(tick[p].now)
           f == calls[s]
           g == calls'[s]
<1>1. d \in Days /\ calls' = [calls EXCEPT ![s][d] = @ + 1] /\ calls \in [Feeds -> [Days -> Nat]]
  BY TypeFetchOne, DayTypes DEF FetchOne, TypeInv, SchedulerShapes
<1> HIDE DEF d
<1>2. /\ \A x \in D : f[x] \in Int /\ g[x] \in Int
      /\ \A x \in Days : g[x] = IF x = d THEN f[x] + 1 ELSE f[x]
      /\ \A x \in Feeds \ {s} : calls'[x] = calls[x]
  BY <1>1
<1>3. IsFiniteSet(D)
  BY DayTypes, FS_Subset
<1>4. Spent(s, D) = SumFunctionOnSet(f, D) /\ Spent(s, D)' = SumFunctionOnSet(g, D)
  BY DEF Spent
<1>5. SumFunctionOnSet(f, D) \in Int
  BY <1>2, <1>3, SumType
<1> HIDE DEF f, g
<1>6. CASE d \in D
  <2>1. \A y \in D \ {d} : g[y] = f[y]
    BY <1>2
  <2>2. SumFunctionOnSet(g, D) = SumFunctionOnSet(f, D) - f[d] + g[d]
    BY <1>2, <1>3, <1>6, <2>1, SumOfOneChange
  <2>3. f[d] \in Int /\ g[d] = f[d] + 1
    BY <1>2, <1>6
  <2>4. SumFunctionOnSet(g, D) = SumFunctionOnSet(f, D) + 1
    BY <1>5, <2>2, <2>3
  <2> QED
    BY <1>2, <1>4, <1>6, <2>4 DEF d, f, g, Spent
<1>7. CASE d \notin D
  <2>1. \A y \in D : g[y] = f[y]
    BY <1>2, <1>7
  <2>2. SumFunctionOnSet(g, D) = SumFunctionOnSet(f, D)
    BY <1>3, <2>1, SumOfEqual
  <2> QED
    BY <1>2, <1>4, <1>7, <2>2 DEF d, f, g, Spent
<1> QED
  BY <1>6, <1>7

\* What is covered stays covered when nothing new is owed.
LEMMA CoverStays ==
  ASSUME TypeInv, TypeInv', NEW p \in Procs, TickMoves(p), calls' = calls,
         Unrecorded(p)' \subseteq Unrecorded(p),
         tick'[p].now = tick[p].now \/ Unrecorded(p)' = {},
         NEW s \in Feeds, NEW D \in SUBSET Days, NEW n \in Int, Covers(s, D, n)
  PROVE  Covers(s, D, n)'
<1>1. \A q \in Procs \ {p} : Unrecorded(q)' = Unrecorded(q) /\ tick'[q] = tick[q]
  BY DEF TickMoves, Unrecorded
<1>2. Owing(s, D)' \subseteq Owing(s, D)
  BY <1>1 DEF Owing
<1>3. IsFiniteSet(Owing(s, D)) /\ Cardinality(Owing(s, D)) \in Nat
  BY SpentTypes
<1>4. Cardinality(Owing(s, D)') <= Cardinality(Owing(s, D)) /\ Cardinality(Owing(s, D)') \in Nat
  BY <1>2, <1>3, FS_Subset, FS_CardinalityType
<1>5. Spent(s, D)' = Spent(s, D) /\ Spent(s, D) \in Nat
  BY SpentTypes DEF Spent
<1> QED
  BY <1>3, <1>4, <1>5 DEF Covers

\* It does when a call is made, which is owed and made at once.
LEMMA CoverOfCall ==
  ASSUME TypeInv, NEW p \in Procs, NEW f \in Feeds, NEW ok \in BOOLEAN, FetchOne(p, f, ok),
         NEW s \in Feeds, NEW D \in SUBSET Days, NEW n \in Int, Covers(s, D, n)
  PROVE  Covers(s, D, n)'
<1>1. /\ f \notin Unrecorded(p) /\ Unrecorded(p)' = Unrecorded(p) \cup {f}
      /\ tick'[p].now = tick[p].now
  BY FetchAddsOne
<1>2. \A q \in Procs \ {p} : Unrecorded(q)' = Unrecorded(q) /\ tick'[q] = tick[q]
  <2>1. TickMoves(p)
    BY TypeFetchOne
  <2> QED
    BY <2>1 DEF TickMoves, Unrecorded
<1>3. /\ IsFiniteSet(Owing(s, D)) /\ Cardinality(Owing(s, D)) \in Nat /\ Spent(s, D) \in Nat
  BY SpentTypes
<1>4. CASE s = f /\ Day(tick[p].now) \in D
  <2>1. Owing(s, D)' = Owing(s, D) \cup {p} /\ p \notin Owing(s, D)
    BY <1>1, <1>2, <1>4 DEF Owing
  <2>2. Cardinality(Owing(s, D)') = Cardinality(Owing(s, D)) + 1
    BY <1>3, <2>1, FS_AddElement
  <2>3. Spent(s, D)' = Spent(s, D) + 1
    BY <1>4, SpentOfCall
  <2> QED
    BY <1>3, <2>2, <2>3 DEF Covers
<1>5. CASE ~ (s = f /\ Day(tick[p].now) \in D)
  <2>1. Owing(s, D)' = Owing(s, D)
    BY <1>1, <1>2, <1>5 DEF Owing
  <2>2. Spent(s, D)' = Spent(s, D)
    BY <1>5, SpentOfCall
  <2> QED
    BY <2>1, <2>2 DEF Covers
<1> QED
  BY <1>4, <1>5

\* A record turns what is owed into what is recorded.
LEMMA CoverOfRecord ==
  ASSUME TypeInv, TypeInv', NEW p \in Procs, WriteLedger(p),
         NEW s \in Feeds, s = Current(p), NEW D \in SUBSET Days, Day(tick[p].now) \in D,
         NEW n \in Int, Covers(s, D, n)
  PROVE  Covers(s, D, n + 1)'
<1>1. s \in Unrecorded(p) /\ s \notin Unrecorded(p)' /\ TickMoves(p)
  BY WriteRemovesOne, TypeWriteLedger
<1>2. \A q \in Procs \ {p} : Unrecorded(q)' = Unrecorded(q) /\ tick'[q] = tick[q]
  BY <1>1 DEF TickMoves, Unrecorded
<1>3. /\ IsFiniteSet(Owing(s, D)) /\ Cardinality(Owing(s, D)) \in Nat /\ Spent(s, D) \in Nat
  BY SpentTypes
<1>4. Owing(s, D)' = Owing(s, D) \ {p} /\ p \in Owing(s, D)
  BY <1>1, <1>2 DEF Owing
<1>5. Cardinality(Owing(s, D)') = Cardinality(Owing(s, D)) - 1
  <2>1. Cardinality(Owing(s, D) \ {p}) = Cardinality(Owing(s, D)) - 1
    BY <1>3, <1>4, FS_RemoveElement
  <2> QED
    BY <1>4, <2>1, Zenon
<1>6. Spent(s, D)' = Spent(s, D)
  BY DEF Spent, WriteLedger
<1> QED
  BY <1>3, <1>5, <1>6 DEF Covers

\* Every claim on calls of s that was covered still is.
StillCovered(s) ==
  \A D \in SUBSET Days : \A n \in Nat : Covers(s, D, n) => Covers(s, D, n)'

\* An honest row stays honest while claims stay covered.
LEMMA HonestStays ==
  ASSUME NEW s \in Feeds, NEW row, row.day \in Days, row.calls \in Nat,
         StillCovered(s), Honest(s, row)
  PROVE  Honest(s, row)'
<1>1. Covers(s, {row.day}, row.calls)'
  <2>1. {row.day} \in SUBSET Days
    OBVIOUS
  <2> QED
    BY <2>1 DEF Honest, StillCovered
<1>2. PICK n \in Nat : row.units = Policy[s].units * n /\ Covers(s, DaysOf(row.month), n)
  BY DEF Honest
<1>3. Covers(s, DaysOf(row.month), n)'
  <2>1. DaysOf(row.month) \in SUBSET Days
    BY DEF DaysOf
  <2> QED
    BY <1>2, <2>1 DEF StillCovered
<1> QED
  BY <1>1, <1>2, <1>3 DEF Honest

\* What a process reads of the ledger is honest.
LEMMA HonestReading ==
  ASSUME TypeInv, HonestInv, NEW s \in Feeds, NEW now \in 0..MaxClock
  PROVE  Honest(s, [day |-> Day(now), calls |-> State(s, now).calls,
                    month |-> Month(now), units |-> State(s, now).units])
<1> DEFINE st == State(s, now)
           row == [day |-> Day(now), calls |-> st.calls, month |-> Month(now), units |-> st.units]
<1>1. Covers(s, {Day(now)}, 0) /\ Covers(s, DaysOf(Month(now)), 0)
  <2>1. {Day(now)} \in SUBSET Days /\ DaysOf(Month(now)) \in SUBSET Days
    BY DayTypes
  <2> QED
    BY <2>1 DEF HonestInv
<1>2. Policy[s].units * 0 = 0 /\ 0 \in Nat
  BY Constants
<1>3. row.day = Day(now) /\ row.month = Month(now) /\ row.calls = st.calls /\ row.units = st.units
  OBVIOUS
<1>4. CASE ledger[s] = None
  <2>1. st.calls = 0 /\ st.units = 0
    BY <1>4 DEF State
  <2> HIDE DEF st, row
  <2>2. Honest(s, row)
    BY <1>1, <1>2, <1>3, <2>1 DEF Honest
  <2> QED
    BY <2>2 DEF row, st
<1>5. CASE ledger[s] # None
  <2>1. Honest(s, ledger[s])
    BY <1>5 DEF HonestInv
  <2>2. /\ st.calls = IF ledger[s].day = Day(now) THEN ledger[s].calls ELSE 0
        /\ st.units = IF ledger[s].month = Month(now) THEN ledger[s].units ELSE 0
    BY <1>5 DEF State
  <2> HIDE DEF st, row
  <2>3. Covers(s, {Day(now)}, st.calls)
    BY <1>1, <2>1, <2>2 DEF Honest
  <2>4. \E n \in Nat : st.units = Policy[s].units * n /\ Covers(s, DaysOf(Month(now)), n)
    <3>1. CASE ledger[s].month = Month(now)
      BY <2>1, <2>2, <3>1 DEF Honest
    <3>2. CASE ledger[s].month # Month(now)
      BY <1>1, <1>2, <2>2, <3>2
    <3> QED
      BY <3>1, <3>2
  <2>5. Honest(s, row)
    BY <1>3, <2>3, <2>4 DEF Honest
  <2> QED
    BY <2>5 DEF row, st
<1> QED
  BY <1>4, <1>5

\* The invariant after a step that writes no row: every claim stays covered, and
\* what p holds of the ledger it held before or has just read.
LEMMA HonestWithoutWrite ==
  ASSUME TypeInv, TypeInv', HonestInv, NEW p \in Procs, TickMoves(p), ledger' = ledger,
         \A s \in Feeds : StillCovered(s),
         tick'[p].at \in {"block", "write"} =>
           \/ tick'[p] = tick[p]
           \/ /\ Current(p)' = Current(p) /\ Current(p) \in Feeds
              /\ tick'[p].now = tick[p].now /\ tick[p].now \in 0..MaxClock
              /\ tick'[p].read = State(Current(p), tick[p].now)
  PROVE  HonestInv'
<1>1. ASSUME NEW s \in Feeds, NEW D \in SUBSET Days PROVE Covers(s, D, 0)'
  BY DEF HonestInv, StillCovered
<1>2. ASSUME NEW s \in Feeds, ledger'[s] # None PROVE Honest(s, ledger[s])'
  <2>1. PICK row : row = ledger[s]
    OBVIOUS
  <2>2. row \in Rows /\ Honest(s, row)
    BY <1>2, <2>1 DEF HonestInv, TypeInv, SchedulerShapes
  <2>3. Honest(s, row)'
    BY <2>2, HonestStays DEF Rows
  <2>4. ledger'[s] = row
    BY <2>1
  <2> QED
    BY <2>3, <2>4
<1>3. ASSUME NEW q \in Procs, tick'[q].at \in {"block", "write"}
      PROVE  Honest(Current(q), ReadOf(q))'
  <2>0. /\ tick'[q].now \in 0..MaxClock /\ tick'[q].read \in States
        /\ tick'[q].i \in 1..Len(Sources)
    <3>1. /\ TickOf(q)' /\ tick'[q] \in Ticks
      BY DEF TypeInv, SchedulerShapes
    <3> QED
      BY <1>3, <3>1 DEF TickOf, Ticks
  <2>1. PICK s, row : s = Current(q)' /\ row = ReadOf(q)'
    OBVIOUS
  <2>2. s \in Feeds
    BY <2>0, <2>1, Constants DEF Current
  <2>3. row.day \in Days /\ row.calls \in Nat
    BY <2>0, <2>1, DayTypes DEF ReadOf, States
  <2>4. Honest(s, row)
    <3>1. CASE tick'[q] = tick[q]
      <4>1. s = Current(q) /\ row = ReadOf(q) /\ tick[q].at \in {"block", "write"}
        BY <1>3, <2>1, <3>1 DEF Current, ReadOf
      <4> QED
        BY <4>1 DEF HonestInv
    <3>2. CASE tick'[q] # tick[q]
      <4>1. q = p
        BY <3>2 DEF TickMoves
      <4>2. /\ s = Current(p) /\ tick[p].now \in 0..MaxClock
            /\ tick'[p].now = tick[p].now /\ tick'[p].read = State(s, tick[p].now)
        BY <1>3, <2>1, <3>2, <4>1
      <4>3. row = [day |-> Day(tick[p].now), calls |-> State(s, tick[p].now).calls,
                   month |-> Month(tick[p].now), units |-> State(s, tick[p].now).units]
        BY <2>1, <4>1, <4>2 DEF ReadOf
      <4> QED
        BY <2>2, <4>2, <4>3, HonestReading
    <3> QED
      BY <3>1, <3>2
  <2>5. Honest(s, row)'
    BY <2>2, <2>3, <2>4, HonestStays
  <2>6. s = Current(q)' /\ row = ReadOf(q)'
    BY <2>1
  <2> QED
    BY <2>5, <2>6
<1> QED
  BY <1>1, <1>2, <1>3 DEF HonestInv

\* The invariant after a record of n calls of s: the row is as honest as what was
\* read before it.
LEMMA HonestAfterWrite ==
  ASSUME TypeInv, TypeInv', HonestInv, NEW p \in Procs, TickMoves(p),
         tick[p].at \in {"block", "write"}, tick'[p].at \notin {"block", "write"},
         NEW s \in Feeds, s = Current(p), NEW n \in {0, 1}, NEW due \in Nat, Upsert(p, s, n, due),
         \A f \in Feeds : StillCovered(f),
         \A D \in SUBSET Days : \A m \in Nat :
           Day(tick[p].now) \in D /\ Covers(s, D, m) => Covers(s, D, m + n)'
  PROVE  HonestInv'
<1>0. /\ tick[p].read \in States /\ tick[p].now \in 0..MaxClock /\ tick[p].now >= 0
  BY DEF TypeInv, SchedulerShapes, TickOf, Ticks
<1>1. ASSUME NEW f \in Feeds, NEW D \in SUBSET Days PROVE Covers(f, D, 0)'
  BY DEF HonestInv, StillCovered
<1>2. /\ ledger'[s].day = Day(tick[p].now) /\ ledger'[s].month = Month(tick[p].now)
      /\ ledger'[s].calls = tick[p].read.calls + n
      /\ ledger'[s].units = tick[p].read.units + n * Policy[s].units
      /\ \A f \in Feeds \ {s} : ledger'[f] = ledger[f]
  BY <1>0, TypeUpsert
<1>3. ASSUME NEW f \in Feeds \ {s}, ledger'[f] # None PROVE Honest(f, ledger[f])'
  <2>1. PICK row : row = ledger[f]
    OBVIOUS
  <2>2. row \in Rows /\ Honest(f, row)
    BY <1>2, <1>3, <2>1 DEF HonestInv, TypeInv, SchedulerShapes
  <2>3. Honest(f, row)'
    BY <2>2, HonestStays DEF Rows
  <2>4. ledger'[f] = row
    BY <1>2, <2>1
  <2> QED
    BY <2>3, <2>4
<1>4. Honest(s, ledger[s])'
  <2>1. PICK now : now = tick[p].now
    OBVIOUS
  <2>2. PICK c, u : c = tick[p].read.calls /\ u = tick[p].read.units
    OBVIOUS
  <2>3. Honest(s, ReadOf(p)) /\ c \in Nat /\ u \in Nat /\ now \in 0..MaxClock
    BY <1>0, <2>1, <2>2 DEF HonestInv, States
  <2>4. Covers(s, {Day(now)}, c)
    BY <2>1, <2>2, <2>3 DEF Honest, ReadOf
  <2>5. PICK k \in Nat : u = Policy[s].units * k /\ Covers(s, DaysOf(Month(now)), k)
    BY <2>1, <2>2, <2>3 DEF Honest, ReadOf
  <2>6. /\ {Day(now)} \in SUBSET Days /\ DaysOf(Month(now)) \in SUBSET Days
        /\ Day(now) \in {Day(now)} /\ Day(now) \in DaysOf(Month(now))
    BY <2>3, DayTypes, DayIsInItsMonth
  <2>7. Covers(s, {Day(now)}, c + n)' /\ Covers(s, DaysOf(Month(now)), k + n)'
    BY <2>1, <2>3, <2>4, <2>5, <2>6
  <2>8. k + n \in Nat /\ u + n * Policy[s].units = Policy[s].units * (k + n)
    <3>1. Policy[s].units \in Nat
      BY Constants
    <3>2. CASE n = 0
      BY <2>5, <3>1, <3>2
    <3>3. CASE n = 1
      BY <2>5, <3>1, <3>3
    <3> QED
      BY <3>2, <3>3
  <2>9. /\ ledger'[s].day = Day(now) /\ ledger'[s].month = Month(now)
        /\ ledger'[s].calls = c + n
        /\ ledger'[s].units = u + n * Policy[s].units
    BY <1>2, <2>1, <2>2
  <2> QED
    BY <2>7, <2>8, <2>9 DEF Honest
<1>5. ASSUME NEW q \in Procs, tick'[q].at \in {"block", "write"}
      PROVE  Honest(Current(q), ReadOf(q))'
  <2>1. q # p /\ tick'[q] = tick[q]
    BY <1>5 DEF TickMoves
  <2>2. PICK f, row : f = Current(q) /\ row = ReadOf(q)
    OBVIOUS
  <2>3. /\ tick[q].now \in 0..MaxClock /\ tick[q].read \in States /\ tick[q].i \in 1..Len(Sources)
    <3>1. /\ TickOf(q) /\ tick[q] \in Ticks
      BY DEF TypeInv, SchedulerShapes
    <3> QED
      BY <1>5, <2>1, <3>1 DEF TickOf, Ticks
  <2>4. f \in Feeds /\ row.day \in Days /\ row.calls \in Nat
    BY <2>2, <2>3, Constants, DayTypes DEF Current, ReadOf, States
  <2>5. Honest(f, row)
    BY <1>5, <2>1, <2>2 DEF HonestInv
  <2>6. Honest(f, row)'
    BY <2>4, <2>5, HonestStays
  <2>7. f = Current(q)' /\ row = ReadOf(q)'
    BY <2>1, <2>2 DEF Current, ReadOf
  <2> QED
    BY <2>6, <2>7
<1> QED
  BY <1>1, <1>3, <1>4, <1>5 DEF HonestInv

\* A step of a process keeps the ledger honest.
LEMMA HonestTurn ==
  ASSUME TypeInv, TypeInv', HonestInv, NEW p \in Procs, Turn(p)
  PROVE  HonestInv'
<1>0. TickMoves(p)
  BY TypeTurn DEF CycleMoves
<1>1. ASSUME calls' = calls, Unrecorded(p)' \subseteq Unrecorded(p),
             tick'[p].now = tick[p].now \/ Unrecorded(p)' = {}
      PROVE  \A s \in Feeds : StillCovered(s)
  BY <1>0, <1>1, CoverStays DEF StillCovered
<1>2. CASE BeginTick(p)
  <2>1. tick'[p].at = "check" /\ tick'[p].got = EmptyCache
    <3> DEFINE t == [Resting EXCEPT !.at = "check", !.now = clock]
    <3>1. clock \in -1..MaxClock
      BY Constants DEF TypeInv, SchedulerShapes
    <3>2. t.at = "check" /\ t.got = EmptyCache
      BY <3>1, RestingTypes
    <3> HIDE DEF t
    <3>3. tick'[p] = t
      BY <1>2 DEF BeginTick, TypeInv, SchedulerShapes, t
    <3> QED
      BY <3>2, <3>3
  <2>2. Unrecorded(p)' = {}
    BY <2>1 DEF Unrecorded
  <2>3. \A s \in Feeds : StillCovered(s)
    BY <1>1, <1>2, <2>2 DEF BeginTick
  <2> QED
    BY <1>0, <1>2, <2>1, <2>3, HonestWithoutWrite DEF BeginTick
<1>3. CASE SkipSource(p) \/ TakeSource(p) \/ BlockSource(p)
  <2>1. /\ Current(p) \in Feeds
        /\ tick'[p].now = tick[p].now /\ tick'[p].got = EmptyCache
        /\ tick'[p].at \in {"fetch", "check", "block"}
        /\ tick'[p].at = "block" =>
             tick'[p].i = tick[p].i /\ tick'[p].read = State(Current(p), tick[p].now)
    BY <1>3, TypeCheck
  <2>2. Unrecorded(p)' = {}
    <3>1. \A s \in Feeds : EmptyCache[s] = None
      BY DEF EmptyCache
    <3>2. tick'[p].due \subseteq Feeds
      BY DEF TypeInv, SchedulerShapes, Ticks
    <3> QED
      BY <2>1, <3>1, <3>2 DEF Unrecorded
  <2>3. \A s \in Feeds : StillCovered(s)
    BY <1>1, <1>3, <2>2 DEF SkipSource, TakeSource, BlockSource
  <2>4. tick[p].now \in 0..MaxClock
    BY <1>3 DEF TypeInv, SchedulerShapes, TickOf, Ticks, SkipSource, TakeSource, BlockSource
  <2>5. ledger' = ledger
    BY <1>3 DEF SkipSource, TakeSource, BlockSource
  <2>6. tick'[p].at \in {"block", "write"} =>
          /\ Current(p)' = Current(p) /\ Current(p) \in Feeds
          /\ tick'[p].now = tick[p].now /\ tick[p].now \in 0..MaxClock
          /\ tick'[p].read = State(Current(p), tick[p].now)
    BY <2>1, <2>4 DEF Current
  <2> QED
    BY <1>0, <2>3, <2>5, <2>6, HonestWithoutWrite
<1>4. CASE RecordBlocked(p)
  <2>1. /\ Current(p) \in Feeds /\ tick[p].at = "block"
        /\ tick'[p].at \in {"fetch", "check"} /\ tick'[p].now = tick[p].now
        /\ tick'[p].got = EmptyCache
    BY <1>4, TypeRecordBlocked DEF RecordBlocked
  <2>2. PICK due \in Nat : Upsert(p, Current(p), 0, due)
    BY <1>4, TypeRecordBlocked
  <2>3. Unrecorded(p)' = {}
    <3>1. \A s \in Feeds : EmptyCache[s] = None
      BY DEF EmptyCache
    <3>2. tick'[p].due \subseteq Feeds
      BY DEF TypeInv, SchedulerShapes, Ticks
    <3> QED
      BY <2>1, <3>1, <3>2 DEF Unrecorded
  <2>4. \A s \in Feeds : StillCovered(s)
    BY <1>1, <1>4, <2>3 DEF RecordBlocked
  <2>5. PICK s \in Feeds : s = Current(p)
    BY <2>1
  <2>6. \A D \in SUBSET Days : \A m \in Nat :
          Day(tick[p].now) \in D /\ Covers(s, D, m) => Covers(s, D, m + 0)'
    <3>1. \A m \in Nat : m + 0 = m
      OBVIOUS
    <3>2. \A D \in SUBSET Days : \A m \in Nat : Covers(s, D, m) => Covers(s, D, m)'
      BY <2>4 DEF StillCovered
    <3> QED
      BY <3>1, <3>2
  <2> QED
    BY <1>0, <2>1, <2>2, <2>4, <2>5, <2>6, HonestAfterWrite
<1>5. CASE \E s \in Feeds, ok \in BOOLEAN : FetchOne(p, s, ok)
  <2>1. PICK s \in Feeds, ok \in BOOLEAN : FetchOne(p, s, ok)
    BY <1>5
  <2>2. \A f \in Feeds : StillCovered(f)
    BY <2>1, CoverOfCall DEF StillCovered
  <2>3. tick'[p].at = "fetch"
    BY <2>1, FetchAddsOne
  <2> QED
    BY <1>0, <2>1, <2>2, <2>3, HonestWithoutWrite DEF FetchOne
<1>6. CASE \E mode \in Modes : Collect(p, mode)
  <2>1. PICK mode \in Modes : Collect(p, mode)
    BY <1>6
  <2>2. Unrecorded(p)' = Unrecorded(p) /\ tick'[p].at \in {"report", "read"}
    BY <2>1, CollectKeepsAll, TypeCollect
  <2>3. tick'[p].now = tick[p].now
    BY <2>1, TypeCollect
  <2>4. \A s \in Feeds : StillCovered(s)
    BY <1>1, <2>1, <2>2, <2>3 DEF Collect
  <2> QED
    BY <1>0, <2>1, <2>2, <2>4, HonestWithoutWrite DEF Collect
<1>7. CASE ReadLedger(p)
  <2>1. /\ Current(p) \in Feeds /\ tick[p].at = "read"
        /\ tick'[p].at = "write" /\ tick'[p].i = tick[p].i
        /\ tick'[p].due = tick[p].due /\ tick'[p].now = tick[p].now
        /\ tick'[p].read = State(Current(p), tick[p].now)
        /\ calls' = calls /\ ledger' = ledger
    BY <1>7, TypeReadLedger DEF ReadLedger
  <2>2. Unrecorded(p)' = Unrecorded(p)
    BY <2>1 DEF Unrecorded
  <2>3. \A s \in Feeds : StillCovered(s)
    BY <1>1, <2>1, <2>2
  <2>4. tick[p].now \in 0..MaxClock
    BY <2>1 DEF TypeInv, SchedulerShapes, TickOf, Ticks
  <2>5. /\ Current(p)' = Current(p)
    BY <2>1 DEF Current
  <2> QED
    BY <1>0, <2>1, <2>3, <2>4, <2>5, HonestWithoutWrite
<1>8. CASE WriteLedger(p)
  <2>1. /\ Current(p) \in Feeds /\ tick[p].at = "write"
        /\ tick'[p].now = tick[p].now /\ tick'[p].at \in {"report", "read"}
    BY <1>8, TypeWriteLedger DEF WriteLedger
  <2>2. PICK due \in Nat : Upsert(p, Current(p), 1, due)
    BY <1>8, TypeWriteLedger
  <2>3. Unrecorded(p)' \subseteq Unrecorded(p)
    BY <1>8, WriteRemovesOne
  <2>4. \A s \in Feeds : StillCovered(s)
    BY <1>1, <1>8, <2>1, <2>3 DEF WriteLedger
  <2>5. PICK s \in Feeds : s = Current(p)
    BY <2>1
  <2>6. \A D \in SUBSET Days : \A m \in Nat :
          Day(tick[p].now) \in D /\ Covers(s, D, m) => Covers(s, D, m + 1)'
    BY <1>8, <2>5, CoverOfRecord
  <2> QED
    BY <1>0, <2>1, <2>2, <2>4, <2>5, <2>6, HonestAfterWrite
<1>9. CASE EndsTick(p)
  <2>1. tick'[p].at = "idle" /\ tick'[p].now = tick[p].now
    BY <1>9, TypeRest DEF EndsTick
  <2>2. Unrecorded(p)' = {}
    BY <2>1 DEF Unrecorded
  <2>3. \A s \in Feeds : StillCovered(s)
    BY <1>1, <1>9, <2>2 DEF EndsTick
  <2> QED
    BY <1>0, <1>9, <2>1, <2>3, HonestWithoutWrite DEF EndsTick
<1>10. CASE UNCHANGED schedulerVars
  <2>1. tick' = tick /\ calls' = calls /\ ledger' = ledger
    BY <1>10 DEF schedulerVars
  <2>2. Unrecorded(p)' = Unrecorded(p)
    BY <2>1 DEF Unrecorded
  <2>3. \A s \in Feeds : StillCovered(s)
    BY <1>1, <2>1, <2>2
  <2> QED
    BY <1>0, <2>1, <2>3, HonestWithoutWrite
<1> QED
  BY <1>2, <1>3, <1>4, <1>5, <1>6, <1>7, <1>8, <1>9, <1>10, KindsOfTurn DEF Ticking

\* Nothing is owed at first, and nothing is charged.
LEMMA HonestInit == Init => HonestInv
<1> SUFFICES ASSUME Init PROVE HonestInv
  OBVIOUS
<1>1. TypeInv
  BY TypeInit
<1>2. \A p \in Procs : tick[p] = Resting /\ tick[p].at = "idle"
  BY RestingTypes DEF Init, SchedulerInit
<1>3. \A p \in Procs : Unrecorded(p) = {}
  BY <1>1, <1>2, NothingUnrecorded
<1>4. ASSUME NEW s \in Feeds, NEW D \in SUBSET Days PROVE Covers(s, D, 0)
  <2>1. Owing(s, D) = {}
    BY <1>3 DEF Owing
  <2>2. Cardinality(Owing(s, D)) = 0
    BY <2>1, FS_EmptySet, Zenon
  <2>3. Spent(s, D) \in Nat
    BY <1>1, SpentTypes
  <2> QED
    BY <2>2, <2>3 DEF Covers
<1>5. \A s \in Feeds : ledger[s] = None
  BY DEF Init, SchedulerInit
<1> QED
  BY <1>2, <1>4, <1>5 DEF HonestInv

\* Every step keeps the ledger honest.
LEMMA HonestStep == TypeInv /\ HonestInv /\ [Next]_vars => HonestInv'
<1> SUFFICES ASSUME TypeInv, HonestInv, [Next]_vars PROVE HonestInv'
  OBVIOUS
<1>1. TypeInv'
  BY TypeStep
<1>2. ASSUME NEW p \in fleet, Turn(p) PROVE HonestInv'
  <2>1. p \in Procs
    BY FleetTypes
  <2> QED
    BY <1>1, <1>2, <2>1, HonestTurn
<1>3. CASE TimePasses \/ UNCHANGED vars
  <2>1. tick' = tick /\ calls' = calls /\ ledger' = ledger
    BY <1>3 DEF TimePasses, PassTime, vars, schedulerVars
  <2>2. \A s, D, n : Covers(s, D, n)' = Covers(s, D, n)
    BY <2>1 DEF Covers, Owing, Spent, Unrecorded
  <2> QED
    BY <2>1, <2>2 DEF HonestInv, Honest, Current, ReadOf
<1> QED
  BY <1>2, <1>3, StepsOfNext

\* The ledger never charges a source for calls that were not made: not when two
\* processes write the same row over each other, nor when one is killed between
\* a call and its record.
THEOREM NeverCharged == Spec => []NeverOvercharged
<1>1. TypeInv /\ HonestInv => NeverOvercharged
  <2> SUFFICES ASSUME TypeInv, HonestInv, NEW s \in Feeds, ledger[s] # None
               PROVE  /\ ledger[s].calls <= calls[s][ledger[s].day]
                      /\ ledger[s].units <= Policy[s].units * Spent(s, DaysOf(ledger[s].month))
    BY DEF NeverOvercharged
  <2>1. ledger[s] \in Rows /\ Honest(s, ledger[s])
    BY DEF TypeInv, SchedulerShapes, HonestInv
  <2> DEFINE d == ledger[s].day
             m == ledger[s].month
  <2>2. d \in Days /\ {d} \in SUBSET Days /\ DaysOf(m) \in SUBSET Days
    BY <2>1 DEF Rows, DaysOf
  <2>3. /\ Cardinality(Owing(s, {d})) \in Nat /\ Cardinality(Owing(s, DaysOf(m))) \in Nat
        /\ Spent(s, DaysOf(m)) \in Nat /\ calls[s][d] \in Nat
    BY <2>2, SpentTypes
  <2>4. Spent(s, {d}) = calls[s][d]
    BY <2>3, SumSingleton DEF Spent
  <2>5. ledger[s].calls + Cardinality(Owing(s, {d})) <= calls[s][d] /\ ledger[s].calls \in Nat
    BY <2>1, <2>4 DEF Honest, Covers, Rows
  <2>6. PICK n \in Nat : ledger[s].units = Policy[s].units * n
                         /\ n + Cardinality(Owing(s, DaysOf(m))) <= Spent(s, DaysOf(m))
    BY <2>1 DEF Honest, Covers
  <2>7. Policy[s].units * n <= Policy[s].units * Spent(s, DaysOf(m))
    <3>1. n <= Spent(s, DaysOf(m)) /\ Policy[s].units \in Nat
      BY <2>3, <2>6, Constants
    <3> DEFINE k == Spent(s, DaysOf(m))
    <3>2. k \in Int /\ n \in Int /\ n <= k /\ Policy[s].units \in Nat
      BY <2>3, <3>1
    <3> HIDE DEF k
    <3>3. Policy[s].units * n <= Policy[s].units * k
      BY <3>2, ProductGrows
    <3> QED
      BY <3>3 DEF k
  <2> QED
    BY <2>3, <2>5, <2>6, <2>7
<1> QED
  BY <1>1, TypeInit, TypeStep, HonestInit, HonestStep, PTL DEF Spec

---------------------------------------------------------------------------
(* What is stored of a scan                                                *)

\* What is left of a cache is fresh.
LEMMA PrunedIsFresh ==
  ASSUME NEW held \in [Feeds -> 0..MaxClock \cup {None}], NEW now, NEW s \in Feeds
  PROVE  Pruned(held, now)[s] = None \/ Fresh(s, Pruned(held, now)[s], now)
  BY DEF Pruned

\* The cache of a tick stays fresh.
LEMMA FreshTurn ==
  ASSUME TypeInv, TypeInv', NEW p \in Procs, FreshCache(p), Turn(p)
  PROVE  FreshCache(p)'
<1>1. cache[p] \in [Feeds -> 0..MaxClock \cup {None}] /\ DOMAIN cache = Procs
  BY DEF TypeInv, SchedulerShapes
<1>2. CASE BeginTick(p)
  <2>1. cache'[p] = Pruned(cache[p], clock) /\ tick'[p].now = clock
    <3> DEFINE t == [Resting EXCEPT !.at = "check", !.now = clock]
    <3>1. clock \in -1..MaxClock
      BY Constants DEF TypeInv, SchedulerShapes
    <3>2. t.now = clock
      BY <3>1, RestingTypes
    <3> HIDE DEF t
    <3>3. tick'[p] = t
      BY <1>2 DEF BeginTick, TypeInv, SchedulerShapes, t
    <3> QED
      BY <1>1, <1>2, <3>2, <3>3 DEF BeginTick
  <2>2. ASSUME NEW s \in Feeds PROVE cache'[p][s] = None \/ Fresh(s, cache'[p][s], tick'[p].now)
    BY <1>1, <2>1, PrunedIsFresh
  <2> QED
    BY <2>2 DEF FreshCache, Fresh
<1>3. CASE \E mode \in Modes : Collect(p, mode)
  <2>1. /\ Gathered(p) \in [Feeds -> 0..MaxClock \cup {None}]
        /\ cache'[p] = Pruned(Gathered(p), tick[p].now) /\ tick'[p].now = tick[p].now
    BY <1>3, TypeCollect
  <2>2. ASSUME NEW s \in Feeds PROVE cache'[p][s] = None \/ Fresh(s, cache'[p][s], tick'[p].now)
    BY <2>1, PrunedIsFresh
  <2> QED
    BY <2>2 DEF FreshCache, Fresh
<1>4. CASE Ticking(p) /\ ~ \E mode \in Modes : Collect(p, mode)
  <2>1. cache' = cache /\ tick[p].at # "idle"
    BY <1>4 DEF Ticking, SkipSource, TakeSource, BlockSource, RecordBlocked, FetchOne,
                ReadLedger, WriteLedger
  <2>2. tick'[p].now = tick[p].now
    BY <1>4, TypeTicking
  <2> QED
    BY <2>1, <2>2 DEF FreshCache, Fresh
<1>5. CASE EndsTick(p)
  <2>1. tick'[p].at = "idle"
    BY <1>5, TypeRest DEF EndsTick
  <2> QED
    BY <2>1 DEF FreshCache
<1>6. CASE UNCHANGED schedulerVars
  BY <1>6 DEF schedulerVars, FreshCache, Fresh
<1> QED
  BY <1>2, <1>3, <1>4, <1>5, <1>6, KindsOfTurn

\* The rows a query counts are a number of them, and none are counted of nothing.
LEMMA CountsAreNumbers ==
  /\ \A q \in Quotes : DOMAIN q \in SUBSET Operators /\ Cardinality(DOMAIN q) \in Nat
  /\ NoQuotes \in Quotes /\ DOMAIN NoQuotes = {} /\ Cardinality(DOMAIN NoQuotes) = 0
<1>1. \A q \in Quotes : DOMAIN q \in SUBSET Operators
  BY DEF Quotes
<1>2. DOMAIN NoQuotes = {} /\ NoQuotes \in [{} -> 0..MaxClock] /\ {} \in SUBSET Operators
  BY DEF NoQuotes
<1>3. Cardinality(DOMAIN NoQuotes) = 0
  BY <1>2, FS_EmptySet, Zenon
<1>4. NoQuotes \in Quotes
  BY <1>2 DEF Quotes
<1> QED
  BY <1>1, <1>2, <1>3, <1>4, OperatorsAreFinite

\* What a report quotes is fresh at the start of its scan.
LEMMA ReportIsFresh ==
  ASSUME TypeInv, NEW p \in Procs, FreshCache(p), tick[p].at = "report",
         NEW o \in DOMAIN ReportedQuotes(p)
  PROVE  FreshAt(o, ReportedQuotes(p)[o], tick[p].now)
<1>1. PICK s \in Feeds : /\ cache[p][s] # None /\ o \in Policy[s].operators
                         /\ ReportedQuotes(p)[o] = cache[p][s]
  BY ReportTypes
<1>2. Fresh(s, cache[p][s], tick[p].now)
  BY <1>1 DEF FreshCache
<1>3. cache[p][s] \in 0..MaxClock /\ tick[p].now \in Int /\ Policy[s].maxAge \in Nat
  BY <1>1, Constants DEF TypeInv, SchedulerShapes, Ticks
<1>4. cache[p][s] \in tick[p].now - Policy[s].maxAge .. tick[p].now + Skew
  BY <1>2, <1>3 DEF Fresh, Skew
<1> QED
  BY <1>1, <1>4 DEF FreshAt

\* Every step of a cycle stores what it counts.
LEMMA StoredTurn ==
  ASSUME TypeInv, TypeInv', NEW p \in Procs, FreshCache(p), StoredOf(p), Turn(p)
  PROVE  StoredOf(p)'
<1>1. /\ scan[p] \in Scans /\ loop[p] \in Loops /\ StageOf(p) /\ DOMAIN scan = Procs /\ DOMAIN loop = Procs
      /\ Cardinality(DOMAIN scan[p].quotes) \in Nat
  BY CountsAreNumbers DEF TypeInv, ShadowShapes, Scans
<1>2. CASE StartScan(p)
  <2> DEFINE s == [Scan EXCEPT !.started = clock]
             l == [Sleeping EXCEPT !.at = "fetch"]
  <2>1. /\ s.status = "running" /\ s.quotes = NoQuotes /\ s.opportunities = 0
        /\ l.at = "fetch" /\ l.quoteCount = 0 /\ l.opportunityCount = 0
    BY DEF Scan, Sleeping
  <2> HIDE DEF s, l
  <2>2. scan'[p] = s /\ loop'[p] = l
    BY <1>1, <1>2 DEF StartScan, s, l
  <2> QED
    BY <2>1, <2>2, CountsAreNumbers DEF StoredOf
<1>3. CASE FetchReport(p) \/ Restart(p)
  <2>1. /\ scan' = scan /\ loop[p].at \in {"fetch", "ended"}
        /\ \/ loop' = loop
           \/ loop[p].at = "ended" /\ loop'[p].at = "sleep"
    BY <1>1, <1>3 DEF FetchReport, Restart, shadowVars, Sleeping
  <2>2. CASE loop' = loop
    BY <2>1, <2>2 DEF StoredOf
  <2>3. CASE loop[p].at = "ended" /\ loop'[p].at = "sleep"
    BY <2>1, <2>3 DEF StoredOf
  <2> QED
    BY <2>1, <2>2, <2>3
<1>4. CASE SaveReport(p)
  <2> DEFINE next == IF AllFailed(p) THEN "fail" ELSE "quotes"
             cov == DOMAIN ReportedQuotes(p)
             s == [scan[p] EXCEPT !.coverage = cov]
             l == [loop[p] EXCEPT !.at = next]
  <2>1. next \in {"fail", "quotes"}
    OBVIOUS
  <2> HIDE DEF next, cov
  <2>2. /\ s.coverage = cov /\ s.status = scan[p].status /\ s.quotes = scan[p].quotes
        /\ s.opportunities = scan[p].opportunities
        /\ l.at = next /\ l.quoteCount = loop[p].quoteCount
        /\ l.opportunityCount = loop[p].opportunityCount
    BY <1>1 DEF Scans, Loops
  <2> HIDE DEF s, l
  <2>3. scan'[p] = s /\ loop'[p] = l /\ loop[p].at = "fetch" /\ cache' = cache
    BY <1>1, <1>4 DEF SaveReport, Store, Goto, s, l, next, cov, schedulerVars
  <2>4. ReportedQuotes(p)' = ReportedQuotes(p)
    BY <2>3 DEF ReportedQuotes
  <2>5. scan[p].status = "running"
    BY <1>1, <2>3 DEF StageOf
  <2> QED
    BY <2>1, <2>2, <2>3, <2>4, <2>5 DEF StoredOf, cov
<1>5. CASE SaveQuotes(p)
  <2> DEFINE qs == ReportedQuotes(p)
             n == Cardinality(DOMAIN ReportedQuotes(p))
             s == [scan[p] EXCEPT !.quotes = qs]
             l == [loop[p] EXCEPT !.at = "opportunities", !.quoteCount = n]
  <2>1. loop[p].at = "quotes" /\ scan[p].status = "running" /\ scan[p].started = tick[p].now
        /\ tick[p].at = "report" /\ scan[p].coverage = DOMAIN qs
    BY <1>1, <1>5 DEF SaveQuotes, StageOf, StoredOf
  <2>2. \A o \in DOMAIN qs : FreshAt(o, qs[o], scan[p].started)
    BY <2>1, ReportIsFresh
  <2>3. n = Cardinality(DOMAIN qs) /\ n \in Nat
    BY ReportTypes
  <2> HIDE DEF qs, n
  <2>4. /\ s.coverage = scan[p].coverage /\ s.status = scan[p].status /\ s.quotes = qs
        /\ s.opportunities = scan[p].opportunities /\ s.started = scan[p].started
        /\ l.at = "opportunities" /\ l.quoteCount = n
        /\ l.opportunityCount = loop[p].opportunityCount
    BY <1>1 DEF Scans, Loops
  <2> HIDE DEF s, l
  <2>5. scan'[p] = s /\ loop'[p] = l
    BY <1>1, <1>5 DEF SaveQuotes, Store, s, l, qs, n
  <2> QED
    BY <2>1, <2>2, <2>3, <2>4, <2>5 DEF StoredOf, FreshAt
<1>6. CASE \E n \in {0, 1} : SaveOpportunities(p, n)
  <2>0. PICK n \in {0, 1} : SaveOpportunities(p, n)
    BY <1>6
  <2> DEFINE s == [scan[p] EXCEPT !.opportunities = n]
             l == [loop[p] EXCEPT !.at = "signals", !.opportunityCount = n]
  <2>1. loop[p].at = "opportunities" /\ scan[p].status = "running"
    BY <1>1, <2>0 DEF SaveOpportunities, StageOf
  <2>2. /\ s.coverage = scan[p].coverage /\ s.status = scan[p].status /\ s.quotes = scan[p].quotes
        /\ s.opportunities = n /\ s.started = scan[p].started
        /\ l.at = "signals" /\ l.quoteCount = loop[p].quoteCount /\ l.opportunityCount = n
    BY <1>1 DEF Scans, Loops
  <2> HIDE DEF s, l
  <2>3. scan'[p] = s /\ loop'[p] = l
    BY <1>1, <2>0 DEF SaveOpportunities, Store, s, l
  <2> QED
    BY <1>1, <2>1, <2>2, <2>3 DEF StoredOf, FreshAt
<1>7. CASE SaveSignals(p)
  <2> DEFINE s == [scan[p] EXCEPT !.signals = TRUE]
             l == [loop[p] EXCEPT !.at = "complete"]
  <2>1. loop[p].at = "signals" /\ scan[p].status = "running"
    BY <1>1, <1>7 DEF SaveSignals, StageOf
  <2>2. /\ s.coverage = scan[p].coverage /\ s.status = scan[p].status /\ s.quotes = scan[p].quotes
        /\ s.opportunities = scan[p].opportunities /\ s.started = scan[p].started /\ s.signals
        /\ l.at = "complete" /\ l.quoteCount = loop[p].quoteCount
        /\ l.opportunityCount = loop[p].opportunityCount
    BY <1>1 DEF Scans, Loops
  <2> HIDE DEF s, l
  <2>3. scan'[p] = s /\ loop'[p] = l
    BY <1>1, <1>7 DEF SaveSignals, Store, Goto, s, l
  <2> QED
    BY <1>1, <2>1, <2>2, <2>3 DEF StoredOf, FreshAt
<1>8. ASSUME NEW status \in {"ok", "error"}, Finish(p, status), loop'[p].at \in {"sleep", "ended"},
             loop[p].at \in {"complete", "fail"}, status = "ok" => loop[p].at = "complete"
      PROVE  StoredOf(p)'
  <2> DEFINE s == [scan[p] EXCEPT !.status = status, !.quoteCount = loop[p].quoteCount,
                                  !.opportunityCount = loop[p].opportunityCount]
  <2>1. /\ s.coverage = scan[p].coverage /\ s.status = status /\ s.quotes = scan[p].quotes
        /\ s.opportunities = scan[p].opportunities /\ s.started = scan[p].started
        /\ s.signals = scan[p].signals
        /\ s.quoteCount = loop[p].quoteCount /\ s.opportunityCount = loop[p].opportunityCount
    BY <1>1 DEF Scans, Loops
  <2> HIDE DEF s
  <2>2. scan'[p] = s
    BY <1>1, <1>8 DEF Finish, s
  <2> QED
    BY <1>8, <2>1, <2>2 DEF StoredOf, FreshAt
<1>9. CASE Complete(p)
  <2>1. loop'[p].at = "sleep"
    BY <1>1, <1>9 DEF Complete, Sleeping
  <2> QED
    BY <1>8, <1>9, <2>1 DEF Complete
<1>10. CASE Fail(p)
  <2>1. loop'[p].at = "ended"
    BY <1>1, <1>10 DEF Fail, End, Sleeping
  <2> QED
    BY <1>8, <1>10, <2>1 DEF Fail, StatusOfFailure
<1>11. CASE Raise(p)
  <2>1. /\ loop' = [loop EXCEPT ![p].at = "fail"] /\ scan' = scan
        /\ loop[p].at \notin {"sleep", "ended"}
    BY <1>11 DEF Raise, Goto
  <2>2. /\ loop'[p].at = "fail" /\ loop'[p].quoteCount = loop[p].quoteCount
        /\ loop'[p].opportunityCount = loop[p].opportunityCount
    BY <1>1, <2>1 DEF Loops
  <2>3. scan[p].status = "running"
    BY <1>1, <2>1 DEF StageOf
  <2> QED
    BY <2>1, <2>2, <2>3 DEF StoredOf
<1>12. CASE Kill(p)
  <2>1. /\ loop'[p].at = "ended" /\ scan' = scan /\ loop[p].at \notin {"sleep", "ended"}
    BY <1>1, <1>12 DEF Kill, End, Sleeping
  <2>2. scan[p].status = "running"
    BY <1>1, <2>1 DEF StageOf
  <2> QED
    BY <2>1, <2>2 DEF StoredOf
<1>13. CASE \E part \in SUBSET DOMAIN ReportedQuotes(p) : RaiseInserting(p, part)
  <2>0. PICK part \in SUBSET DOMAIN ReportedQuotes(p) : RaiseInserting(p, part)
    BY <1>13
  <2> DEFINE qs == [o \in part |-> ReportedQuotes(p)[o]]
  <2>1. /\ loop[p].at \in {"fetch", "quotes"} /\ scan[p].status = "running"
    BY <1>1, <2>0 DEF RaiseInserting, StageOf
  <2>2. qs \in Quotes
    BY ReportTypes
  <2>3. CASE /\ scan' = [scan EXCEPT ![p].coverage = part]
             /\ loop' = [loop EXCEPT ![p].at = "fail"]
    <3>1. /\ loop'[p].at = "fail" /\ loop'[p].quoteCount = loop[p].quoteCount
          /\ loop'[p].opportunityCount = loop[p].opportunityCount
          /\ scan'[p].status = scan[p].status /\ scan'[p].quotes = scan[p].quotes
          /\ scan'[p].opportunities = scan[p].opportunities
      BY <1>1, <2>3 DEF Loops, Scans
    <3> QED
      BY <2>1, <3>1 DEF StoredOf
  <2> HIDE DEF qs
  <2>4. CASE /\ scan' = [scan EXCEPT ![p].quotes = qs]
             /\ loop' = [loop EXCEPT ![p].at = "fail", ![p].quoteCount = 0]
    <3>1. /\ loop'[p].at = "fail" /\ loop'[p].quoteCount = 0
          /\ loop'[p].opportunityCount = loop[p].opportunityCount
          /\ scan'[p].status = scan[p].status /\ scan'[p].quotes = qs
          /\ scan'[p].opportunities = scan[p].opportunities
      BY <1>1, <2>4 DEF Loops, Scans
    <3>2. Cardinality(DOMAIN qs) \in Nat
      BY <2>2, CountsAreNumbers
    <3> QED
      BY <2>1, <3>1, <3>2 DEF StoredOf
  <2> QED
    BY <2>0, <2>3, <2>4 DEF RaiseInserting, Store, Goto, CountOnError, qs
<1> QED
  BY <1>2, <1>3, <1>4, <1>5, <1>6, <1>7, <1>9, <1>10, <1>11, <1>12, <1>13 DEF Turn, Cycle, Fault

\* Nothing is stored at first.
LEMMA ScanInit == Init => ScanInv
<1> SUFFICES ASSUME Init, NEW p \in Procs PROVE FreshCache(p) /\ StoredOf(p)
  BY DEF ScanInv
<1>1. tick[p].at = "idle" /\ scan[p] = Scan /\ loop[p] = Sleeping
  BY RestingTypes DEF Init, SchedulerInit
<1>2. Scan.status = "running" /\ Sleeping.at = "sleep"
  BY DEF Scan, Sleeping
<1> QED
  BY <1>1, <1>2 DEF FreshCache, StoredOf

\* Every step of any process stores what it counts.
LEMMA ScanStep == TypeInv /\ ScanInv /\ [Next]_vars => ScanInv'
<1> SUFFICES ASSUME TypeInv, ScanInv, [Next]_vars, NEW q \in Procs
             PROVE  FreshCache(q)' /\ StoredOf(q)'
  BY DEF ScanInv
<1>1. TypeInv'
  BY TypeStep
<1>2. FreshCache(q) /\ StoredOf(q)
  BY DEF ScanInv
<1>3. ASSUME tick'[q] = tick[q], cache'[q] = cache[q], scan'[q] = scan[q], loop'[q] = loop[q]
      PROVE  FreshCache(q)' /\ StoredOf(q)'
  <2>1. ReportedQuotes(q)' = ReportedQuotes(q)
    BY <1>3 DEF ReportedQuotes
  <2> QED
    BY <1>2, <1>3, <2>1 DEF FreshCache, Fresh, StoredOf, FreshAt
<1>4. ASSUME NEW p \in fleet, Turn(p) PROVE FreshCache(q)' /\ StoredOf(q)'
  <2>1. p \in Procs
    BY FleetTypes
  <2>2. CASE q = p
    BY <1>1, <1>2, <1>4, <2>2, FreshTurn, StoredTurn
  <2>3. CASE q # p
    <3>1. tick'[q] = tick[q] /\ cache'[q] = cache[q] /\ scan'[q] = scan[q] /\ loop'[q] = loop[q]
      BY <1>4, <2>1, <2>3, TypeTurn DEF CycleMoves, TickMoves
    <3> QED
      BY <1>3, <3>1
  <2> QED
    BY <2>2, <2>3
<1>5. CASE TimePasses \/ UNCHANGED vars
  BY <1>3, <1>5 DEF TimePasses, PassTime, vars, schedulerVars, shadowVars
<1> QED
  BY <1>4, <1>5, StepsOfNext

\* A scan that a replay reads, one with status 'ok', is whole, wherever processes
\* were killed and whatever raised between the commits of its parts.
THEOREM ReplaysWholeScans == Spec => []ReplayableIsWhole
<1>1. ScanInv => ReplayableIsWhole
  BY DEF ScanInv, StoredOf, ReplayableIsWhole, Ok
<1> QED
  BY <1>1, TypeInit, TypeStep, ScanInit, ScanStep, PTL DEF Spec

\* A scan that failed never claims more rows than it has stored, though rows are
\* committed before they are counted and an error may cut their insertion short.
THEOREM ReceiptsAreModest == Spec => []ReceiptNeverOverstates
<1>1. ScanInv => ReceiptNeverOverstates
  BY DEF ScanInv, StoredOf, ReceiptNeverOverstates
<1> QED
  BY <1>1, TypeInit, TypeStep, ScanInit, ScanStep, PTL DEF Spec

\* The scans a coverage-aware back-test selects quote as many operators as it asks
\* for, with quotes that were fresh when the scan was made.
THEOREM CoverageIsFresh == Spec => []CoverageVouches
<1>1. ScanInv => CoverageVouches
  <2> SUFFICES ASSUME ScanInv, NEW p \in Procs, Eligible(scan[p])
               PROVE  Cardinality({ o \in DOMAIN scan[p].quotes :
                        FreshAt(o, scan[p].quotes[o], scan[p].started) }) >= MinCovered
    BY DEF CoverageVouches
  <2>1. /\ scan[p].coverage = DOMAIN scan[p].quotes
        /\ \A o \in DOMAIN scan[p].quotes : FreshAt(o, scan[p].quotes[o], scan[p].started)
    BY DEF ScanInv, StoredOf, Eligible, Ok
  <2>2. { o \in DOMAIN scan[p].quotes :
            FreshAt(o, scan[p].quotes[o], scan[p].started) } = scan[p].coverage
    BY <2>1
  <2> QED
    BY <2>2, Zenon DEF Eligible
<1> QED
  BY <1>1, TypeInit, TypeStep, ScanInit, ScanStep, PTL DEF Spec

---------------------------------------------------------------------------
(* The budgets of a process by itself                                      *)

\* The terms of an account are numbers.
LEMMA AccountTypes ==
  ASSUME TypeInv, NEW p \in Procs, NEW s \in Feeds
  PROVE  /\ tick[p].now \in -1..MaxClock /\ faults \in Nat
         /\ Standing(p, s).calls \in Nat /\ Standing(p, s).units \in Nat
         /\ Owed(p, s) \in {0, 1} /\ Policy[s].units \in Nat
         /\ \A d \in Days : calls[s][d] \in Nat
         /\ \A m : Spent(s, DaysOf(m)) \in Nat
<1>1. tick[p].now \in -1..MaxClock /\ faults \in Nat
  BY DEF TypeInv, SchedulerShapes, ShadowShapes, Ticks
<1>2. tick[p].now \in Int
  BY <1>1, Constants
<1>3. Standing(p, s) \in States
  BY <1>2, StateTypes DEF Standing
<1>4. \A m : Spent(s, DaysOf(m)) \in Nat
  BY DayTypes, SpentTypes
<1>5. \A d \in Days : calls[s][d] \in Nat
  BY DEF TypeInv, SchedulerShapes
<1> QED
  BY <1>1, <1>3, <1>4, <1>5, Constants DEF States, Owed

\* An account outlives a step without calls: k calls owed are recorded, and what
\* else was owed is owed still or a fault.
LEMMA AccountStays ==
  ASSUME TypeInv, TypeInv', NEW p \in Procs, NEW s \in Feeds, Account(p, s),
         calls' = calls, tick'[p].now = tick[p].now, NEW k \in {0, 1},
         (Standing(p, s).calls)' = Standing(p, s).calls + k,
         (Standing(p, s).units)' = Standing(p, s).units + k * Policy[s].units,
         Owed(p, s)' + faults' + k >= Owed(p, s) + faults,
         Due(p, s)' => CanSpend(s, Standing(p, s))'
  PROVE  Account(p, s)'
<1> DEFINE now == tick[p].now
           st == Standing(p, s)
           u == Policy[s].units
<1>1. /\ now \in -1..MaxClock /\ faults \in Nat /\ Owed(p, s) \in {0, 1}
      /\ st.calls \in Nat /\ st.units \in Nat /\ u \in Nat
      /\ \A d \in Days : calls[s][d] \in Nat
      /\ \A m : Spent(s, DaysOf(m)) \in Nat
  BY AccountTypes
<1>2. faults' \in Nat /\ Owed(p, s)' \in {0, 1} /\ (st.calls)' \in Nat
  BY <1>1 DEF TypeInv, ShadowShapes, Owed
<1>3. now >= 0 => Day(now) \in Days
  <2>1. \A t \in -1..MaxClock : t >= 0 => Day(t) \in Days
    <3>1. \A t \in -1..MaxClock : t >= 0 => t \in 0..MaxClock
      BY Constants
    <3> QED
      BY <3>1, DayTypes
  <2> HIDE DEF now
  <2> QED
    BY <1>1, <2>1
<1>4. \A d \in Days : d > Day(now) => calls[s][d] = 0
  BY DEF Account
<1>5. now >= 0 => calls[s][Day(now)] <= st.calls + Owed(p, s) + faults
  BY DEF Account, Standing
<1>6. now >= 0 => calls[s][Day(now)] <= (st.calls)' + Owed(p, s)' + faults'
  BY <1>1, <1>2, <1>3, <1>5
<1>7. ASSUME now >= 0
      PROVE  \E n \in Nat : /\ (st.units)' = u * n
                            /\ Spent(s, DaysOf(Month(now))) <= n + Owed(p, s)' + faults'
  <2>1. PICK n \in Nat : /\ st.units = u * n
                         /\ Spent(s, DaysOf(Month(now))) <= n + Owed(p, s) + faults
    BY <1>7 DEF Account, Standing
  <2> DEFINE spent == Spent(s, DaysOf(Month(now)))
             owed == Owed(p, s)' 
  <2>2. spent \in Nat /\ owed \in Int
    BY <1>1, <1>2
  <2>3. (st.units)' = u * (n + k)
    <3>1. u * n + k * u = u * (n + k)
      BY <1>1
    <3> QED
      BY <2>1, <3>1
  <2>4. n + k \in Nat /\ spent <= (n + k) + owed + faults'
    <3> HIDE DEF spent
    <3> QED
      BY <1>1, <1>2, <2>1, <2>2 DEF spent
  <2> QED
    BY <2>3, <2>4
<1>8. /\ Standing(p, s)' = State(s, now)' /\ now' = now
      /\ \A m : Spent(s, DaysOf(m))' = Spent(s, DaysOf(m))
  BY DEF Standing, Spent
<1> HIDE DEF now, st, u
<1>9. \A d \in Days : d > Day(now)' => calls'[s][d] = 0
  BY <1>4, <1>8 DEF Day
<1> QED
  BY <1>6, <1>7, <1>8, <1>9 DEF Account, Standing, now, st, u

\* A call, for which there was budget when its source was looked at, keeps the
\* account of its source.
LEMMA AccountOfCall ==
  ASSUME TypeInv, TypeInv', NEW p \in Procs, NEW s \in Feeds, NEW ok \in BOOLEAN,
         FetchOne(p, s, ok), loop[p].at = "fetch", UNCHANGED shadowVars, Account(p, s)
  PROVE  Account(p, s)'
<1> DEFINE now == tick[p].now
           d == Day(now)
           D == DaysOf(Month(now))
           st == Standing(p, s)
           u == Policy[s].units
<1>1. /\ now \in 0..MaxClock /\ tick'[p].now = now /\ ledger' = ledger
      /\ tick[p].at = "fetch" /\ tick'[p].at = "fetch"
      /\ s \in tick[p].due /\ tick'[p].due = tick[p].due
      /\ loop' = loop /\ faults' = faults /\ faults \in Nat
  BY TypeFetchOne, FetchAddsOne DEF FetchOne, shadowVars, TypeInv, ShadowShapes
<1>2. Owed(p, s) = 0 /\ Owed(p, s)' = 1
  BY <1>1, FetchAddsOne DEF Owed
<1>3. st' = st /\ now' = now
  BY <1>1 DEF Standing, State
<1>4. st.calls \in Nat /\ \A m : Spent(s, DaysOf(m)) \in Nat
  BY AccountTypes
<1>5. d \in D /\ D \in SUBSET Days /\ \A x \in Days : calls[s][x] \in Nat
  BY <1>1, DayIsInItsMonth, DayTypes, AccountTypes
<1>6. /\ Spent(s, D)' = Spent(s, D) + 1
      /\ \A x \in Days : calls'[s][x] = IF x = d THEN calls[s][x] + 1 ELSE calls[s][x]
  <2>1. PICK R \in SUBSET Days : R = D
    BY <1>5
  <2>2. Spent(s, R)' = Spent(s, R) + 1
    BY <1>5, <2>1, SpentOfCall
  <2>3. D' = R
    BY <1>1, <2>1
  <2> QED
    BY <2>1, <2>2, <2>3, SpentOfCall DEF Spent
<1>7. /\ \A x \in Days : x > d => calls[s][x] = 0
      /\ calls[s][d] <= st.calls + 0 + faults
      /\ \E n \in Nat : st.units = u * n /\ Spent(s, D) <= n + 0 + faults
      /\ CanSpend(s, st)
  <2>1. now >= 0
    BY <1>1
  <2>2. Due(p, s)
    BY <1>1 DEF Due
  <2> QED
    BY <1>2, <2>1, <2>2 DEF Account, Standing
<1>8. d' = d /\ D' = D /\ d \in Int
  BY <1>1, DayTypes
<1> HIDE DEF now, d, D, st, u
<1>9. \A x \in Days : x > d => calls'[s][x] = 0
  BY <1>6, <1>7, <1>8, DayTypes
<1>10. calls'[s][d] <= st.calls + 1 + faults
  BY <1>1, <1>4, <1>5, <1>6, <1>7
<1>11. \E n \in Nat : st.units = u * n /\ Spent(s, D)' <= n + 1 + faults
  <2>1. PICK n \in Nat : st.units = u * n /\ Spent(s, D) <= n + 0 + faults
    BY <1>7
  <2>2. Spent(s, D) \in Nat
    BY <1>4 DEF D
  <2>3. Spent(s, D)' <= n + 1 + faults
    BY <1>1, <1>6, <2>1, <2>2
  <2> QED
    BY <2>1, <2>3
<1> QED
  BY <1>1, <1>2, <1>3, <1>7, <1>8, <1>9, <1>10, <1>11 DEF Account, CanSpend, DayIsSpent, MonthIsSpent,
     Standing, now, d, D, st, u

\* It keeps the budgets too.
LEMMA BudgetsOfCall ==
  ASSUME TypeInv, NEW p \in Procs, NEW s \in Feeds, NEW ok \in BOOLEAN,
         FetchOne(p, s, ok), loop[p].at = "fetch", UNCHANGED shadowVars, Account(p, s),
         OnItsOwn, BudgetsKept
  PROVE  BudgetsKept'
<1> DEFINE now == tick[p].now
           u == Policy[s].units
           st == Standing(p, s)
<1>1. /\ now \in 0..MaxClock /\ tick[p].at = "fetch" /\ s \in tick[p].due
      /\ faults' = faults /\ faults \in Nat
  BY TypeFetchOne, FetchAddsOne DEF FetchOne, shadowVars, TypeInv, ShadowShapes
<1>2. Owed(p, s) = 0
  BY FetchAddsOne DEF Owed
<1>3. /\ st.calls \in Nat /\ st.units \in Nat /\ u \in Nat
      /\ \A m : Spent(s, DaysOf(m)) \in Nat
      /\ \A x \in Days : calls[s][x] \in Nat
  BY AccountTypes
<1>4. Day(now) \in Days /\ Day(now) \in DaysOf(Month(now)) /\ \A m : DaysOf(m) \in SUBSET Days
  BY <1>1, DayIsInItsMonth, DayTypes
<1>5. /\ calls[s][Day(now)] <= st.calls + 0 + faults
      /\ \E n \in Nat : st.units = u * n /\ Spent(s, DaysOf(Month(now))) <= n + 0 + faults
      /\ CanSpend(s, st)
  <2>1. now >= 0
    BY <1>1
  <2>2. Due(p, s)
    BY <1>1 DEF Due
  <2> QED
    BY <1>2, <2>1, <2>2 DEF Account, Standing
<1>6. /\ \A f \in Feeds \ {s} : calls'[f] = calls[f] /\ \A m : Spent(f, DaysOf(m))' = Spent(f, DaysOf(m))
      /\ \A x \in Days : calls'[s][x] = IF x = Day(now) THEN calls[s][x] + 1 ELSE calls[s][x]
      /\ \A m : Spent(s, DaysOf(m))' =
                  IF Day(now) \in DaysOf(m) THEN Spent(s, DaysOf(m)) + 1 ELSE Spent(s, DaysOf(m))
  BY <1>4, SpentOfCall
<1>7. Policy[s].dayLimit \in Nat \cup {None} /\ Policy[s].monthLimit \in Nat \cup {None}
  BY Constants
<1>8. ASSUME Policy[s].dayLimit # None, NEW x \in Days
      PROVE  calls'[s][x] <= Policy[s].dayLimit + faults
  <2>1. calls[s][x] <= Policy[s].dayLimit + faults
    BY <1>8 DEF BudgetsKept
  <2>2. st.calls + 1 <= Policy[s].dayLimit
    <3>1. ~ (st.calls >= Policy[s].dayLimit)
      BY <1>5, <1>8 DEF CanSpend, DayIsSpent
    <3> HIDE DEF st
    <3> QED
      BY <1>3, <1>7, <1>8, <3>1
  <2> QED
    BY <1>1, <1>3, <1>4, <1>5, <1>6, <1>7, <1>8, <2>1, <2>2
<1>9. ASSUME Policy[s].monthLimit # None, NEW x \in Days
      PROVE  u * Spent(s, DaysOf(Month(x * DayLength)))' <= Policy[s].monthLimit + faults * u
  <2> DEFINE D == DaysOf(Month(x * DayLength))
             limit == Policy[s].monthLimit
  <2>1. u * Spent(s, D) <= limit + faults * u
    BY <1>9 DEF BudgetsKept
  <2>2. CASE Day(now) \notin D
    BY <1>6, <2>1, <2>2
  <2>3. CASE Day(now) \in D
    <3>1. D = DaysOf(Month(now))
      BY <1>4, <2>3 DEF DaysOf
    <3>2. PICK n \in Nat : st.units = u * n /\ Spent(s, D) <= n + 0 + faults
      BY <1>5, <3>1
    <3>3. st.units + u <= limit
      <4>1. ~ (st.units + u > limit)
        BY <1>5, <1>9 DEF CanSpend, MonthIsSpent
      <4> HIDE DEF st
      <4> QED
        BY <1>3, <1>7, <1>9, <4>1
    <3> DEFINE spent == Spent(s, D)
               a == spent + 1
               b == n + 1 + faults
    <3>4. spent' = a /\ spent \in Nat
      BY <1>3, <1>6, <2>3
    <3> HIDE DEF spent
    <3>5. a \in Int /\ b \in Int /\ a <= b
      BY <1>1, <3>2, <3>4 DEF spent
    <3> HIDE DEF a
    <3>6. u * b = u * n + u + faults * u
      BY <1>1, <1>3
    <3>7. u * n \in Int /\ faults * u \in Int /\ limit \in Int /\ u * a \in Int
      BY <1>1, <1>3, <1>7, <1>9, <3>5
    <3> HIDE DEF b, u, limit
    <3>8. u * a <= u * b
      BY <1>3, <3>5, ProductGrows
    <3>9. u * a <= limit + faults * u
      BY <1>3, <3>2, <3>3, <3>6, <3>7, <3>8
    <3> QED
      BY <3>4, <3>9 DEF spent, limit, u
  <2> QED
    BY <2>2, <2>3
<1> QED
  BY <1>1, <1>6, <1>8, <1>9 DEF BudgetsKept

\* A tick that begins on a later day, or in a later month, finds no calls made of
\* it; the row of an earlier one still tells of its day and month.
LEMMA AccountOfNewTick ==
  ASSUME TypeInv, TypeInv', HonestInv, NEW p \in Procs, NEW s \in Feeds,
         BeginTick(p), loop[p].at # "fetch", UNCHANGED faults, Account(p, s)
  PROVE  Account(p, s)'
<1> DEFINE old == tick[p].now
           st == State(s, clock)
           u == Policy[s].units
<1>1. old \in -1..MaxClock /\ old \in Int /\ clock \in 0..MaxClock /\ clock \in Int /\ clock > old
  BY Constants DEF BeginTick, TypeInv, SchedulerShapes, Ticks
<1>2. /\ tick'[p].now = clock /\ Due(p, s)' = FALSE
      /\ ledger' = ledger /\ calls' = calls /\ faults' = faults
  <2> DEFINE t == [Resting EXCEPT !.at = "check", !.now = clock]
  <2>1. clock \in -1..MaxClock
    BY Constants DEF TypeInv, SchedulerShapes
  <2>2. t.due = {} /\ t.now = clock
    BY <2>1, RestingTypes
  <2> HIDE DEF t
  <2>3. tick'[p] = t
    BY DEF BeginTick, TypeInv, SchedulerShapes, t
  <2> QED
    BY <2>2, <2>3 DEF BeginTick, Due
<1>3. Owed(p, s) = 0 /\ Owed(p, s)' \in {0, 1} /\ faults \in Nat
  BY DEF Owed, TypeInv, ShadowShapes
<1>4. /\ Day(old) \in Int /\ Day(clock) \in Days /\ Day(clock) \in Int
      /\ Day(old) <= Day(clock) /\ Month(old) \in Int /\ Month(clock) \in Int
      /\ Month(old) <= Month(clock) /\ Days \subseteq Int
  <2>1. Day(old) <= Day(clock) /\ Month(old) <= Month(clock)
    <3>1. old <= clock /\ DayLength \in Nat \ {0} /\ MonthLength \in Nat \ {0}
      BY <1>1, Constants
    <3> HIDE DEF old
    <3> QED
      BY <1>1, <3>1, QuotientGrows DEF Day, Month
  <2> HIDE DEF old
  <2> QED
    BY <1>1, <2>1, DayTypes
<1>5. /\ st.calls \in Nat /\ \A d \in Days : calls[s][d] \in Nat
      /\ \A m : Spent(s, DaysOf(m)) \in Nat
  <2>1. st \in States
    BY <1>1, StateTypes
  <2> QED
    BY <2>1, AccountTypes DEF States
<1>6. /\ \A d \in Days : d > Day(old) => calls[s][d] = 0
      /\ old >= 0 => /\ calls[s][Day(old)] <= State(s, old).calls + 0 + faults
                     /\ \E n \in Nat : /\ State(s, old).units = u * n
                                       /\ Spent(s, DaysOf(Month(old))) <= n + 0 + faults
  BY <1>3 DEF Account
<1>7. old < 0 => Day(old) < 0 /\ Month(old) < 0
  <2> HIDE DEF old
  <2>1. ASSUME old < 0, NEW n \in Nat \ {0} PROVE old \div n < 0
    <3>1. old \div n <= (-1) \div n
      BY <1>1, <2>1, QuotientGrows
    <3>2. (-1) \div n = -1
      <4>1. n * (-1) <= -1 /\ -1 < n * ((-1) + 1)
        OBVIOUS
      <4> QED
        BY <4>1, QuotientIsUnique
    <3>3. old \div n \in Int
      BY <1>1, Quotient
    <3> QED
      BY <3>1, <3>2, <3>3
  <2> QED
    BY <2>1, Constants DEF Day, Month
<1>8. Day(clock) >= 0 /\ Month(clock) >= 0
  BY <1>1, DayTypes
<1>9. calls[s][Day(clock)] <= st.calls + faults
  <2>1. CASE Day(clock) > Day(old)
    <3>1. calls[s][Day(clock)] = 0
      BY <1>4, <1>6, <2>1
    <3> QED
      BY <1>3, <1>5, <3>1
  <2>2. CASE Day(clock) = Day(old)
    <3>1. old >= 0
      <4> HIDE DEF old
      <4>1. ~ (old < 0)
        BY <1>4, <1>7, <1>8, <2>2
      <4> QED
        BY <1>1, <4>1
    <3>2. State(s, old).calls = st.calls
      BY <2>2 DEF State
    <3> QED
      BY <1>3, <1>5, <1>6, <2>2, <3>1, <3>2
  <2> QED
    BY <1>4, <2>1, <2>2
<1>10. \E n \in Nat : st.units = u * n /\ Spent(s, DaysOf(Month(clock))) <= n + faults
  <2>1. CASE Month(clock) > Month(old)
    <3> DEFINE D == DaysOf(Month(clock))
    <3>1. \A d \in D : calls[s][d] = 0
      <4>1. \A d \in D : d > Day(old) /\ d \in Days
        <5> HIDE DEF old
        <5> QED
          BY <1>1, <1>4, <2>1, LaterMonths, DayTypes
      <4> QED
        BY <1>6, <4>1
    <3>2. IsFiniteSet(D) /\ Cardinality(D) \in Nat
      BY DayTypes, FS_CardinalityType
    <3>3. Spent(s, D) <= Cardinality(D) * 0
      <4> DEFINE f == calls[s]
      <4>1. \A d \in D : f[d] \in Int /\ f[d] <= 0
        BY <3>1
      <4> HIDE DEF f, D
      <4>2. SumFunctionOnSet(f, D) <= Cardinality(D) * 0
        BY <3>2, <4>1, SumBounded
      <4> QED
        BY <4>2 DEF f, Spent
    <3>4. Spent(s, D) <= 0
      BY <3>2, <3>3
    <3>5. PICK n \in Nat : st.units = u * n
      BY <1>1, HonestReading DEF Honest
    <3>6. Spent(s, D) <= n + faults
      BY <1>3, <1>5, <3>4
    <3> QED
      BY <3>5, <3>6
  <2>2. CASE Month(clock) = Month(old)
    <3>1. old >= 0
      <4> HIDE DEF old
      <4>1. ~ (old < 0)
        BY <1>4, <1>7, <1>8, <2>2
      <4> QED
        BY <1>1, <4>1
    <3>2. State(s, old).units = st.units
      BY <2>2 DEF State
    <3>3. PICK n \in Nat : /\ State(s, old).units = u * n
                           /\ Spent(s, DaysOf(Month(old))) <= n + 0 + faults
      BY <1>6, <3>1
    <3>4. Spent(s, DaysOf(Month(clock))) <= n + faults
      BY <1>3, <2>2, <3>3
    <3> QED
      BY <3>2, <3>3, <3>4
  <2> QED
    BY <1>4, <2>1, <2>2
<1>11. \A d \in Days : d > Day(clock) => calls[s][d] = 0
  BY <1>4, <1>6
<1>12. /\ calls[s][Day(clock)] <= st.calls + Owed(p, s)' + faults
       /\ \E n \in Nat : st.units = u * n /\ Spent(s, DaysOf(Month(clock))) <= n + Owed(p, s)' + faults
  <2>1. calls[s][Day(clock)] <= st.calls + Owed(p, s)' + faults
    BY <1>3, <1>4, <1>5, <1>9
  <2>2. PICK n \in Nat : st.units = u * n /\ Spent(s, DaysOf(Month(clock))) <= n + faults
    BY <1>10
  <2>3. Spent(s, DaysOf(Month(clock))) <= n + Owed(p, s)' + faults
    BY <1>3, <1>5, <2>2
  <2> QED
    BY <2>1, <2>2, <2>3
<1>13. PICK now \in Int : now = clock
  BY <1>1
<1>14. State(s, now)' = st /\ \A m : Spent(s, DaysOf(m))' = Spent(s, DaysOf(m))
  BY <1>2, <1>13 DEF State, Spent
<1> HIDE DEF st, u, old
<1> QED
  BY <1>2, <1>11, <1>12, <1>13, <1>14 DEF Account, u

\* A step that neither begins a tick nor goes on with one leaves the ledger and the
\* calls alone, and a call that it leaves unrecorded is a fault.
LEMMA LostCallIsFault ==
  ASSUME TypeInv, NEW p \in Procs, Turn(p), ~ StartScan(p), ~ FetchReport(p), NEW s \in Feeds
  PROVE  /\ tick' = tick \/ EndsTick(p)
         /\ ledger' = ledger /\ calls' = calls
         /\ Owed(p, s)' = 0 /\ Due(p, s)' = FALSE
         /\ faults \in Nat /\ faults' >= faults + Owed(p, s)
<1>1. loop \in [Procs -> Loops] /\ faults \in Nat
  BY DEF TypeInv, ShadowShapes
<1>2. loop'[p].at # "fetch"
  <2>1. Sleeping.at = "sleep" /\ [Sleeping EXCEPT !.at = "ended"].at = "ended"
    BY DEF Sleeping
  <2>2. \A place \in Stages : [loop[p] EXCEPT !.at = place].at = place
    BY <1>1 DEF Loops
  <2>3. CASE SaveReport(p)
    <3>1. loop'[p] = [loop[p] EXCEPT !.at = IF AllFailed(p) THEN "fail" ELSE "quotes"]
      BY <1>1, <2>3 DEF SaveReport, Goto
    <3> QED
      BY <2>2, <3>1 DEF Stages
  <2>4. CASE SaveQuotes(p)
    BY <1>1, <2>4 DEF SaveQuotes, Loops
  <2>5. CASE \E n \in {0, 1} : SaveOpportunities(p, n)
    BY <1>1, <2>5 DEF SaveOpportunities, Loops
  <2>6. CASE SaveSignals(p)
    BY <1>1, <2>6 DEF SaveSignals, Goto, Loops
  <2>7. CASE Complete(p) \/ Restart(p) \/ Fail(p) \/ Kill(p)
    BY <1>1, <2>1, <2>7 DEF Complete, Restart, Fail, Kill, End
  <2>8. CASE Raise(p)
    BY <1>1, <2>8 DEF Raise, Goto, Loops
  <2>9. ASSUME NEW part, RaiseInserting(p, part) PROVE loop'[p].at # "fetch"
    BY <1>1, <2>9 DEF RaiseInserting, Goto, Loops
  <2> QED
    BY <2>3, <2>4, <2>5, <2>6, <2>7, <2>8, <2>9 DEF Turn, Cycle, Fault
<1>3. Owed(p, s)' = 0 /\ Due(p, s)' = FALSE
  BY <1>2 DEF Owed, Due
<1>4. (tick' = tick \/ EndsTick(p)) /\ ledger' = ledger /\ calls' = calls
  <2>1. CASE Cycle(p)
    BY <2>1 DEF Cycle, SaveReport, SaveQuotes, SaveOpportunities, SaveSignals, Complete, Fail,
                End, EndsTick, schedulerVars
  <2>2. CASE Restart(p)
    BY <2>2 DEF Restart, schedulerVars
  <2>3. CASE Fault(p)
    BY <2>3 DEF Fault, Raise, Kill, RaiseInserting, End, EndsTick, schedulerVars
  <2> QED
    BY <2>1, <2>2, <2>3 DEF Turn
<1>5. faults' >= faults + Owed(p, s)
  <2>1. Owed(p, s) \in {0, 1}
    BY DEF Owed
  <2>2. CASE Fault(p)
    BY <1>1, <2>1, <2>2, TypeFault
  <2>3. CASE ~ Fault(p)
    <3>1. faults' = faults
      BY <2>3 DEF Turn, Cycle, SaveReport, SaveQuotes, SaveOpportunities, SaveSignals, Complete,
                  Fail, Restart
    <3>2. loop[p].at # "fetch" \/ tick[p].at = "report"
      BY <2>3 DEF Turn, Cycle, SaveReport, SaveQuotes, SaveOpportunities, SaveSignals, Complete,
                  Fail, Restart
    <3>3. Owed(p, s) = 0
      BY <3>2, NothingUnrecorded DEF Owed
    <3> QED
      BY <1>1, <3>1, <3>3
  <2> QED
    BY <2>2, <2>3
<1> QED
  BY <1>1, <1>3, <1>4, <1>5

\* With no one to write between its read and its write, a process holds what the
\* row still says.
LEMMA ReadTurn ==
  ASSUME TypeInv, TypeInv', NEW p \in Procs, Turn(p), ReadsTheRow(p)
  PROVE  ReadsTheRow(p)'
<1>1. ASSUME tick'[p].at \in {"block", "write"}, ledger' = ledger,
             Current(p)' = Current(p), tick'[p].now = tick[p].now,
             tick'[p].read = Standing(p, Current(p))
      PROVE  ReadsTheRow(p)'
  BY <1>1 DEF ReadsTheRow, Standing, State
<1>2. ASSUME tick' = tick, ledger' = ledger PROVE ReadsTheRow(p)'
  BY <1>2 DEF ReadsTheRow, Standing, State, Current
<1>3. ASSUME tick'[p].at \notin {"block", "write"} PROVE ReadsTheRow(p)'
  BY <1>3 DEF ReadsTheRow
<1>4. CASE StartScan(p)
  <2> DEFINE t == [Resting EXCEPT !.at = "check", !.now = clock]
  <2>1. clock \in -1..MaxClock
    BY Constants DEF TypeInv, SchedulerShapes
  <2>2. t.at = "check"
    BY <2>1, RestingTypes
  <2> HIDE DEF t
  <2>3. tick'[p] = t
    BY <1>4 DEF StartScan, BeginTick, TypeInv, SchedulerShapes, t
  <2> QED
    BY <1>3, <2>2, <2>3
<1>5. CASE SkipSource(p) \/ TakeSource(p) \/ RecordBlocked(p)
  BY <1>3, <1>5, TypeCheck, TypeRecordBlocked
<1>6. CASE BlockSource(p)
  <2>1. /\ tick'[p].at = "block" /\ tick'[p].i = tick[p].i /\ tick'[p].now = tick[p].now
        /\ tick'[p].read = State(Current(p), tick[p].now) /\ ledger' = ledger
    BY <1>6, TypeCheck DEF BlockSource
  <2> QED
    BY <1>1, <2>1 DEF Current, Standing
<1>7. CASE \E s \in Feeds, ok \in BOOLEAN : FetchOne(p, s, ok)
  BY <1>3, <1>7, FetchAddsOne
<1>8. CASE \E mode \in Modes : Collect(p, mode)
  BY <1>3, <1>8, TypeCollect
<1>9. CASE ReadLedger(p)
  <2>1. /\ tick'[p].at = "write" /\ tick'[p].i = tick[p].i /\ tick'[p].now = tick[p].now
        /\ tick'[p].read = State(Current(p), tick[p].now) /\ ledger' = ledger
    BY <1>9, TypeReadLedger DEF ReadLedger
  <2> QED
    BY <1>1, <2>1 DEF Current, Standing
<1>10. CASE WriteLedger(p)
  BY <1>3, <1>10, TypeWriteLedger
<1>11. CASE ~ StartScan(p) /\ ~ FetchReport(p)
  <2>1. PICK s \in Feeds : s = Sources[1]
    BY Constants
  <2>2. (tick' = tick \/ EndsTick(p)) /\ ledger' = ledger
    BY <1>11, <2>1, LostCallIsFault
  <2>3. ASSUME EndsTick(p) PROVE tick'[p].at = "idle"
    BY <2>3, TypeRest DEF EndsTick
  <2> QED
    BY <1>2, <1>3, <2>2, <2>3
<1> QED
  BY <1>4, <1>5, <1>6, <1>7, <1>8, <1>9, <1>10, <1>11 DEF FetchReport, Ticking

\* What is read of a row after it is written is what was written: n calls more.
LEMMA StandingAfterWrite ==
  ASSUME TypeInv, TypeInv', NEW p \in Procs, tick[p].read \in States, tick[p].now >= 0,
         NEW f \in Feeds, NEW n \in {0, 1}, NEW due \in Nat, Upsert(p, f, n, due),
         tick'[p].now = tick[p].now, tick[p].read = Standing(p, f)
  PROVE  /\ (Standing(p, f).calls)' = Standing(p, f).calls + n
         /\ (Standing(p, f).units)' = Standing(p, f).units + n * Policy[f].units
         /\ \A s \in Feeds \ {f} : Standing(p, s)' = Standing(p, s)
<1>1. /\ ledger'[f] \in Rows
      /\ ledger'[f].day = Day(tick[p].now) /\ ledger'[f].month = Month(tick[p].now)
      /\ ledger'[f].calls = tick[p].read.calls + n
      /\ ledger'[f].units = tick[p].read.units + n * Policy[f].units
      /\ \A s \in Feeds \ {f} : ledger'[s] = ledger[s]
  BY TypeUpsert
<1>2. ledger'[f] # None
  BY <1>1, NoneAssumption
<1>3. /\ Day(tick[p].now)' = Day(tick[p].now) /\ Month(tick[p].now)' = Month(tick[p].now)
  BY DEF Day, Month
<1>4. /\ (Standing(p, f).calls)' = ledger'[f].calls
      /\ (Standing(p, f).units)' = ledger'[f].units
  BY <1>1, <1>2, <1>3 DEF Standing, State
<1>5. \A s \in Feeds \ {f} : Standing(p, s)' = Standing(p, s)
  BY <1>1, <1>3 DEF Standing, State
<1> QED
  BY <1>1, <1>4, <1>5

\* Every step of a process by itself keeps its accounts.
LEMMA AccountTurn ==
  ASSUME TypeInv, TypeInv', HonestInv, NEW p \in Procs, Turn(p), ReadsTheRow(p),
         NEW s \in Feeds, Account(p, s)
  PROVE  Account(p, s)'
<1>0. /\ tick[p].now \in Int /\ faults \in Nat /\ Owed(p, s) \in {0, 1}
      /\ Standing(p, s).calls \in Nat /\ Standing(p, s).units \in Nat /\ Policy[s].units \in Nat
  BY AccountTypes, Constants
<1>1. ASSUME calls' = calls, ledger' = ledger, tick'[p].now = tick[p].now,
             Owed(p, s)' + faults' >= Owed(p, s) + faults,
             Due(p, s)' => Due(p, s) \/ CanSpend(s, Standing(p, s))
      PROVE  Account(p, s)'
  <2>1. Standing(p, s)' = Standing(p, s)
    BY <1>1 DEF Standing, State, Day, Month
  <2>2. Due(p, s)' => CanSpend(s, Standing(p, s))'
    BY <1>1, <2>1 DEF Account, Standing, CanSpend, DayIsSpent, MonthIsSpent
  <2>3. /\ (Standing(p, s).calls)' = Standing(p, s).calls + 0
        /\ (Standing(p, s).units)' = Standing(p, s).units + 0 * Policy[s].units
    BY <1>0, <2>1
  <2>4. Owed(p, s)' + faults' + 0 >= Owed(p, s) + faults
    <3>1. Owed(p, s)' \in Int /\ faults' \in Int
      BY DEF Owed, TypeInv, ShadowShapes
    <3> QED
      BY <1>0, <1>1, <3>1
  <2> QED
    BY <1>1, <2>2, <2>3, <2>4, AccountStays
<1>2. ASSUME FetchReport(p)
      PROVE  /\ loop[p].at = "fetch" /\ UNCHANGED shadowVars /\ loop' = loop /\ faults' = faults
             /\ Owed(p, s) = (IF s \in Unrecorded(p) THEN 1 ELSE 0)
             /\ Owed(p, s)' = (IF s \in Unrecorded(p)' THEN 1 ELSE 0)
  BY <1>2 DEF FetchReport, shadowVars, Owed
<1>3. CASE StartScan(p)
  BY <1>3, AccountOfNewTick DEF StartScan
<1>4. CASE ~ StartScan(p) /\ ~ FetchReport(p)
  <2>1. /\ tick' = tick \/ EndsTick(p)
        /\ ledger' = ledger /\ calls' = calls
        /\ Owed(p, s)' = 0 /\ Due(p, s)' = FALSE
        /\ faults' >= faults + Owed(p, s)
    BY <1>4, LostCallIsFault
  <2>2. tick'[p].now = tick[p].now
    BY <2>1, TypeRest DEF EndsTick
  <2>3. Owed(p, s)' + faults' >= Owed(p, s) + faults
    <3>1. faults' \in Int
      BY DEF TypeInv, ShadowShapes
    <3> QED
      BY <1>0, <2>1, <3>1
  <2> QED
    BY <1>1, <2>1, <2>2, <2>3
<1>5. CASE FetchReport(p) /\ (SkipSource(p) \/ TakeSource(p) \/ BlockSource(p))
  <2>1. /\ tick'[p].now = tick[p].now /\ calls' = calls /\ ledger' = ledger
        /\ tick[p].at = "check"
    BY <1>5, TypeCheck DEF SkipSource, TakeSource, BlockSource
  <2>2. /\ tick'[p].got = EmptyCache /\ tick'[p].at \in {"fetch", "check", "block"}
    BY <1>5, TypeCheck
  <2>3. Unrecorded(p) = {} /\ Unrecorded(p)' = {}
    <3>1. \A f \in Feeds : EmptyCache[f] = None
      BY DEF EmptyCache
    <3>2. tick'[p].due \subseteq Feeds
      BY DEF TypeInv, SchedulerShapes, Ticks
    <3> QED
      BY <2>1, <2>2, <3>1, <3>2, NothingUnrecorded DEF Unrecorded
  <2>4. Due(p, s)' => Due(p, s) \/ CanSpend(s, Standing(p, s))
    <3>1. CASE s \in tick[p].due
      BY <1>2, <1>5, <2>1, <3>1 DEF Due
    <3>2. CASE s \notin tick[p].due
      <4>1. CASE TakeSource(p)
        <5>1. tick'[p].due = tick[p].due \cup {Current(p)}
          BY <4>1, TypeCheck
        <5>2. CanSpend(Current(p), Standing(p, Current(p)))
          BY <4>1 DEF TakeSource, Standing
        <5> QED
          BY <3>2, <5>1, <5>2 DEF Due
      <4>2. CASE SkipSource(p) \/ BlockSource(p)
        <5>1. tick'[p].due = tick[p].due
          BY <4>2, TypeCheck
        <5> QED
          BY <3>2, <5>1 DEF Due
      <4> QED
        BY <1>5, <4>1, <4>2
    <3> QED
      BY <3>1, <3>2
  <2> QED
    BY <1>0, <1>1, <1>2, <1>5, <2>1, <2>3, <2>4
<1>6. CASE FetchReport(p) /\ RecordBlocked(p)
  <2>1. /\ Current(p) \in Feeds /\ tick[p].read \in States /\ tick[p].now >= 0
        /\ tick[p].at = "block" /\ calls' = calls
        /\ tick'[p].at \in {"fetch", "check"} /\ tick'[p].now = tick[p].now
        /\ tick'[p].due = tick[p].due /\ tick'[p].got = EmptyCache
    BY <1>6, TypeRecordBlocked DEF RecordBlocked
  <2>2. PICK due \in Nat : Upsert(p, Current(p), 0, due)
    BY <1>6, TypeRecordBlocked
  <2>3. PICK f \in Feeds : f = Current(p)
    BY <2>1
  <2>4. tick[p].read = Standing(p, f) /\ Upsert(p, f, 0, due)
    BY <2>1, <2>2, <2>3 DEF ReadsTheRow
  <2>5. /\ (Standing(p, f).calls)' = Standing(p, f).calls + 0
        /\ (Standing(p, f).units)' = Standing(p, f).units + 0 * Policy[f].units
        /\ \A g \in Feeds \ {f} : Standing(p, g)' = Standing(p, g)
    BY <2>1, <2>4, StandingAfterWrite
  <2>6. /\ (Standing(p, s).calls)' = Standing(p, s).calls + 0
        /\ (Standing(p, s).units)' = Standing(p, s).units + 0 * Policy[s].units
    BY <1>0, <2>5
  <2>7. Unrecorded(p) = {} /\ Unrecorded(p)' = {}
    <3>1. \A g \in Feeds : EmptyCache[g] = None
      BY DEF EmptyCache
    <3>2. tick'[p].due \subseteq Feeds
      BY DEF TypeInv, SchedulerShapes, Ticks
    <3> QED
      BY <2>1, <3>1, <3>2, NothingUnrecorded DEF Unrecorded
  <2>8. Due(p, s)' => CanSpend(s, Standing(p, s))'
    <3>1. Due(p, s)' => Due(p, s)
      BY <1>2, <1>6, <2>1 DEF Due
    <3>2. Due(p, s) => CanSpend(s, Standing(p, s))
      BY DEF Account, Standing
    <3>3. (Standing(p, s).calls)' = Standing(p, s).calls /\ (Standing(p, s).units)' = Standing(p, s).units
      BY <1>0, <2>6
    <3> QED
      BY <3>1, <3>2, <3>3 DEF CanSpend, DayIsSpent, MonthIsSpent
  <2>9. Owed(p, s)' + faults' + 0 >= Owed(p, s) + faults
    BY <1>0, <1>2, <1>6, <2>7
  <2> QED
    BY <2>1, <2>6, <2>8, <2>9, AccountStays
<1>7. CASE FetchReport(p) /\ \E f \in Feeds, ok \in BOOLEAN : FetchOne(p, f, ok)
  <2>1. PICK f \in Feeds, ok \in BOOLEAN : FetchOne(p, f, ok)
    BY <1>7
  <2>2. CASE f = s
    BY <1>2, <1>7, <2>1, <2>2, AccountOfCall
  <2>3. CASE f # s
    <3>1. /\ tick'[p].now = tick[p].now /\ tick'[p].due = tick[p].due
          /\ tick[p].at = "fetch" /\ tick'[p].at = "fetch" /\ ledger' = ledger
          /\ Unrecorded(p)' = Unrecorded(p) \cup {f}
      BY <2>1, FetchAddsOne DEF FetchOne
    <3>2. calls'[s] = calls[s]
      BY <2>1, <2>3 DEF FetchOne, TypeInv, SchedulerShapes
    <3>3. Owed(p, s)' = Owed(p, s) /\ Due(p, s)' = Due(p, s) /\ faults' = faults
      BY <1>2, <1>7, <2>3, <3>1 DEF Due
    <3>4. /\ Day(tick[p].now)' = Day(tick[p].now) /\ Month(tick[p].now)' = Month(tick[p].now)
          /\ State(s, tick[p].now)' = State(s, tick[p].now)
          /\ \A m : Spent(s, DaysOf(m))' = Spent(s, DaysOf(m))
      BY <3>1, <3>2 DEF State, Day, Month, Spent
    <3> QED
      BY <3>1, <3>2, <3>3, <3>4 DEF Account, CanSpend, DayIsSpent, MonthIsSpent
  <2> QED
    BY <2>2, <2>3
<1>8. CASE FetchReport(p) /\ \E mode \in Modes : Collect(p, mode)
  <2>1. PICK mode \in Modes : Collect(p, mode)
    BY <1>8
  <2>2. /\ Unrecorded(p)' = Unrecorded(p)
        /\ tick'[p].now = tick[p].now /\ tick'[p].due = tick[p].due /\ tick[p].at = "fetch"
        /\ calls' = calls /\ ledger' = ledger
    BY <2>1, CollectKeepsAll, TypeCollect DEF Collect
  <2>3. Due(p, s)' => Due(p, s)
    BY <1>2, <1>8, <2>2 DEF Due
  <2> QED
    BY <1>0, <1>1, <1>2, <1>8, <2>2, <2>3
<1>9. CASE FetchReport(p) /\ ReadLedger(p)
  <2>1. /\ tick[p].at = "read" /\ tick'[p].at = "write" /\ tick'[p].i = tick[p].i
        /\ tick'[p].due = tick[p].due /\ tick'[p].now = tick[p].now
        /\ calls' = calls /\ ledger' = ledger
    BY <1>9, TypeReadLedger DEF ReadLedger
  <2>2. Unrecorded(p)' = Unrecorded(p)
    BY <2>1 DEF Unrecorded
  <2>3. Due(p, s)' => Due(p, s)
    BY <1>2, <1>9, <2>1, <2>2 DEF Due
  <2> QED
    BY <1>0, <1>1, <1>2, <1>9, <2>1, <2>2, <2>3
<1>10. CASE FetchReport(p) /\ WriteLedger(p)
  <2>1. /\ Current(p) \in Feeds /\ tick[p].read \in States /\ tick[p].now >= 0
        /\ tick[p].at = "write" /\ calls' = calls
        /\ tick'[p].at \in {"report", "read"} /\ tick'[p].now = tick[p].now
        /\ tick'[p].due = tick[p].due
    BY <1>10, TypeWriteLedger DEF WriteLedger
  <2>2. PICK due \in Nat : Upsert(p, Current(p), 1, due)
    BY <1>10, TypeWriteLedger
  <2>3. PICK f \in Feeds : f = Current(p)
    BY <2>1
  <2>4. tick[p].read = Standing(p, f) /\ Upsert(p, f, 1, due)
    BY <2>1, <2>2, <2>3 DEF ReadsTheRow
  <2>5. /\ (Standing(p, f).calls)' = Standing(p, f).calls + 1
        /\ (Standing(p, f).units)' = Standing(p, f).units + 1 * Policy[f].units
        /\ \A g \in Feeds \ {f} : Standing(p, g)' = Standing(p, g)
    BY <2>1, <2>4, StandingAfterWrite
  <2>6. f \in Unrecorded(p) /\ Unrecorded(p)' = Unrecorded(p) \ {f}
    BY <1>10, <2>3, WriteRemovesOne
  <2>7. CASE s = f
    <3>1. Owed(p, s) = 1 /\ Owed(p, s)' = 0
      BY <1>2, <1>10, <2>6, <2>7
    <3>2. Due(p, s)' = FALSE
      BY <2>1, <2>6, <2>7 DEF Due
    <3>3. Owed(p, s)' + faults' + 1 >= Owed(p, s) + faults
      BY <1>0, <1>2, <1>10, <3>1
    <3>4. /\ (Standing(p, s).calls)' = Standing(p, s).calls + 1
          /\ (Standing(p, s).units)' = Standing(p, s).units + 1 * Policy[s].units
      BY <2>5, <2>7
    <3> QED
      BY <2>1, <3>2, <3>3, <3>4, AccountStays
  <2>8. CASE s # f
    <3>1. Standing(p, s)' = Standing(p, s)
      BY <2>5, <2>8
    <3>2. /\ (Standing(p, s).calls)' = Standing(p, s).calls + 0
          /\ (Standing(p, s).units)' = Standing(p, s).units + 0 * Policy[s].units
      BY <1>0, <3>1
    <3>3. Owed(p, s)' = Owed(p, s)
      BY <1>2, <1>10, <2>6, <2>8
    <3>4. Due(p, s)' => CanSpend(s, Standing(p, s))'
      <4>1. Due(p, s)' => Due(p, s)
        BY <1>2, <1>10, <2>1, <2>6, <2>8 DEF Due
      <4> QED
        BY <3>1, <4>1 DEF Account, Standing, CanSpend, DayIsSpent, MonthIsSpent
    <3>5. Owed(p, s)' + faults' + 0 >= Owed(p, s) + faults
      BY <1>0, <1>2, <1>10, <3>3
    <3> QED
      BY <2>1, <3>2, <3>4, <3>5, AccountStays
  <2> QED
    BY <2>7, <2>8
<1> QED
  BY <1>3, <1>4, <1>5, <1>6, <1>7, <1>8, <1>9, <1>10 DEF FetchReport, Ticking

\* The budgets are kept by a step of a process by itself.
LEMMA BudgetsTurn ==
  ASSUME TypeInv, TypeInv', NEW p \in Procs, Turn(p), OnItsOwn, BudgetsKept,
         \A s \in Feeds : Account(p, s)
  PROVE  BudgetsKept'
<1>1. CASE FetchReport(p) /\ \E s \in Feeds, ok \in BOOLEAN : FetchOne(p, s, ok)
  <2>1. PICK s \in Feeds, ok \in BOOLEAN : FetchOne(p, s, ok)
    BY <1>1
  <2> QED
    BY <1>1, <2>1, BudgetsOfCall DEF FetchReport
<1>2. CASE ~ (FetchReport(p) /\ \E s \in Feeds, ok \in BOOLEAN : FetchOne(p, s, ok))
  <2>1. calls' = calls
    <3>1. CASE StartScan(p)
      BY <3>1 DEF StartScan, BeginTick
    <3>2. CASE FetchReport(p)
      BY <1>2, <3>2 DEF FetchReport, Ticking, SkipSource, TakeSource, BlockSource, RecordBlocked,
                        Collect, ReadLedger, WriteLedger
    <3>3. CASE ~ StartScan(p) /\ ~ FetchReport(p)
      <4>1. PICK s \in Feeds : s = Sources[1]
        BY Constants
      <4> QED
        BY <3>3, <4>1, LostCallIsFault
    <3> QED
      BY <3>1, <3>2, <3>3
  <2>2. /\ faults \in Nat /\ faults' \in Nat /\ faults' >= faults
        /\ \A s \in Feeds : /\ Policy[s].units \in Nat
                            /\ Policy[s].dayLimit \in Nat \cup {None}
                            /\ Policy[s].monthLimit \in Nat \cup {None}
                            /\ \A d \in Days : calls[s][d] \in Nat
                            /\ \A m : Spent(s, DaysOf(m)) \in Nat
    <3>1. faults \in Nat /\ faults' \in {faults, faults + 1}
      BY TypeTurn DEF TypeInv, ShadowShapes
    <3> QED
      BY <3>1, Constants, AccountTypes
  <2>3. \A s \in Feeds : \A m : Spent(s, DaysOf(m))' = Spent(s, DaysOf(m))
    BY <2>1 DEF Spent
  <2>4. ASSUME NEW s \in Feeds, Policy[s].dayLimit # None, NEW d \in Days
        PROVE  calls'[s][d] <= Policy[s].dayLimit + faults'
    <3>1. calls[s][d] <= Policy[s].dayLimit + faults
      BY <2>4 DEF BudgetsKept
    <3> QED
      BY <2>1, <2>2, <2>4, <3>1
  <2>5. ASSUME NEW s \in Feeds, Policy[s].monthLimit # None, NEW d \in Days
        PROVE  Policy[s].units * Spent(s, DaysOf(Month(d * DayLength)))'
                 <= Policy[s].monthLimit + faults' * Policy[s].units
    <3> DEFINE u == Policy[s].units
               a == u * Spent(s, DaysOf(Month(d * DayLength)))
    <3>1. a <= Policy[s].monthLimit + faults * u
      BY <2>5 DEF BudgetsKept
    <3>2. a' = a /\ a \in Int /\ u \in Nat
      BY <2>2, <2>3
    <3>3. faults * u <= faults' * u /\ faults * u \in Int /\ faults' * u \in Int
      <4>1. PICK k \in Nat : k = faults' /\ faults <= k
        BY <2>2
      <4>2. u * faults <= u * k
        BY <2>2, <3>2, <4>1, ProductGrows
      <4>3. u * faults = faults * u /\ u * k = k * u /\ u * faults \in Int /\ u * k \in Int
        BY <2>2, <3>2, <4>1
      <4> QED
        BY <4>1, <4>2, <4>3
    <3> HIDE DEF a, u
    <3>4. a' <= Policy[s].monthLimit + faults' * u
      BY <2>2, <2>5, <3>1, <3>2, <3>3
    <3> QED
      BY <3>4 DEF a, u
  <2> QED
    BY <2>4, <2>5 DEF BudgetsKept
<1> QED
  BY <1>1, <1>2

\* At first nothing is called, owed or read.
LEMMA BudgetInit == Init => BudgetInv
<1> SUFFICES ASSUME Init PROVE BudgetInv
  OBVIOUS
<1>1. TypeInv
  BY TypeInit
<1>2. \A p \in Procs : /\ tick[p].at = "idle" /\ tick[p].now = -1 /\ tick[p].due = {}
  BY RestingTypes DEF Init, SchedulerInit
<1>3. \A s \in Feeds, d \in Days : calls[s][d] = 0
  BY DEF Init, SchedulerInit
<1>4. \A p \in fleet : ReadsTheRow(p) /\ \A s \in Feeds : Account(p, s)
  <2>1. fleet \subseteq Procs
    BY <1>1, FleetTypes
  <2> QED
    BY <1>2, <1>3, <2>1 DEF ReadsTheRow, Account, Due
<1>5. \A s \in Feeds : \A m : Spent(s, DaysOf(m)) = 0
  <2> TAKE s \in Feeds
  <2> TAKE m
  <2> DEFINE D == DaysOf(m)
             f == calls[s]
  <2>1. IsFiniteSet(D) /\ Cardinality(D) \in Nat /\ D \in SUBSET Days
    BY DayTypes, FS_CardinalityType
  <2>2. Spent(s, D) \in Nat
    BY <1>1, <2>1, SpentTypes
  <2>3. \A d \in D : f[d] = 0
    BY <1>3, <2>1
  <2> HIDE DEF D, f
  <2>4. SumFunctionOnSet(f, D) <= Cardinality(D) * 0
    BY <2>1, <2>3, SumBounded
  <2>5. Spent(s, D) = SumFunctionOnSet(f, D)
    BY DEF Spent, f
  <2>6. Spent(s, D) = 0
    BY <2>1, <2>2, <2>4, <2>5
  <2> QED
    BY <2>6 DEF D
<1>6. BudgetsKept
  <2>1. faults = 0
    BY DEF Init
  <2>2. \A s \in Feeds : /\ Policy[s].units \in Nat
                         /\ Policy[s].dayLimit \in Nat \cup {None}
                         /\ Policy[s].monthLimit \in Nat \cup {None}
    BY Constants
  <2>3. \A s \in Feeds : Policy[s].units * 0 = 0 /\ 0 * Policy[s].units = 0
    BY <2>2
  <2> QED
    BY <1>3, <1>5, <2>1, <2>2, <2>3 DEF BudgetsKept
<1> QED
  BY <1>4, <1>6 DEF BudgetInv

\* Every step keeps the budgets of a process by itself.
LEMMA BudgetStep == TypeInv /\ HonestInv /\ BudgetInv /\ [Next]_vars => BudgetInv'
<1> SUFFICES ASSUME TypeInv, HonestInv, BudgetInv, [Next]_vars PROVE BudgetInv'
  OBVIOUS
<1>1. TypeInv'
  BY TypeStep
<1>2. ASSUME NEW p \in fleet, Turn(p) PROVE BudgetInv'
  <2>1. p \in Procs /\ fleet' = fleet
    BY <1>2, FleetTypes, TypeTurn DEF CycleMoves
  <2>2. SUFFICES ASSUME OnItsOwn
                 PROVE  /\ \A q \in fleet : ReadsTheRow(q)' /\ \A s \in Feeds : Account(q, s)'
                        /\ BudgetsKept'
    BY <2>1 DEF BudgetInv, OnItsOwn
  <2>3. ReadsTheRow(p) /\ (\A s \in Feeds : Account(p, s)) /\ BudgetsKept
    BY <2>2 DEF BudgetInv
  <2>4. \A q \in fleet : q = p
    <3>1. IsFiniteSet(fleet)
      BY FleetTypes, Constants, FS_Subset
    <3> QED
      BY <2>2, <3>1, FS_Singleton DEF OnItsOwn
  <2>5. ReadsTheRow(p)'
    BY <1>1, <1>2, <2>1, <2>3, ReadTurn
  <2>6. \A s \in Feeds : Account(p, s)'
    BY <1>1, <1>2, <2>1, <2>3, AccountTurn
  <2>7. BudgetsKept'
    BY <1>1, <1>2, <2>1, <2>2, <2>3, BudgetsTurn
  <2> QED
    BY <2>4, <2>5, <2>6, <2>7
<1>3. CASE TimePasses \/ UNCHANGED vars
  <2>1. /\ tick' = tick /\ ledger' = ledger /\ calls' = calls
        /\ fleet' = fleet /\ faults' = faults /\ loop' = loop
    BY <1>3 DEF TimePasses, PassTime, vars, schedulerVars, shadowVars
  <2>2. /\ \A s, now : State(s, now)' = State(s, now)
        /\ \A s, D : Spent(s, D)' = Spent(s, D)
        /\ \A p : Unrecorded(p)' = Unrecorded(p)
    BY <2>1 DEF State, Spent, Unrecorded
  <2>3. /\ \A p, s : Account(p, s)' = Account(p, s)
        /\ \A p : ReadsTheRow(p)' = ReadsTheRow(p)
    BY <2>1, <2>2 DEF Account, Due, Owed, ReadsTheRow, Standing, Current
  <2>4. BudgetsKept' = BudgetsKept
    BY <2>1, <2>2 DEF BudgetsKept, OnItsOwn
  <2> QED
    BY <2>1, <2>3, <2>4 DEF BudgetInv, OnItsOwn
<1> QED
  BY <1>2, <1>3, StepsOfNext

\* A process that has the database to itself keeps the daily and the monthly
\* budget of every source, but for one call per exception or kill, however its
\* ticks and its restarts fall.
THEOREM KeepsBudgets == Spec => []BudgetsKept
<1>1. BudgetInv => BudgetsKept
  BY DEF BudgetInv, BudgetsKept
<1> QED
  BY <1>1, TypeInit, TypeStep, HonestInit, HonestStep, BudgetInit, BudgetStep, PTL DEF Spec
=============================================================================
