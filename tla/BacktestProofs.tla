--------------------------- MODULE BacktestProofs ---------------------------
(***************************************************************************)
(* Proofs about Backtest, for any markets, bookmakers, costs, quotes,      *)
(* configurations and number of scans: its type invariant, that a surebet  *)
(* never loses, that the report, the exposure and the wallets add up, that *)
(* the limits are kept, and that trades have lasted and are settled in     *)
(* time.                                                                   *)
(***************************************************************************)
EXTENDS Backtest, SumTheorems, TLAPS

---------------------------------------------------------------------------
(* Quotes                                                                  *)

Prices == UNION Snapshots

\* A product grows with a factor.
LEMMA ProductGrows ==
  ASSUME NEW n \in Nat, NEW x \in Int, NEW y \in Int, x <= y
  PROVE  n * x <= n * y
  OBVIOUS

\* Products of numbers are numbers, and of what is positive they are positive.
LEMMA Products ==
  /\ \A x, y \in Int : x * y \in Int
  /\ \A x, y \in Nat : x * y \in Nat
  /\ \A x, y \in Nat \ {0} : x * y \in Nat \ {0}
  OBVIOUS

\* A tenth of an integer, and of what is not negative.
LEMMA Tenths ==
  /\ \A x \in Int : x \div 10 \in Int
  /\ \A x \in Nat : x \div 10 \in Nat
  /\ \A x, y \in Int : x <= y => x \div 10 <= y \div 10
  OBVIOUS

\* The price of a quote, and the costs of its bookmaker.
LEMMA QuoteTypes ==
  ASSUME NEW q \in Prices
  PROVE  /\ q.book \in Books /\ q.market \in Markets
         /\ Profile[q.book].fee \in Nat /\ Profile[q.book].fixed \in Nat
         /\ Profile[q.book].minStake \in Nat
         /\ Profile[q.book].maxStake \in Nat \cup {Unlimited}
         /\ NetReturnFactor(q) \in Nat \ {0}
<1>1. q.book \in Books /\ q.market \in Markets /\ q.odds \in Nat /\ EffectiveOdds(q) > 10
  BY BacktestAssumption DEF Prices
<1>2. Profile[q.book] \in CostProfile
  BY <1>1, EngineAssumption
<1> DEFINE o == EffectiveOdds(q)
           c == Profile[q.book].commission
<1>3. o \in Int
  <2>1. q.odds * (10 - Profile[q.book].slippage) \in Int
    BY <1>1, <1>2, Products DEF CostProfile
  <2> QED
    BY <2>1, Tenths DEF EffectiveOdds
<1>4. o > 10 /\ c \in 0..9
  BY <1>1, <1>2 DEF CostProfile
<1> HIDE DEF o, c
<1>5. o - 10 \in Nat /\ 10 - c \in Nat
  BY <1>3, <1>4
<1>6. (o - 10) * (10 - c) \in Nat
  BY <1>5, Products
<1>7. ((o - 10) * (10 - c)) \div 10 \in Nat
  BY <1>6, Tenths
<1>8. NetReturnFactor(q) \in Nat \ {0}
  BY <1>7 DEF NetReturnFactor, o, c
<1> QED
  BY <1>1, <1>2, <1>8 DEF CostProfile

\* What is not limited is no number.
LEMMA UnlimitedIsNoNumber == Unlimited \notin Int
  BY EngineAssumption

---------------------------------------------------------------------------
(* A combination: rationals, and the least of them                         *)

Fractions == [n : Int, d : Nat \ {0}]

\* Sums over a function's own domain.
LEMMA SumOfAll ==
  ASSUME NEW f, IsFiniteSet(DOMAIN f)
  PROVE  /\ SumFunction(f) = SumFunctionOnSet(f, DOMAIN f)
         /\ (\A x \in DOMAIN f : f[x] \in Int) => SumFunction(f) \in Int
         /\ (\A x \in DOMAIN f : f[x] \in Nat) => SumFunction(f) \in Nat
  BY SumType DEF SumFunction

\* The fixed costs and the factors of a combination, and what money returns there.
LEMMA CombinationTypes ==
  ASSUME NEW S \in SUBSET Prices, IsFiniteSet(S)
  PROVE  /\ FixedTotal(S) \in Nat /\ FactorProduct(S) \in Nat \ {0}
         /\ S # {} => \A money \in Int : ReturnFor(money, S) \in Fractions
<1>1. FixedTotal(S) \in Nat
  <2> DEFINE f == [q \in S |-> Profile[q.book].fixed]
  <2>1. DOMAIN f = S /\ \A q \in S : f[q] \in Nat
    BY QuoteTypes
  <2> HIDE DEF f
  <2>2. SumFunction(f) \in Nat
    BY <2>1, SumOfAll
  <2> QED
    BY <2>2 DEF FixedTotal, f
<1>2. ASSUME NEW T \in SUBSET S PROVE FactorProduct(T) \in Nat \ {0}
  <2> DEFINE f == [q \in T |-> NetReturnFactor(q)]
  <2>1. DOMAIN f = T /\ (\A q \in DOMAIN f : f[q] \in Nat \ {0}) /\ IsFiniteSet(DOMAIN f)
    BY QuoteTypes, FS_Subset
  <2> HIDE DEF f
  <2>2. FoldFunction(LAMBDA x, y : x * y, 1, f) \in Nat \ {0}
    BY <2>1, ProductPositive
  <2> QED
    BY <2>2 DEF FactorProduct, f
<1>3. ASSUME S # {}, NEW money \in Int PROVE ReturnFor(money, S) \in Fractions
  <2> DEFINE f == [q \in S |-> (10 + Profile[q.book].fee) * FactorProduct(S \ {q})]
             n == (money - FixedTotal(S)) * FactorProduct(S)
  <2>1. PICK q \in S : TRUE
    BY <1>3
  <2>2. DOMAIN f = S /\ \A p \in S : f[p] \in Nat \ {0}
    <3> SUFFICES ASSUME NEW p \in S PROVE f[p] \in Nat \ {0}
      OBVIOUS
    <3>1. FactorProduct(S \ {p}) \in Nat \ {0} /\ 10 + Profile[p.book].fee \in Nat \ {0}
      BY <1>2, QuoteTypes
    <3> QED
      BY <3>1, Products
  <2> HIDE DEF f
  <2>3. SumFunctionOnSet(f, S) = f[q] + SumFunctionOnSet(f, S \ {q})
    BY <2>2, SumRemove
  <2>4. SumFunctionOnSet(f, S \ {q}) \in Nat
    BY <2>2, SumType, FS_Subset
  <2>5. SumFunction(f) \in Nat \ {0}
    BY <2>2, <2>3, <2>4 DEF SumFunction
  <2>6. n \in Int
    <3>1. money - FixedTotal(S) \in Int /\ FactorProduct(S) \in Int
      BY <1>1, <1>2
    <3> QED
      BY <3>1, Products
  <2> HIDE DEF n
  <2> QED
    BY <2>5, <2>6 DEF ReturnFor, Fractions, f, n
<1> QED
  BY <1>1, <1>2, <1>3

\* The order of fractions is transitive.
LEMMA FractionsAreOrdered ==
  ASSUME NEW r \in Fractions, NEW s \in Fractions, NEW t \in Fractions,
         ~ Less(s, r), ~ Less(t, s)
  PROVE  ~ Less(t, r)
<1> DEFINE a == r.n  b == s.n  c == t.n  u == r.d  v == s.d  w == t.d
<1>1. a \in Int /\ b \in Int /\ c \in Int /\ u \in Nat \ {0} /\ v \in Nat \ {0} /\ w \in Nat \ {0}
  BY DEF Fractions
<1>2. ~ (b * u < a * v) /\ ~ (c * v < b * w)
  BY DEF Less
<1> HIDE DEF a, b, c, u, v, w
<1>3. /\ a * v \in Int /\ b * u \in Int /\ c * v \in Int /\ b * w \in Int
      /\ c * u \in Int /\ a * w \in Int
  BY <1>1, Products
<1>4. w * (a * v) <= w * (b * u)
  <2>1. a * v <= b * u
    BY <1>2, <1>3
  <2> HIDE DEF a, b, u, v
  <2> QED
    BY <1>1, <1>3, <2>1, ProductGrows
<1>5. u * (b * w) <= u * (c * v)
  <2>1. b * w <= c * v
    BY <1>2, <1>3
  <2> QED
    BY <1>1, <1>3, <2>1, ProductGrows
<1>6. /\ w * (a * v) = v * (a * w) /\ w * (b * u) = u * (b * w)
      /\ u * (c * v) = v * (c * u)
  BY <1>1
<1>7. v * (a * w) <= v * (c * u)
  <2>1. /\ w * (a * v) \in Int /\ w * (b * u) \in Int /\ u * (b * w) \in Int /\ u * (c * v) \in Int
        /\ v * (a * w) \in Int /\ v * (c * u) \in Int
    BY <1>1, <1>3, Products
  <2> QED
    BY <1>4, <1>5, <1>6, <2>1
<1>8. ASSUME c * u < a * w PROVE FALSE
  <2> DEFINE x == c * u
             y == a * w
  <2>1. x \in Int /\ y \in Int /\ x + 1 <= y
    BY <1>3, <1>8
  <2>2. v * y <= v * x
    BY <1>7
  <2> HIDE DEF x, y
  <2>3. v * (x + 1) <= v * y
    BY <1>1, <2>1, ProductGrows
  <2>4. v * (x + 1) = v * x + v /\ v * x \in Int /\ v * y \in Int
    BY <1>1, <2>1
  <2> QED
    BY <1>1, <2>2, <2>3, <2>4
<1> QED
  BY <1>8 DEF Less, a, c, u, w

\* Finitely many fractions have a least one.
LEMMA LeastFraction ==
  ASSUME NEW C \in SUBSET Fractions, IsFiniteSet(C), C # {}
  PROVE  \E r \in C : \A s \in C : ~ Less(s, r)
<1> DEFINE Least(r, T) == \A s \in T : ~ Less(s, r)
           G == { T \in SUBSET C : T = {} \/ \E r \in T : Least(r, T) }
<1>0. \A r \in Fractions : ~ Less(r, r)
  <2> SUFFICES ASSUME NEW r \in Fractions PROVE ~ (r.n * r.d < r.n * r.d)
    BY DEF Less
  <2>1. r.n * r.d \in Int
    BY Products DEF Fractions
  <2> QED
    BY <2>1
<1>1. {} \in G
  OBVIOUS
<1>2. ASSUME NEW T \in SUBSET C, NEW x \in C, T \in G, x \notin T PROVE T \cup {x} \in G
  <2>1. CASE T = {}
    <3>1. Least(x, T \cup {x})
      BY <1>0, <2>1
    <3> QED
      BY <3>1
  <2>2. CASE T # {}
    <3>1. PICK z \in T : Least(z, T)
      BY <1>2, <2>2
    <3>2. CASE ~ Less(x, z)
      <4>1. Least(z, T \cup {x})
        BY <3>1, <3>2
      <4> QED
        BY <4>1
    <3>3. CASE Less(x, z)
      <4>1. ~ Less(z, x)
        <5>1. /\ x.n * z.d \in Int /\ z.n * x.d \in Int
          BY Products DEF Fractions
        <5> QED
          BY <3>3, <5>1 DEF Less
      <4>2. \A s \in T : ~ Less(s, x)
        BY <3>1, <4>1, FractionsAreOrdered
      <4>3. Least(x, T \cup {x})
        BY <1>0, <4>2
      <4> QED
        BY <4>3
    <3> QED
      BY <3>2, <3>3
  <2> QED
    BY <2>1, <2>2
<1>3. \A T \in SUBSET C, x \in C : T \in G /\ x \notin T => T \cup {x} \in G
  BY <1>2
<1>4. C \in G
  <2> HIDE DEF G
  <2> QED
    BY <1>1, <1>3, FiniteInduction
<1> QED
  BY <1>4

---------------------------------------------------------------------------
(* Stakes                                                                  *)

Limits == [Books -> Int \cup {Unlimited}]

\* Every limit is a fraction, and there is a least one: stakes are integers.
LEMMA StakesTypes ==
  ASSUME NEW S \in SUBSET Prices, IsFiniteSet(S), S # {}, NEW bankroll \in Int,
         NEW balance \in Limits
  PROVE  Stakes(S, bankroll, balance) \in [S -> Int]
<1> DEFINE caps == {ReturnFor(bankroll, S)} \cup StakeCaps(S) \cup BookCaps(S, balance)
           target == CHOOSE r \in caps : \A s \in caps : ~ Less(s, r)
<1>1. ReturnFor(bankroll, S) \in Fractions
  BY CombinationTypes
<1>2. StakeCaps(S) \subseteq Fractions /\ IsFiniteSet(StakeCaps(S))
  <2> DEFINE f == [q \in S |-> [n |-> Profile[q.book].maxStake * NetReturnFactor(q), d |-> 10]]
             T == { p \in S : Profile[p.book].maxStake # Unlimited }
  <2>1. StakeCaps(S) = { f[q] : q \in T }
    BY DEF StakeCaps
  <2>2. \A q \in T : f[q] \in Fractions
    <3> SUFFICES ASSUME NEW q \in T
                 PROVE  [n |-> Profile[q.book].maxStake * NetReturnFactor(q), d |-> 10] \in Fractions
      OBVIOUS
    <3>1. Profile[q.book].maxStake \in Int /\ NetReturnFactor(q) \in Int
      BY QuoteTypes
    <3>2. Profile[q.book].maxStake * NetReturnFactor(q) \in Int
      BY <3>1, Products
    <3> QED
      BY <3>2 DEF Fractions
  <2>3. IsFiniteSet(T)
    BY FS_Subset
  <2> HIDE DEF f, T
  <2>4. IsFiniteSet({ f[q] : q \in T })
    BY <2>3, ImageIsFinite
  <2> QED
    BY <2>1, <2>2, <2>4
<1>3. BookCaps(S, balance) \subseteq Fractions /\ IsFiniteSet(BookCaps(S, balance))
  <2> DEFINE f == [b \in Books |-> ReturnFor(balance[b], At(S, b))]
             g == [q \in S |-> q.book]
             T == Limited(S, balance)
  <2>1. BookCaps(S, balance) = { f[b] : b \in T } /\ T \subseteq Books
    BY DEF BookCaps, Limited
  <2>2. \A b \in T : f[b] \in Fractions
    <3> SUFFICES ASSUME NEW b \in T PROVE ReturnFor(balance[b], At(S, b)) \in Fractions
      BY <2>1
    <3>1. balance[b] \in Int /\ At(S, b) # {} /\ At(S, b) \in SUBSET Prices
      BY DEF Limits, Limited, At
    <3>2. IsFiniteSet(At(S, b))
      BY FS_Subset DEF At
    <3> QED
      BY <3>1, <3>2, CombinationTypes
  <2>3. IsFiniteSet(T)
    <3>1. T \subseteq { g[q] : q \in S }
      BY DEF Limited, At
    <3> HIDE DEF g, T
    <3>2. IsFiniteSet({ g[q] : q \in S })
      BY ImageIsFinite
    <3> QED
      BY <3>1, <3>2, FS_Subset
  <2> HIDE DEF f, T
  <2>4. IsFiniteSet({ f[b] : b \in T })
    BY <2>3, ImageIsFinite
  <2> QED
    BY <2>1, <2>2, <2>4
<1>4. target \in Fractions
  <2>1. caps \in SUBSET Fractions /\ caps # {}
    BY <1>1, <1>2, <1>3
  <2>2. IsFiniteSet(caps)
    <3> HIDE DEF caps
    <3>1. IsFiniteSet({ReturnFor(bankroll, S)} \cup StakeCaps(S))
      BY <1>2, FS_Singleton, FS_Union
    <3> QED
      BY <1>3, <3>1, FS_Union DEF caps
  <2> HIDE DEF caps
  <2>3. \E r \in caps : \A s \in caps : ~ Less(s, r)
    BY <2>1, <2>2, LeastFraction
  <2>4. target \in caps
    BY <2>3
  <2> QED
    BY <2>1, <2>4
<1>5. Stakes(S, bankroll, balance)
        = [q \in S |-> (target.n * 10) \div (target.d * NetReturnFactor(q))]
  BY DEF Stakes
<1> HIDE DEF target
<1>6. ASSUME NEW q \in S PROVE (target.n * 10) \div (target.d * NetReturnFactor(q)) \in Int
  <2> DEFINE x == target.n * 10
             y == target.d * NetReturnFactor(q)
  <2>1. x \in Int
    BY <1>4, Products DEF Fractions
  <2>2. y \in Nat \ {0}
    <3>1. target.d \in Nat \ {0} /\ NetReturnFactor(q) \in Nat \ {0}
      BY <1>4, QuoteTypes DEF Fractions
    <3> QED
      BY <3>1, Products
  <2> HIDE DEF x, y
  <2>3. x \div y \in Int
    BY <2>1, <2>2
  <2> QED
    BY <2>3 DEF x, y
<1> QED
  BY <1>5, <1>6

\* Stakes on a combination of quotes.
IsStakes(stakes) ==
  /\ DOMAIN stakes \in SUBSET Prices /\ IsFiniteSet(DOMAIN stakes) /\ DOMAIN stakes # {}
  /\ \A q \in DOMAIN stakes : stakes[q] \in Nat

\* Stakes cost and return whole amounts; the guaranteed return is that of a leg, and
\* no leg returns less.
LEMMA MoneyTypes ==
  ASSUME NEW stakes, IsStakes(stakes)
  PROVE  /\ CashUsed(stakes) \in Nat /\ Capital(stakes) \in Nat
         /\ \A b : OutlayAt(stakes, b) \in Nat
         /\ \A b : At(DOMAIN stakes, b) = {} => OutlayAt(stakes, b) = 0
         /\ \A q \in DOMAIN stakes : NetReturn(q, stakes[q]) \in Nat
         /\ GuaranteedReturn(stakes) \in Nat /\ GuaranteedProfit(stakes) \in Int
         /\ \A q \in DOMAIN stakes : GuaranteedReturn(stakes) <= NetReturn(q, stakes[q])
<1> DEFINE S == DOMAIN stakes
<1>1. S \in SUBSET Prices /\ IsFiniteSet(S) /\ S # {} /\ \A q \in S : stakes[q] \in Nat
  BY DEF IsStakes
<1>2. ASSUME NEW q \in S
      PROVE  /\ CashOutlay(q, stakes[q]) \in Nat /\ Outlay(stakes, q) \in Nat
             /\ NetReturn(q, stakes[q]) \in Nat
  <2> DEFINE k == stakes[q]
             fee == 10 + Profile[q.book].fee
             fixed == Profile[q.book].fixed
             factor == NetReturnFactor(q)
  <2>1. k \in Nat /\ fee \in Nat /\ fixed \in Nat /\ factor \in Nat
    BY <1>1, QuoteTypes
  <2> HIDE DEF k, fee, fixed, factor
  <2>2. k * fee \in Nat /\ 10 * fixed \in Nat /\ k * factor \in Nat
    BY <2>1, Products
  <2>3. k * fee + 10 * fixed \in Nat
    BY <2>2
  <2>4. (k * fee + 10 * fixed) \div 10 \in Nat
    BY <2>3, Tenths
  <2> QED
    BY <2>2, <2>3, <2>4 DEF CashOutlay, Outlay, NetReturn, Cents, k, fee, fixed, factor
<1>3. CashUsed(stakes) \in Nat
  <2> DEFINE f == [q \in S |-> CashOutlay(q, stakes[q])]
  <2>1. DOMAIN f = S /\ \A q \in S : f[q] \in Nat
    BY <1>2
  <2> HIDE DEF f
  <2>2. SumFunction(f) \in Nat
    BY <1>1, <2>1, SumOfAll
  <2> QED
    BY <2>2 DEF CashUsed, f
<1>4. ASSUME NEW b PROVE OutlayAt(stakes, b) \in Nat /\ (At(S, b) = {} => OutlayAt(stakes, b) = 0)
  <2> DEFINE T == At(S, b)
             f == [q \in T |-> Outlay(stakes, q)]
  <2>1. DOMAIN f = T /\ T \subseteq S /\ \A q \in T : f[q] \in Nat
    BY <1>2 DEF At
  <2>2. IsFiniteSet(T)
    BY <1>1, <2>1, FS_Subset
  <2> HIDE DEF f, T
  <2>3. SumFunction(f) \in Nat /\ SumFunction(f) = SumFunctionOnSet(f, T)
    BY <2>1, <2>2, SumOfAll
  <2>4. T = {} => SumFunction(f) = 0
    BY <2>3, SumEmpty
  <2> QED
    BY <2>3, <2>4 DEF OutlayAt, f, T
<1>5. Capital(stakes) \in Nat
  BY <1>3, Tenths DEF Capital, Cents
<1>6. /\ GuaranteedReturn(stakes) \in Nat
      /\ \A q \in S : GuaranteedReturn(stakes) <= NetReturn(q, stakes[q])
  <2> DEFINE f == [q \in S |-> NetReturn(q, stakes[q])]
             V == { f[q] : q \in S }
  <2>1. GuaranteedReturn(stakes) = Min(V)
    BY DEF GuaranteedReturn
  <2>2. \A q \in S : f[q] \in Nat /\ f[q] \in V
    BY <1>2
  <2>3. V \in SUBSET Nat /\ V # {}
    BY <1>1, <1>2
  <2>4. IsFiniteSet(V)
    <3> HIDE DEF f
    <3> QED
      BY <1>1, ImageIsFinite
  <2>5. \A q \in S : NetReturn(q, stakes[q]) \in V
    BY <2>2
  <2> HIDE DEF V, f
  <2>6. V \in SUBSET Int
    BY <2>3
  <2>7. \E x \in V : \A y \in V : x <= y
    BY <2>3, <2>4, <2>6, LeastInteger
  <2>8. Min(V) \in V /\ \A y \in V : Min(V) <= y
    BY <2>7 DEF Min
  <2> QED
    BY <2>1, <2>3, <2>5, <2>8
<1>7. GuaranteedProfit(stakes) \in Int
  BY <1>3, <1>6 DEF GuaranteedProfit
<1> QED
  BY <1>2, <1>3, <1>4, <1>5, <1>6, <1>7

\* What a surebet is: stakes on quotes of the scan, acceptable within the limits.
LEMMA SurebetTypes ==
  ASSUME NEW qs \in Snapshots \cup {{}}, NEW m, NEW bankroll \in Int, NEW balance \in Limits,
         NEW stakes \in Surebets(qs, m, bankroll, balance)
  PROVE  /\ IsStakes(stakes) /\ DOMAIN stakes \in SUBSET qs
         /\ Acceptable(stakes, bankroll, balance)
<1>1. PICK S \in Combinations(Group(qs, m)) : stakes = Stakes(S, bankroll, balance)
  BY DEF Surebets
<1>2. Acceptable(stakes, bankroll, balance)
  BY DEF Surebets
<1>3. S \in SUBSET qs /\ S # {}
  <2>1. Group(qs, m) # {} /\ S \in SUBSET Group(qs, m)
        /\ { q.outcome : q \in S } = { q.outcome : q \in Group(qs, m) }
    BY <1>1 DEF Combinations
  <2> QED
    BY <2>1 DEF Group
<1>4. qs \in SUBSET Prices /\ IsFiniteSet(qs)
  BY BacktestAssumption, FS_EmptySet DEF Prices
<1>5. S \in SUBSET Prices /\ IsFiniteSet(S)
  BY <1>3, <1>4, FS_Subset
<1>6. stakes \in [S -> Int]
  BY <1>1, <1>3, <1>5, StakesTypes
<1>7. \A q \in S : stakes[q] \in Nat
  <2>1. \A q \in S : stakes[q] >= Profile[q.book].minStake
    BY <1>2, <1>6 DEF Acceptable
  <2> QED
    BY <1>5, <1>6, <2>1, QuoteTypes
<1> QED
  BY <1>2, <1>3, <1>5, <1>6, <1>7 DEF IsStakes

\* The best of some surebets is one of them.
LEMMA BestIsOne ==
  ASSUME NEW qs \in Snapshots \cup {{}}, NEW m, NEW bankroll \in Int, NEW balance \in Limits,
         Surebets(qs, m, bankroll, balance) # {}
  PROVE  BestOf(Surebets(qs, m, bankroll, balance)) \in Surebets(qs, m, bankroll, balance)
<1> DEFINE B == Surebets(qs, m, bankroll, balance)
           f == [s \in B |-> - Cents(GuaranteedProfit(s))]
<1>1. IsFiniteSet(B)
  <2> DEFINE g == [S \in SUBSET Group(qs, m) |-> Stakes(S, bankroll, balance)]
             D == { T \in Combinations(Group(qs, m)) : Affordable(T, bankroll, balance) }
  <2>1. D \subseteq SUBSET Group(qs, m)
    BY DEF Combinations
  <2>2. IsFiniteSet(Group(qs, m))
    <3>1. IsFiniteSet(qs) /\ Group(qs, m) \in SUBSET qs
      BY BacktestAssumption, FS_EmptySet DEF Group
    <3> QED
      BY <3>1, FS_Subset
  <2>3. IsFiniteSet(D)
    <3> HIDE DEF D
    <3>1. IsFiniteSet(SUBSET Group(qs, m))
      BY <2>2, FS_SUBSET
    <3> QED
      BY <2>1, <3>1, FS_Subset
  <2>4. B \subseteq { g[S] : S \in D }
    BY <2>1 DEF Surebets
  <2> HIDE DEF B, D, g
  <2>5. IsFiniteSet({ g[S] : S \in D })
    BY <2>3, ImageIsFinite
  <2> QED
    BY <2>4, <2>5, FS_Subset
<1>2. \A s \in B : Cents(GuaranteedProfit(s)) \in Int
  BY SurebetTypes, MoneyTypes, Tenths DEF Cents
<1> HIDE DEF B
<1>3. \A s \in B : f[s] \in Int
  BY <1>2
<1>4. \E s \in B : \A t \in B : f[s] <= f[t]
  <2> HIDE DEF f
  <2> DEFINE V == { f[s] : s \in B }
  <2>1. V \in SUBSET Int /\ V # {}
    BY <1>3 DEF B
  <2>2. IsFiniteSet(V)
    BY <1>1, ImageIsFinite
  <2> HIDE DEF V
  <2>3. \E x \in V : \A y \in V : x <= y
    BY <2>1, <2>2, LeastInteger
  <2> QED
    BY <2>3 DEF V
<1>5. \E s \in B : \A t \in B : Cents(GuaranteedProfit(t)) <= Cents(GuaranteedProfit(s))
  BY <1>2, <1>4
<1> QED
  BY <1>5 DEF BestOf, B

\* A surebet pays no less than it takes, whatever the outcome.
LEMMA SurebetPays ==
  ASSUME NEW stakes, IsStakes(stakes), PaysEnough(stakes)
  PROVE  /\ Cents(GuaranteedProfit(stakes)) \in Nat
         /\ \A q \in DOMAIN stakes : /\ Cents(NetReturn(q, stakes[q])) \in Nat
                                     /\ Cents(NetReturn(q, stakes[q])) >= Capital(stakes)
<1> DEFINE cost == CashUsed(stakes)
           gain == GuaranteedProfit(stakes)
<1>1. cost \in Nat /\ gain \in Int /\ MinNetRoi \in Nat
  BY MoneyTypes, EngineAssumption
<1>2. gain \in Nat
  <2>1. 100 * gain >= MinNetRoi * cost /\ MinNetRoi * cost \in Nat
    BY <1>1, Products DEF PaysEnough
  <2> HIDE DEF gain
  <2> QED
    BY <1>1, <2>1
<1>3. Cents(gain) \in Nat
  <2> HIDE DEF gain
  <2> QED
    BY <1>2, Tenths DEF Cents
<1>4. ASSUME NEW q \in DOMAIN stakes
      PROVE  /\ Cents(NetReturn(q, stakes[q])) \in Nat
             /\ Cents(NetReturn(q, stakes[q])) >= Capital(stakes)
  <2> DEFINE pay == NetReturn(q, stakes[q])
             least == GuaranteedReturn(stakes)
  <2>1. pay \in Nat /\ least \in Nat /\ least <= pay /\ gain = least - cost
    BY MoneyTypes DEF GuaranteedProfit
  <2> HIDE DEF pay, least, cost, gain
  <2>2. cost <= pay
    BY <1>1, <1>2, <2>1
  <2>3. pay \div 10 \in Nat /\ cost \div 10 \in Nat /\ cost \div 10 <= pay \div 10
    BY <1>1, <2>1, <2>2, Tenths
  <2> QED
    BY <2>3 DEF Cents, Capital, pay, cost
<1> QED
  BY <1>3, <1>4

---------------------------------------------------------------------------
(* The inductive invariant                                                 *)

Marks == [at : Nat, found : SUBSET Markets]
Positions ==
  [market : Markets, firstSeen : Nat, detected : Nat, settleAt : Nat, capital : Nat,
   return : Nat, outlay : [Books -> Nat], payout : Books \cup {None}]

\* The shape of the state.
TypeInv ==
  /\ config \in Configs
  /\ DOMAIN results = Markets
  /\ \A m \in Markets : results[m] # None => results[m].settledAt \in Nat
  /\ records \in 0..MaxRecords
  /\ now \in Nat /\ quotes \in Snapshots \cup {{}}
  /\ scans \in Seq(Marks) /\ Len(scans) <= MaxScans
  /\ todo \in Seq(Markets)
  /\ qualifying \in [Markets -> Nat \cup {None}]
  /\ \A m \in Markets : qualifying[m] # None => qualifying[m] <= now
  /\ cash \in Nat /\ trades \in Seq(Positions) /\ active \in SUBSET Ids
  /\ exposure \in [Books -> Nat]
  /\ wallets \in [Books -> Nat \cup {None}]

\* A trade pays no less than it took, and its event is over when it is settled.
TradesInv ==
  /\ \A i \in Ids : /\ trades[i].return >= trades[i].capital
                    /\ trades[i].detected <= now
                    /\ trades[i].settleAt >= Commence[trades[i].market] + SettlementDelay
  /\ SettledInTime

\* What is in hand is what there was, less what all trades took, plus what the
\* settled ones gave back.
CashInv ==
  /\ cash = InitialBankroll - SumFunctionOnSet(Capitals, Ids) + SumFunctionOnSet(Returns, Ids \ active)
  /\ ExposureIsOpenOutlay
  /\ ExposureIsCovered

\* A bookmaker without a wallet holds no stake and pays nothing out.
WalletsInv ==
  /\ WalletsAddUp
  /\ Realistic /\ config.enforce /\ Limitless = {} =>
       \A b \in Books : wallets[b] = None =>
         \A i \in Ids : trades[i].outlay[b] = 0 /\ trades[i].payout # b

\* The scans since market m was first seen have all signalled it.
SignalledSince(m, t) ==
  /\ \E j \in DOMAIN scans : scans[j].at = t
  /\ \A j \in DOMAIN scans : scans[j].at >= t => m \in scans[j].found
ScansInv ==
  /\ \A j \in DOMAIN scans : scans[j].at <= now
  /\ \A m \in Markets : qualifying[m] # None => SignalledSince(m, qualifying[m])
  /\ \A k \in DOMAIN todo : SignalledSince(todo[k], now)
  /\ TradesPersisted

---------------------------------------------------------------------------
(* Type correctness                                                        *)

\* A configuration, and its balances as limits.
LEMMA ConfigTypes ==
  ASSUME TypeInv
  PROVE  /\ config \in Config /\ config.available \in Limits
         /\ config.persistence \in Nat /\ config.latency \in Nat
         /\ \A b \in Books : config.available[b] # Unlimited => config.available[b] \in Nat
         /\ \A b \in config.explicit : b \in Books /\ config.available[b] \in Nat
         /\ Unconstrained \in Limits
<1>1. config \in Config
  BY BacktestAssumption DEF TypeInv
<1>2. config.available \in Balances
  BY <1>1 DEF Config
<1>3. \A b \in config.explicit : config.available[b] # Unlimited /\ b \in Books
  BY <1>1, BacktestAssumption DEF TypeInv, Config
<1> QED
  BY <1>1, <1>2, <1>3 DEF Config, Balances, Limits, Unconstrained

\* The terms of the trades' sums.
LEMMA PositionTypes ==
  ASSUME TypeInv
  PROVE  /\ Ids = 1..Len(trades) /\ Len(trades) \in Nat /\ IsFiniteSet(Ids)
         /\ \A i \in Ids : /\ trades[i] \in Positions
                           /\ Capitals[i] = trades[i].capital /\ Capitals[i] \in Nat
                           /\ Returns[i] = trades[i].return /\ Returns[i] \in Nat
                           /\ trades[i].payout \in Books \cup {None}
         /\ \A b \in Books : \A i \in Ids :
              Outlays(b)[i] = trades[i].outlay[b] /\ Outlays(b)[i] \in Nat
         /\ \A D \in SUBSET Ids : /\ IsFiniteSet(D)
                                  /\ SumFunctionOnSet(Capitals, D) \in Nat
                                  /\ SumFunctionOnSet(Returns, D) \in Nat
                                  /\ \A b \in Books : SumFunctionOnSet(Outlays(b), D) \in Nat
                                  /\ \A b : PaidAt(D, b) \in Nat
<1>1. Ids = 1..Len(trades) /\ Len(trades) \in Nat /\ \A i \in Ids : trades[i] \in Positions
  BY DEF TypeInv, Ids
<1>2. IsFiniteSet(Ids)
  BY <1>1, FS_Interval
<1>3. \A i \in Ids : /\ Capitals[i] = trades[i].capital /\ Capitals[i] \in Nat
                     /\ Returns[i] = trades[i].return /\ Returns[i] \in Nat
                     /\ trades[i].payout \in Books \cup {None}
  BY <1>1 DEF Capitals, Returns, Positions
<1>4. \A b \in Books : \A i \in Ids : Outlays(b)[i] = trades[i].outlay[b] /\ Outlays(b)[i] \in Nat
  BY <1>1 DEF Outlays, Positions
<1>5. ASSUME NEW D \in SUBSET Ids
      PROVE  /\ IsFiniteSet(D)
             /\ SumFunctionOnSet(Capitals, D) \in Nat
             /\ SumFunctionOnSet(Returns, D) \in Nat
             /\ \A b \in Books : SumFunctionOnSet(Outlays(b), D) \in Nat
             /\ \A b : PaidAt(D, b) \in Nat
  <2>1. IsFiniteSet(D)
    BY <1>2, FS_Subset
  <2>2. SumFunctionOnSet(Capitals, D) \in Nat /\ SumFunctionOnSet(Returns, D) \in Nat
    BY <1>3, <2>1, SumType
  <2>3. \A b \in Books : SumFunctionOnSet(Outlays(b), D) \in Nat
    BY <1>4, <2>1, SumType
  <2>4. ASSUME NEW b PROVE PaidAt(D, b) \in Nat
    <3> DEFINE T == { i \in D : trades[i].payout = b }
    <3>1. IsFiniteSet(T) /\ \A i \in T : Returns[i] \in Nat
      BY <1>3, <2>1, FS_Subset
    <3> HIDE DEF T
    <3>2. SumFunctionOnSet(Returns, T) \in Nat
      BY <3>1, SumType
    <3> QED
      BY <3>2 DEF PaidAt, T
  <2> QED
    BY <2>1, <2>2, <2>3, <2>4
<1> QED
  BY <1>1, <1>2, <1>3, <1>4, <1>5

\* The larger of two numbers.
LEMMA MaxOfTwo ==
  ASSUME NEW x \in Int, NEW y \in Int
  PROVE  /\ Max({x, y}) \in Int /\ Max({x, y}) >= x /\ Max({x, y}) >= y
         /\ Max({x, y}) = x \/ Max({x, y}) = y
<1>1. \E z \in {x, y} : \A w \in {x, y} : z >= w
  OBVIOUS
<1>2. Max({x, y}) \in {x, y} /\ \A w \in {x, y} : Max({x, y}) >= w
  BY <1>1 DEF Max
<1> QED
  BY <1>2

\* A number, or zero if it is below.
LEMMA NotBelowZero ==
  \A x \in Int : Max({0, x}) \in Nat /\ (x >= 0 => Max({0, x}) = x)
<1> SUFFICES ASSUME NEW x \in Int PROVE Max({0, x}) \in Nat /\ (x >= 0 => Max({0, x}) = x)
  OBVIOUS
<1>1. 0 \in Int
  OBVIOUS
<1>2. /\ Max({0, x}) \in Int /\ Max({0, x}) >= 0 /\ Max({0, x}) >= x
      /\ Max({0, x}) = 0 \/ Max({0, x}) = x
  BY <1>1, MaxOfTwo
<1> QED
  BY <1>2

\* The smaller of two numbers.
LEMMA MinOfTwo ==
  ASSUME NEW x \in Int, NEW y \in Int
  PROVE  Min({x, y}) \in Int /\ (Min({x, y}) = x \/ Min({x, y}) = y)
<1>1. \E z \in {x, y} : \A w \in {x, y} : z <= w
  OBVIOUS
<1>2. Min({x, y}) \in {x, y}
  BY <1>1 DEF Min
<1> QED
  BY <1>2

\* The initial state has the types.
LEMMA TypeInit == Init => TypeInv
<1> SUFFICES ASSUME Init PROVE TypeInv
  OBVIOUS
<1>1. /\ config \in Config /\ config.available \in Balances
      /\ \A b \in config.explicit : config.available[b] # Unlimited
  BY BacktestAssumption DEF Init, Config
<1>2. wallets \in [Books -> Nat \cup {None}]
  BY <1>1 DEF Init, Balances
<1>3. trades \in Seq(Positions) /\ active \in SUBSET Ids /\ scans \in Seq(Marks) /\ todo \in Seq(Markets)
      /\ Len(scans) = 0
  BY DEF Init, Ids
<1>4. /\ cash \in Nat /\ 0 \in 0..MaxRecords /\ 0 <= MaxScans
      /\ now = 0 /\ records = 0 /\ quotes = {}
      /\ exposure \in [Books -> Nat] /\ qualifying \in [Markets -> Nat \cup {None}]
      /\ \A m \in Markets : qualifying[m] = None
      /\ DOMAIN results = Markets /\ \A m \in Markets : results[m] = None
  BY BacktestAssumption DEF Init
<1> QED
  BY <1>2, <1>3, <1>4 DEF TypeInv, Init

\* A scan's signals: a quote set, some markets, and an order of them.
LEMMA SignalTypes ==
  ASSUME NEW signals \in Signals
  PROVE  /\ signals.quotes \in Snapshots /\ signals.found \in SUBSET Markets
         /\ \A s \in signals.orders :
              /\ s \in Seq(Markets) /\ \A k \in DOMAIN s : s[k] \in signals.found
<1>1. PICK qs \in Snapshots :
        signals = [quotes |-> qs, found |-> Found(qs), orders |-> Orders(qs)]
  BY DEF Signals
<1>2. Found(qs) \in SUBSET Markets
  BY DEF Found
<1>3. Cardinality(Found(qs)) \in Nat
  BY <1>2, BacktestAssumption, FS_Subset, FS_CardinalityType
<1>4. ASSUME NEW s \in Orders(qs)
      PROVE  s \in Seq(Markets) /\ \A k \in DOMAIN s : s[k] \in Found(qs)
  <2> DEFINE n == Cardinality(Found(qs))
             F == Found(qs)
  <2>1. s \in [1..n -> F] /\ n \in Nat /\ F \in SUBSET Markets
    BY <1>2, <1>3 DEF Orders
  <2> HIDE DEF n, F
  <2>2. s \in Seq(Markets) /\ \A k \in DOMAIN s : s[k] \in F
    BY <2>1
  <2> QED
    BY <2>2 DEF F
<1> QED
  BY <1>1, <1>2, <1>4

\* A replayed scan keeps the types.
LEMMA ScanTypes ==
  ASSUME TypeInv, NEW signals \in Signals, NEW gap \in Gaps, Scan(signals, now + gap)
  PROVE  TypeInv'
<1> DEFINE due == Due(now + gap)
<1>1. due \in SUBSET Ids
  BY DEF Due, TypeInv
<1>2. now \in Nat /\ gap \in Nat \ {0} /\ now' = now + gap /\ now' \in Nat /\ now <= now'
  BY BacktestAssumption DEF TypeInv, Scan
<1>3. cash' \in Nat
  <2>1. cash' = cash + SumFunctionOnSet(Returns, due)
    BY DEF Scan, Settled
  <2>2. SumFunctionOnSet(Returns, due) \in Nat
    BY <1>1, PositionTypes
  <2> QED
    BY <2>1, <2>2 DEF TypeInv
<1>4. exposure' \in [Books -> Nat]
  <2>1. exposure' = [b \in Books |-> Max({0, exposure[b] - SumFunctionOnSet(Outlays(b), due)})]
    BY DEF Scan, Released
  <2>2. ASSUME NEW b \in Books
        PROVE  Max({0, exposure[b] - SumFunctionOnSet(Outlays(b), due)}) \in Nat
    <3> DEFINE x == exposure[b] - SumFunctionOnSet(Outlays(b), due)
    <3>1. SumFunctionOnSet(Outlays(b), due) \in Nat /\ exposure[b] \in Nat
      BY <1>1, PositionTypes DEF TypeInv
    <3>2. x \in Int
      BY <3>1
    <3> HIDE DEF x
    <3> QED
      BY <3>2, NotBelowZero DEF x
  <2> QED
    BY <2>1, <2>2
<1>5. wallets' \in [Books -> Nat \cup {None}]
  <2>1. wallets' = [b \in Books |->
          IF \E i \in due : trades[i].payout = b
          THEN (IF wallets[b] = None THEN 0 ELSE wallets[b]) + PaidAt(due, b)
          ELSE wallets[b]]
    BY DEF Scan, Credited
  <2>2. \A b \in Books : PaidAt(due, b) \in Nat /\ wallets[b] \in Nat \cup {None}
    BY <1>1, PositionTypes DEF TypeInv
  <2> HIDE DEF due
  <2> QED
    BY <2>1, <2>2
<1>6. quotes' \in Snapshots \cup {{}} /\ signals.found \in SUBSET Markets
  BY SignalTypes DEF Scan
<1>7. scans' \in Seq(Marks) /\ Len(scans') <= MaxScans
  <2>1. [at |-> now + gap, found |-> signals.found] \in Marks
    BY <1>2, <1>6 DEF Marks
  <2>2. scans' = Append(scans, [at |-> now + gap, found |-> signals.found])
        /\ Len(scans) < MaxScans /\ scans \in Seq(Marks) /\ MaxScans \in Nat
    BY BacktestAssumption DEF Scan, TypeInv
  <2> QED
    BY <2>1, <2>2
<1>8. todo' \in Seq(Markets)
  BY SignalTypes DEF Scan
<1>9. /\ qualifying' \in [Markets -> Nat \cup {None}]
      /\ \A m \in Markets : qualifying'[m] # None => qualifying'[m] <= now'
  <2>1. qualifying' = [m \in Markets |-> IF m \in signals.found THEN qualifying[m] ELSE None]
    BY DEF Scan, Forgotten
  <2>2. \A m \in Markets : /\ qualifying[m] \in Nat \cup {None}
                           /\ qualifying[m] # None => qualifying[m] <= now
    BY DEF TypeInv
  <2> QED
    BY <1>2, <2>1, <2>2
<1>10. trades' = trades /\ Ids' = Ids /\ active' \in SUBSET Ids'
  BY DEF Scan, Ids, TypeInv
<1>11. config' = config /\ results' = results /\ records' = records
  BY DEF Scan, Inputs
<1> QED
  BY <1>2, <1>3, <1>4, <1>5, <1>6, <1>7, <1>8, <1>9, <1>10, <1>11 DEF TypeInv

\* What may be staked when a signal is looked at.
LEMMA LimitsNow ==
  ASSUME TypeInv
  PROVE  /\ Ensured \in [Books -> Nat \cup {None}]
         /\ \A b \in Books : Ensured[b] = wallets[b] \/ (wallets[b] = None /\ Ensured[b] = config.available[b])
         /\ ExecutionLiquidity \in Limits /\ Allocation \in Int
<1>1. /\ config.available \in Limits /\ Unconstrained \in Limits
      /\ \A b \in Books : config.available[b] # Unlimited => config.available[b] \in Nat
      /\ \A b \in Books : config.available[b] \in Int \cup {Unlimited}
  BY ConfigTypes DEF Limits
<1>2. /\ Ensured \in [Books -> Nat \cup {None}]
      /\ \A b \in Books : Ensured[b] = wallets[b] \/ (wallets[b] = None /\ Ensured[b] = config.available[b])
  BY <1>1 DEF Ensured, TypeInv
<1>3. ExecutionLiquidity \in Limits
  <2>1. \A b \in Books : exposure[b] \in Nat
    BY DEF TypeInv
  <2>2. ASSUME NEW b \in Books, config.available[b] # Unlimited
        PROVE  Max({0, config.available[b] - exposure[b]}) \in Int
    <3> DEFINE x == config.available[b] - exposure[b]
    <3>1. x \in Int
      BY <1>1, <2>1, <2>2
    <3> HIDE DEF x
    <3> QED
      BY <3>1, NotBelowZero DEF x
  <2>3. [b \in Books |-> IF Ensured[b] # None THEN Ensured[b] ELSE config.available[b]] \in Limits
    BY <1>1, <1>2 DEF Limits
  <2>4. [b \in Books |-> IF config.available[b] = Unlimited THEN Unlimited
                         ELSE Max({0, config.available[b] - exposure[b]})] \in Limits
    BY <2>2 DEF Limits
  <2> QED
    BY <1>1, <2>3, <2>4 DEF ExecutionLiquidity
<1>4. Allocation \in Int
  <2>1. StakePerOpportunity \in Int /\ cash \in Int
    BY BacktestAssumption DEF TypeInv
  <2>2. Min({StakePerOpportunity, cash}) \in Int
    BY <2>1, MinOfTwo
  <2> QED
    BY <2>2 DEF Allocation
<1> QED
  BY <1>2, <1>3, <1>4

\* Stakes that are traded: a surebet of the quotes within the limits, which passes
\* the last checks.
Chosen(m, stakes) ==
  /\ IsStakes(stakes) /\ DOMAIN stakes \in SUBSET quotes
  /\ Acceptable(stakes, Allocation, ExecutionLiquidity)
  /\ Fillable(m, stakes)

\* What a signal that may be traded leads to.
LEMMA SignalOutcomes ==
  ASSUME TypeInv, NEW m \in Markets, TrySignal(m)
  PROVE  /\ NextSignal(m) /\ Tradable(m)
         /\ Rejected \/ \E stakes : Chosen(m, stakes) /\ Traded(m, stakes)
<1>1. NextSignal(m) /\ Tradable(m)
  BY DEF TrySignal
<1>2. PICK stakes : stakes = BestOf(Executable(m))
  OBVIOUS
<1>3. IF Executable(m) # {} /\ Fillable(m, stakes) THEN Traded(m, stakes) ELSE Rejected
  BY <1>2 DEF TrySignal
<1>4. CASE Executable(m) # {} /\ Fillable(m, stakes)
  <2>1. quotes \in Snapshots \cup {{}} /\ Allocation \in Int /\ ExecutionLiquidity \in Limits
    BY LimitsNow DEF TypeInv
  <2>2. stakes \in Surebets(quotes, m, Allocation, ExecutionLiquidity)
    BY <1>2, <1>4, <2>1, BestIsOne DEF Executable
  <2>3. /\ IsStakes(stakes) /\ DOMAIN stakes \in SUBSET quotes
        /\ Acceptable(stakes, Allocation, ExecutionLiquidity)
    BY <2>1, <2>2, SurebetTypes
  <2> QED
    BY <1>1, <1>3, <1>4, <2>3 DEF Chosen
<1>5. CASE ~ (Executable(m) # {} /\ Fillable(m, stakes))
  BY <1>1, <1>3, <1>5
<1> QED
  BY <1>4, <1>5

\* A trade is a position: it pays no less than it takes, is settled when its event
\* is over at the earliest, and pays out where a leg was placed.
LEMMA TradeTypes ==
  ASSUME TypeInv, NEW m \in Markets, NEW stakes, Tradable(m), Chosen(m, stakes)
  PROVE  /\ Trade(m, stakes) \in Positions
         /\ Trade(m, stakes).return >= Trade(m, stakes).capital
         /\ Trade(m, stakes).settleAt >= Commence[m] + SettlementDelay
         /\ Trade(m, stakes).payout = None
              \/ \E q \in DOMAIN stakes : q.book = Trade(m, stakes).payout
         /\ Capital(stakes) \in Nat /\ Capital(stakes) <= cash
         /\ \A b : OutlayAt(stakes, b) \in Nat
<1> DEFINE win == CHOOSE q \in WinningLeg(m, stakes) : TRUE
<1>1. /\ IsStakes(stakes) /\ PaysEnough(stakes) /\ Capital(stakes) <= cash
      /\ Realistic => WinningLeg(m, stakes) # {}
  BY DEF Chosen, Acceptable, Fillable
<1>2. Realistic => win \in DOMAIN stakes
  BY <1>1 DEF WinningLeg
<1>3. Realistic => win.book \in Books
  BY <1>1, <1>2, QuoteTypes DEF IsStakes
<1>4. Capital(stakes) \in Nat /\ \A b : OutlayAt(stakes, b) \in Nat
  BY <1>1, MoneyTypes
<1>5. Return(m, stakes) \in Nat /\ Return(m, stakes) >= Capital(stakes)
  <2>1. /\ Cents(GuaranteedProfit(stakes)) \in Nat
        /\ \A q \in DOMAIN stakes : /\ Cents(NetReturn(q, stakes[q])) \in Nat
                                    /\ Cents(NetReturn(q, stakes[q])) >= Capital(stakes)
    BY <1>1, SurebetPays
  <2>2. CASE Realistic
    <3>1. Return(m, stakes) = Cents(NetReturn(win, stakes[win]))
      BY <2>2 DEF Return
    <3> HIDE DEF win
    <3> QED
      BY <1>2, <2>1, <2>2, <3>1
  <2>3. CASE ~ Realistic
    <3>1. Return(m, stakes) = Capital(stakes) + Cents(GuaranteedProfit(stakes))
      BY <2>3 DEF Return
    <3> QED
      BY <1>4, <2>1, <3>1
  <2> QED
    BY <2>2, <2>3
<1>6. SettleAt(m) \in Nat /\ SettleAt(m) >= Commence[m] + SettlementDelay
  <2> DEFINE over == Commence[m] + SettlementDelay
  <2>1. over \in Nat
    BY BacktestAssumption
  <2>2. CASE Realistic
    <3> DEFINE told == results[m].settledAt
    <3>1. told \in Nat
      BY <2>2 DEF Tradable, TypeInv
    <3>2. SettleAt(m) = Max({over, told})
      BY <2>2 DEF SettleAt
    <3> HIDE DEF told, over
    <3>3. Max({over, told}) \in Nat /\ Max({over, told}) >= over
      BY <2>1, <3>1, MaxOfTwo
    <3> QED
      BY <3>2, <3>3 DEF over
  <2>3. CASE ~ Realistic
    BY <2>1, <2>3 DEF SettleAt
  <2> QED
    BY <2>2, <2>3
<1>7. FirstSeen(m) \in Nat /\ now \in Nat
  BY DEF FirstSeen, TypeInv
<1>8. [b \in Books |-> OutlayAt(stakes, b)] \in [Books -> Nat]
  BY <1>4
<1>9. (IF Realistic THEN win.book ELSE None) \in Books \cup {None}
  BY <1>3
<1>10. Trade(m, stakes)
        = [market |-> m, firstSeen |-> FirstSeen(m), detected |-> now,
           settleAt |-> SettleAt(m), capital |-> Capital(stakes), return |-> Return(m, stakes),
           outlay |-> [b \in Books |-> OutlayAt(stakes, b)],
           payout |-> IF Realistic THEN win.book ELSE None]
  BY DEF Trade
<1> HIDE DEF win
<1>11. Trade(m, stakes) \in Positions
  BY <1>4, <1>5, <1>6, <1>7, <1>8, <1>9, <1>10 DEF Positions
<1>12. Trade(m, stakes).payout = None \/ \E q \in DOMAIN stakes : q.book = Trade(m, stakes).payout
  BY <1>2, <1>10
<1> QED
  BY <1>1, <1>4, <1>5, <1>6, <1>10, <1>11, <1>12

\* What stays as it is when the next signal is taken.
LEMMA NextSignalTypes ==
  ASSUME TypeInv, NEW m \in Markets, NextSignal(m)
  PROVE  /\ config' = config /\ results' = results /\ records' = records
         /\ now' = now /\ scans' = scans /\ quotes' = quotes
         /\ todo' \in Seq(Markets) /\ todo # <<>> /\ m = todo[1]
         /\ \A k \in DOMAIN todo' : k + 1 \in DOMAIN todo /\ todo'[k] = todo[k + 1]
         /\ FirstSeen(m) \in Nat /\ FirstSeen(m) <= now
         /\ qualifying' = [qualifying EXCEPT ![m] = FirstSeen(m)]
         /\ qualifying' \in [Markets -> Nat \cup {None}]
         /\ \A o \in Markets : qualifying'[o] # None => qualifying'[o] <= now
<1>1. /\ config' = config /\ results' = results /\ records' = records
      /\ now' = now /\ scans' = scans /\ quotes' = quotes
      /\ todo # <<>> /\ m = Head(todo) /\ todo' = Tail(todo)
      /\ qualifying' = [qualifying EXCEPT ![m] = FirstSeen(m)]
  BY DEF NextSignal, Inputs
<1>2. /\ todo \in Seq(Markets) /\ now \in Nat
      /\ qualifying \in [Markets -> Nat \cup {None}]
      /\ \A o \in Markets : qualifying[o] # None => qualifying[o] <= now
  BY DEF TypeInv
<1>3. /\ todo' \in Seq(Markets) /\ m = todo[1]
      /\ \A k \in DOMAIN todo' : k + 1 \in DOMAIN todo /\ todo'[k] = todo[k + 1]
  BY <1>1, <1>2
<1>4. FirstSeen(m) \in Nat /\ FirstSeen(m) <= now
  BY <1>2 DEF FirstSeen
<1>5. /\ qualifying' \in [Markets -> Nat \cup {None}]
      /\ \A o \in Markets : qualifying'[o] # None => qualifying'[o] <= now
  BY <1>1, <1>2, <1>4
<1> QED
  BY <1>1, <1>3, <1>4, <1>5

\* A signal that is passed over or refused keeps the types.
LEMMA RefusedTypes ==
  ASSUME TypeInv, NEW m \in Markets, NextSignal(m), UNCHANGED Books_,
         wallets' \in [Books -> Nat \cup {None}]
  PROVE  TypeInv'
<1>1. cash' = cash /\ trades' = trades /\ active' = active /\ exposure' = exposure /\ Ids' = Ids
  BY DEF Books_, Ids
<1> QED
  BY <1>1, NextSignalTypes DEF TypeInv

\* What a trade adds to the positions.
LEMMA TradedPositions ==
  ASSUME TypeInv, NEW m \in Markets, NEW stakes, Tradable(m), Chosen(m, stakes), Traded(m, stakes)
  PROVE  /\ trades' = Append(trades, Trade(m, stakes)) /\ trades' \in Seq(Positions)
         /\ Ids' = Ids \cup {Len(trades) + 1} /\ Len(trades) + 1 \notin Ids
         /\ \A i \in Ids : trades'[i] = trades[i]
         /\ trades'[Len(trades) + 1] = Trade(m, stakes)
         /\ active' = active \cup {Len(trades) + 1} /\ active' \in SUBSET Ids'
<1>1. trades' = Append(trades, Trade(m, stakes)) /\ active' = active \cup {Len(trades) + 1}
  BY DEF Traded
<1>2. trades \in Seq(Positions) /\ active \in SUBSET Ids /\ Trade(m, stakes) \in Positions
  BY TradeTypes DEF TypeInv
<1>3. Ids' = DOMAIN trades' /\ Ids = DOMAIN trades
  BY DEF Ids
<1> QED
  BY <1>1, <1>2, <1>3

\* A trade keeps the types.
LEMMA TradedTypes ==
  ASSUME TypeInv, NEW m \in Markets, NEW stakes, NextSignal(m), Tradable(m),
         Chosen(m, stakes), Traded(m, stakes)
  PROVE  TypeInv'
<1>1. /\ Capital(stakes) \in Nat /\ Capital(stakes) <= cash /\ cash \in Nat
      /\ \A b : OutlayAt(stakes, b) \in Nat
  BY TradeTypes DEF TypeInv
<1>2. cash' \in Nat
  BY <1>1 DEF Traded
<1>3. exposure' \in [Books -> Nat]
  <2>1. \A b \in Books : exposure[b] \in Nat
    BY DEF TypeInv
  <2> QED
    BY <1>1, <2>1 DEF Traded
<1>4. wallets' \in [Books -> Nat \cup {None}]
  <2>1. wallets' = [b \in Books |->
          IF Ensured[b] # None /\ Realistic /\ config.enforce
          THEN Ensured[b] - OutlayAt(stakes, b) ELSE Ensured[b]]
    BY DEF Traded, Debited
  <2>2. \A b \in Books : Ensured[b] \in Nat \cup {None}
    BY LimitsNow
  <2>3. Realistic /\ config.enforce =>
          \A b \in Books : Ensured[b] # None => Ensured[b] >= OutlayAt(stakes, b)
    BY DEF Chosen, Fillable
  <2> QED
    BY <1>1, <2>1, <2>2, <2>3
<1>5. trades' \in Seq(Positions) /\ active' \in SUBSET Ids'
  BY TradedPositions
<1>6. /\ config' = config /\ results' = results /\ records' = records
      /\ now' = now /\ scans' = scans /\ quotes' = quotes
      /\ todo' \in Seq(Markets)
      /\ qualifying' \in [Markets -> Nat \cup {None}]
      /\ \A o \in Markets : qualifying'[o] # None => qualifying'[o] <= now
  BY NextSignalTypes
<1> QED
  BY <1>2, <1>3, <1>4, <1>5, <1>6 DEF TypeInv

\* A recorded result keeps the types.
LEMMA RecordTypes ==
  ASSUME TypeInv, NEW m \in Markets, NEW w, NEW t \in ResultTimes, RecordResult(m, w, t)
  PROVE  TypeInv'
<1>1. /\ config' = config /\ now' = now /\ scans' = scans /\ quotes' = quotes /\ todo' = todo
      /\ qualifying' = qualifying /\ cash' = cash /\ trades' = trades /\ active' = active
      /\ exposure' = exposure /\ wallets' = wallets /\ Ids' = Ids
  BY DEF RecordResult, Books_, Ids
<1>2. records' \in 0..MaxRecords
  BY BacktestAssumption DEF RecordResult, TypeInv
<1>3. /\ DOMAIN results' = Markets
      /\ \A o \in Markets : results'[o] # None => results'[o].settledAt \in Nat
  <2>1. t \in Nat
    BY BacktestAssumption
  <2>2. results' = [results EXCEPT ![m] = [winner |-> w, settledAt |-> t]]
    BY DEF RecordResult
  <2>3. DOMAIN results = Markets /\ \A o \in Markets : results[o] # None => results[o].settledAt \in Nat
    BY DEF TypeInv
  <2>4. DOMAIN results' = Markets
    BY <2>2, <2>3
  <2>5. ASSUME NEW o \in Markets, results'[o] # None PROVE results'[o].settledAt \in Nat
    <3>1. CASE o = m
      BY <2>1, <2>2, <2>3, <3>1
    <3>2. CASE o # m
      BY <2>2, <2>3, <2>5, <3>2
    <3> QED
      BY <3>1, <3>2
  <2> QED
    BY <2>4, <2>5
<1> QED
  BY <1>1, <1>2, <1>3 DEF TypeInv

\* Every step keeps the types.
LEMMA TypeStep == TypeInv /\ [Next]_vars => TypeInv'
<1> SUFFICES ASSUME TypeInv, [Next]_vars PROVE TypeInv'
  OBVIOUS
<1>1. ASSUME NEW signals \in Signals, NEW gap \in Gaps, Scan(signals, now + gap)
      PROVE  TypeInv'
  BY <1>1, ScanTypes
<1>2. ASSUME NEW m \in Markets, PassSignal(m) PROVE TypeInv'
  <2>1. NextSignal(m) /\ UNCHANGED Books_ /\ wallets' = wallets
    BY <1>2 DEF PassSignal
  <2>2. wallets' \in [Books -> Nat \cup {None}]
    BY <2>1 DEF TypeInv
  <2> QED
    BY <2>1, <2>2, RefusedTypes
<1>3. ASSUME NEW m \in Markets, TrySignal(m) PROVE TypeInv'
  <2>1. NextSignal(m) /\ Tradable(m)
    BY <1>3, SignalOutcomes
  <2>2. CASE Rejected
    <3>1. UNCHANGED Books_ /\ wallets' = Ensured
      BY <2>2 DEF Rejected
    <3>2. wallets' \in [Books -> Nat \cup {None}]
      BY <3>1, LimitsNow
    <3> QED
      BY <2>1, <3>1, <3>2, RefusedTypes
  <2>3. ASSUME NEW stakes, Chosen(m, stakes), Traded(m, stakes) PROVE TypeInv'
    BY <2>1, <2>3, TradedTypes
  <2> QED
    BY <1>3, <2>2, <2>3, SignalOutcomes
<1>4. ASSUME NEW m \in Markets, NEW w, NEW t \in ResultTimes, RecordResult(m, w, t) PROVE TypeInv'
  BY <1>4, RecordTypes
<1>5. CASE UNCHANGED vars
  <2>1. /\ config' = config /\ results' = results /\ records' = records /\ now' = now
        /\ scans' = scans /\ quotes' = quotes /\ todo' = todo /\ qualifying' = qualifying
        /\ cash' = cash /\ trades' = trades /\ active' = active /\ exposure' = exposure
        /\ wallets' = wallets /\ Ids' = Ids
    BY <1>5 DEF vars, Ids
  <2> QED
    BY <2>1 DEF TypeInv
<1> QED
  BY <1>1, <1>2, <1>3, <1>4, <1>5 DEF Next

\* The shape of the state is invariant.
LEMMA TypeInvariant == Spec => []TypeInv
<1>1. Init => TypeInv
  BY TypeInit
<1>2. TypeInv /\ [Next]_vars => TypeInv'
  BY TypeStep
<1> QED
  BY <1>1, <1>2, PTL DEF Spec

\* Cash, wallets and positions never go below zero, whatever costs, limits and
\* results a run meets, and scans and signals are what they should be (run_backtest).
THEOREM TypeCorrect == Spec => []TypeOK
<1>1. TypeInv => TypeOK
  <2> SUFFICES ASSUME TypeInv PROVE TypeOK
    OBVIOUS
  <2>1. \A k \in DOMAIN todo : todo[k] \in Markets
    BY DEF TypeInv
  <2>2. \A m \in Markets : qualifying[m] = None \/ qualifying[m] \in 0..now
    BY DEF TypeInv
  <2> QED
    BY <2>1, <2>2 DEF TypeInv, TypeOK
<1> QED
  BY <1>1, TypeInvariant, PTL

---------------------------------------------------------------------------
(* Trades pay and are settled in time                                      *)

\* Nothing but the replay of a scan moves the clock, and nothing but a trade is
\* added to the trades: the steps, for the proofs that follow.
LEMMA Steps ==
  ASSUME TypeInv, [Next]_vars
  PROVE  \/ \E signals \in Signals, gap \in Gaps : Scan(signals, now + gap)
         \/ \E m \in Markets : NextSignal(m) /\ UNCHANGED Books_ /\ wallets' = wallets
         \/ \E m \in Markets : NextSignal(m) /\ UNCHANGED Books_ /\ wallets' = Ensured
         \/ \E m \in Markets : \E stakes : /\ NextSignal(m) /\ Tradable(m)
                                           /\ Chosen(m, stakes) /\ Traded(m, stakes)
         \/ /\ config' = config /\ now' = now /\ scans' = scans /\ quotes' = quotes /\ todo' = todo
            /\ qualifying' = qualifying /\ UNCHANGED Books_ /\ wallets' = wallets
<1>1. ASSUME NEW m \in Markets, PassSignal(m)
      PROVE  NextSignal(m) /\ UNCHANGED Books_ /\ wallets' = wallets
  BY <1>1 DEF PassSignal
<1>2. ASSUME NEW m \in Markets, TrySignal(m), ~ \E stakes : Chosen(m, stakes) /\ Traded(m, stakes)
      PROVE  NextSignal(m) /\ UNCHANGED Books_ /\ wallets' = Ensured
  <2>1. NextSignal(m) /\ Rejected
    BY <1>2, SignalOutcomes
  <2> QED
    BY <2>1 DEF Rejected
<1>3. ASSUME NEW m \in Markets, TrySignal(m), NEW stakes, Chosen(m, stakes), Traded(m, stakes)
      PROVE  NextSignal(m) /\ Tradable(m) /\ Chosen(m, stakes) /\ Traded(m, stakes)
  BY <1>3, SignalOutcomes
<1>4. ASSUME NEW m \in Markets, NEW w, NEW t, RecordResult(m, w, t)
      PROVE  /\ config' = config /\ now' = now /\ scans' = scans /\ quotes' = quotes /\ todo' = todo
             /\ qualifying' = qualifying /\ UNCHANGED Books_ /\ wallets' = wallets
  BY <1>4 DEF RecordResult
<1>5. CASE UNCHANGED vars
  BY <1>5 DEF vars, Books_
<1>6. CASE Next
  BY <1>1, <1>2, <1>3, <1>4, <1>6 DEF Next
<1> QED
  BY <1>5, <1>6

\* What a scan leaves of the positions.
LEMMA ScanPositions ==
  ASSUME TypeInv, NEW signals \in Signals, NEW gap \in Gaps, Scan(signals, now + gap)
  PROVE  /\ config' = config /\ trades' = trades /\ Ids' = Ids
         /\ now' = now + gap /\ now' > now /\ now' \in Nat /\ now \in Nat
         /\ active' = active \ Due(now') /\ Due(now') \in SUBSET active /\ active \in SUBSET Ids
         /\ \A i \in Ids : /\ i \in Due(now') => trades[i].settleAt <= now'
                           /\ i \in active' => trades[i].settleAt > now'
<1>1. now \in Nat /\ gap \in Nat \ {0} /\ now' = now + gap
  BY BacktestAssumption DEF TypeInv, Scan
<1>2. config' = config /\ trades' = trades /\ active' = active \ Due(now') /\ Ids' = Ids
  BY <1>1 DEF Scan, Inputs, Ids
<1>3. Due(now') = { i \in active : trades[i].settleAt <= now' }
  BY DEF Due
<1>4. active \in SUBSET Ids /\ \A i \in Ids : trades[i].settleAt \in Nat
  BY PositionTypes DEF TypeInv, Positions
<1>5. now' > now /\ now' \in Nat
  BY <1>1
<1>6. ASSUME NEW i \in Ids, i \in active' PROVE trades[i].settleAt > now'
  BY <1>2, <1>3, <1>4, <1>5, <1>6
<1> QED
  BY <1>1, <1>2, <1>3, <1>4, <1>5, <1>6

\* What the steps do to a trade's payout and settlement.
LEMMA TradesStep == TypeInv /\ TradesInv /\ [Next]_vars => TradesInv'
<1> SUFFICES ASSUME TypeInv, TradesInv, [Next]_vars PROVE TradesInv'
  OBVIOUS
<1> DEFINE Over(i) == trades[i].settleAt >= Commence[trades[i].market] + SettlementDelay
<1>1. /\ Ids = DOMAIN trades /\ active \in SUBSET Ids /\ now \in Nat
      /\ \A i \in Ids : /\ trades[i].market \in Markets /\ trades[i].settleAt \in Nat
                        /\ trades[i].detected \in Nat
      /\ \A m \in Markets : Commence[m] + SettlementDelay \in Nat
  <2>1. Ids = DOMAIN trades /\ active \in SUBSET Ids /\ now \in Nat
    BY DEF TypeInv, Ids
  <2>2. \A i \in Ids : trades[i] \in Positions
    BY PositionTypes
  <2>3. \A m \in Markets : Commence[m] + SettlementDelay \in Nat
    BY BacktestAssumption
  <2> QED
    BY <2>1, <2>2, <2>3 DEF Positions
<1>2. /\ \A i \in Ids : trades[i].return >= trades[i].capital /\ trades[i].detected <= now /\ Over(i)
      /\ \A i \in Ids \ active : now >= Commence[trades[i].market] + SettlementDelay
      /\ \A i \in active : trades[i].settleAt > now \/ trades[i].detected = now
  BY DEF TradesInv, SettledInTime
<1>3. ASSUME NEW signals \in Signals, NEW gap \in Gaps, Scan(signals, now + gap) PROVE TradesInv'
  <2>1. /\ trades' = trades /\ Ids' = Ids /\ now' > now /\ now' \in Nat
        /\ active' = active \ Due(now')
        /\ \A i \in Ids : /\ i \in Due(now') => trades[i].settleAt <= now'
                          /\ i \in active' => trades[i].settleAt > now'
    BY <1>3, ScanPositions
  <2>2. \A i \in Ids : trades[i].detected <= now'
    BY <1>1, <1>2, <2>1
  <2>3. ASSUME NEW i \in Ids \ active' PROVE now' >= Commence[trades[i].market] + SettlementDelay
    <3>1. CASE i \in active
      BY <1>1, <1>2, <2>1, <3>1
    <3>2. CASE i \notin active
      BY <1>1, <1>2, <2>1, <3>2
    <3> QED
      BY <3>1, <3>2
  <2>4. active' \in SUBSET Ids
    BY <1>1, <2>1
  <2> QED
    BY <1>2, <2>1, <2>2, <2>3, <2>4 DEF TradesInv, SettledInTime
<1>4. ASSUME NEW m \in Markets, NEW stakes, NextSignal(m), Tradable(m),
             Chosen(m, stakes), Traded(m, stakes)
      PROVE  TradesInv'
  <2> DEFINE n == Len(trades) + 1
             t == Trade(m, stakes)
  <2>1. /\ t.return >= t.capital /\ t.settleAt >= Commence[m] + SettlementDelay
        /\ t.market = m /\ t.detected = now
    BY <1>4, TradeTypes DEF Trade
  <2>2. /\ Ids' = Ids \cup {n} /\ n \notin Ids /\ active' = active \cup {n}
        /\ \A i \in Ids : trades'[i] = trades[i]
        /\ trades'[n] = t
    BY <1>4, TradedPositions
  <2>3. now' = now
    BY <1>4, NextSignalTypes
  <2> HIDE DEF n, t
  <2>4. \A i \in Ids' : /\ trades'[i].return >= trades'[i].capital /\ trades'[i].detected <= now'
                        /\ trades'[i].settleAt >= Commence[trades'[i].market] + SettlementDelay
    BY <1>1, <1>2, <2>1, <2>2, <2>3
  <2>5. \A i \in Ids' \ active' : now' >= Commence[trades'[i].market] + SettlementDelay
    BY <1>2, <2>2, <2>3
  <2>6. \A i \in active' : trades'[i].settleAt > now' \/ trades'[i].detected = now'
    BY <1>1, <1>2, <2>1, <2>2, <2>3
  <2> QED
    BY <2>4, <2>5, <2>6 DEF TradesInv, SettledInTime
<1>5. ASSUME now' = now, UNCHANGED Books_ PROVE TradesInv'
  <2>1. trades' = trades /\ active' = active /\ Ids' = Ids
    BY <1>5 DEF Books_, Ids
  <2> QED
    BY <1>2, <1>5, <2>1 DEF TradesInv, SettledInTime
<1> QED
  BY <1>3, <1>4, <1>5, Steps, NextSignalTypes

\* Trades pay and are settled in time in every state.
LEMMA TradesInvariant == Spec => []TradesInv
<1>1. Init => TradesInv
  <2> SUFFICES ASSUME Init PROVE TradesInv
    OBVIOUS
  <2>1. Ids = {} /\ active = {}
    BY DEF Init, Ids
  <2> QED
    BY <2>1 DEF TradesInv, SettledInTime
<1> QED
  BY <1>1, TradesStep, TypeInvariant, PTL DEF Spec

\* A surebet never loses, whatever costs, rounding, caps or little cash it was
\* computed from: no trade pays less than it took (find_arbitrage, run_backtest).
THEOREM NeverLoses == Spec => []SurebetNeverLoses
<1>1. TradesInv => SurebetNeverLoses
  BY DEF TradesInv, SurebetNeverLoses
<1> QED
  BY <1>1, TradesInvariant, PTL

\* No trade is settled before its event can be over, and none stays open past its
\* settlement time (the settlement loop of run_backtest).
THEOREM SettlesInTime == Spec => []SettledInTime
<1>1. TradesInv => SettledInTime
  BY DEF TradesInv
<1> QED
  BY <1>1, TradesInvariant, PTL

---------------------------------------------------------------------------
(* The report and the exposure                                             *)

\* A trade leaves the sums over earlier ones alone, and adds its own figures.
LEMMA TradedSums ==
  ASSUME TypeInv, NEW m \in Markets, NEW stakes, Tradable(m), Chosen(m, stakes), Traded(m, stakes)
  PROVE  \A D \in SUBSET Ids :
           /\ SumFunctionOnSet(Capitals', D) = SumFunctionOnSet(Capitals, D)
           /\ SumFunctionOnSet(Capitals', D \cup {Len(trades) + 1})
                = SumFunctionOnSet(Capitals, D) + Capital(stakes)
           /\ SumFunctionOnSet(Returns', D) = SumFunctionOnSet(Returns, D)
           /\ \A b \in Books :
                SumFunctionOnSet(Outlays(b)', D \cup {Len(trades) + 1})
                  = SumFunctionOnSet(Outlays(b), D) + OutlayAt(stakes, b)
<1> DEFINE n == Len(trades) + 1
<1>1. /\ Ids' = Ids \cup {n} /\ n \notin Ids
      /\ \A i \in Ids : trades'[i] = trades[i]
      /\ trades'[n] = Trade(m, stakes)
  BY TradedPositions
<1>2. /\ Capital(stakes) \in Nat /\ \A b : OutlayAt(stakes, b) \in Nat
      /\ Trade(m, stakes).capital = Capital(stakes)
      /\ \A b \in Books : Trade(m, stakes).outlay[b] = OutlayAt(stakes, b)
  BY TradeTypes DEF Trade
<1> HIDE DEF n
<1>3. /\ \A i \in Ids : Capitals'[i] = Capitals[i] /\ Capitals[i] \in Nat
      /\ Capitals'[n] = Capital(stakes)
      /\ \A i \in Ids : Returns'[i] = Returns[i] /\ Returns[i] \in Nat
  <2>1. Capitals' = [i \in Ids' |-> trades'[i].capital] /\ Returns' = [i \in Ids' |-> trades'[i].return]
    BY DEF Capitals, Returns
  <2>2. \A i \in Ids : /\ Capitals[i] = trades[i].capital /\ Capitals[i] \in Nat
                       /\ Returns[i] = trades[i].return /\ Returns[i] \in Nat
    BY PositionTypes
  <2> QED
    BY <1>1, <1>2, <2>1, <2>2
<1>4. ASSUME NEW b \in Books
      PROVE  /\ \A i \in Ids : Outlays(b)'[i] = Outlays(b)[i] /\ Outlays(b)[i] \in Nat
             /\ Outlays(b)'[n] = OutlayAt(stakes, b)
  <2>1. Outlays(b)' = [i \in Ids' |-> trades'[i].outlay[b]]
    BY DEF Outlays
  <2>2. \A i \in Ids : Outlays(b)[i] = trades[i].outlay[b] /\ Outlays(b)[i] \in Nat
    BY PositionTypes
  <2> QED
    BY <1>1, <1>2, <2>1, <2>2
<1>5. ASSUME NEW f, NEW g, \A i \in Ids : g[i] = f[i] /\ f[i] \in Nat, g[n] \in Nat
      PROVE  \A D \in SUBSET Ids :
               /\ SumFunctionOnSet(g, D) = SumFunctionOnSet(f, D)
               /\ SumFunctionOnSet(g, D \cup {n}) = SumFunctionOnSet(f, D) + g[n]
  <2> SUFFICES ASSUME NEW D \in SUBSET Ids
               PROVE  /\ SumFunctionOnSet(g, D) = SumFunctionOnSet(f, D)
                      /\ SumFunctionOnSet(g, D \cup {n}) = SumFunctionOnSet(f, D) + g[n]
    OBVIOUS
  <2>1. IsFiniteSet(D) /\ n \notin D
    BY <1>1, PositionTypes
  <2>2. SumFunctionOnSet(g, D) = SumFunctionOnSet(f, D)
    BY <1>5, <2>1, SumOfEqual
  <2>3. \A i \in D \cup {n} : g[i] \in Int
    BY <1>5
  <2>4. SumFunctionOnSet(g, D \cup {n}) = SumFunctionOnSet(g, D) + g[n]
    BY <2>1, <2>3, SumInsert
  <2> QED
    BY <2>2, <2>4
<1>6. \A D \in SUBSET Ids :
        /\ SumFunctionOnSet(Capitals', D) = SumFunctionOnSet(Capitals, D)
        /\ SumFunctionOnSet(Capitals', D \cup {n}) = SumFunctionOnSet(Capitals, D) + Capitals'[n]
  <2>1. Capitals'[n] \in Nat
    BY <1>2, <1>3
  <2> QED
    BY <1>3, <1>5, <2>1
<1>7. \A D \in SUBSET Ids : SumFunctionOnSet(Returns', D) = SumFunctionOnSet(Returns, D)
  <2> SUFFICES ASSUME NEW D \in SUBSET Ids
               PROVE  SumFunctionOnSet(Returns', D) = SumFunctionOnSet(Returns, D)
    OBVIOUS
  <2>1. IsFiniteSet(D) /\ \A i \in D : Returns'[i] = Returns[i]
    BY <1>3, PositionTypes
  <2> QED
    BY <2>1, SumOfEqual
<1>8. ASSUME NEW b \in Books
      PROVE  \A D \in SUBSET Ids :
               SumFunctionOnSet(Outlays(b)', D \cup {n}) = SumFunctionOnSet(Outlays(b), D) + Outlays(b)'[n]
  <2>1. Outlays(b)'[n] \in Nat
    BY <1>2, <1>4
  <2>2. \A i \in Ids : Outlays(b)'[i] = Outlays(b)[i] /\ Outlays(b)[i] \in Nat
    BY <1>4
  <2> QED
    BY <1>5, <2>1, <2>2
<1> QED
  BY <1>3, <1>4, <1>6, <1>7, <1>8 DEF n

\* In guaranteed mode with limits enforced, a trade leaves the balances covered.
LEMMA TradeIsCovered ==
  ASSUME TypeInv, NEW m, NEW stakes, Chosen(m, stakes), ~ Realistic, config.enforce,
         NEW b \in Books, config.available[b] # Unlimited, exposure[b] <= config.available[b]
  PROVE  exposure[b] + OutlayAt(stakes, b) <= config.available[b]
<1> DEFINE room == config.available[b] - exposure[b]
<1>1. config.available[b] \in Nat /\ exposure[b] \in Nat
  BY ConfigTypes DEF TypeInv
<1>2. room \in Int /\ room >= 0
  BY <1>1
<1>3. OutlayAt(stakes, b) <= room
  <2>1. /\ IsStakes(stakes)
        /\ \A a \in Limited(DOMAIN stakes, ExecutionLiquidity) : OutlayAt(stakes, a) <= ExecutionLiquidity[a]
    BY DEF Chosen, Acceptable
  <2>2. ExecutionLiquidity[b] = Max({0, room})
    BY DEF ExecutionLiquidity
  <2> HIDE DEF room
  <2>3. ExecutionLiquidity[b] = room
    BY <1>2, <2>2, NotBelowZero
  <2>4. CASE At(DOMAIN stakes, b) = {}
    BY <1>2, <2>1, <2>4, MoneyTypes
  <2>5. CASE At(DOMAIN stakes, b) # {}
    <3>1. room # Unlimited
      BY <1>2, UnlimitedIsNoNumber
    <3>2. b \in Limited(DOMAIN stakes, ExecutionLiquidity)
      BY <2>3, <2>5, <3>1 DEF Limited
    <3> QED
      BY <2>1, <2>3, <3>2
  <2> QED
    BY <2>4, <2>5
<1>4. OutlayAt(stakes, b) \in Nat
  BY MoneyTypes DEF Chosen
<1> QED
  BY <1>1, <1>3, <1>4

\* Paying positions out moves their returns to what is in hand and their outlays
\* out of the exposure.
LEMMA ScanSums ==
  ASSUME TypeInv, NEW signals \in Signals, NEW gap \in Gaps, Scan(signals, now + gap),
         ExposureIsOpenOutlay
  PROVE  /\ Capitals' = Capitals /\ Returns' = Returns /\ \A b \in Books : Outlays(b)' = Outlays(b)
         /\ cash' = cash + SumFunctionOnSet(Returns, Due(now'))
         /\ SumFunctionOnSet(Returns, Ids \ active')
              = SumFunctionOnSet(Returns, Ids \ active) + SumFunctionOnSet(Returns, Due(now'))
         /\ \A b \in Books : /\ exposure'[b] = SumFunctionOnSet(Outlays(b), active')
                             /\ exposure'[b] <= exposure[b]
<1> DEFINE due == Due(now')
<1>1. /\ trades' = trades /\ Ids' = Ids /\ now' = now + gap
      /\ active' = active \ due /\ due \in SUBSET active /\ active \in SUBSET Ids
  BY ScanPositions
<1>2. Capitals' = Capitals /\ Returns' = Returns /\ \A b \in Books : Outlays(b)' = Outlays(b)
  BY <1>1 DEF Capitals, Returns, Outlays
<1>3. cash' = cash + SumFunctionOnSet(Returns, due)
  BY <1>1 DEF Scan, Settled
<1>4. exposure' = [b \in Books |-> Max({0, exposure[b] - SumFunctionOnSet(Outlays(b), due)})]
  BY <1>1 DEF Scan, Released
<1> HIDE DEF due
<1>5. /\ IsFiniteSet(due) /\ IsFiniteSet(active) /\ IsFiniteSet(Ids \ active)
      /\ \A i \in Ids : Returns[i] \in Nat
      /\ \A b \in Books : \A i \in Ids : Outlays(b)[i] \in Nat
  BY <1>1, PositionTypes
<1>6. SumFunctionOnSet(Returns, Ids \ active')
        = SumFunctionOnSet(Returns, Ids \ active) + SumFunctionOnSet(Returns, due)
  <2>1. Ids \ active' = (Ids \ active) \cup due /\ (Ids \ active) \cap due = {}
    BY <1>1
  <2>2. \A i \in (Ids \ active) \cup due : Returns[i] \in Int
    BY <1>1, <1>5
  <2>3. SumFunctionOnSet(Returns, (Ids \ active) \cup due)
          = SumFunctionOnSet(Returns, Ids \ active) + SumFunctionOnSet(Returns, due)
    BY <1>5, <2>1, <2>2, SumDisjoint
  <2> QED
    BY <2>1, <2>3
<1>7. ASSUME NEW b \in Books
      PROVE  /\ exposure'[b] = SumFunctionOnSet(Outlays(b), active')
             /\ exposure'[b] <= exposure[b]
  <2> DEFINE before == SumFunctionOnSet(Outlays(b), active)
             out == SumFunctionOnSet(Outlays(b), due)
             after == SumFunctionOnSet(Outlays(b), active')
  <2>1. exposure[b] = before /\ before \in Nat /\ out \in Nat /\ after \in Nat
    <3>1. active' \in SUBSET Ids /\ due \in SUBSET Ids
      BY <1>1
    <3> QED
      BY <1>1, <3>1, PositionTypes DEF ExposureIsOpenOutlay
  <2>2. after = before - out
    <3>1. \A i \in active : Outlays(b)[i] \in Int
      BY <1>1, <1>5
    <3> QED
      BY <1>1, <1>5, <3>1, SumDifference
  <2>3. exposure'[b] = Max({0, before - out})
    BY <1>4, <2>1
  <2> HIDE DEF before, out, after
  <2>4. Max({0, before - out}) = before - out
    BY <2>1, <2>2, NotBelowZero
  <2> QED
    BY <2>1, <2>2, <2>3, <2>4 DEF after
<1> QED
  BY <1>2, <1>3, <1>6, <1>7 DEF due

\* The steps keep what is in hand and the exposure in line with the trades.
LEMMA CashStep == TypeInv /\ CashInv /\ [Next]_vars => CashInv'
<1> SUFFICES ASSUME TypeInv, CashInv, [Next]_vars PROVE CashInv'
  OBVIOUS
<1> DEFINE Limit(b) == config.mode = "guaranteed" /\ config.enforce /\ config.available[b] # Unlimited
<1>1. /\ cash = InitialBankroll - SumFunctionOnSet(Capitals, Ids) + SumFunctionOnSet(Returns, Ids \ active)
      /\ \A b \in Books : exposure[b] = SumFunctionOnSet(Outlays(b), active)
      /\ \A b \in Books : Limit(b) => exposure[b] <= config.available[b]
  BY DEF CashInv, ExposureIsOpenOutlay, ExposureIsCovered
<1>2. /\ InitialBankroll \in Nat /\ cash \in Nat /\ active \in SUBSET Ids
      /\ \A b \in Books : exposure[b] \in Nat
      /\ \A b \in Books : config.available[b] # Unlimited => config.available[b] \in Nat
      /\ SumFunctionOnSet(Capitals, Ids) \in Nat /\ SumFunctionOnSet(Returns, Ids \ active) \in Nat
  <2>1. active \in SUBSET Ids /\ Ids \ active \in SUBSET Ids /\ Ids \in SUBSET Ids
    BY DEF TypeInv
  <2> QED
    BY <2>1, PositionTypes, ConfigTypes, BacktestAssumption DEF TypeInv
<1>3. ASSUME config' = config,
             cash' = InitialBankroll - SumFunctionOnSet(Capitals', Ids') + SumFunctionOnSet(Returns', Ids' \ active'),
             \A b \in Books : exposure'[b] = SumFunctionOnSet(Outlays(b)', active'),
             \A b \in Books : Limit(b) => exposure'[b] <= config.available[b]
      PROVE  CashInv'
  <2>1. ExposureIsOpenOutlay'
    BY <1>3 DEF ExposureIsOpenOutlay
  <2>2. ExposureIsCovered'
    BY <1>3 DEF ExposureIsCovered
  <2> QED
    BY <1>3, <2>1, <2>2 DEF CashInv
<1>4. ASSUME NEW signals \in Signals, NEW gap \in Gaps, Scan(signals, now + gap) PROVE CashInv'
  <2>1. /\ Capitals' = Capitals /\ Returns' = Returns
        /\ cash' = cash + SumFunctionOnSet(Returns, Due(now'))
        /\ SumFunctionOnSet(Returns, Ids \ active')
             = SumFunctionOnSet(Returns, Ids \ active) + SumFunctionOnSet(Returns, Due(now'))
    BY <1>4, ScanSums DEF CashInv
  <2>2. \A b \in Books : /\ Outlays(b)' = Outlays(b)
                         /\ exposure'[b] = SumFunctionOnSet(Outlays(b), active')
                         /\ exposure'[b] <= exposure[b]
    BY <1>4, ScanSums DEF CashInv
  <2>3. /\ config' = config /\ Ids' = Ids /\ Due(now') \in SUBSET Ids /\ active' \in SUBSET Ids
    BY <1>4, <1>2, ScanPositions
  <2>4. SumFunctionOnSet(Returns, Due(now')) \in Nat
    BY <2>3, PositionTypes
  <2>5. cash' = InitialBankroll - SumFunctionOnSet(Capitals', Ids') + SumFunctionOnSet(Returns', Ids' \ active')
    BY <1>1, <1>2, <2>1, <2>3, <2>4
  <2>6. \A b \in Books : exposure'[b] \in Nat
    BY <2>2, <2>3, PositionTypes
  <2>7. \A b \in Books : Limit(b) => exposure'[b] <= config.available[b]
    BY <1>1, <1>2, <2>2, <2>6
  <2> QED
    BY <1>3, <2>2, <2>3, <2>5, <2>7
<1>5. ASSUME NEW m \in Markets, NEW stakes, NextSignal(m), Tradable(m),
             Chosen(m, stakes), Traded(m, stakes)
      PROVE  CashInv'
  <2> DEFINE n == Len(trades) + 1
  <2>1. /\ Ids' = Ids \cup {n} /\ n \notin Ids /\ active' = active \cup {n}
    BY <1>5, TradedPositions
  <2>2. \A D \in SUBSET Ids :
           /\ SumFunctionOnSet(Capitals', D \cup {n}) = SumFunctionOnSet(Capitals, D) + Capital(stakes)
           /\ SumFunctionOnSet(Returns', D) = SumFunctionOnSet(Returns, D)
           /\ \A b \in Books : SumFunctionOnSet(Outlays(b)', D \cup {n})
                                 = SumFunctionOnSet(Outlays(b), D) + OutlayAt(stakes, b)
    BY <1>5, TradedSums
  <2>3. /\ config' = config /\ cash' = cash - Capital(stakes)
        /\ \A b \in Books : exposure'[b] = exposure[b] + OutlayAt(stakes, b)
    BY <1>5, NextSignalTypes DEF Traded
  <2>4. Capital(stakes) \in Nat
    BY <1>5, TradeTypes
  <2> HIDE DEF n
  <2>5. Ids' \ active' = Ids \ active /\ Ids \ active \in SUBSET Ids /\ Ids \in SUBSET Ids
    BY <1>2, <2>1
  <2>6. cash' = InitialBankroll - SumFunctionOnSet(Capitals', Ids') + SumFunctionOnSet(Returns', Ids' \ active')
    <3>1. SumFunctionOnSet(Capitals', Ids') = SumFunctionOnSet(Capitals, Ids) + Capital(stakes)
      BY <2>1, <2>2, <2>5
    <3>2. SumFunctionOnSet(Returns', Ids' \ active') = SumFunctionOnSet(Returns, Ids \ active)
      BY <2>2, <2>5
    <3> QED
      BY <1>1, <1>2, <2>3, <2>4, <3>1, <3>2
  <2>7. \A b \in Books : exposure'[b] = SumFunctionOnSet(Outlays(b)', active')
    BY <1>1, <1>2, <2>1, <2>2, <2>3
  <2>8. ASSUME NEW b \in Books, Limit(b) PROVE exposure'[b] <= config.available[b]
    <3>1. ~ Realistic
      BY <2>8 DEF Realistic
    <3> QED
      BY <1>1, <1>5, <2>3, <2>8, <3>1, TradeIsCovered
  <2> QED
    BY <1>3, <2>3, <2>6, <2>7, <2>8
<1>6. ASSUME config' = config, UNCHANGED Books_ PROVE CashInv'
  <2>1. /\ cash' = cash /\ exposure' = exposure /\ active' = active /\ Ids' = Ids
        /\ Capitals' = Capitals /\ Returns' = Returns /\ \A b \in Books : Outlays(b)' = Outlays(b)
    BY <1>6 DEF Books_, Ids, Capitals, Returns, Outlays
  <2> QED
    BY <1>1, <1>3, <1>6, <2>1
<1> QED
  BY <1>4, <1>5, <1>6, Steps, NextSignalTypes

\* What is in hand and the exposure are in line with the trades in every state.
LEMMA CashInvariant == Spec => []CashInv
<1>1. Init => CashInv
  <2> SUFFICES ASSUME Init PROVE CashInv
    OBVIOUS
  <2>1. Ids = {} /\ active = {} /\ cash = InitialBankroll /\ \A b \in Books : exposure[b] = 0
    BY DEF Init, Ids
  <2>2. \A f : SumFunctionOnSet(f, {}) = 0
    BY SumEmpty
  <2>3. \A b \in Books : config.available[b] # Unlimited => 0 <= config.available[b]
    BY TypeInit, ConfigTypes
  <2>4. cash = InitialBankroll - SumFunctionOnSet(Capitals, Ids) + SumFunctionOnSet(Returns, Ids \ active)
    <3>1. InitialBankroll \in Nat
      BY BacktestAssumption
    <3>2. Ids \ active = {}
      BY <2>1
    <3> QED
      BY <2>1, <2>2, <3>1, <3>2
  <2> QED
    BY <2>1, <2>2, <2>3, <2>4 DEF CashInv, ExposureIsOpenOutlay, ExposureIsCovered
<1> QED
  BY <1>1, CashStep, TypeInvariant, PTL DEF Spec

\* No money is made or lost between cash, locked capital and payouts: the report's
\* profits are those of the trades (the totals run_backtest returns).
THEOREM ReportCorrect == Spec => []ReportAddsUp
<1>1. TypeInv /\ CashInv => ReportAddsUp
  <2> SUFFICES ASSUME TypeInv, CashInv PROVE ReportAddsUp
    OBVIOUS
  <2> DEFINE rest == Ids \ active
             capitals == SumFunctionOnSet(Capitals, Ids)
             locked == SumFunctionOnSet(Capitals, active)
             returns == SumFunctionOnSet(Returns, Ids)
             pending == SumFunctionOnSet(Returns, active)
  <2>1. /\ active \in SUBSET Ids /\ rest \in SUBSET Ids /\ Ids \in SUBSET Ids
        /\ IsFiniteSet(Ids) /\ IsFiniteSet(rest)
        /\ \A i \in Ids : Capitals[i] \in Int /\ Returns[i] \in Int /\ Profits[i] = Returns[i] - Capitals[i]
    <3>1. active \in SUBSET Ids
      BY DEF TypeInv
    <3>2. \A i \in Ids : Profits[i] = Returns[i] - Capitals[i]
      BY DEF Profits, Returns, Capitals
    <3> QED
      BY <3>1, <3>2, PositionTypes
  <2>2. capitals \in Int /\ locked \in Int /\ returns \in Int /\ pending \in Int
    BY <2>1, PositionTypes
  <2>3. SumFunctionOnSet(Capitals, rest) = capitals - locked /\ SumFunctionOnSet(Returns, rest) = returns - pending
    BY <2>1, SumDifference
  <2>4. SumFunctionOnSet(Profits, Ids) = returns - capitals
    BY <2>1, SumOfDifferences
  <2>5. SumFunctionOnSet(Profits, rest) = SumFunctionOnSet(Returns, rest) - SumFunctionOnSet(Capitals, rest)
    BY <2>1, SumOfDifferences
  <2>6. cash = InitialBankroll - capitals + (returns - pending) /\ InitialBankroll \in Int
    BY <2>3, BacktestAssumption DEF CashInv
  <2>7. cash \in Int /\ cash + pending \in Int
    BY <2>2 DEF TypeInv
  <2>8. RealizedProfit = cash + locked - InitialBankroll
    BY <2>2, <2>6, <2>7 DEF RealizedProfit, LockedCapital
  <2>9. ProjectedProfit = cash + pending - InitialBankroll
    BY <2>2, <2>6, <2>7 DEF ProjectedProfit, ProjectedEquity
  <2> HIDE DEF capitals, locked, returns, pending
  <2>10. RealizedProfit = SumFunctionOnSet(Profits, rest) /\ ProjectedProfit = SumFunctionOnSet(Profits, Ids)
    BY <2>2, <2>3, <2>4, <2>5, <2>6, <2>8, <2>9
  <2> QED
    BY <2>10 DEF ReportAddsUp
<1> QED
  BY <1>1, TypeInvariant, CashInvariant, PTL

\* The exposure at a bookmaker is what the open positions staked there, so that the
\* max(0, ...) of the settlement loop hides nothing (current_exposure).
THEOREM ExposureCorrect == Spec => []ExposureIsOpenOutlay
<1>1. CashInv => ExposureIsOpenOutlay
  BY DEF CashInv
<1> QED
  BY <1>1, CashInvariant, PTL

\* Positions open together never stake more at a bookmaker than its balance, in
\* guaranteed mode with limits enforced (execution_liquidity_for and the engine).
THEOREM ExposureBounded == Spec => []ExposureIsCovered
<1>1. CashInv => ExposureIsCovered
  BY DEF CashInv
<1> QED
  BY <1>1, CashInvariant, PTL

---------------------------------------------------------------------------
(* The wallets                                                             *)

\* Where wallets are kept for every bookmaker.
Walleted == Realistic /\ config.enforce /\ Limitless = {}

\* The wallets' equation at a bookmaker, for what is in its wallet.
Balanced(b, wallet) ==
  /\ wallet # None => wallet = config.available[b] - Staked(b) + Paid(b)
  /\ wallet = None => \A i \in Ids : trades[i].outlay[b] = 0 /\ trades[i].payout # b

\* The invariant of the wallets, bookmaker by bookmaker.
LEMMA WalletsParts == WalletsInv <=> (Walleted => \A b \in Books : Balanced(b, wallets[b]))
  BY DEF WalletsInv, WalletsAddUp, Walleted, Balanced

\* What was staked and paid at a bookmaker is a number, and none without a trade there.
LEMMA StakedAndPaid ==
  ASSUME TypeInv, NEW b \in Books
  PROVE  /\ Staked(b) \in Nat /\ Paid(b) \in Nat
         /\ (\A i \in Ids : trades[i].outlay[b] = 0 /\ trades[i].payout # b) => Staked(b) = 0 /\ Paid(b) = 0
<1>1. Staked(b) \in Nat /\ Paid(b) \in Nat
  <2>1. Ids \in SUBSET Ids /\ Ids \ active \in SUBSET Ids
    OBVIOUS
  <2> QED
    BY <2>1, PositionTypes DEF Staked, Paid
<1>2. ASSUME \A i \in Ids : trades[i].outlay[b] = 0 /\ trades[i].payout # b
      PROVE  Staked(b) = 0 /\ Paid(b) = 0
  <2>1. IsFiniteSet(Ids) /\ \A i \in Ids : Outlays(b)[i] = 0
    BY <1>2, PositionTypes
  <2>2. SumFunctionOnSet(Outlays(b), Ids) <= Cardinality(Ids) * 0
    BY <2>1, SumBounded
  <2>3. Cardinality(Ids) \in Nat
    BY <2>1, FS_CardinalityType
  <2>4. Staked(b) = 0
    BY <1>1, <2>2, <2>3 DEF Staked
  <2>5. { i \in Ids \ active : trades[i].payout = b } = {}
    BY <1>2
  <2>6. Paid(b) = 0
    BY <2>5, SumEmpty DEF Paid, PaidAt
  <2> QED
    BY <2>4, <2>6
<1> QED
  BY <1>1, <1>2

\* Asking for wallets keeps the equation, and leaves none out that is quoted.
LEMMA EnsuredBalances ==
  ASSUME TypeInv, Walleted, NEW b \in Books, Balanced(b, wallets[b])
  PROVE  /\ Balanced(b, Ensured[b])
         /\ Ensured[b] = None => wallets[b] = None /\ ~ \E q \in quotes : q.book = b
<1>1. config.available[b] # Unlimited /\ config.available[b] \in Nat
  BY ConfigTypes DEF Walleted, Limitless
<1>2. None \notin Nat
  BY BacktestAssumption
<1>3. Ensured[b] = IF wallets[b] = None /\ \E q \in quotes : q.book = b
                   THEN config.available[b] ELSE wallets[b]
  BY <1>1 DEF Ensured, Walleted
<1>4. Ensured[b] = None => wallets[b] = None /\ ~ \E q \in quotes : q.book = b
  BY <1>1, <1>2, <1>3
<1>5. CASE wallets[b] = None /\ \E q \in quotes : q.book = b
  <2>1. Staked(b) = 0 /\ Paid(b) = 0
    BY <1>5, StakedAndPaid DEF Balanced
  <2>2. Ensured[b] = config.available[b]
    BY <1>3, <1>5
  <2> QED
    BY <1>1, <1>2, <1>4, <2>1, <2>2 DEF Balanced
<1>6. CASE ~ (wallets[b] = None /\ \E q \in quotes : q.book = b)
  BY <1>3, <1>4, <1>6
<1> QED
  BY <1>5, <1>6

\* A scan credits the wallets with what it pays out.
LEMMA ScanWallets ==
  ASSUME TypeInv, NEW signals \in Signals, NEW gap \in Gaps, Scan(signals, now + gap),
         Walleted, NEW b \in Books, Balanced(b, wallets[b])
  PROVE  Balanced(b, wallets[b])'
<1> DEFINE due == Due(now')
           Here(D) == { i \in D : trades[i].payout = b }
<1>1. /\ config' = config /\ trades' = trades /\ Ids' = Ids /\ now' = now + gap
      /\ active' = active \ due /\ due \in SUBSET active /\ active \in SUBSET Ids
  BY ScanPositions
<1>2. Returns' = Returns /\ Outlays(b)' = Outlays(b)
  BY <1>1 DEF Returns, Outlays
<1>3. wallets'[b] = IF \E i \in due : trades[i].payout = b
                    THEN (IF wallets[b] = None THEN 0 ELSE wallets[b]) + PaidAt(due, b)
                    ELSE wallets[b]
  BY <1>1 DEF Scan, Credited
<1>4. Staked(b)' = Staked(b)
  BY <1>1, <1>2 DEF Staked
<1>5. Paid(b)' = Paid(b) + PaidAt(due, b)
  <2>1. Paid(b)' = SumFunctionOnSet(Returns, Here(Ids \ active'))
    BY <1>1, <1>2 DEF Paid, PaidAt
  <2>2. Paid(b) = SumFunctionOnSet(Returns, Here(Ids \ active)) /\ PaidAt(due, b) = SumFunctionOnSet(Returns, Here(due))
    BY DEF Paid, PaidAt
  <2>3. /\ Here(Ids \ active') = Here(Ids \ active) \cup Here(due)
        /\ Here(Ids \ active) \cap Here(due) = {}
        /\ Here(Ids \ active) \in SUBSET Ids /\ Here(due) \in SUBSET Ids
    BY <1>1
  <2> HIDE DEF due, Here
  <2>4. /\ IsFiniteSet(Here(Ids \ active)) /\ IsFiniteSet(Here(due))
        /\ \A i \in Here(Ids \ active) \cup Here(due) : Returns[i] \in Int
    <3>1. \A D \in SUBSET Ids : IsFiniteSet(D)
      BY PositionTypes
    <3>2. \A i \in Ids : Returns[i] \in Int
      BY PositionTypes
    <3> QED
      BY <2>3, <3>1, <3>2
  <2>5. SumFunctionOnSet(Returns, Here(Ids \ active) \cup Here(due))
          = SumFunctionOnSet(Returns, Here(Ids \ active)) + SumFunctionOnSet(Returns, Here(due))
    BY <2>3, <2>4, SumDisjoint
  <2> QED
    BY <2>1, <2>2, <2>3, <2>5
<1>6. Staked(b) \in Nat /\ Paid(b) \in Nat /\ PaidAt(due, b) \in Nat /\ config.available[b] \in Nat
  <2>1. due \in SUBSET Ids
    BY <1>1
  <2>2. PaidAt(due, b) \in Nat
    BY <2>1, PositionTypes
  <2>3. config.available[b] \in Nat
    BY ConfigTypes DEF Walleted, Limitless
  <2> QED
    BY <2>2, <2>3, StakedAndPaid
<1>7. Balanced(b, wallets[b])' <=>
        /\ wallets'[b] # None => wallets'[b] = config.available[b] - Staked(b) + (Paid(b) + PaidAt(due, b))
        /\ wallets'[b] = None => \A i \in Ids : trades[i].outlay[b] = 0 /\ trades[i].payout # b
  BY <1>1, <1>4, <1>5 DEF Balanced
<1>8. wallets[b] \in Nat \cup {None} /\ None \notin Nat
  BY BacktestAssumption DEF TypeInv
<1>9. CASE \E i \in due : trades[i].payout = b
  <2>1. wallets[b] # None
    BY <1>1, <1>9 DEF Balanced
  <2>2. wallets'[b] = wallets[b] + PaidAt(due, b)
    BY <1>3, <1>9, <2>1
  <2> HIDE DEF due
  <2>3. wallets'[b] = config.available[b] - Staked(b) + (Paid(b) + PaidAt(due, b)) /\ wallets'[b] # None
    BY <1>6, <1>8, <2>1, <2>2 DEF Balanced
  <2> QED
    BY <1>7, <2>3
<1>10. CASE ~ \E i \in due : trades[i].payout = b
  <2>1. wallets'[b] = wallets[b]
    BY <1>3, <1>10
  <2>2. Here(due) = {}
    BY <1>10
  <2>3. PaidAt(due, b) = 0
    BY <2>2, SumEmpty DEF PaidAt
  <2> HIDE DEF due
  <2> QED
    BY <1>6, <1>7, <2>1, <2>3 DEF Balanced
<1> QED
  BY <1>9, <1>10

\* A trade takes its outlays from the wallets.
LEMMA TradedWallets ==
  ASSUME TypeInv, NEW m \in Markets, NEW stakes, NextSignal(m), Tradable(m),
         Chosen(m, stakes), Traded(m, stakes),
         Walleted, NEW b \in Books, Balanced(b, wallets[b])
  PROVE  Balanced(b, wallets[b])'
<1> DEFINE n == Len(trades) + 1
           outlay == OutlayAt(stakes, b)
<1>1. /\ Ids' = Ids \cup {n} /\ n \notin Ids /\ active' = active \cup {n}
      /\ \A i \in Ids : trades'[i] = trades[i]
      /\ trades'[n] = Trade(m, stakes)
  BY TradedPositions
<1>2. config' = config /\ active \in SUBSET Ids
  BY NextSignalTypes DEF TypeInv
<1>3. /\ Balanced(b, Ensured[b]) /\ Ensured[b] \in Nat \cup {None}
      /\ Ensured[b] = None => ~ \E q \in quotes : q.book = b
  BY EnsuredBalances, LimitsNow
<1>4. wallets'[b] = IF Ensured[b] # None THEN Ensured[b] - outlay ELSE Ensured[b]
  BY DEF Traded, Debited, Walleted
<1>5. /\ outlay \in Nat
      /\ Ensured[b] # None => Ensured[b] >= outlay
  <2>1. outlay \in Nat
    BY TradeTypes
  <2> QED
    BY <2>1 DEF Chosen, Fillable, Walleted
<1>6. Trade(m, stakes).outlay[b] = outlay
  BY DEF Trade
<1> HIDE DEF n, outlay
<1>7. Staked(b)' = Staked(b) + outlay
  <2>1. SumFunctionOnSet(Outlays(b)', Ids \cup {n}) = SumFunctionOnSet(Outlays(b), Ids) + outlay
    BY TradedSums DEF n, outlay
  <2> QED
    BY <1>1, <2>1 DEF Staked
<1>8. Paid(b)' = Paid(b)
  <2> DEFINE D == { i \in Ids \ active : trades[i].payout = b }
  <2>1. D \in SUBSET Ids /\ Ids' \ active' = Ids \ active
    BY <1>1, <1>2
  <2>2. { i \in Ids' \ active' : trades'[i].payout = b } = D
    BY <1>1, <2>1
  <2>3. Paid(b)' = SumFunctionOnSet(Returns', { i \in Ids' \ active' : trades'[i].payout = b })
    BY DEF Paid, PaidAt
  <2>4. Paid(b) = SumFunctionOnSet(Returns, D)
    BY DEF Paid, PaidAt
  <2> HIDE DEF D
  <2>5. SumFunctionOnSet(Returns', D) = SumFunctionOnSet(Returns, D)
    BY <2>1, TradedSums
  <2> QED
    BY <2>2, <2>3, <2>4, <2>5
<1>9. /\ Staked(b) \in Nat /\ Paid(b) \in Nat /\ config.available[b] \in Nat /\ None \notin Int
  BY StakedAndPaid, ConfigTypes, BacktestAssumption DEF Walleted, Limitless
<1>10. CASE Ensured[b] # None
  <2>1. Ensured[b] = config.available[b] - Staked(b) + Paid(b)
    BY <1>3, <1>10 DEF Balanced
  <2>2. wallets'[b] = Ensured[b] - outlay
    BY <1>4, <1>10
  <2>3. wallets'[b] = config.available[b] - (Staked(b) + outlay) + Paid(b) /\ wallets'[b] \in Int
    BY <1>5, <1>9, <2>1, <2>2
  <2>4. wallets'[b] # None
    BY <1>9, <2>3
  <2> QED
    BY <1>2, <1>7, <1>8, <2>3, <2>4 DEF Balanced
<1>11. CASE Ensured[b] = None
  <2>1. wallets'[b] = None /\ \A i \in Ids : trades[i].outlay[b] = 0 /\ trades[i].payout # b
    BY <1>3, <1>4, <1>11 DEF Balanced
  <2>2. DOMAIN stakes \in SUBSET quotes /\ IsStakes(stakes)
    BY DEF Chosen
  <2>3. ~ \E q \in DOMAIN stakes : q.book = b
    BY <1>3, <1>11, <2>2
  <2>4. outlay = 0
    <3>1. At(DOMAIN stakes, b) = {}
      BY <2>3 DEF At
    <3> QED
      BY <2>2, <3>1, MoneyTypes DEF outlay
  <2>5. Trade(m, stakes).payout # b
    <3>1. Trade(m, stakes).payout = None \/ \E q \in DOMAIN stakes : q.book = Trade(m, stakes).payout
      BY TradeTypes
    <3> QED
      BY <2>3, <3>1, BacktestAssumption
  <2>6. \A i \in Ids' : trades'[i].outlay[b] = 0 /\ trades'[i].payout # b
    BY <1>1, <1>6, <2>1, <2>4, <2>5
  <2> QED
    BY <2>1, <2>6 DEF Balanced
<1> QED
  BY <1>10, <1>11

\* The steps keep the wallets in balance.
LEMMA WalletsStep == TypeInv /\ WalletsInv /\ [Next]_vars => WalletsInv'
<1> SUFFICES ASSUME TypeInv, WalletsInv, [Next]_vars PROVE WalletsInv'
  OBVIOUS
<1>1. Walleted => \A b \in Books : Balanced(b, wallets[b])
  BY WalletsParts
<1>2. SUFFICES ASSUME Walleted', NEW b \in Books PROVE Balanced(b, wallets[b])'
  <2>1. WalletsInv' <=> (Walleted' => \A b \in Books : Balanced(b, wallets[b])')
    BY DEF WalletsInv, WalletsAddUp, Walleted, Balanced
  <2> QED
    BY <2>1
<1>3. config' = config => Walleted
  BY <1>2 DEF Walleted, Realistic, Limitless
<1>4. ASSUME NEW signals \in Signals, NEW gap \in Gaps, Scan(signals, now + gap)
      PROVE  Balanced(b, wallets[b])'
  <2>1. config' = config
    BY <1>4, ScanPositions
  <2> QED
    BY <1>1, <1>3, <1>4, <2>1, ScanWallets
<1>5. ASSUME NEW m \in Markets, NEW stakes, NextSignal(m), Tradable(m),
             Chosen(m, stakes), Traded(m, stakes)
      PROVE  Balanced(b, wallets[b])'
  <2>1. config' = config
    BY <1>5, NextSignalTypes
  <2> QED
    BY <1>1, <1>3, <1>5, <2>1, TradedWallets
<1>6. ASSUME config' = config, UNCHANGED Books_, wallets' = wallets \/ wallets' = Ensured
      PROVE  Balanced(b, wallets[b])'
  <2>1. /\ trades' = trades /\ active' = active /\ Ids' = Ids /\ Returns' = Returns /\ Outlays(b)' = Outlays(b)
    BY <1>6 DEF Books_, Ids, Returns, Outlays
  <2>2. Staked(b)' = Staked(b) /\ Paid(b)' = Paid(b)
    BY <2>1 DEF Staked, Paid, PaidAt
  <2>3. Balanced(b, wallets[b]) /\ Balanced(b, Ensured[b])
    BY <1>1, <1>3, <1>6, EnsuredBalances
  <2>4. wallets'[b] = wallets[b] \/ wallets'[b] = Ensured[b]
    BY <1>6
  <2> QED
    BY <1>6, <2>1, <2>2, <2>3, <2>4 DEF Balanced
<1> QED
  BY <1>4, <1>5, <1>6, Steps, NextSignalTypes

\* A wallet is what it started with, less every stake placed there, plus what was
\* paid out for settled wins: in results mode with limits on every bookmaker
\* (ensure_wallet, the debits and the credits of run_backtest).
THEOREM WalletsCorrect == Spec => []WalletsAddUp
<1>1. Init => WalletsInv
  <2> SUFFICES ASSUME Init, NEW b \in Books PROVE Balanced(b, wallets[b])
    <3>1. WalletsInv <=> (Walleted => \A a \in Books : Balanced(a, wallets[a]))
      BY WalletsParts
    <3> QED
      BY <3>1
  <2>1. Ids = {} /\ wallets[b] = IF b \in config.explicit THEN config.available[b] ELSE None
    BY DEF Init, Ids
  <2>2. \A i \in Ids : trades[i].outlay[b] = 0 /\ trades[i].payout # b
    BY <2>1
  <2>3. Staked(b) = 0 /\ Paid(b) = 0
    BY <2>2, TypeInit, StakedAndPaid
  <2>4. b \in config.explicit => config.available[b] \in Nat
    BY TypeInit, ConfigTypes
  <2> QED
    BY <2>1, <2>2, <2>3, <2>4 DEF Balanced
<1>2. WalletsInv => WalletsAddUp
  BY DEF WalletsInv
<1> QED
  BY <1>1, <1>2, WalletsStep, TypeInvariant, PTL DEF Spec

---------------------------------------------------------------------------
(* Trades have lasted                                                      *)

\* Scans have times.
LEMMA ScanTimes == ASSUME TypeInv PROVE \A j \in DOMAIN scans : scans[j].at \in Nat
<1>1. \A j \in DOMAIN scans : scans[j] \in Marks
  BY DEF TypeInv
<1> QED
  BY <1>1 DEF Marks

\* When a market was first seen, all scans since signalled it, also after a scan
\* that signals it again.
LEMMA ScanKeepsSignals ==
  ASSUME TypeInv, ScansInv, NEW signals \in Signals, NEW gap \in Gaps, Scan(signals, now + gap),
         NEW m \in Markets
  PROVE  /\ m \in signals.found /\ qualifying[m] # None => SignalledSince(m, qualifying[m])'
         /\ m \in signals.found => SignalledSince(m, now)'
<1> DEFINE n == Len(scans) + 1
<1>1. /\ scans \in Seq(Marks) /\ n \notin DOMAIN scans
      /\ scans' = Append(scans, [at |-> now', found |-> signals.found])
  BY DEF TypeInv, Scan
<1>2. /\ DOMAIN scans' = DOMAIN scans \cup {n}
      /\ \A j \in DOMAIN scans : scans'[j] = scans[j] /\ scans[j].at \in Nat
      /\ scans'[n].at = now' /\ scans'[n].found = signals.found
  BY <1>1, ScanTimes
<1>3. now' > now /\ now \in Nat /\ now' \in Nat
  BY ScanPositions
<1>4. \A j \in DOMAIN scans : scans[j].at <= now
  BY DEF ScansInv
<1> HIDE DEF n
<1>5. ASSUME m \in signals.found, qualifying[m] # None PROVE SignalledSince(m, qualifying[m])'
  <2>1. qualifying'[m] = qualifying[m]
    BY <1>5 DEF Scan, Forgotten
  <2>2. SignalledSince(m, qualifying[m])
    BY <1>5 DEF ScansInv
  <2>3. \E j \in DOMAIN scans' : scans'[j].at = qualifying[m]
    BY <1>2, <2>2 DEF SignalledSince
  <2>4. \A j \in DOMAIN scans' : scans'[j].at >= qualifying[m] => m \in scans'[j].found
    BY <1>2, <1>5, <2>2 DEF SignalledSince
  <2> QED
    BY <2>1, <2>3, <2>4 DEF SignalledSince
<1>6. ASSUME m \in signals.found PROVE SignalledSince(m, now)'
  <2>1. \E j \in DOMAIN scans' : scans'[j].at = now'
    BY <1>2
  <2>2. \A j \in DOMAIN scans' : scans'[j].at >= now' => m \in scans'[j].found
    BY <1>2, <1>3, <1>4, <1>6
  <2> QED
    BY <2>1, <2>2 DEF SignalledSince
<1> QED
  BY <1>5, <1>6

\* What a trade has to show for itself.
Persisted(t) ==
  /\ t.detected - t.firstSeen >= config.persistence + config.latency
  /\ \E j \in DOMAIN scans : scans[j].at = t.firstSeen
  /\ \A j \in DOMAIN scans : scans[j].at \in t.firstSeen .. t.detected => t.market \in scans[j].found

\* A later scan takes nothing from what a trade has shown.
LEMMA ScanKeepsPersisted ==
  ASSUME TypeInv, ScansInv, NEW signals \in Signals, NEW gap \in Gaps, Scan(signals, now + gap),
         NEW t \in Positions, t.detected <= now, Persisted(t)
  PROVE  Persisted(t)'
<1> DEFINE n == Len(scans) + 1
<1>1. /\ scans \in Seq(Marks) /\ n \notin DOMAIN scans
      /\ scans' = Append(scans, [at |-> now', found |-> signals.found])
  BY DEF TypeInv, Scan
<1>2. /\ DOMAIN scans' = DOMAIN scans \cup {n}
      /\ \A j \in DOMAIN scans : scans'[j] = scans[j]
      /\ scans'[n].at = now'
  BY <1>1
<1>3. now' > now /\ now \in Nat /\ now' \in Nat /\ config' = config
  BY ScanPositions
<1>4. t.detected \in Nat /\ t.firstSeen \in Nat
  BY DEF Positions
<1> HIDE DEF n
<1>5. now' \notin t.firstSeen .. t.detected
  BY <1>3, <1>4
<1>6. \E j \in DOMAIN scans' : scans'[j].at = t.firstSeen
  BY <1>2 DEF Persisted
<1>7. \A j \in DOMAIN scans' : scans'[j].at \in t.firstSeen .. t.detected => t.market \in scans'[j].found
  BY <1>2, <1>5 DEF Persisted
<1> QED
  BY <1>3, <1>6, <1>7 DEF Persisted

\* The steps keep the marks in line with the scans.
LEMMA ScansStep == TypeInv /\ TradesInv /\ ScansInv /\ [Next]_vars => ScansInv'
<1> SUFFICES ASSUME TypeInv, TradesInv, ScansInv, [Next]_vars PROVE ScansInv'
  OBVIOUS
<1>1. /\ \A j \in DOMAIN scans : scans[j].at <= now
      /\ \A m \in Markets : qualifying[m] # None => SignalledSince(m, qualifying[m])
      /\ \A k \in DOMAIN todo : SignalledSince(todo[k], now)
      /\ \A i \in Ids : Persisted(trades[i])
  BY DEF ScansInv, TradesPersisted, Persisted
<1>2. ASSUME \A j \in DOMAIN scans' : scans'[j].at <= now',
             \A m \in Markets : qualifying'[m] # None => SignalledSince(m, qualifying[m])',
             \A k \in DOMAIN todo' : SignalledSince(todo[k], now)',
             \A i \in Ids' : Persisted(trades[i])'
      PROVE  ScansInv'
  <2>1. TradesPersisted'
    BY <1>2 DEF TradesPersisted, Persisted
  <2> QED
    BY <1>2, <2>1 DEF ScansInv
<1>3. /\ scans \in Seq(Marks) /\ now \in Nat /\ \A i \in Ids : trades[i] \in Positions
      /\ \A i \in Ids : trades[i].detected <= now
  BY PositionTypes DEF TypeInv, TradesInv
<1>4. ASSUME NEW signals \in Signals, NEW gap \in Gaps, Scan(signals, now + gap) PROVE ScansInv'
  <2>1. /\ now' > now /\ now' \in Nat /\ trades' = trades /\ Ids' = Ids
    BY <1>4, ScanPositions
  <2>2. \A j \in DOMAIN scans' : scans'[j].at <= now'
    <3>1. scans' = Append(scans, [at |-> now', found |-> signals.found])
      BY <1>4 DEF Scan
    <3>2. \A j \in DOMAIN scans : scans[j].at \in Nat
      BY ScanTimes
    <3> QED
      BY <1>1, <1>3, <2>1, <3>1, <3>2
  <2>3. ASSUME NEW m \in Markets, qualifying'[m] # None PROVE SignalledSince(m, qualifying[m])'
    <3>1. m \in signals.found /\ qualifying[m] # None
      BY <1>4, <2>3 DEF Scan, Forgotten
    <3> QED
      BY <1>4, <3>1, ScanKeepsSignals
  <2>4. ASSUME NEW k \in DOMAIN todo' PROVE SignalledSince(todo[k], now)'
    <3>1. PICK m : m = todo'[k]
      OBVIOUS
    <3>2. m \in signals.found /\ m \in Markets
      BY <1>4, <2>4, <3>1, SignalTypes DEF Scan
    <3>3. SignalledSince(m, now)'
      BY <1>4, <3>2, ScanKeepsSignals
    <3> QED
      BY <3>1, <3>3 DEF SignalledSince
  <2>5. ASSUME NEW i \in Ids' PROVE Persisted(trades[i])'
    <3>1. PICK t : t = trades[i]
      OBVIOUS
    <3>2. t \in Positions /\ t.detected <= now /\ Persisted(t)
      BY <1>1, <1>3, <2>1, <2>5, <3>1 DEF Persisted
    <3>3. Persisted(t)'
      BY <1>4, <3>2, ScanKeepsPersisted
    <3> QED
      BY <2>1, <3>1, <3>3 DEF Persisted
  <2> QED
    BY <1>2, <2>2, <2>3, <2>4, <2>5
<1>5. ASSUME NEW m \in Markets, NextSignal(m)
      PROVE  /\ config' = config /\ now' = now /\ scans' = scans
             /\ \A j \in DOMAIN scans' : scans'[j].at <= now'
             /\ SignalledSince(m, FirstSeen(m))
             /\ \A o \in Markets : qualifying'[o] # None => SignalledSince(o, qualifying[o])'
             /\ \A k \in DOMAIN todo' : SignalledSince(todo[k], now)'
  <2>1. /\ config' = config /\ now' = now /\ scans' = scans /\ todo # <<>> /\ m = todo[1]
        /\ qualifying' = [qualifying EXCEPT ![m] = FirstSeen(m)]
        /\ qualifying \in [Markets -> Nat \cup {None}] /\ todo \in Seq(Markets)
        /\ \A k \in DOMAIN todo' : k + 1 \in DOMAIN todo /\ todo'[k] = todo[k + 1]
    BY <1>5, NextSignalTypes DEF TypeInv
  <2>2. SignalledSince(m, FirstSeen(m))
    <3>1. SignalledSince(m, now)
      <4>1. 1 \in DOMAIN todo
        BY <2>1
      <4> QED
        BY <1>1, <2>1, <4>1
    <3>2. qualifying[m] # None => SignalledSince(m, qualifying[m])
      BY <1>1
    <3> QED
      BY <3>1, <3>2 DEF FirstSeen
  <2>3. ASSUME NEW o \in Markets, qualifying'[o] # None PROVE SignalledSince(o, qualifying[o])'
    <3>1. SignalledSince(o, qualifying'[o])
      BY <1>1, <2>1, <2>2, <2>3
    <3> QED
      BY <2>1, <3>1 DEF SignalledSince
  <2>4. ASSUME NEW k \in DOMAIN todo' PROVE SignalledSince(todo[k], now)'
    <3>1. SignalledSince(todo'[k], now)
      BY <1>1, <2>1, <2>4
    <3> QED
      BY <2>1, <3>1 DEF SignalledSince
  <2> QED
    BY <1>1, <2>1, <2>2, <2>3, <2>4
<1>6. ASSUME NEW m \in Markets, NEW stakes, NextSignal(m), Tradable(m),
             Chosen(m, stakes), Traded(m, stakes)
      PROVE  ScansInv'
  <2>1. PICK t : t = Trade(m, stakes)
    OBVIOUS
  <2>2. /\ Ids' = Ids \cup {Len(trades) + 1} /\ \A i \in Ids : trades'[i] = trades[i]
        /\ trades'[Len(trades) + 1] = t
    BY <1>6, <2>1, TradedPositions
  <2>3. t.market = m /\ t.firstSeen = FirstSeen(m) /\ t.detected = now
    BY <2>1 DEF Trade
  <2>4. Persisted(t)
    <3>1. SignalledSince(m, FirstSeen(m))
      BY <1>5, <1>6
    <3>2. FirstSeen(m) \in Nat /\ \A j \in DOMAIN scans : scans[j].at \in Nat
      BY <1>6, NextSignalTypes, ScanTimes
    <3>3. now - FirstSeen(m) >= config.persistence + config.latency
      BY <1>6 DEF Tradable, Lasted
    <3> QED
      BY <1>3, <2>3, <3>1, <3>2, <3>3 DEF Persisted, SignalledSince
  <2>5. scans' = scans /\ config' = config
    BY <1>6, NextSignalTypes
  <2>6. \A i \in Ids' : Persisted(trades[i])'
    <3> SUFFICES ASSUME NEW i \in Ids' PROVE Persisted(trades[i])'
      OBVIOUS
    <3>1. Persisted(trades'[i])
      BY <1>1, <2>2, <2>4
    <3> QED
      BY <2>5, <3>1 DEF Persisted
  <2> QED
    BY <1>2, <1>5, <1>6, <2>6
<1>7. ASSUME config' = config, scans' = scans, UNCHANGED Books_
      PROVE  \A i \in Ids' : Persisted(trades[i])'
  <2>1. trades' = trades /\ Ids' = Ids
    BY <1>7 DEF Books_, Ids
  <2> QED
    BY <1>1, <1>7, <2>1 DEF Persisted
<1>8. ASSUME NEW m \in Markets, NextSignal(m), UNCHANGED Books_ PROVE ScansInv'
  BY <1>2, <1>5, <1>7, <1>8
<1>9. ASSUME config' = config, now' = now, scans' = scans, todo' = todo, qualifying' = qualifying,
             UNCHANGED Books_
      PROVE  ScansInv'
  <2>1. \A j \in DOMAIN scans' : scans'[j].at <= now'
    BY <1>1, <1>9
  <2>2. /\ \A m \in Markets : qualifying'[m] # None => SignalledSince(m, qualifying[m])'
        /\ \A k \in DOMAIN todo' : SignalledSince(todo[k], now)'
    BY <1>1, <1>9 DEF SignalledSince
  <2> QED
    BY <1>2, <1>7, <1>9, <2>1, <2>2
<1> QED
  BY <1>4, <1>6, <1>8, <1>9, Steps

\* A market is traded only if every scan since it was first seen signalled it, an
\* empty scan included, for the persistence and the latency (qualifying_since).
THEOREM TradesLasted == Spec => []TradesPersisted
<1>1. Init => ScansInv
  <2> SUFFICES ASSUME Init PROVE ScansInv
    OBVIOUS
  <2>1. Ids = {} /\ DOMAIN scans = {} /\ DOMAIN todo = {} /\ \A m \in Markets : qualifying[m] = None
    BY DEF Init, Ids
  <2> QED
    BY <2>1 DEF ScansInv, TradesPersisted
<1>2. ScansInv => TradesPersisted
  BY DEF ScansInv
<1> QED
  BY <1>1, <1>2, ScansStep, TypeInvariant, TradesInvariant, PTL DEF Spec
=============================================================================
