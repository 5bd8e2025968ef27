---------------------------- MODULE SumTheorems ----------------------------
(***************************************************************************)
(* What SumFunctionOnSet, a fold of the community modules, computes on a   *)
(* finite set: zero on the empty set, and one summand more with one more   *)
(* element, whichever element the fold picks; and that a product of        *)
(* positive numbers is one. Induction is over sets that are given as sets  *)
(* of the good cases, so that no theorem has an operator as a parameter.   *)
(***************************************************************************)
EXTENDS Integers, FiniteSets, Functions, FiniteSetTheorems, TLAPS

-----------------------------------------------------------------------------
(* Induction *)

\* Every natural number is good if zero is, and the successor of a good one.
LEMMA NatInductionOnSets ==
  ASSUME NEW G, 0 \in G, \A n \in Nat : n \in G => n + 1 \in G
  PROVE  Nat \subseteq G
<1> SUFFICES ASSUME Nat \ G # {} PROVE FALSE
  OBVIOUS
<1>1. PICK n \in Nat \ G : \A m \in Nat \ G : ~ (<<m, n>> \in OpToRel(<, Nat))
  BY WFMin, NatLessThanWellFounded
<1>2. n - 1 \in Nat /\ n = (n - 1) + 1
  BY SMT
<1>3. <<n - 1, n>> \in OpToRel(<, Nat)
  BY <1>2 DEF OpToRel
<1> QED BY <1>1, <1>2, <1>3

\* A set that can be counted to more than zero has an element.
LEMMA NotEmpty ==
  ASSUME NEW S, NEW n \in Nat, Cardinality(S) = n + 1
  PROVE  S # {}
<1>1. Cardinality(S) # 0
  OBVIOUS
<1> QED BY <1>1, FS_EmptySet

\* A finite set is good if the empty set is, and a good subset with one more of
\* its elements.
LEMMA FiniteInduction ==
  ASSUME NEW S, IsFiniteSet(S), NEW G, {} \in G,
         \A T \in SUBSET S, x \in S : T \in G /\ x \notin T => T \cup {x} \in G
  PROVE  S \in G
<1> DEFINE good == { n \in Nat : \A T \in SUBSET S : Cardinality(T) = n => T \in G }
<1>1. \A T \in SUBSET S : IsFiniteSet(T) /\ Cardinality(T) \in Nat
  BY FS_Subset, FS_CardinalityType
<1>2. 0 \in good
  BY <1>1, FS_EmptySet
<1>3. \A n \in Nat : n \in good => n + 1 \in good
  <2> SUFFICES ASSUME NEW n \in Nat, n \in good, NEW T \in SUBSET S, Cardinality(T) = n + 1
               PROVE  T \in G
    OBVIOUS
  <2>0. T # {}
    BY NotEmpty
  <2>1. PICK x \in T : TRUE
    BY <2>0
  <2>2. IsFiniteSet(T)
    BY <1>1
  <2>3. Cardinality(T \ {x}) = Cardinality(T) - 1
    BY <2>2, FS_RemoveElement
  <2>4. T \ {x} \in G
    BY <2>3
  <2>5. T = (T \ {x}) \cup {x}
    OBVIOUS
  <2> QED BY <2>4, <2>5
<1> HIDE DEF good
<1>4. Nat \subseteq good
  BY <1>2, <1>3, NatInductionOnSets
<1> QED BY <1>1, <1>4 DEF good

\* The values of a function on a finite set are finitely many.
LEMMA ImageIsFinite ==
  ASSUME NEW f, NEW S, IsFiniteSet(S)
  PROVE  IsFiniteSet({ f[x] : x \in S })
<1> DEFINE Image(T) == { f[x] : x \in T }
           G == { T \in SUBSET S : IsFiniteSet(Image(T)) }
<1>1. {} \in G
  <2>1. Image({}) = {}
    OBVIOUS
  <2> QED BY <2>1, FS_EmptySet
<1>2. ASSUME NEW T \in SUBSET S, NEW x \in S, T \in G, x \notin T PROVE T \cup {x} \in G
  <2>1. Image(T \cup {x}) = Image(T) \cup {f[x]}
    OBVIOUS
  <2>2. IsFiniteSet(Image(T))
    BY <1>2
  <2> HIDE DEF Image
  <2>3. IsFiniteSet(Image(T) \cup {f[x]})
    BY <2>2, FS_AddElement
  <2> QED BY <2>1, <2>3
<1> HIDE DEF G
<1>3. S \in G
  BY <1>1, <1>2, FiniteInduction
<1> QED BY <1>3 DEF G

\* A finite set of integers has a least element.
LEMMA LeastInteger ==
  ASSUME NEW S \in SUBSET Int, IsFiniteSet(S), S # {}
  PROVE  \E x \in S : \A y \in S : x <= y
<1> DEFINE G == { T \in SUBSET S : T = {} \/ \E x \in T : \A y \in T : x <= y }
<1>1. {} \in G
  OBVIOUS
<1>2. ASSUME NEW T \in SUBSET S, NEW x \in S, T \in G, x \notin T PROVE T \cup {x} \in G
  <2>1. CASE T = {}
    <3>1. \A y \in T \cup {x} : x <= y
      BY <2>1
    <3> QED BY <3>1
  <2>2. CASE T # {}
    <3>1. PICK z \in T : \A y \in T : z <= y
      BY <1>2, <2>2
    <3>2. CASE z <= x
      <4>1. \A y \in T \cup {x} : z <= y
        BY <3>1, <3>2
      <4> QED BY <4>1
    <3>3. CASE ~ (z <= x)
      <4>1. \A y \in T \cup {x} : x <= y
        BY <3>1, <3>3
      <4> QED BY <4>1
    <3> QED BY <3>2, <3>3
  <2> QED BY <2>1, <2>2
<1>3. \A T \in SUBSET S, x \in S : T \in G /\ x \notin T => T \cup {x} \in G
  BY <1>2
<1>4. S \in G
  <2> HIDE DEF G
  <2> QED BY <1>1, <1>3, FiniteInduction
<1> QED BY <1>4

-----------------------------------------------------------------------------
(* The fold's recursive definition has a solution, and only one *)

SumPick(s) == CHOOSE x \in s : TRUE
SumStep(f, h, s) == IF s = {} THEN 0 ELSE f[SumPick(s)] + h[s \ {SumPick(s)}]
SumLevel(S, n) == { s \in SUBSET S : Cardinality(s) <= n }

\* h is a table of the sums over the sets in D.
IsSumTable(f, D, h) == h = [s \in D |-> SumStep(f, h, s)]

\* A table for the subsets up to any size; a table for one more is made from it.
LEMMA SumLevels ==
  ASSUME NEW f, NEW S, IsFiniteSet(S)
  PROVE  \A n \in Nat : \E h : IsSumTable(f, SumLevel(S, n), h)
<1> DEFINE good == { n \in Nat : \E h : IsSumTable(f, SumLevel(S, n), h) }
<1>0. \A T \in SUBSET S : IsFiniteSet(T) /\ Cardinality(T) \in Nat
  BY FS_Subset, FS_CardinalityType
<1>1. 0 \in good
  <2> DEFINE h == [s \in SumLevel(S, 0) |-> 0]
  <2>1. \A s \in SumLevel(S, 0) : s = {}
    BY <1>0, FS_EmptySet DEF SumLevel
  <2> QED BY <2>1 DEF IsSumTable, SumStep
<1>2. \A n \in Nat : n \in good => n + 1 \in good
  <2> SUFFICES ASSUME NEW n \in Nat, NEW h, IsSumTable(f, SumLevel(S, n), h)
               PROVE  \E g : IsSumTable(f, SumLevel(S, n + 1), g)
    OBVIOUS
  <2> DEFINE g == [s \in SumLevel(S, n + 1) |-> SumStep(f, h, s)]
  <2>1. \A s \in SumLevel(S, n) : s \in SumLevel(S, n + 1) /\ h[s] = g[s]
    BY <1>0 DEF SumLevel, IsSumTable
  <2>2. ASSUME NEW s \in SumLevel(S, n + 1), s # {}
        PROVE  s \ {SumPick(s)} \in SumLevel(S, n)
    <3>1. SumPick(s) \in s
      BY <2>2 DEF SumPick
    <3>2. IsFiniteSet(s) /\ Cardinality(s) \in Nat /\ Cardinality(s) <= n + 1 /\ s \in SUBSET S
      BY <1>0 DEF SumLevel
    <3>3. Cardinality(s \ {SumPick(s)}) = Cardinality(s) - 1
      BY <3>1, <3>2, FS_RemoveElement
    <3> QED BY <3>2, <3>3 DEF SumLevel
  <2>3. \A s \in SumLevel(S, n + 1) : SumStep(f, h, s) = SumStep(f, g, s)
    BY <2>1, <2>2 DEF SumStep
  <2>4. IsSumTable(f, SumLevel(S, n + 1), g)
    BY <2>3 DEF IsSumTable
  <2> QED BY <2>4
<1> HIDE DEF good
<1>3. Nat \subseteq good
  BY <1>1, <1>2, NatInductionOnSets
<1> QED BY <1>3 DEF good

\* The table over all subsets, which the fold chooses.
LEMMA SumTable ==
  ASSUME NEW f, NEW S, IsFiniteSet(S)
  PROVE  \E h : IsSumTable(f, SUBSET S, h) /\ SumFunctionOnSet(f, S) = h[S]
<1>1. Cardinality(S) \in Nat /\ SUBSET S = SumLevel(S, Cardinality(S))
  BY FS_Subset, FS_CardinalityType DEF SumLevel
<1>2. PICK g : IsSumTable(f, SUBSET S, g)
  <2>1. \E g : IsSumTable(f, SumLevel(S, Cardinality(S)), g)
    BY <1>1, SumLevels
  <2> QED BY <1>1, <2>1
<1> DEFINE h == CHOOSE i : i = [s \in SUBSET S |->
                  IF s = {} THEN 0 ELSE f[CHOOSE x \in s : TRUE] + i[s \ {CHOOSE x \in s : TRUE}]]
<1>3. SumFunctionOnSet(f, S) = h[S]
  BY DEF SumFunctionOnSet, FoldFunctionOnSet, MapThenFoldSet
<1>4. IsSumTable(f, SUBSET S, h)
  <2> DEFINE Equation(i) == i = [s \in SUBSET S |->
                IF s = {} THEN 0 ELSE f[CHOOSE x \in s : TRUE] + i[s \ {CHOOSE x \in s : TRUE}]]
  <2>1. \A i : IsSumTable(f, SUBSET S, i) = Equation(i)
    BY DEF IsSumTable, SumStep, SumPick
  <2>2. \E i : Equation(i)
    <3> HIDE DEF Equation, h
    <3> QED BY <1>2, <2>1
  <2>3. h = CHOOSE i : Equation(i)
    OBVIOUS
  <2> HIDE DEF Equation, h
  <2>4. Equation(h)
    BY <2>2, <2>3
  <2> QED BY <2>1, <2>4
<1> HIDE DEF h
<1> QED BY <1>3, <1>4

\* Two tables agree where the summands do.
LEMMA SumTablesAgree ==
  ASSUME NEW f, NEW g, NEW S, NEW T \in SUBSET S, IsFiniteSet(S), NEW h, NEW i,
         \A x \in T : f[x] = g[x],
         IsSumTable(f, SUBSET S, h), IsSumTable(g, SUBSET T, i)
  PROVE  h[T] = i[T]
<1> DEFINE good == { n \in Nat : \A s \in SUBSET T : Cardinality(s) = n => h[s] = i[s] }
<1>0. \A s \in SUBSET T : IsFiniteSet(s) /\ Cardinality(s) \in Nat
  BY FS_Subset, FS_CardinalityType
<1>1. 0 \in good
  BY <1>0, FS_EmptySet DEF IsSumTable, SumStep
<1>2. \A n \in Nat : n \in good => n + 1 \in good
  <2> SUFFICES ASSUME NEW n \in Nat, n \in good, NEW s \in SUBSET T, Cardinality(s) = n + 1
               PROVE  h[s] = i[s]
    OBVIOUS
  <2>1. s # {}
    BY NotEmpty
  <2>2. SumPick(s) \in s
    BY <2>1 DEF SumPick
  <2>3. Cardinality(s \ {SumPick(s)}) = n
    <3>1. IsFiniteSet(s)
      BY <1>0
    <3>2. Cardinality(s \ {SumPick(s)}) = Cardinality(s) - 1
      BY <2>2, <3>1, FS_RemoveElement
    <3> QED BY <3>2
  <2>4. h[s \ {SumPick(s)}] = i[s \ {SumPick(s)}]
    BY <2>3
  <2>5. h[s] = SumStep(f, h, s) /\ i[s] = SumStep(g, i, s)
    BY DEF IsSumTable
  <2>6. f[SumPick(s)] = g[SumPick(s)]
    BY <2>2
  <2> QED BY <2>1, <2>4, <2>5, <2>6 DEF SumStep
<1> HIDE DEF good
<1>3. Nat \subseteq good
  BY <1>1, <1>2, NatInductionOnSets
<1> QED BY <1>0, <1>3 DEF good

-----------------------------------------------------------------------------
(* What the fold computes *)

\* Only the summands count.
THEOREM SumOfEqual ==
  ASSUME NEW f, NEW g, NEW S, IsFiniteSet(S), \A x \in S : f[x] = g[x]
  PROVE  SumFunctionOnSet(f, S) = SumFunctionOnSet(g, S)
<1>1. PICK h : IsSumTable(f, SUBSET S, h) /\ SumFunctionOnSet(f, S) = h[S]
  BY SumTable
<1>2. PICK i : IsSumTable(g, SUBSET S, i) /\ SumFunctionOnSet(g, S) = i[S]
  BY SumTable
<1> QED BY <1>1, <1>2, SumTablesAgree

\* Nothing sums up to zero.
THEOREM SumEmpty == ASSUME NEW f PROVE SumFunctionOnSet(f, {}) = 0
<1>1. PICK h : IsSumTable(f, SUBSET {}, h) /\ SumFunctionOnSet(f, {}) = h[{}]
  BY SumTable, FS_EmptySet
<1> QED BY <1>1 DEF IsSumTable, SumStep

\* The fold takes out one element, the one it picks.
LEMMA SumPicks ==
  ASSUME NEW f, NEW S, IsFiniteSet(S), S # {}
  PROVE  SumPick(S) \in S /\ SumFunctionOnSet(f, S) = f[SumPick(S)] + SumFunctionOnSet(f, S \ {SumPick(S)})
<1>1. PICK h : IsSumTable(f, SUBSET S, h) /\ SumFunctionOnSet(f, S) = h[S]
  BY SumTable
<1>2. SumPick(S) \in S
  BY DEF SumPick
<1> DEFINE T == S \ {SumPick(S)}
<1>3. IsFiniteSet(T) /\ T \in SUBSET S
  BY FS_Subset
<1>4. PICK i : IsSumTable(f, SUBSET T, i) /\ SumFunctionOnSet(f, T) = i[T]
  BY <1>3, SumTable
<1>5. h[T] = i[T]
  <2>1. \A x \in T : f[x] = f[x]
    OBVIOUS
  <2> HIDE DEF T
  <2> QED BY <1>1, <1>3, <1>4, <2>1, SumTablesAgree
<1>6. h[S] = f[SumPick(S)] + h[T]
  BY <1>1 DEF IsSumTable, SumStep
<1> QED BY <1>1, <1>2, <1>4, <1>5, <1>6

\* A sum of numbers from a set that is closed under addition is in that set.
LEMMA SumClosed ==
  ASSUME NEW f, NEW S, IsFiniteSet(S), NEW N, 0 \in N, \A x \in S : f[x] \in N,
         \A a, b \in N : a + b \in N
  PROVE  SumFunctionOnSet(f, S) \in N
<1> DEFINE good == { n \in Nat : \A T \in SUBSET S : Cardinality(T) = n => SumFunctionOnSet(f, T) \in N }
<1>0. \A T \in SUBSET S : IsFiniteSet(T) /\ Cardinality(T) \in Nat
  BY FS_Subset, FS_CardinalityType
<1>1. 0 \in good
  <2> SUFFICES ASSUME NEW T \in SUBSET S, Cardinality(T) = 0 PROVE SumFunctionOnSet(f, T) \in N
    OBVIOUS
  <2>1. T = {}
    BY <1>0, FS_EmptySet
  <2> QED BY <2>1, SumEmpty
<1>2. \A n \in Nat : n \in good => n + 1 \in good
  <2> SUFFICES ASSUME NEW n \in Nat, n \in good, NEW T \in SUBSET S, Cardinality(T) = n + 1
               PROVE  SumFunctionOnSet(f, T) \in N
    OBVIOUS
  <2> DEFINE p == SumPick(T)
  <2>1. T # {} /\ IsFiniteSet(T)
    BY <1>0, NotEmpty
  <2>2. p \in T /\ SumFunctionOnSet(f, T) = f[p] + SumFunctionOnSet(f, T \ {p})
    BY <2>1, SumPicks
  <2> HIDE DEF p
  <2>3. Cardinality(T \ {p}) = n
    <3>1. Cardinality(T \ {p}) = Cardinality(T) - 1
      BY <2>1, <2>2, FS_RemoveElement
    <3> QED BY <3>1
  <2>4. SumFunctionOnSet(f, T \ {p}) \in N
    BY <2>3
  <2> QED BY <2>2, <2>4
<1> HIDE DEF good
<1>3. Nat \subseteq good
  BY <1>1, <1>2, NatInductionOnSets
<1> QED BY <1>0, <1>3, FS_Subset DEF good

\* Integers sum up to an integer and naturals to a natural number.
THEOREM SumType ==
  ASSUME NEW f, NEW S, IsFiniteSet(S)
  PROVE  /\ (\A x \in S : f[x] \in Int) => SumFunctionOnSet(f, S) \in Int
         /\ (\A x \in S : f[x] \in Nat) => SumFunctionOnSet(f, S) \in Nat
<1>1. 0 \in Int /\ (\A a, b \in Int : a + b \in Int)
  OBVIOUS
<1>2. 0 \in Nat /\ (\A a, b \in Nat : a + b \in Nat)
  OBVIOUS
<1> QED BY <1>1, <1>2, SumClosed

\* Any element may be taken out first.
THEOREM SumRemove ==
  ASSUME NEW f, NEW S, IsFiniteSet(S), \A x \in S : f[x] \in Int, NEW x \in S
  PROVE  SumFunctionOnSet(f, S) = f[x] + SumFunctionOnSet(f, S \ {x})
<1> DEFINE Good(T) == \A y \in T : SumFunctionOnSet(f, T) = f[y] + SumFunctionOnSet(f, T \ {y})
           good == { n \in Nat : \A T \in SUBSET S : Cardinality(T) = n => Good(T) }
<1>0. \A T \in SUBSET S : IsFiniteSet(T) /\ Cardinality(T) \in Nat /\ SumFunctionOnSet(f, T) \in Int
  BY FS_Subset, FS_CardinalityType, SumType
<1>1. 0 \in good
  BY <1>0, FS_EmptySet
<1>2. \A n \in Nat : n \in good => n + 1 \in good
  <2> SUFFICES ASSUME NEW n \in Nat, n \in good, NEW T \in SUBSET S, Cardinality(T) = n + 1
               PROVE  Good(T)
    <3> HIDE DEF Good
    <3> QED OBVIOUS
  <2> SUFFICES ASSUME NEW y \in T
               PROVE  SumFunctionOnSet(f, T) = f[y] + SumFunctionOnSet(f, T \ {y})
    OBVIOUS
  <2>1. T # {} /\ IsFiniteSet(T)
    BY <1>0, NotEmpty
  <2>2. \A z \in T : Good(T \ {z})
    <3> SUFFICES ASSUME NEW z \in T PROVE Good(T \ {z})
      OBVIOUS
    <3>1. Cardinality(T \ {z}) = Cardinality(T) - 1
      BY <2>1, FS_RemoveElement
    <3>2. Cardinality(T \ {z}) = n /\ T \ {z} \in SUBSET S
      BY <3>1
    <3> HIDE DEF Good
    <3> QED BY <3>2
  <2> DEFINE p == SumPick(T)
  <2>3. p \in T /\ SumFunctionOnSet(f, T) = f[p] + SumFunctionOnSet(f, T \ {p})
    BY <2>1, SumPicks
  <2> HIDE DEF p
  <2>4. CASE y = p
    BY <2>3, <2>4
  <2>5. CASE y # p
    <3> DEFINE rest == (T \ {p}) \ {y}
    <3>1. rest = (T \ {y}) \ {p} /\ rest \in SUBSET S /\ y \in T \ {p} /\ p \in T \ {y}
      BY <2>3, <2>5
    <3>2. SumFunctionOnSet(f, T \ {p}) = f[y] + SumFunctionOnSet(f, rest)
      BY <2>2, <2>3, <3>1
    <3>3. SumFunctionOnSet(f, T \ {y}) = f[p] + SumFunctionOnSet(f, rest)
      BY <2>2, <3>1
    <3>4. f[y] \in Int /\ f[p] \in Int /\ SumFunctionOnSet(f, rest) \in Int
      BY <1>0, <2>3, <3>1
    <3> HIDE DEF rest
    <3> QED BY <2>3, <3>2, <3>3, <3>4
  <2> QED BY <2>4, <2>5
<1> HIDE DEF good
<1>3. Nat \subseteq good
  BY <1>1, <1>2, NatInductionOnSets
<1>4. S \in SUBSET S
  OBVIOUS
<1> QED BY <1>0, <1>3, <1>4 DEF good

\* One element more adds its summand.
THEOREM SumInsert ==
  ASSUME NEW f, NEW S, IsFiniteSet(S), NEW x, x \notin S, \A y \in S \cup {x} : f[y] \in Int
  PROVE  SumFunctionOnSet(f, S \cup {x}) = SumFunctionOnSet(f, S) + f[x]
<1>1. IsFiniteSet(S \cup {x}) /\ (S \cup {x}) \ {x} = S
  BY FS_AddElement
<1>2. SumFunctionOnSet(f, S \cup {x}) = f[x] + SumFunctionOnSet(f, S)
  BY <1>1, SumRemove
<1>3. SumFunctionOnSet(f, S) \in Int /\ f[x] \in Int
  BY SumType
<1> QED BY <1>2, <1>3

\* The summands of two disjoint sets.
THEOREM SumDisjoint ==
  ASSUME NEW f, NEW S, NEW T, IsFiniteSet(S), IsFiniteSet(T), S \cap T = {},
         \A x \in S \cup T : f[x] \in Int
  PROVE  SumFunctionOnSet(f, S \cup T) = SumFunctionOnSet(f, S) + SumFunctionOnSet(f, T)
<1> DEFINE G == { U \in SUBSET T :
                    SumFunctionOnSet(f, S \cup U) = SumFunctionOnSet(f, S) + SumFunctionOnSet(f, U) }
<1>1. SumFunctionOnSet(f, S) \in Int
  BY SumType
<1>2. {} \in G
  <2>1. S \cup {} = S
    OBVIOUS
  <2> QED BY <1>1, <2>1, SumEmpty
<1>3. \A U \in SUBSET T, x \in T : U \in G /\ x \notin U => U \cup {x} \in G
  <2> SUFFICES ASSUME NEW U \in SUBSET T, NEW x \in T, U \in G, x \notin U
               PROVE  SumFunctionOnSet(f, S \cup (U \cup {x}))
                        = SumFunctionOnSet(f, S) + SumFunctionOnSet(f, U \cup {x})
    OBVIOUS
  <2>1. IsFiniteSet(U) /\ IsFiniteSet(S \cup U)
    BY FS_Subset, FS_Union
  <2>2. SumFunctionOnSet(f, U \cup {x}) = SumFunctionOnSet(f, U) + f[x]
    BY <2>1, SumInsert
  <2>3. SumFunctionOnSet(f, (S \cup U) \cup {x}) = SumFunctionOnSet(f, S \cup U) + f[x]
    <3>1. x \notin S \cup U
      OBVIOUS
    <3> HIDE DEF G
    <3> QED BY <2>1, <3>1, SumInsert
  <2>4. SumFunctionOnSet(f, S \cup (U \cup {x})) = SumFunctionOnSet(f, S \cup U) + f[x]
    <3>1. S \cup (U \cup {x}) = (S \cup U) \cup {x}
      OBVIOUS
    <3> QED BY <2>3, <3>1, Zenon
  <2>5. SumFunctionOnSet(f, U) \in Int /\ f[x] \in Int
    BY <2>1, SumType
  <2>6. SumFunctionOnSet(f, S \cup U) = SumFunctionOnSet(f, S) + SumFunctionOnSet(f, U)
    OBVIOUS
  <2> QED BY <1>1, <2>2, <2>4, <2>5, <2>6
<1> HIDE DEF G
<1>4. T \in G
  BY <1>2, <1>3, FiniteInduction
<1> QED BY <1>4 DEF G

\* Taking a part of the set away.
THEOREM SumDifference ==
  ASSUME NEW f, NEW S, IsFiniteSet(S), NEW T \in SUBSET S, \A x \in S : f[x] \in Int
  PROVE  SumFunctionOnSet(f, S \ T) = SumFunctionOnSet(f, S) - SumFunctionOnSet(f, T)
<1>1. IsFiniteSet(T) /\ IsFiniteSet(S \ T) /\ (S \ T) \cap T = {}
  BY FS_Subset
<1>2. SumFunctionOnSet(f, S) = SumFunctionOnSet(f, S \ T) + SumFunctionOnSet(f, T)
  <2>1. S = (S \ T) \cup T
    OBVIOUS
  <2>2. SumFunctionOnSet(f, (S \ T) \cup T) = SumFunctionOnSet(f, S \ T) + SumFunctionOnSet(f, T)
    BY <1>1, SumDisjoint
  <2> QED BY <2>1, <2>2, Zenon
<1>3. SumFunctionOnSet(f, S \ T) \in Int /\ SumFunctionOnSet(f, T) \in Int
  BY <1>1, SumType
<1> QED BY <1>2, <1>3

\* A part of natural summands sums up to no more.
THEOREM SumMonotone ==
  ASSUME NEW f, NEW S, IsFiniteSet(S), NEW T \in SUBSET S, \A x \in S : f[x] \in Nat
  PROVE  SumFunctionOnSet(f, T) <= SumFunctionOnSet(f, S)
<1>1. IsFiniteSet(T) /\ IsFiniteSet(S \ T)
  BY FS_Subset
<1>2. SumFunctionOnSet(f, S \ T) = SumFunctionOnSet(f, S) - SumFunctionOnSet(f, T)
  BY SumDifference
<1>3. /\ SumFunctionOnSet(f, S) \in Nat /\ SumFunctionOnSet(f, T) \in Nat
      /\ SumFunctionOnSet(f, S \ T) \in Nat
  BY <1>1, SumType
<1> QED BY <1>2, <1>3

\* Summands that are no larger.
THEOREM SumOfLess ==
  ASSUME NEW f, NEW g, NEW S, IsFiniteSet(S),
         \A x \in S : f[x] \in Int /\ g[x] \in Int /\ f[x] <= g[x]
  PROVE  SumFunctionOnSet(f, S) <= SumFunctionOnSet(g, S)
<1> DEFINE G == { U \in SUBSET S : SumFunctionOnSet(f, U) <= SumFunctionOnSet(g, U) }
<1>1. {} \in G
  BY SumEmpty
<1>2. \A U \in SUBSET S, x \in S : U \in G /\ x \notin U => U \cup {x} \in G
  <2> SUFFICES ASSUME NEW U \in SUBSET S, NEW x \in S, U \in G, x \notin U
               PROVE  SumFunctionOnSet(f, U \cup {x}) <= SumFunctionOnSet(g, U \cup {x})
    OBVIOUS
  <2>1. IsFiniteSet(U)
    BY FS_Subset
  <2>2. /\ SumFunctionOnSet(f, U \cup {x}) = SumFunctionOnSet(f, U) + f[x]
        /\ SumFunctionOnSet(g, U \cup {x}) = SumFunctionOnSet(g, U) + g[x]
    BY <2>1, SumInsert
  <2>3. SumFunctionOnSet(f, U) \in Int /\ SumFunctionOnSet(g, U) \in Int
    BY <2>1, SumType
  <2> QED BY <2>2, <2>3
<1> HIDE DEF G
<1>3. S \in G
  BY <1>1, <1>2, FiniteInduction
<1> QED BY <1>3 DEF G

\* One summand.
THEOREM SumSingleton == ASSUME NEW f, NEW x, f[x] \in Int PROVE SumFunctionOnSet(f, {x}) = f[x]
<1>1. SumFunctionOnSet(f, {} \cup {x}) = SumFunctionOnSet(f, {}) + f[x]
  BY SumInsert, FS_EmptySet
<1>2. {} \cup {x} = {x}
  OBVIOUS
<1> QED BY <1>1, <1>2, SumEmpty

\* Summands that are differences.
THEOREM SumOfDifferences ==
  ASSUME NEW f, NEW g, NEW h, NEW S, IsFiniteSet(S),
         \A x \in S : f[x] \in Int /\ g[x] \in Int /\ h[x] = f[x] - g[x]
  PROVE  SumFunctionOnSet(h, S) = SumFunctionOnSet(f, S) - SumFunctionOnSet(g, S)
<1> DEFINE G == { U \in SUBSET S :
                    SumFunctionOnSet(h, U) = SumFunctionOnSet(f, U) - SumFunctionOnSet(g, U) }
<1>1. {} \in G
  BY SumEmpty
<1>2. \A U \in SUBSET S, x \in S : U \in G /\ x \notin U => U \cup {x} \in G
  <2> SUFFICES ASSUME NEW U \in SUBSET S, NEW x \in S, U \in G, x \notin U
               PROVE  SumFunctionOnSet(h, U \cup {x})
                        = SumFunctionOnSet(f, U \cup {x}) - SumFunctionOnSet(g, U \cup {x})
    OBVIOUS
  <2>1. IsFiniteSet(U)
    BY FS_Subset
  <2>2. /\ SumFunctionOnSet(f, U \cup {x}) = SumFunctionOnSet(f, U) + f[x]
        /\ SumFunctionOnSet(g, U \cup {x}) = SumFunctionOnSet(g, U) + g[x]
        /\ SumFunctionOnSet(h, U \cup {x}) = SumFunctionOnSet(h, U) + h[x]
    BY <2>1, SumInsert
  <2>3. SumFunctionOnSet(f, U) \in Int /\ SumFunctionOnSet(g, U) \in Int
    BY <2>1, SumType
  <2> QED BY <2>2, <2>3
<1> HIDE DEF G
<1>3. S \in G
  BY <1>1, <1>2, FiniteInduction
<1> QED BY <1>3 DEF G

\* One summand changes.
THEOREM SumOfOneChange ==
  ASSUME NEW f, NEW g, NEW S, IsFiniteSet(S), NEW x \in S,
         \A y \in S : f[y] \in Int /\ g[y] \in Int,
         \A y \in S \ {x} : g[y] = f[y]
  PROVE  SumFunctionOnSet(g, S) = SumFunctionOnSet(f, S) - f[x] + g[x]
<1>1. IsFiniteSet(S \ {x})
  BY FS_Subset
<1>2. SumFunctionOnSet(g, S \ {x}) = SumFunctionOnSet(f, S \ {x})
  BY <1>1, SumOfEqual
<1>3. /\ SumFunctionOnSet(f, S) = f[x] + SumFunctionOnSet(f, S \ {x})
      /\ SumFunctionOnSet(g, S) = g[x] + SumFunctionOnSet(g, S \ {x})
  BY SumRemove
<1>4. SumFunctionOnSet(f, S \ {x}) \in Int
  BY <1>1, SumType
<1> QED BY <1>2, <1>3, <1>4

\* No summand is larger than m.
THEOREM SumBounded ==
  ASSUME NEW f, NEW S, IsFiniteSet(S), NEW m \in Nat, \A x \in S : f[x] \in Int /\ f[x] <= m
  PROVE  SumFunctionOnSet(f, S) <= Cardinality(S) * m
<1> DEFINE G == { U \in SUBSET S : SumFunctionOnSet(f, U) <= Cardinality(U) * m }
<1>1. {} \in G
  <2>1. Cardinality({}) = 0
    BY FS_EmptySet
  <2>2. 0 <= 0 * m
    OBVIOUS
  <2> QED BY <2>1, <2>2, SumEmpty
<1>2. \A U \in SUBSET S, x \in S : U \in G /\ x \notin U => U \cup {x} \in G
  <2> SUFFICES ASSUME NEW U \in SUBSET S, NEW x \in S, U \in G, x \notin U
               PROVE  SumFunctionOnSet(f, U \cup {x}) <= Cardinality(U \cup {x}) * m
    OBVIOUS
  <2>1. IsFiniteSet(U) /\ Cardinality(U) \in Nat
    BY FS_Subset, FS_CardinalityType
  <2>2. SumFunctionOnSet(f, U \cup {x}) = SumFunctionOnSet(f, U) + f[x]
    BY <2>1, SumInsert
  <2>3. Cardinality(U \cup {x}) = Cardinality(U) + 1
    BY <2>1, FS_AddElement
  <2>4. SumFunctionOnSet(f, U) \in Int
    BY <2>1, SumType
  <2>5. \A n \in Nat : (n + 1) * m = n * m + m /\ n * m \in Nat
    OBVIOUS
  <2>6. Cardinality(U \cup {x}) * m = Cardinality(U) * m + m
    BY <2>1, <2>3, <2>5
  <2>7. Cardinality(U) * m \in Nat
    BY <2>1, <2>5
  <2> QED BY <2>2, <2>4, <2>6, <2>7
<1> HIDE DEF G
<1>3. S \in G
  BY <1>1, <1>2, FiniteInduction
<1> QED BY <1>3 DEF G

-----------------------------------------------------------------------------
(* The same of a product, for its type *)

ProductStep(f, h, s) == IF s = {} THEN 1 ELSE f[SumPick(s)] * h[s \ {SumPick(s)}]

\* h is a table of the products over the sets in D.
IsProductTable(f, D, h) == h = [s \in D |-> ProductStep(f, h, s)]

\* A table for the subsets up to any size; a table for one more is made from it.
LEMMA ProductLevels ==
  ASSUME NEW f, NEW S, IsFiniteSet(S)
  PROVE  \A n \in Nat : \E h : IsProductTable(f, SumLevel(S, n), h)
<1> DEFINE good == { n \in Nat : \E h : IsProductTable(f, SumLevel(S, n), h) }
<1>0. \A T \in SUBSET S : IsFiniteSet(T) /\ Cardinality(T) \in Nat
  BY FS_Subset, FS_CardinalityType
<1>1. 0 \in good
  <2> DEFINE h == [s \in SumLevel(S, 0) |-> 1]
  <2>1. \A s \in SumLevel(S, 0) : s = {}
    BY <1>0, FS_EmptySet DEF SumLevel
  <2> QED BY <2>1 DEF IsProductTable, ProductStep
<1>2. \A n \in Nat : n \in good => n + 1 \in good
  <2> SUFFICES ASSUME NEW n \in Nat, NEW h, IsProductTable(f, SumLevel(S, n), h)
               PROVE  \E g : IsProductTable(f, SumLevel(S, n + 1), g)
    OBVIOUS
  <2> DEFINE g == [s \in SumLevel(S, n + 1) |-> ProductStep(f, h, s)]
  <2>1. \A s \in SumLevel(S, n) : s \in SumLevel(S, n + 1) /\ h[s] = g[s]
    BY <1>0 DEF SumLevel, IsProductTable
  <2>2. ASSUME NEW s \in SumLevel(S, n + 1), s # {}
        PROVE  s \ {SumPick(s)} \in SumLevel(S, n)
    <3>1. SumPick(s) \in s
      BY <2>2 DEF SumPick
    <3>2. IsFiniteSet(s) /\ Cardinality(s) \in Nat /\ Cardinality(s) <= n + 1 /\ s \in SUBSET S
      BY <1>0 DEF SumLevel
    <3>3. Cardinality(s \ {SumPick(s)}) = Cardinality(s) - 1
      BY <3>1, <3>2, FS_RemoveElement
    <3> QED BY <3>2, <3>3 DEF SumLevel
  <2>3. \A s \in SumLevel(S, n + 1) : ProductStep(f, h, s) = ProductStep(f, g, s)
    BY <2>1, <2>2 DEF ProductStep
  <2>4. IsProductTable(f, SumLevel(S, n + 1), g)
    BY <2>3 DEF IsProductTable
  <2> QED BY <2>4
<1> HIDE DEF good
<1>3. Nat \subseteq good
  BY <1>1, <1>2, NatInductionOnSets
<1> QED BY <1>3 DEF good

\* The table over all subsets, which the fold chooses.
LEMMA ProductTable ==
  ASSUME NEW f, IsFiniteSet(DOMAIN f)
  PROVE  \E h : /\ IsProductTable(f, SUBSET DOMAIN f, h)
               /\ FoldFunction(LAMBDA x, y : x * y, 1, f) = h[DOMAIN f]
<1> DEFINE S == DOMAIN f
<1>1. Cardinality(S) \in Nat /\ SUBSET S = SumLevel(S, Cardinality(S))
  BY FS_Subset, FS_CardinalityType DEF SumLevel
<1>2. PICK g : IsProductTable(f, SUBSET S, g)
  <2>1. \E g : IsProductTable(f, SumLevel(S, Cardinality(S)), g)
    BY <1>1, ProductLevels
  <2> QED BY <1>1, <2>1
<1> DEFINE h == CHOOSE i : i = [s \in SUBSET S |->
                  IF s = {} THEN 1 ELSE f[CHOOSE x \in s : TRUE] * i[s \ {CHOOSE x \in s : TRUE}]]
<1>3. FoldFunction(LAMBDA x, y : x * y, 1, f) = h[S]
  BY DEF FoldFunction, FoldFunctionOnSet, MapThenFoldSet
<1>4. IsProductTable(f, SUBSET S, h)
  <2> DEFINE Equation(i) == i = [s \in SUBSET S |->
                IF s = {} THEN 1 ELSE f[CHOOSE x \in s : TRUE] * i[s \ {CHOOSE x \in s : TRUE}]]
  <2>1. \A i : IsProductTable(f, SUBSET S, i) = Equation(i)
    BY DEF IsProductTable, ProductStep, SumPick
  <2>2. \E i : Equation(i)
    <3> HIDE DEF Equation, h
    <3> QED BY <1>2, <2>1
  <2>3. h = CHOOSE i : Equation(i)
    OBVIOUS
  <2> HIDE DEF Equation, h
  <2>4. Equation(h)
    BY <2>2, <2>3
  <2> QED BY <2>1, <2>4
<1> HIDE DEF h
<1> QED BY <1>3, <1>4

\* A product of positive numbers is one.
THEOREM ProductPositive ==
  ASSUME NEW f, IsFiniteSet(DOMAIN f), \A x \in DOMAIN f : f[x] \in Nat \ {0}
  PROVE  FoldFunction(LAMBDA x, y : x * y, 1, f) \in Nat \ {0}
<1>1. PICK h : /\ IsProductTable(f, SUBSET DOMAIN f, h)
               /\ FoldFunction(LAMBDA x, y : x * y, 1, f) = h[DOMAIN f]
  BY ProductTable
<1> DEFINE S == DOMAIN f
           good == { n \in Nat : \A T \in SUBSET S : Cardinality(T) = n => h[T] \in Nat \ {0} }
<1>0. \A T \in SUBSET S : IsFiniteSet(T) /\ Cardinality(T) \in Nat
  BY FS_Subset, FS_CardinalityType
<1>2. \A T \in SUBSET S : h[T] = ProductStep(f, h, T)
  BY <1>1 DEF IsProductTable
<1> HIDE DEF S
<1>3. 0 \in good
  BY <1>0, <1>2, FS_EmptySet DEF ProductStep
<1>4. \A n \in Nat : n \in good => n + 1 \in good
  <2> SUFFICES ASSUME NEW n \in Nat, n \in good, NEW T \in SUBSET S, Cardinality(T) = n + 1
               PROVE  h[T] \in Nat \ {0}
    OBVIOUS
  <2> DEFINE p == SumPick(T)
  <2>1. T # {} /\ IsFiniteSet(T)
    BY <1>0, NotEmpty
  <2>2. p \in T /\ h[T] = f[p] * h[T \ {p}]
    BY <1>2, <2>1 DEF ProductStep, SumPick
  <2> HIDE DEF p
  <2>3. Cardinality(T \ {p}) = n
    <3>1. Cardinality(T \ {p}) = Cardinality(T) - 1
      BY <2>1, <2>2, FS_RemoveElement
    <3> QED BY <3>1
  <2>4. h[T \ {p}] \in Nat \ {0} /\ f[p] \in Nat \ {0}
    BY <2>2, <2>3 DEF S
  <2>5. \A a, b \in Nat \ {0} : a * b \in Nat \ {0}
    OBVIOUS
  <2> QED BY <2>2, <2>4, <2>5
<1> HIDE DEF good
<1>5. Nat \subseteq good
  BY <1>3, <1>4, NatInductionOnSets
<1>6. h[S] \in Nat \ {0}
  BY <1>0, <1>5 DEF good, S
<1> QED BY <1>1, <1>6 DEF S
=============================================================================
