------------------------------ MODULE FiniteLemmas ------------------------------
(***************************************************************************)
(* Facts about finite sets that several of the proofs need.  Induction is  *)
(* stated over a family of sets instead of over a predicate: a family is a *)
(* set, which the provers can instantiate.                                 *)
(***************************************************************************)
EXTENDS Integers, FiniteSets, FiniteSetTheorems, TLAPS

\* Of the sets of a family some are minimal.
LEMMA MinimalSetExists ==
    ASSUME NEW S, IsFiniteSet(S), NEW F \in SUBSET SUBSET S, F # {}
    PROVE  \E T \in F : \A U \in F : U \subseteq T => U = T
  <1>1. F \subseteq FiniteSubsetsOf(S)
    BY FS_Subset DEF FiniteSubsetsOf
  <1>2. IsWellFoundedOn(StrictSubsetOrdering(S), FiniteSubsetsOf(S))
    BY FS_StrictSubsetOrderingWellFounded
  <1>3. PICK T \in F : \A U \in F : <<U, T>> \notin StrictSubsetOrdering(S)
    BY <1>1, <1>2, WFMin
  <1>4. \A U \in F : U \subseteq T => U = T
    BY <1>3 DEF StrictSubsetOrdering
  <1> QED BY <1>4

\* A family with the empty set, that with each of its sets has those of one more
\* element of S, has S.
LEMMA SetInduction ==
    ASSUME NEW S, IsFiniteSet(S), NEW F \in SUBSET SUBSET S,
           {} \in F,
           \A T \in F, x \in S : x \notin T => T \cup {x} \in F
    PROVE  S \in F
  <1> DEFINE Out == (SUBSET S) \ F
  <1>1. SUFFICES ASSUME S \notin F PROVE FALSE
    OBVIOUS
  <1>2. Out \in SUBSET SUBSET S /\ Out # {}
    BY <1>1
  <1> HIDE DEF Out
  <1>3. PICK T \in Out : \A U \in Out : U \subseteq T => U = T
    BY <1>2, MinimalSetExists
  <1>4. T \in SUBSET S /\ T \notin F /\ T # {}
    BY <1>3 DEF Out
  <1>5. PICK x \in T : TRUE
    BY <1>4
  <1>6. T \ {x} \in F
    BY <1>3, <1>4, <1>5 DEF Out
  <1>7. (T \ {x}) \cup {x} \in F
    BY <1>4, <1>5, <1>6
  <1>8. (T \ {x}) \cup {x} = T
    BY <1>5
  <1> QED BY <1>4, <1>7, <1>8

\* A finite set of integers that is not empty has a greatest element.
LEMMA GreatestExists ==
    ASSUME NEW S \in SUBSET Int, IsFiniteSet(S), S # {}
    PROVE  \E m \in S : \A x \in S : x <= m
  <1> DEFINE F == {T \in SUBSET S : T # {} => \E m \in T : \A x \in T : x <= m}
  <1>1. {} \in F
    OBVIOUS
  <1>2. ASSUME NEW T \in F, NEW x \in S, x \notin T
        PROVE  T \cup {x} \in F
    <2>1. CASE T = {}
      BY <2>1
    <2>2. CASE T # {}
      <3>1. PICK m \in T : \A y \in T : y <= m
        BY <2>2
      <3>2. CASE x <= m
        BY <3>1, <3>2
      <3>3. CASE ~(x <= m)
        <4>1. \A y \in T \cup {x} : y <= x
          BY <3>1, <3>3
        <4> QED BY <4>1
      <3> QED BY <3>2, <3>3
    <2> QED BY <2>1, <2>2
  <1>3. F \in SUBSET SUBSET S
    OBVIOUS
  <1> HIDE DEF F
  <1>4. S \in F
    BY <1>1, <1>2, <1>3, SetInduction
  <1> QED BY <1>4 DEF F

\* And a least one.
LEMMA LeastExists ==
    ASSUME NEW S \in SUBSET Int, IsFiniteSet(S), S # {}
    PROVE  \E m \in S : \A x \in S : m <= x
  <1> DEFINE neg == [x \in S |-> -x]
             N == {neg[x] : x \in S}
  <1>1. neg \in Surjection(S, N)
    BY DEF Surjection
  <1> HIDE DEF neg
  <1>2. IsFiniteSet(N)
    BY <1>1, FS_Surjection
  <1> USE DEF neg
  <1>3. N \in SUBSET Int /\ N # {}
    <2>1. \A x \in S : neg[x] = -x /\ -x \in Int
      OBVIOUS
    <2> QED BY <2>1
  <1> HIDE DEF N
  <1>4. PICK n \in N : \A y \in N : y <= n
    BY <1>2, <1>3, GreatestExists
  <1>5. PICK m \in S : n = -m
    BY <1>4 DEF N
  <1>6. \A x \in S : -x \in N
    BY DEF N
  <1>7. \A x \in S : m <= x
    BY <1>4, <1>5, <1>6
  <1> QED BY <1>7

\* A finite set has subsets of every size up to its own.
LEMMA SubsetOfSize ==
    ASSUME NEW S, IsFiniteSet(S), NEW n \in 0..Cardinality(S)
    PROVE  \E T \in SUBSET S : Cardinality(T) = n
  <1> DEFINE F == {T \in SUBSET S :
                     \A m \in 0..Cardinality(T) : \E U \in SUBSET T : Cardinality(U) = m}
  <1>1. {} \in F
    BY FS_EmptySet
  <1>2. ASSUME NEW T \in F, NEW x \in S, x \notin T
        PROVE  T \cup {x} \in F
    <2>1. T \in SUBSET S /\ IsFiniteSet(T)
      BY FS_Subset
    <2>2. Cardinality(T \cup {x}) = Cardinality(T) + 1 /\ Cardinality(T) \in Nat
      BY <1>2, <2>1, FS_AddElement, FS_CardinalityType
    <2>3. ASSUME NEW m \in 0..Cardinality(T \cup {x})
          PROVE  \E U \in SUBSET (T \cup {x}) : Cardinality(U) = m
      <3>1. CASE m = Cardinality(T \cup {x})
        BY <3>1
      <3>2. CASE m # Cardinality(T \cup {x})
        <4>1. m \in 0..Cardinality(T)
          BY <2>2, <3>2
        <4>2. PICK U \in SUBSET T : Cardinality(U) = m
          BY <4>1
        <4> QED BY <4>2
      <3> QED BY <3>1, <3>2
    <2> QED BY <2>1, <2>3
  <1>3. F \in SUBSET SUBSET S
    OBVIOUS
  <1> HIDE DEF F
  <1>4. S \in F
    BY <1>1, <1>2, <1>3, SetInduction
  <1> QED BY <1>4 DEF F

\* What a function makes of a finite set is one.
LEMMA ImageIsFinite ==
    ASSUME NEW S, IsFiniteSet(S), NEW f, DOMAIN f = S
    PROVE  IsFiniteSet({f[x] : x \in S})
  <1> DEFINE T == {f[x] : x \in S}
             g == [x \in S |-> f[x]]
  <1>1. g \in Surjection(S, T)
    BY DEF Surjection
  <1> HIDE DEF g, T
  <1>2. IsFiniteSet(T)
    BY <1>1, FS_Surjection
  <1> QED BY <1>2 DEF T

\* Finitely many positive numbers have a common multiple.
LEMMA CommonMultipleExists ==
    ASSUME NEW S, IsFiniteSet(S), S \subseteq Nat \ {0}
    PROVE  \E q \in Nat \ {0} : \A x \in S : \E m \in Nat : q = x * m
  <1> DEFINE F == {T \in SUBSET S :
                     \E q \in Nat \ {0} : \A x \in T : \E m \in Nat : q = x * m}
  <1>1. {} \in F
    OBVIOUS
  <1>2. ASSUME NEW T \in F, NEW y \in S, y \notin T
        PROVE  T \cup {y} \in F
    <2>1. PICK q \in Nat \ {0} : \A x \in T : \E m \in Nat : q = x * m
      OBVIOUS
    <2>2. y \in Nat \ {0} /\ T \subseteq Nat
      OBVIOUS
    <2>3. q * y \in Nat \ {0}
      BY <2>2
    <2>4. ASSUME NEW x \in T PROVE \E m \in Nat : q * y = x * m
      <3>1. PICK m \in Nat : q = x * m
        BY <2>1
      <3>2. x \in Nat
        BY <2>2
      <3>3. q * y = x * (m * y) /\ m * y \in Nat
        BY <2>2, <3>1, <3>2
      <3> QED BY <3>3
    <2>5. q * y = y * q
      BY <2>2
    <2>6. \A x \in T \cup {y} : \E m \in Nat : q * y = x * m
      BY <2>4, <2>5
    <2> QED BY <2>3, <2>6
  <1>3. F \in SUBSET SUBSET S
    OBVIOUS
  <1> HIDE DEF F
  <1>4. S \in F
    BY <1>1, <1>2, <1>3, SetInduction
  <1> QED BY <1>4 DEF F

--------------------------------------------------------------------------------
(* Sums over finite sets (SumFunctionOnSet), which the library defines with a    *)
(* recursive function: that there is one, and that only one fits, comes first.   *)

\* One step of the recursion, with the function that stands for the rest.
SumStep(f, g, s) ==
    IF s = {} THEN 0
    ELSE LET x == CHOOSE x \in s : TRUE IN f[x] + g[s \ {x}]

IsSummation(f, g, S) == g = [s \in SUBSET S |-> SumStep(f, g, s)]

\* A summation exists: one that is right for the sets of no more than k elements
\* gives one for k + 1.
LEMMA SummationExists ==
    ASSUME NEW f, NEW S, IsFiniteSet(S)
    PROVE  \E g : IsSummation(f, g, S)
  <1> DEFINE Right(g, k) == \A s \in SUBSET S : Cardinality(s) <= k => g[s] = SumStep(f, g, s)
             Has(k) == \E g : DOMAIN g = SUBSET S /\ Right(g, k)
             Wrong == {k \in 0..Cardinality(S) : ~Has(k)}
  <1>1. /\ Cardinality(S) \in Nat
        /\ \A s \in SUBSET S : /\ IsFiniteSet(s) /\ Cardinality(s) \in Nat
                              /\ Cardinality(s) <= Cardinality(S)
    BY FS_CardinalityType, FS_Subset
  <1>2. Wrong = {}
    <2>1. SUFFICES ASSUME Wrong # {} PROVE FALSE
      OBVIOUS
    <2>2. IsFiniteSet(0..Cardinality(S))
      <3>1. 0 \in Int /\ Cardinality(S) \in Int
        BY <1>1
      <3> QED BY <3>1, FS_Interval
    <2>3. Wrong \in SUBSET (0..Cardinality(S)) /\ Wrong \in SUBSET Int
      BY <1>1
    <2>4. PICK k \in Wrong : \A j \in Wrong : k <= j
      <3> HIDE DEF Wrong
      <3>1. IsFiniteSet(Wrong)
        BY <2>2, <2>3, FS_Subset
      <3> QED BY <2>1, <2>3, <3>1, LeastExists
    <2>5. k \in Nat /\ k <= Cardinality(S) /\ ~Has(k)
      <3> HIDE DEF Has
      <3> QED BY <1>1, <2>4
    <2>6. CASE k = 0
      <3> DEFINE g == [s \in SUBSET S |-> 0]
      <3>1. \A s \in SUBSET S : Cardinality(s) <= 0 => s = {}
        BY <1>1, FS_EmptySet
      <3>2. Right(g, 0)
        BY <3>1 DEF SumStep
      <3> QED BY <2>5, <2>6, <3>2
    <2>7. CASE k > 0
      <3>1. Has(k - 1)
        <4>1. k - 1 \in 0..Cardinality(S) /\ ~(k <= k - 1)
          BY <1>1, <2>5, <2>7
        <4> HIDE DEF Has
        <4> QED BY <2>4, <4>1
      <3>2. PICK g : DOMAIN g = SUBSET S /\ Right(g, k - 1)
        BY <3>1
      <3> DEFINE h == [s \in SUBSET S |-> IF Cardinality(s) <= k - 1 THEN g[s]
                                                                 ELSE SumStep(f, g, s)]
      <3>3. ASSUME NEW s \in SUBSET S, Cardinality(s) <= k
            PROVE  h[s] = SumStep(f, g, s) /\ SumStep(f, h, s) = SumStep(f, g, s)
        <4>1. h[s] = SumStep(f, g, s)
          BY <3>2
        <4>2. CASE s = {}
          BY <4>1, <4>2 DEF SumStep
        <4>3. CASE s # {}
          <5> DEFINE x == CHOOSE x \in s : TRUE
          <5>1. x \in s
            BY <4>3
          <5> HIDE DEF x
          <5>2. s \ {x} \in SUBSET S /\ Cardinality(s \ {x}) = Cardinality(s) - 1
            BY <1>1, <5>1, FS_RemoveElement
          <5>3. h[s \ {x}] = g[s \ {x}]
            BY <1>1, <2>5, <3>3, <5>2
          <5> QED BY <4>1, <4>3, <5>3 DEF SumStep, x
        <4> QED BY <4>2, <4>3
      <3>4. Right(h, k) /\ DOMAIN h = SUBSET S
        BY <3>3
      <3> HIDE DEF h
      <3> QED BY <2>5, <3>4
    <2> QED BY <2>5, <2>6, <2>7
  <1>3. PICK g : DOMAIN g = SUBSET S /\ Right(g, Cardinality(S))
    <2>1. Has(Cardinality(S))
      <3> HIDE DEF Has
      <3> QED BY <1>1, <1>2
    <2> QED BY <2>1
  <1> DEFINE h == [s \in SUBSET S |-> g[s]]
  <1>4. \A s \in SUBSET S : h[s] = SumStep(f, h, s)
    BY <1>1, <1>3 DEF SumStep
  <1>5. h = [s \in SUBSET S |-> SumStep(f, h, s)]
    BY <1>4
  <1> QED BY <1>5 DEF IsSummation

\* Two summations agree on the sets that both of them sum.
LEMMA SummationsAgree ==
    ASSUME NEW f, NEW S, NEW T, IsFiniteSet(S), NEW g, NEW h,
           IsSummation(f, g, S), IsSummation(f, h, T),
           NEW s \in (SUBSET S) \cap (SUBSET T)
    PROVE  g[s] = h[s]
  <1> DEFINE Off == {r \in (SUBSET S) \cap (SUBSET T) : g[r] # h[r]}
  <1>1. SUFFICES ASSUME Off # {} PROVE FALSE
    OBVIOUS
  <1>2. Off \in SUBSET SUBSET S
    OBVIOUS
  <1>3. PICK r \in Off : \A q \in Off : q \subseteq r => q = r
    <2> HIDE DEF Off
    <2> QED BY <1>1, <1>2, MinimalSetExists
  <1>4. g[r] = SumStep(f, g, r) /\ h[r] = SumStep(f, h, r)
    BY <1>3 DEF IsSummation
  <1>5. r # {}
    BY <1>3, <1>4 DEF SumStep
  <1> DEFINE x == CHOOSE x \in r : TRUE
  <1>6. x \in r
    BY <1>5
  <1> HIDE DEF x
  <1>7. g[r \ {x}] = h[r \ {x}]
    BY <1>3, <1>6
  <1>8. SumStep(f, g, r) = SumStep(f, h, r)
    BY <1>5, <1>7 DEF SumStep, x
  <1> QED BY <1>3, <1>4, <1>8

\* The library's sum is what any summation over enough says it is.
LEMMA SumIsSummation ==
    ASSUME NEW f, NEW S, IsFiniteSet(S), NEW g, IsSummation(f, g, S), NEW T \in SUBSET S
    PROVE  SumFunctionOnSet(f, T) = g[T]
  <1> DEFINE iter[s \in SUBSET T] ==
                 IF s = {} THEN 0
                 ELSE LET x == CHOOSE x \in s : TRUE IN f[x] + iter[s \ {x}]
  <1>1. SumFunctionOnSet(f, T) = iter[T]
    BY DEF SumFunctionOnSet, FoldFunctionOnSet, MapThenFoldSet
  <1>2. iter = CHOOSE h : IsSummation(f, h, T)
    BY DEF IsSummation, SumStep
  <1>3. IsFiniteSet(T)
    BY FS_Subset
  <1>4. IsSummation(f, iter, T)
    <2> HIDE DEF iter
    <2> QED BY <1>2, <1>3, SummationExists
  <1> HIDE DEF iter
  <1>5. iter[T] = g[T]
    BY <1>3, <1>4, SummationsAgree
  <1> QED BY <1>1, <1>5

LEMMA SumOfNone ==
    ASSUME NEW f
    PROVE  SumFunctionOnSet(f, {}) = 0
  <1>1. IsFiniteSet({})
    BY FS_EmptySet
  <1>2. PICK g : IsSummation(f, g, {})
    BY <1>1, SummationExists
  <1>3. SumFunctionOnSet(f, {}) = g[{}]
    BY <1>1, <1>2, SumIsSummation
  <1> QED BY <1>2, <1>3 DEF IsSummation, SumStep

\* The element that the recursion takes out first.
LEMMA SumOfChosen ==
    ASSUME NEW f, NEW S, IsFiniteSet(S), S # {}
    PROVE  \E x \in S : SumFunctionOnSet(f, S) = f[x] + SumFunctionOnSet(f, S \ {x})
  <1>1. PICK g : IsSummation(f, g, S)
    BY SummationExists
  <1> DEFINE x == CHOOSE x \in S : TRUE
  <1>2. x \in S
    OBVIOUS
  <1>3. g[S] = f[x] + g[S \ {x}]
    BY <1>1 DEF IsSummation, SumStep
  <1> HIDE DEF x
  <1>4. SumFunctionOnSet(f, S) = g[S] /\ SumFunctionOnSet(f, S \ {x}) = g[S \ {x}]
    BY <1>1, SumIsSummation
  <1> QED BY <1>2, <1>3, <1>4

LEMMA SumIsInt ==
    ASSUME NEW f, NEW S, IsFiniteSet(S), \A x \in S : f[x] \in Int
    PROVE  SumFunctionOnSet(f, S) \in Int
  <1> DEFINE Off == {T \in SUBSET S : SumFunctionOnSet(f, T) \notin Int}
  <1>1. SUFFICES ASSUME Off # {} PROVE FALSE
    OBVIOUS
  <1>2. PICK T \in Off : \A U \in Off : U \subseteq T => U = T
    <2>1. Off \in SUBSET SUBSET S
      OBVIOUS
    <2> HIDE DEF Off
    <2> QED BY <1>1, <2>1, MinimalSetExists
  <1>3. IsFiniteSet(T) /\ T # {}
    <2>1. {} \notin Off
      BY SumOfNone
    <2> HIDE DEF Off
    <2>2. T # {}
      BY <1>2, <2>1
    <2> QED BY <2>2, FS_Subset DEF Off
  <1>4. PICK x \in T : SumFunctionOnSet(f, T) = f[x] + SumFunctionOnSet(f, T \ {x})
    BY <1>3, SumOfChosen
  <1>5. SumFunctionOnSet(f, T \ {x}) \in Int
    BY <1>2, <1>4
  <1> QED BY <1>2, <1>4, <1>5

\* Any element may be taken out of a sum.
LEMMA SumTakesOut ==
    ASSUME NEW f, NEW S, IsFiniteSet(S), \A x \in S : f[x] \in Int, NEW x \in S
    PROVE  SumFunctionOnSet(f, S) = f[x] + SumFunctionOnSet(f, S \ {x})
  <1> DEFINE Off == {T \in SUBSET S :
                       \E y \in T : SumFunctionOnSet(f, T) # f[y] + SumFunctionOnSet(f, T \ {y})}
  <1>1. SUFFICES ASSUME Off # {} PROVE FALSE
    OBVIOUS
  <1>2. PICK T \in Off : \A U \in Off : U \subseteq T => U = T
    <2>1. Off \in SUBSET SUBSET S
      OBVIOUS
    <2> HIDE DEF Off
    <2> QED BY <1>1, <2>1, MinimalSetExists
  <1>3. PICK y \in T : SumFunctionOnSet(f, T) # f[y] + SumFunctionOnSet(f, T \ {y})
    BY <1>2
  <1>4. \A U \in SUBSET S : IsFiniteSet(U) /\ SumFunctionOnSet(f, U) \in Int
    BY FS_Subset, SumIsInt
  <1>5. PICK c \in T : SumFunctionOnSet(f, T) = f[c] + SumFunctionOnSet(f, T \ {c})
    BY <1>2, <1>3, <1>4, SumOfChosen
  <1>6. c # y
    BY <1>3, <1>5
  <1>7. T \ {c} \notin Off /\ T \ {y} \notin Off
    BY <1>2, <1>3, <1>5
  <1> DEFINE rest == SumFunctionOnSet(f, (T \ {c}) \ {y})
  <1>8. SumFunctionOnSet(f, T \ {c}) = f[y] + rest
    BY <1>2, <1>3, <1>6, <1>7
  <1>9. SumFunctionOnSet(f, T \ {y}) = f[c] + rest
    <2>1. (T \ {c}) \ {y} = (T \ {y}) \ {c}
      OBVIOUS
    <2>2. SumFunctionOnSet(f, T \ {y}) = f[c] + SumFunctionOnSet(f, (T \ {y}) \ {c})
      BY <1>2, <1>5, <1>6, <1>7
    <2> QED BY <2>1, <2>2
  <1>10. f[c] \in Int /\ f[y] \in Int /\ rest \in Int
    BY <1>2, <1>3, <1>4, <1>5
  <1> HIDE DEF rest
  <1> QED BY <1>3, <1>5, <1>8, <1>9, <1>10

LEMMA SumPutsIn ==
    ASSUME NEW f, NEW S, IsFiniteSet(S), NEW x, x \notin S, \A y \in S \cup {x} : f[y] \in Int
    PROVE  SumFunctionOnSet(f, S \cup {x}) = SumFunctionOnSet(f, S) + f[x]
  <1>1. IsFiniteSet(S \cup {x}) /\ (S \cup {x}) \ {x} = S
    BY FS_AddElement
  <1>2. SumFunctionOnSet(f, S \cup {x}) = f[x] + SumFunctionOnSet(f, S)
    BY <1>1, SumTakesOut
  <1>3. f[x] \in Int /\ SumFunctionOnSet(f, S) \in Int
    BY SumIsInt
  <1> QED BY <1>2, <1>3

LEMMA SumOfOne ==
    ASSUME NEW f, NEW x, f[x] \in Int
    PROVE  SumFunctionOnSet(f, {x}) = f[x]
  <1>1. IsFiniteSet({x}) /\ {x} \ {x} = {}
    BY FS_Singleton
  <1>2. SumFunctionOnSet(f, {x}) = f[x] + SumFunctionOnSet(f, {})
    BY <1>1, SumTakesOut
  <1> QED BY <1>2, SumOfNone

LEMMA SumIsNat ==
    ASSUME NEW f, NEW S, IsFiniteSet(S), \A x \in S : f[x] \in Nat
    PROVE  SumFunctionOnSet(f, S) \in Nat
  <1> DEFINE F == {T \in SUBSET S : SumFunctionOnSet(f, T) \in Nat}
  <1>1. {} \in F
    BY SumOfNone
  <1>2. ASSUME NEW T \in F, NEW x \in S, x \notin T
        PROVE  T \cup {x} \in F
    <2>1. IsFiniteSet(T) /\ \A y \in T \cup {x} : f[y] \in Int
      BY FS_Subset
    <2>2. SumFunctionOnSet(f, T \cup {x}) = SumFunctionOnSet(f, T) + f[x]
      BY <1>2, <2>1, SumPutsIn
    <2> QED BY <2>2
  <1>3. F \in SUBSET SUBSET S
    OBVIOUS
  <1> HIDE DEF F
  <1>4. S \in F
    BY <1>1, <1>2, <1>3, SetInduction
  <1> QED BY <1>4 DEF F

\* A sum is positive where one of its terms is and none is negative.
LEMMA SumIsPositive ==
    ASSUME NEW f, NEW S, IsFiniteSet(S), \A x \in S : f[x] \in Nat, NEW x \in S, f[x] > 0
    PROVE  SumFunctionOnSet(f, S) \in Nat \ {0}
  <1>1. SumFunctionOnSet(f, S) = f[x] + SumFunctionOnSet(f, S \ {x})
    BY SumTakesOut
  <1>2. SumFunctionOnSet(f, S \ {x}) \in Nat
    BY FS_Subset, SumIsNat
  <1> QED BY <1>1, <1>2

================================================================================
