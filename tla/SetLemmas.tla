------------------------------ MODULE SetLemmas ------------------------------
(***************************************************************************)
(* Facts about sets of naturals and sums over finite sets that the proofs  *)
(* about the repositories rest on.  Induction is done with a least         *)
(* counterexample, which needs no operator as a parameter.                 *)
(***************************************************************************)
EXTENDS Naturals, FiniteSets, Functions, FiniteSetTheorems, WellFoundedInduction, TLAPS

\* A set of naturals has a least element.
LEMMA LeastNatural ==
  ASSUME NEW T \in SUBSET Nat, T # {}
  PROVE  \E n \in T : \A m \in T : n <= m
<1>. DEFINE R == OpToRel(<, Nat)
<1>1. IsWellFoundedOn(R, Nat)
  BY NatLessThanWellFounded
<1>. HIDE DEF R
<1>2. PICK n \in T : \A m \in T : ~(<<m, n>> \in R)
  BY <1>1, WFMin
<1>3. \A m \in T : <<m, n>> \in R <=> m < n
  BY DEF R, OpToRel
<1>4. \A m \in T : m \in Nat /\ ~(m < n)
  BY <1>2, <1>3
<1>5. n \in Nat
  BY <1>4
<1>. QED BY <1>4, <1>5

\* A set of naturals with a bound has a greatest element.
LEMMA GreatestNatural ==
  ASSUME NEW T \in SUBSET Nat, T # {}, NEW b \in Nat, \A m \in T : m <= b
  PROVE  \E n \in T : \A m \in T : m <= n
<1>. DEFINE G == {b - m : m \in T}
<1>1. G \in SUBSET Nat /\ G # {}
  <2>1. \A m \in T : b - m \in Nat
    OBVIOUS
  <2>2. G \in SUBSET Nat
    BY <2>1
  <2>. QED BY <2>2
<1>2. PICK g \in G : \A h \in G : g <= h
  <2>. HIDE DEF G
  <2>. QED BY <1>1, LeastNatural
<1>3. PICK n \in T : g = b - n
  BY <1>2
<1>4. \A m \in T : b - n <= b - m
  BY <1>2, <1>3
<1>. QED BY <1>3, <1>4

-----------------------------------------------------------------------------
\* The element a fold takes first, and the equation its recursive function solves.
Pick(s) == CHOOSE x \in s : TRUE

SumEq(f, S, g) ==
  g = [s \in SUBSET S |-> IF s = {} THEN 0 ELSE f[Pick(s)] + g[s \ {Pick(s)}]]

\* The library's sum is the value of a solution.
LEMMA SumIsSolution ==
  ASSUME NEW f, NEW S
  PROVE  SumFunctionOnSet(f, S) = (CHOOSE g : SumEq(f, S, g))[S]
  BY Zenon DEF SumFunctionOnSet, FoldFunctionOnSet, MapThenFoldSet, SumEq, Pick

\* Induction over the subsets of a finite set: what a set inherits from its proper
\* subsets holds of all.  P is a function, so any statement can be put in its place.
LEMMA SubsetInduction ==
  ASSUME NEW S, IsFiniteSet(S), NEW P \in [SUBSET S -> BOOLEAN],
         \A s \in SUBSET S : (\A r \in SUBSET s : r # s => P[r]) => P[s]
  PROVE  \A s \in SUBSET S : P[s]
<1>1. SUFFICES ASSUME NEW b \in SUBSET S, ~P[b] PROVE FALSE
  OBVIOUS
<1>. DEFINE Bad == {s \in SUBSET S : ~P[s]}
            Sizes == {Cardinality(s) : s \in Bad}
<1>2. \A s \in SUBSET S : IsFiniteSet(s) /\ Cardinality(s) \in Nat
  BY FS_Subset, FS_CardinalityType
<1>3. Sizes \in SUBSET Nat /\ Sizes # {}
  <2>1. Sizes \in SUBSET Nat
    BY <1>2
  <2>. QED BY <1>1, <2>1
<1>4. PICK n \in Sizes : \A m \in Sizes : n <= m
  <2>. HIDE DEF Sizes
  <2>. QED BY <1>3, LeastNatural
<1>5. PICK s \in Bad : n = Cardinality(s)
  BY <1>4
<1>6. ASSUME NEW r \in SUBSET s, r # s PROVE P[r]
  <2>1. SUFFICES ASSUME r \in Bad PROVE FALSE
    BY <1>5, <1>6
  <2>2. Cardinality(r) < Cardinality(s)
    BY <1>2, <1>5, <1>6, FS_Subset
  <2>3. n <= Cardinality(r)
    BY <1>4, <2>1
  <2>4. n \in Nat /\ Cardinality(r) \in Nat
    BY <1>2, <1>5, <2>1
  <2>. QED BY <1>5, <2>2, <2>3, <2>4
<1>. QED BY <1>5, <1>6

\* The element picked first leaves a proper subset.
LEMMA PickedRest ==
  ASSUME NEW s, s # {}
  PROVE  Pick(s) \in s /\ s \ {Pick(s)} \in SUBSET s /\ s \ {Pick(s)} # s
<1>1. Pick(s) \in s
  BY DEF Pick
<1>. QED BY <1>1

\* A solution on a set solves the equation on its subsets.
LEMMA SolutionRestricts ==
  ASSUME NEW f, NEW S, NEW g, SumEq(f, S, g), NEW R \in SUBSET S
  PROVE  SumEq(f, R, [s \in SUBSET R |-> g[s]])
<1>1. \A s \in SUBSET R : s \in SUBSET S /\ s \ {Pick(s)} \in SUBSET R
  OBVIOUS
<1>2. \A s \in SUBSET S : g[s] = IF s = {} THEN 0 ELSE f[Pick(s)] + g[s \ {Pick(s)}]
  BY DEF SumEq
<1>. QED BY <1>1, <1>2 DEF SumEq

\* There is one solution at most.
LEMMA SolutionIsUnique ==
  ASSUME NEW f, NEW S, IsFiniteSet(S), NEW g, NEW h, SumEq(f, S, g), SumEq(f, S, h)
  PROVE  g = h
<1>. DEFINE P == [s \in SUBSET S |-> g[s] = h[s]]
<1>1. \A s \in SUBSET S : /\ g[s] = IF s = {} THEN 0 ELSE f[Pick(s)] + g[s \ {Pick(s)}]
                          /\ h[s] = IF s = {} THEN 0 ELSE f[Pick(s)] + h[s \ {Pick(s)}]
  BY DEF SumEq
<1>2. P \in [SUBSET S -> BOOLEAN]
  OBVIOUS
<1>3. \A s \in SUBSET S : (\A r \in SUBSET s : r # s => P[r]) => P[s]
  BY <1>1, PickedRest
<1>4. \A s \in SUBSET S : P[s]
  <2>. HIDE DEF P
  <2>. QED BY <1>2, <1>3, SubsetInduction
<1>5. \A s \in SUBSET S : g[s] = h[s]
  BY <1>4
<1>. QED BY <1>5 DEF SumEq

\* There is a solution.
LEMMA SolutionExists ==
  ASSUME NEW f, NEW S, IsFiniteSet(S)
  PROVE  \E g : SumEq(f, S, g)
<1>. DEFINE Val(s) == (CHOOSE g : SumEq(f, s, g))[s]
            P == [s \in SUBSET S |-> \E g : SumEq(f, s, g)]
<1>0. \A s \in SUBSET S : IsFiniteSet(s)
  BY FS_Subset
<1>1. P \in [SUBSET S -> BOOLEAN]
  OBVIOUS
<1>2. ASSUME NEW r \in SUBSET S, \A s \in SUBSET r : s # r => \E g : SumEq(f, s, g)
      PROVE  \E g : SumEq(f, r, g)
  <2>. DEFINE h == [s \in SUBSET r |-> IF s = {} THEN 0 ELSE f[Pick(s)] + Val(s \ {Pick(s)})]
  <2>1. \A s \in SUBSET r : s # r => SumEq(f, s, CHOOSE g : SumEq(f, s, g))
    BY <1>2, Zenon
  <2>2. ASSUME NEW s \in SUBSET r, s # r
        PROVE  h[s] = Val(s)
    <3>. DEFINE g == CHOOSE g : SumEq(f, s, g)
    <3>1. SumEq(f, s, g)
      BY <2>1, <2>2
    <3>2. Val(s) = g[s]
      OBVIOUS
    <3>. HIDE DEF g
    <3>3. g[s] = IF s = {} THEN 0 ELSE f[Pick(s)] + g[s \ {Pick(s)}]
      BY <3>1 DEF SumEq
    <3>4. CASE s = {}
      BY <3>2, <3>3, <3>4
    <3>5. CASE s # {}
      <4>. DEFINE q == s \ {Pick(s)}
                  k == CHOOSE k : SumEq(f, q, k)
                  m == [x \in SUBSET q |-> g[x]]
      <4>1. q \in SUBSET r /\ q \in SUBSET s /\ q # r
        BY <2>2, <3>5, PickedRest
      <4>2. SumEq(f, q, k)
        <5>. HIDE DEF q
        <5>. QED BY <4>1, <2>1
      <4>3. SumEq(f, q, m)
        <5>. HIDE DEF q
        <5>. QED BY <3>1, <4>1, SolutionRestricts
      <4>4. IsFiniteSet(q)
        BY <4>1, <1>0
      <4>5. k = m
        <5>. HIDE DEF q, k, m
        <5>. QED BY <4>2, <4>3, <4>4, SolutionIsUnique
      <4>6. m[q] = g[q]
        OBVIOUS
      <4>7. Val(q) = k[q]
        OBVIOUS
      <4>8. h[s] = f[Pick(s)] + Val(q)
        BY <3>5
      <4>. HIDE DEF q, k, m, Val, h
      <4>9. g[s] = f[Pick(s)] + g[q]
        BY <3>3, <3>5 DEF q
      <4>. QED BY <3>2, <4>5, <4>6, <4>7, <4>8, <4>9
    <3>. QED BY <3>4, <3>5
  <2>4. \A s \in SUBSET r : s # {} => s \ {Pick(s)} \in SUBSET r /\ s \ {Pick(s)} # r
    BY PickedRest
  <2>5. \A s \in SUBSET r : s # {} => h[s \ {Pick(s)}] = Val(s \ {Pick(s)})
    <3>. HIDE DEF h, Val
    <3>. QED BY <2>2, <2>4
  <2>6. \A s \in SUBSET r : h[s] = IF s = {} THEN 0 ELSE f[Pick(s)] + h[s \ {Pick(s)}]
    <3>1. \A s \in SUBSET r : h[s] = IF s = {} THEN 0 ELSE f[Pick(s)] + Val(s \ {Pick(s)})
      OBVIOUS
    <3>. HIDE DEF h, Val
    <3>. QED BY <2>5, <3>1
  <2>7. h = [s \in SUBSET r |-> h[s]]
    OBVIOUS
  <2>8. SumEq(f, r, h)
    <3>. HIDE DEF h
    <3>. QED BY <2>6, <2>7 DEF SumEq
  <2>. QED BY <2>8
<1>3. \A s \in SUBSET S : (\A r \in SUBSET s : r # s => P[r]) => P[s]
  BY <1>2
<1>4. P[S]
  <2>. HIDE DEF P
  <2>. QED BY <1>1, <1>3, SubsetInduction
<1>. QED BY <1>4

\* What a sum is made of: nothing, or the element picked first and the rest.
LEMMA SumUnfolds ==
  ASSUME NEW f, NEW S, IsFiniteSet(S)
  PROVE  SumFunctionOnSet(f, S) =
           IF S = {} THEN 0 ELSE f[Pick(S)] + SumFunctionOnSet(f, S \ {Pick(S)})
<1>. DEFINE g == CHOOSE g : SumEq(f, S, g)
            q == S \ {Pick(S)}
            k == CHOOSE k : SumEq(f, q, k)
            m == [x \in SUBSET q |-> g[x]]
<1>1. SumEq(f, S, g)
  BY SolutionExists, Zenon
<1>2. IsFiniteSet(q) /\ q \in SUBSET S
  BY FS_Subset
<1>3. SumEq(f, q, k)
  <2>. HIDE DEF q
  <2>. QED BY <1>2, SolutionExists, Zenon
<1>4. SumEq(f, q, m)
  <2>. HIDE DEF q, g
  <2>. QED BY <1>1, <1>2, SolutionRestricts
<1>5. k = m
  <2>. HIDE DEF q, k, m
  <2>. QED BY <1>2, <1>3, <1>4, SolutionIsUnique
<1>6. m[q] = g[q]
  OBVIOUS
<1>7. SumFunctionOnSet(f, S) = g[S] /\ SumFunctionOnSet(f, q) = k[q]
  BY SumIsSolution
<1>8. g[S] = IF S = {} THEN 0 ELSE f[Pick(S)] + g[q]
  <2>. HIDE DEF g
  <2>. QED BY <1>1 DEF SumEq
<1>. HIDE DEF k, m, g
<1>. QED BY <1>5, <1>6, <1>7, <1>8

\* A sum of naturals is a natural.
LEMMA SumNatural ==
  ASSUME NEW S, IsFiniteSet(S), NEW f, \A x \in S : f[x] \in Nat
  PROVE  SumFunctionOnSet(f, S) \in Nat
<1>. DEFINE P == [s \in SUBSET S |-> SumFunctionOnSet(f, s) \in Nat]
<1>1. P \in [SUBSET S -> BOOLEAN]
  OBVIOUS
<1>2. ASSUME NEW s \in SUBSET S, \A r \in SUBSET s : r # s => SumFunctionOnSet(f, r) \in Nat
      PROVE  SumFunctionOnSet(f, s) \in Nat
  <2>1. IsFiniteSet(s)
    BY FS_Subset
  <2>2. CASE s = {}
    <3>1. SumFunctionOnSet(f, s) = 0
      BY <2>1, <2>2, SumUnfolds
    <3>. QED BY <3>1
  <2>3. CASE s # {}
    <3>1. SumFunctionOnSet(f, s) = f[Pick(s)] + SumFunctionOnSet(f, s \ {Pick(s)})
      BY <2>1, <2>3, SumUnfolds
    <3>2. f[Pick(s)] \in Nat /\ SumFunctionOnSet(f, s \ {Pick(s)}) \in Nat
      BY <1>2, <2>3, PickedRest
    <3>. QED BY <3>1, <3>2
  <2>. QED BY <2>2, <2>3
<1>3. \A s \in SUBSET S : (\A r \in SUBSET s : r # s => P[r]) => P[s]
  BY <1>2
<1>4. P[S]
  <2>. HIDE DEF P
  <2>. QED BY <1>1, <1>3, SubsetInduction
<1>. QED BY <1>4

\* Any element may be taken out first.
LEMMA SumRemove ==
  ASSUME NEW S, IsFiniteSet(S), NEW f, \A x \in S : f[x] \in Nat, NEW e \in S
  PROVE  SumFunctionOnSet(f, S) = f[e] + SumFunctionOnSet(f, S \ {e})
<1>. DEFINE Out(s, x) == SumFunctionOnSet(f, s) = f[x] + SumFunctionOnSet(f, s \ {x})
            P == [s \in SUBSET S |-> \A x \in s : Out(s, x)]
<1>1. P \in [SUBSET S -> BOOLEAN]
  OBVIOUS
<1>2. \A s \in SUBSET S : IsFiniteSet(s) /\ SumFunctionOnSet(f, s) \in Nat
  BY FS_Subset, SumNatural
<1>3. ASSUME NEW s \in SUBSET S, \A r \in SUBSET s : r # s => \A x \in r : Out(r, x), NEW x \in s
      PROVE  Out(s, x)
  <2>. DEFINE c == Pick(s)
  <2>1. c \in s /\ Out(s, c)
    BY <1>2, PickedRest, SumUnfolds
  <2>. HIDE DEF c
  <2>2. CASE x = c
    BY <2>1, <2>2
  <2>3. CASE x # c
    <3>1. Out(s \ {c}, x)
      BY <1>3, <2>1, <2>3
    <3>2. Out(s \ {x}, c)
      BY <1>3, <2>1, <2>3
    <3>3. (s \ {c}) \ {x} = (s \ {x}) \ {c}
      OBVIOUS
    <3>4. /\ f[c] \in Nat /\ f[x] \in Nat /\ SumFunctionOnSet(f, (s \ {x}) \ {c}) \in Nat
      BY <1>2, <2>1
    <3>5. SumFunctionOnSet(f, s \ {c}) = f[x] + SumFunctionOnSet(f, (s \ {x}) \ {c})
      BY <3>1, <3>3
    <3>6. SumFunctionOnSet(f, s) = f[c] + (f[x] + SumFunctionOnSet(f, (s \ {x}) \ {c}))
      BY <2>1, <3>5
    <3>7. SumFunctionOnSet(f, s \ {x}) = f[c] + SumFunctionOnSet(f, (s \ {x}) \ {c})
      BY <3>2
    <3>. QED BY <3>4, <3>6, <3>7
  <2>. QED BY <2>2, <2>3
<1>4. \A s \in SUBSET S : (\A r \in SUBSET s : r # s => P[r]) => P[s]
  BY <1>3
<1>5. P[S]
  <2>. HIDE DEF P
  <2>. QED BY <1>1, <1>4, SubsetInduction
<1>. QED BY <1>5

\* A new element adds its value.
LEMMA SumAdd ==
  ASSUME NEW S, IsFiniteSet(S), NEW f, NEW e, e \notin S, \A x \in S \cup {e} : f[x] \in Nat
  PROVE  SumFunctionOnSet(f, S \cup {e}) = SumFunctionOnSet(f, S) + f[e]
<1>1. IsFiniteSet(S \cup {e})
  BY FS_AddElement
<1>2. (S \cup {e}) \ {e} = S
  OBVIOUS
<1>3. SumFunctionOnSet(f, S \cup {e}) = f[e] + SumFunctionOnSet(f, (S \cup {e}) \ {e})
  BY <1>1, SumRemove
<1>4. f[e] \in Nat /\ SumFunctionOnSet(f, S) \in Nat
  BY SumNatural
<1>. QED BY <1>2, <1>3, <1>4

\* A sum grows with its values; equal values give equal sums.
LEMMA SumGrows ==
  ASSUME NEW S, IsFiniteSet(S), NEW f, NEW g, \A x \in S : f[x] \in Nat /\ g[x] \in Nat /\ f[x] <= g[x]
  PROVE  SumFunctionOnSet(f, S) <= SumFunctionOnSet(g, S)
<1>. DEFINE P == [s \in SUBSET S |-> SumFunctionOnSet(f, s) <= SumFunctionOnSet(g, s)]
<1>1. P \in [SUBSET S -> BOOLEAN]
  OBVIOUS
<1>2. \A s \in SUBSET S : /\ IsFiniteSet(s) /\ SumFunctionOnSet(f, s) \in Nat
                          /\ SumFunctionOnSet(g, s) \in Nat
  BY FS_Subset, SumNatural
<1>3. ASSUME NEW s \in SUBSET S,
             \A r \in SUBSET s : r # s => SumFunctionOnSet(f, r) <= SumFunctionOnSet(g, r)
      PROVE  SumFunctionOnSet(f, s) <= SumFunctionOnSet(g, s)
  <2>1. CASE s = {}
    <3>1. SumFunctionOnSet(f, s) = 0
      BY <1>2, <2>1, SumUnfolds
    <3>. QED BY <1>2, <3>1
  <2>2. CASE s # {}
    <3>1. /\ SumFunctionOnSet(f, s) = f[Pick(s)] + SumFunctionOnSet(f, s \ {Pick(s)})
          /\ SumFunctionOnSet(g, s) = g[Pick(s)] + SumFunctionOnSet(g, s \ {Pick(s)})
      BY <1>2, <2>2, SumUnfolds
    <3>2. /\ Pick(s) \in S /\ s \ {Pick(s)} \in SUBSET S
          /\ SumFunctionOnSet(f, s \ {Pick(s)}) <= SumFunctionOnSet(g, s \ {Pick(s)})
      BY <1>3, <2>2, PickedRest
    <3>3. /\ f[Pick(s)] \in Nat /\ g[Pick(s)] \in Nat /\ f[Pick(s)] <= g[Pick(s)]
          /\ SumFunctionOnSet(f, s \ {Pick(s)}) \in Nat /\ SumFunctionOnSet(g, s \ {Pick(s)}) \in Nat
      BY <1>2, <3>2
    <3>. QED BY <3>1, <3>2, <3>3
  <2>. QED BY <2>1, <2>2
<1>4. \A s \in SUBSET S : (\A r \in SUBSET s : r # s => P[r]) => P[s]
  BY <1>3
<1>5. P[S]
  <2>. HIDE DEF P
  <2>. QED BY <1>1, <1>4, SubsetInduction
<1>. QED BY <1>5

\* Only the values at the elements of the set matter.
LEMMA SumSame ==
  ASSUME NEW S, IsFiniteSet(S), NEW f, NEW g, \A x \in S : f[x] \in Nat /\ g[x] = f[x]
  PROVE  SumFunctionOnSet(f, S) = SumFunctionOnSet(g, S)
<1>1. SumFunctionOnSet(f, S) <= SumFunctionOnSet(g, S) /\ SumFunctionOnSet(g, S) <= SumFunctionOnSet(f, S)
  BY SumGrows
<1>2. SumFunctionOnSet(f, S) \in Nat /\ SumFunctionOnSet(g, S) \in Nat
  BY SumNatural
<1>. QED BY <1>1, <1>2

\* The sum over two sets that have nothing in common.
LEMMA SumUnion ==
  ASSUME NEW S, IsFiniteSet(S), NEW T, IsFiniteSet(T), S \cap T = {}, NEW f, \A x \in S \cup T : f[x] \in Nat
  PROVE  SumFunctionOnSet(f, S \cup T) = SumFunctionOnSet(f, S) + SumFunctionOnSet(f, T)
<1>. DEFINE Plus(s) == SumFunctionOnSet(f, S \cup s) = SumFunctionOnSet(f, S) + SumFunctionOnSet(f, s)
            P == [s \in SUBSET T |-> Plus(s)]
<1>1. P \in [SUBSET T -> BOOLEAN]
  OBVIOUS
<1>2. \A s \in SUBSET T : IsFiniteSet(s) /\ IsFiniteSet(S \cup s)
  BY FS_Subset, FS_Union
<1>3. \A s \in SUBSET T : /\ SumFunctionOnSet(f, s) \in Nat /\ SumFunctionOnSet(f, S) \in Nat
                          /\ SumFunctionOnSet(f, S \cup s) \in Nat
  BY <1>2, SumNatural
<1>4. ASSUME NEW s \in SUBSET T, \A r \in SUBSET s : r # s => Plus(r)
      PROVE  Plus(s)
  <2>1. CASE s = {}
    <3>1. SumFunctionOnSet(f, s) = 0 /\ S \cup s = S
      BY <1>2, <2>1, SumUnfolds
    <3>. QED BY <1>3, <3>1
  <2>2. CASE s # {}
    <3>. DEFINE e == Pick(s)
                r == s \ {e}
    <3>1. e \in s /\ r \in SUBSET s /\ r # s
      BY <2>2, PickedRest
    <3>. HIDE DEF e
    <3>2. Plus(r)
      BY <1>4, <3>1
    <3>3. e \notin S \cup r /\ (S \cup r) \cup {e} = S \cup s /\ r \cup {e} = s /\ r \in SUBSET T
      BY <3>1
    <3>4. \A x \in (S \cup r) \cup {e} : f[x] \in Nat
      BY <3>1
    <3>5. SumFunctionOnSet(f, (S \cup r) \cup {e}) = SumFunctionOnSet(f, S \cup r) + f[e]
      <4>. HIDE DEF r
      <4>. QED BY <1>2, <3>3, <3>4, SumAdd
    <3>6. SumFunctionOnSet(f, r \cup {e}) = SumFunctionOnSet(f, r) + f[e]
      <4>. HIDE DEF r
      <4>. QED BY <1>2, <3>3, <3>4, SumAdd
    <3>7. f[e] \in Nat
      BY <3>4
    <3>. HIDE DEF r
    <3>8. SumFunctionOnSet(f, S \cup s) = SumFunctionOnSet(f, S) + SumFunctionOnSet(f, r) + f[e]
      BY <3>2, <3>3, <3>5
    <3>9. SumFunctionOnSet(f, s) = SumFunctionOnSet(f, r) + f[e]
      BY <3>3, <3>6
    <3>10. SumFunctionOnSet(f, r) \in Nat /\ SumFunctionOnSet(f, S) \in Nat
      BY <1>3, <3>3
    <3>. QED BY <3>7, <3>8, <3>9, <3>10
  <2>. QED BY <2>1, <2>2
<1>5. \A s \in SUBSET T : (\A r \in SUBSET s : r # s => P[r]) => P[s]
  BY <1>4
<1>6. P[T]
  <2>. HIDE DEF P
  <2>. QED BY <1>1, <1>5, SubsetInduction
<1>. QED BY <1>6

\* A sum over a part is at most the sum over the whole.
LEMMA SumPart ==
  ASSUME NEW T, IsFiniteSet(T), NEW S \in SUBSET T, NEW f, NEW g, \A x \in T : g[x] \in Nat,
         \A x \in S : f[x] \in Nat /\ f[x] <= g[x]
  PROVE  SumFunctionOnSet(f, S) <= SumFunctionOnSet(g, T)
<1>1. IsFiniteSet(S) /\ IsFiniteSet(T \ S)
  BY FS_Subset
<1>2. SumFunctionOnSet(f, S) <= SumFunctionOnSet(g, S)
  BY <1>1, SumGrows
<1>3. S \cup (T \ S) = T /\ S \cap (T \ S) = {}
  OBVIOUS
<1>4. SumFunctionOnSet(g, S \cup (T \ S)) = SumFunctionOnSet(g, S) + SumFunctionOnSet(g, T \ S)
  BY <1>1, <1>3, SumUnion
<1>5. SumFunctionOnSet(f, S) \in Nat /\ SumFunctionOnSet(g, S) \in Nat /\ SumFunctionOnSet(g, T \ S) \in Nat
  BY <1>1, SumNatural
<1>6. SumFunctionOnSet(g, T) = SumFunctionOnSet(g, S) + SumFunctionOnSet(g, T \ S)
  BY <1>3, <1>4, Zenon
<1>. DEFINE u == SumFunctionOnSet(f, S)
            v == SumFunctionOnSet(g, S)
            t == SumFunctionOnSet(g, T \ S)
<1>7. u \in Nat /\ v \in Nat /\ t \in Nat /\ u <= v /\ SumFunctionOnSet(g, T) = v + t
  BY <1>2, <1>5, <1>6
<1>. HIDE DEF u, v, t
<1>8. u <= v + t
  BY <1>7
<1>. QED BY <1>7, <1>8 DEF u

\* A sum of nothings is nothing.
LEMMA SumZero ==
  ASSUME NEW S, IsFiniteSet(S), NEW f, \A x \in S : f[x] = 0
  PROVE  SumFunctionOnSet(f, S) = 0
<1>. DEFINE P == [s \in SUBSET S |-> SumFunctionOnSet(f, s) = 0]
<1>1. P \in [SUBSET S -> BOOLEAN]
  OBVIOUS
<1>2. ASSUME NEW s \in SUBSET S, \A r \in SUBSET s : r # s => SumFunctionOnSet(f, r) = 0
      PROVE  SumFunctionOnSet(f, s) = 0
  <2>1. IsFiniteSet(s)
    BY FS_Subset
  <2>2. SumFunctionOnSet(f, s) = IF s = {} THEN 0 ELSE f[Pick(s)] + SumFunctionOnSet(f, s \ {Pick(s)})
    BY <2>1, SumUnfolds
  <2>3. CASE s # {}
    BY <1>2, <2>2, <2>3, PickedRest
  <2>. QED BY <2>2, <2>3
<1>3. \A s \in SUBSET S : (\A r \in SUBSET s : r # s => P[r]) => P[s]
  BY <1>2
<1>4. P[S]
  <2>. HIDE DEF P
  <2>. QED BY <1>1, <1>3, SubsetInduction
<1>. QED BY <1>4

\* A sum over a set of which three parts count.
LEMMA SumThree ==
  ASSUME NEW T, IsFiniteSet(T), NEW A \in SUBSET T, NEW B \in SUBSET T, NEW C \in SUBSET T,
         A \cap B = {}, (A \cup B) \cap C = {}, NEW f, NEW a, NEW b, NEW c,
         \A x \in T : f[x] \in Nat, \A x \in A : a[x] = f[x], \A x \in B : b[x] = f[x], \A x \in C : c[x] = f[x],
         \A x \in T \ ((A \cup B) \cup C) : f[x] = 0
  PROVE  SumFunctionOnSet(f, T) = SumFunctionOnSet(a, A) + (SumFunctionOnSet(b, B) + SumFunctionOnSet(c, C))
<1>. DEFINE R == T \ ((A \cup B) \cup C)
<1>1. /\ IsFiniteSet(A) /\ IsFiniteSet(B) /\ IsFiniteSet(C) /\ IsFiniteSet(R)
      /\ IsFiniteSet(A \cup B) /\ IsFiniteSet((A \cup B) \cup C)
  BY FS_Subset
<1>2. SumFunctionOnSet(f, A \cup B) = SumFunctionOnSet(f, A) + SumFunctionOnSet(f, B)
  BY <1>1, SumUnion
<1>3. SumFunctionOnSet(f, (A \cup B) \cup C) = SumFunctionOnSet(f, A \cup B) + SumFunctionOnSet(f, C)
  <2>1. \A x \in (A \cup B) \cup C : f[x] \in Nat
    OBVIOUS
  <2>. QED BY <1>1, <2>1, SumUnion
<1>4. SumFunctionOnSet(f, ((A \cup B) \cup C) \cup R) = SumFunctionOnSet(f, (A \cup B) \cup C) + SumFunctionOnSet(f, R)
  <2>. DEFINE U == (A \cup B) \cup C
  <2>1. U \cap R = {} /\ \A x \in U \cup R : f[x] \in Nat
    OBVIOUS
  <2>2. IsFiniteSet(U) /\ IsFiniteSet(R)
    BY <1>1
  <2>. HIDE DEF U, R
  <2>3. SumFunctionOnSet(f, U \cup R) = SumFunctionOnSet(f, U) + SumFunctionOnSet(f, R)
    BY <2>1, <2>2, SumUnion
  <2>. QED BY <2>3 DEF U
<1>5. ((A \cup B) \cup C) \cup R = T
  OBVIOUS
<1>6. SumFunctionOnSet(f, R) = 0
  <2>1. \A x \in R : f[x] = 0
    OBVIOUS
  <2>. HIDE DEF R
  <2>. QED BY <1>1, <2>1, SumZero
<1>7. /\ SumFunctionOnSet(f, A) = SumFunctionOnSet(a, A) /\ SumFunctionOnSet(f, B) = SumFunctionOnSet(b, B)
      /\ SumFunctionOnSet(f, C) = SumFunctionOnSet(c, C)
  BY <1>1, SumSame
<1>8. /\ SumFunctionOnSet(f, A) \in Nat /\ SumFunctionOnSet(f, B) \in Nat /\ SumFunctionOnSet(f, C) \in Nat
  BY <1>1, SumNatural
<1>. HIDE DEF R
<1>9. SumFunctionOnSet(f, T) = SumFunctionOnSet(f, (A \cup B) \cup C) + SumFunctionOnSet(f, R)
  BY <1>4, <1>5, Zenon
<1>. DEFINE u == SumFunctionOnSet(f, A)
            v == SumFunctionOnSet(f, B)
            t == SumFunctionOnSet(f, C)
<1>10. u \in Nat /\ v \in Nat /\ t \in Nat /\ SumFunctionOnSet(f, T) = ((u + v) + t) + 0
  BY <1>2, <1>3, <1>6, <1>8, <1>9
<1>. HIDE DEF u, v, t
<1>11. SumFunctionOnSet(f, T) = u + (v + t)
  BY <1>10
<1>. QED BY <1>7, <1>11 DEF u, v, t

\* Elements that count for nothing can be left out.
LEMMA SumFilter ==
  ASSUME NEW T, IsFiniteSet(T), NEW S \in SUBSET T, NEW f, NEW g, \A x \in S : f[x] \in Nat /\ g[x] = f[x],
         \A x \in T \ S : g[x] = 0
  PROVE  SumFunctionOnSet(f, S) = SumFunctionOnSet(g, T)
<1>1. IsFiniteSet(S) /\ IsFiniteSet(T \ S)
  BY FS_Subset
<1>2. SumFunctionOnSet(f, S) = SumFunctionOnSet(g, S)
  BY <1>1, SumSame
<1>3. S \cup (T \ S) = T /\ S \cap (T \ S) = {} /\ \A x \in S \cup (T \ S) : g[x] \in Nat
  OBVIOUS
<1>4. SumFunctionOnSet(g, S \cup (T \ S)) = SumFunctionOnSet(g, S) + SumFunctionOnSet(g, T \ S)
  BY <1>1, <1>3, SumUnion
<1>5. SumFunctionOnSet(g, T \ S) = 0
  BY <1>1, SumZero
<1>6. SumFunctionOnSet(g, T) = SumFunctionOnSet(g, S) + 0
  BY <1>3, <1>4, <1>5, Zenon
<1>. DEFINE u == SumFunctionOnSet(g, S)
<1>7. u \in Nat /\ SumFunctionOnSet(g, T) = u + 0
  BY <1>1, <1>6, SumNatural
<1>. HIDE DEF u
<1>8. SumFunctionOnSet(g, T) = u
  BY <1>7
<1>. QED BY <1>2, <1>8 DEF u

\* One element that counts more.
LEMMA SumRaise ==
  ASSUME NEW S, IsFiniteSet(S), NEW f, NEW g, NEW e \in S, \A x \in S : f[x] \in Nat /\ g[x] \in Nat,
         \A x \in S \ {e} : g[x] = f[x], f[e] = 0
  PROVE  SumFunctionOnSet(g, S) = SumFunctionOnSet(f, S) + g[e]
<1>. DEFINE R == S \ {e}
<1>1. IsFiniteSet(R) /\ R \subseteq S
  BY FS_Subset
<1>2. SumFunctionOnSet(f, S) = f[e] + SumFunctionOnSet(f, R) /\ SumFunctionOnSet(g, S) = g[e] + SumFunctionOnSet(g, R)
  BY SumRemove
<1>3. \A x \in R : f[x] \in Nat /\ g[x] = f[x]
  OBVIOUS
<1>. HIDE DEF R
<1>4. SumFunctionOnSet(f, R) = SumFunctionOnSet(g, R) /\ SumFunctionOnSet(f, R) \in Nat
  BY <1>1, <1>3, SumSame, SumNatural
<1>. DEFINE u == SumFunctionOnSet(f, R)
            v == g[e]
<1>5. u \in Nat /\ v \in Nat /\ SumFunctionOnSet(f, S) = 0 + u /\ SumFunctionOnSet(g, S) = v + u
  BY <1>2, <1>4
<1>. HIDE DEF u, v
<1>6. SumFunctionOnSet(f, S) = u /\ SumFunctionOnSet(g, S) = u + v
  BY <1>5
<1>. QED BY <1>6 DEF v

\* The sizes of disjoint parts of a set add up to no more than its own.
LEMMA SumOfParts ==
  ASSUME NEW S, IsFiniteSet(S), NEW U, IsFiniteSet(U), NEW f, NEW A,
         \A x \in S : A[x] \in SUBSET U /\ f[x] = Cardinality(A[x]),
         \A x, y \in S : x # y => A[x] \cap A[y] = {}
  PROVE  SumFunctionOnSet(f, S) <= Cardinality(U)
<1>. DEFINE Of(s) == {u \in U : \E x \in s : u \in A[x]}
            P == [s \in SUBSET S |-> SumFunctionOnSet(f, s) = Cardinality(Of(s))]
<1>1. P \in [SUBSET S -> BOOLEAN]
  OBVIOUS
<1>2. ASSUME NEW s \in SUBSET S, \A r \in SUBSET s : r # s => SumFunctionOnSet(f, r) = Cardinality(Of(r))
      PROVE  SumFunctionOnSet(f, s) = Cardinality(Of(s))
  <2>1. IsFiniteSet(s)
    BY FS_Subset
  <2>2. CASE s = {}
    <3>1. SumFunctionOnSet(f, s) = 0
      BY <2>1, <2>2, SumUnfolds
    <3>2. Of(s) = {}
      BY <2>2
    <3>. QED BY <3>1, <3>2, FS_EmptySet
  <2>3. CASE s # {}
    <3>. DEFINE c == Pick(s)
                r == s \ {c}
    <3>1. c \in s /\ r \in SUBSET s /\ r # s
      BY <2>3, PickedRest
    <3>2. SumFunctionOnSet(f, s) = f[c] + SumFunctionOnSet(f, r)
      BY <2>1, <2>3, SumUnfolds
    <3>3. SumFunctionOnSet(f, r) = Cardinality(Of(r))
      BY <1>2, <3>1
    <3>. HIDE DEF c
    <3>4. /\ Of(r) \in SUBSET U /\ A[c] \in SUBSET U /\ f[c] = Cardinality(A[c])
          /\ Of(s) = A[c] \cup Of(r)
      BY <3>1
    <3>5. A[c] \cap Of(r) = {}
      BY <3>1
    <3>. HIDE DEF r, Of
    <3>6. IsFiniteSet(A[c]) /\ IsFiniteSet(Of(r))
      BY <3>4, FS_Subset
    <3>7. Cardinality(A[c]) \in Nat /\ Cardinality(Of(r)) \in Nat /\ Cardinality({}) = 0
      BY <3>6, FS_CardinalityType, FS_EmptySet
    <3>8. Cardinality(A[c] \cup Of(r)) = Cardinality(A[c]) + Cardinality(Of(r)) - Cardinality(A[c] \cap Of(r))
      BY <3>6, FS_Union
    <3>9. Cardinality(A[c] \cup Of(r)) = Cardinality(A[c]) + Cardinality(Of(r))
      <4>1. Cardinality(A[c] \cap Of(r)) = 0
        BY <3>5, <3>7, Zenon
      <4>2. Cardinality(A[c]) + Cardinality(Of(r)) - 0 = Cardinality(A[c]) + Cardinality(Of(r))
        BY <3>7
      <4>. QED BY <3>8, <4>1, <4>2, Zenon
    <3>10. Cardinality(Of(s)) = Cardinality(A[c]) + Cardinality(Of(r))
      BY <3>4, <3>9, Zenon
    <3>. QED BY <3>2, <3>3, <3>4, <3>10, Zenon
  <2>. QED BY <2>2, <2>3
<1>3. \A s \in SUBSET S : (\A r \in SUBSET s : r # s => P[r]) => P[s]
  BY <1>2
<1>4. P[S]
  <2>. HIDE DEF P
  <2>. QED BY <1>1, <1>3, SubsetInduction
<1>5. Of(S) \in SUBSET U
  OBVIOUS
<1>6. Cardinality(Of(S)) <= Cardinality(U)
  <2>. HIDE DEF Of
  <2>. QED BY <1>5, FS_Subset
<1>. QED BY <1>4, <1>6

=============================================================================
