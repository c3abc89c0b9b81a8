------------------------- MODULE FleetReportsProofs -------------------------
(***************************************************************************)
(* What holds of the reports for any number of trips and fuel entries and  *)
(* any length of days and months.                                          *)
(*                                                                         *)
(* What a sum over a finite set computes is proved here as well.  The      *)
(* provers cannot instantiate an induction theorem with a predicate, but a *)
(* set of exceptions without a minimal element is a set like any other:    *)
(* all inductions below are one application of WFMin.                      *)
(***************************************************************************)
EXTENDS FleetReports, FiniteSetTheorems, TLAPS

-----------------------------------------------------------------------------
(* Sums over finite sets *)

\* A set that has a subset of S whenever it has all smaller ones has all of them.
LEMMA SubsetInduction ==
    ASSUME NEW S, IsFiniteSet(S), NEW G,
           \A T \in SUBSET S : (\A U \in SUBSET T : U # T => U \in G) => T \in G
    PROVE  S \in G
<1> DEFINE R == StrictSubsetOrdering(S)
           Exceptions == {T \in SUBSET S : T \notin G}
<1>1. IsWellFoundedOn(R, SUBSET S)
  BY FS_StrictSubsetOrderingWellFounded, FS_FiniteSubsetsOfFinite
<1>2. SUFFICES ASSUME Exceptions # {} PROVE FALSE
  OBVIOUS
<1>3. PICK T \in Exceptions : \A U \in Exceptions : <<U, T>> \notin R
  <2>1. Exceptions \subseteq SUBSET S
    OBVIOUS
  <2> HIDE DEF R, Exceptions
  <2>2. QED
    BY <1>1, <1>2, <2>1, WFMin
<1>4. ASSUME NEW U \in SUBSET T, U # T PROVE U \in G
  <2>1. U \in SUBSET S /\ <<U, T>> \in R
    BY <1>3, <1>4 DEF StrictSubsetOrdering
  <2>2. QED
    BY <1>3, <2>1
<1>5. QED
  BY <1>3, <1>4

Chosen(s) == CHOOSE x \in s : TRUE

SumStep(f, g, s) == IF s = {} THEN 0 ELSE f[Chosen(s)] + g[s \ {Chosen(s)}]

\* g is the function whose value at T the sum of f over T is defined to be.
SumsUpTo(f, T, g) == g = [s \in SUBSET T |-> SumStep(f, g, s)]

Sums(f, T) == CHOOSE g : SumsUpTo(f, T, g)

LEMMA ChosenIn == ASSUME NEW s, s # {} PROVE Chosen(s) \in s
  BY DEF Chosen

LEMMA SumUnfolds == ASSUME NEW f, NEW S PROVE SumFunctionOnSet(f, S) = Sums(f, S)[S]
  BY DEF SumFunctionOnSet, FoldFunctionOnSet, MapThenFoldSet, Sums, SumsUpTo, SumStep, Chosen

\* Two such functions agree where both are defined.
LEMMA SumsAgree ==
    ASSUME NEW f, NEW S, NEW T, NEW g, NEW h, IsFiniteSet(S),
           SumsUpTo(f, S, g), SumsUpTo(f, T, h), S \subseteq T
    PROVE  g[S] = h[S]
<1> DEFINE G == {U \in SUBSET S : g[U] = h[U]}
<1>1. ASSUME NEW U \in SUBSET S, \A V \in SUBSET U : V # U => V \in G
      PROVE  U \in G
  <2>1. g[U] = SumStep(f, g, U) /\ h[U] = SumStep(f, h, U)
    BY <1>1 DEF SumsUpTo
  <2>2. CASE U = {}
    BY <2>1, <2>2 DEF SumStep
  <2>3. CASE U # {}
    <3>1. Chosen(U) \in U
      BY <2>3, ChosenIn
    <3>2. U \ {Chosen(U)} \in G
      BY <1>1, <3>1
    <3>3. QED
      BY <2>1, <2>3, <3>2 DEF SumStep
  <2>4. QED
    BY <2>2, <2>3
<1>2. S \in G
  <2> HIDE DEF G
  <2> QED BY <1>1, SubsetInduction
<1>3. QED
  BY <1>2

\* There is such a function.
LEMMA SumsExist == ASSUME NEW f, NEW S, IsFiniteSet(S) PROVE SumsUpTo(f, S, Sums(f, S))
<1> DEFINE G == {T \in SUBSET S : \E g : SumsUpTo(f, T, g)}
<1>1. ASSUME NEW T \in SUBSET S, \A U \in SUBSET T : U # T => U \in G
      PROVE  T \in G
  <2> DEFINE Rest(s) == s \ {Chosen(s)}
             g == [s \in SUBSET T |-> IF s = {} THEN 0 ELSE f[Chosen(s)] + Sums(f, Rest(s))[Rest(s)]]
  <2>1. ASSUME NEW U \in SUBSET T, U # T PROVE SumsUpTo(f, U, Sums(f, U)) /\ IsFiniteSet(U)
    <3>1. PICK h : SumsUpTo(f, U, h)
      BY <1>1, <2>1
    <3>2. QED
      BY <3>1, FS_Subset DEF Sums
  <2>2. ASSUME NEW s \in SUBSET T PROVE g[s] = SumStep(f, g, s)
    <3>1. CASE s = {}
      BY <3>1 DEF SumStep
    <3>2. CASE s # {}
      <4> DEFINE U == Rest(s)
      <4>1. Chosen(s) \in s /\ U \in SUBSET T /\ U # T
        BY <3>2, ChosenIn
      <4>2. g[s] = f[Chosen(s)] + Sums(f, U)[U]
        BY <3>2
      <4>3. Sums(f, U)[U] = SumStep(f, Sums(f, U), U)
        BY <2>1, <4>1 DEF SumsUpTo
      <4>4. Sums(f, U)[U] = g[U]
        <5>1. CASE U = {}
          BY <4>3, <4>1, <5>1 DEF SumStep
        <5>2. CASE U # {}
          <6> DEFINE V == Rest(U)
          <6>1. Chosen(U) \in U /\ V \in SUBSET T /\ V # T /\ V \subseteq U
            BY <4>1, <5>2, ChosenIn
          <6>2. Sums(f, V)[V] = Sums(f, U)[V]
            BY <2>1, <4>1, <6>1, SumsAgree
          <6>3. g[U] = f[Chosen(U)] + Sums(f, V)[V]
            BY <4>1, <5>2
          <6>4. QED
            BY <4>3, <5>2, <6>2, <6>3 DEF SumStep
        <5>3. QED
          BY <5>1, <5>2
      <4>5. QED
        BY <3>2, <4>2, <4>4 DEF SumStep
    <3>3. QED
      BY <3>1, <3>2
  <2>3. SumsUpTo(f, T, g)
    <3>1. g = [s \in SUBSET T |-> g[s]]
      OBVIOUS
    <3>2. [s \in SUBSET T |-> g[s]] = [s \in SUBSET T |-> SumStep(f, g, s)]
      BY <2>2
    <3>3. QED
      BY <3>1, <3>2 DEF SumsUpTo
  <2>4. QED
    BY <2>3
<1>2. S \in G
  <2> HIDE DEF G
  <2> QED BY <1>1, SubsetInduction
<1>3. QED
  BY <1>2 DEF Sums

-----------------------------------------------------------------------------
(* The facts about sums that the reports need *)

\* The sum of f over a finite set is a natural number when f is one on all of it, and
\* every element of the set may be the first to be added.
SumOK(f, S) ==
    /\ SumFunctionOnSet(f, S) \in Nat
    /\ \A x \in S : SumFunctionOnSet(f, S) = f[x] + SumFunctionOnSet(f, S \ {x})

LEMMA SumsAtTop ==
    ASSUME NEW f, NEW S, IsFiniteSet(S)
    PROVE  Sums(f, S)[S] = SumStep(f, Sums(f, S), S)
<1> DEFINE g == Sums(f, S)
<1>1. SumsUpTo(f, S, g)
  BY SumsExist
<1>2. S \in SUBSET S
  OBVIOUS
<1> HIDE DEF g
<1>3. g[S] = SumStep(f, g, S)
  BY <1>1, <1>2 DEF SumsUpTo
<1>4. QED
  BY <1>3 DEF g

LEMMA SumEmpty == ASSUME NEW f PROVE SumFunctionOnSet(f, {}) = 0
<1>1. Sums(f, {})[{}] = 0
  BY SumsAtTop, FS_EmptySet DEF SumStep
<1>2. QED
  BY <1>1, SumUnfolds

LEMMA SumFirst ==
    ASSUME NEW f, NEW S, IsFiniteSet(S), S # {}
    PROVE  /\ Chosen(S) \in S
           /\ SumFunctionOnSet(f, S) = f[Chosen(S)] + SumFunctionOnSet(f, S \ {Chosen(S)})
<1> DEFINE U == S \ {Chosen(S)}
<1>1. Chosen(S) \in S
  BY ChosenIn
<1>2. IsFiniteSet(U)
  BY FS_RemoveElement
<1>3. Sums(f, S)[S] = f[Chosen(S)] + Sums(f, S)[U]
  BY SumsAtTop DEF SumStep
<1>4. Sums(f, U)[U] = Sums(f, S)[U]
  <2>1. SumsUpTo(f, U, Sums(f, U)) /\ SumsUpTo(f, S, Sums(f, S)) /\ U \subseteq S
    BY <1>2, SumsExist
  <2>2. QED
    BY <1>2, <2>1, SumsAgree
<1>5. QED
  BY <1>1, <1>3, <1>4, SumUnfolds

LEMMA SumIsOK ==
    ASSUME NEW f, NEW S, IsFiniteSet(S), \A x \in S : f[x] \in Nat
    PROVE  SumOK(f, S)
<1> DEFINE G == {T \in SUBSET S : SumOK(f, T)}
<1>1. ASSUME NEW T \in SUBSET S, \A U \in SUBSET T : U # T => U \in G
      PROVE  T \in G
  <2>1. IsFiniteSet(T)
    BY FS_Subset
  <2>2. CASE T = {}
    BY <2>2, SumEmpty DEF SumOK
  <2>3. CASE T # {}
    <3> DEFINE c == Chosen(T)
               Sum(U) == SumFunctionOnSet(f, U)
    <3>1. c \in T /\ Sum(T) = f[c] + Sum(T \ {c})
      BY <2>1, <2>3, SumFirst
    <3>2. ASSUME NEW x \in T PROVE f[x] \in Nat /\ SumOK(f, T \ {x}) /\ Sum(T \ {x}) \in Nat
      <4>1. T \ {x} \in SUBSET T /\ T \ {x} # T
        BY <3>2
      <4>2. QED
        BY <1>1, <4>1 DEF SumOK
    <3>3. Sum(T) \in Nat
      BY <3>1, <3>2
    <3>4. ASSUME NEW x \in T PROVE Sum(T) = f[x] + Sum(T \ {x})
      <4>1. CASE x = c
        BY <3>1, <4>1
      <4>2. CASE x # c
        <5>1. (T \ {c}) \ {x} = (T \ {x}) \ {c}
          OBVIOUS
        <5>2. Sum(T \ {c}) = f[x] + Sum((T \ {c}) \ {x})
          BY <3>1, <3>2, <4>2 DEF SumOK
        <5>3. Sum(T \ {x}) = f[c] + Sum((T \ {x}) \ {c})
          BY <3>1, <3>2, <4>2 DEF SumOK
        <5>4. Sum((T \ {c}) \ {x}) \in Nat
          <6>1. (T \ {c}) \ {x} \in SUBSET T /\ (T \ {c}) \ {x} # T
            BY <3>1
          <6>2. QED
            BY <1>1, <6>1 DEF SumOK
        <5> DEFINE rest == Sum((T \ {c}) \ {x})
        <5>5. Sum((T \ {x}) \ {c}) = rest
          BY <5>1
        <5>6. Sum(T) = f[c] + (f[x] + rest) /\ Sum(T \ {x}) = f[c] + rest
          BY <3>1, <5>2, <5>3, <5>5
        <5>7. f[c] \in Nat /\ f[x] \in Nat /\ rest \in Nat
          BY <3>1, <3>2, <5>4
        <5> HIDE DEF rest, Sum, c
        <5>8. QED
          BY <5>6, <5>7
      <4>3. QED
        BY <4>1, <4>2
    <3>5. QED
      BY <3>3, <3>4 DEF SumOK
  <2>4. QED
    BY <2>2, <2>3
<1>2. S \in G
  <2> HIDE DEF G
  <2> QED BY <1>1, SubsetInduction
<1>3. QED
  BY <1>2

\* The same, one element at a time.
LEMMA ElementInduction ==
    ASSUME NEW S, IsFiniteSet(S), NEW G, {} \in G,
           \A T \in SUBSET S : \A x \in T : T \ {x} \in G => T \in G
    PROVE  S \in G
<1>1. ASSUME NEW T \in SUBSET S, \A U \in SUBSET T : U # T => U \in G
      PROVE  T \in G
  <2>1. CASE T = {}
    BY <2>1
  <2>2. CASE T # {}
    <3>1. PICK x \in T : TRUE
      BY <2>2
    <3>2. T \ {x} \in SUBSET T /\ T \ {x} # T
      BY <3>1
    <3>3. QED
      BY <1>1, <3>2
  <2>3. QED
    BY <2>1, <2>2
<1>2. QED
  BY <1>1, SubsetInduction

LEMMA SumMonotone ==
    ASSUME NEW f, NEW g, NEW S, IsFiniteSet(S),
           \A x \in S : f[x] \in Nat /\ g[x] \in Nat /\ f[x] <= g[x]
    PROVE  SumFunctionOnSet(f, S) <= SumFunctionOnSet(g, S)
<1> DEFINE G == {T \in SUBSET S : SumFunctionOnSet(f, T) <= SumFunctionOnSet(g, T)}
<1>1. {} \in G
  BY SumEmpty
<1>2. ASSUME NEW T \in SUBSET S, NEW x \in T, T \ {x} \in G PROVE T \in G
  <2>1. SumOK(f, T) /\ SumOK(g, T) /\ SumOK(f, T \ {x}) /\ SumOK(g, T \ {x})
    <3>1. IsFiniteSet(T) /\ IsFiniteSet(T \ {x})
      BY FS_Subset
    <3>2. QED
      BY <3>1, SumIsOK
  <2>2. f[x] \in Nat /\ g[x] \in Nat /\ f[x] <= g[x]
    OBVIOUS
  <2>3. QED
    BY <1>2, <2>1, <2>2 DEF SumOK
<1>3. S \in G
  <2> HIDE DEF G
  <2> QED BY <1>1, <1>2, ElementInduction
<1>4. QED
  BY <1>3

LEMMA SumCongruent ==
    ASSUME NEW f, NEW g, NEW S, IsFiniteSet(S), \A x \in S : f[x] \in Nat /\ f[x] = g[x]
    PROVE  SumFunctionOnSet(f, S) = SumFunctionOnSet(g, S)
<1>1. SumFunctionOnSet(f, S) \in Nat /\ SumFunctionOnSet(g, S) \in Nat
  BY SumIsOK DEF SumOK
<1>2. /\ SumFunctionOnSet(f, S) <= SumFunctionOnSet(g, S)
      /\ SumFunctionOnSet(g, S) <= SumFunctionOnSet(f, S)
  BY SumMonotone
<1>3. QED
  BY <1>1, <1>2

LEMMA SumUnion ==
    ASSUME NEW f, NEW S, NEW T, IsFiniteSet(S), IsFiniteSet(T), S \cap T = {},
           \A x \in S \union T : f[x] \in Nat
    PROVE  SumFunctionOnSet(f, S \union T) = SumFunctionOnSet(f, S) + SumFunctionOnSet(f, T)
<1> DEFINE Sum(U) == SumFunctionOnSet(f, U)
           G == {U \in SUBSET T : Sum(S \union U) = Sum(S) + Sum(U)}
<1>1. ASSUME NEW U \in SUBSET T PROVE SumOK(f, U) /\ SumOK(f, S \union U)
  <2>1. IsFiniteSet(U) /\ IsFiniteSet(S \union U)
    BY FS_Subset, FS_Union
  <2>2. QED
    BY <2>1, SumIsOK
<1>2. {} \in G
  <2>1. SumOK(f, S) /\ S \union {} = S
    BY SumIsOK
  <2>2. QED
    BY <2>1, SumEmpty DEF SumOK
<1>3. ASSUME NEW U \in SUBSET T, NEW x \in U, U \ {x} \in G PROVE U \in G
  <2>1. x \in S \union U /\ x \notin S /\ (S \union U) \ {x} = S \union (U \ {x})
    OBVIOUS
  <2>2. Sum(S \union U) = f[x] + Sum(S \union (U \ {x})) /\ Sum(U) = f[x] + Sum(U \ {x})
    <3>1. Sum(S \union U) = f[x] + Sum((S \union U) \ {x}) /\ Sum(U) = f[x] + Sum(U \ {x})
      BY <1>1, <2>1 DEF SumOK
    <3>2. Sum((S \union U) \ {x}) = Sum(S \union (U \ {x}))
      BY <2>1, Zenon
    <3>3. QED
      BY <3>1, <3>2
  <2>3. Sum(S \union (U \ {x})) = Sum(S) + Sum(U \ {x})
    BY <1>3
  <2>4. Sum(S) \in Nat /\ Sum(U \ {x}) \in Nat /\ f[x] \in Nat
    <3>1. U \ {x} \in SUBSET T
      OBVIOUS
    <3>2. QED
      BY <1>1, <3>1, SumIsOK DEF SumOK
  <2>5. Sum(S \union U) = Sum(S) + Sum(U)
    <3> HIDE DEF Sum
    <3> QED BY <2>2, <2>3, <2>4
  <2>6. QED
    BY <2>5
<1>4. T \in G
  <2> HIDE DEF G
  <2> QED BY <1>2, <1>3, ElementInduction
<1>5. QED
  BY <1>4

LEMMA SumOfSubset ==
    ASSUME NEW f, NEW S, NEW T, IsFiniteSet(T), S \subseteq T, \A x \in T : f[x] \in Nat
    PROVE  SumFunctionOnSet(f, S) <= SumFunctionOnSet(f, T)
<1>1. IsFiniteSet(S) /\ IsFiniteSet(T \ S) /\ S \union (T \ S) = T /\ S \cap (T \ S) = {}
  BY FS_Subset, FS_Difference
<1>2. SumFunctionOnSet(f, S \union (T \ S)) = SumFunctionOnSet(f, S) + SumFunctionOnSet(f, T \ S)
  BY <1>1, SumUnion
<1>3. SumFunctionOnSet(f, S) \in Nat /\ SumFunctionOnSet(f, T \ S) \in Nat
  BY <1>1, SumIsOK DEF SumOK
<1>4. SumFunctionOnSet(f, S \union (T \ S)) = SumFunctionOnSet(f, T)
  BY <1>1, Zenon
<1>5. QED
  BY <1>2, <1>3, <1>4

WithKey(S, key, d) == {x \in S : key[x] = d}

\* h sums f over S key by key, and D are the keys.
SplitsByKey(f, S, D, key, h) ==
    /\ \A x \in S : f[x] \in Nat /\ key[x] \in D
    /\ \A d \in D : h[d] = SumFunctionOnSet(f, WithKey(S, key, d))

\* Summing what belongs to a key, key by key, is summing all of it.
LEMMA SumByKey ==
    ASSUME NEW f, NEW S, NEW D, NEW key, NEW h, IsFiniteSet(S), IsFiniteSet(D),
           SplitsByKey(f, S, D, key, h)
    PROVE  SumFunctionOnSet(h, D) = SumFunctionOnSet(f, S)
<1> USE DEF SplitsByKey
<1> DEFINE With(E) == {x \in S : key[x] \in E}
           G == {E \in SUBSET D : SumFunctionOnSet(h, E) = SumFunctionOnSet(f, With(E))}
<1>1. ASSUME NEW d \in D PROVE h[d] \in Nat
  <2>1. IsFiniteSet(WithKey(S, key, d)) /\ \A x \in WithKey(S, key, d) : f[x] \in Nat
    BY FS_Subset DEF WithKey
  <2>2. QED
    BY <2>1, SumIsOK DEF SumOK
<1>2. {} \in G
  <2>1. With({}) = {}
    OBVIOUS
  <2>2. SumFunctionOnSet(f, With({})) = 0
    BY <2>1, SumEmpty, Zenon
  <2>3. QED
    BY <2>2, SumEmpty
<1>3. ASSUME NEW E \in SUBSET D, NEW d \in E, E \ {d} \in G PROVE E \in G
  <2> DEFINE One == WithKey(S, key, d)
             Rest == With(E \ {d})
  <2>1. SumFunctionOnSet(h, E) = h[d] + SumFunctionOnSet(h, E \ {d})
    <3>1. IsFiniteSet(E)
      BY FS_Subset
    <3>2. QED
      BY <1>1, <3>1, SumIsOK DEF SumOK
  <2>2. IsFiniteSet(One) /\ IsFiniteSet(Rest)
    BY FS_Subset DEF WithKey
  <2>3. One \cap Rest = {} /\ One \union Rest = With(E) /\ \A x \in One \union Rest : f[x] \in Nat
    BY DEF WithKey
  <2>4. SumFunctionOnSet(f, One \union Rest) = SumFunctionOnSet(f, One) + SumFunctionOnSet(f, Rest)
    <3> HIDE DEF One, Rest
    <3> QED BY <2>2, <2>3, SumUnion
  <2>5. SumFunctionOnSet(f, One \union Rest) = SumFunctionOnSet(f, With(E))
    BY <2>3, Zenon
  <2>6. h[d] = SumFunctionOnSet(f, One)
    OBVIOUS
  <2>7. SumFunctionOnSet(h, E \ {d}) = SumFunctionOnSet(f, Rest)
    BY <1>3
  <2>8. SumFunctionOnSet(h, E) = SumFunctionOnSet(f, With(E))
    <3> HIDE DEF One, Rest, With
    <3> QED BY <2>1, <2>4, <2>5, <2>6, <2>7
  <2>9. QED
    BY <2>8
<1>4. D \in G
  <2> HIDE DEF G
  <2> QED BY <1>2, <1>3, ElementInduction
<1>5. With(D) = S
  OBVIOUS
<1>6. SumFunctionOnSet(h, D) = SumFunctionOnSet(f, With(D))
  BY <1>4
<1>7. SumFunctionOnSet(f, With(D)) = SumFunctionOnSet(f, S)
  BY <1>5, Zenon
<1>8. QED
  BY <1>6, <1>7, Zenon

\* h counts the elements of B key by key, for the keys in S.
CountsByKey(B, S, key, h) == \A k \in S : h[k] = Cardinality(WithKey(B, key, k))

\* Counting what belongs to a key, key by key, is counting all of it.
LEMMA CountByKey ==
    ASSUME NEW B, NEW S, NEW key, NEW h, IsFiniteSet(B), IsFiniteSet(S),
           CountsByKey(B, S, key, h)
    PROVE  SumFunctionOnSet(h, S) = Cardinality({b \in B : key[b] \in S})
<1> DEFINE Of(T) == {b \in B : key[b] \in T}
           G == {T \in SUBSET S : SumFunctionOnSet(h, T) = Cardinality(Of(T))}
<1>1. ASSUME NEW k \in S
      PROVE  IsFiniteSet(WithKey(B, key, k)) /\ h[k] \in Nat
  <2>1. IsFiniteSet(WithKey(B, key, k))
    BY FS_Subset DEF WithKey
  <2>2. QED
    BY <2>1, FS_CardinalityType DEF CountsByKey
<1>2. {} \in G
  <2>1. Of({}) = {}
    OBVIOUS
  <2>2. Cardinality(Of({})) = 0
    BY <2>1, FS_EmptySet, Zenon
  <2>3. QED
    BY <2>2, SumEmpty
<1>3. ASSUME NEW T \in SUBSET S, NEW k \in T, T \ {k} \in G PROVE T \in G
  <2> DEFINE One == WithKey(B, key, k)
             Rest == Of(T \ {k})
  <2>1. SumFunctionOnSet(h, T) = h[k] + SumFunctionOnSet(h, T \ {k})
    <3>1. IsFiniteSet(T)
      BY FS_Subset
    <3>2. QED
      BY <1>1, <3>1, SumIsOK DEF SumOK
  <2>2. IsFiniteSet(One) /\ IsFiniteSet(Rest)
    BY FS_Subset DEF WithKey
  <2>3. One \cap Rest = {} /\ One \union Rest = Of(T)
    BY DEF WithKey
  <2>4. Cardinality(One \union Rest) = Cardinality(One) + Cardinality(Rest)
    <3>1. Cardinality(One \union Rest) = Cardinality(One) + Cardinality(Rest) - Cardinality(One \cap Rest)
      <4> HIDE DEF One, Rest
      <4> QED BY <2>2, FS_Union
    <3>2. Cardinality(One \cap Rest) = 0
      BY <2>3, FS_EmptySet, Zenon
    <3>3. Cardinality(One) \in Nat /\ Cardinality(Rest) \in Nat
      BY <2>2, FS_CardinalityType
    <3> HIDE DEF One, Rest
    <3>4. QED
      BY <3>1, <3>2, <3>3
  <2>5. Cardinality(One \union Rest) = Cardinality(Of(T))
    BY <2>3, Zenon
  <2>6. h[k] = Cardinality(One)
    BY DEF CountsByKey
  <2>7. SumFunctionOnSet(h, T \ {k}) = Cardinality(Rest)
    BY <1>3
  <2>8. SumFunctionOnSet(h, T) = Cardinality(Of(T))
    <3> HIDE DEF One, Rest, Of
    <3> QED BY <2>1, <2>4, <2>5, <2>6, <2>7
  <2>9. QED
    BY <2>8
<1>4. S \in G
  <2> HIDE DEF G
  <2> QED BY <1>2, <1>3, ElementInduction
<1>5. QED
  BY <1>4

-----------------------------------------------------------------------------
(* Shapes *)

LEMMA ReportConstants ==
    /\ DayTicks \in Nat \ {0} /\ MonthDays \in Nat \ {0} /\ Days \in Nat \ {0}
    /\ Null \notin Nat /\ Null \notin Journey
    /\ IsFiniteSet(Journey) /\ IsFiniteSet(Bill)
    /\ \A km \in Distance : km \in Nat
    /\ \A at \in BillTick : at \in Nat
    /\ \A zone \in Zones \union {0} : zone \in Int
  BY ReportsAssumption

LEMMA TickIsNat == \A at \in Tick : at \in Nat
  BY ReportConstants DEF Tick

\* A row that is there has the shape of one.
LEMMA RowsThere ==
    ASSUME ReportsTypeOK
    PROVE  /\ Begun \subseteq Journey
           /\ \A i \in Begun : journeys[i] \in JourneyRow /\ journeys[i].start \in Nat
           /\ Billed \subseteq Bill
           /\ \A b \in Billed : bills[b] \in BillRow /\ bills[b].at \in Nat
  BY ReportConstants, TickIsNat DEF ReportsTypeOK, Begun, Billed, JourneyRow, BillRow

\* What the office reads is a natural number.
LEMMA ReadsAreNat ==
    ASSUME ReportsTypeOK
    PROVE  /\ \A i \in Journey : journeys[i].km \in Nat
           /\ \A S \in SUBSET Journey : IsFiniteSet(S) /\ KmOf(S) \in Nat
           /\ IsFiniteSet(Billed)
           /\ \A S : CostOf(S) \in Nat
<1>1. \A i \in Journey : journeys[i].km \in Nat
  BY ReportConstants DEF ReportsTypeOK, JourneyRow, NoJourney
<1>2. ASSUME NEW S \in SUBSET Journey PROVE IsFiniteSet(S) /\ KmOf(S) \in Nat
  <2>1. IsFiniteSet(S)
    BY ReportConstants, FS_Subset
  <2>2. QED
    BY <1>1, <2>1, SumIsOK DEF KmOf, SumOK
<1>3. IsFiniteSet(Billed)
  BY RowsThere, ReportConstants, FS_Subset
<1>4. ASSUME NEW S PROVE CostOf(S) \in Nat
  <2>1. IsFiniteSet({b \in Billed : bills[b].trip \in S})
    BY <1>3, FS_Subset
  <2>2. QED
    BY <2>1, FS_CardinalityType DEF CostOf
<1>5. QED
  BY <1>1, <1>2, <1>3, <1>4

LEMMA RangeIsBegun == \A from, to : TripsInRange(from, to) \subseteq Begun
  BY DEF TripsInRange

LEMMA InitReportsOK == ReportsInit => ReportsTypeOK
  BY ReportConstants DEF ReportsInit, ReportsTypeOK, NoReport, Report, NoSummary, Summary, Tick

\* Taking kilometres back leaves its mark on a summary and nothing else.
LEMMA ReviseFacts ==
    ASSUME ReportsTypeOK, NEW back \in BOOLEAN, Revise(back)
    PROVE  /\ summary' \in Summary
           /\ summary'.pc = summary.pc /\ summary'.now = summary.now
           /\ summary'.zone = summary.zone
           /\ summary'.today = summary.today /\ summary'.month = summary.month
           /\ summary'.revised = (summary.revised \/ (back /\ summary.pc = "month"))
<1>1. summary \in Summary
  BY DEF ReportsTypeOK
<1>2. (summary.revised \/ (back /\ summary.pc = "month")) \in BOOLEAN
  BY <1>1 DEF Summary
<1>3. PICK b \in BOOLEAN : b = (summary.revised \/ (back /\ summary.pc = "month"))
  BY <1>2
<1>4. summary' = [summary EXCEPT !.revised = b]
  BY <1>3 DEF Revise
<1>5. QED
  BY <1>1, <1>3, <1>4 DEF Summary

\* What drivers write.
LEMMA DriversStepOK ==
    ASSUME ReportsTypeOK, NEW i \in Journey,
           \/ \E at \in Tick : BeginJourney(i, at)
           \/ \E km \in Distance : EndJourney(i, km)
           \/ ReopenJourney(i)
           \/ \E b \in Bill, at \in BillTick : AddBill(b, i, at)
    PROVE  ReportsTypeOK'
<1>1. CASE \E at \in Tick : BeginJourney(i, at)
  BY <1>1 DEF BeginJourney, ReportsTypeOK, JourneyRow
<1>2. CASE \E km \in Distance : EndJourney(i, km)
  <2>1. PICK km \in Distance : EndJourney(i, km)
    BY <1>2
  <2>2. journeys' = [journeys EXCEPT ![i] = [@ EXCEPT !.completed = TRUE, !.km = km]]
    BY <2>1 DEF EndJourney, ReportsTypeOK
  <2>3. journeys[i] \in JourneyRow
    BY <2>1, RowsThere DEF EndJourney
  <2>4. [journeys[i] EXCEPT !.completed = TRUE, !.km = km] \in JourneyRow
    BY <2>3 DEF JourneyRow
  <2>5. journeys' \in [Journey -> JourneyRow \union {NoJourney}]
    BY <2>2, <2>4 DEF ReportsTypeOK
  <2>6. (journeys[i].completed /\ km < journeys[i].km) \in BOOLEAN
    OBVIOUS
  <2>7. summary' \in Summary
    BY <2>1, <2>6, ReviseFacts DEF EndJourney
  <2>8. QED
    BY <2>1, <2>5, <2>7 DEF EndJourney, ReportsTypeOK
<1>3. CASE ReopenJourney(i)
  <2>1. journeys[i] \in JourneyRow
    BY <1>3, RowsThere DEF ReopenJourney
  <2>2. [journeys[i] EXCEPT !.completed = FALSE] \in JourneyRow
    BY <2>1 DEF JourneyRow
  <2>3. journeys' \in [Journey -> JourneyRow \union {NoJourney}]
    BY <1>3, <2>2 DEF ReopenJourney, ReportsTypeOK
  <2>4. summary' \in Summary
    BY <1>3, ReviseFacts DEF ReopenJourney
  <2>5. QED
    BY <1>3, <2>3, <2>4 DEF ReopenJourney, ReportsTypeOK
<1>4. CASE \E b \in Bill, at \in BillTick : AddBill(b, i, at)
  BY <1>4 DEF AddBill, ReportsTypeOK, BillRow
<1>5. QED
  BY <1>1, <1>2, <1>3, <1>4

\* Which step lists trips, and which.
LEMMA ListOK ==
    ASSUME ReportsTypeOK, NEW S \in SUBSET Begun, NEW pc \in {"breakdown", "aggregate"}, List(S, pc)
    PROVE  ReportsTypeOK'
  BY RowsThere, ReadsAreNat DEF List, ReportsTypeOK, Report

LEMMA ListSteps ==
    ASSUME \/ \E d \in Day : GetDailyReport(d)
           \/ \E from, to \in Day : GetCustomReport(from, to)
           \/ \E m \in Month, zone \in Zones : GetMonthlyReport(m, zone)
    PROVE  \E S \in SUBSET Begun : List(S, "aggregate") \/ List(S, "breakdown")
  BY RangeIsBegun DEF GetDailyReport, GetCustomReport, GetMonthlyReport

LEMMA ReportStepOK ==
    ASSUME ReportsTypeOK,
           \/ \E i \in Journey : ReadTrip(i)
           \/ ReadAggregate \/ FinishBreakdown \/ TakeReport
    PROVE  ReportsTypeOK'
<1>1. CASE \E i \in Journey : ReadTrip(i)
  <2>1. PICK i \in Journey : ReadTrip(i)
    BY <1>1
  <2>2. report.todo \ {i} \in SUBSET Journey /\ CostOf({i}) \in Nat
    BY ReadsAreNat DEF ReportsTypeOK, Report
  <2>3. report' \in Report
    BY <2>1, <2>2 DEF ReadTrip, ReportsTypeOK, Report
  <2>4. QED
    BY <2>1, <2>3 DEF ReadTrip, ReportsTypeOK
<1>2. CASE ReadAggregate
  BY <1>2, ReadsAreNat DEF ReadAggregate, ReportsTypeOK, Report
<1>3. CASE FinishBreakdown
  BY <1>3 DEF FinishBreakdown, ReportsTypeOK, Report
<1>4. CASE TakeReport
  BY <1>4 DEF TakeReport, ReportsTypeOK, Report, NoReport
<1>5. QED
  BY <1>1, <1>2, <1>3, <1>4

LEMMA SummaryStepOK ==
    ASSUME ReportsTypeOK,
           \/ \E now \in Tick, zone \in Zones : BeginSummary(now, zone)
           \/ ReadMonth \/ TakeSummary
    PROVE  ReportsTypeOK'
<1>1. \A from, to : SumTripKm(from, to) \in Nat
  BY RangeIsBegun, RowsThere, ReadsAreNat DEF SumTripKm
<1>2. CASE \E now \in Tick, zone \in Zones : BeginSummary(now, zone)
  BY <1>1, <1>2 DEF BeginSummary, ReportsTypeOK, Summary
<1>3. CASE ReadMonth
  BY <1>1, <1>3 DEF ReadMonth, ReportsTypeOK, Summary
<1>4. CASE TakeSummary
  BY <1>4, ReportConstants DEF TakeSummary, ReportsTypeOK, Summary, NoSummary, Tick
<1>5. QED
  BY <1>2, <1>3, <1>4

LEMMA ReportsStepOK == ReportsTypeOK /\ [ReportsNext]_reportVars => ReportsTypeOK'
<1> SUFFICES ASSUME ReportsTypeOK, [ReportsNext]_reportVars PROVE ReportsTypeOK'
  OBVIOUS
<1>1. CASE UNCHANGED reportVars
  BY <1>1 DEF ReportsTypeOK, reportVars
<1>2. CASE ReportsNext
  BY <1>2, DriversStepOK, ListSteps, ListOK, ReportStepOK, SummaryStepOK DEF ReportsNext
<1>3. QED
  BY <1>1, <1>2

\* Rows, the report and the summary in hand keep their shape: in particular every total
\* is a natural number, whatever is summed (ReportsService, DashboardService).
THEOREM ReportsTypeCorrect == ReportsSpec => []ReportsTypeOK
<1>1. QED
  BY InitReportsOK, ReportsStepOK, PTL DEF ReportsSpec

-----------------------------------------------------------------------------
(* Days and months *)

LEMMA Multiples ==
    ASSUME NEW n \in Nat, NEW p \in Int, NEW q \in Int, p <= q
    PROVE  p * n <= q * n
<1>1. (q - p) * n >= 0
  <2>1. q - p \in Nat
    OBVIOUS
  <2>2. QED
    BY <2>1
<1>2. (q - p) * n = q * n - p * n
  OBVIOUS
<1>3. QED
  BY <1>1, <1>2

LEMMA Quotient ==
    ASSUME NEW n \in Nat \ {0}, NEW x \in Int, NEW q \in Int
    PROVE  x \div n = q <=> q * n <= x /\ x < (q + 1) * n
<1> DEFINE p == x \div n
<1>1. p \in Int /\ p * n <= x /\ x < (p + 1) * n
  OBVIOUS
<1>2. CASE q < p
  <2>1. (q + 1) * n <= p * n
    BY <1>1, <1>2, Multiples
  <2>2. QED
    BY <1>1, <1>2, <2>1
<1>3. CASE p < q
  <2>1. (p + 1) * n <= q * n
    BY <1>1, <1>3, Multiples
  <2>2. QED
    BY <1>1, <1>3, <2>1
<1>4. CASE p = q
  BY <1>1, <1>4
<1>5. QED
  BY <1>1, <1>2, <1>3, <1>4

\* The days a to b are the ticks whose date is one of them.
LEMMA DatesOfRange ==
    ASSUME NEW n \in Nat \ {0}, NEW x \in Int, NEW a \in Int, NEW b \in Int
    PROVE  x \in a * n .. (b + 1) * n - 1 <=> x \div n \in a .. b
<1> DEFINE p == x \div n
<1>1. p \in Int /\ p * n <= x /\ x < (p + 1) * n
  OBVIOUS
<1>2. a * n \in Int /\ (b + 1) * n \in Int /\ p * n \in Int /\ (p + 1) * n \in Int
  BY <1>1
<1>3. ASSUME p \in a .. b PROVE x \in a * n .. (b + 1) * n - 1
  <2>1. a * n <= p * n /\ (p + 1) * n <= (b + 1) * n
    BY <1>1, <1>3, Multiples
  <2>2. QED
    BY <1>1, <1>2, <2>1
<1>4. ASSUME x \in a * n .. (b + 1) * n - 1 PROVE p \in a .. b
  <2>1. CASE p < a
    <3>1. (p + 1) * n <= a * n
      BY <1>1, <2>1, Multiples
    <3>2. QED
      BY <1>1, <1>2, <1>4, <3>1
  <2>2. CASE b < p
    <3>1. (b + 1) * n <= p * n
      BY <1>1, <2>2, Multiples
    <3>2. QED
      BY <1>1, <1>2, <1>4, <3>1
  <2>3. QED
    BY <1>1, <2>1, <2>2
<1>5. QED
  BY <1>3, <1>4

LEMMA TripsOfDays ==
    ASSUME ReportsTypeOK, NEW a \in Int, NEW b \in Int
    PROVE  TripsInRange(DayStart(a), RangeEnd(b))
               = {i \in Begun : journeys[i].completed /\ DateKey(i) \in a .. b}
<1>1. \A i \in Begun : journeys[i].start \in Int
  BY RowsThere
<1>2. \A i \in Begun : journeys[i].start \in DayStart(a) .. RangeEnd(b) <=> DateKey(i) \in a .. b
  BY <1>1, ReportConstants, DatesOfRange DEF DayStart, RangeEnd, DateKey
<1>3. QED
  BY <1>2 DEF TripsInRange

\* Whatever is summed over trips may be summed date by date, over any dates that have them all.
LEMMA SumByDate ==
    ASSUME NEW f, NEW S, NEW D, NEW h, IsFiniteSet(S), IsFiniteSet(D),
           \A i \in S : f[i] \in Nat /\ DateKey(i) \in D,
           h = [d \in D |-> SumFunctionOnSet(f, {i \in S : DateKey(i) = d})]
    PROVE  SumFunction(h) = SumFunctionOnSet(f, S)
<1> DEFINE key == [i \in S |-> DateKey(i)]
<1>1. \A d \in D : {i \in S : DateKey(i) = d} = WithKey(S, key, d)
  BY DEF WithKey
<1>2. \A d \in D : h[d] = SumFunctionOnSet(f, WithKey(S, key, d))
  BY <1>1, Zenon
<1>3. \A i \in S : f[i] \in Nat /\ key[i] \in D
  OBVIOUS
<1>4. SplitsByKey(f, S, D, key, h)
  BY <1>2, <1>3 DEF SplitsByKey
<1>5. SumFunctionOnSet(h, D) = SumFunctionOnSet(f, S)
  <2> HIDE DEF key
  <2> QED BY <1>4, SumByKey
<1>6. DOMAIN h = D
  OBVIOUS
<1>7. QED
  BY <1>5, <1>6, Zenon DEF SumFunction

\* A custom report is the sum of the daily reports of its dates, for days of any length
\* (buildDailyBreakdown and getDailyReport).
THEOREM CustomIsSumOfDaysHolds == ReportsSpec => []CustomIsSumOfDays
<1>1. ReportsTypeOK => CustomIsSumOfDays
  <2> SUFFICES ASSUME ReportsTypeOK, NEW from \in Day, NEW to \in Day, from <= to
               PROVE  SumOfBreakdown(TripsInRange(DayStart(from), RangeEnd(to)))
                          = SumFunction([d \in from .. to |->
                                KmOf(TripsInRange(DayStart(d), DayEnd(d)))])
    BY DEF CustomIsSumOfDays
  <2> DEFINE R == TripsInRange(DayStart(from), RangeEnd(to))
             km == [i \in Journey |-> journeys[i].km]
             Dates == {DateKey(i) : i \in R}
  <2>1. from \in Int /\ to \in Int
    BY ReportConstants DEF Day
  <2>2. R = {i \in Begun : journeys[i].completed /\ DateKey(i) \in from .. to}
    BY <2>1, TripsOfDays
  <2>3. IsFiniteSet(R) /\ R \subseteq Journey /\ \A i \in R : km[i] \in Nat
    BY RangeIsBegun, RowsThere, ReadsAreNat
  <2>4. Dates \subseteq from .. to /\ IsFiniteSet(from .. to) /\ IsFiniteSet(Dates)
    BY <2>1, <2>2, FS_Interval, FS_Subset
  <2>5. SumOfBreakdown(R) = SumFunctionOnSet(km, R)
    <3> DEFINE h == [d \in Dates |-> SumFunctionOnSet(km, {i \in R : DateKey(i) = d})]
    <3>1. SumOfBreakdown(R) = SumFunction(h)
      BY DEF SumOfBreakdown, KmOfDay, KmOf
    <3>2. \A i \in R : km[i] \in Nat /\ DateKey(i) \in Dates
      BY <2>3
    <3>3. SumFunction(h) = SumFunctionOnSet(km, R)
      <4> HIDE DEF km, R, Dates
      <4> QED BY <2>3, <2>4, <3>2, SumByDate
    <3>4. QED
      BY <3>1, <3>3
  <2>6. SumFunction([d \in from .. to |-> KmOf(TripsInRange(DayStart(d), DayEnd(d)))])
            = SumFunctionOnSet(km, R)
    <3> DEFINE h == [d \in from .. to |-> SumFunctionOnSet(km, {i \in R : DateKey(i) = d})]
    <3>1. ASSUME NEW d \in from .. to
          PROVE  TripsInRange(DayStart(d), DayEnd(d)) = {i \in R : DateKey(i) = d}
      <4>1. d \in Int /\ DayEnd(d) = RangeEnd(d)
        BY <2>1 DEF DayEnd, RangeEnd
      <4>2. TripsInRange(DayStart(d), DayEnd(d))
                = {i \in Begun : journeys[i].completed /\ DateKey(i) \in d .. d}
        BY <4>1, TripsOfDays
      <4>3. \A i \in Begun : DateKey(i) \in Int
        BY RowsThere, ReportConstants DEF DateKey
      <4>4. QED
        BY <2>1, <2>2, <4>2, <4>3
    <3>2. \A d \in from .. to : KmOf(TripsInRange(DayStart(d), DayEnd(d)))
              = SumFunctionOnSet(km, {i \in R : DateKey(i) = d})
      BY <3>1, Zenon DEF KmOf
    <3>3. [d \in from .. to |-> KmOf(TripsInRange(DayStart(d), DayEnd(d)))] = h
      <4> HIDE DEF km, R
      <4> QED BY <3>2, Zenon
    <3>4. SumFunction(h) = SumFunctionOnSet(km, R)
      <4>1. \A i \in R : DateKey(i) \in from .. to
        BY <2>2
      <4> HIDE DEF km, R
      <4>2. QED
        BY <2>3, <2>4, <4>1, SumByDate
    <3>5. QED
      BY <3>3, <3>4, Zenon
  <2>7. QED
    BY <2>5, <2>6
<1>2. QED
  BY <1>1, ReportsTypeCorrect, PTL

\* Wherever the server stands, a completed trip is in the report of exactly one month, for
\* days and months of any length and any zone less than a day away (getMonthlyReport).
THEOREM MonthsPartitionHolds == ReportsSpec => []MonthsPartition
<1>1. ReportsTypeOK => MonthsPartition
  <2> SUFFICES ASSUME ReportsTypeOK, NEW i \in Begun, NEW zone \in Zones, journeys[i].completed
               PROVE  Cardinality({m \in Month :
                          i \in TripsInRange(MonthStart(m, zone), MonthEnd(m, zone))}) = 1
    BY DEF MonthsPartition
  <2> DEFINE n == MonthDays * DayTicks
             x == journeys[i].start + zone
             its == x \div n
             covered == Days \div MonthDays
  <2>1. /\ n \in Nat \ {0} /\ zone \in -DayTicks .. DayTicks /\ zone \in Int
        /\ journeys[i].start \in 0 .. Days * DayTicks - 1
        /\ DayTicks \in Nat \ {0} /\ MonthDays \in Nat \ {0} /\ Days \in Nat \ {0}
        /\ x \in Int
    <3>1. journeys[i].start \in Tick
      BY RowsThere DEF JourneyRow
    <3>2. MonthDays * DayTicks \in Nat \ {0}
      BY ReportConstants
    <3>3. QED
      BY <3>1, <3>2, ReportConstants, ReportsAssumption DEF Tick
  <2>2. its \in Int /\ covered \in Int
    BY <2>1
  <2>3. its \in Month
    <3>1. DayTicks <= n
      <4>1. 1 * DayTicks <= MonthDays * DayTicks
        BY <2>1, Multiples
      <4>2. QED
        BY <2>1, <4>1
    <3>2. Days + 1 <= (covered + 1) * MonthDays
      BY <2>1
    <3>3. (Days + 1) * DayTicks <= ((covered + 1) * MonthDays) * DayTicks
      BY <2>1, <2>2, <3>2, Multiples
    <3>4. ((covered + 1) * MonthDays) * DayTicks = (covered + 1) * n
      BY <2>1, <2>2
    <3>5. (Days + 1) * DayTicks = Days * DayTicks + DayTicks /\ Days * DayTicks \in Int
      BY <2>1
    <3>6. x < (covered + 1) * n + 1
      BY <2>1, <2>2, <3>3, <3>4, <3>5
    <3>7. x \in (-1) * n .. ((covered + 1) + 1) * n - 1
      <4>1. (-1) * n = -n /\ ((covered + 1) + 1) * n = (covered + 1) * n + n
        BY <2>1, <2>2
      <4>2. (covered + 1) * n \in Int
        BY <2>1, <2>2
      <4>3. -n <= x
        BY <2>1, <3>1
      <4> HIDE DEF n, x, covered
      <4>4. QED
        BY <2>1, <3>6, <4>1, <4>2, <4>3
    <3>8. its \in -1 .. covered + 1
      <4> HIDE DEF n, x, covered
      <4>1. QED
        BY <2>1, <2>2, <3>7, DatesOfRange
    <3>9. QED
      BY <3>8 DEF Month
  <2>4. ASSUME NEW m \in Int
        PROVE  i \in TripsInRange(MonthStart(m, zone), MonthEnd(m, zone)) <=> m = its
    <3>1. MonthStart(m, zone) = m * n - zone /\ MonthEnd(m, zone) = (m + 1) * n - zone - 1
      BY <2>1 DEF MonthStart, MonthEnd
    <3>2. m * n \in Int /\ (m + 1) * n \in Int
      BY <2>1
    <3>3. i \in TripsInRange(MonthStart(m, zone), MonthEnd(m, zone))
              <=> journeys[i].start \in MonthStart(m, zone) .. MonthEnd(m, zone)
      BY DEF TripsInRange
    <3>4. journeys[i].start \in MonthStart(m, zone) .. MonthEnd(m, zone)
              <=> m * n <= x /\ x < (m + 1) * n
      <4> HIDE DEF n
      <4> QED BY <2>1, <3>1, <3>2
    <3>5. its = m <=> m * n <= x /\ x < (m + 1) * n
      <4> HIDE DEF n, x
      <4> QED BY <2>1, Quotient
    <3>6. QED
      BY <3>3, <3>4, <3>5
  <2>5. Month \subseteq Int
    BY DEF Month
  <2>6. {m \in Month : i \in TripsInRange(MonthStart(m, zone), MonthEnd(m, zone))} = {its}
    <3> HIDE DEF its
    <3> QED BY <2>3, <2>4, <2>5
  <2>7. QED
    <3> HIDE DEF its
    <3> QED BY <2>6, FS_Singleton, Zenon
<1>2. QED
  BY <1>1, ReportsTypeCorrect, PTL

\* On a server that runs in UTC the KPIs of a range lie between the fuel reports without
\* and with its last day, for any entries and days of any length (getKpis, getFuelReport).
THEOREM KpisBetweenHolds == ReportsSpec => []KpisBetween
<1>1. ReportsTypeOK => KpisBetween
  <2> SUFFICES ASSUME ReportsTypeOK, NEW from \in Day, NEW to \in Day
               PROVE  /\ FuelReportCost(from, to - 1) <= KpiCost(from, to, 0)
                      /\ KpiCost(from, to, 0) <= FuelReportCost(from, to)
    BY DEF KpisBetween
  <2> DEFINE At(a, b) == {e \in Billed : bills[e].at \in a .. b}
             last == to * DayTicks
             first == from * DayTicks
  <2>1. last \in Int /\ first \in Int /\ DayTicks \in Nat \ {0}
        /\ (to + 1) * DayTicks = last + DayTicks /\ ((to - 1) + 1) * DayTicks = last
    BY ReportConstants DEF Day
  <2>2. /\ FuelReportCost(from, to - 1) = Cardinality(At(first, last - 1))
        /\ KpiCost(from, to, 0) = Cardinality(At(first - 0, last - 0))
        /\ FuelReportCost(from, to) = Cardinality(At(first, last + DayTicks - 1))
    <3>1. DayStart(from) = first /\ RangeEnd(to - 1) = last - 1
          /\ RangeEnd(to) = last + DayTicks - 1 /\ KpiBound(to, 0) = last - 0
      BY <2>1 DEF DayStart, RangeEnd, KpiBound
    <3> HIDE DEF first, last
    <3>2. QED
      BY <3>1, Zenon DEF FuelReportCost, KpiCost
  <2>3. /\ At(first, last - 1) \in SUBSET At(first - 0, last - 0)
        /\ At(first - 0, last - 0) \in SUBSET At(first, last + DayTicks - 1)
    <3> HIDE DEF first, last
    <3> QED BY <2>1, RowsThere
  <2>4. \A a, b : IsFiniteSet(At(a, b))
    BY ReadsAreNat, FS_Subset
  <2>5. QED
    <3> HIDE DEF At, first, last
    <3> QED BY <2>2, <2>3, <2>4, FS_Subset
<1>2. QED
  BY <1>1, ReportsTypeCorrect, PTL

-----------------------------------------------------------------------------
(* Reports made while entries come in *)

\* What the fuel of a listed trip costs: as it has been read, or as it would be now.
ReadOrNow == [i \in Journey |-> IF i \in report.todo THEN CostOf({i}) ELSE report.cost[i]]

\* No trip was read dearer than it is, and no entry is lost between the list and the reading.
Reading ==
    report.pc # "idle" =>
        /\ report.todo \subseteq report.trips
        /\ report.trips \subseteq Begun
        /\ report.pc = "done" => report.todo = {}
        /\ \A i \in report.trips : report.cost[i] <= CostOf({i})
        /\ report.atFirst <= SumFunctionOnSet(ReadOrNow, report.trips)

\* While the dashboard reads the month, the kilometres of today it has read are still there,
\* unless some were taken back.
TodayKm == SumTripKm(DayStart(summary.now \div DayTicks), summary.now)

TodayStands == summary.pc = "month" /\ ~summary.revised => summary.today <= TodayKm

\* A step adds trips and entries and removes none.
Accumulates ==
    /\ Begun \subseteq Begun'
    /\ \A i \in Begun : journeys'[i].start = journeys[i].start
    /\ Billed \subseteq Billed'
    /\ \A b \in Billed : bills'[b] = bills[b]

\* It takes no kilometres back.
Retains ==
    \A i \in Begun :
        journeys[i].completed => journeys'[i].completed /\ journeys[i].km <= journeys'[i].km

LEMMA AllAccumulate == ReportsTypeOK /\ [ReportsNext]_reportVars => Accumulates
<1> SUFFICES ASSUME ReportsTypeOK, [ReportsNext]_reportVars PROVE Accumulates
  OBVIOUS
<1>1. ASSUME NEW i \in Journey, NEW at \in Tick, BeginJourney(i, at) PROVE Accumulates
  <2>1. [start |-> at, completed |-> FALSE, km |-> 0] # NoJourney
    BY ReportConstants, TickIsNat DEF NoJourney
  <2>2. QED
    BY <1>1, <2>1 DEF BeginJourney, Accumulates, Begun, Billed, ReportsTypeOK
<1>2. ASSUME NEW i \in Journey, NEW km \in Distance, EndJourney(i, km) PROVE Accumulates
  <2>1. journeys' = [journeys EXCEPT ![i] = [@ EXCEPT !.completed = TRUE, !.km = km]]
    BY <1>2 DEF EndJourney, ReportsTypeOK
  <2>2. i \in Begun /\ journeys[i] \in JourneyRow
    BY <1>2, RowsThere DEF EndJourney
  <2>3. /\ journeys'[i].start = journeys[i].start /\ journeys'[i].completed
        /\ \A j \in Journey \ {i} : journeys'[j] = journeys[j]
    BY <2>1, <2>2 DEF ReportsTypeOK, JourneyRow
  <2>4. journeys'[i] # NoJourney
    BY <2>3 DEF NoJourney
  <2>5. QED
    BY <1>2, <2>2, <2>3, <2>4 DEF EndJourney, Accumulates, Begun, Billed
<1>3. ASSUME NEW b \in Bill, NEW i \in Journey, NEW at \in BillTick, AddBill(b, i, at)
      PROVE  Accumulates
  <2>1. i # Null
    BY ReportConstants
  <2>2. [trip |-> i, at |-> at] # NoBill
    BY <2>1 DEF NoBill
  <2>3. QED
    BY <1>3, <2>2 DEF AddBill, Accumulates, Begun, Billed, ReportsTypeOK
<1>4. CASE UNCHANGED <<journeys, bills>>
  BY <1>4 DEF Accumulates, Begun, Billed
<1>5. CASE UNCHANGED reportVars
  BY <1>4, <1>5 DEF reportVars
<1>6. ASSUME NEW i \in Journey, ReopenJourney(i) PROVE Accumulates
  <2>1. i \in Begun /\ journeys[i] \in JourneyRow
    BY <1>6, RowsThere DEF ReopenJourney
  <2>2. journeys'[i] = [journeys[i] EXCEPT !.completed = FALSE]
    BY <1>6 DEF ReopenJourney, ReportsTypeOK
  <2>3. journeys'[i].start = journeys[i].start /\ journeys'[i].start # Null
    BY <2>1, <2>2, ReportConstants, TickIsNat DEF JourneyRow
  <2>4. journeys'[i] # NoJourney /\ \A j \in Journey \ {i} : journeys'[j] = journeys[j]
    BY <1>6, <2>3 DEF ReopenJourney, ReportsTypeOK, NoJourney
  <2>5. QED
    BY <1>6, <2>1, <2>3, <2>4 DEF ReopenJourney, Accumulates, Begun, Billed
<1>7. CASE ReportsNext
  BY <1>1, <1>2, <1>3, <1>4, <1>6, <1>7 DEF ReportsNext, ReadTrip, GetDailyReport, GetCustomReport,
     GetMonthlyReport, List, ReadAggregate, FinishBreakdown, TakeReport, BeginSummary, ReadMonth,
     TakeSummary
<1>8. QED
  BY <1>5, <1>7

\* Between the two sums of a summary, kilometres are only taken back with a mark.
LEMMA UnmarkedRetains ==
    ASSUME ReportsTypeOK, [ReportsNext]_reportVars,
           summary.pc = "month", summary'.pc = "month", ~summary'.revised
    PROVE  Retains
<1> DEFINE Same(j) == journeys'[j] = journeys[j]
<1>1. \A j \in Begun : journeys[j].km \in Nat
  <2>1. Begun \subseteq Journey
    BY DEF Begun
  <2>2. QED
    BY <2>1, ReadsAreNat
<1>2. ASSUME NEW i \in Journey, NEW at \in Tick, BeginJourney(i, at) PROVE Retains
  <2>1. \A j \in Begun : Same(j)
    BY <1>2 DEF BeginJourney, Begun, ReportsTypeOK
  <2>2. QED
    BY <1>1, <2>1 DEF Retains
<1>3. ASSUME NEW i \in Journey, NEW km \in Distance, EndJourney(i, km) PROVE Retains
  <2>1. i \in Begun /\ journeys[i] \in JourneyRow
    BY <1>3, RowsThere DEF EndJourney
  <2>2. journeys' = [journeys EXCEPT ![i] = [@ EXCEPT !.completed = TRUE, !.km = km]]
    BY <1>3 DEF EndJourney, ReportsTypeOK
  <2>3. journeys'[i].completed /\ journeys'[i].km = km
    BY <2>1, <2>2 DEF ReportsTypeOK, JourneyRow
  <2>4. \A j \in Journey \ {i} : journeys'[j] = journeys[j]
    BY <2>2 DEF ReportsTypeOK
  <2>5. ~(journeys[i].completed /\ km < journeys[i].km)
    <3>1. (journeys[i].completed /\ km < journeys[i].km) \in BOOLEAN
      OBVIOUS
    <3>2. QED
      BY <1>3, <3>1, ReviseFacts DEF EndJourney
  <2>6. km \in Nat /\ Begun \subseteq Journey
    BY ReportConstants DEF Begun
  <2>7. QED
    BY <1>1, <2>3, <2>4, <2>5, <2>6 DEF Retains
<1>4. ASSUME NEW i \in Journey, ReopenJourney(i) PROVE FALSE
  BY <1>4, ReviseFacts DEF ReopenJourney
<1>5. CASE UNCHANGED journeys
  BY <1>5, <1>1 DEF Retains
<1>6. QED
  BY <1>2, <1>3, <1>4, <1>5 DEF ReportsNext, reportVars, AddBill, ReadTrip, GetDailyReport,
     GetCustomReport, GetMonthlyReport, List, ReadAggregate, FinishBreakdown, TakeReport,
     BeginSummary, ReadMonth, TakeSummary

LEMMA SumTripKmGrows ==
    ASSUME ReportsTypeOK, ReportsTypeOK', Accumulates, Retains, NEW a, NEW b
    PROVE  SumTripKm(a, b) <= SumTripKm(a, b)'
<1> DEFINE km == [i \in Journey |-> journeys[i].km]
           later == [i \in Journey |-> journeys'[i].km]
           S == TripsInRange(a, b)
           T == TripsInRange(a, b)'
<1>1. S \subseteq T
  BY DEF TripsInRange, Accumulates, Retains
<1>2. S \subseteq Journey /\ T \subseteq Journey /\ IsFiniteSet(S) /\ IsFiniteSet(T)
  <2>1. Begun \subseteq Journey /\ Begun' \subseteq Journey
    BY DEF Begun
  <2>2. QED
    BY <2>1, ReportConstants, FS_Subset DEF TripsInRange
<1>3. \A i \in T : later[i] \in Nat
  <2>1. \A i \in Journey : journeys'[i].km \in Nat
    BY ReportConstants DEF ReportsTypeOK, JourneyRow, NoJourney
  <2>2. QED
    BY <1>2, <2>1
<1>4. \A i \in S : km[i] \in Nat /\ later[i] \in Nat /\ km[i] <= later[i]
  BY <1>1, <1>2, <1>3, ReadsAreNat DEF TripsInRange, Retains
<1>5. SumFunctionOnSet(km, S) <= SumFunctionOnSet(later, S)
  <2> HIDE DEF km, later, S
  <2> QED BY <1>2, <1>4, SumMonotone
<1>6. SumFunctionOnSet(later, S) <= SumFunctionOnSet(later, T)
  <2> HIDE DEF later, S, T
  <2> QED BY <1>1, <1>2, <1>3, SumOfSubset
<1>7. SumTripKm(a, b) = SumFunctionOnSet(km, S) /\ SumTripKm(a, b)' = SumFunctionOnSet(later, T)
  BY DEF SumTripKm, KmOf
<1>8. /\ SumFunctionOnSet(km, S) \in Nat /\ SumFunctionOnSet(later, S) \in Nat
      /\ SumFunctionOnSet(later, T) \in Nat
  <2> HIDE DEF km, later, S, T
  <2> QED BY <1>2, <1>3, <1>4, SumIsOK DEF SumOK
<1>9. QED
  BY <1>5, <1>6, <1>7, <1>8

\* A longer range has more kilometres.
LEMMA SumTripKmWider ==
    ASSUME ReportsTypeOK, NEW a \in Int, NEW b \in Int, NEW to \in Int, a <= b
    PROVE  SumTripKm(b, to) <= SumTripKm(a, to)
<1> DEFINE km == [i \in Journey |-> journeys[i].km]
           S == TripsInRange(b, to)
           T == TripsInRange(a, to)
<1>1. S \subseteq T
  BY RowsThere DEF TripsInRange
<1>2. IsFiniteSet(T) /\ \A i \in T : km[i] \in Nat
  BY RangeIsBegun, RowsThere, ReadsAreNat
<1>3. SumFunctionOnSet(km, S) <= SumFunctionOnSet(km, T)
  <2> HIDE DEF km, S, T
  <2> QED BY <1>1, <1>2, SumOfSubset
<1>4. QED
  BY <1>3 DEF SumTripKm, KmOf

LEMMA SummaryBounds ==
    ASSUME ReportsTypeOK
    PROVE  /\ summary.now \in Int
           /\ DayStart(summary.now \div DayTicks) \in Int
           /\ MonthStart(MonthOf(summary.now, summary.zone), summary.zone) \in Int
<1>1. summary.now \in Int /\ summary.zone \in Int
  BY ReportConstants, TickIsNat DEF ReportsTypeOK, Summary
<1>2. MonthDays * DayTicks \in Nat \ {0}
  BY ReportConstants
<1>3. MonthOf(summary.now, summary.zone) \in Int
  BY <1>1, <1>2 DEF MonthOf
<1>4. QED
  BY <1>1, <1>3, ReportConstants DEF DayStart, MonthStart

TodayInv == TodayStands /\ TodayWithinMonth

LEMMA TodayKmNat == ReportsTypeOK => TodayKm \in Nat
  BY RangeIsBegun, RowsThere, ReadsAreNat DEF TodayKm, SumTripKm

LEMMA TodayKmNatNext == ReportsTypeOK' => TodayKm' \in Nat
<1> DEFINE Typed == TodayKm \in Nat
<1>1. ReportsTypeOK => Typed
  BY TodayKmNat
<1> HIDE DEF Typed
<1>2. ReportsTypeOK' => Typed'
  BY <1>1, PTL
<1>3. QED
  BY <1>2 DEF Typed

LEMMA TodayKmGrows ==
    ASSUME ReportsTypeOK, ReportsTypeOK', Accumulates, Retains, summary'.now = summary.now
    PROVE  TodayKm <= TodayKm'
<1>1. \A a, b : SumTripKm(a, b) <= SumTripKm(a, b)'
  BY SumTripKmGrows
<1>2. PICK a, b : a = DayStart(summary.now \div DayTicks) /\ b = summary.now
  OBVIOUS
<1>3. TodayKm = SumTripKm(a, b)
  BY <1>2 DEF TodayKm
<1>4. TodayKm' = SumTripKm(a, b)'
  BY <1>2 DEF TodayKm, DayStart, SumTripKm, TripsInRange
<1>5. QED
  BY <1>1, <1>3, <1>4

\* A step that only may mark the summary.
LEMMA MarkedStep ==
    ASSUME ReportsTypeOK, ReportsTypeOK', TodayInv, [ReportsNext]_reportVars,
           summary'.pc = summary.pc, summary'.now = summary.now, summary'.zone = summary.zone,
           summary'.today = summary.today, summary'.month = summary.month,
           summary.revised => summary'.revised
    PROVE  TodayInv'
<1>1. TodayKm \in Nat /\ TodayKm' \in Nat /\ summary.today \in Nat
  BY TodayKmNat, TodayKmNatNext DEF ReportsTypeOK, Summary
<1>2. TodayStands'
  <2> SUFFICES ASSUME summary'.pc = "month", ~summary'.revised PROVE summary.today <= TodayKm'
    BY DEF TodayStands
  <2>1. summary.today <= TodayKm
    BY DEF TodayInv, TodayStands
  <2>2. TodayKm <= TodayKm'
    BY AllAccumulate, UnmarkedRetains, TodayKmGrows
  <2>3. QED
    BY <1>1, <2>1, <2>2
<1>3. TodayWithinMonth'
  BY DEF TodayInv, TodayWithinMonth
<1>4. QED
  BY <1>2, <1>3 DEF TodayInv

LEMMA TodayStep ==
    ASSUME ReportsTypeOK, ReportsTypeOK', TodayInv, [ReportsNext]_reportVars
    PROVE  TodayInv'
<1>1. TodayKm \in Nat /\ TodayKm' \in Nat
  BY TodayKmNat, TodayKmNatNext
<1>2. summary.today \in Nat /\ summary.month \in Nat
  BY DEF ReportsTypeOK, Summary
<1>3. CASE UNCHANGED summary
  BY <1>3, MarkedStep
<1>4. ASSUME NEW i \in Journey, ReopenJourney(i) \/ \E km \in Distance : EndJourney(i, km)
      PROVE  TodayInv'
  <2>1. PICK back \in BOOLEAN : Revise(back)
    BY <1>4 DEF ReopenJourney, EndJourney
  <2>2. QED
    BY <2>1, ReviseFacts, MarkedStep
<1>5. ASSUME NEW now \in Tick, NEW zone \in Zones, BeginSummary(now, zone) PROVE TodayInv'
  <2>1. summary' = [pc |-> "month", now |-> now, zone |-> zone,
                    today |-> SumTripKm(DayStart(now \div DayTicks), now), month |-> 0,
                    revised |-> FALSE]
    BY <1>5 DEF BeginSummary
  <2>3. TodayKm' = SumTripKm(DayStart(now \div DayTicks), now)
    BY <1>5, <2>1 DEF BeginSummary, TodayKm, SumTripKm, KmOf, TripsInRange, Begun, DayStart
  <2>4. TodayStands' /\ TodayWithinMonth'
    BY <1>1, <2>1, <2>3 DEF TodayStands, TodayWithinMonth
  <2>5. QED
    BY <2>4 DEF TodayInv
<1>6. CASE ReadMonth
  <2> DEFINE from == DayStart(summary.now \div DayTicks)
             month == MonthStart(MonthOf(summary.now, summary.zone), summary.zone)
  <2>1. /\ summary.pc = "month"
        /\ summary' = [summary EXCEPT !.pc = "done", !.month = SumTripKm(month, summary.now)]
    BY <1>6 DEF ReadMonth
  <2>2. /\ summary'.pc = "done" /\ summary'.today = summary.today
        /\ summary'.now = summary.now /\ summary'.zone = summary.zone
        /\ summary'.month = SumTripKm(month, summary.now)
        /\ summary'.revised = summary.revised
    BY <2>1 DEF ReportsTypeOK, Summary
  <2>3. ~summary.revised => summary.today <= SumTripKm(from, summary.now)
    BY <2>1 DEF TodayInv, TodayStands, TodayKm
  <2>4. month <= from => SumTripKm(from, summary.now) <= SumTripKm(month, summary.now)
    BY SummaryBounds, SumTripKmWider
  <2>5. SumTripKm(from, summary.now) \in Nat /\ SumTripKm(month, summary.now) \in Nat
    BY RangeIsBegun, RowsThere, ReadsAreNat DEF SumTripKm
  <2>6. from \in Int /\ month \in Int
    BY SummaryBounds
  <2>7. summary.today <= SumTripKm(month, summary.now) \/ summary.revised \/ month > from
    <3> HIDE DEF from, month
    <3> QED BY <1>2, <2>3, <2>4, <2>5, <2>6
  <2>8. TodayWithinMonth'
    BY <2>2, <2>7 DEF TodayWithinMonth, MonthStart, MonthOf, DayStart
  <2>9. QED
    BY <2>2, <2>8 DEF TodayInv, TodayStands
<1>7. CASE TakeSummary
  BY <1>7 DEF TakeSummary, TodayInv, TodayStands, TodayWithinMonth, NoSummary
<1>8. QED
  BY <1>3, <1>5, <1>6, <1>7, <1>4 DEF ReportsNext, reportVars, BeginJourney, AddBill, ReadTrip,
     GetDailyReport, GetCustomReport, GetMonthlyReport, List, ReadAggregate, FinishBreakdown, TakeReport

\* However many trips are completed between the dashboard's two queries, today shows more
\* kilometres than the month only when some were taken back in between, or when the server's
\* clock entered the month after the UTC day began (DashboardService.getSummary).
THEOREM TodayWithinMonthHolds == ReportsSpec => []TodayWithinMonth
<1>1. ReportsInit => TodayInv
  BY DEF ReportsInit, NoSummary, TodayInv, TodayStands, TodayWithinMonth
<1>2. ReportsTypeOK /\ TodayInv /\ [ReportsNext]_reportVars => TodayInv'
  BY ReportsStepOK, TodayStep
<1>3. TodayInv => TodayWithinMonth
  BY DEF TodayInv
<1>4. QED
  BY <1>1, <1>2, <1>3, ReportsTypeCorrect, PTL DEF ReportsSpec

CostOfEach == [i \in Journey |-> CostOf({i})]

\* The fuel of a set of trips costs what the fuel of each costs.
LEMMA CostIsSum ==
    ASSUME ReportsTypeOK, NEW S \in SUBSET Journey
    PROVE  CostOf(S) = SumFunctionOnSet(CostOfEach, S)
<1> DEFINE trip == [b \in Billed |-> bills[b].trip]
<1>1. IsFiniteSet(Billed) /\ IsFiniteSet(S)
  BY ReadsAreNat
<1>2. CountsByKey(Billed, S, trip, CostOfEach)
  <2>1. \A i \in S : CostOfEach[i] = CostOf({i})
    BY DEF CostOfEach
  <2>2. \A i \in S : {b \in Billed : bills[b].trip \in {i}} = WithKey(Billed, trip, i)
    BY DEF WithKey
  <2>3. QED
    BY <2>1, <2>2, Zenon DEF CostOf, CountsByKey
<1>3. SumFunctionOnSet(CostOfEach, S) = Cardinality({b \in Billed : trip[b] \in S})
  <2> HIDE DEF trip
  <2> QED BY <1>1, <1>2, CountByKey
<1>4. {b \in Billed : trip[b] \in S} = {b \in Billed : bills[b].trip \in S}
  OBVIOUS
<1>5. QED
  BY <1>3, <1>4, Zenon DEF CostOf

\* Entries only come.
LEMMA CostGrows ==
    ASSUME ReportsTypeOK, ReportsTypeOK', Accumulates, NEW S
    PROVE  CostOf(S) \in Nat /\ CostOf(S)' \in Nat /\ CostOf(S) <= CostOf(S)'
<1> DEFINE before == {b \in Billed : bills[b].trip \in S}
           after == {b \in Billed' : bills'[b].trip \in S}
<1>1. before \in SUBSET after
  BY DEF Accumulates
<1>2. IsFiniteSet(after)
  <2>1. Billed' \subseteq Bill
    BY DEF Billed
  <2>2. after \in SUBSET Bill
    BY <2>1
  <2> HIDE DEF after
  <2>3. QED
    BY <2>2, ReportConstants, FS_Subset
<1>3. IsFiniteSet(before) /\ Cardinality(before) <= Cardinality(after)
  <2> HIDE DEF before, after
  <2> QED BY <1>1, <1>2, FS_Subset
<1>4. Cardinality(before) \in Nat /\ Cardinality(after) \in Nat
  <2> HIDE DEF before, after
  <2> QED BY <1>2, <1>3, FS_CardinalityType
<1>5. CostOf(S) = Cardinality(before) /\ CostOf(S)' = Cardinality(after)
  BY DEF CostOf
<1>6. QED
  BY <1>3, <1>4, <1>5

LEMMA ReadOrNowNat ==
    ASSUME ReportsTypeOK, NEW S \in SUBSET Journey
    PROVE  /\ \A i \in Journey : ReadOrNow[i] \in Nat /\ CostOfEach[i] \in Nat
           /\ IsFiniteSet(S)
           /\ SumFunctionOnSet(ReadOrNow, S) \in Nat
           /\ SumFunctionOnSet(CostOfEach, S) \in Nat
<1>1. \A i \in Journey : ReadOrNow[i] \in Nat /\ CostOfEach[i] \in Nat
  BY ReadsAreNat DEF ReadOrNow, CostOfEach, ReportsTypeOK, Report
<1>2. IsFiniteSet(S)
  BY ReadsAreNat
<1>3. QED
  BY <1>1, <1>2, SumIsOK DEF SumOK

LEMMA ListReads ==
    ASSUME ReportsTypeOK, ReportsTypeOK', NEW S \in SUBSET Begun,
           NEW pc \in {"breakdown", "aggregate"}, List(S, pc)
    PROVE  Reading'
<1>1. /\ report'.pc = pc /\ report'.trips = S /\ report'.todo = S /\ report'.atFirst = CostOf(S)
      /\ \A i \in Journey : report'.cost[i] = 0
      /\ Begun' = Begun /\ Billed' = Billed /\ bills' = bills
  BY DEF List, Begun, Billed
<1>2. S \in SUBSET Journey
  BY RowsThere
<1>3. \A T : CostOf(T)' = CostOf(T)
  BY <1>1 DEF CostOf
<1>4. \A i \in Journey : i \in S => ReadOrNow'[i] = CostOfEach[i]
  BY <1>1, <1>3 DEF ReadOrNow, CostOfEach
<1>5. SumFunctionOnSet(CostOfEach, S) = SumFunctionOnSet(ReadOrNow', S)
  BY <1>2, <1>4, ReadOrNowNat, SumCongruent
<1>6. report'.atFirst <= SumFunctionOnSet(ReadOrNow', S)
  BY <1>1, <1>2, <1>5, CostIsSum, ReadsAreNat
<1>7. \A i \in S : report'.cost[i] <= CostOf({i})'
  BY <1>1, <1>2, <1>3, ReadsAreNat
<1>8. QED
  BY <1>1, <1>6, <1>7 DEF Reading

\* Reading a cost, all costs, or none, while entries come in.
LEMMA ReadingStands ==
    ASSUME ReportsTypeOK, ReportsTypeOK', Reading, Accumulates,
           report'.pc # "idle" => report.pc # "idle",
           report'.trips = report.trips, report'.atFirst = report.atFirst,
           report'.todo \subseteq report.todo,
           report'.pc = "done" => report'.todo = {},
           \A i \in report.trips :
               \/ report'.cost[i] = report.cost[i] /\ (i \in report'.todo <=> i \in report.todo)
               \/ report'.cost[i] = CostOf({i}) /\ i \notin report'.todo
    PROVE  Reading'
<1> SUFFICES ASSUME report'.pc # "idle" PROVE Reading'
  BY DEF Reading
<1> DEFINE S == report.trips
<1>1. S \in SUBSET Journey /\ S \subseteq Begun' /\ report'.todo \subseteq S
  BY RowsThere DEF Reading, Accumulates
<1>2. ASSUME NEW i \in S
      PROVE  /\ report'.cost[i] <= CostOf({i})'
             /\ ReadOrNow[i] \in Nat /\ ReadOrNow'[i] \in Nat
             /\ ReadOrNow[i] <= ReadOrNow'[i]
  <2> DEFINE now == CostOf({i})
             next == CostOf({i})'
  <2>1. now \in Nat /\ next \in Nat /\ now <= next
    BY CostGrows
  <2>2. report.cost[i] \in Nat /\ report.cost[i] <= now
    BY <1>1 DEF Reading, ReportsTypeOK, Report
  <2>3. /\ ReadOrNow[i] = IF i \in report.todo THEN now ELSE report.cost[i]
        /\ ReadOrNow'[i] = IF i \in report'.todo THEN next ELSE report'.cost[i]
    BY <1>1 DEF ReadOrNow
  <2>4. \/ report'.cost[i] = report.cost[i] /\ (i \in report'.todo <=> i \in report.todo)
        \/ report'.cost[i] = now /\ i \notin report'.todo
    OBVIOUS
  <2>5. report'.cost[i] <= next
    <3> HIDE DEF now, next
    <3> QED BY <2>1, <2>2, <2>4
  <2>6. ReadOrNow[i] \in Nat /\ ReadOrNow'[i] \in Nat /\ ReadOrNow[i] <= ReadOrNow'[i]
    <3> HIDE DEF now, next
    <3> QED BY <2>1, <2>2, <2>3, <2>4
  <2>7. QED
    BY <2>5, <2>6
<1>4. \A i \in S : report'.cost[i] <= CostOf({i})'
  BY <1>2
<1>5. \A i \in S : /\ ReadOrNow[i] \in Nat /\ ReadOrNow'[i] \in Nat
                   /\ ReadOrNow[i] <= ReadOrNow'[i]
  BY <1>2
<1>6. /\ SumFunctionOnSet(ReadOrNow, S) \in Nat /\ SumFunctionOnSet(ReadOrNow', S) \in Nat
      /\ SumFunctionOnSet(ReadOrNow, S) <= SumFunctionOnSet(ReadOrNow', S)
  <2>1. IsFiniteSet(S)
    BY <1>1, ReadsAreNat
  <2>2. QED
    BY <1>5, <2>1, SumMonotone, SumIsOK DEF SumOK
<1>7. report.atFirst <= SumFunctionOnSet(ReadOrNow', S)
  <2>1. report.atFirst \in Nat /\ report.atFirst <= SumFunctionOnSet(ReadOrNow, S)
    BY DEF Reading, ReportsTypeOK, Report
  <2>2. QED
    BY <1>6, <2>1
<1>8. QED
  BY <1>1, <1>4, <1>7 DEF Reading

LEMMA ReadingStep ==
    ASSUME ReportsTypeOK, ReportsTypeOK', Reading, [ReportsNext]_reportVars
    PROVE  Reading'
<1>1. Accumulates
  BY AllAccumulate
<1>2. CASE UNCHANGED report
  BY <1>1, <1>2, ReadingStands DEF Reading
<1>3. CASE \E i \in Journey : ReadTrip(i)
  <2>1. PICK i \in Journey : ReadTrip(i)
    BY <1>3
  <2>2. /\ report.pc = "breakdown" /\ report'.pc = "breakdown"
        /\ report'.trips = report.trips /\ report'.atFirst = report.atFirst
        /\ report'.todo = report.todo \ {i} /\ report'.cost[i] = CostOf({i})
        /\ \A j \in Journey \ {i} : report'.cost[j] = report.cost[j]
        /\ report.trips \subseteq Journey
    BY <2>1 DEF ReadTrip, ReportsTypeOK, Report
  <2>3. QED
    BY <1>1, <2>2, ReadingStands
<1>4. CASE ReadAggregate
  <2>1. /\ report.pc = "aggregate" /\ report'.pc = "done"
        /\ report'.trips = report.trips /\ report'.atFirst = report.atFirst /\ report'.todo = {}
        /\ \A i \in report.trips : report'.cost[i] = CostOf({i})
    BY <1>4 DEF ReadAggregate, ReportsTypeOK, Report
  <2>2. QED
    BY <1>1, <2>1, ReadingStands
<1>5. CASE FinishBreakdown
  <2>1. /\ report.pc = "breakdown" /\ report'.pc = "done" /\ report.todo = {}
        /\ report'.trips = report.trips /\ report'.atFirst = report.atFirst
        /\ report'.todo = report.todo /\ report'.cost = report.cost
    BY <1>5 DEF FinishBreakdown, ReportsTypeOK, Report
  <2>2. QED
    BY <1>1, <2>1, ReadingStands
<1>6. CASE TakeReport
  BY <1>6 DEF TakeReport, NoReport, Reading
<1>7. CASE \/ \E d \in Day : GetDailyReport(d)
           \/ \E from, to \in Day : GetCustomReport(from, to)
           \/ \E m \in Month, zone \in Zones : GetMonthlyReport(m, zone)
  BY <1>7, ListSteps, ListReads
<1>8. QED
  BY <1>2, <1>3, <1>4, <1>5, <1>6, <1>7 DEF ReportsNext, reportVars, BeginJourney, EndJourney,
     ReopenJourney, AddBill, BeginSummary, ReadMonth, TakeSummary

\* The fuel cost a report shows is that of its trips, whatever dates its breakdown has.
LEMMA ReportedIsSum ==
    ASSUME ReportsTypeOK, Reading, report.pc = "done"
    PROVE  ReportedCost = SumFunctionOnSet(report.cost, report.trips)
<1> DEFINE S == report.trips
           Dates == {DateKey(i) : i \in S}
           h == [d \in Dates |-> SumFunctionOnSet(report.cost, {i \in S : DateKey(i) = d})]
<1>1. S \subseteq Begun /\ S \in SUBSET Journey /\ IsFiniteSet(S) /\ \A i \in S : report.cost[i] \in Nat
  BY RowsThere, ReadsAreNat DEF Reading, ReportsTypeOK, Report
<1>2. ASSUME NEW i \in S PROVE DateKey(i) \in 0 .. Days - 1
  <2>1. journeys[i].start \in 0 .. Days * DayTicks - 1
    BY <1>1, RowsThere DEF JourneyRow, Tick
  <2>2. journeys[i].start \in 0 * DayTicks .. ((Days - 1) + 1) * DayTicks - 1
    BY <2>1, ReportConstants
  <2>3. QED
    BY <2>1, <2>2, DatesOfRange, ReportConstants DEF DateKey
<1>3. IsFiniteSet(Dates)
  <2>1. Dates \in SUBSET (0 .. Days - 1)
    BY <1>2
  <2>2. Days - 1 \in Int
    BY ReportConstants
  <2>3. IsFiniteSet(0 .. Days - 1)
    BY <2>2, FS_Interval
  <2> HIDE DEF Dates
  <2>4. QED
    BY <2>1, <2>3, FS_Subset
<1>4. \A i \in S : DateKey(i) \in Dates
  OBVIOUS
<1>5. SumFunction(h) = SumFunctionOnSet(report.cost, S)
  <2> HIDE DEF S, Dates
  <2> QED BY <1>1, <1>3, <1>4, SumByDate
<1>6. ReportedCost = SumFunction(h)
  BY DEF ReportedCost, CostOfDay
<1>7. QED
  BY <1>5, <1>6

\* A finished report is true of some moment while it was made, for any number of trips and
\* of entries that come in between its queries (buildDailyBreakdown, getDailyReport).
THEOREM ReportBracketedHolds == ReportsSpec => []ReportBracketed
<1>1. ReportsInit => Reading
  BY DEF ReportsInit, NoReport, Reading
<1>2. ReportsTypeOK /\ Reading /\ [ReportsNext]_reportVars => Reading'
  BY ReportsStepOK, ReadingStep
<1>3. ReportsTypeOK /\ Reading => ReportBracketed
  <2> SUFFICES ASSUME ReportsTypeOK, Reading, report.pc = "done"
               PROVE  report.atFirst <= ReportedCost /\ ReportedCost <= CostOf(report.trips)
    BY DEF ReportBracketed
  <2> DEFINE S == report.trips
  <2>1. S \in SUBSET Journey /\ report.todo = {} /\ \A i \in S : report.cost[i] <= CostOf({i})
    BY RowsThere DEF Reading
  <2>2. \A i \in S : /\ ReadOrNow[i] = report.cost[i] /\ ReadOrNow[i] <= CostOfEach[i]
                     /\ ReadOrNow[i] \in Nat /\ CostOfEach[i] \in Nat
    BY <2>1, ReadOrNowNat DEF ReadOrNow, CostOfEach
  <2>3. ReportedCost = SumFunctionOnSet(ReadOrNow, S)
    <3>1. SumFunctionOnSet(report.cost, S) = SumFunctionOnSet(ReadOrNow, S)
      <4>1. IsFiniteSet(S) /\ \A i \in S : report.cost[i] \in Nat
        BY <2>1, <2>2, ReadsAreNat
      <4>2. QED
        BY <2>2, <4>1, SumCongruent
    <3>2. QED
      BY <3>1, ReportedIsSum
  <2>4. SumFunctionOnSet(ReadOrNow, S) <= SumFunctionOnSet(CostOfEach, S)
    BY <2>1, <2>2, ReadsAreNat, SumMonotone
  <2>5. report.atFirst <= SumFunctionOnSet(ReadOrNow, S)
    BY DEF Reading
  <2>6. CostOf(S) = SumFunctionOnSet(CostOfEach, S)
    BY <2>1, CostIsSum
  <2>7. QED
    BY <2>3, <2>4, <2>5, <2>6
<1>4. QED
  BY <1>1, <1>2, <1>3, ReportsTypeCorrect, PTL DEF ReportsSpec

=============================================================================
