----------------------------- MODULE SumProofs -----------------------------
(***************************************************************************)
(* Sums over finite sets of rows: what "SELECT SUM(amount) ... WHERE" is   *)
(* in the models.  SumFunctionOnSet (module Functions) picks the elements  *)
(* one by one, in an order that nothing is known about; these lemmas say   *)
(* that the order does not matter and what one changed row does to a sum.  *)
(*                                                                         *)
(* The induction is over the subsets of a finite set, by a smallest one    *)
(* that is missing from the set F of those for which the fact holds.       *)
(***************************************************************************)
EXTENDS FiniteSetTheorems, TLAPS

\* What holds of a finite set whenever it holds of its proper subsets, holds of
\* it: F is the set of the subsets of which it holds.
LEMMA SubsetInduction ==
    ASSUME NEW S, IsFiniteSet(S), NEW F,
           \A T \in SUBSET S : (\A U \in SUBSET T : U # T => U \in F) => T \in F
    PROVE  S \in F
<1> SUFFICES ASSUME S \notin F PROVE FALSE
    OBVIOUS
<1> DEFINE missing == {T \in SUBSET S : T \notin F}
<1>1. SUBSET S \subseteq FiniteSubsetsOf(S)
    BY FS_Subset DEF FiniteSubsetsOf
<1>2. PICK T \in missing : \A U \in missing : ~(<<U, T>> \in StrictSubsetOrdering(S))
  <2>1. IsWellFoundedOn(StrictSubsetOrdering(S), FiniteSubsetsOf(S))
      BY FS_StrictSubsetOrderingWellFounded
  <2>2. missing \subseteq FiniteSubsetsOf(S) /\ missing # {}
      BY <1>1
  <2> HIDE DEF missing
  <2> QED
      BY ONLY <2>1, <2>2, WFMin
<1>3. ASSUME NEW U \in SUBSET T, U # T PROVE U \in F
    BY <1>2, <1>3 DEF StrictSubsetOrdering
<1> QED
    BY <1>2, <1>3
-----------------------------------------------------------------------------
(* The recursion equation                                                  *)

\* The element that the sum takes first.
First(S) == CHOOSE x \in S : TRUE

\* total sums f over every subset of S.
Totals(f, S, total) ==
    total = [T \in SUBSET S |-> IF T = {} THEN 0 ELSE f[First(T)] + total[T \ {First(T)}]]

\* The fold of the community modules chooses such a function.
LEMMA SumIsTotal ==
    ASSUME NEW f, NEW S
    PROVE  SumFunctionOnSet(f, S) = (CHOOSE total : Totals(f, S, total))[S]
BY DEF SumFunctionOnSet, FoldFunctionOnSet, MapThenFoldSet, Totals, First

\* The recursion equation of a function that totals.
LEMMA TotalsValue ==
    ASSUME NEW f, NEW S, NEW total, Totals(f, S, total), NEW T \in SUBSET S
    PROVE  total[T] = IF T = {} THEN 0 ELSE f[First(T)] + total[T \ {First(T)}]
BY DEF Totals

\* Functions that total f agree on the finite sets on which both are defined.
LEMMA TotalsAgree ==
    ASSUME NEW f, NEW S, NEW T, NEW left, Totals(f, S, left), NEW right, Totals(f, T, right),
           NEW R, R \subseteq S, R \subseteq T, IsFiniteSet(R)
    PROVE  left[R] = right[R]
<1> DEFINE F == {U \in SUBSET R : left[U] = right[U]}
<1>1. ASSUME NEW U \in SUBSET R, \A V \in SUBSET U : V # U => V \in F
      PROVE  U \in F
  <2>1. U \in SUBSET S /\ U \in SUBSET T
    OBVIOUS
  <2>2. left[U] = IF U = {} THEN 0 ELSE f[First(U)] + left[U \ {First(U)}]
    BY ONLY <2>1, Totals(f, S, left), TotalsValue
  <2>3. right[U] = IF U = {} THEN 0 ELSE f[First(U)] + right[U \ {First(U)}]
    BY ONLY <2>1, Totals(f, T, right), TotalsValue
  <2>4. CASE U # {}
    <3>1. First(U) \in U
      BY <2>4 DEF First
    <3>2. left[U \ {First(U)}] = right[U \ {First(U)}]
      BY <1>1, <3>1
    <3> QED BY <2>2, <2>3, <3>2
  <2> QED BY <2>2, <2>3, <2>4
<1> HIDE DEF F
<1>2. R \in F
  BY <1>1, SubsetInduction
<1> QED BY <1>2 DEF F

\* A function that totals f over a finite set exists.
LEMMA TotalsExist ==
    ASSUME NEW f, NEW S, IsFiniteSet(S)
    PROVE  \E total : Totals(f, S, total)
<1> DEFINE F == {T \in SUBSET S : \E total : Totals(f, T, total)}
<1>1. ASSUME NEW T \in SUBSET S, \A U \in SUBSET T : U # T => U \in F
      PROVE  T \in F
  <2> DEFINE of(U) == CHOOSE total : Totals(f, U, total)
             value(U) == IF U = {} THEN 0
                         ELSE f[First(U)] + of(U \ {First(U)})[U \ {First(U)}]
             sums == [U \in SUBSET T |-> value(U)]
  <2>1. ASSUME NEW U \in SUBSET T, U # T PROVE Totals(f, U, of(U))
    BY <1>1, <2>1
  <2> HIDE DEF of
  <2>2. ASSUME NEW U \in SUBSET T, U # T PROVE of(U)[U] = value(U)
    <3>1. of(U)[U] = IF U = {} THEN 0 ELSE f[First(U)] + of(U)[U \ {First(U)}]
      BY <2>1, <2>2, TotalsValue
    <3>2. CASE U # {}
      <4>1. First(U) \in U
        BY <3>2 DEF First
      <4>2. Totals(f, U, of(U)) /\ Totals(f, U \ {First(U)}, of(U \ {First(U)}))
        BY <2>1, <2>2, <4>1
      <4>3. IsFiniteSet(U \ {First(U)})
        BY FS_Subset
      <4>4. of(U)[U \ {First(U)}] = of(U \ {First(U)})[U \ {First(U)}]
        BY <4>2, <4>3, TotalsAgree
      <4> QED BY <3>1, <4>4
    <3> QED BY <3>1, <3>2
  <2>3. ASSUME NEW U \in SUBSET T
        PROVE  value(U) = IF U = {} THEN 0 ELSE f[First(U)] + sums[U \ {First(U)}]
    <3>1. CASE U # {}
      <4>1. First(U) \in U
        BY <3>1 DEF First
      <4>2. sums[U \ {First(U)}] = value(U \ {First(U)})
        OBVIOUS
      <4>3. of(U \ {First(U)})[U \ {First(U)}] = value(U \ {First(U)})
        BY <2>2, <4>1
      <4> QED BY <4>2, <4>3
    <3> QED BY <3>1
  <2> HIDE DEF value
  <2>4. Totals(f, T, sums)
    BY <2>3 DEF Totals
  <2> QED BY <2>4
<1> HIDE DEF F
<1>2. S \in F
  BY <1>1, SubsetInduction
<1> QED BY <1>2 DEF F

\* The sum of nothing is 0; otherwise the sum takes an element and goes on
\* with the rest.
LEMMA SumStep ==
    ASSUME NEW f, NEW S, IsFiniteSet(S)
    PROVE  SumFunctionOnSet(f, S) =
            IF S = {} THEN 0 ELSE f[First(S)] + SumFunctionOnSet(f, S \ {First(S)})
<1> DEFINE of(T) == CHOOSE total : Totals(f, T, total)
<1>1. ASSUME NEW T \in SUBSET S PROVE Totals(f, T, of(T))
  BY FS_Subset, TotalsExist
<1>2. \A T : SumFunctionOnSet(f, T) = of(T)[T]
  BY SumIsTotal
<1> HIDE DEF of
<1>3. of(S)[S] = IF S = {} THEN 0 ELSE f[First(S)] + of(S)[S \ {First(S)}]
  BY <1>1, TotalsValue
<1>4. of(S)[S \ {First(S)}] = of(S \ {First(S)})[S \ {First(S)}]
  <2>1. IsFiniteSet(S \ {First(S)})
    BY FS_Subset
  <2> QED BY <1>1, <2>1, TotalsAgree
<1> QED BY <1>2, <1>3, <1>4
-----------------------------------------------------------------------------
(* Arithmetic                                                              *)

\* A set that is not empty has a first element.
LEMMA FirstIn ==
    ASSUME NEW S, S # {}
    PROVE  First(S) \in S
BY DEF First

\* The sum over no rows is 0 (coalesce in get_user_balance).
LEMMA SumOfNothing ==
    ASSUME NEW f
    PROVE  SumFunctionOnSet(f, {}) = 0
BY FS_EmptySet, SumStep

\* A sum of integers is an integer.
LEMMA SumInt ==
    ASSUME NEW f, NEW S, IsFiniteSet(S), \A x \in S : f[x] \in Int
    PROVE  SumFunctionOnSet(f, S) \in Int
<1> DEFINE F == {T \in SUBSET S : SumFunctionOnSet(f, T) \in Int}
<1>1. ASSUME NEW T \in SUBSET S, \A U \in SUBSET T : U # T => U \in F
      PROVE  T \in F
  <2>1. SumFunctionOnSet(f, T) =
            IF T = {} THEN 0 ELSE f[First(T)] + SumFunctionOnSet(f, T \ {First(T)})
    BY FS_Subset, SumStep
  <2>2. CASE T # {}
    <3>1. First(T) \in T /\ T \ {First(T)} \in F
      BY <1>1, <2>2, FirstIn
    <3> QED BY <2>1, <2>2, <3>1
  <2> QED BY <2>1, <2>2
<1> HIDE DEF F
<1>2. S \in F
  BY <1>1, SubsetInduction
<1> QED BY <1>2 DEF F

\* A sum without negative parts is not negative.
LEMMA SumNat ==
    ASSUME NEW f, NEW S, IsFiniteSet(S), \A x \in S : f[x] \in Nat
    PROVE  SumFunctionOnSet(f, S) \in Nat
<1> DEFINE F == {T \in SUBSET S : SumFunctionOnSet(f, T) \in Nat}
<1>1. ASSUME NEW T \in SUBSET S, \A U \in SUBSET T : U # T => U \in F
      PROVE  T \in F
  <2>1. SumFunctionOnSet(f, T) =
            IF T = {} THEN 0 ELSE f[First(T)] + SumFunctionOnSet(f, T \ {First(T)})
    BY FS_Subset, SumStep
  <2>2. CASE T # {}
    <3>1. First(T) \in T /\ T \ {First(T)} \in F
      BY <1>1, <2>2, FirstIn
    <3> QED BY <2>1, <2>2, <3>1
  <2> QED BY <2>1, <2>2
<1> HIDE DEF F
<1>2. S \in F
  BY <1>1, SubsetInduction
<1> QED BY <1>2 DEF F

\* Zeros sum up to zero.
LEMMA SumZero ==
    ASSUME NEW f, NEW S, IsFiniteSet(S), \A x \in S : f[x] = 0
    PROVE  SumFunctionOnSet(f, S) = 0
<1> DEFINE F == {T \in SUBSET S : SumFunctionOnSet(f, T) = 0}
<1>1. ASSUME NEW T \in SUBSET S, \A U \in SUBSET T : U # T => U \in F
      PROVE  T \in F
  <2>1. SumFunctionOnSet(f, T) =
            IF T = {} THEN 0 ELSE f[First(T)] + SumFunctionOnSet(f, T \ {First(T)})
    BY FS_Subset, SumStep
  <2>2. CASE T # {}
    <3>1. First(T) \in T /\ T \ {First(T)} \in F
      BY <1>1, <2>2, FirstIn
    <3> QED BY <2>1, <2>2, <3>1
  <2> QED BY <2>1, <2>2
<1> HIDE DEF F
<1>2. S \in F
  BY <1>1, SubsetInduction
<1> QED BY <1>2 DEF F

\* Functions that agree on a set have the same sum over it.
LEMMA SumSame ==
    ASSUME NEW f, NEW g, NEW S, IsFiniteSet(S), \A x \in S : f[x] = g[x]
    PROVE  SumFunctionOnSet(f, S) = SumFunctionOnSet(g, S)
<1> DEFINE F == {T \in SUBSET S : SumFunctionOnSet(f, T) = SumFunctionOnSet(g, T)}
<1>1. ASSUME NEW T \in SUBSET S, \A U \in SUBSET T : U # T => U \in F
      PROVE  T \in F
  <2>1. IsFiniteSet(T)
    BY FS_Subset
  <2>2. /\ SumFunctionOnSet(f, T) =
            IF T = {} THEN 0 ELSE f[First(T)] + SumFunctionOnSet(f, T \ {First(T)})
        /\ SumFunctionOnSet(g, T) =
            IF T = {} THEN 0 ELSE g[First(T)] + SumFunctionOnSet(g, T \ {First(T)})
    BY <2>1, SumStep
  <2>3. CASE T # {}
    <3>1. First(T) \in T /\ T \ {First(T)} \in F
      BY <1>1, <2>3, FirstIn
    <3> QED BY <2>2, <2>3, <3>1
  <2> QED BY <2>2, <2>3
<1> HIDE DEF F
<1>2. S \in F
  BY <1>1, SubsetInduction
<1> QED BY <1>2 DEF F

\* The sum of two columns is the sum of their sums.
LEMMA SumAdds ==
    ASSUME NEW f, NEW g, NEW h, NEW S, IsFiniteSet(S),
           \A x \in S : f[x] \in Int /\ g[x] \in Int /\ h[x] = f[x] + g[x]
    PROVE  SumFunctionOnSet(h, S) = SumFunctionOnSet(f, S) + SumFunctionOnSet(g, S)
<1> DEFINE sum(c, T) == SumFunctionOnSet(c, T)
           F == {T \in SUBSET S : sum(h, T) = sum(f, T) + sum(g, T)}
<1>1. ASSUME NEW T \in SUBSET S, \A U \in SUBSET T : U # T => U \in F
      PROVE  T \in F
  <2>1. IsFiniteSet(T)
    BY FS_Subset
  <2>2. CASE T = {}
    <3>1. sum(h, {}) = 0 /\ sum(f, {}) = 0 /\ sum(g, {}) = 0
      BY SumOfNothing
    <3> QED BY <2>2, <3>1
  <2>3. CASE T # {}
    <3> DEFINE first == First(T)
               rest == T \ {first}
    <3>1. first \in T /\ rest \in F
      BY <1>1, <2>3, FirstIn
    <3>2. /\ sum(h, T) = h[first] + sum(h, rest)
          /\ sum(f, T) = f[first] + sum(f, rest)
          /\ sum(g, T) = g[first] + sum(g, rest)
      BY <2>1, <2>3, SumStep
    <3>3. sum(f, rest) \in Int /\ sum(g, rest) \in Int
      <4>1. IsFiniteSet(rest) /\ \A x \in rest : f[x] \in Int /\ g[x] \in Int
        BY FS_Subset
      <4> QED BY <4>1, SumInt
    <3>4. f[first] \in Int /\ g[first] \in Int /\ h[first] = f[first] + g[first]
      BY <3>1
    <3>5. sum(h, rest) = sum(f, rest) + sum(g, rest)
      BY <3>1
    <3> HIDE DEF sum, first, rest
    <3> QED BY <3>2, <3>3, <3>4, <3>5
  <2> QED BY <2>2, <2>3
<1> HIDE DEF F
<1>2. S \in F
  BY <1>1, SubsetInduction
<1> QED BY <1>2 DEF F

\* Any element may be taken first.
LEMMA SumTakes ==
    ASSUME NEW f, NEW S, IsFiniteSet(S), \A x \in S : f[x] \in Int, NEW y \in S
    PROVE  SumFunctionOnSet(f, S) = f[y] + SumFunctionOnSet(f, S \ {y})
<1> DEFINE F == {T \in SUBSET S :
        \A x \in T : SumFunctionOnSet(f, T) = f[x] + SumFunctionOnSet(f, T \ {x})}
<1>1. ASSUME NEW T \in SUBSET S, \A U \in SUBSET T : U # T => U \in F
      PROVE  T \in F
  <2> SUFFICES ASSUME NEW x \in T
               PROVE  SumFunctionOnSet(f, T) = f[x] + SumFunctionOnSet(f, T \ {x})
    OBVIOUS
  <2> DEFINE first == First(T)
  <2>1. first \in T
    BY FirstIn
  <2>2. SumFunctionOnSet(f, T) = f[first] + SumFunctionOnSet(f, T \ {first})
    BY FS_Subset, SumStep
  <2>3. CASE x # first
    <3>1. T \ {first} \in F /\ T \ {x} \in F
      BY <1>1, <2>1
    <3>2. SumFunctionOnSet(f, T \ {first}) =
            f[x] + SumFunctionOnSet(f, (T \ {first}) \ {x})
      BY <2>3, <3>1
    <3>3. SumFunctionOnSet(f, T \ {x}) =
            f[first] + SumFunctionOnSet(f, (T \ {x}) \ {first})
      BY <2>1, <2>3, <3>1
    <3>4. SumFunctionOnSet(f, (T \ {first}) \ {x}) = SumFunctionOnSet(f, (T \ {x}) \ {first})
      <4>1. (T \ {first}) \ {x} = (T \ {x}) \ {first}
        OBVIOUS
      <4> QED BY ONLY <4>1, Zenon
    <3>5. SumFunctionOnSet(f, (T \ {first}) \ {x}) \in Int
      <4>1. IsFiniteSet((T \ {first}) \ {x})
        BY FS_Subset
      <4> QED BY <4>1, SumInt
    <3>6. f[first] \in Int /\ f[x] \in Int
      BY <2>1
    <3> DEFINE rest == SumFunctionOnSet(f, (T \ {first}) \ {x})
               without(e) == SumFunctionOnSet(f, T \ {e})
               whole == SumFunctionOnSet(f, T)
    <3>7. /\ whole = f[first] + without(first)
          /\ without(first) = f[x] + rest /\ without(x) = f[first] + rest
          /\ rest \in Int
      BY <2>2, <3>2, <3>3, <3>4, <3>5
    <3> HIDE DEF rest, without, whole
    <3>8. whole = f[x] + without(x)
      BY ONLY <3>6, <3>7
    <3> QED BY <3>8 DEF whole, without
  <2> QED BY <2>2, <2>3
<1> HIDE DEF F
<1>2. S \in F
  BY <1>1, SubsetInduction
<1> QED BY <1>2 DEF F

\* What x contributes to the sum over S.
Part(f, S, x) == IF x \in S THEN f[x] ELSE 0

\* If two sums differ in x only, they differ by what x contributes.
LEMMA SumMoves ==
    ASSUME NEW f, NEW g, NEW S, NEW T, IsFiniteSet(S), NEW x,
           T \ {x} = S \ {x},
           \A y \in S : f[y] \in Int, \A y \in T : g[y] \in Int,
           \A y \in S \ {x} : g[y] = f[y]
    PROVE  SumFunctionOnSet(g, T) = SumFunctionOnSet(f, S) - Part(f, S, x) + Part(g, T, x)
<1>1. IsFiniteSet(S \ {x})
  BY FS_Subset
<1>2. IsFiniteSet(T)
  <2>1. IsFiniteSet((S \ {x}) \cup {x})
    BY <1>1, FS_AddElement
  <2>2. T \subseteq (S \ {x}) \cup {x}
    OBVIOUS
  <2> QED BY <2>1, <2>2, FS_Subset
<1>3. SumFunctionOnSet(f, S) = Part(f, S, x) + SumFunctionOnSet(f, S \ {x})
  <2>1. CASE x \in S
    BY <2>1, SumTakes DEF Part
  <2>2. CASE x \notin S
    <3>1. S \ {x} = S
      BY <2>2
    <3>2. SumFunctionOnSet(f, S \ {x}) = SumFunctionOnSet(f, S)
      BY ONLY <3>1, Zenon
    <3>3. Part(f, S, x) = 0 /\ SumFunctionOnSet(f, S) \in Int
      BY <2>2, SumInt DEF Part
    <3> QED BY <3>2, <3>3
  <2> QED BY <2>1, <2>2
<1>4. SumFunctionOnSet(g, T) = Part(g, T, x) + SumFunctionOnSet(g, T \ {x})
  <2>1. CASE x \in T
    BY <1>2, <2>1, SumTakes DEF Part
  <2>2. CASE x \notin T
    <3>1. T \ {x} = T
      BY <2>2
    <3>2. SumFunctionOnSet(g, T \ {x}) = SumFunctionOnSet(g, T)
      BY ONLY <3>1, Zenon
    <3>3. Part(g, T, x) = 0 /\ SumFunctionOnSet(g, T) \in Int
      BY <1>2, <2>2, SumInt DEF Part
    <3> QED BY <3>2, <3>3
  <2> QED BY <2>1, <2>2
<1>5. SumFunctionOnSet(g, T \ {x}) = SumFunctionOnSet(f, S \ {x})
  BY <1>1, SumSame
<1>6. SumFunctionOnSet(f, S \ {x}) \in Int
  BY <1>1, SumInt
<1>7. Part(f, S, x) \in Int /\ Part(g, T, x) \in Int
  BY DEF Part
<1> QED BY <1>3, <1>4, <1>5, <1>6, <1>7
=============================================================================
