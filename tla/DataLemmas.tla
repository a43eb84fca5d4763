----------------------------- MODULE DataLemmas -----------------------------
(***************************************************************************)
(* Lemmas about the data that the models are built from: finite sums,      *)
(* numbers and sequences.                                                  *)
(*                                                                         *)
(* SumFunctionOnSet is defined by recursion over a set, with the elements  *)
(* taken in an order that CHOOSE fixes.  The lemmas show that the          *)
(* recursion has exactly one solution on the subsets of a finite set, that *)
(* the order does not matter, and what follows: sums are additive, split   *)
(* over a set and its complement, and change with one summand by as much.  *)
(* Induction is had from a smallest counterexample, because strict         *)
(* inclusion is well founded on finite sets.                               *)
(***************************************************************************)
EXTENDS Integers, SequencesExt, FiniteSetTheorems, TLAPS

(* SumFunctionOnSet(f, S) is g[S] for the function g that the recursion    *)
(* below defines on the subsets of S.                                      *)
Choice(u) == CHOOSE x \in u : TRUE
Sum(f, g, u) == IF u = {} THEN 0 ELSE f[Choice(u)] + g[u \ {Choice(u)}]
Solves(f, S, g) == g = [u \in SUBSET S |-> Sum(f, g, u)]

(* A non-empty set T of subsets of a finite set has a smallest element,    *)
(* no element of T lies strictly below it.                                 *)
LEMMA Smallest ==
  ASSUME NEW S, IsFiniteSet(S), NEW T \in SUBSET SUBSET S, T # {}
  PROVE  \E x \in T : \A y \in T : y \subseteq x => y = x
<1>1. IsWellFoundedOn(StrictSubsetOrdering(S), FiniteSubsetsOf(S))
  BY FS_StrictSubsetOrderingWellFounded
<1>2. FiniteSubsetsOf(S) = SUBSET S
  BY FS_FiniteSubsetsOfFinite
<1>3. \E x \in T : \A y \in T : ~(<<y, x>> \in StrictSubsetOrdering(S))
  BY <1>1, <1>2, WFMin
<1> QED
  BY <1>3 DEF StrictSubsetOrdering

(* The element the recursion takes out of a set is one of the set.         *)
LEMMA ChoiceIsElement == ASSUME NEW u, u # {} PROVE Choice(u) \in u
BY DEF Choice

(* A solution on S, cut down to the subsets of a part of S, is one there.  *)
LEMMA RestrictionSolves ==
  ASSUME NEW f, NEW S, NEW g, Solves(f, S, g), NEW R \in SUBSET S
  PROVE  Solves(f, R, [u \in SUBSET R |-> g[u]])
<1> DEFINE h == [u \in SUBSET R |-> g[u]]
<1>1. ASSUME NEW u \in SUBSET R PROVE h[u] = Sum(f, h, u)
  <2>1. g[u] = Sum(f, g, u)
    BY DEF Solves
  <2>2. u # {} => h[u \ {Choice(u)}] = g[u \ {Choice(u)}]
    BY ChoiceIsElement
  <2> QED
    BY <2>1, <2>2 DEF Sum
<1> QED
  BY <1>1 DEF Solves

(* The recursion has at most one solution on a finite set.                 *)
LEMMA SolutionIsUnique ==
  ASSUME NEW f, NEW S, IsFiniteSet(S), NEW g, NEW h,
         Solves(f, S, g), Solves(f, S, h)
  PROVE  g = h
<1> DEFINE T == {u \in SUBSET S : g[u] # h[u]}
<1>1. SUFFICES T = {}
  BY DEF Solves
<1>2. SUFFICES ASSUME T # {} PROVE FALSE
  OBVIOUS
<1>3. PICK x \in T : \A y \in T : y \subseteq x => y = x
  <2>1. T \in SUBSET SUBSET S
    OBVIOUS
  <2> HIDE DEF T
  <2> QED
    BY <1>2, <2>1, Smallest
<1>4. g[x] = Sum(f, g, x) /\ h[x] = Sum(f, h, x)
  BY DEF Solves
<1>5. CASE x = {}
  BY <1>4, <1>5 DEF Sum
<1>6. CASE x # {}
  <2>1. Choice(x) \in x
    BY <1>6, ChoiceIsElement
  <2>2. x \ {Choice(x)} \notin T
    BY <1>3, <2>1
  <2>3. g[x \ {Choice(x)}] = h[x \ {Choice(x)}]
    BY <2>2
  <2> QED
    BY <1>4, <2>3 DEF Sum
<1> QED
  BY <1>5, <1>6

(* The recursion has a solution on every finite set.                       *)
LEMMA SolutionExists ==
  ASSUME NEW f, NEW S, IsFiniteSet(S)
  PROVE  \E g : Solves(f, S, g)
<1> DEFINE T == {u \in SUBSET S : ~ \E g : Solves(f, u, g)}
<1>1. SUFFICES ASSUME T # {} PROVE FALSE
  OBVIOUS
<1>2. PICK x \in T : \A y \in T : y \subseteq x => y = x
  <2>1. T \in SUBSET SUBSET S
    OBVIOUS
  <2> HIDE DEF T
  <2> QED
    BY <1>1, <2>1, Smallest
<1>3. ASSUME NEW y \in SUBSET x, y # x PROVE \E g : Solves(f, y, g)
  BY <1>2, <1>3
<1> DEFINE G(y) == CHOOSE g : Solves(f, y, g)
<1>4. ASSUME NEW y \in SUBSET x, y # x PROVE Solves(f, y, G(y))
  BY <1>3, <1>4
<1> DEFINE below(u) == G(u)[u]
           v == IF x = {} THEN 0 ELSE f[Choice(x)] + below(x \ {Choice(x)})
           g == [u \in SUBSET x |-> IF u = x THEN v ELSE below(u)]
<1>5. ASSUME NEW u \in SUBSET x PROVE g[u] = Sum(f, g, u)
  <2>1. CASE u = {}
    <3>1. CASE x = {}
      BY <3>1, <2>1 DEF Sum
    <3>2. CASE x # {}
      <4>1. Solves(f, u, G(u))
        BY <3>2, <2>1, <1>4
      <4>2. G(u)[u] = 0
        BY <4>1, <2>1 DEF Solves, Sum
      <4> QED
        BY <4>2, <3>2, <2>1 DEF Sum
    <3> QED
      BY <3>1, <3>2
  <2>2. CASE u # {}
    <3> DEFINE w == u \ {Choice(u)}
    <3>1. Choice(u) \in u
      BY <2>2, ChoiceIsElement
    <3>2. w \in SUBSET x /\ w # x /\ g[w] = below(w)
      BY <3>1
    <3>3. CASE u = x
      BY <3>2, <3>3, <2>2 DEF Sum
    <3>4. CASE u # x
      <4>1. Solves(f, u, G(u))
        BY <3>4, <1>4
      <4>2. Solves(f, w, G(w))
        BY <3>2, <1>4
      <4>3. Solves(f, w, [r \in SUBSET w |-> G(u)[r]])
        BY <4>1, RestrictionSolves
      <4>4. IsFiniteSet(w)
        BY FS_Subset
      <4>5. G(w) = [r \in SUBSET w |-> G(u)[r]]
        BY <4>2, <4>3, <4>4, SolutionIsUnique
      <4>6. G(w)[w] = G(u)[w]
        BY <4>5
      <4>7. G(u)[u] = f[Choice(u)] + G(u)[w]
        BY <4>1, <2>2 DEF Solves, Sum
      <4> QED
        BY <4>6, <4>7, <3>2, <3>4, <2>2 DEF Sum
    <3> QED
      BY <3>3, <3>4
  <2> QED
    BY <2>1, <2>2
<1>6. Solves(f, x, g)
  BY <1>5 DEF Solves
<1> QED
  BY <1>6, <1>2

(* SumFunctionOnSet satisfies its recursion: the sum over a non-empty set  *)
(* is one element and the sum over the others.                             *)
LEMMA SumUnfolds ==
  ASSUME NEW f, NEW S, IsFiniteSet(S)
  PROVE  SumFunctionOnSet(f, S) =
           IF S = {} THEN 0
           ELSE f[Choice(S)] + SumFunctionOnSet(f, S \ {Choice(S)})
<1> DEFINE G(y) == CHOOSE g : Solves(f, y, g)
           R == S \ {Choice(S)}
<1>1. \A y : SumFunctionOnSet(f, y) = G(y)[y]
  BY DEF SumFunctionOnSet, FoldFunctionOnSet, MapThenFoldSet, Solves, Sum,
         Choice
<1>2. Solves(f, S, G(S))
  BY SolutionExists
<1>3. Solves(f, R, G(R))
  BY SolutionExists, FS_Subset
<1>4. Solves(f, R, [r \in SUBSET R |-> G(S)[r]])
  BY <1>2, RestrictionSolves
<1>5. G(R) = [r \in SUBSET R |-> G(S)[r]]
  BY <1>3, <1>4, SolutionIsUnique, FS_Subset
<1>6. G(S)[S] = Sum(f, G(S), S)
  BY <1>2 DEF Solves
<1>7. G(R)[R] = G(S)[R]
  BY <1>5
<1> HIDE DEF G
<1> QED
  BY <1>1, <1>6, <1>7 DEF Sum

-----------------------------------------------------------------------------
(* Induction on finite sets, with a set T of subsets for the predicate: if *)
(* T has the empty set and is closed under one more element, it has all.   *)
LEMMA SetInduction ==
  ASSUME NEW S, IsFiniteSet(S), NEW T \in SUBSET SUBSET S, {} \in T,
         \A u \in T, x \in S : u \cup {x} \in T
  PROVE  T = SUBSET S
<1>1. SUFFICES ASSUME (SUBSET S) \ T # {} PROVE FALSE
  OBVIOUS
<1> DEFINE C == (SUBSET S) \ T
<1>2. PICK u \in C : \A y \in C : y \subseteq u => y = u
  <2>1. C \in SUBSET SUBSET S /\ C # {}
    BY <1>1
  <2> HIDE DEF C
  <2> QED
    BY <2>1, Smallest
<1>3. PICK x \in u : TRUE
  BY <1>2
<1>4. u \ {x} \in T
  BY <1>2, <1>3
<1>5. (u \ {x}) \cup {x} = u
  BY <1>3
<1> QED
  BY <1>2, <1>3, <1>4, <1>5

(* Nothing adds up to zero.                                                *)
LEMMA SumEmpty == ASSUME NEW f PROVE SumFunctionOnSet(f, {}) = 0
BY SumUnfolds, FS_EmptySet

(* A finite sum of integers is an integer.                                 *)
LEMMA SumIsInt ==
  ASSUME NEW S, IsFiniteSet(S), NEW f, \A x \in S : f[x] \in Int
  PROVE  SumFunctionOnSet(f, S) \in Int
<1> DEFINE T == {u \in SUBSET S : SumFunctionOnSet(f, u) \notin Int}
<1>1. SUFFICES ASSUME T # {} PROVE FALSE
  OBVIOUS
<1>2. PICK u \in T : \A y \in T : y \subseteq u => y = u
  <2>1. T \in SUBSET SUBSET S
    OBVIOUS
  <2> HIDE DEF T
  <2> QED
    BY <1>1, <2>1, Smallest
<1>3. IsFiniteSet(u)
  BY FS_Subset
<1>4. u # {}
  <2>1. SumFunctionOnSet(f, u) \notin Int
    BY <1>2
  <2>2. u = {} => SumFunctionOnSet(f, u) = 0
    BY SumEmpty, Zenon
  <2> QED
    BY <2>1, <2>2
<1>5. Choice(u) \in u
  BY <1>4, ChoiceIsElement
<1>6. u \ {Choice(u)} \notin T
  BY <1>2, <1>5
<1>7. SumFunctionOnSet(f, u \ {Choice(u)}) \in Int /\ f[Choice(u)] \in Int
  BY <1>5, <1>6
<1> QED
  BY <1>2, <1>3, <1>4, <1>7, SumUnfolds

(* Any element may be taken out first: the choice does not matter.         *)
LEMMA SumTakesOut ==
  ASSUME NEW S, IsFiniteSet(S), NEW f, \A x \in S : f[x] \in Int, NEW x \in S
  PROVE  SumFunctionOnSet(f, S) = f[x] + SumFunctionOnSet(f, S \ {x})
<1> DEFINE Out(u) ==
      \A y \in u : SumFunctionOnSet(f, u) = f[y] + SumFunctionOnSet(f, u \ {y})
<1> DEFINE T == {u \in SUBSET S : ~Out(u)}
<1>1. SUFFICES ASSUME T # {} PROVE FALSE
  OBVIOUS
<1>2. PICK u \in T : \A y \in T : y \subseteq u => y = u
  <2>1. T \in SUBSET SUBSET S
    OBVIOUS
  <2> HIDE DEF T
  <2> QED
    BY <1>1, <2>1, Smallest
<1>3. PICK y \in u : SumFunctionOnSet(f, u) # f[y] + SumFunctionOnSet(f, u \ {y})
  BY <1>2
<1> DEFINE c == Choice(u)
<1>4. c \in u
  BY <1>3, ChoiceIsElement
<1>5. IsFiniteSet(u)
  BY FS_Subset
<1>6. SumFunctionOnSet(f, u) = f[c] + SumFunctionOnSet(f, u \ {c})
  BY <1>4, <1>5, SumUnfolds
<1>7. y # c
  BY <1>3, <1>6
<1>8. Out(u \ {c}) /\ Out(u \ {y})
  BY <1>2, <1>3, <1>4
<1>9. SumFunctionOnSet(f, u \ {c}) = f[y] + SumFunctionOnSet(f, (u \ {c}) \ {y})
  BY <1>7, <1>8
<1>10. SumFunctionOnSet(f, u \ {y}) = f[c] + SumFunctionOnSet(f, (u \ {y}) \ {c})
  BY <1>4, <1>7, <1>8
<1>11. (u \ {c}) \ {y} = (u \ {y}) \ {c}
  OBVIOUS
<1>12. SumFunctionOnSet(f, (u \ {y}) \ {c}) \in Int
  <2>1. IsFiniteSet((u \ {y}) \ {c})
    BY FS_Subset
  <2> QED
    BY <2>1, SumIsInt
<1>13. f[y] \in Int /\ f[c] \in Int
  BY <1>4
<1>14. SumFunctionOnSet(f, (u \ {c}) \ {y})
         = SumFunctionOnSet(f, (u \ {y}) \ {c})
  BY <1>11, Zenon
<1> HIDE DEF c, T
<1> QED
  BY <1>3, <1>6, <1>9, <1>10, <1>12, <1>13, <1>14

(* One more element adds its summand.                                      *)
LEMMA SumAdds ==
  ASSUME NEW S, IsFiniteSet(S), NEW x, x \notin S, NEW f,
         \A y \in S \cup {x} : f[y] \in Int
  PROVE  SumFunctionOnSet(f, S \cup {x}) = SumFunctionOnSet(f, S) + f[x]
<1>1. IsFiniteSet(S \cup {x}) /\ x \in S \cup {x} /\ (S \cup {x}) \ {x} = S
  BY FS_AddElement
<1>2. SumFunctionOnSet(f, S) \in Int /\ f[x] \in Int
  BY SumIsInt
<1>3. SumFunctionOnSet(f, S \cup {x})
        = f[x] + SumFunctionOnSet(f, (S \cup {x}) \ {x})
  BY <1>1, SumTakesOut
<1>4. SumFunctionOnSet(f, (S \cup {x}) \ {x}) = SumFunctionOnSet(f, S)
  BY <1>1, Zenon
<1> QED
  BY <1>2, <1>3, <1>4

(* Linearity: what f and g add up to, h does.                              *)
LEMMA SumPlus ==
  ASSUME NEW S, IsFiniteSet(S), NEW f, NEW g, NEW h,
         \A x \in S : f[x] \in Int /\ g[x] \in Int /\ h[x] = f[x] + g[x]
  PROVE  SumFunctionOnSet(h, S)
           = SumFunctionOnSet(f, S) + SumFunctionOnSet(g, S)
<1> DEFINE Holds(u) == SumFunctionOnSet(h, u)
                         = SumFunctionOnSet(f, u) + SumFunctionOnSet(g, u)
           T == {u \in SUBSET S : Holds(u)}
<1>1. {} \in T
  BY SumEmpty
<1>2. ASSUME NEW u \in T, NEW x \in S PROVE u \cup {x} \in T
  <2>1. CASE x \in u
    <3>1. u \cup {x} = u
      BY <2>1
    <3> QED
      BY <3>1
  <2>2. CASE x \notin u
    <3>1. IsFiniteSet(u)
      BY FS_Subset
    <3>2. /\ \A y \in u \cup {x} : f[y] \in Int
          /\ \A y \in u \cup {x} : g[y] \in Int
          /\ \A y \in u \cup {x} : h[y] \in Int
      OBVIOUS
    <3>3. SumFunctionOnSet(f, u \cup {x}) = SumFunctionOnSet(f, u) + f[x]
      BY <3>1, <3>2, <2>2, SumAdds
    <3>4. SumFunctionOnSet(g, u \cup {x}) = SumFunctionOnSet(g, u) + g[x]
      BY <3>1, <3>2, <2>2, SumAdds
    <3>5. SumFunctionOnSet(h, u \cup {x}) = SumFunctionOnSet(h, u) + h[x]
      BY <3>1, <3>2, <2>2, SumAdds
    <3>6. SumFunctionOnSet(f, u) \in Int /\ SumFunctionOnSet(g, u) \in Int
      BY <3>1, SumIsInt
    <3>7. Holds(u)
      OBVIOUS
    <3>8. h[x] = f[x] + g[x] /\ f[x] \in Int /\ g[x] \in Int
      OBVIOUS
    <3>9. Holds(u \cup {x})
      BY <3>3, <3>4, <3>5, <3>6, <3>7, <3>8
    <3> QED
      BY <3>9
  <2> QED
    BY <2>1, <2>2
<1>3. T = SUBSET S
  <2>1. T \in SUBSET SUBSET S
    OBVIOUS
  <2> HIDE DEF T
  <2> QED
    BY <1>1, <1>2, <2>1, SetInduction
<1> QED
  BY <1>3

(* Zeros add up to zero.                                                   *)
LEMMA SumZero ==
  ASSUME NEW S, IsFiniteSet(S), NEW f, \A x \in S : f[x] = 0
  PROVE  SumFunctionOnSet(f, S) = 0
<1>1. PICK s : s = SumFunctionOnSet(f, S)
  OBVIOUS
<1>2. s \in Int
  BY <1>1, SumIsInt
<1>3. s = s + s
  BY <1>1, SumPlus
<1>4. s = 0
  BY <1>2, <1>3
<1> QED
  BY <1>1, <1>4

(* A sum depends on the summands in its set only.                          *)
LEMMA SumAgrees ==
  ASSUME NEW S, IsFiniteSet(S), NEW f, NEW g,
         \A x \in S : f[x] \in Int /\ f[x] = g[x]
  PROVE  SumFunctionOnSet(f, S) = SumFunctionOnSet(g, S)
<1> DEFINE z == [x \in S |-> 0]
<1>1. SumFunctionOnSet(g, S) = SumFunctionOnSet(f, S) + SumFunctionOnSet(z, S)
  BY SumPlus
<1>2. SumFunctionOnSet(z, S) = 0
  BY SumZero
<1>3. SumFunctionOnSet(f, S) \in Int
  BY SumIsInt
<1> QED
  BY <1>1, <1>2, <1>3

(* A sum is the sum over a part and the sum over the rest.                 *)
LEMMA SumSplits ==
  ASSUME NEW S, IsFiniteSet(S), NEW f, \A x \in S : f[x] \in Int,
         NEW R \in SUBSET S
  PROVE  SumFunctionOnSet(f, S)
           = SumFunctionOnSet(f, R) + SumFunctionOnSet(f, S \ R)
<1> DEFINE Holds(u) == SumFunctionOnSet(f, R \cup u)
                         = SumFunctionOnSet(f, R) + SumFunctionOnSet(f, u)
           D == S \ R
           T == {u \in SUBSET D : Holds(u)}
<1>1. SumFunctionOnSet(f, R) \in Int /\ IsFiniteSet(R) /\ IsFiniteSet(D)
  BY SumIsInt, FS_Subset
<1>2. {} \in T
  <2>1. R \cup {} = R
    OBVIOUS
  <2> QED
    BY <1>1, <2>1, SumEmpty
<1>3. ASSUME NEW u \in T, NEW x \in D PROVE u \cup {x} \in T
  <2>1. CASE x \in u
    <3>1. u \cup {x} = u
      BY <2>1
    <3> QED
      BY <3>1
  <2>2. CASE x \notin u
    <3>1. IsFiniteSet(u) /\ IsFiniteSet(R \cup u) /\ x \notin R \cup u
      BY <2>2, FS_Subset
    <3>2. SumFunctionOnSet(f, u \cup {x}) = SumFunctionOnSet(f, u) + f[x]
      BY <3>1, <2>2, SumAdds
    <3>3. SumFunctionOnSet(f, (R \cup u) \cup {x})
            = SumFunctionOnSet(f, R \cup u) + f[x]
      BY <3>1, SumAdds
    <3>4. SumFunctionOnSet(f, (R \cup u) \cup {x})
            = SumFunctionOnSet(f, R \cup (u \cup {x}))
      <4>1. (R \cup u) \cup {x} = R \cup (u \cup {x})
        OBVIOUS
      <4> QED
        BY <4>1, Zenon
    <3>5. SumFunctionOnSet(f, u) \in Int /\ f[x] \in Int
      BY <3>1, SumIsInt
    <3>6. Holds(u)
      OBVIOUS
    <3>7. Holds(u \cup {x})
      BY <1>1, <3>2, <3>3, <3>4, <3>5, <3>6
    <3> QED
      BY <3>7
  <2> QED
    BY <2>1, <2>2
<1>4. T = SUBSET D
  <2>1. T \in SUBSET SUBSET D
    OBVIOUS
  <2> HIDE DEF T, D
  <2> QED
    BY <1>1, <1>2, <1>3, <2>1, SetInduction
<1>5. D \in T
  BY <1>4
<1>6. R \cup D = S
  OBVIOUS
<1> QED
  BY <1>5, <1>6

(* A finite sum of natural numbers is a natural number.                    *)
LEMMA SumIsNatural ==
  ASSUME NEW S, IsFiniteSet(S), NEW f, \A x \in S : f[x] \in Nat
  PROVE  SumFunctionOnSet(f, S) \in Nat
<1> DEFINE T == {u \in SUBSET S : SumFunctionOnSet(f, u) \in Nat}
<1>1. {} \in T
  BY SumEmpty
<1>2. ASSUME NEW u \in T, NEW x \in S PROVE u \cup {x} \in T
  <2>1. CASE x \in u
    <3>1. u \cup {x} = u
      BY <2>1
    <3> QED
      BY <3>1
  <2>2. CASE x \notin u
    <3>1. IsFiniteSet(u)
      BY FS_Subset
    <3>2. \A y \in u \cup {x} : f[y] \in Int
      OBVIOUS
    <3>3. SumFunctionOnSet(f, u \cup {x}) = SumFunctionOnSet(f, u) + f[x]
      BY <3>1, <3>2, <2>2, SumAdds
    <3>4. SumFunctionOnSet(f, u) \in Nat /\ f[x] \in Nat
      OBVIOUS
    <3> QED
      BY <3>3, <3>4
  <2> QED
    BY <2>1, <2>2
<1>3. T = SUBSET S
  <2>1. T \in SUBSET SUBSET S
    OBVIOUS
  <2> HIDE DEF T
  <2> QED
    BY <1>1, <1>2, <2>1, SetInduction
<1> QED
  BY <1>3

(* Summands outside a part R that are zero may be left out.                *)
LEMMA SumFilters ==
  ASSUME NEW S, IsFiniteSet(S), NEW f, \A x \in S : f[x] \in Int,
         NEW R \in SUBSET S, \A x \in S \ R : f[x] = 0,
         NEW g, \A x \in R : g[x] = f[x]
  PROVE  SumFunctionOnSet(g, R) = SumFunctionOnSet(f, S)
<1>1. IsFiniteSet(R) /\ IsFiniteSet(S \ R)
  BY FS_Subset
<1>2. SumFunctionOnSet(f, S)
        = SumFunctionOnSet(f, R) + SumFunctionOnSet(f, S \ R)
  BY SumSplits
<1>3. SumFunctionOnSet(f, S \ R) = 0
  BY <1>1, SumZero
<1>4. SumFunctionOnSet(f, R) = SumFunctionOnSet(g, R)
  BY <1>1, SumAgrees
<1>5. SumFunctionOnSet(f, R) \in Int
  BY <1>1, SumIsInt
<1> QED
  BY <1>2, <1>3, <1>4, <1>5

(* A part of a sum of natural numbers is at most the whole.                *)
LEMMA SumOfPart ==
  ASSUME NEW S, IsFiniteSet(S), NEW f, \A x \in S : f[x] \in Nat,
         NEW R \in SUBSET S
  PROVE  SumFunctionOnSet(f, R) \in 0..SumFunctionOnSet(f, S)
<1>1. IsFiniteSet(R) /\ IsFiniteSet(S \ R)
  BY FS_Subset
<1>2. SumFunctionOnSet(f, S)
        = SumFunctionOnSet(f, R) + SumFunctionOnSet(f, S \ R)
  BY SumSplits
<1>3. SumFunctionOnSet(f, R) \in Nat /\ SumFunctionOnSet(f, S \ R) \in Nat
  BY <1>1, SumIsNatural
<1> QED
  BY <1>2, <1>3

-----------------------------------------------------------------------------
(* The total of a map: what the weights of its values add up to.           *)
Total(map, weight) == SumFunction([k \in DOMAIN map |-> weight[map[k]]])

(* What the lemmas on totals need of a map and of the weights.             *)
Weighed(map, weight) ==
  /\ IsFiniteSet(DOMAIN map)
  /\ \A k \in DOMAIN map : weight[map[k]] \in Int

(* Summing over the keys of a map.                                         *)
LEMMA TotalIsSum ==
  ASSUME NEW map, NEW weight, Weighed(map, weight),
         NEW f, \A k \in DOMAIN map : f[k] = weight[map[k]]
  PROVE  /\ Total(map, weight) = SumFunctionOnSet(f, DOMAIN map)
         /\ Total(map, weight) \in Int
<1> DEFINE w == [k \in DOMAIN map |-> weight[map[k]]]
<1>1. DOMAIN w = DOMAIN map
  OBVIOUS
<1>2. Total(map, weight) = SumFunctionOnSet(w, DOMAIN map)
  <2>1. SumFunctionOnSet(w, DOMAIN w) = SumFunctionOnSet(w, DOMAIN map)
    BY <1>1, Zenon
  <2>2. Total(map, weight) = SumFunctionOnSet(w, DOMAIN w)
    BY DEF Total, SumFunction
  <2> QED BY <2>1, <2>2
<1>3. \A k \in DOMAIN map : w[k] \in Int /\ w[k] = f[k]
  BY DEF Weighed
<1>4. IsFiniteSet(DOMAIN map)
  BY DEF Weighed
<1> HIDE DEF w
<1>5. SumFunctionOnSet(w, DOMAIN map) = SumFunctionOnSet(f, DOMAIN map)
  BY <1>3, <1>4, SumAgrees
<1>6. SumFunctionOnSet(w, DOMAIN map) \in Int
  BY <1>3, <1>4, SumIsInt
<1> QED BY <1>2, <1>5, <1>6

(* A value under a new key adds its weight.                                *)
LEMMA TotalGrows ==
  ASSUME NEW map, NEW weight, Weighed(map, weight),
         NEW key, key \notin DOMAIN map, NEW new, weight[new[key]] \in Int,
         DOMAIN new = DOMAIN map \cup {key},
         \A k \in DOMAIN map : new[k] = map[k]
  PROVE  /\ Weighed(new, weight)
         /\ Total(new, weight) = Total(map, weight) + weight[new[key]]
<1> DEFINE f == [k \in DOMAIN new |-> weight[new[k]]]
<1>1. \A k \in DOMAIN map : f[k] = weight[map[k]] /\ f[k] \in Int
  BY DEF Weighed
<1>2. f[key] = weight[new[key]] /\ \A k \in DOMAIN new : f[k] = weight[new[k]]
  OBVIOUS
<1>3. IsFiniteSet(DOMAIN map) /\ IsFiniteSet(DOMAIN new)
  BY FS_AddElement DEF Weighed
<1>4. Weighed(new, weight)
  BY <1>3 DEF Weighed
<1> HIDE DEF f
<1>5. Total(map, weight) = SumFunctionOnSet(f, DOMAIN map)
  BY <1>1, TotalIsSum
<1>6. Total(new, weight) = SumFunctionOnSet(f, DOMAIN new)
  BY <1>2, <1>4, TotalIsSum
<1>7. SumFunctionOnSet(f, DOMAIN map \cup {key})
        = SumFunctionOnSet(f, DOMAIN map) + f[key]
  BY <1>1, <1>2, <1>3, SumAdds
<1>8. SumFunctionOnSet(f, DOMAIN map \cup {key}) = SumFunctionOnSet(f, DOMAIN new)
  <2>1. DOMAIN map \cup {key} = DOMAIN new
    OBVIOUS
  <2> QED BY <2>1, Zenon
<1> QED BY <1>2, <1>4, <1>5, <1>6, <1>7, <1>8

(* A value under an old key puts its weight for the one that was there.    *)
LEMMA TotalChanges ==
  ASSUME NEW map, NEW weight, Weighed(map, weight),
         NEW key \in DOMAIN map, NEW new, weight[new[key]] \in Int,
         DOMAIN new = DOMAIN map,
         \A k \in DOMAIN map : k # key => new[k] = map[k]
  PROVE  /\ Weighed(new, weight)
         /\ Total(new, weight)
              = Total(map, weight) - weight[map[key]] + weight[new[key]]
<1> DEFINE f == [k \in DOMAIN map |-> weight[map[k]]]
           g == [k \in DOMAIN map |-> weight[new[k]]]
           rest == DOMAIN map \ {key}
<1>1. /\ \A k \in DOMAIN map : f[k] = weight[map[k]] /\ f[k] \in Int
      /\ \A k \in DOMAIN map : g[k] = weight[new[k]] /\ g[k] \in Int
      /\ \A k \in rest : f[k] = g[k]
  BY DEF Weighed
<1>2. IsFiniteSet(DOMAIN map) /\ IsFiniteSet(rest)
  BY FS_Subset DEF Weighed
<1>3. Weighed(new, weight)
  BY <1>1, <1>2 DEF Weighed
<1> HIDE DEF f, g
<1>4. Total(map, weight) = SumFunctionOnSet(f, DOMAIN map)
  BY <1>1, TotalIsSum
<1>5. Total(new, weight) = SumFunctionOnSet(g, DOMAIN map)
  <2>1. Total(new, weight) = SumFunctionOnSet(g, DOMAIN new)
    BY <1>1, <1>3, TotalIsSum
  <2>2. SumFunctionOnSet(g, DOMAIN new) = SumFunctionOnSet(g, DOMAIN map)
    BY Zenon
  <2> QED BY <2>1, <2>2
<1>6. SumFunctionOnSet(f, DOMAIN map) = f[key] + SumFunctionOnSet(f, rest)
  BY <1>1, <1>2, SumTakesOut
<1>7. SumFunctionOnSet(g, DOMAIN map) = g[key] + SumFunctionOnSet(g, rest)
  BY <1>1, <1>2, SumTakesOut
<1>8. SumFunctionOnSet(f, rest) = SumFunctionOnSet(g, rest)
  BY <1>1, <1>2, SumAgrees
<1>9. SumFunctionOnSet(f, rest) \in Int
  BY <1>1, <1>2, SumIsInt
<1> HIDE DEF rest
<1> QED BY <1>1, <1>3, <1>4, <1>5, <1>6, <1>7, <1>8, <1>9

-----------------------------------------------------------------------------
(* Numbers.                                                                *)

(* A set of natural numbers has a smallest one.                            *)
LEMMA SmallestNumber ==
  ASSUME NEW T \in SUBSET Nat, T # {}
  PROVE  \E n \in T : \A m \in T : n <= m
<1>1. PICK t \in T : TRUE
  OBVIOUS
<1>2. PICK S : S = 1..t
  OBVIOUS
<1>3. IsFiniteSet(S)
  BY <1>1, <1>2, FS_Interval
<1> DEFINE below == {n \in T : n <= t}
           D == {1..n : n \in below}
<1>4. D \in SUBSET SUBSET S /\ D # {}
  <2>1. \A n \in below : 1..n \subseteq S
    BY <1>1, <1>2
  <2>2. t \in below
    BY <1>1
  <2> QED BY <2>1, <2>2
<1>5. PICK x \in D : \A y \in D : y \subseteq x => y = x
  <2> HIDE DEF D
  <2> QED BY <1>3, <1>4, Smallest
<1>6. PICK n \in below : x = 1..n
  BY <1>5
<1>7. ASSUME NEW m \in T PROVE n <= m
  <2>1. SUFFICES ASSUME m < n PROVE FALSE
    BY <1>6
  <2>2. m \in below /\ 1..m \in D
    BY <1>1, <1>6, <2>1
  <2>3. 1..m \subseteq x /\ n \in x /\ n \notin 1..m
    BY <1>6, <2>1
  <2> QED BY <1>5, <2>2, <2>3
<1> QED BY <1>6, <1>7

-----------------------------------------------------------------------------
(* Sequences.                                                              *)

IsSeq(s) == \E S : s \in Seq(S)

LEMMA SeqFacts ==
  ASSUME NEW s, IsSeq(s)
  PROVE  /\ Len(s) \in Nat /\ DOMAIN s = 1..Len(s)
         /\ s = <<>> <=> Len(s) = 0
         /\ s = [i \in 1..Len(s) |-> s[i]]
<1>1. PICK S : s \in Seq(S)
  BY DEF IsSeq
<1> QED BY <1>1

LEMMA SeqMade ==
  ASSUME NEW n \in Nat, NEW s, DOMAIN s = 1..n, s = [i \in 1..n |-> s[i]]
  PROVE  IsSeq(s) /\ Len(s) = n
<1>1. PICK S : S = {s[i] : i \in 1..n}
  OBVIOUS
<1>2. s \in [1..n -> S]
  BY <1>1
<1>3. s \in Seq(S)
  BY <1>2
<1>4. Len(s) = n
  BY <1>3
<1> QED BY <1>3, <1>4 DEF IsSeq

(* Two sequences with the same elements.                                   *)
Agree(s, t) ==
  /\ IsSeq(s) /\ IsSeq(t) /\ Len(s) = Len(t)
  /\ \A i \in 1..Len(s) : s[i] = t[i]

LEMMA EqualSequences == ASSUME NEW s, NEW t, Agree(s, t) PROVE s = t
<1>1. IsSeq(s) /\ IsSeq(t) /\ Len(s) = Len(t) /\ \A i \in 1..Len(s) : s[i] = t[i]
  BY DEF Agree
<1>2. PICK n \in Nat : n = Len(s)
  BY <1>1, SeqFacts
<1>3. s = [i \in 1..n |-> s[i]] /\ t = [i \in 1..n |-> t[i]]
  BY <1>1, <1>2, SeqFacts
<1>4. [i \in 1..n |-> s[i]] = [i \in 1..n |-> t[i]]
  BY <1>1, <1>2
<1> QED BY <1>3, <1>4

(* r is s with x after it.                                                 *)
Grown(r, s, x) ==
  /\ IsSeq(r) /\ Len(s) \in Nat /\ Len(r) = Len(s) + 1
  /\ DOMAIN s = 1..Len(s) /\ DOMAIN r = 1..(Len(s) + 1)
  /\ r[Len(s) + 1] = x
  /\ \A i \in 1..Len(s) : r[i] = s[i]
  /\ IsPrefix(s, r) /\ Last(r) = x /\ r # <<>>

LEMMA Appended ==
  ASSUME NEW s, IsSeq(s), NEW x, NEW r, r = Append(s, x)
  PROVE  Grown(r, s, x)
<1>1. PICK S : s \in Seq(S)
  BY DEF IsSeq
<1>2. PICK T : T = S \cup {x}
  OBVIOUS
<1>3. s \in Seq(T) /\ x \in T
  BY <1>1, <1>2
<1>4. r \in Seq(T) /\ Len(s) \in Nat /\ Len(r) = Len(s) + 1
  BY <1>3
<1>5. /\ DOMAIN s = 1..Len(s) /\ DOMAIN r = 1..(Len(s) + 1)
      /\ r[Len(s) + 1] = x
      /\ \A i \in 1..Len(s) : r[i] = s[i]
  BY <1>3
<1>6. SubSeq(s, 1, Len(s)) = SubSeq(r, 1, Len(s))
  BY <1>3, <1>4, <1>5
<1>7. IsPrefix(s, r) /\ Last(r) = x
  BY <1>4, <1>5, <1>6 DEF IsPrefix, Last
<1>8. IsSeq(r) /\ r # <<>>
  BY <1>4 DEF IsSeq
<1> QED BY <1>4, <1>5, <1>7, <1>8 DEF Grown

(* The first n elements.                                                   *)
LEMMA FirstOf ==
  ASSUME NEW s, IsSeq(s), NEW n \in 0..Len(s), NEW r, r = SubSeq(s, 1, n)
  PROVE  /\ IsSeq(r) /\ Len(r) = n /\ DOMAIN r = 1..n
         /\ \A i \in 1..n : r[i] = s[i]
         /\ n = Len(s) => r = s
         /\ n = 0 => r = <<>>
<1>1. PICK S : s \in Seq(S)
  BY DEF IsSeq
<1>2. n \in Nat /\ Len(s) \in Nat /\ \A i \in 1..n : i \in 1..Len(s) /\ s[i] \in S
  BY <1>1
<1>3. /\ r = [i \in 1..n |-> s[i]]
      /\ Len(r) = n
  BY <1>1, <1>2
<1>4. DOMAIN r = 1..n /\ \A i \in 1..n : r[i] = s[i]
  BY <1>3
<1>5. IsSeq(r)
  BY <1>2, <1>3, <1>4, SeqMade
<1>6. n = Len(s) => r = s
  <2>1. SUFFICES ASSUME n = Len(s) PROVE r = s
    OBVIOUS
  <2>2. Len(r) = Len(s) /\ \A i \in 1..Len(r) : r[i] = s[i]
    BY <1>3, <1>4, <2>1
  <2>3. Agree(r, s)
    BY <1>5, <2>2 DEF Agree
  <2> QED BY <2>3, EqualSequences
<1>7. n = 0 => r = <<>>
  BY <1>3, <1>5, SeqFacts
<1> QED BY <1>3, <1>4, <1>5, <1>6, <1>7

LEMMA PrefixIsItself == ASSUME NEW s, IsSeq(s) PROVE IsPrefix(s, s)
BY SeqFacts DEF IsPrefix

LEMMA PrefixIsTransitive ==
  ASSUME NEW r, NEW s, NEW t, IsSeq(r), IsSeq(s), IsSeq(t),
         IsPrefix(r, s), IsPrefix(s, t)
  PROVE  IsPrefix(r, t)
<1>1. Len(r) \in Nat /\ Len(s) \in Nat /\ Len(t) \in Nat
  BY SeqFacts
<1>2. Len(r) <= Len(s) /\ Len(s) <= Len(t)
  BY DEF IsPrefix
<1>3. \A i \in 1..Len(r) : r[i] = s[i]
  <2>1. PICK a : a = SubSeq(r, 1, Len(r))
    OBVIOUS
  <2>2. PICK b : b = SubSeq(s, 1, Len(r))
    OBVIOUS
  <2>3. a = b
    BY <2>1, <2>2 DEF IsPrefix
  <2>4. \A i \in 1..Len(r) : a[i] = r[i]
    BY <1>1, <2>1, FirstOf
  <2>5. \A i \in 1..Len(r) : b[i] = s[i]
    BY <1>1, <1>2, <2>2, FirstOf
  <2> QED BY <2>3, <2>4, <2>5
<1>4. \A i \in 1..Len(s) : s[i] = t[i]
  <2>1. PICK a : a = SubSeq(s, 1, Len(s))
    OBVIOUS
  <2>2. PICK b : b = SubSeq(t, 1, Len(s))
    OBVIOUS
  <2>3. a = b
    BY <2>1, <2>2 DEF IsPrefix
  <2>4. \A i \in 1..Len(s) : a[i] = s[i]
    BY <1>1, <2>1, FirstOf
  <2>5. \A i \in 1..Len(s) : b[i] = t[i]
    BY <1>1, <1>2, <2>2, FirstOf
  <2> QED BY <2>3, <2>4, <2>5
<1>5. PICK a : a = SubSeq(r, 1, Len(r))
  OBVIOUS
<1>6. PICK b : b = SubSeq(t, 1, Len(r))
  OBVIOUS
<1>7. IsSeq(a) /\ Len(a) = Len(r) /\ \A i \in 1..Len(r) : a[i] = r[i]
  <2>1. Len(r) \in 0..Len(r)
    BY <1>1
  <2> QED BY <1>5, <2>1, FirstOf
<1>8. IsSeq(b) /\ Len(b) = Len(r) /\ \A i \in 1..Len(r) : b[i] = t[i]
  <2>1. PICK n : n = Len(r)
    OBVIOUS
  <2>2. n \in 0..Len(t) /\ b = SubSeq(t, 1, n)
    BY <1>1, <1>2, <1>6, <2>1
  <2>3. IsSeq(b)
    BY <2>2, FirstOf
  <2>4. Len(b) = n /\ \A i \in 1..n : b[i] = t[i]
    BY <2>2, FirstOf
  <2> QED BY <2>1, <2>3, <2>4
<1>9. \A i \in 1..Len(r) : a[i] = b[i]
  BY <1>1, <1>2, <1>3, <1>4, <1>7, <1>8
<1>10. a = b
  <2>1. Len(a) = Len(b) /\ \A i \in 1..Len(a) : a[i] = b[i]
    BY <1>7, <1>8, <1>9
  <2>2. Agree(a, b)
    BY <1>7, <1>8, <2>1 DEF Agree
  <2> QED BY <2>2, EqualSequences
<1> QED BY <1>1, <1>2, <1>5, <1>6, <1>10 DEF IsPrefix

=============================================================================
