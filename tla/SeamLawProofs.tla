--------------------------- MODULE SeamLawProofs ----------------------------
(***************************************************************************)
(* For every federation, every law and every chunk size: readings stay in  *)
(* their range, no layer makes a move ahead of one it depends on, and      *)
(* raising moves of the mean law are counted by the exact change of Phi.   *)
(***************************************************************************)
EXTENDS SeamLaw, FiniteSetTheorems, NaturalsInduction, WellFoundedInduction,
        TLAPS

(***************************************************************************)
(* Sums over finite sets.  SumOver is a fold, so its recursion has to be   *)
(* shown to have a solution before anything can be said about it.          *)
(***************************************************************************)
LEMMA LeastNat ==
  ASSUME NEW T \in SUBSET Nat, T # {}
  PROVE  \E n \in T : \A m \in T : n <= m
<1>1. PICK n \in T : \A m \in T : ~(<<m, n>> \in OpToRel(<, Nat))
  BY NatLessThanWellFounded, WFMin, Zenon
<1>2. \A m \in T : ~(m < n)
  BY <1>1, Zenon DEF OpToRel
<1>. QED  BY <1>2

\* The step of an induction over an interval.
LEMMA FirstBad ==
  ASSUME NEW lo \in Nat, NEW hi \in Nat, NEW B \in SUBSET (lo..hi), lo \notin B, B # {}
  PROVE  \E n \in B : n \in (lo + 1)..hi /\ n - 1 \in lo..hi /\ n - 1 \notin B
<1>1. B \in SUBSET Nat
  OBVIOUS
<1>2. PICK n \in B : \A m \in B : n <= m
  BY <1>1, LeastNat
<1>. QED  BY <1>2

Picked(s) == CHOOSE e \in s : TRUE

\* g sums f over the sets of D, a member at a time.
IsFold(f, D, g) ==
  g = [s \in D |-> IF s = {} THEN 0 ELSE f[Picked(s)] + g[s \ {Picked(s)}]]

SmallSubsets(S, n) == {s \in SUBSET S : Cardinality(s) <= n}

LEMMA FoldExistsUpTo ==
  ASSUME NEW f, NEW S, IsFiniteSet(S), NEW n \in Nat
  PROVE  \E g : IsFold(f, SmallSubsets(S, n), g)
<1>. DEFINE Bad == {m \in Nat : ~\E g : IsFold(f, SmallSubsets(S, m), g)}
<1>. SUFFICES ASSUME Bad # {} PROVE FALSE
  OBVIOUS
<1>1. PICK m \in Bad : \A k \in Bad : m <= k
  <2>. HIDE DEF Bad
  <2>1. Bad \in SUBSET Nat
    BY DEF Bad
  <2>. QED  BY <2>1, LeastNat
<1>2. \A s \in SUBSET S : IsFiniteSet(s) /\ Cardinality(s) \in Nat
  BY FS_Subset, FS_CardinalityType
<1>3. CASE m = 0
  <2>1. \A s \in SmallSubsets(S, 0) : s = {}
    BY <1>2, FS_EmptySet DEF SmallSubsets
  <2>2. IsFold(f, SmallSubsets(S, 0), [s \in SmallSubsets(S, 0) |-> 0])
    BY <2>1 DEF IsFold
  <2>. QED  BY <1>3, <2>2
<1>4. CASE m # 0
  <2>1. m - 1 \in Nat /\ m - 1 \notin Bad
    BY <1>1, <1>4
  <2>2. PICK g : IsFold(f, SmallSubsets(S, m - 1), g)
    BY <2>1
  <2>. DEFINE D == SmallSubsets(S, m)
              h == [s \in D |-> IF s = {} THEN 0
                                ELSE f[Picked(s)] + g[s \ {Picked(s)}]]
  <2>3. \A s \in D : s # {} => s \ {Picked(s)} \in SmallSubsets(S, m - 1)
    <3>. SUFFICES ASSUME NEW s \in D, s # {}
                  PROVE  s \ {Picked(s)} \in SmallSubsets(S, m - 1)
      OBVIOUS
    <3>1. Picked(s) \in s
      BY DEF Picked
    <3>2. Cardinality(s \ {Picked(s)}) = Cardinality(s) - 1
      BY <1>2, <3>1, FS_RemoveElement DEF SmallSubsets
    <3>. QED  BY <3>2, <1>2 DEF SmallSubsets
  <2>4. \A s \in SmallSubsets(S, m - 1) : s \in D /\ h[s] = g[s]
    <3>1. \A s \in SmallSubsets(S, m - 1) : s \in D
      BY <1>2 DEF SmallSubsets
    <3>. QED  BY <2>2, <3>1 DEF IsFold
  <2>5. \A s \in D : s # {} => h[s \ {Picked(s)}] = g[s \ {Picked(s)}]
    <3>. HIDE DEF h, D
    <3>. QED  BY <2>3, <2>4
  <2>6. h = [s \in D |-> IF s = {} THEN 0 ELSE f[Picked(s)] + h[s \ {Picked(s)}]]
    BY <2>5
  <2>. QED  BY <2>6 DEF IsFold
<1>. QED  BY <1>3, <1>4

FoldsSubsets(f, S, g) == IsFold(f, SUBSET S, g)

LEMMA FoldExists ==
  ASSUME NEW f, NEW S, IsFiniteSet(S)
  PROVE  \E g : FoldsSubsets(f, S, g)
<1>1. Cardinality(S) \in Nat /\ SmallSubsets(S, Cardinality(S)) = SUBSET S
  BY FS_CardinalityType, FS_Subset DEF SmallSubsets
<1>2. \E g : IsFold(f, SmallSubsets(S, Cardinality(S)), g)
  BY <1>1, FoldExistsUpTo
<1>. QED  BY <1>1, <1>2 DEF FoldsSubsets

LEMMA SumIsFold ==
  ASSUME NEW f, NEW S, IsFiniteSet(S)
  PROVE  \E g : FoldsSubsets(f, S, g) /\ SumOver(f, S) = g[S]
<1>. DEFINE g == CHOOSE g : FoldsSubsets(f, S, g)
<1>1. FoldsSubsets(f, S, g)
  BY FoldExists
<1>2. SumOver(f, S) = g[S]
  BY DEF SumOver, MapThenSumSet, MapThenFoldSet, FoldsSubsets, IsFold, Picked
<1>. QED  BY <1>1, <1>2

(***************************************************************************)
(* The step of an induction over finite sets: a family of subsets has a    *)
(* member that no longer belongs when it loses any element.                *)
(***************************************************************************)
LEMMA SmallestMember ==
  ASSUME NEW S, IsFiniteSet(S), NEW D \in SUBSET (SUBSET S), D # {}
  PROVE  \E r \in D : IsFiniteSet(r) /\ \A e \in r : r \ {e} \notin D
<1>. DEFINE Sizes == {Cardinality(r) : r \in D}
<1>1. \A r \in SUBSET S : IsFiniteSet(r) /\ Cardinality(r) \in Nat
  BY FS_Subset, FS_CardinalityType
<1>2. Sizes \in SUBSET Nat /\ Sizes # {}
  BY <1>1
<1>3. \E n \in Sizes : \A m \in Sizes : n <= m
  <2>. HIDE DEF Sizes
  <2>. QED  BY <1>2, LeastNat
<1>4. PICK r \in D : \A q \in D : Cardinality(r) <= Cardinality(q)
  BY <1>3
<1>5. \A e \in r : Cardinality(r \ {e}) = Cardinality(r) - 1
  BY <1>1, FS_RemoveElement
<1>. QED  BY <1>1, <1>4, <1>5

LEMMA FoldsAgree ==
  ASSUME NEW f, NEW S, NEW g, NEW h, NEW T \in SUBSET S,
         IsFiniteSet(S), FoldsSubsets(f, S, g), FoldsSubsets(f, T, h)
  PROVE  g[T] = h[T]
<1>. DEFINE Odd == {r \in SUBSET S : r \in SUBSET T /\ g[r] # h[r]}
<1>. SUFFICES ASSUME Odd # {} PROVE FALSE
  OBVIOUS
<1>1. PICK r \in Odd : \A e \in r : r \ {e} \notin Odd
  <2>1. Odd \in SUBSET (SUBSET S)
    OBVIOUS
  <2>. HIDE DEF Odd
  <2>. QED  BY <2>1, SmallestMember
<1>2. r # {}
  BY DEF FoldsSubsets, IsFold
<1>3. Picked(r) \in r
  BY <1>2 DEF Picked
<1>4. g[r \ {Picked(r)}] = h[r \ {Picked(r)}]
  BY <1>1, <1>3
<1>5. /\ g[r] = f[Picked(r)] + g[r \ {Picked(r)}]
      /\ h[r] = f[Picked(r)] + h[r \ {Picked(r)}]
  BY <1>2 DEF FoldsSubsets, IsFold
<1>. QED  BY <1>4, <1>5

LEMMA SumOfNone == \A f : SumOver(f, {}) = 0
<1>. SUFFICES ASSUME NEW f PROVE SumOver(f, {}) = 0
  OBVIOUS
<1>1. PICK g : FoldsSubsets(f, {}, g) /\ SumOver(f, {}) = g[{}]
  BY FS_EmptySet, SumIsFold
<1>. QED  BY <1>1 DEF FoldsSubsets, IsFold

LEMMA SumPicked ==
  ASSUME NEW f, NEW S, IsFiniteSet(S), S # {}
  PROVE  /\ Picked(S) \in S
         /\ SumOver(f, S) = f[Picked(S)] + SumOver(f, S \ {Picked(S)})
<1>. DEFINE T == S \ {Picked(S)}
<1>1. PICK g : FoldsSubsets(f, S, g) /\ SumOver(f, S) = g[S]
  BY SumIsFold
<1>2. IsFiniteSet(T)
  BY FS_Subset
<1>3. PICK h : FoldsSubsets(f, T, h) /\ SumOver(f, T) = h[T]
  BY <1>2, SumIsFold
<1>4. g[T] = h[T]
  <2>1. T \in SUBSET S
    OBVIOUS
  <2>2. FoldsSubsets(f, S, g) /\ FoldsSubsets(f, T, h)
    BY <1>1, <1>3
  <2>. HIDE DEF T
  <2>. QED  BY <2>1, <2>2, FoldsAgree
<1>5. g[S] = f[Picked(S)] + g[T]
  BY <1>1 DEF FoldsSubsets, IsFold
<1>6. Picked(S) \in S
  BY DEF Picked
<1>. QED  BY <1>1, <1>3, <1>4, <1>5, <1>6

(***************************************************************************)
(* The sum of integers is an integer, and takes its members in any order.  *)
(***************************************************************************)
LEMMA SumTyped ==
  ASSUME NEW f, NEW S, IsFiniteSet(S), \A p \in S : f[p] \in Int
  PROVE  SumOver(f, S) \in Int
<1>. DEFINE Odd == {r \in SUBSET S : SumOver(f, r) \notin Int}
<1>. SUFFICES ASSUME Odd # {} PROVE FALSE
  OBVIOUS
<1>1. PICK r \in Odd : IsFiniteSet(r) /\ \A e \in r : r \ {e} \notin Odd
  <2>1. Odd \in SUBSET (SUBSET S)
    OBVIOUS
  <2>. HIDE DEF Odd
  <2>. QED  BY <2>1, SmallestMember
<1>2. r # {}
  BY SumOfNone
<1>3. Picked(r) \in r /\ SumOver(f, r) = f[Picked(r)] + SumOver(f, r \ {Picked(r)})
  BY <1>1, <1>2, SumPicked
<1>4. f[Picked(r)] \in Int /\ SumOver(f, r \ {Picked(r)}) \in Int
  BY <1>1, <1>3
<1>. QED  BY <1>3, <1>4

LEMMA SumTakesAny ==
  ASSUME NEW f, NEW S, IsFiniteSet(S), \A p \in S : f[p] \in Int, NEW e \in S
  PROVE  SumOver(f, S) = f[e] + SumOver(f, S \ {e})
<1>. DEFINE Odd == {r \in SUBSET S :
                      \E d \in r : SumOver(f, r) # f[d] + SumOver(f, r \ {d})}
<1>. SUFFICES ASSUME Odd # {} PROVE FALSE
  OBVIOUS
<1>1. PICK r \in Odd : IsFiniteSet(r) /\ \A d \in r : r \ {d} \notin Odd
  <2>1. Odd \in SUBSET (SUBSET S)
    OBVIOUS
  <2>. HIDE DEF Odd
  <2>. QED  BY <2>1, SmallestMember
<1>2. PICK d \in r : SumOver(f, r) # f[d] + SumOver(f, r \ {d})
  OBVIOUS
<1>3. PICK c \in r : SumOver(f, r) = f[c] + SumOver(f, r \ {c})
  <2>1. IsFiniteSet(r) /\ r # {}
    BY <1>1
  <2>. QED  BY <2>1, SumPicked
<1>4. d # c /\ d \in r \ {c} /\ c \in r \ {d}
  BY <1>2, <1>3
<1>5. /\ SumOver(f, r \ {c}) = f[d] + SumOver(f, (r \ {c}) \ {d})
      /\ SumOver(f, r \ {d}) = f[c] + SumOver(f, (r \ {d}) \ {c})
  BY <1>1, <1>4
<1>6. (r \ {c}) \ {d} = (r \ {d}) \ {c}
  OBVIOUS
<1>7. f[c] \in Int /\ f[d] \in Int /\ SumOver(f, (r \ {c}) \ {d}) \in Int
  <2>1. \A p \in (r \ {c}) \ {d} : f[p] \in Int
    OBVIOUS
  <2>2. IsFiniteSet((r \ {c}) \ {d})
    BY <1>1, FS_RemoveElement
  <2>3. SumOver(f, (r \ {c}) \ {d}) \in Int
    BY <2>1, <2>2, SumTyped
  <2>. QED  BY <2>3
<1>. QED  BY <1>2, <1>3, <1>5, <1>6, <1>7

LEMMA SumCongruent ==
  ASSUME NEW f, NEW g, NEW S, IsFiniteSet(S), \A p \in S : f[p] = g[p]
  PROVE  SumOver(f, S) = SumOver(g, S)
<1>. DEFINE Odd == {r \in SUBSET S : SumOver(f, r) # SumOver(g, r)}
<1>. SUFFICES ASSUME Odd # {} PROVE FALSE
  OBVIOUS
<1>1. PICK r \in Odd : IsFiniteSet(r) /\ \A e \in r : r \ {e} \notin Odd
  <2>1. Odd \in SUBSET (SUBSET S)
    OBVIOUS
  <2>. HIDE DEF Odd
  <2>. QED  BY <2>1, SmallestMember
<1>2. r # {}
  BY SumOfNone
<1>3. /\ Picked(r) \in r /\ SumOver(f, r) = f[Picked(r)] + SumOver(f, r \ {Picked(r)})
      /\ SumOver(g, r) = g[Picked(r)] + SumOver(g, r \ {Picked(r)})
  BY <1>1, <1>2, SumPicked
<1>. QED  BY <1>1, <1>3

(***************************************************************************)
(* The sum of disjoint sets is the sum of the sums.                        *)
(***************************************************************************)
LEMMA SumSplits ==
  ASSUME NEW f, NEW S, IsFiniteSet(S), \A p \in S : f[p] \in Int,
         NEW A \in SUBSET S
  PROVE  SumOver(f, S) = SumOver(f, A) + SumOver(f, S \ A)
<1>. DEFINE Odd == {r \in SUBSET S :
                 SumOver(f, r) # SumOver(f, r \cap A) + SumOver(f, r \ A)}
<1>. SUFFICES ASSUME S \in Odd PROVE FALSE
  <2>1. S \cap A = A
    OBVIOUS
  <2>. QED  BY <2>1
<1>1. PICK r \in Odd : IsFiniteSet(r) /\ \A e \in r : r \ {e} \notin Odd
  <2>1. Odd \in SUBSET (SUBSET S) /\ Odd # {}
    OBVIOUS
  <2>. HIDE DEF Odd
  <2>. QED  BY <2>1, SmallestMember
<1>2. r # {}
  <2>. SUFFICES ASSUME r = {} PROVE FALSE
    OBVIOUS
  <2>1. SumOver(f, r) = 0 /\ SumOver(f, r \cap A) = 0 /\ SumOver(f, r \ A) = 0
    <3>1. r \cap A = {} /\ r \ A = {}
      OBVIOUS
    <3>. QED  BY <3>1, SumOfNone
  <2>. QED  BY <2>1
<1>3. PICK e \in r : TRUE
  BY <1>2
<1>. DEFINE q == r \ {e}
<1>4. IsFiniteSet(q) /\ IsFiniteSet(r \cap A) /\ IsFiniteSet(r \ A)
      /\ IsFiniteSet(q \cap A) /\ IsFiniteSet(q \ A)
  BY <1>1, FS_Subset
<1>5. /\ SumOver(f, r) = f[e] + SumOver(f, q)
      /\ f[e] \in Int /\ SumOver(f, q) \in Int
      /\ SumOver(f, q \cap A) \in Int /\ SumOver(f, q \ A) \in Int
  <2>1. /\ \A p \in r : f[p] \in Int
        /\ \A p \in q : f[p] \in Int
        /\ \A p \in q \cap A : f[p] \in Int
        /\ \A p \in q \ A : f[p] \in Int
    OBVIOUS
  <2>2. SumOver(f, r) = f[e] + SumOver(f, q)
    BY <1>1, <2>1, SumTakesAny
  <2>. HIDE DEF q
  <2>. QED  BY <1>1, <1>4, <2>1, <2>2, SumTyped
<1>6. SumOver(f, q) = SumOver(f, q \cap A) + SumOver(f, q \ A)
  BY <1>1
<1>7. CASE e \in A
  <2>1. q \cap A = (r \cap A) \ {e} /\ q \ A = r \ A /\ e \in r \cap A
    BY <1>7
  <2>2. SumOver(f, r \cap A) = f[e] + SumOver(f, q \cap A)
    <3>1. \A p \in r \cap A : f[p] \in Int
      OBVIOUS
    <3>. QED  BY <1>4, <2>1, <3>1, SumTakesAny
  <2>3. SumOver(f, q \cap A) = SumOver(f, q \cap A) /\ SumOver(f, q \ A) = SumOver(f, r \ A)
    BY <2>1
  <2>4. SumOver(f, r) = SumOver(f, r \cap A) + SumOver(f, r \ A)
    <3>. HIDE DEF q, Odd
    <3>. QED  BY <1>5, <1>6, <2>2, <2>3
  <2>. QED  BY <2>4
<1>8. CASE e \notin A
  <2>1. q \ A = (r \ A) \ {e} /\ q \cap A = r \cap A /\ e \in r \ A
    BY <1>8
  <2>2. SumOver(f, r \ A) = f[e] + SumOver(f, q \ A)
    <3>1. \A p \in r \ A : f[p] \in Int
      OBVIOUS
    <3>. QED  BY <1>4, <2>1, <3>1, SumTakesAny
  <2>3. SumOver(f, q \cap A) = SumOver(f, r \cap A) /\ SumOver(f, q \ A) = SumOver(f, q \ A)
    BY <2>1
  <2>4. SumOver(f, r) = SumOver(f, r \cap A) + SumOver(f, r \ A)
    <3>. HIDE DEF q, Odd
    <3>. QED  BY <1>5, <1>6, <2>2, <2>3
  <2>. QED  BY <2>4
<1>. QED  BY <1>7, <1>8

LEMMA SumOfZeros ==
  ASSUME NEW f, NEW S, IsFiniteSet(S), \A p \in S : f[p] = 0
  PROVE  SumOver(f, S) = 0
<1>. DEFINE Odd == {r \in SUBSET S : SumOver(f, r) # 0}
<1>. SUFFICES ASSUME Odd # {} PROVE FALSE
  OBVIOUS
<1>1. PICK r \in Odd : IsFiniteSet(r) /\ \A e \in r : r \ {e} \notin Odd
  <2>1. Odd \in SUBSET (SUBSET S)
    OBVIOUS
  <2>. HIDE DEF Odd
  <2>. QED  BY <2>1, SmallestMember
<1>2. r # {}
  BY SumOfNone
<1>3. Picked(r) \in r /\ SumOver(f, r) = f[Picked(r)] + SumOver(f, r \ {Picked(r)})
  BY <1>1, <1>2, SumPicked
<1>4. f[Picked(r)] = 0 /\ SumOver(f, r \ {Picked(r)}) = 0
  BY <1>1, <1>3
<1>. QED  BY <1>3, <1>4

(***************************************************************************)
(* Sums of values that are linear in other values.                         *)
(***************************************************************************)
LEMMA SumIsLinear ==
  ASSUME NEW S, IsFiniteSet(S), NEW e, NEW f, NEW g, NEW k \in Int, NEW c \in Int,
         \A p \in S : f[p] \in Int /\ g[p] \in Int /\ e[p] = k * f[p] - g[p] - c
  PROVE  SumOver(e, S) = k * SumOver(f, S) - SumOver(g, S) - c * Cardinality(S)
<1>. DEFINE Odd == {r \in SUBSET S :
              SumOver(e, r) # k * SumOver(f, r) - SumOver(g, r) - c * Cardinality(r)}
<1>. SUFFICES ASSUME Odd # {} PROVE FALSE
  OBVIOUS
<1>1. PICK r \in Odd : IsFiniteSet(r) /\ \A p \in r : r \ {p} \notin Odd
  <2>1. Odd \in SUBSET (SUBSET S)
    OBVIOUS
  <2>. HIDE DEF Odd
  <2>. QED  BY <2>1, SmallestMember
<1>2. r # {}
  <2>1. SumOver(e, {}) = 0 /\ SumOver(f, {}) = 0 /\ SumOver(g, {}) = 0 /\ Cardinality({}) = 0
    BY SumOfNone, FS_EmptySet
  <2>2. k * 0 - 0 - c * 0 = 0
    OBVIOUS
  <2>. QED  BY <2>1, <2>2
<1>3. PICK p \in r : TRUE
  BY <1>2
<1>. DEFINE q == r \ {p}
<1>4. \A d \in r : e[d] \in Int /\ f[d] \in Int /\ g[d] \in Int /\ d \in S
  OBVIOUS
<1>5. /\ SumOver(e, r) = e[p] + SumOver(e, q)
      /\ SumOver(f, r) = f[p] + SumOver(f, q)
      /\ SumOver(g, r) = g[p] + SumOver(g, q)
  BY <1>1, <1>4, SumTakesAny
<1>6. SumOver(f, q) \in Int /\ SumOver(g, q) \in Int
  <2>1. IsFiniteSet(q) /\ \A d \in q : f[d] \in Int /\ g[d] \in Int
    BY <1>1, <1>4, FS_RemoveElement
  <2>. HIDE DEF q
  <2>. QED  BY <2>1, SumTyped
<1>7. Cardinality(q) = Cardinality(r) - 1 /\ Cardinality(r) \in Int
  <2>1. IsFiniteSet(r) /\ p \in r
    BY <1>1
  <2>. HIDE DEF Odd
  <2>2. Cardinality(r) \in Nat
    BY <2>1, FS_CardinalityType
  <2>3. Cardinality(r \ {p}) = Cardinality(r) - 1
    BY <2>1, FS_RemoveElement
  <2>. QED  BY <2>2, <2>3
<1>8. SumOver(e, q) = k * SumOver(f, q) - SumOver(g, q) - c * Cardinality(q)
  BY <1>1
<1>9. e[p] = k * f[p] - g[p] - c /\ f[p] \in Int /\ g[p] \in Int
  OBVIOUS
<1>. HIDE DEF q
<1>10. \A a, b, m, n, i \in Int :
         (k * a - b - c) + (k * m - n - c * (i - 1)) = k * (a + m) - (b + n) - c * i
  OBVIOUS
<1>11. SumOver(e, r) = k * SumOver(f, r) - SumOver(g, r) - c * Cardinality(r)
  <2>. HIDE DEF Odd
  <2>. QED  BY <1>5, <1>6, <1>7, <1>8, <1>9, <1>10
<1>. QED  BY <1>11

LEMMA SumIsAffine ==
  ASSUME NEW S, IsFiniteSet(S), NEW y, NEW e, NEW k \in Int, NEW c \in Int,
         \A p \in S : y[p] \in Int /\ e[p] = k * y[p] - c
  PROVE  SumOver(e, S) = k * SumOver(y, S) - c * Cardinality(S)
<1>. DEFINE Odd == {r \in SUBSET S : SumOver(e, r) # k * SumOver(y, r) - c * Cardinality(r)}
<1>. SUFFICES ASSUME Odd # {} PROVE FALSE
  OBVIOUS
<1>1. PICK r \in Odd : IsFiniteSet(r) /\ \A p \in r : r \ {p} \notin Odd
  <2>1. Odd \in SUBSET (SUBSET S)
    OBVIOUS
  <2>. HIDE DEF Odd
  <2>. QED  BY <2>1, SmallestMember
<1>2. r # {}
  <2>1. SumOver(e, {}) = 0 /\ SumOver(y, {}) = 0 /\ Cardinality({}) = 0
    BY SumOfNone, FS_EmptySet
  <2>2. k * 0 - c * 0 = 0
    OBVIOUS
  <2>. QED  BY <2>1, <2>2
<1>3. PICK p \in r : TRUE
  BY <1>2
<1>. DEFINE q == r \ {p}
<1>4. \A d \in r : d \in S /\ y[d] \in Int /\ e[d] \in Int /\ e[d] = k * y[d] - c
  OBVIOUS
<1>5. SumOver(e, r) = e[p] + SumOver(e, q) /\ SumOver(y, r) = y[p] + SumOver(y, q)
  BY <1>1, <1>4, SumTakesAny
<1>6. SumOver(y, q) \in Int
  <2>1. IsFiniteSet(q) /\ \A d \in q : y[d] \in Int
    BY <1>1, <1>4, FS_RemoveElement
  <2>. HIDE DEF q
  <2>. QED  BY <2>1, SumTyped
<1>7. Cardinality(q) = Cardinality(r) - 1 /\ Cardinality(r) \in Int
  <2>. HIDE DEF Odd
  <2>1. Cardinality(r) \in Nat
    BY <1>1, FS_CardinalityType
  <2>2. Cardinality(r \ {p}) = Cardinality(r) - 1
    BY <1>1, FS_RemoveElement
  <2>. QED  BY <2>1, <2>2
<1>8. SumOver(e, q) = k * SumOver(y, q) - c * Cardinality(q)
  BY <1>1
<1>9. e[p] = k * y[p] - c /\ y[p] \in Int
  BY <1>4
<1>. HIDE DEF q
<1>10. \A a, m, i \in Int : (k * a - c) + (k * m - c * (i - 1)) = k * (a + m) - c * i
  OBVIOUS
<1>11. SumOver(e, r) = k * SumOver(y, r) - c * Cardinality(r)
  <2>. HIDE DEF Odd
  <2>. QED  BY <1>5, <1>6, <1>7, <1>8, <1>9, <1>10
<1>. QED  BY <1>11

(***************************************************************************)
(* A sum over one set is a sum over another that is its image.             *)
(***************************************************************************)
LEMMA SumReindexed ==
  ASSUME NEW S, IsFiniteSet(S), NEW T, IsFiniteSet(T), NEW m \in [S -> T],
         \A c, d \in S : m[c] = m[d] => c = d,
         NEW f, NEW g, \A c \in S : g[c] = f[m[c]], \A d \in T : f[d] \in Int
  PROVE  SumOver(g, S) = SumOver(f, {m[c] : c \in S})
<1>. DEFINE Image(r) == {m[c] : c \in r}
            Odd == {r \in SUBSET S : SumOver(g, r) # SumOver(f, Image(r))}
<1>. SUFFICES ASSUME S \in Odd PROVE FALSE
  OBVIOUS
<1>1. PICK r \in Odd : IsFiniteSet(r) /\ \A e \in r : r \ {e} \notin Odd
  <2>1. Odd \in SUBSET (SUBSET S) /\ Odd # {}
    OBVIOUS
  <2>. HIDE DEF Odd
  <2>. QED  BY <2>1, SmallestMember
<1>2. r # {}
  <2>1. Image({}) = {} /\ SumOver(g, {}) = 0 /\ SumOver(f, {}) = 0
    BY SumOfNone
  <2>. HIDE DEF Image
  <2>. QED  BY <2>1
<1>3. PICK e \in r : TRUE
  BY <1>2
<1>4. r \subseteq S /\ e \in S /\ m[e] \in T /\ g[e] = f[m[e]]
  OBVIOUS
<1>5. Image(r \ {e}) = Image(r) \ {m[e]} /\ m[e] \in Image(r) /\ Image(r) \in SUBSET T
  BY <1>4
<1>6. SumOver(g, r) = g[e] + SumOver(g, r \ {e})
  <2>1. \A c \in r : g[c] \in Int
    BY <1>4
  <2>. QED  BY <1>1, <2>1, SumTakesAny
<1>7. SumOver(f, Image(r)) = f[m[e]] + SumOver(f, Image(r) \ {m[e]})
  <2>. HIDE DEF Image
  <2>1. IsFiniteSet(Image(r)) /\ \A d \in Image(r) : f[d] \in Int
    BY <1>5, FS_Subset
  <2>. QED  BY <1>5, <2>1, SumTakesAny
<1>8. SumOver(g, r \ {e}) = SumOver(f, Image(r \ {e}))
  BY <1>1, <1>3
<1>9. SumOver(g, r) = SumOver(f, Image(r))
  <2>. HIDE DEF Image
  <2>. QED  BY <1>4, <1>5, <1>6, <1>7, <1>8
<1>. QED  BY <1>9

Typed(y) == y \in [Port -> Int]

LEMMA EndsArePorts ==
  ASSUME NEW s \in Seam
  PROVE  seam_a[s] \in Port /\ seam_b[s] \in Port /\ seam_a[s] # seam_b[s]
BY SeamAssumption

-----------------------------------------------------------------------------
(***************************************************************************)
(* TwoTo is a recursive function: again, a solution has to be shown.       *)
(***************************************************************************)
Size == MaxSweeps * Seams

IsDoubling(g, m) == g = [n \in 0..m |-> IF n = 0 THEN 1 ELSE 2 * g[n - 1]]

LEMMA DoublingExists ==
  ASSUME NEW hi \in Nat
  PROVE  \E g : IsDoubling(g, hi)
<1>. DEFINE B == {m \in 0..hi : ~\E g : IsDoubling(g, m)}
<1>. SUFFICES ASSUME B # {} PROVE FALSE
  OBVIOUS
<1>1. 0 \notin B
  <2>1. IsDoubling([n \in 0..0 |-> 1], 0)
    BY DEF IsDoubling
  <2>. QED  BY <2>1
<1>2. PICK m \in B : m \in 1..hi /\ m - 1 \in 0..hi /\ m - 1 \notin B
  <2>1. B \in SUBSET (0..hi) /\ 0 \in Nat
    OBVIOUS
  <2>. HIDE DEF B
  <2>2. \E m \in B : m \in (0 + 1)..hi /\ m - 1 \in 0..hi /\ m - 1 \notin B
    BY <1>1, <2>1, FirstBad
  <2>. QED  BY <2>2
<1>3. PICK g : IsDoubling(g, m - 1)
  BY <1>2
<1>. DEFINE h == [n \in 0..m |-> IF n = 0 THEN 1 ELSE 2 * g[n - 1]]
<1>4. \A n \in 0..(m - 1) : n \in 0..m /\ h[n] = g[n]
  BY <1>2, <1>3 DEF IsDoubling
<1>5. \A n \in 0..m : n # 0 => h[n - 1] = g[n - 1]
  <2>1. \A n \in 0..m : n # 0 => n - 1 \in 0..(m - 1)
    BY <1>2
  <2>. HIDE DEF h
  <2>. QED  BY <1>4, <2>1
<1>6. h = [n \in 0..m |-> IF n = 0 THEN 1 ELSE 2 * h[n - 1]]
  BY <1>5
<1>. QED  BY <1>2, <1>6 DEF IsDoubling

LEMMA SizeTyped == Size \in Nat
BY SizeAssumption DEF Size

LEMMA PowersOfTwo ==
  /\ TwoTo[0] = 1
  /\ \A n \in 1..Size : TwoTo[n] = 2 * TwoTo[n - 1]
  /\ \A n \in 0..Size : TwoTo[n] \in Nat /\ TwoTo[n] > 0
<1>1. IsDoubling(TwoTo, Size)
  <2>1. \E g : IsDoubling(g, Size)
    BY SizeTyped, DoublingExists
  <2>. QED  BY <2>1 DEF TwoTo, IsDoubling, Size
<1>2. TwoTo[0] = 1
  BY <1>1, SizeTyped DEF IsDoubling
<1>3. ASSUME NEW n \in 1..Size PROVE TwoTo[n] = 2 * TwoTo[n - 1]
  <2>1. n \in 0..Size /\ n # 0
    BY SizeTyped
  <2>. QED  BY <1>1, <2>1 DEF IsDoubling
<1>. DEFINE B == {n \in 0..Size : ~(TwoTo[n] \in Nat /\ TwoTo[n] > 0)}
<1>4. B = {}
  <2>. SUFFICES ASSUME B # {} PROVE FALSE
    OBVIOUS
  <2>1. B \in SUBSET (0..Size) /\ 0 \in Nat /\ 0 \notin B
    BY <1>2
  <2>2. PICK n \in B : n \in 1..Size /\ n - 1 \in 0..Size /\ n - 1 \notin B
    <3>. HIDE DEF B
    <3>1. \E n \in B : n \in (0 + 1)..Size /\ n - 1 \in 0..Size /\ n - 1 \notin B
      BY <2>1, SizeTyped, FirstBad
    <3>. QED  BY <3>1
  <2>3. TwoTo[n - 1] \in Nat /\ TwoTo[n - 1] > 0 /\ TwoTo[n] = 2 * TwoTo[n - 1]
    BY <1>3, <2>2
  <2>. QED  BY <2>3
<1>. QED  BY <1>2, <1>3, <1>4

LEMMA Bounds ==
  /\ \A l : Unit(l) \in Nat /\ MaxLoad * Unit(l) \in Nat
  /\ \A l : \A n \in 0..MaxLoad : n * Unit(l) \in 0..(MaxLoad * Unit(l))
<1>1. \A l : Unit(l) \in Nat
  BY SizeTyped, PowersOfTwo DEF Unit, Size
<1>2. \A u \in Nat : \A n \in 0..MaxLoad : n * u \in 0..(MaxLoad * u)
  BY SizeAssumption
<1>3. \A u \in Nat : MaxLoad * u \in Nat
  BY SizeAssumption
<1>. QED  BY <1>1, <1>2, <1>3

-----------------------------------------------------------------------------
(***************************************************************************)
(* One attempt lands between the two readings it starts from.              *)
(***************************************************************************)
LEMMA MoveStaysInRange ==
  ASSUME NEW M \in Nat, NEW y \in [Port -> 0..M], NEW l, NEW s \in Seam, NEW c
  PROVE  /\ ToFirst(l, y, s, c) \in 0..M
         /\ ToSecond(l, y, s, c) \in 0..M
<1>1. y[seam_a[s]] \in 0..M /\ y[seam_b[s]] \in 0..M
  BY SeamAssumption
<1>2. Sum2(y, s) \in 0..(2 * M)
  BY <1>1 DEF Sum2
<1>3. \A n \in 0..(2 * M) : n \div 2 \in 0..M /\ n - n \div 2 \in 0..M
  OBVIOUS
<1>4. CASE l = "integer" /\ c
  <2>1. ToFirst(l, y, s, c) = Sum2(y, s) - Sum2(y, s) \div 2
    BY <1>4 DEF ToFirst
  <2>2. ToSecond(l, y, s, c) = Sum2(y, s) \div 2
    BY <2>1, <1>2, <1>3 DEF ToSecond
  <2>. QED  BY <2>1, <2>2, <1>2, <1>3
<1>5. CASE ~(l = "integer" /\ c)
  <2>1. ToFirst(l, y, s, c) = Sum2(y, s) \div 2
    BY <1>5 DEF ToFirst
  <2>2. ToSecond(l, y, s, c) = Sum2(y, s) - Sum2(y, s) \div 2
    BY <2>1 DEF ToSecond
  <2>. QED  BY <2>1, <2>2, <1>2, <1>3
<1>. QED  BY <1>4, <1>5

LEMMA AfterStaysInRange ==
  ASSUME NEW M \in Nat, NEW y \in [Port -> 0..M], NEW l,
         NEW T \in SUBSET Attempt, seq \in [Attempt -> Seam]
  PROVE  After(l, y, T) \in [Port -> 0..M]
<1>. SUFFICES ASSUME NEW p \in Port PROVE After(l, y, T)[p] \in 0..M
  BY DEF After
<1>1. CASE \E t \in T : p = seam_a[seq[t]]
  <2>. DEFINE t == CHOOSE t \in T : p = seam_a[seq[t]]
  <2>1. t \in T
    BY <1>1
  <2>2. After(l, y, T)[p] = ToFirst(l, y, seq[t], coin[t])
    BY <1>1 DEF After
  <2>3. seq[t] \in Seam
    BY <2>1
  <2>. HIDE DEF t
  <2>. QED  BY <2>2, <2>3, MoveStaysInRange
<1>2. CASE ~(\E t \in T : p = seam_a[seq[t]]) /\ \E t \in T : p = seam_b[seq[t]]
  <2>. DEFINE t == CHOOSE t \in T : p = seam_b[seq[t]]
  <2>1. t \in T
    BY <1>2
  <2>2. After(l, y, T)[p] = ToSecond(l, y, seq[t], coin[t])
    BY <1>2 DEF After
  <2>3. seq[t] \in Seam
    BY <2>1
  <2>. HIDE DEF t
  <2>. QED  BY <2>2, <2>3, MoveStaysInRange
<1>3. CASE ~(\E t \in T : p = seam_a[seq[t]]) /\ ~(\E t \in T : p = seam_b[seq[t]])
  BY <1>3 DEF After
<1>. QED  BY <1>1, <1>2, <1>3

LEMMA ChunkIsSlice == \A n : ChunkFrom(n) \subseteq Attempt
BY DEF ChunkFrom

LEMMA DrawsTyped == NoDraws \in [Attempt -> Seam] /\ NoCoins \in [Attempt -> BOOLEAN]
BY DEF NoDraws, NoCoins, Attempt, Seam

LEMMA RangesAreFinite ==
  /\ IsFiniteSet(Port) /\ IsFiniteSet(Seam)
  /\ \A T \in SUBSET Attempt : IsFiniteSet(T) /\ Cardinality(T) \in Nat
<1>1. IsFiniteSet(Port) /\ IsFiniteSet(Seam) /\ IsFiniteSet(Attempt)
  BY SizeAssumption, FS_Interval DEF Port, Seam, Attempt
<1>. QED  BY <1>1, FS_Subset, FS_CardinalityType

LEMMA SmallestAttempt ==
  ASSUME NEW T \in SUBSET Attempt, T # {}
  PROVE  Min(T) \in T /\ \A t \in T : Min(T) <= t
<1>1. T \in SUBSET Nat
  BY DEF Attempt
<1>2. \E n \in T : \A m \in T : n <= m
  BY <1>1, LeastNat
<1>. QED  BY <1>2 DEF Min

(***************************************************************************)
(* V, the changes of V and the counters are numbers.                       *)
(***************************************************************************)
LEMMA PotentialTyped ==
  ASSUME NEW y \in [Port -> Int]
  PROVE  V(y) \in Int
<1>. DEFINE f == [p \in Port |-> Sq(y[p])]
<1>1. \A p \in Port : f[p] \in Int
  BY DEF Sq
<1>. HIDE DEF f
<1>2. SumOver(f, Port) \in Int
  BY <1>1, RangesAreFinite, SumTyped
<1>. QED  BY <1>2 DEF V, f

LEMMA DeltaTyped ==
  ASSUME NEW y \in [Port -> Int], seq \in [Attempt -> Seam], NEW t \in Attempt
  PROVE  DeltaAt(y, t) \in Int
<1>1. y[seam_a[seq[t]]] \in Int /\ y[seam_b[seq[t]]] \in Int
  BY SeamAssumption
<1>2. Sum2(y, seq[t]) \in Int
  BY <1>1 DEF Sum2
<1>3. /\ ToFirst(law, y, seq[t], coin[t]) \in Int
      /\ ToSecond(law, y, seq[t], coin[t]) \in Int
  BY <1>2 DEF ToFirst, ToSecond
<1>4. \A n \in Int : Sq(n) \in Int
  BY DEF Sq
<1>5. Change(law, y, seq[t], coin[t]) \in Int
  BY <1>1, <1>3, <1>4 DEF Change
<1>. QED  BY <1>5 DEF DeltaAt

LEMMA CountedTyped ==
  ASSUME sweep \in Nat, NEW ty \in TallyType, NEW y, NEW T \in SUBSET Attempt
  PROVE  Counted(ty, y, T) \in TallyType
<1>1. \A k : NumberOf(y, T, k) \in Nat
  BY RangesAreFinite DEF NumberOf
<1>. DEFINE up == {t \in T : RaisesAt(y, t)}
<1>2. Cardinality(up) \in Nat
  BY RangesAreFinite
<1>3. up # {} => Min(up) \in Nat
  <2>1. up \in SUBSET Attempt
    OBVIOUS
  <2>2. up # {} => Min(up) \in Attempt
    BY <2>1, SmallestAttempt
  <2>. QED  BY <2>2 DEF Attempt
<1>. DEFINE fr == IF ty.first_raise = 0 /\ up # {} THEN sweep * Seams + Min(up)
                  ELSE ty.first_raise
<1>4. fr \in Nat
  <2>1. sweep * Seams \in Nat
    BY SizeAssumption
  <2>. QED  BY <1>3, <2>1 DEF TallyType
<1>5. /\ ty.waits + NumberOf(y, T, "wait") \in Nat
      /\ ty.swaps + NumberOf(y, T, "swap") \in Nat
      /\ ty.descents + NumberOf(y, T, "descent") \in Nat
      /\ ty.raises + Cardinality(up) \in Nat
  BY <1>1, <1>2 DEF TallyType
<1>6. Counted(ty, y, T) =
        [waits |-> ty.waits + NumberOf(y, T, "wait"),
         swaps |-> ty.swaps + NumberOf(y, T, "swap"),
         descents |-> ty.descents + NumberOf(y, T, "descent"),
         raises |-> ty.raises + Cardinality(up), first_raise |-> fr]
  BY DEF Counted
<1>. HIDE DEF fr, up
<1>. QED  BY <1>4, <1>5, <1>6 DEF TallyType

LEMMA RunningTyped ==
  ASSUME TypeOK, NEW t
  PROVE  Running(t) \in Int
<1>. DEFINE U == {u \in ChunkFrom(start) : u <= t}
<1>1. U \in SUBSET Attempt
  BY ChunkIsSlice
<1>2. \A u \in U : delta[u] \in Int
  BY <1>1 DEF TypeOK
<1>. HIDE DEF U
<1>3. SumOver(delta, U) \in Int
  BY <1>1, <1>2, RangesAreFinite, SumTyped
<1>4. Running(t) = v + SumOver(delta, U)
  BY DEF Running, U
<1>. QED  BY <1>3, <1>4 DEF TypeOK

LEMMA TypeInit == Init => TypeOK
<1>. SUFFICES ASSUME Init PROVE TypeOK
  OBVIOUS
<1>1. loads \in [Port -> 0..MaxLoad]
  BY LoadAssumption DEF Init
<1>2. x \in [Port -> 0..(MaxLoad * Unit(law))]
  <2>1. x = [p \in Port |-> loads[p] * Unit(law)]
    BY DEF Init
  <2>2. \A p \in Port : loads[p] * Unit(law) \in 0..(MaxLoad * Unit(law))
    BY <1>1, Bounds
  <2>. QED  BY <2>1, <2>2
<1>3. law \in {"integer", "mean"}
  BY SizeAssumption DEF Init
<1>4. v \in Int
  <2>1. v = V(x)
    BY DEF Init
  <2>. QED  BY <1>2, <2>1, PotentialTyped
<1>5. tally = NoTally /\ NoTally \in TallyType
  BY DEF Init, NoTally, TallyType
<1>6. origin \in [x : [Port -> 0..(MaxLoad * Unit(law))], v : Int, tally : TallyType]
  BY <1>2, <1>4, <1>5 DEF Init
<1>7. /\ engine \in {"python", "numpy"} /\ chunk \in Chunks
      /\ seq \in [Attempt -> Seam] /\ coin \in [Attempt -> BOOLEAN]
      /\ sweep \in Nat /\ first_attempt \in Int
      /\ start \in Nat \ {0} /\ remaining = {}
      /\ delta \in [Attempt -> Int] /\ first \in 0..Seams
      /\ pc \in {"loop", "moves", "done"}
  BY DrawsTyped, SizeAssumption DEF Init
<1>. QED  BY <1>1, <1>2, <1>3, <1>4, <1>5, <1>6, <1>7 DEF TypeOK

LEMMA TypeStep == TypeOK /\ [Next]_vars => TypeOK'
<1>. SUFFICES ASSUME TypeOK, [Next]_vars PROVE TypeOK'
  OBVIOUS
<1>. USE DEF TypeOK, choice
<1>0. x \in [Port -> Int] /\ seq \in [Attempt -> Seam]
  BY Bounds
<1>1. CASE Draw
  <2>1. seq' \in [Attempt -> Seam] /\ coin' \in [Attempt -> BOOLEAN]
    BY <1>1, DrawsTyped DEF Draw
  <2>2. /\ remaining' \subseteq Attempt
        /\ engine' = "numpy" => remaining' \subseteq ChunkFrom(start)'
    BY <1>1, ChunkIsSlice DEF Draw, ChunkFrom
  <2>. QED  BY <1>1, <2>1, <2>2 DEF Draw
<1>2. CASE Move
  <2>1. PICK t \in remaining :
          /\ x' = After(law, x, {t}) /\ remaining' = remaining \ {t}
          /\ v' = v + DeltaAt(x, t) /\ tally' = Counted(tally, x, {t})
          /\ first' \in {t, first}
    BY <1>2 DEF Move
  <2>2. x' \in [Port -> 0..(MaxLoad * Unit(law))]
    BY <2>1, Bounds, AfterStaysInRange
  <2>3. /\ UNCHANGED <<law, engine, chunk, loads, seq, coin, start, pc>>
        /\ UNCHANGED <<sweep, first_attempt, delta, origin>>
    BY <1>2 DEF Move
  <2>4. t \in Attempt /\ t \in 0..Seams
    BY SizeAssumption DEF Attempt
  <2>5. v' \in Int
    BY <1>0, <2>1, <2>4, DeltaTyped
  <2>6. tally' \in TallyType
    BY <2>1, <2>4, CountedTyped
  <2>7. first' \in 0..Seams
    BY <2>1, <2>4
  <2>8. remaining' \subseteq remaining
    BY <2>1
  <2>. QED  BY <2>2, <2>3, <2>5, <2>6, <2>7, <2>8 DEF ChunkFrom
<1>3. CASE Layer
  <2>. DEFINE T == Ready(remaining)
  <2>1. T \in SUBSET Attempt
    BY DEF Ready
  <2>2. /\ x' = After(law, x, T) /\ remaining' = remaining \ T
        /\ tally' = Counted(tally, x, T)
        /\ delta' = [t \in Attempt |-> IF t \in T THEN DeltaAt(x, t) ELSE delta[t]]
        /\ UNCHANGED <<law, engine, chunk, loads, seq, coin, start, pc>>
        /\ UNCHANGED <<v, sweep, first_attempt, first, origin>>
    BY <1>3 DEF Layer
  <2>. HIDE DEF T
  <2>3. x' \in [Port -> 0..(MaxLoad * Unit(law))]
    BY <2>1, <2>2, Bounds, AfterStaysInRange
  <2>4. tally' \in TallyType
    BY <2>1, <2>2, CountedTyped
  <2>5. delta' \in [Attempt -> Int]
    <3>1. \A t \in Attempt : DeltaAt(x, t) \in Int
      BY <1>0, DeltaTyped
    <3>. QED  BY <2>2, <3>1
  <2>6. remaining' \subseteq remaining
    BY <2>2
  <2>. QED  BY <2>2, <2>3, <2>4, <2>5, <2>6 DEF ChunkFrom
<1>4. CASE CloseChunk
  <2>1. /\ start' = start + chunk /\ remaining' = ChunkFrom(start + chunk)
        /\ v' = Running(Seams) /\ delta' = [t \in Attempt |-> 0]
        /\ UNCHANGED <<law, engine, chunk, loads, x, seq, coin, pc>>
        /\ UNCHANGED <<tally, sweep, first_attempt, origin>>
    BY <1>4 DEF CloseChunk
  <2>2. start' \in Nat \ {0}
    BY <2>1, SizeAssumption
  <2>3. remaining' \subseteq Attempt /\ remaining' \subseteq ChunkFrom(start)'
    BY <2>1 DEF ChunkFrom
  <2>4. v' \in Int
    BY <2>1, RunningTyped
  <2>5. delta' \in [Attempt -> Int]
    BY <2>1
  <2>6. first' \in 0..Seams
    <3>. DEFINE hit == {t \in ChunkFrom(start) : Running(t) = v_min}
    <3>1. first' = IF law = "integer" /\ first = 0 /\ hit # {} THEN Min(hit) ELSE first
      BY <1>4 DEF CloseChunk
    <3>2. hit \in SUBSET Attempt
      BY ChunkIsSlice
    <3>. HIDE DEF hit
    <3>3. hit # {} => Min(hit) \in Attempt
      BY <3>2, SmallestAttempt
    <3>. QED  BY <3>1, <3>3, SizeAssumption DEF Attempt
  <2>. QED  BY <2>1, <2>2, <2>3, <2>4, <2>5, <2>6
<1>5. CASE CloseSweep
  <2>1. remaining = {}
    BY <1>5 DEF CloseSweep, Swept
  <2>2. /\ first_attempt' = IF first > 0 THEN sweep * Seams + first ELSE first_attempt
        /\ sweep' = sweep + 1 /\ seq' = NoDraws /\ coin' = NoCoins
        /\ start' = 1 /\ first' = 0
        /\ origin' = [x |-> x, v |-> v, tally |-> tally]
        /\ pc' = "loop"
        /\ UNCHANGED <<law, engine, chunk, loads, x, v, tally, remaining, delta>>
    BY <1>5 DEF CloseSweep
  <2>3. origin' \in [x : [Port -> 0..(MaxLoad * Unit(law))], v : Int, tally : TallyType]
    BY <2>2
  <2>4. first_attempt' \in Int /\ first' \in 0..Seams
    BY <2>2, SizeAssumption
  <2>. QED  BY <2>1, <2>2, <2>3, <2>4, DrawsTyped
<1>6. CASE Stop
  BY <1>6 DEF Stop, ChunkFrom
<1>7. CASE UNCHANGED vars
  BY <1>7 DEF vars, ChunkFrom
<1>. QED  BY <1>1, <1>2, <1>3, <1>4, <1>5, <1>6, <1>7 DEF Next

(***************************************************************************)
(* Readings never leave the range of the loads, whatever the draws, the    *)
(* chunks and the layers: the 64-bit engines compute with the numbers of   *)
(* the python engine.                                                      *)
(***************************************************************************)
THEOREM ReadingsStayInRange == Spec => []TypeOK
<1>1. Init => TypeOK
  BY TypeInit
<1>2. TypeOK /\ [Next]_vars => TypeOK'
  BY TypeStep
<1>. QED  BY <1>1, <1>2, PTL DEF Spec

-----------------------------------------------------------------------------
(***************************************************************************)
(* A port read by one attempt and written by another: then one of the      *)
(* other's ports is read and written the other way round.                  *)
(***************************************************************************)
LEMMA ReadsAreMutual ==
  ASSUME NEW l, NEW r \in Seam, NEW s \in Seam, Ends(s) \cap Reads(l, r) = {}
  PROVE  Ends(r) \cap Reads(l, s) = {}
<1>1. Ends(r) \subseteq Port /\ Ends(s) \subseteq Port
  BY SeamAssumption DEF Ends
<1>2. Ends(r) \cap Ends(s) = {}
  BY DEF Reads
<1>3. CASE l = "mean"
  <2>. SUFFICES ASSUME NEW q \in Ends(r), NEW p \in Ends(s), q \in neighbours[p]
                PROVE  FALSE
    BY <1>2, <1>3 DEF Reads
  <2>1. p \in neighbours[q]
    BY <1>1 DEF neighbours
  <2>2. p \in Reads(l, r)
    BY <1>3, <2>1 DEF Reads
  <2>. QED  BY <2>2
<1>4. CASE l # "mean"
  BY <1>2, <1>4 DEF Reads
<1>. QED  BY <1>3, <1>4

(***************************************************************************)
(* The attempts of a layer are pairwise independent.                       *)
(***************************************************************************)
LEMMA LayerIsIndependent ==
  ASSUME NEW R \in SUBSET Attempt, seq \in [Attempt -> Seam],
         NEW t \in Ready(R), NEW u \in Ready(R), t # u
  PROVE  /\ Ends(seq[t]) \cap Reads(law, seq[u]) = {}
         /\ Ends(seq[u]) \cap Reads(law, seq[t]) = {}
<1>1. t \in R /\ u \in R /\ t \in Int /\ u \in Int /\ seq[t] \in Seam /\ seq[u] \in Seam
  BY DEF Ready, Attempt
<1>2. CASE t < u
  <2>1. Ends(seq[t]) \cap Reads(law, seq[u]) = {}
    BY <1>1, <1>2 DEF Ready
  <2>. QED  BY <1>1, <2>1, ReadsAreMutual
<1>3. CASE u < t
  <2>1. Ends(seq[u]) \cap Reads(law, seq[t]) = {}
    BY <1>1, <1>3 DEF Ready
  <2>. QED  BY <1>1, <2>1, ReadsAreMutual
<1>. QED  BY <1>1, <1>2, <1>3

LEMMA OvertakingStep == TypeOK /\ NoOvertaking /\ [Next]_vars => NoOvertaking'
<1>. SUFFICES ASSUME TypeOK, NoOvertaking, [Next]_vars,
                     pc' = "moves", engine' = "numpy",
                     NEW t \in remaining', NEW u \in ChunkFrom(start)' \ remaining',
                     t < u
              PROVE  /\ Ends(seq'[t]) \cap Reads(law', seq'[u]) = {}
                     /\ Ends(seq'[u]) \cap Reads(law', seq'[t]) = {}
  BY DEF NoOvertaking
<1>1. CASE Draw
  BY <1>1 DEF Draw, choice, ChunkFrom
<1>2. CASE Move
  BY <1>2 DEF Move, choice
<1>3. CASE Layer
  <2>1. /\ remaining' = remaining \ Ready(remaining)
        /\ UNCHANGED <<law, engine, chunk, seq, start, pc>>
    BY <1>3 DEF Layer, choice
  <2>2. /\ t \in remaining /\ u \in ChunkFrom(start)
        /\ t \in Attempt /\ u \in Attempt
        /\ seq[t] \in Seam /\ seq[u] \in Seam
    BY <2>1 DEF TypeOK, ChunkFrom
  <2>3. CASE u \notin remaining
    BY <2>1, <2>2, <2>3 DEF NoOvertaking
  <2>4. CASE u \in remaining
    <3>1. u \in Ready(remaining)
      BY <2>1, <2>4
    <3>2. Ends(seq[t]) \cap Reads(law, seq[u]) = {}
      BY <2>2, <3>1 DEF Ready
    <3>. QED  BY <2>1, <2>2, <3>2, ReadsAreMutual
  <2>. QED  BY <2>3, <2>4
<1>4. CASE CloseChunk
  BY <1>4 DEF CloseChunk, choice, ChunkFrom
<1>5. CASE CloseSweep
  BY <1>5 DEF CloseSweep
<1>6. CASE Stop
  BY <1>6 DEF Stop
<1>7. CASE UNCHANGED vars
  BY <1>7 DEF vars, NoOvertaking, ChunkFrom
<1>. QED  BY <1>1, <1>2, <1>3, <1>4, <1>5, <1>6, <1>7 DEF Next

(***************************************************************************)
(* In no schedule does the layered engine make a move ahead of an earlier  *)
(* one that writes what it reads or reads what it writes.                  *)
(***************************************************************************)
THEOREM LayersNeverOvertake == Spec => []NoOvertaking
<1>1. Init => NoOvertaking
  BY DEF Init, NoOvertaking
<1>2. TypeOK /\ NoOvertaking /\ [Next]_vars => NoOvertaking'
  BY OvertakingStep
<1>. QED  BY <1>1, <1>2, ReadingsStayInRange, PTL DEF Spec
-----------------------------------------------------------------------------
Disjoint(T) == \A t, u \in T : t # u => Ends(seq[t]) \cap Ends(seq[u]) = {}

(***************************************************************************)
(* What attempts on disjoint seams write.                                  *)
(***************************************************************************)
LEMMA AfterWrites ==
  ASSUME seq \in [Attempt -> Seam],
         NEW l, NEW y, NEW T \in SUBSET Attempt, Disjoint(T)
  PROVE  /\ \A t \in T : /\ After(l, y, T)[seam_a[seq[t]]] = ToFirst(l, y, seq[t], coin[t])
                        /\ After(l, y, T)[seam_b[seq[t]]] = ToSecond(l, y, seq[t], coin[t])
         /\ \A p \in Port : (\A t \in T : p \notin Ends(seq[t])) => After(l, y, T)[p] = y[p]
<1>1. ASSUME NEW t \in T
      PROVE  After(l, y, T)[seam_a[seq[t]]] = ToFirst(l, y, seq[t], coin[t])
  <2>. DEFINE p == seam_a[seq[t]]
  <2>1. p \in Port
    BY SeamAssumption
  <2>2. \A u \in T : p = seam_a[seq[u]] => u = t
    BY DEF Disjoint, Ends
  <2>3. (CHOOSE u \in T : p = seam_a[seq[u]]) = t
    BY <2>2
  <2>. QED  BY <2>1, <2>3 DEF After
<1>2. ASSUME NEW t \in T
      PROVE  After(l, y, T)[seam_b[seq[t]]] = ToSecond(l, y, seq[t], coin[t])
  <2>. DEFINE p == seam_b[seq[t]]
  <2>1. p \in Port /\ seq[t] \in Seam /\ p # seam_a[seq[t]]
    BY SeamAssumption
  <2>2. \A u \in T : p # seam_a[seq[u]]
    BY <2>1 DEF Disjoint, Ends
  <2>3. \A u \in T : p = seam_b[seq[u]] => u = t
    BY DEF Disjoint, Ends
  <2>4. (CHOOSE u \in T : p = seam_b[seq[u]]) = t
    BY <2>3
  <2>. QED  BY <2>1, <2>2, <2>4 DEF After
<1>3. ASSUME NEW p \in Port, \A t \in T : p \notin Ends(seq[t])
      PROVE  After(l, y, T)[p] = y[p]
  BY <1>3 DEF After, Ends
<1>. QED  BY <1>1, <1>2, <1>3

LEMMA MoveReadsItsEnds ==
  ASSUME NEW l, NEW s \in Seam, NEW c, NEW y, NEW z,
         \A p \in Ends(s) : y[p] = z[p]
  PROVE  ToFirst(l, y, s, c) = ToFirst(l, z, s, c) /\ ToSecond(l, y, s, c) = ToSecond(l, z, s, c)
<1>1. Sum2(y, s) = Sum2(z, s)
  BY DEF Sum2, Ends
<1>. QED  BY <1>1 DEF ToFirst, ToSecond

LEMMA OneBeforeTheRest ==
  ASSUME seq \in [Attempt -> Seam],
         NEW l, NEW y, NEW T \in SUBSET Attempt, Disjoint(T), NEW t \in T
  PROVE  After(l, After(l, y, {t}), T \ {t}) = After(l, y, T)
<1>. DEFINE z == After(l, y, {t})
            S == T \ {t}
<1>2. /\ Disjoint({t}) /\ {t} \in SUBSET Attempt
      /\ Disjoint(S) /\ S \in SUBSET Attempt
  BY DEF Disjoint
<1>3. \A p \in Port : p \notin Ends(seq[t]) => z[p] = y[p]
  <2>1. \A p \in Port : (\A u \in {t} : p \notin Ends(seq[u])) => z[p] = y[p]
    BY <1>2, AfterWrites
  <2>. QED  BY <2>1
<1>3a. \A p \in Port : (\A u \in S : p \notin Ends(seq[u])) => After(l, z, S)[p] = z[p]
  BY <1>2, AfterWrites
<1>. HIDE DEF z
<1>. SUFFICES ASSUME NEW p \in Port PROVE After(l, z, S)[p] = After(l, y, T)[p]
  <2>1. After(l, z, S) = [p \in Port |-> After(l, z, S)[p]]
    BY DEF After
  <2>2. After(l, y, T) = [p \in Port |-> After(l, y, T)[p]]
    BY DEF After
  <2>. QED  BY <2>1, <2>2 DEF z
<1>4. CASE p \in Ends(seq[t])
  <2>1. \A u \in S : p \notin Ends(seq[u])
    BY <1>4 DEF Disjoint
  <2>2. After(l, z, S)[p] = z[p]
    BY <2>1, <1>3a
  <2>3. z[p] = After(l, y, T)[p]
    <3>1. /\ z[seam_a[seq[t]]] = ToFirst(l, y, seq[t], coin[t])
          /\ z[seam_b[seq[t]]] = ToSecond(l, y, seq[t], coin[t])
      BY <1>2, AfterWrites DEF z
    <3>2. /\ After(l, y, T)[seam_a[seq[t]]] = ToFirst(l, y, seq[t], coin[t])
          /\ After(l, y, T)[seam_b[seq[t]]] = ToSecond(l, y, seq[t], coin[t])
      BY AfterWrites
    <3>. QED  BY <1>4, <3>1, <3>2 DEF Ends
  <2>. QED  BY <2>2, <2>3
<1>5. ASSUME NEW u \in S, p \in Ends(seq[u])
      PROVE  After(l, z, S)[p] = After(l, y, T)[p]
  <2>1. seq[u] \in Seam /\ Ends(seq[u]) \subseteq Port
    BY SeamAssumption DEF Ends
  <2>2. \A q \in Ends(seq[u]) : y[q] = z[q]
    BY <1>3, <2>1 DEF Disjoint
  <2>3. /\ ToFirst(l, y, seq[u], coin[u]) = ToFirst(l, z, seq[u], coin[u])
        /\ ToSecond(l, y, seq[u], coin[u]) = ToSecond(l, z, seq[u], coin[u])
    BY <2>1, <2>2, MoveReadsItsEnds
  <2>4. /\ After(l, z, S)[seam_a[seq[u]]] = ToFirst(l, z, seq[u], coin[u])
        /\ After(l, z, S)[seam_b[seq[u]]] = ToSecond(l, z, seq[u], coin[u])
    BY <1>2, AfterWrites
  <2>5. /\ After(l, y, T)[seam_a[seq[u]]] = ToFirst(l, y, seq[u], coin[u])
        /\ After(l, y, T)[seam_b[seq[u]]] = ToSecond(l, y, seq[u], coin[u])
    BY AfterWrites
  <2>. QED  BY <1>5, <2>3, <2>4, <2>5 DEF Ends
<1>6. CASE \A u \in T : p \notin Ends(seq[u])
  <2>1. After(l, y, T)[p] = y[p]
    BY <1>6, AfterWrites
  <2>2. After(l, z, S)[p] = z[p]
    BY <1>3a, <1>6
  <2>. QED  BY <1>3, <1>6, <2>1, <2>2
<1>. QED  BY <1>4, <1>5, <1>6

(***************************************************************************)
(* A layer may be taken apart: any of its attempts made first and the rest *)
(* together from what it leaves give the readings of the whole layer, so   *)
(* the layer leaves what its attempts leave one by one in any order.       *)
(***************************************************************************)
THEOREM LayerIsSequential ==
  ASSUME TypeOK, NEW T \in SUBSET Ready(remaining), NEW t \in T
  PROVE  After(law, After(law, x, {t}), T \ {t}) = After(law, x, T)
<1>1. T \in SUBSET Attempt /\ remaining \in SUBSET Attempt /\ seq \in [Attempt -> Seam]
  BY DEF TypeOK, Ready
<1>2. Disjoint(T)
  BY <1>1, LayerIsIndependent DEF Disjoint, Reads
<1>. QED  BY <1>1, <1>2, OneBeforeTheRest

-----------------------------------------------------------------------------
(***************************************************************************)
(* Seams are parallel if they join the same ports.  PortGraph and the      *)
(* gluing of build_federation make none: the seams inside a carrier are    *)
(* the edges of its graph, and a port is glued once, to another carrier.   *)
(***************************************************************************)
NoParallelSeams == \A s, t \in Seam : Ends(s) = Ends(t) => s = t

At(p) == {t \in Seam : p \in Ends(t)}
Far(p) == [t \in At(p) |-> IF seam_a[t] = p THEN seam_b[t] ELSE seam_a[t]]

LEMMA FarEnds ==
  ASSUME NEW p \in Port
  PROVE  /\ Far(p) \in [At(p) -> neighbours[p]]
         /\ \A t \in At(p) :
              t \in Seam /\ Ends(t) = {p, Far(p)[t]} /\ Far(p)[t] # p /\ Far(p)[t] \in Port
         /\ \A q \in neighbours[p] : \E t \in At(p) : Far(p)[t] = q
<1>1. \A t \in At(p) : Ends(t) = {p, Far(p)[t]} /\ Far(p)[t] # p /\ Far(p)[t] \in Port
  BY SeamAssumption DEF At, Far, Ends
<1>2. \A t \in At(p) : Far(p)[t] \in neighbours[p]
  BY <1>1 DEF neighbours, At
<1>3. ASSUME NEW q \in neighbours[p] PROVE \E t \in At(p) : Far(p)[t] = q
  <2>1. PICK t \in Seam : Ends(t) = {p, q}
    BY <1>3 DEF neighbours
  <2>2. t \in At(p)
    BY <2>1 DEF At
  <2>3. {p, Far(p)[t]} = {p, q}
    BY <1>1, <2>1, <2>2
  <2>4. Far(p)[t] = q
    BY <1>1, <2>2, <2>3
  <2>. QED  BY <2>2, <2>4
<1>4. \A t \in At(p) : t \in Seam
  BY DEF At
<1>. QED  BY <1>1, <1>2, <1>3, <1>4 DEF Far

LEMMA OneSeamPerNeighbour ==
  ASSUME NoParallelSeams, NEW p \in Port, NEW s \in At(p)
  PROVE  /\ \A t, u \in At(p) : Far(p)[t] = Far(p)[u] => t = u
         /\ Far(p)[s] \in neighbours[p]
         /\ {Far(p)[t] : t \in At(p) \ {s}} = neighbours[p] \ {Far(p)[s]}
<1>1. \A t, u \in At(p) : Far(p)[t] = Far(p)[u] => t = u
  <2>. SUFFICES ASSUME NEW t \in At(p), NEW u \in At(p), Far(p)[t] = Far(p)[u] PROVE t = u
    OBVIOUS
  <2>0. Ends(t) = {p, Far(p)[t]} /\ Ends(u) = {p, Far(p)[u]}
    BY FarEnds
  <2>1. Ends(t) = Ends(u)
    BY <2>0
  <2>. QED  BY <2>1 DEF NoParallelSeams, At
<1>. QED  BY <1>1, FarEnds

(***************************************************************************)
(* What half a difference h taken off p does to the squares of its         *)
(* differences to N, the difference to q left out.                         *)
(***************************************************************************)
LEMMA SumOfSquares ==
  ASSUME NEW y, Typed(y), NEW p \in Port, NEW N \in SUBSET Port, NEW q \in N,
         NEW h \in Int,
         NEW F, \A r \in N : F[r] = Sq(h) - 2 * h * (y[p] - y[r])
  PROVE  /\ Cardinality(N) * y[p] - SumOver(y, N) \in Int
         /\ SumOver(F, N \ {q})
              = Sq(h) * (Cardinality(N) - 1)
                  - 2 * h * ((Cardinality(N) * y[p] - SumOver(y, N)) - (y[p] - y[q]))
<1>. DEFINE k == 2 * h
            c == 2 * h * y[p] - Sq(h)
            W == N \ {q}
            d == Cardinality(N)
            w == SumOver(y, W)
<1>1. /\ IsFiniteSet(N) /\ IsFiniteSet(W)
      /\ d \in Int /\ Cardinality(W) = d - 1
  <2>1. IsFiniteSet(N)
    BY RangesAreFinite, FS_Subset
  <2>. QED  BY <2>1, FS_RemoveElement, FS_CardinalityType
<1>2. c \in Int /\ k \in Int /\ y[p] \in Int /\ y[q] \in Int /\ Sq(h) \in Int
  BY DEF Typed, Sq
<1>3. \A r \in W : y[r] \in Int /\ F[r] = k * y[r] - c
  <2>. SUFFICES ASSUME NEW r \in W PROVE y[r] \in Int /\ F[r] = k * y[r] - c
    OBVIOUS
  <2>1. y[r] \in Int /\ F[r] = Sq(h) - 2 * h * (y[p] - y[r])
    BY DEF Typed
  <2>2. \A i, m, n \in Int : i - 2 * h * (m - n) = 2 * h * n - (2 * h * m - i)
    OBVIOUS
  <2>. QED  BY <1>2, <2>1, <2>2
<1>4. SumOver(F, W) = k * w - c * Cardinality(W)
  <2>. HIDE DEF k, c, W
  <2>. QED  BY <1>1, <1>2, <1>3, SumIsAffine
<1>5. SumOver(y, N) = y[q] + w /\ w \in Int
  <2>1. /\ \A r \in N : y[r] \in Int
        /\ \A r \in W : y[r] \in Int
    BY DEF Typed
  <2>. HIDE DEF W, d
  <2>2. w \in Int
    BY <1>1, <2>1, SumTyped
  <2>3. SumOver(y, N) = y[q] + SumOver(y, N \ {q})
    BY <1>1, <2>1, SumTakesAny
  <2>. QED  BY <2>2, <2>3 DEF W
<1>6. \A i, m, n, u, a \in Int :
        2 * h * u - (2 * h * m - i) * (a - 1)
          = i * (a - 1) - 2 * h * ((a * m - (n + u)) - (m - n))
  OBVIOUS
<1>7. SumOver(F, W) = 2 * h * w - (2 * h * y[p] - Sq(h)) * (d - 1)
  <2>. HIDE DEF W, w, d
  <2>. QED  BY <1>1, <1>4
<1>. DEFINE i == Sq(h)
            m == y[p]
            n == y[q]
<1>8. /\ i \in Int /\ m \in Int /\ n \in Int /\ w \in Int /\ d \in Int
      /\ SumOver(F, W) = 2 * h * w - (2 * h * m - i) * (d - 1)
  BY <1>1, <1>2, <1>5, <1>7
<1>. HIDE DEF i, m, n, w, d, W
<1>9. /\ SumOver(F, W) = i * (d - 1) - 2 * h * ((d * m - (n + w)) - (m - n))
      /\ d * m - (n + w) \in Int
  <2>1. d * m \in Int
    BY <1>8
  <2>2. SumOver(F, W) = i * (d - 1) - 2 * h * ((d * m - (n + w)) - (m - n))
    BY <1>6, <1>8
  <2>. QED  BY <1>8, <2>1, <2>2
<1>. QED  BY <1>5, <1>9 DEF i, m, n, d, W

\* What n squares gain whose differences, in total e, shrink by h each.
GainOf(h, n, e) == Sq(h) * n - 2 * h * e

(***************************************************************************)
(* The seams at p, but for s: half the difference h goes from p over s.    *)
(***************************************************************************)
LEMMA SumAtPort ==
  ASSUME NoParallelSeams, NEW y, Typed(y), NEW p \in Port, NEW s \in At(p), NEW h \in Int,
         NEW S, S = At(p) \ {s},
         NEW g, \A t \in S : g[t] = GainOf(h, 1, y[p] - y[Far(p)[t]])
  PROVE  /\ degree[p] \in Int /\ Excess(y, p) \in Int
         /\ SumOver(g, S)
              = GainOf(h, degree[p] - 1, Excess(y, p) - (y[p] - y[Far(p)[s]]))
<1>. DEFINE N == neighbours[p]
            q == Far(p)[s]
            F == [r \in Port |-> Sq(h) - 2 * h * (y[p] - y[r])]
            M == [t \in S |-> Far(p)[t]]
<1>1. N \in SUBSET Port /\ IsFiniteSet(N) /\ q \in N /\ IsFiniteSet(S)
  <2>1. N \in SUBSET Port
    BY DEF neighbours
  <2>2. IsFiniteSet(N)
    BY <2>1, RangesAreFinite, FS_Subset
  <2>3. q \in N
    BY OneSeamPerNeighbour
  <2>4. IsFiniteSet(S)
    BY RangesAreFinite, FS_Subset DEF At
  <2>. QED  BY <2>1, <2>2, <2>3, <2>4
<1>2. /\ {M[t] : t \in S} = N \ {q} /\ M \in [S -> N]
      /\ \A t, u \in S : M[t] = M[u] => t = u
  BY OneSeamPerNeighbour, FarEnds
<1>3. /\ \A d \in N : F[d] \in Int /\ F[d] = Sq(h) - 2 * h * (y[p] - y[d])
      /\ \A t \in S : g[t] = F[M[t]]
  <2>1. \A d \in N : F[d] \in Int /\ F[d] = Sq(h) - 2 * h * (y[p] - y[d])
    BY <1>1 DEF Typed, Sq
  <2>2. \A t \in S : M[t] \in N /\ M[t] = Far(p)[t]
    BY <1>2
  <2>. HIDE DEF F, M, N
  <2>3. \A t \in S : g[t] = Sq(h) * 1 - 2 * h * (y[p] - y[M[t]])
    BY <2>2 DEF GainOf
  <2>4. Sq(h) \in Int
    BY DEF Sq
  <2>. QED  BY <2>1, <2>2, <2>3, <2>4
<1>. HIDE DEF F, M, N, q
<1>4. SumOver(g, S) = SumOver(F, N \ {q})
  <2>1. \A d \in N : F[d] \in Int
    BY <1>3
  <2>2. \A t \in S : g[t] = F[M[t]]
    BY <1>3
  <2>3. SumOver(g, S) = SumOver(F, {M[t] : t \in S})
    BY <1>1, <1>2, <2>1, <2>2, SumReindexed
  <2>. QED  BY <1>2, <2>3
<1>5. /\ Cardinality(N) * y[p] - SumOver(y, N) \in Int
      /\ SumOver(F, N \ {q})
           = Sq(h) * (Cardinality(N) - 1)
               - 2 * h * ((Cardinality(N) * y[p] - SumOver(y, N)) - (y[p] - y[q]))
  BY <1>1, <1>3, SumOfSquares
<1>6. /\ degree[p] = Cardinality(N) /\ Excess(y, p) = Cardinality(N) * y[p] - SumOver(y, N)
      /\ Cardinality(N) \in Int
  BY <1>1, FS_CardinalityType DEF degree, Excess, N
<1>. QED  BY <1>4, <1>5, <1>6 DEF q, GainOf

(***************************************************************************)
(* A move by h changes the square of its own seam and of the others at its *)
(* two ports.                                                              *)
(***************************************************************************)
Shifted(y, s, h) ==
  [y EXCEPT ![seam_a[s]] = y[seam_a[s]] - h, ![seam_b[s]] = y[seam_b[s]] + h]

SeamSquares(y) == [t \in Seam |-> Sq(y[seam_a[t]] - y[seam_b[t]])]

Gain(y, z) == [t \in Seam |-> 1 * SeamSquares(z)[t] - SeamSquares(y)[t] - 0]

LEMMA EndsOfAt ==
  ASSUME NEW p \in Port, NEW t \in At(p)
  PROVE  /\ t \in Seam
         /\ \/ seam_a[t] = p /\ seam_b[t] = Far(p)[t]
            \/ seam_b[t] = p /\ seam_a[t] = Far(p)[t]
BY SeamAssumption DEF At, Far, Ends

LEMMA GainAt ==
  ASSUME NoParallelSeams, NEW y, Typed(y), NEW s \in Seam, NEW h \in Int
  PROVE  LET z == Shifted(y, s, h)
             a == seam_a[s]
             b == seam_b[s]
         IN  /\ Typed(z)
             /\ \A t \in At(a) \ {s} :
                  Gain(y, z)[t] = GainOf(h, 1, y[a] - y[Far(a)[t]])
             /\ \A t \in At(b) \ {s} :
                  Gain(y, z)[t] = GainOf(-h, 1, y[b] - y[Far(b)[t]])
             /\ \A t \in Seam : t \notin At(a) /\ t \notin At(b) => Gain(y, z)[t] = 0
<1>. DEFINE z == Shifted(y, s, h)
            a == seam_a[s]
            b == seam_b[s]
<1>1. a \in Port /\ b \in Port /\ a # b /\ Ends(s) = {a, b}
  BY EndsArePorts DEF Ends
<1>2. /\ z[a] = y[a] - h /\ z[b] = y[b] + h
      /\ \A p \in Port : p # a /\ p # b => z[p] = y[p]
      /\ \A p \in Port : z[p] \in Int /\ y[p] \in Int
      /\ Typed(z)
  BY <1>1 DEF Shifted, Typed
<1>. HIDE DEF z
<1>3. \A t \in Seam : Gain(y, z)[t] = Sq(z[seam_a[t]] - z[seam_b[t]]) - Sq(y[seam_a[t]] - y[seam_b[t]])
  <2>. SUFFICES ASSUME NEW t \in Seam
                PROVE  Gain(y, z)[t] = Sq(z[seam_a[t]] - z[seam_b[t]]) - Sq(y[seam_a[t]] - y[seam_b[t]])
    OBVIOUS
  <2>1. /\ z[seam_a[t]] \in Int /\ z[seam_b[t]] \in Int
        /\ y[seam_a[t]] \in Int /\ y[seam_b[t]] \in Int
    BY <1>2, EndsArePorts
  <2>2. /\ Sq(z[seam_a[t]] - z[seam_b[t]]) \in Int
        /\ Sq(y[seam_a[t]] - y[seam_b[t]]) \in Int
    BY <2>1 DEF Sq
  <2>3. Gain(y, z)[t] = 1 * Sq(z[seam_a[t]] - z[seam_b[t]]) - Sq(y[seam_a[t]] - y[seam_b[t]]) - 0
    BY DEF Gain, SeamSquares
  <2>. QED  BY <2>2, <2>3
<1>4. \A m, n \in Int :
        /\ Sq((m - h) - n) - Sq(m - n) = GainOf(h, 1, m - n)
        /\ Sq(n - (m - h)) - Sq(n - m) = GainOf(h, 1, m - n)
        /\ Sq((m + h) - n) - Sq(m - n) = GainOf(-h, 1, m - n)
        /\ Sq(n - (m + h)) - Sq(n - m) = GainOf(-h, 1, m - n)
  BY DEF Sq, GainOf
<1>5. ASSUME NEW t \in At(a), t # s PROVE t \notin At(b)
  <2>. SUFFICES ASSUME t \in At(b) PROVE FALSE
    OBVIOUS
  <2>1. t \in Seam /\ a \in Ends(t) /\ b \in Ends(t)
    BY <1>5 DEF At
  <2>2. Ends(t) = Ends(s)
    BY <1>1, <2>1 DEF Ends
  <2>. QED  BY <1>5, <2>1, <2>2 DEF NoParallelSeams
<1>6. s \in At(a) /\ s \in At(b)
  BY <1>1 DEF At
<1>7. ASSUME NEW t \in At(a) \ {s}
      PROVE  Gain(y, z)[t] = GainOf(h, 1, y[a] - y[Far(a)[t]])
  <2>1. /\ Far(a)[t] \in Port /\ Far(a)[t] # a /\ t \in Seam
        /\ Ends(t) = {a, Far(a)[t]}
    <3>1. t \in At(a)
      OBVIOUS
    <3>. HIDE DEF a, b
    <3>. QED  BY <1>1, <3>1, FarEnds
  <2>2. Far(a)[t] # b
    BY <1>1, <1>5, <2>1 DEF At
  <2>3. /\ z[Far(a)[t]] = y[Far(a)[t]] /\ z[a] = y[a] - h
        /\ y[a] \in Int /\ y[Far(a)[t]] \in Int
    BY <1>1, <1>2, <2>1, <2>2
  <2>4. CASE seam_a[t] = a /\ seam_b[t] = Far(a)[t]
    <3>1. Gain(y, z)[t] = Sq((y[a] - h) - y[Far(a)[t]]) - Sq(y[a] - y[Far(a)[t]])
      BY <1>3, <2>1, <2>3, <2>4
    <3>. QED  BY <1>4, <2>3, <3>1
  <2>5. CASE seam_b[t] = a /\ seam_a[t] = Far(a)[t]
    <3>1. Gain(y, z)[t] = Sq(y[Far(a)[t]] - (y[a] - h)) - Sq(y[Far(a)[t]] - y[a])
      BY <1>3, <2>1, <2>3, <2>5
    <3>. QED  BY <1>4, <2>3, <3>1
  <2>. QED  BY <1>1, <2>4, <2>5, EndsOfAt
<1>8. ASSUME NEW t \in At(b) \ {s}
      PROVE  Gain(y, z)[t] = GainOf(-h, 1, y[b] - y[Far(b)[t]])
  <2>1. /\ Far(b)[t] \in Port /\ Far(b)[t] # b /\ t \in Seam
        /\ Ends(t) = {b, Far(b)[t]}
    <3>1. t \in At(b)
      OBVIOUS
    <3>. HIDE DEF a, b
    <3>. QED  BY <1>1, <3>1, FarEnds
  <2>2. Far(b)[t] # a
    BY <1>1, <1>5, <2>1 DEF At
  <2>3. /\ z[Far(b)[t]] = y[Far(b)[t]] /\ z[b] = y[b] + h
        /\ y[b] \in Int /\ y[Far(b)[t]] \in Int
    BY <1>1, <1>2, <2>1, <2>2
  <2>4. CASE seam_a[t] = b /\ seam_b[t] = Far(b)[t]
    <3>1. Gain(y, z)[t] = Sq((y[b] + h) - y[Far(b)[t]]) - Sq(y[b] - y[Far(b)[t]])
      BY <1>3, <2>1, <2>3, <2>4
    <3>. QED  BY <1>4, <2>3, <3>1
  <2>5. CASE seam_b[t] = b /\ seam_a[t] = Far(b)[t]
    <3>1. Gain(y, z)[t] = Sq(y[Far(b)[t]] - (y[b] + h)) - Sq(y[Far(b)[t]] - y[b])
      BY <1>3, <2>1, <2>3, <2>5
    <3>. QED  BY <1>4, <2>3, <3>1
  <2>. QED  BY <1>1, <2>4, <2>5, EndsOfAt
<1>9. ASSUME NEW t \in Seam, t \notin At(a), t \notin At(b)
      PROVE  Gain(y, z)[t] = 0
  <2>1. seam_a[t] \notin {a, b} /\ seam_b[t] \notin {a, b}
    BY <1>9 DEF At, Ends
  <2>2. /\ z[seam_a[t]] = y[seam_a[t]] /\ z[seam_b[t]] = y[seam_b[t]]
        /\ y[seam_a[t]] \in Int /\ y[seam_b[t]] \in Int
    BY <1>2, <2>1, EndsArePorts
  <2>3. Gain(y, z)[t] = Sq(y[seam_a[t]] - y[seam_b[t]]) - Sq(y[seam_a[t]] - y[seam_b[t]])
    BY <1>3, <2>2
  <2>4. Sq(y[seam_a[t]] - y[seam_b[t]]) \in Int
    BY <2>2 DEF Sq
  <2>. QED  BY <2>3, <2>4
<1>. QED  BY <1>2, <1>7, <1>8, <1>9 DEF z

(***************************************************************************)
(* _seam_sum_change is the change of Phi by the mean of an even difference.*)
(***************************************************************************)
LEMMA SeamSumChangeIsExact ==
  ASSUME NoParallelSeams, NEW y, Typed(y), NEW s \in Seam, NEW h \in Int,
         Diff(y, s) = 2 * h
  PROVE  SeamSumChange(y, s) = 4 * (Phi(Shifted(y, s, h)) - Phi(y))
<1>. DEFINE z == Shifted(y, s, h)
            a == seam_a[s]
            b == seam_b[s]
            G == Gain(y, z)
            A == At(a) \ {s}
            B == At(b) \ {s}
            R == (Seam \ {s}) \ A
<1>1. a \in Port /\ b \in Port /\ a # b /\ Ends(s) = {a, b} /\ s \in At(a) /\ s \in At(b)
  BY EndsArePorts DEF Ends, At
<1>2. /\ Typed(z)
      /\ \A t \in A : G[t] = GainOf(h, 1, y[a] - y[Far(a)[t]])
      /\ \A t \in B : G[t] = GainOf(-h, 1, y[b] - y[Far(b)[t]])
      /\ \A t \in Seam : t \notin At(a) /\ t \notin At(b) => G[t] = 0
  BY GainAt
<1>3. y[a] \in Int /\ y[b] \in Int /\ y[a] - y[b] = 2 * h /\ Sq(h) \in Int /\ Diff(y, s) = y[a] - y[b]
  BY <1>1 DEF Typed, Diff, Sq
<1>4. \A t \in Seam : SeamSquares(z)[t] \in Int /\ SeamSquares(y)[t] \in Int /\ G[t] \in Int
  <2>. SUFFICES ASSUME NEW t \in Seam
                PROVE  SeamSquares(z)[t] \in Int /\ SeamSquares(y)[t] \in Int /\ G[t] \in Int
    OBVIOUS
  <2>1. /\ z[seam_a[t]] \in Int /\ z[seam_b[t]] \in Int
        /\ y[seam_a[t]] \in Int /\ y[seam_b[t]] \in Int
    <3>. HIDE DEF z
    <3>. QED  BY <1>2, EndsArePorts DEF Typed
  <2>. HIDE DEF z
  <2>2. SeamSquares(z)[t] \in Int /\ SeamSquares(y)[t] \in Int
    BY <2>1 DEF SeamSquares, Sq
  <2>3. G[t] = 1 * SeamSquares(z)[t] - SeamSquares(y)[t] - 0
    BY DEF Gain
  <2>. QED  BY <2>2, <2>3
<1>5. SumOver(G, Seam) = Phi(z) - Phi(y) /\ SumOver(G, Seam) \in Int
      /\ Phi(z) \in Int /\ Phi(y) \in Int
  <2>1. IsFiniteSet(Seam)
    BY RangesAreFinite
  <2>2. Phi(z) = SumOver(SeamSquares(z), Seam) /\ Phi(y) = SumOver(SeamSquares(y), Seam)
    BY DEF Phi, SeamSquares
  <2>. HIDE DEF z
  <2>3. \A t \in Seam : G[t] = 1 * SeamSquares(z)[t] - SeamSquares(y)[t] - 0
    BY DEF Gain
  <2>. HIDE DEF G
  <2>4. SumOver(G, Seam)
          = 1 * SumOver(SeamSquares(z), Seam) - SumOver(SeamSquares(y), Seam) - 0 * Cardinality(Seam)
    <3>1. \A t \in Seam : /\ SeamSquares(z)[t] \in Int /\ SeamSquares(y)[t] \in Int
                          /\ G[t] = 1 * SeamSquares(z)[t] - SeamSquares(y)[t] - 0
      BY <1>4, <2>3
    <3>2. 1 \in Int /\ 0 \in Int
      OBVIOUS
    <3>. QED  BY <2>1, <3>1, <3>2, SumIsLinear
  <2>5. /\ SumOver(SeamSquares(z), Seam) \in Int /\ SumOver(SeamSquares(y), Seam) \in Int
        /\ Cardinality(Seam) \in Nat /\ SumOver(G, Seam) \in Int
    BY <1>4, <2>1, SumTyped, FS_CardinalityType
  <2>. QED  BY <2>2, <2>4, <2>5
<1>6. SeamSquares(y)[s] = Sq(2 * h) /\ SeamSquares(z)[s] = 0 /\ G[s] = 0 - Sq(2 * h)
  <2>1. z[a] = y[a] - h /\ z[b] = y[b] + h
    BY <1>1 DEF Shifted, Typed
  <2>. HIDE DEF z
  <2>2. z[a] - z[b] = 0
    BY <1>3, <2>1
  <2>3. SeamSquares(y)[s] = Sq(2 * h) /\ SeamSquares(z)[s] = Sq(0)
    BY <1>3, <2>2 DEF SeamSquares
  <2>4. Sq(0) = 0 /\ Sq(2 * h) \in Int
    BY DEF Sq
  <2>5. G[s] = 1 * SeamSquares(z)[s] - SeamSquares(y)[s] - 0
    BY DEF Gain
  <2>. QED  BY <2>3, <2>4, <2>5
<1>. HIDE DEF z, G
<1>7. SumOver(G, Seam) = G[s] + SumOver(G, A) + SumOver(G, B)
      /\ SumOver(G, A) \in Int /\ SumOver(G, B) \in Int
  <2>1. /\ A \in SUBSET (Seam \ {s}) /\ B \in SUBSET R
        /\ IsFiniteSet(Seam) /\ IsFiniteSet(Seam \ {s}) /\ IsFiniteSet(R)
        /\ IsFiniteSet(A) /\ IsFiniteSet(B) /\ IsFiniteSet(R \ B)
    <3>1. A \in SUBSET (Seam \ {s}) /\ B \in SUBSET (Seam \ {s})
      BY DEF At
    <3>2. \A t \in B : t \notin A
      <4>. SUFFICES ASSUME NEW t \in Seam, t # s, t \in At(a), t \in At(b) PROVE FALSE
        BY <3>1
      <4>1. Ends(t) = Ends(s)
        BY <1>1 DEF At, Ends
      <4>. QED  BY <4>1 DEF NoParallelSeams
    <3>3. B \in SUBSET R
      BY <3>1, <3>2
    <3>4. IsFiniteSet(Seam) /\ R \in SUBSET Seam /\ R \ B \in SUBSET Seam
          /\ A \in SUBSET Seam /\ B \in SUBSET Seam /\ Seam \ {s} \in SUBSET Seam
      BY <3>1, RangesAreFinite
    <3>. HIDE DEF A, B, R
    <3>. QED  BY <3>1, <3>3, <3>4, FS_Subset
  <2>2. /\ \A t \in Seam : G[t] \in Int
        /\ \A t \in Seam \ {s} : G[t] \in Int
        /\ \A t \in R : G[t] \in Int
        /\ \A t \in A : G[t] \in Int
        /\ \A t \in B : G[t] \in Int
    BY <1>4, <2>1
  <2>3. \A t \in R \ B : G[t] = 0
    BY <1>2
  <2>4. SumOver(G, Seam) = G[s] + SumOver(G, Seam \ {s})
    BY <2>1, <2>2, SumTakesAny
  <2>5. SumOver(G, Seam \ {s}) = SumOver(G, A) + SumOver(G, R)
    <3>. HIDE DEF A
    <3>. QED  BY <2>1, <2>2, SumSplits
  <2>. HIDE DEF A, B, R
  <2>6. SumOver(G, R) = SumOver(G, B) + SumOver(G, R \ B)
    BY <2>1, <2>2, SumSplits
  <2>7. SumOver(G, R \ B) = 0
    BY <2>1, <2>3, SumOfZeros
  <2>8. SumOver(G, A) \in Int /\ SumOver(G, B) \in Int /\ G[s] \in Int
    BY <2>1, <2>2, SumTyped
  <2>. QED  BY <2>4, <2>5, <2>6, <2>7, <2>8
<1>8. /\ degree[a] \in Int /\ Excess(y, a) \in Int
      /\ SumOver(G, A) = GainOf(h, degree[a] - 1, Excess(y, a) - (y[a] - y[b]))
  <2>1. Far(a)[s] = b
    BY <1>1 DEF Far
  <2>2. a \in Port /\ s \in At(a) /\ A = At(a) \ {s}
    BY <1>1
  <2>3. \A t \in A : G[t] = GainOf(h, 1, y[a] - y[Far(a)[t]])
    BY <1>2
  <2>. HIDE DEF a, b, A, B, R
  <2>4. /\ degree[a] \in Int /\ Excess(y, a) \in Int
        /\ SumOver(G, A) = GainOf(h, degree[a] - 1, Excess(y, a) - (y[a] - y[Far(a)[s]]))
    BY <2>2, <2>3, SumAtPort
  <2>. QED  BY <2>1, <2>4
<1>9. /\ degree[b] \in Int /\ Excess(y, b) \in Int
      /\ SumOver(G, B) = GainOf(-h, degree[b] - 1, Excess(y, b) - (y[b] - y[a]))
  <2>1. Far(b)[s] = a /\ -h \in Int
    BY <1>1 DEF Far
  <2>2. b \in Port /\ s \in At(b) /\ B = At(b) \ {s}
    BY <1>1
  <2>3. \A t \in B : G[t] = GainOf(-h, 1, y[b] - y[Far(b)[t]])
    BY <1>2
  <2>. HIDE DEF a, b, A, B, R
  <2>4. /\ degree[b] \in Int /\ Excess(y, b) \in Int
        /\ SumOver(G, B) = GainOf(-h, degree[b] - 1, Excess(y, b) - (y[b] - y[Far(b)[s]]))
    BY <2>1, <2>2, <2>3, SumAtPort
  <2>. QED  BY <2>1, <2>4
<1>10. SeamSumChange(y, s)
         = Sq(2 * h) * (degree[a] + degree[b] + 2)
             - 4 * (2 * h) * (Excess(y, a) - Excess(y, b))
  BY DEF SeamSumChange
<1>11. \A i, j, m, n \in Int :
         (2 * h) * (2 * h) * (i + j + 2) - 4 * (2 * h) * (m - n)
           = 4 * ((0 - (2 * h) * (2 * h))
                    + (h * h * (i - 1) - 2 * h * (m - 2 * h))
                    + (h * h * (j - 1) - 2 * (-h) * (n + 2 * h)))
  OBVIOUS
<1>12. y[a] - y[b] = 2 * h /\ y[b] - y[a] = -(2 * h)
  BY <1>3
<1>. DEFINE i == degree[a]
            j == degree[b]
            m == Excess(y, a)
            n == Excess(y, b)
<1>13. /\ i \in Int /\ j \in Int /\ m \in Int /\ n \in Int
       /\ SumOver(G, A) = h * h * (i - 1) - 2 * h * (m - 2 * h)
       /\ SumOver(G, B) = h * h * (j - 1) - 2 * (-h) * (n + 2 * h)
       /\ G[s] = 0 - (2 * h) * (2 * h)
       /\ SeamSumChange(y, s) = (2 * h) * (2 * h) * (i + j + 2) - 4 * (2 * h) * (m - n)
  <2>1. m - (y[a] - y[b]) = m - 2 * h /\ n - (y[b] - y[a]) = n + 2 * h
    <3>. HIDE DEF m, n
    <3>1. m \in Int /\ n \in Int
      BY <1>8, <1>9 DEF m, n
    <3>. QED  BY <1>12, <3>1
  <2>. QED  BY <1>6, <1>8, <1>9, <1>10, <2>1 DEF Sq, GainOf
<1>. HIDE DEF i, j, m, n, A, B
<1>14. SeamSumChange(y, s) = 4 * (G[s] + SumOver(G, A) + SumOver(G, B))
  BY <1>11, <1>13
<1>. QED  BY <1>5, <1>7, <1>14 DEF z

(***************************************************************************)
(* The mean of two multiples of 2^(n + 1) is a multiple of 2^n: every      *)
(* attempt still to be made can halve once more.                           *)
(***************************************************************************)
Multiples(y, u) == \A p \in Port : \E k \in Int : y[p] = k * u

\* The attempts of this sweep still to be made.
Left ==
  {t \in Attempt : t \in remaining \/ (engine = "numpy" /\ t >= start + chunk)}

Halvings ==
  IF pc = "moves" THEN (MaxSweeps - sweep - 1) * Seams + Cardinality(Left)
  ELSE (MaxSweeps - sweep) * Seams

HalvingInv ==
  law = "mean" /\ pc # "done" =>
    /\ sweep <= MaxSweeps
    /\ pc = "moves" => sweep < MaxSweeps
    /\ Multiples(x, TwoTo[Halvings])

LEMMA FewerHalvings ==
  ASSUME NEW y, NEW n \in 0..Size, NEW m \in 0..n, Multiples(y, TwoTo[n])
  PROVE  Multiples(y, TwoTo[m])
<1>. DEFINE B == {j \in 0..Size : j <= n /\ ~Multiples(y, TwoTo[j])}
<1>. SUFFICES ASSUME B # {} PROVE FALSE
  BY SizeTyped
<1>1. PICK j \in 0..n : ~Multiples(y, TwoTo[j]) /\ Multiples(y, TwoTo[j + 1]) /\ j + 1 \in 1..Size
  <2>. DEFINE D == {i \in 0..n : n - i \in B}
  <2>1. D \in SUBSET (0..n) /\ 0 \notin D /\ 0 \in Nat /\ n \in Nat
    OBVIOUS
  <2>2. D # {}
    <3>1. PICK j \in B : TRUE
      OBVIOUS
    <3>2. n - j \in 0..n /\ n - (n - j) = j
      BY SizeTyped
    <3>. QED  BY <3>1, <3>2
  <2>3. PICK i \in D : i \in 1..n /\ i - 1 \in 0..n /\ i - 1 \notin D
    <3>. HIDE DEF D
    <3>1. \E i \in D : i \in (0 + 1)..n /\ i - 1 \in 0..n /\ i - 1 \notin D
      BY <2>1, <2>2, FirstBad
    <3>. QED  BY <3>1
  <2>4. n - i \in 0..n /\ n - (i - 1) = (n - i) + 1 /\ (n - i) + 1 \in 1..Size /\ (n - i) + 1 <= n
    BY <2>3, SizeTyped
  <2>5. ~Multiples(y, TwoTo[n - i])
    BY <2>3
  <2>6. Multiples(y, TwoTo[(n - i) + 1])
    <3>1. n - (i - 1) \notin B
      BY <2>3
    <3>. QED  BY <2>4, <3>1
  <2>. QED  BY <2>4, <2>5, <2>6
<1>2. TwoTo[j + 1] = 2 * TwoTo[j] /\ TwoTo[j] \in Int
  <2>1. (j + 1) - 1 = j /\ j \in 0..Size
    BY <1>1, SizeTyped
  <2>. QED  BY <1>1, <2>1, PowersOfTwo
<1>3. ASSUME NEW p \in Port PROVE \E k \in Int : y[p] = k * TwoTo[j]
  <2>1. PICK k \in Int : y[p] = k * (2 * TwoTo[j])
    BY <1>1, <1>2 DEF Multiples
  <2>2. \A u, i \in Int : i * (2 * u) = (2 * i) * u
    OBVIOUS
  <2>3. y[p] = (2 * k) * TwoTo[j] /\ 2 * k \in Int
    BY <1>2, <2>1, <2>2
  <2>. QED  BY <2>3
<1>. QED  BY <1>1, <1>3 DEF Multiples

LEMMA EvenReadings ==
  ASSUME NEW y, NEW n \in 1..Size, Multiples(y, TwoTo[n]), NEW s \in Seam
  PROVE  \E i, j \in Int :
           LET u == TwoTo[n - 1]
           IN  /\ u \in Int /\ i * u \in Int /\ j * u \in Int
               /\ y[seam_a[s]] = 2 * (i * u) /\ y[seam_b[s]] = 2 * (j * u)
               /\ Sum2(y, s) \div 2 = i * u + j * u
               /\ Sum2(y, s) - Sum2(y, s) \div 2 = i * u + j * u
<1>. DEFINE u == TwoTo[n - 1]
<1>1. u \in Int /\ TwoTo[n] = 2 * u
  <2>1. n - 1 \in 0..Size
    BY SizeTyped
  <2>. QED  BY <2>1, PowersOfTwo
<1>2. PICK i \in Int : y[seam_a[s]] = i * (2 * u)
  BY <1>1, EndsArePorts DEF Multiples
<1>3. PICK j \in Int : y[seam_b[s]] = j * (2 * u)
  BY <1>1, EndsArePorts DEF Multiples
<1>. HIDE DEF u
<1>4. i * u \in Int /\ j * u \in Int /\ i * (2 * u) = 2 * (i * u) /\ j * (2 * u) = 2 * (j * u)
  BY <1>1
<1>5. Sum2(y, s) = 2 * (i * u) + 2 * (j * u)
  BY <1>2, <1>3, <1>4 DEF Sum2
<1>6. \A a, b \in Int : (2 * a + 2 * b) \div 2 = a + b
  OBVIOUS
<1>7. Sum2(y, s) \div 2 = i * u + j * u
  BY <1>4, <1>5, <1>6
<1>8. Sum2(y, s) - Sum2(y, s) \div 2 = i * u + j * u
  BY <1>4, <1>5, <1>7
<1>. QED  BY <1>1, <1>2, <1>3, <1>4, <1>7, <1>8 DEF u

LEMMA MeansAreMultiples ==
  ASSUME NEW y, NEW n \in 1..Size, Multiples(y, TwoTo[n]), NEW T \in SUBSET Attempt,
         seq \in [Attempt -> Seam]
  PROVE  Multiples(After("mean", y, T), TwoTo[n - 1])
<1>. DEFINE u == TwoTo[n - 1]
            z == After("mean", y, T)
<1>1. \A t \in T : /\ \E k \in Int : ToFirst("mean", y, seq[t], coin[t]) = k * u
                   /\ \E k \in Int : ToSecond("mean", y, seq[t], coin[t]) = k * u
  <2>. SUFFICES ASSUME NEW t \in T
                PROVE  /\ \E k \in Int : ToFirst("mean", y, seq[t], coin[t]) = k * u
                       /\ \E k \in Int : ToSecond("mean", y, seq[t], coin[t]) = k * u
    OBVIOUS
  <2>1. seq[t] \in Seam
    OBVIOUS
  <2>2. PICK i, j \in Int :
          /\ u \in Int
          /\ Sum2(y, seq[t]) \div 2 = i * u + j * u
          /\ Sum2(y, seq[t]) - Sum2(y, seq[t]) \div 2 = i * u + j * u
    BY <2>1, EvenReadings
  <2>4. /\ ToFirst("mean", y, seq[t], coin[t]) = i * u + j * u
        /\ ToSecond("mean", y, seq[t], coin[t]) = i * u + j * u
    BY <2>2 DEF ToFirst, ToSecond
  <2>. HIDE DEF u
  <2>3. i * u + j * u = (i + j) * u /\ i + j \in Int
    BY <2>2
  <2>. QED  BY <2>3, <2>4
<1>2. Multiples(y, u)
  <2>1. n - 1 \in 0..n /\ n \in 0..Size
    OBVIOUS
  <2>. QED  BY <2>1, FewerHalvings
<1>. SUFFICES ASSUME NEW p \in Port PROVE \E k \in Int : z[p] = k * u
  BY DEF Multiples
<1>3. CASE \E t \in T : p = seam_a[seq[t]]
  <2>1. PICK t \in T : z[p] = ToFirst("mean", y, seq[t], coin[t])
    BY <1>3 DEF After
  <2>. HIDE DEF z, u
  <2>. QED  BY <1>1, <2>1
<1>4. CASE ~(\E t \in T : p = seam_a[seq[t]]) /\ \E t \in T : p = seam_b[seq[t]]
  <2>1. PICK t \in T : z[p] = ToSecond("mean", y, seq[t], coin[t])
    BY <1>4 DEF After
  <2>. HIDE DEF z, u
  <2>. QED  BY <1>1, <2>1
<1>5. CASE ~(\E t \in T : p = seam_a[seq[t]]) /\ ~\E t \in T : p = seam_b[seq[t]]
  <2>1. z[p] = y[p]
    BY <1>5 DEF After
  <2>. HIDE DEF z, u
  <2>. QED  BY <1>2, <2>1 DEF Multiples
<1>. QED  BY <1>3, <1>4, <1>5

(***************************************************************************)
(* A step uses up one halving for every attempt that it makes.             *)
(***************************************************************************)
LEMMA HalvingsBounded ==
  ASSUME NEW k \in Nat, k <= MaxSweeps, NEW c \in 0..Seams
  PROVE  /\ (MaxSweeps - k) * Seams \in 0..Size
         /\ k < MaxSweeps =>
              /\ (MaxSweeps - k) * Seams = (MaxSweeps - k - 1) * Seams + Seams
              /\ (MaxSweeps - k - 1) * Seams \in Nat
              /\ (MaxSweeps - k - 1) * Seams + c \in 0..Size
<1>1. /\ \A a, b, m \in Nat : a <= b => a * m <= b * m /\ a * m \in Nat /\ b * m \in Nat
      /\ \A a, m \in Int : (a - 1) * m + m = a * m
  OBVIOUS
<1>2. MaxSweeps \in Nat /\ Seams \in Nat
  BY SizeAssumption
<1>3. MaxSweeps - k \in Nat /\ MaxSweeps - k <= MaxSweeps
  BY <1>2
<1>4. (MaxSweeps - k) * Seams \in Nat /\ (MaxSweeps - k) * Seams <= Size
  BY <1>1, <1>2, <1>3 DEF Size
<1>5. ASSUME k < MaxSweeps
      PROVE  /\ (MaxSweeps - k) * Seams = (MaxSweeps - k - 1) * Seams + Seams
             /\ (MaxSweeps - k - 1) * Seams \in Nat
  <2>1. MaxSweeps - k - 1 \in Nat
    BY <1>2, <1>5
  <2>. QED  BY <1>1, <1>2, <1>3, <2>1
<1>. QED  BY <1>2, <1>4, <1>5, SizeTyped

LEMMA HalvingsTyped ==
  TypeOK /\ law = "mean" /\ pc # "done" /\ HalvingInv =>
    /\ Left \in SUBSET Attempt /\ IsFiniteSet(Left) /\ Cardinality(Left) \in 0..Seams
    /\ Halvings \in 0..Size
<1>. SUFFICES ASSUME TypeOK, law = "mean", pc # "done", HalvingInv
              PROVE  /\ Left \in SUBSET Attempt /\ IsFiniteSet(Left)
                     /\ Cardinality(Left) \in 0..Seams
                     /\ Halvings \in 0..Size
  OBVIOUS
<1>1. Left \in SUBSET Attempt
  BY DEF Left
<1>2. IsFiniteSet(Attempt) /\ Cardinality(Attempt) = Seams
  BY SizeAssumption, FS_Interval DEF Attempt
<1>3. IsFiniteSet(Left) /\ Cardinality(Left) \in Nat /\ Cardinality(Left) <= Seams
  BY <1>1, <1>2, FS_Subset, FS_CardinalityType
<1>4. Cardinality(Left) \in 0..Seams
  BY <1>3, SizeAssumption
<1>5. sweep \in Nat /\ sweep <= MaxSweeps /\ (pc = "moves" => sweep < MaxSweeps)
  BY DEF TypeOK, HalvingInv
<1>. QED  BY <1>1, <1>3, <1>4, <1>5, HalvingsBounded DEF Halvings

LEMMA MovesHalve ==
  ASSUME TypeOK, HalvingInv, law = "mean", pc = "moves",
         NEW T \in SUBSET remaining, T # {},
         x' = After(law, x, T), remaining' = remaining \ T,
         UNCHANGED <<law, engine, chunk, start, sweep, pc>>
  PROVE  HalvingInv'
<1>1. /\ Left \in SUBSET Attempt /\ IsFiniteSet(Left) /\ Cardinality(Left) \in 0..Seams
      /\ Halvings \in 0..Size
  BY HalvingsTyped
<1>2. PICK t \in T : TRUE
  OBVIOUS
<1>3. Left' \in SUBSET (Left \ {t}) /\ t \in Left
  <2>1. t \in Attempt /\ t \in remaining
    BY DEF TypeOK
  <2>2. engine = "numpy" => t < start + chunk
    BY <2>1 DEF TypeOK, ChunkFrom
  <2>3. start + chunk \in Int /\ t \in Int
    BY <2>1, SizeAssumption DEF TypeOK, Attempt
  <2>. QED  BY <2>1, <2>2, <2>3 DEF Left
<1>4. Cardinality(Left') \in Nat /\ Cardinality(Left') <= Cardinality(Left) - 1
  <2>1. IsFiniteSet(Left \ {t}) /\ Cardinality(Left \ {t}) = Cardinality(Left) - 1
    BY <1>1, <1>3, FS_RemoveElement
  <2>. QED  BY <1>3, <2>1, FS_Subset, FS_CardinalityType
<1>5. /\ sweep \in Nat /\ sweep < MaxSweeps /\ Multiples(x, TwoTo[Halvings])
      /\ (MaxSweeps - sweep - 1) * Seams \in Nat
  <2>1. sweep \in Nat /\ sweep < MaxSweeps /\ Multiples(x, TwoTo[Halvings])
    BY DEF HalvingInv, TypeOK
  <2>2. sweep <= MaxSweeps
    BY <2>1, SizeAssumption
  <2>. QED  BY <1>1, <2>1, <2>2, HalvingsBounded
<1>6. /\ Halvings = (MaxSweeps - sweep - 1) * Seams + Cardinality(Left)
      /\ Halvings' = (MaxSweeps - sweep - 1) * Seams + Cardinality(Left')
  BY DEF Halvings
<1>7. Halvings \in 1..Size /\ Halvings' \in 0..(Halvings - 1)
  <2>. DEFINE a == (MaxSweeps - sweep - 1) * Seams
              c == Cardinality(Left)
              d == Cardinality(Left')
  <2>1. a \in Nat /\ c \in Int /\ d \in Nat /\ d <= c - 1
    BY <1>1, <1>4, <1>5
  <2>2. Halvings = a + c /\ Halvings' = a + d
    BY <1>6
  <2>. HIDE DEF a, c, d
  <2>. QED  BY <1>1, <2>1, <2>2
<1>8. Multiples(x', TwoTo[Halvings - 1])
  <2>1. T \in SUBSET Attempt /\ seq \in [Attempt -> Seam]
    BY DEF TypeOK
  <2>. QED  BY <1>5, <1>7, <2>1, MeansAreMultiples
<1>9. Multiples(x', TwoTo[Halvings'])
  <2>1. Halvings - 1 \in 0..Size
    BY <1>7, SizeTyped
  <2>. QED  BY <1>7, <1>8, <2>1, FewerHalvings
<1>10. Multiples(x, TwoTo[Halvings])' = Multiples(x', TwoTo[Halvings'])
  BY DEF Multiples, TwoTo
<1>. QED  BY <1>5, <1>9, <1>10, SizeAssumption DEF HalvingInv

LEMMA HalvingInit == Init => HalvingInv
<1>. SUFFICES ASSUME Init, law = "mean" PROVE HalvingInv
  BY DEF HalvingInv
<1>1. sweep = 0 /\ pc = "loop" /\ loads \in [Port -> 0..MaxLoad]
      /\ x = [p \in Port |-> loads[p] * Unit(law)]
  BY LoadAssumption DEF Init
<1>2. Halvings = Size /\ 0 <= MaxSweeps
  BY <1>1, SizeAssumption DEF Halvings, Size
<1>3. Unit(law) = TwoTo[Size]
  BY DEF Unit, Size
<1>4. ASSUME NEW p \in Port PROVE \E k \in Int : x[p] = k * TwoTo[Size]
  <2>1. loads[p] \in Int
    BY <1>1, SizeAssumption
  <2>. QED  BY <1>1, <1>3, <2>1
<1>. QED  BY <1>1, <1>2, <1>4 DEF HalvingInv, Multiples

LEMMA HalvingStep == TypeOK /\ HalvingInv /\ [Next]_vars => HalvingInv'
<1>. SUFFICES ASSUME TypeOK, HalvingInv, [Next]_vars PROVE HalvingInv'
  OBVIOUS
<1>0. law' = law
  <2>1. CASE Draw
    BY <2>1 DEF Draw, choice
  <2>2. CASE Move
    BY <2>2 DEF Move, choice
  <2>3. CASE Layer
    BY <2>3 DEF Layer, choice
  <2>4. CASE CloseChunk \/ CloseSweep \/ Stop \/ UNCHANGED vars
    BY <2>4 DEF CloseChunk, CloseSweep, Stop, vars, choice
  <2>. QED  BY <2>1, <2>2, <2>3, <2>4 DEF Next
<1>. SUFFICES ASSUME law = "mean", law' = "mean" PROVE HalvingInv'
  BY <1>0 DEF HalvingInv
<1>. USE DEF choice
<1>1. CASE Draw
  <2>1. /\ pc = "loop" /\ pc' = "moves" /\ sweep < MaxSweeps /\ sweep' = sweep /\ x' = x
        /\ start' = 1 /\ engine' = engine /\ chunk' = chunk
        /\ remaining' = IF engine = "numpy" THEN ChunkFrom(1) ELSE Attempt
    BY <1>1 DEF Draw, Continue
  <2>2. Left' = Attempt
    BY <2>1, SizeAssumption DEF Left, ChunkFrom, Attempt, TypeOK
  <2>3. Cardinality(Attempt) = Seams
    BY SizeAssumption, FS_Interval DEF Attempt
  <2>4. Halvings' = (MaxSweeps - sweep - 1) * Seams + Seams
    BY <2>1, <2>2, <2>3 DEF Halvings
  <2>5. Halvings = (MaxSweeps - sweep) * Seams
    BY <2>1 DEF Halvings
  <2>6. Halvings' = Halvings
    <3>1. sweep \in Nat /\ sweep <= MaxSweeps /\ Seams \in 0..Seams
      BY <2>1, SizeAssumption DEF TypeOK
    <3>. QED  BY <2>1, <2>4, <2>5, <3>1, HalvingsBounded
  <2>. QED  BY <2>1, <2>6, SizeAssumption DEF HalvingInv, Multiples, TwoTo
<1>2. CASE Move
  <2>1. PICK t \in remaining :
          /\ x' = After(law, x, {t}) /\ remaining' = remaining \ {t}
    BY <1>2 DEF Move
  <2>2. pc = "moves" /\ UNCHANGED <<law, engine, chunk, start, sweep, pc>>
    BY <1>2 DEF Move
  <2>3. {t} \in SUBSET remaining /\ {t} # {}
    OBVIOUS
  <2>. QED  BY <2>1, <2>2, <2>3, MovesHalve
<1>3. CASE Layer
  <2>1. /\ pc = "moves" /\ UNCHANGED <<law, engine, chunk, start, sweep, pc>>
        /\ remaining # {}
        /\ x' = After(law, x, Ready(remaining))
        /\ remaining' = remaining \ Ready(remaining)
    BY <1>3 DEF Layer
  <2>2. Ready(remaining) \in SUBSET remaining
    BY DEF Ready
  <2>3. Ready(remaining) # {}
    <3>1. remaining \in SUBSET Attempt
      BY DEF TypeOK
    <3>2. Min(remaining) \in remaining /\ \A t \in remaining : Min(remaining) <= t
      BY <2>1, <3>1, SmallestAttempt
    <3>3. \A t \in remaining : ~(t < Min(remaining))
      <4>1. \A t \in remaining : t \in Int
        BY <3>1 DEF Attempt
      <4>2. \A a, b \in Int : a <= b => ~(b < a)
        OBVIOUS
      <4>. QED  BY <3>2, <4>1, <4>2
    <3>4. Min(remaining) \in Ready(remaining)
      BY <3>2, <3>3 DEF Ready
    <3>. QED  BY <3>4
  <2>. QED  BY <2>1, <2>2, <2>3, MovesHalve
<1>4. CASE CloseChunk
  <2>1. /\ pc = "moves" /\ pc' = pc /\ engine = "numpy" /\ engine' = engine
        /\ remaining = {} /\ remaining' = ChunkFrom(start + chunk)
        /\ start' = start + chunk /\ chunk' = chunk /\ sweep' = sweep /\ x' = x
    BY <1>4 DEF CloseChunk
  <2>2. chunk \in Nat /\ start \in Nat
    BY SizeAssumption DEF TypeOK
  <2>3. Left' = Left
    <3>1. Left = {t \in Attempt : t >= start + chunk}
      BY <2>1 DEF Left
    <3>2. Left' = {t \in Attempt : t \in ChunkFrom(start + chunk) \/ t >= (start + chunk) + chunk}
      BY <2>1 DEF Left
    <3>3. \A t \in Attempt : t \in Int
      BY DEF Attempt
    <3>. QED  BY <2>2, <3>1, <3>2, <3>3 DEF ChunkFrom
  <2>4. Halvings' = Halvings
    BY <2>1, <2>3 DEF Halvings
  <2>. QED  BY <2>1, <2>4 DEF HalvingInv, Multiples, TwoTo
<1>5. CASE CloseSweep
  <2>1. /\ pc = "moves" /\ pc' = "loop" /\ x' = x /\ sweep' = sweep + 1 /\ Swept
    BY <1>5 DEF CloseSweep, Swept
  <2>2. Left = {}
    <3>1. remaining = {} /\ (engine = "numpy" => start > Seams)
      BY <2>1 DEF Swept
    <3>2. start \in Nat /\ chunk \in Nat /\ Seams \in Nat
      BY SizeAssumption DEF TypeOK
    <3>. QED  BY <3>1, <3>2 DEF Left, Attempt
  <2>3. Cardinality(Left) = 0
    BY <2>2, FS_EmptySet
  <2>4. /\ sweep \in Nat /\ sweep < MaxSweeps /\ MaxSweeps \in Nat
        /\ Multiples(x, TwoTo[Halvings])
    BY <2>1, SizeAssumption DEF HalvingInv, TypeOK
  <2>5. Halvings = (MaxSweeps - sweep - 1) * Seams + 0
    BY <2>1, <2>3 DEF Halvings
  <2>6. Halvings' = (MaxSweeps - (sweep + 1)) * Seams
    BY <2>1 DEF Halvings
  <2>7. (MaxSweeps - sweep - 1) * Seams + 0 = (MaxSweeps - (sweep + 1)) * Seams
    <3>1. MaxSweeps - (sweep + 1) = MaxSweeps - sweep - 1
      BY <2>4
    <3>2. (MaxSweeps - sweep - 1) * Seams \in Int
      BY <2>4, SizeAssumption
    <3>. QED  BY <3>1, <3>2
  <2>8. Multiples(x, TwoTo[Halvings])'
    BY <2>1, <2>4, <2>5, <2>6, <2>7 DEF Multiples, TwoTo
  <2>9. sweep' <= MaxSweeps
    BY <2>1, <2>4
  <2>. QED  BY <2>1, <2>8, <2>9 DEF HalvingInv
<1>6. CASE Stop
  BY <1>6 DEF Stop, HalvingInv
<1>7. CASE UNCHANGED vars
  <2>1. UNCHANGED <<pc, sweep, x, remaining, engine, start, chunk>>
    BY <1>7 DEF vars
  <2>2. Left' = Left
    BY <2>1 DEF Left
  <2>3. Halvings' = Halvings
    BY <2>1, <2>2 DEF Halvings
  <2>. QED  BY <2>1, <2>3 DEF HalvingInv, Multiples, TwoTo
<1>. QED  BY <1>1, <1>2, <1>3, <1>4, <1>5, <1>6, <1>7 DEF Next

LEMMA PhiChangeFollows ==
  NoParallelSeams /\ TypeOK /\ HalvingInv => PhiChangeExact
<1>. SUFFICES ASSUME NoParallelSeams, TypeOK, HalvingInv,
                     law = "mean", pc = "loop", sweep < MaxSweeps, NEW s \in Seam
              PROVE  LET y == [x EXCEPT ![seam_a[s]] = ToFirst(law, x, s, FALSE),
                                        ![seam_b[s]] = ToSecond(law, x, s, FALSE)]
                     IN  SeamSumChange(x, s) = 4 * (Phi(y) - Phi(x))
  BY DEF PhiChangeExact
<1>1. /\ Typed(x) /\ Multiples(x, TwoTo[Halvings])
      /\ Halvings \in 1..Size
  <2>1. Typed(x)
    BY Bounds DEF TypeOK, Typed
  <2>2. Halvings = (MaxSweeps - sweep) * Seams /\ Halvings \in 0..Size
    BY HalvingsTyped DEF Halvings
  <2>3. Seams >= 1 /\ MaxSweeps - sweep >= 1 /\ MaxSweeps - sweep \in Int
    BY SizeAssumption DEF TypeOK, Seam
  <2>4. \A a, b \in Int : a >= 1 /\ b >= 1 => a * b >= 1
    OBVIOUS
  <2>5. Halvings >= 1
    BY <2>2, <2>3, <2>4, SizeAssumption
  <2>6. Multiples(x, TwoTo[Halvings])
    BY DEF HalvingInv
  <2>. QED  BY <2>1, <2>2, <2>5, <2>6, SizeTyped
<1>2. PICK i, j \in Int :
        LET u == TwoTo[Halvings - 1]
        IN  /\ u \in Int /\ i * u \in Int /\ j * u \in Int
            /\ x[seam_a[s]] = 2 * (i * u) /\ x[seam_b[s]] = 2 * (j * u)
            /\ Sum2(x, s) \div 2 = i * u + j * u
            /\ Sum2(x, s) - Sum2(x, s) \div 2 = i * u + j * u
  <2>. DEFINE k == Halvings
  <2>1. k \in 1..Size /\ Multiples(x, TwoTo[k])
    BY <1>1
  <2>. HIDE DEF k
  <2>2. \E i, j \in Int :
          LET u == TwoTo[k - 1]
          IN  /\ u \in Int /\ i * u \in Int /\ j * u \in Int
              /\ x[seam_a[s]] = 2 * (i * u) /\ x[seam_b[s]] = 2 * (j * u)
              /\ Sum2(x, s) \div 2 = i * u + j * u
              /\ Sum2(x, s) - Sum2(x, s) \div 2 = i * u + j * u
    BY <2>1, EvenReadings
  <2>. QED  BY <2>2 DEF k
<1>. DEFINE m == i * TwoTo[Halvings - 1]
            n == j * TwoTo[Halvings - 1]
            h == m - n
<1>3. /\ m \in Int /\ n \in Int
      /\ x[seam_a[s]] = 2 * m /\ x[seam_b[s]] = 2 * n
      /\ ToFirst(law, x, s, FALSE) = m + n /\ ToSecond(law, x, s, FALSE) = m + n
  BY <1>2 DEF ToFirst, ToSecond
<1>. HIDE DEF m, n
<1>4. /\ ToFirst(law, x, s, FALSE) = x[seam_a[s]] - h
      /\ ToSecond(law, x, s, FALSE) = x[seam_b[s]] + h
      /\ Diff(x, s) = 2 * h /\ h \in Int
  <2>1. h \in Int /\ m + n = 2 * m - h /\ m + n = 2 * n + h /\ 2 * m - 2 * n = 2 * h
    BY <1>3
  <2>2. Diff(x, s) = 2 * m - 2 * n
    BY <1>3 DEF Diff
  <2>. HIDE DEF h
  <2>. QED  BY <1>3, <2>1, <2>2
<1>5. SeamSumChange(x, s) = 4 * (Phi(Shifted(x, s, h)) - Phi(x))
  <2>. HIDE DEF h
  <2>. QED  BY <1>1, <1>4, SeamSumChangeIsExact
<1>6. Shifted(x, s, h) = [x EXCEPT ![seam_a[s]] = ToFirst(law, x, s, FALSE),
                                   ![seam_b[s]] = ToSecond(law, x, s, FALSE)]
  BY <1>4 DEF Shifted
<1>. QED  BY <1>5, <1>6

(***************************************************************************)
(* In federations without parallel seams the closed form by which the      *)
(* engines count raising moves is the change of Phi, for every seam and    *)
(* every schedule of the mean law.                                         *)
(***************************************************************************)
THEOREM RaisesAreExact == NoParallelSeams => (Spec => []PhiChangeExact)
<1>. SUFFICES ASSUME NoParallelSeams PROVE Spec => []PhiChangeExact
  OBVIOUS
<1>1. Init => HalvingInv
  BY HalvingInit
<1>2. TypeOK /\ HalvingInv /\ [Next]_vars => HalvingInv'
  BY HalvingStep
<1>3. TypeOK /\ HalvingInv => PhiChangeExact
  BY PhiChangeFollows
<1>. QED  BY <1>1, <1>2, <1>3, ReadingsStayInRange, PTL DEF Spec
=============================================================================
