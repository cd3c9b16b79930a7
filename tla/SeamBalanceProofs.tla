--------------------------- MODULE SeamBalanceProofs ---------------------------
(***************************************************************************)
(* Proofs about the integer law: every layer descends or permutes the      *)
(* readings of a component, a schedule that has reached the minimum of V   *)
(* ends in the balanced class, and from every state moves lead there.      *)
(***************************************************************************)
EXTENDS SeamEngineProofs

(***************************************************************************)
(* The search of component(p): each round adds the neighbours.             *)
(***************************************************************************)
Grow(S) == S \cup UNION {neighbours[q] : q \in S}

IsReach(g, p, m) ==
  g = [n \in 0..m |-> IF n = 0 THEN {p} ELSE Grow(g[n - 1])]

LEMMA ReachExists ==
  ASSUME NEW p, NEW hi \in Nat
  PROVE  \E g : IsReach(g, p, hi)
<1>. DEFINE B == {m \in 0..hi : ~\E g : IsReach(g, p, m)}
<1>. SUFFICES ASSUME B # {} PROVE FALSE
  OBVIOUS
<1>1. 0 \notin B
  <2>1. IsReach([n \in 0..0 |-> {p}], p, 0)
    BY DEF IsReach
  <2>. QED  BY <2>1
<1>2. PICK m \in B : m \in 1..hi /\ m - 1 \in 0..hi /\ m - 1 \notin B
  <2>1. B \in SUBSET (0..hi) /\ 0 \in Nat
    OBVIOUS
  <2>. HIDE DEF B
  <2>2. \E m \in B : m \in (0 + 1)..hi /\ m - 1 \in 0..hi /\ m - 1 \notin B
    BY <1>1, <2>1, FirstBad
  <2>. QED  BY <2>2
<1>3. PICK g : IsReach(g, p, m - 1)
  BY <1>2
<1>. DEFINE h == [n \in 0..m |-> IF n = 0 THEN {p} ELSE Grow(g[n - 1])]
<1>4. \A n \in 0..(m - 1) : n \in 0..m /\ h[n] = g[n]
  <2>1. \A n \in 0..(m - 1) : n \in 0..m
    BY <1>2
  <2>2. g = [n \in 0..(m - 1) |-> IF n = 0 THEN {p} ELSE Grow(g[n - 1])]
    BY <1>3 DEF IsReach
  <2>3. \A n \in 0..(m - 1) : g[n] = IF n = 0 THEN {p} ELSE Grow(g[n - 1])
    <3>. HIDE <1>3
    <3>. QED  BY <2>2
  <2>. QED  BY <2>1, <2>3
<1>5. \A n \in 0..m : n # 0 => h[n - 1] = g[n - 1]
  <2>1. \A n \in 0..m : n # 0 => n - 1 \in 0..(m - 1)
    BY <1>2
  <2>. HIDE DEF h
  <2>. QED  BY <1>4, <2>1
<1>6. h = [n \in 0..m |-> IF n = 0 THEN {p} ELSE Grow(h[n - 1])]
  BY <1>5
<1>. QED  BY <1>2, <1>6 DEF IsReach

\* The rounds from p.
Rounds(g, p) == g[0] = {p} /\ \A n \in 1..Ports : g[n] = Grow(g[n - 1])

LEMMA ComponentIsReached ==
  ASSUME NEW p
  PROVE  \E g : Rounds(g, p) /\ component(p) = g[Ports]
<1>. DEFINE g == CHOOSE g : IsReach(g, p, Ports)
<1>1. IsReach(g, p, Ports)
  BY SizeAssumption, ReachExists
<1>2. component(p) = g[Ports]
  BY DEF component, IsReach, Grow
<1>. HIDE DEF g
<1>3. g = [n \in 0..Ports |-> IF n = 0 THEN {p} ELSE Grow(g[n - 1])]
  BY <1>1 DEF IsReach
<1>4. Rounds(g, p)
  <2>1. g[0] = {p}
    BY <1>3, SizeAssumption
  <2>2. ASSUME NEW n \in 1..Ports PROVE g[n] = Grow(g[n - 1])
    <3>1. n \in 0..Ports /\ n # 0
      BY SizeAssumption
    <3>2. g[n] = IF n = 0 THEN {p} ELSE Grow(g[n - 1])
      BY <1>3, <3>1
    <3>. QED  BY <3>1, <3>2
  <2>. QED  BY <2>1, <2>2 DEF Rounds
<1>. QED  BY <1>2, <1>4

\* No seam leaves C.
Closed(C) == \A s \in Seam : seam_a[s] \in C <=> seam_b[s] \in C

LEMMA NeighboursArePorts ==
  \A q \in Port : /\ neighbours[q] \subseteq Port
                  /\ \A r \in neighbours[q] : q \in neighbours[r]
BY DEF neighbours

LEMMA GrowIsClosed ==
  ASSUME NEW C \in SUBSET Port
  PROVE  Closed(C) <=> Grow(C) = C
<1>1. ASSUME Closed(C), NEW q \in C, NEW r \in neighbours[q] PROVE r \in C
  <2>1. PICK s \in Seam : Ends(s) = {q, r}
    BY DEF neighbours
  <2>2. seam_a[s] \in {q, r} /\ seam_b[s] \in {q, r} /\ q \in {seam_a[s], seam_b[s]}
        /\ r \in {seam_a[s], seam_b[s]}
    BY <2>1 DEF Ends
  <2>. QED  BY <1>1, <2>2 DEF Closed
<1>2. ASSUME Grow(C) = C, NEW s \in Seam PROVE seam_a[s] \in C <=> seam_b[s] \in C
  <2>1. seam_a[s] \in Port /\ seam_b[s] \in Port
    BY EndsArePorts
  <2>2. Ends(s) = {seam_a[s], seam_b[s]} /\ Ends(s) = {seam_b[s], seam_a[s]}
    BY DEF Ends
  <2>3. seam_b[s] \in neighbours[seam_a[s]] /\ seam_a[s] \in neighbours[seam_b[s]]
    BY <2>1, <2>2 DEF neighbours
  <2>. QED  BY <1>2, <2>3 DEF Grow
<1>. QED  BY <1>1, <1>2 DEF Closed, Grow

LEMMA RoundsArePorts ==
  ASSUME NEW p \in Port, NEW g, Rounds(g, p), NEW C \in SUBSET Port, Closed(C), p \in C
  PROVE  \A n \in 0..Ports : g[n] \subseteq C /\ p \in g[n]
<1>. DEFINE B == {n \in 0..Ports : ~(g[n] \subseteq C /\ p \in g[n])}
<1>. SUFFICES ASSUME B # {} PROVE FALSE
  OBVIOUS
<1>1. 0 \notin B
  BY DEF Rounds
<1>2. PICK n \in B : n \in 1..Ports /\ n - 1 \in 0..Ports /\ n - 1 \notin B
  <2>1. B \in SUBSET (0..Ports) /\ Ports \in Nat /\ 0 \in Nat
    BY SizeAssumption
  <2>. HIDE DEF B
  <2>2. \E n \in B : n \in (0 + 1)..Ports /\ n - 1 \in 0..Ports /\ n - 1 \notin B
    BY <1>1, <2>1, FirstBad
  <2>. QED  BY <2>2
<1>3. g[n] = Grow(g[n - 1]) /\ g[n - 1] \subseteq C /\ p \in g[n - 1]
  BY <1>2 DEF Rounds
<1>4. Grow(C) = C
  BY GrowIsClosed
<1>5. Grow(g[n - 1]) \subseteq Grow(C) /\ g[n - 1] \subseteq Grow(g[n - 1])
  BY <1>3 DEF Grow
<1>. QED  BY <1>2, <1>3, <1>4, <1>5

(***************************************************************************)
(* The search ends: a round that adds nothing is the last to add anything, *)
(* and there are only so many ports to add.                                *)
(***************************************************************************)
LEMMA ComponentIsClosed ==
  ASSUME NEW p \in Port
  PROVE  component(p) \in SUBSET Port /\ p \in component(p) /\ Closed(component(p))
<1>1. PICK g : Rounds(g, p) /\ component(p) = g[Ports]
  BY ComponentIsReached
<1>2. \A n \in 0..Ports : g[n] \in SUBSET Port /\ p \in g[n]
  <2>1. Closed(Port) /\ Port \in SUBSET Port
    BY EndsArePorts DEF Closed
  <2>. QED  BY <1>1, <2>1, RoundsArePorts
<1>3. Ports \in 0..Ports /\ Ports \in Nat /\ 0 \in Nat
  BY SizeAssumption
<1>. DEFINE Quiet == {n \in 0..Ports : Grow(g[n]) = g[n]}
<1>4. ASSUME Quiet # {} PROVE Ports \in Quiet
  <2>1. PICK k \in Quiet : k \in 0..Ports
    BY <1>4
  <2>. DEFINE B == {n \in k..Ports : n \notin Quiet}
  <2>. SUFFICES ASSUME B # {} PROVE FALSE
    BY <1>3, <2>1
  <2>2. PICK n \in B : n \in (k + 1)..Ports /\ n - 1 \in k..Ports /\ n - 1 \notin B
    <3>1. B \in SUBSET (k..Ports) /\ k \notin B /\ k \in Nat
      BY <2>1
    <3>. HIDE DEF B
    <3>. QED  BY <1>3, <3>1, FirstBad
  <2>3. n - 1 \in Quiet /\ n \in 1..Ports
    BY <2>1, <2>2
  <2>4. g[n] = Grow(g[n - 1]) /\ Grow(g[n - 1]) = g[n - 1]
    BY <1>1, <2>3 DEF Rounds
  <2>5. n \in Quiet
    BY <2>3, <2>4
  <2>. QED  BY <2>2, <2>5
<1>5. Quiet # {}
  <2>. SUFFICES ASSUME Quiet = {} PROVE FALSE
    OBVIOUS
  <2>. DEFINE B == {n \in 0..Ports : Cardinality(g[n]) < n + 1}
  <2>1. \A S \in SUBSET Port : IsFiniteSet(S) /\ Cardinality(S) \in Nat
    BY RangesAreFinite, FS_Subset, FS_CardinalityType
  <2>2. 0 \notin B
    <3>1. Cardinality({p}) = 1
      BY FS_Singleton
    <3>. QED  BY <1>1, <3>1 DEF Rounds
  <2>3. ASSUME B # {} PROVE FALSE
    <3>1. PICK n \in B : n \in 1..Ports /\ n - 1 \in 0..Ports /\ n - 1 \notin B
      <4>1. B \in SUBSET (0..Ports)
        OBVIOUS
      <4>. HIDE DEF B
      <4>2. \E n \in B : n \in (0 + 1)..Ports /\ n - 1 \in 0..Ports /\ n - 1 \notin B
        BY <1>3, <2>2, <2>3, <4>1, FirstBad
      <4>. QED  BY <4>2
    <3>2. g[n] = Grow(g[n - 1]) /\ Grow(g[n - 1]) # g[n - 1]
      BY <1>1, <3>1 DEF Rounds
    <3>3. g[n - 1] \in SUBSET g[n] /\ g[n] # g[n - 1]
      BY <3>2 DEF Grow
    <3>4. Cardinality(g[n - 1]) < Cardinality(g[n])
      <4>1. IsFiniteSet(g[n]) /\ Cardinality(g[n]) \in Nat /\ Cardinality(g[n - 1]) \in Nat
        BY <1>2, <2>1, <3>1
      <4>2. /\ Cardinality(g[n - 1]) <= Cardinality(g[n])
            /\ Cardinality(g[n]) = Cardinality(g[n - 1]) => g[n] = g[n - 1]
        BY <3>3, <4>1, FS_Subset
      <4>. QED  BY <3>3, <4>1, <4>2
    <3>5. Cardinality(g[n - 1]) >= n /\ Cardinality(g[n - 1]) \in Nat /\ Cardinality(g[n]) \in Nat
      BY <1>2, <2>1, <3>1
    <3>. QED  BY <3>1, <3>4, <3>5
  <2>4. Cardinality(g[Ports]) >= Ports + 1
    BY <1>2, <1>3, <2>1, <2>3
  <2>5. Cardinality(Port) = Ports
    BY <1>3, FS_Interval DEF Port
  <2>6. Cardinality(g[Ports]) <= Cardinality(Port)
    BY <1>2, <1>3, RangesAreFinite, FS_Subset
  <2>7. Cardinality(g[Ports]) \in Nat
    BY <1>2, <1>3, <2>1
  <2>. QED  BY <1>3, <2>4, <2>5, <2>6, <2>7
<1>6. Grow(g[Ports]) = g[Ports]
  BY <1>4, <1>5
<1>. QED  BY <1>1, <1>2, <1>3, <1>6, GrowIsClosed

LEMMA ComponentIsLeast ==
  ASSUME NEW p \in Port, NEW C \in SUBSET Port, Closed(C), p \in C
  PROVE  component(p) \subseteq C
<1>1. PICK g : Rounds(g, p) /\ component(p) = g[Ports]
  BY ComponentIsReached
<1>2. Ports \in 0..Ports
  BY SizeAssumption
<1>. QED  BY <1>1, <1>2, RoundsArePorts

(***************************************************************************)
(* Components do not overlap.                                              *)
(***************************************************************************)
LEMMA SameComponent ==
  ASSUME NEW p \in Port, NEW q \in component(p)
  PROVE  component(q) = component(p)
<1>1. q \in Port /\ component(p) \in SUBSET Port /\ Closed(component(p)) /\ p \in component(p)
  BY ComponentIsClosed
<1>2. component(q) \in SUBSET Port /\ Closed(component(q)) /\ q \in component(q)
  BY <1>1, ComponentIsClosed
<1>3. component(q) \subseteq component(p)
  BY <1>1, ComponentIsLeast
<1>4. p \in component(q)
  <2>. SUFFICES ASSUME p \notin component(q) PROVE FALSE
    OBVIOUS
  <2>. DEFINE D == Port \ component(q)
  <2>1. D \in SUBSET Port /\ p \in D
    OBVIOUS
  <2>2. Closed(D)
    BY <1>2, EndsArePorts DEF Closed
  <2>3. component(p) \subseteq D
    BY <2>1, <2>2, ComponentIsLeast
  <2>. QED  BY <1>2, <2>3
<1>5. component(p) \subseteq component(q)
  BY <1>2, <1>4, ComponentIsLeast
<1>. QED  BY <1>3, <1>5

LEMMA Components ==
  /\ IsFiniteSet(components) /\ UNION components = Port
  /\ \A C \in components : /\ C \in SUBSET Port /\ IsFiniteSet(C) /\ C # {} /\ Closed(C)
                           /\ Cardinality(C) \in Nat \ {0}
  /\ \A C, D \in components : C # D => C \cap D = {}
<1>1. \A C \in components : C \in SUBSET Port /\ C # {} /\ Closed(C)
  BY ComponentIsClosed DEF components
<1>2. UNION components = Port
  BY ComponentIsClosed DEF components
<1>3. \A C \in components : IsFiniteSet(C) /\ Cardinality(C) \in Nat \ {0}
  BY <1>1, RangesAreFinite, FS_Subset, FS_CardinalityType, FS_EmptySet
<1>4. IsFiniteSet(components)
  <2>1. components \in SUBSET (SUBSET Port)
    BY <1>1
  <2>2. IsFiniteSet(SUBSET Port)
    BY RangesAreFinite, FS_SUBSET
  <2>. QED  BY <2>1, <2>2, FS_Subset
<1>5. ASSUME NEW C \in components, NEW D \in components, C \cap D # {}
      PROVE  C = D
  <2>1. PICK p \in Port, q \in Port : C = component(p) /\ D = component(q)
    BY DEF components
  <2>2. PICK r : r \in component(p) /\ r \in component(q)
    BY <1>5, <2>1
  <2>. QED  BY <2>1, <2>2, SameComponent
<1>. QED  BY <1>1, <1>2, <1>3, <1>4, <1>5

-----------------------------------------------------------------------------
(***************************************************************************)
(* No attempt of the integer law raises V.                                 *)
(***************************************************************************)
LEMMA IntegerDelta ==
  ASSUME Draws, law = "integer", NEW y, Typed(y), NEW t \in Attempt
  PROVE  DeltaAt(y, t) \in Int /\ DeltaAt(y, t) <= 0
         /\ (KindAt(y, t) = "descent" => DeltaAt(y, t) < 0)
<1>. DEFINE a == y[seam_a[seq[t]]]
            b == y[seam_b[seq[t]]]
            f == ToFirst(law, y, seq[t], coin[t])
<1>1. seq[t] \in Seam
  BY DEF Draws
<1>2. a \in Int /\ b \in Int
  BY <1>1, EndsArePorts DEF Typed
<1>0. Sum2(y, seq[t]) = a + b
  BY DEF Sum2
<1>3. f \in {(a + b) \div 2, a + b - (a + b) \div 2}
  <2>. HIDE DEF a, b
  <2>. QED  BY <1>0, <1>2 DEF ToFirst
<1>4. Change(law, y, seq[t], coin[t]) = f * f + (a + b - f) * (a + b - f) - a * a - b * b
  <2>1. Change(law, y, seq[t], coin[t])
          = Sq(f) + Sq(Sum2(y, seq[t]) - f) - Sq(a) - Sq(b)
    BY DEF Change, ToSecond
  <2>2. Sq(f) = f * f /\ Sq(a) = a * a /\ Sq(b) = b * b
        /\ Sq(Sum2(y, seq[t]) - f) = (Sum2(y, seq[t]) - f) * (Sum2(y, seq[t]) - f)
    BY DEF Sq
  <2>3. f \in Int
    BY <1>2, <1>3
  <2>. HIDE DEF a, b, f
  <2>. QED  BY <1>0, <1>2, <2>1, <2>2, <2>3
<1>5. KindAt(y, t) = "descent" => a - b \notin {0, 1, -1}
  BY DEF KindAt, Kind, Diff
<1>6. f \in Int /\ DeltaAt(y, t) \in Int
  BY <1>2, <1>3, DeltaIsChange
<1>. HIDE DEF a, b, f
<1>7. ASSUME KindAt(y, t) = "descent"
      PROVE  f * f + (a + b - f) * (a + b - f) - a * a - b * b < 0
  <2>1. (a - f) * (f - b) > 0
    <3>1. \/ a - f > 0 /\ f - b > 0
          \/ a - f < 0 /\ f - b < 0
      BY <1>2, <1>3, <1>5, <1>7
    <3>2. \A m, n \in Int : (m > 0 /\ n > 0) \/ (m < 0 /\ n < 0) => m * n > 0
      OBVIOUS
    <3>3. a - f \in Int /\ f - b \in Int
      BY <1>2, <1>6
    <3>. QED  BY <3>1, <3>2, <3>3
  <2>2. \A m, n, k \in Int : k * k + (m + n - k) * (m + n - k) - m * m - n * n
                               = 0 - 2 * ((m - k) * (k - n))
    OBVIOUS
  <2>3. f * f + (a + b - f) * (a + b - f) - a * a - b * b = 0 - 2 * ((a - f) * (f - b))
    BY <1>2, <1>6, <2>2
  <2>4. (a - f) * (f - b) \in Int
    BY <1>2, <1>6
  <2>. QED  BY <2>1, <2>3, <2>4
<1>8. KindAt(y, t) = "descent" => DeltaAt(y, t) < 0
  BY <1>4, <1>7 DEF DeltaAt
<1>. QED  BY <1>6, <1>8 DEF DeltaAt

LEMMA SumNotPositive ==
  ASSUME NEW f, NEW S, IsFiniteSet(S), \A p \in S : f[p] \in Int /\ f[p] <= 0
  PROVE  SumOver(f, S) \in Int /\ SumOver(f, S) <= 0 /\ \A p \in S : SumOver(f, S) <= f[p]
<1>. DEFINE Odd == {r \in SUBSET S : ~(SumOver(f, r) <= 0)}
<1>1. \A r \in SUBSET S : IsFiniteSet(r) /\ SumOver(f, r) \in Int
  <2>1. ASSUME NEW r \in SUBSET S PROVE IsFiniteSet(r) /\ SumOver(f, r) \in Int
    <3>1. IsFiniteSet(r) /\ \A p \in r : f[p] \in Int
      BY FS_Subset
    <3>. QED  BY <3>1, SumTyped
  <2>. QED  BY <2>1
<1>2. ASSUME NEW r \in SUBSET S, NEW p \in r
      PROVE  SumOver(f, r) = f[p] + SumOver(f, r \ {p})
  <2>1. IsFiniteSet(r) /\ \A e \in r : f[e] \in Int
    BY <1>1
  <2>. QED  BY <2>1, SumTakesAny
<1>3. ASSUME Odd # {} PROVE FALSE
  <2>1. PICK r \in Odd : \A e \in r : r \ {e} \notin Odd
    <3>1. Odd \in SUBSET (SUBSET S)
      OBVIOUS
    <3>. HIDE DEF Odd
    <3>. QED  BY <1>3, <3>1, SmallestMember
  <2>2. r # {}
    BY SumOfNone
  <2>3. PICK p \in r : TRUE
    BY <2>2
  <2>4. r \ {p} \in SUBSET S /\ SumOver(f, r \ {p}) <= 0
    BY <2>1
  <2>5. SumOver(f, r) = f[p] + SumOver(f, r \ {p})
    BY <1>2
  <2>6. SumOver(f, r \ {p}) \in Int /\ SumOver(f, r) \in Int /\ f[p] \in Int /\ f[p] <= 0
    BY <1>1, <2>4
  <2>7. SumOver(f, r) <= 0
    <3>. HIDE DEF Odd
    <3>. QED  BY <2>4, <2>5, <2>6
  <2>. QED  BY <2>7
<1>4. \A r \in SUBSET S : SumOver(f, r) <= 0
  BY <1>3
<1>5. ASSUME NEW p \in S PROVE SumOver(f, S) <= f[p]
  <2>1. SumOver(f, S) = f[p] + SumOver(f, S \ {p})
    BY <1>2
  <2>2. SumOver(f, S \ {p}) <= 0 /\ SumOver(f, S \ {p}) \in Int /\ f[p] \in Int
    BY <1>1, <1>4
  <2>. QED  BY <2>1, <2>2
<1>. QED  BY <1>1, <1>4, <1>5

(***************************************************************************)
(* Attempts on disjoint seams that do not descend exchange readings within *)
(* any set that no seam leaves.                                            *)
(***************************************************************************)
Exchanged(y, T, p, q) ==
  \E t \in T : KindAt(y, t) = "swap" /\ {p, q} = Ends(seq[t])

Moved(y, T, p, q) ==
  IF \E r \in Port : Exchanged(y, T, p, r) THEN Exchanged(y, T, p, q) ELSE q = p

LEMMA MovedOnce ==
  ASSUME Draws, NEW y, NEW T \in SUBSET Attempt, Disjoint(T), NEW p \in Port
  PROVE  /\ \E q \in Port : Moved(y, T, p, q)
         /\ \A q, r \in Port : Moved(y, T, p, q) /\ Moved(y, T, p, r) => q = r
         /\ \A q \in Port : Moved(y, T, p, q) => Moved(y, T, q, p)
<1>1. \A t \in T : seam_a[seq[t]] \in Port /\ seam_b[seq[t]] \in Port
                   /\ seam_a[seq[t]] # seam_b[seq[t]]
  BY EndsArePorts DEF Draws
<1>2. \E q \in Port : Moved(y, T, p, q)
  BY DEF Moved
<1>3. ASSUME NEW q \in Port, NEW r \in Port, Exchanged(y, T, p, q), Exchanged(y, T, p, r)
      PROVE  q = r
  <2>1. PICK t \in T : {p, q} = Ends(seq[t])
    BY <1>3 DEF Exchanged
  <2>2. PICK u \in T : {p, r} = Ends(seq[u])
    BY <1>3 DEF Exchanged
  <2>3. p \in Ends(seq[t]) /\ p \in Ends(seq[u])
    BY <2>1, <2>2
  <2>4. t = u
    BY <2>3 DEF Disjoint
  <2>5. {p, q} = {p, r} /\ {p, q} = {seam_a[seq[t]], seam_b[seq[t]]}
    BY <2>1, <2>2, <2>4 DEF Ends
  <2>6. p # q /\ p # r
    BY <1>1, <2>5
  <2>. QED  BY <2>5, <2>6
<1>4. \A q \in Port : Exchanged(y, T, p, q) => Exchanged(y, T, q, p)
  BY DEF Exchanged
<1>5. ASSUME NEW q \in Port, Moved(y, T, p, q) PROVE Moved(y, T, q, p)
  <2>1. CASE Exchanged(y, T, p, q)
    BY <1>4, <2>1 DEF Moved
  <2>2. CASE ~Exchanged(y, T, p, q)
    BY <1>5, <2>2 DEF Moved
  <2>. QED  BY <2>1, <2>2
<1>. QED  BY <1>2, <1>3, <1>5 DEF Moved

LEMMA MovedReading ==
  ASSUME Draws, NEW y, Typed(y), NEW T \in SUBSET Attempt, Disjoint(T),
         \A t \in T : KindAt(y, t) # "descent",
         NEW p \in Port, NEW q \in Port, Moved(y, T, p, q)
  PROVE  After(law, y, T)[p] = y[q]
<1>. DEFINE z == After(law, y, T)
<1>1. /\ \A t \in T : /\ z[seam_a[seq[t]]] = ToFirst(law, y, seq[t], coin[t])
                      /\ z[seam_b[seq[t]]] = ToSecond(law, y, seq[t], coin[t])
      /\ \A r \in Port : (\A t \in T : r \notin Ends(seq[t])) => z[r] = y[r]
  BY AfterWrites DEF Draws
<1>. HIDE DEF z
<1>2. CASE \E r \in Port : Exchanged(y, T, p, r)
  <2>1. Exchanged(y, T, p, q)
    BY <1>2 DEF Moved
  <2>2. PICK t \in T : KindAt(y, t) = "swap" /\ {p, q} = Ends(seq[t])
    BY <2>1 DEF Exchanged
  <2>3. seq[t] \in Seam /\ law \in {"integer", "mean"}
    BY DEF Draws
  <2>4. /\ ToFirst(law, y, seq[t], coin[t]) = y[seam_b[seq[t]]]
        /\ ToSecond(law, y, seq[t], coin[t]) = y[seam_a[seq[t]]]
    BY <2>2, <2>3, NeutralMove DEF KindAt
  <2>5. {p, q} = {seam_a[seq[t]], seam_b[seq[t]]}
    BY <2>2 DEF Ends
  <2>6. \/ p = seam_a[seq[t]] /\ q = seam_b[seq[t]]
        \/ p = seam_b[seq[t]] /\ q = seam_a[seq[t]]
    BY <2>3, <2>5, EndsArePorts
  <2>. QED  BY <1>1, <2>4, <2>6 DEF z
<1>3. CASE ~\E r \in Port : Exchanged(y, T, p, r)
  <2>1. q = p
    BY <1>3 DEF Moved
  <2>2. CASE \E t \in T : p \in Ends(seq[t])
    <3>1. PICK t \in T : p \in Ends(seq[t])
      BY <2>2
    <3>2. seq[t] \in Seam /\ law \in {"integer", "mean"}
      BY DEF Draws
    <3>3. KindAt(y, t) # "swap"
      <4>1. Ends(seq[t]) = {p, seam_a[seq[t]]} \/ Ends(seq[t]) = {p, seam_b[seq[t]]}
        BY <3>1 DEF Ends
      <4>2. seam_a[seq[t]] \in Port /\ seam_b[seq[t]] \in Port
        BY <3>2, EndsArePorts
      <4>. QED  BY <1>3, <4>1, <4>2 DEF Exchanged
    <3>4. Kind(law, y, seq[t], coin[t]) = "wait"
      BY <3>2, <3>3, NeutralMove DEF KindAt
    <3>5. /\ ToFirst(law, y, seq[t], coin[t]) = y[seam_a[seq[t]]]
          /\ ToSecond(law, y, seq[t], coin[t]) = y[seam_b[seq[t]]]
      BY <3>2, <3>4, NeutralMove
    <3>. QED  BY <1>1, <2>1, <3>1, <3>5 DEF Ends, z
  <2>3. CASE \A t \in T : p \notin Ends(seq[t])
    BY <1>1, <2>1, <2>3 DEF z
  <2>. QED  BY <2>2, <2>3
<1>. QED  BY <1>2, <1>3

LEMMA ReadingsPermuted ==
  ASSUME Draws, NEW y, Typed(y), NEW T \in SUBSET Attempt, Disjoint(T),
         \A t \in T : KindAt(y, t) # "descent",
         NEW C \in SUBSET Port, Closed(C), NEW n
  PROVE  Readings(After(law, y, T), C, n) = Readings(y, C, n)
<1>. DEFINE z == After(law, y, T)
            mate == [p \in Port |-> CHOOSE q \in Port : Moved(y, T, p, q)]
            A == {p \in C : z[p] = n}
            B == {p \in C : y[p] = n}
<1>1. \A p \in Port : mate[p] \in Port /\ Moved(y, T, p, mate[p])
  BY MovedOnce
<1>2. \A p \in Port : mate[mate[p]] = p
  BY <1>1, MovedOnce
<1>3. \A p \in Port : z[p] = y[mate[p]] /\ z[mate[p]] = y[p]
  <2>1. \A p, q \in Port : Moved(y, T, p, q) => z[p] = y[q]
    BY MovedReading
  <2>. HIDE DEF z, mate
  <2>. QED  BY <1>1, <1>2, <2>1
<1>4. ASSUME NEW p \in C PROVE mate[p] \in C
  <2>1. p \in Port /\ Moved(y, T, p, mate[p]) /\ mate[p] \in Port
    BY <1>1
  <2>. HIDE DEF mate
  <2>2. CASE Exchanged(y, T, p, mate[p])
    <3>1. PICK t \in T : {p, mate[p]} = Ends(seq[t])
      BY <2>2 DEF Exchanged
    <3>2. seq[t] \in Seam /\ {p, mate[p]} = {seam_a[seq[t]], seam_b[seq[t]]}
      BY <3>1 DEF Ends, Draws
    <3>3. seam_a[seq[t]] \in C <=> seam_b[seq[t]] \in C
      BY <3>2 DEF Closed
    <3>. QED  BY <3>2, <3>3
  <2>3. CASE ~Exchanged(y, T, p, mate[p])
    BY <2>1, <2>3 DEF Moved
  <2>. QED  BY <2>2, <2>3
<1>. HIDE DEF mate, z
<1>. DEFINE f == [p \in A |-> mate[p]]
<1>5. \A p \in A : f[p] \in B
  BY <1>3, <1>4
<1>6. \A p \in B : mate[p] \in A /\ f[mate[p]] = p
  BY <1>2, <1>3, <1>4
<1>7. \A p, r \in A : f[p] = f[r] => p = r
  BY <1>2
<1>8. f \in Bijection(A, B)
  BY <1>5, <1>6, <1>7 DEF Bijection, Injection, Surjection, IsInjective
<1>9. IsFiniteSet(A)
  BY RangesAreFinite, FS_Subset
<1>10. Cardinality(B) = Cardinality(A)
  <2>. HIDE DEF A, B, f
  <2>. QED  BY <1>8, <1>9, FS_Bijection DEF ExistsBijection
<1>. QED  BY <1>10 DEF Readings, z

LEMMA LayerDescendsOrPermutes ==
  ASSUME Draws, law = "integer", NEW y, Typed(y), NEW T \in SUBSET Attempt, Disjoint(T)
  PROVE  V(After(law, y, T)) < V(y) \/ SameReadings(y, After(law, y, T))
<1>1. V(After(law, y, T)) = V(y) + SumOver(Booked(y), T) /\ V(y) \in Int
  BY LayerBooked, PotentialTyped DEF Typed
<1>2. \A t \in T : /\ Booked(y)[t] = DeltaAt(y, t) /\ Booked(y)[t] \in Int
                   /\ Booked(y)[t] <= 0
  BY IntegerDelta DEF Booked
<1>3. CASE \E t \in T : KindAt(y, t) = "descent"
  <2>1. PICK t \in T : KindAt(y, t) = "descent"
    BY <1>3
  <2>2. Booked(y)[t] < 0
    BY <1>2, <2>1, IntegerDelta
  <2>3. SumOver(Booked(y), T) <= Booked(y)[t] /\ SumOver(Booked(y), T) \in Int
    BY <1>2, RangesAreFinite, SumNotPositive
  <2>. QED  BY <1>1, <1>2, <2>2, <2>3
<1>4. CASE \A t \in T : KindAt(y, t) # "descent"
  <2>1. \A C \in components : C \in SUBSET Port /\ Closed(C)
    BY Components
  <2>2. \A C \in components : \A n \in 0..MaxLoad :
          Readings(y, C, n) = Readings(After(law, y, T), C, n)
    BY <1>4, <2>1, ReadingsPermuted
  <2>. QED  BY <2>2 DEF SameReadings
<1>. QED  BY <1>3, <1>4

(***************************************************************************)
(* DescendsOrPermutes for every federation: Move makes one attempt, Layer  *)
(* a set of attempts that share no port, nothing else changes a reading.   *)
(***************************************************************************)
LEMMA StepIsLayer ==
  ASSUME TypeOK, [Next]_vars, x' # x
  PROVE  \E T \in SUBSET Attempt : Disjoint(T) /\ x' = After(law, x, T)
<1>. USE DEF vars, choice
<1>1. CASE Move
  <2>1. PICK t \in remaining : x' = After(law, x, {t})
    BY <1>1 DEF Move
  <2>2. {t} \in SUBSET Attempt /\ Disjoint({t})
    BY DEF TypeOK, Disjoint
  <2>. QED  BY <2>1, <2>2
<1>2. CASE Layer
  <2>1. x' = After(law, x, Ready(remaining))
    BY <1>2 DEF Layer
  <2>2. Ready(remaining) \in SUBSET Attempt
    BY DEF TypeOK, Ready
  <2>3. Disjoint(Ready(remaining))
    <3>1. ASSUME NEW t \in Ready(remaining), NEW u \in Ready(remaining), t # u
          PROVE  Ends(seq[t]) \cap Ends(seq[u]) = {}
      <4>1. Ends(seq[t]) \cap Reads(law, seq[u]) = {}
        BY <3>1, LayerIsIndependent DEF TypeOK
      <4>2. Ends(seq[u]) \subseteq Reads(law, seq[u])
        BY DEF Reads
      <4>. QED  BY <4>1, <4>2
    <3>. QED  BY <3>1 DEF Disjoint
  <2>. QED  BY <2>1, <2>2, <2>3
<1>3. CASE Draw \/ CloseChunk \/ CloseSweep \/ Stop \/ UNCHANGED vars
  BY <1>3 DEF Draw, CloseChunk, CloseSweep, Stop
<1>. QED  BY <1>1, <1>2, <1>3 DEF Next

THEOREM IntegerLawDescends == Spec => DescendsOrPermutes
<1>1. ASSUME TypeOK, [Next]_vars
      PROVE  [law = "integer" => V(x') < V(x) \/ SameReadings(x, x')]_x
  <2>. SUFFICES ASSUME x' # x, law = "integer"
                PROVE  V(x') < V(x) \/ SameReadings(x, x')
    OBVIOUS
  <2>1. PICK T \in SUBSET Attempt : Disjoint(T) /\ x' = After(law, x, T)
    BY <1>1, StepIsLayer
  <2>2. Draws /\ Typed(x)
    BY <1>1, DrawsHold
  <2>3. V(After(law, x, T)) < V(x) \/ SameReadings(x, After(law, x, T))
    BY <2>1, <2>2, LayerDescendsOrPermutes
  <2>. QED  BY <2>1, <2>3
<1>. QED  BY <1>1, ReadingsStayInRange, PTL DEF Spec, DescendsOrPermutes

-----------------------------------------------------------------------------
(***************************************************************************)
(* Sums over the parts of a partition.                                     *)
(***************************************************************************)
Sums(f, D) == [C \in D |-> SumOver(f, C)]

LEMMA SumByParts ==
  ASSUME NEW f, NEW D, IsFiniteSet(D),
         \A C \in D : IsFiniteSet(C) /\ \A p \in C : f[p] \in Int,
         \A B, C \in D : B # C => B \cap C = {}
  PROVE  SumOver(f, UNION D) = SumOver(Sums(f, D), D)
<1>. DEFINE F == Sums(f, D)
            Odd == {r \in SUBSET D : SumOver(f, UNION r) # SumOver(F, r)}
<1>. SUFFICES ASSUME Odd # {} PROVE FALSE
  OBVIOUS
<1>1. PICK r \in Odd : IsFiniteSet(r) /\ \A C \in r : r \ {C} \notin Odd
  <2>1. Odd \in SUBSET (SUBSET D)
    OBVIOUS
  <2>. HIDE DEF Odd
  <2>. QED  BY <2>1, SmallestMember
<1>2. r # {}
  <2>. SUFFICES ASSUME r = {} PROVE FALSE
    OBVIOUS
  <2>1. UNION r = {}
    OBVIOUS
  <2>. QED  BY <2>1, SumOfNone
<1>3. PICK C \in r : TRUE
  BY <1>2
<1>. DEFINE q == r \ {C}
<1>4. \A B \in D : F[B] = SumOver(f, B) /\ F[B] \in Int
  BY SumTyped DEF Sums
<1>. HIDE DEF F
<1>5. SumOver(F, r) = F[C] + SumOver(F, q)
  <2>1. \A B \in r : F[B] \in Int
    BY <1>4
  <2>. QED  BY <1>1, <2>1, SumTakesAny
<1>6. (UNION r) \ C = UNION q /\ C \in SUBSET (UNION r)
  OBVIOUS
<1>7. SumOver(f, UNION r) = SumOver(f, C) + SumOver(f, (UNION r) \ C)
  <2>1. IsFiniteSet(UNION r)
    BY <1>1, FS_UNION
  <2>2. \A p \in UNION r : f[p] \in Int
    OBVIOUS
  <2>. HIDE DEF q, Odd
  <2>. QED  BY <1>6, <2>1, <2>2, SumSplits
<1>8. SumOver(f, UNION q) = SumOver(F, q)
  BY <1>1
<1>. QED  BY <1>4, <1>5, <1>6, <1>7, <1>8

-----------------------------------------------------------------------------
(***************************************************************************)
(* The minimum of V.  In a component whose total is m * q + r, the squares *)
(* exceed LeastOn by the sum of (y - q)(y - q - 1), which is zero just for *)
(* readings of q and q + 1; Slack is its negative.                         *)
(***************************************************************************)
Quotient(C) == Total(loads, C) \div Cardinality(C)
Remainder(C) == Total(loads, C) % Cardinality(C)

Squares(y) == [p \in Port |-> Sq(y[p])]

Slack(y, C) == [p \in Port |-> (2 * Quotient(C) + 1) * y[p] - Sq(y[p])
                                 - Quotient(C) * (Quotient(C) + 1)]

LoadsTyped == loads \in [Port -> 0..MaxLoad]

SameTotals(y) == \A C \in components : Total(y, C) = Total(loads, C)

LEMMA TotalTyped ==
  ASSUME NEW C \in components, NEW y, Typed(y)
  PROVE  Total(y, C) \in Int
<1>1. IsFiniteSet(C) /\ \A p \in C : y[p] \in Int
  BY Components DEF Typed
<1>. QED  BY <1>1, SumTyped DEF Total

LEMMA Division ==
  ASSUME LoadsTyped, NEW C \in components
  PROVE  /\ Quotient(C) \in Int /\ Remainder(C) \in 0..(Cardinality(C) - 1)
         /\ Cardinality(C) \in Nat \ {0}
         /\ Total(loads, C) = Cardinality(C) * Quotient(C) + Remainder(C)
<1>1. Total(loads, C) \in Int
  <2>1. Typed(loads)
    BY SizeAssumption DEF LoadsTyped, Typed
  <2>. QED  BY <2>1, TotalTyped
<1>2. Cardinality(C) \in Nat \ {0}
  BY Components
<1>3. \A n \in Int, m \in Nat \ {0} :
        n \div m \in Int /\ n % m \in 0..(m - 1) /\ n = m * (n \div m) + (n % m)
  OBVIOUS
<1>. QED  BY <1>1, <1>2, <1>3 DEF Quotient, Remainder

LEMMA ComponentSlack ==
  ASSUME LoadsTyped, NEW C \in components, NEW y, Typed(y), Total(y, C) = Total(loads, C)
  PROVE  /\ LeastOn(C) \in Int /\ SumOver(Squares(y), C) \in Int
         /\ SumOver(Slack(y, C), C) = LeastOn(C) - SumOver(Squares(y), C)
         /\ \A p \in C : /\ Slack(y, C)[p] \in Int /\ Slack(y, C)[p] <= 0
                         /\ Slack(y, C)[p] = 0 <=> y[p] \in {Quotient(C), Quotient(C) + 1}
<1>. DEFINE m == Cardinality(C)
            q == Quotient(C)
            r == Remainder(C)
            f == Squares(y)
            e == Slack(y, C)
<1>1. q \in Int /\ r \in Int /\ m \in Int /\ Total(y, C) = m * q + r
  BY Division
<1>2. LeastOn(C) = (m - r) * (q * q) + r * ((q + 1) * (q + 1))
  BY DEF LeastOn, Quotient, Remainder, Sq
<1>3. IsFiniteSet(C) /\ C \in SUBSET Port
  BY Components
<1>4. \A p \in C : /\ y[p] \in Int /\ f[p] = y[p] * y[p] /\ f[p] \in Int
                   /\ e[p] = (2 * q + 1) * y[p] - f[p] - q * (q + 1)
  BY <1>3 DEF Typed, Squares, Slack, Sq
<1>. HIDE DEF m, q, r, f, e
<1>5. SumOver(f, C) \in Int
  BY <1>3, <1>4, SumTyped
<1>6. SumOver(e, C) = (2 * q + 1) * SumOver(y, C) - SumOver(f, C) - q * (q + 1) * m
  <2>1. 2 * q + 1 \in Int /\ q * (q + 1) \in Int
    BY <1>1
  <2>. QED  BY <1>3, <1>4, <2>1, SumIsLinear DEF m
<1>7. SumOver(e, C) = LeastOn(C) - SumOver(f, C)
  <2>1. SumOver(y, C) = m * q + r
    BY <1>1 DEF Total
  <2>2. (2 * q + 1) * (m * q + r) - q * (q + 1) * m
          = (m - r) * (q * q) + r * ((q + 1) * (q + 1))
    <3>1. \A a, b, c \in Int : (2 * b + 1) * (a * b + c) - b * (b + 1) * a
                                 = (a - c) * (b * b) + c * ((b + 1) * (b + 1))
      OBVIOUS
    <3>. QED  BY <1>1, <3>1
  <2>3. (2 * q + 1) * (m * q + r) \in Int /\ q * (q + 1) * m \in Int
    BY <1>1
  <2>. QED  BY <1>2, <1>5, <1>6, <2>1, <2>2, <2>3
<1>8. LeastOn(C) \in Int
  BY <1>1, <1>2
<1>9. ASSUME NEW p \in C
      PROVE  e[p] \in Int /\ e[p] <= 0 /\ (e[p] = 0 <=> y[p] \in {q, q + 1})
  <2>. DEFINE d == y[p] - q
  <2>1. d \in Int /\ y[p] = q + d
    BY <1>1, <1>4
  <2>. HIDE DEF d
  <2>2. e[p] = (2 * q + 1) * (q + d) - (q + d) * (q + d) - q * (q + 1)
    BY <1>4, <2>1
  <2>3. \A a, b \in Int : (2 * a + 1) * (a + b) - (a + b) * (a + b) - a * (a + 1)
                            = 0 - b * (b - 1)
    OBVIOUS
  <2>4. e[p] = 0 - d * (d - 1)
    BY <1>1, <2>1, <2>2, <2>3
  <2>5. \A b \in Int : b * (b - 1) \in Int /\ b * (b - 1) >= 0
                       /\ (b * (b - 1) = 0 <=> b \in {0, 1})
    <3>1. \A b \in Int : b >= 2 => b * (b - 1) > 0
      OBVIOUS
    <3>2. \A b \in Int : b <= -1 => b * (b - 1) > 0
      OBVIOUS
    <3>3. \A b \in Int : b >= 2 \/ b <= -1 \/ b = 0 \/ b = 1
      OBVIOUS
    <3>. QED  BY <3>1, <3>2, <3>3
  <2>6. d * (d - 1) \in Int /\ d * (d - 1) >= 0 /\ (d * (d - 1) = 0 <=> d \in {0, 1})
    BY <2>1, <2>5
  <2>7. d \in {0, 1} <=> y[p] \in {q, q + 1}
    BY <1>1, <2>1
  <2>. QED  BY <2>4, <2>6, <2>7
<1>. QED  BY <1>5, <1>7, <1>8, <1>9 DEF q, f, e

\* All readings of a component are within one of each other.
Level(y) == \A C \in components : \A p \in C : y[p] \in {Quotient(C), Quotient(C) + 1}

LEMMA MinimumIsLevel ==
  ASSUME LoadsTyped, NEW y, Typed(y), SameTotals(y)
  PROVE  /\ V(y) \in Int /\ v_min \in Int /\ v_min <= V(y)
         /\ V(y) = v_min <=> Level(y)
<1>. DEFINE D == components
            f == Squares(y)
            F == Sums(f, D)
            L == [C \in D |-> LeastOn(C)]
            E == [C \in D |-> SumOver(Slack(y, C), C)]
<1>1. /\ IsFiniteSet(D) /\ UNION D = Port
      /\ \A C \in D : C \in SUBSET Port /\ IsFiniteSet(C)
      /\ \A B, C \in D : B # C => B \cap C = {}
  BY Components
<1>2. \A C \in D : /\ LeastOn(C) \in Int /\ SumOver(f, C) \in Int
                   /\ E[C] = LeastOn(C) - SumOver(f, C)
                   /\ \A p \in C : /\ Slack(y, C)[p] \in Int /\ Slack(y, C)[p] <= 0
                                   /\ Slack(y, C)[p] = 0 <=> y[p] \in {Quotient(C), Quotient(C) + 1}
  BY ComponentSlack DEF SameTotals
<1>3. \A p \in Port : f[p] \in Int
  BY DEF Typed, Squares, Sq
<1>4. V(y) = SumOver(F, D)
  <2>1. V(y) = SumOver(f, Port)
    BY DEF V, Squares
  <2>2. \A C \in D : IsFiniteSet(C) /\ \A p \in C : f[p] \in Int
    BY <1>1, <1>3
  <2>. HIDE DEF D, f
  <2>3. SumOver(f, UNION D) = SumOver(F, D)
    BY <1>1, <2>2, SumByParts
  <2>. QED  BY <1>1, <2>1, <2>3
<1>5. v_min = SumOver(L, D)
  BY DEF v_min
<1>6. \A C \in D : L[C] \in Int /\ F[C] \in Int /\ E[C] = 1 * L[C] - F[C] - 0
  BY <1>2 DEF Sums
<1>7. SumOver(L, D) \in Int /\ SumOver(F, D) \in Int
  <2>. HIDE DEF D, F, L, E
  <2>. QED  BY <1>1, <1>6, SumTyped
<1>8. SumOver(E, D) = SumOver(L, D) - SumOver(F, D)
  <2>. HIDE DEF D, F, L, E
  <2>1. SumOver(E, D) = 1 * SumOver(L, D) - SumOver(F, D) - 0 * Cardinality(D)
    BY <1>1, <1>6, SumIsLinear
  <2>2. Cardinality(D) \in Int
    BY <1>1, FS_CardinalityType
  <2>. QED  BY <1>7, <2>1, <2>2
<1>9. \A C \in D : /\ SumOver(Slack(y, C), C) \in Int /\ SumOver(Slack(y, C), C) <= 0
                   /\ \A p \in C : SumOver(Slack(y, C), C) <= Slack(y, C)[p]
  BY <1>1, <1>2, SumNotPositive
<1>10. \A C \in D : E[C] = SumOver(Slack(y, C), C)
  OBVIOUS
<1>11. SumOver(E, D) \in Int /\ SumOver(E, D) <= 0 /\ \A C \in D : SumOver(E, D) <= E[C]
  <2>1. \A C \in D : E[C] \in Int /\ E[C] <= 0
    BY <1>9, <1>10
  <2>. HIDE DEF D, E
  <2>. QED  BY <1>1, <2>1, SumNotPositive
<1>12. ASSUME SumOver(E, D) = 0, NEW C \in D, NEW p \in C
       PROVE  y[p] \in {Quotient(C), Quotient(C) + 1}
  <2>1. E[C] >= 0
    BY <1>11, <1>12
  <2>2. Slack(y, C)[p] >= 0
    BY <1>2, <1>9, <1>10, <2>1
  <2>. QED  BY <1>2, <2>2
<1>13. ASSUME Level(y) PROVE SumOver(E, D) = 0
  <2>1. \A C \in D : \A p \in C : Slack(y, C)[p] = 0
    BY <1>2, <1>13 DEF Level
  <2>2. \A C \in D : E[C] = 0
    BY <1>1, <1>10, <2>1, SumOfZeros
  <2>. HIDE DEF D, E
  <2>. QED  BY <1>1, <2>2, SumOfZeros
<1>14. SumOver(E, D) = 0 <=> Level(y)
  BY <1>12, <1>13 DEF Level
<1>. HIDE DEF D, F, L, E
<1>. QED  BY <1>4, <1>5, <1>7, <1>8, <1>11, <1>14

(***************************************************************************)
(* A level component holds the readings its total prescribes.              *)
(***************************************************************************)
LEMMA SumOfTwoValues ==
  ASSUME NEW S, IsFiniteSet(S), NEW y, NEW q \in Int, \A p \in S : y[p] \in {q, q + 1}
  PROVE  SumOver(y, S) = q * Cardinality(S) + Readings(y, S, q + 1)
<1>. DEFINE W(r) == {p \in r : y[p] = q + 1}
            Odd == {r \in SUBSET S : SumOver(y, r) # q * Cardinality(r) + Cardinality(W(r))}
<1>. SUFFICES ASSUME Odd # {} PROVE FALSE
  BY DEF Readings
<1>1. PICK r \in Odd : IsFiniteSet(r) /\ \A p \in r : r \ {p} \notin Odd
  <2>1. Odd \in SUBSET (SUBSET S)
    OBVIOUS
  <2>. HIDE DEF Odd
  <2>. QED  BY <2>1, SmallestMember
<1>2. r # {}
  <2>1. SumOver(y, {}) = 0 /\ Cardinality({}) = 0 /\ W({}) = {} /\ q * 0 + 0 = 0
    BY SumOfNone, FS_EmptySet
  <2>. QED  BY <2>1
<1>3. PICK p \in r : TRUE
  BY <1>2
<1>. DEFINE t == r \ {p}
<1>4. \A d \in r : y[d] \in Int
  OBVIOUS
<1>5. SumOver(y, r) = y[p] + SumOver(y, t)
  BY <1>1, <1>4, SumTakesAny
<1>6. SumOver(y, t) = q * Cardinality(t) + Cardinality(W(t))
  BY <1>1
<1>7. Cardinality(t) = Cardinality(r) - 1 /\ Cardinality(r) \in Int
  <2>1. IsFiniteSet(r) /\ p \in r
    BY <1>1
  <2>. HIDE DEF Odd
  <2>. QED  BY <2>1, FS_RemoveElement, FS_CardinalityType
<1>8. IsFiniteSet(W(r)) /\ Cardinality(W(r)) \in Int
  BY <1>1, FS_Subset, FS_CardinalityType
<1>9. W(t) = W(r) \ {p} /\ (p \in W(r) <=> y[p] = q + 1) /\ y[p] \in {q, q + 1}
  OBVIOUS
<1>10. Cardinality(W(t)) = IF y[p] = q + 1 THEN Cardinality(W(r)) - 1 ELSE Cardinality(W(r))
  <2>. HIDE DEF t, Odd, W
  <2>. QED  BY <1>8, <1>9, FS_RemoveElement
<1>11. y[p] = q \/ y[p] = q + 1
  BY <1>9
<1>12. \A k \in Int : q * (k - 1) = q * k - q /\ q * k \in Int
  OBVIOUS
<1>13. SumOver(y, r) = q * Cardinality(r) + Cardinality(W(r))
  <2>. HIDE DEF t, Odd, W
  <2>. QED  BY <1>5, <1>6, <1>7, <1>8, <1>10, <1>11, <1>12
<1>. QED  BY <1>13

Balanced(y) ==
  \A C \in components :
    /\ Readings(y, C, Quotient(C)) = Cardinality(C) - Remainder(C)
    /\ Readings(y, C, Quotient(C) + 1) = Remainder(C)

LEMMA LevelIsBalanced ==
  ASSUME LoadsTyped, NEW y, Typed(y), SameTotals(y), Level(y)
  PROVE  Balanced(y)
<1>. SUFFICES ASSUME NEW C \in components
              PROVE  /\ Readings(y, C, Quotient(C)) = Cardinality(C) - Remainder(C)
                     /\ Readings(y, C, Quotient(C) + 1) = Remainder(C)
  BY DEF Balanced
<1>. DEFINE q == Quotient(C)
            A == {p \in C : y[p] = q}
            B == {p \in C : y[p] = q + 1}
<1>1. q \in Int /\ Remainder(C) \in Int /\ Cardinality(C) \in Int
      /\ Total(y, C) = Cardinality(C) * q + Remainder(C)
  BY Division DEF SameTotals
<1>2. IsFiniteSet(C) /\ \A p \in C : y[p] \in {q, q + 1}
  BY Components DEF Level
<1>. HIDE DEF q
<1>3. Total(y, C) = q * Cardinality(C) + Readings(y, C, q + 1)
  BY <1>1, <1>2, SumOfTwoValues DEF Total
<1>4. Readings(y, C, q + 1) = Cardinality(B) /\ Readings(y, C, q) = Cardinality(A)
  BY DEF Readings
<1>5. A = C \ B /\ C \cap B = B
  BY <1>1, <1>2
<1>6. IsFiniteSet(B) /\ Cardinality(B) \in Int
  BY <1>2, FS_Subset, FS_CardinalityType
<1>7. Cardinality(A) = Cardinality(C) - Cardinality(B)
  <2>. HIDE DEF A, B
  <2>1. Cardinality(C \ B) = Cardinality(C) - Cardinality(C \cap B)
    BY <1>2, FS_Difference
  <2>. QED  BY <1>5, <2>1
<1>8. \A a, b \in Int : a * b = b * a /\ a * b \in Int
  OBVIOUS
<1>9. Cardinality(B) = Remainder(C)
  <2>. HIDE DEF A, B
  <2>1. q * Cardinality(C) = Cardinality(C) * q /\ q * Cardinality(C) \in Int
    BY <1>1, <1>8
  <2>2. /\ Total(y, C) = q * Cardinality(C) + Remainder(C)
        /\ Total(y, C) = q * Cardinality(C) + Cardinality(B)
    BY <1>1, <1>3, <1>4, <2>1
  <2>3. \A k, n, c, d \in Int : n = k + c /\ n = k + d => c = d
    OBVIOUS
  <2>4. Total(y, C) \in Int
    BY <1>1, <2>1
  <2>. QED  BY <1>1, <1>6, <2>1, <2>2, <2>3, <2>4
<1>. QED  BY <1>4, <1>7, <1>9 DEF q

-----------------------------------------------------------------------------
(***************************************************************************)
(* What attempts on disjoint seams leave alone: the total of a component.  *)
(***************************************************************************)
LEMMA OneMoveTotal ==
  ASSUME Draws, NEW y, Typed(y), NEW t \in Attempt, NEW C \in components
  PROVE  Total(After(law, y, {t}), C) = Total(y, C)
<1>. DEFINE z == After(law, y, {t})
            a == seam_a[seq[t]]
            b == seam_b[seq[t]]
            R == (C \ {a}) \ {b}
<1>1. seq \in [Attempt -> Seam] /\ {t} \in SUBSET Attempt /\ Disjoint({t})
  BY DEF Draws, Disjoint
<1>2. a \in Port /\ b \in Port /\ a # b /\ (a \in C <=> b \in C)
      /\ C \in SUBSET Port /\ IsFiniteSet(C)
  BY <1>1, EndsArePorts, Components DEF Closed
<1>3. /\ z[a] = ToFirst(law, y, seq[t], coin[t])
      /\ z[b] = ToSecond(law, y, seq[t], coin[t])
      /\ \A p \in Port : p \notin {a, b} => z[p] = y[p]
  <2>1. \A p \in Port : (\A n \in {t} : p \notin Ends(seq[n])) => z[p] = y[p]
    BY <1>1, AfterWrites
  <2>2. /\ z[a] = ToFirst(law, y, seq[t], coin[t])
        /\ z[b] = ToSecond(law, y, seq[t], coin[t])
    BY <1>1, AfterWrites
  <2>. HIDE DEF z
  <2>. QED  BY <2>1, <2>2 DEF Ends
<1>4. Typed(z)
  BY <1>1, AfterTyped
<1>5. z[a] + z[b] = y[a] + y[b]
  <2>1. z[b] = Sum2(y, seq[t]) - z[a] /\ Sum2(y, seq[t]) = y[a] + y[b]
    BY <1>3 DEF ToSecond, Sum2
  <2>2. z[a] \in Int /\ y[a] \in Int /\ y[b] \in Int
    BY <1>2, <1>4 DEF Typed
  <2>. HIDE DEF z, a, b
  <2>. QED  BY <2>1, <2>2
<1>. HIDE DEF z, a, b
<1>6. \A p \in Port : z[p] \in Int /\ y[p] \in Int
  BY <1>4 DEF Typed
<1>7. CASE a \in C
  <2>1. IsFiniteSet(C \ {a}) /\ IsFiniteSet(R)
    BY <1>2, FS_RemoveElement
  <2>2. /\ \A p \in C : z[p] \in Int /\ y[p] \in Int
        /\ \A p \in C \ {a} : z[p] \in Int /\ y[p] \in Int
        /\ \A p \in R : z[p] \in Int /\ y[p] \in Int /\ z[p] = y[p]
        /\ b \in C \ {a}
    BY <1>2, <1>3, <1>6, <1>7
  <2>3. /\ SumOver(y, C) = y[a] + SumOver(y, C \ {a})
        /\ SumOver(z, C) = z[a] + SumOver(z, C \ {a})
    BY <1>2, <1>7, <2>2, SumTakesAny
  <2>4. /\ SumOver(y, C \ {a}) = y[b] + SumOver(y, R)
        /\ SumOver(z, C \ {a}) = z[b] + SumOver(z, R)
    BY <2>1, <2>2, SumTakesAny
  <2>5. SumOver(z, R) = SumOver(y, R)
    BY <2>1, <2>2, SumCongruent
  <2>6. SumOver(y, R) \in Int
    BY <2>1, <2>2, SumTyped
  <2>7. z[a] \in Int /\ z[b] \in Int /\ y[a] \in Int /\ y[b] \in Int
    BY <1>2, <1>6
  <2>8. SumOver(z, C) = SumOver(y, C)
    <3>. HIDE DEF R
    <3>. QED  BY <1>5, <2>3, <2>4, <2>5, <2>6, <2>7
  <2>. QED  BY <2>8 DEF Total, z
<1>8. CASE a \notin C
  <2>1. \A p \in C : z[p] = y[p]
    BY <1>2, <1>3, <1>8
  <2>2. SumOver(z, C) = SumOver(y, C)
    BY <1>2, <2>1, SumCongruent
  <2>. QED  BY <2>2 DEF Total, z
<1>. QED  BY <1>7, <1>8

LEMMA LayerTotal ==
  ASSUME Draws, NEW U \in SUBSET Attempt, Disjoint(U), NEW w, Typed(w), NEW C \in components
  PROVE  Total(After(law, w, U), C) = Total(w, C)
<1>. DEFINE Odd == {r \in SUBSET U : \E y \in [Port -> Int] :
                      Total(After(law, y, r), C) # Total(y, C)}
<1>. SUFFICES ASSUME Odd # {} PROVE FALSE
  BY DEF Typed
<1>0. IsFiniteSet(U)
  BY RangesAreFinite
<1>1. PICK r \in Odd : IsFiniteSet(r) /\ \A e \in r : r \ {e} \notin Odd
  <2>1. Odd \in SUBSET (SUBSET U)
    OBVIOUS
  <2>. HIDE DEF Odd
  <2>. QED  BY <1>0, <2>1, SmallestMember
<1>2. PICK y \in [Port -> Int] : Total(After(law, y, r), C) # Total(y, C)
  OBVIOUS
<1>3. Typed(y)
  BY DEF Typed
<1>4. r # {}
  BY <1>2, <1>3, AfterNone
<1>5. PICK t \in r : TRUE
  BY <1>4
<1>. DEFINE z == After(law, y, {t})
            q == r \ {t}
<1>6. /\ r \in SUBSET Attempt /\ q \in SUBSET U /\ t \in Attempt /\ Disjoint(r)
      /\ {t} \in SUBSET Attempt /\ seq \in [Attempt -> Seam]
  BY DEF Disjoint, Draws
<1>7. After(law, y, r) = After(law, z, q)
  BY <1>6, OneBeforeTheRest
<1>8. Typed(z) /\ Total(z, C) = Total(y, C)
  BY <1>3, <1>6, AfterTyped, OneMoveTotal
<1>9. Total(After(law, z, q), C) = Total(z, C)
  <2>1. q \notin Odd
    BY <1>1
  <2>. QED  BY <1>6, <1>8, <2>1 DEF Typed
<1>. HIDE DEF z, q
<1>. QED  BY <1>2, <1>7, <1>8, <1>9

-----------------------------------------------------------------------------
(***************************************************************************)
(* What a schedule of the integer law keeps: the totals, changes that only *)
(* lower V, and the minimum once it has been reported.                     *)
(***************************************************************************)
BalanceInv ==
  /\ law = "mean" => first = 0 /\ first_attempt = -1
  /\ law = "integer" =>
       /\ SameTotals(x)
       /\ \A t \in Attempt : delta[t] <= 0
       /\ first > 0 \/ first_attempt >= 0 => v = v_min

LEMMA MinimumKept ==
  ASSUME UNCHANGED loads
  PROVE  v_min' = v_min
BY DEF v_min, LeastOn, Total

LEMMA BalanceInit == Init => BalanceInv
<1>. SUFFICES ASSUME Init PROVE BalanceInv
  OBVIOUS
<1>1. TypeOK
  BY TypeInit
<1>2. law \in {"integer", "mean"} /\ first = 0 /\ \A t \in Attempt : delta[t] = 0
  BY <1>1 DEF Init, TypeOK
<1>3. first_attempt \in {0, -1} /\ (first_attempt = 0 => law = "integer" /\ v = v_min)
  BY DEF Init
<1>4. ASSUME law = "integer" PROVE SameTotals(x)
  <2>1. \A p \in Port : x[p] = loads[p]
    <3>1. \A p \in Port : loads[p] \in Int
      BY <1>1, SizeAssumption DEF TypeOK
    <3>2. Unit(law) = 1
      BY <1>4 DEF Unit
    <3>. QED  BY <3>1, <3>2 DEF Init
  <2>2. ASSUME NEW C \in components PROVE SumOver(x, C) = SumOver(loads, C)
    <3>1. IsFiniteSet(C) /\ C \in SUBSET Port
      BY Components
    <3>. QED  BY <2>1, <3>1, SumCongruent
  <2>. QED  BY <2>2 DEF SameTotals, Total
<1>. QED  BY <1>2, <1>3, <1>4 DEF BalanceInv

\* V of the readings never falls below the minimum.
LEMMA AboveMinimum ==
  ASSUME TypeOK, law = "integer", SameTotals(x)
  PROVE  v_min \in Int /\ v_min <= V(x) /\ (V(x) = v_min <=> Level(x))
BY DrawsHold, MinimumIsLevel DEF TypeOK, LoadsTyped

LEMMA TotalsKept ==
  ASSUME TypeOK, [Next]_vars, SameTotals(x)
  PROVE  SameTotals(x)'
<1>1. UNCHANGED loads
  BY DEF Next, vars, choice, Draw, Move, Layer, CloseChunk, CloseSweep, Stop
<1>2. \A C \in components : Total(x', C) = Total(x, C)
  <2>1. CASE x' = x
    BY <2>1
  <2>2. CASE x' # x
    <3>1. PICK T \in SUBSET Attempt : Disjoint(T) /\ x' = After(law, x, T)
      BY <2>2, StepIsLayer
    <3>. QED  BY <3>1, DrawsHold, LayerTotal
  <2>. QED  BY <2>1, <2>2
<1>3. SameTotals(x)' = \A C \in components : Total(x', C) = Total(loads', C)
  BY DEF SameTotals, Total
<1>. QED  BY <1>1, <1>2, <1>3 DEF SameTotals

LEMMA RunningDescends ==
  ASSUME TypeOK, \A t \in Attempt : delta[t] <= 0, NEW t \in Attempt
  PROVE  Running(Seams) <= Running(t)
<1>. DEFINE S == {u \in ChunkFrom(start) : u <= Seams}
            A == {u \in ChunkFrom(start) : u <= t}
<1>1. A \in SUBSET S /\ S \in SUBSET Attempt
  BY SizeAssumption DEF ChunkFrom, Attempt
<1>2. \A u \in Attempt : delta[u] \in Int /\ delta[u] <= 0
  BY DEF TypeOK
<1>. HIDE DEF S, A
<1>3. SumOver(delta, S) = SumOver(delta, A) + SumOver(delta, S \ A)
  BY <1>1, <1>2, RangesAreFinite, SumSplits
<1>4. /\ SumOver(delta, A) \in Int
      /\ SumOver(delta, S \ A) \in Int /\ SumOver(delta, S \ A) <= 0
  <2>1. A \in SUBSET Attempt /\ S \ A \in SUBSET Attempt
    BY <1>1
  <2>2. IsFiniteSet(A) /\ IsFiniteSet(S \ A)
    BY <2>1, RangesAreFinite
  <2>3. /\ \A u \in A : delta[u] \in Int /\ delta[u] <= 0
        /\ \A u \in S \ A : delta[u] \in Int /\ delta[u] <= 0
    BY <1>2, <2>1
  <2>. QED  BY <2>2, <2>3, SumNotPositive
<1>5. Running(Seams) = v + SumOver(delta, S) /\ Running(t) = v + SumOver(delta, A) /\ v \in Int
  BY DEF Running, S, A, TypeOK
<1>. QED  BY <1>3, <1>4, <1>5

LEMMA BalanceStep ==
  ASSUME TypeOK, TypeOK', LedgerInv, LedgerInv', BalanceInv, [Next]_vars
  PROVE  BalanceInv'
<1>. USE DEF choice
<1>1. UNCHANGED <<law, loads>> /\ v_min' = v_min
  <2>1. UNCHANGED <<law, loads>>
    BY DEF Next, vars, Draw, Move, Layer, CloseChunk, CloseSweep, Stop
  <2>. QED  BY <2>1, MinimumKept
<1>2. CASE law = "mean"
  <2>1. CASE Move
    BY <1>1, <1>2, <2>1 DEF BalanceInv, Move
  <2>2. CASE CloseChunk
    BY <1>1, <1>2, <2>2 DEF BalanceInv, CloseChunk
  <2>3. CASE CloseSweep
    BY <1>1, <1>2, <2>3 DEF BalanceInv, CloseSweep
  <2>4. CASE Draw \/ Layer \/ Stop \/ UNCHANGED vars
    BY <1>1, <1>2, <2>4 DEF BalanceInv, Draw, Layer, Stop, vars
  <2>. QED  BY <2>1, <2>2, <2>3, <2>4 DEF Next
<1>3. CASE law = "integer"
  <2>. DEFINE Known == first > 0 \/ first_attempt >= 0
  <2>1. /\ SameTotals(x) /\ \A t \in Attempt : delta[t] <= 0
        /\ Known => v = v_min
    BY <1>3 DEF BalanceInv
  <2>2. SameTotals(x)'
    BY <2>1, TotalsKept
  <2>3. v_min \in Int /\ v_min <= V(x')
    <3>1. (v_min \in Int /\ v_min <= V(x))'
      <4>1. law' = "integer"
        BY <1>1, <1>3
      <4>2. TypeOK /\ law = "integer" /\ SameTotals(x) => v_min \in Int /\ v_min <= V(x)
        BY AboveMinimum
      <4>3. (TypeOK /\ law = "integer" /\ SameTotals(x) => v_min \in Int /\ v_min <= V(x))'
        BY AboveMinimum, PTL
      <4>. QED  BY <2>2, <4>1, <4>3
    <3>2. V(x)' = V(x')
      BY DEF V
    <3>. QED  BY <1>1, <3>1, <3>2
  <2>4. /\ v \in Int
        /\ v' \in Int
    BY DEF TypeOK
  <2>5. ASSUME \A t \in Attempt : delta'[t] = 0 PROVE v_min <= v'
    <3>1. SumOver(delta', Attempt) = 0
      BY <2>5, NoneToBook
    <3>2. V(x') = v' + SumOver(delta', Attempt)
      BY DEF LedgerInv, V
    <3>3. V(x') = v'
      <4>1. V(x') = v' + 0
        BY <3>1, <3>2
      <4>2. v' + 0 = v'
        <5>1. v' \in Int
          BY <2>4
        <5>2. \A n \in Int : n + 0 = n
          OBVIOUS
        <5>. QED  BY <5>1, <5>2
      <4>. QED  BY <4>1, <4>2
    <3>. QED  BY <2>3, <3>3
  <2>. SUFFICES /\ \A t \in Attempt : delta'[t] <= 0
                /\ Known' => v' = v_min
    BY <1>1, <1>3, <2>2 DEF BalanceInv
  <2>6. CASE Move
    <3>1. PICK t \in remaining : /\ v' = v + DeltaAt(x, t)
                                 /\ (first' = t /\ v' = v_min) \/ first' = first
      BY <2>6 DEF Move
    <3>2. UNCHANGED <<delta, first_attempt>> /\ engine = "python"
      BY <2>6 DEF Move
    <3>3. \A n \in Attempt : delta'[n] = 0
      BY <3>2 DEF LedgerInv
    <3>4. v_min <= v'
      BY <2>5, <3>3
    <3>5. DeltaAt(x, t) \in Int /\ DeltaAt(x, t) <= 0
      <4>1. t \in Attempt
        BY DEF TypeOK
      <4>. QED  BY <1>3, <4>1, DrawsHold, IntegerDelta
    <3>6. Known' => v' = v_min
      BY <2>1, <2>3, <2>4, <3>1, <3>2, <3>4, <3>5
    <3>. QED  BY <2>1, <3>2, <3>6
  <2>7. CASE Layer
    <3>1. UNCHANGED <<v, first, first_attempt>>
      BY <2>7 DEF Layer
    <3>2. \A t \in Attempt : delta'[t] = DeltaAt(x, t) \/ delta'[t] = delta[t]
      BY <2>7 DEF Layer
    <3>3. \A t \in Attempt : DeltaAt(x, t) <= 0
      BY <1>3, DrawsHold, IntegerDelta
    <3>. QED  BY <2>1, <3>1, <3>2, <3>3
  <2>8. CASE CloseChunk
    <3>1. /\ v' = Running(Seams) /\ UNCHANGED first_attempt
          /\ \A t \in Attempt : delta'[t] = 0
      BY <2>8 DEF CloseChunk
    <3>2. v_min <= v'
      BY <2>5, <3>1
    <3>3. v' <= v
      <4>1. v' = v + SumOver(delta, Attempt)
        BY <3>1, BookedByChunk
      <4>2. \A t \in Attempt : delta[t] \in Int /\ delta[t] <= 0
        BY <2>1 DEF TypeOK
      <4>3. IsFiniteSet(Attempt)
        BY RangesAreFinite
      <4>4. SumOver(delta, Attempt) \in Int /\ SumOver(delta, Attempt) <= 0
        BY <4>2, <4>3, SumNotPositive
      <4>. QED  BY <2>4, <4>1, <4>4
    <3>4. CASE first' = first
      BY <2>1, <2>3, <2>4, <3>1, <3>2, <3>3, <3>4
    <3>5. CASE first' # first
      <4>. DEFINE hit == {t \in ChunkFrom(start) : Running(t) = v_min}
      <4>1. hit # {} /\ first' = Min(hit)
        BY <2>8, <3>5 DEF CloseChunk
      <4>2. hit \in SUBSET Attempt
        BY ChunkIsSlice
      <4>3. Min(hit) \in hit
        <5>. HIDE DEF hit
        <5>. QED  BY <4>1, <4>2, SmallestAttempt
      <4>4. first' \in Attempt /\ Running(first') = v_min
        BY <4>1, <4>2, <4>3
      <4>5. v' <= v_min
        BY <2>1, <3>1, <4>4, RunningDescends
      <4>. QED  BY <2>3, <2>4, <3>1, <3>2, <4>5
    <3>. QED  BY <3>4, <3>5
  <2>9. CASE CloseSweep
    <3>1. /\ UNCHANGED <<v, delta>> /\ first' = 0
          /\ first_attempt' = first_attempt \/ first > 0
      BY <2>9 DEF CloseSweep
    <3>. QED  BY <2>1, <3>1
  <2>10. CASE Draw \/ Stop \/ UNCHANGED vars
    <3>1. UNCHANGED <<v, delta, first, first_attempt>>
      BY <2>10 DEF Draw, Stop, vars
    <3>. QED  BY <2>1, <3>1
  <2>. QED  BY <2>6, <2>7, <2>8, <2>9, <2>10 DEF Next
<1>. QED  BY <1>2, <1>3 DEF TypeOK

LEMMA BalanceHolds == Spec => [](TypeOK /\ LedgerInv /\ BalanceInv)
<1>1. Init => LedgerInv /\ BalanceInv
  BY LedgerInit, BalanceInit
<1>2. TypeOK /\ LedgerInv /\ [Next]_vars => LedgerInv'
  BY LedgerStep
<1>3. TypeOK /\ TypeOK' /\ LedgerInv /\ LedgerInv' /\ BalanceInv /\ [Next]_vars => BalanceInv'
  BY BalanceStep
<1>. QED  BY <1>1, <1>2, <1>3, ReadingsStayInRange, PTL DEF Spec

(***************************************************************************)
(* TerminalIsBalanced for every federation: a schedule of the integer law  *)
(* that reports the minimum ends with the quotient and the quotient plus   *)
(* one, as often as the total of each component prescribes.                *)
(***************************************************************************)
THEOREM BalancedAtTheEnd == Spec => []TerminalIsBalanced
<1>1. TypeOK /\ LedgerInv /\ LedgerExact /\ BalanceInv => TerminalIsBalanced
  <2>. SUFFICES ASSUME TypeOK, LedgerExact, BalanceInv, pc = "done", first_attempt >= 0
                PROVE  Balanced(x)
    BY DEF TerminalIsBalanced, Balanced, Quotient, Remainder
  <2>1. law = "integer"
    BY DEF TypeOK, BalanceInv
  <2>2. SameTotals(x) /\ v = v_min /\ v = V(x)
    BY <2>1 DEF BalanceInv, LedgerExact
  <2>3. Level(x)
    BY <2>1, <2>2, AboveMinimum
  <2>. QED  BY <2>2, <2>3, DrawsHold, LevelIsBalanced DEF TypeOK, LoadsTyped
<1>. QED  BY <1>1, BalanceHolds, LedgerIsExact, PTL

-----------------------------------------------------------------------------
(***************************************************************************)
(* The readings that neutral swaps lead to.                                *)
(***************************************************************************)
Spread(S) == S \cup UNION {NeutralMoves(y) : y \in S}

IsOrbit(g, m) == g = [n \in 0..m |-> IF n = 0 THEN {x} ELSE Spread(g[n - 1])]

LEMMA OrbitExists ==
  ASSUME NEW hi \in Nat
  PROVE  \E g : IsOrbit(g, hi)
<1>. DEFINE B == {m \in 0..hi : ~\E g : IsOrbit(g, m)}
<1>. SUFFICES ASSUME B # {} PROVE FALSE
  OBVIOUS
<1>1. 0 \notin B
  <2>1. IsOrbit([n \in 0..0 |-> {x}], 0)
    BY DEF IsOrbit
  <2>. QED  BY <2>1
<1>2. PICK m \in B : m \in 1..hi /\ m - 1 \in 0..hi /\ m - 1 \notin B
  <2>1. B \in SUBSET (0..hi) /\ 0 \in Nat
    OBVIOUS
  <2>. HIDE DEF B
  <2>2. \E m \in B : m \in (0 + 1)..hi /\ m - 1 \in 0..hi /\ m - 1 \notin B
    BY <1>1, <2>1, FirstBad
  <2>. QED  BY <2>2
<1>3. PICK g : IsOrbit(g, m - 1)
  BY <1>2
<1>. DEFINE h == [n \in 0..m |-> IF n = 0 THEN {x} ELSE Spread(g[n - 1])]
<1>4. \A n \in 0..(m - 1) : n \in 0..m /\ h[n] = g[n]
  <2>1. \A n \in 0..(m - 1) : n \in 0..m
    BY <1>2
  <2>2. g = [n \in 0..(m - 1) |-> IF n = 0 THEN {x} ELSE Spread(g[n - 1])]
    BY <1>3 DEF IsOrbit
  <2>3. \A n \in 0..(m - 1) : g[n] = IF n = 0 THEN {x} ELSE Spread(g[n - 1])
    <3>. HIDE <1>3
    <3>. QED  BY <2>2
  <2>. QED  BY <2>1, <2>3
<1>5. \A n \in 0..m : n # 0 => h[n - 1] = g[n - 1]
  <2>1. \A n \in 0..m : n # 0 => n - 1 \in 0..(m - 1)
    BY <1>2
  <2>. HIDE DEF h
  <2>. QED  BY <1>4, <2>1
<1>6. h = [n \in 0..m |-> IF n = 0 THEN {x} ELSE Spread(h[n - 1])]
  BY <1>5
<1>. QED  BY <1>2, <1>6 DEF IsOrbit

Orbits(g) == g[0] = {x} /\ \A n \in 1..(2 * Ports) : g[n] = Spread(g[n - 1])

Descends(y) == \E s \in Seam : Kind("integer", y, s, FALSE) = "descent"

LEMMA StuckByOrbit ==
  \E g : /\ Orbits(g)
         /\ (\E y \in g[2 * Ports] : Descends(y)) => NeverStuck
<1>. DEFINE g == CHOOSE g : IsOrbit(g, 2 * Ports)
<1>1. 2 * Ports \in Nat
  BY SizeAssumption
<1>2. IsOrbit(g, 2 * Ports)
  BY <1>1, OrbitExists
<1>3. (\E y \in g[2 * Ports] : Descends(y)) => NeverStuck
  BY DEF NeverStuck, IsOrbit, Spread, Descends
<1>. HIDE DEF g
<1>4. g = [n \in 0..(2 * Ports) |-> IF n = 0 THEN {x} ELSE Spread(g[n - 1])]
  BY <1>2 DEF IsOrbit
<1>5. g[0] = {x}
  BY <1>1, <1>4
<1>6. ASSUME NEW n \in 1..(2 * Ports) PROVE g[n] = Spread(g[n - 1])
  <2>1. n \in 0..(2 * Ports) /\ n # 0
    BY <1>1
  <2>2. g[n] = IF n = 0 THEN {x} ELSE Spread(g[n - 1])
    BY <1>4, <2>1
  <2>. QED  BY <2>1, <2>2
<1>. QED  BY <1>3, <1>5, <1>6 DEF Orbits

\* The readings y with those of seam s exchanged.
Swapped(y, s) == [y EXCEPT ![seam_a[s]] = y[seam_b[s]], ![seam_b[s]] = y[seam_a[s]]]

LEMMA NeutralSwap ==
  ASSUME NEW y, Typed(y), NEW s \in Seam, Diff(y, s) \in {1, -1}
  PROVE  Swapped(y, s) \in NeutralMoves(y) /\ Typed(Swapped(y, s))
<1>. DEFINE a == y[seam_a[s]]
            b == y[seam_b[s]]
<1>1. a \in Int /\ b \in Int /\ Sum2(y, s) = a + b /\ Diff(y, s) = a - b
      /\ seam_a[s] \in Port /\ seam_b[s] \in Port
  BY EndsArePorts DEF Typed, Sum2, Diff
<1>2. Typed(Swapped(y, s))
  BY <1>1 DEF Typed, Swapped
<1>. DEFINE c == a < b
<1>3. c \in BOOLEAN
  OBVIOUS
<1>4. ToFirst("integer", y, s, c) = b /\ ToSecond("integer", y, s, c) = a
  <2>. HIDE DEF a, b
  <2>1. CASE a - b = 1
    <3>1. (a + b) \div 2 = b
      BY <1>1, <2>1
    <3>2. ~c
      BY <1>1, <2>1
    <3>3. ToFirst("integer", y, s, c) = b
      BY <1>1, <3>1, <3>2 DEF ToFirst
    <3>. QED  BY <1>1, <3>3 DEF ToSecond
  <2>2. CASE a - b = -1
    <3>1. (a + b) \div 2 = a
      BY <1>1, <2>2
    <3>2. c
      BY <1>1, <2>2
    <3>3. ToFirst("integer", y, s, c) = b
      BY <1>1, <3>1, <3>2 DEF ToFirst
    <3>. QED  BY <1>1, <3>3 DEF ToSecond
  <2>. QED  BY <1>1, <2>1, <2>2
<1>5. a # b
  BY <1>1
<1>. HIDE DEF c
<1>6. Kind("integer", y, s, c) = "swap"
  <2>1. Diff(y, s) # 0 /\ ToFirst("integer", y, s, c) # y[seam_a[s]]
    BY <1>4, <1>5
  <2>. QED  BY <2>1 DEF Kind
<1>7. Swapped(y, s) = [y EXCEPT ![seam_a[s]] = ToFirst("integer", y, s, c),
                                ![seam_b[s]] = ToSecond("integer", y, s, c)]
  BY <1>4 DEF Swapped
<1>8. c \in {d \in BOOLEAN : Kind("integer", y, s, d) = "swap"}
  BY <1>3, <1>6
<1>9. Swapped(y, s) \in {[y EXCEPT ![seam_a[s]] = ToFirst("integer", y, s, d),
                                  ![seam_b[s]] = ToSecond("integer", y, s, d)] :
                          d \in {d \in BOOLEAN : Kind("integer", y, s, d) = "swap"}}
  BY <1>7, <1>8
<1>. QED  BY <1>2, <1>9 DEF NeutralMoves

LEMMA OrbitGrows ==
  ASSUME NEW g, Orbits(g), NEW n \in 0..(2 * Ports)
  PROVE  g[n] \subseteq g[2 * Ports]
<1>. DEFINE B == {m \in n..(2 * Ports) : ~(g[n] \subseteq g[m])}
<1>0. 2 * Ports \in Nat
  BY SizeAssumption
<1>. SUFFICES ASSUME B # {} PROVE FALSE
  BY <1>0
<1>1. PICK m \in B : m \in (n + 1)..(2 * Ports) /\ m - 1 \in n..(2 * Ports) /\ m - 1 \notin B
  <2>1. B \in SUBSET (n..(2 * Ports)) /\ n \notin B /\ n \in Nat
    BY <1>0
  <2>. HIDE DEF B
  <2>. QED  BY <1>0, <2>1, FirstBad
<1>2. g[n] \subseteq g[m - 1] /\ m \in 1..(2 * Ports)
  BY <1>1
<1>3. g[m] = Spread(g[m - 1])
  BY <1>2 DEF Orbits
<1>. QED  BY <1>1, <1>2, <1>3 DEF Spread

\* At least two apart.
Apart2(m, n) == m - n >= 2 \/ n - m >= 2

(***************************************************************************)
(* Two ports of a component that are two or more apart meet: the far port  *)
(* q is next to some r that is nearer to p.  Either p and r are two apart, *)
(* or q and r descend, or one swap carries the reading of q to r.          *)
(***************************************************************************)
LEMMA ApartMeets ==
  ASSUME NEW p \in Port, NEW h, Rounds(h, p), NEW g, Orbits(g)
  PROVE  \A k \in 0..Ports :
           \A n \in Nat : n + k <= 2 * Ports =>
             \A y \in g[n] : \A q \in h[k] :
               Typed(y) /\ Apart2(y[p], y[q]) => \E z \in g[2 * Ports] : Descends(z)
<1>. DEFINE Goal == \E z \in g[2 * Ports] : Descends(z)
            P(k) == \A n \in Nat : n + k <= 2 * Ports =>
                      \A y \in g[n] : \A q \in h[k] :
                        Typed(y) /\ Apart2(y[p], y[q]) => Goal
            B == {k \in 0..Ports : ~P(k)}
<1>. SUFFICES ASSUME B # {} PROVE FALSE
  OBVIOUS
<1>0. Ports \in Nat /\ 2 * Ports \in Nat
  BY SizeAssumption
<1>1. 0 \notin B
  <2>1. h[0] = {p}
    BY DEF Rounds
  <2>2. \A y : Typed(y) => ~Apart2(y[p], y[p])
    BY DEF Typed, Apart2
  <2>. QED  BY <2>1, <2>2
<1>2. PICK k \in B : k \in 1..Ports /\ k - 1 \in 0..Ports /\ k - 1 \notin B
  <2>1. B \in SUBSET (0..Ports) /\ 0 \in Nat
    OBVIOUS
  <2>. HIDE DEF B
  <2>2. \E k \in B : k \in (0 + 1)..Ports /\ k - 1 \in 0..Ports /\ k - 1 \notin B
    BY <1>0, <1>1, <2>1, FirstBad
  <2>. QED  BY <2>2
<1>3. P(k - 1)
  BY <1>2
<1>4. h[k] = Grow(h[k - 1])
  BY <1>2 DEF Rounds
<1>5. h[k - 1] \in SUBSET Port
  <2>1. Closed(Port) /\ Port \in SUBSET Port
    BY EndsArePorts DEF Closed
  <2>. QED  BY <1>2, <2>1, RoundsArePorts
<1>6. PICK n \in Nat : n + k <= 2 * Ports
                       /\ \E y \in g[n] : \E q \in h[k] :
                            Typed(y) /\ Apart2(y[p], y[q]) /\ ~Goal
  BY <1>2
<1>7. PICK y \in g[n] : \E q \in h[k] : Typed(y) /\ Apart2(y[p], y[q]) /\ ~Goal
  BY <1>6
<1>8. PICK q \in h[k] : Typed(y) /\ Apart2(y[p], y[q]) /\ ~Goal
  BY <1>7
<1>. HIDE DEF B
<1>9. ~\E r \in h[k - 1] : Apart2(y[p], y[r])
  <2>1. n + (k - 1) <= 2 * Ports
    BY <1>0, <1>2, <1>6
  <2>. HIDE DEF Goal
  <2>. QED  BY <1>3, <1>7, <1>8, <2>1
<1>10. PICK r \in h[k - 1] : q \in neighbours[r]
  BY <1>4, <1>8, <1>9 DEF Grow
<1>11. r \in Port /\ q \in Port /\ ~Apart2(y[p], y[r])
  BY <1>5, <1>9, <1>10, NeighboursArePorts
<1>12. PICK s \in Seam : Ends(s) = {r, q}
  BY <1>10, <1>11 DEF neighbours
<1>13. y[p] \in Int /\ y[q] \in Int /\ y[r] \in Int
  BY <1>8, <1>11 DEF Typed
<1>14. \/ seam_a[s] = r /\ seam_b[s] = q
       \/ seam_a[s] = q /\ seam_b[s] = r
  <2>1. seam_a[s] # seam_b[s] /\ {seam_a[s], seam_b[s]} = {r, q}
    BY <1>12, EndsArePorts DEF Ends
  <2>. QED  BY <2>1
<1>15. n \in 0..(2 * Ports) /\ n + 1 \in 1..(2 * Ports)
  BY <1>0, <1>2, <1>6
<1>16. ~Apart2(y[q], y[r])
  <2>. SUFFICES ASSUME Apart2(y[q], y[r]) PROVE Goal
    BY <1>8
  <2>1. Diff(y, s) \notin {0, 1, -1}
    BY <1>13, <1>14 DEF Diff, Apart2
  <2>2. Descends(y)
    BY <2>1 DEF Descends, Kind
  <2>. QED  BY <1>15, <2>2, OrbitGrows
<1>17. Diff(y, s) \in {1, -1}
  BY <1>8, <1>11, <1>13, <1>14, <1>16 DEF Diff, Apart2
<1>. DEFINE z == Swapped(y, s)
<1>18. z \in g[n + 1] /\ Typed(z)
  <2>1. z \in NeutralMoves(y) /\ Typed(z)
    BY <1>8, <1>17, NeutralSwap
  <2>2. g[n + 1] = Spread(g[(n + 1) - 1]) /\ (n + 1) - 1 = n
    BY <1>15 DEF Orbits
  <2>. HIDE DEF z
  <2>. QED  BY <2>1, <2>2 DEF Spread
<1>19. z[r] = y[q] /\ z[p] = y[p]
  <2>1. p # q /\ p # r /\ q # r
    BY <1>8, <1>13, <1>14, <1>16, EndsArePorts DEF Apart2
  <2>2. DOMAIN y = Port
    BY <1>8 DEF Typed
  <2>. QED  BY <1>11, <1>14, <2>1, <2>2 DEF Swapped
<1>. HIDE DEF z
<1>20. (n + 1) + (k - 1) <= 2 * Ports /\ n + 1 \in Nat
  BY <1>0, <1>2, <1>6
<1>21. Goal
  <2>1. Apart2(z[p], z[r])
    BY <1>8, <1>19
  <2>. HIDE DEF Goal
  <2>. QED  BY <1>3, <1>10, <1>18, <1>20, <2>1
<1>. QED  BY <1>8, <1>21

LEMMA UnlevelIsApart ==
  ASSUME LoadsTyped, NEW y, Typed(y), SameTotals(y), NEW C \in components,
         NEW p \in C, y[p] \notin {Quotient(C), Quotient(C) + 1}
  PROVE  \E q \in C : Apart2(y[p], y[q])
<1>. SUFFICES ASSUME \A q \in C : ~Apart2(y[p], y[q]) PROVE FALSE
  OBVIOUS
<1>. DEFINE m == Cardinality(C)
            k == Quotient(C)
            f == [q \in C |-> 0]
            over == [q \in C |-> (-1) * y[q] - f[q] - (0 - (k + 1))]
            under == [q \in C |-> 1 * y[q] - f[q] - k]
<1>1. /\ k \in Int /\ Remainder(C) \in 0..(m - 1) /\ m \in Nat \ {0}
      /\ SumOver(y, C) = m * k + Remainder(C)
  BY Division DEF SameTotals, Total
<1>2. IsFiniteSet(C) /\ \A q \in C : y[q] \in Int /\ f[q] \in Int /\ f[q] = 0
  BY Components DEF Typed
<1>3. SumOver(f, C) = 0
  BY <1>2, SumOfZeros
<1>4. y[p] >= k + 2 \/ y[p] <= k - 1
  <2>1. y[p] \in Int /\ y[p] # k /\ y[p] # k + 1
    BY <1>2
  <2>2. k \in Int
    BY <1>1
  <2>3. \A a, b \in Int : a # b /\ a # b + 1 => a >= b + 2 \/ a <= b - 1
    OBVIOUS
  <2>. HIDE DEF k
  <2>. QED  BY <2>1, <2>2, <2>3
<1>5. ASSUME y[p] >= k + 2 PROVE FALSE
  <2>1. \A q \in C : over[q] \in Int /\ over[q] <= 0
    <3>1. \A q \in C : y[q] >= k + 1
      BY <1>1, <1>2, <1>5 DEF Apart2
    <3>. HIDE DEF k, f
    <3>. QED  BY <1>1, <1>2, <3>1
  <2>2. over[p] <= -1
    BY <1>1, <1>2, <1>5
  <2>3. SumOver(over, C) = (-1) * SumOver(y, C) - SumOver(f, C) - (0 - (k + 1)) * m
    <3>1. \A q \in C : over[q] = (-1) * y[q] - f[q] - (0 - (k + 1))
      OBVIOUS
    <3>2. 0 - (k + 1) \in Int /\ -1 \in Int
      BY <1>1
    <3>. HIDE DEF over, f, k
    <3>. QED  BY <1>2, <3>1, <3>2, SumIsLinear
  <2>. HIDE DEF over, f, k, m
  <2>4. SumOver(over, C) <= over[p] /\ SumOver(over, C) \in Int
    BY <1>2, <2>1, SumNotPositive
  <2>5. \A a, b \in Int : (0 - (b + 1)) * a = 0 - (a * b + a) /\ a * b \in Int
    OBVIOUS
  <2>6. (0 - (k + 1)) * m = 0 - (m * k + m) /\ m * k \in Int
    BY <1>1, <2>5
  <2>. QED  BY <1>1, <1>3, <2>1, <2>2, <2>3, <2>4, <2>6
<1>6. ASSUME y[p] <= k - 1 PROVE FALSE
  <2>1. \A q \in C : under[q] \in Int /\ under[q] <= 0
    <3>1. \A q \in C : y[q] <= k
      BY <1>1, <1>2, <1>6 DEF Apart2
    <3>. HIDE DEF k, f
    <3>. QED  BY <1>1, <1>2, <3>1
  <2>2. under[p] <= -1
    BY <1>1, <1>2, <1>6
  <2>3. SumOver(under, C) = 1 * SumOver(y, C) - SumOver(f, C) - k * m
    <3>1. \A q \in C : under[q] = 1 * y[q] - f[q] - k
      OBVIOUS
    <3>. HIDE DEF under, f, k
    <3>. QED  BY <1>1, <1>2, <3>1, SumIsLinear
  <2>. HIDE DEF under, f, k, m
  <2>4. SumOver(under, C) <= under[p] /\ SumOver(under, C) \in Int
    BY <1>2, <2>1, SumNotPositive
  <2>5. k * m = m * k /\ m * k \in Int
    BY <1>1
  <2>. QED  BY <1>1, <1>3, <2>1, <2>2, <2>3, <2>4, <2>5
<1>. QED  BY <1>4, <1>5, <1>6

(***************************************************************************)
(* NeverStuck for every federation: while V is above its minimum, neutral  *)
(* swaps lead to a seam that descends, so that the loop of the integer law *)
(* never runs on a state it cannot leave.                                  *)
(***************************************************************************)
THEOREM AlwaysAWayDown == Spec => []NeverStuck
<1>1. TypeOK /\ LedgerExact /\ BalanceInv => NeverStuck
  <2>. SUFFICES ASSUME TypeOK, LedgerExact, BalanceInv PROVE NeverStuck
    OBVIOUS
  <2>1. CASE law = "integer" /\ pc = "loop" /\ v # v_min
    <3>1. SameTotals(x) /\ v = V(x) /\ Typed(x) /\ LoadsTyped
      BY <2>1, DrawsHold DEF BalanceInv, LedgerExact, TypeOK, LoadsTyped
    <3>2. ~Level(x)
      BY <2>1, <3>1, AboveMinimum
    <3>3a. PICK C \in components : \E p \in C : x[p] \notin {Quotient(C), Quotient(C) + 1}
      BY <3>2 DEF Level
    <3>3. PICK p \in C : x[p] \notin {Quotient(C), Quotient(C) + 1}
      BY <3>3a
    <3>4. PICK q \in C : Apart2(x[p], x[q])
      BY <3>1, <3>3, UnlevelIsApart
    <3>5. p \in Port /\ C = component(p)
      BY <3>3, Components, SameComponent DEF components
    <3>6. PICK h : Rounds(h, p) /\ component(p) = h[Ports]
      BY ComponentIsReached
    <3>7. PICK g : Orbits(g) /\ ((\E y \in g[2 * Ports] : Descends(y)) => NeverStuck)
      BY StuckByOrbit
    <3>8. Ports \in 0..Ports /\ 0 \in Nat /\ 0 + Ports <= 2 * Ports /\ x \in g[0]
      BY <3>7, SizeAssumption DEF Orbits
    <3>9. q \in h[Ports]
      BY <3>5, <3>6
    <3>10. \E z \in g[2 * Ports] : Descends(z)
      BY <3>1, <3>4, <3>5, <3>6, <3>7, <3>8, <3>9, ApartMeets
    <3>. QED  BY <3>7, <3>10
  <2>2. CASE ~(law = "integer" /\ pc = "loop" /\ v # v_min)
    BY <2>2 DEF NeverStuck
  <2>. QED  BY <2>1, <2>2
<1>. QED  BY <1>1, BalanceHolds, LedgerIsExact, PTL
=============================================================================
