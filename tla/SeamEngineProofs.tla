-------------------------- MODULE SeamEngineProofs --------------------------
(***************************************************************************)
(* What chunks and layers leave is what the moves leave one by one: the    *)
(* ledger of V is exact, for every federation and every schedule.          *)
(***************************************************************************)
EXTENDS SeamLawProofs

Draws == seq \in [Attempt -> Seam] /\ law \in {"integer", "mean"}

(***************************************************************************)
(* An attempt that is no descent leaves the two readings, maybe exchanged. *)
(***************************************************************************)
LEMMA NeutralMove ==
  ASSUME NEW l \in {"integer", "mean"}, NEW y, Typed(y), NEW s \in Seam, NEW c
  PROVE  /\ ToFirst(l, y, s, c) \in Int /\ ToSecond(l, y, s, c) \in Int
         /\ Kind(l, y, s, c) = "wait" =>
              ToFirst(l, y, s, c) = y[seam_a[s]] /\ ToSecond(l, y, s, c) = y[seam_b[s]]
         /\ Kind(l, y, s, c) = "swap" =>
              ToFirst(l, y, s, c) = y[seam_b[s]] /\ ToSecond(l, y, s, c) = y[seam_a[s]]
         /\ Kind(l, y, s, c) \in {"wait", "swap", "descent"}
<1>. DEFINE a == y[seam_a[s]]
            b == y[seam_b[s]]
<1>1. a \in Int /\ b \in Int /\ Sum2(y, s) = a + b /\ Diff(y, s) = a - b
  BY EndsArePorts DEF Typed, Sum2, Diff
<1>. HIDE DEF a, b
<1>2. /\ ToFirst(l, y, s, c) \in {(a + b) \div 2, a + b - (a + b) \div 2}
      /\ ToSecond(l, y, s, c) = a + b - ToFirst(l, y, s, c)
  BY <1>1 DEF ToFirst, ToSecond
<1>3. ToFirst(l, y, s, c) \in Int /\ ToSecond(l, y, s, c) \in Int
  BY <1>1, <1>2
<1>4. CASE a - b = 0
  <2>1. (a + b) \div 2 = a
    BY <1>1, <1>4
  <2>2. ToFirst(l, y, s, c) = a /\ ToSecond(l, y, s, c) = b
    BY <1>1, <1>2, <1>4, <2>1
  <2>3. Kind(l, y, s, c) = "wait"
    BY <1>1, <1>4 DEF Kind
  <2>. QED  BY <1>3, <2>2, <2>3 DEF a, b
<1>5. CASE a - b \in {1, -1}
  <2>1. (a + b) \div 2 \in {a, b} /\ a + b - (a + b) \div 2 \in {a, b}
    BY <1>1, <1>5
  <2>2. ToFirst(l, y, s, c) \in {a, b}
    BY <1>2, <2>1
  <2>3. ToFirst(l, y, s, c) = a => ToSecond(l, y, s, c) = b
    BY <1>1, <1>2
  <2>4. ToFirst(l, y, s, c) = b => ToSecond(l, y, s, c) = a
    BY <1>1, <1>2
  <2>5. Kind(l, y, s, c) = "wait" => ToFirst(l, y, s, c) = a
    BY <1>1, <1>5 DEF Kind, a
  <2>6. Kind(l, y, s, c) = "swap" => ToFirst(l, y, s, c) # a
    BY <1>1, <1>5 DEF Kind, a
  <2>7. Kind(l, y, s, c) \in {"wait", "swap", "descent"}
    BY DEF Kind
  <2>. QED  BY <1>3, <2>2, <2>3, <2>4, <2>5, <2>6, <2>7 DEF a, b
<1>6. CASE a - b # 0 /\ a - b \notin {1, -1}
  BY <1>1, <1>3, <1>6 DEF Kind
<1>. QED  BY <1>4, <1>5, <1>6

LEMMA DeltaIsChange ==
  ASSUME Draws, NEW y, Typed(y), NEW t \in Attempt
  PROVE  /\ DeltaAt(y, t) = Change(law, y, seq[t], coin[t])
         /\ DeltaAt(y, t) \in Int
<1>. DEFINE s == seq[t]
            c == coin[t]
<1>1. s \in Seam /\ law \in {"integer", "mean"} /\ seq \in [Attempt -> Seam]
  BY DEF Draws
<1>2. /\ ToFirst(law, y, s, c) \in Int /\ ToSecond(law, y, s, c) \in Int
      /\ Kind(law, y, s, c) = "wait" =>
           ToFirst(law, y, s, c) = y[seam_a[s]] /\ ToSecond(law, y, s, c) = y[seam_b[s]]
      /\ Kind(law, y, s, c) = "swap" =>
           ToFirst(law, y, s, c) = y[seam_b[s]] /\ ToSecond(law, y, s, c) = y[seam_a[s]]
      /\ Kind(law, y, s, c) \in {"wait", "swap", "descent"}
  BY <1>1, NeutralMove
<1>3. y[seam_a[s]] \in Int /\ y[seam_b[s]] \in Int
  BY <1>1, EndsArePorts DEF Typed
<1>4. \A n \in Int : Sq(n) \in Int
  BY DEF Sq
<1>5. Kind(law, y, s, c) # "descent" => Change(law, y, s, c) = 0
  BY <1>2, <1>3, <1>4 DEF Change
<1>6. Change(law, y, s, c) \in Int
  BY <1>2, <1>3, <1>4 DEF Change
<1>. QED  BY <1>5, <1>6 DEF DeltaAt, KindAt

LEMMA AfterTyped ==
  ASSUME Draws, NEW y, Typed(y), NEW T \in SUBSET Attempt
  PROVE  Typed(After(law, y, T))
<1>. SUFFICES ASSUME NEW p \in Port PROVE After(law, y, T)[p] \in Int
  BY DEF Typed, After
<1>1. \A t \in T : /\ ToFirst(law, y, seq[t], coin[t]) \in Int
                   /\ ToSecond(law, y, seq[t], coin[t]) \in Int
  BY NeutralMove DEF Draws
<1>2. CASE \E t \in T : p = seam_a[seq[t]]
  BY <1>1, <1>2 DEF After
<1>3. CASE ~(\E t \in T : p = seam_a[seq[t]]) /\ \E t \in T : p = seam_b[seq[t]]
  BY <1>1, <1>3 DEF After
<1>4. CASE ~(\E t \in T : p = seam_a[seq[t]]) /\ ~\E t \in T : p = seam_b[seq[t]]
  BY <1>4 DEF After, Typed
<1>. QED  BY <1>2, <1>3, <1>4

LEMMA AfterNone ==
  ASSUME NEW l, NEW y, Typed(y)
  PROVE  After(l, y, {}) = y
BY DEF After, Typed

(***************************************************************************)
(* One attempt changes V by what it books.                                 *)
(***************************************************************************)
LEMMA OneMoveBooked ==
  ASSUME Draws, NEW y, Typed(y), NEW t \in Attempt
  PROVE  V(After(law, y, {t})) = V(y) + DeltaAt(y, t)
<1>. DEFINE z == After(law, y, {t})
            a == seam_a[seq[t]]
            b == seam_b[seq[t]]
            f == [p \in Port |-> Sq(y[p])]
            g == [p \in Port |-> Sq(z[p])]
            R == (Port \ {a}) \ {b}
<1>1. seq \in [Attempt -> Seam] /\ {t} \in SUBSET Attempt /\ Disjoint({t})
  BY DEF Draws, Disjoint
<1>2. a \in Port /\ b \in Port /\ a # b
  BY <1>1, EndsArePorts
<1>3. /\ z[a] = ToFirst(law, y, seq[t], coin[t])
      /\ z[b] = ToSecond(law, y, seq[t], coin[t])
      /\ \A p \in Port : p \notin {a, b} => z[p] = y[p]
  <2>1. \A p \in Port : (\A n \in {t} : p \notin Ends(seq[n])) => z[p] = y[p]
    BY <1>1, AfterWrites
  <2>2. /\ z[a] = ToFirst(law, y, seq[t], coin[t])
        /\ z[b] = ToSecond(law, y, seq[t], coin[t])
    BY <1>1, AfterWrites
  <2>. HIDE DEF z
  <2>. QED  BY <2>1, <2>2 DEF Ends
<1>4. Typed(z)
  BY <1>1, AfterTyped
<1>. HIDE DEF z, a, b
<1>5. /\ \A p \in Port : f[p] \in Int /\ f[p] = Sq(y[p])
      /\ \A p \in Port : g[p] \in Int /\ g[p] = Sq(z[p])
      /\ \A p \in R : f[p] = g[p]
  BY <1>3, <1>4 DEF Typed, Sq
<1>. HIDE DEF f, g
<1>6. IsFiniteSet(Port) /\ IsFiniteSet(Port \ {a}) /\ IsFiniteSet(R)
  BY RangesAreFinite, FS_RemoveElement
<1>7. /\ SumOver(f, Port) = f[a] + SumOver(f, Port \ {a})
      /\ SumOver(g, Port) = g[a] + SumOver(g, Port \ {a})
  BY <1>2, <1>5, <1>6, SumTakesAny
<1>8. /\ SumOver(f, Port \ {a}) = f[b] + SumOver(f, R)
      /\ SumOver(g, Port \ {a}) = g[b] + SumOver(g, R)
  <2>1. b \in Port \ {a} /\ \A p \in Port \ {a} : f[p] \in Int /\ g[p] \in Int
    BY <1>2, <1>5
  <2>. QED  BY <1>6, <2>1, SumTakesAny
<1>9. SumOver(f, R) = SumOver(g, R)
  BY <1>5, <1>6, SumCongruent
<1>10. SumOver(f, R) \in Int
  <2>1. \A p \in R : f[p] \in Int
    BY <1>5
  <2>. QED  BY <1>6, <2>1, SumTyped
<1>11. DeltaAt(y, t) = Sq(z[a]) + Sq(z[b]) - Sq(y[a]) - Sq(y[b])
  <2>1. DeltaAt(y, t) = Change(law, y, seq[t], coin[t])
    BY DeltaIsChange
  <2>. QED  BY <1>3, <2>1 DEF Change, a, b
<1>12. f[a] \in Int /\ f[b] \in Int /\ g[a] \in Int /\ g[b] \in Int
  BY <1>2, <1>5
<1>13. V(y) = SumOver(f, Port) /\ V(z) = SumOver(g, Port)
  BY DEF V, f, g
<1>14. V(z) = V(y) + (g[a] + g[b] - f[a] - f[b])
  BY <1>7, <1>8, <1>9, <1>10, <1>12, <1>13
<1>15. /\ f[a] = Sq(y[a]) /\ f[b] = Sq(y[b]) /\ g[a] = Sq(z[a]) /\ g[b] = Sq(z[b])
  BY <1>2, <1>5
<1>. QED  BY <1>11, <1>14, <1>15 DEF z

(***************************************************************************)
(* An attempt books what the readings of its own seam say.                 *)
(***************************************************************************)
LEMMA KindReadsItsEnds ==
  ASSUME Draws, NEW t \in Attempt, NEW y, NEW z,
         \A p \in Ends(seq[t]) : y[p] = z[p]
  PROVE  KindAt(y, t) = KindAt(z, t) /\ DeltaAt(y, t) = DeltaAt(z, t)
<1>1. seq[t] \in Seam
  BY DEF Draws
<1>2. /\ ToFirst(law, y, seq[t], coin[t]) = ToFirst(law, z, seq[t], coin[t])
      /\ ToSecond(law, y, seq[t], coin[t]) = ToSecond(law, z, seq[t], coin[t])
  BY <1>1, MoveReadsItsEnds
<1>3. y[seam_a[seq[t]]] = z[seam_a[seq[t]]] /\ y[seam_b[seq[t]]] = z[seam_b[seq[t]]]
  BY DEF Ends
<1>4. Diff(y, seq[t]) = Diff(z, seq[t])
  BY <1>3 DEF Diff
<1>5. KindAt(y, t) = KindAt(z, t)
  BY <1>2, <1>3, <1>4 DEF KindAt, Kind
<1>6. Change(law, y, seq[t], coin[t]) = Change(law, z, seq[t], coin[t])
  BY <1>2, <1>3 DEF Change
<1>. QED  BY <1>5, <1>6 DEF DeltaAt

Booked(y) == [t \in Attempt |-> DeltaAt(y, t)]

(***************************************************************************)
(* A layer changes V by what its attempts book.                            *)
(***************************************************************************)
LEMMA LayerBooked ==
  ASSUME Draws, NEW U \in SUBSET Attempt, Disjoint(U), NEW w, Typed(w)
  PROVE  V(After(law, w, U)) = V(w) + SumOver(Booked(w), U)
<1>. DEFINE Odd == {r \in SUBSET U : \E y \in [Port -> Int] :
                      V(After(law, y, r)) # V(y) + SumOver(Booked(y), r)}
<1>. SUFFICES ASSUME Odd # {} PROVE FALSE
  BY DEF Typed
<1>0. IsFiniteSet(U)
  BY RangesAreFinite
<1>1. PICK r \in Odd : IsFiniteSet(r) /\ \A e \in r : r \ {e} \notin Odd
  <2>1. Odd \in SUBSET (SUBSET U)
    OBVIOUS
  <2>. HIDE DEF Odd
  <2>. QED  BY <1>0, <2>1, SmallestMember
<1>2. PICK y \in [Port -> Int] : V(After(law, y, r)) # V(y) + SumOver(Booked(y), r)
  OBVIOUS
<1>3. Typed(y) /\ V(y) \in Int
  BY PotentialTyped DEF Typed
<1>4. r # {}
  <2>. SUFFICES ASSUME r = {} PROVE FALSE
    OBVIOUS
  <2>. QED  BY <1>2, <1>3, AfterNone, SumOfNone
<1>5. PICK t \in r : TRUE
  BY <1>4
<1>. DEFINE z == After(law, y, {t})
            q == r \ {t}
<1>6. /\ r \in SUBSET Attempt /\ q \in SUBSET Attempt /\ q \in SUBSET U
      /\ t \in Attempt /\ Disjoint(r) /\ Disjoint({t}) /\ {t} \in SUBSET Attempt
      /\ seq \in [Attempt -> Seam]
  BY DEF Disjoint, Draws
<1>7. After(law, y, r) = After(law, z, q)
  BY <1>6, OneBeforeTheRest
<1>8. Typed(z) /\ V(z) = V(y) + DeltaAt(y, t) /\ DeltaAt(y, t) \in Int
  BY <1>3, <1>6, AfterTyped, OneMoveBooked, DeltaIsChange
<1>9. V(After(law, z, q)) = V(z) + SumOver(Booked(z), q)
  <2>1. q \notin Odd
    BY <1>1
  <2>. QED  BY <1>6, <1>8, <2>1 DEF Typed
<1>10. SumOver(Booked(z), q) = SumOver(Booked(y), q)
  <2>1. ASSUME NEW u \in q PROVE DeltaAt(z, u) = DeltaAt(y, u)
    <3>1. \A p \in Ends(seq[u]) : p \in Port /\ p \notin Ends(seq[t])
      BY <1>6, EndsArePorts DEF Disjoint, Ends
    <3>2. \A p \in Port : p \notin Ends(seq[t]) => z[p] = y[p]
      <4>1. \A p \in Port : (\A n \in {t} : p \notin Ends(seq[n])) => z[p] = y[p]
        BY <1>6, AfterWrites
      <4>. QED  BY <4>1
    <3>. HIDE DEF z
    <3>. QED  BY <1>6, <3>1, <3>2, KindReadsItsEnds
  <2>2. \A u \in q : Booked(z)[u] = Booked(y)[u]
    BY <1>6, <2>1 DEF Booked
  <2>3. IsFiniteSet(q)
    BY <1>6, RangesAreFinite
  <2>. QED  BY <2>2, <2>3, SumCongruent
<1>11. /\ SumOver(Booked(y), r) = DeltaAt(y, t) + SumOver(Booked(y), q)
       /\ SumOver(Booked(y), q) \in Int
  <2>1. \A u \in Attempt : Booked(y)[u] = DeltaAt(y, u) /\ DeltaAt(y, u) \in Int
    BY <1>3, DeltaIsChange DEF Booked
  <2>2. /\ \A u \in r : Booked(y)[u] \in Int
        /\ \A u \in q : Booked(y)[u] \in Int
        /\ Booked(y)[t] = DeltaAt(y, t)
    BY <1>6, <2>1
  <2>3. IsFiniteSet(r) /\ IsFiniteSet(q)
    BY <1>6, RangesAreFinite
  <2>4. SumOver(Booked(y), q) \in Int
    BY <2>2, <2>3, SumTyped
  <2>5. SumOver(Booked(y), r) = Booked(y)[t] + SumOver(Booked(y), q)
    BY <2>2, <2>3, SumTakesAny
  <2>. QED  BY <2>2, <2>4, <2>5
<1>. HIDE DEF z, q
<1>. QED  BY <1>2, <1>3, <1>7, <1>8, <1>9, <1>10, <1>11

-----------------------------------------------------------------------------
(***************************************************************************)
(* The ledger and the changes not booked yet make V.  Only attempts of the *)
(* current chunk that have been made have a change to book.                *)
(***************************************************************************)
LedgerInv ==
  /\ V(x) = v + SumOver(delta, Attempt)
  /\ \A t \in Attempt : delta[t] # 0 =>
       engine = "numpy" /\ pc = "moves" /\ t \in ChunkFrom(start) \ remaining

LEMMA DrawsHold == TypeOK => Draws /\ Typed(x)
BY Bounds DEF TypeOK, Draws, Typed

LEMMA NoneToBook ==
  ASSUME NEW f, \A t \in Attempt : f[t] = 0
  PROVE  SumOver(f, Attempt) = 0
BY RangesAreFinite, SumOfZeros

LEMMA BookedByChunk ==
  ASSUME TypeOK, LedgerInv
  PROVE  Running(Seams) = v + SumOver(delta, Attempt)
<1>. DEFINE U == {u \in ChunkFrom(start) : u <= Seams}
<1>1. U = ChunkFrom(start) /\ U \in SUBSET Attempt /\ IsFiniteSet(Attempt)
  BY RangesAreFinite, SizeAssumption DEF ChunkFrom, Attempt
<1>2. \A t \in Attempt : delta[t] \in Int
  BY DEF TypeOK
<1>3. \A t \in Attempt \ U : delta[t] = 0
  BY <1>1 DEF LedgerInv
<1>. HIDE DEF U
<1>4. SumOver(delta, Attempt) = SumOver(delta, U) + SumOver(delta, Attempt \ U)
  BY <1>1, <1>2, SumSplits
<1>5. SumOver(delta, Attempt \ U) = 0
  BY <1>1, <1>3, FS_Difference, SumOfZeros
<1>6. SumOver(delta, U) \in Int
  <2>1. \A t \in U : delta[t] \in Int
    BY <1>1, <1>2
  <2>. QED  BY <1>1, <2>1, RangesAreFinite, SumTyped
<1>7. Running(Seams) = v + SumOver(delta, U)
  BY DEF Running, U
<1>. QED  BY <1>4, <1>5, <1>6, <1>7

LEMMA LedgerInit == Init => LedgerInv
<1>. SUFFICES ASSUME Init PROVE LedgerInv
  OBVIOUS
<1>1. TypeOK
  BY TypeInit
<1>2. \A t \in Attempt : delta[t] = 0
  BY DEF Init
<1>3. SumOver(delta, Attempt) = 0
  BY <1>2, NoneToBook
<1>4. v = V(x) /\ v \in Int
  BY <1>1 DEF Init, TypeOK
<1>. QED  BY <1>2, <1>3, <1>4 DEF LedgerInv

LEMMA LedgerStep == TypeOK /\ LedgerInv /\ [Next]_vars => LedgerInv'
<1>. SUFFICES ASSUME TypeOK, LedgerInv, [Next]_vars PROVE LedgerInv'
  OBVIOUS
<1>. USE DEF choice
<1>0. /\ Draws /\ Typed(x) /\ v \in Int /\ V(x) \in Int
      /\ delta \in [Attempt -> Int] /\ SumOver(delta, Attempt) \in Int
  <2>1. Draws /\ Typed(x) /\ v \in Int /\ delta \in [Attempt -> Int]
    BY DrawsHold DEF TypeOK
  <2>2. \A t \in Attempt : delta[t] \in Int
    BY <2>1
  <2>. QED  BY <2>1, <2>2, PotentialTyped, RangesAreFinite, SumTyped DEF Typed
<1>1. CASE Draw
  BY <1>1 DEF Draw, LedgerInv, ChunkFrom
<1>2. CASE Move
  <2>1. PICK t \in remaining : x' = After(law, x, {t}) /\ v' = v + DeltaAt(x, t)
    BY <1>2 DEF Move
  <2>2. delta' = delta /\ engine' = engine /\ engine # "numpy"
    BY <1>2 DEF Move
  <2>3. t \in Attempt
    BY DEF TypeOK
  <2>4. V(x') = V(x) + DeltaAt(x, t) /\ DeltaAt(x, t) \in Int
    BY <1>0, <2>1, <2>3, OneMoveBooked, DeltaIsChange
  <2>5. V(x)' = V(x')
    BY DEF V
  <2>. QED  BY <1>0, <2>1, <2>2, <2>4, <2>5 DEF LedgerInv
<1>3. CASE Layer
  <2>. DEFINE T == Ready(remaining)
  <2>1. /\ engine = "numpy" /\ pc = "moves"
        /\ x' = After(law, x, T) /\ remaining' = remaining \ T
        /\ delta' = [t \in Attempt |-> IF t \in T THEN DeltaAt(x, t) ELSE delta[t]]
        /\ UNCHANGED <<v, engine, pc, start, chunk>>
    BY <1>3 DEF Layer
  <2>2. T \in SUBSET remaining /\ remaining \in SUBSET Attempt
        /\ remaining \in SUBSET ChunkFrom(start) /\ T \in SUBSET Attempt
    BY <2>1 DEF Ready, TypeOK
  <2>3. Disjoint(T)
    <3>1. seq \in [Attempt -> Seam]
      BY DEF TypeOK
    <3>. QED  BY <2>2, <3>1, LayerIsIndependent DEF Disjoint, Reads
  <2>. HIDE DEF T
  <2>4. V(x') = V(x) + SumOver(Booked(x), T)
    BY <1>0, <2>1, <2>2, <2>3, LayerBooked
  <2>5. \A t \in Attempt : Booked(x)[t] \in Int /\ delta'[t] \in Int
    BY <1>0, <2>1, DeltaIsChange DEF Booked
  <2>6. SumOver(delta', T) = SumOver(Booked(x), T) /\ SumOver(Booked(x), T) \in Int
    <3>1. \A t \in T : delta'[t] = Booked(x)[t] /\ Booked(x)[t] \in Int
      BY <2>1, <2>2, <2>5 DEF Booked
    <3>. QED  BY <2>2, <3>1, RangesAreFinite, SumCongruent, SumTyped
  <2>7. SumOver(delta', Attempt \ T) = SumOver(delta, Attempt \ T)
    <3>1. \A t \in Attempt \ T : delta'[t] = delta[t]
      BY <2>1
    <3>2. IsFiniteSet(Attempt \ T)
      BY RangesAreFinite
    <3>. QED  BY <3>1, <3>2, SumCongruent
  <2>8. /\ SumOver(delta', Attempt) = SumOver(delta', T) + SumOver(delta', Attempt \ T)
        /\ SumOver(delta, Attempt) = SumOver(delta, T) + SumOver(delta, Attempt \ T)
    BY <1>0, <2>2, <2>5, RangesAreFinite, SumSplits
  <2>9. SumOver(delta, T) = 0
    <3>1. \A t \in T : delta[t] = 0
      BY <2>2 DEF LedgerInv
    <3>. QED  BY <2>2, <3>1, RangesAreFinite, SumOfZeros
  <2>10. SumOver(delta, Attempt \ T) \in Int
    <3>1. \A t \in Attempt \ T : delta[t] \in Int
      BY <1>0
    <3>2. IsFiniteSet(Attempt \ T)
      BY RangesAreFinite
    <3>. QED  BY <3>1, <3>2, SumTyped
  <2>11. V(x)' = v' + SumOver(delta, Attempt)'
    <3>1. V(x)' = V(x') /\ SumOver(delta, Attempt)' = SumOver(delta', Attempt)
      BY DEF V
    <3>2. V(x) = v + SumOver(delta, Attempt)
      BY DEF LedgerInv
    <3>. QED  BY <1>0, <2>1, <2>4, <2>6, <2>7, <2>8, <2>9, <2>10, <3>1, <3>2
  <2>12. \A t \in Attempt : delta'[t] # 0 =>
            engine' = "numpy" /\ pc' = "moves" /\ t \in ChunkFrom(start)' \ remaining'
    <3>. SUFFICES ASSUME NEW t \in Attempt, delta'[t] # 0
                  PROVE  t \in ChunkFrom(start)' \ remaining'
      BY <2>1
    <3>1. ChunkFrom(start)' = ChunkFrom(start)
      BY <2>1 DEF ChunkFrom
    <3>2. CASE t \in T
      BY <2>1, <2>2, <3>1, <3>2
    <3>3. CASE t \notin T
      BY <2>1, <3>1, <3>3 DEF LedgerInv
    <3>. QED  BY <3>2, <3>3
  <2>. QED  BY <2>11, <2>12 DEF LedgerInv
<1>4. CASE CloseChunk
  <2>1. v' = Running(Seams) /\ x' = x /\ \A t \in Attempt : delta'[t] = 0
    BY <1>4 DEF CloseChunk
  <2>2. SumOver(delta', Attempt) = 0
    BY <2>1, NoneToBook
  <2>3. v' = V(x)
    BY <2>1, BookedByChunk DEF LedgerInv
  <2>. QED  BY <1>0, <2>1, <2>2, <2>3 DEF LedgerInv
<1>5. CASE CloseSweep
  <2>1. \A t \in Attempt : delta[t] = 0
    <3>. SUFFICES ASSUME NEW t \in Attempt, delta[t] # 0 PROVE FALSE
      OBVIOUS
    <3>1. engine = "numpy" /\ t \in ChunkFrom(start)
      BY DEF LedgerInv
    <3>2. start > Seams /\ start \in Nat
      BY <1>5, <3>1 DEF CloseSweep, Swept, TypeOK
    <3>. QED  BY <3>1, <3>2, SizeAssumption DEF ChunkFrom, Attempt
  <2>2. delta' = delta /\ x' = x /\ v' = v
    BY <1>5 DEF CloseSweep
  <2>. QED  BY <2>1, <2>2 DEF LedgerInv
<1>6. CASE Stop
  BY <1>6 DEF Stop, LedgerInv
<1>7. CASE UNCHANGED vars
  BY <1>7 DEF vars, LedgerInv, ChunkFrom
<1>. QED  BY <1>1, <1>2, <1>3, <1>4, <1>5, <1>6, <1>7 DEF Next

(***************************************************************************)
(* Between sweeps the ledger that the engines keep move by move, or chunk  *)
(* by chunk, is V of the readings, for every federation, law, chunk size   *)
(* and draw.                                                               *)
(***************************************************************************)
THEOREM LedgerIsExact == Spec => []LedgerExact
<1>1. Init => LedgerInv
  BY LedgerInit
<1>2. TypeOK /\ LedgerInv /\ [Next]_vars => LedgerInv'
  BY LedgerStep
<1>3. TypeOK /\ LedgerInv => LedgerExact
  <2>. SUFFICES ASSUME TypeOK, LedgerInv, pc # "moves" PROVE v = V(x)
    BY DEF LedgerExact
  <2>1. SumOver(delta, Attempt) = 0
    <3>1. \A t \in Attempt : delta[t] = 0
      BY DEF LedgerInv
    <3>. QED  BY <3>1, NoneToBook
  <2>. QED  BY <2>1 DEF LedgerInv, TypeOK
<1>. QED  BY <1>1, <1>2, <1>3, ReadingsStayInRange, PTL DEF Spec
-----------------------------------------------------------------------------
(***************************************************************************)
(* The sequential engines, attempt by attempt.  As the run is a recursive  *)
(* function, it has to be shown to have a solution.                        *)
(***************************************************************************)
RunStart == [x |-> origin.x, v |-> origin.v, tally |-> origin.tally, first |-> 0]

IsRun(g, m) ==
  g = [n \in 0..m |-> IF n = 0 THEN RunStart ELSE MoveOn(g[n - 1], n)]

LEMMA RunExists ==
  ASSUME NEW hi \in Nat
  PROVE  \E g : IsRun(g, hi)
<1>. DEFINE B == {m \in 0..hi : ~\E g : IsRun(g, m)}
<1>. SUFFICES ASSUME B # {} PROVE FALSE
  OBVIOUS
<1>1. 0 \notin B
  <2>1. IsRun([n \in 0..0 |-> RunStart], 0)
    BY DEF IsRun
  <2>. QED  BY <2>1
<1>2. PICK m \in B : m \in 1..hi /\ m - 1 \in 0..hi /\ m - 1 \notin B
  <2>1. B \in SUBSET (0..hi) /\ 0 \in Nat
    OBVIOUS
  <2>. HIDE DEF B
  <2>2. \E m \in B : m \in (0 + 1)..hi /\ m - 1 \in 0..hi /\ m - 1 \notin B
    BY <1>1, <2>1, FirstBad
  <2>. QED  BY <2>2
<1>3. PICK g : IsRun(g, m - 1)
  BY <1>2
<1>. DEFINE h == [n \in 0..m |-> IF n = 0 THEN RunStart ELSE MoveOn(g[n - 1], n)]
<1>4. \A n \in 0..(m - 1) : n \in 0..m /\ h[n] = g[n]
  BY <1>2, <1>3 DEF IsRun
<1>5. \A n \in 0..m : n # 0 => h[n - 1] = g[n - 1]
  <2>1. \A n \in 0..m : n # 0 => n - 1 \in 0..(m - 1)
    BY <1>2
  <2>. HIDE DEF h
  <2>. QED  BY <1>4, <2>1
<1>6. h = [n \in 0..m |-> IF n = 0 THEN RunStart ELSE MoveOn(h[n - 1], n)]
  BY <1>5
<1>. QED  BY <1>2, <1>6 DEF IsRun

LEMMA RunUnfolds ==
  /\ SequentialRun[0] = RunStart
  /\ \A n \in 1..Seams : SequentialRun[n] = MoveOn(SequentialRun[n - 1], n)
<1>. DEFINE g == CHOOSE g : IsRun(g, Seams)
<1>1. IsRun(g, Seams)
  BY SizeAssumption, RunExists
<1>2. SequentialRun = g
  BY DEF SequentialRun, IsRun, RunStart
<1>. HIDE DEF g
<1>3. g = [n \in 0..Seams |-> IF n = 0 THEN RunStart ELSE MoveOn(g[n - 1], n)]
  BY <1>1 DEF IsRun
<1>. QED  BY <1>2, <1>3, SizeAssumption

Run(n) == SequentialRun[n]

\* The last attempt before the current chunk.
Before == IF start <= Seams THEN start - 1 ELSE Seams

Made == ChunkFrom(start) \ remaining

\* What counter k holds, and whether an attempt is counted by it.
Counters == {"wait", "swap", "descent", "raise"}
Tallied(ty, k) == CASE k = "wait" -> ty.waits [] k = "swap" -> ty.swaps
                    [] k = "descent" -> ty.descents [] k = "raise" -> ty.raises
Has(y, t, k) == IF k = "raise" THEN RaisesAt(y, t) ELSE KindAt(y, t) = k

\* No attempt up to n that is still to be made, and none beyond n that has
\* been made, writes p.
Settled(p, n) ==
  /\ \A u \in remaining : u <= n => p \notin Ends(seq[u])
  /\ \A u \in Made : n < u => p \notin Ends(seq[u])

(***************************************************************************)
(* In the middle of a sweep a settled port reads what the sequential       *)
(* engines have there after attempt n, whatever n; each attempt made has   *)
(* been booked and counted as they would.                                  *)
(***************************************************************************)
ReadingsFollow ==
  \A n \in Before..Seams : n < start + chunk =>
    \A p \in Port : Settled(p, n) => x[p] = Run(n).x[p]

BookingsFollow == \A t \in Made : delta[t] = DeltaAt(Run(t - 1).x, t)

CountersFollow ==
  \A k \in Counters :
    Tallied(tally, k) = Tallied(Run(Before).tally, k)
                          + Cardinality({t \in Made : Has(Run(t - 1).x, t, k)})

LedgerFollows == v = Run(Before).v /\ first = Run(Before).first

SweepInv ==
  engine = "numpy" =>
    /\ pc = "loop" =>
         /\ origin = [x |-> x, v |-> v, tally |-> tally] /\ first = 0
         /\ law = "integer" /\ first_attempt = -1 => v # v_min
    /\ pc = "moves" =>
         /\ law = "integer" => origin.v # v_min
         /\ ReadingsFollow /\ BookingsFollow /\ CountersFollow /\ LedgerFollows

-----------------------------------------------------------------------------
LEMMA RunSteps ==
  /\ Run(0) = RunStart
  /\ \A n \in 1..Seams :
       /\ n - 1 \in 0..Seams /\ n \in Attempt
       /\ Run(n).x = After(law, Run(n - 1).x, {n})
       /\ Run(n).v = Run(n - 1).v + DeltaAt(Run(n - 1).x, n)
       /\ Run(n).tally = Counted(Run(n - 1).tally, Run(n - 1).x, {n})
       /\ Run(n).first = IF /\ law = "integer" /\ Run(n - 1).first = 0
                            /\ Run(n).v = v_min /\ KindAt(Run(n - 1).x, n) # "wait"
                         THEN n ELSE Run(n - 1).first
<1>1. Run(0) = RunStart
  BY RunUnfolds DEF Run
<1>2. ASSUME NEW n \in 1..Seams
      PROVE  /\ Run(n).x = After(law, Run(n - 1).x, {n})
             /\ Run(n).v = Run(n - 1).v + DeltaAt(Run(n - 1).x, n)
             /\ Run(n).tally = Counted(Run(n - 1).tally, Run(n - 1).x, {n})
             /\ Run(n).first = IF /\ law = "integer" /\ Run(n - 1).first = 0
                                  /\ Run(n).v = v_min
                                  /\ KindAt(Run(n - 1).x, n) # "wait"
                               THEN n ELSE Run(n - 1).first
  <2>1. Run(n) = MoveOn(Run(n - 1), n)
    BY RunUnfolds DEF Run
  <2>. QED  BY <2>1 DEF MoveOn
<1>3. \A n \in 1..Seams : n - 1 \in 0..Seams /\ n \in Attempt
  BY SizeAssumption DEF Attempt
<1>. QED  BY <1>1, <1>2, <1>3

LEMMA RunTyped ==
  ASSUME TypeOK
  PROVE  \A n \in 0..Seams : /\ Typed(Run(n).x) /\ Run(n).v \in Int
                             /\ Run(n).tally \in TallyType
<1>. DEFINE P(n) == Typed(Run(n).x) /\ Run(n).v \in Int /\ Run(n).tally \in TallyType
            B == {n \in 0..Seams : ~P(n)}
<1>. SUFFICES ASSUME B # {} PROVE FALSE
  OBVIOUS
<1>1. 0 \notin B
  BY RunSteps, Bounds DEF RunStart, TypeOK, Typed
<1>2. PICK n \in B : n \in 1..Seams /\ n - 1 \in 0..Seams /\ n - 1 \notin B
  <2>1. B \in SUBSET (0..Seams) /\ Seams \in Nat /\ 0 \in Nat
    BY SizeAssumption
  <2>. HIDE DEF B
  <2>2. \E n \in B : n \in (0 + 1)..Seams /\ n - 1 \in 0..Seams /\ n - 1 \notin B
    BY <1>1, <2>1, FirstBad
  <2>. QED  BY <2>2
<1>3. P(n - 1)
  BY <1>2
<1>4. Draws /\ sweep \in Nat /\ {n} \in SUBSET Attempt /\ n \in Attempt
  BY <1>2, DrawsHold, RunSteps DEF TypeOK
<1>. DEFINE y == Run(n - 1).x
<1>5. /\ Run(n).x = After(law, y, {n})
      /\ Run(n).v = Run(n - 1).v + DeltaAt(y, n)
      /\ Run(n).tally = Counted(Run(n - 1).tally, y, {n})
  BY <1>2, RunSteps
<1>6. Typed(y) /\ Run(n - 1).v \in Int /\ Run(n - 1).tally \in TallyType
  BY <1>3
<1>. HIDE DEF y
<1>7. Typed(Run(n).x)
  BY <1>4, <1>5, <1>6, AfterTyped
<1>8. Run(n).v \in Int
  BY <1>4, <1>5, <1>6, DeltaIsChange
<1>9. Run(n).tally \in TallyType
  BY <1>4, <1>5, <1>6, CountedTyped
<1>. QED  BY <1>2, <1>7, <1>8, <1>9

(***************************************************************************)
(* A port that no attempt writes keeps its reading.                        *)
(***************************************************************************)
RunFrames ==
  \A m, n \in 0..Seams : m <= n =>
    \A p \in Port : (\A u \in (m + 1)..n : p \notin Ends(seq[u]))
                      => Run(n).x[p] = Run(m).x[p]

LEMMA RunFrame == TypeOK => RunFrames
<1>. SUFFICES ASSUME TypeOK, NEW m \in 0..Seams, NEW k \in 0..Seams, m <= k, NEW p \in Port,
                     \A u \in (m + 1)..k : p \notin Ends(seq[u])
              PROVE  Run(k).x[p] = Run(m).x[p]
  BY DEF RunFrames
<1>. DEFINE B == {n \in m..k : Run(n).x[p] # Run(m).x[p]}
<1>. SUFFICES ASSUME B # {} PROVE FALSE
  OBVIOUS
<1>1. PICK n \in B : n \in (m + 1)..k /\ n - 1 \in m..k /\ n - 1 \notin B
  <2>1. B \in SUBSET (m..k) /\ m \notin B /\ m \in Nat /\ k \in Nat
    BY SizeAssumption
  <2>. HIDE DEF B
  <2>. QED  BY <2>1, FirstBad
<1>2. n \in 1..Seams /\ n - 1 \in 0..Seams
  BY <1>1, SizeAssumption
<1>3. Run(n).x = After(law, Run(n - 1).x, {n}) /\ n \in Attempt
  BY <1>2, RunSteps
<1>4. seq \in [Attempt -> Seam] /\ {n} \in SUBSET Attempt /\ Disjoint({n})
  BY <1>3 DEF TypeOK, Disjoint
<1>5. \A u \in {n} : p \notin Ends(seq[u])
  BY <1>1
<1>6. Run(n).x[p] = Run(n - 1).x[p]
  BY <1>3, <1>4, <1>5, AfterWrites
<1>. QED  BY <1>1, <1>6

(***************************************************************************)
(* The ledger, the counters and the hit of the sequential engines between  *)
(* two attempts.                                                           *)
(***************************************************************************)
RunBooked == [t \in Attempt |-> DeltaAt(Run(t - 1).x, t)]

LEMMA RunBookedTyped ==
  TypeOK => \A t \in Attempt : RunBooked[t] = DeltaAt(Run(t - 1).x, t) /\ RunBooked[t] \in Int
<1>. SUFFICES ASSUME TypeOK, NEW t \in Attempt PROVE DeltaAt(Run(t - 1).x, t) \in Int
  BY DEF RunBooked
<1>1. Typed(Run(t - 1).x) /\ Draws
  BY RunTyped, DrawsHold, RunSteps DEF Attempt
<1>. QED  BY <1>1, DeltaIsChange

LEMMA SliceIsFinite ==
  ASSUME NEW m \in 0..Seams, NEW n \in 0..Seams
  PROVE  (m + 1)..n \in SUBSET Attempt /\ IsFiniteSet((m + 1)..n)
<1>1. (m + 1)..n \in SUBSET Attempt
  BY SizeAssumption DEF Attempt
<1>. QED  BY <1>1, RangesAreFinite

LEMMA RunLedger ==
  ASSUME TypeOK, NEW m \in 0..Seams, NEW k \in 0..Seams, m <= k
  PROVE  Run(k).v = Run(m).v + SumOver(RunBooked, (m + 1)..k)
<1>. DEFINE B == {n \in m..k : Run(n).v # Run(m).v + SumOver(RunBooked, (m + 1)..n)}
<1>. SUFFICES ASSUME B # {} PROVE FALSE
  OBVIOUS
<1>1. m \notin B
  <2>1. (m + 1)..m = {} /\ Run(m).v \in Int
    BY SizeAssumption, RunTyped
  <2>. QED  BY <2>1, SumOfNone
<1>2. PICK n \in B : n \in (m + 1)..k /\ n - 1 \in m..k /\ n - 1 \notin B
  <2>1. B \in SUBSET (m..k) /\ m \in Nat /\ k \in Nat
    BY SizeAssumption
  <2>. HIDE DEF B
  <2>. QED  BY <1>1, <2>1, FirstBad
<1>3. n \in 1..Seams /\ n - 1 \in 0..Seams /\ n \in 0..Seams /\ n \in Attempt
  BY <1>2, SizeAssumption DEF Attempt
<1>4. Run(n).v = Run(n - 1).v + RunBooked[n] /\ RunBooked[n] \in Int
  BY <1>3, RunSteps, RunBookedTyped
<1>5. Run(n - 1).v = Run(m).v + SumOver(RunBooked, (m + 1)..(n - 1))
  BY <1>2
<1>. DEFINE U == (m + 1)..n
<1>6. U \in SUBSET Attempt /\ IsFiniteSet(U)
  BY <1>3, SliceIsFinite
<1>7. n \in U /\ U \ {n} = (m + 1)..(n - 1)
  BY <1>2, SizeAssumption
<1>. HIDE DEF U
<1>8. SumOver(RunBooked, U) = RunBooked[n] + SumOver(RunBooked, U \ {n})
  <2>1. \A t \in U : RunBooked[t] \in Int
    BY <1>6, RunBookedTyped
  <2>. QED  BY <1>6, <1>7, <2>1, SumTakesAny
<1>9. SumOver(RunBooked, U \ {n}) \in Int
  <2>1. \A t \in U \ {n} : RunBooked[t] \in Int
    BY <1>6, RunBookedTyped
  <2>. QED  BY <1>6, <2>1, FS_RemoveElement, SumTyped
<1>10. Run(m).v \in Int
  BY RunTyped
<1>11. Run(n).v = Run(m).v + SumOver(RunBooked, U)
  <2>1. Run(n - 1).v = Run(m).v + SumOver(RunBooked, U \ {n})
    BY <1>5, <1>7
  <2>. QED  BY <1>4, <1>8, <1>9, <1>10, <2>1
<1>. QED  BY <1>2, <1>11 DEF U

Seen(y, T, k) == {t \in T : Has(y, t, k)}

LEMMA CountedAdds ==
  ASSUME NEW ty \in TallyType, NEW y, NEW T \in SUBSET Attempt, NEW k \in Counters
  PROVE  /\ Tallied(Counted(ty, y, T), k) = Tallied(ty, k) + Cardinality(Seen(y, T, k))
         /\ Tallied(ty, k) \in Nat
<1>1. \A n \in {"wait", "swap", "descent"} :
        NumberOf(y, T, n) = Cardinality({t \in T : KindAt(y, t) = n})
  BY DEF NumberOf
<1>2. CASE k = "raise"
  <2>1. Seen(y, T, k) = {t \in T : RaisesAt(y, t)}
    BY <1>2 DEF Has, Seen
  <2>. QED  BY <1>2, <2>1 DEF Counted, Tallied, TallyType
<1>3. CASE k \in {"wait", "swap", "descent"}
  <2>1. Seen(y, T, k) = {t \in T : KindAt(y, t) = k}
    BY <1>3 DEF Has, Seen
  <2>. QED  BY <1>1, <1>3, <2>1 DEF Counted, Tallied, TallyType
<1>. QED  BY <1>2, <1>3 DEF Counters

LEMMA RunCounters ==
  ASSUME TypeOK, NEW m \in 0..Seams, NEW e \in 0..Seams, m <= e, NEW k \in Counters
  PROVE  Tallied(Run(e).tally, k) = Tallied(Run(m).tally, k)
           + Cardinality({t \in (m + 1)..e : Has(Run(t - 1).x, t, k)})
<1>. DEFINE C(n) == {t \in (m + 1)..n : Has(Run(t - 1).x, t, k)}
            B == {n \in m..e : Tallied(Run(n).tally, k) # Tallied(Run(m).tally, k)
                                                           + Cardinality(C(n))}
<1>. SUFFICES ASSUME B # {} PROVE FALSE
  <2>1. e \in m..e
    BY SizeAssumption
  <2>. QED  BY <2>1
<1>0. Tallied(Run(m).tally, k) \in Nat
  <2>1. Run(m).tally \in TallyType /\ {} \in SUBSET Attempt
    BY RunTyped
  <2>. QED  BY <2>1, CountedAdds
<1>1. m \notin B
  <2>1. C(m) = {}
    BY SizeAssumption
  <2>. QED  BY <1>0, <2>1, FS_EmptySet
<1>2. PICK n \in B : n \in (m + 1)..e /\ n - 1 \in m..e /\ n - 1 \notin B
  <2>1. B \in SUBSET (m..e) /\ m \in Nat /\ e \in Nat
    BY SizeAssumption
  <2>. HIDE DEF B
  <2>. QED  BY <1>1, <2>1, FirstBad
<1>3. n \in 1..Seams /\ n - 1 \in 0..Seams /\ {n} \in SUBSET Attempt
  BY <1>2, SizeAssumption DEF Attempt
<1>. DEFINE y == Run(n - 1).x
            S == {t \in {n} : Has(y, t, k)}
<1>4. Tallied(Run(n).tally, k) = Tallied(Run(n - 1).tally, k) + Cardinality(S)
  <2>1. Run(n).tally = Counted(Run(n - 1).tally, y, {n}) /\ Run(n - 1).tally \in TallyType
    BY <1>3, RunSteps, RunTyped
  <2>2. S = Seen(y, {n}, k)
    BY DEF Seen
  <2>. HIDE DEF y, S
  <2>. QED  BY <1>3, <2>1, <2>2, CountedAdds
<1>5. Tallied(Run(n - 1).tally, k) = Tallied(Run(m).tally, k) + Cardinality(C(n - 1))
  BY <1>2
<1>6. Cardinality(C(n)) = Cardinality(C(n - 1)) + Cardinality(S)
  <2>1. C(n) = C(n - 1) \cup S
    BY <1>2, SizeAssumption
  <2>2. C(n - 1) \cap S = {}
    BY <1>2, SizeAssumption
  <2>3. IsFiniteSet(C(n - 1)) /\ IsFiniteSet(S)
    <3>1. C(n - 1) \in SUBSET Attempt /\ S \in SUBSET Attempt
      BY <1>2, <1>3, SizeAssumption DEF Attempt
    <3>. QED  BY <3>1, RangesAreFinite
  <2>4. Cardinality(C(n - 1)) \in Nat /\ Cardinality(S) \in Nat
    BY <2>3, FS_CardinalityType
  <2>. HIDE DEF S, C
  <2>5. Cardinality(C(n - 1) \cup S) =
          Cardinality(C(n - 1)) + Cardinality(S) - Cardinality(C(n - 1) \cap S)
    BY <2>3, FS_Union
  <2>6. Cardinality(C(n)) = Cardinality(C(n - 1) \cup S) /\ Cardinality(C(n - 1) \cap S) = 0
    BY <2>1, <2>2, FS_EmptySet
  <2>. QED  BY <2>4, <2>5, <2>6
<1>7. Cardinality(C(n - 1)) \in Nat /\ Cardinality(S) \in Nat
  <2>1. C(n - 1) \in SUBSET Attempt /\ S \in SUBSET Attempt
    BY <1>2, <1>3, SizeAssumption DEF Attempt
  <2>. QED  BY <2>1, RangesAreFinite
<1>8. Tallied(Run(n).tally, k) = Tallied(Run(m).tally, k) + Cardinality(C(n))
  <2>. HIDE DEF C, S
  <2>. QED  BY <1>0, <1>4, <1>5, <1>6, <1>7
<1>. QED  BY <1>2, <1>8

\* The first hit of the minimum among the first n attempts of the run is f.
NoHit(n) == \A m \in 0..n : Run(m).v # v_min
Hit(n, f) == f \in 1..n /\ Run(f).v = v_min /\ NoHit(f - 1)

(***************************************************************************)
(* The sequential integer engine names the first attempt that reached the  *)
(* minimum: it changed V, so it was no wait.                               *)
(***************************************************************************)
LEMMA RunHit ==
  ASSUME TypeOK, law = "integer", origin.v # v_min
  PROVE  \A n \in 0..Seams : \/ Run(n).first = 0 /\ NoHit(n)
                             \/ Run(n).first # 0 /\ Hit(n, Run(n).first)
<1>. DEFINE P(n) == \/ Run(n).first = 0 /\ NoHit(n)
                    \/ Run(n).first # 0 /\ Hit(n, Run(n).first)
            B == {n \in 0..Seams : ~P(n)}
<1>. SUFFICES ASSUME B # {} PROVE FALSE
  OBVIOUS
<1>1. 0 \notin B
  <2>1. Run(0).first = 0 /\ Run(0).v # v_min
    BY RunSteps DEF RunStart
  <2>2. \A m \in 0..0 : m = 0
    OBVIOUS
  <2>3. NoHit(0)
    BY <2>1, <2>2 DEF NoHit
  <2>. QED  BY <2>1, <2>3
<1>2. PICK n \in B : n \in 1..Seams /\ n - 1 \in 0..Seams /\ n - 1 \notin B
  <2>1. B \in SUBSET (0..Seams) /\ Seams \in Nat /\ 0 \in Nat
    BY SizeAssumption
  <2>. HIDE DEF B
  <2>2. \E n \in B : n \in (0 + 1)..Seams /\ n - 1 \in 0..Seams /\ n - 1 \notin B
    BY <1>1, <2>1, FirstBad
  <2>. QED  BY <2>2
<1>3. P(n - 1)
  BY <1>2
<1>. DEFINE y == Run(n - 1).x
<1>4. /\ Run(n).v = Run(n - 1).v + DeltaAt(y, n)
      /\ Run(n).first = IF /\ Run(n - 1).first = 0
                           /\ Run(n).v = v_min /\ KindAt(y, n) # "wait"
                        THEN n ELSE Run(n - 1).first
      /\ Run(n - 1).v \in Int
  BY <1>2, RunSteps, RunTyped
<1>. HIDE DEF y
<1>5. \A m \in 0..n : m = n \/ m \in 0..(n - 1)
  BY <1>2
<1>6. CASE Run(n - 1).first # 0
  <2>1. Run(n).first = Run(n - 1).first /\ Hit(n - 1, Run(n).first)
    BY <1>3, <1>4, <1>6
  <2>2. Hit(n, Run(n).first)
    BY <1>2, <2>1 DEF Hit
  <2>. QED  BY <1>2, <1>6, <2>1, <2>2
<1>7. CASE Run(n - 1).first = 0 /\ Run(n).v # v_min
  <2>1. Run(n).first = 0 /\ NoHit(n)
    BY <1>3, <1>4, <1>5, <1>7 DEF NoHit
  <2>. QED  BY <1>2, <2>1
<1>8. CASE Run(n - 1).first = 0 /\ Run(n).v = v_min
  <2>1. NoHit(n - 1) /\ Run(n - 1).v # v_min
    BY <1>2, <1>3, <1>8 DEF NoHit
  <2>2. KindAt(y, n) # "wait"
    <3>. SUFFICES ASSUME KindAt(y, n) = "wait" PROVE FALSE
      OBVIOUS
    <3>1. DeltaAt(y, n) = 0
      BY DEF DeltaAt
    <3>. QED  BY <1>4, <1>8, <2>1, <3>1
  <2>3. Run(n).first = n
    BY <1>4, <1>8, <2>2
  <2>4. Hit(n, n) /\ n # 0
    BY <1>2, <1>8, <2>1 DEF Hit
  <2>. QED  BY <1>2, <2>3, <2>4
<1>. QED  BY <1>6, <1>7, <1>8

LEMMA RunWithoutHit ==
  ASSUME law # "integer"
  PROVE  \A n \in 0..Seams : Run(n).first = 0
<1>. DEFINE B == {n \in 0..Seams : Run(n).first # 0}
<1>. SUFFICES ASSUME B # {} PROVE FALSE
  OBVIOUS
<1>1. 0 \notin B
  BY RunSteps DEF RunStart
<1>2. PICK n \in B : n \in 1..Seams /\ n - 1 \in 0..Seams /\ n - 1 \notin B
  <2>1. B \in SUBSET (0..Seams) /\ Seams \in Nat /\ 0 \in Nat
    BY SizeAssumption
  <2>. HIDE DEF B
  <2>2. \E n \in B : n \in (0 + 1)..Seams /\ n - 1 \in 0..Seams /\ n - 1 \notin B
    BY <1>1, <2>1, FirstBad
  <2>. QED  BY <2>2
<1>3. Run(n).first = Run(n - 1).first
  BY <1>2, RunSteps
<1>. QED  BY <1>2, <1>3

(***************************************************************************)
(* What an attempt books and which counters count it are decided by the    *)
(* readings at the ports it reads.                                         *)
(***************************************************************************)
LEMMA CountReads ==
  ASSUME Draws, NEW t \in Attempt, NEW y, NEW z,
         \A p \in Reads(law, seq[t]) : y[p] = z[p]
  PROVE  /\ DeltaAt(y, t) = DeltaAt(z, t)
         /\ \A k : Has(y, t, k) <=> Has(z, t, k)
<1>. DEFINE s == seq[t]
            a == seam_a[s]
            b == seam_b[s]
<1>1. s \in Seam /\ a \in Port /\ b \in Port /\ a \in Ends(s) /\ b \in Ends(s)
  BY EndsArePorts DEF Draws, Ends
<1>2. \A p \in Ends(s) : y[p] = z[p]
  BY DEF Reads
<1>3. KindAt(y, t) = KindAt(z, t) /\ DeltaAt(y, t) = DeltaAt(z, t)
  BY <1>2, KindReadsItsEnds
<1>4. RaisesAt(y, t) <=> RaisesAt(z, t)
  <2>1. CASE law = "mean"
    <3>1. Diff(y, s) = Diff(z, s)
      BY <1>1, <1>2 DEF Diff
    <3>2. ASSUME NEW p \in Port, p \in Ends(s)
          PROVE  Excess(y, p) = Excess(z, p)
      <4>1. \A q \in neighbours[p] : y[q] = z[q]
        BY <2>1, <3>2 DEF Reads
      <4>2. IsFiniteSet(neighbours[p])
        <5>1. neighbours[p] \in SUBSET Port
          BY DEF neighbours
        <5>. QED  BY <5>1, RangesAreFinite, FS_Subset
      <4>3. SumOver(y, neighbours[p]) = SumOver(z, neighbours[p])
        BY <4>1, <4>2, SumCongruent
      <4>. QED  BY <1>2, <3>2, <4>3 DEF Excess
    <3>3. Excess(y, a) = Excess(z, a) /\ Excess(y, b) = Excess(z, b)
      BY <1>1, <3>2
    <3>4. SeamSumChange(y, s) = SeamSumChange(z, s)
      BY <3>1, <3>3 DEF SeamSumChange
    <3>. QED  BY <3>1, <3>4 DEF RaisesAt, Raises
  <2>2. CASE law # "mean"
    BY <2>2 DEF RaisesAt, Raises
  <2>. QED  BY <2>1, <2>2
<1>. QED  BY <1>3, <1>4 DEF Has

-----------------------------------------------------------------------------
LEMMA ChunkIsInterval ==
  TypeOK => /\ Before \in 0..Seams
            /\ start <= Seams => Before = start - 1
            /\ \A t \in ChunkFrom(start) : t \in 1..Seams /\ start <= t /\ Before = start - 1
            /\ start \in Nat /\ chunk \in Nat \ {0} /\ Seams \in Nat
BY SizeAssumption DEF TypeOK, Before, ChunkFrom, Attempt

(***************************************************************************)
(* A ready attempt reads what it reads in the sequential engines.          *)
(***************************************************************************)
LEMMA LayerReads ==
  ASSUME TypeOK, NoOvertaking, engine = "numpy", pc = "moves", ReadingsFollow,
         NEW t \in Ready(remaining)
  PROVE  /\ t \in Attempt /\ t \in 1..Seams /\ t \in ChunkFrom(start)
         /\ \A p \in Reads(law, seq[t]) : p \in Port /\ x[p] = Run(t - 1).x[p]
<1>1. t \in remaining /\ t \in ChunkFrom(start) /\ t \in Attempt /\ t \in 1..Seams
  BY DEF Ready, TypeOK, Attempt
<1>2. seq[t] \in Seam
  BY <1>1 DEF TypeOK
<1>3. t - 1 \in Before..Seams /\ t - 1 < start + chunk
  BY <1>1, ChunkIsInterval DEF ChunkFrom
<1>4. ASSUME NEW p \in Reads(law, seq[t])
      PROVE  p \in Port /\ x[p] = Run(t - 1).x[p]
  <2>1. p \in Port
    BY <1>2, EndsArePorts DEF Reads, Ends, neighbours
  <2>2. \A u \in remaining : u <= t - 1 => p \notin Ends(seq[u])
    <3>. SUFFICES ASSUME NEW u \in remaining, u <= t - 1 PROVE p \notin Ends(seq[u])
      OBVIOUS
    <3>1. u < t
      BY <1>1 DEF TypeOK, Attempt
    <3>. QED  BY <1>4, <3>1 DEF Ready
  <2>3. \A u \in Made : t - 1 < u => p \notin Ends(seq[u])
    <3>. SUFFICES ASSUME NEW u \in Made, t - 1 < u PROVE p \notin Ends(seq[u])
      OBVIOUS
    <3>1. u \in ChunkFrom(start) \ remaining /\ u \in Attempt
      BY ChunkIsSlice DEF Made
    <3>2. t < u
      BY <1>1, <3>1 DEF Attempt
    <3>. QED  BY <1>1, <1>4, <3>1, <3>2 DEF NoOvertaking
  <2>4. Settled(p, t - 1)
    BY <2>2, <2>3 DEF Settled
  <2>. QED  BY <1>3, <2>1, <2>4 DEF ReadingsFollow
<1>. QED  BY <1>1, <1>4

(***************************************************************************)
(* Within a sweep the run to compare with stays the same.                  *)
(***************************************************************************)
LEMMA RunKept ==
  ASSUME UNCHANGED <<law, seq, coin, sweep, loads, origin>>
  PROVE  /\ v_min' = v_min
         /\ \A n : Run(n)' = Run(n)
         /\ RunBooked' = RunBooked
         /\ \A t, k : Has(Run(t - 1).x, t, k)' <=> Has(Run(t - 1).x, t, k)
<1>1. v_min' = v_min
  BY DEF v_min, LeastOn, Total, components, component
<1>2. \A y, t : /\ KindAt(y, t)' = KindAt(y, t)
                /\ DeltaAt(y, t)' = DeltaAt(y, t)
                /\ RaisesAt(y, t)' = RaisesAt(y, t)
  BY DEF KindAt, DeltaAt, RaisesAt
<1>3. \A y, T : After(law, y, T)' = After(law, y, T)
  BY DEF After
<1>4. \A ty, y, T : Counted(ty, y, T)' = Counted(ty, y, T)
  <2>. SUFFICES ASSUME NEW CONSTANT ty, NEW CONSTANT y, NEW CONSTANT T
                PROVE  Counted(ty, y, T)' = Counted(ty, y, T)
    OBVIOUS
  <2>1. {t \in T : RaisesAt(y, t)}' = {t \in T : RaisesAt(y, t)}
    BY <1>2
  <2>2. \A k : NumberOf(y, T, k)' = NumberOf(y, T, k)
    <3>. SUFFICES ASSUME NEW CONSTANT k PROVE NumberOf(y, T, k)' = NumberOf(y, T, k)
      OBVIOUS
    <3>1. {t \in T : KindAt(y, t) = k}' = {t \in T : KindAt(y, t) = k}
      BY <1>2
    <3>. QED  BY <3>1 DEF NumberOf
  <2>. QED  BY <2>1, <2>2 DEF Counted
<1>5. \A r, n : MoveOn(r, n)' = MoveOn(r, n)
  <2>. SUFFICES ASSUME NEW CONSTANT r, NEW CONSTANT n
                PROVE  MoveOn(r, n)' = MoveOn(r, n)
    OBVIOUS
  <2>. QED  BY <1>1, <1>2, <1>3, <1>4 DEF MoveOn
<1>6. SequentialRun' = SequentialRun
  BY <1>5 DEF SequentialRun
<1>7. \A n : Run(n)' = Run(n)
  BY <1>6 DEF Run
<1>8. RunBooked' = RunBooked
  BY <1>2, <1>7 DEF RunBooked
<1>9. \A t, k : Has(Run(t - 1).x, t, k)' <=> Has(Run(t - 1).x, t, k)
  BY <1>2, <1>7 DEF Has
<1>. QED  BY <1>1, <1>7, <1>8, <1>9

LEMMA LayerKeepsReadings ==
  ASSUME TypeOK, NoOvertaking, ReadingsFollow, Layer
  PROVE  ReadingsFollow'
<1>. DEFINE T == Ready(remaining)
<1>1. /\ engine = "numpy" /\ pc = "moves"
      /\ x' = After(law, x, T) /\ remaining' = remaining \ T
      /\ UNCHANGED <<law, seq, coin, sweep, loads, origin>>
      /\ UNCHANGED <<engine, chunk, start, pc>>
  BY DEF Layer, choice
<1>2. /\ Before' = Before /\ Made' = Made \cup T
      /\ T \in SUBSET Attempt /\ T \subseteq remaining
  BY <1>1 DEF Before, Made, ChunkFrom, Ready, TypeOK
<1>3. Disjoint(T) /\ seq \in [Attempt -> Seam]
  BY <1>2, LayerIsIndependent DEF Disjoint, Reads, TypeOK
<1>4. \A n : Run(n)' = Run(n)
  BY <1>1, RunKept
<1>. SUFFICES ASSUME NEW n \in Before..Seams, n < start + chunk, NEW p \in Port,
                     \A u \in remaining \ T : u <= n => p \notin Ends(seq[u]),
                     \A u \in Made \cup T : n < u => p \notin Ends(seq[u])
              PROVE  After(law, x, T)[p] = Run(n).x[p]
  BY <1>1, <1>2, <1>4 DEF ReadingsFollow, Settled, Ends
<1>5. CASE \A t \in T : p \notin Ends(seq[t])
  <2>1. After(law, x, T)[p] = x[p]
    BY <1>2, <1>3, <1>5, AfterWrites
  <2>2. Settled(p, n)
    BY <1>5 DEF Settled
  <2>. QED  BY <2>1, <2>2 DEF ReadingsFollow
<1>6. ASSUME NEW t \in T, p \in Ends(seq[t])
      PROVE  After(law, x, T)[p] = Run(n).x[p]
  <2>. DEFINE y == Run(t - 1).x
  <2>1. /\ t \in Attempt /\ t \in 1..Seams /\ t \in ChunkFrom(start) /\ t \in remaining
        /\ \A q \in Reads(law, seq[t]) : q \in Port /\ x[q] = y[q]
    BY <1>1, <1>2, LayerReads
  <2>2. n \in 0..Seams /\ t \in 0..Seams /\ t <= n
    BY <1>6, <2>1, ChunkIsInterval
  <2>3. After(law, x, T)[p] = After(law, y, {t})[p]
    <3>1. /\ After(law, x, T)[seam_a[seq[t]]] = ToFirst(law, x, seq[t], coin[t])
          /\ After(law, x, T)[seam_b[seq[t]]] = ToSecond(law, x, seq[t], coin[t])
      BY <1>2, <1>3, AfterWrites
    <3>2. {t} \in SUBSET Attempt /\ Disjoint({t})
      BY <2>1 DEF Disjoint
    <3>3. /\ After(law, y, {t})[seam_a[seq[t]]] = ToFirst(law, y, seq[t], coin[t])
          /\ After(law, y, {t})[seam_b[seq[t]]] = ToSecond(law, y, seq[t], coin[t])
      BY <1>3, <3>2, AfterWrites
    <3>4. \A q \in Ends(seq[t]) : x[q] = y[q]
      BY <2>1 DEF Reads
    <3>5. seq[t] \in Seam
      BY <1>3, <2>1
    <3>. HIDE DEF y
    <3>6. /\ ToFirst(law, x, seq[t], coin[t]) = ToFirst(law, y, seq[t], coin[t])
          /\ ToSecond(law, x, seq[t], coin[t]) = ToSecond(law, y, seq[t], coin[t])
      BY <3>4, <3>5, MoveReadsItsEnds
    <3>. QED  BY <1>6, <3>1, <3>3, <3>6 DEF Ends
  <2>4. Run(t).x = After(law, y, {t})
    BY <2>1, RunSteps
  <2>5. \A u \in (t + 1)..n : p \notin Ends(seq[u])
    <3>. SUFFICES ASSUME NEW u \in (t + 1)..n PROVE p \notin Ends(seq[u])
      OBVIOUS
    <3>1. u \in ChunkFrom(start) /\ t < u /\ u <= n
      BY <2>1, <2>2, ChunkIsInterval DEF ChunkFrom, Attempt
    <3>2. CASE u \in remaining \ T
      BY <3>1, <3>2
    <3>3. CASE u \in T
      BY <1>3, <1>6, <3>1, <3>3 DEF Disjoint
    <3>4. CASE u \notin remaining
      <4>1. Ends(seq[t]) \cap Reads(law, seq[u]) = {}
        BY <1>1, <2>1, <3>1, <3>4 DEF NoOvertaking
      <4>. QED  BY <1>6, <4>1 DEF Reads
    <3>. QED  BY <3>2, <3>3, <3>4
  <2>6. Run(n).x[p] = Run(t).x[p]
    BY <2>2, <2>5, RunFrame DEF RunFrames
  <2>. QED  BY <2>3, <2>4, <2>6
<1>. QED  BY <1>5, <1>6

LEMMA LayerKeepsBookings ==
  ASSUME TypeOK, NoOvertaking, ReadingsFollow, BookingsFollow, Layer
  PROVE  BookingsFollow'
<1>. DEFINE T == Ready(remaining)
<1>1. /\ engine = "numpy" /\ pc = "moves" /\ remaining' = remaining \ T
      /\ delta' = [t \in Attempt |-> IF t \in T THEN DeltaAt(x, t) ELSE delta[t]]
      /\ UNCHANGED <<law, seq, coin, sweep, loads, origin>>
      /\ UNCHANGED <<engine, chunk, start, pc>>
  BY DEF Layer, choice
<1>2. Made' = Made \cup T /\ Made \in SUBSET Attempt /\ T \in SUBSET Attempt
  BY <1>1, ChunkIsSlice DEF Made, ChunkFrom, Ready, TypeOK
<1>3. RunBooked' = RunBooked
  BY <1>1, RunKept
<1>4. \A t \in T : DeltaAt(x, t) = RunBooked[t]
  <2>. SUFFICES ASSUME NEW t \in T PROVE DeltaAt(x, t) = RunBooked[t]
    OBVIOUS
  <2>1. t \in Attempt /\ \A p \in Reads(law, seq[t]) : x[p] = Run(t - 1).x[p]
    BY <1>1, LayerReads
  <2>2. DeltaAt(x, t) = DeltaAt(Run(t - 1).x, t)
    BY <2>1, DrawsHold, CountReads
  <2>. QED  BY <2>1, <2>2 DEF RunBooked
<1>5. \A t \in Made : delta[t] = RunBooked[t]
  BY <1>2 DEF BookingsFollow, RunBooked
<1>6. \A t \in Made' : delta'[t] = RunBooked'[t]
  <2>. HIDE DEF T
  <2>. QED  BY <1>1, <1>2, <1>3, <1>4, <1>5
<1>. QED  BY <1>2, <1>6 DEF BookingsFollow, RunBooked

LEMMA LayerKeepsCounters ==
  ASSUME TypeOK, NoOvertaking, ReadingsFollow, CountersFollow, Layer
  PROVE  CountersFollow'
<1>. DEFINE T == Ready(remaining)
<1>1. /\ engine = "numpy" /\ pc = "moves" /\ remaining' = remaining \ T
      /\ tally' = Counted(tally, x, T)
      /\ UNCHANGED <<law, seq, coin, sweep, loads, origin>>
      /\ UNCHANGED <<engine, chunk, start, pc>>
  BY DEF Layer, choice
<1>2. /\ Before' = Before /\ Made' = Made \cup T /\ Made \cap T = {}
      /\ Made \in SUBSET Attempt /\ T \in SUBSET Attempt
  BY <1>1, ChunkIsSlice DEF Before, Made, ChunkFrom, Ready, TypeOK
<1>3. /\ \A n : Run(n)' = Run(n)
      /\ \A t, k : Has(Run(t - 1).x, t, k)' <=> Has(Run(t - 1).x, t, k)
  BY <1>1, RunKept
<1>4. \A t \in T : \A k : Has(x, t, k) <=> Has(Run(t - 1).x, t, k)
  <2>. SUFFICES ASSUME NEW t \in T
                PROVE  \A k : Has(x, t, k) <=> Has(Run(t - 1).x, t, k)
    OBVIOUS
  <2>1. t \in Attempt /\ \A p \in Reads(law, seq[t]) : x[p] = Run(t - 1).x[p]
    BY <1>1, LayerReads
  <2>. QED  BY <2>1, DrawsHold, CountReads
<1>. SUFFICES ASSUME NEW k \in Counters
              PROVE  Tallied(tally', k) = Tallied(Run(Before).tally, k)
                       + Cardinality({t \in Made \cup T : Has(Run(t - 1).x, t, k)})
  <2>1. \A k : {t \in Made : Has(Run(t - 1).x, t, k)}'
                 = {t \in Made \cup T : Has(Run(t - 1).x, t, k)}
    BY <1>2, <1>3
  <2>2. Run(Before)' = Run(Before)
    BY <1>2, <1>3 DEF Run
  <2>. QED  BY <2>1, <2>2 DEF CountersFollow, Tallied
<1>. DEFINE P == {t \in Made : Has(Run(t - 1).x, t, k)}
            Q == {t \in T : Has(Run(t - 1).x, t, k)}
<1>5. Tallied(tally', k) = Tallied(tally, k) + Cardinality(Q) /\ Tallied(tally, k) \in Nat
  <2>1. Seen(x, T, k) = Q
    BY <1>4 DEF Seen
  <2>2. tally \in TallyType
    BY DEF TypeOK
  <2>3. /\ Tallied(Counted(tally, x, T), k) = Tallied(tally, k) + Cardinality(Seen(x, T, k))
        /\ Tallied(tally, k) \in Nat
    <3>. HIDE DEF T
    <3>. QED  BY <1>2, <2>2, CountedAdds
  <2>. QED  BY <1>1, <2>1, <2>3
<1>6. Tallied(tally, k) = Tallied(Run(Before).tally, k) + Cardinality(P)
  BY DEF CountersFollow
<1>7. Cardinality(P \cup Q) = Cardinality(P) + Cardinality(Q)
      /\ Cardinality(P) \in Nat /\ Cardinality(Q) \in Nat
  <2>1. P \in SUBSET Attempt /\ Q \in SUBSET Attempt /\ P \cap Q = {}
    BY <1>2
  <2>2. IsFiniteSet(P) /\ IsFiniteSet(Q) /\ Cardinality(P) \in Nat /\ Cardinality(Q) \in Nat
    BY <2>1, RangesAreFinite
  <2>. HIDE DEF P, Q
  <2>3. Cardinality(P \cup Q) = Cardinality(P) + Cardinality(Q) - Cardinality(P \cap Q)
    BY <2>2, FS_Union
  <2>4. Cardinality(P \cap Q) = 0
    BY <2>1, FS_EmptySet
  <2>. QED  BY <2>2, <2>3, <2>4
<1>8. Tallied(Run(Before).tally, k) \in Nat
  <2>1. Run(Before).tally \in TallyType /\ {} \in SUBSET Attempt
    BY ChunkIsInterval, RunTyped
  <2>. QED  BY <2>1, CountedAdds
<1>9. Cardinality({t \in Made \cup T : Has(Run(t - 1).x, t, k)}) = Cardinality(P \cup Q)
  <2>1. {t \in Made \cup T : Has(Run(t - 1).x, t, k)} = P \cup Q
    OBVIOUS
  <2>. QED  BY <2>1
<1>. HIDE DEF P, Q
<1>. QED  BY <1>5, <1>6, <1>7, <1>8, <1>9

\* The last attempt of the current chunk.
End == IF start + chunk <= Seams THEN start + chunk - 1 ELSE Seams

LEMMA ClosingChunk ==
  ASSUME TypeOK, CloseChunk
  PROVE  /\ End \in 0..Seams /\ Before \in 0..Seams /\ Before <= End
         /\ Before + 1 = start /\ End < start + chunk
         /\ Made = (Before + 1)..End /\ ChunkFrom(start) = Made
         /\ Before' = End /\ Made' = {}
         /\ UNCHANGED <<law, seq, coin, sweep, loads, origin>>
<1>1. /\ start <= Seams /\ remaining = {} /\ start' = start + chunk
      /\ remaining' = ChunkFrom(start + chunk)
      /\ UNCHANGED <<law, seq, coin, sweep, loads, origin, chunk>>
  BY DEF CloseChunk, choice
<1>2. Before = start - 1 /\ start \in Nat \ {0} /\ chunk \in Nat \ {0} /\ Seams \in Nat
  BY <1>1, ChunkIsInterval DEF TypeOK
<1>3. ChunkFrom(start) = start..End
  BY <1>1, <1>2 DEF ChunkFrom, Attempt, End
<1>4. Before' = End
  BY <1>1, <1>2 DEF Before, End
<1>5. Made' = {}
  BY <1>1 DEF Made, ChunkFrom
<1>. QED  BY <1>1, <1>2, <1>3, <1>4, <1>5 DEF Made, End

LEMMA CloseKeepsReadings ==
  ASSUME TypeOK, ReadingsFollow, CloseChunk
  PROVE  ReadingsFollow'
<1>1. /\ x' = x /\ remaining = {} /\ remaining' = ChunkFrom(start + chunk)
      /\ start' = start + chunk /\ chunk' = chunk /\ start <= Seams
  BY DEF CloseChunk, choice
<1>2. /\ End \in 0..Seams /\ Before \in 0..Seams /\ Before <= End
      /\ End < start + chunk /\ Made = (Before + 1)..End /\ Before' = End
      /\ UNCHANGED <<law, seq, coin, sweep, loads, origin>>
  BY ClosingChunk
<1>3. \A n : Run(n)' = Run(n)
  BY <1>2, RunKept
<1>4. \A p \in Port : x[p] = Run(End).x[p]
  <2>1. \A p \in Port : Settled(p, End)
    BY <1>1, <1>2 DEF Settled
  <2>2. End \in Before..Seams
    BY <1>2
  <2>. QED  BY <1>2, <2>1, <2>2 DEF ReadingsFollow
<1>. SUFFICES ASSUME NEW n \in End..Seams, n < start' + chunk, NEW p \in Port,
                     \A u \in remaining' : u <= n => p \notin Ends(seq[u])
              PROVE  x[p] = Run(n).x[p]
  BY <1>1, <1>2, <1>3 DEF ReadingsFollow, Settled, Ends
<1>5. \A u \in (End + 1)..n : p \notin Ends(seq[u])
  <2>. SUFFICES ASSUME NEW u \in (End + 1)..n PROVE u \in remaining'
    BY <1>2
  <2>1. start \in Nat /\ chunk \in Nat \ {0} /\ Seams \in Nat
    BY ChunkIsInterval
  <2>. QED  BY <1>1, <1>2, <2>1 DEF ChunkFrom, Attempt, End
<1>6. Run(n).x[p] = Run(End).x[p]
  BY <1>2, <1>5, RunFrame DEF RunFrames
<1>. QED  BY <1>4, <1>6

LEMMA CloseKeepsCounters ==
  ASSUME TypeOK, CountersFollow, CloseChunk
  PROVE  CountersFollow'
<1>1. tally' = tally
  BY DEF CloseChunk
<1>2. /\ End \in 0..Seams /\ Before \in 0..Seams /\ Before <= End
      /\ Made = (Before + 1)..End /\ Before' = End /\ Made' = {}
      /\ UNCHANGED <<law, seq, coin, sweep, loads, origin>>
  BY ClosingChunk
<1>3. Run(Before)' = Run(End)
  BY <1>2, RunKept DEF Run
<1>. SUFFICES ASSUME NEW k \in Counters
              PROVE  Tallied(tally, k) = Tallied(Run(End).tally, k) + 0
  <2>1. \A k : {t \in Made : Has(Run(t - 1).x, t, k)}' = {}
    BY <1>2
  <2>. QED  BY <1>1, <1>3, <2>1, FS_EmptySet DEF CountersFollow, Tallied
<1>4. Tallied(tally, k) = Tallied(Run(Before).tally, k)
                            + Cardinality({t \in (Before + 1)..End : Has(Run(t - 1).x, t, k)})
  BY <1>2 DEF CountersFollow
<1>5. Tallied(Run(End).tally, k) = Tallied(Run(Before).tally, k)
                            + Cardinality({t \in (Before + 1)..End : Has(Run(t - 1).x, t, k)})
  BY <1>2, RunCounters
<1>6. Tallied(Run(End).tally, k) \in Nat
  BY <1>2, RunTyped, CountedAdds
<1>. QED  BY <1>4, <1>5, <1>6

LEMMA PrefixFollows ==
  ASSUME TypeOK, BookingsFollow, LedgerFollows, CloseChunk, NEW t \in Before..End
  PROVE  Run(t).v = v + SumOver(delta, {u \in ChunkFrom(start) : u <= t})
<1>1. /\ End \in 0..Seams /\ Before \in 0..Seams /\ Before <= End
      /\ ChunkFrom(start) = (Before + 1)..End /\ Made = (Before + 1)..End
  BY ClosingChunk
<1>2. t \in 0..Seams /\ Before <= t /\ {u \in ChunkFrom(start) : u <= t} = (Before + 1)..t
  BY <1>1, SizeAssumption
<1>3. Run(t).v = Run(Before).v + SumOver(RunBooked, (Before + 1)..t)
  BY <1>1, <1>2, RunLedger
<1>4. (Before + 1)..t \in SUBSET Attempt /\ IsFiniteSet((Before + 1)..t)
  BY <1>1, <1>2, SliceIsFinite
<1>5. \A u \in (Before + 1)..t : delta[u] = RunBooked[u]
  BY <1>1, <1>4 DEF BookingsFollow, RunBooked
<1>6. SumOver(delta, (Before + 1)..t) = SumOver(RunBooked, (Before + 1)..t)
  BY <1>4, <1>5, SumCongruent
<1>. QED  BY <1>2, <1>3, <1>6 DEF LedgerFollows

LEMMA CloseKeepsLedger ==
  ASSUME TypeOK, BookingsFollow, LedgerFollows, law = "integer" => origin.v # v_min,
         CloseChunk
  PROVE  LedgerFollows'
<1>. DEFINE hit == {t \in ChunkFrom(start) : Running(t) = v_min}
<1>1. /\ v' = Running(Seams)
      /\ first' = IF law = "integer" /\ first = 0 /\ hit # {} THEN Min(hit) ELSE first
  BY DEF CloseChunk
<1>2. /\ End \in 0..Seams /\ Before \in 0..Seams /\ Before <= End
      /\ ChunkFrom(start) = (Before + 1)..End /\ Before' = End
      /\ UNCHANGED <<law, seq, coin, sweep, loads, origin>>
  BY ClosingChunk
<1>3. Run(Before)' = Run(End)
  BY <1>2, RunKept DEF Run
<1>4. v' = Run(End).v
  <2>1. {u \in ChunkFrom(start) : u <= Seams} = {u \in ChunkFrom(start) : u <= End}
    BY <1>2, SizeAssumption
  <2>2. End \in Before..End
    BY <1>2
  <2>3. Run(End).v = v + SumOver(delta, {u \in ChunkFrom(start) : u <= End})
    BY <2>2, PrefixFollows
  <2>. QED  BY <1>1, <2>1, <2>3 DEF Running
<1>5. \A t \in (Before + 1)..End : Running(t) = Run(t).v
  <2>. SUFFICES ASSUME NEW t \in (Before + 1)..End PROVE Running(t) = Run(t).v
    OBVIOUS
  <2>1. t \in Before..End
    BY <1>2
  <2>. QED  BY <2>1, PrefixFollows DEF Running
<1>6. first' = Run(End).first
  <2>1. CASE law # "integer"
    <3>1. Run(Before).first = 0 /\ Run(End).first = 0
      BY <1>2, <2>1, RunWithoutHit
    <3>. QED  BY <1>1, <2>1, <3>1 DEF LedgerFollows
  <2>2. CASE law = "integer" /\ first # 0
    <3>1. first' = first /\ first = Run(Before).first
      BY <1>1, <2>2 DEF LedgerFollows
    <3>2. Hit(Before, first)
      BY <1>2, <2>2, <3>1, RunHit
    <3>3. \/ Run(End).first = 0 /\ NoHit(End)
          \/ Run(End).first # 0 /\ Hit(End, Run(End).first)
      BY <1>2, <2>2, RunHit
    <3>4. Hit(End, first)
      BY <1>2, <3>2 DEF Hit
    <3>5. Hit(End, Run(End).first)
      BY <3>3, <3>4 DEF Hit, NoHit
    <3>6. Run(End).first = first
      BY <1>2, <3>4, <3>5 DEF Hit, NoHit
    <3>. QED  BY <3>1, <3>6
  <2>3. CASE law = "integer" /\ first = 0
    <3>1. NoHit(Before)
      BY <1>2, <2>3, RunHit DEF LedgerFollows, Hit
    <3>2. hit = {t \in (Before + 1)..End : Run(t).v = v_min}
      BY <1>2, <1>5
    <3>3. \/ Run(End).first = 0 /\ NoHit(End)
          \/ Run(End).first # 0 /\ Hit(End, Run(End).first)
      BY <1>2, <2>3, RunHit
    <3>. HIDE DEF hit
    <3>4. CASE hit = {}
      <4>1. NoHit(End)
        BY <1>2, <3>1, <3>2, <3>4 DEF NoHit
      <4>2. Run(End).first = 0
        BY <3>3, <4>1 DEF Hit, NoHit
      <4>. QED  BY <1>1, <2>3, <3>4, <4>2
    <3>5. CASE hit # {}
      <4>1. hit \in SUBSET Attempt
        BY <1>2, <3>2, SizeAssumption DEF Attempt
      <4>2. Min(hit) \in hit /\ \A t \in hit : Min(hit) <= t
        BY <3>5, <4>1, SmallestAttempt
      <4>3. Hit(End, Min(hit))
        <5>1. Min(hit) \in (Before + 1)..End /\ Run(Min(hit)).v = v_min
          BY <3>2, <4>2
        <5>2. \A m \in 0..(Min(hit) - 1) : Run(m).v # v_min
          <6>. SUFFICES ASSUME NEW m \in 0..(Min(hit) - 1), Run(m).v = v_min
                        PROVE  FALSE
            OBVIOUS
          <6>1. m \notin 0..Before
            BY <3>1 DEF NoHit
          <6>2. m \in (Before + 1)..End
            BY <1>2, <5>1, <6>1
          <6>3. m \in hit
            BY <3>2, <6>2
          <6>. QED  BY <1>2, <4>2, <5>1, <6>3
        <5>. QED  BY <1>2, <5>1, <5>2 DEF Hit, NoHit
      <4>4. Run(End).first # 0 /\ Hit(End, Run(End).first)
        BY <3>3, <4>3 DEF Hit, NoHit
      <4>5. Run(End).first = Min(hit)
        BY <1>2, <4>3, <4>4 DEF Hit, NoHit
      <4>. QED  BY <1>1, <2>3, <3>5, <4>5
    <3>. QED  BY <3>4, <3>5
  <2>. QED  BY <2>1, <2>2, <2>3
<1>. QED  BY <1>3, <1>4, <1>6 DEF LedgerFollows

LEMMA RunAtStart == Run(0) = RunStart
BY RunSteps

(***************************************************************************)
(* A sweep starts where the engines stand.                                 *)
(***************************************************************************)
LEMMA DrawFollows ==
  ASSUME TypeOK, TypeOK', SweepInv, Draw, engine = "numpy"
  PROVE  /\ (law = "integer" => origin.v # v_min)'
         /\ ReadingsFollow' /\ BookingsFollow' /\ CountersFollow' /\ LedgerFollows'
<1>1. /\ pc = "loop" /\ Continue /\ start' = 1 /\ remaining' = ChunkFrom(1)
      /\ UNCHANGED <<law, engine, chunk, loads, x, v, tally, sweep, first, origin>>
  BY DEF Draw, choice
<1>2. /\ origin = [x |-> x, v |-> v, tally |-> tally] /\ first = 0
      /\ law = "integer" /\ first_attempt = -1 => v # v_min
  BY <1>1 DEF SweepInv
<1>3. /\ Made' = {} /\ Before' = 0 /\ Seams \in Nat
  BY <1>1, SizeAssumption DEF Made, ChunkFrom, Before
<1>4. Run(0)' = [x |-> x, v |-> v, tally |-> tally, first |-> 0]
  <2>1. (Run(0) = RunStart)'
    BY RunAtStart, PTL
  <2>2. RunStart' = [x |-> x, v |-> v, tally |-> tally, first |-> 0]
    BY <1>1, <1>2 DEF RunStart
  <2>. QED  BY <2>1, <2>2
<1>5. Run(Before)' = Run(0)'
  BY <1>3 DEF Run
<1>6. v_min' = v_min
  BY <1>1 DEF v_min, LeastOn, Total, components, component
<1>7. (law = "integer" => origin.v # v_min)'
  <2>1. law = "integer" => origin.v # v_min
    BY <1>1, <1>2 DEF Continue
  <2>. QED  BY <1>1, <1>6, <2>1
<1>8. ReadingsFollow'
  <2>1. RunFrames'
    BY RunFrame, PTL
  <2>. SUFFICES ASSUME NEW n \in 0..Seams, n < 1 + chunk, NEW p \in Port,
                       \A u \in ChunkFrom(1) : u <= n => p \notin Ends(seq'[u])
                PROVE  x[p] = Run(n)'.x[p]
    BY <1>1, <1>3 DEF ReadingsFollow, Settled, Ends
  <2>2. \A u \in (0 + 1)..n : p \notin Ends(seq'[u])
    <3>1. \A u \in (0 + 1)..n : u \in ChunkFrom(1) /\ u <= n
      BY <1>3, ChunkIsInterval DEF ChunkFrom, Attempt
    <3>. QED  BY <3>1
  <2>3. Run(n)'.x[p] = Run(0)'.x[p]
    BY <1>3, <2>1, <2>2 DEF RunFrames, Ends
  <2>. QED  BY <1>4, <2>3
<1>9. BookingsFollow'
  BY <1>3 DEF BookingsFollow
<1>10. CountersFollow'
  <2>1. \A k : {t \in Made : Has(Run(t - 1).x, t, k)}' = {}
    BY <1>3
  <2>2. Run(Before)'.tally = tally
    BY <1>4, <1>5
  <2>3. \A k \in Counters : Tallied(tally, k) \in Nat
    BY CountedAdds DEF TypeOK
  <2>4. \A k \in Counters : Tallied(tally, k) = Tallied(tally, k) + Cardinality({})
    BY <2>3, FS_EmptySet
  <2>. QED  BY <1>1, <2>1, <2>2, <2>4 DEF CountersFollow, Tallied
<1>11. LedgerFollows'
  BY <1>1, <1>2, <1>4, <1>5 DEF LedgerFollows
<1>. QED  BY <1>7, <1>8, <1>9, <1>10, <1>11

(***************************************************************************)
(* When the sweep is over everything follows the run to its end.           *)
(***************************************************************************)
LEMMA SweptFollows ==
  ASSUME TypeOK, SweepInv, Swept, engine = "numpy"
  PROVE  /\ x = Run(Seams).x /\ v = Run(Seams).v /\ first = Run(Seams).first
         /\ \A k \in Counters : Tallied(tally, k) = Tallied(Run(Seams).tally, k)
         /\ law = "integer" => origin.v # v_min
<1>1. /\ pc = "moves" /\ remaining = {} /\ start > Seams
      /\ ReadingsFollow /\ BookingsFollow /\ CountersFollow /\ LedgerFollows
      /\ law = "integer" => origin.v # v_min
  BY DEF Swept, SweepInv
<1>2. /\ Before = Seams /\ Made = {} /\ Seams \in Nat
      /\ Seams \in Before..Seams /\ Seams < start + chunk
  BY <1>1, SizeAssumption DEF Before, Made, ChunkFrom, Attempt, TypeOK
<1>3. x = Run(Seams).x
  <2>1. \A p \in Port : Settled(p, Seams)
    BY <1>1, <1>2 DEF Settled
  <2>2. \A p \in Port : x[p] = Run(Seams).x[p]
    BY <1>1, <1>2, <2>1 DEF ReadingsFollow
  <2>3. Typed(x) /\ Typed(Run(Seams).x)
    BY <1>2, DrawsHold, RunTyped
  <2>. QED  BY <2>2, <2>3 DEF Typed
<1>4. \A k \in Counters : Tallied(tally, k) = Tallied(Run(Seams).tally, k)
  <2>1. \A k : {t \in Made : Has(Run(t - 1).x, t, k)} = {}
    BY <1>2
  <2>2. \A k \in Counters : Tallied(Run(Seams).tally, k) \in Nat
    <3>1. Run(Seams).tally \in TallyType
      BY <1>2, RunTyped
    <3>. QED  BY <3>1, CountedAdds
  <2>. QED  BY <1>1, <1>2, <2>1, <2>2, FS_EmptySet DEF CountersFollow
<1>. QED  BY <1>1, <1>2, <1>3, <1>4 DEF LedgerFollows

LEMMA SweepInit == Init => SweepInv
<1>. SUFFICES ASSUME Init PROVE SweepInv
  OBVIOUS
<1>1. law = "integer" /\ first_attempt = -1 => v # v_min
  BY DEF Init
<1>. QED  BY <1>1 DEF Init, SweepInv

LEMMA SweepStep ==
  TypeOK /\ TypeOK' /\ NoOvertaking /\ SweepInv /\ [Next]_vars => SweepInv'
<1>. SUFFICES ASSUME TypeOK, TypeOK', NoOvertaking, SweepInv, [Next]_vars,
                     engine' = "numpy"
              PROVE  SweepInv'
  BY DEF SweepInv
<1>. USE DEF choice
<1>1. CASE Draw
  BY <1>1, DrawFollows DEF Draw, SweepInv
<1>2. CASE Move
  BY <1>2 DEF Move
<1>3. CASE Layer
  <2>1. /\ engine = "numpy" /\ pc = "moves" /\ pc' = "moves"
        /\ UNCHANGED <<law, seq, coin, sweep, loads, origin, v, first, start, engine>>
    BY <1>3 DEF Layer
  <2>2. /\ law = "integer" => origin.v # v_min
        /\ ReadingsFollow /\ BookingsFollow /\ CountersFollow /\ LedgerFollows
    BY <2>1 DEF SweepInv
  <2>3. ReadingsFollow' /\ BookingsFollow' /\ CountersFollow'
    BY <1>3, <2>2, LayerKeepsReadings, LayerKeepsBookings, LayerKeepsCounters
  <2>4. v_min' = v_min /\ Before' = Before /\ Run(Before)' = Run(Before)
    BY <2>1, RunKept DEF Before, Run
  <2>5. LedgerFollows'
    BY <2>1, <2>2, <2>4 DEF LedgerFollows
  <2>. QED  BY <2>1, <2>2, <2>3, <2>4, <2>5 DEF SweepInv
<1>4. CASE CloseChunk
  <2>1. /\ engine = "numpy" /\ pc = "moves" /\ pc' = "moves"
        /\ UNCHANGED <<law, seq, coin, sweep, loads, origin, engine>>
    BY <1>4 DEF CloseChunk
  <2>2. /\ law = "integer" => origin.v # v_min
        /\ ReadingsFollow /\ BookingsFollow /\ CountersFollow /\ LedgerFollows
    BY <2>1 DEF SweepInv
  <2>3. ReadingsFollow' /\ CountersFollow' /\ LedgerFollows'
    BY <1>4, <2>2, CloseKeepsReadings, CloseKeepsCounters, CloseKeepsLedger
  <2>4. BookingsFollow'
    BY <1>4, ClosingChunk DEF BookingsFollow
  <2>5. v_min' = v_min
    BY <2>1, RunKept
  <2>. QED  BY <2>1, <2>2, <2>3, <2>4, <2>5 DEF SweepInv
<1>5. CASE CloseSweep
  <2>1. /\ Swept /\ engine = "numpy" /\ pc' = "loop"
        /\ first_attempt' = IF first > 0 THEN sweep * Seams + first ELSE first_attempt
        /\ origin' = [x |-> x, v |-> v, tally |-> tally] /\ first' = 0
        /\ UNCHANGED <<law, loads, x, v, tally>>
    BY <1>5 DEF CloseSweep
  <2>2. v_min' = v_min
    BY <2>1 DEF v_min, LeastOn, Total, components, component
  <2>3. law = "integer" /\ first_attempt' = -1 => v # v_min
    <3>. SUFFICES ASSUME law = "integer", first_attempt' = -1 PROVE v # v_min
      OBVIOUS
    <3>1. first \in 0..Seams /\ sweep \in Nat /\ Seams \in Nat
      BY SizeAssumption DEF TypeOK
    <3>2. sweep * Seams \in Nat
      BY <3>1
    <3>3. first = 0
      BY <2>1, <3>1, <3>2
    <3>4. v = Run(Seams).v /\ Run(Seams).first = 0 /\ origin.v # v_min
      BY <2>1, <3>3, SweptFollows
    <3>5. NoHit(Seams)
      BY <3>1, <3>4, RunHit
    <3>. QED  BY <3>1, <3>4, <3>5 DEF NoHit
  <2>. QED  BY <2>1, <2>2, <2>3 DEF SweepInv
<1>6. CASE Stop
  BY <1>6 DEF Stop, SweepInv
<1>7. CASE UNCHANGED vars
  <2>1. UNCHANGED <<law, seq, coin, sweep, loads, origin>>
    BY <1>7 DEF vars
  <2>2. /\ v_min' = v_min /\ RunBooked' = RunBooked /\ \A n : Run(n)' = Run(n)
        /\ \A t, k : Has(Run(t - 1).x, t, k)' <=> Has(Run(t - 1).x, t, k)
    BY <2>1, RunKept
  <2>3. Before' = Before /\ Made' = Made
    BY <1>7 DEF vars, Before, Made, ChunkFrom
  <2>4. Run(Before)' = Run(Before)
    BY <2>2, <2>3 DEF Run
  <2>5. ReadingsFollow => ReadingsFollow'
    BY <1>7, <2>2, <2>3 DEF vars, ReadingsFollow, Settled, Ends
  <2>6. BookingsFollow => BookingsFollow'
    <3>1. Made \in SUBSET Attempt
      BY ChunkIsSlice DEF Made
    <3>2. BookingsFollow <=> \A t \in Made : delta[t] = RunBooked[t]
      BY <3>1 DEF BookingsFollow, RunBooked
    <3>3. BookingsFollow' <=> \A t \in Made' : delta'[t] = RunBooked'[t]
      BY <2>3, <3>1 DEF BookingsFollow, RunBooked
    <3>4. delta' = delta
      BY <1>7 DEF vars
    <3>. QED  BY <2>2, <2>3, <3>2, <3>3, <3>4
  <2>7. CountersFollow => CountersFollow'
    <3>1. \A k : {t \in Made : Has(Run(t - 1).x, t, k)}'
                   = {t \in Made : Has(Run(t - 1).x, t, k)}
      BY <2>2, <2>3
    <3>2. tally' = tally
      BY <1>7 DEF vars
    <3>. QED  BY <2>4, <3>1, <3>2 DEF CountersFollow, Tallied
  <2>8. LedgerFollows => LedgerFollows'
    BY <1>7, <2>4 DEF vars, LedgerFollows
  <2>. QED  BY <1>7, <2>2, <2>5, <2>6, <2>7, <2>8 DEF vars, SweepInv
<1>. QED  BY <1>1, <1>2, <1>3, <1>4, <1>5, <1>6, <1>7 DEF Next

(***************************************************************************)
(* Whatever the federation, the law, the chunk size and the draws, the     *)
(* layered engine leaves what the sequential engines leave.                *)
(***************************************************************************)
THEOREM LayersAgree == Spec => []EnginesAgree
<1>1. Init => SweepInv
  BY SweepInit
<1>2. TypeOK /\ TypeOK' /\ NoOvertaking /\ SweepInv /\ [Next]_vars => SweepInv'
  BY SweepStep
<1>3. TypeOK /\ SweepInv => EnginesAgree
  <2>. SUFFICES ASSUME TypeOK, SweepInv, Swept, engine = "numpy"
                PROVE  /\ x = Sequential.x /\ v = Sequential.v /\ first = Sequential.first
                       /\ WithoutWitness(tally) = WithoutWitness(Sequential.tally)
    BY DEF EnginesAgree
  <2>1. Sequential = Run(Seams)
    BY DEF Sequential, Run
  <2>2. tally \in TallyType /\ Run(Seams).tally \in TallyType
    BY SizeAssumption, RunTyped DEF TypeOK
  <2>3. \A k \in Counters : Tallied(tally, k) = Tallied(Run(Seams).tally, k)
    BY SweptFollows
  <2>4. /\ tally.waits = Run(Seams).tally.waits /\ tally.swaps = Run(Seams).tally.swaps
        /\ tally.descents = Run(Seams).tally.descents
        /\ tally.raises = Run(Seams).tally.raises
    BY <2>3 DEF Counters, Tallied
  <2>5. WithoutWitness(tally) = WithoutWitness(Run(Seams).tally)
    BY <2>2, <2>4 DEF WithoutWitness, TallyType
  <2>. QED  BY <2>1, <2>5, SweptFollows
<1>. QED  BY <1>1, <1>2, <1>3, ReadingsStayInRange, LayersNeverOvertake, PTL DEF Spec
=============================================================================
