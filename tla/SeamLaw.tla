------------------------------ MODULE SeamLaw -------------------------------
(***************************************************************************)
(* The asynchronous seam laws of a federation (oph_exact/federation.py).   *)
(* A schedule draws sweeps of seams; each attempt replaces the readings of *)
(* the two ports of a seam by their mean (mean law) or by the nearest      *)
(* integers, the odd unit placed by a coin (integer law).  The python and  *)
(* native engines make the moves of a sweep one by one.  The numpy engine  *)
(* cuts the sweep into chunks and applies, layer by layer, all moves of a  *)
(* chunk that no earlier one still blocks.                                 *)
(*                                                                         *)
(* Readings of the mean law are counted in fractions of a load small       *)
(* enough for all halvings of a run: the arithmetic is exact, as in        *)
(* run_mean_law_exact, and rounding is not modelled.                       *)
(***************************************************************************)
EXTENDS Integers, FiniteSets, FiniteSetsExt

CONSTANTS
  Ports,          \* number of ports
  Seams,          \* number of seams, and of attempts in a sweep
  seam_a, seam_b, \* seam -> its two ports
  MaxLoad,
  Loads,          \* the initial loads considered, port -> 0..MaxLoad
  Laws, Chunks,   \* the laws and the chunk sizes considered
  MaxSweeps,      \* max_sweeps
  PhiThreshold    \* the mean law stops below this value of Phi

Port == 1..Ports
Seam == 1..Seams
Attempt == 1..Seams     \* positions of a sweep

ASSUME SizeAssumption ==
  /\ Ports \in Nat /\ Seams \in Nat /\ MaxLoad \in Nat /\ MaxSweeps \in Nat
  /\ Laws \subseteq {"integer", "mean"} /\ Chunks \subseteq Nat \ {0}
ASSUME SeamAssumption ==
  /\ seam_a \in [Seam -> Port] /\ seam_b \in [Seam -> Port]
  /\ \A s \in Seam : seam_a[s] # seam_b[s]
ASSUME LoadAssumption == Loads \subseteq [Port -> 0..MaxLoad]

VARIABLES
  law,            \* "integer" or "mean"
  engine,         \* "python" (the native engine alike) or "numpy"
  chunk,          \* chunk size of the numpy engine
  loads,
  x,              \* port -> reading
  v,              \* V by the ledger of the moves made (the mean law adds up
                  \* the losses; a layer's are booked with its chunk here)
  tally,          \* counters of the schedule
  sweep,          \* sweeps made
  first_attempt,  \* attempt that reached the minimum of V, -1 if none has
  seq, coin,      \* the draws of the sweep
  start,          \* first attempt of the current chunk
  remaining,      \* attempts of the current chunk not made yet
  delta,          \* change of V by the attempts of the current chunk
  first,          \* attempt of this sweep that reached the minimum, or 0
  origin,         \* history: x, v and tally before the sweep
  pc

vars == <<law, engine, chunk, loads, x, v, tally, sweep, first_attempt, seq,
          coin, start, remaining, delta, first, origin, pc>>

choice == <<law, engine, chunk, loads>>

-----------------------------------------------------------------------------
(***************************************************************************)
(* Seams, neighbours and components.                                       *)
(***************************************************************************)
Ends(s) == {seam_a[s], seam_b[s]}

neighbours == [p \in Port |-> {q \in Port : \E s \in Seam : Ends(s) = {p, q}}]

\* Parallel seams count once each (PortGraph.build sums a weighted adjacency
\* and keeps one entry per pair, so degree counts neighbours).
degree == [p \in Port |-> Cardinality(neighbours[p])]

\* The ports an attempt of the law reads: the mean law's counter of raising
\* moves looks at the neighbours of both ports.
Reads(l, s) ==
  IF l = "mean" THEN Ends(s) \cup UNION {neighbours[p] : p \in Ends(s)}
  ELSE Ends(s)

component(p) ==
  LET Grow(S) == S \cup UNION {neighbours[q] : q \in S}
      reach[n \in 0..Ports] == IF n = 0 THEN {p} ELSE Grow(reach[n - 1])
  IN  reach[Ports]

components == {component(p) : p \in Port}

\* The powers of two up to one for every attempt of a run.
TwoTo[n \in 0..(MaxSweeps * Seams)] == IF n = 0 THEN 1 ELSE 2 * TwoTo[n - 1]

Unit(l) == IF l = "mean" THEN TwoTo[MaxSweeps * Seams] ELSE 1

\* The sum of the values of f over S.
SumOver(f, S) == MapThenSumSet(LAMBDA p : f[p], S)

Sq(n) == n * n
V(y) == SumOver([p \in Port |-> Sq(y[p])], Port)
Phi(y) == SumOver([s \in Seam |-> Sq(y[seam_a[s]] - y[seam_b[s]])], Seam)

Total(y, C) == SumOver(y, C)

\* Faulty variant: the ports that keep the quotient are not taken off.
RemainderTwice(C) ==
  LET m == Cardinality(C)
      q == Total(loads, C) \div m
      r == Total(loads, C) % m
  IN  m * Sq(q) + r * Sq(q + 1)

\* integer_minimum_descent: q or q + 1 everywhere
LeastOn(C) ==
  LET m == Cardinality(C)
      q == Total(loads, C) \div m
      r == Total(loads, C) % m
  IN  (m - r) * Sq(q) + r * Sq(q + 1)

v_min == SumOver([C \in components |-> LeastOn(C)], components)

-----------------------------------------------------------------------------
(***************************************************************************)
(* One attempt at seam s with coin c, from the readings y.                 *)
(***************************************************************************)
Sum2(y, s) == y[seam_a[s]] + y[seam_b[s]]
Diff(y, s) == y[seam_a[s]] - y[seam_b[s]]

\* Faulty variant: the coin is ignored, the odd unit goes to the first port.
CeilingToFirst(l, y, s, c) == Sum2(y, s) - Sum2(y, s) \div 2

\* Faulty variant: half the difference is added where it should be taken off.
AwayFromMean(l, y, s, c) == y[seam_a[s]] + Diff(y, s) \div 2

\* integer_nearest_agreement, and the mean; the second port gets the rest.
ToFirst(l, y, s, c) ==
  IF l = "integer" /\ c THEN Sum2(y, s) - Sum2(y, s) \div 2
  ELSE Sum2(y, s) \div 2

ToSecond(l, y, s, c) == Sum2(y, s) - ToFirst(l, y, s, c)

Kind(l, y, s, c) ==
  IF Diff(y, s) = 0 THEN "wait"
  ELSE IF l = "mean" \/ Diff(y, s) \notin {1, -1} THEN "descent"
       ELSE IF ToFirst(l, y, s, c) = y[seam_a[s]] THEN "wait" ELSE "swap"

Change(l, y, s, c) ==
  Sq(ToFirst(l, y, s, c)) + Sq(ToSecond(l, y, s, c))
    - Sq(y[seam_a[s]]) - Sq(y[seam_b[s]])

\* How much larger p reads than its neighbours, summed over them.
Excess(y, p) == degree[p] * y[p] - SumOver(y, neighbours[p])

\* Faulty variant: the seam itself, which is in both sums, is not put right.
OwnSeamTwice(y, s) ==
  Sq(Diff(y, s)) * (degree[seam_a[s]] + degree[seam_b[s]])
    - 4 * Diff(y, s) * (Excess(y, seam_a[s]) - Excess(y, seam_b[s]))

\* _seam_sum_change, times 4
SeamSumChange(y, s) ==
  Sq(Diff(y, s)) * (degree[seam_a[s]] + degree[seam_b[s]] + 2)
    - 4 * Diff(y, s) * (Excess(y, seam_a[s]) - Excess(y, seam_b[s]))

Raises(l, y, s) == l = "mean" /\ Diff(y, s) # 0 /\ SeamSumChange(y, s) > 0

\* The readings after the attempts of T, all made from y.
After(l, y, T) ==
  [p \in Port |->
     IF \E t \in T : p = seam_a[seq[t]]
     THEN LET t == CHOOSE t \in T : p = seam_a[seq[t]]
          IN  ToFirst(l, y, seq[t], coin[t])
     ELSE IF \E t \in T : p = seam_b[seq[t]]
          THEN LET t == CHOOSE t \in T : p = seam_b[seq[t]]
               IN  ToSecond(l, y, seq[t], coin[t])
          ELSE y[p]]

KindAt(y, t) == Kind(law, y, seq[t], coin[t])
DeltaAt(y, t) ==
  IF KindAt(y, t) = "descent" THEN Change(law, y, seq[t], coin[t]) ELSE 0
RaisesAt(y, t) == Raises(law, y, seq[t])

NumberOf(y, T, k) == Cardinality({t \in T : KindAt(y, t) = k})

NoTally == [waits |-> 0, swaps |-> 0, descents |-> 0, raises |-> 0,
            first_raise |-> 0]

\* The counters after the attempts of T, all made from y.  The first raising
\* move is counted by its attempt since the schedule began.
Counted(ty, y, T) ==
  LET up == {t \in T : RaisesAt(y, t)}
  IN  [waits |-> ty.waits + NumberOf(y, T, "wait"),
       swaps |-> ty.swaps + NumberOf(y, T, "swap"),
       descents |-> ty.descents + NumberOf(y, T, "descent"),
       raises |-> ty.raises + Cardinality(up),
       first_raise |-> IF ty.first_raise = 0 /\ up # {}
                       THEN sweep * Seams + Min(up) ELSE ty.first_raise]

-----------------------------------------------------------------------------
(***************************************************************************)
(* _dependency_layers: an attempt is ready when no earlier attempt of the  *)
(* chunk that is still to be made writes a port it reads.                  *)
(***************************************************************************)
\* Faulty variant: the neighbours are not looked at.
EndsOnly(R) ==
  {t \in R : \A u \in R : u < t => Ends(seq[u]) \cap Ends(seq[t]) = {}}

\* Faulty variant: only the first port of an attempt is looked at.
FirstPortOnly(R) ==
  {t \in R : \A u \in R : u < t => seam_a[seq[t]] \notin Ends(seq[u])}

Ready(R) ==
  {t \in R : \A u \in R : u < t => Ends(seq[u]) \cap Reads(law, seq[t]) = {}}

ChunkFrom(n) == {t \in Attempt : n <= t /\ t < n + chunk}

\* All attempts of the sweep have been made.
Swept ==
  /\ pc = "moves" /\ remaining = {}
  /\ engine = "numpy" => start > Seams

-----------------------------------------------------------------------------
\* Between sweeps the draws are dead.
NoDraws == [t \in Attempt |-> t]
NoCoins == [t \in Attempt |-> FALSE]

Init ==
  /\ law \in Laws
  /\ engine \in {"python", "numpy"}
  /\ chunk \in Chunks
  /\ loads \in Loads
  /\ x = [p \in Port |-> loads[p] * Unit(law)]
  /\ v = V(x)
  /\ tally = NoTally
  /\ sweep = 0
  /\ first_attempt = IF law = "integer" /\ v = v_min THEN 0 ELSE -1
  /\ seq = NoDraws /\ coin = NoCoins
  /\ start = 1 /\ remaining = {} /\ delta = [t \in Attempt |-> 0] /\ first = 0
  /\ origin = [x |-> x, v |-> v, tally |-> tally]
  /\ pc = "loop"

\* The conditions of the while loops of run_integer_law and run_mean_law.
Continue ==
  /\ sweep < MaxSweeps
  /\ IF law = "integer" THEN first_attempt = -1 ELSE Phi(x) >= PhiThreshold

Draw ==
  /\ pc = "loop" /\ Continue
  /\ seq' \in [Attempt -> Seam]
  /\ coin' \in IF law = "integer" THEN [Attempt -> BOOLEAN]
               ELSE {NoCoins}
  /\ start' = 1
  /\ remaining' = IF engine = "numpy" THEN ChunkFrom(1) ELSE Attempt
  /\ pc' = "moves"
  /\ UNCHANGED <<choice, x, v, tally, sweep, first_attempt, delta, first, origin>>

(***************************************************************************)
(* The loop body of the sequential engines.                                *)
(***************************************************************************)
Move ==
  /\ pc = "moves" /\ engine = "python"
  /\ \E t \in remaining :
       /\ \A u \in remaining : t <= u
       /\ x' = After(law, x, {t})
       /\ v' = v + DeltaAt(x, t)
       /\ tally' = Counted(tally, x, {t})
       /\ first' = IF /\ law = "integer" /\ first = 0 /\ v' = v_min
                      /\ KindAt(x, t) # "wait"
                   THEN t ELSE first
       /\ remaining' = remaining \ {t}
  /\ UNCHANGED <<choice, sweep, first_attempt, seq, coin, start, delta,
                 origin, pc>>

(***************************************************************************)
(* One layer of the numpy engines.                                         *)
(***************************************************************************)
Layer ==
  /\ pc = "moves" /\ engine = "numpy" /\ remaining # {}
  /\ LET T == Ready(remaining)
     IN  /\ x' = After(law, x, T)
         /\ delta' = [t \in Attempt |-> IF t \in T THEN DeltaAt(x, t) ELSE delta[t]]
         /\ tally' = Counted(tally, x, T)
         /\ remaining' = remaining \ T
  /\ UNCHANGED <<choice, v, sweep, first_attempt, seq, coin, start, first,
                 origin, pc>>

\* Faulty variant: the attempt itself is left out of its prefix.
Exclusive(t) ==
  v + SumOver(delta, {u \in ChunkFrom(start) : u < t})

\* The cumulative sum of the changes.
Running(t) ==
  v + SumOver(delta, {u \in ChunkFrom(start) : u <= t})

(***************************************************************************)
(* The end of a chunk: the ledger takes the changes in the order of the    *)
(* draws, the first attempt that reaches the minimum is read off it.       *)
(***************************************************************************)
CloseChunk ==
  /\ pc = "moves" /\ engine = "numpy" /\ remaining = {} /\ start <= Seams
  /\ LET hit == {t \in ChunkFrom(start) : Running(t) = v_min}
     IN  first' = IF law = "integer" /\ first = 0 /\ hit # {} THEN Min(hit) ELSE first
  /\ v' = Running(Seams)
  /\ start' = start + chunk
  /\ remaining' = ChunkFrom(start + chunk)
  /\ delta' = [t \in Attempt |-> 0]
  /\ UNCHANGED <<choice, x, tally, sweep, first_attempt, seq, coin, origin, pc>>

CloseSweep ==
  /\ Swept
  /\ first_attempt' = IF first > 0 THEN sweep * Seams + first ELSE first_attempt
  /\ sweep' = sweep + 1
  /\ seq' = NoDraws /\ coin' = NoCoins /\ start' = 1 /\ first' = 0
  /\ origin' = [x |-> x, v |-> v, tally |-> tally]
  /\ pc' = "loop"
  /\ UNCHANGED <<choice, x, v, tally, remaining, delta>>

Stop ==
  /\ pc = "loop" /\ ~Continue
  /\ pc' = "done"
  /\ UNCHANGED <<choice, x, v, tally, sweep, first_attempt, seq, coin, start,
                 remaining, delta, first, origin>>

Next == Draw \/ Move \/ Layer \/ CloseChunk \/ CloseSweep \/ Stop

Spec == Init /\ [][Next]_vars

-----------------------------------------------------------------------------
TallyType == [waits : Nat, swaps : Nat, descents : Nat, raises : Nat,
              first_raise : Nat]

(***************************************************************************)
(* Readings stay between zero and the largest load, so the 64-bit engines  *)
(* and the python engine compute with the same numbers.                    *)
(***************************************************************************)
TypeOK ==
  /\ law \in {"integer", "mean"} /\ engine \in {"python", "numpy"}
  /\ chunk \in Chunks
  /\ loads \in [Port -> 0..MaxLoad]
  /\ x \in [Port -> 0..(MaxLoad * Unit(law))]
  /\ seq \in [Attempt -> Seam] /\ coin \in [Attempt -> BOOLEAN]
  /\ v \in Int /\ tally \in TallyType
  /\ sweep \in Nat /\ first_attempt \in Int
  /\ start \in Nat \ {0} /\ remaining \subseteq Attempt
  /\ engine = "numpy" => remaining \subseteq ChunkFrom(start)
  /\ delta \in [Attempt -> Int] /\ first \in 0..Seams
  /\ origin \in [x : [Port -> 0..(MaxLoad * Unit(law))], v : Int, tally : TallyType]
  /\ pc \in {"loop", "moves", "done"}

(***************************************************************************)
(* No move made ahead of an earlier one of its chunk touches a port that   *)
(* the earlier one reads, or reads one it writes (_dependency_layers:      *)
(* "every earlier conflicting seam has been applied").                     *)
(***************************************************************************)
NoOvertaking ==
  pc = "moves" /\ engine = "numpy" =>
    \A t \in remaining, u \in ChunkFrom(start) \ remaining :
      t < u => /\ Ends(seq[t]) \cap Reads(law, seq[u]) = {}
               /\ Ends(seq[u]) \cap Reads(law, seq[t]) = {}

\* What attempt n of the sweep makes of the state r of a sequential engine.
MoveOn(r, n) ==
  LET w == r.v + DeltaAt(r.x, n)
  IN  [x |-> After(law, r.x, {n}), v |-> w, tally |-> Counted(r.tally, r.x, {n}),
       first |-> IF law = "integer" /\ r.first = 0 /\ w = v_min /\ KindAt(r.x, n) # "wait"
                 THEN n ELSE r.first]

\* The sweep as the sequential engines make it, from the history variable.
SequentialRun ==
  LET run[n \in 0..Seams] ==
        IF n = 0
        THEN [x |-> origin.x, v |-> origin.v, tally |-> origin.tally, first |-> 0]
        ELSE MoveOn(run[n - 1], n)
  IN  run

Sequential == SequentialRun[Seams]

WithoutWitness(ty) == [ty EXCEPT !.first_raise = 0]

(***************************************************************************)
(* Chunks and layers leave the readings, the ledger, the attempt that      *)
(* reached the minimum and the counters that the sequential engines leave  *)
(* (test_engines_are_bit_identical).                                       *)
(***************************************************************************)
EnginesAgree ==
  Swept /\ engine = "numpy" =>
           LET s == Sequential
           IN  /\ x = s.x /\ v = s.v /\ first = s.first
               /\ WithoutWitness(tally) = WithoutWitness(s.tally)

(***************************************************************************)
(* The first raising move is the one the sequential engines report         *)
(* (test_engines_are_bit_identical compares it; the receipt prints it).    *)
(***************************************************************************)
FirstRaiseAgrees ==
  Swept /\ engine = "numpy" => tally.first_raise = Sequential.tally.first_raise

(***************************************************************************)
(* Between sweeps the ledger holds V exactly (descent_ledger_exact).       *)
(***************************************************************************)
LedgerExact == pc # "moves" => v = V(x)

Readings(y, C, n) == Cardinality({p \in C : y[p] = n})

(***************************************************************************)
(* A schedule that has reached the minimum of V ends in the balanced       *)
(* class: every component holds the multiset of readings its total         *)
(* prescribes (expected_integer_quotient_hash), whatever the schedule.     *)
(***************************************************************************)
TerminalIsBalanced ==
  pc = "done" /\ first_attempt >= 0 =>
    \A C \in components :
      LET m == Cardinality(C)
          q == Total(loads, C) \div m
          r == Total(loads, C) % m
      IN  Readings(x, C, q) = m - r /\ Readings(x, C, q + 1) = r

SameReadings(y, z) ==
  \A C \in components : \A n \in 0..MaxLoad : Readings(y, C, n) = Readings(z, C, n)

(***************************************************************************)
(* Every move of the integer law lowers V or permutes the readings of a    *)
(* component, a whole layer at once included.                              *)
(***************************************************************************)
DescendsOrPermutes ==
  [][law = "integer" => V(x') < V(x) \/ SameReadings(x, x')]_x

(***************************************************************************)
(* What the engines count as a raising move is one: the closed form of     *)
(* _seam_sum_change is the change of Phi, seam by seam.                    *)
(***************************************************************************)
PhiChangeExact ==
  law = "mean" /\ pc = "loop" /\ sweep < MaxSweeps =>
    \A s \in Seam :
      LET y == [x EXCEPT ![seam_a[s]] = ToFirst(law, x, s, FALSE),
                         ![seam_b[s]] = ToSecond(law, x, s, FALSE)]
      IN  SeamSumChange(x, s) = 4 * (Phi(y) - Phi(x))

\* The readings one attempt can produce without lowering V.
NeutralMoves(y) ==
  UNION {{[y EXCEPT ![seam_a[s]] = ToFirst("integer", y, s, c),
                    ![seam_b[s]] = ToSecond("integer", y, s, c)] :
            c \in {c \in BOOLEAN : Kind("integer", y, s, c) = "swap"}} : s \in Seam}

(***************************************************************************)
(* A schedule short of the minimum is never stuck: some draws lead, by     *)
(* neutral swaps alone, to a seam whose difference a move lowers.          *)
(***************************************************************************)
NeverStuck ==
  law = "integer" /\ pc = "loop" /\ v # v_min =>
    LET orbit[n \in 0..(2 * Ports)] ==
          IF n = 0 THEN {x}
          ELSE orbit[n - 1] \cup UNION {NeutralMoves(y) : y \in orbit[n - 1]}
    IN  \E y \in orbit[2 * Ports] : \E s \in Seam :
          Kind("integer", y, s, FALSE) = "descent"
=============================================================================
