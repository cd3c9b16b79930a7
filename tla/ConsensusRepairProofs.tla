----------------------- MODULE ConsensusRepairProofs ------------------------
(***************************************************************************)
(* Safety of the consensus transactions for every set of registers,        *)
(* values, clients and drafts, and for every measure and boundary.         *)
(***************************************************************************)
EXTENDS ConsensusRepair, TLAPS

-----------------------------------------------------------------------------
(***************************************************************************)
(* Facts about states and payloads.                                        *)
(***************************************************************************)
LEMMA StateIs ==
  ASSUME NEW s
  PROVE  s \in State <=> DOMAIN s \subseteq Reg /\ s \in [DOMAIN s -> Value]
BY DEF State

LEMMA ApplyType ==
  ASSUME NEW s \in State, NEW p \in State
  PROVE  /\ apply_payload(s, p) \in State
         /\ DOMAIN apply_payload(s, p) = DOMAIN s \cup DOMAIN p
<1>1. DOMAIN s \subseteq Reg /\ s \in [DOMAIN s -> Value]
  BY StateIs
<1>2. DOMAIN p \subseteq Reg /\ p \in [DOMAIN p -> Value]
  BY StateIs
<1>3. DOMAIN apply_payload(s, p) = DOMAIN s \cup DOMAIN p
  BY DEF apply_payload
<1>4. apply_payload(s, p) \in [DOMAIN s \cup DOMAIN p -> Value]
  BY <1>1, <1>2 DEF apply_payload
<1> QED
  BY <1>1, <1>2, <1>3, <1>4 DEF State

(***************************************************************************)
(* Two different conflict components share no transaction, and no member   *)
(* of one conflicts with a member of the other: what of C lies outside D   *)
(* is itself closed under conflicts.                                       *)
(***************************************************************************)
LEMMA ConflictIsSymmetric ==
  ASSUME NEW a, NEW b, transactions_conflict(a, b)
  PROVE  transactions_conflict(b, a)
BY DEF transactions_conflict

LEMMA ComponentIsClosed ==
  ASSUME NEW S, NEW c \in S
  PROVE  /\ Component(c, S) \subseteq S
         /\ c \in Component(c, S)
         /\ ConflictClosed(Component(c, S), S)
<1>1. ASSUME NEW a \in Component(c, S), NEW b \in S, transactions_conflict(a, b)
      PROVE  b \in Component(c, S)
  <2> SUFFICES ASSUME NEW T \in SUBSET S, c \in T, ConflictClosed(T, S)
               PROVE  b \in T
    BY DEF Component
  <2>1. a \in T
    BY DEF Component
  <2> QED
    BY <1>1, <2>1 DEF ConflictClosed
<1> QED
  BY <1>1 DEF Component, ConflictClosed

LEMMA ComponentIsLeast ==
  ASSUME NEW S, NEW c \in S, NEW T \in SUBSET S, c \in T, ConflictClosed(T, S)
  PROVE  Component(c, S) \subseteq T
BY DEF Component

LEMMA SameComponent ==
  ASSUME NEW S, NEW c \in S, NEW b \in Component(c, S)
  PROVE  Component(b, S) = Component(c, S)
<1>1. b \in S
  BY DEF Component
<1> DEFINE B == Component(b, S)
           R == Component(c, S)
<1>2. ConflictClosed(R, S) /\ R \subseteq S
  BY ComponentIsClosed
<1>3. ConflictClosed(B, S) /\ B \subseteq S /\ b \in B
  BY <1>1, ComponentIsClosed
<1>4. B \subseteq R
  BY <1>1, <1>2, ComponentIsLeast
<1>5. c \in B
  <2> SUFFICES ASSUME c \notin B PROVE FALSE
    OBVIOUS
  <2>1. ASSUME NEW x \in R \ B, NEW y \in S, transactions_conflict(x, y)
        PROVE  y \in R \ B
    <3>1. y \in R
      BY <1>2, <2>1 DEF ConflictClosed
    <3>2. y \notin B
      <4> SUFFICES ASSUME y \in B PROVE FALSE
        OBVIOUS
      <4>1. transactions_conflict(y, x)
        BY <2>1, ConflictIsSymmetric
      <4>2. x \in S
        BY <1>2
      <4>3. x \in B
        BY <1>3, <4>1, <4>2 DEF ConflictClosed
      <4> QED
        BY <4>3
    <3> QED
      BY <3>1, <3>2
  <2>2. ConflictClosed(R \ B, S)
    BY <2>1 DEF ConflictClosed
  <2>3. c \in R \ B /\ R \ B \in SUBSET S
    BY <1>2, ComponentIsClosed
  <2>4. R \subseteq R \ B
    BY <2>2, <2>3, ComponentIsLeast
  <2> QED
    BY <1>3, <2>4
<1>6. R \subseteq B
  BY <1>3, <1>5, ComponentIsLeast
<1> QED
  BY <1>4, <1>6

Apart(C, D) == \A a \in C, b \in D : a # b /\ ~transactions_conflict(a, b)

LEMMA ComponentsApart ==
  ASSUME NEW S, NEW C \in conflict_components(S), NEW D \in conflict_components(S),
         C # D
  PROVE  Apart(C, D)
<1>1. PICK c \in S : C = Component(c, S)
  BY DEF conflict_components
<1>2. PICK d \in S : D = Component(d, S)
  BY DEF conflict_components
<1>3. ASSUME NEW a \in C, a \in D
      PROVE  FALSE
  BY <1>1, <1>2, <1>3, SameComponent
<1>4. ASSUME NEW a \in C, NEW b \in D, transactions_conflict(a, b)
      PROVE  FALSE
  <2>1. ConflictClosed(C, S) /\ D \subseteq S
    BY <1>1, <1>2, ComponentIsClosed
  <2>2. b \in C
    BY <1>4, <2>1 DEF ConflictClosed
  <2> QED
    BY <2>2, <1>3
<1> QED
  BY <1>3, <1>4 DEF Apart

-----------------------------------------------------------------------------
(***************************************************************************)
(* The aggregate of a component of held transactions is a payload.         *)
(***************************************************************************)
LEMMA AggregateType ==
  ASSUME NEW C, \A c \in C : tx[c].payload \in State
  PROVE  /\ aggregate_payload(C) \in State
         /\ DOMAIN aggregate_payload(C) = aggregate_writes(C)
<1>1. DOMAIN aggregate_payload(C) = aggregate_writes(C)
  BY DEF aggregate_payload
<1>2. \A c \in C : write_set(c) \subseteq Reg
  BY StateIs DEF write_set
<1>3. aggregate_writes(C) \subseteq Reg
  BY <1>2 DEF aggregate_writes
<1>4. ASSUME NEW k \in aggregate_writes(C)
      PROVE  aggregate_payload(C)[k] \in Value
  <2>1. PICK b \in C : k \in write_set(b)
    BY DEF aggregate_writes
  <2> DEFINE w == CHOOSE c \in C : k \in write_set(c)
  <2>2. w \in C /\ k \in write_set(w)
    BY <2>1
  <2>3. tx[w].payload[k] \in Value
    BY <2>2, StateIs DEF write_set
  <2> QED
    BY <2>3 DEF aggregate_payload
<1>5. aggregate_payload(C) \in [aggregate_writes(C) -> Value]
  BY <1>4 DEF aggregate_payload
<1> QED
  BY <1>1, <1>3, <1>5 DEF State

(***************************************************************************)
(* Compatible writes: the aggregate gives every member what it asked for.  *)
(***************************************************************************)
LEMMA AggregateAgrees ==
  ASSUME NEW C, compatible_writes(C), NEW c \in C, NEW k \in write_set(c)
  PROVE  k \in aggregate_writes(C) /\ aggregate_payload(C)[k] = tx[c].payload[k]
<1>1. k \in aggregate_writes(C)
  BY DEF aggregate_writes
<1> DEFINE w == CHOOSE b \in C : k \in write_set(b)
<1>2. w \in C /\ k \in write_set(w)
  OBVIOUS
<1>3. tx[w].payload[k] = tx[c].payload[k]
  BY <1>2 DEF compatible_writes
<1> QED
  BY <1>1, <1>3 DEF aggregate_payload

(***************************************************************************)
(* What the type invariant says of a held transaction.                     *)
(***************************************************************************)
Held == active => \A c \in members : tx[c] # NoTx

LEMMA PreparedType ==
  ASSUME TypeOK, NEW d \in Draft, d.reads \subseteq DOMAIN state,
         NEW v \in {NoVersions, versions}
  PROVE  IsTransaction(prepare_transaction(d, v))
<1> DEFINE t == prepare_transaction(d, v)
<1>1. DOMAIN state \subseteq Reg /\ state \in [DOMAIN state -> Value]
  BY StateIs DEF TypeOK
<1>2. t.snapshot \in [d.reads -> Value] /\ DOMAIN t.snapshot = d.reads
  BY <1>1 DEF prepare_transaction
<1>3. t.snapshot \in State
  BY <1>1, <1>2 DEF State
<1>4. t.payload \in State
  BY DraftAssumption DEF prepare_transaction
<1>5. DOMAIN t.read_versions \in {{}, d.reads}
  BY DEF prepare_transaction
<1>6. t.read_versions \in [DOMAIN t.read_versions -> Nat]
  <2>1. CASE v = NoVersions
    BY <2>1 DEF prepare_transaction
  <2>2. CASE v # NoVersions
    BY <2>2, <1>1 DEF prepare_transaction, TypeOK, Versions
  <2> QED
    BY <2>1, <2>2
<1> QED
  BY <1>2, <1>3, <1>4, <1>5, <1>6 DEF IsTransaction

LEMMA AdoptType ==
  ASSUME versions \in Versions, NEW s, NEW W, NEW by, Adopt(s, W, by)
  PROVE  versions' \in Versions
BY DEF Adopt, Versions

(***************************************************************************)
(* Type correctness, with the fact that a running batch serves held        *)
(* transactions.                                                           *)
(***************************************************************************)
LEMMA TypeInductive == TypeOK /\ Held /\ [Next]_vars => TypeOK' /\ Held'
<1> SUFFICES ASSUME TypeOK, Held, [Next]_vars
             PROVE  TypeOK' /\ Held'
  OBVIOUS
<1>1. ASSUME NEW d \in Draft, NEW v \in {NoVersions, versions}, Prepare(d, v)
      PROVE  TypeOK' /\ Held'
  <2>1. IsTransaction(prepare_transaction(d, v))
    BY <1>1, PreparedType DEF Prepare
  <2>2. d.tx_id \in Client
    BY DraftAssumption
  <2>3. DOMAIN tx' = Client /\ \A c \in Client : tx'[c] = NoTx \/ IsTransaction(tx'[c])
    BY <1>1, <2>1, <2>2 DEF Prepare, TypeOK
  <2>4. TypeOK'
    BY <1>1, <2>3 DEF Prepare, TypeOK, call, IsTransaction
  <2> QED
    BY <1>1, <2>4 DEF Prepare, Held, call
<1>2. ASSUME NEW c \in Client, NEW v \in {NoVersions, versions}, Commit(c, v)
      PROVE  TypeOK' /\ Held'
  <2>1. tx[c].payload \in State
    BY <1>2 DEF Commit, TypeOK, IsTransaction
  <2>2. state' \in State
    BY <1>2, <2>1, ApplyType DEF Commit, Adopt, TypeOK
  <2>3. versions' \in Versions
    BY <1>2, AdoptType DEF Commit, TypeOK
  <2>4. delivered' \subseteq Client
    BY <1>2 DEF Commit, Adopt, TypeOK
  <2> QED
    BY <1>2, <2>2, <2>3, <2>4 DEF Commit, TypeOK, Held, call, IsTransaction
<1>3. ASSUME NEW S \in SUBSET Client, NEW v \in {NoVersions, versions}, StartBatch(S, v)
      PROVE  TypeOK' /\ Held'
  <2>1. conflict_components(S) \subseteq SUBSET S
    BY ComponentIsClosed DEF conflict_components
  <2>2. clean' \in BOOLEAN
    BY <1>3 DEF StartBatch
  <2>3. v \in Versions \cup {NoVersions}
    BY DEF TypeOK
  <2> QED
    BY <1>3, <2>1, <2>2, <2>3 DEF StartBatch, TypeOK, Held, store, IsTransaction
<1>4. ASSUME NEW C \in todo, SkipComponent(C)
      PROVE  TypeOK' /\ Held'
  BY <1>4 DEF SkipComponent, TypeOK, Held, store, call, IsTransaction
<1>5. ASSUME NEW C \in todo, CommitComponent(C)
      PROVE  TypeOK' /\ Held'
  <2>1. \A c \in C : tx[c].payload \in State
    BY <1>5 DEF CommitComponent, TypeOK, Held, IsTransaction
  <2>2. current' \in State
    BY <1>5, <2>1, AggregateType, ApplyType DEF CommitComponent, TypeOK
  <2> QED
    BY <1>5, <2>2 DEF CommitComponent, TypeOK, Held, store, call, IsTransaction
<1>6. ASSUME NEW C \in todo, RaiseMissing(C)
      PROVE  TypeOK' /\ Held'
  BY <1>6, InitAssumption DEF RaiseMissing, Return, TypeOK, Held, store, IsTransaction
<1>7. ASSUME FinishBatch
      PROVE  TypeOK' /\ Held'
  <2>1. state' \in State /\ versions' \in Versions /\ delivered' \subseteq Client
    BY <1>7, AdoptType DEF FinishBatch, Adopt, TypeOK
  <2> QED
    BY <1>7, <2>1, InitAssumption DEF FinishBatch, Return, TypeOK, Held, IsTransaction
<1>8. ASSUME UNCHANGED vars
      PROVE  TypeOK' /\ Held'
  BY <1>8 DEF vars, TypeOK, Held, IsTransaction
<1> QED
  BY <1>1, <1>2, <1>3, <1>4, <1>5, <1>6, <1>7, <1>8 DEF Next

LEMMA TypeInitial == Init => TypeOK /\ Held
<1> SUFFICES ASSUME Init PROVE TypeOK /\ Held
  OBVIOUS
<1>1. versions \in Versions
  BY DEF Init, Versions
<1>2. DOMAIN tx = Client /\ \A c \in Client : tx[c] = NoTx
  BY DEF Init
<1> QED
  BY <1>1, <1>2, InitAssumption DEF Init, TypeOK, Held

(***************************************************************************)
(* Whatever clients prepare, commit and batch, states remain states and    *)
(* the running batch serves well-formed transactions.                      *)
(***************************************************************************)
THEOREM ConsensusTypes == Spec => []TypeOK
<1>1. Spec => [](TypeOK /\ Held)
  BY TypeInitial, TypeInductive, PTL DEF Spec
<1> QED
  BY <1>1, PTL

-----------------------------------------------------------------------------
(***************************************************************************)
(* What holds of a running batch.  Components still to be served are apart *)
(* from each other and from what has been committed; the copy differs from *)
(* the state only where a committed member writes, and there it holds what *)
(* the member asked for.                                                   *)
(***************************************************************************)
ComponentsSeparate ==
  /\ \A C \in todo : Apart(committed, C)
  /\ \A C, D \in todo : C # D => Apart(C, D)

CopyIsStatePlusCommitted ==
  /\ DOMAIN current = DOMAIN state
  /\ \A k \in DOMAIN state : k \notin aggregate_writes(committed) => current[k] = state[k]
  /\ \A c \in committed : \A k \in write_set(c) :
       k \in DOMAIN current /\ current[k] = tx[c].payload[k]

CleanMeansComplete == clean => members \subseteq committed \cup UNION todo

CommittedWereFresh ==
  /\ supplied \in {NoVersions, versions}
  /\ \A c \in committed : freshness(state, tx[c], supplied) = "FRESH"

CopyDescends ==
  current # state => Measure(current) < Measure(state) /\ Boundary(current) = Boundary(state)

BatchInv ==
  active => /\ ComponentsSeparate
            /\ CopyIsStatePlusCommitted
            /\ CleanMeansComplete
            /\ CommittedWereFresh
            /\ CopyDescends

(***************************************************************************)
(* Committing leaves the freshness of everything else alone.               *)
(***************************************************************************)
LEMMA FreshnessUntouched ==
  ASSUME NEW C \in todo, NEW c \in C,
         ComponentsSeparate, CopyIsStatePlusCommitted
  PROVE  freshness(current, tx[c], supplied) = freshness(state, tx[c], supplied)
<1>1. ASSUME NEW k \in DOMAIN tx[c].snapshot
      PROVE  k \notin aggregate_writes(committed)
  <2> SUFFICES ASSUME NEW b \in committed, k \in write_set(b)
               PROVE  FALSE
    BY DEF aggregate_writes
  <2>1. transactions_conflict(b, c)
    BY DEF transactions_conflict, read_set
  <2> QED
    BY <2>1 DEF ComponentsSeparate, Apart
<1>2. \A k \in DOMAIN tx[c].snapshot :
        (k \notin DOMAIN current \/ current[k] # tx[c].snapshot[k])
          <=> (k \notin DOMAIN state \/ state[k] # tx[c].snapshot[k])
  BY <1>1 DEF CopyIsStatePlusCommitted
<1>3. (\E k \in DOMAIN tx[c].snapshot :
         k \notin DOMAIN current \/ current[k] # tx[c].snapshot[k])
        <=> (\E k \in DOMAIN tx[c].snapshot :
               k \notin DOMAIN state \/ state[k] # tx[c].snapshot[k])
  BY <1>2
<1> QED
  BY <1>3, Zenon DEF freshness

LEMMA BatchStarts ==
  ASSUME TypeOK, NEW S \in SUBSET Client, NEW v \in {NoVersions, versions},
         StartBatch(S, v)
  PROVE  BatchInv'
<1>1. /\ todo' = conflict_components(S) /\ committed' = {} /\ current' = state
      /\ supplied' = v /\ members' = S /\ state' = state /\ tx' = tx /\ versions' = versions
  BY DEF StartBatch, store
<1>2. \A a, b : transactions_conflict(a, b)' <=> transactions_conflict(a, b)
  BY <1>1 DEF transactions_conflict, read_set, write_set
<1>3. ComponentsSeparate'
  <2>1. ASSUME NEW C \in conflict_components(S), NEW D \in conflict_components(S), C # D
        PROVE  \A a \in C, b \in D : a # b /\ ~transactions_conflict(a, b)
    BY <2>1, ComponentsApart DEF Apart
  <2> QED
    BY <1>1, <1>2, <2>1 DEF ComponentsSeparate, Apart
<1>4. CopyIsStatePlusCommitted'
  BY <1>1 DEF CopyIsStatePlusCommitted
<1>5. CleanMeansComplete'
  <2>1. \A c \in S : c \in Component(c, S)
    BY ComponentIsClosed
  <2> QED
    BY <1>1, <2>1 DEF CleanMeansComplete, conflict_components
<1>6. CommittedWereFresh' /\ CopyDescends'
  BY <1>1 DEF CommittedWereFresh, CopyDescends
<1> QED
  BY <1>3, <1>4, <1>5, <1>6 DEF BatchInv

LEMMA BatchSkips ==
  ASSUME TypeOK, BatchInv, NEW C \in todo, SkipComponent(C)
  PROVE  BatchInv'
<1>1. /\ todo' \subseteq todo /\ clean' = FALSE
      /\ UNCHANGED <<state, versions, tx, active, members, supplied, current, committed>>
  BY DEF SkipComponent, store, call
<1>2. active
  BY DEF SkipComponent
<1>3. ComponentsSeparate'
  BY <1>1, <1>2 DEF BatchInv, ComponentsSeparate, Apart, transactions_conflict, read_set, write_set
<1>4. CopyIsStatePlusCommitted'
  BY <1>1, <1>2 DEF BatchInv, CopyIsStatePlusCommitted, aggregate_writes, write_set
<1>5. CleanMeansComplete'
  BY <1>1 DEF CleanMeansComplete
<1>6. CommittedWereFresh'
  BY <1>1, <1>2 DEF BatchInv, CommittedWereFresh, freshness
<1>7. CopyDescends'
  BY <1>1, <1>2 DEF BatchInv, CopyDescends
<1> QED
  BY <1>3, <1>4, <1>5, <1>6, <1>7 DEF BatchInv

LEMMA BatchCommits ==
  ASSUME TypeOK, Held, BatchInv, NEW C \in todo, CommitComponent(C)
  PROVE  BatchInv'
<1> DEFINE p == aggregate_payload(C)
<1>1. /\ todo' = todo \ {C} /\ committed' = committed \cup C
      /\ current' = apply_payload(current, p)
      /\ UNCHANGED <<state, versions, tx, active, members, supplied, clean>>
  BY DEF CommitComponent, store, call
<1>2. /\ active /\ compatible_writes(C) /\ ~Stale(C) /\ Accepts(current, p)
      /\ aggregate_reads(C) \subseteq DOMAIN current
  BY DEF CommitComponent
<1>3. /\ ComponentsSeparate /\ CopyIsStatePlusCommitted /\ CleanMeansComplete
      /\ CommittedWereFresh /\ CopyDescends
  BY <1>2 DEF BatchInv
<1>4. /\ \A a, b : transactions_conflict(a, b)' <=> transactions_conflict(a, b)
      /\ \A c : write_set(c)' = write_set(c)
  BY <1>1 DEF transactions_conflict, read_set, write_set
<1>5. ComponentsSeparate'
  BY <1>1, <1>3, <1>4 DEF ComponentsSeparate, Apart
<1>6. p \in State /\ DOMAIN p = aggregate_writes(C)
  <2>1. \A c \in C : tx[c].payload \in State
    BY <1>2 DEF TypeOK, Held, IsTransaction
  <2> QED
    BY <2>1, AggregateType
<1>7. /\ DOMAIN current' = DOMAIN current
      /\ \A k \in DOMAIN current : current'[k] = IF k \in aggregate_writes(C) THEN p[k] ELSE current[k]
  <2>1. aggregate_writes(C) \subseteq DOMAIN current
    BY <1>2 DEF aggregate_reads
  <2>2. DOMAIN current' = DOMAIN current \cup aggregate_writes(C)
    BY <1>1, <1>6 DEF apply_payload
  <2> QED
    BY <1>1, <1>6, <2>1, <2>2 DEF apply_payload
<1>8. aggregate_writes(committed)' = aggregate_writes(committed) \cup aggregate_writes(C)
  BY <1>1, <1>4 DEF aggregate_writes
<1>9. CopyIsStatePlusCommitted'
  <2>1. DOMAIN current' = DOMAIN state'
    BY <1>1, <1>3, <1>7 DEF CopyIsStatePlusCommitted
  <2>2. \A k \in DOMAIN state' : k \notin aggregate_writes(committed)' => current'[k] = state'[k]
    BY <1>1, <1>3, <1>7, <1>8 DEF CopyIsStatePlusCommitted
  <2>3. ASSUME NEW c \in C, NEW k \in write_set(c)
        PROVE  k \in DOMAIN current' /\ current'[k] = tx[c].payload[k]
    <3>1. k \in aggregate_writes(C) /\ p[k] = tx[c].payload[k]
      BY <1>2, AggregateAgrees
    <3>2. k \in DOMAIN current
      BY <1>2, <3>1 DEF aggregate_reads
    <3> QED
      BY <1>7, <3>1, <3>2
  <2>4. ASSUME NEW c \in committed, NEW k \in write_set(c)
        PROVE  k \in DOMAIN current' /\ current'[k] = tx[c].payload[k]
    <3>1. k \notin aggregate_writes(C)
      <4> SUFFICES ASSUME NEW b \in C, k \in write_set(b)
                   PROVE  FALSE
        BY DEF aggregate_writes
      <4>1. transactions_conflict(c, b)
        BY DEF transactions_conflict
      <4> QED
        BY <1>3, <4>1 DEF ComponentsSeparate, Apart
    <3>2. k \in DOMAIN current /\ current[k] = tx[c].payload[k]
      BY <1>3 DEF CopyIsStatePlusCommitted
    <3> QED
      BY <1>7, <3>1, <3>2
  <2> QED
    BY <1>1, <1>4, <2>1, <2>2, <2>3, <2>4 DEF CopyIsStatePlusCommitted
<1>10. CleanMeansComplete'
  BY <1>1, <1>3 DEF CleanMeansComplete
<1>11. CommittedWereFresh'
  <2>1. \A c \in C : freshness(current, tx[c], supplied) = "FRESH"
    BY <1>2 DEF Stale
  <2>2. \A c \in C : freshness(state, tx[c], supplied) = "FRESH"
    BY <1>3, <2>1, FreshnessUntouched
  <2>3. \A c : freshness(state, tx[c], supplied)' = freshness(state, tx[c], supplied)
    BY <1>1 DEF freshness
  <2> QED
    BY <1>1, <1>3, <2>2, <2>3 DEF CommittedWereFresh
<1>12. CopyDescends'
  <2>1. Measure(current') < Measure(current) /\ Boundary(current') = Boundary(current)
    BY <1>1, <1>2 DEF Accepts
  <2>2. current' \in State
    BY <1>1, <1>6, ApplyType DEF TypeOK
  <2>3. Measure(current) \in Int /\ Measure(current') \in Int /\ Measure(state) \in Int
    BY <2>2, MeasureAssumption DEF TypeOK
  <2>4. Measure(current') < Measure(state) /\ Boundary(current') = Boundary(state)
    BY <1>3, <2>1, <2>3 DEF CopyDescends
  <2> QED
    BY <1>1, <2>4 DEF CopyDescends
<1> QED
  BY <1>5, <1>9, <1>10, <1>11, <1>12 DEF BatchInv

ConsensusInv == TypeOK /\ Held /\ BatchInv

LEMMA BatchInductive == ConsensusInv /\ [Next]_vars => ConsensusInv'
<1> SUFFICES ASSUME ConsensusInv, [Next]_vars
             PROVE  ConsensusInv'
  OBVIOUS
<1>1. TypeOK /\ Held /\ BatchInv /\ TypeOK' /\ Held'
  BY TypeInductive DEF ConsensusInv
<1>2. ASSUME NEW d \in Draft, NEW v \in {NoVersions, versions}, Prepare(d, v)
      PROVE  BatchInv'
  BY <1>2 DEF Prepare, BatchInv, call
<1>3. ASSUME NEW c \in Client, NEW v \in {NoVersions, versions}, Commit(c, v)
      PROVE  BatchInv'
  BY <1>3 DEF Commit, BatchInv, call
<1>4. ASSUME NEW S \in SUBSET Client, NEW v \in {NoVersions, versions}, StartBatch(S, v)
      PROVE  BatchInv'
  BY <1>1, <1>4, BatchStarts
<1>5. ASSUME NEW C \in todo, SkipComponent(C) \/ CommitComponent(C) \/ RaiseMissing(C)
      PROVE  BatchInv'
  <2>1. CASE SkipComponent(C)
    BY <1>1, <2>1, BatchSkips
  <2>2. CASE CommitComponent(C)
    BY <1>1, <2>2, BatchCommits
  <2>3. CASE RaiseMissing(C)
    BY <2>3 DEF RaiseMissing, Return, BatchInv
  <2> QED
    BY <1>5, <2>1, <2>2, <2>3
<1>6. ASSUME FinishBatch
      PROVE  BatchInv'
  BY <1>6 DEF FinishBatch, Return, BatchInv
<1>7. ASSUME UNCHANGED vars
      PROVE  BatchInv'
  <2>1. UNCHANGED <<state, versions, tx, active, members, supplied, todo, current, committed, clean>>
    BY <1>7 DEF vars
  <2>2. ComponentsSeparate => ComponentsSeparate'
    BY <2>1 DEF ComponentsSeparate, Apart, transactions_conflict, read_set, write_set
  <2>3. CopyIsStatePlusCommitted => CopyIsStatePlusCommitted'
    BY <2>1 DEF CopyIsStatePlusCommitted, aggregate_writes, write_set
  <2>4. CleanMeansComplete => CleanMeansComplete'
    BY <2>1 DEF CleanMeansComplete
  <2>5. CommittedWereFresh => CommittedWereFresh'
    BY <2>1 DEF CommittedWereFresh, freshness
  <2>6. CopyDescends => CopyDescends'
    BY <2>1 DEF CopyDescends
  <2> QED
    BY <1>1, <2>1, <2>2, <2>3, <2>4, <2>5, <2>6 DEF BatchInv
<1>8. BatchInv'
  BY <1>2, <1>3, <1>4, <1>5, <1>6, <1>7 DEF Next
<1> QED
  BY <1>1, <1>8 DEF ConsensusInv

LEMMA ConsensusInvariant == Spec => []ConsensusInv
<1>1. Init => ConsensusInv
  BY TypeInitial DEF Init, ConsensusInv, BatchInv
<1> QED
  BY <1>1, BatchInductive, PTL DEF Spec

(***************************************************************************)
(* The order in which a batch serves its components is irrelevant to the   *)
(* freshness of their members.                                             *)
(***************************************************************************)
THEOREM NoLaundering == Spec => []FreshnessIgnoresOrder
<1>1. ConsensusInv => FreshnessIgnoresOrder
  BY FreshnessUntouched DEF ConsensusInv, BatchInv, FreshnessIgnoresOrder
<1> QED
  BY <1>1, ConsensusInvariant, PTL

(***************************************************************************)
(* An atomic-commit receipt vouches for every payload of the batch.        *)
(***************************************************************************)
THEOREM ReceiptIsTruthful == Spec => []ReceiptMeansApplied
<1>1. ConsensusInv => ReceiptMeansApplied
  <2> SUFFICES ASSUME ConsensusInv, active, todo = {}, clean,
                      NEW c \in members, NEW k \in write_set(c)
               PROVE  k \in DOMAIN current /\ current[k] = tx[c].payload[k]
    BY DEF ReceiptMeansApplied
  <2>1. CleanMeansComplete /\ CopyIsStatePlusCommitted
    BY DEF ConsensusInv, BatchInv
  <2>2. c \in committed
    BY <2>1 DEF CleanMeansComplete
  <2> QED
    BY <2>1, <2>2 DEF CopyIsStatePlusCommitted
<1> QED
  BY <1>1, ConsensusInvariant, PTL

(***************************************************************************)
(* Every change of the shared state lowers the measure and keeps the       *)
(* boundary, however many aggregates a batch has committed.                *)
(***************************************************************************)
THEOREM StateOnlyDescends == Spec => DescentWithinBoundary
<1> DEFINE Down == state' # state => /\ Measure(state') < Measure(state)
                                     /\ Boundary(state') = Boundary(state)
<1>1. ConsensusInv /\ [Next]_vars => Down
  <2> SUFFICES ASSUME ConsensusInv, [Next]_vars, state' # state
               PROVE  /\ Measure(state') < Measure(state)
                      /\ Boundary(state') = Boundary(state)
    OBVIOUS
  <2>1. CASE \E c \in Client, v \in {NoVersions, versions} : Commit(c, v)
    BY <2>1 DEF Commit, Adopt, Accepts
  <2>2. CASE FinishBatch
    BY <2>2 DEF FinishBatch, Adopt, ConsensusInv, BatchInv, CopyDescends
  <2>3. CASE \E d \in Draft, v \in {NoVersions, versions} : Prepare(d, v)
    BY <2>3 DEF Prepare
  <2>4. CASE \E S \in SUBSET Client, v \in {NoVersions, versions} : StartBatch(S, v)
    BY <2>4 DEF StartBatch, store
  <2>5. CASE \E C \in todo : SkipComponent(C) \/ CommitComponent(C) \/ RaiseMissing(C)
    BY <2>5 DEF SkipComponent, CommitComponent, RaiseMissing, store
  <2>6. CASE UNCHANGED vars
    BY <2>6 DEF vars
  <2> QED
    BY <2>1, <2>2, <2>3, <2>4, <2>5, <2>6 DEF Next
<1>2. Spec => [][Down]_vars
  BY <1>1, ConsensusInvariant, PTL DEF Spec
<1> QED
  BY <1>2 DEF DescentWithinBoundary

-----------------------------------------------------------------------------
(***************************************************************************)
(* A delivered transaction has left a version behind in every register     *)
(* that it reads and writes.                                               *)
(***************************************************************************)
MovedOn(c) ==
  /\ tx[c] # NoTx
  /\ \A k \in write_set(c) \cap DOMAIN tx[c].read_versions :
       tx[c].read_versions[k] < versions[k]

VersionsMovedOn == \A c \in delivered : MovedOn(c)

LEMMA FreshVersions ==
  ASSUME NEW s, NEW t, NEW v, freshness(s, t, v) = "FRESH", DOMAIN t.read_versions # {}
  PROVE  v # NoVersions /\ \A k \in DOMAIN t.read_versions : v[k] = t.read_versions[k]
BY DEF freshness

LEMMA AdoptMovesOn ==
  ASSUME TypeOK, VersionsMovedOn, UNCHANGED tx, NEW s, NEW W, NEW by \in SUBSET Client,
         Adopt(s, W, by), NEW v \in {NoVersions, versions},
         \A c \in by : /\ freshness(state, tx[c], v) = "FRESH"
                      /\ tx[c] # NoTx
                      /\ write_set(c) \subseteq W
  PROVE  VersionsMovedOn'
<1> SUFFICES ASSUME NEW c \in delivered'
             PROVE  MovedOn(c)'
  BY DEF VersionsMovedOn
<1>1. c \in Client /\ tx[c] # NoTx /\ (c \in by \/ MovedOn(c))
  BY DEF TypeOK, Adopt, VersionsMovedOn, MovedOn
<1>2. IsTransaction(tx[c])
  BY <1>1 DEF TypeOK
<1>3. ASSUME NEW k \in write_set(c) \cap DOMAIN tx[c].read_versions
      PROVE  tx[c].read_versions[k] < versions'[k]
  <2>1. k \in Reg
    BY <1>2, StateIs DEF IsTransaction, write_set
  <2>2. versions[k] \in Nat /\ tx[c].read_versions[k] \in Nat
    BY <1>2, <2>1 DEF TypeOK, Versions, IsTransaction
  <2>3. versions'[k] = IF k \in W THEN versions[k] + 1 ELSE versions[k]
    BY <2>1 DEF Adopt
  <2>4. CASE c \in by
    <3>1. v = versions /\ v[k] = tx[c].read_versions[k]
      BY <2>4, FreshVersions
    <3>2. k \in W
      BY <2>4
    <3> QED
      BY <2>2, <2>3, <3>1, <3>2
  <2>5. CASE MovedOn(c)
    BY <2>2, <2>3, <2>5 DEF MovedOn
  <2> QED
    BY <1>1, <2>4, <2>5
<1> QED
  BY <1>1, <1>3 DEF MovedOn, write_set

LEMMA VersionsInductive ==
  ConsensusInv /\ VersionsMovedOn /\ [Next]_vars => VersionsMovedOn'
<1> SUFFICES ASSUME ConsensusInv, VersionsMovedOn, [Next]_vars
             PROVE  VersionsMovedOn'
  OBVIOUS
<1>1. TypeOK /\ Held /\ BatchInv
  BY DEF ConsensusInv
<1>2. ASSUME UNCHANGED <<versions, tx, delivered>>
      PROVE  VersionsMovedOn'
  BY <1>2 DEF VersionsMovedOn, MovedOn, write_set
<1>3. ASSUME NEW d \in Draft, NEW v \in {NoVersions, versions}, Prepare(d, v)
      PROVE  VersionsMovedOn'
  <2> SUFFICES ASSUME NEW c \in delivered'
               PROVE  MovedOn(c)'
    BY DEF VersionsMovedOn
  <2>1. c \in delivered /\ c # d.tx_id /\ versions' = versions
    BY <1>3 DEF Prepare
  <2>2. tx'[c] = tx[c]
    BY <1>1, <1>3, <2>1 DEF Prepare, TypeOK
  <2> QED
    BY <2>1, <2>2 DEF VersionsMovedOn, MovedOn, write_set
<1>4. ASSUME NEW c \in Client, NEW v \in {NoVersions, versions}, Commit(c, v)
      PROVE  VersionsMovedOn'
  <2>1. Adopt(apply_payload(state, tx[c].payload), write_set(c), {c}) /\ UNCHANGED tx
    BY <1>4 DEF Commit
  <2>2. freshness(state, tx[c], v) = "FRESH" /\ tx[c] # NoTx
    BY <1>4 DEF Commit
  <2> QED
    BY <1>1, <2>1, <2>2, AdoptMovesOn
<1>5. ASSUME FinishBatch
      PROVE  VersionsMovedOn'
  <2>1. Adopt(current, aggregate_writes(committed), committed) /\ UNCHANGED tx /\ active
    BY <1>5 DEF FinishBatch
  <2>2. committed \in SUBSET Client
    BY <1>1 DEF TypeOK
  <2>3. supplied \in {NoVersions, versions}
    BY <1>1, <2>1 DEF BatchInv, CommittedWereFresh
  <2>4. \A c \in committed : freshness(state, tx[c], supplied) = "FRESH"
    BY <1>1, <2>1 DEF BatchInv, CommittedWereFresh
  <2>5. \A c \in committed : tx[c] # NoTx
    BY <1>1, <2>1 DEF TypeOK, Held
  <2>6. \A c \in committed : write_set(c) \subseteq aggregate_writes(committed)
    BY DEF aggregate_writes
  <2> QED
    BY <1>1, <2>1, <2>2, <2>3, <2>4, <2>5, <2>6, AdoptMovesOn
<1>6. ASSUME NEW S \in SUBSET Client, NEW v \in {NoVersions, versions}, StartBatch(S, v)
      PROVE  VersionsMovedOn'
  BY <1>2, <1>6 DEF StartBatch, store
<1>7. ASSUME NEW C \in todo, SkipComponent(C) \/ CommitComponent(C) \/ RaiseMissing(C)
      PROVE  VersionsMovedOn'
  BY <1>2, <1>7 DEF SkipComponent, CommitComponent, RaiseMissing, store
<1> QED
  BY <1>2, <1>3, <1>4, <1>5, <1>6, <1>7 DEF Next, vars

(***************************************************************************)
(* A transaction with read versions that reads what it writes takes effect *)
(* once, however often it is delivered and whatever values come back.      *)
(***************************************************************************)
THEOREM CommittedOnce == Spec => []RedeliveryIsRefused
<1>1. Init => VersionsMovedOn
  BY DEF Init, VersionsMovedOn
<1>2. VersionsMovedOn /\ TypeOK => RedeliveryIsRefused
  <2> SUFFICES ASSUME VersionsMovedOn, TypeOK, NEW c \in delivered,
                      NEW k \in write_set(c) \cap DOMAIN tx[c].read_versions
               PROVE  /\ freshness(state, tx[c], versions) # "FRESH"
                      /\ freshness(state, tx[c], NoVersions) # "FRESH"
    BY DEF RedeliveryIsRefused
  <2>1. MovedOn(c) /\ c \in Client
    BY DEF VersionsMovedOn, TypeOK
  <2>2. IsTransaction(tx[c])
    BY <2>1 DEF TypeOK, MovedOn
  <2>3. k \in Reg
    BY <2>2, StateIs DEF IsTransaction, write_set
  <2>4. versions[k] \in Nat /\ tx[c].read_versions[k] \in Nat
    BY <2>2, <2>3 DEF TypeOK, Versions, IsTransaction
  <2>5. versions[k] # tx[c].read_versions[k]
    BY <2>1, <2>4 DEF MovedOn
  <2>6. freshness(state, tx[c], versions) # "FRESH"
    BY <2>5, FreshVersions
  <2>7. freshness(state, tx[c], NoVersions) # "FRESH"
    BY FreshVersions
  <2> QED
    BY <2>6, <2>7
<1>3. ConsensusInv => TypeOK
  BY DEF ConsensusInv
<1> QED
  BY <1>1, <1>2, <1>3, ConsensusInvariant, VersionsInductive, PTL DEF Spec
=============================================================================
