-------------------------- MODULE ConsensusRepair ---------------------------
(***************************************************************************)
(* Value-checked repair transactions on a shared quotient state            *)
(* (consensus/transactional_repair.py).  Clients prepare transactions from *)
(* the state they see, keep them, and later commit them one by one or hand *)
(* a set of them to transactional_repair_receipt, which replaces every     *)
(* conflict component by one aggregate transaction and commits these in    *)
(* turn on a copy of the state.  The functions return states and never     *)
(* write one: that the caller adopts a committed state, and counts the     *)
(* version of every register written, is external.                         *)
(***************************************************************************)
EXTENDS Integers

CONSTANTS
  Reg,           \* names of registers, in the state or not
  Value,
  Client,        \* clients, as transaction ids; a batch is served in their order
  Draft,         \* what is prepared: a transaction id, a read set, a payload
  InitState,
  Measure(_),    \* the measure of a state
  Boundary(_),   \* protected boundary and sector data of a state
  NoTx,          \* the client holds no transaction
  NoVersions     \* a call without a version map

State == UNION {[S -> Value] : S \in SUBSET Reg}

ASSUME ClientAssumption == Client \subseteq Int
ASSUME DraftAssumption ==
  \A d \in Draft : d.tx_id \in Client /\ d.reads \subseteq Reg /\ d.payload \in State
ASSUME InitAssumption == InitState \in State
ASSUME MeasureAssumption == \A s \in State : Measure(s) \in Int

VARIABLES
  state,       \* the state the callers share
  versions,    \* register -> how often it was written
  tx,          \* client -> its prepared transaction
  delivered,   \* history: clients whose transaction has been committed
  active,      \* transactional_repair_receipt is running
  members,     \* the transactions handed to it
  supplied,    \* the version map handed to it
  todo,        \* conflict components it has not served
  current,     \* its copy of the state
  committed,   \* the members whose components it has committed
  clean        \* all components served so far have been committed

vars == <<state, versions, tx, delivered, active, members, supplied, todo,
          current, committed, clean>>

store == <<state, versions, delivered>>
call == <<active, members, supplied>>

-----------------------------------------------------------------------------
read_set(c) == DOMAIN tx[c].snapshot
write_set(c) == DOMAIN tx[c].payload

Versions == [Reg -> Nat]

prepare_transaction(d, v) ==
  [snapshot |-> [k \in d.reads |-> state[k]],
   payload |-> d.payload,
   read_versions |-> [k \in IF v = NoVersions THEN {} ELSE d.reads |-> v[k]]]

apply_payload(s, p) ==
  [k \in DOMAIN s \cup DOMAIN p |-> IF k \in DOMAIN p THEN p[k] ELSE s[k]]

\* Faulty variant: snapshot values are compared, read versions are not.
ValuesOnly(s, t, v) ==
  IF DOMAIN t.read_versions # {} /\ v = NoVersions THEN "MISSING_READ_VERSIONS"
  ELSE IF \E k \in DOMAIN t.snapshot : k \notin DOMAIN s \/ s[k] # t.snapshot[k]
       THEN "STALE_SNAPSHOT"
       ELSE "FRESH"

freshness(s, t, v) ==
  IF DOMAIN t.read_versions # {} /\ v = NoVersions THEN "MISSING_READ_VERSIONS"
  ELSE IF \E k \in DOMAIN t.read_versions : v[k] # t.read_versions[k]
       THEN "STALE_READ_VERSION"
       ELSE IF \E k \in DOMAIN t.snapshot : k \notin DOMAIN s \/ s[k] # t.snapshot[k]
            THEN "STALE_SNAPSHOT"
            ELSE "FRESH"

\* Faulty variant: the boundary may move.
DescentOnly(s, p) == Measure(apply_payload(s, p)) < Measure(s)

(***************************************************************************)
(* The checks of commit_transaction that follow freshness.                 *)
(***************************************************************************)
Accepts(s, p) ==
  /\ Boundary(apply_payload(s, p)) = Boundary(s)
  /\ Measure(apply_payload(s, p)) < Measure(s)

-----------------------------------------------------------------------------
(***************************************************************************)
(* Conflict components and their aggregates.                               *)
(***************************************************************************)
\* Faulty variant: reading what another writes is no conflict.
WritersConflict(a, b) == write_set(a) \cap write_set(b) # {}

transactions_conflict(a, b) ==
  \/ write_set(a) \cap (read_set(b) \cup write_set(b)) # {}
  \/ write_set(b) \cap (read_set(a) \cup write_set(a)) # {}

ConflictClosed(T, S) == \A a \in T, b \in S : transactions_conflict(a, b) => b \in T

Component(c, S) ==
  {b \in S : \A T \in SUBSET S : c \in T /\ ConflictClosed(T, S) => b \in T}

conflict_components(S) == {Component(c, S) : c \in S}

NextInOrder(C) == \E c \in C : \A D \in todo : \A b \in D : c <= b

\* Faulty variant: the last writer of a register wins.
LastWriterWins(C) == TRUE

compatible_writes(C) ==
  \A a, b \in C : \A k \in write_set(a) \cap write_set(b) :
    tx[a].payload[k] = tx[b].payload[k]

aggregate_writes(C) == UNION {write_set(c) : c \in C}
aggregate_reads(C) == (UNION {read_set(c) : c \in C}) \cup aggregate_writes(C)

aggregate_payload(C) ==
  [k \in aggregate_writes(C) |-> tx[CHOOSE c \in C : k \in write_set(c)].payload[k]]

-----------------------------------------------------------------------------
Init ==
  /\ state = InitState
  /\ versions = [k \in Reg |-> 0]
  /\ tx = [c \in Client |-> NoTx]
  /\ delivered = {}
  /\ active = FALSE /\ members = {} /\ supplied = NoVersions
  /\ todo = {} /\ current = InitState /\ committed = {} /\ clean = FALSE

\* Faulty variant: one call's committed transactions are still there in the next.
ReturnUncleared ==
  /\ active' = FALSE /\ members' = {} /\ supplied' = NoVersions
  /\ todo' = {} /\ current' = InitState /\ UNCHANGED committed /\ clean' = FALSE

(***************************************************************************)
(* The local variables of the call end with it.                            *)
(***************************************************************************)
Return ==
  /\ active' = FALSE /\ members' = {} /\ supplied' = NoVersions
  /\ todo' = {} /\ current' = InitState /\ committed' = {} /\ clean' = FALSE

(***************************************************************************)
(* A missing read register or an empty payload raises.                     *)
(***************************************************************************)
Prepare(d, v) ==
  /\ ~active
  /\ d.reads \subseteq DOMAIN state
  /\ DOMAIN d.payload # {}
  /\ tx' = [tx EXCEPT ![d.tx_id] = prepare_transaction(d, v)]
  /\ delivered' = delivered \ {d.tx_id}
  /\ UNCHANGED <<state, versions, call, todo, current, committed, clean>>

(***************************************************************************)
(* The caller adopts a committed state (external).                         *)
(***************************************************************************)
Adopt(s, W, by) ==
  /\ state' = s
  /\ versions' = [k \in Reg |-> IF k \in W THEN versions[k] + 1 ELSE versions[k]]
  /\ delivered' = delivered \cup by

(***************************************************************************)
(* commit_transaction; in every other case it returns the state it got.    *)
(***************************************************************************)
Commit(c, v) ==
  /\ ~active
  /\ tx[c] # NoTx
  /\ freshness(state, tx[c], v) = "FRESH"
  /\ Accepts(state, tx[c].payload)
  /\ Adopt(apply_payload(state, tx[c].payload), write_set(c), {c})
  /\ UNCHANGED <<tx, call, todo, current, committed, clean>>

(***************************************************************************)
(* transactional_repair_receipt.                                           *)
(***************************************************************************)
StartBatch(S, v) ==
  /\ ~active
  /\ \A c \in S : tx[c] # NoTx
  /\ active' = TRUE
  /\ members' = S
  /\ supplied' = v
  /\ todo' = conflict_components(S)
  /\ current' = state
  /\ committed' = {}
  /\ clean' = (S # {})
  /\ UNCHANGED <<store, tx>>

Stale(C) == \E c \in C : freshness(current, tx[c], supplied) # "FRESH"

(***************************************************************************)
(* A component with a stale member or with incompatible writes, and an     *)
(* aggregate that commit_transaction refuses: the next one is served.      *)
(***************************************************************************)
SkipComponent(C) ==
  /\ active /\ C \in todo /\ NextInOrder(C)
  /\ \/ Stale(C) \/ ~compatible_writes(C)
     \/ /\ aggregate_reads(C) \subseteq DOMAIN current
        /\ ~Accepts(current, aggregate_payload(C))
  /\ todo' = todo \ {C}
  /\ clean' = FALSE
  /\ UNCHANGED <<store, tx, call, current, committed>>

CommitComponent(C) ==
  /\ active /\ C \in todo /\ NextInOrder(C)
  /\ ~Stale(C) /\ compatible_writes(C)
  /\ aggregate_reads(C) \subseteq DOMAIN current
  /\ Accepts(current, aggregate_payload(C))
  /\ todo' = todo \ {C}
  /\ current' = apply_payload(current, aggregate_payload(C))
  /\ committed' = committed \cup C
  /\ UNCHANGED <<store, tx, call, clean>>

(***************************************************************************)
(* The aggregate reads what it writes; a register that some member creates *)
(* is missing, and the KeyError of prepare_transaction leaves the call.    *)
(***************************************************************************)
RaiseMissing(C) ==
  /\ active /\ C \in todo /\ NextInOrder(C)
  /\ ~Stale(C) /\ compatible_writes(C)
  /\ ~(aggregate_reads(C) \subseteq DOMAIN current)
  /\ Return
  /\ UNCHANGED <<store, tx>>

FinishBatch ==
  /\ active /\ todo = {}
  /\ Adopt(current, aggregate_writes(committed), committed)
  /\ Return
  /\ UNCHANGED tx

Next ==
  \/ \E d \in Draft, v \in {NoVersions, versions} : Prepare(d, v)
  \/ \E c \in Client, v \in {NoVersions, versions} : Commit(c, v)
  \/ \E S \in SUBSET Client, v \in {NoVersions, versions} : StartBatch(S, v)
  \/ \E C \in todo : SkipComponent(C) \/ CommitComponent(C) \/ RaiseMissing(C)
  \/ FinishBatch

Spec == Init /\ [][Next]_vars

-----------------------------------------------------------------------------
IsTransaction(t) ==
  /\ t.snapshot \in State /\ t.payload \in State
  /\ t.read_versions \in [DOMAIN t.read_versions -> Nat]
  /\ DOMAIN t.read_versions \in {{}, DOMAIN t.snapshot}

(***************************************************************************)
(* States are states, held transactions are well formed, and the running   *)
(* batch serves held transactions.                                         *)
(***************************************************************************)
TypeOK ==
  /\ state \in State /\ current \in State
  /\ versions \in Versions
  /\ DOMAIN tx = Client /\ \A c \in Client : tx[c] = NoTx \/ IsTransaction(tx[c])
  /\ delivered \subseteq Client /\ members \subseteq Client /\ committed \subseteq members
  /\ todo \subseteq SUBSET members
  /\ active \in BOOLEAN /\ clean \in BOOLEAN
  /\ supplied \in Versions \cup {NoVersions}

(***************************************************************************)
(* The order in which the components of a batch are served decides nothing *)
(* about freshness: a member still to be served is as fresh on the copy as *)
(* it is in the state the call was given.  So a stale primitive cannot be  *)
(* laundered by an earlier aggregate, and a fresh one is not spoiled.      *)
(***************************************************************************)
FreshnessIgnoresOrder ==
  active => \A C \in todo : \A c \in C :
    freshness(current, tx[c], supplied) = freshness(state, tx[c], supplied)

(***************************************************************************)
(* SEAM_ATOMIC_COMMIT_RECEIPT: when all components have been committed,    *)
(* every payload of every member is in force in the final state, whatever  *)
(* else was written.                                                       *)
(***************************************************************************)
ReceiptMeansApplied ==
  active /\ todo = {} /\ clean =>
    \A c \in members : \A k \in write_set(c) :
      k \in DOMAIN current /\ current[k] = tx[c].payload[k]

(***************************************************************************)
(* The shared state changes only downhill and within one boundary, whether *)
(* one transaction or a batch of aggregates moves it.                      *)
(***************************************************************************)
DescentWithinBoundary ==
  [][state' # state => /\ Measure(state') < Measure(state)
                       /\ Boundary(state') = Boundary(state)]_vars

(***************************************************************************)
(* A transaction that carries read versions and reads a register it writes *)
(* is committed at most once: delivered again it is refused, with a        *)
(* version map and without, even if the old values have come back.         *)
(***************************************************************************)
RedeliveryIsRefused ==
  \A c \in delivered :
    write_set(c) \cap DOMAIN tx[c].read_versions # {} =>
      /\ freshness(state, tx[c], versions) # "FRESH"
      /\ freshness(state, tx[c], NoVersions) # "FRESH"
=============================================================================
