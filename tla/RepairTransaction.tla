------------------------- MODULE RepairTransaction --------------------------
(***************************************************************************)
(* TransactionalRepairEngine of oph_fpe/repair/transaction.py: an          *)
(* in-memory register store with optimistic concurrency.  Clients prepare  *)
(* proposals against the current state (a snapshot of the declared read    *)
(* set, the updates a recovery map computed, the reads it was observed to  *)
(* make), and submit them later, alone or in batches.  The engine          *)
(* re-evaluates a whole conflict component against the state of that       *)
(* moment and commits it atomically or not at all; a commit can be rolled  *)
(* back while its exact post-state is current.                             *)
(*                                                                         *)
(* Hashes are the values they digest.  A batch is one call of the engine,  *)
(* yet its components are committed one after another and an evaluator     *)
(* that raises cuts it short, so each component is a step of its own and   *)
(* no other call starts while a batch is running.                          *)
(***************************************************************************)
EXTENDS RepairContract

CONSTANTS
  MaxVersion,         \* bound on register versions
  NoProposal          \* a client that holds no proposal

ASSUME MaxVersionAssumption == MaxVersion \in Nat

VARIABLES
  state,       \* _state
  versions,    \* _versions
  archives,    \* _archives, by commit id
  proposals,   \* the proposal each client holds
  batch,       \* components a running commit_batch has still to commit
  batchStart,  \* history: state and versions when commit_batch was called
  touched      \* history: registers changed since each proposal was prepared

vars == <<state, versions, archives, proposals, batch, batchStart, touched>>

-----------------------------------------------------------------------------
(***************************************************************************)
(* Proposals and conflict components.                                      *)
(***************************************************************************)
Capture(d) ==
  [r \in d.declared |-> [value |-> state[r], version |-> versions[r]]]

prepare_proposal(d) ==
  [draft |-> d, snapshot |-> Capture(d), observed |-> Observed(d, state),
   updates |-> Recover(d, state), inverse |-> InverseUpdates(d, state)]

draft(c) == proposals[c].draft
declared_read_set(c) == draft(c).declared
write_set(c) == DOMAIN proposals[c].updates
Holders == {c \in Client : proposals[c] # NoProposal}

\* Faulty variant: a conflict is a write-write overlap only.
WriteWriteConflict(b, c) == write_set(b) \cap write_set(c) # {}

proposals_conflict(b, c) ==
  \/ write_set(b) \cap (declared_read_set(c) \cup write_set(c)) # {}
  \/ write_set(c) \cap (declared_read_set(b) \cup write_set(b)) # {}

(***************************************************************************)
(* The connected component of c: what every conflict-closed part of S that *)
(* holds c also holds.                                                     *)
(***************************************************************************)
ConflictClosed(T, S) ==
  \A b \in T, c \in S : proposals_conflict(b, c) => c \in T

Component(c, S) ==
  {b \in S : \A T \in SUBSET S : c \in T /\ ConflictClosed(T, S) => b \in T}

UniqueIds(S) == \A b, c \in S : draft(b).id = draft(c).id => b = c

FirstMember(S) == CHOOSE b \in S : \A c \in S : draft(b).id <= draft(c).id

conflict_components(S) == {Component(c, S) : c \in S}

(***************************************************************************)
(* Components are committed in the order of their smallest proposal id.    *)
(***************************************************************************)
NextInOrder(C, comps) ==
  \A D \in comps : draft(FirstMember(C)).id <= draft(FirstMember(D)).id

-----------------------------------------------------------------------------
(***************************************************************************)
(* _evaluate_component: the named checks, each a predicate of the          *)
(* component C, the state s and the versions v it is evaluated against.    *)
(***************************************************************************)
WriteSet(C) == UNION {write_set(c) : c \in C}
ReadSet(C) == UNION {declared_read_set(c) : c \in C}

UnionCollar(C) == CollarUnion({draft(c) : c \in C})

\* Faulty variant: undeclared reads of the recovery are ignored.
RequiredReadsOnly(C) ==
  \A c \in C :
    RequiredReads(draft(c).collar, write_set(c)) \subseteq declared_read_set(c)

\* Faulty variant: registers a proposal writes need not be declared.
ObservedReadsOnly(C) ==
  \A c \in C : proposals[c].observed \subseteq declared_read_set(c)

complete_read_set(C) ==
  \A c \in C :
    /\ RequiredReads(draft(c).collar, write_set(c)) \subseteq declared_read_set(c)
    /\ proposals[c].observed \subseteq declared_read_set(c)
    /\ DOMAIN proposals[c].snapshot = declared_read_set(c)

\* Faulty variant: snapshot values are compared, versions are not.
SnapshotValuesCurrent(C, s, v) ==
  \A c \in C : \A r \in DOMAIN proposals[c].snapshot :
    r \in DOMAIN s /\ s[r] = proposals[c].snapshot[r].value

snapshot_current(C, s, v) ==
  \A c \in C : \A r \in DOMAIN proposals[c].snapshot :
    /\ r \in DOMAIN s
    /\ v[r] = proposals[c].snapshot[r].version
    /\ s[r] = proposals[c].snapshot[r].value

write_locality(C) ==
  \A c \in C : write_set(c) \subseteq draft(c).collar.writable_registers

target_free_source(C) == \A c \in C : ~draft(c).leaks

conflict_component_support(C) ==
  /\ UniqueIds(C)
  /\ Component(FirstMember(C), C) = C

Kind(C) == draft(FirstMember(C)).kind
single_transition_kind(C) == \A c \in C : draft(c).kind = Kind(C)

UpdatesOf(C) == {proposals[c].updates : c \in C}
InversesOf(C) == {proposals[c].inverse : c \in C}

compatible_component_writes(C) == Compatible(UpdatesOf(C))

PostState(C, s) ==
  IF compatible_component_writes(C) THEN Override(s, Combined(UpdatesOf(C))) ELSE s

unlisted_registers_unchanged(C, s) ==
  changed_registers(s, PostState(C, s)) \subseteq WriteSet(C)

protected_boundary_preserved(C, s) ==
  ProtectedPreserved(Kind(C), UnionCollar(C), s, PostState(C, s))

\* Faulty variant: each member's own updates are tested, not their union.
MemberSectorPreserved(C, s) ==
  \A c \in C :
    Preserved(draft(c).collar.sector_registers, s, Override(s, proposals[c].updates))

sector_preserved(C, s) ==
  Preserved(UnionCollar(C).sector_registers, s, PostState(C, s))

ScoreReadsOf(C, s) ==
  ScoreReads(s, UnionCollar(C)) \cup ScoreReads(PostState(C, s), UnionCollar(C))

mismatch_read_trace_complete(C, s) == ScoreReadsOf(C, s) \subseteq ReadSet(C)

(***************************************************************************)
(* Reversible kinds must also come with the exact inverse: applied to the  *)
(* candidate it gives back the whole state.                                *)
(***************************************************************************)
ExactInverse(C, s) ==
  /\ Compatible(InversesOf(C))
  /\ Override(PostState(C, s), Combined(InversesOf(C))) = s

transition_contract(C, s) ==
  /\ TransitionLaw(Kind(C), UnionCollar(C), s, PostState(C, s))
  /\ Kind(C) \in {"REVERSIBLE_PROPAGATION", "GAUGE_STUTTER"} => ExactInverse(C, s)

(***************************************************************************)
(* atomic_union_revalidated, hence ProposalValidation.admissible: every    *)
(* check passed.  The evaluator runs only for one kind and compatible      *)
(* writes.                                                                 *)
(***************************************************************************)
EvaluatorRuns(C) == single_transition_kind(C) /\ compatible_component_writes(C)

Admissible(C, s, v) ==
  /\ UniqueIds(C)
  /\ complete_read_set(C)
  /\ snapshot_current(C, s, v)
  /\ write_locality(C)
  /\ target_free_source(C)
  /\ conflict_component_support(C)
  /\ EvaluatorRuns(C)
  /\ unlisted_registers_unchanged(C, s)
  /\ protected_boundary_preserved(C, s)
  /\ sector_preserved(C, s)
  /\ mismatch_read_trace_complete(C, s)
  /\ transition_contract(C, s)

-----------------------------------------------------------------------------
(***************************************************************************)
(* State changes.  A register's version moves when its value does.         *)
(***************************************************************************)
Bump(v, changed) == [r \in Reg |-> IF r \in changed THEN v[r] + 1 ELSE v[r]]

Install(t) ==
  LET changed == changed_registers(state, t)
  IN  /\ \A r \in Reg : r \in changed => versions[r] < MaxVersion
      /\ state' = t
      /\ versions' = Bump(versions, changed)
      /\ touched' = [c \in Client |-> touched[c] \cup changed]

(***************************************************************************)
(* transition_event_id: proposals, kind, endpoints and footprint, but no   *)
(* versions.  commit_id digests the whole receipt, versions included.      *)
(***************************************************************************)
EmitsTransitionEvent(C) ==
  /\ \A c \in C : ~draft(c).diagnostic
  /\ Kind(C) \in {"STRICT_REPAIR", "RECORD_COMMIT"}

Ids(C) == {draft(c).id : c \in C}

Receipt(C) ==
  [proposal_ids |-> Ids(C), kind |-> Kind(C),
   pre |-> state, post |-> PostState(C, state),
   versions_before |-> versions,
   versions_after |-> Bump(versions, changed_registers(state, PostState(C, state))),
   event |-> EmitsTransitionEvent(C)]

\* Faulty variant: the commit id does not digest the register versions.
UnversionedId(receipt) ==
  [receipt EXCEPT !.versions_before = [r \in Reg |-> 0],
                  !.versions_after = [r \in Reg |-> 0]]

commit_id(receipt) == receipt

Archive(C) ==
  LET receipt == Receipt(C)
      id == commit_id(receipt)
  IN  archives' = [k \in DOMAIN archives \cup {id} |->
                     IF k = id THEN [pre |-> receipt.pre, post |-> receipt.post]
                     ELSE archives[k]]

commit_component(C) ==
  \/ /\ Admissible(C, state, versions)
     /\ Install(PostState(C, state))
     /\ Archive(C)
  \/ /\ ~Admissible(C, state, versions)
     /\ UNCHANGED <<state, versions, archives, touched>>

-----------------------------------------------------------------------------
(***************************************************************************)
(* The engine's calls.                                                     *)
(***************************************************************************)
NoBatch == [state |-> InitState, versions |-> [r \in Reg |-> 0]]

Init ==
  /\ state = InitState
  /\ versions = [r \in Reg |-> 0]
  /\ archives = << >>
  /\ proposals = [c \in Client |-> NoProposal]
  /\ batch = {}
  /\ batchStart = NoBatch
  /\ touched = [c \in Client |-> {}]

Idle == batch = {}

(***************************************************************************)
(* Snapshot.capture raises KeyError for a register the engine lacks.       *)
(***************************************************************************)
Prepare(c, d) ==
  /\ Idle
  /\ d.declared \subseteq Reg
  /\ proposals' = [proposals EXCEPT ![c] = prepare_proposal(d)]
  /\ touched' = [touched EXCEPT ![c] = {}]
  /\ UNCHANGED <<state, versions, archives, batch, batchStart>>

Commit(c) ==
  /\ Idle
  /\ c \in Holders
  /\ commit_component({c})
  /\ UNCHANGED <<proposals, batch, batchStart>>

(***************************************************************************)
(* commit_batch refuses duplicate proposal ids with ValueError.            *)
(***************************************************************************)
CommitBatch(S) ==
  /\ Idle
  /\ S # {} /\ S \subseteq Holders
  /\ UniqueIds(S)
  /\ batch' = conflict_components(S)
  /\ batchStart' = [state |-> state, versions |-> versions]
  /\ UNCHANGED <<state, versions, archives, proposals, touched>>

(***************************************************************************)
(* The generator's next component.  After the last one the call returns.   *)
(***************************************************************************)
BatchStep(C) ==
  /\ NextInOrder(C, batch)
  /\ commit_component(C)
  /\ batch' = batch \ {C}
  /\ batchStart' = IF batch' = {} THEN NoBatch ELSE batchStart
  /\ UNCHANGED proposals

(***************************************************************************)
(* The evaluator raises on the next component: the exception leaves        *)
(* commit_batch, what was committed before stays committed.                *)
(***************************************************************************)
BatchRaise(C) ==
  /\ NextInOrder(C, batch)
  /\ EvaluatorRuns(C)
  /\ batch' = {}
  /\ batchStart' = NoBatch
  /\ UNCHANGED <<state, versions, archives, proposals, touched>>

(***************************************************************************)
(* The archived pre-state comes back when the archived post-state is       *)
(* current; the archive stays, and the rollback is not archived itself.    *)
(***************************************************************************)
Rollback(id) ==
  /\ Idle
  /\ id \in DOMAIN archives
  /\ state = archives[id].post
  /\ Install(archives[id].pre)
  /\ UNCHANGED <<archives, proposals, batch, batchStart>>

Next ==
  \/ \E c \in Client, d \in Draft : Prepare(c, d)
  \/ \E c \in Client : Commit(c)
  \/ \E S \in SUBSET Client : CommitBatch(S)
  \/ \E C \in batch : BatchStep(C) \/ BatchRaise(C)
  \/ \E id \in DOMAIN archives : Rollback(id)

Spec == Init /\ [][Next]_vars

-----------------------------------------------------------------------------
(***************************************************************************)
(* Properties.                                                             *)
(***************************************************************************)
IsProposal(p) ==
  /\ p.draft \in Draft
  /\ p.draft.declared \subseteq Reg
  /\ p.snapshot \in [p.draft.declared -> [value : Value, version : 0..MaxVersion]]
  /\ p.observed \subseteq Reg
  /\ IsUpdates(p.updates)
  /\ IsUpdates(p.inverse)

Versions == [Reg -> Nat]

(***************************************************************************)
(* The engine's registers are fixed at construction: no commit adds one    *)
(* (a recovery may write any name) and no rollback drops one.              *)
(***************************************************************************)
TypeOK ==
  /\ state \in State
  /\ versions \in [Reg -> 0..MaxVersion]
  /\ \A id \in DOMAIN archives : /\ archives[id].pre \in State
                                 /\ archives[id].post \in State
                                 /\ id.versions_before \in Versions
  /\ DOMAIN proposals = Client
  /\ \A c \in Holders : IsProposal(proposals[c])
  /\ batch \subseteq (SUBSET Holders) \ {{}}
  /\ batchStart \in [state : State, versions : Versions]
  /\ touched \in [Client -> SUBSET Reg]

(***************************************************************************)
(* Freshness is about history, not content: a proposal whose snapshot      *)
(* passes snapshot_current has seen none of its declared registers change  *)
(* since it was prepared, not even away and back again through a rollback  *)
(* or an inverse propagation (transaction.py:2533).                        *)
(***************************************************************************)
FreshMeansUntouched ==
  \A c \in Holders :
    snapshot_current({c}, state, versions) =>
      touched[c] \cap declared_read_set(c) = {}

(***************************************************************************)
(* Strict serializability: a proposal that passes the read-set and the     *)
(* freshness check carries exactly the updates its recovery map would      *)
(* compute now, whatever was committed or rolled back since it ran.        *)
(***************************************************************************)
FreshMeansRerun ==
  \A c \in Holders :
    complete_read_set({c}) /\ snapshot_current({c}, state, versions) =>
      proposals[c].updates = Recover(draft(c), state)

(***************************************************************************)
(* A batch decides each of its components as if it had been assessed       *)
(* against the state the batch was called on: no component's fate depends  *)
(* on the components committed before it (commit_batch, disjoint           *)
(* footprints commute).  It holds as long as the registers of an inverse   *)
(* are declared: required_reads leaves them out (transaction.py:2498), yet *)
(* the exact-inverse test compares them with the current state, so that a  *)
(* wider inverse gives a component a dependency the conflict graph lacks.  *)
(***************************************************************************)
BatchDecisionsCommute ==
  \A C \in batch :
    Admissible(C, state, versions) <=>
      Admissible(C, batchStart.state, batchStart.versions)

(***************************************************************************)
(* No admitted component changes a register that one of its members        *)
(* protects, unless that member itself declares the register as its        *)
(* record ("protected-field changes ... abort").  In a component of record *)
(* commits the exemption is taken from the union collar                    *)
(* (transaction.py:2659), so one member's record lifts another member's    *)
(* protection.                                                             *)
(***************************************************************************)
EachBoundaryKept ==
  \A C \in (SUBSET Holders) \ {{}} :
    Admissible(C, state, versions) =>
      \A c \in C :
        LET k == draft(c).collar
        IN  Preserved(k.protected_boundary \ k.record_registers,
                      state, PostState(C, state))

(***************************************************************************)
(* Every commit gets a commit id no earlier commit had, so no archive      *)
(* entry, the only way back, is ever overwritten, although a rollback      *)
(* brings back old states and old proposals can be prepared again.         *)
(***************************************************************************)
CommitsAreArchived ==
  [][state' # state =>
       \/ \E id \in DOMAIN archives' \ DOMAIN archives :
             archives'[id] = [pre |-> state, post |-> state']
       \/ \E id \in DOMAIN archives :
             archives[id] = [pre |-> state', post |-> state]]_vars

(***************************************************************************)
(* The engine implements AtomicRepair: every commit, single or in a batch, *)
(* is equivalent to running the recoveries and installing their union at   *)
(* the commit instant, and every rollback takes back an archived commit.   *)
(***************************************************************************)
Atomic == INSTANCE AtomicRepair WITH
            done <- {<<archives[id].pre, archives[id].post>> : id \in DOMAIN archives}

ImplementsAtomicRepair == Atomic!Spec

-----------------------------------------------------------------------------
(***************************************************************************)
(* The inductive strengthening the proofs rest on.                         *)
(***************************************************************************)
(***************************************************************************)
(* A version only moves forward, and a version that has not moved since a  *)
(* snapshot was taken vouches for the value and for the whole time since.  *)
(***************************************************************************)
VersionsVouch ==
  \A c \in Holders : \A r \in declared_read_set(c) :
    LET snap == proposals[c].snapshot[r]
    IN  /\ snap.version <= versions[r]
        /\ snap.version = versions[r] => /\ r \notin touched[c]
                                         /\ snap.value = state[r]

(***************************************************************************)
(* A proposal was computed in one state, of which it keeps the snapshot.   *)
(***************************************************************************)
ProposalsHaveASource ==
  \A c \in Holders : \E s \in State :
    /\ proposals[c].updates = Recover(draft(c), s)
    /\ proposals[c].observed = Observed(draft(c), s)
    /\ \A r \in declared_read_set(c) : proposals[c].snapshot[r].value = s[r]

(***************************************************************************)
(* Some register has moved on since every archived commit began.           *)
(***************************************************************************)
ArchiveIsPast ==
  \A id \in DOMAIN archives :
    /\ archives[id] = [pre |-> id.pre, post |-> id.post]
    /\ \A r \in Reg : id.versions_before[r] <= versions[r]
    /\ \E r \in Reg : id.versions_before[r] < versions[r]

HistoryInv == VersionsVouch /\ ProposalsHaveASource /\ ArchiveIsPast
=============================================================================
