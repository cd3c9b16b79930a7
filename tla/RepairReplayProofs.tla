------------------------- MODULE RepairReplayProofs -------------------------
(***************************************************************************)
(* The receipts of the transactional repair engine, for every store and    *)
(* every history: they describe the store, the receipts of commits pass    *)
(* the self-consistency diagnostic, and a fresh engine that is given the   *)
(* inputs of a committed component issues the same receipt.                *)
(***************************************************************************)
EXTENDS RepairReplay, RepairTransactionProofs, WellFoundedInduction

-----------------------------------------------------------------------------
(***************************************************************************)
(* The engine that issues receipts is the engine.                          *)
(***************************************************************************)
LEMMA ReplayStep ==
  ASSUME [ReplayNext]_replayVars
  PROVE  [Next]_vars
BY DEF ReplayNext, replayVars, Next, vars, PrepareDraft, CommitProposal, StartBatch,
       CommitNext, AbortBatch, RollbackCommit, RefuseRollback

LEMMA ReplayIsEngine == ReplaySpec => Spec
<1>1. ReplayInit => Init
  BY DEF ReplayInit
<1>2. [ReplayNext]_replayVars => [Next]_vars
  BY ReplayStep
<1> QED
  BY <1>1, <1>2, PTL DEF ReplaySpec, Spec

(***************************************************************************)
(* commit_batch refuses duplicate ids, so no component has any.            *)
(***************************************************************************)
BatchIdsUnique == \A C \in batch : UniqueIds(C)

LEMMA BatchIdsStep ==
  ASSUME BatchIdsUnique, [Next]_vars
  PROVE  BatchIdsUnique'
<1>1. ASSUME NEW S \in SUBSET Client, CommitBatch(S) PROVE BatchIdsUnique'
  <2>1. UniqueIds(S) /\ batch' = {Component(c, S) : c \in S} /\ UNCHANGED proposals
    BY <1>1 DEF CommitBatch, conflict_components
  <2>2. \A C \in batch' : C \subseteq S
    BY <2>1 DEF Component
  <2> QED
    BY <2>1, <2>2 DEF BatchIdsUnique, UniqueIds, draft
<1>2. ASSUME batch' \subseteq batch, UNCHANGED proposals PROVE BatchIdsUnique'
  BY <1>2 DEF BatchIdsUnique, UniqueIds, draft
<1>3. ASSUME batch' = {} PROVE BatchIdsUnique'
  BY <1>3 DEF BatchIdsUnique
<1> QED
  BY <1>1, <1>2, <1>3
     DEF Next, vars, Prepare, Commit, BatchStep, BatchRaise, Rollback, Idle

(***************************************************************************)
(* A step that issues the receipt of component C, or of a rollback, or     *)
(* leaves receipt and store as they are.                                   *)
(***************************************************************************)
Issues(C) ==
  /\ C \in SUBSET Holders /\ C # {} /\ UniqueIds(C)
  /\ commit_component(C)
  /\ Submit(C)

RollsBack(id) ==
  /\ \/ id \in DOMAIN archives /\ state = archives[id].post /\ Install(archives[id].pre)
     \/ ~(id \in DOMAIN archives /\ state = archives[id].post) /\ UNCHANGED <<state, versions>>
  /\ issued' = RollbackReceipt(id)

LEMMA ReceiptCases ==
  ASSUME TypeOK, BatchIdsUnique, [ReplayNext]_replayVars
  PROVE  \/ \E C \in SUBSET Holders : Issues(C)
         \/ \E id : RollsBack(id)
         \/ UNCHANGED <<state, versions, issued, submitted>>
<1>1. ASSUME NEW c \in Client, CommitProposal(c) PROVE Issues({c})
  BY <1>1 DEF CommitProposal, Commit, Issues, UniqueIds
<1>2. ASSUME NEW C \in batch, CommitNext(C) PROVE Issues(C)
  BY <1>2 DEF CommitNext, BatchStep, Issues, BatchIdsUnique, TypeOK
<1>3. ASSUME NEW id, RollbackCommit(id) PROVE RollsBack(id)
  BY <1>3 DEF RollbackCommit, Rollback, RollsBack
<1>4. ASSUME NEW id, RefuseRollback(id) PROVE RollsBack(id)
  BY <1>4 DEF RefuseRollback, RollsBack, vars
<1>5. ASSUME NEW c \in Client, NEW d \in Draft, PrepareDraft(c, d)
      PROVE  UNCHANGED <<state, versions, issued, submitted>>
  BY <1>5 DEF PrepareDraft, Prepare
<1>6. ASSUME NEW S \in SUBSET Client, StartBatch(S)
      PROVE  UNCHANGED <<state, versions, issued, submitted>>
  BY <1>6 DEF StartBatch, CommitBatch
<1>7. ASSUME NEW C \in batch, AbortBatch(C)
      PROVE  UNCHANGED <<state, versions, issued, submitted>>
  BY <1>7 DEF AbortBatch, BatchRaise
<1>8. \A c \in Client : CommitProposal(c) => {c} \in SUBSET Holders
  BY DEF CommitProposal, Commit
<1>9. \A C \in batch : C \in SUBSET Holders
  BY DEF TypeOK
<1> QED
  BY <1>1, <1>2, <1>3, <1>4, <1>5, <1>6, <1>7, <1>8, <1>9 DEF ReplayNext, replayVars

-----------------------------------------------------------------------------
(***************************************************************************)
(* The fields of the receipt of a component.                               *)
(***************************************************************************)
LEMMA ReceiptFields ==
  ASSUME NEW C
  PROVE  LET r == CommitReceipt(C)
             fps == [i \in Ids(C) |-> Footprint(WithId(C, i))]
         IN  /\ r.proposal_ids = Ids(C) /\ r.transition_kind = Kind(C)
             /\ r.diagnostic_only = (\E c \in C : draft(c).diagnostic)
             /\ r.checks = Checks(C)
             /\ r.committed = Admissible(C, state, versions)
             /\ r.pre_state = state /\ r.post_state = StateAfter(C)
             /\ r.mismatch_before = LedgerOf(C, state)
             /\ r.mismatch_after = LedgerOf(C, PostState(C, state))
             /\ r.snapshots = [i \in Ids(C) |-> proposals[WithId(C, i)].snapshot]
             /\ r.footprints = fps
             /\ r.read_set = ReadSet(C) /\ r.write_set = WriteSet(C)
             /\ r.versions_before = versions
             /\ r.versions_after =
                  Bump(versions, changed_registers(state, StateAfter(C)))
             /\ r.rollback_root = state
             /\ r.transition_event = TransitionEvent(C)
             /\ r.record_event = RecordEvents(Kind(C), TransitionEvent(C))
BY DEF CommitReceipt

LEMMA RollbackFields ==
  ASSUME NEW id
  PROVE  LET r == RollbackReceipt(id)
             current == id \in DOMAIN archives /\ state = archives[id].post
             post == IF current THEN archives[id].pre ELSE state
         IN  /\ r.transition_kind = "ROLLBACK" /\ r.post_state = post
             /\ r.versions_after = Bump(versions, changed_registers(state, post))
BY DEF RollbackReceipt

LEMMA NothingBumped ==
  ASSUME TypeOK
  PROVE  Bump(versions, changed_registers(state, state)) = versions
<1>1. changed_registers(state, state) = {}
  BY DEF changed_registers
<1> QED
  BY <1>1 DEF Bump, TypeOK

LEMMA DescribesCommit ==
  ASSUME TypeOK, NEW C \in SUBSET Holders, Issues(C)
  PROVE  ReceiptsDescribeTheStore'
<1> DEFINE r == CommitReceipt(C)
<1>1. /\ issued' = r /\ submitted' = {InputOf(c) : c \in C} /\ commit_component(C)
  BY DEF Issues, Submit
<1>2. r.post_state = state' /\ r.versions_after = versions'
  <2>1. CASE Admissible(C, state, versions)
    <3>1. StateAfter(C) = PostState(C, state) /\ Install(PostState(C, state))
      BY <1>1, <2>1 DEF StateAfter, commit_component
    <3> QED
      BY <3>1, ReceiptFields DEF Install
  <2>2. CASE ~Admissible(C, state, versions)
    <3>1. StateAfter(C) = state /\ UNCHANGED <<state, versions>>
      BY <1>1, <2>2 DEF StateAfter, commit_component
    <3> QED
      BY <3>1, ReceiptFields, NothingBumped
  <2> QED
    BY <2>1, <2>2
<1>3. CollarUnion({d.draft : d \in submitted'}) = UnionCollar(C)
  <2>1. {d.draft : d \in submitted'} = {draft(c) : c \in C}
    <3>1. submitted' = {InputOf(c) : c \in C}
      BY <1>1
    <3>2. \A c \in C : InputOf(c).draft = draft(c)
      BY DEF InputOf
    <3> QED
      BY <3>1, <3>2
  <2> QED
    BY <2>1 DEF UnionCollar
<1>4. physical_repair_receipt(r) =>
        strict_repair_descends_from(Evaluate(state', UnionCollar(C)),
                                    Evaluate(r.pre_state, UnionCollar(C)))
  <2> SUFFICES ASSUME physical_repair_receipt(r)
               PROVE  strict_repair_descends_from(Evaluate(state', UnionCollar(C)),
                                                  Evaluate(r.pre_state, UnionCollar(C)))
    OBVIOUS
  <2>1. \E before \in r.mismatch_before, after \in r.mismatch_after :
          strict_repair_descends_from(after, before)
    BY DEF physical_repair_receipt, ATOMIC_UNION_REVALIDATION_RECEIPT
  <2>2. r.committed
    BY DEF physical_repair_receipt
  <2>3. r.post_state = PostState(C, state) /\ r.pre_state = state
    BY <2>2, ReceiptFields DEF StateAfter
  <2>4. /\ r.mismatch_before \subseteq {Evaluate(state, UnionCollar(C))}
        /\ r.mismatch_after \subseteq {Evaluate(PostState(C, state), UnionCollar(C))}
    BY ReceiptFields DEF LedgerOf
  <2> QED
    BY <1>2, <2>1, <2>3, <2>4
<1> HIDE DEF r
<1>5. physical_repair_receipt(issued)' <=> physical_repair_receipt(r)
  BY <1>1 DEF physical_repair_receipt, all_checks_passed, ATOMIC_UNION_REVALIDATION_RECEIPT,
     CheckSchemaComplete, COMPLETE_READ_SET_RECEIPT, CONFLICT_COMPONENT_SUPPORT_RECEIPT,
     DeclaredReads, read_complete, ExpectedConflictEdges, footprints_conflict
<1> QED
  BY <1>1, <1>2, <1>3, <1>4, <1>5 DEF ReceiptsDescribeTheStore

LEMMA DescribesRollback ==
  ASSUME TypeOK, NEW id, RollsBack(id)
  PROVE  ReceiptsDescribeTheStore'
<1> DEFINE r == RollbackReceipt(id)
<1>1. issued' = r
  BY DEF RollsBack
<1>2. r.post_state = state' /\ r.versions_after = versions'
  <2>1. CASE id \in DOMAIN archives /\ state = archives[id].post
    BY <2>1, RollbackFields DEF RollsBack, Install
  <2>2. CASE ~(id \in DOMAIN archives /\ state = archives[id].post)
    BY <2>2, RollbackFields, NothingBumped DEF RollsBack
  <2> QED
    BY <2>1, <2>2
<1>3. r.transition_kind = "ROLLBACK"
  BY RollbackFields
<1> HIDE DEF r
<1> QED
  BY <1>1, <1>2, <1>3 DEF ReceiptsDescribeTheStore, physical_repair_receipt

(***************************************************************************)
(* The last receipt describes the store: its post-state and its versions   *)
(* are the engine's, also after a refusal, and after a physical repair     *)
(* receipt the ledger is strictly lower than it was.                       *)
(***************************************************************************)
THEOREM ReceiptsAreTrue == ReplaySpec => []ReceiptsDescribeTheStore
<1>1. ReplayInit => ReceiptsDescribeTheStore /\ BatchIdsUnique
  BY DEF ReplayInit, Init, ReceiptsDescribeTheStore, BatchIdsUnique
<1>2. BatchIdsUnique /\ [ReplayNext]_replayVars => BatchIdsUnique'
  BY ReplayStep, BatchIdsStep
<1>3. TypeOK /\ BatchIdsUnique /\ ReceiptsDescribeTheStore /\ [ReplayNext]_replayVars
        => ReceiptsDescribeTheStore'
  <2> SUFFICES ASSUME TypeOK, BatchIdsUnique, ReceiptsDescribeTheStore,
                      [ReplayNext]_replayVars
               PROVE  ReceiptsDescribeTheStore'
    OBVIOUS
  <2>1. CASE UNCHANGED <<state, versions, issued, submitted>>
    BY <2>1 DEF ReceiptsDescribeTheStore, physical_repair_receipt, all_checks_passed,
       ATOMIC_UNION_REVALIDATION_RECEIPT, CheckSchemaComplete, COMPLETE_READ_SET_RECEIPT,
       CONFLICT_COMPONENT_SUPPORT_RECEIPT, DeclaredReads, read_complete,
       ExpectedConflictEdges, footprints_conflict
  <2> QED
    BY <2>1, ReceiptCases, DescribesCommit, DescribesRollback
<1> QED
  BY <1>1, <1>2, <1>3, ReplayIsEngine, TypeCorrect, PTL DEF ReplaySpec

-----------------------------------------------------------------------------
(***************************************************************************)
(* Proposals and their footprints, found again by id.                      *)
(***************************************************************************)
LEMMA FoundById ==
  ASSUME NEW C, UniqueIds(C), NEW c \in C
  PROVE  draft(c).id \in Ids(C) /\ WithId(C, draft(c).id) = c
<1>1. \A b \in C : draft(b).id = draft(c).id => b = c
  BY DEF UniqueIds
<1> QED
  BY <1>1 DEF WithId, Ids

LEMMA AggregateFootprint ==
  ASSUME NEW C, UniqueIds(C)
  PROVE  /\ DeclaredReads(CommitReceipt(C)) = ReadSet(C)
         /\ DeclaredWrites(CommitReceipt(C)) = WriteSet(C)
<1> DEFINE fps == [i \in Ids(C) |-> Footprint(WithId(C, i))]
<1>1. CommitReceipt(C).footprints = fps
  BY ReceiptFields
<1>2. \A i \in Ids(C) : \E c \in C : i = draft(c).id /\ WithId(C, i) = c
  BY FoundById DEF Ids
<1>3. \A c \in C : draft(c).id \in Ids(C) /\ fps[draft(c).id] = Footprint(c)
  BY FoundById
<1>4. /\ \A i \in Ids(C) : \E c \in C : fps[i] = Footprint(c)
      /\ DOMAIN fps = Ids(C)
  BY <1>2
<1>5. \A c : /\ Footprint(c).declared_reads = declared_read_set(c)
             /\ Footprint(c).writes = write_set(c)
  BY DEF Footprint
<1> HIDE DEF fps
<1> QED
  BY <1>1, <1>3, <1>4, <1>5 DEF DeclaredReads, DeclaredWrites, ReadSet, WriteSet

LEMMA CommitSelfConsistent ==
  ASSUME NEW C, UniqueIds(C), Kind(C) # "ROLLBACK"
  PROVE  SelfConsistent(CommitReceipt(C))
<1> DEFINE r == CommitReceipt(C)
<1>1. CheckSchemaComplete(r)
  BY ReceiptFields DEF CheckSchemaComplete, Checks, TransactionChecks
<1>2. DOMAIN r.footprints = r.proposal_ids /\ DOMAIN r.snapshots = r.proposal_ids
  BY ReceiptFields
<1>3. r.read_set = DeclaredReads(r) /\ r.write_set = DeclaredWrites(r)
  BY ReceiptFields, AggregateFootprint
<1>4. r.rollback_root = r.pre_state
  BY ReceiptFields
<1>5. r.transition_event = ExpectedTransitionEvent(r)
  <2>1. /\ r.transition_event = TransitionEvent(C)
        /\ r.committed <=> Admissible(C, state, versions)
        /\ r.diagnostic_only <=> \E c \in C : draft(c).diagnostic
        /\ r.transition_kind = Kind(C) /\ r.proposal_ids = Ids(C)
        /\ r.pre_state = state /\ r.post_state = StateAfter(C)
    BY ReceiptFields
  <2>2. DeclaredReads(r) = ReadSet(C) /\ DeclaredWrites(r) = WriteSet(C)
    BY AggregateFootprint
  <2>3. EmitsTransitionEvent(C) <=>
          ~r.diagnostic_only /\ r.transition_kind \in {"STRICT_REPAIR", "RECORD_COMMIT"}
    BY <2>1 DEF EmitsTransitionEvent
  <2> HIDE DEF r
  <2> QED
    BY <2>1, <2>2, <2>3 DEF TransitionEvent, ExpectedTransitionEvent, StateAfter, EventOf
<1>6. r.record_event = RecordEvents(r.transition_kind, ExpectedTransitionEvent(r))
  BY <1>5, ReceiptFields
<1> HIDE DEF r
<1> QED
  BY <1>1, <1>2, <1>3, <1>4, <1>5, <1>6 DEF SelfConsistent, r

(***************************************************************************)
(* The diagnostic recomputes from the receipt what the engine computed     *)
(* from the proposals: every receipt of a commit, accepted or refused,     *)
(* single or of a batch, passes it.                                        *)
(***************************************************************************)
THEOREM CommitReceiptsAreConsistent == ReplaySpec => []CommitReceiptsVerify
<1>1. ReplayInit => CommitReceiptsVerify /\ BatchIdsUnique
  BY DEF ReplayInit, Init, CommitReceiptsVerify, BatchIdsUnique
<1>2. BatchIdsUnique /\ [ReplayNext]_replayVars => BatchIdsUnique'
  BY ReplayStep, BatchIdsStep
<1>3. TypeOK /\ BatchIdsUnique /\ CommitReceiptsVerify /\ [ReplayNext]_replayVars
        => CommitReceiptsVerify'
  <2> SUFFICES ASSUME TypeOK, BatchIdsUnique, CommitReceiptsVerify,
                      [ReplayNext]_replayVars
               PROVE  CommitReceiptsVerify'
    OBVIOUS
  <2> USE DEF CommitReceiptsVerify, SelfConsistent, CheckSchemaComplete, DeclaredReads,
              DeclaredWrites, ExpectedTransitionEvent, RecordEvents, EventOf
  <2>1. CASE UNCHANGED <<state, versions, issued, submitted>>
    BY <2>1
  <2>2. ASSUME NEW C \in SUBSET Holders, Issues(C) PROVE CommitReceiptsVerify'
    <3>1. issued' = CommitReceipt(C) /\ UniqueIds(C)
      BY <2>2 DEF Issues, Submit
    <3>2. issued'.transition_kind = Kind(C)
      BY <3>1, ReceiptFields
    <3>3. Kind(C) # "ROLLBACK" => SelfConsistent(CommitReceipt(C))
      BY <3>1, CommitSelfConsistent
    <3> QED
      BY <3>1, <3>2, <3>3
  <2>3. ASSUME NEW id, RollsBack(id) PROVE CommitReceiptsVerify'
    <3>1. issued' = RollbackReceipt(id) /\ RollbackReceipt(id).transition_kind = "ROLLBACK"
      BY <2>3, RollbackFields DEF RollsBack
    <3> QED
      BY <3>1
  <2> QED
    BY <2>1, <2>2, <2>3, ReceiptCases
<1> QED
  BY <1>1, <1>2, <1>3, ReplayIsEngine, TypeCorrect, PTL DEF ReplaySpec

-----------------------------------------------------------------------------
(***************************************************************************)
(* Replay.  The definitions of RepairContract are the same in the fresh    *)
(* engine.                                                                 *)
(***************************************************************************)
LEMMA FreshContract ==
  ASSUME NEW s, NEW v, NEW D
  PROVE  /\ \A kind, k, a, b : Fresh(s, v, D)!TransitionLaw(kind, k, a, b)
                                <=> TransitionLaw(kind, k, a, b)
         /\ \A kind, k, a, b : Fresh(s, v, D)!ProtectedPreserved(kind, k, a, b)
                                <=> ProtectedPreserved(kind, k, a, b)
         /\ \A R, a, b : Fresh(s, v, D)!Preserved(R, a, b) <=> Preserved(R, a, b)
         /\ \A E : Fresh(s, v, D)!CollarUnion(E) = CollarUnion(E)
         /\ \A a, u : Fresh(s, v, D)!Override(a, u) = Override(a, u)
         /\ \A k, w : Fresh(s, v, D)!RequiredReads(k, w) = RequiredReads(k, w)
         /\ \A a, b : Fresh(s, v, D)!changed_registers(a, b) = changed_registers(a, b)
         /\ \A w, R : Fresh(s, v, D)!Bump(w, R) = Bump(w, R)
         /\ \A U : Fresh(s, v, D)!Compatible(U) <=> Compatible(U)
         /\ \A U : Fresh(s, v, D)!Combined(U) = Combined(U)
<1>1. \A a, b : Fresh(s, v, D)!changed_registers(a, b) = changed_registers(a, b)
  BY DEF Fresh!changed_registers, changed_registers
<1>2. \A a, b : Fresh(s, v, D)!strict_repair_descends_from(a, b)
                  <=> strict_repair_descends_from(a, b)
  BY DEF Fresh!strict_repair_descends_from, strict_repair_descends_from,
         Fresh!auxiliary_names, auxiliary_names, Fresh!auxiliary_values,
         auxiliary_values, Fresh!visible_vector, visible_vector,
         Fresh!LexLess, LexLess
<1>3. \A R, a, b : Fresh(s, v, D)!Preserved(R, a, b) <=> Preserved(R, a, b)
  BY DEF Fresh!Preserved, Preserved
<1>4. \A kind, k, a, b : Fresh(s, v, D)!TransitionLaw(kind, k, a, b)
                           <=> TransitionLaw(kind, k, a, b)
  BY <1>1, <1>2 DEF Fresh!TransitionLaw, TransitionLaw,
     Fresh!StrictRepairLaw, StrictRepairLaw, Fresh!NeutralLaw, NeutralLaw,
     Fresh!RecordCommitLaw, RecordCommitLaw,
     Fresh!SemanticRegisters, SemanticRegisters
<1>5. \A kind, k, a, b : Fresh(s, v, D)!ProtectedPreserved(kind, k, a, b)
                           <=> ProtectedPreserved(kind, k, a, b)
  BY <1>3 DEF Fresh!ProtectedPreserved, ProtectedPreserved
<1>6. \A E : Fresh(s, v, D)!CollarUnion(E) = CollarUnion(E)
  BY DEF Fresh!CollarUnion, CollarUnion
<1>7. \A a, u : Fresh(s, v, D)!Override(a, u) = Override(a, u)
  BY DEF Fresh!Override, Override
<1>8. \A k, w : Fresh(s, v, D)!RequiredReads(k, w) = RequiredReads(k, w)
  BY DEF Fresh!RequiredReads, RequiredReads
<1>9. \A w, R : Fresh(s, v, D)!Bump(w, R) = Bump(w, R)
  BY DEF Fresh!Bump, Bump
<1>10. \A U : Fresh(s, v, D)!Compatible(U) <=> Compatible(U)
  BY DEF Fresh!Compatible, Compatible
<1>11. \A U : Fresh(s, v, D)!Combined(U) = Combined(U)
  BY DEF Fresh!Combined, Combined
<1> QED
  BY <1>1, <1>3, <1>4, <1>5, <1>6, <1>7, <1>8, <1>9, <1>10, <1>11

(***************************************************************************)
(* The fresh engine holds a copy of every proposal of the component.       *)
(***************************************************************************)
Inputs(C) == {InputOf(c) : c \in C}

Mirrors(s, v, D, C) ==
  /\ D = Inputs(C)
  /\ \A c \in C :
       LET q == FreshProposals(s, v, D)[InputOf(c)]
       IN  /\ q.draft = proposals[c].draft /\ q.snapshot = proposals[c].snapshot
           /\ q.observed = proposals[c].observed /\ q.updates = proposals[c].updates
           /\ q.inverse = proposals[c].inverse

LEMMA AdmissibleMirrored ==
  ASSUME TypeOK, HistoryInv, NEW C \in SUBSET Holders, Admissible(C, state, versions)
  PROVE  Mirrors(state, versions, Inputs(C), C)
<1> SUFFICES ASSUME NEW c \in C
             PROVE  LET q == FreshProposals(state, versions, Inputs(C))[InputOf(c)]
                    IN  /\ q.draft = proposals[c].draft /\ q.snapshot = proposals[c].snapshot
                        /\ q.observed = proposals[c].observed
                        /\ q.updates = proposals[c].updates
                        /\ q.inverse = proposals[c].inverse
  BY DEF Mirrors
<1> DEFINE q == FreshProposals(state, versions, Inputs(C))[InputOf(c)]
           e == draft(c)
<1>1. InputOf(c) \in Inputs(C) /\ InputOf(c).draft = e
      /\ InputOf(c).inverse = proposals[c].inverse
  BY DEF Inputs, InputOf
<1>2. q = [draft |-> e,
           snapshot |-> [r \in e.declared |-> [value |-> state[r], version |-> versions[r]]],
           observed |-> Observed(e, state), updates |-> Recover(e, state),
           inverse |-> proposals[c].inverse]
  BY <1>1 DEF FreshProposals
<1>3. complete_read_set({c}) /\ snapshot_current({c}, state, versions)
  BY DEF Admissible, complete_read_set, snapshot_current
<1>4. /\ proposals[c].updates = Recover(e, state)
      /\ proposals[c].observed = Observed(e, state)
  BY <1>3, FreshUpdates
<1>5. proposals[c].snapshot =
        [r \in e.declared |-> [value |-> state[r], version |-> versions[r]]]
  <2>1. proposals[c].snapshot \in [e.declared -> [value : Value, version : 0..MaxVersion]]
    BY DEF TypeOK, IsProposal, draft
  <2>2. \A r \in e.declared : /\ versions[r] = proposals[c].snapshot[r].version
                               /\ state[r] = proposals[c].snapshot[r].value
    BY <1>3, <2>1 DEF snapshot_current
  <2> HIDE DEF e
  <2>3. \A r \in e.declared :
          proposals[c].snapshot[r] = [value |-> state[r], version |-> versions[r]]
    BY <2>1, <2>2
  <2> QED
    BY <2>1, <2>3
<1> HIDE DEF q
<1> QED
  BY <1>2, <1>4, <1>5 DEF q, draft

LEMMA MirrorParts ==
  ASSUME NEW s, NEW v, NEW D, NEW C, Mirrors(s, v, D, C)
  PROVE  /\ \A c \in C :
              /\ InputOf(c) \in D
              /\ Fresh(s, v, D)!draft(InputOf(c)) = draft(c)
              /\ Fresh(s, v, D)!declared_read_set(InputOf(c)) = declared_read_set(c)
              /\ Fresh(s, v, D)!write_set(InputOf(c)) = write_set(c)
              /\ FreshProposals(s, v, D)[InputOf(c)].updates = proposals[c].updates
              /\ FreshProposals(s, v, D)[InputOf(c)].inverse = proposals[c].inverse
              /\ FreshProposals(s, v, D)[InputOf(c)].snapshot = proposals[c].snapshot
              /\ FreshProposals(s, v, D)[InputOf(c)].observed = proposals[c].observed
         /\ \A d \in D : \E c \in C : d = InputOf(c)
<1>1. ASSUME NEW c \in C
      PROVE  /\ FreshProposals(s, v, D)[InputOf(c)].draft = proposals[c].draft
             /\ FreshProposals(s, v, D)[InputOf(c)].updates = proposals[c].updates
             /\ FreshProposals(s, v, D)[InputOf(c)].inverse = proposals[c].inverse
             /\ FreshProposals(s, v, D)[InputOf(c)].snapshot = proposals[c].snapshot
             /\ FreshProposals(s, v, D)[InputOf(c)].observed = proposals[c].observed
             /\ InputOf(c) \in D
  BY DEF Mirrors, Inputs
<1>2. \A d \in D : \E c \in C : d = InputOf(c)
  BY DEF Mirrors, Inputs
<1> QED
  BY <1>1, <1>2 DEF Fresh!draft, draft, Fresh!declared_read_set, declared_read_set,
     Fresh!write_set, write_set

LEMMA MirrorSets ==
  ASSUME NEW s, NEW v, NEW D, NEW C, Mirrors(s, v, D, C)
  PROVE  /\ Fresh(s, v, D)!WriteSet(D) = WriteSet(C)
         /\ Fresh(s, v, D)!ReadSet(D) = ReadSet(C)
         /\ Fresh(s, v, D)!Ids(D) = Ids(C)
         /\ Fresh(s, v, D)!UnionCollar(D) = UnionCollar(C)
         /\ Fresh(s, v, D)!UpdatesOf(D) = UpdatesOf(C)
         /\ Fresh(s, v, D)!InversesOf(D) = InversesOf(C)
<1>1. Fresh(s, v, D)!WriteSet(D) = WriteSet(C)
  BY MirrorParts DEF Fresh!WriteSet, WriteSet
<1>2. Fresh(s, v, D)!ReadSet(D) = ReadSet(C)
  BY MirrorParts DEF Fresh!ReadSet, ReadSet
<1>3. Fresh(s, v, D)!Ids(D) = Ids(C)
  BY MirrorParts DEF Fresh!Ids, Ids
<1>4. {Fresh(s, v, D)!draft(d) : d \in D} = {draft(c) : c \in C}
  BY MirrorParts
<1>5. Fresh(s, v, D)!UpdatesOf(D) = UpdatesOf(C)
  BY MirrorParts DEF Fresh!UpdatesOf, UpdatesOf
<1>6. Fresh(s, v, D)!InversesOf(D) = InversesOf(C)
  BY MirrorParts DEF Fresh!InversesOf, InversesOf
<1>7. Fresh(s, v, D)!UnionCollar(D) = UnionCollar(C)
  BY <1>4, FreshContract DEF Fresh!UnionCollar, UnionCollar
<1> QED
  BY <1>1, <1>2, <1>3, <1>5, <1>6, <1>7

LEMMA MirrorIds ==
  ASSUME NEW s, NEW v, NEW D, NEW C, Mirrors(s, v, D, C), UniqueIds(C)
  PROVE  /\ Fresh(s, v, D)!UniqueIds(D)
         /\ \A c \in C : Fresh(s, v, D)!WithId(D, draft(c).id) = InputOf(c)
         /\ \A b, c \in C : InputOf(b) = InputOf(c) => b = c
<1>1. Fresh(s, v, D)!UniqueIds(D)
  BY MirrorParts DEF Fresh!UniqueIds, UniqueIds
<1>2. \A b, c \in C : InputOf(b) = InputOf(c) => b = c
  BY DEF UniqueIds, InputOf
<1>3. ASSUME NEW c \in C
      PROVE  Fresh(s, v, D)!WithId(D, draft(c).id) = InputOf(c)
  <2>1. InputOf(c) \in D /\ Fresh(s, v, D)!draft(InputOf(c)).id = draft(c).id
    BY MirrorParts
  <2>2. \A d \in D : Fresh(s, v, D)!draft(d).id = draft(c).id => d = InputOf(c)
    BY <1>1, <2>1 DEF Fresh!UniqueIds
  <2> QED
    BY <2>1, <2>2 DEF Fresh!WithId
<1> QED
  BY <1>1, <1>2, <1>3

(***************************************************************************)
(* A non-empty set of ids has a least one, so a component has a first      *)
(* member: its kind is the kind of every member.                           *)
(***************************************************************************)
LEMMA LeastNat ==
  ASSUME NEW T \in SUBSET Nat, T # {}
  PROVE  \E x \in T : \A y \in T : x <= y
<1>1. PICK x \in T : \A y \in T : ~(<<y, x>> \in OpToRel(<, Nat))
  BY NatLessThanWellFounded, WFMin, Zenon
<1>2. \A y \in T : ~(y < x)
  BY <1>1, Zenon DEF OpToRel
<1> QED
  BY <1>2

LEMMA FirstMemberExists ==
  ASSUME TypeOK, NEW C \in SUBSET Holders, C # {}
  PROVE  /\ FirstMember(C) \in C
         /\ \A c \in C : draft(FirstMember(C)).id <= draft(c).id
<1>1. \A c \in C : draft(c).id \in Nat
  BY DraftAssumption DEF TypeOK, IsProposal, draft, DraftType
<1>2. Ids(C) \in SUBSET Nat /\ Ids(C) # {}
  BY <1>1 DEF Ids
<1>3. PICK x \in Ids(C) : \A y \in Ids(C) : x <= y
  BY <1>2, LeastNat
<1>4. \E b \in C : \A c \in C : draft(b).id <= draft(c).id
  BY <1>3 DEF Ids
<1> QED
  BY <1>4 DEF FirstMember

LEMMA MirrorFirst ==
  ASSUME TypeOK, NEW s, NEW v, NEW D, NEW C \in SUBSET Holders, C # {},
         Mirrors(s, v, D, C), UniqueIds(C)
  PROVE  Fresh(s, v, D)!FirstMember(D) = InputOf(FirstMember(C))
<1> DEFINE b == FirstMember(C)
           e == Fresh(s, v, D)!FirstMember(D)
<1>1. b \in C /\ \A c \in C : draft(b).id <= draft(c).id
  BY FirstMemberExists
<1>2. InputOf(b) \in D /\ \A d \in D :
        Fresh(s, v, D)!draft(InputOf(b)).id <= Fresh(s, v, D)!draft(d).id
  BY <1>1, MirrorParts
<1>3. e \in D /\ \A d \in D :
        Fresh(s, v, D)!draft(e).id <= Fresh(s, v, D)!draft(d).id
  BY <1>2 DEF Fresh!FirstMember
<1> HIDE DEF b, e
<1>4. PICK c \in C : e = InputOf(c)
  BY <1>3, MirrorParts
<1>5. draft(c).id <= draft(b).id /\ draft(b).id <= draft(c).id
  BY <1>1, <1>2, <1>3, <1>4, MirrorParts
<1>6. draft(c).id \in Nat /\ draft(b).id \in Nat
  BY <1>1, DraftAssumption DEF TypeOK, IsProposal, draft, DraftType
<1>7. draft(c).id = draft(b).id
  BY <1>5, <1>6
<1>8. c = b
  BY <1>1, <1>7 DEF UniqueIds
<1> QED
  BY <1>4, <1>8 DEF b, e

LEMMA MirrorKind ==
  ASSUME TypeOK, NEW s, NEW v, NEW D, NEW C \in SUBSET Holders, C # {},
         Mirrors(s, v, D, C), UniqueIds(C)
  PROVE  Fresh(s, v, D)!Kind(D) = Kind(C)
<1>1. FirstMember(C) \in C
  BY FirstMemberExists
<1>2. Fresh(s, v, D)!draft(InputOf(FirstMember(C))) = draft(FirstMember(C))
  BY <1>1, MirrorParts
<1> QED
  BY <1>2, MirrorFirst DEF Fresh!Kind, Kind

(***************************************************************************)
(* The conflict graph is the same, so the inputs form one component.       *)
(***************************************************************************)
LEMMA MirrorComponent ==
  ASSUME TypeOK, NEW s, NEW v, NEW D, NEW C \in SUBSET Holders, C # {},
         Mirrors(s, v, D, C), conflict_component_support(C)
  PROVE  \A d \in D : Fresh(s, v, D)!Component(d, D) = D
<1>1. \A c \in C : Component(c, C) = C
  BY FirstMemberExists, SameComponent DEF conflict_component_support
<1>2. \A b, c \in C :
        Fresh(s, v, D)!proposals_conflict(InputOf(b), InputOf(c))
          <=> proposals_conflict(b, c)
  BY MirrorParts DEF Fresh!proposals_conflict, proposals_conflict
<1>3. ASSUME NEW c \in C, NEW x \in C, NEW T \in SUBSET D, InputOf(c) \in T,
             Fresh(s, v, D)!ConflictClosed(T, D)
      PROVE  InputOf(x) \in T
  <2> DEFINE U == {y \in C : InputOf(y) \in T}
  <2>1. \A y \in C : InputOf(y) \in D
    BY MirrorParts
  <2>2. ConflictClosed(U, C)
    BY <1>2, <1>3, <2>1 DEF ConflictClosed, Fresh!ConflictClosed
  <2>3. Component(c, C) \subseteq U
    BY <1>3, <2>2, ComponentIsLeast
  <2> QED
    BY <1>1, <2>3
<1>4. ASSUME NEW c \in C PROVE D \subseteq Fresh(s, v, D)!Component(InputOf(c), D)
  BY <1>3, MirrorParts DEF Fresh!Component
<1>5. ASSUME NEW c \in C PROVE Fresh(s, v, D)!Component(InputOf(c), D) \subseteq D
  BY DEF Fresh!Component
<1>6. \A c \in C : Fresh(s, v, D)!Component(InputOf(c), D) = D
  BY <1>4, <1>5
<1>7. \A d \in D : \E c \in C : d = InputOf(c)
  BY MirrorParts
<1> QED
  BY <1>6, <1>7

(***************************************************************************)
(* What the checks are computed from is the same, so an admissible         *)
(* component passes them in the fresh engine as well.                      *)
(***************************************************************************)
LEMMA MirrorPost ==
  ASSUME NEW s, NEW v, NEW D, NEW C, Mirrors(s, v, D, C)
  PROVE  /\ Fresh(s, v, D)!compatible_component_writes(D)
              <=> compatible_component_writes(C)
         /\ Fresh(s, v, D)!PostState(D, s) = PostState(C, s)
         /\ Fresh(s, v, D)!ExactInverse(D, s) <=> ExactInverse(C, s)
<1>1. Fresh(s, v, D)!compatible_component_writes(D) <=> compatible_component_writes(C)
  BY MirrorSets, FreshContract
     DEF Fresh!compatible_component_writes, compatible_component_writes
<1>2. Fresh(s, v, D)!PostState(D, s) = PostState(C, s)
  BY <1>1, MirrorSets, FreshContract DEF Fresh!PostState, PostState
<1>3. Fresh(s, v, D)!ExactInverse(D, s) <=> ExactInverse(C, s)
  BY <1>2, MirrorSets, FreshContract DEF Fresh!ExactInverse, ExactInverse
<1> QED
  BY <1>1, <1>2, <1>3

LEMMA MirrorMembers ==
  ASSUME NEW s, NEW v, NEW D, NEW C, Mirrors(s, v, D, C), Admissible(C, s, v)
  PROVE  /\ Fresh(s, v, D)!complete_read_set(D)
         /\ Fresh(s, v, D)!snapshot_current(D, s, v)
         /\ Fresh(s, v, D)!write_locality(D)
         /\ Fresh(s, v, D)!target_free_source(D)
<1>1. Fresh(s, v, D)!complete_read_set(D)
  <2>1. complete_read_set(C)
    BY DEF Admissible
  <2> QED
    BY <2>1, MirrorParts, FreshContract DEF Fresh!complete_read_set, complete_read_set
<1>2. Fresh(s, v, D)!snapshot_current(D, s, v)
  <2>1. snapshot_current(C, s, v)
    BY DEF Admissible
  <2> QED
    BY <2>1, MirrorParts DEF Fresh!snapshot_current, snapshot_current
<1>3. Fresh(s, v, D)!write_locality(D)
  <2>1. write_locality(C)
    BY DEF Admissible
  <2> QED
    BY <2>1, MirrorParts DEF Fresh!write_locality, write_locality
<1>4. Fresh(s, v, D)!target_free_source(D)
  <2>1. target_free_source(C)
    BY DEF Admissible
  <2> QED
    BY <2>1, MirrorParts DEF Fresh!target_free_source, target_free_source
<1> QED
  BY <1>1, <1>2, <1>3, <1>4

LEMMA MirrorAdmissible ==
  ASSUME TypeOK, NEW s, NEW v, NEW D, NEW C \in SUBSET Holders, C # {},
         Mirrors(s, v, D, C), Admissible(C, s, v)
  PROVE  /\ Fresh(s, v, D)!UniqueIds(D)
         /\ Fresh(s, v, D)!conflict_component_support(D)
         /\ Fresh(s, v, D)!single_transition_kind(D)
         /\ Fresh(s, v, D)!compatible_component_writes(D)
         /\ Fresh(s, v, D)!unlisted_registers_unchanged(D, s)
         /\ Fresh(s, v, D)!protected_boundary_preserved(D, s)
         /\ Fresh(s, v, D)!sector_preserved(D, s)
         /\ Fresh(s, v, D)!ScoreReadsOf(D, s) = ScoreReadsOf(C, s)
         /\ Fresh(s, v, D)!mismatch_read_trace_complete(D, s)
         /\ Fresh(s, v, D)!transition_contract(D, s)
         /\ Fresh(s, v, D)!Admissible(D, s, v)
<1>1. UniqueIds(C) /\ conflict_component_support(C) /\ EvaluatorRuns(C)
  BY DEF Admissible
<1>2. Fresh(s, v, D)!UniqueIds(D) /\ Fresh(s, v, D)!Kind(D) = Kind(C)
  BY <1>1, MirrorIds, MirrorKind
<1>3. Fresh(s, v, D)!conflict_component_support(D)
  <2>1. InputOf(FirstMember(C)) \in D
    BY FirstMemberExists, MirrorParts
  <2>2. Fresh(s, v, D)!FirstMember(D) \in D
    BY <1>1, <2>1, MirrorFirst
  <2>3. Fresh(s, v, D)!Component(Fresh(s, v, D)!FirstMember(D), D) = D
    BY <1>1, <2>2, MirrorComponent
  <2> QED
    BY <1>2, <2>3 DEF Fresh!conflict_component_support
<1>4. Fresh(s, v, D)!single_transition_kind(D)
  <2>1. \A c \in C : draft(c).kind = Kind(C)
    BY <1>1 DEF EvaluatorRuns, single_transition_kind
  <2> QED
    BY <1>2, <2>1, MirrorParts DEF Fresh!single_transition_kind
<1>5. /\ Fresh(s, v, D)!compatible_component_writes(D)
      /\ Fresh(s, v, D)!PostState(D, s) = PostState(C, s)
      /\ Fresh(s, v, D)!ExactInverse(D, s) <=> ExactInverse(C, s)
  BY <1>1, MirrorPost DEF EvaluatorRuns
<1>6. Fresh(s, v, D)!UnionCollar(D) = UnionCollar(C)
  BY MirrorSets
<1>7. Fresh(s, v, D)!unlisted_registers_unchanged(D, s)
  <2>1. unlisted_registers_unchanged(C, s)
    BY DEF Admissible
  <2> QED
    BY <1>5, <2>1, MirrorSets, FreshContract
       DEF Fresh!unlisted_registers_unchanged, unlisted_registers_unchanged
<1>8. Fresh(s, v, D)!protected_boundary_preserved(D, s)
  <2>1. protected_boundary_preserved(C, s)
    BY DEF Admissible
  <2> QED
    BY <1>2, <1>5, <1>6, <2>1, FreshContract
       DEF Fresh!protected_boundary_preserved, protected_boundary_preserved
<1>9. Fresh(s, v, D)!sector_preserved(D, s)
  <2>1. sector_preserved(C, s)
    BY DEF Admissible
  <2> QED
    BY <1>5, <1>6, <2>1, FreshContract DEF Fresh!sector_preserved, sector_preserved
<1>10. Fresh(s, v, D)!ScoreReadsOf(D, s) = ScoreReadsOf(C, s)
  BY <1>5, <1>6 DEF Fresh!ScoreReadsOf, ScoreReadsOf
<1>11. Fresh(s, v, D)!mismatch_read_trace_complete(D, s)
  <2>1. mismatch_read_trace_complete(C, s)
    BY DEF Admissible
  <2> QED
    BY <1>10, <2>1, MirrorSets
       DEF Fresh!mismatch_read_trace_complete, mismatch_read_trace_complete
<1>12. Fresh(s, v, D)!transition_contract(D, s)
  <2>1. transition_contract(C, s)
    BY DEF Admissible
  <2> QED
    BY <1>2, <1>5, <1>6, <2>1, FreshContract
       DEF Fresh!transition_contract, transition_contract
<1>13. Fresh(s, v, D)!Admissible(D, s, v)
  BY <1>2, <1>3, <1>4, <1>5, <1>7, <1>8, <1>9, <1>11, <1>12, MirrorMembers
     DEF Fresh!Admissible, Fresh!EvaluatorRuns
<1> QED
  BY <1>2, <1>3, <1>4, <1>5, <1>7, <1>8, <1>9, <1>10, <1>11, <1>12, <1>13

(***************************************************************************)
(* Field by field, the fresh engine writes the same receipt.               *)
(***************************************************************************)
LEMMA MirrorFootprints ==
  ASSUME NEW s, NEW v, NEW D, NEW C, Mirrors(s, v, D, C), UniqueIds(C)
  PROVE  LET G(i) == Fresh(s, v, D)!WithId(D, i)
         IN  \A i \in Ids(C) :
               /\ Fresh(s, v, D)!Footprint(G(i)) = Footprint(WithId(C, i))
               /\ FreshProposals(s, v, D)[G(i)].snapshot
                    = proposals[WithId(C, i)].snapshot
<1> SUFFICES ASSUME NEW i \in Ids(C)
             PROVE  LET g == Fresh(s, v, D)!WithId(D, i)
                    IN  /\ Fresh(s, v, D)!Footprint(g) = Footprint(WithId(C, i))
                        /\ FreshProposals(s, v, D)[g].snapshot
                             = proposals[WithId(C, i)].snapshot
  OBVIOUS
<1>1. PICK c \in C : i = draft(c).id
  BY DEF Ids
<1>2. WithId(C, i) = c /\ Fresh(s, v, D)!WithId(D, i) = InputOf(c)
  BY <1>1, FoundById, MirrorIds
<1>3. Fresh(s, v, D)!Footprint(InputOf(c)) = Footprint(c)
  BY MirrorParts, FreshContract DEF Fresh!Footprint, Footprint
<1>4. FreshProposals(s, v, D)[InputOf(c)].snapshot = proposals[c].snapshot
  BY MirrorParts
<1> QED
  BY <1>2, <1>3, <1>4

AllPassed ==
  [unique_proposal_ids |-> TRUE, complete_read_set |-> TRUE, snapshot_current |-> TRUE,
   write_locality |-> TRUE, target_free_source |-> TRUE,
   conflict_component_support |-> TRUE, single_transition_kind |-> TRUE,
   compatible_component_writes |-> TRUE, unlisted_registers_unchanged |-> TRUE,
   protected_boundary_preserved |-> TRUE, sector_preserved |-> TRUE,
   mismatch_read_trace_complete |-> TRUE, transition_contract |-> TRUE,
   atomic_union_revalidated |-> TRUE]

LEMMA ChecksPassed ==
  ASSUME NEW C, Admissible(C, state, versions)
  PROVE  Checks(C) = AllPassed
<1> USE DEF Admissible, EvaluatorRuns
<1>1. /\ UniqueIds(C) = TRUE
      /\ complete_read_set(C) = TRUE
      /\ snapshot_current(C, state, versions) = TRUE
      /\ write_locality(C) = TRUE
      /\ target_free_source(C) = TRUE
      /\ conflict_component_support(C) = TRUE
      /\ single_transition_kind(C) = TRUE
  BY DEF UniqueIds, complete_read_set, snapshot_current, write_locality,
         target_free_source, conflict_component_support, single_transition_kind
<1>2. /\ compatible_component_writes(C) = TRUE
      /\ unlisted_registers_unchanged(C, state) = TRUE
      /\ protected_boundary_preserved(C, state) = TRUE
      /\ sector_preserved(C, state) = TRUE
      /\ (EvaluatorRuns(C) /\ mismatch_read_trace_complete(C, state)) = TRUE
      /\ (EvaluatorRuns(C) /\ transition_contract(C, state)) = TRUE
      /\ Admissible(C, state, versions) = TRUE
  BY DEF compatible_component_writes, Compatible, unlisted_registers_unchanged,
         protected_boundary_preserved, ProtectedPreserved, sector_preserved, Preserved
<1> QED
  BY <1>1, <1>2, Zenon DEF Checks, AllPassed

LEMMA MirrorChecks ==
  ASSUME TypeOK, NEW D, NEW C \in SUBSET Holders, C # {},
         Mirrors(state, versions, D, C), Admissible(C, state, versions)
  PROVE  Fresh(state, versions, D)!Checks(D) = Checks(C)
<1>1. /\ Fresh(state, versions, D)!UniqueIds(D) = TRUE
      /\ Fresh(state, versions, D)!complete_read_set(D) = TRUE
      /\ Fresh(state, versions, D)!snapshot_current(D, state, versions) = TRUE
      /\ Fresh(state, versions, D)!write_locality(D) = TRUE
  BY MirrorAdmissible, MirrorMembers
     DEF Fresh!UniqueIds, Fresh!complete_read_set, Fresh!snapshot_current,
         Fresh!write_locality
<1>2. /\ Fresh(state, versions, D)!target_free_source(D) = TRUE
      /\ Fresh(state, versions, D)!conflict_component_support(D) = TRUE
      /\ Fresh(state, versions, D)!single_transition_kind(D) = TRUE
      /\ Fresh(state, versions, D)!compatible_component_writes(D) = TRUE
  BY MirrorAdmissible, MirrorMembers
     DEF Fresh!target_free_source, Fresh!conflict_component_support,
         Fresh!single_transition_kind, Fresh!compatible_component_writes,
         Fresh!Compatible
<1>3. /\ Fresh(state, versions, D)!unlisted_registers_unchanged(D, state) = TRUE
      /\ Fresh(state, versions, D)!protected_boundary_preserved(D, state) = TRUE
      /\ Fresh(state, versions, D)!sector_preserved(D, state) = TRUE
  BY MirrorAdmissible
     DEF Fresh!unlisted_registers_unchanged, Fresh!protected_boundary_preserved,
         Fresh!ProtectedPreserved, Fresh!sector_preserved, Fresh!Preserved
<1>4. /\ (/\ Fresh(state, versions, D)!EvaluatorRuns(D)
          /\ Fresh(state, versions, D)!mismatch_read_trace_complete(D, state)) = TRUE
      /\ (/\ Fresh(state, versions, D)!EvaluatorRuns(D)
          /\ Fresh(state, versions, D)!transition_contract(D, state)) = TRUE
      /\ Fresh(state, versions, D)!Admissible(D, state, versions) = TRUE
  BY MirrorAdmissible DEF Fresh!EvaluatorRuns, Fresh!Admissible
<1>5. Fresh(state, versions, D)!Checks(D) = AllPassed
  BY <1>1, <1>2, <1>3, <1>4, Zenon DEF Fresh!Checks, AllPassed
<1> QED
  BY <1>5, ChecksPassed

LEMMA MirrorReceipt ==
  ASSUME TypeOK, NEW D, NEW C \in SUBSET Holders, C # {},
         Mirrors(state, versions, D, C), Admissible(C, state, versions)
  PROVE  Fresh(state, versions, D)!CommitReceipt(D) = CommitReceipt(C)
<1> DEFINE fps == [i \in Ids(C) |-> Footprint(WithId(C, i))]
           gps == [i \in Fresh(state, versions, D)!Ids(D) |->
                     Fresh(state, versions, D)!Footprint(Fresh(state, versions, D)!WithId(D, i))]
<1>1. UniqueIds(C) /\ EvaluatorRuns(C)
  BY DEF Admissible
<1>2. /\ Fresh(state, versions, D)!Ids(D) = Ids(C)
      /\ Fresh(state, versions, D)!ReadSet(D) = ReadSet(C)
      /\ Fresh(state, versions, D)!WriteSet(D) = WriteSet(C)
      /\ Fresh(state, versions, D)!UnionCollar(D) = UnionCollar(C)
  BY MirrorSets
<1>3. gps = fps
  BY <1>1, <1>2, MirrorFootprints
<1>4. [i \in Fresh(state, versions, D)!Ids(D) |->
         FreshProposals(state, versions, D)[Fresh(state, versions, D)!WithId(D, i)].snapshot]
        = [i \in Ids(C) |-> proposals[WithId(C, i)].snapshot]
  BY <1>1, <1>2, MirrorFootprints
<1>5. Fresh(state, versions, D)!ExpectedConflictEdges(gps) = ExpectedConflictEdges(fps)
  <2>1. \A f : Fresh(state, versions, D)!ExpectedConflictEdges(f) = ExpectedConflictEdges(f)
    BY DEF Fresh!ExpectedConflictEdges, ExpectedConflictEdges,
           Fresh!footprints_conflict, footprints_conflict
  <2> QED
    BY <1>3, <2>1
<1>6. (\E d \in D : Fresh(state, versions, D)!draft(d).diagnostic)
        = (\E c \in C : draft(c).diagnostic)
  BY MirrorParts
<1>7. /\ Fresh(state, versions, D)!Kind(D) = Kind(C)
      /\ Fresh(state, versions, D)!PostState(D, state) = PostState(C, state)
  BY <1>1, MirrorKind, MirrorPost
<1>8. /\ Fresh(state, versions, D)!EvaluatorRuns(D)
      /\ Fresh(state, versions, D)!Admissible(D, state, versions)
  BY MirrorAdmissible DEF Fresh!EvaluatorRuns
<1>9. Fresh(state, versions, D)!Admissible(D, state, versions) = Admissible(C, state, versions)
  BY <1>8 DEF Admissible, Fresh!Admissible
<1>10. Fresh(state, versions, D)!StateAfter(D) = StateAfter(C)
  BY <1>7, <1>8 DEF Fresh!StateAfter, StateAfter
<1>11. Fresh(state, versions, D)!Bump(versions,
         Fresh(state, versions, D)!changed_registers(state,
           Fresh(state, versions, D)!StateAfter(D)))
         = Bump(versions, changed_registers(state, StateAfter(C)))
  BY <1>10, FreshContract
<1>12. /\ Fresh(state, versions, D)!LedgerOf(D, state) = LedgerOf(C, state)
       /\ Fresh(state, versions, D)!LedgerOf(D,
            Fresh(state, versions, D)!PostState(D, state)) = LedgerOf(C, PostState(C, state))
  BY <1>1, <1>2, <1>7, <1>8 DEF Fresh!LedgerOf, LedgerOf
<1>13. Fresh(state, versions, D)!TransitionEvent(D) = TransitionEvent(C)
  <2>1. Fresh(state, versions, D)!EmitsTransitionEvent(D) <=> EmitsTransitionEvent(C)
    BY <1>7, MirrorParts DEF Fresh!EmitsTransitionEvent, EmitsTransitionEvent
  <2> QED
    BY <1>2, <1>7, <1>8, <2>1
       DEF Fresh!TransitionEvent, TransitionEvent, Fresh!EventOf, EventOf
<1>14. Fresh(state, versions, D)!RecordEvents(Fresh(state, versions, D)!Kind(D),
         Fresh(state, versions, D)!TransitionEvent(D))
         = RecordEvents(Kind(C), TransitionEvent(C))
  BY <1>7, <1>13 DEF Fresh!RecordEvents, RecordEvents
<1>15. (IF Fresh(state, versions, D)!EvaluatorRuns(D)
        THEN Fresh(state, versions, D)!ScoreReadsOf(D, state) ELSE {})
         = (IF EvaluatorRuns(C) THEN ScoreReadsOf(C, state) ELSE {})
  BY <1>1, <1>8, MirrorAdmissible
<1>16. UNION {DOMAIN FreshProposals(state, versions, D)[d].snapshot : d \in D}
         = UNION {DOMAIN proposals[c].snapshot : c \in C}
  BY MirrorParts
<1>17. Fresh(state, versions, D)!Checks(D) = Checks(C)
  BY MirrorChecks
<1> QED
  BY <1>2, <1>3, <1>4, <1>5, <1>6, <1>7, <1>9, <1>10, <1>11, <1>12, <1>13, <1>14,
     <1>15, <1>16, <1>17, Zenon DEF Fresh!CommitReceipt, CommitReceipt

(***************************************************************************)
(* Whatever the engine has been through, the receipt of a committed        *)
(* component is the one that a fresh engine issues for its inputs: the     *)
(* snapshots vouch that preparing the proposals again gives the same       *)
(* proposals (VersionsVouch, ProposalsHaveASource).                        *)
(***************************************************************************)
LEMMA CommitReplays ==
  ASSUME TypeOK, HistoryInv, NEW C \in SUBSET Holders, C # {}, UniqueIds(C),
         Kind(C) # "ROLLBACK", Admissible(C, state, versions)
  PROVE  ReplayIntegrity(CommitReceipt(C), Inputs(C))
<1> DEFINE D == Inputs(C)
           r == CommitReceipt(C)
<1>1. Mirrors(state, versions, D, C)
  BY AdmissibleMirrored
<1>2. r.pre_state = state /\ r.versions_before = versions
  BY ReceiptFields
<1>3. \A d \in D : d.draft.declared \subseteq DOMAIN state
  BY DEF Inputs, InputOf, TypeOK, IsProposal, draft, State
<1>4. D # {}
  BY DEF Inputs
<1>5. \A d \in D : Fresh(state, versions, D)!Component(d, D) = D
  BY <1>1, MirrorComponent DEF Admissible
<1>6. Fresh(state, versions, D)!conflict_components(D) = {D}
  BY <1>4, <1>5 DEF Fresh!conflict_components
<1>7. Fresh(state, versions, D)!UniqueIds(D)
  BY <1>1, MirrorIds
<1>8. SelfConsistent(r)
  BY CommitSelfConsistent
<1>9. r = Fresh(state, versions, D)!CommitReceipt(D)
  BY <1>1, MirrorReceipt
<1> HIDE DEF D, r
<1> QED
  BY <1>2, <1>3, <1>6, <1>7, <1>8, <1>9 DEF ReplayIntegrity, D, r

THEOREM CommittedReceiptsAreReplayable == ReplaySpec => []CommittedReceiptsReplay
<1>1. ReplayInit => CommittedReceiptsReplay /\ BatchIdsUnique
  BY DEF ReplayInit, Init, CommittedReceiptsReplay, BatchIdsUnique
<1>2. BatchIdsUnique /\ [ReplayNext]_replayVars => BatchIdsUnique'
  BY ReplayStep, BatchIdsStep
<1>3. TypeOK /\ HistoryInv /\ BatchIdsUnique /\ CommittedReceiptsReplay
        /\ [ReplayNext]_replayVars => CommittedReceiptsReplay'
  <2> SUFFICES ASSUME TypeOK, HistoryInv, BatchIdsUnique, CommittedReceiptsReplay,
                      [ReplayNext]_replayVars
               PROVE  CommittedReceiptsReplay'
    OBVIOUS
  <2>1. CASE UNCHANGED <<state, versions, issued, submitted>>
    BY <2>1 DEF CommittedReceiptsReplay
  <2>2. ASSUME NEW C \in SUBSET Holders, Issues(C) PROVE CommittedReceiptsReplay'
    <3>1. /\ issued' = CommitReceipt(C) /\ submitted' = Inputs(C)
          /\ C # {} /\ UniqueIds(C)
      BY <2>2 DEF Issues, Submit, Inputs
    <3>2. issued'.transition_kind = Kind(C)
          /\ issued'.committed = Admissible(C, state, versions)
      BY <3>1, ReceiptFields
    <3>3. Kind(C) # "ROLLBACK" /\ Admissible(C, state, versions)
            => ReplayIntegrity(issued, submitted)'
      BY <3>1, CommitReplays
    <3> QED
      BY <3>2, <3>3 DEF CommittedReceiptsReplay
  <2>3. ASSUME NEW id, RollsBack(id) PROVE CommittedReceiptsReplay'
    <3>1. issued' = RollbackReceipt(id) /\ RollbackReceipt(id).transition_kind = "ROLLBACK"
      BY <2>3, RollbackFields DEF RollsBack
    <3> QED
      BY <3>1 DEF CommittedReceiptsReplay
  <2> QED
    BY <2>1, <2>2, <2>3, ReceiptCases
<1> QED
  BY <1>1, <1>2, <1>3, ReplayIsEngine, TypeCorrect, HistoryHolds, PTL DEF ReplaySpec
=============================================================================
