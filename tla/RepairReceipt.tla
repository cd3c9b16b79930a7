--------------------------- MODULE RepairReceipt ----------------------------
(***************************************************************************)
(* The receipt that every commit and every rollback returns                *)
(* (RepairCommitReceipt), the verdicts derived from it, and the            *)
(* self-consistency diagnostic run over its serialized form.  A hash is    *)
(* the value it digests; an optional event id is a set of at most one      *)
(* element.  What as_dict copies from a derived property, and commit_id,   *)
(* a digest of the other fields, is recomputed from the same fields by the *)
(* diagnostic and left out.                                                *)
(***************************************************************************)
EXTENDS RepairTransaction

TransactionChecks ==
  {"unique_proposal_ids", "complete_read_set", "snapshot_current",
   "write_locality", "target_free_source", "conflict_component_support",
   "single_transition_kind", "compatible_component_writes",
   "unlisted_registers_unchanged", "protected_boundary_preserved",
   "sector_preserved", "mismatch_read_trace_complete", "transition_contract",
   "atomic_union_revalidated"}

RollbackChecks == {"rollback_root_exists", "rollback_snapshot_current"}

-----------------------------------------------------------------------------
(***************************************************************************)
(* The receipt of a component C evaluated in the current state.            *)
(***************************************************************************)
Footprint(c) ==
  [declared_reads |-> declared_read_set(c),
   observed_reads |-> proposals[c].observed,
   required_reads |-> RequiredReads(draft(c).collar, write_set(c)),
   snapshot_reads |-> DOMAIN proposals[c].snapshot,
   writes |-> write_set(c)]

WithId(C, i) == CHOOSE c \in C : draft(c).id = i

footprints_conflict(f, g) ==
  \/ f.writes \cap (g.declared_reads \cup g.writes) # {}
  \/ g.writes \cap (f.declared_reads \cup f.writes) # {}

ExpectedConflictEdges(fps) ==
  {e \in SUBSET DOMAIN fps :
     \E i, j \in DOMAIN fps :
       i # j /\ e = {i, j} /\ footprints_conflict(fps[i], fps[j])}

Checks(C) ==
  [unique_proposal_ids |-> UniqueIds(C),
   complete_read_set |-> complete_read_set(C),
   snapshot_current |-> snapshot_current(C, state, versions),
   write_locality |-> write_locality(C),
   target_free_source |-> target_free_source(C),
   conflict_component_support |-> conflict_component_support(C),
   single_transition_kind |-> single_transition_kind(C),
   compatible_component_writes |-> compatible_component_writes(C),
   unlisted_registers_unchanged |-> unlisted_registers_unchanged(C, state),
   protected_boundary_preserved |-> protected_boundary_preserved(C, state),
   sector_preserved |-> sector_preserved(C, state),
   mismatch_read_trace_complete |->
     EvaluatorRuns(C) /\ mismatch_read_trace_complete(C, state),
   transition_contract |-> EvaluatorRuns(C) /\ transition_contract(C, state),
   atomic_union_revalidated |-> Admissible(C, state, versions)]

(***************************************************************************)
(* Only committed, non-diagnostic repairs and record commits are events.   *)
(***************************************************************************)
EventOf(ids, kind, pre, post, footprint) == <<ids, kind, pre, post, footprint>>

\* Faulty variant: a refused component also gets an event id.
EventOfAnyVerdict(C) ==
  IF EmitsTransitionEvent(C)
  THEN {EventOf(Ids(C), Kind(C), state, state, ReadSet(C) \cup WriteSet(C))}
  ELSE {}

TransitionEvent(C) ==
  IF Admissible(C, state, versions) /\ EmitsTransitionEvent(C)
  THEN {EventOf(Ids(C), Kind(C), state, PostState(C, state),
                ReadSet(C) \cup WriteSet(C))}
  ELSE {}

RecordEvents(kind, events) == {e \in events : kind = "RECORD_COMMIT"}

LedgerOf(C, s) == IF EvaluatorRuns(C) THEN {Evaluate(s, UnionCollar(C))} ELSE {}

\* Faulty variant: the receipt shows the candidate state of a refused component.
CandidateState(C) == PostState(C, state)

StateAfter(C) ==
  IF Admissible(C, state, versions) THEN PostState(C, state) ELSE state

CommitReceipt(C) ==
  LET post == StateAfter(C)
      fps == [i \in Ids(C) |-> Footprint(WithId(C, i))]
  IN  [proposal_ids |-> Ids(C),
       transition_kind |-> Kind(C),
       diagnostic_only |-> \E c \in C : draft(c).diagnostic,
       checks |-> Checks(C),
       committed |-> Admissible(C, state, versions),
       pre_state |-> state,
       post_state |-> post,
       mismatch_before |-> LedgerOf(C, state),
       mismatch_after |-> LedgerOf(C, PostState(C, state)),
       snapshots |-> [i \in Ids(C) |-> proposals[WithId(C, i)].snapshot],
       footprints |-> fps,
       score_observed_reads |->
         IF EvaluatorRuns(C) THEN ScoreReadsOf(C, state) ELSE {},
       score_snapshot_reads |->
         UNION {DOMAIN proposals[c].snapshot : c \in C},
       conflict_edges |-> ExpectedConflictEdges(fps),
       read_set |-> ReadSet(C),
       write_set |-> WriteSet(C),
       protected_set |-> UnionCollar(C).protected_boundary,
       versions_before |-> versions,
       versions_after |-> Bump(versions, changed_registers(state, post)),
       rollback_root |-> state,
       transition_event |-> TransitionEvent(C),
       record_event |-> RecordEvents(Kind(C), TransitionEvent(C))]

(***************************************************************************)
(* The receipt of rollback(id): no footprints, no snapshots, the whole     *)
(* state as read set, and one made-up proposal id.  Its ledgers and its    *)
(* protected set, taken from the archived collar, enter no verdict.        *)
(***************************************************************************)
RollbackReceipt(id) ==
  LET exists == id \in DOMAIN archives
      current == exists /\ state = archives[id].post
      post == IF current THEN archives[id].pre ELSE state
      changed == changed_registers(state, post)
  IN  [proposal_ids |-> {"rollback"},
       transition_kind |-> "ROLLBACK",
       diagnostic_only |-> FALSE,
       checks |-> [rollback_root_exists |-> exists,
                   rollback_snapshot_current |-> current],
       committed |-> current,
       pre_state |-> state,
       post_state |-> post,
       snapshots |-> << >>,
       footprints |-> << >>,
       score_observed_reads |-> {},
       score_snapshot_reads |-> {},
       conflict_edges |-> {},
       read_set |-> Reg,
       write_set |-> changed,
       versions_before |-> versions,
       versions_after |-> Bump(versions, changed),
       rollback_root |-> state,
       transition_event |-> {},
       record_event |-> {}]

-----------------------------------------------------------------------------
(***************************************************************************)
(* The verdicts a receipt derives from its primitive fields.               *)
(***************************************************************************)
all_checks_passed(r) == \A n \in DOMAIN r.checks : r.checks[n]

CheckSchemaComplete(r) ==
  DOMAIN r.checks =
    IF r.transition_kind = "ROLLBACK" THEN RollbackChecks ELSE TransactionChecks

read_complete(f) ==
  /\ f.required_reads \subseteq f.declared_reads
  /\ f.observed_reads \subseteq f.declared_reads
  /\ f.snapshot_reads = f.declared_reads

DeclaredReads(r) == UNION {r.footprints[i].declared_reads : i \in DOMAIN r.footprints}
DeclaredWrites(r) == UNION {r.footprints[i].writes : i \in DOMAIN r.footprints}

COMPLETE_READ_SET_RECEIPT(r) ==
  /\ DOMAIN r.footprints # {}
  /\ \A i \in DOMAIN r.footprints : read_complete(r.footprints[i])
  /\ r.score_observed_reads \subseteq DeclaredReads(r) \cap r.score_snapshot_reads

(***************************************************************************)
(* One proposal without an edge, or a connected conflict graph.            *)
(***************************************************************************)
CONFLICT_COMPONENT_SUPPORT_RECEIPT(r) ==
  LET ids == DOMAIN r.footprints
  IN  /\ ids # {}
      /\ r.conflict_edges = ExpectedConflictEdges(r.footprints)
      /\ \A T \in SUBSET ids :
           T # {} /\ (\A e \in r.conflict_edges : e \cap T # {} => e \subseteq T)
             => T = ids

ATOMIC_UNION_REVALIDATION_RECEIPT(r) ==
  /\ CheckSchemaComplete(r)
  /\ r.transition_kind # "ROLLBACK"
  /\ r.checks.atomic_union_revalidated /\ r.checks.transition_contract
  /\ r.transition_kind = "STRICT_REPAIR" =>
       \E before \in r.mismatch_before, after \in r.mismatch_after :
         strict_repair_descends_from(after, before)
  /\ COMPLETE_READ_SET_RECEIPT(r)
  /\ CONFLICT_COMPONENT_SUPPORT_RECEIPT(r)

physical_repair_receipt(r) ==
  /\ r.committed
  /\ all_checks_passed(r)
  /\ ATOMIC_UNION_REVALIDATION_RECEIPT(r)
  /\ r.transition_kind = "STRICT_REPAIR"
  /\ ~r.diagnostic_only

(***************************************************************************)
(* _verify_repair_receipt_self_consistency.                                *)
(***************************************************************************)
ExpectedTransitionEvent(r) ==
  IF /\ r.committed
     /\ ~r.diagnostic_only
     /\ r.transition_kind \in {"STRICT_REPAIR", "RECORD_COMMIT"}
  THEN {EventOf(r.proposal_ids, r.transition_kind, r.pre_state, r.post_state,
                DeclaredReads(r) \cup DeclaredWrites(r))}
  ELSE {}

SelfConsistent(r) ==
  /\ CheckSchemaComplete(r)
  /\ DOMAIN r.footprints = r.proposal_ids
  /\ r.transition_kind # "ROLLBACK" =>
       Cardinality(DOMAIN r.snapshots) = Cardinality(DOMAIN r.footprints)
  /\ DOMAIN r.footprints # {} =>
       r.read_set = DeclaredReads(r) /\ r.write_set = DeclaredWrites(r)
  /\ r.rollback_root = r.pre_state
  /\ r.transition_event = ExpectedTransitionEvent(r)
  /\ r.record_event = RecordEvents(r.transition_kind, ExpectedTransitionEvent(r))
=============================================================================
