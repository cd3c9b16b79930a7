---------------------------- MODULE RepairReplay ----------------------------
(***************************************************************************)
(* The engine together with the receipts it hands out and an independent   *)
(* verifier that replays them: given the primitive inputs of a transaction *)
(* (state, versions, proposals) it builds a fresh engine, prepares every   *)
(* one in it, commits the batch and compares the receipt it gets           *)
(* (_instantiate_repair_replay, verify_repair_replay_envelope).            *)
(***************************************************************************)
EXTENDS RepairReceipt

CONSTANT NoReceipt

VARIABLES
  issued,      \* the receipt that the last committing call returned
  submitted    \* history: the proposals of the component it is about

replayVars == <<state, versions, archives, proposals, batch, batchStart, touched,
                issued, submitted>>

-----------------------------------------------------------------------------
(***************************************************************************)
(* What the replay is given of a proposal: the inverse is a primitive      *)
(* input, it is not computed again.                                        *)
(***************************************************************************)
ReplayInput == [draft : Draft, inverse : UNION {[R -> Value] : R \in SUBSET Ref}]

InputOf(c) == [draft |-> draft(c), inverse |-> proposals[c].inverse]

(***************************************************************************)
(* A fresh engine in state s with versions v: the inputs D are prepared in *)
(* it before any of them is committed.                                     *)
(***************************************************************************)
FreshProposals(s, v, D) ==
  [d \in D |->
     [draft |-> d.draft,
      snapshot |-> [r \in d.draft.declared |-> [value |-> s[r], version |-> v[r]]],
      observed |-> Observed(d.draft, s),
      updates |-> Recover(d.draft, s),
      inverse |-> d.inverse]]

Fresh(s, v, D) == INSTANCE RepairReceipt WITH
  Client <- ReplayInput, state <- s, versions <- v,
  proposals <- FreshProposals(s, v, D), archives <- << >>, batch <- {},
  batchStart <- [state |-> s, versions |-> v], touched <- [d \in D |-> {}]

(***************************************************************************)
(* The replay raises unless the proposals form one conflict component.     *)
(***************************************************************************)
ReplayIntegrity(r, D) ==
  LET s == r.pre_state
      v == r.versions_before
  IN  /\ \A d \in D : d.draft.declared \subseteq DOMAIN s
      /\ Fresh(s, v, D)!UniqueIds(D)
      /\ Fresh(s, v, D)!conflict_components(D) = {D}
      /\ SelfConsistent(r)
      /\ r = Fresh(s, v, D)!CommitReceipt(D)

-----------------------------------------------------------------------------
ReplayInit == Init /\ issued = NoReceipt /\ submitted = {}

Submit(C) == submitted' = {InputOf(c) : c \in C} /\ issued' = CommitReceipt(C)

PrepareDraft(c, d) == Prepare(c, d) /\ UNCHANGED <<issued, submitted>>

CommitProposal(c) == Commit(c) /\ Submit({c})

StartBatch(S) == CommitBatch(S) /\ UNCHANGED <<issued, submitted>>

CommitNext(C) == BatchStep(C) /\ Submit(C)

AbortBatch(C) == BatchRaise(C) /\ UNCHANGED <<issued, submitted>>

RollbackCommit(id) ==
  /\ Rollback(id)
  /\ issued' = RollbackReceipt(id)
  /\ submitted' = {}

(***************************************************************************)
(* An unknown commit id, or a later state is current: nothing changes, yet *)
(* a receipt that says so is returned.                                     *)
(***************************************************************************)
RefuseRollback(id) ==
  /\ Idle
  /\ ~(id \in DOMAIN archives /\ state = archives[id].post)
  /\ issued' = RollbackReceipt(id)
  /\ submitted' = {}
  /\ UNCHANGED vars

ReplayNext ==
  \/ \E c \in Client, d \in Draft : PrepareDraft(c, d)
  \/ \E c \in Client : CommitProposal(c)
  \/ \E S \in SUBSET Client : StartBatch(S)
  \/ \E C \in batch : CommitNext(C) \/ AbortBatch(C)
  \/ \E id \in DOMAIN archives : RollbackCommit(id)
  \/ \E id \in DOMAIN archives \cup {NoReceipt} : RefuseRollback(id)

ReplaySpec == ReplayInit /\ [][ReplayNext]_replayVars

-----------------------------------------------------------------------------
(***************************************************************************)
(* Every receipt of a commit, accepted or refused, passes the              *)
(* self-consistency diagnostic: the engine and the verifier compute event  *)
(* ids, aggregate footprints and check schema in two different places.     *)
(***************************************************************************)
CommitReceiptsVerify ==
  issued # NoReceipt /\ issued.transition_kind # "ROLLBACK" =>
    SelfConsistent(issued)

(***************************************************************************)
(* "Distributed engines should reproduce these component receipts with an  *)
(* independent verifier": whatever happened in the engine before, the      *)
(* receipt of a committed component is the one a fresh engine computes     *)
(* from the state, the versions and the submitted proposals alone.         *)
(***************************************************************************)
CommittedReceiptsReplay ==
  issued # NoReceipt /\ issued.transition_kind # "ROLLBACK" /\ issued.committed =>
    ReplayIntegrity(issued, submitted)

(***************************************************************************)
(* The last receipt describes the store: a refused call left it as it was, *)
(* and a physical repair receipt stands for a strictly lower ledger now.   *)
(***************************************************************************)
ReceiptsDescribeTheStore ==
  issued # NoReceipt =>
    /\ issued.post_state = state
    /\ issued.versions_after = versions
    /\ physical_repair_receipt(issued) =>
         LET k == CollarUnion({d.draft : d \in submitted})
         IN  strict_repair_descends_from(Evaluate(state, k),
                                         Evaluate(issued.pre_state, k))

(***************************************************************************)
(* The receipt of whatever changed the store verifies.  The diagnostic     *)
(* takes any receipt of the engine and makes an allowance for rollbacks    *)
(* (transaction.py:1362); yet it compares the footprint ids with           *)
(* proposal_ids, and a rollback has one proposal id and no footprint.      *)
(***************************************************************************)
AppliedReceiptsVerify ==
  issued # NoReceipt /\ issued.committed => SelfConsistent(issued)
=============================================================================
