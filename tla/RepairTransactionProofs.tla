---------------------- MODULE RepairTransactionProofs -----------------------
(***************************************************************************)
(* Safety of the transactional repair engine for every set of registers,   *)
(* values, clients, drafts and bound, and for every recovery map and       *)
(* mismatch evaluator that satisfy the assumptions of RepairContract.      *)
(***************************************************************************)
EXTENDS RepairTransaction, TLAPS

(***************************************************************************)
(* The union of several updates takes every value from one of them.        *)
(***************************************************************************)
LEMMA CombinedPicks ==
  ASSUME NEW U
  PROVE  /\ DOMAIN Combined(U) = UNION {DOMAIN u : u \in U}
         /\ \A r \in DOMAIN Combined(U) :
              \E u \in U : r \in DOMAIN u /\ Combined(U)[r] = u[r]
BY DEF Combined

(***************************************************************************)
(* An admissible component rewrites registers the engine has, with values. *)
(* Admissible is opened here once: the type proof needs this lemma only.   *)
(***************************************************************************)
LEMMA PostStateType ==
  ASSUME TypeOK, NEW C \in SUBSET Holders, C # {},
         Admissible(C, state, versions)
  PROVE  PostState(C, state) \in State
<1>1. \A c \in C : IsProposal(proposals[c])
  BY DEF TypeOK
<1>2. ASSUME NEW c \in C
      PROVE  DOMAIN proposals[c].updates \subseteq Reg
  <2>1. RequiredReads(draft(c).collar, write_set(c)) \subseteq declared_read_set(c)
    BY DEF Admissible, complete_read_set
  <2>2. write_set(c) \subseteq declared_read_set(c)
    BY <2>1 DEF RequiredReads
  <2>3. declared_read_set(c) \subseteq Reg
    BY <1>1 DEF IsProposal, declared_read_set, draft
  <2> QED
    BY <2>2, <2>3 DEF write_set
<1>3. \A u \in UpdatesOf(C) : DOMAIN u \subseteq Reg /\ u \in [DOMAIN u -> Value]
  BY <1>1, <1>2 DEF UpdatesOf, IsProposal, IsUpdates
<1>4. /\ DOMAIN Combined(UpdatesOf(C)) \subseteq Reg
      /\ \A r \in DOMAIN Combined(UpdatesOf(C)) : Combined(UpdatesOf(C))[r] \in Value
  <2> DEFINE w == Combined(UpdatesOf(C))
  <2>1. /\ DOMAIN w = UNION {DOMAIN u : u \in UpdatesOf(C)}
        /\ \A r \in DOMAIN w : \E u \in UpdatesOf(C) : r \in DOMAIN u /\ w[r] = u[r]
    BY CombinedPicks
  <2> HIDE DEF w
  <2>2. \A r \in DOMAIN w : w[r] \in Value
    BY <1>3, <2>1
  <2>3. DOMAIN w \subseteq Reg
    BY <1>3, <2>1
  <2> QED
    BY <2>2, <2>3 DEF w
<1>5. Override(state, Combined(UpdatesOf(C))) \in State
  BY <1>4 DEF TypeOK, Override, State
<1> QED
  BY <1>5 DEF PostState, Admissible, EvaluatorRuns

(***************************************************************************)
(* Install writes a well-typed state and moves versions by at most one.    *)
(***************************************************************************)
LEMMA InstallType ==
  ASSUME TypeOK, NEW t \in State, Install(t)
  PROVE  /\ state' = t
         /\ versions' \in [Reg -> 0..MaxVersion]
         /\ touched' \in [Client -> SUBSET Reg]
         /\ \A c \in Client :
              touched'[c] = touched[c] \cup changed_registers(state, t)
         /\ \A r \in Reg : versions'[r] =
              IF state[r] # t[r] THEN versions[r] + 1 ELSE versions[r]
<1>1. state \in [Reg -> Value] /\ t \in [Reg -> Value]
  BY DEF TypeOK, State
<1>2. changed_registers(state, t) = {r \in Reg : state[r] # t[r]}
  BY <1>1 DEF changed_registers
<1>3. versions \in [Reg -> 0..MaxVersion] /\ touched \in [Client -> SUBSET Reg]
  BY DEF TypeOK
<1>4. \A r \in Reg : versions'[r] =
              IF state[r] # t[r] THEN versions[r] + 1 ELSE versions[r]
  BY <1>2 DEF Install, Bump
<1>5. \A r \in Reg : versions'[r] \in 0..MaxVersion
  BY <1>2, <1>3, <1>4, MaxVersionAssumption DEF Install
<1>6. versions' \in [Reg -> 0..MaxVersion]
  BY <1>5 DEF Install, Bump
<1> QED
  BY <1>2, <1>3, <1>4, <1>6 DEF Install

(***************************************************************************)
(* What a commit_component step does, admissible or not.                   *)
(***************************************************************************)
LEMMA CommitType ==
  ASSUME TypeOK, NEW C \in SUBSET Holders, C # {}, commit_component(C)
  PROVE  /\ state' \in State
         /\ versions' \in [Reg -> 0..MaxVersion]
         /\ touched' \in [Client -> SUBSET Reg]
         /\ \A id \in DOMAIN archives' : /\ archives'[id].pre \in State
                                         /\ archives'[id].post \in State
                                         /\ id.versions_before \in Versions
<1>1. CASE ~Admissible(C, state, versions)
  BY <1>1 DEF commit_component, TypeOK
<1>2. CASE Admissible(C, state, versions)
  <2>1. PostState(C, state) \in State
    BY <1>2, PostStateType
  <2>2. Install(PostState(C, state)) /\ Archive(C)
    BY <1>2 DEF commit_component
  <2>3. versions \in Versions
    BY MaxVersionAssumption DEF TypeOK, Versions
  <2>4. ASSUME NEW id \in DOMAIN archives'
        PROVE  /\ archives'[id].pre \in State
               /\ archives'[id].post \in State
               /\ id.versions_before \in Versions
    <3>1. CASE id = commit_id(Receipt(C))
      BY <2>1, <2>2, <2>3, <3>1 DEF Archive, commit_id, Receipt, TypeOK
    <3>2. CASE id # commit_id(Receipt(C))
      BY <2>2, <3>2 DEF Archive, TypeOK
    <3> QED
      BY <3>1, <3>2
  <2> QED
    BY <2>1, <2>2, <2>4, InstallType
<1> QED
  BY <1>1, <1>2

(***************************************************************************)
(* A prepared proposal is well formed, whatever the recovery map returned. *)
(***************************************************************************)
LEMMA PrepareProposal ==
  ASSUME TypeOK, NEW d \in Draft, d.declared \subseteq Reg
  PROVE  IsProposal(prepare_proposal(d))
<1>1. state \in State /\ state \in [Reg -> Value]
  BY DEF TypeOK, State
<1>2. versions \in [Reg -> 0..MaxVersion]
  BY DEF TypeOK
<1>3. Capture(d) \in [d.declared -> [value : Value, version : 0..MaxVersion]]
  BY <1>1, <1>2 DEF Capture
<1>4. /\ IsUpdates(Recover(d, state))
      /\ IsUpdates(InverseUpdates(d, state))
      /\ Observed(d, state) \subseteq Reg
  BY <1>1, RecoverAssumption
<1> QED
  BY <1>3, <1>4 DEF IsProposal, prepare_proposal

(***************************************************************************)
(* Type correctness: the register set never changes, versions stay within  *)
(* their bound, proposals and archives hold states of this engine.         *)
(***************************************************************************)
THEOREM TypeCorrect == Spec => []TypeOK
<1>1. Init => TypeOK
  <2> SUFFICES ASSUME Init PROVE TypeOK
    OBVIOUS
  <2>1. state \in State /\ DOMAIN archives = {} /\ batchStart = NoBatch
    BY InitStateAssumption DEF Init
  <2>2. Holders = {}
    BY DEF Init, Holders
  <2>3. versions \in [Reg -> 0..MaxVersion]
    BY MaxVersionAssumption DEF Init
  <2>4. NoBatch \in [state : State, versions : Versions]
    BY InitStateAssumption DEF NoBatch, Versions
  <2> QED
    BY <2>1, <2>2, <2>3, <2>4 DEF Init, TypeOK
<1>2. TypeOK /\ [Next]_vars => TypeOK'
  <2> SUFFICES ASSUME TypeOK, [Next]_vars
               PROVE  TypeOK'
    OBVIOUS
  <2>0. NoBatch \in [state : State, versions : Versions]
    BY InitStateAssumption DEF NoBatch, Versions
  <2>1. ASSUME NEW c \in Client, NEW d \in Draft, Prepare(c, d)
        PROVE  TypeOK'
    <3>1. IsProposal(prepare_proposal(d))
      BY <2>1, PrepareProposal DEF Prepare
    <3>2. batch = {} /\ batch' = {}
      BY <2>1 DEF Prepare, Idle
    <3>3. /\ DOMAIN proposals' = Client
          /\ \A b \in Client : proposals'[b] = IF b = c THEN prepare_proposal(d)
                                              ELSE proposals[b]
      BY <2>1 DEF Prepare, TypeOK
    <3>4. \A b \in Holders' : IsProposal(proposals[b]')
      BY <3>1, <3>3 DEF TypeOK, Holders
    <3> QED
      BY <2>1, <3>2, <3>3, <3>4 DEF Prepare, TypeOK
  <2>2. ASSUME NEW c \in Client, Commit(c)
        PROVE  TypeOK'
    <3>1. c \in Holders /\ commit_component({c})
          /\ UNCHANGED <<proposals, batch, batchStart>>
      BY <2>2 DEF Commit
    <3>2. Holders' = Holders
      BY <3>1 DEF Holders
    <3> QED
      BY <3>1, <3>2, CommitType DEF TypeOK
  <2>3. ASSUME NEW S \in SUBSET Client, CommitBatch(S)
        PROVE  TypeOK'
    <3>1. S \subseteq Holders
      BY <2>3 DEF CommitBatch
    <3>2. batch' \subseteq (SUBSET Holders) \ {{}}
      <4> SUFFICES ASSUME NEW c \in S
                   PROVE  Component(c, S) \in (SUBSET Holders) \ {{}}
        BY <2>3 DEF CommitBatch, conflict_components
      <4>1. c \in Component(c, S)
        BY DEF Component
      <4> QED
        BY <3>1, <4>1 DEF Component
    <3>3. batchStart' \in [state : State, versions : Versions]
      BY <2>3, MaxVersionAssumption DEF CommitBatch, TypeOK, Versions
    <3>4. UNCHANGED <<state, versions, archives, proposals, touched>>
      BY <2>3 DEF CommitBatch
    <3>5. Holders' = Holders
      BY <3>4 DEF Holders
    <3> QED
      BY <3>2, <3>3, <3>4, <3>5 DEF TypeOK
  <2>4. ASSUME NEW C \in batch, BatchStep(C)
        PROVE  TypeOK'
    <3>1. C \in SUBSET Holders /\ C # {}
      BY DEF TypeOK
    <3>2. /\ commit_component(C) /\ UNCHANGED proposals
          /\ batch' \subseteq batch
          /\ batchStart' \in {batchStart, NoBatch}
      BY <2>4 DEF BatchStep
    <3>3. Holders' = Holders
      BY <3>2 DEF Holders
    <3> QED
      BY <2>0, <3>1, <3>2, <3>3, CommitType DEF TypeOK
  <2>5. ASSUME NEW C \in batch, BatchRaise(C)
        PROVE  TypeOK'
    <3>1. Holders' = Holders
      BY <2>5 DEF BatchRaise, Holders
    <3> QED
      BY <2>0, <2>5, <3>1 DEF BatchRaise, TypeOK
  <2>6. ASSUME NEW id \in DOMAIN archives, Rollback(id)
        PROVE  TypeOK'
    <3>1. archives[id].pre \in State /\ Install(archives[id].pre)
      BY <2>6 DEF Rollback, TypeOK
    <3>2. UNCHANGED <<archives, proposals, batch, batchStart>>
      BY <2>6 DEF Rollback
    <3>3. Holders' = Holders
      BY <3>2 DEF Holders
    <3> QED
      BY <3>1, <3>2, <3>3, InstallType DEF TypeOK
  <2>7. CASE UNCHANGED vars
    BY <2>7 DEF vars, TypeOK, Holders
  <2> QED
    BY <2>1, <2>2, <2>3, <2>4, <2>5, <2>6, <2>7 DEF Next
<1> QED
  BY <1>1, <1>2, PTL DEF Spec

-----------------------------------------------------------------------------
(***************************************************************************)
(* The three ways a step can go: a proposal is prepared, a state is        *)
(* installed by a commit or by a rollback, or nothing of the store moves.  *)
(***************************************************************************)
CommitStep(C) ==
  /\ C \in SUBSET Holders /\ C # {}
  /\ Admissible(C, state, versions)
  /\ Install(PostState(C, state))
  /\ Archive(C)
  /\ UNCHANGED proposals

RollbackStep(id) ==
  /\ state = archives[id].post
  /\ Install(archives[id].pre)
  /\ UNCHANGED <<archives, proposals>>

StoreUnchanged == UNCHANGED <<state, versions, archives, proposals, touched>>

LEMMA StepCases ==
  ASSUME TypeOK, [Next]_vars
  PROVE  \/ \E c \in Client, d \in Draft : Prepare(c, d)
         \/ \E C \in SUBSET Holders : CommitStep(C)
         \/ \E id \in DOMAIN archives : RollbackStep(id)
         \/ StoreUnchanged
<1>1. ASSUME NEW C \in SUBSET Holders, C # {}, commit_component(C),
             UNCHANGED proposals
      PROVE  CommitStep(C) \/ StoreUnchanged
  BY <1>1 DEF commit_component, CommitStep, StoreUnchanged
<1>2. ASSUME NEW c \in Client, Commit(c)
      PROVE  CommitStep({c}) \/ StoreUnchanged
  BY <1>1, <1>2 DEF Commit
<1>3. ASSUME NEW C \in batch, BatchStep(C)
      PROVE  C \in SUBSET Holders /\ (CommitStep(C) \/ StoreUnchanged)
  <2>1. C \in SUBSET Holders /\ C # {}
    BY DEF TypeOK
  <2> QED
    BY <1>1, <1>3, <2>1 DEF BatchStep
<1>4. ASSUME NEW S \in SUBSET Client, CommitBatch(S)
      PROVE  StoreUnchanged
  BY <1>4 DEF CommitBatch, StoreUnchanged
<1>5. ASSUME NEW C \in batch, BatchRaise(C)
      PROVE  StoreUnchanged
  BY <1>5 DEF BatchRaise, StoreUnchanged
<1>6. ASSUME NEW id \in DOMAIN archives, Rollback(id)
      PROVE  RollbackStep(id)
  BY <1>6 DEF Rollback, RollbackStep
<1>7. CASE UNCHANGED vars
  BY <1>7 DEF vars, StoreUnchanged
<1>8. ASSUME NEW c \in Client, Commit(c)
      PROVE  {c} \in SUBSET Holders
  BY <1>8 DEF Commit
<1> QED
  BY <1>2, <1>3, <1>4, <1>5, <1>6, <1>7, <1>8 DEF Next

(***************************************************************************)
(* An admissible component changes at least one register: every transition *)
(* law asks for it.                                                        *)
(***************************************************************************)
LEMMA AdmissibleChanges ==
  ASSUME NEW C, Admissible(C, state, versions)
  PROVE  changed_registers(state, PostState(C, state)) # {}
BY DEF Admissible, transition_contract, TransitionLaw, StrictRepairLaw,
       NeutralLaw, RecordCommitLaw

(***************************************************************************)
(* Installing a state moves the version of every register it changes.      *)
(***************************************************************************)
LEMMA InstallVouches ==
  ASSUME TypeOK, VersionsVouch, NEW t \in State, Install(t), UNCHANGED proposals
  PROVE  VersionsVouch'
<1> SUFFICES ASSUME NEW c \in Holders, NEW r \in declared_read_set(c)
             PROVE  /\ proposals[c].snapshot[r].version <= versions'[r]
                    /\ proposals[c].snapshot[r].version = versions'[r] =>
                         /\ r \notin touched'[c]
                         /\ proposals[c].snapshot[r].value = state'[r]
  BY DEF VersionsVouch, Holders, declared_read_set, draft
<1> DEFINE snap == proposals[c].snapshot[r]
<1>1. /\ r \in Reg /\ c \in Client
      /\ snap.version \in Nat
  <2>1. IsProposal(proposals[c]) /\ c \in Client
    BY DEF TypeOK, Holders
  <2>2. r \in Reg /\ snap \in [value : Value, version : 0..MaxVersion]
    BY <2>1 DEF IsProposal, declared_read_set, draft
  <2> QED
    BY <2>1, <2>2, MaxVersionAssumption
<1>2. versions[r] \in Nat
  BY <1>1, MaxVersionAssumption DEF TypeOK
<1>3. /\ snap.version <= versions[r]
      /\ snap.version = versions[r] => r \notin touched[c] /\ snap.value = state[r]
  BY DEF VersionsVouch
<1>4. /\ state' = t
      /\ touched'[c] = touched[c] \cup changed_registers(state, t)
      /\ versions'[r] = IF state[r] # t[r] THEN versions[r] + 1 ELSE versions[r]
  BY <1>1, InstallType
<1>5. CASE state[r] # t[r]
  BY <1>1, <1>2, <1>3, <1>4, <1>5
<1>6. CASE state[r] = t[r]
  <2>1. r \notin changed_registers(state, t)
    BY <1>1, <1>6 DEF changed_registers, TypeOK, State
  <2> QED
    BY <1>1, <1>2, <1>3, <1>4, <1>6, <2>1
<1> QED
  BY <1>5, <1>6

(***************************************************************************)
(* What is past stays past: no installed state lowers a version.           *)
(***************************************************************************)
LEMMA InstallKeepsPast ==
  ASSUME TypeOK, ArchiveIsPast, NEW t \in State, Install(t),
         NEW id \in DOMAIN archives
  PROVE  /\ \A r \in Reg : id.versions_before[r] <= versions'[r]
         /\ \E r \in Reg : id.versions_before[r] < versions'[r]
<1>1. \A r \in Reg : versions[r] \in Nat /\ id.versions_before[r] \in Nat
  BY MaxVersionAssumption DEF TypeOK, Versions
<1>2. \A r \in Reg : versions'[r] = versions[r] \/ versions'[r] = versions[r] + 1
  BY InstallType
<1>3. /\ \A r \in Reg : id.versions_before[r] <= versions[r]
      /\ \E r \in Reg : id.versions_before[r] < versions[r]
  BY DEF ArchiveIsPast
<1> QED
  BY <1>1, <1>2, <1>3

(***************************************************************************)
(* HistoryInv is inductive relative to TypeOK.                             *)
(***************************************************************************)
LEMMA HistoryStep ==
  ASSUME TypeOK, HistoryInv, [Next]_vars
  PROVE  HistoryInv'
<1>1. ASSUME NEW c \in Client, NEW d \in Draft, Prepare(c, d)
      PROVE  HistoryInv'
  <2>1. /\ \A b \in Client : proposals'[b] = IF b = c THEN prepare_proposal(d)
                                            ELSE proposals[b]
        /\ \A b \in Client : touched'[b] = IF b = c THEN {} ELSE touched[b]
        /\ UNCHANGED <<state, versions, archives>>
    BY <1>1 DEF Prepare, TypeOK
  <2>2. d.declared \subseteq Reg /\ versions \in [Reg -> 0..MaxVersion]
    BY <1>1 DEF Prepare, TypeOK
  <2>3. VersionsVouch'
    <3> SUFFICES ASSUME NEW b \in Holders', NEW r \in declared_read_set(b)'
                 PROVE  LET snap == proposals'[b].snapshot[r]
                        IN  /\ snap.version <= versions[r]
                            /\ snap.version = versions[r] =>
                                 /\ r \notin touched'[b]
                                 /\ snap.value = state[r]
      BY <2>1 DEF VersionsVouch
    <3>0. b \in Client
      BY DEF Holders
    <3>1. CASE b = c
      <4>1. r \in d.declared /\ proposals'[b].snapshot = Capture(d)
        BY <2>1, <3>0, <3>1 DEF declared_read_set, draft, prepare_proposal
      <4>2. /\ proposals'[b].snapshot[r].value = state[r]
            /\ proposals'[b].snapshot[r].version = versions[r]
        BY <4>1 DEF Capture
      <4>3. versions[r] \in Nat
        BY <4>1, <2>2, MaxVersionAssumption
      <4> QED
        BY <2>1, <3>0, <3>1, <4>2, <4>3
    <3>2. CASE b # c
      <4>1. b \in Holders /\ r \in declared_read_set(b)
        BY <2>1, <3>0, <3>2 DEF Holders, declared_read_set, draft
      <4> QED
        BY <2>1, <3>0, <3>2, <4>1 DEF HistoryInv, VersionsVouch
    <3> QED
      BY <3>1, <3>2
  <2>4. ProposalsHaveASource'
    <3> SUFFICES ASSUME NEW b \in Holders'
                 PROVE  \E s \in State :
                          /\ proposals'[b].updates = Recover(draft(b)', s)
                          /\ proposals'[b].observed = Observed(draft(b)', s)
                          /\ \A r \in declared_read_set(b)' :
                               proposals'[b].snapshot[r].value = s[r]
      BY DEF ProposalsHaveASource
    <3>0. b \in Client
      BY DEF Holders
    <3>1. CASE b = c
      <4>1. proposals'[b] = prepare_proposal(d)
        BY <2>1, <3>0, <3>1
      <4>2. draft(b)' = d /\ declared_read_set(b)' = d.declared
        BY <4>1 DEF draft, declared_read_set, prepare_proposal
      <4>3. \A r \in d.declared : proposals'[b].snapshot[r].value = state[r]
        BY <4>1 DEF prepare_proposal, Capture
      <4>4. state \in State
        BY DEF TypeOK
      <4> QED
        BY <4>1, <4>2, <4>3, <4>4 DEF prepare_proposal
    <3>2. CASE b # c
      <4>1. b \in Holders /\ proposals'[b] = proposals[b]
        BY <2>1, <3>0, <3>2 DEF Holders
      <4>2. draft(b)' = draft(b) /\ declared_read_set(b)' = declared_read_set(b)
        BY <4>1 DEF draft, declared_read_set
      <4> QED
        BY <4>1, <4>2 DEF HistoryInv, ProposalsHaveASource
    <3> QED
      BY <3>1, <3>2
  <2> QED
    BY <2>1, <2>3, <2>4 DEF HistoryInv, ArchiveIsPast
<1>2. ASSUME NEW C \in SUBSET Holders, CommitStep(C)
      PROVE  HistoryInv'
  <2> DEFINE t == PostState(C, state)
             new == commit_id(Receipt(C))
  <2>1. t \in State /\ Install(t) /\ UNCHANGED proposals
    BY <1>2, PostStateType DEF CommitStep
  <2>2. VersionsVouch'
    BY <2>1, InstallVouches DEF HistoryInv
  <2>3. ProposalsHaveASource'
    BY <2>1 DEF HistoryInv, ProposalsHaveASource, Holders, draft, declared_read_set
  <2>4. ASSUME NEW id \in DOMAIN archives'
        PROVE  /\ archives'[id] = [pre |-> id.pre, post |-> id.post]
               /\ \A r \in Reg : id.versions_before[r] <= versions'[r]
               /\ \E r \in Reg : id.versions_before[r] < versions'[r]
    <3>1. CASE id = new
      <4>1. archives'[id] = [pre |-> state, post |-> t]
        BY <1>2, <3>1 DEF CommitStep, Archive, Receipt
      <4>2. id.pre = state /\ id.post = t /\ id.versions_before = versions
        BY <3>1 DEF commit_id, Receipt
      <4>3. PICK r \in Reg : state[r] # t[r]
        BY <1>2, <2>1, AdmissibleChanges
           DEF CommitStep, changed_registers, State, TypeOK
      <4>4. \A q \in Reg : /\ versions[q] \in Nat
                           /\ versions'[q] = IF state[q] # t[q]
                                             THEN versions[q] + 1 ELSE versions[q]
        BY <2>1, InstallType, MaxVersionAssumption DEF TypeOK
      <4> HIDE DEF t
      <4> QED
        BY <4>1, <4>2, <4>3, <4>4
    <3>2. CASE id # new
      <4>1. id \in DOMAIN archives /\ archives'[id] = archives[id]
        BY <1>2, <3>2 DEF CommitStep, Archive
      <4>2. archives[id] = [pre |-> id.pre, post |-> id.post]
        BY <4>1 DEF HistoryInv, ArchiveIsPast
      <4> QED
        BY <2>1, <4>1, <4>2, InstallKeepsPast DEF HistoryInv
    <3> QED
      BY <3>1, <3>2
  <2>5. ArchiveIsPast'
    BY <2>4 DEF ArchiveIsPast
  <2> QED
    BY <2>2, <2>3, <2>5 DEF HistoryInv
<1>3. ASSUME NEW id \in DOMAIN archives, RollbackStep(id)
      PROVE  HistoryInv'
  <2>1. /\ archives[id].pre \in State /\ Install(archives[id].pre)
        /\ UNCHANGED <<archives, proposals>>
    BY <1>3 DEF RollbackStep, TypeOK
  <2>2. VersionsVouch'
    BY <2>1, InstallVouches DEF HistoryInv
  <2>3. ProposalsHaveASource'
    BY <2>1 DEF HistoryInv, ProposalsHaveASource, Holders, draft, declared_read_set
  <2>4. ArchiveIsPast'
    BY <2>1, InstallKeepsPast DEF HistoryInv, ArchiveIsPast
  <2> QED
    BY <2>2, <2>3, <2>4 DEF HistoryInv
<1>4. CASE StoreUnchanged
  BY <1>4 DEF StoreUnchanged, HistoryInv, VersionsVouch, ProposalsHaveASource,
              ArchiveIsPast, Holders, draft, declared_read_set
<1> QED
  BY <1>1, <1>2, <1>3, <1>4, StepCases

(***************************************************************************)
(* The inductive strengthening holds throughout.                           *)
(***************************************************************************)
LEMMA HistoryHolds == Spec => []HistoryInv
<1>1. Init => HistoryInv
  <2> SUFFICES ASSUME Init PROVE HistoryInv
    OBVIOUS
  <2>1. Holders = {} /\ DOMAIN archives = {}
    BY DEF Init, Holders
  <2> QED
    BY <2>1 DEF HistoryInv, VersionsVouch, ProposalsHaveASource, ArchiveIsPast
<1>2. TypeOK /\ HistoryInv /\ [Next]_vars => HistoryInv'
  BY HistoryStep
<1> QED
  BY <1>1, <1>2, TypeCorrect, PTL DEF Spec

-----------------------------------------------------------------------------
(***************************************************************************)
(* snapshot_current lets no proposal through that missed a change of a     *)
(* register it declared, even a change that was undone.                    *)
(***************************************************************************)
THEOREM FreshnessIsHistorical == Spec => []FreshMeansUntouched
<1>1. TypeOK /\ HistoryInv => FreshMeansUntouched
  <2> SUFFICES ASSUME TypeOK, HistoryInv, NEW c \in Holders,
                      snapshot_current({c}, state, versions),
                      NEW r \in declared_read_set(c)
               PROVE  r \notin touched[c]
    BY DEF FreshMeansUntouched
  <2>1. r \in DOMAIN proposals[c].snapshot
    BY DEF TypeOK, IsProposal, declared_read_set, draft
  <2>2. versions[r] = proposals[c].snapshot[r].version
    BY <2>1 DEF snapshot_current
  <2> QED
    BY <2>2 DEF HistoryInv, VersionsVouch
<1> QED
  BY <1>1, TypeCorrect, HistoryHolds, PTL

(***************************************************************************)
(* A proposal with a complete and current read set has the updates its     *)
(* recovery map would compute now.                                         *)
(***************************************************************************)
LEMMA FreshUpdates ==
  ASSUME TypeOK, HistoryInv, NEW c \in Holders,
         complete_read_set({c}), snapshot_current({c}, state, versions)
  PROVE  /\ proposals[c].updates = Recover(draft(c), state)
         /\ proposals[c].observed = Observed(draft(c), state)
<1>1. PICK s \in State :
        /\ proposals[c].updates = Recover(draft(c), s)
        /\ proposals[c].observed = Observed(draft(c), s)
        /\ \A r \in declared_read_set(c) : proposals[c].snapshot[r].value = s[r]
  BY DEF HistoryInv, ProposalsHaveASource
<1>2. draft(c) \in Draft /\ state \in State
      /\ DOMAIN proposals[c].snapshot = declared_read_set(c)
  BY DEF TypeOK, IsProposal, draft, declared_read_set
<1>3. Observed(draft(c), s) \subseteq declared_read_set(c)
  BY <1>1 DEF complete_read_set
<1>4. \A r \in declared_read_set(c) : s[r] = state[r]
  BY <1>1, <1>2 DEF snapshot_current
<1>5. Agree(s, state, Observed(draft(c), s))
  BY <1>3, <1>4 DEF Agree
<1> QED
  BY <1>1, <1>2, <1>5, RecoverAssumption

(***************************************************************************)
(* Strict serializability of the engine: a proposal that passes the read-set *)
(* and freshness checks carries what its recovery would compute now.       *)
(***************************************************************************)
THEOREM FreshnessIsRerun == Spec => []FreshMeansRerun
<1>1. TypeOK /\ HistoryInv => FreshMeansRerun
  BY FreshUpdates DEF FreshMeansRerun
<1> QED
  BY <1>1, TypeCorrect, HistoryHolds, PTL

(***************************************************************************)
(* Every change of the state is a commit archived under a new id or the    *)
(* exact undoing of an archived commit.                                    *)
(***************************************************************************)
THEOREM StateChangesAreArchived == Spec => CommitsAreArchived
<1> DEFINE A == state' # state =>
       \/ \E id \in DOMAIN archives' \ DOMAIN archives :
             archives'[id] = [pre |-> state, post |-> state']
       \/ \E id \in DOMAIN archives :
             archives[id] = [pre |-> state', post |-> state]
<1>1. TypeOK /\ HistoryInv /\ [Next]_vars => A
  <2> SUFFICES ASSUME TypeOK, HistoryInv, [Next]_vars, state' # state
               PROVE  A
    OBVIOUS
  <2>1. ASSUME NEW c \in Client, NEW d \in Draft, Prepare(c, d)
        PROVE  FALSE
    BY <2>1 DEF Prepare
  <2>2. ASSUME NEW C \in SUBSET Holders, CommitStep(C)
        PROVE  A
    <3> DEFINE new == commit_id(Receipt(C))
    <3>1. state' = PostState(C, state)
      BY <2>2 DEF CommitStep, Install
    <3>2. new \in DOMAIN archives'
          /\ archives'[new] = [pre |-> state, post |-> state']
      BY <2>2, <3>1 DEF CommitStep, Archive, Receipt
    <3>3. new.versions_before = versions
      BY DEF commit_id, Receipt
    <3>4. \A r \in Reg : versions[r] \in Nat
      BY MaxVersionAssumption DEF TypeOK
    <3>5. new \notin DOMAIN archives
      BY <3>3, <3>4 DEF HistoryInv, ArchiveIsPast
    <3> QED
      BY <3>2, <3>5
  <2>3. ASSUME NEW id \in DOMAIN archives, RollbackStep(id)
        PROVE  A
    <3>1. state' = archives[id].pre /\ state = archives[id].post
      BY <2>3 DEF RollbackStep, Install
    <3>2. archives[id] = [pre |-> id.pre, post |-> id.post]
      BY DEF HistoryInv, ArchiveIsPast
    <3> QED
      BY <3>1, <3>2
  <2>4. CASE StoreUnchanged
    BY <2>4 DEF StoreUnchanged
  <2> QED
    BY <2>1, <2>2, <2>3, <2>4, StepCases
<1>2. TypeOK /\ HistoryInv /\ [Next]_vars => [A]_vars
  BY <1>1
<1> QED
  BY <1>2, TypeCorrect, HistoryHolds, PTL DEF Spec, CommitsAreArchived

-----------------------------------------------------------------------------
(***************************************************************************)
(* The transactional repair engine implements AtomicRepair.                *)
(***************************************************************************)
(***************************************************************************)
(* The definitions of RepairContract are the same seen through INSTANCE.   *)
(***************************************************************************)
LEMMA SameContract ==
  /\ \A kind, k, s, t : Atomic!TransitionLaw(kind, k, s, t)
                          <=> TransitionLaw(kind, k, s, t)
  /\ \A kind, k, s, t : Atomic!ProtectedPreserved(kind, k, s, t)
                          <=> ProtectedPreserved(kind, k, s, t)
  /\ \A R, s, t : Atomic!Preserved(R, s, t) <=> Preserved(R, s, t)
  /\ \A D : Atomic!CollarUnion(D) = CollarUnion(D)
  /\ \A s, u : Atomic!Override(s, u) = Override(s, u)
  /\ \A k, w : Atomic!RequiredReads(k, w) = RequiredReads(k, w)
  /\ \A U : Atomic!Compatible(U) <=> Compatible(U)
  /\ \A U : Atomic!Combined(U) = Combined(U)
<1>1. \A s, t : Atomic!changed_registers(s, t) = changed_registers(s, t)
  BY DEF Atomic!changed_registers, changed_registers
<1>2. \A a, b : Atomic!strict_repair_descends_from(a, b)
                  <=> strict_repair_descends_from(a, b)
  BY DEF Atomic!strict_repair_descends_from, strict_repair_descends_from,
         Atomic!auxiliary_names, auxiliary_names, Atomic!auxiliary_values,
         auxiliary_values, Atomic!visible_vector, visible_vector,
         Atomic!LexLess, LexLess
<1>3. \A R, s, t : Atomic!Preserved(R, s, t) <=> Preserved(R, s, t)
  BY DEF Atomic!Preserved, Preserved
<1>4. \A kind, k, s, t : Atomic!TransitionLaw(kind, k, s, t)
                           <=> TransitionLaw(kind, k, s, t)
  BY <1>1, <1>2 DEF Atomic!TransitionLaw, TransitionLaw,
     Atomic!StrictRepairLaw, StrictRepairLaw, Atomic!NeutralLaw, NeutralLaw,
     Atomic!RecordCommitLaw, RecordCommitLaw,
     Atomic!SemanticRegisters, SemanticRegisters
<1>5. \A kind, k, s, t : Atomic!ProtectedPreserved(kind, k, s, t)
                           <=> ProtectedPreserved(kind, k, s, t)
  BY <1>3 DEF Atomic!ProtectedPreserved, ProtectedPreserved
<1>6. \A D : Atomic!CollarUnion(D) = CollarUnion(D)
  BY DEF Atomic!CollarUnion, CollarUnion
<1>7. \A s, u : Atomic!Override(s, u) = Override(s, u)
  BY DEF Atomic!Override, Override
<1>8. \A k, w : Atomic!RequiredReads(k, w) = RequiredReads(k, w)
  BY DEF Atomic!RequiredReads, RequiredReads
<1>9. \A U : Atomic!Compatible(U) <=> Compatible(U)
  BY DEF Atomic!Compatible, Compatible
<1>10. \A U : Atomic!Combined(U) = Combined(U)
  BY DEF Atomic!Combined, Combined
<1> QED
  BY <1>3, <1>4, <1>5, <1>6, <1>7, <1>8, <1>9, <1>10

(***************************************************************************)
(* An admissible component is the simultaneous rerun of its drafts: its    *)
(* updates are those that their recoveries compute now.                    *)
(***************************************************************************)
LEMMA AdmissibleIsRerun ==
  ASSUME TypeOK, HistoryInv, NEW C \in SUBSET Holders,
         Admissible(C, state, versions)
  PROVE  Atomic!Rerun({draft(c) : c \in C}, state) = UpdatesOf(C)
<1>1. ASSUME NEW c \in C
      PROVE  proposals[c].updates = Recover(draft(c), state)
  <2>1. complete_read_set({c}) /\ snapshot_current({c}, state, versions)
    BY DEF Admissible, complete_read_set, snapshot_current
  <2> QED
    BY <2>1, FreshUpdates
<1> QED
  BY <1>1 DEF Atomic!Rerun, UpdatesOf

(***************************************************************************)
(* Hence it is acceptable to the abstract specification.                   *)
(***************************************************************************)
LEMMA AdmissibleIsAcceptable ==
  ASSUME TypeOK, HistoryInv, NEW C \in SUBSET Holders, C # {},
         Admissible(C, state, versions)
  PROVE  LET D == {draft(c) : c \in C}
         IN  /\ D \in (SUBSET Draft) \ {{}}
             /\ Atomic!Acceptable(D, state)
             /\ PostState(C, state) = Override(state, Combined(Atomic!Rerun(D, state)))
<1> DEFINE D == {draft(c) : c \in C}
           t == Override(state, Combined(Atomic!Rerun(D, state)))
<1>1. D \in (SUBSET Draft) \ {{}}
  <2>1. \A c \in C : IsProposal(proposals[c])
    BY DEF TypeOK
  <2>2. \A c \in C : draft(c) \in Draft
    BY <2>1 DEF IsProposal, draft
  <2> QED
    BY <2>2
<1>2. Atomic!Rerun(D, state) = UpdatesOf(C)
  BY AdmissibleIsRerun
<1>3. PostState(C, state) = t
  BY <1>2 DEF PostState, Admissible, EvaluatorRuns
<1>4. ASSUME NEW d \in D
      PROVE  /\ ~d.leaks
             /\ Observed(d, state) \subseteq d.declared
             /\ RequiredReads(d.collar, DOMAIN Recover(d, state)) \subseteq d.declared
             /\ DOMAIN Recover(d, state) \subseteq d.collar.writable_registers
  <2>1. PICK c \in C : d = draft(c)
    OBVIOUS
  <2>2. complete_read_set({c}) /\ snapshot_current({c}, state, versions)
    BY DEF Admissible, complete_read_set, snapshot_current
  <2>3. /\ proposals[c].updates = Recover(draft(c), state)
        /\ proposals[c].observed = Observed(draft(c), state)
    BY <2>2, FreshUpdates
  <2> QED
    BY <2>1, <2>2, <2>3
       DEF Admissible, target_free_source, complete_read_set, write_locality,
           write_set, declared_read_set
<1>5. UnionCollar(C) = CollarUnion(D)
  BY DEF UnionCollar
<1>6. \E kind \in TransitionKind :
        /\ \A d \in D : d.kind = kind
        /\ TransitionLaw(kind, CollarUnion(D), state, t)
        /\ ProtectedPreserved(kind, CollarUnion(D), state, t)
  <2>1. \A d \in D : d.kind = Kind(C)
    BY DEF Admissible, EvaluatorRuns, single_transition_kind
  <2>2. Kind(C) \in TransitionKind
    BY <1>1, <2>1, DraftAssumption DEF DraftType
  <2>3. /\ TransitionLaw(Kind(C), CollarUnion(D), state, t)
        /\ ProtectedPreserved(Kind(C), CollarUnion(D), state, t)
    BY <1>3, <1>5 DEF Admissible, transition_contract, protected_boundary_preserved
  <2> QED
    BY <2>1, <2>2, <2>3
<1>7. Preserved(CollarUnion(D).sector_registers, state, t)
  BY <1>3, <1>5 DEF Admissible, sector_preserved
<1>8. Atomic!Acceptable(D, state)
  <2>1. Compatible(Atomic!Rerun(D, state))
    BY <1>2 DEF Admissible, EvaluatorRuns, compatible_component_writes
  <2>2. Atomic!TransitionKind = TransitionKind
    BY DEF Atomic!TransitionKind, TransitionKind
  <2> HIDE DEF D
  <2> QED
    BY <1>4, <1>6, <1>7, <2>1, <2>2, SameContract DEF Atomic!Acceptable
<1> QED
  BY <1>1, <1>3, <1>8

(***************************************************************************)
(* Every behaviour of the engine is, on its registers and the pairs of     *)
(* states its archive holds, a behaviour of AtomicRepair.                  *)
(***************************************************************************)
THEOREM EngineImplementsAtomicRepair == Spec => ImplementsAtomicRepair
<1> DEFINE Done == {<<archives[id].pre, archives[id].post>> : id \in DOMAIN archives}
<1>1. Init => Atomic!Init
  BY DEF Init, Atomic!Init
<1>2. TypeOK /\ HistoryInv /\ [Next]_vars => [Atomic!Next]_(Atomic!vars)
  <2> SUFFICES ASSUME TypeOK, HistoryInv, [Next]_vars
               PROVE  [Atomic!Next]_(Atomic!vars)
    OBVIOUS
  <2>1. ASSUME NEW c \in Client, NEW d \in Draft, Prepare(c, d)
        PROVE  UNCHANGED Atomic!vars
    BY <2>1 DEF Prepare, Atomic!vars
  <2>2. ASSUME NEW C \in SUBSET Holders, CommitStep(C)
        PROVE  Atomic!Next
    <3> DEFINE new == commit_id(Receipt(C))
    <3>1. PICK D \in (SUBSET Draft) \ {{}} :
            /\ Atomic!Acceptable(D, state)
            /\ PostState(C, state) = Override(state, Combined(Atomic!Rerun(D, state)))
      BY <2>2, AdmissibleIsAcceptable DEF CommitStep
    <3>2. state' = PostState(C, state)
      BY <2>2 DEF CommitStep, Install
    <3>3. Done' = Done \cup {<<state, state'>>}
      <4>1. /\ DOMAIN archives' = DOMAIN archives \cup {new}
            /\ archives'[new] = [pre |-> state, post |-> state']
            /\ \A id \in DOMAIN archives : id # new => archives'[id] = archives[id]
        BY <2>2, <3>2 DEF CommitStep, Archive, Receipt
      <4>2. new \in DOMAIN archives =>
              archives[new] = [pre |-> state, post |-> state']
        BY <3>2 DEF HistoryInv, ArchiveIsPast, commit_id, Receipt
      <4> HIDE DEF new
      <4> QED
        BY <4>1, <4>2
    <3>4. Atomic!Transact(D)
      BY <3>1, <3>2, <3>3, SameContract DEF Atomic!Transact
    <3> QED
      BY <3>1, <3>4 DEF Atomic!Next
  <2>3. ASSUME NEW id \in DOMAIN archives, RollbackStep(id)
        PROVE  Atomic!Next
    <3>1. /\ state = archives[id].post /\ state' = archives[id].pre
          /\ archives' = archives
      BY <2>3 DEF RollbackStep, Install
    <3>2. PICK step \in Done : step = <<archives[id].pre, archives[id].post>>
      OBVIOUS
    <3>3. Atomic!Undo(step)
      BY <3>1, <3>2 DEF Atomic!Undo
    <3> QED
      BY <3>2, <3>3 DEF Atomic!Next
  <2>4. CASE StoreUnchanged
    BY <2>4 DEF StoreUnchanged, Atomic!vars
  <2> QED
    BY <2>1, <2>2, <2>3, <2>4, StepCases
<1> QED
  BY <1>1, <1>2, TypeCorrect, HistoryHolds, PTL
     DEF Spec, ImplementsAtomicRepair, Atomic!Spec
-----------------------------------------------------------------------------
(***************************************************************************)
(* Batches.  A batch of proposals decides its conflict components          *)
(* independently: for every store, every set of drafts and every batch,    *)
(* provided the inverses of reversible drafts stay within the declared     *)
(* read set.                                                               *)
(***************************************************************************)

(***************************************************************************)
(* Conflict components partition a batch: whatever of one component lies   *)
(* outside another is itself closed under conflicts.                       *)
(***************************************************************************)
LEMMA ConflictIsSymmetric ==
  ASSUME NEW b, NEW c, proposals_conflict(b, c)
  PROVE  proposals_conflict(c, b)
BY DEF proposals_conflict

LEMMA ComponentIsClosed ==
  ASSUME NEW S, NEW c \in S
  PROVE  /\ Component(c, S) \subseteq S
         /\ c \in Component(c, S)
         /\ ConflictClosed(Component(c, S), S)
<1>1. ASSUME NEW a \in Component(c, S), NEW b \in S, proposals_conflict(a, b)
      PROVE  b \in Component(c, S)
  <2> SUFFICES ASSUME NEW T \in SUBSET S, c \in T, ConflictClosed(T, S)
               PROVE  b \in T
    BY DEF Component
  <2>1. a \in T
    BY DEF Component
  <2> QED
    BY <1>1, <2>1 DEF ConflictClosed
<1> QED
  BY <1>1 DEF Component, ConflictClosed

LEMMA ComponentIsLeast ==
  ASSUME NEW S, NEW c \in S, NEW T \in SUBSET S, c \in T, ConflictClosed(T, S)
  PROVE  Component(c, S) \subseteq T
BY DEF Component

LEMMA SameComponent ==
  ASSUME NEW S, NEW c \in S, NEW b \in Component(c, S)
  PROVE  Component(b, S) = Component(c, S)
<1> DEFINE B == Component(b, S)
           R == Component(c, S)
<1>1. ConflictClosed(R, S) /\ R \subseteq S /\ c \in R
  BY ComponentIsClosed
<1>2. ConflictClosed(B, S) /\ B \subseteq S /\ b \in B
  BY <1>1, ComponentIsClosed
<1>3. B \subseteq R
  BY <1>1, ComponentIsLeast
<1>4. ASSUME c \notin B PROVE FALSE
  <2>1. ASSUME NEW x \in R \ B, NEW y \in S, proposals_conflict(x, y)
        PROVE  y \in R \ B
    <3>1. y \in R
      BY <1>1, <2>1 DEF ConflictClosed
    <3>2. ASSUME y \in B PROVE FALSE
      <4>1. proposals_conflict(y, x) /\ x \in S
        BY <1>1, <2>1, ConflictIsSymmetric
      <4> QED
        BY <1>2, <3>2, <4>1 DEF ConflictClosed
    <3> QED
      BY <3>1, <3>2
  <2>2. ConflictClosed(R \ B, S)
    BY <2>1 DEF ConflictClosed
  <2>3. R \subseteq R \ B
    BY <1>1, <1>4, <2>2, ComponentIsLeast
  <2> QED
    BY <1>2, <1>3, <2>3
<1>5. R \subseteq B
  BY <1>2, <1>4, ComponentIsLeast
<1> QED
  BY <1>3, <1>5

Apart(C, D) == WriteSet(D) \cap ReadSet(C) = {}

LEMMA ComponentsApart ==
  ASSUME NEW S, NEW C \in conflict_components(S), NEW D \in conflict_components(S),
         C # D
  PROVE  Apart(C, D)
<1>1. PICK c \in S : C = Component(c, S)
  BY DEF conflict_components
<1>2. PICK d \in S : D = Component(d, S)
  BY DEF conflict_components
<1>3. ASSUME NEW a \in C, NEW b \in D, proposals_conflict(a, b)
      PROVE  FALSE
  <2>1. ConflictClosed(C, S) /\ D \subseteq S
    BY <1>1, <1>2, ComponentIsClosed
  <2>2. b \in C
    BY <1>3, <2>1 DEF ConflictClosed
  <2> QED
    BY <1>1, <1>2, <2>2, SameComponent
<1> QED
  BY <1>3 DEF Apart, WriteSet, ReadSet, proposals_conflict

-----------------------------------------------------------------------------
(***************************************************************************)
(* _evaluate_component looks at declared registers only.  The exception is *)
(* the exact-inverse test, hence the condition on the inverses: the caller *)
(* declares what an inverse writes, which required_reads does not ask for. *)
(***************************************************************************)
Reversible == {"REVERSIBLE_PROPAGATION", "GAUGE_STUTTER"}

InversesDeclared ==
  \A d \in Draft, s \in State :
    d.kind \in Reversible => DOMAIN InverseUpdates(d, s) \subseteq d.declared

HeldInversesDeclared ==
  \A c \in Holders :
    draft(c).kind \in Reversible => DOMAIN proposals[c].inverse \subseteq declared_read_set(c)

(***************************************************************************)
(* What a component with a complete read set writes, and where.            *)
(***************************************************************************)
LEMMA CandidateWrites ==
  ASSUME TypeOK, NEW C \in SUBSET Holders, complete_read_set(C),
         compatible_component_writes(C), NEW s \in State
  PROVE  /\ PostState(C, s) \in State
         /\ ReadSet(C) \subseteq Reg /\ WriteSet(C) \subseteq ReadSet(C)
         /\ \A r \in Reg : PostState(C, s)[r] =
              IF r \in WriteSet(C) THEN Combined(UpdatesOf(C))[r] ELSE s[r]
         /\ changed_registers(s, PostState(C, s)) =
              {r \in WriteSet(C) : s[r] # Combined(UpdatesOf(C))[r]}
<1> DEFINE u == Combined(UpdatesOf(C))
<1>1. \A c \in C : IsProposal(proposals[c])
  BY DEF TypeOK
<1>2. ReadSet(C) \subseteq Reg
  BY <1>1 DEF ReadSet, IsProposal, declared_read_set, draft
<1>3. \A c \in C : write_set(c) \subseteq declared_read_set(c)
  BY DEF complete_read_set, RequiredReads
<1>4. WriteSet(C) \subseteq ReadSet(C)
  BY <1>3 DEF WriteSet, ReadSet
<1>5. DOMAIN u = WriteSet(C)
  <2>1. DOMAIN u = UNION {DOMAIN w : w \in UpdatesOf(C)}
    BY CombinedPicks
  <2>2. {DOMAIN w : w \in UpdatesOf(C)} = {write_set(c) : c \in C}
    BY DEF UpdatesOf, write_set
  <2> QED
    BY <2>1, <2>2 DEF WriteSet
<1>6. ASSUME NEW r \in WriteSet(C) PROVE u[r] \in Value
  <2>1. PICK w \in UpdatesOf(C) : r \in DOMAIN w /\ u[r] = w[r]
    BY <1>5, CombinedPicks
  <2> QED
    BY <1>1, <2>1 DEF IsProposal, IsUpdates, UpdatesOf
<1>7. PostState(C, s) = Override(s, u)
  BY DEF PostState
<1>8. s \in [Reg -> Value]
  BY DEF State
<1> HIDE DEF u
<1>9. PostState(C, s) \in [Reg -> Value]
  BY <1>2, <1>4, <1>5, <1>6, <1>7, <1>8 DEF Override
<1>10. \A r \in Reg : PostState(C, s)[r] = IF r \in WriteSet(C) THEN u[r] ELSE s[r]
  BY <1>5, <1>7, <1>8 DEF Override
<1>11. changed_registers(s, PostState(C, s)) = {r \in WriteSet(C) : s[r] # u[r]}
  BY <1>2, <1>4, <1>8, <1>9, <1>10 DEF changed_registers
<1> QED
  BY <1>2, <1>4, <1>9, <1>10, <1>11 DEF u, State

LEMMA UnionCollarKnown ==
  ASSUME TypeOK, NEW C \in SUBSET Holders
  PROVE  UnionCollar(C) \in Collars
<1>1. \A c \in C : draft(c) \in Draft
  BY DEF TypeOK, IsProposal, draft
<1> QED
  BY <1>1 DEF UnionCollar, Collars

(***************************************************************************)
(* The registers a complete read set contains.                             *)
(***************************************************************************)
LEMMA CollarDeclared ==
  ASSUME NEW C, complete_read_set(C)
  PROVE  LET k == UnionCollar(C)
         IN  /\ k.protected_boundary \subseteq ReadSet(C)
             /\ k.sector_registers \subseteq ReadSet(C)
             /\ k.record_registers \subseteq ReadSet(C)
             /\ k.checkpoint_registers \subseteq ReadSet(C)
<1>1. ASSUME NEW c \in C
      PROVE  LET k == draft(c).collar
             IN  /\ k.protected_boundary \subseteq ReadSet(C)
                 /\ k.sector_registers \subseteq ReadSet(C)
                 /\ k.record_registers \subseteq ReadSet(C)
                 /\ k.checkpoint_registers \subseteq ReadSet(C)
  BY DEF complete_read_set, RequiredReads, ReadSet
<1> QED
  BY <1>1 DEF UnionCollar, CollarUnion

(***************************************************************************)
(* For well-typed states, what is preserved is what did not change.        *)
(***************************************************************************)
LEMMA PreservedIsUnchanged ==
  ASSUME NEW s \in State, NEW t \in State, NEW R \in SUBSET Reg
  PROVE  Preserved(R, s, t) <=> R \cap changed_registers(s, t) = {}
BY DEF Preserved, changed_registers, State

(***************************************************************************)
(* Two states that agree on the declared registers of a component: the     *)
(* same registers change, to the same values.                              *)
(***************************************************************************)
LEMMA SameChange ==
  ASSUME TypeOK, NEW C \in SUBSET Holders, complete_read_set(C),
         compatible_component_writes(C),
         NEW s \in State, NEW t \in State, Agree(s, t, ReadSet(C))
  PROVE  /\ changed_registers(t, PostState(C, t)) = changed_registers(s, PostState(C, s))
         /\ Agree(PostState(C, s), PostState(C, t), ReadSet(C))
<1>1. ReadSet(C) \subseteq Reg /\ WriteSet(C) \subseteq ReadSet(C)
  BY CandidateWrites
<1>2. /\ changed_registers(s, PostState(C, s)) =
           {r \in WriteSet(C) : s[r] # Combined(UpdatesOf(C))[r]}
      /\ changed_registers(t, PostState(C, t)) =
           {r \in WriteSet(C) : t[r] # Combined(UpdatesOf(C))[r]}
  BY CandidateWrites
<1>3. \A r \in Reg :
        /\ PostState(C, s)[r] = IF r \in WriteSet(C) THEN Combined(UpdatesOf(C))[r] ELSE s[r]
        /\ PostState(C, t)[r] = IF r \in WriteSet(C) THEN Combined(UpdatesOf(C))[r] ELSE t[r]
  BY CandidateWrites
<1> QED
  BY <1>1, <1>2, <1>3 DEF Agree

(***************************************************************************)
(* The evaluator, whose reads are all declared, computes the same ledgers. *)
(***************************************************************************)
LEMMA SameLedgers ==
  ASSUME TypeOK, NEW C \in SUBSET Holders, complete_read_set(C),
         compatible_component_writes(C),
         NEW s \in State, NEW t \in State, Agree(s, t, ReadSet(C)),
         mismatch_read_trace_complete(C, s)
  PROVE  LET k == UnionCollar(C)
         IN  /\ Evaluate(t, k) = Evaluate(s, k)
             /\ Evaluate(PostState(C, t), k) = Evaluate(PostState(C, s), k)
             /\ ScoreReadsOf(C, t) = ScoreReadsOf(C, s)
<1> DEFINE k == UnionCollar(C)
           u == PostState(C, s)
           w == PostState(C, t)
<1>1. k \in Collars
  BY UnionCollarKnown
<1>2. ScoreReads(s, k) \subseteq ReadSet(C) /\ ScoreReads(u, k) \subseteq ReadSet(C)
  BY DEF mismatch_read_trace_complete, ScoreReadsOf
<1>3. u \in State /\ w \in State /\ Agree(u, w, ReadSet(C))
  BY CandidateWrites, SameChange
<1>4. Agree(s, t, ScoreReads(s, k)) /\ Agree(u, w, ScoreReads(u, k))
  BY <1>2, <1>3 DEF Agree
<1> HIDE DEF k, u, w
<1>5. /\ Evaluate(t, k) = Evaluate(s, k) /\ ScoreReads(t, k) = ScoreReads(s, k)
      /\ Evaluate(w, k) = Evaluate(u, k) /\ ScoreReads(w, k) = ScoreReads(u, k)
  BY <1>1, <1>3, <1>4, EvaluatorAssumption
<1> QED
  BY <1>5 DEF k, u, w, ScoreReadsOf

LEMMA SameLaw ==
  ASSUME TypeOK, NEW C \in SUBSET Holders, complete_read_set(C),
         compatible_component_writes(C),
         NEW s \in State, NEW t \in State, Agree(s, t, ReadSet(C)),
         mismatch_read_trace_complete(C, s),
         NEW kind, TransitionLaw(kind, UnionCollar(C), s, PostState(C, s))
  PROVE  TransitionLaw(kind, UnionCollar(C), t, PostState(C, t))
<1> DEFINE k == UnionCollar(C)
           u == PostState(C, s)
           w == PostState(C, t)
<1>1. changed_registers(t, w) = changed_registers(s, u) /\ Agree(u, w, ReadSet(C))
  BY SameChange
<1>2. Evaluate(t, k) = Evaluate(s, k) /\ Evaluate(w, k) = Evaluate(u, k)
  BY SameLedgers
<1>3. changed_registers(s, u) \subseteq ReadSet(C) /\ ReadSet(C) \subseteq Reg
  BY CandidateWrites
<1>4. /\ DOMAIN s = Reg /\ DOMAIN t = Reg /\ DOMAIN u = Reg /\ DOMAIN w = Reg
  <2>1. u \in State /\ w \in State
    BY CandidateWrites
  <2> HIDE DEF u, w
  <2> QED
    BY <2>1 DEF State
<1>5. TransitionLaw(kind, k, s, u)
  OBVIOUS
<1> SUFFICES TransitionLaw(kind, k, t, w)
  OBVIOUS
<1> HIDE DEF k, u, w
<1>6. CASE kind = "STRICT_REPAIR"
  BY <1>1, <1>2, <1>5, <1>6 DEF TransitionLaw, StrictRepairLaw
<1>7. CASE kind \in {"REVERSIBLE_PROPAGATION", "GAUGE_STUTTER"}
  BY <1>1, <1>2, <1>5, <1>7 DEF TransitionLaw, NeutralLaw
<1>8. CASE kind = "RECORD_COMMIT"
  <2>1. RecordCommitLaw(k, s, u)
    BY <1>5, <1>8 DEF TransitionLaw
  <2>2. \A r \in changed_registers(s, u) : s[r] = t[r] /\ u[r] = w[r]
    BY <1>1, <1>3 DEF Agree
  <2>3. RecordCommitLaw(k, t, w)
    BY <1>1, <1>2, <1>4, <2>1, <2>2 DEF RecordCommitLaw
  <2> QED
    BY <1>8, <2>3 DEF TransitionLaw
<1> QED
  BY <1>5, <1>6, <1>7, <1>8 DEF TransitionLaw

LEMMA SameInverse ==
  ASSUME TypeOK, NEW C \in SUBSET Holders, complete_read_set(C),
         compatible_component_writes(C),
         NEW s \in State, NEW t \in State, Agree(s, t, ReadSet(C)),
         \A c \in C : DOMAIN proposals[c].inverse \subseteq declared_read_set(c),
         ExactInverse(C, s)
  PROVE  ExactInverse(C, t)
<1> DEFINE u == PostState(C, s)
           w == PostState(C, t)
           i == Combined(InversesOf(C))
<1>1. DOMAIN i \subseteq ReadSet(C)
  <2>1. DOMAIN i = UNION {DOMAIN e : e \in InversesOf(C)}
    BY CombinedPicks
  <2>2. \A e \in InversesOf(C) : DOMAIN e \subseteq ReadSet(C)
    BY DEF InversesOf, ReadSet
  <2> HIDE DEF i
  <2> QED
    BY <2>1, <2>2
<1>2. ReadSet(C) \subseteq Reg /\ WriteSet(C) \subseteq ReadSet(C)
  BY CandidateWrites
<1>3. u \in State /\ w \in State /\ Agree(u, w, ReadSet(C))
  BY CandidateWrites, SameChange
<1>4. \A r \in Reg \ ReadSet(C) : w[r] = t[r]
  BY <1>2, CandidateWrites
<1>5. Compatible(InversesOf(C)) /\ Override(u, i) = s
  BY DEF ExactInverse
<1> HIDE DEF u, w, i
<1>6. DOMAIN Override(w, i) = Reg /\ t = [r \in Reg |-> t[r]]
  BY <1>1, <1>2, <1>3 DEF Override, State
<1>7. ASSUME NEW r \in Reg PROVE Override(w, i)[r] = t[r]
  <2>1. Override(w, i)[r] = IF r \in DOMAIN i THEN i[r] ELSE w[r]
    BY <1>3 DEF Override, State
  <2>2. CASE r \in ReadSet(C)
    <3>1. Override(u, i)[r] = IF r \in DOMAIN i THEN i[r] ELSE u[r]
      BY <1>3 DEF Override, State
    <3>2. Override(u, i)[r] = s[r] /\ s[r] = t[r] /\ u[r] = w[r]
      BY <1>3, <1>5, <2>2 DEF Agree
    <3> QED
      BY <2>1, <3>1, <3>2
  <2>3. CASE r \notin ReadSet(C)
    BY <1>1, <1>4, <2>1, <2>3
  <2> QED
    BY <2>2, <2>3
<1>8. Override(w, i) = t
  <2>1. Override(w, i) = [r \in Reg |-> Override(w, i)[r]]
    BY <1>6 DEF Override
  <2> QED
    BY <1>6, <1>7, <2>1
<1> QED
  BY <1>5, <1>8 DEF ExactInverse, w, i

(***************************************************************************)
(* The verdict on a component depends on its declared registers only.      *)
(***************************************************************************)
LEMMA VerdictIsLocal ==
  ASSUME TypeOK, HeldInversesDeclared, NEW C \in SUBSET Holders,
         NEW s \in State, NEW t \in State, NEW v, NEW w,
         Agree(s, t, ReadSet(C)), Agree(v, w, ReadSet(C)),
         Admissible(C, s, v)
  PROVE  Admissible(C, t, w)
<1>1. /\ complete_read_set(C) /\ compatible_component_writes(C)
      /\ single_transition_kind(C) /\ mismatch_read_trace_complete(C, s)
      /\ transition_contract(C, s)
  BY DEF Admissible, EvaluatorRuns
<1>2. snapshot_current(C, t, w)
  <2> SUFFICES ASSUME NEW c \in C, NEW r \in DOMAIN proposals[c].snapshot
               PROVE  /\ r \in DOMAIN t
                      /\ w[r] = proposals[c].snapshot[r].version
                      /\ t[r] = proposals[c].snapshot[r].value
    BY DEF snapshot_current
  <2>1. r \in ReadSet(C)
    BY <1>1 DEF complete_read_set, ReadSet
  <2>2. /\ r \in DOMAIN s
        /\ v[r] = proposals[c].snapshot[r].version
        /\ s[r] = proposals[c].snapshot[r].value
    BY DEF Admissible, snapshot_current
  <2> QED
    BY <2>1, <2>2 DEF Agree, State
<1>3. changed_registers(t, PostState(C, t)) = changed_registers(s, PostState(C, s))
  BY <1>1, SameChange
<1>4. unlisted_registers_unchanged(C, t)
  BY <1>3 DEF Admissible, unlisted_registers_unchanged
<1>5. /\ PostState(C, s) \in State /\ PostState(C, t) \in State
      /\ ReadSet(C) \subseteq Reg
  BY <1>1, CandidateWrites
<1>6. ASSUME NEW R \in SUBSET ReadSet(C), Preserved(R, s, PostState(C, s))
      PROVE  Preserved(R, t, PostState(C, t))
  BY <1>3, <1>5, <1>6, PreservedIsUnchanged
<1>7. protected_boundary_preserved(C, t)
  BY <1>1, <1>6, CollarDeclared
     DEF Admissible, protected_boundary_preserved, ProtectedPreserved
<1>8. sector_preserved(C, t)
  BY <1>1, <1>6, CollarDeclared DEF Admissible, sector_preserved
<1>9. mismatch_read_trace_complete(C, t)
  BY <1>1, SameLedgers DEF mismatch_read_trace_complete
<1>10. transition_contract(C, t)
  <2>1. TransitionLaw(Kind(C), UnionCollar(C), t, PostState(C, t))
    BY <1>1, SameLaw DEF transition_contract
  <2>2. ASSUME Kind(C) \in Reversible PROVE ExactInverse(C, t)
    <3>1. \A c \in C : DOMAIN proposals[c].inverse \subseteq declared_read_set(c)
      BY <1>1, <2>2 DEF single_transition_kind, HeldInversesDeclared
    <3>2. ExactInverse(C, s)
      BY <1>1, <2>2 DEF transition_contract, Reversible
    <3> QED
      BY <1>1, <3>1, <3>2, SameInverse
  <2> QED
    BY <2>1, <2>2 DEF transition_contract, Reversible
<1> QED
  BY <1>2, <1>4, <1>7, <1>8, <1>9, <1>10 DEF Admissible

-----------------------------------------------------------------------------
(***************************************************************************)
(* The inductive invariant of a running batch: no component writes what a  *)
(* waiting component has declared, so the registers of a waiting component *)
(* have the values and the versions they had when the batch was called.    *)
(***************************************************************************)
BatchInv ==
  /\ HeldInversesDeclared
  /\ \A C, D \in batch : C # D => Apart(C, D)
  /\ \A C \in batch : /\ Agree(state, batchStart.state, ReadSet(C))
                       /\ Agree(versions, batchStart.versions, ReadSet(C))

LEMMA IdleBatch ==
  ASSUME HeldInversesDeclared', batch' = {}
  PROVE  BatchInv'
BY DEF BatchInv

LEMMA HeldInversesKept ==
  ASSUME HeldInversesDeclared, UNCHANGED proposals
  PROVE  HeldInversesDeclared'
BY DEF HeldInversesDeclared, Holders, draft, declared_read_set

LEMMA PrepareInverse ==
  ASSUME TypeOK, InversesDeclared, HeldInversesDeclared,
         NEW c \in Client, NEW d \in Draft, Prepare(c, d)
  PROVE  HeldInversesDeclared'
<1>1. \A b \in Client : proposals'[b] = IF b = c THEN prepare_proposal(d) ELSE proposals[b]
  BY DEF Prepare, TypeOK
<1>2. state \in State
  BY DEF TypeOK
<1>3. ASSUME NEW b \in Client, proposals'[b] # NoProposal,
             proposals'[b].draft.kind \in Reversible
      PROVE  DOMAIN proposals'[b].inverse \subseteq proposals'[b].draft.declared
  <2>1. CASE b = c
    BY <1>1, <1>2, <1>3, <2>1 DEF prepare_proposal, InversesDeclared
  <2>2. CASE b # c
    BY <1>1, <1>3, <2>2
       DEF HeldInversesDeclared, Holders, draft, declared_read_set
  <2> QED
    BY <2>1, <2>2
<1> QED
  BY <1>3 DEF HeldInversesDeclared, Holders, draft, declared_read_set

(***************************************************************************)
(* A commit of one component leaves the registers of the others alone.     *)
(***************************************************************************)
LEMMA CommitElsewhere ==
  ASSUME TypeOK, NEW C \in SUBSET Holders, NEW E \in SUBSET Holders, Apart(E, C),
         commit_component(C)
  PROVE  Agree(state', state, ReadSet(E)) /\ Agree(versions', versions, ReadSet(E))
<1>1. ReadSet(E) \subseteq Reg
  BY DEF ReadSet, TypeOK, IsProposal, declared_read_set, draft
<1>2. CASE ~Admissible(C, state, versions)
  BY <1>2 DEF commit_component, Agree
<1>3. CASE Admissible(C, state, versions)
  <2>1. /\ Install(PostState(C, state)) /\ complete_read_set(C)
        /\ compatible_component_writes(C) /\ state \in State
    BY <1>3 DEF commit_component, Admissible, EvaluatorRuns, TypeOK
  <2>2. PostState(C, state) \in State
    BY <2>1, CandidateWrites
  <2>3. \A r \in ReadSet(E) : PostState(C, state)[r] = state[r]
    BY <1>1, <2>1, CandidateWrites DEF Apart
  <2> QED
    BY <1>1, <2>1, <2>2, <2>3, InstallType DEF Agree
<1> QED
  BY <1>2, <1>3

LEMMA BatchInvStep ==
  ASSUME TypeOK, InversesDeclared, BatchInv, [Next]_vars
  PROVE  BatchInv'
<1>1. ASSUME NEW c \in Client, NEW d \in Draft, Prepare(c, d) PROVE BatchInv'
  BY <1>1, PrepareInverse, IdleBatch DEF BatchInv, Prepare, Idle
<1>2. ASSUME NEW c \in Client, Commit(c) PROVE BatchInv'
  BY <1>2, HeldInversesKept, IdleBatch DEF BatchInv, Commit, Idle
<1>3. ASSUME NEW S \in SUBSET Client, CommitBatch(S) PROVE BatchInv'
  <2>1. /\ batch' = conflict_components(S)
        /\ batchStart' = [state |-> state, versions |-> versions]
        /\ UNCHANGED <<state, versions, proposals>>
    BY <1>3 DEF CommitBatch
  <2>2. HeldInversesDeclared'
    BY <2>1, HeldInversesKept DEF BatchInv
  <2>3. \A C, D \in batch' : C # D => Apart(C, D)'
    <3>1. \A C, D \in batch' : C # D => Apart(C, D)
      BY <2>1, ComponentsApart
    <3> QED
      BY <2>1, <3>1 DEF Apart, WriteSet, ReadSet, write_set, declared_read_set, draft
  <2> QED
    BY <2>1, <2>2, <2>3 DEF BatchInv, Agree
<1>4. ASSUME NEW C \in batch, BatchStep(C) PROVE BatchInv'
  <2>1. /\ commit_component(C) /\ batch' = batch \ {C}
        /\ batch' # {} => batchStart' = batchStart
        /\ UNCHANGED proposals
    BY <1>4 DEF BatchStep
  <2>2. HeldInversesDeclared'
    BY <2>1, HeldInversesKept DEF BatchInv
  <2>3. \A D, E \in batch' : D # E => Apart(D, E)'
    BY <2>1 DEF BatchInv, Apart, WriteSet, ReadSet, write_set, declared_read_set, draft
  <2>4. ASSUME NEW E \in batch'
        PROVE  /\ Agree(state', batchStart'.state, ReadSet(E))
               /\ Agree(versions', batchStart'.versions, ReadSet(E))
    <3>1. /\ E \in batch /\ E # C /\ batchStart' = batchStart
          /\ C \in SUBSET Holders /\ E \in SUBSET Holders
      BY <2>1 DEF TypeOK
    <3>2. Apart(E, C) /\ Agree(state, batchStart.state, ReadSet(E))
          /\ Agree(versions, batchStart.versions, ReadSet(E))
      BY <3>1 DEF BatchInv
    <3>3. Agree(state', state, ReadSet(E)) /\ Agree(versions', versions, ReadSet(E))
      BY <2>1, <3>1, <3>2, CommitElsewhere
    <3> QED
      BY <3>1, <3>2, <3>3 DEF Agree
  <2>5. \A E : ReadSet(E)' = ReadSet(E)
    BY <2>1 DEF ReadSet, declared_read_set, draft
  <2> QED
    BY <2>2, <2>3, <2>4, <2>5 DEF BatchInv, Agree
<1>5. ASSUME NEW C \in batch, BatchRaise(C) PROVE BatchInv'
  BY <1>5, HeldInversesKept, IdleBatch DEF BatchInv, BatchRaise
<1>6. ASSUME NEW id \in DOMAIN archives, Rollback(id) PROVE BatchInv'
  BY <1>6, HeldInversesKept, IdleBatch DEF BatchInv, Rollback, Idle
<1>7. CASE UNCHANGED vars
  BY <1>7, HeldInversesKept DEF vars, BatchInv, Apart, WriteSet, ReadSet, write_set,
     declared_read_set, draft, Agree
<1> QED
  BY <1>1, <1>2, <1>3, <1>4, <1>5, <1>6, <1>7 DEF Next

(***************************************************************************)
(* A batch decides every waiting component as it would have decided it     *)
(* when commit_batch was called: whichever components were committed in    *)
(* between, the verdict of _evaluate_component is the same.  The condition *)
(* InversesDeclared is one the engine leaves to the caller, and a wider    *)
(* inverse really breaks the property.                                     *)
(***************************************************************************)
THEOREM BatchesCommute ==
  ASSUME InversesDeclared
  PROVE  Spec => []BatchDecisionsCommute
<1>1. Init => BatchInv
  BY DEF Init, BatchInv, HeldInversesDeclared, Holders
<1>2. TypeOK /\ BatchInv /\ [Next]_vars => BatchInv'
  BY BatchInvStep
<1>3. TypeOK /\ BatchInv => BatchDecisionsCommute
  <2> SUFFICES ASSUME TypeOK, BatchInv, NEW C \in batch
               PROVE  Admissible(C, state, versions) <=>
                        Admissible(C, batchStart.state, batchStart.versions)
    BY DEF BatchDecisionsCommute
  <2>1. C \in SUBSET Holders /\ state \in State /\ batchStart.state \in State
    BY DEF TypeOK
  <2>2. Agree(state, batchStart.state, ReadSet(C)) /\ Agree(batchStart.state, state, ReadSet(C))
    BY DEF BatchInv, Agree
  <2>3. Agree(versions, batchStart.versions, ReadSet(C))
        /\ Agree(batchStart.versions, versions, ReadSet(C))
    BY DEF BatchInv, Agree
  <2> QED
    BY <2>1, <2>2, <2>3, VerdictIsLocal DEF BatchInv
<1> QED
  BY <1>1, <1>2, <1>3, TypeCorrect, PTL DEF Spec
=============================================================================
