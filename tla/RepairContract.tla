--------------------------- MODULE RepairContract ---------------------------
(***************************************************************************)
(* The vocabulary of transactional repair shared by the engine and by its  *)
(* abstract specification: registers, collars, the caller's code and the   *)
(* acceptance law of each transition kind (oph_fpe/repair/transaction.py,  *)
(* _evaluate_component).                                                   *)
(*                                                                         *)
(* The recovery map, the inverse it is submitted with and the mismatch     *)
(* evaluator are the caller's code: they are constant operators, and what  *)
(* the read-tracking view guarantees about them is an assumption.          *)
(***************************************************************************)
EXTENDS MismatchLedger, FiniteSets

CONSTANTS
  Client,                \* holders of prepared proposals
  Ref,                   \* register names a caller may mention
  Reg,                   \* the registers the engine was built with
  Value,                 \* register values
  Appends,               \* pairs <<a, b>>: b is a strictly extended by entries
  InitState,             \* initial_state
  Draft,                 \* the static part of a proposal, see DraftType
  Recover(_, _),         \* recovery(state): the updates, a partial function
  Observed(_, _),        \* the registers that recovery read
  InverseUpdates(_, _),  \* the inverse updates the caller submits
  Evaluate(_, _),        \* mismatch_evaluator(state, collar): a ledger
  ScoreReads(_, _)       \* the registers that evaluation read

TransitionKind == {"STRICT_REPAIR", "REVERSIBLE_PROPAGATION", "RECORD_COMMIT",
                   "CONTROLLED_EXPLORATION", "GAUGE_STUTTER", "ROLLBACK"}

(***************************************************************************)
(* The collar is the part of a draft that says which registers play which  *)
(* role; diagnostic is proposal_class = DIAGNOSTIC_HEURISTIC; leaks says   *)
(* that the source parameters or registers name a forbidden target field.  *)
(***************************************************************************)
RepairCollar ==
  [visible_read_set : SUBSET Ref, writable_registers : SUBSET Ref,
   protected_boundary : SUBSET Ref, sector_registers : SUBSET Ref,
   record_registers : SUBSET Ref, checkpoint_registers : SUBSET Ref]

DraftType ==
  [id : Nat, kind : TransitionKind, diagnostic : BOOLEAN, leaks : BOOLEAN,
   collar : RepairCollar, declared : SUBSET Ref]

State == [Reg -> Value]
IsUpdates(u) == DOMAIN u \subseteq Ref /\ u \in [DOMAIN u -> Value]

Agree(s, t, R) == \A r \in R : s[r] = t[r]

ASSUME RegAssumption == Reg \subseteq Ref /\ Reg # {}
ASSUME DraftAssumption == Draft \subseteq DraftType
ASSUME InitStateAssumption == InitState \in State
ASSUME AppendsAssumption ==
  /\ Appends \subseteq Value \X Value
  /\ \A a \in Value : <<a, a>> \notin Appends

(***************************************************************************)
(* _ReadTrackingState hands the recovery and the evaluator a private copy  *)
(* of the state and records every register they look at: what they return, *)
(* and what else they read, is a function of the values they have read.    *)
(***************************************************************************)
ASSUME RecoverAssumption ==
  \A d \in Draft, s \in State :
    /\ IsUpdates(Recover(d, s))
    /\ IsUpdates(InverseUpdates(d, s))
    /\ Observed(d, s) \in SUBSET Reg
    /\ \A t \in State :
         Agree(s, t, Observed(d, s)) =>
           Recover(d, t) = Recover(d, s) /\ Observed(d, t) = Observed(d, s)

(***************************************************************************)
(* The collar of an aggregated component: the union, field by field.       *)
(***************************************************************************)
CollarUnion(D) ==
  [f \in {"visible_read_set", "writable_registers", "protected_boundary",
          "sector_registers", "record_registers", "checkpoint_registers"} |->
     UNION {d.collar[f] : d \in D}]

Collars == {CollarUnion(D) : D \in SUBSET Draft}

ASSUME EvaluatorAssumption ==
  \A k \in Collars, s \in State :
    /\ Evaluate(s, k) \in Ledger
    /\ ScoreReads(s, k) \in SUBSET Reg
    /\ \A t \in State : Agree(s, t, ScoreReads(s, k)) =>
         Evaluate(t, k) = Evaluate(s, k) /\ ScoreReads(t, k) = ScoreReads(s, k)

-----------------------------------------------------------------------------
(***************************************************************************)
(* States before and after.                                                *)
(***************************************************************************)
(***************************************************************************)
(* dict.update: u wins where it is defined.                                *)
(***************************************************************************)
Override(s, u) ==
  [r \in DOMAIN s \cup DOMAIN u |-> IF r \in DOMAIN u THEN u[r] ELSE s[r]]

changed_registers(s, t) ==
  {r \in DOMAIN s \cup DOMAIN t :
     r \notin DOMAIN s \/ r \notin DOMAIN t \/ s[r] # t[r]}

Preserved(R, s, t) ==
  \A r \in R : r \in DOMAIN s /\ r \in DOMAIN t /\ s[r] = t[r]

(***************************************************************************)
(* The set U of the updates that several proposals make, and their union.  *)
(***************************************************************************)
Compatible(U) ==
  \A u, w \in U : \A r \in DOMAIN u \cap DOMAIN w : u[r] = w[r]

Combined(U) ==
  [r \in UNION {DOMAIN u : u \in U} |-> (CHOOSE u \in U : r \in DOMAIN u)[r]]

-----------------------------------------------------------------------------
(***************************************************************************)
(* What a step from s to t must satisfy for the union collar k.            *)
(***************************************************************************)
SemanticRegisters(k) == k.record_registers \cup k.checkpoint_registers

RequiredReads(k, writes) ==
  UNION {k.visible_read_set, k.protected_boundary, k.sector_registers,
         k.record_registers, k.checkpoint_registers, writes}

ProtectedPreserved(kind, k, s, t) ==
  LET mutable == IF kind = "RECORD_COMMIT" THEN k.record_registers ELSE {}
  IN  Preserved(k.protected_boundary \ mutable, s, t)

StrictRepairLaw(k, s, t) ==
  /\ changed_registers(s, t) # {}
  /\ changed_registers(s, t) \cap SemanticRegisters(k) = {}
  /\ strict_repair_descends_from(Evaluate(t, k), Evaluate(s, k))

NeutralLaw(k, s, t) ==
  /\ changed_registers(s, t) # {}
  /\ changed_registers(s, t) \cap SemanticRegisters(k) = {}
  /\ Evaluate(t, k) = Evaluate(s, k)

RecordCommitLaw(k, s, t) ==
  LET records == changed_registers(s, t) \cap k.record_registers
  IN  /\ changed_registers(s, t) \subseteq SemanticRegisters(k)
      /\ records # {}
      /\ \A r \in records : /\ r \in DOMAIN s \cap DOMAIN t
                            /\ <<s[r], t[r]>> \in Appends
      /\ Evaluate(t, k) = Evaluate(s, k)

(***************************************************************************)
(* Exploration and rollback proposals are refused: they have no law.       *)
(***************************************************************************)
TransitionLaw(kind, k, s, t) ==
  \/ kind = "STRICT_REPAIR" /\ StrictRepairLaw(k, s, t)
  \/ kind \in {"REVERSIBLE_PROPAGATION", "GAUGE_STUTTER"} /\ NeutralLaw(k, s, t)
  \/ kind = "RECORD_COMMIT" /\ RecordCommitLaw(k, s, t)
=============================================================================
