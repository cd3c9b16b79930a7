---------------------------- MODULE AtomicRepair ----------------------------
(***************************************************************************)
(* What transactional repair promises: there are no snapshots, versions,   *)
(* clients or batches, only a register state that changes in two ways.     *)
(* Transact runs the recovery maps of a set of drafts against the current  *)
(* state and installs their union at the same instant, under the law of    *)
(* their transition kind.  Undo takes back a transition that was made      *)
(* before and whose result is the current state.                           *)
(***************************************************************************)
EXTENDS RepairContract

VARIABLES
  state,   \* the registers
  done     \* the pairs <<before, after>> of transitions made so far

vars == <<state, done>>

Init == state = InitState /\ done = {}

\* The updates that the recovery maps of the drafts D compute in state s.
Rerun(D, s) == {Recover(d, s) : d \in D}

(***************************************************************************)
(* A set of drafts with one kind, no forbidden target field, and complete  *)
(* read sets, taken together in state s.                                   *)
(***************************************************************************)
Acceptable(D, s) ==
  LET k == CollarUnion(D)
      t == Override(s, Combined(Rerun(D, s)))
  IN  /\ \A d \in D : /\ ~d.leaks
                      /\ Observed(d, s) \subseteq d.declared
                      /\ RequiredReads(d.collar, DOMAIN Recover(d, s))
                           \subseteq d.declared
                      /\ DOMAIN Recover(d, s) \subseteq d.collar.writable_registers
      /\ Compatible(Rerun(D, s))
      /\ \E kind \in TransitionKind :
           /\ \A d \in D : d.kind = kind
           /\ TransitionLaw(kind, k, s, t)
           /\ ProtectedPreserved(kind, k, s, t)
      /\ Preserved(k.sector_registers, s, t)

Transact(D) ==
  /\ state' = Override(state, Combined(Rerun(D, state)))
  /\ Acceptable(D, state)
  /\ done' = done \cup {<<state, state'>>}

Undo(step) ==
  /\ state = step[2]
  /\ state' = step[1]
  /\ UNCHANGED done

Next ==
  \/ \E D \in (SUBSET Draft) \ {{}} : Transact(D)
  \/ \E step \in done : Undo(step)

Spec == Init /\ [][Next]_vars
=============================================================================
