--------------------------- MODULE MismatchLedger ---------------------------
(***************************************************************************)
(* The typed mismatch vector of oph_fpe/repair/transaction.py and the two  *)
(* orders it carries.  A ledger is a record                                *)
(*   [record, sector, holonomy, overlap, local_constraint, auxiliary]      *)
(* whose first five fields are exact non-negative numbers (Nat here, a     *)
(* Fraction in the code) and whose auxiliary field is the sequence of      *)
(* <<name, value>> pairs, sorted by name when the ledger is built.         *)
(***************************************************************************)
EXTENDS Naturals, Sequences

CONSTANT AuxName   \* names of physical auxiliary objectives

(***************************************************************************)
(* __post_init__ keeps the auxiliary names unique.                         *)
(***************************************************************************)
UniqueNames(aux) == \A i, j \in DOMAIN aux : aux[i][1] = aux[j][1] => i = j

Ledger == [record : Nat, sector : Nat, holonomy : Nat,
           overlap : Nat, local_constraint : Nat,
           auxiliary : {aux \in Seq(AuxName \X Nat) : UniqueNames(aux)}]

auxiliary_names(l) == [i \in DOMAIN l.auxiliary |-> l.auxiliary[i][1]]
auxiliary_values(l) == [i \in DOMAIN l.auxiliary |-> l.auxiliary[i][2]]

(***************************************************************************)
(* Python's tuple order on two vectors of the same length.                 *)
(***************************************************************************)
LexLess(a, b) ==
  \E i \in DOMAIN a \cap DOMAIN b :
    /\ a[i] < b[i]
    /\ \A j \in 1..(i-1) : a[j] = b[j]

visible_vector(l) == <<l.overlap, l.local_constraint>> \o auxiliary_values(l)

lexicographic_vector(l) ==
  <<l.record, l.sector, l.holonomy>> \o visible_vector(l)

strictly_descends_from(after, before) ==
  /\ auxiliary_names(after) = auxiliary_names(before)
  /\ LexLess(lexicographic_vector(after), lexicographic_vector(before))

(***************************************************************************)
(* The fail-closed order of strict repair: no record or sector violation   *)
(* on either side, holonomy untouched, the visible part strictly lower.    *)
(***************************************************************************)
strict_repair_descends_from(after, before) ==
  /\ auxiliary_names(after) = auxiliary_names(before)
  /\ before.record = 0 /\ after.record = 0
  /\ before.sector = 0 /\ after.sector = 0
  /\ after.holonomy = before.holonomy
  /\ LexLess(visible_vector(after), visible_vector(before))
=============================================================================
