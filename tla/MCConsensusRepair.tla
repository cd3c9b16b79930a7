------------------------- MODULE MCConsensusRepair --------------------------
(***************************************************************************)
(* A root register, two registers a and b, and a register n that does not  *)
(* exist at first; the measure and the boundary follow                     *)
(* tests/test_transactional_repair.py, with a coarser weight on b so that  *)
(* a repair of b may undo one of a.                                        *)
(***************************************************************************)
EXTENDS ConsensusRepair, TLC

MCReg == {"root", "a", "b", "n"}
MCInitState == ("root" :> 0) @@ ("a" :> 1) @@ ("b" :> 2)

at(s, k) == IF k \in DOMAIN s THEN s[k] ELSE 0

MCMeasure(s) ==
  2 * at(s, "b") + (IF at(s, "a") = at(s, "root") THEN 0 ELSE 1)
                 + (IF "n" \in DOMAIN s THEN 0 ELSE 1)

MCBoundary(s) == at(s, "root")

draft(tx_id, reads, payload) == [tx_id |-> tx_id, reads |-> reads, payload |-> payload]

MCDraft == {
  \* brings a to the root, having read it or not
  draft(1, {"root", "a"}, "a" :> 0),
  draft(3, {"root"}, "a" :> 0),
  \* lowers b and gives a its old value back; lowers b halfway
  draft(2, {"b"}, ("b" :> 0) @@ ("a" :> 1)),
  draft(2, {"b"}, "b" :> 1),
  \* creates n; moves the root, which is the boundary
  draft(3, {"a"}, "n" :> 0),
  draft(1, {"b"}, ("root" :> 1) @@ ("b" :> 0))}
=============================================================================
