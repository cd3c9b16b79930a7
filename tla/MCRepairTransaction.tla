------------------------ MODULE MCRepairTransaction -------------------------
(***************************************************************************)
(* A store with three scored registers x, y, z and a record register log   *)
(* (the value n stands for a tuple of n entries).  The drafts repeat the   *)
(* cases of tests/test_proof_carrying_transaction.py.                      *)
(***************************************************************************)
EXTENDS RepairTransaction, FiniteSetsExt, TLC

MCReg == {"x", "y", "z", "log"}
MCRef == MCReg \cup {"ghost"}
MCValue == 0..2
MCAppends == {p \in MCValue \X MCValue : p[1] < p[2]}
MCInitState == [r \in MCReg |-> IF r = "log" THEN 0 ELSE 1]
MCSkewState == [MCInitState EXCEPT !["y"] = 0]

collar(visible, writable, protected, sector, records) ==
  [visible_read_set |-> visible, writable_registers |-> writable,
   protected_boundary |-> protected, sector_registers |-> sector,
   record_registers |-> records, checkpoint_registers |-> {}]

d(id, kind, k, declared) ==
  [id |-> id, kind |-> kind, diagnostic |-> FALSE, leaks |-> FALSE,
   collar |-> k, declared |-> declared]

\* lowers x, in the sector given by z
lowerX == d(6, "STRICT_REPAIR", collar({"x"}, {"x"}, {}, {"z"}, {}), {"x", "z"})
\* lowers y as long as x is positive, and preserves log
lowerY == d(2, "STRICT_REPAIR",
            collar({"x", "y"}, {"y"}, {"log"}, {}, {}), {"x", "y", "log"})
\* exchanges x and y, the inverse writes both back
swap == d(3, "REVERSIBLE_PROPAGATION",
          collar({"x", "y"}, {"x", "y"}, {}, {}, {"log"}), {"x", "y", "log"})
\* appends one entry to log, and overwrites it once it is full
append == d(4, "RECORD_COMMIT",
            collar({}, {"log"}, {"log"}, {}, {"log"}), {"log"})
\* lowers x as long as y is positive, and does not declare y
hidden == d(5, "STRICT_REPAIR", collar({"x"}, {"x"}, {}, {}, {}), {"x"})
\* lowers z, which lowerX takes as its sector; first in the order of ids
lowerZ == d(1, "STRICT_REPAIR", collar({"z"}, {"z"}, {}, {}, {}), {"z"})
\* writes a register the engine does not have
ghost == d(7, "STRICT_REPAIR", collar({"x"}, {"ghost", "x"}, {}, {}, {}), {"x"})
\* exchanges x and y with an inverse that writes the whole old state back
swapAll == [swap EXCEPT !.id = 8]
\* appends to log; with protectLog, a member protects what another appends to
protectLog == d(9, "RECORD_COMMIT",
                collar({}, {"z"}, {"log"}, {}, {"z"}), {"z", "log"})

\* takes x for a record and appends to it
appendX == d(10, "RECORD_COMMIT", collar({}, {"x"}, {"x"}, {}, {"x"}), {"x"})

Pred(n) == IF n = 0 THEN 0 ELSE n - 1
Longer(n) == IF n = 2 THEN 0 ELSE n + 1

MCRecover(dr, s) ==
  CASE dr.id = 6 -> "x" :> Pred(s["x"])
    [] dr.id = 2 -> "y" :> IF s["x"] = 0 THEN s["y"] ELSE Pred(s["y"])
    [] dr.id \in {3, 8} -> ("x" :> s["y"]) @@ ("y" :> s["x"])
    [] dr.id = 4 -> "log" :> Longer(s["log"])
    [] dr.id = 5 -> "x" :> IF s["y"] = 0 THEN s["x"] ELSE Pred(s["x"])
    [] dr.id = 1 -> "z" :> Pred(s["z"])
    [] dr.id = 7 -> ("x" :> Pred(s["x"])) @@ ("ghost" :> 0)
    [] dr.id = 9 -> "z" :> Longer(s["z"])
    [] dr.id = 10 -> "x" :> Longer(s["x"])

MCObserved(dr, s) ==
  CASE dr.id \in {6, 7, 10} -> {"x"}
    [] dr.id \in {2, 3, 5, 8} -> {"x", "y"}
    [] dr.id = 4 -> {"log"}
    [] dr.id \in {1, 9} -> {"z"}

MCInverse(dr, s) ==
  CASE dr.id = 3 -> ("x" :> s["x"]) @@ ("y" :> s["y"])
    [] dr.id = 8 -> s
    [] OTHER -> << >>

MCScoreReads(s, k) == k.visible_read_set \cap {"x", "y", "z"}

MCEvaluate(s, k) ==
  [record |-> 0, sector |-> 0, holonomy |-> 0,
   overlap |-> MapThenSumSet(LAMBDA r : s[r], MCScoreReads(s, k)),
   local_constraint |-> 0, auxiliary |-> << >>]

CoreDrafts == {lowerX, lowerZ, swap, ghost}
WideInverseDrafts == {lowerZ, swapAll}
ProtectDrafts == {append, protectLog}

Symmetry == Permutations(Client)
=============================================================================
