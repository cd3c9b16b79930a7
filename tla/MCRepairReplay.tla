--------------------------- MODULE MCRepairReplay ---------------------------
(***************************************************************************)
(* The receipts of the store of MCRepairTransaction.                       *)
(***************************************************************************)
EXTENDS RepairReplay, MCRepairTransaction

ReceiptDrafts == {lowerX, lowerY, hidden, appendX}
RollbackDrafts == {lowerX}
=============================================================================
