-------------------------- MODULE MCStockDocuments --------------------------
(***************************************************************************)
(* One product on two warehouses, for TLC.                                 *)
(***************************************************************************)
EXTENDS StockDocuments, TLC

CONSTANTS m1, m2, w1, w2

Empty == <<>>
NoRows == {}
MCWarehouseOf == [m \in Materials |-> IF m = m1 THEN w1 ELSE w2]
MCProductOf == [m \in Materials |-> "beam"]
MCInitialStock == {1}
MCThreshold == [m \in Materials |-> IF m = m1 THEN 1 ELSE 0]
MCImportedBalances == {0, 2}
=============================================================================
