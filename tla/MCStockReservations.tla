------------------------ MODULE MCStockReservations ------------------------
(***************************************************************************)
(* Small warehouses for TLC: which norm belongs to which house and         *)
(* material, and the opening balances.                                     *)
(***************************************************************************)
EXTENDS StockReservations, TLC

CONSTANTS m1, h1, h2

MCBlockMaterials == {1, 2}
MCHouseOf == [b \in MCBlockMaterials |-> IF b = 1 THEN h1 ELSE h2]
MCMaterialOf == [b \in MCBlockMaterials |-> m1]
MCInitialRequired == [b \in MCBlockMaterials |-> IF b = 1 THEN 2 ELSE 1]
MCInitialStock == {-1, 2}
MCThreshold == [m \in Materials |-> 1]

OneNorm == {1}
OneHouseOf == [b \in OneNorm |-> h1]
OneMaterialOf == [b \in OneNorm |-> m1]
OneRequired == [b \in OneNorm |-> 2]

Symmetry == Permutations(RequestIds)
=============================================================================
