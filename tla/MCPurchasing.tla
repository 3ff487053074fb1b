---------------------------- MODULE MCPurchasing ----------------------------
(***************************************************************************)
(* One order from one supplier, for TLC: goods, and a service beside them. *)
(***************************************************************************)
EXTENDS Purchasing, TLC

CONSTANTS m1, l1

Empty == <<>>
NoRows == {}
MCGoodAt == [l \in Positions |-> IF l = l1 THEN m1 ELSE Null]
MCInitialStock == {0}
MCThreshold == [m \in Materials |-> 0]

Symmetry == Permutations(Receipts) \cup Permutations(Returns) \cup Permutations(Movements)
=============================================================================
