--------------------------- MODULE MCSalesOrders ---------------------------
(***************************************************************************)
(* One order with two lines of one material, for TLC.                      *)
(***************************************************************************)
EXTENDS SalesOrders, TLC

CONSTANTS m1, o1, l1, l2

Empty == <<>>
MCOrderOf == [l \in SalesLines |-> o1]
MCLineMaterial == [l \in SalesLines |-> m1]
MCInitialStock == {0}
MCThreshold == [m \in Materials |-> 0]
NoRows == {}

Symmetry == Permutations(RequestIds) \cup Permutations(SalesLines)
=============================================================================
