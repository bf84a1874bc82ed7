--------------------------- MODULE MCPurchaseOrders ---------------------------
(***************************************************************************)
(* PurchaseOrders for TLC: one order of up to two products, tracked or     *)
(* not, in units of two, and two requests on it at the same time.          *)
(***************************************************************************)
EXTENDS PurchaseOrders, TLC

CONSTANTS p1, p2, l1, o1, r1, r2

MCProducts == {p1, p2}
MCLocations == {l1}
MCOrders == {o1}
MCRequests == {r1, r2}
MCOrderable == 0..2
MCReceipts == {0, 1}
MCFactors == {2}
MCShippingCosts == {0, 1}

Symmetry == Permutations(MCRequests) \cup Permutations(MCProducts)
=============================================================================
