------------------------------- MODULE MCSales -------------------------------
(***************************************************************************)
(* Sales for TLC, one product: an order or cart with two requests on it at *)
(* the same time, and a second cart that competes with it for the stock.   *)
(***************************************************************************)
EXTENDS Sales, TLC

CONSTANTS p1, o1, o2, r1, r2

MCProducts == {p1}
MCOrders == {o1, o2}
MCBusy == {o1}
MCRequests == {r1, r2}
MCSaleable == {1}
MCFactors == {2}

WithReturns == {0, 1}
ManyStatuses == {"PENDING_PAYMENT", "PROCESSING", "COMPLETED", "SUSPENDED"}

Symmetry == Permutations(Requests)
=============================================================================
