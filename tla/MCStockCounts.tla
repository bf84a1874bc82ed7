---------------------------- MODULE MCStockCounts ----------------------------
(***************************************************************************)
(* StockCounts for TLC: a count of one product with two requests on it at  *)
(* the same time; stock moves, is corrected and gets lost meanwhile.       *)
(***************************************************************************)
EXTENDS StockCounts, TLC

CONSTANTS p1, c1, r1, r2

MCProducts == {p1}
MCCounts == {c1}
MCRequests == {r1, r2}
MCCountable == 0..2

Symmetry == Permutations(Requests)
=============================================================================
