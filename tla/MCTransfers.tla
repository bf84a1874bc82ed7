----------------------------- MODULE MCTransfers -----------------------------
(***************************************************************************)
(* Transfers for TLC: one transfer of up to two products between two       *)
(* locations, and two requests on it at the same time.                     *)
(***************************************************************************)
EXTENDS Transfers, TLC

CONSTANTS p1, p2, l1, l2, t1, r1, r2

MCProducts == {p1, p2}
MCLocations == {l1, l2}
MCTransfers1 == {t1}
MCRequests == {r1, r2}
MCRequestable == {0, 1, 2}
MCFactors == {1, 2}
MCCorrections == {-2, 0, 2}

Symmetry == Permutations(MCRequests) \cup Permutations(MCProducts)
              \cup Permutations(MCLocations)
=============================================================================
