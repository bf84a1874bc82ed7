---------------------------- MODULE MCCashSessions ----------------------------
(* Finite instances of CashSessions. *)
EXTENDS CashSessions, TLC

CONSTANTS s1, s2, r1, r2

MCSessions == {s1, s2}
MCRequests == {r1, r2}
MCAmounts == 0..1
MCMaxCash == 3

Symmetry == Permutations(MCSessions) \cup Permutations(MCRequests)
=============================================================================
