------------------------------ MODULE MCAccounts ------------------------------
(* Finite instances of Accounts. *)
EXTENDS Accounts, TLC

CONSTANTS u1, r1, r2

MCUsers == {u1}
MCCalls == {r1, r2}
MCMaxTokens == 3
MCMaxLinks == 2
MCMaxResets == 1

Symmetry == Permutations(MCCalls)
=============================================================================
