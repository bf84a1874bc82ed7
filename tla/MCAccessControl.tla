---------------------------- MODULE MCAccessControl ----------------------------
(* Finite instances of AccessControl. *)
EXTENDS AccessControl, TLC

CONSTANTS t1, t2, u1, u2, l1, r1, r2

MCTenants == {t1, t2}
MCUserIds == {u1, u2}
MCSites == {l1}
MCTenantOf == l1 :> t1
MCMaxRoles == 3
MCCalls == {r1, r2}

Symmetry == Permutations(MCUserIds) \cup Permutations(MCCalls)
=============================================================================
