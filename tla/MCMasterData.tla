---------------------------- MODULE MCMasterData ----------------------------
(***************************************************************************)
(* Finite instances of Directory and of Catalogue, which share no state: a *)
(* behaviour is of one of them, chosen in the beginning.                   *)
(***************************************************************************)
EXTENDS Directory, Catalogue

CONSTANTS i1, i2, d1, n1, n2, r1, r2, p1, c1, name1, l1, call1, call2

VARIABLE chosen

MCIds == {i1, i2}
MCDeps == {d1}
MCNames == {n1, n2}
MCRequests == {r1, r2}
MCProducts == {p1}
MCCategories == {c1}
MCCategoryNames == {name1}
MCLocations == {l1}
MCScopes == {{}, {l1}}
MCCalls == {call1, call2}

MasterDataVars == <<chosen, vars, catalogueVars>>

MasterDataInit ==
  /\ chosen \in {"directory", "catalogue"}
  /\ Init /\ CatalogueInit
  /\ chosen = "catalogue" => kind = "category"

MasterDataNext ==
  /\ UNCHANGED chosen
  /\ \/ chosen = "directory" /\ Next /\ UNCHANGED catalogueVars
     \/ chosen = "catalogue" /\ CatalogueNext /\ UNCHANGED vars

MasterDataSpec ==
  /\ MasterDataInit /\ [][MasterDataNext]_MasterDataVars
  /\ \A k \in Keys : WF_catalogueVars(Expire(k))
=============================================================================
