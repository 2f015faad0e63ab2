--------------------------- MODULE MCVectorStores ---------------------------
(***************************************************************************)
(* Two processes with a client each, and two tenants with a document of a  *)
(* row each.                                                               *)
(***************************************************************************)
EXTENDS VectorStores, TLC

CONSTANTS p1, p2, c1, c2, r1, r2, d1, d2, t1, t2

MCProcessOf == (c1 :> p1) @@ (c2 :> p2)
MCDocOf == (r1 :> d1) @@ (r2 :> d2)
MCTenantOf == (d1 :> t1) @@ (d2 :> t2)
=============================================================================
