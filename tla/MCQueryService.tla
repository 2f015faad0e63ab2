--------------------------- MODULE MCQueryService ---------------------------
(***************************************************************************)
(* An instance of QueryService for TLC: a question and a follow-up.        *)
(***************************************************************************)
EXTENDS QueryService

CONSTANTS r1, r2, none

MCRequests == {r1, r2}
=============================================================================
