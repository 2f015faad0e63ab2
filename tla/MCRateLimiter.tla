---------------------------- MODULE MCRateLimiter ----------------------------
(***************************************************************************)
(* An instance of RateLimiter for TLC: two users behind one address, a     *)
(* category with its own limit and one that falls back to the query limit. *)
(***************************************************************************)
EXTENDS RateLimiter, TLC

CONSTANTS u1, u2, home

MCUsers     == {u1, u2}
MCAddresses == {home}
MCIpOf      == [u \in Users |-> home]
MCPaths     == {"/chat", "/health"}
MCLimitOf   == [r \in SettingsRoutes |-> 2]
\* Nothing tells the two users apart.
MCSymmetry  == Permutations(MCUsers)
=============================================================================
