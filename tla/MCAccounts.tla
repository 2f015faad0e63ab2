----------------------------- MODULE MCAccounts -----------------------------
(***************************************************************************)
(* An instance of Accounts for TLC: four requests, enough for a tenant,    *)
(* two overlapping registrations at one address in it and a login there.   *)
(***************************************************************************)
EXTENDS Accounts, TLC

CONSTANTS r1, r2, r3, r4

MCRequests == {r1, r2, r3, r4}
Symmetry == Permutations(MCRequests)

P(kind_, name_, email_, password_) ==
    [kind |-> kind_, name |-> name_, email |-> email_, password |-> password_]
MCPayloads ==
    {P("register", "acme", "ann", "x"), P("register", "acme", "ann", "y"),
     P("register", "acme", "bob", "x"), P("register", "globex", "ann", "x"),
     P("login", "acme", "ann", "x")}
=============================================================================
