------------------------------ MODULE Accounts ------------------------------
(***************************************************************************)
(* /auth/register and /auth/login, each request in a transaction of its    *)
(* own.  The database shows a transaction the committed rows and its own,  *)
(* and keeps the names of tenants unique: an insert waits for an open      *)
(* transaction that inserted the same name.  E-mails are not unique.       *)
(*                                                                         *)
(* A request inserts at most one tenant and one user, which are named      *)
(* after it (new_id()): tenant p and user p are the rows of request p.     *)
(***************************************************************************)
EXTENDS Naturals

CONSTANTS
    Requests,
    Names,      \* tenant names
    Emails,
    Passwords,
    Payloads,   \* what is sent
    None

Payload == [kind : {"register", "login"}, name : Names, email : Emails, password : Passwords]

ASSUME AccountsAssumption == None \notin Requests /\ Payloads \subseteq Payload

VARIABLES
    pc,         \* the next step of a request
    req,        \* its payload
    tid,        \* the id of the tenant it works for
    tenantRow,  \* of tenant p: "none", "open" (in p's transaction) or "committed"
    userRow,    \* of user p, likewise
    reply,      \* what the client got
    met,        \* history: the requests that were open at the same time
    known       \* history: the users committed when the request came

vars == <<pc, req, tid, tenantRow, userRow, reply, met, known>>

Steps == {"idle", "tenant", "insert", "user", "add", "commit", "over"}
RowStates == {"none", "open", "committed"}
Replies == {"none", "token", "conflict", "refused", "error", "dropped"}

TypeOK ==
    /\ pc \in [Requests -> Steps]
    /\ req \in [Requests -> Payload]
    /\ tid \in [Requests -> Requests \cup {None}]
    /\ tenantRow \in [Requests -> RowStates]
    /\ userRow \in [Requests -> RowStates]
    /\ reply \in [Requests -> Replies]
    /\ met \in [Requests -> SUBSET Requests]
    /\ known \in [Requests -> SUBSET Requests]

-----------------------------------------------------------------------------

Open(p) == pc[p] \notin {"idle", "over"}

Committed(row) == {q \in Requests : row[q] = "committed"}

Visible(p, row) == {q \in Requests : row[q] = "committed" \/ (q = p /\ row[q] = "open")}

\* Tenant.name == payload.tenant_name
TenantsOf(p) == {q \in Visible(p, tenantRow) : req[q].name = req[p].name}

\* Variant: get_by_email without the tenant.  "Variant" operators are
\* plausible errors that no step uses.
UsersAnywhere(p) == {q \in Visible(p, userRow) : req[q].email = req[p].email}

\* get_by_email(tenant_id, email)
UsersOf(p) == {q \in Visible(p, userRow) : tid[q] = tid[p] /\ req[q].email = req[p].email}

At(p, step) == pc[p] = step

Go(p, step) ==
    /\ pc' = [pc EXCEPT ![p] = step]
    /\ UNCHANGED <<req, reply, met, known>>

\* The request is answered; what its transaction wrote is rolled back.
End(p, answer) ==
    /\ pc' = [pc EXCEPT ![p] = "over"]
    /\ reply' = [reply EXCEPT ![p] = answer]
    /\ tenantRow' = [tenantRow EXCEPT ![p] = "none"]
    /\ userRow' = [userRow EXCEPT ![p] = "none"]
    /\ UNCHANGED <<req, tid, met, known>>

Init ==
    /\ pc = [p \in Requests |-> "idle"]
    /\ req \in [Requests -> Payloads]
    /\ tid = [p \in Requests |-> None]
    /\ tenantRow = [p \in Requests |-> "none"]
    /\ userRow = [p \in Requests |-> "none"]
    /\ reply = [p \in Requests |-> "none"]
    /\ met = [p \in Requests |-> {}]
    /\ known = [p \in Requests |-> {}]

Begin(p) ==
    /\ At(p, "idle")
    /\ pc' = [pc EXCEPT ![p] = "tenant"]
    /\ met' = [q \in Requests |-> IF q = p THEN {r \in Requests : Open(r)}
                                  ELSE IF Open(q) THEN met[q] \cup {p} ELSE met[q]]
    /\ known' = [known EXCEPT ![p] = Committed(userRow)]
    /\ UNCHANGED <<req, tid, tenantRow, userRow, reply>>

\* select(Tenant) of both handlers.
FindTenant(p) ==
    /\ At(p, "tenant")
    /\ \/ \E t \in TenantsOf(p) :
            /\ tid' = [tid EXCEPT ![p] = t]
            /\ Go(p, "user")
            /\ UNCHANGED <<tenantRow, userRow>>
       \/ /\ TenantsOf(p) = {} /\ req[p].kind = "register"
          /\ Go(p, "insert")
          /\ UNCHANGED <<tid, tenantRow, userRow>>
       \/ /\ TenantsOf(p) = {} /\ req[p].kind = "login"
          /\ End(p, "refused")

SameName(p, state) == {q \in Requests \ {p} : tenantRow[q] = state /\ req[q].name = req[p].name}

\* The flush of t_repo.add: an insert of a name that was committed meanwhile
\* raises, and the request ends with status 500.
InsertTenant(p) ==
    /\ At(p, "insert")
    /\ SameName(p, "open") = {}
    /\ \/ /\ SameName(p, "committed") = {}
          /\ tenantRow' = [tenantRow EXCEPT ![p] = "open"]
          /\ tid' = [tid EXCEPT ![p] = p]
          /\ Go(p, "user")
          /\ UNCHANGED userRow
       \/ /\ SameName(p, "committed") # {}
          /\ End(p, "error")

\* scalar_one_or_none: more than one row raises.
SeveralUsers(p) ==
    /\ At(p, "user")
    /\ \E u, v \in UsersOf(p) : u # v
    /\ End(p, "error")

\* Variant: the look-up for an existing user is missing.
RegisterBlindly(p) ==
    /\ At(p, "user") /\ req[p].kind = "register"
    /\ Go(p, "add") /\ UNCHANGED <<tid, tenantRow, userRow>>

RegisterFindUser(p) ==
    /\ At(p, "user") /\ req[p].kind = "register"
    /\ \A u, v \in UsersOf(p) : u = v
    /\ \/ UsersOf(p) = {} /\ Go(p, "add") /\ UNCHANGED <<tid, tenantRow, userRow>>
       \/ UsersOf(p) # {} /\ End(p, "conflict")

LoginFindUser(p) ==
    /\ At(p, "user") /\ req[p].kind = "login"
    /\ \A u, v \in UsersOf(p) : u = v
    /\ LET own == {u \in UsersOf(p) : req[u].password = req[p].password}
       IN  End(p, IF own = {} THEN "refused" ELSE "token")

AddUser(p) ==
    /\ At(p, "add")
    /\ userRow' = [userRow EXCEPT ![p] = "open"]
    /\ Go(p, "commit")
    /\ UNCHANGED <<tid, tenantRow>>

Commit(p) ==
    /\ At(p, "commit")
    /\ pc' = [pc EXCEPT ![p] = "over"]
    /\ reply' = [reply EXCEPT ![p] = "token"]
    /\ tenantRow' = [tenantRow EXCEPT ![p] = IF @ = "open" THEN "committed" ELSE @]
    /\ userRow' = [userRow EXCEPT ![p] = "committed"]
    /\ UNCHANGED <<req, tid, met, known>>

\* The process or the connection to the database is lost.
Drop(p) == Open(p) /\ End(p, "dropped")

Next == \E p \in Requests :
    \/ Begin(p) \/ FindTenant(p) \/ InsertTenant(p)
    \/ SeveralUsers(p) \/ RegisterFindUser(p) \/ LoginFindUser(p)
    \/ AddUser(p) \/ Commit(p) \/ Drop(p)

Spec == Init /\ [][Next]_vars

-----------------------------------------------------------------------------
(* Properties. *)

Users == Committed(userRow)
Tenants == Committed(tenantRow)

SameAddress(u, v) == tid[u] = tid[v] /\ req[u].email = req[v].email

\* A name has one tenant, every user belongs to a tenant that was committed
\* with or before it under the name it registered with, and two users share
\* tenant and e-mail only if their registrations overlapped: the look-up
\* catches every duplicate but the one nothing in the code or schema stops.
OneAccountPerAddress ==
    /\ \A s, t \in Tenants : req[s].name = req[t].name => s = t
    /\ \A u \in Users : tid[u] \in Tenants /\ req[tid[u]].name = req[u].name
    /\ \A u, v \in Users : u # v /\ SameAddress(u, v) => v \in met[u]

Matches(u, p) == req[u].name = req[p].name /\ req[u].email = req[p].email

\* What a request is told is true: a token is for an account of that tenant,
\* e-mail and password; a refusal means that no such account existed when the
\* request came; a conflict means that the address is taken.  A request fails
\* only after a race: another registration committed the same tenant while it
\* ran, or overlapping registrations left two users at its address.
RepliesAreFaithful == \A p \in Requests :
    /\ reply[p] = "token" => \E u \in Users : Matches(u, p) /\ req[u].password = req[p].password
    /\ reply[p] = "refused" => \A u \in known[p] : Matches(u, p) => req[u].password # req[p].password
    /\ reply[p] = "conflict" => \E u \in Users \ {p} : Matches(u, p)
    /\ reply[p] = "error" =>
         \/ \E q \in Tenants \cap met[p] : req[q].name = req[p].name
         \/ \E u, v \in Users : u # v /\ Matches(u, p) /\ Matches(v, p) /\ v \in met[u]
=============================================================================
