--------------------------- MODULE AccountsProofs ---------------------------
(***************************************************************************)
(* For any requests, names and payloads: two users share an address only   *)
(* if their registrations overlapped, and a tenant name has one tenant.    *)
(*                                                                         *)
(* OneAccountPerAddress speaks of committed rows only, so it says nothing  *)
(* of the step that commits one.  The invariant adds what holds of open    *)
(* transactions: which rows they may have written, that a name has one     *)
(* tenant row however it stands, that a request works for a tenant that is *)
(* committed or its own, that open requests have met each other, and that  *)
(* a request past its look-up has met every user at its address.           *)
(***************************************************************************)
EXTENDS Accounts, TLAPS

RowsFollowSteps == \A p \in Requests :
    /\ tenantRow[p] = "open" => pc[p] \in {"user", "add", "commit"}
    /\ tenantRow[p] = "committed" => pc[p] = "over"
    /\ userRow[p] = "open" <=> pc[p] = "commit"
    /\ userRow[p] = "committed" => pc[p] = "over"

OneTenantPerName == \A p, q \in Requests :
    tenantRow[p] # "none" /\ tenantRow[q] # "none" /\ req[p].name = req[q].name => p = q

Past(p) == pc[p] \in {"user", "add", "commit"}

WorksForTenant == \A p \in Requests :
    Past(p) \/ userRow[p] = "committed" =>
        /\ tid[p] \in Requests
        /\ req[tid[p]].name = req[p].name
        /\ \/ tenantRow[tid[p]] = "committed"
           \/ Past(p) /\ tid[p] = p /\ tenantRow[p] = "open"

OpenHaveMet == \A p, q \in Requests : Open(p) /\ Open(q) /\ p # q => q \in met[p]

DuplicatesHaveMet == \A u, v \in Requests :
    /\ u # v /\ SameAddress(u, v)
    /\ userRow[u] = "committed"
    /\ pc[v] \in {"add", "commit"} \/ userRow[v] = "committed"
    => v \in met[u] /\ u \in met[v]

IInv ==
    /\ TypeOK
    /\ RowsFollowSteps
    /\ OneTenantPerName
    /\ WorksForTenant
    /\ OpenHaveMet
    /\ DuplicatesHaveMet

\* No request has come yet.
LEMMA InitIInv == Init => IInv
BY AccountsAssumption
   DEF Init, IInv, TypeOK, Payload, Steps, RowStates, Replies, RowsFollowSteps, OneTenantPerName,
       Past, WorksForTenant, OpenHaveMet, Open, DuplicatesHaveMet

\* A step keeps the types.
LEMMA TypeStep == TypeOK /\ [Next]_vars => TypeOK'
<1> SUFFICES ASSUME TypeOK, [Next]_vars PROVE TypeOK'
    OBVIOUS
<1> USE DEF TypeOK, Steps, RowStates, Replies, Go, End, At
<1>1. CASE UNCHANGED vars
    BY <1>1 DEF vars
<1>2. ASSUME NEW p \in Requests, Begin(p) PROVE TypeOK'
    BY <1>2 DEF Begin, Open, Committed
<1>3. ASSUME NEW p \in Requests, FindTenant(p) PROVE TypeOK'
    BY <1>3 DEF FindTenant, TenantsOf, Visible
<1>4. ASSUME NEW p \in Requests, InsertTenant(p) PROVE TypeOK'
    BY <1>4 DEF InsertTenant
<1>5. ASSUME NEW p \in Requests, SeveralUsers(p) PROVE TypeOK'
    BY <1>5 DEF SeveralUsers
<1>6. ASSUME NEW p \in Requests, RegisterFindUser(p) PROVE TypeOK'
    BY <1>6 DEF RegisterFindUser
<1>7. ASSUME NEW p \in Requests, LoginFindUser(p) PROVE TypeOK'
    BY <1>7 DEF LoginFindUser
<1>8. ASSUME NEW p \in Requests, AddUser(p) PROVE TypeOK'
    BY <1>8 DEF AddUser
<1>9. ASSUME NEW p \in Requests, Commit(p) PROVE TypeOK'
    BY <1>9 DEF Commit
<1>10. ASSUME NEW p \in Requests, Drop(p) PROVE TypeOK'
    BY <1>10 DEF Drop
<1> QED
    BY <1>1, <1>2, <1>3, <1>4, <1>5, <1>6, <1>7, <1>8, <1>9, <1>10 DEF Next

\* Every variable of a request keeps its type.
THEOREM TypeCorrect == Spec => []TypeOK
<1>1. Init => TypeOK
    BY InitIInv DEF IInv
<1> QED
    BY <1>1, TypeStep, PTL DEF Spec

\* Rows are written at the steps that write them.
LEMMA RowsStep == IInv /\ [Next]_vars => RowsFollowSteps'
<1> SUFFICES ASSUME TypeOK, RowsFollowSteps, [Next]_vars PROVE RowsFollowSteps'
    BY DEF IInv
<1> USE DEF TypeOK, RowStates, RowsFollowSteps, Go, End, At, Open
<1>1. CASE UNCHANGED vars
    BY <1>1 DEF vars
<1>2. ASSUME NEW p \in Requests, Begin(p) PROVE RowsFollowSteps'
    BY <1>2 DEF Begin
<1>3. ASSUME NEW p \in Requests, FindTenant(p) PROVE RowsFollowSteps'
    BY <1>3 DEF FindTenant
<1>4. ASSUME NEW p \in Requests, InsertTenant(p) PROVE RowsFollowSteps'
    BY <1>4 DEF InsertTenant
<1>5. ASSUME NEW p \in Requests, SeveralUsers(p) PROVE RowsFollowSteps'
    BY <1>5 DEF SeveralUsers
<1>6. ASSUME NEW p \in Requests, RegisterFindUser(p) PROVE RowsFollowSteps'
    BY <1>6 DEF RegisterFindUser
<1>7. ASSUME NEW p \in Requests, LoginFindUser(p) PROVE RowsFollowSteps'
    BY <1>7 DEF LoginFindUser
<1>8. ASSUME NEW p \in Requests, AddUser(p) PROVE RowsFollowSteps'
    BY <1>8 DEF AddUser
<1>9. ASSUME NEW p \in Requests, Commit(p) PROVE RowsFollowSteps'
    BY <1>9 DEF Commit
<1>10. ASSUME NEW p \in Requests, Drop(p) PROVE RowsFollowSteps'
    BY <1>10 DEF Drop
<1> QED
    BY <1>1, <1>2, <1>3, <1>4, <1>5, <1>6, <1>7, <1>8, <1>9, <1>10 DEF Next

\* Only an insert makes a tenant row, and it looks for rows of its name first.
LEMMA NamesStep == IInv /\ [Next]_vars => OneTenantPerName'
<1> SUFFICES ASSUME TypeOK, RowsFollowSteps, OneTenantPerName, [Next]_vars PROVE OneTenantPerName'
    BY DEF IInv
<1> USE DEF TypeOK, RowStates, OneTenantPerName, At, Open
<1>1. ASSUME UNCHANGED <<tenantRow, req>> PROVE OneTenantPerName'
    BY <1>1
<1>2. ASSUME NEW p \in Requests, NEW answer, End(p, answer) PROVE OneTenantPerName'
    BY <1>2 DEF End
<1>3. ASSUME NEW p \in Requests, InsertTenant(p) PROVE OneTenantPerName'
    <2>1. CASE SameName(p, "committed") # {}
        BY <1>3, <2>1, <1>2 DEF InsertTenant
    <2>2. CASE SameName(p, "committed") = {}
        <3>1. \A q \in Requests \ {p} : tenantRow[q] # "none" => req[q].name # req[p].name
            BY <1>3, <2>2 DEF InsertTenant, SameName
        <3>2. tenantRow' = [tenantRow EXCEPT ![p] = "open"] /\ UNCHANGED req
            BY <1>3, <2>2 DEF InsertTenant, Go
        <3> QED
            BY <3>1, <3>2
    <2> QED
        BY <2>1, <2>2
<1>4. ASSUME NEW p \in Requests, Commit(p) PROVE OneTenantPerName'
    BY <1>4 DEF Commit
<1>5. ASSUME NEW p \in Requests,
             Begin(p) \/ FindTenant(p) \/ SeveralUsers(p) \/ RegisterFindUser(p)
             \/ LoginFindUser(p) \/ AddUser(p) \/ Drop(p)
      PROVE  UNCHANGED <<tenantRow, req>> \/ \E answer : End(p, answer)
    <2>1. CASE Begin(p)
        BY <2>1 DEF Begin
    <2>2. CASE FindTenant(p)
        BY <2>2 DEF FindTenant, Go
    <2>3. CASE SeveralUsers(p)
        BY <2>3 DEF SeveralUsers
    <2>4. CASE RegisterFindUser(p)
        BY <2>4 DEF RegisterFindUser, Go
    <2>5. CASE LoginFindUser(p)
        BY <2>5 DEF LoginFindUser
    <2>6. CASE AddUser(p)
        BY <2>6 DEF AddUser, Go
    <2>7. CASE Drop(p)
        BY <2>7 DEF Drop
    <2> QED
        BY <1>5, <2>1, <2>2, <2>3, <2>4, <2>5, <2>6, <2>7
<1> QED
    BY <1>1, <1>2, <1>3, <1>4, <1>5 DEF Next, vars

\* A tenant is found committed or is the request's own; a commit takes the
\* tenant along, and no committed row is ever removed.
LEMMA TenantStep == IInv /\ [Next]_vars => WorksForTenant'
<1> SUFFICES ASSUME TypeOK, RowsFollowSteps, WorksForTenant, [Next]_vars PROVE WorksForTenant'
    BY DEF IInv
<1> USE DEF TypeOK, RowStates, RowsFollowSteps, WorksForTenant, Past, Go, End, At, Open
<1>1. CASE UNCHANGED vars
    BY <1>1 DEF vars
<1>2. ASSUME NEW p \in Requests, Begin(p) PROVE WorksForTenant'
    BY <1>2 DEF Begin
<1>3. ASSUME NEW p \in Requests, FindTenant(p) PROVE WorksForTenant'
    BY <1>3 DEF FindTenant, TenantsOf, Visible
<1>4. ASSUME NEW p \in Requests, InsertTenant(p) PROVE WorksForTenant'
    BY <1>4 DEF InsertTenant
<1>5. ASSUME NEW p \in Requests, SeveralUsers(p) PROVE WorksForTenant'
    BY <1>5 DEF SeveralUsers
<1>6. ASSUME NEW p \in Requests, RegisterFindUser(p) PROVE WorksForTenant'
    BY <1>6 DEF RegisterFindUser
<1>7. ASSUME NEW p \in Requests, LoginFindUser(p) PROVE WorksForTenant'
    BY <1>7 DEF LoginFindUser
<1>8. ASSUME NEW p \in Requests, AddUser(p) PROVE WorksForTenant'
    BY <1>8 DEF AddUser
<1>9. ASSUME NEW p \in Requests, Commit(p) PROVE WorksForTenant'
    BY <1>9 DEF Commit
<1>10. ASSUME NEW p \in Requests, Drop(p) PROVE WorksForTenant'
    BY <1>10 DEF Drop
<1> QED
    BY <1>1, <1>2, <1>3, <1>4, <1>5, <1>6, <1>7, <1>8, <1>9, <1>10 DEF Next

\* Only Begin opens a request, and it introduces it to those that are open.
LEMMA MeetStep == IInv /\ [Next]_vars => OpenHaveMet'
<1> SUFFICES ASSUME TypeOK, OpenHaveMet, [Next]_vars PROVE OpenHaveMet'
    BY DEF IInv
<1> USE DEF TypeOK, OpenHaveMet, Open, Go, End, At
<1>1. CASE UNCHANGED vars
    BY <1>1 DEF vars
<1>2. ASSUME NEW p \in Requests, Begin(p) PROVE OpenHaveMet'
    BY <1>2 DEF Begin
<1>3. ASSUME NEW p \in Requests, FindTenant(p) PROVE OpenHaveMet'
    BY <1>3 DEF FindTenant
<1>4. ASSUME NEW p \in Requests, InsertTenant(p) PROVE OpenHaveMet'
    BY <1>4 DEF InsertTenant
<1>5. ASSUME NEW p \in Requests, SeveralUsers(p) PROVE OpenHaveMet'
    BY <1>5 DEF SeveralUsers
<1>6. ASSUME NEW p \in Requests, RegisterFindUser(p) PROVE OpenHaveMet'
    BY <1>6 DEF RegisterFindUser
<1>7. ASSUME NEW p \in Requests, LoginFindUser(p) PROVE OpenHaveMet'
    BY <1>7 DEF LoginFindUser
<1>8. ASSUME NEW p \in Requests, AddUser(p) PROVE OpenHaveMet'
    BY <1>8 DEF AddUser
<1>9. ASSUME NEW p \in Requests, Commit(p) PROVE OpenHaveMet'
    BY <1>9 DEF Commit
<1>10. ASSUME NEW p \in Requests, Drop(p) PROVE OpenHaveMet'
    BY <1>10 DEF Drop
<1> QED
    BY <1>1, <1>2, <1>3, <1>4, <1>5, <1>6, <1>7, <1>8, <1>9, <1>10 DEF Next

\* The look-up of RegisterFindUser keeps out every address that is taken; who
\* is past it when another user is committed was open at the same time.
LEMMA DuplicatesStep == IInv /\ [Next]_vars => DuplicatesHaveMet'
<1> SUFFICES ASSUME IInv, [Next]_vars PROVE DuplicatesHaveMet'
    OBVIOUS
<1> USE DEF IInv, TypeOK, RowStates, RowsFollowSteps, DuplicatesHaveMet, SameAddress, Go, End, At, Open
<1>1. CASE UNCHANGED vars
    BY <1>1 DEF vars
<1>2. ASSUME NEW p \in Requests, Begin(p) PROVE DuplicatesHaveMet'
    BY <1>2 DEF Begin
<1>3. ASSUME NEW p \in Requests, FindTenant(p) PROVE DuplicatesHaveMet'
    BY <1>3 DEF FindTenant
<1>4. ASSUME NEW p \in Requests, InsertTenant(p) PROVE DuplicatesHaveMet'
    BY <1>4 DEF InsertTenant
<1>5. ASSUME NEW p \in Requests, SeveralUsers(p) PROVE DuplicatesHaveMet'
    BY <1>5 DEF SeveralUsers
<1>6. ASSUME NEW p \in Requests, RegisterFindUser(p) PROVE DuplicatesHaveMet'
    BY <1>6 DEF RegisterFindUser, UsersOf, Visible
<1>7. ASSUME NEW p \in Requests, LoginFindUser(p) PROVE DuplicatesHaveMet'
    BY <1>7 DEF LoginFindUser
<1>8. ASSUME NEW p \in Requests, AddUser(p) PROVE DuplicatesHaveMet'
    BY <1>8 DEF AddUser
<1>9. ASSUME NEW p \in Requests, Commit(p) PROVE DuplicatesHaveMet'
    BY <1>9 DEF Commit, OpenHaveMet
<1>10. ASSUME NEW p \in Requests, Drop(p) PROVE DuplicatesHaveMet'
    BY <1>10 DEF Drop
<1> QED
    BY <1>1, <1>2, <1>3, <1>4, <1>5, <1>6, <1>7, <1>8, <1>9, <1>10 DEF Next

\* The strengthened invariant holds of every behaviour.
THEOREM Invariant == Spec => []IInv
<1>1. IInv /\ [Next]_vars => IInv'
    BY TypeStep, RowsStep, NamesStep, TenantStep, MeetStep, DuplicatesStep DEF IInv
<1> QED
    BY InitIInv, <1>1, PTL DEF Spec

\* For any requests: a tenant name has one tenant, every user belongs to a
\* committed tenant of the name it registered with, and users that share an
\* address registered while both were open.
THEOREM DuplicatesOverlapped == Spec => []OneAccountPerAddress
<1>1. IInv => OneAccountPerAddress
    <2> SUFFICES ASSUME IInv PROVE OneAccountPerAddress
        OBVIOUS
    <2>1. \A s, t \in Tenants : req[s].name = req[t].name => s = t
        BY DEF IInv, OneTenantPerName, Tenants, Committed
    <2>2. \A u \in Users : tid[u] \in Tenants /\ req[tid[u]].name = req[u].name
        BY DEF IInv, RowsFollowSteps, WorksForTenant, Past, Users, Tenants, Committed
    <2>3. \A u, v \in Users : u # v /\ SameAddress(u, v) => v \in met[u]
        BY DEF IInv, DuplicatesHaveMet, Users, Committed
    <2> QED
        BY <2>1, <2>2, <2>3 DEF OneAccountPerAddress
<1> QED
    BY Invariant, <1>1, PTL

-----------------------------------------------------------------------------
(* Replies.  What a request was told is compared with what was committed:  *)
(* the users known when it came stay, and a tenant that was committed after *)
(* its look-up belongs to a request it has met.                            *)

Histories == \A p \in Requests :
    /\ reply[p] # "none" => pc[p] = "over"
    /\ known[p] \subseteq Users
    /\ pc[p] = "insert" => \A q \in Tenants : req[q].name = req[p].name => q \in met[p]

RInv == IInv /\ Histories /\ RepliesAreFaithful

\* The tenant a request works for is the tenant of every user of that name.
LEMMA SameTenant ==
    ASSUME IInv, NEW p \in Requests, Past(p), NEW u \in Users
    PROVE  req[u].name = req[p].name <=> tid[u] = tid[p]
<1>1. userRow[u] = "committed" /\ u \in Requests
    BY DEF Users, Committed
<1>2. /\ tid[u] \in Requests /\ tid[p] \in Requests
      /\ req[tid[u]].name = req[u].name /\ req[tid[p]].name = req[p].name
    BY <1>1 DEF IInv, WorksForTenant
<1>3. tenantRow[tid[u]] # "none" /\ tenantRow[tid[p]] # "none"
    BY <1>1 DEF IInv, WorksForTenant, RowsFollowSteps, Past
<1> QED
    BY <1>2, <1>3 DEF IInv, OneTenantPerName

\* Who looks a user up sees every committed user of its tenant's name and
\* e-mail and, having inserted none, no other.
LEMMA LookUp ==
    ASSUME IInv, NEW p \in Requests, pc[p] = "user"
    PROVE  UsersOf(p) = {u \in Users : Matches(u, p)}
<1>1. userRow[p] # "open"
    BY DEF IInv, RowsFollowSteps
<1>2. Visible(p, userRow) = Users
    BY <1>1 DEF Visible, Users, Committed
<1> QED
    BY <1>2, SameTenant DEF UsersOf, Matches, Past

\* A tenant that appears after the look-up is committed by a request that met it.
LEMMA HistoriesStep == RInv /\ [Next]_vars => Histories'
<1> SUFFICES ASSUME IInv, Histories, [Next]_vars PROVE Histories'
    BY DEF RInv
<1> USE DEF IInv, TypeOK, RowStates, RowsFollowSteps, Histories, Users, Tenants, Committed, Go, End, At, Open
<1>1. CASE UNCHANGED vars
    BY <1>1 DEF vars
<1>2. ASSUME NEW p \in Requests, Begin(p) PROVE Histories'
    BY <1>2 DEF Begin
<1>3. ASSUME NEW p \in Requests, FindTenant(p) PROVE Histories'
    BY <1>3 DEF FindTenant, TenantsOf, Visible
<1>4. ASSUME NEW p \in Requests, InsertTenant(p) PROVE Histories'
    BY <1>4 DEF InsertTenant
<1>5. ASSUME NEW p \in Requests, SeveralUsers(p) PROVE Histories'
    BY <1>5 DEF SeveralUsers
<1>6. ASSUME NEW p \in Requests, RegisterFindUser(p) PROVE Histories'
    BY <1>6 DEF RegisterFindUser
<1>7. ASSUME NEW p \in Requests, LoginFindUser(p) PROVE Histories'
    BY <1>7 DEF LoginFindUser
<1>8. ASSUME NEW p \in Requests, AddUser(p) PROVE Histories'
    BY <1>8 DEF AddUser
<1>9. ASSUME NEW p \in Requests, Commit(p) PROVE Histories'
    BY <1>9 DEF Commit, OpenHaveMet
<1>10. ASSUME NEW p \in Requests, Drop(p) PROVE Histories'
    BY <1>10 DEF Drop
<1> QED
    BY <1>1, <1>2, <1>3, <1>4, <1>5, <1>6, <1>7, <1>8, <1>9, <1>10 DEF Next

\* The four clauses of RepliesAreFaithful for one answer of one request.
Faithful(p, answer) ==
    /\ answer = "token" => \E u \in Users : Matches(u, p) /\ req[u].password = req[p].password
    /\ answer = "refused" => \A u \in known[p] : Matches(u, p) => req[u].password # req[p].password
    /\ answer = "conflict" => \E u \in Users \ {p} : Matches(u, p)
    /\ answer = "error" =>
         \/ \E q \in Tenants \cap met[p] : req[q].name = req[p].name
         \/ \E u, v \in Users : u # v /\ Matches(u, p) /\ Matches(v, p) /\ v \in met[u]

\* A request that is answered without a commit is told the truth.
LEMMA AnswersAreFaithful ==
    ASSUME RInv, NEW p \in Requests, NEW answer, End(p, answer),
           FindTenant(p) \/ InsertTenant(p) \/ SeveralUsers(p)
           \/ RegisterFindUser(p) \/ LoginFindUser(p) \/ Drop(p)
    PROVE  Faithful(p, answer)
<1> USE DEF Faithful
<1>0. reply'[p] = answer /\ pc'[p] = "over"
    BY DEF RInv, IInv, TypeOK, End
<1>1. CASE FindTenant(p)
    <2>1. At(p, "tenant") /\ TenantsOf(p) = {} /\ answer = "refused"
        BY <1>0, <1>1 DEF FindTenant, Go, End, RInv, IInv, TypeOK
    <2>2. \A u \in Users : req[u].name # req[p].name
        BY <2>1 DEF TenantsOf, Visible, Users, Committed, RInv, IInv, WorksForTenant, Past, RowsFollowSteps
    <2>3. \A u \in known[p] : ~Matches(u, p)
        BY <2>2 DEF RInv, Histories, Matches
    <2> QED
        BY <2>1, <2>3
<1>2. CASE InsertTenant(p)
    <2>1. At(p, "insert") /\ SameName(p, "committed") # {} /\ answer = "error"
        BY <1>0, <1>2 DEF InsertTenant, Go, End, RInv, IInv, TypeOK
    <2>2. \E q \in Tenants : req[q].name = req[p].name
        BY <2>1 DEF SameName, Tenants, Committed
    <2> QED
        BY <2>1, <2>2 DEF RInv, Histories, At
<1>3. CASE SeveralUsers(p)
    <2>1. pc[p] = "user" /\ answer = "error" /\ \E u, v \in UsersOf(p) : u # v
        BY <1>0, <1>3 DEF SeveralUsers, At, End, RInv, IInv, TypeOK
    <2>2. PICK u \in Users, v \in Users : u # v /\ Matches(u, p) /\ Matches(v, p)
        BY <2>1, LookUp DEF RInv
    <2>3. SameAddress(u, v)
        BY <2>1, <2>2, SameTenant DEF RInv, Matches, SameAddress, Past
    <2>4. v \in met[u]
        BY <2>2, <2>3 DEF RInv, IInv, DuplicatesHaveMet, Users, Committed
    <2> QED
        BY <2>1, <2>2, <2>4
<1>4. CASE RegisterFindUser(p)
    <2>1. pc[p] = "user" /\ answer = "conflict" /\ UsersOf(p) # {}
        BY <1>0, <1>4 DEF RegisterFindUser, At, Go, End, RInv, IInv, TypeOK
    <2>2. p \notin Users
        BY <2>1 DEF Users, Committed, RInv, IInv, RowsFollowSteps
    <2> QED
        BY <2>1, <2>2, LookUp DEF RInv
<1>5. CASE LoginFindUser(p)
    <2>1. pc[p] = "user"
        BY <1>5 DEF LoginFindUser, At
    <2>2. answer = IF {u \in UsersOf(p) : req[u].password = req[p].password} = {}
                   THEN "refused" ELSE "token"
        BY <1>0, <1>5 DEF LoginFindUser, End, RInv, IInv, TypeOK
    <2>3. UsersOf(p) = {u \in Users : Matches(u, p)}
        BY <2>1, LookUp DEF RInv
    <2>4. known[p] \subseteq Users
        BY DEF RInv, Histories
    <2> QED
        BY <2>2, <2>3, <2>4
<1>6. CASE Drop(p)
    BY <1>0, <1>6 DEF Drop, End, RInv, IInv, TypeOK
<1> QED
    BY <1>1, <1>2, <1>3, <1>4, <1>5, <1>6

\* A true answer stays true: committed rows, what a request knows and what a
\* closed request has met are kept.
LEMMA RepliesStep == RInv /\ [Next]_vars => RepliesAreFaithful'
<1> SUFFICES ASSUME RInv, [Next]_vars PROVE RepliesAreFaithful'
    OBVIOUS
<1>1. (\A q \in Requests : Faithful(q, reply[q])')
        => RepliesAreFaithful'
    BY DEF RepliesAreFaithful, Faithful
<1>2. \A q \in Requests : Faithful(q, reply[q])
    BY DEF RInv, RepliesAreFaithful, Faithful
<1> USE DEF RInv, IInv, TypeOK, RowStates
<1>3. ASSUME UNCHANGED <<tenantRow, userRow, req, reply, met, known>> PROVE RepliesAreFaithful'
    BY <1>3 DEF RepliesAreFaithful, Users, Tenants, Committed, Matches
<1>4. ASSUME NEW p \in Requests, Begin(p) PROVE RepliesAreFaithful'
    <2>1. ASSUME NEW q \in Requests PROVE Faithful(q, reply[q])'
        <3>1. CASE q = p
            <4>1. reply'[q] = "none"
                BY <1>4, <3>1 DEF Begin, At, Histories
            <4> QED
                BY <4>1 DEF Faithful
        <3>2. CASE q # p
            <4>1. /\ Users' = Users /\ Tenants' = Tenants /\ UNCHANGED req
                  /\ known'[q] = known[q] /\ met[q] \subseteq met'[q] /\ reply'[q] = reply[q]
                BY <1>4, <3>2 DEF Begin, Users, Tenants, Committed
            <4>2. \A u \in Users : u # p
                BY <1>4 DEF Begin, At, Users, Committed, RowsFollowSteps
            <4>3. \A u \in Users : met[u] \subseteq met'[u]
                BY <1>4, <4>2 DEF Begin, Users, Committed
            <4>4. Faithful(q, reply[q])
                BY <1>2
            <4>5. UNCHANGED reply
                BY <1>4 DEF Begin
            <4> QED
                BY <4>1, <4>3, <4>4, <4>5 DEF Faithful, Matches
        <3> QED
            BY <3>1, <3>2
    <2> QED
        BY <1>1, <2>1
<1>5. ASSUME NEW p \in Requests, NEW answer, End(p, answer), Open(p), Faithful(p, answer)
      PROVE  RepliesAreFaithful'
    <2>1. Users' = Users /\ Tenants' = Tenants
        BY <1>5 DEF End, Open, Users, Tenants, Committed, RowsFollowSteps
    <2>2. UNCHANGED <<req, known, met>> /\ reply' = [reply EXCEPT ![p] = answer]
        BY <1>5 DEF End
    <2>3. ASSUME NEW q \in Requests PROVE Faithful(q, reply[q])'
        <3>1. Faithful(q, reply'[q])
            BY <1>2, <1>5, <2>2
        <3> QED
            BY <2>1, <2>2, <3>1 DEF Faithful, Matches
    <2> QED
        BY <1>1, <2>3
<1>6. ASSUME NEW p \in Requests, Commit(p) PROVE RepliesAreFaithful'
    <2>1. Users' = Users \cup {p} /\ Tenants \subseteq Tenants'
        BY <1>6 DEF Commit, At, Users, Tenants, Committed, RowsFollowSteps
    <2>2. UNCHANGED <<req, known, met>> /\ reply' = [reply EXCEPT ![p] = "token"]
        BY <1>6 DEF Commit
    <2>3. ASSUME NEW q \in Requests PROVE Faithful(q, reply[q])'
        <3>1. CASE q = p
            BY <2>1, <2>2, <3>1 DEF Faithful, Matches
        <3>2. CASE q # p
            <4>1. Faithful(q, reply'[q])
                BY <1>2, <2>2, <3>2
            <4> QED
                BY <2>1, <2>2, <4>1 DEF Faithful, Matches
        <3> QED
            BY <3>1, <3>2
    <2> QED
        BY <1>1, <2>3
<1>7. ASSUME NEW p \in Requests,
             FindTenant(p) \/ InsertTenant(p) \/ SeveralUsers(p)
             \/ RegisterFindUser(p) \/ LoginFindUser(p) \/ Drop(p),
             NEW answer, End(p, answer)
      PROVE  RepliesAreFaithful'
    <2>1. Open(p)
        BY <1>7 DEF FindTenant, InsertTenant, SeveralUsers, RegisterFindUser, LoginFindUser, Drop, At, Open
    <2>2. Faithful(p, answer)
        BY <1>7, AnswersAreFaithful
    <2> QED
        BY <1>5, <1>7, <2>1, <2>2
<1>8. ASSUME NEW p \in Requests, FindTenant(p) PROVE RepliesAreFaithful'
    <2>1. UNCHANGED <<tenantRow, userRow, req, reply, met, known>> \/ End(p, "refused")
        BY <1>8 DEF FindTenant, Go
    <2> QED
        BY <1>3, <1>7, <1>8, <2>1
<1>9. ASSUME NEW p \in Requests, InsertTenant(p) PROVE RepliesAreFaithful'
    <2>1. CASE SameName(p, "committed") # {}
        <3>1. End(p, "error")
            BY <1>9, <2>1 DEF InsertTenant
        <3> QED
            BY <1>7, <1>9, <3>1
    <2>2. CASE SameName(p, "committed") = {}
        <3>1. /\ Users' = Users /\ Tenants' = Tenants
              /\ UNCHANGED <<req, reply, met, known>>
            BY <1>9, <2>2 DEF InsertTenant, Go, At, Users, Tenants, Committed, RowsFollowSteps
        <3> QED
            BY <3>1 DEF RepliesAreFaithful, Matches
    <2> QED
        BY <2>1, <2>2
<1>10. ASSUME NEW p \in Requests, SeveralUsers(p) PROVE RepliesAreFaithful'
    BY <1>7, <1>10 DEF SeveralUsers
<1>11. ASSUME NEW p \in Requests, RegisterFindUser(p) PROVE RepliesAreFaithful'
    <2>1. UNCHANGED <<tenantRow, userRow, req, reply, met, known>> \/ End(p, "conflict")
        BY <1>11 DEF RegisterFindUser, Go
    <2> QED
        BY <1>3, <1>7, <1>11, <2>1
<1>12. ASSUME NEW p \in Requests, LoginFindUser(p) PROVE RepliesAreFaithful'
    BY <1>7, <1>12 DEF LoginFindUser
<1>13. ASSUME NEW p \in Requests, AddUser(p) PROVE RepliesAreFaithful'
    <2>1. /\ Users' = Users /\ Tenants' = Tenants
          /\ UNCHANGED <<req, reply, met, known>>
        BY <1>13 DEF AddUser, Go, At, Users, Tenants, Committed, RowsFollowSteps
    <2> QED
        BY <2>1 DEF RepliesAreFaithful, Matches
<1>14. ASSUME NEW p \in Requests, Drop(p) PROVE RepliesAreFaithful'
    BY <1>7, <1>14 DEF Drop
<1>15. CASE UNCHANGED vars
    BY <1>3, <1>15 DEF vars
<1> QED
    BY <1>4, <1>6, <1>8, <1>9, <1>10, <1>11, <1>12, <1>13, <1>14, <1>15 DEF Next

\* For any requests: a token is for an account of the tenant, e-mail and
\* password that were sent, a refusal and a conflict are justified, and a
\* request fails only after a race.
THEOREM RepliesTrue == Spec => []RepliesAreFaithful
<1>1. Init => Histories /\ RepliesAreFaithful
    BY DEF Init, Histories, RepliesAreFaithful, Users, Committed
<1>2. RInv /\ [Next]_vars => RInv'
    BY TypeStep, RowsStep, NamesStep, TenantStep, MeetStep, DuplicatesStep, HistoriesStep, RepliesStep
       DEF RInv, IInv
<1>3. Init => RInv
    BY InitIInv, <1>1 DEF RInv
<1>4. RInv => RepliesAreFaithful
    BY DEF RInv
<1> QED
    BY <1>2, <1>3, <1>4, PTL DEF Spec
=============================================================================
