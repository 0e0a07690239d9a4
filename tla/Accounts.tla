------------------------------- MODULE Accounts -------------------------------
(***************************************************************************)
(* The tenants, their accounts and the super admins: the setup of the      *)
(* first super admin, the creation of a tenant with its administrator, the *)
(* changes of a tenant, and the profiles.  Each handler checks what it is  *)
(* about to write, and the unique constraints of the schema check again    *)
(* when it writes.  The profile of a customer is two rows, which one       *)
(* handler writes side by side (Promise.all).                              *)
(***************************************************************************)
EXTENDS Handlers, Naturals, FiniteSets

CONSTANTS
  Codes,         \* the tenant codes that a body may give
  Lowercase,     \* Lowercase[c]: toLowerCase().trim() of each
  Emails,        \* the emails of tenants and of accounts
  NoEmail,
  System,        \* the tenantId of the super admins
  MaxTenants,    \* bound: tenants ever created
  MaxUsers       \* bound: accounts ever created

VARIABLES
  tenants,    \* the Tenant rows
  users,      \* the User rows
  customers,  \* the Customer rows: the email of each, by account
  setups      \* history: the super admins that setupSuperAdmin created

rowVars == <<tenants, users, customers, setups>>
vars == <<tenants, users, customers, setups, req, orderly>>

TenantIds == 1..MaxTenants
UserIds == 1..MaxUsers

Tenant ==
  [id : TenantIds, code : Codes, email : Emails,
   status : {"ACTIVE", "SUSPENDED", "EXPIRED"}]

User ==
  [id : UserIds, tenant : TenantIds \cup {System}, email : Emails,
   role : {"SUPER_ADMIN", "ADMIN", "CUSTOMER"}]

NewTenant == Cardinality(tenants) + 1
NewUser == Cardinality(users) + 1

\* The unique constraints of Tenant and User.
CodeFree(c) == \A t \in tenants : t.code # c
CompanyEmailFree(e, except) == \A t \in tenants : t.id # except => t.email # e
EmailFree(tenant, e, except) ==
  \A u \in users : u.tenant = tenant /\ u.id # except => u.email # e

Writes == {"user", "customer"}

InFlight ==
  [op : {"setup", "createSuperAdmin", "createTenant", "updateTenant",
         "updateAdmin", "updateCustomer"},
   step : {"create", "update", "writes"},
   code : Codes \cup {NoEmail}, company : Emails \cup {NoEmail},
   email : Emails \cup {NoEmail},
   target : 0..MaxTenants + MaxUsers, todo : SUBSET Writes]

Start(r, op, step, c, company, e, target, todo) ==
  /\ Begin(r, [op |-> op, step |-> step, code |-> c, company |-> company,
               email |-> e, target |-> target, todo |-> todo])
  /\ UNCHANGED rowVars

-----------------------------------------------------------------------------
(* Super admins *)

\* setupSuperAdmin that looks for its own email, as createSuperAdmin does.
SetupIfEmailFree(r, e) ==
  /\ \A u \in users : u.role = "SUPER_ADMIN" => u.email # e
  /\ Start(r, "setup", "create", NoEmail, NoEmail, e, 0, {})

SetupSuperAdmin(r, e) ==
  /\ \A u \in users : u.role # "SUPER_ADMIN"
  /\ Start(r, "setup", "create", NoEmail, NoEmail, e, 0, {})

CreateSuperAdmin(r, e) ==
  /\ \E u \in users : u.role = "SUPER_ADMIN"
  /\ \A u \in users : u.role = "SUPER_ADMIN" => u.email # e
  /\ Start(r, "createSuperAdmin", "create", NoEmail, NoEmail, e, 0, {})

CreateSuperAdminCommit(r) ==
  LET q == req[r] IN
  /\ At(r, "setup", "create") \/ At(r, "createSuperAdmin", "create")
  /\ NewUser \in UserIds
  /\ \/ /\ EmailFree(System, q.email, 0)
        /\ users' = users \cup
             {[id |-> NewUser, tenant |-> System, email |-> q.email, role |-> "SUPER_ADMIN"]}
        /\ setups' = IF q.op = "setup" THEN setups \cup {NewUser} ELSE setups
     \/ ~EmailFree(System, q.email, 0) /\ UNCHANGED <<users, setups>>
  /\ Finish(r)
  /\ UNCHANGED <<tenants, customers>>

-----------------------------------------------------------------------------
(* Tenants *)

\* The code is looked up as it was given.
CreateTenant(r, c, company, e) ==
  /\ CodeFree(c)
  /\ CompanyEmailFree(company, 0)
  /\ \A u \in users : u.role = "ADMIN" => u.email # e
  /\ Start(r, "createTenant", "create", c, company, e, 0, {})

\* One transaction creates the tenant, with its code in lower case, its
\* administrator, its settings and its subscription.
CreateTenantCommit(r) ==
  LET q == req[r]
      allowed == CodeFree(Lowercase[q.code]) /\ CompanyEmailFree(q.company, 0)
  IN
  /\ At(r, "createTenant", "create")
  /\ NewTenant \in TenantIds /\ NewUser \in UserIds
  /\ \/ /\ allowed
        /\ tenants' = tenants \cup
             {[id |-> NewTenant, code |-> Lowercase[q.code], email |-> q.company,
               status |-> "ACTIVE"]}
        /\ users' = users \cup
             {[id |-> NewUser, tenant |-> NewTenant, email |-> q.email, role |-> "ADMIN"]}
     \/ ~allowed /\ UNCHANGED <<tenants, users>>
  /\ Finish(r)
  /\ UNCHANGED <<customers, setups>>

\* updateTenant reads the tenant first.
UpdateTenant(r, t, company) ==
  Start(r, "updateTenant", "update", NoEmail, NoEmail, company, t.id, {})

UpdateTenantCommit(r) ==
  LET q == req[r]
      allowed == CompanyEmailFree(q.email, q.target)
  IN
  /\ At(r, "updateTenant", "update")
  /\ tenants' = {IF t.id = q.target /\ allowed THEN [t EXCEPT !.email = q.email] ELSE t :
                 t \in tenants}
  /\ Finish(r)
  /\ UNCHANGED <<users, customers, setups>>

\* updateCompanySettings, by the administrator: the same update alone.
UpdateCompanySettings(r, t, company) ==
  /\ InOneStep(r)
  /\ CompanyEmailFree(company, t.id)
  /\ tenants' = (tenants \ {t}) \cup {[t EXCEPT !.email = company]}
  /\ UNCHANGED <<users, customers, setups>>

\* updateTenantStatus: any status, after a deletion too.
UpdateTenantStatus(r, t, status) ==
  /\ InOneStep(r)
  /\ tenants' = (tenants \ {t}) \cup {[t EXCEPT !.status = status]}
  /\ UNCHANGED <<users, customers, setups>>

-----------------------------------------------------------------------------
(* Profiles *)

\* The transaction of verifyOtp, the one handler that creates a customer.
RegisterCustomer(r, t, e) ==
  /\ InOneStep(r)
  /\ t.status = "ACTIVE"
  /\ NewUser \in UserIds
  /\ EmailFree(t.id, e, 0)
  /\ users' = users \cup {[id |-> NewUser, tenant |-> t.id, email |-> e, role |-> "CUSTOMER"]}
  /\ customers' = [customers EXCEPT ![NewUser] = e]
  /\ UNCHANGED <<tenants, setups>>

\* The administrator's own email, looked for within the tenant.
UpdateProfile(r, u, e) ==
  /\ u.role = "ADMIN"
  /\ EmailFree(u.tenant, e, u.id)
  /\ Start(r, "updateAdmin", "update", NoEmail, NoEmail, e, u.id, {})

SetEmail(id, e) == {IF u.id = id THEN [u EXCEPT !.email = e] ELSE u : u \in users}

TenantOf(id) == (CHOOSE u \in users : u.id = id).tenant

UpdateProfileCommit(r) ==
  LET q == req[r] IN
  /\ At(r, "updateAdmin", "update")
  /\ \/ /\ EmailFree(TenantOf(q.target), q.email, q.target)
        /\ users' = SetEmail(q.target, q.email)
     \/ ~EmailFree(TenantOf(q.target), q.email, q.target) /\ UNCHANGED users
  /\ Finish(r)
  /\ UNCHANGED <<tenants, customers, setups>>

\* The customer's email is looked for nowhere, and may be null (@IsOptional).
UpdateCustomer(r, u, e) ==
  /\ u.role = "CUSTOMER"
  /\ Start(r, "updateCustomer", "writes", NoEmail, NoEmail, e, u.id, Writes)

\* One of the two writes is done, or refused; the last one ends the request.
Wrote(r, w, done) ==
  /\ w \in req[r].todo
  /\ req' = [req EXCEPT ![r] = Without(@, w)]
  /\ orderly' = (orderly /\ done)

WriteCustomer(r) ==
  LET q == req[r] IN
  /\ At(r, "updateCustomer", "writes")
  /\ Wrote(r, "customer", TRUE)
  /\ customers' = [customers EXCEPT ![q.target] = q.email]
  /\ UNCHANGED <<tenants, users, setups>>

\* The email of another account of the tenant is refused here, when the
\* Customer row may have it already: a request that failed half-way.  An email
\* that is null is written into the Customer row alone.
WriteUser(r) ==
  LET q == req[r]
      allowed == q.email = NoEmail \/ EmailFree(TenantOf(q.target), q.email, q.target)
  IN
  /\ At(r, "updateCustomer", "writes")
  /\ Wrote(r, "user", allowed)
  /\ users' = IF allowed /\ q.email # NoEmail
              THEN SetEmail(q.target, q.email) ELSE users
  /\ UNCHANGED <<tenants, customers, setups>>

-----------------------------------------------------------------------------
(* The service *)

Fail(r) == Abandon(r) /\ UNCHANGED rowVars

Init ==
  /\ tenants = {}
  /\ users = {}
  /\ customers = [i \in UserIds |-> NoEmail]
  /\ setups = {}
  /\ NoRequests
  /\ orderly = TRUE

Call(r) ==
  \/ \E e \in Emails : SetupSuperAdmin(r, e) \/ CreateSuperAdmin(r, e)
  \/ \E c \in Codes, company, e \in Emails : CreateTenant(r, c, company, e)
  \/ \E t \in tenants :
       \/ \E e \in Emails :
            UpdateTenant(r, t, e) \/ UpdateCompanySettings(r, t, e) \/ RegisterCustomer(r, t, e)
       \/ \E status \in {"ACTIVE", "SUSPENDED", "EXPIRED"} : UpdateTenantStatus(r, t, status)
  \/ \E u \in users, e \in Emails : UpdateProfile(r, u, e)
  \/ \E u \in users, e \in Emails \cup {NoEmail} : UpdateCustomer(r, u, e)

Step(r) ==
  \/ CreateSuperAdminCommit(r)
  \/ CreateTenantCommit(r)
  \/ UpdateTenantCommit(r)
  \/ UpdateProfileCommit(r)
  \/ WriteCustomer(r)
  \/ WriteUser(r)

Next == \E r \in Requests : Call(r) \/ Step(r) \/ Fail(r)

Spec == Init /\ [][Next]_vars

-----------------------------------------------------------------------------
(* What is shown *)

\* getProfile shows a customer the Customer row; the User row is what logs in.
ProfileEmail(id) == customers[id]

\* listCustomers shows the manager of a tenant the same rows.
ListCustomers(t) ==
  {[account |-> u.id, email |-> customers[u.id]] :
     u \in {x \in users : x.tenant = t.id /\ x.role = "CUSTOMER"}}

\* resolveActiveTenantByCode: the tenants a login under a code can mean.
TenantsByCode(c) == {t \in tenants : t.code = c}

-----------------------------------------------------------------------------
(* Properties *)

\* The rows and the requests in flight have their types.
TypeOK ==
  /\ tenants \subseteq Tenant
  /\ \A s, t \in tenants : s.id = t.id => s = t
  /\ users \subseteq User
  /\ \A u, v \in users : u.id = v.id => u = v
  /\ customers \in [UserIds -> Emails \cup {NoEmail}]
  /\ setups \subseteq UserIds
  /\ req \in [Requests -> InFlight \cup {Idle}]
  /\ orderly \in BOOLEAN

\* The open setup makes one super admin while requests come one at a time, and
\* no more than race for it (findings/super_admin.md:12, 42 and 324 say one, which
\* requests that race do exceed); a code, however it was written at creation,
\* means one tenant, an email one account of a tenant, and every tenant has an
\* administrator; and, while requests come one at a time and none is refused
\* half-way, the email that the profile and the manager's list show, if there is
\* one, is the one that the customer logs in with.  A null email takes away the
\* one that is shown and leaves the other (setupSuperAdmin, createTenant,
\* updateProfile).
AccountsSound ==
  /\ Cardinality(setups) <= IF orderly THEN 1 ELSE Cardinality(Requests)
  /\ \A c \in Codes : Cardinality(TenantsByCode(Lowercase[c])) <= 1
  /\ \A u, v \in users : u.tenant = v.tenant /\ u.email = v.email => u = v
  /\ \A t \in tenants : \E u \in users : u.tenant = t.id /\ u.role = "ADMIN"
  /\ orderly /\ Alone =>
       \A t \in tenants : \A row \in ListCustomers(t) :
         /\ ProfileEmail(row.account) = row.email
         /\ row.email # NoEmail =>
              [id |-> row.account, tenant |-> t.id, email |-> row.email,
               role |-> "CUSTOMER"] \in users
=============================================================================
