------------------------------ MODULE PlanLimits ------------------------------
(***************************************************************************)
(* The subscriptions of one tenant and what they limit: the super admin's  *)
(* assignment and renewal of subscriptions and deletion of the tenant, the *)
(* check of PlanLimitService, and the three handlers that consult it to    *)
(* create a manager, a technician or a ticket.                             *)
(*                                                                         *)
(* Neither the check and the creation nor the two statements of an         *)
(* assignment share a transaction, so each is an action of its own.        *)
(***************************************************************************)
EXTENDS Naturals, FiniteSets, Sequences

CONSTANTS
  Plans,       \* the names of the plans
  Unlimited,   \* the Infinity of PLAN_LIMITS
  Limit,       \* PLAN_LIMITS: what each plan allows of each resource
  SeededLimit, \* the ticketLimit the seed gives the row of each plan
  EditedLimits,\* the ticketLimits that updatePlan is told
  Emails,      \* the emails the staff of the tenant may have
  NoEmail,     \* the absence of one
  Requests,    \* the requests that can be in flight together
  MaxSubs,     \* bound: subscriptions ever assigned
  MaxTickets   \* bound: tickets ever raised

Resources == {"manager", "technician", "ticket"}

ASSUME LimitAssumption == Limit \in [Plans -> [Resources -> Nat \cup {Unlimited}]]
ASSUME UnlimitedAssumption == Unlimited \notin Nat
ASSUME NoEmailAssumption == NoEmail \notin Emails
\* What the DTOs let through: @Min(0).
ASSUME TicketLimitAssumption ==
  SeededLimit \in [Plans -> Nat] /\ EditedLimits \subseteq Nat
ASSUME SubsAssumption == MaxSubs \in Nat \ {0}

VARIABLES
  ticketLimit, \* SubscriptionPlan.ticketLimit of each plan
  subs,        \* the Subscription rows of the tenant
  role,        \* the User row of each email: absent, or its role
  userActive,  \* User.isActive
  techActive,  \* Technician.isActive of a technician's own row
  numbers,     \* the sequence numbers of the tickets, in order of insertion
  monthly,     \* the tickets that were created this month
  req,         \* what each request in flight is doing
  orderly      \* history: no two requests overlapped and none failed half-way

planVars == <<ticketLimit, subs>>
staffVars == <<role, userActive, techActive>>
ticketVars == <<numbers, monthly>>
vars == <<ticketLimit, subs, role, userActive, techActive, numbers, monthly, req, orderly>>

Subscription ==
  [id : 1..MaxSubs, plan : Plans, status : {"ACTIVE", "CANCELLED"}]

ActiveSubs == {s \in subs : s.status = "ACTIVE"}

-----------------------------------------------------------------------------
(* Requests *)

Idle == [op |-> "idle"]

NoPlan == "NO_PLAN"

CreateOps == {"createManager", "createTechnician", "raiseTicket"}

\* A request in flight: the plan it read or is to assign, the email it is
\* about, the number it holds, and the flag it writes.
InFlight ==
  [op : CreateOps \cup {"updateTechnician", "assignSubscription"},
   step : {"readUsage", "readUser", "readCount", "commit", "writeFlags",
           "writeTechnician", "writeUser", "createSubscription"},
   plan : Plans \cup {NoPlan}, email : Emails \cup {NoEmail},
   number : Nat, flag : BOOLEAN]

Alone == \A r \in Requests : req[r] = Idle

Start(r, op, step, plan, e, n, flag) ==
  /\ req[r] = Idle
  /\ req' = [req EXCEPT ![r] = [op |-> op, step |-> step, plan |-> plan,
                                email |-> e, number |-> n, flag |-> flag]]
  /\ orderly' = (orderly /\ Alone)

\* A request of a single statement.
InOneStep(r) ==
  /\ req[r] = Idle
  /\ orderly' = (orderly /\ Alone)
  /\ UNCHANGED req

At(r, op, step) == req[r] # Idle /\ req[r].op = op /\ req[r].step = step

Continue(r, step) ==
  /\ req' = [req EXCEPT ![r].step = step]
  /\ UNCHANGED orderly

Finish(r) ==
  /\ req' = [req EXCEPT ![r] = Idle]
  /\ UNCHANGED orderly

ReadOnly == UNCHANGED <<planVars, staffVars, ticketVars>>

-----------------------------------------------------------------------------
(* PlanLimitService *)

\* What a create request counts against.
ResourceOf(op) ==
  CASE op = "createManager" -> "manager"
    [] op = "createTechnician" -> "technician"
    [] op = "raiseTicket" -> "ticket"

\* getActivePlan takes the ACTIVE subscription that ends last. End dates are
\* the super admin's to choose, so of several it may be any.
ActivePlans == {s.plan : s \in ActiveSubs}

\* getCurrentUsage
CurrentUsage(resource) ==
  CASE resource = "manager" ->
         Cardinality({e \in Emails : role[e] = "MANAGER" /\ userActive[e]})
    [] resource = "technician" ->
         Cardinality({e \in Emails : role[e] = "TECHNICIAN" /\ techActive[e]})
    [] resource = "ticket" -> monthly

\* current > limit in place of current >= limit.
WithinOffByOne(plan, resource) ==
  Limit[plan][resource] # Unlimited => CurrentUsage(resource) <= Limit[plan][resource]

Within(plan, resource) ==
  Limit[plan][resource] # Unlimited => CurrentUsage(resource) < Limit[plan][resource]

\* checkLimit ends a request of a tenant without a plan, and one whose count
\* has reached the limit of the plan it read before.
CheckLimit(r, op, e) ==
  /\ \E plan \in ActivePlans : Start(r, op, "readUsage", plan, e, 0, TRUE)
  /\ ReadOnly

CheckLimitReadUsage(r) ==
  LET q == req[r]
      resource == ResourceOf(q.op)
  IN
  /\ q # Idle /\ q.step = "readUsage"
  /\ \/ /\ Within(q.plan, resource)
        /\ req' = [req EXCEPT
                     ![r].step = IF q.op = "raiseTicket" THEN "readCount" ELSE "readUser",
                     ![r].plan = NoPlan]
        /\ UNCHANGED orderly
     \/ ~Within(q.plan, resource) /\ Finish(r)
  /\ ReadOnly

-----------------------------------------------------------------------------
(* Creating what is limited *)

CreateManager(r, e) == CheckLimit(r, "createManager", e)

CreateTechnician(r, e) == CheckLimit(r, "createTechnician", e)

\* Both look for a user with the email.
CreateReadUser(r) ==
  /\ At(r, "createManager", "readUser") \/ At(r, "createTechnician", "readUser")
  /\ IF role[req[r].email] = "absent" THEN Continue(r, "commit") ELSE Finish(r)
  /\ ReadOnly

\* tenant and email are unique, so a second insert fails.
CreateManagerCommit(r) ==
  LET e == req[r].email IN
  /\ At(r, "createManager", "commit")
  /\ IF role[e] = "absent"
     THEN /\ role' = [role EXCEPT ![e] = "MANAGER"]
          /\ userActive' = [userActive EXCEPT ![e] = TRUE]
     ELSE UNCHANGED <<role, userActive>>
  /\ Finish(r)
  /\ UNCHANGED <<planVars, techActive, ticketVars>>

\* createTechnician with the role of the user copied from createManager.
CreateTechnicianAsManager(r) ==
  LET e == req[r].email IN
  /\ At(r, "createTechnician", "commit")
  /\ role[e] = "absent"
  /\ role' = [role EXCEPT ![e] = "MANAGER"]
  /\ userActive' = [userActive EXCEPT ![e] = TRUE]
  /\ techActive' = [techActive EXCEPT ![e] = TRUE]
  /\ Finish(r)
  /\ UNCHANGED <<planVars, ticketVars>>

\* The user and the technician are inserted in one transaction.
CreateTechnicianCommit(r) ==
  LET e == req[r].email IN
  /\ At(r, "createTechnician", "commit")
  /\ IF role[e] = "absent"
     THEN /\ role' = [role EXCEPT ![e] = "TECHNICIAN"]
          /\ userActive' = [userActive EXCEPT ![e] = TRUE]
          /\ techActive' = [techActive EXCEPT ![e] = TRUE]
     ELSE UNCHANGED staffVars
  /\ Finish(r)
  /\ UNCHANGED <<planVars, ticketVars>>

RaiseTicket(r) ==
  /\ Len(numbers) < MaxTickets
  /\ CheckLimit(r, "raiseTicket", NoEmail)

\* The ticket number counts the tickets of the month, as the limit does.
RaiseTicketReadMonthly(r) ==
  /\ At(r, "raiseTicket", "readCount")
  /\ req' = [req EXCEPT ![r].step = "commit", ![r].number = monthly + 1]
  /\ UNCHANGED orderly
  /\ ReadOnly

\* The ticket number counts all tickets of the tenant.
RaiseTicketReadCount(r) ==
  /\ At(r, "raiseTicket", "readCount")
  /\ req' = [req EXCEPT ![r].step = "commit", ![r].number = Len(numbers) + 1]
  /\ UNCHANGED orderly
  /\ ReadOnly

\* Nothing makes the number unique.
RaiseTicketCommit(r) ==
  /\ At(r, "raiseTicket", "commit")
  /\ numbers' = Append(numbers, req[r].number)
  /\ monthly' = monthly + 1
  /\ Finish(r)
  /\ UNCHANGED <<planVars, staffVars>>

NewMonth ==
  /\ monthly > 0
  /\ monthly' = 0
  /\ UNCHANGED <<planVars, staffVars, numbers, req, orderly>>

-----------------------------------------------------------------------------
(* Deactivating and activating *)

\* updateTechnician with isActive in its body finds the technician and then
\* writes two rows at once, in either order; deleteTechnician does the same
\* with FALSE.
UpdateTechnician(r, e, flag) ==
  /\ role[e] = "TECHNICIAN"
  /\ Start(r, "updateTechnician", "writeFlags", NoPlan, e, 0, flag)
  /\ ReadOnly

WriteTechnician(r) ==
  LET q == req[r] IN
  /\ q # Idle /\ q.step \in {"writeFlags", "writeTechnician"}
  /\ techActive' = [techActive EXCEPT ![q.email] = q.flag]
  /\ IF q.step = "writeFlags" THEN Continue(r, "writeUser") ELSE Finish(r)
  /\ UNCHANGED <<planVars, role, userActive, ticketVars>>

\* deleteTechnician that leaves the user as it is.
WriteUserOnUpdate(r) ==
  LET q == req[r] IN
  /\ q # Idle /\ q.step \in {"writeFlags", "writeUser"}
  /\ userActive' = [userActive EXCEPT ![q.email] = @ \/ q.flag]
  /\ IF q.step = "writeFlags" THEN Continue(r, "writeTechnician") ELSE Finish(r)
  /\ UNCHANGED <<planVars, role, techActive, ticketVars>>

WriteUser(r) ==
  LET q == req[r] IN
  /\ q # Idle /\ q.step \in {"writeFlags", "writeUser"}
  /\ userActive' = [userActive EXCEPT ![q.email] = q.flag]
  /\ IF q.step = "writeFlags" THEN Continue(r, "writeTechnician") ELSE Finish(r)
  /\ UNCHANGED <<planVars, role, techActive, ticketVars>>

\* A manager is only ever deactivated.
DeleteManager(r, e) ==
  /\ role[e] = "MANAGER"
  /\ InOneStep(r)
  /\ userActive' = [userActive EXCEPT ![e] = FALSE]
  /\ UNCHANGED <<planVars, role, techActive, ticketVars>>

-----------------------------------------------------------------------------
(* SuperAdminService *)

CancelAll == {[s EXCEPT !.status = "CANCELLED"] : s \in subs}

\* assignSubscription that cancels nothing.
AssignWithoutCancelling(r, plan) ==
  /\ Cardinality(subs) < MaxSubs
  /\ Start(r, "assignSubscription", "createSubscription", plan, NoEmail, 0, TRUE)
  /\ ReadOnly

\* assignSubscription cancels what is ACTIVE, and then creates.
AssignSubscription(r, plan) ==
  /\ Cardinality(subs) < MaxSubs
  /\ Start(r, "assignSubscription", "createSubscription", plan, NoEmail, 0, TRUE)
  /\ subs' = CancelAll
  /\ UNCHANGED <<ticketLimit, staffVars, ticketVars>>

AssignSubscriptionCreate(r) ==
  LET q == req[r] IN
  /\ At(r, "assignSubscription", "createSubscription")
  /\ Cardinality(subs) < MaxSubs
  /\ subs' = subs \cup {[id |-> Cardinality(subs) + 1, plan |-> q.plan,
                         status |-> "ACTIVE"]}
  /\ Finish(r)
  /\ UNCHANGED <<ticketLimit, staffVars, ticketVars>>

\* renewSubscription: any subscription, whatever its status, becomes ACTIVE.
RenewSubscription(r, s) ==
  /\ InOneStep(r)
  /\ subs' = (subs \ {s}) \cup {[s EXCEPT !.status = "ACTIVE"]}
  /\ UNCHANGED <<ticketLimit, staffVars, ticketVars>>

\* deleteTenant, in one transaction; it leaves the technicians' own rows.
DeleteTenant(r) ==
  /\ InOneStep(r)
  /\ userActive' = [e \in Emails |-> FALSE]
  /\ subs' = CancelAll
  /\ UNCHANGED <<ticketLimit, role, techActive, ticketVars>>

\* updatePlan writes the row of the plan; checkLimit does not read it.
UpdatePlan(r, plan, n) ==
  /\ InOneStep(r)
  /\ ticketLimit' = [ticketLimit EXCEPT ![plan] = n]
  /\ UNCHANGED <<subs, staffVars, ticketVars>>

-----------------------------------------------------------------------------
(* The whole *)

\* A statement fails or the worker restarts: the request ends where it is.
Fail(r) ==
  /\ req[r] # Idle
  /\ req' = [req EXCEPT ![r] = Idle]
  /\ orderly' = FALSE
  /\ ReadOnly

\* createTenant creates a subscription of one year when it is told a plan.
Init ==
  /\ ticketLimit = SeededLimit
  /\ subs \in {{}} \cup {{[id |-> 1, plan |-> plan, status |-> "ACTIVE"]} : plan \in Plans}
  /\ role = [e \in Emails |-> "absent"]
  /\ userActive = [e \in Emails |-> FALSE]
  /\ techActive = [e \in Emails |-> FALSE]
  /\ numbers = <<>>
  /\ monthly = 0
  /\ req = [r \in Requests |-> Idle]
  /\ orderly = TRUE

Call(r) ==
  \/ \E e \in Emails :
       \/ CreateManager(r, e)
       \/ CreateTechnician(r, e)
       \/ \E flag \in BOOLEAN : UpdateTechnician(r, e, flag)
       \/ DeleteManager(r, e)
  \/ RaiseTicket(r)
  \/ \E plan \in Plans : AssignSubscription(r, plan)
  \/ \E s \in subs : RenewSubscription(r, s)
  \/ \E plan \in Plans, n \in EditedLimits : UpdatePlan(r, plan, n)
  \/ DeleteTenant(r)

Step(r) ==
  \/ CheckLimitReadUsage(r)
  \/ CreateReadUser(r)
  \/ CreateManagerCommit(r)
  \/ CreateTechnicianCommit(r)
  \/ RaiseTicketReadCount(r)
  \/ RaiseTicketCommit(r)
  \/ WriteTechnician(r)
  \/ WriteUser(r)
  \/ AssignSubscriptionCreate(r)

Next == NewMonth \/ \E r \in Requests : Call(r) \/ Step(r) \/ Fail(r)

Spec == Init /\ [][Next]_vars

-----------------------------------------------------------------------------
(* What is shown *)

\* getPlanUsage of the dashboard, for one of its resources.
PlanUsage(plan, resource) ==
  [current |-> CurrentUsage(resource), limit |-> Limit[plan][resource]]

WithinShown(plan, resource) ==
  LET usage == PlanUsage(plan, resource) IN
  usage.limit = Unlimited \/ usage.current <= usage.limit

-----------------------------------------------------------------------------
(* Properties *)

\* The rows and the requests in flight have their types; only a technician
\* has a technician's row.
TypeOK ==
  /\ ticketLimit \in [Plans -> Nat]
  /\ subs \subseteq Subscription
  /\ \A s, t \in subs : s.id = t.id => s = t
  /\ role \in [Emails -> {"absent", "MANAGER", "TECHNICIAN"}]
  /\ userActive \in [Emails -> BOOLEAN]
  /\ techActive \in [Emails -> BOOLEAN]
  /\ \A e \in Emails : techActive[e] => role[e] = "TECHNICIAN"
  /\ numbers \in Seq(Nat)
  /\ monthly \in 0..Len(numbers)
  /\ req \in [Requests -> InFlight \cup {Idle}]
  /\ orderly \in BOOLEAN

\* While requests come one at a time, whatever is created leaves the usage that
\* the dashboard shows within the limit it shows beside it.
LimitRespected ==
  [][\A r \in Requests, op \in CreateOps, resource \in Resources :
       /\ orderly
       /\ At(r, op, "commit") /\ resource = ResourceOf(op)
       /\ CurrentUsage(resource)' > CurrentUsage(resource)
       => \E plan \in ActivePlans : WithinShown(plan, resource)']_vars

\* Tickets are numbered without a gap while requests come one at a time; when
\* they race, numbers repeat but never run ahead of the tickets there are.
TicketsNumbered ==
  \A i \in 1..Len(numbers) :
    /\ numbers[i] <= i
    /\ orderly => numbers[i] = i

\* While requests come one at a time, a technician who may log in may be
\* assigned tickets: the two flags are written together, and deleteTenant
\* clears only that of the user.
ActiveUserIsActiveTechnician ==
  orderly =>
    \A e \in Emails :
      role[e] = "TECHNICIAN" /\ userActive[e] =>
        techActive[e] \/ \E r \in Requests : req[r] # Idle /\ req[r].email = e

\* While requests come one at a time, the limits that apply once an assignment
\* is over are those of the plan it assigned and of no other: its two
\* statements have cancelled whatever was ACTIVE, renewed subscriptions too.
AssignedPlanApplies ==
  [][\A r \in Requests :
       orderly' /\ At(r, "assignSubscription", "createSubscription") /\ req'[r] = Idle
       => ActivePlans' = {req[r].plan}]_vars

-----------------------------------------------------------------------------
(* What the documentation says and the code does not do *)

\* A ticket is only created below the ticketLimit in the row of an active plan; but
\* checkLimit compares with PLAN_LIMITS, which updatePlan does not change.
TicketLimitEnforced ==
  \A r \in Requests :
    orderly /\ At(r, "raiseTicket", "commit") =>
      \E plan \in ActivePlans : monthly < ticketLimit[plan]
=============================================================================
