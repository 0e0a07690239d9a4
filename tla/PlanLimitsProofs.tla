--------------------------- MODULE PlanLimitsProofs ---------------------------
(***************************************************************************)
(* Theorems about subscriptions and their limits, for any plans, limits,   *)
(* emails and requests: what is created stays within the limit that is     *)
(* shown, tickets are numbered without a gap, the flags of a technician    *)
(* agree and an assigned plan applies, each while requests come one at a   *)
(* time; and numbers never run ahead of the tickets, however they race.    *)
(*                                                                         *)
(* The types are in four groups, of which a statement changes one.  The    *)
(* invariant of the requests that run alone says what each of them knows:  *)
(* what it read still holds when it commits.                               *)
(***************************************************************************)
EXTENDS PlanLimits, Counting

-----------------------------------------------------------------------------
(* Types *)

PlansTyped ==
  /\ ticketLimit \in [Plans -> Nat]
  /\ subs \subseteq Subscription
  /\ \A s, t \in subs : s.id = t.id => s = t
  /\ IsFiniteSet(subs)
  /\ \A s \in subs : s.id <= Cardinality(subs)

StaffTyped ==
  /\ role \in [Emails -> {"absent", "MANAGER", "TECHNICIAN"}]
  /\ userActive \in [Emails -> BOOLEAN]
  /\ techActive \in [Emails -> BOOLEAN]
  /\ \A e \in Emails : techActive[e] => role[e] = "TECHNICIAN"
  /\ IsFiniteSet({e \in Emails : role[e] # "absent"})

TicketsTyped ==
  /\ numbers \in Seq(Nat)
  /\ monthly \in 0..Len(numbers)

WriteSteps == {"writeFlags", "writeTechnician", "writeUser"}

\* A request that writes the flags of a technician has found it, and one that
\* reads the usage is to create something.
OpOfStep(r) ==
  /\ req[r].step \in WriteSteps =>
       /\ req[r].op = "updateTechnician"
       /\ req[r].email \in Emails /\ role[req[r].email] = "TECHNICIAN"
  /\ req[r].step = "readUsage" => req[r].op \in CreateOps
  /\ req[r].step \in {"readUsage", "createSubscription"} => req[r].plan \in Plans
  /\ req[r].op \in {"createManager", "createTechnician"} => req[r].email \in Emails

ReqsTyped ==
  /\ req \in [Requests -> InFlight \cup {Idle}]
  /\ orderly \in BOOLEAN
  /\ \A r \in Requests : req[r] # Idle => OpOfStep(r)

TypeInv == PlansTyped /\ StaffTyped /\ TicketsTyped /\ ReqsTyped

-----------------------------------------------------------------------------
(* How one request changes *)

OthersSame(r) == \A s \in Requests \ {r} : req'[s] = req[s]

ReqTyped == req' \in [Requests -> InFlight \cup {Idle}]

\* What a request that starts looks like.
LEMMA StartRecord ==
  ASSUME TypeInv, NEW r \in Requests, NEW op, NEW step, NEW plan, NEW e, NEW n, NEW flag,
         Start(r, op, step, plan, e, n, flag)
  PROVE  /\ req[r] = Idle /\ OthersSame(r)
         /\ orderly' = (orderly /\ Alone)
         /\ req'[r].op = op /\ req'[r].step = step /\ req'[r].plan = plan
         /\ req'[r].email = e /\ req'[r].number = n /\ req'[r].flag = flag
<1> DEFINE q == [op |-> op, step |-> step, plan |-> plan, email |-> e, number |-> n,
                 flag |-> flag]
<1>1. /\ req' = [req EXCEPT ![r] = q] /\ req[r] = Idle
      /\ orderly' = (orderly /\ Alone)
  BY DEF Start
<1>2. /\ q.op = op /\ q.step = step /\ q.plan = plan
      /\ q.email = e /\ q.number = n /\ q.flag = flag
  OBVIOUS
<1> HIDE DEF q
<1>3. req'[r] = q /\ OthersSame(r)
  BY <1>1 DEF TypeInv, ReqsTyped, OthersSame
<1> QED
  BY <1>1, <1>2, <1>3

LEMMA StartTyped ==
  ASSUME TypeInv, NEW r \in Requests,
         NEW op \in CreateOps \cup {"updateTechnician", "assignSubscription"},
         NEW step \in {"readUsage", "writeFlags", "createSubscription"},
         NEW plan \in Plans \cup {NoPlan}, NEW e \in Emails \cup {NoEmail},
         NEW flag \in BOOLEAN,
         Start(r, op, step, plan, e, 0, flag)
  PROVE  ReqTyped
<1> DEFINE q == [op |-> op, step |-> step, plan |-> plan, email |-> e, number |-> 0,
                 flag |-> flag]
<1>1. req' = [req EXCEPT ![r] = q]
  BY DEF Start
<1>2. q \in InFlight
  BY DEF InFlight
<1> HIDE DEF q
<1> QED
  BY <1>1, <1>2 DEF TypeInv, ReqsTyped, ReqTyped

\* What a request looks like that goes on to its next statement.
LEMMA ContinueRecord ==
  ASSUME TypeInv, NEW r \in Requests, req[r] # Idle,
         NEW step \in {"commit", "writeTechnician", "writeUser"},
         Continue(r, step)
  PROVE  /\ OthersSame(r) /\ ReqTyped /\ orderly' = orderly
         /\ req'[r] # Idle /\ req'[r].step = step
         /\ req'[r].op = req[r].op /\ req'[r].email = req[r].email
         /\ req'[r].flag = req[r].flag /\ req'[r].number = req[r].number
<1> DEFINE q == [req[r] EXCEPT !.step = step]
<1>1. req' = [req EXCEPT ![r] = q] /\ orderly' = orderly
  BY DEF Continue
<1>2. req[r] \in InFlight
  BY DEF TypeInv, ReqsTyped
<1>3. /\ q \in InFlight /\ q.step = step
      /\ q.op = req[r].op /\ q.email = req[r].email
      /\ q.flag = req[r].flag /\ q.number = req[r].number
  BY <1>2 DEF InFlight
<1>4. q # Idle
  BY <1>3 DEF InFlight, Idle, CreateOps
<1> HIDE DEF q
<1>5. req'[r] = q /\ OthersSame(r) /\ ReqTyped
  BY <1>1, <1>3 DEF TypeInv, ReqsTyped, ReqTyped, OthersSame
<1> QED
  BY <1>1, <1>3, <1>4, <1>5

\* checkLimit forgets the plan it compared with.
LEMMA CheckedRecord ==
  ASSUME TypeInv, NEW r \in Requests, req[r] # Idle,
         NEW step \in {"readUser", "readCount"},
         req' = [req EXCEPT ![r].step = step, ![r].plan = NoPlan]
  PROVE  /\ OthersSame(r) /\ ReqTyped
         /\ req'[r] # Idle /\ req'[r].step = step
         /\ req'[r].op = req[r].op /\ req'[r].email = req[r].email
         /\ req'[r].flag = req[r].flag
<1> DEFINE p == [req[r] EXCEPT !.step = step]
           q == [p EXCEPT !.plan = NoPlan]
<1>1. req[r] \in InFlight
  BY DEF TypeInv, ReqsTyped
<1>2. /\ p \in InFlight /\ p.step = step
      /\ p.op = req[r].op /\ p.email = req[r].email /\ p.flag = req[r].flag
  BY <1>1 DEF InFlight
<1>3. req' = [[req EXCEPT ![r] = p] EXCEPT ![r] = [[req EXCEPT ![r] = p][r] EXCEPT !.plan = NoPlan]]
  BY Zenon
<1>4. req' = [req EXCEPT ![r] = q]
  <2>1. [req EXCEPT ![r] = p][r] = p
    BY DEF TypeInv, ReqsTyped
  <2>2. req' = [[req EXCEPT ![r] = p] EXCEPT ![r] = q]
    BY <1>3, <2>1
  <2> HIDE DEF q, p
  <2> QED
    BY <2>2 DEF TypeInv, ReqsTyped
<1>5. /\ q \in InFlight /\ q.step = step
      /\ q.op = p.op /\ q.email = p.email /\ q.flag = p.flag
  <2> HIDE DEF p
  <2> QED
    BY <1>2 DEF InFlight
<1>6. q # Idle
  BY <1>5 DEF InFlight, Idle, CreateOps
<1> HIDE DEF p, q
<1>7. req'[r] = q /\ OthersSame(r) /\ ReqTyped
  BY <1>4, <1>5 DEF TypeInv, ReqsTyped, ReqTyped, OthersSame
<1> QED
  BY <1>2, <1>5, <1>6, <1>7

\* raiseTicket holds the number it counted.
LEMMA NumberedRecord ==
  ASSUME TypeInv, NEW r \in Requests, req[r] # Idle, NEW n \in Nat,
         req' = [req EXCEPT ![r].step = "commit", ![r].number = n]
  PROVE  /\ OthersSame(r) /\ ReqTyped
         /\ req'[r] # Idle /\ req'[r].step = "commit" /\ req'[r].number = n
         /\ req'[r].op = req[r].op /\ req'[r].email = req[r].email
         /\ req'[r].flag = req[r].flag
<1> DEFINE p == [req[r] EXCEPT !.step = "commit"]
           q == [p EXCEPT !.number = n]
<1>1. req[r] \in InFlight
  BY DEF TypeInv, ReqsTyped
<1>2. /\ p \in InFlight /\ p.step = "commit"
      /\ p.op = req[r].op /\ p.email = req[r].email /\ p.flag = req[r].flag
  BY <1>1 DEF InFlight
<1>3. req' = [[req EXCEPT ![r] = p] EXCEPT ![r] = [[req EXCEPT ![r] = p][r] EXCEPT !.number = n]]
  BY Zenon
<1>4. req' = [req EXCEPT ![r] = q]
  <2>1. [req EXCEPT ![r] = p][r] = p
    BY DEF TypeInv, ReqsTyped
  <2>2. req' = [[req EXCEPT ![r] = p] EXCEPT ![r] = q]
    BY <1>3, <2>1
  <2> HIDE DEF q, p
  <2> QED
    BY <2>2 DEF TypeInv, ReqsTyped
<1>5. /\ q \in InFlight /\ q.step = "commit" /\ q.number = n
      /\ q.op = p.op /\ q.email = p.email /\ q.flag = p.flag
  <2> HIDE DEF p
  <2> QED
    BY <1>2 DEF InFlight
<1>6. q # Idle
  BY <1>5 DEF InFlight, Idle, CreateOps
<1> HIDE DEF p, q
<1>7. req'[r] = q /\ OthersSame(r) /\ ReqTyped
  BY <1>4, <1>5 DEF TypeInv, ReqsTyped, ReqTyped, OthersSame
<1> QED
  BY <1>2, <1>5, <1>6, <1>7

LEMMA EndRecord ==
  ASSUME TypeInv, NEW r \in Requests, req' = [req EXCEPT ![r] = Idle]
  PROVE  req'[r] = Idle /\ OthersSame(r) /\ ReqTyped
BY DEF TypeInv, ReqsTyped, ReqTyped, OthersSame

-----------------------------------------------------------------------------
(* What every call and every statement does to its request *)

\* A call starts with what it found, or is over at once.
CallShape(r) ==
  /\ req[r] = Idle /\ OthersSame(r) /\ ReqTyped /\ orderly' = (orderly /\ Alone)
  /\ \/ req'[r] = Idle
     \/ /\ req'[r] # Idle /\ req'[r].step = "readUsage" /\ req'[r].op \in CreateOps
        /\ req'[r].op # "raiseTicket" => req'[r].email \in Emails
        /\ req'[r].plan \in ActivePlans /\ ReadOnly
     \/ /\ req'[r] # Idle /\ req'[r].step = "writeFlags"
        /\ req'[r].op = "updateTechnician" /\ ReadOnly
        /\ req'[r].email \in Emails /\ role[req'[r].email] = "TECHNICIAN"
     \/ /\ req'[r] # Idle /\ req'[r].step = "createSubscription"
        /\ req'[r].op = "assignSubscription" /\ req'[r].plan \in Plans
        /\ subs' = CancelAll

InOneStepCall(r) ==
  \/ \E e \in Emails : DeleteManager(r, e)
  \/ \E s \in subs : RenewSubscription(r, s)
  \/ \E plan \in Plans, n \in EditedLimits : UpdatePlan(r, plan, n)
  \/ DeleteTenant(r)

LEMMA CheckShape ==
  ASSUME TypeInv, NEW r \in Requests, NEW op \in CreateOps, NEW e \in Emails \cup {NoEmail},
         op # "raiseTicket" => e \in Emails, CheckLimit(r, op, e)
  PROVE  CallShape(r)
<1>1. PICK plan \in ActivePlans : Start(r, op, "readUsage", plan, e, 0, TRUE)
  BY DEF CheckLimit
<1>2. ReadOnly
  BY DEF CheckLimit
<1>3. plan \in Plans
  BY DEF ActivePlans, ActiveSubs, TypeInv, PlansTyped, Subscription
<1>4. ReqTyped
  BY <1>1, <1>3, StartTyped
<1>5. /\ req[r] = Idle /\ OthersSame(r) /\ orderly' = (orderly /\ Alone)
      /\ req'[r].op = op /\ req'[r].step = "readUsage" /\ req'[r].plan = plan
      /\ req'[r].email = e
  BY <1>1, StartRecord
<1>6. req'[r] # Idle
  BY <1>5 DEF Idle, CreateOps
<1> QED
  BY <1>1, <1>2, <1>4, <1>5, <1>6 DEF CallShape

LEMMA CallShapes ==
  ASSUME TypeInv, NEW r \in Requests, Call(r)
  PROVE  CallShape(r) /\ (req'[r] = Idle => InOneStepCall(r))
<1>1. ASSUME NEW e \in Emails, CreateManager(r, e) \/ CreateTechnician(r, e)
      PROVE  CallShape(r) /\ req'[r] # Idle
  <2>1. CallShape(r)
    BY <1>1, CheckShape DEF CreateManager, CreateTechnician, CreateOps
  <2>2. PICK op \in CreateOps : CheckLimit(r, op, e)
    BY <1>1 DEF CreateManager, CreateTechnician, CreateOps
  <2>3. req'[r].op = op
    BY <2>2, StartRecord DEF CheckLimit
  <2> QED
    BY <2>1, <2>3 DEF Idle, CreateOps
<1>2. CASE RaiseTicket(r)
  <2>1. CheckLimit(r, "raiseTicket", NoEmail)
    BY <1>2 DEF RaiseTicket
  <2>2. CallShape(r)
    BY <2>1, CheckShape DEF CreateOps
  <2>3. req'[r].op = "raiseTicket"
    BY <2>1, StartRecord DEF CheckLimit
  <2> QED
    BY <2>2, <2>3 DEF Idle
<1>3. ASSUME NEW e \in Emails, NEW flag \in BOOLEAN, UpdateTechnician(r, e, flag)
      PROVE  CallShape(r) /\ req'[r] # Idle
  <2>1. /\ Start(r, "updateTechnician", "writeFlags", NoPlan, e, 0, flag)
        /\ role[e] = "TECHNICIAN" /\ ReadOnly
    BY <1>3 DEF UpdateTechnician
  <2>2. ReqTyped
    BY <2>1, StartTyped
  <2>3. /\ req[r] = Idle /\ OthersSame(r) /\ orderly' = (orderly /\ Alone)
        /\ req'[r].op = "updateTechnician" /\ req'[r].step = "writeFlags"
        /\ req'[r].email = e
    BY <2>1, StartRecord
  <2>4. req'[r] # Idle
    BY <2>3 DEF Idle
  <2> QED
    BY <2>1, <2>2, <2>3, <2>4 DEF CallShape
<1>4. ASSUME NEW plan \in Plans, AssignSubscription(r, plan)
      PROVE  CallShape(r) /\ req'[r] # Idle
  <2>1. /\ Start(r, "assignSubscription", "createSubscription", plan, NoEmail, 0, TRUE)
        /\ subs' = CancelAll
    BY <1>4 DEF AssignSubscription
  <2>2. ReqTyped
    BY <2>1, StartTyped
  <2>3. /\ req[r] = Idle /\ OthersSame(r) /\ orderly' = (orderly /\ Alone)
        /\ req'[r].op = "assignSubscription" /\ req'[r].step = "createSubscription"
        /\ req'[r].plan = plan
    BY <2>1, StartRecord
  <2>4. req'[r] # Idle
    BY <2>3 DEF Idle
  <2> QED
    BY <2>1, <2>2, <2>3, <2>4 DEF CallShape
<1>5. CASE InOneStepCall(r)
  <2>1. req[r] = Idle /\ orderly' = (orderly /\ Alone) /\ req' = req
    BY <1>5 DEF InOneStepCall, DeleteManager, RenewSubscription, UpdatePlan, DeleteTenant,
       InOneStep
  <2> QED
    BY <1>5, <2>1 DEF CallShape, OthersSame, ReqTyped, TypeInv, ReqsTyped
<1> QED
  BY <1>1, <1>2, <1>3, <1>4, <1>5 DEF Call, InOneStepCall

\* A request ends, or goes on with what it holds.
GoesOn(r) ==
  /\ req'[r] # Idle
  /\ req'[r].op = req[r].op /\ req'[r].email = req[r].email /\ req'[r].flag = req[r].flag
  /\ \/ /\ CheckLimitReadUsage(r) /\ Within(req[r].plan, ResourceOf(req[r].op))
        /\ req'[r].step \in {"readUser", "readCount"} /\ req[r].step = "readUsage"
     \/ /\ CreateReadUser(r) /\ req'[r].step = "commit" /\ req[r].step = "readUser"
        /\ req[r].op # "raiseTicket"
     \/ /\ RaiseTicketReadCount(r) /\ req'[r].step = "commit"
        /\ req[r].op = "raiseTicket" /\ req[r].step = "readCount"
        /\ req'[r].number = Len(numbers) + 1
     \/ WriteTechnician(r) /\ req'[r].step = "writeUser" /\ req[r].step = "writeFlags"
     \/ WriteUser(r) /\ req'[r].step = "writeTechnician" /\ req[r].step = "writeFlags"

StepShape(r) ==
  /\ req[r] # Idle /\ OthersSame(r) /\ ReqTyped
  /\ orderly' \in BOOLEAN /\ (orderly' => orderly)
  /\ req'[r] = Idle \/ GoesOn(r)

LEMMA StepShapes ==
  ASSUME TypeInv, NEW r \in Requests, Step(r) \/ Fail(r)
  PROVE  StepShape(r)
<1>0. orderly \in BOOLEAN
  BY DEF TypeInv, ReqsTyped
<1>1. ASSUME req[r] # Idle, Finish(r)
      PROVE  StepShape(r)
  BY <1>0, <1>1, EndRecord DEF StepShape, Finish
<1>2. CASE CheckLimitReadUsage(r)
  <2>1. req[r] # Idle /\ req[r].step = "readUsage"
    BY <1>2 DEF CheckLimitReadUsage
  <2>2. CASE Finish(r)
    BY <1>1, <2>1, <2>2
  <2>3. CASE ~Finish(r)
    <3> DEFINE step == IF req[r].op = "raiseTicket" THEN "readCount" ELSE "readUser"
    <3>1. /\ Within(req[r].plan, ResourceOf(req[r].op)) /\ orderly' = orderly
          /\ req' = [req EXCEPT ![r].step = step, ![r].plan = NoPlan]
      BY <1>2, <2>3 DEF CheckLimitReadUsage
    <3>2. step \in {"readUser", "readCount"}
      OBVIOUS
    <3> HIDE DEF step
    <3>3. \E st \in {"readUser", "readCount"} :
             req' = [req EXCEPT ![r].step = st, ![r].plan = NoPlan]
      BY <3>1, <3>2, Zenon
    <3>4. /\ OthersSame(r) /\ ReqTyped
          /\ req'[r] # Idle /\ req'[r].step \in {"readUser", "readCount"}
          /\ req'[r].op = req[r].op /\ req'[r].email = req[r].email
          /\ req'[r].flag = req[r].flag
      BY <2>1, <3>3, CheckedRecord, Zenon
    <3> QED
      BY <1>0, <1>2, <2>1, <3>1, <3>4 DEF StepShape, GoesOn
  <2> QED
    BY <2>2, <2>3
<1>3. CASE CreateReadUser(r)
  <2>1. /\ req[r] # Idle /\ req[r].step = "readUser" /\ req[r].op # "raiseTicket"
        /\ Continue(r, "commit") \/ Finish(r)
    BY <1>3 DEF CreateReadUser, At
  <2>2. CASE Continue(r, "commit")
    BY <1>0, <1>3, <2>1, <2>2, ContinueRecord DEF StepShape, GoesOn
  <2> QED
    BY <1>1, <2>1, <2>2
<1>4. CASE RaiseTicketReadCount(r)
  <2>1. /\ req[r] # Idle /\ req[r].step = "readCount" /\ req[r].op = "raiseTicket"
        /\ req' = [req EXCEPT ![r].step = "commit", ![r].number = Len(numbers) + 1]
        /\ orderly' = orderly
    BY <1>4 DEF RaiseTicketReadCount, At
  <2>2. Len(numbers) + 1 \in Nat
    BY DEF TypeInv, TicketsTyped
  <2>3. \E n \in Nat : /\ n = Len(numbers) + 1
                       /\ req' = [req EXCEPT ![r].step = "commit", ![r].number = n]
    BY <2>1, <2>2, Zenon
  <2>4. /\ OthersSame(r) /\ ReqTyped
        /\ req'[r] # Idle /\ req'[r].step = "commit" /\ req'[r].number = Len(numbers) + 1
        /\ req'[r].op = req[r].op /\ req'[r].email = req[r].email
        /\ req'[r].flag = req[r].flag
    BY <2>1, <2>3, NumberedRecord, Zenon
  <2> QED
    BY <1>0, <1>4, <2>1, <2>4 DEF StepShape, GoesOn
<1>5. CASE WriteTechnician(r)
  <2>1. /\ req[r] # Idle
        /\ \/ Continue(r, "writeUser") /\ req[r].step = "writeFlags"
           \/ Finish(r)
    BY <1>5 DEF WriteTechnician
  <2>2. CASE Continue(r, "writeUser") /\ req[r].step = "writeFlags"
    BY <1>0, <1>5, <2>1, <2>2, ContinueRecord DEF StepShape, GoesOn
  <2> QED
    BY <1>1, <2>1, <2>2
<1>6. CASE WriteUser(r)
  <2>1. /\ req[r] # Idle
        /\ \/ Continue(r, "writeTechnician") /\ req[r].step = "writeFlags"
           \/ Finish(r)
    BY <1>6 DEF WriteUser
  <2>2. CASE Continue(r, "writeTechnician") /\ req[r].step = "writeFlags"
    BY <1>0, <1>6, <2>1, <2>2, ContinueRecord DEF StepShape, GoesOn
  <2> QED
    BY <1>1, <2>1, <2>2
<1>7. CASE \/ CreateManagerCommit(r) \/ CreateTechnicianCommit(r)
           \/ RaiseTicketCommit(r) \/ AssignSubscriptionCreate(r)
  BY <1>1, <1>7 DEF CreateManagerCommit, CreateTechnicianCommit, RaiseTicketCommit,
     AssignSubscriptionCreate, At
<1>8. CASE Fail(r)
  BY <1>0, <1>8, EndRecord DEF StepShape, Fail
<1> QED
  BY <1>2, <1>3, <1>4, <1>5, <1>6, <1>7, <1>8 DEF Step


-----------------------------------------------------------------------------
(* The types of each group *)

SubsTyped(S) ==
  /\ S \subseteq Subscription
  /\ \A s, t \in S : s.id = t.id => s = t
  /\ IsFiniteSet(S)
  /\ \A s \in S : s.id <= Cardinality(S)

\* Cancelling keeps the rows and their keys.
LEMMA CancelTyped ==
  ASSUME SubsTyped(subs)
  PROVE  SubsTyped(CancelAll) /\ \A s \in CancelAll : s.status = "CANCELLED"
<1> DEFINE Cancelled(s) == [s EXCEPT !.status = "CANCELLED"]
           f == [s \in subs |-> Cancelled(s)]
<1>1. ASSUME NEW s \in Subscription
      PROVE  /\ Cancelled(s) \in Subscription /\ Cancelled(s).id = s.id
             /\ Cancelled(s).status = "CANCELLED"
  BY DEF Subscription
<1>2. CancelAll = {Cancelled(s) : s \in subs}
  BY DEF CancelAll
<1>3. subs \subseteq Subscription /\ \A s, t \in subs : s.id = t.id => s = t
  BY DEF SubsTyped
<1> HIDE DEF Cancelled
<1>4. /\ CancelAll \subseteq Subscription
      /\ \A s \in CancelAll : s.status = "CANCELLED"
      /\ \A s, t \in CancelAll : s.id = t.id => s = t
  BY <1>1, <1>2, <1>3
<1>5. ExistsBijection(subs, CancelAll)
  <2>1. f \in [subs -> CancelAll]
    BY <1>2
  <2>2. \A s, t \in subs : f[s] = f[t] => s = t
    BY <1>1, <1>3
  <2>3. \A u \in CancelAll : \E s \in subs : f[s] = u
    BY <1>2
  <2> HIDE DEF f
  <2> QED
    BY <2>1, <2>2, <2>3, Zenon
    DEF ExistsBijection, Bijection, Injection, Surjection, IsInjective
<1>6. IsFiniteSet(CancelAll) /\ Cardinality(CancelAll) = Cardinality(subs)
  BY <1>5, FS_Bijection DEF SubsTyped
<1>7. \A s \in CancelAll : s.id <= Cardinality(CancelAll)
  BY <1>1, <1>2, <1>3, <1>6 DEF SubsTyped
<1> QED
  BY <1>4, <1>6, <1>7 DEF SubsTyped

\* A renewed row takes the place of the one it was.
LEMMA RenewTyped ==
  ASSUME SubsTyped(subs), NEW s \in subs
  PROVE  SubsTyped((subs \ {s}) \cup {[s EXCEPT !.status = "ACTIVE"]})
<1> DEFINE t == [s EXCEPT !.status = "ACTIVE"]
           T == (subs \ {s}) \cup {t}
<1>1. s \in Subscription /\ t \in Subscription /\ t.id = s.id
  BY DEF SubsTyped, Subscription
<1> HIDE DEF t
<1>2. T \subseteq Subscription /\ \A u, v \in T : u.id = v.id => u = v
  BY <1>1 DEF SubsTyped
<1>3. t \notin subs \ {s}
  BY <1>1 DEF SubsTyped
<1>4. /\ IsFiniteSet(subs \ {s}) /\ Cardinality(subs \ {s}) = Cardinality(subs) - 1
      /\ Cardinality(subs) \in Nat
  BY FS_RemoveElement, FS_CardinalityType DEF SubsTyped
<1>5. IsFiniteSet(T) /\ Cardinality(T) = Cardinality(subs \ {s}) + 1
  BY <1>3, <1>4, FS_AddElement
<1>6. Cardinality(T) = Cardinality(subs)
  BY <1>4, <1>5
<1>7. \A u \in T : u.id <= Cardinality(T)
  BY <1>1, <1>6 DEF SubsTyped
<1> QED
  BY <1>2, <1>5, <1>7 DEF SubsTyped, t

\* The key of a new row is its own.
LEMMA NewTyped ==
  ASSUME SubsTyped(subs), Cardinality(subs) < MaxSubs, NEW plan \in Plans
  PROVE  SubsTyped(subs \cup {[id |-> Cardinality(subs) + 1, plan |-> plan,
                               status |-> "ACTIVE"]})
<1> DEFINE s == [id |-> Cardinality(subs) + 1, plan |-> plan, status |-> "ACTIVE"]
           T == subs \cup {s}
<1>1. Cardinality(subs) \in Nat /\ MaxSubs \in Nat
  BY FS_CardinalityType, SubsAssumption DEF SubsTyped
<1>2. s \in Subscription /\ s.id = Cardinality(subs) + 1
  BY <1>1 DEF Subscription
<1> HIDE DEF s
<1>3. \A t \in subs : t.id \in Nat /\ t.id <= Cardinality(subs)
  BY <1>1 DEF SubsTyped, Subscription
<1>4. s \notin subs /\ \A t \in subs : t.id # s.id
  BY <1>1, <1>2, <1>3
<1>5. IsFiniteSet(T) /\ Cardinality(T) = Cardinality(subs) + 1
  BY <1>4, FS_AddElement DEF SubsTyped
<1>6. T \subseteq Subscription /\ \A u, v \in T : u.id = v.id => u = v
  BY <1>2, <1>4 DEF SubsTyped
<1>7. \A u \in T : u.id <= Cardinality(T)
  BY <1>1, <1>2, <1>3, <1>5
<1> QED
  BY <1>5, <1>6, <1>7 DEF SubsTyped, s

LEMMA NextPlans ==
  ASSUME TypeInv, [Next]_vars
  PROVE  PlansTyped'
<1>0. /\ SubsTyped(subs) /\ ticketLimit \in [Plans -> Nat]
      /\ SubsTyped(subs)' = SubsTyped(subs')
  BY DEF TypeInv, PlansTyped, SubsTyped
<1>1. CASE subs' = subs /\ ticketLimit' = ticketLimit
  BY <1>0, <1>1 DEF PlansTyped, SubsTyped
<1>2. CASE subs' = CancelAll /\ ticketLimit' = ticketLimit
  <2>1. SubsTyped(subs')
    BY <1>0, <1>2, CancelTyped
  <2> QED
    BY <1>0, <1>2, <2>1 DEF PlansTyped, SubsTyped
<1>3. ASSUME NEW r \in Requests, NEW s \in subs, RenewSubscription(r, s)
      PROVE  PlansTyped'
  <2>1. SubsTyped(subs') /\ ticketLimit' = ticketLimit
    BY <1>0, <1>3, RenewTyped DEF RenewSubscription
  <2> QED
    BY <1>0, <2>1 DEF PlansTyped, SubsTyped
<1>4. ASSUME NEW r \in Requests, AssignSubscriptionCreate(r)
      PROVE  PlansTyped'
  <2>1. /\ req[r] # Idle /\ req[r].step = "createSubscription"
        /\ Cardinality(subs) < MaxSubs /\ ticketLimit' = ticketLimit
        /\ subs' = subs \cup {[id |-> Cardinality(subs) + 1, plan |-> req[r].plan,
                               status |-> "ACTIVE"]}
    BY <1>4 DEF AssignSubscriptionCreate, At
  <2>2. req[r].plan \in Plans
    BY <2>1 DEF TypeInv, ReqsTyped, OpOfStep
  <2>3. SubsTyped(subs')
    BY <1>0, <2>1, <2>2, NewTyped
  <2> QED
    BY <1>0, <2>1, <2>3 DEF PlansTyped, SubsTyped
<1>5. ASSUME NEW r \in Requests, NEW plan \in Plans, NEW n \in EditedLimits,
             UpdatePlan(r, plan, n)
      PROVE  PlansTyped'
  <2>1. subs' = subs /\ ticketLimit' = [ticketLimit EXCEPT ![plan] = n] /\ n \in Nat
    BY <1>5, TicketLimitAssumption DEF UpdatePlan
  <2> QED
    BY <1>0, <2>1 DEF PlansTyped, SubsTyped
<1>6. ASSUME NEW r \in Requests, Call(r) PROVE PlansTyped'
  <2>1. CASE \E plan \in Plans : AssignSubscription(r, plan)
    BY <1>2, <2>1 DEF AssignSubscription
  <2>2. CASE DeleteTenant(r)
    BY <1>2, <2>2 DEF DeleteTenant
  <2>3. CASE \/ \E e \in Emails : \/ CreateManager(r, e) \/ CreateTechnician(r, e)
                                  \/ \E flag \in BOOLEAN : UpdateTechnician(r, e, flag)
                                  \/ DeleteManager(r, e)
             \/ RaiseTicket(r)
    BY <1>1, <2>3 DEF CreateManager, CreateTechnician, UpdateTechnician, DeleteManager,
       RaiseTicket, CheckLimit, ReadOnly, planVars
  <2> QED
    BY <1>3, <1>5, <1>6, <2>1, <2>2, <2>3 DEF Call
<1>7. ASSUME NEW r \in Requests, Step(r) \/ Fail(r) PROVE PlansTyped'
  <2>1. CASE AssignSubscriptionCreate(r)
    BY <1>4, <2>1
  <2>2. CASE ~AssignSubscriptionCreate(r)
    BY <1>1, <1>7, <2>2 DEF Step, Fail, CheckLimitReadUsage, CreateReadUser,
       CreateManagerCommit, CreateTechnicianCommit, RaiseTicketReadCount, RaiseTicketCommit,
       WriteTechnician, WriteUser, ReadOnly, planVars
  <2> QED
    BY <2>1, <2>2
<1>8. CASE NewMonth \/ UNCHANGED vars
  BY <1>1, <1>8 DEF NewMonth, vars, planVars
<1> QED
  BY <1>6, <1>7, <1>8 DEF Next

\* Only an absent user is given a role, one at a time.
LEMMA RoleGiven ==
  ASSUME StaffTyped, NEW e \in Emails, NEW given \in {"MANAGER", "TECHNICIAN"},
         role[e] = "absent", role' = [role EXCEPT ![e] = given]
  PROVE  /\ role' \in [Emails -> {"absent", "MANAGER", "TECHNICIAN"}]
         /\ role'[e] = given /\ \A d \in Emails \ {e} : role'[d] = role[d]
         /\ IsFiniteSet({d \in Emails : role'[d] # "absent"})
<1> DEFINE S == {d \in Emails : role[d] # "absent"}
           T == {d \in Emails : role'[d] # "absent"}
<1>1. /\ role' \in [Emails -> {"absent", "MANAGER", "TECHNICIAN"}]
      /\ role'[e] = given /\ \A d \in Emails \ {e} : role'[d] = role[d]
  BY DEF StaffTyped
<1>2. S \ {e} = T \ {e} /\ IsFiniteSet(S)
  BY <1>1 DEF StaffTyped
<1> HIDE DEF S
<1>3. IsFiniteSet(T)
  <2> HIDE DEF T
  <2> QED
    BY <1>2, CountChange
<1> QED
  BY <1>1, <1>3

LEMMA NextStaff ==
  ASSUME TypeInv, [Next]_vars
  PROVE  StaffTyped'
<1>0. StaffTyped
  BY DEF TypeInv
<1>1. CASE role' = role /\ userActive' = userActive /\ techActive' = techActive
  BY <1>0, <1>1 DEF StaffTyped
<1>2. CASE /\ role' = role /\ techActive' = techActive
           /\ userActive' \in [Emails -> BOOLEAN]
  BY <1>0, <1>2 DEF StaffTyped
<1>3. ASSUME NEW r \in Requests, CreateManagerCommit(r)
      PROVE  StaffTyped'
  <2> DEFINE e == req[r].email
  <2>1. e \in Emails /\ techActive' = techActive
    BY <1>3 DEF CreateManagerCommit, At, TypeInv, ReqsTyped, OpOfStep
  <2>2. CASE role[e] = "absent"
    <3>1. role' = [role EXCEPT ![e] = "MANAGER"] /\ userActive' = [userActive EXCEPT ![e] = TRUE]
      BY <1>3, <2>2 DEF CreateManagerCommit
    <3> HIDE DEF e
    <3>2. /\ role' \in [Emails -> {"absent", "MANAGER", "TECHNICIAN"}]
          /\ role'[e] = "MANAGER" /\ \A d \in Emails \ {e} : role'[d] = role[d]
          /\ IsFiniteSet({d \in Emails : role'[d] # "absent"})
      BY <1>0, <2>1, <2>2, <3>1, RoleGiven
    <3>3. userActive' \in [Emails -> BOOLEAN]
      BY <1>0, <3>1 DEF StaffTyped
    <3>4. \A d \in Emails : techActive'[d] => role'[d] = "TECHNICIAN"
      BY <1>0, <2>1, <2>2, <3>2 DEF StaffTyped
    <3> QED
      BY <1>0, <2>1, <3>2, <3>3, <3>4 DEF StaffTyped
  <2>3. CASE role[e] # "absent"
    BY <1>1, <1>3, <2>3 DEF CreateManagerCommit
  <2> QED
    BY <2>2, <2>3
<1>4. ASSUME NEW r \in Requests, CreateTechnicianCommit(r)
      PROVE  StaffTyped'
  <2> DEFINE e == req[r].email
  <2>1. e \in Emails
    BY <1>4 DEF CreateTechnicianCommit, At, TypeInv, ReqsTyped, OpOfStep
  <2>2. CASE role[e] = "absent"
    <3>1. /\ role' = [role EXCEPT ![e] = "TECHNICIAN"]
          /\ userActive' = [userActive EXCEPT ![e] = TRUE]
          /\ techActive' = [techActive EXCEPT ![e] = TRUE]
      BY <1>4, <2>2 DEF CreateTechnicianCommit
    <3> HIDE DEF e
    <3>2. /\ role' \in [Emails -> {"absent", "MANAGER", "TECHNICIAN"}]
          /\ role'[e] = "TECHNICIAN" /\ \A d \in Emails \ {e} : role'[d] = role[d]
          /\ IsFiniteSet({d \in Emails : role'[d] # "absent"})
      BY <1>0, <2>1, <2>2, <3>1, RoleGiven
    <3>3. /\ userActive' \in [Emails -> BOOLEAN] /\ techActive' \in [Emails -> BOOLEAN]
          /\ \A d \in Emails \ {e} : techActive'[d] = techActive[d]
      BY <1>0, <3>1 DEF StaffTyped
    <3>4. \A d \in Emails : techActive'[d] => role'[d] = "TECHNICIAN"
      BY <1>0, <3>2, <3>3 DEF StaffTyped
    <3> QED
      BY <3>2, <3>3, <3>4 DEF StaffTyped
  <2>3. CASE role[e] # "absent"
    BY <1>1, <1>4, <2>3 DEF CreateTechnicianCommit, staffVars
  <2> QED
    BY <2>2, <2>3
<1>5. ASSUME NEW r \in Requests, WriteTechnician(r) PROVE StaffTyped'
  <2>1. /\ role[req[r].email] = "TECHNICIAN" /\ req[r].flag \in BOOLEAN
        /\ role' = role /\ userActive' = userActive
        /\ techActive' = [techActive EXCEPT ![req[r].email] = req[r].flag]
    BY <1>5 DEF WriteTechnician, TypeInv, ReqsTyped, OpOfStep, WriteSteps, InFlight
  <2> QED
    BY <1>0, <2>1 DEF StaffTyped
<1>6. ASSUME NEW r \in Requests, WriteUser(r) PROVE StaffTyped'
  <2>1. /\ req[r].flag \in BOOLEAN /\ role' = role /\ techActive' = techActive
        /\ userActive' = [userActive EXCEPT ![req[r].email] = req[r].flag]
    BY <1>6 DEF WriteUser, TypeInv, ReqsTyped, InFlight
  <2> QED
    BY <1>0, <1>2, <2>1 DEF StaffTyped
<1>7. ASSUME NEW r \in Requests, Call(r) PROVE StaffTyped'
  <2>1. CASE \E e \in Emails : DeleteManager(r, e)
    BY <1>0, <1>2, <2>1 DEF DeleteManager, StaffTyped
  <2>2. CASE DeleteTenant(r)
    BY <1>2, <2>2 DEF DeleteTenant
  <2>3. CASE ~(\E e \in Emails : DeleteManager(r, e)) /\ ~DeleteTenant(r)
    BY <1>1, <1>7, <2>3 DEF Call, CreateManager, CreateTechnician, UpdateTechnician,
       RaiseTicket, CheckLimit, AssignSubscription, RenewSubscription, UpdatePlan, ReadOnly,
       staffVars
  <2> QED
    BY <2>1, <2>2, <2>3
<1>8. ASSUME NEW r \in Requests, Step(r) \/ Fail(r) PROVE StaffTyped'
  <2>1. CASE \/ CheckLimitReadUsage(r) \/ CreateReadUser(r) \/ RaiseTicketReadCount(r)
             \/ RaiseTicketCommit(r) \/ AssignSubscriptionCreate(r) \/ Fail(r)
    BY <1>1, <2>1 DEF Fail, CheckLimitReadUsage, CreateReadUser, RaiseTicketReadCount,
       RaiseTicketCommit, AssignSubscriptionCreate, ReadOnly, staffVars
  <2> QED
    BY <1>3, <1>4, <1>5, <1>6, <1>8, <2>1 DEF Step
<1>9. CASE NewMonth \/ UNCHANGED vars
  BY <1>1, <1>9 DEF NewMonth, vars, staffVars
<1> QED
  BY <1>7, <1>8, <1>9 DEF Next

LEMMA NextTickets ==
  ASSUME TypeInv, [Next]_vars
  PROVE  TicketsTyped'
<1>0. numbers \in Seq(Nat) /\ monthly \in 0..Len(numbers)
  BY DEF TypeInv, TicketsTyped
<1>1. CASE numbers' = numbers /\ monthly' = monthly
  BY <1>0, <1>1 DEF TicketsTyped
<1>2. ASSUME NEW r \in Requests, RaiseTicketCommit(r)
      PROVE  TicketsTyped'
  <2>1. req[r].number \in Nat
    BY <1>2 DEF RaiseTicketCommit, At, TypeInv, ReqsTyped, InFlight
  <2>2. numbers' = Append(numbers, req[r].number) /\ monthly' = monthly + 1
    BY <1>2 DEF RaiseTicketCommit
  <2> QED
    BY <1>0, <2>1, <2>2 DEF TicketsTyped
<1>3. CASE NewMonth
  BY <1>0, <1>3 DEF NewMonth, TicketsTyped
<1>4. ASSUME NEW r \in Requests, Call(r) PROVE TicketsTyped'
  BY <1>1, <1>4 DEF Call, CreateManager, CreateTechnician, UpdateTechnician, DeleteManager,
     RaiseTicket, CheckLimit, AssignSubscription, RenewSubscription, UpdatePlan, DeleteTenant,
     ReadOnly, ticketVars
<1>5. ASSUME NEW r \in Requests, Step(r) \/ Fail(r) PROVE TicketsTyped'
  <2>1. CASE RaiseTicketCommit(r)
    BY <1>2, <2>1
  <2>2. CASE ~RaiseTicketCommit(r)
    BY <1>1, <1>5, <2>2 DEF Step, Fail, CheckLimitReadUsage, CreateReadUser,
       CreateManagerCommit, CreateTechnicianCommit, RaiseTicketReadCount,
       AssignSubscriptionCreate, WriteTechnician, WriteUser, ReadOnly, ticketVars
  <2> QED
    BY <2>1, <2>2
<1>6. CASE UNCHANGED vars
  BY <1>1, <1>6 DEF vars, ticketVars
<1> QED
  BY <1>3, <1>4, <1>5, <1>6 DEF Next

\* What is a technician stays one.
LEMMA TechniciansStay ==
  ASSUME TypeInv, [Next]_vars, NEW e \in Emails, role[e] = "TECHNICIAN"
  PROVE  role'[e] = "TECHNICIAN"
<1>0. role \in [Emails -> {"absent", "MANAGER", "TECHNICIAN"}]
  BY DEF TypeInv, StaffTyped
<1>1. CASE role' = role
  BY <1>1
<1>2. ASSUME NEW r \in Requests, Call(r) PROVE role' = role
  BY <1>2 DEF Call, CreateManager, CreateTechnician, UpdateTechnician, DeleteManager,
     RaiseTicket, CheckLimit, AssignSubscription, RenewSubscription, UpdatePlan, DeleteTenant,
     ReadOnly, staffVars
<1>3. ASSUME NEW r \in Requests, Step(r) \/ Fail(r)
      PROVE  \/ role' = role
             \/ \E d, given : role[d] = "absent" /\ role' = [role EXCEPT ![d] = given]
  <2>1. CASE CreateManagerCommit(r) \/ CreateTechnicianCommit(r)
    <3>1. CASE role[req[r].email] = "absent"
      <4>1. \/ role' = [role EXCEPT ![req[r].email] = "MANAGER"]
            \/ role' = [role EXCEPT ![req[r].email] = "TECHNICIAN"]
        BY <2>1, <3>1 DEF CreateManagerCommit, CreateTechnicianCommit
      <4> QED
        BY <3>1, <4>1, Zenon
    <3>2. CASE role[req[r].email] # "absent"
      BY <2>1, <3>2 DEF CreateManagerCommit, CreateTechnicianCommit, staffVars
    <3> QED
      BY <3>1, <3>2
  <2>2. CASE ~(CreateManagerCommit(r) \/ CreateTechnicianCommit(r))
    BY <1>3, <2>2 DEF Step, Fail, CheckLimitReadUsage, CreateReadUser, RaiseTicketReadCount,
       RaiseTicketCommit, AssignSubscriptionCreate, WriteTechnician, WriteUser, ReadOnly,
       staffVars
  <2> QED
    BY <2>1, <2>2
<1>4. CASE NewMonth \/ UNCHANGED vars
  BY <1>4 DEF NewMonth, vars, staffVars
<1>5. CASE \E r \in Requests : Step(r) \/ Fail(r)
  <2>1. CASE role' = role
    BY <2>1
  <2>2. ASSUME NEW d, NEW given, role[d] = "absent", role' = [role EXCEPT ![d] = given]
        PROVE  role'[e] = "TECHNICIAN"
    BY <1>0, <2>2
  <2> QED
    BY <1>3, <1>5, <2>1, <2>2, Zenon
<1> QED
  BY <1>2, <1>4, <1>5 DEF Next

LEMMA NextReqs ==
  ASSUME TypeInv, [Next]_vars
  PROVE  ReqsTyped'
<1>0. /\ req \in [Requests -> InFlight \cup {Idle}] /\ orderly \in BOOLEAN
      /\ \A r \in Requests : req[r] # Idle => OpOfStep(r)
  BY DEF TypeInv, ReqsTyped
<1>1. ASSUME NEW r \in Requests, req[r] # Idle, req'[r] = req[r]
      PROVE  OpOfStep(r)'
  <2>1. OpOfStep(r)
    BY <1>0, <1>1
  <2>2. req[r].step \in WriteSteps => role'[req[r].email] = "TECHNICIAN"
    BY <2>1, TechniciansStay DEF OpOfStep
  <2> QED
    BY <1>1, <2>1, <2>2 DEF OpOfStep
<1>2. CASE UNCHANGED <<req, orderly>>
  <2> SUFFICES ASSUME NEW r \in Requests, req'[r] # Idle
               PROVE  OpOfStep(r)'
    BY <1>0, <1>2 DEF ReqsTyped
  <2> QED
    BY <1>1, <1>2
<1>3. ASSUME NEW r \in Requests, Call(r)
      PROVE  ReqsTyped'
  <2>1. CallShape(r)
    BY <1>3, CallShapes
  <2>2. orderly' \in BOOLEAN /\ ReqTyped /\ OthersSame(r)
    BY <2>1 DEF CallShape
  <2>3. req'[r] # Idle => OpOfStep(r)'
    <3> SUFFICES ASSUME req'[r] # Idle
                 PROVE  OpOfStep(r)'
      OBVIOUS
    <3>1. CASE /\ req'[r].step = "readUsage" /\ req'[r].op \in CreateOps
               /\ req'[r].op # "raiseTicket" => req'[r].email \in Emails
               /\ req'[r].plan \in ActivePlans
      <4>1. req'[r].plan \in Plans
        BY <3>1 DEF ActivePlans, ActiveSubs, TypeInv, PlansTyped, Subscription
      <4> QED
        BY <3>1, <4>1 DEF OpOfStep, WriteSteps
    <3>2. CASE /\ req'[r].step = "writeFlags" /\ req'[r].op = "updateTechnician"
               /\ ReadOnly /\ req'[r].email \in Emails
               /\ role[req'[r].email] = "TECHNICIAN"
      <4>1. role' = role
        BY <3>2 DEF ReadOnly, staffVars
      <4> QED
        BY <3>2, <4>1 DEF OpOfStep, WriteSteps
    <3>3. CASE /\ req'[r].step = "createSubscription"
               /\ req'[r].op = "assignSubscription" /\ req'[r].plan \in Plans
      BY <3>3 DEF OpOfStep, WriteSteps
    <3> QED
      BY <2>1, <3>1, <3>2, <3>3 DEF CallShape
  <2>4. ASSUME NEW s \in Requests \ {r}, req'[s] # Idle
        PROVE  OpOfStep(s)'
    BY <1>1, <2>2, <2>4 DEF OthersSame
  <2> QED
    BY <2>2, <2>3, <2>4 DEF ReqsTyped, ReqTyped
<1>4. ASSUME NEW r \in Requests, Step(r) \/ Fail(r)
      PROVE  ReqsTyped'
  <2>1. StepShape(r)
    BY <1>4, StepShapes
  <2>2. orderly' \in BOOLEAN /\ ReqTyped /\ OthersSame(r) /\ req[r] # Idle
    BY <2>1 DEF StepShape
  <2>3. req'[r] # Idle => OpOfStep(r)'
    <3> SUFFICES ASSUME req'[r] # Idle
                 PROVE  OpOfStep(r)'
      OBVIOUS
    <3>1. GoesOn(r)
      BY <2>1 DEF StepShape
    <3>2. /\ OpOfStep(r) /\ req'[r].op = req[r].op /\ req'[r].email = req[r].email
          /\ \/ req'[r].step \in {"readUser", "readCount", "commit"}
             \/ /\ req'[r].step \in {"writeUser", "writeTechnician"}
                /\ req[r].step = "writeFlags"
      BY <1>0, <2>2, <3>1 DEF GoesOn
    <3>3. req[r].step = "writeFlags" => role'[req[r].email] = "TECHNICIAN"
      BY <3>2, TechniciansStay DEF OpOfStep, WriteSteps
    <3> QED
      BY <3>2, <3>3 DEF OpOfStep, WriteSteps
  <2>4. ASSUME NEW s \in Requests \ {r}, req'[s] # Idle
        PROVE  OpOfStep(s)'
    BY <1>1, <2>2, <2>4 DEF OthersSame
  <2> QED
    BY <2>2, <2>3, <2>4 DEF ReqsTyped, ReqTyped
<1>5. CASE NewMonth \/ UNCHANGED vars
  BY <1>2, <1>5 DEF NewMonth, vars
<1> QED
  BY <1>3, <1>4, <1>5 DEF Next

LEMMA InitTypes ==
  ASSUME Init
  PROVE  TypeInv
<1>1. PlansTyped
  <2>1. ticketLimit \in [Plans -> Nat] /\ MaxSubs \in Nat \ {0}
    BY TicketLimitAssumption, SubsAssumption DEF Init
  <2>2. CASE subs = {}
    BY <2>1, <2>2, FS_EmptySet DEF PlansTyped
  <2>3. ASSUME NEW plan \in Plans, subs = {[id |-> 1, plan |-> plan, status |-> "ACTIVE"]}
        PROVE  PlansTyped
    <3>1. IsFiniteSet(subs) /\ Cardinality(subs) = 1
      BY <2>3, FS_Singleton
    <3> QED
      BY <2>1, <2>3, <3>1 DEF PlansTyped, Subscription
  <2> QED
    BY <2>2, <2>3 DEF Init
<1>2. StaffTyped
  <2>1. {e \in Emails : role[e] # "absent"} = {}
    BY DEF Init
  <2> QED
    BY <2>1, FS_EmptySet DEF Init, StaffTyped
<1>3. TicketsTyped
  BY DEF Init, TicketsTyped
<1>4. ReqsTyped
  BY DEF Init, ReqsTyped
<1> QED
  BY <1>1, <1>2, <1>3, <1>4 DEF TypeInv

LEMMA NextTypes ==
  ASSUME TypeInv, [Next]_vars
  PROVE  TypeInv'
BY NextPlans, NextStaff, NextTickets, NextReqs DEF TypeInv

LEMMA AlwaysTyped == Spec => []TypeInv
BY InitTypes, NextTypes, PTL DEF Spec

\* Subscriptions, staff, tickets and requests keep their types, keys are never
\* given twice, and only a technician has a technician's row.
THEOREM TypeCorrect == Spec => []TypeOK
<1>1. TypeInv => TypeOK
  BY DEF TypeInv, PlansTyped, StaffTyped, TicketsTyped, ReqsTyped, TypeOK
<1> QED
  BY <1>1, AlwaysTyped, PTL
-----------------------------------------------------------------------------
(* Requests that come one at a time *)

SingleFlight ==
  orderly => \A r, s \in Requests : req[r] # Idle /\ req[s] # Idle => r = s

HasRoom(resource) == \E plan \in ActivePlans : Within(plan, resource)

\* What a request that runs alone knows.
Knows(r) ==
  LET q == req[r] IN
  /\ q.step = "readUsage" => q.plan \in ActivePlans
  /\ q.op \in CreateOps /\ q.step \in {"readUser", "readCount", "commit"} =>
       \A resource \in Resources : resource = ResourceOf(q.op) => HasRoom(resource)
  /\ q.op = "raiseTicket" /\ q.step = "commit" => q.number = Len(numbers) + 1
  /\ q.op = "assignSubscription" => ActiveSubs = {}
  /\ q.step = "writeUser" => techActive[q.email] = q.flag
  /\ q.step = "writeTechnician" => userActive[q.email] = q.flag

\* The flags of a technician differ only between the two statements.
FlagsAgree ==
  \A e \in Emails :
    role[e] = "TECHNICIAN" /\ userActive[e] =>
      \/ techActive[e]
      \/ \E r \in Requests :
           req[r] # Idle /\ req[r].email = e /\ req[r].step \in {"writeUser", "writeTechnician"}

Gapless == \A i \in 1..Len(numbers) : numbers[i] = i

OrderlyInv ==
  /\ SingleFlight
  /\ orderly =>
       FlagsAgree /\ Gapless /\ \A r \in Requests : req[r] # Idle => Knows(r)

\* Numbers never run ahead of the tickets.
NumbersInv ==
  /\ \A i \in 1..Len(numbers) : numbers[i] <= i
  /\ \A r \in Requests : At(r, "raiseTicket", "commit") => req[r].number <= Len(numbers) + 1

LEMMA NextNumbers ==
  ASSUME TypeInv, NumbersInv, [Next]_vars
  PROVE  NumbersInv'
<1>0. /\ numbers \in Seq(Nat) /\ \A i \in 1..Len(numbers) : numbers[i] <= i
      /\ \A r \in Requests :
           At(r, "raiseTicket", "commit") => req[r].number \in Nat /\ req[r].number <= Len(numbers) + 1
  BY DEF TypeInv, TicketsTyped, NumbersInv, ReqsTyped, InFlight, At
<1>1. ASSUME NEW r \in Requests, req'[r] = req[r], At(r, "raiseTicket", "commit")'
      PROVE  At(r, "raiseTicket", "commit")
  BY <1>1 DEF At
<1>2. CASE UNCHANGED <<numbers, req>>
  BY <1>0, <1>1, <1>2 DEF NumbersInv
<1>3. ASSUME NEW r \in Requests, RaiseTicketCommit(r)
      PROVE  NumbersInv'
  <2> DEFINE n == req[r].number
  <2>1. /\ numbers' = Append(numbers, n) /\ OthersSame(r) /\ req'[r] = Idle
        /\ n \in Nat /\ n <= Len(numbers) + 1
    BY <1>0, <1>3, EndRecord DEF RaiseTicketCommit, Finish
  <2> HIDE DEF n
  <2>2. Len(numbers') = Len(numbers) + 1 /\ Len(numbers) \in Nat
    BY <1>0, <2>1
  <2>3. \A i \in 1..Len(numbers') : numbers'[i] <= i
    BY <1>0, <2>1, <2>2
  <2>4. ASSUME NEW s \in Requests, At(s, "raiseTicket", "commit")'
        PROVE  req'[s].number <= Len(numbers') + 1
    <3>1. s # r /\ req'[s] = req[s]
      BY <2>1, <2>4 DEF At, OthersSame
    <3>2. req[s].number \in Nat /\ req[s].number <= Len(numbers) + 1
      BY <1>0, <1>1, <2>4, <3>1
    <3> QED
      BY <2>2, <3>1, <3>2
  <2> QED
    BY <2>3, <2>4 DEF NumbersInv
<1>4. ASSUME NEW r \in Requests, Call(r)
      PROVE  NumbersInv'
  <2>1. numbers' = numbers
    BY <1>4 DEF Call, CreateManager, CreateTechnician, UpdateTechnician, DeleteManager,
       RaiseTicket, CheckLimit, AssignSubscription, RenewSubscription, UpdatePlan,
       DeleteTenant, ReadOnly, ticketVars
  <2>2. CallShape(r)
    BY <1>4, CallShapes
  <2>3. OthersSame(r) /\ (req'[r] # Idle => req'[r].step # "commit")
    BY <2>2 DEF CallShape
  <2>4. ASSUME NEW s \in Requests, At(s, "raiseTicket", "commit")'
        PROVE  req'[s].number <= Len(numbers') + 1
    <3>1. req'[s] = req[s]
      BY <2>3, <2>4 DEF At, OthersSame
    <3> QED
      BY <1>0, <1>1, <2>1, <2>4, <3>1
  <2> QED
    BY <1>0, <2>1, <2>4 DEF NumbersInv
<1>5. ASSUME NEW r \in Requests, Step(r) \/ Fail(r), ~RaiseTicketCommit(r)
      PROVE  NumbersInv'
  <2>1. numbers' = numbers
    BY <1>5 DEF Step, Fail, CheckLimitReadUsage, CreateReadUser, CreateManagerCommit,
       CreateTechnicianCommit, RaiseTicketReadCount, AssignSubscriptionCreate,
       WriteTechnician, WriteUser, ReadOnly, ticketVars
  <2>2. StepShape(r)
    BY <1>5, StepShapes
  <2>3. /\ OthersSame(r)
        /\ req'[r] # Idle /\ req'[r].op = "raiseTicket" /\ req'[r].step = "commit" =>
             req'[r].number = Len(numbers) + 1
    BY <2>2 DEF StepShape, GoesOn
  <2>4. ASSUME NEW s \in Requests, At(s, "raiseTicket", "commit")'
        PROVE  req'[s].number <= Len(numbers') + 1
    <3>1. CASE s = r
      BY <1>0, <2>1, <2>3, <2>4, <3>1 DEF At
    <3>2. CASE s # r
      BY <1>0, <1>1, <2>1, <2>3, <2>4, <3>2 DEF OthersSame
    <3> QED
      BY <3>1, <3>2
  <2> QED
    BY <1>0, <2>1, <2>4 DEF NumbersInv
<1>6. CASE NewMonth \/ UNCHANGED vars
  BY <1>2, <1>6 DEF NewMonth, vars
<1> QED
  BY <1>3, <1>4, <1>5, <1>6 DEF Next

LEMMA NextSingleFlight ==
  ASSUME TypeInv, SingleFlight, [Next]_vars
  PROVE  SingleFlight'
<1>1. CASE UNCHANGED <<req, orderly>>
  BY <1>1 DEF SingleFlight
<1>2. ASSUME NEW r \in Requests, Call(r)
      PROVE  SingleFlight'
  <2>1. OthersSame(r) /\ (orderly' => Alone)
    BY <1>2, CallShapes DEF CallShape
  <2> QED
    BY <2>1 DEF SingleFlight, OthersSame, Alone
<1>3. ASSUME NEW r \in Requests, Step(r) \/ Fail(r)
      PROVE  SingleFlight'
  <2>1. OthersSame(r) /\ (orderly' => orderly) /\ req[r] # Idle
    BY <1>3, StepShapes DEF StepShape
  <2> QED
    BY <2>1 DEF SingleFlight, OthersSame
<1>4. CASE NewMonth \/ UNCHANGED vars
  BY <1>1, <1>4 DEF NewMonth, vars
<1> QED
  BY <1>2, <1>3, <1>4 DEF Next

\* The room that is left is the same after a statement that only reads.
LEMMA RoomStays ==
  ASSUME ReadOnly, NEW resource, HasRoom(resource)
  PROVE  HasRoom(resource)'
BY DEF ReadOnly, planVars, staffVars, ticketVars, HasRoom, ActivePlans, ActiveSubs, Within,
   CurrentUsage

\* A call that is made while no other request is in flight.
LEMMA CallOrderly ==
  ASSUME TypeInv, OrderlyInv, NEW r \in Requests, Call(r), orderly'
  PROVE  /\ FlagsAgree' /\ Gapless'
         /\ \A s \in Requests : req'[s] # Idle => Knows(s)'
<1>0. CallShape(r) /\ (req'[r] = Idle => InOneStepCall(r))
  BY CallShapes
<1>1. orderly /\ Alone /\ OthersSame(r)
  BY <1>0 DEF CallShape
<1>2. FlagsAgree /\ Gapless /\ \A s \in Requests \ {r} : req'[s] = Idle
  BY <1>1 DEF OrderlyInv, Alone, OthersSame
<1>3. \A e \in Emails : role[e] = "TECHNICIAN" /\ userActive[e] => techActive[e]
  BY <1>1, <1>2 DEF FlagsAgree, Alone
<1>4. role' = role /\ techActive' = techActive /\ numbers' = numbers
  BY DEF Call, CreateManager, CreateTechnician, UpdateTechnician, DeleteManager,
     RaiseTicket, CheckLimit, AssignSubscription, RenewSubscription, UpdatePlan,
     DeleteTenant, ReadOnly, staffVars, ticketVars
<1>5. ASSUME NEW e \in Emails, role[e] = "TECHNICIAN", userActive'[e]
      PROVE  userActive[e]
  <2>1. CASE \E d \in Emails : DeleteManager(r, d)
    BY <1>5, <2>1 DEF DeleteManager, TypeInv, StaffTyped
  <2>2. CASE DeleteTenant(r)
    BY <1>5, <2>2 DEF DeleteTenant
  <2>3. CASE ~(\E d \in Emails : DeleteManager(r, d)) /\ ~DeleteTenant(r)
    <3>1. userActive' = userActive
      BY <2>3 DEF Call, CreateManager, CreateTechnician, UpdateTechnician,
         RaiseTicket, CheckLimit, AssignSubscription, RenewSubscription, UpdatePlan,
         ReadOnly, staffVars
    <3> QED
      BY <1>5, <3>1
  <2> QED
    BY <2>1, <2>2, <2>3
<1>6. FlagsAgree'
  BY <1>3, <1>4, <1>5 DEF FlagsAgree
<1>7. Gapless'
  BY <1>2, <1>4 DEF Gapless
<1>8. ASSUME req'[r] # Idle
      PROVE  Knows(r)'
  <2>1. CASE /\ req'[r].step = "readUsage" /\ req'[r].op \in CreateOps
             /\ req'[r].plan \in ActivePlans /\ ReadOnly
    BY <2>1 DEF Knows, ReadOnly, planVars, ActivePlans, ActiveSubs, CreateOps
  <2>2. CASE req'[r].step = "writeFlags" /\ req'[r].op = "updateTechnician"
    BY <2>2 DEF Knows, CreateOps
  <2>3. CASE /\ req'[r].step = "createSubscription"
             /\ req'[r].op = "assignSubscription" /\ subs' = CancelAll
    <3>1. SubsTyped(subs)
      BY DEF TypeInv, PlansTyped, SubsTyped
    <3>2. ActiveSubs' = {}
      BY <2>3, <3>1, CancelTyped DEF ActiveSubs
    <3> QED
      BY <2>3, <3>2 DEF Knows, CreateOps
  <2> QED
    BY <1>0, <1>8, <2>1, <2>2, <2>3 DEF CallShape
<1> QED
  BY <1>2, <1>6, <1>7, <1>8

\* A statement of the one request in flight: the flags of a technician.
LEMMA StepFlags ==
  ASSUME TypeInv, OrderlyInv, NEW r \in Requests, Step(r) \/ Fail(r), orderly'
  PROVE  FlagsAgree'
<1>0. StepShape(r)
  BY StepShapes
<1>1. /\ orderly /\ OthersSame(r) /\ req[r] # Idle
      /\ \A s \in Requests \ {r} : req[s] = Idle
  BY <1>0 DEF StepShape, OrderlyInv, SingleFlight
<1>2. FlagsAgree /\ Knows(r) /\ OpOfStep(r)
  BY <1>1 DEF OrderlyInv, TypeInv, ReqsTyped
<1>3. ASSUME NEW e \in Emails, role[e] = "TECHNICIAN", userActive[e]
      PROVE  \/ techActive[e]
             \/ req[r].email = e /\ req[r].step \in {"writeUser", "writeTechnician"}
  BY <1>1, <1>2, <1>3 DEF FlagsAgree
<1>4. ~Fail(r)
  BY DEF Fail
<1>5. /\ role \in [Emails -> {"absent", "MANAGER", "TECHNICIAN"}]
      /\ userActive \in [Emails -> BOOLEAN] /\ techActive \in [Emails -> BOOLEAN]
  BY DEF TypeInv, StaffTyped
<1> DEFINE d == req[r].email
<1>6. CASE WriteTechnician(r)
  <2>1. /\ role' = role /\ userActive' = userActive /\ d \in Emails
        /\ techActive' = [techActive EXCEPT ![d] = req[r].flag]
        /\ req[r].step \in {"writeFlags", "writeTechnician"}
    BY <1>2, <1>6 DEF WriteTechnician, OpOfStep, WriteSteps
  <2>2. techActive'[d] = req[r].flag /\ \A e \in Emails \ {d} : techActive'[e] = techActive[e]
    BY <1>5, <2>1
  <2>3. CASE req[r].step = "writeFlags"
    <3>1. req'[r] # Idle /\ req'[r].step = "writeUser" /\ req'[r].email = d
      BY <1>1, <1>6, <2>3, ContinueRecord DEF WriteTechnician
    <3> HIDE DEF d
    <3> QED
      BY <1>3, <2>1, <2>2, <2>3, <3>1 DEF FlagsAgree, d
  <2>4. CASE req[r].step = "writeTechnician"
    <3>1. userActive[d] = req[r].flag
      BY <1>2, <2>4 DEF Knows
    <3> HIDE DEF d
    <3> QED
      BY <1>3, <2>1, <2>2, <3>1 DEF FlagsAgree, d
  <2> QED
    BY <2>1, <2>3, <2>4
<1>7. CASE WriteUser(r)
  <2>1. /\ role' = role /\ techActive' = techActive /\ d \in Emails
        /\ userActive' = [userActive EXCEPT ![d] = req[r].flag]
        /\ req[r].step \in {"writeFlags", "writeUser"}
    BY <1>2, <1>7 DEF WriteUser, OpOfStep, WriteSteps
  <2>2. userActive'[d] = req[r].flag /\ \A e \in Emails \ {d} : userActive'[e] = userActive[e]
    BY <1>5, <2>1
  <2>3. CASE req[r].step = "writeFlags"
    <3>1. req'[r] # Idle /\ req'[r].step = "writeTechnician" /\ req'[r].email = d
      BY <1>1, <1>7, <2>3, ContinueRecord DEF WriteUser
    <3> HIDE DEF d
    <3> QED
      BY <1>3, <2>1, <2>2, <2>3, <3>1 DEF FlagsAgree, d
  <2>4. CASE req[r].step = "writeUser"
    <3>1. techActive[d] = req[r].flag
      BY <1>2, <2>4 DEF Knows
    <3> HIDE DEF d
    <3> QED
      BY <1>3, <2>1, <2>2, <3>1 DEF FlagsAgree, d
  <2> QED
    BY <2>1, <2>3, <2>4
<1>8. CASE ~WriteTechnician(r) /\ ~WriteUser(r)
  <2>1. req[r].step \notin {"writeUser", "writeTechnician"}
    BY <1>2, <1>4, <1>8 DEF Step, OpOfStep, WriteSteps, CheckLimitReadUsage, CreateReadUser,
       CreateManagerCommit, CreateTechnicianCommit, RaiseTicketReadCount, RaiseTicketCommit,
       AssignSubscriptionCreate, At
  <2>2. \A e \in Emails : role[e] = "TECHNICIAN" /\ userActive[e] => techActive[e]
    BY <1>3, <2>1
  <2>3. CASE CreateManagerCommit(r) /\ role[d] = "absent"
    <3>1. /\ role' = [role EXCEPT ![d] = "MANAGER"]
          /\ userActive' = [userActive EXCEPT ![d] = TRUE] /\ techActive' = techActive
          /\ d \in Emails
      BY <1>2, <2>3 DEF CreateManagerCommit, At, OpOfStep
    <3> HIDE DEF d
    <3> QED
      BY <1>5, <2>2, <3>1 DEF FlagsAgree
  <2>4. CASE CreateTechnicianCommit(r) /\ role[d] = "absent"
    <3>1. /\ role' = [role EXCEPT ![d] = "TECHNICIAN"]
          /\ userActive' = [userActive EXCEPT ![d] = TRUE]
          /\ techActive' = [techActive EXCEPT ![d] = TRUE]
          /\ d \in Emails
      BY <1>2, <2>4 DEF CreateTechnicianCommit, At, OpOfStep
    <3> HIDE DEF d
    <3> QED
      BY <1>5, <2>2, <3>1 DEF FlagsAgree
  <2>5. CASE ~((CreateManagerCommit(r) \/ CreateTechnicianCommit(r)) /\ role[d] = "absent")
    <3>1. role' = role /\ userActive' = userActive /\ techActive' = techActive
      BY <1>4, <1>8, <2>5 DEF Step, CheckLimitReadUsage, CreateReadUser, CreateManagerCommit,
         CreateTechnicianCommit, RaiseTicketReadCount, RaiseTicketCommit,
         AssignSubscriptionCreate, ReadOnly, staffVars
    <3> QED
      BY <2>2, <3>1 DEF FlagsAgree
  <2> QED
    BY <2>3, <2>4, <2>5
<1> QED
  BY <1>6, <1>7, <1>8

\* What the request knows after its statement.
LEMMA StepKnows ==
  ASSUME TypeInv, OrderlyInv, NEW r \in Requests, Step(r) \/ Fail(r), orderly'
  PROVE  Gapless' /\ \A s \in Requests : req'[s] # Idle => Knows(s)'
<1>0. StepShape(r)
  BY StepShapes
<1>1. /\ orderly /\ OthersSame(r) /\ req[r] # Idle
      /\ \A s \in Requests \ {r} : req[s] = Idle
  BY <1>0 DEF StepShape, OrderlyInv, SingleFlight
<1>2. Gapless /\ Knows(r) /\ OpOfStep(r)
  BY <1>1 DEF OrderlyInv, TypeInv, ReqsTyped
<1>3. \A s \in Requests \ {r} : req'[s] = Idle
  BY <1>1 DEF OthersSame
<1>4. Gapless'
  <2>1. CASE RaiseTicketCommit(r)
    <3>1. req[r].number = Len(numbers) + 1 /\ numbers' = Append(numbers, req[r].number)
      BY <1>2, <2>1 DEF RaiseTicketCommit, At, Knows
    <3>2. numbers \in Seq(Nat)
      BY DEF TypeInv, TicketsTyped
    <3>3. numbers' = Append(numbers, Len(numbers) + 1) /\ Len(numbers) \in Nat
      BY <3>1, <3>2
    <3> QED
      BY <1>2, <3>2, <3>3 DEF Gapless
  <2>2. CASE ~RaiseTicketCommit(r)
    <3>1. numbers' = numbers
      BY <2>2 DEF Step, Fail, CheckLimitReadUsage, CreateReadUser, CreateManagerCommit,
         CreateTechnicianCommit, RaiseTicketReadCount, AssignSubscriptionCreate,
         WriteTechnician, WriteUser, ReadOnly, ticketVars
    <3> QED
      BY <1>2, <3>1 DEF Gapless
  <2> QED
    BY <2>1, <2>2
<1>5. ASSUME req'[r] # Idle
      PROVE  Knows(r)'
  <2>0. GoesOn(r)
    BY <1>0, <1>5 DEF StepShape
  <2>1. CASE /\ CheckLimitReadUsage(r) /\ Within(req[r].plan, ResourceOf(req[r].op))
             /\ req'[r].step \in {"readUser", "readCount"} /\ req[r].step = "readUsage"
    <3>1. ReadOnly /\ req'[r].op = req[r].op /\ req[r].op \in CreateOps
      BY <1>2, <2>0, <2>1 DEF CheckLimitReadUsage, GoesOn, OpOfStep
    <3>2. ASSUME NEW resource \in Resources, resource = ResourceOf(req'[r].op)
          PROVE  HasRoom(resource)'
      <4>1. HasRoom(resource)
        BY <1>2, <2>1, <3>1, <3>2 DEF Knows, HasRoom
      <4> QED
        BY <3>1, <4>1, RoomStays
    <3> QED
      BY <2>1, <3>1, <3>2 DEF Knows, CreateOps
  <2>2. CASE /\ CreateReadUser(r) /\ req'[r].step = "commit" /\ req[r].step = "readUser"
             /\ req[r].op # "raiseTicket"
    <3>1. /\ ReadOnly /\ req'[r].op = req[r].op
          /\ req[r].op \in {"createManager", "createTechnician"}
      BY <2>0, <2>2 DEF CreateReadUser, GoesOn, At
    <3>2. ASSUME NEW resource \in Resources, resource = ResourceOf(req'[r].op)
          PROVE  HasRoom(resource)'
      <4>1. HasRoom(resource)
        BY <1>2, <2>2, <3>1, <3>2 DEF Knows, CreateOps
      <4> QED
        BY <3>1, <4>1, RoomStays
    <3> QED
      BY <2>2, <3>1, <3>2 DEF Knows, CreateOps
  <2>3. CASE /\ RaiseTicketReadCount(r) /\ req'[r].step = "commit"
             /\ req[r].op = "raiseTicket" /\ req[r].step = "readCount"
             /\ req'[r].number = Len(numbers) + 1
    <3>1. ReadOnly /\ numbers' = numbers /\ req'[r].op = "raiseTicket"
      BY <2>0, <2>3 DEF RaiseTicketReadCount, GoesOn, ReadOnly, ticketVars
    <3>2. ASSUME NEW resource \in Resources, resource = ResourceOf(req'[r].op)
          PROVE  HasRoom(resource)'
      <4>1. HasRoom(resource)
        BY <1>2, <2>3, <3>1, <3>2 DEF Knows, CreateOps
      <4> QED
        BY <3>1, <4>1, RoomStays
    <3> QED
      BY <2>3, <3>1, <3>2 DEF Knows, CreateOps
  <2>4. CASE WriteTechnician(r) /\ req'[r].step = "writeUser" /\ req[r].step = "writeFlags"
    <3>1. /\ req[r].op = "updateTechnician" /\ req[r].email \in Emails
          /\ techActive' = [techActive EXCEPT ![req[r].email] = req[r].flag]
      BY <1>2, <2>4 DEF WriteTechnician, OpOfStep, WriteSteps
    <3>2. techActive'[req[r].email] = req[r].flag
      BY <3>1 DEF TypeInv, StaffTyped
    <3> QED
      BY <2>0, <2>4, <3>1, <3>2 DEF Knows, GoesOn, CreateOps
  <2>5. CASE WriteUser(r) /\ req'[r].step = "writeTechnician" /\ req[r].step = "writeFlags"
    <3>1. /\ req[r].op = "updateTechnician" /\ req[r].email \in Emails
          /\ userActive' = [userActive EXCEPT ![req[r].email] = req[r].flag]
      BY <1>2, <2>5 DEF WriteUser, OpOfStep, WriteSteps
    <3>2. userActive'[req[r].email] = req[r].flag
      BY <3>1 DEF TypeInv, StaffTyped
    <3> QED
      BY <2>0, <2>5, <3>1, <3>2 DEF Knows, GoesOn, CreateOps
  <2> QED
    BY <2>0, <2>1, <2>2, <2>3, <2>4, <2>5 DEF GoesOn
<1> QED
  BY <1>3, <1>4, <1>5

LEMMA NextOrderly ==
  ASSUME TypeInv, OrderlyInv, [Next]_vars
  PROVE  OrderlyInv'
<1>0. SingleFlight'
  BY NextSingleFlight DEF OrderlyInv
<1>1. CASE UNCHANGED vars
  <2>1. /\ UNCHANGED <<req, orderly, numbers, role, userActive, techActive>>
        /\ UNCHANGED <<subs, monthly>>
    BY <1>1 DEF vars
  <2>2. ActivePlans' = ActivePlans /\ ActiveSubs' = ActiveSubs
    BY <2>1 DEF ActivePlans, ActiveSubs
  <2>3. ASSUME NEW resource \in Resources, HasRoom(resource)
        PROVE  HasRoom(resource)'
    BY <2>1, <2>2, <2>3 DEF HasRoom, Within, CurrentUsage
  <2>4. ASSUME NEW r \in Requests, Knows(r) PROVE Knows(r)'
    BY <2>1, <2>2, <2>3, <2>4 DEF Knows
  <2> QED
    BY <1>0, <2>1, <2>4 DEF OrderlyInv, FlagsAgree, Gapless
<1>2. CASE NewMonth
  <2>1. /\ monthly > 0 /\ monthly' = 0 /\ monthly \in Nat
        /\ UNCHANGED <<planVars, staffVars, numbers, req, orderly>>
    BY <1>2 DEF NewMonth, TypeInv, TicketsTyped
  <2>2. ASSUME NEW resource \in Resources, HasRoom(resource)
        PROVE  HasRoom(resource)'
    <3>1. PICK plan \in ActivePlans : Within(plan, resource)
      BY <2>2 DEF HasRoom
    <3>2. plan \in ActivePlans'
      BY <2>1 DEF planVars, ActivePlans, ActiveSubs
    <3>3. Limit[plan][resource] \in Nat \cup {Unlimited}
      BY LimitAssumption DEF ActivePlans, ActiveSubs, TypeInv, PlansTyped, Subscription
    <3>4. Within(plan, resource)'
      <4>1. CASE resource = "ticket"
        BY <2>1, <3>1, <3>3, <4>1 DEF Within, CurrentUsage
      <4>2. CASE resource # "ticket"
        BY <2>1, <3>1, <4>2 DEF Within, CurrentUsage, Resources, staffVars
      <4> QED
        BY <4>1, <4>2
    <3> QED
      BY <3>2, <3>4 DEF HasRoom
  <2>3. ASSUME NEW r \in Requests, Knows(r) PROVE Knows(r)'
    <3>1. /\ UNCHANGED <<req, numbers, techActive, userActive>>
          /\ ActivePlans' = ActivePlans /\ ActiveSubs' = ActiveSubs
      BY <2>1 DEF planVars, staffVars, ActivePlans, ActiveSubs
    <3> QED
      BY <2>2, <2>3, <3>1 DEF Knows
  <2> QED
    BY <1>0, <2>1, <2>3 DEF OrderlyInv, FlagsAgree, Gapless, staffVars
<1>3. ASSUME NEW r \in Requests, Call(r) PROVE OrderlyInv'
  BY <1>0, <1>3, CallOrderly DEF OrderlyInv
<1>4. ASSUME NEW r \in Requests, Step(r) \/ Fail(r) PROVE OrderlyInv'
  BY <1>0, <1>4, StepFlags, StepKnows DEF OrderlyInv
<1> QED
  BY <1>1, <1>2, <1>3, <1>4 DEF Next

LEMMA AlwaysOrderly == Spec => [](TypeInv /\ OrderlyInv)
<1>1. Init => TypeInv /\ OrderlyInv
  BY InitTypes DEF Init, OrderlyInv, SingleFlight, FlagsAgree, Gapless
<1>2. TypeInv /\ OrderlyInv /\ [Next]_vars => TypeInv' /\ OrderlyInv'
  BY NextTypes, NextOrderly
<1> QED
  BY <1>1, <1>2, PTL DEF Spec

-----------------------------------------------------------------------------
(* What is shown *)

\* RaiseTicket numbers without a gap while requests come one at a time; when they
\* race, the count that was read may be repeated but is never ahead.
THEOREM TicketsAreNumbered == Spec => []TicketsNumbered
<1>1. Init => TypeInv /\ NumbersInv
  BY InitTypes DEF Init, NumbersInv, At
<1>2. TypeInv /\ NumbersInv /\ [Next]_vars => TypeInv' /\ NumbersInv'
  BY NextTypes, NextNumbers
<1>3. NumbersInv /\ OrderlyInv => TicketsNumbered
  BY DEF NumbersInv, OrderlyInv, Gapless, TicketsNumbered
<1> QED
  BY <1>1, <1>2, <1>3, AlwaysOrderly, PTL DEF Spec

\* While requests come one at a time, the flags that updateTechnician,
\* deleteTechnician and deleteTenant write leave no technician who may log in
\* and may not be assigned.
THEOREM ActiveUsersAreAssignable == Spec => []ActiveUserIsActiveTechnician
<1>1. OrderlyInv => ActiveUserIsActiveTechnician
  BY DEF OrderlyInv, FlagsAgree, ActiveUserIsActiveTechnician
<1> QED
  BY <1>1, AlwaysOrderly, PTL

\* assignSubscription that runs alone ends with the plan it assigned as the only
\* one that applies.
THEOREM AssignedPlansApply == Spec => AssignedPlanApplies
<1> DEFINE Assigned ==
      \A r \in Requests :
        orderly' /\ At(r, "assignSubscription", "createSubscription") /\ req'[r] = Idle
        => ActivePlans' = {req[r].plan}
<1>1. ASSUME TypeInv, OrderlyInv, [Next]_vars
      PROVE  Assigned
  <2> SUFFICES ASSUME NEW r \in Requests, orderly', req'[r] = Idle,
                      At(r, "assignSubscription", "createSubscription")
               PROVE  ActivePlans' = {req[r].plan}
    OBVIOUS
  <2>1. req[r] # Idle /\ req[r].op = "assignSubscription"
        /\ req[r].step = "createSubscription"
    BY DEF At
  <2>2. ASSUME NEW s \in Requests, Call(s) PROVE FALSE
    <3>1. req[s] = Idle /\ OthersSame(s)
      BY <1>1, <2>2, CallShapes DEF CallShape
    <3> QED
      BY <2>1, <3>1 DEF OthersSame
  <2>3. ~NewMonth /\ ~UNCHANGED vars
    BY <2>1 DEF NewMonth, vars
  <2>4. PICK s \in Requests : Step(s) \/ Fail(s)
    BY <1>1, <2>2, <2>3 DEF Next
  <2>5. s = r /\ orderly
    BY <1>1, <2>1, <2>4, StepShapes DEF StepShape, OthersSame
  <2>6. AssignSubscriptionCreate(r)
    <3>1. ~Fail(r)
      BY DEF Fail
    <3> QED
      BY <2>1, <2>4, <2>5, <3>1 DEF Step, CheckLimitReadUsage, CreateReadUser,
         CreateManagerCommit, CreateTechnicianCommit, RaiseTicketReadCount,
         RaiseTicketCommit, WriteTechnician, WriteUser, At
  <2>7. ActiveSubs = {}
    BY <1>1, <2>1, <2>5 DEF OrderlyInv, Knows
  <2>8. subs' = subs \cup {[id |-> Cardinality(subs) + 1, plan |-> req[r].plan,
                            status |-> "ACTIVE"]}
    BY <2>6 DEF AssignSubscriptionCreate
  <2>9. ActiveSubs' = {[id |-> Cardinality(subs) + 1, plan |-> req[r].plan,
                        status |-> "ACTIVE"]}
    BY <2>7, <2>8 DEF ActiveSubs
  <2> QED
    BY <2>9 DEF ActivePlans
<1>2. Spec => [][Assigned]_vars
  BY <1>1, AlwaysOrderly, PTL DEF Spec
<1> QED
  BY <1>2 DEF AssignedPlanApplies

\* The users who count against a limit are finitely many, and one is counted at
\* most when nobody else changes.
LEMMA OneMoreUser ==
  ASSUME TypeInv, NEW e, NEW resource \in {"manager", "technician"},
         \A d \in Emails \ {e} : /\ role'[d] = role[d] /\ userActive'[d] = userActive[d]
                                 /\ techActive'[d] = techActive[d]
  PROVE  /\ CurrentUsage(resource) \in Nat /\ CurrentUsage(resource)' \in Nat
         /\ CurrentUsage(resource)' <= CurrentUsage(resource) + 1
<1>0. IsFiniteSet({d \in Emails : role[d] # "absent"})
  BY DEF TypeInv, StaffTyped
<1>1. ASSUME NEW S \in SUBSET {d \in Emails : role[d] # "absent"}, NEW T, S \ {e} = T \ {e}
      PROVE  /\ Cardinality(S) \in Nat /\ Cardinality(T) \in Nat
             /\ Cardinality(T) <= Cardinality(S) + 1
  <2>1. IsFiniteSet(S)
    BY <1>0, PartCount
  <2> QED
    BY <1>1, <2>1, CountChange
<1>2. CASE resource = "manager"
  <2> DEFINE S == {d \in Emails : role[d] = "MANAGER" /\ userActive[d]}
             T == {d \in Emails : role'[d] = "MANAGER" /\ userActive'[d]}
  <2>1. S \in SUBSET {d \in Emails : role[d] # "absent"} /\ S \ {e} = T \ {e}
    OBVIOUS
  <2>2. CurrentUsage(resource) = Cardinality(S) /\ CurrentUsage(resource)' = Cardinality(T)
    BY <1>2 DEF CurrentUsage
  <2> HIDE DEF S, T
  <2> QED
    BY <1>1, <2>1, <2>2
<1>3. CASE resource = "technician"
  <2> DEFINE S == {d \in Emails : role[d] = "TECHNICIAN" /\ techActive[d]}
             T == {d \in Emails : role'[d] = "TECHNICIAN" /\ techActive'[d]}
  <2>1. S \in SUBSET {d \in Emails : role[d] # "absent"} /\ S \ {e} = T \ {e}
    OBVIOUS
  <2>2. CurrentUsage(resource) = Cardinality(S) /\ CurrentUsage(resource)' = Cardinality(T)
    BY <1>3 DEF CurrentUsage
  <2> HIDE DEF S, T
  <2> QED
    BY <1>1, <2>1, <2>2
<1> QED
  BY <1>2, <1>3

\* A call and a new month only lower the usage: users are deactivated.
LEMMA UsageFalls ==
  ASSUME TypeInv, NEW resource \in Resources,
         NewMonth \/ UNCHANGED vars \/ \E r \in Requests : Call(r)
  PROVE  /\ CurrentUsage(resource) \in Nat /\ CurrentUsage(resource)' \in Nat
         /\ CurrentUsage(resource)' <= CurrentUsage(resource)
<1>0. monthly \in Nat /\ IsFiniteSet({d \in Emails : role[d] # "absent"})
  BY DEF TypeInv, TicketsTyped, StaffTyped
<1>1. /\ monthly' \in Nat /\ monthly' <= monthly /\ role' = role /\ techActive' = techActive
      /\ \A e \in Emails : userActive'[e] => userActive[e]
  <2>1. CASE NewMonth \/ UNCHANGED vars
    BY <1>0, <2>1 DEF NewMonth, vars, staffVars
  <2>2. ASSUME NEW r \in Requests, Call(r)
        PROVE  /\ monthly' = monthly /\ role' = role /\ techActive' = techActive
               /\ \A e \in Emails : userActive'[e] => userActive[e]
    <3>1. CASE \E d \in Emails : DeleteManager(r, d)
      BY <3>1 DEF DeleteManager, TypeInv, StaffTyped, ticketVars
    <3>2. CASE DeleteTenant(r)
      BY <3>2 DEF DeleteTenant, ticketVars
    <3>3. CASE ~(\E d \in Emails : DeleteManager(r, d)) /\ ~DeleteTenant(r)
      BY <2>2, <3>3 DEF Call, CreateManager, CreateTechnician, UpdateTechnician,
         RaiseTicket, CheckLimit, AssignSubscription, RenewSubscription, UpdatePlan,
         ReadOnly, staffVars, ticketVars
    <3> QED
      BY <3>1, <3>2, <3>3
  <2> QED
    BY <1>0, <2>1, <2>2
<1>2. CASE resource = "ticket"
  BY <1>0, <1>1, <1>2 DEF CurrentUsage
<1>3. CASE resource = "technician"
  <2> DEFINE S == {d \in Emails : role[d] = "TECHNICIAN" /\ techActive[d]}
  <2>1. Cardinality(S) \in Nat
    BY <1>0, PartCount
  <2>2. CurrentUsage(resource) = Cardinality(S) /\ CurrentUsage(resource)' = Cardinality(S)
    BY <1>1, <1>3 DEF CurrentUsage
  <2> QED
    BY <2>1, <2>2
<1>4. CASE resource = "manager"
  <2> DEFINE S == {d \in Emails : role[d] = "MANAGER" /\ userActive[d]}
             T == {d \in Emails : role'[d] = "MANAGER" /\ userActive'[d]}
  <2>1. S \in SUBSET {d \in Emails : role[d] # "absent"} /\ T \in SUBSET S
    BY <1>1
  <2>2. CurrentUsage(resource) = Cardinality(S) /\ CurrentUsage(resource)' = Cardinality(T)
    BY <1>4 DEF CurrentUsage
  <2> HIDE DEF S, T
  <2>3. IsFiniteSet(S)
    BY <1>0, <2>1, PartCount
  <2> QED
    BY <2>1, <2>2, <2>3, PartCount
<1> QED
  BY <1>2, <1>3, <1>4 DEF Resources

\* createManager, createTechnician and raiseTicket, when nothing else is in flight,
\* leave the usage within the limit of a plan that applies: what checkLimit
\* compared still holds when they insert, and they insert one.
THEOREM LimitsAreRespected == Spec => LimitRespected
<1> DEFINE Respected ==
      \A r \in Requests, op \in CreateOps, resource \in Resources :
        /\ orderly
        /\ At(r, op, "commit") /\ resource = ResourceOf(op)
        /\ CurrentUsage(resource)' > CurrentUsage(resource)
        => \E plan \in ActivePlans : WithinShown(plan, resource)'
<1>1. ASSUME TypeInv, OrderlyInv, [Next]_vars
      PROVE  Respected
  <2> SUFFICES ASSUME NEW r \in Requests, NEW op \in CreateOps, NEW resource \in Resources,
                      orderly, At(r, op, "commit"), resource = ResourceOf(op),
                      CurrentUsage(resource)' > CurrentUsage(resource)
               PROVE  \E plan \in ActivePlans : WithinShown(plan, resource)'
    OBVIOUS
  <2>1. ~(NewMonth \/ UNCHANGED vars \/ \E s \in Requests : Call(s))
    <3>1. SUFFICES ASSUME NewMonth \/ UNCHANGED vars \/ \E s \in Requests : Call(s)
                   PROVE  FALSE
      OBVIOUS
    <3>2. /\ CurrentUsage(resource) \in Nat /\ CurrentUsage(resource)' \in Nat
          /\ CurrentUsage(resource)' <= CurrentUsage(resource)
      BY <1>1, <3>1, UsageFalls
    <3> QED
      BY <3>2
  <2>2. PICK s \in Requests : Step(s) \/ Fail(s)
    BY <1>1, <2>1 DEF Next
  <2>3. s = r
    BY <1>1, <2>2, StepShapes DEF StepShape, At, OrderlyInv, SingleFlight
  <2>4. req[r] # Idle /\ req[r].op = op /\ req[r].step = "commit" /\ OpOfStep(r)
    BY <1>1 DEF At, TypeInv, ReqsTyped
  <2>5. /\ subs' = subs
        /\ CurrentUsage(resource) \in Nat /\ CurrentUsage(resource)' \in Nat
        /\ CurrentUsage(resource)' <= CurrentUsage(resource) + 1
    <3>1. CASE op = "raiseTicket"
      <4>1. resource = "ticket" /\ monthly \in Nat
        BY <1>1, <3>1 DEF ResourceOf, TypeInv, TicketsTyped
      <4>2. RaiseTicketCommit(r) \/ Fail(r)
        BY <2>2, <2>3, <2>4, <3>1 DEF Step, CheckLimitReadUsage, CreateReadUser,
           CreateManagerCommit, CreateTechnicianCommit, RaiseTicketReadCount,
           AssignSubscriptionCreate, WriteTechnician, WriteUser, At
      <4>3. subs' = subs /\ monthly' \in {monthly, monthly + 1}
        BY <4>2 DEF RaiseTicketCommit, Fail, ReadOnly, planVars, ticketVars
      <4> QED
        BY <4>1, <4>3 DEF CurrentUsage
    <3>2. CASE op # "raiseTicket"
      <4>1. resource \in {"manager", "technician"}
        BY <3>2 DEF ResourceOf, CreateOps
      <4>2. CreateManagerCommit(r) \/ CreateTechnicianCommit(r) \/ Fail(r)
        BY <2>2, <2>3, <2>4, <3>2 DEF Step, CheckLimitReadUsage, CreateReadUser,
           RaiseTicketReadCount, RaiseTicketCommit, AssignSubscriptionCreate,
           WriteTechnician, WriteUser, At
      <4>3. /\ subs' = subs
            /\ \A d \in Emails \ {req[r].email} :
                 /\ role'[d] = role[d] /\ userActive'[d] = userActive[d]
                 /\ techActive'[d] = techActive[d]
        BY <1>1, <4>2 DEF CreateManagerCommit, CreateTechnicianCommit, Fail, ReadOnly,
           planVars, staffVars, TypeInv, StaffTyped
      <4> QED
        BY <1>1, <4>1, <4>3, OneMoreUser
    <3> QED
      BY <3>1, <3>2
  <2>6. HasRoom(resource)
    BY <1>1, <2>4 DEF OrderlyInv, Knows
  <2>7. PICK plan \in ActivePlans : Within(plan, resource)
    BY <2>6 DEF HasRoom
  <2>8. Limit[plan][resource] \in Nat \cup {Unlimited}
    BY <1>1, LimitAssumption DEF ActivePlans, ActiveSubs, TypeInv, PlansTyped, Subscription
  <2>9. \/ Limit[plan][resource] = Unlimited
        \/ CurrentUsage(resource)' <= Limit[plan][resource]
    BY <2>5, <2>7, <2>8 DEF Within
  <2>10. WithinShown(plan, resource)'
    BY <2>9 DEF WithinShown, PlanUsage
  <2> QED
    BY <2>10
<1>2. Spec => [][Respected]_vars
  BY <1>1, AlwaysOrderly, PTL DEF Spec
<1> QED
  BY <1>2 DEF LimitRespected
=============================================================================
