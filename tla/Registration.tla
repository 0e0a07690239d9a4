----------------------------- MODULE Registration -----------------------------
(***************************************************************************)
(* One-time codes by email: the registration of a customer and the first   *)
(* half of a customer's forgotten password, as AuthService runs them for   *)
(* one tenant.  Both keep their codes in the EmailOtp table: a call for a  *)
(* code deletes the earlier rows and inserts one, a call with a code finds *)
(* the newest unverified row, counts the attempt, and compares.            *)
(*                                                                         *)
(* Each statement is an action of its own; the account, the customer and   *)
(* the verified flag are written in one transaction.  An account may       *)
(* change in between: a customer may move to another email or choose       *)
(* another password, and staff come and go; each is one statement.  A call *)
(* that the status of the tenant refuses changes nothing and does not      *)
(* appear.                                                                 *)
(***************************************************************************)
EXTENDS Naturals, FiniteSets

CONSTANTS
  Emails,
  Details,      \* what a customer may register with: name, phone, password
  NoDetails,    \* a FORGOT_PASSWORD code carries none
  NoAccount,    \* no User row has the email
  Staff,        \* the User row with the email is not a customer's
  Requests,     \* the requests that can be in flight together
  MaxAttempts,  \* attempts a code allows (5)
  Cooldown,     \* ticks before a code may be sent again (30 seconds)
  Lifetime,     \* ticks a code lives (5 minutes)
  MaxOtps       \* bound: codes ever issued

ASSUME AccountAssumption ==
  /\ NoAccount # Staff
  /\ {NoAccount, Staff, NoDetails} \cap Details = {}
ASSUME TimesAssumption ==
  /\ MaxAttempts \in Nat \ {0}
  /\ Lifetime \in Nat
  /\ Cooldown \in 1..Lifetime
ASSUME RequestsAssumption == IsFiniteSet(Requests)
ASSUME OtpsAssumption == MaxOtps \in Nat

VARIABLES
  account,  \* the User row of each email of the tenant
  otps,     \* the EmailOtp rows; a row's id tells its age and its code
  issued,   \* the codes issued so far
  req,      \* what each request in flight is doing
  granted,  \* history: the reset tokens each code was exchanged for
  created,  \* history: the accounts each code created
  orderly   \* history: no two requests overlapped and none failed half-way

vars == <<account, otps, issued, req, granted, created, orderly>>

Purposes == {"REGISTRATION", "FORGOT_PASSWORD"}

EmailOtp ==
  [id : 1..MaxOtps, email : Emails, purpose : Purposes,
   details : Details \cup {NoDetails}, attempts : Nat, age : 0..Lifetime,
   isVerified : BOOLEAN]

IsCustomer(e) == account[e] \in Details

\* findFirst with orderBy createdAt desc.
Newest(S) == CHOOSE o \in S : \A p \in S : p.id <= o.id

\* The unverified rows verifyOtp and resendOtp look at: of either purpose.
Pending(e) == {o \in otps : o.email = e /\ ~o.isVerified}

PendingForgot(e) == {o \in Pending(e) : o.purpose = "FORGOT_PASSWORD"}

RowOf(id) == {o \in otps : o.id = id}

-----------------------------------------------------------------------------
(* Requests *)

Idle == [op |-> "idle"]

\* A request in flight: the email and the details it works with, the row it
\* found (0 for none), and the code its body gives (0 for a wrong one).
InFlight ==
  [op : {"customerRegister", "resendOtp", "verifyOtp",
         "customerForgotPassword", "verifyForgotPasswordOtp"},
   step : {"readLast", "invalidate", "create", "count", "readUser", "commit",
           "mark", "grant"},
   email : Emails, details : Details \cup {NoDetails},
   otp : 0..MaxOtps, code : 0..MaxOtps]

Alone == \A r \in Requests : req[r] = Idle

Start(r, op, step, e, d, id, code) ==
  /\ req[r] = Idle
  /\ req' = [req EXCEPT ![r] = [op |-> op, step |-> step, email |-> e,
                                details |-> d, otp |-> id, code |-> code]]
  /\ orderly' = (orderly /\ Alone)

At(r, op, step) == req[r] # Idle /\ req[r].op = op /\ req[r].step = step

Continue(r, step) ==
  /\ req' = [req EXCEPT ![r].step = step]
  /\ UNCHANGED orderly

Finish(r) ==
  /\ req' = [req EXCEPT ![r] = Idle]
  /\ UNCHANGED orderly

ReadOnly == UNCHANGED <<account, otps, issued, granted, created>>

-----------------------------------------------------------------------------
(* Asking for a code *)

\* customerRegister refuses an email of a customer.
CustomerRegister(r, e, d) ==
  /\ ~IsCustomer(e)
  /\ Start(r, "customerRegister", "invalidate", e, d, 0, 0)
  /\ ReadOnly

ResendOtp(r, e) ==
  /\ ~IsCustomer(e)
  /\ Start(r, "resendOtp", "readLast", e, NoDetails, 0, 0)
  /\ ReadOnly

\* The last row gives the details, and the time of the last mail.
ResendOtpReadLast(r) ==
  LET pending == Pending(req[r].email)
      last == Newest(pending)
      allowed == pending # {} /\ last.age >= Cooldown
  IN
  /\ At(r, "resendOtp", "readLast")
  /\ \/ /\ allowed
        /\ req' = [req EXCEPT ![r].step = "invalidate",
                              ![r].details = last.details]
        /\ UNCHANGED orderly
     \/ ~allowed /\ Finish(r)
  /\ ReadOnly

CustomerForgotPassword(r, e) ==
  /\ IsCustomer(e)
  /\ Start(r, "customerForgotPassword", "readLast", e, NoDetails, 0, 0)
  /\ ReadOnly

\* Here a first code needs no earlier row.
CustomerForgotPasswordReadLast(r) ==
  LET pending == PendingForgot(req[r].email)
      allowed == \A o \in pending : o = Newest(pending) => o.age >= Cooldown
  IN
  /\ At(r, "customerForgotPassword", "readLast")
  /\ \/ allowed /\ Continue(r, "invalidate")
     \/ ~allowed /\ Finish(r)
  /\ ReadOnly

RegistrationOps == {"customerRegister", "resendOtp"}

\* invalidatePreviousOtps that spares the codes that still live.
InvalidateExpiredOtps(r) ==
  /\ \E op \in RegistrationOps : At(r, op, "invalidate")
  /\ otps' = {o \in otps : o.email # req[r].email \/ o.age < Lifetime}
  /\ Continue(r, "create")
  /\ UNCHANGED <<account, issued, granted, created>>

\* invalidatePreviousOtps deletes the rows of both purposes.
InvalidatePreviousOtps(r) ==
  /\ \E op \in RegistrationOps : At(r, op, "invalidate")
  /\ otps' = {o \in otps : o.email # req[r].email}
  /\ Continue(r, "create")
  /\ UNCHANGED <<account, issued, granted, created>>

\* customerForgotPassword deletes its own.
InvalidateForgotOtps(r) ==
  /\ At(r, "customerForgotPassword", "invalidate")
  /\ otps' = {o \in otps : \/ o.email # req[r].email
                           \/ o.purpose # "FORGOT_PASSWORD"}
  /\ Continue(r, "create")
  /\ UNCHANGED <<account, issued, granted, created>>

\* emailOtp.create; the mail with the code follows, and when it cannot be
\* sent the row stays.
CreateOtp(r) ==
  LET q == req[r] IN
  /\ \E op \in RegistrationOps \cup {"customerForgotPassword"} :
       At(r, op, "create")
  /\ issued' = issued + 1
  /\ otps' = otps \cup
       {[id |-> issued + 1, email |-> q.email,
         purpose |-> IF q.op \in RegistrationOps THEN "REGISTRATION"
                     ELSE "FORGOT_PASSWORD",
         details |-> q.details, attempts |-> 0, age |-> 0,
         isVerified |-> FALSE]}
  /\ Finish(r)
  /\ UNCHANGED <<account, granted, created>>

-----------------------------------------------------------------------------
(* Coming back with the code *)

\* attempts > 5 in place of attempts >= 5.
AttemptsLeftOffByOne(o) == o.attempts <= MaxAttempts

AttemptsLeft(o) == o.attempts < MaxAttempts

\* The row is read whole; the checks that follow use what was read.
VerifyOtp(r, e, code) ==
  /\ Pending(e) # {}
  /\ LET o == Newest(Pending(e)) IN
       /\ AttemptsLeft(o)
       /\ Start(r, "verifyOtp", "count", e, o.details, o.id, code)
  /\ ReadOnly

VerifyForgotPasswordOtp(r, e, code) ==
  /\ PendingForgot(e) # {}
  /\ LET o == Newest(PendingForgot(e)) IN
       /\ AttemptsLeft(o)
       /\ Start(r, "verifyForgotPasswordOtp", "count", e, NoDetails, o.id, code)
  /\ ReadOnly

\* The attempt is counted first, then the expiry and the code are checked.
\* update fails when the row is gone.
CountAttempt(r) ==
  LET q == req[r] IN
  /\ At(r, "verifyOtp", "count") \/ At(r, "verifyForgotPasswordOtp", "count")
  /\ \/ /\ RowOf(q.otp) = {}
        /\ UNCHANGED otps
        /\ Finish(r)
     \/ \E o \in RowOf(q.otp) :
          /\ otps' = (otps \ {o}) \cup {[o EXCEPT !.attempts = @ + 1]}
          /\ IF o.age < Lifetime /\ q.code = o.id
             THEN Continue(r, IF q.op = "verifyOtp" THEN "readUser" ELSE "mark")
             ELSE Finish(r)
  /\ UNCHANGED <<account, issued, granted, created>>

VerifyOtpReadUser(r) ==
  /\ At(r, "verifyOtp", "readUser")
  /\ \/ IsCustomer(req[r].email) /\ Finish(r)
     \/ ~IsCustomer(req[r].email) /\ Continue(r, "commit")
  /\ ReadOnly

MarkVerified(S) == (otps \ S) \cup {[o EXCEPT !.isVerified = TRUE] : o \in S}

\* The account that a code creates.
CreateAccount(q) ==
  /\ account' = [account EXCEPT ![q.email] = q.details]
  /\ created' = [created EXCEPT ![q.otp] = @ + 1]

\* verifyOtp with updateMany, which does not mind that the row is gone.
VerifyOtpCommitUpdateMany(r) ==
  LET q == req[r] IN
  /\ At(r, "verifyOtp", "commit")
  /\ IF account[q.email] = NoAccount /\ q.details # NoDetails
     THEN CreateAccount(q) /\ otps' = MarkVerified(RowOf(q.otp))
     ELSE UNCHANGED <<account, otps, created>>
  /\ Finish(r)
  /\ UNCHANGED <<issued, granted>>

\* verifyOtp with a password of '' where the row has none, as it does for the
\* phone.
VerifyOtpCommitWithoutPassword(r) ==
  LET q == req[r] IN
  /\ At(r, "verifyOtp", "commit")
  /\ IF account[q.email] = NoAccount /\ RowOf(q.otp) # {}
     THEN CreateAccount(q) /\ otps' = MarkVerified(RowOf(q.otp))
     ELSE UNCHANGED <<account, otps, created>>
  /\ Finish(r)
  /\ UNCHANGED <<issued, granted>>

\* verifyOtp without the transaction: the row is marked in any case.
VerifyOtpCommitInParts(r) ==
  LET q == req[r] IN
  /\ At(r, "verifyOtp", "commit")
  /\ IF account[q.email] = NoAccount /\ q.details # NoDetails
     THEN CreateAccount(q)
     ELSE UNCHANGED <<account, created>>
  /\ otps' = MarkVerified(RowOf(q.otp))
  /\ Finish(r)
  /\ UNCHANGED <<issued, granted>>

\* The transaction inserts the user (tenant and email are unique, and the
\* password may not be null), the customer, and marks the row (which must
\* exist); if one fails none is done.
VerifyOtpCommit(r) ==
  LET q == req[r] IN
  /\ At(r, "verifyOtp", "commit")
  /\ IF account[q.email] = NoAccount /\ q.details # NoDetails /\ RowOf(q.otp) # {}
     THEN CreateAccount(q) /\ otps' = MarkVerified(RowOf(q.otp))
     ELSE UNCHANGED <<account, otps, created>>
  /\ Finish(r)
  /\ UNCHANGED <<issued, granted>>

\* verifyForgotPasswordOtp without marking its row.
MarkNothing(r) ==
  /\ At(r, "verifyForgotPasswordOtp", "mark")
  /\ Continue(r, "grant")
  /\ ReadOnly

\* verifyForgotPasswordOtp marks its row, if it is still there.
MarkForgotOtp(r) ==
  LET row == RowOf(req[r].otp) IN
  /\ At(r, "verifyForgotPasswordOtp", "mark")
  /\ otps' = MarkVerified(row)
  /\ IF row # {} THEN Continue(r, "grant") ELSE Finish(r)
  /\ UNCHANGED <<account, issued, granted, created>>

\* The reset token is stored on the user and answered to the customer, unless
\* no customer has the email by now, or the one who has was deactivated.
GrantResetToken(r) ==
  /\ At(r, "verifyForgotPasswordOtp", "grant")
  /\ \/ /\ IsCustomer(req[r].email)
        /\ granted' = [granted EXCEPT ![req[r].otp] = @ + 1]
     \/ UNCHANGED granted
  /\ Finish(r)
  /\ UNCHANGED <<account, otps, issued, created>>

-----------------------------------------------------------------------------
(* Accounts that change *)

\* The other statements on User rows: the codes do not change with them.
Elsewhere ==
  /\ orderly' = (orderly /\ Alone)
  /\ UNCHANGED <<otps, issued, req, granted, created>>

\* A customer's updateProfile, which may move the account to an email that no
\* account has, and customerResetPassword.
ChangeCustomer(e, f, d) ==
  /\ IsCustomer(e)
  /\ f = e \/ account[f] = NoAccount
  /\ account' = [[account EXCEPT ![e] = NoAccount] EXCEPT ![f] = d]
  /\ Elsewhere

\* The admin or the manager creates an account for a member of the staff, or
\* gives one another email.
ChangeStaff(e) ==
  /\ ~IsCustomer(e)
  /\ account' = [account EXCEPT ![e] = IF @ = Staff THEN NoAccount ELSE Staff]
  /\ Elsewhere

-----------------------------------------------------------------------------
(* The whole *)

\* Time passes for every row alike; a row that has expired does not change.
Tick ==
  /\ \E o \in otps : o.age < Lifetime
  /\ otps' = {[o EXCEPT !.age = IF @ < Lifetime THEN @ + 1 ELSE @] : o \in otps}
  /\ UNCHANGED <<account, issued, req, granted, created, orderly>>

\* A statement fails or the worker restarts: the request ends where it is.
Fail(r) ==
  /\ req[r] # Idle
  /\ req' = [req EXCEPT ![r] = Idle]
  /\ orderly' = FALSE
  /\ ReadOnly

\* An email may be of a member of the staff from the beginning, or of a customer
\* who registered with another one and moved to it.
Init ==
  /\ account \in [Emails -> Details \cup {NoAccount, Staff}]
  /\ otps = {}
  /\ issued = 0
  /\ req = [r \in Requests |-> Idle]
  /\ granted = [id \in 1..MaxOtps |-> 0]
  /\ created = [id \in 1..MaxOtps |-> 0]
  /\ orderly = TRUE

\* The requests that may still issue a code.
Issuing ==
  {r \in Requests : \E step \in {"readLast", "invalidate", "create"} :
     req[r] # Idle /\ req[r].step = step}

Call(r, e) ==
  \/ /\ issued + Cardinality(Issuing) < MaxOtps
     /\ \/ \E d \in Details : CustomerRegister(r, e, d)
        \/ ResendOtp(r, e)
        \/ CustomerForgotPassword(r, e)
  \/ \E code \in 0..issued :
       VerifyOtp(r, e, code) \/ VerifyForgotPasswordOtp(r, e, code)

Step(r) ==
  \/ ResendOtpReadLast(r)
  \/ CustomerForgotPasswordReadLast(r)
  \/ InvalidatePreviousOtps(r)
  \/ InvalidateForgotOtps(r)
  \/ CreateOtp(r)
  \/ CountAttempt(r)
  \/ VerifyOtpReadUser(r)
  \/ VerifyOtpCommit(r)
  \/ MarkForgotOtp(r)
  \/ GrantResetToken(r)

Change ==
  \/ \E e, f \in Emails, d \in Details : ChangeCustomer(e, f, d)
  \/ \E e \in Emails : ChangeStaff(e)

Next ==
  \/ Tick
  \/ Change
  \/ \E r \in Requests : Step(r) \/ Fail(r) \/ \E e \in Emails : Call(r, e)

Spec == Init /\ [][Next]_vars

-----------------------------------------------------------------------------
(* Properties *)

\* The rows and the requests in flight have their types, and no two rows one
\* id.
TypeOK ==
  /\ account \in [Emails -> Details \cup {NoAccount, Staff}]
  /\ otps \subseteq EmailOtp
  /\ \A o, p \in otps : o.id = p.id => o = p
  /\ issued \in 0..MaxOtps
  /\ req \in [Requests -> InFlight \cup {Idle}]
  /\ granted \in [1..MaxOtps -> Nat]
  /\ created \in [1..MaxOtps -> Nat]
  /\ orderly \in BOOLEAN

\* A code is compared MaxAttempts times at most, and when requests race to
\* be counted, once more for each that was let in with the last (the check
\* of attempts, and its increment one statement later, in both verifications).
AttemptsBounded ==
  \A o \in otps :
    o.attempts <= IF orderly THEN MaxAttempts
                  ELSE MaxAttempts + Cardinality(Requests) - 1

\* A registration code that was verified has created an account, and only one
\* (verifyOtp's transaction).  Of requests that verify it at the same time
\* another may create one too, once the account has moved to another email.
CodeCreatesOnce ==
  \A o \in otps :
    o.purpose = "REGISTRATION" =>
      /\ o.isVerified => created[o.id] >= 1
      /\ created[o.id] <= IF orderly THEN 1 ELSE Cardinality(Requests)

\* An account is only created from a registration code that no later call for a
\* code has deleted by then, for an email that has none, and with the details
\* the code was asked with (the update in the transaction).
OnlyLiveCodeCreates ==
  [][\A id \in 1..issued :
       created'[id] # created[id] =>
         \E o \in RowOf(id) :
           /\ o.purpose = "REGISTRATION"
           /\ account[o.email] = NoAccount /\ account'[o.email] = o.details]_vars

\* While requests come one at a time, an email has no code of a purpose but the
\* one last sent to come back with (invalidatePreviousOtps).  It may have one
\* of each purpose, when a customer moves to an email that was about to be
\* registered; verifyOtp then compares the newer.
OneLiveCode ==
  orderly =>
    \A e \in Emails, purpose \in Purposes :
      Cardinality({o \in Pending(e) : o.purpose = purpose}) <= 1

\* A code is exchanged for one reset token; of requests that verify it at the
\* same time each gets one (verifyForgotPasswordOtp).
CodeGrantsOnce ==
  \A id \in 1..issued :
    granted[id] <= IF orderly THEN 1 ELSE Cardinality(Requests)
=============================================================================
