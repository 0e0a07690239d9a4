------------------------------- MODULE Sessions -------------------------------
(***************************************************************************)
(* Sessions and passwords: the login, refresh, logout and password-reset   *)
(* handlers of AuthService, and the manager's reset of a technician's      *)
(* password.  A session is a RefreshToken row.  A refresh deletes the row  *)
(* of the token it is given and inserts another; a reset of a password     *)
(* deletes every row of the user.                                          *)
(*                                                                         *)
(* No handler uses a transaction: each statement is an action of its own,  *)
(* between which other requests run and after which a request may fail.    *)
(* A refresh token is a JWT over the user and the second of its issue, so  *)
(* the pair of the two stands for the string, which is a unique column.    *)
(***************************************************************************)
EXTENDS Naturals, FiniteSets

CONSTANTS
  Users,
  Requests,     \* the requests that can be in flight together
  Lifetime,     \* seconds a refresh token lives (7 days)
  MaxTime,      \* bound: seconds the clock runs
  MaxLogins,    \* bound: logins of a user that may start
  MaxLinks,     \* bound: reset links issued to a user
  MaxPasswords  \* bound: passwords a manager may still replace

ASSUME LifetimeAssumption == Lifetime \in Nat \ {0}
ASSUME RequestsAssumption == IsFiniteSet(Requests)
ASSUME LinksAssumption == MaxLinks \in Nat

VARIABLES
  clock,     \* the second it is
  standing,  \* User.isActive, and whether its tenant is ACTIVE
  password,  \* which password of the user User.passwordHash is of
  link,      \* User.resetToken: the number of the link, or 0 for null
  linkOpen,  \* User.resetTokenExpiry is in the future
  rows,      \* the RefreshToken rows
  req,       \* what each request in flight is doing
  issued,    \* history: the links issued to the user
  uses,      \* history: how often each link changed the password
  logins,    \* history: the sessions that logins opened
  orderly    \* history: no two requests overlapped and none failed half-way

userVars == <<standing, password, link, linkOpen>>
history == <<issued, uses, logins>>
vars == <<clock, standing, password, link, linkOpen, rows, req, issued, uses,
          logins, orderly>>

\* How a user stands: it may log in, its tenant is not ACTIVE, or the user itself
\* was deactivated.
Standing == {"active", "tenantSuspended", "inactive"}

\* A row with its token, and the password under which its session was opened.
Session == [user : Users, iat : Nat, password : Nat]

RowsOf(u) == {s \in rows : s.user = u}

RowsOfToken(u, t) == {s \in rows : s.user = u /\ s.iat = t}

-----------------------------------------------------------------------------
(* Requests *)

Idle == [op |-> "idle"]

\* A request in flight: the user row it found, the second of the token it was
\* given, the password it checked, and the reset link it was given.
InFlight ==
  [op : {"login", "refreshToken", "forgotPassword", "resetPassword",
         "resetTechnicianPassword"},
   step : {"delete", "persist", "saveLink", "setPassword", "revoke"},
   user : Users, iat : Nat, password : Nat, link : Nat]

Alone == \A r \in Requests : req[r] = Idle

Start(r, op, step, u, t, p, n) ==
  /\ req[r] = Idle
  /\ req' = [req EXCEPT ![r] = [op |-> op, step |-> step, user |-> u,
                                iat |-> t, password |-> p, link |-> n]]
  /\ orderly' = (orderly /\ Alone)

At(r, op, step) == req[r] # Idle /\ req[r].op = op /\ req[r].step = step

Continue(r, step) ==
  /\ req' = [req EXCEPT ![r].step = step]
  /\ UNCHANGED orderly

Finish(r) ==
  /\ req' = [req EXCEPT ![r] = Idle]
  /\ UNCHANGED orderly

ReadOnly == UNCHANGED <<clock, userVars, rows, history>>

-----------------------------------------------------------------------------
(* Logging in and refreshing *)

\* The four login handlers: they find the user, compare the password, and
\* check isActive (and, but for the super admin, that the tenant is active).
Login(r, u) ==
  /\ standing[u] = "active"
  /\ logins[u] < MaxLogins
  /\ Start(r, "login", "persist", u, 0, password[u], 0)
  /\ ReadOnly

\* refreshToken verifies the token and finds its row.
RefreshToken(r, u, t) ==
  /\ RowsOfToken(u, t) # {}
  /\ clock < t + Lifetime
  /\ Start(r, "refreshToken", "delete", u, t, 0, 0)
  /\ ReadOnly

\* refreshToken with deleteMany, which does not mind a missing row.
RefreshDeleteMany(r) ==
  LET q == req[r] IN
  /\ At(r, "refreshToken", "delete")
  /\ rows' = rows \ RowsOfToken(q.user, q.iat)
  /\ Continue(r, "persist")
  /\ UNCHANGED <<clock, userVars, history>>

\* delete fails when another request has deleted the row.
RefreshDelete(r) ==
  LET q == req[r] IN
  /\ At(r, "refreshToken", "delete")
  /\ \/ /\ RowsOfToken(q.user, q.iat) = {}
        /\ UNCHANGED rows
        /\ Finish(r)
     \/ \E s \in RowsOfToken(q.user, q.iat) :
          /\ rows' = rows \ {s}
          /\ req' = [req EXCEPT ![r].step = "persist",
                                ![r].password = s.password]
          /\ UNCHANGED orderly
  /\ UNCHANGED <<clock, userVars, history>>

\* buildTokens and persistRefreshToken: the token is signed now, and its
\* insertion fails when a row holds the same token.
PersistRefreshToken(r) ==
  LET q == req[r] IN
  /\ At(r, "login", "persist") \/ At(r, "refreshToken", "persist")
  /\ IF RowsOfToken(q.user, clock) = {}
     THEN /\ rows' = rows \cup
               {[user |-> q.user, iat |-> clock, password |-> q.password]}
          /\ logins' = IF q.op = "login"
                       THEN [logins EXCEPT ![q.user] = @ + 1]
                       ELSE logins
     ELSE UNCHANGED <<rows, logins>>
  /\ Finish(r)
  /\ UNCHANGED <<clock, userVars, issued, uses>>

\* logout, of one token or of all tokens of the user, is one statement.
Logout(r, u) ==
  /\ req[r] = Idle
  /\ \/ \E s \in RowsOf(u) : rows' = rows \ {s}
     \/ rows' = rows \ RowsOf(u)
  /\ orderly' = (orderly /\ Alone)
  /\ UNCHANGED <<clock, userVars, req, history>>

-----------------------------------------------------------------------------
(* Resetting a password *)

\* The requests about to store a link on the user.
Linking(u) ==
  {r \in Requests : At(r, "forgotPassword", "saveLink") /\ req[r].user = u}

\* forgotPassword: find the active user, whatever the status of its tenant, then
\* store a fresh random token on it.
ForgotPassword(r, u) ==
  /\ standing[u] # "inactive"
  /\ issued[u] + Cardinality(Linking(u)) < MaxLinks
  /\ Start(r, "forgotPassword", "saveLink", u, 0, 0, 0)
  /\ ReadOnly

ForgotPasswordSaveLink(r) ==
  LET u == req[r].user IN
  /\ At(r, "forgotPassword", "saveLink")
  /\ issued' = [issued EXCEPT ![u] = @ + 1]
  /\ link' = [link EXCEPT ![u] = issued[u] + 1]
  /\ linkOpen' = [linkOpen EXCEPT ![u] = TRUE]
  /\ Finish(r)
  /\ UNCHANGED <<clock, standing, password, rows, uses, logins>>

\* resetPassword that finds a user without looking at the token.
ResetPasswordAnyUser(r, u) ==
  /\ Start(r, "resetPassword", "setPassword", u, 0, 0, link[u])
  /\ ReadOnly

\* resetPassword and customerResetPassword find the user by an open token.
ResetPassword(r, u) ==
  /\ link[u] # 0
  /\ linkOpen[u]
  /\ Start(r, "resetPassword", "setPassword", u, 0, 0, link[u])
  /\ ReadOnly

\* resetPassword that leaves resetToken on the user.
ResetPasswordKeepLink(r) ==
  LET q == req[r] IN
  /\ At(r, "resetPassword", "setPassword")
  /\ password' = [password EXCEPT ![q.user] = @ + 1]
  /\ uses' = [uses EXCEPT ![q.user][q.link] = @ + 1]
  /\ Continue(r, "revoke")
  /\ UNCHANGED <<clock, standing, link, linkOpen, rows, issued, logins>>

\* The new password is written, and the token cleared, by the user's id.
ResetPasswordUpdate(r) ==
  LET q == req[r] IN
  /\ At(r, "resetPassword", "setPassword")
  /\ password' = [password EXCEPT ![q.user] = @ + 1]
  /\ link' = [link EXCEPT ![q.user] = 0]
  /\ linkOpen' = [linkOpen EXCEPT ![q.user] = FALSE]
  /\ uses' = [uses EXCEPT ![q.user][q.link] = @ + 1]
  /\ Continue(r, "revoke")
  /\ UNCHANGED <<clock, standing, rows, issued, logins>>

\* ManagerService.resetTechnicianPassword needs no token and clears none.
ResetTechnicianPassword(r, u) ==
  /\ password[u] < MaxPasswords
  /\ Start(r, "resetTechnicianPassword", "setPassword", u, 0, 0, 0)
  /\ ReadOnly

\* resetTechnicianPassword without its deleteMany.
ResetTechnicianPasswordOnly(r) ==
  /\ At(r, "resetTechnicianPassword", "setPassword")
  /\ password' = [password EXCEPT ![req[r].user] = @ + 1]
  /\ Finish(r)
  /\ UNCHANGED <<clock, standing, link, linkOpen, rows, history>>

ResetTechnicianPasswordUpdate(r) ==
  /\ At(r, "resetTechnicianPassword", "setPassword")
  /\ password' = [password EXCEPT ![req[r].user] = @ + 1]
  /\ Continue(r, "revoke")
  /\ UNCHANGED <<clock, standing, link, linkOpen, rows, history>>

Revoking(r) ==
  At(r, "resetPassword", "revoke") \/ At(r, "resetTechnicianPassword", "revoke")

\* The deleteMany that ends every reset of a password.
RevokeSessions(r) ==
  /\ Revoking(r)
  /\ rows' = rows \ RowsOf(req[r].user)
  /\ Finish(r)
  /\ UNCHANGED <<clock, userVars, history>>

-----------------------------------------------------------------------------
(* The environment *)

\* An account or its tenant is deactivated or activated again; its sessions
\* stay.
SetStanding(u, now) ==
  /\ standing' = [standing EXCEPT ![u] = now]
  /\ UNCHANGED <<clock, password, link, linkOpen, rows, req, history, orderly>>

Tick ==
  /\ clock < MaxTime
  /\ clock' = clock + 1
  /\ UNCHANGED <<userVars, rows, req, history, orderly>>

\* Fifteen minutes after a link was issued.
LinkExpires(u) ==
  /\ linkOpen[u]
  /\ linkOpen' = [linkOpen EXCEPT ![u] = FALSE]
  /\ UNCHANGED <<clock, standing, password, link, rows, req, history, orderly>>

\* A statement fails or the worker restarts: the request ends where it is.
Fail(r) ==
  /\ req[r] # Idle
  /\ req' = [req EXCEPT ![r] = Idle]
  /\ orderly' = FALSE
  /\ ReadOnly

Init ==
  /\ clock = 0
  /\ standing = [u \in Users |-> "active"]
  /\ password = [u \in Users |-> 0]
  /\ link = [u \in Users |-> 0]
  /\ linkOpen = [u \in Users |-> FALSE]
  /\ rows = {}
  /\ req = [r \in Requests |-> Idle]
  /\ issued = [u \in Users |-> 0]
  /\ uses = [u \in Users |-> [n \in 1..MaxLinks |-> 0]]
  /\ logins = [u \in Users |-> 0]
  /\ orderly = TRUE

Call(r, u) ==
  \/ Login(r, u)
  \/ \E s \in RowsOf(u) : RefreshToken(r, u, s.iat)
  \/ Logout(r, u)
  \/ ForgotPassword(r, u)
  \/ ResetPassword(r, u)
  \/ ResetTechnicianPassword(r, u)

Step(r) ==
  \/ RefreshDelete(r)
  \/ PersistRefreshToken(r)
  \/ ForgotPasswordSaveLink(r)
  \/ ResetPasswordUpdate(r)
  \/ ResetTechnicianPasswordUpdate(r)
  \/ RevokeSessions(r)

Environment ==
  \/ Tick
  \/ \E u \in Users : LinkExpires(u) \/ \E now \in Standing : SetStanding(u, now)

Next ==
  \/ Environment
  \/ \E r \in Requests : Step(r) \/ Fail(r) \/ \E u \in Users : Call(r, u)

Spec == Init /\ [][Next]_vars

-----------------------------------------------------------------------------
(* Properties *)

\* The rows and the requests in flight have their types; a reset in flight
\* was let in by a link that was issued.
TypeOK ==
  /\ clock \in Nat
  /\ standing \in [Users -> Standing]
  /\ password \in [Users -> Nat]
  /\ link \in [Users -> Nat]
  /\ linkOpen \in [Users -> BOOLEAN]
  /\ rows \subseteq Session
  /\ req \in [Requests -> InFlight \cup {Idle}]
  /\ issued \in [Users -> Nat]
  /\ uses \in [Users -> [1..MaxLinks -> Nat]]
  /\ logins \in [Users -> Nat]
  /\ orderly \in BOOLEAN
  /\ \A r \in Requests :
       req[r] # Idle /\ req[r].op = "resetPassword" =>
         req[r].link \in 1..issued[req[r].user]

\* The refreshes of a user that have deleted their row and not yet inserted
\* the next one.
Rotating(u) ==
  {r \in Requests : At(r, "refreshToken", "persist") /\ req[r].user = u}

\* Refreshing never multiplies sessions: however many requests present one
\* token at once, a user never has more sessions, those being rotated
\* included, than its logins opened (refreshToken's delete of one row).
SessionConservation ==
  \A u \in Users :
    Cardinality(RowsOf(u)) + Cardinality(Rotating(u)) <= logins[u]

\* While requests come one at a time and none fails half-way, every session
\* was opened under the password of today, but for the moment in which a
\* reset has stored the new one and not yet revoked the sessions.
SessionsCurrent ==
  orderly =>
    \A s \in rows :
      \/ s.password = password[s.user]
      \/ \E r \in Requests : Revoking(r) /\ req[r].user = s.user

\* A reset link changes the password once; of requests that present it at the
\* same time, each may do so once (resetPassword's clearing of resetToken).
LinkUsedOnce ==
  \A u \in Users : \A n \in 1..issued[u] :
    uses[u][n] <= IF orderly THEN 1 ELSE Cardinality(Requests)

-----------------------------------------------------------------------------
(* What the documentation says and the code does not do *)

\* A refresh that deleted its row inserts the next one; but when a session of
\* the same user was opened in the same second, the token is already taken.
RefreshIssuesNewPair ==
  [][\A r \in Requests :
       At(r, "refreshToken", "persist") /\ req'[r] = Idle =>
         Cardinality(rows') = Cardinality(rows) + 1]_vars

\* No request fails half-way, and every request in flight runs on.
ReliableSpec ==
  /\ Init
  /\ [][Environment \/ \E r \in Requests : Step(r) \/ \E u \in Users : Call(r, u)]_vars
  /\ \A r \in Requests : WF_vars(Step(r))
=============================================================================
