---------------------------- MODULE SessionsProofs ----------------------------
(***************************************************************************)
(* Theorems about sessions and passwords for any users and any finite set  *)
(* of requests in flight: refreshing never multiplies sessions, sessions   *)
(* are opened under the password of today while requests come one at a     *)
(* time, and a reset link is used no more often than requests present it.  *)
(*                                                                         *)
(* Each theorem has an invariant of its own, over the types.  They count   *)
(* the requests that hold what a row no longer shows: a session that was   *)
(* deleted and is not yet inserted again, a link that is about to be used. *)
(***************************************************************************)
EXTENDS Sessions, Counting

-----------------------------------------------------------------------------
(* Types, and the links that are about to be issued *)

LinksBounded ==
  \A u \in Users : issued[u] + Cardinality(Linking(u)) <= MaxLinks

LinksIssued == \A u \in Users : link[u] <= issued[u]

TypeInv ==
  /\ TypeOK
  /\ LinksIssued
  /\ LinksBounded
  /\ IsFiniteSet(rows)

\* A request changes and the others go on as they are.
OthersSame(r) == \A s \in Requests \ {r} : req'[s] = req[s]

LEMMA RequestChange ==
  ASSUME TypeOK, NEW r \in Requests, NEW q,
         req' = [req EXCEPT ![r] = q]
  PROVE  req'[r] = q /\ OthersSame(r)
BY DEF TypeOK, OthersSame

\* How the requests about to store a link change with one request.
LEMMA LinkingChange ==
  ASSUME TypeOK, NEW r \in Requests, OthersSame(r), NEW u \in Users
  PROVE  /\ IsFiniteSet(Linking(u))
         /\ Linking(u) \ {r} = Linking(u)' \ {r}
BY RequestsAssumption, FS_Subset DEF Linking, OthersSame, At

\* A new request may be one about to store a link; any other step of a
\* request only takes it out of those.
LEMMA LinksStayBounded ==
  ASSUME TypeInv, NEW r \in Requests, OthersSame(r), issued' = issued,
         \A u \in Users : r \in Linking(u)' => r \in Linking(u)
  PROVE  LinksBounded'
<1> SUFFICES ASSUME NEW u \in Users
             PROVE  issued[u] + Cardinality(Linking(u)') <= MaxLinks
  BY DEF LinksBounded
<1>1. /\ IsFiniteSet(Linking(u))
      /\ Linking(u) \ {r} = Linking(u)' \ {r}
  BY LinkingChange DEF TypeInv
<1>2. /\ Cardinality(Linking(u)) \in Nat
      /\ Cardinality(Linking(u)') \in Nat
      /\ Cardinality(Linking(u)') <= Cardinality(Linking(u))
  BY <1>1, CountChange
<1>3. issued[u] \in Nat /\ issued[u] + Cardinality(Linking(u)) <= MaxLinks
  BY DEF TypeInv, TypeOK, LinksBounded
<1> QED
  BY <1>2, <1>3, LinksAssumption

\* The requests that start, and what they may hold.
LEMMA StartTyped ==
  ASSUME TypeInv, NEW r \in Requests, NEW op, NEW step, NEW u \in Users,
         NEW t \in Nat, NEW p \in Nat, NEW n \in Nat,
         op \in {"login", "refreshToken", "forgotPassword", "resetPassword",
                 "resetTechnicianPassword"},
         step \in {"delete", "persist", "saveLink", "setPassword", "revoke"},
         op = "resetPassword" => n \in 1..issued[u],
         op # "forgotPassword",
         Start(r, op, step, u, t, p, n), ReadOnly
  PROVE  TypeInv'
<1> DEFINE q == [op |-> op, step |-> step, user |-> u, iat |-> t, password |-> p, link |-> n]
<1>1. req' = [req EXCEPT ![r] = q] /\ orderly' \in BOOLEAN
  BY DEF Start, Alone, TypeInv, TypeOK
<1>2. q \in InFlight
  BY DEF InFlight
<1>3. req'[r] = q /\ OthersSame(r)
  BY <1>1, RequestChange DEF TypeInv
<1>4. req' \in [Requests -> InFlight \cup {Idle}]
  BY <1>1, <1>2 DEF TypeInv, TypeOK
<1>5. \A s \in Requests :
        req'[s] # Idle /\ req'[s].op = "resetPassword" =>
          req'[s].link \in 1..issued[req'[s].user]
  <2>1. q.op = op /\ q.link = n /\ q.user = u
    OBVIOUS
  <2> HIDE DEF q
  <2> QED
    BY <1>3, <2>1 DEF OthersSame, TypeInv, TypeOK
<1>6. TypeOK'
  BY <1>1, <1>4, <1>5 DEF ReadOnly, userVars, history, TypeInv, TypeOK
<1>7. \A v \in Users : r \notin Linking(v)'
  BY <1>3 DEF Linking, At
<1>8. LinksBounded'
  BY <1>3, <1>7, LinksStayBounded DEF ReadOnly, history
<1> QED
  BY <1>6, <1>8 DEF TypeInv, LinksIssued, ReadOnly, userVars, history

LEMMA ForgotPasswordTyped ==
  ASSUME TypeInv, NEW r \in Requests, NEW u \in Users, ForgotPassword(r, u)
  PROVE  TypeInv'
<1> DEFINE q == [op |-> "forgotPassword", step |-> "saveLink", user |-> u, iat |-> 0,
                 password |-> 0, link |-> 0]
<1>1. /\ req' = [req EXCEPT ![r] = q] /\ orderly' \in BOOLEAN
      /\ req[r] = Idle
      /\ issued[u] + Cardinality(Linking(u)) < MaxLinks
      /\ UNCHANGED <<clock, standing, password, link, linkOpen, rows, issued, uses, logins>>
  BY DEF ForgotPassword, Start, Alone, TypeInv, TypeOK, ReadOnly, userVars, history
<1>2. q \in InFlight
  BY DEF InFlight
<1>3. req'[r] = q /\ OthersSame(r)
  BY <1>1, RequestChange DEF TypeInv
<1>4. req' \in [Requests -> InFlight \cup {Idle}]
  BY <1>1, <1>2 DEF TypeInv, TypeOK
<1>5. \A s \in Requests :
        req'[s] # Idle /\ req'[s].op = "resetPassword" =>
          req'[s].link \in 1..issued[req'[s].user]
  <2>1. q.op = "forgotPassword"
    OBVIOUS
  <2> HIDE DEF q
  <2> QED
    BY <1>3, <2>1 DEF OthersSame, TypeInv, TypeOK
<1>6. TypeOK'
  BY <1>1, <1>4, <1>5 DEF TypeInv, TypeOK, LinksIssued
<1>7. LinksBounded'
  <2> SUFFICES ASSUME NEW v \in Users
               PROVE  issued[v] + Cardinality(Linking(v)') <= MaxLinks
    BY <1>1 DEF LinksBounded
  <2>1. /\ IsFiniteSet(Linking(v))
        /\ Linking(v) \ {r} = Linking(v)' \ {r}
    BY <1>3, LinkingChange DEF TypeInv
  <2>2. r \notin Linking(v) /\ (r \in Linking(v)' <=> v = u)
    BY <1>1, <1>3 DEF Linking, At, Idle
  <2>3. /\ Cardinality(Linking(v)) \in Nat
        /\ Cardinality(Linking(v)') = Cardinality(Linking(v)) + IF v = u THEN 1 ELSE 0
    BY <2>1, <2>2, CountChange
  <2>4. issued[v] \in Nat /\ issued[v] + Cardinality(Linking(v)) <= MaxLinks
    BY DEF TypeInv, TypeOK, LinksBounded
  <2> QED
    BY <1>1, <2>3, <2>4, LinksAssumption
<1> QED
  BY <1>1, <1>6, <1>7 DEF TypeInv, LinksIssued

\* A request goes on or ends, without an effect on links.
LEMMA ProceedTyped ==
  ASSUME TypeInv, NEW r \in Requests, NEW q \in InFlight \cup {Idle},
         req[r] # Idle, req' = [req EXCEPT ![r] = q], issued' = issued,
         q # Idle => /\ q.op = req[r].op /\ q.user = req[r].user /\ q.link = req[r].link
                     /\ q.step # "saveLink"
  PROVE  /\ req' \in [Requests -> InFlight \cup {Idle}]
         /\ \A s \in Requests :
              req'[s] # Idle /\ req'[s].op = "resetPassword" =>
                req'[s].link \in 1..issued'[req'[s].user]
         /\ LinksBounded'
<1>1. req'[r] = q /\ OthersSame(r)
  BY RequestChange DEF TypeInv
<1>2. req' \in [Requests -> InFlight \cup {Idle}]
  BY DEF TypeInv, TypeOK
<1>3. \A s \in Requests :
        req'[s] # Idle /\ req'[s].op = "resetPassword" =>
          req'[s].link \in 1..issued[req'[s].user]
  BY <1>1 DEF OthersSame, TypeInv, TypeOK
<1>4. \A v \in Users : r \notin Linking(v)'
  BY <1>1 DEF Linking, At
<1>5. LinksBounded'
  BY <1>1, <1>4, LinksStayBounded
<1> QED
  BY <1>2, <1>3, <1>5

\* What Continue and Finish do to a request in flight.
LEMMA ContinueRecord ==
  ASSUME TypeOK, NEW r \in Requests, req[r] # Idle,
         NEW step \in {"delete", "persist", "saveLink", "setPassword", "revoke"},
         Continue(r, step)
  PROVE  \E q \in InFlight :
           /\ req' = [req EXCEPT ![r] = q] /\ q # Idle
           /\ q = [req[r] EXCEPT !.step = step]
           /\ q.op = req[r].op /\ q.user = req[r].user /\ q.link = req[r].link
           /\ q.password = req[r].password /\ q.step = step
<1> DEFINE q == [req[r] EXCEPT !.step = step]
<1>1. req[r] \in InFlight
  BY DEF TypeOK
<1>2. /\ q \in InFlight /\ q.op = req[r].op /\ q.user = req[r].user
      /\ q.link = req[r].link /\ q.password = req[r].password /\ q.step = step
  BY <1>1 DEF InFlight
<1>3. q # Idle
  BY <1>2 DEF InFlight, Idle
<1>4. req' = [req EXCEPT ![r] = q]
  BY DEF Continue
<1> QED
  BY <1>2, <1>3, <1>4

\* The requests that end, among them those that fail.
LEMMA EndTyped ==
  ASSUME TypeInv, NEW r \in Requests, req[r] # Idle,
         req' = [req EXCEPT ![r] = Idle], issued' = issued
  PROVE  /\ req' \in [Requests -> InFlight \cup {Idle}]
         /\ \A s \in Requests :
              req'[s] # Idle /\ req'[s].op = "resetPassword" =>
                req'[s].link \in 1..issued'[req'[s].user]
         /\ LinksBounded'
BY ProceedTyped

\* The row that a refresh deletes gives the password the next one is opened
\* under.
LEMMA RotateRecord ==
  ASSUME TypeOK, NEW r \in Requests, At(r, "refreshToken", "delete"), NEW p \in Nat,
         req' = [req EXCEPT ![r].step = "persist", ![r].password = p]
  PROVE  \E q \in InFlight :
           /\ req' = [req EXCEPT ![r] = q] /\ q # Idle
           /\ q.op = "refreshToken" /\ q.user = req[r].user /\ q.link = req[r].link
           /\ q.password = p /\ q.step = "persist"
<1> DEFINE q == [[req[r] EXCEPT !.step = "persist"] EXCEPT !.password = p]
<1>1. req[r] \in InFlight /\ req[r].op = "refreshToken"
  BY DEF TypeOK, At
<1>2. /\ q \in InFlight /\ q.op = "refreshToken" /\ q.user = req[r].user
      /\ q.link = req[r].link /\ q.password = p /\ q.step = "persist"
  BY <1>1 DEF InFlight
<1>3. q # Idle
  BY <1>2 DEF InFlight, Idle
<1>4. req' = [req EXCEPT ![r] = q]
  BY DEF TypeOK
<1> QED
  BY <1>2, <1>3, <1>4

LEMMA RefreshDeleteTyped ==
  ASSUME TypeInv, NEW r \in Requests, RefreshDelete(r)
  PROVE  TypeInv'
<1>1. /\ At(r, "refreshToken", "delete") /\ req[r] # Idle
      /\ UNCHANGED <<clock, standing, password, link, linkOpen, issued, uses, logins, orderly>>
  BY DEF RefreshDelete, Finish, userVars, history, At
<1>2. CASE UNCHANGED rows /\ Finish(r)
  BY <1>1, <1>2, EndTyped DEF Finish, TypeInv, TypeOK, LinksIssued
<1>3. ASSUME NEW s \in rows, rows' = rows \ {s},
             req' = [req EXCEPT ![r].step = "persist", ![r].password = s.password]
      PROVE  TypeInv'
  <2>1. s.password \in Nat
    BY DEF TypeInv, TypeOK, Session
  <2>2. \E q \in InFlight :
           /\ req' = [req EXCEPT ![r] = q] /\ q # Idle
           /\ q.op = "refreshToken" /\ q.user = req[r].user /\ q.link = req[r].link
           /\ q.password = s.password /\ q.step = "persist"
    BY <1>1, <1>3, <2>1, RotateRecord, Zenon DEF TypeInv
  <2>3. PICK q \in InFlight :
           /\ req' = [req EXCEPT ![r] = q] /\ q # Idle
           /\ q.op = "refreshToken" /\ q.user = req[r].user /\ q.link = req[r].link
           /\ q.password = s.password /\ q.step = "persist"
    BY <2>2, Zenon
  <2>4. /\ req' \in [Requests -> InFlight \cup {Idle}]
        /\ \A t \in Requests :
             req'[t] # Idle /\ req'[t].op = "resetPassword" =>
               req'[t].link \in 1..issued'[req'[t].user]
        /\ LinksBounded'
    BY <1>1, <2>3, ProceedTyped DEF At
  <2>5. rows' \subseteq Session /\ IsFiniteSet(rows')
    BY <1>3, FS_Subset DEF TypeInv, TypeOK
  <2> QED
    BY <1>1, <2>4, <2>5 DEF TypeInv, TypeOK, LinksIssued
<1> QED
  BY <1>2, <1>3 DEF RefreshDelete, RowsOfToken

LEMMA PersistRefreshTokenTyped ==
  ASSUME TypeInv, NEW r \in Requests, PersistRefreshToken(r)
  PROVE  TypeInv'
<1> DEFINE s == [user |-> req[r].user, iat |-> clock, password |-> req[r].password]
<1>1. /\ req[r] # Idle /\ req' = [req EXCEPT ![r] = Idle]
      /\ UNCHANGED <<clock, standing, password, link, linkOpen, issued, uses, orderly>>
      /\ \/ /\ rows' = rows \cup {s}
            /\ logins' = [logins EXCEPT ![req[r].user] = @ + 1] \/ logins' = logins
         \/ UNCHANGED <<rows, logins>>
  BY DEF PersistRefreshToken, Finish, At, userVars
<1>2. req[r] \in InFlight /\ req[r].user \in Users
  BY <1>1 DEF TypeInv, TypeOK, InFlight
<1>3. s \in Session
  BY <1>2 DEF TypeInv, TypeOK, Session, InFlight
<1>4. rows' \subseteq Session /\ IsFiniteSet(rows')
  <2>1. rows \subseteq Session /\ IsFiniteSet(rows)
    BY DEF TypeInv, TypeOK
  <2>2. IsFiniteSet(rows \cup {s})
    BY <2>1, FS_AddElement
  <2> HIDE DEF s
  <2> QED
    BY <1>1, <1>3, <2>1, <2>2
<1>5. logins' \in [Users -> Nat]
  <2>1. logins \in [Users -> Nat] /\ logins[req[r].user] + 1 \in Nat
    BY <1>2 DEF TypeInv, TypeOK
  <2> QED
    BY <1>1, <1>2, <2>1
<1> QED
  BY <1>1, <1>4, <1>5, EndTyped DEF TypeInv, TypeOK, LinksIssued

LEMMA SaveLinkTyped ==
  ASSUME TypeInv, NEW r \in Requests, ForgotPasswordSaveLink(r)
  PROVE  TypeInv'
<1> DEFINE u == req[r].user
<1>1. /\ At(r, "forgotPassword", "saveLink") /\ req[r] # Idle
      /\ issued' = [issued EXCEPT ![u] = @ + 1]
      /\ link' = [link EXCEPT ![u] = issued[u] + 1]
      /\ linkOpen' = [linkOpen EXCEPT ![u] = TRUE]
      /\ req' = [req EXCEPT ![r] = Idle]
      /\ UNCHANGED <<clock, standing, password, rows, uses, logins, orderly>>
  BY DEF ForgotPasswordSaveLink, Finish, At
<1>2. u \in Users
  BY <1>1 DEF TypeInv, TypeOK, InFlight
<1>3. req'[r] = Idle /\ OthersSame(r)
  BY <1>1, RequestChange DEF TypeInv
<1>4. /\ req' \in [Requests -> InFlight \cup {Idle}]
      /\ link' \in [Users -> Nat] /\ linkOpen' \in [Users -> BOOLEAN]
      /\ issued' \in [Users -> Nat]
  BY <1>1, <1>2 DEF TypeInv, TypeOK
<1>5. \A s \in Requests :
        req'[s] # Idle /\ req'[s].op = "resetPassword" =>
          req'[s].link \in 1..issued'[req'[s].user]
  <2> SUFFICES ASSUME NEW s \in Requests, req'[s] # Idle, req'[s].op = "resetPassword"
               PROVE  req'[s].link \in 1..issued'[req'[s].user]
    OBVIOUS
  <2>1. req'[s] = req[s]
    BY <1>3 DEF OthersSame
  <2>2. req[s].link \in 1..issued[req[s].user] /\ req[s].user \in Users
    BY <2>1 DEF TypeInv, TypeOK, InFlight
  <2>3. \A v \in Users : issued[v] \in Nat /\ issued'[v] >= issued[v] /\ issued'[v] \in Nat
    BY <1>1, <1>2 DEF TypeInv, TypeOK
  <2> QED
    BY <2>1, <2>2, <2>3
<1>6. LinksBounded'
  <2> SUFFICES ASSUME NEW v \in Users
               PROVE  issued'[v] + Cardinality(Linking(v)') <= MaxLinks
    BY DEF LinksBounded
  <2>1. /\ IsFiniteSet(Linking(v))
        /\ Linking(v) \ {r} = Linking(v)' \ {r}
    BY <1>3, LinkingChange DEF TypeInv
  <2>2. (r \in Linking(v) <=> v = u) /\ r \notin Linking(v)'
    BY <1>1, <1>3 DEF Linking, At
  <2>3. /\ Cardinality(Linking(v)) \in Nat
        /\ Cardinality(Linking(v)') = Cardinality(Linking(v)) - IF v = u THEN 1 ELSE 0
    BY <2>1, <2>2, CountChange
  <2>4. issued[v] \in Nat /\ issued[v] + Cardinality(Linking(v)) <= MaxLinks
    BY DEF TypeInv, TypeOK, LinksBounded
  <2>5. issued'[v] = issued[v] + IF v = u THEN 1 ELSE 0
    BY <1>1, <1>2 DEF TypeInv, TypeOK
  <2> QED
    BY <2>3, <2>4, <2>5, LinksAssumption
<1>7. TypeOK'
  BY <1>1, <1>4, <1>5 DEF TypeInv, TypeOK
<1>8. LinksIssued'
  BY <1>1, <1>2 DEF TypeInv, TypeOK, LinksIssued
<1> QED
  BY <1>1, <1>6, <1>7, <1>8 DEF TypeInv

LEMMA CountUp ==
  ASSUME NEW D, NEW f \in [D -> Nat], NEW d \in D
  PROVE  [f EXCEPT ![d] = f[d] + 1] \in [D -> Nat]
OBVIOUS

\* The links that are in use were issued within the bound.
LEMMA LinkInUse ==
  ASSUME TypeInv, NEW r \in Requests, req[r] # Idle, req[r].op = "resetPassword"
  PROVE  /\ req[r].user \in Users
         /\ req[r].link \in 1..issued[req[r].user]
         /\ req[r].link \in 1..MaxLinks
<1>1. req[r].user \in Users /\ req[r].link \in 1..issued[req[r].user]
  BY DEF TypeInv, TypeOK, InFlight
<1>2. issued[req[r].user] \in Nat
  BY <1>1 DEF TypeInv, TypeOK
<1>3. Cardinality(Linking(req[r].user)) \in Nat
  BY RequestsAssumption, PartCount DEF Linking
<1>4. issued[req[r].user] <= MaxLinks
  BY <1>1, <1>2, <1>3, LinksAssumption DEF TypeInv, LinksBounded
<1> QED
  BY <1>1, <1>2, <1>4, LinksAssumption

LEMMA ResetPasswordUpdateTyped ==
  ASSUME TypeInv, NEW r \in Requests, ResetPasswordUpdate(r)
  PROVE  TypeInv'
<1> DEFINE u == req[r].user
           n == req[r].link
<1>1. /\ At(r, "resetPassword", "setPassword")
      /\ password' = [password EXCEPT ![u] = @ + 1]
      /\ link' = [link EXCEPT ![u] = 0]
      /\ linkOpen' = [linkOpen EXCEPT ![u] = FALSE]
      /\ uses' = [uses EXCEPT ![u][n] = @ + 1]
      /\ Continue(r, "revoke")
      /\ UNCHANGED <<clock, standing, rows, issued, logins, orderly>>
  BY DEF ResetPasswordUpdate, Continue
<1>2. u \in Users /\ n \in 1..MaxLinks
  BY <1>1, LinkInUse DEF At
<1>3. PICK q \in InFlight :
        /\ req' = [req EXCEPT ![r] = q]
        /\ q.op = req[r].op /\ q.user = req[r].user /\ q.link = req[r].link
        /\ q.step = "revoke"
  BY <1>1, ContinueRecord DEF TypeInv, At
<1>4. /\ password' \in [Users -> Nat] /\ link' \in [Users -> Nat]
      /\ linkOpen' \in [Users -> BOOLEAN] /\ uses' \in [Users -> [1..MaxLinks -> Nat]]
  <2>1. password' \in [Users -> Nat] /\ link' \in [Users -> Nat]
        /\ linkOpen' \in [Users -> BOOLEAN]
    BY <1>1, <1>2 DEF TypeInv, TypeOK
  <2>2. uses[u] \in [1..MaxLinks -> Nat]
    BY <1>2 DEF TypeInv, TypeOK
  <2>3. uses' = [uses EXCEPT ![u] = [uses[u] EXCEPT ![n] = @ + 1]]
    BY <1>1
  <2>4. uses \in [Users -> [1..MaxLinks -> Nat]]
    BY DEF TypeInv, TypeOK
  <2> HIDE DEF u, n
  <2>5. [uses[u] EXCEPT ![n] = uses[u][n] + 1] \in [1..MaxLinks -> Nat]
    BY <1>2, <2>2, CountUp
  <2> QED
    BY <1>2, <2>1, <2>3, <2>4, <2>5
<1>5. /\ req' \in [Requests -> InFlight \cup {Idle}]
      /\ \A t \in Requests :
           req'[t] # Idle /\ req'[t].op = "resetPassword" =>
             req'[t].link \in 1..issued'[req'[t].user]
      /\ LinksBounded'
  BY <1>1, <1>3, ProceedTyped DEF At
<1>6. LinksIssued'
  BY <1>1, <1>2 DEF TypeInv, TypeOK, LinksIssued
<1> QED
  BY <1>1, <1>4, <1>5, <1>6 DEF TypeInv, TypeOK

LEMMA ResetTechnicianPasswordUpdateTyped ==
  ASSUME TypeInv, NEW r \in Requests, ResetTechnicianPasswordUpdate(r)
  PROVE  TypeInv'
<1>1. /\ At(r, "resetTechnicianPassword", "setPassword")
      /\ password' = [password EXCEPT ![req[r].user] = @ + 1]
      /\ Continue(r, "revoke")
      /\ UNCHANGED <<clock, standing, link, linkOpen, rows, issued, uses, logins, orderly>>
  BY DEF ResetTechnicianPasswordUpdate, Continue, history
<1>2. req[r].user \in Users
  BY <1>1 DEF TypeInv, TypeOK, InFlight, At
<1>3. PICK q \in InFlight :
        /\ req' = [req EXCEPT ![r] = q]
        /\ q.op = req[r].op /\ q.user = req[r].user /\ q.link = req[r].link
        /\ q.step = "revoke"
  BY <1>1, ContinueRecord DEF TypeInv, At
<1>4. password' \in [Users -> Nat]
  BY <1>1, <1>2 DEF TypeInv, TypeOK
<1>5. /\ req' \in [Requests -> InFlight \cup {Idle}]
      /\ \A t \in Requests :
           req'[t] # Idle /\ req'[t].op = "resetPassword" =>
             req'[t].link \in 1..issued'[req'[t].user]
      /\ LinksBounded'
  BY <1>1, <1>3, ProceedTyped DEF At
<1> QED
  BY <1>1, <1>4, <1>5 DEF TypeInv, TypeOK, LinksIssued

LEMMA RowsOnlyGo ==
  ASSUME TypeInv, NEW r \in Requests, rows' \subseteq rows,
         UNCHANGED <<clock, userVars, history>>,
         orderly' \in BOOLEAN,
         UNCHANGED req \/ (req[r] # Idle /\ req' = [req EXCEPT ![r] = Idle])
  PROVE  TypeInv'
<1>1. rows' \subseteq Session /\ IsFiniteSet(rows')
  BY FS_Subset DEF TypeInv, TypeOK
<1>2. UNCHANGED <<clock, standing, password, link, linkOpen, issued, uses, logins>>
  BY DEF userVars, history
<1>3. CASE UNCHANGED req
  BY <1>1, <1>2, <1>3 DEF TypeInv, TypeOK, LinksIssued, LinksBounded, Linking, At
<1>4. CASE req[r] # Idle /\ req' = [req EXCEPT ![r] = Idle]
  BY <1>1, <1>2, <1>4, EndTyped DEF TypeInv, TypeOK, LinksIssued
<1> QED
  BY <1>3, <1>4

LEMMA EnvironmentTyped ==
  ASSUME TypeInv, Environment
  PROVE  TypeInv'
<1>1. /\ UNCHANGED <<password, link, rows, req, issued, uses, logins, orderly>>
      /\ clock' \in Nat /\ standing' \in [Users -> Standing]
      /\ linkOpen' \in [Users -> BOOLEAN]
  <2>1. CASE Tick
    BY <2>1 DEF Tick, userVars, history, TypeInv, TypeOK
  <2>2. ASSUME NEW u \in Users, LinkExpires(u)
        PROVE  /\ UNCHANGED <<password, link, rows, req, issued, uses, logins, orderly>>
               /\ clock' \in Nat /\ standing' \in [Users -> Standing]
               /\ linkOpen' \in [Users -> BOOLEAN]
    BY <2>2 DEF LinkExpires, history, TypeInv, TypeOK
  <2>3. ASSUME NEW u \in Users, NEW now \in Standing, SetStanding(u, now)
        PROVE  /\ UNCHANGED <<password, link, rows, req, issued, uses, logins, orderly>>
               /\ clock' \in Nat /\ standing' \in [Users -> Standing]
               /\ linkOpen' \in [Users -> BOOLEAN]
    BY <2>3 DEF SetStanding, history, TypeInv, TypeOK
  <2> QED
    BY <2>1, <2>2, <2>3 DEF Environment
<1> QED
  BY <1>1 DEF TypeInv, TypeOK, LinksIssued, LinksBounded, Linking, At

LEMMA CallTyped ==
  ASSUME TypeInv, NEW r \in Requests, NEW u \in Users, Call(r, u)
  PROVE  TypeInv'
<1>1. password[u] \in Nat /\ link[u] \in Nat
  BY DEF TypeInv, TypeOK
<1>2. CASE Login(r, u)
  BY <1>1, <1>2, StartTyped DEF Login
<1>3. ASSUME NEW s \in RowsOf(u), RefreshToken(r, u, s.iat)
      PROVE  TypeInv'
  <2>1. s.iat \in Nat
    BY DEF RowsOf, TypeInv, TypeOK, Session
  <2> QED
    BY <1>3, <2>1, StartTyped DEF RefreshToken
<1>4. CASE Logout(r, u)
  <2>1. /\ rows' \subseteq rows /\ UNCHANGED <<clock, userVars, history, req>>
        /\ orderly' \in BOOLEAN
    BY <1>4 DEF Logout, Alone, TypeInv, TypeOK
  <2> QED
    BY <2>1, RowsOnlyGo
<1>5. CASE ForgotPassword(r, u)
  BY <1>5, ForgotPasswordTyped
<1>6. CASE ResetPassword(r, u)
  <2>1. link[u] \in 1..issued[u]
    BY <1>1, <1>6 DEF ResetPassword, TypeInv, TypeOK, LinksIssued
  <2> QED
    BY <1>1, <1>6, <2>1, StartTyped DEF ResetPassword
<1>7. CASE ResetTechnicianPassword(r, u)
  BY <1>1, <1>7, StartTyped DEF ResetTechnicianPassword
<1> QED
  BY <1>2, <1>3, <1>4, <1>5, <1>6, <1>7 DEF Call

LEMMA StepTyped ==
  ASSUME TypeInv, NEW r \in Requests, Step(r) \/ Fail(r)
  PROVE  TypeInv'
<1>1. CASE RevokeSessions(r)
  <2>1. rows' \subseteq rows /\ req[r] # Idle /\ req' = [req EXCEPT ![r] = Idle]
        /\ UNCHANGED <<clock, userVars, history>> /\ orderly' \in BOOLEAN
    BY <1>1 DEF RevokeSessions, Revoking, At, Finish, TypeInv, TypeOK
  <2> QED
    BY <2>1, RowsOnlyGo
<1>2. CASE Fail(r)
  BY <1>2, RowsOnlyGo DEF Fail, ReadOnly
<1> QED
  BY <1>1, <1>2, RefreshDeleteTyped, PersistRefreshTokenTyped, SaveLinkTyped,
     ResetPasswordUpdateTyped, ResetTechnicianPasswordUpdateTyped DEF Step

LEMMA InitTyped == Init => TypeInv
<1> SUFFICES ASSUME Init PROVE TypeInv
  OBVIOUS
<1>1. TypeOK /\ LinksIssued
  BY DEF Init, TypeOK, LinksIssued, Standing
<1>2. \A u \in Users : Linking(u) = {}
  BY DEF Init, Linking, At
<1>3. LinksBounded
  <2> SUFFICES ASSUME NEW u \in Users
               PROVE  issued[u] + Cardinality(Linking(u)) <= MaxLinks
    BY DEF LinksBounded
  <2>1. issued[u] = 0 /\ Cardinality(Linking(u)) = 0
    BY <1>2, FS_EmptySet DEF Init
  <2> QED
    BY <2>1, LinksAssumption
<1> QED
  BY <1>1, <1>3, FS_EmptySet DEF Init, TypeInv

LEMMA NextTyped == TypeInv /\ [Next]_vars => TypeInv'
<1> SUFFICES ASSUME TypeInv, [Next]_vars PROVE TypeInv'
  OBVIOUS
<1>1. CASE UNCHANGED vars
  BY <1>1 DEF vars, TypeInv, TypeOK, LinksIssued, LinksBounded, Linking, At
<1> QED
  BY <1>1, EnvironmentTyped, CallTyped, StepTyped DEF Next

LEMMA Typed == Spec => []TypeInv
BY InitTyped, NextTyped, PTL DEF Spec

\* The rows and the requests keep their types, and a reset in flight was let in
\* by a link that was issued, for any users and requests (AuthService).
THEOREM TypeCorrect == Spec => []TypeOK
<1>1. TypeInv => TypeOK
  BY DEF TypeInv
<1> QED
  BY Typed, <1>1, PTL

-----------------------------------------------------------------------------
(* Refreshing never multiplies sessions *)

\* How the refreshes that have deleted their row change with one request.
LEMMA RotatingChange ==
  ASSUME TypeOK, NEW r \in Requests, OthersSame(r), NEW u \in Users
  PROVE  /\ IsFiniteSet(Rotating(u))
         /\ Rotating(u) \ {r} = Rotating(u)' \ {r}
BY RequestsAssumption, FS_Subset DEF Rotating, OthersSame, At

\* Neither the sessions of a user nor those being rotated become more.
LEMMA NoMoreSessions ==
  ASSUME TypeInv, SessionConservation, NEW r \in Requests, OthersSame(r),
         rows' \subseteq rows, logins' = logins,
         \A u \in Users : r \in Rotating(u)' => r \in Rotating(u)
  PROVE  SessionConservation'
<1> SUFFICES ASSUME NEW u \in Users
             PROVE  Cardinality(RowsOf(u)') + Cardinality(Rotating(u)') <= logins[u]
  BY DEF SessionConservation
<1>1. IsFiniteSet(RowsOf(u)) /\ RowsOf(u)' \in SUBSET RowsOf(u)
  BY FS_Subset DEF TypeInv, RowsOf
<1>2. /\ Cardinality(RowsOf(u)) \in Nat /\ Cardinality(RowsOf(u)') \in Nat
      /\ Cardinality(RowsOf(u)') <= Cardinality(RowsOf(u))
  BY <1>1, PartCount
<1>3. /\ Cardinality(Rotating(u)) \in Nat /\ Cardinality(Rotating(u)') \in Nat
      /\ Cardinality(Rotating(u)') <= Cardinality(Rotating(u))
  BY RotatingChange, CountChange DEF TypeInv
<1>4. logins[u] \in Nat /\ Cardinality(RowsOf(u)) + Cardinality(Rotating(u)) <= logins[u]
  BY DEF TypeInv, TypeOK, SessionConservation
<1> QED
  BY <1>2, <1>3, <1>4

LEMMA RefreshDeleteConserves ==
  ASSUME TypeInv, SessionConservation, NEW r \in Requests, RefreshDelete(r)
  PROVE  SessionConservation'
<1>1. At(r, "refreshToken", "delete") /\ logins' = logins
  BY DEF RefreshDelete, history
<1>2. CASE UNCHANGED rows /\ Finish(r)
  <2>1. req'[r] = Idle /\ OthersSame(r)
    BY <1>2, RequestChange DEF Finish, TypeInv
  <2>2. \A u \in Users : r \notin Rotating(u)'
    BY <2>1 DEF Rotating, At
  <2> QED
    BY <1>1, <1>2, <2>1, <2>2, NoMoreSessions
<1>3. ASSUME NEW s \in rows, s.user = req[r].user, rows' = rows \ {s},
             req' = [req EXCEPT ![r].step = "persist", ![r].password = s.password]
      PROVE  SessionConservation'
  <2>1. s.password \in Nat
    BY DEF TypeInv, TypeOK, Session
  <2>2. \E q \in InFlight :
           /\ req' = [req EXCEPT ![r] = q] /\ q # Idle
           /\ q.op = "refreshToken" /\ q.user = req[r].user /\ q.link = req[r].link
           /\ q.password = s.password /\ q.step = "persist"
    BY <1>1, <1>3, <2>1, RotateRecord, Zenon DEF TypeInv
  <2>3. /\ OthersSame(r) /\ req'[r] # Idle /\ req'[r].user = req[r].user
        /\ req'[r].op = "refreshToken" /\ req'[r].step = "persist"
    BY <2>2, RequestChange DEF TypeInv
  <2> SUFFICES ASSUME NEW u \in Users
               PROVE  Cardinality(RowsOf(u)') + Cardinality(Rotating(u)') <= logins[u]
    BY <1>1 DEF SessionConservation
  <2>4. r \notin Rotating(u) /\ (r \in Rotating(u)' <=> u = req[r].user)
    BY <1>1, <2>3 DEF Rotating, At
  <2>5. /\ Cardinality(Rotating(u)) \in Nat
        /\ Cardinality(Rotating(u)') =
             Cardinality(Rotating(u)) + IF u = req[r].user THEN 1 ELSE 0
    BY <2>3, <2>4, RotatingChange, CountChange DEF TypeInv
  <2>6. IsFiniteSet(RowsOf(u)) /\ RowsOf(u)' = RowsOf(u) \ {s}
    BY <1>3, FS_Subset DEF TypeInv, RowsOf
  <2>7. s \in RowsOf(u) <=> u = req[r].user
    BY <1>3 DEF RowsOf
  <2>8. /\ Cardinality(RowsOf(u)) \in Nat
        /\ Cardinality(RowsOf(u)') =
             Cardinality(RowsOf(u)) - IF u = req[r].user THEN 1 ELSE 0
    BY <2>6, <2>7, FS_RemoveElement, FS_CardinalityType
  <2>9. logins[u] \in Nat /\ Cardinality(RowsOf(u)) + Cardinality(Rotating(u)) <= logins[u]
    BY DEF TypeInv, TypeOK, SessionConservation
  <2> QED
    BY <2>5, <2>8, <2>9
<1> QED
  BY <1>2, <1>3 DEF RefreshDelete, RowsOfToken

\* A row is inserted for a login, which counts, or for the one a refresh deleted.
LEMMA PersistConserves ==
  ASSUME TypeInv, SessionConservation, NEW r \in Requests, PersistRefreshToken(r)
  PROVE  SessionConservation'
<1> DEFINE v == req[r].user
           s == [user |-> v, iat |-> clock, password |-> req[r].password]
<1>1. /\ At(r, "login", "persist") \/ At(r, "refreshToken", "persist")
      /\ req' = [req EXCEPT ![r] = Idle]
  BY DEF PersistRefreshToken, Finish
<1>2. req'[r] = Idle /\ OthersSame(r) /\ v \in Users
  BY <1>1, RequestChange DEF TypeInv, TypeOK, InFlight, At
<1>3. \A u \in Users : r \notin Rotating(u)'
  BY <1>2 DEF Rotating, At
<1>4. CASE UNCHANGED <<rows, logins>>
  BY <1>2, <1>3, <1>4, NoMoreSessions
<1>5. CASE /\ rows' = rows \cup {s}
           /\ logins' = IF req[r].op = "login" THEN [logins EXCEPT ![v] = @ + 1]
                        ELSE logins
  <2> SUFFICES ASSUME NEW u \in Users
               PROVE  Cardinality(RowsOf(u)') + Cardinality(Rotating(u)') <= logins'[u]
    BY DEF SessionConservation
  <2>1. r \in Rotating(u) <=> u = v /\ req[r].op = "refreshToken"
    BY <1>1 DEF Rotating, At
  <2>2. /\ Cardinality(Rotating(u)) \in Nat
        /\ Cardinality(Rotating(u)') = Cardinality(Rotating(u)) -
             IF u = v /\ req[r].op = "refreshToken" THEN 1 ELSE 0
    BY <1>2, <1>3, <2>1, RotatingChange, CountChange DEF TypeInv
  <2>3. IsFiniteSet(RowsOf(u))
    BY FS_Subset DEF TypeInv, RowsOf
  <2>4. RowsOf(u)' = IF u = v THEN RowsOf(u) \cup {s} ELSE RowsOf(u)
    BY <1>5 DEF RowsOf
  <2>5. /\ Cardinality(RowsOf(u)) \in Nat /\ Cardinality(RowsOf(u)') \in Nat
        /\ Cardinality(RowsOf(u)') <= Cardinality(RowsOf(u)) + IF u = v THEN 1 ELSE 0
    <3> HIDE DEF s, v
    <3> DEFINE S == RowsOf(u)
    <3> HIDE DEF S
    <3>1. Cardinality(S) \in Nat
      BY <2>3, FS_CardinalityType DEF S
    <3>2. Cardinality(S \cup {s}) = IF s \in S THEN Cardinality(S) ELSE Cardinality(S) + 1
      BY <2>3, FS_AddElement DEF S
    <3> QED
      BY <2>4, <3>1, <3>2 DEF S
  <2>6. /\ logins[u] \in Nat
        /\ Cardinality(RowsOf(u)) + Cardinality(Rotating(u)) <= logins[u]
    BY DEF TypeInv, TypeOK, SessionConservation
  <2>7. logins'[u] = logins[u] + IF u = v /\ req[r].op = "login" THEN 1 ELSE 0
    BY <1>2, <1>5 DEF TypeInv, TypeOK
  <2>8. req[r].op = "login" \/ req[r].op = "refreshToken"
    BY <1>1 DEF At
  <2> HIDE DEF v, s
  <2> QED
    BY <2>2, <2>5, <2>6, <2>7, <2>8
<1> QED
  BY <1>4, <1>5 DEF PersistRefreshToken

\* What a request that starts looks like.
LEMMA StartRecord ==
  ASSUME TypeOK, NEW r \in Requests, NEW op, NEW step, NEW u, NEW t, NEW p, NEW n,
         Start(r, op, step, u, t, p, n)
  PROVE  /\ req[r] = Idle /\ OthersSame(r)
         /\ orderly' = (orderly /\ Alone)
         /\ req'[r].op = op /\ req'[r].step = step /\ req'[r].user = u
         /\ req'[r].password = p /\ req'[r].link = n
<1> DEFINE q == [op |-> op, step |-> step, user |-> u, iat |-> t, password |-> p, link |-> n]
<1>1. /\ req' = [req EXCEPT ![r] = q] /\ req[r] = Idle
      /\ orderly' = (orderly /\ Alone)
  BY DEF Start
<1>2. /\ q.op = op /\ q.step = step /\ q.user = u /\ q.password = p /\ q.link = n
  OBVIOUS
<1> HIDE DEF q
<1>3. req'[r] = q /\ OthersSame(r)
  BY <1>1, RequestChange
<1> QED
  BY <1>1, <1>2, <1>3 DEF q

\* What a reset of a password looks like once the password is written.
LEMMA RevokeRecord ==
  ASSUME TypeOK, NEW r \in Requests, req[r] # Idle, Continue(r, "revoke")
  PROVE  /\ OthersSame(r) /\ orderly' = orderly
         /\ req'[r] # Idle
         /\ req'[r].op = req[r].op /\ req'[r].step = "revoke"
         /\ req'[r].user = req[r].user /\ req'[r].link = req[r].link
<1>1. PICK q \in InFlight :
        /\ req' = [req EXCEPT ![r] = q] /\ q # Idle
        /\ q.op = req[r].op /\ q.user = req[r].user /\ q.link = req[r].link
        /\ q.step = "revoke"
  BY ContinueRecord
<1>2. req'[r] = q /\ OthersSame(r)
  BY <1>1, RequestChange
<1> QED
  BY <1>1, <1>2 DEF Continue

LEMMA EndRecord ==
  ASSUME TypeOK, NEW r \in Requests, req' = [req EXCEPT ![r] = Idle]
  PROVE  req'[r] = Idle /\ OthersSame(r)
BY RequestChange

LEMMA NextConserves == TypeInv /\ SessionConservation /\ [Next]_vars => SessionConservation'
<1> SUFFICES ASSUME TypeInv, SessionConservation, [Next]_vars PROVE SessionConservation'
  OBVIOUS
<1>1. CASE UNCHANGED vars
  BY <1>1 DEF vars, SessionConservation, RowsOf, Rotating, At
<1>2. CASE Environment
  <2>1. UNCHANGED <<rows, req, logins>>
    BY <1>2 DEF Environment, Tick, LinkExpires, SetStanding, history
  <2> QED
    BY <2>1 DEF SessionConservation, RowsOf, Rotating, At
<1>3. ASSUME NEW r \in Requests, NEW u \in Users, Call(r, u)
      PROVE  SessionConservation'
  <2>1. ASSUME NEW op, NEW step, NEW t, NEW p, NEW n,
               op # "refreshToken" \/ step # "persist",
               Start(r, op, step, u, t, p, n), ReadOnly
        PROVE  SessionConservation'
    <3>1. OthersSame(r) /\ req'[r].op = op /\ req'[r].step = step
      BY <2>1, StartRecord DEF TypeInv
    <3>2. \A v \in Users : r \notin Rotating(v)'
      BY <2>1, <3>1 DEF Rotating, At
    <3> QED
      BY <2>1, <3>1, <3>2, NoMoreSessions DEF ReadOnly, history
  <2>2. CASE Logout(r, u)
    <3>1. rows' \subseteq rows /\ UNCHANGED <<req, logins>>
      BY <2>2 DEF Logout, history
    <3>2. OthersSame(r) /\ \A v \in Users : Rotating(v)' = Rotating(v)
      BY <3>1 DEF OthersSame, Rotating, At
    <3> QED
      BY <3>1, <3>2, NoMoreSessions
  <2> QED
    BY <1>3, <2>1, <2>2 DEF Call, Login, RefreshToken, ForgotPassword, ResetPassword,
       ResetTechnicianPassword
<1>4. ASSUME NEW r \in Requests, Step(r) \/ Fail(r)
      PROVE  SessionConservation'
  <2>1. ASSUME rows' \subseteq rows, logins' = logins, OthersSame(r),
               req'[r] = Idle \/ req'[r].step = "revoke"
        PROVE  SessionConservation'
    <3>1. \A v \in Users : r \notin Rotating(v)'
      BY <2>1 DEF Rotating, At
    <3> QED
      BY <2>1, <3>1, NoMoreSessions
  <2>2. CASE ForgotPasswordSaveLink(r)
    BY <2>1, <2>2, EndRecord DEF ForgotPasswordSaveLink, Finish, TypeInv
  <2>3. CASE ResetPasswordUpdate(r)
    BY <2>1, <2>3, RevokeRecord DEF ResetPasswordUpdate, At, TypeInv
  <2>4. CASE ResetTechnicianPasswordUpdate(r)
    BY <2>1, <2>4, RevokeRecord DEF ResetTechnicianPasswordUpdate, history, At, TypeInv
  <2>5. CASE RevokeSessions(r)
    BY <2>1, <2>5, EndRecord DEF RevokeSessions, Finish, history, TypeInv
  <2>6. CASE Fail(r)
    BY <2>1, <2>6, EndRecord DEF Fail, ReadOnly, history, TypeInv
  <2> QED
    BY <1>4, <2>2, <2>3, <2>4, <2>5, <2>6, RefreshDeleteConserves, PersistConserves DEF Step
<1> QED
  BY <1>1, <1>2, <1>3, <1>4 DEF Next

\* However many requests present one token at once, a user never has more
\* sessions, those being rotated included, than its logins opened
\* (refreshToken, persistRefreshToken, logout).
THEOREM SessionsConserved == Spec => []SessionConservation
<1>1. Init => SessionConservation
  <2> SUFFICES ASSUME Init, NEW u \in Users
               PROVE  Cardinality(RowsOf(u)) + Cardinality(Rotating(u)) <= logins[u]
    BY DEF SessionConservation
  <2>1. RowsOf(u) = {} /\ Rotating(u) = {} /\ logins[u] = 0
    BY DEF Init, RowsOf, Rotating, At
  <2> QED
    BY <2>1, FS_EmptySet
<1> QED
  BY <1>1, NextConserves, Typed, PTL DEF Spec

-----------------------------------------------------------------------------
(* Sessions of today's password *)

\* While requests come one at a time, no two are in flight.
SingleFlight ==
  orderly => \A r, s \in Requests : req[r] # Idle /\ req[s] # Idle => r = s

\* The session that is about to be inserted was checked by today's password.
PersistCurrent ==
  orderly =>
    \A r \in Requests :
      At(r, "login", "persist") \/ At(r, "refreshToken", "persist") =>
        req[r].password = password[req[r].user]

CurrentInv == SingleFlight /\ PersistCurrent /\ SessionsCurrent

Sole(r) == \A s \in Requests \ {r} : req[s] = Idle

\* What one request has to see to.
LEMMA CurrentAfter ==
  ASSUME NEW r \in Requests, OthersSame(r),
         orderly' => Sole(r),
         orderly' /\ (At(r, "login", "persist") \/ At(r, "refreshToken", "persist"))' =>
           req'[r].password = password'[req'[r].user],
         orderly' =>
           \A s \in rows' :
             \/ s.password = password'[s.user]
             \/ Revoking(r)' /\ req'[r].user = s.user
  PROVE  CurrentInv'
<1>1. orderly' => \A s \in Requests \ {r} : req'[s] = Idle
  BY DEF Sole, OthersSame
<1>2. SingleFlight'
  BY <1>1 DEF SingleFlight
<1>3. PersistCurrent'
  BY <1>1 DEF PersistCurrent, At
<1>4. SessionsCurrent'
  BY DEF SessionsCurrent
<1> QED
  BY <1>2, <1>3, <1>4 DEF CurrentInv

LEMMA SoleSees ==
  ASSUME CurrentInv, orderly, NEW r \in Requests, req[r] # Idle \/ Alone
  PROVE  /\ Sole(r)
         /\ \A s \in rows :
              \/ s.password = password[s.user]
              \/ Revoking(r) /\ req[r].user = s.user
<1>1. Sole(r)
  BY DEF CurrentInv, SingleFlight, Sole, Alone
<1>2. \A t \in Requests : Revoking(t) => t = r
  BY <1>1 DEF Sole, Revoking, At
<1> QED
  BY <1>1, <1>2 DEF CurrentInv, SessionsCurrent

LEMMA CallKeepsCurrent ==
  ASSUME TypeInv, CurrentInv, NEW r \in Requests, NEW u \in Users, Call(r, u)
  PROVE  CurrentInv'
<1>1. ASSUME orderly, Alone
      PROVE  Sole(r) /\ \A s \in rows : s.password = password[s.user]
  <2>1. ~Revoking(r)
    BY <1>1 DEF Alone, Revoking, At
  <2> QED
    BY <1>1, <2>1, SoleSees
<1>2. ASSUME NEW op, NEW step, NEW t, NEW p, NEW n,
             step = "persist" => p = password[u],
             Start(r, op, step, u, t, p, n), ReadOnly
      PROVE  CurrentInv'
  <2>1. /\ OthersSame(r) /\ orderly' = (orderly /\ Alone)
        /\ req'[r].step = step /\ req'[r].user = u /\ req'[r].password = p
    BY <1>2, StartRecord DEF TypeInv
  <2>2. password' = password /\ rows' = rows
    BY <1>2 DEF ReadOnly, userVars
  <2> QED
    BY <1>1, <1>2, <2>1, <2>2, CurrentAfter DEF At
<1>3. CASE Logout(r, u)
  <2>1. /\ rows' \subseteq rows /\ UNCHANGED <<req, password>>
        /\ orderly' = (orderly /\ Alone)
    BY <1>3 DEF Logout, userVars
  <2>2. OthersSame(r) /\ (orderly' => ~At(r, "login", "persist")'
                                   /\ ~At(r, "refreshToken", "persist")')
    BY <2>1 DEF OthersSame, At, Alone
  <2> QED
    BY <1>1, <2>1, <2>2, CurrentAfter
<1> QED
  BY <1>2, <1>3 DEF Call, Login, RefreshToken, ForgotPassword, ResetPassword,
     ResetTechnicianPassword

LEMMA StepKeepsCurrent ==
  ASSUME TypeInv, CurrentInv, NEW r \in Requests, Step(r)
  PROVE  CurrentInv'
<1>1. req[r] # Idle /\ orderly' = orderly
  BY DEF Step, RefreshDelete, PersistRefreshToken, ForgotPasswordSaveLink,
     ResetPasswordUpdate, ResetTechnicianPasswordUpdate, RevokeSessions, Revoking, At,
     Finish, Continue
<1>2. orderly' => Sole(r)
  BY <1>1, SoleSees
<1>3. ASSUME orderly, ~Revoking(r)
      PROVE  \A s \in rows : s.password = password[s.user]
  BY <1>1, <1>3, SoleSees
<1>4. CASE RefreshDelete(r)
  <2>1. /\ At(r, "refreshToken", "delete") /\ password' = password
        /\ ~Revoking(r) /\ rows' \subseteq rows
    BY <1>4 DEF RefreshDelete, userVars, Revoking, At
  <2>2. CASE Finish(r)
    <3>1. req'[r] = Idle /\ OthersSame(r)
      BY <2>2, EndRecord DEF Finish, TypeInv
    <3> QED
      BY <1>1, <1>2, <1>3, <2>1, <3>1, CurrentAfter DEF At
  <2>3. ASSUME NEW s \in rows, s.user = req[r].user,
               req' = [req EXCEPT ![r].step = "persist", ![r].password = s.password]
        PROVE  CurrentInv'
    <3>1. s.password \in Nat
      BY DEF TypeInv, TypeOK, Session
    <3>2. \E q \in InFlight :
             /\ req' = [req EXCEPT ![r] = q] /\ q # Idle
             /\ q.op = "refreshToken" /\ q.user = req[r].user /\ q.link = req[r].link
             /\ q.password = s.password /\ q.step = "persist"
      BY <2>1, <2>3, <3>1, RotateRecord, Zenon DEF TypeInv
    <3>3. /\ OthersSame(r) /\ req'[r].user = s.user /\ req'[r].password = s.password
      BY <2>3, <3>2, RequestChange DEF TypeInv
    <3> QED
      BY <1>1, <1>2, <1>3, <2>1, <3>3, CurrentAfter
  <2> QED
    BY <1>4, <2>2, <2>3 DEF RefreshDelete, RowsOfToken
<1>5. CASE PersistRefreshToken(r)
  <2> DEFINE s == [user |-> req[r].user, iat |-> clock, password |-> req[r].password]
  <2>1. /\ At(r, "login", "persist") \/ At(r, "refreshToken", "persist")
        /\ rows' \subseteq rows \cup {s} /\ password' = password /\ Finish(r)
    BY <1>5 DEF PersistRefreshToken, userVars
  <2>2. req'[r] = Idle /\ OthersSame(r) /\ ~Revoking(r)
    BY <2>1, EndRecord DEF Finish, TypeInv, Revoking, At
  <2>3. orderly => s.password = password[s.user]
    BY <2>1 DEF CurrentInv, PersistCurrent
  <2> HIDE DEF s
  <2>4. orderly' => \A x \in rows' : x.password = password'[x.user]
    BY <1>1, <1>3, <2>1, <2>2, <2>3
  <2> QED
    BY <1>2, <2>2, <2>4, CurrentAfter DEF At
<1>6. CASE ForgotPasswordSaveLink(r)
  <2>1. /\ req'[r] = Idle /\ OthersSame(r) /\ ~Revoking(r)
        /\ UNCHANGED <<rows, password>>
    BY <1>6, EndRecord DEF ForgotPasswordSaveLink, Finish, TypeInv, Revoking, At
  <2> QED
    BY <1>1, <1>2, <1>3, <2>1, CurrentAfter DEF At
<1>7. ASSUME At(r, "resetPassword", "setPassword")
               \/ At(r, "resetTechnicianPassword", "setPassword"),
             password' = [password EXCEPT ![req[r].user] = @ + 1],
             Continue(r, "revoke"), rows' = rows
      PROVE  CurrentInv'
  <2>1. /\ OthersSame(r) /\ Revoking(r)' /\ req'[r].user = req[r].user
        /\ req'[r].step = "revoke" /\ ~Revoking(r)
    BY <1>7, RevokeRecord DEF TypeInv, At, Revoking
  <2>2. \A v \in Users : v # req[r].user => password'[v] = password[v]
    BY <1>7 DEF TypeInv, TypeOK
  <2>3. \A s \in rows : s.user \in Users
    BY DEF TypeInv, TypeOK, Session
  <2> QED
    BY <1>1, <1>2, <1>3, <1>7, <2>1, <2>2, <2>3, CurrentAfter DEF At
<1>8. CASE RevokeSessions(r)
  <2>1. /\ req'[r] = Idle /\ OthersSame(r) /\ password' = password
        /\ rows' = rows \ RowsOf(req[r].user)
    BY <1>8, EndRecord DEF RevokeSessions, Finish, TypeInv, userVars
  <2>2. orderly' => \A s \in rows' : s.password = password'[s.user]
    BY <1>1, <2>1, SoleSees DEF RowsOf
  <2> QED
    BY <1>2, <2>1, <2>2, CurrentAfter DEF At
<1> QED
  BY <1>4, <1>5, <1>6, <1>7, <1>8 DEF Step, ResetPasswordUpdate,
     ResetTechnicianPasswordUpdate

LEMMA NextKeepsCurrent == TypeInv /\ CurrentInv /\ [Next]_vars => CurrentInv'
<1> SUFFICES ASSUME TypeInv, CurrentInv, [Next]_vars PROVE CurrentInv'
  OBVIOUS
<1>1. CASE UNCHANGED vars \/ Environment
  <2>1. UNCHANGED <<rows, req, password, orderly>>
    BY <1>1 DEF vars, Environment, Tick, LinkExpires, SetStanding, userVars
  <2> QED
    BY <2>1 DEF CurrentInv, SingleFlight, PersistCurrent, SessionsCurrent, Revoking, At
<1>2. ASSUME NEW r \in Requests, Fail(r)
      PROVE  CurrentInv'
  BY <1>2 DEF Fail, CurrentInv, SingleFlight, PersistCurrent, SessionsCurrent
<1> QED
  BY <1>1, <1>2, CallKeepsCurrent, StepKeepsCurrent DEF Next

\* While requests come one at a time and none fails half-way, no session
\* outlives the password it was opened under, but for the moment between the
\* two statements of a reset (resetPassword, resetTechnicianPassword).
THEOREM SessionsStayCurrent == Spec => []SessionsCurrent
<1>1. Init => CurrentInv
  BY DEF Init, CurrentInv, SingleFlight, PersistCurrent, SessionsCurrent, At
<1>2. CurrentInv => SessionsCurrent
  BY DEF CurrentInv
<1> QED
  BY <1>1, <1>2, NextKeepsCurrent, Typed, PTL DEF Spec
-----------------------------------------------------------------------------
(* A reset link is used once *)

\* The requests that were let in by link n and have not yet used it.
Presenting(u, n) ==
  {r \in Requests : At(r, "resetPassword", "setPassword")
                      /\ req[r].user = u /\ req[r].link = n}

MayUse == IF orderly THEN 1 ELSE Cardinality(Requests)

\* The open link of a user was not used yet, and the requests that present a
\* link count as its uses.
LinkInv ==
  \A u \in Users : \A n \in 1..MaxLinks :
    /\ n > issued[u] \/ n = link[u] => uses[u][n] = 0
    /\ uses[u][n] + Cardinality(Presenting(u, n)) <= MayUse

LEMMA PresentingChange ==
  ASSUME TypeInv, NEW r \in Requests, OthersSame(r), NEW u, NEW n
  PROVE  /\ IsFiniteSet(Presenting(u, n))
         /\ Presenting(u, n) \ {r} = Presenting(u, n)' \ {r}
BY RequestsAssumption, FS_Subset DEF Presenting, OthersSame, At

\* There is a request when one does something.
LEMMA MayUseStep ==
  ASSUME TypeInv, NEW r \in Requests, orderly' => orderly, orderly' \in BOOLEAN
  PROVE  MayUse \in Nat /\ MayUse' \in Nat /\ MayUse <= MayUse' /\ MayUse' >= 1
<1>1. IsFiniteSet({r}) /\ Cardinality({r}) = 1 /\ {r} \in SUBSET Requests
  BY FS_Singleton
<1>2. Cardinality(Requests) \in Nat /\ Cardinality(Requests) >= 1
  BY <1>1, RequestsAssumption, PartCount
<1>3. orderly \in BOOLEAN
  BY DEF TypeInv, TypeOK
<1> QED
  BY <1>2, <1>3 DEF MayUse

\* The steps that neither use a link nor let a request in.
LEMMA LinksRest ==
  ASSUME TypeInv, LinkInv, NEW r \in Requests, OthersSame(r), uses' = uses,
         orderly' => orderly, orderly' \in BOOLEAN,
         \A u \in Users :
           /\ issued'[u] \in Nat /\ issued'[u] >= issued[u]
           /\ link'[u] = link[u] \/ link'[u] = issued[u] + 1,
         req'[r] = req[r] \/ ~At(r, "resetPassword", "setPassword")'
  PROVE  LinkInv'
<1> SUFFICES ASSUME NEW u \in Users, NEW n \in 1..MaxLinks
             PROVE  /\ n > issued'[u] \/ n = link'[u] => uses[u][n] = 0
                    /\ uses[u][n] + Cardinality(Presenting(u, n)') <= MayUse'
  BY DEF LinkInv
<1>1. issued[u] \in Nat /\ uses[u][n] \in Nat /\ n \in Nat
  BY LinksAssumption DEF TypeInv, TypeOK
<1>2. n > issued[u] \/ n = link[u] => uses[u][n] = 0
  BY DEF LinkInv
<1>3. n > issued'[u] \/ n = link'[u] => uses[u][n] = 0
  BY <1>1, <1>2
<1>4. r \in Presenting(u, n)' => r \in Presenting(u, n)
  BY DEF Presenting, At
<1>5. /\ Cardinality(Presenting(u, n)) \in Nat /\ Cardinality(Presenting(u, n)') \in Nat
      /\ Cardinality(Presenting(u, n)') <= Cardinality(Presenting(u, n))
  BY <1>4, PresentingChange, CountChange
<1>6. uses[u][n] + Cardinality(Presenting(u, n)) <= MayUse
  BY DEF LinkInv
<1> QED
  BY <1>1, <1>3, <1>5, <1>6, MayUseStep

\* A link that was not used lets the request in; while requests come one at a
\* time, it is the only one.
LEMMA ResetPasswordOnce ==
  ASSUME TypeInv, LinkInv, NEW r \in Requests, NEW v \in Users, ResetPassword(r, v)
  PROVE  LinkInv'
<1>1. /\ OthersSame(r) /\ orderly' = (orderly /\ Alone)
      /\ req'[r].user = v /\ req'[r].link = link[v] /\ req[r] = Idle
  BY StartRecord DEF ResetPassword, TypeInv
<1>2. UNCHANGED <<issued, link, uses>> /\ orderly' \in BOOLEAN
  BY <1>1 DEF ResetPassword, ReadOnly, userVars, history, Alone
<1> SUFFICES ASSUME NEW u \in Users, NEW n \in 1..MaxLinks
             PROVE  uses[u][n] + Cardinality(Presenting(u, n)') <= MayUse'
  BY <1>2 DEF LinkInv
<1>3. uses[u][n] \in Nat /\ uses[u][n] + Cardinality(Presenting(u, n)) <= MayUse
  BY DEF LinkInv, TypeInv, TypeOK
<1>4. MayUse \in Nat /\ MayUse' \in Nat /\ MayUse <= MayUse' /\ MayUse' >= 1
  BY <1>1, <1>2, MayUseStep
<1>5. CASE u = v /\ n = link[v]
  <2>1. uses[u][n] = 0
    BY <1>5 DEF LinkInv
  <2>2. CASE orderly'
    <3>1. \A s \in Requests \ {r} : req'[s] = Idle
      BY <1>1, <2>2 DEF Alone, OthersSame
    <3>2. \A x, y \in Presenting(u, n)' : x = y
      BY <3>1 DEF Presenting, At
    <3>3. Cardinality(Presenting(u, n)') \in 0..1
      BY <3>2, AtMostOne
    <3> QED
      BY <1>4, <2>1, <3>3
  <2>3. CASE ~orderly'
    <3>1. Presenting(u, n)' \in SUBSET Requests
      BY DEF Presenting
    <3>2. /\ Cardinality(Presenting(u, n)') \in Nat
          /\ Cardinality(Presenting(u, n)') <= Cardinality(Requests)
      BY <3>1, RequestsAssumption, PartCount
    <3> QED
      BY <2>1, <2>3, <3>2 DEF MayUse
  <2> QED
    BY <2>2, <2>3
<1>6. CASE ~(u = v /\ n = link[v])
  <2>1. r \notin Presenting(u, n)' /\ r \notin Presenting(u, n)
    BY <1>1, <1>6 DEF Presenting, At
  <2>2. /\ Cardinality(Presenting(u, n)) \in Nat
        /\ Cardinality(Presenting(u, n)') = Cardinality(Presenting(u, n))
    BY <1>1, <2>1, PresentingChange, CountChange
  <2> QED
    BY <1>3, <1>4, <2>2
<1> QED
  BY <1>5, <1>6

\* The use of a link is one presentation less, and the user has no link.
LEMMA ResetPasswordUpdateOnce ==
  ASSUME TypeInv, LinkInv, NEW r \in Requests, ResetPasswordUpdate(r)
  PROVE  LinkInv'
<1> DEFINE v == req[r].user
           m == req[r].link
<1>1. /\ At(r, "resetPassword", "setPassword") /\ Continue(r, "revoke")
      /\ link' = [link EXCEPT ![v] = 0]
      /\ uses' = [uses EXCEPT ![v][m] = @ + 1]
      /\ issued' = issued
  BY DEF ResetPasswordUpdate
<1>2. /\ OthersSame(r) /\ orderly' = orderly
      /\ req'[r].step = "revoke"
  BY <1>1, RevokeRecord DEF TypeInv, At
<1>3. v \in Users /\ m \in 1..issued[v] /\ m \in 1..MaxLinks
  BY <1>1, LinkInUse DEF At
<1> SUFFICES ASSUME NEW u \in Users, NEW n \in 1..MaxLinks
             PROVE  /\ n > issued[u] \/ n = link'[u] => uses'[u][n] = 0
                    /\ uses'[u][n] + Cardinality(Presenting(u, n)') <= MayUse
  BY <1>1, <1>2 DEF LinkInv, MayUse
<1>4. /\ uses[u] \in [1..MaxLinks -> Nat] /\ uses[u][n] \in Nat
      /\ issued[u] \in Nat /\ link[u] \in Nat /\ n \in Nat \ {0}
  BY LinksAssumption DEF TypeInv, TypeOK
<1>5. uses'[u][n] = IF u = v /\ n = m THEN uses[u][n] + 1 ELSE uses[u][n]
  BY <1>1, <1>3, <1>4 DEF TypeInv, TypeOK
<1>6. link'[u] = IF u = v THEN 0 ELSE link[u]
  BY <1>1, <1>3 DEF TypeInv, TypeOK
<1>7. /\ n > issued[u] \/ n = link[u] => uses[u][n] = 0
      /\ uses[u][n] + Cardinality(Presenting(u, n)) <= MayUse
  BY DEF LinkInv
<1>8. r \notin Presenting(u, n)' /\ (r \in Presenting(u, n) <=> u = v /\ n = m)
  BY <1>1, <1>2 DEF Presenting, At
<1>9. /\ Cardinality(Presenting(u, n)) \in Nat
      /\ Cardinality(Presenting(u, n)') =
           Cardinality(Presenting(u, n)) - IF u = v /\ n = m THEN 1 ELSE 0
  BY <1>2, <1>8, PresentingChange, CountChange
<1>10. MayUse \in Nat
  BY RequestsAssumption, FS_CardinalityType DEF MayUse
<1> HIDE DEF v, m
<1> QED
  BY <1>3, <1>4, <1>5, <1>6, <1>7, <1>9, <1>10

LEMMA NextUsesOnce == TypeInv /\ LinkInv /\ [Next]_vars => LinkInv'
<1> SUFFICES ASSUME TypeInv, LinkInv, [Next]_vars PROVE LinkInv'
  OBVIOUS
<1>0. /\ orderly \in BOOLEAN
      /\ \A u \in Users : issued[u] \in Nat /\ issued[u] >= issued[u]
  BY DEF TypeInv, TypeOK
<1>1. CASE UNCHANGED vars \/ Environment
  <2>1. UNCHANGED <<link, issued, uses, req, orderly>>
    BY <1>1 DEF vars, Environment, Tick, LinkExpires, SetStanding, userVars, history
  <2> QED
    BY <2>1 DEF LinkInv, Presenting, MayUse, At
<1>2. ASSUME NEW r \in Requests, NEW u \in Users, Call(r, u)
      PROVE  LinkInv'
  <2>1. ASSUME NEW op, NEW step, NEW t, NEW p, NEW n, op # "resetPassword",
               Start(r, op, step, u, t, p, n), ReadOnly
        PROVE  LinkInv'
    <3>1. OthersSame(r) /\ req'[r].op = op /\ orderly' = (orderly /\ Alone)
      BY <2>1, StartRecord DEF TypeInv
    <3>2. /\ UNCHANGED <<link, issued, uses>>
          /\ orderly' \in BOOLEAN /\ (orderly' => orderly)
      BY <2>1, <3>1 DEF ReadOnly, userVars, history, Alone
    <3>3. ~At(r, "resetPassword", "setPassword")'
      BY <2>1, <3>1 DEF At
    <3> QED
      BY <1>0, <3>1, <3>2, <3>3, LinksRest
  <2>2. CASE Logout(r, u)
    <3>1. /\ UNCHANGED <<req, link, issued, uses>>
          /\ orderly' = (orderly /\ Alone)
      BY <2>2 DEF Logout, userVars, history
    <3>2. OthersSame(r) /\ orderly' \in BOOLEAN /\ (orderly' => orderly)
      BY <3>1 DEF OthersSame, Alone
    <3> QED
      BY <1>0, <3>1, <3>2, LinksRest
  <2> QED
    BY <1>2, <2>1, <2>2, ResetPasswordOnce DEF Call, Login, RefreshToken, ForgotPassword,
       ResetTechnicianPassword
<1>3. ASSUME NEW r \in Requests, Step(r) \/ Fail(r)
      PROVE  LinkInv'
  <2>1. ASSUME OthersSame(r), ~At(r, "resetPassword", "setPassword")',
               UNCHANGED <<link, issued, uses>>,
               orderly' \in BOOLEAN, orderly' => orderly
        PROVE  LinkInv'
    BY <1>0, <2>1, LinksRest
  <2>2. CASE RefreshDelete(r)
    <3>1. At(r, "refreshToken", "delete") /\ UNCHANGED <<link, issued, uses, orderly>>
      BY <2>2 DEF RefreshDelete, Finish, userVars, history
    <3>2. CASE Finish(r)
      <4>1. req'[r] = Idle /\ OthersSame(r)
        BY <3>2, EndRecord DEF Finish, TypeInv
      <4> QED
        BY <1>0, <2>1, <3>1, <4>1 DEF At
    <3>3. ASSUME NEW s \in rows,
                 req' = [req EXCEPT ![r].step = "persist", ![r].password = s.password]
          PROVE  LinkInv'
      <4>1. s.password \in Nat
        BY DEF TypeInv, TypeOK, Session
      <4>2. \E q \in InFlight :
               /\ req' = [req EXCEPT ![r] = q] /\ q # Idle
               /\ q.op = "refreshToken" /\ q.user = req[r].user /\ q.link = req[r].link
               /\ q.password = s.password /\ q.step = "persist"
        BY <3>1, <3>3, <4>1, RotateRecord, Zenon DEF TypeInv
      <4>3. OthersSame(r) /\ req'[r].op = "refreshToken"
        BY <4>2, RequestChange DEF TypeInv
      <4> QED
        BY <1>0, <2>1, <3>1, <4>3 DEF At
    <3> QED
      BY <2>2, <3>2, <3>3 DEF RefreshDelete, RowsOfToken
  <2>3. CASE PersistRefreshToken(r)
    BY <1>0, <2>1, <2>3, EndRecord DEF PersistRefreshToken, Finish, userVars, At, TypeInv
  <2>4. CASE ForgotPasswordSaveLink(r)
    <3> DEFINE v == req[r].user
    <3>1. /\ At(r, "forgotPassword", "saveLink") /\ Finish(r) /\ uses' = uses
          /\ issued' = [issued EXCEPT ![v] = @ + 1]
          /\ link' = [link EXCEPT ![v] = issued[v] + 1]
      BY <2>4 DEF ForgotPasswordSaveLink
    <3>2. v \in Users
      BY <3>1 DEF At, TypeInv, TypeOK, InFlight
    <3>3. req'[r] = Idle /\ OthersSame(r) /\ orderly' = orderly
      BY <3>1, EndRecord DEF Finish, TypeInv
    <3> HIDE DEF v
    <3>4. ASSUME NEW u \in Users
          PROVE  /\ issued'[u] \in Nat /\ issued'[u] >= issued[u]
                 /\ link'[u] = link[u] \/ link'[u] = issued[u] + 1
      BY <1>0, <3>1, <3>2 DEF TypeInv, TypeOK
    <3> QED
      BY <1>0, <3>1, <3>3, <3>4, LinksRest DEF At
  <2>5. CASE ResetTechnicianPasswordUpdate(r)
    BY <1>0, <2>1, <2>5, RevokeRecord DEF ResetTechnicianPasswordUpdate, history, At, TypeInv
  <2>6. CASE RevokeSessions(r)
    BY <1>0, <2>1, <2>6, EndRecord DEF RevokeSessions, Finish, userVars, history, At, TypeInv
  <2>7. CASE Fail(r)
    BY <1>0, <2>1, <2>7, EndRecord DEF Fail, ReadOnly, userVars, history, At, TypeInv
  <2> QED
    BY <1>3, <2>2, <2>3, <2>4, <2>5, <2>6, <2>7, ResetPasswordUpdateOnce DEF Step
<1> QED
  BY <1>1, <1>2, <1>3 DEF Next

\* A reset link changes the password once; of requests that present it at the
\* same time, each may do so once, for any users, requests and links
\* (resetPassword, customerResetPassword).
THEOREM LinksUsedOnce == Spec => []LinkUsedOnce
<1>1. Init => LinkInv
  <2> SUFFICES ASSUME Init, NEW u \in Users, NEW n \in 1..MaxLinks
               PROVE  /\ uses[u][n] = 0
                      /\ uses[u][n] + Cardinality(Presenting(u, n)) <= MayUse
    BY DEF LinkInv
  <2>1. uses[u][n] = 0 /\ MayUse = 1 /\ Presenting(u, n) = {}
    BY DEF Init, MayUse, Presenting, At
  <2> QED
    BY <2>1, FS_EmptySet
<1>2. TypeInv /\ LinkInv => LinkUsedOnce
  <2> SUFFICES ASSUME TypeInv, LinkInv, NEW u \in Users, NEW n \in 1..issued[u]
               PROVE  uses[u][n] <= MayUse
    BY DEF LinkUsedOnce, MayUse
  <2>1. Cardinality(Linking(u)) \in Nat /\ issued[u] \in Nat
    BY RequestsAssumption, PartCount DEF Linking, TypeInv, TypeOK
  <2>2. n \in 1..MaxLinks
    BY <2>1, LinksAssumption DEF TypeInv, LinksBounded
  <2>3. Presenting(u, n) \in SUBSET Requests
    BY DEF Presenting
  <2>4. Cardinality(Presenting(u, n)) \in Nat /\ Cardinality(Requests) \in Nat
    BY <2>3, RequestsAssumption, PartCount
  <2>5. uses[u][n] \in Nat /\ uses[u][n] + Cardinality(Presenting(u, n)) <= MayUse
    BY <2>2 DEF TypeInv, TypeOK, LinkInv
  <2> QED
    BY <2>4, <2>5 DEF MayUse
<1> QED
  BY <1>1, <1>2, NextUsesOnce, Typed, PTL DEF Spec
=============================================================================
