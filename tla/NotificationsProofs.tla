-------------------------- MODULE NotificationsProofs --------------------------
(***************************************************************************)
(* Theorems about the notifications for any users, devices, requests and   *)
(* numbers of events: rows and tasks keep their types, a device shows only *)
(* what is in the list of a user who was signed in on it, and belongs to   *)
(* whoever registered it last while requests come one at a time.           *)
(*                                                                         *)
(* A task acts on tokens that it read before, when other users may have    *)
(* got the device since, so what the rows say now is no help.  Two things  *)
(* only grow: the lists of the users, and who was ever signed in where.    *)
(* The inductive invariant says what each task has established of them.    *)
(***************************************************************************)
EXTENDS Notifications, SequenceTheorems, TLAPS

-----------------------------------------------------------------------------
(* The inductive invariant *)

\* A task that is past the search for managers knows whom to tell.
TasksAddressed == \A j \in jobs : j.step # "readManagers" => j.user \in Users

\* The owner of a device was signed in on it.
OwnersHad == \A token \in Tokens : Registered(token) => rows[token].user \in had[token]

\* A task that is about to push has stored the notification first.
TasksListed ==
  \A j \in jobs : j.step \in {"readTokens", "send"} => InInbox(j.event, j.user)

\* A task has tokens once it has read them, and they were the user's.
TasksReach ==
  \A j \in jobs :
    /\ j.step # "send" => j.tokens = {}
    /\ \A token \in j.tokens : j.user \in had[token]

IInv ==
  /\ TypeOK
  /\ TasksAddressed
  /\ OwnersHad
  /\ TasksListed
  /\ TasksReach
  /\ PushesAreListed

-----------------------------------------------------------------------------
(* What only grows *)

ListsGrow == \A e \in Events, u \in Users : InInbox(e, u) => InInbox(e, u)'

HadGrows == \A token \in Tokens : had[token] \subseteq had'[token]

\* A step that adds no task and sends nothing leaves what the tasks know true.
LEMMA TasksStay ==
  ASSUME IInv, ListsGrow, HadGrows, jobs' \subseteq jobs, shown' = shown
  PROVE  TasksAddressed' /\ TasksListed' /\ TasksReach' /\ PushesAreListed'
<1>1. jobs \subseteq Job
  BY DEF IInv, TypeOK
<1>2. shown \in [Tokens -> SUBSET [event : Events, user : Users]]
  BY DEF IInv, TypeOK
<1>3. TasksAddressed'
  BY DEF IInv, TasksAddressed
<1>4. TasksListed'
  <2> SUFFICES ASSUME NEW j \in jobs, j.step \in {"readTokens", "send"}
               PROVE  InInbox(j.event, j.user)'
    BY DEF TasksListed, InInbox
  <2>1. j.event \in Events /\ j.user \in Users
    BY <1>1 DEF Job, IInv, TasksAddressed
  <2>2. InInbox(j.event, j.user)
    BY DEF IInv, TasksListed
  <2> QED
    BY <2>1, <2>2 DEF ListsGrow
<1>5. TasksReach'
  BY <1>1 DEF IInv, TasksReach, HadGrows, Job
<1>6. PushesAreListed'
  <2> SUFFICES ASSUME NEW token \in Tokens, NEW push \in shown[token]
               PROVE  InInbox(push.event, push.user)' /\ push.user \in had'[token]
    BY DEF PushesAreListed, InInbox
  <2>1. push.event \in Events /\ push.user \in Users
    BY <1>2
  <2>2. InInbox(push.event, push.user) /\ push.user \in had[token]
    BY DEF IInv, PushesAreListed
  <2> QED
    BY <2>1, <2>2 DEF ListsGrow, HadGrows
<1> QED
  BY <1>3, <1>4, <1>5, <1>6

\* Lists that stay as they are grow, in the sense of ListsGrow.
LEMMA ListsSame ==
  ASSUME inbox' = inbox
  PROVE  ListsGrow
BY DEF ListsGrow, InInbox

LEMMA HadSame ==
  ASSUME had' = had
  PROVE  HadGrows
BY DEF HadGrows

-----------------------------------------------------------------------------
(* Requests keep their types *)

RequestType == req \in [Requests -> InFlight \cup {Idle}]

LEMMA AtTyped ==
  ASSUME RequestType, NEW r \in Requests, req[r] # Idle
  PROVE  /\ req[r].user \in Users
         /\ req[r].token \in Tokens
BY DEF RequestType, InFlight

LEMMA BeginTyped ==
  ASSUME RequestType, orderly \in BOOLEAN, NEW r \in Requests,
         NEW q \in InFlight, Begin(r, q)
  PROVE  RequestType' /\ orderly' \in BOOLEAN
<1>1. RequestType'
  BY DEF RequestType, Begin
<1>2. orderly' \in BOOLEAN
  BY DEF Begin, Alone
<1> QED
  BY <1>1, <1>2

LEMMA EndTyped ==
  ASSUME RequestType, orderly \in BOOLEAN, NEW r \in Requests,
         InOneStep(r) \/ Finish(r) \/ Abandon(r)
  PROVE  RequestType' /\ orderly' \in BOOLEAN
<1>1. RequestType'
  BY DEF RequestType, InOneStep, Finish, Abandon
<1>2. orderly' \in BOOLEAN
  BY DEF InOneStep, Finish, Abandon, Alone
<1> QED
  BY <1>1, <1>2

-----------------------------------------------------------------------------
(* The tasks *)

\* A new task, for a user or for the managers.
LEMMA RaiseStep ==
  ASSUME IInv, NEW u, NEW step,
         (u = Everyone /\ step = "readManagers") \/ (u \in Users /\ step = "create"),
         Raise(u, step)
  PROVE  IInv'
<1> DEFINE new == [event |-> events + 1, user |-> u, tokens |-> {}, step |-> step]
<1>1. /\ events' = events + 1 /\ events < MaxEvents
      /\ jobs' = jobs \cup {new}
      /\ UNCHANGED <<active, rows, inserted, owner, had, inbox, shown, lost, req, orderly>>
  BY DEF Raise, deviceVars
<1>2. events + 1 \in Events
  BY <1>1, BoundsAssumption DEF IInv, TypeOK, Events
<1>3. new \in Job
  BY <1>2 DEF Job
<1>4. TypeOK'
  <2>1. events' \in 0..MaxEvents
    BY <1>1, BoundsAssumption DEF IInv, TypeOK
  <2>2. jobs' \subseteq Job
    BY <1>1, <1>3 DEF IInv, TypeOK
  <2> QED
    BY <1>1, <2>1, <2>2 DEF IInv, TypeOK
<1>5. TasksAddressed'
  BY <1>1 DEF IInv, TasksAddressed
<1>6. TasksListed'
  BY <1>1 DEF IInv, TasksListed, InInbox
<1>7. TasksReach'
  BY <1>1 DEF IInv, TasksReach
<1>8. OwnersHad' /\ PushesAreListed'
  BY <1>1 DEF IInv, OwnersHad, Registered, PushesAreListed, InInbox
<1> QED
  BY <1>4, <1>5, <1>6, <1>7, <1>8 DEF IInv

\* The task for the managers becomes one for each of them.
LEMMA NotifyManagersStep ==
  ASSUME IInv, NEW j \in jobs, NotifyManagers(j)
  PROVE  IInv'
<1>1. /\ j.step = "readManagers"
      /\ jobs' = (jobs \ {j}) \cup
           {[j EXCEPT !.user = u, !.step = "create"] : u \in ActiveManagers}
      /\ UNCHANGED <<active, rows, inserted, owner, had, events, inbox, shown, lost,
                     req, orderly>>
  BY DEF NotifyManagers, deviceVars
<1>2. j \in Job
  BY DEF IInv, TypeOK
<1>3. ASSUME NEW k \in jobs', k \notin jobs
      PROVE  k \in Job /\ k.user \in Users /\ k.step = "create" /\ k.tokens = j.tokens
  <2>1. PICK u \in Staff : k = [j EXCEPT !.user = u, !.step = "create"]
    BY <1>1, <1>3 DEF ActiveManagers
  <2>2. u \in Users
    BY UsersAssumption
  <2> QED
    BY <1>2, <2>1, <2>2 DEF Job
<1>4. j.tokens = {}
  BY <1>1 DEF IInv, TasksReach
<1>5. TypeOK'
  BY <1>1, <1>3 DEF IInv, TypeOK
<1>6. TasksAddressed'
  BY <1>1, <1>3 DEF IInv, TasksAddressed
<1>7. TasksListed'
  BY <1>1, <1>3 DEF IInv, TasksListed, InInbox
<1>8. TasksReach'
  BY <1>1, <1>3, <1>4 DEF IInv, TasksReach
<1>9. OwnersHad' /\ PushesAreListed'
  BY <1>1 DEF IInv, OwnersHad, Registered, PushesAreListed, InInbox
<1> QED
  BY <1>5, <1>6, <1>7, <1>8, <1>9 DEF IInv

\* Appending to the list of a user keeps what all the lists have.
LEMMA AppendGrows ==
  ASSUME inbox \in [Users -> Seq(Notification)], NEW u \in Users,
         NEW n \in Notification, inbox' = [inbox EXCEPT ![u] = Append(@, n)]
  PROVE  /\ inbox' \in [Users -> Seq(Notification)]
         /\ ListsGrow
         /\ InInbox(n.event, u)'
<1> DEFINE s == inbox[u]
<1>1. s \in Seq(Notification)
  OBVIOUS
<1>2. /\ Append(s, n) \in Seq(Notification)
      /\ Len(Append(s, n)) = Len(s) + 1
      /\ \A i \in 1..Len(s) : Append(s, n)[i] = s[i]
      /\ Append(s, n)[Len(s) + 1] = n
  BY <1>1, AppendProperties
<1>3. DOMAIN s = 1..Len(s) /\ DOMAIN Append(s, n) = 1..Len(s) + 1 /\ Len(s) \in Nat
  BY <1>1, <1>2, LenProperties
<1>4. inbox'[u] = Append(s, n) /\ \A v \in Users \ {u} : inbox'[v] = inbox[v]
  OBVIOUS
<1>5. inbox' \in [Users -> Seq(Notification)]
  BY <1>2
<1>6. ListsGrow
  <2> SUFFICES ASSUME NEW e \in Events, NEW v \in Users, InInbox(e, v)
               PROVE  \E i \in DOMAIN inbox'[v] : inbox'[v][i].event = e
    BY DEF ListsGrow, InInbox
  <2>1. PICK i \in DOMAIN inbox[v] : inbox[v][i].event = e
    BY DEF InInbox
  <2>2. CASE v = u
    BY <2>1, <2>2, <1>2, <1>3, <1>4
  <2>3. CASE v # u
    BY <2>1, <2>3, <1>4
  <2> QED
    BY <2>2, <2>3
<1>7. InInbox(n.event, u)'
  <2>1. Len(s) + 1 \in DOMAIN inbox'[u] /\ inbox'[u][Len(s) + 1] = n
    BY <1>2, <1>3, <1>4
  <2> QED
    BY <2>1 DEF InInbox
<1> QED
  BY <1>5, <1>6, <1>7

LEMMA NotifyCreateStep ==
  ASSUME IInv, NEW j \in jobs, NotifyCreate(j)
  PROVE  IInv'
<1> DEFINE n == [event |-> j.event, isRead |-> FALSE]
           next == [j EXCEPT !.step = "readTokens"]
<1>1. /\ j.step = "create"
      /\ inbox' = [inbox EXCEPT ![j.user] = Append(@, n)]
      /\ jobs' = (jobs \ {j}) \cup {next}
      /\ UNCHANGED <<active, rows, inserted, owner, had, events, shown, lost, req, orderly>>
  BY DEF NotifyCreate, Advance, deviceVars
<1>2. j \in Job /\ j.user \in Users /\ j.tokens = {}
  BY <1>1 DEF IInv, TypeOK, TasksAddressed, TasksReach
<1>3. /\ next \in Job /\ next.step = "readTokens" /\ next.tokens = {}
      /\ next.user = j.user /\ next.event = j.event
  BY <1>2 DEF Job
<1>4. n \in Notification
  BY <1>2 DEF Job, Notification
<1>5. /\ inbox' \in [Users -> Seq(Notification)]
      /\ ListsGrow
      /\ InInbox(n.event, j.user)'
  BY <1>1, <1>2, <1>4, AppendGrows DEF IInv, TypeOK
<1>6. TypeOK'
  BY <1>1, <1>3, <1>5 DEF IInv, TypeOK
<1>7. TasksAddressed'
  BY <1>1, <1>2, <1>3 DEF IInv, TasksAddressed
<1>8. TasksListed'
  <2> SUFFICES ASSUME NEW k \in jobs', k.step \in {"readTokens", "send"}
               PROVE  InInbox(k.event, k.user)'
    BY DEF TasksListed, InInbox
  <2>1. CASE k = next
    BY <2>1, <1>3, <1>5 DEF InInbox
  <2>2. CASE k \in jobs
    <3>1. k.event \in Events /\ k.user \in Users /\ InInbox(k.event, k.user)
      BY <2>2 DEF IInv, TypeOK, Job, TasksAddressed, TasksListed
    <3> QED
      BY <3>1, <1>5 DEF ListsGrow
  <2> QED
    BY <2>1, <2>2, <1>1
<1>9. TasksReach'
  BY <1>1, <1>3 DEF IInv, TasksReach
<1>10. OwnersHad'
  BY <1>1 DEF IInv, OwnersHad, Registered
<1>11. PushesAreListed'
  BY <1>1, <1>5 DEF IInv, TypeOK, PushesAreListed, ListsGrow
<1> QED
  BY <1>6, <1>7, <1>8, <1>9, <1>10, <1>11 DEF IInv

\* The tokens of a user are of devices the user was signed in on.
LEMMA NotifyReadTokensStep ==
  ASSUME IInv, NEW j \in jobs, NotifyReadTokens(j)
  PROVE  IInv'
<1> DEFINE next == [j EXCEPT !.step = "send", !.tokens = TokensOf(j.user)]
<1>1. /\ j.step = "readTokens"
      /\ UNCHANGED <<active, rows, inserted, owner, had, events, inbox, shown, lost,
                     req, orderly>>
  BY DEF NotifyReadTokens, deviceVars
<1>2. j \in Job /\ j.user \in Users
  BY <1>1 DEF IInv, TypeOK, TasksAddressed
<1>3. CASE /\ jobs' = (jobs \ {j}) \cup {next}
           /\ TokensOf(j.user) # {}
  <2>1. /\ next \in Job /\ next.step = "send" /\ next.user = j.user
        /\ next.event = j.event /\ next.tokens = TokensOf(j.user)
    BY <1>2 DEF Job, TokensOf
  <2>2. TypeOK'
    BY <1>1, <1>3, <2>1 DEF IInv, TypeOK
  <2>3. TasksAddressed'
    BY <1>2, <1>3, <2>1 DEF IInv, TasksAddressed
  <2>4. TasksListed'
    <3>1. InInbox(next.event, next.user)
      BY <1>1, <2>1 DEF IInv, TasksListed
    <3>2. \A k \in jobs' : k = next \/ k \in jobs
      BY <1>3
    <3> HIDE DEF next
    <3> QED
      BY <1>1, <3>1, <3>2 DEF IInv, TasksListed, InInbox
  <2>5. \A token \in next.tokens : j.user \in had[token]
    BY <2>1 DEF TokensOf, IInv, OwnersHad
  <2>6. TasksReach'
    BY <1>1, <1>3, <2>1, <2>5 DEF IInv, TasksReach
  <2>7. OwnersHad' /\ PushesAreListed'
    BY <1>1 DEF IInv, OwnersHad, Registered, PushesAreListed, InInbox
  <2> QED
    BY <2>2, <2>3, <2>4, <2>6, <2>7 DEF IInv
<1>4. CASE jobs' = jobs \ {j}
  <2>1. TypeOK' /\ OwnersHad'
    BY <1>1, <1>4 DEF IInv, TypeOK, OwnersHad, Registered
  <2> QED
    BY <1>1, <1>4, <2>1, TasksStay, ListsSame, HadSame DEF IInv
<1> QED
  BY <1>3, <1>4 DEF NotifyReadTokens, Advance

\* What is pushed was stored, and where it is pushed the user was signed in.
LEMMA NotifySendStep ==
  ASSUME IInv, NEW j \in jobs, NotifySend(j)
  PROVE  IInv'
<1> DEFINE push == [event |-> j.event, user |-> j.user]
<1>1. /\ j.step = "send"
      /\ jobs' = jobs \ {j}
      /\ UNCHANGED <<active, rows, inserted, owner, had, events, inbox, lost, req, orderly>>
  BY DEF NotifySend, deviceVars
<1>2. PICK reached \in SUBSET j.tokens :
        shown' = [token \in Tokens |->
          IF token \in reached THEN shown[token] \cup {push} ELSE shown[token]]
  BY DEF NotifySend, SendMulticast
<1>3. j \in Job /\ j.user \in Users
  BY <1>1 DEF IInv, TypeOK, TasksAddressed
<1>4. push \in [event : Events, user : Users]
  BY <1>3 DEF Job
<1>5. shown' \in [Tokens -> SUBSET [event : Events, user : Users]]
  BY <1>2, <1>4 DEF IInv, TypeOK
<1>6. TypeOK'
  BY <1>1, <1>5 DEF IInv, TypeOK
<1>7. TasksAddressed' /\ TasksReach' /\ OwnersHad'
  BY <1>1 DEF IInv, TasksAddressed, TasksReach, OwnersHad, Registered
<1>8. TasksListed'
  BY <1>1 DEF IInv, TasksListed, InInbox
<1>9. PushesAreListed'
  <2> SUFFICES ASSUME NEW token \in Tokens, NEW p \in shown'[token]
               PROVE  InInbox(p.event, p.user) /\ p.user \in had[token]
    BY <1>1 DEF PushesAreListed, InInbox
  <2>1. CASE p \in shown[token]
    BY <2>1 DEF IInv, PushesAreListed
  <2>2. CASE p = push /\ token \in j.tokens
    BY <2>2, <1>1 DEF IInv, TasksListed, TasksReach
  <2> QED
    BY <2>1, <2>2, <1>2
<1> QED
  BY <1>6, <1>7, <1>8, <1>9 DEF IInv

LEMMA TaskFailsStep ==
  ASSUME IInv, NEW j \in jobs, TaskFails(j)
  PROVE  IInv'
<1> DEFINE untold == CASE j.step = "readManagers" -> Staff
                       [] j.step = "create" -> {j.user}
                       [] OTHER -> {}
<1>1. /\ jobs' = jobs \ {j}
      /\ lost' = lost \cup {[event |-> j.event, user |-> u] : u \in untold}
      /\ UNCHANGED <<active, rows, inserted, owner, had, events, inbox, shown, req, orderly>>
  BY DEF TaskFails, deviceVars
<1>2. j.event \in Events
  BY DEF IInv, TypeOK, Job
<1>3. untold \subseteq Users
  BY UsersAssumption DEF IInv, TasksAddressed
<1>4. lost' \subseteq [event : Events, user : Users]
  BY <1>1, <1>2, <1>3 DEF IInv, TypeOK
<1>5. TypeOK' /\ OwnersHad'
  BY <1>1, <1>4 DEF IInv, TypeOK, OwnersHad, Registered
<1> QED
  BY <1>1, <1>5, TasksStay, ListsSame, HadSame DEF IInv

-----------------------------------------------------------------------------
(* The requests *)

\* A request about devices leaves tasks and lists alone; it suffices that rows
\* keep their types and owners, and that who was signed in where only grows.
LEMMA DeviceStep ==
  ASSUME IInv, UNCHANGED <<active, taskVars>>, HadGrows,
         rows' \in [Tokens -> DeviceToken \cup {NoRow}], inserted' \in 0..MaxRows,
         owner' \in [Tokens -> SUBSET Users], had' \in [Tokens -> SUBSET Users],
         OwnersHad', RequestType', orderly' \in BOOLEAN
  PROVE  IInv'
<1>1. UNCHANGED <<active, events, jobs, inbox, shown, lost>>
  BY DEF taskVars
<1>2. TypeOK'
  BY <1>1 DEF IInv, TypeOK, RequestType
<1> QED
  BY <1>1, <1>2, TasksStay, ListsSame DEF IInv

\* The user who is told that a device is registered counts as signed in.
LEMMA GrantedGrows ==
  ASSUME IInv, NEW token \in Tokens, NEW u \in Users, Granted(token, u)
  PROVE  /\ owner' \in [Tokens -> SUBSET Users]
         /\ had' \in [Tokens -> SUBSET Users]
         /\ HadGrows
         /\ u \in had'[token]
BY DEF IInv, TypeOK, Granted, HadGrows

\* A request begins, ends or fails without touching a device.
LEMMA IdleStep ==
  ASSUME IInv, UNCHANGED <<active, deviceVars, taskVars>>,
         RequestType', orderly' \in BOOLEAN
  PROVE  IInv'
<1>1. UNCHANGED <<rows, inserted, owner, had>>
  BY DEF deviceVars
<1>2. OwnersHad'
  BY <1>1 DEF IInv, OwnersHad, Registered
<1> QED
  BY <1>1, <1>2, HadSame, DeviceStep DEF IInv, TypeOK

LEMMA RegisterExistingStep ==
  ASSUME IInv, NEW r \in Requests, NEW u \in Users, NEW token \in Tokens,
         RegisterExisting(r, u, token)
  PROVE  IInv'
<1>1. RequestType /\ orderly \in BOOLEAN
  BY DEF IInv, TypeOK, RequestType
<1>2. CASE InOneStep(r) /\ Granted(token, u)
  <2>1. RequestType' /\ orderly' \in BOOLEAN
    BY <1>1, <1>2, EndTyped
  <2>2. UNCHANGED <<active, rows, inserted, taskVars>>
    BY DEF RegisterExisting
  <2>3. OwnersHad'
    BY <2>2, <1>2, GrantedGrows DEF IInv, OwnersHad, Registered, HadGrows
  <2> QED
    BY <2>1, <2>2, <2>3, <1>2, GrantedGrows, DeviceStep DEF IInv, TypeOK
<1>3. CASE Start(r, "registerDeviceToken", "update", u, token, 0) /\ UNCHANGED <<owner, had>>
  <2>1. RequestType' /\ orderly' \in BOOLEAN
    BY <1>1, <1>3, BeginTyped, BoundsAssumption DEF Start, InFlight
  <2>2. UNCHANGED <<active, deviceVars, taskVars>>
    BY <1>3 DEF RegisterExisting, deviceVars
  <2> QED
    BY <2>1, <2>2, IdleStep
<1> QED
  BY <1>2, <1>3 DEF RegisterExisting

LEMMA StartStep ==
  ASSUME IInv, NEW r \in Requests, NEW u \in Users, NEW token \in Tokens,
         RegisterNew(r, u, token) \/ UnregisterDeviceToken(r, u, token)
  PROVE  IInv'
<1>1. RequestType /\ orderly \in BOOLEAN
  BY DEF IInv, TypeOK, RequestType
<1>2. UNCHANGED <<active, deviceVars, taskVars>>
  BY DEF RegisterNew, UnregisterDeviceToken
<1>3. PICK q \in InFlight : Begin(r, q)
  <2>1. CASE RegisterNew(r, u, token)
    BY <2>1, BoundsAssumption DEF RegisterNew, Start, InFlight
  <2>2. CASE UnregisterDeviceToken(r, u, token)
    <3>1. rows[token].id \in 0..MaxRows
      BY <2>2, BoundsAssumption
         DEF UnregisterDeviceToken, TokensOf, Registered, IInv, TypeOK, DeviceToken
    <3> QED
      BY <2>2, <3>1 DEF UnregisterDeviceToken, Start, InFlight
  <2> QED
    BY <2>1, <2>2
<1> QED
  BY <1>1, <1>2, <1>3, BeginTyped, IdleStep

LEMMA RegisterUpdateStep ==
  ASSUME IInv, NEW r \in Requests, RegisterUpdate(r)
  PROVE  IInv'
<1> DEFINE q == req[r]
<1>1. RequestType /\ orderly \in BOOLEAN
  BY DEF IInv, TypeOK, RequestType
<1>2. q.user \in Users /\ q.token \in Tokens
  BY <1>1, AtTyped DEF RegisterUpdate, At
<1>3. RequestType' /\ orderly' \in BOOLEAN /\ UNCHANGED <<active, inserted, taskVars>>
  BY <1>1, EndTyped DEF RegisterUpdate
<1>4. CASE /\ Registered(q.token)
           /\ rows' = [rows EXCEPT ![q.token].user = q.user]
           /\ Granted(q.token, q.user)
  <2>1. rows[q.token] \in DeviceToken
    BY <1>2, <1>4 DEF Registered, IInv, TypeOK
  <2>2. rows' \in [Tokens -> DeviceToken \cup {NoRow}]
    BY <1>2, <1>4, <2>1 DEF IInv, TypeOK, DeviceToken
  <2>3. /\ rows'[q.token].user = q.user
        /\ \A token \in Tokens \ {q.token} : rows'[token] = rows[token]
    BY <1>2, <1>4, <2>1 DEF IInv, TypeOK, DeviceToken
  <2>4. OwnersHad'
    BY <1>2, <1>4, <2>3, GrantedGrows DEF IInv, OwnersHad, Registered, HadGrows
  <2> QED
    BY <1>2, <1>3, <1>4, <2>2, <2>4, GrantedGrows, DeviceStep DEF IInv, TypeOK
<1>5. CASE UNCHANGED <<rows, owner, had>>
  BY <1>3, <1>5, IdleStep DEF deviceVars
<1> QED
  BY <1>4, <1>5 DEF RegisterUpdate

LEMMA RegisterCreateStep ==
  ASSUME IInv, NEW r \in Requests, RegisterCreate(r)
  PROVE  IInv'
<1> DEFINE q == req[r]
<1>1. RequestType /\ orderly \in BOOLEAN
  BY DEF IInv, TypeOK, RequestType
<1>2. q.user \in Users /\ q.token \in Tokens
  BY <1>1, AtTyped DEF RegisterCreate, At
<1>3. RequestType' /\ orderly' \in BOOLEAN /\ UNCHANGED <<active, taskVars>>
  BY <1>1, EndTyped DEF RegisterCreate
<1>4. CASE /\ inserted < MaxRows /\ inserted' = inserted + 1
           /\ rows' = [rows EXCEPT ![q.token] = [id |-> inserted', user |-> q.user]]
           /\ Granted(q.token, q.user)
  <2>1. inserted' \in 1..MaxRows
    BY <1>4, BoundsAssumption DEF IInv, TypeOK
  <2>2. rows' \in [Tokens -> DeviceToken \cup {NoRow}]
    BY <1>2, <1>4, <2>1 DEF IInv, TypeOK, DeviceToken
  <2>3. /\ rows'[q.token].user = q.user
        /\ \A token \in Tokens \ {q.token} : rows'[token] = rows[token]
    BY <1>2, <1>4 DEF IInv, TypeOK
  <2>4. OwnersHad'
    BY <1>2, <1>4, <2>3, GrantedGrows DEF IInv, OwnersHad, Registered, HadGrows
  <2> QED
    BY <1>2, <1>3, <1>4, <2>1, <2>2, <2>4, GrantedGrows, DeviceStep
<1>5. CASE UNCHANGED deviceVars
  BY <1>3, <1>5, IdleStep
<1> QED
  BY <1>4, <1>5 DEF RegisterCreate

LEMMA UnregisterDeleteStep ==
  ASSUME IInv, NEW r \in Requests, UnregisterDelete(r)
  PROVE  IInv'
<1> DEFINE q == req[r]
<1>1. RequestType /\ orderly \in BOOLEAN
  BY DEF IInv, TypeOK, RequestType
<1>2. q.token \in Tokens
  BY <1>1, AtTyped DEF UnregisterDelete, At
<1>3. /\ RequestType' /\ orderly' \in BOOLEAN
      /\ UNCHANGED <<active, inserted, had, taskVars>>
  BY <1>1, EndTyped DEF UnregisterDelete
<1>4. CASE /\ rows' = [rows EXCEPT ![q.token] = NoRow]
           /\ owner' = [owner EXCEPT ![q.token] = @ \ {q.user}]
  <2>1. /\ rows' \in [Tokens -> DeviceToken \cup {NoRow}]
        /\ owner' \in [Tokens -> SUBSET Users]
    BY <1>2, <1>4 DEF IInv, TypeOK
  <2>2. OwnersHad'
    BY <1>2, <1>3, <1>4 DEF IInv, TypeOK, OwnersHad, Registered
  <2> QED
    BY <1>3, <2>1, <2>2, HadSame, DeviceStep DEF IInv, TypeOK
<1>5. CASE UNCHANGED <<rows, owner>>
  BY <1>3, <1>5, IdleStep DEF deviceVars
<1> QED
  BY <1>4, <1>5 DEF UnregisterDelete

\* Reading a notification does not remove it.
LEMMA MarkReadStep ==
  ASSUME IInv, NEW r \in Requests, NEW u \in Users, NEW chosen, MarkRead(r, u, chosen)
  PROVE  IInv'
<1> DEFINE s == inbox[u]
           t == [i \in DOMAIN s |-> IF s[i].event \in chosen
                                    THEN [s[i] EXCEPT !.isRead = TRUE] ELSE s[i]]
<1>1. /\ InOneStep(r) /\ inbox' = [inbox EXCEPT ![u] = t]
      /\ UNCHANGED <<active, rows, inserted, owner, had, events, jobs, shown, lost>>
  BY DEF MarkRead, deviceVars
<1>2. RequestType' /\ orderly' \in BOOLEAN
  BY <1>1, EndTyped DEF IInv, TypeOK, RequestType
<1>3. inbox \in [Users -> Seq(Notification)] /\ s \in Seq(Notification)
  BY DEF IInv, TypeOK
<1>4. DOMAIN s = 1..Len(s) /\ Len(s) \in Nat /\ \A i \in 1..Len(s) : s[i] \in Notification
  BY <1>3, LenProperties, ElementOfSeq
<1>5. \A i \in 1..Len(s) : t[i] \in Notification /\ t[i].event = s[i].event
  BY <1>4 DEF Notification
<1>6. t \in Seq(Notification)
  <2>1. t \in [1..Len(s) -> Notification]
    BY <1>4, <1>5
  <2> QED
    BY <1>4, <2>1, SeqDef
<1>7. inbox' \in [Users -> Seq(Notification)]
  BY <1>1, <1>3, <1>6
<1>8. inbox'[u] = t /\ \A v \in Users \ {u} : inbox'[v] = inbox[v]
  BY <1>1, <1>3
<1>9. ListsGrow
  <2> SUFFICES ASSUME NEW e \in Events, NEW v \in Users, InInbox(e, v)
               PROVE  \E i \in DOMAIN inbox'[v] : inbox'[v][i].event = e
    BY DEF ListsGrow, InInbox
  <2>1. PICK i \in DOMAIN inbox[v] : inbox[v][i].event = e
    BY DEF InInbox
  <2>2. CASE v = u
    <3>1. i \in DOMAIN t /\ t[i].event = e
      BY <2>1, <2>2, <1>4, <1>5
    <3> QED
      BY <3>1, <2>2, <1>8
  <2>3. CASE v # u
    BY <2>1, <2>3, <1>8
  <2> QED
    BY <2>2, <2>3
<1>10. TypeOK' /\ OwnersHad'
  BY <1>1, <1>2, <1>7 DEF IInv, TypeOK, OwnersHad, Registered, RequestType
<1> QED
  BY <1>1, <1>9, <1>10, TasksStay, HadSame DEF IInv

LEMMA SetActiveStep ==
  ASSUME IInv, NEW u \in Staff, SetActive(u)
  PROVE  IInv'
<1>1. /\ UNCHANGED <<rows, inserted, owner, had, events, jobs, inbox, shown, lost, req,
                     orderly>>
      /\ active' \in [Users -> BOOLEAN]
  BY UsersAssumption DEF SetActive, deviceVars, taskVars, IInv, TypeOK
<1>2. TypeOK' /\ OwnersHad'
  BY <1>1 DEF IInv, TypeOK, OwnersHad, Registered
<1> QED
  BY <1>1, <1>2, TasksStay, ListsSame, HadSame DEF IInv

-----------------------------------------------------------------------------
(* The theorems *)

LEMMA InitIInv == Init => IInv
<1> SUFFICES ASSUME Init PROVE IInv
  OBVIOUS
<1>1. TypeOK
  BY BoundsAssumption, EmptySeq DEF Init, NoRequests, TypeOK
<1>2. TasksAddressed /\ TasksListed /\ TasksReach
  BY DEF Init, TasksAddressed, TasksListed, TasksReach
<1>3. OwnersHad /\ PushesAreListed
  BY DEF Init, OwnersHad, Registered, PushesAreListed
<1> QED
  BY <1>1, <1>2, <1>3 DEF IInv

LEMMA NextIInv == IInv /\ [Next]_vars => IInv'
<1> SUFFICES ASSUME IInv, [Next]_vars PROVE IInv'
  OBVIOUS
<1>1. ASSUME NEW r \in Requests, Call(r)
      PROVE  IInv'
  <2>1. PICK u \in Users :
          \/ \E token \in Tokens :
               \/ RegisterExisting(r, u, token)
               \/ RegisterNew(r, u, token)
               \/ UnregisterDeviceToken(r, u, token)
          \/ MarkRead(r, u, Events)
          \/ \E e \in Events : MarkRead(r, u, {e})
    BY <1>1 DEF Call
  <2> QED
    BY <2>1, RegisterExistingStep, StartStep, MarkReadStep
<1>2. ASSUME NEW r \in Requests, Step(r)
      PROVE  IInv'
  BY <1>2, RegisterUpdateStep, RegisterCreateStep, UnregisterDeleteStep DEF Step
<1>3. ASSUME NEW r \in Requests, Fail(r)
      PROVE  IInv'
  <2>1. RequestType' /\ orderly' \in BOOLEAN
    BY <1>3, EndTyped DEF Fail, IInv, TypeOK, RequestType
  <2> QED
    BY <1>3, <2>1, IdleStep DEF Fail
<1>4. CASE TellManagers
  BY <1>4, RaiseStep DEF TellManagers
<1>5. ASSUME NEW u \in Users, TellUser(u)
      PROVE  IInv'
  BY <1>5, RaiseStep DEF TellUser
<1>6. ASSUME NEW u \in Staff, SetActive(u)
      PROVE  IInv'
  BY <1>6, SetActiveStep
<1>7. ASSUME NEW j \in jobs, TaskStep(j) \/ TaskFails(j)
      PROVE  IInv'
  BY <1>7, NotifyManagersStep, NotifyCreateStep, NotifyReadTokensStep, NotifySendStep,
     TaskFailsStep DEF TaskStep
<1>8. CASE UNCHANGED vars
  <2>1. RequestType' /\ orderly' \in BOOLEAN /\ UNCHANGED <<active, deviceVars, taskVars>>
    BY <1>8 DEF vars, deviceVars, taskVars, IInv, TypeOK, RequestType
  <2> QED
    BY <2>1, IdleStep
<1> QED
  BY <1>1, <1>2, <1>3, <1>4, <1>5, <1>6, <1>7, <1>8 DEF Next

LEMMA Invariance == Spec => []IInv
<1> QED
  BY InitIInv, NextIInv, PTL DEF Spec

\* The rows, the tasks and the requests keep their types, for any users, devices
\* and requests (notifyUser, registerDeviceToken, unregisterDeviceToken).
THEOREM TypeCorrect == Spec => []TypeOK
<1>1. IInv => TypeOK
  BY DEF IInv
<1> QED
  BY Invariance, <1>1, PTL

\* However devices change hands while tasks are under way, a device shows only
\* what is in the list of a user who was signed in on it (notifyUser).
THEOREM PushesListed == Spec => []PushesAreListed
<1>1. IInv => PushesAreListed
  BY DEF IInv
<1> QED
  BY Invariance, <1>1, PTL

-----------------------------------------------------------------------------
(* While requests come one at a time, a device belongs to its last owner *)

\* No two requests overlap.
SingleFlight == \A r, s \in Requests : req[r] # Idle /\ req[s] # Idle => r = s

\* Who registered the device last is who its row belongs to.
OwnersAgree ==
  \A token \in Tokens : owner[token] = {u \in Users : token \in TokensOf(u)}

\* The row that a request is about to delete belongs to its own user.
LeavesOwnDevice ==
  \A r \in Requests :
    /\ At(r, "unregisterDeviceToken", "delete")
    /\ Registered(req[r].token)
    /\ rows[req[r].token].id = req[r].id
    => rows[req[r].token].user = req[r].user

OwnersInv == orderly => SingleFlight /\ OwnersAgree /\ LeavesOwnDevice

\* What the rows say of an owner, device by device.
LEMMA OwnersByRow ==
  ASSUME TypeOK
  PROVE  OwnersAgree <=>
           \A token \in Tokens :
             owner[token] = IF Registered(token) THEN {rows[token].user} ELSE {}
<1>1. \A token \in Tokens : Registered(token) => rows[token].user \in Users
  BY DEF TypeOK, Registered, DeviceToken
<1>2. \A token \in Tokens :
        {u \in Users : token \in TokensOf(u)} =
          IF Registered(token) THEN {rows[token].user} ELSE {}
  BY <1>1 DEF TokensOf
<1> QED
  BY <1>2 DEF OwnersAgree

\* A step that leaves the requests and the devices alone.
LEMMA OwnersStay ==
  ASSUME OwnersInv, UNCHANGED <<rows, owner, req, orderly>>
  PROVE  OwnersInv'
BY DEF OwnersInv, SingleFlight, OwnersAgree, LeavesOwnDevice, TokensOf,
       Registered, At

\* A request that begins in order is the only one in flight.
LEMMA BeginsAlone ==
  ASSUME TypeOK, NEW r \in Requests, NEW q, Begin(r, q), orderly'
  PROVE  /\ orderly
         /\ SingleFlight'
         /\ req'[r] = q
         /\ \A s \in Requests : s # r => req'[s] = Idle
<1>1. orderly /\ Alone /\ req \in [Requests -> InFlight \cup {Idle}]
  BY DEF TypeOK, Begin
<1>2. req'[r] = q /\ \A s \in Requests : s # r => req'[s] = Idle
  BY <1>1 DEF Begin, Alone
<1> QED
  BY <1>1, <1>2 DEF SingleFlight

\* Once the request in flight has ended, none is left.
LEMMA NoneLeft ==
  ASSUME TypeOK, SingleFlight, NEW r \in Requests, req[r] # Idle, Finish(r)
  PROVE  \A s \in Requests : req'[s] = Idle
BY DEF TypeOK, SingleFlight, Finish

\* With no request in flight, only the rows have to agree.
LEMMA OwnersOfIdle ==
  ASSUME \A s \in Requests : req[s] = Idle, OwnersAgree
  PROVE  OwnersInv
BY DEF OwnersInv, SingleFlight, LeavesOwnDevice, At

\* A device that is given to a user belongs to that user.
LEMMA GrantedAgrees ==
  ASSUME TypeOK, TypeOK', OwnersAgree, NEW token \in Tokens, NEW u \in Users,
         Granted(token, u),
         rows'[token] # NoRow, rows'[token].user = u,
         \A other \in Tokens : other # token => rows'[other] = rows[other]
  PROVE  OwnersAgree'
<1>1. \A other \in Tokens :
        owner'[other] = IF other = token THEN {u} ELSE owner[other]
  BY DEF TypeOK, Granted
<1>2. \A other \in Tokens :
        owner[other] = IF Registered(other) THEN {rows[other].user} ELSE {}
  BY OwnersByRow
<1>3. \A other \in Tokens :
        owner'[other] =
          IF rows'[other] # NoRow THEN {rows'[other].user} ELSE {}
  BY <1>1, <1>2 DEF Registered
<1>4. \A other \in Tokens : rows'[other] # NoRow => rows'[other].user \in Users
  BY DEF TypeOK, DeviceToken
<1> QED
  BY <1>3, <1>4 DEF OwnersAgree, TokensOf, Registered

\* Whichever way a registration is made, it ends with the rows in agreement.
LEMMA RegistrationKeepsOwners ==
  ASSUME TypeOK, TypeOK', OwnersInv, NEW r \in Requests,
         RegisterUpdate(r) \/ RegisterCreate(r)
  PROVE  OwnersInv'
<1> SUFFICES ASSUME orderly' PROVE OwnersInv'
  BY DEF OwnersInv
<1>1. /\ orderly
      /\ req[r] # Idle
      /\ Finish(r)
      /\ req[r].token \in Tokens
      /\ req[r].user \in Users
  BY AtTyped DEF RegisterUpdate, RegisterCreate, Finish, At, TypeOK, RequestType
<1>2. SingleFlight /\ OwnersAgree
  BY <1>1 DEF OwnersInv
<1>3. \A s \in Requests : req'[s] = Idle
  BY <1>1, <1>2, NoneLeft
<1>4. CASE UNCHANGED <<rows, owner>>
  <2>1. OwnersAgree'
    BY <1>2, <1>4 DEF OwnersAgree, TokensOf, Registered
  <2> QED
    BY <2>1, <1>3 DEF OwnersInv, SingleFlight, LeavesOwnDevice, At
<1>5. CASE /\ Granted(req[r].token, req[r].user)
           /\ rows'[req[r].token] # NoRow
           /\ rows'[req[r].token].user = req[r].user
           /\ \A other \in Tokens :
                other # req[r].token => rows'[other] = rows[other]
  <2>1. OwnersAgree'
    BY <1>1, <1>2, <1>5, GrantedAgrees
  <2> QED
    BY <2>1, <1>3 DEF OwnersInv, SingleFlight, LeavesOwnDevice, At
<1>6. CASE RegisterUpdate(r) /\ Registered(req[r].token)
  <2>1. /\ Granted(req[r].token, req[r].user)
        /\ rows' = [rows EXCEPT ![req[r].token].user = req[r].user]
    BY <1>6 DEF RegisterUpdate
  <2>2. rows[req[r].token] \in DeviceToken
    BY <1>1, <1>6 DEF TypeOK, Registered
  <2>3. rows'[req[r].token] = [rows[req[r].token] EXCEPT !.user = req[r].user]
    BY <1>1, <2>1 DEF TypeOK
  <2>4. rows'[req[r].token].user = req[r].user
    BY <2>2, <2>3 DEF DeviceToken
  <2>5. rows'[req[r].token] # NoRow
    BY <2>2, <2>3, NoRowAssumption, <1>1 DEF DeviceToken
  <2>6. \A other \in Tokens : other # req[r].token => rows'[other] = rows[other]
    BY <2>1 DEF TypeOK
  <2> QED
    BY <2>1, <2>4, <2>5, <2>6, <1>5
<1>7. CASE RegisterCreate(r) /\ ~Registered(req[r].token)
  <2>1. /\ Granted(req[r].token, req[r].user)
        /\ rows' = [rows EXCEPT ![req[r].token] =
             [id |-> inserted', user |-> req[r].user]]
        /\ inserted' \in 1..MaxRows
    BY <1>7, BoundsAssumption DEF RegisterCreate, TypeOK
  <2>2. rows'[req[r].token] = [id |-> inserted', user |-> req[r].user]
    BY <1>1, <2>1 DEF TypeOK
  <2>3. rows'[req[r].token] # NoRow
    BY <2>1, <2>2, NoRowAssumption, <1>1 DEF DeviceToken
  <2>4. \A other \in Tokens : other # req[r].token => rows'[other] = rows[other]
    BY <2>1 DEF TypeOK
  <2> QED
    BY <2>1, <2>2, <2>3, <2>4, <1>5
<1> QED
  BY <1>4, <1>6, <1>7 DEF RegisterUpdate, RegisterCreate, deviceVars

\* A deletion in order takes the device from the user who asked for it.
LEMMA DeletionKeepsOwners ==
  ASSUME TypeOK, OwnersInv, NEW r \in Requests, UnregisterDelete(r)
  PROVE  OwnersInv'
<1> SUFFICES ASSUME orderly' PROVE OwnersInv'
  BY DEF OwnersInv
<1> DEFINE token == req[r].token
<1>1. /\ orderly
      /\ req[r] # Idle
      /\ Finish(r)
      /\ token \in Tokens
  BY AtTyped DEF UnregisterDelete, Finish, At, TypeOK, RequestType
<1>2. SingleFlight /\ OwnersAgree /\ LeavesOwnDevice
  BY <1>1 DEF OwnersInv
<1>3. \A s \in Requests : req'[s] = Idle
  BY <1>1, <1>2, NoneLeft
<1>4. OwnersAgree'
  <2>1. CASE UNCHANGED <<rows, owner>>
    BY <1>2, <2>1 DEF OwnersAgree, TokensOf, Registered
  <2>2. CASE /\ Registered(token)
             /\ rows[token].id = req[r].id
             /\ rows' = [rows EXCEPT ![token] = NoRow]
             /\ owner' = [owner EXCEPT ![token] = @ \ {req[r].user}]
    <3>1. rows[token].user = req[r].user
      BY <1>2, <2>2 DEF LeavesOwnDevice, UnregisterDelete
    <3>2. owner[token] = {req[r].user}
      BY <1>1, <1>2, <2>2, <3>1, OwnersByRow
    <3>3. owner'[token] = {} /\ rows'[token] = NoRow
      BY <1>1, <2>2, <3>2 DEF TypeOK
    <3>4. \A other \in Tokens \ {token} :
            owner'[other] = owner[other] /\ rows'[other] = rows[other]
      BY <2>2 DEF TypeOK
    <3> QED
      BY <1>2, <3>3, <3>4 DEF OwnersAgree, TokensOf, Registered
  <2> QED
    BY <2>1, <2>2 DEF UnregisterDelete
<1> QED
  BY <1>3, <1>4 DEF OwnersInv, SingleFlight, LeavesOwnDevice, At

\* A registration or unregistration that begins, or is done at once.
LEMMA CallKeepsOwners ==
  ASSUME TypeOK, TypeOK', OwnersInv, NEW r \in Requests, Call(r)
  PROVE  OwnersInv'
<1> SUFFICES ASSUME orderly' PROVE OwnersInv'
  BY DEF OwnersInv
<1>1. ASSUME NEW q, Begin(r, q), UNCHANGED <<rows, owner>>,
             \/ q.op # "unregisterDeviceToken"
             \/ rows[q.token].user = q.user
      PROVE  OwnersInv'
  <2>1. /\ orderly
        /\ SingleFlight'
        /\ req'[r] = q
        /\ \A s \in Requests : s # r => req'[s] = Idle
    BY <1>1, BeginsAlone
  <2>2. OwnersAgree'
    BY <1>1, <2>1 DEF OwnersInv, OwnersAgree, TokensOf, Registered
  <2>3. LeavesOwnDevice'
    BY <1>1, <2>1 DEF LeavesOwnDevice, At
  <2> QED
    BY <2>1, <2>2, <2>3 DEF OwnersInv
<1>2. ASSUME InOneStep(r), UNCHANGED <<rows, owner>>
      PROVE  OwnersInv'
  BY <1>2 DEF InOneStep, OwnersInv, SingleFlight, OwnersAgree, LeavesOwnDevice,
              TokensOf, Registered, At
<1>3. ASSUME NEW u \in Users, NEW token \in Tokens, RegisterExisting(r, u, token)
      PROVE  OwnersInv'
  <2>1. CASE Start(r, "registerDeviceToken", "update", u, token, 0) /\ UNCHANGED owner
    BY <2>1, <1>1, <1>3 DEF Start, RegisterExisting
  <2>2. CASE InOneStep(r) /\ Granted(token, u) /\ rows[token].user = u
    <3>1. orderly /\ Alone /\ UNCHANGED <<rows, req>> /\ rows[token] # NoRow
      BY <2>2, <1>3 DEF RegisterExisting, InOneStep, Registered
    <3>2. OwnersAgree'
      BY <3>1, <2>2, GrantedAgrees DEF OwnersInv
    <3> QED
      BY <3>1, <3>2 DEF OwnersInv, SingleFlight, LeavesOwnDevice, At, Alone
  <2> QED
    BY <2>1, <2>2, <1>3 DEF RegisterExisting
<1>4. ASSUME NEW u \in Users, NEW token \in Tokens, RegisterNew(r, u, token)
      PROVE  OwnersInv'
  BY <1>4, <1>1 DEF RegisterNew, Start, deviceVars
<1>5. ASSUME NEW u \in Users, NEW token \in Tokens,
             UnregisterDeviceToken(r, u, token)
      PROVE  OwnersInv'
  BY <1>5, <1>1 DEF UnregisterDeviceToken, Start, deviceVars, TokensOf
<1>6. ASSUME NEW u \in Users, NEW chosen, MarkRead(r, u, chosen)
      PROVE  OwnersInv'
  BY <1>6, <1>2 DEF MarkRead, deviceVars
<1> QED
  BY <1>3, <1>4, <1>5, <1>6 DEF Call

\* Every step keeps the owners; a failure ends the order.
LEMMA NextOwnersInv == TypeOK /\ TypeOK' /\ OwnersInv /\ [Next]_vars => OwnersInv'
<1> SUFFICES ASSUME TypeOK, TypeOK', OwnersInv, [Next]_vars PROVE OwnersInv'
  OBVIOUS
<1>1. CASE UNCHANGED <<rows, owner, req, orderly>>
  BY <1>1, OwnersStay
<1>2. ASSUME NEW r \in Requests, Step(r) PROVE OwnersInv'
  BY <1>2, RegistrationKeepsOwners, DeletionKeepsOwners DEF Step
<1>3. ASSUME NEW r \in Requests, Fail(r) PROVE OwnersInv'
  BY <1>3 DEF Fail, Abandon, OwnersInv
<1>4. ASSUME NEW r \in Requests, Call(r) PROVE OwnersInv'
  BY <1>4, CallKeepsOwners
<1>5. ASSUME NEW j \in jobs, TaskStep(j) \/ TaskFails(j)
      PROVE  UNCHANGED <<rows, owner, req, orderly>>
  BY <1>5 DEF TaskStep, NotifyManagers, NotifyCreate, NotifyReadTokens,
              NotifySend, TaskFails, deviceVars
<1>6. ASSUME TellManagers \/ (\E u \in Users : TellUser(u)) \/ (\E u \in Staff : SetActive(u))
      PROVE  UNCHANGED <<rows, owner, req, orderly>>
  BY <1>6 DEF TellManagers, TellUser, Raise, SetActive, deviceVars
<1> QED
  BY <1>1, <1>2, <1>3, <1>4, <1>5, <1>6 DEF Next, vars

\* While requests come one at a time, a device belongs to whoever registered
\* it last: a late unregistration by its former user does not take it away.
THEOREM LastRegistrationsWin == Spec => []LastRegistrationWins
<1>1. Init => OwnersInv
  BY DEF Init, NoRequests, OwnersInv, SingleFlight, OwnersAgree,
         LeavesOwnDevice, TokensOf, Registered, At
<1>2. OwnersInv => LastRegistrationWins
  BY DEF OwnersInv, OwnersAgree, LastRegistrationWins
<1> QED
  BY <1>1, <1>2, NextOwnersInv, TypeCorrect, PTL DEF Spec
=============================================================================
