----------------------------- MODULE Notifications -----------------------------
(***************************************************************************)
(* Notifications of one tenant and the devices they are pushed to.  A      *)
(* ticket handler raises an event and does not wait: the rest happens in a *)
(* background task, which finds out whom to tell, stores a row for each of *)
(* them, reads their device tokens and sends.  Meanwhile users register    *)
(* and unregister the same devices.                                        *)
(***************************************************************************)
EXTENDS Handlers, Naturals, Sequences

CONSTANTS
  Users,
  Staff,      \* the admins and managers among them
  Tokens,     \* device tokens; two users may sign in on one device
  NoRow,      \* no DeviceToken row has the token
  MaxEvents,  \* bound: events raised
  MaxRows     \* bound: DeviceToken rows ever inserted

ASSUME UsersAssumption == Staff \subseteq Users
ASSUME BoundsAssumption == MaxEvents \in Nat /\ MaxRows \in Nat

VARIABLES
  active,    \* User.isActive
  rows,      \* the DeviceToken row of each token
  inserted,  \* the rows inserted so far
  events,    \* the events raised so far
  jobs,      \* the background tasks, one for each event and user told
  inbox,     \* the Notification rows of each user, oldest first
  shown,     \* what each device has been sent
  lost,      \* history: the users whom a failed task did not tell of an event
  owner,     \* history: who last registered a device and has not unregistered
  had        \* history: who ever registered a device

deviceVars == <<rows, inserted, owner, had>>
taskVars == <<events, jobs, inbox, shown, lost>>
vars == <<active, rows, inserted, events, jobs, inbox, shown, lost, owner, had,
          req, orderly>>

Events == 1..MaxEvents

DeviceToken == [id : 1..MaxRows, user : Users]

ASSUME NoRowAssumption == NoRow \notin DeviceToken

Notification == [event : Events, isRead : BOOLEAN]

\* A task that has yet to find out whom to tell.
Everyone == "everyone"

Job ==
  [event : Events, user : Users \cup {Everyone}, tokens : SUBSET Tokens,
   step : {"readManagers", "create", "readTokens", "send"}]

InFlight ==
  [op : {"registerDeviceToken", "unregisterDeviceToken"},
   step : {"create", "update", "delete"},
   user : Users, token : Tokens, id : 0..MaxRows]

Registered(token) == rows[token] # NoRow

TokensOf(u) == {token \in Tokens : Registered(token) /\ rows[token].user = u}

-----------------------------------------------------------------------------
(* The events of the ticket handlers *)

Raise(u, step) ==
  /\ events < MaxEvents
  /\ events' = events + 1
  /\ jobs' = jobs \cup
       {[event |-> events + 1, user |-> u, tokens |-> {}, step |-> step]}
  /\ UNCHANGED <<active, deviceVars, inbox, shown, lost, req, orderly>>

\* onTicketRaised, onTicketRejectedByTechnician and onTicketMarkedPending.
TellManagers == Raise(Everyone, "readManagers")

\* onTicketAssigned and onTicketStatusChanged.
TellUser(u) == Raise(u, "create")

ActiveManagers == {u \in Staff : active[u]}

\* One task for each of them, all at once.
NotifyManagers(j) ==
  /\ j.step = "readManagers"
  /\ jobs' = (jobs \ {j}) \cup
       {[j EXCEPT !.user = u, !.step = "create"] : u \in ActiveManagers}
  /\ UNCHANGED <<active, deviceVars, events, inbox, shown, lost, req, orderly>>

Advance(j, next) == jobs' = (jobs \ {j}) \cup {next}

-----------------------------------------------------------------------------
(* notifyUser *)

\* notifyUser that pushes first and leaves the row for later.
NotifyPushFirst(j) ==
  /\ j.step = "create"
  /\ Advance(j, [j EXCEPT !.step = "readTokens"])
  /\ UNCHANGED <<active, deviceVars, events, inbox, shown, lost, req, orderly>>

NotifyCreate(j) ==
  /\ j.step = "create"
  /\ inbox' = [inbox EXCEPT ![j.user] =
       Append(@, [event |-> j.event, isRead |-> FALSE])]
  /\ Advance(j, [j EXCEPT !.step = "readTokens"])
  /\ UNCHANGED <<active, deviceVars, events, shown, lost, req, orderly>>

\* Every token that is registered in the tenant.
ReadAnyTokens(j) ==
  /\ j.step = "readTokens"
  /\ Advance(j, [j EXCEPT !.step = "send",
                          !.tokens = {token \in Tokens : Registered(token)}])
  /\ UNCHANGED <<active, deviceVars, events, inbox, shown, lost, req, orderly>>

\* notifyUser that sends without looking whether there is a token to send to.
NotifyAlwaysSend(j) ==
  /\ j.step = "readTokens"
  /\ Advance(j, [j EXCEPT !.step = "send", !.tokens = TokensOf(j.user)])
  /\ UNCHANGED <<active, deviceVars, events, inbox, shown, lost, req, orderly>>

NotifyReadTokens(j) ==
  /\ j.step = "readTokens"
  /\ \/ /\ TokensOf(j.user) # {}
        /\ Advance(j, [j EXCEPT !.step = "send", !.tokens = TokensOf(j.user)])
     \/ TokensOf(j.user) = {} /\ jobs' = jobs \ {j}
  /\ UNCHANGED <<active, deviceVars, events, inbox, shown, lost, req, orderly>>

\* sendMulticast reaches any of the tokens, and none if it fails.
SendMulticast(tokens, push) ==
  \E reached \in SUBSET tokens :
    shown' = [token \in Tokens |->
      IF token \in reached THEN shown[token] \cup {push} ELSE shown[token]]

NotifySend(j) ==
  /\ j.step = "send"
  /\ SendMulticast(j.tokens, [event |-> j.event, user |-> j.user])
  /\ jobs' = jobs \ {j}
  /\ UNCHANGED <<active, deviceVars, events, inbox, lost, req, orderly>>

\* An error is logged and swallowed, and the rest of the task with it.
TaskFails(j) ==
  /\ jobs' = jobs \ {j}
  /\ lost' = lost \cup
       {[event |-> j.event, user |-> u] :
          u \in CASE j.step = "readManagers" -> Staff
                  [] j.step = "create" -> {j.user}
                  [] OTHER -> {}}
  /\ UNCHANGED <<active, deviceVars, events, inbox, shown, req, orderly>>

-----------------------------------------------------------------------------
(* Device tokens *)

Start(r, op, step, u, token, id) ==
  Begin(r, [op |-> op, step |-> step, user |-> u, token |-> token, id |-> id])

\* The user is told that the device is registered.
Granted(token, u) ==
  /\ owner' = [owner EXCEPT ![token] = {u}]
  /\ had' = [had EXCEPT ![token] = @ \cup {u}]

\* The device that is registered already is not given to its new user.
RegisterExistingUnchanged(r, u, token) ==
  /\ Registered(token)
  /\ InOneStep(r)
  /\ Granted(token, u)
  /\ UNCHANGED <<active, rows, inserted, taskVars>>

RegisterExisting(r, u, token) ==
  /\ Registered(token)
  /\ \/ /\ rows[token].user = u
        /\ InOneStep(r)
        /\ Granted(token, u)
     \/ /\ rows[token].user # u
        /\ Start(r, "registerDeviceToken", "update", u, token, 0)
        /\ UNCHANGED <<owner, had>>
  /\ UNCHANGED <<active, rows, inserted, taskVars>>

RegisterNew(r, u, token) ==
  /\ ~Registered(token)
  /\ Start(r, "registerDeviceToken", "create", u, token, 0)
  /\ UNCHANGED <<active, deviceVars, taskVars>>

\* The update is by token; a row that is gone makes it fail.
RegisterUpdate(r) ==
  LET q == req[r] IN
  /\ At(r, "registerDeviceToken", "update")
  /\ \/ /\ Registered(q.token)
        /\ rows' = [rows EXCEPT ![q.token].user = q.user]
        /\ Granted(q.token, q.user)
     \/ ~Registered(q.token) /\ UNCHANGED <<rows, owner, had>>
  /\ Finish(r)
  /\ UNCHANGED <<active, inserted, taskVars>>

\* The column is unique; a row that is there by now makes the insert fail.
RegisterCreate(r) ==
  LET q == req[r] IN
  /\ At(r, "registerDeviceToken", "create")
  /\ \/ /\ ~Registered(q.token)
        /\ inserted < MaxRows
        /\ inserted' = inserted + 1
        /\ rows' = [rows EXCEPT ![q.token] = [id |-> inserted', user |-> q.user]]
        /\ Granted(q.token, q.user)
     \/ Registered(q.token) /\ UNCHANGED deviceVars
  /\ Finish(r)
  /\ UNCHANGED <<active, taskVars>>

UnregisterDeviceToken(r, u, token) ==
  /\ token \in TokensOf(u)
  /\ Start(r, "unregisterDeviceToken", "delete", u, token, rows[token].id)
  /\ UNCHANGED <<active, deviceVars, taskVars>>

\* The delete is by row id: whoever owns the row by now loses it.
UnregisterDelete(r) ==
  LET q == req[r]
      there == Registered(q.token) /\ rows[q.token].id = q.id
  IN
  /\ At(r, "unregisterDeviceToken", "delete")
  /\ \/ /\ there
        /\ rows' = [rows EXCEPT ![q.token] = NoRow]
        /\ owner' = [owner EXCEPT ![q.token] = @ \ {q.user}]
     \/ ~there /\ UNCHANGED <<rows, owner>>
  /\ Finish(r)
  /\ UNCHANGED <<active, inserted, had, taskVars>>

-----------------------------------------------------------------------------
(* The user's list *)

\* markAllAsRead, and markAsRead of one notification: updateMany.
MarkRead(r, u, chosen) ==
  /\ InOneStep(r)
  /\ inbox' = [inbox EXCEPT ![u] =
       [i \in DOMAIN @ |-> IF @[i].event \in chosen
                           THEN [@[i] EXCEPT !.isRead = TRUE] ELSE @[i]]]
  /\ UNCHANGED <<active, deviceVars, events, jobs, shown, lost>>

\* A manager is deactivated or let in again.
SetActive(u) ==
  /\ active' = [active EXCEPT ![u] = ~@]
  /\ UNCHANGED <<deviceVars, taskVars, req, orderly>>

-----------------------------------------------------------------------------
(* The service *)

Fail(r) == Abandon(r) /\ UNCHANGED <<active, deviceVars, taskVars>>

Init ==
  /\ active = [u \in Users |-> TRUE]
  /\ rows = [token \in Tokens |-> NoRow]
  /\ inserted = 0
  /\ events = 0
  /\ jobs = {}
  /\ inbox = [u \in Users |-> <<>>]
  /\ shown = [token \in Tokens |-> {}]
  /\ lost = {}
  /\ owner = [token \in Tokens |-> {}]
  /\ had = [token \in Tokens |-> {}]
  /\ NoRequests
  /\ orderly = TRUE

Call(r) ==
  \E u \in Users :
    \/ \E token \in Tokens :
         \/ RegisterExisting(r, u, token)
         \/ RegisterNew(r, u, token)
         \/ UnregisterDeviceToken(r, u, token)
    \/ MarkRead(r, u, Events)
    \/ \E e \in Events : MarkRead(r, u, {e})

Step(r) == RegisterUpdate(r) \/ RegisterCreate(r) \/ UnregisterDelete(r)

TaskStep(j) ==
  \/ NotifyManagers(j)
  \/ NotifyCreate(j)
  \/ NotifyReadTokens(j)
  \/ NotifySend(j)

Next ==
  \/ \E r \in Requests : Call(r) \/ Step(r) \/ Fail(r)
  \/ TellManagers
  \/ \E u \in Users : TellUser(u)
  \/ \E u \in Staff : SetActive(u)
  \/ \E j \in jobs : TaskStep(j) \/ TaskFails(j)

\* Node.js runs an awaiting task on once its query answers.
Fairness == WF_vars(\E j \in jobs : TaskStep(j))

Spec == Init /\ [][Next]_vars /\ Fairness

-----------------------------------------------------------------------------
(* Properties *)

\* The rows, the tasks and the requests in flight have their types: a task that
\* is to send, and no other, has tokens to send to.
TypeOK ==
  /\ active \in [Users -> BOOLEAN]
  /\ rows \in [Tokens -> DeviceToken \cup {NoRow}]
  /\ inserted \in 0..MaxRows
  /\ events \in 0..MaxEvents
  /\ jobs \subseteq Job
  /\ \A j \in jobs : j.step = "send" <=> j.tokens # {}
  /\ inbox \in [Users -> Seq(Notification)]
  /\ shown \in [Tokens -> SUBSET [event : Events, user : Users]]
  /\ lost \subseteq [event : Events, user : Users]
  /\ owner \in [Tokens -> SUBSET Users]
  /\ had \in [Tokens -> SUBSET Users]
  /\ req \in [Requests -> InFlight \cup {Idle}]
  /\ orderly \in BOOLEAN

InInbox(e, u) == \E i \in DOMAIN inbox[u] : inbox[u][i].event = e

\* A device shows only notifications that are in the list of the user they
\* were for, and only of users who have been signed in on it: tokens may change
\* hands while a task is under way (notifyUser, registerDeviceToken).
PushesAreListed ==
  \A token \in Tokens : \A push \in shown[token] :
    InInbox(push.event, push.user) /\ push.user \in had[token]

\* While requests come one at a time, a device belongs to whoever registered it
\* last, until that very user unregisters it: a late unregistration by its
\* former user does not take it away (registerDeviceToken by token,
\* unregisterDeviceToken by row id).
LastRegistrationWins ==
  orderly =>
    \A token \in Tokens :
      owner[token] = {u \in Users : token \in TokensOf(u)}

\* A task is about to tell the user of the event.
UnderWay(e, u) ==
  \E j \in jobs :
    /\ j.event = e
    /\ j.user = u \/ (j.user = Everyone /\ u \in Staff /\ active[u])

\* Every notification under way arrives in the list of its user, who may have
\* been deactivated meanwhile, unless a statement of its task fails.
NotificationsArrive ==
  \A e \in Events, u \in Users :
    UnderWay(e, u) ~>
      \/ InInbox(e, u)
      \/ [event |-> e, user |-> u] \in lost
      \/ ~active[u]
=============================================================================
