# FieldEaze backend: models, checks and proofs

This directory is the verification project of the FieldEaze backend, a NestJS
service over PostgreSQL (through Prisma) for companies that send technicians to
their customers. It holds TLA+ modules that model the parts of the service in
which requests can get in each other's way, TLC configurations that check them
on small instances, and theorems that the TLA+ proof system checks for every
instance.

`PROJECT.json` maps every definition to the source lines it models, and lists
the runs, the mutants that show each property can fail, the hazards and the
theorems. Paths below are relative to the repository (`src/` in `PROJECT.json`).

## 1. How the system runs, and what that means for the models

The service keeps no state of its own: everything is a row in PostgreSQL.
Many requests run at once, in one Node.js process or several. A handler is a
sequence of `await`ed statements; between any two of them other handlers run.
Most handlers have the same shape:

1. read a row and refuse the request if its state does not allow it;
2. perhaps read more, hash a password or upload a file;
3. write by primary key, in a `$transaction` or in single statements, **without
   looking again** at what was read in step 1;
4. perhaps write something more after the transaction (an image, a log row),
   and start notifications and PDFs without waiting for them.

So each module has the database rows as variables, and one variable `req` that
says for each request in flight which handler it runs, which statement comes
next, and the data the handler holds. An action is one statement, or one
transaction, of one handler, with all the checks that follow it:

| in the module | in the code |
|---|---|
| `Handler(r, ...)` | the first read of the handler and the checks on it |
| `HandlerReadX(r)` | a later read that decides, and its checks |
| `HandlerCommit(r)` | the transaction or the write by key |
| `HandlerSaveX(r)` | a write after the transaction |
| `Write...(r)` of a request with a set `todo` | one of several writes that run side by side (`Promise.all`), in any order |
| a task in `jobs` or `pdf` | what a handler starts and does not wait for |
| `Fail(r)` | a statement throws, an upload fails, a late check rejects the body, or the process restarts: the request ends where it is |

PostgreSQL runs at READ COMMITTED (Prisma's default), and every transaction of
these handlers writes rows by key or inserts, so a transaction is one atomic
action whose unique constraints are checked in it. Reads outside a transaction
see committed rows.

The newer modules take this frame (`req`, `Begin`, `Continue`, `Finish`,
`Abandon`, the history `orderly`) from `Handlers`; `Tickets`, `Sessions`,
`Registration` and `PlanLimits`, whose requests carry more, each have their own.

## 2. Inventory

### Components, their state and their operations

| component (code) | state | operations | interacts with |
|---|---|---|---|
| Ticket service (`technician.service`, `manager.service`, `customer.service`, `ticket-status.constant`) | Ticket, TicketStatusLog, TicketImage, Payment, Invoice, Feedback, Technician.isActive | raise, assign, reassign, status steps, reject, pend, complete, upload, collect and verify payment, close, cancel (twice), feedback | plan limits, invoicing, notifications, uploads |
| Sessions and passwords (`auth.service`) | RefreshToken, User.passwordHash, User.resetToken | four logins, refresh, logout, forgot and reset password, manager's reset | registration, tenants |
| Registration and one-time codes (`auth.service`) | EmailOtp, User, Customer | register, resend, verify; forgot password by code | sessions, mail |
| Plan limits and subscriptions (`plan-limit.service`, `super-admin.service`, `admin.service`) | Subscription, User, Technician, ticket numbers | assign, renew, cancel; create manager, technician, ticket; deactivate | ticket service, tenants |
| Invoicing (`invoice.service`) | Invoice number and totals, PDF url | number from a count, background PDF | ticket service, settings, uploads |
| Attendance and availability (`technician.service`, `availability.service`) | Attendance, Technician position, TechnicianLocation, TechnicianAvailability | check in, check out, report a position, add a slot | |
| Catalogue (`categories`, `services`, `packages`, `offers`) | ServiceCategory, Service, ServicePackage, Offer | create, update, soft-delete | ticket service (sub-categories, charges) |
| Skills (`skill.service`) | Skill, TechnicianSkill | create, rename, assign, remove, recommend | plan limits (active technicians) |
| Addresses (`customer.service`) | Address | add (or revive), update, soft-delete | |
| Notifications and devices (`notifications.service`, `firebase.service`) | Notification, DeviceToken | notify, register, unregister, mark read | every ticket handler |
| Tenants and super admins (`super-admin.service`, profiles in `admin.service` and `customer.service`) | Tenant, User, Customer | set up, create, update, suspend, delete; profiles | sessions, registration |
| Settings (`admin.service`; `settings.service` is not wired in) | TenantSetting | upsert | invoicing |
| Lists, dashboards and reports (all services) | none | queries over the rows of the others | every component |
| Uploads, mail, guards, filters | none | wrappers, plumbing | |

### What is hard, and what makes each component correct

*Ticket service.* Commits act on stale reads: a status decided on before an
`await` is written after it, by ticket id alone. Correct means that the log
never shows work that was skipped, that money and feedback are recorded once
and only for work done, that the audit row of a verification tells the truth,
and that with no races fourteen handlers give a ticket one life, in which nobody
who looks at it ever sees it go back, change hands after the visit began, or be paid
for before it is done. The documents allow less than that life (section 5).

*Sessions.* Refresh is a delete and an insert, a reset of a password is an
update and a delete, none of them in a transaction. Correct means that sessions
do not multiply, that none survives the password it was opened under, and that
a link works once.

*Registration.* Attempts are counted by a statement that follows the check; two
purposes share one table; rows are deleted under requests that have read them.
An account may move to another email while a code for it is under way.
Correct means bounded attempts, accounts created only from live codes and with the
details they were asked with, one account for a code, and one live code of each
purpose.

*Plan limits.* Counting and creating are separate; two flags say whether a
technician is active; subscriptions are cancelled and created by separate
statements and renewed regardless of their status. Correct means that a limit is
not passed, that numbers have no gap, that flags agree, and that the plan last
assigned applies.

*Invoicing.* The number is a count taken before the transaction, tax and total are
rounded one by one, in binary fractions, at a rate read earlier still, and the PDF
is made after the response. Correct means that the amounts of payments, invoices,
reports and PDFs agree, that each adds up to a paisa,
that numbers have no gap when collections do not overlap, and that a PDF follows.

*Notifications.* Tasks nobody waits for, and devices that change hands. Correct
means that a push was meant for a user of that device and is in that user's
list, that the last registration wins, and that only a failure loses one.

*Attendance, skills, accounts, addresses, catalogue.* "Find, then write"
without a constraint behind it, or with one that is weaker than the check; two
writes side by side of which one may be refused; soft deletes by two flags,
which two services set under different rules. Correct means one shift a day, one
super admin from the open setup, a profile that shows the email one logs in
with, one address under a label, and nothing that was removed offered to customers
as an entry of a list.

*Lists and dashboards.* Each is a query with its own conditions. Correct means
that what one role is shown can be reconciled with what another is shown.

## 3. The modules

### Ticket service: `TicketStatus`, `TicketLifecycle`, `Tickets`, `TicketViews`, `MCTickets`, `TicketsProofs`

`TicketStatus` has the statuses and the tables the handlers consult: the
forward table of `ticket-status.constant.ts` and the lists of each handler.

`Tickets` is the service. Its variables are the columns that handlers read or
write (`status`, `technician`, `closedAt`, `payment`, `confirmedBy`, `active`),
and the log, image and feedback rows of each ticket (`trail`, `images`,
`feedback`). The log is kept as the *set* of statuses it shows: no handler reads
it, and the properties ask what it contains. Every handler of the three services
that reads or writes a ticket is modelled. What a technician, a
manager or a customer sends is chosen from the enumerations; amounts, notes,
coordinates and texts are left out. The invoice row is inserted in one
transaction with the payment and is not a variable of its own; it is in `Billing`.

`TicketViews` extends `Tickets` with the lists, details and dashboards of the
four roles, one operator for each query, and a property that relates them.

`TicketLifecycle` is the life of a ticket as the people it concerns see it, in
nine steps over a phase, a technician and who took the money. It shares nothing with
the service: no statuses, no tables of transitions, no requests and no stale reads.
`Tickets` is shown to implement it when one request runs at a time
(`ImplementsLifecycle`): `PhaseOf` maps the statuses to nine phases, and
`PaidTo` is who confirmed the payment, if there is one. With two requests it does not:
see section 5, which also lists what the documents forbid and this life, like the
code, allows.

### `Sessions`, `SessionsProofs`, `MCSessions`

A session is a RefreshToken row. The refresh token is a JWT over the user and
the second of its issue, with no random part, so the model's token *is* the pair
of user and second, and the unique column refuses a second one. Passwords and
reset links are numbered; a session remembers the password it was opened under.
`standing` joins `User.isActive` and the status of the tenant: the logins ask for
both, `forgotPassword` for the first only, `refreshToken` for neither. `logins`, `issued`
and `uses` are history variables: they count what the properties compare with.

### `Registration`, `RegistrationProofs`, `MCRegistration`

One-time codes of both purposes. The code of a row is its id, because random
codes may be taken to differ; a request may bring any code issued so far, or a
wrong one. Between the statements an account may change (`Change`): a customer moves to
another email (`updateProfile`) or sets a new password, staff are created and
deleted. Rows have an age that stops at `Lifetime`; the cooldown and the
expiry are read from it. The transaction of `verifyOtp` is one action with its three
constraints (unique user, non-null password, row still there); the two deletions
differ in what they spare, as in the code. The session that `verifyOtp` opens is
a login of `Sessions`; the reset token of `verifyForgotPasswordOtp` is a link of
`Sessions`.

### `PlanLimits`, `PlanLimitsProofs`, `MCPlanLimits`

One tenant: its subscriptions, the User row of each staff email, the technicians'
own rows, the tickets by number. `getActivePlan` takes the ACTIVE subscription
that ends last; end dates are free input, so with several ACTIVE any may be the
one. `deleteTechnician` and `updateTechnician` write two rows with
`Promise.all`, in either order; `deleteTenant` clears one of the two flags.

### `Billing`, `InvoiceBook`, `BillingProofs`, `MCBilling`

`collectPayment` seen from the money: the payment check, the settings and the
count that `generateInvoiceData` reads, the transaction, and the task that builds
and uploads the PDF and then saves its URL, each of which may fail. The DTO admits
any number from 1, so a request holds tenths of a paisa and a row paise: `Stored` is
what the columns of two decimals keep, and `GstAmount` and `Total` round the typed
amount as `Math.round(x * 100) / 100` does, one after the other. `FallsShort` names the
quotients whose binary fraction lies below the middle between two paise where the
exact one lies on it; the run has one, and the proofs allow any. The lists take
`ListCap` rows, 100 in the code. `completed` stands
for the status of the ticket as far as payments see it. `InvoiceBook` is what a
tenant may expect: entries made once, never altered, numbered without a gap.
`Billing` implements it with `INSTANCE InvoiceBook WITH book <- ...`, the entry of a
ticket being its Invoice row with the verification of its Payment row; a total is
its subtotal and tax but for a paisa of rounding; once
requests have overlapped, the book lets them repeat a number, and nothing else.

### `Notifications`, `NotificationsProofs`, `MCNotifications`

The task a handler starts (`TellUser`, `TellManagers`) finds its users, stores a
row for each, reads their tokens and sends; `sendMulticast` reaches any subset of
them. Any step of a task may fail, which ends the task silently. Beside the
tasks, two requests register and unregister one device for two users. Which
handler raised an event makes no difference to a task, so an event is a number.

### Back office: `Attendance`, `Skills`, `Accounts`, `Addresses`, `Catalog`, `BackOffice`, `BackOfficeProofs`, `MCBackOffice`

Five small components, none of which reads what another writes. `BackOffice`
instantiates each of them, and lets a behaviour be one of any of them, so that
one run checks all five and one module proves all five. In `Attendance` and
`Accounts` a request has a set of writes to do, for `Promise.all`. In `Skills` and `Catalog` a name is one of the
ways it can be written, and `SameName` says which of them differ in case only: the
checks of the handlers ignore case, the constraints do not. In `Catalog` all
tables share one map from ids to rows with a kind, since what is checked and
written differs between them by a flag or two; categories have an action for
each of the two services that edit them. What a package is made of and what an offer
is about are in `holds`, because three lists show them inside their entries
(`Included`). A handler whose reads no other request can make untrue, because it does
not look at the flags and no row is ever deleted, is one step. In `Attendance`,
`HistoryCap` and `AttendanceCap` are the 30 and 200 rows that the lists take.

### `Handlers`, `Counting`

`Handlers` is the frame of section 1. `Counting` has the lemmas on cardinalities
that the proofs share: parts, images and one element more or less.

### The history variable `orderly`

Every module but those of the ticket service records in `orderly` that so far no two
requests have overlapped and none has failed half-way. Several properties are promised only of such a
history; stating them as `orderly => ...` lets one run check both what always
holds and what holds without races, and it keeps the difference visible: where a
property says "while requests come one at a time", the racing behaviours of the
same run do violate it without that condition. Other history variables
(`issued`, `had`, `owner`, `granted`, `removed`, `wanted`, `reported` ...) keep what the
rows forget and a property compares them with.

## 4. The runs

Every passing run checks a type invariant beside the properties named here, but
for `tickets_serial`.

| run | instance | what it shows |
|---|---|---|
| `tickets_racing` | 1 ticket, 1 technician, 2 requests, failures | The log skips no milestone; a payment is for completed and invoiced work, is made once and never goes back; a verification row is true. |
| `tickets_serial` | 1 ticket, 2 technicians, 1 request, no failures | The service implements `TicketLifecycle`; a ticket has a technician exactly while it should; a paid ticket is locked; a verified payment is eventually logged; lists and dashboards of the four roles tell one story. |
| `sessions_racing` | 1 user, 2 requests, failures; 3 logins, 2 links, 1 manager's reset, 2 seconds | Sessions are never more than logins, even when one token is presented twice at once; orderly, no session outlives its password but during the reset itself; a link changes the password once, or once per racing request. |
| `registration_racing` | 2 emails, 2 details, 2 requests, failures; 2 codes, 2 attempts; accounts that move | Attempts pass their bound by at most one per racing request; accounts are created from live codes, with their details; a code creates one account, or one per racing request; orderly, one code of each purpose is pending; a code is exchanged for one token, or one per racing request. |
| `planlimits_racing` | 2 plans, 2 emails, 2 requests, failures; 2 subscriptions, 2 tickets | A ticket's number is never ahead of the tickets there are, and orderly it is its position; orderly, creations stay within the plan, a user who may log in is an active technician, and after an assignment only the assigned plan applies. |
| `billing_racing` | 2 tickets, 2 customers, 2 requests, failures; GST off or 18 %, an amount with half a paisa; lists of 1 row | Payments, invoices, the manager's total, the revenue report, the customers' lists and the PDFs agree, and add up to a paisa; the invoices implement `InvoiceBook`; every invoice gets its PDF unless the task fails. |
| `notifications_racing` | a manager and a technician with one device, 2 requests, 2 events, failures | A device shows only what is in the list of a user who was signed in on it; orderly, the last registration wins; every notification under way arrives unless a statement of its task fails. |
| `backoffice_racing` | one of five components: 1 technician, 2 days, lists of 1 and 2 shifts; 2 skills in 2 spellings; 2 tenants, 3 accounts, 2 emails, a code in 2 spellings; 2 labels; 3 rows of the catalogue; 2 requests, failures | The five properties of section 2, each with its exception for requests that overlap. |
| `tickets_paid_cancel`, `sessions_same_second`, `planlimits_edited`, `billing_minimum_charge` | the smallest that shows it | The findings of section 5: TLC finds a behaviour of the code that a document or a message excludes. |

### Bounds, and why they are enough

*Two requests.* A race in this code needs one request between its read and its
write, and another that writes; two requests give every such pair. A third could
only repeat a role, since no handler waits for another. The theorems
of section 6 hold for any number of requests, and for any values of the bounds
named below.

*One ticket, one user, two emails.* No handler reads or writes two tickets or two
users' sessions, so instances do not interact; an account moves between two emails.
Limits and
invoice numbers count several rows, so those runs have two of each; two spellings
are what a check that ignores case needs, and three rows of the catalogue are a
category with two things in it. `Catalog` bounds the bodies of updates to one
field: only the fields of the body are written, so a larger one is a sequence of
these in one step. It also lets no update change what an offer is about. The lists
take fewer rows than in the code, so that both a list that has room and one that
cuts something off occur.

*Small attempts, lifetimes and cooldowns* are chosen so that each boundary is
reached and passed: two attempts allow a miss, a last attempt and a refused one;
a code can be fresh, past its cooldown, and expired; a token can expire.
`MaxLogins`, `MaxLinks`, `MaxPasswords`, `MaxTime`, `MaxOtps`, `MaxSubs`,
`MaxTickets`, `MaxEvents`, `MaxRows`, `MaxDays`, `MaxShifts`, `MaxSkills`,
`MaxTenants`, `MaxUsers` and `MaxAddresses` bound the counters, in the guards of the calls that would raise
them, and are declared as bounds in the modules. They allow a session beside the
one being refreshed and one more, two links of which the second replaces the
first, a code after a code, a renewed subscription beside its
successor.

*Symmetry* is used for interchangeable model values, and never in a run with a
liveness property.

*Deadlock* is checked everywhere but in `registration_racing`, where nothing is
left to do when the bound on codes is reached and the last one is used up, and in
`backoffice_racing`, where the last day ends and the bound on rows is reached.

### Fairness

Node.js resumes an awaiting handler once its query answers or fails, so a request
in flight never just stops: `WF_vars(Step(r))` for each request. Nothing obliges
a client to call, so calls have no fairness. `FairSpec` adds this to the
specification in which requests may fail; `ReliableSpec` leaves `Fail` out, and is
used where a property is about requests that run to their end. In `Billing` the
task that makes a PDF, and in `Notifications` the tasks, are awaited statements
like any other and get the same fairness; failures need none, and the liveness
properties name what a failure loses.

## 5. Where documents and code differ

Shown by a run:

| run | document | code |
|---|---|---|
| `tickets_paid_cancel` | `findings/tickets.md:223`, "Payment locks the ticket" | `manager.service.ts:568` cancels by id on a status read before another request collected the payment. |
| `sessions_same_second` | `findings/auth.md:10`, refresh "deletes the old token and issues a new pair" | `auth.service.ts:539-543` deletes, and then cannot insert a token that another session of that second already has. |
| `planlimits_edited` | `findings/tickets.md:229`, "`ticketLimit` from the subscription plan is enforced on ticket creation" | `plan-limit.service.ts:37` compares with the constant `PLAN_LIMITS`; nothing reads the row that `updatePlan` writes. |
| `billing_minimum_charge` | the message at `technician.service.ts:415`, "Minimum collectible amount for this service is ..." | `technician.service.ts:412` takes the first element of a one-to-one relation, finds none, and refuses no amount. |

Seen while modelling; no run is spent on them:

- `findings/tickets.md:120`, "Payment collected, invoice created": the forward
  table lets `updateTicketStatus` move COMPLETED to INVOICE_GENERATED with neither.
- `findings/manager.md:281`, the log row of a verification: `manager.service.ts:653`
  inserts it outside the transaction, and when that fails, a retry is refused.
- `findings/super_admin.md:325`, "no multi-active subscriptions per tenant":
  `super-admin.service.ts:350` makes a cancelled subscription ACTIVE beside its
  successor.
- The manager's dashboard counts pending payments by the status PENDING, which
  `collectPayment` never writes.
- What is removed is still shown inside the entries made with it: `findPopular`
  shows the category of a service (`services.service.ts:90`), `findAll` of the
  packages their category and services (`packages.service.ts:80`), and the offers of
  the app their service and category (`offers.service.ts:63`), whatever the flags
  say. `CatalogSound` is about the entries of the lists, and says that nothing but
  removed services and categories is shown in this way.
- Racing check-ins open one shift each, where `findings/attendance.md:3` and `163`
  say one per technician and day; `WorkdaySound` says one when requests come one at
  a time, and no more than race otherwise.
- Racing setups create one super admin each, where `findings/super_admin.md:12`, `42`
  and `324` say that setup works once; likewise in `AccountsSound`.
- A session whose login or refresh was under way while a password was reset outlives
  the reset, where `findings/auth.md:11`, `278` and `337` say that all sessions end;
  `SessionsCurrent` holds while requests come one at a time.
- A customer who clears the email of the profile (`customer.service.ts:63` writes the
  null, `:75` skips it) goes on logging in with the old one; `AccountsSound` compares
  the two while there is an email to show.
- A customer who moves to an email that was about to be registered has two live codes
  there after asking for a forgotten password, one of each purpose
  (`auth.service.ts:710` deletes only its own); `OneLiveCode` counts each purpose, and
  `verifyOtp` compares the newer.
- Lists take a fixed number of rows and have no further page: 30 shifts in the
  technician's history (`technician.service.ts:123`), 200 in the manager's list, 100
  invoices (`manager.service.ts:737`) and 100 rows of the revenue report
  (`admin.service.ts:307`), while the count and the total beside them are over all
  rows. `BooksBalance` compares total and lists as long as nothing is cut off, and
  `WorkdaySound` counts the days of the history up to its cap.
- The tax and the total of an invoice are rounded one by one (`invoice.service.ts:43`),
  so that the total may be a paisa off the sum when an amount has a fraction of a
  paisa (`complete-job.dto.ts:31` admits it).
- Two requests can leave a new owner without the device: the unregistration of the
  former owner deletes by the id it read (`notifications.service.ts:199`).
  `LastRegistrationWins` holds while requests come one at a time.
- An address that is added again under the label of a deleted one keeps those
  optional fields of the old row that the new body leaves out.
- `findings/tickets.md:217` asks for photos before completion; the status
  endpoint reaches COMPLETED without (`technician.service.ts:230`), and reaches
  TICKET_CLOSED without `closedAt` (`tickets.md:105`, `223`).
- `findings/tickets.md:219` ends the customer's cancellation window once the work
  has started; the list at `customer.service.ts:241` names IN_PROGRESS but not
  PENDING (work paused), so a paused ticket can still be cancelled by the customer.
- `findings/tickets.md:221` lets a manager cancel "up to and including ACCEPTED";
  `manager.service.ts:563` refuses only the four statuses that end a ticket.
- `findings/manager.md:85` describes limits per plan row; `PLAN_LIMITS` is a
  constant, and the columns of SubscriptionPlan are not read.
- A technician who is activated again is not counted against the limit, and
  the end date of a subscription orders subscriptions but never ends one.
- `findings/invoices.md:137` and `141` predate the PDF upload and the use of
  `invoiceNumberFormat`.

## 6. What is proved

Every safety property that a passing run checks is also a theorem: of any sets of
tickets, users, emails and names, any number of requests in flight, and any values
of the bounds. The runs show that the formulas mean something (each has a mutant
that breaks it); the theorems show that no instance is an exception. A component's
theorems are in the module with `Proofs` after its name.

### Assumptions

All are `ASSUME`s on constants, named, beside the constants, and evaluated by TLC
in the runs:

- what marks an absent row or field (`NoRow`, `Absent`, `Nowhere`, `Unassigned`,
  `NoEmail`, `NoAccount`, ...) is not one of the values it is absent from, and no
  level of a skill is 0;
- `Requests`, and in `Billing` `Tickets`, are finite where they are counted: a
  process holds finitely many requests, a table finitely many rows;
- bounds and limits are natural numbers (for a plan's ticket limit, the
  `@Min(0)` of its DTO), amounts are one rupee or more and GST rates are 0 to 100;
- uploads have known image types, staff are users, equality of names up to the case
  of letters is symmetric, `Lowercase` gives a code for every code, and the
  tenantId of super admins is no tenant's id.

The theorems marked "serial" below assume in addition `OneAtATime`, that `Requests`
has one element at most, as in the run `tickets_serial`; they allow requests to fail
half-way, which that run leaves out for the sake of its liveness property. The racing
service does not have these properties (section 5).

### Ticket service

| theorem | says |
|---|---|
| `TypeCorrect` | `Spec => []TypeOK` |
| `MilestonesInOrder` | `Spec => []NoMilestoneSkipped` |
| `PaymentsForCompletedWork` | `Spec => []PaidWorkWasCompleted` |
| `VerificationRowsAreTrue` | `Spec => []VerificationRowIsTrue` |
| `FeedbackIsSound` | `Spec => []FeedbackSound` |
| `PhotoChecksStayTrue` | `Spec => []PhotoCheckStaysTrue` |
| `PaymentsGoForward` | `Spec => PaymentHistory`, an action property |
| `LifecycleImplemented` | serial: `Spec => ImplementsLifecycle`, the refinement of `TicketLifecycle` under `PhaseOf` and `PaidTo` |
| `AssignmentsConsistent` | serial: `Spec => []AssignmentConsistent` |
| `PaymentsLockTickets` | serial: `Spec => []PaymentLocksTicket` |
| `DashboardsInAgreement` | serial: `Spec => []DashboardsAgree` |

*With races.* None of these is inductive. A commit writes what a check allowed
some time ago, when the ticket may have been elsewhere, so the current status
says nothing about whether the write is sound. What does is the log: it only
grows. When a check passes, the status it read is in the log (`StatusLogged`: both
are written in one transaction), so the milestone before the one the request
will write is in the log, and it is still there when the request commits. The
inductive invariant `IInv` therefore adds to the properties, for each request in
flight, what its checks have established and nothing can undo (`RequestOK`,
`Grounded`): that images were there, that an invoice was logged, that a payment
exists, that it is verified. `Monotone` names the facts that only grow, and
`RequestsOKStable` carries `RequestOK` of every other request over any step that is
monotone. The rest is one lemma per kind of action: a read that starts a
request (`StartStep`, `CallStep`), a later read (`LaterReadStep`), a commit of a
status (`CommitStep`, `StatusCommitStep`), a side row (`SideStep`, `SaveImageStep`),
and the four handlers that touch payments and feedback.

*Serial.* With nobody else at work, what a request has read is still so when it
commits. `Fresh` says what that is, handler by handler, and `SerialInv` adds to
it that technician, payment and feedback agree with the status. From them every
commit is a step of `TicketLifecycle` from the phase the ticket really is in, or a
move within a phase, which is a stutter like reads and side rows. That money is taken
by the technician who did the work is where `technician` and `confirmedBy` have to be
related across two handlers. The dashboards are proved to agree by describing
each query in terms of the status alone, which `SerialInv` allows.

### Sessions and passwords

| theorem | says |
|---|---|
| `TypeCorrect` | `Spec => []TypeOK` |
| `SessionsConserved` | `Spec => []SessionConservation` |
| `SessionsStayCurrent` | `Spec => []SessionsCurrent` |
| `LinksUsedOnce` | `Spec => []LinkUsedOnce` |

The first counts rows and the requests that hold a session they have deleted and
will insert again; it is inductive by itself once the types are known, because each
statement moves a session from one side to the other. `CurrentInv` adds to the third
that a login or a refresh about to insert its row has the password of today, while
it is alone. `LinkInv` strengthens the last: the uses of a link, with the requests that
have found it and not yet used it, are no more than may be, and the link that is
stored, like those yet to be issued, has no use.

### Registration and one-time codes

| theorem | says |
|---|---|
| `TypeCorrect` | `Spec => []TypeOK` |
| `LiveCodesCreate` | `Spec => OnlyLiveCodeCreates`, an action property |
| `AttemptsAreBounded` | `Spec => []AttemptsBounded` |
| `CodesGrantOnce` | `Spec => []CodeGrantsOnce` |
| `CodesCreateOnce` | `Spec => []CodeCreatesOnce` |
| `OneCodeLives` | `Spec => []OneLiveCode` |

A code's row may be deleted under a request that has read it, so `MatchInv` says of
a request that *if* the row is there, it is for the same email and details. The
bounds on attempts, tokens and accounts (`AttemptsInv`, `GrantInv`, `CreatedInv`) count
the requests that were let in and have not yet added theirs. No invariant may say
that an email with an account has no code to register with: accounts move. So
`OneCodeInv` says of each purpose apart, under `orderly`, that no code of it is pending
once the request in flight has deleted them and is about to insert its own.

### Plan limits and subscriptions

| theorem | says |
|---|---|
| `TypeCorrect` | `Spec => []TypeOK` |
| `TicketsAreNumbered` | `Spec => []TicketsNumbered` |
| `ActiveUsersAreAssignable` | `Spec => []ActiveUserIsActiveTechnician` |
| `AssignedPlansApply` | `Spec => AssignedPlanApplies`, an action property |
| `LimitsAreRespected` | `Spec => LimitRespected`, an action property |

`NumbersInv` needs no order: a count only grows, so a number taken from it is at
most one past the end whenever it is written. The others rest on `OrderlyInv`: while
one request is alone, the usage it counted, the plan it found and the number it
took are still right (`Knows`), the two flags of each technician agree but for the
one being written, and numbers have no gap.

### Invoicing

| theorem | says |
|---|---|
| `TypeCorrect` | `Spec => []TypeOK` |
| `BooksAlwaysBalance` | `Spec => []BooksBalance` |
| `BookIsKept` | `Spec => ImplementsBook`, the refinement of `InvoiceBook` |

`RowsAgree` says that the payment and the invoice of a ticket are there together
and agree in amounts, `DocumentsPrinted` that a PDF was made from the invoice that
is still there. Since both sums of `BooksBalance` are the same fold over the same
set, their equality needs no induction, only that the summed functions agree. That
an invoice adds up to a paisa is a lemma about `MathRound`, whatever `FallsShort` is. For
the refinement, a number taken by a request is at most one ahead of the invoices
there are, and under `orderly` exactly one ahead (`OrderlyInv`); the transaction is
then an entry of the book, a verification marks one, and all else stutters.

### Notifications and devices

| theorem | says |
|---|---|
| `TypeCorrect` | `Spec => []TypeOK` |
| `PushesListed` | `Spec => []PushesAreListed` |
| `LastRegistrationsWin` | `Spec => []LastRegistrationWins` |

A task sends to tokens that it read before; the device may have another owner by
then, and its row may be gone, so `PushesAreListed` cannot rest on the rows. The
lists of the users and the set of those who were ever signed in on a device only
grow (`ListsGrow`, `HadGrows`). The inductive invariant `IInv` records what each task
has established of them: that it stored the notification (`TasksListed`), and that
its user had every device it is about to reach (`TasksReach`, which rests on
`OwnersHad` when the tokens are read). `OwnersInv` adds, under `orderly`, that the
rows name the last owner, and that a request that unregisters found its own device.

### Back office

| theorem | says |
|---|---|
| `BackOfficeTyped` | `Spec => []TypeOK` |
| `WorkdaysAreSound` | `Spec => []WorkdaySound` |
| `SkillsAreSound` | `Spec => []SkillsSound` |
| `AccountsAreSound` | `Spec => []AccountsSound` |
| `AddressesAreSound` | `Spec => []AddressesSound` |
| `CatalogIsSound` | `Spec => []CatalogSound` |

Each component has an invariant of its own, with three layers. What holds of the
rows under the constraints of the database: ids, codes, labels and emails are
unique, `wanted` is what is listed, what was removed is flagged. What a request in
flight *knows* (`SkillKnown`, `EntryKnown`, `AccountKnown`, `AddressKnown`): rows are
never deleted, nor change their table or role, so that what it has found is there
whatever became of it. And what it has *checked* (`SkillChecked`, `EntryChecked`,
`AccountChecked`, `WorkdayChecked`), which holds while it is alone: that a name or a
day is free, that a category is not deleted, that one of a customer's two rows is
written. Where a check has no constraint behind it, races are counted: the shifts
of a day with the check-ins in flight (`ShiftsCounted`), and the setups done with the
setups in flight (`Setups`), are never more than requests, because none begins once
there is one. `AddressesInv` has no third layer: the constraint of user and label
is enough, whatever the race. The last section proves that a behaviour of the whole
keeps the invariant of the component it is about and the first rows of the others.

### Only model-checked

Liveness (`VerificationIsLogged`, `PdfFollows`, `NotificationsArrive`), which is out
of the prover's reach. `FeedbackSound` and `PhotoCheckStaysTrue` are the other way
round: their theorems leave a run nothing to add, and they are proved only.

## 7. Not modelled

Components that are listed as `not_modelled` or `partly` in `PROJECT.json`, with
the reason there. In short:

- Uploads, mail and push are remote calls whose failure is `Fail`. Guards and DTOs
  have no state. `settings.service` and `sendAndPersist` are never reached.
- The audit log is appended without waiting and read by nobody else; availability
  slots are only inserted and listed; the table the billing report sums is
  written by no handler.
- Prices, service charges and the periods of offers
  are data that no check of another handler depends on. The format of invoice and
  ticket numbers is left out: a number is its sequence part.
- Sums by month and the dashboard of the super admin repeat counts that are
  modelled.

## 8. Plan

The modules of the plan are written: `Tickets`, `Sessions`, `Registration`,
`PlanLimits`, `Billing`, `Notifications` and the back office, and the safety
properties of their runs are proved. What is left:

1. A module `Account`, the composition of `Sessions` and `Registration` over one
   user, where the code, the link and the session meet: which password a session
   was opened under when a code and a link both reset it.
2. For the ticket service with races, what survives of the serial properties: how
   far a status can be from the last one logged, in terms of the number of requests,
   in the way `AttemptsAreBounded` and `SessionsConserved` count theirs.
3. The theorems of the serial ticket service from `orderly` in place of
   `OneAtATime`, which takes the history variable that the other modules have.
