------------------------------- MODULE Tickets -------------------------------
(***************************************************************************)
(* The ticket service: every handler of the technician, manager and        *)
(* customer services that reads or writes a ticket, its images, its        *)
(* payment or its feedback, run by any number of requests at once over one *)
(* PostgreSQL database.                                                    *)
(*                                                                         *)
(* A handler reads rows, decides, and then writes in one transaction that  *)
(* addresses the ticket by its id alone.  Between the reads and the writes *)
(* it awaits, and other requests (of this process or of another worker of  *)
(* the cluster) run.  So a handler is an action for the first read and its *)
(* checks, one for each later read that decides anything, and one for the  *)
(* commit.  A commit looks at nothing but the unique constraints.          *)
(***************************************************************************)
EXTENDS TicketStatus, Naturals

CONSTANTS
  Tickets,      \* the tickets of one tenant
  Technicians,  \* its technicians
  Unassigned,   \* technicianId = null, confirmedBy = null
  Requests,     \* the requests that can be in flight together
  UploadTypes   \* bound: the image types the technicians upload

ASSUME UnassignedAssumption == Unassigned \notin Technicians
ASSUME UploadTypesAssumption == UploadTypes \subseteq ImageTypes

VARIABLES
  status,       \* Ticket.status, or Absent
  technician,   \* Ticket.technicianId
  closedAt,     \* Ticket.closedAt # null
  trail,        \* the TicketStatusLog rows of the ticket, as a set
  images,       \* the types of the TicketImage rows of the ticket
  payment,      \* Payment.status; the Invoice row is made with the Payment row
  confirmedBy,  \* Payment.confirmedBy
  feedback,     \* the number of Feedback rows of the ticket
  active,       \* Technician.isActive
  req           \* what each request in flight is doing

ticketVars == <<status, technician, closedAt, trail>>
paymentVars == <<payment, confirmedBy>>
vars == <<status, technician, closedAt, trail, images, payment, confirmedBy,
          feedback, active, req>>

-----------------------------------------------------------------------------
(* Requests *)

\* The log row verifyPayment adds: status INVOICE_GENERATED with the note
\* "Payment verified by manager".
VerificationRow == "PAYMENT_VERIFIED"

LogRows == TicketStatusEnum \cup {VerificationRow}

Ops ==
  { "updateTicketStatus", "completeTicket", "markPending", "rejectTicket",
    "uploadImage", "collectPayment", "assignTechnician", "reassignTechnician",
    "closeTicket", "managerCancelTicket", "verifyPayment", "raiseTicket",
    "customerCancelTicket", "submitFeedback" }

\* What a request does next: a read that decides, the commit, or a write
\* that follows the commit outside its transaction.
Steps ==
  {"readImages", "readPayment", "readTechnician", "readFeedback", "commit",
   "saveImage", "saveLog"}

Idle == [op |-> "idle"]

\* The body of the request asks for no status and no image type.
NoTarget == "NO_TARGET"

\* A request holds the ticket, the technician (who acts, or is assigned) and
\* the status or image type its body asks for; no row it has read.
InFlight ==
  [op : Ops, step : Steps, ticket : Tickets,
   tech : Technicians \cup {Unassigned},
   to : TicketStatusEnum \cup ImageTypes \cup {NoTarget}]

Start(r, op, step, t, e, to) ==
  /\ req[r] = Idle
  /\ req' = [req EXCEPT ![r] =
       [op |-> op, step |-> step, ticket |-> t, tech |-> e, to |-> to]]

At(r, op, step) == req[r] # Idle /\ req[r].op = op /\ req[r].step = step

Continue(r, step) == req' = [req EXCEPT ![r].step = step]

Finish(r) == req' = [req EXCEPT ![r] = Idle]

\* The first read of a handler writes nothing.
ReadOnly ==
  UNCHANGED <<status, technician, closedAt, trail, images, payment,
              confirmedBy, feedback, active>>

\* The transaction of the handlers: ticket.update by id, and a log row.
WriteTicket(t, s, e) ==
  /\ status' = [status EXCEPT ![t] = s]
  /\ technician' = [technician EXCEPT ![t] = e]
  /\ trail' = [trail EXCEPT ![t] = @ \cup {s}]

AddImage(t, type) == images' = [images EXCEPT ![t] = @ \cup {type}]
-----------------------------------------------------------------------------
(* Technician service *)

\* resolveTicketForTechnician finds the ticket only for its own technician.
OwnTicket(t, e) == status[t] # Absent /\ technician[t] = e

\* updateTicketStatus: any status the table allows from the one just read.
UpdateTicketStatus(r, t, e, to) ==
  /\ OwnTicket(t, e)
  /\ Forward(status[t], to)
  /\ Start(r, "updateTicketStatus", "commit", t, e, to)
  /\ ReadOnly

UpdateTicketStatusCommit(r) ==
  LET q == req[r] IN
  /\ At(r, "updateTicketStatus", "commit")
  /\ WriteTicket(q.ticket, q.to, technician[q.ticket])
  /\ Finish(r)
  /\ UNCHANGED <<closedAt, images, paymentVars, feedback, active>>

\* completeTicket reads the ticket, then its images.
CompleteTicket(r, t, e) ==
  /\ OwnTicket(t, e)
  /\ status[t] = "IN_PROGRESS"
  /\ Start(r, "completeTicket", "readImages", t, e, "COMPLETED")
  /\ ReadOnly

\* hasBefore && hasAfter
HasBeforeAndAfter(types) == "BEFORE" \in types /\ "AFTER" \in types

CompleteTicketReadImages(r) ==
  /\ At(r, "completeTicket", "readImages")
  /\ \/ HasBeforeAndAfter(images[req[r].ticket]) /\ Continue(r, "commit")
     \/ ~HasBeforeAndAfter(images[req[r].ticket]) /\ Finish(r)
  /\ ReadOnly

\* The signature, when the body has one, is saved in the same transaction.
CompleteTicketCommit(r) ==
  LET t == req[r].ticket IN
  /\ At(r, "completeTicket", "commit")
  /\ AddImage(t, "SIGNATURE") \/ UNCHANGED images
  /\ WriteTicket(t, "COMPLETED", technician[t])
  /\ Finish(r)
  /\ UNCHANGED <<closedAt, paymentVars, feedback, active>>

\* markPending without its check of the status.
MarkPendingAnyStatus(r, t, e) ==
  /\ OwnTicket(t, e)
  /\ Start(r, "markPending", "commit", t, e, "PENDING")
  /\ ReadOnly

MarkPending(r, t, e) ==
  /\ OwnTicket(t, e)
  /\ status[t] = "IN_PROGRESS"
  /\ Start(r, "markPending", "commit", t, e, "PENDING")
  /\ ReadOnly

\* With a file in the request, the upload and the image row follow the commit.
MarkPendingCommit(r) ==
  LET t == req[r].ticket IN
  /\ At(r, "markPending", "commit")
  /\ WriteTicket(t, "PENDING", technician[t])
  /\ Continue(r, "saveImage") \/ Finish(r)
  /\ UNCHANGED <<closedAt, images, paymentVars, feedback, active>>

MarkPendingSaveImage(r) ==
  /\ At(r, "markPending", "saveImage")
  /\ AddImage(req[r].ticket, "BEFORE")
  /\ Finish(r)
  /\ UNCHANGED <<ticketVars, paymentVars, feedback, active>>

RejectTicket(r, t, e) ==
  /\ OwnTicket(t, e)
  /\ status[t] \in Returnable
  /\ Start(r, "rejectTicket", "commit", t, e, "NEW_TICKET")
  /\ ReadOnly

\* rejectTicket that only resets the status.
RejectKeepingTechnician(r) ==
  LET t == req[r].ticket IN
  /\ At(r, "rejectTicket", "commit")
  /\ WriteTicket(t, "NEW_TICKET", technician[t])
  /\ Finish(r)
  /\ UNCHANGED <<closedAt, images, paymentVars, feedback, active>>

\* rejectTicket that stores the label its notification uses.
RejectStoringLabel(r) ==
  /\ At(r, "rejectTicket", "commit")
  /\ WriteTicket(req[r].ticket, "REJECTED", Unassigned)
  /\ Finish(r)
  /\ UNCHANGED <<closedAt, images, paymentVars, feedback, active>>

RejectTicketCommit(r) ==
  /\ At(r, "rejectTicket", "commit")
  /\ WriteTicket(req[r].ticket, "NEW_TICKET", Unassigned)
  /\ Finish(r)
  /\ UNCHANGED <<closedAt, images, paymentVars, feedback, active>>

\* uploadImage asks for no status.
UploadImage(r, t, e, type) ==
  /\ OwnTicket(t, e)
  /\ Start(r, "uploadImage", "saveImage", t, e, type)
  /\ ReadOnly

UploadImageSave(r) ==
  /\ At(r, "uploadImage", "saveImage")
  /\ AddImage(req[r].ticket, req[r].to)
  /\ Finish(r)
  /\ UNCHANGED <<ticketVars, paymentVars, feedback, active>>
\* collectPayment without its check of the status.
CollectPaymentAnyStatus(r, t, e) ==
  /\ OwnTicket(t, e)
  /\ Start(r, "collectPayment", "readPayment", t, e, "INVOICE_GENERATED")
  /\ ReadOnly

\* collectPayment reads the ticket, then the payment, then what the invoice
\* needs; the reads of the amounts end the request or change nothing.
CollectPayment(r, t, e) ==
  /\ OwnTicket(t, e)
  /\ status[t] = "COMPLETED"
  /\ Start(r, "collectPayment", "readPayment", t, e, "INVOICE_GENERATED")
  /\ ReadOnly

CollectPaymentReadPayment(r) ==
  /\ At(r, "collectPayment", "readPayment")
  /\ \/ payment[req[r].ticket] = "NONE" /\ Continue(r, "commit")
     \/ payment[req[r].ticket] # "NONE" /\ Finish(r)
  /\ ReadOnly

\* The Payment table without its unique constraint.
NoPaymentConstraint(t) == TRUE

\* payments.ticketId is unique: a second insert fails and rolls back.
PaymentInsertable(t) == payment[t] = "NONE"

CollectPaymentCommit(r) ==
  LET q == req[r] IN
  /\ At(r, "collectPayment", "commit")
  /\ IF PaymentInsertable(q.ticket)
     THEN /\ payment' = [payment EXCEPT ![q.ticket] = "COLLECTED"]
          /\ confirmedBy' = [confirmedBy EXCEPT ![q.ticket] = q.tech]
          /\ WriteTicket(q.ticket, "INVOICE_GENERATED", technician[q.ticket])
     ELSE UNCHANGED <<status, technician, trail, paymentVars>>
  /\ Finish(r)
  /\ UNCHANGED <<closedAt, images, feedback, active>>

-----------------------------------------------------------------------------
(* Manager service *)

AssignTechnician(r, t, e) ==
  /\ status[t] # Absent
  /\ Forward(status[t], "ASSIGNED")
  /\ Start(r, "assignTechnician", "readTechnician", t, e, "ASSIGNED")
  /\ ReadOnly

ReassignTechnician(r, t, e) ==
  /\ status[t] \in Returnable
  /\ Start(r, "reassignTechnician", "readTechnician", t, e, "ASSIGNED")
  /\ ReadOnly

AssignOps == {"assignTechnician", "reassignTechnician"}

AssignReadTechnician(r) ==
  /\ \E op \in AssignOps : At(r, op, "readTechnician")
  /\ \/ active[req[r].tech] /\ Continue(r, "commit")
     \/ ~active[req[r].tech] /\ Finish(r)
  /\ ReadOnly

AssignCommit(r) ==
  /\ \E op \in AssignOps : At(r, op, "commit")
  /\ WriteTicket(req[r].ticket, "ASSIGNED", req[r].tech)
  /\ Finish(r)
  /\ UNCHANGED <<closedAt, images, paymentVars, feedback, active>>

CloseTicket(r, t) ==
  /\ status[t] = "INVOICE_GENERATED"
  /\ Start(r, "closeTicket", "commit", t, Unassigned, "TICKET_CLOSED")
  /\ ReadOnly

CloseTicketCommit(r) ==
  LET t == req[r].ticket IN
  /\ At(r, "closeTicket", "commit")
  /\ WriteTicket(t, "TICKET_CLOSED", technician[t])
  /\ closedAt' = [closedAt EXCEPT ![t] = TRUE]
  /\ Finish(r)
  /\ UNCHANGED <<images, paymentVars, feedback, active>>

ManagerCancelTicket(r, t) ==
  /\ status[t] \notin ManagerNonCancellable \cup {Absent}
  /\ Start(r, "managerCancelTicket", "commit", t, Unassigned, "CANCELLED")
  /\ ReadOnly

CancelOps == {"managerCancelTicket", "customerCancelTicket"}

\* The two cancelTicket handlers commit the same rows.
CancelTicketCommit(r) ==
  /\ \E op \in CancelOps : At(r, op, "commit")
  /\ WriteTicket(req[r].ticket, "CANCELLED", Unassigned)
  /\ Finish(r)
  /\ UNCHANGED <<closedAt, images, paymentVars, feedback, active>>

VerifyPayment(r, t) ==
  /\ payment[t] = "COLLECTED"
  /\ Start(r, "verifyPayment", "commit", t, Unassigned, NoTarget)
  /\ ReadOnly

\* verifyPayment in the order log row first, payment second.
VerifyPaymentLogFirst(r) ==
  /\ At(r, "verifyPayment", "commit")
  /\ trail' = [trail EXCEPT ![req[r].ticket] = @ \cup {VerificationRow}]
  /\ Continue(r, "saveLog")
  /\ UNCHANGED <<status, technician, closedAt, images, paymentVars, feedback,
                 active>>

\* verifyPayment that forgets its log row.
VerifyPaymentWithoutLog(r) ==
  /\ At(r, "verifyPayment", "commit")
  /\ payment' = [payment EXCEPT ![req[r].ticket] = "VERIFIED"]
  /\ Finish(r)
  /\ UNCHANGED <<ticketVars, images, confirmedBy, feedback, active>>

\* Two statements outside a transaction: the payment, and then its log row.
VerifyPaymentCommit(r) ==
  /\ At(r, "verifyPayment", "commit")
  /\ payment' = [payment EXCEPT ![req[r].ticket] = "VERIFIED"]
  /\ Continue(r, "saveLog")
  /\ UNCHANGED <<ticketVars, images, confirmedBy, feedback, active>>

VerifyPaymentSaveLog(r) ==
  /\ At(r, "verifyPayment", "saveLog")
  /\ trail' = [trail EXCEPT ![req[r].ticket] = @ \cup {VerificationRow}]
  /\ Finish(r)
  /\ UNCHANGED <<status, technician, closedAt, images, paymentVars, feedback,
                 active>>

\* updateTechnician and deleteTechnician, as far as assignment sees them: one
\* update of a row that is never deleted, so a request does it in one step.
SetTechnicianActive(r, e, on) ==
  /\ req[r] = Idle
  /\ active' = [active EXCEPT ![e] = on]
  /\ UNCHANGED <<ticketVars, images, paymentVars, feedback, req>>
-----------------------------------------------------------------------------
(* Customer service *)

\* raiseTicket inserts a row with a fresh id; what it reads first (the plan
\* limit, the sub-category, the ticket count) involves no existing ticket.
RaiseTicket(r, t) ==
  /\ status[t] = Absent
  /\ WriteTicket(t, "NEW_TICKET", Unassigned)
  /\ \/ req[r] = Idle /\ UNCHANGED req
     \/ Start(r, "raiseTicket", "saveImage", t, Unassigned, "RAISED")
  /\ UNCHANGED <<closedAt, images, paymentVars, feedback, active>>

\* The files of the request are uploaded after the commit.
RaiseTicketSaveImage(r) ==
  /\ At(r, "raiseTicket", "saveImage")
  /\ AddImage(req[r].ticket, "RAISED")
  /\ Finish(r)
  /\ UNCHANGED <<ticketVars, paymentVars, feedback, active>>

CustomerCancelTicket(r, t) ==
  /\ status[t] \notin CustomerNonCancellable \cup {Absent}
  /\ Start(r, "customerCancelTicket", "commit", t, Unassigned, "CANCELLED")
  /\ ReadOnly

\* submitFeedback reads the ticket, then the feedback it may already have.
SubmitFeedback(r, t) ==
  /\ status[t] \in FeedbackAllowed
  /\ Start(r, "submitFeedback", "readFeedback", t, Unassigned, NoTarget)
  /\ ReadOnly

SubmitFeedbackReadFeedback(r) ==
  /\ At(r, "submitFeedback", "readFeedback")
  /\ \/ feedback[req[r].ticket] = 0 /\ Continue(r, "commit")
     \/ feedback[req[r].ticket] # 0 /\ Finish(r)
  /\ ReadOnly

\* feedback.ticketId is unique: a second insert fails.
FeedbackInsertable(t) == feedback[t] = 0

SubmitFeedbackCommit(r) ==
  LET t == req[r].ticket IN
  /\ At(r, "submitFeedback", "commit")
  /\ IF FeedbackInsertable(t)
     THEN feedback' = [feedback EXCEPT ![t] = @ + 1]
     ELSE UNCHANGED feedback
  /\ Finish(r)
  /\ UNCHANGED <<ticketVars, images, paymentVars, active>>

-----------------------------------------------------------------------------
(* The service *)

\* A request ends without writing anything more: a later check rejects its
\* body, an upload or a statement fails, or its worker process restarts.
Fail(r) ==
  /\ req[r] # Idle
  /\ Finish(r)
  /\ ReadOnly

Init ==
  /\ status = [t \in Tickets |-> Absent]
  /\ technician = [t \in Tickets |-> Unassigned]
  /\ closedAt = [t \in Tickets |-> FALSE]
  /\ trail = [t \in Tickets |-> {}]
  /\ images = [t \in Tickets |-> {}]
  /\ payment = [t \in Tickets |-> "NONE"]
  /\ confirmedBy = [t \in Tickets |-> Unassigned]
  /\ feedback = [t \in Tickets |-> 0]
  /\ active = [e \in Technicians |-> TRUE]
  /\ req = [r \in Requests |-> Idle]

\* A client calls an endpoint and the handler's first read lets it through.
Call(r) ==
  \/ \E t \in Tickets, e \in Technicians :
       \/ \E to \in TicketStatusEnum : UpdateTicketStatus(r, t, e, to)
       \/ CompleteTicket(r, t, e)
       \/ MarkPending(r, t, e)
       \/ RejectTicket(r, t, e)
       \/ \E type \in UploadTypes : UploadImage(r, t, e, type)
       \/ CollectPayment(r, t, e)
       \/ AssignTechnician(r, t, e)
       \/ ReassignTechnician(r, t, e)
  \/ \E t \in Tickets :
       \/ CloseTicket(r, t)
       \/ ManagerCancelTicket(r, t)
       \/ VerifyPayment(r, t)
       \/ RaiseTicket(r, t)
       \/ CustomerCancelTicket(r, t)
       \/ SubmitFeedback(r, t)
  \/ \E e \in Technicians, on \in BOOLEAN : SetTechnicianActive(r, e, on)

\* The handler of a request in flight runs on.
Step(r) ==
  \/ UpdateTicketStatusCommit(r)
  \/ CompleteTicketReadImages(r)
  \/ CompleteTicketCommit(r)
  \/ MarkPendingCommit(r)
  \/ MarkPendingSaveImage(r)
  \/ RejectTicketCommit(r)
  \/ UploadImageSave(r)
  \/ CollectPaymentReadPayment(r)
  \/ CollectPaymentCommit(r)
  \/ AssignReadTechnician(r)
  \/ AssignCommit(r)
  \/ CloseTicketCommit(r)
  \/ CancelTicketCommit(r)
  \/ VerifyPaymentCommit(r)
  \/ VerifyPaymentSaveLog(r)
  \/ RaiseTicketSaveImage(r)
  \/ SubmitFeedbackReadFeedback(r)
  \/ SubmitFeedbackCommit(r)

Next == \E r \in Requests : Call(r) \/ Step(r) \/ Fail(r)

Spec == Init /\ [][Next]_vars

-----------------------------------------------------------------------------
(* Fairness *)

\* Node.js always runs an awaiting handler on once its query answers, so a
\* request in flight never just stops; nothing makes a client call.
Fairness == \A r \in Requests : WF_vars(Step(r))

\* A worker may restart or a statement fail at any step.
FairSpec == Spec /\ Fairness

\* No worker restarts and no statement fails.
ReliableSpec ==
  Init /\ [][\E r \in Requests : Call(r) \/ Step(r)]_vars /\ Fairness

-----------------------------------------------------------------------------
(* Properties that hold however the requests interleave *)

\* The rows and the requests in flight have their types.
TypeOK ==
  /\ status \in [Tickets -> Statuses]
  /\ technician \in [Tickets -> Technicians \cup {Unassigned}]
  /\ closedAt \in [Tickets -> BOOLEAN]
  /\ trail \in [Tickets -> SUBSET LogRows]
  /\ images \in [Tickets -> SUBSET ImageTypes]
  /\ payment \in [Tickets -> {"NONE", "COLLECTED", "VERIFIED"}]
  /\ confirmedBy \in [Tickets -> Technicians \cup {Unassigned}]
  /\ feedback \in [Tickets -> Nat]
  /\ active \in [Technicians -> BOOLEAN]
  /\ req \in [Requests -> InFlight \cup {Idle}]

\* The milestones a ticket passes, each with the one before it.
MilestoneBefore ==
  { <<"NEW_TICKET", "ASSIGNED">>, <<"ASSIGNED", "ACCEPTED">>,
    <<"ACCEPTED", "TRAVELLING">>, <<"TRAVELLING", "REACHED_LOCATION">>,
    <<"REACHED_LOCATION", "IN_PROGRESS">>, <<"IN_PROGRESS", "PENDING">>,
    <<"IN_PROGRESS", "COMPLETED">>, <<"COMPLETED", "INVOICE_GENERATED">>,
    <<"INVOICE_GENERATED", "TICKET_CLOSED">> }

\* No milestone is skipped: although commits act on stale reads and may drag
\* a ticket backwards, its log never shows a milestone without the one before
\* it (the forward table and the status checks of every handler).
NoMilestoneSkipped ==
  \A t \in Tickets : \A edge \in MilestoneBefore :
    edge[2] \in trail[t] => edge[1] \in trail[t]

\* Money is recorded only for work that was recorded as completed, and the
\* ticket was moved to INVOICE_GENERATED with it (collectPayment).
PaidWorkWasCompleted ==
  \A t \in Tickets :
    payment[t] # "NONE" => {"COMPLETED", "INVOICE_GENERATED"} \subseteq trail[t]

\* However many technicians and retries race to collect, a payment is made
\* once: it never disappears, keeps its collector, and once verified stays so
\* (collectPayment's unique constraint, verifyPayment's check).
PaymentHistory ==
  [][\A t \in Tickets :
       /\ payment[t] # "NONE" =>
            payment'[t] # "NONE" /\ confirmedBy'[t] = confirmedBy[t]
       /\ payment[t] = "VERIFIED" => payment'[t] = "VERIFIED"]_vars

\* The audit row of a verification is never there before the verification
\* (verifyPayment writes the payment first).
VerificationRowIsTrue ==
  \A t \in Tickets :
    VerificationRow \in trail[t] => payment[t] = "VERIFIED"

\* A customer rates a ticket at most once, and only one that was invoiced,
\* even when two submissions race (submitFeedback).
FeedbackSound ==
  \A t \in Tickets :
    /\ feedback[t] <= 1
    /\ feedback[t] = 1 => "INVOICE_GENERATED" \in trail[t]

\* The photos completeTicket has checked are still there when it commits.
PhotoCheckStaysTrue ==
  \A r \in Requests :
    At(r, "completeTicket", "commit") =>
      {"BEFORE", "AFTER"} \subseteq images[req[r].ticket]

\* While no request fails half-way, every verified payment gets its audit row.
VerificationIsLogged ==
  \A t \in Tickets :
    payment[t] = "VERIFIED" ~> VerificationRow \in trail[t]

-----------------------------------------------------------------------------
(* Properties of a service that runs one request at a time *)

\* A ticket has a technician exactly while it is assigned or worked on: a
\* new, rejected or cancelled ticket has none (assign, reject, cancelTicket).
AssignmentConsistent ==
  \A t \in Tickets :
    technician[t] = Unassigned <=> status[t] \in {Absent, "NEW_TICKET", "CANCELLED"}

\* A collected payment locks the ticket: it stays invoiced or closed, with
\* the technician who collected (collectPayment and all the other handlers).
PaymentLocksTicket ==
  \A t \in Tickets :
    payment[t] # "NONE" =>
      /\ status[t] \in {"INVOICE_GENERATED", "TICKET_CLOSED"}
      /\ technician[t] = confirmedBy[t]

\* Where the ticket of a status stands.
PhaseOf ==
  [ ABSENT |-> "none", NEW_TICKET |-> "queue",
    ASSIGNED |-> "booked", ACCEPTED |-> "booked",
    TRAVELLING |-> "visit", REACHED_LOCATION |-> "visit",
    IN_PROGRESS |-> "work", PENDING |-> "work",
    COMPLETED |-> "done", INVOICE_GENERATED |-> "invoiced",
    TICKET_CLOSED |-> "closed", CANCELLED |-> "cancelled" ]

Phase == [t \in Tickets |-> PhaseOf[status[t]]]

\* Who took the money for each ticket, if anybody did.
PaidTo ==
  [t \in Tickets |-> IF payment[t] = "NONE" THEN Unassigned ELSE confirmedBy[t]]

Lifecycle == INSTANCE TicketLifecycle WITH phase <- Phase, paidTo <- PaidTo

\* Together the handlers give every ticket the same life: it is handed out,
\* visited, worked on, invoiced and closed in that order, money is taken only
\* with the invoice and by the technician who did the work, and a ticket that
\* is done is never reopened, handed on or called off (all the handlers).
ImplementsLifecycle == Lifecycle!Spec
=============================================================================
