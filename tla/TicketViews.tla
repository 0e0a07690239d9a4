----------------------------- MODULE TicketViews -----------------------------
(***************************************************************************)
(* What the dashboards and lists of the technician, the customer and the   *)
(* manager show of the tickets: each of them a query with conditions of    *)
(* its own, over the rows that Tickets writes.                             *)
(***************************************************************************)
EXTENDS Tickets, FiniteSets

Raised == {t \in Tickets : status[t] # Absent}

WithStatus(statuses) == {t \in Raised : status[t] \in statuses}

-----------------------------------------------------------------------------
(* Technician service *)

OfTechnician(e) == {t \in Raised : technician[t] = e}

\* A list by the statuses of the work, which forgets PENDING.
ListMyWork(e) ==
  OfTechnician(e) \cap
    WithStatus({"ASSIGNED", "ACCEPTED", "TRAVELLING", "REACHED_LOCATION",
                "IN_PROGRESS", "COMPLETED", "INVOICE_GENERATED"})

\* listMyTickets
ListMyTickets(e) == OfTechnician(e) \ WithStatus({"TICKET_CLOSED"})

\* getMyInvoices: by the technician of the ticket, not the payment's.
MyInvoices(e) == {t \in OfTechnician(e) : payment[t] # "NONE"}

\* getTicket: found by the technician it is with, and by no other.
MayOpen(e) == {t \in Raised : technician[t] = e}

\* getDashboard
TechnicianDashboard(e) ==
  [total |-> OfTechnician(e),
   open |-> OfTechnician(e) \ WithStatus({"TICKET_CLOSED", "INVOICE_GENERATED", "COMPLETED"}),
   completed |-> OfTechnician(e) \cap WithStatus({"TICKET_CLOSED"})]

-----------------------------------------------------------------------------
(* Customer service *)

\* getDashboard, of a customer whose tickets these are.
CustomerDashboard ==
  [open |-> Raised \ WithStatus({"TICKET_CLOSED", "CANCELLED"}),
   completed |-> WithStatus({"TICKET_CLOSED"})]

\* getTicketTracking: the status with its history.
Tracking(t) ==
  [status |-> status[t], technician |-> technician[t],
   history |-> trail[t] \ {VerificationRow}]

\* getTicket, with the invoice and the feedback.
GetMyTicket(t) ==
  [status |-> status[t], technician |-> technician[t], images |-> images[t],
   history |-> trail[t], invoiced |-> payment[t] # "NONE", rated |-> feedback[t] # 0]

\* getMyFeedback.
FeedbackShown == {t \in Raised : feedback[t] # 0}

-----------------------------------------------------------------------------
(* Manager and administrator services *)

\* getDashboard of the manager.
ManagerDashboard ==
  [total |-> Raised,
   new |-> WithStatus({"NEW_TICKET"}),
   assigned |-> WithStatus({"ASSIGNED"}),
   inProgress |-> WithStatus({"IN_PROGRESS"}),
   pending |-> WithStatus({"PENDING"}),
   completed |-> WithStatus({"TICKET_CLOSED"})]

\* getDashboard of the administrator.
AdminOpen == Raised \ WithStatus({"TICKET_CLOSED", "INVOICE_GENERATED", "CANCELLED"})

\* listTickets, filtered by status and technician.
ListTickets(statuses, technicians) ==
  {t \in WithStatus(statuses) : technician[t] \in technicians}

\* getTicket of the manager, with who collected the payment.
GetTicket(t) ==
  [status |-> status[t], technician |-> technician[t], collector |-> confirmedBy[t],
   history |-> trail[t], invoiced |-> payment[t] # "NONE", rated |-> feedback[t] # 0]

\* getCustomerHistory: each ticket with its technician, payment and feedback.
CustomerHistory ==
  {[ticket |-> t, technician |-> technician[t], invoiced |-> payment[t] # "NONE",
    rated |-> feedback[t] # 0] : t \in Raised}

\* listFeedback: beside each rating, the technician the ticket has now.
ListFeedback == {<<t, technician[t]>> : t \in {x \in Raised : feedback[x] # 0}}

\* getTechnicianReport: the number of tickets with each technician.
TicketCount(e) == Cardinality(OfTechnician(e))

-----------------------------------------------------------------------------
(* Properties of a service that runs one request at a time *)

\* The dashboards tell one story of the same ticket: what a technician has
\* open is open for the customer, no cancelled or new ticket is with anyone,
\* every invoice is shown to the one technician who collected the payment and
\* belongs to a ticket that no administrator counts as open, a rated ticket is
\* invoiced or closed and its rating is shown with a technician, the one who
\* was paid if any was, who may open it; the tracking shows the status as its
\* history has it, and the manager and the customer are told the same.
DashboardsAgree ==
  /\ \A e \in Technicians :
       LET mine == TechnicianDashboard(e) IN
       /\ mine.open \subseteq ListMyTickets(e) \cap CustomerDashboard.open
       /\ mine.completed \subseteq CustomerDashboard.completed
       /\ MyInvoices(e) \cap AdminOpen = {}
       /\ MyInvoices(e) =
            {t \in MayOpen(e) : GetTicket(t).invoiced /\ GetTicket(t).collector = e}
       /\ ListTickets({"NEW_TICKET", "CANCELLED"}, {e}) = {}
       /\ TicketCount(e) = Cardinality(ListMyTickets(e) \cup mine.completed)
  /\ \A t \in Raised :
       /\ t \notin CustomerDashboard.open \cup CustomerDashboard.completed =>
            Tracking(t).technician = Unassigned /\ ~GetMyTicket(t).invoiced
       /\ Tracking(t).status \in Tracking(t).history
       /\ GetMyTicket(t).invoiced => GetTicket(t).collector = GetMyTicket(t).technician
  /\ FeedbackShown \subseteq WithStatus({"INVOICE_GENERATED", "TICKET_CLOSED"})
  /\ {entry[1] : entry \in ListFeedback} = FeedbackShown
  /\ \A entry \in ListFeedback : entry[1] \in UNION {MayOpen(e) : e \in Technicians}
  /\ \A row \in CustomerHistory :
       row.invoiced \/ row.rated => row.technician # Unassigned
  /\ ManagerDashboard.new \cup ManagerDashboard.assigned \subseteq AdminOpen
=============================================================================
