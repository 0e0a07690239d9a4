---------------------------- MODULE TicketStatus ----------------------------
(***************************************************************************)
(* The status vocabulary of a service ticket, and the tables the handlers  *)
(* of the technician, manager and customer services consult before they    *)
(* write.  No state lives here.                                            *)
(***************************************************************************)

\* Every status a ticket row can hold.
TicketStatusEnum ==
  { "NEW_TICKET", "ASSIGNED", "ACCEPTED", "TRAVELLING", "REACHED_LOCATION",
    "IN_PROGRESS", "PENDING", "COMPLETED", "INVOICE_GENERATED",
    "TICKET_CLOSED", "CANCELLED" }

\* A customer may raise a ticket at any time; until then its row is absent.
Absent == "ABSENT"

Statuses == TicketStatusEnum \cup {Absent}

\* The table with an edge that skips a milestone.
ForwardEdgesWithSkip ==
  { <<"NEW_TICKET", "ASSIGNED">>, <<"ASSIGNED", "ACCEPTED">>,
    <<"ACCEPTED", "TRAVELLING">>, <<"ACCEPTED", "REACHED_LOCATION">>,
    <<"TRAVELLING", "REACHED_LOCATION">>,
    <<"REACHED_LOCATION", "IN_PROGRESS">>, <<"IN_PROGRESS", "PENDING">>,
    <<"IN_PROGRESS", "COMPLETED">>, <<"PENDING", "IN_PROGRESS">>,
    <<"COMPLETED", "INVOICE_GENERATED">>,
    <<"INVOICE_GENERATED", "TICKET_CLOSED">> }

\* What updateTicketStatus and assignTechnician look up; a status without an
\* entry (TICKET_CLOSED, CANCELLED) allows nothing.
ForwardEdges ==
  { <<"NEW_TICKET", "ASSIGNED">>, <<"ASSIGNED", "ACCEPTED">>,
    <<"ACCEPTED", "TRAVELLING">>, <<"TRAVELLING", "REACHED_LOCATION">>,
    <<"REACHED_LOCATION", "IN_PROGRESS">>, <<"IN_PROGRESS", "PENDING">>,
    <<"IN_PROGRESS", "COMPLETED">>, <<"PENDING", "IN_PROGRESS">>,
    <<"COMPLETED", "INVOICE_GENERATED">>,
    <<"INVOICE_GENERATED", "TICKET_CLOSED">> }

\* TICKET_FORWARD_TRANSITIONS[from].includes(to)
Forward(from, to) == <<from, to>> \in ForwardEdges

\* rejectTicket and reassignTechnician accept a ticket in one of these.
Returnable == {"ASSIGNED", "ACCEPTED"}

\* The manager's list without INVOICE_GENERATED.
ManagerNonCancellableNoInvoice == {"COMPLETED", "TICKET_CLOSED", "CANCELLED"}

\* nonCancellable in ManagerService.cancelTicket.
ManagerNonCancellable ==
  {"COMPLETED", "INVOICE_GENERATED", "TICKET_CLOSED", "CANCELLED"}

\* nonCancellable in CustomerService.cancelTicket: PENDING is not on it.
CustomerNonCancellable ==
  {"COMPLETED", "INVOICE_GENERATED", "TICKET_CLOSED", "CANCELLED", "IN_PROGRESS"}

\* feedbackAllowed in CustomerService.submitFeedback.
FeedbackAllowed == {"TICKET_CLOSED", "INVOICE_GENERATED"}

ImageTypes == {"RAISED", "BEFORE", "AFTER", "SIGNATURE"}
=============================================================================
