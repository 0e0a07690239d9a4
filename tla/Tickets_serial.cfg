\* One request at a time on one ticket, none of which fails half-way, with two
\* technicians.
SPECIFICATION ReliableSpec
CONSTANTS
  Tickets = {t1}
  Technicians = {e1, e2}
  Unassigned = Unassigned
  Requests = {r1}
  UploadTypes = {"BEFORE", "AFTER"}
INVARIANTS
  AssignmentConsistent
  PaymentLocksTicket
  DashboardsAgree
PROPERTIES
  VerificationIsLogged
  ImplementsLifecycle
