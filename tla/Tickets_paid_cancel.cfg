\* Two requests at a time on one ticket.
SPECIFICATION Spec
CONSTANTS
  Tickets = {t1}
  Technicians = {e1}
  Unassigned = Unassigned
  Requests = {r1, r2}
  UploadTypes = {}
SYMMETRY Symmetry
INVARIANTS
  PaymentLocksTicket
