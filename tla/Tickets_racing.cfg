\* Two requests at a time on one ticket, with one technician.
SPECIFICATION Spec
CONSTANTS
  Tickets = {t1}
  Technicians = {e1}
  Unassigned = Unassigned
  Requests = {r1, r2}
  UploadTypes = {"BEFORE", "AFTER"}
SYMMETRY Symmetry
INVARIANTS
  TypeOK
  NoMilestoneSkipped
  PaidWorkWasCompleted
  VerificationRowIsTrue
PROPERTIES
  PaymentHistory
