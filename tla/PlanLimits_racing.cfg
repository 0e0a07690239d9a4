\* Two requests at a time in a tenant with two emails.
SPECIFICATION Spec
CONSTANTS
  Plans = {"STARTER", "ENTERPRISE"}
  Unlimited = Unlimited
  Limit <- MCLimit
  SeededLimit <- MCSeededLimit
  EditedLimits = {1}
  Emails = {m1, m2}
  NoEmail = NoEmail
  Requests = {r1, r2}
  MaxSubs = 2
  MaxTickets = 2
SYMMETRY Symmetry
INVARIANTS
  TypeOK
  TicketsNumbered
  ActiveUserIsActiveTechnician
PROPERTIES
  LimitRespected
  AssignedPlanApplies
