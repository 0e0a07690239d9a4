\* One request at a time, after the super admin lowered a limit.
SPECIFICATION Spec
CONSTANTS
  Plans = {"STARTER", "ENTERPRISE"}
  Unlimited = Unlimited
  Limit <- MCLimit
  SeededLimit <- MCSeededLimit
  EditedLimits = {0}
  Emails = {m1}
  NoEmail = NoEmail
  Requests = {r1}
  MaxSubs = 2
  MaxTickets = 1
INVARIANTS
  TicketLimitEnforced
