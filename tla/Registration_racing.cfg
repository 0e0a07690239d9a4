\* Two requests at a time for two emails.
SPECIFICATION Spec
CONSTANTS
  Emails = {m1, m2}
  Details = {d1, d2}
  NoDetails = NoDetails
  NoAccount = NoAccount
  Staff = Staff
  Requests = {r1, r2}
  MaxAttempts = 2
  Cooldown = 1
  Lifetime = 2
  MaxOtps = 2
SYMMETRY Symmetry
\* When no more codes may be issued and the last is used up, nothing is left to
\* do.
CHECK_DEADLOCK FALSE
INVARIANTS
  TypeOK
  AttemptsBounded
  CodeCreatesOnce
  OneLiveCode
  CodeGrantsOnce
PROPERTIES
  OnlyLiveCodeCreates
