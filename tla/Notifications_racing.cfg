\* A manager and a technician who share a device, told of two events while two
\* requests register and unregister it.
SPECIFICATION Spec
CONSTANTS
  Users = {m1, e1}
  Staff = {m1}
  Tokens = {d1}
  NoRow = NoRow
  MaxEvents = 2
  MaxRows = 2
  Requests = {r1, r2}
INVARIANTS
  TypeOK
  PushesAreListed
  LastRegistrationWins
PROPERTIES
  NotificationsArrive
