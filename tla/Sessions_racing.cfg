\* Two requests at a time on one user, over three seconds.
SPECIFICATION Spec
CONSTANTS
  Users = {u1}
  Requests = {r1, r2}
  Lifetime = 2
  MaxTime = 2
  MaxLogins = 3
  MaxLinks = 2
  MaxPasswords = 1
SYMMETRY Symmetry
INVARIANTS
  TypeOK
  SessionConservation
  SessionsCurrent
  LinkUsedOnce
