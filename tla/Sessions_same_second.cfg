\* One request at a time, none of which fails half-way.
SPECIFICATION ReliableSpec
CONSTANTS
  Users = {u1}
  Requests = {r1}
  Lifetime = 2
  MaxTime = 1
  MaxLogins = 2
  MaxLinks = 0
  MaxPasswords = 0
PROPERTIES
  RefreshIssuesNewPair
