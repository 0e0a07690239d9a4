\* Two requests at a time, in one of the five components.
SPECIFICATION Spec
CONSTANTS
  Requests = {r1, r2}
  Technicians = {e1}
  Places = {p1, p2}
  Nowhere = Nowhere
  MaxDays = 2
  MaxShifts = 3
  HistoryCap = 1
  AttendanceCap = 2
  Names = {amc, AMC}
  SameName <- MCSameName
  Absent = Absent
  MaxSkills = 2
  Levels = {1, 2}
  Codes = {"abc", "ABC"}
  Lowercase <- MCLowercase
  Emails = {x, y}
  NoEmail = NoEmail
  System = System
  MaxTenants = 2
  MaxUsers = 3
  Labels = {home, work}
  Streets = {s1, s2}
  MaxAddresses = 2
  MaxRows = 3
SYMMETRY Symmetry
CHECK_DEADLOCK FALSE
INVARIANTS
  TypeOK
  WorkdaySound
  SkillsSound
  AccountsSound
  AddressesSound
  CatalogSound
