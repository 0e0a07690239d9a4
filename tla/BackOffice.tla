------------------------------ MODULE BackOffice ------------------------------
(***************************************************************************)
(* The five small components of the back office, side by side.  None of    *)
(* them reads what another writes, so that in any behaviour of the whole   *)
(* each component takes the steps of a behaviour of its own; area says     *)
(* which of them the behaviour is one of.                                  *)
(***************************************************************************)
EXTENDS Handlers, Naturals, FiniteSets

CONSTANTS
  Technicians, Places, Nowhere, MaxDays, MaxShifts, HistoryCap, AttendanceCap,
  Names, SameName, Absent, MaxSkills, Levels,
  Codes, Lowercase, Emails, NoEmail, System, MaxTenants, MaxUsers,
  Labels, Streets, MaxAddresses,
  MaxRows

VARIABLES
  area,
  today, shifts, place, routeEnd, reported,
  skills, level, techActive, granted,
  tenants, users, customers, setups,
  rows, wanted,
  entries, strays, renamed, removed

A == INSTANCE Attendance
S == INSTANCE Skills
T == INSTANCE Accounts
D == INSTANCE Addresses
C == INSTANCE Catalog WITH rows <- entries

ASSUME RequestsAssumption == IsFiniteSet(Requests)

ASSUME AttendanceAssumption ==
  /\ Nowhere \notin Places /\ MaxDays \in Nat \ {0} /\ MaxShifts \in Nat
  /\ HistoryCap \in Nat /\ AttendanceCap \in Nat /\ HistoryCap <= AttendanceCap

ASSUME AccountsAssumption ==
  /\ Lowercase \in [Codes -> Codes]
  /\ MaxTenants \in Nat /\ MaxUsers \in Nat
  /\ System \notin Nat

ASSUME AddressesAssumption ==
  /\ MaxAddresses \in Nat
  /\ Absent \notin Labels /\ Absent \notin Streets /\ Absent \notin BOOLEAN
  /\ Absent \notin D!Address

\* Equality but for the case of letters is symmetric.
ASSUME SkillsAssumption ==
  /\ SameName \in [Names -> SUBSET Names]
  /\ \A m, n \in Names : m \in SameName[n] => n \in SameName[m]
  /\ Absent \notin Names /\ Absent \notin S!Skill
  /\ 0 \notin Levels

ASSUME CatalogAssumption ==
  /\ MaxRows \in Nat
  /\ Absent \notin BOOLEAN /\ Absent \notin C!Row

ofAttendance == <<today, shifts, place, routeEnd, reported>>
ofSkills == <<skills, level, techActive, granted>>
ofAccounts == <<tenants, users, customers, setups>>
ofAddresses == <<rows, wanted>>
ofCatalog == <<entries, strays, renamed, removed>>
vars == <<area, ofAttendance, ofSkills, ofAccounts, ofAddresses, ofCatalog, req, orderly>>

Init ==
  /\ area \in {"attendance", "skills", "accounts", "addresses", "catalog"}
  /\ A!Init /\ S!Init /\ T!Init /\ D!Init /\ C!Init

Next ==
  /\ UNCHANGED area
  /\ \/ /\ area = "attendance" /\ A!Next
        /\ UNCHANGED <<ofSkills, ofAccounts, ofAddresses, ofCatalog>>
     \/ /\ area = "skills" /\ S!Next
        /\ UNCHANGED <<ofAttendance, ofAccounts, ofAddresses, ofCatalog>>
     \/ /\ area = "accounts" /\ T!Next
        /\ UNCHANGED <<ofAttendance, ofSkills, ofAddresses, ofCatalog>>
     \/ /\ area = "addresses" /\ D!Next
        /\ UNCHANGED <<ofAttendance, ofSkills, ofAccounts, ofCatalog>>
     \/ /\ area = "catalog" /\ C!Next
        /\ UNCHANGED <<ofAttendance, ofSkills, ofAccounts, ofAddresses>>

Spec == Init /\ [][Next]_vars

\* The rows and the requests in flight have the types of their component.
TypeOK ==
  /\ area = "attendance" => A!TypeOK
  /\ area = "skills" => S!TypeOK
  /\ area = "accounts" => T!TypeOK
  /\ area = "addresses" => D!TypeOK
  /\ area = "catalog" => C!TypeOK

\* Attendance, checkIn and checkOut: one shift a day, one answer, one place.
WorkdaySound == A!WorkdaySound

\* Skills, updateTechnicianSkill and the names: nothing removed comes back.
SkillsSound == S!SkillsSound

\* Accounts, setupSuperAdmin and updateProfile: one setup, matching emails.
AccountsSound == T!AccountsSound

\* Addresses, addAddress: under a label what was last saved there.
AddressesSound == D!AddressesSound

\* Catalog: what was removed stays hidden, nothing new is put into it.
CatalogSound == C!CatalogSound
=============================================================================
