---------------------------- MODULE BackOfficeProofs ----------------------------
(***************************************************************************)
(* The back office, for every number of requests, rows, names and days.    *)
(* Each of its five components has an inductive invariant of its own: the  *)
(* types and the constraints of the database; what a request in flight     *)
(* knows, which nothing takes back (rows are not deleted); what it has     *)
(* checked, which only holds while it is alone, and so under orderly; and  *)
(* a count of the races that a check without a constraint allows.  The     *)
(* last section puts the five side by side.                                *)
(***************************************************************************)
EXTENDS BackOffice, Counting, TLAPS


-----------------------------------------------------------------------------
(* Requests in flight *)

\* While requests come one at a time, one is in flight at most.
SingleFlight ==
  orderly => \A r, s \in Requests : req[r] # Idle /\ req[s] # Idle => r = s

\* Whatever a handler does, if requests still come one at a time the others are
\* idle before and after.
LEMMA OthersIdle ==
  ASSUME SingleFlight, NEW B, req \in [Requests -> B], NEW r \in Requests, NEW q,
         req' = [req EXCEPT ![r] = q],
         orderly' => orderly /\ (Alone \/ req[r] # Idle)
  PROVE  /\ SingleFlight'
         /\ orderly' => \A s \in Requests : req'[s] # Idle => s = r
         /\ req'[r] = q
         /\ \A s \in Requests \ {r} : req'[s] = req[s]
<1>1. req'[r] = q /\ \A s \in Requests \ {r} : req'[s] = req[s]
  OBVIOUS
<1>2. orderly' => \A s \in Requests : req'[s] # Idle => s = r
  BY <1>1 DEF SingleFlight, Alone
<1>3. Idle' = Idle
  BY DEF Idle
<1> HIDE DEF Idle
<1> QED
  BY <1>1, <1>2, <1>3 DEF SingleFlight
-----------------------------------------------------------------------------
(* Addresses *)

\* What a request that saves an address knows: a row is never removed, so the
\* one it has found is there, whatever became of it.
AddressKnown(q) ==
  /\ q.step = "create" => q.op = "add"
  /\ q.step # "create" => q.id \in D!Existing
  /\ q.op = "add" => q.label \in Labels /\ q.street \in Streets

AddressesKnown == \A r \in Requests : req[r] # D!Idle => AddressKnown(req[r])

\* A label is the name of one address.
LabelsNameOne ==
  \A i, k \in D!Existing : rows[i].label = rows[k].label => i = k

\* What was last saved under a label is what its address says, if it has one.
WantedIsListed ==
  \A l \in Labels :
    /\ \A i \in D!GetAddresses : rows[i].label = l => wanted[l] = rows[i].street
    /\ wanted[l] # Absent => \E i \in D!GetAddresses : rows[i].label = l

AddressesInv ==
  /\ D!TypeOK
  /\ AddressesKnown
  /\ LabelsNameOne
  /\ WantedIsListed

\* The rows that there are.
LEMMA AddressRows ==
  ASSUME D!TypeOK, NEW i \in D!Existing
  PROVE  /\ i \in 1..MaxAddresses
         /\ rows[i] \in D!Address
         /\ rows[i].label \in Labels /\ rows[i].street \in Streets
         /\ rows[i].isActive \in BOOLEAN
BY DEF D!TypeOK, D!Existing, D!Ids, D!Address

LEMMA AddressRecord ==
  ASSUME NEW l \in Labels, NEW st \in Streets
  PROVE  [label |-> l, street |-> st, isActive |-> TRUE] \in D!Address
BY DEF D!Address

\* A request in flight is a full record.
LEMMA AddressRequest ==
  ASSUME AddressesInv, NEW r \in Requests, req[r] # D!Idle
  PROVE  /\ req[r] \in D!InFlight
         /\ AddressKnown(req[r])
         /\ req[r].op \in {"add", "update", "delete"}
         /\ req[r].label \in Labels \cup {Absent}
         /\ req[r].street \in Streets \cup {Absent}
         /\ req[r].isActive \in BOOLEAN \cup {Absent}
BY DEF AddressesInv, AddressesKnown, D!TypeOK, D!InFlight

\* When no row is removed, what the other requests know stays true.
LEMMA AddressesStayKnown ==
  ASSUME AddressesInv, D!Existing \subseteq D!Existing', NEW r \in Requests,
         \/ D!Finish(r)
         \/ D!Abandon(r)
         \/ \E q \in D!InFlight : D!Begin(r, q) /\ AddressKnown(q)'
  PROVE  /\ AddressesKnown'
         /\ req' \in [Requests -> D!InFlight \cup {D!Idle}]
         /\ orderly' \in BOOLEAN
<1>1. req \in [Requests -> D!InFlight \cup {D!Idle}] /\ orderly \in BOOLEAN
  BY DEF AddressesInv, D!TypeOK
<1>2. \A s \in Requests : req[s] # D!Idle => AddressKnown(req[s])
  BY DEF AddressesInv, AddressesKnown
<1>3. CASE D!Finish(r) \/ D!Abandon(r)
  <2>1. req' = [req EXCEPT ![r] = D!Idle] /\ orderly' \in BOOLEAN
    BY <1>1, <1>3 DEF D!Finish, D!Abandon
  <2> QED
    BY <1>1, <1>2, <2>1 DEF AddressesKnown, AddressKnown
<1>4. CASE \E q \in D!InFlight : D!Begin(r, q) /\ AddressKnown(q)'
  <2>1. PICK q \in D!InFlight : D!Begin(r, q) /\ AddressKnown(q)'
    BY <1>4
  <2>2. req' = [req EXCEPT ![r] = q] /\ orderly' \in BOOLEAN
    BY <1>1, <2>1 DEF D!Begin, D!Alone
  <2> QED
    BY <1>1, <1>2, <2>1, <2>2 DEF AddressesKnown, AddressKnown
<1> QED
  BY <1>3, <1>4

\* A new row under a label that no row has.
LEMMA AddressInserted ==
  ASSUME AddressesInv, NEW r \in Requests, D!AddAddressCommit(r)
  PROVE  AddressesInv'
<1>1. /\ req[r] # D!Idle /\ D!Finish(r)
      /\ req[r].label \in Labels /\ req[r].street \in Streets
  BY AddressRequest DEF D!AddAddressCommit, D!At, AddressKnown
<1>2. CASE UNCHANGED <<rows, wanted>>
  <2>1. D!Existing' = D!Existing
    BY <1>2 DEF D!Existing
  <2>2. AddressesKnown' /\ D!TypeOK'
    BY <1>1, <1>2, <2>1, AddressesStayKnown DEF AddressesInv, D!TypeOK
  <2> QED
    BY <1>2, <2>1, <2>2 DEF AddressesInv, LabelsNameOne, WantedIsListed, D!GetAddresses
<1>3. ASSUME NEW i \in D!Ids, i \notin D!Existing,
             D!LabelFree(req[r].label, {}),
             rows' = [rows EXCEPT ![i] = [label |-> req[r].label,
                        street |-> req[r].street, isActive |-> TRUE]],
             wanted' = [wanted EXCEPT ![req[r].label] = req[r].street]
      PROVE  AddressesInv'
  <2> DEFINE l == req[r].label
  <2> DEFINE new == [label |-> l, street |-> req[r].street, isActive |-> TRUE]
  <2>1. new \in D!Address /\ new # Absent
    BY <1>1, AddressRecord, AddressesAssumption
  <2>2. /\ rows \in [D!Ids -> D!Address \cup {Absent}]
        /\ wanted \in [Labels -> Streets \cup {Absent}]
    BY DEF AddressesInv, D!TypeOK
  <2>3. /\ rows'[i] = new
        /\ \A k \in D!Ids \ {i} : rows'[k] = rows[k]
        /\ rows' \in [D!Ids -> D!Address \cup {Absent}]
    BY <1>3, <2>1, <2>2
  <2>4. /\ wanted'[l] = req[r].street
        /\ \A m \in Labels \ {l} : wanted'[m] = wanted[m]
        /\ wanted' \in [Labels -> Streets \cup {Absent}]
    BY <1>1, <1>3, <2>2
  <2>5. D!Existing' = D!Existing \cup {i}
    BY <1>3, <2>1, <2>3 DEF D!Existing
  <2>6. \A k \in D!Existing : rows[k].label # l /\ k # i /\ rows'[k] = rows[k]
    BY <1>3, <2>3 DEF D!LabelFree, D!Existing
  <2>7. LabelsNameOne'
    BY <2>3, <2>5, <2>6 DEF AddressesInv, LabelsNameOne
  <2>8. D!GetAddresses' = D!GetAddresses \cup {i}
    BY <2>3, <2>5, <2>6 DEF D!GetAddresses
  <2>9. D!GetAddresses \subseteq D!Existing
    BY DEF D!GetAddresses
  <2>10. WantedIsListed'
    BY <2>3, <2>4, <2>6, <2>8, <2>9 DEF AddressesInv, WantedIsListed
  <2>11. AddressesKnown' /\ D!TypeOK'
    BY <1>1, <2>3, <2>4, <2>5, AddressesStayKnown DEF D!TypeOK
  <2> QED
    BY <2>7, <2>10, <2>11 DEF AddressesInv
<1>4. ASSUME NEW i \in D!Ids, D!Existing = 1..(i - 1) PROVE i \notin D!Existing
  BY <1>4, AddressesAssumption DEF D!Ids
<1> QED
  BY <1>2, <1>3, <1>4 DEF D!AddAddressCommit, D!rowVars

\* An update of a row, and of what is wanted under its labels.
LEMMA AddressSaved ==
  ASSUME AddressesInv, NEW r \in Requests, req[r] # D!Idle,
         NEW i \in D!Existing, NEW new \in D!Address,
         NEW allowed \in BOOLEAN,
         allowed => D!LabelFree(new.label, {i}),
         D!Save(r, i, new, allowed)
  PROVE  AddressesInv'
<1>1. /\ rows \in [D!Ids -> D!Address \cup {Absent}]
      /\ wanted \in [Labels -> Streets \cup {Absent}]
      /\ i \in D!Ids
      /\ D!Finish(r)
  BY DEF AddressesInv, D!TypeOK, D!Existing, D!Save
<1>2. CASE ~allowed
  <2>1. UNCHANGED <<rows, wanted>>
    BY <1>2 DEF D!Save
  <2>2. D!Existing' = D!Existing
    BY <2>1 DEF D!Existing
  <2>3. AddressesKnown' /\ D!TypeOK'
    BY <1>1, <2>1, <2>2, AddressesStayKnown DEF AddressesInv, D!TypeOK
  <2> QED
    BY <2>1, <2>2, <2>3 DEF AddressesInv, LabelsNameOne, WantedIsListed, D!GetAddresses
<1>3. CASE allowed
  <2> DEFINE was == rows[i].label
  <2> DEFINE held == IF new.isActive THEN new.street ELSE Absent
  <2>1. /\ was \in Labels /\ new.label \in Labels /\ new # Absent
        /\ held \in Streets \cup {Absent}
        /\ new.street \in Streets /\ new.isActive \in BOOLEAN
    BY AddressRows, AddressesAssumption DEF AddressesInv, D!Address
  <2>2. /\ rows' = [rows EXCEPT ![i] = new]
        /\ wanted' = [[wanted EXCEPT ![was] = Absent] EXCEPT ![new.label] = held]
    BY <1>3 DEF D!Save
  <2>3. /\ rows'[i] = new
        /\ \A k \in D!Ids \ {i} : rows'[k] = rows[k]
        /\ rows' \in [D!Ids -> D!Address \cup {Absent}]
    BY <1>1, <2>2
  <2> HIDE DEF held, was
  <2>4. /\ wanted'[new.label] = held
        /\ was # new.label => wanted'[was] = Absent
        /\ \A m \in Labels \ {was, new.label} : wanted'[m] = wanted[m]
        /\ wanted' \in [Labels -> Streets \cup {Absent}]
    BY <1>1, <2>1, <2>2
  <2>5. D!Existing' = D!Existing
    BY <1>1, <2>1, <2>3 DEF D!Existing
  <2>6. \A k \in D!Existing \ {i} :
          rows[k].label # new.label /\ rows[k].label # was /\ rows'[k] = rows[k]
    BY <1>3, <2>3 DEF D!LabelFree, D!Existing, AddressesInv, LabelsNameOne, was
  <2>7. LabelsNameOne'
    BY <2>3, <2>5, <2>6 DEF AddressesInv, LabelsNameOne
  <2>8. /\ \A k \in D!Existing \ {i} : k \in D!GetAddresses' <=> k \in D!GetAddresses
        /\ i \in D!GetAddresses' <=> new.isActive
        /\ D!GetAddresses \subseteq D!Existing
        /\ D!GetAddresses' \subseteq D!Existing
    BY <2>3, <2>5, <2>6 DEF D!GetAddresses
  <2>9. WantedIsListed'
    <3>1. ASSUME NEW l \in Labels
          PROVE  /\ \A k \in D!GetAddresses' :
                      rows'[k].label = l => wanted'[l] = rows'[k].street
                 /\ wanted'[l] # Absent =>
                      \E k \in D!GetAddresses' : rows'[k].label = l
      <4>1. CASE l = new.label
        BY <4>1, <2>3, <2>4, <2>6, <2>8 DEF held
      <4>2. CASE l # new.label /\ l = was
        BY <4>2, <2>3, <2>4, <2>6, <2>8
      <4>3. CASE l # new.label /\ l # was
        <5>1. wanted'[l] = wanted[l]
          BY <4>3, <2>4
        <5>2. \A k \in D!GetAddresses' : rows'[k].label = l =>
                k \in D!GetAddresses /\ rows'[k] = rows[k]
          BY <4>3, <2>3, <2>6, <2>8
        <5>3. \A k \in D!GetAddresses : rows[k].label = l =>
                k \in D!GetAddresses' /\ rows'[k] = rows[k]
          BY <4>3, <2>6, <2>8 DEF was
        <5> QED
          BY <5>1, <5>2, <5>3 DEF AddressesInv, WantedIsListed
      <4> QED
        BY <4>1, <4>2, <4>3
    <3> QED
      BY <3>1 DEF WantedIsListed
  <2>10. AddressesKnown' /\ D!TypeOK'
    BY <1>1, <2>3, <2>4, <2>5, AddressesStayKnown DEF D!TypeOK
  <2> QED
    BY <2>7, <2>9, <2>10 DEF AddressesInv
<1> QED
  BY <1>2, <1>3

\* A call finds a row, or none under the label.
LEMMA AddressCall ==
  ASSUME AddressesInv, NEW r \in Requests, D!Call(r)
  PROVE  AddressesInv'
<1> DEFINE Begins ==
      \E q \in D!InFlight : D!Begin(r, q) /\ AddressKnown(q)
<1>1. ASSUME NEW l \in Labels, NEW st \in Streets, D!AddAddress(r, l, st)
      PROVE  Begins
  <2>1. CASE D!Start(r, "add", "create", 0, l, st, TRUE)
    <3> DEFINE q == [op |-> "add", step |-> "create", id |-> 0, label |-> l,
                     street |-> st, isActive |-> TRUE]
    <3>1. q \in D!InFlight /\ AddressKnown(q)
      BY DEF D!InFlight, AddressKnown
    <3> QED
      BY <2>1, <3>1 DEF D!Start
  <2>2. ASSUME NEW i \in D!Existing, D!Start(r, "add", "revive", i, l, st, TRUE)
        PROVE  Begins
    <3> DEFINE q == [op |-> "add", step |-> "revive", id |-> i, label |-> l,
                     street |-> st, isActive |-> TRUE]
    <3>1. q \in D!InFlight /\ AddressKnown(q)
      BY DEF D!InFlight, AddressKnown, D!Existing
    <3> QED
      BY <2>2, <3>1 DEF D!Start
  <2> QED
    BY <1>1, <2>1, <2>2 DEF D!AddAddress
<1>2. ASSUME NEW i \in D!Ids, NEW l \in Labels \cup {Absent},
             NEW st \in Streets \cup {Absent}, NEW on \in BOOLEAN \cup {Absent},
             D!UpdateAddress(r, i, l, st, on)
      PROVE  Begins
  <2> DEFINE q == [op |-> "update", step |-> "update", id |-> i, label |-> l, street |-> st,
                   isActive |-> on]
  <2>1. i \in D!Existing /\ D!Begin(r, q)
    BY <1>2 DEF D!UpdateAddress, D!Start
  <2>2. q \in D!InFlight /\ AddressKnown(q)
    BY <2>1 DEF D!InFlight, AddressKnown
  <2> QED
    BY <2>1, <2>2
<1>3. ASSUME NEW i \in D!Ids, D!DeleteAddress(r, i)
      PROVE  Begins
  <2> DEFINE q == [op |-> "delete", step |-> "update", id |-> i, label |-> Absent,
                   street |-> Absent, isActive |-> FALSE]
  <2>1. i \in D!Existing /\ D!Begin(r, q)
    BY <1>3 DEF D!DeleteAddress, D!Start
  <2>2. q \in D!InFlight /\ AddressKnown(q)
    BY <2>1 DEF D!InFlight, AddressKnown
  <2> QED
    BY <2>1, <2>2
<1>4. UNCHANGED <<rows, wanted>>
  BY DEF D!Call, D!AddAddress, D!UpdateAddress, D!DeleteAddress, D!Start, D!rowVars
<1>5. D!Existing' = D!Existing
  BY <1>4 DEF D!Existing
<1>6. \E q \in D!InFlight : D!Begin(r, q) /\ AddressKnown(q)'
  BY <1>1, <1>2, <1>3, <1>5 DEF D!Call, AddressKnown
<1>7. AddressesKnown' /\ D!TypeOK'
  BY <1>4, <1>5, <1>6, AddressesStayKnown DEF AddressesInv, D!TypeOK
<1> QED
  BY <1>4, <1>5, <1>7 DEF AddressesInv, LabelsNameOne, WantedIsListed, D!GetAddresses

LEMMA AddressesNext == AddressesInv /\ [D!Next]_(D!vars) => AddressesInv'
<1> SUFFICES ASSUME AddressesInv, [D!Next]_(D!vars) PROVE AddressesInv'
  OBVIOUS
<1>1. CASE UNCHANGED D!vars
  BY <1>1 DEF D!vars, AddressesInv, D!TypeOK, AddressesKnown, AddressKnown,
              LabelsNameOne, WantedIsListed, D!Existing, D!GetAddresses
<1>2. ASSUME NEW r \in Requests, D!Call(r) PROVE AddressesInv'
  BY <1>2, AddressCall
<1>3. ASSUME NEW r \in Requests, D!AddAddressCommit(r) PROVE AddressesInv'
  BY <1>3, AddressInserted
<1>4. ASSUME NEW r \in Requests, D!ReviveAddressCommit(r) PROVE AddressesInv'
  <2> DEFINE new == [label |-> req[r].label, street |-> req[r].street, isActive |-> TRUE]
  <2>1. req[r] # D!Idle /\ req[r].id \in D!Existing /\ new \in D!Address
    BY <1>4, AddressRequest
       DEF D!ReviveAddressCommit, D!At, AddressKnown, D!Address
  <2>2. D!LabelFree(req[r].label, {req[r].id}) \in BOOLEAN
    BY DEF D!LabelFree
  <2>3. D!Save(r, req[r].id, new, D!LabelFree(req[r].label, {req[r].id}))
    BY <1>4 DEF D!ReviveAddressCommit
  <2> QED
    BY <2>1, <2>2, <2>3, AddressSaved
<1>5. ASSUME NEW r \in Requests, D!UpdateAddressCommit(r) PROVE AddressesInv'
  <2> DEFINE old == rows[req[r].id]
  <2> DEFINE new == [label |-> D!Given(req[r].label, old.label),
                     street |-> D!Given(req[r].street, old.street),
                     isActive |-> D!Given(req[r].isActive, old.isActive)]
  <2> DEFINE allowed == D!LabelFree(req[r].label, {req[r].id})
  <2>1. req[r] # D!Idle /\ req[r].id \in D!Existing
    BY <1>5, AddressRequest DEF D!UpdateAddressCommit, D!At, AddressKnown
  <2>2. new \in D!Address
    BY <2>1, AddressRequest, AddressRows DEF D!Given, D!Address, AddressesInv
  <2>3. D!Save(r, req[r].id, new, allowed) /\ allowed \in BOOLEAN
    BY <1>5 DEF D!UpdateAddressCommit, D!LabelFree
  <2>4. allowed => D!LabelFree(new.label, {req[r].id})
    BY <2>1 DEF D!Given, D!LabelFree, AddressesInv, LabelsNameOne
  <2> HIDE DEF new, allowed
  <2> QED
    BY <2>1, <2>2, <2>3, <2>4, AddressSaved
<1>6. ASSUME NEW r \in Requests, D!DeleteAddressCommit(r) PROVE AddressesInv'
  <2> DEFINE i == req[r].id
  <2> DEFINE new == [rows[i] EXCEPT !.isActive = FALSE]
  <2>1. req[r] # D!Idle /\ i \in D!Existing
    BY <1>6, AddressRequest DEF D!DeleteAddressCommit, D!At, AddressKnown
  <2>2. new \in D!Address /\ new.label = rows[i].label
    BY <2>1, AddressRows DEF D!Address, AddressesInv
  <2>3. D!LabelFree(new.label, {i})
    BY <2>1, <2>2 DEF D!LabelFree, AddressesInv, LabelsNameOne
  <2>4. D!Save(r, i, new, TRUE)
    BY <1>6 DEF D!DeleteAddressCommit
  <2> HIDE DEF new
  <2> QED
    BY <2>1, <2>2, <2>3, <2>4, AddressSaved
<1>7. ASSUME NEW r \in Requests, D!Fail(r) PROVE AddressesInv'
  <2>1. UNCHANGED <<rows, wanted>> /\ D!Abandon(r)
    BY <1>7 DEF D!Fail, D!rowVars
  <2>2. D!Existing' = D!Existing
    BY <2>1 DEF D!Existing
  <2>3. AddressesKnown' /\ D!TypeOK'
    BY <2>1, <2>2, AddressesStayKnown DEF AddressesInv, D!TypeOK
  <2> QED
    BY <2>1, <2>2, <2>3 DEF AddressesInv, LabelsNameOne, WantedIsListed, D!GetAddresses
<1> QED
  BY <1>1, <1>2, <1>3, <1>4, <1>5, <1>6, <1>7 DEF D!Next, D!Step

LEMMA AddressesInit == D!Init => AddressesInv
BY AddressesAssumption
   DEF D!Init, D!NoRequests, AddressesInv, D!TypeOK, AddressesKnown,
       LabelsNameOne, WantedIsListed, D!Existing, D!GetAddresses

\* What the invariant says of the lists.
LEMMA AddressesInvSound == AddressesInv => D!AddressesSound
<1> SUFFICES ASSUME AddressesInv, NEW l \in Labels
             PROVE  /\ D!Shown(l) = {wanted[l]} \ {Absent}
                    /\ Cardinality({i \in D!Existing : rows[i].label = l}) <= 1
  BY DEF D!AddressesSound, D!Cardinality, Cardinality
<1>1. D!Shown(l) = {wanted[l]} \ {Absent}
  <2>1. \A i \in D!GetAddresses : rows[i].label = l => wanted[l] = rows[i].street
    BY DEF AddressesInv, WantedIsListed
  <2>2. wanted[l] # Absent => \E i \in D!GetAddresses : rows[i].label = l
    BY DEF AddressesInv, WantedIsListed
  <2>3. \A i \in D!GetAddresses : rows[i].street \in Streets /\ rows[i].street # Absent
    BY AddressRows, AddressesAssumption DEF AddressesInv, D!GetAddresses
  <2> QED
    BY <2>1, <2>2, <2>3 DEF D!Shown
<1>2. Cardinality({i \in D!Existing : rows[i].label = l}) \in 0..1
  BY AtMostOne DEF AddressesInv, LabelsNameOne
<1> QED
  BY <1>1, <1>2


-----------------------------------------------------------------------------
(* Skills *)

\* What a request about skills knows: skills are never deleted.
SkillKnown(q) ==
  /\ q.op = "createSkill" => q.name \in Names
  /\ q.op # "createSkill" => q.id \in S!Existing
  /\ q.op = "updateSkill" /\ q.step = "readConflict" => q.name \in Names
  /\ q.op \in {"assignSkill", "updateTechnicianSkill", "removeSkill"} =>
       q.tech \in Technicians
  /\ q.op \in {"assignSkill", "updateTechnicianSkill"} => q.level \in Levels

\* What it has checked, and nobody else has changed while it is alone.
SkillChecked(q) ==
  /\ q.op = "createSkill" => S!NameUnlike(q.name, {})
  /\ q.op = "updateSkill" /\ q.step = "update" /\ q.name # Absent =>
       S!NameUnlike(q.name, {q.id})

NamesUnlike ==
  \A i, k \in S!Existing : i # k => skills[i].name \notin SameName[skills[k].name]

SkillRequests ==
  /\ req \in [Requests -> S!InFlight \cup {Idle}]
  /\ orderly \in BOOLEAN
  /\ SingleFlight
  /\ \A r \in Requests : req[r] # Idle => SkillKnown(req[r])
  /\ orderly => \A r \in Requests : req[r] # Idle => SkillChecked(req[r])

SkillRows ==
  /\ skills \in [S!Ids -> S!Skill \cup {Absent}]
  /\ \A i, k \in S!Existing : skills[i].name = skills[k].name => i = k
  /\ orderly => NamesUnlike

SkillGrants ==
  /\ level \in [Technicians \X S!Ids -> Levels \cup {0}]
  /\ techActive \in [Technicians -> BOOLEAN]
  /\ granted \subseteq Technicians \X S!Existing
  /\ \A p \in Technicians \X S!Ids : level[p] # 0 <=> p \in granted

SkillsInv == SkillRequests /\ SkillRows /\ SkillGrants

\* A request in flight is a full record.
LEMMA SkillRequest ==
  ASSUME SkillsInv, NEW r \in Requests, req[r] # Idle
  PROVE  /\ req[r] \in S!InFlight
         /\ SkillKnown(req[r])
         /\ orderly => SkillChecked(req[r])
         /\ req[r].name \in Names \cup {Absent}
         /\ req[r].isActive \in BOOLEAN \cup {Absent}
BY DEF SkillsInv, SkillRequests, S!InFlight

\* How one request goes on, the skills that there are staying there.
LEMMA SkillRequestsKept ==
  ASSUME SkillsInv, S!Existing \subseteq S!Existing', NEW r \in Requests, NEW q,
         req' = [req EXCEPT ![r] = q],
         orderly' \in BOOLEAN,
         orderly' => orderly /\ (Alone \/ req[r] # Idle),
         q # Idle => q \in S!InFlight /\ SkillKnown(q),
         q # Idle /\ orderly' => SkillChecked(q)'
  PROVE  SkillRequests'
<1>1. req \in [Requests -> S!InFlight \cup {Idle}] /\ SingleFlight
  BY DEF SkillsInv, SkillRequests
<1>2. /\ SingleFlight'
      /\ orderly' => \A s \in Requests : req'[s] # Idle => s = r
      /\ req'[r] = q
      /\ \A s \in Requests \ {r} : req'[s] = req[s]
  BY <1>1, OthersIdle
<1>3. Idle' = Idle
  BY DEF Idle
<1>4. req' \in [Requests -> S!InFlight \cup {Idle}]
  <2>1. q \in S!InFlight \cup {Idle}
    OBVIOUS
  <2> QED
    BY <1>1, <2>1
<1>5. \A s \in Requests : req'[s] # Idle => SkillKnown(req'[s])
  BY <1>2 DEF SkillsInv, SkillRequests
<1>6. \A s \in Requests : req'[s] # Idle => SkillKnown(req[s])'
  BY <1>5 DEF SkillKnown
<1>7. orderly' => \A s \in Requests : req'[s] # Idle => SkillChecked(req[s])'
  BY <1>2 DEF SkillChecked
<1> HIDE DEF Idle
<1> QED
  BY <1>2, <1>3, <1>4, <1>6, <1>7 DEF SkillRequests, S!InFlight, S!Ids

\* The request ends.
LEMMA SkillRequestEnds ==
  ASSUME SkillsInv, S!Existing \subseteq S!Existing', NEW r \in Requests,
         req[r] # Idle, S!Finish(r) \/ S!Abandon(r)
  PROVE  SkillRequests' /\ (orderly' => orderly)
<1>1. orderly \in BOOLEAN
  BY DEF SkillsInv, SkillRequests
<1>2. req' = [req EXCEPT ![r] = Idle]
  BY DEF S!Finish, S!Abandon, S!Idle, Idle
<1>3. orderly' \in BOOLEAN /\ (orderly' => orderly)
  <2>1. CASE S!Finish(r)
    BY <1>1, <2>1 DEF S!Finish
  <2>2. CASE S!Abandon(r)
    BY <2>2 DEF S!Abandon
  <2> QED
    BY <2>1, <2>2
<1> HIDE DEF Idle
<1> QED
  BY <1>2, <1>3, SkillRequestsKept

\* A call looks things up and begins.
LEMMA SkillCall ==
  ASSUME SkillsInv, UNCHANGED S!rowVars, NEW r \in Requests, NEW q \in S!InFlight,
         S!Begin(r, q), SkillKnown(q), orderly => SkillChecked(q)
  PROVE  SkillsInv'
<1>1. /\ req' = [req EXCEPT ![r] = q]
      /\ orderly' = (orderly /\ Alone)
      /\ orderly \in BOOLEAN
  BY DEF S!Begin, S!Alone, S!Idle, Alone, Idle, SkillsInv, SkillRequests
<1>2. UNCHANGED <<skills, level, techActive, granted>>
  BY DEF S!rowVars
<1>3. S!Existing' = S!Existing
  BY <1>2 DEF S!Existing
<1>4. orderly => SkillChecked(q)'
  BY <1>2, <1>3 DEF SkillChecked, S!NameUnlike
<1>5. SkillRequests'
  BY <1>1, <1>3, <1>4, SkillRequestsKept
<1>6. SkillRows' /\ SkillGrants'
  BY <1>1, <1>2, <1>3 DEF SkillsInv, SkillRows, SkillGrants, NamesUnlike
<1> QED
  BY <1>5, <1>6 DEF SkillsInv

\* The rows of the skills stay, and those of the technicians agree.
LEMMA GrantsChange ==
  ASSUME SkillsInv, NEW r \in Requests, req[r] # Idle,
         UNCHANGED <<skills, techActive>>, S!Finish(r) \/ S!Abandon(r),
         SkillGrants => SkillGrants'
  PROVE  SkillsInv'
<1>1. S!Existing' = S!Existing
  BY DEF S!Existing
<1>2. SkillRequests' /\ (orderly' => orderly)
  BY <1>1, SkillRequestEnds
<1>3. SkillRows'
  BY <1>1, <1>2 DEF SkillsInv, SkillRows, NamesUnlike
<1> QED
  BY <1>2, <1>3 DEF SkillsInv

LEMMA SkillsCalled ==
  ASSUME SkillsInv, NEW r \in Requests, S!Call(r)
  PROVE  SkillsInv'
<1>1. ASSUME NEW n \in Names, S!CreateSkill(r, n) PROVE SkillsInv'
  <2> DEFINE q == [op |-> "createSkill", step |-> "create", id |-> 0, name |-> n,
                   isActive |-> TRUE, tech |-> Absent, level |-> 0]
  <2>1. S!Begin(r, q) /\ UNCHANGED S!rowVars /\ S!NameUnlike(n, {})
    BY <1>1 DEF S!CreateSkill, S!StartSkill
  <2>2. q \in S!InFlight
    BY DEF S!InFlight
  <2>3. SkillKnown(q) /\ SkillChecked(q)
    BY <2>1 DEF SkillKnown, SkillChecked
  <2> HIDE DEF q
  <2> QED
    BY <2>1, <2>2, <2>3, SkillCall
<1>2. ASSUME NEW i \in S!Ids, NEW n \in Names \cup {Absent},
             NEW on \in BOOLEAN \cup {Absent}, S!UpdateSkill(r, i, n, on)
      PROVE  SkillsInv'
  <2> DEFINE step == IF n \notin {Absent, skills[i].name} THEN "readConflict" ELSE "update"
  <2>1. i \in S!Existing /\ S!StartSkill(r, "updateSkill", step, i, n, on)
    BY <1>2 DEF S!UpdateSkill
  <2>2. PICK st \in {"readConflict", "update"} : st = step
    OBVIOUS
  <2> DEFINE q == [op |-> "updateSkill", step |-> st, id |-> i, name |-> n,
                   isActive |-> on, tech |-> Absent, level |-> 0]
  <2>3. S!Begin(r, q) /\ UNCHANGED S!rowVars
    BY <2>1, <2>2 DEF S!StartSkill
  <2>4. q \in S!InFlight
    BY <2>2 DEF S!InFlight
  <2>5. SkillKnown(q)
    BY <2>1, <2>2 DEF SkillKnown
  <2>6. orderly => SkillChecked(q)
    BY <2>1, <2>2, SkillsAssumption
       DEF SkillChecked, S!NameUnlike, SkillsInv, SkillRows, NamesUnlike
  <2> HIDE DEF q
  <2> QED
    BY <2>3, <2>4, <2>5, <2>6, SkillCall
<1>3. ASSUME NEW e \in Technicians, NEW i \in S!Ids, NEW l \in Levels,
             S!AssignSkill(r, e, i, l)
      PROVE  SkillsInv'
  <2> DEFINE q == [op |-> "assignSkill", step |-> "readExisting", id |-> i, name |-> Absent,
                   isActive |-> TRUE, tech |-> e, level |-> l]
  <2>1. S!Begin(r, q) /\ UNCHANGED S!rowVars /\ i \in S!Existing
    BY <1>3 DEF S!AssignSkill, S!StartAssignment
  <2>2. q \in S!InFlight /\ SkillKnown(q) /\ SkillChecked(q)
    BY <2>1 DEF S!InFlight, SkillKnown, SkillChecked
  <2> HIDE DEF q
  <2> QED
    BY <2>1, <2>2, SkillCall
<1>4. ASSUME NEW e \in Technicians, NEW i \in S!Ids, level[<<e, i>>] # 0
      PROVE  i \in S!Existing
  BY <1>4 DEF SkillsInv, SkillGrants
<1>5. ASSUME NEW e \in Technicians, NEW i \in S!Ids, NEW l \in Levels,
             S!UpdateTechnicianSkill(r, e, i, l)
      PROVE  SkillsInv'
  <2> DEFINE q == [op |-> "updateTechnicianSkill", step |-> "update", id |-> i,
                   name |-> Absent, isActive |-> TRUE, tech |-> e, level |-> l]
  <2>1. S!Begin(r, q) /\ UNCHANGED S!rowVars /\ i \in S!Existing
    BY <1>4, <1>5 DEF S!UpdateTechnicianSkill, S!StartAssignment
  <2>2. q \in S!InFlight /\ SkillKnown(q) /\ SkillChecked(q)
    BY <2>1 DEF S!InFlight, SkillKnown, SkillChecked
  <2> HIDE DEF q
  <2> QED
    BY <2>1, <2>2, SkillCall
<1>6. ASSUME NEW e \in Technicians, NEW i \in S!Ids, S!RemoveSkill(r, e, i)
      PROVE  SkillsInv'
  <2> DEFINE q == [op |-> "removeSkill", step |-> "delete", id |-> i,
                   name |-> Absent, isActive |-> TRUE, tech |-> e, level |-> 0]
  <2>1. S!Begin(r, q) /\ UNCHANGED S!rowVars /\ i \in S!Existing
    BY <1>4, <1>6 DEF S!RemoveSkill, S!StartAssignment
  <2>2. q \in S!InFlight /\ SkillKnown(q) /\ SkillChecked(q)
    BY <2>1 DEF S!InFlight, SkillKnown, SkillChecked
  <2> HIDE DEF q
  <2> QED
    BY <2>1, <2>2, SkillCall
<1>7. ASSUME NEW e \in Technicians, S!SetTechnicianActive(r, e)
      PROVE  SkillsInv'
  <2>1. /\ UNCHANGED <<skills, level, granted, req>>
        /\ techActive' = [techActive EXCEPT ![e] = ~@]
        /\ orderly' = (orderly /\ Alone)
    BY <1>7 DEF S!SetTechnicianActive, S!InOneStep, S!Alone, S!Idle, Alone, Idle
  <2>2. S!Existing' = S!Existing
    BY <2>1 DEF S!Existing
  <2>3. SkillRows' /\ SkillGrants'
    BY <2>1, <2>2 DEF SkillsInv, SkillRows, NamesUnlike, SkillGrants
  <2>4. SkillRequests'
    BY <2>1, <2>2 DEF SkillsInv, SkillRequests, SkillKnown, SkillChecked, SingleFlight,
                      S!NameUnlike, Idle, S!InFlight, S!Ids
  <2> QED
    BY <2>3, <2>4 DEF SkillsInv
<1> QED
  BY <1>1, <1>2, <1>3, <1>5, <1>6, <1>7 DEF S!Call

\* A new skill, or a skill with other fields.
LEMMA SkillSaved ==
  ASSUME SkillsInv, NEW r \in Requests, req[r] # Idle, S!Finish(r),
         UNCHANGED <<level, techActive, granted>>,
         NEW i \in S!Ids, NEW new \in S!Skill,
         skills' = [skills EXCEPT ![i] = new],
         S!NameFree(new.name, {i}),
         orderly => S!NameUnlike(new.name, {i})
  PROVE  SkillsInv'
<1>1. /\ skills \in [S!Ids -> S!Skill \cup {Absent}]
      /\ new # Absent /\ new.name \in Names
  BY SkillsAssumption DEF SkillsInv, SkillRows, S!Skill
<1>2. /\ skills'[i] = new
      /\ \A k \in S!Ids \ {i} : skills'[k] = skills[k]
      /\ skills' \in [S!Ids -> S!Skill \cup {Absent}]
  BY <1>1
<1>3. S!Existing' = S!Existing \cup {i}
  BY <1>1, <1>2 DEF S!Existing
<1>4. SkillRequests' /\ (orderly' => orderly)
  BY <1>3, SkillRequestEnds
<1>5. \A k, m \in S!Existing' : skills'[k].name = skills'[m].name => k = m
  BY <1>2, <1>3 DEF SkillsInv, SkillRows, S!NameFree, S!Existing
<1>6. \A k \in S!Existing : skills[k].name \in Names
  BY <1>1 DEF S!Existing, S!Skill
<1>7. ASSUME orderly' PROVE NamesUnlike'
  <2>1. ASSUME NEW k \in S!Existing', NEW m \in S!Existing', k # m
        PROVE  skills'[k].name \notin SameName[skills'[m].name]
    <3>1. CASE k # i /\ m # i
      BY <1>2, <1>3, <1>4, <1>7, <2>1, <3>1 DEF SkillsInv, SkillRows, NamesUnlike
    <3>2. CASE m = i
      BY <1>2, <1>3, <1>4, <1>7, <2>1, <3>2 DEF S!NameUnlike, S!Existing
    <3>3. CASE k = i
      BY <1>1, <1>2, <1>3, <1>4, <1>6, <1>7, <2>1, <3>3, SkillsAssumption
         DEF S!NameUnlike, S!Existing
    <3> QED
      BY <3>1, <3>2, <3>3
  <2> QED
    BY <2>1 DEF NamesUnlike
<1>8. SkillRows'
  BY <1>2, <1>5, <1>7 DEF SkillRows, S!Skill, S!Ids
<1>9. SkillGrants'
  BY <1>3 DEF SkillsInv, SkillGrants
<1> QED
  BY <1>4, <1>8, <1>9 DEF SkillsInv

\* The request goes on if it may, and ends otherwise.
LEMMA SkillGoesOn ==
  ASSUME SkillsInv, NEW r \in Requests, req[r] # Idle, UNCHANGED S!rowVars,
         NEW ok \in BOOLEAN, NEW step \in {"create", "update"},
         S!ContinueIf(r, ok, step),
         ok => SkillKnown([req[r] EXCEPT !.step = step]),
         ok /\ orderly => SkillChecked([req[r] EXCEPT !.step = step])
  PROVE  SkillsInv'
<1>1. UNCHANGED <<skills, level, techActive, granted>>
  BY DEF S!rowVars
<1>2. S!Existing' = S!Existing
  BY <1>1 DEF S!Existing
<1>3. /\ SkillRows /\ SkillGrants
      /\ orderly \in BOOLEAN
      /\ req \in [Requests -> S!InFlight \cup {Idle}]
      /\ req[r] \in S!InFlight
  BY SkillRequest DEF SkillsInv, SkillRequests
<1>4. CASE S!Finish(r)
  <2>1. SkillRequests' /\ (orderly' => orderly)
    BY <1>2, <1>4, SkillRequestEnds
  <2> QED
    BY <1>1, <1>2, <1>3, <2>1 DEF SkillsInv, SkillRows, NamesUnlike, SkillGrants
<1>5. CASE ok /\ S!Continue(r, step)
  <2>1. PICK q : q = [req[r] EXCEPT !.step = step]
    OBVIOUS
  <2>2. /\ req' = [req EXCEPT ![r] = q]
        /\ orderly' = orderly
    BY <1>5, <2>1 DEF S!Continue
  <2>3. q \in S!InFlight
    BY <1>3, <2>1 DEF S!InFlight
  <2>4. SkillKnown(q) /\ (orderly => SkillChecked(q))
    BY <1>5, <2>1
  <2>5. orderly => SkillChecked(q)'
    BY <1>1, <1>2, <2>4 DEF SkillChecked, S!NameUnlike
  <2>6. SkillRequests'
    BY <1>2, <1>3, <2>2, <2>3, <2>4, <2>5, SkillRequestsKept
  <2> QED
    BY <1>1, <1>2, <1>3, <2>2, <2>6 DEF SkillsInv, SkillRows, NamesUnlike, SkillGrants
<1> QED
  BY <1>4, <1>5 DEF S!ContinueIf

LEMMA SkillsNext == SkillsInv /\ [S!Next]_(S!vars) => SkillsInv'
<1> SUFFICES ASSUME SkillsInv, [S!Next]_(S!vars) PROVE SkillsInv'
  OBVIOUS
<1>1. CASE UNCHANGED S!vars
  BY <1>1 DEF S!vars, SkillsInv, SkillRequests, SkillRows, SkillGrants, NamesUnlike,
              SkillKnown, SkillChecked, SingleFlight, S!NameUnlike, S!Existing
<1>2. ASSUME NEW r \in Requests, S!Call(r) PROVE SkillsInv'
  BY <1>2, SkillsCalled
<1> SUFFICES ASSUME NEW r \in Requests, S!Step(r) \/ S!Fail(r) PROVE SkillsInv'
  BY <1>1, <1>2 DEF S!Next
<1>3. req[r] # Idle
  BY DEF S!Step, S!Fail, S!Abandon, S!CreateSkillCommit, S!UpdateSkillReadConflict,
         S!UpdateSkillCommit, S!AssignSkillReadExisting, S!AssignSkillCommit,
         S!UpdateTechnicianSkillCommit, S!RemoveSkillCommit, S!At, S!Idle, Idle
<1>4. /\ req[r] \in S!InFlight
      /\ SkillKnown(req[r])
      /\ orderly => SkillChecked(req[r])
      /\ req[r].name \in Names \cup {Absent}
      /\ req[r].isActive \in BOOLEAN \cup {Absent}
  BY <1>3, SkillRequest
<1> HIDE DEF Idle
<1>5. CASE UNCHANGED S!rowVars /\ (S!Finish(r) \/ S!Abandon(r))
  BY <1>3, <1>5, GrantsChange DEF S!rowVars, SkillGrants, S!Existing
<1>6. CASE S!CreateSkillCommit(r)
  <2>1. req[r].name \in Names /\ (orderly => S!NameUnlike(req[r].name, {}))
    BY <1>4, <1>6 DEF SkillKnown, SkillChecked, S!CreateSkillCommit, S!At
  <2>2. CASE UNCHANGED skills
    BY <1>5, <1>6, <2>2 DEF S!CreateSkillCommit, S!rowVars
  <2>3. ASSUME NEW i \in S!Ids, S!NameFree(req[r].name, {}),
               skills' = [skills EXCEPT ![i] = [name |-> req[r].name, isActive |-> TRUE]]
        PROVE  SkillsInv'
    <3> DEFINE new == [name |-> req[r].name, isActive |-> TRUE]
    <3>1. new \in S!Skill
      BY <2>1 DEF S!Skill
    <3>2. S!NameFree(new.name, {i}) /\ (orderly => S!NameUnlike(new.name, {i}))
      BY <2>1, <2>3 DEF S!NameFree, S!NameUnlike
    <3>3. S!Finish(r) /\ UNCHANGED <<level, techActive, granted>>
      BY <1>6 DEF S!CreateSkillCommit
    <3>4. \E x \in S!Skill : /\ skills' = [skills EXCEPT ![i] = x]
                             /\ S!NameFree(x.name, {i})
                             /\ orderly => S!NameUnlike(x.name, {i})
      BY <2>3, <3>1, <3>2, Zenon
    <3> QED
      BY <1>3, <3>3, <3>4, SkillSaved
  <2> QED
    BY <1>6, <2>2, <2>3 DEF S!CreateSkillCommit
<1>7. CASE S!UpdateSkillReadConflict(r)
  <2> DEFINE ok == S!NameUnlike(req[r].name, {req[r].id})
  <2>1. /\ S!ContinueIf(r, ok, "update") /\ UNCHANGED S!rowVars
        /\ req[r].op = "updateSkill" /\ ok \in BOOLEAN
    BY <1>7 DEF S!UpdateSkillReadConflict, S!At, S!NameUnlike
  <2>2. SkillKnown([req[r] EXCEPT !.step = "update"])
    BY <1>4, <2>1 DEF SkillKnown, S!InFlight
  <2>3. ok => SkillChecked([req[r] EXCEPT !.step = "update"])
    BY <1>4, <2>1 DEF SkillChecked, S!InFlight
  <2>4. \E b \in BOOLEAN : /\ b <=> ok
                           /\ S!ContinueIf(r, b, "update")
    BY <2>1
  <2> HIDE DEF ok
  <2> QED
    BY <1>3, <2>1, <2>2, <2>3, <2>4, SkillGoesOn
<1>8. CASE S!UpdateSkillCommit(r)
  <2> DEFINE i == req[r].id
  <2> DEFINE new == [name |-> S!Given(req[r].name, skills[i].name),
                     isActive |-> S!Given(req[r].isActive, skills[i].isActive)]
  <2>1. i \in S!Existing /\ i \in S!Ids
    BY <1>4, <1>8 DEF SkillKnown, S!UpdateSkillCommit, S!At, S!Existing
  <2>2. CASE UNCHANGED skills
    BY <1>5, <1>8, <2>2 DEF S!UpdateSkillCommit, S!rowVars
  <2>3. CASE /\ S!NameFree(req[r].name, {i})
             /\ skills' = [skills EXCEPT ![i] = new]
    <3>1. skills[i] \in S!Skill /\ skills[i].name \in Names /\ skills[i].isActive \in BOOLEAN
      BY <2>1 DEF SkillsInv, SkillRows, S!Existing, S!Skill
    <3>2. new \in S!Skill
      BY <1>4, <3>1 DEF S!Skill, S!Given
    <3>3. S!NameFree(new.name, {i})
      BY <2>1, <2>3 DEF S!NameFree, S!Given, SkillsInv, SkillRows
    <3>4. orderly => S!NameUnlike(new.name, {i})
      BY <1>4, <1>8, <2>1 DEF S!UpdateSkillCommit, S!At, S!Given, SkillChecked,
            S!NameUnlike, SkillsInv, SkillRows, NamesUnlike
    <3>5. S!Finish(r) /\ UNCHANGED <<level, techActive, granted>>
      BY <1>8 DEF S!UpdateSkillCommit
    <3> HIDE DEF new
    <3>6. \E k \in S!Ids, x \in S!Skill :
            /\ skills' = [skills EXCEPT ![k] = x]
            /\ S!NameFree(x.name, {k})
            /\ orderly => S!NameUnlike(x.name, {k})
      BY <2>1, <2>3, <3>2, <3>3, <3>4, Zenon
    <3> QED
      BY <1>3, <3>5, <3>6, SkillSaved
  <2> QED
    BY <1>8, <2>2, <2>3 DEF S!UpdateSkillCommit
<1>9. CASE S!AssignSkillReadExisting(r)
  <2> DEFINE ok == level[<<req[r].tech, req[r].id>>] = 0
  <2>1. /\ S!ContinueIf(r, ok, "create") /\ UNCHANGED S!rowVars
        /\ req[r].op = "assignSkill"
    BY <1>9 DEF S!AssignSkillReadExisting, S!At
  <2>2. /\ SkillKnown([req[r] EXCEPT !.step = "create"])
        /\ SkillChecked([req[r] EXCEPT !.step = "create"])
    BY <1>4, <2>1 DEF SkillKnown, SkillChecked, S!InFlight
  <2>3. \E b \in BOOLEAN : S!ContinueIf(r, b, "create")
    BY <2>1
  <2> HIDE DEF ok
  <2> QED
    BY <1>3, <2>1, <2>2, <2>3, SkillGoesOn
<1>10. ASSUME NEW e, NEW i, e = req[r].tech, i = req[r].id, NEW l, l = req[r].level,
              S!Finish(r), UNCHANGED <<skills, techActive>>,
              \/ S!AssignSkillCommit(r)
              \/ S!UpdateTechnicianSkillCommit(r)
              \/ S!RemoveSkillCommit(r)
       PROVE  SkillsInv'
  <2>1. e \in Technicians /\ i \in S!Existing /\ i \in S!Ids
    BY <1>4, <1>10 DEF SkillKnown, S!AssignSkillCommit, S!UpdateTechnicianSkillCommit,
                       S!RemoveSkillCommit, S!At, S!Existing
  <2>2. PICK p : p = <<e, i>>
    OBVIOUS
  <2>3. p \in Technicians \X S!Ids /\ p \in Technicians \X S!Existing
    BY <2>1, <2>2
  <2>4. \/ level' = [level EXCEPT ![p] = 0] /\ granted' = granted \ {p}
        \/ level' = [level EXCEPT ![p] = l] /\ granted' = granted \cup {p}
             /\ l \in Levels
        \/ level' = [level EXCEPT ![p] = IF @ = 0 THEN 0 ELSE l] /\ UNCHANGED granted
             /\ l \in Levels
        \/ UNCHANGED <<level, granted>>
    BY <1>4, <1>10, <2>2 DEF SkillKnown, S!AssignSkillCommit, S!UpdateTechnicianSkillCommit,
                             S!RemoveSkillCommit, S!At
  <2>5. SkillGrants => SkillGrants'
    <3> SUFFICES ASSUME SkillGrants PROVE SkillGrants'
      OBVIOUS
    <3>1. S!Existing' = S!Existing
      BY <1>10 DEF S!Existing
    <3>2. 0 \notin Levels
      BY SkillsAssumption
    <3>3. granted' \subseteq Technicians \X S!Existing
      BY <2>3, <2>4 DEF SkillGrants
    <3>4. /\ level' \in [Technicians \X S!Ids -> Levels \cup {0}]
          /\ \A x \in Technicians \X S!Ids : level'[x] # 0 <=> x \in granted'
      BY <2>3, <2>4, <3>2 DEF SkillGrants
    <3> QED
      BY <1>10, <3>1, <3>3, <3>4 DEF SkillGrants
  <2> QED
    BY <1>3, <1>10, <2>5, GrantsChange
<1>11. CASE \/ S!AssignSkillCommit(r)
            \/ S!UpdateTechnicianSkillCommit(r)
            \/ S!RemoveSkillCommit(r)
  BY <1>10, <1>11 DEF S!AssignSkillCommit, S!UpdateTechnicianSkillCommit, S!RemoveSkillCommit
<1> QED
  BY <1>5, <1>6, <1>7, <1>8, <1>9, <1>11 DEF S!Step, S!Fail

LEMMA SkillsInit == S!Init => SkillsInv
<1> SUFFICES ASSUME S!Init PROVE SkillsInv
  OBVIOUS
<1>1. /\ req = [r \in Requests |-> Idle] /\ orderly = TRUE
      /\ skills = [i \in S!Ids |-> Absent]
      /\ level = [p \in Technicians \X S!Ids |-> 0]
      /\ techActive = [e \in Technicians |-> TRUE]
      /\ granted = {}
  BY DEF S!Init, S!NoRequests, S!Idle, Idle
<1>2. S!Existing = {}
  BY <1>1 DEF S!Existing
<1> QED
  BY <1>1, <1>2 DEF SkillsInv, SkillRequests, SkillRows, SkillGrants, NamesUnlike, SingleFlight

LEMMA SkillsInvSound == SkillsInv => S!SkillsSound /\ S!TypeOK
<1> SUFFICES ASSUME SkillsInv PROVE S!SkillsSound /\ S!TypeOK
  OBVIOUS
<1>1. S!TypeOK
  <2>1. granted \subseteq Technicians \X S!Ids
    BY DEF SkillsInv, SkillGrants, S!Existing
  <2> QED
    BY <2>1 DEF SkillsInv, SkillRequests, SkillRows, SkillGrants, S!TypeOK, S!Idle, Idle
<1>2. S!ListSkills(BOOLEAN) \subseteq S!Existing
  BY DEF S!ListSkills
<1>3. \A i, k \in S!ListSkills(BOOLEAN) : i # k =>
        /\ skills[i].name # skills[k].name
        /\ orderly => skills[i].name \notin SameName[skills[k].name]
  BY <1>2 DEF SkillsInv, SkillRows, NamesUnlike
<1>4. ASSUME NEW i \in S!Ids
      PROVE  S!Recommended(i) = {e \in Technicians : techActive[e] /\ <<e, i>> \in granted}
  <2>1. \A e \in Technicians : level[<<e, i>>] # 0 <=> <<e, i>> \in granted
    BY DEF SkillsInv, SkillGrants
  <2> QED
    BY <2>1 DEF S!Recommended
<1>5. ASSUME NEW e \in Technicians PROVE S!SkillsOf(e) \subseteq S!Existing
  <2>1. \A i \in S!Ids : level[<<e, i>>] # 0 => <<e, i>> \in granted
    BY DEF SkillsInv, SkillGrants
  <2> QED
    BY <2>1 DEF SkillsInv, SkillGrants, S!SkillsOf
<1> QED
  BY <1>1, <1>3, <1>4, <1>5 DEF S!SkillsSound

-----------------------------------------------------------------------------
(* Catalog *)

\* What is put into a category, and found by its name.
Filed == {"service", "package"}

\* What a request about the catalogue knows: rows are never deleted, and stay
\* in their table.
EntryKnown(q) ==
  /\ q.op = "create" =>
       /\ q.kind \in Filed /\ q.id \in C!Of("category") /\ q.name \in Names
       /\ q.holds \subseteq C!Of("service")
  /\ q.op \in {"update", "remove"} => q.id \in C!Of(q.kind) /\ q.kind # "offer"
  /\ q.op = "update" => q.isDeleted = Absent
  /\ q.op = "remove" => q.isDeleted = TRUE
  /\ q.op = "raiseTicket" => q.id \in C!Of("subCategory")

\* What it has checked, and nobody else has changed while it is alone.
EntryChecked(q) ==
  /\ q.op = "create" =>
       /\ ~entries[q.id].isDeleted
       /\ q.step = "create" => C!NameUnlike(q.kind, q.name)
  /\ q.op = "raiseTicket" => entries[q.id].isActive

CatalogRequests ==
  /\ req \in [Requests -> C!InFlight \cup {Idle}]
  /\ orderly \in BOOLEAN
  /\ SingleFlight
  /\ \A r \in Requests : req[r] # Idle => EntryKnown(req[r])
  /\ orderly => \A r \in Requests : req[r] # Idle => EntryChecked(req[r])

EntriesUnlike ==
  \A kind \in Filed : \A i, k \in C!Live(kind) \ renamed :
    i # k => entries[i].name \notin SameName[entries[k].name]

CatalogRows ==
  /\ entries \in [C!Ids -> C!Row \cup {Absent}]
  /\ \A i \in C!Existing : entries[i].kind \in Filed =>
       entries[i].within \in C!Of("category") /\ entries[i].name \in Names
  /\ \A i \in C!Existing : entries[i].holds \subseteq C!Of("service") \cup C!Of("category")
  /\ strays \subseteq C!Existing
  /\ renamed \subseteq C!Existing
  /\ removed \subseteq C!Existing
  /\ \A i \in removed :
       IF entries[i].kind = "offer" THEN entries[i].isActive = FALSE
                                    ELSE entries[i].isDeleted = TRUE
  /\ orderly => strays = {} /\ EntriesUnlike

CatalogInv == CatalogRequests /\ CatalogRows

\* A request in flight is a full record.
LEMMA EntryRequest ==
  ASSUME CatalogInv, NEW r \in Requests, req[r] # Idle
  PROVE  /\ req[r] \in C!InFlight
         /\ EntryKnown(req[r])
         /\ orderly => EntryChecked(req[r])
         /\ req[r].kind \in C!Kinds /\ req[r].id \in 0..MaxRows
         /\ req[r].name \in Names \cup {Absent}
         /\ req[r].isActive \in BOOLEAN \cup {Absent}
BY DEF CatalogInv, CatalogRequests, C!InFlight

\* How one request goes on, the rows that there are staying in their tables.
LEMMA EntryRequestsKept ==
  ASSUME CatalogInv, \A k \in C!Kinds : C!Of(k) \subseteq C!Of(k)',
         NEW r \in Requests, NEW q,
         req' = [req EXCEPT ![r] = q],
         orderly' \in BOOLEAN,
         orderly' => orderly /\ (Alone \/ req[r] # Idle),
         q # Idle => q \in C!InFlight /\ EntryKnown(q),
         q # Idle /\ orderly' => EntryChecked(q)'
  PROVE  CatalogRequests'
<1>1. req \in [Requests -> C!InFlight \cup {Idle}] /\ SingleFlight
  BY DEF CatalogInv, CatalogRequests
<1>2. /\ SingleFlight'
      /\ orderly' => \A s \in Requests : req'[s] # Idle => s = r
      /\ req'[r] = q
      /\ \A s \in Requests \ {r} : req'[s] = req[s]
  BY <1>1, OthersIdle
<1>3. Idle' = Idle
  BY DEF Idle
<1>4. req' \in [Requests -> C!InFlight \cup {Idle}]
  <2>1. q \in C!InFlight \cup {Idle}
    OBVIOUS
  <2> QED
    BY <1>1, <2>1
<1>5. \A s \in Requests : req'[s] # Idle => req'[s] \in C!InFlight /\ EntryKnown(req'[s])
  BY <1>1, <1>2 DEF CatalogInv, CatalogRequests
<1>6. \A s \in Requests : req'[s] # Idle => EntryKnown(req[s])'
  <2>1. ASSUME NEW q2 \in C!InFlight, EntryKnown(q2) PROVE EntryKnown(q2)'
    <3>1. /\ q2.kind \in C!Kinds /\ "category" \in C!Kinds /\ "subCategory" \in C!Kinds
          /\ "service" \in C!Kinds
      BY DEF C!InFlight, C!Kinds
    <3>2. /\ C!Of(q2.kind) \subseteq C!Of(q2.kind)'
          /\ C!Of("category") \subseteq C!Of("category")'
          /\ C!Of("subCategory") \subseteq C!Of("subCategory")'
          /\ C!Of("service") \subseteq C!Of("service")'
      BY <3>1
    <3> QED
      BY <2>1, <3>2 DEF EntryKnown
  <2>2. ASSUME NEW s \in Requests, req'[s] # Idle PROVE EntryKnown(req[s])'
    <3>1. PICK q2 \in C!InFlight : q2 = req'[s] /\ EntryKnown(q2)
      BY <1>5, <2>2
    <3>2. EntryKnown(q2)'
      BY <2>1, <3>1
    <3> QED
      BY <3>1, <3>2 DEF EntryKnown
  <2> QED
    BY <2>2
<1>7. orderly' => \A s \in Requests : req'[s] # Idle => EntryChecked(req[s])'
  BY <1>2 DEF EntryChecked
<1> HIDE DEF Idle
<1> QED
  BY <1>2, <1>3, <1>4, <1>6, <1>7 DEF CatalogRequests, C!InFlight, C!Kinds, C!Ids

\* The request ends.
LEMMA EntryRequestEnds ==
  ASSUME CatalogInv, \A k \in C!Kinds : C!Of(k) \subseteq C!Of(k)',
         NEW r \in Requests, req[r] # Idle, C!Finish(r) \/ C!Abandon(r)
  PROVE  CatalogRequests' /\ (orderly' => orderly)
<1>1. orderly \in BOOLEAN
  BY DEF CatalogInv, CatalogRequests
<1>2. req' = [req EXCEPT ![r] = Idle]
  BY DEF C!Finish, C!Abandon, C!Idle, Idle
<1>3. orderly' \in BOOLEAN /\ (orderly' => orderly)
  <2>1. CASE C!Finish(r)
    BY <1>1, <2>1 DEF C!Finish
  <2>2. CASE C!Abandon(r)
    BY <2>2 DEF C!Abandon
  <2> QED
    BY <2>1, <2>2
<1> HIDE DEF Idle
<1> QED
  BY <1>2, <1>3, EntryRequestsKept

\* No row changes, and only one request.
LEMMA EntriesSame ==
  ASSUME CatalogRows, UNCHANGED C!rowVars, orderly' => orderly
  PROVE  /\ CatalogRows'
         /\ \A k \in C!Kinds : C!Of(k)' = C!Of(k)
         /\ \A k \in C!Kinds : C!Live(k)' = C!Live(k)
<1>1. UNCHANGED <<entries, strays, renamed, removed>>
  BY DEF C!rowVars
<1>2. C!Existing' = C!Existing
  BY <1>1 DEF C!Existing
<1>3. \A k : C!Of(k)' = C!Of(k)
  BY <1>1, <1>2 DEF C!Of
<1>4. \A k : C!Live(k)' = C!Live(k)
  BY <1>1, <1>3 DEF C!Live
<1>5. EntriesUnlike' = EntriesUnlike
  BY <1>1, <1>4 DEF EntriesUnlike
<1>6. CatalogRows'
  BY <1>1, <1>2, <1>3, <1>5 DEF CatalogRows
<1> QED
  BY <1>3, <1>4, <1>6

\* A call looks things up and begins.
LEMMA CatalogStart ==
  ASSUME CatalogInv, NEW r \in Requests, NEW q \in C!InFlight,
         C!Begin(r, q), UNCHANGED C!rowVars,
         EntryKnown(q), orderly => EntryChecked(q)
  PROVE  CatalogInv'
<1>1. /\ req' = [req EXCEPT ![r] = q]
      /\ orderly' = (orderly /\ Alone)
      /\ orderly \in BOOLEAN
  BY DEF C!Begin, C!Alone, C!Idle, Alone, Idle, CatalogInv, CatalogRequests
<1>2. /\ CatalogRows'
      /\ \A k \in C!Kinds : C!Of(k)' = C!Of(k)
      /\ \A k \in C!Kinds : C!Live(k)' = C!Live(k)
  BY <1>1, EntriesSame DEF CatalogInv
<1>3. orderly => EntryChecked(q)'
  <2>1. entries' = entries /\ q.kind \in C!Kinds
    BY DEF C!rowVars, C!InFlight
  <2>2. C!NameUnlike(q.kind, q.name)' = C!NameUnlike(q.kind, q.name)
    BY <1>2, <2>1 DEF C!NameUnlike
  <2> QED
    BY <2>1, <2>2 DEF EntryChecked
<1>4. CatalogRequests'
  <2>1. \A k \in C!Kinds : C!Of(k) \subseteq C!Of(k)'
    BY <1>2
  <2> QED
    BY <1>1, <1>3, <2>1, EntryRequestsKept
<1> QED
  BY <1>2, <1>4 DEF CatalogInv

\* A new service or package, of which the category and the name are looked up.
LEMMA CatalogCreateCalled ==
  ASSUME CatalogInv, NEW r \in Requests, NEW c \in C!Live("category"),
         NEW kind \in Filed, NEW held \in SUBSET C!Of("service"), NEW n \in Names,
         C!Start(r, "create", "readName", c, kind, held, n, TRUE, FALSE)
  PROVE  CatalogInv'
<1>1. PICK q : q = [op |-> "create", step |-> "readName", id |-> c, kind |-> kind,
                    holds |-> held, name |-> n, isActive |-> TRUE, isDeleted |-> FALSE]
  OBVIOUS
<1>2. c \in C!Of("category") /\ c \in 0..MaxRows /\ ~entries[c].isDeleted
  BY CatalogAssumption DEF C!Live, C!Of, C!Existing, C!Ids
<1>3. held \in SUBSET C!Ids /\ kind \in C!Kinds
  BY DEF C!Of, C!Existing, C!Kinds, Filed
<1>4. q \in C!InFlight
  BY <1>1, <1>2, <1>3 DEF C!InFlight
<1>5. /\ q.op = "create" /\ q.step = "readName" /\ q.id = c /\ q.kind = kind
      /\ q.holds = held /\ q.name = n
  BY <1>1
<1>6. C!Begin(r, q) /\ UNCHANGED C!rowVars
  BY <1>1 DEF C!Start
<1>7. EntryKnown(q) /\ EntryChecked(q)
  BY <1>2, <1>5 DEF EntryKnown, EntryChecked
<1> QED
  BY <1>4, <1>6, <1>7, CatalogStart

\* An update or a removal of a row that there is.
LEMMA CatalogChangeCalled ==
  ASSUME CatalogInv, NEW r \in Requests, NEW i \in C!Existing,
         entries[i].kind # "offer",
         NEW n \in Names \cup {Absent}, NEW on \in BOOLEAN \cup {Absent},
         C!Update(r, i, n, on) \/ C!Remove(r, i, on)
  PROVE  CatalogInv'
<1>1. PICK kind \in C!Kinds : kind = entries[i].kind
  BY DEF CatalogInv, CatalogRows, C!Existing, C!Row
<1>2. i \in C!Of(kind) /\ i \in 0..MaxRows
  BY <1>1, CatalogAssumption DEF C!Of, C!Existing, C!Ids
<1>3. CASE C!Update(r, i, n, on)
  <2>1. PICK q : q = [op |-> "update", step |-> "update", id |-> i, kind |-> kind,
                      holds |-> {}, name |-> n, isActive |-> on, isDeleted |-> Absent]
    OBVIOUS
  <2>2. q \in C!InFlight
    BY <1>2, <2>1 DEF C!InFlight
  <2>3. q.op = "update" /\ q.id = i /\ q.kind = kind /\ q.isDeleted = Absent
    BY <2>1
  <2>4. C!Begin(r, q) /\ UNCHANGED C!rowVars
    BY <1>1, <1>3, <2>1 DEF C!Update, C!Start
  <2>5. EntryKnown(q) /\ EntryChecked(q)
    BY <1>1, <1>2, <2>3 DEF EntryKnown, EntryChecked
  <2> QED
    BY <2>2, <2>4, <2>5, CatalogStart
<1>4. CASE C!Remove(r, i, on)
  <2>1. PICK q : q = [op |-> "remove", step |-> "update", id |-> i, kind |-> kind,
                      holds |-> {}, name |-> Absent, isActive |-> on, isDeleted |-> TRUE]
    OBVIOUS
  <2>2. q \in C!InFlight
    BY <1>2, <2>1 DEF C!InFlight
  <2>3. q.op = "remove" /\ q.id = i /\ q.kind = kind /\ q.isDeleted = TRUE
    BY <2>1
  <2>4. C!Begin(r, q) /\ UNCHANGED C!rowVars
    BY <1>1, <1>4, <2>1 DEF C!Remove, C!Start
  <2>5. EntryKnown(q) /\ EntryChecked(q)
    BY <1>1, <1>2, <2>3 DEF EntryKnown, EntryChecked
  <2> QED
    BY <2>2, <2>4, <2>5, CatalogStart
<1> QED
  BY <1>3, <1>4

\* A ticket is about to be raised.
LEMMA CatalogTicketCalled ==
  ASSUME CatalogInv, NEW r \in Requests, NEW i, C!RaiseTicket(r, i)
  PROVE  CatalogInv'
<1>1. PICK q : q = [op |-> "raiseTicket", step |-> "commit", id |-> i,
                    kind |-> "subCategory", holds |-> {}, name |-> Absent,
                    isActive |-> Absent, isDeleted |-> Absent]
  OBVIOUS
<1>2. /\ i \in C!Of("subCategory") /\ entries[i].isActive
      /\ C!Begin(r, q) /\ UNCHANGED C!rowVars
  BY <1>1 DEF C!RaiseTicket, C!Start
<1>3. i \in 0..MaxRows
  BY <1>2, CatalogAssumption DEF C!Of, C!Existing, C!Ids
<1>4. q \in C!InFlight
  BY <1>1, <1>3 DEF C!InFlight, C!Kinds
<1>5. q.op = "raiseTicket" /\ q.id = i
  BY <1>1
<1>6. EntryKnown(q) /\ EntryChecked(q)
  BY <1>2, <1>5 DEF EntryKnown, EntryChecked
<1> QED
  BY <1>2, <1>4, <1>6, CatalogStart

\* The fields that an update does not give keep their values.
LEMMA RowWritten ==
  ASSUME NEW row \in C!Row, NEW q \in C!InFlight
  PROVE  /\ C!Written(row, q) \in C!Row
         /\ C!Written(row, q).kind = row.kind
         /\ C!Written(row, q).within = row.within
         /\ C!Written(row, q).holds = row.holds
         /\ C!Written(row, q).name = C!Given(q.name, row.name)
         /\ C!Written(row, q).isActive = C!Given(q.isActive, row.isActive)
         /\ C!Written(row, q).isDeleted = C!Given(q.isDeleted, row.isDeleted)
<1>1. /\ q.name \in Names \cup {Absent} /\ q.isActive \in BOOLEAN \cup {Absent}
      /\ q.isDeleted \in BOOLEAN \cup {Absent}
  BY DEF C!InFlight
<1> DEFINE a == [row EXCEPT !.name = C!Given(q.name, row.name)]
           b == [a EXCEPT !.isActive = C!Given(q.isActive, a.isActive)]
           c == [b EXCEPT !.isDeleted = C!Given(q.isDeleted, b.isDeleted)]
<1>2. C!Written(row, q) = c
  BY Zenon DEF C!Written
<1>3. /\ a \in C!Row /\ a.kind = row.kind /\ a.within = row.within /\ a.holds = row.holds
      /\ a.name = C!Given(q.name, row.name) /\ a.isActive = row.isActive
      /\ a.isDeleted = row.isDeleted
  BY <1>1 DEF C!Row, C!Given
<1>4. /\ b \in C!Row /\ b.kind = a.kind /\ b.within = a.within /\ b.holds = a.holds
      /\ b.name = a.name /\ b.isActive = C!Given(q.isActive, a.isActive)
      /\ b.isDeleted = a.isDeleted
  <2> HIDE DEF a
  <2> QED
    BY <1>1, <1>3 DEF C!Row, C!Given
<1>5. /\ c \in C!Row /\ c.kind = b.kind /\ c.within = b.within /\ c.holds = b.holds
      /\ c.name = b.name /\ c.isActive = b.isActive
      /\ c.isDeleted = C!Given(q.isDeleted, b.isDeleted)
  <2> HIDE DEF a, b
  <2> QED
    BY <1>1, <1>4 DEF C!Row, C!Given
<1> HIDE DEF a, b, c
<1> QED
  BY <1>2, <1>3, <1>4, <1>5

\* A new row: rows that stay where they are stay in the category they are in.
LEMMA EntryAdded ==
  ASSUME CatalogRows, NEW i \in C!Ids, NEW new \in C!Row,
         C!Existing = 1..(i - 1), entries' = [entries EXCEPT ![i] = new],
         UNCHANGED <<renamed, removed>>, strays' \subseteq strays \cup {i},
         orderly' => orderly /\ strays' = strays,
         new.kind \in Filed => /\ new.within \in C!Of("category") /\ new.name \in Names
                               /\ orderly' => C!NameUnlike(new.kind, new.name),
         new.holds \subseteq C!Of("service") \cup C!Of("category"),
         new.isDeleted = FALSE
  PROVE  CatalogRows' /\ \A k \in C!Kinds : C!Of(k) \subseteq C!Of(k)'
<1>1. new # Absent
  BY CatalogAssumption
<1>2. i \notin C!Existing
  BY CatalogAssumption DEF C!Ids
<1>3. /\ entries'[i] = new
      /\ \A k \in C!Ids \ {i} : entries'[k] = entries[k]
      /\ entries' \in [C!Ids -> C!Row \cup {Absent}]
  BY DEF CatalogRows
<1>4. C!Existing' = C!Existing \cup {i}
  BY <1>1, <1>3 DEF C!Existing
<1>5. \A k \in C!Existing : entries'[k] = entries[k] /\ k # i
  BY <1>2, <1>3 DEF C!Existing
<1>6. \A kind : C!Of(kind)' = C!Of(kind) \cup (IF new.kind = kind THEN {i} ELSE {})
  BY <1>3, <1>4, <1>5 DEF C!Of
<1>7. \A kind : C!Live(kind)' = C!Live(kind) \cup (IF new.kind = kind THEN {i} ELSE {})
  BY <1>3, <1>5, <1>6 DEF C!Live, C!Of
<1>8. ASSUME orderly' PROVE EntriesUnlike'
  <2>1. ASSUME NEW kind \in Filed, NEW j \in C!Live(kind)' \ renamed,
               NEW k \in C!Live(kind)' \ renamed, j # k
        PROVE  entries'[j].name \notin SameName[entries'[k].name]
    <3>1. CASE j # i /\ k # i
      <4>1. j \in C!Live(kind) \ renamed /\ k \in C!Live(kind) \ renamed
        BY <1>7, <2>1, <3>1
      <4>2. entries'[j] = entries[j] /\ entries'[k] = entries[k]
        BY <1>5, <4>1 DEF C!Live, C!Of
      <4> QED
        BY <1>8, <2>1, <4>1, <4>2 DEF CatalogRows, EntriesUnlike
    <3>2. ASSUME NEW o \in C!Live(kind), new.kind = kind
          PROVE  /\ entries'[o] = entries[o]
                 /\ entries[o].name \in Names /\ new.name \in Names
                 /\ entries[o].name \notin SameName[new.name]
                 /\ new.name \notin SameName[entries[o].name]
      <4>1. /\ entries'[o] = entries[o]
            /\ entries[o].name \in Names /\ new.name \in Names
        BY <1>5, <3>2 DEF CatalogRows, C!Live, C!Of
      <4>2. entries[o].name \notin SameName[new.name]
        BY <1>8, <3>2 DEF C!NameUnlike
      <4> QED
        BY <4>1, <4>2, SkillsAssumption
    <3>3. CASE j = i
      <4>1. new.kind = kind /\ k \in C!Live(kind)
        <5>1. i \notin C!Live(kind)
          BY <1>2 DEF C!Live, C!Of
        <5> QED
          BY <1>7, <2>1, <3>3, <5>1
      <4> QED
        BY <1>3, <3>2, <3>3, <4>1
    <3>4. CASE k = i
      <4>1. new.kind = kind /\ j \in C!Live(kind)
        <5>1. i \notin C!Live(kind)
          BY <1>2 DEF C!Live, C!Of
        <5> QED
          BY <1>7, <2>1, <3>4, <5>1
      <4> QED
        BY <1>3, <3>2, <3>4, <4>1
    <3> QED
      BY <3>1, <3>3, <3>4
  <2> QED
    BY <2>1 DEF EntriesUnlike
<1>9. \A k \in C!Existing' : entries'[k].kind \in Filed =>
        entries'[k].within \in C!Of("category")' /\ entries'[k].name \in Names
  BY <1>3, <1>4, <1>5, <1>6 DEF CatalogRows
<1>10. \A k \in C!Existing' :
         entries'[k].holds \subseteq C!Of("service")' \cup C!Of("category")'
  BY <1>3, <1>4, <1>5, <1>6 DEF CatalogRows
<1>11. /\ strays' \subseteq C!Existing' /\ renamed' \subseteq C!Existing'
       /\ removed' \subseteq C!Existing'
  BY <1>4 DEF CatalogRows
<1>12. \A k \in removed' :
         IF entries'[k].kind = "offer" THEN entries'[k].isActive = FALSE
                                       ELSE entries'[k].isDeleted = TRUE
  BY <1>5 DEF CatalogRows
<1>13. orderly' => strays' = {}
  BY DEF CatalogRows
<1>14. CatalogRows'
  BY <1>3, <1>8, <1>9, <1>10, <1>11, <1>12, <1>13 DEF CatalogRows, C!Ids, C!Row, C!Kinds
<1> QED
  BY <1>6, <1>14

\* A row that changes keeps its table, its category and what it holds; once
\* deleted it stays so.
LEMMA EntryChanged ==
  ASSUME CatalogRows, NEW i \in C!Existing, NEW new \in C!Row,
         entries' = [entries EXCEPT ![i] = new],
         new.kind = entries[i].kind, new.within = entries[i].within,
         new.holds = entries[i].holds,
         entries[i].isDeleted = TRUE => new.isDeleted = TRUE,
         entries[i].name \in Names => new.name \in Names,
         renamed \subseteq renamed', renamed' \subseteq renamed \cup {i},
         i \notin renamed' => new.name = entries[i].name,
         removed' \subseteq removed \cup {i},
         i \in removed' => IF new.kind = "offer" THEN new.isActive = FALSE
                                                 ELSE new.isDeleted = TRUE,
         UNCHANGED strays, orderly' => orderly
  PROVE  CatalogRows' /\ \A k \in C!Kinds : C!Of(k) \subseteq C!Of(k)'
<1>1. new # Absent
  BY CatalogAssumption
<1>2. /\ entries'[i] = new
      /\ \A k \in C!Ids \ {i} : entries'[k] = entries[k]
      /\ entries' \in [C!Ids -> C!Row \cup {Absent}]
  BY DEF CatalogRows, C!Existing
<1>3. C!Existing' = C!Existing
  BY <1>1, <1>2 DEF C!Existing
<1>4. \A k \in C!Existing : /\ entries'[k].kind = entries[k].kind
                            /\ entries'[k].within = entries[k].within
                            /\ entries'[k].holds = entries[k].holds
                            /\ k # i => entries'[k] = entries[k]
  BY <1>2 DEF C!Existing
<1>5. \A kind : C!Of(kind)' = C!Of(kind)
  BY <1>3, <1>4 DEF C!Of
<1>6. \A k \in C!Existing : ~entries'[k].isDeleted => ~entries[k].isDeleted
  <2>1. \A k \in C!Existing : entries[k].isDeleted \in BOOLEAN
    BY DEF CatalogRows, C!Existing, C!Row
  <2> QED
    BY <1>2, <1>4, <2>1
<1>7. \A kind : C!Live(kind)' \subseteq C!Live(kind)
  BY <1>5, <1>6 DEF C!Live, C!Of
<1>8. ASSUME orderly' PROVE EntriesUnlike'
  <2>1. ASSUME NEW kind \in Filed, NEW j \in C!Live(kind)' \ renamed'
        PROVE  j \in C!Live(kind) \ renamed /\ entries'[j].name = entries[j].name
    <3>1. j \in C!Live(kind) \ renamed /\ j \in C!Existing
      BY <1>7, <2>1 DEF C!Live, C!Of
    <3>2. CASE j = i
      BY <1>2, <2>1, <3>1, <3>2
    <3>3. CASE j # i
      BY <1>4, <3>1, <3>3
    <3> QED
      BY <3>1, <3>2, <3>3
  <2>2. EntriesUnlike
    BY <1>8 DEF CatalogRows
  <2> QED
    BY <2>1, <2>2 DEF EntriesUnlike
<1>9. \A k \in C!Existing' : entries'[k].kind \in Filed =>
        entries'[k].within \in C!Of("category")' /\ entries'[k].name \in Names
  BY <1>2, <1>3, <1>4, <1>5 DEF CatalogRows
<1>10. \A k \in C!Existing' :
         entries'[k].holds \subseteq C!Of("service")' \cup C!Of("category")'
  BY <1>3, <1>4, <1>5 DEF CatalogRows
<1>11. /\ strays' \subseteq C!Existing' /\ renamed' \subseteq C!Existing'
       /\ removed' \subseteq C!Existing'
  BY <1>3 DEF CatalogRows
<1>12. ASSUME NEW k \in removed'
       PROVE  IF entries'[k].kind = "offer" THEN entries'[k].isActive = FALSE
                                            ELSE entries'[k].isDeleted = TRUE
  <2>1. CASE k # i
    BY <1>4, <1>12, <2>1 DEF CatalogRows
  <2>2. CASE k = i
    BY <1>2, <1>12, <2>2
  <2> QED
    BY <2>1, <2>2
<1>13. orderly' => strays' = {}
  BY DEF CatalogRows
<1>14. CatalogRows'
  BY <1>2, <1>8, <1>9, <1>10, <1>11, <1>12, <1>13 DEF CatalogRows, C!Ids, C!Row, C!Kinds
<1> QED
  BY <1>5, <1>14

\* The requests in flight, when a handler runs as one write.
LEMMA EntryRequestsBeside ==
  ASSUME CatalogInv, \A k \in C!Kinds : C!Of(k) \subseteq C!Of(k)',
         NEW r \in Requests, C!InOneStep(r)
  PROVE  CatalogRequests' /\ (orderly' => orderly)
<1>1. /\ req[r] = Idle /\ req' = req /\ orderly' = (orderly /\ Alone)
      /\ orderly \in BOOLEAN /\ req \in [Requests -> C!InFlight \cup {Idle}]
  BY DEF C!InOneStep, C!Alone, C!Idle, Alone, Idle, CatalogInv, CatalogRequests
<1> HIDE DEF Idle
<1>2. PICK q : q = Idle
  OBVIOUS
<1>3. req' = [req EXCEPT ![r] = q]
  BY <1>1, <1>2
<1>4. orderly' \in BOOLEAN /\ (orderly' => orderly /\ (Alone \/ req[r] # Idle))
  BY <1>1
<1>5. CatalogRequests'
  BY <1>2, <1>3, <1>4, EntryRequestsKept
<1> QED
  BY <1>4, <1>5

\* A category, a sub-category or an offer is created.
LEMMA CatalogInserted ==
  ASSUME CatalogInv, NEW r \in Requests, NEW kind \in C!Kinds \ Filed,
         NEW held \in SUBSET (C!Of("service") \cup C!Of("category")),
         C!InsertAlone(r, kind, held)
  PROVE  CatalogInv'
<1>1. PICK new : new = [kind |-> kind, within |-> 0, holds |-> held, name |-> Absent,
                        isActive |-> TRUE, isDeleted |-> FALSE]
  OBVIOUS
<1>2. held \in SUBSET C!Ids /\ 0 \in 0..MaxRows
  BY CatalogAssumption DEF C!Of, C!Existing
<1>3. new \in C!Row
  BY <1>1, <1>2 DEF C!Row
<1>4. new.kind \notin Filed /\ new.holds = held /\ new.isDeleted = FALSE
  BY <1>1
<1>5. /\ C!InOneStep(r) /\ UNCHANGED <<strays, renamed, removed>>
      /\ \E i \in C!Ids :
           C!Existing = 1..(i - 1) /\ entries' = [entries EXCEPT ![i] = new]
  BY <1>1 DEF C!InsertAlone, C!Insert
<1>6. PICK i \in C!Ids :
        C!Existing = 1..(i - 1) /\ entries' = [entries EXCEPT ![i] = new]
  BY <1>5
<1>7. orderly' => orderly
  BY <1>5 DEF C!InOneStep, CatalogInv, CatalogRequests
<1>8. CatalogRows
  BY DEF CatalogInv
<1>9. CatalogRows' /\ \A k \in C!Kinds : C!Of(k) \subseteq C!Of(k)'
  BY <1>3, <1>4, <1>5, <1>6, <1>7, <1>8, EntryAdded
<1>10. CatalogRequests'
  BY <1>5, <1>9, EntryRequestsBeside
<1> QED
  BY <1>9, <1>10 DEF CatalogInv

\* isActive alone is written.
LEMMA CatalogActiveSet ==
  ASSUME CatalogInv, NEW r \in Requests, NEW i \in C!Existing, NEW on \in BOOLEAN,
         C!SetActive(r, i, on)
  PROVE  CatalogInv'
<1>1. /\ C!InOneStep(r) /\ UNCHANGED <<strays, renamed>>
      /\ entries' = [entries EXCEPT ![i].isActive = on]
      /\ removed' = IF entries[i].kind # "offer" THEN removed
                    ELSE IF on THEN removed \ {i} ELSE removed \cup {i}
  BY DEF C!SetActive
<1>2. CatalogRows
  BY DEF CatalogInv
<1>3. PICK row \in C!Row : row = entries[i]
  BY <1>2 DEF CatalogRows, C!Existing
<1>4. PICK new : new = [row EXCEPT !.isActive = on]
  OBVIOUS
<1>5. /\ new \in C!Row /\ new.kind = row.kind /\ new.within = row.within
      /\ new.holds = row.holds /\ new.name = row.name /\ new.isActive = on
      /\ new.isDeleted = row.isDeleted
  BY <1>4 DEF C!Row
<1>6. entries' = [entries EXCEPT ![i] = new]
  BY <1>1, <1>3, <1>4
<1>7. orderly' => orderly
  BY <1>1 DEF C!InOneStep, CatalogInv, CatalogRequests
<1>8. i \in removed' => IF new.kind = "offer" THEN new.isActive = FALSE
                                              ELSE new.isDeleted = TRUE
  <2>1. CASE new.kind = "offer"
    BY <1>1, <1>3, <1>5, <2>1
  <2>2. CASE new.kind # "offer"
    BY <1>1, <1>2, <1>3, <1>5, <2>2 DEF CatalogRows
  <2> QED
    BY <2>1, <2>2
<1>9. removed' \subseteq removed \cup {i}
  BY <1>1
<1>10. CatalogRows' /\ \A k \in C!Kinds : C!Of(k) \subseteq C!Of(k)'
  BY <1>1, <1>2, <1>3, <1>5, <1>6, <1>7, <1>8, <1>9, EntryChanged
<1>11. CatalogRequests'
  BY <1>1, <1>10, EntryRequestsBeside
<1> QED
  BY <1>10, <1>11 DEF CatalogInv

\* Every call.
LEMMA CatalogCalled ==
  ASSUME CatalogInv, NEW r \in Requests, C!Call(r)
  PROVE  CatalogInv'
<1>1. CASE C!CreateCategory(r)
  BY <1>1, CatalogInserted DEF C!CreateCategory, C!Kinds, Filed
<1>2. ASSUME NEW held, C!CreateOffer(r, held) PROVE CatalogInv'
  BY <1>2, CatalogInserted DEF C!CreateOffer, C!Kinds, Filed
<1>3. ASSUME NEW c \in C!Ids, C!CreateSubCategory(r, c) PROVE CatalogInv'
  BY <1>3, CatalogInserted DEF C!CreateSubCategory, C!Kinds, Filed
<1>4. ASSUME NEW c \in C!Ids, NEW n \in Names, C!CreateService(r, c, n)
      PROVE  CatalogInv'
  BY <1>4, CatalogCreateCalled DEF C!CreateService, Filed
<1>5. ASSUME NEW c \in C!Ids, NEW n \in Names, NEW held, C!CreatePackage(r, c, held, n)
      PROVE  CatalogInv'
  BY <1>5, CatalogCreateCalled DEF C!CreatePackage, Filed
<1>6. ASSUME NEW i \in C!Ids, C!RaiseTicket(r, i) PROVE CatalogInv'
  BY <1>6, CatalogTicketCalled
<1>7. ASSUME NEW i \in C!Ids, NEW n \in Names,
             C!UpdateService(r, i, n, Absent) \/ C!UpdatePackage(r, i, n)
      PROVE  CatalogInv'
  BY <1>7, CatalogChangeCalled DEF C!UpdateService, C!UpdatePackage, C!Live, C!Of
<1>8. ASSUME NEW i \in C!Ids, NEW on \in BOOLEAN,
             C!UpdateCategory(r, i, on) \/ C!UpdateService(r, i, Absent, on)
      PROVE  CatalogInv'
  BY <1>8, CatalogChangeCalled DEF C!UpdateCategory, C!UpdateService, C!Live, C!Of
<1>9. ASSUME NEW i \in C!Ids, NEW on \in BOOLEAN,
             \/ C!UpdateOffer(r, i, on)
             \/ C!UpdateSubCategory(r, i, on)
             \/ C!UpdateCategoryByManager(r, i, on)
      PROVE  CatalogInv'
  BY <1>9, CatalogActiveSet
     DEF C!UpdateOffer, C!UpdateSubCategory, C!UpdateCategoryByManager, C!Of
<1>10. ASSUME NEW i \in C!Ids,
              C!RemoveCategory(r, i) \/ C!RemoveService(r, i) \/ C!RemovePackage(r, i)
       PROVE  CatalogInv'
  <2>1. Absent \in Names \cup {Absent}
    OBVIOUS
  <2>2. \E on \in {FALSE, Absent} :
          i \in C!Existing /\ entries[i].kind # "offer" /\ C!Remove(r, i, on)
    BY <1>10 DEF C!RemoveCategory, C!RemoveService, C!RemovePackage, C!Live, C!Of
  <2> QED
    BY <2>1, <2>2, CatalogChangeCalled
<1>11. ASSUME NEW i \in C!Ids,
              \/ C!RemoveOffer(r, i) \/ C!DeleteCategory(r, i) \/ C!DeleteSubCategory(r, i)
       PROVE  CatalogInv'
  BY <1>11, CatalogActiveSet DEF C!RemoveOffer, C!DeleteCategory, C!DeleteSubCategory, C!Of
<1> QED
  BY <1>1, <1>2, <1>3, <1>4, <1>5, <1>6, <1>7, <1>8, <1>9, <1>10, <1>11 DEF C!Call

LEMMA CatalogReadName ==
  ASSUME CatalogInv, NEW r \in Requests, C!CreateReadName(r)
  PROVE  CatalogInv'
<1>1. /\ req[r] # Idle /\ req[r].op = "create" /\ UNCHANGED C!rowVars
  BY DEF C!CreateReadName, C!At, C!Idle, Idle
<1>2. /\ req[r] \in C!InFlight /\ EntryKnown(req[r])
      /\ orderly => EntryChecked(req[r])
  BY <1>1, EntryRequest
<1>3. CatalogRows /\ orderly \in BOOLEAN
  BY DEF CatalogInv, CatalogRequests
<1>4. CASE C!Finish(r)
  <2>1. orderly' => orderly
    BY <1>4 DEF C!Finish
  <2>2. CatalogRows' /\ \A k \in C!Kinds : C!Of(k) \subseteq C!Of(k)'
    BY <1>1, <1>3, <2>1, EntriesSame
  <2>3. CatalogRequests'
    BY <1>1, <1>4, <2>2, EntryRequestEnds
  <2> QED
    BY <2>2, <2>3 DEF CatalogInv
<1>5. CASE C!NameUnlike(req[r].kind, req[r].name) /\ C!Continue(r, "create")
  <2>1. PICK q : q = [req[r] EXCEPT !.step = "create"]
    OBVIOUS
  <2>2. /\ q \in C!InFlight /\ q.op = "create" /\ q.step = "create" /\ q.id = req[r].id
        /\ q.kind = req[r].kind /\ q.name = req[r].name /\ q.holds = req[r].holds
    BY <1>1, <1>2, <2>1 DEF C!InFlight
  <2>3. req' = [req EXCEPT ![r] = q] /\ orderly' = orderly
    BY <1>5, <2>1 DEF C!Continue
  <2>4. /\ CatalogRows'
        /\ \A k \in C!Kinds : C!Of(k)' = C!Of(k)
        /\ \A k \in C!Kinds : C!Live(k)' = C!Live(k)
    BY <1>1, <1>3, <2>3, EntriesSame
  <2>5. EntryKnown(q)
    BY <1>1, <1>2, <2>2 DEF EntryKnown
  <2>6. orderly => EntryChecked(q)'
    <3>1. entries' = entries /\ q.kind \in C!Kinds
      BY <1>1, <2>2 DEF C!rowVars, C!InFlight
    <3>2. C!NameUnlike(q.kind, q.name)'
      BY <1>5, <2>2, <2>4, <3>1 DEF C!NameUnlike
    <3> QED
      BY <1>1, <1>2, <2>2, <3>1, <3>2 DEF EntryChecked
  <2>7. CatalogRequests'
    <3>1. \A k \in C!Kinds : C!Of(k) \subseteq C!Of(k)'
      BY <2>4
    <3> QED
      BY <1>1, <1>3, <2>2, <2>3, <2>5, <2>6, <3>1, EntryRequestsKept
  <2> QED
    BY <2>4, <2>7 DEF CatalogInv
<1> QED
  BY <1>4, <1>5 DEF C!CreateReadName, C!ContinueIf

\* The service or the package is created.
LEMMA CatalogCreate ==
  ASSUME CatalogInv, NEW r \in Requests, C!CreateCommit(r)
  PROVE  CatalogInv'
<1>1. /\ req[r] # Idle /\ req[r].op = "create" /\ req[r].step = "create" /\ C!Finish(r)
      /\ UNCHANGED <<renamed, removed>>
  BY DEF C!CreateCommit, C!At, C!Idle, Idle
<1>2. PICK q \in C!InFlight : q = req[r] /\ EntryKnown(q) /\ (orderly => EntryChecked(q))
  BY <1>1, EntryRequest
<1>3. /\ q.op = "create" /\ q.step = "create" /\ q.kind \in C!Kinds /\ q.id \in 0..MaxRows
      /\ q.name \in Names \cup {Absent} /\ q.holds \in SUBSET C!Ids
  BY <1>1, <1>2 DEF C!InFlight
<1>4. PICK new : new = [kind |-> q.kind, within |-> q.id, holds |-> q.holds,
                        name |-> q.name, isActive |-> TRUE, isDeleted |-> FALSE]
  OBVIOUS
<1>5. new \in C!Row
  BY <1>3, <1>4 DEF C!Row
<1>6. /\ new.kind = q.kind /\ new.within = q.id /\ new.holds = q.holds
      /\ new.name = q.name /\ new.isDeleted = FALSE
  BY <1>4
<1>7. PICK i \in C!Ids :
        /\ C!Existing = 1..(i - 1)
        /\ entries' = [entries EXCEPT ![i] = new]
        /\ strays' = IF entries[q.id].isDeleted THEN strays \cup {i} ELSE strays
  BY <1>2, <1>4 DEF C!CreateCommit, C!Insert
<1>8. orderly' => orderly
  BY <1>1 DEF C!Finish
<1>9. CatalogRows
  BY DEF CatalogInv
<1>10. /\ new.kind \in Filed /\ new.within \in C!Of("category") /\ new.name \in Names
       /\ new.holds \subseteq C!Of("service") \cup C!Of("category")
  BY <1>2, <1>3, <1>6 DEF EntryKnown
<1>11. orderly' => strays' = strays /\ C!NameUnlike(new.kind, new.name)
  BY <1>2, <1>3, <1>6, <1>7, <1>8 DEF EntryChecked
<1>12. strays' \subseteq strays \cup {i}
  BY <1>7
<1>13. CatalogRows' /\ \A k \in C!Kinds : C!Of(k) \subseteq C!Of(k)'
  BY <1>1, <1>5, <1>6, <1>7, <1>8, <1>9, <1>10, <1>11, <1>12, EntryAdded
<1>14. CatalogRequests'
  BY <1>1, <1>13, EntryRequestEnds
<1> QED
  BY <1>13, <1>14 DEF CatalogInv

\* The fields of a body are written.
LEMMA CatalogWritten ==
  ASSUME CatalogInv, NEW r \in Requests, C!WriteGiven(r)
  PROVE  CatalogInv'
<1>1. PICK q : q = req[r]
  OBVIOUS
<1>2. /\ req[r] # Idle /\ q.op \in {"update", "remove"} /\ C!Finish(r)
      /\ UNCHANGED strays
      /\ renamed' = IF q.name = Absent THEN renamed ELSE renamed \cup {q.id}
      /\ removed' = IF q.op = "remove" THEN removed \cup {q.id} ELSE removed
      /\ entries' = [entries EXCEPT ![q.id] = C!Written(@, q)]
  BY <1>1 DEF C!WriteGiven, C!At, C!Idle, Idle
<1>3. q \in C!InFlight /\ EntryKnown(q) /\ q.name \in Names \cup {Absent}
  BY <1>1, <1>2, EntryRequest
<1>4. CatalogRows
  BY DEF CatalogInv
<1>5. PICK i \in C!Existing : i = q.id /\ entries[i].kind # "offer"
  BY <1>2, <1>3 DEF EntryKnown, C!Of
<1>6. PICK row \in C!Row : row = entries[i]
  BY <1>4 DEF CatalogRows, C!Existing
<1>7. PICK new : new = C!Written(row, q)
  OBVIOUS
<1>8. /\ new \in C!Row /\ new.kind = row.kind /\ new.within = row.within
      /\ new.holds = row.holds
      /\ new.name = C!Given(q.name, row.name)
      /\ new.isDeleted = C!Given(q.isDeleted, row.isDeleted)
  BY <1>3, <1>7, RowWritten
<1>9. entries' = [entries EXCEPT ![i] = new]
  BY <1>2, <1>5, <1>6, <1>7
<1>10. /\ q.op = "remove" => new.isDeleted = TRUE
       /\ q.op # "remove" => new.isDeleted = row.isDeleted
  BY <1>2, <1>3, <1>8, CatalogAssumption DEF C!Given, EntryKnown
<1>11. /\ q.name = Absent => new.name = row.name
       /\ row.name \in Names => new.name \in Names
  BY <1>3, <1>8 DEF C!Given
<1>12. orderly' => orderly
  BY <1>2 DEF C!Finish
<1>13. /\ renamed \subseteq renamed' /\ renamed' \subseteq renamed \cup {i}
       /\ i \notin renamed' => new.name = row.name
       /\ removed' \subseteq removed \cup {i}
  BY <1>2, <1>5, <1>11
<1>14. i \in removed' => IF new.kind = "offer" THEN new.isActive = FALSE
                                               ELSE new.isDeleted = TRUE
  BY <1>2, <1>4, <1>5, <1>6, <1>8, <1>10 DEF CatalogRows
<1>15. row.isDeleted = TRUE => new.isDeleted = TRUE
  BY <1>10
<1>16. CatalogRows' /\ \A k \in C!Kinds : C!Of(k) \subseteq C!Of(k)'
  BY <1>2, <1>4, <1>6, <1>8, <1>9, <1>11, <1>12, <1>13, <1>14, <1>15, EntryChanged
<1>17. CatalogRequests'
  BY <1>2, <1>16, EntryRequestEnds
<1> QED
  BY <1>16, <1>17 DEF CatalogInv

LEMMA CatalogNext == CatalogInv /\ [C!Next]_(C!vars) => CatalogInv'
<1> SUFFICES ASSUME CatalogInv, [C!Next]_(C!vars) PROVE CatalogInv'
  OBVIOUS
<1>1. CASE UNCHANGED C!vars
  <2>1. UNCHANGED C!rowVars /\ req' = req /\ orderly' = orderly
    BY <1>1 DEF C!vars, C!rowVars
  <2>2. /\ CatalogRows'
        /\ \A k \in C!Kinds : C!Of(k)' = C!Of(k)
        /\ \A k \in C!Kinds : C!Live(k)' = C!Live(k)
    BY <2>1, EntriesSame DEF CatalogInv
  <2>3. CatalogRequests'
    BY <1>1 DEF C!vars, CatalogInv, CatalogRequests, EntryKnown, EntryChecked, SingleFlight,
                C!NameUnlike, C!Live, C!Of, C!Existing
  <2> QED
    BY <2>2, <2>3 DEF CatalogInv
<1> SUFFICES ASSUME NEW r \in Requests, C!Call(r) \/ C!Step(r) \/ C!Fail(r)
             PROVE  CatalogInv'
  BY <1>1 DEF C!Next
<1>2. CASE C!Fail(r)
  <2>1. C!Abandon(r) /\ UNCHANGED C!rowVars /\ req[r] # Idle /\ (orderly' => orderly)
    BY <1>2 DEF C!Fail, C!Abandon, C!Idle, Idle
  <2>2. CatalogRows' /\ \A k \in C!Kinds : C!Of(k) \subseteq C!Of(k)'
    BY <2>1, EntriesSame DEF CatalogInv
  <2> QED
    BY <2>1, <2>2, EntryRequestEnds DEF CatalogInv
<1>3. CASE C!RaiseTicketCommit(r)
  <2>1. /\ req[r] # Idle /\ req[r].op = "raiseTicket" /\ C!Finish(r)
        /\ UNCHANGED <<entries, renamed, removed>>
        /\ strays' = IF entries[req[r].id].isActive THEN strays ELSE strays \cup {req[r].id}
    BY <1>3 DEF C!RaiseTicketCommit, C!At, C!Idle, Idle
  <2>2. /\ req[r].id \in C!Existing
        /\ orderly => entries[req[r].id].isActive
    BY <2>1, EntryRequest DEF EntryKnown, EntryChecked, C!Of
  <2>3. C!Existing' = C!Existing
    BY <2>1 DEF C!Existing
  <2>4. \A k : C!Of(k)' = C!Of(k)
    BY <2>1, <2>3 DEF C!Of
  <2>5. EntriesUnlike' = EntriesUnlike
    BY <2>1, <2>4 DEF EntriesUnlike, C!Live
  <2>6. CatalogRequests' /\ (orderly' => orderly)
    BY <2>1, <2>4, EntryRequestEnds
  <2>7. CatalogRows'
    BY <2>1, <2>2, <2>3, <2>4, <2>5, <2>6 DEF CatalogInv, CatalogRows
  <2> QED
    BY <2>6, <2>7 DEF CatalogInv
<1> QED
  BY <1>2, <1>3, CatalogCalled, CatalogReadName, CatalogCreate, CatalogWritten DEF C!Step

LEMMA CatalogInit == C!Init => CatalogInv
<1> SUFFICES ASSUME C!Init PROVE CatalogInv
  OBVIOUS
<1>1. /\ req = [r \in Requests |-> Idle] /\ orderly = TRUE
      /\ entries = [i \in C!Ids |-> Absent]
      /\ strays = {} /\ renamed = {} /\ removed = {}
  BY DEF C!Init, C!NoRequests, C!Idle, Idle
<1>2. C!Existing = {}
  BY <1>1 DEF C!Existing
<1> QED
  BY <1>1, <1>2 DEF CatalogInv, CatalogRequests, CatalogRows, EntriesUnlike, SingleFlight,
                    C!Live, C!Of

LEMMA CatalogInvSound == CatalogInv => C!CatalogSound /\ C!TypeOK
<1> SUFFICES ASSUME CatalogInv PROVE C!CatalogSound /\ C!TypeOK
  OBVIOUS
<1>1. C!TypeOK
  BY DEF CatalogInv, CatalogRequests, CatalogRows, C!TypeOK, C!Idle, Idle
<1>2. ASSUME NEW i \in removed
      PROVE  /\ i \notin C!Live("package") /\ i \notin C!Live("service")
             /\ i \notin C!Live("category") /\ i \notin C!FindActiveForMobile
  BY DEF CatalogInv, CatalogRows, C!Live, C!Of, C!FindActiveForMobile, C!IsActive
<1>3. C!Listed \subseteq
        C!Live("package") \cup C!Live("service") \cup C!Live("category") \cup
          C!FindActiveForMobile
  <2>1. C!FindPackages \subseteq C!Live("package")
    BY DEF C!FindPackages
  <2>2. C!FindPreview \subseteq C!Live("service") /\ C!FindServices \subseteq C!Live("service")
    BY DEF C!FindPreview, C!FindServices
  <2>3. \A c : C!FindByCategory(c) \subseteq C!Live("service")
    BY DEF C!FindByCategory
  <2>4. /\ DOMAIN C!GetCategoriesWithPackages = C!FindWithPackages
        /\ \A c \in C!FindWithPackages :
             C!GetCategoriesWithPackages[c] \subseteq C!FindPackages
    BY DEF C!GetCategoriesWithPackages
  <2>5. C!FindWithPackages \subseteq C!Live("category")
    BY DEF C!FindWithPackages
  <2>6. ASSUME NEW x \in C!Listed
        PROVE  \/ x \in C!FindPackages \/ x \in C!FindPreview
               \/ x \in C!FindActiveForMobile \/ x \in C!FindServices
               \/ \E c \in C!Of("category") : x \in C!FindByCategory(c)
               \/ x \in DOMAIN C!GetCategoriesWithPackages
               \/ \E c \in C!FindWithPackages : x \in C!GetCategoriesWithPackages[c]
    BY Zenon DEF C!Listed
  <2> QED
    BY <2>1, <2>2, <2>3, <2>4, <2>5, <2>6
<1>4. ASSUME NEW s \in C!FindServices PROVE entries[s].within \notin removed
  <2>1. /\ entries[s].within \in C!Of("category")
        /\ ~entries[entries[s].within].isDeleted
    BY DEF C!FindServices, C!Live, C!Of, CatalogInv, CatalogRows, Filed
  <2> QED
    BY <1>2, <2>1 DEF C!Live
<1>5. removed \cap C!Included \subseteq C!Of("service") \cup C!Of("category")
  <2>1. ASSUME NEW x \in C!Included
        PROVE  \/ \E i \in C!FindPreview \cup C!FindPackages : x = entries[i].within
               \/ \E i \in C!FindPackages \cup C!FindActiveForMobile : x \in entries[i].holds
    BY <2>1, Zenon DEF C!Included
  <2>2. \A i \in C!FindPreview \cup C!FindPackages : entries[i].within \in C!Of("category")
    BY DEF C!FindPreview, C!FindPackages, C!Live, C!Of, CatalogInv, CatalogRows, Filed
  <2>3. \A i \in C!FindPackages \cup C!FindActiveForMobile :
          entries[i].holds \subseteq C!Of("service") \cup C!Of("category")
    <3>1. C!FindPackages \cup C!FindActiveForMobile \subseteq C!Existing
      BY DEF C!FindPackages, C!FindActiveForMobile, C!Live, C!Of
    <3> QED
      BY <3>1 DEF CatalogInv, CatalogRows
  <2> QED
    BY <2>1, <2>2, <2>3
<1>6. orderly =>
        /\ strays = {}
        /\ \A kind \in {"service", "package"} : \A i, k \in C!Live(kind) \ renamed :
             i # k => entries[i].name \notin SameName[entries[k].name]
  BY DEF CatalogInv, CatalogRows, EntriesUnlike, Filed
<1> QED
  BY <1>1, <1>2, <1>3, <1>4, <1>5, <1>6 DEF C!CatalogSound
-----------------------------------------------------------------------------
(* Attendance *)

\* The check-ins of a technician on a day that have yet to write the shift.
CheckingIn(q, e, day) ==
  q # Idle /\ q.op = "checkIn" /\ "shift" \in q.todo /\ q.tech = e /\ q.day = day

PendingShifts(e, day) == {r \in Requests : CheckingIn(req[r], e, day)}

\* What a request has read and said, and nobody else has changed while it is
\* alone.
WorkdayChecked(q) ==
  /\ q.place = reported[q.tech]
  /\ q.op = "checkIn" /\ "shift" \in q.todo => A!ShiftsOf(q.tech, q.day) = {}

WorkdayTyped ==
  /\ today \in A!Days
  /\ shifts \subseteq A!Shift
  /\ \A s, x \in shifts : s.id = x.id => s = x
  /\ place \in [Technicians -> Places \cup {Nowhere}]
  /\ routeEnd \in [Technicians -> Places \cup {Nowhere}]
  /\ reported \in [Technicians -> Places \cup {Nowhere}]
  /\ req \in [Requests -> A!InFlight \cup {Idle}]
  /\ orderly \in BOOLEAN

\* Shifts are numbered as they are written.
ShiftsNumbered ==
  /\ IsFiniteSet(shifts)
  /\ \A s \in shifts : s.id <= Cardinality(shifts)

\* Nobody begins a check-in on a day with a shift, so that the shifts of a day
\* and the check-ins of the day that are in flight are no more than requests.
ShiftsCounted ==
  \A e \in Technicians, day \in A!Days :
    Cardinality(A!ShiftsOf(e, day)) + Cardinality(PendingShifts(e, day))
      <= Cardinality(Requests)

OneShiftADay == \A s, x \in shifts : s.tech = x.tech /\ s.date = x.date => s = x

\* Who has a route, or is about to add to it, has said where he is.
RoutesReported ==
  /\ \A r \in Requests : req[r] # Idle => reported[req[r].tech] # Nowhere
  /\ \A e \in Technicians : routeEnd[e] # Nowhere => reported[e] # Nowhere

\* The place shown is the one reported, or a request is about to write it.
PlacePending(e) ==
  \E r \in Requests : req[r] # Idle /\ req[r].tech = e /\ "place" \in req[r].todo

WorkdayOrderly ==
  orderly =>
    /\ OneShiftADay
    /\ \A r \in Requests : req[r] # Idle => WorkdayChecked(req[r])
    /\ \A e \in Technicians : place[e] = reported[e] \/ PlacePending(e)

AttendanceInv ==
  /\ WorkdayTyped
  /\ SingleFlight
  /\ ShiftsNumbered
  /\ ShiftsCounted
  /\ RoutesReported
  /\ WorkdayOrderly

\* The fields of a request in flight.
LEMMA WorkdayRequest ==
  ASSUME WorkdayTyped, NEW r \in Requests, req[r] # Idle
  PROVE  /\ req[r] \in A!InFlight
         /\ req[r].tech \in Technicians /\ req[r].place \in Places
         /\ req[r].day \in A!Days
BY DEF WorkdayTyped, A!InFlight

\* A day's shifts and its check-ins in flight are finitely many.
LEMMA WorkdayCounts ==
  ASSUME IsFiniteSet(shifts), NEW e, NEW day
  PROVE  /\ IsFiniteSet(A!ShiftsOf(e, day)) /\ Cardinality(A!ShiftsOf(e, day)) \in Nat
         /\ IsFiniteSet(PendingShifts(e, day))
         /\ Cardinality(PendingShifts(e, day)) \in Nat
         /\ Cardinality(Requests) \in Nat
         /\ Cardinality(PendingShifts(e, day)) <= Cardinality(Requests)
<1>1. A!ShiftsOf(e, day) \in SUBSET shifts
  BY DEF A!ShiftsOf
<1>2. PendingShifts(e, day) \in SUBSET Requests
  BY DEF PendingShifts
<1>3. IsFiniteSet(A!ShiftsOf(e, day)) /\ Cardinality(A!ShiftsOf(e, day)) \in Nat
  BY <1>1, PartCount
<1>4. /\ IsFiniteSet(PendingShifts(e, day))
      /\ Cardinality(PendingShifts(e, day)) \in Nat
      /\ Cardinality(Requests) \in Nat
      /\ Cardinality(PendingShifts(e, day)) <= Cardinality(Requests)
  BY <1>2, PartCount, RequestsAssumption
<1> QED
  BY <1>3, <1>4

\* What is left of a request when one of its writes is done, or has failed.
LEMMA WriteDone ==
  ASSUME WorkdayTyped, NEW r \in Requests, req[r] # Idle, NEW w \in req[r].todo,
         req' = [req EXCEPT ![r] = A!Without(@, w)]
  PROVE  /\ req' \in [Requests -> A!InFlight \cup {Idle}]
         /\ \A s \in Requests \ {r} : req'[s] = req[s]
         /\ req'[r] # Idle =>
              /\ req'[r].op = req[r].op /\ req'[r].tech = req[r].tech
              /\ req'[r].place = req[r].place /\ req'[r].day = req[r].day
              /\ req'[r].todo = req[r].todo \ {w}
         /\ req[r].todo # {w} => req'[r] # Idle
<1>1. req[r] \in A!InFlight /\ req \in [Requests -> A!InFlight \cup {Idle}]
  BY WorkdayRequest DEF WorkdayTyped
<1>2. PICK q \in A!InFlight : q = req[r]
  BY <1>1
<1>3. PICK p : p = [q EXCEPT !.todo = q.todo \ {w}]
  OBVIOUS
<1>4. /\ p \in A!InFlight /\ p.op = q.op /\ p.tech = q.tech /\ p.place = q.place
      /\ p.day = q.day /\ p.todo = q.todo \ {w}
  BY <1>3 DEF A!InFlight
<1>5. p # Idle
  BY <1>4 DEF A!InFlight, Idle
<1>6. A!Without(q, w) = IF q.todo = {w} THEN Idle ELSE p
  BY <1>3 DEF A!Without, A!Idle, Idle
<1>7. req' = [req EXCEPT ![r] = IF q.todo = {w} THEN Idle ELSE p]
  BY <1>2, <1>6
<1> HIDE DEF Idle
<1>8. CASE q.todo = {w}
  <2>1. req' = [req EXCEPT ![r] = Idle]
    BY <1>7, <1>8
  <2> QED
    BY <1>1, <1>2, <1>8, <2>1
<1>9. CASE q.todo # {w}
  <2>1. req' = [req EXCEPT ![r] = p]
    BY <1>7, <1>9
  <2> QED
    BY <1>1, <1>2, <1>4, <1>5, <1>9, <2>1
<1> QED
  BY <1>8, <1>9

\* How the requests in flight follow a write, whatever was written.
LEMMA WriteKeepsRequests ==
  ASSUME AttendanceInv, NEW r \in Requests, req[r] # Idle, NEW w \in req[r].todo,
         req' = [req EXCEPT ![r] = A!Without(@, w)], orderly' => orderly
  PROVE  /\ SingleFlight'
         /\ \A s \in Requests : req'[s] # Idle =>
              /\ req[s] # Idle /\ req'[s].op = req[s].op /\ req'[s].tech = req[s].tech
              /\ req'[s].place = req[s].place /\ req'[s].day = req[s].day
              /\ req'[s].todo = IF s = r THEN req[s].todo \ {w} ELSE req[s].todo
         /\ \A e, day : PendingShifts(e, day)' =
              IF w = "shift" THEN PendingShifts(e, day) \ {r} ELSE PendingShifts(e, day)
         /\ \A e : PlacePending(e) =>
              PlacePending(e)' \/ (w = "place" /\ e = req[r].tech)
<1>1. /\ req' \in [Requests -> A!InFlight \cup {Idle}]
      /\ \A s \in Requests \ {r} : req'[s] = req[s]
      /\ req'[r] # Idle =>
           /\ req'[r].op = req[r].op /\ req'[r].tech = req[r].tech
           /\ req'[r].place = req[r].place /\ req'[r].day = req[r].day
           /\ req'[r].todo = req[r].todo \ {w}
      /\ req[r].todo # {w} => req'[r] # Idle
  BY WriteDone DEF AttendanceInv
<1>2. Idle' = Idle
  BY DEF Idle
<1> HIDE DEF Idle
<1>3. \A s \in Requests : req'[s] # Idle =>
        /\ req[s] # Idle /\ req'[s].op = req[s].op /\ req'[s].tech = req[s].tech
        /\ req'[s].place = req[s].place /\ req'[s].day = req[s].day
        /\ req'[s].todo = IF s = r THEN req[s].todo \ {w} ELSE req[s].todo
  BY <1>1
<1>4. SingleFlight'
  BY <1>2, <1>3 DEF AttendanceInv, SingleFlight
<1>5. ASSUME NEW e, NEW day, NEW s \in Requests
      PROVE  CheckingIn(req'[s], e, day) <=>
               CheckingIn(req[s], e, day) /\ ~(w = "shift" /\ s = r)
  <2>1. CASE s # r
    BY <1>1, <2>1
  <2>2. CASE s = r /\ w = "shift"
    BY <1>1, <2>2 DEF CheckingIn
  <2>3. CASE s = r /\ w # "shift"
    <3>1. "shift" \in req[r].todo => req[r].todo # {w}
      BY <2>3
    <3> QED
      BY <1>1, <2>3, <3>1 DEF CheckingIn
  <2> QED
    BY <2>1, <2>2, <2>3
<1>6. ASSUME NEW e, NEW day
      PROVE  PendingShifts(e, day)' =
               IF w = "shift" THEN PendingShifts(e, day) \ {r} ELSE PendingShifts(e, day)
  BY <1>2, <1>5 DEF PendingShifts, CheckingIn
<1>7. ASSUME NEW e, PlacePending(e), ~(w = "place" /\ e = req[r].tech)
      PROVE  PlacePending(e)'
  <2>1. PICK s \in Requests : req[s] # Idle /\ req[s].tech = e /\ "place" \in req[s].todo
    BY <1>7 DEF PlacePending
  <2>2. req'[s] # Idle /\ req'[s].tech = e /\ "place" \in req'[s].todo
    <3>1. CASE s # r
      BY <1>1, <2>1, <3>1
    <3>2. CASE s = r
      <4>1. w # "place" /\ req[r].todo # {w}
        BY <1>7, <2>1, <3>2
      <4> QED
        BY <1>1, <2>1, <3>2, <4>1
    <3> QED
      BY <3>1, <3>2
  <2> QED
    BY <1>2, <2>2 DEF PlacePending
<1> QED
  BY <1>3, <1>4, <1>6, <1>7

\* A handler looks at the shifts of the day and begins.
LEMMA WorkdayStart ==
  ASSUME AttendanceInv, NEW r \in Requests,
         NEW op \in {"checkIn", "checkOut", "updateLocation"}, NEW e \in Technicians,
         NEW p \in Places, NEW id \in 0..MaxShifts, NEW todo \in SUBSET A!Writes,
         "place" \in todo,
         op = "checkIn" => A!ShiftsOf(e, today) = {},
         A!Start(r, op, e, p, id, todo)
  PROVE  AttendanceInv'
<1> DEFINE q == [op |-> op, step |-> "writes", tech |-> e, place |-> p, day |-> today,
                 shift |-> id, todo |-> todo]
<1>1. /\ req[r] = Idle
      /\ req' = [req EXCEPT ![r] = q]
      /\ orderly' = (orderly /\ Alone)
      /\ reported' = [reported EXCEPT ![e] = p]
      /\ UNCHANGED <<today, shifts, place, routeEnd>>
  BY DEF A!Start, A!Begin, A!Alone, A!Idle, Alone, Idle
<1>2. WorkdayTyped /\ SingleFlight
  BY DEF AttendanceInv
<1>3. /\ q \in A!InFlight /\ q # Idle
      /\ q.op = op /\ q.tech = e /\ q.place = p /\ q.day = today /\ q.todo = todo
  BY <1>2 DEF WorkdayTyped, A!InFlight, Idle
<1> HIDE DEF q
<1>4. Idle' = Idle
  BY DEF Idle
<1> HIDE DEF Idle
<1>5. /\ SingleFlight'
      /\ orderly' => \A s \in Requests : req'[s] # Idle => s = r
      /\ req'[r] = q
      /\ \A s \in Requests \ {r} : req'[s] = req[s]
  BY <1>1, <1>2, OthersIdle DEF WorkdayTyped
<1>6. /\ reported'[e] = p
      /\ \A x \in Technicians \ {e} : reported'[x] = reported[x]
      /\ p # Nowhere
  BY <1>1, <1>2, AttendanceAssumption DEF WorkdayTyped
<1>7. WorkdayTyped'
  BY <1>1, <1>2, <1>3, <1>4 DEF WorkdayTyped, A!InFlight, A!Days, A!Shift
<1>8. ShiftsNumbered'
  BY <1>1 DEF AttendanceInv, ShiftsNumbered
<1>9. \A x, day : A!ShiftsOf(x, day)' = A!ShiftsOf(x, day)
  BY <1>1 DEF A!ShiftsOf
<1>10. ShiftsCounted'
  <2>1. ASSUME NEW x \in Technicians, NEW day \in A!Days
        PROVE  Cardinality(A!ShiftsOf(x, day)) + Cardinality(PendingShifts(x, day)')
                 <= Cardinality(Requests)
    <3>1. CASE op = "checkIn" /\ x = e /\ day = today
      <4>1. Cardinality(A!ShiftsOf(x, day)) = 0
        BY <3>1, FS_EmptySet
      <4>2. PendingShifts(x, day)' \in SUBSET Requests
        BY DEF PendingShifts
      <4>3. /\ Cardinality(PendingShifts(x, day)') \in Nat
            /\ Cardinality(PendingShifts(x, day)') <= Cardinality(Requests)
        BY <4>2, PartCount, RequestsAssumption
      <4> QED
        BY <4>1, <4>3
    <3>2. CASE ~(op = "checkIn" /\ x = e /\ day = today)
      <4>1. ~CheckingIn(req'[r], x, day) /\ ~CheckingIn(req[r], x, day)
        BY <1>1, <1>3, <1>5, <3>2 DEF CheckingIn
      <4>2. \A s \in Requests : CheckingIn(req'[s], x, day) <=> CheckingIn(req[s], x, day)
        BY <1>5, <4>1
      <4>3. PendingShifts(x, day)' = PendingShifts(x, day)
        BY <1>4, <4>2 DEF PendingShifts, CheckingIn
      <4> QED
        BY <4>3 DEF AttendanceInv, ShiftsCounted
    <3> QED
      BY <3>1, <3>2
  <2> QED
    BY <1>9, <2>1 DEF ShiftsCounted, A!Days
<1>11. RoutesReported'
  <2>1. ASSUME NEW s \in Requests, req'[s] # Idle PROVE reported'[req'[s].tech] # Nowhere
    <3>1. CASE s = r
      BY <1>3, <1>5, <1>6, <3>1
    <3>2. CASE s # r
      <4>1. req'[s] = req[s] /\ req[s] # Idle /\ req[s].tech \in Technicians
        BY <1>2, <1>5, <2>1, <3>2, WorkdayRequest
      <4> QED
        BY <1>6, <4>1 DEF AttendanceInv, RoutesReported
    <3> QED
      BY <3>1, <3>2
  <2> QED
    BY <1>1, <1>4, <1>6, <2>1 DEF AttendanceInv, RoutesReported
<1>12. WorkdayOrderly'
  <2> SUFFICES ASSUME orderly'
               PROVE  /\ OneShiftADay'
                      /\ \A s \in Requests : req'[s] # Idle => WorkdayChecked(req[s])'
                      /\ \A x \in Technicians :
                           place'[x] = reported'[x] \/ PlacePending(x)'
    BY <1>4 DEF WorkdayOrderly
  <2>1. orderly /\ Alone
    BY <1>1
  <2>2. OneShiftADay'
    BY <1>1, <2>1 DEF AttendanceInv, WorkdayOrderly, OneShiftADay
  <2>3. WorkdayChecked(req[r])'
    BY <1>1, <1>3, <1>5, <1>6, <1>9 DEF WorkdayChecked
  <2>4. \A s \in Requests : req'[s] # Idle => WorkdayChecked(req[s])'
    BY <1>5, <2>3
  <2>5. PlacePending(e)'
    BY <1>3, <1>4, <1>5 DEF PlacePending
  <2>6. ASSUME NEW x \in Technicians, x # e PROVE place'[x] = reported'[x]
    <3>1. ~PlacePending(x)
      BY <2>1 DEF PlacePending, Alone
    <3> QED
      BY <1>1, <1>6, <2>1, <2>6, <3>1 DEF AttendanceInv, WorkdayOrderly
  <2> QED
    BY <2>2, <2>4, <2>5, <2>6
<1> QED
  BY <1>5, <1>7, <1>8, <1>10, <1>11, <1>12 DEF AttendanceInv

\* The write of a shift that checkIn creates.
LEMMA WorkdayCreated ==
  ASSUME AttendanceInv, NEW r \in Requests, A!CreateShift(r)
  PROVE  AttendanceInv'
<1>1. /\ req[r] # Idle /\ req[r].op = "checkIn" /\ "shift" \in req[r].todo
      /\ req' = [req EXCEPT ![r] = A!Without(@, "shift")]
      /\ orderly' = orderly
      /\ UNCHANGED <<today, place, routeEnd, reported>>
  BY DEF A!CreateShift, A!At, A!Wrote, A!Idle, Idle
<1>2. WorkdayTyped /\ ShiftsNumbered
  BY DEF AttendanceInv
<1>3. PICK e \in Technicians, day \in A!Days : e = req[r].tech /\ day = req[r].day
  BY <1>1, <1>2, WorkdayRequest
<1>4. PICK id : id = Cardinality(shifts) + 1 /\ id <= MaxShifts
  BY DEF A!CreateShift, A!Cardinality, Cardinality
<1>5. PICK new : new = [id |-> id, tech |-> e, date |-> day, checkOut |-> 0]
  OBVIOUS
<1>6. shifts' = shifts \cup {new}
  BY <1>3, <1>4, <1>5 DEF A!CreateShift, A!Cardinality, Cardinality
<1>7. Cardinality(shifts) \in Nat
  BY <1>2, FS_CardinalityType DEF ShiftsNumbered
<1>8. /\ new.id = id /\ new.tech = e /\ new.date = day
      /\ id \in 1..MaxShifts /\ new \in A!Shift
  <2>1. id \in 1..MaxShifts /\ 0 \in 0..MaxDays
    <3>1. id \in Int /\ 1 <= id /\ id <= MaxShifts
      BY <1>4, <1>7
    <3>2. A!Days # {} /\ MaxDays \in Nat
      BY AttendanceAssumption
    <3> QED
      BY <3>1, <3>2
  <2> QED
    BY <1>5, <2>1 DEF A!Shift
<1>9. \A s \in shifts : s.id \in Int /\ s.id < id /\ s # new
  BY <1>2, <1>4, <1>7, <1>8 DEF WorkdayTyped, ShiftsNumbered, A!Shift
<1>10. IsFiniteSet(shifts') /\ Cardinality(shifts') = id
  <2>1. new \notin shifts
    BY <1>9
  <2> QED
    BY <1>2, <1>4, <1>6, <2>1, FS_AddElement DEF ShiftsNumbered
<1>11. ShiftsNumbered'
  <2>1. \A s \in shifts' : s.id <= id
    BY <1>4, <1>6, <1>7, <1>8, <1>9
  <2> QED
    BY <1>10, <2>1 DEF ShiftsNumbered
<1>12. WorkdayTyped'
  <2>1. \A s, x \in shifts' : s.id = x.id => s = x
    BY <1>2, <1>6, <1>8, <1>9 DEF WorkdayTyped
  <2>2. req' \in [Requests -> A!InFlight \cup {Idle}] /\ Idle' = Idle
    BY <1>1, <1>2, WriteDone DEF Idle
  <2> HIDE DEF Idle
  <2> QED
    BY <1>1, <1>2, <1>6, <1>8, <2>1, <2>2 DEF WorkdayTyped, A!InFlight, A!Days, A!Shift
<1>13. /\ SingleFlight'
       /\ \A s \in Requests : req'[s] # Idle =>
            /\ req[s] # Idle /\ req'[s].op = req[s].op /\ req'[s].tech = req[s].tech
            /\ req'[s].place = req[s].place /\ req'[s].day = req[s].day
            /\ req'[s].todo = IF s = r THEN req[s].todo \ {"shift"} ELSE req[s].todo
       /\ \A x, d : PendingShifts(x, d)' = PendingShifts(x, d) \ {r}
       /\ \A x : PlacePending(x) => PlacePending(x)'
  <2>1. orderly' => orderly
    BY <1>1
  <2> HIDE DEF Idle
  <2>2. PICK w \in req[r].todo : w = "shift" /\ req' = [req EXCEPT ![r] = A!Without(@, w)]
    BY <1>1
  <2>3. /\ SingleFlight'
        /\ \A s \in Requests : req'[s] # Idle =>
            /\ req[s] # Idle /\ req'[s].op = req[s].op /\ req'[s].tech = req[s].tech
            /\ req'[s].place = req[s].place /\ req'[s].day = req[s].day
            /\ req'[s].todo = IF s = r THEN req[s].todo \ {w} ELSE req[s].todo
    BY <1>1, <2>1, <2>2, WriteKeepsRequests
  <2>4. \A x, d : PendingShifts(x, d)' =
           IF w = "shift" THEN PendingShifts(x, d) \ {r} ELSE PendingShifts(x, d)
    BY <1>1, <2>1, <2>2, WriteKeepsRequests
  <2>5. \A x : PlacePending(x) => PlacePending(x)' \/ (w = "place" /\ x = req[r].tech)
    BY <1>1, <2>1, <2>2, WriteKeepsRequests
  <2> QED
    BY <2>2, <2>3, <2>4, <2>5
<1>14. \A x, d : A!ShiftsOf(x, d)' =
         A!ShiftsOf(x, d) \cup IF x = e /\ d = day THEN {new} ELSE {}
  BY <1>6, <1>8 DEF A!ShiftsOf
<1>15. ShiftsCounted'
  <2>1. ASSUME NEW x \in Technicians, NEW d \in A!Days
        PROVE  Cardinality(A!ShiftsOf(x, d)') + Cardinality(PendingShifts(x, d)')
                 <= Cardinality(Requests)
    <3>1. /\ Cardinality(A!ShiftsOf(x, d)) + Cardinality(PendingShifts(x, d))
               <= Cardinality(Requests)
          /\ IsFiniteSet(A!ShiftsOf(x, d)) /\ Cardinality(A!ShiftsOf(x, d)) \in Nat
          /\ IsFiniteSet(PendingShifts(x, d))
          /\ Cardinality(PendingShifts(x, d)) \in Nat
          /\ Cardinality(Requests) \in Nat
      BY <1>2, WorkdayCounts DEF AttendanceInv, ShiftsCounted, ShiftsNumbered
    <3>2. CASE x = e /\ d = day
      <4>1. r \in PendingShifts(x, d)
        BY <1>1, <1>3, <3>2 DEF PendingShifts, CheckingIn
      <4>2. Cardinality(PendingShifts(x, d)') = Cardinality(PendingShifts(x, d)) - 1
        BY <1>13, <3>1, <4>1, FS_RemoveElement
      <4>3. new \notin A!ShiftsOf(x, d)
        BY <1>9 DEF A!ShiftsOf
      <4>4. Cardinality(A!ShiftsOf(x, d)') = Cardinality(A!ShiftsOf(x, d)) + 1
        BY <1>14, <3>1, <3>2, <4>3, FS_AddElement
      <4> QED
        BY <3>1, <4>2, <4>4
    <3>3. CASE ~(x = e /\ d = day)
      <4>1. r \notin PendingShifts(x, d)
        BY <1>3, <3>3 DEF PendingShifts, CheckingIn
      <4>2. /\ PendingShifts(x, d)' = PendingShifts(x, d)
            /\ A!ShiftsOf(x, d)' = A!ShiftsOf(x, d)
        BY <1>13, <1>14, <3>3, <4>1
      <4> QED
        BY <3>1, <4>2
    <3> QED
      BY <3>2, <3>3
  <2> QED
    BY <2>1 DEF ShiftsCounted, A!Days
<1>16. Idle' = Idle
  BY DEF Idle
<1> HIDE DEF Idle
<1>17. RoutesReported'
  BY <1>1, <1>13, <1>16 DEF AttendanceInv, RoutesReported
<1>18. WorkdayOrderly'
  <2> SUFFICES ASSUME orderly'
               PROVE  /\ OneShiftADay'
                      /\ \A s \in Requests : req'[s] # Idle => WorkdayChecked(req[s])'
                      /\ \A x \in Technicians :
                           place'[x] = reported'[x] \/ PlacePending(x)'
    BY <1>16 DEF WorkdayOrderly
  <2>1. orderly /\ OneShiftADay /\ WorkdayChecked(req[r])
    BY <1>1 DEF AttendanceInv, WorkdayOrderly
  <2>2. A!ShiftsOf(e, day) = {}
    BY <1>1, <1>3, <2>1 DEF WorkdayChecked
  <2>3. OneShiftADay'
    BY <1>6, <1>8, <2>1, <2>2 DEF OneShiftADay, A!ShiftsOf
  <2>4. ASSUME NEW s \in Requests, req'[s] # Idle PROVE WorkdayChecked(req[s])'
    <3>1. s = r
      BY <1>1, <1>13, <2>1, <2>4 DEF AttendanceInv, SingleFlight
    <3>2. "shift" \notin req'[s].todo
      BY <1>13, <2>4, <3>1
    <3> QED
      BY <1>1, <1>13, <2>1, <2>4, <3>1, <3>2 DEF WorkdayChecked
  <2>5. \A x \in Technicians : place'[x] = reported'[x] \/ PlacePending(x)'
    BY <1>1, <1>13, <2>1 DEF AttendanceInv, WorkdayOrderly
  <2> QED
    BY <2>3, <2>4, <2>5
<1> QED
  BY <1>11, <1>12, <1>13, <1>15, <1>17, <1>18 DEF AttendanceInv

\* A write, or one that fails, after which each day has as many shifts.
LEMMA WorkdayWrote ==
  ASSUME AttendanceInv, NEW r \in Requests, req[r] # Idle, NEW w \in req[r].todo,
         req' = [req EXCEPT ![r] = A!Without(@, w)],
         orderly' \in BOOLEAN, orderly' => orderly,
         UNCHANGED <<today, reported>>,
         shifts' \subseteq A!Shift, \A s, x \in shifts' : s.id = x.id => s = x,
         ShiftsNumbered',
         \A e, day : /\ Cardinality(A!ShiftsOf(e, day)') = Cardinality(A!ShiftsOf(e, day))
                     /\ A!ShiftsOf(e, day) = {} => A!ShiftsOf(e, day)' = {},
         OneShiftADay => OneShiftADay',
         place' \in [Technicians -> Places \cup {Nowhere}],
         routeEnd' \in [Technicians -> Places \cup {Nowhere}],
         \A e \in Technicians : routeEnd'[e] # Nowhere => reported[e] # Nowhere,
         orderly' => \A e \in Technicians :
           place[e] = reported[e] \/ (w = "place" /\ e = req[r].tech) =>
             place'[e] = reported[e]
  PROVE  AttendanceInv'
<1>1. WorkdayTyped
  BY DEF AttendanceInv
<1>2. WorkdayTyped'
  <2>1. req' \in [Requests -> A!InFlight \cup {Idle}] /\ Idle' = Idle
    BY <1>1, WriteDone DEF Idle
  <2> HIDE DEF Idle
  <2> QED
    BY <1>1, <2>1 DEF WorkdayTyped, A!InFlight, A!Days, A!Shift
<1>3. Idle' = Idle
  BY DEF Idle
<1> HIDE DEF Idle
<1>4. /\ SingleFlight'
      /\ \A s \in Requests : req'[s] # Idle =>
          /\ req[s] # Idle /\ req'[s].op = req[s].op /\ req'[s].tech = req[s].tech
          /\ req'[s].place = req[s].place /\ req'[s].day = req[s].day
          /\ req'[s].todo = IF s = r THEN req[s].todo \ {w} ELSE req[s].todo
  BY WriteKeepsRequests
<1>5. \A e, day : PendingShifts(e, day)' =
         IF w = "shift" THEN PendingShifts(e, day) \ {r} ELSE PendingShifts(e, day)
  BY WriteKeepsRequests
<1>6. \A e : PlacePending(e) => PlacePending(e)' \/ (w = "place" /\ e = req[r].tech)
  BY WriteKeepsRequests
<1>7. ShiftsCounted'
  <2>1. ASSUME NEW e \in Technicians, NEW day \in A!Days
        PROVE  Cardinality(A!ShiftsOf(e, day)') + Cardinality(PendingShifts(e, day)')
                 <= Cardinality(Requests)
    <3>1. /\ Cardinality(A!ShiftsOf(e, day)) + Cardinality(PendingShifts(e, day))
               <= Cardinality(Requests)
          /\ Cardinality(A!ShiftsOf(e, day)) \in Nat
          /\ IsFiniteSet(PendingShifts(e, day))
          /\ Cardinality(PendingShifts(e, day)) \in Nat
          /\ Cardinality(Requests) \in Nat
      BY WorkdayCounts DEF AttendanceInv, ShiftsCounted, ShiftsNumbered
    <3>2. PendingShifts(e, day)' \in SUBSET PendingShifts(e, day)
      BY <1>5
    <3>3. /\ Cardinality(PendingShifts(e, day)') \in Nat
          /\ Cardinality(PendingShifts(e, day)') <= Cardinality(PendingShifts(e, day))
      BY <3>1, <3>2, PartCount
    <3> QED
      BY <3>1, <3>3
  <2> QED
    BY <2>1 DEF ShiftsCounted, A!Days
<1>8. RoutesReported'
  BY <1>3, <1>4 DEF AttendanceInv, RoutesReported
<1>9. WorkdayOrderly'
  <2> SUFFICES ASSUME orderly'
               PROVE  /\ OneShiftADay'
                      /\ \A s \in Requests : req'[s] # Idle => WorkdayChecked(req[s])'
                      /\ \A e \in Technicians :
                           place'[e] = reported'[e] \/ PlacePending(e)'
    BY <1>3 DEF WorkdayOrderly
  <2>1. /\ OneShiftADay
        /\ \A s \in Requests : req[s] # Idle => WorkdayChecked(req[s])
        /\ \A e \in Technicians : place[e] = reported[e] \/ PlacePending(e)
    BY DEF AttendanceInv, WorkdayOrderly
  <2>2. ASSUME NEW s \in Requests, req'[s] # Idle PROVE WorkdayChecked(req[s])'
    <3>1. /\ req[s] # Idle
          /\ req'[s].op = req[s].op /\ req'[s].tech = req[s].tech
          /\ req'[s].place = req[s].place /\ req'[s].day = req[s].day
          /\ req'[s].todo \subseteq req[s].todo
      <4>1. /\ req[s] # Idle /\ req'[s].op = req[s].op /\ req'[s].tech = req[s].tech
            /\ req'[s].place = req[s].place /\ req'[s].day = req[s].day
            /\ req'[s].todo = IF s = r THEN req[s].todo \ {w} ELSE req[s].todo
        BY <1>4, <2>2, Zenon
      <4> QED
        BY <4>1
    <3>2. WorkdayChecked(req[s])
      BY <2>1, <3>1
    <3>3. A!ShiftsOf(req[s].tech, req[s].day) = {} => A!ShiftsOf(req[s].tech, req[s].day)' = {}
      <4>1. PICK e, day : /\ e = req[s].tech /\ day = req[s].day
                          /\ e = req'[s].tech /\ day = req'[s].day
        BY <3>1
      <4> QED
        BY <3>1, <4>1 DEF A!ShiftsOf
    <3> QED
      BY <3>1, <3>2, <3>3 DEF WorkdayChecked
  <2> QED
    BY <1>6, <2>1, <2>2
<1> QED
  BY <1>2, <1>4, <1>7, <1>8, <1>9 DEF AttendanceInv

\* checkOut changes a shift, and not whose it is or of which day.
LEMMA WorkdayClosed ==
  ASSUME AttendanceInv, NEW r \in Requests, A!CloseShift(r)
  PROVE  AttendanceInv'
<1>1. /\ req[r] # Idle /\ "shift" \in req[r].todo
      /\ req' = [req EXCEPT ![r] = A!Without(@, "shift")]
      /\ orderly' = orderly
      /\ UNCHANGED <<today, place, routeEnd, reported>>
  BY DEF A!CloseShift, A!At, A!Wrote, A!Idle, Idle
<1>2. WorkdayTyped /\ ShiftsNumbered
  BY DEF AttendanceInv
<1>3. PICK closed : closed = [s \in shifts |->
        IF s.id = req[r].shift THEN [s EXCEPT !.checkOut = today] ELSE s]
  OBVIOUS
<1>4. shifts' = {closed[s] : s \in shifts}
  <2>1. shifts' = {IF s.id = req[r].shift THEN [s EXCEPT !.checkOut = today] ELSE s :
                   s \in shifts}
    BY DEF A!CloseShift
  <2> QED
    BY <1>3, <2>1
<1>5. ASSUME NEW s \in shifts
      PROVE  /\ closed[s] \in A!Shift /\ closed[s].id = s.id
             /\ closed[s].tech = s.tech /\ closed[s].date = s.date
  <2>1. s \in A!Shift /\ today \in 0..MaxDays
    BY <1>2 DEF WorkdayTyped, A!Days
  <2>2. closed[s] = IF s.id = req[r].shift THEN [s EXCEPT !.checkOut = today] ELSE s
    BY <1>3
  <2> QED
    BY <2>1, <2>2 DEF A!Shift
<1>6. \A s, x \in shifts : closed[s].id = closed[x].id => s = x
  BY <1>2, <1>5 DEF WorkdayTyped
<1>7. closed \in [shifts -> shifts'] /\ \A t \in shifts' : \E s \in shifts : closed[s] = t
  BY <1>3, <1>4
<1>8. IsFiniteSet(shifts') /\ Cardinality(shifts') = Cardinality(shifts)
  BY <1>2, <1>6, <1>7, SameCount DEF ShiftsNumbered
<1>9. ShiftsNumbered'
  BY <1>2, <1>5, <1>7, <1>8 DEF ShiftsNumbered
<1>10. ASSUME NEW e, NEW day
       PROVE  /\ Cardinality(A!ShiftsOf(e, day)') = Cardinality(A!ShiftsOf(e, day))
              /\ A!ShiftsOf(e, day) = {} => A!ShiftsOf(e, day)' = {}
  <2>1. PICK f : f = [s \in A!ShiftsOf(e, day) |-> closed[s]]
    OBVIOUS
  <2>2. /\ f \in [A!ShiftsOf(e, day) -> A!ShiftsOf(e, day)']
        /\ \A s, x \in A!ShiftsOf(e, day) : f[s] = f[x] => s = x
        /\ \A t \in A!ShiftsOf(e, day)' : \E s \in A!ShiftsOf(e, day) : f[s] = t
    BY <1>5, <1>6, <1>7, <2>1 DEF A!ShiftsOf
  <2>3. IsFiniteSet(A!ShiftsOf(e, day))
    BY <1>2, WorkdayCounts DEF ShiftsNumbered
  <2>4. Cardinality(A!ShiftsOf(e, day)') = Cardinality(A!ShiftsOf(e, day))
    BY <2>2, <2>3, SameCount
  <2> QED
    BY <2>2, <2>4
<1>11. OneShiftADay => OneShiftADay'
  BY <1>5, <1>7 DEF OneShiftADay
<1>12. /\ shifts' \subseteq A!Shift
       /\ \A s, x \in shifts' : s.id = x.id => s = x
  BY <1>5, <1>6, <1>7
<1>13. PICK w \in req[r].todo : w = "shift" /\ req' = [req EXCEPT ![r] = A!Without(@, w)]
  BY <1>1
<1>14. /\ place' \in [Technicians -> Places \cup {Nowhere}]
       /\ routeEnd' \in [Technicians -> Places \cup {Nowhere}]
       /\ \A e \in Technicians : routeEnd'[e] # Nowhere => reported[e] # Nowhere
       /\ orderly' \in BOOLEAN
  BY <1>1, <1>2 DEF WorkdayTyped, AttendanceInv, RoutesReported
<1>15. orderly' => orderly /\ \A e \in Technicians :
         place[e] = reported[e] \/ (w = "place" /\ e = req[r].tech) => place'[e] = reported[e]
  BY <1>1, <1>13
<1> HIDE DEF Idle
<1> QED
  BY <1>1, <1>9, <1>10, <1>11, <1>12, <1>13, <1>14, <1>15, WorkdayWrote

\* A write that no shift is the subject of.
LEMMA WorkdayPlaced ==
  ASSUME AttendanceInv, NEW r \in Requests,
         A!WritePlace(r) \/ A!AddToRoute(r) \/ A!WriteFails(r)
  PROVE  AttendanceInv'
<1>1. WorkdayTyped /\ ShiftsNumbered
  BY DEF AttendanceInv
<1>2. /\ req[r] # Idle
      /\ UNCHANGED <<today, shifts, reported>>
      /\ \E w \in req[r].todo :
           /\ req' = [req EXCEPT ![r] = A!Without(@, w)]
           /\ \/ /\ w = "place" /\ place' = [place EXCEPT ![req[r].tech] = req[r].place]
                 /\ UNCHANGED routeEnd /\ orderly' = orderly
              \/ /\ w = "route" /\ routeEnd' = [routeEnd EXCEPT ![req[r].tech] = req[r].place]
                 /\ UNCHANGED place /\ orderly' = orderly
              \/ UNCHANGED <<place, routeEnd>> /\ orderly' = FALSE
  <2>1. CASE A!WritePlace(r)
    BY <2>1 DEF A!WritePlace, A!Wrote, A!Idle, Idle
  <2>2. CASE A!AddToRoute(r)
    BY <2>2 DEF A!AddToRoute, A!At, A!Wrote, A!Idle, Idle
  <2>3. CASE A!WriteFails(r)
    BY <2>3 DEF A!WriteFails, A!Idle, Idle
  <2> QED
    BY <2>1, <2>2, <2>3
<1>3. PICK w \in req[r].todo :
        /\ req' = [req EXCEPT ![r] = A!Without(@, w)]
        /\ \/ /\ w = "place" /\ place' = [place EXCEPT ![req[r].tech] = req[r].place]
              /\ UNCHANGED routeEnd /\ orderly' = orderly
           \/ /\ w = "route" /\ routeEnd' = [routeEnd EXCEPT ![req[r].tech] = req[r].place]
              /\ UNCHANGED place /\ orderly' = orderly
           \/ UNCHANGED <<place, routeEnd>> /\ orderly' = FALSE
  BY <1>2
<1>4. req[r].tech \in Technicians /\ req[r].place \in Places
  BY <1>1, <1>2, WorkdayRequest
<1>5. orderly' \in BOOLEAN /\ (orderly' => orderly)
  <2>1. orderly \in BOOLEAN
    BY <1>1 DEF WorkdayTyped
  <2>2. CASE orderly' = orderly
    BY <2>1, <2>2
  <2>3. CASE orderly' = FALSE
    BY <2>3
  <2> QED
    BY <1>3, <2>2, <2>3
<1>6. /\ place' \in [Technicians -> Places \cup {Nowhere}]
      /\ routeEnd' \in [Technicians -> Places \cup {Nowhere}]
  BY <1>1, <1>3, <1>4 DEF WorkdayTyped
<1>7. \A e \in Technicians : routeEnd'[e] # Nowhere => reported[e] # Nowhere
  <2>1. reported[req[r].tech] # Nowhere
    BY <1>2 DEF AttendanceInv, RoutesReported
  <2> QED
    BY <1>1, <1>3, <1>4, <2>1 DEF AttendanceInv, RoutesReported, WorkdayTyped
<1>8. ASSUME orderly', NEW e \in Technicians,
             place[e] = reported[e] \/ (w = "place" /\ e = req[r].tech)
      PROVE  place'[e] = reported[e]
  <2>1. reported[req[r].tech] = req[r].place
    BY <1>2, <1>5, <1>8 DEF AttendanceInv, WorkdayOrderly, WorkdayChecked
  <2>2. CASE w = "place" /\ place' = [place EXCEPT ![req[r].tech] = req[r].place]
    BY <1>1, <1>4, <1>8, <2>1, <2>2 DEF WorkdayTyped
  <2>3. CASE w # "place" /\ UNCHANGED place
    BY <1>8, <2>3
  <2> QED
    BY <1>3, <1>8, <2>2, <2>3
<1>9. \A e, day : A!ShiftsOf(e, day)' = A!ShiftsOf(e, day)
  BY <1>2 DEF A!ShiftsOf
<1>10. /\ shifts' \subseteq A!Shift
       /\ \A s, x \in shifts' : s.id = x.id => s = x
       /\ ShiftsNumbered'
       /\ OneShiftADay => OneShiftADay'
  BY <1>1, <1>2 DEF WorkdayTyped, ShiftsNumbered, OneShiftADay
<1> HIDE DEF Idle
<1> QED
  BY <1>2, <1>3, <1>5, <1>6, <1>7, <1>8, <1>9, <1>10, WorkdayWrote

LEMMA WorkdayCalled ==
  ASSUME AttendanceInv, NEW r \in Requests, A!Call(r)
  PROVE  AttendanceInv'
<1>1. PICK e \in Technicians, p \in Places :
        A!CheckIn(r, e, p) \/ A!CheckOut(r, e, p) \/ A!UpdateLocation(r, e, p)
  BY DEF A!Call
<1>2. {"shift", "place"} \in SUBSET A!Writes /\ {"place", "route"} \in SUBSET A!Writes
  BY DEF A!Writes
<1>3. shifts \subseteq A!Shift
  BY DEF AttendanceInv, WorkdayTyped
<1>4. PICK op \in {"checkIn", "checkOut", "updateLocation"}, id \in 0..MaxShifts,
           todo \in SUBSET A!Writes :
        /\ "place" \in todo
        /\ op = "checkIn" => A!ShiftsOf(e, today) = {}
        /\ A!Start(r, op, e, p, id, todo)
  <2>1. CASE A!CheckOut(r, e, p)
    <3>1. PICK s \in A!ShiftsOf(e, today) :
            A!Start(r, "checkOut", e, p, s.id, {"shift", "place"})
      BY <2>1 DEF A!CheckOut
    <3>2. s.id \in 0..MaxShifts
      BY <1>3 DEF A!ShiftsOf, A!Shift
    <3> QED
      BY <1>2, <3>1, <3>2
  <2>2. CASE A!CheckIn(r, e, p) \/ A!UpdateLocation(r, e, p)
    <3>1. 0 \in 0..MaxShifts
      BY AttendanceAssumption
    <3> QED
      BY <1>2, <2>2, <3>1 DEF A!CheckIn, A!UpdateLocation
  <2> QED
    BY <1>1, <2>1, <2>2
<1> QED
  BY <1>4, WorkdayStart

LEMMA AttendanceNext == AttendanceInv /\ [A!Next]_(A!vars) => AttendanceInv'
<1> SUFFICES ASSUME AttendanceInv, [A!Next]_(A!vars) PROVE AttendanceInv'
  OBVIOUS
<1>1. ASSUME NEW r \in Requests, A!Call(r) PROVE AttendanceInv'
  BY <1>1, WorkdayCalled
<1>2. ASSUME NEW r \in Requests, A!Step(r) \/ A!WriteFails(r) PROVE AttendanceInv'
  BY <1>2, WorkdayCreated, WorkdayClosed, WorkdayPlaced DEF A!Step
<1>3. CASE A!Midnight \/ UNCHANGED A!vars
  <2>1. UNCHANGED <<shifts, place, routeEnd, reported, req, orderly>>
    BY <1>3 DEF A!Midnight, A!vars
  <2>2. today \in A!Days
    BY DEF AttendanceInv, WorkdayTyped
  <2>3. today' \in A!Days
    <3>1. CASE A!Midnight
      BY <2>2, <3>1, AttendanceAssumption DEF A!Midnight, A!Days
    <3>2. CASE UNCHANGED A!vars
      BY <2>2, <3>2 DEF A!vars
    <3> QED
      BY <1>3, <3>1, <3>2
  <2>4. Idle' = Idle
    BY DEF Idle
  <2> HIDE DEF Idle
  <2>5. WorkdayTyped'
    BY <2>1, <2>3, <2>4 DEF AttendanceInv, WorkdayTyped, A!Days, A!Shift, A!InFlight
  <2>6. \A e, day : A!ShiftsOf(e, day)' = A!ShiftsOf(e, day)
    BY <2>1 DEF A!ShiftsOf
  <2>7. \A e, day : PendingShifts(e, day)' = PendingShifts(e, day)
    BY <2>1, <2>4 DEF PendingShifts, CheckingIn
  <2>8. ShiftsCounted' /\ ShiftsNumbered' /\ SingleFlight' /\ RoutesReported'
    BY <2>1, <2>4, <2>6, <2>7
       DEF AttendanceInv, ShiftsCounted, ShiftsNumbered, SingleFlight, RoutesReported, A!Days
  <2>9. ASSUME orderly' PROVE \A r \in Requests : req'[r] # Idle => WorkdayChecked(req[r])'
    <3>1. ASSUME NEW r \in Requests, req'[r] # Idle PROVE WorkdayChecked(req[r])'
      <4>1. WorkdayChecked(req[r])
        BY <2>1, <2>9, <3>1 DEF AttendanceInv, WorkdayOrderly
      <4> QED
        BY <2>1, <4>1 DEF WorkdayChecked, A!ShiftsOf
    <3> QED
      BY <3>1
  <2>10. WorkdayOrderly'
    BY <2>1, <2>4, <2>9 DEF AttendanceInv, WorkdayOrderly, OneShiftADay, PlacePending
  <2> QED
    BY <2>5, <2>8, <2>10 DEF AttendanceInv
<1> QED
  BY <1>1, <1>2, <1>3 DEF A!Next

LEMMA AttendanceInit == A!Init => AttendanceInv
<1> SUFFICES ASSUME A!Init PROVE AttendanceInv
  OBVIOUS
<1>1. /\ req = [r \in Requests |-> Idle] /\ orderly = TRUE
      /\ today = 1 /\ shifts = {}
      /\ place = [e \in Technicians |-> Nowhere]
      /\ routeEnd = [e \in Technicians |-> Nowhere]
      /\ reported = [e \in Technicians |-> Nowhere]
  BY DEF A!Init, A!NoRequests, A!Idle, Idle
<1>2. \A r \in Requests : req[r] = Idle
  BY <1>1
<1> HIDE DEF Idle
<1>3. 1 \in A!Days
  BY AttendanceAssumption DEF A!Days
<1>4. WorkdayTyped /\ SingleFlight /\ RoutesReported /\ WorkdayOrderly
  BY <1>1, <1>2, <1>3
     DEF WorkdayTyped, SingleFlight, RoutesReported, WorkdayOrderly, OneShiftADay
<1>5. ShiftsNumbered
  BY <1>1, FS_EmptySet DEF ShiftsNumbered
<1>6. ShiftsCounted
  <2>1. \A e, day : A!ShiftsOf(e, day) = {} /\ PendingShifts(e, day) = {}
    BY <1>1, <1>2 DEF A!ShiftsOf, PendingShifts, CheckingIn
  <2>2. Cardinality({}) = 0 /\ Cardinality(Requests) \in Nat
    BY FS_EmptySet, FS_CardinalityType, RequestsAssumption
  <2> QED
    BY <2>1, <2>2 DEF ShiftsCounted
<1> QED
  BY <1>4, <1>5, <1>6 DEF AttendanceInv

\* The newest rows of a smaller page are on every larger one, when no two rows
\* have one date.
LEMMA NewestNested ==
  ASSUME NEW all, IsFiniteSet(all), NEW c \in Nat, NEW d \in Nat, c <= d,
         \A s \in all : s.date \in Nat,
         \A s, x \in all : s.date = x.date => s = x,
         NEW page \in A!Newest(all, c), NEW larger \in A!Newest(all, d)
  PROVE  page \subseteq larger
<1> DEFINE Least(n) == IF Cardinality(all) <= n THEN Cardinality(all) ELSE n
<1>1. /\ page \subseteq all /\ larger \subseteq all
      /\ \A s \in page, x \in all \ page : x.date <= s.date
      /\ \A s \in larger, x \in all \ larger : x.date <= s.date
  BY DEF A!Newest
<1>2. Cardinality(page) = Least(c) /\ Cardinality(larger) = Least(d)
  BY DEF A!Newest, A!Cardinality, Cardinality
<1>3. /\ Cardinality(all) \in Nat
      /\ IsFiniteSet(page) /\ Cardinality(page) \in Nat
      /\ IsFiniteSet(larger) /\ Cardinality(larger) \in Nat
  BY <1>1, PartCount
<1>4. Cardinality(page) <= Cardinality(larger)
  BY <1>2, <1>3
<1> HIDE DEF Least
<1>5. ASSUME NEW s \in page, s \notin larger
      PROVE  FALSE
  <2>1. larger \subseteq page \ {s}
    <3>1. ASSUME NEW x \in larger, x \notin page
          PROVE  FALSE
      <4>1. x.date <= s.date /\ s.date <= x.date
        BY <1>1, <1>5, <3>1
      <4>2. x.date = s.date
        BY <4>1, <1>1, <1>5, <3>1
      <4> QED
        BY <4>2, <1>1, <1>5, <3>1
    <3> QED
      BY <3>1, <1>5
  <2>2. /\ IsFiniteSet(page \ {s})
        /\ Cardinality(page \ {s}) = Cardinality(page) - 1
    BY <1>3, <1>5, FS_RemoveElement
  <2>3. Cardinality(larger) <= Cardinality(page \ {s})
    BY <2>1, <2>2, PartCount
  <2> QED
    BY <2>2, <2>3, <1>3, <1>4
<1> QED
  BY <1>5

\* Rows without two of one date have as many dates.
LEMMA DatesCount ==
  ASSUME NEW page, IsFiniteSet(page), \A s, x \in page : s.date = x.date => s = x
  PROVE  Cardinality({s.date : s \in page}) = Cardinality(page)
<1>1. PICK f : f = [s \in page |-> s.date]
  OBVIOUS
<1>2. f \in [page -> {s.date : s \in page}]
  BY <1>1
<1>3. /\ \A s, x \in page : f[s] = f[x] => s = x
      /\ \A t \in {s.date : s \in page} : \E s \in page : f[s] = t
  BY <1>1
<1> QED
  BY <1>2, <1>3, SameCount

\* What a technician and the manager find of a technician who has a shift a day.
LEMMA HistoryAgrees ==
  ASSUME AttendanceInv, OneShiftADay, NEW e \in Technicians,
         NEW recent \in A!RecentHistory(e), NEW listed \in A!ListAttendance(e, A!Days)
  PROVE  /\ recent \subseteq listed
         /\ Cardinality({s.date : s \in recent}) =
              IF A!AttendanceCount(e) <= HistoryCap THEN A!AttendanceCount(e)
              ELSE HistoryCap
<1> DEFINE own == A!HistoryOf(e, A!Days)
<1>1. own = {s \in shifts : s.tech = e}
  BY DEF AttendanceInv, WorkdayTyped, A!HistoryOf, A!Shift
<1>2. IsFiniteSet(own)
  BY <1>1, FS_Subset DEF AttendanceInv, ShiftsNumbered
<1>3. \A s, x \in own : s.date = x.date => s = x
  BY <1>1 DEF OneShiftADay
<1>4. \A s \in own : s.date \in Nat
  BY <1>1, AttendanceAssumption DEF AttendanceInv, WorkdayTyped, A!Shift, A!Days
<1>5. A!AttendanceCount(e) = Cardinality(own)
  BY <1>1 DEF A!AttendanceCount, A!Cardinality, Cardinality
<1>6. recent \in A!Newest(own, HistoryCap) /\ listed \in A!Newest(own, AttendanceCap)
  BY DEF A!RecentHistory, A!ListAttendance
<1> HIDE DEF own
<1>7. recent \subseteq listed
  BY <1>2, <1>3, <1>4, <1>6, NewestNested, AttendanceAssumption
<1>8. /\ recent \subseteq own
      /\ Cardinality(recent) =
           IF Cardinality(own) <= HistoryCap THEN Cardinality(own) ELSE HistoryCap
  BY <1>6 DEF A!Newest, A!Cardinality, Cardinality
<1>9. Cardinality({s.date : s \in recent}) = Cardinality(recent)
  BY <1>2, <1>3, <1>8, FS_Subset, DatesCount
<1> QED
  BY <1>5, <1>7, <1>8, <1>9

\* What the invariant says of the lists, the dashboard and the map.
LEMMA AttendanceInvSound == AttendanceInv => A!WorkdaySound /\ A!TypeOK
<1> SUFFICES ASSUME AttendanceInv PROVE A!WorkdaySound /\ A!TypeOK
  OBVIOUS
<1>1. A!TypeOK
  BY DEF AttendanceInv, WorkdayTyped, A!TypeOK, A!Idle, Idle
<1>2. IsFiniteSet(shifts)
  BY DEF AttendanceInv, ShiftsNumbered
<1>3. ASSUME NEW e \in Technicians, NEW day \in A!Days
      PROVE  Cardinality(A!ShiftsOf(e, day)) <=
               IF orderly THEN 1 ELSE Cardinality(Requests)
  <2>1. CASE orderly
    <3>1. \A s, x \in A!ShiftsOf(e, day) : s = x
      BY <2>1 DEF AttendanceInv, WorkdayOrderly, OneShiftADay, A!ShiftsOf
    <3>2. Cardinality(A!ShiftsOf(e, day)) \in 0..1
      BY <3>1, AtMostOne
    <3> QED
      BY <2>1, <3>2
  <2>2. CASE ~orderly
    <3>1. Cardinality(A!ShiftsOf(e, day)) + Cardinality(PendingShifts(e, day))
            <= Cardinality(Requests)
      BY DEF AttendanceInv, ShiftsCounted
    <3> QED
      BY <1>2, <2>2, <3>1, WorkdayCounts
  <2> QED
    BY <2>1, <2>2
<1>4. ASSUME orderly, NEW e \in Technicians
      PROVE  /\ Cardinality(A!IsCheckedIn(e)) = 1
             /\ \A recent \in A!RecentHistory(e), listed \in A!ListAttendance(e, A!Days) :
                  /\ recent \subseteq listed
                  /\ Cardinality({s.date : s \in recent}) =
                       IF A!AttendanceCount(e) <= HistoryCap THEN A!AttendanceCount(e)
                       ELSE HistoryCap
             /\ Alone => /\ place[e] = reported[e]
                         /\ routeEnd[e] # Nowhere => place[e] # Nowhere
  <2>1. OneShiftADay /\ (place[e] = reported[e] \/ PlacePending(e))
    BY <1>4 DEF AttendanceInv, WorkdayOrderly
  <2>2. Cardinality(A!IsCheckedIn(e)) = 1
    <3>1. CASE A!ShiftsOf(e, today) = {}
      <4>1. A!IsCheckedIn(e) = {FALSE}
        BY <3>1 DEF A!IsCheckedIn
      <4> QED
        BY <4>1, FS_Singleton
    <3>2. ASSUME NEW s \in A!ShiftsOf(e, today) PROVE Cardinality(A!IsCheckedIn(e)) = 1
      <4>1. A!ShiftsOf(e, today) = {s}
        BY <2>1 DEF OneShiftADay, A!ShiftsOf
      <4>2. A!IsCheckedIn(e) = {s.checkOut = 0}
        BY <4>1 DEF A!IsCheckedIn
      <4> QED
        BY <4>2, FS_Singleton
    <3> QED
      BY <3>1, <3>2
  <2>3. ASSUME NEW recent \in A!RecentHistory(e), NEW listed \in A!ListAttendance(e, A!Days)
        PROVE  /\ recent \subseteq listed
               /\ Cardinality({s.date : s \in recent}) =
                    IF A!AttendanceCount(e) <= HistoryCap THEN A!AttendanceCount(e)
                    ELSE HistoryCap
    BY <2>1, HistoryAgrees
  <2>4. ASSUME Alone
        PROVE  place[e] = reported[e] /\ (routeEnd[e] # Nowhere => place[e] # Nowhere)
    <3>1. ~PlacePending(e)
      BY <2>4 DEF PlacePending, Alone
    <3> QED
      BY <2>1, <3>1 DEF AttendanceInv, RoutesReported
  <2> QED
    BY <2>2, <2>3, <2>4
<1>5. A!Alone = Alone
  BY DEF A!Alone, Alone, A!Idle, Idle
<1>6. \A rs : A!Cardinality(rs) = Cardinality(rs)
  BY DEF A!Cardinality, Cardinality
<1> QED
  BY <1>1, <1>3, <1>4, <1>5, <1>6 DEF A!WorkdaySound, A!LocationShown, A!RouteEnd

-----------------------------------------------------------------------------
(* Accounts *)

\* What a request about accounts knows: none is ever deleted, and none changes
\* its role.
AccountKnown(q) ==
  /\ q.op # "updateCustomer" => q.email \in Emails
  /\ q.op = "createTenant" => q.code \in Codes /\ q.company \in Emails
  /\ q.op = "updateAdmin" => \E u \in users : u.id = q.target /\ u.role = "ADMIN"
  /\ q.op = "updateCustomer" => \E u \in users : u.id = q.target

\* What it has checked or written, and nobody else has changed while it is alone.
AccountChecked(q) ==
  /\ q.op = "setup" => setups = {}
  /\ q.op = "updateCustomer" =>
       /\ "customer" \notin q.todo => customers[q.target] = q.email
       /\ "user" \notin q.todo /\ q.email # NoEmail =>
            \A u \in users : u.id = q.target => u.email = q.email

AccountRequests ==
  /\ req \in [Requests -> T!InFlight \cup {Idle}]
  /\ orderly \in BOOLEAN
  /\ SingleFlight
  /\ \A r \in Requests : req[r] # Idle => AccountKnown(req[r])
  /\ orderly => \A r \in Requests : req[r] # Idle => AccountChecked(req[r])

\* Tenants and accounts are numbered as they are created, and what a constraint
\* makes unique is unique.
TenantRows ==
  /\ tenants \subseteq T!Tenant
  /\ \A s, t \in tenants : s.id = t.id => s = t
  /\ \A s, t \in tenants : s.code = t.code => s = t
  /\ IsFiniteSet(tenants)
  /\ \A t \in tenants : t.id <= Cardinality(tenants)

UserRows ==
  /\ users \subseteq T!User
  /\ \A u, v \in users : u.id = v.id => u = v
  /\ \A u, v \in users : u.tenant = v.tenant /\ u.email = v.email => u = v
  /\ IsFiniteSet(users)
  /\ \A u \in users : u.id <= Cardinality(users)

Administered ==
  /\ \A t \in tenants : \E u \in users : u.tenant = t.id /\ u.role = "ADMIN"
  /\ \A u \in users : u.tenant = System \/ \E t \in tenants : t.id = u.tenant

\* No setup begins once there is a super admin, so that the setups that were
\* done and those in flight are no more than requests.
PendingSetups == {r \in Requests : req[r] # Idle /\ req[r].op = "setup"}

Setups ==
  /\ setups \subseteq T!UserIds
  /\ setups # {} => \E u \in users : u.role = "SUPER_ADMIN"
  /\ Cardinality(setups) + Cardinality(PendingSetups) <= Cardinality(Requests)
  /\ orderly => \A i, k \in setups : i = k

\* The two rows of a customer have one email, or the one that is shown has none,
\* or a request is writing them.
Updating(id) ==
  \E r \in Requests : req[r] # Idle /\ req[r].op = "updateCustomer" /\ req[r].target = id

CustomersMatch ==
  /\ customers \in [T!UserIds -> Emails \cup {NoEmail}]
  /\ orderly => \A u \in users : u.role = "CUSTOMER" =>
       customers[u.id] \in {u.email, NoEmail} \/ Updating(u.id)

AccountsInv ==
  /\ AccountRequests
  /\ TenantRows
  /\ UserRows
  /\ Administered
  /\ Setups
  /\ CustomersMatch

\* A request in flight is a full record.
LEMMA AccountRequest ==
  ASSUME AccountRequests, NEW r \in Requests, req[r] # Idle
  PROVE  /\ req[r] \in T!InFlight
         /\ AccountKnown(req[r])
         /\ orderly => AccountChecked(req[r])
         /\ req[r].email \in Emails \cup {NoEmail}
BY DEF AccountRequests, T!InFlight

\* How one request goes on, the accounts that there are staying.
LEMMA AccountRequestsKept ==
  ASSUME AccountRequests,
         \A u \in users : \E v \in users' : v.id = u.id /\ v.role = u.role,
         NEW r \in Requests, NEW q,
         req' = [req EXCEPT ![r] = q],
         orderly' \in BOOLEAN,
         orderly' => orderly /\ (Alone \/ req[r] # Idle),
         q # Idle => q \in T!InFlight /\ AccountKnown(q),
         q # Idle /\ orderly' => AccountChecked(q)'
  PROVE  AccountRequests'
<1>1. req \in [Requests -> T!InFlight \cup {Idle}] /\ SingleFlight
  BY DEF AccountRequests
<1>2. /\ SingleFlight'
      /\ orderly' => \A s \in Requests : req'[s] # Idle => s = r
      /\ req'[r] = q
      /\ \A s \in Requests \ {r} : req'[s] = req[s]
  BY <1>1, OthersIdle
<1>3. Idle' = Idle
  BY DEF Idle
<1>4. req' \in [Requests -> T!InFlight \cup {Idle}]
  <2>1. q \in T!InFlight \cup {Idle}
    OBVIOUS
  <2> QED
    BY <1>1, <2>1
<1>5. \A s \in Requests : req'[s] # Idle => AccountKnown(req'[s])
  BY <1>2 DEF AccountRequests
<1>6. \A s \in Requests : req'[s] # Idle => AccountKnown(req[s])'
  BY <1>5 DEF AccountKnown
<1>7. orderly' => \A s \in Requests : req'[s] # Idle => AccountChecked(req[s])'
  BY <1>2 DEF AccountChecked
<1> HIDE DEF Idle
<1> QED
  BY <1>2, <1>3, <1>4, <1>6, <1>7
     DEF AccountRequests, T!InFlight, T!Writes

\* How the setups and those in flight are counted when a request goes on.
LEMMA SetupsStay ==
  ASSUME Setups, req \in [Requests -> T!InFlight \cup {Idle}],
         NEW r \in Requests, NEW q, req' = [req EXCEPT ![r] = q],
         q # Idle => q.op # "setup",
         \A u \in users : \E v \in users' : v.role = u.role,
         orderly' => orderly, UNCHANGED setups
  PROVE  Setups'
<1>1. PendingSetups' \in SUBSET PendingSetups
  <2>1. Idle' = Idle
    BY DEF Idle
  <2> HIDE DEF Idle
  <2> QED
    BY <2>1 DEF PendingSetups
<1>2. PendingSetups \in SUBSET Requests
  BY DEF PendingSetups
<1>3. IsFiniteSet(PendingSetups) /\ Cardinality(PendingSetups) \in Nat
  BY <1>2, PartCount, RequestsAssumption
<1>4. /\ Cardinality(PendingSetups') \in Nat
      /\ Cardinality(PendingSetups') <= Cardinality(PendingSetups)
  BY <1>1, <1>3, PartCount
<1>5. Cardinality(setups) \in Nat /\ Cardinality(Requests) \in Nat
  <2>1. IsFiniteSet(1..MaxUsers)
    BY FS_Interval, AccountsAssumption
  <2>2. setups \in SUBSET (1..MaxUsers)
    BY DEF Setups, T!UserIds
  <2> QED
    BY <2>1, <2>2, PartCount, FS_CardinalityType, RequestsAssumption
<1>6. Cardinality(setups') + Cardinality(PendingSetups') <= Cardinality(Requests)
  BY <1>3, <1>4, <1>5 DEF Setups
<1> QED
  BY <1>6 DEF Setups, T!UserIds

\* The first setup begins.
LEMMA SetupBegins ==
  ASSUME setups = {}, UNCHANGED setups
  PROVE  Setups'
<1>1. PendingSetups' \in SUBSET Requests
  BY DEF PendingSetups
<1>2. /\ Cardinality(PendingSetups') \in Nat
      /\ Cardinality(PendingSetups') <= Cardinality(Requests)
  BY <1>1, PartCount, RequestsAssumption
<1>3. Cardinality({}) = 0
  BY FS_EmptySet
<1> QED
  BY <1>2, <1>3 DEF Setups

\* A setup is done.
LEMMA SetupDone ==
  ASSUME Setups, req \in [Requests -> T!InFlight \cup {Idle}],
         NEW r \in Requests, req[r] # Idle, req[r].op = "setup",
         req' = [req EXCEPT ![r] = Idle],
         NEW i \in T!UserIds, setups' = setups \cup {i},
         orderly' => setups = {},
         \E u \in users' : u.role = "SUPER_ADMIN"
  PROVE  Setups'
<1>1. PendingSetups' = PendingSetups \ {r} /\ r \in PendingSetups
  <2>1. Idle' = Idle
    BY DEF Idle
  <2> HIDE DEF Idle
  <2> QED
    BY <2>1 DEF PendingSetups
<1>2. PendingSetups \in SUBSET Requests
  BY DEF PendingSetups
<1>3. IsFiniteSet(PendingSetups) /\ Cardinality(PendingSetups) \in Nat
  BY <1>2, PartCount, RequestsAssumption
<1>4. Cardinality(PendingSetups') = Cardinality(PendingSetups) - 1
  BY <1>1, <1>3, FS_RemoveElement
<1>5. /\ IsFiniteSet(setups) /\ Cardinality(setups) \in Nat
      /\ Cardinality(Requests) \in Nat
  <2>1. IsFiniteSet(1..MaxUsers)
    BY FS_Interval, AccountsAssumption
  <2>2. setups \in SUBSET (1..MaxUsers)
    BY DEF Setups, T!UserIds
  <2> QED
    BY <2>1, <2>2, PartCount, FS_CardinalityType, RequestsAssumption
<1>6. /\ Cardinality(setups') \in Nat
      /\ Cardinality(setups') <= Cardinality(setups) + 1
  BY <1>5, OneMore
<1>7. Cardinality(setups') + Cardinality(PendingSetups') <= Cardinality(Requests)
  BY <1>3, <1>4, <1>5, <1>6 DEF Setups
<1> QED
  BY <1>7 DEF Setups, T!UserIds

\* A new account under the next number.
LEMMA UserAdded ==
  ASSUME UserRows, T!NewUser \in T!UserIds, NEW te \in T!TenantIds \cup {System},
         NEW e \in Emails, NEW role \in {"SUPER_ADMIN", "ADMIN", "CUSTOMER"},
         T!EmailFree(te, e, 0),
         users' = users \cup {[id |-> T!NewUser, tenant |-> te, email |-> e, role |-> role]}
  PROVE  /\ UserRows'
         /\ users \subseteq users'
         /\ \A u \in users : u.id # T!NewUser
         /\ \E v \in users' : /\ v.id = T!NewUser /\ v.tenant = te
                              /\ v.email = e /\ v.role = role
         /\ \A v \in users' : v \in users \/
              (v.id = T!NewUser /\ v.tenant = te /\ v.email = e /\ v.role = role)
<1>1. PICK n : n = T!NewUser
  OBVIOUS
<1>2. n = Cardinality(users) + 1 /\ Cardinality(users) \in Nat /\ n \in T!UserIds
  BY <1>1, FS_CardinalityType DEF T!NewUser, T!Cardinality, Cardinality, UserRows
<1>3. PICK new : new = [id |-> n, tenant |-> te, email |-> e, role |-> role]
  OBVIOUS
<1>4. /\ new \in T!User
      /\ new.id = n /\ new.tenant = te /\ new.email = e /\ new.role = role
  BY <1>2, <1>3 DEF T!User
<1>5. users' = users \cup {new}
  BY <1>1, <1>3
<1>6. \A u \in users : u.id \in Nat /\ u.id < n /\ u.id # 0 /\ u # new
  BY <1>2, <1>4 DEF UserRows, T!User, T!UserIds
<1>7. \A u \in users : u.tenant = te => u.email # e
  BY <1>6 DEF T!EmailFree
<1>8. IsFiniteSet(users') /\ Cardinality(users') = n
  <2>1. new \notin users
    BY <1>6
  <2> QED
    BY <1>2, <1>5, <2>1, OneMore DEF UserRows
<1>9. \A u \in users' : u.id <= n
  BY <1>2, <1>4, <1>5, <1>6
<1>10. UserRows'
  <2>1. users' \subseteq T!User
    BY <1>4, <1>5 DEF UserRows
  <2>2. \A u, v \in users' : u.id = v.id => u = v
    BY <1>4, <1>5, <1>6 DEF UserRows
  <2>3. \A u, v \in users' : u.tenant = v.tenant /\ u.email = v.email => u = v
    BY <1>4, <1>5, <1>7 DEF UserRows
  <2> QED
    BY <1>8, <1>9, <2>1, <2>2, <2>3 DEF UserRows, T!User, T!UserIds, T!TenantIds
<1> QED
  BY <1>1, <1>4, <1>5, <1>6, <1>10

\* The email of an account is changed, to one that is free in its tenant.
LEMMA UserEmailed ==
  ASSUME UserRows, NEW id, NEW e \in Emails, NEW o \in users, o.id = id,
         T!EmailFree(T!TenantOf(id), e, id), users' = T!SetEmail(id, e)
  PROVE  /\ UserRows'
         /\ \A u \in users : \E v \in users' :
              /\ v.id = u.id /\ v.tenant = u.tenant /\ v.role = u.role
              /\ v.email = IF u.id = id THEN e ELSE u.email
         /\ \A v \in users' : \E u \in users :
              /\ v.id = u.id /\ v.tenant = u.tenant /\ v.role = u.role
              /\ v.email = IF u.id = id THEN e ELSE u.email
<1>1. PICK f : f = [u \in users |-> IF u.id = id THEN [u EXCEPT !.email = e] ELSE u]
  OBVIOUS
<1>2. users' = {f[u] : u \in users}
  <2>1. users' = {IF u.id = id THEN [u EXCEPT !.email = e] ELSE u : u \in users}
    BY DEF T!SetEmail
  <2> QED
    BY <1>1, <2>1
<1>3. ASSUME NEW u \in users
      PROVE  /\ f[u] \in T!User
             /\ f[u].id = u.id /\ f[u].tenant = u.tenant /\ f[u].role = u.role
             /\ f[u].email = IF u.id = id THEN e ELSE u.email
  <2>1. u \in T!User
    BY DEF UserRows
  <2>2. f[u] = IF u.id = id THEN [u EXCEPT !.email = e] ELSE u
    BY <1>1
  <2> QED
    BY <2>1, <2>2 DEF T!User
<1>4. T!TenantOf(id) = o.tenant
  <2>1. \A u \in users : u.id = id <=> u = o
    BY DEF UserRows
  <2>2. (CHOOSE u \in users : u.id = id) = o
    BY <2>1
  <2> QED
    BY <2>2 DEF T!TenantOf
<1>5. \A u \in users : u.tenant = o.tenant /\ u.id # id => u.email # e
  BY <1>4 DEF T!EmailFree
<1>6. f \in [users -> users'] /\ \A v \in users' : \E u \in users : f[u] = v
  BY <1>1, <1>2
<1>7. \A u, v \in users : f[u].id = f[v].id => u = v
  BY <1>3 DEF UserRows
<1>8. IsFiniteSet(users') /\ Cardinality(users') = Cardinality(users)
  BY <1>6, <1>7, SameCount DEF UserRows
<1>9. ASSUME NEW u \in users, NEW v \in users, f[u].tenant = f[v].tenant,
             f[u].email = f[v].email
      PROVE  u = v
  <2>1. CASE u.id = id /\ v.id = id
    BY <2>1 DEF UserRows
  <2>2. CASE u.id = id /\ v.id # id
    <3>1. u = o
      BY <2>2 DEF UserRows
    <3> QED
      BY <1>3, <1>5, <1>9, <2>2, <3>1
  <2>3. CASE u.id # id /\ v.id = id
    <3>1. v = o
      BY <2>3 DEF UserRows
    <3> QED
      BY <1>3, <1>5, <1>9, <2>3, <3>1
  <2>4. CASE u.id # id /\ v.id # id
    BY <1>3, <1>9, <2>4 DEF UserRows
  <2> QED
    BY <2>1, <2>2, <2>3, <2>4
<1>10. UserRows'
  <2>1. users' \subseteq T!User
    BY <1>3, <1>6
  <2>2. \A u, v \in users' : u.id = v.id => u = v
    BY <1>6, <1>7
  <2>3. \A u, v \in users' : u.tenant = v.tenant /\ u.email = v.email => u = v
    BY <1>6, <1>9
  <2>4. \A v \in users' : v.id <= Cardinality(users')
    BY <1>3, <1>6, <1>8 DEF UserRows
  <2> QED
    BY <1>8, <2>1, <2>2, <2>3, <2>4 DEF UserRows, T!User, T!UserIds, T!TenantIds
<1> QED
  BY <1>3, <1>6, <1>10

\* A new tenant, whose code nobody has.
LEMMA TenantAdded ==
  ASSUME TenantRows, T!NewTenant \in T!TenantIds, NEW c \in Codes, NEW e \in Emails,
         T!CodeFree(c),
         tenants' = tenants \cup
           {[id |-> T!NewTenant, code |-> c, email |-> e, status |-> "ACTIVE"]}
  PROVE  /\ TenantRows'
         /\ tenants \subseteq tenants'
         /\ \A t \in tenants : t.id # T!NewTenant
         /\ \E t \in tenants' : t.id = T!NewTenant
         /\ \A t \in tenants' : t \in tenants \/ t.id = T!NewTenant
<1>1. PICK n : n = T!NewTenant
  OBVIOUS
<1>2. n = Cardinality(tenants) + 1 /\ Cardinality(tenants) \in Nat /\ n \in T!TenantIds
  BY <1>1, FS_CardinalityType DEF T!NewTenant, T!Cardinality, Cardinality, TenantRows
<1>3. PICK new : new = [id |-> n, code |-> c, email |-> e, status |-> "ACTIVE"]
  OBVIOUS
<1>4. new \in T!Tenant /\ new.id = n /\ new.code = c
  BY <1>2, <1>3 DEF T!Tenant
<1>5. tenants' = tenants \cup {new}
  BY <1>1, <1>3
<1>6. \A t \in tenants : t.id \in Nat /\ t.id < n /\ t # new /\ t.code # c
  BY <1>2, <1>4 DEF TenantRows, T!Tenant, T!TenantIds, T!CodeFree
<1>7. IsFiniteSet(tenants') /\ Cardinality(tenants') = n
  <2>1. new \notin tenants
    BY <1>6
  <2> QED
    BY <1>2, <1>5, <2>1, OneMore DEF TenantRows
<1>8. \A t \in tenants' : t.id <= n
  BY <1>2, <1>4, <1>5, <1>6
<1>9. TenantRows'
  <2>1. tenants' \subseteq T!Tenant
    BY <1>4, <1>5 DEF TenantRows
  <2>2. \A s, t \in tenants' : s.id = t.id => s = t
    BY <1>4, <1>5, <1>6 DEF TenantRows
  <2>3. \A s, t \in tenants' : s.code = t.code => s = t
    BY <1>4, <1>5, <1>6 DEF TenantRows
  <2> QED
    BY <1>7, <1>8, <2>1, <2>2, <2>3 DEF TenantRows, T!Tenant, T!TenantIds
<1> QED
  BY <1>1, <1>4, <1>5, <1>6, <1>9

\* Tenants with other fields than the id and the code.
LEMMA TenantsEdited ==
  ASSUME TenantRows, NEW f \in [tenants -> tenants'],
         \A t \in tenants' : \E s \in tenants : f[s] = t,
         \A s \in tenants : f[s] \in T!Tenant /\ f[s].id = s.id /\ f[s].code = s.code
  PROVE  /\ TenantRows'
         /\ \A t \in tenants' : \E s \in tenants : t.id = s.id
         /\ \A s \in tenants : \E t \in tenants' : t.id = s.id
<1>1. \A s, t \in tenants : f[s] = f[t] => s = t
  BY DEF TenantRows
<1>2. IsFiniteSet(tenants') /\ Cardinality(tenants') = Cardinality(tenants)
  BY <1>1, SameCount DEF TenantRows
<1>3. /\ tenants' \subseteq T!Tenant
      /\ \A s, t \in tenants' : s.id = t.id => s = t
      /\ \A s, t \in tenants' : s.code = t.code => s = t
      /\ \A t \in tenants' : t.id <= Cardinality(tenants')
  BY <1>2 DEF TenantRows
<1> QED
  BY <1>2, <1>3 DEF TenantRows, T!Tenant, T!TenantIds

\* The customers' rows stay as they are, and so do the accounts of customers.
LEMMA CustomersStay ==
  ASSUME CustomersMatch, req \in [Requests -> T!InFlight \cup {Idle}],
         NEW r \in Requests, NEW q, req' = [req EXCEPT ![r] = q],
         req[r] # Idle => req[r].op # "updateCustomer",
         orderly' => orderly, UNCHANGED customers,
         \A v \in users' : v.role = "CUSTOMER" =>
           \E u \in users : u.id = v.id /\ u.role = "CUSTOMER" /\ u.email = v.email
  PROVE  CustomersMatch'
<1>1. \A s \in Requests \ {r} : req'[s] = req[s]
  OBVIOUS
<1>2. Idle' = Idle
  BY DEF Idle
<1> HIDE DEF Idle
<1>3. ASSUME NEW id, Updating(id)
      PROVE  Updating(id)'
  <2>1. PICK s \in Requests :
          req[s] # Idle /\ req[s].op = "updateCustomer" /\ req[s].target = id
    BY <1>3 DEF Updating
  <2>2. s # r
    BY <2>1
  <2> QED
    BY <1>1, <1>2, <2>1, <2>2 DEF Updating
<1>4. customers' \in [T!UserIds' -> Emails \cup {NoEmail}]
  BY DEF CustomersMatch, T!UserIds
<1>5. ASSUME orderly', NEW v \in users', v.role = "CUSTOMER"
      PROVE  customers'[v.id] \in {v.email, NoEmail} \/ Updating(v.id)'
  <2>1. PICK u \in users : u.id = v.id /\ u.role = "CUSTOMER" /\ u.email = v.email
    BY <1>5
  <2>2. customers[u.id] \in {u.email, NoEmail} \/ Updating(u.id)
    BY <1>5, <2>1 DEF CustomersMatch
  <2>3. PICK id : id = v.id
    OBVIOUS
  <2>4. customers[id] \in {v.email, NoEmail} \/ Updating(id)
    BY <2>1, <2>2, <2>3
  <2>5. customers'[id] \in {v.email, NoEmail} \/ Updating(id)'
    BY <1>3, <2>4
  <2> QED
    BY <2>3, <2>5
<1>6. \A v \in users' : orderly' /\ v.role = "CUSTOMER" =>
        customers'[v.id] \in {v.email, NoEmail} \/ Updating(v.id)'
  BY <1>5
<1> QED
  BY <1>4, <1>6, Zenon DEF CustomersMatch

\* A handler begins, with its reads behind it.
LEMMA AccountsStarted ==
  ASSUME AccountsInv, NEW r \in Requests, NEW q \in T!InFlight, T!Begin(r, q),
         UNCHANGED <<tenants, users, customers, setups>>, AccountKnown(q),
         q.op = "setup" => setups = {},
         q.op = "updateCustomer" => q.todo = {"user", "customer"}
  PROVE  AccountsInv'
<1>1. /\ req[r] = Idle /\ req' = [req EXCEPT ![r] = q]
      /\ orderly' = (orderly /\ Alone) /\ orderly \in BOOLEAN
      /\ req \in [Requests -> T!InFlight \cup {Idle}]
  BY DEF T!Begin, T!Idle, Idle, T!Alone, Alone, AccountsInv, AccountRequests
<1>2. q # Idle
  BY DEF T!InFlight, Idle
<1>3. orderly' => AccountChecked(q)'
  BY DEF AccountChecked
<1>4. orderly' \in BOOLEAN /\ (orderly' => orderly /\ (Alone \/ req[r] # Idle))
  BY <1>1
<1> HIDE DEF Idle
<1>5. AccountRequests'
  BY <1>1, <1>2, <1>3, <1>4, AccountRequestsKept DEF AccountsInv
<1>6. Setups'
  <2>1. CASE setups = {}
    BY <2>1, SetupBegins
  <2>2. CASE q.op # "setup"
    BY <1>1, <1>4, <2>2, SetupsStay DEF AccountsInv
  <2> QED
    BY <2>1, <2>2
<1>7. CustomersMatch'
  BY <1>1, <1>4, CustomersStay DEF AccountsInv
<1>8. TenantRows' /\ UserRows' /\ Administered'
  BY DEF AccountsInv, TenantRows, UserRows, Administered, T!Tenant, T!User, T!TenantIds,
         T!UserIds
<1> QED
  BY <1>5, <1>6, <1>7, <1>8 DEF AccountsInv

\* What a handler that ends, or runs as one write, owes besides its rows.
LEMMA AccountsEnded ==
  ASSUME AccountsInv, NEW r \in Requests, req' = [req EXCEPT ![r] = Idle],
         req[r] # Idle => req[r].op # "updateCustomer",
         orderly' \in BOOLEAN, orderly' => orderly /\ (Alone \/ req[r] # Idle),
         \A u \in users : \E v \in users' : v.id = u.id /\ v.role = u.role
  PROVE  /\ AccountRequests'
         /\ UNCHANGED setups => Setups'
         /\ UNCHANGED customers /\
            (\A v \in users' : v.role = "CUSTOMER" =>
               \E u \in users : u.id = v.id /\ u.role = "CUSTOMER" /\ u.email = v.email)
              => CustomersMatch'
<1>1. req \in [Requests -> T!InFlight \cup {Idle}] /\ (orderly' => orderly)
  BY DEF AccountsInv, AccountRequests
<1> HIDE DEF Idle
<1>2. PICK q : q = Idle
  OBVIOUS
<1>3. AccountRequests'
  BY <1>2, AccountRequestsKept DEF AccountsInv
<1>4. UNCHANGED setups => Setups'
  BY <1>1, <1>2, SetupsStay DEF AccountsInv
<1>5. UNCHANGED customers /\
      (\A v \in users' : v.role = "CUSTOMER" =>
         \E u \in users : u.id = v.id /\ u.role = "CUSTOMER" /\ u.email = v.email)
        => CustomersMatch'
  BY <1>1, <1>2, CustomersStay DEF AccountsInv
<1> QED
  BY <1>3, <1>4, <1>5

\* A call that leaves its request in flight.
LEMMA AccountsCalled ==
  ASSUME AccountsInv, NEW r \in Requests, NEW e \in Emails,
         \/ T!SetupSuperAdmin(r, e)
         \/ T!CreateSuperAdmin(r, e)
         \/ \E c \in Codes, company \in Emails : T!CreateTenant(r, c, company, e)
         \/ \E t \in tenants : T!UpdateTenant(r, t, e)
         \/ \E u \in users : T!UpdateProfile(r, u, e)
  PROVE  AccountsInv'
<1>1. tenants \subseteq T!Tenant /\ users \subseteq T!User
  BY DEF AccountsInv, TenantRows, UserRows
<1>2. MaxTenants \in Nat /\ MaxUsers \in Nat
  BY AccountsAssumption
<1>3. ASSUME NEW op \in {"setup", "createSuperAdmin"},
             T!Start(r, op, "create", NoEmail, NoEmail, e, 0, {}),
             op = "setup" => setups = {}
      PROVE  AccountsInv'
  <2>1. PICK q : q = [op |-> op, step |-> "create", code |-> NoEmail,
                      company |-> NoEmail, email |-> e, target |-> 0, todo |-> {}]
    OBVIOUS
  <2>2. q \in T!InFlight /\ q.op = op /\ q.email = e
    BY <1>2, <2>1 DEF T!InFlight, T!Writes
  <2>3. T!Begin(r, q) /\ UNCHANGED <<tenants, users, customers, setups>>
    BY <1>3, <2>1 DEF T!Start, T!rowVars
  <2> QED
    BY <1>3, <2>2, <2>3, AccountsStarted DEF AccountKnown
<1>4. CASE T!SetupSuperAdmin(r, e)
  <2>1. setups = {}
    BY <1>4 DEF T!SetupSuperAdmin, AccountsInv, Setups
  <2> QED
    BY <1>3, <1>4, <2>1 DEF T!SetupSuperAdmin
<1>5. CASE T!CreateSuperAdmin(r, e)
  BY <1>3, <1>5 DEF T!CreateSuperAdmin
<1>6. ASSUME NEW c \in Codes, NEW company \in Emails, T!CreateTenant(r, c, company, e)
      PROVE  AccountsInv'
  <2>1. PICK q : q = [op |-> "createTenant", step |-> "create", code |-> c,
                      company |-> company, email |-> e, target |-> 0, todo |-> {}]
    OBVIOUS
  <2>2. /\ q \in T!InFlight /\ q.op = "createTenant" /\ q.code = c /\ q.company = company
        /\ q.email = e
    BY <1>2, <2>1 DEF T!InFlight, T!Writes
  <2>3. T!Begin(r, q) /\ UNCHANGED <<tenants, users, customers, setups>>
    BY <1>6, <2>1 DEF T!CreateTenant, T!Start, T!rowVars
  <2> QED
    BY <2>2, <2>3, AccountsStarted DEF AccountKnown
<1>7. ASSUME NEW t \in tenants, T!UpdateTenant(r, t, e)
      PROVE  AccountsInv'
  <2>1. PICK q : q = [op |-> "updateTenant", step |-> "update", code |-> NoEmail,
                      company |-> NoEmail, email |-> e, target |-> t.id, todo |-> {}]
    OBVIOUS
  <2>2. t.id \in 0..MaxTenants + MaxUsers
    BY <1>1, <1>2 DEF T!Tenant, T!TenantIds
  <2>3. q \in T!InFlight /\ q.op = "updateTenant" /\ q.email = e
    BY <2>1, <2>2 DEF T!InFlight, T!Writes
  <2>4. T!Begin(r, q) /\ UNCHANGED <<tenants, users, customers, setups>>
    BY <1>7, <2>1 DEF T!UpdateTenant, T!Start, T!rowVars
  <2> QED
    BY <2>3, <2>4, AccountsStarted DEF AccountKnown
<1>8. ASSUME NEW u \in users, T!UpdateProfile(r, u, e)
      PROVE  AccountsInv'
  <2>1. PICK q : q = [op |-> "updateAdmin", step |-> "update", code |-> NoEmail,
                      company |-> NoEmail, email |-> e, target |-> u.id, todo |-> {}]
    OBVIOUS
  <2>2. u.id \in 0..MaxTenants + MaxUsers
    BY <1>1, <1>2 DEF T!User, T!UserIds
  <2>3. q \in T!InFlight /\ q.op = "updateAdmin" /\ q.target = u.id /\ q.email = e
    BY <2>1, <2>2 DEF T!InFlight, T!Writes
  <2>4. T!Begin(r, q) /\ UNCHANGED <<tenants, users, customers, setups>> /\ u.role = "ADMIN"
    BY <1>8, <2>1 DEF T!UpdateProfile, T!Start, T!rowVars
  <2> QED
    BY <2>3, <2>4, AccountsStarted DEF AccountKnown
<1> QED
  BY <1>4, <1>5, <1>6, <1>7, <1>8

\* A customer changes the profile, perhaps to have no email in it.
LEMMA CustomerCalled ==
  ASSUME AccountsInv, NEW r \in Requests, NEW u \in users,
         NEW e \in Emails \cup {NoEmail}, T!UpdateCustomer(r, u, e)
  PROVE  AccountsInv'
<1>1. users \subseteq T!User /\ MaxTenants \in Nat /\ MaxUsers \in Nat
  BY AccountsAssumption DEF AccountsInv, UserRows
<1>2. PICK q : q = [op |-> "updateCustomer", step |-> "writes", code |-> NoEmail,
                    company |-> NoEmail, email |-> e, target |-> u.id,
                    todo |-> T!Writes]
  OBVIOUS
<1>3. u.id \in 0..MaxTenants + MaxUsers
  BY <1>1 DEF T!User, T!UserIds
<1>4. /\ q \in T!InFlight /\ q.op = "updateCustomer" /\ q.target = u.id
      /\ q.todo = {"user", "customer"}
  BY <1>2, <1>3 DEF T!InFlight, T!Writes
<1>5. T!Begin(r, q) /\ UNCHANGED <<tenants, users, customers, setups>>
  BY <1>2 DEF T!UpdateCustomer, T!Start, T!rowVars
<1> QED
  BY <1>4, <1>5, AccountsStarted DEF AccountKnown

\* The handlers on tenants alone: an email or a status, of one that there is.
LEMMA TenantWritten ==
  ASSUME AccountsInv, NEW r \in Requests, NEW f \in [tenants -> tenants'],
         \A t \in tenants' : \E s \in tenants : f[s] = t,
         \A s \in tenants : f[s] \in T!Tenant /\ f[s].id = s.id /\ f[s].code = s.code,
         req' = [req EXCEPT ![r] = Idle],
         req[r] # Idle => req[r].op # "updateCustomer",
         orderly' \in BOOLEAN, orderly' => orderly /\ (Alone \/ req[r] # Idle),
         UNCHANGED <<users, customers, setups>>
  PROVE  AccountsInv'
<1>1. /\ TenantRows'
      /\ \A t \in tenants' : \E s \in tenants : t.id = s.id
      /\ \A s \in tenants : \E t \in tenants' : t.id = s.id
  BY TenantsEdited DEF AccountsInv
<1> HIDE DEF Idle
<1>2. AccountRequests' /\ Setups' /\ CustomersMatch'
  BY AccountsEnded
<1>3. UserRows'
  BY DEF AccountsInv, UserRows, T!User, T!UserIds, T!TenantIds
<1>4. Administered'
  BY <1>1 DEF AccountsInv, Administered
<1> QED
  BY <1>1, <1>2, <1>3, <1>4 DEF AccountsInv

\* updateCompanySettings and updateTenantStatus write one tenant in one step.
LEMMA TenantSettingsWritten ==
  ASSUME AccountsInv, NEW r \in Requests, NEW t \in tenants,
         \/ \E company \in Emails : T!UpdateCompanySettings(r, t, company)
         \/ \E status \in {"ACTIVE", "SUSPENDED", "EXPIRED"} :
              T!UpdateTenantStatus(r, t, status)
  PROVE  AccountsInv'
<1>1. t \in T!Tenant
  BY DEF AccountsInv, TenantRows
<1>2. PICK new : /\ new \in T!Tenant /\ new.id = t.id /\ new.code = t.code
                 /\ tenants' = (tenants \ {t}) \cup {new}
                 /\ T!InOneStep(r) /\ UNCHANGED <<users, customers, setups>>
  <2>1. ASSUME NEW company \in Emails, T!UpdateCompanySettings(r, t, company)
        PROVE  \E new : /\ new \in T!Tenant /\ new.id = t.id /\ new.code = t.code
                        /\ tenants' = (tenants \ {t}) \cup {new}
                        /\ T!InOneStep(r) /\ UNCHANGED <<users, customers, setups>>
    <3>1. PICK new : new = [t EXCEPT !.email = company]
      OBVIOUS
    <3>2. new \in T!Tenant /\ new.id = t.id /\ new.code = t.code
      BY <1>1, <3>1 DEF T!Tenant
    <3> QED
      BY <2>1, <3>1, <3>2 DEF T!UpdateCompanySettings
  <2>2. ASSUME NEW status \in {"ACTIVE", "SUSPENDED", "EXPIRED"},
               T!UpdateTenantStatus(r, t, status)
        PROVE  \E new : /\ new \in T!Tenant /\ new.id = t.id /\ new.code = t.code
                        /\ tenants' = (tenants \ {t}) \cup {new}
                        /\ T!InOneStep(r) /\ UNCHANGED <<users, customers, setups>>
    <3>1. PICK new : new = [t EXCEPT !.status = status]
      OBVIOUS
    <3>2. new \in T!Tenant /\ new.id = t.id /\ new.code = t.code
      BY <1>1, <3>1 DEF T!Tenant
    <3> QED
      BY <2>2, <3>1, <3>2 DEF T!UpdateTenantStatus
  <2> QED
    BY <2>1, <2>2
<1>3. /\ req[r] = Idle /\ req' = req
      /\ orderly' = (orderly /\ Alone) /\ orderly \in BOOLEAN
      /\ req \in [Requests -> T!InFlight \cup {Idle}]
  BY <1>2 DEF T!InOneStep, T!Idle, Idle, T!Alone, Alone, AccountsInv, AccountRequests
<1> HIDE DEF Idle
<1>4. req' = [req EXCEPT ![r] = Idle]
  BY <1>3
<1>5. orderly' \in BOOLEAN /\ (orderly' => orderly /\ (Alone \/ req[r] # Idle))
  BY <1>3
<1>6. PICK f : f = [s \in tenants |-> IF s = t THEN new ELSE s]
  OBVIOUS
<1>7. f \in [tenants -> tenants'] /\ \A x \in tenants' : \E s \in tenants : f[s] = x
  BY <1>2, <1>6
<1>8. \A s \in tenants : f[s] \in T!Tenant /\ f[s].id = s.id /\ f[s].code = s.code
  BY <1>2, <1>6 DEF AccountsInv, TenantRows
<1> QED
  BY <1>2, <1>3, <1>4, <1>5, <1>7, <1>8, TenantWritten

\* updateTenant writes the email, unless another tenant has it.
LEMMA TenantCommitted ==
  ASSUME AccountsInv, NEW r \in Requests, T!UpdateTenantCommit(r)
  PROVE  AccountsInv'
<1>1. /\ req[r] # Idle /\ req[r].op = "updateTenant"
      /\ req' = [req EXCEPT ![r] = Idle] /\ orderly' = orderly
      /\ UNCHANGED <<users, customers, setups>>
  BY DEF T!UpdateTenantCommit, T!At, T!Finish, T!Idle, Idle
<1>2. orderly \in BOOLEAN /\ req[r].email \in Emails
  BY <1>1, AccountRequest DEF AccountsInv, AccountRequests, AccountKnown
<1>3. PICK b : b = T!CompanyEmailFree(req[r].email, req[r].target)
  OBVIOUS
<1>4. PICK f : f = [t \in tenants |->
        IF t.id = req[r].target /\ b THEN [t EXCEPT !.email = req[r].email] ELSE t]
  OBVIOUS
<1>5. tenants' = {IF t.id = req[r].target /\ b THEN [t EXCEPT !.email = req[r].email]
                  ELSE t : t \in tenants}
  BY <1>3 DEF T!UpdateTenantCommit
<1> HIDE DEF Idle
<1>6. f \in [tenants -> tenants'] /\ \A x \in tenants' : \E s \in tenants : f[s] = x
  BY <1>4, <1>5
<1>7. ASSUME NEW s \in tenants
      PROVE  f[s] \in T!Tenant /\ f[s].id = s.id /\ f[s].code = s.code
  <2>1. s \in T!Tenant
    BY DEF AccountsInv, TenantRows
  <2>2. f[s] = IF s.id = req[r].target /\ b THEN [s EXCEPT !.email = req[r].email] ELSE s
    BY <1>4
  <2> QED
    BY <1>2, <2>1, <2>2 DEF T!Tenant
<1> QED
  BY <1>1, <1>2, <1>6, <1>7, TenantWritten

\* verifyOtp creates a customer, whose two rows have one email.
LEMMA CustomerRegistered ==
  ASSUME AccountsInv, NEW r \in Requests, NEW t \in tenants, NEW e \in Emails,
         T!RegisterCustomer(r, t, e)
  PROVE  AccountsInv'
<1>1. /\ req[r] = Idle /\ req' = req
      /\ orderly' = (orderly /\ Alone) /\ orderly \in BOOLEAN
      /\ req \in [Requests -> T!InFlight \cup {Idle}]
  BY DEF T!RegisterCustomer, T!InOneStep, T!Idle, Idle, T!Alone, Alone, AccountsInv,
         AccountRequests
<1>2. /\ T!NewUser \in T!UserIds
      /\ T!EmailFree(t.id, e, 0)
      /\ users' = users \cup
           {[id |-> T!NewUser, tenant |-> t.id, email |-> e, role |-> "CUSTOMER"]}
      /\ customers' = [customers EXCEPT ![T!NewUser] = e]
      /\ UNCHANGED <<tenants, setups>>
  BY DEF T!RegisterCustomer
<1>3. t.id \in T!TenantIds \cup {System}
  BY DEF AccountsInv, TenantRows, T!Tenant
<1>4. PICK n : n = T!NewUser
  OBVIOUS
<1>5. /\ UserRows'
      /\ users \subseteq users'
      /\ \A u \in users : u.id # n
      /\ \A v \in users' : v \in users \/ (v.id = n /\ v.email = e /\ v.tenant = t.id)
  <2>1. PICK te \in T!TenantIds \cup {System} : te = t.id
    BY <1>3
  <2> QED
    BY <1>2, <1>4, <2>1, UserAdded DEF AccountsInv
<1> HIDE DEF Idle
<1>6. req' = [req EXCEPT ![r] = Idle]
  BY <1>1
<1>7. orderly' \in BOOLEAN /\ (orderly' => orderly /\ (Alone \/ req[r] # Idle))
  BY <1>1
<1>8. AccountRequests' /\ Setups'
  BY <1>1, <1>2, <1>5, <1>6, <1>7, AccountsEnded
<1>9. TenantRows' /\ Administered'
  BY <1>2, <1>5 DEF AccountsInv, TenantRows, Administered, T!Tenant, T!TenantIds
<1>10. CustomersMatch'
  <2>1. customers \in [T!UserIds -> Emails \cup {NoEmail}] /\ n \in T!UserIds
    BY <1>2, <1>4 DEF AccountsInv, CustomersMatch
  <2>2. customers' = [customers EXCEPT ![n] = e]
    BY <1>2, <1>4
  <2>3. customers' \in [T!UserIds' -> Emails \cup {NoEmail}]
    BY <2>1, <2>2 DEF T!UserIds
  <2>4. ASSUME NEW id, Updating(id)
        PROVE  Updating(id)'
    <3>1. Idle' = Idle
      BY DEF Idle
    <3> QED
      BY <1>1, <2>4, <3>1 DEF Updating
  <2>5. ASSUME orderly', NEW v \in users', v.role = "CUSTOMER"
        PROVE  customers'[v.id] \in {v.email, NoEmail} \/ Updating(v.id)'
    <3>1. CASE v \in users
      <4>1. v.id \in T!UserIds /\ v.id # n
        BY <1>5, <3>1 DEF AccountsInv, UserRows, T!User
      <4>2. customers'[v.id] = customers[v.id]
        BY <2>1, <2>2, <4>1
      <4>3. customers[v.id] \in {v.email, NoEmail} \/ Updating(v.id)
        BY <1>7, <2>5, <3>1 DEF AccountsInv, CustomersMatch
      <4>4. PICK id : id = v.id
        OBVIOUS
      <4>5. customers[id] \in {v.email, NoEmail} \/ Updating(id)'
        BY <2>4, <4>3, <4>4
      <4> QED
        BY <4>2, <4>4, <4>5
    <3>2. CASE v.id = n /\ v.email = e
      BY <2>1, <2>2, <3>2
    <3> QED
      BY <1>5, <3>1, <3>2
  <2>6. \A v \in users' : orderly' /\ v.role = "CUSTOMER" =>
          customers'[v.id] \in {v.email, NoEmail} \/ Updating(v.id)'
    BY <2>5
  <2> QED
    BY <2>3, <2>6, Zenon DEF CustomersMatch
<1> QED
  BY <1>5, <1>8, <1>9, <1>10 DEF AccountsInv

\* setupSuperAdmin and createSuperAdmin write their account, if the email is free.
LEMMA SuperAdminCommitted ==
  ASSUME AccountsInv, NEW r \in Requests, T!CreateSuperAdminCommit(r)
  PROVE  AccountsInv'
<1>1. /\ req[r] # Idle /\ req[r].op \in {"setup", "createSuperAdmin"}
      /\ req' = [req EXCEPT ![r] = Idle] /\ orderly' = orderly
      /\ UNCHANGED <<tenants, customers>>
  BY DEF T!CreateSuperAdminCommit, T!At, T!Finish, T!Idle, Idle
<1>2. /\ orderly \in BOOLEAN /\ req[r].email \in Emails
      /\ orderly => AccountChecked(req[r])
      /\ req \in [Requests -> T!InFlight \cup {Idle}]
  BY <1>1, AccountRequest DEF AccountsInv, AccountRequests, AccountKnown
<1>3. orderly' \in BOOLEAN /\ (orderly' => orderly /\ (Alone \/ req[r] # Idle))
  BY <1>1, <1>2
<1>4. req[r] # Idle => req[r].op # "updateCustomer"
  BY <1>1
<1>5. TenantRows'
  BY <1>1 DEF AccountsInv, TenantRows, T!Tenant, T!TenantIds
<1> HIDE DEF Idle
<1>6. CASE UNCHANGED <<users, setups>>
  <2>1. AccountRequests' /\ Setups' /\ CustomersMatch'
    BY <1>1, <1>3, <1>4, <1>6, AccountsEnded
  <2>2. UserRows' /\ Administered'
    BY <1>1, <1>6 DEF AccountsInv, UserRows, Administered, T!User, T!UserIds, T!TenantIds
  <2> QED
    BY <1>5, <2>1, <2>2 DEF AccountsInv
<1>7. CASE /\ T!NewUser \in T!UserIds
           /\ T!EmailFree(System, req[r].email, 0)
           /\ users' = users \cup {[id |-> T!NewUser, tenant |-> System,
                                    email |-> req[r].email, role |-> "SUPER_ADMIN"]}
           /\ setups' = IF req[r].op = "setup" THEN setups \cup {T!NewUser} ELSE setups
  <2>1. PICK n : n = T!NewUser
    OBVIOUS
  <2>2. /\ UserRows'
        /\ users \subseteq users'
        /\ \E v \in users' : v.role = "SUPER_ADMIN"
        /\ \A v \in users' :
             v \in users \/ (v.role = "SUPER_ADMIN" /\ v.tenant = System)
    <3>1. PICK te \in T!TenantIds \cup {System} : te = System
      OBVIOUS
    <3>2. PICK e \in Emails : e = req[r].email
      BY <1>2
    <3>3. PICK role \in {"SUPER_ADMIN", "ADMIN", "CUSTOMER"} : role = "SUPER_ADMIN"
      OBVIOUS
    <3>4. /\ T!EmailFree(te, e, 0)
          /\ users' = users \cup
               {[id |-> T!NewUser, tenant |-> te, email |-> e, role |-> role]}
      BY <1>7, <3>1, <3>2, <3>3
    <3> QED
      BY <1>7, <3>1, <3>3, <3>4, UserAdded DEF AccountsInv
  <2>3. AccountRequests' /\ CustomersMatch'
    BY <1>1, <1>3, <1>4, <2>2, AccountsEnded
  <2>4. Setups'
    <3>1. CASE req[r].op = "setup"
      <4>1. setups' = setups \cup {n} /\ n \in T!UserIds
        BY <1>7, <2>1, <3>1
      <4>2. orderly' => setups = {}
        BY <1>1, <1>2, <3>1 DEF AccountChecked
      <4> QED
        BY <1>1, <1>2, <2>2, <3>1, <4>1, <4>2, SetupDone DEF AccountsInv
    <3>2. CASE req[r].op # "setup"
      BY <1>1, <1>3, <1>4, <1>7, <2>2, <3>2, AccountsEnded
    <3> QED
      BY <3>1, <3>2
  <2>5. Administered'
    BY <1>1, <2>2 DEF AccountsInv, Administered
  <2> QED
    BY <1>5, <2>2, <2>3, <2>4, <2>5 DEF AccountsInv
<1> QED
  BY <1>6, <1>7 DEF T!CreateSuperAdminCommit

\* createTenant writes the tenant and its administrator in one transaction.
LEMMA TenantCreated ==
  ASSUME AccountsInv, NEW r \in Requests, T!CreateTenantCommit(r)
  PROVE  AccountsInv'
<1>1. /\ req[r] # Idle /\ req[r].op = "createTenant"
      /\ req' = [req EXCEPT ![r] = Idle] /\ orderly' = orderly
      /\ UNCHANGED <<customers, setups>>
  BY DEF T!CreateTenantCommit, T!At, T!Finish, T!Idle, Idle
<1>2. /\ orderly \in BOOLEAN /\ req[r].email \in Emails
      /\ Lowercase[req[r].code] \in Codes /\ req[r].company \in Emails
  BY <1>1, AccountRequest, AccountsAssumption
     DEF AccountsInv, AccountRequests, AccountKnown
<1>3. orderly' \in BOOLEAN /\ (orderly' => orderly /\ (Alone \/ req[r] # Idle))
  BY <1>1, <1>2
<1>4. req[r] # Idle => req[r].op # "updateCustomer"
  BY <1>1
<1> HIDE DEF Idle
<1>5. CASE UNCHANGED <<tenants, users>>
  <2>1. AccountRequests' /\ Setups' /\ CustomersMatch'
    BY <1>1, <1>3, <1>4, <1>5, AccountsEnded
  <2>2. TenantRows' /\ UserRows' /\ Administered'
    BY <1>1, <1>5 DEF AccountsInv, TenantRows, UserRows, Administered, T!Tenant, T!User,
                      T!UserIds, T!TenantIds
  <2> QED
    BY <2>1, <2>2 DEF AccountsInv
<1>6. CASE /\ T!NewTenant \in T!TenantIds /\ T!NewUser \in T!UserIds
           /\ T!CodeFree(Lowercase[req[r].code])
           /\ tenants' = tenants \cup
                {[id |-> T!NewTenant, code |-> Lowercase[req[r].code],
                  email |-> req[r].company, status |-> "ACTIVE"]}
           /\ users' = users \cup {[id |-> T!NewUser, tenant |-> T!NewTenant,
                                    email |-> req[r].email, role |-> "ADMIN"]}
  <2>1. /\ TenantRows'
        /\ tenants \subseteq tenants'
        /\ \A t \in tenants : t.id # T!NewTenant
        /\ \E t \in tenants' : t.id = T!NewTenant
        /\ \A t \in tenants' : t \in tenants \/ t.id = T!NewTenant
    <3>1. PICK c \in Codes : c = Lowercase[req[r].code]
      BY <1>2
    <3>2. PICK e \in Emails : e = req[r].company
      BY <1>2
    <3> QED
      BY <1>6, <3>1, <3>2, TenantAdded DEF AccountsInv
  <2>2. PICK te \in T!TenantIds : te = T!NewTenant
    BY <1>6
  <2>3. /\ UserRows'
        /\ users \subseteq users'
        /\ \E v \in users' : v.tenant = te /\ v.role = "ADMIN"
        /\ \A v \in users' : v \in users \/ (v.role = "ADMIN" /\ v.tenant = te)
    <3>1. PICK x \in T!TenantIds \cup {System} : x = te
      OBVIOUS
    <3>2. PICK e \in Emails : e = req[r].email
      BY <1>2
    <3>3. PICK role \in {"SUPER_ADMIN", "ADMIN", "CUSTOMER"} : role = "ADMIN"
      OBVIOUS
    <3>4. users' = users \cup
            {[id |-> T!NewUser, tenant |-> x, email |-> e, role |-> role]}
      BY <1>6, <2>2, <3>1, <3>2, <3>3
    <3>5. T!EmailFree(x, e, 0)
      <4>1. \A u \in users : u.tenant # x
        <5>1. x \in Nat
          BY <2>2, <3>1, AccountsAssumption DEF T!TenantIds
        <5> QED
          BY <2>1, <2>2, <3>1, <5>1, AccountsAssumption DEF AccountsInv, Administered
      <4> QED
        BY <4>1 DEF T!EmailFree
    <3> QED
      BY <1>6, <3>1, <3>3, <3>4, <3>5, UserAdded DEF AccountsInv
  <2>4. AccountRequests' /\ Setups' /\ CustomersMatch'
    BY <1>1, <1>3, <1>4, <2>3, AccountsEnded
  <2>5. Administered'
    BY <2>1, <2>2, <2>3 DEF AccountsInv, Administered
  <2> QED
    BY <2>1, <2>3, <2>4, <2>5 DEF AccountsInv
<1> QED
  BY <1>5, <1>6 DEF T!CreateTenantCommit

\* updateProfile writes the email of an administrator, if it is free in the tenant.
LEMMA ProfileCommitted ==
  ASSUME AccountsInv, NEW r \in Requests, T!UpdateProfileCommit(r)
  PROVE  AccountsInv'
<1>1. /\ req[r] # Idle /\ req[r].op = "updateAdmin"
      /\ req' = [req EXCEPT ![r] = Idle] /\ orderly' = orderly
      /\ UNCHANGED <<tenants, customers, setups>>
  BY DEF T!UpdateProfileCommit, T!At, T!Finish, T!Idle, Idle
<1>2. /\ orderly \in BOOLEAN /\ req[r].email \in Emails
      /\ \E u \in users : u.id = req[r].target /\ u.role = "ADMIN"
  BY <1>1, AccountRequest DEF AccountsInv, AccountRequests, AccountKnown
<1>3. orderly' \in BOOLEAN /\ (orderly' => orderly /\ (Alone \/ req[r] # Idle))
  BY <1>1, <1>2
<1>4. req[r] # Idle => req[r].op # "updateCustomer"
  BY <1>1
<1>5. TenantRows'
  BY <1>1 DEF AccountsInv, TenantRows, T!Tenant, T!TenantIds
<1> HIDE DEF Idle
<1>6. CASE UNCHANGED users
  <2>1. AccountRequests' /\ Setups' /\ CustomersMatch'
    BY <1>1, <1>3, <1>4, <1>6, AccountsEnded
  <2>2. UserRows' /\ Administered'
    BY <1>1, <1>6 DEF AccountsInv, UserRows, Administered, T!User, T!UserIds, T!TenantIds
  <2> QED
    BY <1>5, <2>1, <2>2 DEF AccountsInv
<1>7. CASE /\ T!EmailFree(T!TenantOf(req[r].target), req[r].email, req[r].target)
           /\ users' = T!SetEmail(req[r].target, req[r].email)
  <2>1. PICK o \in users : o.id = req[r].target /\ o.role = "ADMIN"
    BY <1>2
  <2>2. PICK id : id = req[r].target
    OBVIOUS
  <2>3. PICK e \in Emails : e = req[r].email
    BY <1>2
  <2>4. /\ UserRows'
        /\ \A u \in users : \E v \in users' :
             v.id = u.id /\ v.tenant = u.tenant /\ v.role = u.role
        /\ \A v \in users' : \E u \in users :
             /\ v.id = u.id /\ v.tenant = u.tenant /\ v.role = u.role
             /\ v.email = IF u.id = id THEN e ELSE u.email
    <3>1. /\ o.id = id /\ T!EmailFree(T!TenantOf(id), e, id)
          /\ users' = T!SetEmail(id, e)
      BY <1>7, <2>1, <2>2, <2>3
    <3> QED
      BY <3>1, UserEmailed DEF AccountsInv
  <2>5. AccountRequests' /\ Setups'
    BY <1>1, <1>3, <1>4, <2>4, AccountsEnded
  <2>6. CustomersMatch'
    <3>1. ASSUME NEW v \in users', v.role = "CUSTOMER"
          PROVE  \E u \in users : u.id = v.id /\ u.role = "CUSTOMER" /\ u.email = v.email
      <4>1. PICK u \in users :
              /\ v.id = u.id /\ v.tenant = u.tenant /\ v.role = u.role
              /\ v.email = IF u.id = id THEN e ELSE u.email
        BY <2>4
      <4>2. u.id # id
        BY <2>1, <2>2, <3>1, <4>1 DEF AccountsInv, UserRows
      <4> QED
        BY <3>1, <4>1, <4>2
    <3> QED
      BY <1>1, <1>3, <1>4, <2>4, <3>1, AccountsEnded
  <2>7. Administered'
    BY <1>1, <2>4 DEF AccountsInv, Administered
  <2> QED
    BY <1>5, <2>4, <2>5, <2>6, <2>7 DEF AccountsInv
<1> QED
  BY <1>6, <1>7 DEF T!UpdateProfileCommit

\* What is left of a request when one of its two writes is done, or refused.
LEMMA AccountWritten ==
  ASSUME req \in [Requests -> T!InFlight \cup {Idle}], NEW r \in Requests, req[r] # Idle,
         NEW w \in req[r].todo, req' = [req EXCEPT ![r] = T!Without(@, w)]
  PROVE  /\ req' = [req EXCEPT ![r] = T!Without(req[r], w)]
         /\ req'[r] = T!Without(req[r], w)
         /\ \A s \in Requests \ {r} : req'[s] = req[s]
         /\ req'[r] # Idle =>
              /\ req'[r] \in T!InFlight
              /\ req'[r].op = req[r].op /\ req'[r].target = req[r].target
              /\ req'[r].email = req[r].email /\ req'[r].todo = req[r].todo \ {w}
         /\ req[r].todo # {w} => req'[r] # Idle
<1>1. req[r] \in T!InFlight
  OBVIOUS
<1>2. PICK q \in T!InFlight : q = req[r]
  BY <1>1
<1>3. PICK p : p = [q EXCEPT !.todo = q.todo \ {w}]
  OBVIOUS
<1>4. /\ p \in T!InFlight /\ p.op = q.op /\ p.target = q.target /\ p.email = q.email
      /\ p.todo = q.todo \ {w}
  BY <1>3 DEF T!InFlight
<1>5. p # Idle
  BY <1>4 DEF T!InFlight, Idle
<1>6. T!Without(q, w) = IF q.todo = {w} THEN Idle ELSE p
  BY <1>3 DEF T!Without, T!Idle, Idle
<1>7. req' = [req EXCEPT ![r] = T!Without(q, w)]
  BY <1>2
<1>8. req'[r] = T!Without(q, w) /\ \A s \in Requests \ {r} : req'[s] = req[s]
  BY <1>7
<1> HIDE DEF Idle
<1> QED
  BY <1>2, <1>4, <1>5, <1>6, <1>7, <1>8

\* The same, with the rows: what the write of one row of a customer comes to.
LEMMA AccountsWrote ==
  ASSUME AccountsInv, NEW r \in Requests, req[r] # Idle, req[r].op = "updateCustomer",
         NEW w \in req[r].todo, req' = [req EXCEPT ![r] = T!Without(@, w)],
         orderly' \in BOOLEAN, orderly' => orderly, UNCHANGED <<tenants, setups>>,
         UserRows',
         \A u \in users : \E v \in users' :
           v.id = u.id /\ v.tenant = u.tenant /\ v.role = u.role,
         \A v \in users' : \E u \in users :
           v.id = u.id /\ v.tenant = u.tenant /\ v.role = u.role,
         customers' \in [T!UserIds -> Emails \cup {NoEmail}],
         orderly' /\ (w = "customer" \/ "customer" \notin req[r].todo) =>
           customers'[req[r].target] = req[r].email,
         orderly' /\ req[r].email # NoEmail /\ (w = "user" \/ "user" \notin req[r].todo) =>
           \A v \in users' : v.id = req[r].target => v.email = req[r].email,
         orderly' => \A v \in users' : v.role = "CUSTOMER" /\ v.id # req[r].target =>
           \E u \in users : /\ u.id = v.id /\ u.role = "CUSTOMER" /\ u.email = v.email
                            /\ customers'[u.id] = customers[u.id]
  PROVE  AccountsInv'
<1>1. req \in [Requests -> T!InFlight \cup {Idle}] /\ orderly \in BOOLEAN
  BY DEF AccountsInv, AccountRequests
<1>2. /\ req' = [req EXCEPT ![r] = T!Without(req[r], w)]
      /\ req'[r] = T!Without(req[r], w)
      /\ \A s \in Requests \ {r} : req'[s] = req[s]
      /\ req'[r] # Idle =>
           /\ req'[r] \in T!InFlight
           /\ req'[r].op = req[r].op /\ req'[r].target = req[r].target
           /\ req'[r].email = req[r].email /\ req'[r].todo = req[r].todo \ {w}
      /\ req[r].todo # {w} => req'[r] # Idle
  BY <1>1, AccountWritten
<1>3. \E u \in users : u.id = req[r].target
  BY AccountRequest DEF AccountsInv, AccountKnown
<1>4. Idle' = Idle
  BY DEF Idle
<1> HIDE DEF Idle
<1>5. PICK q : q = req'[r]
  OBVIOUS
<1>6. req' = [req EXCEPT ![r] = q]
  BY <1>2, <1>5
<1>7. q # Idle => q \in T!InFlight /\ AccountKnown(q)
  BY <1>2, <1>3, <1>5 DEF AccountKnown
<1>8. q # Idle /\ orderly' => AccountChecked(q)'
  <2>1. ASSUME q # Idle, orderly'
        PROVE  AccountChecked(q)'
    <3>1. /\ q.op = "updateCustomer" /\ q.target = req[r].target /\ q.email = req[r].email
          /\ q.todo = req[r].todo \ {w}
      BY <1>2, <1>5, <2>1
    <3> QED
      BY <2>1, <3>1 DEF AccountChecked
  <2> QED
    BY <2>1
<1>9. AccountRequests'
  BY <1>6, <1>7, <1>8, AccountRequestsKept DEF AccountsInv
<1>10. Setups'
  <2>1. q # Idle => q.op # "setup"
    BY <1>2, <1>5
  <2>2. \A u \in users : \E v \in users' : v.role = u.role
    OBVIOUS
  <2>3. Setups
    BY DEF AccountsInv
  <2> QED
    BY <1>1, <1>6, <2>1, <2>2, <2>3, SetupsStay
<1>11. TenantRows'
  BY DEF AccountsInv, TenantRows, T!Tenant, T!TenantIds
<1>12. Administered'
  BY DEF AccountsInv, Administered
<1>13. CustomersMatch'
  <2>1. ASSUME NEW id, Updating(id), id # req[r].target \/ q # Idle
        PROVE  Updating(id)'
    <3>1. PICK s \in Requests :
            req[s] # Idle /\ req[s].op = "updateCustomer" /\ req[s].target = id
      BY <2>1 DEF Updating
    <3>2. CASE s = r
      BY <1>2, <1>4, <1>5, <2>1, <3>1, <3>2 DEF Updating
    <3>3. CASE s # r
      BY <1>2, <1>4, <3>1, <3>3 DEF Updating
    <3> QED
      BY <3>2, <3>3
  <2>2. ASSUME orderly', NEW v \in users', v.role = "CUSTOMER"
        PROVE  customers'[v.id] \in {v.email, NoEmail} \/ Updating(v.id)'
    <3>1. PICK id : id = v.id
      OBVIOUS
    <3>2. CASE id # req[r].target
      <4>1. PICK u \in users : /\ u.id = id /\ u.role = "CUSTOMER" /\ u.email = v.email
                               /\ customers'[u.id] = customers[u.id]
        BY <2>2, <3>1, <3>2
      <4>2. customers[u.id] \in {u.email, NoEmail} \/ Updating(u.id)
        BY <2>2, <4>1 DEF AccountsInv, CustomersMatch
      <4>3. customers'[id] \in {v.email, NoEmail} \/ Updating(id)
        BY <4>1, <4>2
      <4>4. customers'[id] \in {v.email, NoEmail} \/ Updating(id)'
        BY <2>1, <3>2, <4>3
      <4> QED
        BY <3>1, <4>4
    <3>3. CASE id = req[r].target /\ q # Idle
      <4>1. Updating(id)
        BY <3>3 DEF Updating
      <4>2. Updating(id)'
        BY <2>1, <3>3, <4>1
      <4> QED
        BY <3>1, <4>2
    <3>4. CASE id = req[r].target /\ q = Idle
      <4>1. req[r].todo = {w}
        BY <1>2, <1>5, <3>4
      <4>2. req[r].todo \in SUBSET {"user", "customer"}
        BY <1>1 DEF T!InFlight, T!Writes
      <4>3. /\ w = "customer" \/ "customer" \notin req[r].todo
            /\ w = "user" \/ "user" \notin req[r].todo
        BY <4>1, <4>2
      <4> QED
        BY <2>2, <3>1, <3>4, <4>3
    <3> QED
      BY <3>2, <3>3, <3>4
  <2>3. \A v \in users' : orderly' /\ v.role = "CUSTOMER" =>
          customers'[v.id] \in {v.email, NoEmail} \/ Updating(v.id)'
    BY <2>2
  <2>4. customers' \in [T!UserIds' -> Emails \cup {NoEmail}]
    BY DEF T!UserIds
  <2> QED
    BY <2>3, <2>4, Zenon DEF CustomersMatch
<1> QED
  BY <1>9, <1>10, <1>11, <1>12, <1>13 DEF AccountsInv

\* The row that the profile shows is written.
LEMMA CustomerWritten ==
  ASSUME AccountsInv, NEW r \in Requests, T!WriteCustomer(r)
  PROVE  AccountsInv'
<1>1. /\ req[r] # Idle /\ req[r].op = "updateCustomer" /\ "customer" \in req[r].todo
      /\ req' = [req EXCEPT ![r] = T!Without(@, "customer")]
      /\ orderly' = (orderly /\ TRUE)
      /\ customers' = [customers EXCEPT ![req[r].target] = req[r].email]
      /\ UNCHANGED <<tenants, users, setups>>
  BY DEF T!WriteCustomer, T!Wrote, T!At, T!Idle, Idle
<1>2. /\ orderly \in BOOLEAN /\ req[r].email \in Emails \cup {NoEmail}
      /\ orderly => AccountChecked(req[r])
      /\ \E u \in users : u.id = req[r].target
  BY <1>1, AccountRequest DEF AccountsInv, AccountRequests, AccountKnown
<1>3. orderly' \in BOOLEAN /\ (orderly' => orderly)
  BY <1>1, <1>2
<1>4. PICK o \in users : o.id = req[r].target
  BY <1>2
<1>5. o.id \in T!UserIds /\ customers \in [T!UserIds -> Emails \cup {NoEmail}]
  BY DEF AccountsInv, UserRows, T!User, CustomersMatch
<1> HIDE DEF Idle
<1>6. /\ customers' \in [T!UserIds -> Emails \cup {NoEmail}]
      /\ customers'[req[r].target] = req[r].email
      /\ \A i \in T!UserIds : i # req[r].target => customers'[i] = customers[i]
  BY <1>1, <1>2, <1>4, <1>5
<1>7. UserRows'
  BY <1>1 DEF AccountsInv, UserRows, T!User, T!UserIds, T!TenantIds
<1>8. orderly' /\ req[r].email # NoEmail /\ "user" \notin req[r].todo =>
        \A v \in users' : v.id = req[r].target => v.email = req[r].email
  BY <1>1, <1>2, <1>3 DEF AccountChecked
<1>9. \A v \in users' : v.role = "CUSTOMER" /\ v.id # req[r].target =>
        \E u \in users : /\ u.id = v.id /\ u.role = "CUSTOMER" /\ u.email = v.email
                         /\ customers'[u.id] = customers[u.id]
  BY <1>1, <1>6 DEF AccountsInv, UserRows, T!User
<1>10. PICK w \in req[r].todo : w = "customer"
  BY <1>1
<1>11. req' = [req EXCEPT ![r] = T!Without(@, w)]
  BY <1>1, <1>10
<1>12. /\ UNCHANGED <<tenants, setups>>
       /\ \A u \in users : \E v \in users' :
            v.id = u.id /\ v.tenant = u.tenant /\ v.role = u.role
       /\ \A v \in users' : \E u \in users :
            v.id = u.id /\ v.tenant = u.tenant /\ v.role = u.role
  BY <1>1
<1>13. w # "user"
  BY <1>10
<1> QED
  BY <1>1, <1>3, <1>6, <1>7, <1>8, <1>9, <1>11, <1>12, <1>13, AccountsWrote

\* The row that logs in is written, if the email is free in the tenant.
LEMMA AccountUserWritten ==
  ASSUME AccountsInv, NEW r \in Requests, T!WriteUser(r)
  PROVE  AccountsInv'
<1>1. PICK b \in BOOLEAN :
        b = (\/ req[r].email = NoEmail
             \/ T!EmailFree(T!TenantOf(req[r].target), req[r].email, req[r].target))
  BY DEF T!EmailFree
<1>2. /\ req[r] # Idle /\ req[r].op = "updateCustomer" /\ "user" \in req[r].todo
      /\ req' = [req EXCEPT ![r] = T!Without(@, "user")]
      /\ orderly' = (orderly /\ b)
      /\ users' = IF b /\ req[r].email # NoEmail
                 THEN T!SetEmail(req[r].target, req[r].email) ELSE users
      /\ UNCHANGED <<tenants, customers, setups>>
  BY <1>1 DEF T!WriteUser, T!Wrote, T!At, T!Idle, Idle
<1>3. /\ orderly \in BOOLEAN /\ req[r].email \in Emails \cup {NoEmail}
      /\ orderly => AccountChecked(req[r])
      /\ \E u \in users : u.id = req[r].target
  BY <1>2, AccountRequest DEF AccountsInv, AccountRequests, AccountKnown
<1>4. orderly' \in BOOLEAN /\ (orderly' => orderly /\ b)
  BY <1>2, <1>3
<1>5. customers' \in [T!UserIds -> Emails \cup {NoEmail}]
  BY <1>2 DEF AccountsInv, CustomersMatch
<1> HIDE DEF Idle
<1>6. orderly' /\ "customer" \notin req[r].todo =>
        customers'[req[r].target] = req[r].email
  BY <1>2, <1>3, <1>4 DEF AccountChecked
<1>7. PICK w \in req[r].todo : w = "user"
  BY <1>2
<1>8. req' = [req EXCEPT ![r] = T!Without(@, w)] /\ w # "customer"
  BY <1>2, <1>7
<1>9. CASE ~b \/ req[r].email = NoEmail
  <2>1. users' = users /\ (orderly' => req[r].email = NoEmail)
    BY <1>2, <1>4, <1>9
  <2>2. UserRows'
    BY <2>1 DEF AccountsInv, UserRows, T!User, T!UserIds, T!TenantIds
  <2>3. /\ UNCHANGED <<tenants, setups>>
        /\ \A u \in users : \E v \in users' :
             v.id = u.id /\ v.tenant = u.tenant /\ v.role = u.role
        /\ \A v \in users' : \E u \in users :
             v.id = u.id /\ v.tenant = u.tenant /\ v.role = u.role
    BY <1>2, <2>1
  <2>4. \A v \in users' : v.role = "CUSTOMER" /\ v.id # req[r].target =>
          \E u \in users : /\ u.id = v.id /\ u.role = "CUSTOMER" /\ u.email = v.email
                           /\ customers'[u.id] = customers[u.id]
    BY <1>2, <2>1
  <2> QED
    BY <1>2, <1>4, <1>5, <1>6, <1>8, <2>1, <2>2, <2>3, <2>4, AccountsWrote
<1>10. CASE b /\ req[r].email # NoEmail
  <2>1. PICK id : id = req[r].target
    OBVIOUS
  <2>2. PICK e \in Emails : e = req[r].email
    BY <1>3, <1>10
  <2>3. PICK o \in users : o.id = id
    BY <1>3, <2>1
  <2>4. T!EmailFree(T!TenantOf(id), e, id) /\ users' = T!SetEmail(id, e)
    BY <1>1, <1>2, <1>10, <2>1, <2>2
  <2>5. /\ UserRows'
        /\ \A u \in users : \E v \in users' :
             v.id = u.id /\ v.tenant = u.tenant /\ v.role = u.role
        /\ \A v \in users' : \E u \in users :
             /\ v.id = u.id /\ v.tenant = u.tenant /\ v.role = u.role
             /\ v.email = IF u.id = id THEN e ELSE u.email
    BY <2>3, <2>4, UserEmailed DEF AccountsInv
  <2>6. \A v \in users' : v.id = req[r].target => v.email = req[r].email
    BY <2>1, <2>2, <2>5
  <2>7. \A v \in users' : v.role = "CUSTOMER" /\ v.id # req[r].target =>
          \E u \in users : /\ u.id = v.id /\ u.role = "CUSTOMER" /\ u.email = v.email
                           /\ customers'[u.id] = customers[u.id]
    BY <1>2, <2>1, <2>5
  <2>8. UNCHANGED <<tenants, setups>>
    BY <1>2
  <2>9. /\ \A u \in users : \E v \in users' :
             v.id = u.id /\ v.tenant = u.tenant /\ v.role = u.role
        /\ \A v \in users' : \E u \in users :
             v.id = u.id /\ v.tenant = u.tenant /\ v.role = u.role
    BY <2>5
  <2> QED
    BY <1>2, <1>4, <1>5, <1>6, <1>8, <2>5, <2>6, <2>7, <2>8, <2>9, AccountsWrote
<1> QED
  BY <1>9, <1>10

\* A handler that fails leaves what it wrote.
LEMMA AccountsFailed ==
  ASSUME AccountsInv, NEW r \in Requests, T!Fail(r)
  PROVE  AccountsInv'
<1>1. /\ req[r] # Idle /\ req' = [req EXCEPT ![r] = Idle] /\ orderly' = FALSE
      /\ UNCHANGED <<tenants, users, customers, setups>>
  BY DEF T!Fail, T!Abandon, T!Idle, Idle, T!rowVars
<1>2. req \in [Requests -> T!InFlight \cup {Idle}]
  BY DEF AccountsInv, AccountRequests
<1> HIDE DEF Idle
<1>3. PICK q : q = Idle
  OBVIOUS
<1>4. AccountRequests'
  BY <1>1, <1>3, AccountRequestsKept DEF AccountsInv
<1>5. Setups'
  BY <1>1, <1>2, <1>3, SetupsStay DEF AccountsInv
<1>6. CustomersMatch'
  BY <1>1 DEF AccountsInv, CustomersMatch, T!UserIds
<1>7. TenantRows' /\ UserRows' /\ Administered'
  BY <1>1 DEF AccountsInv, TenantRows, UserRows, Administered, T!Tenant, T!User,
              T!UserIds, T!TenantIds
<1> QED
  BY <1>4, <1>5, <1>6, <1>7 DEF AccountsInv

\* Every step of the handlers of tenants and accounts.
LEMMA AccountsNext == AccountsInv /\ [T!Next]_(T!vars) => AccountsInv'
<1> SUFFICES ASSUME AccountsInv, [T!Next]_(T!vars) PROVE AccountsInv'
  OBVIOUS
<1>1. CASE UNCHANGED T!vars
  <2>1. UNCHANGED <<tenants, users, customers, setups, req, orderly>>
    BY <1>1 DEF T!vars
  <2>2. TenantRows' /\ UserRows' /\ Administered' /\ CustomersMatch'
    BY <2>1 DEF AccountsInv, TenantRows, UserRows, Administered, CustomersMatch, Updating,
                Idle, T!Tenant, T!User, T!UserIds, T!TenantIds
  <2>3. PendingSetups' = PendingSetups
    BY <2>1 DEF PendingSetups, Idle
  <2>4. Setups'
    BY <2>1, <2>3 DEF AccountsInv, Setups, T!UserIds
  <2>5. AccountRequests'
    BY <2>1 DEF AccountsInv, AccountRequests, AccountKnown, AccountChecked, SingleFlight,
                Idle, T!InFlight, T!Writes
  <2> QED
    BY <2>2, <2>4, <2>5 DEF AccountsInv
<1> SUFFICES ASSUME NEW r \in Requests, T!Call(r) \/ T!Step(r) \/ T!Fail(r)
             PROVE  AccountsInv'
  BY <1>1 DEF T!Next
<1>2. CASE T!Call(r)
  <2>1. ASSUME NEW e \in Emails, T!SetupSuperAdmin(r, e) \/ T!CreateSuperAdmin(r, e)
        PROVE  AccountsInv'
    BY <2>1, AccountsCalled
  <2>2. ASSUME NEW c \in Codes, NEW company \in Emails, NEW e \in Emails,
               T!CreateTenant(r, c, company, e)
        PROVE  AccountsInv'
    BY <2>2, AccountsCalled
  <2>3. ASSUME NEW t \in tenants, NEW e \in Emails,
               \/ T!UpdateTenant(r, t, e)
               \/ T!UpdateCompanySettings(r, t, e)
               \/ T!RegisterCustomer(r, t, e)
        PROVE  AccountsInv'
    BY <2>3, AccountsCalled, TenantSettingsWritten, CustomerRegistered
  <2>4. ASSUME NEW t \in tenants, NEW status \in {"ACTIVE", "SUSPENDED", "EXPIRED"},
               T!UpdateTenantStatus(r, t, status)
        PROVE  AccountsInv'
    BY <2>4, TenantSettingsWritten
  <2>5. ASSUME NEW u \in users, NEW e \in Emails, T!UpdateProfile(r, u, e)
        PROVE  AccountsInv'
    BY <2>5, AccountsCalled
  <2>6. ASSUME NEW u \in users, NEW e \in Emails \cup {NoEmail}, T!UpdateCustomer(r, u, e)
        PROVE  AccountsInv'
    BY <2>6, CustomerCalled
  <2> QED
    BY <1>2, <2>1, <2>2, <2>3, <2>4, <2>5, <2>6 DEF T!Call
<1>3. CASE T!Step(r)
  BY <1>3, SuperAdminCommitted, TenantCreated, TenantCommitted, ProfileCommitted,
     CustomerWritten, AccountUserWritten DEF T!Step
<1>4. CASE T!Fail(r)
  BY <1>4, AccountsFailed
<1> QED
  BY <1>2, <1>3, <1>4

\* No tenant and no account yet.
LEMMA AccountsInit == T!Init => AccountsInv
<1> SUFFICES ASSUME T!Init PROVE AccountsInv
  OBVIOUS
<1>1. /\ tenants = {} /\ users = {} /\ setups = {} /\ orderly = TRUE
      /\ customers = [i \in T!UserIds |-> NoEmail]
      /\ \A r \in Requests : req[r] = Idle
      /\ req \in [Requests -> {Idle}]
  BY DEF T!Init, T!NoRequests, T!Idle, Idle
<1> HIDE DEF Idle
<1>2. AccountRequests
  BY <1>1 DEF AccountRequests, SingleFlight
<1>3. TenantRows /\ UserRows /\ Administered
  BY <1>1, FS_EmptySet DEF TenantRows, UserRows, Administered
<1>4. Setups
  <2>1. PendingSetups = {}
    BY <1>1 DEF PendingSetups
  <2>2. Cardinality({}) = 0 /\ Cardinality(Requests) \in Nat
    BY FS_EmptySet, FS_CardinalityType, RequestsAssumption
  <2> QED
    BY <1>1, <2>1, <2>2 DEF Setups
<1>5. CustomersMatch
  BY <1>1 DEF CustomersMatch
<1> QED
  BY <1>2, <1>3, <1>4, <1>5 DEF AccountsInv

\* What the invariant says of setups, of codes, of emails and of customers.
LEMMA AccountsInvSound == AccountsInv => T!AccountsSound /\ T!TypeOK
<1> SUFFICES ASSUME AccountsInv PROVE T!AccountsSound /\ T!TypeOK
  OBVIOUS
<1>1. T!TypeOK
  BY DEF AccountsInv, AccountRequests, TenantRows, UserRows, CustomersMatch, Setups,
         T!TypeOK, T!Idle, Idle
<1>2. \A X : T!Cardinality(X) = Cardinality(X)
  BY DEF T!Cardinality, Cardinality
<1>3. Cardinality(setups) <= IF orderly THEN 1 ELSE Cardinality(Requests)
  <2>1. CASE orderly
    <3>1. \A i, k \in setups : i = k
      BY <2>1 DEF AccountsInv, Setups
    <3>2. Cardinality(setups) \in 0..1
      BY <3>1, AtMostOne
    <3> QED
      BY <2>1, <3>2
  <2>2. CASE ~orderly
    <3>1. PendingSetups \in SUBSET Requests
      BY DEF PendingSetups
    <3>2. Cardinality(PendingSetups) \in Nat /\ Cardinality(Requests) \in Nat
      BY <3>1, PartCount, RequestsAssumption
    <3>3. Cardinality(setups) \in Nat
      <4>1. IsFiniteSet(1..MaxUsers)
        BY FS_Interval, AccountsAssumption
      <4>2. setups \in SUBSET (1..MaxUsers)
        BY DEF AccountsInv, Setups, T!UserIds
      <4> QED
        BY <4>1, <4>2, PartCount
    <3> QED
      BY <2>2, <3>2, <3>3 DEF AccountsInv, Setups
  <2> QED
    BY <1>1, <2>1, <2>2 DEF T!TypeOK
<1>4. ASSUME NEW c \in Codes
      PROVE  Cardinality(T!TenantsByCode(Lowercase[c])) <= 1
  <2>1. \A s, t \in T!TenantsByCode(Lowercase[c]) : s = t
    BY DEF T!TenantsByCode, AccountsInv, TenantRows
  <2>2. Cardinality(T!TenantsByCode(Lowercase[c])) \in 0..1
    BY <2>1, AtMostOne
  <2> QED
    BY <2>2
<1>5. ASSUME orderly, T!Alone, NEW t \in tenants, NEW row \in T!ListCustomers(t)
      PROVE  /\ T!ProfileEmail(row.account) = row.email
             /\ row.email # NoEmail =>
                  [id |-> row.account, tenant |-> t.id, email |-> row.email,
                   role |-> "CUSTOMER"] \in users
  <2>1. PICK u \in users : /\ u.tenant = t.id /\ u.role = "CUSTOMER"
                           /\ row = [account |-> u.id, email |-> customers[u.id]]
    BY DEF T!ListCustomers
  <2>2. ~Updating(u.id)
    BY <1>5 DEF T!Alone, T!Idle, Idle, Updating
  <2>3. customers[u.id] \in {u.email, NoEmail}
    BY <1>5, <2>1, <2>2 DEF AccountsInv, CustomersMatch
  <2>4. row.account = u.id /\ row.email = customers[u.id]
    BY <2>1
  <2>5. [id |-> u.id, tenant |-> u.tenant, email |-> u.email, role |-> u.role] = u
    BY DEF AccountsInv, UserRows, T!User
  <2> QED
    BY <2>1, <2>3, <2>4, <2>5 DEF T!ProfileEmail
<1>6. /\ \A u, v \in users : u.tenant = v.tenant /\ u.email = v.email => u = v
      /\ \A t \in tenants : \E u \in users : u.tenant = t.id /\ u.role = "ADMIN"
  BY DEF AccountsInv, UserRows, Administered
<1>7. T!AccountsSound
  BY <1>2, <1>3, <1>4, <1>5, <1>6 DEF T!AccountsSound
<1> QED
  BY <1>1, <1>7
-----------------------------------------------------------------------------
(* The whole back office *)

\* The rows of a component that a behaviour is not about stay the first ones.
WorkdayUntouched ==
  /\ shifts = {}
  /\ place = [e \in Technicians |-> Nowhere]
  /\ routeEnd = [e \in Technicians |-> Nowhere]
  /\ reported = [e \in Technicians |-> Nowhere]

SkillsUntouched ==
  /\ skills = [i \in S!Ids |-> Absent]
  /\ level = [p \in Technicians \X S!Ids |-> 0]
  /\ granted = {}

AccountsUntouched ==
  tenants = {} /\ users = {} /\ setups = {}

AddressesUntouched ==
  /\ rows = [i \in D!Ids |-> Absent]
  /\ wanted = [l \in Labels |-> Absent]

CatalogUntouched ==
  /\ entries = [i \in C!Ids |-> Absent]
  /\ strays = {} /\ removed = {}

WorkdayAlways ==
  (area = "attendance" => AttendanceInv) /\ (area # "attendance" => WorkdayUntouched)

SkillsAlways ==
  (area = "skills" => SkillsInv) /\ (area # "skills" => SkillsUntouched)

AccountsAlways ==
  (area = "accounts" => AccountsInv) /\ (area # "accounts" => AccountsUntouched)

AddressesAlways ==
  (area = "addresses" => AddressesInv) /\ (area # "addresses" => AddressesUntouched)

CatalogAlways ==
  (area = "catalog" => CatalogInv) /\ (area # "catalog" => CatalogUntouched)

\* The invariant of attendance, in any behaviour of the whole.
LEMMA WorkdayInvariant == Spec => []WorkdayAlways
<1>1. Init => WorkdayAlways
  BY AttendanceInit DEF Init, A!Init, WorkdayAlways, WorkdayUntouched
<1>2. WorkdayAlways /\ [Next]_vars => WorkdayAlways'
  <2> SUFFICES ASSUME WorkdayAlways, [Next]_vars PROVE WorkdayAlways'
    OBVIOUS
  <2>1. area' = area
    BY DEF Next, vars
  <2>2. CASE area = "attendance"
    <3>1. [A!Next]_(A!vars)
      BY <2>2 DEF Next, vars, A!vars, ofAttendance
    <3> QED
      BY <2>1, <2>2, <3>1, AttendanceNext DEF WorkdayAlways
  <2>3. CASE area # "attendance"
    <3>1. UNCHANGED ofAttendance
      BY <2>3 DEF Next, vars
    <3> QED
      BY <2>1, <2>3, <3>1 DEF WorkdayAlways, WorkdayUntouched, ofAttendance
  <2> QED
    BY <2>2, <2>3
<1> QED
  BY <1>1, <1>2, PTL DEF Spec

\* The invariant of skills, in any behaviour of the whole.
LEMMA SkillsInvariant == Spec => []SkillsAlways
<1>1. Init => SkillsAlways
  BY SkillsInit DEF Init, S!Init, SkillsAlways, SkillsUntouched
<1>2. SkillsAlways /\ [Next]_vars => SkillsAlways'
  <2> SUFFICES ASSUME SkillsAlways, [Next]_vars PROVE SkillsAlways'
    OBVIOUS
  <2>1. area' = area
    BY DEF Next, vars
  <2>2. CASE area = "skills"
    <3>1. [S!Next]_(S!vars)
      BY <2>2 DEF Next, vars, S!vars, ofSkills
    <3> QED
      BY <2>1, <2>2, <3>1, SkillsNext DEF SkillsAlways
  <2>3. CASE area # "skills"
    <3>1. UNCHANGED ofSkills
      BY <2>3 DEF Next, vars
    <3> QED
      BY <2>1, <2>3, <3>1 DEF SkillsAlways, SkillsUntouched, ofSkills, S!Ids
  <2> QED
    BY <2>2, <2>3
<1> QED
  BY <1>1, <1>2, PTL DEF Spec

\* The invariant of accounts, in any behaviour of the whole.
LEMMA AccountsInvariant == Spec => []AccountsAlways
<1>1. Init => AccountsAlways
  BY AccountsInit DEF Init, T!Init, AccountsAlways, AccountsUntouched
<1>2. AccountsAlways /\ [Next]_vars => AccountsAlways'
  <2> SUFFICES ASSUME AccountsAlways, [Next]_vars PROVE AccountsAlways'
    OBVIOUS
  <2>1. area' = area
    BY DEF Next, vars
  <2>2. CASE area = "accounts"
    <3>1. [T!Next]_(T!vars)
      BY <2>2 DEF Next, vars, T!vars, ofAccounts
    <3> QED
      BY <2>1, <2>2, <3>1, AccountsNext DEF AccountsAlways
  <2>3. CASE area # "accounts"
    <3>1. UNCHANGED ofAccounts
      BY <2>3 DEF Next, vars
    <3> QED
      BY <2>1, <2>3, <3>1 DEF AccountsAlways, AccountsUntouched, ofAccounts
  <2> QED
    BY <2>2, <2>3
<1> QED
  BY <1>1, <1>2, PTL DEF Spec

\* The invariant of addresses, in any behaviour of the whole.
LEMMA AddressesInvariant == Spec => []AddressesAlways
<1>1. Init => AddressesAlways
  BY AddressesInit DEF Init, D!Init, AddressesAlways, AddressesUntouched
<1>2. AddressesAlways /\ [Next]_vars => AddressesAlways'
  <2> SUFFICES ASSUME AddressesAlways, [Next]_vars PROVE AddressesAlways'
    OBVIOUS
  <2>1. area' = area
    BY DEF Next, vars
  <2>2. CASE area = "addresses"
    <3>1. [D!Next]_(D!vars)
      BY <2>2 DEF Next, vars, D!vars, ofAddresses
    <3> QED
      BY <2>1, <2>2, <3>1, AddressesNext DEF AddressesAlways
  <2>3. CASE area # "addresses"
    <3>1. UNCHANGED ofAddresses
      BY <2>3 DEF Next, vars
    <3> QED
      BY <2>1, <2>3, <3>1 DEF AddressesAlways, AddressesUntouched, ofAddresses, D!Ids
  <2> QED
    BY <2>2, <2>3
<1> QED
  BY <1>1, <1>2, PTL DEF Spec

\* The invariant of the catalogue, in any behaviour of the whole.
LEMMA CatalogInvariant == Spec => []CatalogAlways
<1>1. Init => CatalogAlways
  BY CatalogInit DEF Init, C!Init, CatalogAlways, CatalogUntouched
<1>2. CatalogAlways /\ [Next]_vars => CatalogAlways'
  <2> SUFFICES ASSUME CatalogAlways, [Next]_vars PROVE CatalogAlways'
    OBVIOUS
  <2>1. area' = area
    BY DEF Next, vars
  <2>2. CASE area = "catalog"
    <3>1. [C!Next]_(C!vars)
      BY <2>2 DEF Next, vars, C!vars, ofCatalog
    <3> QED
      BY <2>1, <2>2, <3>1, CatalogNext DEF CatalogAlways
  <2>3. CASE area # "catalog"
    <3>1. UNCHANGED ofCatalog
      BY <2>3 DEF Next, vars
    <3> QED
      BY <2>1, <2>3, <3>1 DEF CatalogAlways, CatalogUntouched, ofCatalog, C!Ids
  <2> QED
    BY <2>2, <2>3
<1> QED
  BY <1>1, <1>2, PTL DEF Spec

\* Attendance: however check-ins, check-outs, reports of places and midnights
\* interleave or fail, no day has more shifts of a technician than there are
\* requests, and one at a time it has one, and dashboard, history, list and map
\* agree as far as the caps of the two lists allow (checkIn, checkOut,
\* updateLocation).
THEOREM WorkdaysAreSound == Spec => []WorkdaySound
<1>1. ASSUME WorkdayAlways PROVE WorkdaySound
  <2>1. CASE area = "attendance"
    BY <1>1, <2>1, AttendanceInvSound DEF WorkdayAlways, WorkdaySound
  <2>2. CASE area # "attendance"
    <3>1. WorkdayUntouched
      BY <1>1, <2>2 DEF WorkdayAlways
    <3>2. /\ A!Cardinality({}) = 0 /\ A!Cardinality({FALSE}) = 1
          /\ A!Cardinality(Requests) \in Nat
      BY FS_EmptySet, FS_Singleton, FS_CardinalityType, RequestsAssumption
         DEF A!Cardinality, Cardinality
    <3>3. ASSUME NEW e \in Technicians
          PROVE  /\ \A day \in A!Days : A!ShiftsOf(e, day) = {}
                 /\ A!IsCheckedIn(e) = {FALSE}
                 /\ A!AttendanceCount(e) = 0
                 /\ \A recent \in A!RecentHistory(e) : recent = {}
                 /\ A!LocationShown(e) = reported[e] /\ A!RouteEnd(e) = Nowhere
      <4>1. \A day : A!ShiftsOf(e, day) = {}
        BY <3>1 DEF WorkdayUntouched, A!ShiftsOf
      <4>2. A!IsCheckedIn(e) = {FALSE}
        BY <4>1 DEF A!IsCheckedIn
      <4>3. {s \in shifts : s.tech = e} = {} /\ A!HistoryOf(e, A!Days) = {}
        BY <3>1 DEF WorkdayUntouched, A!HistoryOf
      <4>4. A!AttendanceCount(e) = 0
        BY <3>2, <4>3 DEF A!AttendanceCount
      <4>5. \A recent \in A!RecentHistory(e) : recent = {}
        BY <4>3 DEF A!RecentHistory, A!Newest
      <4> QED
        BY <3>1, <4>1, <4>2, <4>4, <4>5
        DEF WorkdayUntouched, A!LocationShown, A!RouteEnd
    <3>4. ASSUME NEW e \in Technicians
          PROVE  /\ \A day \in A!Days :
                      A!Cardinality(A!ShiftsOf(e, day)) <=
                        IF orderly THEN 1 ELSE A!Cardinality(Requests)
                 /\ A!Cardinality(A!IsCheckedIn(e)) = 1
                 /\ \A recent \in A!RecentHistory(e),
                       listed \in A!ListAttendance(e, A!Days) :
                      /\ recent \subseteq listed
                      /\ A!Cardinality({s.date : s \in recent}) =
                           IF A!AttendanceCount(e) <= HistoryCap
                           THEN A!AttendanceCount(e) ELSE HistoryCap
                 /\ A!LocationShown(e) = reported[e]
                 /\ A!RouteEnd(e) = Nowhere
      <4>1. ASSUME NEW day \in A!Days
            PROVE  A!Cardinality(A!ShiftsOf(e, day)) <=
                     IF orderly THEN 1 ELSE A!Cardinality(Requests)
        <5>1. A!Cardinality(A!ShiftsOf(e, day)) = 0
          BY <3>2, <3>3
        <5> QED
          BY <3>2, <5>1
      <4>2. A!Cardinality(A!IsCheckedIn(e)) = 1
        BY <3>2, <3>3
      <4>3. ASSUME NEW recent \in A!RecentHistory(e),
                   NEW listed \in A!ListAttendance(e, A!Days)
            PROVE  /\ recent \subseteq listed
                   /\ A!Cardinality({s.date : s \in recent}) =
                        IF A!AttendanceCount(e) <= HistoryCap
                        THEN A!AttendanceCount(e) ELSE HistoryCap
        <5>1. recent = {} /\ {s.date : s \in recent} = {} /\ A!AttendanceCount(e) = 0
          BY <3>3
        <5>2. A!Cardinality({s.date : s \in recent}) = 0 /\ 0 <= HistoryCap
          BY <3>2, <5>1, AttendanceAssumption
        <5> QED
          BY <5>1, <5>2
      <4> QED
        BY <3>3, <4>1, <4>2, <4>3
    <3> QED
      BY <3>4, Zenon DEF WorkdaySound, A!WorkdaySound
  <2> QED
    BY <1>1, <2>1, <2>2
<1> QED
  BY <1>1, WorkdayInvariant, PTL

\* Skills: no two skills have one name, recommendations follow what was assigned
\* and not removed since, and one request at a time names differ in more than the
\* case of letters (createSkill, updateSkill, updateTechnicianSkill, removeSkill).
THEOREM SkillsAreSound == Spec => []SkillsSound
<1>1. ASSUME SkillsAlways PROVE SkillsSound
  <2>1. CASE area = "skills"
    BY <1>1, <2>1, SkillsInvSound DEF SkillsAlways, SkillsSound
  <2>2. CASE area # "skills"
    <3>1. SkillsUntouched
      BY <1>1, <2>2 DEF SkillsAlways
    <3>2. /\ S!Existing = {} /\ S!ListSkills(BOOLEAN) = {}
          /\ \A i \in S!Ids : S!Recommended(i) = {}
          /\ \A e \in Technicians : S!SkillsOf(e) = {}
          /\ granted = {}
      BY <3>1 DEF SkillsUntouched, S!Existing, S!ListSkills, S!Recommended, S!SkillsOf
    <3> QED
      BY <3>2 DEF SkillsSound, S!SkillsSound
  <2> QED
    BY <1>1, <2>1, <2>2
<1> QED
  BY <1>1, SkillsInvariant, PTL

\* Accounts: a tenant code and an email mean one row, every tenant has an
\* administrator, the open setup makes no more super admins than there are
\* requests and one at a time just one, and a customer logs in with the email that
\* is shown, if any is (setupSuperAdmin, createTenant, updateTenant, updateProfile).
THEOREM AccountsAreSound == Spec => []AccountsSound
<1>1. ASSUME AccountsAlways PROVE AccountsSound
  <2>1. CASE area = "accounts"
    BY <1>1, <2>1, AccountsInvSound DEF AccountsAlways, AccountsSound
  <2>2. CASE area # "accounts"
    <3>1. tenants = {} /\ users = {} /\ setups = {}
      BY <1>1, <2>2 DEF AccountsAlways, AccountsUntouched
    <3>2. T!Cardinality({}) = 0 /\ T!Cardinality(Requests) \in Nat
      BY FS_EmptySet, FS_CardinalityType, RequestsAssumption
         DEF T!Cardinality, Cardinality
    <3>3. \A c : T!TenantsByCode(c) = {}
      BY <3>1 DEF T!TenantsByCode
    <3> QED
      BY <3>1, <3>2, <3>3 DEF AccountsSound, T!AccountsSound
  <2> QED
    BY <1>1, <2>1, <2>2
<1> QED
  BY <1>1, AccountsInvariant, PTL

\* Addresses: under each label a customer sees just what was last saved there and
\* not deleted since, however the requests interleave (addAddress, updateAddress,
\* deleteAddress).
THEOREM AddressesAreSound == Spec => []AddressesSound
<1>1. ASSUME AddressesAlways PROVE AddressesSound
  <2>1. CASE area = "addresses"
    BY <1>1, <2>1, AddressesInvSound DEF AddressesAlways, AddressesSound
  <2>2. CASE area # "addresses"
    <3>1. AddressesUntouched
      BY <1>1, <2>2 DEF AddressesAlways
    <3>2. D!Cardinality({}) = 0
      BY FS_EmptySet DEF D!Cardinality, Cardinality
    <3>3. D!Existing = {} /\ D!GetAddresses = {}
      BY <3>1 DEF AddressesUntouched, D!Existing, D!GetAddresses
    <3>4. ASSUME NEW l \in Labels
          PROVE  /\ D!Shown(l) = {wanted[l]} \ {Absent}
                 /\ D!Cardinality({i \in D!Existing : rows[i].label = l}) <= 1
      <4>1. D!Shown(l) = {} /\ wanted[l] = Absent
        BY <3>1, <3>3 DEF AddressesUntouched, D!Shown
      <4>2. {i \in D!Existing : rows[i].label = l} = {}
        BY <3>3
      <4> QED
        BY <3>2, <4>1, <4>2
    <3> QED
      BY <3>4 DEF AddressesSound, D!AddressesSound
  <2> QED
    BY <1>1, <2>1, <2>2
<1> QED
  BY <1>1, AddressesInvariant, PTL

\* Catalogue: whatever was removed is an entry of no list that customers get,
\* though a removed service or category is still shown inside the entries made with
\* it, and one request at a time nothing is put where it cannot be, and names
\* differ in more than the case of letters (the services of categories, sub-categories, services,
\* packages and offers, and createTicket).
THEOREM CatalogIsSound == Spec => []CatalogSound
<1>1. ASSUME CatalogAlways PROVE CatalogSound
  <2>1. CASE area = "catalog"
    BY <1>1, <2>1, CatalogInvSound DEF CatalogAlways, CatalogSound
  <2>2. CASE area # "catalog"
    <3>1. CatalogUntouched
      BY <1>1, <2>2 DEF CatalogAlways
    <3>2. removed = {} /\ strays = {} /\ C!Existing = {}
      BY <3>1 DEF CatalogUntouched, C!Existing
    <3>3. \A kind : C!Live(kind) = {}
      BY <3>2 DEF C!Live, C!Of
    <3> QED
      BY <3>2, <3>3 DEF CatalogSound, C!CatalogSound
  <2> QED
    BY <1>1, <2>1, <2>2
<1> QED
  BY <1>1, CatalogInvariant, PTL

\* The rows and the requests in flight of all five keep their types.
THEOREM BackOfficeTyped == Spec => []TypeOK
<1>1. ASSUME WorkdayAlways, SkillsAlways, AccountsAlways, AddressesAlways, CatalogAlways
      PROVE  TypeOK
  BY <1>1, AttendanceInvSound, SkillsInvSound, AccountsInvSound, CatalogInvSound
     DEF TypeOK, WorkdayAlways, SkillsAlways, AccountsAlways, AddressesAlways,
         CatalogAlways, AddressesInv
<1> QED
  BY <1>1, WorkdayInvariant, SkillsInvariant, AccountsInvariant, AddressesInvariant,
     CatalogInvariant, PTL
=============================================================================
