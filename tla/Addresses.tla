------------------------------ MODULE Addresses ------------------------------
(***************************************************************************)
(* The addresses of one customer.  A label names one of them, for ever: a  *)
(* deleted address keeps its row and its label, adding one under a label   *)
(* in use is refused, and adding one under a deleted label revives the     *)
(* row.  The search and the write are separate statements, over a unique   *)
(* constraint of user and label.                                           *)
(***************************************************************************)
EXTENDS Handlers, Naturals, FiniteSets

CONSTANTS
  Labels,
  Streets,       \* what an address says, its label apart
  Absent,        \* no row, or a field that the body does not have
  MaxAddresses   \* bound: Address rows ever inserted

VARIABLES
  rows,     \* the Address row of each id
  wanted    \* history: by label, the street last saved and not deleted since

rowVars == <<rows, wanted>>
vars == <<rows, wanted, req, orderly>>

Ids == 1..MaxAddresses

Address == [label : Labels, street : Streets, isActive : BOOLEAN]

Existing == {i \in Ids : rows[i] # Absent}

\* The unique constraint.
LabelFree(l, except) == \A i \in Existing \ except : rows[i].label # l

InFlight ==
  [op : {"add", "update", "delete"}, step : {"create", "revive", "update"},
   id : Ids \cup {0}, label : Labels \cup {Absent}, street : Streets \cup {Absent},
   isActive : BOOLEAN \cup {Absent}]

Start(r, op, step, i, l, st, on) ==
  /\ Begin(r, [op |-> op, step |-> step, id |-> i, label |-> l, street |-> st,
               isActive |-> on])
  /\ UNCHANGED rowVars

\* What a label last held is what an update of one of its fields leaves there.
Given(value, old) == IF value = Absent THEN old ELSE value

-----------------------------------------------------------------------------
(* Customer service *)

\* addAddress creates unless it finds the label, deleted or not.
AddAddress(r, l, st) ==
  \/ LabelFree(l, {}) /\ Start(r, "add", "create", 0, l, st, TRUE)
  \/ \E i \in Existing :
       /\ rows[i].label = l
       /\ ~rows[i].isActive
       /\ Start(r, "add", "revive", i, l, st, TRUE)

AddAddressCommit(r) ==
  LET q == req[r] IN
  /\ At(r, "add", "create")
  /\ \/ /\ LabelFree(q.label, {})
        /\ \E i \in Ids :
             /\ Existing = 1..(i - 1)
             /\ rows' = [rows EXCEPT ![i] =
                  [label |-> q.label, street |-> q.street, isActive |-> TRUE]]
        /\ wanted' = [wanted EXCEPT ![q.label] = q.street]
     \/ ~LabelFree(q.label, {}) /\ UNCHANGED rowVars
  /\ Finish(r)

\* An update by id of the fields in q, and of what its label means to the user.
Save(r, i, new, allowed) ==
  /\ rows' = IF allowed THEN [rows EXCEPT ![i] = new] ELSE rows
  /\ wanted' =
       IF ~allowed THEN wanted
       ELSE [[wanted EXCEPT ![rows[i].label] = Absent]
               EXCEPT ![new.label] = IF new.isActive THEN new.street ELSE Absent]
  /\ Finish(r)

\* A revival that leaves the row marked as deleted.
ReviveStillDeleted(r) ==
  LET q == req[r] IN
  /\ At(r, "add", "revive")
  /\ rows' = [rows EXCEPT ![q.id].label = q.label, ![q.id].street = q.street]
  /\ wanted' = [wanted EXCEPT ![q.label] = q.street]
  /\ Finish(r)

ReviveAddressCommit(r) ==
  LET q == req[r] IN
  /\ At(r, "add", "revive")
  /\ Save(r, q.id, [label |-> q.label, street |-> q.street, isActive |-> TRUE],
          LabelFree(q.label, {q.id}))

\* updateAddress and deleteAddress find the row whether deleted or not.
UpdateAddress(r, i, l, st, on) ==
  i \in Existing /\ Start(r, "update", "update", i, l, st, on)

UpdateAddressCommit(r) ==
  LET q == req[r]
      old == rows[q.id]
  IN
  /\ At(r, "update", "update")
  /\ Save(r, q.id,
          [label |-> Given(q.label, old.label), street |-> Given(q.street, old.street),
           isActive |-> Given(q.isActive, old.isActive)],
          LabelFree(q.label, {q.id}))

DeleteAddress(r, i) ==
  i \in Existing /\ Start(r, "delete", "update", i, Absent, Absent, FALSE)

DeleteAddressCommit(r) ==
  LET q == req[r] IN
  /\ At(r, "delete", "update")
  /\ Save(r, q.id, [rows[q.id] EXCEPT !.isActive = FALSE], TRUE)

-----------------------------------------------------------------------------
(* The service *)

Fail(r) == Abandon(r) /\ UNCHANGED rowVars

Init ==
  /\ rows = [i \in Ids |-> Absent]
  /\ wanted = [l \in Labels |-> Absent]
  /\ NoRequests
  /\ orderly = TRUE

Call(r) ==
  \/ \E l \in Labels, st \in Streets : AddAddress(r, l, st)
  \/ \E i \in Ids, l \in Labels \cup {Absent}, st \in Streets \cup {Absent},
        on \in BOOLEAN \cup {Absent} : UpdateAddress(r, i, l, st, on)
  \/ \E i \in Ids : DeleteAddress(r, i)

Step(r) ==
  \/ AddAddressCommit(r)
  \/ ReviveAddressCommit(r)
  \/ UpdateAddressCommit(r)
  \/ DeleteAddressCommit(r)

Next == \E r \in Requests : Call(r) \/ Step(r) \/ Fail(r)

Spec == Init /\ [][Next]_vars

-----------------------------------------------------------------------------
(* What is shown *)

GetAddresses == {i \in Existing : rows[i].isActive}

\* What getAddresses shows under a label.
Shown(l) == {rows[i].street : i \in {x \in GetAddresses : rows[x].label = l}}

-----------------------------------------------------------------------------
(* Properties *)

\* The rows and the requests in flight have their types.
TypeOK ==
  /\ rows \in [Ids -> Address \cup {Absent}]
  /\ wanted \in [Labels -> Streets \cup {Absent}]
  /\ req \in [Requests -> InFlight \cup {Idle}]
  /\ orderly \in BOOLEAN

\* However requests race, a label is the name of one address at most, and what
\* is listed under it is what was last saved there, unless it was deleted since:
\* a search and a write of addAddress never leave a saved address hidden, or a
\* deleted one listed (addAddress, updateAddress, deleteAddress).
AddressesSound ==
  \A l \in Labels :
    /\ Shown(l) = {wanted[l]} \ {Absent}
    /\ Cardinality({i \in Existing : rows[i].label = l}) <= 1
=============================================================================
