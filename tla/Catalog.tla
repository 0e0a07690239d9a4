-------------------------------- MODULE Catalog --------------------------------
(***************************************************************************)
(* The catalogue of a tenant: categories, which two services edit under    *)
(* different rules, the sub-categories that tickets are raised under, and  *)
(* the services, packages and offers that customers browse.  Deleting is   *)
(* a flag, isDeleted for good or isActive until further notice, and        *)
(* nothing is deleted with what it contains.  What a handler checks before *)
(* it writes no constraint of the database checks again.                   *)
(***************************************************************************)
EXTENDS Handlers, Naturals, FiniteSets

CONSTANTS
  Names,      \* the ways the names of services and packages are written
  SameName,   \* SameName[n]: the names equal to n, the case of letters ignored
  Absent,     \* no row, or a field that the body does not have
  MaxRows     \* bound: rows of the catalogue ever inserted

VARIABLES
  rows,      \* the row of each id, of any of the tables
  strays,    \* history: rows that something was put into when it could not be
  renamed,   \* history: the rows whose name was changed
  removed    \* history: the rows that were removed, and not restored since

rowVars == <<rows, strays, renamed, removed>>
vars == <<rows, strays, renamed, removed, req, orderly>>

Ids == 1..MaxRows

Kinds == {"category", "subCategory", "service", "package", "offer"}

\* within is the category of a service or package; that of a sub-category, which
\* nobody looks up again, is left out.  holds is what a package offers together,
\* and what an offer is about.
Row ==
  [kind : Kinds, within : 0..MaxRows, holds : SUBSET Ids, name : Names \cup {Absent},
   isActive : BOOLEAN, isDeleted : BOOLEAN]

Existing == {i \in Ids : rows[i] # Absent}

Of(kind) == {i \in Existing : rows[i].kind = kind}

Live(kind) == {i \in Of(kind) : ~rows[i].isDeleted}

\* The check of the create handlers: among the rows that are not deleted.
NameUnlike(kind, n) == \A i \in Live(kind) : rows[i].name \notin SameName[n]

InFlight ==
  [op : {"create", "update", "remove", "raiseTicket"},
   step : {"readName", "create", "update", "commit"},
   id : 0..MaxRows, kind : Kinds, holds : SUBSET Ids, name : Names \cup {Absent},
   isActive : BOOLEAN \cup {Absent}, isDeleted : BOOLEAN \cup {Absent}]

\* The id is that of the category of a new row, or that of the row to change.
Start(r, op, step, i, kind, held, n, on, gone) ==
  /\ Begin(r, [op |-> op, step |-> step, id |-> i, kind |-> kind, holds |-> held,
               name |-> n, isActive |-> on, isDeleted |-> gone])
  /\ UNCHANGED rowVars

-----------------------------------------------------------------------------
(* Creation *)

\* A row under the next id.
Insert(i, kind, c, held, n) ==
  /\ Existing = 1..(i - 1)
  /\ rows' = [rows EXCEPT ![i] =
       [kind |-> kind, within |-> c, holds |-> held, name |-> n, isActive |-> TRUE,
        isDeleted |-> FALSE]]

InsertAlone(r, kind, held) ==
  /\ InOneStep(r)
  /\ \E i \in Ids : Insert(i, kind, 0, held, Absent)
  /\ UNCHANGED <<strays, renamed, removed>>

\* By either service; one of them refuses a name in use, and the other does
\* not, so that names say nothing of categories and are left out.
CreateCategory(r) == InsertAlone(r, "category", {})

\* createSubCategory takes a category whether deleted or not.
CreateSubCategory(r, c) == c \in Of("category") /\ InsertAlone(r, "subCategory", {})

\* What an offer is about, a service, a category, both or neither, is not looked
\* up.
CreateOffer(r, held) ==
  /\ held \subseteq Of("service") \cup Of("category")
  /\ \A i, k \in held : rows[i].kind = rows[k].kind => i = k
  /\ InsertAlone(r, "offer", held)

CreateService(r, c, n) ==
  /\ c \in Live("category")
  /\ Start(r, "create", "readName", c, "service", {}, n, TRUE, FALSE)

\* The services of a package, deleted or not, are not looked up.
CreatePackage(r, c, held, n) ==
  /\ c \in Live("category")
  /\ held \subseteq Of("service")
  /\ Start(r, "create", "readName", c, "package", held, n, TRUE, FALSE)

CreateReadName(r) ==
  /\ At(r, "create", "readName")
  /\ ContinueIf(r, NameUnlike(req[r].kind, req[r].name), "create")
  /\ UNCHANGED rowVars

\* A service or a package counts as a stray in a category deleted meanwhile.
CreateCommit(r) ==
  LET q == req[r] IN
  /\ At(r, "create", "create")
  /\ \E i \in Ids :
       /\ Insert(i, q.kind, q.id, q.holds, q.name)
       /\ strays' = IF rows[q.id].isDeleted THEN strays \cup {i} ELSE strays
  /\ Finish(r)
  /\ UNCHANGED <<renamed, removed>>

-----------------------------------------------------------------------------
(* Changes and removals *)

\* Where a handler finds a row whether deleted or not, no request takes it away.
SetActive(r, i, on) ==
  /\ InOneStep(r)
  /\ rows' = [rows EXCEPT ![i].isActive = on]
  /\ removed' =
       IF rows[i].kind # "offer" THEN removed
       ELSE IF on THEN removed \ {i} ELSE removed \cup {i}
  /\ UNCHANGED <<strays, renamed>>

UpdateOffer(r, i, on) == i \in Of("offer") /\ SetActive(r, i, on)

RemoveOffer(r, i) == i \in Of("offer") /\ SetActive(r, i, FALSE)

\* updateSubCategory, and updateCategory of the manager; deleteSubCategory and
\* deleteCategory.
UpdateSubCategory(r, i, on) == i \in Of("subCategory") /\ SetActive(r, i, on)

UpdateCategoryByManager(r, i, on) == i \in Of("category") /\ SetActive(r, i, on)

DeleteSubCategory(r, i) == i \in Of("subCategory") /\ SetActive(r, i, FALSE)

DeleteCategory(r, i) == i \in Of("category") /\ SetActive(r, i, FALSE)

\* update of the other services: they look the row up, and ask no more of a new
\* name.
Update(r, i, n, on) == Start(r, "update", "update", i, rows[i].kind, {}, n, on, Absent)

UpdateCategory(r, i, on) == i \in Live("category") /\ Update(r, i, Absent, on)

UpdateService(r, i, n, on) == i \in Live("service") /\ Update(r, i, n, on)

UpdatePackage(r, i, n) == i \in Live("package") /\ Update(r, i, n, Absent)

\* remove of each: the flag for good, and the other.
Remove(r, i, on) ==
  Start(r, "remove", "update", i, rows[i].kind, {}, Absent, on, TRUE)

RemoveCategory(r, i) == i \in Live("category") /\ Remove(r, i, FALSE)

RemoveService(r, i) == i \in Live("service") /\ Remove(r, i, FALSE)

RemovePackage(r, i) == i \in Live("package") /\ Remove(r, i, Absent)

Given(value, old) == IF value = Absent THEN old ELSE value

\* An update that writes back all of the row, which was live when it was read.
WriteWholeRow(r) ==
  LET q == req[r] IN
  /\ At(r, "update", "update") \/ At(r, "remove", "update")
  /\ rows' = [rows EXCEPT ![q.id] =
       [@ EXCEPT !.name = Given(q.name, @), !.isActive = Given(q.isActive, @),
                 !.isDeleted = Given(q.isDeleted, FALSE)]]
  /\ removed' = IF q.op = "remove" THEN removed \cup {q.id} ELSE removed
  /\ Finish(r)
  /\ UNCHANGED <<strays, renamed>>

Written(row, q) ==
  [row EXCEPT !.name = Given(q.name, @), !.isActive = Given(q.isActive, @),
              !.isDeleted = Given(q.isDeleted, @)]

\* Only the fields of the body are written, whatever became of the row.
WriteGiven(r) ==
  LET q == req[r] IN
  /\ At(r, "update", "update") \/ At(r, "remove", "update")
  /\ rows' = [rows EXCEPT ![q.id] = Written(@, q)]
  /\ renamed' = IF q.name = Absent THEN renamed ELSE renamed \cup {q.id}
  /\ removed' = IF q.op = "remove" THEN removed \cup {q.id} ELSE removed
  /\ Finish(r)
  /\ UNCHANGED strays

-----------------------------------------------------------------------------
(* Tickets *)

\* raiseTicket looks for an active sub-category, some statements before it
\* creates the ticket; it does not look at the flags of the category.
RaiseTicket(r, s) ==
  /\ s \in Of("subCategory")
  /\ rows[s].isActive
  /\ Start(r, "raiseTicket", "commit", s, "subCategory", {}, Absent, Absent, Absent)

RaiseTicketCommit(r) ==
  LET s == req[r].id IN
  /\ At(r, "raiseTicket", "commit")
  /\ strays' = IF rows[s].isActive THEN strays ELSE strays \cup {s}
  /\ Finish(r)
  /\ UNCHANGED <<rows, renamed, removed>>

-----------------------------------------------------------------------------
(* The service *)

Fail(r) == Abandon(r) /\ UNCHANGED rowVars

Init ==
  /\ rows = [i \in Ids |-> Absent]
  /\ strays = {}
  /\ renamed = {}
  /\ removed = {}
  /\ NoRequests
  /\ orderly = TRUE

\* Bounds: the bodies of updates have one field, and it is not what an offer is
\* about.
Call(r) ==
  \/ CreateCategory(r)
  \/ \E held \in SUBSET (Of("service") \cup Of("category")) : CreateOffer(r, held)
  \/ \E c \in Ids :
       \/ CreateSubCategory(r, c)
       \/ \E n \in Names : CreateService(r, c, n)
       \/ \E n \in Names, held \in SUBSET Of("service") : CreatePackage(r, c, held, n)
  \/ \E i \in Ids :
       \/ \E n \in Names : UpdateService(r, i, n, Absent) \/ UpdatePackage(r, i, n)
       \/ \E on \in BOOLEAN :
            \/ UpdateCategory(r, i, on)
            \/ UpdateService(r, i, Absent, on)
            \/ UpdateOffer(r, i, on)
            \/ UpdateSubCategory(r, i, on)
            \/ UpdateCategoryByManager(r, i, on)
       \/ RemoveCategory(r, i)
       \/ RemoveService(r, i)
       \/ RemovePackage(r, i)
       \/ RemoveOffer(r, i)
       \/ DeleteCategory(r, i)
       \/ DeleteSubCategory(r, i)
       \/ RaiseTicket(r, i)

Step(r) == CreateReadName(r) \/ CreateCommit(r) \/ WriteGiven(r) \/ RaiseTicketCommit(r)

Next == \E r \in Requests : Call(r) \/ Step(r) \/ Fail(r)

Spec == Init /\ [][Next]_vars

-----------------------------------------------------------------------------
(* What customers are shown *)

IsActive(i) == rows[i].isActive

\* findWithPackages.
FindWithPackages == {c \in Live("category") : IsActive(c)}

\* findAll of the packages, whatever became of their category.
FindPackages == Live("package")

\* getCategoriesWithPackages: the categories, and what is in each.
GetCategoriesWithPackages ==
  [c \in FindWithPackages |-> {p \in FindPackages : rows[p].within = c}]

\* findAll of the services: also not in a deleted category.
FindServices ==
  {s \in Live("service") : IsActive(s) /\ ~rows[rows[s].within].isDeleted}

\* findByCategory, findPopular and findPreview do not look at the category.
FindByCategory(c) == {s \in Live("service") : IsActive(s) /\ rows[s].within = c}

FindPreview == {s \in Live("service") : IsActive(s)}

\* findActiveForMobile, on a day that the offer includes.
FindActiveForMobile == {o \in Of("offer") : IsActive(o)}

\* The entries of these lists.
Listed ==
  FindPackages \cup FindPreview \cup FindActiveForMobile \cup FindServices
    \cup (UNION {FindByCategory(c) : c \in Of("category")})
    \cup (DOMAIN GetCategoriesWithPackages)
    \cup (UNION {GetCategoriesWithPackages[c] : c \in FindWithPackages})

\* What some of them show inside their entries, whatever its flags (include):
\* findPopular the category of a service, findAll of the packages the category and
\* the services of each, findActiveForMobile what an offer is about.
Included ==
  {rows[i].within : i \in FindPreview \cup FindPackages}
    \cup (UNION {rows[i].holds : i \in FindPackages \cup FindActiveForMobile})

-----------------------------------------------------------------------------
(* Properties *)

\* The rows and the requests in flight have their types.
TypeOK ==
  /\ rows \in [Ids -> Row \cup {Absent}]
  /\ strays \subseteq Existing
  /\ renamed \subseteq Existing
  /\ removed \subseteq Existing
  /\ req \in [Requests -> InFlight \cup {Idle}]
  /\ orderly \in BOOLEAN

\* Whatever is removed is an entry of no list that customers get, however removals
\* race with updates and whichever of the two services edits a category
\* afterwards.  A removed service or category is still shown inside an entry, a
\* package, an offer or a popular service that was made with it; a removed package
\* or offer is not shown at all, and the list of all services shows no removed
\* category either.  While requests come one at a time, nothing is created in a
\* deleted category and no ticket is raised under an inactive sub-category, and
\* services and packages that were never renamed differ in more than the case of
\* letters.
CatalogSound ==
  /\ removed # {} =>
       /\ removed \cap Listed = {}
       /\ removed \cap Included \subseteq Of("service") \cup Of("category")
       /\ \A s \in FindServices : rows[s].within \notin removed
  /\ orderly =>
       /\ strays = {}
       /\ \A kind \in {"service", "package"} :
            \A i, k \in Live(kind) \ renamed :
              i # k => rows[i].name \notin SameName[rows[k].name]
=============================================================================
