------------------------------ MODULE Attendance ------------------------------
(***************************************************************************)
(* The working day of the technicians: check-in, check-out and the places  *)
(* they report, with what the dashboard and the manager's map show of it.  *)
(* No constraint of the database backs the check that nobody checks in     *)
(* twice a day, and two writes of one handler run side by side             *)
(* (Promise.all), in either order, each of them alone.                     *)
(***************************************************************************)
EXTENDS Handlers, Naturals, FiniteSets

CONSTANTS
  Technicians,
  Places,
  Nowhere,        \* no place reported yet
  MaxDays,        \* bound: days that pass
  MaxShifts,      \* bound: Attendance rows ever inserted
  HistoryCap,     \* bound: the rows of a history that takes no more than 30
  AttendanceCap   \* bound: the rows of a list that takes no more than 200

VARIABLES
  today,
  shifts,     \* the Attendance rows
  place,      \* currentLat and currentLng of each technician
  routeEnd,   \* the newest TechnicianLocation row of each
  reported    \* history: where each technician last said to be

vars == <<today, shifts, place, routeEnd, reported, req, orderly>>

Days == 1..MaxDays

\* checkOut is the day of checkOutTime, 0 for null.
Shift == [id : 1..MaxShifts, tech : Technicians, date : Days, checkOut : 0..MaxDays]

ShiftsOf(e, day) == {s \in shifts : s.tech = e /\ s.date = day}

Writes == {"shift", "place", "route"}

\* A request holds the day it began on, the row it closes (0 for none) and
\* the writes that have yet to be done.
InFlight ==
  [op : {"checkIn", "checkOut", "updateLocation"}, step : {"writes"},
   tech : Technicians, place : Places, day : Days, shift : 0..MaxShifts,
   todo : SUBSET Writes]

Start(r, op, e, p, id, todo) ==
  /\ Begin(r, [op |-> op, step |-> "writes", tech |-> e, place |-> p,
               day |-> today, shift |-> id, todo |-> todo])
  /\ reported' = [reported EXCEPT ![e] = p]
  /\ UNCHANGED <<today, shifts, place, routeEnd>>

-----------------------------------------------------------------------------
(* Technician service *)

\* checkIn that only looks for a shift that is still open.
CheckInAfterCheckOut(r, e, p) ==
  /\ \A s \in ShiftsOf(e, today) : s.checkOut # 0
  /\ Start(r, "checkIn", e, p, 0, {"shift", "place"})

CheckIn(r, e, p) ==
  /\ ShiftsOf(e, today) = {}
  /\ Start(r, "checkIn", e, p, 0, {"shift", "place"})

\* findFirst: any of the shifts of today that are open.
CheckOut(r, e, p) ==
  \E s \in ShiftsOf(e, today) :
    /\ s.checkOut = 0
    /\ Start(r, "checkOut", e, p, s.id, {"shift", "place"})

UpdateLocation(r, e, p) == Start(r, "updateLocation", e, p, 0, {"place", "route"})

\* One write of a handler is done; the last one ends the request.
Wrote(r, w) ==
  /\ w \in req[r].todo
  /\ req' = [req EXCEPT ![r] = Without(@, w)]
  /\ UNCHANGED orderly

\* The row has the day the request began on.
CreateShift(r) ==
  LET id == Cardinality(shifts) + 1 IN
  /\ At(r, "checkIn", "writes")
  /\ id <= MaxShifts
  /\ Wrote(r, "shift")
  /\ shifts' = shifts \cup
       {[id |-> id, tech |-> req[r].tech, date |-> req[r].day, checkOut |-> 0]}
  /\ UNCHANGED <<today, place, routeEnd, reported>>

\* The update is by id; checkOutTime is the time of the write.
CloseShift(r) ==
  /\ At(r, "checkOut", "writes")
  /\ Wrote(r, "shift")
  /\ shifts' = {IF s.id = req[r].shift THEN [s EXCEPT !.checkOut = today] ELSE s :
                s \in shifts}
  /\ UNCHANGED <<today, place, routeEnd, reported>>

WritePlace(r) ==
  /\ req[r] # Idle
  /\ Wrote(r, "place")
  /\ place' = [place EXCEPT ![req[r].tech] = req[r].place]
  /\ UNCHANGED <<today, shifts, routeEnd, reported>>

AddToRoute(r) ==
  /\ At(r, "updateLocation", "writes")
  /\ Wrote(r, "route")
  /\ routeEnd' = [routeEnd EXCEPT ![req[r].tech] = req[r].place]
  /\ UNCHANGED <<today, shifts, place, reported>>

\* One write fails; those beside it are done nevertheless.
WriteFails(r) ==
  /\ req[r] # Idle
  /\ \E w \in req[r].todo : req' = [req EXCEPT ![r] = Without(@, w)]
  /\ orderly' = FALSE
  /\ UNCHANGED <<today, shifts, place, routeEnd, reported>>

Midnight ==
  /\ today < MaxDays
  /\ today' = today + 1
  /\ UNCHANGED <<shifts, place, routeEnd, reported, req, orderly>>

-----------------------------------------------------------------------------
(* The service *)

Init ==
  /\ today = 1
  /\ shifts = {}
  /\ place = [e \in Technicians |-> Nowhere]
  /\ routeEnd = [e \in Technicians |-> Nowhere]
  /\ reported = [e \in Technicians |-> Nowhere]
  /\ NoRequests
  /\ orderly = TRUE

Call(r) ==
  \E e \in Technicians, p \in Places :
    CheckIn(r, e, p) \/ CheckOut(r, e, p) \/ UpdateLocation(r, e, p)

Step(r) == CreateShift(r) \/ CloseShift(r) \/ WritePlace(r) \/ AddToRoute(r)

Next == Midnight \/ \E r \in Requests : Call(r) \/ Step(r) \/ WriteFails(r)

Spec == Init /\ [][Next]_vars

-----------------------------------------------------------------------------
(* What is shown *)

\* getDashboard: isCheckedIn, from any shift of today.
IsCheckedIn(e) ==
  {s.checkOut = 0 : s \in ShiftsOf(e, today)} \cup
    IF ShiftsOf(e, today) = {} THEN {FALSE} ELSE {}

\* getTechnicianLocation.
LocationShown(e) == place[e]

\* getTechnicianRoute: where the route ends, Nowhere while there is none.
RouteEnd(e) == routeEnd[e]

\* getAttendanceHistory of a month: all the shifts of the technician in its days.
HistoryOf(e, days) == {s \in shifts : s.tech = e /\ s.date \in days}

\* The pages a query may return that takes the newest rows up to a number: rows
\* of one day come in any order.
Newest(records, cap) ==
  {page \in SUBSET records :
     /\ Cardinality(page) =
          IF Cardinality(records) <= cap THEN Cardinality(records) ELSE cap
     /\ \A s \in page, x \in records \ page : x.date <= s.date}

\* getAttendanceHistory without a month.
RecentHistory(e) == Newest(HistoryOf(e, Days), HistoryCap)

\* listAttendance of the manager, of one technician and the days given.
ListAttendance(e, days) == Newest(HistoryOf(e, days), AttendanceCap)

\* The number that listTechnicians shows with each technician.
AttendanceCount(e) == Cardinality({s \in shifts : s.tech = e})

-----------------------------------------------------------------------------
(* Properties *)

\* The rows and the requests in flight have their types.
TypeOK ==
  /\ today \in Days
  /\ shifts \subseteq Shift
  /\ \A s, x \in shifts : s.id = x.id => s = x
  /\ place \in [Technicians -> Places \cup {Nowhere}]
  /\ routeEnd \in [Technicians -> Places \cup {Nowhere}]
  /\ reported \in [Technicians -> Places \cup {Nowhere}]
  /\ req \in [Requests -> InFlight \cup {Idle}]
  /\ orderly \in BOOLEAN

\* A technician has one shift a day while requests come one at a time and none
\* fails half-way, in any order of check-ins, check-outs and midnights.  Racing
\* check-ins do make more, against findings/attendance.md:3 and 163, but no more
\* than there are requests.  One at a time, the dashboard has one answer; the
\* technician's history has a row a day, as many as the manager is told or as
\* fit, all of which the manager's list has too; and the map shows where the
\* technician last said to be, who has a place if there is a route (checkIn,
\* checkOut, updateLocation).
WorkdaySound ==
  \A e \in Technicians :
    /\ \A day \in Days :
         Cardinality(ShiftsOf(e, day)) <= IF orderly THEN 1 ELSE Cardinality(Requests)
    /\ orderly =>
         /\ Cardinality(IsCheckedIn(e)) = 1
         /\ \A recent \in RecentHistory(e), listed \in ListAttendance(e, Days) :
              /\ recent \subseteq listed
              /\ Cardinality({s.date : s \in recent}) =
                   IF AttendanceCount(e) <= HistoryCap THEN AttendanceCount(e)
                   ELSE HistoryCap
         /\ Alone => /\ LocationShown(e) = reported[e]
                     /\ RouteEnd(e) # Nowhere => LocationShown(e) # Nowhere
=============================================================================
