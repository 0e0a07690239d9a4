--------------------------- MODULE TicketLifecycle ---------------------------
(***************************************************************************)
(* The life of a ticket as the three people it concerns see it: where the  *)
(* ticket stands, whose it is, and who took money for it.  There are no    *)
(* statuses here, no tables of transitions, no requests and no reads that  *)
(* can go stale.  Module Tickets is the service, in which fourteen         *)
(* handlers share the work through a status column; the runs and the       *)
(* proofs show that, one request at a time, every step of every one of     *)
(* them is one of the nine steps below or changes nothing the three see.   *)
(*                                                                         *)
(* It is what the handlers do together.  Rules 3 to 5 of                   *)
(* findings/tickets.md allow less: a manager cancels only up to ACCEPTED,  *)
(* a customer never once work has started, and only a manager closes;      *)
(* here, as in the code, a ticket may be cancelled until its work is done. *)
(***************************************************************************)

CONSTANTS
  Tickets,      \* the tickets of one tenant
  Technicians,  \* its technicians
  Unassigned    \* nobody's ticket, nobody's money

VARIABLES
  phase,        \* phase[t]: where ticket t stands
  technician,   \* technician[t]: who has it
  paidTo        \* paidTo[t]: the technician who took the money, if any

vars == <<phase, technician, paidTo>>

Phases ==
  { "none", "queue", "booked", "visit", "work", "done", "invoiced", "closed",
    "cancelled" }

Init ==
  /\ phase = [t \in Tickets |-> "none"]
  /\ technician = [t \in Tickets |-> Unassigned]
  /\ paidTo = [t \in Tickets |-> Unassigned]

\* Ticket t goes from phase p to phase q.
Pass(t, p, q) == phase[t] = p /\ phase' = [phase EXCEPT ![t] = q]

\* Ticket t goes to technician e, or to nobody.
Hand(t, e) == technician' = [technician EXCEPT ![t] = e]

\* The same technician has the ticket on.
Onward(t, p, q) == Pass(t, p, q) /\ UNCHANGED <<technician, paidTo>>

\* A customer raises the ticket; it waits for a technician.
Raise(t) == Pass(t, "none", "queue") /\ UNCHANGED <<technician, paidTo>>

\* A waiting ticket is given to a technician, a booked one to another.
Book(t, e) ==
  /\ \E p \in {"queue", "booked"} : Pass(t, p, "booked")
  /\ Hand(t, e)
  /\ UNCHANGED paidTo

\* The technician hands a booked ticket back.
Return(t) ==
  /\ Pass(t, "booked", "queue")
  /\ Hand(t, Unassigned)
  /\ UNCHANGED paidTo

\* The technician sets out, starts to work, and is done.
SetOut(t) == Onward(t, "booked", "visit")
StartWork(t) == Onward(t, "visit", "work")
EndWork(t) == Onward(t, "work", "done")

\* The work is invoiced.  Only in this step may money be taken, and only by
\* the technician who did the work.
Invoice(t) ==
  /\ Pass(t, "done", "invoiced")
  /\ \/ paidTo' = [paidTo EXCEPT ![t] = technician[t]]
     \/ UNCHANGED paidTo
  /\ UNCHANGED technician

\* Nothing moves a closed ticket.
Close(t) == Onward(t, "invoiced", "closed")

\* A ticket whose work is not done is called off, and is nobody's.
Cancel(t) ==
  /\ \E p \in {"queue", "booked", "visit", "work"} : Pass(t, p, "cancelled")
  /\ Hand(t, Unassigned)
  /\ UNCHANGED paidTo

Next ==
  \E t \in Tickets :
    \/ Raise(t)
    \/ \E e \in Technicians : Book(t, e)
    \/ Return(t)
    \/ SetOut(t)
    \/ StartWork(t)
    \/ EndWork(t)
    \/ Invoice(t)
    \/ Close(t)
    \/ Cancel(t)

Spec == Init /\ [][Next]_vars
=============================================================================
