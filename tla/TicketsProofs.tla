---------------------------- MODULE TicketsProofs ----------------------------
(***************************************************************************)
(* Theorems about the ticket service for any tickets, technicians and      *)
(* requests in flight: its rows keep their types, its log never skips a    *)
(* milestone, and payments and feedback are sound, whatever the races.     *)
(*                                                                         *)
(* A commit acts on rows read earlier, so none of these facts is inductive *)
(* alone.  What makes them so is that the log only grows: what a handler   *)
(* concluded from the status it read is still in the log when it commits.  *)
(* RequestOK says, of each request in flight, what it concluded.           *)
(*                                                                         *)
(* One request at a time, more holds: a ticket and its technician agree, a *)
(* payment locks both, every dashboard tells the same story, and the       *)
(* handlers implement TicketLifecycle.  There, what a request has read is  *)
(* still true when it commits: SerialInv says so, handler by handler, and  *)
(* so every commit is one of five guarded moves of a ticket.               *)
(***************************************************************************)
EXTENDS TicketViews, TLAPS

-----------------------------------------------------------------------------
(* The inductive invariant *)

\* The milestone before s is already in the log of ticket t.
Grounded(t, s) ==
  \A edge \in MilestoneBefore : s = edge[2] => edge[1] \in trail[t]

\* What the checks a request has passed still say when it commits.
RequestOK(q) ==
  /\ q.op = "updateTicketStatus" => q.to \in TicketStatusEnum
  /\ q.op = "completeTicket" => q.to = "COMPLETED"
  /\ q.op = "completeTicket" /\ q.step = "commit" =>
       {"BEFORE", "AFTER"} \subseteq images[q.ticket]
  /\ q.op = "markPending" => q.to = "PENDING"
  /\ q.op = "collectPayment" => q.to = "INVOICE_GENERATED"
  /\ q.op \in AssignOps => q.to = "ASSIGNED"
  /\ q.op = "closeTicket" => q.to = "TICKET_CLOSED"
  /\ q.op = "uploadImage" => q.to \in ImageTypes
  /\ q.op = "submitFeedback" => "INVOICE_GENERATED" \in trail[q.ticket]
  /\ q.op = "verifyPayment" => payment[q.ticket] # "NONE"
  /\ q.op = "verifyPayment" /\ q.step = "saveLog" =>
       payment[q.ticket] = "VERIFIED"
  /\ Grounded(q.ticket, q.to)

RequestsOK == \A r \in Requests : req[r] # Idle => RequestOK(req[r])

\* The status of a ticket is in its log: both are written in one transaction.
StatusLogged ==
  \A t \in Tickets : status[t] # Absent => status[t] \in trail[t]

IInv ==
  /\ TypeOK
  /\ StatusLogged
  /\ NoMilestoneSkipped
  /\ PaidWorkWasCompleted
  /\ VerificationRowIsTrue
  /\ FeedbackSound
  /\ RequestsOK

-----------------------------------------------------------------------------
(* Requests keep their type *)

RequestType == req \in [Requests -> InFlight \cup {Idle}]

\* A handler that passes its first check becomes a well-typed request.
LEMMA StartTyped ==
  ASSUME RequestType, NEW r \in Requests, NEW op \in Ops, NEW step \in Steps,
         NEW t \in Tickets, NEW e \in Technicians \cup {Unassigned},
         NEW to \in TicketStatusEnum \cup ImageTypes \cup {NoTarget},
         Start(r, op, step, t, e, to)
  PROVE  RequestType'
BY DEF RequestType, Start, InFlight

\* A request in flight is a full request record.
LEMMA AtTyped ==
  ASSUME RequestType, NEW r \in Requests, req[r] # Idle
  PROVE  /\ req[r] \in InFlight
         /\ req[r].ticket \in Tickets
         /\ req[r].tech \in Technicians \cup {Unassigned}
         /\ req[r].to \in TicketStatusEnum \cup ImageTypes \cup {NoTarget}
BY DEF RequestType, InFlight

\* A request that continues keeps its type.
LEMMA ContinueTyped ==
  ASSUME RequestType, NEW r \in Requests, req[r] # Idle,
         NEW step \in Steps, Continue(r, step)
  PROVE  RequestType'
<1>1. req[r] \in InFlight
  BY AtTyped
<1>2. [req[r] EXCEPT !.step = step] \in InFlight
  BY <1>1 DEF InFlight
<1> QED
  BY <1>2 DEF RequestType, Continue

\* A request slot that becomes free keeps its type.
LEMMA FinishTyped ==
  ASSUME RequestType, NEW r \in Requests, Finish(r)
  PROVE  RequestType'
BY DEF RequestType, Finish

-----------------------------------------------------------------------------
(* What a step leaves true of the requests it does not move *)

\* The log and the images grow and payments only go forward.
Monotone ==
  \A t \in Tickets :
    /\ trail[t] \subseteq trail'[t]
    /\ images[t] \subseteq images'[t]
    /\ payment[t] # "NONE" => payment'[t] # "NONE"
    /\ payment[t] = "VERIFIED" => payment'[t] = "VERIFIED"

\* The step moves no request but r.
Moves(r) == \A s \in Requests \ {r} : req'[s] = req[s]

\* What a request concluded survives every step that moves another one.
LEMMA RequestsOKStable ==
  ASSUME RequestType, RequestsOK, Monotone, NEW r \in Requests, Moves(r),
         (req[r] # Idle => RequestOK(req[r]))'
  PROVE  RequestsOK'
<1> SUFFICES ASSUME NEW s \in Requests, s # r, req'[s] # Idle
             PROVE  RequestOK(req[s])'
  BY DEF RequestsOK
<1>1. req'[s] = req[s]
  BY DEF Moves
<1>2. RequestOK(req[s]) /\ req[s].ticket \in Tickets
  BY <1>1, AtTyped DEF RequestsOK
<1> QED
  BY <1>1, <1>2 DEF Monotone, RequestOK, Grounded

-----------------------------------------------------------------------------
(* The two kinds of step most handlers are made of *)

\* A step that only reads keeps the invariant when the request it moves has
\* concluded no more than what is true.
LEMMA ReadOnlyStep ==
  ASSUME IInv, NEW r \in Requests, ReadOnly, Moves(r), RequestType',
         (req[r] # Idle => RequestOK(req[r]))'
  PROVE  IInv'
<1>1. TypeOK'
  BY DEF IInv, TypeOK, ReadOnly, RequestType
<1>2. RequestsOK'
  <2>1. Monotone
    BY DEF Monotone, ReadOnly
  <2> QED
    BY <2>1, RequestsOKStable DEF IInv, TypeOK, RequestType
<1>3. /\ StatusLogged' /\ NoMilestoneSkipped' /\ PaidWorkWasCompleted'
      /\ VerificationRowIsTrue' /\ FeedbackSound'
  BY DEF IInv, ReadOnly, StatusLogged, NoMilestoneSkipped, FeedbackSound,
         PaidWorkWasCompleted, VerificationRowIsTrue
<1> QED
  BY <1>1, <1>2, <1>3 DEF IInv

\* A ticket that is written keeps its rows well typed.
LEMMA WriteTicketTyped ==
  ASSUME TypeOK, NEW t \in Tickets, NEW s \in TicketStatusEnum,
         NEW e \in Technicians \cup {Unassigned}, WriteTicket(t, s, e)
  PROVE  /\ status' \in [Tickets -> Statuses]
         /\ technician' \in [Tickets -> Technicians \cup {Unassigned}]
         /\ trail' \in [Tickets -> SUBSET LogRows]
BY DEF TypeOK, WriteTicket, Statuses, LogRows

\* Writing a status whose milestone is grounded keeps the log whole.
LEMMA WriteTicketLogged ==
  ASSUME TypeOK, StatusLogged, NoMilestoneSkipped, NEW t \in Tickets,
         NEW s \in TicketStatusEnum, NEW e, WriteTicket(t, s, e), Grounded(t, s)
  PROVE  /\ StatusLogged' /\ NoMilestoneSkipped'
         /\ \A u \in Tickets : trail[u] \subseteq trail'[u]
         /\ \A u \in Tickets :
              VerificationRow \in trail'[u] => VerificationRow \in trail[u]
<1>1. \A u \in Tickets :
        trail'[u] = IF u = t THEN trail[u] \cup {s} ELSE trail[u]
  BY DEF WriteTicket, TypeOK
<1>2. StatusLogged'
  BY <1>1 DEF WriteTicket, TypeOK, StatusLogged
<1>3. NoMilestoneSkipped'
  BY <1>1 DEF NoMilestoneSkipped, Grounded
<1>4. s # VerificationRow
  BY DEF TicketStatusEnum, VerificationRow
<1> QED
  BY <1>1, <1>2, <1>3, <1>4

\* A commit that writes a grounded status and ends its request, or leaves it
\* with a write that needs no check, keeps the invariant.
LEMMA CommitStep ==
  ASSUME IInv, NEW r \in Requests, NEW t \in Tickets,
         NEW s \in TicketStatusEnum, NEW e \in Technicians \cup {Unassigned},
         Grounded(t, s), WriteTicket(t, s, e), Moves(r), RequestType',
         closedAt' \in [Tickets -> BOOLEAN],
         images' \in [Tickets -> SUBSET ImageTypes],
         \A u \in Tickets : images[u] \subseteq images'[u],
         UNCHANGED <<payment, confirmedBy, feedback, active>>,
         (req[r] # Idle => RequestOK(req[r]))'
  PROVE  IInv'
<1>1. TypeOK'
  BY WriteTicketTyped DEF IInv, TypeOK, RequestType
<1>2. /\ StatusLogged' /\ NoMilestoneSkipped'
      /\ \A u \in Tickets : trail[u] \subseteq trail'[u]
      /\ \A u \in Tickets :
           VerificationRow \in trail'[u] => VerificationRow \in trail[u]
  BY WriteTicketLogged DEF IInv
<1>3. RequestsOK'
  <2>1. Monotone
    BY <1>2 DEF Monotone
  <2> QED
    BY <2>1, RequestsOKStable DEF IInv, TypeOK, RequestType
<1>4. PaidWorkWasCompleted' /\ VerificationRowIsTrue' /\ FeedbackSound'
  BY <1>2 DEF IInv, PaidWorkWasCompleted, VerificationRowIsTrue, FeedbackSound
<1> QED
  BY <1>1, <1>2, <1>3, <1>4 DEF IInv

\* A write outside the ticket row, the log and the payments keeps it too.
LEMMA SideStep ==
  ASSUME IInv, NEW r \in Requests, Moves(r), RequestType',
         images' \in [Tickets -> SUBSET ImageTypes],
         \A u \in Tickets : images[u] \subseteq images'[u],
         active' \in [Technicians -> BOOLEAN],
         UNCHANGED <<ticketVars, paymentVars, feedback>>,
         (req[r] # Idle => RequestOK(req[r]))'
  PROVE  IInv'
<1>1. TypeOK'
  BY DEF IInv, TypeOK, ticketVars, paymentVars, RequestType
<1>2. RequestsOK'
  <2>1. Monotone
    BY DEF Monotone, ticketVars, paymentVars
  <2> QED
    BY <2>1, RequestsOKStable DEF IInv, TypeOK, RequestType
<1>3. /\ StatusLogged' /\ NoMilestoneSkipped' /\ PaidWorkWasCompleted'
      /\ VerificationRowIsTrue' /\ FeedbackSound'
  BY DEF IInv, ticketVars, paymentVars, StatusLogged, NoMilestoneSkipped,
         FeedbackSound, PaidWorkWasCompleted, VerificationRowIsTrue
<1> QED
  BY <1>1, <1>2, <1>3 DEF IInv

-----------------------------------------------------------------------------
(* A client calls: the first read of every handler *)

\* A handler whose first read justifies what its request concludes keeps the
\* invariant.
LEMMA StartStep ==
  ASSUME IInv, NEW r \in Requests, NEW op \in Ops, NEW step \in Steps,
         NEW t \in Tickets, NEW e \in Technicians \cup {Unassigned},
         NEW to \in TicketStatusEnum \cup ImageTypes \cup {NoTarget},
         Start(r, op, step, t, e, to), ReadOnly,
         RequestOK([op |-> op, step |-> step, ticket |-> t, tech |-> e,
                    to |-> to])
  PROVE  IInv'
<1>1. RequestType
  BY DEF IInv, TypeOK, RequestType
<1>2. RequestType' /\ Moves(r)
  BY <1>1, StartTyped DEF RequestType, Start, Moves
<1>3. req'[r] = [op |-> op, step |-> step, ticket |-> t, tech |-> e, to |-> to]
  BY <1>1 DEF RequestType, Start
<1>4. RequestOK(req[r])'
  BY <1>3 DEF RequestOK, Grounded, ReadOnly
<1> QED
  BY <1>2, <1>4, ReadOnlyStep

\* A technician's status change is grounded: PENDING is the one status that
\* leads to a milestone other than its own successor.
LEMMA ForwardGrounded ==
  ASSUME StatusLogged, NoMilestoneSkipped, NEW t \in Tickets,
         status[t] # Absent, NEW to, Forward(status[t], to)
  PROVE  Grounded(t, to)
<1>1. status[t] \in trail[t]
  BY DEF StatusLogged
<1>2. CASE status[t] = "PENDING"
  <2>1. "IN_PROGRESS" \in trail[t] /\ "REACHED_LOCATION" \in trail[t]
    BY <1>1, <1>2 DEF NoMilestoneSkipped, MilestoneBefore
  <2> QED
    BY <2>1, <1>2 DEF Grounded, MilestoneBefore, Forward, ForwardEdges
<1>3. CASE status[t] # "PENDING"
  BY <1>1, <1>3 DEF Grounded, MilestoneBefore, Forward, ForwardEdges
<1> QED
  BY <1>2, <1>3

\* Whatever a handler's first read concludes, the log grounds.
LEMMA CallStep ==
  ASSUME IInv, NEW r \in Requests, Call(r)
  PROVE  IInv'
<1>l. ASSUME NEW t \in Tickets, status[t] # Absent
      PROVE  status[t] \in trail[t]
  BY <1>l DEF IInv, StatusLogged
<1>1. ASSUME NEW t \in Tickets, NEW e \in Technicians,
             NEW to \in TicketStatusEnum, UpdateTicketStatus(r, t, e, to)
      PROVE  IInv'
  <2>1. Grounded(t, to)
    BY <1>1, ForwardGrounded DEF UpdateTicketStatus, OwnTicket, IInv
  <2> QED
    BY <1>1, <2>1, StartStep
    DEF UpdateTicketStatus, RequestOK, AssignOps, Ops, Steps
<1>2. ASSUME NEW t \in Tickets, NEW e \in Technicians, CompleteTicket(r, t, e)
      PROVE  IInv'
  <2>1. Grounded(t, "COMPLETED") /\ "COMPLETED" \in TicketStatusEnum
    BY <1>2, <1>l
    DEF CompleteTicket, Grounded, MilestoneBefore, Absent, TicketStatusEnum
  <2> QED
    BY <1>2, <2>1, StartStep DEF CompleteTicket, RequestOK, AssignOps, Ops, Steps
<1>3. ASSUME NEW t \in Tickets, NEW e \in Technicians, MarkPending(r, t, e)
      PROVE  IInv'
  <2>1. Grounded(t, "PENDING") /\ "PENDING" \in TicketStatusEnum
    BY <1>3, <1>l
    DEF MarkPending, Grounded, MilestoneBefore, Absent, TicketStatusEnum
  <2> QED
    BY <1>3, <2>1, StartStep DEF MarkPending, RequestOK, AssignOps, Ops, Steps
<1>4. ASSUME NEW t \in Tickets, NEW e \in Technicians, RejectTicket(r, t, e)
      PROVE  IInv'
  <2>1. Grounded(t, "NEW_TICKET") /\ "NEW_TICKET" \in TicketStatusEnum
    BY DEF Grounded, MilestoneBefore, TicketStatusEnum
  <2> QED
    BY <1>4, <2>1, StartStep DEF RejectTicket, RequestOK, AssignOps, Ops, Steps
<1>5. ASSUME NEW t \in Tickets, NEW e \in Technicians, NEW type \in UploadTypes,
             UploadImage(r, t, e, type)
      PROVE  IInv'
  <2>1. Grounded(t, type) /\ type \in ImageTypes
    BY UploadTypesAssumption DEF Grounded, MilestoneBefore, ImageTypes
  <2> QED
    BY <1>5, <2>1, StartStep DEF UploadImage, RequestOK, AssignOps, Ops, Steps
<1>6. ASSUME NEW t \in Tickets, NEW e \in Technicians, CollectPayment(r, t, e)
      PROVE  IInv'
  <2>1. /\ Grounded(t, "INVOICE_GENERATED")
        /\ "INVOICE_GENERATED" \in TicketStatusEnum
    BY <1>6, <1>l
    DEF CollectPayment, Grounded, MilestoneBefore, Absent, TicketStatusEnum
  <2> QED
    BY <1>6, <2>1, StartStep DEF CollectPayment, RequestOK, AssignOps, Ops, Steps
<1>7. ASSUME NEW t \in Tickets, NEW e \in Technicians, AssignTechnician(r, t, e)
      PROVE  IInv'
  <2>1. Grounded(t, "ASSIGNED") /\ "ASSIGNED" \in TicketStatusEnum
    BY <1>7, ForwardGrounded DEF AssignTechnician, IInv, TicketStatusEnum
  <2> QED
    BY <1>7, <2>1, StartStep DEF AssignTechnician, RequestOK, AssignOps, Ops, Steps
<1>8. ASSUME NEW t \in Tickets, NEW e \in Technicians, ReassignTechnician(r, t, e)
      PROVE  IInv'
  <2>1. "ASSIGNED" \in trail[t] /\ "NEW_TICKET" \in trail[t]
    BY <1>8, <1>l
    DEF ReassignTechnician, Returnable, IInv, NoMilestoneSkipped,
        MilestoneBefore, Absent
  <2>2. Grounded(t, "ASSIGNED") /\ "ASSIGNED" \in TicketStatusEnum
    BY <2>1 DEF Grounded, MilestoneBefore, TicketStatusEnum
  <2> QED
    BY <1>8, <2>2, StartStep
    DEF ReassignTechnician, RequestOK, AssignOps, Ops, Steps
<1>9. ASSUME NEW t \in Tickets, CloseTicket(r, t)
      PROVE  IInv'
  <2>1. Grounded(t, "TICKET_CLOSED") /\ "TICKET_CLOSED" \in TicketStatusEnum
    BY <1>9, <1>l
    DEF CloseTicket, Grounded, MilestoneBefore, Absent, TicketStatusEnum
  <2> QED
    BY <1>9, <2>1, StartStep DEF CloseTicket, RequestOK, AssignOps, Ops, Steps
<1>10. ASSUME NEW t \in Tickets,
              ManagerCancelTicket(r, t) \/ CustomerCancelTicket(r, t)
       PROVE  IInv'
  <2>1. Grounded(t, "CANCELLED") /\ "CANCELLED" \in TicketStatusEnum
    BY DEF Grounded, MilestoneBefore, TicketStatusEnum
  <2> QED
    BY <1>10, <2>1, StartStep
    DEF ManagerCancelTicket, CustomerCancelTicket, RequestOK, AssignOps, Ops, Steps
<1>11. ASSUME NEW t \in Tickets, VerifyPayment(r, t)
       PROVE  IInv'
  <2>1. Grounded(t, NoTarget)
    BY DEF Grounded, MilestoneBefore, NoTarget
  <2> QED
    BY <1>11, <2>1, StartStep DEF VerifyPayment, RequestOK, AssignOps, Ops, Steps
<1>12. ASSUME NEW t \in Tickets, SubmitFeedback(r, t)
       PROVE  IInv'
  <2>1. "INVOICE_GENERATED" \in trail[t]
    BY <1>12, <1>l
    DEF SubmitFeedback, FeedbackAllowed, IInv, NoMilestoneSkipped,
        MilestoneBefore, Absent
  <2>2. Grounded(t, NoTarget)
    BY DEF Grounded, MilestoneBefore, NoTarget
  <2> QED
    BY <1>12, <2>1, <2>2, StartStep
    DEF SubmitFeedback, RequestOK, AssignOps, Ops, Steps
<1>13. ASSUME NEW t \in Tickets, RaiseTicket(r, t)
       PROVE  IInv'
  <2>1. Grounded(t, "NEW_TICKET") /\ "NEW_TICKET" \in TicketStatusEnum
    BY DEF Grounded, MilestoneBefore, TicketStatusEnum
  <2>2. Grounded(t, "RAISED")'
    BY DEF Grounded, MilestoneBefore
  <2>3. CASE UNCHANGED req /\ req[r] = Idle
    BY <1>13, <2>1, <2>3, CommitStep
    DEF RaiseTicket, IInv, TypeOK, RequestType, Moves, paymentVars
  <2>4. CASE Start(r, "raiseTicket", "saveImage", t, Unassigned, "RAISED")
    <3>1. RequestType' /\ Moves(r)
      BY <2>4, StartTyped
      DEF IInv, TypeOK, RequestType, Start, Moves, Ops, Steps, ImageTypes
    <3>2. RequestOK(req[r])'
      BY <2>2, <2>4 DEF IInv, TypeOK, Start, RequestOK, AssignOps
    <3> QED
      BY <1>13, <2>1, <3>1, <3>2, CommitStep
      DEF RaiseTicket, IInv, TypeOK, paymentVars
  <2> QED
    BY <1>13, <2>3, <2>4 DEF RaiseTicket
<1>14. ASSUME NEW e \in Technicians, NEW on \in BOOLEAN,
              SetTechnicianActive(r, e, on)
       PROVE  IInv'
  BY <1>14, SideStep
  DEF SetTechnicianActive, IInv, TypeOK, RequestType, Moves
<1> QED
  BY <1>1, <1>2, <1>3, <1>4, <1>5, <1>6, <1>7, <1>8, <1>9, <1>10, <1>11, <1>12,
     <1>13, <1>14
  DEF Call

-----------------------------------------------------------------------------
(* A handler runs on *)

\* Ending a request moves it alone, and leaves nothing to be justified.
LEMMA FinishMoves ==
  ASSUME IInv, NEW r \in Requests, Finish(r)
  PROVE  RequestType' /\ Moves(r) /\ req'[r] = Idle
BY FinishTyped DEF IInv, TypeOK, RequestType, Finish, Moves

\* Continuing a request changes nothing of it but its step.
LEMMA ContinueMoves ==
  ASSUME IInv, NEW r \in Requests, req[r] # Idle, NEW step \in Steps,
         Continue(r, step)
  PROVE  /\ RequestType' /\ Moves(r)
         /\ req'[r].op = req[r].op /\ req'[r].step = step
         /\ req'[r].ticket = req[r].ticket /\ req'[r].to = req[r].to
<1>1. RequestType /\ req[r] \in InFlight
  BY AtTyped DEF IInv, TypeOK, RequestType
<1>2. RequestType'
  BY <1>1, ContinueTyped
<1>3. req' = [req EXCEPT ![r] = [req[r] EXCEPT !.step = step]]
  BY DEF Continue
<1> QED
  BY <1>1, <1>2, <1>3 DEF RequestType, InFlight, Moves

\* The request of a step in flight is typed and knows what it concluded.
LEMMA AtOK ==
  ASSUME IInv, NEW r \in Requests, req[r] # Idle
  PROVE  /\ RequestOK(req[r])
         /\ req[r] \in InFlight
         /\ req[r].ticket \in Tickets
         /\ req[r].tech \in Technicians \cup {Unassigned}
         /\ technician[req[r].ticket] \in Technicians \cup {Unassigned}
BY AtTyped DEF IInv, TypeOK, RequestType, RequestsOK

\* A request that ends without a write keeps the invariant.
LEMMA FinishStep ==
  ASSUME IInv, NEW r \in Requests, Finish(r), ReadOnly
  PROVE  IInv'
BY FinishMoves, ReadOnlyStep

\* Commits of a status: the log grounds it since the request began.
LEMMA StatusCommitStep ==
  ASSUME IInv, NEW r \in Requests,
         \/ UpdateTicketStatusCommit(r) \/ CompleteTicketCommit(r)
         \/ MarkPendingCommit(r) \/ RejectTicketCommit(r) \/ AssignCommit(r)
         \/ CloseTicketCommit(r) \/ CancelTicketCommit(r)
  PROVE  IInv'
<1> DEFINE t == req[r].ticket
<1> USE DEF At, paymentVars
<1>n. req[r] # Idle
  BY DEF UpdateTicketStatusCommit, CompleteTicketCommit, MarkPendingCommit,
         RejectTicketCommit, AssignCommit, CloseTicketCommit, CancelTicketCommit
<1>t. /\ closedAt \in [Tickets -> BOOLEAN]
      /\ images \in [Tickets -> SUBSET ImageTypes]
      /\ technician[t] \in Technicians \cup {Unassigned}
      /\ t \in Tickets
      /\ RequestOK(req[r])
      /\ Grounded(t, req[r].to)
  BY <1>n, AtOK DEF IInv, TypeOK, RequestOK
<1>f. Grounded(t, "NEW_TICKET") /\ Grounded(t, "CANCELLED")
  BY DEF Grounded, MilestoneBefore
<1>e. {"NEW_TICKET", "ASSIGNED", "PENDING", "COMPLETED", "TICKET_CLOSED",
       "CANCELLED"} \subseteq TicketStatusEnum
  BY DEF TicketStatusEnum
<1>1. CASE UpdateTicketStatusCommit(r)
  BY <1>1, <1>t, FinishMoves, CommitStep
  DEF UpdateTicketStatusCommit, RequestOK
<1>2. CASE CompleteTicketCommit(r)
  <2>1. Grounded(t, "COMPLETED")
    BY <1>2, <1>t DEF CompleteTicketCommit, RequestOK
  <2>2. /\ images' \in [Tickets -> SUBSET ImageTypes]
        /\ \A u \in Tickets : images[u] \subseteq images'[u]
    BY <1>2, <1>t DEF CompleteTicketCommit, AddImage, ImageTypes
  <2> QED
    BY <1>2, <1>t, <1>e, <2>1, <2>2, FinishMoves, CommitStep
    DEF CompleteTicketCommit
<1>3. CASE MarkPendingCommit(r)
  <2>1. Grounded(t, "PENDING")
    BY <1>3, <1>t DEF MarkPendingCommit, RequestOK
  <2>2. CASE Finish(r)
    BY <1>3, <1>t, <1>e, <2>1, <2>2, FinishMoves, CommitStep
    DEF MarkPendingCommit
  <2>3. CASE Continue(r, "saveImage")
    <3>1. RequestType' /\ Moves(r)
      BY <1>n, <2>3, ContinueMoves DEF Steps
    <3>2. \A u \in Tickets : trail[u] \subseteq trail'[u]
      BY <1>3, <1>t DEF MarkPendingCommit, WriteTicket, IInv, TypeOK
    <3>3. RequestOK(req[r])'
      <4>1. /\ req'[r].op = "markPending" /\ req'[r].ticket = t
            /\ req'[r].to = req[r].to
        BY <1>3, <1>n, <2>3, ContinueMoves DEF MarkPendingCommit, Steps
      <4>2. Grounded(req[r].ticket, req[r].to)'
        BY <1>t, <3>2, <4>1 DEF Grounded
      <4> QED
        BY <1>3, <1>t, <4>1, <4>2 DEF MarkPendingCommit, RequestOK, AssignOps
    <3> QED
      BY <1>3, <1>t, <1>e, <2>1, <3>1, <3>3, CommitStep DEF MarkPendingCommit
  <2> QED
    BY <1>3, <2>2, <2>3 DEF MarkPendingCommit
<1>4. CASE RejectTicketCommit(r)
  BY <1>4, <1>t, <1>e, <1>f, FinishMoves, CommitStep DEF RejectTicketCommit
<1>5. CASE AssignCommit(r)
  <2>1. Grounded(t, "ASSIGNED")
    BY <1>5, <1>t DEF AssignCommit, RequestOK
  <2>2. req[r].tech \in Technicians \cup {Unassigned}
    BY <1>n, AtOK
  <2> QED
    BY <1>5, <1>t, <1>e, <2>1, <2>2, FinishMoves, CommitStep DEF AssignCommit
<1>6. CASE CloseTicketCommit(r)
  <2>1. Grounded(t, "TICKET_CLOSED")
    BY <1>6, <1>t DEF CloseTicketCommit, RequestOK
  <2> QED
    BY <1>6, <1>t, <1>e, <2>1, FinishMoves, CommitStep DEF CloseTicketCommit
<1>7. CASE CancelTicketCommit(r)
  BY <1>7, <1>t, <1>e, <1>f, FinishMoves, CommitStep DEF CancelTicketCommit
<1> QED
  BY <1>1, <1>2, <1>3, <1>4, <1>5, <1>6, <1>7

\* Reads before the commit: the photos it finds stay; nothing else is new.
LEMMA LaterReadStep ==
  ASSUME IInv, NEW r \in Requests,
         \/ CompleteTicketReadImages(r) \/ CollectPaymentReadPayment(r)
         \/ AssignReadTechnician(r) \/ SubmitFeedbackReadFeedback(r)
  PROVE  IInv'
<1>n. req[r] # Idle /\ ReadOnly
  BY DEF CompleteTicketReadImages, CollectPaymentReadPayment, At,
         AssignReadTechnician, SubmitFeedbackReadFeedback
<1>1. CASE Finish(r)
  BY <1>n, <1>1, FinishStep
<1>2. CASE /\ Continue(r, "commit")
           /\ req[r].op # "verifyPayment"
           /\ req[r].op = "completeTicket" =>
                HasBeforeAndAfter(images[req[r].ticket])
  <2>1. /\ RequestType' /\ Moves(r)
        /\ req'[r].op = req[r].op /\ req'[r].step = "commit"
        /\ req'[r].ticket = req[r].ticket /\ req'[r].to = req[r].to
    BY <1>n, <1>2, ContinueMoves DEF Steps
  <2>2. RequestOK(req[r])
    BY <1>n, AtOK
  <2>3. Grounded(req[r].ticket, req[r].to)'
    BY <1>n, <2>1, <2>2 DEF RequestOK, Grounded, ReadOnly
  <2>4. RequestOK(req[r])'
    BY <1>n, <1>2, <2>1, <2>2, <2>3 DEF RequestOK, ReadOnly, HasBeforeAndAfter
  <2> QED
    BY <1>n, <2>1, <2>4, ReadOnlyStep
<1> QED
  BY <1>1, <1>2
  DEF CompleteTicketReadImages, CollectPaymentReadPayment, At, AssignOps,
      AssignReadTechnician, SubmitFeedbackReadFeedback

\* Image rows written after or outside a transaction.
LEMMA SaveImageStep ==
  ASSUME IInv, NEW r \in Requests,
         \/ MarkPendingSaveImage(r) \/ UploadImageSave(r)
         \/ RaiseTicketSaveImage(r)
  PROVE  IInv'
<1>1. req[r] # Idle /\ Finish(r)
  BY DEF MarkPendingSaveImage, UploadImageSave, RaiseTicketSaveImage, At
<1>2. PICK type \in ImageTypes : AddImage(req[r].ticket, type)
  <2>1. req[r].op = "uploadImage" => req[r].to \in ImageTypes
    BY <1>1, AtOK DEF RequestOK
  <2> QED
    BY <2>1
    DEF MarkPendingSaveImage, UploadImageSave, RaiseTicketSaveImage, At, ImageTypes
<1>3. /\ images' \in [Tickets -> SUBSET ImageTypes]
      /\ \A u \in Tickets : images[u] \subseteq images'[u]
  BY <1>2 DEF AddImage, IInv, TypeOK
<1>4. active' \in [Technicians -> BOOLEAN]
  BY DEF MarkPendingSaveImage, UploadImageSave, RaiseTicketSaveImage, IInv, TypeOK
<1> QED
  BY <1>1, <1>3, <1>4, FinishMoves, SideStep
  DEF MarkPendingSaveImage, UploadImageSave, RaiseTicketSaveImage

\* The payment is inserted once, and only for a completed ticket.
LEMMA CollectPaymentStep ==
  ASSUME IInv, NEW r \in Requests, CollectPaymentCommit(r)
  PROVE  IInv'
<1> DEFINE t == req[r].ticket
<1>1. req[r] # Idle /\ req[r].op = "collectPayment" /\ Finish(r)
  BY DEF CollectPaymentCommit, At
<1>2. /\ t \in Tickets /\ Grounded(t, "INVOICE_GENERATED")
      /\ req[r].tech \in Technicians \cup {Unassigned}
      /\ technician[t] \in Technicians \cup {Unassigned}
  BY <1>1, AtOK DEF RequestOK
<1>3. CASE ~PaymentInsertable(t)
  BY <1>1, <1>3, FinishStep DEF CollectPaymentCommit, ReadOnly, paymentVars
<1>4. CASE PaymentInsertable(t)
  <2>1. /\ payment' = [payment EXCEPT ![t] = "COLLECTED"]
        /\ confirmedBy' = [confirmedBy EXCEPT ![t] = req[r].tech]
        /\ WriteTicket(t, "INVOICE_GENERATED", technician[t])
        /\ UNCHANGED <<closedAt, images, feedback, active>>
        /\ payment[t] = "NONE"
    BY <1>4 DEF CollectPaymentCommit, PaymentInsertable
  <2>2. "INVOICE_GENERATED" \in TicketStatusEnum
    BY DEF TicketStatusEnum
  <2>3. TypeOK'
    BY <1>1, <1>2, <2>1, <2>2, WriteTicketTyped, FinishMoves
    DEF IInv, TypeOK, RequestType
  <2>4. /\ StatusLogged' /\ NoMilestoneSkipped'
        /\ \A u \in Tickets : trail[u] \subseteq trail'[u]
        /\ \A u \in Tickets :
             VerificationRow \in trail'[u] => VerificationRow \in trail[u]
    BY <1>2, <2>1, <2>2, WriteTicketLogged DEF IInv
  <2>5. Monotone
    BY <2>1, <2>4 DEF Monotone, IInv, TypeOK
  <2>6. RequestsOK'
    BY <1>1, <2>5, FinishMoves, RequestsOKStable DEF IInv, TypeOK, RequestType
  <2>7. {"COMPLETED", "INVOICE_GENERATED"} \subseteq trail'[t]
    BY <1>2, <2>1, <2>4
    DEF Grounded, MilestoneBefore, WriteTicket, IInv, TypeOK
  <2>8. PaidWorkWasCompleted'
    BY <1>2, <2>1, <2>4, <2>7 DEF IInv, TypeOK, PaidWorkWasCompleted
  <2>9. VerificationRowIsTrue' /\ FeedbackSound'
    BY <1>2, <2>1, <2>4
    DEF IInv, TypeOK, VerificationRowIsTrue, FeedbackSound
  <2> QED
    BY <2>3, <2>4, <2>6, <2>8, <2>9 DEF IInv
<1> QED
  BY <1>3, <1>4

\* The payment turns VERIFIED before its log row is written.
LEMMA VerifyPaymentStep ==
  ASSUME IInv, NEW r \in Requests, VerifyPaymentCommit(r)
  PROVE  IInv'
<1> DEFINE t == req[r].ticket
<1>1. /\ req[r] # Idle /\ req[r].op = "verifyPayment"
      /\ Continue(r, "saveLog")
      /\ payment' = [payment EXCEPT ![t] = "VERIFIED"]
      /\ UNCHANGED <<status, technician, closedAt, trail, images, confirmedBy,
                     feedback, active>>
  BY DEF VerifyPaymentCommit, At, ticketVars
<1>2. t \in Tickets /\ RequestOK(req[r]) /\ payment[t] # "NONE"
  BY <1>1, AtOK DEF RequestOK
<1>3. /\ RequestType' /\ Moves(r)
      /\ req'[r].op = "verifyPayment" /\ req'[r].step = "saveLog"
      /\ req'[r].ticket = t /\ req'[r].to = req[r].to
  BY <1>1, ContinueMoves DEF Steps
<1>4. TypeOK'
  BY <1>1, <1>3 DEF IInv, TypeOK, RequestType
<1>5. Monotone
  BY <1>1, <1>2 DEF Monotone, IInv, TypeOK
<1>6. RequestsOK'
  <2>1. Grounded(t, req[r].to)'
    BY <1>1, <1>2, <1>3 DEF RequestOK, Grounded
  <2>2. RequestOK(req[r])'
    BY <1>1, <1>2, <1>3, <2>1 DEF RequestOK, IInv, TypeOK, AssignOps
  <2> QED
    BY <1>3, <1>5, <2>2, RequestsOKStable DEF IInv, TypeOK, RequestType
<1>7. /\ StatusLogged' /\ NoMilestoneSkipped' /\ PaidWorkWasCompleted'
      /\ VerificationRowIsTrue' /\ FeedbackSound'
  BY <1>1, <1>2
  DEF IInv, TypeOK, StatusLogged, NoMilestoneSkipped, FeedbackSound,
      PaidWorkWasCompleted, VerificationRowIsTrue
<1> QED
  BY <1>4, <1>6, <1>7 DEF IInv

\* The log row of a verification follows a payment that is verified for good.
LEMMA VerifyPaymentLogStep ==
  ASSUME IInv, NEW r \in Requests, VerifyPaymentSaveLog(r)
  PROVE  IInv'
<1> DEFINE t == req[r].ticket
<1>1. /\ req[r] # Idle /\ Finish(r)
      /\ trail' = [trail EXCEPT ![t] = @ \cup {VerificationRow}]
      /\ UNCHANGED <<status, technician, closedAt, images, payment,
                     confirmedBy, feedback, active>>
  BY DEF VerifyPaymentSaveLog, At, paymentVars
<1>2. t \in Tickets /\ payment[t] = "VERIFIED"
  BY <1>1, AtOK DEF RequestOK, VerifyPaymentSaveLog, At
<1>3. \A u \in Tickets :
        trail'[u] = IF u = t THEN trail[u] \cup {VerificationRow} ELSE trail[u]
  BY <1>1 DEF IInv, TypeOK
<1>4. TypeOK'
  BY <1>1, FinishMoves DEF IInv, TypeOK, RequestType, LogRows
<1>5. RequestsOK'
  <2>1. Monotone
    BY <1>1, <1>3 DEF Monotone
  <2> QED
    BY <1>1, <2>1, FinishMoves, RequestsOKStable DEF IInv, TypeOK, RequestType
<1>6. NoMilestoneSkipped'
  <2>1. \A edge \in MilestoneBefore : edge[2] # VerificationRow
    BY DEF MilestoneBefore, VerificationRow
  <2> QED
    BY <1>3, <2>1 DEF IInv, NoMilestoneSkipped
<1>7. StatusLogged' /\ PaidWorkWasCompleted' /\ VerificationRowIsTrue'
      /\ FeedbackSound'
  BY <1>1, <1>2, <1>3
  DEF IInv, StatusLogged, FeedbackSound, PaidWorkWasCompleted,
      VerificationRowIsTrue
<1> QED
  BY <1>4, <1>5, <1>6, <1>7 DEF IInv

\* One feedback per ticket, and only after the invoice.
LEMMA SubmitFeedbackStep ==
  ASSUME IInv, NEW r \in Requests, SubmitFeedbackCommit(r)
  PROVE  IInv'
<1> DEFINE t == req[r].ticket
<1>1. /\ req[r] # Idle /\ req[r].op = "submitFeedback" /\ Finish(r)
      /\ UNCHANGED <<status, technician, closedAt, trail, images, payment,
                     confirmedBy, active>>
  BY DEF SubmitFeedbackCommit, At, ticketVars, paymentVars
<1>2. t \in Tickets /\ "INVOICE_GENERATED" \in trail[t]
  BY <1>1, AtOK DEF RequestOK
<1>3. CASE ~FeedbackInsertable(t)
  BY <1>1, <1>3, FinishStep DEF SubmitFeedbackCommit, ReadOnly
<1>4. CASE FeedbackInsertable(t)
  <2>1. feedback' = [feedback EXCEPT ![t] = 1]
    BY <1>2, <1>4
    DEF SubmitFeedbackCommit, FeedbackInsertable, IInv, TypeOK
  <2>2. TypeOK'
    BY <1>1, <2>1, FinishMoves DEF IInv, TypeOK, RequestType
  <2>3. RequestsOK'
    <3>1. Monotone
      BY <1>1 DEF Monotone
    <3> QED
      BY <1>1, <3>1, FinishMoves, RequestsOKStable DEF IInv, TypeOK, RequestType
  <2>4. /\ StatusLogged' /\ NoMilestoneSkipped' /\ PaidWorkWasCompleted'
        /\ VerificationRowIsTrue' /\ FeedbackSound'
    BY <1>1, <1>2, <2>1
    DEF IInv, TypeOK, StatusLogged, NoMilestoneSkipped, FeedbackSound,
        PaidWorkWasCompleted, VerificationRowIsTrue
  <2> QED
    BY <2>2, <2>3, <2>4 DEF IInv
<1> QED
  BY <1>3, <1>4

-----------------------------------------------------------------------------
(* The theorems *)

\* The empty database satisfies the inductive invariant.
LEMMA InitIInv == Init => IInv
BY DEF Init, IInv, TypeOK, StatusLogged, NoMilestoneSkipped, FeedbackSound,
       PaidWorkWasCompleted, VerificationRowIsTrue, RequestsOK, Statuses

\* Every call, step and failure of a request keeps the inductive invariant.
LEMMA NextIInv == IInv /\ [Next]_vars => IInv'
<1> SUFFICES ASSUME IInv, [Next]_vars PROVE IInv'
  OBVIOUS
<1>1. CASE UNCHANGED vars
  BY <1>1
  DEF IInv, TypeOK, StatusLogged, NoMilestoneSkipped, FeedbackSound,
      PaidWorkWasCompleted, VerificationRowIsTrue, RequestsOK, RequestOK,
      Grounded, vars
<1>2. ASSUME NEW r \in Requests, Call(r) PROVE IInv'
  BY <1>2, CallStep
<1>3. ASSUME NEW r \in Requests, Step(r) PROVE IInv'
  BY <1>3, StatusCommitStep, LaterReadStep, SaveImageStep, CollectPaymentStep,
     VerifyPaymentStep, VerifyPaymentLogStep, SubmitFeedbackStep
  DEF Step
<1>4. ASSUME NEW r \in Requests, Fail(r) PROVE IInv'
  BY <1>4, FinishStep DEF Fail
<1> QED
  BY <1>1, <1>2, <1>3, <1>4 DEF Next

\* Every reachable state satisfies the inductive invariant.
THEOREM Invariance == Spec => []IInv
BY InitIInv, NextIInv, PTL DEF Spec

\* Type correctness: every row and every request keeps its type.
THEOREM TypeCorrect == Spec => []TypeOK
<1>1. IInv => TypeOK
  BY DEF IInv
<1> QED
  BY <1>1, Invariance, PTL

\* However requests race, no log shows a milestone without the one before it.
THEOREM MilestonesInOrder == Spec => []NoMilestoneSkipped
<1>1. IInv => NoMilestoneSkipped
  BY DEF IInv
<1> QED
  BY <1>1, Invariance, PTL

\* However requests race, money is recorded only for completed work.
THEOREM PaymentsForCompletedWork == Spec => []PaidWorkWasCompleted
<1>1. IInv => PaidWorkWasCompleted
  BY DEF IInv
<1> QED
  BY <1>1, Invariance, PTL

\* A verification row in the log is always backed by a verified payment.
THEOREM VerificationRowsAreTrue == Spec => []VerificationRowIsTrue
<1>1. IInv => VerificationRowIsTrue
  BY DEF IInv
<1> QED
  BY <1>1, Invariance, PTL

\* A ticket has at most one feedback, and only once it was invoiced.
THEOREM FeedbackIsSound == Spec => []FeedbackSound
<1>1. IInv => FeedbackSound
  BY DEF IInv
<1> QED
  BY <1>1, Invariance, PTL

\* The photos completeTicket checked are there when it commits.
THEOREM PhotoChecksStayTrue == Spec => []PhotoCheckStaysTrue
<1>1. IInv => PhotoCheckStaysTrue
  BY DEF IInv, RequestsOK, RequestOK, PhotoCheckStaysTrue, At
<1> QED
  BY <1>1, Invariance, PTL

\* A payment is never undone and never changes hands.
LEMMA OnlyForward ==
  ASSUME IInv, NEW r \in Requests, Call(r) \/ Step(r) \/ Fail(r)
  PROVE  \A t \in Tickets :
           /\ payment[t] # "NONE" =>
                payment'[t] # "NONE" /\ confirmedBy'[t] = confirmedBy[t]
           /\ payment[t] = "VERIFIED" => payment'[t] = "VERIFIED"
<1>1. CASE UNCHANGED <<payment, confirmedBy>>
  BY <1>1
<1>2. CASE CollectPaymentCommit(r)
  BY <1>2
  DEF CollectPaymentCommit, PaymentInsertable, paymentVars, IInv, TypeOK
<1>3. CASE VerifyPaymentCommit(r)
  BY <1>3 DEF VerifyPaymentCommit, IInv, TypeOK
<1>4. Call(r) => UNCHANGED <<payment, confirmedBy>>
  BY DEF Call, UpdateTicketStatus, CompleteTicket, MarkPending, RejectTicket,
         UploadImage, CollectPayment, AssignTechnician, ReassignTechnician,
         CloseTicket, ManagerCancelTicket, VerifyPayment, RaiseTicket,
         CustomerCancelTicket, SubmitFeedback, SetTechnicianActive,
         ReadOnly, paymentVars
<1>5. Step(r) => \/ UNCHANGED <<payment, confirmedBy>>
                \/ CollectPaymentCommit(r) \/ VerifyPaymentCommit(r)
  BY DEF Step, UpdateTicketStatusCommit, CompleteTicketReadImages,
         CompleteTicketCommit, MarkPendingCommit, MarkPendingSaveImage,
         RejectTicketCommit, UploadImageSave, CollectPaymentReadPayment,
         AssignReadTechnician, AssignCommit, CloseTicketCommit,
         CancelTicketCommit, VerifyPaymentSaveLog, RaiseTicketSaveImage,
         SubmitFeedbackReadFeedback, SubmitFeedbackCommit, ReadOnly,
         paymentVars
<1> QED
  BY <1>1, <1>2, <1>3, <1>4, <1>5 DEF Fail, ReadOnly

\* A payment is made once, keeps its collector and only goes forward.
THEOREM PaymentsGoForward == Spec => PaymentHistory
<1>1. IInv /\ [Next]_vars =>
        [\A t \in Tickets :
           /\ payment[t] # "NONE" =>
                payment'[t] # "NONE" /\ confirmedBy'[t] = confirmedBy[t]
           /\ payment[t] = "VERIFIED" => payment'[t] = "VERIFIED"]_vars
  BY OnlyForward DEF Next
<1> QED
  BY <1>1, Invariance, PTL DEF Spec, PaymentHistory

-----------------------------------------------------------------------------
(* One request at a time: what was read is still so *)

\* The service runs one request at a time.
OneAtATime == \A r, s \in Requests : r = s

\* With nobody else at work, what a request read is still so when it commits.
Fresh(q) ==
  /\ q.op \in {"updateTicketStatus", "completeTicket", "markPending",
               "collectPayment"} =>
       q.tech \in Technicians /\ technician[q.ticket] = q.tech
  /\ q.op = "updateTicketStatus" =>
       q.to \in TicketStatusEnum /\ Forward(status[q.ticket], q.to)
  /\ q.op = "completeTicket" => status[q.ticket] = "IN_PROGRESS"
  /\ q.op = "markPending" /\ q.step = "commit" =>
       status[q.ticket] = "IN_PROGRESS"
  /\ q.op = "rejectTicket" => status[q.ticket] \in Returnable
  /\ q.op = "collectPayment" => status[q.ticket] = "COMPLETED"
  /\ q.op \in AssignOps =>
       q.tech \in Technicians /\ status[q.ticket] \in {"NEW_TICKET"} \cup Returnable
  /\ q.op = "closeTicket" => status[q.ticket] = "INVOICE_GENERATED"
  /\ q.op \in CancelOps => status[q.ticket] \notin ManagerNonCancellable \cup {Absent}
  /\ q.op = "submitFeedback" => status[q.ticket] \in FeedbackAllowed

AllFresh == \A r \in Requests : req[r] # Idle => Fresh(req[r])

\* A rated ticket stays invoiced or closed.
FeedbackLocksTicket ==
  \A t \in Tickets : feedback[t] # 0 => status[t] \in FeedbackAllowed

SerialInv ==
  /\ AssignmentConsistent
  /\ PaymentLocksTicket
  /\ FeedbackLocksTicket
  /\ AllFresh

-----------------------------------------------------------------------------
(* The moves of a ticket when nobody else is at work *)

\* Ticket t gets status s and technician e.
Move(t, s, e) ==
  /\ status' = [status EXCEPT ![t] = s]
  /\ technician' = [technician EXCEPT ![t] = e]

\* The guards a ticket's move satisfies when what its request read is still so.
RaiseMove(t) == status[t] = Absent /\ Move(t, "NEW_TICKET", Unassigned)

AssignMove(t, e) ==
  status[t] \in {"NEW_TICKET"} \cup Returnable /\ Move(t, "ASSIGNED", e)

AdvanceMove(t, s) ==
  /\ technician[t] # Unassigned
  /\ Forward(status[t], s)
  /\ Move(t, s, technician[t])

RejectMove(t) == status[t] \in Returnable /\ Move(t, "NEW_TICKET", Unassigned)

CancelMove(t) ==
  /\ status[t] \notin ManagerNonCancellable \cup {Absent}
  /\ Move(t, "CANCELLED", Unassigned)

SomeMove ==
  \E t \in Tickets :
    \/ RaiseMove(t)
    \/ \E e \in Technicians : AssignMove(t, e)
    \/ \E s \in TicketStatusEnum : AdvanceMove(t, s)
    \/ RejectMove(t)
    \/ CancelMove(t)

-----------------------------------------------------------------------------
(* What a move keeps *)

\* A move of one ticket, seen from every ticket.
LEMMA MoveRows ==
  ASSUME TypeOK, NEW t \in Tickets, NEW s, NEW e, Move(t, s, e)
  PROVE  /\ status'[t] = s /\ technician'[t] = e
         /\ \A u \in Tickets \ {t} :
              status'[u] = status[u] /\ technician'[u] = technician[u]
BY DEF Move, TypeOK

\* What a status that a table leads to is.
LEMMA ForwardTargets ==
  ASSUME NEW s, NEW to, Forward(s, to)
  PROVE  /\ s \notin {Absent, "CANCELLED", "TICKET_CLOSED"}
         /\ to \notin {Absent, "NEW_TICKET", "CANCELLED"}
         /\ s = "INVOICE_GENERATED" => to = "TICKET_CLOSED"
BY DEF Forward, ForwardEdges, Absent

\* A move never leaves a ticket with the wrong technician,
\* and takes no ticket that is invoiced or closed anywhere but on to closed.
LEMMA MoveKeeps ==
  ASSUME TypeOK, AssignmentConsistent, SomeMove
  PROVE  /\ AssignmentConsistent'
         /\ \A t \in Tickets :
              status[t] \in {"INVOICE_GENERATED", "TICKET_CLOSED"} =>
                /\ status'[t] \in {"INVOICE_GENERATED", "TICKET_CLOSED"}
                /\ technician'[t] = technician[t]
<1> DEFINE Paid == {"INVOICE_GENERATED", "TICKET_CLOSED"}
<1> DEFINE Nobodys == {Absent, "NEW_TICKET", "CANCELLED"}
<1> DEFINE Kept ==
      /\ AssignmentConsistent'
      /\ \A t \in Tickets :
           status[t] \in Paid => status'[t] \in Paid /\ technician'[t] = technician[t]
<1>1. ASSUME NEW t \in Tickets, NEW s, NEW e, Move(t, s, e),
             e = Unassigned <=> s \in Nobodys,
             status[t] \in Paid => s \in Paid /\ e = technician[t]
      PROVE  Kept
  <2>1. /\ status'[t] = s /\ technician'[t] = e
        /\ \A u \in Tickets \ {t} :
             status'[u] = status[u] /\ technician'[u] = technician[u]
    BY <1>1, MoveRows
  <2>2. AssignmentConsistent'
    BY <1>1, <2>1 DEF AssignmentConsistent
  <2>3. ASSUME NEW u \in Tickets, status[u] \in Paid
        PROVE  status'[u] \in Paid /\ technician'[u] = technician[u]
    BY <1>1, <2>1, <2>3
  <2> QED
    BY <2>2, <2>3
<1>2. ASSUME NEW t \in Tickets, RaiseMove(t) PROVE Kept
  BY <1>1, <1>2 DEF RaiseMove, Absent
<1>3. ASSUME NEW t \in Tickets, NEW e \in Technicians, AssignMove(t, e)
      PROVE  Kept
  <2>1. Move(t, "ASSIGNED", e) /\ status[t] \notin Paid
    BY <1>3 DEF AssignMove, Returnable
  <2>2. e # Unassigned /\ "ASSIGNED" \notin Nobodys
    BY UnassignedAssumption DEF Absent
  <2> QED
    BY <1>1, <2>1, <2>2
<1>4. ASSUME NEW t \in Tickets, NEW s \in TicketStatusEnum, AdvanceMove(t, s)
      PROVE  Kept
  <2>1. /\ technician[t] # Unassigned
        /\ Forward(status[t], s)
        /\ Move(t, s, technician[t])
    BY <1>4 DEF AdvanceMove
  <2>2. s \notin Nobodys /\ (status[t] \in Paid => s \in Paid)
    BY <2>1, ForwardTargets
  <2> HIDE DEF Kept, Paid, Nobodys
  <2> QED
    BY <1>1, <2>1, <2>2
<1>5. ASSUME NEW t \in Tickets, RejectMove(t) PROVE Kept
  BY <1>1, <1>5 DEF RejectMove, Returnable
<1>6. ASSUME NEW t \in Tickets, CancelMove(t) PROVE Kept
  BY <1>1, <1>6 DEF CancelMove, ManagerNonCancellable
<1> QED
  BY <1>2, <1>3, <1>4, <1>5, <1>6 DEF SomeMove

-----------------------------------------------------------------------------
(* Every step is a move or leaves the tickets alone *)

\* The request of a handler is fresh when nobody else is at work.
LEMMA AtFresh ==
  ASSUME IInv, SerialInv, NEW r \in Requests, req[r] # Idle
  PROVE  /\ Fresh(req[r])
         /\ req[r].ticket \in Tickets
         /\ AssignmentConsistent
BY AtOK DEF SerialInv, AllFresh

\* The commits of a status are moves.
LEMMA CommitsMove ==
  ASSUME IInv, SerialInv, NEW r \in Requests,
         \/ UpdateTicketStatusCommit(r) \/ CompleteTicketCommit(r)
         \/ MarkPendingCommit(r) \/ RejectTicketCommit(r) \/ AssignCommit(r)
         \/ CloseTicketCommit(r) \/ CancelTicketCommit(r)
  PROVE  SomeMove
<1> DEFINE t == req[r].ticket
<1>1. req[r] # Idle
  BY DEF UpdateTicketStatusCommit, CompleteTicketCommit, MarkPendingCommit,
         RejectTicketCommit, AssignCommit, CloseTicketCommit,
         CancelTicketCommit, At
<1>2. Fresh(req[r]) /\ t \in Tickets /\ AssignmentConsistent
  BY <1>1, AtFresh
<1>3. ASSUME NEW s \in TicketStatusEnum, WriteTicket(t, s, technician[t]),
             Forward(status[t], s), technician[t] # Unassigned
      PROVE  SomeMove
  <2>1. AdvanceMove(t, s)
    BY <1>3 DEF AdvanceMove, Move, WriteTicket
  <2> QED
    BY <1>2, <2>1 DEF SomeMove
<1>4. CASE UpdateTicketStatusCommit(r)
  BY <1>2, <1>3, <1>4, UnassignedAssumption
  DEF UpdateTicketStatusCommit, Fresh, At
<1>5. CASE CompleteTicketCommit(r)
  <2>1. /\ WriteTicket(t, "COMPLETED", technician[t])
        /\ status[t] = "IN_PROGRESS" /\ technician[t] # Unassigned
    BY <1>2, <1>5, UnassignedAssumption DEF CompleteTicketCommit, Fresh, At
  <2> QED
    BY <2>1, <1>3 DEF Forward, ForwardEdges, TicketStatusEnum
<1>6. CASE MarkPendingCommit(r)
  <2>1. /\ WriteTicket(t, "PENDING", technician[t])
        /\ status[t] = "IN_PROGRESS" /\ technician[t] # Unassigned
    BY <1>2, <1>6, UnassignedAssumption DEF MarkPendingCommit, Fresh, At
  <2> QED
    BY <2>1, <1>3 DEF Forward, ForwardEdges, TicketStatusEnum
<1>7. CASE RejectTicketCommit(r)
  <2>1. RejectMove(t)
    BY <1>2, <1>7
    DEF RejectTicketCommit, Fresh, At, RejectMove, Move,
        WriteTicket
  <2> QED
    BY <1>2, <2>1 DEF SomeMove
<1>8. CASE AssignCommit(r)
  <2>1. req[r].op \in AssignOps /\ WriteTicket(t, "ASSIGNED", req[r].tech)
    BY <1>8 DEF AssignCommit, At
  <2>2. req[r].tech \in Technicians /\ AssignMove(t, req[r].tech)
    BY <1>2, <2>1
    DEF Fresh, AssignMove, Move, WriteTicket
  <2> QED
    BY <1>2, <2>2 DEF SomeMove
<1>9. CASE CloseTicketCommit(r)
  <2>1. /\ WriteTicket(t, "TICKET_CLOSED", technician[t])
        /\ status[t] = "INVOICE_GENERATED"
    BY <1>2, <1>9 DEF CloseTicketCommit, Fresh, At
  <2>2. technician[t] # Unassigned
    BY <1>2, <2>1 DEF AssignmentConsistent, Absent
  <2> QED
    BY <2>1, <2>2, <1>3 DEF Forward, ForwardEdges, TicketStatusEnum
<1>10. CASE CancelTicketCommit(r)
  <2>1. req[r].op \in CancelOps /\ WriteTicket(t, "CANCELLED", Unassigned)
    BY <1>10 DEF CancelTicketCommit, At
  <2>2. CancelMove(t)
    BY <1>2, <2>1
    DEF Fresh, CancelMove, Move, WriteTicket
  <2> QED
    BY <1>2, <2>2 DEF SomeMove
<1> QED
  BY <1>4, <1>5, <1>6, <1>7, <1>8, <1>9, <1>10

\* A collected payment moves its ticket, too.
LEMMA CollectionMoves ==
  ASSUME IInv, SerialInv, NEW r \in Requests, CollectPaymentCommit(r)
  PROVE  SomeMove \/ UNCHANGED <<status, technician>>
<1> DEFINE t == req[r].ticket
<1>1. req[r] # Idle /\ req[r].op = "collectPayment"
  BY DEF CollectPaymentCommit, At
<1>2. /\ t \in Tickets
      /\ status[t] = "COMPLETED" /\ technician[t] # Unassigned
  BY <1>1, AtFresh, UnassignedAssumption DEF Fresh
<1>3. CASE WriteTicket(t, "INVOICE_GENERATED", technician[t])
  <2>1. AdvanceMove(t, "INVOICE_GENERATED")
    BY <1>2, <1>3
    DEF AdvanceMove, Move, WriteTicket, Forward, ForwardEdges
  <2> QED
    BY <1>2, <2>1 DEF SomeMove, TicketStatusEnum
<1> QED
  BY <1>3 DEF CollectPaymentCommit

\* So does every other step, or it leaves the tickets alone.
LEMMA StepMoves ==
  ASSUME IInv, SerialInv, Next
  PROVE  SomeMove \/ UNCHANGED <<status, technician>>
<1>1. PICK r \in Requests : Call(r) \/ Step(r) \/ Fail(r)
  BY DEF Next
<1>2. ASSUME NEW t \in Tickets, RaiseTicket(r, t)
      PROVE  SomeMove
  <2>1. RaiseMove(t)
    BY <1>2 DEF RaiseTicket, WriteTicket, RaiseMove, Move
  <2> QED
    BY <2>1 DEF SomeMove
<1>3. CASE Call(r)
  <2>1. \/ UNCHANGED <<status, technician>>
        \/ \E t \in Tickets : RaiseTicket(r, t)
    BY <1>3
    DEF Call, UpdateTicketStatus, CompleteTicket, MarkPending, RejectTicket,
        UploadImage, CollectPayment, AssignTechnician, ReassignTechnician,
        CloseTicket, ManagerCancelTicket, VerifyPayment, CustomerCancelTicket,
        SubmitFeedback, SetTechnicianActive, ReadOnly, ticketVars
  <2> QED
    BY <2>1, <1>2
<1>4. CASE Step(r)
  <2>1. \/ UNCHANGED <<status, technician>>
        \/ UpdateTicketStatusCommit(r) \/ CompleteTicketCommit(r)
        \/ MarkPendingCommit(r) \/ RejectTicketCommit(r) \/ AssignCommit(r)
        \/ CloseTicketCommit(r) \/ CancelTicketCommit(r)
        \/ CollectPaymentCommit(r)
    BY <1>4
    DEF Step, CompleteTicketReadImages, MarkPendingSaveImage, UploadImageSave,
        CollectPaymentReadPayment, AssignReadTechnician, VerifyPaymentCommit,
        VerifyPaymentSaveLog, RaiseTicketSaveImage,
        SubmitFeedbackReadFeedback, SubmitFeedbackCommit, ReadOnly, ticketVars
  <2> QED
    BY <2>1, CommitsMove, CollectionMoves
<1>5. CASE Fail(r)
  BY <1>5 DEF Fail, ReadOnly
<1> QED
  BY <1>1, <1>3, <1>4, <1>5

-----------------------------------------------------------------------------
(* The rows of a service that runs one request at a time *)

\* No step but a collection makes a payment or changes who collected one.
LEMMA PaymentsRest ==
  ASSUME IInv, NEW r \in Requests, Call(r) \/ Step(r) \/ Fail(r),
         ~CollectPaymentCommit(r), NEW t \in Tickets, payment'[t] # "NONE"
  PROVE  payment[t] # "NONE" /\ confirmedBy'[t] = confirmedBy[t]
<1>1. CASE UNCHANGED <<payment, confirmedBy>>
  BY <1>1
<1>2. CASE VerifyPaymentCommit(r)
  <2>1. payment[req[r].ticket] # "NONE" /\ confirmedBy' = confirmedBy
    BY <1>2, AtOK DEF VerifyPaymentCommit, At, RequestOK
  <2>2. payment' = [payment EXCEPT ![req[r].ticket] = "VERIFIED"]
    BY <1>2 DEF VerifyPaymentCommit
  <2> QED
    BY <2>1, <2>2 DEF IInv, TypeOK
<1>3. CASE Call(r)
  <2>1. UNCHANGED <<payment, confirmedBy>>
    BY <1>3
    DEF Call, UpdateTicketStatus, CompleteTicket, MarkPending, RejectTicket,
        UploadImage, CollectPayment, AssignTechnician, ReassignTechnician,
        CloseTicket, ManagerCancelTicket, VerifyPayment, RaiseTicket,
        CustomerCancelTicket, SubmitFeedback, SetTechnicianActive, ReadOnly,
        paymentVars
  <2> QED
    BY <2>1, <1>1
<1>4. CASE Step(r) \/ Fail(r)
  <2>1. UNCHANGED <<payment, confirmedBy>> \/ VerifyPaymentCommit(r)
    BY <1>4
    DEF Step, Fail, UpdateTicketStatusCommit, CompleteTicketReadImages,
        CompleteTicketCommit, MarkPendingCommit, MarkPendingSaveImage,
        RejectTicketCommit, UploadImageSave, CollectPaymentReadPayment,
        AssignReadTechnician, AssignCommit, CloseTicketCommit,
        CancelTicketCommit, VerifyPaymentSaveLog, RaiseTicketSaveImage,
        SubmitFeedbackReadFeedback, SubmitFeedbackCommit, ReadOnly, paymentVars
  <2> QED
    BY <2>1, <1>1, <1>2
<1> QED
  BY <1>3, <1>4

\* No step but a submission adds a feedback.
LEMMA FeedbackRests ==
  ASSUME NEW r \in Requests, Call(r) \/ Step(r) \/ Fail(r)
  PROVE  feedback' = feedback \/ SubmitFeedbackCommit(r)
<1>1. Call(r) => feedback' = feedback
  BY DEF Call, UpdateTicketStatus, CompleteTicket, MarkPending, RejectTicket,
         UploadImage, CollectPayment, AssignTechnician, ReassignTechnician,
         CloseTicket, ManagerCancelTicket, VerifyPayment, RaiseTicket,
         CustomerCancelTicket, SubmitFeedback, SetTechnicianActive, ReadOnly
<1>2. Step(r) => feedback' = feedback \/ SubmitFeedbackCommit(r)
  BY DEF Step, UpdateTicketStatusCommit, CompleteTicketReadImages,
         CompleteTicketCommit, MarkPendingCommit, MarkPendingSaveImage,
         RejectTicketCommit, UploadImageSave, CollectPaymentReadPayment,
         CollectPaymentCommit, AssignReadTechnician, AssignCommit,
         CloseTicketCommit, CancelTicketCommit, VerifyPaymentCommit,
         VerifyPaymentSaveLog, RaiseTicketSaveImage,
         SubmitFeedbackReadFeedback, ReadOnly
<1> QED
  BY <1>1, <1>2 DEF Fail, ReadOnly

\* The tickets stay with the right technician, and what is paid or rated
\* stays invoiced or closed.
LEMMA RowsStayLocked ==
  ASSUME IInv, SerialInv, NEW r \in Requests, Call(r) \/ Step(r) \/ Fail(r)
  PROVE  AssignmentConsistent' /\ PaymentLocksTicket' /\ FeedbackLocksTicket'
<1> DEFINE Locked(s) == s \in {"INVOICE_GENERATED", "TICKET_CLOSED"}
<1>1. /\ AssignmentConsistent'
      /\ \A t \in Tickets :
           Locked(status[t]) => Locked(status'[t]) /\ technician'[t] = technician[t]
  <2>1. CASE SomeMove
    BY <2>1, MoveKeeps DEF IInv, SerialInv
  <2>2. CASE UNCHANGED <<status, technician>>
    BY <2>2 DEF SerialInv, AssignmentConsistent
  <2> QED
    BY <2>1, <2>2, StepMoves DEF Next
<1> HIDE DEF Locked
<1>2. ASSUME NEW t \in Tickets, payment[t] # "NONE"
      PROVE  Locked(status[t]) /\ technician[t] = confirmedBy[t]
  BY <1>2 DEF SerialInv, PaymentLocksTicket, Locked
<1>3. ASSUME NEW t \in Tickets, payment'[t] # "NONE"
      PROVE  Locked(status'[t]) /\ technician'[t] = confirmedBy'[t]
  <2>1. CASE ~CollectPaymentCommit(r)
    BY <1>1, <1>2, <1>3, <2>1, PaymentsRest
  <2>2. CASE CollectPaymentCommit(r)
    <3> DEFINE u == req[r].ticket
    <3>1. /\ u \in Tickets
          /\ technician[u] = req[r].tech
      BY <2>2, AtFresh DEF CollectPaymentCommit, At, Fresh
    <3>2. CASE payment' = payment /\ confirmedBy' = confirmedBy
      BY <1>1, <1>2, <1>3, <3>2
    <3>3. CASE /\ payment' = [payment EXCEPT ![u] = "COLLECTED"]
               /\ confirmedBy' = [confirmedBy EXCEPT ![u] = req[r].tech]
               /\ WriteTicket(u, "INVOICE_GENERATED", technician[u])
      <4>1. CASE t = u
        BY <3>1, <3>3, <4>1 DEF IInv, TypeOK, WriteTicket, Locked
      <4>2. CASE t # u
        <5>1. payment[t] # "NONE" /\ confirmedBy'[t] = confirmedBy[t]
          BY <1>3, <3>3, <4>2 DEF IInv, TypeOK
        <5> QED
          BY <5>1, <1>1, <1>2
      <4> QED
        BY <4>1, <4>2
    <3> QED
      BY <2>2, <3>2, <3>3 DEF CollectPaymentCommit, paymentVars
  <2> QED
    BY <2>1, <2>2
<1>4. ASSUME NEW t \in Tickets, feedback'[t] # 0 PROVE Locked(status'[t])
  <2>1. CASE feedback' = feedback
    BY <1>1, <1>4, <2>1 DEF SerialInv, FeedbackLocksTicket, FeedbackAllowed, Locked
  <2>2. CASE SubmitFeedbackCommit(r)
    <3>1. status[req[r].ticket] \in FeedbackAllowed /\ status' = status
      BY <2>2, AtFresh DEF SubmitFeedbackCommit, At, Fresh, ticketVars
    <3>2. feedback'[t] = feedback[t] \/ t = req[r].ticket
      BY <2>2 DEF SubmitFeedbackCommit, IInv, TypeOK
    <3> QED
      BY <1>4, <3>1, <3>2 DEF SerialInv, FeedbackLocksTicket, FeedbackAllowed, Locked
  <2> QED
    BY <2>1, <2>2, FeedbackRests
<1> QED
  BY <1>1, <1>3, <1>4
  DEF PaymentLocksTicket, FeedbackLocksTicket, FeedbackAllowed, Locked

-----------------------------------------------------------------------------
(* What the only request has read stays so *)

\* When the only request ends, nothing is left to be fresh.
LEMMA FinishFresh ==
  ASSUME OneAtATime, IInv, NEW r \in Requests, Finish(r)
  PROVE  AllFresh'
BY FinishMoves DEF AllFresh, OneAtATime

\* A request whose handler has read a row is fresh about it.
LEMMA StartFresh ==
  ASSUME OneAtATime, IInv, NEW r \in Requests, NEW op, NEW step, NEW t, NEW e,
         NEW to, Start(r, op, step, t, e, to), ReadOnly,
         Fresh([op |-> op, step |-> step, ticket |-> t, tech |-> e, to |-> to])
  PROVE  AllFresh'
<1>1. req'[r] = [op |-> op, step |-> step, ticket |-> t, tech |-> e, to |-> to]
  BY DEF IInv, TypeOK, Start
<1>2. Fresh(req[r])'
  BY <1>1 DEF Fresh, ReadOnly
<1> QED
  BY <1>2 DEF AllFresh, OneAtATime

\* A request that goes on without a write is still fresh, if what it has read
\* now is.
LEMMA ContinueFresh ==
  ASSUME OneAtATime, IInv, SerialInv, NEW r \in Requests, req[r] # Idle,
         ReadOnly, Continue(r, "commit"), req[r].op # "markPending"
  PROVE  AllFresh'
<1>1. /\ req'[r].op = req[r].op /\ req'[r].step = "commit"
      /\ req'[r].ticket = req[r].ticket /\ req'[r].to = req[r].to
  BY ContinueMoves DEF Steps
<1>2. req'[r].tech = req[r].tech
  <2>1. req[r] \in InFlight
    BY AtOK
  <2>2. req'[r] = [req[r] EXCEPT !.step = "commit"]
    BY DEF Continue, IInv, TypeOK
  <2> QED
    BY <2>1, <2>2 DEF InFlight
<1>3. Fresh(req[r])
  BY AtFresh
<1>4. Fresh(req[r])'
  BY <1>1, <1>2, <1>3 DEF Fresh, ReadOnly
<1> QED
  BY <1>4 DEF AllFresh, OneAtATime

\* The steps of a request.
LEMMA StepFresh ==
  ASSUME OneAtATime, IInv, SerialInv, NEW r \in Requests, Step(r)
  PROVE  AllFresh'
<1>1. CASE Finish(r)
  BY <1>1, FinishFresh
<1>2. CASE MarkPendingCommit(r)
  <2>1. CASE Continue(r, "saveImage")
    <3>1. /\ req'[r].op = "markPending" /\ req'[r].step = "saveImage"
          /\ req'[r].ticket = req[r].ticket
      BY <1>2, <2>1, ContinueMoves DEF MarkPendingCommit, At, Steps
    <3>2. req'[r].tech = req[r].tech
      <4>1. req[r] \in InFlight
        BY <1>2, AtOK DEF MarkPendingCommit, At
      <4>2. req'[r] = [req[r] EXCEPT !.step = "saveImage"]
        BY <2>1 DEF Continue, IInv, TypeOK
      <4> QED
        BY <4>1, <4>2 DEF InFlight
    <3>3. /\ req[r].ticket \in Tickets /\ req[r].tech \in Technicians
          /\ technician[req[r].ticket] = req[r].tech
      BY <1>2, AtFresh DEF MarkPendingCommit, At, Fresh
    <3>4. technician'[req[r].ticket] = req[r].tech
      BY <1>2, <3>3 DEF MarkPendingCommit, WriteTicket, IInv, TypeOK
    <3>5. Fresh(req[r])'
      BY <3>1, <3>2, <3>3, <3>4 DEF Fresh, AssignOps, CancelOps
    <3> QED
      BY <3>5 DEF AllFresh, OneAtATime
  <2> QED
    BY <1>1, <1>2, <2>1 DEF MarkPendingCommit
<1>3. CASE VerifyPaymentCommit(r)
  <2>1. req'[r].op = "verifyPayment"
    BY <1>3, ContinueMoves DEF VerifyPaymentCommit, At, Steps
  <2>2. Fresh(req[r])'
    BY <2>1 DEF Fresh, AssignOps, CancelOps
  <2> QED
    BY <2>2 DEF AllFresh, OneAtATime
<1>4. CASE \/ CompleteTicketReadImages(r) \/ CollectPaymentReadPayment(r)
           \/ SubmitFeedbackReadFeedback(r) \/ AssignReadTechnician(r)
  <2>1. CASE /\ req[r] # Idle /\ ReadOnly /\ Continue(r, "commit")
             /\ req[r].op # "markPending"
    BY <2>1, ContinueFresh
  <2> QED
    BY <1>1, <1>4, <2>1
    DEF CompleteTicketReadImages, CollectPaymentReadPayment,
        SubmitFeedbackReadFeedback, AssignReadTechnician, At, AssignOps
<1> QED
  BY <1>1, <1>2, <1>3, <1>4
  DEF Step, UpdateTicketStatusCommit, CompleteTicketCommit, MarkPendingSaveImage,
      RejectTicketCommit, UploadImageSave, CollectPaymentCommit, AssignCommit,
      CloseTicketCommit, CancelTicketCommit, VerifyPaymentSaveLog,
      RaiseTicketSaveImage, SubmitFeedbackCommit

\* A client calls.
LEMMA CallFresh ==
  ASSUME OneAtATime, IInv, SerialInv, NEW r \in Requests, Call(r)
  PROVE  AllFresh'
<1> USE DEF AssignOps, CancelOps
<1>1. ASSUME NEW t \in Tickets, NEW e \in Technicians,
             NEW to \in TicketStatusEnum, UpdateTicketStatus(r, t, e, to)
      PROVE  AllFresh'
  BY <1>1, StartFresh DEF UpdateTicketStatus, OwnTicket, Fresh
<1>2. ASSUME NEW t \in Tickets, NEW e \in Technicians,
             \/ CompleteTicket(r, t, e) \/ MarkPending(r, t, e)
             \/ RejectTicket(r, t, e) \/ CollectPayment(r, t, e)
             \/ \E type \in UploadTypes : UploadImage(r, t, e, type)
      PROVE  AllFresh'
  BY <1>2, StartFresh
  DEF CompleteTicket, MarkPending, RejectTicket, CollectPayment, UploadImage,
      OwnTicket, Fresh
<1>3. ASSUME NEW t \in Tickets, NEW e \in Technicians,
             AssignTechnician(r, t, e) \/ ReassignTechnician(r, t, e)
      PROVE  AllFresh'
  BY <1>3, StartFresh
  DEF AssignTechnician, ReassignTechnician, Fresh, Forward, ForwardEdges
<1>4. ASSUME NEW t \in Tickets,
             \/ CloseTicket(r, t) \/ ManagerCancelTicket(r, t)
             \/ VerifyPayment(r, t) \/ SubmitFeedback(r, t)
      PROVE  AllFresh'
  BY <1>4, StartFresh
  DEF CloseTicket, ManagerCancelTicket, VerifyPayment, SubmitFeedback, Fresh
<1>5. ASSUME NEW t \in Tickets, CustomerCancelTicket(r, t)
      PROVE  AllFresh'
  BY <1>5, StartFresh
  DEF CustomerCancelTicket, CustomerNonCancellable, ManagerNonCancellable, Fresh
<1>6. ASSUME NEW t \in Tickets, RaiseTicket(r, t)
      PROVE  AllFresh'
  <2>1. CASE req[r] = Idle /\ UNCHANGED req
    BY <2>1 DEF AllFresh, OneAtATime
  <2>2. CASE Start(r, "raiseTicket", "saveImage", t, Unassigned, "RAISED")
    <3>1. req'[r].op = "raiseTicket"
      BY <2>2 DEF Start, IInv, TypeOK
    <3>2. Fresh(req[r])'
      BY <3>1 DEF Fresh
    <3> QED
      BY <3>2 DEF AllFresh, OneAtATime
  <2> QED
    BY <1>6, <2>1, <2>2 DEF RaiseTicket
<1>7. ASSUME NEW e \in Technicians, NEW on \in BOOLEAN, SetTechnicianActive(r, e, on)
      PROVE  AllFresh'
  BY <1>7 DEF SetTechnicianActive, AllFresh, OneAtATime
<1> QED
  BY <1>1, <1>2, <1>3, <1>4, <1>5, <1>6, <1>7 DEF Call

\* One request at a time keeps the tickets in order.
LEMMA NextSerialInv ==
  ASSUME OneAtATime, IInv, SerialInv, [Next]_vars
  PROVE  SerialInv'
<1>1. CASE UNCHANGED vars
  BY <1>1
  DEF vars, SerialInv, AssignmentConsistent, PaymentLocksTicket,
      FeedbackLocksTicket, AllFresh, Fresh
<1>2. ASSUME NEW r \in Requests, Call(r) \/ Step(r) \/ Fail(r)
      PROVE  SerialInv'
  <2>1. AllFresh'
    BY <1>2, CallFresh, StepFresh, FinishFresh DEF Fail
  <2> QED
    BY <1>2, <2>1, RowsStayLocked DEF SerialInv
<1> QED
  BY <1>1, <1>2 DEF Next

\* Every reachable state of such a service satisfies the invariant.
LEMMA SerialInvariance ==
  ASSUME OneAtATime
  PROVE  Spec => []SerialInv
<1>1. Init => SerialInv
  BY DEF Init, SerialInv, AssignmentConsistent, PaymentLocksTicket,
         FeedbackLocksTicket, AllFresh, Absent
<1>2. IInv /\ SerialInv /\ [Next]_vars => SerialInv'
  BY NextSerialInv
<1> QED
  BY <1>1, <1>2, Invariance, PTL DEF Spec

-----------------------------------------------------------------------------
(* One request at a time: the life of a ticket *)

\* The phases that matter to a move of a ticket.
LEMMA PhasesOfTicket ==
  ASSUME TypeOK, NEW t \in Tickets
  PROVE  Phase[t] = PhaseOf[status[t]]
BY DEF Phase

\* A move of a ticket is a change of its phase and of its technician.
LEMMA MovePasses ==
  ASSUME TypeOK, NEW t \in Tickets, NEW s \in Statuses, NEW e, Move(t, s, e)
  PROVE  /\ Lifecycle!Pass(t, PhaseOf[status[t]], PhaseOf[s])
         /\ Lifecycle!Hand(t, e)
         /\ e = technician[t] => technician' = technician
<1>1. Phase[t] = PhaseOf[status[t]]
  BY PhasesOfTicket
<1>2. Phase' = [Phase EXCEPT ![t] = PhaseOf[s]]
  BY DEF Phase, Move, TypeOK
<1>3. technician' = [technician EXCEPT ![t] = e]
  BY DEF Move
<1> QED
  BY <1>1, <1>2, <1>3 DEF Lifecycle!Pass, Lifecycle!Hand, TypeOK

\* A move that is no edge of the life cycle changes no phase.
LEMMA PassNowhere ==
  ASSUME TypeOK, NEW t \in Tickets, NEW p, Lifecycle!Pass(t, p, p)
  PROVE  Phase' = Phase
BY DEF Lifecycle!Pass, Phase

\* The handlers move a ticket along the forward table within a phase, or from
\* one phase to the next.
LEMMA AdvancePhases ==
  ASSUME TypeOK, NEW t \in Tickets, NEW s \in TicketStatusEnum, AdvanceMove(t, s),
         status[t] # "NEW_TICKET"
  PROVE  /\ technician' = technician
         /\ \/ Phase' = Phase
            \/ Lifecycle!Pass(t, "booked", "visit")
            \/ Lifecycle!Pass(t, "visit", "work")
            \/ Lifecycle!Pass(t, "work", "done")
            \/ /\ s = "INVOICE_GENERATED"
               /\ Lifecycle!Pass(t, "done", "invoiced")
            \/ Lifecycle!Pass(t, "invoiced", "closed")
<1>1. /\ Lifecycle!Pass(t, PhaseOf[status[t]], PhaseOf[s])
      /\ technician' = technician
  BY MovePasses DEF AdvanceMove, Statuses
<1>2. <<status[t], s>> \in ForwardEdges
  BY DEF AdvanceMove, Forward
<1>3. \/ PhaseOf[status[t]] = PhaseOf[s]
      \/ PhaseOf[status[t]] = "booked" /\ PhaseOf[s] = "visit"
      \/ PhaseOf[status[t]] = "visit" /\ PhaseOf[s] = "work"
      \/ PhaseOf[status[t]] = "work" /\ PhaseOf[s] = "done"
      \/ /\ s = "INVOICE_GENERATED"
         /\ PhaseOf[status[t]] = "done" /\ PhaseOf[s] = "invoiced"
      \/ PhaseOf[status[t]] = "invoiced" /\ PhaseOf[s] = "closed"
  BY <1>2 DEF ForwardEdges, PhaseOf
<1> QED
  BY <1>1, <1>3, PassNowhere

\* With the money as it was, a move is a step of a ticket's life or keeps it.
LEMMA MoveImplements ==
  ASSUME TypeOK, AssignmentConsistent, SomeMove, PaidTo' = PaidTo
  PROVE  Lifecycle!Next \/ UNCHANGED <<Phase, technician, PaidTo>>
<1>1. PICK t \in Tickets :
        \/ RaiseMove(t) \/ RejectMove(t) \/ CancelMove(t)
        \/ \E e \in Technicians : AssignMove(t, e)
        \/ \E s \in TicketStatusEnum : AdvanceMove(t, s)
  BY DEF SomeMove
<1>2. CASE RaiseMove(t)
  <2>1. technician[t] = Unassigned
    BY <1>2 DEF RaiseMove, AssignmentConsistent
  <2>2. /\ Lifecycle!Pass(t, PhaseOf[Absent], PhaseOf["NEW_TICKET"])
        /\ technician' = technician
    BY <1>2, <2>1, MovePasses DEF RaiseMove, Statuses, TicketStatusEnum
  <2>3. PhaseOf[Absent] = "none" /\ PhaseOf["NEW_TICKET"] = "queue"
    BY DEF PhaseOf, Absent
  <2>4. Lifecycle!Raise(t)
    BY <2>2, <2>3 DEF Lifecycle!Raise
  <2> QED
    BY <2>4 DEF Lifecycle!Next
<1>3. CASE RejectMove(t)
  <2>1. /\ Lifecycle!Pass(t, PhaseOf[status[t]], PhaseOf["NEW_TICKET"])
        /\ Lifecycle!Hand(t, Unassigned)
    BY <1>3, MovePasses DEF RejectMove, Statuses, TicketStatusEnum
  <2>2. PhaseOf[status[t]] = "booked" /\ PhaseOf["NEW_TICKET"] = "queue"
    BY <1>3 DEF RejectMove, Returnable, PhaseOf
  <2>3. Lifecycle!Return(t)
    BY <2>1, <2>2 DEF Lifecycle!Return
  <2> QED
    BY <2>3 DEF Lifecycle!Next
<1>4. CASE CancelMove(t)
  <2>1. /\ Lifecycle!Pass(t, PhaseOf[status[t]], PhaseOf["CANCELLED"])
        /\ Lifecycle!Hand(t, Unassigned)
    BY <1>4, MovePasses DEF CancelMove, Statuses, TicketStatusEnum
  <2>2. /\ PhaseOf[status[t]] \in {"queue", "booked", "visit", "work"}
        /\ PhaseOf["CANCELLED"] = "cancelled"
    BY <1>4
    DEF CancelMove, ManagerNonCancellable, TypeOK, Statuses, TicketStatusEnum,
        Absent, PhaseOf
  <2>3. Lifecycle!Cancel(t)
    BY <2>1, <2>2 DEF Lifecycle!Cancel
  <2> QED
    BY <2>3 DEF Lifecycle!Next
<1>5. ASSUME NEW e \in Technicians, AssignMove(t, e)
      PROVE  Lifecycle!Next
  <2>1. /\ Lifecycle!Pass(t, PhaseOf[status[t]], PhaseOf["ASSIGNED"])
        /\ Lifecycle!Hand(t, e)
    BY <1>5, MovePasses DEF AssignMove, Statuses, TicketStatusEnum
  <2>2. /\ PhaseOf[status[t]] \in {"queue", "booked"}
        /\ PhaseOf["ASSIGNED"] = "booked"
    BY <1>5 DEF AssignMove, Returnable, PhaseOf
  <2>3. Lifecycle!Book(t, e)
    BY <2>1, <2>2 DEF Lifecycle!Book
  <2> QED
    BY <2>3 DEF Lifecycle!Next
<1>6. ASSUME NEW s \in TicketStatusEnum, AdvanceMove(t, s)
      PROVE  Lifecycle!Next \/ UNCHANGED <<Phase, technician, PaidTo>>
  <2>1. status[t] # "NEW_TICKET"
    BY <1>6 DEF AdvanceMove, AssignmentConsistent
  <2>2. technician' = technician
    BY <1>6, <2>1, AdvancePhases
  <2>3. \/ Phase' = Phase
        \/ Lifecycle!SetOut(t) \/ Lifecycle!StartWork(t)
        \/ Lifecycle!EndWork(t) \/ Lifecycle!Invoice(t) \/ Lifecycle!Close(t)
    BY <1>6, <2>1, <2>2, AdvancePhases
    DEF Lifecycle!SetOut, Lifecycle!StartWork, Lifecycle!EndWork,
        Lifecycle!Invoice, Lifecycle!Close, Lifecycle!Onward
  <2> QED
    BY <2>2, <2>3 DEF Lifecycle!Next
<1> QED
  BY <1>1, <1>2, <1>3, <1>4, <1>5, <1>6

\* Nobody but a collection changes who took money.
LEMMA MoneyRests ==
  ASSUME IInv, NEW r \in Requests, Call(r) \/ Step(r) \/ Fail(r),
         ~CollectPaymentCommit(r)
  PROVE  PaidTo' = PaidTo
<1>1. ASSUME NEW t \in Tickets, payment[t] # "NONE"
      PROVE  payment'[t] # "NONE" /\ confirmedBy'[t] = confirmedBy[t]
  BY <1>1, OnlyForward
<1>2. ASSUME NEW t \in Tickets, payment'[t] # "NONE"
      PROVE  payment[t] # "NONE"
  BY <1>2, PaymentsRest
<1> QED
  BY <1>1, <1>2 DEF PaidTo

\* A collection invoices the ticket and pays its technician, or does nothing.
LEMMA CollectionImplements ==
  ASSUME IInv, SerialInv, NEW r \in Requests, CollectPaymentCommit(r)
  PROVE  Lifecycle!Next \/ UNCHANGED <<Phase, technician, PaidTo>>
<1> DEFINE t == req[r].ticket
<1>1. req[r] # Idle /\ req[r].op = "collectPayment"
  BY DEF CollectPaymentCommit, At
<1>2. /\ t \in Tickets
      /\ status[t] = "COMPLETED" /\ technician[t] = req[r].tech
  BY <1>1, AtFresh DEF Fresh
<1>3. CASE PaymentInsertable(t)
  <2>1. /\ payment' = [payment EXCEPT ![t] = "COLLECTED"]
        /\ confirmedBy' = [confirmedBy EXCEPT ![t] = req[r].tech]
        /\ Move(t, "INVOICE_GENERATED", technician[t])
    BY <1>3 DEF CollectPaymentCommit, WriteTicket, Move
  <2>2. PaidTo' = [PaidTo EXCEPT ![t] = technician[t]]
    BY <1>2, <2>1 DEF PaidTo, IInv, TypeOK
  <2>3. /\ Lifecycle!Pass(t, PhaseOf["COMPLETED"], PhaseOf["INVOICE_GENERATED"])
        /\ technician' = technician
    BY <1>2, <2>1, MovePasses DEF IInv, Statuses, TicketStatusEnum
  <2>4. PhaseOf["COMPLETED"] = "done" /\ PhaseOf["INVOICE_GENERATED"] = "invoiced"
    BY DEF PhaseOf
  <2>5. Lifecycle!Invoice(t)
    BY <2>2, <2>3, <2>4 DEF Lifecycle!Invoice
  <2> QED
    BY <1>2, <2>5 DEF Lifecycle!Next
<1>4. CASE ~PaymentInsertable(t)
  BY <1>4 DEF CollectPaymentCommit, Phase, PaidTo, paymentVars
<1> QED
  BY <1>3, <1>4

\* Every step is a step of a ticket's life or changes nothing it shows.
LEMMA StepImplements ==
  ASSUME IInv, SerialInv, NEW r \in Requests, Call(r) \/ Step(r) \/ Fail(r)
  PROVE  Lifecycle!Next \/ UNCHANGED <<Phase, technician, PaidTo>>
<1>1. CASE CollectPaymentCommit(r)
  BY <1>1, CollectionImplements
<1>2. CASE ~CollectPaymentCommit(r)
  <2>1. PaidTo' = PaidTo
    BY <1>2, MoneyRests
  <2>2. SomeMove \/ UNCHANGED <<status, technician>>
    BY StepMoves DEF Next
  <2>3. CASE SomeMove
    BY <2>1, <2>3, MoveImplements DEF IInv, SerialInv
  <2>4. CASE UNCHANGED <<status, technician>>
    BY <2>1, <2>4 DEF Phase
  <2> QED
    BY <2>2, <2>3, <2>4
<1> QED
  BY <1>1, <1>2

\* One request at a time, the service gives every ticket the life that module
\* TicketLifecycle describes: every step of every handler, reads and failures
\* included, is one step of it or leaves what it shows unchanged.
THEOREM LifecycleImplemented ==
  ASSUME OneAtATime
  PROVE  Spec => ImplementsLifecycle
<1>1. Init => Lifecycle!Init
  BY DEF Init, Lifecycle!Init, Phase, PhaseOf, PaidTo, Absent
<1>2. IInv /\ SerialInv /\ [Next]_vars => [Lifecycle!Next]_(Lifecycle!vars)
  <2>1. UNCHANGED vars => UNCHANGED <<Phase, technician, PaidTo>>
    BY DEF vars, Phase, PaidTo
  <2> QED
    BY <2>1, StepImplements DEF Next, Lifecycle!vars
<1> QED
  BY <1>1, <1>2, Invariance, SerialInvariance, PTL
  DEF Spec, ImplementsLifecycle, Lifecycle!Spec

-----------------------------------------------------------------------------
(* One request at a time: technicians and payments *)

\* One request at a time, a ticket has a technician exactly while it is
\* assigned or worked on.
THEOREM AssignmentsConsistent ==
  ASSUME OneAtATime
  PROVE  Spec => []AssignmentConsistent
<1>1. SerialInv => AssignmentConsistent
  BY DEF SerialInv
<1> QED
  BY <1>1, SerialInvariance, PTL

\* One request at a time, a collected payment locks the ticket to the
\* technician who collected it.
THEOREM PaymentsLockTickets ==
  ASSUME OneAtATime
  PROVE  Spec => []PaymentLocksTicket
<1>1. SerialInv => PaymentLocksTicket
  BY DEF SerialInv
<1> QED
  BY <1>1, SerialInvariance, PTL

-----------------------------------------------------------------------------
(* One request at a time: the dashboards *)

\* What a technician sees of the tickets fits what the others see.
LEMMA TechniciansAgree ==
  ASSUME IInv, SerialInv, NEW e \in Technicians
  PROVE  /\ TechnicianDashboard(e).open \subseteq
              ListMyTickets(e) \cap CustomerDashboard.open
         /\ TechnicianDashboard(e).completed \subseteq CustomerDashboard.completed
         /\ MyInvoices(e) \cap AdminOpen = {}
         /\ MyInvoices(e) =
              {t \in MayOpen(e) : GetTicket(t).invoiced /\ GetTicket(t).collector = e}
         /\ ListTickets({"NEW_TICKET", "CANCELLED"}, {e}) = {}
         /\ TicketCount(e) =
              Cardinality(ListMyTickets(e) \cup TechnicianDashboard(e).completed)
<1>1. e # Unassigned
  BY UnassignedAssumption
<1>2. \A t \in OfTechnician(e) : status[t] \notin {"NEW_TICKET", "CANCELLED"}
  BY <1>1 DEF OfTechnician, Raised, SerialInv, AssignmentConsistent
<1>3. \A t \in Tickets : payment[t] # "NONE" =>
        /\ status[t] \in {"INVOICE_GENERATED", "TICKET_CLOSED"}
        /\ technician[t] = confirmedBy[t]
  BY DEF SerialInv, PaymentLocksTicket
<1>4. /\ TechnicianDashboard(e).open =
           OfTechnician(e) \ WithStatus({"TICKET_CLOSED", "INVOICE_GENERATED", "COMPLETED"})
      /\ TechnicianDashboard(e).completed =
           OfTechnician(e) \cap WithStatus({"TICKET_CLOSED"})
      /\ CustomerDashboard.open = Raised \ WithStatus({"TICKET_CLOSED", "CANCELLED"})
      /\ CustomerDashboard.completed = WithStatus({"TICKET_CLOSED"})
      /\ \A t : /\ GetTicket(t).invoiced <=> payment[t] # "NONE"
                /\ GetTicket(t).collector = confirmedBy[t]
  BY DEF TechnicianDashboard, CustomerDashboard, GetTicket
<1>5. TechnicianDashboard(e).open \subseteq ListMyTickets(e) \cap CustomerDashboard.open
  BY <1>2, <1>4 DEF OfTechnician, WithStatus, ListMyTickets, Raised
<1>6. TechnicianDashboard(e).completed \subseteq CustomerDashboard.completed
  BY <1>4
<1>7. MyInvoices(e) \cap AdminOpen = {}
  BY <1>3 DEF MyInvoices, AdminOpen, OfTechnician, WithStatus, Raised
<1>8. MyInvoices(e) =
        {t \in MayOpen(e) : GetTicket(t).invoiced /\ GetTicket(t).collector = e}
  BY <1>3, <1>4 DEF MyInvoices, MayOpen, OfTechnician, Raised
<1>9. ListTickets({"NEW_TICKET", "CANCELLED"}, {e}) = {}
  BY <1>2 DEF ListTickets, WithStatus, OfTechnician, Raised
<1>10. ListMyTickets(e) \cup TechnicianDashboard(e).completed = OfTechnician(e)
  BY <1>4 DEF ListMyTickets
<1> QED
  BY <1>5, <1>6, <1>7, <1>8, <1>9, <1>10 DEF TicketCount

\* What the customer and the manager see of one ticket fits together.
LEMMA TicketPagesAgree ==
  ASSUME IInv, SerialInv, NEW t \in Raised
  PROVE  /\ t \notin CustomerDashboard.open \cup CustomerDashboard.completed =>
              Tracking(t).technician = Unassigned /\ ~GetMyTicket(t).invoiced
         /\ Tracking(t).status \in Tracking(t).history
         /\ GetMyTicket(t).invoiced =>
              GetTicket(t).collector = GetMyTicket(t).technician
<1>1. /\ Tracking(t).technician = technician[t]
      /\ Tracking(t).status = status[t]
      /\ Tracking(t).history = trail[t] \ {VerificationRow}
      /\ GetMyTicket(t).technician = technician[t]
      /\ GetMyTicket(t).invoiced <=> payment[t] # "NONE"
      /\ GetTicket(t).collector = confirmedBy[t]
      /\ CustomerDashboard.open = Raised \ WithStatus({"TICKET_CLOSED", "CANCELLED"})
      /\ CustomerDashboard.completed = WithStatus({"TICKET_CLOSED"})
  BY DEF Tracking, GetMyTicket, GetTicket, CustomerDashboard
<1>2. /\ t \in Tickets /\ status[t] # Absent
      /\ payment[t] # "NONE" =>
           /\ status[t] \in {"INVOICE_GENERATED", "TICKET_CLOSED"}
           /\ technician[t] = confirmedBy[t]
      /\ status[t] = "CANCELLED" => technician[t] = Unassigned
  BY DEF Raised, SerialInv, PaymentLocksTicket, AssignmentConsistent
<1>3. status[t] \in trail[t] /\ status[t] # VerificationRow
  BY <1>2 DEF IInv, StatusLogged, TypeOK, Statuses, TicketStatusEnum,
              VerificationRow, Absent
<1>4. t \notin CustomerDashboard.open \cup CustomerDashboard.completed =>
        status[t] = "CANCELLED"
  BY <1>1 DEF WithStatus
<1> QED
  BY <1>1, <1>2, <1>3, <1>4

\* What is said of rated tickets fits what is said of the others.
LEMMA RatingsAgree ==
  ASSUME IInv, SerialInv
  PROVE  /\ FeedbackShown \subseteq WithStatus({"INVOICE_GENERATED", "TICKET_CLOSED"})
         /\ {entry[1] : entry \in ListFeedback} = FeedbackShown
         /\ \A entry \in ListFeedback :
              entry[1] \in UNION {MayOpen(e) : e \in Technicians}
         /\ \A row \in CustomerHistory :
              row.invoiced \/ row.rated => row.technician # Unassigned
         /\ ManagerDashboard.new \cup ManagerDashboard.assigned \subseteq AdminOpen
<1>1. \A t \in Raised :
        /\ t \in Tickets
        /\ feedback[t] # 0 \/ payment[t] # "NONE" =>
             /\ status[t] \in {"INVOICE_GENERATED", "TICKET_CLOSED"}
             /\ technician[t] \in Technicians
             /\ technician[t] # Unassigned
  BY UnassignedAssumption
  DEF Raised, IInv, TypeOK, SerialInv, FeedbackLocksTicket, PaymentLocksTicket,
      FeedbackAllowed, AssignmentConsistent, Absent
<1>2. FeedbackShown \subseteq WithStatus({"INVOICE_GENERATED", "TICKET_CLOSED"})
  BY <1>1 DEF FeedbackShown, WithStatus
<1>3. {entry[1] : entry \in ListFeedback} = FeedbackShown
  <2>1. ASSUME NEW t \in FeedbackShown
        PROVE  \E entry \in ListFeedback : entry[1] = t
    <3>1. <<t, technician[t]>> \in ListFeedback /\ <<t, technician[t]>>[1] = t
      BY DEF ListFeedback, FeedbackShown
    <3> QED
      BY <3>1
  <2>2. ASSUME NEW entry \in ListFeedback PROVE entry[1] \in FeedbackShown
    <3>1. PICK t \in FeedbackShown : entry = <<t, technician[t]>>
      BY DEF ListFeedback, FeedbackShown
    <3> QED
      BY <3>1
  <2> QED
    BY <2>1, <2>2
<1>4. ASSUME NEW entry \in ListFeedback
      PROVE  entry[1] \in UNION {MayOpen(e) : e \in Technicians}
  <2>1. PICK t \in Raised : feedback[t] # 0 /\ entry = <<t, technician[t]>>
    BY DEF ListFeedback
  <2>2. t \in MayOpen(technician[t]) /\ technician[t] \in Technicians
    BY <1>1, <2>1 DEF MayOpen
  <2> QED
    BY <2>1, <2>2
<1>5. ASSUME NEW row \in CustomerHistory, row.invoiced \/ row.rated
      PROVE  row.technician # Unassigned
  <2>1. PICK t \in Raised :
          row = [ticket |-> t, technician |-> technician[t],
                 invoiced |-> payment[t] # "NONE", rated |-> feedback[t] # 0]
    BY DEF CustomerHistory
  <2>2. /\ row.technician = technician[t]
        /\ row.invoiced <=> payment[t] # "NONE"
        /\ row.rated <=> feedback[t] # 0
    BY <2>1
  <2> QED
    BY <1>1, <1>5, <2>2
<1>6. ManagerDashboard.new \cup ManagerDashboard.assigned \subseteq AdminOpen
  BY DEF ManagerDashboard, AdminOpen, WithStatus
<1> QED
  BY <1>2, <1>3, <1>4, <1>5, <1>6

\* One request at a time, the dashboards, lists and histories of the
\* technician, the customer, the manager and the administrator tell one story
\* of every ticket.
THEOREM DashboardsInAgreement ==
  ASSUME OneAtATime
  PROVE  Spec => []DashboardsAgree
<1>1. IInv /\ SerialInv => DashboardsAgree
  <2> SUFFICES ASSUME IInv, SerialInv PROVE DashboardsAgree
    OBVIOUS
  <2> QED
    BY TechniciansAgree, TicketPagesAgree, RatingsAgree, Zenon DEF DashboardsAgree
<1> QED
  BY <1>1, Invariance, SerialInvariance, PTL
=============================================================================
