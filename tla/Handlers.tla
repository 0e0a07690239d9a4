------------------------------- MODULE Handlers -------------------------------
(***************************************************************************)
(* How the handlers of the service run: several requests at once, each at  *)
(* one awaited statement of its handler.  The modules that extend this one *)
(* say what the statements do.                                             *)
(***************************************************************************)
CONSTANT Requests  \* the requests that can be in flight together

VARIABLES
  req,      \* what each request in flight is doing
  orderly   \* history: no two requests overlapped and none failed half-way

Idle == [op |-> "idle"]

NoRequests == req = [r \in Requests |-> Idle]

Alone == \A r \in Requests : req[r] = Idle

\* A request q, a record with an op and a step, begins.
Begin(r, q) ==
  /\ req[r] = Idle
  /\ req' = [req EXCEPT ![r] = q]
  /\ orderly' = (orderly /\ Alone)

\* A handler whose reads decide nothing runs as its one write.
InOneStep(r) ==
  /\ req[r] = Idle
  /\ UNCHANGED req
  /\ orderly' = (orderly /\ Alone)

At(r, op, step) == req[r] # Idle /\ req[r].op = op /\ req[r].step = step

Continue(r, step) ==
  /\ req' = [req EXCEPT ![r].step = step]
  /\ UNCHANGED orderly

Finish(r) ==
  /\ req' = [req EXCEPT ![r] = Idle]
  /\ UNCHANGED orderly

\* Goes on to a step if the handler allows it, and ends the request if not.
ContinueIf(r, allowed, step) ==
  \/ allowed /\ Continue(r, step)
  \/ ~allowed /\ Finish(r)

\* What is left of a request when one of the writes that it does side by side is
\* done, or given up.
Without(q, w) == IF q.todo = {w} THEN Idle ELSE [q EXCEPT !.todo = @ \ {w}]

\* A statement fails or the worker restarts: the request ends where it is.
Abandon(r) ==
  /\ req[r] # Idle
  /\ req' = [req EXCEPT ![r] = Idle]
  /\ orderly' = FALSE
=============================================================================
