------------------------------ MODULE MCTickets ------------------------------
(***************************************************************************)
(* Instances of the ticket service for TLC.  Technicians, tickets and      *)
(* requests are interchangeable, and no safety property names one of them. *)
(***************************************************************************)
EXTENDS TicketViews, TLC

Symmetry ==
  Permutations(Tickets) \cup Permutations(Technicians) \cup Permutations(Requests)
=============================================================================
