--------------------------- MODULE MCRegistration ---------------------------
(***************************************************************************)
(* Instances of the one-time codes for TLC.  Requests, emails, and the     *)
(* details of customers, are interchangeable.                              *)
(***************************************************************************)
EXTENDS Registration, TLC

Symmetry ==
  Permutations(Emails) \cup Permutations(Details) \cup Permutations(Requests)
=============================================================================
