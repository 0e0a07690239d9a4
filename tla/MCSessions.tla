----------------------------- MODULE MCSessions -----------------------------
(***************************************************************************)
(* Instances of the session service for TLC.  Requests are                 *)
(* interchangeable, and so are users.                                      *)
(***************************************************************************)
EXTENDS Sessions, TLC

Symmetry == Permutations(Users) \cup Permutations(Requests)
=============================================================================
