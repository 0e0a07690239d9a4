----------------------------- MODULE MCBackOffice -----------------------------
(***************************************************************************)
(* One instance for TLC of the five small components of the back office.   *)
(***************************************************************************)
EXTENDS BackOffice, TLC

\* The names differ in nothing but the case of letters.
MCSameName == [n \in Names |-> Names]

MCLowercase == [c \in Codes |-> IF c = "ABC" THEN "abc" ELSE c]

Symmetry == Permutations(Requests) \cup Permutations(Names)
=============================================================================
