------------------------------ MODULE MCBilling ------------------------------
(***************************************************************************)
(* Instances of payments and invoices for TLC.                             *)
(***************************************************************************)
EXTENDS Billing, TLC

\* One customer has two of the tickets, and another, if there is one, the rest.
MCCustomerOf ==
  LET first == CHOOSE c \in Customers : TRUE
      other == CHOOSE c \in Customers : Customers = {first} \/ c # first
      last == CHOOSE t \in Tickets : TRUE
  IN [t \in Tickets |-> IF t = last THEN other ELSE first]

\* 1.005 * 100 is 100.49999999999999, and (1.005 + 0.18) * 100 is no more than
\* 118.49999999999999.
MCFallsShort == {<<1005, 10>>, <<1185, 10>>}
=============================================================================
