----------------------------- MODULE InvoiceBook -----------------------------
(***************************************************************************)
(* What a tenant may expect of its invoices, as one book: an invoice is    *)
(* entered once with everything printed on it, is never altered, and is    *)
(* marked when the manager has verified the money.  Invoices entered one   *)
(* at a time are numbered without a gap; those of requests that overlap    *)
(* may repeat a number, but no number runs ahead of the book.  What an     *)
(* invoice says adds up, to a paisa: its lines and its total are rounded   *)
(* one by one.                                                             *)
(* Module Billing is the service that keeps it.                            *)
(***************************************************************************)
EXTENDS Naturals, FiniteSets

CONSTANTS
  Tickets,   \* at most one invoice each
  Amounts,   \* what may be collected for a ticket, in paise
  NotEntered

VARIABLES
  book,      \* the entry of each ticket, or NotEntered
  orderly    \* so far, invoices were made one at a time

vars == <<book, orderly>>

Entered == {t \in Tickets : book[t] # NotEntered}

Init ==
  /\ book = [t \in Tickets |-> NotEntered]
  /\ orderly = TRUE

Enter(t, seq, subtotal, gst, total) ==
  /\ t \notin Entered
  /\ seq \in 1..(Cardinality(Entered) + 1)
  /\ orderly => seq = Cardinality(Entered) + 1
  /\ total \in (subtotal + gst - 1)..(subtotal + gst + 1)
  /\ book' = [book EXCEPT ![t] =
       [seq |-> seq, subtotal |-> subtotal, gst |-> gst,
        total |-> total, verified |-> FALSE]]
  /\ UNCHANGED orderly

Verify(t) ==
  /\ t \in Entered
  /\ book' = [book EXCEPT ![t].verified = TRUE]
  /\ UNCHANGED orderly

Overlap == orderly' = FALSE /\ UNCHANGED book

\* GST is never more than the amount it is charged on.
Next ==
  \/ Overlap
  \/ \E t \in Tickets :
       \/ Verify(t)
       \/ \E seq \in 1..Cardinality(Tickets), a \in Amounts : \E gst \in 0..a :
            \E total \in (a + gst - 1)..(a + gst + 1) : Enter(t, seq, a, gst, total)

Spec == Init /\ [][Next]_vars
=============================================================================
