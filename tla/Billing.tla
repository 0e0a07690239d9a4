------------------------------- MODULE Billing -------------------------------
(***************************************************************************)
(* Payments and invoices of one tenant: collectPayment with the invoice    *)
(* data it asks InvoiceService for, verifyPayment, the settings it depends *)
(* on, the PDF that is made in the background, and what the manager, the   *)
(* customer and the admin are shown of it.                                 *)
(*                                                                         *)
(* A technician may type fractions of a paisa: amounts in a request are    *)
(* tenths of one, and amounts in a row are paise.  What happens to the     *)
(* ticket before it is completed and after it is paid is in module         *)
(* Tickets.                                                                *)
(***************************************************************************)
EXTENDS Handlers, Naturals, FiniteSets, SequencesExt

CONSTANTS
  Tickets,
  Customers,
  CustomerOf,        \* the customer of each ticket
  Amounts,           \* bound: what technicians collect, in tenths of a paisa
  InspectionCharge,  \* of the sub-category of the tickets, in paise
  GstRates,          \* bound: hundredths of gstPercent, 0 while gstEnabled is off
  FallsShort,        \* the quotients whose floating-point value is less than it is
  ListCap,           \* bound: the rows of a list that takes no more than 100
  NoRow              \* no Payment or Invoice row

\* No less than one rupee is collected.
ASSUME AmountsAssumption ==
  /\ Amounts \subseteq {a \in Nat : a >= 1000}
  /\ InspectionCharge \in Nat
  /\ GstRates \subseteq {rate \in Nat : rate <= 10000}
  /\ 0 \in GstRates
  /\ ListCap \in Nat
ASSUME CustomerAssumption == CustomerOf \in [Tickets -> Customers]
ASSUME TicketsAssumption == IsFiniteSet(Tickets)

VARIABLES
  completed,  \* the tickets whose status is COMPLETED
  gstRate,    \* the GST the TenantSetting row asks for, 0 if not enabled
  payments,   \* the Payment row of each ticket
  invoices,   \* the Invoice row of each ticket
  pdf,        \* the background task that makes the PDF of each invoice
  document    \* what the uploaded PDF of each invoice says

pdfVars == <<pdf, document>>
rowVars == <<completed, gstRate, payments, invoices, pdfVars>>
vars == <<completed, gstRate, payments, invoices, pdf, document, req, orderly>>

\* A ticket has no task yet, one that reads the invoice and uploads, one that
\* saves the URL, a saved URL, or lost its task to a failure.
PdfStates == {"none", "upload", "save", "saved", "lost"}

\* What a column of two decimals keeps of an amount.
Stored(amount) == (amount + 5) \div 10

Paise == {Stored(amount) : amount \in Amounts}

Payment == [amount : Paise, status : {"COLLECTED", "VERIFIED"}]

Invoice == [seq : Nat, subtotal : Paise, rate : GstRates, gst : Nat, total : Nat]

\* An invoice as it is opened, with its payment and the settings beside it, and
\* as the book below enters it.
InvoiceShown == [invoice : Invoice, payment : Payment, settings : GstRates]

InvoiceEntry ==
  [seq : Nat, subtotal : Paise, gst : Nat, total : Nat, verified : BOOLEAN]

ASSUME NoRowAssumption ==
  NoRow \notin Payment \cup Invoice \cup InvoiceShown \cup InvoiceEntry

Invoiced == {t \in Tickets : invoices[t] # NoRow}

Paid == {t \in Tickets : payments[t] # NoRow}

-----------------------------------------------------------------------------
(* InvoiceService.generateInvoiceData *)

\* Math.round of n / unit, upwards from the middle between two whole numbers,
\* where the column above rounds upwards too, unless the product of the binary
\* fractions falls short of the middle.
MathRound(n, unit) ==
  (2 * n + unit - (IF <<n, unit>> \in FallsShort THEN 1 ELSE 0)) \div (2 * unit)

\* The GST and the total that are printed, of an amount at a rate: each is rounded
\* on its own, from the amount as it was typed.
GstAmount(amount, rate) == MathRound(amount * rate, 100000)

Total(amount, rate) == MathRound(amount + 10 * GstAmount(amount, rate), 10)

\* A request holds the ticket and the amount, the rate it has read, and the
\* number it has taken.
InFlight ==
  [op : {"collectPayment", "verifyPayment"},
   step : {"readPayment", "readSettings", "readCount", "commit", "startPdf"},
   ticket : Tickets, amount : Amounts \cup {0}, rate : GstRates, seq : Nat]

Start(r, op, step, t, amount) ==
  Begin(r, [op |-> op, step |-> step, ticket |-> t, amount |-> amount,
            rate |-> 0, seq |-> 0])

ReadSettings(r) ==
  /\ At(r, "collectPayment", "readSettings")
  /\ req' = [req EXCEPT ![r].step = "readCount", ![r].rate = gstRate]
  /\ UNCHANGED <<rowVars, orderly>>

\* A number one beyond the next.
ReadCountSkippingOne(r) ==
  /\ At(r, "collectPayment", "readCount")
  /\ req' = [req EXCEPT ![r].step = "commit", ![r].seq = Cardinality(Invoiced) + 2]
  /\ UNCHANGED <<rowVars, orderly>>

\* invoiceCount + 1, in the format of the tenant.
ReadCount(r) ==
  /\ At(r, "collectPayment", "readCount")
  /\ req' = [req EXCEPT ![r].step = "commit", ![r].seq = Cardinality(Invoiced) + 1]
  /\ UNCHANGED <<rowVars, orderly>>

-----------------------------------------------------------------------------
(* TechnicianService.collectPayment *)

CollectPayment(r, t, amount) ==
  /\ t \in completed
  /\ Start(r, "collectPayment", "readPayment", t, amount)
  /\ UNCHANGED rowVars

\* What follows looks the charge of the sub-category up as the first element
\* of a list, which it is not: it finds none and refuses no amount.
CollectPaymentReadPayment(r) ==
  /\ At(r, "collectPayment", "readPayment")
  /\ ContinueIf(r, req[r].ticket \notin Paid, "readSettings")
  /\ UNCHANGED rowVars

\* collectPayment that records the total of the invoice as collected.
CommitTotalAsPayment(r) ==
  LET q == req[r]
      t == q.ticket
  IN
  /\ At(r, "collectPayment", "commit")
  /\ t \notin Paid
  /\ payments' = [payments EXCEPT ![t] =
       [amount |-> Total(q.amount, q.rate), status |-> "COLLECTED"]]
  /\ invoices' = [invoices EXCEPT ![t] =
       [seq |-> q.seq, subtotal |-> Stored(q.amount), rate |-> q.rate,
        gst |-> GstAmount(q.amount, q.rate), total |-> Total(q.amount, q.rate)]]
  /\ completed' = completed \ {t}
  /\ Continue(r, "startPdf")
  /\ UNCHANGED <<gstRate, pdfVars>>

\* One transaction; payments.ticketId and invoices.ticketId are unique.
CollectPaymentCommit(r) ==
  LET q == req[r]
      t == q.ticket
  IN
  /\ At(r, "collectPayment", "commit")
  /\ \/ /\ t \notin Paid
        /\ payments' = [payments EXCEPT ![t] =
             [amount |-> Stored(q.amount), status |-> "COLLECTED"]]
        /\ invoices' = [invoices EXCEPT ![t] =
             [seq |-> q.seq, subtotal |-> Stored(q.amount), rate |-> q.rate,
              gst |-> GstAmount(q.amount, q.rate),
              total |-> Total(q.amount, q.rate)]]
        /\ completed' = completed \ {t}
        /\ Continue(r, "startPdf")
     \/ /\ t \in Paid
        /\ Finish(r)
        /\ UNCHANGED <<payments, invoices, completed>>
  /\ UNCHANGED <<gstRate, pdfVars>>

\* The response is sent without the task having been started.
StartNoPdf(r) ==
  /\ At(r, "collectPayment", "startPdf")
  /\ Finish(r)
  /\ UNCHANGED rowVars

\* After one more read, the task is started and not waited for.
StartPdf(r) ==
  /\ At(r, "collectPayment", "startPdf")
  /\ pdf' = [pdf EXCEPT ![req[r].ticket] = "upload"]
  /\ Finish(r)
  /\ UNCHANGED <<completed, gstRate, payments, invoices, document>>

-----------------------------------------------------------------------------
(* InvoiceService.generateAndUploadPdf *)

\* buildPdf: what is printed, with a line for the GST if there is any.
Printed(t) ==
  [seq |-> invoices[t].seq, total |-> invoices[t].total,
   lines |-> <<invoices[t].subtotal>> \o
     IF invoices[t].gst > 0 THEN <<invoices[t].gst>> ELSE <<>>]

\* The file has a name of its own, whatever the number of the invoice.
UploadDocument(t) ==
  /\ pdf[t] = "upload"
  /\ pdf' = [pdf EXCEPT ![t] = "save"]
  /\ document' = [document EXCEPT ![t] = Printed(t)]
  /\ UNCHANGED <<completed, gstRate, payments, invoices, req, orderly>>

SavePdfUrl(t) ==
  /\ pdf[t] = "save"
  /\ pdf' = [pdf EXCEPT ![t] = "saved"]
  /\ UNCHANGED <<completed, gstRate, payments, invoices, document, req, orderly>>

\* The error is logged and nobody tries again.
LosePdf(t) ==
  /\ pdf[t] \in {"upload", "save"}
  /\ pdf' = [pdf EXCEPT ![t] = "lost"]
  /\ UNCHANGED <<completed, gstRate, payments, invoices, document, req, orderly>>

-----------------------------------------------------------------------------
(* Manager and admin *)

VerifyPayment(r, t) ==
  /\ t \in Paid
  /\ payments[t].status = "COLLECTED"
  /\ Start(r, "verifyPayment", "commit", t, 0)
  /\ UNCHANGED rowVars

VerifyPaymentCommit(r) ==
  /\ At(r, "verifyPayment", "commit")
  /\ payments' = [payments EXCEPT ![req[r].ticket].status = "VERIFIED"]
  /\ Finish(r)
  /\ UNCHANGED <<completed, gstRate, invoices, pdfVars>>

UpdateTenantSettings(r, rate) ==
  /\ InOneStep(r)
  /\ gstRate' = rate
  /\ UNCHANGED <<completed, payments, invoices, pdfVars>>

\* completeTicket, as far as payments see it.
CompleteTicket(t) ==
  /\ t \notin completed \cup Paid
  /\ completed' = completed \cup {t}
  /\ UNCHANGED <<gstRate, payments, invoices, pdfVars, req, orderly>>

-----------------------------------------------------------------------------
(* The service *)

\* A failure after the commit leaves the invoice without a task.
Fail(r) ==
  /\ Abandon(r)
  /\ pdf' = IF At(r, "collectPayment", "startPdf")
            THEN [pdf EXCEPT ![req[r].ticket] = "lost"] ELSE pdf
  /\ UNCHANGED <<completed, gstRate, payments, invoices, document>>

\* createTenant makes the settings with GST off.
Init ==
  /\ completed = {}
  /\ gstRate = 0
  /\ payments = [t \in Tickets |-> NoRow]
  /\ invoices = [t \in Tickets |-> NoRow]
  /\ pdf = [t \in Tickets |-> "none"]
  /\ document = [t \in Tickets |-> NoRow]
  /\ NoRequests
  /\ orderly = TRUE

Call(r) ==
  \/ \E t \in Tickets, amount \in Amounts : CollectPayment(r, t, amount)
  \/ \E t \in Tickets : VerifyPayment(r, t)
  \/ \E rate \in GstRates : UpdateTenantSettings(r, rate)

Step(r) ==
  \/ CollectPaymentReadPayment(r)
  \/ ReadSettings(r)
  \/ ReadCount(r)
  \/ CollectPaymentCommit(r)
  \/ StartPdf(r)
  \/ VerifyPaymentCommit(r)

PdfStep(t) == UploadDocument(t) \/ SavePdfUrl(t)

Next ==
  \/ \E r \in Requests : Call(r) \/ Step(r) \/ Fail(r)
  \/ \E t \in Tickets : CompleteTicket(t) \/ PdfStep(t) \/ LosePdf(t)

\* Node.js runs an awaiting handler or task on once its query answers.
Fairness ==
  /\ \A r \in Requests : WF_vars(Step(r))
  /\ \A t \in Tickets : WF_vars(PdfStep(t))

Spec == Init /\ [][Next]_vars /\ Fairness

-----------------------------------------------------------------------------
(* What the users of the tenant are shown *)

Sum(f(_), S) == MapThenSumSet(f, S)

VerifiedPayments == {t \in Paid : payments[t].status = "VERIFIED"}

\* ManagerService.listPayments.
TotalVerified ==
  LET Amount(t) == payments[t].amount
  IN Sum(Amount, VerifiedPayments)

\* The pages a query may return that takes the newest rows up to a number: which
\* ones those are, the times of the rows decide.
Newest(rows) ==
  {page \in SUBSET rows :
     IF Cardinality(rows) <= ListCap THEN page = rows ELSE Cardinality(page) = ListCap}

\* ManagerService.listInvoices, by the status of the payment.
ListInvoices(status) == Newest({t \in Invoiced : payments[t].status = status})

\* CustomerService.listMyInvoices and getMyPayments.
MyInvoices(c) == {t \in Invoiced : CustomerOf[t] = c}

MyPayments(c) == {t \in Paid : CustomerOf[t] = c}

\* AdminService.getRevenueReport.
RevenueReport == Newest(VerifiedPayments)

\* ManagerService.getInvoice: the invoice and the settings of today beside it.
GetInvoice(t) ==
  [invoice |-> invoices[t], payment |-> payments[t], settings |-> gstRate]

\* CustomerService.getInvoice: of the customer's own tickets only.
GetMyInvoice(c, t) ==
  IF t \in Invoiced /\ CustomerOf[t] = c THEN GetInvoice(t) ELSE NoRow

-----------------------------------------------------------------------------
(* Properties *)

\* The rows and the requests in flight have their types.
TypeOK ==
  /\ completed \subseteq Tickets
  /\ gstRate \in GstRates
  /\ \A t \in Paid : payments[t] \in Payment
  /\ \A t \in Invoiced :
       /\ invoices[t] \in Invoice
       /\ invoices[t].seq \in 1..Cardinality(Tickets)
  /\ pdf \in [Tickets -> PdfStates]
  /\ \A t \in Tickets : document[t] # NoRow => t \in Invoiced
  /\ req \in [Requests -> InFlight \cup {Idle}]
  /\ orderly \in BOOLEAN

\* What is above a total adds up to it, but for a paisa of rounding.
AddsUp(total, sum) == total \in (sum - 1)..(sum + 1)

\* The books agree, whatever GST was set while they were written: as long as no
\* more rows are verified than a list shows, the list of invoices and the revenue
\* report show the same ones and the manager's total of verified money is what
\* these invoices say before tax; each customer finds an invoice for each payment
\* and the same amount on both; every invoice adds up, to a paisa, however it is
\* opened; and so does its PDF, which was made by a task that read it later and
\* has its number and its total (collectPayment, verifyPayment,
\* generateAndUploadPdf and the lists).
BooksBalance ==
  LET Subtotal(t) == invoices[t].subtotal IN
  /\ \A listed \in ListInvoices("VERIFIED"), reported \in RevenueReport :
       Cardinality(VerifiedPayments) <= ListCap =>
         listed = reported /\ TotalVerified = Sum(Subtotal, listed)
  /\ \A c \in Customers :
       /\ MyInvoices(c) = MyPayments(c)
       /\ MyInvoices(c) = {t \in Tickets : GetMyInvoice(c, t) # NoRow}
       /\ \A t \in MyPayments(c) :
            LET shown == GetMyInvoice(c, t) IN
            /\ shown.payment.amount = shown.invoice.subtotal
            /\ AddsUp(shown.invoice.total, shown.invoice.subtotal + shown.invoice.gst)
  /\ \A t \in Tickets : document[t] # NoRow =>
       /\ document[t].seq = GetInvoice(t).invoice.seq
       /\ AddsUp(document[t].total, FoldSeq(LAMBDA a, b : a + b, 0, document[t].lines))
       /\ document[t].total = GetInvoice(t).invoice.total

\* The invoices are the book a tenant expects, with the exception for requests
\* that overlap (generateInvoiceData counts before the transaction).
Entry(t) ==
  [seq |-> invoices[t].seq, subtotal |-> invoices[t].subtotal,
   gst |-> invoices[t].gst, total |-> invoices[t].total,
   verified |-> payments[t].status = "VERIFIED"]

BookOfInvoices == [t \in Tickets |-> IF invoices[t] = NoRow THEN NoRow ELSE Entry(t)]

Book == INSTANCE InvoiceBook WITH
  Amounts <- Paise, NotEntered <- NoRow, book <- BookOfInvoices, orderly <- orderly

ImplementsBook == Book!Spec

\* An invoice gets its PDF, unless a failure is in the way: nothing else stops
\* the task that nobody waits for (generateAndUploadPdf).
PdfFollows ==
  \A t \in Tickets : invoices[t] # NoRow ~> pdf[t] \in {"saved", "lost"}

-----------------------------------------------------------------------------
(* What an error message says and the code does not do *)

\* No less than the inspection charge of the sub-category is collected.
InspectionChargeCovered ==
  \A t \in Paid : payments[t].amount >= InspectionCharge
=============================================================================
