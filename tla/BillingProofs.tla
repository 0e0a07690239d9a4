---------------------------- MODULE BillingProofs ----------------------------
(***************************************************************************)
(* Theorems about payments and invoices, for any tickets, amounts in       *)
(* tenths of a paisa, rates, caps of the lists and requests, and whichever *)
(* quotients fall short of the middle: the rows keep their types, the      *)
(* books balance, and the service implements the book of module            *)
(* InvoiceBook.                                                            *)
(*                                                                         *)
(* The invariant says that the two rows of a ticket are inserted together  *)
(* and agree, that a document was printed from the invoice that is there   *)
(* still, and what each request in flight holds: the number it took is no  *)
(* more than one ahead of the invoices there are, and exactly one ahead    *)
(* while requests come one at a time.                                      *)
(***************************************************************************)
EXTENDS Billing, Counting, SequenceTheorems

-----------------------------------------------------------------------------
(* The invariant *)

Documents == [seq : Nat, total : Nat, lines : Seq(Nat)]

RowsTyped ==
  /\ completed \subseteq Tickets
  /\ gstRate \in GstRates
  /\ payments \in [Tickets -> Payment \cup {NoRow}]
  /\ invoices \in [Tickets -> Invoice \cup {NoRow}]

\* Both rows of a ticket come from one transaction.
RowsAgree ==
  /\ Paid = Invoiced
  /\ \A t \in Invoiced :
       /\ payments[t].amount = invoices[t].subtotal
       /\ AddsUp(invoices[t].total, invoices[t].subtotal + invoices[t].gst)
       /\ invoices[t].seq \in 1..Cardinality(Tickets)

\* An invoice is not altered once a document may have been printed from it.
DocumentsPrinted ==
  /\ pdf \in [Tickets -> PdfStates]
  /\ document \in [Tickets -> Documents \cup {NoRow}]
  /\ \A t \in Tickets : pdf[t] \in {"upload", "save"} => t \in Invoiced
  /\ \A t \in Tickets : document[t] # NoRow => t \in Invoiced /\ document[t] = Printed(t)

Holds(r) ==
  LET q == req[r] IN
  /\ q.op = "collectPayment" => q.amount \in Amounts
  /\ q.op = "collectPayment" /\ q.step = "commit" =>
       q.seq \in 1..(Cardinality(Invoiced) + 1)
  /\ q.step = "startPdf" => q.ticket \in Invoiced
  /\ q.op = "verifyPayment" => q.ticket \in Paid

ReqsTyped ==
  /\ req \in [Requests -> InFlight \cup {Idle}]
  /\ orderly \in BOOLEAN
  /\ \A r \in Requests : req[r] # Idle => Holds(r)

TypeInv == RowsTyped /\ RowsAgree /\ DocumentsPrinted /\ ReqsTyped

\* While requests come one at a time, the number that is held is the next.
OrderlyInv ==
  orderly =>
    /\ \A r, s \in Requests : req[r] # Idle /\ req[s] # Idle => r = s
    /\ \A r \in Requests :
         At(r, "collectPayment", "commit") => req[r].seq = Cardinality(Invoiced) + 1

-----------------------------------------------------------------------------
(* Amounts and sums *)

\* A column keeps an amount of rupees as a number of paise.
LEMMA AmountsStored ==
  /\ \A a \in Amounts : a \in Nat /\ a >= 1000 /\ Stored(a) \in Paise
  /\ Paise \subseteq Nat \ {0}
  /\ \A rate \in GstRates : rate \in Nat /\ rate <= 10000
BY AmountsAssumption DEF Paise, Stored

\* Rounding to tens misses a number by half of ten at most.
LEMMA RoundedToTens ==
  ASSUME NEW n \in Nat
  PROVE  /\ MathRound(n, 10) \in Nat
         /\ 10 * MathRound(n, 10) \in (n - 5)..(n + 5)
<1>1. PICK short \in {0, 1} : MathRound(n, 10) = (2 * n + 10 - short) \div 20
  <2> DEFINE short == IF <<n, 10>> \in FallsShort THEN 1 ELSE 0
  <2>1. MathRound(n, 10) = (2 * n + 10 - short) \div 20
    BY DEF MathRound
  <2> QED
    BY <2>1
<1> QED
  BY <1>1

\* The tax is no more than what it is charged on.
LEMMA GstBounded ==
  ASSUME NEW amount \in Nat, NEW rate \in Nat, rate <= 10000
  PROVE  /\ GstAmount(amount, rate) \in Nat /\ Stored(amount) \in Nat
         /\ GstAmount(amount, rate) <= Stored(amount)
<1>1. amount * rate \in Nat /\ amount * rate <= 10000 * amount
  <2>1. PICK rest \in Nat : rest = 10000 - rate
    OBVIOUS
  <2>2. 10000 * amount = amount * rate + amount * rest
    BY <2>1
  <2>3. amount * rate \in Nat /\ amount * rest \in Nat
    OBVIOUS
  <2> QED
    BY <2>2, <2>3
<1> DEFINE h == amount * rate
<1>2. PICK short \in {0, 1} : GstAmount(amount, rate) = (2 * h + 100000 - short) \div 200000
  <2> DEFINE short == IF <<h, 100000>> \in FallsShort THEN 1 ELSE 0
  <2>1. GstAmount(amount, rate) = (2 * h + 100000 - short) \div (2 * 100000)
    BY DEF GstAmount, MathRound
  <2> QED
    BY <2>1
<1> HIDE DEF h
<1>3. h \in Nat /\ h <= 10000 * amount
  BY <1>1 DEF h
<1>4. (2 * h + 100000 - short) \div 200000 \in 0..((amount + 5) \div 10)
  BY <1>3
<1> QED
  BY <1>2, <1>4 DEF Stored

\* The subtotal, the tax and the total are rounded one by one, and are a paisa
\* apart at most.
LEMMA TotalAddsUp ==
  ASSUME NEW amount \in Nat, NEW rate \in Nat, rate <= 10000
  PROVE  /\ Total(amount, rate) \in Nat
         /\ AddsUp(Total(amount, rate), Stored(amount) + GstAmount(amount, rate))
<1>1. PICK gst \in Nat : gst = GstAmount(amount, rate)
  BY GstBounded
<1>2. PICK total \in Nat :
        /\ total = Total(amount, rate)
        /\ 10 * total \in (amount + 10 * gst - 5)..(amount + 10 * gst + 5)
  <2>1. amount + 10 * gst \in Nat
    OBVIOUS
  <2>2. Total(amount, rate) = MathRound(amount + 10 * gst, 10)
    BY <1>1 DEF Total
  <2> QED
    BY <2>1, <2>2, RoundedToTens
<1>3. Stored(amount) \in Nat /\ 10 * Stored(amount) \in (amount - 4)..(amount + 5)
  BY DEF Stored
<1> QED
  BY <1>1, <1>2, <1>3 DEF AddsUp

\* What a list of one line adds up to.
LEMMA SumOfOne ==
  ASSUME NEW n \in Nat
  PROVE  FoldSeq(LAMBDA a, b : a + b, 0, <<n>>) = n
<1> DEFINE Adds(f) ==
             f = [s \in SUBSET {1} |->
                    IF s = {} THEN 0
                    ELSE LET x == CHOOSE y \in s : TRUE IN <<n>>[x] + f[s \ {x}]]
           g == [s \in SUBSET {1} |-> IF s = {} THEN 0 ELSE n]
<1>1. Adds(g)
  <2>1. \A s \in SUBSET {1} : s = {} \/ s = {1}
    OBVIOUS
  <2>2. (CHOOSE y \in {1} : TRUE) = 1
    OBVIOUS
  <2>3. <<n>>[1] + g[{1} \ {1}] = n
    OBVIOUS
  <2> QED
    BY <2>1, <2>2, <2>3
<1>2. Adds(CHOOSE f : Adds(f))
  <2> HIDE DEF Adds, g
  <2> QED
    BY <1>1
<1>3. FoldSeq(LAMBDA a, b : a + b, 0, <<n>>) = (CHOOSE f : Adds(f))[{1}]
  <2>1. DOMAIN <<n>> = {1}
    OBVIOUS
  <2>2. FoldSeq(LAMBDA a, b : a + b, 0, <<n>>) =
          (CHOOSE f : f = [s \in SUBSET (DOMAIN <<n>>) |->
                             IF s = {} THEN 0
                             ELSE LET x == CHOOSE y \in s : TRUE
                                  IN <<n>>[x] + f[s \ {x}]])[DOMAIN <<n>>]
    BY DEF FoldSeq, FoldFunction, FoldFunctionOnSet, MapThenFoldSet
  <2> QED
    BY <2>1, <2>2
<1>4. ASSUME NEW f, Adds(f) PROVE f[{1}] = n
  <2>1. f[{}] = 0
    BY <1>4
  <2>2. (CHOOSE y \in {1} : TRUE) = 1
    OBVIOUS
  <2>3. f[{1}] = <<n>>[1] + f[{1} \ {1}]
    BY <1>4, <2>2
  <2> QED
    BY <2>1, <2>3
<1> HIDE DEF Adds
<1> QED
  BY <1>2, <1>3, <1>4

\* And one of two, in whatever order they are added.
LEMMA SumOfTwo ==
  ASSUME NEW m \in Nat, NEW n \in Nat
  PROVE  FoldSeq(LAMBDA a, b : a + b, 0, <<m, n>>) = m + n
<1> DEFINE Adds(f) ==
             f = [s \in SUBSET {1, 2} |->
                    IF s = {} THEN 0
                    ELSE LET x == CHOOSE y \in s : TRUE IN <<m, n>>[x] + f[s \ {x}]]
           g == [s \in SUBSET {1, 2} |->
                   IF s = {} THEN 0 ELSE IF s = {1} THEN m ELSE IF s = {2} THEN n ELSE m + n]
<1>1. /\ (CHOOSE y \in {1} : TRUE) = 1 /\ (CHOOSE y \in {2} : TRUE) = 2
      /\ (CHOOSE y \in {1, 2} : TRUE) \in {1, 2}
  OBVIOUS
<1>2. /\ {1} \ {1} = {} /\ {2} \ {2} = {} /\ {1, 2} \ {1} = {2} /\ {1, 2} \ {2} = {1}
      /\ {1} # {} /\ {2} # {} /\ {1} # {2} /\ {1, 2} # {} /\ {1, 2} # {1} /\ {1, 2} # {2}
      /\ <<m, n>>[1] = m /\ <<m, n>>[2] = n
  OBVIOUS
<1>3. Adds(g)
  <2>1. g[{}] = 0 /\ g[{1}] = m /\ g[{2}] = n /\ g[{1, 2}] = m + n
    BY <1>2
  <2>2. ASSUME NEW s \in SUBSET {1, 2}
        PROVE  g[s] = IF s = {} THEN 0
                      ELSE LET x == CHOOSE y \in s : TRUE IN <<m, n>>[x] + g[s \ {x}]
    <3> HIDE DEF g, Adds
    <3>1. s = {} \/ s = {1} \/ s = {2} \/ s = {1, 2}
      OBVIOUS
    <3>2. CASE s = {}
      BY <2>1, <3>2
    <3>3. CASE s = {1}
      <4> DEFINE x == CHOOSE y \in s : TRUE
      <4>1. x = 1
        BY <1>1, <3>3
      <4> HIDE DEF x
      <4>2. s \ {x} = {} /\ <<m, n>>[x] = m /\ s # {} /\ m + 0 = m
        BY <1>2, <3>3, <4>1
      <4> QED
        BY <2>1, <3>3, <4>2 DEF x
    <3>4. CASE s = {2}
      <4> DEFINE x == CHOOSE y \in s : TRUE
      <4>1. x = 2
        BY <1>1, <3>4
      <4> HIDE DEF x
      <4>2. s \ {x} = {} /\ <<m, n>>[x] = n /\ s # {} /\ n + 0 = n
        BY <1>2, <3>4, <4>1
      <4> QED
        BY <2>1, <3>4, <4>2 DEF x
    <3>5. CASE s = {1, 2}
      <4> DEFINE x == CHOOSE y \in s : TRUE
      <4>1. x = 1 \/ x = 2
        BY <1>1, <3>5
      <4> HIDE DEF x
      <4>2. CASE x = 1
        <5>1. s \ {x} = {2} /\ <<m, n>>[x] = m /\ s # {}
          BY <1>2, <3>5, <4>2
        <5> QED
          BY <2>1, <3>5, <5>1 DEF x
      <4>3. CASE x = 2
        <5>1. s \ {x} = {1} /\ <<m, n>>[x] = n /\ s # {}
          BY <1>2, <3>5, <4>3
        <5> QED
          BY <2>1, <3>5, <5>1 DEF x
      <4> QED
        BY <4>1, <4>2, <4>3
    <3> QED
      BY <3>1, <3>2, <3>3, <3>4, <3>5
  <2> QED
    BY <2>2
<1>4. Adds(CHOOSE f : Adds(f))
  <2> HIDE DEF Adds, g
  <2> QED
    BY <1>3
<1>5. FoldSeq(LAMBDA a, b : a + b, 0, <<m, n>>) = (CHOOSE f : Adds(f))[{1, 2}]
  <2>1. DOMAIN <<m, n>> = {1, 2}
    OBVIOUS
  <2>2. FoldSeq(LAMBDA a, b : a + b, 0, <<m, n>>) =
          (CHOOSE f : f = [s \in SUBSET (DOMAIN <<m, n>>) |->
                             IF s = {} THEN 0
                             ELSE LET x == CHOOSE y \in s : TRUE
                                  IN <<m, n>>[x] + f[s \ {x}]])[DOMAIN <<m, n>>]
    BY DEF FoldSeq, FoldFunction, FoldFunctionOnSet, MapThenFoldSet
  <2> QED
    BY <2>1, <2>2
<1>6. ASSUME NEW f, Adds(f) PROVE f[{1, 2}] = m + n
  <2>1. f[{}] = 0
    BY <1>6
  <2>2. f[{1}] = m /\ f[{2}] = n
    BY <1>1, <1>2, <1>6, <2>1
  <2> DEFINE x == CHOOSE y \in {1, 2} : TRUE
  <2>3. f[{1, 2}] = <<m, n>>[x] + f[{1, 2} \ {x}] /\ x \in {1, 2}
    BY <1>1, <1>2, <1>6
  <2> HIDE DEF x
  <2>4. x = 1 \/ x = 2
    BY <2>3
  <2> QED
    BY <1>2, <2>2, <2>3, <2>4
<1> HIDE DEF Adds
<1> QED
  BY <1>4, <1>5, <1>6

\* The verified payments and their invoices add up to the same: the two sums
\* choose the tickets in the same order.
LEMMA SumsAgree ==
  ASSUME RowsAgree
  PROVE  LET Subtotal(t) == invoices[t].subtotal
         IN TotalVerified = Sum(Subtotal, VerifiedPayments)
<1> DEFINE S == VerifiedPayments
           Subtotal(t) == invoices[t].subtotal
           AddsPaid(f) ==
             f = [s \in SUBSET S |->
                    IF s = {} THEN 0
                    ELSE LET x == CHOOSE y \in s : TRUE IN payments[x].amount + f[s \ {x}]]
           AddsInvoiced(f) ==
             f = [s \in SUBSET S |->
                    IF s = {} THEN 0
                    ELSE LET x == CHOOSE y \in s : TRUE IN invoices[x].subtotal + f[s \ {x}]]
<1>2. S \subseteq Invoiced
  BY DEF RowsAgree, VerifiedPayments
<1> HIDE DEF S
<1>3. TotalVerified = (CHOOSE f : AddsPaid(f))[S]
  BY DEF S, TotalVerified, Sum, MapThenSumSet, MapThenFoldSet
<1>4. Sum(Subtotal, S) = (CHOOSE f : AddsInvoiced(f))[S]
  BY DEF Sum, MapThenSumSet, MapThenFoldSet
<1>5. \A f : AddsPaid(f) <=> AddsInvoiced(f)
  <2> SUFFICES ASSUME NEW f
               PROVE  AddsPaid(f) <=> AddsInvoiced(f)
    OBVIOUS
  <2>1. ASSUME NEW s \in SUBSET S, s # {}
        PROVE  payments[CHOOSE y \in s : TRUE].amount = invoices[CHOOSE y \in s : TRUE].subtotal
    <3> DEFINE x == CHOOSE y \in s : TRUE
    <3>1. x \in S
      BY <2>1
    <3> HIDE DEF x
    <3>2. payments[x].amount = invoices[x].subtotal
      BY <1>2, <3>1 DEF RowsAgree
    <3> QED
      BY <3>2 DEF x
  <2> QED
    BY <2>1
<1> HIDE DEF AddsPaid, AddsInvoiced
<1>6. (CHOOSE f : AddsPaid(f)) = (CHOOSE f : AddsInvoiced(f))
  BY <1>5
<1> QED
  BY <1>3, <1>4, <1>6 DEF S

-----------------------------------------------------------------------------
(* How one request changes *)

OthersSame(r) == \A s \in Requests \ {r} : req'[s] = req[s]

ReqTyped == req' \in [Requests -> InFlight \cup {Idle}]

LEMMA StartRecord ==
  ASSUME TypeInv, NEW r \in Requests,
         NEW op \in {"collectPayment", "verifyPayment"}, NEW step \in {"readPayment", "commit"},
         NEW t \in Tickets, NEW amount \in Amounts \cup {0},
         Start(r, op, step, t, amount)
  PROVE  /\ req[r] = Idle /\ OthersSame(r) /\ ReqTyped
         /\ orderly' = (orderly /\ Alone)
         /\ req'[r] # Idle /\ req'[r].op = op /\ req'[r].step = step
         /\ req'[r].ticket = t /\ req'[r].amount = amount
<1> DEFINE q == [op |-> op, step |-> step, ticket |-> t, amount |-> amount,
                 rate |-> 0, seq |-> 0]
<1>1. /\ req' = [req EXCEPT ![r] = q] /\ req[r] = Idle
      /\ orderly' = (orderly /\ Alone)
  BY DEF Start, Begin
<1>2. /\ q \in InFlight /\ q.op = op /\ q.step = step
      /\ q.ticket = t /\ q.amount = amount
  BY AmountsAssumption DEF InFlight
<1> HIDE DEF q
<1>3. req'[r] = q /\ OthersSame(r) /\ ReqTyped
  BY <1>1, <1>2 DEF TypeInv, ReqsTyped, OthersSame, ReqTyped
<1>4. q # Idle
  BY <1>2 DEF Idle
<1> QED
  BY <1>1, <1>2, <1>3, <1>4

LEMMA ContinueRecord ==
  ASSUME TypeInv, NEW r \in Requests, req[r] # Idle,
         NEW step \in {"readSettings", "startPdf"}, Continue(r, step)
  PROVE  /\ OthersSame(r) /\ ReqTyped /\ orderly' = orderly
         /\ req'[r] # Idle /\ req'[r].step = step /\ req'[r].op = req[r].op
         /\ req'[r].ticket = req[r].ticket /\ req'[r].amount = req[r].amount
<1> DEFINE q == [req[r] EXCEPT !.step = step]
<1>1. req' = [req EXCEPT ![r] = q] /\ orderly' = orderly
  BY DEF Continue
<1>2. req[r] \in InFlight
  BY DEF TypeInv, ReqsTyped
<1>3. /\ q \in InFlight /\ q.step = step /\ q.op = req[r].op
      /\ q.ticket = req[r].ticket /\ q.amount = req[r].amount
  BY <1>2 DEF InFlight
<1>4. q # Idle
  BY <1>3 DEF InFlight, Idle
<1> HIDE DEF q
<1>5. req'[r] = q /\ OthersSame(r) /\ ReqTyped
  BY <1>1, <1>3 DEF TypeInv, ReqsTyped, ReqTyped, OthersSame
<1> QED
  BY <1>1, <1>3, <1>4, <1>5

\* The rate a request has read goes with it.
LEMMA RateRecord ==
  ASSUME TypeInv, NEW r \in Requests, req[r] # Idle, NEW rate \in GstRates,
         req' = [req EXCEPT ![r].step = "readCount", ![r].rate = rate]
  PROVE  /\ OthersSame(r) /\ ReqTyped
         /\ req'[r] # Idle /\ req'[r].step = "readCount" /\ req'[r].op = req[r].op
         /\ req'[r].ticket = req[r].ticket /\ req'[r].amount = req[r].amount
<1> DEFINE p == [req[r] EXCEPT !.step = "readCount"]
           q == [p EXCEPT !.rate = rate]
<1>1. req[r] \in InFlight
  BY DEF TypeInv, ReqsTyped
<1>2. /\ p \in InFlight /\ p.step = "readCount" /\ p.op = req[r].op
      /\ p.ticket = req[r].ticket /\ p.amount = req[r].amount
  BY <1>1 DEF InFlight
<1>3. req' = [[req EXCEPT ![r] = p] EXCEPT ![r] = [[req EXCEPT ![r] = p][r] EXCEPT !.rate = rate]]
  BY Zenon
<1>4. req' = [req EXCEPT ![r] = q]
  <2>1. [req EXCEPT ![r] = p][r] = p
    BY DEF TypeInv, ReqsTyped
  <2>2. req' = [[req EXCEPT ![r] = p] EXCEPT ![r] = q]
    BY <1>3, <2>1
  <2> HIDE DEF q, p
  <2> QED
    BY <2>2 DEF TypeInv, ReqsTyped
<1>5. /\ q \in InFlight /\ q.step = "readCount" /\ q.op = p.op
      /\ q.ticket = p.ticket /\ q.amount = p.amount
  <2> HIDE DEF p
  <2> QED
    BY <1>2 DEF InFlight
<1>6. q # Idle
  BY <1>5 DEF InFlight, Idle
<1> HIDE DEF p, q
<1>7. req'[r] = q /\ OthersSame(r) /\ ReqTyped
  BY <1>4, <1>5 DEF TypeInv, ReqsTyped, ReqTyped, OthersSame
<1> QED
  BY <1>2, <1>5, <1>6, <1>7

\* And the number it has counted.
LEMMA NumberRecord ==
  ASSUME TypeInv, NEW r \in Requests, req[r] # Idle, NEW n \in Nat,
         req' = [req EXCEPT ![r].step = "commit", ![r].seq = n]
  PROVE  /\ OthersSame(r) /\ ReqTyped
         /\ req'[r] # Idle /\ req'[r].step = "commit" /\ req'[r].op = req[r].op
         /\ req'[r].ticket = req[r].ticket /\ req'[r].amount = req[r].amount
         /\ req'[r].seq = n
<1> DEFINE p == [req[r] EXCEPT !.step = "commit"]
           q == [p EXCEPT !.seq = n]
<1>1. req[r] \in InFlight
  BY DEF TypeInv, ReqsTyped
<1>2. /\ p \in InFlight /\ p.step = "commit" /\ p.op = req[r].op
      /\ p.ticket = req[r].ticket /\ p.amount = req[r].amount
  BY <1>1 DEF InFlight
<1>3. req' = [[req EXCEPT ![r] = p] EXCEPT ![r] = [[req EXCEPT ![r] = p][r] EXCEPT !.seq = n]]
  BY Zenon
<1>4. req' = [req EXCEPT ![r] = q]
  <2>1. [req EXCEPT ![r] = p][r] = p
    BY DEF TypeInv, ReqsTyped
  <2>2. req' = [[req EXCEPT ![r] = p] EXCEPT ![r] = q]
    BY <1>3, <2>1
  <2> HIDE DEF q, p
  <2> QED
    BY <2>2 DEF TypeInv, ReqsTyped
<1>5. /\ q \in InFlight /\ q.step = "commit" /\ q.op = p.op /\ q.seq = n
      /\ q.ticket = p.ticket /\ q.amount = p.amount
  <2> HIDE DEF p
  <2> QED
    BY <1>2 DEF InFlight
<1>6. q # Idle
  BY <1>5 DEF InFlight, Idle
<1> HIDE DEF p, q
<1>7. req'[r] = q /\ OthersSame(r) /\ ReqTyped
  BY <1>4, <1>5 DEF TypeInv, ReqsTyped, ReqTyped, OthersSame
<1> QED
  BY <1>2, <1>5, <1>6, <1>7

LEMMA EndRecord ==
  ASSUME TypeInv, NEW r \in Requests, req' = [req EXCEPT ![r] = Idle]
  PROVE  req'[r] = Idle /\ OthersSame(r) /\ ReqTyped
BY DEF TypeInv, ReqsTyped, ReqTyped, OthersSame

\* The invoices are counted by a natural number, and there is a ticket for one
\* more while one has none.
LEMMA InvoicesCounted ==
  /\ IsFiniteSet(Invoiced) /\ Cardinality(Invoiced) \in Nat
  /\ Cardinality(Tickets) \in Nat
  /\ \A t \in Tickets \ Invoiced : Cardinality(Invoiced) + 1 <= Cardinality(Tickets)
<1>1. Invoiced \in SUBSET Tickets
  BY DEF Invoiced
<1>2. /\ IsFiniteSet(Invoiced) /\ Cardinality(Invoiced) \in Nat
      /\ Cardinality(Tickets) \in Nat
  BY <1>1, TicketsAssumption, PartCount
<1>3. ASSUME NEW t \in Tickets \ Invoiced
      PROVE  Cardinality(Invoiced) + 1 <= Cardinality(Tickets)
  <2>1. Invoiced \cup {t} \in SUBSET Tickets
    BY <1>1
  <2>2. Cardinality(Invoiced \cup {t}) = Cardinality(Invoiced) + 1
    BY <1>2, FS_AddElement
  <2>3. Cardinality(Invoiced \cup {t}) <= Cardinality(Tickets)
    BY <2>1, TicketsAssumption, PartCount
  <2> QED
    BY <2>2, <2>3
<1> QED
  BY <1>2, <1>3

\* A call starts with what it found, or is over at once, and leaves the rows.
CallShape(r) ==
  /\ req[r] = Idle /\ OthersSame(r) /\ ReqTyped /\ orderly' = (orderly /\ Alone)
  /\ UNCHANGED <<completed, payments, invoices, pdf, document>>
  /\ \/ req'[r] = Idle
     \/ /\ req'[r] # Idle /\ req'[r].op = "collectPayment" /\ req'[r].step = "readPayment"
        /\ req'[r].amount \in Amounts
     \/ /\ req'[r] # Idle /\ req'[r].op = "verifyPayment" /\ req'[r].step = "commit"
        /\ req'[r].ticket \in Paid

LEMMA CallShapes ==
  ASSUME TypeInv, NEW r \in Requests, Call(r)
  PROVE  CallShape(r)
<1>1. ASSUME NEW t \in Tickets, NEW amount \in Amounts, CollectPayment(r, t, amount)
      PROVE  CallShape(r)
  <2>1. /\ Start(r, "collectPayment", "readPayment", t, amount)
        /\ UNCHANGED <<completed, payments, invoices, pdf, document>>
    BY <1>1 DEF CollectPayment, rowVars, pdfVars
  <2>2. /\ req[r] = Idle /\ OthersSame(r) /\ ReqTyped /\ orderly' = (orderly /\ Alone)
        /\ req'[r] # Idle /\ req'[r].op = "collectPayment"
        /\ req'[r].step = "readPayment" /\ req'[r].amount = amount
    BY <2>1, StartRecord
  <2> QED
    BY <2>1, <2>2 DEF CallShape
<1>2. ASSUME NEW t \in Tickets, VerifyPayment(r, t)
      PROVE  CallShape(r)
  <2>1. /\ Start(r, "verifyPayment", "commit", t, 0) /\ t \in Paid
        /\ UNCHANGED <<completed, payments, invoices, pdf, document>>
    BY <1>2 DEF VerifyPayment, rowVars, pdfVars
  <2>2. /\ req[r] = Idle /\ OthersSame(r) /\ ReqTyped /\ orderly' = (orderly /\ Alone)
        /\ req'[r] # Idle /\ req'[r].op = "verifyPayment"
        /\ req'[r].step = "commit" /\ req'[r].ticket = t
    BY <2>1, StartRecord
  <2> QED
    BY <2>1, <2>2 DEF CallShape
<1>3. ASSUME NEW rate \in GstRates, UpdateTenantSettings(r, rate)
      PROVE  CallShape(r)
  <2>1. /\ req[r] = Idle /\ req' = req /\ orderly' = (orderly /\ Alone)
        /\ UNCHANGED <<completed, payments, invoices, pdf, document>>
    BY <1>3 DEF UpdateTenantSettings, InOneStep, pdfVars
  <2> QED
    BY <2>1 DEF CallShape, OthersSame, ReqTyped, TypeInv, ReqsTyped
<1> QED
  BY <1>1, <1>2, <1>3 DEF Call

\* A request ends, or goes on to collect with what it holds.
GoesOn(r) ==
  /\ req'[r] # Idle
  /\ req[r].op = "collectPayment" /\ req'[r].op = "collectPayment"
  /\ req'[r].ticket = req[r].ticket /\ req'[r].amount = req[r].amount
  /\ \/ req'[r].step \in {"readSettings", "readCount"}
     \/ /\ ReadCount(r) /\ req'[r].step = "commit"
        /\ req'[r].seq = Cardinality(Invoiced) + 1
     \/ /\ CollectPaymentCommit(r) /\ req[r].step = "commit"
        /\ req'[r].step = "startPdf" /\ req[r].ticket \notin Paid

StepShape(r) ==
  /\ req[r] # Idle /\ OthersSame(r) /\ ReqTyped
  /\ orderly' \in BOOLEAN /\ (orderly' => orderly)
  /\ req'[r] = Idle \/ GoesOn(r)

LEMMA StepShapes ==
  ASSUME TypeInv, NEW r \in Requests, Step(r) \/ Fail(r)
  PROVE  StepShape(r)
<1>0. orderly \in BOOLEAN
  BY DEF TypeInv, ReqsTyped
<1>1. ASSUME req[r] # Idle, Finish(r)
      PROVE  StepShape(r)
  BY <1>0, <1>1, EndRecord DEF StepShape, Finish
<1>2. CASE CollectPaymentReadPayment(r)
  <2>1. /\ req[r] # Idle /\ req[r].op = "collectPayment"
        /\ Continue(r, "readSettings") \/ Finish(r)
    BY <1>2 DEF CollectPaymentReadPayment, At, ContinueIf
  <2>2. CASE Continue(r, "readSettings")
    BY <1>0, <2>1, <2>2, ContinueRecord DEF StepShape, GoesOn
  <2> QED
    BY <1>1, <2>1, <2>2
<1>3. CASE ReadSettings(r)
  <2>1. /\ req[r] # Idle /\ req[r].op = "collectPayment" /\ orderly' = orderly
        /\ req' = [req EXCEPT ![r].step = "readCount", ![r].rate = gstRate]
    BY <1>3 DEF ReadSettings, At
  <2>2. \E rate \in GstRates : req' = [req EXCEPT ![r].step = "readCount", ![r].rate = rate]
    <3>1. gstRate \in GstRates
      BY DEF TypeInv, RowsTyped
    <3> QED
      BY <2>1, <3>1, Zenon
  <2>3. /\ OthersSame(r) /\ ReqTyped
        /\ req'[r] # Idle /\ req'[r].step = "readCount" /\ req'[r].op = req[r].op
        /\ req'[r].ticket = req[r].ticket /\ req'[r].amount = req[r].amount
    BY <2>1, <2>2, RateRecord, Zenon
  <2> QED
    BY <1>0, <2>1, <2>3 DEF StepShape, GoesOn
<1>4. CASE ReadCount(r)
  <2>1. /\ req[r] # Idle /\ req[r].op = "collectPayment" /\ orderly' = orderly
        /\ req' = [req EXCEPT ![r].step = "commit", ![r].seq = Cardinality(Invoiced) + 1]
    BY <1>4 DEF ReadCount, At
  <2>2. \E n \in Nat : /\ n = Cardinality(Invoiced) + 1
                       /\ req' = [req EXCEPT ![r].step = "commit", ![r].seq = n]
    <3>1. Cardinality(Invoiced) + 1 \in Nat
      BY InvoicesCounted
    <3> QED
      BY <2>1, <3>1, Zenon
  <2>3. /\ OthersSame(r) /\ ReqTyped
        /\ req'[r] # Idle /\ req'[r].step = "commit" /\ req'[r].op = req[r].op
        /\ req'[r].ticket = req[r].ticket /\ req'[r].amount = req[r].amount
        /\ req'[r].seq = Cardinality(Invoiced) + 1
    BY <2>1, <2>2, NumberRecord, Zenon
  <2> QED
    BY <1>0, <1>4, <2>1, <2>3 DEF StepShape, GoesOn
<1>5. CASE CollectPaymentCommit(r)
  <2>1. /\ req[r] # Idle /\ req[r].op = "collectPayment" /\ req[r].step = "commit"
        /\ \/ Continue(r, "startPdf") /\ req[r].ticket \notin Paid
           \/ Finish(r)
    BY <1>5 DEF CollectPaymentCommit, At
  <2>2. CASE Continue(r, "startPdf") /\ req[r].ticket \notin Paid
    BY <1>0, <1>5, <2>1, <2>2, ContinueRecord DEF StepShape, GoesOn
  <2> QED
    BY <1>1, <2>1, <2>2
<1>6. CASE StartPdf(r) \/ VerifyPaymentCommit(r)
  BY <1>1, <1>6 DEF StartPdf, VerifyPaymentCommit, At
<1>7. CASE Fail(r)
  BY <1>0, <1>7, EndRecord DEF StepShape, Fail, Abandon
<1> QED
  BY <1>2, <1>3, <1>4, <1>5, <1>6, <1>7 DEF Step

-----------------------------------------------------------------------------
(* How the rows change *)

Enters(r) == CollectPaymentCommit(r) /\ req[r].ticket \notin Paid

\* The rows are inserted by collectPayment, marked by verifyPayment, and left
\* by everything else.
LEMMA RowsChange ==
  ASSUME TypeInv, [Next]_vars
  PROVE  \/ UNCHANGED <<payments, invoices>>
         \/ \E r \in Requests : Enters(r)
         \/ \E r \in Requests : VerifyPaymentCommit(r)
<1>1. ASSUME NEW r \in Requests, Call(r) PROVE UNCHANGED <<payments, invoices>>
  BY <1>1, CallShapes DEF CallShape
<1>2. ASSUME NEW r \in Requests, Step(r) \/ Fail(r), ~Enters(r), ~VerifyPaymentCommit(r)
      PROVE  UNCHANGED <<payments, invoices>>
  BY <1>2 DEF Step, Enters, Fail, CollectPaymentReadPayment, ReadSettings, ReadCount,
     CollectPaymentCommit, StartPdf, rowVars
<1>3. ASSUME NEW t \in Tickets, CompleteTicket(t) \/ PdfStep(t) \/ LosePdf(t)
      PROVE  UNCHANGED <<payments, invoices>>
  BY <1>3 DEF CompleteTicket, PdfStep, UploadDocument, SavePdfUrl, LosePdf
<1>4. CASE UNCHANGED vars
  BY <1>4 DEF vars
<1> QED
  BY <1>1, <1>2, <1>3, <1>4 DEF Next

\* The two rows that collectPayment inserts.
LEMMA RowsInserted ==
  ASSUME TypeInv, NEW r \in Requests, Enters(r)
  PROVE  LET t == req[r].ticket IN
         /\ t \in Tickets \ Invoiced
         /\ req[r].amount \in Amounts /\ req[r].rate \in GstRates
         /\ payments' \in [Tickets -> Payment \cup {NoRow}]
         /\ invoices' \in [Tickets -> Invoice \cup {NoRow}]
         /\ payments'[t] \in Payment /\ invoices'[t] \in Invoice
         /\ payments'[t].amount = Stored(req[r].amount)
         /\ payments'[t].status = "COLLECTED"
         /\ invoices'[t].seq = req[r].seq
         /\ invoices'[t].subtotal = Stored(req[r].amount)
         /\ invoices'[t].gst = GstAmount(req[r].amount, req[r].rate)
         /\ invoices'[t].total = Total(req[r].amount, req[r].rate)
         /\ AddsUp(invoices'[t].total, invoices'[t].subtotal + invoices'[t].gst)
         /\ \A u \in Tickets \ {t} : invoices'[u] = invoices[u] /\ payments'[u] = payments[u]
<1> DEFINE t == req[r].ticket
           amount == req[r].amount
           rate == req[r].rate
           seq == req[r].seq
           paid == [amount |-> Stored(amount), status |-> "COLLECTED"]
           invoice == [seq |-> seq, subtotal |-> Stored(amount), rate |-> rate,
                       gst |-> GstAmount(amount, rate), total |-> Total(amount, rate)]
<1>1. /\ req[r] # Idle /\ req[r].op = "collectPayment" /\ t \notin Paid
      /\ payments' = [payments EXCEPT ![t] = paid]
      /\ invoices' = [invoices EXCEPT ![t] = invoice]
  BY DEF Enters, CollectPaymentCommit, At
<1>2. /\ t \in Tickets \ Invoiced /\ amount \in Amounts /\ rate \in GstRates /\ seq \in Nat
  BY <1>1 DEF TypeInv, ReqsTyped, Holds, InFlight, RowsAgree
<1>3. /\ Stored(amount) \in Paise /\ Stored(amount) \in Nat
      /\ GstAmount(amount, rate) \in Nat /\ Total(amount, rate) \in Nat
      /\ AddsUp(Total(amount, rate), Stored(amount) + GstAmount(amount, rate))
  <2> HIDE DEF amount, rate
  <2>1. amount \in Nat /\ rate \in Nat /\ rate <= 10000
    BY <1>2, AmountsAssumption
  <2>2. Stored(amount) \in Paise
    BY <1>2, AmountsStored
  <2>3. GstAmount(amount, rate) \in Nat /\ Stored(amount) \in Nat
    BY <2>1, GstBounded
  <2> QED
    BY <2>1, <2>2, <2>3, TotalAddsUp
<1>4. /\ paid \in Payment /\ paid.amount = Stored(amount) /\ paid.status = "COLLECTED"
  BY <1>3 DEF Payment
<1> HIDE DEF t, amount, rate, seq
<1>6. /\ invoice \in Invoice /\ invoice.seq = seq /\ invoice.subtotal = Stored(amount)
      /\ invoice.gst = GstAmount(amount, rate) /\ invoice.total = Total(amount, rate)
  BY <1>2, <1>3 DEF Invoice
<1> HIDE DEF paid, invoice
<1>7. /\ payments' \in [Tickets -> Payment \cup {NoRow}]
      /\ invoices' \in [Tickets -> Invoice \cup {NoRow}]
      /\ payments'[t] = paid /\ invoices'[t] = invoice
      /\ \A u \in Tickets \ {t} : invoices'[u] = invoices[u] /\ payments'[u] = payments[u]
  BY <1>1, <1>2, <1>4, <1>6 DEF TypeInv, RowsTyped
<1> QED
  BY <1>2, <1>3, <1>4, <1>6, <1>7 DEF t, amount, rate, seq

\* And their count.
LEMMA InvoicesEntered ==
  ASSUME TypeInv, NEW r \in Requests, Enters(r)
  PROVE  /\ Invoiced' = Invoiced \cup {req[r].ticket}
         /\ Paid' = Paid \cup {req[r].ticket}
         /\ Cardinality(Invoiced') = Cardinality(Invoiced) + 1
<1> DEFINE t == req[r].ticket
<1>1. /\ t \in Tickets \ Invoiced
      /\ payments'[t] \in Payment /\ invoices'[t] \in Invoice
      /\ \A u \in Tickets \ {t} : invoices'[u] = invoices[u] /\ payments'[u] = payments[u]
  BY RowsInserted
<1>2. payments'[t] # NoRow /\ invoices'[t] # NoRow
  BY <1>1, NoRowAssumption
<1> HIDE DEF t
<1>3. Invoiced' = Invoiced \cup {t} /\ Paid' = Paid \cup {t}
  BY <1>1, <1>2 DEF Invoiced, Paid
<1>4. Cardinality(Invoiced \cup {t}) = Cardinality(Invoiced) + 1
  BY <1>1, InvoicesCounted, FS_AddElement
<1> QED
  BY <1>3, <1>4 DEF t

\* verifyPayment marks a row and alters nothing else of it.
LEMMA RowMarked ==
  ASSUME TypeInv, NEW r \in Requests, VerifyPaymentCommit(r)
  PROVE  LET t == req[r].ticket IN
         /\ t \in Paid /\ invoices' = invoices
         /\ payments' \in [Tickets -> Payment \cup {NoRow}]
         /\ payments'[t] \in Payment
         /\ payments'[t].amount = payments[t].amount /\ payments'[t].status = "VERIFIED"
         /\ \A u \in Tickets \ {t} : payments'[u] = payments[u]
<1> DEFINE t == req[r].ticket
           row == [payments[t] EXCEPT !.status = "VERIFIED"]
<1>1. /\ t \in Paid /\ invoices' = invoices
      /\ payments' = [payments EXCEPT ![t] = row]
  BY DEF VerifyPaymentCommit, At, TypeInv, ReqsTyped, Holds
<1>2. t \in Tickets /\ payments[t] \in Payment
  BY <1>1 DEF TypeInv, RowsTyped, Paid
<1> HIDE DEF t
<1>3. row \in Payment /\ row.amount = payments[t].amount /\ row.status = "VERIFIED"
  BY <1>2 DEF Payment
<1> HIDE DEF row
<1>4. /\ payments' \in [Tickets -> Payment \cup {NoRow}] /\ payments'[t] = row
      /\ \A u \in Tickets \ {t} : payments'[u] = payments[u]
  BY <1>1, <1>2, <1>3 DEF TypeInv, RowsTyped
<1> QED
  BY <1>1, <1>3, <1>4 DEF t

\* What is invoiced stays so, unaltered, and is not counted less.
LEMMA InvoicesStay ==
  ASSUME TypeInv, [Next]_vars
  PROVE  /\ Invoiced \subseteq Invoiced' /\ Paid \subseteq Paid'
         /\ \A t \in Invoiced : invoices'[t] = invoices[t]
         /\ Cardinality(Invoiced') \in Nat
         /\ Cardinality(Invoiced) <= Cardinality(Invoiced')
<1>0. Cardinality(Invoiced) \in Nat
  BY InvoicesCounted
<1>1. CASE UNCHANGED <<payments, invoices>>
  <2>1. Invoiced' = Invoiced /\ Paid' = Paid
    BY <1>1 DEF Invoiced, Paid
  <2> QED
    BY <1>0, <1>1, <2>1
<1>2. ASSUME NEW r \in Requests, Enters(r)
      PROVE  /\ Invoiced \subseteq Invoiced' /\ Paid \subseteq Paid'
             /\ \A t \in Invoiced : invoices'[t] = invoices[t]
             /\ Cardinality(Invoiced') \in Nat
             /\ Cardinality(Invoiced) <= Cardinality(Invoiced')
  <2>1. /\ req[r].ticket \in Tickets \ Invoiced
        /\ \A u \in Tickets \ {req[r].ticket} : invoices'[u] = invoices[u]
    BY <1>2, RowsInserted
  <2>2. \A t \in Invoiced : invoices'[t] = invoices[t]
    BY <2>1 DEF Invoiced
  <2> QED
    BY <1>0, <1>2, <2>2, InvoicesEntered
<1>3. ASSUME NEW r \in Requests, VerifyPaymentCommit(r)
      PROVE  /\ Invoiced' = Invoiced /\ Paid \subseteq Paid' /\ invoices' = invoices
  <2>1. /\ invoices' = invoices /\ payments'[req[r].ticket] \in Payment
        /\ \A u \in Tickets \ {req[r].ticket} : payments'[u] = payments[u]
    BY <1>3, RowMarked
  <2>2. payments'[req[r].ticket] # NoRow
    BY <2>1, NoRowAssumption
  <2> QED
    BY <2>1, <2>2 DEF Invoiced, Paid
<1> QED
  BY <1>0, <1>1, <1>2, <1>3, RowsChange

LEMMA NextRows ==
  ASSUME TypeInv, [Next]_vars
  PROVE  RowsTyped' /\ RowsAgree'
<1>1. completed' \subseteq Tickets /\ gstRate' \in GstRates
  <2>0. completed \subseteq Tickets /\ gstRate \in GstRates
    BY DEF TypeInv, RowsTyped
  <2>1. ASSUME NEW r \in Requests, Call(r)
        PROVE  completed' \subseteq Tickets /\ gstRate' \in GstRates
    BY <2>0, <2>1 DEF Call, CollectPayment, VerifyPayment, UpdateTenantSettings, rowVars
  <2>2. ASSUME NEW r \in Requests, Step(r) \/ Fail(r)
        PROVE  completed' \subseteq completed /\ gstRate' = gstRate
    BY <2>2 DEF Step, Fail, CollectPaymentReadPayment, ReadSettings, ReadCount,
       CollectPaymentCommit, StartPdf, VerifyPaymentCommit, rowVars
  <2>3. ASSUME NEW t \in Tickets, CompleteTicket(t) \/ PdfStep(t) \/ LosePdf(t)
        PROVE  completed' \subseteq Tickets /\ gstRate' \in GstRates
    BY <2>0, <2>3 DEF CompleteTicket, PdfStep, UploadDocument, SavePdfUrl, LosePdf
  <2>4. CASE UNCHANGED vars
    BY <2>0, <2>4 DEF vars
  <2> QED
    BY <2>0, <2>1, <2>2, <2>3, <2>4 DEF Next
<1>2. CASE UNCHANGED <<payments, invoices>>
  BY <1>1, <1>2 DEF TypeInv, RowsTyped, RowsAgree, Paid, Invoiced
<1>3. ASSUME NEW r \in Requests, Enters(r)
      PROVE  RowsTyped' /\ RowsAgree'
  <2> DEFINE t == req[r].ticket
  <2>1. /\ t \in Tickets \ Invoiced
        /\ payments' \in [Tickets -> Payment \cup {NoRow}]
        /\ invoices' \in [Tickets -> Invoice \cup {NoRow}]
        /\ payments'[t].amount = invoices'[t].subtotal
        /\ invoices'[t].seq = req[r].seq
        /\ AddsUp(invoices'[t].total, invoices'[t].subtotal + invoices'[t].gst)
        /\ \A u \in Tickets \ {t} : invoices'[u] = invoices[u] /\ payments'[u] = payments[u]
    BY <1>3, RowsInserted
  <2>2. req[r].seq \in 1..Cardinality(Tickets)
    <3>1. req[r].seq \in 1..(Cardinality(Invoiced) + 1)
      BY <1>3 DEF Enters, CollectPaymentCommit, At, TypeInv, ReqsTyped, Holds
    <3> QED
      BY <2>1, <3>1, InvoicesCounted
  <2>3. Invoiced' = Invoiced \cup {t} /\ Paid' = Invoiced'
    BY <1>3, InvoicesEntered DEF TypeInv, RowsAgree
  <2> HIDE DEF t
  <2>4. ASSUME NEW u \in Invoiced'
        PROVE  /\ payments'[u].amount = invoices'[u].subtotal
               /\ AddsUp(invoices'[u].total, invoices'[u].subtotal + invoices'[u].gst)
               /\ invoices'[u].seq \in 1..Cardinality(Tickets)
    <3>1. CASE u = t
      BY <2>1, <2>2, <3>1 DEF t
    <3>2. CASE u # t
      <4>1. u \in Invoiced /\ invoices'[u] = invoices[u] /\ payments'[u] = payments[u]
        BY <2>1, <2>3, <3>2 DEF Invoiced
      <4> QED
        BY <4>1 DEF TypeInv, RowsAgree
    <3> QED
      BY <3>1, <3>2
  <2> QED
    BY <1>1, <2>1, <2>3, <2>4 DEF RowsTyped, RowsAgree
<1>4. ASSUME NEW r \in Requests, VerifyPaymentCommit(r)
      PROVE  RowsTyped' /\ RowsAgree'
  <2> DEFINE t == req[r].ticket
  <2>1. /\ t \in Paid /\ invoices' = invoices
        /\ payments' \in [Tickets -> Payment \cup {NoRow}]
        /\ payments'[t] \in Payment /\ payments'[t].amount = payments[t].amount
        /\ \A u \in Tickets \ {t} : payments'[u] = payments[u]
    BY <1>4, RowMarked
  <2>2. payments'[t] # NoRow
    BY <2>1, NoRowAssumption
  <2> HIDE DEF t
  <2>3. Paid' = Paid /\ Invoiced' = Invoiced
    BY <2>1, <2>2 DEF Paid, Invoiced
  <2>4. \A u \in Invoiced : payments'[u].amount = payments[u].amount
    BY <2>1 DEF Invoiced
  <2> QED
    BY <1>1, <2>1, <2>3, <2>4 DEF TypeInv, RowsTyped, RowsAgree
<1> QED
  BY <1>2, <1>3, <1>4, RowsChange

-----------------------------------------------------------------------------
(* Documents and requests *)

LEMMA NextDocuments ==
  ASSUME TypeInv, [Next]_vars
  PROVE  DocumentsPrinted'
<1>0. /\ pdf \in [Tickets -> PdfStates] /\ document \in [Tickets -> Documents \cup {NoRow}]
      /\ \A t \in Tickets : pdf[t] \in {"upload", "save"} => t \in Invoiced
      /\ \A t \in Tickets : document[t] # NoRow => t \in Invoiced /\ document[t] = Printed(t)
  BY DEF TypeInv, DocumentsPrinted
<1>1. /\ Invoiced \subseteq Invoiced'
      /\ \A t \in Invoiced : Printed(t)' = Printed(t)
  BY InvoicesStay DEF Printed
<1>2. CASE UNCHANGED <<pdf, document>>
  BY <1>0, <1>1, <1>2 DEF DocumentsPrinted
<1>3. ASSUME NEW t \in Tickets, NEW state \in PdfStates, pdf' = [pdf EXCEPT ![t] = state],
             t \in Invoiced, document' = document
      PROVE  DocumentsPrinted'
  BY <1>0, <1>1, <1>3 DEF DocumentsPrinted
<1>4. ASSUME NEW t \in Tickets, UploadDocument(t)
      PROVE  DocumentsPrinted'
  <2>1. /\ t \in Invoiced /\ pdf' = [pdf EXCEPT ![t] = "save"]
        /\ document' = [document EXCEPT ![t] = Printed(t)]
    BY <1>0, <1>4 DEF UploadDocument
  <2>2. Printed(t) \in Documents
    <3>1. invoices[t] \in Invoice /\ Paise \subseteq Nat
      BY <2>1, AmountsStored DEF TypeInv, RowsTyped, Invoiced
    <3>2. /\ invoices[t].seq \in Nat /\ invoices[t].total \in Nat
          /\ invoices[t].subtotal \in Nat /\ invoices[t].gst \in Nat
      BY <3>1 DEF Invoice
    <3> QED
      BY <3>2 DEF Printed, Documents
  <2> HIDE DEF Printed
  <2> QED
    BY <1>0, <1>1, <2>1, <2>2 DEF DocumentsPrinted, PdfStates
<1>5. ASSUME NEW t \in Tickets, SavePdfUrl(t) \/ LosePdf(t)
      PROVE  DocumentsPrinted'
  BY <1>0, <1>3, <1>5 DEF SavePdfUrl, LosePdf, PdfStates
<1>6. ASSUME NEW r \in Requests, StartPdf(r)
      PROVE  DocumentsPrinted'
  BY <1>3, <1>6 DEF StartPdf, At, TypeInv, ReqsTyped, Holds, Invoiced, PdfStates
<1>7. ASSUME NEW r \in Requests, Fail(r)
      PROVE  DocumentsPrinted'
  <2>1. CASE At(r, "collectPayment", "startPdf")
    BY <1>3, <1>7, <2>1 DEF Fail, At, TypeInv, ReqsTyped, Holds, Invoiced, PdfStates
  <2>2. CASE ~At(r, "collectPayment", "startPdf")
    BY <1>2, <1>7, <2>2 DEF Fail
  <2> QED
    BY <2>1, <2>2
<1>8. ASSUME NEW r \in Requests, Call(r)
      PROVE  DocumentsPrinted'
  BY <1>2, <1>8, CallShapes DEF CallShape
<1>9. ASSUME NEW r \in Requests, Step(r), ~StartPdf(r)
      PROVE  DocumentsPrinted'
  BY <1>2, <1>9 DEF Step, CollectPaymentReadPayment, ReadSettings, ReadCount,
     CollectPaymentCommit, VerifyPaymentCommit, rowVars, pdfVars
<1>10. ASSUME NEW t \in Tickets, CompleteTicket(t)
       PROVE  DocumentsPrinted'
  BY <1>2, <1>10 DEF CompleteTicket, pdfVars
<1>11. CASE UNCHANGED vars
  BY <1>2, <1>11 DEF vars
<1> QED
  BY <1>4, <1>5, <1>6, <1>7, <1>8, <1>9, <1>10, <1>11 DEF Next, PdfStep

LEMMA NextReqs ==
  ASSUME TypeInv, [Next]_vars
  PROVE  ReqsTyped'
<1>0. /\ req \in [Requests -> InFlight \cup {Idle}] /\ orderly \in BOOLEAN
      /\ \A r \in Requests : req[r] # Idle => Holds(r)
  BY DEF TypeInv, ReqsTyped
<1>1. ASSUME NEW r \in Requests, req[r] # Idle, req'[r] = req[r]
      PROVE  Holds(r)'
  <2>1. Holds(r) /\ Invoiced \subseteq Invoiced' /\ Paid \subseteq Paid'
    BY <1>0, <1>1, InvoicesStay
  <2>2. \A n \in 1..(Cardinality(Invoiced) + 1) : n \in 1..(Cardinality(Invoiced') + 1)
    BY InvoicesCounted, InvoicesStay
  <2> QED
    BY <1>1, <2>1, <2>2 DEF Holds
<1>2. CASE UNCHANGED <<req, orderly>>
  <2> SUFFICES ASSUME NEW r \in Requests, req'[r] # Idle
               PROVE  Holds(r)'
    BY <1>0, <1>2 DEF ReqsTyped
  <2> QED
    BY <1>1, <1>2
<1>3. ASSUME NEW r \in Requests, Call(r)
      PROVE  ReqsTyped'
  <2>1. CallShape(r)
    BY <1>3, CallShapes
  <2>2. orderly' \in BOOLEAN /\ ReqTyped /\ OthersSame(r)
    BY <2>1 DEF CallShape
  <2>3. ASSUME req'[r] # Idle PROVE Holds(r)'
    BY <2>1, <2>3, InvoicesStay DEF CallShape, Holds
  <2>4. ASSUME NEW s \in Requests \ {r}, req'[s] # Idle
        PROVE  Holds(s)'
    BY <1>1, <2>2, <2>4 DEF OthersSame
  <2> QED
    BY <2>2, <2>3, <2>4 DEF ReqsTyped, ReqTyped
<1>4. ASSUME NEW r \in Requests, Step(r) \/ Fail(r)
      PROVE  ReqsTyped'
  <2>1. StepShape(r)
    BY <1>4, StepShapes
  <2>2. orderly' \in BOOLEAN /\ ReqTyped /\ OthersSame(r) /\ req[r] # Idle
    BY <2>1 DEF StepShape
  <2>3. ASSUME req'[r] # Idle PROVE Holds(r)'
    <3>1. GoesOn(r) /\ req[r].amount \in Amounts
      BY <1>0, <2>1, <2>3 DEF StepShape, GoesOn, Holds
    <3>2. CASE req'[r].step \in {"readSettings", "readCount"}
      BY <3>1, <3>2 DEF GoesOn, Holds
    <3>3. CASE req'[r].step = "commit" /\ req'[r].seq = Cardinality(Invoiced) + 1
      <4>1. req'[r].seq \in 1..(Cardinality(Invoiced') + 1)
        BY <3>3, InvoicesCounted, InvoicesStay
      <4> QED
        BY <3>1, <3>3, <4>1 DEF GoesOn, Holds
    <3>4. CASE req'[r].step = "startPdf" /\ Enters(r)
      <4>1. req[r].ticket \in Invoiced'
        BY <3>4, InvoicesEntered
      <4> QED
        BY <3>1, <3>4, <4>1 DEF GoesOn, Holds
    <3> QED
      BY <3>1, <3>2, <3>3, <3>4 DEF GoesOn, Enters
  <2>4. ASSUME NEW s \in Requests \ {r}, req'[s] # Idle
        PROVE  Holds(s)'
    BY <1>1, <2>2, <2>4 DEF OthersSame
  <2> QED
    BY <2>2, <2>3, <2>4 DEF ReqsTyped, ReqTyped
<1>5. ASSUME NEW t \in Tickets, CompleteTicket(t) \/ PdfStep(t) \/ LosePdf(t)
      PROVE  ReqsTyped'
  BY <1>2, <1>5 DEF CompleteTicket, PdfStep, UploadDocument, SavePdfUrl, LosePdf
<1>6. CASE UNCHANGED vars
  BY <1>2, <1>6 DEF vars
<1> QED
  BY <1>3, <1>4, <1>5, <1>6 DEF Next

LEMMA InitTypes ==
  ASSUME Init
  PROVE  TypeInv
<1>1. Paid = {} /\ Invoiced = {}
  BY DEF Init, Paid, Invoiced
<1>2. RowsTyped
  BY AmountsAssumption DEF Init, RowsTyped
<1>3. RowsAgree
  BY <1>1 DEF RowsAgree
<1>4. DocumentsPrinted
  BY DEF Init, DocumentsPrinted, PdfStates
<1>5. ReqsTyped
  BY DEF Init, NoRequests, ReqsTyped
<1> QED
  BY <1>2, <1>3, <1>4, <1>5 DEF TypeInv

LEMMA NextTypes ==
  ASSUME TypeInv, [Next]_vars
  PROVE  TypeInv'
BY NextRows, NextDocuments, NextReqs DEF TypeInv

LEMMA AlwaysTyped == Spec => []TypeInv
BY InitTypes, NextTypes, PTL DEF Spec

-----------------------------------------------------------------------------
(* The rows and the books *)

\* Payments, invoices, documents and requests keep their types, and no number of
\* an invoice is beyond the tickets there are.
THEOREM TypeCorrect == Spec => []TypeOK
<1>1. ASSUME TypeInv PROVE TypeOK
  <2>1. \A t \in Paid : payments[t] \in Payment
    BY <1>1 DEF TypeInv, RowsTyped, Paid
  <2>2. \A t \in Invoiced : invoices[t] \in Invoice
    BY <1>1 DEF TypeInv, RowsTyped, Invoiced
  <2> QED
    BY <1>1, <2>1, <2>2 DEF TypeInv, RowsTyped, RowsAgree, DocumentsPrinted, ReqsTyped, TypeOK
<1> QED
  BY <1>1, AlwaysTyped, PTL

\* What listPayments, listInvoices, getRevenueReport, getMyPayments and getInvoice
\* show of the same tickets agrees, the lists that are cut off apart, and what is
\* shown and printed of an invoice adds up, to a paisa.
THEOREM BooksAlwaysBalance == Spec => []BooksBalance
<1>1. ASSUME TypeInv PROVE BooksBalance
  <2>0. /\ RowsAgree /\ Paid = Invoiced /\ Invoiced \subseteq Tickets
    BY <1>1 DEF TypeInv, RowsAgree, Invoiced
  <2>1. LET Subtotal(t) == invoices[t].subtotal
        IN \A listed \in ListInvoices("VERIFIED"), reported \in RevenueReport :
             Cardinality(VerifiedPayments) <= ListCap =>
               listed = reported /\ TotalVerified = Sum(Subtotal, listed)
    <3>1. {t \in Invoiced : payments[t].status = "VERIFIED"} = VerifiedPayments
      BY <2>0 DEF VerifiedPayments
    <3>2. ASSUME Cardinality(VerifiedPayments) <= ListCap,
                 NEW page \in Newest(VerifiedPayments)
          PROVE  page = VerifiedPayments
      BY <3>2 DEF Newest
    <3>3. ASSUME Cardinality(VerifiedPayments) <= ListCap,
                 NEW listed \in ListInvoices("VERIFIED"), NEW reported \in RevenueReport
          PROVE  listed = VerifiedPayments /\ reported = VerifiedPayments
      <4> HIDE DEF Newest, VerifiedPayments
      <4> QED
        BY <3>1, <3>2, <3>3 DEF ListInvoices, RevenueReport
    <3> HIDE DEF TotalVerified, Sum
    <3> QED
      BY <2>0, <3>3, SumsAgree
  <2>3. ASSUME NEW t \in Invoiced
        PROVE  /\ invoices[t] \in Invoice /\ payments[t] \in Payment
               /\ GetInvoice(t) # NoRow
               /\ GetInvoice(t).invoice = invoices[t] /\ GetInvoice(t).payment = payments[t]
    <3>1. invoices[t] \in Invoice /\ payments[t] \in Payment /\ gstRate \in GstRates
      BY <1>1, <2>0 DEF TypeInv, RowsTyped, Invoiced, Paid
    <3>2. GetInvoice(t) \in InvoiceShown
      BY <3>1 DEF GetInvoice, InvoiceShown
    <3> QED
      BY <3>1, <3>2, NoRowAssumption DEF GetInvoice
  <2>4. ASSUME NEW c \in Customers
        PROVE  /\ MyInvoices(c) = MyPayments(c)
               /\ MyInvoices(c) = {t \in Tickets : GetMyInvoice(c, t) # NoRow}
               /\ \A t \in MyPayments(c) :
                    LET shown == GetMyInvoice(c, t) IN
                    /\ shown.payment.amount = shown.invoice.subtotal
                    /\ AddsUp(shown.invoice.total, shown.invoice.subtotal + shown.invoice.gst)
    <3>1. MyInvoices(c) = MyPayments(c)
      BY <2>0 DEF MyInvoices, MyPayments
    <3>2. MyInvoices(c) = {t \in Tickets : GetMyInvoice(c, t) # NoRow}
      <4> HIDE DEF GetInvoice
      <4> QED
        BY <2>0, <2>3 DEF MyInvoices, GetMyInvoice
    <3>3. ASSUME NEW t \in MyPayments(c)
          PROVE  LET shown == GetMyInvoice(c, t) IN
                 /\ shown.payment.amount = shown.invoice.subtotal
                 /\ AddsUp(shown.invoice.total, shown.invoice.subtotal + shown.invoice.gst)
      <4>1. t \in Invoiced /\ CustomerOf[t] = c
        BY <2>0, <3>3 DEF MyPayments
      <4>2. GetMyInvoice(c, t) = GetInvoice(t)
        BY <4>1 DEF GetMyInvoice
      <4> QED
        BY <2>0, <2>3, <4>1, <4>2 DEF RowsAgree
    <3> QED
      BY <3>1, <3>2, <3>3
  <2>5. ASSUME NEW t \in Tickets, document[t] # NoRow
        PROVE  /\ document[t].seq = GetInvoice(t).invoice.seq
               /\ AddsUp(document[t].total, FoldSeq(LAMBDA a, b : a + b, 0, document[t].lines))
               /\ document[t].total = GetInvoice(t).invoice.total
    <3>1. t \in Invoiced /\ document[t] = Printed(t)
      BY <1>1, <2>5 DEF TypeInv, DocumentsPrinted
    <3>2. GetInvoice(t).invoice = invoices[t]
      BY <2>3, <3>1
    <3>3. /\ document[t].seq = invoices[t].seq /\ document[t].total = invoices[t].total
          /\ document[t].lines =
               <<invoices[t].subtotal>> \o
                 IF invoices[t].gst > 0 THEN <<invoices[t].gst>> ELSE <<>>
      BY <3>1 DEF Printed
    <3>4. /\ invoices[t].subtotal \in Nat /\ invoices[t].gst \in Nat
          /\ AddsUp(invoices[t].total, invoices[t].subtotal + invoices[t].gst)
      <4>1. invoices[t] \in Invoice /\ Paise \subseteq Nat
        BY <2>3, <3>1, AmountsStored
      <4> QED
        BY <2>0, <3>1, <4>1 DEF Invoice, RowsAgree
    <3> DEFINE subtotal == invoices[t].subtotal
               gst == invoices[t].gst
    <3>5. FoldSeq(LAMBDA a, b : a + b, 0, document[t].lines) = subtotal + gst
      <4>1. subtotal \in Nat /\ gst \in Nat
        BY <3>4
      <4> HIDE DEF subtotal, gst
      <4>2. CASE gst > 0
        <5>1. document[t].lines = <<subtotal>> \o <<gst>>
          BY <3>3, <4>2 DEF subtotal, gst
        <5>2. <<subtotal>> \o <<gst>> = <<subtotal, gst>>
          <6>1. <<subtotal>> \in Seq(Nat) /\ <<subtotal, gst>> = Append(<<subtotal>>, gst)
            BY <4>1
          <6> QED
            BY <4>1, <6>1, AppendIsConcat
        <5> QED
          BY <4>1, <5>1, <5>2, SumOfTwo
      <4>3. CASE ~(gst > 0)
        <5>1. document[t].lines = <<subtotal>> \o <<>>
          BY <3>3, <4>3 DEF subtotal, gst
        <5>2. <<subtotal>> \o <<>> = <<subtotal>>
          BY <4>1
        <5>3. FoldSeq(LAMBDA a, b : a + b, 0, document[t].lines) = subtotal
          BY <4>1, <5>1, <5>2, SumOfOne
        <5>4. subtotal = subtotal + gst
          BY <4>1, <4>3
        <5> QED
          BY <5>3, <5>4
      <4> QED
        BY <4>2, <4>3
    <3> QED
      BY <3>2, <3>3, <3>4, <3>5
  <2> QED
    BY <2>1, <2>4, <2>5 DEF BooksBalance
<1> QED
  BY <1>1, AlwaysTyped, PTL

-----------------------------------------------------------------------------
(* The book *)

LEMMA NextOrderly ==
  ASSUME TypeInv, OrderlyInv, [Next]_vars
  PROVE  OrderlyInv'
<1>1. CASE UNCHANGED <<req, orderly, invoices>>
  BY <1>1 DEF OrderlyInv, At, Invoiced
<1>2. ASSUME NEW r \in Requests, Call(r)
      PROVE  OrderlyInv'
  <2>1. CallShape(r)
    BY <1>2, CallShapes
  <2>2. /\ OthersSame(r) /\ (orderly' => Alone)
        /\ req'[r] # Idle =>
             ~(req'[r].op = "collectPayment" /\ req'[r].step = "commit")
    BY <2>1 DEF CallShape
  <2> QED
    BY <2>2 DEF OrderlyInv, OthersSame, Alone, At
<1>3. ASSUME NEW r \in Requests, Step(r) \/ Fail(r)
      PROVE  OrderlyInv'
  <2>1. StepShape(r)
    BY <1>3, StepShapes
  <2> SUFFICES ASSUME orderly'
               PROVE  /\ \A q, s \in Requests : req'[q] # Idle /\ req'[s] # Idle => q = s
                      /\ \A s \in Requests :
                           At(s, "collectPayment", "commit")' =>
                             req'[s].seq = Cardinality(Invoiced') + 1
    BY DEF OrderlyInv
  <2>2. orderly /\ req[r] # Idle /\ OthersSame(r)
    BY <2>1 DEF StepShape
  <2>3. \A s \in Requests \ {r} : req'[s] = Idle
    BY <2>2 DEF OrderlyInv, OthersSame
  <2>4. ASSUME At(r, "collectPayment", "commit")'
        PROVE  req'[r].seq = Cardinality(Invoiced') + 1
    <3>1. ReadCount(r) /\ req'[r].seq = Cardinality(Invoiced) + 1
      BY <2>1, <2>4 DEF StepShape, GoesOn, At
    <3>2. Invoiced' = Invoiced
      BY <3>1 DEF ReadCount, rowVars, Invoiced
    <3> QED
      BY <3>1, <3>2
  <2> QED
    BY <2>3, <2>4 DEF At
<1>4. ASSUME NEW t \in Tickets, CompleteTicket(t) \/ PdfStep(t) \/ LosePdf(t)
      PROVE  OrderlyInv'
  BY <1>1, <1>4 DEF CompleteTicket, PdfStep, UploadDocument, SavePdfUrl, LosePdf
<1>5. CASE UNCHANGED vars
  BY <1>1, <1>5 DEF vars
<1> QED
  BY <1>2, <1>3, <1>4, <1>5 DEF Next

LEMMA AlwaysOrderly == Spec => [](TypeInv /\ OrderlyInv)
<1>1. Init => TypeInv /\ OrderlyInv
  BY InitTypes DEF Init, NoRequests, OrderlyInv, At
<1>2. TypeInv /\ OrderlyInv /\ [Next]_vars => TypeInv' /\ OrderlyInv'
  BY NextTypes, NextOrderly
<1> QED
  BY <1>1, <1>2, PTL DEF Spec

\* The book counts as its keeper does: both take the operator of FiniteSets.
LEMMA BookCounts ==
  ASSUME NEW S
  PROVE  Book!Cardinality(S) = Cardinality(S)
BY DEF Book!Cardinality, Cardinality

LEMMA EntryTyped ==
  ASSUME TypeInv, NEW t \in Invoiced
  PROVE  Entry(t) \in InvoiceEntry
<1>1. invoices[t] \in Invoice /\ payments[t] \in Payment
  BY DEF TypeInv, RowsTyped, RowsAgree, Invoiced, Paid
<1> QED
  BY <1>1 DEF Entry, Invoice, InvoiceEntry

\* The entries are of the tickets that have an invoice.
LEMMA EntriesAreInvoices ==
  ASSUME TypeInv
  PROVE  Book!Entered = Invoiced
<1>1. ASSUME NEW t \in Invoiced
      PROVE  Entry(t) # NoRow
  <2>1. Entry(t) \in InvoiceEntry
    BY <1>1, EntryTyped
  <2> QED
    BY <2>1, NoRowAssumption
<1> HIDE DEF Entry
<1>2. Book!Entered = {t \in Tickets : BookOfInvoices[t] # NoRow}
  BY DEF Book!Entered
<1> QED
  BY <1>1, <1>2 DEF BookOfInvoices, Invoiced

\* collectPayment enters an invoice in the book.
LEMMA CommitEnters ==
  ASSUME TypeInv, OrderlyInv, NEW r \in Requests, Enters(r)
  PROVE  Book!Next
<1>0. PICK t : t = req[r].ticket
  OBVIOUS
<1> DEFINE seq == req[r].seq
           subtotal == Stored(req[r].amount)
           gst == GstAmount(req[r].amount, req[r].rate)
           total == Total(req[r].amount, req[r].rate)
           entry == [seq |-> seq, subtotal |-> subtotal, gst |-> gst,
                     total |-> total, verified |-> FALSE]
<1>1. /\ t \in Tickets \ Invoiced /\ req[r].amount \in Amounts /\ req[r].rate \in GstRates
      /\ payments'[t] \in Payment /\ invoices'[t] \in Invoice
      /\ payments'[t].status = "COLLECTED"
      /\ invoices'[t].seq = seq /\ invoices'[t].subtotal = subtotal
      /\ invoices'[t].gst = gst /\ invoices'[t].total = total
      /\ AddsUp(total, subtotal + gst)
      /\ \A u \in Tickets \ {t} : invoices'[u] = invoices[u] /\ payments'[u] = payments[u]
  BY <1>0, RowsInserted
<1>2. /\ req[r] # Idle /\ req[r].op = "collectPayment" /\ req[r].step = "commit"
      /\ orderly' = orderly
  BY DEF Enters, CollectPaymentCommit, At, Continue
<1>3. /\ seq \in 1..(Cardinality(Invoiced) + 1)
      /\ orderly => seq = Cardinality(Invoiced) + 1
  BY <1>2 DEF TypeInv, ReqsTyped, Holds, OrderlyInv, At
<1>4. seq \in 1..Cardinality(Tickets)
  BY <1>1, <1>3, InvoicesCounted
<1>5. /\ subtotal \in Paise /\ gst \in 0..subtotal
      /\ total \in (subtotal + gst - 1)..(subtotal + gst + 1)
  <2>0. req[r].amount \in Amounts /\ req[r].rate \in GstRates
    BY <1>1
  <2> HIDE DEF seq, subtotal, gst, total, entry
  <2>1. req[r].amount \in Nat /\ req[r].rate \in Nat /\ req[r].rate <= 10000
    BY <2>0, AmountsStored
  <2>2. subtotal \in Paise
    BY <2>0, AmountsStored DEF subtotal
  <2>3. gst \in Nat /\ subtotal \in Nat /\ gst <= subtotal
    BY <2>1, GstBounded DEF subtotal, gst
  <2>4. AddsUp(total, subtotal + gst)
    BY <1>1
  <2> QED
    BY <2>2, <2>3, <2>4 DEF AddsUp
<1> HIDE DEF seq, subtotal, gst, total
<1>6. BookOfInvoices' = [BookOfInvoices EXCEPT ![t] = entry]
  <2>1. invoices'[t] # NoRow /\ Entry(t)' = entry
    BY <1>1, NoRowAssumption DEF Entry
  <2>2. \A u \in Tickets \ {t} :
          (invoices'[u] = NoRow <=> invoices[u] = NoRow) /\ Entry(u)' = Entry(u)
    BY <1>1 DEF Entry
  <2> HIDE DEF entry, Entry
  <2> QED
    BY <1>1, <2>1, <2>2 DEF BookOfInvoices
<1>7. Book!Enter(t, seq, subtotal, gst, total)
  <2>1. Book!Entered = Invoiced
    BY EntriesAreInvoices
  <2>2. t \notin Book!Entered
    BY <1>1, <2>1
  <2>3. /\ seq \in 1..(Book!Cardinality(Book!Entered) + 1)
        /\ orderly => seq = Book!Cardinality(Book!Entered) + 1
    BY <1>3, <2>1, BookCounts
  <2>4. orderly' = orderly
    BY <1>2
  <2> HIDE DEF Book!Entered, BookOfInvoices
  <2> QED
    BY <1>5, <1>6, <2>2, <2>3, <2>4, Zenon DEF Book!Enter
<1>8. \E n \in 1..Book!Cardinality(Tickets), a \in Paise :
        \E g \in 0..a : \E sum \in (a + g - 1)..(a + g + 1) : Book!Enter(t, n, a, g, sum)
  <2>1. seq \in 1..Book!Cardinality(Tickets)
    BY <1>4, BookCounts
  <2> QED
    BY <1>1, <1>5, <1>7, <2>1, Zenon
<1> QED
  BY <1>1, <1>8, Zenon DEF Book!Next

\* verifyPayment marks an entry.
LEMMA CommitVerifies ==
  ASSUME TypeInv, NEW r \in Requests, VerifyPaymentCommit(r)
  PROVE  Book!Next
<1>0. PICK t : t = req[r].ticket
  OBVIOUS
<1>1. /\ t \in Paid /\ invoices' = invoices /\ payments'[t].status = "VERIFIED"
      /\ \A u \in Tickets \ {t} : payments'[u] = payments[u]
  BY <1>0, RowMarked
<1>2. orderly' = orderly
  BY DEF VerifyPaymentCommit, Finish
<1>3. t \in Tickets /\ t \in Invoiced
  BY <1>1 DEF TypeInv, RowsAgree, Paid
<1>4. BookOfInvoices' = [BookOfInvoices EXCEPT ![t].verified = TRUE]
  <2>1. Entry(t)' = [Entry(t) EXCEPT !.verified = TRUE]
    <3> DEFINE f == [Entry(t) EXCEPT !.verified = TRUE]
    <3>1. Entry(t) \in InvoiceEntry
      BY <1>3, EntryTyped
    <3>2. /\ Entry(t)'.seq = Entry(t).seq /\ Entry(t)'.subtotal = Entry(t).subtotal
          /\ Entry(t)'.gst = Entry(t).gst /\ Entry(t)'.total = Entry(t).total
          /\ Entry(t)'.verified = TRUE
      BY <1>1 DEF Entry
    <3>3. Entry(t)' \in InvoiceEntry
      <4>1. invoices[t] \in Invoice
        BY <1>3 DEF TypeInv, RowsTyped, Invoiced
      <4> QED
        BY <1>1, <4>1 DEF Entry, Invoice, InvoiceEntry
    <3> HIDE DEF Entry
    <3>4. /\ f \in InvoiceEntry /\ f.seq = Entry(t).seq /\ f.subtotal = Entry(t).subtotal
          /\ f.gst = Entry(t).gst /\ f.total = Entry(t).total /\ f.verified = TRUE
      BY <3>1 DEF InvoiceEntry
    <3> HIDE DEF f
    <3>5. Entry(t)' = f
      BY <3>2, <3>3, <3>4 DEF InvoiceEntry
    <3> QED
      BY <3>5 DEF f
  <2>2. \A u \in Tickets \ {t} : Entry(u)' = Entry(u)
    BY <1>1 DEF Entry
  <2> HIDE DEF Entry
  <2>3. BookOfInvoices[t] = Entry(t) /\ BookOfInvoices'[t] = Entry(t)'
    BY <1>1, <1>3 DEF BookOfInvoices, Invoiced
  <2> QED
    BY <1>1, <1>3, <2>1, <2>2, <2>3 DEF BookOfInvoices
<1>5. Book!Verify(t)
  <2>1. Book!Entered = Invoiced
    BY EntriesAreInvoices
  <2> HIDE DEF Book!Entered
  <2> QED
    BY <1>2, <1>3, <1>4, <2>1 DEF Book!Verify
<1> QED
  BY <1>3, <1>5 DEF Book!Next

\* Anything else leaves the entries, and may be a request that overlaps another.
LEMMA OthersOverlap ==
  ASSUME TypeInv, [Next]_vars, UNCHANGED <<payments, invoices>>
  PROVE  [Book!Next]_(Book!vars)
<1>1. BookOfInvoices' = BookOfInvoices
  BY DEF BookOfInvoices, Entry
<1>2. orderly' = orderly \/ orderly' = FALSE
  <2>0. orderly \in BOOLEAN
    BY DEF TypeInv, ReqsTyped
  <2>1. ASSUME NEW r \in Requests, Call(r)
        PROVE  orderly' = orderly \/ orderly' = FALSE
    BY <2>0, <2>1, CallShapes DEF CallShape
  <2>2. ASSUME NEW r \in Requests, Step(r) \/ Fail(r)
        PROVE  orderly' = orderly \/ orderly' = FALSE
    BY <2>0, <2>2, StepShapes DEF StepShape
  <2>3. ASSUME NEW t \in Tickets, CompleteTicket(t) \/ PdfStep(t) \/ LosePdf(t)
        PROVE  orderly' = orderly
    BY <2>3 DEF CompleteTicket, PdfStep, UploadDocument, SavePdfUrl, LosePdf
  <2>4. CASE UNCHANGED vars
    BY <2>4 DEF vars
  <2> QED
    BY <2>1, <2>2, <2>3, <2>4 DEF Next
<1>3. CASE orderly' = orderly
  BY <1>1, <1>3 DEF Book!vars
<1>4. CASE orderly' = FALSE
  BY <1>1, <1>4 DEF Book!Next, Book!Overlap
<1> QED
  BY <1>2, <1>3, <1>4

\* The service keeps the book of module InvoiceBook: collectPayment enters, with
\* the number it counted, verifyPayment marks, and nothing else writes in it.
THEOREM BookIsKept == Spec => ImplementsBook
<1>1. Init => Book!Init
  <2> SUFFICES ASSUME Init
               PROVE  Book!Init
    OBVIOUS
  <2>1. BookOfInvoices = [t \in Tickets |-> NoRow]
    BY DEF Init, BookOfInvoices
  <2> QED
    BY <2>1 DEF Init, Book!Init
<1>2. TypeInv /\ OrderlyInv /\ [Next]_vars => [Book!Next]_(Book!vars)
  BY RowsChange, CommitEnters, CommitVerifies, OthersOverlap
<1> QED
  BY <1>1, <1>2, AlwaysOrderly, PTL DEF Spec, ImplementsBook, Book!Spec
=============================================================================
