\* Two requests at a time on two completed tickets, with failures.
SPECIFICATION Spec
CONSTANTS
  Tickets = {t1, t2}
  Customers = {c1, c2}
  CustomerOf <- MCCustomerOf
  Amounts = {1005}
  InspectionCharge = 150
  GstRates = {0, 1800}
  FallsShort <- MCFallsShort
  ListCap = 1
  NoRow = NoRow
  Requests = {r1, r2}
INVARIANTS
  TypeOK
  BooksBalance
PROPERTIES
  ImplementsBook
  PdfFollows
