\* One request at a time on one completed ticket.
SPECIFICATION Spec
CONSTANTS
  Tickets = {t1}
  Customers = {c1}
  CustomerOf <- MCCustomerOf
  Amounts = {1005}
  InspectionCharge = 150
  GstRates = {0, 1800}
  FallsShort <- MCFallsShort
  ListCap = 1
  NoRow = NoRow
  Requests = {r1}
INVARIANTS
  InspectionChargeCovered
