\* The processor and an admin read the dashboard before either has marked the
\* order: it is confirmed once and paid twice.
SPECIFICATION Spec
CONSTANTS
  alice = alice
  Members = {alice}
  Payments = {p1}
  PayerOf <- Payer
  Price <- Prices
  Workers = {w1}
  Processors = {auto, admin}
  AutoPayout = auto
  MaxOrders = 1
  MaxConfirms = 1
  MaxCrashes = 0
  MaxLost = 0
INVARIANTS
  ConfirmedPaidOnce
CHECK_DEADLOCK FALSE
