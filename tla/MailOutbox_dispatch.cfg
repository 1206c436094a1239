\* Two deliveries sent side by side by two processes, one of which may die.
SPECIFICATION MailSpec
CONSTANTS
  Deliveries = {d1, d2}
  Workers = {w1, w2}
  Lasting = {w1}
  NoWorker = NoWorker
  MaxAttempts = 2
INVARIANTS
  DeliveriesAreTrue
PROPERTIES
  DeliveriesSettle
\* Every mail is settled in the end.
CHECK_DEADLOCK FALSE
