CONSTANTS
  Kind = {"notified", "silent", "sweep", "service", "failed", "other"}
  Amount = {1, 2}
  MaxTx = 4
SPECIFICATION Spec
INVARIANTS TypeOK IncomesExact EveryPaymentHasRow
CHECK_DEADLOCK FALSE
