CONSTANTS
  Kind = {"notified", "silent", "own", "sweep"}
  Amount = {1, 2}
  MaxTx = 3
SPECIFICATION Spec
INVARIANT IncomesExact
CHECK_DEADLOCK FALSE
