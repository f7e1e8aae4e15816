CONSTANTS
  m1 = m1
  m2 = m2
  Deposit = {"d"}
  Memo = {m1, m2}
  WithdrawalCutoff = 0
  Lag = 1
  Lifetime = 1
  ExpireDelay = 2
  BlockGap = 1
  ViewLag = 1
  MaxTime = 4
  MaxTx = 5
SYMMETRY MemoSymmetry
SPECIFICATION Spec
INVARIANTS TypeOK NoOwnFatal OnePending AmountsAgree NothingStranded
