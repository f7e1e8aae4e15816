CONSTANTS
  m1 = m1
  m2 = m2
  NoMemo = NoMemo
  Deposit = {"d"}
  Memo = {m1, m2}
  MinWithdrawal = 0
  Lag = 1
  Lifetime = 2
  SendDelay = 2
  ExpireDelay = 1
  BlockGap = 1
  MaxTime = 5
  MaxTx = 4
SYMMETRY MemoSymmetry
SPECIFICATION Spec
INVARIANTS TypeOK NoFatal OnePending AmountsAgree NothingStranded
