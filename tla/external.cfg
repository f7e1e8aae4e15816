CONSTANTS
  m1 = m1
  m2 = m2
  NoMsg = NoMsg
  Query = {1}
  Jetton = {}
  Addr = {"a", "b", "cold"}
  Cold = "cold"
  Deposits = {"a", "b"}
  Owners = {"b"}
  Msg = {m1, m2}
  Lag = 2
  Lifetime = 1
  ExpireDelay = 2
  BlockGap = 1
  Skew = 1
  MaxTime = 5
SYMMETRY MsgSymmetry
SPECIFICATION Spec
INVARIANTS TypeOK NoDoublePayment FatalOnlyForOwner StatusTruthful OneSettledRow RetryIsExclusive
PROPERTIES FinalStatusIsFinal ImplementsLedger
