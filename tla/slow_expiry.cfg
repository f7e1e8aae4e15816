CONSTANTS
  m1 = m1
  m2 = m2
  NoMsg = NoMsg
  Query = {1}
  Jetton = {}
  Addr = {"a", "cold"}
  Cold = "cold"
  Deposits = {"a"}
  Owners = {}
  Msg = {m1, m2}
  Lag = 2
  Lifetime = 1
  ExpireDelay = 3
  BlockGap = 1
  Skew = 1
  MaxTime = 5
SYMMETRY MsgSymmetry
SPECIFICATION Spec
INVARIANT FatalOnlyForOwner
