CONSTANTS
  MaxQuery = 2
  Jetton = {"usd"}
  Owner = {1, 2}
  Dest = {2, 3}
  Cold = 4
  MaxAmount = 1
  MaxBalance <- MCMaxBalance
  Fee = 1
  HotWalletMax <- MCHotWalletMax
  Residual <- MCResidual
  Limit = 1
  Lifetime = 1
  Period = 3
  ViewLag = 1
  MaxTime = 6
SPECIFICATION Spec
INVARIANTS TypeOK BatchCovered RecipientsDistinct NobodyPassedOver ResidualLeft
CHECK_DEADLOCK FALSE
