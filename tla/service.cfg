CONSTANTS
  MaxRequests = 2
  Deposit = {1, 2}
  Proxy = {3}
  Master = {"usd"}
  NoMaster = NoMaster
  HotLimit = 2
  DepositLimit = 1
  MaxJettons = 1
  MaxRestarts = 1
SPECIFICATION FairSpec
INVARIANTS TypeOK WithdrawnAtMostOnce RequestsAccountedFor TransferCovered
PROPERTY NotStarved
