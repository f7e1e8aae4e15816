CONSTANTS
  WordBits = 4
  ShardBits = 2
  Shard = 1
  Notificators = 1
  NoBlock = NoBlock
  MaxSeqno = 2
  MaxMaster = 4
  MaxRestarts = 2
SPECIFICATION FairSpec
INVARIANTS TypeOK SavedIsLineage SuitableCoversShard NotifiedAtMostOnce
PROPERTY CatchesUp
CHECK_DEADLOCK FALSE
