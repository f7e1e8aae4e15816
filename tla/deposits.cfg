CONSTANTS
  h1 = h1
  h2 = h2
  Handler = {h1, h2}
  DefaultSubwallet = 0
  MaxId = 3
  TonInShard = {2}
  JettonInShard = {1, 2}
  MaxBlock = 3
  MaxPerBlock = 1
  MaxRestarts = 1
SYMMETRY HandlerSymmetry
SPECIFICATION Spec
INVARIANTS TypeOK ChosenIdIsFree PaymentsRecorded NoFatal
