SPECIFICATION FairSyncSpec
CONSTANTS
  u1 = u1
  n1 = n1
  Users = {u1}
  Operators = {op}
  ZeroAddress = zero
  Verifiers = {v}
  Provable <- ProvableAll
  Tokens = {usd}
  AssetIds = {}
  LimbBase = 4
  SubpoolIds = {}
  SubpoolRootVals = {}
  ConfigTreeDepth = 1
  TreeDepth = 2
  NoteComms = {}
  MaxAmounts = {2}
  Fees = {0}
  Delays = {0}
  TxBodies <- TwoTx
  BridgeBodies <- NoBodies
  MaxBlock = 4
  MaxSubmissions = 2
  Rebatching = FALSE
  FailPhases <- BeforeConfirm
  MaxFailures = 1
  MaxRestarts = 1
INVARIANTS MirrorIsPrefix IdleBatchesExact IdleNullifiersExact
PROPERTIES CatchesUp
CHECK_DEADLOCK FALSE
