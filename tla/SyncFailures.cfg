SPECIFICATION SyncSpec
CONSTANTS
  u1 = u1
  n1 = n1
  Users = {u1}
  Operators = {op}
  ZeroAddress = zero
  Verifiers = {v}
  Provable <- ProvableAll
  Tokens = {usd}
  AssetIds = {1}
  LimbBase = 4
  SubpoolIds = {1}
  SubpoolRootVals = {7}
  ConfigTreeDepth = 1
  TreeDepth = 1
  NoteComms = {n1}
  MaxAmounts = {2}
  Fees = {0}
  Delays = {0}
  TxBodies <- NoBodies
  BridgeBodies <- OneBridge
  MaxBlock = 3
  MaxSubmissions = 2
  Rebatching = TRUE
  FailPhases <- AnyPhase
  MaxFailures = 2
  MaxRestarts = 1
INVARIANTS ConfirmedIsOnChain DepositsExact QuietConfigExact
CHECK_DEADLOCK FALSE
