SPECIFICATION SyncSpec
CONSTANTS
  u1 = u1
  n1 = n1
  Users = {u1}
  Operators = {op}
  ZeroAddress = zero
  Verifiers = {v}
  Provable <- ProvableAll
  Tokens = {usd}
  AssetIds = {}
  LimbBase = 4
  SubpoolIds = {}
  SubpoolRootVals = {}
  ConfigTreeDepth = 1
  TreeDepth = 2
  NoteComms = {}
  MaxAmounts = {2}
  Fees = {0}
  Delays = {0}
  TxBodies <- OneTx
  BridgeBodies <- NoBodies
  MaxBlock = 3
  MaxSubmissions = 2
  Rebatching = FALSE
  FailPhases <- AnyPhase
  MaxFailures = 1
  MaxRestarts = 1
INVARIANTS MirrorIsPrefix
CHECK_DEADLOCK FALSE
