SPECIFICATION Spec
CONSTANTS
  u1 = u1
  u2 = u2
  n1 = n1
  n2 = n2
  Users = {u1}
  Operators = {op}
  ZeroAddress = zero
  Verifiers = {v}
  Provable <- ProvableAll
  Tokens = {usd, eur}
  AssetIds = {1, 5}
  LimbBase = 4
  SubpoolIds = {}
  SubpoolRootVals = {}
  ConfigTreeDepth = 1
  TreeDepth = 2
  NoteComms = {n1, n2}
  MaxAmounts = {2}
  Fees = {0, 1}
  Delays = {1}
  TxBodies <- NoBodies
  BridgeBodies <- EscrowBridge
  MaxBlock = 2
  MaxSubmissions = 3
INVARIANTS DepositCreditedOnce EscrowBacksClaims
PROPERTIES DepositLifecycle
