SPECIFICATION Spec
CONSTANTS
  u1 = u1
  u2 = u2
  n1 = n1
  n2 = n2
  Users = {u1}
  Operators = {op1}
  ZeroAddress = zero
  Verifiers = {v1, v2}
  Provable <- ProvableFirst
  Tokens = {usd}
  AssetIds = {1}
  LimbBase = 4
  SubpoolIds = {1, 2, 3}
  SubpoolRootVals = {0, 7}
  ConfigTreeDepth = 1
  TreeDepth = 1
  NoteComms = {n1}
  MaxAmounts = {2}
  Fees = {0}
  Delays = {0}
  TxBodies <- SpendTx
  BridgeBodies <- SpendBridge
  MaxBlock = 1
  MaxSubmissions = 2
INVARIANT TypeOK NoDoubleSpend LeafFollowsItsRoot ConfigLeavesCurrent
