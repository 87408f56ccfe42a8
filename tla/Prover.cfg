SPECIFICATION ProverSpec
CONSTANTS
  NOTE_BATCH = 7
  Arity = 2
  TxDepth = 1
  PairDepth = 3
  StateRoots = {r1}
  ConfigRoots = {c1, c2}
  MaxRepeats = 1
  MaxCrashes = 1
  MaxServed = 2
INVARIANTS FinalizedBatchProves ContractReadsBatch CommittedLeavesOpen ServedProofsVerify
PROPERTIES SetupCompletesOrSticks
CHECK_DEADLOCK FALSE
