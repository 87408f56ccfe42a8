SPECIFICATION MCSpec
CONSTANTS
  p = p
  q = q
  a = a
  b = b
  c = c
  Pools = {p, q}
  Accounts = {a, b, c}
  Registrants = {a, b}
  Home <- HomeOf
  Assets = {"X", "Y", "Z"}
  DefaultAsset = "Z"
  AstDepth = 1
  Deposits <- AllDeposits
  Spends <- AllSpends
  ValueBits = 3
  AccountLoads = {TRUE, FALSE}
  NoRow = NoRow
  MaxFaults = 1
INVARIANTS LedgerBalances SpentStatesAreSequenced CreditsHaveOwnTx SentNotesAccountedFor
PROPERTIES MailboxDrains
