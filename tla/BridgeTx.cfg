SPECIFICATION Spec
CONSTANTS
    Assets = {1, 2, 3}
    AstDepth = 2
    NoteBatch = 2
    Modulus = 4
    None = None
    DefaultPk = DefaultPk
    Me = Me
    Subpool = Subpool
    SpendSk = SpendSk
    ConsumeSk = ConsumeSk
    WrongSk = WrongSk
    ApprovalSks = {A1, A2}
    FakeKey = FakeKey
    EthAddrs = {E1, E2}
    WithdrawAmounts = {0, 1}
    Depositor = E1
    MaxTx = 2
    MaxProofs = 2
    MaxDeposits = 1
    MaxOutside = 1
CHECK_DEADLOCK FALSE
INVARIANTS ProvesUnlessExplained PaddingAlwaysProves OneLiveState EscrowIsBalanceAndPending
PROPERTIES OwnerAuthorisesBridge
