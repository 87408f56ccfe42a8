SPECIFICATION Spec
CONSTANTS
    Assets = {1}
    AstDepth = 1
    NoteBatch = 3
    Modulus = 3
    None = None
    DefaultPk = DefaultPk
    Me = Me
    Other = Other
    Subpool = Subpool
    SpendSk = SpendSk
    ConsumeSk = ConsumeSk
    ApprovalSks = {A1, A2}
    FakeKey = FakeKey
    OutAmounts = {1}
    MaxNotes = 4
    MaxTx = 2
    MaxProofs = 2
    MaxOutside = 1
CHECK_DEADLOCK FALSE
INVARIANTS ProvesUnlessExplained PaddingAlwaysProves OneLiveState MapIndexesLeaves
PROPERTIES ValueLeavesOnlyByNotes OwnerAuthorises
