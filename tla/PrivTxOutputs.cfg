SPECIFICATION Spec
CONSTANTS
    Assets = {1}
    AstDepth = 1
    NoteBatch = 3
    Modulus = 3
    None = None
    DefaultPk = DefaultPk
    Me = Me
    Other = Other
    Subpool = Subpool
    SpendSk = SpendSk
    ConsumeSk = ConsumeSk
    ApprovalSks = {A1, A2}
    FakeKey = FakeKey
    OutAmounts = {1}
    MaxNotes = 1
    MaxTx = 1
    MaxProofs = 1
    MaxOutside = 1
CHECK_DEADLOCK FALSE
INVARIANT EffectiveOutputsPublished
