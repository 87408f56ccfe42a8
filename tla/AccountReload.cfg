SPECIFICATION Spec
CONSTANTS
    Assets = {1, 2}
    Amounts = {0, 1}
    AstDepth = 2
    NoRow = NoRow
INVARIANTS SavedAstReloads
