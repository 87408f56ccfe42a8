SPECIFICATION TreesSpec
CONSTANTS
    Depth = 3
    Zero = Zero
    LeafVals = {Zero, a, b}
    BatchSizes = {0, 1, 2, 3, 4}
INVARIANTS RootsNeverRepeat MirrorRootConfirmed PathsBindAndUpdate
PROPERTIES AppendLeafIsVector RootIsVectorRoot
\* A full contract tree takes no more leaves.
CHECK_DEADLOCK FALSE
