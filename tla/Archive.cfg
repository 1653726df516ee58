SPECIFICATION Spec
CONSTANTS
    Item <- TwoItems
    Name <- TwoNames
    Content <- Contents
    Outputs <- Images
    Edits <- OwnEdits
    None = None
    i1 = i1
    i2 = i2
    n1 = n1
    n2 = n2
    x = x
    y = y
    z = z
    Ops <- AllOps
    MaxOps = 2
    Concurrent = FALSE
INVARIANTS CompletedIntact
PROPERTIES OnlyRecordedReplaced NewBeforeOld
CHECK_DEADLOCK FALSE
SYMMETRY Alike
