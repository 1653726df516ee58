SPECIFICATION Spec
CONSTANTS
    x = x
    y = y
    A = A
    B = B
    a1 = a1
    a2 = a2
    none = none
    None <- none
    Path <- Paths
    Whole <- Wholes
    Half <- Growing
    Dirs <- Directories
    Pass <- Passes
    Budgets <- Scenarios
    MaxNow = 2
    Rounding = 1
    Tolerance = 1
SYMMETRY Renaming
CHECK_DEADLOCK FALSE
INVARIANT WholeOnly
PROPERTIES NoneAfterEnd RemovedBefore OldWaits CheckTells
