SPECIFICATION Spec
CONSTANTS
    i1 = i1
    i2 = i2
    a = a
    b = b
    w = w
    u1 = u1
    u2 = u2
    sface = sface
    arcface = arcface
    none = none
    None <- none
    Worker <- w
    Char <- Characters
    Item <- Captures
    Proc <- Procs
    Models <- Recognizers
    Budgets <- Scenarios
SYMMETRY Renaming
CHECK_DEADLOCK FALSE
INVARIANTS SampleMatches SuggestsOther RegionCurrent DoubtExcludes
