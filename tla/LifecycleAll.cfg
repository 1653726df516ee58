SPECIFICATION Spec
CONSTANTS
    Item <- OneItem
    Char <- TwoChars
    NoChar = NoChar
    c1 = c1
    c2 = c2
    Ops <- AllOps
    MaxOps = 6
INVARIANTS ArchiveHoldsRow ClaimHeld AnnotationOriginal
PROPERTIES ResetOnlyPreviewed
