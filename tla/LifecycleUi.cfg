SPECIFICATION Spec
CONSTANTS
    Item <- OneItem
    Char <- TwoChars
    NoChar = NoChar
    c1 = c1
    c2 = c2
    Ops <- UiOps
    MaxOps = 7
INVARIANTS AnnotationNamesCharacter ProcessingOwned
