SPECIFICATION FairSpec
CONSTANTS
    Item <- TwoItems
    Char <- OneChar
    NoChar = NoChar
    c1 = c1
    c2 = c2
    Ops <- CalmOps
    MaxOps = 4
PROPERTIES Settles
