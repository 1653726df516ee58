SPECIFICATION Spec
CONSTANTS
    pic1 = pic1
    pic2 = pic2
    s1 = s1
    s2 = s2
    s3 = s3
    t1 = t1
    t2 = t2
    v1 = v1
    v2 = v2
    w1 = w1
    Left = Left
    Right = Right
    Vault = Vault
    Attic = Attic
    none = none
    foreign = foreign
    None <- none
    Other <- foreign
    Homes <- Vaults
    Root <- Roots
    Captures <- AllCaptures
    Paths <- AllPaths
    RootOf <- Places
    NameOf <- SourceNames
    TokenOf <- Tokens
    ByteCopy <- Copies
    Budgets <- Scenarios
CHECK_DEADLOCK FALSE
INVARIANTS VerdictsTrue PrintFollows AssetFollows
