SPECIFICATION MCSpec
CONSTANTS
    None = none
    Loop = loop
    Empty = empty
    Scenes = scenes
    Background = background
    Everyone = everyone
    MaxNow = 1
    Text <- Texts
    Foreign <- Foreigns
    Editor <- Editors
    NoteBudgets <- OfNotes
    Item <- Items
    Char <- Chars
    Dir <- Dirs
    Users <- User
    ManifestBudgets <- OfManifests
    Project <- Projects
    Client <- Calls
    BridgeBudgets <- OfBridge
    Game <- Games
    Outer <- outer
    Name <- Names
    Image <- Images
    Caller <- Calls
    MetaBudgets <- OfMetadata
    e1 = e1
    e2 = e2
    text1 = text1
    text2 = text2
    foreign1 = foreign1
    foreign2 = foreign2
    i1 = i1
    i2 = i2
    ann = ann
    bob = bob
    dir1 = dir1
    dir2 = dir2
    user = user
    game1 = game1
    game2 = game2
    call1 = call1
    call2 = call2
    inner = inner
    outer = outer
    shot = shot
    view1 = view1
    view2 = view2
SYMMETRY Renaming
CHECK_DEADLOCK FALSE
INVARIANTS NothingLost ManifestTrue BridgeOwned
PROPERTIES UninstallExact SidecarsExact
