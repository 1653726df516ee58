SPECIFICATION Spec
CONSTANTS
    i1 = i1
    i2 = i2
    j1 = j1
    j2 = j2
    s1 = s1
    s2 = s2
    d1 = d1
    d2 = d2
    c1 = c1
    t1 = t1
    old = old
    img = img
    new = new
    own = own
    none = none
    None <- none
    Edits <- OwnEdits
    Content <- Contents
    Fresh <- FreshOnly
    Network <- NetPaths
    CacheRoots <- Cached
    Item <- Items
    Job <- Jobs
    Path <- Paths
    MaxJobs = 1
    Budgets <- Scenarios
CHECK_DEADLOCK FALSE
INVARIANTS ArchiveTruth RunningRegistered
PROPERTIES RemovesOnlyPreviewed OthersFilesKept
