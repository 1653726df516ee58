SPECIFICATION EngineSpec
CONSTANTS
    Request <- Requests
    None <- none
    Health <- health
    Budgets <- Faults
    Item <- Items
    Task <- Tasks
    NoOne <- none
    Trusted = 1
    RepairBudgets <- Disturbances
    r1 = r1
    r2 = r2
    i1 = i1
    i2 = i2
    t1 = t1
    t2 = t2
    none = none
    health = health
CHECK_DEADLOCK FALSE
INVARIANTS OwnAnswer PermanentOnlyIfMissing NoWorkerAfterShutdown OneJob CountsExact
PROPERTIES RequestsEnd
