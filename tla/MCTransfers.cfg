SPECIFICATION Spec
CONSTANTS
    t1 = t1
    t2 = t2
    Threads = {t1, t2}
    Scenarios <- MCScenarios
    Account = {1, 2}
    MaxTransfers = 3
    MaxCompleted = 2
INVARIANTS
    PrintedTagIsItsOwn
PROPERTIES
    ForegroundReports
    ListIsComplete
    TransferCommandsEnd
