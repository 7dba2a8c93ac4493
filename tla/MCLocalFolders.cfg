SPECIFICATION FoldersSpec
CONSTANTS
    c1 = c1
    c2 = c2
    Clients = {c1, c2}
    Scenarios <- MCScenarios
    MaxSyncs = 2
    MaxMounts = 2
INVARIANTS
    FiltersAsTold
    OkMeansDone
PROPERTIES
    SyncsChangeAsNamed
CHECK_DEADLOCK FALSE
