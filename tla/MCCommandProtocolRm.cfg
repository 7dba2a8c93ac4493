SPECIFICATION Spec
CONSTANTS
    a = a
    b = b
    long = long
    Nodes = {a, b, long}
    Folders = {a, long}
    Filling = {long}
    Commands <- MCCommands
    MayDie = FALSE
    MayCrash = FALSE
INVARIANTS
    FoldersAreConfirmed
CHECK_DEADLOCK FALSE
