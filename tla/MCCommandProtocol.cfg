SPECIFICATION FairSpec
CONSTANTS
    a = a
    b = b
    long = long
    Nodes = {a, b, long}
    Folders = {a, long}
    Filling = {long}
    Commands <- MCCommands
    MayDie = TRUE
    MayCrash = TRUE
INVARIANTS
    OutputInOrder
    ResultDelivered
    UserDecides
PROPERTIES
    CommandEnds
CHECK_DEADLOCK FALSE
