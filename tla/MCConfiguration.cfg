SPECIFICATION Spec
CONSTANTS
    t1 = t1
    t2 = t2
    a = a
    b = b
    Threads = {t1, t2}
    Startup = t1
    Free = free
    Scripts <- MCScripts
    Paths = {a, b}
    Legacy = {s1, s2}
    Invalid = 9
    MaxFailures = 1
SYMMETRY MCSymmetry
INVARIANTS
    SavedIsRunning
    BackupsAgree
PROPERTIES
    ImplementsStore
    LocationsSurvive
