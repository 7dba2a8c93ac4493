SPECIFICATION TreeSpec
CONSTANTS
    t1 = t1
    t2 = t2
    Threads = {t1, t2}
    Scripts <- MCScripts
    MaxNodes = 11
    InitialTree <- MCTree
    MaxFaults = 2
INVARIANTS
    LsListsMatches
PROPERTIES
    ReplacedOnlyByArrival
    RemovesOnlyWhatWasAgreed
    LastVersionsSurvive
