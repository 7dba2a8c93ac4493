SPECIFICATION RotationSpec
CONSTANTS
    Setups <- MCAllSetups
    MaxFilesToKeep = 2
    MaxFileAge = 3
    MaxGenerations = 7
    MaxFaults = 1
INVARIANTS
    NoGenerationLost
    ExpiredOnlyByLimits
    ExitCompressesAll
CHECK_DEADLOCK FALSE
