\* The runner stops logging when the deployment is over.
CHECK_DEADLOCK FALSE
SPECIFICATION LiveSpec
CONSTANTS
    Buffer = 2
    HistoryLimit = 3
    MaxLines = 5
    MaxUnsaved = 1
    MaxBreaks = 2
INVARIANTS
    NeverRepeatsOrReorders
    NoSilentGap
PROPERTY
    EveryLineArrives
