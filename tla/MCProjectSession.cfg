SPECIFICATION Spec
CONSTANTS
    Jobs = {j1, j2}
    MaxCheckpoint = 1
    Procs = {p1, p2}
    Nonces = {n1, n2}
    None = None
    HoldLock = {TRUE}
INVARIANTS
    TypeOK
    RecoverySparesLiveJobs
    NoJobLeftRunning
    RowsHaveTimes
PROPERTIES
    RowsFollowMachine
    CheckpointsSurvive
CHECK_DEADLOCK FALSE
