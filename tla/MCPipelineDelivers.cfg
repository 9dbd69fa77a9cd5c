SPECIFICATION Spec
CONSTANTS
    MaxRuns = 3
INVARIANTS
    ToolsSufficeToDeliver
CHECK_DEADLOCK FALSE
