SPECIFICATION Spec
CONSTANTS
    Jobs = {j1, j2}
    NoJob = NoJob
    MaxSubmits = 3
    MaxCancels = 2
    MaxResults = 2
INVARIANTS
    TypeOK
    Serialised
    ActiveIsSomewhere
PROPERTIES
    ResultAnswersSubmission
    CancelledOnRequest
    WaitReturns
