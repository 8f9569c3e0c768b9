\* A lock session is lost: two processes execute the same run; a fault strikes as well.
SPECIFICATION FairSpec
CONSTANTS
    w1 = w1
    d1 = d1
    None = None
    AutoDate = AutoDate
    Workers = {w1}
    Dailies = {d1}
    LastDate = 2
    Today = 2
    Requests <- MCNoRequest
    DailyRequest <- GapOnly
    AuditChunk = 1
    PipelineChunk = 2
    MaxAttempts = 1
    Gaps = {1}
    Unreliable = {"pipeline"}
    MaxRuns = 1
    MaxSubmits = 1
    MaxChanges = 0
    MaxFaults = 1
    MaxLosses = 1
PROPERTIES SuccessWasTrue RunIsDecided RunSucceeds
