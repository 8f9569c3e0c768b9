\* The daily ingestion, the worker and an operator under failures, a change and a fault.
SPECIFICATION Spec
CONSTANTS
    w1 = w1
    d1 = d1
    None = None
    AutoDate = AutoDate
    Workers = {w1}
    Dailies = {d1}
    LastDate = 3
    Today = 2
    Requests <- MCAuto
    DailyRequest <- LongGapOnly
    AuditChunk = 3
    PipelineChunk = 2
    MaxAttempts = 2
    Gaps = {3}
    Unreliable = {"pipeline", "source"}
    MaxRuns = 2
    MaxSubmits = 2
    MaxChanges = 1
    MaxFaults = 1
    MaxLosses = 0
INVARIANTS SucceededIsComplete
PROPERTIES VerdictIsFinal
