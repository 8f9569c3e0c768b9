\* Two dates, a worker and two launchers, with a crash and a change of the source.
SPECIFICATION FairSpec
CONSTANTS
    w1 = w1
    w2 = w2
    l1 = l1
    l2 = l2
    None = None
    Workers = {w1}
    Launchers = {l1, l2}
    LastDate = 2
    Ranges <- MCRanges
    MaxAttempts = 2
    MaxBackfills = 2
    Gaps = {2}
    MaxRuns = 2
    MaxCommands = 2
    MaxNews = 1
    MaxCrashes = 1
    MaxErrors = 1
    MaxLosses = 1
    MaxFailures = 3
    MaxEvents = 3
INVARIANTS SucceededIsCovered CompleteIsConfirmed BackfillsAreBounded
PROPERTIES RunIsDecided
CHECK_DEADLOCK FALSE
