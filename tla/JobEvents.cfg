SPECIFICATION Spec
CONSTANTS
    t1 = t1
    Tabs <- MCTabs
    MaxJobs = 1
    MaxRequests = 2
    MaxFaults = 2
INVARIANTS SignalIsUnderWay
PROPERTIES ImplementsPanel VerdictIsShown
CHECK_DEADLOCK FALSE
