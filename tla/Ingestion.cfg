CONSTANTS
    Procs = {p1, p2}
    OptionSets <- MCOptionSets
    NoProc = NoProc
    MaxLaunches = 2
    MaxStarts = 2
    MaxFaults = 1
SPECIFICATION Spec
CHECK_DEADLOCK FALSE
INVARIANTS OneWorks LogIsTrue ExitMatchesLog
PROPERTIES LockIsReturned
