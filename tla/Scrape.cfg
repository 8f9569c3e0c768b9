CONSTANTS
    e1 = e1
    e2 = e2
    a1 = a1
    Events = {e1, e2}
    Years = {2025, 2026}
    Dates <- MCDates
    Chunks <- MCChunks
    Legacy = {e2}
    Complete = {}
    Options <- MCOptions
    Attempts = 3
    CheckpointEvery = 2
    MaxRuns = 2
    MaxFaults = 1
    Artists = {a1}
    LineUp <- MCLineUp
    NoList = NoList
    BioCheckpointEvery = 2
SPECIFICATION Spec
CHECK_DEADLOCK FALSE
INVARIANTS ExitIsComplete
PROPERTIES NothingVanishes ListMatchesArchive SettledStays ScrapeEnds
