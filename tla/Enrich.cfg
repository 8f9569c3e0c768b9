\* One artist, one event, one worker: the pipeline, a retry and a refresh job
\* meet on the same tags, and edits come between any two of their steps.
SPECIFICATION Spec
CONSTANTS
    a1 = a1  e1 = e1  w1 = w1  None = None
    Artists = {a1}  Events = {e1}  Workers = {w1}
    Lineup <- MCLineup
    MaxIncidents = 2
INVARIANTS  NothingIsForgotten
PROPERTIES RunsRepair
CHECK_DEADLOCK FALSE
