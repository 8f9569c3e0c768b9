\* A worker that crashed restarts before the reclaim window has passed.
SPECIFICATION FairSpec
CONSTANTS
    w1 = w1  w2 = w2  c1 = c1  c2 = c2  a1 = a1
    Workers = {w1}
    Clients = {c1}
    Users <- MCUser
    Admins <- MCNobody
    Artists = {a1}
    Owns <- OneOwner
    Params = {"default"}
    DefaultParams = "default"
    None = None
    MaxJobs = 1
    MaxRequests = 1
    Operations = {"post"}
    MaxFaults = 1
PROPERTIES RunningIsRecovered
\* Idle workers sleep in LISTEN and no request is due.
CHECK_DEADLOCK FALSE
