\* Requests of an owner, an admin and the scheduler race a biography refresh and one fault.
SPECIFICATION FairSpec
CONSTANTS
    w1 = w1  w2 = w2  c1 = c1  c2 = c2  a1 = a1
    Workers = {w1}
    Clients = {c1, c2}
    Users <- MCUsers
    Admins <- MCAdmins
    Artists = {a1}
    Owns <- OneOwner
    Params = {"default"}
    DefaultParams = "default"
    None = None
    MaxJobs = 3
    MaxRequests = 2
    Operations = {"post", "change", "feedback", "schedule", "biography"}
    MaxFaults = 1
INVARIANTS OneActivePerKey
PROPERTIES ImplementsLedger RequestEnds
\* Idle workers sleep in LISTEN and no request is due.
CHECK_DEADLOCK FALSE
