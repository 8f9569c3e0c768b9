\* Two workers compete for the rows of one client; one fault may strike anywhere.
SPECIFICATION FairSpec
CONSTANTS
    w1 = w1  w2 = w2  c1 = c1  c2 = c2  a1 = a1
    Workers = {w1, w2}
    Clients = {c1}
    Users <- MCUser
    Admins <- MCNobody
    Artists = {a1}
    Owns <- OneOwner
    Params = {"default"}
    DefaultParams = "default"
    None = None
    MaxJobs = 2
    MaxRequests = 2
    Operations = {"post", "change"}
    MaxFaults = 1
INVARIANTS ClaimIsExclusive
PROPERTIES QueuedIsClaimed JobIsDecided TerminalIsFinal ShownNeverRegresses
\* Idle workers sleep in LISTEN and no request is due.
CHECK_DEADLOCK FALSE
