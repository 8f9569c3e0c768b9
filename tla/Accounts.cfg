SPECIFICATION SpecAccounts
CONSTANTS
    root = root  second = second  u1 = u1  u2 = u2  a1 = a1
    Users = {root, second, u1, u2}
    FirstAdmins = {root, second}
    Artists = {a1}
    None = None
    MaxReady = 1
INVARIANTS OneHolderPerArtist AccountMatchesClaim SomeAdminRemains
PROPERTIES ImplementsOwnership
SYMMETRY MCSymmetry
