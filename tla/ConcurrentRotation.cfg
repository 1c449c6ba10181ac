SPECIFICATION Spec
CONSTANTS
    n1 = n1
    o1 = o1
    Devices = {d1}
    Links = {}
    Networks = {n1}
    Locations = {o1}
    NetworkOf <- MCNetworkOf
    LocationOf <- MCLocationOf
    LinkFrom <- MCLinkFrom
    LinkTo <- MCLinkTo
    Passwords = {p1, p2}
    Psks = {k1}
    Requests = {r1, r2}
    None = None
    MaxImports = 1
    CarefulBootstrap = FALSE
INVARIANT TypeOK
PROPERTY RotationKeepsValues
PROPERTY SuccessReencrypts
SYMMETRY Interchangeable
VIEW WithoutHistory
