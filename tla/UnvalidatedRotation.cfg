SPECIFICATION Spec
CONSTANTS
    n1 = n1
    o1 = o1
    Devices = {d1, d2}
    Links = {l1}
    Networks = {n1}
    Locations = {o1}
    NetworkOf <- MCNetworkOf
    LocationOf <- MCLocationOf
    LinkFrom <- MCLinkFrom
    LinkTo <- MCLinkTo
    Passwords = {p1, p2, p3}
    Psks = {k1}
    Requests = {r1}
    None = None
    MaxImports = 0
    CarefulBootstrap = TRUE
PROPERTY SuccessMeansNewPassword
