SPECIFICATION Spec
CONSTANTS
    Keys = {a1, a2}
    Deks = {e1, e2}
    Psks = {k1}
    Network = net
    Location = loc
    Links = {}
    Requests = {r1, r2}
    Births = {"dek"}
    None = None
SYMMETRY Symmetry
INVARIANT WrapsOpen
INVARIANT HandedOutKeysWork
