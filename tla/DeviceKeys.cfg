SPECIFICATION Spec
CONSTANTS
    Keys = {a1, a2, a3}
    Deks = {e1, e2}
    Psks = {k1, k2}
    Network = net
    Location = loc
    Links = {l1}
    Requests = {r1}
    Births = {"legacy", "dek"}
    None = None
SYMMETRY Symmetry
INVARIANT TypeOK
INVARIANT WrapsOpen
INVARIANT HandedOutKeysWork
INVARIANT NoForgottenWraps
INVARIANT CopiesFollow
