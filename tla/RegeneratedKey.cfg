SPECIFICATION Spec
CONSTANTS
    Keys = {a1, a2, a3}
    Deks = {e1, e2}
    Psks = {}
    Network = net
    Location = loc
    Links = {}
    Requests = {r1}
    Births = {"dek"}
    None = None
PROPERTY OldKeyBecomesInvalid
