SPECIFICATION Spec
CONSTANTS
    Passwords = {p1, p2}
    Terms = {1, 4}
    Idle = 2
    Tokens = {t1, t2}
    Requests = {r1, r2}
    None = None
PROPERTY SessionsExpireWithCache
