SPECIFICATION FrontendSpec
CONSTANTS
    Items = {i1, i2}
    Devices = {d1}
    MaxSessions = 2
    Nobody = nobody
    MaxCalls = 2
    MaxRetries = 3
    Screens = {"networks", "locations", "network", "fleet", "deviceForm", "connections", "rotation", "settings", "devices", "session"}
SYMMETRY Symmetry
INVARIANT FrontendTypeOK
INVARIANT OneWriteAtATime
INVARIANT WritesOwnRecord
INVARIANT RowsFollowWrites
INVARIANT LintIsCurrent
INVARIANT KeyShownIsInForce
INVARIANT DevicesKeepTheirKeys
INVARIANT RotationIsNoticed
INVARIANT SessionAgrees
