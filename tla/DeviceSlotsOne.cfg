CONSTANTS
    Call = {c1, c2}
    ExtId = {e1, e2}
    Key = {k1}
    MaxDevices = 2
    Limit = 1
    HasServer = TRUE
    NoExt = NoExt
    NoSession = NoSession
    OldSession = OldSession
    None = None
SPECIFICATION Spec
SYMMETRY Symmetry
INVARIANTS
    OneDevicePerUser
