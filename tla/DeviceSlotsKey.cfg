CONSTANTS
    Call = {c1, c2, c3}
    ExtId = {e1}
    Key = {k1, k2}
    MaxDevices = 2
    Limit = 1
    HasServer = TRUE
    NoExt = NoExt
    NoSession = NoSession
    OldSession = OldSession
    None = None
SPECIFICATION Spec
SYMMETRY Symmetry
INVARIANTS
    KeyChangeInvalidates
