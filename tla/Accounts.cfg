SPECIFICATION Spec
CONSTANTS
    Call = {c1, c2, c3}
    Name = {a, b}
    First = a
    MaxUser = 3
    MaxClock = 2
    None = None
SYMMETRY Symmetry
INVARIANTS
    UsersSound
    CodeAcceptedOnce
    SessionFollowsCredentials
CHECK_DEADLOCK FALSE
