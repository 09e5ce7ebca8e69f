SPECIFICATION FairSpec
CONSTANTS
    Device = {d1}
    MaxSession = 2
    MaxStream = 2
    MaxChanges = 2
    Attempts = 2
    None = None
INVARIANTS
    SessionsSound
PROPERTIES
    RevocationSettles
    ErrorLeadsToFreshList
CHECK_DEADLOCK FALSE
