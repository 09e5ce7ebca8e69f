\* A server is deleted while the devices connected to it have sessions.
CONSTANTS
    c1 = c1
    c2 = c2
    s1 = s1
    s2 = s2
    d1 = d1
    d2 = d2
    x = x
    y = y
    z = z
    r1 = r1
    r2 = r2
    None = None
    Call = {c1, c2}
    Server = {s1, s2}
    Device = {d1, d2}
    Own = {d1}
    Linked = {s1}
    Addr = {x, y, z}
    Route = {r1, r2}
    Iface <- Interfaces
    Offer <- Offers
    Home <- Homes

SPECIFICATION Spec
SYMMETRY Symmetry
CHECK_DEADLOCK FALSE

INVARIANTS
    ServerDeletionEndsSessions
