\* Two requests, two servers and a device, two addresses of a healthcheck service.
CONSTANTS
    c1 = c1
    c2 = c2
    s1 = s1
    s2 = s2
    d1 = d1
    a = a
    b = b
    v1 = v1
    v2 = v2
    net = net
    None = None
    Call = {c1, c2}
    Server = {s1, s2}
    Device = {d1}
    Addr = {a, b}
    Network = net
    Value = {v1, v2}
    Gift <- Gifts
    First <- Firsts

SPECIFICATION Spec
SYMMETRY Symmetry
CHECK_DEADLOCK FALSE

INVARIANTS
    EntriesSound
    HealthcheckCovered
    SessionFollowsServers
