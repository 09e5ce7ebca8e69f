\* A change of a pool and a resynchronisation, two devices, a template and two pools.
CONSTANTS
    c1 = c1
    c2 = c2
    d1 = d1
    d2 = d2
    t1 = t1
    p1 = p1
    p2 = p2
    None = None
    Call = {c1, c2}
    Device = {d1, d2}
    Template = {t1}
    Pool = {p1, p2}
    Width = 3
    Span <- Spans
    Given <- Lists
    Reserved <- Servers

SPECIFICATION Spec
SYMMETRY Symmetry
CHECK_DEADLOCK FALSE

INVARIANTS
    AddressesEndSession
