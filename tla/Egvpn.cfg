CONSTANTS
    n1 = n1
    n2 = n2
    Absent = Absent
    Terminal = {t1, t2}
    Dir = {d1, d2}
    Name = {n1, n2}
    StartOptions <- SomeStarts
    RestartOptions <- SomeRestarts
    InitOptions <- SomeInits
    Lines = 2
    MaxPages = 2
    MaxCommands = 4
    MaxCauses = 1
SPECIFICATION HostSpec
SYMMETRY Symmetry
CHECK_DEADLOCK FALSE
INVARIANTS
    HostSound
    RestartSucceeds
    SuccessMeansUp
    StopLeavesNothing
