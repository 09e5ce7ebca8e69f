CONSTANTS
    k1 = k1
    k2 = k2
    d1 = d1
    d2 = d2
    q0 = q0
    q1 = q1
    NoPsk = q0
    NoIface = NoIface
    MixedIface = MixedIface
    Faulty = FALSE
    Iface = {i1, i2}
    Peer <- SomePeers
    AddressOf <- SomeAddresses
    MaxPeers = 2
    MaxPending = 2
    MaxFailures = 1
SPECIFICATION Spec
INVARIANT
    ScratchRecovers
