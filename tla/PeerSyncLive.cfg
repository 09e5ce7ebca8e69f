CONSTANTS
    s1 = s1
    k1 = k1
    d1 = d1
    q1 = q1
    q2 = q2
    None = None
    NoPsk = NoPsk
    NoIface = NoIface
    MixedIface = MixedIface
    Faulty = FALSE
    Server = {s1}
    Tag = {t1}
    ServerOf <- Owners
    Notifier = {"peers", "servers"}
    InKubernetes = FALSE
    Conn = {c1}
    MaxId = 2
    Peer <- SomePeers
    Iface = {i1, i2}
    MaxChanges = 2
SPECIFICATION PipelineFairSpec
CHECK_DEADLOCK FALSE
PROPERTY
    QueuesDrain
