CONSTANTS
    s1 = s1
    s2 = s2
    t1 = t1
    t2 = t2
    t3 = t3
    None = None
    Server = {s1, s2}
    Tag = {t1, t2, t3}
    ServerOf <- Owners
    Conn = {c1, c2}
    Notifier = {n1}
    InKubernetes = TRUE
SPECIFICATION FairSpec
INVARIANTS
    TypeOK
    RegistrySound
    StatusNeedsHandler
    OneOutstanding
PROPERTIES
    LeaseImplemented
    NotifierGetsFree
    BrokenStreamFreesTag
