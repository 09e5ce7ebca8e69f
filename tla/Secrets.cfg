CONSTANTS
    Secret = {r1, r2}
    r1 = r1
    r2 = r2
    Key = {k1, k2}
    None = None
    Node = {n1, n2}
    Tag = {t1}
    MaxCA = 2
    MaxValue = 2
    MaxCauses = 1
SPECIFICATION Spec
SYMMETRY Symmetry
INVARIANTS
    SecretsSound
    CertificatesHold
    RetiredRejected
