CONSTANTS
    None = None
    Threads = {t1, t2}
    Keys = {k1, k2, k3}
    MaxFailures = 1
SYMMETRY Alike
SPECIFICATION Spec
CHECK_DEADLOCK FALSE
INVARIANTS
    TypeOK
    CiphertextsStayReadable
    ActiveKeyIsNotRetired
    OnlyRotationEndangers
