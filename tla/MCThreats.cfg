CONSTANTS
    Users = {u1, u2}
    Ips = {i1}
    MaxLen = 2
    LoginWindow = 2
    AccessWindow = 2
    LoginThreshold = 2
    AccessThreshold = 1
    SuspiciousThreshold = 1
    SprayThreshold = 1
    MaxCalls = 4
    MaxTime = 3
SPECIFICATION Spec
CHECK_DEADLOCK FALSE
INVARIANTS
    TypeOK
    EscalationIsPermanent
PROPERTIES
    BruteForceIsReported
    RapidAccessIsReported
