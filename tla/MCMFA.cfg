CONSTANTS
    u1 = u1 u2 = u2 a2 = a2 k1 = k1 k2 = k2
    None = None
    Users = {u1, u2}
    CredIds = {k1, k2}
    AuthName <- AuthNames
    BackupCount = 1
    TotpWindow = 1
    ChallengeLifetime = 1
    MaxBatches = 2
    MaxChallenges = 3
    MaxCount = 1
    MaxTime = 2
SPECIFICATION Spec
CHECK_DEADLOCK FALSE
INVARIANTS
    TypeOK
    AcceptedAtMostOnce
    WebAuthnConfigHasCredential
