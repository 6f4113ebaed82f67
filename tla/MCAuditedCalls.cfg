CONSTANTS
    None = None
    Loggers = {l1, l2}
    l1 = l1 l2 = l2 t1 = t1 t2 = t2
    Callers = {t1, t2}
    Subjects = {s1}
    Purposes = {"general"}
    TornWrites = TRUE
    UnstableEvents = TRUE
    MaxCalls = 2
    MaxRegistrations = 2
    MaxTime = 1
CONSTRAINT WithinSlices
SPECIFICATION FairSpec
INVARIANTS
    TypeOK
    TrailIsComplete
    VerifiedTrailIsComplete
    OutcomesAreTrue
    ErasedOnRequest
PROPERTIES
    CallsAdvance
    EveryCallEnds
