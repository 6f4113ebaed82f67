CONSTANTS
    l1 = l1 l2 = l2 t1 = t1 t2 = t2
    Loggers = {l1, l2}
    Callers = {t1, t2}
    Retention = 1
    LateEvents = TRUE
    TornWrites = TRUE
    UnstableEvents = TRUE
    MaxEvents = 3
    MaxTime = 2
CONSTRAINT WithinSlices
SYMMETRY Identifiers
SPECIFICATION Spec
INVARIANTS
    TypeOK
    LogVerifies
    LossBoundedByTornWrites
    LossIsReported
    LogInOrder
    ChainContinues
PROPERTIES
    ReadableLinesStay
