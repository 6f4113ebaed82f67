CONSTANTS
    Loggers = {l1}
    Callers = {t1}
    Retention = 1
    LateEvents = FALSE
    TornWrites = TRUE
    UnstableEvents = FALSE
    MaxEvents = 4
    MaxTime = 3
SPECIFICATION Spec
INVARIANT AckedEventsAreKept
