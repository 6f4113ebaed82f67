CONSTANTS
    Handlers = {h1, h2}
    Callers = {t1, t2}
    MaxAlerts = 2
    MaxTime = 1
SPECIFICATION Spec
INVARIANT AlertsReachHandlers
CHECK_DEADLOCK FALSE
