CONSTANTS
    None = None
    UserIds = {u1}
    SessionIds = {s1}
    CustomRoles = {}
    Resources = {"order_management"}
    Actions = {"read"}
    Addable <- NoPermissions
    LockDurations = {1, 3}
    AutoLock = 2
    MaxFailures = 4
    MaxTime = 5
SPECIFICATION Spec
INVARIANTS
    LockLastsItsDuration
