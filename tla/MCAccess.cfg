CONSTANTS
    None = None
    UserIds = {u1}
    SessionIds = {s1}
    CustomRoles = {"desk"}
    Resources = {"order_management", "trading_accounts"}
    Actions = {"read", "view"}
    Addable <- OverlappingPermissions
    LockDurations = {1, 2}
    AutoLock = 2
    MaxFailures = 4
    MaxTime = 5
CONSTRAINT WithinSlices
SPECIFICATION Spec
INVARIANTS
    TypeOK
    LockLastsItsDuration
PROPERTIES
    RolesAddUp
