---------------------------- MODULE AccessControl ----------------------------
(***************************************************************************)
(* core/access_control.py: users, roles and sessions of an                 *)
(* AccessControlManager.  Calls that raise leave the state alone.          *)
(*                                                                         *)
(* Role.permissions is a Python set whose iteration order depends on the   *)
(* string hash seed of the process, and has_permission answers at the      *)
(* FIRST permission that matches.  Its answer is therefore one of a set of *)
(* outcomes, and so is the answer of check_permission.                     *)
(***************************************************************************)
EXTENDS Integers, FiniteSets

CONSTANTS
    UserIds, SessionIds,
    CustomRoles,        \* names create_role may be called with
    Resources,          \* the members of Resource a run looks at
    Actions,            \* the actions of the permission checks
    Addable,            \* the permissions add_permission is called with
    LockDurations,      \* the durations lock_user is called with
    AutoLock,           \* the 900 s of record_login_attempt
    MaxFailures,        \* bound on failed_login_attempts
    MaxTime,            \* bound of the clock
    None

VARIABLES
    now,                \* time.time()
    users,              \* self._users
    roles,              \* self._roles: the permissions of each role, or None
    sessions,           \* self._session_contexts: the user of each, or None
    promised            \* history: the end of the last lock_user lock, 0 if none

vars == <<now, users, roles, sessions, promised>>

Levels == {0, 1, 2, 4, 8, 16}
READ == 1
WRITE == 2
SUPER_ADMIN == 16
SystemRoles == {"super_admin", "trader", "auditor"}
RoleNames == SystemRoles \cup CustomRoles

Permission == [resource : Resources, action : Actions \cup {"*"}, level : Levels]
User == [roles : SUBSET RoleNames, owner : BOOLEAN, active : BOOLEAN,
         failed : 0 .. MaxFailures, lockedUntil : Nat]

ASSUME AccessAssumption ==
    /\ Addable \subseteq Permission
    /\ LockDurations \subseteq Nat
    /\ AutoLock \in Nat /\ MaxTime \in Nat /\ MaxFailures \in Nat
    /\ SystemRoles \cap CustomRoles = {}
    /\ None \notin UserIds \cup User

TypeOK ==
    /\ now \in 0 .. MaxTime
    /\ users \in [UserIds -> User \cup {None}]
    /\ roles \in [RoleNames -> (SUBSET Permission) \cup {None}]
    /\ sessions \in [SessionIds -> UserIds \cup {None}]
    /\ promised \in [UserIds -> Nat]

-----------------------------------------------------------------------------
(* _init_system_roles, for the resources and actions of the run *)

TradingResources ==
    {"market_data", "order_management", "balance_data", "position_data", "trade_history"}
AuditResources == {"audit_logs", "trade_history", "order_management"}

Grants(rs, acts, level) ==
    {p \in Permission : p.resource \in rs /\ p.action \in acts /\ p.level = level}

SystemPermissions(name) ==
    CASE name = "super_admin" -> Grants(Resources, {"*"}, SUPER_ADMIN)
      [] name = "trader"      -> Grants(TradingResources, {"read", "write"}, WRITE)
      [] name = "auditor"     -> Grants(AuditResources, {"read"}, READ)

Init ==
    /\ now = 0
    /\ users = [u \in UserIds |-> None]
    /\ roles = [n \in RoleNames |-> IF n \in SystemRoles THEN SystemPermissions(n) ELSE None]
    /\ sessions = [s \in SessionIds |-> None]
    /\ promised = [u \in UserIds |-> 0]

-----------------------------------------------------------------------------
(* Decisions *)

ActionMatches(granted, action) ==
    \/ granted \in {"*", action}
    \/ granted = "write" /\ action \in {"create", "update", "modify", "write"}
    \/ granted = "read" /\ action \in {"read", "view", "list"}

Matching(permissions, resource, action) ==
    {p \in permissions : p.resource = resource /\ ActionMatches(p.action, action)}

(* Role.has_permission: the answers the first match can give. *)
HasPermission(permissions, resource, action, level) ==
    LET matching == Matching(permissions, resource, action)
    IN  IF matching = {} THEN {FALSE} ELSE {p.level >= level : p \in matching}

IsLocked(u) == now < users[u].lockedUntil

IsRefused(u) == users[u] = None \/ ~users[u].active \/ IsLocked(u)

(* _check_abac_rules: its second and third rule can only refuse what the   *)
(* end of the function refuses anyway.                                     *)
AbacGrants(u, resource, businessHours) ==
    resource = "trading_accounts" /\ users[u].owner /\ businessHours

(* BUG for the checks: a role that refuses outweighs one that grants. *)
CheckEveryRole(u, resource, action, level, inContext, businessHours) ==
    IF IsRefused(u) \/ users[u].roles = {} THEN {FALSE}
    ELSE LET byRole == {HasPermission(roles[n], resource, action, level) : n \in users[u].roles}
         IN  {\A answers \in byRole : TRUE \in answers}

(* check_permission: the answers it can give.  inContext says whether a    *)
(* context is passed, businessHours what its timestamp says.               *)
CheckPermission(u, resource, action, level, inContext, businessHours) ==
    IF IsRefused(u) THEN {FALSE}
    ELSE LET byRole == {HasPermission(roles[n], resource, action, level) : n \in users[u].roles}
         IN  (IF \E answers \in byRole : TRUE \in answers THEN {TRUE} ELSE {})
             \cup (IF \A answers \in byRole : FALSE \in answers
                   THEN {inContext /\ AbacGrants(u, resource, businessHours)} ELSE {})

-----------------------------------------------------------------------------
(* Users and roles *)

CreateUser(u, owner) ==
    /\ users[u] = None
    /\ users' = [users EXCEPT ![u] = [roles |-> {"trader"}, owner |-> owner, active |-> TRUE,
                                      failed |-> 0, lockedUntil |-> 0]]
    /\ UNCHANGED <<now, roles, sessions, promised>>

(* No method sets is_active: callers assign the field of the object. *)
SetActive(u, active) ==
    /\ users[u] # None
    /\ users' = [users EXCEPT ![u].active = active]
    /\ UNCHANGED <<now, roles, sessions, promised>>

CreateRole(n) ==
    /\ roles[n] = None
    /\ roles' = [roles EXCEPT ![n] = {}]
    /\ UNCHANGED <<now, users, sessions, promised>>

AddPermission(n, p) ==
    /\ roles[n] # None
    /\ roles' = [roles EXCEPT ![n] = @ \cup {p}]
    /\ UNCHANGED <<now, users, sessions, promised>>

RemovePermission(n, p) ==
    /\ roles[n] # None
    /\ roles' = [roles EXCEPT ![n] = @ \ {p}]
    /\ UNCHANGED <<now, users, sessions, promised>>

AssignRole(u, n) ==
    /\ users[u] # None
    /\ roles[n] # None
    /\ users' = [users EXCEPT ![u].roles = @ \cup {n}]
    /\ UNCHANGED <<now, roles, sessions, promised>>

RevokeRole(u, n) ==
    /\ users[u] # None
    /\ users' = [users EXCEPT ![u].roles = @ \ {n}]
    /\ UNCHANGED <<now, roles, sessions, promised>>

-----------------------------------------------------------------------------
(* Sessions, locks and login attempts *)

CreateSession(s, u) ==
    /\ sessions[s] = None
    /\ ~IsRefused(u)
    /\ sessions' = [sessions EXCEPT ![s] = u]
    /\ users' = [users EXCEPT ![u].failed = 0]
    /\ UNCHANGED <<now, roles, promised>>

RevokeSession(s) ==
    /\ sessions' = [sessions EXCEPT ![s] = None]
    /\ UNCHANGED <<now, users, roles, promised>>

(* BUGS for the checks: the sign of the duration, the clock left out. *)
LockEndInThePast(duration) == now - duration
LockEndWithoutClock(duration) == duration

LockEnd(duration) == now + duration

LockUser(u, duration) ==
    /\ users[u] # None
    /\ users' = [users EXCEPT ![u].lockedUntil = LockEnd(duration)]
    /\ promised' = [promised EXCEPT ![u] = now + duration]
    /\ UNCHANGED <<now, roles, sessions>>

UnlockUser(u) ==
    /\ users[u] # None
    /\ users' = [users EXCEPT ![u].lockedUntil = 0, ![u].failed = 0]
    /\ promised' = [promised EXCEPT ![u] = 0]
    /\ UNCHANGED <<now, roles, sessions>>

RecordLoginAttempt(u, success) ==
    /\ users[u] # None
    /\ \/ /\ success
          /\ users' = [users EXCEPT ![u].failed = 0]
       \/ /\ ~success
          /\ users[u].failed < MaxFailures
          /\ users' = [users EXCEPT
                         ![u].failed = @ + 1,
                         ![u].lockedUntil =
                             IF users[u].failed + 1 >= 3 THEN LockEnd(AutoLock) ELSE @]
    /\ UNCHANGED <<now, roles, sessions, promised>>

Tick ==
    /\ now < MaxTime
    /\ now' = now + 1
    /\ UNCHANGED <<users, roles, sessions, promised>>

-----------------------------------------------------------------------------
Next ==
    \/ \E u \in UserIds :
          \/ \E flag \in BOOLEAN :
                CreateUser(u, flag) \/ SetActive(u, flag) \/ RecordLoginAttempt(u, flag)
          \/ \E n \in RoleNames : AssignRole(u, n) \/ RevokeRole(u, n)
          \/ \E s \in SessionIds : CreateSession(s, u)
          \/ \E d \in LockDurations : LockUser(u, d)
          \/ UnlockUser(u)
    \/ \E n \in CustomRoles : CreateRole(n)
    \/ \E n \in RoleNames, p \in Addable : AddPermission(n, p) \/ RemovePermission(n, p)
    \/ \E s \in SessionIds : RevokeSession(s)
    \/ Tick

Spec == Init /\ [][Next]_vars

-----------------------------------------------------------------------------
(* PROPERTIES *)

(* A lock that lock_user put on an account refuses it for the duration     *)
(* asked for, whatever logins are attempted and sessions created in the    *)
(* meantime, unless unlock_user or another lock_user intervenes.           *)
LockLastsItsDuration ==
    \A u \in UserIds : now < promised[u] => IsRefused(u)

Requests == Resources \X Actions \X Levels

MayGet(u) ==
    {q \in Requests \X BOOLEAN \X BOOLEAN :
        TRUE \in CheckPermission(u, q[1][1], q[1][2], q[1][3], q[2], q[3])}
SureToGet(u) ==
    {q \in Requests \X BOOLEAN \X BOOLEAN :
        CheckPermission(u, q[1][1], q[1][2], q[1][3], q[2], q[3]) = {TRUE}}

(* Roles add up (check_permission): a role assigned never takes away an    *)
(* access that was certain, and a role revoked never opens an access that  *)
(* was impossible, whatever the roles overlap on.                          *)
RolesAddUp ==
    [][\A u \in UserIds, n \in RoleNames :
          /\ AssignRole(u, n) => SureToGet(u) \subseteq SureToGet(u)'
          /\ RevokeRole(u, n) => MayGet(u)' \subseteq MayGet(u)]_vars
=============================================================================
