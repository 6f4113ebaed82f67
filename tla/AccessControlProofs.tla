------------------------ MODULE AccessControlProofs ------------------------
(* Theorems about AccessControl, for every value of its constants. *)
EXTENDS AccessControl, TLAPS

(* What the roles hold at first are permissions. *)
LEMMA SystemRolesType ==
    ASSUME NEW n \in SystemRoles
    PROVE  SystemPermissions(n) \subseteq Permission
<1>1. \A rs, acts, level : Grants(rs, acts, level) \subseteq Permission
  BY DEF Grants
<1> QED BY <1>1 DEF SystemPermissions, SystemRoles

(* Every step keeps the type. *)
LEMMA TypeStep == TypeOK /\ [Next]_vars => TypeOK'
<1> SUFFICES ASSUME TypeOK, [Next]_vars PROVE TypeOK'
  OBVIOUS
<1> USE AccessAssumption
<1>1. ASSUME NEW u \in UserIds, NEW flag \in BOOLEAN, CreateUser(u, flag) PROVE TypeOK'
  <2>1. [roles |-> {"trader"}, owner |-> flag, active |-> TRUE, failed |-> 0, lockedUntil |-> 0]
           \in User
    BY DEF User, RoleNames, SystemRoles
  <2> QED BY <1>1, <2>1 DEF TypeOK, CreateUser
<1>2. ASSUME NEW u \in UserIds, NEW flag \in BOOLEAN, SetActive(u, flag) PROVE TypeOK'
  <2>1. users' = [users EXCEPT ![u] = [users[u] EXCEPT !.active = flag]]
    BY <1>2 DEF SetActive
  <2>2. [users[u] EXCEPT !.active = flag] \in User
    BY <1>2 DEF SetActive, TypeOK, User
  <2> QED BY <1>2, <2>1, <2>2 DEF TypeOK, SetActive
<1>3. ASSUME NEW u \in UserIds, NEW flag \in BOOLEAN, RecordLoginAttempt(u, flag) PROVE TypeOK'
  <2>1. users[u] \in User /\ users[u].failed \in 0 .. MaxFailures
    BY <1>3 DEF RecordLoginAttempt, TypeOK, User
  <2>2. LockEnd(AutoLock) \in Nat
    BY DEF LockEnd, TypeOK
  <2>3. CASE flag
    <3>1. users' = [users EXCEPT ![u] = [users[u] EXCEPT !.failed = 0]]
      BY <1>3, <2>3 DEF RecordLoginAttempt
    <3>2. [users[u] EXCEPT !.failed = 0] \in User
      BY <2>1 DEF User
    <3> QED BY <1>3, <3>1, <3>2 DEF TypeOK, RecordLoginAttempt
  <2>4. CASE ~flag
    <3> DEFINE end == IF users[u].failed + 1 >= 3 THEN LockEnd(AutoLock) ELSE users[u].lockedUntil
               next == [users[u] EXCEPT !.failed = @ + 1, !.lockedUntil = end]
    <3>1. users' = [users EXCEPT ![u] = next]
      BY <1>3, <2>4 DEF RecordLoginAttempt
    <3>2. users[u].failed + 1 \in 0 .. MaxFailures
      BY <1>3, <2>1, <2>4 DEF RecordLoginAttempt
    <3>3. end \in Nat
      BY <2>1, <2>2 DEF User
    <3>4. next \in User
      <4> HIDE DEF end
      <4> QED BY <2>1, <3>2, <3>3 DEF User
    <3> QED BY <1>3, <3>1, <3>4 DEF TypeOK, RecordLoginAttempt
  <2> QED BY <2>3, <2>4
<1>4. ASSUME NEW u \in UserIds, NEW n \in RoleNames, AssignRole(u, n) \/ RevokeRole(u, n)
      PROVE  TypeOK'
  <2>1. users[u] \in User
    BY <1>4 DEF AssignRole, RevokeRole, TypeOK
  <2>2. /\ [users[u] EXCEPT !.roles = @ \cup {n}] \in User
        /\ [users[u] EXCEPT !.roles = @ \ {n}] \in User
    BY <2>1 DEF User
  <2>3. \/ users' = [users EXCEPT ![u] = [users[u] EXCEPT !.roles = @ \cup {n}]]
        \/ users' = [users EXCEPT ![u] = [users[u] EXCEPT !.roles = @ \ {n}]]
    BY <1>4 DEF AssignRole, RevokeRole
  <2>4. users' \in [UserIds -> User \cup {None}]
    BY <2>2, <2>3 DEF TypeOK
  <2> QED BY <1>4, <2>4 DEF TypeOK, AssignRole, RevokeRole
<1>5. ASSUME NEW s \in SessionIds, NEW u \in UserIds, CreateSession(s, u) PROVE TypeOK'
  <2>1. users[u] \in User
    BY <1>5 DEF CreateSession, IsRefused, TypeOK
  <2>2. [users[u] EXCEPT !.failed = 0] \in User
    BY <2>1 DEF User
  <2>3. users' = [users EXCEPT ![u] = [users[u] EXCEPT !.failed = 0]]
    BY <1>5 DEF CreateSession
  <2> QED BY <1>5, <2>2, <2>3 DEF TypeOK, CreateSession
<1>6. ASSUME NEW u \in UserIds, NEW d \in LockDurations, LockUser(u, d) PROVE TypeOK'
  <2>1. LockEnd(d) \in Nat /\ now + d \in Nat
    BY DEF LockEnd, TypeOK
  <2>2. [users[u] EXCEPT !.lockedUntil = LockEnd(d)] \in User
    <3> DEFINE end == LockEnd(d)
    <3> HIDE DEF end
    <3>1. end \in Nat
      BY <2>1 DEF end
    <3>2. [users[u] EXCEPT !.lockedUntil = end] \in User
      BY <1>6, <3>1 DEF LockUser, TypeOK, User
    <3> QED BY <3>2 DEF end
  <2>3. users' = [users EXCEPT ![u] = [users[u] EXCEPT !.lockedUntil = LockEnd(d)]]
    BY <1>6 DEF LockUser
  <2> QED BY <1>6, <2>1, <2>2, <2>3 DEF TypeOK, LockUser
<1>7. ASSUME NEW u \in UserIds, UnlockUser(u) PROVE TypeOK'
  <2>1. [users[u] EXCEPT !.lockedUntil = 0, !.failed = 0] \in User
    <3>1. users[u] \in User /\ 0 \in 0 .. MaxFailures
      BY <1>7 DEF UnlockUser, TypeOK
    <3> QED BY <3>1 DEF User
  <2>2. users' = [users EXCEPT ![u] = [users[u] EXCEPT !.lockedUntil = 0, !.failed = 0]]
    BY <1>7 DEF UnlockUser
  <2> QED BY <1>7, <2>1, <2>2 DEF TypeOK, UnlockUser
<1>8. ASSUME NEW n \in CustomRoles, CreateRole(n) PROVE TypeOK'
  BY <1>8 DEF TypeOK, CreateRole
<1>9. ASSUME NEW n \in RoleNames, NEW p \in Addable, AddPermission(n, p) \/ RemovePermission(n, p)
      PROVE  TypeOK'
  BY <1>9 DEF TypeOK, AddPermission, RemovePermission
<1>10. ASSUME NEW s \in SessionIds, RevokeSession(s) PROVE TypeOK'
  BY <1>10 DEF TypeOK, RevokeSession
<1>11. CASE Tick
  BY <1>11 DEF TypeOK, Tick
<1>12. CASE UNCHANGED vars
  BY <1>12 DEF TypeOK, vars
<1> QED
  BY <1>1, <1>2, <1>3, <1>4, <1>5, <1>6, <1>7, <1>8, <1>9, <1>10, <1>11, <1>12 DEF Next

(* Every reachable state has its type. *)
THEOREM AccessTypeCorrect == Spec => []TypeOK
<1>1. Init => TypeOK
  <2> SUFFICES ASSUME Init PROVE TypeOK
    OBVIOUS
  <2>1. roles \in [RoleNames -> (SUBSET Permission) \cup {None}]
    BY SystemRolesType DEF Init
  <2> QED BY <2>1, AccessAssumption DEF Init, TypeOK
<1> QED BY <1>1, TypeStep, PTL DEF Spec

-----------------------------------------------------------------------------
(* Locks.  A lock that was promised ends with the lock of the account, or  *)
(* before it; and because no promise reaches further than the automatic    *)
(* lock would now, an automatic lock does not shorten it.                  *)

LocksAreShort == \A d \in LockDurations : d <= AutoLock

LockInv ==
    \A u \in UserIds :
        /\ users[u] = None => promised[u] = 0
        /\ users[u] # None => promised[u] <= users[u].lockedUntil
        /\ promised[u] <= now + AutoLock

LEMMA LockInvImplies == TypeOK /\ LockInv => LockLastsItsDuration
<1> SUFFICES ASSUME TypeOK, LockInv, NEW u \in UserIds, now < promised[u] PROVE IsRefused(u)
  BY DEF LockLastsItsDuration
<1>1. CASE users[u] = None
  BY <1>1 DEF IsRefused
<1>2. CASE users[u] # None
  <2>1. users[u].lockedUntil \in Nat
    BY <1>2 DEF TypeOK, User
  <2>2. promised[u] <= users[u].lockedUntil /\ now \in Nat /\ promised[u] \in Nat
    BY <1>2 DEF LockInv, TypeOK
  <2> QED BY <2>1, <2>2 DEF IsRefused, IsLocked
<1> QED BY <1>1, <1>2

LEMMA LockStep ==
    ASSUME LocksAreShort, TypeOK, TypeOK', LockInv, [Next]_vars
    PROVE  LockInv'
<1> USE AccessAssumption
<1>1. /\ now \in Nat
      /\ \A v \in UserIds : promised[v] \in Nat
      /\ \A v \in UserIds : users[v] # None => users[v] \in User /\ users[v].lockedUntil \in Nat
  BY DEF TypeOK, User
<1>2. ASSUME NEW u \in UserIds, NEW flag \in BOOLEAN, CreateUser(u, flag) PROVE LockInv'
  <2>1. users'[u] # None /\ users'[u].lockedUntil = 0 /\ promised'[u] = 0
    <3>1. [roles |-> {"trader"}, owner |-> flag, active |-> TRUE, failed |-> 0, lockedUntil |-> 0]
             \in User
      BY DEF User, RoleNames, SystemRoles
    <3> QED BY <1>2, <3>1 DEF CreateUser, TypeOK, LockInv
  <2>2. \A v \in UserIds \ {u} : users'[v] = users[v]
    BY <1>2 DEF CreateUser, TypeOK
  <2> QED BY <1>1, <1>2, <2>1, <2>2 DEF CreateUser, LockInv
<1>3. ASSUME NEW u \in UserIds, users[u] # None, users'[u] # None,
             users'[u].lockedUntil = users[u].lockedUntil,
             \A v \in UserIds \ {u} : users'[v] = users[v], UNCHANGED <<now, promised>>
      PROVE  LockInv'
  BY <1>3 DEF LockInv
<1>4. ASSUME NEW u \in UserIds, NEW flag \in BOOLEAN, SetActive(u, flag) PROVE LockInv'
  <2>1. users'[u] = [users[u] EXCEPT !.active = flag] /\ users[u] \in User
    BY <1>4 DEF SetActive, TypeOK
  <2>2. users'[u] \in User /\ users'[u].lockedUntil = users[u].lockedUntil
    BY <2>1 DEF User
  <2> QED BY <1>3, <1>4, <2>2 DEF SetActive, TypeOK
<1>5. ASSUME NEW u \in UserIds, NEW flag \in BOOLEAN, RecordLoginAttempt(u, flag) PROVE LockInv'
  <2>1. users[u] \in User /\ users'[u] \in User \cup {None}
    BY <1>5 DEF RecordLoginAttempt, TypeOK
  <2>2. users'[u].lockedUntil = users[u].lockedUntil \/ users'[u].lockedUntil = now + AutoLock
    BY <1>5, <2>1 DEF RecordLoginAttempt, TypeOK, User, LockEnd
  <2>3. /\ \A v \in UserIds \ {u} : users'[v] = users[v]
        /\ promised' = promised /\ now' = now
        /\ users[u] # None
    BY <1>5 DEF RecordLoginAttempt, TypeOK
  <2>4. users'[u] # None
    BY <1>5, <2>1 DEF RecordLoginAttempt, TypeOK, User
  <2> QED BY <1>1, <2>2, <2>3, <2>4 DEF LockInv
<1>6. ASSUME NEW u \in UserIds, NEW n \in RoleNames, AssignRole(u, n) \/ RevokeRole(u, n)
      PROVE  LockInv'
  <2>1. users[u] \in User
    BY <1>6 DEF AssignRole, RevokeRole, TypeOK
  <2>2. \/ users'[u] = [users[u] EXCEPT !.roles = @ \cup {n}]
        \/ users'[u] = [users[u] EXCEPT !.roles = @ \ {n}]
    BY <1>6 DEF AssignRole, RevokeRole, TypeOK
  <2>3. users'[u] \in User /\ users'[u].lockedUntil = users[u].lockedUntil
    BY <2>1, <2>2 DEF User
  <2>4. \A v \in UserIds \ {u} : users'[v] = users[v]
    BY <1>6 DEF AssignRole, RevokeRole, TypeOK
  <2> QED BY <1>3, <1>6, <2>3, <2>4 DEF AssignRole, RevokeRole
<1>7. ASSUME NEW s \in SessionIds, NEW u \in UserIds, CreateSession(s, u) PROVE LockInv'
  <2>1. users[u] \in User /\ users'[u] = [users[u] EXCEPT !.failed = 0]
    BY <1>7 DEF CreateSession, IsRefused, TypeOK
  <2>2. users'[u] \in User /\ users'[u].lockedUntil = users[u].lockedUntil
    BY <2>1 DEF User
  <2> QED BY <1>3, <1>7, <2>1, <2>2 DEF CreateSession, TypeOK
<1>8. ASSUME NEW u \in UserIds, NEW d \in LockDurations, LockUser(u, d) PROVE LockInv'
  <2>1. d \in Nat /\ d <= AutoLock
    BY DEF LocksAreShort
  <2>2. users'[u].lockedUntil = now + d /\ promised'[u] = now + d /\ users'[u] # None
    BY <1>8 DEF LockUser, LockEnd, TypeOK, User
  <2>3. /\ \A v \in UserIds \ {u} : users'[v] = users[v] /\ promised'[v] = promised[v]
        /\ now' = now
    BY <1>8 DEF LockUser, TypeOK
  <2> QED BY <1>1, <2>1, <2>2, <2>3 DEF LockInv
<1>9. ASSUME NEW u \in UserIds, UnlockUser(u) PROVE LockInv'
  <2>1. users'[u] # None /\ users'[u].lockedUntil = 0 /\ promised'[u] = 0
    <3>1. users[u] \in User /\ 0 \in 0 .. MaxFailures
      BY <1>9 DEF UnlockUser, TypeOK
    <3>2. users' = [users EXCEPT ![u] = [users[u] EXCEPT !.lockedUntil = 0, !.failed = 0]]
      BY <1>9 DEF UnlockUser
    <3>3. users'[u] = [users[u] EXCEPT !.lockedUntil = 0, !.failed = 0]
      BY <3>2 DEF TypeOK
    <3>4. [users[u] EXCEPT !.lockedUntil = 0, !.failed = 0] \in User
      BY <3>1 DEF User
    <3> QED BY <1>9, <3>1, <3>3, <3>4 DEF UnlockUser, TypeOK, User
  <2>2. /\ \A v \in UserIds \ {u} : users'[v] = users[v] /\ promised'[v] = promised[v]
        /\ now' = now
    BY <1>9 DEF UnlockUser, TypeOK
  <2> QED BY <1>1, <2>1, <2>2 DEF LockInv
<1>10. CASE Tick
  BY <1>1, <1>10 DEF Tick, LockInv
<1>11. ASSUME UNCHANGED <<now, users, promised>> PROVE LockInv'
  BY <1>11 DEF LockInv
<1>12. ASSUME \/ \E n \in CustomRoles : CreateRole(n)
              \/ \E n \in RoleNames, p \in Addable : AddPermission(n, p) \/ RemovePermission(n, p)
              \/ \E s \in SessionIds : RevokeSession(s)
              \/ UNCHANGED vars
       PROVE  LockInv'
  BY <1>11, <1>12 DEF CreateRole, AddPermission, RemovePermission, RevokeSession, vars
<1> QED
  BY <1>2, <1>4, <1>5, <1>6, <1>7, <1>8, <1>9, <1>10, <1>12 DEF Next

(* A lock that lock_user put on an account lasts as long as was asked,     *)
(* when no one asks for a lock longer than the automatic one (for longer   *)
(* ones the code breaks this).                                             *)
THEOREM ShortLocksLast ==
    ASSUME LocksAreShort
    PROVE  Spec => []LockLastsItsDuration
<1>1. Init => LockInv
  BY AccessAssumption DEF Init, LockInv
<1>2. TypeOK /\ TypeOK' /\ LockInv /\ [Next]_vars => LockInv'
  BY LockStep
<1>3. Spec => []LockInv
  BY <1>1, <1>2, AccessTypeCorrect, PTL DEF Spec
<1> QED BY <1>3, AccessTypeCorrect, LockInvImplies, PTL

-----------------------------------------------------------------------------
(* Roles.  The roles of a user exist, so that the answers of each are a    *)
(* non-empty set of truth values; nothing else is needed of the order in   *)
(* which the permissions of a role are looked at.                          *)

RolesExist ==
    /\ \A n \in SystemRoles : roles[n] \in SUBSET Permission
    /\ \A u \in UserIds :
          users[u] # None => \A n \in users[u].roles : roles[n] \in SUBSET Permission

LEMMA RolesExistStep == TypeOK /\ TypeOK' /\ RolesExist /\ [Next]_vars => RolesExist'
<1> SUFFICES ASSUME TypeOK, TypeOK', RolesExist, [Next]_vars PROVE RolesExist'
  OBVIOUS
<1>1. ASSUME NEW u \in UserIds, roles' = roles, \A v \in UserIds \ {u} : users'[v] = users[v],
             users'[u] = None \/ \A n \in users'[u].roles : roles[n] \in SUBSET Permission
      PROVE  RolesExist'
  BY <1>1 DEF RolesExist
<1>2. ASSUME NEW u \in UserIds, NEW flag \in BOOLEAN, CreateUser(u, flag) PROVE RolesExist'
  <2>1. users'[u].roles = {"trader"}
    BY <1>2 DEF CreateUser, TypeOK
  <2> QED BY <1>1, <1>2, <2>1 DEF CreateUser, TypeOK, RolesExist, SystemRoles
<1>3. ASSUME NEW u \in UserIds, users[u] # None, users[u] \in User,
             \/ \E flag \in BOOLEAN : SetActive(u, flag) \/ RecordLoginAttempt(u, flag)
             \/ UnlockUser(u)
             \/ \E s \in SessionIds : CreateSession(s, u)
             \/ \E d \in LockDurations : LockUser(u, d)
      PROVE  RolesExist'
  <2>1. users'[u].roles = users[u].roles
    BY <1>3 DEF SetActive, RecordLoginAttempt, UnlockUser, CreateSession, LockUser, TypeOK, User
  <2>2. roles' = roles /\ \A v \in UserIds \ {u} : users'[v] = users[v]
    BY <1>3 DEF SetActive, RecordLoginAttempt, UnlockUser, CreateSession, LockUser, TypeOK
  <2> QED BY <1>1, <1>3, <2>1, <2>2 DEF RolesExist
<1>4. ASSUME NEW u \in UserIds,
             \/ \E flag \in BOOLEAN : SetActive(u, flag) \/ RecordLoginAttempt(u, flag)
             \/ UnlockUser(u)
             \/ \E s \in SessionIds : CreateSession(s, u)
             \/ \E d \in LockDurations : LockUser(u, d)
      PROVE  RolesExist'
  <2>1. users[u] # None /\ users[u] \in User
    BY <1>4 DEF SetActive, RecordLoginAttempt, UnlockUser, CreateSession, LockUser, IsRefused, TypeOK
  <2> QED BY <1>3, <1>4, <2>1
<1>5. ASSUME NEW u \in UserIds, NEW n \in RoleNames, AssignRole(u, n) \/ RevokeRole(u, n)
      PROVE  RolesExist'
  <2>1. users[u] \in User /\ users[u] # None /\ roles' = roles
    BY <1>5 DEF AssignRole, RevokeRole, TypeOK
  <2>2. \/ users'[u].roles = users[u].roles \cup {n} /\ roles[n] \in SUBSET Permission
        \/ users'[u].roles = users[u].roles \ {n}
    BY <1>5, <2>1 DEF AssignRole, RevokeRole, TypeOK, User
  <2>3. \A v \in UserIds \ {u} : users'[v] = users[v]
    BY <1>5 DEF AssignRole, RevokeRole, TypeOK
  <2> QED BY <1>1, <2>1, <2>2, <2>3 DEF RolesExist
<1>6. ASSUME NEW n \in RoleNames, roles'[n] \in SUBSET Permission, users' = users,
             \A m \in RoleNames \ {n} : roles'[m] = roles[m]
      PROVE  RolesExist'
  <2>1. \A u \in UserIds : users[u] # None => users[u].roles \subseteq RoleNames
    BY DEF TypeOK, User
  <2> QED BY <1>6, <2>1 DEF RolesExist, RoleNames
<1>7. ASSUME NEW n \in CustomRoles, CreateRole(n) PROVE RolesExist'
  BY <1>6, <1>7 DEF CreateRole, TypeOK, RoleNames
<1>8. ASSUME NEW n \in RoleNames, NEW p \in Addable, AddPermission(n, p) \/ RemovePermission(n, p)
      PROVE  RolesExist'
  <2>1. roles'[n] \in SUBSET Permission
    BY <1>8, AccessAssumption DEF AddPermission, RemovePermission, TypeOK
  <2> QED BY <1>6, <1>8, <2>1 DEF AddPermission, RemovePermission, TypeOK
<1>9. ASSUME UNCHANGED <<users, roles>> PROVE RolesExist'
  BY <1>9 DEF RolesExist
<1>10. ASSUME Tick \/ UNCHANGED vars \/ \E s \in SessionIds : RevokeSession(s) PROVE RolesExist'
  BY <1>9, <1>10 DEF Tick, vars, RevokeSession
<1> QED
  BY <1>2, <1>4, <1>5, <1>7, <1>8, <1>10 DEF Next

(* The answers of a role are a non-empty set of truth values.             *)
LEMMA Answers ==
    ASSUME NEW permissions \in SUBSET Permission, NEW resource, NEW action, NEW level \in Levels
    PROVE  /\ HasPermission(permissions, resource, action, level) # {}
           /\ HasPermission(permissions, resource, action, level) \subseteq BOOLEAN
<1> DEFINE matching == Matching(permissions, resource, action)
<1>1. CASE matching = {}
  BY <1>1 DEF HasPermission
<1>2. CASE matching # {}
  <2>1. PICK p \in matching : TRUE
    BY <1>2
  <2>2. HasPermission(permissions, resource, action, level) = {q.level >= level : q \in matching}
    BY <1>2 DEF HasPermission
  <2>3. (p.level >= level) \in HasPermission(permissions, resource, action, level)
    BY <2>1, <2>2
  <2>4. HasPermission(permissions, resource, action, level) # {}
    BY <2>3
  <2>5. HasPermission(permissions, resource, action, level) \subseteq BOOLEAN
    <3>1. \A q \in matching : q.level \in Levels
      BY DEF Matching, Permission
    <3>2. \A q \in matching : (q.level >= level) \in BOOLEAN
      BY <3>1 DEF Levels
    <3> HIDE DEF matching
    <3> QED BY <2>2, <3>2, Zenon
  <2> QED BY <2>4, <2>5
<1> QED BY <1>1, <1>2

(* A role assigned keeps what was certain.                                 *)
Certain(u, resource, action, level, context, hours) ==
    CheckPermission(u, resource, action, level, context, hours) = {TRUE}

LEMMA AssignKeepsCertain ==
    ASSUME TypeOK, NEW u \in UserIds, NEW n \in RoleNames, AssignRole(u, n),
           NEW resource \in Resources, NEW action \in Actions, NEW level \in Levels,
           NEW context \in BOOLEAN, NEW hours \in BOOLEAN,
           Certain(u, resource, action, level, context, hours)
    PROVE  Certain(u, resource, action, level, context, hours)'
<1> DEFINE H(m) == HasPermission(roles[m], resource, action, level)
           byRole == {H(m) : m \in users[u].roles}
           byRoleNext == {H(m) : m \in users'[u].roles}
           abac == context /\ AbacGrants(u, resource, hours)
           granted == \E answers \in byRole : TRUE \in answers
           refused == \A answers \in byRole : FALSE \in answers
           grantedNext == \E answers \in byRoleNext : TRUE \in answers
           refusedNext == \A answers \in byRoleNext : FALSE \in answers
<1>1. /\ users[u] \in User /\ users'[u] = [users[u] EXCEPT !.roles = @ \cup {n}]
      /\ now' = now /\ roles' = roles
  BY DEF AssignRole, TypeOK
<1>2. /\ users'[u] \in User
      /\ users'[u].roles = users[u].roles \cup {n}
      /\ users'[u].active = users[u].active
      /\ users'[u].lockedUntil = users[u].lockedUntil
      /\ users'[u].owner = users[u].owner
  BY <1>1 DEF User
<1>3. ~IsRefused(u)
  BY DEF Certain, CheckPermission
<1>4. ~IsRefused(u)'
  BY <1>1, <1>2, <1>3, AccessAssumption DEF IsRefused, IsLocked
<1>5. CheckPermission(u, resource, action, level, context, hours) =
         (IF granted THEN {TRUE} ELSE {}) \cup (IF refused THEN {abac} ELSE {})
  BY <1>3 DEF CheckPermission
<1>6. CheckPermission(u, resource, action, level, context, hours)' =
         (IF grantedNext THEN {TRUE} ELSE {}) \cup (IF refusedNext THEN {abac} ELSE {})
  <2>1. AbacGrants(u, resource, hours)' = AbacGrants(u, resource, hours)
    BY <1>2 DEF AbacGrants
  <2>2. {HasPermission(roles'[m], resource, action, level) : m \in users'[u].roles} = byRoleNext
    BY <1>1
  <2> QED BY <1>4, <2>1, <2>2 DEF CheckPermission
<1>7. H(n) # {} /\ H(n) \subseteq BOOLEAN
  BY Answers DEF AssignRole, TypeOK
<1>8. byRoleNext = byRole \cup {H(n)}
  BY <1>2
<1> HIDE DEF byRole, byRoleNext, abac, H
<1>9. granted \/ refused
  BY <1>5 DEF Certain
<1>10. refused => abac = TRUE
  <2> SUFFICES ASSUME refused PROVE abac = TRUE
    OBVIOUS
  <2>1. abac \in {TRUE}
    BY <1>5 DEF Certain
  <2> QED BY <2>1
<1>11. grantedNext \/ refusedNext
  BY <1>7, <1>8, <1>9
<1>12. refusedNext => refused
  BY <1>8
<1> QED BY <1>6, <1>10, <1>11, <1>12 DEF Certain

(* A role revoked opens nothing that was impossible.                       *)
LEMMA RevokeOpensNothing ==
    ASSUME TypeOK, RolesExist, NEW u \in UserIds, NEW n \in RoleNames, RevokeRole(u, n),
           NEW resource \in Resources, NEW action \in Actions, NEW level \in Levels,
           NEW context \in BOOLEAN, NEW hours \in BOOLEAN,
           TRUE \in CheckPermission(u, resource, action, level, context, hours)'
    PROVE  TRUE \in CheckPermission(u, resource, action, level, context, hours)
<1> DEFINE H(m) == HasPermission(roles[m], resource, action, level)
           byRole == {H(m) : m \in users[u].roles}
           byRoleNext == {H(m) : m \in users'[u].roles}
           abac == context /\ AbacGrants(u, resource, hours)
           granted == \E answers \in byRole : TRUE \in answers
           refused == \A answers \in byRole : FALSE \in answers
           grantedNext == \E answers \in byRoleNext : TRUE \in answers
           refusedNext == \A answers \in byRoleNext : FALSE \in answers
<1>1. /\ users[u] \in User /\ users'[u] = [users[u] EXCEPT !.roles = @ \ {n}]
      /\ now' = now /\ roles' = roles
  BY DEF RevokeRole, TypeOK
<1>2. /\ users'[u] \in User
      /\ users'[u].roles = users[u].roles \ {n}
      /\ users'[u].active = users[u].active
      /\ users'[u].lockedUntil = users[u].lockedUntil
      /\ users'[u].owner = users[u].owner
  BY <1>1 DEF User
<1>3. ~IsRefused(u)'
  BY DEF CheckPermission
<1>4. ~IsRefused(u)
  BY <1>1, <1>2, <1>3 DEF IsRefused, IsLocked, RevokeRole
<1>5. CheckPermission(u, resource, action, level, context, hours) =
         (IF granted THEN {TRUE} ELSE {}) \cup (IF refused THEN {abac} ELSE {})
  BY <1>4 DEF CheckPermission
<1>6. CheckPermission(u, resource, action, level, context, hours)' =
         (IF grantedNext THEN {TRUE} ELSE {}) \cup (IF refusedNext THEN {abac} ELSE {})
  <2>1. AbacGrants(u, resource, hours)' = AbacGrants(u, resource, hours)
    BY <1>2 DEF AbacGrants
  <2>2. {HasPermission(roles'[m], resource, action, level) : m \in users'[u].roles} = byRoleNext
    BY <1>1
  <2> QED BY <1>3, <2>1, <2>2 DEF CheckPermission
<1>7. \A answers \in byRole : answers # {} /\ answers \subseteq BOOLEAN
  BY <1>4, Answers DEF IsRefused, RolesExist
<1>8. byRoleNext \subseteq byRole
  BY <1>2
<1> HIDE DEF byRole, byRoleNext, abac, H
<1>9. granted \/ refused
  BY <1>7
<1>10. ~grantedNext => abac = TRUE
  <2> SUFFICES ASSUME ~grantedNext PROVE abac = TRUE
    OBVIOUS
  <2>1. TRUE \in {abac}
    BY <1>6
  <2> QED BY <2>1
<1>11. grantedNext => granted
  BY <1>8
<1> QED BY <1>5, <1>9, <1>10, <1>11

(* Roles add up, whatever order the permissions of a role are in.          *)
THEOREM RolesAlwaysAddUp == Spec => RolesAddUp
<1> DEFINE Step == \A u \in UserIds, n \in RoleNames :
                      /\ AssignRole(u, n) => SureToGet(u) \subseteq SureToGet(u)'
                      /\ RevokeRole(u, n) => MayGet(u)' \subseteq MayGet(u)
<1>1. TypeOK /\ RolesExist => Step
  <2> SUFFICES ASSUME TypeOK, RolesExist, NEW u \in UserIds, NEW n \in RoleNames
               PROVE  /\ AssignRole(u, n) => SureToGet(u) \subseteq SureToGet(u)'
                      /\ RevokeRole(u, n) => MayGet(u)' \subseteq MayGet(u)
    OBVIOUS
  <2>1. ASSUME AssignRole(u, n), NEW q \in Requests \X BOOLEAN \X BOOLEAN,
               Certain(u, q[1][1], q[1][2], q[1][3], q[2], q[3])
        PROVE  Certain(u, q[1][1], q[1][2], q[1][3], q[2], q[3])'
    <3>1. /\ q[1][1] \in Resources /\ q[1][2] \in Actions /\ q[1][3] \in Levels
          /\ q[2] \in BOOLEAN /\ q[3] \in BOOLEAN
      BY DEF Requests
    <3> QED BY <2>1, <3>1, AssignKeepsCertain
  <2>2. ASSUME RevokeRole(u, n), NEW q \in Requests \X BOOLEAN \X BOOLEAN,
               TRUE \in CheckPermission(u, q[1][1], q[1][2], q[1][3], q[2], q[3])'
        PROVE  TRUE \in CheckPermission(u, q[1][1], q[1][2], q[1][3], q[2], q[3])
    BY <2>2, RevokeOpensNothing DEF Requests
  <2>3. AssignRole(u, n) => SureToGet(u) \subseteq SureToGet(u)'
    BY <2>1 DEF SureToGet, Certain
  <2>4. RevokeRole(u, n) => MayGet(u)' \subseteq MayGet(u)
    BY <2>2 DEF MayGet
  <2> QED BY <2>3, <2>4
<1>2. Init => RolesExist
  BY SystemRolesType DEF Init, RolesExist, RoleNames
<1>3. Spec => [](TypeOK /\ RolesExist)
  BY <1>2, AccessTypeCorrect, RolesExistStep, PTL DEF Spec
<1> QED BY <1>1, <1>3, PTL DEF RolesAddUp
=============================================================================
