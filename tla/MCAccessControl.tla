--------------------------- MODULE MCAccessControl ---------------------------
(* Small instances of AccessControl for TLC. *)
EXTENDS AccessControl

(* Overlaps what the trader, auditor and super_admin roles hold, at a      *)
(* lower level than trader and super_admin do.                             *)
ReadAnyOrders == [resource |-> "order_management", action |-> "*", level |-> 1]
OverlappingPermissions == {ReadAnyOrders}
NoPermissions == {}

(* Two slices of one state space: locks and logins while the roles are as  *)
(* they were at first, and roles while nobody was ever locked out.         *)
RolesUntouched ==
    /\ \A n \in RoleNames :
          roles[n] = IF n \in SystemRoles THEN SystemPermissions(n) ELSE None
    /\ \A u \in UserIds : users[u] # None => users[u].roles = {"trader"}
LocksUntouched ==
    /\ now = 0
    /\ sessions = [s \in SessionIds |-> None]
    /\ \A u \in UserIds : users[u] # None => users[u].failed = 0 /\ users[u].lockedUntil = 0
WithinSlices == RolesUntouched \/ LocksUntouched
=============================================================================
