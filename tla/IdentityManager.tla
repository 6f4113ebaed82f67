--------------------------- MODULE IdentityManager ---------------------------
(***************************************************************************)
(* core/identity_manager.py: the identities, the groups and the two        *)
(* indices that say who is in which group.                                 *)
(*                                                                         *)
(* Nothing makes a username unique: authenticate_user takes the FIRST      *)
(* identity, in the order of creation, with the name and the provider it   *)
(* is asked for.  `order` is that order.  Identities are never deleted.    *)
(***************************************************************************)
EXTENDS Integers, Sequences

CONSTANTS
    IdentityIds,        \* what uuid4 returns for identities
    Usernames,
    Passwords,
    CreatedGroups,      \* what uuid4 returns for groups
    LdapUsers,          \* config["ldap"]["users"]
    None

VARIABLES
    order,              \* the keys of self._identities, oldest first
    identities,         \* self._identities
    groups,             \* self._groups: the members of each group, or None
    userGroups          \* self._user_groups

vars == <<order, identities, groups, userGroups>>

Providers == {"local", "ldap", "saml", "openid_connect", "active_directory"}
Statuses == {"active", "inactive", "suspended", "locked"}
DefaultGroups == {"traders", "administrators", "auditors"}
GroupIds == DefaultGroups \cup CreatedGroups

(* password is what the stored hash verifies, loggedIn whether last_login  *)
(* is set.  No method reads anything else of an identity.                  *)
Identity == [username : Usernames, provider : Providers, status : Statuses,
             password : Passwords \cup {None}, loggedIn : BOOLEAN]

ASSUME IdentityAssumption ==
    /\ None \notin Passwords \cup Identity \cup IdentityIds
    /\ \A members \in SUBSET IdentityIds : members # None
    /\ DefaultGroups \cap CreatedGroups = {}

TypeOK ==
    /\ order \in Seq(IdentityIds)
    /\ \A i \in IdentityIds : identities[i] # None <=> \E n \in DOMAIN order : order[n] = i
    /\ identities \in [IdentityIds -> Identity \cup {None}]
    /\ groups \in [GroupIds -> (SUBSET IdentityIds) \cup {None}]
    /\ userGroups \in [IdentityIds -> SUBSET GroupIds]

Init ==
    /\ order = <<>>
    /\ identities = [i \in IdentityIds |-> None]
    /\ groups = [g \in GroupIds |-> IF g \in DefaultGroups THEN {} ELSE None]
    /\ userGroups = [i \in IdentityIds |-> {}]

-----------------------------------------------------------------------------
(* Looking identities up. *)

Matches(n, username, provider) ==
    /\ identities[order[n]].username = username
    /\ identities[order[n]].provider = provider

(* BUG for the checks: the newest identity of the name wins. *)
LastMatch(i, username, provider) ==
    \E n \in DOMAIN order :
        /\ order[n] = i
        /\ Matches(n, username, provider)
        /\ \A m \in n + 1 .. Len(order) : ~Matches(m, username, provider)

(* authenticate_user settles on i, whatever its status is. *)
FirstMatch(i, username, provider) ==
    \E n \in DOMAIN order :
        /\ order[n] = i
        /\ Matches(n, username, provider)
        /\ \A m \in 1 .. n - 1 : ~Matches(m, username, provider)

VerifyPassword(i, password) ==
    /\ identities[i].provider = "local"
    /\ identities[i].password = password

-----------------------------------------------------------------------------
(* Identities. *)

(* BUG for the checks: a failed creation is undone in one table only. *)
CreateIdentityUnlisted(i, username, provider, password, hashRaises) ==
    /\ identities[i] = None
    /\ hashRaises => provider = "local" /\ password # None
    /\ identities' = [identities EXCEPT ![i] =
          [username |-> username, provider |-> provider, status |-> "active",
           password |-> None, loggedIn |-> FALSE]]
    /\ order' = IF hashRaises THEN order ELSE Append(order, i)
    /\ userGroups' = [userGroups EXCEPT ![i] = {}]
    /\ UNCHANGED groups

(* The identity is stored before its password is hashed: when hashing      *)
(* raises, what stays is an identity without a password.                   *)
CreateIdentity(i, username, provider, password, hashRaises) ==
    /\ identities[i] = None
    /\ hashRaises => provider = "local" /\ password # None
    /\ identities' = [identities EXCEPT ![i] =
          [username |-> username, provider |-> provider, status |-> "active",
           password |-> IF provider = "local" /\ ~hashRaises THEN password ELSE None,
           loggedIn |-> FALSE]]
    /\ order' = Append(order, i)
    /\ userGroups' = [userGroups EXCEPT ![i] = {}]
    /\ UNCHANGED groups

AuthenticateUser(i, username, password, provider) ==
    /\ FirstMatch(i, username, provider)
    /\ identities[i].status = "active"
    /\ \/ provider = "local" /\ VerifyPassword(i, password)
       \/ provider = "ldap" /\ username \in LdapUsers
    /\ identities' = [identities EXCEPT ![i].loggedIn = TRUE]
    /\ UNCHANGED <<order, groups, userGroups>>

(* update_identity sets any field of the object, and any of its            *)
(* attributes, also the stored hash: to one that verifies a password or to *)
(* something that verifies none.                                           *)
UpdateIdentity(i, new) ==
    /\ identities[i] # None
    /\ identities' = [identities EXCEPT ![i] =
                        [@ EXCEPT !.username = new.username, !.provider = new.provider,
                                  !.status = new.status, !.password = new.password]]
    /\ UNCHANGED <<order, groups, userGroups>>

SetStatus(i, status) ==
    /\ identities[i] # None
    /\ identities' = [identities EXCEPT ![i] = [@ EXCEPT !.status = status]]
    /\ UNCHANGED <<order, groups, userGroups>>

SuspendUser(i) == SetStatus(i, "suspended")
LockUser(i) == SetStatus(i, "locked")
ActivateUser(i) == SetStatus(i, "active")

-----------------------------------------------------------------------------
(* Groups. *)

CreateGroup(g) ==
    /\ groups[g] = None
    /\ groups' = [groups EXCEPT ![g] = {}]
    /\ UNCHANGED <<order, identities, userGroups>>

(* BUG for the checks: an unknown identity is entered in the group. *)
AddAnyToGroup(i, g) ==
    /\ groups[g] # None
    /\ groups' = [groups EXCEPT ![g] = @ \cup {i}]
    /\ userGroups' = [userGroups EXCEPT ![i] = @ \cup {g}]
    /\ UNCHANGED <<order, identities>>

AddUserToGroup(i, g) ==
    /\ identities[i] # None
    /\ groups[g] # None
    /\ groups' = [groups EXCEPT ![g] = @ \cup {i}]
    /\ userGroups' = [userGroups EXCEPT ![i] = @ \cup {g}]
    /\ UNCHANGED <<order, identities>>

RemoveUserFromGroup(i, g) ==
    /\ identities[i] # None
    /\ groups[g] # None
    /\ groups' = [groups EXCEPT ![g] = @ \ {i}]
    /\ userGroups' = [userGroups EXCEPT ![i] = @ \ {g}]
    /\ UNCHANGED <<order, identities>>

-----------------------------------------------------------------------------
Updates == [username : Usernames, provider : Providers, status : Statuses,
            password : Passwords \cup {None}]

Create ==
    \E i \in IdentityIds, username \in Usernames, provider \in Providers,
       password \in Passwords \cup {None}, hashRaises \in BOOLEAN :
          CreateIdentity(i, username, provider, password, hashRaises)
Login ==
    \E i \in IdentityIds, username \in Usernames, password \in Passwords,
       provider \in Providers : AuthenticateUser(i, username, password, provider)
Update == \E i \in IdentityIds, new \in Updates : UpdateIdentity(i, new)
Activate == \E i \in IdentityIds : ActivateUser(i)
Bar == \E i \in IdentityIds : SuspendUser(i) \/ LockUser(i)
Regroup ==
    \E g \in GroupIds :
        \/ CreateGroup(g)
        \/ \E i \in IdentityIds : AddUserToGroup(i, g) \/ RemoveUserFromGroup(i, g)

Next == Create \/ Login \/ Update \/ Activate \/ Bar \/ Regroup

Spec == Init /\ [][Next]_vars

-----------------------------------------------------------------------------
(* PROPERTIES *)

(* The two indices tell the same: get_group_members and get_user_groups    *)
(* never disagree, and a group has no member that does not exist           *)
(* (add_user_to_group, remove_user_from_group, create_identity).           *)
GroupIndexesAgree ==
    \A i \in IdentityIds, g \in GroupIds :
        /\ g \in userGroups[i] <=> groups[g] # None /\ i \in groups[g]
        /\ g \in userGroups[i] => identities[i] # None

IsBarred(username, provider) ==
    \E i \in IdentityIds : FirstMatch(i, username, provider) /\ identities[i].status # "active"

(* Who a name stands for is decided by administration alone.  Usernames    *)
(* are not unique, yet creating a second identity of a name never takes    *)
(* the name over and never lets in the holder of a barred one, and neither *)
(* do logins, suspensions and group changes: a name changes hands only in  *)
(* update_identity, and is let in again only by update_identity or         *)
(* activate_user (authenticate_user takes the first match and stops).  For *)
(* the same reason a creation that is repeated because hashing raised does *)
(* not help: the name stays with what the first attempt left.              *)
NamesAreStable ==
    [][\/ \A username \in Usernames, provider \in Providers :
             /\ \A i \in IdentityIds :
                   FirstMatch(i, username, provider) => FirstMatch(i, username, provider)'
             /\ IsBarred(username, provider) => IsBarred(username, provider)' \/ Activate
       \/ Update]_vars
=============================================================================
