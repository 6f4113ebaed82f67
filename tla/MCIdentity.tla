----------------------------- MODULE MCIdentity -----------------------------
(* Small instances of IdentityManager for TLC. *)
EXTENDS IdentityManager, TLC

CONSTANTS i1, i2, i3, alice, bob, p1, desk

Created == {i \in IdentityIds : identities[i] # None}

(* The providers that authenticate nobody are told apart by name only, and *)
(* so is a password set where none is verified: while an identity has one  *)
(* of them, all are active and nobody has logged in.                       *)
Usual(i) ==
    /\ identities[i].provider \in {"local", "ldap", "saml"}
    /\ identities[i].password # None => identities[i].provider = "local"
AsCreated(i) == identities[i].status = "active" /\ ~identities[i].loggedIn

(* Two slices of one state space: names, passwords and statuses of         *)
(* identities in no group, and groups of identities as they were created.  *)
NobodyInAGroup ==
    /\ \A i \in IdentityIds : userGroups[i] = {}
    /\ (\A i \in Created : Usual(i)) \/ (\A i \in Created : AsCreated(i))
NobodyChanged ==
    \A i \in Created :
        /\ identities[i].provider = "saml"
        /\ AsCreated(i) /\ identities[i].password = None
        /\ \A j \in Created : identities[i].username = identities[j].username
WithinSlices == NobodyInAGroup \/ NobodyChanged

Identifiers == Permutations(IdentityIds)
=============================================================================
