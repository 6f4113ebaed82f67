------------------------ MODULE IdentityManagerProofs ------------------------
(* Theorems about IdentityManager, for every value of its constants. *)
EXTENDS IdentityManager, SequenceTheorems, TLAPS

(* Every state of every behaviour has its type; in particular the order    *)
(* lists exactly the identities that exist.                                *)
LEMMA TypeStep == TypeOK /\ [Next]_vars => TypeOK'
<1> SUFFICES ASSUME TypeOK, [Next]_vars PROVE TypeOK'
  OBVIOUS
<1> USE IdentityAssumption
<1>1. ASSUME NEW i \in IdentityIds, NEW username \in Usernames, NEW provider \in Providers,
             NEW password \in Passwords \cup {None}, NEW hashRaises \in BOOLEAN,
             CreateIdentity(i, username, provider, password, hashRaises)
      PROVE  TypeOK'
  <2>1. identities' \in [IdentityIds -> Identity \cup {None}]
    <3>1. [username |-> username, provider |-> provider, status |-> "active",
           password |-> IF provider = "local" /\ ~hashRaises THEN password ELSE None,
           loggedIn |-> FALSE] \in Identity
      BY DEF Identity, Statuses
    <3> QED BY <1>1, <3>1 DEF CreateIdentity, TypeOK
  <2>2. \A j \in IdentityIds : identities'[j] # None <=> j = i \/ identities[j] # None
    <3> DEFINE new == [username |-> username, provider |-> provider, status |-> "active",
                       password |-> IF provider = "local" /\ ~hashRaises
                                    THEN password ELSE None,
                       loggedIn |-> FALSE]
    <3>1. new \in Identity
      BY DEF Identity, Statuses
    <3>2. identities' = [identities EXCEPT ![i] = new]
      BY <1>1 DEF CreateIdentity
    <3> HIDE DEF new
    <3>3. new # None
      BY <3>1
    <3> QED BY <3>2, <3>3 DEF TypeOK
  <2>3. order' = Append(order, i) /\ order' \in Seq(IdentityIds)
    BY <1>1 DEF CreateIdentity, TypeOK
  <2>4. \A j \in IdentityIds :
           (\E n \in DOMAIN order' : order'[n] = j)
               <=> j = i \/ \E n \in DOMAIN order : order[n] = j
    BY <2>3 DEF TypeOK
  <2>5. \A j \in IdentityIds : identities'[j] # None <=> \E n \in DOMAIN order' : order'[n] = j
    BY <2>2, <2>4 DEF TypeOK
  <2> QED BY <1>1, <2>1, <2>3, <2>5 DEF CreateIdentity, TypeOK
<1>2. ASSUME NEW i \in IdentityIds, NEW new \in Identity, identities[i] # None,
             identities' = [identities EXCEPT ![i] = new],
             UNCHANGED <<order, groups, userGroups>>
      PROVE  TypeOK'
  BY <1>2 DEF TypeOK
<1>3. CASE Login
  <2>1. PICK i \in IdentityIds, username \in Usernames, password \in Passwords,
             provider \in Providers : AuthenticateUser(i, username, password, provider)
    BY <1>3 DEF Login
  <2>2. identities[i] # None
    BY <2>1 DEF AuthenticateUser, FirstMatch, TypeOK
  <2>3. [identities[i] EXCEPT !.loggedIn = TRUE] \in Identity
    <3>1. identities[i] \in Identity
      BY <2>2 DEF TypeOK
    <3> QED BY <3>1 DEF Identity
  <2> QED BY <1>2, <2>1, <2>2, <2>3 DEF AuthenticateUser, TypeOK
<1>4. CASE Update
  <2>1. PICK i \in IdentityIds, new \in Updates : UpdateIdentity(i, new)
    BY <1>4 DEF Update
  <2>2. [identities[i] EXCEPT !.username = new.username, !.provider = new.provider,
                              !.status = new.status, !.password = new.password] \in Identity
    <3>1. identities[i] \in Identity
      BY <2>1 DEF UpdateIdentity, TypeOK
    <3> QED BY <3>1 DEF Identity, Updates
  <2> QED BY <1>2, <2>1, <2>2 DEF UpdateIdentity, TypeOK
<1>5. ASSUME NEW i \in IdentityIds, NEW status \in Statuses, SetStatus(i, status)
      PROVE  TypeOK'
  <2>1. [identities[i] EXCEPT !.status = status] \in Identity
    <3>1. identities[i] \in Identity
      BY <1>5 DEF SetStatus, TypeOK
    <3> QED BY <3>1 DEF Identity
  <2> QED BY <1>2, <1>5, <2>1 DEF SetStatus, TypeOK
<1>6. CASE Activate \/ Bar
  BY <1>5, <1>6 DEF Activate, Bar, ActivateUser, SuspendUser, LockUser, Statuses
<1>7. CASE Regroup
  BY <1>7 DEF Regroup, CreateGroup, AddUserToGroup, RemoveUserFromGroup, TypeOK
<1>8. CASE UNCHANGED vars
  BY <1>8 DEF TypeOK, vars
<1> QED BY <1>1, <1>3, <1>4, <1>6, <1>7, <1>8 DEF Next, Create

THEOREM IdentityTypeCorrect == Spec => []TypeOK
<1>1. Init => TypeOK
  <2> SUFFICES ASSUME Init PROVE TypeOK
    OBVIOUS
  <2>1. order \in Seq(IdentityIds) /\ DOMAIN order = {}
    BY DEF Init
  <2>2. groups \in [GroupIds -> (SUBSET IdentityIds) \cup {None}]
    BY DEF Init
  <2>3. userGroups \in [IdentityIds -> SUBSET GroupIds]
    BY DEF Init
  <2> QED BY <2>1, <2>2, <2>3 DEF Init, TypeOK
<1> QED BY <1>1, TypeStep, PTL DEF Spec

(* The two group indices agree in every state, however identities are      *)
(* created, half created and moved between groups.                         *)
THEOREM GroupIndexesAlwaysAgree == Spec => []GroupIndexesAgree
<1>1. Init => GroupIndexesAgree
  BY DEF Init, GroupIndexesAgree
<1>2. TypeOK /\ GroupIndexesAgree /\ [Next]_vars => GroupIndexesAgree'
  <2> SUFFICES ASSUME TypeOK, GroupIndexesAgree, [Next]_vars PROVE GroupIndexesAgree'
    OBVIOUS
  <2>1. CASE Create
    <3>1. PICK i \in IdentityIds, username \in Usernames, provider \in Providers,
               password \in Passwords \cup {None}, hashRaises \in BOOLEAN :
                  CreateIdentity(i, username, provider, password, hashRaises)
      BY <2>1 DEF Create
    <3>2. \A j \in IdentityIds : identities[j] # None => identities'[j] # None
      BY <3>1 DEF CreateIdentity, TypeOK
    <3>3. userGroups[i] = {} /\ userGroups' = userGroups /\ groups' = groups
      BY <3>1 DEF CreateIdentity, TypeOK, GroupIndexesAgree
    <3> QED BY <3>2, <3>3 DEF GroupIndexesAgree
  <2>2. CASE Login \/ Update \/ Activate \/ Bar
    <3>1. groups' = groups /\ userGroups' = userGroups
      BY <2>2 DEF Login, AuthenticateUser, Update, UpdateIdentity, Activate, Bar,
                  ActivateUser, SuspendUser, LockUser, SetStatus
    <3>2. \A j \in IdentityIds : identities[j] # None => identities'[j] # None
      <4>1. TypeOK'
        BY TypeStep
      <4>2. order' = order
        BY <2>2 DEF Login, AuthenticateUser, Update, UpdateIdentity, Activate, Bar,
                    ActivateUser, SuspendUser, LockUser, SetStatus
      <4> QED BY <4>1, <4>2 DEF TypeOK
    <3> QED BY <3>1, <3>2 DEF GroupIndexesAgree
  <2>3. CASE Regroup
    <3>1. PICK g \in GroupIds :
             CreateGroup(g) \/ \E i \in IdentityIds : AddUserToGroup(i, g)
                                                      \/ RemoveUserFromGroup(i, g)
      BY <2>3 DEF Regroup
    <3>2. CASE CreateGroup(g)
      BY <3>2, IdentityAssumption DEF CreateGroup, TypeOK, GroupIndexesAgree
    <3>3. ASSUME NEW i \in IdentityIds, AddUserToGroup(i, g) PROVE GroupIndexesAgree'
      <4>1. groups[g] \cup {i} \in SUBSET IdentityIds
        BY <3>3 DEF AddUserToGroup, TypeOK
      <4>2. groups[g] \cup {i} # None
        BY <4>1, IdentityAssumption
      <4> QED BY <3>3, <4>2 DEF AddUserToGroup, TypeOK, GroupIndexesAgree
    <3>4. ASSUME NEW i \in IdentityIds, RemoveUserFromGroup(i, g) PROVE GroupIndexesAgree'
      <4>1. groups[g] \ {i} \in SUBSET IdentityIds
        BY <3>4 DEF RemoveUserFromGroup, TypeOK
      <4>2. groups[g] \ {i} # None
        BY <4>1, IdentityAssumption
      <4> QED BY <3>4, <4>2 DEF RemoveUserFromGroup, TypeOK, GroupIndexesAgree
    <3> QED BY <3>1, <3>2, <3>3, <3>4
  <2>4. CASE UNCHANGED vars
    BY <2>4 DEF vars, GroupIndexesAgree
  <2> QED BY <2>1, <2>2, <2>3, <2>4 DEF Next
<1> QED BY <1>1, <1>2, IdentityTypeCorrect, PTL DEF Spec

-----------------------------------------------------------------------------
(* A step that keeps the name and the provider of every listed identity,   *)
(* and at most adds new identities at the end, moves no name.              *)
LEMMA SameFirstMatch ==
    ASSUME TypeOK, NEW i \in IdentityIds, NEW username \in Usernames, NEW provider \in Providers,
           order' \in Seq(IdentityIds), Len(order) <= Len(order'),
           \A n \in DOMAIN order :
               /\ order'[n] = order[n]
               /\ identities'[order[n]].username = identities[order[n]].username
               /\ identities'[order[n]].provider = identities[order[n]].provider,
           FirstMatch(i, username, provider)
    PROVE  FirstMatch(i, username, provider)'
<1>1. PICK n \in DOMAIN order : /\ order[n] = i
                                /\ Matches(n, username, provider)
                                /\ \A m \in 1 .. n - 1 : ~Matches(m, username, provider)
  BY DEF FirstMatch
<1>2. n \in 1 .. Len(order) /\ Len(order) \in Nat /\ n \in DOMAIN order'
  BY DEF TypeOK
<1>3. order'[n] = i /\ Matches(n, username, provider)'
  BY <1>1 DEF Matches
<1>4. \A m \in 1 .. n - 1 : ~Matches(m, username, provider)'
  <2>1. \A m \in 1 .. n - 1 : m \in DOMAIN order
    BY <1>2 DEF TypeOK
  <2> QED BY <1>1, <2>1 DEF Matches
<1> QED BY <1>2, <1>3, <1>4 DEF FirstMatch

(* No sequence of calls moves a name, or lets in the holder of a barred    *)
(* one, without an update or an activation.                                *)
THEOREM NamesMoveOnlyByUpdate == Spec => NamesAreStable
<1> DEFINE Stable(username, provider) ==
              /\ \A i \in IdentityIds :
                    FirstMatch(i, username, provider) => FirstMatch(i, username, provider)'
              /\ IsBarred(username, provider) => IsBarred(username, provider)' \/ Activate
<1>1. TypeOK /\ [Next]_vars =>
         \/ \A username \in Usernames, provider \in Providers : Stable(username, provider)
         \/ Update
  <2> SUFFICES ASSUME TypeOK, [Next]_vars, ~Update, NEW username \in Usernames,
                      NEW provider \in Providers
               PROVE  Stable(username, provider)
    OBVIOUS
  <2>1. TypeOK'
    BY TypeStep
  <2>2. ASSUME ~Update
        PROVE  /\ Len(order) <= Len(order')
               /\ \A n \in DOMAIN order :
                     /\ order'[n] = order[n]
                     /\ identities'[order[n]].username = identities[order[n]].username
                     /\ identities'[order[n]].provider = identities[order[n]].provider
                     /\ ~Activate /\ identities[order[n]].status # "active"
                           => identities'[order[n]].status # "active"
    <3>1. \A n \in DOMAIN order : order[n] \in IdentityIds /\ identities[order[n]] # None
                                  /\ identities[order[n]] \in Identity
      BY DEF TypeOK
    <3>2. CASE Create
      <4>1. PICK i \in IdentityIds, name \in Usernames, where \in Providers,
                 password \in Passwords \cup {None}, hashRaises \in BOOLEAN :
                    CreateIdentity(i, name, where, password, hashRaises)
        BY <3>2 DEF Create
      <4>2. Len(order') = Len(order) + 1 /\ \A n \in DOMAIN order : order'[n] = order[n]
        BY <4>1 DEF CreateIdentity, TypeOK
      <4>3. \A j \in IdentityIds : identities[j] # None => identities'[j] = identities[j]
        BY <4>1 DEF CreateIdentity, TypeOK
      <4> QED BY <3>1, <4>2, <4>3 DEF TypeOK
    <3>3. CASE Login
      BY <3>1, <3>3 DEF Login, AuthenticateUser, TypeOK, Identity
    <3>4. CASE Activate
      <4>1. PICK i \in IdentityIds : SetStatus(i, "active")
        BY <3>4 DEF Activate, ActivateUser
      <4> QED BY <3>1, <3>4, <4>1 DEF SetStatus, TypeOK, Identity
    <3>5. CASE Bar
      BY <3>1, <3>5 DEF Bar, SuspendUser, LockUser, SetStatus, TypeOK, Identity
    <3>6. CASE Regroup \/ UNCHANGED vars
      BY <3>6 DEF Regroup, CreateGroup, AddUserToGroup, RemoveUserFromGroup, vars, TypeOK
    <3> QED BY <2>2, <3>2, <3>3, <3>4, <3>5, <3>6 DEF Next
  <2>3. ASSUME NEW i \in IdentityIds, FirstMatch(i, username, provider), ~Update
        PROVE  FirstMatch(i, username, provider)'
    <3>1. order' \in Seq(IdentityIds)
      BY <2>1 DEF TypeOK
    <3> QED BY <2>2, <2>3, <3>1, SameFirstMatch
  <2>4. ASSUME IsBarred(username, provider), ~Update, ~Activate
        PROVE  IsBarred(username, provider)'
    <3>1. PICK i \in IdentityIds :
             FirstMatch(i, username, provider) /\ identities[i].status # "active"
      BY <2>4 DEF IsBarred
    <3>2. identities'[i].status # "active"
      BY <2>2, <2>4, <3>1 DEF FirstMatch
    <3> QED BY <2>3, <2>4, <3>1, <3>2 DEF IsBarred
  <2> QED BY <2>3, <2>4
<1> HIDE DEF Stable
<1>2. Spec => [][\/ \A username \in Usernames, provider \in Providers :
                       Stable(username, provider)
                 \/ Update]_vars
  BY <1>1, IdentityTypeCorrect, PTL DEF Spec
<1> QED BY <1>2 DEF NamesAreStable, Stable
=============================================================================
