------------------------ MODULE OAuth2ProviderProofs ------------------------
(* Theorems about OAuth2Provider, for every value of its constants. *)
EXTENDS OAuth2Provider, TLAPS

(* Each action of Next preserves TypeOK; IssueAccessToken is the common    *)
(* part of the three that create tokens.                                   *)
LEMMA IssueType ==
    ASSUME TypeOK,
           NEW a \in AccessIds, NEW r \in RefreshIds \cup {None}, NEW k \in ClientIds,
           NEW u \in UserIds \cup {None}, NEW sc \in SUBSET Scopes,
           NEW link \in RefreshIds \cup {None}, NEW c \in CodeIds \cup {None},
           NEW refreshNow \in [RefreshIds -> RefreshToken \cup {None}],
           r # None => u # None,
           IssueAccessToken(a, r, k, u, sc, link, c, refreshNow)
    PROVE  /\ access' \in [AccessIds -> AccessToken \cup {None}]
           /\ refresh' \in [RefreshIds -> RefreshToken \cup {None}]
           /\ issued' \subseteq CodeIds \cup TokenIds
           /\ origin' \in [TokenIds -> CodeIds \cup {None}]
<1> USE LifetimeAssumption
<1>1. now + TokenLifetime \in Nat /\ now + RefreshLifetime \in Nat
  BY DEF TypeOK
<1>2. access' \in [AccessIds -> AccessToken \cup {None}]
  <2>1. [client |-> k, user |-> u, scopes |-> sc,
         expires |-> now + TokenLifetime, refresh |-> link] \in AccessToken
    BY <1>1 DEF AccessToken
  <2> QED BY <2>1 DEF TypeOK, IssueAccessToken
<1>3. refresh' \in [RefreshIds -> RefreshToken \cup {None}]
  <2>1. ASSUME r # None PROVE NewRefreshToken(k, u, sc) \in RefreshToken
    BY <1>1, <2>1 DEF NewRefreshToken, RefreshToken
  <2>2. ASSUME NEW t \in RefreshIds
        PROVE  (IF t = r THEN NewRefreshToken(k, u, sc) ELSE refreshNow[t])
                   \in RefreshToken \cup {None}
    BY <2>1, NoneAssumption DEF TokenIds
  <2> QED BY <2>2 DEF IssueAccessToken
<1>4. issued' \subseteq CodeIds \cup TokenIds
  BY DEF TypeOK, IssueAccessToken, TokenIds
<1>5. origin' \in [TokenIds -> CodeIds \cup {None}]
  BY DEF TypeOK, IssueAccessToken
<1> QED BY <1>2, <1>3, <1>4, <1>5

(* Every state of every behaviour has its type.                            *)
THEOREM TypeCorrect == Spec => []TypeOK
<1>1. Init => TypeOK
  BY DEF Init, TypeOK
<1>2. TypeOK /\ [Next]_vars => TypeOK'
  <2> SUFFICES ASSUME TypeOK, [Next]_vars PROVE TypeOK'
    OBVIOUS
  <2> USE LifetimeAssumption, RegistrationsAssumption
  <2>1. ASSUME NEW k \in ClientIds, NEW reg \in Registrations, RegisterClient(k, reg)
        PROVE  TypeOK'
    BY <2>1 DEF TypeOK, RegisterClient
  <2>2. ASSUME NEW u \in UserIds, RegisterUser(u) \/ DeactivateUser(u) PROVE TypeOK'
    BY <2>2 DEF TypeOK, RegisterUser, DeactivateUser
  <2>3. CASE Tick
    BY <2>3 DEF TypeOK, Tick, admin
  <2>4. ASSUME NEW c \in CodeIds \ issued, NEW k \in ClientIds, NEW u \in UserIds,
               NEW uri \in RedirectUris, NEW sc \in SUBSET Scopes,
               NEW challenge \in Texts \cup {None}, NEW method \in Methods \cup {None},
               GenerateAuthorizationCode(c, k, u, uri, sc, challenge, method)
        PROVE  TypeOK'
    <3>1. [client |-> k, user |-> u, redirect |-> uri, scopes |-> sc,
           challenge |-> challenge, method |-> method,
           expires |-> now + CodeLifetime, used |-> FALSE] \in AuthorizationCode
      BY DEF TypeOK, AuthorizationCode
    <3>2. [client |-> k, user |-> u, scopes |-> sc] \in Consent
      BY DEF Consent
    <3> QED BY <2>4, <3>1, <3>2 DEF TypeOK, GenerateAuthorizationCode, admin
  <2>5. ASSUME NEW c \in CodeIds, NEW k \in ClientIds, NEW uri \in RedirectUris,
               NEW v \in Texts \cup {None}, ValidateAuthorizationCode(c, k, uri, v)
        PROVE  TypeOK'
    <3>1. codes[c] \in AuthorizationCode
      BY <2>5 DEF TypeOK, ValidateAuthorizationCode, CodeIsValid
    <3>2. [codes[c] EXCEPT !.used = TRUE] \in AuthorizationCode
      BY <3>1 DEF AuthorizationCode
    <3>3. /\ codes' = [codes EXCEPT ![c] = [codes[c] EXCEPT !.used = TRUE]]
          /\ codes'[c] = [codes[c] EXCEPT !.used = TRUE]
      BY <2>5 DEF TypeOK, ValidateAuthorizationCode
    <3>4. codes' \in [CodeIds -> AuthorizationCode \cup {None}]
      BY <3>2, <3>3 DEF TypeOK
    <3>5. held' \in [CodeIds -> AuthorizationCode \cup {None}]
      BY <2>5, <3>2, <3>3 DEF TypeOK, ValidateAuthorizationCode
    <3> QED BY <2>5, <3>4, <3>5 DEF TypeOK, ValidateAuthorizationCode, admin
  <2>6. ASSUME NEW a \in AccessIds \ issued, NEW c \in CodeIds, NEW r \in RefreshIds,
               ExchangeCode(c, a, r)
        PROVE  TypeOK'
    <3>1. held[c] \in AuthorizationCode
      BY <2>6 DEF TypeOK, ExchangeCode
    <3>2. /\ held[c].client \in ClientIds
          /\ held[c].user \in UserIds
          /\ held[c].scopes \in SUBSET Scopes
      BY <3>1 DEF AuthorizationCode
    <3>3. held[c].user # None
      BY <3>2, NoneAssumption
    <3>4. IssueAccessToken(a, r, held[c].client, held[c].user, held[c].scopes, r, c, refresh)
      BY <2>6 DEF ExchangeCode
    <3>5. refresh \in [RefreshIds -> RefreshToken \cup {None}]
      BY DEF TypeOK
    <3>6. /\ access' \in [AccessIds -> AccessToken \cup {None}]
          /\ refresh' \in [RefreshIds -> RefreshToken \cup {None}]
          /\ issued' \subseteq CodeIds \cup TokenIds
          /\ origin' \in [TokenIds -> CodeIds \cup {None}]
      BY <3>2, <3>3, <3>4, <3>5, IssueType
    <3> QED BY <2>6, <3>6 DEF TypeOK, ExchangeCode, admin
  <2>7. ASSUME NEW a \in AccessIds \ issued, NEW k \in ClientIds,
               NEW u \in UserIds \cup {None}, NEW sc \in SUBSET Scopes,
               NEW grant \in GrantTypes, GenerateAccessToken(a, k, u, sc, grant)
        PROVE  TypeOK'
    <3>1. IssueAccessToken(a, None, k, u, sc, None, None, refresh)
      BY <2>7 DEF GenerateAccessToken
    <3>2. refresh \in [RefreshIds -> RefreshToken \cup {None}]
      BY DEF TypeOK
    <3>3. /\ access' \in [AccessIds -> AccessToken \cup {None}]
          /\ refresh' \in [RefreshIds -> RefreshToken \cup {None}]
          /\ issued' \subseteq CodeIds \cup TokenIds
          /\ origin' \in [TokenIds -> CodeIds \cup {None}]
      BY <3>1, <3>2, IssueType
    <3> QED BY <2>7, <3>3 DEF TypeOK, GenerateAccessToken, admin
  <2>8. ASSUME NEW a \in AccessIds \ issued, NEW t \in RefreshIds, NEW r \in RefreshIds,
               NEW k \in ClientIds, RefreshAccessToken(t, k, a, r)
        PROVE  TypeOK'
    <3>1. refresh[t] \in RefreshToken
      BY <2>8 DEF TypeOK, RefreshAccessToken, RefreshIsValid
    <3>2. /\ refresh[t].user \in UserIds
          /\ refresh[t].scopes \in SUBSET Scopes
          /\ [refresh[t] EXCEPT !.used = TRUE] \in RefreshToken
      BY <3>1 DEF RefreshToken
    <3>3. refresh[t].user # None
      BY <3>2, NoneAssumption
    <3>4. /\ refresh \in [RefreshIds -> RefreshToken \cup {None}]
          /\ [refresh EXCEPT ![t].used = TRUE] \in [RefreshIds -> RefreshToken \cup {None}]
      BY <3>2 DEF TypeOK
    <3>5. origin[t] \in CodeIds \cup {None}
      BY DEF TypeOK, TokenIds
    <3>6. \/ IssueAccessToken(a, r, k, refresh[t].user, refresh[t].scopes, r, origin[t],
                              [refresh EXCEPT ![t].used = TRUE])
          \/ IssueAccessToken(a, None, k, refresh[t].user, refresh[t].scopes, t, origin[t],
                              refresh)
      BY <2>8 DEF RefreshAccessToken
    <3>7. /\ access' \in [AccessIds -> AccessToken \cup {None}]
          /\ refresh' \in [RefreshIds -> RefreshToken \cup {None}]
          /\ issued' \subseteq CodeIds \cup TokenIds
          /\ origin' \in [TokenIds -> CodeIds \cup {None}]
      <4>1. CASE IssueAccessToken(a, r, k, refresh[t].user, refresh[t].scopes, r, origin[t],
                                  [refresh EXCEPT ![t].used = TRUE])
        <5> DEFINE usedUp == [refresh EXCEPT ![t].used = TRUE]
        <5>1. /\ usedUp \in [RefreshIds -> RefreshToken \cup {None}]
              /\ IssueAccessToken(a, r, k, refresh[t].user, refresh[t].scopes, r,
                                  origin[t], usedUp)
          BY <3>4, <4>1
        <5> HIDE DEF usedUp
        <5> QED BY <3>2, <3>3, <3>5, <5>1, IssueType
      <4>2. CASE IssueAccessToken(a, None, k, refresh[t].user, refresh[t].scopes, t,
                                  origin[t], refresh)
        BY <3>2, <3>4, <3>5, <4>2, IssueType
      <4> QED BY <3>6, <4>1, <4>2
    <3> QED BY <2>8, <3>7 DEF TypeOK, RefreshAccessToken, admin
  <2>9. ASSUME NEW t \in TokenIds, RevokeToken(t) PROVE TypeOK'
    <3>1. ASSUME t \in RefreshIds, refresh[t] # None
          PROVE  [refresh EXCEPT ![t].used = TRUE] \in [RefreshIds -> RefreshToken \cup {None}]
      <4>1. refresh[t] \in RefreshToken
        BY <3>1 DEF TypeOK
      <4>2. [refresh[t] EXCEPT !.used = TRUE] \in RefreshToken
        BY <4>1 DEF RefreshToken
      <4> QED BY <4>2 DEF TypeOK
    <3> QED BY <2>9, <3>1 DEF TypeOK, RevokeToken, admin
  <2>10. CASE CleanupExpiredTokens
    BY <2>10 DEF TypeOK, CleanupExpiredTokens, admin
  <2>11. CASE UNCHANGED vars
    BY <2>11 DEF TypeOK, vars
  <2> QED BY <2>1, <2>2, <2>3, <2>4, <2>5, <2>6, <2>7, <2>8, <2>9, <2>10, <2>11 DEF Next
<1> QED BY <1>1, <1>2, PTL DEF Spec
-----------------------------------------------------------------------------
(* What one call of _issue_access_token does to the histories: it can only *)
(* add the identifiers it generated, and the tokens that gain a descent    *)
(* are those two.                                                          *)
LEMMA IssueHistory ==
    ASSUME TypeOK,
           NEW a \in AccessIds, NEW r \in RefreshIds \cup {None},
           NEW k, NEW u, NEW sc, NEW link, NEW c, NEW refreshNow,
           IssueAccessToken(a, r, k, u, sc, link, c, refreshNow)
    PROVE  /\ issued \subseteq issued'
           /\ r # None => r \notin issued /\ r \in issued'
           /\ \A t \in TokenIds : origin'[t] = IF t \in {a, r} THEN c ELSE origin[t]
           /\ \A t \in RefreshIds :
                 refresh'[t] = IF t = r THEN NewRefreshToken(k, u, sc) ELSE refreshNow[t]
           /\ \A t \in RefreshIds : t # a
BY IdentifierAssumption, NoneAssumption DEF IssueAccessToken, TokenIds

(* ConsentInv is inductive relative to TypeOK.                             *)
LEMMA ConsentStep == TypeOK /\ ConsentInv /\ [Next]_vars => ConsentInv'
<1> SUFFICES ASSUME TypeOK, ConsentInv, [Next]_vars PROVE ConsentInv'
  OBVIOUS
<1>1. ASSUME NEW k \in ClientIds, NEW reg \in Registrations, RegisterClient(k, reg)
      PROVE  ConsentInv'
  BY <1>1 DEF ConsentInv, Redeemed, RegisterClient
<1>2. ASSUME NEW u \in UserIds, RegisterUser(u) \/ DeactivateUser(u) PROVE ConsentInv'
  BY <1>2 DEF ConsentInv, Redeemed, RegisterUser, DeactivateUser
<1>3. CASE Tick
  BY <1>3 DEF ConsentInv, Redeemed, Tick
<1>4. ASSUME NEW c \in CodeIds \ issued, NEW k \in ClientIds, NEW u \in UserIds,
             NEW uri \in RedirectUris, NEW sc \in SUBSET Scopes,
             NEW challenge \in Texts \cup {None}, NEW method \in Methods \cup {None},
             GenerateAuthorizationCode(c, k, u, uri, sc, challenge, method)
      PROVE  ConsentInv'
  <2>1. /\ issued' = issued \cup {c}
        /\ \A d \in CodeIds : d # c => codes'[d] = codes[d]
        /\ held' = held /\ refresh' = refresh /\ origin' = origin
    BY <1>4 DEF GenerateAuthorizationCode, TypeOK
  <2>2. \A t \in TokenIds : origin[t] # None => origin[t] \in CodeIds
    BY DEF TypeOK
  <2> QED BY <2>1, <2>2 DEF ConsentInv, Redeemed
<1>5. ASSUME NEW c \in CodeIds, NEW k \in ClientIds, NEW uri \in RedirectUris,
             NEW v \in Texts \cup {None}, ValidateAuthorizationCode(c, k, uri, v)
      PROVE  ConsentInv'
  <2>1. codes[c] \in AuthorizationCode /\ ~codes[c].used
    BY <1>5 DEF TypeOK, ValidateAuthorizationCode, CodeIsValid
  <2>2. /\ codes' = [codes EXCEPT ![c].used = TRUE]
        /\ held' = [held EXCEPT ![c] = codes'[c]]
        /\ issued' = issued /\ refresh' = refresh /\ origin' = origin
    BY <1>5 DEF ValidateAuthorizationCode
  <2>3. codes'[c].used /\ \A d \in CodeIds : d # c => codes'[d] = codes[d]
    BY <2>1, <2>2 DEF TypeOK, AuthorizationCode
  <2>4. \A d \in CodeIds : d # c => held'[d] = held[d]
    BY <2>2 DEF TypeOK
  <2>5. c \in issued
    BY <2>1, NoneAssumption DEF ConsentInv
  <2>6. \A t \in TokenIds : origin[t] # None => origin[t] \in CodeIds /\ origin[t] # c
    BY <2>1, NoneAssumption DEF TypeOK, ConsentInv, Redeemed
  <2> QED BY <2>2, <2>3, <2>4, <2>5, <2>6 DEF ConsentInv, Redeemed
<1>6. ASSUME NEW a \in AccessIds \ issued, NEW c \in CodeIds, NEW r \in RefreshIds,
             ExchangeCode(c, a, r)
      PROVE  ConsentInv'
  <2>1. /\ held[c] # None /\ held' = [held EXCEPT ![c] = None] /\ codes' = codes
        /\ IssueAccessToken(a, r, held[c].client, held[c].user, held[c].scopes, r, c, refresh)
    BY <1>6 DEF ExchangeCode
  <2>2. r # None
    BY NoneAssumption DEF TokenIds
  <2>3. /\ issued \subseteq issued' /\ r \notin issued /\ r \in issued'
        /\ \A t \in TokenIds : origin'[t] = IF t \in {a, r} THEN c ELSE origin[t]
        /\ \A t \in RefreshIds : t # r => refresh'[t] = refresh[t]
        /\ \A t \in RefreshIds : t # a
    BY <2>1, <2>2, IssueHistory
  <2>4. \A d \in CodeIds : held'[d] = IF d = c THEN None ELSE held[d]
    BY <2>1 DEF TypeOK
  <2>5. Redeemed(c) /\ c # None
    BY <2>1, NoneAssumption DEF ConsentInv
  <2>6. \A t \in TokenIds : origin[t] # c
    BY <2>1, <2>5 DEF ConsentInv
  <2>7. \A t \in TokenIds : origin[t] # None => origin[t] \in CodeIds
    BY DEF TypeOK
  <2>8. \A t \in RefreshIds : t \in TokenIds
    BY DEF TokenIds
  <2> QED BY <2>1, <2>3, <2>4, <2>5, <2>6, <2>7, <2>8 DEF ConsentInv, Redeemed
<1>7. ASSUME NEW a \in AccessIds \ issued, NEW k \in ClientIds,
             NEW u \in UserIds \cup {None}, NEW sc \in SUBSET Scopes,
             NEW grant \in GrantTypes, GenerateAccessToken(a, k, u, sc, grant)
      PROVE  ConsentInv'
  <2>1. /\ IssueAccessToken(a, None, k, u, sc, None, None, refresh)
        /\ codes' = codes /\ held' = held
    BY <1>7 DEF GenerateAccessToken
  <2>2. /\ issued \subseteq issued'
        /\ \A t \in TokenIds : origin'[t] = IF t \in {a, None} THEN None ELSE origin[t]
        /\ \A t \in RefreshIds : t # a
    BY <2>1, IssueHistory
  <2>3. \A t \in RefreshIds : t \in TokenIds /\ t # None
    BY NoneAssumption DEF TokenIds
  <2>4. \A t \in RefreshIds : refresh'[t] = refresh[t]
    BY <2>1, <2>3, IssueHistory
  <2> QED BY <2>1, <2>2, <2>3, <2>4 DEF ConsentInv, Redeemed
<1>8. ASSUME NEW a \in AccessIds \ issued, NEW t \in RefreshIds, NEW r \in RefreshIds,
             NEW k \in ClientIds, RefreshAccessToken(t, k, a, r)
      PROVE  ConsentInv'
  <2>1. refresh[t] \in RefreshToken /\ ~refresh[t].used /\ refresh[t] # None
    BY <1>8 DEF TypeOK, RefreshAccessToken, RefreshIsValid
  <2>2. codes' = codes /\ held' = held
    BY <1>8 DEF RefreshAccessToken
  <2>3. r # None /\ \A s \in RefreshIds : s \in TokenIds /\ s # None
    BY NoneAssumption DEF TokenIds
  <2>4. CASE IssueAccessToken(a, r, k, refresh[t].user, refresh[t].scopes, r, origin[t],
                              [refresh EXCEPT ![t].used = TRUE])
    <3>1. /\ issued \subseteq issued' /\ r \notin issued /\ r \in issued'
          /\ \A s \in TokenIds : origin'[s] = IF s \in {a, r} THEN origin[t] ELSE origin[s]
          /\ \A s \in RefreshIds :
                s # r => refresh'[s] = [refresh EXCEPT ![t].used = TRUE][s]
          /\ \A s \in RefreshIds : s # a
      <4> DEFINE usedUp == [refresh EXCEPT ![t].used = TRUE]
      <4>1. IssueAccessToken(a, r, k, refresh[t].user, refresh[t].scopes, r, origin[t], usedUp)
        BY <2>4
      <4> HIDE DEF usedUp
      <4>2. /\ issued \subseteq issued' /\ r \notin issued /\ r \in issued'
            /\ \A s \in TokenIds : origin'[s] = IF s \in {a, r} THEN origin[t] ELSE origin[s]
            /\ \A s \in RefreshIds : s # r => refresh'[s] = usedUp[s]
            /\ \A s \in RefreshIds : s # a
        BY <2>3, <4>1, IssueHistory
      <4> QED BY <4>2 DEF usedUp
    <3>2. t # r
      BY <2>1, <3>1 DEF ConsentInv
    <3>3. /\ refresh'[t] = [refresh[t] EXCEPT !.used = TRUE]
          /\ \A s \in RefreshIds : s \notin {r, t} => refresh'[s] = refresh[s]
      BY <3>1, <3>2 DEF TypeOK
    <3>4. refresh'[t].used /\ t \in issued /\ origin[t] # None
      BY <2>1, <3>3 DEF RefreshToken, ConsentInv
    <3>5. \A s \in RefreshIds : s \notin {r, t} /\ refresh[s] # None /\ ~refresh[s].used
                                 => origin[s] # origin[t]
      BY <2>1 DEF ConsentInv
    <3> HIDE DEF Redeemed
    <3>6. \A c \in CodeIds : Redeemed(c) => Redeemed(c)'
      BY <2>2, <3>1 DEF Redeemed
    <3>7. \A s \in TokenIds : origin[s] # None => origin[s] \in CodeIds
      BY DEF TypeOK
    <3>8. (\A c \in CodeIds : codes[c] # None => c \in issued)'
      BY <2>2, <3>1 DEF ConsentInv
    <3>9. (\A c \in CodeIds : held[c] # None => Redeemed(c))'
      BY <2>2, <3>6 DEF ConsentInv
    <3>10. (\A s \in RefreshIds : refresh[s] # None => s \in issued /\ origin[s] # None)'
      BY <2>3, <3>1, <3>3, <3>4 DEF ConsentInv
    <3>11. (\A s \in TokenIds : origin[s] # None => Redeemed(origin[s]) /\ held[origin[s]] = None)'
      <4>1. Redeemed(origin[t]) /\ held[origin[t]] = None
        BY <2>3, <3>4 DEF ConsentInv
      <4>2. ASSUME NEW s \in TokenIds, origin'[s] # None
            PROVE  /\ origin'[s] \in issued'
                   /\ codes'[origin'[s]] = None \/ codes'[origin'[s]].used
                   /\ held'[origin'[s]] = None
        <5>1. origin'[s] = origin[t] \/ origin'[s] = origin[s]
          BY <3>1
        <5>2. Redeemed(origin'[s]) /\ held[origin'[s]] = None /\ origin'[s] \in CodeIds
          BY <2>3, <4>1, <4>2, <5>1, <3>7 DEF ConsentInv
        <5> QED BY <2>2, <5>2, <3>1 DEF Redeemed
      <4> QED BY <4>2 DEF Redeemed
    <3>12. (\A r1, r2 \in RefreshIds :
              /\ refresh[r1] # None /\ ~refresh[r1].used
              /\ refresh[r2] # None /\ ~refresh[r2].used
              /\ origin[r1] = origin[r2]
              => r1 = r2)'
      <4>1. \A s \in RefreshIds : origin'[s] = IF s = r THEN origin[t] ELSE origin[s]
        BY <2>3, <3>1
      <4>2. \A s \in RefreshIds : refresh'[s] # None /\ ~refresh'[s].used =>
               s = r \/ (s \notin {r, t} /\ refresh[s] # None /\ ~refresh[s].used)
        BY <3>3, <3>4
      <4>3. \A x, y \in RefreshIds :
               /\ refresh[x] # None /\ ~refresh[x].used
               /\ refresh[y] # None /\ ~refresh[y].used
               /\ origin[x] = origin[y]
               => x = y
        BY DEF ConsentInv
      <4> QED BY <3>5, <4>1, <4>2, <4>3
    <3> QED BY <3>8, <3>9, <3>10, <3>11, <3>12 DEF ConsentInv
  <2>5. CASE IssueAccessToken(a, None, k, refresh[t].user, refresh[t].scopes, t, origin[t],
                              refresh)
    <3>1. /\ issued \subseteq issued'
          /\ \A s \in TokenIds : origin'[s] = IF s \in {a, None} THEN origin[t] ELSE origin[s]
          /\ \A s \in RefreshIds : s # a
      BY <2>5, IssueHistory
    <3>2. \A s \in RefreshIds : refresh'[s] = refresh[s] /\ origin'[s] = origin[s]
      <4>1. \A s \in RefreshIds :
               refresh'[s] = IF s = None THEN NewRefreshToken(k, refresh[t].user,
                                                              refresh[t].scopes)
                             ELSE refresh[s]
        BY <2>5 DEF IssueAccessToken
      <4> QED BY <2>3, <3>1, <4>1
    <3>3. \A s \in TokenIds : origin'[s] # None =>
             /\ origin'[s] \in CodeIds
             /\ Redeemed(origin'[s]) /\ held[origin'[s]] = None
      BY <2>3, <3>1 DEF TypeOK, ConsentInv
    <3> QED BY <2>2, <3>1, <3>2, <3>3 DEF ConsentInv, Redeemed
  <2> QED BY <1>8, <2>4, <2>5 DEF RefreshAccessToken
<1>9. ASSUME NEW t \in TokenIds, RevokeToken(t) PROVE ConsentInv'
  <2>1. /\ codes' = codes /\ held' = held /\ issued' = issued /\ origin' = origin
    BY <1>9 DEF RevokeToken
  <2>2. ASSUME NEW r \in RefreshIds
        PROVE  /\ refresh'[r] # None => refresh[r] # None
               /\ refresh'[r] # None /\ ~refresh'[r].used => ~refresh[r].used
    <3>1. CASE refresh' = refresh
      BY <3>1
    <3>2. CASE t \in RefreshIds /\ refresh[t] # None
               /\ refresh' = [refresh EXCEPT ![t].used = TRUE]
      <4>1. refresh[t] \in RefreshToken
        BY <3>2 DEF TypeOK
      <4> QED BY <3>2, <4>1 DEF TypeOK, RefreshToken
    <3> QED BY <1>9, <3>1, <3>2 DEF RevokeToken
  <2> QED BY <2>1, <2>2 DEF ConsentInv, Redeemed
<1>10. CASE CleanupExpiredTokens
  <2>1. /\ held' = held /\ issued' = issued /\ origin' = origin
        /\ \A c \in CodeIds : codes'[c] \in {codes[c], None}
        /\ \A r \in RefreshIds : refresh'[r] \in {refresh[r], None}
    BY <1>10 DEF CleanupExpiredTokens
  <2>2. \A t \in TokenIds : origin[t] # None => origin[t] \in CodeIds
    BY DEF TypeOK
  <2> QED BY <2>1, <2>2 DEF ConsentInv, Redeemed
<1>11. CASE UNCHANGED vars
  BY <1>11 DEF ConsentInv, Redeemed, vars
<1> QED BY <1>1, <1>2, <1>3, <1>4, <1>5, <1>6, <1>7, <1>8, <1>9, <1>10, <1>11 DEF Next

(* The strengthened invariant holds in every state of every behaviour.     *)
THEOREM ConsentInvariant == Spec => []ConsentInv
<1>1. Init => ConsentInv
  BY NoneAssumption DEF Init, ConsentInv, Redeemed, TokenIds
<1> QED BY <1>1, ConsentStep, TypeCorrect, PTL DEF Spec

(* At most one usable refresh token descends from a code: rotation and the *)
(* single redemption of codes (refresh_access_token,                       *)
(* validate_authorization_code) leave no room for a second.                *)
THEOREM AtMostOneRefreshToken == Spec => []OneRefreshTokenPerConsent
<1>1. ConsentInv => OneRefreshTokenPerConsent
  BY DEF ConsentInv, OneRefreshTokenPerConsent, RefreshIsValid
<1> QED BY <1>1, ConsentInvariant, PTL

-----------------------------------------------------------------------------
(* What _issue_access_token does to the tokens: the new ones carry what it *)
(* is called with, the others stay.                                        *)
LEMMA IssueTokens ==
    ASSUME TypeOK,
           NEW a \in AccessIds, NEW r \in RefreshIds \cup {None},
           NEW k, NEW u, NEW sc, NEW link, NEW c, NEW refreshNow,
           IssueAccessToken(a, r, k, u, sc, link, c, refreshNow)
    PROVE  /\ access'[a] = [client |-> k, user |-> u, scopes |-> sc,
                            expires |-> now + TokenLifetime, refresh |-> link]
           /\ \A x \in AccessIds \ {a} : access'[x] = access[x] /\ origin'[x] = origin[x]
           /\ origin'[a] = c
           /\ \A t \in RefreshIds \ {r} : refresh'[t] = refreshNow[t] /\ origin'[t] = origin[t]
           /\ r # None => /\ refresh'[r] = NewRefreshToken(k, u, sc)
                          /\ origin'[r] = c /\ r \notin issued /\ r \in issued'
           /\ issued \subseteq issued'
BY IdentifierAssumption, NoneAssumption DEF IssueAccessToken, TokenIds, TypeOK

(* What a code stood for is what its record, the object the endpoint holds *)
(* and all tokens that descend from it are within.                         *)
AuthorityInv ==
    /\ \A c \in CodeIds : codes[c] # None => Within(codes[c], c)
    /\ \A c \in CodeIds : held[c] # None => Within(held[c], c)
    /\ AuthorityWithinConsent

LEMMA IssueKeepsAuthority ==
    ASSUME TypeOK, AuthorityInv,
           NEW a \in AccessIds, NEW r \in RefreshIds \cup {None},
           NEW k, NEW u, NEW sc, NEW link, NEW c, NEW refreshNow,
           IssueAccessToken(a, r, k, u, sc, link, c, refreshNow),
           UNCHANGED consent,
           r # None => c # None,
           c # None => /\ k = consent[c].client /\ u = consent[c].user
                       /\ sc \subseteq consent[c].scopes,
           \A t \in RefreshIds : refreshNow[t] # None => Within(refreshNow[t], origin[t])
    PROVE  AuthorityWithinConsent'
<1>0. /\ access'[a] = [client |-> k, user |-> u, scopes |-> sc,
                       expires |-> now + TokenLifetime, refresh |-> link]
      /\ \A x \in AccessIds \ {a} : access'[x] = access[x] /\ origin'[x] = origin[x]
      /\ origin'[a] = c
      /\ \A t \in RefreshIds \ {r} : refresh'[t] = refreshNow[t] /\ origin'[t] = origin[t]
      /\ r # None => refresh'[r] = NewRefreshToken(k, u, sc) /\ origin'[r] = c
  BY IssueTokens
<1>1. ASSUME NEW x \in AccessIds, access'[x] # None, origin'[x] # None
      PROVE  Within(access'[x], origin'[x])
  <2>1. CASE x = a
    BY <1>0, <1>1, <2>1 DEF Within
  <2>2. CASE x # a
    BY <1>0, <1>1, <2>2 DEF AuthorityInv, AuthorityWithinConsent
  <2> QED BY <2>1, <2>2
<1>2. ASSUME NEW t \in RefreshIds, refresh'[t] # None PROVE Within(refresh'[t], origin'[t])
  <2>1. CASE t = r
    <3>1. r # None
      BY <2>1, NoneAssumption DEF TokenIds
    <3> QED BY <1>0, <2>1, <3>1 DEF Within, NewRefreshToken
  <2>2. CASE t # r
    BY <1>0, <1>2, <2>2
  <2> QED BY <2>1, <2>2
<1> QED BY <1>1, <1>2 DEF AuthorityWithinConsent, Within

LEMMA AuthorityStep == TypeOK /\ ConsentInv /\ AuthorityInv /\ [Next]_vars => AuthorityInv'
<1> SUFFICES ASSUME TypeOK, ConsentInv, AuthorityInv, [Next]_vars PROVE AuthorityInv'
  OBVIOUS
<1>1. ASSUME \/ \E k \in ClientIds, reg \in Registrations : RegisterClient(k, reg)
             \/ \E u \in UserIds : RegisterUser(u) \/ DeactivateUser(u)
             \/ Tick
             \/ UNCHANGED vars
      PROVE  AuthorityInv'
  BY <1>1 DEF AuthorityInv, AuthorityWithinConsent, Within,
              RegisterClient, RegisterUser, DeactivateUser, Tick, vars
<1>4. ASSUME NEW c \in CodeIds \ issued, NEW k \in ClientIds, NEW u \in UserIds,
             NEW uri \in RedirectUris, NEW sc \in SUBSET Scopes,
             NEW challenge \in Texts \cup {None}, NEW method \in Methods \cup {None},
             GenerateAuthorizationCode(c, k, u, uri, sc, challenge, method)
      PROVE  AuthorityInv'
  <2>1. /\ \A d \in CodeIds \ {c} : codes'[d] = codes[d] /\ consent'[d] = consent[d]
        /\ consent'[c] = [client |-> k, user |-> u, scopes |-> sc]
        /\ codes'[c] = [client |-> k, user |-> u, redirect |-> uri, scopes |-> sc,
                        challenge |-> challenge, method |-> method,
                        expires |-> now + CodeLifetime, used |-> FALSE]
        /\ UNCHANGED <<held, access, refresh, origin>>
    BY <1>4 DEF GenerateAuthorizationCode, TypeOK
  <2>2. held[c] = None /\ \A t \in TokenIds : origin[t] # c
    BY NoneAssumption DEF ConsentInv, Redeemed
  <2>3. \A t \in TokenIds : origin[t] # None => origin[t] \in CodeIds \ {c}
    BY <2>2 DEF TypeOK
  <2>4. \A r \in RefreshIds : r \in TokenIds /\ (refresh[r] # None => origin[r] # None)
    BY DEF ConsentInv, TokenIds
  <2>5. \A a \in AccessIds : a \in TokenIds
    BY DEF TokenIds
  <2> QED BY <2>1, <2>2, <2>3, <2>4, <2>5 DEF AuthorityInv, AuthorityWithinConsent, Within
<1>5. ASSUME NEW c \in CodeIds, NEW k \in ClientIds, NEW uri \in RedirectUris,
             NEW v \in Texts \cup {None}, ValidateAuthorizationCode(c, k, uri, v)
      PROVE  AuthorityInv'
  <2>1. codes[c] \in AuthorizationCode /\ codes[c] # None
    BY <1>5 DEF TypeOK, ValidateAuthorizationCode, CodeIsValid
  <2>2. /\ codes' = [codes EXCEPT ![c].used = TRUE]
        /\ held' = [held EXCEPT ![c] = codes'[c]]
        /\ UNCHANGED <<access, refresh, consent, origin>>
    BY <1>5 DEF ValidateAuthorizationCode
  <2>3. /\ codes'[c].client = codes[c].client /\ codes'[c].user = codes[c].user
        /\ codes'[c].scopes = codes[c].scopes
        /\ \A d \in CodeIds \ {c} : codes'[d] = codes[d]
    BY <2>1, <2>2 DEF TypeOK, AuthorizationCode
  <2>4. held'[c] = codes'[c] /\ \A d \in CodeIds \ {c} : held'[d] = held[d]
    BY <2>2 DEF TypeOK
  <2> QED BY <2>1, <2>2, <2>3, <2>4 DEF AuthorityInv, AuthorityWithinConsent, Within
<1>6. ASSUME NEW a \in AccessIds \ issued, NEW c \in CodeIds, NEW r \in RefreshIds,
             ExchangeCode(c, a, r)
      PROVE  AuthorityInv'
  <2>1. /\ held[c] # None /\ held' = [held EXCEPT ![c] = None] /\ UNCHANGED <<codes, consent>>
        /\ IssueAccessToken(a, r, held[c].client, held[c].user, held[c].scopes, r, c, refresh)
    BY <1>6 DEF ExchangeCode
  <2>2. Within(held[c], c) /\ c # None
    BY <2>1, NoneAssumption DEF AuthorityInv
  <2>3. AuthorityWithinConsent'
    BY <2>1, <2>2, IssueKeepsAuthority DEF Within, AuthorityInv, AuthorityWithinConsent
  <2>4. \A d \in CodeIds : held'[d] \in {held[d], None}
    BY <2>1 DEF TypeOK
  <2> QED BY <2>1, <2>3, <2>4 DEF AuthorityInv, Within
<1>7. ASSUME NEW a \in AccessIds \ issued, NEW k \in ClientIds,
             NEW u \in UserIds \cup {None}, NEW sc \in SUBSET Scopes,
             NEW grant \in GrantTypes, GenerateAccessToken(a, k, u, sc, grant)
      PROVE  AuthorityInv'
  <2>1. /\ IssueAccessToken(a, None, k, u, sc, None, None, refresh)
        /\ UNCHANGED <<codes, held, consent>>
    BY <1>7 DEF GenerateAccessToken
  <2>2. AuthorityWithinConsent'
    BY <2>1, IssueKeepsAuthority DEF AuthorityInv, AuthorityWithinConsent
  <2> QED BY <2>1, <2>2 DEF AuthorityInv, Within
<1>8. ASSUME NEW a \in AccessIds \ issued, NEW t \in RefreshIds, NEW r \in RefreshIds,
             NEW k \in ClientIds, RefreshAccessToken(t, k, a, r)
      PROVE  AuthorityInv'
  <2>1. refresh[t] \in RefreshToken /\ refresh[t] # None /\ k = refresh[t].client
    BY <1>8 DEF TypeOK, RefreshAccessToken, RefreshIsValid
  <2>2. UNCHANGED <<codes, held, consent>>
    BY <1>8 DEF RefreshAccessToken
  <2>3. origin[t] # None /\ Within(refresh[t], origin[t])
    BY <2>1 DEF ConsentInv, AuthorityInv, AuthorityWithinConsent
  <2>4. CASE IssueAccessToken(a, r, k, refresh[t].user, refresh[t].scopes, r, origin[t],
                              [refresh EXCEPT ![t].used = TRUE])
    <3> DEFINE usedUp == [refresh EXCEPT ![t].used = TRUE]
    <3>1. IssueAccessToken(a, r, k, refresh[t].user, refresh[t].scopes, r, origin[t], usedUp)
      BY <2>4
    <3>2. \A s \in RefreshIds : usedUp[s] # None => Within(usedUp[s], origin[s])
      <4>1. /\ usedUp[t].client = refresh[t].client /\ usedUp[t].user = refresh[t].user
            /\ usedUp[t].scopes = refresh[t].scopes
            /\ \A s \in RefreshIds \ {t} : usedUp[s] = refresh[s]
        BY <2>1 DEF TypeOK, RefreshToken
      <4> HIDE DEF usedUp
      <4> QED BY <2>3, <4>1 DEF AuthorityInv, AuthorityWithinConsent, Within
    <3> HIDE DEF usedUp
    <3>3. AuthorityWithinConsent'
      BY <2>1, <2>2, <2>3, <3>1, <3>2, IssueKeepsAuthority DEF Within
    <3> QED BY <2>2, <3>3 DEF AuthorityInv, Within
  <2>5. CASE IssueAccessToken(a, None, k, refresh[t].user, refresh[t].scopes, t, origin[t],
                              refresh)
    <3>1. AuthorityWithinConsent'
      BY <2>1, <2>2, <2>3, <2>5, IssueKeepsAuthority
      DEF Within, AuthorityInv, AuthorityWithinConsent
    <3> QED BY <2>2, <3>1 DEF AuthorityInv, Within
  <2> QED BY <1>8, <2>4, <2>5 DEF RefreshAccessToken
<1>9. ASSUME NEW t \in TokenIds, RevokeToken(t) PROVE AuthorityInv'
  <2>1. UNCHANGED <<codes, held, origin, consent>>
    BY <1>9 DEF RevokeToken
  <2>2. \A a \in AccessIds : access'[a] \in {access[a], None}
    BY <1>9 DEF RevokeToken, TypeOK
  <2>3. ASSUME NEW r \in RefreshIds, refresh'[r] # None
        PROVE  /\ refresh[r] # None /\ refresh'[r].client = refresh[r].client
               /\ refresh'[r].user = refresh[r].user /\ refresh'[r].scopes = refresh[r].scopes
    <3>1. CASE refresh' = refresh
      BY <2>3, <3>1
    <3>2. CASE t \in RefreshIds /\ refresh[t] # None
               /\ refresh' = [refresh EXCEPT ![t].used = TRUE]
      <4>1. refresh[t] \in RefreshToken
        BY <3>2 DEF TypeOK
      <4> QED BY <2>3, <3>2, <4>1 DEF TypeOK, RefreshToken
    <3> QED BY <1>9, <3>1, <3>2 DEF RevokeToken
  <2> QED BY <2>1, <2>2, <2>3 DEF AuthorityInv, AuthorityWithinConsent, Within
<1>10. CASE CleanupExpiredTokens
  <2>1. /\ UNCHANGED <<held, origin, consent>>
        /\ \A c \in CodeIds : codes'[c] \in {codes[c], None}
        /\ \A a \in AccessIds : access'[a] \in {access[a], None}
        /\ \A r \in RefreshIds : refresh'[r] \in {refresh[r], None}
    BY <1>10 DEF CleanupExpiredTokens
  <2> QED BY <2>1 DEF AuthorityInv, AuthorityWithinConsent, Within
<1> QED BY <1>1, <1>4, <1>5, <1>6, <1>7, <1>8, <1>9, <1>10 DEF Next

(* A token never carries more than the consent it descends from, however   *)
(* clients are registered again and however often the grant is renewed     *)
(* (generate_access_token, refresh_access_token).                          *)
THEOREM TokensKeepToConsent == Spec => []AuthorityWithinConsent
<1>1. Init => AuthorityInv
  BY DEF Init, AuthorityInv, AuthorityWithinConsent
<1>2. AuthorityInv => AuthorityWithinConsent
  BY DEF AuthorityInv
<1> QED BY <1>1, <1>2, AuthorityStep, ConsentInvariant, TypeCorrect, PTL DEF Spec

-----------------------------------------------------------------------------
(* The bound on the life of an access token survives every step.           *)
Bound(x, r) ==
    /\ r \in issued
    /\ origin[r] = origin[x]
    /\ refresh[r] # None => access[x].expires <= refresh[r].expires + TokenLifetime

LEMMA BoundStep ==
    TypeOK /\ TypeOK' /\ ConsentInv /\ AccessTokenBoundToRefreshToken /\ [Next]_vars
        => AccessTokenBoundToRefreshToken'
<1> SUFFICES ASSUME TypeOK, TypeOK', ConsentInv, AccessTokenBoundToRefreshToken, [Next]_vars
             PROVE  AccessTokenBoundToRefreshToken'
  OBVIOUS
<1> USE LifetimeAssumption
<1>1. ASSUME NEW x \in AccessIds, access[x] # None, access[x].refresh # None
      PROVE  access[x].refresh \in RefreshIds /\ Bound(x, access[x].refresh)
  <2>1. access[x] \in AccessToken
    BY <1>1 DEF TypeOK
  <2> QED BY <1>1, <2>1 DEF AccessTokenBoundToRefreshToken, AccessToken, Bound
<1>2. SUFFICES ASSUME NEW x \in AccessIds, NEW r \in RefreshIds,
                      access'[x] # None, access'[x].refresh = r
               PROVE  Bound(x, r)'
  <2>1. ASSUME NEW x \in AccessIds, access'[x] # None, access'[x].refresh # None
        PROVE  access'[x].refresh \in RefreshIds
    <3>1. access'[x] \in AccessToken
      BY <2>1 DEF TypeOK
    <3> QED BY <2>1, <3>1 DEF AccessToken
  <2> QED BY <1>2, <2>1 DEF AccessTokenBoundToRefreshToken, Bound
<1> r # None
  BY NoneAssumption DEF TokenIds
(* Steps after which the token is as it was, and names what it named.      *)
<1>3. ASSUME access'[x] = access[x], issued \subseteq issued', origin'[x] = origin[x],
             r \in issued => origin'[r] = origin[r],
             r \in issued /\ refresh'[r] # None =>
                refresh[r] # None /\ refresh'[r].expires = refresh[r].expires
      PROVE  Bound(x, r)'
  BY <1>1, <1>2, <1>3 DEF Bound
<1>4. ASSUME \/ \E k \in ClientIds, reg \in Registrations : RegisterClient(k, reg)
             \/ \E u \in UserIds : RegisterUser(u) \/ DeactivateUser(u)
             \/ Tick
             \/ \E c \in CodeIds \ issued, k \in ClientIds, u \in UserIds, uri \in RedirectUris,
                   sc \in SUBSET Scopes, challenge \in Texts \cup {None},
                   method \in Methods \cup {None} :
                      GenerateAuthorizationCode(c, k, u, uri, sc, challenge, method)
             \/ \E c \in CodeIds, k \in ClientIds, uri \in RedirectUris, v \in Texts \cup {None} :
                   ValidateAuthorizationCode(c, k, uri, v)
             \/ UNCHANGED vars
      PROVE  Bound(x, r)'
  <2>1. UNCHANGED <<access, refresh, origin>> /\ issued \subseteq issued'
    BY <1>4 DEF RegisterClient, RegisterUser, DeactivateUser, Tick,
                GenerateAuthorizationCode, ValidateAuthorizationCode, vars
  <2> QED BY <1>3, <2>1
<1>5. ASSUME NEW a \in AccessIds \ issued, NEW new \in RefreshIds, NEW k, NEW u, NEW sc,
             NEW c, NEW refreshNow,
             IssueAccessToken(a, new, k, u, sc, new, c, refreshNow),
             \A t \in RefreshIds : refreshNow[t] # None =>
                refresh[t] # None /\ refreshNow[t].expires = refresh[t].expires
      PROVE  Bound(x, r)'
  <2>1. /\ access'[a] = [client |-> k, user |-> u, scopes |-> sc,
                         expires |-> now + TokenLifetime, refresh |-> new]
        /\ \A y \in AccessIds \ {a} : access'[y] = access[y] /\ origin'[y] = origin[y]
        /\ origin'[a] = c
        /\ \A t \in RefreshIds \ {new} : refresh'[t] = refreshNow[t] /\ origin'[t] = origin[t]
        /\ refresh'[new] = NewRefreshToken(k, u, sc) /\ origin'[new] = c
        /\ new \notin issued /\ new \in issued' /\ issued \subseteq issued'
    BY <1>5, IssueTokens, NoneAssumption DEF TokenIds
  <2>2. CASE x = a
    <3>1. r = new /\ access'[x].expires = now + TokenLifetime
      BY <1>2, <2>1, <2>2
    <3>2. refresh'[r].expires = now + RefreshLifetime
      BY <2>1, <3>1 DEF NewRefreshToken
    <3>3. now + TokenLifetime <= now + RefreshLifetime + TokenLifetime
      BY DEF TypeOK
    <3> QED BY <2>1, <2>2, <3>1, <3>2, <3>3 DEF Bound
  <2>3. CASE x # a
    BY <1>3, <1>5, <2>1, <2>3
  <2> QED BY <2>2, <2>3
<1>6. ASSUME NEW a \in AccessIds \ issued, NEW c \in CodeIds, NEW new \in RefreshIds,
             ExchangeCode(c, a, new)
      PROVE  Bound(x, r)'
  BY <1>5, <1>6 DEF ExchangeCode
<1>7. ASSUME NEW a \in AccessIds \ issued, NEW k \in ClientIds,
             NEW u \in UserIds \cup {None}, NEW sc \in SUBSET Scopes,
             NEW grant \in GrantTypes, GenerateAccessToken(a, k, u, sc, grant)
      PROVE  Bound(x, r)'
  <2>1. IssueAccessToken(a, None, k, u, sc, None, None, refresh)
    BY <1>7 DEF GenerateAccessToken
  <2>2. /\ access'[a] = [client |-> k, user |-> u, scopes |-> sc,
                         expires |-> now + TokenLifetime, refresh |-> None]
        /\ \A y \in AccessIds \ {a} : access'[y] = access[y] /\ origin'[y] = origin[y]
        /\ \A t \in RefreshIds \ {None} : refresh'[t] = refresh[t] /\ origin'[t] = origin[t]
        /\ issued \subseteq issued'
    BY <2>1, NoneAssumption, IdentifierAssumption DEF IssueAccessToken, TokenIds, TypeOK
  <2>3. x # a
    BY <1>2, <2>2
  <2> QED BY <1>3, <2>2, <2>3
<1>8. ASSUME NEW a \in AccessIds \ issued, NEW t \in RefreshIds, NEW new \in RefreshIds,
             NEW k \in ClientIds, RefreshAccessToken(t, k, a, new)
      PROVE  Bound(x, r)'
  <2>1. /\ refresh[t] \in RefreshToken /\ refresh[t] # None /\ now <= refresh[t].expires
        /\ t \in issued
    <3>1. refresh[t] \in RefreshToken /\ refresh[t] # None /\ ~(now > refresh[t].expires)
      BY <1>8 DEF TypeOK, RefreshAccessToken, RefreshIsValid, IsExpired
    <3> QED BY <3>1 DEF TypeOK, RefreshToken, ConsentInv
  <2>2. CASE IssueAccessToken(a, new, k, refresh[t].user, refresh[t].scopes, new, origin[t],
                              [refresh EXCEPT ![t].used = TRUE])
    <3> DEFINE usedUp == [refresh EXCEPT ![t].used = TRUE]
    <3>1. \A s \in RefreshIds : usedUp[s] # None =>
             refresh[s] # None /\ usedUp[s].expires = refresh[s].expires
      BY <2>1 DEF TypeOK, RefreshToken
    <3>2. IssueAccessToken(a, new, k, refresh[t].user, refresh[t].scopes, new, origin[t], usedUp)
      BY <2>2
    <3> HIDE DEF usedUp
    <3> QED BY <1>5, <3>1, <3>2
  <2>3. CASE IssueAccessToken(a, None, k, refresh[t].user, refresh[t].scopes, t, origin[t],
                              refresh)
    <3>1. /\ access'[a] = [client |-> k, user |-> refresh[t].user, scopes |-> refresh[t].scopes,
                           expires |-> now + TokenLifetime, refresh |-> t]
          /\ \A y \in AccessIds \ {a} : access'[y] = access[y] /\ origin'[y] = origin[y]
          /\ origin'[a] = origin[t]
          /\ \A s \in RefreshIds \ {None} : refresh'[s] = refresh[s] /\ origin'[s] = origin[s]
          /\ issued \subseteq issued'
      BY <2>3, NoneAssumption, IdentifierAssumption DEF IssueAccessToken, TokenIds, TypeOK
    <3>2. CASE x = a
      <4>1. r = t /\ access'[x].expires = now + TokenLifetime
        BY <1>2, <3>1, <3>2
      <4>2. now + TokenLifetime <= refresh[t].expires + TokenLifetime
        BY <2>1 DEF TypeOK, RefreshToken
      <4>3. refresh'[r] = refresh[t] /\ origin'[r] = origin[t] /\ origin'[x] = origin[t]
        BY <3>1, <3>2, <4>1
      <4> QED BY <2>1, <3>1, <4>1, <4>2, <4>3 DEF Bound
    <3>3. CASE x # a
      BY <1>3, <3>1, <3>3
    <3> QED BY <3>2, <3>3
  <2> QED BY <1>8, <2>2, <2>3 DEF RefreshAccessToken
<1>9. ASSUME NEW t \in TokenIds, RevokeToken(t) PROVE Bound(x, r)'
  <2>1. UNCHANGED <<origin, issued>> /\ access'[x] = access[x]
    BY <1>2, <1>9 DEF RevokeToken, TypeOK
  <2>2. refresh'[r] # None =>
           refresh[r] # None /\ refresh'[r].expires = refresh[r].expires
    <3>1. CASE refresh' = refresh
      BY <3>1
    <3>2. CASE t \in RefreshIds /\ refresh[t] # None
               /\ refresh' = [refresh EXCEPT ![t].used = TRUE]
      <4>1. refresh[t] \in RefreshToken
        BY <3>2 DEF TypeOK
      <4> QED BY <3>2, <4>1 DEF TypeOK, RefreshToken
    <3> QED BY <1>9, <3>1, <3>2 DEF RevokeToken
  <2> QED BY <1>3, <2>1, <2>2
<1>10. CASE CleanupExpiredTokens
  <2>1. /\ UNCHANGED <<origin, issued>> /\ access'[x] = access[x]
        /\ refresh'[r] \in {refresh[r], None}
    BY <1>2, <1>10 DEF CleanupExpiredTokens
  <2> QED BY <1>3, <2>1
<1> QED BY <1>4, <1>6, <1>7, <1>8, <1>9, <1>10 DEF Next

(* A refresh token that is not renewed bounds the life of the whole grant  *)
(* it belongs to (_issue_access_token, refresh_access_token).              *)
THEOREM RefreshTokenBoundsGrant == Spec => []AccessTokenBoundToRefreshToken
<1>1. Init => AccessTokenBoundToRefreshToken
  BY DEF Init, AccessTokenBoundToRefreshToken
<1> QED BY <1>1, BoundStep, ConsentInvariant, TypeCorrect, PTL DEF Spec

(* The cleanup takes away nothing that would have been accepted and brings *)
(* back nothing that would have been refused (cleanup_expired_tokens).     *)
THEOREM CleanupOnlyForgets == Spec => CleanupIsInvisible
<1>1. TypeOK /\ CleanupExpiredTokens => Usable' = Usable
  <2> SUFFICES ASSUME TypeOK, CleanupExpiredTokens PROVE Usable' = Usable
    OBVIOUS
  <2>1. now' = now
    BY DEF CleanupExpiredTokens
  <2>2. \A c \in CodeIds : CodeIsValid(c)' <=> CodeIsValid(c)
    BY <2>1 DEF CleanupExpiredTokens, CodeIsValid, IsExpired
  <2>3. \A a \in AccessIds : AccessIsValid(a)' <=> AccessIsValid(a)
    BY <2>1 DEF CleanupExpiredTokens, AccessIsValid, IsExpired
  <2>4. \A r \in RefreshIds : RefreshIsValid(r)' <=> RefreshIsValid(r)
    BY <2>1 DEF CleanupExpiredTokens, RefreshIsValid, IsExpired
  <2>5. \A t \in TokenIds : IntrospectActive(t)' <=> IntrospectActive(t)
    BY <2>3, <2>4 DEF IntrospectActive
  <2> QED BY <2>2, <2>5 DEF Usable
<1> QED BY <1>1, TypeCorrect, PTL DEF CleanupIsInvisible

-----------------------------------------------------------------------------
(* OAuth2Provider implements ConsentLifecycle.  The refinement mapping is  *)
(* the one of OAuth2Provider, where ConsentState is a CASE over the        *)
(* dictionaries and ConsentSlot a CHOOSE; the invariants show that the     *)
(* cases exclude each other and that there is never more than one token    *)
(* to choose.                                                              *)

(* A token descends from something only once it was generated.             *)
OriginInv == \A t \in TokenIds : origin[t] # None => t \in issued

LEMMA OriginStep == TypeOK /\ OriginInv /\ [Next]_vars => OriginInv'
<1> SUFFICES ASSUME TypeOK, OriginInv, [Next]_vars PROVE OriginInv'
  OBVIOUS
<1>1. ASSUME issued \subseteq issued', UNCHANGED origin PROVE OriginInv'
  BY <1>1 DEF OriginInv
<1>2. ASSUME NEW a \in AccessIds, NEW r \in RefreshIds \cup {None}, NEW k, NEW u, NEW sc,
             NEW link, NEW c, NEW refreshNow,
             IssueAccessToken(a, r, k, u, sc, link, c, refreshNow)
      PROVE  OriginInv'
  BY <1>2, NoneAssumption DEF IssueAccessToken, OriginInv, TokenIds
<1>3. ASSUME NEW a \in AccessIds \ issued, NEW c \in CodeIds, NEW r \in RefreshIds,
             ExchangeCode(c, a, r)
      PROVE  OriginInv'
  BY <1>2, <1>3 DEF ExchangeCode
<1>4. ASSUME NEW a \in AccessIds \ issued, NEW k \in ClientIds,
             NEW u \in UserIds \cup {None}, NEW sc \in SUBSET Scopes,
             NEW grant \in GrantTypes, GenerateAccessToken(a, k, u, sc, grant)
      PROVE  OriginInv'
  BY <1>2, <1>4 DEF GenerateAccessToken
<1>5. ASSUME NEW a \in AccessIds \ issued, NEW t \in RefreshIds, NEW r \in RefreshIds,
             NEW k \in ClientIds, RefreshAccessToken(t, k, a, r)
      PROVE  OriginInv'
  BY <1>2, <1>5 DEF RefreshAccessToken
<1>6. ASSUME \/ \E k \in ClientIds, reg \in Registrations : RegisterClient(k, reg)
             \/ \E u \in UserIds : RegisterUser(u) \/ DeactivateUser(u)
             \/ Tick
             \/ \E c \in CodeIds \ issued, k \in ClientIds, u \in UserIds, uri \in RedirectUris,
                   sc \in SUBSET Scopes, challenge \in Texts \cup {None},
                   method \in Methods \cup {None} :
                      GenerateAuthorizationCode(c, k, u, uri, sc, challenge, method)
             \/ \E c \in CodeIds, k \in ClientIds, uri \in RedirectUris, v \in Texts \cup {None} :
                   ValidateAuthorizationCode(c, k, uri, v)
             \/ \E t \in TokenIds : RevokeToken(t)
             \/ CleanupExpiredTokens
             \/ UNCHANGED vars
      PROVE  OriginInv'
  BY <1>1, <1>6 DEF RegisterClient, RegisterUser, DeactivateUser, Tick,
     GenerateAuthorizationCode, ValidateAuthorizationCode, RevokeToken,
     CleanupExpiredTokens, vars
<1> QED BY <1>3, <1>4, <1>5, <1>6 DEF Next

-----------------------------------------------------------------------------
Descended(c) == \E r \in RefreshIds : origin[r] = c
Fills(c, r) == RefreshIsValid(r) /\ origin[r] = c

(* What the mapping means: each value of ConsentState has one condition,   *)
(* and the slot of a consent is the one token that can renew it.           *)
Mapping ==
    \A c \in CodeIds :
        /\ ConsentState(c) \in {"new", "offered", "claimed", "open", "closed"}
        /\ ConsentState(c) = "new" <=> c \notin issued
        /\ ConsentState(c) = "claimed" <=> held[c] # None
        /\ ConsentState(c) = "open" <=> Descended(c)
        /\ ConsentState(c) = "offered" <=> CodeIsValid(c)
        /\ ConsentSlot(c) \in RefreshIds \cup {None}
        /\ \A r \in RefreshIds : ConsentSlot(c) = r <=> Fills(c, r)

LEMMA MappingHolds == TypeOK /\ ConsentInv => Mapping
<1> SUFFICES ASSUME TypeOK, ConsentInv, NEW c \in CodeIds
             PROVE  /\ ConsentState(c) \in {"new", "offered", "claimed", "open", "closed"}
                    /\ ConsentState(c) = "new" <=> c \notin issued
                    /\ ConsentState(c) = "claimed" <=> held[c] # None
                    /\ ConsentState(c) = "open" <=> Descended(c)
                    /\ ConsentState(c) = "offered" <=> CodeIsValid(c)
                    /\ ConsentSlot(c) \in RefreshIds \cup {None}
                    /\ \A r \in RefreshIds : ConsentSlot(c) = r <=> Fills(c, r)
  BY DEF Mapping
<1> c # None
  BY NoneAssumption
<1>1. held[c] # None => c \in issued /\ ~CodeIsValid(c) /\ ~Descended(c)
  BY DEF ConsentInv, Redeemed, CodeIsValid, Descended, TokenIds
<1>2. Descended(c) => c \in issued /\ ~CodeIsValid(c)
  BY DEF ConsentInv, Redeemed, CodeIsValid, Descended, TokenIds
<1>3. CodeIsValid(c) => c \in issued
  BY DEF ConsentInv, CodeIsValid
<1>4. /\ ConsentState(c) \in {"new", "offered", "claimed", "open", "closed"}
      /\ ConsentState(c) = "new" <=> c \notin issued
      /\ ConsentState(c) = "claimed" <=> held[c] # None
      /\ ConsentState(c) = "open" <=> Descended(c)
      /\ ConsentState(c) = "offered" <=> CodeIsValid(c)
  BY <1>1, <1>2, <1>3 DEF ConsentState, Descended
<1> DEFINE usable == {r \in RefreshIds : RefreshIsValid(r) /\ origin[r] = c}
<1>5. \A r1, r2 \in usable : r1 = r2
  BY DEF ConsentInv, RefreshIsValid
<1>6. usable # {} => ConsentSlot(c) \in usable
  BY DEF ConsentSlot
<1>7. usable = {} => ConsentSlot(c) = None
  BY DEF ConsentSlot
<1>8. None \notin RefreshIds
  BY NoneAssumption DEF TokenIds
<1> QED BY <1>4, <1>5, <1>6, <1>7, <1>8 DEF Fills

-----------------------------------------------------------------------------
(* A step that only takes away: expiry, revocation, cleanup, and the calls *)
(* that touch no credential at all.                                        *)
LEMMA LapseStep ==
    ASSUME TypeOK, TypeOK', Mapping, Mapping',
           UNCHANGED <<held, issued, origin>>,
           \A c \in CodeIds : CodeIsValid(c)' => CodeIsValid(c),
           \A r \in RefreshIds : RefreshIsValid(r)' => RefreshIsValid(r),
           \A a \in AccessIds : AccessIsValid(a)' => AccessIsValid(a)
    PROVE  Consents!Lapse
<1>1. \A c \in CodeIds : ConsentState(c)' \in {"new", "offered", "claimed", "open", "closed"}
  BY DEF Mapping
<1>2. ASSUME NEW c \in CodeIds
      PROVE  \/ ConsentState(c)' = ConsentState(c)
             \/ ConsentState(c) = "offered" /\ ConsentState(c)' = "closed"
  <2>1. Descended(c)' <=> Descended(c)
    BY DEF Descended
  <2>2. /\ (ConsentState(c) = "new" <=> ConsentState(c)' = "new")
        /\ (ConsentState(c) = "claimed" <=> ConsentState(c)' = "claimed")
        /\ (ConsentState(c) = "open" <=> ConsentState(c)' = "open")
        /\ (ConsentState(c)' = "offered" => ConsentState(c) = "offered")
    BY <2>1 DEF Mapping
  <2> QED BY <2>2 DEF Mapping
<1>3. \A c \in CodeIds : ConsentSlot(c)' \in RefreshIds \cup {None}
  BY DEF Mapping
<1>4. ASSUME NEW c \in CodeIds PROVE ConsentSlot(c)' \in {ConsentSlot(c), None}
  <2>1. \A r \in RefreshIds : Fills(c, r)' => Fills(c, r)
    BY DEF Fills
  <2> QED BY <2>1 DEF Mapping
<1> QED BY <1>1, <1>2, <1>3, <1>4 DEF Consents!Lapse, Consents!States

(* The two dictionaries after tokens were issued: a (and r) are accepted,  *)
(* everything else is as refreshNow leaves it.                             *)
LEMMA IssuedTokens ==
    ASSUME TypeOK, OriginInv,
           NEW a \in AccessIds \ issued, NEW r \in RefreshIds \cup {None},
           NEW k \in ClientIds, NEW u \in UserIds \cup {None}, NEW sc \in SUBSET Scopes,
           NEW link \in RefreshIds \cup {None}, NEW c, NEW refreshNow,
           r # None => u # None,
           IssueAccessToken(a, r, k, u, sc, link, c, refreshNow),
           UNCHANGED now
    PROVE  /\ AccessIsValid(a)'
           /\ \A x \in AccessIds \ {a} : AccessIsValid(x)' <=> AccessIsValid(x)
           /\ issued' \cap TokenIds = (issued \cap TokenIds) \cup ({a, r} \ {None})
           /\ issued' \cap CodeIds = issued \cap CodeIds
           /\ \A t \in RefreshIds \ {r} : refresh'[t] = refreshNow[t] /\ origin'[t] = origin[t]
           /\ r # None => /\ RefreshIsValid(r)' /\ origin'[r] = c
                          /\ origin[r] = None /\ r \notin issued
<1> USE LifetimeAssumption
<1>1. /\ access'[a] = [client |-> k, user |-> u, scopes |-> sc,
                       expires |-> now + TokenLifetime, refresh |-> link]
      /\ \A x \in AccessIds \ {a} : access'[x] = access[x]
      /\ \A t \in RefreshIds \ {r} : refresh'[t] = refreshNow[t] /\ origin'[t] = origin[t]
      /\ r # None => /\ refresh'[r] = NewRefreshToken(k, u, sc)
                     /\ origin'[r] = c /\ r \notin issued
      /\ issued' = issued \cup ({a, r} \ {None})
  BY IdentifierAssumption, NoneAssumption DEF IssueAccessToken, TokenIds, TypeOK
<1>2. AccessIsValid(a)'
  <2>1. access'[a] \in AccessToken
    BY <1>1 DEF AccessToken, TypeOK
  <2>2. access'[a].expires = now + TokenLifetime /\ ~(now > now + TokenLifetime)
    BY <1>1 DEF TypeOK
  <2> QED BY <2>1, <2>2, NoneAssumption DEF AccessIsValid, IsExpired
<1>3. \A x \in AccessIds \ {a} : AccessIsValid(x)' <=> AccessIsValid(x)
  BY <1>1 DEF AccessIsValid, IsExpired
<1>4. ASSUME r # None PROVE RefreshIsValid(r)' /\ origin[r] = None
  <2>1. refresh'[r] \in RefreshToken
    <3>1. u \in UserIds /\ now + RefreshLifetime \in Nat
      BY <1>4 DEF TypeOK
    <3>2. NewRefreshToken(k, u, sc) \in RefreshToken
      BY <3>1 DEF NewRefreshToken, RefreshToken
    <3> QED BY <1>1, <1>4, <3>2
  <2>2. /\ refresh'[r].expires = now + RefreshLifetime /\ ~refresh'[r].used
        /\ ~(now > now + RefreshLifetime)
    BY <1>1, <1>4 DEF NewRefreshToken, TypeOK
  <2>3. origin[r] = None
    BY <1>1, <1>4 DEF OriginInv, TokenIds
  <2> QED BY <2>1, <2>2, <2>3, NoneAssumption DEF RefreshIsValid, IsExpired
<1>5. issued' \cap CodeIds = issued \cap CodeIds
  BY <1>1, IdentifierAssumption DEF TokenIds
<1>6. issued' \cap TokenIds = (issued \cap TokenIds) \cup ({a, r} \ {None})
  BY <1>1 DEF TokenIds
<1> QED BY <1>1, <1>2, <1>3, <1>4, <1>5, <1>6

(* The same without a refresh token. *)
LEMMA IssuedAccessToken ==
    ASSUME TypeOK, OriginInv,
           NEW a \in AccessIds \ issued,
           NEW k \in ClientIds, NEW u \in UserIds \cup {None}, NEW sc \in SUBSET Scopes,
           NEW link \in RefreshIds \cup {None}, NEW c,
           IssueAccessToken(a, None, k, u, sc, link, c, refresh),
           UNCHANGED now
    PROVE  /\ AccessIsValid(a)'
           /\ \A x \in AccessIds \ {a} : AccessIsValid(x)' <=> AccessIsValid(x)
           /\ issued' \cap TokenIds = (issued \cap TokenIds) \cup ({a, None} \ {None})
           /\ issued' \cap CodeIds = issued \cap CodeIds
           /\ \A t \in RefreshIds \ {None} : refresh'[t] = refresh[t] /\ origin'[t] = origin[t]
<1>1. PICK r \in RefreshIds \cup {None} : r = None
  OBVIOUS
<1>2. r \in RefreshIds \cup {None} /\ (r # None => u # None) /\ UNCHANGED now
  BY <1>1
<1>3. IssueAccessToken(a, r, k, u, sc, link, c, refresh)
  BY <1>1
<1>4. /\ AccessIsValid(a)'
      /\ \A x \in AccessIds \ {a} : AccessIsValid(x)' <=> AccessIsValid(x)
      /\ issued' \cap TokenIds = (issued \cap TokenIds) \cup ({a, r} \ {None})
      /\ issued' \cap CodeIds = issued \cap CodeIds
      /\ \A t \in RefreshIds \ {r} : refresh'[t] = refresh[t] /\ origin'[t] = origin[t]
      /\ r # None => /\ RefreshIsValid(r)' /\ origin'[r] = c
                     /\ origin[r] = None /\ r \notin issued
  BY <1>2, <1>3, IssuedTokens
<1>5. {a, r} \ {None} = {a, None} \ {None} /\ RefreshIds \ {r} = RefreshIds \ {None}
  BY <1>1
<1>6. issued' \cap TokenIds = (issued \cap TokenIds) \cup ({a, None} \ {None})
  BY <1>4, <1>5
<1>7. \A t \in RefreshIds \ {None} : refresh'[t] = refresh[t] /\ origin'[t] = origin[t]
  BY <1>4, <1>5
<1> QED BY <1>4, <1>6, <1>7

-----------------------------------------------------------------------------
LEMMA RefinementStep ==
    TypeOK /\ TypeOK' /\ ConsentInv /\ OriginInv /\ Mapping /\ Mapping' /\ [Next]_vars
        => [Consents!Next]_(Consents!vars)
<1> SUFFICES ASSUME TypeOK, TypeOK', ConsentInv, OriginInv, Mapping, Mapping', [Next]_vars
             PROVE  [Consents!Next]_(Consents!vars)
  OBVIOUS
<1> USE LifetimeAssumption
<1> CodeIds \cap TokenIds = {} /\ None \notin CodeIds \cup TokenIds
  BY IdentifierAssumption, NoneAssumption
(* A consent about which nothing that the mapping reads changed.           *)
<1>1. ASSUME NEW c \in CodeIds,
             c \in issued' <=> c \in issued,
             held'[c] # None <=> held[c] # None,
             CodeIsValid(c)' <=> CodeIsValid(c),
             \A r \in RefreshIds : origin'[r] = c <=> origin[r] = c
      PROVE  ConsentState(c)' = ConsentState(c)
  <2>1. Descended(c)' <=> Descended(c)
    BY <1>1 DEF Descended
  <2> QED BY <1>1, <2>1 DEF Mapping
<1>2. ASSUME NEW c \in CodeIds, \A r \in RefreshIds : Fills(c, r)' <=> Fills(c, r)
      PROVE  ConsentSlot(c)' = ConsentSlot(c)
  BY <1>2 DEF Mapping
<1>3. CASE \/ \E k \in ClientIds, reg \in Registrations : RegisterClient(k, reg)
           \/ \E u \in UserIds : RegisterUser(u) \/ DeactivateUser(u)
           \/ UNCHANGED vars
  <2>1. UNCHANGED <<now, codes, access, refresh, held, issued, origin>>
    BY <1>3 DEF RegisterClient, RegisterUser, DeactivateUser, vars
  <2>2. Consents!Lapse
    BY <2>1, LapseStep DEF CodeIsValid, RefreshIsValid, AccessIsValid, IsExpired
  <2> QED BY <2>2 DEF Consents!Next
<1>4. CASE Tick
  <2>1. now \in Nat /\ now' = now + 1 /\ UNCHANGED <<codes, access, refresh, held, issued, origin>>
    BY <1>4 DEF Tick, TypeOK
  <2>2. \A c \in CodeIds : CodeIsValid(c)' => CodeIsValid(c)
    BY <2>1 DEF CodeIsValid, IsExpired, TypeOK, AuthorizationCode
  <2>3. \A r \in RefreshIds : RefreshIsValid(r)' => RefreshIsValid(r)
    BY <2>1 DEF RefreshIsValid, IsExpired, TypeOK, RefreshToken
  <2>4. \A a \in AccessIds : AccessIsValid(a)' => AccessIsValid(a)
    BY <2>1 DEF AccessIsValid, IsExpired, TypeOK, AccessToken
  <2>5. Consents!Lapse
    BY <2>1, <2>2, <2>3, <2>4, LapseStep
  <2> QED BY <2>5 DEF Consents!Next
<1>5. ASSUME NEW t \in TokenIds, RevokeToken(t) PROVE Consents!Next
  <2>1. UNCHANGED <<now, codes, held, issued, origin>>
    BY <1>5 DEF RevokeToken
  <2>2. \A c \in CodeIds : CodeIsValid(c)' => CodeIsValid(c)
    BY <2>1 DEF CodeIsValid, IsExpired
  <2>3. \A a \in AccessIds : AccessIsValid(a)' => AccessIsValid(a)
    BY <1>5, <2>1 DEF AccessIsValid, IsExpired, TypeOK, RevokeToken
  <2>4. ASSUME NEW r \in RefreshIds, RefreshIsValid(r)' PROVE RefreshIsValid(r)
    <3>1. CASE refresh' = refresh
      BY <2>1, <2>4, <3>1 DEF RefreshIsValid, IsExpired
    <3>2. CASE t \in RefreshIds /\ refresh[t] # None
               /\ refresh' = [refresh EXCEPT ![t].used = TRUE]
      <4>1. refresh[t] \in RefreshToken
        BY <3>2 DEF TypeOK
      <4> QED BY <2>1, <2>4, <3>2, <4>1 DEF RefreshIsValid, IsExpired, TypeOK, RefreshToken
    <3> QED BY <1>5, <3>1, <3>2 DEF RevokeToken
  <2>5. Consents!Lapse
    BY <2>1, <2>2, <2>3, <2>4, LapseStep
  <2> QED BY <2>5 DEF Consents!Next
<1>6. CASE CleanupExpiredTokens
  <2>1. UNCHANGED <<now, held, issued, origin>>
    BY <1>6 DEF CleanupExpiredTokens
  <2>2. \A c \in CodeIds : CodeIsValid(c)' => CodeIsValid(c)
    BY <1>6, <2>1 DEF CleanupExpiredTokens, CodeIsValid, IsExpired
  <2>3. \A r \in RefreshIds : RefreshIsValid(r)' => RefreshIsValid(r)
    BY <1>6, <2>1 DEF CleanupExpiredTokens, RefreshIsValid, IsExpired
  <2>4. \A a \in AccessIds : AccessIsValid(a)' => AccessIsValid(a)
    BY <1>6, <2>1 DEF CleanupExpiredTokens, AccessIsValid, IsExpired
  <2>5. Consents!Lapse
    BY <2>1, <2>2, <2>3, <2>4, LapseStep
  <2> QED BY <2>5 DEF Consents!Next
<1>7. ASSUME NEW c \in CodeIds \ issued, NEW k \in ClientIds, NEW u \in UserIds,
             NEW uri \in RedirectUris, NEW sc \in SUBSET Scopes,
             NEW challenge \in Texts \cup {None}, NEW method \in Methods \cup {None},
             GenerateAuthorizationCode(c, k, u, uri, sc, challenge, method)
      PROVE  Consents!Next
  <2>1. /\ UNCHANGED <<now, access, refresh, held, origin>>
        /\ issued' = issued \cup {c}
        /\ \A d \in CodeIds \ {c} : codes'[d] = codes[d]
    BY <1>7 DEF GenerateAuthorizationCode, TypeOK
  <2>2. CodeIsValid(c)'
    <3> DEFINE code == [client |-> k, user |-> u, redirect |-> uri, scopes |-> sc,
                        challenge |-> challenge, method |-> method,
                        expires |-> now + CodeLifetime, used |-> FALSE]
    <3>1. codes'[c] = code
      BY <1>7 DEF GenerateAuthorizationCode, TypeOK
    <3>2. code \in AuthorizationCode /\ ~(now > code.expires) /\ ~code.used
      BY DEF AuthorizationCode, TypeOK
    <3> HIDE DEF code
    <3> QED BY <2>1, <3>1, <3>2, NoneAssumption DEF CodeIsValid, IsExpired
  <2>3. ConsentState(c) = "new" /\ ConsentState(c)' = "offered"
    BY <2>2 DEF Mapping
  <2>4. ASSUME NEW d \in CodeIds \ {c} PROVE ConsentState(d)' = ConsentState(d)
    <3>1. CodeIsValid(d)' <=> CodeIsValid(d)
      BY <2>1 DEF CodeIsValid, IsExpired
    <3> QED BY <1>1, <2>1, <3>1
  <2>5. \A d \in CodeIds : ConsentSlot(d)' = ConsentSlot(d)
    BY <1>2, <2>1 DEF Fills, RefreshIsValid, IsExpired
  <2>6. \A a \in AccessIds : AccessIsValid(a)' <=> AccessIsValid(a)
    BY <2>1 DEF AccessIsValid, IsExpired
  <2>7. issued' \cap TokenIds = issued \cap TokenIds
    BY <2>1
  <2>8. Consents!Offer(c)
    BY <2>3, <2>4, <2>5, <2>6, <2>7 DEF Consents!Offer
  <2> QED BY <2>8 DEF Consents!Next
<1>8. ASSUME NEW c \in CodeIds, NEW k \in ClientIds, NEW uri \in RedirectUris,
             NEW v \in Texts \cup {None}, ValidateAuthorizationCode(c, k, uri, v)
      PROVE  Consents!Next
  <2>1. /\ CodeIsValid(c) /\ codes' = [codes EXCEPT ![c].used = TRUE]
        /\ held' = [held EXCEPT ![c] = codes'[c]]
        /\ UNCHANGED <<now, access, refresh, issued, origin>>
    BY <1>8 DEF ValidateAuthorizationCode
  <2>2. held'[c] # None
    <3>1. codes[c] \in AuthorizationCode
      BY <2>1 DEF CodeIsValid, TypeOK
    <3>2. codes'[c] = [codes[c] EXCEPT !.used = TRUE] /\ held'[c] = codes'[c]
      BY <2>1 DEF TypeOK
    <3>3. codes'[c] \in AuthorizationCode
      BY <3>1, <3>2 DEF AuthorizationCode
    <3> QED BY <3>2, <3>3, NoneAssumption
  <2>3. ConsentState(c) = "offered" /\ ConsentState(c)' = "claimed"
    BY <2>1, <2>2 DEF Mapping
  <2>4. ASSUME NEW d \in CodeIds \ {c} PROVE ConsentState(d)' = ConsentState(d)
    <3>1. codes'[d] = codes[d] /\ held'[d] = held[d]
      BY <2>1 DEF TypeOK
    <3>2. CodeIsValid(d)' <=> CodeIsValid(d)
      BY <2>1, <3>1 DEF CodeIsValid, IsExpired
    <3> QED BY <1>1, <2>1, <3>1, <3>2
  <2>5. \A d \in CodeIds : ConsentSlot(d)' = ConsentSlot(d)
    BY <1>2, <2>1 DEF Fills, RefreshIsValid, IsExpired
  <2>6. \A a \in AccessIds : AccessIsValid(a)' <=> AccessIsValid(a)
    BY <2>1 DEF AccessIsValid, IsExpired
  <2>7. Consents!Claim(c)
    BY <2>1, <2>3, <2>4, <2>5, <2>6 DEF Consents!Claim
  <2> QED BY <2>7 DEF Consents!Next
<1>9. ASSUME NEW a \in AccessIds \ issued, NEW c \in CodeIds, NEW r \in RefreshIds,
             ExchangeCode(c, a, r)
      PROVE  Consents!Next
  <2>1. /\ held[c] # None /\ held' = [held EXCEPT ![c] = None] /\ UNCHANGED <<now, codes>>
        /\ IssueAccessToken(a, r, held[c].client, held[c].user, held[c].scopes, r, c, refresh)
    BY <1>9 DEF ExchangeCode, admin
  <2>2. /\ held[c].client \in ClientIds /\ held[c].user \in UserIds
        /\ held[c].scopes \in SUBSET Scopes /\ held[c].user # None /\ r # None
    <3>1. held[c] \in AuthorizationCode
      BY <2>1 DEF TypeOK
    <3> QED BY <3>1, NoneAssumption DEF AuthorizationCode, TokenIds
  <2>3. /\ AccessIsValid(a)'
        /\ \A x \in AccessIds \ {a} : AccessIsValid(x)' <=> AccessIsValid(x)
        /\ issued' \cap TokenIds = (issued \cap TokenIds) \cup ({a, r} \ {None})
        /\ issued' \cap CodeIds = issued \cap CodeIds
        /\ \A t \in RefreshIds \ {r} : refresh'[t] = refresh[t] /\ origin'[t] = origin[t]
        /\ RefreshIsValid(r)' /\ origin'[r] = c /\ origin[r] = None /\ r \notin issued
    <3>1. PICK k \in ClientIds, u \in UserIds, sc \in SUBSET Scopes :
             u # None /\ IssueAccessToken(a, r, k, u, sc, r, c, refresh)
      BY <2>1, <2>2
    <3>2. r \in RefreshIds \cup {None} /\ u \in UserIds \cup {None}
      OBVIOUS
    <3>3. UNCHANGED now /\ (r # None => u # None)
      BY <2>1, <3>1
    <3>4. /\ AccessIsValid(a)'
          /\ \A x \in AccessIds \ {a} : AccessIsValid(x)' <=> AccessIsValid(x)
          /\ issued' \cap TokenIds = (issued \cap TokenIds) \cup ({a, r} \ {None})
          /\ issued' \cap CodeIds = issued \cap CodeIds
          /\ \A s \in RefreshIds \ {r} : refresh'[s] = refresh[s] /\ origin'[s] = origin[s]
          /\ r # None => /\ RefreshIsValid(r)' /\ origin'[r] = c
                         /\ origin[r] = None /\ r \notin issued
      BY <3>1, <3>2, <3>3, IssuedTokens
    <3> QED BY <2>2, <3>4
  <2>4. ConsentState(c) = "claimed" /\ ConsentState(c)' = "open"
    <3>1. Descended(c)'
      BY <2>3 DEF Descended
    <3> QED BY <2>1, <3>1 DEF Mapping
  <2>5. ASSUME NEW d \in CodeIds \ {c} PROVE ConsentState(d)' = ConsentState(d)
    <3>1. CodeIsValid(d)' <=> CodeIsValid(d)
      BY <2>1 DEF CodeIsValid, IsExpired
    <3>2. held'[d] = held[d]
      BY <2>1 DEF TypeOK
    <3>3. \A t \in RefreshIds : origin'[t] = d <=> origin[t] = d
      BY <2>3
    <3>4. d \in issued' <=> d \in issued
      BY <2>3
    <3> QED BY <1>1, <3>1, <3>2, <3>3, <3>4
  <2>6. ConsentSlot(c)' = r
    BY <2>3 DEF Mapping, Fills
  <2>7. ASSUME NEW d \in CodeIds \ {c} PROVE ConsentSlot(d)' = ConsentSlot(d)
    <3>1. \A t \in RefreshIds \ {r} : RefreshIsValid(t)' <=> RefreshIsValid(t)
      BY <2>1, <2>3 DEF RefreshIsValid, IsExpired
    <3> QED BY <1>2, <2>3, <3>1 DEF Fills
  <2>8. {a, r} \cap (issued \cap TokenIds) = {}
    BY <2>3
  <2>9. {a, r} \ {None} = {a, r}
    BY <2>2 DEF TokenIds
  <2>10. {x \in AccessIds : AccessIsValid(x)}' = {x \in AccessIds : AccessIsValid(x)} \cup {a}
    BY <2>3
  <2>11. [d \in CodeIds |-> ConsentState(d)]'
            = [[d \in CodeIds |-> ConsentState(d)] EXCEPT ![c] = "open"]
    BY <2>4, <2>5
  <2>12. [d \in CodeIds |-> ConsentSlot(d)]' = [[d \in CodeIds |-> ConsentSlot(d)] EXCEPT ![c] = r]
    BY <2>6, <2>7
  <2>13. Consents!Open(c, a, r)
    BY <2>3, <2>4, <2>8, <2>9, <2>10, <2>11, <2>12 DEF Consents!Open
  <2> QED BY <2>13 DEF Consents!Next
<1>10. ASSUME NEW a \in AccessIds \ issued, NEW k \in ClientIds,
             NEW u \in UserIds \cup {None}, NEW sc \in SUBSET Scopes,
             NEW grant \in GrantTypes, GenerateAccessToken(a, k, u, sc, grant)
      PROVE  Consents!Next
  <2>1. /\ IssueAccessToken(a, None, k, u, sc, None, None, refresh)
        /\ UNCHANGED <<now, codes, held>>
    BY <1>10 DEF GenerateAccessToken
  <2>2. /\ AccessIsValid(a)'
        /\ \A x \in AccessIds \ {a} : AccessIsValid(x)' <=> AccessIsValid(x)
        /\ issued' \cap TokenIds = (issued \cap TokenIds) \cup ({a, None} \ {None})
        /\ issued' \cap CodeIds = issued \cap CodeIds
        /\ \A t \in RefreshIds \ {None} : refresh'[t] = refresh[t] /\ origin'[t] = origin[t]
    <3>1. None \in RefreshIds \cup {None} /\ UNCHANGED now
      BY <2>1
    <3> QED BY <2>1, <3>1, IssuedAccessToken
  <2>3. \A t \in RefreshIds : refresh'[t] = refresh[t] /\ origin'[t] = origin[t]
    BY <2>2 DEF TokenIds
  <2>4. \A t \in RefreshIds : RefreshIsValid(t)' <=> RefreshIsValid(t)
    BY <2>1, <2>3 DEF RefreshIsValid, IsExpired
  <2>5. ASSUME NEW d \in CodeIds
        PROVE  ConsentState(d)' = ConsentState(d) /\ ConsentSlot(d)' = ConsentSlot(d)
    <3>1. CodeIsValid(d)' <=> CodeIsValid(d)
      BY <2>1 DEF CodeIsValid, IsExpired
    <3>2. d \in issued' <=> d \in issued
      BY <2>2
    <3> QED BY <1>1, <1>2, <2>1, <2>3, <2>4, <3>1, <3>2 DEF Fills
  <2>6. {x \in AccessIds : AccessIsValid(x)}' = {x \in AccessIds : AccessIsValid(x)} \cup {a}
    BY <2>2
  <2>7. {a, None} \ {None} = {a} /\ a \notin issued \cap TokenIds
    BY DEF TokenIds
  <2>8. Consents!Grant(a)
    BY <2>2, <2>5, <2>6, <2>7 DEF Consents!Grant
  <2> QED BY <2>8 DEF Consents!Next
(* A renewal puts r into the slot that t filled; r = t without rotation.   *)
<1>11. ASSUME NEW a \in AccessIds \ issued, NEW t \in RefreshIds, NEW r \in RefreshIds,
             NEW k \in ClientIds, RefreshAccessToken(t, k, a, r)
      PROVE  Consents!Next
  <2>1. /\ RefreshIsValid(t) /\ refresh[t] \in RefreshToken /\ k = refresh[t].client
        /\ UNCHANGED <<now, codes, held>>
    BY <1>11 DEF RefreshAccessToken, RefreshIsValid, TypeOK, admin
  <2>2. /\ refresh[t].user \in UserIds /\ refresh[t].scopes \in SUBSET Scopes
        /\ refresh[t].user # None /\ r # None /\ t # None
    BY <2>1, NoneAssumption DEF RefreshToken, TokenIds
  <2>3. PICK c \in CodeIds : c = origin[t] /\ t \in issued /\ ConsentSlot(c) = t
    <3>1. origin[t] # None /\ t \in issued
      BY <2>1 DEF ConsentInv, RefreshIsValid
    <3>2. origin[t] \in CodeIds
      BY <3>1 DEF TypeOK, TokenIds
    <3> QED BY <2>1, <3>1, <3>2 DEF Mapping, Fills
  <2>4. ASSUME AccessIsValid(a)',
               \A x \in AccessIds \ {a} : AccessIsValid(x)' <=> AccessIsValid(x),
               issued' \cap TokenIds = (issued \cap TokenIds) \cup {a, r},
               issued' \cap CodeIds = issued \cap CodeIds,
               Fills(c, r)',
               \A s \in RefreshIds \ {r} : origin'[s] = origin[s],
               origin[r] \in {c, None},
               \A s \in RefreshIds \ {r, t} : RefreshIsValid(s)' <=> RefreshIsValid(s),
               r = t \/ r \notin issued
        PROVE  Consents!Next
    <3>1. \A s \in RefreshIds, d \in CodeIds \ {c} : origin'[s] = d <=> origin[s] = d
      BY <2>4 DEF Fills
    <3>2. \A d \in CodeIds : CodeIsValid(d)' <=> CodeIsValid(d)
      BY <2>1 DEF CodeIsValid, IsExpired
    <3>3. ASSUME NEW d \in CodeIds \ {c}
          PROVE  ConsentState(d)' = ConsentState(d) /\ ConsentSlot(d)' = ConsentSlot(d)
      <4>1. \A s \in RefreshIds : Fills(d, s)' <=> Fills(d, s)
        <5>1. ~Fills(d, t) /\ ~Fills(d, r) /\ ~Fills(d, t)' /\ ~Fills(d, r)'
          BY <2>3, <2>4, <3>1 DEF Fills
        <5> QED BY <2>4, <3>1, <5>1 DEF Fills
      <4>2. d \in issued' <=> d \in issued
        BY <2>4
      <4> QED BY <1>1, <1>2, <2>1, <3>1, <3>2, <4>1, <4>2
    <3>4. ConsentSlot(c)' = r
      BY <2>3, <2>4 DEF Mapping
    <3>5. ConsentState(c)' = "open" /\ ConsentState(c) = "open"
      <4>1. Descended(c)' /\ Descended(c)
        BY <2>3, <2>4 DEF Descended, Fills
      <4> QED BY <2>3, <4>1 DEF Mapping
    <3>6. {x \in AccessIds : AccessIsValid(x)}' = {x \in AccessIds : AccessIsValid(x)} \cup {a}
      BY <2>4
    <3>7. [d \in CodeIds |-> ConsentSlot(d)]'
             = [[d \in CodeIds |-> ConsentSlot(d)] EXCEPT ![c] = r]
      BY <3>3, <3>4
    <3>8. [d \in CodeIds |-> ConsentState(d)]' = [d \in CodeIds |-> ConsentState(d)]
      BY <3>3, <3>5
    <3>9. Consents!Renew(c, a, r)
      BY <2>2, <2>3, <2>4, <3>6, <3>7, <3>8 DEF Consents!Renew
    <3> QED BY <2>3, <3>9 DEF Consents!Next
  <2>5. CASE IssueAccessToken(a, r, k, refresh[t].user, refresh[t].scopes, r, origin[t],
                              [refresh EXCEPT ![t].used = TRUE])
    <3> DEFINE usedUp == [refresh EXCEPT ![t].used = TRUE]
    <3>1. IssueAccessToken(a, r, k, refresh[t].user, refresh[t].scopes, r, c, usedUp)
      BY <2>3, <2>5
    <3>2. \A s \in RefreshIds \ {t} : usedUp[s] = refresh[s]
      BY DEF TypeOK
    <3> HIDE DEF usedUp
    <3>3. /\ AccessIsValid(a)'
          /\ \A x \in AccessIds \ {a} : AccessIsValid(x)' <=> AccessIsValid(x)
          /\ issued' \cap TokenIds = (issued \cap TokenIds) \cup ({a, r} \ {None})
          /\ issued' \cap CodeIds = issued \cap CodeIds
          /\ \A s \in RefreshIds \ {r} : refresh'[s] = usedUp[s] /\ origin'[s] = origin[s]
          /\ RefreshIsValid(r)' /\ origin'[r] = c /\ origin[r] = None /\ r \notin issued
      <4>1. PICK u \in UserIds, sc \in SUBSET Scopes :
               u # None /\ IssueAccessToken(a, r, k, u, sc, r, c, usedUp)
        BY <2>2, <3>1
      <4>2. r \in RefreshIds \cup {None} /\ u \in UserIds \cup {None}
        OBVIOUS
      <4>3. UNCHANGED now /\ (r # None => u # None)
        BY <2>1, <4>1
      <4>4. /\ AccessIsValid(a)'
            /\ \A x \in AccessIds \ {a} : AccessIsValid(x)' <=> AccessIsValid(x)
            /\ issued' \cap TokenIds = (issued \cap TokenIds) \cup ({a, r} \ {None})
            /\ issued' \cap CodeIds = issued \cap CodeIds
            /\ \A s \in RefreshIds \ {r} : refresh'[s] = usedUp[s] /\ origin'[s] = origin[s]
            /\ r # None => /\ RefreshIsValid(r)' /\ origin'[r] = c
                           /\ origin[r] = None /\ r \notin issued
        BY <4>1, <4>2, <4>3, IssuedTokens
      <4> QED BY <2>2, <4>4
    <3>4. {a, r} \ {None} = {a, r}
      BY <2>2 DEF TokenIds
    <3>5. \A s \in RefreshIds \ {r, t} : RefreshIsValid(s)' <=> RefreshIsValid(s)
      BY <2>1, <3>2, <3>3 DEF RefreshIsValid, IsExpired
    <3> QED BY <2>4, <3>3, <3>4, <3>5 DEF Fills
  <2>6. CASE r = t /\ IssueAccessToken(a, None, k, refresh[t].user, refresh[t].scopes, t,
                                       origin[t], refresh)
    <3>1. IssueAccessToken(a, None, k, refresh[t].user, refresh[t].scopes, t, c, refresh)
      BY <2>3, <2>6
    <3>2. /\ AccessIsValid(a)'
          /\ \A x \in AccessIds \ {a} : AccessIsValid(x)' <=> AccessIsValid(x)
          /\ issued' \cap TokenIds = (issued \cap TokenIds) \cup ({a, None} \ {None})
          /\ issued' \cap CodeIds = issued \cap CodeIds
          /\ \A s \in RefreshIds \ {None} : refresh'[s] = refresh[s] /\ origin'[s] = origin[s]
      <4>1. PICK u \in UserIds, sc \in SUBSET Scopes :
               IssueAccessToken(a, None, k, u, sc, t, c, refresh)
        BY <2>2, <3>1
      <4>2. t \in RefreshIds \cup {None} /\ (\A v \in UserIds : v \in UserIds \cup {None})
        OBVIOUS
      <4>3. UNCHANGED now /\ a \in AccessIds \ issued /\ k \in ClientIds
        BY <2>1, <2>2
      <4> QED BY <4>1, <4>2, <4>3, IssuedAccessToken
    <3>3. \A s \in RefreshIds : refresh'[s] = refresh[s] /\ origin'[s] = origin[s]
      BY <3>2 DEF TokenIds
    <3>4. \A s \in RefreshIds : RefreshIsValid(s)' <=> RefreshIsValid(s)
      BY <2>1, <3>3 DEF RefreshIsValid, IsExpired
    <3>5. issued' \cap TokenIds = (issued \cap TokenIds) \cup {a, r}
      BY <2>3, <2>6, <3>2 DEF TokenIds
    <3>6. Fills(c, r)' /\ origin[r] = c
      BY <2>1, <2>3, <2>6, <3>3, <3>4 DEF Fills
    <3> QED BY <2>4, <2>6, <3>2, <3>3, <3>4, <3>5, <3>6
  <2> QED BY <1>11, <2>5, <2>6 DEF RefreshAccessToken
<1> QED BY <1>3, <1>4, <1>5, <1>6, <1>7, <1>8, <1>9, <1>10, <1>11 DEF Next

(* The provider implements the life of a consent: whatever is generated,   *)
(* exchanged, renewed, revoked, expired and cleaned up, a code is claimed  *)
(* and opened at most once, and an open consent has one refresh token.     *)
THEOREM ProviderImplementsLifecycle == Spec => ImplementsConsentLifecycle
<1>1. Init => OriginInv
  BY DEF Init, OriginInv
<1>2. Init => Consents!Init
  <2> SUFFICES ASSUME Init PROVE Consents!Init
    OBVIOUS
  <2>1. ASSUME NEW c \in CodeIds PROVE ConsentState(c) = "new"
    <3>1. c \notin issued /\ held[c] = None /\ ~CodeIsValid(c) /\ c # None
      BY NoneAssumption DEF Init, CodeIsValid
    <3>2. \A r \in RefreshIds : origin[r] # c
      BY <3>1 DEF Init, TokenIds
    <3> QED BY <3>1, <3>2 DEF ConsentState
  <2>2. \A c \in CodeIds : ConsentSlot(c) = None
    BY DEF Init, ConsentSlot, RefreshIsValid
  <2>3. {a \in AccessIds : AccessIsValid(a)} = {} /\ issued \cap TokenIds = {}
    BY DEF Init, AccessIsValid
  <2> QED BY <2>1, <2>2, <2>3 DEF Consents!Init
<1>3. Spec => []OriginInv
  BY <1>1, OriginStep, TypeCorrect, PTL DEF Spec
<1> QED BY <1>2, <1>3, MappingHolds, RefinementStep, TypeCorrect, ConsentInvariant, PTL
        DEF Spec, ImplementsConsentLifecycle, Consents!Spec
=============================================================================
