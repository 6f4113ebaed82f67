--------------------------- MODULE OAuth2Provider ---------------------------
(***************************************************************************)
(* auth/oauth2_provider.py: the five dictionaries of an OAuth2Provider and *)
(* every operation that changes them.  A dictionary is a total function    *)
(* whose value at a missing key is None.  A call that raises OAuthError    *)
(* leaves the state alone, so it is a step that does not happen.           *)
(*                                                                         *)
(* The operations are synchronous and the provider starts no thread: each  *)
(* is one action.  What interleaves is the calls, the clock, and the       *)
(* administration of clients and users between two calls.                  *)
(*                                                                         *)
(* The token endpoint, which is not in the repository, is modelled as its  *)
(* tests use the provider: it validates a code, keeps the object returned  *)
(* (held), and later passes its fields to generate_access_token.           *)
(***************************************************************************)
EXTENDS Integers

CONSTANTS
    ClientIds, UserIds, RedirectUris, Scopes,
    Verifiers,              \* PKCE code verifiers
    CodeIds, AccessIds, RefreshIds,  \* the strings secrets.token_urlsafe returns
    Registrations,          \* the client records register_client is called with
    CodeLifetime,           \* 600 s in the code
    TokenLifetime,          \* self.token_lifetime
    RefreshLifetime,        \* self.refresh_token_lifetime
    EnablePkce,
    RotationModes,          \* the values enable_token_rotation is constructed with
    MaxTime,                \* the bound of the clock
    None

VARIABLES
    now,        \* time.time()
    rotation,   \* self.enable_token_rotation: set once, by the constructor
    clients,    \* self._clients
    users,      \* self._users: the is_active flag of each user, or None
    codes,      \* self._auth_codes
    access,     \* self._access_tokens
    refresh,    \* self._refresh_tokens
    held,       \* AuthorizationCode objects the token endpoint holds
    issued,     \* history: every identifier generated so far
    consent,    \* history: what each code stood for when it was generated
    origin      \* history: the code each token descends from, or None

vars == <<now, rotation, clients, users, codes, access, refresh, held, issued, consent, origin>>
admin == <<rotation, clients, users>>

GrantTypes == {"authorization_code", "client_credentials", "refresh_token", "pkce"}
Methods == {"plain", "S256"}

S256(v) == <<"S256", v>>
Texts == Verifiers \cup {S256(v) : v \in Verifiers}
TokenIds == AccessIds \cup RefreshIds

OAuthClient == [scopes : SUBSET Scopes, grants : SUBSET GrantTypes,
                redirects : SUBSET RedirectUris]
AuthorizationCode == [client : ClientIds, user : UserIds, redirect : RedirectUris,
                      scopes : SUBSET Scopes, challenge : Texts \cup {None},
                      method : Methods \cup {None}, expires : Nat, used : BOOLEAN]
AccessToken == [client : ClientIds, user : UserIds \cup {None}, scopes : SUBSET Scopes,
                expires : Nat, refresh : RefreshIds \cup {None}]
RefreshToken == [client : ClientIds, user : UserIds, scopes : SUBSET Scopes,
                 expires : Nat, used : BOOLEAN]
Consent == [client : ClientIds, user : UserIds, scopes : SUBSET Scopes]

(* What the normalizers let through: they refuse an empty list of redirect *)
(* URIs and an empty set of grant types, and accept no scopes at all.      *)
NormalizedClients == {reg \in OAuthClient : reg.grants # {} /\ reg.redirects # {}}

ASSUME RegistrationsAssumption == Registrations \subseteq NormalizedClients
ASSUME LifetimeAssumption ==
    /\ CodeLifetime \in Nat \ {0}
    /\ TokenLifetime \in Nat \ {0}
    /\ RefreshLifetime \in Nat \ {0}
    /\ MaxTime \in Nat
ASSUME FlagAssumption == EnablePkce \in BOOLEAN /\ RotationModes \subseteq BOOLEAN
ASSUME NoneAssumption ==
    None \notin CodeIds \cup TokenIds \cup UserIds \cup ClientIds \cup Texts
                \cup Methods \cup OAuthClient \cup AuthorizationCode \cup AccessToken
                \cup RefreshToken \cup Consent \cup BOOLEAN
ASSUME IdentifierAssumption ==
    /\ AccessIds \cap RefreshIds = {}
    /\ CodeIds \cap TokenIds = {}

TypeOK ==
    /\ now \in Nat
    /\ rotation \in RotationModes
    /\ clients \in [ClientIds -> Registrations \cup {None}]
    /\ users \in [UserIds -> BOOLEAN \cup {None}]
    /\ codes \in [CodeIds -> AuthorizationCode \cup {None}]
    /\ access \in [AccessIds -> AccessToken \cup {None}]
    /\ refresh \in [RefreshIds -> RefreshToken \cup {None}]
    /\ held \in [CodeIds -> AuthorizationCode \cup {None}]
    /\ issued \subseteq CodeIds \cup TokenIds
    /\ consent \in [CodeIds -> Consent \cup {None}]
    /\ origin \in [TokenIds -> CodeIds \cup {None}]

Init ==
    /\ now = 0
    /\ rotation \in RotationModes
    /\ clients = [k \in ClientIds |-> None]
    /\ users = [u \in UserIds |-> None]
    /\ codes = [c \in CodeIds |-> None]
    /\ access = [a \in AccessIds |-> None]
    /\ refresh = [r \in RefreshIds |-> None]
    /\ held = [c \in CodeIds |-> None]
    /\ issued = {}
    /\ consent = [c \in CodeIds |-> None]
    /\ origin = [t \in TokenIds |-> None]

-----------------------------------------------------------------------------
(* Reading the dictionaries. *)

IsExpired(rec) == now > rec.expires

(* BUG for the checks: a code can be used again. *)
CodeIsValidAgain(c) == codes[c] # None /\ ~IsExpired(codes[c])

CodeIsValid(c) == codes[c] # None /\ ~codes[c].used /\ ~IsExpired(codes[c])

(* BUGS for the checks: a used, or an expired, refresh token is accepted. *)
RefreshIsValidAgain(r) == refresh[r] # None /\ ~IsExpired(refresh[r])
RefreshIsValidForever(r) == refresh[r] # None /\ ~refresh[r].used

RefreshIsValid(r) == refresh[r] # None /\ ~refresh[r].used /\ ~IsExpired(refresh[r])

AccessIsValid(a) == access[a] # None /\ ~IsExpired(access[a])

UserIsActive(u) == users[u] = TRUE

SupportsRefreshGrant(k) ==
    clients[k].grants \cap {"refresh_token", "authorization_code", "pkce"} # {}

ValidateClientScopes(k, sc) == sc \subseteq clients[k].scopes

(* The "active" member of what introspect_token returns. *)
IntrospectActive(t) ==
    \/ t \in AccessIds /\ AccessIsValid(t)
    \/ t \in RefreshIds /\ RefreshIsValid(t)

ValidatePkce(verifier, challenge, method) ==
    IF method = "S256" THEN challenge = S256(verifier) ELSE challenge = verifier

-----------------------------------------------------------------------------
(* Administration and time. *)

RegisterClient(k, reg) ==
    /\ clients' = [clients EXCEPT ![k] = reg]
    /\ UNCHANGED <<now, rotation, users, codes, access, refresh, held, issued, consent, origin>>

(* Registering again replaces the OAuthUser object: is_active is TRUE. *)
RegisterUser(u) ==
    /\ users' = [users EXCEPT ![u] = TRUE]
    /\ UNCHANGED <<now, rotation, clients, codes, access, refresh, held, issued, consent, origin>>

(* No method deactivates a user: callers clear the flag of the object. *)
DeactivateUser(u) ==
    /\ UserIsActive(u)
    /\ users' = [users EXCEPT ![u] = FALSE]
    /\ UNCHANGED <<now, rotation, clients, codes, access, refresh, held, issued, consent, origin>>

Tick ==
    /\ now < MaxTime
    /\ now' = now + 1
    /\ UNCHANGED <<admin, codes, access, refresh, held, issued, consent, origin>>

-----------------------------------------------------------------------------
(* Authorization codes. *)

GenerateAuthorizationCode(c, k, u, uri, sc, challenge, method) ==
    /\ clients[k] # None
    /\ UserIsActive(u)
    /\ uri \in clients[k].redirects
    /\ ValidateClientScopes(k, sc)
    /\ challenge # None => EnablePkce
    /\ method # None => challenge # None
    /\ codes' = [codes EXCEPT ![c] =
                   [client |-> k, user |-> u, redirect |-> uri, scopes |-> sc,
                    challenge |-> challenge, method |-> method,
                    expires |-> now + CodeLifetime, used |-> FALSE]]
    /\ issued' = issued \cup {c}
    /\ consent' = [consent EXCEPT ![c] = [client |-> k, user |-> u, scopes |-> sc]]
    /\ UNCHANGED <<now, admin, access, refresh, held, origin>>

ValidateAuthorizationCode(c, k, uri, verifier) ==
    /\ CodeIsValid(c)
    /\ codes[c].client = k
    /\ codes[c].redirect = uri
    /\ codes[c].challenge # None =>
          /\ verifier # None
          /\ ValidatePkce(verifier, codes[c].challenge, codes[c].method)
    /\ codes' = [codes EXCEPT ![c].used = TRUE]
    /\ held' = [held EXCEPT ![c] = codes'[c]]
    /\ UNCHANGED <<now, admin, access, refresh, issued, consent, origin>>

-----------------------------------------------------------------------------
(* Tokens. *)

(* BUGS for the checks: the sign of the lifetime, all scopes of the client. *)
NewRefreshTokenInThePast(k, u, sc) ==
    [client |-> k, user |-> u, scopes |-> sc,
     expires |-> now - RefreshLifetime, used |-> FALSE]
NewRefreshTokenForClient(k, u, sc) ==
    [client |-> k, user |-> u, scopes |-> clients[k].scopes,
     expires |-> now + RefreshLifetime, used |-> FALSE]

NewRefreshToken(k, u, sc) ==
    [client |-> k, user |-> u, scopes |-> sc,
     expires |-> now + RefreshLifetime, used |-> FALSE]

(* a and r are fresh: secrets.token_urlsafe does not repeat itself.       *)
(* _issue_access_token, and _generate_refresh_token when r # None.  link   *)
(* is the refresh_token field, from the code c the token descends.         *)
IssueAccessToken(a, r, k, u, sc, link, c, refreshNow) ==
    /\ r # None => r \notin issued
    /\ access' = [access EXCEPT ![a] =
                    [client |-> k, user |-> u, scopes |-> sc,
                     expires |-> now + TokenLifetime, refresh |-> link]]
    /\ refresh' = [t \in RefreshIds |->
                     IF t = r THEN NewRefreshToken(k, u, sc) ELSE refreshNow[t]]
    /\ issued' = issued \cup ({a, r} \ {None})
    /\ origin' = [t \in TokenIds |-> IF t \in {a, r} THEN c ELSE origin[t]]

(* The checks of generate_access_token. *)
MayGenerate(k, u, sc, grant) ==
    /\ clients[k] # None
    /\ grant \in clients[k].grants
    /\ ValidateClientScopes(k, sc)
    /\ grant # "client_credentials" => u # None

(* The token endpoint exchanges a code it validated earlier. *)
ExchangeCode(c, a, r) ==
    /\ held[c] # None
    /\ LET code  == held[c]
           grant == IF code.challenge = None THEN "authorization_code" ELSE "pkce"
       IN  /\ MayGenerate(code.client, code.user, code.scopes, grant)
           /\ IssueAccessToken(a, r, code.client, code.user, code.scopes, r, c, refresh)
    /\ held' = [held EXCEPT ![c] = None]
    /\ UNCHANGED <<now, admin, codes, consent>>

(* generate_access_token for the grants that yield no refresh token. *)
GenerateAccessToken(a, k, u, sc, grant) ==
    /\ grant \in {"client_credentials", "refresh_token"}
    /\ MayGenerate(k, u, sc, grant)
    /\ IssueAccessToken(a, None, k, u, sc, None, None, refresh)
    /\ UNCHANGED <<now, admin, codes, held, consent>>

(* refresh_access_token; with rotation r is the replacement, without it    *)
(* the token presented.                                                    *)
RefreshAccessToken(t, k, a, r) ==
    /\ RefreshIsValid(t)
    /\ refresh[t].client = k
    /\ clients[k] # None
    /\ SupportsRefreshGrant(k)
    /\ UserIsActive(refresh[t].user)
    /\ \/ /\ rotation
          /\ IssueAccessToken(a, r, k, refresh[t].user, refresh[t].scopes, r, origin[t],
                              [refresh EXCEPT ![t].used = TRUE])
       \/ /\ ~rotation
          /\ r = t
          /\ IssueAccessToken(a, None, k, refresh[t].user, refresh[t].scopes, t, origin[t],
                              refresh)
    /\ UNCHANGED <<now, admin, codes, held, consent>>

RevokeToken(t) ==
    /\ \/ /\ t \in AccessIds
          /\ access[t] # None
          /\ access' = [access EXCEPT ![t] = None]
          /\ UNCHANGED refresh
       \/ /\ t \in RefreshIds
          /\ refresh[t] # None
          /\ refresh' = [refresh EXCEPT ![t].used = TRUE]
          /\ UNCHANGED access
    /\ UNCHANGED <<now, admin, codes, held, issued, consent, origin>>

(* BUG for the checks: cleanup disagrees with is_valid about the boundary. *)
CleanupAtExpiry ==
    /\ codes' = [c \in CodeIds |-> IF CodeIsValid(c) THEN codes[c] ELSE None]
    /\ access' = [a \in AccessIds |-> IF access[a] # None /\ now < access[a].expires
                                      THEN access[a] ELSE None]
    /\ refresh' = [r \in RefreshIds |-> IF RefreshIsValid(r) THEN refresh[r] ELSE None]
    /\ UNCHANGED <<now, admin, held, issued, consent, origin>>

CleanupExpiredTokens ==
    /\ codes' = [c \in CodeIds |-> IF CodeIsValid(c) THEN codes[c] ELSE None]
    /\ access' = [a \in AccessIds |-> IF AccessIsValid(a) THEN access[a] ELSE None]
    /\ refresh' = [r \in RefreshIds |-> IF RefreshIsValid(r) THEN refresh[r] ELSE None]
    /\ UNCHANGED <<now, admin, held, issued, consent, origin>>

-----------------------------------------------------------------------------
Next ==
    \/ \E k \in ClientIds, reg \in Registrations : RegisterClient(k, reg)
    \/ \E u \in UserIds : RegisterUser(u) \/ DeactivateUser(u)
    \/ Tick
    \/ \E c \in CodeIds \ issued, k \in ClientIds, u \in UserIds, uri \in RedirectUris,
          sc \in SUBSET Scopes, challenge \in Texts \cup {None},
          method \in Methods \cup {None} :
             GenerateAuthorizationCode(c, k, u, uri, sc, challenge, method)
    \/ \E c \in CodeIds, k \in ClientIds, uri \in RedirectUris, v \in Texts \cup {None} :
          ValidateAuthorizationCode(c, k, uri, v)
    \/ \E a \in AccessIds \ issued :
          \/ \E c \in CodeIds, r \in RefreshIds : ExchangeCode(c, a, r)
          \/ \E k \in ClientIds, u \in UserIds \cup {None}, sc \in SUBSET Scopes,
                grant \in GrantTypes : GenerateAccessToken(a, k, u, sc, grant)
          \/ \E t, r \in RefreshIds, k \in ClientIds : RefreshAccessToken(t, k, a, r)
    \/ \E t \in TokenIds : RevokeToken(t)
    \/ CleanupExpiredTokens

Spec == Init /\ [][Next]_vars

-----------------------------------------------------------------------------
(* PROPERTIES *)

(* At no time can two refresh tokens that descend from one authorization   *)
(* code both be used: rotation uses the old one up before the new one      *)
(* exists, and a code is redeemed once even after its record was cleaned   *)
(* up (validate_authorization_code, refresh_access_token).                 *)
OneRefreshTokenPerConsent ==
    \A r1, r2 \in RefreshIds :
        RefreshIsValid(r1) /\ RefreshIsValid(r2) /\ origin[r1] = origin[r2] => r1 = r2

Within(rec, c) ==
    /\ rec.client = consent[c].client
    /\ rec.user = consent[c].user
    /\ rec.scopes \subseteq consent[c].scopes

(* However many exchanges, rotations and client registrations lie between, *)
(* a stored token never carries more than the consent it descends from:    *)
(* the same client and user, no further scope.                             *)
AuthorityWithinConsent ==
    /\ \A a \in AccessIds : access[a] # None /\ origin[a] # None => Within(access[a], origin[a])
    /\ \A r \in RefreshIds : refresh[r] # None => Within(refresh[r], origin[r])

(* The refresh_token field of an access token names a token of the same    *)
(* consent, and an access token outlives the refresh token it came with by *)
(* at most one token lifetime, so that a refresh token that is not renewed *)
(* bounds the life of the whole grant (_issue_access_token, and the two    *)
(* branches of refresh_access_token).                                      *)
AccessTokenBoundToRefreshToken ==
    \A a \in AccessIds :
        access[a] # None /\ access[a].refresh # None =>
            LET r == access[a].refresh
            IN  /\ r \in issued
                /\ origin[r] = origin[a]
                /\ refresh[r] # None => access[a].expires <= refresh[r].expires + TokenLifetime

Usable == {c \in CodeIds : CodeIsValid(c)} \cup {t \in TokenIds : IntrospectActive(t)}

(* cleanup_expired_tokens only forgets: no code, access token or refresh   *)
(* token that would have been accepted before it is refused after it, and  *)
(* none that would have been refused is accepted.                          *)
CleanupIsInvisible == [][CleanupExpiredTokens => Usable' = Usable]_vars

(* The strengthening that makes OneRefreshTokenPerConsent inductive: a     *)
(* code that has descendants, or that the endpoint holds, can never be     *)
(* validated again, because its record is used up or gone and its          *)
(* identifier is not generated twice.                                      *)
Redeemed(c) == c \in issued /\ (codes[c] = None \/ codes[c].used)

ConsentInv ==
    /\ \A c \in CodeIds : codes[c] # None => c \in issued
    /\ \A c \in CodeIds : held[c] # None => Redeemed(c)
    /\ \A r \in RefreshIds : refresh[r] # None => r \in issued /\ origin[r] # None
    /\ \A t \in TokenIds : origin[t] # None => Redeemed(origin[t]) /\ held[origin[t]] = None
    /\ \A r1, r2 \in RefreshIds :
          /\ refresh[r1] # None /\ ~refresh[r1].used
          /\ refresh[r2] # None /\ ~refresh[r2].used
          /\ origin[r1] = origin[r2]
          => r1 = r2

-----------------------------------------------------------------------------
(* REFINEMENT *)

ConsentState(c) ==
    CASE c \notin issued                          -> "new"
      [] held[c] # None                           -> "claimed"
      [] \E r \in RefreshIds : origin[r] = c      -> "open"
      [] CodeIsValid(c)                           -> "offered"
      [] OTHER                                    -> "closed"

ConsentSlot(c) ==
    LET usable == {r \in RefreshIds : RefreshIsValid(r) /\ origin[r] = c}
    IN  IF usable = {} THEN None ELSE CHOOSE r \in usable : TRUE

Consents == INSTANCE ConsentLifecycle WITH
    Consents <- CodeIds,
    state <- [c \in CodeIds |-> ConsentState(c)],
    slot <- [c \in CodeIds |-> ConsentSlot(c)],
    known <- issued \cap TokenIds,
    live <- {a \in AccessIds : AccessIsValid(a)}

(* The provider implements the life of a consent: a code is claimed at     *)
(* most once, opened at most once, renewed only through the one refresh    *)
(* token in its slot, and what lapsed stays lapsed.                        *)
ImplementsConsentLifecycle == Consents!Spec
=============================================================================
