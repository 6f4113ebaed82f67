------------------------------ MODULE MCOAuth2 ------------------------------
(* Small instances of OAuth2Provider for TLC. *)
EXTENDS OAuth2Provider, TLC

CONSTANTS k1, k2, u1, uri1, s1, s2, v1, c1, c2, a1, a2, a3, r1, r2, r3

(* A client registered for everything, and the same client registered     *)
(* again without scopes and for client credentials only.                  *)
FullRegistration ==
    [scopes |-> {s1}, grants |-> {"authorization_code", "pkce", "client_credentials"},
     redirects |-> {uri1}]
NarrowRegistration ==
    [scopes |-> {}, grants |-> {"client_credentials"}, redirects |-> {uri1}]
BothRegistrations == {FullRegistration, NarrowRegistration}

WithAndWithoutRotation == BOOLEAN

(* Two slices of one state space.  In the first one client redeems one     *)
(* code without PKCE while time passes; in the second two clients redeem   *)
(* two codes, one of them with PKCE, at one time.                          *)
OneConsentOverTime ==
    /\ \A c \in CodeIds : codes[c] # None => codes[c].challenge = None
    /\ \A k, l \in {k \in ClientIds : clients[k] # None} : k = l
    /\ \A c, d \in issued \cap CodeIds : c = d
TwoConsentsAtOnce ==
    /\ now = 0
    /\ rotation
    /\ \A k \in ClientIds : clients[k] # NarrowRegistration
    /\ \A c, d \in CodeIds : codes[c] # None /\ codes[d] # None
                              /\ codes[c].challenge # None /\ codes[d].challenge # None => c = d
WithinSlices == OneConsentOverTime \/ TwoConsentsAtOnce

Identifiers ==
    Permutations(CodeIds) \cup Permutations(AccessIds) \cup Permutations(RefreshIds)
    \cup Permutations(ClientIds)
=============================================================================
