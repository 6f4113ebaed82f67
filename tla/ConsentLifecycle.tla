-------------------------- MODULE ConsentLifecycle --------------------------
(***************************************************************************)
(* What the OAuth 2.0 provider promises, without clocks, clients, users or *)
(* dictionaries.  A consent is what a resource owner gave when an          *)
(* authorization code was generated.  A consent is claimed at most once,   *)
(* opened at most once, and while it is open it holds ONE slot for a       *)
(* refresh token: renewing either keeps the token in the slot or replaces  *)
(* it by one never seen before.  A credential that lapses (it expires, is  *)
(* used or is revoked) never comes back.                                   *)
(***************************************************************************)
CONSTANTS Consents,      \* identities of consents (authorization codes)
          AccessIds,     \* identities of access tokens
          RefreshIds,    \* identities of refresh tokens
          None           \* an empty slot

VARIABLES state,         \* of each consent: new, offered, claimed, open, closed
          slot,          \* the refresh token each consent can be renewed with
          known,         \* identities of the tokens that were ever handed out
          live           \* the access tokens that are accepted now

vars == <<state, slot, known, live>>

States == {"new", "offered", "claimed", "open", "closed"}

TypeOK ==
    /\ state \in [Consents -> States]
    /\ slot \in [Consents -> RefreshIds \cup {None}]
    /\ known \subseteq AccessIds \cup RefreshIds
    /\ live \subseteq AccessIds

Init ==
    /\ state = [c \in Consents |-> "new"]
    /\ slot = [c \in Consents |-> None]
    /\ known = {}
    /\ live = {}

Offer(c) ==
    /\ state[c] = "new"
    /\ state' = [state EXCEPT ![c] = "offered"]
    /\ UNCHANGED <<slot, known, live>>

Claim(c) ==
    /\ state[c] = "offered"
    /\ state' = [state EXCEPT ![c] = "claimed"]
    /\ UNCHANGED <<slot, known, live>>

(* The claimed consent yields its first access token and refresh token. *)
Open(c, a, r) ==
    /\ state[c] = "claimed"
    /\ {a, r} \cap known = {}
    /\ state' = [state EXCEPT ![c] = "open"]
    /\ slot' = [slot EXCEPT ![c] = r]
    /\ known' = known \cup {a, r}
    /\ live' = live \cup {a}

(* Renewal: an access token against the refresh token in the slot, which   *)
(* stays there (r = slot[c]) or gives way to one never seen before.        *)
Renew(c, a, r) ==
    /\ slot[c] # None
    /\ a \notin known
    /\ r = slot[c] \/ r \notin known
    /\ slot' = [slot EXCEPT ![c] = r]
    /\ known' = known \cup {a, r}
    /\ live' = live \cup {a}
    /\ UNCHANGED state

(* An access token that rests on no consent (client credentials). *)
Grant(a) ==
    /\ a \notin known
    /\ known' = known \cup {a}
    /\ live' = live \cup {a}
    /\ UNCHANGED <<state, slot>>

(* Offers, slots and access tokens lapse, any number of them at once. *)
Lapse ==
    /\ state' \in [Consents -> States]
    /\ \A c \in Consents :
          \/ state'[c] = state[c]
          \/ state[c] = "offered" /\ state'[c] = "closed"
    /\ slot' \in [Consents -> RefreshIds \cup {None}]
    /\ \A c \in Consents : slot'[c] \in {slot[c], None}
    /\ live' \in SUBSET live
    /\ UNCHANGED known

Next ==
    \/ \E c \in Consents : Offer(c) \/ Claim(c)
    \/ \E c \in Consents, a \in AccessIds, r \in RefreshIds :
          Open(c, a, r) \/ Renew(c, a, r)
    \/ \E a \in AccessIds : Grant(a)
    \/ Lapse

Spec == Init /\ [][Next]_vars
=============================================================================
