----------------------------- MODULE MFAProvider -----------------------------
(***************************************************************************)
(* auth/mfa_provider.py: MFA configurations, WebAuthn credentials and      *)
(* WebAuthn challenges of an MFAProvider.  A verification that answers     *)
(* False and changes nothing is a step that does not happen.               *)
(*                                                                         *)
(* Secrets and backup codes are named by the setup or regeneration that    *)
(* produced them (their batch), challenges by the order of their           *)
(* generation.  A HOTP token is named by its secret and counter, a TOTP    *)
(* token by its secret and time step (pyotp is external).  Parsing and the *)
(* checks of origin, type and flags are part of what an authenticator may  *)
(* present.                                                                *)
(***************************************************************************)
EXTENDS Integers

CONSTANTS
    Users,
    CredIds,            \* the credential identifiers clients send
    AuthName,           \* the string "auth_" + user_id of each user
    BackupCount,        \* self.backup_codes_count
    TotpWindow,         \* self.totp_window
    ChallengeLifetime,  \* 300 s in the code
    MaxBatches,         \* bound on setups and regenerations
    MaxChallenges,      \* bound on challenges generated
    MaxCount,           \* bound on HOTP and signature counters
    MaxTime,            \* bound of the clock
    None

VARIABLES
    now,                \* time.time(), in TOTP time steps
    configs,            \* self._mfa_configs
    credentials,        \* self._webauthn_credentials
    challenges,         \* self._webauthn_challenges
    batches,            \* history: number of batches generated
    generated,          \* history: number of challenges generated
    uses,               \* history: how often each one-time proof was accepted
    registrants         \* history: who ever registered each credential identifier

vars == <<now, configs, credentials, challenges, batches, generated, uses, registrants>>

Batch == 1 .. MaxBatches
BackupCodes == Batch \X (1 .. BackupCount)
(* Registration challenges are stored under the user, authentication       *)
(* challenges under "auth_" and the user, in one dictionary: the name of   *)
(* one user can be the key of another's authentication challenge.          *)
ChallengeKeysOf(u) == {u, AuthName[u]}
ChallengeKeys == UNION {ChallengeKeysOf(u) : u \in Users}

OneTime ==
    ({"backup"} \X BackupCodes)
    \cup ({"hotp"} \X Batch \X (0 .. MaxCount))
    \cup ({"challenge"} \X (1 .. MaxChallenges))

MFAConfig == [type : {"totp", "hotp", "webauthn"}, enabled : BOOLEAN,
              secret : Batch \cup {None}, codes : SUBSET BackupCodes,
              counter : 0 .. MaxCount, credential : CredIds \cup {None}]

Credential == [user : Users, count : 0 .. MaxCount]

ASSUME MFAAssumption ==
    /\ DOMAIN AuthName = Users
    /\ None \notin CredIds \cup Credential
    /\ {BackupCount, TotpWindow, ChallengeLifetime, MaxBatches, MaxChallenges,
        MaxCount, MaxTime} \subseteq Nat

TypeOK ==
    /\ now \in 0 .. MaxTime
    /\ configs \in [Users -> MFAConfig \cup {None}]
    /\ credentials \in [CredIds -> Credential \cup {None}]
    /\ challenges \in [ChallengeKeys -> [id : 1 .. MaxChallenges, expires : Nat] \cup {None}]
    /\ batches \in 0 .. MaxBatches
    /\ generated \in 0 .. MaxChallenges
    /\ uses \in [OneTime -> Nat]
    /\ registrants \in [CredIds -> SUBSET Users]

Init ==
    /\ now = 0
    /\ configs = [u \in Users |-> None]
    /\ credentials = [k \in CredIds |-> None]
    /\ challenges = [key \in ChallengeKeys |-> None]
    /\ batches = 0
    /\ generated = 0
    /\ uses = [p \in OneTime |-> 0]
    /\ registrants = [k \in CredIds |-> {}]

HasType(u, type) == configs[u] # None /\ configs[u].type = type

Accept(proof) == uses' = [uses EXCEPT ![proof] = @ + 1]

(* BUG for the checks: the batch is numbered before it is counted. *)
LastBackupCodes == {batches} \X (1 .. BackupCount)

NewBackupCodes == {batches + 1} \X (1 .. BackupCount)

CredentialsOf(u) ==
    {k \in CredIds : credentials[k] # None /\ credentials[k].user = u}

-----------------------------------------------------------------------------
(* TOTP, HOTP and backup codes *)

(* setup_totp and setup_hotp replace whatever the user had. *)
Setup(u, type) ==
    /\ batches < MaxBatches
    /\ batches' = batches + 1
    /\ configs' = [configs EXCEPT ![u] =
          [type |-> type, enabled |-> FALSE, secret |-> batches + 1,
           codes |-> NewBackupCodes, counter |-> 0, credential |-> None]]
    /\ UNCHANGED <<now, credentials, challenges, generated, uses, registrants>>

RegenerateBackupCodes(u) ==
    /\ configs[u] # None
    /\ batches < MaxBatches
    /\ batches' = batches + 1
    /\ configs' = [configs EXCEPT ![u].codes = NewBackupCodes]
    /\ UNCHANGED <<now, credentials, challenges, generated, uses, registrants>>

(* BUG for the checks: an accepted backup code is not removed. *)
KeepBackupCode(u, code) ==
    /\ HasType(u, "totp") \/ HasType(u, "hotp")
    /\ code \in configs[u].codes
    /\ Accept(<<"backup", code>>)
    /\ UNCHANGED <<now, configs, credentials, challenges, batches, generated, registrants>>

(* A backup code given to verify_totp or verify_hotp is looked at first,   *)
(* and does not enable the configuration.                                  *)
VerifyBackupCode(u, code) ==
    /\ HasType(u, "totp") \/ HasType(u, "hotp")
    /\ code \in configs[u].codes
    /\ configs' = [configs EXCEPT ![u].codes = @ \ {code}]
    /\ Accept(<<"backup", code>>)
    /\ UNCHANGED <<now, credentials, challenges, batches, generated, registrants>>

VerifyTotp(u, secret, step) ==
    /\ HasType(u, "totp")
    /\ configs[u].secret = secret
    /\ step \in now - TotpWindow .. now + TotpWindow
    /\ configs' = [configs EXCEPT ![u].enabled = TRUE]
    /\ UNCHANGED <<now, credentials, challenges, batches, generated, uses, registrants>>

VerifyHotp(u, secret, counter) ==
    /\ HasType(u, "hotp")
    /\ configs[u].secret = secret
    /\ configs[u].counter = counter
    /\ counter < MaxCount
    /\ configs' = [configs EXCEPT ![u].counter = @ + 1, ![u].enabled = TRUE]
    /\ Accept(<<"hotp", secret, counter>>)
    /\ UNCHANGED <<now, credentials, challenges, batches, generated, registrants>>

-----------------------------------------------------------------------------
(* WebAuthn *)

Challenge(key) ==
    /\ generated < MaxChallenges
    /\ generated' = generated + 1
    /\ challenges' = [challenges EXCEPT ![key] =
                        [id |-> generated + 1, expires |-> now + ChallengeLifetime]]
    /\ UNCHANGED <<now, configs, credentials, batches, uses, registrants>>

RegistrationOptions(u) == Challenge(u)

AuthenticationOptions(u) == CredentialsOf(u) # {} /\ Challenge(AuthName[u])

(* A verification that finds its challenge expired deletes it. *)
DropExpired(key) ==
    /\ challenges[key] # None
    /\ now > challenges[key].expires
    /\ challenges' = [challenges EXCEPT ![key] = None]
    /\ UNCHANGED <<now, configs, credentials, batches, generated, uses, registrants>>

Answers(key, id) ==
    /\ challenges[key] # None
    /\ now <= challenges[key].expires
    /\ challenges[key].id = id

(* The identifier is the client's: one that is stored already is replaced,  *)
(* whoever registered it.                                                  *)
VerifyRegistration(u, id, k, count) ==
    /\ Answers(u, id)
    /\ credentials' = [credentials EXCEPT ![k] = [user |-> u, count |-> count]]
    /\ configs' = [configs EXCEPT ![u] =
          [type |-> "webauthn", enabled |-> TRUE, secret |-> None, codes |-> {},
           counter |-> 0, credential |-> k]]
    /\ challenges' = [challenges EXCEPT ![u] = None]
    /\ registrants' = [registrants EXCEPT ![k] = @ \cup {u}]
    /\ Accept(<<"challenge", id>>)
    /\ UNCHANGED <<now, batches, generated>>

VerifyAuthentication(u, id, k, count) ==
    /\ Answers(AuthName[u], id)
    /\ credentials[k] # None
    /\ count > credentials[k].count
    /\ credentials' = [credentials EXCEPT ![k].count = count]
    /\ challenges' = [challenges EXCEPT ![AuthName[u]] = None]
    /\ Accept(<<"challenge", id>>)
    /\ UNCHANGED <<now, configs, batches, generated, registrants>>

-----------------------------------------------------------------------------
(* BUG for the checks: the credentials of every user are removed. *)
DisableAllCredentials(u, code) ==
    /\ configs[u] # None
    /\ code \in configs[u].codes
    /\ credentials' = [k \in CredIds |-> None]
    /\ challenges' = [key \in ChallengeKeys |->
                        IF key \in ChallengeKeysOf(u) THEN None ELSE challenges[key]]
    /\ configs' = [configs EXCEPT ![u] = None]
    /\ Accept(<<"backup", code>>)
    /\ UNCHANGED <<now, batches, generated, registrants>>

DisableMfa(u, code) ==
    /\ configs[u] # None
    /\ code \in configs[u].codes
    /\ credentials' = [k \in CredIds |->
                         IF k = configs[u].credential THEN None ELSE credentials[k]]
    /\ challenges' = [key \in ChallengeKeys |->
                        IF key \in ChallengeKeysOf(u) THEN None ELSE challenges[key]]
    /\ configs' = [configs EXCEPT ![u] = None]
    /\ Accept(<<"backup", code>>)
    /\ UNCHANGED <<now, batches, generated, registrants>>

Tick ==
    /\ now < MaxTime
    /\ now' = now + 1
    /\ UNCHANGED <<configs, credentials, challenges, batches, generated, uses, registrants>>

Next ==
    \/ Tick
    \/ \E key \in ChallengeKeys : DropExpired(key)
    \/ \E u \in Users :
          \/ Setup(u, "totp") \/ Setup(u, "hotp")
          \/ RegenerateBackupCodes(u)
          \/ RegistrationOptions(u) \/ AuthenticationOptions(u)
          \/ \E code \in BackupCodes : VerifyBackupCode(u, code) \/ DisableMfa(u, code)
          \/ \E secret \in Batch, n \in 0 .. MaxTime : VerifyTotp(u, secret, n)
          \/ \E secret \in Batch, n \in 0 .. MaxCount : VerifyHotp(u, secret, n)
          \/ \E id \in 1 .. MaxChallenges, k \in CredIds, n \in 0 .. MaxCount :
                VerifyRegistration(u, id, k, n) \/ VerifyAuthentication(u, id, k, n)

Spec == Init /\ [][Next]_vars

-----------------------------------------------------------------------------
(* PROPERTIES *)

(* A backup code, a HOTP token and the answer to a WebAuthn challenge are  *)
(* each accepted at most once, across all the operations that accept them  *)
(* (the two verify methods and disable_mfa share the backup codes), across *)
(* new setups, regenerations and expiries.                                 *)
AcceptedAtMostOnce == \A proof \in OneTime : uses[proof] <= 1

(* A WebAuthn configuration refers to a stored credential of its user, so  *)
(* that the user can authenticate with it, whatever the user and the others *)
(* set up, register and disable: unless another user registered the same   *)
(* identifier, which verify_webauthn_registration lets in.                 *)
WebAuthnConfigHasCredential ==
    \A u \in Users :
        HasType(u, "webauthn") /\ registrants[configs[u].credential] = {u} =>
            configs[u].credential \in CredentialsOf(u)

(* disable_mfa leaves nothing behind that could complete an authentication *)
(* of that user: no credential and no challenge.                           *)
DisableRemovesEverything ==
    [][\A u \in Users :
          configs[u] # None /\ configs'[u] = None =>
             /\ CredentialsOf(u)' = {}
             /\ \A key \in ChallengeKeysOf(u) : challenges'[key] = None]_vars
=============================================================================
