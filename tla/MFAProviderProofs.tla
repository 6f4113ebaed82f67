------------------------- MODULE MFAProviderProofs -------------------------
(* Theorems about MFAProvider, for every value of its constants. *)
EXTENDS MFAProvider, TLAPS

(* Every step keeps the type. *)
LEMMA TypeStep == TypeOK /\ [Next]_vars => TypeOK'
<1> SUFFICES ASSUME TypeOK, [Next]_vars PROVE TypeOK'
  OBVIOUS
<1> USE MFAAssumption
<1>1. ASSUME NEW proof \in OneTime, Accept(proof) PROVE uses' \in [OneTime -> Nat]
  BY <1>1 DEF Accept, TypeOK
<1>2. /\ \A code \in BackupCodes : <<"backup", code>> \in OneTime
      /\ \A s \in Batch, n \in 0 .. MaxCount : <<"hotp", s, n>> \in OneTime
      /\ \A id \in 1 .. MaxChallenges : <<"challenge", id>> \in OneTime
  BY DEF OneTime
<1>3. batches < MaxBatches => batches + 1 \in Batch /\ NewBackupCodes \subseteq BackupCodes
  BY DEF TypeOK, Batch, NewBackupCodes, BackupCodes
<1>4. \A u \in Users : configs[u] # None => configs[u] \in MFAConfig
  BY DEF TypeOK
<1>5. ASSUME NEW u \in Users, NEW type \in {"totp", "hotp"}, Setup(u, type) PROVE TypeOK'
  <2>1. [type |-> type, enabled |-> FALSE, secret |-> batches + 1,
         codes |-> NewBackupCodes, counter |-> 0, credential |-> None] \in MFAConfig
    BY <1>3, <1>5 DEF Setup, MFAConfig
  <2> QED BY <1>5, <2>1 DEF Setup, TypeOK
<1>6. ASSUME NEW u \in Users, RegenerateBackupCodes(u) PROVE TypeOK'
  <2>1. configs' = [configs EXCEPT ![u] = [configs[u] EXCEPT !.codes = NewBackupCodes]]
    BY <1>6 DEF RegenerateBackupCodes
  <2>2. [configs[u] EXCEPT !.codes = NewBackupCodes] \in MFAConfig
    BY <1>3, <1>4, <1>6 DEF RegenerateBackupCodes, MFAConfig
  <2> QED BY <1>6, <2>1, <2>2 DEF RegenerateBackupCodes, TypeOK
<1>7. ASSUME NEW u \in Users, NEW code \in BackupCodes, VerifyBackupCode(u, code) PROVE TypeOK'
  <2>1. configs' = [configs EXCEPT ![u] = [configs[u] EXCEPT !.codes = @ \ {code}]]
    BY <1>7 DEF VerifyBackupCode
  <2>2. [configs[u] EXCEPT !.codes = @ \ {code}] \in MFAConfig
    BY <1>4, <1>7 DEF VerifyBackupCode, HasType, MFAConfig
  <2>3. uses' \in [OneTime -> Nat]
    BY <1>1, <1>2, <1>7 DEF VerifyBackupCode
  <2> QED BY <1>7, <2>1, <2>2, <2>3 DEF VerifyBackupCode, TypeOK
<1>8. ASSUME NEW u \in Users, NEW secret \in Batch, NEW n \in 0 .. MaxTime,
             VerifyTotp(u, secret, n)
      PROVE  TypeOK'
  <2>1. configs' = [configs EXCEPT ![u] = [configs[u] EXCEPT !.enabled = TRUE]]
    BY <1>8 DEF VerifyTotp
  <2>2. [configs[u] EXCEPT !.enabled = TRUE] \in MFAConfig
    BY <1>4, <1>8 DEF VerifyTotp, HasType, MFAConfig
  <2> QED BY <1>8, <2>1, <2>2 DEF VerifyTotp, TypeOK
<1>9. ASSUME NEW u \in Users, NEW secret \in Batch, NEW n \in 0 .. MaxCount,
             VerifyHotp(u, secret, n)
      PROVE  TypeOK'
  <2>1. configs' = [configs EXCEPT ![u] =
                      [configs[u] EXCEPT !.counter = @ + 1, !.enabled = TRUE]]
    BY <1>9 DEF VerifyHotp
  <2>2. [configs[u] EXCEPT !.counter = @ + 1, !.enabled = TRUE] \in MFAConfig
    <3>1. configs[u] \in MFAConfig /\ configs[u].counter + 1 \in 0 .. MaxCount
      BY <1>4, <1>9 DEF VerifyHotp, HasType, MFAConfig
    <3> QED BY <3>1 DEF MFAConfig
  <2>3. uses' \in [OneTime -> Nat]
    BY <1>1, <1>2, <1>9 DEF VerifyHotp
  <2> QED BY <1>9, <2>1, <2>2, <2>3 DEF VerifyHotp, TypeOK
<1>10. ASSUME NEW key \in ChallengeKeys, Challenge(key) PROVE TypeOK'
  BY <1>10 DEF Challenge, TypeOK
<1>11. ASSUME NEW u \in Users, RegistrationOptions(u) \/ AuthenticationOptions(u) PROVE TypeOK'
  BY <1>10, <1>11 DEF RegistrationOptions, AuthenticationOptions, ChallengeKeys, ChallengeKeysOf
<1>12. ASSUME NEW key \in ChallengeKeys, DropExpired(key) PROVE TypeOK'
  BY <1>12 DEF DropExpired, TypeOK
<1>13. ASSUME NEW u \in Users, NEW id \in 1 .. MaxChallenges, NEW k \in CredIds,
              NEW n \in 0 .. MaxCount, VerifyRegistration(u, id, k, n)
       PROVE  TypeOK'
  <2>1. [type |-> "webauthn", enabled |-> TRUE, secret |-> None, codes |-> {},
         counter |-> 0, credential |-> k] \in MFAConfig
    BY DEF MFAConfig
  <2>2. [user |-> u, count |-> n] \in Credential
    BY DEF Credential
  <2>3. uses' \in [OneTime -> Nat]
    BY <1>1, <1>2, <1>13 DEF VerifyRegistration
  <2>4. challenges' \in [ChallengeKeys -> [id : 1 .. MaxChallenges, expires : Nat] \cup {None}]
    BY <1>13 DEF VerifyRegistration, TypeOK
  <2> QED BY <1>13, <2>1, <2>2, <2>3, <2>4 DEF VerifyRegistration, TypeOK
<1>14. ASSUME NEW u \in Users, NEW id \in 1 .. MaxChallenges, NEW k \in CredIds,
              NEW n \in 0 .. MaxCount, VerifyAuthentication(u, id, k, n)
       PROVE  TypeOK'
  <2>1. credentials' = [credentials EXCEPT ![k] = [credentials[k] EXCEPT !.count = n]]
    BY <1>14 DEF VerifyAuthentication
  <2>2. [credentials[k] EXCEPT !.count = n] \in Credential
    BY <1>14 DEF VerifyAuthentication, TypeOK, Credential
  <2>3. uses' \in [OneTime -> Nat]
    BY <1>1, <1>2, <1>14 DEF VerifyAuthentication
  <2>4. challenges' \in [ChallengeKeys -> [id : 1 .. MaxChallenges, expires : Nat] \cup {None}]
    BY <1>14 DEF VerifyAuthentication, TypeOK
  <2> QED BY <1>14, <2>1, <2>2, <2>3, <2>4 DEF VerifyAuthentication, TypeOK
<1>15. ASSUME NEW u \in Users, NEW code \in BackupCodes, DisableMfa(u, code) PROVE TypeOK'
  <2>1. uses' \in [OneTime -> Nat]
    BY <1>1, <1>2, <1>15 DEF DisableMfa
  <2>2. credentials' \in [CredIds -> Credential \cup {None}]
    BY <1>15 DEF DisableMfa, TypeOK
  <2>3. challenges' \in [ChallengeKeys -> [id : 1 .. MaxChallenges, expires : Nat] \cup {None}]
    BY <1>15 DEF DisableMfa, TypeOK
  <2> QED BY <1>15, <2>1, <2>2, <2>3 DEF DisableMfa, TypeOK
<1>16. CASE Tick
  BY <1>16 DEF Tick, TypeOK
<1>17. CASE UNCHANGED vars
  BY <1>17 DEF vars, TypeOK
<1> QED
  BY <1>5, <1>6, <1>7, <1>8, <1>9, <1>11, <1>12, <1>13, <1>14, <1>15, <1>16, <1>17 DEF Next

(* Every reachable state has its type. *)
THEOREM MFATypeCorrect == Spec => []TypeOK
<1>1. Init => TypeOK
  BY MFAAssumption DEF Init, TypeOK
<1> QED BY <1>1, TypeStep, PTL DEF Spec

-----------------------------------------------------------------------------
(* One-time proofs.  Each kind has an invariant of its own: what could     *)
(* still be accepted was never accepted, and no two users, or challenges,  *)
(* share it.                                                               *)

BackupInv ==
    /\ \A code \in BackupCodes :
          /\ uses[<<"backup", code>>] <= 1
          /\ code[1] > batches => uses[<<"backup", code>>] = 0
    /\ \A u \in Users : configs[u] # None =>
          \A code \in configs[u].codes : code[1] <= batches /\ uses[<<"backup", code>>] = 0
    /\ \A u, v \in Users : u # v /\ configs[u] # None /\ configs[v] # None =>
          configs[u].codes \cap configs[v].codes = {}

HotpInv ==
    /\ \A s \in Batch, n \in 0 .. MaxCount :
          /\ uses[<<"hotp", s, n>>] <= 1
          /\ s > batches => uses[<<"hotp", s, n>>] = 0
    /\ \A u \in Users : HasType(u, "hotp") =>
          /\ configs[u].secret \in Batch /\ configs[u].secret <= batches
          /\ \A n \in configs[u].counter .. MaxCount : uses[<<"hotp", configs[u].secret, n>>] = 0
    /\ \A u, v \in Users : u # v /\ HasType(u, "hotp") /\ HasType(v, "hotp") =>
          configs[u].secret # configs[v].secret

ChallengeInv ==
    /\ \A id \in 1 .. MaxChallenges :
          /\ uses[<<"challenge", id>>] <= 1
          /\ id > generated => uses[<<"challenge", id>>] = 0
    /\ \A key \in ChallengeKeys : challenges[key] # None =>
          challenges[key].id <= generated /\ uses[<<"challenge", challenges[key].id>>] = 0
    /\ \A key, other \in ChallengeKeys :
          key # other /\ challenges[key] # None /\ challenges[other] # None =>
             challenges[key].id # challenges[other].id

(* Accepting a proof counts it once and no other. *)
LEMMA AcceptCounts ==
    ASSUME TypeOK, NEW proof \in OneTime, Accept(proof)
    PROVE  /\ uses'[proof] = uses[proof] + 1
           /\ \A other \in OneTime \ {proof} : uses'[other] = uses[other]
BY DEF Accept, TypeOK

LEMMA ProofsDiffer ==
    /\ \A code \in BackupCodes : <<"backup", code>> \in OneTime
    /\ \A s \in Batch, n \in 0 .. MaxCount : <<"hotp", s, n>> \in OneTime
    /\ \A id \in 1 .. MaxChallenges : <<"challenge", id>> \in OneTime
    /\ \A code \in BackupCodes, id \in 1 .. MaxChallenges : <<"backup", code>> # <<"challenge", id>>
    /\ \A code \in BackupCodes, s \in Batch, n \in 0 .. MaxCount :
          <<"backup", code>> # <<"hotp", s, n>>
    /\ \A id \in 1 .. MaxChallenges, s \in Batch, n \in 0 .. MaxCount :
          <<"challenge", id>> # <<"hotp", s, n>>
BY DEF OneTime

LEMMA BackupStep == TypeOK /\ TypeOK' /\ BackupInv /\ [Next]_vars => BackupInv'
<1> SUFFICES ASSUME TypeOK, TypeOK', BackupInv, [Next]_vars PROVE BackupInv'
  OBVIOUS
<1> USE MFAAssumption
<1>1. ASSUME \A u \in Users : \/ configs'[u] = configs[u]
                              \/ configs'[u] # None => configs'[u].codes = {}
                              \/ configs[u] # None /\ configs'[u].codes = configs[u].codes,
             \A code \in BackupCodes : uses'[<<"backup", code>>] = uses[<<"backup", code>>],
             batches' = batches
      PROVE  BackupInv'
  <2>1. \A u \in Users : configs'[u] # None =>
           configs'[u].codes = {} \/ (configs[u] # None /\ configs'[u].codes = configs[u].codes)
    BY <1>1
  <2>2. \A u \in Users : configs'[u] # None => configs'[u].codes \subseteq BackupCodes
    BY DEF TypeOK, MFAConfig
  <2> QED BY <1>1, <2>1, <2>2 DEF BackupInv
<1>2. ASSUME NEW u \in Users, batches' = batches + 1, configs'[u].codes = NewBackupCodes,
             \A v \in Users \ {u} : configs'[v] = configs[v], uses' = uses
      PROVE  BackupInv'
  <2>1. batches \in Nat /\ batches' \in Nat /\ batches' > batches
    BY <1>2 DEF TypeOK
  <2>2. \A code \in NewBackupCodes : code[1] = batches'
    BY <1>2 DEF NewBackupCodes
  <2>3. \A code \in BackupCodes : code[1] \in Nat
    BY DEF BackupCodes, Batch
  <2>4. \A v \in Users : configs'[v] # None => configs'[v].codes \subseteq BackupCodes
    BY DEF TypeOK, MFAConfig
  <2>5. \A code \in BackupCodes :
           /\ uses[<<"backup", code>>] <= 1
           /\ code[1] > batches => uses[<<"backup", code>>] = 0
    BY DEF BackupInv
  <2>6. \A v \in Users \ {u} : configs'[v] # None =>
           \A code \in configs'[v].codes : code[1] <= batches /\ uses[<<"backup", code>>] = 0
    BY <1>2 DEF BackupInv
  <2>7. \A code \in BackupCodes : code[1] > batches' => code[1] > batches
    BY <2>1, <2>3
  <2>8. ASSUME NEW v \in Users, configs'[v] # None, NEW code \in configs'[v].codes
        PROVE  /\ code[1] <= batches' /\ uses[<<"backup", code>>] = 0
               /\ code[1] > batches <=> v = u
    <3>1. code \in BackupCodes /\ code[1] \in Nat
      BY <2>3, <2>4, <2>8
    <3>2. CASE v = u
      <4>1. code[1] = batches'
        BY <1>2, <2>2, <2>8, <3>2
      <4>2. code[1] > batches /\ code[1] <= batches'
        BY <2>1, <4>1
      <4> QED BY <2>5, <3>1, <3>2, <4>2
    <3>3. CASE v # u
      <4>1. code[1] <= batches /\ uses[<<"backup", code>>] = 0
        BY <2>6, <2>8, <3>3
      <4>2. code[1] <= batches' /\ ~(code[1] > batches)
        BY <2>1, <3>1, <4>1
      <4> QED BY <3>3, <4>1, <4>2
    <3> QED BY <3>2, <3>3
  <2>9. \A v, w \in Users : v # w /\ configs'[v] # None /\ configs'[w] # None =>
           configs'[v].codes \cap configs'[w].codes = {}
    <3> SUFFICES ASSUME NEW v \in Users, NEW w \in Users, v # w, configs'[v] # None,
                        configs'[w] # None, NEW code \in configs'[v].codes \cap configs'[w].codes
                 PROVE  FALSE
      OBVIOUS
    <3>1. CASE v # u /\ w # u
      BY <1>2, <3>1 DEF BackupInv
    <3>2. CASE v = u \/ w = u
      BY <2>8, <3>2
    <3> QED BY <3>1, <3>2
  <2>10. \A code \in BackupCodes :
           /\ uses'[<<"backup", code>>] <= 1
           /\ code[1] > batches' => uses'[<<"backup", code>>] = 0
    BY <1>2, <2>5, <2>7
  <2>11. \A v \in Users : configs'[v] # None =>
           \A code \in configs'[v].codes : code[1] <= batches' /\ uses'[<<"backup", code>>] = 0
    BY <1>2, <2>8
  <2> QED BY <2>9, <2>10, <2>11 DEF BackupInv
<1>3. ASSUME NEW u \in Users, NEW code \in BackupCodes, configs[u] # None, code \in configs[u].codes,
             configs'[u] # None => configs'[u].codes = configs[u].codes \ {code},
             \A v \in Users \ {u} : configs'[v] = configs[v],
             Accept(<<"backup", code>>), batches' = batches
      PROVE  BackupInv'
  <2>1. /\ uses'[<<"backup", code>>] = uses[<<"backup", code>>] + 1
        /\ \A other \in BackupCodes \ {code} : uses'[<<"backup", other>>] = uses[<<"backup", other>>]
    BY <1>3, AcceptCounts, ProofsDiffer
  <2>2. uses[<<"backup", code>>] = 0 /\ code[1] <= batches
    BY <1>3 DEF BackupInv
  <2>3. code[1] \in Nat /\ batches \in Nat
    BY DEF TypeOK, BackupCodes, Batch
  <2>4. \A v \in Users : configs[v] # None => configs[v].codes \subseteq BackupCodes
    BY DEF TypeOK, MFAConfig
  <2>5. \A v \in Users : configs'[v] # None =>
           /\ configs[v] # None
           /\ configs'[v].codes \subseteq configs[v].codes \ {code}
    BY <1>3 DEF BackupInv
  <2> QED BY <1>3, <2>1, <2>2, <2>3, <2>4, <2>5 DEF BackupInv
<1>4. ASSUME NEW u \in Users, NEW type \in {"totp", "hotp"}, Setup(u, type) PROVE BackupInv'
  <2>1. configs'[u].codes = NewBackupCodes
    BY <1>4 DEF Setup, TypeOK
  <2> QED BY <1>2, <1>4, <2>1 DEF Setup, TypeOK
<1>5. ASSUME NEW u \in Users, RegenerateBackupCodes(u) PROVE BackupInv'
  <2>1. configs'[u].codes = NewBackupCodes
    BY <1>5 DEF RegenerateBackupCodes, TypeOK, MFAConfig
  <2> QED BY <1>2, <1>5, <2>1 DEF RegenerateBackupCodes, TypeOK
<1>6. ASSUME NEW u \in Users, NEW code \in BackupCodes, VerifyBackupCode(u, code) PROVE BackupInv'
  <2>1. configs'[u].codes = configs[u].codes \ {code}
    BY <1>6 DEF VerifyBackupCode, HasType, TypeOK, MFAConfig
  <2> QED BY <1>3, <1>6, <2>1 DEF VerifyBackupCode, HasType, TypeOK
<1>7. ASSUME NEW u \in Users, NEW code \in BackupCodes, DisableMfa(u, code) PROVE BackupInv'
  <2>1. configs'[u] = None
    BY <1>7 DEF DisableMfa, TypeOK
  <2> QED BY <1>3, <1>7, <2>1 DEF DisableMfa, TypeOK
<1>8. ASSUME NEW u \in Users, NEW s \in Batch, NEW n \in 0 .. MaxTime, VerifyTotp(u, s, n)
      PROVE  BackupInv'
  <2>1. configs'[u].codes = configs[u].codes /\ configs[u] # None
    BY <1>8 DEF VerifyTotp, HasType, TypeOK, MFAConfig
  <2> QED BY <1>1, <1>8, <2>1 DEF VerifyTotp, TypeOK
<1>9. ASSUME NEW u \in Users, NEW s \in Batch, NEW n \in 0 .. MaxCount, VerifyHotp(u, s, n)
      PROVE  BackupInv'
  <2>1. configs'[u].codes = configs[u].codes /\ configs[u] # None
    BY <1>9 DEF VerifyHotp, HasType, TypeOK, MFAConfig
  <2>2. \A code \in BackupCodes : uses'[<<"backup", code>>] = uses[<<"backup", code>>]
    BY <1>9, AcceptCounts, ProofsDiffer DEF VerifyHotp
  <2> QED BY <1>1, <1>9, <2>1, <2>2 DEF VerifyHotp, TypeOK
<1>10. ASSUME NEW u \in Users, NEW id \in 1 .. MaxChallenges, NEW k \in CredIds,
              NEW n \in 0 .. MaxCount,
              VerifyRegistration(u, id, k, n) \/ VerifyAuthentication(u, id, k, n)
       PROVE  BackupInv'
  <2>1. \A v \in Users : configs'[v] = configs[v] \/ configs'[v].codes = {}
    BY <1>10 DEF VerifyRegistration, VerifyAuthentication, TypeOK
  <2>2. \A code \in BackupCodes : uses'[<<"backup", code>>] = uses[<<"backup", code>>]
    BY <1>10, AcceptCounts, ProofsDiffer DEF VerifyRegistration, VerifyAuthentication
  <2> QED BY <1>1, <1>10, <2>1, <2>2 DEF VerifyRegistration, VerifyAuthentication
<1>11. ASSUME UNCHANGED <<configs, uses, batches>> PROVE BackupInv'
  BY <1>11 DEF BackupInv
<1>12. ASSUME \/ \E u \in Users : RegistrationOptions(u) \/ AuthenticationOptions(u)
              \/ \E key \in ChallengeKeys : DropExpired(key)
              \/ Tick
              \/ UNCHANGED vars
       PROVE  BackupInv'
  BY <1>11, <1>12 DEF RegistrationOptions, AuthenticationOptions, Challenge, DropExpired, Tick, vars
<1> QED
  BY <1>4, <1>5, <1>6, <1>7, <1>8, <1>9, <1>10, <1>12 DEF Next

LEMMA HotpStep == TypeOK /\ TypeOK' /\ HotpInv /\ [Next]_vars => HotpInv'
<1> SUFFICES ASSUME TypeOK, TypeOK', HotpInv, [Next]_vars PROVE HotpInv'
  OBVIOUS
<1> USE MFAAssumption
<1>1. batches \in Nat /\ batches' \in Nat /\ Batch \subseteq Nat
  BY DEF TypeOK, Batch
<1>2. ASSUME \A u \in Users : configs'[u] # None /\ configs'[u].type = "hotp" =>
                /\ configs[u] # None /\ configs[u].type = "hotp"
                /\ configs'[u].secret = configs[u].secret
                /\ configs'[u].counter = configs[u].counter,
             \A s \in Batch, n \in 0 .. MaxCount :
                uses'[<<"hotp", s, n>>] = uses[<<"hotp", s, n>>],
             batches' >= batches
      PROVE  HotpInv'
  <2>1. \A s \in Batch : s > batches' => s > batches
    BY <1>1, <1>2
  <2>2. \A s \in Batch : s <= batches => s <= batches'
    BY <1>1, <1>2
  <2>3. \A u \in Users : configs'[u] # None => configs'[u].counter \in 0 .. MaxCount
    BY DEF TypeOK, MFAConfig
  <2>4. \A u \in Users : configs'[u] # None => configs'[u].counter .. MaxCount \subseteq 0 .. MaxCount
    BY <2>3
  <2> QED BY <1>2, <2>1, <2>2, <2>4 DEF HotpInv, HasType
<1>3. ASSUME NEW u \in Users, batches < MaxBatches, batches' = batches + 1,
             configs'[u].secret = batches + 1,
             \A v \in Users \ {u} : configs'[v] = configs[v],
             uses' = uses
      PROVE  HotpInv'
  <2>1. batches' \in Batch /\ batches' > batches
    BY <1>1, <1>3 DEF Batch
  <2>2. \A s \in Batch : (s > batches' => s > batches) /\ (s <= batches => s < batches')
    BY <1>1, <1>3
  <2>3. \A n \in 0 .. MaxCount : uses[<<"hotp", batches', n>>] = 0
    BY <2>1 DEF HotpInv
  <2>4. \A v \in Users : configs'[v] # None => configs'[v].counter .. MaxCount \subseteq 0 .. MaxCount
    BY DEF TypeOK, MFAConfig
  <2>5. \A v \in Users \ {u} : HasType(v, "hotp")' =>
           /\ configs'[v].secret \in Batch /\ configs'[v].secret <= batches
           /\ \A n \in configs'[v].counter .. MaxCount : uses[<<"hotp", configs'[v].secret, n>>] = 0
    BY <1>3 DEF HotpInv, HasType
  <2>6. \A v, w \in Users \ {u} : v # w /\ HasType(v, "hotp")' /\ HasType(w, "hotp")' =>
           configs'[v].secret # configs'[w].secret
    BY <1>3 DEF HotpInv, HasType
  <2>7. ASSUME NEW v \in Users \ {u}, HasType(v, "hotp")'
        PROVE  /\ configs'[v].secret \in Batch /\ configs'[v].secret <= batches'
               /\ configs'[v].secret # batches'
    <3>1. configs'[v].secret \in Nat /\ configs'[v].secret <= batches
      BY <1>1, <2>5, <2>7
    <3> QED BY <1>1, <1>3, <2>5, <2>7, <3>1
  <2>8. \A s \in Batch, n \in 0 .. MaxCount :
           /\ uses'[<<"hotp", s, n>>] <= 1
           /\ s > batches' => uses'[<<"hotp", s, n>>] = 0
    BY <1>3, <2>2 DEF HotpInv
  <2>9. \A v \in Users : HasType(v, "hotp")' =>
           /\ configs'[v].secret \in Batch /\ configs'[v].secret <= batches'
           /\ \A n \in configs'[v].counter .. MaxCount : uses'[<<"hotp", configs'[v].secret, n>>] = 0
    <3> SUFFICES ASSUME NEW v \in Users, HasType(v, "hotp")'
                 PROVE  /\ configs'[v].secret \in Batch /\ configs'[v].secret <= batches'
                        /\ \A n \in configs'[v].counter .. MaxCount :
                              uses'[<<"hotp", configs'[v].secret, n>>] = 0
      OBVIOUS
    <3>1. CASE v = u
      <4>1. configs'[v].counter .. MaxCount \subseteq 0 .. MaxCount
        BY <2>4 DEF HasType
      <4>2. configs'[v].secret = batches'
        BY <1>3, <3>1
      <4>3. batches' \in Batch /\ batches' <= batches'
        BY <1>1, <2>1
      <4>4. \A n \in configs'[v].counter .. MaxCount : uses[<<"hotp", batches', n>>] = 0
        BY <2>3, <4>1
      <4> QED BY <1>3, <4>2, <4>3, <4>4
    <3>2. CASE v # u
      <4>1. \A n \in configs'[v].counter .. MaxCount : uses[<<"hotp", configs'[v].secret, n>>] = 0
        BY <2>5, <3>2
      <4> QED BY <1>3, <2>7, <3>2, <4>1
    <3> QED BY <3>1, <3>2
  <2>10. \A v, w \in Users : v # w /\ HasType(v, "hotp")' /\ HasType(w, "hotp")' =>
           configs'[v].secret # configs'[w].secret
    BY <1>3, <2>6, <2>7
  <2> QED BY <2>8, <2>9, <2>10 DEF HotpInv
<1>4. ASSUME NEW proof \in OneTime, Accept(proof),
             \A s \in Batch, n \in 0 .. MaxCount : <<"hotp", s, n>> # proof
      PROVE  \A s \in Batch, n \in 0 .. MaxCount :
                uses'[<<"hotp", s, n>>] = uses[<<"hotp", s, n>>]
  BY <1>4, AcceptCounts, ProofsDiffer
<1>5. ASSUME NEW u \in Users, NEW type \in {"totp", "hotp"}, Setup(u, type) PROVE HotpInv'
  <2>1. configs'[u].secret = batches + 1
    BY <1>5 DEF Setup, TypeOK
  <2> QED BY <1>3, <1>5, <2>1 DEF Setup, TypeOK
<1>6. ASSUME NEW u \in Users, RegenerateBackupCodes(u) PROVE HotpInv'
  <2>1. \A v \in Users : configs'[v] # None =>
           /\ configs[v] # None /\ configs'[v].type = configs[v].type
           /\ configs'[v].secret = configs[v].secret /\ configs'[v].counter = configs[v].counter
    BY <1>6 DEF RegenerateBackupCodes, TypeOK, MFAConfig
  <2>2. batches' >= batches
    BY <1>1, <1>6 DEF RegenerateBackupCodes
  <2> QED BY <1>2, <1>6, <2>1, <2>2 DEF RegenerateBackupCodes
<1>7. ASSUME NEW u \in Users, NEW code \in BackupCodes,
             VerifyBackupCode(u, code) \/ DisableMfa(u, code)
      PROVE  HotpInv'
  <2>1. \A v \in Users : configs'[v] # None =>
           /\ configs[v] # None /\ configs'[v].type = configs[v].type
           /\ configs'[v].secret = configs[v].secret /\ configs'[v].counter = configs[v].counter
    BY <1>7 DEF VerifyBackupCode, DisableMfa, HasType, TypeOK, MFAConfig
  <2>2. \A s \in Batch, n \in 0 .. MaxCount : uses'[<<"hotp", s, n>>] = uses[<<"hotp", s, n>>]
    BY <1>4, <1>7, ProofsDiffer DEF VerifyBackupCode, DisableMfa
  <2>3. batches' >= batches
    BY <1>1, <1>7 DEF VerifyBackupCode, DisableMfa
  <2> QED BY <1>2, <2>1, <2>2, <2>3
<1>8. ASSUME NEW u \in Users, NEW s \in Batch, NEW n \in 0 .. MaxTime, VerifyTotp(u, s, n)
      PROVE  HotpInv'
  <2>1. \A v \in Users : configs'[v] # None =>
           /\ configs[v] # None /\ configs'[v].type = configs[v].type
           /\ configs'[v].secret = configs[v].secret /\ configs'[v].counter = configs[v].counter
    BY <1>8 DEF VerifyTotp, HasType, TypeOK, MFAConfig
  <2>2. batches' >= batches /\ uses' = uses
    BY <1>1, <1>8 DEF VerifyTotp
  <2> QED BY <1>2, <2>1, <2>2
<1>9. ASSUME NEW u \in Users, NEW s \in Batch, NEW n \in 0 .. MaxCount, VerifyHotp(u, s, n)
      PROVE  HotpInv'
  <2>1. /\ configs'[u].secret = s /\ configs'[u].counter = n + 1
        /\ \A v \in Users \ {u} : configs'[v] = configs[v]
        /\ configs[u] # None /\ configs[u].type = "hotp"
        /\ configs[u].secret = s /\ configs[u].counter = n
        /\ batches' = batches
    <3>1. configs[u] \in MFAConfig
      BY <1>9 DEF VerifyHotp, HasType, TypeOK
    <3>2. configs' = [configs EXCEPT ![u] = [configs[u] EXCEPT !.counter = @ + 1, !.enabled = TRUE]]
      BY <1>9 DEF VerifyHotp
    <3>3. configs'[u] = [configs[u] EXCEPT !.counter = n + 1, !.enabled = TRUE]
      BY <1>9, <3>2 DEF VerifyHotp, TypeOK
    <3> QED BY <1>9, <3>1, <3>2, <3>3 DEF VerifyHotp, HasType, TypeOK, MFAConfig
  <2>2. uses[<<"hotp", s, n>>] = 0
    BY <2>1 DEF HotpInv, HasType
  <2>3. /\ uses'[<<"hotp", s, n>>] = 1
        /\ \A r \in Batch, m \in 0 .. MaxCount :
              r # s \/ m # n => uses'[<<"hotp", r, m>>] = uses[<<"hotp", r, m>>]
    BY <1>9, <2>2, AcceptCounts, ProofsDiffer DEF VerifyHotp
  <2>4. HasType(u, "hotp")
    BY <2>1 DEF HasType
  <2>5. s <= batches /\ \A m \in n .. MaxCount : uses[<<"hotp", s, m>>] = 0
    BY <2>1, <2>4 DEF HotpInv
  <2>6. \A r \in Batch, m \in 0 .. MaxCount :
           /\ uses'[<<"hotp", r, m>>] <= 1
           /\ r > batches' => uses'[<<"hotp", r, m>>] = 0
    <3> SUFFICES ASSUME NEW r \in Batch, NEW m \in 0 .. MaxCount
                 PROVE  /\ uses'[<<"hotp", r, m>>] <= 1
                        /\ r > batches' => uses'[<<"hotp", r, m>>] = 0
      OBVIOUS
    <3>1. CASE r = s /\ m = n
      BY <1>1, <2>1, <2>3, <2>5, <3>1
    <3>2. CASE r # s \/ m # n
      BY <2>1, <2>3, <3>2 DEF HotpInv
    <3> QED BY <3>1, <3>2
  <2>7. \A v \in Users \ {u} : HasType(v, "hotp")' =>
           /\ HasType(v, "hotp") /\ configs'[v].secret = configs[v].secret
           /\ configs'[v].counter = configs[v].counter /\ configs[v].counter \in 0 .. MaxCount
           /\ configs[v].secret \in Batch /\ configs[v].secret <= batches
           /\ configs[v].secret # s
    BY <2>1, <2>4 DEF HasType, HotpInv, TypeOK, MFAConfig
  <2>8. ASSUME NEW v \in Users, HasType(v, "hotp")'
        PROVE  /\ configs'[v].secret \in Batch /\ configs'[v].secret <= batches'
               /\ \A m \in configs'[v].counter .. MaxCount :
                     uses'[<<"hotp", configs'[v].secret, m>>] = 0
    <3>1. CASE v = u
      <4>1. \A m \in n + 1 .. MaxCount : m \in n .. MaxCount /\ m \in 0 .. MaxCount /\ m # n
        OBVIOUS
      <4> QED BY <2>1, <2>3, <2>5, <3>1, <4>1
    <3>2. CASE v # u
      <4>1. \A m \in configs[v].counter .. MaxCount :
               m \in 0 .. MaxCount /\ uses[<<"hotp", configs[v].secret, m>>] = 0
        BY <2>7, <2>8, <3>2 DEF HotpInv
      <4> QED BY <2>1, <2>3, <2>7, <2>8, <3>2, <4>1
    <3> QED BY <3>1, <3>2
  <2>9. \A v, w \in Users : v # w /\ HasType(v, "hotp")' /\ HasType(w, "hotp")' =>
           configs'[v].secret # configs'[w].secret
    <3> SUFFICES ASSUME NEW v \in Users, NEW w \in Users, v # w, HasType(v, "hotp")',
                        HasType(w, "hotp")'
                 PROVE  configs'[v].secret # configs'[w].secret
      OBVIOUS
    <3>1. CASE v = u \/ w = u
      BY <2>1, <2>7, <3>1
    <3>2. CASE v # u /\ w # u
      BY <2>7, <3>2 DEF HotpInv
    <3> QED BY <3>1, <3>2
  <2> QED BY <2>6, <2>8, <2>9 DEF HotpInv
<1>10. ASSUME NEW u \in Users, NEW id \in 1 .. MaxChallenges, NEW k \in CredIds,
              NEW n \in 0 .. MaxCount,
              VerifyRegistration(u, id, k, n) \/ VerifyAuthentication(u, id, k, n)
       PROVE  HotpInv'
  <2>1. \A v \in Users : configs'[v] = configs[v] \/ configs'[v].type = "webauthn"
    BY <1>10 DEF VerifyRegistration, VerifyAuthentication, TypeOK
  <2>2. \A s \in Batch, m \in 0 .. MaxCount : uses'[<<"hotp", s, m>>] = uses[<<"hotp", s, m>>]
    BY <1>4, <1>10, ProofsDiffer DEF VerifyRegistration, VerifyAuthentication
  <2>3. batches' >= batches
    BY <1>1, <1>10 DEF VerifyRegistration, VerifyAuthentication
  <2> QED BY <1>2, <2>1, <2>2, <2>3
<1>11. ASSUME UNCHANGED <<configs, uses, batches>> PROVE HotpInv'
  BY <1>11 DEF HotpInv, HasType
<1>12. ASSUME \/ \E u \in Users : RegistrationOptions(u) \/ AuthenticationOptions(u)
              \/ \E key \in ChallengeKeys : DropExpired(key)
              \/ Tick
              \/ UNCHANGED vars
       PROVE  HotpInv'
  BY <1>11, <1>12 DEF RegistrationOptions, AuthenticationOptions, Challenge, DropExpired, Tick, vars
<1> QED
  BY <1>5, <1>6, <1>7, <1>8, <1>9, <1>10, <1>12 DEF Next

LEMMA ChallengeStep == TypeOK /\ TypeOK' /\ ChallengeInv /\ [Next]_vars => ChallengeInv'
<1> SUFFICES ASSUME TypeOK, TypeOK', ChallengeInv, [Next]_vars PROVE ChallengeInv'
  OBVIOUS
<1> USE MFAAssumption
<1>1. /\ generated \in Nat /\ generated' \in Nat
      /\ \A key \in ChallengeKeys :
            /\ challenges[key] # None => challenges[key].id \in 1 .. MaxChallenges
            /\ challenges'[key] # None => challenges'[key].id \in 1 .. MaxChallenges
  BY DEF TypeOK
(* Challenges that go, or stay. *)
<1>2. ASSUME \A key \in ChallengeKeys : challenges'[key] \in {challenges[key], None},
             \A id \in 1 .. MaxChallenges :
                uses'[<<"challenge", id>>] = uses[<<"challenge", id>>],
             generated' = generated
      PROVE  ChallengeInv'
  BY <1>1, <1>2 DEF ChallengeInv
(* One is answered. *)
<1>3. ASSUME NEW key \in ChallengeKeys, NEW id \in 1 .. MaxChallenges, Answers(key, id),
             challenges' = [challenges EXCEPT ![key] = None], generated' = generated,
             Accept(<<"challenge", id>>)
      PROVE  ChallengeInv'
  <2>1. /\ challenges[key] # None /\ challenges[key].id = id
        /\ challenges'[key] = None
        /\ \A other \in ChallengeKeys \ {key} : challenges'[other] = challenges[other]
    BY <1>3 DEF Answers, TypeOK
  <2>2. id <= generated /\ uses[<<"challenge", id>>] = 0
    BY <2>1 DEF ChallengeInv
  <2>3. /\ uses'[<<"challenge", id>>] = 1
        /\ \A other \in (1 .. MaxChallenges) \ {id} :
              uses'[<<"challenge", other>>] = uses[<<"challenge", other>>]
    BY <1>3, <2>2, AcceptCounts, ProofsDiffer
  <2>4. \A other \in 1 .. MaxChallenges :
           /\ uses'[<<"challenge", other>>] <= 1
           /\ other > generated' => uses'[<<"challenge", other>>] = 0
    <3> SUFFICES ASSUME NEW other \in 1 .. MaxChallenges
                 PROVE  /\ uses'[<<"challenge", other>>] <= 1
                        /\ other > generated' => uses'[<<"challenge", other>>] = 0
      OBVIOUS
    <3>1. CASE other = id
      BY <1>1, <1>3, <2>2, <2>3, <3>1
    <3>2. CASE other # id
      BY <1>3, <2>3, <3>2 DEF ChallengeInv
    <3> QED BY <3>1, <3>2
  <2>5. \A other \in ChallengeKeys : challenges'[other] # None =>
           /\ other # key /\ challenges[other] # None /\ challenges'[other] = challenges[other]
           /\ challenges[other].id # id
    BY <2>1 DEF ChallengeInv
  <2> QED BY <1>1, <1>3, <2>3, <2>4, <2>5 DEF ChallengeInv
<1>4. ASSUME NEW key \in ChallengeKeys, Challenge(key) PROVE ChallengeInv'
  <2>1. /\ challenges'[key].id = generated + 1
        /\ \A other \in ChallengeKeys \ {key} : challenges'[other] = challenges[other]
        /\ generated' = generated + 1 /\ generated + 1 \in 1 .. MaxChallenges
        /\ uses' = uses
    BY <1>4 DEF Challenge, TypeOK
  <2>2. \A id \in 1 .. MaxChallenges : id > generated' => id > generated
    BY <1>1, <2>1
  <2>3. \A other \in ChallengeKeys \ {key} : challenges'[other] # None =>
           /\ challenges'[other].id <= generated
           /\ uses[<<"challenge", challenges'[other].id>>] = 0
    BY <2>1 DEF ChallengeInv
  <2>4. uses[<<"challenge", generated + 1>>] = 0
    BY <1>1, <2>1 DEF ChallengeInv
  <2>5. ASSUME NEW other \in ChallengeKeys \ {key}, challenges'[other] # None
        PROVE  /\ challenges'[other].id \in Nat /\ challenges'[other].id <= generated
               /\ challenges'[other].id <= generated' /\ challenges'[other].id # generated + 1
    <3>1. challenges'[other].id \in 1 .. MaxChallenges /\ challenges'[other].id <= generated
      BY <1>1, <2>3, <2>5
    <3> QED BY <1>1, <2>1, <3>1
  <2>6. \A other \in ChallengeKeys : challenges'[other] # None =>
           /\ challenges'[other].id <= generated'
           /\ uses'[<<"challenge", challenges'[other].id>>] = 0
    <3> SUFFICES ASSUME NEW other \in ChallengeKeys, challenges'[other] # None
                 PROVE  /\ challenges'[other].id <= generated'
                        /\ uses'[<<"challenge", challenges'[other].id>>] = 0
      OBVIOUS
    <3>1. CASE other = key
      BY <1>1, <2>1, <2>4, <3>1
    <3>2. CASE other # key
      <4>1. other \in ChallengeKeys \ {key}
        BY <3>2
      <4> QED BY <2>1, <2>3, <2>5, <4>1
    <3> QED BY <3>1, <3>2
  <2>7. \A one, other \in ChallengeKeys :
           one # other /\ challenges'[one] # None /\ challenges'[other] # None =>
              challenges'[one].id # challenges'[other].id
    <3> SUFFICES ASSUME NEW one \in ChallengeKeys, NEW other \in ChallengeKeys, one # other,
                        challenges'[one] # None, challenges'[other] # None
                 PROVE  challenges'[one].id # challenges'[other].id
      OBVIOUS
    <3>1. CASE one = key \/ other = key
      BY <2>1, <2>5, <3>1
    <3>2. CASE one # key /\ other # key
      BY <2>1, <3>2 DEF ChallengeInv
    <3> QED BY <3>1, <3>2
  <2>8. \A id \in 1 .. MaxChallenges :
           /\ uses'[<<"challenge", id>>] <= 1
           /\ id > generated' => uses'[<<"challenge", id>>] = 0
    BY <2>1, <2>2 DEF ChallengeInv
  <2> QED BY <2>6, <2>7, <2>8 DEF ChallengeInv
<1>5. ASSUME NEW proof \in OneTime, Accept(proof),
             \A id \in 1 .. MaxChallenges : <<"challenge", id>> # proof
      PROVE  \A id \in 1 .. MaxChallenges : uses'[<<"challenge", id>>] = uses[<<"challenge", id>>]
  BY <1>5, AcceptCounts, ProofsDiffer
<1>6. ASSUME NEW u \in Users, RegistrationOptions(u) \/ AuthenticationOptions(u)
      PROVE  ChallengeInv'
  BY <1>4, <1>6 DEF RegistrationOptions, AuthenticationOptions, ChallengeKeys, ChallengeKeysOf
<1>7. ASSUME NEW u \in Users, NEW id \in 1 .. MaxChallenges, NEW k \in CredIds,
             NEW n \in 0 .. MaxCount,
             VerifyRegistration(u, id, k, n) \/ VerifyAuthentication(u, id, k, n)
      PROVE  ChallengeInv'
  <2>1. u \in ChallengeKeys /\ AuthName[u] \in ChallengeKeys
    BY DEF ChallengeKeys, ChallengeKeysOf
  <2> QED BY <1>3, <1>7, <2>1 DEF VerifyRegistration, VerifyAuthentication
<1>8. ASSUME NEW key \in ChallengeKeys, DropExpired(key) PROVE ChallengeInv'
  BY <1>2, <1>8 DEF DropExpired, TypeOK
<1>9. ASSUME NEW u \in Users, NEW code \in BackupCodes,
             VerifyBackupCode(u, code) \/ DisableMfa(u, code)
      PROVE  ChallengeInv'
  <2>1. \A id \in 1 .. MaxChallenges : uses'[<<"challenge", id>>] = uses[<<"challenge", id>>]
    BY <1>5, <1>9, ProofsDiffer DEF VerifyBackupCode, DisableMfa
  <2>2. \A key \in ChallengeKeys : challenges'[key] \in {challenges[key], None}
    BY <1>9 DEF VerifyBackupCode, DisableMfa
  <2>3. generated' = generated
    BY <1>9 DEF VerifyBackupCode, DisableMfa
  <2> QED BY <1>2, <2>1, <2>2, <2>3
<1>10. ASSUME NEW u \in Users, NEW s \in Batch, NEW n \in 0 .. MaxCount, VerifyHotp(u, s, n)
       PROVE  ChallengeInv'
  <2>1. \A id \in 1 .. MaxChallenges : uses'[<<"challenge", id>>] = uses[<<"challenge", id>>]
    BY <1>5, <1>10, ProofsDiffer DEF VerifyHotp
  <2> QED BY <1>2, <1>10, <2>1 DEF VerifyHotp
<1>11. ASSUME UNCHANGED <<challenges, generated, uses>> PROVE ChallengeInv'
  BY <1>11 DEF ChallengeInv
<1>12. ASSUME \/ \E u \in Users : \/ Setup(u, "totp") \/ Setup(u, "hotp")
                                  \/ RegenerateBackupCodes(u)
                                  \/ \E s \in Batch, n \in 0 .. MaxTime : VerifyTotp(u, s, n)
              \/ Tick
              \/ UNCHANGED vars
       PROVE  ChallengeInv'
  BY <1>11, <1>12 DEF Setup, RegenerateBackupCodes, VerifyTotp, Tick, vars
<1> QED
  BY <1>6, <1>7, <1>8, <1>9, <1>10, <1>12 DEF Next

(* A backup code, a HOTP token and the answer to a challenge are accepted  *)
(* at most once, whatever operations accept them, are set up again or      *)
(* expire in between.                                                      *)
THEOREM AcceptedOnce == Spec => []AcceptedAtMostOnce
<1> DEFINE IInv == TypeOK /\ BackupInv /\ HotpInv /\ ChallengeInv
<1>1. Init => IInv
  <2> SUFFICES ASSUME Init PROVE IInv
    OBVIOUS
  <2>1. TypeOK
    BY MFAAssumption DEF Init, TypeOK
  <2>2. \A proof \in OneTime : uses[proof] = 0
    BY DEF Init
  <2>3. \A u \in Users : configs[u] = None
    BY DEF Init
  <2>4. \A key \in ChallengeKeys : challenges[key] = None
    BY DEF Init
  <2>5. BackupInv
    BY <2>2, <2>3, ProofsDiffer DEF BackupInv
  <2>6. HotpInv
    BY <2>2, <2>3, ProofsDiffer DEF HotpInv, HasType
  <2>7. ChallengeInv
    BY <2>2, <2>4, ProofsDiffer DEF ChallengeInv
  <2> QED BY <2>1, <2>5, <2>6, <2>7
<1>2. IInv /\ [Next]_vars => IInv'
  BY TypeStep, BackupStep, HotpStep, ChallengeStep
<1>3. IInv => AcceptedAtMostOnce
  BY DEF BackupInv, HotpInv, ChallengeInv, AcceptedAtMostOnce, OneTime
<1> HIDE DEF IInv
<1> QED BY <1>1, <1>2, <1>3, PTL DEF Spec

-----------------------------------------------------------------------------
(* Whoever has a credential, or a configuration with one, registered it,   *)
(* and as long as nobody else did no other user's disable_mfa removes it.  *)
RegistrantInv ==
    /\ \A k \in CredIds : credentials[k] # None => credentials[k].user \in registrants[k]
    /\ \A u \in Users : configs[u] # None =>
          \/ /\ configs[u].credential \in CredIds
             /\ u \in registrants[configs[u].credential]
             /\ registrants[configs[u].credential] = {u}
                   => credentials[configs[u].credential] # None
          \/ configs[u].credential = None /\ configs[u].type # "webauthn"

LEMMA RegistrantStep == TypeOK /\ RegistrantInv /\ [Next]_vars => RegistrantInv'
<1> SUFFICES ASSUME TypeOK, RegistrantInv, [Next]_vars PROVE RegistrantInv'
  OBVIOUS
<1> USE MFAAssumption
<1>1. ASSUME \A u \in Users : configs'[u] # None =>
                \/ /\ configs[u] # None
                   /\ configs'[u].credential = configs[u].credential
                   /\ configs'[u].type = configs[u].type
                \/ configs'[u].credential = None /\ configs'[u].type # "webauthn",
             UNCHANGED <<credentials, registrants>>
      PROVE  RegistrantInv'
  BY <1>1 DEF RegistrantInv
<1>2. ASSUME NEW u \in Users, NEW type \in {"totp", "hotp"}, Setup(u, type) PROVE RegistrantInv'
  <2>1. configs'[u].credential = None /\ configs'[u].type # "webauthn"
    BY <1>2 DEF Setup, TypeOK
  <2>2. \A v \in Users \ {u} : configs'[v] = configs[v]
    BY <1>2 DEF Setup, TypeOK
  <2>3. UNCHANGED <<credentials, registrants>>
    BY <1>2 DEF Setup
  <2> QED BY <1>1, <2>1, <2>2, <2>3
<1>3. ASSUME NEW u \in Users,
             \/ RegenerateBackupCodes(u)
             \/ \E code \in BackupCodes : VerifyBackupCode(u, code)
             \/ \E s \in Batch, n \in 0 .. MaxTime : VerifyTotp(u, s, n)
             \/ \E s \in Batch, n \in 0 .. MaxCount : VerifyHotp(u, s, n)
      PROVE  RegistrantInv'
  <2>1. configs[u] # None
    BY <1>3 DEF RegenerateBackupCodes, VerifyBackupCode, VerifyTotp, VerifyHotp, HasType
  <2>2. configs[u] \in MFAConfig
    BY <2>1 DEF TypeOK
  <2>3. configs'[u].credential = configs[u].credential /\ configs'[u].type = configs[u].type
    <3> USE <2>2 DEF TypeOK, MFAConfig
    <3>1. CASE RegenerateBackupCodes(u)
      BY <3>1 DEF RegenerateBackupCodes
    <3>2. ASSUME NEW code \in BackupCodes, VerifyBackupCode(u, code)
          PROVE  configs'[u].credential = configs[u].credential /\ configs'[u].type = configs[u].type
      BY <3>2 DEF VerifyBackupCode
    <3>3. ASSUME NEW s \in Batch, NEW n \in 0 .. MaxTime, VerifyTotp(u, s, n)
          PROVE  configs'[u].credential = configs[u].credential /\ configs'[u].type = configs[u].type
      BY <3>3 DEF VerifyTotp
    <3>4. ASSUME NEW s \in Batch, NEW n \in 0 .. MaxCount, VerifyHotp(u, s, n)
          PROVE  configs'[u].credential = configs[u].credential /\ configs'[u].type = configs[u].type
      <4>1. configs' = [configs EXCEPT ![u] = [configs[u] EXCEPT !.counter = @ + 1, !.enabled = TRUE]]
        BY <3>4 DEF VerifyHotp
      <4>2. configs'[u] = [configs[u] EXCEPT !.counter = @ + 1, !.enabled = TRUE]
        BY <4>1
      <4> QED BY <4>2
    <3> QED BY <1>3, <3>1, <3>2, <3>3, <3>4
  <2>4. \A v \in Users \ {u} : configs'[v] = configs[v]
    BY <1>3 DEF RegenerateBackupCodes, VerifyBackupCode, VerifyTotp, VerifyHotp, TypeOK
  <2>5. UNCHANGED <<credentials, registrants>>
    BY <1>3 DEF RegenerateBackupCodes, VerifyBackupCode, VerifyTotp, VerifyHotp
  <2> QED BY <1>1, <2>1, <2>3, <2>4, <2>5
<1>4. ASSUME NEW u \in Users, NEW id \in 1 .. MaxChallenges, NEW k \in CredIds,
             NEW n \in 0 .. MaxCount, VerifyRegistration(u, id, k, n)
      PROVE  RegistrantInv'
  <2>1. [user |-> u, count |-> n] # None
    BY DEF Credential
  <2>2. /\ registrants'[k] = registrants[k] \cup {u}
        /\ \A m \in CredIds \ {k} : registrants'[m] = registrants[m]
        /\ credentials'[k] = [user |-> u, count |-> n]
        /\ \A m \in CredIds \ {k} : credentials'[m] = credentials[m]
        /\ configs'[u].credential = k
        /\ \A v \in Users \ {u} : configs'[v] = configs[v]
    BY <1>4 DEF VerifyRegistration, TypeOK
  <2>3. ASSUME NEW v \in Users \ {u}, NEW m \in CredIds, v \in registrants[m],
               registrants[m] = {v} => credentials[m] # None
        PROVE  v \in registrants'[m] /\ (registrants'[m] = {v} => credentials'[m] # None)
    BY <2>1, <2>2, <2>3
  <2>4. \A v \in Users : configs'[v] # None =>
           \/ /\ configs'[v].credential \in CredIds
              /\ v \in registrants'[configs'[v].credential]
              /\ registrants'[configs'[v].credential] = {v}
                    => credentials'[configs'[v].credential] # None
           \/ configs'[v].credential = None /\ configs'[v].type # "webauthn"
    <3> SUFFICES ASSUME NEW v \in Users, configs'[v] # None
                 PROVE  \/ /\ configs'[v].credential \in CredIds
                           /\ v \in registrants'[configs'[v].credential]
                           /\ registrants'[configs'[v].credential] = {v}
                                 => credentials'[configs'[v].credential] # None
                        \/ configs'[v].credential = None /\ configs'[v].type # "webauthn"
      OBVIOUS
    <3>1. CASE v = u
      BY <2>1, <2>2, <3>1
    <3>2. CASE v # u
      BY <2>2, <2>3, <3>2 DEF RegistrantInv
    <3> QED BY <3>1, <3>2
  <2>5. \A m \in CredIds : credentials'[m] # None => credentials'[m].user \in registrants'[m]
    BY <2>1, <2>2 DEF RegistrantInv
  <2> QED BY <2>4, <2>5 DEF RegistrantInv
<1>5. ASSUME NEW u \in Users, NEW id \in 1 .. MaxChallenges, NEW k \in CredIds,
             NEW n \in 0 .. MaxCount, VerifyAuthentication(u, id, k, n)
      PROVE  RegistrantInv'
  <2>1. credentials[k] \in Credential
    BY <1>5 DEF VerifyAuthentication, TypeOK
  <2>2. credentials'[k] = [credentials[k] EXCEPT !.count = n]
    BY <1>5 DEF VerifyAuthentication, TypeOK
  <2>3. credentials'[k] \in Credential /\ credentials'[k].user = credentials[k].user
    BY <2>1, <2>2 DEF Credential
  <2>4. /\ \A m \in CredIds \ {k} : credentials'[m] = credentials[m]
        /\ configs' = configs /\ registrants' = registrants
        /\ credentials[k] # None
    BY <1>5 DEF VerifyAuthentication, TypeOK
  <2> QED BY <2>3, <2>4 DEF RegistrantInv
<1>6. ASSUME NEW u \in Users, NEW code \in BackupCodes, DisableMfa(u, code) PROVE RegistrantInv'
  <2>1. /\ configs[u] # None /\ configs'[u] = None
        /\ \A v \in Users \ {u} : configs'[v] = configs[v]
        /\ registrants' = registrants
        /\ \A k \in CredIds :
              credentials'[k] = IF k = configs[u].credential THEN None ELSE credentials[k]
    BY <1>6 DEF DisableMfa, TypeOK
  <2>2. configs[u].credential \in CredIds => u \in registrants[configs[u].credential]
    BY <2>1, MFAAssumption DEF RegistrantInv
  <2> QED BY <2>1, <2>2 DEF RegistrantInv
<1>7. ASSUME UNCHANGED <<configs, credentials, registrants>> PROVE RegistrantInv'
  BY <1>7 DEF RegistrantInv
<1>8. ASSUME \/ \E u \in Users : RegistrationOptions(u) \/ AuthenticationOptions(u)
             \/ \E key \in ChallengeKeys : DropExpired(key)
             \/ Tick
             \/ UNCHANGED vars
      PROVE  RegistrantInv'
  BY <1>7, <1>8 DEF RegistrationOptions, AuthenticationOptions, Challenge, DropExpired, Tick, vars
<1> QED
  BY <1>2, <1>3, <1>4, <1>5, <1>6, <1>8 DEF Next

(* A WebAuthn configuration refers to a stored credential of its user,     *)
(* whatever anybody sets up, registers or disables, unless another user    *)
(* registered the same identifier.                                         *)
THEOREM ConfigsKeepTheirCredential == Spec => []WebAuthnConfigHasCredential
<1>1. Init => TypeOK /\ RegistrantInv
  BY MFAAssumption DEF Init, TypeOK, RegistrantInv
<1>2. TypeOK /\ RegistrantInv /\ [Next]_vars => (TypeOK /\ RegistrantInv)'
  BY TypeStep, RegistrantStep
<1>3. TypeOK /\ RegistrantInv => WebAuthnConfigHasCredential
  BY MFAAssumption DEF RegistrantInv, WebAuthnConfigHasCredential, HasType, CredentialsOf
<1> QED BY <1>1, <1>2, <1>3, PTL DEF Spec
=============================================================================
