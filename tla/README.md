# Formal model of bt_api_security

This directory holds TLA+ specifications of the security library
`bt_api_security` (sources in `src/src/bt_api_security`), TLC configurations
that check them on small instances, and proofs, checked by TLAPS, that hold for
every instance. `PROJECT.json` lists the components, the runs, which lines of
the code each definition models, the hazards and the findings.

The library is passive: it starts no thread, no task and no timer. Everything
that happens is a call of an application, the passing of time, or the end of
the process. The models therefore interleave calls, clock ticks and crashes in
every order. Only one specification states fairness (`AuditedCalls!FairSpec`,
see *Fairness* below); everywhere else nothing in the code forces a next step,
and no liveness is claimed.

## Inventory

| Part | State | Operations that change it | What is hard | What makes it correct |
|---|---|---|---|---|
| `auth/oauth2_provider.py` | clients, users, authorization codes, access tokens, refresh tokens (five dictionaries) | register client/user, generate/validate a code, generate/refresh/revoke tokens, cleanup | credentials that descend from one another over long call sequences; expiry boundaries; re-registration and deactivation between two calls; a code validated now and exchanged later | a code is redeemed once; one usable refresh token per consent; no token exceeds the consent; cleanup is invisible |
| `core/audit_logger.py` | the log file, `_last_hash`, subscribers | `log_event`, `cleanup_old_events`, restart | append and `_last_hash` are separate steps; torn appends, and appends that raise although the line is written; cleanup rewrites the file, and all cleanups use one `.clean` file; late events; several loggers or threads | the log verifies; events are kept for the retention period; losses do not cascade and are reported |
| `core/access_control.py` | users, roles, sessions | create, assign/revoke roles, add/remove permissions, lock/unlock, login attempts, sessions | the answer of `has_permission` depends on set order; automatic and explicit locks meet | locks last; roles add up |
| `core/encryption_manager.py` | two files per key, the active key in memory | generate, rotate, delete keys; encrypt | threads and crashes between truncating and writing files | ciphertexts stay readable; the active key is not a retired one |
| `auth/mfa_provider.py` | configurations, WebAuthn credentials and challenges | set up, verify, regenerate, register, authenticate, disable | replacing configurations and credentials, stale and repeated challenges, shared backup codes | one-time proofs are accepted once; configurations keep their credential unless another user registers its identifier |
| `core/threat_detection.py` | failed-login deques, access lists, counters, threats | detect..., resolve | a bounded deque and a pruned list stand for the history | what is reported is what the whole history says |
| `framework.py` | the global framework, the framework a wrapped `create_feed` closes over | initialise (again), integrate, wrap functions | `audit_access` logs before and after the function, inside its own `try`; a failing append after the function ran; calls that go on while the framework is replaced | what is to be logged and ran is in the log; the log tells no lies; every call ends |
| `core/identity_manager.py` | identities in order of creation, groups, two membership indices | create, update, suspend, activate, lock, log in, group membership | mirrored indices; usernames are not unique; the identity is stored before its password | the indices agree; names do not change hands by themselves |
| `data/protection.py` | data subjects, consent and deletion records | register, record/withdraw consent, request and process deletion | the deletion destroys its own record; re-registration drops pending requests; requests are named by second and subject; search and deletion are separate steps | nobody is erased who did not ask, unless registered in the middle of a deletion |
| `monitoring/security_monitoring.py` | alerts, handlers | create, acknowledge, resolve, list | the alert is stored before the import that raises; listing sorts the list in place | handlers hear of alerts (they do not) |
| `recovery/disaster_recovery.py` | configurations, plans, a status | create, initiate | identifiers by the second overwrite each other | not modelled: placeholders |
| `core/compliance_monitor.py`, `network/tls_manager.py` | none that they read back | - | - | not modelled: fixed answers, `ssl` I/O |

How they interact: `SecurityFramework` builds all of them and hands the
encryption manager to data protection and the audit logger to monitoring. The
decorators of `framework.py` call access control and the audit logger around a
function. `AuditedCalls` models this composition; all other parts are
independent of each other.

## Modules

| Module | What it is |
|---|---|
| `ConsentLifecycle` | abstract specification: what the OAuth provider promises about a consent |
| `OAuth2Provider` | the provider; implements `ConsentLifecycle` (`ImplementsConsentLifecycle`) |
| `AuditLogger` | loggers, callers, the log file, crashes |
| `DataProtection` | the registries of data subjects, one in each manager: operations and their type, no specification of its own |
| `AuditedCalls` | composition: the framework and its decorators over instances of `AuditLogger` and `DataProtection` |
| `AccessControl` | users, roles, sessions, locks, decisions |
| `EncryptionManager` | key files, threads, crashes |
| `MFAProvider` | MFA configurations, credentials, challenges |
| `IdentityManager` | identities, groups, logins |
| `SecurityMonitoring` | alerts and their handlers |
| `ThreatDetector` | sliding windows and threats |
| `...Proofs` | theorems about the module named before it |
| `MC...` | constants, slices and symmetry sets for TLC |

Common conventions. A Python dictionary is a total function whose value at a
missing key is `None`. A call that raises before it changed anything is a step
that does not happen; a call that raises after it changed something is an
action. Random identifiers are taken from a set and never generated twice.
Variables marked *history* record what happened and are read by properties
(and by the guards that keep generated identifiers fresh and counters
bounded), never by the behaviour of the code. A definition whose comment begins
with *BUG for the checks* is a plausible mistake in the definition after it; no
specification uses it. Each property is checked to fail when such a definition
takes the place of the right one.

### OAuth2Provider

Each method is one action, because the methods are synchronous. `codes`,
`access` and `refresh` are the dictionaries of the code. `held` are the
`AuthorizationCode` objects that `validate_authorization_code` returned and the
token endpoint has not exchanged yet; the endpoint is not in the repository and
is modelled as its tests use the provider, so a client can be registered again,
a user deactivated or the record cleaned up between validation and exchange.
The model never passes made-up fields to `generate_access_token` for the
authorization code grant: it trusts the endpoint to pass those of the code.
`consent` and `origin` are history: what a code stood for, and which code a
token descends from. The PKCE transformation is an injective constructor.
Bearer validation (`validate_access_token`), introspection and `is_valid` are
the operators that properties call *usable*. JWT ID tokens change no state.

The refinement maps a code to a state (new, offered, claimed, open, closed), to
the one refresh token that can renew it (its slot), and the tables to the set
of live access tokens; expiry, use, revocation and cleanup are all `Lapse`.

### AuditLogger

The log is the sequence of lines of the file plus `end`, which says how its
last line ends. Several loggers may be open on the file (`last` has the
`_last_hash` of each), and several callers call them. `log_event` is three
steps: take `previous_hash`; append; update `_last_hash`. The append may fail or
be cut by a crash, leaving nothing, the start of the line, or the line without
its newline (`LeavePart`, counted by `torn`); the next append is then glued to
it. Or it writes the whole line and its newline, and `log_event` raises
nevertheless, because closing the file does or the caller is interrupted before
line 205 (`CommitFails`, its hashes in `stray`): the file has the event, and
`_last_hash` does not know.

The cleanup is three steps: open and read the log and open, which empties, the
`.clean` file (`StartCleanup`); write the retained lines to the file opened
(`WriteKept`); rename it to the log (`FinishCleanup`), or remove it after an
error (`CleanupFails`). The name of the `.clean` file is the same for every
cleanup, so `clean` is one variable, and each cleanup knows what the file it
has open is by now: still the `.clean` file, the log (another cleanup renamed
it), or a file without a name. Two that overlap write over each other's lines;
what sticks out of the longer text stays, its first line cut or not
(`Overwritten`). The reading of the log is one step and the writing of the
retained lines another; finer interleavings of two cleanups, whose outcomes
are of the same kind, are not modelled, and no property says anything about a
log after two cleanups overlapped except that it is a sequence of lines.

The hash of an event is its number: hashes of different events differ. An
`AuditEvent` object is logged once. An event is `stable` if the hash computed
again from its line is the one it holds; it is not when JSON turns keys of its
details into strings that sort differently, which `verify_log_integrity` reports
(`Violations`). Late events are events logged after the clock moved on from their
timestamp. Not modelled: subscribers, search, reports, compliance tags, and
changes to the file by anyone else.

The code takes no lock. `overlap` is history: it records that calls or loggers
overlapped (`"append"`), that a cleanup overlapped with another call
(`"cleanup"`), and that two cleanups did (`"cleanups"`). Each property names the
overlaps that it does not survive, and holds through all others: overlapping
appends break links of the chain but lose nothing, an overlapping cleanup may
lose lines, and only two overlapping cleanups may repeat or misplace one.
`LogVerifies` lists the five things that break links: torn appends, `stray`
lines, a cleanup among late events, overlapping calls or loggers, and
overlapping cleanups.

### AuditedCalls and DataProtection

A framework is named by its audit logger, since that is the part that the
replaced framework and the new one share the file of; each has a registry of
data subjects of its own. A call is a record that says with which framework it
began, how far it is, whether its function ran, whether an append failed and how
it ended; the records of the calls that are over stay in `past` (history). The
three appends of a call are those of `AuditLogger`, step by step: other
threads, crashes, ticks and `initialize_security_framework` interleave with
them, and a call goes on with the logger and the registry it began with.

The audited function is `process_data_deletion`. It takes two steps, the search
for the request (`FindRequest`) and the deletion of whoever has the subject's
identifier by then (`RunDeletion`); other threads may register, withdraw or
delete in between. A subject registered then is erased without having asked:
`raced` (history) has those registrations, and `ErasedOnRequest` says that they
are the only ones. The search may also raise because another thread changes
the dictionary it iterates over, and the deletion because another thread was
faster. A retry of a call that deleted its subject but whose `"success"` could
not be written is an ordinary behaviour. The mark `"completed"` that the search
sets is not modelled: no code reads it, and nothing raises between mark and
deletion but a deletion that finds nothing.

Plain calls are those that the code runs unlogged: `create_feed` without a
`user_id`, and an audited function while there is no framework
(`RunUnlogged`). They are calls like the others, but the log owes them nothing.
The arguments of a `create_feed` are details of its event, which therefore need
not be stable; those of `audit_access` are strings.

The composition has no cleanup of the log, since nothing in the framework calls
`cleanup_old_events`: `TrailIsComplete` and `VerifiedTrailIsComplete` are about a
log that is not cleaned up, and what a cleanup may cost is the business of
`AuditLogger`. An exception that is not an `Exception` (an interrupt from the
keyboard) inside a call is not modelled here; its effect on the log is that of
`CommitFails` or of a torn append. Consents are modelled up to what withdrawal
distinguishes (none, some not withdrawn, all withdrawn). Field encryption,
masking, classification and retention policies keep no state that these
operations read.

### IdentityManager

`order` lists the identities in the order of the dictionary, because
`authenticate_user` takes the first of a name. Creation whose password hashing
raises (bcrypt missing, or an embedded zero byte) leaves an identity without
password: an action of its own outcome. `update_identity` may set username,
provider, status and the attribute `password_hash` at once, the last to a hash
that verifies some password or to something that verifies none; what else it
can set is read by no operation here, except `identity_id` and `groups`, which
nothing sets. All five providers are modelled; identities of OpenID Connect and
Active Directory exist like others, but nobody can log in as one.

### SecurityMonitoring

`create_alert` is cut where another thread or a handler can get in between:
building the alert, appending it, importing the audit module, each handler. The
import names a module that the package does not have.

### AccessControl

`HasPermission` and `CheckPermission` return the *set* of answers the code can
give, since `Role.permissions` is a set and the first match decides. Resources
and actions are those of the run; the system roles are those of the code cut to
them. Of the attribute rules only the one that can grant is kept: the others
return what the end of the function returns. `promised` is history: the end of
the last lock asked for by a caller of `lock_user`.

### EncryptionManager

`_store_key` opens (and truncates) and writes the `.key` file, then the
`.meta` file: four steps of `StoreStep`. `rotate_keys` is: find the active key,
load it, generate and store a new one, store the old one as inactive, make the
new one active. A ciphertext is the name of its key. The accessors of the
module (lines 626 and 632) are documented as thread-safe, hence the threads.
The AWS and Vault managers delegate everything to the service.

### MFAProvider

Secrets and codes are named by the setup or regeneration that made them,
challenges by their order. Base64, JSON, CBOR, origin and flag checks decide
whether an answer is well formed; the model only presents well-formed ones.
The identifier of a credential is whatever the client sends: a registration
under one that is stored already replaces it, also when another user registered
it. `registrants` (history) has everyone who ever registered an identifier, and
`WebAuthnConfigHasCredential` is about those that only one user did. Challenges
for registration are stored under the user's name, those for authentication
under `"auth_"` and the name, in one dictionary; `AuthName` gives that string, and
one user may be named like the key of another. Backup codes of one batch are
assumed to be distinct, as the code generates six digits until they are.

### ThreatDetector

The deques and lists hold times. Old entries of a deque stay and are skipped by
the count (`RecentFailures`); the list of accesses is pruned by each access
(`Pruned`). The history variables `failures` and `reads`
hold every time, and the properties compare what is reported with what
counting the history says. Unusual hours and large transfers are inputs.
`LoginThreshold <= MaxLen` is assumed; the code does not enforce that the
configured threshold is at most 100, and a higher one never fires.

## Runs

| Run | Shows | Bounds, and why they suffice |
|---|---|---|
| `oauth2` | type, `OneRefreshTokenPerConsent`, `AuthorityWithinConsent`, `AccessTokenBoundToRefreshToken`, `ConsentInv`, `CleanupIsInvisible`, refinement | two clients, two codes, two access and two refresh tokens, with and without rotation and PKCE; every registration of a client can be replaced, so it is narrowed and widened; clock up to 2, past all lifetimes. `WithinSlices` gives each slice what its question needs |
| `audit_log` | everything `AuditLogger` promises | three events; two callers and two loggers that overlap, or one at a time with late events; cleanups throughout; two overlapping cleanups over two events; any number of crashes and failures; clock up to 2 with retention 1 (747,512 states). Two overlapping appends meet a cleanup over two events without a torn append; unstable events and lines whose call raised have slices with fewer complications (`WithinSlices`) |
| `audit_torn_loss` | violation: `AckedEventsAreKept` | - |
| `access_control` | `LockLastsItsDuration` for locks up to the automatic one; `RolesAddUp` | clock up to 5, automatic lock 2, four failures: locks overlap, expire and recur; a custom role with a permission that overlaps those of the system roles at a lower level; all requests, with and without context and business hours |
| `access_long_lock` | violation: `LockLastsItsDuration` with a lock longer than the automatic one | - |
| `encryption_threads` | `CiphertextsStayReadable`, `ActiveKeyIsNotRetired`, `OnlyRotationEndangers` | two threads, three keys (so that both threads can rotate the first key, or rotate in a row), one failure |
| `mfa` | `AcceptedAtMostOnce`, `WebAuthnConfigHasCredential` | two users, of whom the second is named like the challenge key of the first, and two credential identifiers that either may register; two setups or regenerations, three challenges, clock past the lifetime of a challenge |
| `mfa_disable` | violation: `DisableRemovesEverything` | - |
| `threats` | `BruteForceIsReported`, `RapidAccessIsReported`, `EscalationIsPermanent` | deque of 2 and four calls, so the deque overflows; clock past both windows |
| `audited_calls` | `TrailIsComplete`, `VerifiedTrailIsComplete`, `OutcomesAreTrue`, `ErasedOnRequest`, `CallsAdvance`, `EveryCallEnds` | two calls, so that two threads meet or a call is retried; two frameworks on one file; two registrations, so that a subject is registered again over its requests or in the middle of its deletion; one tick, so that a request of another second exists (136,252 states) |
| `identity` | `GroupIndexesAgree`, `NamesAreStable` | two identities, two names, all providers and states: the second creation of a name is the interesting one. Identities of the providers that authenticate nobody are as they were created, and so are those in groups (`WithinSlices`) |
| `monitoring_handlers` | violation: `AlertsReachHandlers` | - |

**Slices.** The states of `oauth2`, `audit_log`, `access_control`, `identity`
and `audited_calls` are cut by a `CONSTRAINT`, `WithinSlices` of the MC module:
a disjunction of slices, each of which leaves one dimension of the state at its
full bound and holds the others small (for `audited_calls`: the registry in use
by one call at a time, also while a deletion is under way, with consents or with
a second call, and one call whose request is of another second; two threads with
one registration, whose appends are torn or raise after the line was written
among audited calls or among calls of `create_feed`, not in a mix; two
frameworks with one call). TLC checks the properties in every
state of every slice and steps from one slice to another; behaviours that need
two slices at once are not explored. The theorems, where there are any, have no
slices.

**Symmetry.** Threads, keys and generated identifiers are symmetric where a run
declares a symmetry set; no property or action distinguishes them.
`audited_calls` checks a liveness property, for which symmetry is not sound;
its constraint instead fixes the order in which the interchangeable loggers and
threads are first used (`InOrder`), and leaves out requests of a second that
has not come, which `process_data_deletion` treats like those never made.

**Fairness.** `FairSpec` asks for weak fairness of `Proceed(c)`: a thread inside
a call goes on to its next step, and an append returns or raises. The code
justifies it: the calls are synchronous, take no lock and wait for no other
call, and none of them loops. Nothing is assumed of applications (which need
not call), of the clock, or of the outcome of an append: every append may fail.
`EveryCallEnds` then says that no failure is retried for ever and no call waits
for another.

**Deadlock** is not checked in `encryption_threads`, `mfa`, `threats` and
`monitoring_handlers`: there the bounded counters (keys, failures, setups,
challenges, calls, alerts, time) run out, which is an application that makes no
further call. In the other runs some call is always possible.

### Findings

* `audit_torn_loss`: the append is not atomic although its docstring says so.
  The event that *follows* an interrupted append is lost although its
  `log_event` succeeded. `audit_log` shows the limits of the damage: at most one
  acknowledged event for each interrupted append, and `verify_log_integrity`
  always notices.
* `access_long_lock`: a third failed login during a long lock shortens it to 15
  minutes. `access_control` shows that locks up to that length are safe.
* `mfa_disable`: a credential registered before a later setup survives
  `disable_mfa`.
* `monitoring_handlers`: with an audit logger, which the framework always
  passes, `create_alert` raises `ModuleNotFoundError` after it stored the alert,
  and no handler is called.

What the properties exclude on purpose, because the code makes no promise
there, is in their antecedents and in the hazards of `PROJECT.json`: links
broken by overlapping appends or by a line whose call raised, a cleanup that
overlaps, a subject registered in the middle of a deletion, a credential
identifier that two users register, rotation of a key interrupted by a crash,
deletion of a key that is in use.

## Proofs

Eight modules hold theorems, checked by TLAPS. They hold for every value of the
constants that satisfies the named assumptions: any number of clients, users,
threads, keys, identifiers and calls, any lifetimes and thresholds, without the
bounds, slices and symmetry of the runs. Each theorem rests on an inductive
invariant; TLC finds most of them satisfied in the runs before they are proved.

**`OAuth2ProviderProofs`** (assumptions of `OAuth2Provider`: lifetimes are
positive, `None` is not an identifier or a record, the three kinds of
identifiers are disjoint, registrations are as the normalizers leave them).

* `TypeCorrect`: `Spec => []TypeOK`.
* `ConsentInvariant`, `AtMostOneRefreshToken`. `OneRefreshTokenPerConsent` alone
  is not inductive: a second usable refresh token of a consent could come from a
  second redemption of the code, and whether that is possible depends on the
  code record, which cleanup deletes, and on the object the endpoint holds.
  `ConsentInv` says what keeps it out: a code that is held, or that has
  descendants, is *redeemed*: it was issued (so its identifier is never
  generated again) and its record is used or gone; a code with descendants is
  not held; every refresh token descends from a code; and of the refresh tokens
  not marked used at most one descends from each code.
* `TokensKeepToConsent` (`AuthorityWithinConsent`). `AuthorityInv` adds that the
  code record and the object the endpoint holds are within the consent too:
  they are what the tokens are made from.
* `RefreshTokenBoundsGrant` (`AccessTokenBoundToRefreshToken`), inductive together
  with `TypeOK` and `ConsentInv`.
* `CleanupOnlyForgets` (`CleanupIsInvisible`), an action property.
* `ProviderImplementsLifecycle`, i.e. the refinement of `ConsentLifecycle` that
  `oauth2` checks. Every action maps to one abstract step or a stutter
  (`RefinementStep`). `Mapping` rewrites the `CASE` and `CHOOSE` of the refinement
  mapping into facts the prover can use; it needs `ConsentInv`, which makes the
  slot of a consent unique. `OriginInv` (a token descends from something only once
  it was generated) makes a fresh identifier free in the abstract state as well.

**`AuditLoggerProofs`** (`AuditAssumption`): every property of the run
`audit_log`, for any number of loggers, callers, events, failures and crashes:
`AuditTypeCorrect`, `AuditLogVerifies`, `AuditLossBounded`, `AuditLossReported`,
`AuditLogOrdered`, `AuditChainContinues`, and the action property
`AuditLinesStay`. They follow from one inductive invariant (`AuditInvariant`),
of which TLC checked every part on the instance of the run:

* `SubmitInv` (`HashInv`, `OneAppend`, `LineInv`, `OrderInv`): hashes grow with
  submission, a call has the event it is to append to itself, and the log *and
  everything a cleanup is going to write* is in order and without duplicates,
  unless two cleanups overlapped. What a cleanup holds matters because it becomes
  the log.
* `TailInv`: a line without its newline is what a torn append left, of an event
  that was not acknowledged and that no call still under way will acknowledge.
* `FileInv`: unless two cleanups overlapped, the `.clean` file belongs to the one
  cleanup there is, is empty until it writes, and has what it wrote after that.
* `CleanInv`: unless a cleanup overlapped, it works alone and on the whole log.
* `LossInv` is the inductive form of the bound on losses. The events that are
  `Gone` were acknowledged, or are about to be, and cannot be read. A line
  without its newline counts as one of them in advance, for it takes the next
  event with it. Their number is at most that of the torn appends, and if there
  are any, the file has a line that does not parse, which no cleanup removes.
* `ChainInv` says what the chain is at each stage of the one call under way:
  before the append the event continues the last line of the file, after it the
  event is the last line, and then the logger remembers its hash; a cleanup
  keeps the last line as long as it keeps anything. It holds while no append was
  torn, no call raised after its line was written, no event was late and nothing
  overlapped (`Calm`): the first two leave a line of which `_last_hash` knows
  nothing.

Each part has a lemma that steps preserve it (`SubmitStep`, `TailStep`,
`FileStep`, `CleanStep`, `LossStep`, `ChainStep`). The loop of the cleanup is
`Kept`, a recursive function, because the provers cannot expand `SelectSeq`.
That the function exists, so that it satisfies its equation (`KeptUnfold`), and
that it selects what is retained, in order (`KeptIsSelection`), are proved by
induction on the number of lines. The library's induction theorems take a
predicate, which the provers cannot instantiate; `SetInduction` takes the *set*
of the numbers that satisfy it instead, and rests on the well-foundedness of the
naturals.

**`AccessControlProofs`** (`AccessAssumption`).

* `AccessTypeCorrect`.
* `ShortLocksLast`: `LocksAreShort => (Spec => []LockLastsItsDuration)`, where
  `LocksAreShort` says that no lock is longer than the automatic one. The run
  `access_long_lock` shows that the assumption is needed. `LockInv` strengthens
  the property by the end of every promise: it is never later than one automatic
  lock from now.
* `RolesAlwaysAddUp` (`RolesAddUp`), for every table of roles, every request, and
  every order in which permissions may be found.

**`IdentityManagerProofs`** (`IdentityAssumption`): `IdentityTypeCorrect`, whose
`TypeOK` includes that `order` lists exactly the identities that exist;
`GroupIndexesAlwaysAgree`; `NamesMoveOnlyByUpdate` (`NamesAreStable`), which
rests on `SameFirstMatch`: an identity appended to the order does not change
the first match of a name that has one.

**`MFAProviderProofs`** (`MFAAssumption`): `MFATypeCorrect`; `AcceptedOnce`
(`AcceptedAtMostOnce`) from one invariant for each kind of proof (`BackupInv`,
`HotpInv`, `ChallengeInv`), all of one form: what can still be accepted was
accepted never, what was not made yet neither, and no two users or purposes
share it; `ConfigsKeepTheirCredential` from `RegistrantInv`: the credential a
configuration names is one its user registered, and as long as no one else did
it is stored under that user, since nobody else's configuration names it and
so nobody else's `disable_mfa` removes it.

**`EncryptionManagerProofs`** (`EncryptionAssumption`): `EncryptionTypeCorrect`;
`OnlyRotationsEndanger` and `CiphertextsAlwaysReadable`, for any number of
threads, keys, failures and crashes. Neither is inductive, because between two
steps of `_store_key` a thread holds a key that no file holds. `KeyInv` says who
may hold a key (a ciphertext, the active key, a call in a certain phase) and
that a held key is sound unless it was deleted or retired, and that a key being
stored for the first time is held by nobody else. `FilesInv` says, for runs
without failures, that the files of a key are whole or some thread is writing
them. `ActiveKeyStaysCurrent` (`ActiveKeyIsNotRetired`) needs in addition
`TurnInv`, which TLC checked first: a key that a call is going to make active
is not active yet, is the call's own, and no rotation retires it, since rotations
only retire keys they found active; and once the call has stored it, it is
marked active on disk until someone deletes it. So a thread that replaces the
active key never installs one that another thread has retired meanwhile.

**`ThreatDetectorProofs`** (`ThresholdAssumption`): `DetectorTypeCorrect`, and
that the detector reports what counting the whole history would report.

* `BruteForceReported` (`BruteForceIsReported`). `DequeInv`: the deque is the end
  of the history, as much of it as it can hold, and the history is in the order of
  time. `DequeCounts` concludes that the deque and the history reach the threshold
  together, although they need not count alike: an entry that was dropped counts
  only if all that the full deque has counts too, and then the deque alone
  reaches the threshold. This is where `LoginThreshold <= MaxLen` is used.
* `RapidAccessReported` (`RapidAccessIsReported`). `AccessInv`: the entries of the
  list are different accesses of the history, and every access the window still
  counts is among them. It survives the clock, since windows only lose entries
  (`AccessStep`), and pruning, after which the list has exactly those in the window
  (`PruneTracked`, by a bijection). `RecentUnfold` and `RecentIsSelection` are the
  lemmas on the pruning loop, as for `Kept` above.
* `EscalationStays` (`EscalationIsPermanent`). `EscalationInv` connects the reports
  with the counter: an address reported as critical has a counter beyond the
  threshold, and counters never fall.

**`AuditedCallsProofs`** (`CallsAssumption`): `AuditedCallsTypeCorrect`, whose
`TypeOK` includes that a thread is inside `log_event` exactly at the stages of a
call that log; `NobodyErasedUnasked` (`ErasedOnRequest`). The invariant `Shape`
is in three parts, one for each of the composed modules, so that each step is
proved once for the part it changes (`LogStep`, `DataStep`, `ThreadStep`); its
`AskedInv` says that a pending request of a registered subject is one that was
asked for, whichever registration it belongs to. That would be enough if search
and deletion were one step. Between them `EraseInv` carries what the search
found: whoever now has the identifier that a thread is about to delete asked to
be forgotten, or was registered meanwhile and is in `raced`. A registration in
another registry, or before the search, does not come under it.

`TrailStaysComplete` (`TrailIsComplete`), `VerifiedTrailStaysComplete`
(`VerifiedTrailIsComplete`) and `OutcomesStayTrue` (`OutcomesAreTrue`) relate
the calls to what can be read in the log. The file is first reduced to two sets
of records (`ReadableIsFirmOrLoose`): those that are *firm*, and the one that is
*loose*, a last line without its newline, which the next append destroys. An
append that finishes adds its record to the firm ones (`Added`), one that does
not can at most leave it loose and counts as torn (`Torn`). `TrailInv` is the
inductive form of the bound: a torn tail is a loss in advance, so that the
records written for good that are not firm, plus one if the file does not end in
a newline, are at most the torn appends; nothing written for good is ever loose;
and if any of it is not firm, the log has a line that does not parse
(`Spoiled`), which verification reports. `BotchedInv` says that a "success" for
which `log_event` raised is logged by nobody any more, and that, unless it was
written all the same and is in `stray`, it is not firm, and if it is loose, the
"error" of its call is not in the log yet: appending that destroys it. So the
two records of a call can both be read only in the case that `OutcomesAreTrue`
names. `CallsInv` describes the record of a call at each stage, `EventsInv` that
threads log different events, each the one its call is at.

`CallsAlwaysAdvance` (`CallsAdvance`) is the safety half of `EveryCallEnds`:
nobody but its own thread moves a call, and each step leaves it fewer steps from
its end, so that a call takes at most ten steps, logs at most three events and
runs its function at most once, whatever fails and whatever other threads do.
It needs no more than `Shape`, which says at which stages a thread is inside
`log_event`.

Only model-checked: `AuditedCalls!EveryCallEnds`, since liveness under fairness
and the enabledness of the steps it needs are beyond this prover; the measure
that it rests on is proved. Every other property of a passing run is a theorem.
The properties that runs expect to be violated have no theorem, of course; for
the first two findings `AuditLossBounded` and `ShortLocksLast` prove what does
hold.

No module declares a `RECURSIVE` operator.

## Not modelled

* `core/compliance_monitor.py`: fixed rules that return constants and read no
  state. `network/tls_manager.py`: builds `ssl` contexts; stateless.
  `recovery/disaster_recovery.py`: identifiers and a status that are written and
  not read back; backup and recovery are placeholders that always succeed.
* Audit logger: subscribers (a list of callbacks; the notification changes
  nothing that the log or the chain depends on), searches, reports and
  statistics, which only read.
* Encryption: `AWSKMSManager` and `HashiCorpVaultManager` delegate every operation
  to a remote service; RSA and integrity helpers are stateless.
* Data protection: classification, masking, anonymisation, field encryption and
  retention keep no state between calls.
* OAuth: JWT ID tokens (created and validated, never stored).
* Framework: the factories that read the configuration, and the health and
  status reports; `require_permission` only asks `AccessControl`.
* Threat detector: summaries, response suggestions and baselines, which the
  detection does not read.

What is left that could still be done: properties for the hazards that
`PROJECT.json` lists without one.
