--------------------------- MODULE DataProtection ---------------------------
(***************************************************************************)
(* data/protection.py: the registry of data subjects, their consents and   *)
(* their requests to be forgotten.  Classification, masking and encryption *)
(* of fields keep no state and are left out.                               *)
(*                                                                         *)
(* The registries are in memory, one in each manager.  A request is named  *)
(* by its second and its subject, as in the code.  Several threads use a   *)
(* registry: process_data_deletion finds a request in one step and deletes *)
(* in another.  The module has no specification of its own: AuditedCalls   *)
(* composes its operations with the frameworks that call them.             *)
(***************************************************************************)
EXTENDS Integers

CONSTANTS
    Managers,           \* DataProtectionManager objects
    Subjects,
    Purposes,           \* purposes of consents
    None,
    MaxRegistrations,   \* bound on the calls of register_data_subject
    MaxTime             \* bound of the clock

VARIABLES
    now,                \* int(time.time())
    subjects,           \* self._data_subjects of each manager
    registrations,      \* history: number of registrations, which names them
    asked,              \* history: registrations that asked to be forgotten
    raced,              \* history: registrations made while their id was deleted
    erased              \* history: registrations that were deleted

dataVars == <<subjects, registrations, asked, raced, erased>>

(* The records of one purpose: there is none, one of them is not withdrawn, *)
(* or all of them are.                                                     *)
ConsentStates == {"none", "given", "withdrawn"}

(* requests holds the seconds of the pending ones: a request leaves the    *)
(* registry, with its subject, when it is completed.                       *)
Subject == [registration : 1 .. MaxRegistrations, consents : [Purposes -> ConsentStates],
            requests : SUBSET (0 .. MaxTime)]
Requests == (0 .. MaxTime) \X Subjects

DataTypeOK ==
    /\ subjects \in [Managers -> [Subjects -> Subject \cup {None}]]
    /\ registrations \in 0 .. MaxRegistrations
    /\ asked \subseteq 1 .. registrations
    /\ raced \subseteq 1 .. registrations
    /\ erased \subseteq 1 .. registrations

NoSubjects == [s \in Subjects |-> None]

DataInit ==
    /\ subjects = [m \in Managers |-> NoSubjects]
    /\ registrations = 0
    /\ asked = {}
    /\ raced = {}
    /\ erased = {}

Update(m, s, subject) == subjects' = [subjects EXCEPT ![m][s] = subject]

(* A new manager starts with an empty registry.                            *)
NewManager(m) ==
    /\ subjects' = [subjects EXCEPT ![m] = NoSubjects]
    /\ UNCHANGED <<registrations, asked, raced, erased>>

-----------------------------------------------------------------------------
(* register_data_subject replaces a subject that is there, with its        *)
(* consents and its pending requests.  racing: a deletion of this id is    *)
(* under way.                                                              *)
RegisterDataSubject(m, s, purpose, racing) ==
    /\ registrations < MaxRegistrations
    /\ registrations' = registrations + 1
    /\ Update(m, s, [registration |-> registrations + 1,
                     consents |-> [p \in Purposes |-> IF p = purpose THEN "given" ELSE "none"],
                     requests |-> {}])
    /\ raced' = raced \cup (IF racing THEN {registrations + 1} ELSE {})
    /\ UNCHANGED <<asked, erased>>

RecordConsent(m, s, purpose) ==
    /\ subjects[m][s] # None
    /\ Update(m, s, [subjects[m][s] EXCEPT !.consents[purpose] = "given"])
    /\ UNCHANGED <<registrations, asked, raced, erased>>

(* Without a purpose it withdraws all of them. *)
WithdrawConsent(m, s, purpose) ==
    /\ subjects[m][s] # None
    /\ Update(m, s, [subjects[m][s] EXCEPT !.consents =
                       [p \in Purposes |->
                           IF purpose \in {p, None} /\ @[p] # "none" THEN "withdrawn" ELSE @[p]]])
    /\ UNCHANGED <<registrations, asked, raced, erased>>

RequestRightToBeForgotten(m, s) ==
    /\ subjects[m][s] # None
    /\ Update(m, s, [subjects[m][s] EXCEPT !.requests = @ \cup {now}])
    /\ asked' = asked \cup {subjects[m][s].registration}
    /\ UNCHANGED <<registrations, raced, erased>>

(* BUG for the checks: requests are kept apart from the subjects, so that  *)
(* a request that was processed is found again.                            *)
IsPendingForever(m, request) == subjects[m][request[2]] # None

(* The loop of process_data_deletion finds the request.  It marks it as    *)
(* completed, but does not look at the mark: what counts is whether it is  *)
(* there.                                                                  *)
IsPending(m, request) ==
    subjects[m][request[2]] # None /\ request[1] \in subjects[m][request[2]].requests

(* _delete_subject_data deletes by the id of the subject, whoever has it   *)
(* now.                                                                    *)
DeleteSubject(m, s) ==
    /\ subjects[m][s] # None
    /\ Update(m, s, None)
    /\ erased' = erased \cup {subjects[m][s].registration}
    /\ UNCHANGED <<registrations, asked, raced>>

-----------------------------------------------------------------------------
(* PROPERTIES *)

(* A registration is erased only when it asked for it itself, or when it   *)
(* was made in the middle of a deletion of its subject, which takes it     *)
(* along: a retry of process_data_deletion, or one that comes late, does   *)
(* not erase who was registered again since, although the second that      *)
(* names a request may be the same (register_data_subject,                 *)
(* process_data_deletion).                                                 *)
ErasedOnRequest == erased \subseteq asked \cup raced
=============================================================================
