---------------------------- MODULE AuditedCalls ----------------------------
(***************************************************************************)
(* framework.py: SecurityFramework, initialize_security_framework,         *)
(* integrate_with_bt_api and the decorator audit_access, composed with the *)
(* audit log (AuditLogger) and the registries of data subjects             *)
(* (DataProtection) of the frameworks.                                     *)
(*                                                                         *)
(* An audited call logs "execute", runs its function, and logs "success"   *)
(* or "error"; here the function is process_data_deletion.  A feed call is *)
(* the create_feed that integrate_with_bt_api puts in the place of the     *)
(* original one: it logs "create" before it calls the original.  Several   *)
(* threads do this at a time, appends fail or are torn, the framework is   *)
(* initialized again, and the process crashes.                             *)
(*                                                                         *)
(* A framework is named by its audit logger.  An audited function with no  *)
(* framework and a create_feed without a user_id run unlogged: the plain   *)
(* calls.  A permission check (AccessControl) that refuses changes         *)
(* nothing, so the model only has the feed calls that were granted.        *)
(* Nothing in the framework calls cleanup_old_events, and this model has   *)
(* no cleanup of the log: AuditLogger has it.                              *)
(***************************************************************************)
EXTENDS Integers, Sequences, FiniteSets

CONSTANTS
    Loggers,            \* the audit loggers of the frameworks
    Callers,            \* threads
    Subjects,
    Purposes,
    None,
    TornWrites,         \* a failed or interrupted append may leave a part of it
    UnstableEvents,     \* arguments of create_feed may not survive JSON
    MaxCalls,           \* bound on the audited calls and feed calls
    MaxRegistrations,   \* bound on the registrations of subjects
    MaxTime             \* bound of the clock

VARIABLES
    now, log, end, clean, last, call, submitted, acked, torn, stray, late, overlap,
    subjects, registrations, asked, raced, erased,
    framework,          \* _security_framework
    wrapped,            \* the framework that secure_create_feed closes over
    job,                \* the call each thread is in
    past                \* history: the calls that are over

Log == INSTANCE AuditLogger WITH
          Retention <- MaxTime, LateEvents <- FALSE, MaxEvents <- 3 * MaxCalls
Data == INSTANCE DataProtection WITH Managers <- Loggers

logVars == <<now, log, end, clean, last, call, submitted, acked, torn, stray, late, overlap>>
dataVars == <<subjects, registrations, asked, raced, erased>>
vars == <<logVars, dataVars, framework, wrapped, job, past>>

(* Its framework, None if it is plain; the hashes of its events, 0 for     *)
(* those it did not log; how far it is; what its function did; whether an  *)
(* append failed; and how it ended.                                        *)
Hashes == 0 .. 3 * MaxCalls
Stages == {"announce", "run", "delete", "ran", "failed", "success", "error", "over"}
Calls == [op : {"audited", "feed", "plain"}, request : Data!Requests \cup {None},
          logger : Loggers \cup {None}, stage : Stages,
          announced : Hashes, succeeded : Hashes, failed : Hashes,
          body : {"no", "begun", "done", "raised"}, trouble : BOOLEAN,
          verdict : {"none", "returned", "raised", "lost"}]

Running == {c \in Callers : job[c] # None}
AllCalls == past \cup {job[c] : c \in Running}

TypeOK ==
    /\ Log!TypeOK
    /\ Data!DataTypeOK
    /\ framework \in Loggers \cup {None}
    /\ wrapped \in Loggers \cup {None}
    /\ job \in [Callers -> Calls \cup {None}]
    /\ past \subseteq Calls
    /\ \A c \in Running : job[c].stage \in {"announce", "success", "error"} <=> call[c] # Log!Idle

ASSUME CallsAssumption ==
    /\ {MaxCalls, MaxRegistrations, MaxTime} \subseteq Nat
    /\ TornWrites \in BOOLEAN /\ UnstableEvents \in BOOLEAN
    /\ None \notin Loggers \cup Calls

Init ==
    /\ Log!Init
    /\ Data!DataInit
    /\ framework = None
    /\ wrapped = None
    /\ job = [c \in Callers |-> None]
    /\ past = {}

-----------------------------------------------------------------------------
(* The framework and its parts. *)

(* A new SecurityFramework opens the log and starts with an empty registry. *)
(* A call that is under way goes on with those it began with.              *)
InitializeSecurityFramework(l) ==
    /\ Log!OpenLogger(l)
    /\ Data!NewManager(l)
    /\ framework' = l
    /\ UNCHANGED <<wrapped, job, past>>

(* Nothing refers to an earlier framework any more. *)
ForgetFramework(l) ==
    /\ l \notin {framework, wrapped}
    /\ \A c \in Running : job[c].logger # l
    /\ Log!DropLogger(l)
    /\ UNCHANGED <<dataVars, framework, wrapped, job, past>>

IntegrateWithBtApi ==
    /\ framework # None
    /\ wrapped' = framework
    /\ UNCHANGED <<logVars, dataVars, framework, job, past>>

(* process_data_deletion found a request of the subject and has not        *)
(* deleted yet.                                                            *)
Deleting(l, s) ==
    \E c \in Running : /\ job[c].stage = "delete" /\ job[c].logger = l
                       /\ job[c].request[2] = s

(* Calls of a registry itself, which nothing audits, also of an earlier    *)
(* framework that is still in use.                                         *)
UseRegistry ==
    /\ \E l \in Loggers, s \in Subjects :
          /\ last[l] # Log!Closed
          /\ \/ \E p \in Purposes \cup {None} :
                   \/ Data!RegisterDataSubject(l, s, p, Deleting(l, s))
                   \/ Data!WithdrawConsent(l, s, p)
             \/ \E p \in Purposes : Data!RecordConsent(l, s, p)
             \/ Data!RequestRightToBeForgotten(l, s)
    /\ UNCHANGED <<logVars, framework, wrapped, job, past>>

Tick ==
    /\ Log!Tick
    /\ UNCHANGED <<dataVars, framework, wrapped, job, past>>

(* The process stops, between two steps or during an append: the log is    *)
(* all that is left.                                                       *)
Crash ==
    /\ Log!Crash \/ \E c \in Callers : Log!CrashInWrite(c)
    /\ framework' = None
    /\ wrapped' = None
    /\ subjects' = [l \in Loggers |-> Data!NoSubjects]
    /\ job' = [c \in Callers |-> None]
    /\ past' = past \cup {[job[c] EXCEPT !.stage = "over", !.verdict = "lost"] : c \in Running}
    /\ UNCHANGED <<registrations, asked, raced, erased>>

-----------------------------------------------------------------------------
(* A call, step by step. *)

Continue(c, next) ==
    /\ job' = [job EXCEPT ![c] = next]
    /\ past' = past

(* BUG for the checks: the thread is not free again. *)
FinishInPlace(c, ended, verdict) ==
    /\ job' = [job EXCEPT ![c] = [ended EXCEPT !.verdict = verdict]]
    /\ past' = past \cup {[ended EXCEPT !.stage = "over", !.verdict = verdict]}

Finish(c, ended, verdict) ==
    /\ job' = [job EXCEPT ![c] = None]
    /\ past' = past \cup {[ended EXCEPT !.stage = "over", !.verdict = verdict]}

NewCall(op, request, l, stage, announced) ==
    [op |-> op, request |-> request, logger |-> l, stage |-> stage,
     announced |-> announced, succeeded |-> 0, failed |-> 0,
     body |-> "no", trouble |-> FALSE, verdict |-> "none"]

Free(c) == job[c] = None /\ Cardinality(past) + Cardinality(Running) < MaxCalls

(* log_event is called with the framework the call began with. *)
Announce(c, op, request, l, stable) ==
    /\ Free(c)
    /\ l # None
    /\ Log!LogEvent(c, l, now, stable)
    /\ Continue(c, NewCall(op, request, l, "announce", submitted + 1))
    /\ UNCHANGED <<dataVars, framework, wrapped>>

RunUnlogged(c) ==
    /\ Free(c)
    /\ Continue(c, NewCall("plain", None, None, "run", 0))
    /\ UNCHANGED <<logVars, dataVars, framework, wrapped>>

AuditedCall(c, request) ==
    \/ Announce(c, "audited", request, framework, TRUE)
    \/ framework = None /\ RunUnlogged(c)

(* With a user_id, whose arguments are details of the event, and without.  *)
SecureCreateFeed(c) ==
    \/ \E stable \in BOOLEAN : Announce(c, "feed", None, wrapped, stable)
    \/ wrapped # None /\ RunUnlogged(c)

WriteEvent(c) ==
    /\ Log!WriteEvent(c)
    /\ UNCHANGED <<dataVars, framework, wrapped, job, past>>

(* log_event returns. *)
EventIsLogged(c) ==
    /\ Log!CommitEvent(c)
    /\ CASE job[c].stage = "announce" -> Continue(c, [job[c] EXCEPT !.stage = "run"])
         [] job[c].stage = "success"  -> Finish(c, job[c], "returned")
         [] job[c].stage = "error"    -> Finish(c, job[c], "raised")
    /\ UNCHANGED <<dataVars, framework, wrapped>>

(* BUGS for the checks: an audit trail that cannot be written does not     *)
(* stop the function; the error event is tried again until it is written.  *)
RunWithoutRecord(c, troubled) ==
    IF troubled.stage = "announce" THEN Continue(c, [troubled EXCEPT !.stage = "run"])
    ELSE Finish(c, troubled, "raised")
RetryError(c, troubled) ==
    IF troubled.stage = "announce" THEN Finish(c, troubled, "raised")
    ELSE Continue(c, [troubled EXCEPT !.stage = "failed"])

(* log_event raises, perhaps with the whole line in the file.  Before the  *)
(* function ran that is the end; the append of "success" is inside the try *)
(* block, so that its exception is logged as an error of the call; and an  *)
(* exception of the append of "error" replaces the one of the function.    *)
AfterTrouble(c, troubled) ==
    IF troubled.stage = "success" THEN Continue(c, [troubled EXCEPT !.stage = "failed"])
    ELSE Finish(c, troubled, "raised")

EventIsNotLogged(c) ==
    /\ Log!WriteFails(c) \/ Log!CommitFails(c)
    /\ AfterTrouble(c, [job[c] EXCEPT !.trouble = TRUE])
    /\ UNCHANGED <<dataVars, framework, wrapped>>

(* The function, process_data_deletion of the framework the call began     *)
(* with.  First it looks for the request; it raises when it is not there,  *)
(* or when another thread adds or removes a subject while it looks.        *)
FindRequest(c) ==
    /\ job[c] # None /\ job[c].op = "audited" /\ job[c].stage = "run"
    /\ \/ /\ Data!IsPending(job[c].logger, job[c].request)
          /\ Continue(c, [job[c] EXCEPT !.stage = "delete", !.body = "begun"])
       \/ Continue(c, [job[c] EXCEPT !.stage = "failed", !.body = "raised"])
    /\ UNCHANGED <<logVars, dataVars, framework, wrapped>>

(* Then it deletes the subject.  When another thread did that since, there *)
(* is nothing to delete, or the deletion raises.                           *)
RunDeletion(c) ==
    /\ job[c] # None /\ job[c].stage = "delete"
    /\ LET l == job[c].logger
           s == job[c].request[2]
       IN  \/ /\ Data!DeleteSubject(l, s)
              /\ Continue(c, [job[c] EXCEPT !.stage = "ran", !.body = "done"])
           \/ /\ subjects[l][s] = None
              /\ \/ Continue(c, [job[c] EXCEPT !.stage = "ran", !.body = "done"])
                 \/ Continue(c, [job[c] EXCEPT !.stage = "failed", !.body = "raised"])
              /\ UNCHANGED dataVars
    /\ UNCHANGED <<logVars, framework, wrapped>>

(* create_feed of the bt_api instance, or a function with no framework,    *)
(* returns or raises; nothing is logged after it.                          *)
RunOriginal(c) ==
    /\ job[c] # None /\ job[c].op \in {"feed", "plain"} /\ job[c].stage = "run"
    /\ \/ Finish(c, [job[c] EXCEPT !.body = "done"], "returned")
       \/ Finish(c, [job[c] EXCEPT !.body = "raised"], "raised")
    /\ UNCHANGED <<logVars, dataVars, framework, wrapped>>

(* BUG for the checks: "success" is logged whatever the function did. *)
LogSuccessAlways(c) ==
    /\ job[c] # None /\ job[c].stage \in {"ran", "failed"}
    /\ Log!LogEvent(c, job[c].logger, now, TRUE)
    /\ Continue(c, [job[c] EXCEPT !.stage = "success", !.succeeded = submitted + 1])
    /\ UNCHANGED <<dataVars, framework, wrapped>>

LogOutcome(c) ==
    /\ job[c] # None /\ job[c].stage \in {"ran", "failed"}
    /\ Log!LogEvent(c, job[c].logger, now, TRUE)
    /\ \/ /\ job[c].stage = "ran"
          /\ Continue(c, [job[c] EXCEPT !.stage = "success", !.succeeded = submitted + 1])
       \/ /\ job[c].stage = "failed"
          /\ Continue(c, [job[c] EXCEPT !.stage = "error", !.failed = submitted + 1])
    /\ UNCHANGED <<dataVars, framework, wrapped>>

Proceed(c) ==
    \/ WriteEvent(c) \/ EventIsLogged(c) \/ EventIsNotLogged(c)
    \/ FindRequest(c) \/ RunDeletion(c) \/ RunOriginal(c) \/ LogOutcome(c)

-----------------------------------------------------------------------------
Next ==
    \/ \E l \in Loggers : InitializeSecurityFramework(l) \/ ForgetFramework(l)
    \/ IntegrateWithBtApi
    \/ UseRegistry
    \/ Tick
    \/ Crash
    \/ \E c \in Callers :
          \/ \E r \in Data!Requests : AuditedCall(c, r)
          \/ SecureCreateFeed(c)
          \/ Proceed(c)

Spec == Init /\ [][Next]_vars

(* The threads run, and appends return or raise. *)
FairSpec == Spec /\ \A c \in Callers : WF_vars(Proceed(c))

-----------------------------------------------------------------------------
(* PROPERTIES *)

ErasedOnRequest == Data!ErasedOnRequest

Readable == {e.hash : e \in Log!EventsIn(log)}

(* What the log owes: of the calls that are to be logged, the announcement *)
(* of each function that ran, and the success of each audited call that    *)
(* returned.  It owes nothing for a plain call: a create_feed without a    *)
(* user_id, and whatever runs before there is a framework, leave no trace. *)
Owed == {k.announced : k \in {k \in AllCalls : k.op # "plain" /\ k.body # "no"}}
        \cup {k.succeeded : k \in {k \in AllCalls : k.op = "audited" /\ k.verdict = "returned"}}

(* Unless cleanup_old_events is called, which nothing in the framework     *)
(* does, no function that is to be logged runs behind the back of the log: *)
(* across threads, failing appends, frameworks initialized anew on the     *)
(* same file and crashes, the log misses at most one record it owes for    *)
(* each torn append (audit_access, secure_create_feed, log_event).         *)
TrailIsComplete == Cardinality(Owed \ Readable) <= torn

(* Verification vouches for the trail of a log that is not cleaned up:     *)
(* when verify_log_integrity finds nothing wrong, no record is missing     *)
(* that the log owes, whatever failed, was torn, overlapped in time or was *)
(* initialized anew before (verify_log_integrity, log_event, audit_access).*)
VerifiedTrailIsComplete == Log!Violations(log) = {} => Owed \subseteq Readable

(* The log tells the truth: "success" is there only for calls whose        *)
(* function ran, also after crashes; "error" only for calls whose function *)
(* raised, or whose "success" log_event raised for; and a call has both    *)
(* records only if that "success" was written although log_event raised    *)
(* (the try block of audit_access, _write_event_atomic).                   *)
OutcomesAreTrue ==
    \A k \in AllCalls :
        /\ k.succeeded \in Readable => k.body = "done"
        /\ k.failed \in Readable => k.body = "raised" \/ k.trouble
        /\ {k.succeeded, k.failed} \subseteq Readable => k.succeeded \in stray

(* How many steps a call is from its end, at most.                         *)
StepsLeft(c) ==
    [announce |-> 9, run |-> 8, delete |-> 7, ran |-> 6, success |-> 4, failed |-> 3,
     error |-> 1][job[c].stage]
    + (IF call[c].op = "write" THEN 1 ELSE 0)

(* A call that is under way is only moved by its own steps, and each of    *)
(* them brings it closer to its end, whatever fails: it logs at most three *)
(* events and runs its function at most once (audit_access).               *)
CallsAdvance ==
    [][\A c \in Callers : job[c] # None /\ job'[c] # None =>
          UNCHANGED <<job[c], call[c]>> \/ StepsLeft(c)' < StepsLeft(c)]_vars

(* Every call comes to an end, whatever fails: no failing append is tried  *)
(* for ever, nothing waits for another thread (audit_access).              *)
EveryCallEnds == \A c \in Callers : job[c] # None ~> job[c] = None
=============================================================================
