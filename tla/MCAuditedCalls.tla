--------------------------- MODULE MCAuditedCalls ---------------------------
(* Small instances of AuditedCalls for TLC. *)
EXTENDS AuditedCalls

CONSTANTS l1, l2, t1, t2

(* Three slices of one state space.                                        *)
OneCallAtATime == Cardinality(Running) <= 1
OnlyFramework(l) ==
    /\ \A m \in Loggers \ {l} : last[m] = Log!Closed
    /\ \A k \in AllCalls : k.logger = l
NoConsents ==
    \A l \in Loggers, s \in Subjects : subjects[l][s] # None =>
        \A p \in Purposes : subjects[l][s].consents[p] = "none"
OneRegistration == registrations <= 1 /\ NoConsents
AllStable ==
    /\ \A i \in DOMAIN log : log[i].stable
    /\ \A c \in Callers : call[c].op = "write" => call[c].event.stable

(* One call at a time while the registry is used in every way, and one     *)
(* call whose request is of another second;                                *)
RegistryInUse ==
    /\ OneCallAtATime /\ OnlyFramework(l2)
    /\ torn = 0 /\ stray = {} /\ wrapped = None
    /\ now > 0 => OneRegistration /\ Cardinality(AllCalls) <= 1
    /\ Cardinality(AllCalls) = MaxCalls => NoConsents
(* two threads that call at a time, once a subject asked to be forgotten   *)
(* (appends fail badly among audited calls, or among calls of create_feed); *)
TwoThreads ==
    /\ now = 0 /\ OneRegistration /\ OnlyFramework(l1) /\ AllStable
    /\ torn + Cardinality(stray) <= 1
    /\ wrapped # None /\ (\E k \in AllCalls : k.op = "audited") => torn = 0 /\ stray = {}
    /\ AllCalls # {} => asked # {}
(* and a call that goes on, or comes through create_feed, logged or not,   *)
(* while the framework is initialized again.                               *)
TwoFrameworks == now = 0 /\ OneRegistration /\ torn = 0 /\ Cardinality(AllCalls) <= 1

(* Loggers and threads are interchangeable: one slice has l2 to itself,    *)
(* one l1, and in the third, as in the second, l1 is the first to be       *)
(* opened; t1 is the first to call.  (A SYMMETRY would not be sound with   *)
(* liveness.)  A request of a second that has not come yet is as good as   *)
(* one that was never made.                                                *)
InOrder ==
    /\ \A c \in Running : job[c].announced = 1 => c = t1
    /\ \A k \in AllCalls : k.request # None => k.request[1] <= now
L1First == framework = l2 => last[l1] # Log!Closed \/ submitted > 0

WithinSlices == InOrder /\ (RegistryInUse \/ TwoThreads \/ (L1First /\ TwoFrameworks))
=============================================================================
