---------------------------- MODULE ThreatDetector ----------------------------
(***************************************************************************)
(* core/threat_detection.py: the sliding windows of a ThreatDetector and   *)
(* the threats it reports.  The failed logins of a user from an address    *)
(* are kept in a deque of bounded length, whose old entries the window     *)
(* skips; the data accesses of a user in a list that each access prunes.   *)
(* A threat is identified by its type and the second it was reported in.   *)
(* What the detector forgets is kept in two history variables.             *)
(***************************************************************************)
EXTENDS Integers, Sequences, FiniteSets, SequencesExt

CONSTANTS
    Users, Ips,
    MaxLen,                 \* deque(maxlen=100)
    LoginWindow,            \* 300 s in the code
    AccessWindow,           \* 3600 s in the code
    LoginThreshold,         \* failed_login_threshold
    AccessThreshold,        \* data_access_threshold
    SuspiciousThreshold,    \* suspicious_ip_threshold
    SprayThreshold,         \* 10 in the code
    MaxCalls,               \* bound on the detector's calls
    MaxTime                 \* bound of the clock

VARIABLES
    now,                    \* time.time(), in seconds
    failed,                 \* self._failed_logins
    accesses,               \* self._data_access_patterns
    suspicious,             \* self._suspicious_ips
    threats,                \* self._threat_events
    calls,                  \* history: number of calls
    failures,               \* history: when each user failed to log in from each address
    reads                   \* history: when each user accessed data

vars == <<now, failed, accesses, suspicious, threats, calls, failures, reads>>

Times == 0 .. MaxTime
Keys == Users \X Ips

(* The prefixes of event_id; the number in each is the second it was made. *)
ThreatTypes == {"brute_force", "anomalous_access", "unauthorized", "suspicious_login",
                "data_exfil"}

Threat == [type : ThreatTypes,
           level : {"medium", "high", "critical"}, ip : Ips \cup {"none"},
           at : Times, resolved : BOOLEAN]

ASSUME ThresholdAssumption ==
    /\ {MaxLen, LoginWindow, AccessWindow, LoginThreshold} \subseteq Nat \ {0}
    /\ {AccessThreshold, SuspiciousThreshold, SprayThreshold, MaxCalls, MaxTime} \subseteq Nat
    /\ LoginThreshold <= MaxLen
    /\ "none" \notin Ips

TypeOK ==
    /\ now \in Times
    /\ failed \in [Keys -> Seq(Times)]
    /\ \A key \in Keys : Len(failed[key]) <= MaxLen
    /\ accesses \in [Users -> Seq(Times)]
    /\ suspicious \in [Ips -> Nat]
    /\ threats \in Seq(Threat)
    /\ calls \in 0 .. MaxCalls
    /\ failures \in [Keys -> Seq(Times)]
    /\ reads \in [Users -> Seq(Times)]

Init ==
    /\ now = 0
    /\ failed = [key \in Keys |-> <<>>]
    /\ accesses = [u \in Users |-> <<>>]
    /\ suspicious = [i \in Ips |-> 0]
    /\ threats = <<>>
    /\ calls = 0
    /\ failures = [key \in Keys |-> <<>>]
    /\ reads = [u \in Users |-> <<>>]

-----------------------------------------------------------------------------
(* Windows and levels *)

(* BUG for the checks: the end of the window belongs to it. *)
IsRecentInclusive(time, window) == now - time <= window

IsRecent(time, window) == now - time < window

(* How many entries of a deque the window counts. *)
RecentFailures(deque) == Cardinality({i \in DOMAIN deque : IsRecent(deque[i], LoginWindow)})

(* Pruning a list: of each n, what is kept of its first n entries.         *)
Recent(times) ==
    LET recent[n \in 0 .. Len(times)] ==
          IF n = 0 THEN <<>>
          ELSE IF IsRecent(times[n], AccessWindow) THEN Append(recent[n - 1], times[n])
          ELSE recent[n - 1]
    IN  recent

Pruned(times) == Recent(times)[Len(times)]

(* BUGS for the checks: the deque is not bounded, or keeps what came first. *)
PushUnbounded(times) == Append(times, now)
PushUntilFull(times) == IF Len(times) < MaxLen THEN Append(times, now) ELSE times

(* Appending to a deque that is full drops its oldest entry. *)
PushBounded(times) ==
    IF Len(times) < MaxLen THEN Append(times, now) ELSE Append(Tail(times), now)

(* How many users failed to log in from the address within the window.     *)
FailingUsers(deques, ip) ==
    Cardinality({u \in Users : RecentFailures(deques[<<u, ip>>]) > 0})

(* BUG for the checks: the level rises for one attempt only. *)
LevelOfOneAttempt(count) == IF count = SuspiciousThreshold + 1 THEN "critical" ELSE "high"

LevelOf(count) == IF count > SuspiciousThreshold THEN "critical" ELSE "high"

Report(type, level, ip) ==
    threats' = Append(threats, [type |-> type, level |-> level, ip |-> ip,
                                at |-> now, resolved |-> FALSE])

Call == calls < MaxCalls /\ calls' = calls + 1

-----------------------------------------------------------------------------
DetectFailedLogin(u, ip) ==
    LET key == <<u, ip>>
    IN  /\ Call
        /\ failed' = [failed EXCEPT ![key] = PushBounded(@)]
        /\ failures' = [failures EXCEPT ![key] = Append(@, now)]
        /\ \/ /\ RecentFailures(failed'[key]) >= LoginThreshold
              /\ Report("brute_force",
                        IF FailingUsers(failed', ip) > SprayThreshold THEN "high" ELSE "medium",
                        ip)
           \/ /\ RecentFailures(failed'[key]) < LoginThreshold
              /\ UNCHANGED threats
        /\ UNCHANGED <<now, accesses, suspicious, reads>>

(* detect_suspicious_access_pattern *)
DetectAccess(u, ip) ==
    /\ Call
    /\ accesses' = [accesses EXCEPT ![u] = Pruned(Append(@, now))]
    /\ reads' = [reads EXCEPT ![u] = Append(@, now)]
    /\ \/ Len(accesses'[u]) > AccessThreshold /\ Report("anomalous_access", "medium", ip)
       \/ Len(accesses'[u]) <= AccessThreshold /\ UNCHANGED threats
    /\ UNCHANGED <<now, failed, suspicious, failures>>

DetectUnauthorized(ip) ==
    /\ Call
    /\ suspicious' = [suspicious EXCEPT ![ip] = @ + 1]
    /\ Report("unauthorized", LevelOf(suspicious'[ip]), ip)
    /\ UNCHANGED <<now, failed, accesses, failures, reads>>

(* analyze_login_anomaly at an unusual hour and detect_data_exfiltration of *)
(* a large transfer report whatever happened before; otherwise they do     *)
(* nothing.                                                                *)
DetectOther(type, level, ip) ==
    /\ Call
    /\ Report(type, level, ip)
    /\ UNCHANGED <<now, failed, accesses, suspicious, failures, reads>>

AnalyzeLoginAnomaly(ip) == DetectOther("suspicious_login", "medium", ip)
DetectDataExfiltration == DetectOther("data_exfil", "high", "none")

(* resolve_threat takes the first threat with the identifier. *)
ResolveThreat(type, at) ==
    LET named == {i \in DOMAIN threats : threats[i].type = type /\ threats[i].at = at}
    IN  /\ named # {}
        /\ threats' = [threats EXCEPT ![CHOOSE i \in named : \A j \in named : i <= j].resolved = TRUE]
        /\ UNCHANGED <<now, failed, accesses, suspicious, calls, failures, reads>>

Tick ==
    /\ now < MaxTime
    /\ now' = now + 1
    /\ UNCHANGED <<failed, accesses, suspicious, threats, calls, failures, reads>>

Next ==
    \/ \E u \in Users, ip \in Ips : DetectFailedLogin(u, ip) \/ DetectAccess(u, ip)
    \/ \E ip \in Ips : DetectUnauthorized(ip) \/ AnalyzeLoginAnomaly(ip)
    \/ DetectDataExfiltration
    \/ \E type \in ThreatTypes, at \in Times : ResolveThreat(type, at)
    \/ Tick

Spec == Init /\ [][Next]_vars

-----------------------------------------------------------------------------
(* PROPERTIES *)

(* How many of the times lie less than a window before now. *)
InWindow(times, window) == Cardinality({i \in DOMAIN times : times[i] + window > now})

(* A failed login is reported as brute force exactly when it completes the *)
(* threshold of failures within the window, counted over everything that   *)
(* happened: neither the bound of the deque nor its stale entries matter   *)
(* (detect_failed_login).                                                  *)
BruteForceIsReported ==
    [][\A u \in Users, ip \in Ips :
          failures'[<<u, ip>>] # failures[<<u, ip>>] =>
             (threats' # threats <=> InWindow(failures'[<<u, ip>>], LoginWindow) >= LoginThreshold)]_vars

(* A data access is reported exactly when more than the threshold of       *)
(* accesses happened within the window: pruning the list forgets nothing   *)
(* that counts (detect_suspicious_access_pattern).                         *)
RapidAccessIsReported ==
    [][\A u \in Users :
          reads'[u] # reads[u] =>
             (threats' # threats <=> InWindow(reads'[u], AccessWindow) > AccessThreshold)]_vars

(* Once an address was reported as critical, every later unauthorized      *)
(* attempt from it is critical too, and resolving threats does not reset   *)
(* it (detect_unauthorized_access_attempt, resolve_threat).                *)
EscalationIsPermanent ==
    \A i, j \in DOMAIN threats :
        /\ i < j /\ threats[i].ip = threats[j].ip
        /\ threats[i].type = "unauthorized" /\ threats[j].type = "unauthorized"
        /\ threats[i].level = "critical"
        => threats[j].level = "critical"
=============================================================================
