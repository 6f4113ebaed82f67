-------------------------- MODULE AuditedCallsProofs --------------------------
(* Theorems about AuditedCalls, for every number of threads, frameworks,   *)
(* subjects, calls and crashes.                                            *)
EXTENDS AuditedCalls, FiniteSetTheorems, SequenceTheorems, TLAPS

(* Nobody cleans the log up here, so that a thread is idle or in log_event.*)
LogCall == [op : {"write", "commit"}, logger : Loggers, event : Log!Event]

LogShape == Log!TypeOK /\ call \in [Callers -> LogCall \cup {Log!Idle}]

LEMMA IdleIsNoCall == Log!Idle \notin LogCall
<1>1. \A x \in LogCall : x.op # "idle"
  BY DEF LogCall
<1>2. Log!Idle.op = "idle"
  BY DEF Log!Idle
<1> QED BY <1>1, <1>2

(* LogShape without the clause that follows from the type of call.         *)
LEMMA LogShapeFrom ==
    ASSUME now' \in 0 .. MaxTime, log' \in Seq(Log!Event \cup {Log!Garbage}),
           end' \in {"newline", "complete", "partial"},
           last' \in [Loggers -> Log!Hashes \cup {Log!Closed}],
           call' \in [Callers -> LogCall \cup {Log!Idle}],
           clean' \in Seq(Log!Event \cup {Log!Garbage}),
           submitted' \in 0 .. 3 * MaxCalls, acked' \subseteq Log!Event, torn' \in Nat,
           stray' \subseteq 1 .. 3 * MaxCalls,
           late' \in BOOLEAN, overlap' \subseteq {"append", "cleanup", "cleanups"}
    PROVE  LogShape'
<1>1. LogCall \subseteq Log!Call
  BY DEF LogCall, Log!Call
<1>2. /\ call' \in [Callers -> Log!Call \cup {Log!Idle}]
      /\ log' \in Seq(Log!Line) /\ clean' \in Seq(Log!Line)
  BY <1>1 DEF Log!Line
<1> QED BY <1>2 DEF LogShape, Log!TypeOK

(* The lines of a file to which a line is appended.                        *)
LEMMA AppendType ==
    ASSUME LogShape, NEW line \in Log!Event \cup {Log!Garbage}
    PROVE  Log!AppendLine(line) \in Seq(Log!Event \cup {Log!Garbage})
<1> DEFINE L == Log!Event \cup {Log!Garbage}
<1>1. log \in Seq(L)
  BY DEF LogShape, Log!TypeOK, Log!Line
<1>2. Log!Garbage \in L
  OBVIOUS
<1> HIDE DEF L
<1>3. [log EXCEPT ![Len(log)] = Log!Garbage] \in Seq(L)
  <2>1. [log EXCEPT ![Len(log)] = Log!Garbage] \in [1 .. Len(log) -> L] /\ Len(log) \in Nat
    <3>1. log \in [1 .. Len(log) -> L] /\ Len(log) \in Nat
      BY <1>1, LenProperties
    <3> QED BY <1>2, <3>1
  <2> QED BY <2>1, SeqDef
<1>4. line \in L => Append(log, line) \in Seq(L)
  BY <1>1
<1> QED BY <1>3, <1>4 DEF Log!AppendLine, L

LEMMA LogStep ==
    ASSUME LogShape,
           \/ \E l \in Loggers : Log!OpenLogger(l) \/ Log!DropLogger(l)
           \/ Log!Tick
           \/ Log!Crash
           \/ \E c \in Callers :
                 \/ \E l \in Loggers, stable \in BOOLEAN : Log!LogEvent(c, l, now, stable)
                 \/ Log!WriteEvent(c) \/ Log!WriteFails(c) \/ Log!CrashInWrite(c)
                 \/ Log!CommitEvent(c) \/ Log!CommitFails(c)
           \/ UNCHANGED logVars
    PROVE  LogShape'
<1> USE CallsAssumption, IdleIsNoCall
<1>0. /\ now \in 0 .. MaxTime /\ log \in Seq(Log!Event \cup {Log!Garbage})
      /\ end \in {"newline", "complete", "partial"}
      /\ last \in [Loggers -> Log!Hashes \cup {Log!Closed}]
      /\ call \in [Callers -> LogCall \cup {Log!Idle}]
      /\ submitted \in 0 .. 3 * MaxCalls /\ acked \subseteq Log!Event /\ torn \in Nat
      /\ clean \in Seq(Log!Event \cup {Log!Garbage}) /\ stray \subseteq 1 .. 3 * MaxCalls
      /\ late \in BOOLEAN /\ overlap \subseteq {"append", "cleanup", "cleanups"}
  BY DEF LogShape, Log!TypeOK, Log!Line
<1>1. ASSUME NEW l \in Loggers, Log!OpenLogger(l) PROVE LogShape'
  <2>1. Log!LoadLastHash \in Log!Hashes
    BY <1>0 DEF Log!LoadLastHash, Log!Event, Log!Garbage, Log!Hashes, Log!NoHash
  <2> QED BY <1>0, <1>1, <2>1, LogShapeFrom DEF Log!OpenLogger
<1>2. ASSUME NEW l \in Loggers, Log!DropLogger(l) PROVE LogShape'
  BY <1>0, <1>2, LogShapeFrom DEF Log!DropLogger
<1>3. CASE Log!Tick
  BY <1>0, <1>3, LogShapeFrom DEF Log!Tick
<1>4. CASE Log!Crash
  BY <1>0, <1>4, LogShapeFrom DEF Log!Crash
<1>5. ASSUME NEW c \in Callers, NEW l \in Loggers, NEW stable \in BOOLEAN,
             Log!LogEvent(c, l, now, stable)
      PROVE  LogShape'
  <2>1. Log!NewEvent(l, now, stable) \in Log!Event
    BY <1>0, <1>5 DEF Log!LogEvent, Log!NewEvent, Log!Event, Log!Hashes
  <2>2. [op |-> "write", logger |-> l, event |-> Log!NewEvent(l, now, stable)] \in LogCall
    BY <2>1 DEF LogCall
  <2>3. call' \in [Callers -> LogCall \cup {Log!Idle}]
    BY <1>0, <1>5, <2>2 DEF Log!LogEvent
  <2>4. late' \in BOOLEAN
    BY <1>5 DEF Log!LogEvent
  <2>5. overlap' \subseteq {"append", "cleanup", "cleanups"}
    BY <1>0, <1>5 DEF Log!LogEvent, Log!LogEventOverlaps
  <2>6. submitted' \in 0 .. 3 * MaxCalls
    BY <1>0, <1>5 DEF Log!LogEvent
  <2> QED BY <1>0, <1>5, <2>3, <2>4, <2>5, <2>6, LogShapeFrom DEF Log!LogEvent
<1>6. ASSUME NEW c \in Callers, call[c].op \in {"write", "commit"}
      PROVE  call[c] \in LogCall /\ call[c].event \in Log!Event
  <2>1. call[c] # Log!Idle
    BY <1>6 DEF Log!Idle
  <2> QED BY <1>0, <2>1 DEF LogCall
<1>7. ASSUME NEW c \in Callers, Log!WriteEvent(c) PROVE LogShape'
  <2>1. call[c] \in LogCall /\ call[c].event \in Log!Event
    BY <1>6, <1>7 DEF Log!WriteEvent
  <2>2. [call[c] EXCEPT !.op = "commit"] \in LogCall
    BY <2>1 DEF LogCall
  <2>3. call' \in [Callers -> LogCall \cup {Log!Idle}]
    BY <1>0, <1>7, <2>2 DEF Log!WriteEvent
  <2>4. log' \in Seq(Log!Event \cup {Log!Garbage})
    BY <1>7, <2>1, AppendType DEF Log!WriteEvent
  <2> QED BY <1>0, <1>7, <2>3, <2>4, LogShapeFrom DEF Log!WriteEvent
<1>8. ASSUME NEW c \in Callers, call[c].op = "write", Log!LeavePart(c)
      PROVE  /\ log' \in Seq(Log!Event \cup {Log!Garbage})
             /\ end' \in {"newline", "complete", "partial"} /\ torn' \in Nat
  BY <1>0, <1>6, <1>8, AppendType DEF Log!LeavePart
<1>9. ASSUME NEW c \in Callers, Log!WriteFails(c) PROVE LogShape'
  BY <1>0, <1>8, <1>9, LogShapeFrom DEF Log!WriteFails
<1>10. ASSUME NEW c \in Callers, Log!CrashInWrite(c) PROVE LogShape'
  BY <1>0, <1>8, <1>10, LogShapeFrom DEF Log!CrashInWrite
<1>11. ASSUME NEW c \in Callers, Log!CommitEvent(c) PROVE LogShape'
  <2>1. call[c].event \in Log!Event /\ call[c].logger \in Loggers
    BY <1>6, <1>11 DEF Log!CommitEvent, LogCall
  <2>2. call[c].event.hash \in Log!Hashes
    BY <1>0, <2>1 DEF Log!Event, Log!Hashes
  <2> QED BY <1>0, <1>11, <2>1, <2>2, LogShapeFrom DEF Log!CommitEvent
<1>12. ASSUME NEW c \in Callers, Log!CommitFails(c) PROVE LogShape'
  <2>1. call[c].event.hash \in 1 .. 3 * MaxCalls
    BY <1>6, <1>12 DEF Log!CommitFails, Log!Event
  <2> QED BY <1>0, <1>12, <2>1, LogShapeFrom DEF Log!CommitFails
<1>13. CASE UNCHANGED logVars
  BY <1>0, <1>13, LogShapeFrom DEF logVars
<1> QED BY <1>1, <1>2, <1>3, <1>4, <1>5, <1>7, <1>9, <1>10, <1>11, <1>12, <1>13

-----------------------------------------------------------------------------
(* The registries.  Whoever has a pending request asked to be forgotten.   *)
AskedInv ==
    \A l \in Loggers, s \in Subjects : subjects[l][s] # None =>
        /\ subjects[l][s].registration <= registrations
        /\ subjects[l][s].requests # {} => subjects[l][s].registration \in asked

DataInv == Data!DataTypeOK /\ AskedInv

LEMMA UpdateFacts ==
    ASSUME Data!DataTypeOK, NEW m \in Loggers, NEW s \in Subjects,
           NEW x \in Data!Subject \cup {None}, Data!Update(m, s, x)
    PROVE  /\ subjects' \in [Loggers -> [Subjects -> Data!Subject \cup {None}]]
           /\ subjects'[m][s] = x
           /\ \A l \in Loggers, q \in Subjects :
                 l # m \/ q # s => subjects'[l][q] = subjects[l][q]
<1> DEFINE S == Data!Subject \cup {None}
<1>1. subjects' = [subjects EXCEPT ![m] = [subjects[m] EXCEPT ![s] = x]]
  BY DEF Data!Update
<1>2. subjects \in [Loggers -> [Subjects -> S]] /\ x \in S
  BY DEF Data!DataTypeOK
<1> HIDE DEF S
<1>3. [subjects[m] EXCEPT ![s] = x] \in [Subjects -> S]
  BY <1>2
<1>4. subjects' \in [Loggers -> [Subjects -> S]]
  BY <1>1, <1>2, <1>3
<1>5. subjects'[m] = [subjects[m] EXCEPT ![s] = x]
  BY <1>1, <1>2
<1>6. \A l \in Loggers \ {m} : subjects'[l] = subjects[l]
  BY <1>1, <1>2
<1>7. subjects'[m][s] = x /\ \A q \in Subjects \ {s} : subjects'[m][q] = subjects[m][q]
  BY <1>2, <1>5
<1> QED BY <1>4, <1>6, <1>7 DEF S

(* Replacing the record of one subject.                                    *)
LEMMA UpdateStep ==
    ASSUME DataInv, NEW m \in Loggers, NEW s \in Subjects, NEW x \in Data!Subject \cup {None},
           Data!Update(m, s, x),
           registrations' \in 0 .. MaxRegistrations, registrations <= registrations',
           asked \subseteq asked', asked' \subseteq 1 .. registrations',
           raced' \subseteq 1 .. registrations', erased' \subseteq 1 .. registrations',
           x # None => /\ x.registration <= registrations'
                       /\ x.requests # {} => x.registration \in asked'
    PROVE  DataInv'
<1>1. /\ subjects' \in [Loggers -> [Subjects -> Data!Subject \cup {None}]]
      /\ subjects'[m][s] = x
      /\ \A l \in Loggers, q \in Subjects :
            l # m \/ q # s => subjects'[l][q] = subjects[l][q]
  BY UpdateFacts DEF DataInv
<1>2. ASSUME NEW l \in Loggers, NEW q \in Subjects, subjects'[l][q] # None
      PROVE  /\ subjects'[l][q].registration <= registrations'
             /\ subjects'[l][q].requests # {} => subjects'[l][q].registration \in asked'
  <2>1. CASE l = m /\ q = s
    BY <1>1, <1>2, <2>1
  <2>2. CASE l # m \/ q # s
    <3>1. subjects'[l][q] = subjects[l][q] /\ subjects[l][q] \in Data!Subject
      BY <1>1, <1>2, <2>2 DEF DataInv, Data!DataTypeOK
    <3> QED BY <1>2, <3>1 DEF DataInv, Data!DataTypeOK, AskedInv, Data!Subject
  <2> QED BY <2>1, <2>2
<1>3. Data!DataTypeOK'
  BY <1>1 DEF Data!DataTypeOK
<1>4. AskedInv'
  BY <1>2 DEF AskedInv
<1> QED BY <1>3, <1>4 DEF DataInv

(* The operations, each with the record x it leaves in the registry.       *)
LEMMA Registers ==
    ASSUME DataInv, NEW m \in Loggers, NEW s \in Subjects, NEW p \in Purposes \cup {None},
           NEW racing \in BOOLEAN, Data!RegisterDataSubject(m, s, p, racing)
    PROVE  \E x \in Data!Subject :
              /\ Data!Update(m, s, x) /\ x.registration = registrations + 1 /\ x.requests = {}
              /\ registrations' = registrations + 1 /\ registrations' \in 1 .. MaxRegistrations
              /\ asked' = asked /\ erased' = erased
              /\ raced' = raced \cup (IF racing THEN {registrations + 1} ELSE {})
<1> DEFINE x == [registration |-> registrations + 1,
                 consents |-> [q \in Purposes |-> IF q = p THEN "given" ELSE "none"],
                 requests |-> {}]
<1>1. /\ registrations < MaxRegistrations /\ registrations' = registrations + 1
      /\ Data!Update(m, s, x) /\ asked' = asked /\ erased' = erased
      /\ raced' = raced \cup (IF racing THEN {registrations + 1} ELSE {})
  BY DEF Data!RegisterDataSubject
<1>2. registrations + 1 \in 1 .. MaxRegistrations
  BY <1>1, CallsAssumption DEF DataInv, Data!DataTypeOK
<1>3. [q \in Purposes |-> IF q = p THEN "given" ELSE "none"] \in [Purposes -> Data!ConsentStates]
  BY DEF Data!ConsentStates
<1>4. x \in Data!Subject /\ x.requests = {} /\ x.registration = registrations + 1
  BY <1>2, <1>3 DEF Data!Subject
<1> HIDE DEF x
<1> QED BY <1>1, <1>2, <1>4

(* The three that keep the registration.                                   *)
LEMMA Keeps ==
    ASSUME DataInv, now \in 0 .. MaxTime, NEW m \in Loggers, NEW s \in Subjects,
           \/ \E p \in Purposes : Data!RecordConsent(m, s, p)
           \/ \E p \in Purposes \cup {None} : Data!WithdrawConsent(m, s, p)
           \/ Data!RequestRightToBeForgotten(m, s)
    PROVE  /\ subjects[m][s] # None
           /\ \E x \in Data!Subject :
                 /\ Data!Update(m, s, x) /\ x.registration = subjects[m][s].registration
                 /\ UNCHANGED <<registrations, raced, erased>>
                 /\ \/ asked' = asked /\ x.requests = subjects[m][s].requests
                    \/ asked' = asked \cup {subjects[m][s].registration}
<1>0. subjects[m][s] # None => subjects[m][s] \in Data!Subject
  BY DEF DataInv, Data!DataTypeOK
<1>1. ASSUME NEW p \in Purposes, Data!RecordConsent(m, s, p)
      PROVE  /\ subjects[m][s] # None
             /\ \E x \in Data!Subject :
                   /\ Data!Update(m, s, x) /\ x.registration = subjects[m][s].registration
                   /\ UNCHANGED <<registrations, raced, erased>>
                   /\ asked' = asked /\ x.requests = subjects[m][s].requests
  <2> DEFINE x == [subjects[m][s] EXCEPT !.consents[p] = "given"]
  <2>1. /\ subjects[m][s] # None /\ Data!Update(m, s, x)
        /\ UNCHANGED <<registrations, asked, raced, erased>>
    BY <1>1 DEF Data!RecordConsent
  <2>2. /\ x \in Data!Subject /\ x.registration = subjects[m][s].registration
        /\ x.requests = subjects[m][s].requests
    BY <1>0, <2>1 DEF Data!Subject, Data!ConsentStates
  <2> HIDE DEF x
  <2> QED BY <2>1, <2>2
<1>2. ASSUME NEW p \in Purposes \cup {None}, Data!WithdrawConsent(m, s, p)
      PROVE  /\ subjects[m][s] # None
             /\ \E x \in Data!Subject :
                   /\ Data!Update(m, s, x) /\ x.registration = subjects[m][s].registration
                   /\ UNCHANGED <<registrations, raced, erased>>
                   /\ asked' = asked /\ x.requests = subjects[m][s].requests
  <2> DEFINE old == subjects[m][s].consents
             new == [q \in Purposes |->
                        IF p \in {q, None} /\ old[q] # "none" THEN "withdrawn" ELSE old[q]]
             x == [subjects[m][s] EXCEPT !.consents = new]
  <2>1. /\ subjects[m][s] # None /\ Data!Update(m, s, x)
        /\ UNCHANGED <<registrations, asked, raced, erased>>
    BY <1>2 DEF Data!WithdrawConsent
  <2>2. subjects[m][s] \in Data!Subject /\ old \in [Purposes -> Data!ConsentStates]
    BY <1>0, <2>1 DEF Data!Subject
  <2>3. new \in [Purposes -> Data!ConsentStates]
    BY <2>2 DEF Data!ConsentStates
  <2> HIDE DEF new
  <2>4. /\ x \in Data!Subject /\ x.registration = subjects[m][s].registration
        /\ x.requests = subjects[m][s].requests
    BY <2>2, <2>3 DEF Data!Subject
  <2> HIDE DEF x
  <2> QED BY <2>1, <2>4
<1>3. ASSUME Data!RequestRightToBeForgotten(m, s)
      PROVE  /\ subjects[m][s] # None
             /\ \E x \in Data!Subject :
                   /\ Data!Update(m, s, x) /\ x.registration = subjects[m][s].registration
                   /\ UNCHANGED <<registrations, raced, erased>>
                   /\ asked' = asked \cup {subjects[m][s].registration}
  <2> DEFINE x == [subjects[m][s] EXCEPT !.requests = subjects[m][s].requests \cup {now}]
  <2>1. /\ subjects[m][s] # None /\ Data!Update(m, s, x)
        /\ asked' = asked \cup {subjects[m][s].registration}
        /\ UNCHANGED <<registrations, raced, erased>>
    BY <1>3 DEF Data!RequestRightToBeForgotten
  <2>2. x \in Data!Subject /\ x.registration = subjects[m][s].registration
    BY <1>0, <2>1 DEF Data!Subject
  <2> HIDE DEF x
  <2> QED BY <2>1, <2>2
<1> QED BY <1>1, <1>2, <1>3

(* What a use of a registry is, without its bounded choices.               *)
LEMMA Uses ==
    ASSUME UseRegistry
    PROVE  /\ UNCHANGED <<logVars, framework, wrapped, job, past>>
           /\ \E l \in Loggers, s \in Subjects :
                 \/ \E p \in Purposes \cup {None} :
                       Data!RegisterDataSubject(l, s, p, Deleting(l, s))
                 \/ \E p \in Purposes \cup {None} : Data!WithdrawConsent(l, s, p)
                 \/ \E p \in Purposes : Data!RecordConsent(l, s, p)
                 \/ Data!RequestRightToBeForgotten(l, s)
BY DEF UseRegistry

LEMMA DataStep ==
    ASSUME DataInv, now \in 0 .. MaxTime,
           \/ UseRegistry
           \/ \E l \in Loggers : Data!NewManager(l)
           \/ \E l \in Loggers, s \in Subjects : Data!DeleteSubject(l, s)
           \/ /\ subjects' = [l \in Loggers |-> Data!NoSubjects]
              /\ UNCHANGED <<registrations, asked, raced, erased>>
           \/ UNCHANGED dataVars
    PROVE  DataInv'
<1> USE CallsAssumption
<1>0. /\ subjects \in [Loggers -> [Subjects -> Data!Subject \cup {None}]]
      /\ registrations \in 0 .. MaxRegistrations /\ registrations \in Nat
      /\ asked \subseteq 1 .. registrations /\ raced \subseteq 1 .. registrations
      /\ erased \subseteq 1 .. registrations
  BY DEF DataInv, Data!DataTypeOK
<1>1. ASSUME NEW l \in Loggers, NEW s \in Subjects, subjects[l][s] # None
      PROVE  /\ subjects[l][s].registration <= registrations
             /\ subjects[l][s].requests # {} => subjects[l][s].registration \in asked
             /\ subjects[l][s].registration \in 1 .. registrations
  <2>1. subjects[l][s].registration \in 1 .. MaxRegistrations
    BY <1>0, <1>1 DEF Data!Subject
  <2> QED BY <1>0, <1>1, <2>1 DEF DataInv, AskedInv
<1>2. ASSUME NEW m \in Loggers, NEW s \in Subjects, NEW p \in Purposes \cup {None},
             NEW racing \in BOOLEAN, Data!RegisterDataSubject(m, s, p, racing)
      PROVE  DataInv'
  <2>1. PICK x \in Data!Subject :
              /\ Data!Update(m, s, x) /\ x.registration = registrations + 1 /\ x.requests = {}
              /\ registrations' = registrations + 1 /\ registrations' \in 1 .. MaxRegistrations
              /\ asked' = asked /\ erased' = erased
              /\ raced' = raced \cup (IF racing THEN {registrations + 1} ELSE {})
    BY <1>2, Registers
  <2>2. /\ asked' \subseteq 1 .. registrations' /\ erased' \subseteq 1 .. registrations'
        /\ raced' \subseteq 1 .. registrations' /\ registrations <= registrations'
        /\ registrations' \in 0 .. MaxRegistrations /\ registrations' <= registrations'
    BY <1>0, <2>1
  <2> QED BY <2>1, <2>2, UpdateStep
<1>3. ASSUME NEW m \in Loggers, NEW s \in Subjects,
             \/ \E p \in Purposes : Data!RecordConsent(m, s, p)
             \/ \E p \in Purposes \cup {None} : Data!WithdrawConsent(m, s, p)
             \/ Data!RequestRightToBeForgotten(m, s)
      PROVE  DataInv'
  <2>1. PICK x \in Data!Subject :
              /\ subjects[m][s] # None
              /\ Data!Update(m, s, x) /\ x.registration = subjects[m][s].registration
              /\ UNCHANGED <<registrations, raced, erased>>
              /\ \/ asked' = asked /\ x.requests = subjects[m][s].requests
                 \/ asked' = asked \cup {subjects[m][s].registration}
    BY <1>3, Keeps
  <2>2. /\ asked \subseteq asked' /\ asked' \subseteq 1 .. registrations'
        /\ erased' \subseteq 1 .. registrations' /\ raced' \subseteq 1 .. registrations'
        /\ registrations <= registrations' /\ registrations' \in 0 .. MaxRegistrations
    <3>1. subjects[m][s].registration \in 1 .. registrations
      BY <1>1, <2>1
    <3>2. registrations' = registrations /\ raced' = raced /\ erased' = erased
      BY <2>1
    <3>3. asked \subseteq asked' /\ asked' \subseteq 1 .. registrations
      BY <1>0, <2>1, <3>1
    <3> QED BY <1>0, <3>2, <3>3
  <2>3. /\ x.registration <= registrations'
        /\ x.requests # {} => x.registration \in asked'
    BY <1>1, <2>1
  <2> QED BY <2>1, <2>2, <2>3, UpdateStep
<1>4. ASSUME NEW m \in Loggers, NEW s \in Subjects, Data!DeleteSubject(m, s) PROVE DataInv'
  <2>1. /\ subjects[m][s] # None /\ Data!Update(m, s, None)
        /\ erased' = erased \cup {subjects[m][s].registration}
        /\ UNCHANGED <<registrations, asked, raced>>
    BY <1>4 DEF Data!DeleteSubject
  <2>2. erased' \subseteq 1 .. registrations' /\ registrations <= registrations'
    BY <1>0, <1>1, <2>1
  <2> QED BY <1>0, <2>1, <2>2, UpdateStep
<1>5. ASSUME NEW l \in Loggers, Data!NewManager(l) PROVE DataInv'
  <2>1. /\ subjects' = [subjects EXCEPT ![l] = Data!NoSubjects]
        /\ UNCHANGED <<registrations, asked, raced, erased>>
    BY <1>5 DEF Data!NewManager
  <2>2. /\ Data!NoSubjects \in [Subjects -> Data!Subject \cup {None}]
        /\ \A s \in Subjects : Data!NoSubjects[s] = None
    BY DEF Data!NoSubjects
  <2>3. /\ subjects' \in [Loggers -> [Subjects -> Data!Subject \cup {None}]]
        /\ subjects'[l] = Data!NoSubjects
        /\ \A m \in Loggers \ {l} : subjects'[m] = subjects[m]
    BY <1>0, <2>1, <2>2
  <2>4. \A m \in Loggers, s \in Subjects : subjects'[m][s] # None => subjects'[m][s] = subjects[m][s]
    BY <2>2, <2>3
  <2> QED BY <2>1, <2>3, <2>4 DEF DataInv, Data!DataTypeOK, AskedInv
<1>6. CASE /\ subjects' = [l \in Loggers |-> Data!NoSubjects]
           /\ UNCHANGED <<registrations, asked, raced, erased>>
  BY <1>6 DEF Data!NoSubjects, DataInv, Data!DataTypeOK, AskedInv
<1>7. CASE UNCHANGED dataVars
  BY <1>7 DEF dataVars, DataInv, Data!DataTypeOK, AskedInv
<1>8. CASE UseRegistry
  <2>1. \A l \in Loggers, s \in Subjects : Deleting(l, s) \in BOOLEAN
    BY DEF Deleting
  <2> QED BY <1>2, <1>3, <1>8, <2>1, Uses
<1> QED BY <1>4, <1>5, <1>6, <1>7, <1>8

-----------------------------------------------------------------------------
(* A thread is in log_event exactly at the stages that log.                *)
Logs == {"announce", "success", "error"}

Sync ==
    \A c \in Callers :
        /\ job[c] = None => call[c] = Log!Idle
        /\ job[c] # None => (job[c].stage \in Logs <=> call[c] # Log!Idle)

(* What a call works on: only an audited one does more than to run.        *)
HasRequest(k) ==
    /\ k.op = "audited" => k.request \in Data!Requests
    /\ k.op # "plain" => k.logger \in Loggers
    /\ k.stage \in {"delete", "ran", "failed", "success", "error"} => k.op = "audited"

JobShape ==
    /\ framework \in Loggers \cup {None}
    /\ wrapped \in Loggers \cup {None}
    /\ job \in [Callers -> Calls \cup {None}]
    /\ past \subseteq Calls
    /\ Sync
    /\ \A c \in Callers : job[c] # None => HasRequest(job[c])

Shape == LogShape /\ DataInv /\ JobShape

Verdicts == {"returned", "raised", "lost"}

Ended(k, verdict) == [k EXCEPT !.stage = "over", !.verdict = verdict]

LEMMA EndedType ==
    ASSUME NEW k \in Calls, NEW verdict \in Verdicts
    PROVE  /\ Ended(k, verdict) \in Calls
           /\ Ended(k, verdict).stage = "over" /\ Ended(k, verdict).verdict = verdict
           /\ Ended(k, verdict).op = k.op /\ Ended(k, verdict).announced = k.announced
           /\ Ended(k, verdict).succeeded = k.succeeded /\ Ended(k, verdict).failed = k.failed
           /\ Ended(k, verdict).body = k.body /\ Ended(k, verdict).trouble = k.trouble
BY DEF Calls, Ended, Verdicts, Stages

(* A step of the call of one thread.                                       *)
LEMMA ThreadStep ==
    ASSUME Shape, NEW c \in Callers, NEW k \in Calls, HasRequest(k),
           \A d \in Callers \ {c} : call'[d] = call[d],
           UNCHANGED <<framework, wrapped>>,
           \/ Continue(c, k) /\ (k.stage \in Logs <=> call'[c] # Log!Idle)
           \/ /\ \E verdict \in Verdicts : Finish(c, k, verdict)
              /\ call'[c] = Log!Idle
    PROVE  JobShape'
<1> USE CallsAssumption
<1>1. k # None
  OBVIOUS
<1>2. CASE Continue(c, k) /\ (k.stage \in Logs <=> call'[c] # Log!Idle)
  <2>1. /\ job' = [job EXCEPT ![c] = k] /\ past' = past
        /\ job \in [Callers -> Calls \cup {None}]
    BY <1>2 DEF Continue, Shape, JobShape
  <2>2. job'[c] = k /\ \A d \in Callers \ {c} : job'[d] = job[d] /\ call'[d] = call[d]
    BY <2>1
  <2>3. Sync'
    BY <1>1, <1>2, <2>2 DEF Shape, JobShape, Sync
  <2>4. \A d \in Callers : job'[d] # None => HasRequest(job'[d])
    BY <2>2 DEF Shape, JobShape
  <2> QED BY <2>1, <2>3, <2>4 DEF Shape, JobShape, HasRequest
<1>3. ASSUME NEW verdict \in Verdicts, Finish(c, k, verdict), call'[c] = Log!Idle
      PROVE  JobShape'
  <2>1. /\ job' = [job EXCEPT ![c] = None] /\ past' = past \cup {Ended(k, verdict)}
        /\ job \in [Callers -> Calls \cup {None}]
    BY <1>3 DEF Finish, Shape, JobShape, Ended
  <2>2. job'[c] = None /\ \A d \in Callers \ {c} : job'[d] = job[d] /\ call'[d] = call[d]
    BY <2>1
  <2>3. Sync'
    BY <1>3, <2>2 DEF Shape, JobShape, Sync
  <2>4. past' \subseteq Calls
    BY <2>1, EndedType DEF Shape, JobShape
  <2>5. \A d \in Callers : job'[d] # None => HasRequest(job'[d])
    BY <2>2 DEF Shape, JobShape
  <2> QED BY <2>1, <2>3, <2>4, <2>5 DEF Shape, JobShape, HasRequest
<1> QED BY <1>2, <1>3

(* What the steps of a call do, in terms of its record k.                  *)
Begun(k, l) ==
    /\ k.stage = "announce" /\ k.announced = submitted + 1 /\ k.succeeded = 0 /\ k.failed = 0
    /\ k.body = "no" /\ k.verdict = "none" /\ k.logger = l /\ k.trouble = FALSE
    /\ HasRequest(k)

BegunPlain(k) ==
    /\ k.stage = "run" /\ k.announced = 0 /\ k.succeeded = 0 /\ k.failed = 0
    /\ k.op = "plain" /\ k.body = "no" /\ k.verdict = "none" /\ HasRequest(k)

LEMMA Begins ==
    ASSUME Shape, NEW c \in Callers,
           (\E r \in Data!Requests : AuditedCall(c, r)) \/ SecureCreateFeed(c)
    PROVE  /\ job[c] = None /\ UNCHANGED <<dataVars, framework, wrapped>>
           /\ \/ \E l \in Loggers, stable \in BOOLEAN, k \in Calls :
                    Log!LogEvent(c, l, now, stable) /\ Continue(c, k) /\ Begun(k, l)
              \/ \E k \in Calls : UNCHANGED logVars /\ Continue(c, k) /\ BegunPlain(k)
<1>1. ASSUME NEW op \in {"audited", "feed"}, NEW request \in Data!Requests \cup {None},
             NEW l \in Loggers \cup {None}, NEW stable \in BOOLEAN,
             Announce(c, op, request, l, stable), op = "audited" => request \in Data!Requests
      PROVE  /\ job[c] = None /\ UNCHANGED <<dataVars, framework, wrapped>> /\ l \in Loggers
             /\ \E k \in Calls :
                   Log!LogEvent(c, l, now, stable) /\ Continue(c, k) /\ Begun(k, l)
  <2> DEFINE k == NewCall(op, request, l, "announce", submitted + 1)
  <2>1. /\ l \in Loggers /\ job[c] = None /\ Log!LogEvent(c, l, now, stable) /\ Continue(c, k)
        /\ UNCHANGED <<dataVars, framework, wrapped>>
    BY <1>1 DEF Announce, Free
  <2>2. submitted + 1 \in Hashes /\ 0 \in Hashes
    BY <2>1, CallsAssumption DEF Log!LogEvent, Hashes, Shape, LogShape, Log!TypeOK
  <2>3. k \in Calls
    BY <2>1, <2>2 DEF NewCall, Calls, Stages
  <2>4. Begun(k, l)
    BY <1>1, <2>1 DEF NewCall, Begun, HasRequest
  <2> HIDE DEF k
  <2> QED BY <2>1, <2>3, <2>4
<1>2. ASSUME RunUnlogged(c)
      PROVE  /\ job[c] = None /\ UNCHANGED <<dataVars, framework, wrapped>>
             /\ \E k \in Calls : UNCHANGED logVars /\ Continue(c, k) /\ BegunPlain(k)
  <2> DEFINE k == NewCall("plain", None, None, "run", 0)
  <2>1. job[c] = None /\ UNCHANGED <<logVars, dataVars, framework, wrapped>> /\ Continue(c, k)
    BY <1>2 DEF RunUnlogged, Free
  <2>2. k \in Calls
    BY CallsAssumption DEF NewCall, Calls, Stages, Hashes
  <2>3. BegunPlain(k)
    BY DEF NewCall, BegunPlain, HasRequest
  <2> HIDE DEF k
  <2> QED BY <2>1, <2>2, <2>3
<1>3. framework \in Loggers \cup {None} /\ wrapped \in Loggers \cup {None}
  BY DEF Shape, JobShape
<1>4. ASSUME NEW r \in Data!Requests, AuditedCall(c, r)
      PROVE  Announce(c, "audited", r, framework, TRUE) \/ RunUnlogged(c)
  BY <1>4 DEF AuditedCall
<1>5. CASE SecureCreateFeed(c)
  <2>1. (\E stable \in BOOLEAN : Announce(c, "feed", None, wrapped, stable)) \/ RunUnlogged(c)
    BY <1>5 DEF SecureCreateFeed
  <2> QED BY <1>1, <1>2, <1>3, <2>1
<1> QED BY <1>1, <1>2, <1>3, <1>4, <1>5

(* A thread whose log_event is under way.                                  *)
LEMMA Logging ==
    ASSUME Shape, NEW c \in Callers, call[c].op \in {"write", "commit"}
    PROVE  /\ call[c] \in LogCall /\ call[c] # Log!Idle
           /\ job[c] \in Calls /\ job[c] # None /\ job[c].stage \in Logs
<1>1. call[c] # Log!Idle
  BY DEF Log!Idle
<1> QED BY <1>1 DEF Shape, LogShape, JobShape, Sync

(* n is k at another stage, with the same records in the log.              *)
Advanced(n, k, stage) ==
    /\ n \in Calls /\ n.stage = stage /\ n.op = k.op /\ n.request = k.request
    /\ n.logger = k.logger
    /\ n.announced = k.announced /\ n.succeeded = k.succeeded /\ n.failed = k.failed
    /\ n.verdict = k.verdict

LEMMA Logged ==
    ASSUME Shape, NEW c \in Callers, EventIsLogged(c)
    PROVE  /\ call[c].op = "commit" /\ Log!CommitEvent(c)
           /\ UNCHANGED <<dataVars, framework, wrapped>>
           /\ \/ job[c].stage = "announce"
                 /\ \E n \in Calls : /\ Advanced(n, job[c], "run") /\ Continue(c, n)
                                     /\ n.body = job[c].body /\ n.trouble = job[c].trouble
              \/ job[c].stage = "success" /\ Finish(c, job[c], "returned")
              \/ job[c].stage = "error" /\ Finish(c, job[c], "raised")
<1>1. call[c].op = "commit" /\ Log!CommitEvent(c)
  BY DEF EventIsLogged, Log!CommitEvent
<1>2. job[c] \in Calls /\ job[c].stage \in Logs
  BY <1>1, Logging
<1>3. UNCHANGED <<dataVars, framework, wrapped>>
  BY DEF EventIsLogged
<1>4. CASE job[c].stage = "announce"
  <2> DEFINE n == [job[c] EXCEPT !.stage = "run"]
  <2>1. Continue(c, n)
    BY <1>4 DEF EventIsLogged
  <2>2. /\ Advanced(n, job[c], "run") /\ n.body = job[c].body /\ n.trouble = job[c].trouble
        /\ n \in Calls
    BY <1>2 DEF Advanced, Calls, Stages
  <2> HIDE DEF n
  <2> QED BY <1>1, <1>3, <1>4, <2>1, <2>2
<1>5. CASE job[c].stage = "success"
  BY <1>1, <1>3, <1>5 DEF EventIsLogged
<1>6. CASE job[c].stage = "error"
  BY <1>1, <1>3, <1>6 DEF EventIsLogged
<1> QED BY <1>2, <1>4, <1>5, <1>6 DEF Logs

LEMMA NotLogged ==
    ASSUME Shape, NEW c \in Callers, EventIsNotLogged(c)
    PROVE  /\ \/ call[c].op = "write" /\ Log!WriteFails(c)
              \/ call[c].op = "commit" /\ Log!CommitFails(c)
           /\ UNCHANGED <<dataVars, framework, wrapped>>
           /\ \/ job[c].stage = "success"
                 /\ \E n \in Calls : /\ Advanced(n, job[c], "failed") /\ Continue(c, n)
                                     /\ n.body = job[c].body /\ n.trouble
              \/ job[c].stage \in {"announce", "error"}
                 /\ \E n \in Calls : /\ Advanced(n, job[c], job[c].stage) /\ Finish(c, n, "raised")
                                     /\ n.body = job[c].body /\ n.trouble
<1> DEFINE n == [job[c] EXCEPT !.trouble = TRUE]
<1>1. /\ \/ call[c].op = "write" /\ Log!WriteFails(c)
         \/ call[c].op = "commit" /\ Log!CommitFails(c)
      /\ AfterTrouble(c, n)
  BY DEF EventIsNotLogged, Log!WriteFails, Log!CommitFails
<1>2. job[c] \in Calls /\ job[c].stage \in Logs
  BY <1>1, Logging
<1>3. UNCHANGED <<dataVars, framework, wrapped>>
  BY DEF EventIsNotLogged
<1>4. Advanced(n, job[c], job[c].stage) /\ n.body = job[c].body /\ n.trouble
  BY <1>2 DEF Advanced, Calls
<1> HIDE DEF n
<1>5. CASE job[c].stage = "success"
  <2> DEFINE m == [n EXCEPT !.stage = "failed"]
  <2>1. Continue(c, m)
    BY <1>1, <1>4, <1>5 DEF AfterTrouble, Advanced
  <2>2. /\ Advanced(m, job[c], "failed") /\ m.body = job[c].body /\ m.trouble
        /\ m \in Calls
    BY <1>4 DEF Advanced, Calls, Stages
  <2> HIDE DEF m
  <2> QED BY <1>1, <1>3, <1>5, <2>1, <2>2
<1>6. CASE job[c].stage # "success"
  <2>1. Finish(c, n, "raised")
    BY <1>1, <1>4, <1>6 DEF AfterTrouble, Advanced
  <2>2. n \in Calls
    BY <1>4 DEF Advanced
  <2> QED BY <1>1, <1>2, <1>3, <1>4, <1>6, <2>1, <2>2 DEF Logs
<1> QED BY <1>5, <1>6

LEMMA Runs ==
    ASSUME Shape, NEW c \in Callers, FindRequest(c) \/ RunDeletion(c)
    PROVE  /\ job[c] \in Calls /\ job[c] # None /\ job[c].op = "audited"
           /\ job[c].logger \in Loggers /\ job[c].request \in Data!Requests
           /\ UNCHANGED <<logVars, framework, wrapped>>
           /\ \E n \in Calls :
                 /\ Continue(c, n) /\ n.trouble = job[c].trouble
                 /\ \/ /\ job[c].stage = "run" /\ Advanced(n, job[c], "delete")
                       /\ n.body = "begun" /\ UNCHANGED dataVars
                       /\ Data!IsPending(job[c].logger, job[c].request)
                    \/ /\ job[c].stage = "delete" /\ Advanced(n, job[c], "ran")
                       /\ n.body = "done"
                       /\ \/ Data!DeleteSubject(job[c].logger, job[c].request[2])
                          \/ UNCHANGED dataVars
                    \/ /\ job[c].stage \in {"run", "delete"} /\ Advanced(n, job[c], "failed")
                       /\ n.body = "raised" /\ UNCHANGED dataVars
<1>1. /\ job[c] \in Calls /\ job[c] # None /\ job[c].stage \in {"run", "delete"}
      /\ UNCHANGED <<logVars, framework, wrapped>> /\ HasRequest(job[c])
  BY DEF FindRequest, RunDeletion, Shape, JobShape
<1>2. /\ job[c].op = "audited" /\ job[c].logger \in Loggers
      /\ job[c].request \in Data!Requests
  BY <1>1 DEF FindRequest, RunDeletion, HasRequest
<1> DEFINE found == [job[c] EXCEPT !.stage = "delete", !.body = "begun"]
           done == [job[c] EXCEPT !.stage = "ran", !.body = "done"]
           raised == [job[c] EXCEPT !.stage = "failed", !.body = "raised"]
<1>3. /\ Advanced(found, job[c], "delete") /\ found.body = "begun"
      /\ found.trouble = job[c].trouble /\ found \in Calls
  BY <1>1 DEF Advanced, Calls, Stages
<1>4. /\ Advanced(done, job[c], "ran") /\ done.body = "done"
      /\ done.trouble = job[c].trouble /\ done \in Calls
  BY <1>1 DEF Advanced, Calls, Stages
<1>5. /\ Advanced(raised, job[c], "failed") /\ raised.body = "raised"
      /\ raised.trouble = job[c].trouble /\ raised \in Calls
  BY <1>1 DEF Advanced, Calls, Stages
<1>6. CASE FindRequest(c)
  <2>1. /\ job[c].stage = "run" /\ UNCHANGED dataVars
        /\ \/ Data!IsPending(job[c].logger, job[c].request) /\ Continue(c, found)
           \/ Continue(c, raised)
    BY <1>6 DEF FindRequest
  <2> HIDE DEF found, raised
  <2> QED BY <1>1, <1>2, <1>3, <1>5, <2>1
<1>7. CASE RunDeletion(c)
  <2>1. /\ job[c].stage = "delete"
        /\ \/ /\ Data!DeleteSubject(job[c].logger, job[c].request[2])
              /\ Continue(c, done)
           \/ (Continue(c, done) \/ Continue(c, raised)) /\ UNCHANGED dataVars
    BY <1>7 DEF RunDeletion
  <2> HIDE DEF done, raised
  <2> QED BY <1>1, <1>2, <1>4, <1>5, <2>1
<1> QED BY <1>6, <1>7

LEMMA RunsOriginal ==
    ASSUME Shape, NEW c \in Callers, RunOriginal(c)
    PROVE  /\ job[c] \in Calls /\ job[c] # None /\ job[c].stage = "run"
           /\ job[c].op \in {"feed", "plain"}
           /\ UNCHANGED <<logVars, dataVars, framework, wrapped>>
           /\ \E n \in Calls, verdict \in {"returned", "raised"} :
                 /\ Finish(c, n, verdict) /\ Advanced(n, job[c], "run")
                 /\ n.body \in {"done", "raised"}
<1>1. /\ job[c] \in Calls /\ job[c] # None /\ job[c].stage = "run"
      /\ job[c].op \in {"feed", "plain"}
      /\ UNCHANGED <<logVars, dataVars, framework, wrapped>>
  BY DEF RunOriginal, Shape, JobShape
<1>2. ASSUME NEW body \in {"done", "raised"}
      PROVE  LET n == [job[c] EXCEPT !.body = body]
             IN  n \in Calls /\ Advanced(n, job[c], "run") /\ n.body = body
  BY <1>1 DEF Advanced, Calls, Stages
<1>3. CASE Finish(c, [job[c] EXCEPT !.body = "done"], "returned")
  BY <1>1, <1>2, <1>3
<1>4. CASE Finish(c, [job[c] EXCEPT !.body = "raised"], "raised")
  BY <1>1, <1>2, <1>4
<1> QED BY <1>3, <1>4 DEF RunOriginal

LEMMA Concludes ==
    ASSUME Shape, NEW c \in Callers, LogOutcome(c)
    PROVE  /\ job[c] \in Calls /\ job[c] # None
           /\ Log!LogEvent(c, job[c].logger, now, TRUE) /\ job[c].logger \in Loggers
           /\ UNCHANGED <<dataVars, framework, wrapped>>
           /\ \E n \in Calls :
                 /\ Continue(c, n) /\ n.body = job[c].body /\ n.trouble = job[c].trouble
                 /\ n.op = job[c].op /\ n.request = job[c].request
                 /\ n.logger = job[c].logger
                 /\ n.announced = job[c].announced /\ n.verdict = job[c].verdict
                 /\ \/ /\ job[c].stage = "ran" /\ n.stage = "success"
                       /\ n.succeeded = submitted + 1 /\ n.failed = job[c].failed
                    \/ /\ job[c].stage = "failed" /\ n.stage = "error"
                       /\ n.failed = submitted + 1 /\ n.succeeded = job[c].succeeded
<1>1. /\ job[c] \in Calls /\ job[c] # None
      /\ UNCHANGED <<dataVars, framework, wrapped>> /\ Log!LogEvent(c, job[c].logger, now, TRUE)
  BY DEF LogOutcome, Shape, JobShape
<1>2. job[c].logger \in Loggers
  BY <1>1 DEF LogOutcome, Shape, JobShape, HasRequest
<1>3. submitted + 1 \in Hashes
  BY <1>1, CallsAssumption DEF Log!LogEvent, Hashes, Shape, LogShape, Log!TypeOK
<1>4. CASE /\ job[c].stage = "ran"
           /\ Continue(c, [job[c] EXCEPT !.stage = "success", !.succeeded = submitted + 1])
  <2> DEFINE n == [job[c] EXCEPT !.stage = "success", !.succeeded = submitted + 1]
  <2>1. /\ n \in Calls /\ n.body = job[c].body /\ n.trouble = job[c].trouble
        /\ n.op = job[c].op /\ n.request = job[c].request /\ n.logger = job[c].logger
        /\ n.announced = job[c].announced /\ n.verdict = job[c].verdict
        /\ n.stage = "success" /\ n.succeeded = submitted + 1 /\ n.failed = job[c].failed
    BY <1>1, <1>3 DEF Calls, Stages
  <2> HIDE DEF n
  <2> QED BY <1>1, <1>2, <1>4, <2>1 DEF n
<1>5. CASE /\ job[c].stage = "failed"
           /\ Continue(c, [job[c] EXCEPT !.stage = "error", !.failed = submitted + 1])
  <2> DEFINE n == [job[c] EXCEPT !.stage = "error", !.failed = submitted + 1]
  <2>1. /\ n \in Calls /\ n.body = job[c].body /\ n.trouble = job[c].trouble
        /\ n.op = job[c].op /\ n.request = job[c].request /\ n.logger = job[c].logger
        /\ n.announced = job[c].announced /\ n.verdict = job[c].verdict
        /\ n.stage = "error" /\ n.failed = submitted + 1 /\ n.succeeded = job[c].succeeded
    BY <1>1, <1>3 DEF Calls, Stages
  <2> HIDE DEF n
  <2> QED BY <1>1, <1>2, <1>5, <2>1 DEF n
<1> QED BY <1>1, <1>4, <1>5 DEF LogOutcome

-----------------------------------------------------------------------------
(* The steps of the log leave the calls of other threads alone.            *)
LEMMA OtherCalls ==
    ASSUME LogShape, NEW c \in Callers,
           \/ \E l \in Loggers, stable \in BOOLEAN : Log!LogEvent(c, l, now, stable)
           \/ Log!WriteEvent(c) \/ Log!WriteFails(c) \/ Log!CommitEvent(c) \/ Log!CommitFails(c)
    PROVE  /\ \A d \in Callers \ {c} : call'[d] = call[d]
           /\ Log!WriteFails(c) \/ Log!CommitEvent(c) \/ Log!CommitFails(c)
                => call'[c] = Log!Idle
           /\ now' = now
BY DEF LogShape, Log!LogEvent, Log!WriteEvent, Log!WriteFails, Log!CommitEvent, Log!CommitFails

LEMMA BusyAfter ==
    ASSUME LogShape, NEW c \in Callers,
           \/ \E l \in Loggers, stable \in BOOLEAN : Log!LogEvent(c, l, now, stable)
           \/ Log!WriteEvent(c)
    PROVE  call'[c] # Log!Idle
<1>1. ASSUME NEW l \in Loggers, NEW stable \in BOOLEAN, Log!LogEvent(c, l, now, stable)
      PROVE  call'[c] # Log!Idle
  <2>1. call'[c] = [op |-> "write", logger |-> l, event |-> Log!NewEvent(l, now, stable)]
    BY <1>1 DEF LogShape, Log!LogEvent
  <2> QED BY <2>1 DEF Log!Idle
<1>2. CASE Log!WriteEvent(c)
  <2>1. call[c] # Log!Idle
    BY <1>2 DEF Log!WriteEvent, Log!Idle
  <2>2. call[c] \in LogCall
    BY <2>1 DEF LogShape
  <2>3. call'[c] = [call[c] EXCEPT !.op = "commit"]
    BY <1>2 DEF LogShape, Log!WriteEvent
  <2>4. call'[c].op = "commit"
    BY <2>2, <2>3 DEF LogCall
  <2> QED BY <2>4 DEF Log!Idle
<1> QED BY <1>1, <1>2

LEMMA ShapeStep == Shape /\ [Next]_vars => Shape'
<1> SUFFICES ASSUME Shape, [Next]_vars PROVE Shape'
  OBVIOUS
<1> USE CallsAssumption
<1>0. now \in 0 .. MaxTime /\ LogShape /\ DataInv
  BY DEF Shape, LogShape, Log!TypeOK
(* Steps that leave the calls as they are. *)
<1>1. ASSUME UNCHANGED <<call, job, past>>, framework' \in Loggers \cup {None},
             wrapped' \in Loggers \cup {None}
      PROVE  JobShape'
  BY <1>1 DEF Shape, JobShape, Sync
<1>2. ASSUME NEW l \in Loggers, InitializeSecurityFramework(l) PROVE Shape'
  <2>1. LogShape'
    BY <1>0, <1>2, LogStep DEF InitializeSecurityFramework
  <2>2. DataInv'
    BY <1>0, <1>2, DataStep DEF InitializeSecurityFramework
  <2>3. JobShape'
    BY <1>1, <1>2 DEF InitializeSecurityFramework, Log!OpenLogger, Shape, JobShape
  <2> QED BY <2>1, <2>2, <2>3 DEF Shape
<1>3. ASSUME NEW l \in Loggers, ForgetFramework(l) PROVE Shape'
  <2>1. LogShape'
    BY <1>0, <1>3, LogStep DEF ForgetFramework
  <2>2. DataInv'
    BY <1>0, <1>3, DataStep DEF ForgetFramework
  <2>3. JobShape'
    BY <1>1, <1>3 DEF ForgetFramework, Log!DropLogger, Shape, JobShape
  <2> QED BY <2>1, <2>2, <2>3 DEF Shape
<1>4. CASE IntegrateWithBtApi
  <2>1. LogShape'
    BY <1>0, <1>4, LogStep DEF IntegrateWithBtApi
  <2>2. DataInv'
    BY <1>0, <1>4, DataStep DEF IntegrateWithBtApi
  <2>3. JobShape'
    BY <1>1, <1>4 DEF IntegrateWithBtApi, logVars, Shape, JobShape
  <2> QED BY <2>1, <2>2, <2>3 DEF Shape
<1>5. CASE UseRegistry
  <2>0. UNCHANGED <<logVars, framework, wrapped, job, past>>
    BY <1>5 DEF UseRegistry
  <2>1. LogShape'
    BY <1>0, <2>0, LogStep
  <2>2. DataInv'
    BY <1>0, <1>5, DataStep
  <2>3. JobShape'
    BY <1>1, <2>0 DEF logVars, Shape, JobShape
  <2> QED BY <2>1, <2>2, <2>3 DEF Shape
<1>6. CASE Tick
  <2>1. LogShape'
    BY <1>0, <1>6, LogStep DEF Tick
  <2>2. DataInv'
    BY <1>0, <1>6, DataStep DEF Tick
  <2>3. JobShape'
    BY <1>1, <1>6 DEF Tick, Log!Tick, Shape, JobShape
  <2> QED BY <2>1, <2>2, <2>3 DEF Shape
<1>7. CASE Crash
  <2>1. LogShape'
    BY <1>0, <1>7, LogStep DEF Crash
  <2>2. DataInv'
    BY <1>0, <1>7, DataStep DEF Crash
  <2>3. call' = [c \in Callers |-> Log!Idle] /\ job' = [c \in Callers |-> None]
    BY <1>7 DEF Crash, Log!Crash, Log!CrashInWrite
  <2>4. past' \subseteq Calls
    <3>1. past' = past \cup {Ended(job[c], "lost") : c \in Running}
      BY <1>7 DEF Crash, Ended
    <3>2. \A c \in Running : Ended(job[c], "lost") \in Calls
      BY EndedType DEF Running, Shape, JobShape, Verdicts
    <3> QED BY <3>1, <3>2 DEF Shape, JobShape
  <2>5. JobShape'
    BY <1>7, <2>3, <2>4 DEF Crash, JobShape, Sync
  <2> QED BY <2>1, <2>2, <2>5 DEF Shape
<1>8. ASSUME NEW c \in Callers,
             (\E r \in Data!Requests : AuditedCall(c, r)) \/ SecureCreateFeed(c)
      PROVE  Shape'
  <2>1. job[c] = None /\ UNCHANGED <<dataVars, framework, wrapped>>
    BY <1>8, Begins
  <2>2. DataInv'
    BY <1>0, <2>1, DataStep
  <2>3. ASSUME NEW l \in Loggers, NEW stable \in BOOLEAN, NEW k \in Calls,
               Log!LogEvent(c, l, now, stable), Continue(c, k), Begun(k, l)
        PROVE  Shape'
    <3>1. LogShape'
      BY <1>0, <2>3, LogStep
    <3>2. k.stage \in Logs /\ call'[c] # Log!Idle
      BY <1>0, <2>3, BusyAfter DEF Logs, Begun
    <3>3. JobShape'
      BY <1>0, <2>1, <2>3, <3>2, OtherCalls, ThreadStep DEF Begun
    <3> QED BY <2>2, <3>1, <3>3 DEF Shape
  <2>4. ASSUME NEW k \in Calls, UNCHANGED logVars, Continue(c, k), BegunPlain(k) PROVE Shape'
    <3>1. LogShape'
      BY <1>0, <2>4, LogStep
    <3>2. k.stage \notin Logs /\ call'[c] = Log!Idle /\ call' = call
      BY <2>1, <2>4 DEF Logs, BegunPlain, logVars, Shape, JobShape, Sync
    <3>3. JobShape'
      BY <2>1, <2>4, <3>2, ThreadStep DEF BegunPlain
    <3> QED BY <2>2, <3>1, <3>3 DEF Shape
  <2> QED BY <1>8, <2>3, <2>4, Begins
<1>9. ASSUME NEW c \in Callers, WriteEvent(c) PROVE Shape'
  <2>1. LogShape' /\ DataInv'
    BY <1>0, <1>9, LogStep, DataStep DEF WriteEvent
  <2>2. call'[c] # Log!Idle /\ call[c] # Log!Idle
    BY <1>0, <1>9, BusyAfter DEF WriteEvent, Log!WriteEvent, Log!Idle
  <2>3. \A d \in Callers \ {c} : call'[d] = call[d]
    BY <1>0, <1>9, OtherCalls DEF WriteEvent
  <2>4. JobShape'
    BY <1>9, <2>2, <2>3 DEF WriteEvent, Shape, JobShape, Sync
  <2> QED BY <2>1, <2>4 DEF Shape
<1>10. ASSUME NEW c \in Callers, EventIsLogged(c) PROVE Shape'
  <2>1. /\ Log!CommitEvent(c) /\ call[c].op = "commit"
        /\ UNCHANGED <<dataVars, framework, wrapped>>
    BY <1>10, Logged
  <2>2. LogShape' /\ DataInv'
    BY <1>0, <2>1, LogStep, DataStep
  <2>3. call'[c] = Log!Idle /\ \A d \in Callers \ {c} : call'[d] = call[d]
    BY <1>0, <2>1, OtherCalls
  <2>4. job[c] \in Calls /\ HasRequest(job[c])
    BY <2>1, Logging DEF Shape, JobShape
  <2>5. CASE \E n \in Calls : Advanced(n, job[c], "run") /\ Continue(c, n)
    <3>1. PICK n \in Calls : Advanced(n, job[c], "run") /\ Continue(c, n)
      BY <2>5
    <3>2. HasRequest(n) /\ n.stage \notin Logs
      BY <2>4, <3>1 DEF Advanced, HasRequest, Logs
    <3> QED BY <2>1, <2>2, <2>3, <3>1, <3>2, ThreadStep DEF Shape
  <2>6. CASE Finish(c, job[c], "returned") \/ Finish(c, job[c], "raised")
    BY <2>1, <2>2, <2>3, <2>4, <2>6, ThreadStep DEF Shape, Verdicts
  <2> QED BY <1>10, <2>5, <2>6, Logged
<1>11. ASSUME NEW c \in Callers, EventIsNotLogged(c) PROVE Shape'
  <2>1. /\ Log!WriteFails(c) \/ Log!CommitFails(c)
        /\ call[c].op \in {"write", "commit"}
        /\ UNCHANGED <<dataVars, framework, wrapped>>
    BY <1>11, NotLogged
  <2>2. LogShape' /\ DataInv'
    BY <1>0, <2>1, LogStep, DataStep
  <2>3. call'[c] = Log!Idle /\ \A d \in Callers \ {c} : call'[d] = call[d]
    BY <1>0, <2>1, OtherCalls
  <2>4. job[c] \in Calls /\ HasRequest(job[c])
    BY <2>1, Logging DEF Shape, JobShape
  <2>5. PICK n \in Calls :
           \/ /\ Advanced(n, job[c], "failed") /\ Continue(c, n)
              /\ job[c].stage = "success"
           \/ Advanced(n, job[c], job[c].stage) /\ Finish(c, n, "raised")
    BY <1>11, NotLogged
  <2>6. HasRequest(n) /\ (Advanced(n, job[c], "failed") => n.stage \notin Logs)
    BY <2>4, <2>5 DEF Advanced, HasRequest, Logs
  <2> QED BY <2>1, <2>2, <2>3, <2>5, <2>6, ThreadStep DEF Shape, Verdicts
<1>12. ASSUME NEW c \in Callers, FindRequest(c) \/ RunDeletion(c) PROVE Shape'
  <2>1. PICK n \in Calls :
           /\ Continue(c, n)
           /\ \E stage \in {"delete", "ran", "failed"} : Advanced(n, job[c], stage)
           /\ \/ UNCHANGED dataVars
              \/ Data!DeleteSubject(job[c].logger, job[c].request[2])
    BY <1>12, Runs
  <2>2. /\ UNCHANGED <<logVars, framework, wrapped>> /\ job[c].op = "audited"
        /\ job[c] \in Calls /\ job[c] # None /\ job[c].stage \in {"run", "delete"}
        /\ job[c].logger \in Loggers /\ job[c].request \in Data!Requests
    BY <1>12, Runs
  <2>3. LogShape' /\ DataInv'
    <3>1. job[c].request[2] \in Subjects
      BY <2>2 DEF Data!Requests
    <3> QED BY <1>0, <2>1, <2>2, <3>1, LogStep, DataStep
  <2>4. call'[c] = Log!Idle /\ call' = call
    BY <2>2 DEF logVars, Shape, JobShape, Sync, Logs
  <2>5. HasRequest(n) /\ n.stage \notin Logs
    BY <2>1, <2>2 DEF Advanced, HasRequest, Logs
  <2> QED BY <2>1, <2>2, <2>3, <2>4, <2>5, ThreadStep DEF Shape
<1>13. ASSUME NEW c \in Callers, RunOriginal(c) PROVE Shape'
  <2>1. PICK n \in Calls, verdict \in {"returned", "raised"} :
           Finish(c, n, verdict) /\ Advanced(n, job[c], "run")
    BY <1>13, RunsOriginal
  <2>2. /\ UNCHANGED <<logVars, dataVars, framework, wrapped>>
        /\ job[c] \in Calls /\ job[c] # None /\ job[c].stage = "run"
    BY <1>13, RunsOriginal
  <2>3. LogShape' /\ DataInv'
    BY <1>0, <2>2, LogStep, DataStep
  <2>4. call'[c] = Log!Idle /\ call' = call
    BY <2>2 DEF logVars, Shape, JobShape, Sync, Logs
  <2>5. HasRequest(n)
    BY <2>1, <2>2 DEF Advanced, HasRequest, Shape, JobShape
  <2> QED BY <2>1, <2>2, <2>3, <2>4, <2>5, ThreadStep DEF Shape, Verdicts
<1>14. ASSUME NEW c \in Callers, LogOutcome(c) PROVE Shape'
  <2>0. PICK n \in Calls :
           /\ Continue(c, n) /\ n.body = job[c].body /\ n.trouble = job[c].trouble
           /\ n.op = job[c].op /\ n.request = job[c].request
           /\ n.logger = job[c].logger
           /\ n.announced = job[c].announced /\ n.verdict = job[c].verdict
           /\ \/ /\ job[c].stage = "ran" /\ n.stage = "success"
                 /\ n.succeeded = submitted + 1 /\ n.failed = job[c].failed
              \/ /\ job[c].stage = "failed" /\ n.stage = "error"
                 /\ n.failed = submitted + 1 /\ n.succeeded = job[c].succeeded
    BY <1>14, Concludes, Zenon
  <2>1. /\ Continue(c, n) /\ n.op = job[c].op /\ n.request = job[c].request
        /\ n.logger = job[c].logger
        /\ \/ job[c].stage = "ran" /\ n.stage = "success"
           \/ job[c].stage = "failed" /\ n.stage = "error"
    BY <2>0
  <2>2. PICK l \in Loggers : Log!LogEvent(c, l, now, TRUE)
    BY <1>14, Concludes
  <2>3. UNCHANGED <<dataVars, framework, wrapped>> /\ job[c] \in Calls /\ job[c] # None
    BY <1>14, Concludes
  <2>4. LogShape' /\ DataInv'
    BY <1>0, <2>2, <2>3, LogStep, DataStep
  <2>5. call'[c] # Log!Idle /\ \A d \in Callers \ {c} : call'[d] = call[d]
    BY <1>0, <2>2, BusyAfter, OtherCalls
  <2>6. HasRequest(n) /\ n.stage \in Logs
    BY <2>1, <2>3 DEF HasRequest, Logs, Shape, JobShape
  <2> QED BY <2>1, <2>3, <2>4, <2>5, <2>6, ThreadStep DEF Shape
<1>15. CASE UNCHANGED vars
  <2>1. UNCHANGED <<logVars, dataVars, framework, wrapped, job, past>>
    BY <1>15 DEF vars
  <2>2. LogShape' /\ DataInv'
    BY <1>0, <2>1, LogStep, DataStep
  <2>3. JobShape'
    BY <1>1, <2>1 DEF logVars, Shape, JobShape
  <2> QED BY <2>2, <2>3 DEF Shape
<1> QED
  BY <1>2, <1>3, <1>4, <1>5, <1>6, <1>7, <1>8, <1>9, <1>10, <1>11, <1>12, <1>13, <1>14, <1>15
  DEF Next, Proceed

LEMMA ShapeInit == Init => Shape
<1> SUFFICES ASSUME Init PROVE Shape
  OBVIOUS
<1> USE CallsAssumption
<1>1. /\ now = 0 /\ log = <<>> /\ end = "newline" /\ last = [l \in Loggers |-> Log!Closed]
      /\ call = [c \in Callers |-> Log!Idle] /\ submitted = 0 /\ acked = {} /\ torn = 0
      /\ clean = <<>> /\ stray = {} /\ late = FALSE /\ overlap = {}
  BY DEF Init, Log!Init
<1>2. LogShape
  <2>1. 0 \in 0 .. MaxTime /\ 0 \in 0 .. 3 * MaxCalls /\ torn \in Nat
    BY <1>1
  <2>2. <<>> \in Seq(Log!Event \cup {Log!Garbage})
    OBVIOUS
  <2>3. last \in [Loggers -> Log!Hashes \cup {Log!Closed}]
    BY <1>1
  <2>4. \A c \in Callers : call[c] = Log!Idle
    BY <1>1
  <2>5. call \in [Callers -> LogCall \cup {Log!Idle}]
    BY <1>1
  <2>6. Log!TypeOK
    BY <1>1, <2>1, <2>2, <2>3, <2>4 DEF Log!TypeOK, Log!Line, Log!Call
  <2> QED BY <2>5, <2>6 DEF LogShape
<1>3. DataInv
  BY DEF Init, Data!DataInit, Data!NoSubjects, DataInv, Data!DataTypeOK, AskedInv
<1>4. JobShape
  BY <1>1 DEF Init, JobShape, Sync
<1> QED BY <1>2, <1>3, <1>4 DEF Shape

LEMMA ShapeAlways == Spec => []Shape
BY ShapeInit, ShapeStep, PTL DEF Spec

(* Every reachable state of the framework, its log and its registry has    *)
(* its type, and a thread is in log_event exactly at the stages that log.  *)
THEOREM AuditedCallsTypeCorrect == Spec => []TypeOK
<1>1. Shape => TypeOK
  BY DEF Shape, LogShape, DataInv, JobShape, Sync, Logs, TypeOK, Running
<1> QED BY <1>1, ShapeAlways, PTL

-----------------------------------------------------------------------------
(* The trail.  The records that can be read are firm, or the last line is  *)
(* one without its newline: the next append destroys that one.             *)

Firm == {h \in 1 .. 3 * MaxCalls :
           \E i \in DOMAIN log : log[i].hash = h /\ (i < Len(log) \/ end = "newline")}
Loose == {h \in 1 .. 3 * MaxCalls :
            \E i \in DOMAIN log : log[i].hash = h /\ i = Len(log) /\ end # "newline"}

(* A line that does not parse is there, and verification reports it.       *)
Spoiled == \E i \in DOMAIN log : log[i].hash = 0

(* What a step does to them: nothing, or an append that finishes or does   *)
(* not.                                                                    *)
Kept == UNCHANGED <<log, end, torn>>
Added(h) ==
    /\ torn' = torn /\ end' = "newline"
    /\ Firm \subseteq Firm' /\ Firm' \subseteq Firm \cup {h} /\ Loose' = {}
    /\ end = "newline" => h \in Firm'
    /\ Spoiled \/ (end # "newline" /\ log # <<>>) => Spoiled'
Torn(h) ==
    /\ torn' = torn + 1 /\ end' # "newline" /\ Firm' = Firm /\ Loose' \subseteq {h}
    /\ Spoiled => Spoiled'
    /\ (end # "newline" => log # <<>>) => log' # <<>>

LEMMA ReadableIsFirmOrLoose ==
    ASSUME LogShape
    PROVE  Readable = Firm \cup Loose
<1>1. /\ log \in Seq(Log!Event \cup {Log!Garbage}) /\ Len(log) \in Nat
      /\ DOMAIN log = 1 .. Len(log)
  BY DEF LogShape, Log!TypeOK, Log!Line
<1>2. \A i \in DOMAIN log : log[i] \in Log!Event \cup {Log!Garbage}
  BY <1>1
<1>3. /\ \A e \in Log!Event : e.hash \in 1 .. 3 * MaxCalls
      /\ Log!Garbage.hash = 0
  BY DEF Log!Event, Log!Garbage, Log!NoHash
<1>4. \A i \in DOMAIN log : log[i].hash \in 1 .. 3 * MaxCalls \/ log[i].hash = 0
  BY <1>2, <1>3
<1>5. Readable = {e.hash : e \in {log[i] : i \in {i \in DOMAIN log : log[i].hash # 0}}}
  BY DEF Readable, Log!EventsIn, Log!Range, Log!IsEvent, Log!NoHash
<1>6. \A i \in DOMAIN log : i < Len(log) \/ i = Len(log)
  BY <1>1
<1>7. \A h : h \in Readable <=> h # 0 /\ \E i \in DOMAIN log : log[i].hash = h
  BY <1>5
<1>8. \A h \in 1 .. 3 * MaxCalls : h # 0
  OBVIOUS
<1>9. \A h : h \in Firm \cup Loose <=>
                h \in 1 .. 3 * MaxCalls /\ \E i \in DOMAIN log : log[i].hash = h
  BY <1>6 DEF Firm, Loose
<1> QED BY <1>4, <1>7, <1>8, <1>9

(* A line without a newline is glued to what comes next.                   *)
LEMMA AppendEffect ==
    ASSUME LogShape, NEW line \in Log!Event \cup {Log!Garbage}, log' = Log!AppendLine(line)
    PROVE  /\ end' = "newline" =>
                 /\ Firm \subseteq Firm' /\ Firm' \subseteq Firm \cup {line.hash} /\ Loose' = {}
                 /\ end = "newline" /\ line.hash # 0 => line.hash \in Firm'
           /\ end' # "newline" => Firm' = Firm /\ Loose' \subseteq {line.hash}
<1>1. /\ log \in Seq(Log!Event \cup {Log!Garbage}) /\ Len(log) \in Nat
      /\ DOMAIN log = 1 .. Len(log)
  BY DEF LogShape, Log!TypeOK, Log!Line
<1>2. line.hash \in 1 .. 3 * MaxCalls \/ line.hash = 0
  BY DEF Log!Event, Log!Garbage, Log!NoHash
<1>3. \A h \in 1 .. 3 * MaxCalls : h # 0
  OBVIOUS
<1>6. Len(log) \in Nat
  BY <1>1
<1>4. CASE end = "newline"
  <2>1. log' = Append(log, line)
    BY <1>4 DEF Log!AppendLine
  <2>2. /\ Len(log') = Len(log) + 1 /\ DOMAIN log' = 1 .. Len(log) + 1
        /\ log'[Len(log) + 1] = line
        /\ \A i \in 1 .. Len(log) : log'[i] = log[i]
    BY <1>1, <2>1, AppendProperties
  <2>3. \A h : h \in Firm <=> h \in 1 .. 3 * MaxCalls /\ \E i \in 1 .. Len(log) : log[i].hash = h
    BY <1>1, <1>4 DEF Firm
  <2>4. \A i : i \in DOMAIN log' <=> i \in 1 .. Len(log) \/ i = Len(log) + 1
    BY <1>1, <2>2
  <2>5. \A h : (\E i \in DOMAIN log' : log'[i].hash = h)
                  <=> (\E i \in 1 .. Len(log) : log[i].hash = h) \/ line.hash = h
    BY <2>2, <2>4
  <2>6. \A h : (\E i \in DOMAIN log' : log'[i].hash = h /\ i < Len(log'))
                  <=> (\E i \in 1 .. Len(log) : log[i].hash = h)
    BY <1>1, <2>2, <2>4
  <2>7. \A h : (\E i \in DOMAIN log' : log'[i].hash = h /\ i = Len(log')) <=> line.hash = h
    BY <1>1, <2>2, <2>4
  <2>8. CASE end' = "newline"
    <3>1. \A h : h \in Firm' <=> h \in 1 .. 3 * MaxCalls /\ \E i \in DOMAIN log' : log'[i].hash = h
      BY <2>8 DEF Firm
    <3>2. Loose' = {}
      BY <2>8 DEF Loose
    <3> QED BY <1>2, <2>3, <2>5, <2>8, <3>1, <3>2
  <2>9. CASE end' # "newline"
    <3>1. \A h : h \in Firm' <=> h \in 1 .. 3 * MaxCalls
                                   /\ \E i \in DOMAIN log' : log'[i].hash = h /\ i < Len(log')
      BY <2>9 DEF Firm
    <3>2. Loose' \subseteq {line.hash}
      BY <2>7 DEF Loose
    <3>3. Firm' = Firm
      BY <2>3, <2>6, <3>1
    <3> QED BY <2>9, <3>2, <3>3
  <2> QED BY <2>8, <2>9
<1>5. CASE end # "newline"
  <2>1. log' = [log EXCEPT ![Len(log)] = Log!Garbage]
    BY <1>5 DEF Log!AppendLine
  <2>2. /\ DOMAIN log' = 1 .. Len(log) /\ Len(log') = Len(log)
        /\ \A i \in 1 .. Len(log) : log'[i] = IF i = Len(log) THEN Log!Garbage ELSE log[i]
    BY <1>1, <2>1
  <2>3. Log!Garbage.hash = 0
    BY DEF Log!Garbage, Log!NoHash
  <2>4. \A h : h \in Firm <=> h \in 1 .. 3 * MaxCalls
                                /\ \E i \in 1 .. Len(log) : log[i].hash = h /\ i < Len(log)
    BY <1>1, <1>5 DEF Firm
  <2>5. Loose' = {}
    BY <1>3, <2>2, <2>3 DEF Loose
  <2>6. ASSUME NEW h \in 1 .. 3 * MaxCalls, NEW i \in 1 .. Len(log)
        PROVE  log'[i].hash = h <=> log[i].hash = h /\ i < Len(log)
    <3>1. i \in Nat /\ i <= Len(log) /\ h # 0
      BY <1>1, <1>3
    <3>2. CASE i = Len(log)
      <4>1. log'[i] = Log!Garbage
        BY <2>2, <3>2
      <4> QED BY <2>3, <3>1, <3>2, <4>1
    <3>3. CASE i # Len(log)
      <4>1. log'[i] = log[i]
        BY <2>2, <3>3
      <4>2. i < Len(log)
        BY <1>6, <3>1, <3>3
      <4> QED BY <4>1, <4>2
    <3> QED BY <3>2, <3>3
  <2>7. Firm' = Firm
    <3>1. \A h : h \in Firm' => h \in Firm
      BY <2>2, <2>4, <2>6 DEF Firm
    <3>2. \A h : h \in Firm => h \in Firm'
      BY <2>2, <2>4, <2>6 DEF Firm
    <3> QED BY <3>1, <3>2
  <2> QED BY <1>5, <2>5, <2>7
<1> QED BY <1>4, <1>5

LEMMA AppendSpoils ==
    ASSUME LogShape, NEW line \in Log!Event \cup {Log!Garbage}, log' = Log!AppendLine(line)
    PROVE  /\ Spoiled \/ (end # "newline" /\ log # <<>>) => Spoiled'
           /\ (end # "newline" => log # <<>>) => log' # <<>>
<1>1. /\ log \in Seq(Log!Event \cup {Log!Garbage}) /\ Len(log) \in Nat
      /\ DOMAIN log = 1 .. Len(log)
  BY DEF LogShape, Log!TypeOK, Log!Line
<1>2. Log!Garbage.hash = 0
  BY DEF Log!Garbage, Log!NoHash
<1>3. CASE end = "newline"
  <2>1. log' = Append(log, line)
    BY <1>3 DEF Log!AppendLine
  <2>2. /\ Len(log') = Len(log) + 1 /\ DOMAIN log' = 1 .. Len(log) + 1
        /\ \A i \in 1 .. Len(log) : log'[i] = log[i] /\ i \in 1 .. Len(log) + 1
    BY <1>1, <2>1, AppendProperties
  <2>3. log' # <<>>
    BY <1>1, <2>2
  <2> QED BY <1>1, <1>3, <2>2, <2>3 DEF Spoiled
<1>4. CASE end # "newline"
  <2>1. log' = [log EXCEPT ![Len(log)] = Log!Garbage]
    BY <1>4 DEF Log!AppendLine
  <2>2. /\ DOMAIN log' = 1 .. Len(log)
        /\ \A i \in 1 .. Len(log) : log'[i] = IF i = Len(log) THEN Log!Garbage ELSE log[i]
    BY <1>1, <2>1
  <2>3. CASE log # <<>>
    <3>1. Len(log) \in 1 .. Len(log)
      BY <1>1, <2>3
    <3>2. Spoiled'
      BY <1>2, <2>2, <3>1 DEF Spoiled
    <3>3. log' # <<>>
      BY <2>2, <3>1
    <3> QED BY <3>2, <3>3
  <2>4. CASE log = <<>>
    <3>1. ~Spoiled
      BY <2>4 DEF Spoiled
    <3> QED BY <1>4, <2>4, <3>1
  <2> QED BY <2>3, <2>4
<1> QED BY <1>3, <1>4

LEMMA WriteEffect ==
    ASSUME LogShape, NEW c \in Callers, Log!WriteEvent(c)
    PROVE  Added(call[c].event.hash)
<1>1. call[c].op = "write" /\ call[c] # Log!Idle
  BY DEF Log!WriteEvent, Log!Idle
<1>2. call[c] \in LogCall /\ call[c].event \in Log!Event /\ call[c].event.hash # 0
  BY <1>1 DEF LogShape, LogCall, Log!Event
<1>3. log' = Log!AppendLine(call[c].event) /\ end' = "newline" /\ torn' = torn
  BY DEF Log!WriteEvent
<1> QED BY <1>2, <1>3, AppendEffect, AppendSpoils DEF Added

LEMMA PartEffect ==
    ASSUME LogShape, NEW c \in Callers, Log!WriteFails(c) \/ Log!CrashInWrite(c)
    PROVE  Kept \/ Torn(call[c].event.hash)
<1>1. call[c].op = "write" /\ call[c] # Log!Idle /\ Log!LeavePart(c)
  BY DEF Log!WriteFails, Log!CrashInWrite, Log!Idle
<1>2. call[c] \in LogCall /\ call[c].event \in Log!Event
  BY <1>1 DEF LogShape, LogCall
<1>3. CASE UNCHANGED <<log, end, torn>>
  BY <1>3 DEF Kept
<1>4. ASSUME NEW part \in {"partial", "complete"},
             log' = Log!AppendLine(IF part = "partial" THEN Log!Garbage ELSE call[c].event),
             end' = part, torn' = torn + 1
      PROVE  Torn(call[c].event.hash)
  <2> DEFINE line == IF part = "partial" THEN Log!Garbage ELSE call[c].event
  <2>1. line \in Log!Event \cup {Log!Garbage} /\ log' = Log!AppendLine(line)
    BY <1>2, <1>4
  <2>2. end' # "newline"
    BY <1>4
  <2>3. line.hash = 0 \/ line.hash = call[c].event.hash
    BY DEF Log!Garbage, Log!NoHash
  <2> HIDE DEF line
  <2>4. Firm' = Firm /\ Loose' \subseteq {line.hash}
    BY <2>1, <2>2, AppendEffect
  <2>5. 0 \notin Loose'
    BY DEF Loose
  <2>6. (Spoiled => Spoiled') /\ ((end # "newline" => log # <<>>) => log' # <<>>)
    BY <2>1, AppendSpoils
  <2> QED BY <1>4, <2>2, <2>3, <2>4, <2>5, <2>6 DEF Torn
<1> QED BY <1>1, <1>3, <1>4 DEF Log!LeavePart

LEMMA KeptEffect ==
    ASSUME Kept
    PROVE  Firm' = Firm /\ Loose' = Loose /\ end' = end /\ torn' = torn
BY DEF Kept, Firm, Loose

(* What a call of stage and outcome k owes to the log, and all that was    *)
(* written for good: what is owed, and what is about to be.                *)
Covers(k, h) ==
    \/ k.op # "plain" /\ (k.body # "no" \/ k.stage = "run") /\ h = k.announced
    \/ k.op = "audited" /\ k.verdict = "returned" /\ h = k.succeeded

Written ==
    {h \in Hashes :
        \/ \E k \in AllCalls : Covers(k, h)
        \/ \E c \in Callers : call[c].op = "commit" /\ h = call[c].event.hash}

(* The record of a call at each stage, when n events were submitted.       *)
WellFormed(k, n) ==
    /\ k.announced \in 0 .. n /\ k.succeeded \in 0 .. n /\ k.failed \in 0 .. n
    /\ k.op # "plain" => k.announced # 0
    /\ k.stage # "over" => k.verdict = "none"
    /\ k.stage \in {"announce", "run"} => k.body = "no"
    /\ k.stage \in {"announce", "run", "delete"} => k.succeeded = 0 /\ k.failed = 0
    /\ k.stage = "delete" => k.body = "begun"
    /\ k.stage \in {"ran", "success"} => k.body = "done" /\ k.failed = 0
    /\ k.stage = "ran" => k.succeeded = 0
    /\ k.stage = "success" => k.succeeded # 0
    /\ k.stage = "failed" => k.failed = 0 /\ (k.body = "raised" \/ k.trouble)
    /\ k.stage = "error" => k.failed # 0
    /\ k.succeeded # 0 => k.body = "done" /\ k.failed # k.succeeded
    /\ k.failed # 0 => k.body = "raised" \/ k.trouble
    /\ k.op = "audited" /\ k.verdict = "returned" => k.succeeded # 0

CallsInv == \A k \in AllCalls : WellFormed(k, submitted)

(* The event that a thread in log_event is logging.                        *)
Current(k) ==
    IF k.stage = "announce" THEN k.announced
    ELSE IF k.stage = "success" THEN k.succeeded ELSE k.failed
Busy(c) == call[c].op \in {"write", "commit"}

EventsInv ==
    /\ \A c \in Callers : Busy(c) =>
          call[c].event.hash = Current(job[c]) /\ call[c].event.hash \in 1 .. submitted
    /\ \A c, d \in Callers : c # d /\ Busy(c) /\ Busy(d) =>
          call[c].event.hash # call[d].event.hash

(* Each torn append costs one record, or will: the one that is glued to    *)
(* it, and then the line of the two shows it.                              *)
TrailInv ==
    /\ Written \cup Firm \cup Loose \subseteq 1 .. submitted
    /\ Written \cap Loose = {}
    /\ \A c \in Callers :
          call[c].op = "write" => call[c].event.hash \notin Written \cup Firm \cup Loose
    /\ Cardinality(Written \ Firm) + (IF end = "newline" THEN 0 ELSE 1) <= torn
    /\ end # "newline" => log # <<>>
    /\ ~(Written \subseteq Firm) => Spoiled

(* A "success" that could not be logged, and is not a stray line, is not   *)
(* in the log, or it is what the next append destroys; and nobody is about *)
(* to log it.                                                              *)
Botched(k) == k.succeeded # 0 /\ (k.failed # 0 \/ k.stage = "failed")

BotchedInv ==
    \A k \in AllCalls : Botched(k) /\ k.succeeded \notin stray =>
        /\ k.succeeded \notin Firm
        /\ k.succeeded \in Loose => k.failed \notin Firm
        /\ \A c \in Callers : call[c].op = "write" => call[c].event.hash # k.succeeded

TruthInv == CallsInv /\ EventsInv /\ TrailInv /\ BotchedInv

LEMMA TruthImplies ==
    ASSUME Shape, TruthInv
    PROVE  TrailIsComplete /\ VerifiedTrailIsComplete /\ OutcomesAreTrue
<1> USE CallsAssumption
<1>1. LogShape /\ submitted \in Nat
  BY DEF Shape, LogShape, Log!TypeOK
<1>2. Readable = Firm \cup Loose
  BY <1>1, ReadableIsFirmOrLoose
<1>3. AllCalls \subseteq Calls
  BY DEF AllCalls, Running, Shape, JobShape
<1>4. \A k \in AllCalls : WellFormed(k, submitted)
  BY DEF TruthInv, CallsInv
<1>5. 0 \notin Readable
  BY <1>2 DEF Firm, Loose
<1>6. \A h \in Loose, g \in Loose : h = g
  BY DEF Loose
<1>10. Owed \subseteq Written
  <2>1. \A k \in AllCalls : k.announced \in Hashes /\ k.succeeded \in Hashes
    BY <1>3 DEF Calls
  <2> QED BY <2>1 DEF Owed, Written, Covers
<1>7. TrailIsComplete
  <2>2. Owed \ Readable \subseteq Written \ Firm
    BY <1>2, <1>10
  <2>3. IsFiniteSet(Written \ Firm)
    <3>1. IsFiniteSet(1 .. submitted)
      BY <1>1, FS_Interval
    <3>2. Written \ Firm \subseteq 1 .. submitted
      BY DEF TruthInv, TrailInv
    <3> QED BY <3>1, <3>2, FS_Subset
  <2>4. /\ Cardinality(Owed \ Readable) <= Cardinality(Written \ Firm)
        /\ Cardinality(Owed \ Readable) \in Nat /\ Cardinality(Written \ Firm) \in Nat
    BY <2>2, <2>3, FS_Subset, FS_CardinalityType
  <2>5. torn \in Nat
    BY <1>1 DEF LogShape, Log!TypeOK, Log!Line
  <2>6. Cardinality(Written \ Firm) <= torn
    BY <2>4, <2>5 DEF TruthInv, TrailInv
  <2> QED BY <2>4, <2>5, <2>6 DEF TrailIsComplete
<1>8. ASSUME NEW k \in AllCalls
      PROVE  /\ k.succeeded \in Readable => k.body = "done"
             /\ k.failed \in Readable => k.body = "raised" \/ k.trouble
             /\ {k.succeeded, k.failed} \subseteq Readable => k.succeeded \in stray
  <2>1. WellFormed(k, submitted)
    BY <1>4
  <2>2. k.succeeded \in Readable => k.succeeded # 0
    BY <1>5
  <2>3. k.failed \in Readable => k.failed # 0
    BY <1>5
  <2>4. ASSUME k.succeeded \in Readable, k.failed \in Readable, k.succeeded \notin stray
        PROVE  FALSE
    <3>1. k.succeeded # 0 /\ k.failed # 0 /\ k.failed # k.succeeded
      BY <2>1, <2>2, <2>3, <2>4 DEF WellFormed
    <3>2. k.succeeded \notin Firm /\ (k.succeeded \in Loose => k.failed \notin Firm)
      BY <2>4, <3>1 DEF TruthInv, BotchedInv, Botched
    <3> QED BY <1>2, <1>6, <2>4, <3>1, <3>2
  <2> QED BY <2>1, <2>2, <2>3, <2>4 DEF WellFormed
<1>9. VerifiedTrailIsComplete
  <2> SUFFICES ASSUME Log!Violations(log) = {} PROVE Owed \subseteq Readable
    BY DEF VerifiedTrailIsComplete
  <2>1. ~Spoiled
    BY DEF Spoiled, Log!Violations, Log!IsEvent, Log!NoHash
  <2>2. Written \subseteq Firm
    BY <2>1 DEF TruthInv, TrailInv
  <2> QED BY <1>2, <1>10, <2>2
<1> QED BY <1>7, <1>8, <1>9 DEF OutcomesAreTrue

(* How the invariants survive a step, from what it does to the file, to    *)
(* the threads that write and to what was written.                         *)
StillWriting(h) ==
    \A c \in Callers : call'[c].op = "write" =>
        \/ call'[c].event.hash > submitted
        \/ /\ call[c].op = "write" /\ call'[c].event.hash = call[c].event.hash
           /\ Kept \/ call[c].event.hash # h

FileMoves(h) ==
    \/ Kept /\ Written' \subseteq Written
    \/ Torn(h) /\ Written' \subseteq Written /\ h \in 1 .. submitted /\ h \notin Written
    \/ Added(h) /\ Written' \subseteq Written \cup {h} /\ h \in 1 .. submitted

LEMMA TrailKeeps ==
    ASSUME Shape, Shape', TrailInv, NEW h, FileMoves(h), StillWriting(h), submitted <= submitted'
    PROVE  TrailInv'
<1>1. submitted \in Nat /\ submitted' \in Nat /\ torn \in Nat
  BY DEF Shape, LogShape, Log!TypeOK
<1>2. 1 .. submitted \subseteq 1 .. submitted'
  BY <1>1
<1>3. Kept => Firm' = Firm /\ Loose' = Loose /\ end' = end /\ torn' = torn
  BY KeptEffect
<1>4. (Written \cup Firm \cup Loose)' \subseteq 1 .. submitted
  BY <1>3 DEF FileMoves, TrailInv, Torn, Added
<1>5. (Written \cap Loose = {})'
  BY <1>3 DEF FileMoves, TrailInv, Torn, Added
<1>6. ASSUME NEW c \in Callers, call'[c].op = "write"
      PROVE  call'[c].event.hash \notin (Written \cup Firm \cup Loose)'
  <2>1. CASE call'[c].event.hash > submitted
    <3>1. \A g \in 1 .. submitted : ~(g > submitted)
      BY <1>1
    <3> QED BY <1>4, <2>1, <3>1
  <2>2. CASE /\ call[c].op = "write" /\ call'[c].event.hash = call[c].event.hash
             /\ Kept \/ call[c].event.hash # h
    <3>1. call[c].event.hash \notin Written \cup Firm \cup Loose
      BY <2>2 DEF TrailInv
    <3>2. CASE Kept
      BY <1>3, <2>2, <3>1, <3>2 DEF FileMoves, Torn, Added
    <3>3. CASE call[c].event.hash # h
      BY <1>3, <2>2, <3>1, <3>3 DEF FileMoves, Torn, Added
    <3> QED BY <2>2, <3>2, <3>3
  <2> QED BY <1>6, <2>1, <2>2 DEF StillWriting
<1>7. IsFiniteSet(Written \ Firm)
  <2>1. IsFiniteSet(1 .. submitted)
    BY <1>1, FS_Interval
  <2>2. Written \ Firm \subseteq 1 .. submitted
    BY DEF TrailInv
  <2> QED BY <2>1, <2>2, FS_Subset
<1>8. ASSUME NEW S, S \subseteq Written \ Firm
      PROVE  /\ Cardinality(S) \in Nat /\ Cardinality(Written \ Firm) \in Nat
             /\ Cardinality(S) <= Cardinality(Written \ Firm)
  BY <1>7, <1>8, FS_Subset, FS_CardinalityType
<1>9. (Cardinality(Written \ Firm) + (IF end = "newline" THEN 0 ELSE 1) <= torn)'
  <2>1. Cardinality(Written \ Firm) + (IF end = "newline" THEN 0 ELSE 1) <= torn
    BY DEF TrailInv
  <2>2. CASE Kept /\ Written' \subseteq Written
    <3>1. (Written \ Firm)' \subseteq Written \ Firm
      BY <1>3, <2>2
    <3> QED BY <1>1, <1>3, <1>8, <2>1, <2>2, <3>1
  <2>3. CASE Torn(h) /\ Written' \subseteq Written
    <3>1. (Written \ Firm)' \subseteq Written \ Firm /\ end' # "newline" /\ torn' = torn + 1
      BY <2>3 DEF Torn
    <3> QED BY <1>1, <1>8, <2>1, <3>1
  <2>4. CASE Added(h) /\ Written' \subseteq Written \cup {h}
    <3>1. end' = "newline" /\ torn' = torn
      BY <2>4 DEF Added
    <3>2. CASE end = "newline"
      <4>1. (Written \ Firm)' \subseteq Written \ Firm
        BY <2>4, <3>2 DEF Added
      <4> QED BY <1>1, <1>8, <2>1, <3>1, <4>1
    <3>3. CASE end # "newline"
      <4>1. (Written \ Firm)' \subseteq (Written \ Firm) \cup {h}
        BY <2>4 DEF Added
      <4>2. /\ IsFiniteSet((Written \ Firm) \cup {h})
            /\ Cardinality((Written \ Firm) \cup {h}) <= Cardinality(Written \ Firm) + 1
        BY <1>7, <1>8, FS_AddElement
      <4>3. Cardinality((Written \ Firm)') <= Cardinality((Written \ Firm) \cup {h})
        BY <4>1, <4>2, FS_Subset
      <4>4. /\ Cardinality((Written \ Firm)') \in Nat /\ Cardinality(Written \ Firm) \in Nat
            /\ Cardinality((Written \ Firm) \cup {h}) \in Nat
        BY <1>7, <4>1, <4>2, FS_Subset, FS_CardinalityType
      <4> QED BY <1>1, <2>1, <3>1, <3>3, <4>2, <4>3, <4>4
    <3> QED BY <3>2, <3>3
  <2> QED BY <2>2, <2>3, <2>4 DEF FileMoves
<1>10. (end # "newline" => log # <<>>)'
  BY DEF TrailInv, FileMoves, Kept, Torn, Added
<1>11. (~(Written \subseteq Firm) => Spoiled)'
  <2>1. Kept => Spoiled' = Spoiled
    BY DEF Kept, Spoiled
  <2>2. CASE (Kept \/ Torn(h)) /\ Written' \subseteq Written
    <3>1. Firm' = Firm /\ (Spoiled => Spoiled')
      BY <1>3, <2>1, <2>2 DEF Torn
    <3> QED BY <2>2, <3>1 DEF TrailInv
  <2>3. CASE Added(h) /\ Written' \subseteq Written \cup {h}
    BY <2>3 DEF Added, TrailInv
  <2> QED BY <2>2, <2>3 DEF FileMoves
<1> QED BY <1>2, <1>4, <1>5, <1>6, <1>9, <1>10, <1>11 DEF TrailInv

(* A botched call of the next state is one of this state, possibly with    *)
(* its error about to be logged, or its "success" has just failed.         *)
StillBotched(k) ==
    \/ \E j \in AllCalls : /\ Botched(j) /\ j.succeeded = k.succeeded
                           /\ j.failed = k.failed \/ (Kept /\ k.failed > submitted)
    \/ /\ k.failed = 0 /\ k.succeeded \notin Firm'
       /\ \A c \in Callers : call'[c].op = "write" => call'[c].event.hash # k.succeeded

LEMMA BotchedKeeps ==
    ASSUME Shape, Shape', CallsInv, TrailInv, BotchedInv, NEW h, StillWriting(h),
           Kept \/ Torn(h) \/ Added(h),
           stray \subseteq stray',
           Kept \/ \A k \in AllCalls : Botched(k) /\ k.succeeded \notin stray => k.succeeded # h,
           \A k \in AllCalls' : Botched(k) /\ k.succeeded \notin stray' => StillBotched(k)
    PROVE  BotchedInv'
<1>1. submitted \in Nat
  BY DEF Shape, LogShape, Log!TypeOK
<1>2. Kept => Firm' = Firm /\ Loose' = Loose
  BY KeptEffect
<1>3. 0 \notin Firm'
  BY DEF Firm
<1>4. ASSUME NEW k \in AllCalls', NEW j \in AllCalls, Botched(j), j.succeeded = k.succeeded,
             k.succeeded \notin stray', j.failed = k.failed \/ (Kept /\ k.failed > submitted)
      PROVE  /\ k.succeeded \notin Firm'
             /\ k.succeeded \in Loose' => k.failed \notin Firm'
             /\ \A c \in Callers : call'[c].op = "write" => call'[c].event.hash # k.succeeded
  <2>1. /\ j.succeeded \notin Firm
        /\ j.succeeded \in Loose => j.failed \notin Firm
        /\ \A c \in Callers : call[c].op = "write" => call[c].event.hash # j.succeeded
    BY <1>4 DEF BotchedInv
  <2>2. ~(j.succeeded > submitted)
    BY <1>1 DEF CallsInv, WellFormed
  <2>3. k.succeeded \notin Firm'
    BY <1>2, <1>4, <2>1 DEF Torn, Added
  <2>4. \A g \in Firm : ~(g > submitted)
    BY <1>1 DEF TrailInv
  <2>5. k.succeeded \in Loose' => k.failed \notin Firm'
    <3>1. CASE Kept
      BY <1>2, <1>4, <2>1, <2>4, <3>1
    <3>2. CASE ~Kept
      BY <1>4, <3>2 DEF Torn, Added
    <3> QED BY <3>1, <3>2
  <2>6. \A c \in Callers : call'[c].op = "write" => call'[c].event.hash # k.succeeded
    BY <1>4, <2>1, <2>2 DEF StillWriting
  <2> QED BY <2>3, <2>5, <2>6
<1> QED BY <1>3, <1>4 DEF BotchedInv, StillBotched, Botched

(* A step of the event of one thread.                                      *)
LEMMA EventsKeep ==
    ASSUME Shape, Shape', EventsInv, NEW c \in Callers, submitted <= submitted',
           \A d \in Callers \ {c} : call'[d] = call[d] /\ job'[d] = job[d],
           \/ call'[c] = Log!Idle
           \/ /\ call'[c].event.hash = Current(job'[c])
              /\ call'[c].event.hash \in 1 .. submitted'
              /\ \/ call'[c].event.hash > submitted
                 \/ Busy(c) /\ call'[c].event.hash = call[c].event.hash
    PROVE  EventsInv'
<1>1. submitted \in Nat /\ submitted' \in Nat
  BY DEF Shape, LogShape, Log!TypeOK
<1>2. \A d \in Callers \ {c} : Busy(d)' => Busy(d)
  BY DEF Busy
<1>3. ~(Log!Idle.op \in {"write", "commit"})
  BY DEF Log!Idle
<1>4. \A d \in Callers : Busy(d) => ~(call[d].event.hash > submitted)
  BY <1>1 DEF EventsInv
<1>5. ASSUME NEW d \in Callers, Busy(d)'
      PROVE  call'[d].event.hash = Current(job'[d]) /\ call'[d].event.hash \in 1 .. submitted'
  <2>1. CASE d = c
    BY <1>3, <1>5, <2>1 DEF Busy
  <2>2. CASE d # c
    <3>1. /\ call[d].event.hash = Current(job[d]) /\ call[d].event.hash \in 1 .. submitted
          /\ call'[d] = call[d] /\ job'[d] = job[d]
      BY <1>2, <1>5, <2>2 DEF EventsInv
    <3> QED BY <1>1, <3>1
  <2> QED BY <2>1, <2>2
<1>6. ASSUME NEW d \in Callers \ {c}, Busy(c)', Busy(d)'
      PROVE  call'[c].event.hash # call'[d].event.hash
  <2>1. Busy(d) /\ call'[d] = call[d] /\ ~(call[d].event.hash > submitted)
    BY <1>2, <1>4, <1>6
  <2>2. call'[c] # Log!Idle
    BY <1>3, <1>6 DEF Busy
  <2> QED BY <2>1, <2>2 DEF EventsInv
<1>7. ASSUME NEW d \in Callers \ {c}, NEW f \in Callers \ {c}, d # f, Busy(d)', Busy(f)'
      PROVE  call'[d].event.hash # call'[f].event.hash
  BY <1>2, <1>7 DEF EventsInv
<1> QED BY <1>5, <1>6, <1>7 DEF EventsInv

(* The records after a thread took a step.                                 *)
LEMMA RecordsAfter ==
    ASSUME Shape, NEW c \in Callers, NEW k \in Calls, NEW verdict \in Verdicts,
           Continue(c, k) \/ Finish(c, k, verdict)
    PROVE  /\ Continue(c, k) => job'[c] = k /\ AllCalls' \subseteq AllCalls \cup {k}
           /\ Finish(c, k, verdict) =>
                 job'[c] = None /\ AllCalls' \subseteq AllCalls \cup {Ended(k, verdict)}
           /\ \A d \in Callers \ {c} : job'[d] = job[d]
<1>1. job \in [Callers -> Calls \cup {None}]
  BY DEF Shape, JobShape
<1>2. CASE Continue(c, k)
  <2>1. job' = [job EXCEPT ![c] = k] /\ past' = past
    BY <1>2 DEF Continue
  <2>2. job'[c] = k /\ \A d \in Callers \ {c} : job'[d] = job[d]
    BY <1>1, <2>1
  <2>3. AllCalls' \subseteq AllCalls \cup {k}
    BY <2>1, <2>2 DEF AllCalls, Running
  <2>4. k # None
    BY CallsAssumption
  <2>5. ~Finish(c, k, verdict)
    BY <1>1, <2>2, <2>4 DEF Finish
  <2> QED BY <2>2, <2>3, <2>5
<1>3. CASE Finish(c, k, verdict)
  <2>1. job' = [job EXCEPT ![c] = None] /\ past' = past \cup {Ended(k, verdict)}
    BY <1>3 DEF Finish, Ended
  <2>2. job'[c] = None /\ \A d \in Callers \ {c} : job'[d] = job[d]
    BY <1>1, <2>1
  <2>3. AllCalls' \subseteq AllCalls \cup {Ended(k, verdict)}
    BY <2>1, <2>2 DEF AllCalls, Running
  <2>4. k # None
    BY CallsAssumption
  <2>5. ~Continue(c, k)
    BY <1>1, <2>2, <2>4 DEF Continue
  <2> QED BY <2>2, <2>3, <2>5
<1> QED BY <1>2, <1>3

LEMMA EndedRecord ==
    ASSUME NEW k \in Calls, NEW n \in Nat, WellFormed(k, n), NEW verdict \in Verdicts,
           verdict = "returned" /\ k.op = "audited" => k.succeeded # 0
    PROVE  /\ WellFormed(Ended(k, verdict), n)
           /\ Botched(Ended(k, verdict)) => Botched(k)
           /\ Ended(k, verdict).succeeded = k.succeeded /\ Ended(k, verdict).failed = k.failed
<1> DEFINE e == Ended(k, verdict)
<1>1. /\ e.stage = "over" /\ e.verdict = verdict
      /\ e.op = k.op /\ e.announced = k.announced
      /\ e.succeeded = k.succeeded /\ e.failed = k.failed
      /\ e.body = k.body /\ e.trouble = k.trouble
  BY EndedType
<1> HIDE DEF e
<1>2. WellFormed(e, n)
  BY <1>1 DEF WellFormed
<1>3. Botched(e) => Botched(k)
  BY <1>1 DEF Botched
<1> QED BY <1>1, <1>2, <1>3 DEF e

(* A thread begins to log the event of its new record n.                   *)
LEMMA LogsEvent ==
    ASSUME Shape, Shape', TruthInv, NEW c \in Callers, NEW l \in Loggers, NEW n \in Calls,
           NEW stable \in BOOLEAN, Log!LogEvent(c, l, now, stable), Continue(c, n),
           WellFormed(n, submitted + 1), Current(n) = submitted + 1,
           \A h : Covers(n, h) => job[c] # None /\ Covers(job[c], h),
           Botched(n) => /\ job[c] # None /\ Botched(job[c])
                         /\ n.succeeded = job[c].succeeded /\ n.failed > submitted
    PROVE  TruthInv'
<1> USE CallsAssumption
<1>1. /\ submitted \in Nat /\ submitted' = submitted + 1
      /\ UNCHANGED <<log, end, torn, stray>>
      /\ call' = [call EXCEPT ![c] = [op |-> "write", logger |-> l,
                                      event |-> Log!NewEvent(l, now, stable)]]
  BY DEF Shape, LogShape, Log!TypeOK, Log!LogEvent
<1>2. /\ call'[c].op = "write" /\ call'[c].event.hash = submitted + 1
      /\ \A d \in Callers \ {c} : call'[d] = call[d]
  BY <1>1 DEF Shape, LogShape, Log!NewEvent
<1>3. "lost" \in Verdicts
  BY DEF Verdicts
<1>4. /\ job'[c] = n /\ AllCalls' \subseteq AllCalls \cup {n}
      /\ \A d \in Callers \ {c} : job'[d] = job[d]
  BY <1>3, RecordsAfter
<1>5. CallsInv'
  <2>1. \A k \in AllCalls : WellFormed(k, submitted + 1)
    BY <1>1 DEF TruthInv, CallsInv, WellFormed
  <2> QED BY <1>1, <1>4, <2>1 DEF CallsInv
<1>6. EventsInv'
  <2>1. submitted + 1 \in 1 .. submitted + 1 /\ submitted + 1 > submitted
        /\ submitted <= submitted + 1
    BY <1>1
  <2> QED BY <1>1, <1>2, <1>4, <2>1, EventsKeep DEF TruthInv
<1>7. Kept
  BY <1>1 DEF Kept
<1>8. Written' \subseteq Written
  <2>1. ASSUME NEW h \in Hashes, NEW k \in AllCalls', Covers(k, h) PROVE h \in Written
    <3>1. CASE k \in AllCalls
      BY <2>1, <3>1 DEF Written
    <3>2. CASE k = n
      <4>1. job[c] \in AllCalls /\ Covers(job[c], h)
        BY <2>1, <3>2 DEF AllCalls, Running
      <4> QED BY <4>1 DEF Written
    <3> QED BY <1>4, <3>1, <3>2
  <2>2. \A d \in Callers : call'[d].op = "commit" =>
           call[d].op = "commit" /\ call'[d].event.hash = call[d].event.hash
    BY <1>2
  <2> QED BY <2>1, <2>2 DEF Written
<1>9. StillWriting(0)
  <2>1. submitted + 1 > submitted
    BY <1>1
  <2> QED BY <1>2, <1>7, <2>1 DEF StillWriting
<1>10. TrailInv'
  BY <1>1, <1>7, <1>8, <1>9, TrailKeeps DEF FileMoves, TruthInv
<1>11. \A k \in AllCalls' : Botched(k) => StillBotched(k)
  <2>1. ASSUME NEW k \in AllCalls', Botched(k) PROVE StillBotched(k)
    <3>1. CASE k \in AllCalls
      BY <2>1, <3>1 DEF StillBotched
    <3>2. CASE k = n
      <4>1. job[c] \in AllCalls
        BY <2>1, <3>2 DEF AllCalls, Running
      <4> QED BY <1>7, <2>1, <3>2, <4>1 DEF StillBotched
    <3> QED BY <1>4, <3>1, <3>2
  <2> QED BY <2>1
<1>12. BotchedInv'
  BY <1>1, <1>7, <1>9, <1>11, BotchedKeeps DEF TruthInv
<1> QED BY <1>5, <1>6, <1>10, <1>12 DEF TruthInv

(* The line and its newline are in the file.                               *)
LEMMA WritesEvent ==
    ASSUME Shape, Shape', TruthInv, NEW c \in Callers, WriteEvent(c)
    PROVE  TruthInv'
<1> DEFINE h == call[c].event.hash
<1>1. /\ Log!WriteEvent(c) /\ call[c].op = "write" /\ submitted' = submitted
      /\ UNCHANGED <<job, past, stray>> /\ call' = [call EXCEPT ![c].op = "commit"]
  BY DEF WriteEvent, Log!WriteEvent
<1>2. call[c] \in LogCall /\ call \in [Callers -> LogCall \cup {Log!Idle}] /\ LogShape
  BY <1>1, Logging DEF Shape, LogShape
<1>3. /\ call'[c].op = "commit" /\ call'[c].event.hash = h
      /\ \A d \in Callers \ {c} : call'[d] = call[d]
  BY <1>1, <1>2 DEF LogCall
<1>4. h \in 1 .. submitted /\ h = Current(job[c])
  BY <1>1 DEF TruthInv, EventsInv, Busy
<1>5. submitted \in Nat
  BY <1>2 DEF LogShape, Log!TypeOK, Log!Line
<1>6. Added(h)
  BY <1>1, <1>2, WriteEffect
<1> HIDE DEF h
<1>7. AllCalls' = AllCalls
  BY <1>1 DEF AllCalls, Running
<1>8. CallsInv'
  BY <1>1, <1>7 DEF TruthInv, CallsInv
<1>9. EventsInv'
  <2>1. Busy(c) /\ call'[c].event.hash = call[c].event.hash /\ submitted <= submitted'
    BY <1>1, <1>3, <1>5 DEF Busy, h
  <2> QED BY <1>1, <1>3, <1>4, <2>1, EventsKeep DEF TruthInv
<1>10. Written' \subseteq Written \cup {h}
  <2>1. \A d \in Callers : call'[d].op = "commit" =>
           \/ call'[d].event.hash = h
           \/ call[d].op = "commit" /\ call'[d].event.hash = call[d].event.hash
    BY <1>3
  <2> QED BY <1>7, <2>1 DEF Written
<1>11. StillWriting(h)
  <2>1. \A d \in Callers \ {c} : Busy(d) => call[d].event.hash # h
    BY <1>1 DEF TruthInv, EventsInv, Busy, h
  <2> QED BY <1>3, <2>1 DEF StillWriting, Busy
<1>12. TrailInv'
  <2>1. submitted <= submitted'
    BY <1>1, <1>5
  <2> QED BY <1>4, <1>6, <1>10, <1>11, <2>1, TrailKeeps DEF FileMoves, TruthInv
<1>13. \A k \in AllCalls : Botched(k) /\ k.succeeded \notin stray => k.succeeded # h
  BY <1>1 DEF TruthInv, BotchedInv, h
<1>14. \A k \in AllCalls' : Botched(k) => StillBotched(k)
  BY <1>7 DEF StillBotched
<1>15. BotchedInv'
  BY <1>1, <1>6, <1>11, <1>13, <1>14, BotchedKeeps DEF TruthInv
<1> QED BY <1>8, <1>9, <1>12, <1>15 DEF TruthInv

(* A thread that logs nothing any more has the record n now, and the event *)
(* it was writing, if any, is not in the file or a part of it is.          *)
LEMMA Moves ==
    ASSUME Shape, Shape', TruthInv, NEW c \in Callers, NEW n \in Calls,
           submitted' = submitted, stray \subseteq stray', call'[c] = Log!Idle,
           \A d \in Callers \ {c} : call'[d] = call[d] /\ job'[d] = job[d],
           AllCalls' \subseteq AllCalls \cup {n},
           Kept \/ (call[c].op = "write" /\ Torn(call[c].event.hash)),
           WellFormed(n, submitted),
           \A h : Covers(n, h) => h \in Written,
           Botched(n) =>
              \/ /\ job[c] # None /\ Botched(job[c])
                 /\ n.succeeded = job[c].succeeded /\ n.failed = job[c].failed
              \/ call[c].op = "write" /\ n.succeeded = call[c].event.hash /\ n.failed = 0
              \/ n.succeeded \in stray'
    PROVE  TruthInv'
<1> DEFINE h == call[c].event.hash
<1>1. submitted \in Nat /\ submitted <= submitted'
  BY DEF Shape, LogShape, Log!TypeOK
<1>2. CallsInv'
  BY DEF TruthInv, CallsInv
<1>3. EventsInv'
  BY <1>1, EventsKeep DEF TruthInv
<1>4. call'[c].op \notin {"write", "commit"}
  BY DEF Log!Idle
<1>5. Written' \subseteq Written
  BY <1>4 DEF Written
<1>6. call[c].op = "write" => h \in 1 .. submitted /\ h \notin Written \cup Firm
  BY DEF TruthInv, EventsInv, TrailInv, Busy
<1>7. StillWriting(h)
  <2>1. \A d \in Callers \ {c} : call[d].op = "write" /\ ~Kept => call[d].event.hash # h
    BY DEF TruthInv, EventsInv, Busy
  <2> QED BY <1>4, <2>1 DEF StillWriting
<1>8. TrailInv'
  BY <1>1, <1>5, <1>6, <1>7, TrailKeeps DEF FileMoves, TruthInv
<1>9. Kept \/ \A k \in AllCalls : Botched(k) /\ k.succeeded \notin stray => k.succeeded # h
  BY DEF TruthInv, BotchedInv
<1>10. ASSUME NEW k \in AllCalls', Botched(k), k.succeeded \notin stray' PROVE StillBotched(k)
  <2>1. CASE k \in AllCalls
    BY <1>10, <2>1 DEF StillBotched
  <2>2. CASE /\ k = n /\ job[c] # None /\ Botched(job[c])
             /\ n.succeeded = job[c].succeeded /\ n.failed = job[c].failed
    <3>1. job[c] \in AllCalls
      BY <2>2 DEF AllCalls, Running
    <3> QED BY <2>2, <3>1 DEF StillBotched
  <2>3. CASE k = n /\ call[c].op = "write" /\ n.succeeded = h /\ n.failed = 0
    <3>1. h \notin Firm'
      BY <1>6, <2>3, KeptEffect DEF Torn
    <3>2. \A d \in Callers : call'[d].op = "write" => call'[d].event.hash # h
      BY <1>4, <2>3 DEF TruthInv, EventsInv, Busy
    <3> QED BY <2>3, <3>1, <3>2 DEF StillBotched
  <2> QED BY <1>10, <2>1, <2>2, <2>3
<1>11. BotchedInv'
  <2>1. Kept \/ Torn(h) \/ Added(h)
    OBVIOUS
  <2> HIDE DEF h
  <2> QED BY <1>7, <1>9, <1>10, <2>1, BotchedKeeps DEF TruthInv
<1> QED BY <1>2, <1>3, <1>8, <1>11 DEF TruthInv

LEMMA TruthInit == Init => TruthInv
<1> SUFFICES ASSUME Init PROVE TruthInv
  OBVIOUS
<1> USE CallsAssumption
<1>1. /\ log = <<>> /\ end = "newline" /\ submitted = 0 /\ torn = 0
      /\ \A c \in Callers : call[c] = Log!Idle /\ job[c] = None
      /\ past = {}
  BY DEF Init, Log!Init
<1>2. AllCalls = {}
  BY <1>1 DEF AllCalls, Running
<1>3. \A c \in Callers : call[c].op \notin {"write", "commit"}
  BY <1>1 DEF Log!Idle
<1>4. Firm = {} /\ Loose = {} /\ Written = {}
  BY <1>1, <1>2, <1>3 DEF Firm, Loose, Written
<1>5. CallsInv /\ BotchedInv
  BY <1>2 DEF CallsInv, BotchedInv
<1>6. EventsInv
  BY <1>3 DEF EventsInv, Busy
<1>7. TrailInv
  <2>1. Cardinality({}) = 0
    BY FS_EmptySet
  <2>2. Written \ Firm = {}
    BY <1>4
  <2> QED BY <1>1, <1>3, <1>4, <2>1, <2>2 DEF TrailInv
<1> QED BY <1>5, <1>6, <1>7 DEF TruthInv

LEMMA TruthStep == Shape /\ Shape' /\ TruthInv /\ [Next]_vars => TruthInv'
<1> SUFFICES ASSUME Shape, Shape', TruthInv, [Next]_vars PROVE TruthInv'
  OBVIOUS
<1> USE CallsAssumption
<1>1. /\ submitted \in Nat /\ LogShape
      /\ \A k \in AllCalls : k \in Calls /\ WellFormed(k, submitted)
      /\ \A c \in Callers : job[c] # None => job[c] \in AllCalls
  BY DEF Shape, LogShape, Log!TypeOK, JobShape, AllCalls, Running, TruthInv, CallsInv
<1>2. ASSUME UNCHANGED <<log, end, torn, stray, call, submitted, job, past>> PROVE TruthInv'
  <2>1. Firm' = Firm /\ Loose' = Loose /\ Spoiled' = Spoiled
    BY <1>2 DEF Firm, Loose, Spoiled
  <2>2. AllCalls' = AllCalls
    BY <1>2 DEF AllCalls, Running
  <2>3. Written' = Written
    BY <1>2, <2>2 DEF Written
  <2>4. CallsInv' /\ EventsInv'
    BY <1>2, <2>2 DEF TruthInv, CallsInv, EventsInv, Busy
  <2>5. TrailInv' /\ BotchedInv'
    BY <1>2, <2>1, <2>2, <2>3 DEF TruthInv, TrailInv, BotchedInv
  <2> QED BY <2>4, <2>5 DEF TruthInv
<1>3. ASSUME NEW l \in Loggers, InitializeSecurityFramework(l) \/ ForgetFramework(l)
      PROVE  TruthInv'
  BY <1>2, <1>3 DEF InitializeSecurityFramework, ForgetFramework, Log!OpenLogger, Log!DropLogger
<1>4. CASE IntegrateWithBtApi \/ UseRegistry \/ Tick
  BY <1>2, <1>4 DEF IntegrateWithBtApi, UseRegistry, Tick, Log!Tick, logVars
<1>6. ASSUME NEW c \in Callers, LogOutcome(c) PROVE TruthInv'
  <2>1. PICK n \in Calls :
           /\ Continue(c, n) /\ n.body = job[c].body /\ n.trouble = job[c].trouble
           /\ n.op = job[c].op /\ n.request = job[c].request
           /\ n.announced = job[c].announced /\ n.verdict = job[c].verdict
           /\ \/ /\ job[c].stage = "ran" /\ n.stage = "success"
                 /\ n.succeeded = submitted + 1 /\ n.failed = job[c].failed
              \/ /\ job[c].stage = "failed" /\ n.stage = "error"
                 /\ n.failed = submitted + 1 /\ n.succeeded = job[c].succeeded
    BY <1>6, Concludes
  <2>2. PICK l \in Loggers : Log!LogEvent(c, l, now, TRUE)
    BY <1>6, Concludes
  <2>3. job[c] # None /\ WellFormed(job[c], submitted)
    BY <1>1, <1>6, Concludes
  <2>4. WellFormed(n, submitted + 1) /\ Current(n) = submitted + 1
    BY <1>1, <2>1, <2>3 DEF WellFormed, Current
  <2>5. \A h : Covers(n, h) => Covers(job[c], h)
    BY <2>1, <2>3 DEF Covers, WellFormed
  <2>6. Botched(n) => /\ Botched(job[c]) /\ n.succeeded = job[c].succeeded
                      /\ n.failed > submitted
    BY <1>1, <2>1, <2>3 DEF Botched, WellFormed
  <2> QED BY <2>1, <2>2, <2>3, <2>4, <2>5, <2>6, LogsEvent
<1>7. ASSUME NEW c \in Callers, WriteEvent(c) PROVE TruthInv'
  BY <1>7, WritesEvent
(* The steps after which the thread logs nothing: its record is n, or ends as it. *)
<1>8. ASSUME NEW c \in Callers, NEW n \in Calls, NEW verdict \in Verdicts,
             Continue(c, n) \/ Finish(c, n, verdict),
             Finish(c, n, verdict) /\ verdict = "returned" /\ n.op = "audited" => n.succeeded # 0,
             submitted' = submitted, stray \subseteq stray', call'[c] = Log!Idle,
             \A d \in Callers \ {c} : call'[d] = call[d],
             Kept \/ (call[c].op = "write" /\ Torn(call[c].event.hash)),
             WellFormed(n, submitted),
             \A h : Covers(n, h) => h \in Written,
             Finish(c, n, verdict) /\ verdict = "returned" /\ n.op = "audited"
                => n.succeeded \in Written,
             Botched(n) =>
                \/ /\ job[c] # None /\ Botched(job[c])
                   /\ n.succeeded = job[c].succeeded /\ n.failed = job[c].failed
                \/ call[c].op = "write" /\ n.succeeded = call[c].event.hash /\ n.failed = 0
                \/ n.succeeded \in stray'
      PROVE  TruthInv'
  <2>1. \A d \in Callers \ {c} : job'[d] = job[d]
    BY <1>8, RecordsAfter
  <2>2. CASE Continue(c, n)
    <3>1. AllCalls' \subseteq AllCalls \cup {n}
      BY <2>2, <1>8, RecordsAfter
    <3> QED BY <1>8, <2>1, <3>1, Moves
  <2>3. CASE Finish(c, n, verdict)
    <3> DEFINE e == Ended(n, verdict)
    <3>1. AllCalls' \subseteq AllCalls \cup {e}
      BY <2>3, <1>8, RecordsAfter
    <3>2. e \in Calls /\ e.stage = "over" /\ e.verdict = verdict /\ e.op = n.op
          /\ e.announced = n.announced /\ e.body = n.body
      BY EndedType
    <3>3. /\ WellFormed(e, submitted)
          /\ Botched(e) => Botched(n)
          /\ e.succeeded = n.succeeded /\ e.failed = n.failed
      BY <1>1, <1>8, <2>3, EndedRecord
    <3> HIDE DEF e
    <3>4. \A h : Covers(e, h) => h \in Written
      BY <1>8, <2>3, <3>2, <3>3 DEF Covers
    <3>5. Botched(e) =>
             \/ /\ job[c] # None /\ Botched(job[c])
                /\ e.succeeded = job[c].succeeded /\ e.failed = job[c].failed
             \/ call[c].op = "write" /\ e.succeeded = call[c].event.hash /\ e.failed = 0
             \/ e.succeeded \in stray'
      BY <1>8, <3>3
    <3>6. WellFormed(e, submitted)
      BY <3>3
    <3> QED BY <1>8, <2>1, <3>1, <3>2, <3>4, <3>5, <3>6, Moves
  <2> QED BY <1>8, <2>2, <2>3
<1>5. ASSUME NEW c \in Callers, (\E r \in Data!Requests : AuditedCall(c, r)) \/ SecureCreateFeed(c)
      PROVE  TruthInv'
  <2>1. job[c] = None
    BY <1>5, Begins
  <2>2. ASSUME NEW l \in Loggers, NEW stable \in BOOLEAN, NEW k \in Calls,
               Log!LogEvent(c, l, now, stable), Continue(c, k), Begun(k, l)
        PROVE  TruthInv'
    <3>1. WellFormed(k, submitted + 1) /\ Current(k) = submitted + 1
      BY <1>1, <2>2 DEF Begun, WellFormed, Current, Calls
    <3>2. \A h : ~Covers(k, h)
      BY <2>2 DEF Begun, Covers
    <3>3. ~Botched(k)
      BY <2>2 DEF Begun, Botched
    <3> QED BY <2>2, <3>1, <3>2, <3>3, LogsEvent
  <2>3. ASSUME NEW k \in Calls, UNCHANGED logVars, Continue(c, k), BegunPlain(k)
        PROVE  TruthInv'
    <3>1. WellFormed(k, submitted)
      BY <1>1, <2>3 DEF BegunPlain, WellFormed
    <3>2. \A h : ~Covers(k, h)
      BY <2>3 DEF BegunPlain, Covers
    <3>3. ~Botched(k)
      BY <2>3 DEF BegunPlain, Botched
    <3>4. /\ call' = call /\ call'[c] = Log!Idle /\ submitted' = submitted /\ stray' = stray
          /\ Kept
      BY <2>1, <2>3 DEF logVars, Kept, Shape, JobShape, Sync
    <3>5. "raised" \in Verdicts /\ "raised" # "returned"
      BY DEF Verdicts
    <3> QED BY <1>8, <2>3, <3>1, <3>2, <3>3, <3>4, <3>5
  <2> QED BY <1>5, <2>2, <2>3, Begins
<1>9. ASSUME NEW c \in Callers, EventIsLogged(c) PROVE TruthInv'
  <2>1. /\ call[c].op = "commit" /\ Log!CommitEvent(c)
        /\ job[c] \in Calls /\ job[c] # None
    BY <1>9, Logged, Logging
  <2>2. /\ call'[c] = Log!Idle /\ \A d \in Callers \ {c} : call'[d] = call[d]
        /\ submitted' = submitted /\ stray' = stray /\ Kept
    BY <1>1, <2>1 DEF Log!CommitEvent, Kept, LogShape
  <2>3. WellFormed(job[c], submitted) /\ job[c] \in AllCalls
    BY <1>1, <2>1
  <2>4. Current(job[c]) \in Written
    <3>1. call[c].event.hash = Current(job[c]) /\ call[c].event.hash \in 1 .. submitted
      BY <2>1 DEF TruthInv, EventsInv, Busy
    <3>2. submitted \in 0 .. 3 * MaxCalls
      BY DEF Shape, LogShape, Log!TypeOK
    <3>3. call[c].event.hash \in Hashes
      BY <3>1, <3>2 DEF Hashes
    <3> QED BY <2>1, <3>1, <3>3 DEF Written
  <2>5. \A h \in Hashes : Covers(job[c], h) => h \in Written
    BY <2>3 DEF Written
  <2>6. job[c].announced \in Hashes /\ job[c].succeeded \in Hashes
    BY <2>1 DEF Calls
  <2>7. \A h : Covers(job[c], h) => h \in Written
    BY <2>5, <2>6 DEF Covers
  <2>8. "raised" \in Verdicts /\ "returned" \in Verdicts
    BY DEF Verdicts
  <2>9. ASSUME NEW n \in Calls, job[c].stage = "announce", Advanced(n, job[c], "run"),
               Continue(c, n), n.body = job[c].body, n.trouble = job[c].trouble
        PROVE  TruthInv'
    <3>1. WellFormed(n, submitted)
      BY <2>3, <2>9 DEF WellFormed, Advanced
    <3>2. \A h : Covers(n, h) => h \in Written
      BY <2>3, <2>4, <2>9 DEF WellFormed, Advanced, Covers, Current
    <3>3. ~Botched(n)
      BY <3>1, <2>9 DEF WellFormed, Advanced, Botched
    <3>4. ~Finish(c, n, "raised") \/ "raised" # "returned"
      OBVIOUS
    <3> QED BY <1>8, <2>2, <2>8, <2>9, <3>1, <3>2, <3>3
  <2>10. CASE job[c].stage = "success" /\ Finish(c, job[c], "returned")
    <3>1. job[c].succeeded # 0 /\ job[c].succeeded \in Written /\ ~Botched(job[c])
      BY <2>3, <2>4, <2>10 DEF WellFormed, Current, Botched
    <3> QED BY <1>8, <2>1, <2>2, <2>3, <2>7, <2>8, <2>10, <3>1
  <2>11. CASE job[c].stage = "error" /\ Finish(c, job[c], "raised")
    BY <1>8, <2>1, <2>2, <2>3, <2>7, <2>8, <2>11
  <2> QED BY <1>9, <2>9, <2>10, <2>11, Logged
<1>10. ASSUME NEW c \in Callers, EventIsNotLogged(c) PROVE TruthInv'
  <2>1. /\ \/ call[c].op = "write" /\ Log!WriteFails(c)
           \/ call[c].op = "commit" /\ Log!CommitFails(c)
        /\ job[c] \in Calls /\ job[c] # None
    BY <1>10, NotLogged, Logging
  <2>2. /\ call'[c] = Log!Idle /\ \A d \in Callers \ {c} : call'[d] = call[d]
        /\ submitted' = submitted /\ stray \subseteq stray'
        /\ call[c].op = "commit" => call[c].event.hash \in stray'
    BY <1>1, <2>1 DEF Log!WriteFails, Log!CommitFails, LogShape
  <2>3. Kept \/ (call[c].op = "write" /\ Torn(call[c].event.hash))
    <3>1. Log!CommitFails(c) => Kept
      BY DEF Log!CommitFails, Kept
    <3> QED BY <1>1, <2>1, <3>1, PartEffect
  <2>4. WellFormed(job[c], submitted) /\ job[c] \in AllCalls
    BY <1>1, <2>1
  <2>5. \A h \in Hashes : Covers(job[c], h) => h \in Written
    BY <2>4 DEF Written
  <2>6. job[c].announced \in Hashes /\ job[c].succeeded \in Hashes
    BY <2>1 DEF Calls
  <2>7. \A h : Covers(job[c], h) => h \in Written
    BY <2>5, <2>6 DEF Covers
  <2>8. "raised" \in Verdicts
    BY DEF Verdicts
  <2>9. call[c].event.hash = Current(job[c])
    BY <2>1 DEF TruthInv, EventsInv, Busy
  <2>10. ASSUME NEW n \in Calls, job[c].stage = "success", Advanced(n, job[c], "failed"),
                Continue(c, n), n.body = job[c].body, n.trouble
         PROVE  TruthInv'
    <3>1. WellFormed(n, submitted)
      BY <2>4, <2>10 DEF WellFormed, Advanced
    <3>2. \A h : Covers(n, h) => Covers(job[c], h)
      BY <2>10 DEF Advanced, Covers
    <3>3. n.succeeded = call[c].event.hash /\ n.failed = 0
      BY <2>4, <2>9, <2>10 DEF WellFormed, Advanced, Current
    <3> QED BY <1>8, <2>1, <2>2, <2>3, <2>7, <2>8, <2>10, <3>1, <3>2, <3>3
  <2>11. ASSUME NEW n \in Calls, job[c].stage \in {"announce", "error"},
                Advanced(n, job[c], job[c].stage), Finish(c, n, "raised"),
                n.body = job[c].body, n.trouble
         PROVE  TruthInv'
    <3>1. WellFormed(n, submitted)
      BY <2>4, <2>11 DEF WellFormed, Advanced
    <3>2. \A h : Covers(n, h) => Covers(job[c], h)
      BY <2>11 DEF Advanced, Covers
    <3>3. Botched(n) => /\ Botched(job[c])
                        /\ n.succeeded = job[c].succeeded /\ n.failed = job[c].failed
      BY <2>11 DEF Advanced, Botched
    <3> QED BY <1>8, <2>1, <2>2, <2>3, <2>7, <2>8, <2>11, <3>1, <3>2, <3>3
  <2> QED BY <1>10, <2>10, <2>11, NotLogged
<1>11. ASSUME NEW c \in Callers, FindRequest(c) \/ RunDeletion(c) \/ RunOriginal(c)
       PROVE  TruthInv'
  <2>1. /\ job[c] \in Calls /\ job[c] # None /\ job[c].stage \in {"run", "delete"}
        /\ UNCHANGED logVars
    BY <1>11, Runs, RunsOriginal
  <2>2. /\ call'[c] = Log!Idle /\ \A d \in Callers \ {c} : call'[d] = call[d]
        /\ submitted' = submitted /\ stray' = stray /\ Kept
    BY <2>1 DEF logVars, Kept, Shape, JobShape, Sync, Logs
  <2>3. WellFormed(job[c], submitted) /\ job[c] \in AllCalls
    BY <1>1, <2>1
  <2>4. job[c].op # "plain" => job[c].announced \in Written
    BY <2>1, <2>3 DEF Written, Covers, Calls, WellFormed
  <2>5. "raised" \in Verdicts /\ "returned" \in Verdicts /\ "lost" \in Verdicts
    BY DEF Verdicts
  <2>6. ASSUME NEW n \in Calls, n.op = job[c].op,
               n.announced = job[c].announced, n.succeeded = job[c].succeeded,
               n.failed = job[c].failed, n.verdict = job[c].verdict
        PROVE  /\ n.succeeded = 0 /\ n.failed = 0 /\ ~Botched(n)
               /\ \A h : Covers(n, h) => h \in Written
    <3>1. n.succeeded = 0 /\ n.failed = 0 /\ n.verdict = "none"
      BY <2>1, <2>3, <2>6 DEF WellFormed
    <3> QED BY <2>4, <2>6, <3>1 DEF Botched, Covers
  <2>7. CASE FindRequest(c) \/ RunDeletion(c)
    <3>1. PICK n \in Calls :
             /\ Continue(c, n)
             /\ \/ Advanced(n, job[c], "delete") /\ n.body = "begun"
                \/ Advanced(n, job[c], "ran") /\ n.body = "done"
                \/ Advanced(n, job[c], "failed") /\ n.body = "raised"
      BY <2>7, Runs
    <3>2. WellFormed(n, submitted)
      BY <2>1, <2>3, <3>1 DEF WellFormed, Advanced
    <3>3. ~Botched(n) /\ \A h : Covers(n, h) => h \in Written
      BY <2>6, <3>1 DEF Advanced
    <3>4. "lost" # "returned"
      OBVIOUS
    <3> QED BY <1>8, <2>2, <2>5, <3>1, <3>2, <3>3, <3>4
  <2>8. CASE RunOriginal(c)
    <3>1. PICK n \in Calls, verdict \in {"returned", "raised"} :
             /\ Finish(c, n, verdict) /\ Advanced(n, job[c], "run")
             /\ job[c].op \in {"feed", "plain"}
      BY <2>8, RunsOriginal
    <3> DEFINE e == Ended(n, verdict)
    <3>2. /\ verdict \in Verdicts
          /\ e \in Calls /\ e.stage = "over" /\ e.verdict = verdict /\ e.op = n.op
          /\ e.announced = n.announced /\ e.succeeded = n.succeeded /\ e.failed = n.failed
      BY EndedType DEF Verdicts
    <3>3. /\ AllCalls' \subseteq AllCalls \cup {e}
          /\ \A d \in Callers \ {c} : job'[d] = job[d]
      BY <3>1, <3>2, RecordsAfter
    <3> HIDE DEF e
    <3>4. /\ e.succeeded = 0 /\ e.failed = 0 /\ e.op \in {"feed", "plain"}
          /\ e.op = job[c].op /\ e.announced = job[c].announced
      BY <2>1, <2>3, <3>1, <3>2 DEF WellFormed, Advanced
    <3>5. WellFormed(e, submitted)
      BY <1>1, <2>3, <3>2, <3>4 DEF WellFormed
    <3>6. ~Botched(e) /\ \A h : Covers(e, h) => h \in Written
      BY <2>4, <3>4 DEF Botched, Covers
    <3> QED BY <2>2, <3>2, <3>3, <3>5, <3>6, Moves
  <2> QED BY <1>11, <2>7, <2>8
<1>12. CASE Crash
  <2>1. PICK h : \/ Kept
                 \/ /\ Torn(h)
                    /\ \E c \in Callers : call[c].op = "write" /\ h = call[c].event.hash
    <3>1. CASE Log!Crash
      BY <3>1 DEF Log!Crash, Kept
    <3>2. ASSUME NEW c \in Callers, Log!CrashInWrite(c)
          PROVE  Kept \/ (Torn(call[c].event.hash) /\ call[c].op = "write")
      BY <1>1, <3>2, PartEffect DEF Log!CrashInWrite
    <3> QED BY <1>12, <3>1, <3>2 DEF Crash
  <2>2. submitted' = submitted /\ stray' = stray /\ \A c \in Callers : call'[c] = Log!Idle
    BY <1>12 DEF Crash, Log!Crash, Log!CrashInWrite
  <2>3. \A c \in Callers : call'[c].op \notin {"write", "commit"}
    BY <2>2 DEF Log!Idle
  <2>4. AllCalls' = past \cup {Ended(job[c], "lost") : c \in Running}
    BY <1>12 DEF Crash, AllCalls, Running, Ended
  <2>5. ASSUME NEW k \in AllCalls'
        PROVE  \E j \in AllCalls : /\ WellFormed(k, submitted)
                                   /\ Botched(k) => Botched(j)
                                   /\ k.succeeded = j.succeeded /\ k.failed = j.failed
                                   /\ \A g : Covers(k, g) => Covers(j, g)
    <3>1. CASE k \in past
      BY <1>1, <3>1 DEF AllCalls
    <3>2. ASSUME NEW c \in Running, k = Ended(job[c], "lost")
          PROVE  /\ WellFormed(k, submitted) /\ job[c] \in AllCalls
                 /\ Botched(k) => Botched(job[c])
                 /\ k.succeeded = job[c].succeeded /\ k.failed = job[c].failed
                 /\ \A g : Covers(k, g) => Covers(job[c], g)
      <4>1. job[c] \in AllCalls /\ job[c] \in Calls /\ WellFormed(job[c], submitted)
        BY <1>1 DEF Running
      <4>2. "lost" \in Verdicts /\ "lost" # "returned"
        BY DEF Verdicts
      <4>3. /\ k.stage = "over" /\ k.verdict = "lost" /\ k.op = job[c].op
            /\ k.announced = job[c].announced /\ k.body = job[c].body
        BY <3>2, <4>1, <4>2, EndedType
      <4>4. \A g : Covers(k, g) => Covers(job[c], g)
        BY <4>3 DEF Covers
      <4> QED BY <1>1, <3>2, <4>1, <4>2, <4>4, EndedRecord
    <3> QED BY <2>4, <3>1, <3>2
  <2>6. CallsInv' /\ EventsInv'
    BY <2>2, <2>3, <2>5 DEF CallsInv, EventsInv, Busy
  <2>7. Written' \subseteq Written
    BY <2>3, <2>5 DEF Written
  <2>8. StillWriting(h)
    BY <2>3 DEF StillWriting
  <2>9. TrailInv'
    <3>1. submitted <= submitted' /\ FileMoves(h)
      BY <1>1, <2>1, <2>2, <2>7 DEF FileMoves, TruthInv, EventsInv, TrailInv, Busy
    <3> QED BY <2>8, <3>1, TrailKeeps DEF TruthInv
  <2>10. BotchedInv'
    <3>1. Kept \/ \A k \in AllCalls : Botched(k) /\ k.succeeded \notin stray
                                          => k.succeeded # h
      BY <2>1 DEF TruthInv, BotchedInv
    <3>2. ASSUME NEW k \in AllCalls', Botched(k) PROVE StillBotched(k)
      BY <2>5, <3>2 DEF StillBotched
    <3> QED BY <2>1, <2>2, <2>8, <3>1, <3>2, BotchedKeeps DEF TruthInv
  <2> QED BY <2>6, <2>9, <2>10 DEF TruthInv
<1>13. CASE UNCHANGED vars
  BY <1>2, <1>13 DEF vars, logVars
<1> QED
  BY <1>3, <1>4, <1>5, <1>6, <1>7, <1>9, <1>10, <1>11, <1>12, <1>13 DEF Next, Proceed

LEMMA TruthAlways == Spec => []TruthInv
BY TruthInit, TruthStep, ShapeAlways, PTL DEF Spec

(* A log that is not cleaned up misses at most one record it owes for each *)
(* torn append: the announcement of each function that was to be logged    *)
(* and ran, the success of each audited call that returned (audit_access,  *)
(* secure_create_feed, log_event).                                         *)
THEOREM TrailStaysComplete == Spec => []TrailIsComplete
<1>1. Shape /\ TruthInv => TrailIsComplete
  BY TruthImplies
<1> QED BY <1>1, ShapeAlways, TruthAlways, PTL

(* When verify_log_integrity reports nothing of a log that is not cleaned  *)
(* up, every function that was to be logged and ran, and every audited     *)
(* call that returned, has its record in the log (verify_log_integrity,    *)
(* audit_access).                                                          *)
THEOREM VerifiedTrailStaysComplete == Spec => []VerifiedTrailIsComplete
<1>1. Shape /\ TruthInv => VerifiedTrailIsComplete
  BY TruthImplies
<1> QED BY <1>1, ShapeAlways, TruthAlways, PTL

(* The log tells the truth about every call, also after failing appends    *)
(* and crashes, and says that it both succeeded and failed only when the   *)
(* "success" was written although log_event raised (audit_access).         *)
THEOREM OutcomesStayTrue == Spec => []OutcomesAreTrue
<1>1. Shape /\ TruthInv => OutcomesAreTrue
  BY TruthImplies
<1> QED BY <1>1, ShapeAlways, TruthAlways, PTL

-----------------------------------------------------------------------------
(* Who is about to be deleted asked for it, or was registered meanwhile.   *)
Doomed(l, s) == subjects[l][s] # None => subjects[l][s].registration \in asked \cup raced

EraseInv ==
    /\ erased \subseteq asked \cup raced
    /\ \A c \in Callers : job[c] # None /\ job[c].stage = "delete" =>
          Doomed(job[c].logger, job[c].request[2])

(* Steps after which no thread is in a deletion that was not in it before. *)
LEMMA EraseKeeps ==
    ASSUME EraseInv,
           erased' \subseteq (asked \cup raced)',
           \A c \in Callers : job'[c] # None /\ job'[c].stage = "delete" =>
              /\ job[c] # None /\ job[c].stage = "delete"
              /\ job'[c].logger = job[c].logger /\ job'[c].request = job[c].request
              /\ Doomed(job[c].logger, job[c].request[2])
                    => Doomed(job[c].logger, job[c].request[2])'
    PROVE  EraseInv'
<1>1. ASSUME NEW c \in Callers, job'[c] # None, job'[c].stage = "delete"
      PROVE  Doomed(job[c].logger, job[c].request[2])'
  <2>1. /\ job[c] # None /\ job[c].stage = "delete"
        /\ job'[c].logger = job[c].logger /\ job'[c].request = job[c].request
        /\ Doomed(job[c].logger, job[c].request[2])
              => Doomed(job[c].logger, job[c].request[2])'
    BY <1>1
  <2>2. Doomed(job[c].logger, job[c].request[2])
    BY <2>1 DEF EraseInv
  <2> QED BY <2>1, <2>2 DEF Doomed
<1> QED BY <1>1 DEF EraseInv

LEMMA EraseStep == Shape /\ EraseInv /\ [Next]_vars => EraseInv'
<1> SUFFICES ASSUME Shape, EraseInv, [Next]_vars PROVE EraseInv'
  OBVIOUS
<1>0. ASSUME NEW c \in Callers, job[c] # None, job[c].stage = "delete"
      PROVE  job[c].logger \in Loggers /\ job[c].request[2] \in Subjects
  <2>1. job[c].logger \in Loggers /\ job[c].request \in Data!Requests
    BY <1>0 DEF Shape, JobShape, HasRequest
  <2> QED BY <2>1 DEF Data!Requests
<1>1. /\ now \in 0 .. MaxTime /\ DataInv /\ Data!DataTypeOK
      /\ erased \subseteq asked \cup raced
  BY DEF Shape, LogShape, Log!TypeOK, DataInv, EraseInv
<1>2. ASSUME UNCHANGED <<dataVars, job>> PROVE EraseInv'
  BY <1>2 DEF dataVars, EraseInv, Doomed
<1>3. ASSUME NEW c \in Callers, NEW n \in Calls, NEW verdict \in Verdicts, UNCHANGED dataVars,
             (Continue(c, n) /\ n.stage # "delete") \/ Finish(c, n, verdict)
      PROVE  EraseInv'
  <2>1. \A d \in Callers \ {c} : job'[d] = job[d]
    BY <1>3, RecordsAfter
  <2>2. job'[c] = None \/ job'[c].stage # "delete"
    BY <1>3, RecordsAfter
  <2>3. /\ (asked \cup raced)' = asked \cup raced /\ erased' = erased
        /\ \A l, s : Doomed(l, s)' = Doomed(l, s)
    BY <1>3 DEF dataVars, Doomed
  <2> QED BY <1>1, <2>1, <2>2, <2>3, EraseKeeps
<1>4. ASSUME NEW m \in Loggers, InitializeSecurityFramework(m) PROVE EraseInv'
  <2>1. /\ subjects' = [subjects EXCEPT ![m] = Data!NoSubjects]
        /\ UNCHANGED <<asked, raced, erased, job>>
    BY <1>4 DEF InitializeSecurityFramework, Data!NewManager
  <2>2. \A l \in Loggers, s \in Subjects :
           subjects'[l][s] # None => subjects'[l][s] = subjects[l][s]
    BY <1>1, <2>1 DEF Data!DataTypeOK, Data!NoSubjects
  <2>3. \A l \in Loggers, s \in Subjects : Doomed(l, s) => Doomed(l, s)'
    BY <2>1, <2>2 DEF Doomed
  <2> QED BY <1>0, <1>1, <2>1, <2>3, EraseKeeps
<1>5. ASSUME NEW l \in Loggers, ForgetFramework(l) PROVE EraseInv'
  BY <1>2, <1>5 DEF ForgetFramework
<1>6. CASE IntegrateWithBtApi \/ Tick
  BY <1>2, <1>6 DEF IntegrateWithBtApi, Tick
<1>7. CASE UseRegistry
  <2>0. job' = job
    BY <1>7, Uses
  <2>1. ASSUME NEW m \in Loggers, NEW s \in Subjects, NEW p \in Purposes \cup {None},
               Data!RegisterDataSubject(m, s, p, Deleting(m, s))
        PROVE  EraseInv'
    <3>0. Deleting(m, s) \in BOOLEAN
      BY DEF Deleting
    <3>1. PICK x \in Data!Subject :
              /\ Data!Update(m, s, x) /\ x.registration = registrations + 1
              /\ asked' = asked /\ erased' = erased
              /\ raced' = raced \cup (IF Deleting(m, s) THEN {registrations + 1} ELSE {})
      BY <1>1, <2>1, <3>0, Registers
    <3>2. /\ subjects'[m][s] = x
          /\ \A l \in Loggers, q \in Subjects :
                l # m \/ q # s => subjects'[l][q] = subjects[l][q]
      BY <1>1, <3>1, UpdateFacts
    <3>3. ASSUME NEW c \in Callers, job[c] # None, job[c].stage = "delete",
                 Doomed(job[c].logger, job[c].request[2])
          PROVE  Doomed(job[c].logger, job[c].request[2])'
      <4>1. CASE job[c].logger = m /\ job[c].request[2] = s
        <5>1. Deleting(m, s)
          BY <3>3, <4>1 DEF Deleting, Running
        <5>2. x.registration \in raced'
          BY <3>1, <5>1
        <5>3. job'[c].logger = m /\ job'[c].request[2] = s
          BY <2>0, <4>1
        <5> QED BY <2>0, <3>2, <4>1, <5>2, <5>3 DEF Doomed
      <4>2. CASE job[c].logger # m \/ job[c].request[2] # s
        <5>1. subjects'[job[c].logger][job[c].request[2]]
                = subjects[job[c].logger][job[c].request[2]]
          BY <1>0, <3>2, <3>3, <4>2
        <5> QED BY <2>0, <3>1, <3>3, <5>1 DEF Doomed
      <4> QED BY <4>1, <4>2
    <3>4. erased' \subseteq (asked \cup raced)'
      BY <1>1, <3>1
    <3> QED BY <2>0, <3>3, <3>4, EraseKeeps
  <2>2. ASSUME NEW m \in Loggers, NEW s \in Subjects,
               \/ \E p \in Purposes : Data!RecordConsent(m, s, p)
               \/ \E p \in Purposes \cup {None} : Data!WithdrawConsent(m, s, p)
               \/ Data!RequestRightToBeForgotten(m, s)
        PROVE  EraseInv'
    <3>1. PICK x \in Data!Subject :
              /\ subjects[m][s] # None
              /\ Data!Update(m, s, x) /\ x.registration = subjects[m][s].registration
              /\ raced' = raced /\ erased' = erased /\ asked \subseteq asked'
      BY <1>1, <2>2, Keeps
    <3>2. /\ subjects'[m][s] = x
          /\ \A l \in Loggers, q \in Subjects :
                l # m \/ q # s => subjects'[l][q] = subjects[l][q]
      BY <1>1, <3>1, UpdateFacts
    <3>3. \A l \in Loggers, q \in Subjects : Doomed(l, q) => Doomed(l, q)'
      BY <3>1, <3>2 DEF Doomed
    <3>4. erased' \subseteq (asked \cup raced)'
      BY <1>1, <3>1
    <3> QED BY <1>0, <2>0, <3>3, <3>4, EraseKeeps
  <2> QED BY <1>7, <2>1, <2>2, Uses
<1>8. CASE Crash
  <2>1. UNCHANGED <<asked, raced, erased>> /\ \A c \in Callers : job'[c] = None
    BY <1>8 DEF Crash
  <2> QED BY <1>1, <2>1 DEF EraseInv
<1>9. ASSUME NEW c \in Callers, (\E r \in Data!Requests : AuditedCall(c, r)) \/ SecureCreateFeed(c)
      PROVE  EraseInv'
  <2>1. PICK k \in Calls : Continue(c, k) /\ k.stage # "delete" /\ UNCHANGED dataVars
    BY <1>9, Begins DEF Begun, BegunPlain
  <2> QED BY <1>3, <2>1 DEF Verdicts
<1>10. ASSUME NEW c \in Callers, WriteEvent(c) PROVE EraseInv'
  BY <1>2, <1>10 DEF WriteEvent
<1>11. ASSUME NEW c \in Callers, EventIsLogged(c) PROVE EraseInv'
  <2>1. job[c] \in Calls
    BY <1>11, Logged, Logging
  <2> QED BY <1>3, <1>11, <2>1, Logged DEF Advanced, Verdicts
<1>12. ASSUME NEW c \in Callers, EventIsNotLogged(c) PROVE EraseInv'
  BY <1>3, <1>12, NotLogged DEF Advanced, Verdicts
<1>13. ASSUME NEW c \in Callers, FindRequest(c) \/ RunDeletion(c) PROVE EraseInv'
  <2> DEFINE l == job[c].logger
             s == job[c].request[2]
  <2>1. /\ job[c] # None /\ l \in Loggers /\ s \in Subjects
        /\ job[c].request \in Data!Requests
    BY <1>13, Runs DEF Data!Requests
  <2>2. ASSUME NEW n \in Calls, Continue(c, n), Advanced(n, job[c], "delete"), UNCHANGED dataVars,
               Data!IsPending(l, job[c].request)
        PROVE  EraseInv'
    <3>1. job'[c] = n /\ \A d \in Callers \ {c} : job'[d] = job[d]
      BY <2>2, RecordsAfter DEF Verdicts
    <3>2. n.logger = l /\ n.request = job[c].request
      BY <2>2 DEF Advanced
    <3>3. Doomed(l, s)
      BY <1>1, <2>1, <2>2 DEF Doomed, Data!IsPending, DataInv, AskedInv
    <3>4. \A d \in Callers : job'[d] # None /\ job'[d].stage = "delete" =>
             Doomed(job'[d].logger, job'[d].request[2])
      BY <3>1, <3>2, <3>3 DEF EraseInv
    <3> QED BY <1>1, <2>2, <3>4 DEF EraseInv, Doomed, dataVars
  <2>3. ASSUME NEW n \in Calls, Continue(c, n), Advanced(n, job[c], "ran"),
               job[c].stage = "delete", Data!DeleteSubject(l, s)
        PROVE  EraseInv'
    <3>1. job'[c] = n /\ \A d \in Callers \ {c} : job'[d] = job[d]
      BY <2>3, RecordsAfter DEF Verdicts
    <3>2. n.stage # "delete"
      BY <2>3 DEF Advanced
    <3>3. /\ subjects[l][s] # None /\ Data!Update(l, s, None)
          /\ erased' = erased \cup {subjects[l][s].registration}
          /\ UNCHANGED <<asked, raced>>
      BY <2>3 DEF Data!DeleteSubject
    <3>4. /\ subjects'[l][s] = None
          /\ \A m \in Loggers, q \in Subjects :
                m # l \/ q # s => subjects'[m][q] = subjects[m][q]
      BY <1>1, <2>1, <3>3, UpdateFacts
    <3>5. \A m \in Loggers, q \in Subjects : Doomed(m, q) => Doomed(m, q)'
      BY <3>3, <3>4 DEF Doomed
    <3>6. erased' \subseteq (asked \cup raced)'
      <4>1. Doomed(l, s)
        BY <2>1, <2>3 DEF EraseInv
      <4> QED BY <1>1, <3>3, <4>1 DEF Doomed
    <3> HIDE DEF l, s
    <3>7. \A d \in Callers : job'[d] # None /\ job'[d].stage = "delete" =>
             job'[d] = job[d]
      BY <3>1, <3>2
    <3> QED BY <1>0, <3>5, <3>6, <3>7, EraseKeeps
  <2> QED
    <3>1. PICK n \in Calls :
             /\ Continue(c, n)
             /\ \/ Advanced(n, job[c], "delete") /\ UNCHANGED dataVars
                   /\ Data!IsPending(l, job[c].request)
                \/ Advanced(n, job[c], "ran") /\ job[c].stage = "delete"
                   /\ Data!DeleteSubject(l, s)
                \/ n.stage # "delete" /\ UNCHANGED dataVars
      BY <1>13, Runs DEF Advanced
    <3> QED BY <1>3, <2>2, <2>3, <3>1 DEF Verdicts
<1>14. ASSUME NEW c \in Callers, RunOriginal(c) PROVE EraseInv'
  BY <1>3, <1>14, RunsOriginal DEF Verdicts
<1>15. ASSUME NEW c \in Callers, LogOutcome(c) PROVE EraseInv'
  <2>1. PICK n \in Calls : Continue(c, n) /\ n.stage # "delete" /\ UNCHANGED dataVars
    BY <1>15, Concludes
  <2> QED BY <1>3, <2>1 DEF Verdicts
<1>16. CASE UNCHANGED vars
  BY <1>2, <1>16 DEF vars, dataVars
<1> QED
  BY <1>4, <1>5, <1>6, <1>7, <1>8, <1>9, <1>10, <1>11, <1>12, <1>13, <1>14, <1>15, <1>16
  DEF Next, Proceed

(* Nobody is erased who did not ask for it, whatever is retried, comes     *)
(* late or is registered again, except who is registered in the middle of  *)
(* a deletion of the same subject (process_data_deletion).                 *)
THEOREM NobodyErasedUnasked == Spec => []ErasedOnRequest
<1>1. Init => EraseInv
  BY DEF Init, Data!DataInit, EraseInv
<1>2. EraseInv => ErasedOnRequest
  BY DEF EraseInv, ErasedOnRequest, Data!ErasedOnRequest
<1> QED BY <1>1, <1>2, EraseStep, ShapeAlways, PTL DEF Spec

-----------------------------------------------------------------------------
(* Progress. *)

(* The stages, in numbers.                                                 *)
Left(stage) ==
    [announce |-> 9, run |-> 8, delete |-> 7, ran |-> 6, success |-> 4, failed |-> 3,
     error |-> 1][stage]

LEMMA LeftValues ==
    /\ Left("announce") = 9 /\ Left("run") = 8 /\ Left("delete") = 7 /\ Left("ran") = 6
    /\ Left("success") = 4 /\ Left("failed") = 3 /\ Left("error") = 1
BY DEF Left

Advances(c) == job[c] # None /\ job'[c] # None =>
                  UNCHANGED <<job[c], call[c]>> \/ StepsLeft(c)' < StepsLeft(c)

LEMMA AdvanceStep == Shape /\ [Next]_vars => \A c \in Callers : Advances(c)
<1> SUFFICES ASSUME Shape, [Next]_vars PROVE \A c \in Callers : Advances(c)
  OBVIOUS
<1>1. LogShape /\ JobShape /\ "raised" \in Verdicts /\ "returned" \in Verdicts
  BY DEF Shape, Verdicts
<1>2. \A c \in Callers : /\ StepsLeft(c) = Left(job[c].stage) + (IF call[c].op = "write" THEN 1 ELSE 0)
                         /\ StepsLeft(c)' = Left(job'[c].stage) + (IF call'[c].op = "write" THEN 1 ELSE 0)
  BY DEF StepsLeft, Left
<1>3. Log!Idle.op = "idle"
  BY DEF Log!Idle
<1>4. ASSUME NEW c \in Callers, Advances(c),
             \A d \in Callers \ {c} : job'[d] = job[d] /\ call'[d] = call[d]
      PROVE  \A d \in Callers : Advances(d)
  BY <1>4 DEF Advances
<1>5. ASSUME UNCHANGED <<job, call>> PROVE \A c \in Callers : Advances(c)
  BY <1>5 DEF Advances
(* What remains is the thread that moves: it was at stage, and is at next. *)
<1>6. ASSUME NEW c \in Callers, NEW n \in Calls, Continue(c, n),
             Left(n.stage) + (IF call'[c].op = "write" THEN 1 ELSE 0)
               < Left(job[c].stage) + (IF call[c].op = "write" THEN 1 ELSE 0),
             \A d \in Callers \ {c} : call'[d] = call[d]
      PROVE  \A d \in Callers : Advances(d)
  <2>1. job'[c] = n /\ \A d \in Callers \ {c} : job'[d] = job[d]
    BY <1>1, <1>6, RecordsAfter
  <2>2. Advances(c)
    BY <1>2, <1>6, <2>1 DEF Advances
  <2> QED BY <1>4, <1>6, <2>1, <2>2
<1>7. ASSUME NEW c \in Callers, NEW n \in Calls, NEW verdict \in Verdicts, Finish(c, n, verdict),
             \A d \in Callers \ {c} : call'[d] = call[d]
      PROVE  \A d \in Callers : Advances(d)
  <2>1. job'[c] = None /\ \A d \in Callers \ {c} : job'[d] = job[d]
    BY <1>7, RecordsAfter
  <2>2. Advances(c)
    BY <2>1 DEF Advances
  <2> QED BY <1>4, <1>7, <2>1, <2>2
<1>8. ASSUME NEW l \in Loggers, InitializeSecurityFramework(l) \/ ForgetFramework(l)
      PROVE  \A c \in Callers : Advances(c)
  BY <1>5, <1>8 DEF InitializeSecurityFramework, ForgetFramework, Log!OpenLogger, Log!DropLogger
<1>9. CASE IntegrateWithBtApi \/ UseRegistry \/ Tick
  BY <1>5, <1>9 DEF IntegrateWithBtApi, UseRegistry, Tick, Log!Tick, logVars
<1>10. CASE Crash
  <2>1. \A c \in Callers : job'[c] = None
    BY <1>10 DEF Crash
  <2> QED BY <2>1 DEF Advances
<1>11. ASSUME NEW c \in Callers, (\E r \in Data!Requests : AuditedCall(c, r)) \/ SecureCreateFeed(c)
       PROVE  \A d \in Callers : Advances(d)
  <2>1. job[c] = None
    BY <1>11, Begins
  <2>2. \A d \in Callers \ {c} : call'[d] = call[d] /\ job'[d] = job[d]
    <3>1. \A d \in Callers \ {c} : call'[d] = call[d]
      BY <1>1, <1>11, Begins, OtherCalls DEF logVars
    <3>2. \E k \in Calls : Continue(c, k)
      BY <1>11, Begins
    <3> QED BY <1>1, <3>1, <3>2, RecordsAfter
  <2>3. Advances(c)
    BY <2>1 DEF Advances
  <2> QED BY <1>4, <2>2, <2>3
<1>12. ASSUME NEW c \in Callers, WriteEvent(c) PROVE \A d \in Callers : Advances(d)
  <2>1. call[c].op = "write" /\ Log!WriteEvent(c) /\ job' = job
    BY <1>12 DEF WriteEvent, Log!WriteEvent
  <2>2. call[c] \in LogCall /\ job[c].stage \in Logs
    BY <2>1, Logging
  <2>3. call'[c].op = "commit" /\ \A d \in Callers \ {c} : call'[d] = call[d]
    BY <1>1, <2>1, <2>2 DEF Log!WriteEvent, LogShape, LogCall
  <2>4. Left(job[c].stage) \in Nat
    BY <2>2, LeftValues DEF Logs
  <2>5. Left(job[c].stage) + 0 < Left(job[c].stage) + 1
    BY <2>4
  <2>6. Advances(c)
    BY <1>2, <2>1, <2>3, <2>5 DEF Advances
  <2> QED BY <1>4, <2>1, <2>3, <2>6
<1>13. ASSUME NEW c \in Callers, EventIsLogged(c) PROVE \A d \in Callers : Advances(d)
  <2>1. call[c].op = "commit" /\ Log!CommitEvent(c) /\ job[c] \in Calls
    BY <1>13, Logged, Logging
  <2>2. call'[c].op = "idle" /\ \A d \in Callers \ {c} : call'[d] = call[d]
    BY <1>1, <1>3, <2>1, OtherCalls
  <2>3. ASSUME NEW n \in Calls, job[c].stage = "announce", Advanced(n, job[c], "run"), Continue(c, n)
        PROVE  \A d \in Callers : Advances(d)
    BY <1>6, <2>1, <2>2, <2>3, LeftValues DEF Advanced
  <2> QED BY <1>1, <1>7, <1>13, <2>1, <2>2, <2>3, Logged
<1>14. ASSUME NEW c \in Callers, EventIsNotLogged(c) PROVE \A d \in Callers : Advances(d)
  <2>1. Log!WriteFails(c) \/ Log!CommitFails(c)
    BY <1>14, NotLogged
  <2>2. call'[c].op = "idle" /\ \A d \in Callers \ {c} : call'[d] = call[d]
    BY <1>1, <1>3, <2>1, OtherCalls
  <2>3. ASSUME NEW n \in Calls, job[c].stage = "success", Advanced(n, job[c], "failed"), Continue(c, n)
        PROVE  \A d \in Callers : Advances(d)
    BY <1>6, <2>1, <2>2, <2>3, LeftValues DEF Advanced
  <2> QED BY <1>1, <1>7, <1>14, <2>2, <2>3, NotLogged
<1>15. ASSUME NEW c \in Callers, FindRequest(c) \/ RunDeletion(c)
       PROVE  \A d \in Callers : Advances(d)
  <2>1. job[c] # None /\ job[c].stage \in {"run", "delete"} /\ UNCHANGED logVars
    BY <1>15, Runs
  <2>2. PICK n \in Calls :
           /\ Continue(c, n)
           /\ \/ job[c].stage = "run" /\ n.stage = "delete"
              \/ job[c].stage = "delete" /\ n.stage = "ran"
              \/ n.stage = "failed"
    BY <1>15, Runs DEF Advanced
  <2>3. call' = call /\ call[c].op # "write"
    BY <1>1, <1>3, <2>1 DEF logVars, JobShape, Sync, Logs
  <2> QED BY <1>6, <2>1, <2>2, <2>3, LeftValues
<1>16. ASSUME NEW c \in Callers, RunOriginal(c) PROVE \A d \in Callers : Advances(d)
  <2>1. PICK n \in Calls, verdict \in Verdicts : Finish(c, n, verdict) /\ UNCHANGED logVars
    BY <1>1, <1>16, RunsOriginal
  <2> QED BY <1>7, <2>1 DEF logVars
<1>17. ASSUME NEW c \in Callers, LogOutcome(c) PROVE \A d \in Callers : Advances(d)
  <2>1. PICK n \in Calls, l \in Loggers :
           /\ Continue(c, n) /\ Log!LogEvent(c, l, now, TRUE)
           /\ \/ job[c].stage = "ran" /\ n.stage = "success"
              \/ job[c].stage = "failed" /\ n.stage = "error"
    BY <1>17, Concludes
  <2>2. \A d \in Callers \ {c} : call'[d] = call[d]
    BY <1>1, <2>1, OtherCalls
  <2>3. call[c].op = "idle" /\ call'[c].op = "write"
    BY <1>1, <1>3, <2>1 DEF Log!LogEvent, LogShape
  <2> QED BY <1>6, <2>1, <2>2, <2>3, LeftValues
<1>18. CASE UNCHANGED vars
  BY <1>5, <1>18 DEF vars, logVars
<1> QED
  BY <1>8, <1>9, <1>10, <1>11, <1>12, <1>13, <1>14, <1>15, <1>16, <1>17, <1>18 DEF Next, Proceed

(* Every step of a call brings it closer to its end, and nothing else      *)
(* moves it: the safety half of EveryCallEnds (audit_access).              *)
THEOREM CallsAlwaysAdvance == Spec => CallsAdvance
<1>1. Shape /\ [Next]_vars =>
        [\A c \in Callers : job[c] # None /\ job'[c] # None =>
            UNCHANGED <<job[c], call[c]>> \/ StepsLeft(c)' < StepsLeft(c)]_vars
  BY AdvanceStep DEF Advances
<1> QED BY <1>1, ShapeAlways, PTL DEF Spec, CallsAdvance
=============================================================================
