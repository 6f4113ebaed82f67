----------------------------- MODULE AuditLogger -----------------------------
(***************************************************************************)
(* core/audit_logger.py: instances of AuditLogger that append hash-chained *)
(* events to one log file, the retention cleanup that copies the file to a *)
(* second one and renames it, and crashes of the process between any two   *)
(* steps.                                                                  *)
(*                                                                         *)
(* The file is the sequence of its lines.  A line is a parseable event or  *)
(* Garbage; `end` says how its last line ends.  An event is named by the   *)
(* order of submission, which also stands for its SHA-256 hash: hashes of  *)
(* different events differ, and no event is submitted twice.  0 is the     *)
(* missing hash (None in the code).                                        *)
(* log_event and cleanup_old_events take several steps, because a crash,   *)
(* an I/O error or another thread can come in between.                     *)
(***************************************************************************)
EXTENDS Integers, Sequences, FiniteSets, SequencesExt

CONSTANTS
    Loggers,        \* AuditLogger objects opened on the file
    Callers,        \* threads that call them
    Retention,      \* retention_days
    LateEvents,     \* events may be logged later than they were created
    TornWrites,     \* a failed or interrupted append may leave a part of it
    UnstableEvents, \* events may have details that JSON does not give back
    MaxEvents,      \* bound on the events submitted
    MaxTime         \* bound of the clock

VARIABLES
    now,            \* time.time()
    log,            \* the lines of self.log_file
    end,            \* how the last line ends: newline, complete, partial
    clean,          \* the lines of the .clean file, which all cleanups share
    last,           \* self._last_hash of each logger, Closed when there is none
    call,           \* what each caller is doing
    submitted,      \* history: number of events submitted
    acked,          \* history: events whose log_event returned
    torn,           \* history: number of appends that left a part
    stray,          \* history: hashes of the lines whose log_event raised
    late,           \* history: an event was logged later than it was created
    overlap         \* history: which operations met another one at work

vars == <<now, log, end, clean, last, call, submitted, acked, torn, stray, late, overlap>>

NoHash == 0
Closed == -1
Hashes == 0 .. MaxEvents
(* An event is stable when the hash recomputed from its line is the one the *)
(* line holds.  It is not when JSON turns keys of details into strings     *)
(* that sort differently.                                                  *)
Event == [hash : 1 .. MaxEvents, prev : Hashes, time : 0 .. MaxTime, stable : BOOLEAN]
Garbage == [hash |-> NoHash, prev |-> NoHash, time |-> 0, stable |-> TRUE]
Line == Event \cup {Garbage}
IsEvent(line) == line.hash # NoHash

(* A cleanup holds the .clean file open.  Another one can make it the log, *)
(* or remove it, meanwhile.                                                *)
Idle == [op |-> "idle"]
Call == [op : {"write", "commit"}, logger : Loggers, event : Event]
        \cup [op : {"copy", "replace"}, file : {"clean", "log", "gone"}, kept : Seq(Line)]

ASSUME AuditAssumption ==
    /\ Retention \in Nat
    /\ MaxEvents \in Nat
    /\ MaxTime \in Nat
    /\ LateEvents \in BOOLEAN /\ TornWrites \in BOOLEAN /\ UnstableEvents \in BOOLEAN

TypeOK ==
    /\ now \in 0 .. MaxTime
    /\ log \in Seq(Line)
    /\ end \in {"newline", "complete", "partial"}
    /\ clean \in Seq(Line)
    /\ last \in [Loggers -> Hashes \cup {Closed}]
    /\ call \in [Callers -> Call \cup {Idle}]
    /\ submitted \in 0 .. MaxEvents
    /\ acked \subseteq Event
    /\ torn \in Nat
    /\ stray \subseteq 1 .. MaxEvents
    /\ late \in BOOLEAN
    /\ overlap \subseteq {"append", "cleanup", "cleanups"}

Init ==
    /\ now = 0
    /\ log = <<>>
    /\ end = "newline"
    /\ clean = <<>>
    /\ last = [l \in Loggers |-> Closed]
    /\ call = [c \in Callers |-> Idle]
    /\ submitted = 0
    /\ acked = {}
    /\ torn = 0
    /\ stray = {}
    /\ late = FALSE
    /\ overlap = {}

-----------------------------------------------------------------------------
(* The file. *)

(* BUG for the checks: it reads the first line. *)
LoadFirstHash == IF log = <<>> THEN NoHash ELSE log[1].hash

(* _load_last_hash: the hash in the last line, None if it does not parse.  *)
LoadLastHash == IF log = <<>> THEN NoHash ELSE log[Len(log)].hash

(* BUGS for the checks: the line replaces the file, or goes before it. *)
AppendAlone(line) == <<line>>
AppendFirst(line) == <<line>> \o log

(* Appending to a file whose last line has no newline glues the two.       *)
AppendLine(line) ==
    IF end = "newline" THEN Append(log, line)
    ELSE [log EXCEPT ![Len(log)] = Garbage]

(* verify_log_integrity: lines that do not parse, events whose             *)
(* previous_hash is not the hash of the last event that did parse, and     *)
(* events that do not have the hash they hold.                             *)
PrecedingEvents(lines, i) == {j \in 1 .. i - 1 : IsEvent(lines[j])}

ChainHolds(lines, i) ==
    LET before == PrecedingEvents(lines, i)
    IN  before = {} \/ lines[i].prev = lines[CHOOSE j \in before : \A k \in before : k <= j].hash

Violations(lines) ==
    {i \in DOMAIN lines :
        ~IsEvent(lines[i]) \/ ~ChainHolds(lines, i) \/ ~lines[i].stable}

(* BUGS for the checks: malformed lines are dropped, the cutoff is off by   *)
(* one.                                                                    *)
RetainedIfParsed(line) == IsEvent(line) /\ line.time >= now - Retention
RetainedAfterCutoff(line) == ~IsEvent(line) \/ line.time > now - Retention

Retained(line) == ~IsEvent(line) \/ line.time >= now - Retention

(* The loop of cleanup_old_events: of each n, what the .clean file holds   *)
(* after the first n lines.  (SelectSeq, written out: see the proofs.)     *)
Kept(lines) ==
    LET kept[n \in 0 .. Len(lines)] ==
          IF n = 0 THEN <<>>
          ELSE IF Retained(lines[n]) THEN Append(kept[n - 1], lines[n])
          ELSE kept[n - 1]
    IN  kept

EventsIn(lines) == {e \in Range(lines) : IsEvent(e)}

-----------------------------------------------------------------------------
(* What the code leaves to its users: one logger at a time, one call at a  *)
(* time.  overlap records when they do otherwise.                          *)

Appending == {c \in Callers : call[c].op \in {"write", "commit"}}
Cleaning == {c \in Callers : call[c].op \in {"copy", "replace"}}

LogEventOverlaps(l) ==
    (IF Appending # {} \/ \E m \in Loggers \ {l} : last[m] # Closed THEN {"append"} ELSE {})
    \cup (IF Cleaning # {} THEN {"cleanup"} ELSE {})
CleanupOverlaps ==
    (IF Appending \cup Cleaning # {} THEN {"cleanup"} ELSE {})
    \cup (IF Cleaning # {} THEN {"cleanups"} ELSE {})

-----------------------------------------------------------------------------
(* Opening a logger, the clock, and the process. *)

OpenLogger(l) ==
    /\ last[l] = Closed
    /\ last' = [last EXCEPT ![l] = LoadLastHash]
    /\ overlap' = overlap \cup (IF Appending # {} THEN {"append"} ELSE {})
    /\ UNCHANGED <<now, log, end, clean, call, submitted, acked, torn, stray, late>>

(* The program lets go of a logger, as initialize_audit_logger does of the *)
(* global one it replaces.                                                 *)
DropLogger(l) ==
    /\ last[l] # Closed
    /\ \A c \in Appending : call[c].logger # l
    /\ last' = [last EXCEPT ![l] = Closed]
    /\ UNCHANGED <<now, log, end, clean, call, submitted, acked, torn, stray, late, overlap>>

Tick ==
    /\ now < MaxTime
    /\ now' = now + 1
    /\ UNCHANGED <<log, end, clean, last, call, submitted, acked, torn, stray, late, overlap>>

(* Everything in memory is lost.  A .clean file that stays is never read:  *)
(* the next cleanup empties it.                                            *)
Crash ==
    /\ \E l \in Loggers : last[l] # Closed
    /\ last' = [l \in Loggers |-> Closed]
    /\ call' = [c \in Callers |-> Idle]
    /\ clean' = <<>>
    /\ UNCHANGED <<now, log, end, submitted, acked, torn, stray, late, overlap>>

-----------------------------------------------------------------------------
(* log_event *)

(* BUG for the checks: the event keeps the hash it had before the chain. *)
UnhashedEvent(l, time, stable) ==
    [hash |-> submitted, prev |-> last[l], time |-> time, stable |-> stable]

NewEvent(l, time, stable) ==
    [hash |-> submitted + 1, prev |-> last[l], time |-> time, stable |-> stable]

(* It takes previous_hash from memory and computes the event's hash. *)
LogEvent(c, l, time, stable) ==
    /\ call[c] = Idle
    /\ last[l] # Closed
    /\ submitted < MaxEvents
    /\ time <= now /\ (~LateEvents => time = now)
    /\ UnstableEvents \/ stable
    /\ submitted' = submitted + 1
    /\ late' = (late \/ time < now)
    /\ overlap' = overlap \cup LogEventOverlaps(l)
    /\ call' = [call EXCEPT ![c] =
                  [op |-> "write", logger |-> l, event |-> NewEvent(l, time, stable)]]
    /\ UNCHANGED <<now, log, end, clean, last, acked, torn, stray>>

(* _write_event_atomic appends the line and its newline. *)
WriteEvent(c) ==
    /\ call[c].op = "write"
    /\ log' = AppendLine(call[c].event)
    /\ end' = "newline"
    /\ call' = [call EXCEPT ![c].op = "commit"]
    /\ UNCHANGED <<now, clean, last, submitted, acked, torn, stray, late, overlap>>

(* What an append that does not finish can leave: nothing, the start of    *)
(* the line, or the line without its newline.  (The line with its newline: *)
(* the append is done, then see CommitFails and Crash.)                    *)
LeavePart(c) ==
    \/ UNCHANGED <<log, end, torn>>
    \/ /\ TornWrites
       /\ \E part \in {"partial", "complete"} :
             /\ log' = AppendLine(IF part = "partial" THEN Garbage ELSE call[c].event)
             /\ end' = part
       /\ torn' = torn + 1

(* The append raises: log_event raises AuditError before it updates        *)
(* _last_hash.                                                             *)
WriteFails(c) ==
    /\ call[c].op = "write"
    /\ LeavePart(c)
    /\ call' = [call EXCEPT ![c] = Idle]
    /\ UNCHANGED <<now, clean, last, submitted, acked, stray, late, overlap>>

(* The process stops during the append. *)
CrashInWrite(c) ==
    /\ call[c].op = "write"
    /\ LeavePart(c)
    /\ last' = [l \in Loggers |-> Closed]
    /\ call' = [d \in Callers |-> Idle]
    /\ clean' = <<>>
    /\ UNCHANGED <<now, submitted, acked, stray, late, overlap>>

(* BUG for the checks: _last_hash is left as it was. *)
CommitWithoutHash(c) ==
    /\ call[c].op = "commit"
    /\ acked' = acked \cup {call[c].event}
    /\ call' = [call EXCEPT ![c] = Idle]
    /\ UNCHANGED <<now, log, end, clean, last, submitted, torn, stray, late, overlap>>

(* log_event updates _last_hash and returns. *)
CommitEvent(c) ==
    /\ call[c].op = "commit"
    /\ last' = [last EXCEPT ![call[c].logger] = call[c].event.hash]
    /\ acked' = acked \cup {call[c].event}
    /\ call' = [call EXCEPT ![c] = Idle]
    /\ UNCHANGED <<now, log, end, clean, submitted, torn, stray, late, overlap>>

(* log_event raises although the whole line is in the file: closing the    *)
(* log or looking for the temporary file raises, or the caller is          *)
(* interrupted.  _last_hash stays as it was.                               *)
CommitFails(c) ==
    /\ call[c].op = "commit"
    /\ stray' = stray \cup {call[c].event.hash}
    /\ call' = [call EXCEPT ![c] = Idle]
    /\ UNCHANGED <<now, log, end, clean, last, submitted, acked, torn, late, overlap>>

-----------------------------------------------------------------------------
(* cleanup_old_events.  Every cleanup of the log uses the same .clean file. *)

(* It opens and reads the log, opens the .clean file, which empties it, ... *)
StartCleanup(c) ==
    /\ call[c] = Idle
    /\ \E l \in Loggers : last[l] # Closed
    /\ log # <<>>
    /\ call' = [call EXCEPT ![c] =
                  [op |-> "copy", file |-> "clean", kept |-> Kept(log)[Len(log)]]]
    /\ clean' = <<>>
    /\ overlap' = overlap \cup CleanupOverlaps
    /\ UNCHANGED <<now, log, end, last, submitted, acked, torn, stray, late>>

(* What a file that holds the lines `old` can hold once the lines `new`    *)
(* were written from its start: of the old ones those that stick out, the  *)
(* first of them cut or not.  How many do depends on how long they are.    *)
Overwritten(old, new) ==
    LET rests == {SubSeq(old, n, Len(old)) : n \in 2 .. Len(old) + 1}
    IN  IF new = <<>> THEN {old}
        ELSE {new} \cup {new \o r : r \in rests \cup {<<Garbage>> \o r : r \in rests}}

(* ... writes the lines it keeps to the file it opened, whatever that has  *)
(* become ...                                                              *)
WriteKept(c) ==
    /\ call[c].op = "copy"
    /\ \/ /\ call[c].file = "clean"
          /\ clean' \in Overwritten(clean, call[c].kept)
          /\ UNCHANGED <<log, end>>
       \/ /\ call[c].file = "log"
          /\ log' \in Overwritten(log, call[c].kept)
          /\ end' = IF Len(log') > Len(call[c].kept) THEN end ELSE "newline"
          /\ UNCHANGED clean
       \/ call[c].file = "gone" /\ UNCHANGED <<log, end, clean>>
    /\ call' = [call EXCEPT ![c].op = "replace"]
    /\ UNCHANGED <<now, last, submitted, acked, torn, stray, late, overlap>>

(* The call of c ends, and what happens to the .clean file changes where   *)
(* the other cleanups write.                                               *)
CallsAfter(c, becomes) ==
    [d \in Callers |->
        IF d = c THEN Idle
        ELSE IF d \in Cleaning THEN [call[d] EXCEPT !.file = becomes[@]]
        ELSE call[d]]

(* ... and renames the .clean file to the log.                             *)
FinishCleanup(c) ==
    /\ call[c].op = "replace"
    /\ \E d \in Cleaning : call[d].file = "clean"
    /\ log' = clean
    /\ end' = "newline"
    /\ clean' = <<>>
    /\ call' = CallsAfter(c, [clean |-> "log", log |-> "gone", gone |-> "gone"])
    /\ UNCHANGED <<now, last, submitted, acked, torn, stray, late, overlap>>

(* An I/O error, or the .clean file is there no longer: the file that has  *)
(* its name is removed, the log is as it was.                              *)
CleanupFails(c) ==
    /\ c \in Cleaning
    /\ clean' = <<>>
    /\ call' = CallsAfter(c, [clean |-> "gone", log |-> "log", gone |-> "gone"])
    /\ UNCHANGED <<now, log, end, last, submitted, acked, torn, stray, late, overlap>>

-----------------------------------------------------------------------------
Next ==
    \/ \E l \in Loggers : OpenLogger(l) \/ DropLogger(l)
    \/ Tick
    \/ Crash
    \/ \E c \in Callers :
          \/ \E l \in Loggers, time \in 0 .. MaxTime, stable \in BOOLEAN :
                LogEvent(c, l, time, stable)
          \/ WriteEvent(c) \/ WriteFails(c) \/ CrashInWrite(c)
          \/ CommitEvent(c) \/ CommitFails(c)
          \/ StartCleanup(c) \/ WriteKept(c) \/ FinishCleanup(c) \/ CleanupFails(c)

Spec == Init /\ [][Next]_vars

-----------------------------------------------------------------------------
(* PROPERTIES *)

(* A log verifies, through restarts, changes of logger, failed calls and   *)
(* cleanups (verify_log_integrity, cleanup_old_events): the cleanup        *)
(* removes a prefix, whose loss breaks no link.  Only five things break    *)
(* links: a torn append, a line whose log_event raised, a cleanup between  *)
(* events that were not logged in the order of their timestamps, calls or  *)
(* loggers that overlap, and a cleanup that overlaps.  An event that is    *)
(* not stable is a violation of its own.                                   *)
LogVerifies ==
    /\ torn = 0 /\ stray = {} /\ ~late /\ overlap = {}
    /\ \A e \in EventsIn(log) : e.stable
    => Violations(log) = {}

Lost == {e \in acked : e.time >= now - Retention /\ e \notin EventsIn(log)}

(* An event whose log_event returned stays readable in the file for the    *)
(* retention period (_write_event_atomic, cleanup_old_events).             *)
AckedEventsAreKept == Lost = {}

(* Torn appends do not cascade: each of them costs at most one event that  *)
(* was logged successfully, the one glued to what the torn append left.    *)
(* Overlapping calls and loggers break links but lose nothing; only a      *)
(* cleanup that overlaps does (log_event, cleanup_old_events).             *)
LossBoundedByTornWrites == "cleanup" \notin overlap => Cardinality(Lost) <= torn

(* No silent loss: when an event that was logged successfully and is not   *)
(* past its retention cannot be read, verify_log_integrity does not answer *)
(* "verified", not even after the malformed line went through a cleanup    *)
(* ("Keep malformed events for audit trail").                              *)
LossIsReported == "cleanup" \notin overlap /\ Lost # {} => Violations(log) # {}

(* Unless two cleanups overlapped, which share the .clean file: no line is *)
(* there twice, and the readable lines are in the order in which the       *)
(* events were submitted, unless two calls or loggers overlapped           *)
(* (log_event, cleanup_old_events).                                        *)
LogInOrder ==
    \A i, j \in DOMAIN log :
        i < j /\ IsEvent(log[i]) /\ IsEvent(log[j]) /\ "cleanups" \notin overlap =>
            /\ log[i].hash # log[j].hash
            /\ "append" \notin overlap => log[i].hash < log[j].hash

(* Whatever a step does to the file, a readable line disappears only when  *)
(* its event is past retention, when it was the last and unterminated, or  *)
(* in a cleanup that overlaps with another call.                           *)
ReadableLinesStay ==
    [][\A i \in DOMAIN log :
          \/ log[i] \in Range(log')
          \/ ~Retained(log[i])
          \/ i = Len(log) /\ end # "newline"
          \/ "cleanup" \in overlap]_vars

(* _last_hash of a logger used alone is the hash of the last event in the  *)
(* file, so that the next event continues the chain the file holds, after  *)
(* restarts, changes of logger, cleanups and failed calls that left        *)
(* nothing (log_event, _load_last_hash).                                   *)
ChainContinues ==
    \A l \in Loggers :
        /\ last[l] # Closed
        /\ \A m \in Loggers \ {l} : last[m] = Closed
        /\ \A c \in Callers : call[c] = Idle
        /\ EventsIn(log) # {}
        /\ torn = 0 /\ stray = {} /\ ~late /\ overlap = {}
        => \E e \in EventsIn(log) :
              e.hash = last[l] /\ \A f \in EventsIn(log) : f.hash <= e.hash
=============================================================================
