------------------------- MODULE AuditLoggerProofs -------------------------
(* Theorems about AuditLogger, for every number of loggers, callers, events*)
(* and torn appends, and every retention.                                  *)
EXTENDS AuditLogger, FiniteSetTheorems, SequenceTheorems, WellFoundedInduction, TLAPS

-----------------------------------------------------------------------------
(* Induction.  The library's theorems take a predicate as a parameter; a   *)
(* set of numbers says the same, and the provers can instantiate it.       *)

LEMMA LeastNatural ==
    ASSUME NEW S \in SUBSET Nat, S # {}
    PROVE  \E n \in S : \A m \in S : n <= m
<1>1. PICK x \in S : \A y \in S : ~(<<y, x>> \in OpToRel(<, Nat))
  BY Zenon, WFMin, NatLessThanWellFounded
<1>2. \A y \in S : ~(y < x)
  BY <1>1 DEF OpToRel
<1> QED BY <1>2

LEMMA SetInduction ==
    ASSUME NEW S, 0 \in S, \A n \in Nat : n \in S => n + 1 \in S
    PROVE  Nat \subseteq S
<1> SUFFICES ASSUME Nat \ S # {} PROVE FALSE
  OBVIOUS
<1>1. PICK n \in Nat \ S : \A m \in Nat \ S : n <= m
  <2>1. Nat \ S \in SUBSET Nat
    OBVIOUS
  <2> QED BY <2>1, LeastNatural
<1>2. n # 0 /\ n - 1 \in Nat /\ n - 1 \in S
  BY <1>1
<1> QED BY <1>1, <1>2

-----------------------------------------------------------------------------
(* What a cleanup copies. *)

(* The recursive function exists, so it satisfies its definition.          *)
LEMMA KeptUnfold ==
    ASSUME NEW lines \in Seq(Line)
    PROVE  /\ Kept(lines)[0] = <<>>
           /\ \A n \in 1 .. Len(lines) :
                 Kept(lines)[n] = IF Retained(lines[n]) THEN Append(Kept(lines)[n - 1], lines[n])
                                  ELSE Kept(lines)[n - 1]
<1> DEFINE IsKept(g, m) ==
             g = [n \in 0 .. m |->
                    IF n = 0 THEN <<>>
                    ELSE IF Retained(lines[n]) THEN Append(g[n - 1], lines[n])
                    ELSE g[n - 1]]
           Reached == {m \in Nat : \E g : IsKept(g, m)}
<1>1. 0 \in Reached
  <2>1. IsKept([n \in 0 .. 0 |-> <<>>], 0)
    OBVIOUS
  <2> QED BY <2>1
<1>2. ASSUME NEW m \in Nat, m \in Reached PROVE m + 1 \in Reached
  <2>1. PICK g : IsKept(g, m)
    BY <1>2
  <2> DEFINE h == [n \in 0 .. m + 1 |->
                     IF n <= m THEN g[n]
                     ELSE IF Retained(lines[n]) THEN Append(g[m], lines[n])
                     ELSE g[m]]
  <2>2. \A n \in 0 .. m : g[n] = IF n = 0 THEN <<>>
                                 ELSE IF Retained(lines[n]) THEN Append(g[n - 1], lines[n])
                                 ELSE g[n - 1]
    BY <2>1
  <2>3. \A n \in 0 .. m + 1 : h[n] = IF n = 0 THEN <<>>
                                     ELSE IF Retained(lines[n]) THEN Append(h[n - 1], lines[n])
                                     ELSE h[n - 1]
    <3> TAKE n \in 0 .. m + 1
    <3>1. CASE n = 0
      BY <2>2, <3>1
    <3>2. CASE n # 0 /\ n <= m
      <4>1. n - 1 \in 0 .. m + 1 /\ n - 1 <= m /\ n \in 0 .. m
        BY <3>2
      <4> QED BY <2>2, <3>2, <4>1
    <3>3. CASE n = m + 1
      <4>1. m \in 0 .. m + 1 /\ n - 1 = m /\ n # 0 /\ ~(n <= m)
        BY <3>3
      <4> QED BY <4>1
    <3> QED BY <3>1, <3>2, <3>3
  <2>4. IsKept(h, m + 1)
    <3> HIDE DEF IsKept
    <3>1. h = [n \in 0 .. m + 1 |-> h[n]]
      OBVIOUS
    <3> HIDE DEF h
    <3> QED BY <2>3, <3>1 DEF IsKept
  <2> HIDE DEF IsKept
  <2> QED BY <2>4
<1>3. Len(lines) \in Reached
  <2> HIDE DEF Reached
  <2>1. Nat \subseteq Reached
    BY <1>1, <1>2, SetInduction
  <2> QED BY <2>1
<1>4. IsKept(Kept(lines), Len(lines))
  <2>1. PICK g : IsKept(g, Len(lines))
    BY <1>3
  <2>2. Kept(lines) = CHOOSE x : IsKept(x, Len(lines))
    BY Zenon DEF Kept
  <2> HIDE DEF IsKept
  <2> QED BY <2>1, <2>2
<1>5. \A n \in 0 .. Len(lines) :
         Kept(lines)[n] = IF n = 0 THEN <<>>
                          ELSE IF Retained(lines[n]) THEN Append(Kept(lines)[n - 1], lines[n])
                          ELSE Kept(lines)[n - 1]
  BY <1>4
<1> QED BY <1>5

(* The sequence kept has the retained ones of the first n lines, in their  *)
(* order: its line i is line f[i].                                         *)
Selects(f, kept, lines, n) ==
    /\ f \in [DOMAIN kept -> 1 .. n]
    /\ \A i, j \in DOMAIN kept : i < j => f[i] < f[j]
    /\ \A i \in DOMAIN kept : kept[i] = lines[f[i]] /\ Retained(lines[f[i]])
    /\ \A k \in 1 .. n : Retained(lines[k]) => \E i \in DOMAIN kept : f[i] = k

LEMMA KeptIsSelection ==
    ASSUME NEW lines \in Seq(Line)
    PROVE  /\ Kept(lines)[Len(lines)] \in Seq(Line)
           /\ \E f : Selects(f, Kept(lines)[Len(lines)], lines, Len(lines))
<1> DEFINE Good(n) == Kept(lines)[n] \in Seq(Line) /\ \E f : Selects(f, Kept(lines)[n], lines, n)
           Done == {n \in Nat : n <= Len(lines) => Good(n)}
<1>1. 0 \in Done
  <2>1. Kept(lines)[0] = <<>>
    BY KeptUnfold
  <2> DEFINE none == [i \in DOMAIN <<>> |-> 0]
  <2>2. DOMAIN <<>> = {} /\ 1 .. 0 = {} /\ <<>> \in Seq(Line)
    OBVIOUS
  <2>3. none \in [DOMAIN <<>> -> 1 .. 0]
    BY <2>2
  <2>4. Selects(none, <<>>, lines, 0)
    BY <2>2, <2>3 DEF Selects
  <2> QED BY <2>1, <2>2, <2>4
<1>2. ASSUME NEW n \in Nat, n \in Done PROVE n + 1 \in Done
  <2> SUFFICES ASSUME n + 1 <= Len(lines) PROVE Good(n + 1)
    OBVIOUS
  <2> DEFINE old == Kept(lines)[n]
             new == Kept(lines)[n + 1]
  <2>1. n + 1 \in 1 .. Len(lines) /\ n + 1 - 1 = n /\ lines[n + 1] \in Line /\ n <= Len(lines)
    OBVIOUS
  <2>2. new = IF Retained(lines[n + 1]) THEN Append(old, lines[n + 1]) ELSE old
    BY <2>1, KeptUnfold
  <2>3. old \in Seq(Line)
    BY <1>2, <2>1
  <2>4. PICK f : Selects(f, old, lines, n)
    BY <1>2, <2>1
  <2> HIDE DEF old, new
  <2>5. CASE ~Retained(lines[n + 1])
    <3>1. Selects(f, old, lines, n + 1)
      BY <2>3, <2>4, <2>5 DEF Selects
    <3> QED BY <2>2, <2>3, <2>5, <3>1 DEF new
  <2>6. CASE Retained(lines[n + 1])
    <3> DEFINE g == [i \in 1 .. Len(old) + 1 |-> IF i <= Len(old) THEN f[i] ELSE n + 1]
    <3>1. /\ new \in Seq(Line) /\ DOMAIN new = 1 .. Len(old) + 1 /\ Len(old) \in Nat
          /\ DOMAIN old = 1 .. Len(old)
          /\ \A i \in DOMAIN old : new[i] = old[i]
          /\ new[Len(old) + 1] = lines[n + 1]
      BY <2>1, <2>2, <2>3, <2>6
    <3>2. \A i \in 1 .. Len(old) : f[i] \in 1 .. n
      BY <2>4, <3>1 DEF Selects
    <3>3. g \in [DOMAIN new -> 1 .. n + 1]
      BY <3>1, <3>2
    <3>4. \A i, j \in DOMAIN new : i < j => g[i] < g[j]
      BY <2>4, <3>1, <3>2 DEF Selects
    <3>5. \A i \in DOMAIN new : new[i] = lines[g[i]] /\ Retained(lines[g[i]])
      BY <2>4, <2>6, <3>1 DEF Selects
    <3>6. ASSUME NEW k \in 1 .. n + 1, Retained(lines[k])
          PROVE  \E i \in DOMAIN new : g[i] = k
      <4>1. CASE k = n + 1
        BY <3>1, <4>1
      <4>2. CASE k \in 1 .. n
        <5>1. PICK i \in DOMAIN old : f[i] = k
          BY <2>4, <3>6, <4>2 DEF Selects
        <5> QED BY <3>1, <5>1
      <4> QED BY <4>1, <4>2
    <3>7. Selects(g, new, lines, n + 1)
      BY <3>3, <3>4, <3>5, <3>6 DEF Selects
    <3> QED BY <3>1, <3>7 DEF new
  <2> QED BY <2>5, <2>6
<1>3. Len(lines) \in Done
  <2> HIDE DEF Done
  <2>1. Nat \subseteq Done
    BY <1>1, <1>2, SetInduction
  <2> QED BY <2>1
<1> QED BY <1>3

-----------------------------------------------------------------------------
(* Lines and calls. *)

AppendCall == [op : {"write", "commit"}, logger : Loggers, event : Event]
Files == {"clean", "log", "gone"}
CleanupCall == [op : {"copy", "replace"}, file : Files, kept : Seq(Line)]

LEMMA CallKinds ==
    ASSUME TypeOK, NEW c \in Callers
    PROVE  /\ c \in Appending <=> call[c] \in AppendCall
           /\ c \in Cleaning <=> call[c] \in CleanupCall
           /\ c \notin Appending \cup Cleaning <=> call[c] = Idle
           /\ c \in Appending => /\ call[c].event \in Event
                                 /\ call[c].logger \in Loggers
                                 /\ call[c].op \in {"write", "commit"}
           /\ c \in Cleaning => /\ call[c].kept \in Seq(Line)
                                /\ call[c].file \in Files
                                /\ call[c].op \in {"copy", "replace"}
<1>1. call[c] \in AppendCall \/ call[c] \in CleanupCall \/ call[c] = Idle
  BY DEF TypeOK, Call, AppendCall, CleanupCall, Files
<1>2. CASE call[c] \in AppendCall
  <2>1. /\ call[c].op \in {"write", "commit"} /\ call[c].event \in Event
        /\ call[c].logger \in Loggers
    BY <1>2 DEF AppendCall
  <2>2. call[c] \notin CleanupCall /\ call[c] # Idle
    BY <2>1 DEF CleanupCall, Idle
  <2> QED BY <1>2, <2>1, <2>2 DEF Appending, Cleaning
<1>3. CASE call[c] \in CleanupCall
  <2>1. /\ call[c].op \in {"copy", "replace"} /\ call[c].kept \in Seq(Line)
        /\ call[c].file \in Files
    BY <1>3 DEF CleanupCall
  <2>2. call[c] \notin AppendCall /\ call[c] # Idle
    BY <2>1 DEF AppendCall, Idle
  <2> QED BY <1>3, <2>1, <2>2 DEF Appending, Cleaning
<1>4. CASE call[c] = Idle
  <2>1. call[c].op = "idle"
    BY <1>4 DEF Idle
  <2>2. call[c] \notin AppendCall /\ call[c] \notin CleanupCall
    BY <2>1 DEF AppendCall, CleanupCall
  <2> QED BY <1>4, <2>1, <2>2 DEF Appending, Cleaning
<1> QED BY <1>1, <1>2, <1>3, <1>4

LEMMA LineFacts ==
    /\ Garbage \in Line /\ ~IsEvent(Garbage) /\ Garbage.hash = 0 /\ Retained(Garbage)
    /\ \A line \in Line : /\ line.hash \in 0 .. MaxEvents /\ line.time \in 0 .. MaxTime
                          /\ line.prev \in Hashes
                          /\ IsEvent(line) => line \in Event
                          /\ ~IsEvent(line) => line = Garbage
    /\ \A e \in Event : e \in Line /\ IsEvent(e) /\ e.hash \in 1 .. MaxEvents
  BY AuditAssumption DEF Line, Event, Garbage, IsEvent, NoHash, Hashes, Retained

(* Appending changes at most the last line, and adds at most one.          *)
LEMMA AppendLineFacts ==
    ASSUME log \in Seq(Line), NEW line \in Line
    PROVE  /\ AppendLine(line) \in Seq(Line)
           /\ end = "newline" => /\ Len(AppendLine(line)) = Len(log) + 1
                                 /\ AppendLine(line)[Len(log) + 1] = line
           /\ end # "newline" => Len(AppendLine(line)) = Len(log)
           /\ end # "newline" /\ log # <<>> => AppendLine(line)[Len(log)] = Garbage
           /\ \A i \in 1 .. Len(AppendLine(line)) - 1 :
                 i \in DOMAIN log /\ AppendLine(line)[i] = log[i]
           /\ end = "newline" => \A i \in DOMAIN log : AppendLine(line)[i] = log[i]
<1>1. CASE end = "newline"
  BY <1>1 DEF AppendLine
<1>2. CASE end # "newline"
  <2> DEFINE new == [log EXCEPT ![Len(log)] = Garbage]
  <2>1. AppendLine(line) = new
    BY <1>2 DEF AppendLine
  <2>2. DOMAIN log = 1 .. Len(log) /\ Len(log) \in Nat /\ DOMAIN new = 1 .. Len(log)
    OBVIOUS
  <2>3. \A i \in 1 .. Len(log) : new[i] = IF i = Len(log) THEN Garbage ELSE log[i]
    BY <2>2
  <2>4. \A i \in 1 .. Len(log) : new[i] \in Line
    BY <2>3, LineFacts
  <2>5. new = [i \in 1 .. Len(log) |-> new[i]]
    BY <2>2
  <2> HIDE DEF new
  <2>6. new \in Seq(Line)
    BY <2>2, <2>4, <2>5, SeqDef
  <2>7. Len(new) = Len(log)
    BY <2>2, <2>6
  <2>8. log # <<>> => Len(log) \in 1 .. Len(log)
    BY <2>2, EmptySeq
  <2>9. \A i \in 1 .. Len(new) - 1 : i \in DOMAIN log /\ new[i] = log[i]
    <3> SUFFICES ASSUME NEW i \in 1 .. Len(log) - 1 PROVE i \in DOMAIN log /\ new[i] = log[i]
      BY <2>7
    <3>1. i \in 1 .. Len(log) /\ i # Len(log)
      OBVIOUS
    <3> QED BY <2>2, <2>3, <3>1
  <2>10. log # <<>> => new[Len(log)] = Garbage
    BY <2>3, <2>8
  <2> QED BY <1>2, <2>1, <2>6, <2>7, <2>9, <2>10
<1> QED BY <1>1, <1>2

-----------------------------------------------------------------------------
(* Types. *)

LEMMA KeptType == TypeOK => Kept(log)[Len(log)] \in Seq(Line)
  BY KeptIsSelection DEF TypeOK

(* What is written over lines is lines, and no fewer than were written;    *)
(* an empty file gets just them.                                           *)
LEMMA OverwrittenFacts ==
    ASSUME NEW old \in Seq(Line), NEW new \in Seq(Line), NEW lines \in Overwritten(old, new)
    PROVE  /\ lines \in Seq(Line)
           /\ old = <<>> => lines = new
<1>1. CASE new = <<>>
  BY <1>1 DEF Overwritten
<1>2. CASE new # <<>> /\ lines = new
  BY <1>2
<1>3. CASE new # <<>> /\ lines # new
  <2> DEFINE rests == {SubSeq(old, n, Len(old)) : n \in 2 .. Len(old) + 1}
  <2>1. PICK r \in rests \cup {<<Garbage>> \o q : q \in rests} : lines = new \o r
    BY <1>3, Zenon DEF Overwritten
  <2>2. \A q \in rests : q \in Seq(Line) /\ old # <<>>
    <3> SUFFICES ASSUME NEW n \in 2 .. Len(old) + 1
                 PROVE  SubSeq(old, n, Len(old)) \in Seq(Line) /\ old # <<>>
      OBVIOUS
    <3>1. \A i \in n .. Len(old) : old[i] \in Line
      OBVIOUS
    <3>2. SubSeq(old, n, Len(old)) \in Seq(Line)
      BY <3>1, SubSeqProperties
    <3> QED BY <3>2
  <2> HIDE DEF rests
  <2>3. r \in Seq(Line) /\ old # <<>>
    <3>1. <<Garbage>> \in Seq(Line)
      BY LineFacts
    <3>2. CASE r \in rests
      BY <2>2, <3>2
    <3>3. CASE r \notin rests
      <4>1. PICK q \in rests : r = <<Garbage>> \o q
        BY <2>1, <3>3
      <4> QED BY <2>2, <3>1, <4>1, ConcatProperties
    <3> QED BY <3>2, <3>3
  <2> QED BY <2>1, <2>3
<1> QED BY <1>1, <1>2, <1>3

(* The end of a cleanup changes nothing of the other calls but the file    *)
(* that the other cleanups write.                                          *)
LEMMA CallsAfterFacts ==
    ASSUME TypeOK, NEW c \in Callers, NEW becomes \in [Files -> Files],
           call' = CallsAfter(c, becomes)
    PROVE  /\ call' \in [Callers -> Call \cup {Idle}]
           /\ call'[c] = Idle
           /\ \A d \in Callers \ {c} :
                 /\ d \notin Cleaning => call'[d] = call[d]
                 /\ d \in Cleaning => call'[d].op = call[d].op /\ call'[d].kept = call[d].kept
<1>1. /\ DOMAIN call' = Callers /\ call' = [d \in Callers |-> call'[d]]
      /\ call'[c] = Idle
      /\ \A d \in Callers \ {c} :
            /\ d \notin Cleaning => call'[d] = call[d]
            /\ d \in Cleaning => call'[d] = [call[d] EXCEPT !.file = becomes[call[d].file]]
  BY DEF CallsAfter
<1>2. ASSUME NEW d \in Callers \ {c}, d \in Cleaning
      PROVE  call'[d] \in Call /\ call'[d].op = call[d].op /\ call'[d].kept = call[d].kept
  <2>1. call[d] \in CleanupCall /\ becomes[call[d].file] \in Files
    BY <1>2, CallKinds
  <2>2. call'[d] = [call[d] EXCEPT !.file = becomes[call[d].file]]
    BY <1>1, <1>2
  <2> QED BY <2>1, <2>2 DEF CleanupCall, Call, Files
<1>3. \A d \in Callers : call'[d] \in Call \cup {Idle}
  BY <1>1, <1>2 DEF TypeOK
<1> QED BY <1>1, <1>2, <1>3

LEMMA CleanupEndCalls ==
    ASSUME TypeOK, NEW c \in Callers, FinishCleanup(c) \/ CleanupFails(c)
    PROVE  \E becomes \in [Files -> Files] : call' = CallsAfter(c, becomes)
<1>1. /\ [clean |-> "log", log |-> "gone", gone |-> "gone"] \in [Files -> Files]
      /\ [clean |-> "gone", log |-> "log", gone |-> "gone"] \in [Files -> Files]
  BY DEF Files
<1> QED BY <1>1 DEF FinishCleanup, CleanupFails

(* The records of a torn or completed append are lines.                    *)
LEMMA LeavePartType ==
    ASSUME TypeOK, NEW c \in Callers, call[c].op = "write", LeavePart(c)
    PROVE  /\ log' \in Seq(Line)
           /\ end' \in {"newline", "complete", "partial"}
           /\ torn' \in Nat
<1>1. call[c].event \in Line
  BY CallKinds, LineFacts DEF Appending
<1>2. CASE UNCHANGED <<log, end, torn>>
  BY <1>2 DEF TypeOK
<1>3. ASSUME NEW part \in {"partial", "complete"},
             log' = AppendLine(IF part = "partial" THEN Garbage ELSE call[c].event),
             end' = part, torn' = torn + 1
      PROVE  log' \in Seq(Line) /\ end' \in {"newline", "complete", "partial"} /\ torn' \in Nat
  BY <1>1, <1>3, AppendLineFacts, LineFacts DEF TypeOK
<1> QED BY <1>2, <1>3 DEF LeavePart

LEMMA TypeStep == TypeOK /\ [Next]_vars => TypeOK'
<1> SUFFICES ASSUME TypeOK, [Next]_vars PROVE TypeOK'
  OBVIOUS
<1> USE AuditAssumption
<1>1. ASSUME NEW l \in Loggers, OpenLogger(l) PROVE TypeOK'
  <2>1. LoadLastHash \in Hashes \cup {Closed}
    BY LineFacts DEF LoadLastHash, Hashes, NoHash, TypeOK
  <2> QED BY <1>1, <2>1 DEF OpenLogger, TypeOK
<1>2. ASSUME NEW l \in Loggers, DropLogger(l) PROVE TypeOK'
  BY <1>2 DEF DropLogger, TypeOK
<1>3. CASE Tick
  BY <1>3 DEF Tick, TypeOK
<1>4. CASE Crash
  BY <1>4 DEF Crash, TypeOK
<1>5. ASSUME NEW c \in Callers, NEW l \in Loggers, NEW time \in 0 .. MaxTime, NEW stable \in BOOLEAN,
             LogEvent(c, l, time, stable)
      PROVE  TypeOK'
  <2> DEFINE new == [op |-> "write", logger |-> l, event |-> NewEvent(l, time, stable)]
  <2>1. /\ submitted + 1 \in 1 .. MaxEvents /\ last[l] \in Hashes
    BY <1>5 DEF LogEvent, TypeOK
  <2>2. NewEvent(l, time, stable) \in Event
    BY <2>1 DEF NewEvent, Event
  <2>3. new \in Call
    BY <2>2 DEF Call
  <2>4. LogEventOverlaps(l) \subseteq {"append", "cleanup"}
    BY DEF LogEventOverlaps
  <2> HIDE DEF new
  <2>5. call' \in [Callers -> Call \cup {Idle}]
    BY <1>5, <2>3 DEF LogEvent, TypeOK, new
  <2>6. overlap' \subseteq {"append", "cleanup", "cleanups"}
    BY <1>5, <2>4 DEF LogEvent, TypeOK
  <2> QED BY <1>5, <2>1, <2>5, <2>6 DEF LogEvent, TypeOK
<1>6. ASSUME NEW c \in Callers, WriteEvent(c) PROVE TypeOK'
  <2>1. call[c] \in AppendCall /\ call[c].event \in Line
    BY <1>6, CallKinds, LineFacts DEF WriteEvent, Appending
  <2>2. [call[c] EXCEPT !.op = "commit"] \in Call
    BY <2>1 DEF AppendCall, Call
  <2>3. call' \in [Callers -> Call \cup {Idle}]
    BY <1>6, <2>2 DEF WriteEvent, TypeOK
  <2>4. log' \in Seq(Line)
    BY <1>6, <2>1, AppendLineFacts DEF WriteEvent, TypeOK
  <2> QED BY <1>6, <2>3, <2>4 DEF WriteEvent, TypeOK
<1>7. ASSUME NEW c \in Callers, WriteFails(c) PROVE TypeOK'
  BY <1>7, LeavePartType DEF WriteFails, TypeOK
<1>8. ASSUME NEW c \in Callers, CrashInWrite(c) PROVE TypeOK'
  BY <1>8, LeavePartType DEF CrashInWrite, TypeOK
<1>9. ASSUME NEW c \in Callers, CommitEvent(c) PROVE TypeOK'
  <2>1. call[c].event \in Event /\ call[c].event.hash \in Hashes
    BY <1>9, CallKinds, LineFacts DEF CommitEvent, Appending, Hashes
  <2> QED BY <1>9, <2>1 DEF CommitEvent, TypeOK
<1>10. ASSUME NEW c \in Callers, StartCleanup(c) PROVE TypeOK'
  <2> DEFINE new == [op |-> "copy", file |-> "clean", kept |-> Kept(log)[Len(log)]]
  <2>1. new \in Call
    BY KeptType DEF Call
  <2> HIDE DEF new
  <2>2. call' \in [Callers -> Call \cup {Idle}]
    BY <1>10, <2>1 DEF StartCleanup, TypeOK, new
  <2>3. overlap' \subseteq {"append", "cleanup", "cleanups"}
    BY <1>10 DEF StartCleanup, CleanupOverlaps, TypeOK
  <2> QED BY <1>10, <2>2, <2>3 DEF StartCleanup, TypeOK
<1>11. ASSUME NEW c \in Callers, WriteKept(c) PROVE TypeOK'
  <2>1. call[c] \in CleanupCall /\ call[c].kept \in Seq(Line)
    BY <1>11, CallKinds DEF WriteKept, Cleaning
  <2>2. [call[c] EXCEPT !.op = "replace"] \in Call
    BY <2>1 DEF CleanupCall, Call, Files
  <2>3. call' \in [Callers -> Call \cup {Idle}]
    BY <1>11, <2>2 DEF WriteKept, TypeOK
  <2>4. log' \in Seq(Line) /\ clean' \in Seq(Line) /\ end' \in {end, "newline"}
    BY <1>11, <2>1, OverwrittenFacts DEF WriteKept, TypeOK
  <2> QED BY <1>11, <2>3, <2>4 DEF WriteKept, TypeOK
<1>12. ASSUME NEW c \in Callers, FinishCleanup(c) \/ CleanupFails(c) PROVE TypeOK'
  <2>1. call' \in [Callers -> Call \cup {Idle}]
    BY <1>12, CleanupEndCalls, CallsAfterFacts
  <2>2. log' \in {log, clean} /\ clean' = <<>> /\ end' \in {end, "newline"}
    BY <1>12 DEF FinishCleanup, CleanupFails
  <2>3. UNCHANGED <<now, last, submitted, acked, torn, stray, late, overlap>>
    BY <1>12 DEF FinishCleanup, CleanupFails
  <2>4. log' \in Seq(Line) /\ clean' \in Seq(Line)
    BY <2>2 DEF TypeOK
  <2> QED BY <2>1, <2>2, <2>3, <2>4 DEF TypeOK
<1>13. ASSUME NEW c \in Callers, CommitFails(c) PROVE TypeOK'
  <2>1. call[c].event.hash \in 1 .. MaxEvents
    BY <1>13, CallKinds, LineFacts DEF CommitFails, Appending
  <2> QED BY <1>13, <2>1 DEF CommitFails, TypeOK
<1>14. CASE UNCHANGED vars
  BY <1>14 DEF vars, TypeOK
<1> QED BY <1>1, <1>2, <1>3, <1>4, <1>5, <1>6, <1>7, <1>8, <1>9, <1>10, <1>11, <1>12, <1>13, <1>14
        DEF Next

LEMMA TypeInit == Init => TypeOK
<1>1. <<>> \in Seq(Line) /\ Closed \in Hashes \cup {Closed}
  OBVIOUS
<1> SUFFICES ASSUME Init PROVE TypeOK
  OBVIOUS
<1>2. 0 \in 0 .. MaxTime /\ 0 \in 0 .. MaxEvents /\ 0 \in Nat
  BY AuditAssumption
<1>3. last \in [Loggers -> Hashes \cup {Closed}] /\ call \in [Callers -> Call \cup {Idle}]
  BY DEF Init
<1>4. log \in Seq(Line) /\ clean \in Seq(Line) /\ end \in {"newline", "complete", "partial"} /\ late \in BOOLEAN
  BY <1>1 DEF Init
<1> QED BY <1>2, <1>3, <1>4 DEF Init, TypeOK

(* Every variable keeps its type, the calls under way included.            *)
THEOREM AuditTypeCorrect == Spec => []TypeOK
  BY TypeInit, TypeStep, PTL DEF Spec

-----------------------------------------------------------------------------
(* What the properties rest on. *)

(* The log and the copies of it that cleanups are about to put in its      *)
(* place.                                                                  *)
Logs == {log} \cup {call[c].kept : c \in Cleaning}

Unwritten == {c \in Appending : call[c].op = "write"}
Written == {c \in Appending : call[c].op = "commit"}

(* Events are submitted in the order of their hashes, each by one call,    *)
(* and a call that has not written its event has it to itself.             *)
HashInv ==
    /\ \A c \in Appending :
          /\ call[c].event.hash <= submitted
          /\ \A d \in Appending \ {c} : call[d].event.hash # call[c].event.hash
          /\ \A e \in acked : e.hash # call[c].event.hash
    /\ \A e \in acked : e.hash <= submitted

(* Without two cleanups that overlap, which may write over the log, the    *)
(* lines are of events that were submitted and written.                    *)
LineInv ==
    "cleanups" \notin overlap =>
        \A lines \in Logs : \A i \in DOMAIN lines :
            /\ lines[i].hash <= submitted
            /\ \A c \in Unwritten : lines[i].hash # call[c].event.hash

(* Without overlapping appends, a call has the event submitted last.       *)
OneAppend ==
    "append" \notin overlap =>
        /\ \A c, d \in Appending : c = d
        /\ \A c \in Appending : call[c].event.hash = submitted

Ordered(lines) ==
    \A i, j \in DOMAIN lines :
        i < j /\ IsEvent(lines[i]) /\ IsEvent(lines[j]) =>
            /\ lines[i].hash # lines[j].hash
            /\ "append" \notin overlap => lines[i].hash < lines[j].hash

OrderInv == "cleanups" \notin overlap => \A lines \in Logs : Ordered(lines)

(* A line without its newline is the part that a torn append left; what is *)
(* readable in it was not logged successfully.                             *)
TailInv ==
    end # "newline" =>
        /\ log # <<>>
        /\ "cleanups" \notin overlap =>
              /\ \A e \in acked : log[Len(log)] # e
              /\ \A c \in Appending : log[Len(log)] # call[c].event

(* A cleanup that no other one overlaps has the .clean file to itself.     *)
FileInv ==
    /\ "cleanups" \in overlap => "cleanup" \in overlap
    /\ "cleanups" \notin overlap =>
          \A c \in Cleaning :
              /\ Cleaning = {c}
              /\ call[c].file = "clean"
              /\ clean = IF call[c].op = "copy" THEN <<>> ELSE call[c].kept

(* Without overlapping cleanups, a cleanup works alone, and on the whole   *)
(* log.                                                                    *)
CleanInv ==
    "cleanup" \notin overlap =>
        \A c \in Cleaning :
            /\ Appending = {}
            /\ Cleaning = {c}
            /\ \A i \in DOMAIN log : Retained(log[i]) => log[i] \in Range(call[c].kept)

(* What was logged, or only awaits the return of its call, and cannot be   *)
(* read; an unterminated line is one event more, the next to be appended.  *)
Gone ==
    {e \in acked \cup {call[c].event : c \in Written} :
        e.time >= now - Retention /\ e \notin EventsIn(log)}

LossInv ==
    "cleanup" \notin overlap =>
        /\ IsFiniteSet(Gone)
        /\ Cardinality(Gone) + (IF end = "newline" THEN 0 ELSE 1) <= torn
        /\ Gone # {} => Garbage \in Range(log)

(* What LogVerifies and ChainContinues assume.                             *)
Calm == torn = 0 /\ stray = {} /\ ~late /\ overlap = {}

(* Events in the order of their times, each with the hash of the last.     *)
Chained(lines) ==
    /\ \A i \in DOMAIN lines : IsEvent(lines[i]) /\ lines[i].time <= now
    /\ \A i, j \in DOMAIN lines : i < j => lines[i].time <= lines[j].time
    /\ \A i \in DOMAIN lines : i + 1 \in DOMAIN lines => lines[i + 1].prev = lines[i].hash

(* The last line. *)
Tip == log[Len(log)]

(* A call that appends is alone; its event continues the log.              *)
WriterInv(c) ==
    /\ last[call[c].logger] # Closed
    /\ \A l \in Loggers : last[l] # Closed => l = call[c].logger
    /\ call[c].event.time <= now
    /\ c \in Unwritten /\ log # <<>> =>
          call[c].event.prev = Tip.hash /\ Tip.time <= call[c].event.time
    /\ c \in Written => log # <<>> /\ Tip = call[c].event

CopyInv(c) == call[c].kept # <<>> => log # <<>> /\ call[c].kept[Len(call[c].kept)] = Tip

ChainInv ==
    Calm =>
        /\ end = "newline"
        /\ \A lines \in Logs : Chained(lines)
        /\ \A c \in Appending : WriterInv(c)
        /\ \A c \in Cleaning : CopyInv(c)
        /\ Written = {} /\ log # <<>> =>
              \A l \in Loggers : last[l] # Closed => last[l] = Tip.hash

-----------------------------------------------------------------------------
(* What a step does to the calls under way. *)

LEMMA CallEnds ==
    ASSUME TypeOK, NEW c \in Callers, call' = [call EXCEPT ![c] = Idle]
    PROVE  /\ Appending' = Appending \ {c} /\ Unwritten' = Unwritten \ {c}
           /\ Written' = Written \ {c} /\ Cleaning' = Cleaning \ {c}
           /\ \A d \in Callers \ {c} : call'[d] = call[d]
<1>1. call'[c].op = "idle" /\ \A d \in Callers \ {c} : call'[d] = call[d]
  BY DEF TypeOK, Idle
<1> QED BY <1>1 DEF Appending, Unwritten, Written, Cleaning

LEMMA CallsEnd ==
    ASSUME call' = [d \in Callers |-> Idle]
    PROVE  Appending' = {} /\ Unwritten' = {} /\ Written' = {} /\ Cleaning' = {}
<1>1. \A d \in Callers : call'[d].op = "idle"
  BY DEF Idle
<1> QED BY <1>1 DEF Appending, Unwritten, Written, Cleaning

LEMMA CallsStay ==
    ASSUME call' = call
    PROVE  Appending' = Appending /\ Unwritten' = Unwritten /\ Written' = Written
           /\ Cleaning' = Cleaning
  BY DEF Appending, Unwritten, Written, Cleaning

LEMMA CallLogs ==
    ASSUME TypeOK, NEW c \in Callers, NEW l \in Loggers, NEW time \in 0 .. MaxTime,
           NEW stable \in BOOLEAN, LogEvent(c, l, time, stable)
    PROVE  /\ c \notin Appending \cup Cleaning
           /\ Appending' = Appending \cup {c} /\ Unwritten' = Unwritten \cup {c}
           /\ Written' = Written /\ Cleaning' = Cleaning
           /\ call'[c].event = NewEvent(l, time, stable) /\ call'[c].logger = l
           /\ \A d \in Callers \ {c} : call'[d] = call[d]
<1>1. call[c].op = "idle"
  BY DEF LogEvent, Idle
<1>2. /\ call'[c].op = "write" /\ call'[c].logger = l
      /\ call'[c].event = NewEvent(l, time, stable)
      /\ \A d \in Callers \ {c} : call'[d] = call[d]
  BY DEF LogEvent, TypeOK
<1> QED BY <1>1, <1>2 DEF Appending, Unwritten, Written, Cleaning

LEMMA CallWrites ==
    ASSUME TypeOK, NEW c \in Callers, WriteEvent(c)
    PROVE  /\ c \in Unwritten /\ c \notin Cleaning
           /\ Appending' = Appending /\ Unwritten' = Unwritten \ {c}
           /\ Written' = Written \cup {c} /\ Cleaning' = Cleaning
           /\ call'[c].event = call[c].event /\ call'[c].logger = call[c].logger
           /\ \A d \in Callers \ {c} : call'[d] = call[d]
<1>1. call[c].op = "write"
  BY DEF WriteEvent
<1>2. call[c] \in AppendCall
  BY <1>1, CallKinds DEF Appending
<1>3. /\ call'[c].op = "commit"
      /\ call'[c].event = call[c].event /\ call'[c].logger = call[c].logger
      /\ \A d \in Callers \ {c} : call'[d] = call[d]
  BY <1>2 DEF WriteEvent, TypeOK, AppendCall
<1> QED BY <1>1, <1>3 DEF Appending, Unwritten, Written, Cleaning

LEMMA CallCleans ==
    ASSUME TypeOK, NEW c \in Callers, StartCleanup(c)
    PROVE  /\ c \notin Appending \cup Cleaning
           /\ Appending' = Appending /\ Unwritten' = Unwritten
           /\ Written' = Written /\ Cleaning' = Cleaning \cup {c}
           /\ call'[c].kept = Kept(log)[Len(log)]
           /\ call'[c].op = "copy" /\ call'[c].file = "clean"
           /\ \A d \in Callers \ {c} : call'[d] = call[d]
<1>1. call[c].op = "idle"
  BY DEF StartCleanup, Idle
<1>2. /\ call'[c].op = "copy" /\ call'[c].kept = Kept(log)[Len(log)]
      /\ call'[c].file = "clean"
      /\ \A d \in Callers \ {c} : call'[d] = call[d]
  BY DEF StartCleanup, TypeOK
<1> QED BY <1>1, <1>2 DEF Appending, Unwritten, Written, Cleaning

LEMMA CallCopies ==
    ASSUME TypeOK, NEW c \in Callers, WriteKept(c)
    PROVE  /\ c \in Cleaning /\ call[c].op = "copy" /\ call'[c].op = "replace"
           /\ Appending' = Appending /\ Unwritten' = Unwritten
           /\ Written' = Written /\ Cleaning' = Cleaning
           /\ call'[c].kept = call[c].kept /\ call'[c].file = call[c].file
           /\ \A d \in Callers \ {c} : call'[d] = call[d]
<1>1. call[c].op = "copy"
  BY DEF WriteKept
<1>2. call[c] \in CleanupCall
  BY <1>1, CallKinds DEF Cleaning
<1>3. /\ call'[c].op = "replace"
      /\ call'[c].kept = call[c].kept /\ call'[c].file = call[c].file
      /\ \A d \in Callers \ {c} : call'[d] = call[d]
  BY <1>2 DEF WriteKept, TypeOK, CleanupCall
<1> QED BY <1>1, <1>3 DEF Appending, Unwritten, Written, Cleaning

LEMMA CleanupEnds ==
    ASSUME TypeOK, NEW c \in Callers, FinishCleanup(c) \/ CleanupFails(c)
    PROVE  /\ c \in Cleaning /\ c \notin Appending
           /\ Appending' = Appending /\ Unwritten' = Unwritten
           /\ Written' = Written /\ Cleaning' = Cleaning \ {c}
           /\ \A d \in Appending : call'[d] = call[d]
           /\ \A d \in Cleaning' : call'[d].kept = call[d].kept
<1>1. c \in Cleaning /\ c \notin Appending
  BY DEF FinishCleanup, CleanupFails, Cleaning, Appending
<1>2. /\ call'[c].op = "idle"
      /\ \A d \in Callers \ {c} :
            /\ d \notin Cleaning => call'[d] = call[d]
            /\ d \in Cleaning => call'[d].op = call[d].op /\ call'[d].kept = call[d].kept
  BY CleanupEndCalls, CallsAfterFacts DEF Idle
<1>3. \A d \in Callers \ {c} : call'[d].op = call[d].op
  BY <1>2
<1>4. Appending' = Appending /\ Cleaning' = Cleaning \ {c}
  BY <1>1, <1>2, <1>3 DEF Appending, Cleaning
<1>5. \A d \in Appending : d \in Callers \ {c} /\ d \notin Cleaning
  BY <1>1 DEF Appending, Cleaning
<1>6. Unwritten' = Unwritten /\ Written' = Written
  BY <1>2, <1>4, <1>5 DEF Unwritten, Written
<1> QED BY <1>1, <1>2, <1>4, <1>5, <1>6 DEF Cleaning

(* The calls that append and those that clean up are different callers.    *)
LEMMA CallSets ==
    /\ Appending \subseteq Callers /\ Cleaning \subseteq Callers
    /\ Appending \cap Cleaning = {}
    /\ Unwritten \subseteq Appending /\ Written \subseteq Appending
    /\ Unwritten \cap Written = {} /\ Appending = Unwritten \cup Written
  BY DEF Appending, Unwritten, Written, Cleaning

-----------------------------------------------------------------------------
(* The order of the log. *)

SubmitInv == HashInv /\ OneAppend /\ LineInv /\ OrderInv

(* A step after which fewer calls append and fewer copies are under way.   *)
LEMMA FewerCalls ==
    ASSUME SubmitInv, "cleanups" \notin overlap => Logs' \subseteq Logs,
           \A c \in Appending' : c \in Appending /\ call'[c] = call[c],
           UNCHANGED <<submitted, acked>>, overlap \subseteq overlap'
    PROVE  SubmitInv'
<1>1. \A c \in Unwritten' : c \in Unwritten
  BY DEF Unwritten
<1>2. HashInv'
  <2>1. \A c \in Appending' :
          /\ call'[c].event.hash <= submitted'
          /\ \A d \in Appending' \ {c} : call'[d].event.hash # call'[c].event.hash
          /\ \A e \in acked' : e.hash # call'[c].event.hash
    BY DEF SubmitInv, HashInv
  <2> QED BY <2>1 DEF SubmitInv, HashInv
<1>3. OneAppend'
  BY DEF SubmitInv, OneAppend
<1>4. LineInv'
  <2> SUFFICES ASSUME "cleanups" \notin overlap
               PROVE  \A lines \in Logs' : \A i \in DOMAIN lines :
                         /\ lines[i].hash <= submitted'
                         /\ \A c \in Unwritten' : lines[i].hash # call'[c].event.hash
    BY DEF LineInv
  <2>1. \A c \in Unwritten' : call'[c] = call[c]
    BY DEF Unwritten
  <2> QED BY <1>1, <2>1 DEF SubmitInv, LineInv
<1>5. OrderInv'
  BY DEF SubmitInv, OrderInv, Ordered
<1> QED BY <1>2, <1>3, <1>4, <1>5 DEF SubmitInv

(* An append that finishes or not, after which its caller has no event to  *)
(* write any more, and the others have no new one.                         *)
LEMMA LineAdded ==
    ASSUME TypeOK, TailInv, SubmitInv, NEW c \in Unwritten, NEW line \in {Garbage, call[c].event},
           log' = AppendLine(line),
           \A d \in Appending' : d \in Appending /\ call'[d].event = call[d].event,
           \A d \in Unwritten' : d \in Unwritten \ {c},
           \A d \in Cleaning' : d \in Cleaning /\ call'[d] = call[d],
           UNCHANGED <<submitted, acked, overlap>>
    PROVE  SubmitInv'
<1> DEFINE e == call[c].event
           old == log
           new == log'
<1>1. e \in Event /\ e \in Line /\ IsEvent(e) /\ e.hash \in 1 .. MaxEvents
  BY CallKinds, CallSets, LineFacts
<1>2. line \in Line /\ line.hash \in 0 .. MaxEvents
  BY <1>1, LineFacts
<1>3. \A lines \in Logs : lines \in Seq(Line)
  BY CallKinds, CallSets DEF Logs, TypeOK
<1>4. /\ new \in Seq(Line)
      /\ Len(new) \in Nat
      /\ DOMAIN new = 1 .. Len(new)
      /\ \A i \in DOMAIN new : \/ i \in DOMAIN log /\ new[i] = log[i]
                               \/ i = Len(new) /\ new[i] \in {line, Garbage}
  <2>1. /\ new \in Seq(Line) /\ DOMAIN new = 1 .. Len(new) /\ Len(new) \in Nat /\ Len(log) \in Nat
    BY <1>2, AppendLineFacts DEF TypeOK
  <2>2. ASSUME NEW i \in 1 .. Len(new)
        PROVE  \/ i \in DOMAIN log /\ new[i] = log[i]
               \/ i = Len(new) /\ new[i] \in {line, Garbage}
    <3>1. CASE i # Len(new)
      <4>1. i \in 1 .. Len(new) - 1
        BY <2>1, <3>1
      <4> QED BY <4>1, <1>2, AppendLineFacts DEF TypeOK
    <3>2. CASE i = Len(new)
      BY <1>2, <3>2, AppendLineFacts DEF TypeOK, TailInv
    <3> QED BY <3>1, <3>2
  <2> QED BY <2>1, <2>2
<1>5. \A lines \in Logs' : lines = new \/ lines \in Logs
  BY DEF Logs
<1>6. submitted \in 0 .. MaxEvents /\ e.hash <= submitted
  BY CallSets DEF SubmitInv, HashInv, TypeOK
<1>7. ASSUME "cleanups" \notin overlap
      PROVE  \A i \in DOMAIN new : /\ new[i].hash <= submitted
                                  /\ \A d \in Unwritten' : new[i].hash # call[d].event.hash
  <2> SUFFICES ASSUME NEW i \in DOMAIN new
               PROVE  /\ new[i].hash <= submitted
                      /\ \A d \in Unwritten' : new[i].hash # call[d].event.hash
    OBVIOUS
  <2>1. CASE i \in DOMAIN log /\ new[i] = log[i]
    BY <1>7, <2>1 DEF SubmitInv, LineInv, Logs
  <2>2. CASE new[i] = Garbage
    <3>1. \A d \in Unwritten' : call[d].event.hash \in 1 .. MaxEvents
      BY CallKinds, CallSets, LineFacts
    <3> QED BY <1>6, <2>2, <3>1, LineFacts
  <2>3. CASE new[i] = e
    BY <1>6, <2>3, CallSets DEF SubmitInv, HashInv
  <2> QED BY <1>4, <2>1, <2>2, <2>3
<1>8. HashInv'
  <2>1. \A d \in Appending' :
          /\ call'[d].event.hash <= submitted
          /\ \A b \in Appending' \ {d} : call'[b].event.hash # call'[d].event.hash
          /\ \A a \in acked : a.hash # call'[d].event.hash
    BY DEF SubmitInv, HashInv
  <2> QED BY <2>1 DEF SubmitInv, HashInv
<1>9. OneAppend'
  BY DEF SubmitInv, OneAppend
<1>10. LineInv'
  <2> SUFFICES ASSUME "cleanups" \notin overlap
               PROVE  \A lines \in Logs' : \A i \in DOMAIN lines :
                         /\ lines[i].hash <= submitted'
                         /\ \A d \in Unwritten' : lines[i].hash # call'[d].event.hash
    BY DEF LineInv
  <2>1. \A lines \in Logs' : \A i \in DOMAIN lines :
           /\ lines[i].hash <= submitted
           /\ \A d \in Unwritten' : lines[i].hash # call[d].event.hash
    BY <1>5, <1>7 DEF SubmitInv, LineInv
  <2>2. \A d \in Unwritten' : call'[d].event = call[d].event
    BY DEF Unwritten
  <2> QED BY <2>1, <2>2
<1>11. ASSUME "cleanups" \notin overlap PROVE Ordered(log)'
  <2> SUFFICES ASSUME NEW i \in DOMAIN new, NEW j \in DOMAIN new, i < j,
                      IsEvent(new[i]), IsEvent(new[j])
               PROVE  /\ new[i].hash # new[j].hash
                      /\ "append" \notin overlap => new[i].hash < new[j].hash
    BY DEF Ordered
  <2>1. i \in DOMAIN log /\ new[i] = log[i]
    BY <1>4
  <2>2. CASE j \in DOMAIN log /\ new[j] = log[j]
    <3>1. Ordered(log)
      BY <1>11 DEF SubmitInv, OrderInv, Logs
    <3> QED BY <2>1, <2>2, <3>1 DEF Ordered
  <2>3. CASE new[j] = e
    <3>1. log[i].hash # e.hash /\ log[i].hash <= submitted
      BY <1>11, <2>1 DEF SubmitInv, LineInv, Logs
    <3>2. log[i].hash \in 0 .. MaxEvents
      BY <2>1, LineFacts DEF TypeOK
    <3>3. "append" \notin overlap => e.hash = submitted
      BY CallSets DEF SubmitInv, OneAppend
    <3> QED BY <1>1, <1>6, <2>1, <2>3, <3>1, <3>2, <3>3
  <2> QED BY <1>4, <2>2, <2>3, LineFacts
<1>12. OrderInv'
  <2> SUFFICES ASSUME "cleanups" \notin overlap PROVE \A lines \in Logs' : Ordered(lines)'
    BY DEF OrderInv
  <2>1. \A lines \in Logs : Ordered(lines)'
    BY DEF SubmitInv, OrderInv, Ordered
  <2> QED BY <1>5, <1>11, <2>1
<1> QED BY <1>8, <1>9, <1>10, <1>12 DEF SubmitInv

LEMMA SubmitStep == TypeOK /\ TailInv /\ FileInv /\ SubmitInv /\ [Next]_vars => SubmitInv'
<1> SUFFICES ASSUME TypeOK, TailInv, FileInv, SubmitInv, [Next]_vars PROVE SubmitInv'
  OBVIOUS
<1>1. ASSUME UNCHANGED <<log, call, submitted, acked>>, overlap \subseteq overlap'
      PROVE  SubmitInv'
  <2>1. Logs' \subseteq Logs /\ Appending' = Appending
    BY <1>1, CallsStay DEF Logs
  <2> QED BY <1>1, <2>1, FewerCalls
<1>2. ASSUME NEW l \in Loggers, OpenLogger(l) \/ DropLogger(l) PROVE SubmitInv'
  BY <1>1, <1>2 DEF OpenLogger, DropLogger
<1>3. CASE Tick \/ UNCHANGED vars
  BY <1>1, <1>3 DEF Tick, vars
<1>4. CASE Crash
  <2>1. Logs' \subseteq Logs /\ Appending' = {}
    BY <1>4, CallsEnd DEF Crash, Logs
  <2> QED BY <1>4, <2>1, FewerCalls DEF Crash
<1>5. ASSUME NEW c \in Callers, NEW l \in Loggers, NEW time \in 0 .. MaxTime, NEW stable \in BOOLEAN,
             LogEvent(c, l, time, stable)
      PROVE  SubmitInv'
  <2> DEFINE e == NewEvent(l, time, stable)
  <2>1. /\ Appending' = Appending \cup {c} /\ Unwritten' = Unwritten \cup {c}
        /\ Cleaning' = Cleaning /\ c \notin Appending \cup Cleaning
        /\ call'[c].event = e /\ \A d \in Callers \ {c} : call'[d] = call[d]
    BY <1>5, CallLogs
  <2>2. e.hash = submitted + 1 /\ submitted \in Nat
    BY DEF NewEvent, TypeOK
  <2>3. submitted' = submitted + 1 /\ acked' = acked /\ log' = log
        /\ overlap' = overlap \cup LogEventOverlaps(l)
    BY <1>5 DEF LogEvent
  <2>4. Logs' = Logs /\ \A d \in Appending : d \in Callers \ {c}
    BY <2>1, <2>3, CallSets DEF Logs
  <2>5. /\ \A d \in Appending : call[d].event.hash \in Nat /\ call[d].event.hash <= submitted
        /\ \A a \in acked : a.hash \in Nat /\ a.hash <= submitted
        /\ \A lines \in Logs : \A i \in DOMAIN lines :
              /\ lines[i].hash \in Nat
              /\ "cleanups" \notin overlap => lines[i].hash <= submitted
    <3>1. \A lines \in Logs : lines \in Seq(Line)
      BY CallKinds, CallSets DEF Logs, TypeOK
    <3>2. \A lines \in Logs : \A i \in DOMAIN lines : lines[i].hash \in Nat
      BY <3>1, LineFacts
    <3>3. \A d \in Appending : call[d].event \in Event
      BY CallKinds, CallSets
    <3>4. \A a \in Event : a.hash \in Nat
      BY LineFacts
    <3> QED BY <3>2, <3>3, <3>4 DEF SubmitInv, HashInv, LineInv, TypeOK
  <2> HIDE DEF e
  <2>6. /\ \A d \in Appending' : call'[d].event.hash <= submitted'
        /\ \A d \in Appending' : \A b \in Appending' \ {d} : call'[b].event.hash # call'[d].event.hash
        /\ \A d \in Appending' : \A a \in acked' : a.hash # call'[d].event.hash
    BY <2>1, <2>2, <2>3, <2>4, <2>5 DEF SubmitInv, HashInv
  <2>7. \A a \in acked' : a.hash <= submitted'
    BY <2>2, <2>3, <2>5
  <2>8. LineInv'
    <3> SUFFICES ASSUME "cleanups" \notin overlap,
                        NEW lines \in Logs, NEW i \in DOMAIN lines
                 PROVE  /\ lines[i].hash <= submitted'
                        /\ \A d \in Unwritten' : lines[i].hash # call'[d].event.hash
      BY <2>3, <2>4 DEF LineInv
    <3>1. lines[i].hash <= submitted'
      BY <2>2, <2>3, <2>5
    <3>2. ASSUME NEW d \in Unwritten', d = c PROVE lines[i].hash # call'[d].event.hash
      BY <2>1, <2>2, <2>5, <3>2
    <3>3. ASSUME NEW d \in Unwritten PROVE lines[i].hash # call'[d].event.hash
      <4>1. call'[d] = call[d]
        BY <2>1, <2>4, CallSets
      <4> QED BY <4>1 DEF SubmitInv, LineInv
    <3> QED BY <2>1, <3>1, <3>2, <3>3
  <2>9. HashInv'
    BY <2>6, <2>7 DEF HashInv
  <2>10. OneAppend'
    <3> SUFFICES ASSUME "append" \notin overlap' PROVE Appending' = {c}
      BY <2>1, <2>2, <2>3 DEF OneAppend
    <3> QED BY <2>1, <2>3 DEF LogEventOverlaps
  <2>11. OrderInv'
    BY <2>3, <2>4 DEF SubmitInv, OrderInv, Ordered
  <2> QED BY <2>8, <2>9, <2>10, <2>11 DEF SubmitInv
<1>6. ASSUME NEW c \in Callers, WriteEvent(c) PROVE SubmitInv'
  <2>1. /\ Appending' = Appending /\ Unwritten' = Unwritten \ {c} /\ Cleaning' = Cleaning
        /\ c \in Unwritten /\ c \notin Cleaning
        /\ call'[c].event = call[c].event /\ \A d \in Callers \ {c} : call'[d] = call[d]
    BY <1>6, CallWrites
  <2>2. \A d \in Appending' : d \in Appending /\ call'[d].event = call[d].event
    BY <2>1, CallSets
  <2>3. \A d \in Cleaning' : d \in Cleaning /\ call'[d] = call[d]
    BY <2>1, CallSets
  <2> QED BY <1>6, <2>1, <2>2, <2>3, LineAdded DEF WriteEvent
<1>7. ASSUME NEW c \in Callers, call[c].op = "write", LeavePart(c),
             \/ call' = [call EXCEPT ![c] = Idle]
             \/ call' = [d \in Callers |-> Idle],
             UNCHANGED <<submitted, acked, overlap>>
      PROVE  SubmitInv'
  <2>1. /\ \A d \in Appending' : d \in Appending /\ call'[d] = call[d]
        /\ \A d \in Unwritten' : d \in Unwritten \ {c}
        /\ \A d \in Cleaning' : d \in Cleaning /\ call'[d] = call[d]
    BY <1>7, CallEnds, CallsEnd, CallSets
  <2>2. CASE log' = log
    <3>1. Logs' \subseteq Logs
      BY <2>1, <2>2 DEF Logs
    <3> QED BY <1>7, <2>1, <3>1, FewerCalls
  <2>3. ASSUME NEW line \in {Garbage, call[c].event}, log' = AppendLine(line) PROVE SubmitInv'
    <3>1. c \in Unwritten
      BY <1>7 DEF Unwritten, Appending
    <3> QED BY <1>7, <2>1, <2>3, <3>1, LineAdded
  <2> QED BY <1>7, <2>2, <2>3 DEF LeavePart
<1>8. ASSUME NEW c \in Callers, WriteFails(c) PROVE SubmitInv'
  BY <1>7, <1>8 DEF WriteFails
<1>9. ASSUME NEW c \in Callers, CrashInWrite(c) PROVE SubmitInv'
  BY <1>7, <1>9 DEF CrashInWrite
<1>10. ASSUME NEW c \in Callers, CommitEvent(c) PROVE SubmitInv'
  <2> DEFINE e == call[c].event
  <2>1. /\ Appending' = Appending \ {c} /\ Unwritten' = Unwritten \ {c}
        /\ Cleaning' = Cleaning \ {c}
        /\ \A d \in Callers \ {c} : call'[d] = call[d]
        /\ c \in Written
    BY <1>10, CallEnds DEF CommitEvent, Written, Appending
  <2>2. Logs' \subseteq Logs /\ UNCHANGED <<log, submitted, overlap>> /\ acked' = acked \cup {e}
    BY <1>10, <2>1, CallSets DEF Logs, CommitEvent
  <2>3. \A d \in Appending' : d \in Appending /\ d # c /\ call'[d] = call[d]
    BY <2>1, CallSets
  <2>4. \A d \in Unwritten' : d \in Unwritten /\ call'[d] = call[d]
    BY <2>1, CallSets
  <2>5. HashInv'
    <3>1. c \in Appending
      BY <2>1, CallSets
    <3>2. \A d \in Appending' : /\ call'[d].event.hash <= submitted'
                                /\ \A b \in Appending' \ {d} : call'[b].event.hash # call'[d].event.hash
                                /\ \A a \in acked' : a.hash # call'[d].event.hash
      BY <2>2, <2>3, <3>1 DEF SubmitInv, HashInv
    <3>3. \A a \in acked' : a.hash <= submitted'
      BY <2>2, <3>1 DEF SubmitInv, HashInv
    <3> QED BY <3>2, <3>3 DEF HashInv
  <2>6. OneAppend'
    BY <2>2, <2>3 DEF SubmitInv, OneAppend
  <2>7. OrderInv'
    BY <2>2 DEF SubmitInv, OrderInv, Ordered
  <2>8. LineInv'
    BY <2>2, <2>4 DEF SubmitInv, LineInv
  <2> QED BY <2>5, <2>6, <2>7, <2>8 DEF SubmitInv
<1>11. ASSUME NEW c \in Callers, StartCleanup(c) PROVE SubmitInv'
  <2> DEFINE kept == Kept(log)[Len(log)]
  <2>1. /\ c \notin Appending \cup Cleaning
        /\ Appending' = Appending /\ Unwritten' = Unwritten /\ Cleaning' = Cleaning \cup {c}
        /\ call'[c].kept = kept /\ \A d \in Callers \ {c} : call'[d] = call[d]
    BY <1>11, CallCleans
  <2>2. UNCHANGED <<log, submitted, acked>> /\ overlap \subseteq overlap'
    BY <1>11 DEF StartCleanup
  <2>3. PICK f : Selects(f, kept, log, Len(log))
    BY KeptIsSelection DEF TypeOK
  <2>4. kept \in Seq(Line) /\ DOMAIN log = 1 .. Len(log) /\ log \in Logs
    BY KeptIsSelection DEF TypeOK, Logs
  <2> HIDE DEF kept
  <2>5. \A i \in DOMAIN kept : f[i] \in DOMAIN log /\ kept[i] = log[f[i]]
    BY <2>3, <2>4 DEF Selects
  <2>6. \A lines \in Logs' : lines = kept \/ lines \in Logs
    BY <2>1, <2>2, CallSets DEF Logs
  <2>7. \A d \in Appending' : d \in Appending /\ call'[d] = call[d]
    BY <2>1, CallSets
  <2>8. HashInv'
    BY <2>1, <2>2, <2>7 DEF SubmitInv, HashInv
  <2>9. OneAppend'
    BY <2>2, <2>7 DEF SubmitInv, OneAppend
  <2>10. ASSUME "cleanups" \notin overlap PROVE Ordered(kept)
    <3>1. Ordered(log)
      BY <2>4, <2>10 DEF SubmitInv, OrderInv
    <3>2. \A i, j \in DOMAIN kept : i < j => f[i] < f[j]
      BY <2>3 DEF Selects
    <3> QED BY <2>5, <3>1, <3>2 DEF Ordered
  <2>11. OrderInv'
    <3>1. "cleanups" \notin overlap => \A lines \in Logs' : Ordered(lines)
      BY <2>6, <2>10 DEF SubmitInv, OrderInv
    <3> QED BY <2>2, <3>1 DEF OrderInv, Ordered
  <2>12. LineInv'
    <3>1. \A d \in Unwritten' : d \in Unwritten /\ call'[d] = call[d]
      BY <2>1, <2>7, CallSets
    <3>2. "cleanups" \notin overlap =>
             \A lines \in Logs : \A i \in DOMAIN lines :
                lines[i].hash <= submitted' /\ \A d \in Unwritten' : lines[i].hash # call'[d].event.hash
      BY <2>2, <3>1 DEF SubmitInv, LineInv
    <3>3. "cleanups" \notin overlap =>
             \A lines \in Logs' : \A i \in DOMAIN lines :
                lines[i].hash <= submitted' /\ \A d \in Unwritten' : lines[i].hash # call'[d].event.hash
      BY <2>4, <2>5, <2>6, <3>2
    <3> QED BY <2>2, <3>3 DEF LineInv
  <2> QED BY <2>8, <2>9, <2>11, <2>12 DEF SubmitInv
<1>12. ASSUME NEW c \in Callers, WriteKept(c) PROVE SubmitInv'
  <2>1. /\ Appending' = Appending /\ Cleaning' = Cleaning /\ c \in Cleaning
        /\ call'[c].kept = call[c].kept /\ \A d \in Callers \ {c} : call'[d] = call[d]
    BY <1>12, CallCopies
  <2>2. "cleanups" \notin overlap => log' = log
    BY <1>12, <2>1 DEF WriteKept, FileInv
  <2>3. /\ "cleanups" \notin overlap => Logs' \subseteq Logs
        /\ \A d \in Appending' : d \in Appending /\ call'[d] = call[d]
    BY <2>1, <2>2, CallSets DEF Logs
  <2> QED BY <1>12, <2>3, FewerCalls DEF WriteKept
<1>13. ASSUME NEW c \in Callers, FinishCleanup(c) \/ CleanupFails(c) PROVE SubmitInv'
  <2>1. /\ c \in Cleaning /\ Cleaning' \subseteq Cleaning /\ Appending' = Appending
        /\ \A d \in Appending : call'[d] = call[d]
        /\ \A d \in Cleaning' : call'[d].kept = call[d].kept
    BY <1>13, CleanupEnds
  <2>2. "cleanups" \notin overlap => log' \in Logs
    BY <1>13, <2>1 DEF FinishCleanup, CleanupFails, FileInv, Logs
  <2>3. "cleanups" \notin overlap => Logs' \subseteq Logs
    BY <2>1, <2>2 DEF Logs
  <2> QED BY <1>13, <2>1, <2>3, FewerCalls DEF FinishCleanup, CleanupFails
<1>14. ASSUME NEW c \in Callers, CommitFails(c) PROVE SubmitInv'
  <2>1. Logs' \subseteq Logs /\ \A d \in Appending' : d \in Appending /\ call'[d] = call[d]
    BY <1>14, CallEnds, CallSets DEF CommitFails, Logs
  <2> QED BY <1>14, <2>1, FewerCalls DEF CommitFails
<1> QED BY <1>2, <1>3, <1>4, <1>5, <1>6, <1>8, <1>9, <1>10, <1>11, <1>12, <1>13, <1>14 DEF Next

-----------------------------------------------------------------------------
(* The end of the log, and cleanups that work alone. *)

LEMMA TailStep == TypeOK /\ SubmitInv /\ TailInv /\ FileInv /\ [Next]_vars => TailInv'
<1> SUFFICES ASSUME TypeOK, SubmitInv, TailInv, FileInv, [Next]_vars PROVE TailInv'
  OBVIOUS
<1>1. ASSUME UNCHANGED <<log, end, acked>>, overlap \subseteq overlap',
             \A c \in Appending' : c \in Appending /\ call'[c] = call[c]
      PROVE  TailInv'
  BY <1>1 DEF TailInv
<1>2. ASSUME NEW l \in Loggers, OpenLogger(l) \/ DropLogger(l) PROVE TailInv'
  BY <1>1, <1>2, CallsStay DEF OpenLogger, DropLogger
<1>3. CASE Tick \/ UNCHANGED vars
  BY <1>1, <1>3, CallsStay DEF Tick, vars
<1>4. CASE Crash
  BY <1>1, <1>4, CallsEnd DEF Crash
<1>5. ASSUME NEW c \in Callers, NEW l \in Loggers, NEW time \in 0 .. MaxTime, NEW stable \in BOOLEAN,
             LogEvent(c, l, time, stable)
      PROVE  TailInv'
  <2>1. /\ Appending' = Appending \cup {c} /\ c \notin Appending
        /\ call'[c].event = NewEvent(l, time, stable)
        /\ \A d \in Callers \ {c} : call'[d] = call[d]
    BY <1>5, CallLogs
  <2>2. UNCHANGED <<log, end, acked>> /\ overlap \subseteq overlap'
    BY <1>5 DEF LogEvent
  <2>3. ASSUME end # "newline", "cleanups" \notin overlap
        PROVE  log[Len(log)] # NewEvent(l, time, stable)
    <3>1. Len(log) \in DOMAIN log /\ log \in Logs
      BY <2>3, EmptySeq DEF TailInv, TypeOK, Logs
    <3>2. log[Len(log)].hash <= submitted /\ log[Len(log)].hash \in Nat
      BY <2>3, <3>1, LineFacts DEF SubmitInv, LineInv, TypeOK
    <3> QED BY <3>2 DEF NewEvent, TypeOK
  <2>4. \A d \in Appending' : d = c \/ (d \in Appending /\ call'[d] = call[d])
    BY <2>1, CallSets
  <2> QED BY <2>1, <2>2, <2>3, <2>4 DEF TailInv
<1>6. ASSUME NEW c \in Callers, WriteEvent(c) PROVE TailInv'
  BY <1>6 DEF WriteEvent, TailInv
<1>7. ASSUME NEW c \in Callers, call[c].op = "write", LeavePart(c),
             \/ call' = [call EXCEPT ![c] = Idle]
             \/ call' = [d \in Callers |-> Idle],
             UNCHANGED <<acked, overlap>>
      PROVE  TailInv'
  <2>1. \A d \in Appending' : d \in Appending /\ d # c /\ call'[d] = call[d]
    BY <1>7, CallEnds, CallsEnd, CallSets
  <2>2. CASE UNCHANGED <<log, end>>
    BY <1>1, <1>7, <2>1, <2>2
  <2>3. ASSUME NEW line \in {Garbage, call[c].event}, log' = AppendLine(line) PROVE TailInv'
    <3>1. c \in Appending /\ line \in Line
      BY <1>7, CallKinds, LineFacts DEF Appending
    <3>2. log' \in Seq(Line) /\ log' # <<>> /\ log'[Len(log')] \in {Garbage, call[c].event}
      <4>1. CASE end = "newline"
        BY <2>3, <3>1, <4>1, AppendLineFacts, EmptySeq DEF TypeOK
      <4>2. CASE end # "newline"
        <5>1. log # <<>> /\ Len(log) \in Nat \ {0}
          BY <4>2, EmptySeq DEF TailInv, TypeOK
        <5>2. log' \in Seq(Line) /\ Len(log') = Len(log) /\ log'[Len(log)] = Garbage
          BY <2>3, <3>1, <4>2, <5>1, AppendLineFacts DEF TypeOK
        <5> QED BY <5>1, <5>2, EmptySeq
      <4> QED BY <4>1, <4>2
    <3>3. /\ \A e \in acked : e # Garbage /\ e # call[c].event
          /\ \A d \in Appending' : call'[d].event # Garbage /\ call'[d].event # call[c].event
      <4>1. \A e \in Event : e # Garbage
        BY LineFacts
      <4>2. \A d \in Appending : call[d].event \in Event
        BY CallKinds, CallSets
      <4> QED BY <2>1, <3>1, <4>1, <4>2 DEF SubmitInv, HashInv, TypeOK
    <3> QED BY <1>7, <3>2, <3>3 DEF TailInv
  <2> QED BY <1>7, <2>2, <2>3 DEF LeavePart
<1>8. ASSUME NEW c \in Callers, WriteFails(c) PROVE TailInv'
  BY <1>7, <1>8 DEF WriteFails
<1>9. ASSUME NEW c \in Callers, CrashInWrite(c) PROVE TailInv'
  BY <1>7, <1>9 DEF CrashInWrite
<1>10. ASSUME NEW c \in Callers, CommitEvent(c) PROVE TailInv'
  <2>1. c \in Appending /\ \A d \in Appending' : d \in Appending /\ call'[d] = call[d]
    BY <1>10, CallEnds, CallSets DEF CommitEvent, Appending
  <2>2. UNCHANGED <<log, end, overlap>> /\ acked' = acked \cup {call[c].event}
    BY <1>10 DEF CommitEvent
  <2> QED BY <2>1, <2>2 DEF TailInv
<1>11. ASSUME NEW c \in Callers, StartCleanup(c) PROVE TailInv'
  <2>1. \A d \in Appending' : d \in Appending /\ call'[d] = call[d]
    BY <1>11, CallCleans, CallSets
  <2> QED BY <1>1, <1>11, <2>1 DEF StartCleanup
<1>12. ASSUME NEW c \in Callers, WriteKept(c) PROVE TailInv'
  <2>1. c \in Cleaning /\ \A d \in Appending' : d \in Appending /\ call'[d] = call[d]
    BY <1>12, CallCopies, CallSets
  <2>2. CASE UNCHANGED <<log, end>>
    BY <1>1, <1>12, <2>1, <2>2 DEF WriteKept
  <2>3. CASE call[c].file = "log"
    <3>1. "cleanups" \in overlap /\ overlap' = overlap
      BY <1>12, <2>1, <2>3 DEF FileInv, WriteKept
    <3>2. end' # "newline" => Len(log') > Len(call[c].kept)
      BY <1>12, <2>3 DEF WriteKept
    <3>3. log' \in Seq(Line) /\ call[c].kept \in Seq(Line)
      BY <2>1, CallKinds, CallSets, TypeStep DEF TypeOK
    <3> QED BY <3>1, <3>2, <3>3 DEF TailInv
  <2> QED BY <1>12, <2>2, <2>3 DEF WriteKept
<1>13. ASSUME NEW c \in Callers, FinishCleanup(c) PROVE TailInv'
  BY <1>13 DEF FinishCleanup, TailInv
<1>14. ASSUME NEW c \in Callers, CleanupFails(c) PROVE TailInv'
  BY <1>1, <1>14, CleanupEnds DEF CleanupFails
<1>15. ASSUME NEW c \in Callers, CommitFails(c) PROVE TailInv'
  <2>1. \A d \in Appending' : d \in Appending /\ call'[d] = call[d]
    BY <1>15, CallEnds, CallSets DEF CommitFails
  <2> QED BY <1>1, <1>15, <2>1 DEF CommitFails
<1> QED BY <1>2, <1>3, <1>4, <1>5, <1>6, <1>8, <1>9, <1>10, <1>11, <1>12, <1>13, <1>14, <1>15 DEF Next

LEMMA FileStep == TypeOK /\ FileInv /\ [Next]_vars => FileInv'
<1> SUFFICES ASSUME TypeOK, FileInv, [Next]_vars PROVE FileInv'
  OBVIOUS
<1>1. ASSUME "cleanups" \in overlap' => "cleanup" \in overlap', overlap \subseteq overlap',
             Cleaning' = {} \/ UNCHANGED clean,
             Cleaning' = {} \/ (Cleaning' = Cleaning /\ \A d \in Cleaning : call'[d] = call[d])
      PROVE  FileInv'
  BY <1>1 DEF FileInv
<1>2. ASSUME UNCHANGED <<call, clean>>,
             overlap' = overlap \/ overlap' = overlap \cup {"append"}
      PROVE  FileInv'
  BY <1>1, <1>2, CallsStay DEF FileInv
<1>3. ASSUME NEW l \in Loggers, OpenLogger(l) \/ DropLogger(l) PROVE FileInv'
  BY <1>2, <1>3 DEF OpenLogger, DropLogger
<1>4. CASE Tick \/ UNCHANGED vars
  BY <1>2, <1>4 DEF Tick, vars
<1>5. ASSUME NEW c \in Callers, CrashInWrite(c) PROVE FileInv'
  BY <1>1, <1>5, CallsEnd DEF CrashInWrite, FileInv
<1>6. CASE Crash
  BY <1>1, <1>6, CallsEnd DEF Crash, FileInv
<1>7. ASSUME Cleaning' = Cleaning, \A d \in Cleaning : call'[d] = call[d],
             UNCHANGED <<clean, overlap>>
      PROVE  FileInv'
  BY <1>1, <1>7 DEF FileInv
<1>8. ASSUME NEW c \in Callers, NEW l \in Loggers, NEW time \in 0 .. MaxTime, NEW stable \in BOOLEAN,
             LogEvent(c, l, time, stable)
      PROVE  FileInv'
  <2>1. Cleaning' = Cleaning /\ \A d \in Cleaning : call'[d] = call[d]
    BY <1>8, CallLogs, CallSets
  <2>2. UNCHANGED clean /\ overlap \subseteq overlap'
        /\ ("cleanups" \in overlap' => "cleanups" \in overlap)
    BY <1>8 DEF LogEvent, LogEventOverlaps
  <2> QED BY <1>1, <2>1, <2>2 DEF FileInv
<1>9. ASSUME NEW c \in Callers, WriteEvent(c) PROVE FileInv'
  <2>1. Cleaning' = Cleaning /\ \A d \in Cleaning : call'[d] = call[d]
    BY <1>9, CallWrites, CallSets
  <2> QED BY <1>7, <1>9, <2>1 DEF WriteEvent
<1>10. ASSUME NEW c \in Callers, c \in Appending, call' = [call EXCEPT ![c] = Idle],
              UNCHANGED <<clean, overlap>>
       PROVE  FileInv'
  <2>1. Cleaning' = Cleaning \ {c} /\ c \notin Cleaning
    BY <1>10, CallEnds, CallSets
  <2>2. \A d \in Cleaning : d \in Callers \ {c} /\ call'[d] = call[d]
    BY <1>10, <2>1, CallEnds, CallSets
  <2> QED BY <1>7, <1>10, <2>1, <2>2
<1>11. ASSUME NEW c \in Callers, WriteFails(c) \/ CommitEvent(c) \/ CommitFails(c) PROVE FileInv'
  <2>1. c \in Appending
    BY <1>11 DEF WriteFails, CommitEvent, CommitFails, Appending
  <2> QED BY <1>10, <1>11, <2>1 DEF WriteFails, CommitEvent, CommitFails
<1>12. ASSUME NEW c \in Callers, StartCleanup(c) PROVE FileInv'
  <2>1. overlap' = overlap \cup CleanupOverlaps /\ clean' = <<>>
    BY <1>12 DEF StartCleanup
  <2>2. "cleanups" \in overlap' => "cleanup" \in overlap'
    BY <2>1 DEF CleanupOverlaps, FileInv
  <2>3. ASSUME "cleanups" \notin overlap'
        PROVE  Cleaning' = {c} /\ call'[c].file = "clean" /\ call'[c].op = "copy"
    <3>1. Cleaning = {}
      BY <2>1, <2>3 DEF CleanupOverlaps
    <3> QED BY <1>12, <3>1, CallCleans
  <2> QED BY <2>1, <2>2, <2>3 DEF FileInv
<1>13. ASSUME NEW c \in Callers, WriteKept(c) PROVE FileInv'
  <2>1. /\ c \in Cleaning /\ call[c].op = "copy" /\ call'[c].op = "replace" /\ Cleaning' = Cleaning
        /\ call'[c].kept = call[c].kept /\ call'[c].file = call[c].file
    BY <1>13, CallCopies
  <2>2. overlap' = overlap
    BY <1>13 DEF WriteKept
  <2>3. ASSUME "cleanups" \notin overlap
        PROVE  Cleaning = {c} /\ call[c].file = "clean" /\ clean' = call[c].kept
    <3>1. Cleaning = {c} /\ call[c].file = "clean" /\ clean = <<>>
      BY <2>1, <2>3 DEF FileInv
    <3>2. clean' \in Overwritten(clean, call[c].kept)
      BY <1>13, <3>1 DEF WriteKept
    <3>3. call[c].kept \in Seq(Line) /\ clean \in Seq(Line)
      BY <2>1, CallKinds DEF TypeOK
    <3> QED BY <3>1, <3>2, <3>3, OverwrittenFacts
  <2> QED BY <2>1, <2>2, <2>3 DEF FileInv
<1>14. ASSUME NEW c \in Callers, FinishCleanup(c) \/ CleanupFails(c) PROVE FileInv'
  <2>1. c \in Cleaning /\ Cleaning' = Cleaning \ {c}
    BY <1>14, CleanupEnds
  <2>2. overlap' = overlap
    BY <1>14 DEF FinishCleanup, CleanupFails
  <2> QED BY <2>1, <2>2 DEF FileInv
<1> QED BY <1>3, <1>4, <1>5, <1>6, <1>8, <1>9, <1>11, <1>12, <1>13, <1>14 DEF Next

LEMMA CleanStep == TypeOK /\ FileInv /\ CleanInv /\ [Next]_vars => CleanInv'
<1> SUFFICES ASSUME TypeOK, FileInv, CleanInv, [Next]_vars PROVE CleanInv'
  OBVIOUS
<1> USE AuditAssumption
<1>1. ASSUME UNCHANGED <<log, call>>, now' \in 0 .. MaxTime, now' >= now, overlap \subseteq overlap'
      PROVE  CleanInv'
  <2>1. \A line \in Line : Retained(line)' => Retained(line)
    BY <1>1, LineFacts DEF Retained, TypeOK
  <2>2. \A i \in DOMAIN log : Retained(log[i])' => Retained(log[i])
    BY <1>1, <2>1 DEF TypeOK
  <2> QED BY <1>1, <2>2, CallsStay DEF CleanInv
<1>2. ASSUME NEW l \in Loggers, OpenLogger(l) \/ DropLogger(l) PROVE CleanInv'
  BY <1>1, <1>2 DEF OpenLogger, DropLogger, TypeOK
<1>3. CASE Tick \/ UNCHANGED vars
  BY <1>1, <1>3 DEF Tick, vars, TypeOK
<1>4. ASSUME "cleanup" \notin overlap => Cleaning' = {}, overlap \subseteq overlap' PROVE CleanInv'
  BY <1>4 DEF CleanInv
<1>5. CASE Crash
  BY <1>4, <1>5, CallsEnd DEF Crash
<1>6. ASSUME NEW c \in Callers, NEW l \in Loggers, NEW time \in 0 .. MaxTime, NEW stable \in BOOLEAN,
             LogEvent(c, l, time, stable)
      PROVE  CleanInv'
  <2>1. Cleaning' = Cleaning /\ overlap' = overlap \cup LogEventOverlaps(l)
    BY <1>6, CallLogs DEF LogEvent
  <2>2. Cleaning # {} => "cleanup" \in overlap'
    BY <2>1 DEF LogEventOverlaps
  <2> QED BY <2>1, <2>2 DEF CleanInv
<1>7. ASSUME NEW c \in Callers, c \in Appending, Cleaning' \subseteq Cleaning, overlap' = overlap
      PROVE  CleanInv'
  BY <1>7 DEF CleanInv
<1>8. ASSUME NEW c \in Callers, WriteEvent(c) PROVE CleanInv'
  BY <1>7, <1>8, CallWrites, CallSets DEF WriteEvent
<1>9. ASSUME NEW c \in Callers, WriteFails(c) PROVE CleanInv'
  <2>1. c \in Appending /\ Cleaning' \subseteq Cleaning
    BY <1>9, CallEnds DEF WriteFails, Appending
  <2> QED BY <1>7, <1>9, <2>1 DEF WriteFails
<1>10. ASSUME NEW c \in Callers, CrashInWrite(c) PROVE CleanInv'
  BY <1>4, <1>10, CallsEnd DEF CrashInWrite
<1>11. ASSUME NEW c \in Callers, CommitEvent(c) PROVE CleanInv'
  <2>1. c \in Appending /\ Cleaning' \subseteq Cleaning
    BY <1>11, CallEnds DEF CommitEvent, Appending
  <2> QED BY <1>7, <1>11, <2>1 DEF CommitEvent
<1>12. ASSUME NEW c \in Callers, StartCleanup(c) PROVE CleanInv'
  <2> SUFFICES ASSUME "cleanup" \notin overlap'
               PROVE  /\ Appending' = {} /\ Cleaning' = {c}
                      /\ \A i \in DOMAIN log' :
                            Retained(log[i])' => log'[i] \in Range(call'[c].kept)
    BY DEF CleanInv
  <2>1. Appending \cup Cleaning = {}
    BY <1>12 DEF StartCleanup, CleanupOverlaps
  <2>2. Appending' = {} /\ Cleaning' = {c} /\ call'[c].kept = Kept(log)[Len(log)]
    BY <1>12, <2>1, CallCleans
  <2>3. PICK f : Selects(f, Kept(log)[Len(log)], log, Len(log))
    BY KeptIsSelection DEF TypeOK
  <2>4. \A i \in 1 .. Len(log) : Retained(log[i]) => log[i] \in Range(Kept(log)[Len(log)])
    BY <2>3 DEF Selects, Range
  <2>5. DOMAIN log = 1 .. Len(log) /\ UNCHANGED <<now, log>>
    BY <1>12 DEF StartCleanup, TypeOK
  <2> QED BY <2>2, <2>4, <2>5 DEF Retained
<1>13. ASSUME NEW c \in Callers, FinishCleanup(c) \/ CleanupFails(c) PROVE CleanInv'
  <2>1. Cleaning' = Cleaning \ {c} /\ c \in Cleaning /\ overlap' = overlap
    BY <1>13, CleanupEnds DEF FinishCleanup, CleanupFails
  <2> QED BY <1>4, <2>1 DEF CleanInv
<1>14. ASSUME NEW c \in Callers, WriteKept(c) PROVE CleanInv'
  <2>1. /\ c \in Cleaning /\ Appending' = Appending /\ Cleaning' = Cleaning
        /\ call'[c].kept = call[c].kept
    BY <1>14, CallCopies
  <2>2. UNCHANGED <<now, overlap>> /\ ("cleanup" \notin overlap => log' = log)
    BY <1>14, <2>1 DEF WriteKept, FileInv
  <2> QED BY <2>1, <2>2 DEF CleanInv, Retained
<1>15. ASSUME NEW c \in Callers, CommitFails(c) PROVE CleanInv'
  <2>1. c \in Appending /\ Cleaning' \subseteq Cleaning
    BY <1>15, CallEnds DEF CommitFails, Appending
  <2> QED BY <1>7, <1>15, <2>1 DEF CommitFails
<1> QED BY <1>2, <1>3, <1>5, <1>6, <1>8, <1>9, <1>10, <1>11, <1>12, <1>13, <1>14, <1>15 DEF Next

-----------------------------------------------------------------------------
(* What is lost. *)

LEMMA AppendKeepsLines ==
    ASSUME TypeOK, TailInv, NEW line \in Line, log' = AppendLine(line)
    PROVE  /\ \A i \in DOMAIN log : log[i] \in Range(log') \/ (i = Len(log) /\ end # "newline")
           /\ Garbage \in Range(log) => Garbage \in Range(log')
           /\ end = "newline" => line \in Range(log')
           /\ end # "newline" => Garbage \in Range(log')
<1>1. /\ log \in Seq(Line) /\ log' \in Seq(Line)
      /\ DOMAIN log = 1 .. Len(log) /\ DOMAIN log' = 1 .. Len(log')
      /\ Len(log) \in Nat /\ Len(log') \in Nat
  BY AppendLineFacts DEF TypeOK
<1>2. CASE end = "newline"
  <2>1. Len(log') = Len(log) + 1 /\ log'[Len(log) + 1] = line
    BY <1>1, <1>2, AppendLineFacts
  <2>2. \A i \in DOMAIN log : i \in DOMAIN log' /\ log'[i] = log[i]
    BY <1>1, <1>2, <2>1, AppendLineFacts
  <2> QED BY <1>1, <1>2, <2>1, <2>2 DEF Range
<1>3. CASE end # "newline"
  <2>1. log # <<>> /\ Len(log) \in 1 .. Len(log)
    BY <1>1, <1>3, EmptySeq DEF TailInv
  <2>2. Len(log') = Len(log) /\ log'[Len(log)] = Garbage
    BY <1>1, <1>3, <2>1, AppendLineFacts
  <2>3. \A i \in DOMAIN log : i # Len(log) => i \in DOMAIN log' /\ log'[i] = log[i]
    <3> SUFFICES ASSUME NEW i \in 1 .. Len(log), i # Len(log)
                 PROVE  i \in DOMAIN log' /\ log'[i] = log[i]
      BY <1>1
    <3>1. Len(log) \in Nat
      BY <1>1
    <3>2. i \in 1 .. Len(log) - 1
      BY <3>1
    <3> QED BY <1>1, <2>2, <3>2, AppendLineFacts
  <2>4. Garbage \in Range(log')
    BY <1>1, <2>1, <2>2 DEF Range
  <2> QED BY <1>1, <1>3, <2>3, <2>4 DEF Range
<1> QED BY <1>2, <1>3

(* Whatever a step does to the file, a line that is retained stays, unless *)
(* it was the last and unterminated, or cleanups overlapped.               *)
LEMMA LinesStay ==
    ASSUME TypeOK, TailInv, FileInv, CleanInv, [Next]_vars, NEW i \in DOMAIN log
    PROVE  \/ log[i] \in Range(log')
           \/ ~Retained(log[i])
           \/ i = Len(log) /\ end # "newline"
           \/ "cleanup" \in overlap
<1>1. CASE log' = log
  BY <1>1 DEF Range
<1>2. ASSUME NEW line \in Line, log' = AppendLine(line)
      PROVE  log[i] \in Range(log') \/ (i = Len(log) /\ end # "newline")
  BY <1>2, AppendKeepsLines
<1>3. ASSUME NEW c \in Callers, call[c].op = "write" PROVE call[c].event \in Line
  BY <1>3, CallKinds, LineFacts DEF Appending
<1>4. ASSUME NEW c \in Callers, WriteEvent(c)
      PROVE  log[i] \in Range(log') \/ (i = Len(log) /\ end # "newline")
  BY <1>2, <1>3, <1>4 DEF WriteEvent
<1>5. ASSUME NEW c \in Callers, call[c].op = "write", LeavePart(c)
      PROVE  log[i] \in Range(log') \/ (i = Len(log) /\ end # "newline")
  <2>1. CASE log' = log
    BY <1>1, <2>1 DEF Range
  <2>2. ASSUME NEW line \in {Garbage, call[c].event}, log' = AppendLine(line)
        PROVE  log[i] \in Range(log') \/ (i = Len(log) /\ end # "newline")
    <3>1. line \in Line
      BY <1>3, <1>5, LineFacts
    <3> QED BY <1>2, <2>2, <3>1
  <2> QED BY <1>5, <2>1, <2>2 DEF LeavePart
<1>6. ASSUME NEW c \in Callers, FinishCleanup(c)
      PROVE  \/ log[i] \in Range(log')
             \/ ~Retained(log[i])
             \/ "cleanup" \in overlap
  BY <1>6 DEF FinishCleanup, CleanInv, FileInv, Cleaning
<1>7. CASE UNCHANGED vars
  BY <1>1, <1>7 DEF vars
<1>8. CASE \/ \E l \in Loggers : OpenLogger(l) \/ DropLogger(l)
           \/ Tick \/ Crash
           \/ \E c \in Callers :
                 \/ \E l \in Loggers, time \in 0 .. MaxTime, stable \in BOOLEAN :
                       LogEvent(c, l, time, stable)
                 \/ CommitEvent(c) \/ CommitFails(c) \/ StartCleanup(c) \/ CleanupFails(c)
  BY <1>1, <1>8 DEF OpenLogger, DropLogger, Tick, Crash, LogEvent, CommitEvent, CommitFails,
                    StartCleanup, CleanupFails
<1>9. ASSUME NEW c \in Callers, WriteKept(c) PROVE log[i] \in Range(log') \/ "cleanup" \in overlap
  <2>1. c \in Cleaning
    BY <1>9, CallCopies
  <2>2. "cleanup" \in overlap \/ call[c].file = "clean"
    BY <2>1 DEF FileInv
  <2>3. call[c].file = "clean" => log' = log
    BY <1>9 DEF WriteKept
  <2> QED BY <2>2, <2>3 DEF Range
<1> QED BY <1>4, <1>5, <1>6, <1>7, <1>8, <1>9 DEF Next, WriteFails, CrashInWrite

(* A step that neither tears an append nor overwrites the end of the log   *)
(* leaves no more events without a line than there were.                   *)
LEMMA NoMoreGone ==
    ASSUME LossInv, "cleanup" \notin overlap => Gone' \subseteq Gone, torn' = torn, torn \in Nat,
           end' \in {end, "newline"}, overlap \subseteq overlap',
           "cleanup" \notin overlap /\ Garbage \in Range(log) => Garbage \in Range(log')
    PROVE  LossInv'
<1> SUFFICES ASSUME "cleanup" \notin overlap
             PROVE  /\ IsFiniteSet(Gone')
                    /\ Cardinality(Gone') + (IF end' = "newline" THEN 0 ELSE 1) <= torn'
                    /\ Gone' # {} => Garbage \in Range(log')
  BY DEF LossInv
<1>1. /\ IsFiniteSet(Gone') /\ Cardinality(Gone') <= Cardinality(Gone)
      /\ Cardinality(Gone) \in Nat /\ Cardinality(Gone') \in Nat
  BY FS_Subset, FS_CardinalityType DEF LossInv
<1>2. Cardinality(Gone) + (IF end = "newline" THEN 0 ELSE 1) <= torn
  BY DEF LossInv
<1>3. Cardinality(Gone') + (IF end' = "newline" THEN 0 ELSE 1) <= torn'
  BY <1>1, <1>2
<1> QED BY <1>1, <1>3 DEF LossInv

(* Whatever is appended, no event of a call that wrote it loses its line.  *)
LEMMA AppendLosesNothing ==
    ASSUME TypeOK, TailInv, "cleanups" \notin overlap, NEW line \in Line, log' = AppendLine(line),
           NEW e \in EventsIn(log), e \in acked \/ \E c \in Appending : e = call[c].event
    PROVE  e \in EventsIn(log')
<1>1. PICK i \in DOMAIN log : log[i] = e
  BY DEF EventsIn, Range
<1>2. ~(i = Len(log) /\ end # "newline")
  BY <1>1 DEF TailInv
<1> QED BY <1>1, <1>2, AppendKeepsLines DEF EventsIn

LEMMA LossStep ==
    TypeOK /\ SubmitInv /\ TailInv /\ FileInv /\ CleanInv /\ LossInv /\ [Next]_vars => LossInv'
<1> SUFFICES ASSUME TypeOK, SubmitInv, TailInv, FileInv, CleanInv, LossInv, [Next]_vars PROVE LossInv'
  OBVIOUS
<1>0. torn \in Nat /\ now \in 0 .. MaxTime /\ acked \subseteq Event
  BY DEF TypeOK
<1>a. "cleanup" \notin overlap => "cleanups" \notin overlap
  BY DEF FileInv
<1>1. ASSUME UNCHANGED <<log, end, torn>>, now' >= now, now' \in 0 .. MaxTime,
             overlap \subseteq overlap',
             acked' \cup {call'[c].event : c \in Written'} \subseteq
                acked \cup {call[c].event : c \in Written}
      PROVE  LossInv'
  <2>1. Gone' \subseteq Gone
    <3>1. \A e \in acked \cup {call[c].event : c \in Written} : e.time \in Int
      BY <1>0, CallKinds, CallSets, LineFacts
    <3> QED BY <1>0, <1>1, <3>1, AuditAssumption DEF Gone, EventsIn
  <2> QED BY <1>0, <1>1, <2>1, NoMoreGone
<1>2. ASSUME NEW l \in Loggers, OpenLogger(l) \/ DropLogger(l) PROVE LossInv'
  BY <1>0, <1>1, <1>2, CallsStay DEF OpenLogger, DropLogger
<1>3. CASE Tick \/ UNCHANGED vars
  BY <1>0, <1>1, <1>3, CallsStay, AuditAssumption DEF Tick, vars
<1>4. CASE Crash
  BY <1>0, <1>1, <1>4, CallsEnd DEF Crash
<1>5. ASSUME NEW c \in Callers, NEW l \in Loggers, NEW time \in 0 .. MaxTime, NEW stable \in BOOLEAN,
             LogEvent(c, l, time, stable)
      PROVE  LossInv'
  <2>1. \A d \in Written' : d \in Written /\ call'[d] = call[d]
    BY <1>5, CallLogs, CallSets
  <2> QED BY <1>0, <1>1, <1>5, <2>1 DEF LogEvent
<1>6. ASSUME NEW c \in Callers, WriteEvent(c) PROVE LossInv'
  <2> DEFINE e == call[c].event
  <2>1. /\ c \in Appending /\ e \in Line /\ e \in Event /\ IsEvent(e)
        /\ Written' = Written \cup {c} /\ call'[c].event = e
        /\ \A d \in Written : call'[d].event = call[d].event
    BY <1>6, CallWrites, CallSets, CallKinds, LineFacts
  <2>2. log' = AppendLine(e) /\ end' = "newline" /\ UNCHANGED <<now, acked, torn, overlap>>
    BY <1>6 DEF WriteEvent
  <2> HIDE DEF e
  <2>3. acked' \cup {call'[d].event : d \in Written'} =
          acked \cup {call[d].event : d \in Written} \cup {e}
    BY <2>1, <2>2
  <2>4. ASSUME "cleanup" \notin overlap PROVE \A a \in Gone' : a \in Gone \/ a = e
    <3> SUFFICES ASSUME NEW a \in Gone', a # e PROVE a \in Gone
      OBVIOUS
    <3>1. a \in acked \cup {call[d].event : d \in Written} /\ a.time >= now - Retention
      BY <2>2, <2>3 DEF Gone
    <3>2. a \notin EventsIn(log')
      BY DEF Gone
    <3>3. a \notin EventsIn(log)
      BY <1>a, <2>1, <2>2, <2>4, <3>1, <3>2, CallSets, AppendLosesNothing
    <3> QED BY <3>1, <3>3 DEF Gone
  <2>5. CASE end = "newline"
    <3>1. e \in EventsIn(log')
      BY <2>1, <2>2, <2>5, AppendKeepsLines DEF EventsIn
    <3>2. "cleanup" \notin overlap => Gone' \subseteq Gone
      BY <2>4, <3>1 DEF Gone
    <3>3. Garbage \in Range(log) => Garbage \in Range(log')
      BY <2>1, <2>2, AppendKeepsLines
    <3> QED BY <1>0, <2>2, <3>2, <3>3, NoMoreGone
  <2>6. CASE end # "newline"
    <3> SUFFICES ASSUME "cleanup" \notin overlap
                 PROVE  /\ IsFiniteSet(Gone') /\ Cardinality(Gone') \in Nat /\ Cardinality(Gone') <= torn
                        /\ Garbage \in Range(log')
      BY <2>2 DEF LossInv
    <3>1. Garbage \in Range(log')
      BY <2>1, <2>2, <2>6, AppendKeepsLines
    <3>2. IsFiniteSet(Gone) /\ Cardinality(Gone) + 1 <= torn /\ Cardinality(Gone) \in Nat
      BY <2>6, FS_CardinalityType DEF LossInv
    <3>3. /\ IsFiniteSet(Gone \cup {e}) /\ Cardinality(Gone \cup {e}) <= Cardinality(Gone) + 1
          /\ Cardinality(Gone \cup {e}) \in Nat
      <4>1. /\ IsFiniteSet(Gone \cup {e})
            /\ Cardinality(Gone \cup {e}) = IF e \in Gone THEN Cardinality(Gone) ELSE Cardinality(Gone) + 1
        BY <3>2, FS_AddElement, Zenon
      <4> QED BY <3>2, <4>1
    <3>4. Gone' \subseteq Gone \cup {e}
      BY <2>4
    <3>5. /\ IsFiniteSet(Gone') /\ Cardinality(Gone') <= Cardinality(Gone \cup {e})
          /\ Cardinality(Gone') \in Nat
      BY <3>3, <3>4, FS_Subset, FS_CardinalityType
    <3> QED BY <1>0, <3>1, <3>2, <3>3, <3>5
  <2> QED BY <2>5, <2>6
<1>7. ASSUME NEW c \in Callers, call[c].op = "write", LeavePart(c),
             \/ call' = [call EXCEPT ![c] = Idle]
             \/ call' = [d \in Callers |-> Idle],
             UNCHANGED <<now, acked, overlap>>
      PROVE  LossInv'
  <2>1. \A d \in Written' : d \in Written /\ call'[d] = call[d]
    BY <1>7, CallEnds, CallsEnd, CallSets
  <2>2. CASE UNCHANGED <<log, end, torn>>
    BY <1>0, <1>1, <1>7, <2>1, <2>2
  <2>3. ASSUME NEW line \in {Garbage, call[c].event}, log' = AppendLine(line),
               torn' = torn + 1
        PROVE  LossInv'
    <3> SUFFICES ASSUME "cleanup" \notin overlap
                 PROVE  /\ IsFiniteSet(Gone') /\ Cardinality(Gone') + 1 <= torn'
                        /\ Cardinality(Gone') \in Nat
                        /\ Gone' # {} => Garbage \in Range(log')
      BY <1>0, <1>7, <2>3 DEF LossInv
    <3>1. line \in Line
      BY <1>7, CallKinds, LineFacts DEF Appending
    <3>2. Gone' \subseteq Gone
      <4> SUFFICES ASSUME NEW a \in Gone' PROVE a \in Gone
        OBVIOUS
      <4>1. a \in acked \cup {call[d].event : d \in Written} /\ a.time >= now - Retention
        BY <1>7, <2>1 DEF Gone
      <4>2. a \notin EventsIn(log')
        BY DEF Gone
      <4>3. a \notin EventsIn(log)
        BY <1>a, <2>3, <3>1, <4>1, <4>2, CallSets, AppendLosesNothing
      <4> QED BY <4>1, <4>3 DEF Gone
    <3>3. /\ IsFiniteSet(Gone') /\ Cardinality(Gone') <= Cardinality(Gone)
          /\ Cardinality(Gone') \in Nat /\ Cardinality(Gone) \in Nat
      BY <3>2, FS_Subset, FS_CardinalityType DEF LossInv
    <3>4. Cardinality(Gone) <= torn
      BY <1>0, <3>3 DEF LossInv
    <3>5. Gone' # {} => Garbage \in Range(log')
      BY <2>3, <3>1, <3>2, AppendKeepsLines DEF LossInv
    <3> QED BY <1>0, <2>3, <3>3, <3>4, <3>5
  <2> QED BY <1>7, <2>2, <2>3 DEF LeavePart
<1>8. ASSUME NEW c \in Callers, WriteFails(c) PROVE LossInv'
  BY <1>7, <1>8 DEF WriteFails
<1>9. ASSUME NEW c \in Callers, CrashInWrite(c) PROVE LossInv'
  BY <1>7, <1>9 DEF CrashInWrite
<1>10. ASSUME NEW c \in Callers, CommitEvent(c) PROVE LossInv'
  <2>1. c \in Written /\ \A d \in Written' : d \in Written /\ call'[d] = call[d]
    BY <1>10, CallEnds, CallSets DEF CommitEvent, Written, Appending
  <2> QED BY <1>0, <1>1, <1>10, <2>1 DEF CommitEvent
<1>11. ASSUME NEW c \in Callers, StartCleanup(c) PROVE LossInv'
  <2>1. \A d \in Written' : d \in Written /\ call'[d] = call[d]
    BY <1>11, CallCleans, CallSets
  <2> QED BY <1>0, <1>1, <1>11, <2>1 DEF StartCleanup
<1>12. ASSUME NEW c \in Callers, FinishCleanup(c) PROVE LossInv'
  <2>1. /\ \A d \in Written' : d \in Written /\ call'[d] = call[d]
        /\ UNCHANGED <<now, acked, torn, overlap>> /\ end' = "newline"
    BY <1>12, CleanupEnds, CallSets DEF FinishCleanup
  <2>2. ASSUME "cleanup" \notin overlap
        PROVE  \A i \in DOMAIN log : Retained(log[i]) => log[i] \in Range(log')
    BY <1>a, <1>12, <2>2 DEF FinishCleanup, CleanInv, FileInv, Cleaning
  <2>3. ASSUME "cleanup" \notin overlap PROVE Gone' \subseteq Gone
    <3> SUFFICES ASSUME NEW a \in Gone' PROVE a \in Gone
      OBVIOUS
    <3>1. a \in acked \cup {call[d].event : d \in Written} /\ a.time >= now - Retention
      BY <2>1 DEF Gone
    <3>2. a \notin EventsIn(log')
      BY DEF Gone
    <3>3. a \notin EventsIn(log)
      BY <2>2, <2>3, <3>1, <3>2 DEF EventsIn, Range, Retained
    <3> QED BY <3>1, <3>3 DEF Gone
  <2>4. "cleanup" \notin overlap /\ Garbage \in Range(log) => Garbage \in Range(log')
    BY <2>2, LineFacts DEF Range
  <2> QED BY <1>0, <2>1, <2>3, <2>4, NoMoreGone
<1>13. ASSUME NEW c \in Callers, CleanupFails(c) PROVE LossInv'
  <2>1. \A d \in Written' : d \in Written /\ call'[d] = call[d]
    BY <1>13, CleanupEnds, CallSets DEF CleanupFails
  <2> QED BY <1>0, <1>1, <1>13, <2>1 DEF CleanupFails
<1>14. ASSUME NEW c \in Callers, WriteKept(c) PROVE LossInv'
  <2>1. c \in Cleaning /\ Written' = Written /\ \A d \in Written : call'[d] = call[d]
    BY <1>14, CallCopies, CallSets
  <2>2. UNCHANGED <<now, acked, torn, overlap>>
    BY <1>14 DEF WriteKept
  <2>3. CASE UNCHANGED <<log, end>>
    BY <1>0, <1>1, <2>1, <2>2, <2>3
  <2>4. CASE call[c].file = "log"
    BY <2>1, <2>2, <2>4 DEF FileInv, LossInv
  <2> QED BY <1>14, <2>3, <2>4 DEF WriteKept
<1>15. ASSUME NEW c \in Callers, CommitFails(c) PROVE LossInv'
  <2>1. \A d \in Written' : d \in Written /\ call'[d] = call[d]
    BY <1>15, CallEnds, CallSets DEF CommitFails
  <2> QED BY <1>0, <1>1, <1>15, <2>1 DEF CommitFails
<1> QED BY <1>2, <1>3, <1>4, <1>5, <1>6, <1>8, <1>9, <1>10, <1>11, <1>12, <1>13, <1>14, <1>15 DEF Next

-----------------------------------------------------------------------------
(* The chain. *)

(* A cleanup of a chained log keeps a chained end of it.                   *)
LEMMA CleanupKeepsChain ==
    ASSUME log \in Seq(Line), now \in Int, Chained(log), NEW kept \in Seq(Line), NEW f,
           Selects(f, kept, log, Len(log))
    PROVE  /\ Chained(kept)
           /\ kept # <<>> => log # <<>> /\ kept[Len(kept)] = Tip
<1>1. /\ DOMAIN log = 1 .. Len(log) /\ Len(log) \in Nat
      /\ DOMAIN kept = 1 .. Len(kept) /\ Len(kept) \in Nat
  OBVIOUS
<1>2. /\ \A i \in 1 .. Len(kept) : /\ f[i] \in 1 .. Len(log) /\ kept[i] = log[f[i]]
                                   /\ Retained(log[f[i]])
      /\ \A i, j \in 1 .. Len(kept) : i < j => f[i] < f[j]
      /\ \A k \in 1 .. Len(log) : Retained(log[k]) => \E i \in 1 .. Len(kept) : f[i] = k
  BY <1>1 DEF Selects
<1>3. \A i \in 1 .. Len(log) : log[i].time \in Int
  BY LineFacts
<1>4. ASSUME NEW i \in 1 .. Len(kept), NEW k \in 1 .. Len(log), f[i] <= k
      PROVE  \E m \in 1 .. Len(kept) : f[m] = k
  <2>1. IsEvent(log[f[i]]) /\ log[f[i]].time >= now - Retention /\ log[f[i]].time \in Int
    BY <1>1, <1>2, <1>3 DEF Chained, Retained
  <2>2. log[k].time >= log[f[i]].time /\ log[k].time \in Int
    <3>1. f[i] \in 1 .. Len(log) /\ (f[i] = k \/ f[i] < k)
      BY <1>1, <1>2, <1>4
    <3>2. CASE f[i] = k
      BY <1>3, <2>1, <3>2
    <3>3. CASE f[i] < k
      BY <1>1, <1>3, <2>1, <3>1, <3>3 DEF Chained
    <3> QED BY <3>1, <3>2, <3>3
  <2>3. Retained(log[k])
    BY <2>1, <2>2, AuditAssumption DEF Retained
  <2> QED BY <1>2, <2>3
<1>5. ASSUME NEW i \in 1 .. Len(kept), i + 1 \in 1 .. Len(kept) PROVE f[i + 1] = f[i] + 1
  <2>1. f[i] < f[i + 1] /\ f[i] + 1 \in 1 .. Len(log)
    <3>1. i < i + 1
      OBVIOUS
    <3> QED BY <1>2, <1>5, <3>1
  <2>2. PICK m \in 1 .. Len(kept) : f[m] = f[i] + 1
    <3>1. f[i] <= f[i] + 1
      BY <1>2
    <3> QED BY <1>4, <2>1, <3>1
  <2>3. i < m /\ m <= i + 1
    <3>1. ~(m < i) /\ m # i
      BY <1>2, <2>2
    <3>2. ~(i + 1 < m)
      BY <1>2, <1>5, <2>1, <2>2
    <3> QED BY <3>1, <3>2
  <2> QED BY <2>2, <2>3
<1>6. Chained(kept)
  <2>1. \A i \in 1 .. Len(kept) : IsEvent(kept[i]) /\ kept[i].time <= now
    BY <1>1, <1>2 DEF Chained
  <2>2. \A i, j \in 1 .. Len(kept) : i < j => kept[i].time <= kept[j].time
    BY <1>1, <1>2 DEF Chained
  <2>3. ASSUME NEW i \in 1 .. Len(kept), i + 1 \in 1 .. Len(kept)
        PROVE  kept[i + 1].prev = kept[i].hash
    BY <1>1, <1>2, <1>5, <2>3 DEF Chained
  <2> QED BY <1>1, <2>1, <2>2, <2>3 DEF Chained
<1>7. ASSUME kept # <<>> PROVE log # <<>> /\ kept[Len(kept)] = Tip
  <2>1. Len(kept) \in 1 .. Len(kept) /\ f[Len(kept)] \in 1 .. Len(log)
    BY <1>1, <1>2, <1>7, EmptySeq
  <2>2. Len(log) \in 1 .. Len(log) /\ f[Len(kept)] <= Len(log) /\ log # <<>>
    BY <1>1, <2>1
  <2>3. PICK m \in 1 .. Len(kept) : f[m] = Len(log)
    BY <1>4, <2>1, <2>2
  <2>4. f[Len(kept)] = Len(log)
    <3>1. m = Len(kept) \/ m < Len(kept)
      OBVIOUS
    <3> QED BY <1>2, <2>1, <2>2, <2>3, <3>1
  <2> QED BY <1>2, <2>1, <2>2, <2>4 DEF Tip
<1> QED BY <1>6, <1>7

LEMMA ChainStep ==
    TypeOK /\ SubmitInv /\ FileInv /\ CleanInv /\ ChainInv /\ [Next]_vars => ChainInv'
<1> SUFFICES ASSUME TypeOK, SubmitInv, FileInv, CleanInv, ChainInv, [Next]_vars, Calm' PROVE ChainInv'
  BY DEF ChainInv
<1>1. ASSUME torn' = torn \/ torn' = torn + 1, stray' = stray, late => late',
             overlap \subseteq overlap'
      PROVE  Calm
  <2>1. torn = 0 /\ stray = {} /\ overlap = {}
    BY <1>1 DEF Calm, TypeOK
  <2>2. ~late
    BY <1>1, Zenon DEF Calm
  <2> QED BY <2>1, <2>2 DEF Calm
<1>2. ASSUME Calm
      PROVE  /\ end = "newline"
             /\ \A lines \in Logs : Chained(lines)
             /\ \A c \in Appending : WriterInv(c)
             /\ \A c \in Cleaning : CopyInv(c)
             /\ Written = {} /\ log # <<>> =>
                   \A l \in Loggers : last[l] # Closed => last[l] = Tip.hash
             /\ \A c, d \in Appending : c = d
             /\ Appending # {} => Cleaning = {}
             /\ \A c \in Cleaning : Cleaning = {c}
  BY <1>2 DEF Calm, ChainInv, SubmitInv, OneAppend, CleanInv
<1>a. ASSUME Calm, NEW c \in Cleaning
      PROVE  call[c].file = "clean" /\ (call[c].op = "replace" => clean = call[c].kept)
  BY <1>a DEF Calm, FileInv
<1>3. now \in Int /\ \A lines \in Logs : lines \in Seq(Line)
  BY CallKinds, CallSets DEF Logs, TypeOK
<1>4. ASSUME NEW lines \in Logs, Chained(lines), now' \in Int, now <= now' PROVE Chained(lines)'
  <2>1. \A i \in DOMAIN lines : lines[i].time \in Int
    BY <1>3, LineFacts
  <2> QED BY <1>3, <1>4, <2>1 DEF Chained
<1>5. ASSUME NEW l \in Loggers, OpenLogger(l) PROVE ChainInv'
  <2>1. Calm /\ UNCHANGED <<now, log, end, call>> /\ last' = [last EXCEPT ![l] = LoadLastHash]
    BY <1>1, <1>5 DEF OpenLogger
  <2>2. Appending' = {} /\ Written' = {} /\ Cleaning' = Cleaning /\ Logs' = Logs
    BY <1>5, <2>1, CallsStay, CallSets DEF OpenLogger, Calm, Logs
  <2>3. log # <<>> => \A m \in Loggers : last'[m] # Closed => last'[m] = Tip.hash
    BY <1>2, <2>1, <2>2, CallsStay DEF LoadLastHash, Tip, TypeOK
  <2>4. \A lines \in Logs' : Chained(lines)'
    BY <1>2, <1>3, <1>4, <2>1, <2>2
  <2> QED BY <1>2, <2>1, <2>2, <2>3, <2>4 DEF ChainInv, CopyInv, Tip
<1>6. ASSUME NEW l \in Loggers, DropLogger(l) PROVE ChainInv'
  <2>1. /\ Calm /\ UNCHANGED <<now, log, end, call>> /\ last' = [last EXCEPT ![l] = Closed]
        /\ \A c \in Appending : call[c].logger # l
    BY <1>1, <1>6 DEF DropLogger
  <2>2. /\ Appending' = Appending /\ Unwritten' = Unwritten /\ Written' = Written
        /\ Cleaning' = Cleaning /\ Logs' = Logs
    BY <2>1, CallsStay DEF Logs
  <2>3. \A m \in Loggers : last'[m] # Closed => m # l /\ last'[m] = last[m]
    BY <2>1 DEF TypeOK
  <2>4. \A c \in Appending : call[c].logger \in Loggers /\ last'[call[c].logger] = last[call[c].logger]
    BY <2>1, CallKinds, CallSets DEF TypeOK
  <2>5. \A lines \in Logs' : Chained(lines)'
    BY <1>2, <1>3, <1>4, <2>1, <2>2
  <2>6. \A c \in Appending' : WriterInv(c)'
    BY <1>2, <2>1, <2>2, <2>3, <2>4 DEF WriterInv, Tip
  <2> QED BY <1>2, <2>1, <2>2, <2>3, <2>5, <2>6 DEF ChainInv, CopyInv, Tip
<1>7. CASE Tick \/ UNCHANGED vars
  <2>1. /\ Calm /\ UNCHANGED <<log, end, last, call>>
        /\ now' \in Int /\ now <= now'
    BY <1>1, <1>3, <1>7 DEF Tick, vars
  <2>2. /\ Appending' = Appending /\ Unwritten' = Unwritten /\ Written' = Written
        /\ Cleaning' = Cleaning /\ Logs' = Logs
    BY <2>1, CallsStay DEF Logs
  <2>3. \A lines \in Logs' : Chained(lines)'
    BY <1>2, <1>4, <2>1, <2>2
  <2>4. \A c \in Appending : call[c].event.time \in Int
    BY CallKinds, CallSets, LineFacts
  <2>5. \A c \in Appending' : WriterInv(c)'
    BY <1>2, <1>3, <2>1, <2>2, <2>4 DEF WriterInv, Tip
  <2> QED BY <1>2, <2>1, <2>2, <2>3, <2>5 DEF ChainInv, CopyInv, Tip
<1>8. ASSUME NEW c \in Callers, NEW l \in Loggers, NEW time \in 0 .. MaxTime, NEW stable \in BOOLEAN,
             LogEvent(c, l, time, stable)
      PROVE  ChainInv'
  <2>1. /\ Calm /\ UNCHANGED <<now, log, end, last>> /\ last[l] # Closed
        /\ time = now /\ LogEventOverlaps(l) = {}
    <3>1. late' = (late \/ time < now) /\ ~late'
      BY <1>8, Zenon DEF LogEvent, Calm
    <3>2. ~late /\ ~(time < now)
      BY <3>1, Zenon
    <3>3. time = now
      BY <1>8, <3>2 DEF LogEvent, TypeOK
    <3>4. torn' = torn /\ stray' = stray /\ overlap' = overlap \cup LogEventOverlaps(l)
          /\ overlap' = {}
      BY <1>8 DEF LogEvent, Calm
    <3>5. Calm
      BY <3>2, <3>4 DEF Calm
    <3> QED BY <1>8, <3>3, <3>4, <3>5 DEF LogEvent
  <2>2. Appending = {} /\ Cleaning = {} /\ \A m \in Loggers \ {l} : last[m] = Closed
    BY <2>1 DEF LogEventOverlaps
  <2>3. /\ Appending' = {c} /\ Unwritten' = {c} /\ Written' = {} /\ Cleaning' = {}
        /\ call'[c].event = NewEvent(l, time, stable) /\ call'[c].logger = l
    BY <1>8, <2>2, CallLogs, CallSets
  <2>4. Written = {} /\ Logs' = {log} /\ log \in Logs
    BY <2>1, <2>2, <2>3, CallSets DEF Logs
  <2>5. \A lines \in Logs' : Chained(lines)'
    BY <1>2, <1>3, <1>4, <2>1, <2>4
  <2>6. log # <<>> => last[l] = Tip.hash /\ Tip.time <= now
    <3> SUFFICES ASSUME log # <<>> PROVE last[l] = Tip.hash /\ Tip.time <= now
      OBVIOUS
    <3>1. Len(log) \in DOMAIN log
      BY EmptySeq DEF TypeOK
    <3> QED BY <1>2, <2>1, <2>4, <3>1 DEF Chained, Tip
  <2>7. WriterInv(c)'
    BY <2>1, <2>2, <2>3, <2>6 DEF WriterInv, NewEvent, Tip
  <2> QED BY <1>2, <2>1, <2>3, <2>4, <2>5, <2>6, <2>7 DEF ChainInv, Tip
<1>9. ASSUME NEW c \in Callers, WriteEvent(c) PROVE ChainInv'
  <2> DEFINE e == call[c].event
  <2>1. /\ Calm /\ UNCHANGED <<now, last>> /\ log' = AppendLine(e) /\ end' = "newline"
    BY <1>1, <1>9 DEF WriteEvent
  <2>2. /\ c \in Unwritten /\ c \in Appending /\ Appending' = Appending
        /\ Unwritten' = Unwritten \ {c} /\ Written' = Written \cup {c} /\ Cleaning' = Cleaning
        /\ call'[c].event = e /\ call'[c].logger = call[c].logger
    BY <1>9, CallWrites, CallSets
  <2>3. /\ WriterInv(c) /\ Appending' = {c} /\ Cleaning' = {} /\ Logs' = {log'}
        /\ Unwritten' = {}
    BY <1>2, <2>1, <2>2, CallSets DEF Logs
  <2>4. e \in Line /\ IsEvent(e) /\ e.time \in Int
    BY <2>2, CallKinds, CallSets, LineFacts
  <2>5. log' = Append(log, e) /\ Chained(log)
    BY <1>2, <2>1 DEF AppendLine, Logs
  <2>6. log # <<>> => e.prev = Tip.hash /\ Tip.time <= e.time
    BY <2>2, <2>3 DEF WriterInv
  <2>7. e.time <= now
    BY <2>3 DEF WriterInv
  <2> HIDE DEF e
  <2>8. /\ log' \in Seq(Line) /\ DOMAIN log' = 1 .. Len(log) + 1 /\ Len(log) \in Nat
        /\ Len(log') = Len(log) + 1 /\ log'[Len(log) + 1] = e
        /\ DOMAIN log = 1 .. Len(log)
        /\ \A i \in 1 .. Len(log) : log'[i] = log[i]
    BY <2>4, <2>5 DEF TypeOK
  <2>9. \A i \in 1 .. Len(log) : log[i].time <= e.time
    <3> SUFFICES ASSUME NEW i \in 1 .. Len(log) PROVE log[i].time <= e.time
      OBVIOUS
    <3>1. log # <<>> /\ Len(log) \in 1 .. Len(log)
      BY <2>8
    <3>2. log[i].time \in Int /\ Tip.time \in Int
      BY <3>1, LineFacts DEF Tip, TypeOK
    <3>3. log[i].time <= Tip.time
      BY <2>5, <2>8, <3>1, <3>2 DEF Chained, Tip
    <3> QED BY <2>4, <2>6, <3>1, <3>2, <3>3
  <2>10. Chained(log)'
    <3>1. \A i \in 1 .. Len(log) + 1 : IsEvent(log'[i]) /\ log'[i].time <= now
      <4>1. \A i \in 1 .. Len(log) : IsEvent(log[i]) /\ log[i].time <= now
        BY <2>5, <2>8 DEF Chained
      <4> QED BY <2>4, <2>7, <2>8, <4>1
    <3>2. \A i, j \in 1 .. Len(log) + 1 : i < j => log'[i].time <= log'[j].time
      <4> SUFFICES ASSUME NEW i \in 1 .. Len(log) + 1, NEW j \in 1 .. Len(log) + 1, i < j
                   PROVE  log'[i].time <= log'[j].time
        OBVIOUS
      <4>1. i \in 1 .. Len(log)
        BY <2>8
      <4>2. CASE j \in 1 .. Len(log)
        BY <2>5, <2>8, <4>1, <4>2 DEF Chained
      <4>3. CASE j = Len(log) + 1
        BY <2>8, <2>9, <4>1, <4>3
      <4> QED BY <2>8, <4>2, <4>3
    <3>3. \A i \in 1 .. Len(log) + 1 : i + 1 \in 1 .. Len(log) + 1 => log'[i + 1].prev = log'[i].hash
      <4> SUFFICES ASSUME NEW i \in 1 .. Len(log) + 1, i + 1 \in 1 .. Len(log) + 1
                   PROVE  log'[i + 1].prev = log'[i].hash
        OBVIOUS
      <4>1. i \in 1 .. Len(log)
        BY <2>8
      <4>2. CASE i + 1 \in 1 .. Len(log)
        BY <2>5, <2>8, <4>1, <4>2 DEF Chained
      <4>3. CASE i = Len(log)
        BY <2>6, <2>8, <4>1, <4>3 DEF Tip
      <4>4. Len(log) \in Nat
        BY <2>8, Zenon
      <4>5. i + 1 \in 1 .. Len(log) \/ i = Len(log)
        BY <4>1, <4>4
      <4> QED BY <4>2, <4>3, <4>5
    <3>4. DOMAIN log' = 1 .. Len(log) + 1
      BY <2>8
    <3>5. \A i \in DOMAIN log' : IsEvent(log'[i]) /\ log'[i].time <= now'
      BY <2>1, <3>1, <3>4
    <3>6. /\ \A i, j \in DOMAIN log' : i < j => log'[i].time <= log'[j].time
          /\ \A i \in DOMAIN log' : i + 1 \in DOMAIN log' => log'[i + 1].prev = log'[i].hash
      BY <3>2, <3>3, <3>4, Zenon
    <3> QED BY <3>5, <3>6 DEF Chained, IsEvent
  <2>11. WriterInv(c)'
    <3>1. Len(log') = Len(log) + 1
      BY <2>8, Zenon
    <3>2. Len(log') # 0 /\ Len(<<>>) = 0
      BY <2>8, <3>1
    <3>3. log' # <<>> /\ log'[Len(log')] = e
      BY <2>8, <3>1, <3>2, Zenon
    <3>4. /\ last[call[c].logger] # Closed
          /\ \A l \in Loggers : last[l] # Closed => l = call[c].logger
      BY <2>3 DEF WriterInv
    <3> QED BY <2>1, <2>2, <2>3, <2>7, <3>3, <3>4 DEF WriterInv, Tip
  <2>12. Written' # {}
    BY <2>2
  <2>13. \A lines \in Logs' : Chained(lines)'
    BY <2>3, <2>10 DEF Chained
  <2> QED BY <2>1, <2>3, <2>11, <2>12, <2>13 DEF ChainInv
<1>10. ASSUME NEW c \in Callers, WriteFails(c) PROVE ChainInv'
  <2>1. Calm /\ UNCHANGED <<now, log, end, last>> /\ c \in Unwritten /\ c \in Appending
    BY <1>1, <1>10 DEF WriteFails, LeavePart, Calm, TypeOK, Unwritten, Appending
  <2>2. /\ Appending' = {} /\ Written' = {} /\ Written = {} /\ Cleaning' = {} /\ Logs' = {log}
        /\ log \in Logs
    <3>1. Appending = {c} /\ Cleaning = {} /\ Written = {}
      BY <1>2, <2>1, CallSets
    <3>2. Appending' = {} /\ Written' = {} /\ Cleaning' = {}
      BY <1>10, <3>1, CallEnds DEF WriteFails
    <3> QED BY <2>1, <3>1, <3>2 DEF Logs
  <2>3. \A lines \in Logs' : Chained(lines)'
    BY <1>2, <1>3, <1>4, <2>1, <2>2
  <2> QED BY <1>2, <2>1, <2>2, <2>3 DEF ChainInv, Tip
<1>11. ASSUME call' = [d \in Callers |-> Idle], last' = [l \in Loggers |-> Closed],
              UNCHANGED <<now, log, end>>, Calm
       PROVE  ChainInv'
  <2>1. Appending' = {} /\ Cleaning' = {} /\ Logs' = {log} /\ log \in Logs
    BY <1>11, CallsEnd DEF Logs
  <2>2. \A lines \in Logs' : Chained(lines)'
    BY <1>2, <1>3, <1>4, <1>11, <2>1
  <2> QED BY <1>2, <1>11, <2>1, <2>2 DEF ChainInv
<1>12. CASE Crash
  BY <1>1, <1>11, <1>12 DEF Crash
<1>13. ASSUME NEW c \in Callers, CrashInWrite(c) PROVE ChainInv'
  <2>1. Calm /\ UNCHANGED <<now, log, end>>
    BY <1>1, <1>13 DEF CrashInWrite, LeavePart, Calm, TypeOK
  <2> QED BY <1>11, <1>13, <2>1 DEF CrashInWrite
<1>14. ASSUME NEW c \in Callers, CommitEvent(c) PROVE ChainInv'
  <2>1. /\ Calm /\ UNCHANGED <<now, log, end>> /\ c \in Written /\ c \in Appending
        /\ last' = [last EXCEPT ![call[c].logger] = call[c].event.hash]
    BY <1>1, <1>14 DEF CommitEvent, Written, Appending
  <2>2. /\ WriterInv(c) /\ Appending' = {} /\ Written' = {} /\ Cleaning' = {}
        /\ Logs' = {log} /\ log \in Logs
    <3>1. Appending = {c} /\ Cleaning = {} /\ Written = {c} /\ WriterInv(c)
      BY <1>2, <2>1, CallSets
    <3>2. Appending' = {} /\ Written' = {} /\ Cleaning' = {}
      BY <1>14, <3>1, CallEnds DEF CommitEvent
    <3> QED BY <2>1, <3>1, <3>2 DEF Logs
  <2>3. \A lines \in Logs' : Chained(lines)'
    BY <1>2, <1>3, <1>4, <2>1, <2>2
  <2>4. \A l \in Loggers : last'[l] # Closed => last'[l] = Tip.hash
    <3> SUFFICES ASSUME NEW l \in Loggers, last'[l] # Closed PROVE last'[l] = Tip.hash
      OBVIOUS
    <3>1. l = call[c].logger
      BY <2>1, <2>2 DEF WriterInv, TypeOK
    <3> QED BY <2>1, <2>2, <3>1 DEF WriterInv, TypeOK
  <2> QED BY <1>2, <2>1, <2>2, <2>3, <2>4 DEF ChainInv, Tip
<1>15. ASSUME NEW c \in Callers, StartCleanup(c) PROVE ChainInv'
  <2> DEFINE kept == Kept(log)[Len(log)]
  <2>1. Calm /\ UNCHANGED <<now, log, end, last>> /\ Appending \cup Cleaning = {}
    BY <1>1, <1>15 DEF StartCleanup, CleanupOverlaps, Calm
  <2>2. /\ Appending' = {} /\ Written' = {} /\ Written = {} /\ Cleaning' = {c}
        /\ call'[c].kept = kept /\ log \in Logs /\ Logs' = {log, kept}
    BY <1>15, <2>1, CallCleans, CallSets DEF Logs
  <2>3. log \in Seq(Line) /\ kept \in Seq(Line) /\ \E f : Selects(f, kept, log, Len(log))
    BY KeptIsSelection DEF TypeOK
  <2> HIDE DEF kept
  <2>4. Chained(log) /\ Chained(kept) /\ (kept # <<>> => log # <<>> /\ kept[Len(kept)] = Tip)
    BY <1>2, <1>3, <2>1, <2>2, <2>3, CleanupKeepsChain
  <2>5. \A lines \in Logs' : Chained(lines)'
    BY <2>1, <2>2, <2>4 DEF Chained
  <2> QED BY <1>2, <2>1, <2>2, <2>4, <2>5 DEF ChainInv, CopyInv, Tip
<1>16. ASSUME NEW c \in Callers, FinishCleanup(c) PROVE ChainInv'
  <2>1. /\ Calm /\ UNCHANGED <<now, last>> /\ log' = call[c].kept /\ end' = "newline"
        /\ c \in Cleaning
    <3>1. Calm /\ c \in Cleaning /\ call[c].op = "replace"
      BY <1>1, <1>16 DEF FinishCleanup, Cleaning
    <3> QED BY <1>16, <1>a, <3>1 DEF FinishCleanup
  <2>2. /\ Appending' = {} /\ Written' = {} /\ Written = {} /\ Cleaning' = {}
        /\ CopyInv(c) /\ log' \in Logs /\ Logs' = {log'}
    <3>1. Cleaning = {c} /\ Appending = {} /\ Written = {} /\ CopyInv(c)
      BY <1>2, <2>1, CallSets
    <3>2. Appending' = {} /\ Written' = {} /\ Cleaning' = {}
      BY <1>16, <3>1, CleanupEnds, CallSets
    <3> QED BY <2>1, <3>1, <3>2 DEF Logs
  <2>3. \A lines \in Logs' : Chained(lines)'
    BY <1>2, <1>3, <1>4, <2>1, <2>2
  <2>4. log' # <<>> => log # <<>> /\ log'[Len(log')] = Tip
    BY <2>1, <2>2 DEF CopyInv
  <2> QED BY <1>2, <2>1, <2>2, <2>3, <2>4 DEF ChainInv, Tip
<1>17. ASSUME NEW c \in Callers, CleanupFails(c) PROVE ChainInv'
  <2>1. Calm /\ UNCHANGED <<now, log, end, last>> /\ c \in Cleaning
    BY <1>1, <1>17 DEF CleanupFails, Cleaning
  <2>2. /\ Appending' = {} /\ Written' = {} /\ Written = {} /\ Cleaning' = {} /\ Logs' = {log}
        /\ log \in Logs
    <3>1. Cleaning = {c} /\ Appending = {} /\ Written = {}
      BY <1>2, <2>1, CallSets
    <3>2. Appending' = {} /\ Written' = {} /\ Cleaning' = {}
      BY <1>17, <3>1, CleanupEnds, CallSets
    <3> QED BY <2>1, <3>1, <3>2 DEF Logs
  <2>3. \A lines \in Logs' : Chained(lines)'
    BY <1>2, <1>3, <1>4, <2>1, <2>2
  <2> QED BY <1>2, <2>1, <2>2, <2>3 DEF ChainInv, Tip
<1>18. ASSUME NEW c \in Callers, WriteKept(c) PROVE ChainInv'
  <2>1. /\ c \in Cleaning /\ Appending' = Appending /\ Unwritten' = Unwritten
        /\ Written' = Written /\ Cleaning' = Cleaning
        /\ \A d \in Cleaning : call'[d].kept = call[d].kept
        /\ \A d \in Appending : call'[d] = call[d]
    BY <1>18, CallCopies, CallSets
  <2>2. Calm /\ UNCHANGED <<now, last>>
    BY <1>1, <1>18 DEF WriteKept
  <2>3. UNCHANGED <<log, end>> /\ Appending = {} /\ Written = {} /\ log \in Logs
    BY <1>2, <1>18, <1>a, <2>1, <2>2, CallSets DEF WriteKept, Logs
  <2>4. Logs' = Logs
    BY <2>1, <2>3 DEF Logs
  <2>5. \A lines \in Logs' : Chained(lines)'
    BY <1>2, <1>3, <1>4, <2>2, <2>4
  <2>6. \A d \in Cleaning' : CopyInv(d)'
    BY <1>2, <2>1, <2>2, <2>3 DEF CopyInv, Tip
  <2> QED BY <1>2, <2>1, <2>2, <2>3, <2>5, <2>6 DEF ChainInv, Tip
<1>19. ASSUME NEW c \in Callers, CommitFails(c) PROVE ChainInv'
  BY <1>19 DEF CommitFails, Calm
<1> QED BY <1>5, <1>6, <1>7, <1>8, <1>9, <1>10, <1>12, <1>13, <1>14, <1>15, <1>16, <1>17, <1>18, <1>19
        DEF Next

-----------------------------------------------------------------------------
(* The inductive invariant. *)

AuditInv == TypeOK /\ SubmitInv /\ TailInv /\ FileInv /\ CleanInv /\ LossInv /\ ChainInv

LEMMA AuditInvInit == Init => AuditInv
<1> SUFFICES ASSUME Init PROVE AuditInv
  OBVIOUS
<1>1. Appending = {} /\ Cleaning = {} /\ Unwritten = {} /\ Written = {}
  BY DEF Init, Idle, Appending, Cleaning, Unwritten, Written
<1>2. Logs = {<<>>} /\ log = <<>> /\ DOMAIN log = {}
  BY <1>1 DEF Logs, Init
<1>3. SubmitInv
  BY <1>1, <1>2 DEF Init, SubmitInv, HashInv, OneAppend, LineInv, OrderInv, Ordered
<1>4. TailInv /\ FileInv /\ CleanInv
  BY <1>1 DEF Init, TailInv, FileInv, CleanInv
<1>5. LossInv
  <2>1. Gone = {}
    BY <1>1 DEF Init, Gone
  <2> QED BY <2>1, FS_EmptySet DEF Init, LossInv
<1>6. ChainInv
  BY <1>1, <1>2 DEF Init, ChainInv, Chained
<1> QED BY <1>3, <1>4, <1>5, <1>6, TypeInit DEF AuditInv

THEOREM AuditInvariant == Spec => []AuditInv
<1>1. AuditInv /\ [Next]_vars => AuditInv'
  BY TypeStep, SubmitStep, TailStep, FileStep, CleanStep, LossStep, ChainStep DEF AuditInv
<1> QED BY <1>1, AuditInvInit, PTL DEF Spec

-----------------------------------------------------------------------------
(* What it implies. *)

(* verify_log_integrity finds nothing in a log of events that JSON gives   *)
(* back as they were, written by one logger and one call at a time, without*)
(* a torn append or a call that failed with its line in the file, and with *)
(* events in the order of their timestamps, whatever restarts, other       *)
(* failures and cleanups it went through.                                  *)
THEOREM AuditLogVerifies == Spec => []LogVerifies
<1>1. AuditInv => LogVerifies
  <2> SUFFICES ASSUME AuditInv, Calm, \A e \in EventsIn(log) : e.stable, NEW i \in DOMAIN log
               PROVE  IsEvent(log[i]) /\ ChainHolds(log, i) /\ log[i].stable
    BY DEF LogVerifies, Violations, Calm
  <2>1. Chained(log) /\ DOMAIN log = 1 .. Len(log) /\ Len(log) \in Nat
    BY DEF AuditInv, ChainInv, Logs, TypeOK
  <2>2. IsEvent(log[i]) /\ \A j \in 1 .. i - 1 : IsEvent(log[j])
    BY <2>1 DEF Chained
  <2> DEFINE before == PrecedingEvents(log, i)
  <2>3. before = 1 .. i - 1
    BY <2>2 DEF PrecedingEvents
  <2>4. ChainHolds(log, i)
    <3>1. CASE i = 1
      BY <2>3, <3>1 DEF ChainHolds
    <3>2. CASE i # 1
      <4>1. i \in 1 .. Len(log) /\ i - 1 \in 1 .. i - 1 /\ i - 1 \in DOMAIN log /\ (i - 1) + 1 = i
        BY <2>1, <3>2
      <4>2. log[i].prev = log[i - 1].hash
        BY <2>1, <4>1 DEF Chained
      <4>3. (CHOOSE j \in before : \A k \in before : k <= j) = i - 1
        <5>1. i - 1 \in before /\ \A k \in before : k <= i - 1
          BY <2>3, <4>1
        <5>2. \A j \in before : (\A k \in before : k <= j) => j = i - 1
          BY <2>3, <4>1, <5>1
        <5> QED BY <5>1, <5>2
      <4> QED BY <4>2, <4>3 DEF ChainHolds
    <3> QED BY <3>1, <3>2
  <2>5. log[i] \in EventsIn(log)
    BY <2>2 DEF EventsIn, Range
  <2> QED BY <2>2, <2>4, <2>5
<1> QED BY <1>1, AuditInvariant, PTL

(* However many calls and loggers append at a time, at most one event that *)
(* log_event returned is lost by each torn append, as long as no cleanup   *)
(* overlaps with another call.                                             *)
THEOREM AuditLossBounded == Spec => []LossBoundedByTornWrites
<1>1. AuditInv => LossBoundedByTornWrites
  <2> SUFFICES ASSUME AuditInv, "cleanup" \notin overlap PROVE Cardinality(Lost) <= torn
    BY DEF LossBoundedByTornWrites
  <2>1. Lost \subseteq Gone
    BY DEF Lost, Gone
  <2>2. /\ IsFiniteSet(Gone) /\ torn \in Nat
        /\ Cardinality(Gone) + (IF end = "newline" THEN 0 ELSE 1) <= torn
    BY DEF AuditInv, TypeOK, LossInv
  <2>3. /\ Cardinality(Lost) <= Cardinality(Gone)
        /\ Cardinality(Lost) \in Nat /\ Cardinality(Gone) \in Nat
    BY <2>1, <2>2, FS_Subset, FS_CardinalityType
  <2> QED BY <2>2, <2>3
<1> QED BY <1>1, AuditInvariant, PTL

(* A log from which an event within its retention is missing does not      *)
(* verify: the line that took it is kept, by cleanups too, and read as a   *)
(* violation.                                                              *)
THEOREM AuditLossReported == Spec => []LossIsReported
<1>1. AuditInv => LossIsReported
  <2> SUFFICES ASSUME AuditInv, "cleanup" \notin overlap, Lost # {} PROVE Violations(log) # {}
    BY DEF LossIsReported
  <2>1. Gone # {}
    BY DEF Lost, Gone
  <2>2. PICK i \in DOMAIN log : log[i] = Garbage
    BY <2>1 DEF AuditInv, LossInv, Range
  <2>3. i \in Violations(log)
    BY <2>2, LineFacts DEF Violations
  <2> QED BY <2>3
<1> QED BY <1>1, AuditInvariant, PTL

(* Unless two cleanups overlapped, no event is in the file twice, and one  *)
(* call and logger at a time write events in the order of their submission,*)
(* whatever failed and whatever a cleanup met.                             *)
THEOREM AuditLogOrdered == Spec => []LogInOrder
<1>1. AuditInv => LogInOrder
  BY DEF AuditInv, SubmitInv, OrderInv, Ordered, Logs, LogInOrder
<1> QED BY <1>1, AuditInvariant, PTL

(* A readable line within its retention leaves the file only as the        *)
(* unterminated last line that the next append is glued to, or in a        *)
(* cleanup that overlaps with another call.                                *)
THEOREM AuditLinesStay == Spec => ReadableLinesStay
<1>1. AuditInv /\ [Next]_vars =>
        [\A i \in DOMAIN log :
           \/ log[i] \in Range(log')
           \/ ~Retained(log[i])
           \/ i = Len(log) /\ end # "newline"
           \/ "cleanup" \in overlap]_vars
  BY LinesStay DEF AuditInv
<1> QED BY <1>1, AuditInvariant, PTL DEF Spec, ReadableLinesStay

(* The hash a logger that is used alone has in memory is the one of the    *)
(* newest event in the file, also after it was opened on an existing file. *)
THEOREM AuditChainContinues == Spec => []ChainContinues
<1>1. AuditInv => ChainContinues
  <2> SUFFICES ASSUME AuditInv, Calm, \A c \in Callers : call[c] = Idle, EventsIn(log) # {},
                      NEW l \in Loggers, last[l] # Closed
               PROVE  \E e \in EventsIn(log) :
                         e.hash = last[l] /\ \A f \in EventsIn(log) : f.hash <= e.hash
    BY DEF ChainContinues, Calm
  <2>1. log \in Seq(Line) /\ DOMAIN log = 1 .. Len(log) /\ Len(log) \in Nat
    BY DEF AuditInv, TypeOK
  <2>2. log # <<>> /\ Len(log) \in DOMAIN log
    BY <2>1 DEF EventsIn, Range
  <2>3. Written = {}
    BY DEF Written, Appending, Idle
  <2>4. Chained(log) /\ last[l] = Tip.hash
    BY <2>2, <2>3 DEF AuditInv, ChainInv, Logs
  <2>5. Tip \in EventsIn(log)
    BY <2>2, <2>4 DEF Chained, EventsIn, Range, Tip
  <2>6. ASSUME NEW f \in EventsIn(log) PROVE f.hash <= Tip.hash
    <3>1. PICK i \in DOMAIN log : f = log[i]
      BY DEF EventsIn, Range
    <3>2. f.hash \in Int /\ Tip.hash \in Int
      BY <2>1, <2>2, <3>1, LineFacts DEF Tip
    <3>3. CASE i = Len(log)
      BY <3>1, <3>2, <3>3 DEF Tip
    <3>4. CASE i < Len(log)
      <4>1. Ordered(log) /\ "append" \notin overlap
        BY DEF AuditInv, SubmitInv, OrderInv, Logs, Calm
      <4>2. f.hash < Tip.hash
        BY <2>2, <2>4, <3>1, <3>4, <4>1 DEF Ordered, Chained, Tip
      <4> QED BY <3>2, <4>2
    <3> QED BY <2>1, <3>3, <3>4
  <2> QED BY <2>4, <2>5, <2>6
<1> QED BY <1>1, AuditInvariant, PTL
=============================================================================
