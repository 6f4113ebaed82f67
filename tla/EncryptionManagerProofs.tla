------------------------ MODULE EncryptionManagerProofs ------------------------
(* Theorems about EncryptionManager, for every number of threads, keys and  *)
(* failures.                                                               *)
EXTENDS EncryptionManager, TLAPS

(* Files, the active key and the calls are about keys that were generated; *)
(* a thread takes the active key only when there is one, and stores a new  *)
(* key in a rotation only after it generated it.                           *)
UsedInv ==
    /\ \A k \in Keys : keyFile[k] # "absent" \/ meta[k] # "absent" => k \in used
    /\ active # None => active \in used
    /\ \A t \in Threads : call[t] # Idle =>
          /\ call[t].key \in used
          /\ call[t].new # None => call[t].new \in used
          /\ call[t].phase = "take" => active # None
          /\ call[t].phase \in {"replace", "retire"} => call[t].new # None

LEMMA IdleIsNoCall == Idle \notin Call
<1>1. \A c \in Call : c.op # "idle"
  BY DEF Call
<1>2. Idle.op = "idle"
  BY DEF Idle
<1> QED BY <1>1, <1>2

(* Moving a call to another phase. *)
LEMMA MovedCall ==
    ASSUME NEW c \in Call, NEW phase \in {"take", "use", "load", "unlink"} \cup Storing,
           NEW at \in 0 .. 4
    PROVE  [c EXCEPT !.phase = phase, !.at = at] \in Call
BY DEF Call

LEMMA RenewedCall ==
    ASSUME NEW c \in Call, NEW phase \in {"take", "use", "load", "unlink"} \cup Storing,
           NEW n \in Keys, NEW at \in 0 .. 4
    PROVE  [c EXCEPT !.phase = phase, !.new = n, !.at = at] \in Call
BY DEF Call

(* A step that gives thread t the call c, or none, and leaves the files.   *)
LEMMA CallStep ==
    ASSUME TypeOK, UsedInv, NEW t \in Threads, NEW c \in Call \cup {Idle},
           call' = [call EXCEPT ![t] = c],
           UNCHANGED files, used \subseteq used', used' \subseteq Keys,
           active' \in Keys \cup {None}, active' # None => active' \in used',
           active # None => active' # None,
           c # Idle => /\ c.key \in used'
                       /\ c.new # None => c.new \in used'
                       /\ c.phase = "take" => active' # None
                       /\ c.phase \in {"replace", "retire"} => c.new # None
    PROVE  UsedInv' /\ call' \in [Threads -> Call \cup {Idle}]
BY DEF TypeOK, UsedInv, files

LEMMA TypeStep == TypeOK /\ UsedInv /\ [Next]_vars => TypeOK' /\ UsedInv'
<1> SUFFICES ASSUME TypeOK, UsedInv, [Next]_vars PROVE TypeOK' /\ UsedInv'
  OBVIOUS
<1> USE EncryptionAssumption, IdleIsNoCall
<1>1. \A t \in Threads : call[t] # Idle => call[t] \in Call
  BY DEF TypeOK
<1>0. /\ {"take", "replace", "retire"} \subseteq {"take", "use", "load", "unlink"} \cup Storing
       /\ 0 \in 0 .. 4
  BY DEF Storing
<1>2. ASSUME NEW t \in Threads, NEW op \in {"encrypt", "rotate"}, NEW phase \in {"use", "load"},
             Begin(t, op, phase)
      PROVE  TypeOK' /\ UsedInv'
  <2>1. CASE active # None
    <3>1. [op |-> op, phase |-> phase, key |-> active, new |-> None, at |-> 0] \in Call
      BY <2>1 DEF Call, TypeOK
    <3>2. /\ call' = [call EXCEPT ![t] =
                [op |-> op, phase |-> phase, key |-> active, new |-> None, at |-> 0]]
          /\ UNCHANGED <<files, active, history, failures, used>>
      BY <1>2, <2>1 DEF Begin
    <3>3. active \in used
      BY <2>1 DEF UsedInv
    <3> QED BY <3>1, <3>2, <3>3, CallStep DEF TypeOK, files, history
  <2>2. CASE active = None
    <3>1. PICK k \in Keys \ used :
             /\ call' = [call EXCEPT ![t] =
                  [op |-> op, phase |-> "generate", key |-> k, new |-> None, at |-> 0]]
             /\ used' = used \cup {k}
      BY <1>2, <2>2 DEF Begin
    <3>2. [op |-> op, phase |-> "generate", key |-> k, new |-> None, at |-> 0] \in Call
      BY DEF Call, Storing
    <3>3. UNCHANGED <<files, active, history, failures>>
      BY <1>2 DEF Begin
    <3>4. used' \subseteq Keys
      BY <3>1 DEF TypeOK
    <3> QED BY <2>2, <3>1, <3>2, <3>3, <3>4, CallStep DEF TypeOK, files, history
  <2> QED BY <2>1, <2>2
<1>3. ASSUME NEW t \in Threads, Activate(t) PROVE TypeOK' /\ UsedInv'
  <2>1. call[t] \in Call /\ call' = [call EXCEPT ![t] = [call[t] EXCEPT !.phase = "take", !.at = 0]]
    BY <1>1, <1>3 DEF Activate, Stored, InPhase, Goto
  <2> DEFINE c == [call[t] EXCEPT !.phase = "take", !.at = 0]
  <2>2. c \in Call /\ c.phase = "take" /\ c.key = call[t].key /\ c.new = call[t].new
    <3>1. call[t] \in Call
      BY <2>1
    <3>2. c \in Call
      BY <1>0, <3>1, MovedCall
    <3>3. c.phase = "take" /\ c.key = call[t].key /\ c.new = call[t].new
      BY <3>1 DEF Call
    <3> QED BY <3>2, <3>3
  <2>3. /\ active' = call[t].key /\ call[t].key \in Keys
        /\ UNCHANGED <<files, used, history, failures>>
    BY <1>3, <2>1 DEF Activate, Call
  <2>4. call[t].key \in used /\ (call[t].new # None => call[t].new \in used) /\ used \subseteq Keys
    BY <2>1 DEF UsedInv, TypeOK
  <2>5. call' = [call EXCEPT ![t] = c]
    BY <2>1
  <2> HIDE DEF c
  <2> QED BY <2>2, <2>3, <2>4, <2>5, CallStep DEF TypeOK, files, history
<1>4. ASSUME NEW t \in Threads, TakeActive(t) PROVE TypeOK' /\ UsedInv'
  <2> DEFINE next == IF call[t].op = "encrypt" THEN "use" ELSE "load"
             c == [call[t] EXCEPT !.key = active, !.phase = next]
  <2>1. call[t] \in Call /\ call[t].phase = "take"
    BY <1>1, <1>4 DEF TakeActive, InPhase
  <2>2. active # None /\ active \in used /\ active \in Keys
    BY <2>1 DEF UsedInv, TypeOK
  <2>3. c \in Call /\ c.key = active /\ c.new = call[t].new /\ c.phase \in {"use", "load"}
    BY <2>1, <2>2 DEF Call
  <2>4. call' = [call EXCEPT ![t] = c] /\ UNCHANGED <<files, active, used, history, failures>>
    BY <1>4 DEF TakeActive
  <2>5. (call[t].new # None => call[t].new \in used) /\ used \subseteq Keys
    BY <2>1 DEF UsedInv, TypeOK
  <2> HIDE DEF c
  <2> QED BY <2>2, <2>3, <2>4, <2>5, CallStep DEF TypeOK, files, history
<1>5. ASSUME NEW t \in Threads, NEW k \in Keys, BeginEncryptWith(t, k) PROVE TypeOK' /\ UsedInv'
  <2> DEFINE c == [op |-> "encrypt", phase |-> "use", key |-> k, new |-> None, at |-> 0]
  <2>1. c \in Call /\ c.key = k /\ c.new = None /\ c.phase = "use"
    BY DEF Call
  <2>2. k \in used /\ used \subseteq Keys
    BY <1>5 DEF BeginEncryptWith, CanLoad, UsedInv, TypeOK
  <2>3. call' = [call EXCEPT ![t] = c] /\ UNCHANGED <<files, active, used, history, failures>>
    BY <1>5 DEF BeginEncryptWith
  <2>4. active \in Keys \cup {None} /\ (active # None => active \in used)
    BY DEF TypeOK, UsedInv
  <2> HIDE DEF c
  <2> QED BY <2>1, <2>2, <2>3, <2>4, CallStep DEF TypeOK, files, history
<1>6. ASSUME NEW t \in Threads, Return(t), UNCHANGED <<files, used>>,
             active' \in Keys \cup {None}, active' # None => active' \in used,
             active # None => active' # None
      PROVE  UsedInv' /\ call' \in [Threads -> Call \cup {Idle}]
  BY <1>6, CallStep DEF Return, TypeOK
<1>7. active \in Keys \cup {None} /\ (active # None => active \in used)
  BY DEF TypeOK, UsedInv
<1>8. ASSUME NEW t \in Threads, FinishEncrypt(t) PROVE TypeOK' /\ UsedInv'
  <2>1. call[t].key \in used
    BY <1>8 DEF FinishEncrypt, InPhase, UsedInv
  <2> QED BY <1>6, <1>7, <1>8, <2>1 DEF FinishEncrypt, TypeOK, files
<1>9. ASSUME NEW t \in Threads, LoadOldKey(t) PROVE TypeOK' /\ UsedInv'
  <2>1. call[t] \in Call /\ call[t].key \in used
    BY <1>1, <1>9 DEF LoadOldKey, InPhase, UsedInv
  <2>2. CASE ~CanLoad(call[t].key)
    BY <1>6, <1>7, <1>9, <2>2 DEF LoadOldKey, TypeOK, files, history
  <2>3. CASE CanLoad(call[t].key)
    <3>1. PICK n \in Keys \ used :
             /\ call' = [call EXCEPT ![t].phase = "replace", ![t].new = n, ![t].at = 0]
             /\ used' = used \cup {n}
      BY <1>9, <2>3 DEF LoadOldKey
    <3> DEFINE c == [call[t] EXCEPT !.phase = "replace", !.new = n, !.at = 0]
    <3>2. c \in Call /\ c.key = call[t].key /\ c.new = n /\ c.phase = "replace" /\ n # None
      <4>1. call[t] \in Call /\ n \in Keys /\ n # None
        BY <2>1
      <4>2. c \in Call /\ c.key = call[t].key /\ c.new = n /\ c.phase = "replace"
        <5>1. c \in Call
          BY <1>0, <4>1, RenewedCall
        <5>2. c.key = call[t].key /\ c.new = n /\ c.phase = "replace"
          BY <4>1 DEF Call
        <5> QED BY <5>1, <5>2
      <4> QED BY <4>1, <4>2
    <3>3. UNCHANGED <<files, active, history, failures>>
      BY <1>9 DEF LoadOldKey
    <3>4. used' \subseteq Keys
      BY <3>1 DEF TypeOK
    <3>5. call' = [call EXCEPT ![t] = c]
      BY <3>1
    <3> HIDE DEF c
    <3> QED BY <1>7, <2>1, <3>1, <3>2, <3>3, <3>4, <3>5, CallStep DEF TypeOK, files, history
  <2> QED BY <2>2, <2>3
<1>10. ASSUME NEW t \in Threads, RetireOldKey(t) PROVE TypeOK' /\ UsedInv'
  <2> DEFINE c == [call[t] EXCEPT !.phase = "retire", !.at = 0]
  <2>1. call[t] \in Call /\ call[t].phase = "replace"
    BY <1>1, <1>10 DEF RetireOldKey, Stored, InPhase
  <2>2. c \in Call /\ c.key = call[t].key /\ c.new = call[t].new /\ c.phase = "retire"
    <3>1. c \in Call
      BY <1>0, <2>1, MovedCall
    <3>2. c.key = call[t].key /\ c.new = call[t].new /\ c.phase = "retire"
      BY <2>1 DEF Call
    <3> QED BY <3>1, <3>2
  <2>3. call[t].key \in used /\ call[t].new # None /\ call[t].new \in used
    BY <1>10, <2>1 DEF UsedInv, RetireOldKey, Stored, InPhase
  <2>4. call' = [call EXCEPT ![t] = c] /\ UNCHANGED <<files, active, used, history, failures>>
    BY <1>10 DEF RetireOldKey, Goto
  <2>5. used \subseteq Keys
    BY DEF TypeOK
  <2> HIDE DEF c
  <2> QED BY <1>7, <2>2, <2>3, <2>4, <2>5, CallStep DEF TypeOK, files, history
<1>11. ASSUME NEW t \in Threads, FinishRotate(t) PROVE TypeOK' /\ UsedInv'
  <2>1. call[t].new \in used /\ call[t].new # None /\ call[t].new \in Keys
    BY <1>1, <1>11 DEF FinishRotate, Stored, InPhase, UsedInv, TypeOK
  <2> QED BY <1>6, <1>11, <2>1 DEF FinishRotate, TypeOK, files, history
<1>12. ASSUME NEW t \in Threads, StoreStep(t) PROVE TypeOK' /\ UsedInv'
  <2>1. call[t] \in Call /\ call[t] # Idle /\ call[t].phase \in Storing /\ call[t].at \in 0 .. 3
    BY <1>1, <1>12 DEF StoreStep, InPhase
  <2>2. Target(t) \in used /\ Target(t) \in Keys
    BY <2>1 DEF Target, UsedInv, TypeOK, Storing
  <2> DEFINE c == [call[t] EXCEPT !.at = call[t].at + 1]
  <2>3. /\ c \in Call /\ c.key = call[t].key /\ c.new = call[t].new /\ c.phase = call[t].phase
        /\ c # Idle
    BY <2>1 DEF Call
  <2>4. /\ call' = [call EXCEPT ![t] = c]
        /\ UNCHANGED <<active, used, ciphertexts, deleted, failures>>
        /\ retired' \in {retired, retired \cup {Target(t)}}
    BY <1>12 DEF StoreStep
  <2>5. /\ keyFile' \in [Keys -> {"absent", "torn", "whole"}]
        /\ meta' \in [Keys -> {"absent", "torn", "active", "inactive"}]
        /\ \A k \in Keys : k # Target(t) => keyFile'[k] = keyFile[k] /\ meta'[k] = meta[k]
    BY <1>12, <2>2 DEF StoreStep, TypeOK
  <2>6. call' \in [Threads -> Call \cup {Idle}] /\ call'[t] = c
        /\ \A u \in Threads \ {t} : call'[u] = call[u]
    BY <2>3, <2>4 DEF TypeOK
  <2> HIDE DEF c
  <2>7. TypeOK'
    BY <2>2, <2>4, <2>5, <2>6 DEF TypeOK
  <2>8. \A k \in Keys : keyFile'[k] # "absent" \/ meta'[k] # "absent" => k \in used'
    BY <2>2, <2>4, <2>5 DEF UsedInv
  <2>9. \A u \in Threads : call'[u] # Idle =>
           /\ call'[u].key \in used'
           /\ call'[u].new # None => call'[u].new \in used'
           /\ call'[u].phase = "take" => active' # None
           /\ call'[u].phase \in {"replace", "retire"} => call'[u].new # None
    BY <2>1, <2>3, <2>4, <2>6 DEF UsedInv
  <2> QED BY <1>7, <2>4, <2>7, <2>8, <2>9 DEF UsedInv
<1>13. ASSUME NEW t \in Threads, StoreFails(t) PROVE TypeOK' /\ UsedInv'
  BY <1>6, <1>7, <1>13 DEF StoreFails, TypeOK, files, history
<1>14. ASSUME NEW t \in Threads, FinishDelete(t) PROVE TypeOK' /\ UsedInv'
  <2>1. call[t].key \in used /\ call[t].key \in Keys
    BY <1>14 DEF FinishDelete, InPhase, UsedInv, TypeOK
  <2>2. /\ call' = [call EXCEPT ![t] = Idle]
        /\ meta' = [meta EXCEPT ![call[t].key] = "absent"]
        /\ UNCHANGED <<keyFile, active, used, history, failures>>
    BY <1>14 DEF FinishDelete, Return
  <2>3. TypeOK'
    BY <2>1, <2>2 DEF TypeOK, history
  <2>4. UsedInv'
    BY <2>1, <2>2 DEF TypeOK, UsedInv
  <2> QED BY <2>3, <2>4
<1>15. ASSUME NEW t \in Threads, NEW k \in Keys, BeginDelete(t, k) PROVE TypeOK' /\ UsedInv'
  <2> DEFINE c == [op |-> "delete", phase |-> "unlink", key |-> k, new |-> None, at |-> 0]
  <2>1. c \in Call /\ c.key = k /\ c.new = None /\ c.phase = "unlink"
    BY DEF Call
  <2>2. k \in used
    BY <1>15 DEF BeginDelete, UsedInv
  <2>3. /\ call' = [call EXCEPT ![t] = c]
        /\ keyFile' = [keyFile EXCEPT ![k] = "absent"]
        /\ deleted' = deleted \cup {k}
        /\ UNCHANGED <<meta, active, used, ciphertexts, retired, failures>>
    BY <1>15 DEF BeginDelete
  <2> HIDE DEF c
  <2>4. TypeOK'
    BY <2>1, <2>2, <2>3 DEF TypeOK
  <2>5. UsedInv'
    BY <2>1, <2>2, <2>3 DEF TypeOK, UsedInv
  <2> QED BY <2>4, <2>5
<1>16. CASE Crash
  BY <1>16 DEF Crash, TypeOK, UsedInv, files, history
<1>17. CASE UNCHANGED vars
  BY <1>17 DEF vars, TypeOK, UsedInv
<1> QED
  BY <1>2, <1>3, <1>4, <1>5, <1>8, <1>9, <1>10, <1>11, <1>12, <1>13, <1>14, <1>15, <1>16, <1>17
  DEF Next, BeginEncrypt, BeginRotate

(* Every reachable state has its type.                                     *)
THEOREM EncryptionTypeCorrect == Spec => []TypeOK
<1>1. Init => TypeOK /\ UsedInv
  BY EncryptionAssumption DEF Init, TypeOK, UsedInv
<1>2. TypeOK /\ UsedInv /\ [Next]_vars => (TypeOK /\ UsedInv)'
  BY TypeStep
<1> QED BY <1>1, <1>2, PTL DEF Spec

-----------------------------------------------------------------------------
(* What is encrypted with a key stays readable.  A key is held when data   *)
(* was or will be encrypted with it; it is sound when its files are        *)
(* complete, unless it was deleted or its rotation began to store it again.*)

Sound(k) == k \in deleted \cup retired \/ CanLoad(k)

Holds(t, k) ==
    \/ InPhase(t, {"use", "replace", "retire"}) /\ call[t].key = k
    \/ InPhase(t, {"retire"}) /\ call[t].new = k
    \/ InPhase(t, {"generate", "replace"}) /\ call[t].at = 4 /\ Target(t) = k

Held(k) == k \in ciphertexts \/ k = active \/ \E t \in Threads : Holds(t, k)

(* A key that is being stored for the first time: nobody else knows it.    *)
Fresh(t, k) ==
    InPhase(t, {"generate", "replace"}) /\ call[t].at < 4 /\ Target(t) = k

Unlinks(t, k) == InPhase(t, {"unlink"}) /\ call[t].key = k

KeyInv ==
    /\ \A k \in Keys : Held(k) => Sound(k)
    /\ \A t \in Threads, k \in Keys : Fresh(t, k) =>
          /\ ~Held(k)
          /\ meta[k] \in {"absent", "torn"}
          /\ call[t].at >= 2 => keyFile[k] = "whole" \/ k \in deleted
    /\ \A t, u \in Threads, k \in Keys : Fresh(t, k) /\ Fresh(u, k) => t = u
    /\ \A t \in Threads, k \in Keys : Unlinks(t, k) => k \in deleted

(* While nothing fails, an incomplete file is being written by some thread.*)
Writes(t, k, n) == InPhase(t, Storing) /\ call[t].at = n /\ Target(t) = k

FilesInv ==
    /\ \A k \in Keys : Held(k) /\ k \notin deleted => keyFile[k] # "absent" /\ meta[k] # "absent"
    /\ failures = 0 => \A k \in Keys :
          /\ keyFile[k] = "torn" => \E t \in Threads : Writes(t, k, 1)
          /\ meta[k] = "torn" => \E t \in Threads : Writes(t, k, 3)

LEMMA TargetIsUsed ==
    ASSUME TypeOK, UsedInv, NEW t \in Threads, InPhase(t, Storing)
    PROVE  Target(t) \in used /\ Target(t) \in Keys
BY DEF InPhase, Target, Storing, UsedInv, TypeOK

LEMMA KnownIsUsed ==
    ASSUME TypeOK, UsedInv, NEW k \in Keys,
           Held(k) \/ CanLoad(k) \/ \E t \in Threads : Fresh(t, k)
    PROVE  k \in used
<1>1. CASE CanLoad(k)
  BY <1>1 DEF CanLoad, UsedInv
<1>2. CASE k \in ciphertexts \/ k = active
  BY <1>2, EncryptionAssumption DEF TypeOK, UsedInv
<1>3. ASSUME NEW t \in Threads, Holds(t, k) PROVE k \in used
  BY <1>3, EncryptionAssumption DEF Holds, InPhase, Target, UsedInv
<1>4. ASSUME NEW t \in Threads, Fresh(t, k) PROVE k \in used
  <2>1. InPhase(t, Storing) /\ Target(t) = k
    BY <1>4 DEF Fresh, InPhase, Storing
  <2> QED BY <2>1, TargetIsUsed
<1> QED BY <1>1, <1>2, <1>3, <1>4 DEF Held

(* What a step of thread t leaves of the other threads. *)
LEMMA OthersStay ==
    ASSUME NEW t \in Threads, \A u \in Threads \ {t} : call'[u] = call[u]
    PROVE  \A u \in Threads \ {t}, k \in Keys :
              /\ Fresh(u, k)' <=> Fresh(u, k)
              /\ Holds(u, k)' <=> Holds(u, k)
              /\ Unlinks(u, k)' <=> Unlinks(u, k)
              /\ \A n \in {1, 3} : Writes(u, k, n)' <=> Writes(u, k, n)
BY DEF Fresh, Target, Holds, InPhase, Unlinks, Writes

(* A step of thread t that writes no file. *)
LEMMA QuietStep ==
    ASSUME TypeOK, UsedInv, KeyInv, FilesInv, NEW t \in Threads,
           \A u \in Threads \ {t} : call'[u] = call[u],
           UNCHANGED <<keyFile, meta, retired, deleted>>,
           \A k \in Keys : k \in ciphertexts' \/ k = active' \/ Holds(t, k)' => Held(k) \/ CanLoad(k),
           \A k \in Keys : Fresh(t, k)' => call'[t].at = 0 /\ k \notin used,
           \A k \in Keys : ~Unlinks(t, k)',
           \/ failures' # 0
           \/ failures' = failures /\ \A k \in Keys : ~Writes(t, k, 1) /\ ~Writes(t, k, 3)
    PROVE  KeyInv' /\ FilesInv'
<1>1. \A k \in Keys : Held(k)' => Held(k) \/ CanLoad(k)
  BY OthersStay DEF Held
<1>2. \A k \in Keys : (CanLoad(k)' <=> CanLoad(k)) /\ (Sound(k)' <=> Sound(k))
  BY DEF CanLoad, Sound
<1>3. \A k \in Keys : Held(k)' => Sound(k)'
  BY <1>1, <1>2 DEF KeyInv, Sound
<1>4. \A k \in Keys \ used : ~Held(k)' /\ meta[k] = "absent" /\ \A u \in Threads : ~Fresh(u, k)
  BY <1>1, KnownIsUsed DEF UsedInv
<1>5. ASSUME NEW u \in Threads, NEW k \in Keys, Fresh(u, k)'
      PROVE  /\ ~Held(k)'
             /\ meta'[k] \in {"absent", "torn"}
             /\ call'[u].at >= 2 => keyFile'[k] = "whole" \/ k \in deleted'
  <2>1. CASE u = t
    BY <1>4, <1>5, <2>1
  <2>2. CASE u # t
    <3>1. Fresh(u, k) /\ call'[u] = call[u]
      BY <1>5, <2>2, OthersStay
    <3>2. ~CanLoad(k) /\ ~Held(k)
      BY <3>1 DEF KeyInv, CanLoad
    <3> QED BY <1>1, <3>1, <3>2 DEF KeyInv
  <2> QED BY <2>1, <2>2
<1>6. ASSUME NEW u \in Threads, NEW v \in Threads, NEW k \in Keys, Fresh(u, k)', Fresh(v, k)'
      PROVE  u = v
  <2>1. CASE u = t \/ v = t
    BY <1>4, <1>6, <2>1, OthersStay
  <2>2. CASE u # t /\ v # t
    BY <1>6, <2>2, OthersStay DEF KeyInv
  <2> QED BY <2>1, <2>2
<1>7. \A u \in Threads, k \in Keys : Unlinks(u, k)' => k \in deleted'
  BY OthersStay DEF KeyInv
<1>8. \A k \in Keys : Held(k)' /\ k \notin deleted' => keyFile'[k] # "absent" /\ meta'[k] # "absent"
  BY <1>1 DEF FilesInv, CanLoad
<1>9. failures' = 0 => \A k \in Keys :
         /\ keyFile'[k] = "torn" => \E u \in Threads : Writes(u, k, 1)'
         /\ meta'[k] = "torn" => \E u \in Threads : Writes(u, k, 3)'
  BY OthersStay DEF FilesInv
<1> QED BY <1>3, <1>5, <1>6, <1>7, <1>8, <1>9 DEF KeyInv, FilesInv

(* A step of thread t that stores a part of a file. *)
LEMMA KeyStoreStep ==
    ASSUME TypeOK, UsedInv, KeyInv, FilesInv, NEW t \in Threads, StoreStep(t)
    PROVE  KeyInv' /\ FilesInv'
<1>1. /\ call[t] \in Call /\ InPhase(t, Storing) /\ call[t].at \in 0 .. 3
      /\ call[t].phase \in Storing
  BY DEF StoreStep, InPhase, TypeOK
<1>2. PICK k \in Keys : k = Target(t) /\ k \in used
  BY <1>1, TargetIsUsed
<1>3. /\ call' = [call EXCEPT ![t] = [call[t] EXCEPT !.at = call[t].at + 1]]
      /\ UNCHANGED <<active, used, ciphertexts, deleted, failures>>
      /\ retired' = IF call[t].phase = "retire" THEN retired \cup {k} ELSE retired
      /\ \A m \in Keys \ {k} : keyFile'[m] = keyFile[m] /\ meta'[m] = meta[m]
  BY <1>2 DEF StoreStep, TypeOK
<1>4. /\ call'[t].phase = call[t].phase /\ call'[t].key = call[t].key
      /\ call'[t].new = call[t].new /\ call'[t].at = call[t].at + 1
      /\ call'[t] # Idle
      /\ \A u \in Threads \ {t} : call'[u] = call[u]
  BY <1>1, <1>3, IdleIsNoCall DEF TypeOK, Call, Idle
<1>5. Target(t)' = k
  BY <1>2, <1>4 DEF Target
<1>6. \A m \in Keys \ {k} : (Held(m)' <=> Held(m)) /\ (Sound(m) => Sound(m)')
  <2>1. \A m \in Keys \ {k} : Holds(t, m)' <=> Holds(t, m)
    BY <1>1, <1>2, <1>4, <1>5 DEF Holds, InPhase, Storing
  <2> QED BY <1>3, <1>4, <2>1, OthersStay DEF Held, Sound, CanLoad
<1>7. \A m \in Keys : ~Unlinks(t, m)'
  BY <1>1, <1>4 DEF Unlinks, InPhase, Storing
<1>8. ASSUME call[t].phase = "retire" PROVE KeyInv'
  <2>1. Held(k)
    BY <1>1, <1>2, <1>8 DEF Held, Holds, Target, InPhase
  <2>2. \A u \in Threads : ~Fresh(u, k)
    BY <1>2, <2>1 DEF KeyInv
  <2>3. Sound(k)'
    BY <1>3, <1>8 DEF Sound
  <2>4. \A u \in Threads, m \in Keys : Fresh(u, m)' => m # k /\ Fresh(u, m) /\ u # t
    BY <1>4, <1>5, <1>8, <2>2, OthersStay DEF Fresh, InPhase
  <2> QED BY <1>2, <1>3, <1>4, <1>6, <1>7, <2>3, <2>4, OthersStay DEF KeyInv
<1>9. ASSUME call[t].phase # "retire" PROVE KeyInv'
  <2>1. Fresh(t, k)
    BY <1>1, <1>2, <1>9 DEF Fresh, InPhase, Storing
  <2>2. /\ ~Held(k) /\ meta[k] \in {"absent", "torn"}
        /\ call[t].at >= 2 => keyFile[k] = "whole" \/ k \in deleted
        /\ \A u \in Threads : Fresh(u, k) => u = t
    BY <1>2, <2>1 DEF KeyInv
  <2>3. \A u \in Threads, m \in Keys : Fresh(u, m)' => Fresh(u, m) /\ (u = t <=> m = k)
    BY <1>1, <1>4, <1>5, <2>1, <2>2, OthersStay DEF Fresh, InPhase
  <2>4. Held(k)' => call[t].at = 3
    <3>1. Holds(t, k)' => Holds(t, k) \/ call[t].at = 3
      BY <1>1, <1>2, <1>4, <1>5, <1>9 DEF Holds, InPhase, Storing
    <3> QED BY <1>3, <1>4, <2>2, <3>1, OthersStay DEF Held
  <2>5. Held(k)' => Sound(k)'
    <3>1. CASE call[t].at = 3
      BY <1>2, <1>3, <1>9, <2>2, <3>1 DEF StoreStep, Sound, CanLoad, TypeOK
    <3>2. CASE call[t].at # 3
      BY <2>4, <3>2
    <3> QED BY <3>1, <3>2
  <2>6. Fresh(t, k)' => call[t].at # 3
    BY <1>4 DEF Fresh
  <2>7. call[t].at # 3 =>
           /\ meta'[k] \in {"absent", "torn"}
           /\ call'[t].at >= 2 => keyFile'[k] = "whole" \/ k \in deleted'
    <3>1. CASE call[t].at = 0
      BY <1>2, <1>4, <2>2, <3>1 DEF StoreStep, TypeOK
    <3>2. CASE call[t].at = 1
      BY <1>2, <1>4, <2>2, <3>2 DEF StoreStep, TypeOK
    <3>3. CASE call[t].at = 2
      BY <1>2, <1>4, <2>2, <3>3 DEF StoreStep, TypeOK
    <3> QED BY <1>1, <3>1, <3>2, <3>3
  <2>8. ASSUME NEW u \in Threads, NEW m \in Keys, Fresh(u, m)'
        PROVE  /\ ~Held(m)'
               /\ meta'[m] \in {"absent", "torn"}
               /\ call'[u].at >= 2 => keyFile'[m] = "whole" \/ m \in deleted'
    <3>1. CASE u = t
      BY <2>3, <2>4, <2>6, <2>7, <2>8, <3>1
    <3>2. CASE u # t
      BY <1>3, <1>4, <1>6, <2>3, <2>8, <3>2 DEF KeyInv
    <3> QED BY <3>1, <3>2
  <2>9. \A m \in Keys : Held(m)' => Sound(m)'
    BY <1>6, <2>5 DEF KeyInv
  <2>10. \A u, v \in Threads, m \in Keys : Fresh(u, m)' /\ Fresh(v, m)' => u = v
    BY <2>3 DEF KeyInv
  <2>11. \A u \in Threads, m \in Keys : Unlinks(u, m)' => m \in deleted'
    BY <1>3, <1>4, <1>7, OthersStay DEF KeyInv
  <2> QED BY <2>8, <2>9, <2>10, <2>11 DEF KeyInv
<1>10. KeyInv'
  BY <1>8, <1>9
<1>11. \A m \in Keys : Held(m)' /\ m \notin deleted' => keyFile'[m] # "absent" /\ meta'[m] # "absent"
  <2>1. \A m \in Keys \ {k} : Held(m)' /\ m \notin deleted' => keyFile'[m] # "absent" /\ meta'[m] # "absent"
    BY <1>3, <1>6 DEF FilesInv
  <2>2. CASE Held(k)
    BY <1>2, <1>3, <2>1, <2>2 DEF StoreStep, FilesInv, TypeOK
  <2>3. CASE ~Held(k)
    <3>1. Held(k)' => Sound(k)'
      BY <1>10 DEF KeyInv
    <3>2. call[t].phase # "retire"
      BY <1>1, <1>2, <2>3 DEF Held, Holds, Target, InPhase
    <3>3. Fresh(t, k)
      BY <1>1, <1>2, <3>2 DEF Fresh, InPhase, Storing
    <3>4. Held(k)' => call[t].at = 3
      <4>1. Holds(t, k)' => Holds(t, k) \/ call[t].at = 3
        BY <1>1, <1>2, <1>4, <1>5, <3>2 DEF Holds, InPhase, Storing
      <4> QED BY <1>3, <1>4, <2>3, <4>1, OthersStay DEF Held
    <3>5. call[t].at = 3 /\ k \notin deleted => keyFile'[k] = "whole" /\ meta'[k] = "active"
      BY <1>2, <3>2, <3>3 DEF KeyInv, StoreStep, TypeOK
    <3> QED BY <1>3, <2>1, <3>4, <3>5
  <2> QED BY <2>2, <2>3
<1>12. failures' = 0 => \A m \in Keys :
          /\ keyFile'[m] = "torn" => \E u \in Threads : Writes(u, m, 1)'
          /\ meta'[m] = "torn" => \E u \in Threads : Writes(u, m, 3)'
  <2>1. \A m \in Keys \ {k} : \A n \in {1, 3} : Writes(t, m, n)' <=> Writes(t, m, n)
    BY <1>2, <1>5 DEF Writes
  <2>2. InPhase(t, Storing)'
    BY <1>1, <1>4 DEF InPhase
  <2>3. ASSUME failures' = 0, keyFile'[k] = "torn" PROVE \E u \in Threads : Writes(u, k, 1)'
    <3>1. CASE call[t].at = 0
      BY <1>4, <1>5, <2>2, <3>1 DEF Writes
    <3>2. CASE call[t].at # 0
      <4>1. keyFile'[k] = keyFile[k] /\ call[t].at # 1
        BY <1>2, <2>3, <3>2 DEF StoreStep, TypeOK
      <4>2. PICK u \in Threads : Writes(u, k, 1)
        BY <1>3, <2>3, <4>1 DEF FilesInv
      <4>3. u # t
        BY <4>1, <4>2 DEF Writes
      <4> QED BY <1>4, <4>2, <4>3, OthersStay
    <3> QED BY <3>1, <3>2
  <2>4. ASSUME failures' = 0, meta'[k] = "torn" PROVE \E u \in Threads : Writes(u, k, 3)'
    <3>1. CASE call[t].at = 2
      BY <1>4, <1>5, <2>2, <3>1 DEF Writes
    <3>2. CASE call[t].at # 2
      <4>1. meta'[k] = meta[k] /\ call[t].at # 3
        BY <1>2, <2>4, <3>2 DEF StoreStep, TypeOK
      <4>2. PICK u \in Threads : Writes(u, k, 3)
        BY <1>3, <2>4, <4>1 DEF FilesInv
      <4>3. u # t
        BY <4>1, <4>2 DEF Writes
      <4> QED BY <1>4, <4>2, <4>3, OthersStay
    <3> QED BY <3>1, <3>2
  <2>5. ASSUME failures' = 0, NEW m \in Keys \ {k}
        PROVE  /\ keyFile'[m] = "torn" => \E u \in Threads : Writes(u, m, 1)'
               /\ meta'[m] = "torn" => \E u \in Threads : Writes(u, m, 3)'
    BY <1>3, <1>4, <2>1, <2>5, OthersStay DEF FilesInv
  <2> QED BY <2>3, <2>4, <2>5
<1> QED BY <1>10, <1>11, <1>12 DEF FilesInv

LEMMA KeyStep ==
    TypeOK /\ UsedInv /\ KeyInv /\ FilesInv /\ [Next]_vars => KeyInv' /\ FilesInv'
<1> SUFFICES ASSUME TypeOK, UsedInv, KeyInv, FilesInv, [Next]_vars PROVE KeyInv' /\ FilesInv'
  OBVIOUS
<1> USE EncryptionAssumption, IdleIsNoCall
<1>1. \A t \in Threads : call[t] # Idle => call[t] \in Call
  BY DEF TypeOK
<1>0. ASSUME NEW t \in Threads,
             \/ call[t] = Idle
             \/ InPhase(t, {"take", "use", "load"})
             \/ call[t].at = 4
      PROVE  \A k \in Keys : ~Writes(t, k, 1) /\ ~Writes(t, k, 3)
  BY <1>0 DEF Writes, InPhase, Storing
<1>2. ASSUME NEW t \in Threads, NEW op \in {"encrypt", "rotate"}, NEW phase \in {"use", "load"},
             Begin(t, op, phase)
      PROVE  KeyInv' /\ FilesInv'
  <2>0. \A k \in Keys : ~Writes(t, k, 1) /\ ~Writes(t, k, 3)
    BY <1>0, <1>2 DEF Begin
  <2>1. CASE active # None
    <3> DEFINE c == [op |-> op, phase |-> phase, key |-> active, new |-> None, at |-> 0]
    <3>1. /\ call' = [call EXCEPT ![t] = c]
          /\ UNCHANGED <<files, active, history, failures, used>>
      BY <1>2, <2>1 DEF Begin
    <3>2. c.phase = phase /\ c.key = active
      OBVIOUS
    <3>3. call'[t] = c /\ \A u \in Threads \ {t} : call'[u] = call[u]
      BY <3>1 DEF TypeOK
    <3> HIDE DEF c
    <3>4. \A k \in Keys : /\ Holds(t, k)' => k = active
                          /\ ~Fresh(t, k)' /\ ~Unlinks(t, k)'
      BY <3>2, <3>3 DEF Holds, Fresh, Unlinks, InPhase
    <3> QED BY <2>0, <3>1, <3>3, <3>4, QuietStep DEF Held, files, history
  <2>2. CASE active = None
    <3>1. PICK n \in Keys \ used :
             /\ call' = [call EXCEPT ![t] =
                  [op |-> op, phase |-> "generate", key |-> n, new |-> None, at |-> 0]]
             /\ used' = used \cup {n}
      BY <1>2, <2>2 DEF Begin
    <3> DEFINE c == [op |-> op, phase |-> "generate", key |-> n, new |-> None, at |-> 0]
    <3>2. c.phase = "generate" /\ c.key = n /\ c.at = 0
      OBVIOUS
    <3>3. call'[t] = c /\ \A u \in Threads \ {t} : call'[u] = call[u]
      BY <3>1 DEF TypeOK
    <3>4. UNCHANGED <<files, active, history, failures>>
      BY <1>2 DEF Begin
    <3> HIDE DEF c
    <3>5. \A k \in Keys : /\ ~Holds(t, k)' /\ ~Unlinks(t, k)'
                          /\ Fresh(t, k)' => call'[t].at = 0 /\ k \notin used
      BY <3>1, <3>2, <3>3 DEF Holds, Fresh, Unlinks, InPhase, Target
    <3> QED BY <2>0, <3>3, <3>4, <3>5, QuietStep DEF Held, files, history
  <2> QED BY <2>1, <2>2
<1>3. ASSUME NEW t \in Threads, Activate(t) PROVE KeyInv' /\ FilesInv'
  <2>1. /\ call[t] \in Call /\ InPhase(t, {"generate"}) /\ call[t].at = 4
        /\ call' = [call EXCEPT ![t] = [call[t] EXCEPT !.phase = "take", !.at = 0]]
        /\ active' = call[t].key
        /\ UNCHANGED <<files, used, history, failures>>
    BY <1>1, <1>3 DEF Activate, Stored, InPhase, Goto
  <2>2. call'[t].phase = "take" /\ \A u \in Threads \ {t} : call'[u] = call[u]
    BY <2>1 DEF TypeOK, Call
  <2>3. Held(call[t].key)
    BY <2>1 DEF Held, Holds, InPhase, Target
  <2>4. \A k \in Keys : k = active' => Held(k)
    BY <2>1, <2>3
  <2>5. \A k \in Keys : ~Holds(t, k)' /\ ~Unlinks(t, k)' /\ ~Fresh(t, k)'
    BY <2>2 DEF Holds, Fresh, Unlinks, InPhase
  <2>6. \A k \in Keys : ~Writes(t, k, 1) /\ ~Writes(t, k, 3)
    BY <1>0, <2>1
  <2> QED BY <2>1, <2>2, <2>4, <2>5, <2>6, QuietStep DEF Held, files, history
<1>4. ASSUME NEW t \in Threads, TakeActive(t) PROVE KeyInv' /\ FilesInv'
  <2> DEFINE next == IF call[t].op = "encrypt" THEN "use" ELSE "load"
             c == [call[t] EXCEPT !.key = active, !.phase = next]
  <2>1. call[t] \in Call /\ call[t].phase = "take"
    BY <1>1, <1>4 DEF TakeActive, InPhase
  <2>2. c.key = active /\ c.phase \in {"use", "load"}
    BY <2>1 DEF Call
  <2>3. call' = [call EXCEPT ![t] = c] /\ UNCHANGED <<files, active, used, history, failures>>
    BY <1>4 DEF TakeActive
  <2>4. call'[t] = c /\ \A u \in Threads \ {t} : call'[u] = call[u]
    BY <2>3 DEF TypeOK
  <2> HIDE DEF c
  <2>5. \A k \in Keys : (Holds(t, k)' => k = active) /\ ~Unlinks(t, k)' /\ ~Fresh(t, k)'
    BY <2>2, <2>4 DEF Holds, Fresh, Unlinks, InPhase
  <2>6. \A k \in Keys : ~Writes(t, k, 1) /\ ~Writes(t, k, 3)
    <3>1. call[t].phase \notin Storing
      BY <2>1 DEF Storing
    <3> QED BY <3>1 DEF Writes, InPhase
  <2> QED BY <2>3, <2>4, <2>5, <2>6, QuietStep DEF Held, files, history
<1>5. ASSUME NEW t \in Threads, NEW k \in Keys, BeginEncryptWith(t, k) PROVE KeyInv' /\ FilesInv'
  <2> DEFINE c == [op |-> "encrypt", phase |-> "use", key |-> k, new |-> None, at |-> 0]
  <2>1. c.phase = "use" /\ c.key = k
    OBVIOUS
  <2>2. CanLoad(k) /\ call' = [call EXCEPT ![t] = c] /\ UNCHANGED <<files, active, used, history, failures>>
    BY <1>5 DEF BeginEncryptWith
  <2>3. call'[t] = c /\ \A u \in Threads \ {t} : call'[u] = call[u]
    BY <2>2 DEF TypeOK
  <2> HIDE DEF c
  <2>4. \A m \in Keys : (Holds(t, m)' => m = k) /\ ~Unlinks(t, m)' /\ ~Fresh(t, m)'
    BY <2>1, <2>3 DEF Holds, Fresh, Unlinks, InPhase
  <2>5. \A m \in Keys : ~Writes(t, m, 1) /\ ~Writes(t, m, 3)
    BY <1>0, <1>5 DEF BeginEncryptWith
  <2> QED BY <2>2, <2>3, <2>4, <2>5, QuietStep DEF Held, files, history
(* The calls that end. *)
<1>6. ASSUME NEW t \in Threads, Return(t), UNCHANGED <<files, retired, deleted>>,
             \A k \in Keys : k \in ciphertexts' \/ k = active' => Held(k),
             \/ failures' # 0
             \/ failures' = failures /\ \A k \in Keys : ~Writes(t, k, 1) /\ ~Writes(t, k, 3)
      PROVE  KeyInv' /\ FilesInv'
  <2>1. call'[t] = Idle /\ \A u \in Threads \ {t} : call'[u] = call[u]
    BY <1>6 DEF Return, TypeOK
  <2>2. \A k \in Keys : ~Holds(t, k)' /\ ~Unlinks(t, k)' /\ ~Fresh(t, k)'
    BY <2>1 DEF Holds, Fresh, Unlinks, InPhase
  <2> QED BY <1>6, <2>1, <2>2, QuietStep DEF files
<1>7. ASSUME NEW t \in Threads, FinishEncrypt(t) PROVE KeyInv' /\ FilesInv'
  <2>1. \A k \in Keys : k = call[t].key => Held(k)
    BY <1>7 DEF FinishEncrypt, Held, Holds, InPhase
  <2>2. \A k \in Keys : ~Writes(t, k, 1) /\ ~Writes(t, k, 3)
    <3>1. call[t].phase \notin Storing
      BY <1>7 DEF FinishEncrypt, InPhase, Storing
    <3> QED BY <3>1 DEF Writes, InPhase
  <2> QED BY <1>6, <1>7, <2>1, <2>2 DEF FinishEncrypt, Held, files
<1>8. ASSUME NEW t \in Threads, StoreFails(t) PROVE KeyInv' /\ FilesInv'
  <2>1. failures' # 0
    BY <1>8 DEF StoreFails, TypeOK
  <2> QED BY <1>6, <1>8, <2>1 DEF StoreFails, Held, files, history
<1>9. ASSUME NEW t \in Threads, FinishRotate(t) PROVE KeyInv' /\ FilesInv'
  <2>1. \A k \in Keys : k = call[t].new => Held(k)
    BY <1>9 DEF FinishRotate, Stored, Held, Holds, InPhase
  <2>2. \A k \in Keys : ~Writes(t, k, 1) /\ ~Writes(t, k, 3)
    BY <1>0, <1>9 DEF FinishRotate, Stored
  <2> QED BY <1>6, <1>9, <2>1, <2>2 DEF FinishRotate, Held, files, history
<1>10. ASSUME NEW t \in Threads, LoadOldKey(t) PROVE KeyInv' /\ FilesInv'
  <2>1. call[t] \in Call
    BY <1>1, <1>10 DEF LoadOldKey, InPhase
  <2>0. \A k \in Keys : ~Writes(t, k, 1) /\ ~Writes(t, k, 3)
    <3>1. call[t].phase \notin Storing
      BY <1>10 DEF LoadOldKey, Storing, InPhase
    <3> QED BY <3>1 DEF Writes, InPhase
  <2>2. CASE ~CanLoad(call[t].key)
    BY <1>6, <1>10, <2>0, <2>2 DEF LoadOldKey, Held, files, history
  <2>3. CASE CanLoad(call[t].key)
    <3>1. PICK n \in Keys \ used :
             call' = [call EXCEPT ![t] = [call[t] EXCEPT !.phase = "replace", !.new = n, !.at = 0]]
      BY <1>10, <2>3 DEF LoadOldKey
    <3>2. /\ call'[t].phase = "replace" /\ call'[t].new = n /\ call'[t].at = 0
          /\ call'[t].key = call[t].key
          /\ \A u \in Threads \ {t} : call'[u] = call[u]
      BY <2>1, <3>1 DEF TypeOK, Call
    <3>3. UNCHANGED <<files, active, history, failures>>
      BY <1>10 DEF LoadOldKey
    <3>4. \A k \in Keys : /\ Holds(t, k)' => k = call[t].key
                          /\ ~Unlinks(t, k)'
                          /\ Fresh(t, k)' => call'[t].at = 0 /\ k \notin used
      BY <3>1, <3>2 DEF Holds, Fresh, Unlinks, InPhase, Target
    <3> QED BY <2>0, <2>3, <3>2, <3>3, <3>4, QuietStep DEF Held, files, history
  <2> QED BY <2>2, <2>3
<1>11. ASSUME NEW t \in Threads, RetireOldKey(t) PROVE KeyInv' /\ FilesInv'
  <2>1. /\ call[t] \in Call /\ InPhase(t, {"replace"}) /\ call[t].at = 4 /\ call[t].phase = "replace"
        /\ call' = [call EXCEPT ![t] = [call[t] EXCEPT !.phase = "retire", !.at = 0]]
        /\ UNCHANGED <<files, active, used, history, failures>>
    BY <1>1, <1>11 DEF RetireOldKey, Stored, InPhase, Goto
  <2>2. /\ call'[t].phase = "retire" /\ call'[t].key = call[t].key /\ call'[t].new = call[t].new
        /\ \A u \in Threads \ {t} : call'[u] = call[u]
    BY <2>1 DEF TypeOK, Call
  <2>3. \A k \in Keys : Holds(t, k)' => Holds(t, k)
    BY <2>1, <2>2 DEF Holds, InPhase, Target
  <2>4. \A k \in Keys : ~Unlinks(t, k)' /\ ~Fresh(t, k)'
    BY <2>2 DEF Fresh, Unlinks, InPhase
  <2>5. \A k \in Keys : ~Writes(t, k, 1) /\ ~Writes(t, k, 3)
    BY <1>0, <2>1
  <2> QED BY <2>1, <2>2, <2>3, <2>4, <2>5, QuietStep DEF Held, files, history
<1>12. ASSUME NEW t \in Threads, NEW d \in Keys, BeginDelete(t, d) PROVE KeyInv' /\ FilesInv'
  <2> DEFINE c == [op |-> "delete", phase |-> "unlink", key |-> d, new |-> None, at |-> 0]
  <2>1. c.phase = "unlink" /\ c.key = d
    OBVIOUS
  <2>2. /\ call' = [call EXCEPT ![t] = c] /\ deleted' = deleted \cup {d}
        /\ \A k \in Keys \ {d} : keyFile'[k] = keyFile[k]
        /\ keyFile'[d] = "absent" /\ call[t] = Idle
        /\ UNCHANGED <<meta, active, ciphertexts, retired, failures>>
    BY <1>12 DEF BeginDelete, TypeOK
  <2>3. call'[t] = c /\ \A u \in Threads \ {t} : call'[u] = call[u]
    BY <2>2 DEF TypeOK
  <2> HIDE DEF c
  <2>4. \A k \in Keys : ~Holds(t, k)' /\ ~Fresh(t, k)' /\ (Unlinks(t, k)' => k = d)
    BY <2>1, <2>3 DEF Holds, Fresh, Unlinks, InPhase
  <2>5. \A k \in Keys : (Held(k)' => Held(k)) /\ (Sound(k) => Sound(k)')
    BY <2>2, <2>3, <2>4, OthersStay DEF Held, Sound, CanLoad
  <2>6. KeyInv'
    BY <2>2, <2>3, <2>4, <2>5, OthersStay DEF KeyInv
  <2>7. \A k \in Keys : ~Writes(t, k, 1) /\ ~Writes(t, k, 3)
    BY <2>2 DEF Writes, InPhase
  <2> QED BY <2>2, <2>3, <2>5, <2>6, <2>7, OthersStay DEF FilesInv
<1>13. ASSUME NEW t \in Threads, FinishDelete(t) PROVE KeyInv' /\ FilesInv'
  <2>1. PICK d \in Keys : d = call[t].key
    BY <1>1, <1>13 DEF FinishDelete, InPhase, Call
  <2>2. /\ call'[t] = Idle /\ \A u \in Threads \ {t} : call'[u] = call[u]
        /\ \A k \in Keys \ {d} : meta'[k] = meta[k]
        /\ meta'[d] = "absent"
        /\ UNCHANGED <<keyFile, active, ciphertexts, retired, deleted, failures>>
    BY <1>13, <2>1 DEF FinishDelete, Return, history, TypeOK
  <2>3. d \in deleted
    BY <1>13, <2>1 DEF FinishDelete, KeyInv, Unlinks
  <2>4. \A k \in Keys : ~Holds(t, k)' /\ ~Fresh(t, k)' /\ ~Unlinks(t, k)'
    BY <2>2 DEF Holds, Fresh, Unlinks, InPhase
  <2>5. \A k \in Keys : (Held(k)' => Held(k)) /\ (Sound(k) => Sound(k)')
    BY <2>2, <2>3, <2>4, OthersStay DEF Held, Sound, CanLoad
  <2>6. \A k \in Keys : meta'[k] \in {meta[k], "absent"}
    BY <2>2
  <2>7. KeyInv'
    BY <2>2, <2>4, <2>5, <2>6, OthersStay DEF KeyInv
  <2>8. \A k \in Keys : ~Writes(t, k, 1) /\ ~Writes(t, k, 3)
    <3>1. call[t].phase \notin Storing
      BY <1>13 DEF FinishDelete, Storing, InPhase
    <3> QED BY <3>1 DEF Writes, InPhase
  <2> QED BY <2>2, <2>3, <2>5, <2>7, <2>8, OthersStay DEF FilesInv
<1>14. CASE Crash
  <2>1. /\ active' = None /\ \A t \in Threads : call'[t] = Idle
        /\ UNCHANGED <<keyFile, meta, ciphertexts, retired, deleted>>
        /\ failures' # 0
    BY <1>14 DEF Crash, files, history, TypeOK
  <2>2. \A t \in Threads, k \in Keys : ~Holds(t, k)' /\ ~Fresh(t, k)' /\ ~Unlinks(t, k)'
    BY <2>1 DEF Holds, Fresh, Unlinks, InPhase
  <2> QED BY <2>1, <2>2 DEF KeyInv, FilesInv, Held, Sound, CanLoad
<1>15. CASE UNCHANGED vars
  BY <1>15 DEF vars, KeyInv, FilesInv, Writes, Held, Sound, CanLoad, Holds, Fresh, Unlinks, InPhase, Target
<1> QED
  BY <1>2, <1>3, <1>4, <1>5, <1>7, <1>8, <1>9, <1>10, <1>11, <1>12, <1>13, <1>14, <1>15,
     KeyStoreStep
  DEF Next, BeginEncrypt, BeginRotate

(* Failing writes and crashes lose no key with data but one that is being  *)
(* deleted or was stored again by a rotation, however many threads there   *)
(* are.                                                                    *)
THEOREM OnlyRotationsEndanger == Spec => []OnlyRotationEndangers
<1> DEFINE IInv == TypeOK /\ UsedInv /\ KeyInv /\ FilesInv
<1>1. Init => IInv
  BY EncryptionAssumption
  DEF Init, TypeOK, UsedInv, KeyInv, FilesInv, Held, Holds, Fresh, Unlinks, InPhase
<1>2. IInv /\ [Next]_vars => IInv'
  BY TypeStep, KeyStep
<1>3. IInv => OnlyRotationEndangers
  BY DEF OnlyRotationEndangers, TypeOK, KeyInv, Held, Sound
<1> HIDE DEF IInv
<1> QED BY <1>1, <1>2, <1>3, PTL DEF Spec

(* While nothing fails, what was encrypted stays readable until its key is *)
(* deleted, however many threads encrypt, rotate and delete.               *)
THEOREM CiphertextsAlwaysReadable == Spec => []CiphertextsStayReadable
<1> DEFINE IInv == TypeOK /\ UsedInv /\ KeyInv /\ FilesInv
<1>1. Init => IInv
  BY EncryptionAssumption
  DEF Init, TypeOK, UsedInv, KeyInv, FilesInv, Held, Holds, Fresh, Unlinks, InPhase
<1>2. IInv /\ [Next]_vars => IInv'
  BY TypeStep, KeyStep
<1>3. IInv => CiphertextsStayReadable
  <2> SUFFICES ASSUME IInv, failures = 0, NEW k \in Keys, k \in ciphertexts \ deleted
               PROVE  Readable(k)
    BY DEF CiphertextsStayReadable, TypeOK
  <2>1. keyFile[k] \in {"torn", "whole"} /\ meta[k] \in {"torn", "active", "inactive"}
    BY DEF FilesInv, Held, TypeOK
  <2>2. CASE keyFile[k] = "torn" \/ meta[k] = "torn"
    BY <2>2 DEF FilesInv, Writes, Readable, IsStoring
  <2>3. CASE keyFile[k] # "torn" /\ meta[k] # "torn"
    BY <2>1, <2>3 DEF Readable, CanLoad
  <2> QED BY <2>2, <2>3
<1> HIDE DEF IInv
<1> QED BY <1>1, <1>2, <1>3, PTL DEF Spec

-----------------------------------------------------------------------------
(* The active key.  A key becomes active once, by the thread that stored it *)
(* first; only then can a rotation find it and retire it.                  *)

MakesActive(t, k) ==
    \/ InPhase(t, {"generate"}) /\ call[t].key = k
    \/ InPhase(t, {"replace", "retire"}) /\ call[t].new = k

Replaces(t, k) == InPhase(t, {"load", "replace", "retire"}) /\ call[t].key = k

(* Thread t has stored the key that it will make active.                   *)
IsReady(t) == InPhase(t, {"retire"}) \/ call[t].at = 4

TurnInv ==
    \A t \in Threads, k \in Keys : MakesActive(t, k) =>
        /\ k # active
        /\ \A u \in Threads : ~Replaces(u, k) /\ (MakesActive(u, k) => u = t)
        /\ IsReady(t) => meta[k] = "active" \/ k \in deleted

LEMMA TurnsAreUsed ==
    ASSUME TypeOK, UsedInv, NEW t \in Threads, NEW k \in Keys,
           MakesActive(t, k) \/ Replaces(t, k)
    PROVE  k \in used
BY EncryptionAssumption DEF MakesActive, Replaces, InPhase, UsedInv

LEMMA OthersKeepTurn ==
    ASSUME NEW t \in Threads, \A u \in Threads \ {t} : call'[u] = call[u]
    PROVE  \A u \in Threads \ {t} :
              /\ IsReady(u)' <=> IsReady(u)
              /\ \A k \in Keys : /\ MakesActive(u, k)' <=> MakesActive(u, k)
                                 /\ Replaces(u, k)' <=> Replaces(u, k)
                                 /\ IsStoring(u, k)' <=> IsStoring(u, k)
BY DEF IsReady, MakesActive, Replaces, IsStoring, InPhase, Target

(* A step of thread t that writes no metadata. *)
LEMMA TurnQuietStep ==
    ASSUME TypeOK, UsedInv, TurnInv, ActiveKeyIsNotRetired, NEW t \in Threads,
           \A u \in Threads \ {t} : call'[u] = call[u],
           \A k \in Keys : meta'[k] = meta[k] \/ k \in deleted',
           deleted \subseteq deleted',
           \A k \in Keys : MakesActive(t, k)' =>
                  (k \notin used /\ ~IsReady(t)') \/ (MakesActive(t, k) /\ (IsReady(t)' => IsReady(t))),
           \A k \in Keys : Replaces(t, k)' => Replaces(t, k) \/ k = active,
           \/ active' \in {active, None}
           \/ /\ active' \in Keys /\ MakesActive(t, active') /\ IsReady(t)
              /\ \A k \in Keys : ~MakesActive(t, k)',
           failures' = 0 => failures = 0 /\ (InPhase(t, {"retire"}) => active' # active)
    PROVE  TurnInv' /\ ActiveKeyIsNotRetired'
<1>1. active # None => active \in used /\ active \in Keys
  BY DEF UsedInv, TypeOK
<1>2. ASSUME NEW u \in Threads, NEW k \in Keys, MakesActive(u, k)' PROVE k # active'
  <2>1. CASE active' \in {active, None}
    BY <1>1, <1>2, <2>1, OthersKeepTurn, EncryptionAssumption DEF TurnInv
  <2>2. CASE active' \in Keys /\ MakesActive(t, active') /\ \A m \in Keys : ~MakesActive(t, m)'
    <3>1. u # t /\ MakesActive(u, k)
      BY <1>2, <2>2, OthersKeepTurn
    <3> QED BY <2>2, <3>1 DEF TurnInv
  <2> QED BY <2>1, <2>2
<1>3. ASSUME NEW u \in Threads, NEW k \in Keys, MakesActive(u, k)',
             NEW v \in Threads, Replaces(v, k)'
      PROVE  FALSE
  <2>1. Replaces(v, k) \/ k = active
    BY <1>3, OthersKeepTurn
  <2>2. k \in used
    BY <1>1, <2>1, TurnsAreUsed, EncryptionAssumption
  <2>3. MakesActive(u, k)
    BY <1>3, <2>2, OthersKeepTurn
  <2> QED BY <2>1, <2>3 DEF TurnInv
<1>4. ASSUME NEW u \in Threads, NEW k \in Keys, MakesActive(u, k)',
             NEW v \in Threads, MakesActive(v, k)', u # v
      PROVE  FALSE
  <2>1. MakesActive(u, k) \/ MakesActive(v, k)
    BY <1>4, OthersKeepTurn
  <2>2. k \in used
    BY <2>1, TurnsAreUsed
  <2>3. MakesActive(u, k) /\ MakesActive(v, k)
    BY <1>4, <2>2, OthersKeepTurn
  <2> QED BY <1>4, <2>3 DEF TurnInv
<1>5. ASSUME NEW u \in Threads, NEW k \in Keys, MakesActive(u, k)', IsReady(u)'
      PROVE  meta'[k] = "active" \/ k \in deleted'
  <2>1. MakesActive(u, k) /\ IsReady(u)
    BY <1>5, OthersKeepTurn
  <2> QED BY <2>1 DEF TurnInv
<1>6. TurnInv'
  BY <1>2, <1>3, <1>4, <1>5 DEF TurnInv
<1>7. ASSUME failures' = 0, active' # None, active' \notin deleted'
      PROVE  meta'[active'] = "active" \/ (\E u \in Threads : IsStoring(u, active))'
  <2>1. CASE active' = active
    <3>1. active \in Keys /\ meta'[active] = meta[active] /\ active \notin deleted
      BY <1>1, <1>7, <2>1
    <3>2. meta[active] = "active" \/ \E u \in Threads : IsStoring(u, active)
      BY <1>7, <2>1, <3>1 DEF ActiveKeyIsNotRetired
    <3>3. ~IsStoring(t, active)
      <4>1. ~MakesActive(t, active) /\ ~InPhase(t, {"retire"})
        BY <1>7, <2>1, <3>1 DEF TurnInv
      <4> QED BY <4>1 DEF MakesActive, IsStoring, InPhase, Storing, Target
    <3>4. \A u \in Threads \ {t} : IsStoring(u, active) <=> IsStoring(u, active)'
      BY <2>1 DEF IsStoring, InPhase, Target
    <3> QED BY <2>1, <3>1, <3>2, <3>3, <3>4
  <2>2. CASE active' # active
    <3>1. active' \in Keys /\ MakesActive(t, active') /\ IsReady(t)
      BY <1>7, <2>2
    <3> QED BY <1>7, <3>1 DEF TurnInv
  <2> QED BY <2>1, <2>2
<1> QED BY <1>6, <1>7 DEF ActiveKeyIsNotRetired

(* A step of thread t that stores a part of a file. *)
LEMMA TurnStoreStep ==
    ASSUME TypeOK, UsedInv, TurnInv, ActiveKeyIsNotRetired, NEW t \in Threads, StoreStep(t)
    PROVE  TurnInv' /\ ActiveKeyIsNotRetired'
<1>1. call[t] \in Call /\ InPhase(t, Storing) /\ call[t].at \in 0 .. 3
  BY DEF StoreStep, InPhase, TypeOK
<1>2. Target(t) \in Keys
  BY <1>1, TargetIsUsed
<1>3. /\ call' = [call EXCEPT ![t] = [call[t] EXCEPT !.at = call[t].at + 1]]
      /\ UNCHANGED <<active, deleted, failures>>
      /\ \A m \in Keys \ {Target(t)} : meta'[m] = meta[m]
  BY <1>2 DEF StoreStep, TypeOK
<1>4. /\ call'[t].phase = call[t].phase /\ call'[t].key = call[t].key
      /\ call'[t].new = call[t].new /\ call'[t].at = call[t].at + 1
      /\ call'[t] # Idle
      /\ \A u \in Threads \ {t} : call'[u] = call[u]
  BY <1>1, <1>3, IdleIsNoCall DEF TypeOK, Call, Idle
<1>5. /\ \A k \in Keys : /\ MakesActive(t, k)' <=> MakesActive(t, k)
                         /\ Replaces(t, k)' <=> Replaces(t, k)
      /\ Target(t)' = Target(t) /\ InPhase(t, Storing)'
  BY <1>1, <1>4 DEF MakesActive, Replaces, Target, InPhase
<1>6. \A u \in Threads, k \in Keys : /\ MakesActive(u, k)' <=> MakesActive(u, k)
                                     /\ Replaces(u, k)' <=> Replaces(u, k)
  BY <1>4, <1>5, OthersKeepTurn
<1>7. MakesActive(t, Target(t)) \/ (InPhase(t, {"retire"}) /\ Replaces(t, Target(t)))
  BY <1>1 DEF MakesActive, Replaces, Target, InPhase, Storing
<1>8. ASSUME NEW u \in Threads, NEW k \in Keys, MakesActive(u, k), IsReady(u)'
      PROVE  meta'[k] = "active" \/ k \in deleted
  <2>1. CASE k # Target(t)
    <3>1. u # t => IsReady(u)
      BY <1>4, <1>8, OthersKeepTurn
    <3>2. u = t => InPhase(t, {"retire"})
      BY <1>1, <1>8, <2>1 DEF MakesActive, InPhase, Target
    <3>3. meta[k] = "active" \/ k \in deleted
      BY <1>8, <3>1, <3>2 DEF TurnInv, IsReady
    <3> QED BY <1>3, <2>1, <3>3
  <2>2. CASE k = Target(t)
    <3>1. ~Replaces(t, k) /\ MakesActive(t, k) /\ u = t
      BY <1>2, <1>7, <1>8, <2>2 DEF TurnInv
    <3>2. call[t].phase # "retire"
      BY <1>1, <2>2, <3>1 DEF Replaces, InPhase, Target
    <3>3. call[t].at = 3
      BY <1>1, <1>4, <1>8, <3>1, <3>2 DEF IsReady, InPhase
    <3>4. meta' = [meta EXCEPT ![Target(t)] = "active"]
      BY <3>2, <3>3 DEF StoreStep
    <3> QED BY <1>2, <2>2, <3>4 DEF TypeOK
  <2> QED BY <2>1, <2>2
<1>9. TurnInv'
  BY <1>3, <1>6, <1>8 DEF TurnInv
<1>10. ASSUME failures' = 0, active' # None, active' \notin deleted'
       PROVE  meta'[active'] = "active" \/ (\E u \in Threads : IsStoring(u, active))'
  <2>1. CASE active = Target(t)
    <3>1. IsStoring(t, active)'
      BY <1>3, <1>5, <2>1 DEF IsStoring
    <3> QED BY <3>1
  <2>2. CASE active # Target(t)
    <3>1. active \in Keys /\ meta'[active] = meta[active]
      BY <1>3, <1>10, <2>2 DEF TypeOK
    <3>2. meta[active] = "active" \/ \E u \in Threads : IsStoring(u, active)
      BY <1>3, <1>10 DEF ActiveKeyIsNotRetired
    <3>3. ~IsStoring(t, active)
      BY <2>2 DEF IsStoring
    <3>4. \A u \in Threads \ {t} : IsStoring(u, active) <=> IsStoring(u, active)'
      BY <1>3, <1>4 DEF IsStoring, InPhase, Target
    <3> QED BY <1>3, <3>1, <3>2, <3>3, <3>4
  <2> QED BY <2>1, <2>2
<1> QED BY <1>9, <1>10 DEF ActiveKeyIsNotRetired

LEMMA TurnStep ==
    TypeOK /\ UsedInv /\ KeyInv /\ TurnInv /\ ActiveKeyIsNotRetired /\ [Next]_vars
        => TurnInv' /\ ActiveKeyIsNotRetired'
<1> SUFFICES ASSUME TypeOK, UsedInv, KeyInv, TurnInv, ActiveKeyIsNotRetired, [Next]_vars
             PROVE  TurnInv' /\ ActiveKeyIsNotRetired'
  OBVIOUS
<1> USE EncryptionAssumption, IdleIsNoCall
<1>1. \A t \in Threads : call[t] # Idle => call[t] \in Call
  BY DEF TypeOK
<1>2. ASSUME NEW t \in Threads, NEW op \in {"encrypt", "rotate"}, NEW phase \in {"use", "load"},
             Begin(t, op, phase)
      PROVE  TurnInv' /\ ActiveKeyIsNotRetired'
  <2>1. UNCHANGED <<files, active, history, failures>> /\ ~InPhase(t, {"retire"})
    BY <1>2 DEF Begin, InPhase
  <2>2. CASE active # None
    <3> DEFINE c == [op |-> op, phase |-> phase, key |-> active, new |-> None, at |-> 0]
    <3>1. c.phase = phase /\ c.key = active
      OBVIOUS
    <3>2. call'[t] = c /\ \A u \in Threads \ {t} : call'[u] = call[u]
      BY <1>2, <2>2 DEF Begin, TypeOK
    <3> HIDE DEF c
    <3>3. \A k \in Keys : ~MakesActive(t, k)' /\ (Replaces(t, k)' => k = active)
      BY <3>1, <3>2 DEF MakesActive, Replaces, InPhase
    <3> QED BY <2>1, <3>2, <3>3, TurnQuietStep DEF files, history
  <2>3. CASE active = None
    <3>1. PICK n \in Keys \ used :
             call' = [call EXCEPT ![t] =
                  [op |-> op, phase |-> "generate", key |-> n, new |-> None, at |-> 0]]
      BY <1>2, <2>3 DEF Begin
    <3> DEFINE c == [op |-> op, phase |-> "generate", key |-> n, new |-> None, at |-> 0]
    <3>2. c.phase = "generate" /\ c.key = n /\ c.at = 0
      OBVIOUS
    <3>3. call'[t] = c /\ \A u \in Threads \ {t} : call'[u] = call[u]
      BY <3>1 DEF TypeOK
    <3> HIDE DEF c
    <3>4. /\ ~IsReady(t)'
          /\ \A k \in Keys : (MakesActive(t, k)' => k = n) /\ ~Replaces(t, k)'
      BY <3>2, <3>3 DEF IsReady, MakesActive, Replaces, InPhase
    <3> QED BY <2>1, <3>3, <3>4, TurnQuietStep DEF files, history
  <2> QED BY <2>2, <2>3
(* Steps to another phase. *)
<1>3. ASSUME NEW t \in Threads, NEW phase \in {"take", "retire"}, Goto(t, phase), call[t] \in Call
      PROVE  /\ call'[t].phase = phase /\ call'[t].key = call[t].key /\ call'[t].new = call[t].new
             /\ call'[t] # Idle
             /\ \A u \in Threads \ {t} : call'[u] = call[u]
  <2>1. call' = [call EXCEPT ![t] = [call[t] EXCEPT !.phase = phase, !.at = 0]]
    BY <1>3 DEF Goto
  <2>2. [call[t] EXCEPT !.phase = phase, !.at = 0] \in Call
    <3>1. phase \in {"take", "use", "load", "unlink"} \cup Storing /\ 0 \in 0 .. 4
      BY DEF Storing
    <3> QED BY <1>3, <3>1, MovedCall
  <2>3. call'[t] = [call[t] EXCEPT !.phase = phase, !.at = 0] /\ \A u \in Threads \ {t} : call'[u] = call[u]
    BY <2>1 DEF TypeOK
  <2>4. /\ [call[t] EXCEPT !.phase = phase, !.at = 0].phase = phase
        /\ [call[t] EXCEPT !.phase = phase, !.at = 0].key = call[t].key
        /\ [call[t] EXCEPT !.phase = phase, !.at = 0].new = call[t].new
    BY <1>3 DEF Call
  <2> QED BY <2>2, <2>3, <2>4
<1>4. ASSUME NEW t \in Threads, Activate(t) PROVE TurnInv' /\ ActiveKeyIsNotRetired'
  <2>1. /\ call[t] \in Call /\ InPhase(t, {"generate"}) /\ IsReady(t)
        /\ active' = call[t].key /\ active' \in Keys /\ ~InPhase(t, {"retire"})
        /\ UNCHANGED <<files, history, failures>>
    BY <1>1, <1>4 DEF Activate, Stored, InPhase, IsReady, Call
  <2>2. call'[t].phase = "take" /\ \A u \in Threads \ {t} : call'[u] = call[u]
    BY <1>3, <1>4, <2>1 DEF Activate
  <2>3. \A k \in Keys : ~MakesActive(t, k)' /\ ~Replaces(t, k)'
    BY <2>2 DEF MakesActive, Replaces, InPhase
  <2>4. MakesActive(t, active')
    BY <2>1 DEF MakesActive
  <2> QED BY <2>1, <2>2, <2>3, <2>4, TurnQuietStep DEF files, history
<1>5. ASSUME NEW t \in Threads, TakeActive(t) PROVE TurnInv' /\ ActiveKeyIsNotRetired'
  <2> DEFINE next == IF call[t].op = "encrypt" THEN "use" ELSE "load"
             c == [call[t] EXCEPT !.key = active, !.phase = next]
  <2>1. call[t] \in Call /\ ~InPhase(t, {"retire"})
    BY <1>1, <1>5 DEF TakeActive, InPhase
  <2>2. c.key = active /\ c.phase \in {"use", "load"}
    BY <2>1 DEF Call
  <2>3. call' = [call EXCEPT ![t] = c] /\ UNCHANGED <<files, active, used, history, failures>>
    BY <1>5 DEF TakeActive
  <2>4. call'[t] = c /\ \A u \in Threads \ {t} : call'[u] = call[u]
    BY <2>3 DEF TypeOK
  <2> HIDE DEF c
  <2>5. \A k \in Keys : ~MakesActive(t, k)' /\ (Replaces(t, k)' => k = active)
    BY <2>2, <2>4 DEF MakesActive, Replaces, InPhase
  <2> QED BY <2>1, <2>3, <2>4, <2>5, TurnQuietStep DEF files, history
(* Steps after which t has no key to make active or to replace. *)
<1>6. ASSUME NEW t \in Threads, NEW c \in Call \cup {Idle}, call' = [call EXCEPT ![t] = c],
             c = Idle \/ c.phase \in {"use", "unlink"},
             \A k \in Keys : meta'[k] = meta[k] \/ k \in deleted',
             deleted \subseteq deleted', active' = active,
             failures' = 0 => failures = 0 /\ ~InPhase(t, {"retire"})
      PROVE  TurnInv' /\ ActiveKeyIsNotRetired'
  <2>1. call'[t] = c /\ \A u \in Threads \ {t} : call'[u] = call[u]
    BY <1>6 DEF TypeOK
  <2>2. \A k \in Keys : ~MakesActive(t, k)' /\ ~Replaces(t, k)'
    BY <1>6, <2>1 DEF MakesActive, Replaces, InPhase
  <2> QED BY <1>6, <2>1, <2>2, TurnQuietStep
<1>7. ASSUME NEW t \in Threads, NEW k \in Keys, BeginEncryptWith(t, k)
      PROVE  TurnInv' /\ ActiveKeyIsNotRetired'
  <2> DEFINE c == [op |-> "encrypt", phase |-> "use", key |-> k, new |-> None, at |-> 0]
  <2>1. c \in Call /\ c.phase = "use" /\ ~InPhase(t, {"retire"})
    BY <1>7 DEF Call, BeginEncryptWith, InPhase
  <2>2. call' = [call EXCEPT ![t] = c] /\ UNCHANGED <<files, active, history, failures>>
    BY <1>7 DEF BeginEncryptWith
  <2> HIDE DEF c
  <2> QED BY <1>6, <2>1, <2>2 DEF files, history
<1>8. ASSUME NEW t \in Threads, FinishEncrypt(t) PROVE TurnInv' /\ ActiveKeyIsNotRetired'
  <2>1. /\ call' = [call EXCEPT ![t] = Idle] /\ ~InPhase(t, {"retire"})
        /\ UNCHANGED <<meta, active, deleted, failures>>
    BY <1>8 DEF FinishEncrypt, Return, InPhase, files
  <2> QED BY <1>6, <2>1
<1>9. ASSUME NEW t \in Threads, LoadOldKey(t) PROVE TurnInv' /\ ActiveKeyIsNotRetired'
  <2>1. /\ call[t] \in Call /\ InPhase(t, {"load"}) /\ ~InPhase(t, {"retire"})
        /\ UNCHANGED <<files, active, history, failures>>
    BY <1>1, <1>9 DEF LoadOldKey, InPhase
  <2>2. CASE ~CanLoad(call[t].key)
    <3>1. call' = [call EXCEPT ![t] = Idle]
      BY <1>9, <2>2 DEF LoadOldKey, Return
    <3> QED BY <1>6, <2>1, <3>1 DEF files, history
  <2>3. CASE CanLoad(call[t].key)
    <3>1. PICK n \in Keys \ used :
             call' = [call EXCEPT ![t] = [call[t] EXCEPT !.phase = "replace", !.new = n, !.at = 0]]
      BY <1>9, <2>3 DEF LoadOldKey
    <3>2. /\ call'[t].phase = "replace" /\ call'[t].new = n /\ call'[t].at = 0
          /\ call'[t].key = call[t].key
          /\ \A u \in Threads \ {t} : call'[u] = call[u]
      BY <2>1, <3>1 DEF TypeOK, Call
    <3>3. /\ ~IsReady(t)'
          /\ \A k \in Keys : (MakesActive(t, k)' => k = n) /\ (Replaces(t, k)' => Replaces(t, k))
      BY <2>1, <3>2 DEF IsReady, MakesActive, Replaces, InPhase
    <3> QED BY <2>1, <3>2, <3>3, TurnQuietStep DEF files, history
  <2> QED BY <2>2, <2>3
<1>10. ASSUME NEW t \in Threads, RetireOldKey(t) PROVE TurnInv' /\ ActiveKeyIsNotRetired'
  <2>1. /\ call[t] \in Call /\ InPhase(t, {"replace"}) /\ IsReady(t) /\ ~InPhase(t, {"retire"})
        /\ UNCHANGED <<files, active, history, failures>>
    BY <1>1, <1>10 DEF RetireOldKey, Stored, InPhase, IsReady
  <2>2. /\ call'[t].phase = "retire" /\ call'[t].key = call[t].key /\ call'[t].new = call[t].new
        /\ \A u \in Threads \ {t} : call'[u] = call[u]
    BY <1>3, <1>10, <2>1 DEF RetireOldKey
  <2>3. \A k \in Keys : (MakesActive(t, k)' => MakesActive(t, k)) /\ (Replaces(t, k)' => Replaces(t, k))
    BY <2>1, <2>2 DEF MakesActive, Replaces, InPhase
  <2> QED BY <2>1, <2>2, <2>3, TurnQuietStep DEF files, history
<1>11. ASSUME NEW t \in Threads, FinishRotate(t) PROVE TurnInv' /\ ActiveKeyIsNotRetired'
  <2>1. /\ call[t] \in Call /\ InPhase(t, {"retire"}) /\ IsReady(t)
        /\ active' = call[t].new
        /\ UNCHANGED <<files, history, failures>>
    BY <1>1, <1>11 DEF FinishRotate, Stored, InPhase, IsReady
  <2>2. active' \in Keys /\ MakesActive(t, active')
    BY <2>1 DEF UsedInv, MakesActive, InPhase, Call
  <2>3. active' # active
    BY <2>2 DEF TurnInv
  <2>4. call'[t] = Idle /\ \A u \in Threads \ {t} : call'[u] = call[u]
    BY <1>11 DEF FinishRotate, Return, TypeOK
  <2>5. \A k \in Keys : ~MakesActive(t, k)' /\ ~Replaces(t, k)'
    BY <2>4 DEF MakesActive, Replaces, InPhase
  <2> QED BY <2>1, <2>2, <2>3, <2>4, <2>5, TurnQuietStep DEF files, history
<1>12. ASSUME NEW t \in Threads, NEW d \in Keys, BeginDelete(t, d)
       PROVE  TurnInv' /\ ActiveKeyIsNotRetired'
  <2> DEFINE c == [op |-> "delete", phase |-> "unlink", key |-> d, new |-> None, at |-> 0]
  <2>1. c \in Call /\ c.phase = "unlink" /\ ~InPhase(t, {"retire"})
    BY <1>12 DEF Call, BeginDelete, InPhase
  <2>2. /\ call' = [call EXCEPT ![t] = c] /\ deleted' = deleted \cup {d}
        /\ UNCHANGED <<meta, active, failures>>
    BY <1>12 DEF BeginDelete
  <2> HIDE DEF c
  <2> QED BY <1>6, <2>1, <2>2
<1>13. ASSUME NEW t \in Threads, FinishDelete(t) PROVE TurnInv' /\ ActiveKeyIsNotRetired'
  <2>1. /\ call[t] \in Call /\ ~InPhase(t, {"retire"}) /\ call' = [call EXCEPT ![t] = Idle]
        /\ Unlinks(t, call[t].key) /\ call[t].key \in Keys
        /\ UNCHANGED <<active, deleted, failures>>
    BY <1>1, <1>13 DEF FinishDelete, InPhase, Unlinks, Call, Return, history
  <2>2. \A k \in Keys : meta'[k] = meta[k] \/ k \in deleted'
    BY <1>13, <2>1 DEF FinishDelete, KeyInv, TypeOK
  <2> QED BY <1>6, <2>1, <2>2
<1>14. ASSUME NEW t \in Threads, StoreFails(t) PROVE TurnInv' /\ ActiveKeyIsNotRetired'
  <2>1. failures' # 0
    BY <1>14 DEF StoreFails, TypeOK
  <2> QED BY <1>6, <1>14, <2>1 DEF StoreFails, Return, files, history
<1>15. CASE Crash
  <2>1. active' = None /\ \A t \in Threads : call'[t] = Idle
    BY <1>15 DEF Crash
  <2>2. \A t \in Threads, k \in Keys : ~MakesActive(t, k)'
    BY <2>1 DEF MakesActive, InPhase
  <2> QED BY <2>1, <2>2 DEF TurnInv, ActiveKeyIsNotRetired
<1>16. CASE UNCHANGED vars
  BY <1>16 DEF vars, TurnInv, ActiveKeyIsNotRetired, MakesActive, Replaces, IsReady, IsStoring,
     InPhase, Target
<1> QED
  BY <1>2, <1>4, <1>5, <1>7, <1>8, <1>9, <1>10, <1>11, <1>12, <1>13, <1>14, <1>15, <1>16,
     TurnStoreStep
  DEF Next, BeginEncrypt, BeginRotate

(* While nothing fails, the key that encrypt uses is not one that a        *)
(* rotation has retired on disk, however many threads rotate and delete,   *)
(* unless it was deleted or is being stored again.                         *)
THEOREM ActiveKeyStaysCurrent == Spec => []ActiveKeyIsNotRetired
<1> DEFINE IInv == TypeOK /\ UsedInv /\ KeyInv /\ FilesInv /\ TurnInv /\ ActiveKeyIsNotRetired
<1>1. Init => IInv
  BY EncryptionAssumption
  DEF Init, TypeOK, UsedInv, KeyInv, FilesInv, Held, Holds, Fresh, Unlinks, InPhase,
      TurnInv, MakesActive, ActiveKeyIsNotRetired
<1>2. IInv /\ [Next]_vars => IInv'
  BY TypeStep, KeyStep, TurnStep
<1>3. IInv => ActiveKeyIsNotRetired
  OBVIOUS
<1> HIDE DEF IInv
<1> QED BY <1>1, <1>2, <1>3, PTL DEF Spec
=============================================================================
