-------------------------- MODULE EncryptionManager --------------------------
(***************************************************************************)
(* core/encryption_manager.py: one EncryptionManager over a                *)
(* LocalKeyManager, used by several threads (the module's accessors are    *)
(* documented as thread-safe), with the two files of each key.             *)
(*                                                                         *)
(* Opening a file for writing truncates it and the write follows, so       *)
(* storing a key takes four steps, and a thread, an I/O error or a crash   *)
(* can come between any two.  get_key reads its two files in one step: it  *)
(* only tells complete files from others, and each file is read once.      *)
(* A ciphertext is the name of the key it was made with.                   *)
(***************************************************************************)
EXTENDS Integers, FiniteSets

CONSTANTS
    Threads,
    Keys,           \* key identifiers; generate_key never repeats one
    MaxFailures,    \* bound on the writes that raise and the crashes
    None

VARIABLES
    keyFile,        \* of each key: the state of its .key file
    meta,           \* of each key: the state of its .meta file
    active,         \* self._active_key, whose is_active is never cleared
    call,           \* what each thread is doing
    used,           \* history: keys that were generated
    ciphertexts,    \* history: keys of the ciphertexts that encrypt returned
    retired,        \* history: keys that rotate_key began to store again
    deleted,        \* history: keys that delete_key was called for
    failures        \* history: number of writes that raised and of crashes

vars == <<keyFile, meta, active, call, used, ciphertexts, retired, deleted, failures>>

Idle == [op |-> "idle"]
Storing == {"generate", "replace", "retire"}
Call == [op : {"encrypt", "rotate", "delete"},
         phase : {"take", "use", "load", "unlink"} \cup Storing,
         key : Keys, new : Keys \cup {None}, at : 0 .. 4]

ASSUME EncryptionAssumption ==
    MaxFailures \in Nat /\ None \notin Keys

TypeOK ==
    /\ keyFile \in [Keys -> {"absent", "torn", "whole"}]
    /\ meta \in [Keys -> {"absent", "torn", "active", "inactive"}]
    /\ active \in Keys \cup {None}
    /\ call \in [Threads -> Call \cup {Idle}]
    /\ used \subseteq Keys
    /\ ciphertexts \subseteq used
    /\ retired \subseteq used
    /\ deleted \subseteq used
    /\ failures \in 0 .. MaxFailures

Init ==
    /\ keyFile = [k \in Keys |-> "absent"]
    /\ meta = [k \in Keys |-> "absent"]
    /\ active = None
    /\ call = [t \in Threads |-> Idle]
    /\ used = {}
    /\ ciphertexts = {}
    /\ retired = {}
    /\ deleted = {}
    /\ failures = 0

files == <<keyFile, meta>>
history == <<ciphertexts, retired, deleted>>

-----------------------------------------------------------------------------
(* get_key returns the key; otherwise it returns None or raises. *)
(* BUG for the checks: get_key refuses a key that is not active. *)
CanLoadActive(k) == keyFile[k] = "whole" /\ meta[k] = "active"

CanLoad(k) == keyFile[k] = "whole" /\ meta[k] \in {"active", "inactive"}

InPhase(t, phases) == call[t] # Idle /\ call[t].phase \in phases

(* The key whose files thread t is writing. *)
Target(t) == IF call[t].phase = "replace" THEN call[t].new ELSE call[t].key

IsStoring(t, k) == InPhase(t, Storing) /\ Target(t) = k

Goto(t, phase) == call' = [call EXCEPT ![t].phase = phase, ![t].at = 0]

(* BUG for the checks: the finished call is not forgotten. *)
ReturnWithoutReset(t) == call' = [call EXCEPT ![t].op = "idle"]

Return(t) == call' = [call EXCEPT ![t] = Idle]

-----------------------------------------------------------------------------
(* _store_key: truncate and write the .key file, then the .meta file. *)

StoreStep(t) ==
    LET k == Target(t)
        flag == IF call[t].phase = "retire" THEN "inactive" ELSE "active"
    IN  /\ InPhase(t, Storing)
        /\ \/ /\ call[t].at = 0
              /\ keyFile' = [keyFile EXCEPT ![k] = "torn"]
              /\ UNCHANGED meta
           \/ /\ call[t].at = 1
              /\ keyFile' = [keyFile EXCEPT ![k] = "whole"]
              /\ UNCHANGED meta
           \/ /\ call[t].at = 2
              /\ meta' = [meta EXCEPT ![k] = "torn"]
              /\ UNCHANGED keyFile
           \/ /\ call[t].at = 3
              /\ meta' = [meta EXCEPT ![k] = flag]
              /\ UNCHANGED keyFile
        /\ call' = [call EXCEPT ![t].at = @ + 1]
        /\ retired' = IF call[t].phase = "retire" THEN retired \cup {k} ELSE retired
        /\ UNCHANGED <<active, used, ciphertexts, deleted, failures>>

(* BUG for the checks: the key is used before its metadata is written. *)
StoredKeyFile(t, phase) == InPhase(t, {phase}) /\ call[t].at >= 2

Stored(t, phase) == InPhase(t, {phase}) /\ call[t].at = 4

-----------------------------------------------------------------------------
(* _get_active_key, for encrypt and rotate_keys: the key in memory, or one *)
(* that is generated and stored first.                                     *)

Begin(t, op, nextPhase) ==
    /\ call[t] = Idle
    /\ \/ /\ active # None
          /\ call' = [call EXCEPT ![t] =
                [op |-> op, phase |-> nextPhase, key |-> active, new |-> None, at |-> 0]]
          /\ UNCHANGED used
       \/ /\ active = None
          /\ \E k \in Keys \ used :
                /\ call' = [call EXCEPT ![t] =
                      [op |-> op, phase |-> "generate", key |-> k, new |-> None, at |-> 0]]
                /\ used' = used \cup {k}
    /\ UNCHANGED <<files, active, history, failures>>

BeginEncrypt(t) == Begin(t, "encrypt", "use")

BeginRotate(t) == Begin(t, "rotate", "load")

Activate(t) ==
    /\ Stored(t, "generate")
    /\ active' = call[t].key
    /\ Goto(t, "take")
    /\ UNCHANGED <<files, used, history, failures>>

(* It returns self._active_key, which another thread may have set since.   *)
TakeActive(t) ==
    /\ InPhase(t, {"take"})
    /\ call' = [call EXCEPT ![t].key = active,
                           ![t].phase = IF call[t].op = "encrypt" THEN "use" ELSE "load"]
    /\ UNCHANGED <<files, active, used, history, failures>>

(* encrypt with an explicit key_id; is_active is not looked at. *)
BeginEncryptWith(t, k) ==
    /\ call[t] = Idle
    /\ CanLoad(k)
    /\ call' = [call EXCEPT ![t] =
          [op |-> "encrypt", phase |-> "use", key |-> k, new |-> None, at |-> 0]]
    /\ UNCHANGED <<files, active, used, history, failures>>

FinishEncrypt(t) ==
    /\ InPhase(t, {"use"})
    /\ ciphertexts' = ciphertexts \cup {call[t].key}
    /\ Return(t)
    /\ UNCHANGED <<files, active, used, retired, deleted, failures>>

-----------------------------------------------------------------------------
(* rotate_key: load the old key, store a new one, store the old one again  *)
(* as inactive; rotate_keys then makes the new one active.                 *)

LoadOldKey(t) ==
    /\ InPhase(t, {"load"})
    /\ \/ /\ CanLoad(call[t].key)
          /\ \E n \in Keys \ used :
                /\ call' = [call EXCEPT ![t].phase = "replace", ![t].new = n, ![t].at = 0]
                /\ used' = used \cup {n}
       \/ /\ ~CanLoad(call[t].key)
          /\ Return(t)
          /\ UNCHANGED used
    /\ UNCHANGED <<files, active, history, failures>>

RetireOldKey(t) ==
    /\ Stored(t, "replace")
    /\ Goto(t, "retire")
    /\ UNCHANGED <<files, active, used, history, failures>>

(* BUG for the checks: the new key is not made the active one. *)
FinishRotateOnly(t) ==
    /\ Stored(t, "retire")
    /\ Return(t)
    /\ UNCHANGED <<files, active, used, history, failures>>

FinishRotate(t) ==
    /\ Stored(t, "retire")
    /\ active' = call[t].new
    /\ Return(t)
    /\ UNCHANGED <<files, used, history, failures>>

-----------------------------------------------------------------------------
(* delete_key unlinks the .key file, then the .meta file. *)

BeginDelete(t, k) ==
    /\ call[t] = Idle
    /\ keyFile[k] # "absent" \/ meta[k] # "absent"
    /\ keyFile' = [keyFile EXCEPT ![k] = "absent"]
    /\ call' = [call EXCEPT ![t] =
          [op |-> "delete", phase |-> "unlink", key |-> k, new |-> None, at |-> 0]]
    /\ deleted' = deleted \cup {k}
    /\ UNCHANGED <<meta, active, used, ciphertexts, retired, failures>>

FinishDelete(t) ==
    /\ InPhase(t, {"unlink"})
    /\ meta' = [meta EXCEPT ![call[t].key] = "absent"]
    /\ Return(t)
    /\ UNCHANGED <<keyFile, active, used, history, failures>>

-----------------------------------------------------------------------------
(* A write raises: the files stay as they are and the call ends. *)
StoreFails(t) ==
    /\ failures < MaxFailures
    /\ failures' = failures + 1
    /\ InPhase(t, Storing)
    /\ call[t].at < 4
    /\ Return(t)
    /\ UNCHANGED <<files, active, used, history>>

(* The process stops.  A new one knows no active key. *)
Crash ==
    /\ failures < MaxFailures
    /\ failures' = failures + 1
    /\ active' = None
    /\ call' = [t \in Threads |-> Idle]
    /\ UNCHANGED <<files, used, history>>

Next ==
    \/ Crash
    \/ \E t \in Threads :
          \/ BeginEncrypt(t) \/ BeginRotate(t) \/ Activate(t) \/ TakeActive(t) \/ FinishEncrypt(t)
          \/ LoadOldKey(t) \/ RetireOldKey(t) \/ FinishRotate(t)
          \/ StoreStep(t) \/ StoreFails(t) \/ FinishDelete(t)
          \/ \E k \in Keys : BeginEncryptWith(t, k) \/ BeginDelete(t, k)

Spec == Init /\ [][Next]_vars

-----------------------------------------------------------------------------
(* PROPERTIES *)

Readable(k) == CanLoad(k) \/ \E t \in Threads : IsStoring(t, k)

(* As long as no write fails and the process runs, whatever was encrypted  *)
(* can be decrypted until its key is deleted: the key can be loaded,       *)
(* except while some thread is storing it again.  (encrypt, decrypt,       *)
(* rotate_keys and delete_key called by several threads.)                  *)
CiphertextsStayReadable ==
    failures = 0 => \A k \in ciphertexts \ deleted : Readable(k)

(* The key new data is encrypted with is not one that a rotation has       *)
(* retired on disk, unless that rotation is still under way.               *)
ActiveKeyIsNotRetired ==
    failures = 0 /\ active # None /\ active \notin deleted =>
        \/ meta[active] = "active"
        \/ \E t \in Threads : IsStoring(t, active)

(* Even with failing writes and crashes, generating and deleting keys and  *)
(* everything else but the rotation of a key itself leaves that key and    *)
(* what was encrypted with it readable.  (The rotation of a key truncates  *)
(* its two files before it writes them again: a crash there loses it.)     *)
OnlyRotationEndangers ==
    \A k \in ciphertexts \ (deleted \cup retired) : CanLoad(k)
=============================================================================
