--------------------------- MODULE MCAuditLogger ---------------------------
(* Small instances of AuditLogger for TLC. *)
EXTENDS AuditLogger

CONSTANTS l1, l2, t1, t2

Identifiers == Permutations(Loggers) \cup Permutations(Callers)

(* Slices of one state space: loggers and calls one at a time, overlapping *)
(* ones that log in the order of the timestamps, and few events when a     *)
(* cleanup overlaps with another one or with overlapping appends, an event *)
(* has lost its hash or a call raised that had logged its event.           *)
Unstable == {e \in Range(log) \cup acked : ~e.stable}
WithinSlices ==
    /\ overlap = {} \/ ~late
    /\ {"append", "cleanup"} \subseteq overlap => submitted <= 2 /\ torn = 0
    /\ "cleanups" \in overlap =>
          /\ submitted <= 2 /\ Len(log) <= 2 /\ torn = 0 /\ stray = {} /\ Unstable = {}
          /\ "append" \notin overlap
    /\ Unstable # {} => torn = 0 /\ stray = {} /\ ~late /\ overlap = {}
    /\ stray # {} => torn = 0 /\ ~late /\ (overlap = {} \/ submitted <= 2)
=============================================================================
