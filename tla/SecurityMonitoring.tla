------------------------- MODULE SecurityMonitoring -------------------------
(***************************************************************************)
(* monitoring/security_monitoring.py: the list of alerts and the handlers  *)
(* that are told of each new one.                                          *)
(*                                                                         *)
(* create_alert takes several steps: other threads, and the handlers       *)
(* themselves, may call the other methods in between.  An alert is named   *)
(* by <<second, length of the list>>, as in the code.  Severities and      *)
(* texts are left out: create_alert and the handlers do not look at them.  *)
(***************************************************************************)
EXTENDS Integers, Sequences, SequencesExt

CONSTANTS
    Handlers,       \* callables
    Callers,        \* threads
    MaxAlerts,      \* bound on the alerts created
    MaxTime         \* bound of the clock

VARIABLES
    now,            \* int(time.time())
    audited,        \* self.audit_logger is set
    alerts,         \* self._alerts
    handlers,       \* self._alert_handlers
    creating,       \* the create_alert each caller is in
    missed          \* history: handlers that were not told of an alert

vars == <<now, audited, alerts, handlers, creating, missed>>

AlertIds == (0 .. MaxTime) \X (0 .. MaxAlerts)
Idle == [step |-> "idle"]

Init ==
    /\ now = 0
    /\ audited \in BOOLEAN
    /\ alerts = <<>>
    /\ handlers = <<>>
    /\ creating = [c \in Callers |-> Idle]
    /\ missed = {}

Tick ==
    /\ now < MaxTime
    /\ now' = now + 1
    /\ UNCHANGED <<audited, alerts, handlers, creating, missed>>

AddAlertHandler(h) ==
    /\ Len(handlers) < Cardinality(Handlers)
    /\ handlers' = Append(handlers, h)
    /\ UNCHANGED <<now, audited, alerts, creating, missed>>

-----------------------------------------------------------------------------
(* create_alert *)

BuildAlert(c) ==
    /\ creating[c] = Idle
    /\ Len(alerts) < MaxAlerts
    /\ creating' = [creating EXCEPT ![c] =
                      [step |-> "append", id |-> <<now, Len(alerts)>>, time |-> now, next |-> 1,
                       registered |-> Range(handlers), told |-> {}]]
    /\ UNCHANGED <<now, audited, alerts, handlers, missed>>

AppendAlert(c) ==
    /\ creating[c].step = "append"
    /\ alerts' = Append(alerts, [id |-> creating[c].id, time |-> creating[c].time,
                                 acknowledged |-> FALSE, resolved |-> FALSE])
    /\ creating' = [creating EXCEPT ![c].step = IF audited THEN "import" ELSE "notify"]
    /\ UNCHANGED <<now, audited, handlers, missed>>

(* create_alert is over: who was registered when it began, and not told?   *)
End(c) ==
    /\ missed' = missed \cup (creating[c].registered \ creating[c].told)
    /\ creating' = [creating EXCEPT ![c] = Idle]
    /\ UNCHANGED <<now, audited, alerts, handlers>>

(* "from .audit_logger import": there is no such module in this package,   *)
(* and create_alert raises before it calls log_event.                      *)
ImportAuditLogger(c) ==
    /\ creating[c].step = "import"
    /\ End(c)

(* The list is read as it is at each turn; what a handler raises is        *)
(* suppressed.                                                             *)
NotifyHandler(c) ==
    /\ creating[c].step = "notify"
    /\ creating[c].next \in DOMAIN handlers
    /\ creating' = [creating EXCEPT ![c].told = @ \cup {handlers[creating[c].next]},
                                   ![c].next = @ + 1]
    /\ UNCHANGED <<now, audited, alerts, handlers, missed>>

ReturnAlert(c) ==
    /\ creating[c].step = "notify"
    /\ creating[c].next \notin DOMAIN handlers
    /\ End(c)

-----------------------------------------------------------------------------
(* get_alerts without a filter sorts the list itself, newest first; with a *)
(* filter it sorts a copy.                                                 *)
GetAlerts ==
    /\ alerts' = SortSeq(alerts, LAMBDA a, b : a.time > b.time)
    /\ UNCHANGED <<now, audited, handlers, creating, missed>>

(* The place of the first alert with the identifier. *)
IsFirst(i, id) == alerts[i].id = id /\ \A j \in 1 .. i - 1 : alerts[j].id # id

AcknowledgeAlert(id) ==
    \E i \in DOMAIN alerts :
        /\ IsFirst(i, id)
        /\ alerts' = [alerts EXCEPT ![i].acknowledged = TRUE]
        /\ UNCHANGED <<now, audited, handlers, creating, missed>>

ResolveAlert(id) ==
    \E i \in DOMAIN alerts :
        /\ IsFirst(i, id)
        /\ alerts' = [alerts EXCEPT ![i].resolved = TRUE]
        /\ UNCHANGED <<now, audited, handlers, creating, missed>>

Next ==
    \/ Tick
    \/ GetAlerts
    \/ \E h \in Handlers : AddAlertHandler(h)
    \/ \E c \in Callers :
          \/ BuildAlert(c) \/ AppendAlert(c) \/ ImportAuditLogger(c)
          \/ NotifyHandler(c) \/ ReturnAlert(c)
    \/ \E id \in AlertIds : AcknowledgeAlert(id) \/ ResolveAlert(id)

Spec == Init /\ [][Next]_vars

-----------------------------------------------------------------------------
(* PROPERTIES *)

(* When create_alert is over, every handler that was registered when it    *)
(* began has been called ("Notify handlers", create_alert), whatever the   *)
(* other threads and the handlers did meanwhile.                           *)
AlertsReachHandlers == missed = {}
=============================================================================
