------------------------------- MODULE Health -------------------------------
(***************************************************************************)
(* Who notices that a daemon is gone.  Each daemon leaves evidence of its  *)
(* life in a database: a heartbeat row, or its primary writes.  Two        *)
(* watchers judge it by its age: the operator's heartbeat alert monitor,   *)
(* which remembers in memory what it has said and writes notifications as  *)
(* best it can, and the delivery daemon's HealthObserver, which commits a  *)
(* changed finding and its notification together.  Old and new instances   *)
(* of the delivery daemon may overlap.                                     *)
(*                                                                         *)
(* One watched daemon, whose kind makes no difference to what follows.     *)
(***************************************************************************)
EXTENDS Naturals

CONSTANTS
    Observers,     \* instances of the delivery daemon
    Steady,        \* the one that is not given up
    Threshold,     \* twice the daemon's cadence and some slack
    Repeat         \* _HEARTBEAT_REPEAT_SECONDS

VARIABLES
    up,            \* the watched daemon's loop runs
    evidence,      \* age of its newest row; Never without one
    readable,      \* the databases can be read
    observer,      \* what each observer is doing, and since when it runs
    recorded,      \* health_alert_state
    queued,        \* status of the newest notification an observer queued
    monitor        \* _HeartbeatAlertTracker: last status and time since its alert

vars == <<up, evidence, readable, observer, recorded, queued, monitor>>

Never == Threshold + 2

(* An age stops growing once it is past every limit it is compared with.   *)
Older(age, last) == IF age < last THEN age + 1 ELSE age

Off == [pc |-> "off", status |-> "none", age |-> 0]
ClearMonitor == [last |-> "none", since |-> 0]

----------------------------------------------------------------------------
(* Evidence. *)

(* emit_heartbeat is best-effort: a tick that cannot write leaves no row.  *)
Beat ==
    /\ up
    /\ evidence' = 0
    /\ UNCHANGED <<up, readable, observer, recorded, queued, monitor>>

GoesDown == up /\ up' = FALSE /\ UNCHANGED <<evidence, readable, observer, recorded, queued, monitor>>

ComesUp == ~up /\ up' = TRUE /\ UNCHANGED <<evidence, readable, observer, recorded, queued, monitor>>

AccessChanges ==
    /\ readable' = ~readable
    /\ UNCHANGED <<up, evidence, observer, recorded, queued, monitor>>

(* _classify_heartbeat, _read_daemon *)
Classify(age) ==
    IF age = Never THEN "unknown" ELSE IF age <= Threshold THEN "fresh" ELSE "stale"

Reading == IF readable THEN Classify(evidence) ELSE "unknown"

----------------------------------------------------------------------------
(* HealthObserver *)

StartObserver(o) ==
    /\ observer[o].pc = "off"
    /\ observer' = [observer EXCEPT ![o].pc = "idle"]
    /\ UNCHANGED <<up, evidence, readable, recorded, queued, monitor>>

(* A daemon never seen is given its threshold's time from the start on. *)
Observe(o) ==
    /\ observer[o].pc = "idle"
    /\ ~(Reading = "unknown" /\ observer[o].age < Threshold)
    /\ observer' = [observer EXCEPT ![o].pc = "record", ![o].status = Reading]
    /\ UNCHANGED <<up, evidence, readable, recorded, queued, monitor>>

(* Two transactions: the process may die with the state saved and the      *)
(* notification not yet queued. *)
RecordThenQueue(o) ==
    /\ observer[o].pc = "record"
    /\ recorded' = observer[o].status
    /\ \/ /\ queued' = IF recorded = observer[o].status THEN queued ELSE observer[o].status
          /\ observer' = [observer EXCEPT ![o].pc = "idle", ![o].status = "none"]
       \/ queued' = queued /\ observer' = [observer EXCEPT ![o] = Off]
    /\ UNCHANGED <<up, evidence, readable, monitor>>

(* record: one transaction compares, saves and queues; a daemon that is    *)
(* fresh at first is no news.                                              *)
Record(o) ==
    /\ observer[o].pc = "record"
    /\ LET status == observer[o].status
       IN /\ recorded' = status
          /\ queued' = IF recorded = status \/ (recorded = "none" /\ status = "fresh")
                       THEN queued ELSE status
    /\ observer' = [observer EXCEPT ![o].pc = "idle", ![o].status = "none"]
    /\ UNCHANGED <<up, evidence, readable, monitor>>

(* A StorageError, or 30 seconds without an answer, ends the daemon, as a  *)
(* crash does; it is started again.                                        *)
ObserverDies(o) ==
    /\ observer[o].pc # "off"
    /\ observer' = [observer EXCEPT ![o] = Off]
    /\ UNCHANGED <<up, evidence, readable, recorded, queued, monitor>>

----------------------------------------------------------------------------
(* The operator's monitor: the alerts it writes may be lost, the status it *)
(* remembers is lost with the process.                                     *)

Due == monitor.last # "stale" \/ monitor.since >= Repeat

Evaluate ==
    /\ Reading # "unknown"
    /\ monitor' = [last |-> Reading,
                   since |-> IF Reading = "stale" /\ ~Due THEN monitor.since ELSE 0]
    /\ UNCHANGED <<up, evidence, readable, observer, recorded, queued>>

OperatorRestarts ==
    /\ monitor' = ClearMonitor
    /\ UNCHANGED <<up, evidence, readable, observer, recorded, queued>>

----------------------------------------------------------------------------
TimePasses ==
    /\ evidence' = IF evidence = Never THEN Never ELSE Older(evidence, Threshold + 1)
    /\ observer' = [o \in Observers |-> IF observer[o].pc = "off" THEN observer[o]
                                        ELSE [observer[o] EXCEPT !.age = Older(@, Threshold)]]
    /\ monitor' = [monitor EXCEPT !.since = Older(@, Repeat)]
    /\ UNCHANGED <<up, readable, recorded, queued>>

Init ==
    /\ up = FALSE /\ evidence = Never /\ readable = TRUE
    /\ observer = [o \in Observers |-> Off]
    /\ recorded = "none" /\ queued = "none"
    /\ monitor = ClearMonitor

Next ==
    \/ Beat \/ GoesDown \/ ComesUp \/ AccessChanges
    \/ \E o \in Observers : StartObserver(o) \/ Observe(o) \/ Record(o) \/ ObserverDies(o)
    \/ Evaluate \/ OperatorRestarts \/ TimePasses

(* The daemon is started again and again and polls at its cadence; it may  *)
(* die at any time, but not each time before a finding is stored.  Nothing *)
(* is asked of an instance that is being replaced.                         *)
Fairness ==
    /\ WF_vars(TimePasses) /\ WF_vars(StartObserver(Steady))
    /\ SF_vars(Observe(Steady)) /\ SF_vars(Record(Steady))

Spec == Init /\ [][Next]_vars /\ Fairness

----------------------------------------------------------------------------
(* Properties. *)

(* "Deduplicate across processes/restarts; never lose the enqueue after    *)
(* state save": once the evidence of a daemon is and stays readable and of *)
(* one kind, the last notification the operator was sent about it says so, *)
(* whatever the observers had read, recorded or lost in crashes before.    *)
(* (A daemon that has been fresh from the start is no news.)               *)
LastWordIsTrue ==
    \A status \in {"fresh", "stale"} :
        <>[](readable /\ Reading = status)
            => <>[](queued = status \/ (queued = "none" /\ status = "fresh"))

=============================================================================
