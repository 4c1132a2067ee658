---------------------------- MODULE OperatorDaemon ----------------------------
(***************************************************************************)
(* The life of cli/operator: poll loops, the Discord gateway and a         *)
(* one-shot history backfill run as tasks of one process, which supervises *)
(* them and ends when one of them fails; the restart policy of its         *)
(* container brings it back.                                               *)
(***************************************************************************)
EXTENDS Naturals

CONSTANTS
    Loops,         \* forwarder, TTL expirer, heartbeat alerts, provider health
    MaxFaults      \* failures, kills and signals of a behaviour

VARIABLES
    daemon,        \* "down", "running", "disconnecting", "cleanup", "closing"
    task,          \* [Tasks -> "none", "running", "returned" or "died"]
    stop,          \* stop_event
    wanted,        \* the container is to run: restart unless-stopped
    faults

vars == <<daemon, task, stop, wanted, faults>>

Tasks == Loops \union {"gateway", "backfill"}
MustRun == Tasks \ {"backfill"}

Running(t) == daemon # "down" /\ task[t] = "running"

Fault == faults < MaxFaults /\ faults' = faults + 1

----------------------------------------------------------------------------
(* The tasks. *)

(* An exception that no cycle caught *)
Dies(t) ==
    /\ Running(t) /\ Fault
    /\ task' = [task EXCEPT ![t] = "died"]
    /\ UNCHANGED <<daemon, stop, wanted>>

(* start() came back: the connection is gone. *)
GatewayReturns ==
    /\ Running("gateway") /\ Fault
    /\ task' = [task EXCEPT !["gateway"] = "returned"]
    /\ UNCHANGED <<daemon, stop, wanted>>

(* The backfill is done, or the stop event ended its wait. *)
BackfillReturns ==
    /\ Running("backfill")
    /\ task' = [task EXCEPT !["backfill"] = "returned"]
    /\ UNCHANGED <<daemon, stop, wanted, faults>>

(* run_poll_loop returns when the stop event is set, and only then. *)
LoopReturns(t) ==
    /\ t \in Loops /\ Running(t) /\ stop
    /\ task' = [task EXCEPT ![t] = "returned"]
    /\ UNCHANGED <<daemon, stop, wanted, faults>>

----------------------------------------------------------------------------
(* Until 2026-09-05: await stop_event.wait(), and nothing else. *)
FailedUnnoticed(t) == FALSE

(* A one-shot task may return. *)
Failed(t) == task[t] = "died" \/ (task[t] = "returned" /\ t \in MustRun)

(* _supervise_background_tasks *)
Supervise ==
    /\ daemon = "running"
    /\ stop \/ \E t \in Tasks : Failed(t)
    /\ daemon' = "disconnecting"
    /\ UNCHANGED <<task, stop, wanted, faults>>

(* _close_transport_with_cap: close, or give up on it and cancel its task. *)
Disconnect ==
    /\ daemon = "disconnecting"
    /\ task' = [task EXCEPT !["gateway"] = IF @ = "running" THEN "returned" ELSE @]
    /\ stop' = TRUE
    /\ daemon' = "cleanup"
    /\ UNCHANGED <<wanted, faults>>

(* The first phase of _operator_cleanup_phases: whatever died before *)
CancelTasks ==
    /\ daemon = "cleanup"
    /\ task' = [t \in Tasks |-> "none"]
    /\ daemon' = "closing"
    /\ UNCHANGED <<stop, wanted, faults>>

(* The assistant and the databases, each as it can; os._exit *)
Exit ==
    /\ daemon = "closing"
    /\ daemon' = "down"
    /\ UNCHANGED <<task, stop, wanted, faults>>

(* safe_shutdown: the phases took too long. *)
ForcedExit ==
    /\ daemon \in {"cleanup", "closing"}
    /\ daemon' = "down"
    /\ task' = [t \in Tasks |-> "none"]
    /\ UNCHANGED <<stop, wanted, faults>>

----------------------------------------------------------------------------
(* _main_async up to the supervision.  A start that fails cleans up what   *)
(* it had opened and exits; the container tries again.                     *)
Start ==
    /\ daemon = "down" /\ wanted
    /\ daemon' = "running"
    /\ task' = [t \in Tasks |-> "running"]
    /\ stop' = FALSE
    /\ UNCHANGED <<wanted, faults>>

StartFails ==
    /\ daemon = "down" /\ wanted /\ Fault
    /\ UNCHANGED <<daemon, task, stop, wanted>>

(* SIGINT or SIGTERM; docker stop also tells the restart policy. *)
Signal ==
    /\ daemon # "down" /\ Fault
    /\ stop' = TRUE
    /\ wanted' \in {wanted, FALSE}
    /\ UNCHANGED <<daemon, task>>

Kill ==
    /\ daemon # "down" /\ Fault
    /\ daemon' = "down"
    /\ task' = [t \in Tasks |-> "none"]
    /\ UNCHANGED <<stop, wanted>>

OperatorStarts ==
    /\ ~wanted /\ wanted' = TRUE
    /\ UNCHANGED <<daemon, task, stop, faults>>

----------------------------------------------------------------------------
Init ==
    /\ daemon = "down"
    /\ task = [t \in Tasks |-> "none"]
    /\ stop = FALSE /\ wanted = TRUE /\ faults = 0

Next ==
    \/ \E t \in Tasks : Dies(t)
    \/ \E t \in Loops : LoopReturns(t)
    \/ GatewayReturns \/ BackfillReturns
    \/ Supervise \/ Disconnect \/ CancelTasks \/ Exit \/ ForcedExit
    \/ Start \/ StartFails \/ Signal \/ Kill \/ OperatorStarts

(* The main coroutine goes on: closing the gateway and awaiting cancelled  *)
(* tasks is taken to end.  The container engine starts what it should.     *)
Fairness ==
    /\ WF_vars(Supervise) /\ WF_vars(Disconnect) /\ WF_vars(CancelTasks) /\ WF_vars(Exit)
    /\ WF_vars(Start)

Spec == Init /\ [][Next]_vars /\ Fairness

----------------------------------------------------------------------------
(* Properties. *)

Serving == daemon = "running" /\ \A t \in MustRun : task[t] = "running"

(* "A dead task means a dead daemon", and a dead daemon is restarted: once *)
(* faults have ended, the daemon, if it is wanted at all, runs and all the *)
(* tasks it cannot do without run.  (On 2026-09-05 the forwarder had been  *)
(* dead for ten hours in a daemon that looked healthy.)                    *)
ServesAgain == <>[](wanted => Serving)

=============================================================================
