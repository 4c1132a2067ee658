-------------------------------- MODULE MCLive --------------------------------
(***************************************************************************)
(* What the long-running processes must eventually do: the trading session *)
(* end on a loss, the health watch tell the truth, the operator daemon     *)
(* serve again, a withdrawal's claim be settled.  Four subsystems that     *)
(* share no state are checked in one run: a behaviour belongs to one of    *)
(* them, drawn at its start, and the variables of the others keep their    *)
(* initial values.  A property is thus about every behaviour of its own    *)
(* subsystem, and holds vacuously of the others.                           *)
(*                                                                         *)
(* LiveSession is extended, the others are instances with variables of     *)
(* their own.                                                              *)
(***************************************************************************)
EXTENDS LiveSession, TLC

VARIABLES
    system,
    up, evidence, readable, observer, recorded, queued, monitor,
    daemon, task, stop, wanted, faults,
    now, rows, exec, inflight, moved, reply

H == INSTANCE Health WITH
       Observers <- {1, 2}, Steady <- 1, Threshold <- 1, Repeat <- 2

D == INSTANCE OperatorDaemon WITH
       Loops <- {"forwarder", "expirer"}, MaxFaults <- 3

(* Two proposals whose amounts exhaust the daily cap, and a deposit. *)
W == INSTANCE Withdrawal WITH
       Proposals <- {"p1", "p2", "p3"}, Deposits <- {"p3"},
       Amount <- ("p1" :> 2 @@ "p2" :> 1 @@ "p3" :> 1),
       Created <- ("p1" :> 0 @@ "p2" :> 1 @@ "p3" :> 0),
       Executors <- {"e1", "e2"}, ClaimIds <- {1, 2}, DailyCap <- 3, Window <- 1,
       MaxAge <- 2, MaxSends <- 2, MaxTime <- 1, NoProposal <- "none", NoClaim <- 0

hVars == <<up, evidence, readable, observer, recorded, queued, monitor>>
dVars == <<daemon, task, stop, wanted, faults>>
wVars == <<now, rows, exec, inflight, moved, reply>>
all   == <<system, vars, hVars, dVars, wVars>>

LiveInit ==
    /\ system \in {"session", "health", "daemon", "withdrawal"}
    /\ Init /\ H!Init /\ D!Init /\ W!Init

(* The frame of each subsystem: what its steps leave alone. *)
OnlySession    == system = "session"    /\ UNCHANGED <<system, hVars, dVars, wVars>>
OnlyHealth     == system = "health"     /\ UNCHANGED <<system, vars, dVars, wVars>>
OnlyDaemon     == system = "daemon"     /\ UNCHANGED <<system, vars, hVars, wVars>>
OnlyWithdrawal == system = "withdrawal" /\ UNCHANGED <<system, vars, hVars, dVars>>

LiveNext ==
    \/ OnlySession /\ Next
    \/ OnlyHealth /\ H!Next
    \/ OnlyDaemon /\ D!Next
    \/ OnlyWithdrawal /\ W!Next

(* Each subsystem under its own fairness.  Of the disjuncts of a condition *)
(* only those of the subsystem a behaviour belongs to are ever enabled, so *)
(* that it asks of them what a condition of their own would.               *)
LiveSpec ==
    /\ LiveInit /\ [][LiveNext]_all
    /\ WF_all(\/ OnlySession /\ Loop
              \/ OnlyHealth /\ H!TimePasses
              \/ OnlyDaemon /\ D!Supervise
              \/ OnlyWithdrawal /\ W!Proceed("e1"))
    /\ WF_all(\/ OnlySession /\ RunTick
              \/ OnlyHealth /\ H!StartObserver(1)
              \/ OnlyDaemon /\ D!Disconnect
              \/ OnlyWithdrawal /\ W!Proceed("e2"))
    /\ WF_all(\/ OnlyDaemon /\ D!CancelTasks
              \/ OnlyWithdrawal /\ W!Kraken(1))
    /\ WF_all(\/ OnlyDaemon /\ D!Exit
              \/ OnlyWithdrawal /\ W!Kraken(2))
    /\ WF_all(\/ OnlyDaemon /\ D!Start
              \/ OnlyWithdrawal /\ W!Reconcile(1))
    /\ WF_all(OnlyWithdrawal /\ W!Reconcile(2))
    /\ SF_all(\/ OnlySession /\ Probe
              \/ OnlyHealth /\ H!Observe(1))
    /\ SF_all(\/ OnlySession /\ Revalue
              \/ OnlyHealth /\ H!Record(1))
    /\ SF_all(OnlySession /\ Value)

----------------------------------------------------------------------------
(* Of the health watch: the last notification is true. *)
LastWordIsTrue == H!LastWordIsTrue

(* Of cli/operator: after the last fault all its tasks run. *)
ServesAgain == system = "daemon" => D!ServesAgain

(* Of withdrawals: no claim stays unverified for ever. *)
ClaimSettles == W!ClaimSettles

=============================================================================
