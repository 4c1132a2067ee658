---------------------------- MODULE LiveSession ----------------------------
(***************************************************************************)
(* cli/live's loop around the grid engine: Kraken's dead man's switch, the *)
(* session loss cap with its valuation gate, the back-off from failing     *)
(* private calls, the orderly shutdown and the cool-down after a cap trip. *)
(* What the grid does with a tick is reduced to placing some orders; see   *)
(* GridEngine for that.                                                    *)
(*                                                                         *)
(* The portfolio is reduced to whether its loss against the session's      *)
(* starting value exceeds the cap.  Approvals are compared with the gate's *)
(* floor (reanchor_approval_after) only, so an approval carries the result *)
(* of that comparison.                                                     *)
(***************************************************************************)
EXTENDS Naturals

CONSTANTS
    MaxBook,      \* bound on the orders live on the exchange
    Window,       \* dead_mans_switch_seconds, in ticks of Kraken's timer
    Strikes       \* _PERMANENT_AUTH_STRIKES

ASSUME ConstantsAssumption ==
    MaxBook \in Nat /\ Window \in Nat \ {0} /\ Strikes \in Nat \ {0}

VARIABLES
    book,      \* number of orders live on the exchange
    timer,     \* Kraken's CancelAllOrdersAfter countdown; 0 when it is off
    breach,    \* the loss exceeds max_session_loss_usd
    run,       \* the process: its position, gate, escalation and locals
    cmd,       \* a re-anchor the operator may have approved
    cool,      \* a recorded cap trip is younger than cool_down_minutes
    ghost      \* history, for the properties only

vars == <<book, timer, breach, run, cmd, cool, ghost>>

----------------------------------------------------------------------------
(* Data. *)

Tick    == {"opens", "probe", "revalue", "step", "value"}
Session == {"top", "poll", "reanchor", "tick"} \union Tick
Closing == {"fetch", "cancel", "disarm", "record"}

(* price: what the tick's tickers say of the loss; opens: the tick has its *)
(* OpenOrders snapshot; tripped: exit_code 1; todo: orders the shutdown    *)
(* has yet to cancel; clean: cancel_clean.                                 *)
Process == [at : {"down"} \union Session \union Closing,
            stale : BOOLEAN, price : BOOLEAN, opens : BOOLEAN,
            strikes : 0..Strikes, authPaused : BOOLEAN, backoff : BOOLEAN,
            tripped : BOOLEAN, todo : 0..MaxBook, clean : BOOLEAN]

Fresh == [at |-> "top", stale |-> FALSE, price |-> FALSE, opens |-> FALSE,
          strikes |-> 0, authPaused |-> FALSE, backoff |-> FALSE,
          tripped |-> FALSE, todo |-> 0, clean |-> TRUE]

Down == [Fresh EXCEPT !.at = "down"]

(* old: approved no later than the gate's floor.  clouded is history: when *)
(* it was approved, or since, the loss cap could not be checked or another *)
(* session began.                                                          *)
Command == [approved : BOOLEAN, old : BOOLEAN, clouded : BOOLEAN]

NoCommand == [approved |-> FALSE, old |-> FALSE, clouded |-> FALSE]

Age(c)   == [c EXCEPT !.old = c.approved]
Cloud(c) == [c EXCEPT !.clouded = c.approved]

(* since: in breach since the tick's tickers were fetched; overdue: in     *)
(* breach since before the tickers of a tick that has ended; guarded:      *)
(* every live order was placed under a running timer.                      *)
History == [since : BOOLEAN, overdue : BOOLEAN, guarded : BOOLEAN]

At(step) == run.at = step
Goto(r, step) == [r EXCEPT !.at = step]

(* The next iteration; what the tick knew is forgotten. *)
NextTick(r) == [r EXCEPT !.at = "top", !.price = FALSE, !.opens = FALSE]

(* note_success, note_dms_success *)
Heard(r) == [r EXCEPT !.strikes = 0, !.backoff = FALSE]

(* _note_private_call_failure: a lockout extends the back-off, the last of *)
(* a row of permanent auth failures stops the private calls.               *)
Failures(r) ==
    {r, [r EXCEPT !.backoff = TRUE]} \union
    IF r.strikes + 1 < Strikes
    THEN {[r EXCEPT !.strikes = @ + 1]}
    ELSE {[r EXCEPT !.strikes = Strikes, !.authPaused = TRUE]}

----------------------------------------------------------------------------
Init ==
    /\ book = 0 /\ timer = 0 /\ breach = FALSE
    /\ run = Down
    /\ cmd = NoCommand
    /\ cool = FALSE
    /\ ghost = [since |-> FALSE, overdue |-> FALSE, guarded |-> TRUE]

----------------------------------------------------------------------------
(* The market, the exchange, the operator and the clock. *)

PriceMoves ==
    /\ breach' \in BOOLEAN \ {breach}
    /\ ghost' = [ghost EXCEPT !.since = FALSE, !.overdue = FALSE]
    /\ UNCHANGED <<book, timer, run, cmd, cool>>

(* The live orders are now b; an empty book is a guarded one. *)
BookIs(b) ==
    /\ book' = b
    /\ ghost' = IF b = 0 THEN [ghost EXCEPT !.guarded = TRUE] ELSE ghost

(* A fill, or a cancel on the exchange's own page. *)
OrderLeaves ==
    /\ book > 0 /\ BookIs(book - 1)
    /\ UNCHANGED <<timer, breach, run, cmd, cool>>

(* CancelAllOrdersAfter: when the countdown ends, Kraken empties the book. *)
TimerRuns ==
    /\ timer > 0
    /\ timer' = timer - 1
    /\ BookIs(IF timer = 1 THEN 0 ELSE book)
    /\ UNCHANGED <<breach, run, cmd, cool>>

CoolDownEnds ==
    /\ cool /\ cool' = FALSE
    /\ UNCHANGED <<book, timer, breach, run, cmd, ghost>>

BackoffEnds ==
    /\ run.backoff
    /\ run' = [run EXCEPT !.backoff = FALSE]
    /\ UNCHANGED <<book, timer, breach, cmd, cool, ghost>>

Approve ==
    /\ ~ cmd.approved
    /\ cmd' = [approved |-> TRUE, old |-> FALSE,
               clouded |-> run.stale \/ run.at \notin Session]
    /\ UNCHANGED <<book, timer, breach, run, cool, ghost>>

----------------------------------------------------------------------------
(* Start, and the top of the loop. *)

(* _run_loop: the loss is counted from here on. *)
Begin ==
    /\ At("down")
    /\ run' = Fresh
    /\ breach' = FALSE
    /\ ghost' = [ghost EXCEPT !.since = FALSE, !.overdue = FALSE]
    /\ cmd' = Cloud(Age(cmd))
    /\ UNCHANGED <<book, timer, cool>>

(* check_cool_down *)
Start == ~ cool /\ Begin

(* The trip cannot be read, or the operator said --ignore-cool-down. *)
StartAnyway == cool /\ Begin

(* set_dead_mans_switch(live.dead_mans_switch_seconds).  A reply without a *)
(* trigger time, or no reply, leaves open whether the timer was renewed.   *)
Ping ==
    /\ At("top") /\ ~ run.authPaused
    /\ \/ /\ timer' = Window
          /\ run' = Goto(Heard(run), "poll")
       \/ /\ timer' \in {timer, Window}
          /\ run' \in {Goto(r, "poll") : r \in {Heard(run)} \union Failures(run)}
    /\ UNCHANGED <<book, breach, cmd, cool, ghost>>

(* ADR-037 decision 6: a dead key is not used for pings either. *)
NoPing ==
    /\ At("top") /\ run.authPaused
    /\ run' = Goto(run, "poll")
    /\ UNCHANGED <<book, timer, breach, cmd, cool, ghost>>

(* A signal, the runtime cap, a stop command, or an exception that nothing *)
(* in the loop handles: the finally block.                                 *)
Stop ==
    /\ run.at \in Session
    /\ run' = [NextTick(run) EXCEPT !.at = "fetch"]
    /\ UNCHANGED <<book, timer, breach, cmd, cool, ghost>>

(* The process, or its host, dies. *)
Crash ==
    /\ ~ At("down")
    /\ run' = Down
    /\ UNCHANGED <<book, timer, breach, cmd, cool, ghost>>

----------------------------------------------------------------------------
(* Approved commands (_process_pending_commands). *)

NoWork ==
    /\ At("poll")
    /\ run' = Goto(run, "tick")
    /\ UNCHANGED <<book, timer, breach, cmd, cool, ghost>>

Refused == run.stale \/ cmd.old

RefuseReanchor ==
    /\ At("poll") /\ cmd.approved /\ Refused
    /\ cmd' = NoCommand
    /\ run' = Goto(run, "tick")
    /\ UNCHANGED <<book, timer, breach, cool, ghost>>

(* The re-anchored symbol's orders are cancelled first. *)
Reanchor ==
    /\ At("poll") /\ cmd.approved /\ ~ Refused
    /\ cmd' = NoCommand
    /\ \E b \in 0..book : BookIs(b)
    /\ run' = Goto(run, "reanchor")
    /\ UNCHANGED <<timer, breach, cool>>

EndReanchor ==
    /\ At("reanchor")
    /\ run' = Goto(run, "tick")
    /\ UNCHANGED <<book, timer, breach, cmd, cool, ghost>>

(* An order of the fresh layout, or of GridEngine.step.  A step without    *)
(* its OpenOrders snapshot is not taken.                                   *)
PlaceOrder ==
    /\ At("reanchor") \/ (At("step") /\ run.opens)
    /\ book < MaxBook
    /\ book' = book + 1
    /\ ghost' = IF timer > 0 THEN ghost ELSE [ghost EXCEPT !.guarded = FALSE]
    /\ UNCHANGED <<timer, breach, run, cmd, cool>>

----------------------------------------------------------------------------
(* One tick (_run_one_tick). *)

SkipTick ==
    /\ At("tick") /\ (run.authPaused \/ run.backoff)
    /\ run' = NextTick(run)
    /\ UNCHANGED <<book, timer, breach, cmd, cool, ghost>>

BeginTick ==
    /\ At("tick") /\ ~ run.authPaused /\ ~ run.backoff
    /\ run' = Goto(run, "opens")
    /\ UNCHANGED <<book, timer, breach, cmd, cool, ghost>>

(* _prefetch_tickers, and where the tick goes from there. *)
WithTickers(r, step) ==
    /\ run' = [r EXCEPT !.at = step, !.price = breach]
    /\ ghost' = [ghost EXCEPT !.since = breach]

AfterOpens == IF run.stale THEN "probe" ELSE "step"

FetchOpens ==
    /\ At("opens")
    /\ WithTickers([Heard(run) EXCEPT !.opens = TRUE], AfterOpens)
    /\ UNCHANGED <<book, timer, breach, cmd, cool>>

(* Mutant: without OpenOrders the tick is given up, the loss cap with it. *)
GiveUpTick ==
    /\ At("opens")
    /\ \E r \in Failures(run) : run' = NextTick(r)
    /\ UNCHANGED <<book, timer, breach, cmd, cool, ghost>>

(* Without OpenOrders no symbol is stepped; the loss cap is checked. *)
FetchFails ==
    /\ At("opens")
    /\ \E r \in Failures(run) : WithTickers(r, AfterOpens)
    /\ UNCHANGED <<book, timer, breach, cmd, cool>>

(* _session_portfolio_value_usd: balances of now at the tick's prices, or, *)
(* for a symbol whose ticker is missing, at the price of now.              *)
Values == {run.price, breach}

(* _session_loss_cap_tripped *)
Trip == run' = [NextTick(run) EXCEPT !.at = "fetch", !.tripped = TRUE]

(* History: the tick is over. *)
TickEnds ==
    ghost' = IF ghost.since THEN [ghost EXCEPT !.since = FALSE, !.overdue = TRUE] ELSE ghost

(* Mutant: a failed valuation leaves the gate open, as before v1.1. *)
ValuationForgotten ==
    /\ run.at \in {"probe", "revalue", "value"}
    /\ \E r \in Failures(run) : run' = NextTick(r)
    /\ cmd' = Cloud(cmd)
    /\ TickEnds
    /\ UNCHANGED <<book, timer, breach, cool>>

(* The valuation before the steps of a stale session, or the one after the *)
(* steps, fails: note_failure.                                             *)
ValuationFails ==
    /\ run.at \in {"probe", "revalue", "value"}
    /\ \E r \in Failures(run) : run' = [NextTick(r) EXCEPT !.stale = TRUE]
    /\ cmd' = Cloud(cmd)
    /\ TickEnds
    /\ UNCHANGED <<book, timer, breach, cool>>

(* A stale session probes its value before the long trade-history fetch    *)
(* and, with fresh tickers, revalues it after.                             *)
Probe ==
    /\ At("probe")
    /\ \E v \in Values :
          \/ v /\ Trip /\ UNCHANGED ghost
          \/ ~ v /\ WithTickers(run, "revalue")
    /\ UNCHANGED <<book, timer, breach, cmd, cool>>

(* Mutant: recovery does not move the floor for approvals. *)
RevalueKeepsFloor ==
    /\ At("revalue")
    /\ \E v \in Values :
          \/ v /\ Trip
          \/ ~ v /\ run' = [run EXCEPT !.at = "step", !.stale = FALSE]
    /\ UNCHANGED <<book, timer, breach, cmd, cool, ghost>>

(* note_success *)
Revalue ==
    /\ At("revalue")
    /\ \E v \in Values :
          \/ v /\ Trip /\ UNCHANGED cmd
          \/ /\ ~ v
             /\ run' = [run EXCEPT !.at = "step", !.stale = FALSE]
             /\ cmd' = Age(cmd)
    /\ UNCHANGED <<book, timer, breach, cool, ghost>>

EndSteps ==
    /\ At("step")
    /\ run' = Goto(run, "value")
    /\ UNCHANGED <<book, timer, breach, cmd, cool, ghost>>

Value ==
    /\ At("value")
    /\ \E v \in Values :
          \/ v /\ Trip /\ UNCHANGED ghost
          \/ ~ v /\ run' = NextTick(run) /\ TickEnds
    /\ UNCHANGED <<book, timer, breach, cmd, cool>>

----------------------------------------------------------------------------
(* The finally block: _cancel_all_open, the disarm, the record of a trip.  *)

FetchToCancel ==
    /\ At("fetch")
    /\ run' = [run EXCEPT !.at = "cancel", !.todo = book]
    /\ UNCHANGED <<book, timer, breach, cmd, cool, ghost>>

FetchToCancelFails ==
    /\ At("fetch")
    /\ run' = [run EXCEPT !.at = "disarm", !.clean = FALSE]
    /\ UNCHANGED <<book, timer, breach, cmd, cool, ghost>>

CancelOrder ==
    /\ At("cancel") /\ run.todo > 0 /\ book > 0
    /\ run' = [run EXCEPT !.todo = @ - 1]
    /\ BookIs(book - 1)
    /\ UNCHANGED <<timer, breach, cmd, cool>>

(* Mutant: an order that could not be cancelled is not counted. *)
CancelFailsSilently ==
    /\ At("cancel") /\ run.todo > 0
    /\ run' = [run EXCEPT !.todo = @ - 1]
    /\ UNCHANGED <<book, timer, breach, cmd, cool, ghost>>

(* The order has left the book, or the request or its reply is lost.       *)
CancelFails ==
    /\ At("cancel") /\ run.todo > 0
    /\ run' = [run EXCEPT !.todo = @ - 1, !.clean = FALSE]
    /\ \E b \in {book, IF book > 0 THEN book - 1 ELSE 0} : BookIs(b)
    /\ UNCHANGED <<timer, breach, cmd, cool>>

Cancelled ==
    /\ At("cancel") /\ run.todo = 0
    /\ run' = Goto(run, "disarm")
    /\ UNCHANGED <<book, timer, breach, cmd, cool, ghost>>

(* Only a confirmed-clean cancel disarms the switch (ADR-021); the request *)
(* may fail or its reply be lost.                                          *)
Disarm ==
    /\ At("disarm")
    /\ timer' \in IF run.clean THEN {0, timer} ELSE {timer}
    /\ run' = Goto(run, "record")
    /\ UNCHANGED <<book, breach, cmd, cool, ghost>>

(* record_cap_trip may fail; the session ends all the same. *)
End ==
    /\ At("record")
    /\ cool' \in IF run.tripped THEN {TRUE, cool} ELSE {cool}
    /\ run' = Down
    /\ UNCHANGED <<book, timer, breach, cmd, ghost>>

----------------------------------------------------------------------------
World == PriceMoves \/ OrderLeaves \/ TimerRuns \/ CoolDownEnds \/ BackoffEnds \/ Approve

Loop == Ping \/ NoPing \/ NoWork \/ RefuseReanchor \/ EndReanchor

RunTick ==
    \/ SkipTick \/ BeginTick \/ FetchOpens \/ FetchFails \/ ValuationFails
    \/ Probe \/ Revalue \/ EndSteps \/ Value

Shutdown ==
    \/ FetchToCancel \/ FetchToCancelFails \/ CancelOrder \/ CancelFails
    \/ Cancelled \/ Disarm \/ End

Next == World \/ Start \/ StartAnyway \/ Loop \/ Reanchor \/ PlaceOrder
             \/ RunTick \/ Shutdown \/ Stop \/ Crash

Spec == Init /\ [][Next]_vars

(* Every await of the loop has a timeout, and a valuation that is tried    *)
(* over and over succeeds at last.  Neither OpenOrders nor the switch is   *)
(* assumed to.                                                             *)
FairSpec ==
    /\ Spec
    /\ WF_vars(Loop) /\ WF_vars(RunTick)
    /\ SF_vars(Probe) /\ SF_vars(Revalue) /\ SF_vars(Value)

----------------------------------------------------------------------------
(* Properties. *)

(* Every variable has its type. *)
TypeOK ==
    /\ book \in 0..MaxBook /\ timer \in 0..Window
    /\ breach \in BOOLEAN /\ cool \in BOOLEAN
    /\ run \in Process /\ cmd \in Command /\ ghost \in History

(* ADR-021: orders placed under a running switch never lie on the exchange *)
(* without one, whatever pings fail, however the session ends and however  *)
(* much of the cancelling fails.                                           *)
OrdersStayGuarded == book > 0 /\ ghost.guarded => timer > 0

(* A loss beyond the cap that has lasted a whole tick, from its tickers to *)
(* its end, is followed by no order: the tick either saw it and ended the  *)
(* session, or could not value the portfolio and shut the gate.            *)
NoOrderPastTheCap ==
    [][PlaceOrder => ~ ghost.overdue]_vars

(* A re-anchor is never executed on an approval from before the session,   *)
(* or from before the last time the loss cap could not be checked.         *)
NoCloudedReanchor ==
    [][At("poll") /\ run'.at = "reanchor" => ~ cmd.clouded]_vars

(* Unless ticks are skipped from some time on for ever (a lockout without  *)
(* end, a dead key), a loss that stays beyond the cap ends the session,    *)
(* even if OpenOrders never answers again.                                 *)
LossEndsSession ==
    []<>(At("opens") \/ run.at \notin Session)
        => (breach /\ run.at \in Session ~> ~ breach \/ run.at \notin Session)
=============================================================================
