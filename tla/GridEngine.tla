----------------------------- MODULE GridEngine -----------------------------
(***************************************************************************)
(* The grid of one symbol: cli/live's engine, the orders and trades it     *)
(* keeps in SQLite, and the exchange.  A tick sweeps the fills whose trade *)
(* rows are still owed, finds the stored orders that left the exchange,    *)
(* records what became of them, places their counter-orders and, when no   *)
(* order is left, lays the grid out again.  Operator commands run between  *)
(* ticks.  The exchange moves between any two of the engine's awaits; the  *)
(* process may die and is then restarted through the reconciler.           *)
(*                                                                         *)
(* Sides, prices and caps are abstracted: a placement that a cap, the sell *)
(* guard or the exchange refuses is a choice.  A fill is counted in units, *)
(* each one a trade row that the exchange's lists show at once or later.   *)
(***************************************************************************)
EXTENDS Naturals

CONSTANTS
    MaxOrders,     \* bound on the orders ever placed; Kraken numbers them
    Size,          \* units in an order
    Levels,        \* levels in a layout
    MaxAnchor,     \* bound on the number of anchors ever saved
    MaxAttempts,   \* _PENDING_FILL_TRADES_MAX_ATTEMPTS
    MaxAge,        \* _PENDING_FILL_TRADES_MAX_AGE, in sweeps
    MaxFaults      \* bound on crashes, failed writes and lost replies

ASSUME ConstantsAssumption ==
    /\ MaxOrders \in Nat /\ MaxAnchor \in Nat /\ MaxFaults \in Nat
    /\ Size \in Nat \ {0} /\ Levels \in Nat \ {0}
    /\ MaxAttempts \in Nat \ {0} /\ MaxAge \in Nat \ {0}

VARIABLES
    ex,        \* order -> what the exchange knows of it
    db,        \* order -> its orders, trades and pending_fill_trades rows
    anchor,    \* grid_state: 0 when there is none, else its version
    mem,       \* what GridEngine keeps in memory
    run,       \* the engine's position and the locals of the running job
    loud,      \* given-up fills the operator was told of
    faults

vars == <<ex, db, anchor, mem, run, loud, faults>>

----------------------------------------------------------------------------
(* Data. *)

Orders == 1..MaxOrders
NoOrder == 0

Terminal == {"closed", "canceled"}

(* by: who cancelled it; parent: the filled order it counters.             *)
ExOrder == [status : {"none", "open"} \union Terminal,
            filled : 0..Size,
            by : {"nobody", "engine", "outside"},
            parent : Orders \union {NoOrder}]

NotPlaced  == [status |-> "none", filled |-> 0,
               by |-> "nobody", parent |-> NoOrder]
Resting(p) == [NotPlaced EXCEPT !.status = "open", !.parent = p]

DbOrder == [status : {"absent", "open"} \union Terminal,
            filled : 0..Size, rows : 0..Size,
            marker : {"none", "owed", "givenUp"},
            attempts : 0..MaxAttempts, age : 0..MaxAge]

Absent  == [status |-> "absent", filled |-> 0, rows |-> 0,
            marker |-> "none", attempts |-> 0, age |-> 0]
RowOpen == [Absent EXCEPT !.status = "open"]

(* pending: _pending_counter_ids; external: _external_cancels; index:      *)
(* _pending_trade_symbols; unpaged: _unpaged_abandonments.                 *)
Memory == [pending : SUBSET Orders, unpaged : SUBSET Orders,
           paused : BOOLEAN, hold : BOOLEAN, external : BOOLEAN,
           starved : BOOLEAN, index : BOOLEAN]

FreshMemory == [pending |-> {}, unpaged |-> {}, paused |-> FALSE,
                hold |-> FALSE, external |-> FALSE, starved |-> FALSE,
                index |-> FALSE]

Steps == {"down", "boot", "idle", "sweep", "detect", "layout", "cancel",
          "persist", "close"}

(* gone: _fill_candidates, the stored orders that the tick's OpenOrders    *)
(* snapshot no longer has; todo: what the current loop has left; fills:    *)
(* filled orders found by this tick; cut: filled amounts fetched before    *)
(* the cancels; cancelled, failed: their outcome.                          *)
Job == [at : Steps, gone : SUBSET Orders, todo : SUBSET Orders,
        fills : SUBSET Orders, queue : SUBSET Orders, onside : BOOLEAN, left : 0..Levels,
        laid : BOOLEAN, reanchor : BOOLEAN, cut : [Orders -> 0..Size],
        cancelled : SUBSET Orders, failed : BOOLEAN]

Idle == [at |-> "idle", gone |-> {}, todo |-> {}, fills |-> {},
         queue |-> {}, onside |-> TRUE, left |-> 0, laid |-> FALSE, reanchor |-> FALSE,
         cut |-> [o \in Orders |-> 0], cancelled |-> {}, failed |-> FALSE]

Down == [Idle EXCEPT !.at = "down"]

Live       == {o \in Orders : ex[o].status = "open"}
Unused     == {o \in Orders : ex[o].status = "none"}
StoredOpen == {o \in Orders : db[o].status = "open"}
Owed       == {o \in Orders : db[o].marker = "owed"}
GivenUp    == {o \in Orders : db[o].marker = "givenUp"}

Fault == faults < MaxFaults /\ faults' = faults + 1

At(step) == run.at = step

(* The tick, or the command, is over: the caller pages what the sweep gave *)
(* up on, whether the step returned or raised.                             *)
Finish(m) ==
    /\ run' = Idle
    /\ mem' = [m EXCEPT !.unpaged = {}]
    /\ loud' = loud \union m.unpaged

(* Mutant: only a step that returns is followed by the page. *)
AbandonWithoutPage == run' = Idle /\ UNCHANGED <<mem, loud>>

(* An exception leaves the step; the caller logs it and goes on. *)
Abandon == Finish(mem)

----------------------------------------------------------------------------
Init ==
    /\ ex = [o \in Orders |-> NotPlaced]
    /\ db = [o \in Orders |-> Absent]
    /\ anchor = 0
    /\ mem = FreshMemory
    /\ run = Down
    /\ loud = {} /\ faults = 0

----------------------------------------------------------------------------
(* The exchange and the people who use it, at any moment. *)

Fill(o) ==
    /\ o \in Live
    /\ LET n == ex[o].filled + 1 IN
       ex' = [ex EXCEPT ![o].filled = n,
                        ![o].status = IF n = Size THEN "closed" ELSE "open"]
    /\ UNCHANGED <<db, anchor, mem, run, loud, faults>>

(* A cancel that is not the engine's: the exchange's own page, or the      *)
(* dead man's switch after its timer ran out.                              *)
OutsideCancel(o) ==
    /\ o \in Live
    /\ ex' = [ex EXCEPT ![o].status = "canceled", ![o].by = "outside"]
    /\ UNCHANGED <<db, anchor, mem, run, loud, faults>>

----------------------------------------------------------------------------
(* Placing one order (_try_place, _place_level). *)

(* The exchange numbers the orders as they come. *)
NextId(o) == o \in Unused /\ \A q \in Unused : o <= q

(* AddOrder succeeds and the order is saved. *)
Placed(p) ==
    /\ \E o \in Orders :
          /\ NextId(o)
          /\ ex' = [ex EXCEPT ![o] = Resting(p)]
          /\ db' = [db EXCEPT ![o] = RowOpen]
    /\ UNCHANGED faults

(* A cap, the sell guard, or the exchange says no. *)
Refused == UNCHANGED <<ex, db, faults>>

(* AddOrder succeeds but its reply is lost, or the save fails. *)
PlacedUntracked(p) ==
    /\ Fault
    /\ \E o \in Orders : NextId(o) /\ ex' = [ex EXCEPT ![o] = Resting(p)]
    /\ UNCHANGED db

----------------------------------------------------------------------------
(* Recording what became of an order that left the open set. *)

(* Mutant: a fill without all its trades is closed like any other, as      *)
(* before ADR-046.                                                         *)
RecordedUnmarked(status, filled, rows) ==
    [Absent EXCEPT !.status = status, !.filled = filled, !.rows = rows]

(* save_fill, or save_fill_pending_trades when the rows fall short.        *)
Recorded(status, filled, rows) ==
    [Absent EXCEPT !.status = status, !.filled = filled, !.rows = rows,
                   !.marker = IF rows < filled THEN "owed" ELSE "none"]

(* resolve_fill_trades: the rows the history snapshot and the order's own  *)
(* trade list show between them.  Both may lag; the second may fail.       *)
RowsVisible(o, filled) == IF filled = 0 THEN {0} ELSE 0..ex[o].filled

(* apply_reconciliation, before the first tick: the exchange's open orders *)
(* are fetched, then every stored order it no longer has is resolved.      *)
Boot ==
    /\ At("down")
    /\ run' = [Idle EXCEPT !.at = "boot", !.todo = StoredOpen \ Live]
    /\ UNCHANGED <<ex, db, anchor, mem, loud, faults>>

(* Mutant: a departed order is taken for a clean cancel (before ADR-023). *)
ReconcileAsCancel(o) ==
    /\ At("boot") /\ o \in run.todo
    /\ db' = [db EXCEPT ![o] = Recorded("canceled", 0, 0)]
    /\ run' = [run EXCEPT !.todo = @ \ {o}]
    /\ UNCHANGED <<ex, anchor, mem, loud, faults>>

ReconcileOrder(o) ==
    /\ At("boot") /\ o \in run.todo
    /\ \E n \in RowsVisible(o, ex[o].filled) :
          db' = [db EXCEPT ![o] =
                    Recorded(IF ex[o].filled > 0 THEN ex[o].status ELSE "canceled",
                             ex[o].filled, n)]
    /\ mem' = IF ex[o].filled > 0 THEN [mem EXCEPT !.pending = @ \union {o}] ELSE mem
    /\ run' = [run EXCEPT !.todo = @ \ {o}]
    /\ UNCHANGED <<ex, anchor, loud, faults>>

(* A failed write leaves the row open and the start goes on. *)
ReconcileFails(o) ==
    /\ At("boot") /\ o \in run.todo /\ Fault
    /\ run' = [run EXCEPT !.todo = @ \ {o}]
    /\ UNCHANGED <<ex, db, anchor, mem, loud>>

(* Mutant: the new process does not load the markers it inherited. *)
LoadNothing ==
    /\ At("boot") /\ run.todo = {}
    /\ run' = Idle
    /\ loud' = loud \union GivenUp
    /\ UNCHANGED <<ex, db, anchor, mem, faults>>

(* load_pending_fill_trades: an inherited marker's clock starts afresh; a  *)
(* given-up one is raised again.                                           *)
LoadMarkers ==
    /\ At("boot") /\ run.todo = {}
    /\ run' = Idle
    /\ mem' = [mem EXCEPT !.index = Owed # {}]
    /\ db' = [o \in Orders |-> [db[o] EXCEPT !.age = 0]]
    /\ loud' = loud \union GivenUp
    /\ UNCHANGED <<ex, anchor, faults>>

----------------------------------------------------------------------------
(* One tick: the shared OpenOrders snapshot, then GridEngine.step. *)

StartTick ==
    /\ At("idle")
    /\ run' = [Idle EXCEPT !.at = "sweep", !.gone = StoredOpen \ Live,
                           !.todo = IF mem.index THEN Owed ELSE {}]
    /\ UNCHANGED <<ex, db, anchor, mem, loud, faults>>

(* trades_cover_fill *)
Covered(row, n) == n >= row.filled

(* Mutant: the bounds are tested too late. *)
GiveUpLate(row, tries) == row.age >= MaxAge \/ tries > MaxAttempts

GiveUp(row, tries) == row.age + 1 >= MaxAge \/ tries >= MaxAttempts

(* _recover_pending_fill_trades, one marker.  asked: this pass asked the   *)
(* exchange for the order's own trades and was answered.                   *)
Sweep(o) ==
    /\ At("sweep") /\ o \in run.todo
    /\ \E n \in db[o].rows .. ex[o].filled, asked \in BOOLEAN :
          LET row   == [db[o] EXCEPT !.rows = n]
              tries == IF asked THEN row.attempts + 1 ELSE row.attempts
              over  == GiveUp(row, tries)
          IN
          \/ /\ Covered(row, n)
             /\ db' = [db EXCEPT ![o] = [row EXCEPT !.marker = "none",
                                                    !.attempts = 0, !.age = 0]]
             /\ UNCHANGED mem
          \/ /\ ~ Covered(row, n)
             /\ db' = [db EXCEPT ![o] =
                          [row EXCEPT !.attempts = tries, !.age = @ + 1,
                                      !.marker = IF over THEN "givenUp" ELSE "owed"]]
             /\ mem' = IF over THEN [mem EXCEPT !.unpaged = @ \union {o}] ELSE mem
    /\ run' = [run EXCEPT !.todo = @ \ {o}]
    /\ UNCHANGED <<ex, anchor, loud, faults>>

SweepDone == At("sweep") /\ run.todo = {}

(* The index is dropped once no marker is active. *)
Swept == [mem EXCEPT !.index = @ /\ Owed # {}]

(* A wide spread ends the step of an unpaused symbol here. *)
SkipTick ==
    /\ SweepDone /\ ~ mem.paused
    /\ Finish(Swept)
    /\ UNCHANGED <<ex, db, anchor, faults>>

(* _initialize *)
Initialize ==
    /\ SweepDone /\ ~ mem.paused
    /\ anchor = 0 /\ MaxAnchor > 0
    /\ anchor' = 1
    /\ mem' = Swept
    /\ run' = [Idle EXCEPT !.at = "layout", !.left = Levels]
    /\ UNCHANGED <<ex, db, loud, faults>>

(* Mutant: a paused symbol is not looked at, as until 2026-08-12. *)
BeginDetectUnlessPaused ==
    /\ SweepDone /\ (mem.paused \/ anchor > 0)
    /\ \/ mem.paused /\ Finish(Swept)
       \/ /\ ~ mem.paused /\ mem' = Swept /\ UNCHANGED loud
          /\ \E on \in BOOLEAN :
                run' = [run EXCEPT !.at = "detect", !.onside = on,
                                   !.todo = run.gone, !.gone = {},
                                   !.queue = IF on THEN mem.pending ELSE {}]
    /\ UNCHANGED <<ex, db, anchor, faults>>

(* A paused symbol still observes; an unpaused one needs its anchor.       *)
(* Counters are placed only by a symbol neither paused nor offside.        *)
BeginDetect ==
    /\ SweepDone /\ (mem.paused \/ anchor > 0)
    /\ \E on \in IF mem.paused THEN {FALSE} ELSE BOOLEAN :
          run' = [run EXCEPT !.at = "detect", !.onside = on,
                             !.todo = run.gone, !.gone = {},
                             !.queue = IF on THEN mem.pending ELSE {}]
    /\ mem' = Swept
    /\ UNCHANGED <<ex, db, anchor, loud, faults>>

AfterDetection(o, row) ==
    [mem EXCEPT !.index = @ \/ row.marker = "owed",
                !.external = @ \/ row.filled = 0]

(* _detect_fills, one candidate: get_order_status says what it became. *)
Detect(o) ==
    /\ At("detect") /\ o \in run.todo
    /\ \E n \in RowsVisible(o, ex[o].filled) :
          LET row == Recorded(ex[o].status, ex[o].filled, n) IN
          /\ db' = [db EXCEPT ![o] = row]
          /\ mem' = AfterDetection(o, row)
    /\ run' = [run EXCEPT !.todo = @ \ {o},
                          !.fills = IF ex[o].filled > 0 THEN @ \union {o} ELSE @]
    /\ UNCHANGED <<ex, anchor, loud, faults>>

Detected == At("detect") /\ run.todo = {}

(* A paused or offside symbol gets no counter-order for what just filled. *)
SuppressCounters ==
    /\ Detected /\ ~ run.onside
    /\ Finish(mem)
    /\ UNCHANGED <<ex, db, anchor, faults>>

(* Mutant: a placed counter stays queued. *)
CounterStaysQueued(o) ==
    /\ Detected /\ o \in run.queue
    /\ Placed(o) \/ Refused \/ PlacedUntracked(o)
    /\ run' = [run EXCEPT !.queue = @ \ {o}]
    /\ UNCHANGED <<anchor, mem, loud>>

(* _place_pending_counters, one queued counter: it stays queued until its  *)
(* order is known to be placed.                                            *)
CounterQueued(o) ==
    /\ Detected /\ o \in run.queue
    /\ \/ Placed(o) /\ mem' = [mem EXCEPT !.pending = @ \ {o}]
       \/ (Refused \/ PlacedUntracked(o)) /\ UNCHANGED mem
    /\ run' = [run EXCEPT !.queue = @ \ {o}]
    /\ UNCHANGED <<anchor, loud>>

(* The counter of an order that filled just now: one attempt. *)
CounterFill(o) ==
    /\ Detected /\ run.onside /\ run.queue = {} /\ o \in run.fills
    /\ Placed(o) \/ Refused \/ PlacedUntracked(o)
    /\ run' = [run EXCEPT !.fills = @ \ {o}]
    /\ UNCHANGED <<anchor, mem, loud>>

Countered == Detected /\ run.onside /\ run.queue \union run.fills = {}

BookStands ==
    /\ Countered /\ StoredOpen # {}
    /\ Finish([mem EXCEPT !.starved = FALSE, !.external = FALSE])
    /\ UNCHANGED <<ex, db, anchor, faults>>

(* ADR-037: the book vanished; hold until the operator resumes. *)
HoldVanished ==
    /\ Countered /\ StoredOpen = {} /\ mem.external
    /\ Finish([mem EXCEPT !.paused = TRUE, !.hold = TRUE])
    /\ UNCHANGED <<ex, db, anchor, faults>>

(* A starved symbol waits STARVED_RETRY_EVERY_TICKS between attempts. *)
BackOff ==
    /\ Countered /\ StoredOpen = {} /\ ~ mem.external /\ mem.starved
    /\ Finish(mem)
    /\ UNCHANGED <<ex, db, anchor, faults>>

Relayout ==
    /\ Countered /\ StoredOpen = {} /\ ~ mem.external
    /\ run' = [Idle EXCEPT !.at = "layout", !.left = Levels]
    /\ UNCHANGED <<ex, db, anchor, mem, loud, faults>>

----------------------------------------------------------------------------
(* _place_layout, shared by the first layout, the tick and the re-anchor. *)

PlaceLevel ==
    /\ At("layout") /\ run.left > 0
    /\ \/ Placed(NoOrder) /\ run' = [run EXCEPT !.left = @ - 1, !.laid = TRUE]
       \/ (Refused \/ PlacedUntracked(NoOrder)) /\ run' = [run EXCEPT !.left = @ - 1]
    /\ UNCHANGED <<anchor, mem, loud>>

EndLayout ==
    /\ At("layout") /\ run.left = 0
    /\ Finish([mem EXCEPT !.starved = ~ run.laid])
    /\ UNCHANGED <<ex, db, anchor, faults>>

(* An exchange call or a write raises out of the step. *)
StepRaises ==
    /\ run.at \in {"sweep", "detect", "layout"}
    /\ Fault /\ Abandon
    /\ UNCHANGED <<ex, db, anchor>>

(* save_order raises after the order was placed. *)
SaveRaises ==
    /\ \/ \E o \in run.queue \union run.fills : Detected /\ run.onside /\ PlacedUntracked(o)
       \/ At("layout") /\ run.left > 0 /\ PlacedUntracked(NoOrder)
    /\ Abandon
    /\ UNCHANGED anchor

----------------------------------------------------------------------------
(* Operator commands, between ticks. *)

Pause ==
    /\ At("idle") /\ ~ mem.paused
    /\ mem' = [mem EXCEPT !.paused = TRUE]
    /\ UNCHANGED <<ex, db, anchor, run, loud, faults>>

Resumed(m) == [m EXCEPT !.paused = FALSE, !.hold = FALSE,
                        !.external = FALSE, !.starved = FALSE]

Resume ==
    /\ At("idle") /\ mem.paused
    /\ mem' = Resumed(mem)
    /\ UNCHANGED <<ex, db, anchor, run, loud, faults>>

(* cancel_open_orders, by itself or as the first part of a re-anchor.      *)
BeginCancel(re) ==
    /\ At("idle")
    /\ re => anchor < MaxAnchor
    /\ run' = [Idle EXCEPT !.at = "cancel", !.reanchor = re, !.todo = Live,
                           !.cut = [o \in Orders |-> ex[o].filled]]
    /\ UNCHANGED <<ex, db, anchor, mem, loud, faults>>

CancelOrder(o) ==
    /\ At("cancel") /\ o \in run.todo /\ o \in Live
    /\ ex' = [ex EXCEPT ![o].status = "canceled", ![o].by = "engine"]
    /\ run' = [run EXCEPT !.todo = @ \ {o}, !.cancelled = @ \union {o}]
    /\ UNCHANGED <<db, anchor, mem, loud, faults>>

(* Mutant: a cancel that failed is not counted. *)
CancelFailsSilently(o) ==
    /\ At("cancel") /\ o \in run.todo
    /\ IF o \in Live THEN Fault ELSE UNCHANGED faults
    /\ run' = [run EXCEPT !.todo = @ \ {o}]
    /\ UNCHANGED <<ex, db, anchor, mem, loud>>

(* The order is gone already, or the request fails; the batch goes on. *)
CancelFails(o) ==
    /\ At("cancel") /\ o \in run.todo
    /\ IF o \in Live THEN Fault ELSE UNCHANGED faults
    /\ run' = [run EXCEPT !.todo = @ \ {o}, !.failed = TRUE]
    /\ UNCHANGED <<ex, db, anchor, mem, loud>>

(* The order is cancelled but the reply is lost. *)
CancelReplyLost(o) ==
    /\ At("cancel") /\ o \in run.todo /\ o \in Live /\ Fault
    /\ ex' = [ex EXCEPT ![o].status = "canceled", ![o].by = "engine"]
    /\ run' = [run EXCEPT !.todo = @ \ {o}, !.failed = TRUE]
    /\ UNCHANGED <<db, anchor, mem, loud>>

(* get_trade_history after the cancels raises: nothing is persisted. *)
HistoryFails ==
    /\ At("cancel") /\ run.todo = {} /\ run.cancelled # {} /\ Fault
    /\ Abandon
    /\ UNCHANGED <<ex, db, anchor>>

(* Only cancelled orders that storage tracks are persisted. *)
BeginPersist ==
    /\ At("cancel") /\ run.todo = {}
    /\ run' = [run EXCEPT !.at = "persist", !.todo = run.cancelled \intersect StoredOpen]
    /\ UNCHANGED <<ex, db, anchor, mem, loud, faults>>

(* The filled amount is the one fetched before the cancel. *)
PersistCancel(o) ==
    /\ At("persist") /\ o \in run.todo
    /\ \E n \in RowsVisible(o, run.cut[o]) :
          LET row == Recorded("canceled", run.cut[o], n) IN
          /\ db' = [db EXCEPT ![o] = row]
          /\ mem' = [mem EXCEPT !.index = @ \/ row.marker = "owed",
                                !.pending = IF row.filled > 0 THEN @ \union {o} ELSE @]
    /\ run' = [run EXCEPT !.todo = @ \ {o}]
    /\ UNCHANGED <<ex, anchor, loud, faults>>

PersistFails(o) ==
    /\ At("persist") /\ o \in run.todo /\ Fault
    /\ run' = [run EXCEPT !.todo = @ \ {o}]
    /\ UNCHANGED <<ex, db, anchor, mem, loud>>

Persisted == At("persist") /\ run.todo = {}

EndCancel ==
    /\ Persisted /\ ~ run.reanchor
    /\ Finish(mem)
    /\ UNCHANGED <<ex, db, anchor, faults>>

(* ADR-031: no new anchor when a cancel failed. *)
RefuseReanchor ==
    /\ Persisted /\ run.reanchor /\ run.failed
    /\ Finish([mem EXCEPT !.external = FALSE])
    /\ UNCHANGED <<ex, db, anchor, faults>>

Reanchor ==
    /\ Persisted /\ run.reanchor /\ ~ run.failed
    /\ anchor' = anchor + 1
    /\ mem' = Resumed(mem)
    /\ run' = [Idle EXCEPT !.at = "layout", !.left = Levels]
    /\ UNCHANGED <<ex, db, loud, faults>>

(* save_grid_state raises. *)
ReanchorFails ==
    /\ Persisted /\ run.reanchor /\ ~ run.failed /\ Fault
    /\ Finish([mem EXCEPT !.external = FALSE])
    /\ UNCHANGED <<ex, db, anchor>>

----------------------------------------------------------------------------
(* The end of the process. *)

(* The session ends in order (_cancel_all_open): the open orders are       *)
(* fetched once and cancelled one by one.                                  *)
BeginClose ==
    /\ At("idle")
    /\ run' = [Idle EXCEPT !.at = "close", !.todo = Live,
                           !.cut = [o \in Orders |-> ex[o].filled]]
    /\ UNCHANGED <<ex, db, anchor, mem, loud, faults>>

(* A cancelled order is saved as such unless storage does not track it or  *)
(* it had filled before the fetch: that row is left to the reconciler.     *)
CloseOrder(o) ==
    /\ At("close") /\ o \in run.todo /\ o \in Live
    /\ ex' = [ex EXCEPT ![o].status = "canceled", ![o].by = "engine"]
    /\ \/ /\ db' = IF o \in StoredOpen /\ run.cut[o] = 0
                   THEN [db EXCEPT ![o].status = "canceled"] ELSE db
          /\ UNCHANGED faults
       \/ Fault /\ UNCHANGED db
    /\ run' = [run EXCEPT !.todo = @ \ {o}]
    /\ UNCHANGED <<anchor, mem, loud>>

CloseFails(o) ==
    /\ At("close") /\ o \in run.todo
    /\ IF o \in Live THEN Fault ELSE UNCHANGED faults
    /\ run' = [run EXCEPT !.todo = @ \ {o}]
    /\ UNCHANGED <<ex, db, anchor, mem, loud>>

EndClose ==
    /\ At("close") /\ run.todo = {}
    /\ mem' = FreshMemory
    /\ run' = Down
    /\ UNCHANGED <<ex, db, anchor, loud, faults>>

(* The process dies, or fails to start. *)
Crash ==
    /\ ~ At("down") /\ Fault
    /\ mem' = FreshMemory
    /\ run' = Down
    /\ UNCHANGED <<ex, db, anchor, loud>>

Exchange == \E o \in Orders : Fill(o) \/ OutsideCancel(o)

Start == Boot \/ LoadMarkers \/ \E o \in Orders : ReconcileOrder(o) \/ ReconcileFails(o)

Step ==
    \/ SkipTick \/ Initialize \/ BeginDetect \/ SuppressCounters
    \/ BookStands \/ HoldVanished \/ BackOff \/ Relayout \/ PlaceLevel \/ EndLayout
    \/ StepRaises \/ SaveRaises
    \/ \E o \in Orders :
          Sweep(o) \/ Detect(o) \/ CounterQueued(o) \/ CounterFill(o)

Cancelling ==
    \/ \E o \in Orders :
          \/ CancelOrder(o) \/ CancelFails(o) \/ CancelReplyLost(o)
          \/ PersistCancel(o) \/ PersistFails(o)
    \/ HistoryFails \/ BeginPersist \/ EndCancel
    \/ RefuseReanchor \/ Reanchor \/ ReanchorFails

Closing == BeginClose \/ EndClose \/ \E o \in Orders : CloseOrder(o) \/ CloseFails(o)

Command == Pause \/ Resume \/ \E re \in BOOLEAN : BeginCancel(re)

Next == Exchange \/ Start \/ StartTick \/ Step \/ Cancelling \/ Command \/ Closing \/ Crash

Spec == Init /\ [][Next]_vars

(* The process is restarted (the container's restart policy); a tick, a    *)
(* command or a shutdown that has begun ends; ticks go on and are not      *)
(* crowded out by commands, and the spread is not wide for ever.           *)
FairSpec ==
    /\ Spec
    /\ WF_vars(Start) /\ WF_vars(Step) /\ WF_vars(Cancelling)
    /\ WF_vars(EndClose \/ \E o \in Orders : CloseOrder(o) \/ CloseFails(o))
    /\ SF_vars(StartTick) /\ SF_vars(BeginDetect)

----------------------------------------------------------------------------
(* Properties. *)

(* Every variable has its type; the sweep stays within its bounds. *)
TypeOK ==
    /\ ex \in [Orders -> ExOrder]
    /\ db \in [Orders -> DbOrder]
    /\ anchor \in 0..MaxAnchor
    /\ mem \in Memory
    /\ run \in Job
    /\ loud \subseteq Orders
    /\ faults \in 0..MaxFaults

(* No fill loses a trade row: a stored order is closed with all the rows   *)
(* its filled amount asks for, or with a marker that says they are owed    *)
(* or given up (the losses of 2026-08-22 and 2026-09-10).                  *)
FillTradesAccounted ==
    \A o \in Orders : db[o].rows < db[o].filled => db[o].marker # "none"

(* What detection and the reconciler record of an order the engine did not *)
(* cancel is what the exchange did with it.                                *)
FillsRecordedTruly ==
    \A o \in Orders :
        db[o].status \in Terminal /\ ex[o].by # "engine"
            => ex[o].status \in Terminal /\ db[o].filled = ex[o].filled

(* A counter that is queued or about to be attempted has not been placed   *)
(* and saved before, so no filled order gets two counter-orders the engine *)
(* tracks, although the reconciler and the cancel path queue counters and  *)
(* every tick retries the refused ones (ADR-023).                          *)
CounterNotRepeated ==
    \A c \in Orders :
        db[c].status # "absent" => ex[c].parent \notin mem.pending \union run.fills

(* ADR-031: a new anchor is never saved while an order placed for the old  *)
(* one, tracked or not, is still live on the exchange.                     *)
NewAnchorOnEmptyBook == [][anchor' # anchor => Live = {}]_vars

(* A fill whose rows were given up on is always brought before the         *)
(* operator: by a page when the tick ends, however it ends, or at the next *)
(* start.                                                                  *)
AbandonmentLoud ==
    \A o \in Orders :
        db[o].marker = "givenUp" /\ At("idle") => o \in loud

(* An order that has left the exchange does not stay open in storage.      *)
DepartureRecorded ==
    \A o \in Orders :
        db[o].status = "open" /\ ex[o].status \in Terminal ~> db[o].status # "open"

(* Owed trade rows are recovered or given up on: no marker is forgotten.   *)
(* A process that is restarted over and over starts its clock afresh each  *)
(* time, so restarts must come to an end.                                  *)
OwedRowsSettle ==
    <>[](~ At("down"))
        => \A o \in Orders : db[o].marker = "owed" ~> db[o].marker # "owed"

(* ADR-046: the counter of a recorded fill fires exactly once.  So a step  *)
(* of an onside symbol never ends while it is still detecting fills with   *)
(* one on record whose counter was not even attempted.                     *)
CounterFires ==
    [][At("detect") /\ run.todo # {} /\ run.onside /\ run'.at = "idle"
          => run.fills = {}]_vars

(* cancel_open_orders: a fill that lands between the fetch and the cancel  *)
(* is recovered by the next startup reconciler.                            *)
WindowFillRecovered ==
    [][At("boot") /\ run'.at = "idle" =>
          \A o \in Orders :
              db[o].status \in Terminal => db[o].filled = ex[o].filled]_vars
=============================================================================
