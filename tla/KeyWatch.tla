------------------------------ MODULE KeyWatch ------------------------------
(***************************************************************************)
(* What happens when Kraken stops taking the bot's private calls (ADR-037): *)
(* cli/live counts failed resets of the dead man's switch, backs off from  *)
(* account-wide lockouts and gives up a dead trader key (_AuthEscalation); *)
(* cli/observe gives up its balance poll with a dead reader key            *)
(* (PermanentAuthHalt).  Every attempt with a dead key may lock the whole  *)
(* account for a while, the other daemon's key included.                   *)
(*                                                                         *)
(* The live loop takes no time but for its sleep of one tick and the calls *)
(* that are never answered, which last Slow ticks each.  Of a tick's       *)
(* private calls the OpenOrders fetch is modelled; what the loop does with *)
(* orders is LiveSession's subject.                                        *)
(***************************************************************************)
EXTENDS Naturals, FiniteSetsExt

CONSTANTS
    Window,          \* dead_mans_switch_seconds, in ticks
    Slow,            \* request_timeout_seconds, in ticks
    StreakAlert,     \* _DMS_FAILURE_STREAK_ALERT
    Strikes,         \* _PERMANENT_AUTH_STRIKES, PermanentAuthHalt.STRIKES
    BackoffInitial, BackoffMax

VARIABLES
    timer,       \* Kraken's CancelAllOrdersAfter countdown; 0 when it is off
    locked,      \* Kraken's temporary lockout of the account
    alive,       \* [key -> it is valid]
    live,        \* the live loop and its _AuthEscalation
    poll         \* the balance poll's PermanentAuthHalt

vars == <<timer, locked, alive, live, poll>>

(* wait: ticks until the loop goes on.  armed is history: the timer runs   *)
(* because of this session.  A streak is counted up to its alert.          *)
Fresh == [at |-> "top", wait |-> 0, streak |-> 0, alerted |-> FALSE, strikes |-> 0,
          paused |-> FALSE, backoff |-> 0, backoffSize |-> 0, armed |-> FALSE]

Down == [Fresh EXCEPT !.at = "down"]

----------------------------------------------------------------------------
(* _AuthEscalation *)

(* Before the incident of 2026-08-20: any success ended the streak. *)
NoteAnySuccess(l) ==
    [l EXCEPT !.strikes = 0, !.backoff = 0, !.backoffSize = 0,
              !.streak = 0, !.alerted = FALSE]

NoteSuccess(l) == [l EXCEPT !.strikes = 0, !.backoff = 0, !.backoffSize = 0]

NoteLockout(l) ==
    LET size == IF l.backoffSize = 0 THEN BackoffInitial ELSE Min({BackoffMax, 2 * l.backoffSize})
    IN [l EXCEPT !.backoff = size, !.backoffSize = size]

NotePermanentAuth(l) ==
    [l EXCEPT !.strikes = Min({Strikes, @ + 1}), !.paused = @ \/ l.strikes + 1 >= Strikes]

(* The page goes out at the alert, once in an episode. *)
NoteDmsFailure(l) ==
    [l EXCEPT !.streak = Min({StreakAlert, @ + 1}), !.alerted = @ \/ l.streak + 1 >= StreakAlert]

NoteDmsSuccess(l) == [NoteSuccess(l) EXCEPT !.streak = 0, !.alerted = FALSE]

(* _note_private_call_failure *)
NoteFailure(l, kind) ==
    CASE kind = "lockout" -> NoteLockout(l)
      [] kind = "permanent" -> NotePermanentAuth(l)
      [] OTHER -> l

(* What Kraken may answer to a call with this key. *)
Refusals(key) ==
    IF locked THEN {"lockout"}
    ELSE IF alive[key] THEN {"error"} ELSE {"permanent"}

(* An attempt with a dead key counts against the account. *)
CountsAgainst(key) == locked' \in IF alive[key] THEN {locked} ELSE {locked, TRUE}

Goto(l, at, wait) == [l EXCEPT !.at = at, !.wait = wait]

Ready(at) == live.at = at /\ live.wait = 0

----------------------------------------------------------------------------
(* The live loop. *)

Start ==
    /\ live.at = "down"
    /\ live' = Fresh
    /\ UNCHANGED <<timer, locked, alive, poll>>

(* An answer with a trigger time in the future *)
PingConfirmed ==
    /\ Ready("top") /\ ~live.paused /\ alive["trader"] /\ ~locked
    /\ timer' = Window
    /\ live' = [Goto(NoteDmsSuccess(live), "tick", 0) EXCEPT !.armed = TRUE]
    /\ UNCHANGED <<locked, alive, poll>>

(* An answer without one: perhaps the timer was renewed. *)
PingUnconfirmed ==
    /\ Ready("top") /\ ~live.paused /\ alive["trader"] /\ ~locked
    /\ \E renewed \in BOOLEAN :
         /\ timer' = IF renewed THEN Window ELSE timer
         /\ live' = [Goto(NoteDmsFailure(NoteSuccess(live)), "tick", 0)
                       EXCEPT !.armed = @ \/ renewed]
    /\ UNCHANGED <<locked, alive, poll>>

PingRefused ==
    /\ Ready("top") /\ ~live.paused
    /\ \E kind \in Refusals("trader") :
           live' = Goto(NoteDmsFailure(NoteFailure(live, kind)), "tick", 0)
    /\ CountsAgainst("trader")
    /\ UNCHANGED <<timer, alive, poll>>

(* No answer; perhaps the request was received. *)
PingUnanswered ==
    /\ Ready("top") /\ ~live.paused
    /\ \E renewed \in {FALSE, alive["trader"] /\ ~locked} :
         /\ timer' = IF renewed THEN Window ELSE timer
         /\ live' = [Goto(live, "pinging", Slow) EXCEPT !.armed = @ \/ renewed]
    /\ CountsAgainst("trader")
    /\ UNCHANGED <<alive, poll>>

PingTimesOut ==
    /\ Ready("pinging")
    /\ live' = Goto(NoteDmsFailure(live), "tick", 0)
    /\ UNCHANGED <<timer, locked, alive, poll>>

NoPing ==
    /\ Ready("top") /\ live.paused
    /\ live' = Goto(live, "tick", 0)
    /\ UNCHANGED <<timer, locked, alive, poll>>

SkipTick ==
    /\ Ready("tick") /\ (live.paused \/ live.backoff > 0)
    /\ live' = Goto(live, "top", 1)
    /\ UNCHANGED <<timer, locked, alive, poll>>

Fetching == Ready("tick") /\ ~live.paused /\ live.backoff = 0

FetchSucceeds ==
    /\ Fetching /\ alive["trader"] /\ ~locked
    /\ live' = Goto(NoteSuccess(live), "top", 1)
    /\ UNCHANGED <<timer, locked, alive, poll>>

FetchRefused ==
    /\ Fetching
    /\ \E kind \in Refusals("trader") : live' = Goto(NoteFailure(live, kind), "top", 1)
    /\ CountsAgainst("trader")
    /\ UNCHANGED <<timer, alive, poll>>

FetchUnanswered ==
    /\ Fetching
    /\ live' = Goto(live, "top", Slow + 1)
    /\ CountsAgainst("trader")
    /\ UNCHANGED <<timer, alive, poll>>

(* The session ends, in order or not; the timer may be left running. *)
Stop ==
    /\ live.at # "down"
    /\ live' = Down
    /\ timer' \in {timer, 0}
    /\ UNCHANGED <<locked, alive, poll>>

----------------------------------------------------------------------------
(* cli/observe *)

PollFails ==
    /\ ~poll.halted
    /\ \E kind \in Refusals("reader") :
         poll' = IF kind = "permanent"
                 THEN [strikes |-> Min({Strikes, poll.strikes + 1}),
                       halted |-> poll.strikes + 1 >= Strikes]
                 ELSE [poll EXCEPT !.strikes = 0]
    /\ CountsAgainst("reader")
    /\ UNCHANGED <<timer, alive, live>>

PollSucceeds ==
    /\ ~poll.halted /\ alive["reader"] /\ ~locked
    /\ poll' = [poll EXCEPT !.strikes = 0]
    /\ UNCHANGED <<timer, locked, alive, live>>

----------------------------------------------------------------------------
KeyDies ==
    /\ \E key \in {"trader", "reader"} : alive[key] /\ alive' = [alive EXCEPT ![key] = FALSE]
    /\ UNCHANGED <<timer, locked, live, poll>>

(* A key is replaced and its daemon started anew. *)
Redeploy ==
    /\ \/ /\ ~alive["trader"] /\ live.at = "down"
          /\ alive' = [alive EXCEPT !["trader"] = TRUE]
          /\ UNCHANGED poll
       \/ /\ ~alive["reader"]
          /\ alive' = [alive EXCEPT !["reader"] = TRUE]
          /\ poll' = [strikes |-> 0, halted |-> FALSE]
    /\ UNCHANGED <<timer, locked, live>>

LockoutEnds ==
    /\ locked /\ locked' = FALSE
    /\ UNCHANGED <<timer, alive, live, poll>>

(* A tick of the clock: not before the loop has done its work. *)
Elapse ==
    /\ live.wait > 0 \/ live.at = "down"
    /\ timer' = IF timer = 0 THEN 0 ELSE timer - 1
    /\ live' = IF live.at = "down" THEN live
               ELSE [live EXCEPT !.wait = @ - 1, !.backoff = IF @ = 0 THEN 0 ELSE @ - 1]
    /\ UNCHANGED <<locked, alive, poll>>

Init ==
    /\ timer = 0 /\ locked = FALSE
    /\ alive = [key \in {"trader", "reader"} |-> TRUE]
    /\ live = Down
    /\ poll = [strikes |-> 0, halted |-> FALSE]

Next ==
    \/ Start \/ Stop
    \/ PingConfirmed \/ PingUnconfirmed \/ PingRefused \/ PingUnanswered \/ PingTimesOut \/ NoPing
    \/ SkipTick \/ FetchSucceeds \/ FetchRefused \/ FetchUnanswered
    \/ PollFails \/ PollSucceeds
    \/ KeyDies \/ Redeploy \/ LockoutEnds \/ Elapse

Spec == Init /\ [][Next]_vars

----------------------------------------------------------------------------
(* Properties. *)

(* _AuthEscalation is there to "page the operator before Kraken retires    *)
(* the book": when the timer a session has armed runs out under it, the    *)
(* operator was paged of failing resets or of the dead key.                *)
PagedBeforeRetired ==
    [][timer = 1 /\ timer' = 0 /\ live'.at # "down" /\ live.armed
         => live.alerted \/ live.paused]_vars

=============================================================================
