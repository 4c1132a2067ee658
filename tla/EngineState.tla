----------------------------- MODULE EngineState -----------------------------
(***************************************************************************)
(* What cli/live knows of its symbols in memory only, paused or not, out   *)
(* of its band or not and since when, and the table engine_state to which  *)
(* every iteration of the loop publishes it and from which the next        *)
(* session restores it.  A session may end between any two steps, an       *)
(* operator edits the settings while it is down.  How the price moves and  *)
(* when a book vanishes is left open; orders are GridEngine's subject.     *)
(***************************************************************************)
EXTENDS Integers, FiniteSets

CONSTANTS
    Symbols,
    ReminderAfter,   \* held_reminder_seconds, in iterations
    MaxTime          \* bound of the clock

VARIABLES
    now,
    settings,     \* live.symbols and the enabled coins; read at start
    session,      \* pc of cli/live, the symbols left in its current pass
    engine,       \* _paused_symbols, _hold_reasons, _offside
    reminder,     \* age of last_held_reminder_at, or NoTime
    table,        \* engine_state: [symbol -> row]
    published,    \* history: symbols whose pause is in the table and was not lifted
    shown,        \* history: [symbol -> episode last published and not over]
    quiet         \* history: [symbol -> iterations it is paused with no reminder]

vars == <<now, settings, session, engine, reminder, table, published, shown, quiet>>
memory == <<session, engine, reminder>>
history == <<published, shown, quiet>>

NoTime == -1
Onside == [off |-> FALSE, since |-> NoTime]
Off(since) == [off |-> TRUE, since |-> since]

NoRow == [known |-> FALSE, paused |-> FALSE, away |-> Onside]
Row(paused, away) == [known |-> TRUE, paused |-> paused, away |-> away]

Fresh == [paused |-> {}, held |-> {}, away |-> [s \in Symbols |-> Onside]]
Down == [pc |-> "down", left |-> {}]

Goto(pc, left) == session' = [pc |-> pc, left |-> left]
Done(s) == session' = [session EXCEPT !.left = @ \ {s}]

(* The pauses of these symbols, or their episodes, are over. *)
Lifted(ss) == published' = published \ ss
Over(ss) == shown' = [s \in Symbols |-> IF s \in ss THEN Onside ELSE shown[s]]
Counting(paused) == quiet' = [s \in Symbols |-> IF s \in paused THEN quiet[s] ELSE 0]

----------------------------------------------------------------------------
(* _main_async up to the loop *)

StartLive ==
    /\ session.pc = "down"
    /\ Goto("boot", {})
    /\ UNCHANGED <<now, settings, engine, reminder, table, history>>

(* Cool-down, unusable symbols, a failed reconciliation or a failed read   *)
(* of the owed trades: no session.                                         *)
BootFails ==
    /\ session.pc = "boot"
    /\ session' = Down
    /\ UNCHANGED <<now, settings, engine, reminder, table, history>>

Restored(s) == s \in settings.traded /\ table[s].known

(* A coin that is disabled is not seeded: no tick would look at it again. *)
Seeds(s) == Restored(s) /\ s \in settings.enabled /\ table[s].away.off

(* Episodes only, as it once was *)
RestoreEpisodes ==
    /\ session.pc = "boot"
    /\ engine' = [Fresh EXCEPT !.away =
                   [s \in Symbols |-> IF Seeds(s) THEN table[s].away ELSE Onside]]
    /\ Counting({})
    /\ Over({s \in settings.traded : ~Seeds(s)})
    /\ reminder' = NoTime
    /\ Goto("poll", {})
    /\ UNCHANGED <<now, settings, table, published>>

Restore ==
    /\ session.pc = "boot"
    /\ LET paused == {s \in Symbols : Restored(s) /\ table[s].paused}
       IN /\ engine' = [paused |-> paused, held |-> {},
                        away |-> [s \in Symbols |-> IF Seeds(s) THEN table[s].away ELSE Onside]]
          /\ Counting(paused)
    /\ Over({s \in settings.traded : ~Seeds(s)})
    /\ reminder' = NoTime
    /\ Goto("poll", {})
    /\ UNCHANGED <<now, settings, table, published>>

(* The table cannot be read: an error in the log, and all symbols are      *)
(* active.                                                                 *)
RestoreFails ==
    /\ session.pc = "boot"
    /\ engine' = Fresh
    /\ Counting({})
    /\ Lifted(settings.traded) /\ Over(settings.traded)
    /\ reminder' = NoTime
    /\ Goto("poll", {})
    /\ UNCHANGED <<now, settings, table>>

----------------------------------------------------------------------------
(* Commands, before the tick *)

Pause(ss) ==
    /\ session.pc = "poll"
    /\ engine' = [engine EXCEPT !.paused = @ \union ss]
    /\ UNCHANGED <<now, settings, session, reminder, table, history>>

Resume(ss) ==
    /\ session.pc = "poll"
    /\ engine' = [engine EXCEPT !.paused = @ \ ss, !.held = @ \ ss]
    /\ Counting(engine'.paused)
    /\ Lifted(ss)
    /\ UNCHANGED <<now, settings, session, reminder, table, shown>>

(* Resumes as well; that the coin is enabled is not asked for. *)
Reanchor(s) ==
    /\ session.pc = "poll"
    /\ engine' = [engine EXCEPT !.paused = @ \ {s}, !.held = @ \ {s}, !.away[s] = Onside]
    /\ Counting(engine'.paused)
    /\ Lifted({s}) /\ Over({s})
    /\ UNCHANGED <<now, settings, session, reminder, table>>

BeginTick ==
    /\ session.pc = "poll"
    /\ Goto("tick", settings.traded)
    /\ UNCHANGED <<now, settings, engine, reminder, table, history>>

----------------------------------------------------------------------------
(* The step of a symbol *)

(* Disabled, paused, without prices or open orders, the spread too wide,   *)
(* an error                                                                *)
SkipStep(s) ==
    /\ session.pc = "tick" /\ s \in session.left
    /\ Done(s)
    /\ UNCHANGED <<now, settings, engine, reminder, table, history>>

Steps(s) ==
    /\ session.pc = "tick" /\ s \in session.left
    /\ s \in settings.enabled /\ s \notin engine.paused

(* previous.since or now *)
StepOffsideOrNow(s) ==
    /\ Steps(s)
    /\ engine' = [engine EXCEPT !.away[s] = IF @.since # NoTime THEN @ ELSE Off(now)]
    /\ Done(s)
    /\ UNCHANGED <<now, settings, reminder, table, history>>

(* Only the first tick of an episode gives it a start: one restored        *)
(* without a start stays without.                                          *)
StepOffside(s) ==
    /\ Steps(s)
    /\ engine' = [engine EXCEPT !.away[s] = IF @.off THEN @ ELSE Off(now)]
    /\ Done(s)
    /\ UNCHANGED <<now, settings, reminder, table, history>>

StepOnside(s) ==
    /\ Steps(s)
    /\ engine' = [engine EXCEPT !.away[s] = Onside]
    /\ Over({s})
    /\ Done(s)
    /\ UNCHANGED <<now, settings, reminder, table, published, quiet>>

(* Onside, and the book vanished without the engine *)
HoldVanished(s) ==
    /\ Steps(s)
    /\ engine' = [engine EXCEPT !.paused = @ \union {s}, !.held = @ \union {s}, !.away[s] = Onside]
    /\ Over({s})
    /\ Done(s)
    /\ UNCHANGED <<now, settings, reminder, table, published, quiet>>

(* Three refusals of the key, at whatever call the third one was *)
KeyIsDead ==
    /\ session.pc \in {"poll", "tick"}
    /\ engine' = [engine EXCEPT !.paused = @ \union settings.traded]
    /\ UNCHANGED <<now, settings, session, reminder, table, history>>

EndTick ==
    /\ session.pc = "tick" /\ session.left = {}
    /\ Goto("emit", settings.traded)
    /\ UNCHANGED <<now, settings, engine, reminder, table, history>>

----------------------------------------------------------------------------
(* _emit_engine_states, a transaction per symbol; each may fail *)

Emit(s) ==
    /\ session.pc = "emit" /\ s \in session.left
    /\ table' = [table EXCEPT ![s] = Row(s \in engine.paused, engine.away[s])]
    /\ published' = IF s \in engine.paused THEN published \union {s} ELSE published
    /\ shown' = [shown EXCEPT ![s] = engine.away[s]]
    /\ Done(s)
    /\ UNCHANGED <<now, settings, engine, reminder, quiet>>

EmitFails(s) ==
    /\ session.pc = "emit" /\ s \in session.left
    /\ Done(s)
    /\ UNCHANGED <<now, settings, engine, reminder, table, history>>

EndEmit ==
    /\ session.pc = "emit" /\ session.left = {}
    /\ Goto("remind", {})
    /\ UNCHANGED <<now, settings, engine, reminder, table, history>>

----------------------------------------------------------------------------
(* _check_held_reminder *)

HoldReasonKnown == engine.held \intersect settings.traded
Held == engine.paused \intersect settings.traded

Remind ==
    /\ session.pc = "remind"
    /\ LET sends == Held # {} /\ reminder # NoTime /\ reminder >= ReminderAfter
       IN /\ reminder' = IF Held = {} THEN NoTime
                         ELSE IF reminder = NoTime \/ sends THEN 0 ELSE reminder
          /\ quiet' = [s \in Symbols |-> IF sends /\ s \in Held THEN 0 ELSE quiet[s]]
    /\ Goto("sleep", {})
    /\ UNCHANGED <<now, settings, engine, table, published, shown>>

(* Sleep of tick_seconds; the reminder has a monotonic clock. *)
EndSleep ==
    /\ session.pc = "sleep"
    /\ now' = IF now < MaxTime THEN now + 1 ELSE now
    /\ reminder' = IF reminder = NoTime THEN NoTime ELSE reminder + 1
    /\ quiet' = [s \in Symbols |-> IF s \in engine.paused THEN quiet[s] + 1 ELSE 0]
    /\ Goto("poll", {})
    /\ UNCHANGED <<settings, engine, table, published, shown>>

(* However a session ends, its memory is gone. *)
EndLive ==
    /\ session.pc \notin {"down", "boot"}
    /\ session' = Down /\ engine' = Fresh /\ reminder' = NoTime
    /\ Counting({})
    /\ UNCHANGED <<now, settings, table, published, shown>>

----------------------------------------------------------------------------
(* settings.yml; a symbol may be traded and disabled. *)
EditSettings ==
    /\ session.pc = "down"
    /\ \E traded, enabled \in SUBSET Symbols :
         settings' = [traded |-> traded, enabled |-> enabled]
    /\ UNCHANGED <<now, memory, table, history>>

Elapse ==
    /\ session.pc = "down" /\ now < MaxTime
    /\ now' = now + 1
    /\ UNCHANGED <<settings, memory, table, history>>

(* A row from before the column offside_since exists has no start. *)
Init ==
    /\ now = 0
    /\ settings = [traded |-> Symbols, enabled |-> Symbols]
    /\ session = Down /\ engine = Fresh /\ reminder = NoTime
    /\ \E s \in Symbols :
          table = [t \in Symbols |-> IF t = s THEN Row(FALSE, Off(NoTime)) ELSE NoRow]
    /\ published = {}
    /\ shown = [s \in Symbols |-> table[s].away]
    /\ quiet = [s \in Symbols |-> 0]

Next ==
    \/ StartLive \/ BootFails \/ Restore \/ RestoreFails
    \/ \E s \in settings.traded : Pause({s}) \/ Resume({s}) \/ Reanchor(s)
    \/ Pause(settings.traded) \/ Resume(engine.paused)
    \/ BeginTick \/ KeyIsDead \/ EndTick \/ EndEmit \/ Remind \/ EndSleep \/ EndLive
    \/ \E s \in Symbols : SkipStep(s) \/ StepOffside(s) \/ StepOnside(s) \/ HoldVanished(s)
    \/ \E s \in Symbols : Emit(s) \/ EmitFails(s)
    \/ EditSettings \/ Elapse

Spec == Init /\ [][Next]_vars

----------------------------------------------------------------------------
(* Properties. *)

Loops == session.pc \notin {"down", "boot"}

(* A pause that has reached the table holds in every later session that    *)
(* trades the symbol, whoever made it and whatever was restarted, dropped  *)
(* from the settings or disabled in between, until somebody resumes it or  *)
(* re-anchors, or a start could not read the table.                        *)
PauseKept == Loops => published \intersect settings.traded \subseteq engine.paused

(* The start of an episode, or that it is not known, once published, stays *)
(* until a tick finds the price back in the band or a re-anchor ends it:   *)
(* no restart makes a symbol look freshly parked.                          *)
EpisodeKept ==
    Loops => \A s \in settings.traded \intersect settings.enabled :
                shown[s].off => engine.away[s] = shown[s]

(* A symbol does not stay paused for longer than the interval without a    *)
(* reminder that names it, although a restart forgets why it was held.     *)
HeldIsTold == \A s \in settings.traded : quiet[s] <= ReminderAfter

=============================================================================
