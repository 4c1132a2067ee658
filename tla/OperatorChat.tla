---------------------------- MODULE OperatorChat ----------------------------
(***************************************************************************)
(* The conversation of cli/operator: messages in Discord's channel, their  *)
(* handling by concurrent tasks, from the stored turn over the parsed      *)
(* intent to a pending command with its confirmation card, the buttons of  *)
(* the card, and the backfill that stores after a restart what was said    *)
(* meanwhile.  The daemon may be killed at any time, every write and every *)
(* send may fail.  What the language model makes of a message is left      *)
(* open; the wire formats and the wording are left out.                    *)
(***************************************************************************)
EXTENDS Integers, FiniteSets

CONSTANTS
    Messages,       \* names of the messages people may send
    Users,          \* who can see the channel
    Allowed,        \* allowed_user_ids
    Fixed,          \* messages in the fixed grammar: [message -> "command" | "query"]
    Clicks,         \* interactions under way at once
    Limit,          \* history_backfill_messages
    TTL,            \* confirm_ttl_seconds
    MaxTime, MaxLives

VARIABLES
    now,
    life,           \* starts of the daemon
    gateway,        \* "down", "connecting" or "ready"
    channel,        \* Discord: [message -> who sent it, when], if it was sent
    task,           \* _handle_inbound_message per message: where it is
    backfill,       \* the one-shot task
    turns,          \* conversation_turns
    table,          \* pending_commands: [message -> decision, deadline]
    card,           \* what the confirmation of a message's command shows
    click           \* ConfirmButton.callback under way

vars == <<now, life, gateway, channel, task, backfill, turns, table, card, click>>
daemon == <<life, gateway, task, backfill, click>>

Unsent == [by |-> "nobody", at |-> -1]
Sent(m) == channel[m] # Unsent

NoBackfill == [pc |-> "off", history |-> {}, users |-> {}, left |-> {}, after |-> -1]
NoClick == [pc |-> "idle", of |-> "none", decision |-> "none", seen |-> "none", late |-> FALSE]
NoRow == [status |-> "none", due |-> -1]

At(m, pc) == task[m] = pc
Go(m, pc) == task' = [task EXCEPT ![m] = pc]
Turn(m, via, at) == [of |-> m, via |-> via, at |-> at, life |-> life]

IsAllowed(user) == user \in Allowed

(* The table's triggers let only an awaiting row be decided or expired. *)
Write(m, status) ==
    table' = IF table[m].status = "awaiting" THEN [table EXCEPT ![m].status = status] ELSE table

----------------------------------------------------------------------------
(* People and the clock *)

Send(m, user) ==
    /\ ~Sent(m)
    /\ channel' = [channel EXCEPT ![m] = [by |-> user, at |-> now]]
    \* The event is delivered to a connected client only, and handled for
    \* an allowed user only.
    /\ IF gateway = "ready" /\ IsAllowed(user) THEN Go(m, "save") ELSE UNCHANGED task
    /\ UNCHANGED <<now, life, gateway, backfill, turns, table, card, click>>

Tick ==
    /\ now < MaxTime
    /\ now' = now + 1
    /\ UNCHANGED <<daemon, channel, turns, table, card>>

----------------------------------------------------------------------------
(* _handle_inbound_message *)

SaveTurn(m) ==
    /\ At(m, "save")
    /\ turns' = turns \union {Turn(m, "live", channel[m].at)}
    /\ Go(m, "parse")
    /\ UNCHANGED <<now, life, gateway, channel, backfill, table, card, click>>

(* Aborted, without an answer *)
SaveTurnFails(m) ==
    /\ At(m, "save")
    /\ Go(m, "none")
    /\ UNCHANGED <<now, life, gateway, channel, backfill, turns, table, card, click>>

(* classify_fast, then the model: any intent at all *)
Intents == {"command", "query", "talk"}
Understood(m) == IF m \in DOMAIN Fixed THEN {Fixed[m]} ELSE Intents

Parse(m) ==
    /\ task[m] \in {"parse", "reparse"}
    /\ \E intent \in Understood(m) : Go(m, intent)
    /\ UNCHANGED <<now, life, gateway, channel, backfill, turns, table, card, click>>

(* A timeout or an empty answer is asked once more. *)
Reparse(m) ==
    /\ At(m, "parse") /\ m \notin DOMAIN Fixed
    /\ Go(m, "reparse")
    /\ UNCHANGED <<now, life, gateway, channel, backfill, turns, table, card, click>>

(* The model fails: an apology, and the turn stays without an intent. *)
ParseFails(m) ==
    /\ task[m] \in {"parse", "reparse"} /\ m \notin DOMAIN Fixed
    /\ Go(m, "none")
    /\ UNCHANGED <<now, life, gateway, channel, backfill, turns, table, card, click>>

(* _handle_command_intent *)
SaveCommand(m) ==
    /\ At(m, "command")
    /\ table' = [table EXCEPT ![m] = [status |-> "awaiting", due |-> now + TTL]]
    /\ Go(m, "post")
    /\ UNCHANGED <<now, life, gateway, channel, backfill, turns, card, click>>

SaveCommandFails(m) ==
    /\ At(m, "command")
    /\ Go(m, "none")
    /\ UNCHANGED <<now, life, gateway, channel, backfill, turns, table, card, click>>

PostCard(m) ==
    /\ At(m, "post")
    /\ card' = [card EXCEPT ![m] = "open"]
    /\ Go(m, "reply")
    /\ UNCHANGED <<now, life, gateway, channel, backfill, turns, table, click>>

(* Not posted, or posted and the answer lost; the row waits for its end. *)
PostCardFails(m) ==
    /\ At(m, "post")
    /\ \E shown \in {"none", "open"} : card' = [card EXCEPT ![m] = shown]
    /\ Go(m, "none")
    /\ UNCHANGED <<now, life, gateway, channel, backfill, turns, table, click>>

(* _handle_query_intent: the answer goes out or does not. *)
AnswerQuery(m) ==
    /\ At(m, "query")
    /\ Go(m, "reply")
    /\ UNCHANGED <<now, life, gateway, channel, backfill, turns, table, card, click>>

(* _handle_conversational, _handle_unparseable *)
Talk(m) ==
    /\ At(m, "talk")
    /\ Go(m, "reply")
    /\ UNCHANGED <<now, life, gateway, channel, backfill, turns, table, card, click>>

QueryFails(m) ==
    /\ At(m, "query")
    /\ Go(m, "none")
    /\ UNCHANGED <<now, life, gateway, channel, backfill, turns, table, card, click>>

(* _safe_save_turn, with the time of the daemon's clock *)
SaveReply(m) ==
    /\ At(m, "reply")
    /\ turns' \in {turns, turns \union {Turn(m, "reply", now)}}
    /\ Go(m, "none")
    /\ UNCHANGED <<now, life, gateway, channel, backfill, table, card, click>>

----------------------------------------------------------------------------
(* _backfill_history_task *)

Latest(user) ==
    LET own == {t \in turns : channel[t.of].by = user}
    IN IF own = {} THEN -1 ELSE CHOOSE at \in {t.at : t \in own} : \A t \in own : t.at <= at

(* What Discord answers: messages from one end of the channel, which end   *)
(* the library decides; the bot's own ones count and are dropped.          *)
Histories ==
    {h \in SUBSET {m \in Messages : Sent(m)} :
        /\ Cardinality(h) <= Limit
        /\ \/ \A m \in h, n \in Messages \ h : Sent(n) => channel[n].at <= channel[m].at
           \/ \A m \in h, n \in Messages \ h : Sent(n) => channel[n].at >= channel[m].at}

FetchHistory ==
    /\ backfill.pc = "fetch" /\ gateway = "ready"
    /\ \E h \in Histories :
          backfill' = [backfill EXCEPT !.pc = "walk", !.history = h, !.users = Allowed]
    /\ UNCHANGED <<now, life, gateway, channel, task, turns, table, card, click>>

(* The history cannot be read: nothing is stored. *)
BackfillFails ==
    /\ backfill.pc = "fetch" /\ gateway = "ready"
    /\ backfill' = NoBackfill
    /\ UNCHANGED <<now, life, gateway, channel, task, turns, table, card, click>>

(* One allowed user after the other: the messages of the user, and the     *)
(* last turn with the user; if that cannot be read, nothing is stored.     *)
ReadLast(user) ==
    /\ backfill.pc = "walk" /\ backfill.left = {} /\ user \in backfill.users
    /\ \/ backfill' = [backfill EXCEPT
                          !.users = @ \ {user},
                          !.left = {m \in backfill.history : channel[m].by = user},
                          !.after = Latest(user)]
       \/ backfill' = [backfill EXCEPT !.users = @ \ {user}]
    /\ UNCHANGED <<now, life, gateway, channel, task, turns, table, card, click>>

(* Those up to the last turn are skipped. *)
NewerOrEqual(m, after) == channel[m].at >= after
Newer(m, after) == channel[m].at > after

(* In the order they were sent; one that cannot be stored is left out. *)
StoreTurn(m) ==
    /\ backfill.pc = "walk" /\ m \in backfill.left
    /\ \A n \in backfill.left : channel[n].at >= channel[m].at
    /\ backfill' = [backfill EXCEPT !.left = @ \ {m}]
    /\ IF Newer(m, backfill.after)
       THEN turns' \in {turns, turns \union {Turn(m, "backfill", channel[m].at)}}
       ELSE UNCHANGED turns
    /\ UNCHANGED <<now, life, gateway, channel, task, table, card, click>>

----------------------------------------------------------------------------
(* The buttons: interaction_check, apply_confirm_decision, edit_message *)

Press(c, m, user, decision) ==
    /\ gateway = "ready" /\ click[c] = NoClick /\ card[m] # "none"
    /\ IsAllowed(user)
    /\ click' = [click EXCEPT ![c] =
                    [pc |-> "decide", of |-> m, decision |-> decision,
                     seen |-> table[m].status, late |-> table[m].due <= now]]
    /\ UNCHANGED <<now, life, gateway, channel, task, backfill, turns, table, card>>

Pressed(c) == IF click[c].decision = "approve" THEN "approved" ELSE "rejected"

(* What apply_confirm_decision returns; the read and the write are apart.  *)
(* A write the triggers refuse is an error, as one that fails is.          *)
Decide(c) ==
    /\ click[c].pc = "decide"
    /\ LET m == click[c].of
           status == IF click[c].late THEN "expired" ELSE Pressed(c)
       IN \/ /\ click[c].seen = "awaiting"
             /\ Write(m, status)
             /\ click' = [click EXCEPT ![c].pc = "show",
                            ![c].seen = IF table[m].status = "awaiting" THEN status ELSE "error"]
          \/ /\ click' = [click EXCEPT ![c].pc = "show", ![c].seen = "error"]
             /\ UNCHANGED table
    /\ UNCHANGED <<now, life, gateway, channel, task, backfill, turns, card>>

(* By what was recorded, not by the button *)
ShownByButton(c) == Pressed(c)
ShownOutcome(c) == IF click[c].seen = Pressed(c) THEN Pressed(c) ELSE "stale"

EditCard(c) ==
    /\ click[c].pc = "show"
    /\ card' \in {card, [card EXCEPT ![click[c].of] = ShownOutcome(c)]}
    /\ click' = [click EXCEPT ![c] = NoClick]
    /\ UNCHANGED <<now, life, gateway, channel, task, backfill, turns, table>>

(* The web page, under the same triggers; what a daemon makes of an        *)
(* approved row afterwards is left out.                                    *)
DecideElsewhere(m) ==
    /\ table[m].status = "awaiting"
    /\ \E status \in {"approved", "rejected"} : Write(m, status)
    /\ UNCHANGED <<now, daemon, channel, turns, card>>

(* _expire_stale_pending_commands *)
Expire(m) ==
    /\ gateway # "down" /\ table[m].status = "awaiting" /\ table[m].due <= now
    /\ Write(m, "expired")
    /\ UNCHANGED <<now, daemon, channel, turns, card>>

----------------------------------------------------------------------------
(* Start, on_ready, and every way the process may end *)

Start ==
    /\ gateway = "down" /\ life < MaxLives
    /\ life' = life + 1
    /\ gateway' = "connecting"
    /\ backfill' = [NoBackfill EXCEPT !.pc = "fetch"]
    /\ UNCHANGED <<now, channel, task, turns, table, card, click>>

OnReady ==
    /\ gateway = "connecting"
    /\ gateway' = "ready"
    /\ UNCHANGED <<now, life, channel, task, backfill, turns, table, card, click>>

Stop ==
    /\ gateway # "down"
    /\ gateway' = "down"
    /\ task' = [m \in Messages |-> "none"]
    /\ backfill' = NoBackfill
    /\ click' = [c \in Clicks |-> NoClick]
    /\ UNCHANGED <<now, life, channel, turns, table, card>>

----------------------------------------------------------------------------

Init ==
    /\ now = 0 /\ life = 0 /\ gateway = "down"
    /\ channel = [m \in Messages |-> Unsent]
    /\ task = [m \in Messages |-> "none"]
    /\ backfill = NoBackfill
    /\ turns = {}
    /\ table = [m \in Messages |-> NoRow]
    /\ card = [m \in Messages |-> "none"]
    /\ click = [c \in Clicks |-> NoClick]

Handle(m) ==
    \/ SaveTurn(m) \/ SaveTurnFails(m) \/ Parse(m) \/ ParseFails(m)
    \/ SaveCommand(m) \/ SaveCommandFails(m) \/ PostCard(m) \/ PostCardFails(m)
    \/ Reparse(m) \/ AnswerQuery(m) \/ QueryFails(m) \/ Talk(m) \/ SaveReply(m)

Next ==
    \/ Tick \/ Start \/ OnReady \/ Stop
    \/ \E m \in Messages :
          \/ Handle(m) \/ StoreTurn(m) \/ DecideElsewhere(m) \/ Expire(m)
          \/ \E user \in Users : Send(m, user)
    \/ FetchHistory \/ BackfillFails \/ \E user \in Allowed : ReadLast(user)
    \/ \E c \in Clicks :
          \/ Decide(c) \/ EditCard(c)
          \/ \E m \in Messages, user \in Users, d \in {"approve", "reject"} : Press(c, m, user, d)

Spec == Init /\ [][Next]_vars

----------------------------------------------------------------------------
(* What is said reaches the model's context once: what one life stored, live *)
(* or by its backfill, no later life stores again, however often the daemon  *)
(* dies between the two.                                                     *)
ContextOnce ==
    \A s, t \in {u \in turns : u.via # "reply"} : s.of = t.of => s.life = t.life

(* A card that says approved or rejected says what became of the row, also  *)
(* when two clicks, the web page, the expirer and a restart race for it.    *)
CardTruthful ==
    \A m \in Messages : card[m] \in {"approved", "rejected"} => card[m] = table[m].status

ChatSound == ContextOnce /\ CardTruthful

=============================================================================
