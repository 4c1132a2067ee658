------------------------------- MODULE Advice -------------------------------
(***************************************************************************)
(* From an opinion to the settings file.  The advise daemon judges a coin: *)
(* the heuristic settles the clear cases, the others go to a mixture of    *)
(* experts (CascadingAdvisorAdapter over MoEAdvisorAdapter over the calls  *)
(* of LlmCalls), and the outcome is stored as a suggestion.  The operator  *)
(* applies a stored suggestion with cli/apply, through the auto-apply      *)
(* gate, and cli/recalibrate scales the order sizes; both rewrite          *)
(* settings.yml.                                                           *)
(*                                                                         *)
(* A suggestion proposes one value for one key of one coin's grid: the     *)
(* gate judges keys one by one.  The key is the spacing, which may only    *)
(* widen, or the order size.                                               *)
(***************************************************************************)
EXTENDS LlmCalls

CONSTANTS
    Meaning,             \* the value an opinion proposes
    Coins, Own,          \* the coins, and those with a section of their own
    Initial,             \* every value of the settings file at first
    Sizes,               \* order sizes cli/recalibrate may compute
    MaxChange,           \* percent
    MaxSuggestions       \* bound of a behaviour

VARIABLES
    cycle,          \* the daemon: its state, its coin, and its experts' slots
    suggestions,    \* advisor_suggestions
    settings,       \* [Sections -> [Keys -> value]]
    terminal        \* cli/apply or cli/recalibrate under way

adviceVars == <<cycle, suggestions, settings, terminal>>
vars == <<llmCalls, tracker, call, cycle, suggestions, settings, terminal>>

Keys == {"spacing", "size"}
Experts == {role \in Roles : ProcessOf[role] = "advise"}
Sections == Own \union {"default"}
Section(coin) == IF coin \in Own THEN coin ELSE "default"

Idle == [pc |-> "idle", coin |-> "none", key |-> "none", slots |-> {}]
Closed == [pc |-> "closed", suggestion |-> "none", value |-> 0]

Suggestion(role, drove, spread, value) ==
    [role |-> role, newsDrove |-> drove, coin |-> cycle.coin, key |-> cycle.key,
     value |-> value, opinions |-> spread]

----------------------------------------------------------------------------
(* The advise daemon. *)

Save(suggestion) ==
    /\ suggestions' = suggestions \union {suggestion}
    /\ cycle' = Idle

(* HeuristicAdvisorAdapter.evaluate: a clear case is settled at no cost.   *)
Settle(coin, key, value) ==
    /\ cycle.pc = "idle" /\ Cardinality(suggestions) < MaxSuggestions
    /\ suggestions' = suggestions \union
         {[role |-> "heuristic", newsDrove |-> FALSE, coin |-> coin, key |-> key,
           value |-> value, opinions |-> {}]}
    /\ UNCHANGED <<cycle, settings, terminal, callVars>>

(* Every expert is asked at once. *)
Escalate(coin, key, slotOf) ==
    /\ cycle.pc = "idle" /\ Cardinality(suggestions) < MaxSuggestions
    /\ \A role \in Experts : At(slotOf[role], "free")
    /\ cycle' = [pc |-> "gather", coin |-> coin, key |-> key,
                 slots |-> {slotOf[role] : role \in Experts}]
    /\ call' = [s \in Slots |-> IF \E role \in Experts : slotOf[role] = s
                                THEN New(CHOOSE role \in Experts : slotOf[role] = s)
                                ELSE call[s]]
    /\ UNCHANGED <<llmCalls, tracker, suggestions, settings, terminal>>

Answers == {s \in cycle.slots : At(s, "done") /\ call[s].result \in Opinions}
Raised == {s \in cycle.slots : At(s, "done") /\ call[s].result \in {"cap", "storage"}}
Gathered == cycle.pc = "gather" /\ \A s \in cycle.slots : At(s, "done")

(* What the experts said: pairs of a role and a value, silent ones left out *)
Spread ==
    {[role |-> call[s].role, value |-> Meaning[call[s].result]] : s \in
        {t \in Answers : call[t].result # "silent"}}

Distance(a, b) == IF a < b THEN b - a ELSE a - b

NewsDroveOthers(value, spread) ==
    \E n \in spread : n.role = "news" /\
        \E o \in spread : o.role # "news" /\ Distance(value, n.value) < Distance(value, o.value)

(* news_materially_drove: news alone spoke of the key, or the value lies   *)
(* closer to what news said than to what anybody else said.                *)
NewsDrove(value, spread) ==
    \E n \in spread :
        /\ n.role = "news"
        /\ \A o \in spread : o.role # "news" => Distance(value, n.value) < Distance(value, o.value)

FreeSlots(done) ==
    call' = [s \in Slots |-> IF s \in done THEN Free ELSE call[s]]

(* The aggregate of the surviving opinions.  An arbitrator may reconcile   *)
(* them to any value; its own call is left out.                            *)
Aggregate(value) ==
    /\ Gathered /\ Raised = {} /\ Spread # {}
    /\ Save(Suggestion("aggregated", NewsDrove(value, Spread), Spread, value))
    /\ FreeSlots(cycle.slots)
    /\ UNCHANGED <<llmCalls, tracker, settings, terminal>>

(* No opinion at all, or a tripped cap, which ends the gathering at once:  *)
(* the heuristic's unclear verdict, to hold, is stored instead; it has no  *)
(* key to apply.  The other experts' calls go on and nobody waits for them. *)
FallBack ==
    /\ \/ Gathered /\ Raised = {} /\ Spread = {}
       \/ \E s \in Raised : call[s].result = "cap"
    /\ cycle' = Idle
    /\ FreeSlots({s \in cycle.slots : At(s, "done")})
    /\ UNCHANGED <<llmCalls, tracker, suggestions, settings, terminal>>

(* A StorageError is not caught anywhere and ends the daemon, as a crash   *)
(* does; it is started again.                                              *)
DaemonDies ==
    /\ \/ cycle.pc = "gather"
       \/ \E s \in Raised : call[s].result = "storage"
    /\ cycle' = Idle
    /\ Restart("advise")
    /\ UNCHANGED <<suggestions, settings, terminal>>

(* The other calls: the operator's chat, and experts nobody waits for.     *)
Chat(s, role) ==
    /\ role \notin Experts
    /\ Ask(s, role)
    /\ UNCHANGED adviceVars

Forget(s) ==
    /\ At(s, "done") /\ s \notin cycle.slots
    /\ Release(s)
    /\ UNCHANGED adviceVars

----------------------------------------------------------------------------
(* The settings file. *)

EligibleRole(s) ==
    /\ s.role \notin {"news", "gremlin"}
    /\ ~(s.role = "aggregated" /\ s.newsDrove)

(* evaluate_auto_apply *)
GateAllows(s, current) ==
    /\ EligibleRole(s)
    /\ s.value > 0
    /\ s.key = "spacing" => s.value >= current
    /\ 100 * Distance(s.value, current) <= MaxChange * current

(* The configuration is loaded and the gate runs on it.                    *)
Evaluate(s) ==
    /\ terminal = Closed
    /\ s \in suggestions
    /\ GateAllows(s, settings[Section(s.coin)][s.key])
    /\ terminal' = [pc |-> "apply", suggestion |-> s, value |-> s.value]
    /\ UNCHANGED <<llmCalls, tracker, call, cycle, suggestions, settings>>

Compute(size) ==
    /\ terminal = Closed
    /\ terminal' = [Closed EXCEPT !.pc = "recalibrate", !.value = size]
    /\ UNCHANGED <<llmCalls, tracker, call, cycle, suggestions, settings>>

(* The file is read again and replaced as a whole.  A coin with no section *)
(* of its own is changed in the default, which other coins share.          *)
Rewrite ==
    /\ \/ /\ terminal.pc = "apply"
          /\ settings' = [settings EXCEPT ![Section(terminal.suggestion.coin)]
                                           [terminal.suggestion.key] = terminal.value]
       \/ /\ terminal.pc = "recalibrate"
          /\ settings' = [section \in Sections |->
                            [settings[section] EXCEPT !.size = terminal.value]]
    /\ terminal' = Closed
    /\ UNCHANGED <<llmCalls, tracker, call, cycle, suggestions>>

(* Interrupted before the file is replaced. *)
Interrupt ==
    /\ terminal # Closed
    /\ terminal' = Closed
    /\ UNCHANGED <<llmCalls, tracker, call, cycle, suggestions, settings>>

----------------------------------------------------------------------------
Init ==
    /\ CallInit
    /\ cycle = Idle
    /\ suggestions = {}
    /\ settings = [section \in Sections |-> [key \in Keys |-> Initial]]
    /\ terminal = Closed

Values == Range(Meaning)

Calls ==
    /\ \E s \in Slots : CallStep(s)
    /\ UNCHANGED adviceVars

Hour == HourPasses /\ UNCHANGED adviceVars

Next ==
    \/ Calls \/ Hour
    \/ \E coin \in Coins, key \in Keys, value \in Values : Settle(coin, key, value)
    \/ \E coin \in Coins, key \in Keys, slotOf \in [Experts -> Slots] :
           /\ \A r, q \in Experts : r # q => slotOf[r] # slotOf[q]
           /\ Escalate(coin, key, slotOf)
    \/ \E value \in Values : Aggregate(value)
    \/ FallBack \/ DaemonDies
    \/ \E s \in Slots, role \in Roles : Chat(s, role)
    \/ \E s \in Slots : Forget(s)
    \/ \E s \in suggestions : Evaluate(s)
    \/ \E size \in Sizes : Compute(size)
    \/ Rewrite \/ Interrupt

Spec == Init /\ [][Next]_vars

----------------------------------------------------------------------------
(* Properties. *)

(* The news firewall of ADR-007, over the whole way from the calls to the  *)
(* file: a value written from a reconciled suggestion was proposed closer  *)
(* to some expert other than news than to news, also when the experts that *)
(* would have contradicted it failed.                                      *)
FirewallHolds ==
    [][terminal.pc = "apply" /\ settings' # settings =>
         LET s == terminal.suggestion
         IN \/ s.role = "heuristic"
            \/ \E o \in s.opinions :
                 /\ o.role # "news"
                 /\ \A n \in s.opinions : n.role = "news" =>
                      Distance(s.value, o.value) <= Distance(s.value, n.value)]_vars

=============================================================================
