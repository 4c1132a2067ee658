------------------------------ MODULE Services ------------------------------
(***************************************************************************)
(* Eight services, most of them around the engine: the nonces of one API   *)
(* key, the price history, what cli/live does about a failing key, the     *)
(* daily trade audit, the advisors with what is applied of their advice,   *)
(* the operator's chat, the bills of the language models, and the          *)
(* engine's placement of orders.  They share no state in these models; a   *)
(* behaviour belongs to one of them, drawn at its start.                   *)
(*                                                                         *)
(* KrakenKey is extended, the others are instances with variables of their *)
(* own.                                                                    *)
(***************************************************************************)
EXTENDS KrakenKey, FiniteSets, Sequences

CONSTANTS
    HistoryEnd, Retention, Horizon, Threshold, MaxGap, Seed,              \* MarketHistory
    BackfillIntervals,
    Window, Slow, StreakAlert, Strikes, BackoffInitial, BackoffMax,       \* KeyWatch
    Orders, Trades, OrderOf,                                              \* TradeAudit
    Slots, Roles, Processes, ProcessOf, Targets, DailyCap, SessionCap,    \* Advice
    Estimate, CallRetries, Day, Opinions, Meaning, Advised, Own, Initial,
    Sizes, MaxChange, MaxSuggestions,
    Messages, Users, Allowed, Fixed, Clicks, Limit, TTL, TalkEnd, MaxLives, \* OperatorChat
    Providers, Price, Prompts, Usages, MaxTokens, Unit, Budget, MaxCalls,   \* ModelBills
    Symbols, Prices, StartUsd, StartBase, SpacingPercent, Above, Below,     \* GridPlacement
    TopSell, OrderSize, Caps, MaxLossPercent, MakerFee, TakerFee,
    MaxSessionLoss, RetryEvery, MaxTicks, MaxDays

(* prune_price_snapshots_older_than_days is validated to be at least 1; a  *)
(* backfill is asked for one of the intervals the table knows.             *)
ASSUME HistoryAssumption ==
    /\ HistoryEnd \in Nat /\ Horizon \in Nat \ {0} /\ Retention \in Nat
    /\ BackfillIntervals \subseteq {"minute", "hour"}

(* The timer and the timeout of a request are validated to be positive;    *)
(* the number of failures is a constant of the code.                       *)
ASSUME WatchAssumption ==
    Window \in Nat \ {0} /\ Slow \in Nat \ {0} /\ StreakAlert \in Nat \ {0}

(* An opinion that is not silent proposes a value.  Money is counted in    *)
(* units.                                                                  *)
ASSUME AdviceAssumption ==
    /\ Meaning \in [Opinions \ {"silent"} -> Int]
    /\ IsFiniteSet(Slots) /\ Slots # {}
    /\ Estimate \in Nat /\ DailyCap \in Nat /\ Day \in Nat

(* A message in the fixed grammar is a command or a query.                 *)
ASSUME ChatAssumption ==
    \A m \in DOMAIN Fixed : Fixed[m] \in {"command", "query"}

(* The table lists models of the four providers.  No rate of it is 0 or    *)
(* negative; of the providers that count thoughts as output, none has a    *)
(* rate for them.                                                          *)
ASSUME BillsAssumption ==
    /\ Unit \in Nat \ {0}
    /\ DOMAIN Price \subseteq {"openai", "anthropic", "google", "ollama_cloud"}
    /\ \A p \in DOMAIN Price :
          /\ Price[p].input \in Nat \ {0} /\ Price[p].output \in Nat \ {0}
          /\ Price[p].cached \in Int /\ Price[p].written \in Int
          /\ Price[p].reasoning \in Int \ {0}
          /\ p \in {"anthropic", "ollama_cloud"} => Price[p].reasoning = -1
    /\ \A u \in Usages : /\ u.fresh \in Nat /\ u.cached \in Nat /\ u.written \in Nat
                         /\ u.visible \in Nat /\ u.thought \in Nat

(* CoinGridConfig, SafetyCapsConfig: what they validate.  The lowest level *)
(* of a grid is above 0, as Price asks of every order.                     *)
ASSUME PlacementAssumption ==
    /\ Len(Symbols) \in Nat /\ DOMAIN Symbols = 1..Len(Symbols)
    /\ \A i \in DOMAIN Symbols : Prices[Symbols[i]] \subseteq Nat \ {0}
    /\ StartUsd \in Int /\ StartBase \in [{Symbols[i] : i \in DOMAIN Symbols} -> Int]
    /\ SpacingPercent \in Nat \ {0} /\ Above \in Nat \ {0} /\ Below \in Nat \ {0}
    /\ Below * SpacingPercent < 100
    /\ OrderSize \in Nat
    /\ Caps.ordersPerCoin \in Nat /\ Caps.coinExposure \in Nat
    /\ Caps.totalExposure \in Nat /\ Caps.dailySpend \in Nat
    /\ Caps.coinInventory \in Nat /\ Caps.totalInventory \in Nat
    /\ MakerFee \in Nat /\ TakerFee \in Nat

VARIABLES
    system,
    now, snapshots, bars, archived, observed, daemon, job, prune,
    timer, locked, alive, live, poll,
    resting, executed, listed, row, saved, marker, check, paged,
    llmCalls, tracker, call, cycle, suggestions, settings, terminal,
    wall, life, gateway, channel, answering, backfill, turns, table, card, click,
    request, reply, paid, tally, requests, billed,
    tape, day, ledger, orders, trades, anchor, cache, starved, session

History == INSTANCE MarketHistory WITH MaxTime <- HistoryEnd

Watch == INSTANCE KeyWatch

Audit == INSTANCE TradeAudit

Advice == INSTANCE Advice WITH
       Candidates <- Targets, Coins <- Advised, MaxRetries <- CallRetries, Window <- Day

Talk == INSTANCE OperatorChat WITH MaxTime <- TalkEnd, now <- wall, task <- answering

Bills == INSTANCE ModelBills WITH
       Sizes <- Prompts, MaxRetries <- CallRetries,
       call <- request, wire <- reply, ledger <- paid, tracker <- tally, calls <- requests

Grid == INSTANCE GridPlacement

historyVars == <<now, snapshots, bars, archived, observed, daemon, job, prune>>
watchVars == <<timer, locked, alive, live, poll>>
auditVars == <<resting, executed, listed, row, saved, marker, check, paged>>
adviceVars == <<llmCalls, tracker, call, cycle, suggestions, settings, terminal>>
talkVars == <<wall, life, gateway, channel, answering, backfill, turns, table, card, click>>
billVars == <<request, reply, paid, tally, requests, billed>>
gridVars == <<tape, day, ledger, orders, trades, anchor, cache, starved, session>>
partVars == <<vars, historyVars, watchVars, auditVars, adviceVars, talkVars, billVars, gridVars>>
all == <<system, partVars>>

PartsInit ==
    /\ Init /\ History!Init /\ Watch!Init /\ Audit!Init /\ Advice!Init
    /\ Talk!Init /\ Bills!Init /\ Grid!Init

ServicesInit ==
    /\ system \in {"key", "history", "watch", "audit", "advice", "talk", "bills", "placement"}
    /\ PartsInit

(* A step of the one subsystem leaves the variables of the others alone. *)
Rest(name, ofIt) == system # name => UNCHANGED ofIt

ServicesNext ==
    /\ UNCHANGED system
    /\ Rest("key", vars) /\ Rest("history", historyVars) /\ Rest("watch", watchVars)
    /\ Rest("audit", auditVars) /\ Rest("advice", adviceVars)
    /\ Rest("talk", talkVars) /\ Rest("bills", billVars) /\ Rest("placement", gridVars)
    /\ \/ system = "key" /\ Next
       \/ system = "history" /\ History!Next
       \/ system = "watch" /\ Watch!Next
       \/ system = "audit" /\ Audit!Next
       \/ system = "advice" /\ Advice!Next
       \/ system = "talk" /\ Talk!Next
       \/ system = "bills" /\ Bills!Next
       \/ system = "placement" /\ Grid!Next

ServicesSpec == ServicesInit /\ [][ServicesNext]_all

----------------------------------------------------------------------------
(* Of the price history: no price is lost to a prune or a walk. *)
PricesKept == History!PricesKept

(* Of what the operator must hear of: a failing key before the book is     *)
(* retired, and of the daily audit a trade that nobody will write.         *)
AlarmsReach == Watch!PagedBeforeRetired /\ Audit!LossesPaged

(* Of the advisors: news alone changes no setting, and the calls of a day  *)
(* cost no more than its cap and what was under way when it was reached.   *)
AdviceSound == Advice!FirewallHolds /\ []Advice!OvershootBounded

(* Of the operator's assistant: what is said enters the context once, a    *)
(* card says what became of its command, and every token is charged once.  *)
AssistantSound == Talk!ChatSound /\ Bills!BilledOnce

(* Of the placement: the six caps hold over what is known to be open and a *)
(* starved coin has no order, no guarded sale makes a loss, the cycles     *)
(* reported are sound.                                                     *)
BookSound == Grid!CapsHold /\ Grid!StarvedBookIsEmpty
NoLossSale == Grid!NoLossSale
CyclesSound == Grid!CyclesSound

=============================================================================
