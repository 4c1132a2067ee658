# WobbleBot in TLA+

WobbleBot is a micro-grid trading bot for Kraken: a live daemon places and
replaces limit orders, a harvest daemon withdraws profit to a bank account, an
operator steers both from Discord and a web dashboard, language models advise,
and several senders forward notifications. The daemons are asyncio processes of
their own that share SQLite files; Kraken, Discord and the models are reached
over HTTP. This directory models the parts of it that move money, decide who
may, or must not lose what they know, checks them with TLC on small instances
and proves the central properties with TLAPS for every instance.

Paths below are relative to `src/wobblebot/` unless they start with `docs/` or
`docker/`.

## 1. Inventory

| Component | State it keeps | Operations | What makes it hard | What makes it correct |
|---|---|---|---|---|
| Withdrawal execution (`cli/harvest_execute.py`, `adapters/sqlite_storage.py`, `adapters/kraken_exchange.py`) | `transfer_results` claim rows; locals of each executor | gates, `reserve_withdrawal`, `/Withdraw` with rate-limit retries, `finalize_withdrawal_claim`, reconciliation by the operator | several processes, a reply that is lost, a crash between request and record, a cap read before the lock | never paid twice; every possible payout has a blocking claim; one unverified claim; the daily cap; true reports |
| Operator command queue (`web/routes/commands.py`, `services/confirm_decision.py`, `cli/operator.py`, `cli/live.py`, `cli/harvest_execute.py`) | `pending_commands`, `command_claims`, SQLite triggers | request, decide, expire, poll, claim, dispatch, receipt | two deciders and an expirer over stale reads, two daemons, a crash between effect and receipt | one effect at most, only approved and in time; the first decision stands |
| Notification delivery (`adapters/sqlite_delivery.py`, `services/delivery.py`, `adapters/discord_*.py`, `cli/delivery.py`) | `notifications`, `notification_delivery`, `delivery_backoff` | emit, poll, claim with a lease, submit, classify, finish | a lease that expires under a live sender, lost answers, a shared Retry-After | nothing posted twice; true and final states; everything settles |
| Grid engine and fill recovery (`services/grid_engine.py`, `services/reconciler.py`) | `orders`, `trades`, `grid_state`, `pending_fill_trades`; counters queue, pause/hold/starved sets in memory | tick (sweep, detect, counter, layout), pause, resume, cancel, re-anchor, shutdown, startup reconciliation | orders move between any two awaits; trade rows appear late; a step fails half-way; a restart forgets the memory | no fill loses its trades; records are true; no counter twice; no anchor over a live order |
| Grid arithmetic, cost basis and cycles (`domain/grid.py`, `domain/cost_basis.py`, `services/cost_basis.py`, `services/exposure.py`, `services/cycle_matcher.py`) | pure, but for the sell guard's cache | levels, counter targets, cost basis, sell verdict, exposures, cycle matching | boundaries, a cached basis, six caps over several coins | a sell is never below its cost; caps hold over the whole book; every unit matched once |
| Paper trading (`adapters/shadow_exchange.py`, `adapters/mock_exchange.py`, `cli/shadow.py`) | a synthetic ledger in memory | pump a price, match, place, value | the ledger is lost in a restart, orders that over-commit a balance | the same as of the engine |
| Live session (`cli/live.py`, `services/cool_down.py`) | loop locals, `_ValuationGate`, `_AuthEscalation`, Kraken's timer, `cap_trips` | ping, command poll, tick, loss-cap check, shutdown, cool-down gate | failures of each call in turn; approvals older than what is known now; a dead or locked-out key | guarded orders stay guarded; no order past the cap; a lasting loss ends the session; the operator is paged before the book is retired |
| Kraken adapter (`adapters/kraken_exchange.py`) | nonce and lock per key, pair metadata | HTTP calls, parsing, retries | lost replies, nonce order across coroutines, a clock that jumps | a definite rejection is told from an unknown outcome; no nonce is refused |
| SQLite storage (`adapters/sqlite_storage.py`) | every table | transactions, triggers, unique indexes | several processes; one shared connection per process | one transaction per promise |
| Harvest monitor (`cli/harvest.py`, `services/harvester.py`) | `transfer_proposals` | snapshot, propose, command poll under one lock | days between a proposal and its execution; a storage cycle that overlaps the poll | a claim acted on is in the file; the balance stays above its floor (it does not) |
| Operator daemon (`cli/operator.py`) | tasks of one process | poll loops, gateway, one-shot backfill, supervision | a task that dies in a daemon that looks healthy | after the last fault everything runs again |
| Health alerts (`services/daemon_health.py`, `services/operator_forwarding.py`) | heartbeats, `health_alert_state`, a tracker in memory | observe, record, queue, repeat | two observers, a crash between record and page, unreadable databases | the last word is true |
| LLM cost gate and cloud calls (`services/llm_cost_gate.py`, `services/llm_cloud_call.py`, `adapters/fallback_advisor.py`) | `llm_calls`, a tracker per process | estimate, admit, call, retry, fail over, record | concurrent calls admitted against one ledger, crashes before the record | the overshoot of a cap is bounded |
| Advisors and auto-apply (`adapters/moe_advisor.py`, `services/auto_apply.py`, `services/settings_rewriter.py`, `cli/advise.py`, `cli/apply.py`) | suggestions, `settings.yml` | cascade, experts, aggregation, gate, rewrite | experts that fail, stale files, two terminals | news alone changes no setting |
| Price history and retention (`cli/observe.py`, `services/backfill.py`, `services/maintenance.py`) | snapshots, bars, archives | poll, gap fill, backfill, archive, prune | a prune between archive and late backfill | no price is lost |
| Trade reconciliation (`services/trade_reconciliation.py`, `cli/maintenance.py`) | none | daily audit of Kraken's history against `live.db` | the engine writes while the audit reads | every lost trade is paged |
| Backups and retention (`services/backuper.py`, `services/retention.py`, `cli/maintenance.py`) | backup files, their stamps, archives | schedule, copy, trim; archive and delete of aged rows | copies cut short, restarts that copy again, a trim by age, writers beside the pruner | a complete copy stays once there is one; no row is deleted that is not archived |
| Migrations (`adapters/sqlite_migrations.py`, `adapters/sqlite_llm_provider_migration.py`) | columns, tables, indexes, old rows | `connect` step by step, each idempotent | kills between two statements, daemons that connect together, old releases that still write | an old failure blocks withdrawals; no row is lost; who is connected finds the whole schema |
| Kraken's histories (`adapters/kraken_exchange.py`, `cli/maintenance_ledger.py`) | `ledger_entries` | walks over trades and ledgers in pages, ledger sync, `volume_covers` | the list grows at the front while a walk pages through it | a walk misses no more than arrivals push out; nothing is covered that was not read |
| Engine state (`cli/live.py`, `services/operator_service.py`, `adapters/sqlite_storage.py`) | `engine_state`; pauses, off-side episodes and reminders in memory | restore, emit, pause, resume, step, remind | best-effort writes, restarts with other symbols, a disabled one that comes back | a published pause and an episode outlive restarts; what stays paused is named again |
| Chat assistant and conversation (`cli/operator.py`, `adapters/discord_transport.py`, `adapters/discord_confirm_view.py`) | `conversation_turns`, `pending_commands`, cards in the channel | receive, parse, answer, card, click, expire, backfill | messages handled at once, a backfill beside them, two clicks on one card | what is said is in the context once; a card tells what became of its command |
| Model bills (`services/llm_pricing.py`, `services/llm_cloud_call.py`, the four cloud adapters) | price table, `llm_calls` | token counts per provider, ceiling, cost | each provider counts cached and thought tokens its own way, missing rates | every token of an answer is charged once |
| News, screener, reports, web pages, configuration | files, logs, sessions | see `PROJECT.json` | mostly sequential | not modelled, with the reason there |

How they meet: the chat and web surfaces write `pending_commands` and never call
the engine. `cli/live` and `cli/harvest` poll approved rows of their own kinds
and claim each one durably before acting. `cli/live` runs `GridEngine` on one
thread, so commands run between ticks, never inside one. The reconciler runs
before the first tick. Every notification goes through the outbox. Nothing but
SQLite rows, settings files and Kraken's own state survives a restart.

## 2. Modules

```
PayoutLedger            abstract: hold one proposal, pay it at most once
  ^ implemented by
Withdrawal              executors, claim ledger, network, Kraken, operator
PendingCommands         table + triggers, deciders, expirer, daemons
NotificationDelivery    outbox, two kinds of sender, channel
GridEngine              one symbol: engine, tables, exchange, commands
TradeMath <- ShadowExchange <- GridPlacement
                        several symbols with prices and amounts, on paper
LiveSession             the loop around the engine: timer, loss cap, gate
KeyWatch                failing pings, lockouts and dead keys, with a clock
KrakenKey               nonces and the lock of one API key
SharedConnection        tasks of a process on one SQLite connection
HarvestMonitor          proposals against a balance that changes
TradeAudit              the daily audit beside the engine's writes
MarketHistory           polls, gap fill, backfill, archive, prune
LlmCalls <- Advice      paid calls; from an opinion to settings.yml
ModelBills              token counts, price table, cost of an answer
OperatorChat            messages, cards, clicks, backfill
Health                  evidence, two watchers, their last word
OperatorDaemon          tasks, supervision, restart
Maintenance             backups, trimming, retention
KrakenHistory           walks over lists that grow at the front
SchemaMigration         connects that migrate one file
EngineState             pauses and episodes over restarts
Records                 Withdrawal, Maintenance, KrakenHistory,
                        SchemaMigration, EngineState side by side
Services                KrakenKey, MarketHistory, KeyWatch, TradeAudit, Advice,
                        OperatorChat, ModelBills, GridPlacement side by side
MC<Module>, MCServices, MCSettle, MCLive    instances for TLC
FiniteSums              lemmas: sums and other folds over finite sets
<Module>Proofs          theorems of seven modules
```

Records and Services draw one of their parts and leave the variables of the others
alone (section 3 says why). They are modules of their own, with the parts' constants
as parameters, so that what a run checks of `RecordsSpec` or `ServicesSpec` is also
what the theorems are about; `MCWithdrawal` gives Records its values, `MCServices`
gives them to Services.

### Withdrawal and PayoutLedger
`rows` is `transfer_results`, `exec` each process's place in `_execute_proposal`,
`inflight`, `moved` and `reply` the network and Kraken. `Begin`, `ReadBalance`,
`CheckDayCap` and `StampClaim` are the gates in their order, `Reserve` the one
`BEGIN IMMEDIATE` transaction, `Submit` .. `LoseReply` the request and what may
become of it, `Finalize` the update under its own lock, `Reconcile` the runbook
(`docs/release/v1.0-incident-runbook.md:84-107`). Static gates (disabled, wrong
key, unlisted address) only refuse and appear as `Refuse`. Kraken's error array is a
definite rejection, as the code assumes. The ledger starts empty. The refinement
maps `held` to the proposals with an open row and `paid` to those Kraken paid.

### PendingCommands
`table` with the two triggers as `Accepts`: a `Save` the triggers abort is a
`Fault`-free refusal. A handler reads, decides and writes in separate steps, as
does the expirer (`sweep`). A daemon polls a batch of copies, claims one row at
a time (`Claim` re-reads the row, `ExpireLapsed` writes the expiry), dispatches
and writes the receipt. What is dispatched is an effect counter, and a refusal
(`DispatchRefused`) stands for every `OperatorError`.

### NotificationDelivery
`row` is `notification_delivery` (with the `forwarded` flag set together with
`sent`), times are countdowns, `hold` is `delivery_backoff`. The REST sender
classifies answers in `discord_delivery.send_embed`, the Gateway sender in
`discord_transport`; both go through `forward_notifications`. A row without a
delivery row counts as queued. Batch size and order are left out: a sender
takes any due row.

### GridEngine
`ex` is what Kraken knows of each order, `db` its `orders` row with the number of
its `trades` rows and its ADR-046 marker, `mem` the engine's attributes and `run`
the place in the running tick or command. Between two actions the exchange may
fill or cancel anything. `RowsVisible` lets the trade lists lag. `Finish` stands
for the end of every step: the caller pages abandoned fills whether the step
returned or raised. `BeginClose` .. `EndClose` are the orderly shutdown, which leaves
rows with a fill open for the reconciler. Prices, sides, caps and the sell guard are a placement that
may be `Refused`. Ages are counted in sweeps, an order is `Size` units, and an
order about to be placed gets the lowest unused name.

### TradeMath, ShadowExchange and GridPlacement
What GridEngine leaves out: several symbols, sides, prices, amounts, money.
`TradeMath` holds the pure algorithms (levels, counters, average-cost basis, the sell
verdict, six exposures, FIFO cycles); what the code does to each trade or order of a sorted list
is a fold over a set, `InOrder`, which is told which element comes last, and the time of a
trade is the number of its fill;
`ShadowExchange` the paper ledger as operators on a record, and `GridPlacement`
runs the engine over them as `cli/shadow` does: a tick pumps each symbol's price,
detects fills, places counters and layouts through the six caps, the sell guard
and the exchange, and a restart begins with an empty ledger and the old tables. A
step runs whole; the tape stands still within a tick.

### LiveSession and KeyWatch
LiveSession: the book is a number of orders, the portfolio is "within the cap" or
"in breach", Kraken's countdown is `timer`. One action per call of the loop, and
each may fail in the ways `_note_private_call_failure` tells apart. `Values` is the
valuation: balances of now at the tick's tickers, or a price of now where a ticker
is missing. Approval times are compared only with the gate's floor, so an approval
is `old` or not. `ghost` records history for the properties and never enables
an action. The switch is configured (its default).
KeyWatch has the clock that LiveSession lacks: the sleep of a tick, calls that hang
for `Slow` ticks, the reset streak, `_AuthEscalation`'s strikes and back-off, the
balance poll of `cli/observe` with its own strikes, and lockouts of the account
that an attempt with a dead key may cause.

### KrakenKey
`last` is `_LAST_NONCE_BY_KEY`, `lock` the key's `asyncio.Lock`, `wire` the requests under
way; the clock may stand still or jump. `Arrive` is Kraken's check of a nonce against
the highest it has seen. One process and one key: the counters of two processes
with one key know nothing of each other, which the code calls unsolved.

### SharedConnection
One database file, statement by statement. `Connection` says which tasks share a
connection, and with it one transaction; `CycleTasks` are those under
`storage_cycle_lock`; `Kind` says whether a task saves a row, claims one with a
connection of its own, or reserves and settles a withdrawal. WAL mode is `writer`,
the one connection that is in a write transaction.

### HarvestMonitor, TradeAudit
HarvestMonitor: `Propose` is a cycle's `propose_transfer` with a history that may be
unreadable, `Execute` a whole claim, `Trade` what else moves the balance. TradeAudit:
`Place` .. `List` are Kraken, `Resolve`, `Recover`, `GiveUp` the engine's writes,
`Fetch`, `ReadTrades`, `ReadOrders` the audit's three reads with anything in between.

### MarketHistory
Times are small numbers, a bar or snapshot is its time. `job` is a walk of
`backfill_range` in pages, by the daemon's gap fill or by an operator, `prune` the
archive, its verification and the delete, each a step. What was once stored is
`observed`, which only the property reads.

### Maintenance
`files` are the backups of a database, newest first, each with its stamp and whether
the copy was finished; `written`, `stored` and `archived` the aged table (`written` is every
row there ever was, which only the property reads). `job` is the running cycle: choose a database,
copy it, trim, or archive and then delete. A copy and an archive may be cut short at any
step, by a fault or by the end of the daemon.

### KrakenHistory
Entries are numbered as they arrive, `newest` is the last. A walk reads page after page
from the newest on, with arrivals in between, takes the total from the first page that
gives one, stops at it, at its limit or at its page limit, sorts and cuts. What it has read is
how often it has read each entry (`got`), since a sorted list is no more than that; the cut
leaves an entry the room that the newer ones do. `SaveEntries` is the ledger
sync, `Covers` what `volume_covers` concludes from the trades of an order.

### SchemaMigration
`db` is the committed file, `tx` the draft of the connection that writes, `conn` each
daemon's place in `connect`, one action per statement: the columns, the rebuild of `llm_calls` in its
explicit transaction, the price index, the guard and the marking of old failures.
`Abort` ends a connect anywhere. The file begins as any earlier release may have left it.

### EngineState
`engine` is what a session holds of each symbol, `states` the table, `settings` the
symbols of the next session. A pass of the loop polls commands, steps every symbol,
emits, reminds and sleeps. An emit may fail for any symbol; a restore may fail.
`published` is what the table was last told, which only the properties read.

### OperatorChat and ModelBills
OperatorChat: `answering` is each message's place in `_handle_inbound_message`, `backfill` the
one-shot task's, `turns` the stored conversation, `table` the commands, `card` what
the channel shows. The model's understanding of a text is any intent. The backfill
(`FetchHistory`, `ReadLast`, `StoreTurn`) reads the channel once and then goes through the
allowed users, for each reading the last turn and storing what is newer, message by
message, while tasks store turns of their own. ModelBills:
`reply` is the usage block as the provider reports it, `Extract` what the adapter makes of it,
`CostFor` the price table with its fall-backs, `billed` what the provider charges.

### LlmCalls and Advice
A slot is one coroutine's call: `Admit` checks both caps, `Answer`, `Timeout` .. are the
provider, with retries and the next candidate, `Record` writes the row and then
the tracker. Advice extends it: a cycle opens with the heuristic, asks its experts,
aggregates what came back with the attribution of news, and saves a suggestion; a
terminal reads the file, judges and writes it in separate steps.

### Health and OperatorDaemon
Health: `evidence` is the age of a daemon's newest row, an observer reads and
records in two steps, the operator's tracker keeps its memory only. OperatorDaemon: tasks
that may die or return, `Supervise` .. `Exit` the end of the process, `Start` the
container's restart.

## 3. Runs

| Run | Instance | Shows |
|---|---|---|
| `withdrawal` | five parts of Records: 2 executors, 3 proposals (one a deposit), 3 claims, cap 2, time 0..3; Maintenance, KrakenHistory, SchemaMigration, EngineState, below; 809 000 states | no double payout, blocking claims, true reports, the cap in every window, refinement of PayoutLedger; backups, walks, migration, restored state |
| `commands` | 2 commands, 2 competing live daemons, web and Discord handler, TTL 1, one fault; 1.3 million states | one effect, approved, in time, first decision stands |
| `delivery` | 2 notifications, REST and Gateway sender, 2 attempts, one fault; 178 000 states | posted once, true and final states, everything settles |
| `grid` | 2 orders of 2 units, 2 levels, 2 anchors, one fault; 2.2 million states | trade rows accounted for, true records, no repeated counter, loud give-ups, no anchor over a live order |
| `services` | the eight parts of Services, below; 605 000 states | nonces, price history, key watch, audit, firewall and budget; six caps, sell guard, cycles, starvation; chat, cards, bills |
| `settle` | SharedConnection (3 tasks, 2 connections, 2 faults), PendingCommands (a command for each daemon), GridEngine (2 orders of 1 unit, one fault); 149 000 states | claims are in the file (`ClaimsHold`); every command gets an outcome (`CommandSettles`); departures are recorded and owed trade rows settle (`FillsSettle`) |
| `live` | LiveSession (2 orders, timer 2, 2 strikes), Health (2 observers), OperatorDaemon (2 loops, gateway, backfill), Withdrawal (2 executors, 2 claims); 128 000 states | guarded orders, loss cap, approvals, a lasting loss ends the session; last word; serving again; claims settle |
| `grid_counter`, `grid_window`, `liquidity_floor`, `false_gap`, `shared_write` | small | violations, see section 6 |

**Runs of several subsystems.** The modules in `withdrawal`, `services`, `settle` and
`live` have no common state, so composing them would only multiply their states. Each
run draws a `system` first; the behaviour is one of that module's own, and
the variables of the others stay at their initial values, of which every
property holds. What a run shows is thus what a run of each module of
its own would. Where fairness is stated, one condition is a disjunction over the
subsystems: only the disjunct of the drawn one is ever enabled, so the condition
says of it exactly what it would say alone. Where modules do interact they are
composed for real: GridPlacement over ShadowExchange over TradeMath, Advice over
LlmCalls, and Withdrawal refining PayoutLedger.

**Instances of `services`.** KrakenKey: 2 tasks, clock 0..2, 4 nonces, one retry.
GridPlacement: two coins, one of which moves between three prices, four ticks, two
days, every cap small enough to refuse. MarketHistory: three times, one hour of
retention. KeyWatch: a window of 10 ticks, a timeout of 1, 3 failures to the alert, 3
strikes. TradeAudit: two orders, one in two trades. ModelBills: four providers and one
without a price, two calls, units of ten tokens. Two parts are drawn in two instances
(`focus`). Advice: once two experts asked at once, without retries; once two calls of the chat with a retry
and a second provider. OperatorChat, with an operator and a guest, time 0..1, TTL 1 and two
starts: once two messages, one of them a query, and a history page of 2, without commands; once one
message that becomes a command, its card under two clicks, without a history.

**Instances of `withdrawal`.** Maintenance: one database, 2 kept copies, horizon 1, time
0..3. KrakenHistory: 6 entries of 3 orders on pages of 2, the oldest of a symbol
that is not asked for. SchemaMigration: 2 daemons and 4 files of earlier releases.
EngineState: 2 symbols, time 0..1.

**Why the bounds are enough.** Each property speaks of at most two claims, two
actors or two orders, so two of each (three claims, to refuse a third) give every
conflicting pair. Two units make a partial fill, and one more unit a partially visible
one. Two attempts give a retry and an exhausted budget. A fault budget
(`MaxFaults`) of one puts a crash or a failed write at every point of every
behaviour, and the proofs hold for any budget. `MaxTime` outruns the TTL, the
cap window and the proposal age. `MaxOrders` and `MaxAnchor` let a counter or a
second layout exist. Two days let the daily spend start over with orders still
open. Four nonces outrun the clock. `CHECK_DEADLOCK FALSE` is set where identifiers or time run
out, and in the grid where a spent fault budget and full book may leave nothing
to do. The run `live` never stops, and deadlock is checked there.

**Fairness.**
- Withdrawal: every HTTP call has a timeout (`adapters/kraken_exchange.py:324`), so an
  executor proceeds. A request is delivered or lost, and the operator follows the
  runbook.
- Commands: the clock runs, handlers answer requests, daemons poll on a timer,
  the expirer is a periodic task.
- Delivery: the clock runs, and each sender goes on (30 s send timeout). Nothing is assumed of Discord.
- Grid: the container is restarted (`restart: unless-stopped`), a begun step ends,
  ticks are not crowded out by commands for ever, the spread is not wide for ever
  (strong fairness of `StartTick` and `BeginDetect`). Of `FillsSettle`, the part about owed
  rows has the premise that restarts come to an end, since each one starts a marker's clock afresh.
- Session: the loop and the tick go on because every await has a timeout. A
  valuation tried again and again succeeds at last (strong fairness of `Probe`, `Revalue`,
  `Value`). Nothing is assumed of OpenOrders or pings. `LossEndsSession` has the
  premise that ticks are not skipped for ever, since a lockout without end or a
  dead key skips them by design (ADR-037).
- Health: time passes, and one observer is started again whenever it is down and,
  whatever kills it in between, gets to read and to record at last (strong
  fairness of `Observe` and `Record`). Nothing is assumed of the other one.
- Operator daemon: supervision, the two closing steps and the exit come to an end,
  and the container is restarted (`docker/docker-compose.yml:105`). That awaiting a
  cancelled gateway ends is an assumption: the code awaits it without a cap.

## 4. What is proved

For all values of the constants, under the named assumptions on them where a module
has some (below), and under three hypotheses written in their theorems: `LoopsApart`
(SharedConnection: a task that claims shares its connection only with tasks under
`storage_cycle_lock`), `WindowOutlastsStreak` (KeyWatch, see section 6) and
`AmountsTellLevels` (`CyclesAreSound`: no two levels of a grid have orders of one amount). The
instances of the runs have all three. Each proof
module defines an inductive invariant, one for each part in RecordsProofs and
ServicesProofs, proves that the initial states have it and one lemma per group of
actions, and derives the theorems. Every proof ends in facts about records,
functions and arithmetic, and the last step is temporal.

- **FiniteSums** has no theorem about the system: sums of a function over a finite
  set (`MapThenSumSet` of the community modules) unfold element by element, are
  natural, grow with the set and change with one value; a fold in an order (`InOrder` of
  TradeMath) unfolds at the element that comes last, and keeps what each of its steps
  keeps. They rest on an induction over subsets (`AllowsInduction`, which the
  modules that cite a lemma prove of every finite set, from its well-foundedness), and on the partial
  results as a function on the subsets, since the fold itself is recursive. The step of a
  fold is a CONSTANT operator of the module, which ServicesProofs instantiates for each of its
  seven folds: fills, cost basis, detection, layout, counters, pump, cycles.
- **RecordsProofs**, withdrawals: `TypeCorrect`, `PaidAtMostOnce`, `ClaimCoversPayout`,
  `SingleUnresolvedClaim`, `TruthfulReports`, `Refinement`. `AtMostOnePayout` is
  not inductive: a step `KrakenAccept` needs to know that no other claim of the
  proposal was ever paid. `IInv` says that two rows blocking one proposal are
  one row, that an executor past its reservation is the only one and holds a
  `reserved` row, that payouts and requests of a claim number at most one
  together, and what each unread answer and each position says about the money.
  `Refinement` shows each step to be `Hold`, `Pay`, `Release` or a stutter.
  `CapNeverExceeded`: `CapInv` says that the claims of each window, none of them rejected,
  add up to no more than the cap; a reservation checks every window its claim lies
  in, although claims are stamped before the lock and inserted out of order, and all
  other steps take claims away or leave their amounts.
- **RecordsProofs**, `BackupsAreSound`: the copies of a database are spaced by the interval and none is of
  the future (`CopiesInv`), a database that was backed up has a complete copy that is not
  the one being made or trimmed (`RestoreInv`), and what the delete will take is what
  the archive was given (`RetentionInv`). Without the spacing, a trim could reach the last good copy.
  `StateIsKept`: a published pause stands in the table and in the memory of a session that
  has restored (`PauseInv`), an episode has the same start in both (`EpisodeInv`), and a
  counter of quiet passes is under its limit before the sleep (`QuietInv`).
  `MigrationIsSound`: what a connect that has reached its k-th step finds (`Reached`) no later
  step takes away (`NoLess`), who has changed rows holds the lock until the
  commit (`DraftInv`), and the calls are in the table or in its copy (`CallsInv`).
  `WalksAreSound`: the pages of a walk have gone down to the entry above some b, which is
  its offset from an end of the list between then and now. Of the wanted entries above b all
  are read, from b on down none, and (`ReadTo`) what was read, with its repetitions, and the
  entries that were not asked for fit in the offset, so that a walk that stops at its limit or at the
  end leaves out no more than arrived; an undisturbed walk reads nothing twice.
  `Finished` is what the cut leaves of this. `CoverageSound` then says: a sum of ones that reaches the
  number of an order's trades is one of each.
- **ServicesProofs**, `NoncesAreAccepted`: who waits for an answer holds the lock and
  drew the last nonce, which Kraken has not seen while a request with it is under way.
  `PricesAreKept`: the prices about to be written are in bars (`PageInv`), and what a prune will
  delete is about to be archived, archived or in bars (`PruneInv`); a poll writes the price of now, which no
  cutoff reaches. `LostTradesArePaged`, unconditional, and with it `AlarmsAreReaching`: `Noted`, what
  has no row now had none when the rows were read; `WatchInv`, as long as nothing was
  paged the timer outlasts `Due`, the longest the missing failures may take, which is
  what the hypothesis buys at the start. `AdviceIsSound`: the experts of one evaluation
  have slots of their own (`OneEach`), so that news speaks once, and a suggestion carries the verdict of
  its own opinions; `BudgetInv`, what is spent and one estimate for each call under way
  exceed the cap by the estimates of the other slots at most. `AssistantIsSound`, three
  invariants: `TurnInv`, what a task or the backfill is still to store no earlier life has
  stored, or it is not newer than the last turn read, since that turn has the largest
  time of all with the user (`LatestIsLargest`), and a daemon that starts has no tasks;
  `CardInv`, a message has no row or card before it is a command, rows keep their
  decisions, so that what a click has read is still so when it edits the card;
  `BillInv`, an answer about to be recorded is one the provider sends for some tokens, of
  which each adapter makes disjoint buckets (`BucketsAreTokens`), a row is off by half a unit at
  most (`RoundedIsNear`), and there are no more rows than ended calls.
- **ServicesProofs**, the placement: `BookIsSound`, `SalesMakeNoLoss`, `CyclesAlwaysPair`,
  `CyclesAreSound`, of `GridInv`. A step passes a record (the ledger, the two tables, the guard's
  cache) from placement to placement, so most of the proof is about folds over such desks, and
  `IsDesk` is what each of them keeps: an order on record has a level of its coin's anchor (`IsBook`),
  the ledger's fills and trades belong to orders on record, of an amount that is the
  order's (`FillsMatch`, `TradesMatch`), and the guard remembers no basis but the one the recorded
  trades give (`BasisIsKnown`), from which `SalesMakeNoLoss` follows. `Capped` is the six caps. Their
  inventory part is about a sum over coins of a replay of their trades: a BUY that fills adds to the cost what the
  open order bound, and its fee, which the caps do not count (hence the allowance
  for fees in `CapsHold`); a SELL never raises it. `StarvedBookIsEmpty` needs that a step which
  sees orders forgets the count. For cycles, the matching so far has paired disjoint trades, and a BUY
  a SELL could close is only left when the SELL came before it. That a cycle counted as the engine's
  own closes the BUY its SELL answers is true only of `AmountsTellLevels`: with two levels
  whose orders have one amount, first in first out may pick the BUY of the other level.
- **PendingCommandsProofs**: `TypeCorrect`, `RunsAtMostOnce`, `RunsOnlyApproved`,
  `ClaimsInTime`, `FirstDecisionStands`. `IInv` says what the triggers protect,
  what a claim fixes, and that every copy of a row held in memory still has that
  row's TTL, that its decision is the holder's own, and that one daemon acts on a command.
- **NotificationDeliveryProofs**: `TypeCorrect`, `NeverPostedTwice`,
  `StatesTruthful`, `FinalStatesStay`. `IInv` says that a row in work has one
  holder, whose attempt number is the row's unless the lease has run out, and
  what each state, position and answer knows about the channel.
- **LiveSessionProofs**: `TypeCorrect`, `GuardedOrders`, `CapStopsOrders`,
  `ApprovalsAreCurrent`. `ShutdownOK`: a shutdown that has not failed has at
  least as many orders left to cancel as rest. `GateOK`: while a loss persists the
  tick's tickers show it, and after a whole tick of it the gate is shut and no
  valuation opens it. `FloorOK`: an approval from a time that was not watched is
  behind a shut gate or the floor.
- **GridEngineProofs**: `TypeCorrect`, `NoTradeForgotten`, `RecordsAreTrue`,
  `OneCounterOnly`, `GivenUpIsPaged`, `AnchorsOnEmptyBook`, all from one invariant.
  `TablesOK`: an order is on record only once placed. `JobOK`: what the running job
  will record as ended has left the exchange; what it will persist as cancelled
  was cancelled by the engine; a cancel that has not failed leaves nothing live,
  which is why an anchor may be saved. `CountersOK`: a counter is queued or
  attempted but never both, its parent's end is on record, so that no second detection
  finds the parent. `LoudOK`: a given-up fill is told of or still to be told of when
  the step ends.
- **SharedConnectionProofs**: `ClaimsAreKept`. `TurnsOK`: whoever works in a cycle
  holds the lock. `WriterOK`: an open transaction is the work of a task that has not
  returned, and only a claim in its last statements has changed the claims.
  `ClaimOK` says of each statement of a claim what draft and file hold. Without
  `LoopsApart` it is false: dropping the lock is the mutant of the run.

Assumptions on constants, each an ASSUME that TLC evaluates in the runs:
`UpkeepAssumption` (an interval, a number of copies and a horizon that are positive:
retention days are validated to 1..3650, but `keep_n_daily_backups` and
`min_backup_interval_hours` may be 0, which switches the feature off; with an interval of 0 a
failed copy unlinks a good one of the same minute), `SessionsAssumption`
(`held_reminder_seconds` is validated to be positive), `LegacyAssumption` (results of
an earlier release have no `submission_state`; "none" is no daemon), `HistoryAssumption`
(the horizon is at least 1, the interval of a backfill is one the table knows),
`WatchAssumption` (timer, timeout and streak are positive), `AdviceAssumption` (an
opinion that is not silent proposes an integer, money is counted in units, there are
finitely many slots and at least one), `ChatAssumption` (the fixed grammar knows commands
and queries), `BillsAssumption` (the price table lists models of the four providers, its
input and output rates are positive, no rate for reasoning is 0, and the two providers that
report thoughts as output have none), `PlacementAssumption` (prices, spacing and number of
levels are positive and the lowest level of a grid is above 0, caps, fees and the order size
are natural: what `CoinGridConfig` and `SafetyCapsConfig` validate), `ListsAssumption` (pages are
not empty, wanted entries are entries), and the types in `ConstantsAssumption` and
`KrakenKeyAssumption`.

## 5. Model-checked only

- All liveness: `ClaimSettles`, `CommandSettles`, `Settles`, `FillsSettle`, `LossEndsSession`,
  `LastWordIsTrue`, `ServesAgain`. The prover has no ENABLED, on which fairness rests.

Every safety property of a passing run is stated by a theorem. That TradeMath's folds compute
what a reference definition computes is not a theorem: what is proved of them is what the
invariants need (a basis is natural, grows by a BUY's cost, shrinks by a SELL; pairs are disjoint).

## 6. Where the code and its documents disagree

With a run that shows it:

- `grid_counter`, `CounterFires`: `_detect_fills` loses the fills it has already closed when a
  later candidate raises, so their counter-order is never attempted;
  `docs/architecture/decisions.md:3631-3632` says it fires exactly once.
- `grid_window`, `WindowFillRecovered`: a fill between fetch and cancel is stored as canceled
  with the old filled amount and never looked at again, by `cancel_open_orders` and
  by the shutdown's `_cancel_all_open`; the docstrings at
  `services/grid_engine.py:802-806` and `cli/live.py:211-213` say the reconciler recovers it.
- `liquidity_floor`, `FloorKept`: only the proposing tick looks at
  `min_exchange_liquidity_usd`; a proposal approved later is executed against the balance
  of that moment, below the threshold `docs/planning/requirements.md:76-82` promises.
- `false_gap`, `GapIsReal`: the audit reads the trades, then the open orders; a fill saved
  and closed in between is paged as missing, the page the module's docstring says
  the open-order check prevents.
- `shared_write`, `ReturnedIsSaved`: a rollback of one task takes along what another task of the
  process has written on the shared connection, whose `commit` then succeeds;
  `ports/storage.py:924` promises an error when a save fails.

Seen while modelling and not given a run:

- Delivery: the Gateway sender records a failure before any send as `uncertain`,
  never retried (`adapters/discord_transport.py:503-521`), where
  `docs/architecture/decisions.md:3822-3824` promises retries for known pre-connect
  failures. A Retry-After stored by one sender does not stop the other one, which
  claimed its row before.
- Grid engine: after a failed trade-history fetch, a lost cancel reply or a failed
  save, the engine's own cancels look like external ones and hold the symbol, which
  the comment at `services/grid_engine.py:372-376` rules out. An order whose save fails
  rests untracked. The inventory caps ignore owed trade rows and fees, the daily
  spend ignores partial fills of cancelled orders.
- Live session: a first ping that fails leaves orders unguarded although
  `docs/architecture/decisions.md:1418-1420` calls the timer's prior value protective. In
  a back-off or with a dead key, ticks check no loss while re-anchors still
  run. A cap trip that cannot be recorded leaves the next session without its
  cool-down, and every restart takes a fresh baseline.
- Kraken adapter: separate processes that share a key draw nonces independently.
- Paper trading: `place_order` looks at the total balance, not at what other orders
  lock, until `get_balances` raises; a restart reconciles against an empty exchange
  (`cli/shadow.py:455-460`); the fee rate of one order stays for the next fill.
- Harvest: the notification goes out before the proposal is saved, open proposals are
  not told apart, and an unreadable history counts as nothing withdrawn.
- Models: the session tracker is made once per daemon (`cli/advise.py:812`), where ADR-014
  has it reset per invocation; an answer whose row cannot be written ends the daemon;
  `_call_expert` says it never raises, but a cap or storage error leaves the gather.
- Settings: a crash between rewrite and audit row leaves a change without one; two
  terminals lose updates.
- Price history: the bar in progress is stored by a gap fill or `--backfill` and, being
  ignored on conflict, never corrected (`services/backfill.py:119`). After a failed gap
  fill the polls move the cursor past the gap.
- Health: the heartbeat tracker of `cli/operator` may lose an alert and says nothing of an
  unknown daemon.
- Operator daemon: message handlers are not among the tasks it waits for, so one may
  find the storage closed.
- Backups: a backup cut short by a kill leaves a young file, which the next start
  takes for the day's backup.
- Key watch: `PagedBeforeRetired` holds exactly when the timer is longer than the failing
  rounds of the alert, `StreakAlert * (2 * Slow + 1)` ticks (windows of 10 and 16 ticks hold with
  timeouts of 1 and 2, windows of 9 and 15 do not). The defaults are on the wrong side: with
  a tick of 5 s, timeouts of 10 s and a timer of 60 s (`config/cli.py:153`, `config/kraken.py:18`),
  three resets and the fetches between them that all time out take 75 s to the alert of
  `_DMS_FAILURE_STREAK_ALERT` (`cli/live.py:455`), and Kraken's timer runs out after 60 s, while the
  docstring at `cli/live.py:482` says the escalation pages "before Kraken retires the book"; the
  validator (`config/cli.py:216-225`) asks for no more than 10 s and two ticks. The run's instance
  and the theorem have the condition.
- Engine state: a re-anchor of a coin with `enabled: false` lays out a grid that no step
  watches (`services/grid_engine.py:1011-1022`). `offside_since` is stamped with the time of the boot when no row was restored,
  where the docstring at `services/grid_engine.py:139-142` says None. The comments at
  `services/grid_engine.py:360-369` call pauses per-session, while `cli/live.py:1671` restores them. A
  pause whose emit failed, or that a crash precedes, is lost at the restart; after a failed
  restore the first emit overwrites the persisted pause.
- Kraken's histories: a trade read twice at a page boundary counts twice for
  `volume_covers`; the limit of a walk counts repetitions, which may push out entries
  that were asked for.
- Migrations: an old release, rolled back to after the migration, writes `failed` rows that
  block nothing until the next connect.
- Status report: the anchor is saved before the reply is posted, and by an explicit
  lookback too; `hours = int(delta // 3600)` floors, where the comment says "round up"
  (`services/operator_service.py:786-788`); the tallies count at most 20 fills, 10 news and 5
  proposals; one unreadable database fails the whole report, although the comment at
  `services/operator_service.py:665-667` has sections degrade.
- Chat: `fetch_channel_history` calls `history(limit, oldest_first=True)`, which pages from
  the oldest message, while its docstring says "most-recent" (`adapters/discord_transport.py`). A message stored before the backfill reads
  its last turn hides those missed before it; one that arrives in between is stored twice.
- Model bills: `estimate_cost_ceiling` prices the prompt at the input rate, while Anthropic's
  cache writes cost more and Gemini's thoughts come on top; a request that timed out but
  that the provider billed gets a row of cost zero.

## 7. Limits

GridEngine has one symbol and leaves out the disabled coin and the 10 000-row
window of `get_trades`; a placement and its save are one step with failure variants.
GridPlacement takes a step to be atomic, which the asynchronous engine is not:
what may happen between two awaits is GridEngine's subject.
Two sessions of `cli/live` at once are not modelled: one trader key, one
container. An AddOrder still under way when a later call is answered is excluded
by Kraken's nonces. A new session counts its loss from its own start.
EngineState leaves out the starvation fields of its rows, OperatorChat a Gateway connection
that drops and resumes within one start, ModelBills a reasoning rate of zero, which no
entry of the table has and which would fall back to the output rate. LlmCalls takes the cost of an
answer to be no more than its estimate. WalkComplete speaks of walks whose list fits their limits.
Money is whole numbers; Decimals, rounding to a pair's precision and token prices
are left out. Confirmation views, rendering, and the components marked
`not_modelled` in `PROJECT.json` are outside, each with its reason there.
