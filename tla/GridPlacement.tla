---------------------------- MODULE GridPlacement ----------------------------
(***************************************************************************)
(* Where, how large and whether: the placement policy of GridEngine over   *)
(* several coins, run as cli/shadow runs it, in series over the symbols of *)
(* a tick, against the synthetic ledger.  Every placement passes the six   *)
(* safety caps, then the cost-basis sell guard, then the exchange.         *)
(*                                                                         *)
(* GridEngine models what this leaves out: faults, partial fills, outside  *)
(* cancels and operator commands, for one coin and without prices.  A step *)
(* runs whole here: the synthetic ledger moves only when a price is        *)
(* fetched, and the tape is taken to stand still from the first step of a  *)
(* tick to the last.                                                       *)
(***************************************************************************)
EXTENDS ShadowExchange, FiniteSets

CONSTANTS
    Symbols,       \* the configured coins, in order
    Prices,        \* what the tape of each coin may show
    StartUsd, StartBase,                  \* initial_balances
    SpacingPercent, Above, Below, TopSell,     \* CoinGridConfig
    OrderSize,     \* order_size_usd
    Caps,          \* SafetyCapsConfig
    MaxLossPercent, MakerFee, TakerFee,
    MaxSessionLoss,
    RetryEvery,    \* STARVED_RETRY_EVERY_TICKS
    MaxTicks, MaxDays                     \* bounds of a behaviour

Coins == Range(Symbols)

VARIABLES
    tape,      \* the live price of each coin
    day,       \* the UTC day
    ledger,    \* the synthetic exchange
    orders,    \* the orders table; an order's id is its place in it
    trades,    \* the trades table
    anchor,    \* grid_state: reference price of a coin, 0 when there is none
    cache,     \* SellGuard._basis_cache, a set of at most one basis per coin
    starved,   \* GridEngine._starved: the ticks, 0 when the coin is absent
    session    \* the daemon: its state, the value it began with, its place in the tick

vars == <<tape, day, ledger, orders, trades, anchor, cache, starved, session>>

Levels(s) == GridLevels(s, anchor'[s], SpacingPercent, Above, Below)

Fresh == NewLedger(StartUsd, StartBase, MakerFee)

Session(state, worth) == [state |-> state, began |-> worth, turn |-> 1, ticks |-> 0]

----------------------------------------------------------------------------
(* Placing one order.  w carries what a step changes: the ledger, the two  *)
(* tables, the guard's cache and the tally of the layout.                  *)

(* A variant: only the caps of the coin are checked. *)
SafetyRefusesPerCoin(w, level, amount) ==
    LET s == level.symbol
        proposed == level.price * amount
        coinOpen == Of(s, OpenOrders(w.orders))
    IN \/ Cardinality(coinOpen) + 1 > Caps.ordersPerCoin
       \/ Notional(coinOpen) + proposed > Caps.coinExposure

SafetyRefuses(w, level, amount) ==
    LET s == level.symbol
        proposed == level.price * amount
        open == OpenOrders(w.orders)
        coinOpen == Of(s, open)
    IN \/ Cardinality(coinOpen) + 1 > Caps.ordersPerCoin
       \/ Notional(coinOpen) + proposed > Caps.coinExposure
       \/ Notional(open) + proposed > Caps.totalExposure
       \/ /\ level.side = "buy"
          /\ \/ DailySpend(w.orders, day) + proposed > Caps.dailySpend
             \/ InventoryCost(w.trades, s) + Notional(Buys(coinOpen)) + proposed
                   > Caps.coinInventory
             \/ TotalInventoryCost(w.trades) + Notional(Buys(open)) + proposed
                   > Caps.totalInventory

(* SellGuard._basis_for: replayed once, then remembered until invalidated. *)
Basis(w, s) ==
    IF w.cache[s] # {} THEN w.cache[s]
    ELSE {ReplayAverageCost(Of(s, w.trades))}

Tally(w, what) == [w EXCEPT !.placed = IF what = "placed" THEN @ + 1 ELSE @]

PlaceLevel(w, o) ==
    LET priced == Priced(w.x, w.orders, o, tape[o.symbol], MakerFee, TakerFee)
        x == Accept(priced, w.orders, o)
        status == IF o.id \in x.resting THEN "open" ELSE "closed"
    IN IF Affordable(priced, o)
       THEN Tally([w EXCEPT !.x = x, !.orders = Append(@, [o EXCEPT !.status = status])],
                  "placed")
       ELSE [w EXCEPT !.x = priced]

TryPlace(w, level, amount, parent) ==
    LET s == level.symbol
        o == [id |-> Len(w.orders) + 1, symbol |-> s, side |-> level.side,
              price |-> level.price, amount |-> amount, status |-> "pending",
              day |-> day, parent |-> parent]
        basis == Basis(w, s)
        guarded == [w EXCEPT !.cache[s] = basis]
    IN IF SafetyRefuses(w, level, amount) THEN w
       ELSE IF level.side = "buy" THEN PlaceLevel(w, o)
       ELSE IF \E b \in basis : SellAllowed(level.price, b, MaxLossPercent, MakerFee)
            THEN PlaceLevel(guarded, o)
            ELSE guarded

PlaceSlot(level, w) == TryPlace(w, level, OrderSize \div level.price, 0)

PlaceLayout(w, s) == InOrder(PlaceSlot, [w EXCEPT !.placed = 0], Dearest, Levels(s))

----------------------------------------------------------------------------
(* A step of one coin. *)

Candidates(w, s) == {o \in Of(s, OpenOrders(w.orders)) : o.id \notin w.x.resting}

(* A variant: a fill does not invalidate the guard's basis. *)
RecordFillUnnoticed(o, w) ==
    [w EXCEPT !.orders[o.id].status = "closed",
              !.trades = @ \union {t \in w.x.fills : t.order = o.id}]

(* save_fill, then SellGuard.invalidate                                    *)
RecordFill(o, w) ==
    [w EXCEPT !.orders[o.id].status = "closed",
              !.trades = @ \union {t \in w.x.fills : t.order = o.id},
              !.cache[o.symbol] = {}]

DetectFills(w, s) == InOrder(RecordFill, w, Youngest, Candidates(w, s))

PlaceCounter(o, w) ==
    LET spacing == GridSpacing(anchor[o.symbol], SpacingPercent)
        ceiling == Dearest(Levels(o.symbol)).price
    IN TryPlace(w, CounterLevel(o, spacing, TopSell, ceiling), o.amount, o.id)

Now(x) == [x |-> x, orders |-> orders, trades |-> trades, cache |-> cache, placed |-> 0]

Become(w) ==
    /\ ledger' = w.x
    /\ orders' = w.orders
    /\ trades' = w.trades
    /\ cache' = w.cache

(* A variant: a coin once starved stays so. *)
NoteOutcomeForGood(w, n) == IF n = 0 /\ w.placed = 0 THEN 1 ELSE n

(* _note_layout_outcome, of a layout that found the coin starved for n     *)
NoteOutcome(w, n) == IF w.placed > 0 THEN 0 ELSE IF n = 0 THEN 1 ELSE n

Initialize(s, x) ==
    /\ anchor[s] = 0
    /\ anchor' = [anchor EXCEPT ![s] = tape[s]]
    /\ LET w == PlaceLayout(Now(x), s)
       IN /\ Become(w)
          /\ starved' = [starved EXCEPT ![s] = NoteOutcome(w, @)]

Offside(s, x) ==
    /\ IsOffside(tape[s], Levels(s))
    /\ Become(DetectFills(Now(x), s))
    /\ UNCHANGED starved

StoredBook(w, s) == Of(s, OpenOrders(w.orders))

(* Starved, a layout is tried only every RetryEvery-th tick.               *)
Onside(s, x) ==
    /\ ~IsOffside(tape[s], Levels(s))
    /\ LET fills == Candidates(Now(x), s)
           countered == InOrder(PlaceCounter, DetectFills(Now(x), s), Youngest, fills)
           n == IF starved[s] = 0 THEN 0 ELSE starved[s] + 1
           laid == PlaceLayout(countered, s)
       IN \/ /\ StoredBook(countered, s) # {}
             /\ Become(countered)
             /\ starved' = [starved EXCEPT ![s] = 0]
          \/ /\ StoredBook(countered, s) = {}
             /\ n % RetryEvery # 0
             /\ Become(countered)
             /\ starved' = [starved EXCEPT ![s] = n]
          \/ /\ StoredBook(countered, s) = {}
             /\ n % RetryEvery = 0
             /\ Become(laid)
             /\ starved' = [starved EXCEPT ![s] = NoteOutcome(laid, n)]

Running == session.state = "running"

BetweenSteps == session.turn \in {1, Len(Symbols) + 1}

Step ==
    /\ Running
    /\ session.turn <= Len(Symbols)
    /\ session' = [session EXCEPT !.turn = @ + 1]
    /\ LET s == Symbols[session.turn]
           x == Pump(ledger, orders, s, tape[s])
       IN \/ Initialize(s, x)
          \/ /\ anchor[s] # 0
             /\ UNCHANGED anchor
             /\ Offside(s, x) \/ Onside(s, x)
    /\ UNCHANGED <<tape, day>>

----------------------------------------------------------------------------
(* The session around the steps. *)

(* _shadow_portfolio_value_usd: the balances first, then a price for every *)
(* coin held, each one pumped into the matcher.                            *)
PumpCoin(n, x) == Pump(x, orders, Symbols[n], tape[Symbols[n]])

Valued(x) == InOrder(PumpCoin, x, Max, {n \in DOMAIN Symbols : x.base[Symbols[n]] > 0})

CancelAllOpen(x) ==
    /\ ledger' = [x EXCEPT !.resting = {}]
    /\ orders' = [i \in DOMAIN orders |->
                    IF i \in x.resting THEN [orders[i] EXCEPT !.status = "canceled"]
                                       ELSE orders[i]]

Ended(x) == session' = [session EXCEPT !.state = "stopped"] /\ CancelAllOpen(x)

LossExceeded == PortfolioValue(ledger, tape) < session.began - MaxSessionLoss

EndTick ==
    /\ Running
    /\ session.turn > Len(Symbols)
    /\ ~BalancesRaise(ledger, orders)
    /\ LET x == Valued(ledger)
       IN \/ /\ LossExceeded
             /\ ~BalancesRaise(x, orders)
             /\ Ended(Valued(x))
          \/ /\ ~LossExceeded
             /\ session.ticks < MaxTicks
             /\ ledger' = x
             /\ session' = [session EXCEPT !.turn = 1, !.ticks = @ + 1]
             /\ UNCHANGED orders
    /\ UNCHANGED <<tape, day, trades, anchor, cache, starved>>

(* SIGTERM, or the runtime limit, between two ticks                        *)
StopRequested ==
    /\ Running
    /\ session.turn = 1
    /\ ~BalancesRaise(ledger, orders)
    /\ Ended(Valued(ledger))
    /\ UNCHANGED <<tape, day, trades, anchor, cache, starved>>

(* The process is killed; or the balances do not add up, the error is not  *)
(* one the loop or its cleanup expects and nothing is cancelled.           *)
Die ==
    /\ Running /\ BetweenSteps
    /\ session' = [session EXCEPT !.state = "dead"]
    /\ UNCHANGED <<tape, day, ledger, orders, trades, anchor, cache, starved>>

(* A new process: a new ledger and no memory; the tables and anchors are   *)
(* the old ones.  Reconciliation asks the ledger for every order the table *)
(* has open, and the new ledger knows none of them: it refuses to start.   *)
Boot ==
    /\ session.state \in {"stopped", "dead"}
    /\ session.ticks < MaxTicks
    /\ ledger' = [Fresh EXCEPT !.clock = ledger.clock]
    /\ cache' = [s \in Coins |-> {}]
    /\ starved' = [s \in Coins |-> 0]
    /\ session' = IF OpenOrders(orders) # {} THEN Session("refused", 0)
                  ELSE [Session("running", PortfolioValue(Fresh, tape))
                          EXCEPT !.ticks = session.ticks + 1]
    /\ UNCHANGED <<tape, day, orders, trades, anchor>>

----------------------------------------------------------------------------
(* The world. *)

MoveTape(s, p) ==
    /\ Running /\ BetweenSteps
    /\ tape[s] # p
    /\ tape' = [tape EXCEPT ![s] = p]
    /\ UNCHANGED <<day, ledger, orders, trades, anchor, cache, starved, session>>

Midnight ==
    /\ session.turn = 1
    /\ day < MaxDays
    /\ day' = day + 1
    /\ UNCHANGED <<tape, ledger, orders, trades, anchor, cache, starved, session>>

Init ==
    /\ tape \in {t \in [Coins -> UNION Range(Prices)] : \A s \in Coins : t[s] \in Prices[s]}
    /\ day = 1
    /\ ledger = Fresh
    /\ orders = <<>>
    /\ trades = {}
    /\ anchor = [s \in Coins |-> 0]
    /\ cache = [s \in Coins |-> {}]
    /\ starved = [s \in Coins |-> 0]
    /\ session = Session("running", PortfolioValue(Fresh, tape))

Next ==
    \/ Step \/ EndTick \/ StopRequested \/ Die \/ Boot
    \/ \E s \in Coins : \E p \in Prices[s] : MoveTape(s, p)
    \/ Midnight

Spec == Init /\ [][Next]_vars

----------------------------------------------------------------------------
(* Properties. *)

Fees(s) == SumOf([t \in Of(s, trades) |-> t.fee + 1])

(* The caps hold of the whole book at every moment, not only of the order  *)
(* being placed: counters, layouts of other coins, fills and restarts      *)
(* included.  The two inventory caps hold up to the fees (and the rounding *)
(* of a sale), which join the cost basis only when a BUY has filled.       *)
CapsHold ==
    LET open == OpenOrders(orders)
    IN /\ Notional(open) <= Caps.totalExposure
       /\ DailySpend(orders, day) <= Caps.dailySpend
       /\ TotalInventoryCost(trades) + Notional(Buys(open))
             <= Caps.totalInventory + SumOf([s \in Coins |-> Fees(s)])
       /\ \A s \in Coins :
            /\ Cardinality(Of(s, open)) <= Caps.ordersPerCoin
            /\ Notional(Of(s, open)) <= Caps.coinExposure
            /\ InventoryCost(trades, s) + Notional(Buys(Of(s, open)))
                  <= Caps.coinInventory + Fees(s)

(* No SELL is placed below what the recorded trades say the coin cost: the *)
(* basis the guard remembers is never older than the fills it should know. *)
NoLossSale ==
    [][\A i \in DOMAIN orders' \ DOMAIN orders :
          LET o == orders'[i]
          IN o.side = "sell" =>
                SellAllowed(o.price, ReplayAverageCost(Of(o.symbol, trades')),
                            MaxLossPercent, MakerFee)]_vars

(* A trade is in one cycle at most, a cycle buys before it sells and below *)
(* its price, and no SELL stays unpaired beside a BUY it could close.      *)
CyclesPair ==
    LET cycles == MatchCycles(trades)
        paired(t) == \E c \in cycles : t \in {c.buy, c.sell}
    IN /\ \A c \in cycles :
            /\ {c.buy, c.sell} \subseteq trades
            /\ c.buy.side = "buy" /\ c.sell.side = "sell"
            /\ c.buy.symbol = c.sell.symbol
            /\ c.buy.price < c.sell.price
            /\ c.buy.at < c.sell.at
            /\ \A d \in cycles : d # c => d.buy # c.buy /\ d.sell # c.sell
       /\ \A sell, buy \in trades :
            (/\ sell.side = "sell" /\ buy.side = "buy" /\ buy.symbol = sell.symbol
             /\ buy.at < sell.at /\ buy.price < sell.price /\ ~paired(buy))
                => paired(sell)

(* A cycle said to be the engine's own closes the very kind of BUY its     *)
(* SELL was the counter of: the amounts tell the BUYs apart.               *)
CountersTell ==
    \A c \in MatchCycles(trades) :
        LET parent == orders[c.sell.order].parent
        IN c.counter /\ parent # 0 => orders[parent].price = c.buy.price

CyclesSound == CyclesPair /\ CountersTell

(* A coin counted as starved has nothing in its book, through fills,       *)
(* offside spells and the back-off: a coin with an order standing is never *)
(* held in the back-off that skips its layouts.                            *)
StarvedBookIsEmpty ==
    \A s \in Coins : starved[s] > 0 => Of(s, OpenOrders(orders)) = {}

=============================================================================
