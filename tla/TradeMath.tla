------------------------------ MODULE TradeMath ------------------------------
(***************************************************************************)
(* The arithmetic the grid trades by: where the levels and the counters    *)
(* go, what the recorded trades say a coin cost, what the open orders bind *)
(* and which trades make a cycle.  Prices, amounts and money are integers  *)
(* where the program has Decimals; a quotient is rounded down.             *)
(*                                                                         *)
(* An order is [id, symbol, side, price, amount, status, day, parent]; a   *)
(* trade is [at, order, symbol, side, price, amount, fee], where at        *)
(* numbers the fills in the order they happened; a level is a coin, a side *)
(* and a price.  What the program goes through in an order is a fold over  *)
(* a set, which names the element that comes last.                         *)
(***************************************************************************)
EXTENDS Integers, Sequences, FiniteSetsExt, Functions

(* Step(e, w) for the elements e of S one after the other, Last(S) last.   *)
InOrder(Step(_, _), w, Last(_), S) == MapThenFoldSet(Step, w, LAMBDA e : e, Last, S)

Youngest(os) == CHOOSE o \in os : \A p \in os : p.id <= o.id
Latest(ts) == CHOOSE t \in ts : \A u \in ts : u.at <= t.at
Oldest(ts) == CHOOSE t \in ts : \A u \in ts : t.at <= u.at
Dearest(levels) == CHOOSE l \in levels : \A k \in levels : k.price <= l.price

SumOf(w) == MapThenSumSet(LAMBDA e : w[e], DOMAIN w)

----------------------------------------------------------------------------
(* Levels. *)

Level(symbol, side, price) == [symbol |-> symbol, side |-> side, price |-> price]

GridSpacing(reference, percent) == (reference * percent) \div 100

(* BUYs below the reference and SELLs above it.                            *)
GridLevels(symbol, reference, percent, above, below) ==
    LET delta == GridSpacing(reference, percent)
    IN {Level(symbol, "buy", reference - n * delta) : n \in 1..below}
          \union {Level(symbol, "sell", reference + n * delta) : n \in 1..above}

CounterLevel(filled, spacing, topSell, ceiling) ==
    IF filled.side = "sell" THEN Level(filled.symbol, "buy", filled.price - spacing)
    ELSE IF topSell THEN Level(filled.symbol, "sell", ceiling)
    ELSE Level(filled.symbol, "sell", filled.price + spacing)

(* below the lowest level or above the highest *)
IsOffside(price, levels) ==
    (\A l \in levels : price < l.price) \/ (\A l \in levels : price > l.price)

----------------------------------------------------------------------------
(* Cost basis: the quantity held and what it cost, at average cost.        *)

NoBasis == [quantity |-> 0, cost |-> 0]

Absorb(t, basis) ==
    IF t.side = "buy"
    THEN [quantity |-> basis.quantity + t.amount,
          cost |-> basis.cost + t.price * t.amount + t.fee]
    ELSE IF t.amount >= basis.quantity THEN NoBasis
    ELSE [quantity |-> basis.quantity - t.amount,
          cost |-> basis.cost - (basis.cost * t.amount) \div basis.quantity]

ReplayAverageCost(trades) == InOrder(Absorb, NoBasis, Latest, trades)

(* loss against the average cost, net of the maker fee, within maxLoss %   *)
SellAllowed(price, basis, maxLoss, makerFee) ==
    \/ basis.quantity = 0
    \/ 100 * basis.cost - price * (100 - makerFee) * basis.quantity
          <= maxLoss * basis.cost

----------------------------------------------------------------------------
(* Exposure. *)

Notional(os) == SumOf([o \in os |-> o.price * o.amount])

OpenOrders(orders) == {o \in Range(orders) : o.status = "open"}

Of(symbol, S) == {e \in S : e.symbol = symbol}
Buys(S) == {e \in S : e.side = "buy"}

SpendCommitted == {"open", "pending", "closed"}

DailySpend(orders, day) ==
    Notional({o \in Buys(Range(orders)) : o.status \in SpendCommitted /\ o.day = day})

InventoryCost(trades, symbol) == ReplayAverageCost(Of(symbol, trades)).cost

TotalInventoryCost(trades) ==
    SumOf([s \in {t.symbol : t \in trades} |-> InventoryCost(trades, s)])

----------------------------------------------------------------------------
(* Cycles. *)

(* A variant: any BUY, whatever it cost. *)
ClosableAtAnyPrice(buys, sell) == Of(sell.symbol, buys)

(* The cheaper BUYs of the SELL's amount, else the cheaper ones.           *)
Closable(buys, sell) ==
    LET cheaper == {b \in Of(sell.symbol, buys) : b.price < sell.price}
        same == {b \in cheaper : b.amount = sell.amount}
    IN IF same # {} THEN same ELSE cheaper

Cycle(buy, sell) ==
    [buy |-> buy, sell |-> sell,
     counter |-> buy.amount = sell.amount,
     pnl |-> (sell.price - buy.price) * sell.amount - buy.fee - sell.fee]

(* One more trade, with the BUYs unpaired so far and the cycles made.      *)
Match(t, acc) ==
    LET buys == Closable(acc.buys, t)
    IN IF t.side = "buy" THEN [acc EXCEPT !.buys = @ \union {t}]
       ELSE IF buys = {} THEN acc
       ELSE [buys |-> acc.buys \ {Oldest(buys)},
             cycles |-> acc.cycles \union {Cycle(Oldest(buys), t)}]

Matching(trades) == InOrder(Match, [buys |-> {}, cycles |-> {}], Latest, trades)

MatchCycles(trades) == Matching(trades).cycles

=============================================================================
