--------------------------- MODULE ShadowExchange ---------------------------
(***************************************************************************)
(* The synthetic ledger of paper trading: ShadowExchangeAdapter over the   *)
(* in-memory matcher of MockExchangeAdapter.  The ledger x holds the total *)
(* balances, the resting orders, every fill, the last price pumped into    *)
(* the matcher and the fee rate the next fill is billed at.  Every price   *)
(* the adapter fetches is pumped into the matcher, which then fills what   *)
(* the price crossed, in the order the orders were placed.                 *)
(***************************************************************************)
EXTENDS TradeMath

NewLedger(usd, base, makerFee) ==
    [usd |-> usd, base |-> base, resting |-> {}, fills |-> {},
     price |-> [s \in DOMAIN base |-> 0], rate |-> makerFee, clock |-> 0]

Fee(x, cost) == (cost * x.rate) \div 100

Crosses(o, price) == IF o.side = "buy" THEN price <= o.price ELSE price >= o.price

(* A full fill at the order's limit price.                                 *)
Fill(o, x) ==
    LET cost == o.price * o.amount
        fee == Fee(x, cost)
    IN [x EXCEPT
          !.usd = IF o.side = "buy" THEN @ - cost - fee ELSE @ + cost - fee,
          !.base[o.symbol] = IF o.side = "buy" THEN @ + o.amount ELSE @ - o.amount,
          !.resting = @ \ {o.id},
          !.clock = @ + 1,
          !.fills = @ \union {[at |-> x.clock + 1, order |-> o.id,
                              symbol |-> o.symbol, side |-> o.side,
                              price |-> o.price, amount |-> o.amount, fee |-> fee]}]

Crossed(x, orders, s) ==
    {o \in Of(s, Range(orders)) : o.id \in x.resting /\ Crosses(o, x.price[s])}

MatchOpenOrders(x, orders, s) == InOrder(Fill, x, Youngest, Crossed(x, orders, s))

(* get_current_price and get_ticker of the shadow adapter                  *)
Pump(x, orders, s, price) == MatchOpenOrders([x EXCEPT !.price[s] = price], orders, s)

(* What place_order requires of the TOTAL balance: what other open orders  *)
(* lock is not taken off it.                                               *)
Affordable(x, o) ==
    IF o.side = "buy" THEN x.usd >= o.price * o.amount + Fee(x, o.price * o.amount)
                      ELSE x.base[o.symbol] >= o.amount

Marketable(o, price) == IF o.side = "buy" THEN o.price >= price ELSE o.price <= price

(* The price is pumped, the fee rate is set for this order and stays, and  *)
(* an order the price already crosses is filled before the call returns.   *)
Priced(x, orders, o, price, maker, taker) ==
    [Pump(x, orders, o.symbol, price) EXCEPT
        !.rate = IF Marketable(o, price) THEN taker ELSE maker]

Accept(x, orders, o) ==
    MatchOpenOrders([x EXCEPT !.resting = @ \union {o.id}], Append(orders, o), o.symbol)

Locked(x, orders) ==
    SumOf([o \in {b \in Buys(Range(orders)) : b.id \in x.resting} |->
             o.price * o.amount + Fee(x, o.price * o.amount)])

LockedBase(x, orders, s) ==
    SumOf([o \in {b \in Of(s, Range(orders)) : b.id \in x.resting /\ b.side = "sell"} |->
             o.amount])

(* get_balances builds a Balance, which refuses a negative available.      *)
BalancesRaise(x, orders) ==
    \/ x.usd < Locked(x, orders)
    \/ \E s \in DOMAIN x.base : x.base[s] < LockedBase(x, orders, s)

PortfolioValue(x, price) == x.usd + SumOf([s \in DOMAIN x.base |-> x.base[s] * price[s]])

=============================================================================
