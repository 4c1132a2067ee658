------------------------------ MODULE TradeAudit ------------------------------
(***************************************************************************)
(* The daily trade reconciliation of cli/maintenance: Kraken's trade       *)
(* history is fetched once and compared with the rows another process,     *)
(* cli/live, is writing meanwhile.  A trade without a local row is a gap,  *)
(* unless its order is still open locally: the engine saves trades only    *)
(* when their order has ended, those Kraken does not list yet later.       *)
(***************************************************************************)
EXTENDS Naturals

CONSTANTS Orders, Trades, OrderOf

VARIABLES
    resting,     \* orders on Kraken's book
    executed,    \* trades that took place
    listed,      \* of these, the ones TradesHistory shows
    row,         \* [Orders -> the local order: "none", "open" or "closed"]
    saved,       \* trades in live.db
    marker,      \* [Orders -> pending_fill_trades: "none", "active", "given up"]
    check,       \* the check that is running
    paged        \* trades the last finished check called missing

vars == <<resting, executed, listed, row, saved, marker, check, paged>>
kraken == <<resting, executed, listed>>
store == <<row, saved, marker>>

NoCheck == [pc |-> "idle", snapshot |-> {}, absent |-> {}]
Of(o) == {t \in Trades : OrderOf[t] = o}

----------------------------------------------------------------------------
(* cli/live and Kraken *)

(* The row of a placed order may fail to be saved; and an order may be     *)
(* placed by a script that saves none.                                     *)
Place(o) ==
    /\ row[o] = "none" /\ o \notin resting /\ Of(o) \intersect executed = {}
    /\ resting' = resting \union {o}
    /\ \E r \in {"open", "none"} : row' = [row EXCEPT ![o] = r]
    /\ UNCHANGED <<executed, listed, saved, marker, check, paged>>

Execute(t) ==
    /\ OrderOf[t] \in resting /\ t \notin executed
    /\ executed' = executed \union {t}
    /\ resting' = IF Of(OrderOf[t]) \subseteq executed' THEN resting \ {OrderOf[t]} ELSE resting
    /\ UNCHANGED <<listed, store, check, paged>>

Cancel(o) ==
    /\ o \in resting
    /\ resting' = resting \ {o}
    /\ UNCHANGED <<executed, listed, store, check, paged>>

List(t) ==
    /\ t \in executed \ listed
    /\ listed' = listed \union {t}
    /\ UNCHANGED <<resting, executed, store, check, paged>>

(* save_fill, or save_fill_pending_trades while the history lags *)
Resolve(o) ==
    /\ row[o] = "open" /\ o \notin resting
    /\ LET fills == Of(o) \intersect executed
       IN /\ saved' = saved \union (fills \intersect listed)
          /\ marker' = IF fills \subseteq listed THEN marker ELSE [marker EXCEPT ![o] = "active"]
    /\ row' = [row EXCEPT ![o] = "closed"]
    /\ UNCHANGED <<kraken, check, paged>>

(* _recover_pending_fill_trades *)
Recover(o) ==
    /\ marker[o] = "active"
    /\ LET fills == Of(o) \intersect executed
       IN /\ saved' = saved \union (fills \intersect listed)
          /\ marker' = [marker EXCEPT ![o] = IF fills \subseteq listed THEN "none" ELSE @]
    /\ UNCHANGED <<kraken, row, check, paged>>

GiveUp(o) ==
    /\ marker[o] = "active"
    /\ marker' = [marker EXCEPT ![o] = "given up"]
    /\ UNCHANGED <<kraken, row, saved, check, paged>>

----------------------------------------------------------------------------
(* cli/maintenance *)

(* _fetch_account_snapshot; a failed fetch is the next cycle's. *)
Fetch ==
    /\ check.pc \in {"idle", "reported"}
    /\ check' = [pc |-> "trades", snapshot |-> listed, absent |-> {}]
    /\ UNCHANGED <<kraken, store, paged>>

ReadTrades ==
    /\ check.pc = "trades"
    /\ check' = [check EXCEPT !.pc = "orders", !.absent = check.snapshot \ saved]
    /\ UNCHANGED <<kraken, store, paged>>

(* Whatever order is known here will see to its trades. *)
DeferredKnown(t) == row[OrderOf[t]] # "none"

Deferred(t) == row[OrderOf[t]] = "open"

ReadOrders ==
    /\ check.pc = "orders"
    /\ paged' = {t \in check.absent : ~Deferred(t)}
    /\ check' = [check EXCEPT !.pc = "reported"]
    /\ UNCHANGED <<kraken, store>>

(* A read fails: the symbol counts as neither clean nor dirty. *)
ReadFails ==
    /\ check.pc \in {"trades", "orders"}
    /\ check' = NoCheck
    /\ UNCHANGED <<kraken, store, paged>>

----------------------------------------------------------------------------
Init ==
    /\ resting = {} /\ executed = {} /\ listed = {}
    /\ row = [o \in Orders |-> "none"]
    /\ saved = {}
    /\ marker = [o \in Orders |-> "none"]
    /\ check = NoCheck /\ paged = {}

Next ==
    \/ \E o \in Orders : Place(o) \/ Cancel(o) \/ Resolve(o) \/ Recover(o) \/ GiveUp(o)
    \/ \E t \in Trades : Execute(t) \/ List(t)
    \/ Fetch \/ ReadTrades \/ ReadOrders \/ ReadFails

Spec == Init /\ [][Next]_vars

----------------------------------------------------------------------------
(* Properties. *)

(* No row, and nothing that will write one. *)
Lost(t) == t \notin saved /\ row[OrderOf[t]] # "open" /\ marker[OrderOf[t]] # "active"

(* "Any Kraken trade with no local row and no locally-open order notifies  *)
(* at critical": a check pages every trade of its snapshot that is lost    *)
(* when it ends, those given up after their order was closed included.     *)
LossesPaged ==
    [][check.pc = "orders" /\ check'.pc = "reported"
         => {t \in check.snapshot : Lost(t)} \subseteq paged']_vars

(* "Without it, the daily check would page CRITICAL for correct engine     *)
(* behavior": what a check pages has no row.                               *)
GapIsReal == [][check'.pc = "reported" => paged' \intersect saved = {}]_<<check, paged>>

=============================================================================
