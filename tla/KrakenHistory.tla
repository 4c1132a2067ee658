--------------------------- MODULE KrakenHistory ---------------------------
(***************************************************************************)
(* The walks over Kraken's paged lists: get_trade_history, from which the  *)
(* engine resolves fills, and get_ledger_entries, which the ledger sync of *)
(* cli/maintenance stores.  A page is asked for by its offset from the     *)
(* newest entry, so whatever arrives between two pages moves the rest.     *)
(*                                                                         *)
(* Entries are numbered as they arrive; one list stands for both, and one  *)
(* walk is under way at a time, since the two only read and share nothing. *)
(***************************************************************************)
EXTENDS Integers, FiniteSetsExt

CONSTANTS
    MaxEntries,   \* bound of the list
    Orders,
    OrderOf,      \* [entry -> the order it is a trade of]
    PageSize,     \* 50, Kraken's
    MaxPages,     \* _TRADES_HISTORY_MAX_PAGES, _LEDGERS_MAX_PAGES, 20
    Limit,        \* [kind -> limit of the caller: 100 trades, 5000 entries]
    Wanted        \* [kind -> the entries asked for: a symbol's trades, all of the ledger]

VARIABLES
    newest,       \* Kraken's list holds 1..newest
    walk,         \* the walk under way
    ledger        \* table ledger_entries

vars == <<newest, walk, ledger>>

Kinds == {"trades", "ledger"}
NoCount == -1
Entries == 1..MaxEntries

(* got: how often the walk has read each entry *)
NoWalk == [kind |-> "none", pc |-> "none", offset |-> 0, pages |-> 0,
           got |-> [t \in Entries |-> 0], count |-> NoCount, since |-> 0]

----------------------------------------------------------------------------
Begin(kind) ==
    /\ walk.pc = "none"
    /\ walk' = [NoWalk EXCEPT !.kind = kind, !.pc = "page", !.since = newest]
    /\ UNCHANGED <<newest, ledger>>

Page(offset) == {t \in 1..(newest - offset) : t > newest - offset - PageSize}

AdvanceByOne(page) == 1
Advance(page) == Cardinality(page)

ReadOf(w, S) == MapThenSumSet(LAMBDA t : w.got[t], S)

Over(w, page) ==
    \/ page = {}
    \/ w.count # NoCount /\ w.offset >= w.count
    \/ ReadOf(w, Entries) >= Limit[w.kind]
    \/ w.pages = MaxPages

(* sort, newest first, and cut: an entry stays as often as the newer ones  *)
(* leave room for it                                                       *)
Room(w, t) == Limit[w.kind] - ReadOf(w, (t + 1)..MaxEntries)
Sorted(w) ==
    [t \in Entries |-> IF Room(w, t) >= w.got[t] THEN w.got[t]
                       ELSE IF Room(w, t) > 0 THEN Room(w, t) ELSE 0]

Listed(w) == {t \in Entries : w.got[t] > 0}

(* The total is taken from the first page that gives a finite one. *)
ReadPage ==
    /\ walk.pc = "page"
    /\ \E count \in {newest, NoCount} :
         LET page == Page(walk.offset)
             next == [walk EXCEPT !.offset = @ + Advance(page), !.pages = @ + 1,
                                  !.got = [t \in Entries |->
                                     IF t \in page \intersect Wanted[walk.kind] THEN @[t] + 1
                                                                              ELSE @[t]],
                                  !.count = IF @ = NoCount /\ page # {} THEN count ELSE @]
         IN walk' = IF Over(next, page) THEN [next EXCEPT !.pc = "done", !.got = Sorted(next)]
                    ELSE next
    /\ UNCHANGED <<newest, ledger>>

(* A refused, lost or malformed page fails the whole walk, and so does a   *)
(* failed save; a strike against the key is KeyWatch's subject.            *)
WalkFails ==
    /\ walk.pc # "none"
    /\ walk' = NoWalk
    /\ UNCHANGED <<newest, ledger>>

----------------------------------------------------------------------------
(* save_ledger_entries: one transaction, a row per id of Kraken's *)
SaveEntries ==
    /\ walk.pc = "done" /\ walk.kind = "ledger"
    /\ ledger' = ledger \union Listed(walk)
    /\ walk' = NoWalk
    /\ UNCHANGED newest

(* volume_covers over the trades of an order: the sum of their volumes,    *)
(* each one unit here, whatever stands in the list twice counted twice.    *)
TradesOf(order) == {t \in Wanted["trades"] : OrderOf[t] = order}
Attributed(order) == ReadOf(walk, TradesOf(order))
Covers(order) == Attributed(order) >= Cardinality(TradesOf(order))

EndDetection ==
    /\ walk.pc = "done" /\ walk.kind = "trades"
    /\ walk' = NoWalk
    /\ UNCHANGED <<newest, ledger>>

Arrive ==
    /\ newest < MaxEntries
    /\ newest' = newest + 1
    /\ UNCHANGED <<walk, ledger>>

Init ==
    /\ newest = 0
    /\ walk = NoWalk
    /\ ledger = {}

Next ==
    \/ \E kind \in Kinds : Begin(kind)
    \/ ReadPage \/ WalkFails \/ SaveEntries \/ EndDetection \/ Arrive

Spec == Init /\ [][Next]_vars

----------------------------------------------------------------------------
(* Properties. *)

Arrived == newest - walk.since
Roomy ==
    /\ walk.since <= MaxPages * PageSize
    /\ Cardinality(Wanted[walk.kind] \intersect 1..walk.since) <= Limit[walk.kind]

(* A walk over a list that fits its limits misses, of the wanted entries   *)
(* that were there when it began, at most as many of the oldest as arrived *)
(* during it, whichever of them its pages, its count or its cut leaves     *)
(* out: the sync, which keeps no watermark and reads everything again each *)
(* day, has all of it after one undisturbed walk.                          *)
Older(t) == Wanted[walk.kind] \intersect 1..t

WalkComplete ==
    walk.pc = "done" /\ Roomy =>
        \A t \in Older(walk.since) : Cardinality(Older(t)) > Arrived => t \in Listed(walk)

(* What an undisturbed walk calls covered, it has every trade of.  (With   *)
(* an arrival between two pages a trade is read twice and counts twice.)   *)
CoverageSound ==
    walk.pc = "done" /\ walk.kind = "trades" /\ Arrived = 0 =>
        \A order \in Orders : Covers(order) => TradesOf(order) \subseteq Listed(walk)

=============================================================================
