---------------------------- MODULE HarvestMonitor ----------------------------
(***************************************************************************)
(* cli/harvest proposes, a human approves, days of ticks may lie between:  *)
(* every tick looks at the balance alone and writes a proposal of its own; *)
(* an execution looks at the proposal's age, the balance and the day's     *)
(* cap.  How one execution is claimed and settled is Withdrawal's subject; *)
(* here it is one step, and Kraken always accepts it.                      *)
(*                                                                         *)
(* Amounts are whole; TopupAt + SurplusAt is even.                         *)
(***************************************************************************)
EXTENDS Integers, FiniteSetsExt

CONSTANTS
    Floor, TopupAt, SurplusAt,   \* HarvesterConfig: min_exchange_liquidity_usd, ...
    DayCap,                \* max_withdrawal_per_day_usd
    Day,                   \* ticks in 24 hours
    MaxAge,                \* proposal_max_age_hours, in ticks
    Balances,
    MaxTick,               \* bound of a behaviour
    MaxProposals           \* bound of the table

VARIABLES
    balance,
    tick,
    proposals,     \* transfer_proposals: [amount, at]; a negative amount is a top-up
    withdrawn,     \* transfer_results: [amount, at, proposal]
    last           \* history: the last scrape and the balances around it

vars == <<balance, tick, proposals, withdrawn, last>>

NoScrape == [from |-> -1, to |-> -1]

----------------------------------------------------------------------------
(* services/harvester *)

Midpoint == (TopupAt + SurplusAt) \div 2

(* compute_today_total_withdrawn_usd *)
Today == MapThenSumSet(LAMBDA w : w.amount, {w \in withdrawn : w.at >= tick - Day})

(* propose_transfer: what is proposed at a balance, 0 for nothing *)
Proposed(b, today) ==
    IF b < Floor THEN 0
    ELSE IF b > SurplusAt THEN Max({0, Min({b - Midpoint, DayCap - today})})
    ELSE IF b < TopupAt THEN b - Midpoint
    ELSE 0

----------------------------------------------------------------------------
(* _run_cycle.  A failed read of the history counts as nothing withdrawn;  *)
(* a failed write loses the proposal.                                      *)
Propose ==
    /\ Cardinality(proposals) < MaxProposals
    /\ \E today \in {Today, 0} :
         LET amount == Proposed(balance, today)
         IN /\ amount # 0
            /\ proposals' = proposals \union {[amount |-> amount, at |-> tick]}
    /\ UNCHANGED <<balance, tick, withdrawn, last>>

(* _execute_proposal *)
Execute(p) ==
    /\ ~ \E w \in withdrawn : w.proposal = p
    /\ p.amount > 0
    /\ tick - p.at <= MaxAge
    /\ balance >= p.amount
    /\ Today + p.amount <= DayCap
    /\ balance' = balance - p.amount
    /\ withdrawn' = withdrawn \union {[amount |-> p.amount, at |-> tick, proposal |-> p]}
    /\ last' = [from |-> balance, to |-> balance']
    /\ UNCHANGED <<tick, proposals>>

(* Trading, deposits and time change the balance. *)
Trade ==
    /\ tick < MaxTick
    /\ tick' = tick + 1
    /\ balance' \in Balances
    /\ UNCHANGED <<proposals, withdrawn, last>>

Init ==
    /\ balance \in Balances /\ tick = 0
    /\ proposals = {} /\ withdrawn = {} /\ last = NoScrape

Next == Propose \/ (\E p \in proposals : Execute(p)) \/ Trade

Spec == Init /\ [][Next]_vars

----------------------------------------------------------------------------
(* Properties. *)

(* docs/planning/requirements.md:76-82, automated withdrawals conform to   *)
(* "minimum and maximum exchange liquidity thresholds": none takes the     *)
(* balance below the minimum.                                              *)
FloorKept == last.from >= Floor => last.to >= Floor

=============================================================================
