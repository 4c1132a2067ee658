---------------------------- MODULE PayoutLedger ----------------------------
(***************************************************************************)
(* What the withdrawal path promises, without saying how.  At most one     *)
(* proposal is held for payment at any moment, money leaves the exchange   *)
(* only for the held proposal, and a proposal is paid at most once for     *)
(* ever.  Withdrawal.tla implements this ledger with database claims,      *)
(* network requests and crashes.                                           *)
(***************************************************************************)
CONSTANT Proposals

VARIABLES
    held,  \* the proposals whose payout is being attempted (none or one)
    paid   \* the proposals for which money has left the exchange

vars == <<held, paid>>

Init == held = {} /\ paid = {}

(* An unpaid proposal is held while nothing else is. *)
Hold(p) ==
    /\ held = {}
    /\ p \notin paid
    /\ held' = {p}
    /\ UNCHANGED paid

(* Money leaves the exchange for the held proposal. *)
Pay(p) ==
    /\ p \in held
    /\ p \notin paid
    /\ paid' = paid \union {p}
    /\ UNCHANGED held

(* The attempt is over, whether it paid or not. *)
Release ==
    /\ held # {}
    /\ held' = {}
    /\ UNCHANGED paid

Next == Release \/ \E p \in Proposals : Hold(p) \/ Pay(p)

Spec == Init /\ [][Next]_vars
=============================================================================
