--------------------------- MODULE MCWithdrawal ---------------------------
EXTENDS Records, TLC

CONSTANTS p1, p2, p3

(* Two proposals whose amounts together exceed the daily cap, and a deposit. *)
MCProposals == {p1, p2, p3}
MCDeposits  == {p3}
MCAmount    == (p1 :> 2) @@ (p2 :> 1) @@ (p3 :> 1)
MCCreated   == (p1 :> 0) @@ (p2 :> 1) @@ (p3 :> 0)

MCSymmetry == Permutations(ClaimIds) \union Permutations(Executors)

(* Trades of three orders on pages of two; the oldest is of another symbol,*)
(* so that a trade read twice can push an older one out of the limit.      *)
MCOrderOf == <<"o3", "o2", "o1", "o2", "o1", "o1">>
MCLimit   == [trades |-> 4, ledger |-> 6]
MCWanted  == [trades |-> 2..6, ledger |-> 1..6]

(* Files of an earlier release: one without results, one with a failed     *)
(* one, one with a failed one that was tried again, one that paid twice.   *)
OldResult(id, status) == [id |-> id, proposal |-> "p", status |-> status, submission |-> "absent"]
MCLegacy == {{}, {OldResult("r1", "failed")},
             {OldResult("r1", "failed"), OldResult("r2", "completed")},
             {OldResult("r1", "completed"), OldResult("r2", "completed")}}

(* The initial values of a subsystem that is not drawn do not matter; one  *)
(* of them will do.                                                        *)
MCInit ==
    /\ RecordsInit
    /\ system # "deploy" => db.results = {}
    /\ system # "restarts" => states["btc"].known

MCSpec == MCInit /\ [][RecordsNext]_all

=============================================================================
