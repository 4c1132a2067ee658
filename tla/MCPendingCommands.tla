------------------------- MODULE MCPendingCommands -------------------------
(* Constants of PendingCommands for TLC. *)
EXTENDS PendingCommands, TLC

CONSTANTS c1, c2, k1, k2, w, d

(* Two instances of one daemon over its commands. *)
MCLive  == (k1 :> "live") @@ (k2 :> "live")
MCTwoLive == (c1 :> "live") @@ (c2 :> "live")

(* A live daemon and a harvest daemon, with a command for each. *)
MCMixed == (k1 :> "live") @@ (k2 :> "harvest")
MCOneEach == (c1 :> "live") @@ (c2 :> "harvest")

(* Sound where all daemons have one role that owns all commands. *)
MCSymmetry == Permutations(Commands) \union Permutations(Daemons)
=============================================================================
