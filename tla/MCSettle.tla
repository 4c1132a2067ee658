------------------------------- MODULE MCSettle -------------------------------
(***************************************************************************)
(* What is open is eventually settled: the operator's commands and the     *)
(* orders and owed trade rows of the grid engine.  And the claims in the   *)
(* harvest database hold until they are settled.  As in MCLive a behaviour *)
(* belongs to one of the three subsystems, drawn at its start; the         *)
(* variables of the others keep their initial values.                      *)
(*                                                                         *)
(* SharedConnection is extended, the others are instances with variables   *)
(* of their own.                                                           *)
(***************************************************************************)
EXTENDS SharedConnection, TLC

CONSTANTS c1, c2, k1, k2, w, NoOne, NoTime, NoCommand

VARIABLES
    system,
    now, table, claims, handler, sweep, consumer, effects, cFaults,
    ex, db, anchor, mem, run, loud, gFaults

C == INSTANCE PendingCommands WITH
       Commands <- {c1, c2}, WebHandlers <- {w}, DiscordHandlers <- {}, Daemons <- {k1, k2},
       Role <- (k1 :> "live" @@ k2 :> "harvest"), Owner <- (c1 :> "live" @@ c2 :> "harvest"),
       TTL <- 1, MaxTime <- 2, MaxFaults <- 1, faults <- cFaults

G == INSTANCE GridEngine WITH
       MaxOrders <- 2, Size <- 1, Levels <- 1, MaxAnchor <- 2, MaxAttempts <- 1, MaxAge <- 2,
       MaxFaults <- 1, faults <- gFaults

(* cli/harvest's two loops on one connection, and an operator's --execute. *)
MCKind == [proposals |-> "save", commands |-> "reserve", terminal |-> "reserve"]
MCConnection == [proposals |-> "harvest", commands |-> "harvest", terminal |-> "execute"]

cVars == <<now, table, claims, handler, sweep, consumer, effects, cFaults>>
gVars == <<ex, db, anchor, mem, run, loud, gFaults>>
all   == <<system, vars, cVars, gVars>>

SettleInit == system \in {"harvest", "commands", "grid"} /\ Init /\ C!Init /\ G!Init

OnlyHarvest  == system = "harvest"  /\ UNCHANGED <<system, cVars, gVars>>
OnlyCommands == system = "commands" /\ UNCHANGED <<system, vars, gVars>>
OnlyGrid     == system = "grid"     /\ UNCHANGED <<system, vars, cVars>>

SettleNext ==
    \/ OnlyHarvest /\ Next
    \/ OnlyCommands /\ C!Next
    \/ OnlyGrid /\ G!Next

(* The fairness of the last two, a condition of the one with one of the    *)
(* other: only the disjunct of a behaviour's own subsystem is ever enabled. *)
SettleSpec ==
    /\ SettleInit /\ [][SettleNext]_all
    /\ WF_all(\/ OnlyCommands /\ C!Tick
              \/ OnlyGrid /\ G!Start)
    /\ WF_all(\/ OnlyCommands /\ C!Expire
              \/ OnlyGrid /\ G!Step)
    /\ WF_all(\/ OnlyCommands /\ C!Handle(w)
              \/ OnlyGrid /\ G!Cancelling)
    /\ WF_all(\/ OnlyCommands /\ C!Consume(k1)
              \/ OnlyGrid /\ (G!EndClose \/ \E o \in G!Orders : G!CloseOrder(o) \/ G!CloseFails(o)))
    /\ WF_all(OnlyCommands /\ C!Consume(k2))
    /\ SF_all(OnlyGrid /\ G!StartTick)
    /\ SF_all(OnlyGrid /\ G!BeginDetect)

----------------------------------------------------------------------------
(* Of the command queue: no command waits for ever. *)
CommandSettles == C!CommandSettles

(* Of the grid engine: an order that left the exchange is closed, the      *)
(* trade rows it still owes are recovered or given up on.                  *)
FillsSettle == G!DepartureRecorded /\ G!OwedRowsSettle

=============================================================================
