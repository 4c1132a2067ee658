----------------------------- MODULE MCTradeAudit -----------------------------
EXTENDS TradeAudit, TLC

CONSTANTS o1, o2, t1, t2, t3

(* An order that fills in two parts, and another one *)
MCOrderOf == t1 :> o1 @@ t2 :> o1 @@ t3 :> o2
=============================================================================
