--------------------------- MODULE MCSharedConnection ---------------------------
(* The operator's two savers of commands on one connection, and two live   *)
(* daemons that claim commands on connections of their own.                *)
EXTENDS SharedConnection

MCKind == [expirer |-> "save", confirm |-> "save", live |-> "claim", live2 |-> "claim"]

MCConnection ==
    [expirer |-> "operator", confirm |-> "operator", live |-> "claim1", live2 |-> "claim2"]
=============================================================================
