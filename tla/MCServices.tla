------------------------------ MODULE MCServices ------------------------------
(***************************************************************************)
(* A small instance of the services.  A behaviour belongs to one of them,  *)
(* drawn at its start, and the variables of the others keep their initial  *)
(* values.                                                                 *)
(***************************************************************************)
EXTENDS Services, TLC

VARIABLE focus     \* which of two small instances of a subsystem this is

(* An order that fills in two parts, and another one. *)
MCOrderOf == "t1" :> "o1" @@ "t2" :> "o1" @@ "t3" :> "o2"

(* Two experts who may be asked at once, and the operator's chat. *)
MCProcessOf == "quant" :> "advise" @@ "news" :> "advise" @@ "chat" :> "operator"
MCMeaning == "tighter" :> 9 @@ "wider" :> 11

(* A question, and a message that may be anything. *)
MCFixed == "m2" :> "query"

(* Four providers with rates of their own, and a model without a price. *)
Rates(input, output, reasoning, cached, written) ==
    [input |-> input, output |-> output, reasoning |-> reasoning, cached |-> cached,
     written |-> written]
MCPrice == "openai" :> Rates(6, 20, -1, 3, -1) @@ "anthropic" :> Rates(8, 24, -1, 1, 10) @@
           "google" :> Rates(5, 20, 30, -1, -1) @@ "ollama_cloud" :> Rates(4, 16, -1, 2, -1)
MCUsages == [fresh : {1, 2}, cached : {0, 2}, written : {0, 1}, visible : {1}, thought : {0, 2}]

(* Two coins, a grid of two BUYs and one SELL, spaced ten percent apart. *)
MCSymbols == <<"btc", "eth">>
MCPrices == "btc" :> {80, 100, 110} @@ "eth" :> {100}
MCStartBase == "btc" :> 20 @@ "eth" :> 0
MCCaps == [ordersPerCoin |-> 3, coinExposure |-> 6600, totalExposure |-> 9000,
           dailySpend |-> 6000, coinInventory |-> 4200, totalInventory |-> 8000]

(* Advice, first without a second provider, a retry or the chat; then two  *)
(* calls of the chat with both.                                            *)
AdviceFocus ==
    IF focus = 1
    THEN \A s \in Slots : call'[s].role # "chat" /\ call'[s].candidate <= 1 /\ call'[s].attempt <= 1
    ELSE cycle' = cycle /\ suggestions' = suggestions /\ terminal' = terminal

(* The chat, first what is said; then one command, its card and buttons.   *)
TalkFocus ==
    IF focus = 1
    THEN /\ table' = table /\ click' = click
         /\ \A m \in Messages : answering'[m] # "talk"
    ELSE /\ channel'["m2"] = channel["m2"]
         /\ backfill'.history = {}
         /\ answering'["m1"] \notin {"reparse", "query"}
         /\ \A t \in turns' : t.via # "reply"

MCInit ==
    /\ ServicesInit
    /\ focus \in IF system \in {"advice", "talk"} THEN {1, 2} ELSE {1}
    /\ system # "placement" => tape["btc"] = 100      \* one of its initial values will do

MCNext ==
    /\ ServicesNext
    /\ system = "advice" => AdviceFocus
    /\ system = "talk" => TalkFocus
    /\ UNCHANGED focus

MCSpec == MCInit /\ [][MCNext]_<<all, focus>>

=============================================================================
