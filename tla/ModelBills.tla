----------------------------- MODULE ModelBills -----------------------------
(***************************************************************************)
(* What a call to a language model costs, and what of it the ledger tells: *)
(* each provider reports the tokens of an answer in a way of its own, the  *)
(* adapters turn that into disjoint buckets, and every bucket is charged   *)
(* at the rate of the price table.  The state machine is one adapter's     *)
(* calls, one after the other (execute_cloud_call); their concurrency is   *)
(* LlmCalls'.                                                              *)
(*                                                                         *)
(* Rates are per token, in parts of the unit the ledger rounds to.         *)
(***************************************************************************)
EXTENDS Integers

CONSTANTS
    Providers,
    Price,          \* the table: [provider -> rates], of the models it lists
    Sizes,          \* tokens of a prompt, as estimated
    Usages,         \* what an answer may really take, in disjoint buckets
    MaxTokens,
    Unit,           \* of the rounding
    MaxRetries,
    Budget,         \* of the session
    MaxCalls        \* bound of a behaviour

VARIABLES
    call,           \* the call under way
    wire,           \* the answer, as the provider reports it
    ledger,         \* sum of llm_calls
    tracker,        \* SessionCostTracker
    calls,
    billed          \* by the providers, for the answers on record

vars == <<call, wire, ledger, tracker, calls, billed>>

NoRate == -1
Idle == [pc |-> "idle", provider |-> "none", attempt |-> 0, bill |-> 0, result |-> "none"]
NoWire == [prompt |-> 0, cached |-> 0, written |-> 0, output |-> 0, reasoning |-> 0,
           text |-> "none"]

At(pc) == call.pc = pc
Finish(result) == call' = [Idle EXCEPT !.result = result]
Largest(a, b) == IF a > b THEN a ELSE b

----------------------------------------------------------------------------
(* The table and its fall-backs *)

Or(rate, fallback) == IF rate = NoRate THEN fallback ELSE rate
OrIfNone(rate, fallback) == IF rate \in {NoRate, 0} THEN fallback ELSE rate

Rounded(parts) == (2 * parts + Unit) \div (2 * Unit)

(* cost_for, of buckets *)
CostFor(p, b) ==
    LET price == Price[p]
    IN Rounded(b.in * price.input + b.out * price.output
               + b.reasoning * OrIfNone(price.reasoning, price.output)
               + b.cacheRead * Or(price.cached, price.input)
               + b.cacheWrite * Or(price.written, price.input))

Buckets(in, out, reasoning, read, write) ==
    [in |-> in, out |-> out, reasoning |-> reasoning, cacheRead |-> read, cacheWrite |-> write]

(* estimate_cost_ceiling *)
Ceiling(p, size) == CostFor(p, Buckets(Largest(1, size), MaxTokens, 0, 0, 0))

----------------------------------------------------------------------------
(* How the providers report *)

Wire(p, u, text) ==
    [prompt |-> IF p = "anthropic" THEN u.fresh ELSE u.fresh + u.cached,
     cached |-> IF text = "garbled" THEN u.fresh + u.cached + 1 ELSE u.cached,
     written |-> u.written,
     output |-> IF p = "google" THEN u.visible ELSE u.visible + u.thought,
     reasoning |-> IF p \in {"openai", "google"} THEN u.thought ELSE 0,
     text |-> text]

(* extract_openai_tokens.  Mutant: what lies in the total is charged twice. *)
FromOpenAIUnsplit(w) == Buckets(w.prompt, w.output, w.reasoning, w.cached, 0)
FromOpenAI(w) ==
    Buckets(Largest(0, w.prompt - w.cached), Largest(0, w.output - w.reasoning), w.reasoning,
            w.cached, 0)

(* extract_google_tokens: the thoughts come on top of the candidates. *)
FromGoogle(w) == Buckets(Largest(0, w.prompt - w.cached), w.output, w.reasoning, w.cached, 0)

(* extract_anthropic_tokens: disjoint on the wire *)
FromAnthropic(w) == Buckets(w.prompt, w.output, 0, w.cached, w.written)

(* extract_ollama_cloud_tokens *)
FromOllama(w) == Buckets(w.prompt - w.cached, w.output, 0, w.cached, 0)
Accountable(w) == w.cached <= w.prompt

Extract(p, w) ==
    CASE p = "openai" -> FromOpenAI(w)
      [] p = "google" -> FromGoogle(w)
      [] p = "anthropic" -> FromAnthropic(w)
      [] p = "ollama_cloud" -> FromOllama(w)

(* What the provider bills: every token once, at the rate of its kind.     *)
Bill(p, u) ==
    LET price == Price[p]
    IN u.fresh * price.input + u.cached * Or(price.cached, price.input)
       + u.written * Or(price.written, price.input)
       + u.visible * price.output + u.thought * Or(price.reasoning, price.output)

(* Only Anthropic bills what enters a cache. *)
Possible(p, u, text) ==
    (u.written > 0 => p = "anthropic") /\ (text = "garbled" => p = "ollama_cloud")

----------------------------------------------------------------------------
(* execute_cloud_call *)

(* An unpriced model, an exceeded budget or an unreadable ledger leave no row. *)
Begin(p, size) ==
    /\ At("idle") /\ calls < MaxCalls
    /\ calls' = calls + 1
    /\ \/ Finish("storage")
       \/ call' = IF p \notin DOMAIN Price THEN [Idle EXCEPT !.result = "unpriced"]
                  ELSE IF tracker + Ceiling(p, size) > Budget THEN [Idle EXCEPT !.result = "cap"]
                  ELSE [Idle EXCEPT !.pc = "sent", !.provider = p, !.attempt = 1]
    /\ UNCHANGED <<wire, ledger, tracker, billed>>

(* Cut off at the limit, without the schema's fields, or good; the counts  *)
(* of a garbled one cannot be.                                             *)
Texts == {"truncated", "unparseable", "garbled", "good"}

Answer(u, text) ==
    /\ At("sent") /\ Possible(call.provider, u, text)
    /\ LET w == Wire(call.provider, u, text)
       IN IF call.provider = "ollama_cloud" /\ ~Accountable(w)
          THEN Finish("error") /\ UNCHANGED wire               \* with a row of no cost
          ELSE /\ wire' = w
               /\ call' = [call EXCEPT !.pc = "answered", !.bill = Bill(call.provider, u)]
    /\ UNCHANGED <<ledger, tracker, calls, billed>>

(* Refused, or timed out, billed or not: once more, or a row of no cost.   *)
Fail(transient) ==
    /\ At("sent")
    /\ IF transient /\ call.attempt <= MaxRetries
       THEN call' = [call EXCEPT !.attempt = @ + 1]
       ELSE Finish("error")
    /\ UNCHANGED <<wire, ledger, tracker, calls, billed>>

(* The row and the tally; then the text is looked at. *)
Record ==
    /\ At("answered")
    /\ LET cost == CostFor(call.provider, Extract(call.provider, wire))
       IN ledger' = ledger + cost /\ tracker' = tracker + cost
    /\ billed' = billed + call.bill
    /\ wire' = NoWire
    /\ Finish(IF wire.text = "good" THEN "answer" ELSE "error")
    /\ UNCHANGED calls

RecordFails ==
    /\ At("answered")
    /\ wire' = NoWire
    /\ Finish("storage")
    /\ UNCHANGED <<ledger, tracker, calls, billed>>

(* The tally starts anew with the process. *)
Restart ==
    /\ call' = Idle /\ wire' = NoWire /\ tracker' = 0
    /\ UNCHANGED <<ledger, calls, billed>>

----------------------------------------------------------------------------
Init ==
    /\ call = Idle /\ wire = NoWire
    /\ ledger = 0 /\ tracker = 0 /\ calls = 0
    /\ billed = 0

Next ==
    \/ \E p \in Providers, size \in Sizes : Begin(p, size)
    \/ \E u \in Usages, text \in Texts : Answer(u, text)
    \/ \E transient \in BOOLEAN : Fail(transient)
    \/ Record \/ RecordFails \/ Restart

Spec == Init /\ [][Next]_vars

----------------------------------------------------------------------------
(* Over any calls, the ledger differs from what the providers bill for the *)
(* answers on record by the rounding of each row at most, answers nobody   *)
(* could use included: no token is charged twice or not at all.            *)
BilledOnce ==
    LET off == ledger * Unit - billed
    IN  2 * off <= calls * Unit /\ -2 * off <= calls * Unit

=============================================================================
