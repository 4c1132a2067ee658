------------------------------ MODULE LlmCalls ------------------------------
(***************************************************************************)
(* Paid calls to language models: the cost gate before a call, the retries *)
(* and the failover of the call itself, and the llm_calls row and session  *)
(* tally after it.  A slot is one coroutine's call; the slots of one       *)
(* process share its SessionCostTracker, and all processes share the       *)
(* ledger, which lies in operator.db.                                      *)
(*                                                                         *)
(* Money is counted in units; every call is estimated at its ceiling.  Of  *)
(* the ledger what its rows of each age cost is kept, as long as they lie  *)
(* in the sliding window; rows of failed calls cost nothing.               *)
(***************************************************************************)
EXTENDS Integers, FiniteSetsExt, Functions

CONSTANTS
    Slots,          \* calls that may be under way at once
    Roles, Processes,
    ProcessOf,      \* the process a role belongs to
    Candidates,     \* targets of a role: the primary and its fallbacks
    DailyCap, SessionCap,
    Estimate,       \* estimate_cost_ceiling
    MaxRetries,
    Window,         \* the sliding day, in ticks
    Opinions        \* what an answer may propose

VARIABLES
    llmCalls,    \* [0..Window -> cost of the rows of this age]
    tracker,     \* what each process has spent since it started
    call         \* what each slot is doing

callVars == <<llmCalls, tracker, call>>

Free == [role |-> "none", pc |-> "free", candidate |-> 0, attempt |-> 0, cost |-> 0,
         result |-> "none"]

New(role) == [Free EXCEPT !.role = role, !.pc = "check", !.candidate = 1]

At(s, pc) == call[s].pc = pc

Finish(s, result) == call' = [call EXCEPT ![s].pc = "done", ![s].result = result]

(* The ways a request fails.  Only the first two are tried again, and only *)
(* the last one, a bad request or a refusal, is no reason to ask another   *)
(* provider.                                                               *)
FailureKinds == {"timeout", "rate_limited", "quota_exceeded", "content_refused"}
Transient == {"timeout", "rate_limited"}
FailoverKinds == FailureKinds \ {"content_refused"}

----------------------------------------------------------------------------
SpentToday == MapThenSumSet(LAMBDA age : llmCalls[age], 0..Window)

WithinSessionOnly(s) == tracker[ProcessOf[call[s].role]] + Estimate <= SessionCap

WithinBudget(s) ==
    /\ tracker[ProcessOf[call[s].role]] + Estimate <= SessionCap
    /\ SpentToday + Estimate <= DailyCap

Ask(s, role) ==
    /\ At(s, "free")
    /\ call' = [call EXCEPT ![s] = New(role)]
    /\ UNCHANGED <<llmCalls, tracker>>

Admit(s) ==
    /\ At(s, "check")
    /\ WithinBudget(s)
    /\ call' = [call EXCEPT ![s].pc = "sent", ![s].attempt = 1]
    /\ UNCHANGED <<llmCalls, tracker>>

(* LLMCostCapExceeded, which leaves no row and is no cause to fail over    *)
Deny(s) ==
    /\ At(s, "check")
    /\ ~WithinBudget(s)
    /\ Finish(s, "cap")
    /\ UNCHANGED <<llmCalls, tracker>>

Answer(s, cost) ==
    /\ At(s, "sent")
    /\ call' = [call EXCEPT ![s].pc = "answered", ![s].cost = cost]
    /\ UNCHANGED <<llmCalls, tracker>>

(* A retry is not checked against the budget again; another provider is.   *)
Fail(s, kind) ==
    /\ At(s, "sent")
    /\ \/ /\ kind \in Transient /\ call[s].attempt <= MaxRetries
          /\ call' = [call EXCEPT ![s].attempt = @ + 1]
       \/ /\ kind \notin Transient \/ call[s].attempt > MaxRetries
          /\ kind \in FailoverKinds /\ call[s].candidate < Candidates
          /\ call' = [call EXCEPT ![s].pc = "check", ![s].candidate = @ + 1,
                                  ![s].attempt = 0]
       \/ /\ kind \notin Transient \/ call[s].attempt > MaxRetries
          /\ kind \notin FailoverKinds \/ call[s].candidate = Candidates
          /\ Finish(s, "error")
    /\ UNCHANGED <<llmCalls, tracker>>

(* The row, then the tally; then the text, which may be cut off or be no   *)
(* answer at all: such a call was paid for and is not repeated.            *)
Record(s, result) ==
    /\ At(s, "answered")
    /\ llmCalls' = [llmCalls EXCEPT ![0] = @ + call[s].cost]
    /\ tracker' = [tracker EXCEPT ![ProcessOf[call[s].role]] = @ + call[s].cost]
    /\ Finish(s, result)

(* The ledger cannot be read, or a paid call's row cannot be written: the  *)
(* StorageError passes every handler of the caller.                        *)
StorageFails(s) ==
    /\ At(s, "check") \/ At(s, "answered")
    /\ Finish(s, "storage")
    /\ UNCHANGED <<llmCalls, tracker>>

Release(s) == call' = [call EXCEPT ![s] = Free] /\ UNCHANGED <<llmCalls, tracker>>

(* A process ends and starts anew: its calls are gone and its tally is 0.  *)
Restart(p) ==
    /\ tracker' = [tracker EXCEPT ![p] = 0]
    /\ call' = [s \in Slots |-> IF ~At(s, "free") /\ ProcessOf[call[s].role] = p
                                THEN Free ELSE call[s]]
    /\ UNCHANGED llmCalls

HourPasses ==
    /\ llmCalls' = [age \in 0..Window |-> IF age = 0 THEN 0 ELSE llmCalls[age - 1]]
    /\ UNCHANGED <<tracker, call>>

CallInit ==
    /\ llmCalls = [age \in 0..Window |-> 0]
    /\ tracker = [p \in Processes |-> 0]
    /\ call = [s \in Slots |-> Free]

(* A call once asked for, to its result. *)
CallStep(s) ==
    \/ Admit(s)
    \/ Deny(s)
    \/ \E cost \in 1..Estimate : Answer(s, cost)
    \/ \E kind \in FailureKinds : Fail(s, kind)
    \/ \E result \in Opinions \union {"error"} : Record(s, result)
    \/ StorageFails(s)

----------------------------------------------------------------------------
(* Properties. *)

(* The gate is checked before a call and the row is written after it: the  *)
(* ledger exceeds the daily cap at most by the calls that can be under way *)
(* at once, whatever is retried, failed over or restarted.                 *)
OvershootBounded ==
    SpentToday <= DailyCap + (Cardinality(Slots) - 1) * Estimate

=============================================================================
