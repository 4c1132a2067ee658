----------------------------- MODULE Withdrawal -----------------------------
(***************************************************************************)
(* The Harvester's money path: executors (the harvest daemon and any       *)
(* number of `--execute` commands, each a process of its own) pay out      *)
(* transfer proposals through Kraken.  They share one SQLite file whose    *)
(* transfer_results table is the claim ledger.  An executor checks its     *)
(* gates, reserves a claim in one write transaction, submits the           *)
(* withdrawal, and records the outcome it observed.  It may crash at any   *)
(* step; requests and replies may be lost or arrive after the timeout.     *)
(***************************************************************************)
EXTENDS Naturals, FiniteSets, FiniteSetsExt

CONSTANTS
    Proposals,   \* persisted transfer proposals
    Deposits,    \* those with direction bank_to_exchange
    Executors,   \* processes able to run _execute_proposal
    ClaimIds,    \* fresh claim identifiers (uuid4), bounding the attempts
    Amount,      \* proposal -> USD amount
    Created,     \* proposal -> creation time
    DailyCap,    \* max_withdrawal_per_day_usd
    Window,      \* 24 hours, in ticks
    MaxAge,      \* proposal_max_age_hours, in ticks
    MaxSends,    \* one request plus _RATE_LIMIT_MAX_RETRIES
    MaxTime,     \* bound on the clock
    NoProposal, NoClaim

ASSUME ConstantsAssumption ==
    /\ Deposits \subseteq Proposals
    /\ Amount \in [Proposals -> Nat]
    /\ Created \in [Proposals -> Nat]
    /\ DailyCap \in Nat /\ Window \in Nat /\ MaxAge \in Nat /\ MaxTime \in Nat
    /\ MaxSends \in Nat \ {0}
    /\ NoProposal \notin Proposals
    /\ NoClaim \notin ClaimIds

VARIABLES
    now,        \* wall clock, in ticks
    rows,       \* transfer_results: claim id -> row
    exec,       \* executor -> its position in _execute_proposal and locals
    inflight,   \* claim id -> number of its /Withdraw requests in the network
    moved,      \* claim id -> number of payouts Kraken has made for it
    reply       \* claim id -> Kraken's answer not yet read by the executor

vars == <<now, rows, exec, inflight, moved, reply>>

----------------------------------------------------------------------------
(* Data. *)

Open    == {"reserved", "unknown"}     \* outcome not established
Settled == {"accepted", "rejected"}

Row == [state : Open \union Settled \union {"absent"},
        proposal : Proposals \union {NoProposal},
        ts : Nat]

NoRow == [state |-> "absent", proposal |-> NoProposal, ts |-> 0]

Steps == {"idle", "balance", "dayCap", "stamp", "reserve", "submit", "await",
          "recordAccepted", "recordRejected", "recordUnknown"}

(* The steps between the committed reservation and the end of the call. *)
ClaimSteps == {"submit", "await", "recordAccepted", "recordRejected", "recordUnknown"}

Local == [pc : Steps,
          proposal : Proposals \union {NoProposal},
          claim : ClaimIds \union {NoClaim},
          ts : Nat,
          sent : 0..MaxSends]

Idle == [pc |-> "idle", proposal |-> NoProposal, claim |-> NoClaim,
         ts |-> 0, sent |-> 0]

Present    == {i \in ClaimIds : rows[i].state # "absent"}

(* Every claim that blocks all further withdrawals. *)
Unresolved == {i \in ClaimIds : rows[i].state \in Open}

(* status = 'failed' is written exactly for a confirmed rejection. *)
NotFailed == {i \in Present : rows[i].state # "rejected"}

AmountsIn(r, ids) == MapThenSumSet(LAMBDA i : Amount[r[i].proposal], ids)

SumAmounts(ids) == AmountsIn(rows, ids)

(* Rows that count against the rolling cap for a cutoff time. *)
WithdrawnSince(cutoff) == SumAmounts({i \in NotFailed : rows[i].ts >= cutoff})

(* timestamp - 24 hours; the clock starts at 0, where nothing is older. *)
WindowStart(t) == IF t > Window THEN t - Window ELSE 0

(* An answer is delivered only to the executor waiting for it. *)
Awaited(i) == \E e \in Executors : exec[e].claim = i /\ exec[e].pc = "await"
Answer(i, r) == reply' = [reply EXCEPT ![i] = IF Awaited(i) THEN r ELSE "none"]
Discard(i)   == reply' = [k \in ClaimIds |-> IF k = i THEN "none" ELSE reply[k]]

Goto(e, step) == exec' = [exec EXCEPT ![e].pc = step]
Return(e)     == exec' = [exec EXCEPT ![e] = Idle]

----------------------------------------------------------------------------
Init ==
    /\ now = 0
    /\ rows = [i \in ClaimIds |-> NoRow]
    /\ exec = [e \in Executors |-> Idle]
    /\ inflight = [i \in ClaimIds |-> 0]
    /\ moved = [i \in ClaimIds |-> 0]
    /\ reply = [i \in ClaimIds |-> "none"]

Tick ==
    /\ now < MaxTime
    /\ now' = now + 1
    /\ UNCHANGED <<rows, exec, inflight, moved, reply>>

(* Gates 1 to 5a: a proposal on file, no earlier result without a          *)
(* confirmed rejection, direction exchange_to_bank, not stale.  A proposal *)
(* that fails a gate changes nothing.                                      *)
Begin(e, p) ==
    /\ exec[e].pc = "idle"
    /\ Created[p] <= now
    /\ ~ \E i \in Present : rows[i].proposal = p /\ rows[i].state # "rejected"
    /\ p \notin Deposits
    /\ now <= Created[p] + MaxAge
    /\ exec' = [exec EXCEPT ![e] = [pc |-> "balance", proposal |-> p,
                                    claim |-> NoClaim, ts |-> 0, sent |-> 0]]
    /\ UNCHANGED <<now, rows, inflight, moved, reply>>

(* Gate 6: the balance read from Kraken covers the amount. *)
ReadBalance(e) ==
    /\ exec[e].pc = "balance"
    /\ Goto(e, "dayCap")
    /\ UNCHANGED <<now, rows, inflight, moved, reply>>

(* Gate 7: the day-cap check on a fresh read of the ledger. *)
CheckDayCap(e) ==
    /\ exec[e].pc = "dayCap"
    /\ WithdrawnSince(WindowStart(now)) + Amount[exec[e].proposal] <= DailyCap
    /\ Goto(e, "stamp")
    /\ UNCHANGED <<now, rows, inflight, moved, reply>>

(* The claim is stamped before the write lock is acquired. *)
StampClaim(e) ==
    /\ exec[e].pc = "stamp"
    /\ exec' = [exec EXCEPT ![e].pc = "reserve", ![e].ts = now]
    /\ UNCHANGED <<now, rows, inflight, moved, reply>>

(* A gate refuses, or the reservation raises StorageError: nothing written. *)
Refuse(e) ==
    /\ exec[e].pc \in {"balance", "dayCap", "reserve"}
    /\ Return(e)
    /\ UNCHANGED <<now, rows, inflight, moved, reply>>

(* Mutant: an accepted payout no longer blocks its proposal. *)
AlreadyClaimedOpenOnly(p) ==
    \E i \in NotFailed : rows[i].proposal = p /\ rows[i].state \in Open

AlreadyClaimed(p) == \E i \in NotFailed : rows[i].proposal = p

(* Mutant: the cap is left to the earlier, unserialised read. *)
CapNotRechecked(p, ts) == FALSE

CapExceeded(p, ts) == WithdrawnSince(WindowStart(ts)) + Amount[p] > DailyCap

(* reserve_withdrawal: one BEGIN IMMEDIATE transaction checks the proposal, *)
(* every unresolved claim and the cap, then inserts the reserved row.       *)
Reserve(e, i) ==
    /\ exec[e].pc = "reserve"
    /\ rows[i].state = "absent"
    /\ ~ AlreadyClaimed(exec[e].proposal)
    /\ Unresolved = {}
    /\ ~ CapExceeded(exec[e].proposal, exec[e].ts)
    /\ rows' = [rows EXCEPT ![i] = [state |-> "reserved",
                                    proposal |-> exec[e].proposal,
                                    ts |-> exec[e].ts]]
    /\ exec' = [exec EXCEPT ![e].pc = "submit", ![e].claim = i]
    /\ UNCHANGED <<now, inflight, moved, reply>>

(* POST /0/private/Withdraw.  A rate-limit retry comes back here. *)
Submit(e) ==
    LET i == exec[e].claim IN
    /\ exec[e].pc = "submit"
    /\ exec' = [exec EXCEPT ![e].pc = "await", ![e].sent = @ + 1]
    /\ inflight' = [inflight EXCEPT ![i] = @ + 1]
    /\ UNCHANGED <<now, rows, moved, reply>>

----------------------------------------------------------------------------
(* Kraken and the network. *)

(* Kraken executes a request: money leaves the exchange. *)
KrakenAccept(i) ==
    /\ inflight[i] > 0
    /\ inflight' = [inflight EXCEPT ![i] = @ - 1]
    /\ moved' = [moved EXCEPT ![i] = @ + 1]
    /\ Answer(i, "refid")
    /\ UNCHANGED <<now, rows, exec>>

(* Kraken answers with an error array; "limited" is its rate-limit code. *)
KrakenReject(i) ==
    /\ inflight[i] > 0
    /\ inflight' = [inflight EXCEPT ![i] = @ - 1]
    /\ \E r \in {"error", "limited"} : Answer(i, r)
    /\ UNCHANGED <<now, rows, exec, moved>>

(* The request never reaches Kraken. *)
LoseRequest(i) ==
    /\ inflight[i] > 0
    /\ inflight' = [inflight EXCEPT ![i] = @ - 1]
    /\ UNCHANGED <<now, rows, exec, moved, reply>>

----------------------------------------------------------------------------
(* The executor reads the answer. *)

ReceiveRefid(e) ==
    LET i == exec[e].claim IN
    /\ exec[e].pc = "await" /\ reply[i] = "refid"
    /\ Discard(i)
    /\ Goto(e, "recordAccepted")
    /\ UNCHANGED <<now, rows, inflight, moved>>

(* Mutant: a lost answer is retried as if it were a rate limit. *)
RetryLostAnswer(e) ==
    /\ exec[e].pc = "await"
    /\ exec[e].sent < MaxSends
    /\ Discard(exec[e].claim)
    /\ Goto(e, "submit")
    /\ UNCHANGED <<now, rows, inflight, moved>>

(* ADR-027: only the rate-limit code is retried, a bounded number of times. *)
RetryRateLimited(e) ==
    LET i == exec[e].claim IN
    /\ exec[e].pc = "await" /\ reply[i] = "limited"
    /\ exec[e].sent < MaxSends
    /\ Discard(i)
    /\ Goto(e, "submit")
    /\ UNCHANGED <<now, rows, inflight, moved>>

(* An ExchangeError with codes, or the last rate-limited attempt. *)
ReceiveRejection(e) ==
    LET i == exec[e].claim IN
    /\ exec[e].pc = "await"
    /\ \/ reply[i] = "error"
       \/ reply[i] = "limited" /\ exec[e].sent >= MaxSends
    /\ Discard(i)
    /\ Goto(e, "recordRejected")
    /\ UNCHANGED <<now, rows, inflight, moved>>

(* Mutant: every exchange error is taken for a rejection (before ADR-026's *)
(* correction of 2026-09-24).                                              *)
LoseReplyAsRejection(e) ==
    /\ exec[e].pc = "await"
    /\ Discard(exec[e].claim)
    /\ Goto(e, "recordRejected")
    /\ UNCHANGED <<now, rows, inflight, moved>>

(* Mutant: no HTTP timeout, a lost answer is awaited for ever. *)
NoTimeout(e) == FALSE /\ UNCHANGED vars

(* A transport failure, HTTP error, malformed body or any other exception: *)
(* the request may or may not have reached Kraken, whatever it answered.   *)
LoseReply(e) ==
    /\ exec[e].pc = "await"
    /\ Discard(exec[e].claim)
    /\ Goto(e, "recordUnknown")
    /\ UNCHANGED <<now, rows, inflight, moved>>

----------------------------------------------------------------------------
(* finalize_withdrawal_claim, after which the call returns its report. *)

OutcomeOf(step) ==
    CASE step = "recordAccepted" -> "accepted"
      [] step = "recordRejected" -> "rejected"
      [] OTHER                   -> "unknown"

Recording(e) == exec[e].pc \in {"recordAccepted", "recordRejected", "recordUnknown"}

(* The update applies to a reserved row only; rowcount # 1 is StorageError. *)
Finalize(e) ==
    LET i == exec[e].claim
        outcome == OutcomeOf(exec[e].pc)
    IN
    /\ Recording(e)
    /\ rows[i].state = "reserved"
    /\ rows' = [rows EXCEPT ![i].state = outcome]
    /\ Return(e)
    /\ UNCHANGED <<now, inflight, moved, reply>>

(* StorageError: the reserved row stays and goes on blocking replay. *)
FinalizeFails(e) ==
    /\ Recording(e)
    /\ Return(e)
    /\ UNCHANGED <<now, rows, inflight, moved, reply>>

(* The process dies, or the coroutine is cancelled, at any step. *)
Crash(e) ==
    /\ exec[e].pc # "idle"
    /\ Discard(exec[e].claim)
    /\ Return(e)
    /\ UNCHANGED <<now, rows, inflight, moved>>

(* The operator corrects an unresolved claim by hand from a definite       *)
(* Kraken result, with no executor working on it (the incident runbook).   *)
Reconcile(i) ==
    /\ rows[i].state \in Open
    /\ \A e \in Executors : exec[e].claim # i
    /\ inflight[i] = 0
    /\ rows' = [rows EXCEPT ![i].state = IF moved[i] > 0 THEN "accepted" ELSE "rejected"]
    /\ UNCHANGED <<now, exec, inflight, moved, reply>>

----------------------------------------------------------------------------
(* What one executor does once it has begun, crashes excepted. *)
Proceed(e) ==
    \/ ReadBalance(e) \/ CheckDayCap(e) \/ StampClaim(e) \/ Refuse(e)
    \/ \E i \in ClaimIds : Reserve(e, i)
    \/ Submit(e)
    \/ ReceiveRefid(e) \/ RetryRateLimited(e) \/ ReceiveRejection(e) \/ LoseReply(e)
    \/ Finalize(e) \/ FinalizeFails(e)

Kraken(i) == KrakenAccept(i) \/ KrakenReject(i) \/ LoseRequest(i)

Next ==
    \/ Tick
    \/ \E e \in Executors :
          Proceed(e) \/ Crash(e) \/ \E p \in Proposals : Begin(e, p)
    \/ \E i \in ClaimIds : Kraken(i) \/ Reconcile(i)

Spec == Init /\ [][Next]_vars

(* A running call always ends (the HTTP client has a timeout), a request   *)
(* does not stay in the network for ever, and the operator follows the     *)
(* runbook.  Nothing obliges anybody to begin a withdrawal.                *)
FairSpec ==
    /\ Spec
    /\ \A e \in Executors : WF_vars(Proceed(e))
    /\ \A i \in ClaimIds : WF_vars(Kraken(i)) /\ WF_vars(Reconcile(i))

----------------------------------------------------------------------------
(* Properties. *)

(* Every variable has its type; no call sends more than MaxSends requests. *)
TypeOK ==
    /\ now \in Nat
    /\ rows \in [ClaimIds -> Row]
    /\ exec \in [Executors -> Local]
    /\ inflight \in [ClaimIds -> Nat]
    /\ moved \in [ClaimIds -> Nat]
    /\ reply \in [ClaimIds -> {"none", "refid", "error", "limited"}]

(* Kraken pays a proposal out at most once, whatever mix of CLI calls,     *)
(* daemon polls, crashes, lost replies and retries asked for it (2b, 8, 9).*)
AtMostOnePayout ==
    \A i, j \in ClaimIds :
        moved[i] > 0 /\ moved[j] > 0 /\ rows[i].proposal = rows[j].proposal
            => i = j /\ moved[i] = 1

(* A payout made, or still able to be made by a request in the network, is *)
(* always covered by a ledger row that blocks its proposal: the claim is   *)
(* durable before the side effect and never released while it can happen.  *)
PayoutHasLiveClaim ==
    \A i \in ClaimIds :
        moved[i] + inflight[i] > 0 => rows[i].state \notin {"absent", "rejected"}

(* At most one withdrawal in the whole ledger is unverified at any moment  *)
(* ("unresolved_claim" halts every other withdrawal).                      *)
OneUnresolvedClaim ==
    \A i, j \in ClaimIds :
        rows[i].state \in Open /\ rows[j].state \in Open => i = j

(* In every 24-hour window of claim times the amounts Kraken paid or may   *)
(* still pay stay within the daily cap, although claims are stamped before *)
(* the write lock and may be inserted out of time order.                   *)
CapHolds ==
    \A t \in 0..now :
        SumAmounts({i \in NotFailed : rows[i].ts \in t..(t + Window)}) <= DailyCap

(* The outcome an executor is about to record and report is true: it says  *)
(* "submitted" only when money moved, and "no money moved" only when none  *)
(* did and no request that could still move it is under way.               *)
ReportsTruthful ==
    \A e \in Executors :
        LET i == exec[e].claim IN
        /\ exec[e].pc = "recordAccepted" => moved[i] > 0
        /\ exec[e].pc = "recordRejected" => moved[i] + inflight[i] = 0

(* A claim that halts the withdrawals does not halt them for ever once the *)
(* operator follows the runbook: the executor lets go of it and Kraken's   *)
(* result becomes known.                                                   *)
ClaimSettles == Unresolved # {} ~> Unresolved = {}

(* The claim ledger implements PayoutLedger: the open rows hold a proposal,*)
(* Kraken's payouts pay it.                                                *)
Held == {rows[i].proposal : i \in Unresolved}
Paid == {rows[i].proposal : i \in {j \in ClaimIds : moved[j] > 0}}

Ledger == INSTANCE PayoutLedger WITH held <- Held, paid <- Paid

ImplementsLedger == Ledger!Spec
=============================================================================
