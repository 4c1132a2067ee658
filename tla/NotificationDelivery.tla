------------------------ MODULE NotificationDelivery ------------------------
(***************************************************************************)
(* The notification outbox of operator.db and its senders: cli/operator    *)
(* through its Discord Gateway client and the optional cli/delivery        *)
(* through Discord's REST API.  Both run forward_notifications: read the   *)
(* due rows, claim one attempt under a lease, send, and record the outcome.*)
(* A send whose outcome is not known must never be repeated; one that is   *)
(* known not to have reached Discord is retried a bounded number of times. *)
(*                                                                         *)
(* Times are countdowns: an instant stored in the database is the number   *)
(* of ticks until it is reached, and 0 once it has passed.                 *)
(***************************************************************************)
EXTENDS Naturals, FiniteSets

CONSTANTS
    Notifications,
    RestSenders,      \* cli/delivery processes
    GatewaySenders,   \* cli/operator processes
    MaxAttempts,      \* 5 in the code
    Lease,            \* 60 seconds, in ticks
    Delay,            \* attempt -> 30 * 2^attempt seconds, in ticks
    RetryAfters,      \* delays Discord may ask for, in ticks
    MaxFaults,        \* bound on storage faults and crashes
    NoNote

Senders == RestSenders \union GatewaySenders

ASSUME ConstantsAssumption ==
    /\ RestSenders \intersect GatewaySenders = {}
    /\ MaxAttempts \in Nat \ {0} /\ Lease \in Nat \ {0} /\ MaxFaults \in Nat
    /\ Delay \in [1..MaxAttempts -> Nat]
    /\ RetryAfters \subseteq Nat
    /\ NoNote \notin Notifications

VARIABLES
    row,       \* notification -> its notifications and notification_delivery rows
    hold,      \* delivery_backoff: ticks until not_before, shared by the senders
    sender,    \* sender -> its position in forward_notifications
    flight,    \* notification -> requests for it on their way to Discord
    posted,    \* notification -> messages for it in the channel
    answer,    \* notification -> Discord's answer the sender has not read
    faults

vars == <<row, hold, sender, flight, posted, answer, faults>>

----------------------------------------------------------------------------
(* Data.  A notification without a notification_delivery row is "queued".  *)

Final == {"sent", "failed", "uncertain"}

Delivery == [state : Final \union {"absent", "queued", "sending", "retry"},
             attempts : 0..MaxAttempts,
             lease : Nat,
             wait : Nat]

Sender == [pc : {"idle", "batch", "send", "await", "finish"},
           batch : SUBSET Notifications,
           note : Notifications \union {NoNote},
           attempt : 0..MaxAttempts,
           outcome : Final \union {"none", "retry"},
           after : Nat]

IdleSender == [pc |-> "idle", batch |-> {}, note |-> NoNote, attempt |-> 0,
               outcome |-> "none", after |-> 0]

Larger(a, b) == IF a >= b THEN a ELSE b
Less(t) == IF t > 0 THEN t - 1 ELSE 0

Fault == faults < MaxFaults /\ faults' = faults + 1

Init ==
    /\ row = [n \in Notifications |-> [state |-> "absent", attempts |-> 0, lease |-> 0, wait |-> 0]]
    /\ hold = 0
    /\ sender = [s \in Senders |-> IdleSender]
    /\ flight = [n \in Notifications |-> 0]
    /\ posted = [n \in Notifications |-> 0]
    /\ answer = [n \in Notifications |-> "none"]
    /\ faults = 0

Tick ==
    /\ hold > 0 \/ \E n \in Notifications : row[n].lease > 0 \/ row[n].wait > 0
    /\ hold' = Less(hold)
    /\ row' = [n \in Notifications |-> [row[n] EXCEPT !.lease = Less(@), !.wait = Less(@)]]
    /\ UNCHANGED <<sender, flight, posted, answer, faults>>

(* save_notification: a producer enqueues. *)
Emit(n) ==
    /\ row[n].state = "absent"
    /\ row' = [row EXCEPT ![n].state = "queued"]
    /\ UNCHANGED <<hold, sender, flight, posted, answer, faults>>

----------------------------------------------------------------------------
(* forward_notifications, up to the send. *)

Expired(n) == row[n].state = "sending" /\ row[n].lease = 0

(* Mutant: rows of a dead sender are not looked at again. *)
DueWithoutExpired ==
    {n \in Notifications : row[n].state = "queued" \/ (row[n].state = "retry" /\ row[n].wait = 0)}

(* get_delivery_notifications; its limit of 100 rows and its order of age  *)
(* are left out: every row it returns can move on or waits for hold alone. *)
Due == {n \in Notifications :
          \/ row[n].state = "queued"
          \/ row[n].state = "retry" /\ row[n].wait = 0
          \/ Expired(n)}

Poll(s) ==
    /\ sender[s].pc = "idle" /\ Due # {}
    /\ sender' = [sender EXCEPT ![s].pc = "batch", ![s].batch = Due]
    /\ UNCHANGED <<row, hold, flight, posted, answer, faults>>

(* On to the rest of the batch. *)
NextRow(s, n) ==
    LET others == sender[s].batch \ {n} IN
    sender' = [sender EXCEPT ![s] =
                 [IdleSender EXCEPT !.batch = others,
                                    !.pc = IF others = {} THEN "idle" ELSE "batch"]]

Claimable(n) ==
    /\ row[n].state \in {"queued", "retry"}
    /\ row[n].attempts < MaxAttempts
    /\ row[n].wait = 0
    /\ hold = 0

(* Mutant: what a dead sender left is sent again. *)
SendAgain == "retry"

(* A dead sender may have sent. *)
AfterLease == "uncertain"

(* One transaction: an expired lease closes the row, a row that may be     *)
(* sent is taken for one more attempt.                                     *)
Claim(s, n) ==
    /\ sender[s].pc = "batch" /\ n \in sender[s].batch
    /\ IF Claimable(n)
       THEN /\ row' = [row EXCEPT ![n] = [state |-> "sending", attempts |-> row[n].attempts + 1,
                                          lease |-> Lease, wait |-> 0]]
            /\ sender' = [sender EXCEPT ![s].pc = "send", ![s].note = n,
                                        ![s].attempt = row[n].attempts + 1]
       ELSE /\ row' = IF Expired(n) THEN [row EXCEPT ![n].state = AfterLease] ELSE row
            /\ NextRow(s, n)
    /\ UNCHANGED <<hold, flight, posted, answer, faults>>

ClaimFails(s, n) ==
    /\ sender[s].pc = "batch" /\ n \in sender[s].batch
    /\ NextRow(s, n)
    /\ Fault
    /\ UNCHANGED <<row, hold, flight, posted, answer>>

----------------------------------------------------------------------------
(* The send. *)

Conclude(s, outcome, after) ==
    sender' = [sender EXCEPT ![s].pc = "finish", ![s].outcome = outcome, ![s].after = after]

(* No connection was made, or (Gateway) the channel could not be resolved: *)
(* DiscordDelivery marks that retryable, DiscordTransport never does.      *)
PreSendFailure(s) ==
    /\ sender[s].pc = "send"
    /\ Conclude(s, IF s \in RestSenders THEN "retry" ELSE "uncertain", 0)
    /\ UNCHANGED <<row, hold, flight, posted, answer, faults>>

Submit(s) ==
    /\ sender[s].pc = "send"
    /\ sender' = [sender EXCEPT ![s].pc = "await"]
    /\ flight' = [flight EXCEPT ![sender[s].note] = @ + 1]
    /\ UNCHANGED <<row, hold, posted, answer, faults>>

(* An answer reaches only a sender that waits for it. *)
Answer(n, a) ==
    answer' = [answer EXCEPT ![n] =
        IF \E s \in Senders : sender[s].pc = "await" /\ sender[s].note = n THEN a ELSE "none"]

Post(n) ==
    /\ flight[n] > 0
    /\ flight' = [flight EXCEPT ![n] = @ - 1]
    /\ posted' = [posted EXCEPT ![n] = @ + 1]
    /\ Answer(n, "receipt")
    /\ UNCHANGED <<row, hold, sender, faults>>

(* HTTP 429, or another 4xx. *)
Reject(n) ==
    /\ flight[n] > 0
    /\ flight' = [flight EXCEPT ![n] = @ - 1]
    /\ \E a \in {"limited", "refused"} : Answer(n, a)
    /\ UNCHANGED <<row, hold, sender, posted, faults>>

Lose(n) ==
    /\ flight[n] > 0
    /\ flight' = [flight EXCEPT ![n] = @ - 1]
    /\ UNCHANGED <<row, hold, sender, posted, answer, faults>>

(* What the transport reports of an answer.  The Gateway client's          *)
(* DiscordTransportError carries no classification.                        *)
Classified(s, a) ==
    IF a = "receipt" THEN "sent"
    ELSE IF s \in GatewaySenders THEN "uncertain"
    ELSE IF a = "limited" THEN "retry" ELSE "failed"

ReadAnswer(s) ==
    LET n == sender[s].note
        a == answer[n]
    IN
    /\ sender[s].pc = "await" /\ a # "none"
    /\ \E t \in IF a = "limited" /\ s \in RestSenders THEN RetryAfters ELSE {0} :
          Conclude(s, Classified(s, a), t)
    /\ answer' = [answer EXCEPT ![n] = "none"]
    /\ UNCHANGED <<row, hold, flight, posted, faults>>

(* Mutant: no answer is taken for no message. *)
LoseAnswerAsFailure(s) ==
    /\ sender[s].pc = "await"
    /\ Conclude(s, "failed", 0)
    /\ answer' = [answer EXCEPT ![sender[s].note] = "none"]
    /\ UNCHANGED <<row, hold, flight, posted, faults>>

(* Any other transport error, a 5xx, a body without an id, or the timeout  *)
(* of forward_notifications: Discord may still post the message.           *)
LoseAnswer(s) ==
    /\ sender[s].pc = "await"
    /\ Conclude(s, "uncertain", 0)
    /\ answer' = [answer EXCEPT ![sender[s].note] = "none"]
    /\ UNCHANGED <<row, hold, flight, posted, faults>>

----------------------------------------------------------------------------
(* finish_notification_delivery. *)

StateAfter(outcome, attempt) ==
    IF outcome = "retry" /\ attempt >= MaxAttempts THEN "failed" ELSE outcome

(* Mutant: the receipt is written whoever owns the row. *)
OwnsAnyway(s) == TRUE

(* The row is still sending the attempt this sender claimed. *)
Owns(s) ==
    LET r == row[sender[s].note] IN r.state = "sending" /\ r.attempts = sender[s].attempt

(* A sender that no longer owns the row gets a StorageError and goes on.   *)
(* "sent" also sets notifications.forwarded in the same transaction.       *)
Finish(s) ==
    LET n == sender[s].note
        after == sender[s].after
    IN
    /\ sender[s].pc = "finish"
    /\ IF Owns(s)
       THEN /\ row' = [row EXCEPT ![n] =
                 [state |-> StateAfter(sender[s].outcome, sender[s].attempt),
                  attempts |-> row[n].attempts,
                  lease |-> 0,
                  wait |-> Larger(Delay[sender[s].attempt], after)]]
            /\ hold' = Larger(hold, after)
       ELSE UNCHANGED <<row, hold>>
    /\ NextRow(s, n)
    /\ UNCHANGED <<flight, posted, answer, faults>>

FinishFails(s) ==
    /\ sender[s].pc = "finish"
    /\ NextRow(s, sender[s].note)
    /\ Fault
    /\ UNCHANGED <<row, hold, flight, posted, answer>>

(* The process dies, or is cancelled at shutdown. *)
Crash(s) ==
    /\ sender[s].pc # "idle"
    /\ sender' = [sender EXCEPT ![s] = IdleSender]
    /\ answer' = [n \in Notifications |->
                    IF n = sender[s].note /\ sender[s].pc = "await" THEN "none" ELSE answer[n]]
    /\ Fault
    /\ UNCHANGED <<row, hold, flight, posted>>

----------------------------------------------------------------------------
Step(s) ==
    \/ Poll(s)
    \/ \E n \in sender[s].batch : Claim(s, n) \/ ClaimFails(s, n)
    \/ PreSendFailure(s) \/ Submit(s)
    \/ ReadAnswer(s) \/ LoseAnswer(s)
    \/ Finish(s) \/ FinishFails(s)

Discord(n) == Post(n) \/ Reject(n) \/ Lose(n)

Next ==
    \/ Tick
    \/ \E n \in Notifications : Emit(n) \/ Discord(n)
    \/ \E s \in Senders : Step(s) \/ Crash(s)

Spec == Init /\ [][Next]_vars

(* Time passes, and a sender polls again (or is restarted) and ends what   *)
(* it does: every send has a timeout.                                      *)
FairSpec == Spec /\ WF_vars(Tick) /\ \A s \in Senders : WF_vars(Step(s))

----------------------------------------------------------------------------
(* Properties. *)

(* Every variable has its type; attempts never exceed MaxAttempts.         *)
TypeOK ==
    /\ row \in [Notifications -> Delivery]
    /\ hold \in Nat /\ faults \in 0..MaxFaults
    /\ sender \in [Senders -> Sender]
    /\ flight \in [Notifications -> Nat]
    /\ posted \in [Notifications -> Nat]
    /\ answer \in [Notifications -> {"none", "receipt", "limited", "refused"}]

(* No notification appears twice in the channel, with two senders, crashes,*)
(* expired leases and lost answers: an ambiguous send is never repeated.   *)
PostedAtMostOnce == \A n \in Notifications : posted[n] + flight[n] <= 1

(* The dashboard's delivery state is true: sent means the message is in    *)
(* the channel, failed that it is not and never will be; only uncertain    *)
(* leaves it open.                                                         *)
StateTruthful ==
    \A n \in Notifications :
        /\ row[n].state = "sent" => posted[n] = 1
        /\ row[n].state = "failed" => posted[n] + flight[n] = 0

(* A final state stays: a sender that comes back after its lease ran out   *)
(* does not overwrite what another sender concluded.                       *)
OutcomeFinal ==
    [][\A n \in Notifications :
         row[n].state \in Final => row'[n].state = row[n].state]_vars

(* Every notification reaches a final state: none is retried for ever or   *)
(* left behind in a dead sender's lease.                                   *)
Settles ==
    \A n \in Notifications : row[n].state # "absent" ~> row[n].state \in Final
=============================================================================
