----------------------------- MODULE KrakenKey -----------------------------
(***************************************************************************)
(* Signed requests of one process with one API key (_private_post): each   *)
(* carries a nonce, and Kraken refuses one that is not above the highest   *)
(* it has seen with this key.  The tasks of the process share the counter  *)
(* and a lock that is held from the draw of the nonce until the request is *)
(* answered or given up, but not while a rate-limited request waits to be  *)
(* tried again.  A request given up may still reach Kraken later.          *)
(*                                                                         *)
(* Other processes with the same key, and a restart after the clock went   *)
(* back, are outside of what the counter can see; so they are here.        *)
(***************************************************************************)
EXTENDS Integers

CONSTANTS
    Tasks,
    MaxClock,       \* bound of the wall clock, in milliseconds
    MaxNonce,       \* bound of a behaviour
    MaxRetries      \* _RATE_LIMIT_MAX_RETRIES

ASSUME KrakenKeyAssumption == "nobody" \notin Tasks /\ MaxClock \in Nat

VARIABLES
    clock,       \* time.time_ns(), which may jump
    last,        \* _LAST_NONCE_BY_KEY
    lock,        \* holder of _NONCE_LOCKS, or "nobody"
    task,        \* what each task is doing
    wire,        \* requests on their way to Kraken
    seen         \* the highest nonce Kraken has seen

vars == <<clock, last, lock, task, wire, seen>>

Idle == [pc |-> "idle", nonce |-> 0, attempt |-> 0, answer |-> "none"]

(* About to take the lock, for the attempt-th time. *)
Waiting(attempt) == [pc |-> "lock", nonce |-> 0, attempt |-> attempt, answer |-> "none"]

Begin(t) ==
    /\ task[t].pc = "idle"
    /\ task' = [task EXCEPT ![t] = Waiting(1)]
    /\ UNCHANGED <<clock, last, lock, wire, seen>>

(* _make_nonce, by the clock alone *)
ClockNonce == clock

(* _make_nonce *)
MakeNonce == IF clock > last THEN clock ELSE last + 1

(* The lock taken, nothing is awaited until the request is sent. *)
Send(t) ==
    /\ task[t].pc = "lock" /\ lock = "nobody"
    /\ MakeNonce <= MaxNonce
    /\ last' = MakeNonce
    /\ lock' = t
    /\ wire' = wire \union {[from |-> t, nonce |-> MakeNonce]}
    /\ task' = [task EXCEPT ![t].pc = "sent", ![t].nonce = MakeNonce]
    /\ UNCHANGED <<clock, seen>>

(* Kraken takes requests in any order. *)
Arrive(r) ==
    /\ r \in wire
    /\ wire' = wire \ {r}
    /\ seen' = IF r.nonce > seen THEN r.nonce ELSE seen
    /\ task' = IF task[r.from].pc = "sent" /\ task[r.from].nonce = r.nonce
               THEN [task EXCEPT ![r.from].answer =
                       IF r.nonce > seen THEN "taken" ELSE "invalid nonce"]
               ELSE task
    /\ UNCHANGED <<clock, last, lock>>

(* An answer, a refusal for another reason included. *)
Receive(t) ==
    /\ task[t].pc = "sent" /\ task[t].answer # "none"
    /\ lock' = "nobody"
    /\ task' = [task EXCEPT ![t] = Idle]
    /\ UNCHANGED <<clock, last, wire, seen>>

(* EAPI:Rate limit exceeded is tried again, with a new nonce, a while after *)
RateLimited(t) ==
    /\ task[t].pc = "sent" /\ task[t].answer = "taken"
    /\ task[t].attempt <= MaxRetries
    /\ lock' = "nobody"
    /\ task' = [task EXCEPT ![t] = Waiting(task[t].attempt + 1)]
    /\ UNCHANGED <<clock, last, wire, seen>>

(* httpx.HTTPError: the request timed out or its connection broke. *)
GiveUp(t) ==
    /\ task[t].pc = "sent"
    /\ lock' = "nobody"
    /\ task' = [task EXCEPT ![t] = Idle]
    /\ UNCHANGED <<clock, last, wire, seen>>

Lose(r) ==
    /\ r \in wire
    /\ wire' = wire \ {r}
    /\ UNCHANGED <<clock, last, lock, task, seen>>

ClockMoves ==
    /\ clock' \in (0..MaxClock) \ {clock}
    /\ UNCHANGED <<last, lock, task, wire, seen>>

Init ==
    /\ clock = 0 /\ last = 0 /\ seen = -1
    /\ lock = "nobody"
    /\ task = [t \in Tasks |-> Idle]
    /\ wire = {}

Next ==
    \/ \E t \in Tasks : Begin(t) \/ Send(t) \/ Receive(t) \/ RateLimited(t) \/ GiveUp(t)
    \/ \E r \in wire : Arrive(r) \/ Lose(r)
    \/ ClockMoves

Spec == Init /\ [][Next]_vars

----------------------------------------------------------------------------
(* Properties. *)

(* The clock may stand still or go back, requests may be given up and      *)
(* arrive late: still no task is told that its nonce is invalid.           *)
NoncesAccepted == \A t \in Tasks : task[t].answer # "invalid nonce"

=============================================================================
