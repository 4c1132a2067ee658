-------------------------- MODULE PendingCommands --------------------------
(***************************************************************************)
(* The life of an operator command in operator.db.  A surface (web or      *)
(* Discord) inserts the row; concurrent decision handlers read it and      *)
(* later write approved, rejected or expired over it; the TTL expirer of   *)
(* cli/operator does the same from a snapshot of its own; the daemon that  *)
(* owns the command's kind (cli/live or cli/harvest) polls approved rows,  *)
(* claims each one durably, dispatches it and writes a receipt.  Every     *)
(* write is one SQLite statement checked by two triggers; nothing else     *)
(* orders the processes, and any of them may die between two statements.   *)
(***************************************************************************)
EXTENDS Naturals, FiniteSets

CONSTANTS
    Commands,     \* rows of pending_commands
    WebHandlers,      \* confirm_submit requests in progress
    DiscordHandlers,  \* apply_confirm_decision calls in progress
    Daemons,      \* processes that consume approved commands
    Role,         \* daemon -> "live" or "harvest", which fixes its kinds
    Owner,        \* command -> the role whose kinds include it
    TTL,          \* minutes a decision, and its claim, may take
    MaxTime,      \* bound on the clock
    MaxFaults,    \* bound on storage faults and daemon crashes
    NoOne, NoTime, NoCommand

Roles    == {"live", "harvest"}
Handlers == WebHandlers \union DiscordHandlers

ASSUME ConstantsAssumption ==
    /\ Role \in [Daemons -> Roles] /\ Owner \in [Commands -> Roles]
    /\ TTL \in Nat \ {0} /\ MaxTime \in Nat /\ MaxFaults \in Nat
    /\ NoTime \notin Nat
    /\ NoOne \notin Handlers
    /\ NoCommand \notin Commands

VARIABLES
    now,        \* wall clock
    table,      \* pending_commands: command -> row
    claims,     \* command_claims: command -> claimed_at
    handler,    \* decision handler -> its position and what it read
    sweep,      \* rows the TTL expirer has read and will expire
    consumer,   \* daemon -> its position in _process_pending_commands
    effects,    \* command -> how often a dispatch reached the engine or Kraken
    faults      \* storage faults and crashes so far

vars == <<now, table, claims, handler, sweep, consumer, effects, faults>>

----------------------------------------------------------------------------
(* Data. *)

Stamp == Nat \union {NoTime}

Terminal == {"rejected", "expired", "dispatched", "failed"}

Row == [status : Terminal \union {"absent", "awaiting_confirmation", "approved"},
        by : Handlers \union {NoOne},
        at : Stamp,
        ttl : Nat,
        result : {"none", "success", "refusal"}]

NoRow == [status |-> "absent", by |-> NoOne, at |-> NoTime, ttl |-> 0, result |-> "none"]

Handler == [pc : {"idle", "read", "save"},
            cmd : Commands \union {NoCommand},
            stamp : Stamp,
            row : Row]

IdleHandler == [pc |-> "idle", cmd |-> NoCommand, stamp |-> NoTime, row |-> NoRow]

(* A polled row: the daemon works on its own copy. *)
Polled == [cmd : Commands, row : Row]

Consumer == [pc : {"idle", "batch", "dispatch", "receipt"},
             batch : SUBSET Polled,
             cmd : Commands \union {NoCommand},
             row : Row]

IdleConsumer == [pc |-> "idle", batch |-> {}, cmd |-> NoCommand, row |-> NoRow]

Claimed(c) == claims[c] # NoTime

(* "claimed" is what a reader sees of an approved row with a claim. *)
Visible(c) == IF table[c].status = "approved" /\ Claimed(c) THEN "claimed" ELSE table[c].status

----------------------------------------------------------------------------
(* The triggers every UPDATE of a row runs through. *)

(* Mutant: the confirmation of a decided row may be rewritten. *)
AnyConfirmation(old, new) == TRUE

(* pending_command_immutable: a decided row keeps who confirmed it and when. *)
KeepsConfirmation(old, new) ==
    old.status # "awaiting_confirmation" => new.by = old.by /\ new.at = old.at

(* pending_command_transition. *)
LegalTransition(old, new) ==
    \/ /\ old.status = "awaiting_confirmation"
       /\ new.status \in {"awaiting_confirmation", "approved", "rejected", "expired"}
    \/ /\ old.status = "approved"
       /\ new.status \in {"dispatched", "failed", "expired"}
    \/ old = new

Accepts(c, new) == KeepsConfirmation(table[c], new) /\ LegalTransition(table[c], new)

(* save_pending_command on an existing row: written, or ABORTed unchanged. *)
Save(c, new) == table' = IF Accepts(c, new) THEN [table EXCEPT ![c] = new] ELSE table

Fault == faults < MaxFaults /\ faults' = faults + 1

----------------------------------------------------------------------------
Init ==
    /\ now = 0
    /\ table = [c \in Commands |-> NoRow]
    /\ claims = [c \in Commands |-> NoTime]
    /\ handler = [h \in Handlers |-> IdleHandler]
    /\ sweep = {}
    /\ consumer = [k \in Daemons |-> IdleConsumer]
    /\ effects = [c \in Commands |-> 0]
    /\ faults = 0

Tick ==
    /\ now < MaxTime
    /\ now' = now + 1
    /\ UNCHANGED <<table, claims, handler, sweep, consumer, effects, faults>>

(* _create_pending: a fresh row awaiting confirmation. *)
Request(c) ==
    /\ table[c].status = "absent"
    /\ now + TTL <= MaxTime
    /\ table' = [table EXCEPT ![c] = [NoRow EXCEPT !.status = "awaiting_confirmation",
                                                    !.ttl = now + TTL]]
    /\ UNCHANGED <<now, claims, handler, sweep, consumer, effects, faults>>

----------------------------------------------------------------------------
(* A decision handler: read the row, decide, write the whole row back. *)

(* The Discord path takes its timestamp before it reads the row. *)
Click(h, c) ==
    /\ handler[h].pc = "idle"
    /\ table[c].status # "absent"
    /\ handler' = [handler EXCEPT ![h] =
                     [IdleHandler EXCEPT !.pc = "read", !.cmd = c,
                        !.stamp = IF h \in DiscordHandlers THEN now ELSE NoTime]]
    /\ UNCHANGED <<now, table, claims, sweep, consumer, effects, faults>>

(* The decided row as of the handler's timestamp: expiry wins over the click. *)
Decision(row, h, t, verdict) ==
    IF row.ttl <= t THEN [row EXCEPT !.status = "expired"]
    ELSE [row EXCEPT !.status = verdict, !.by = h, !.at = t]

(* The web path takes its timestamp after the read. *)
ReadAndDecide(h) ==
    LET c == handler[h].cmd
        t == IF h \in DiscordHandlers THEN handler[h].stamp ELSE now
    IN
    /\ handler[h].pc = "read"
    /\ IF Visible(c) = "awaiting_confirmation"
       THEN \E verdict \in {"approved", "rejected"} :
              handler' = [handler EXCEPT ![h].pc = "save", ![h].stamp = t,
                                         ![h].row = Decision(table[c], h, t, verdict)]
       ELSE handler' = [handler EXCEPT ![h] = IdleHandler]
    /\ UNCHANGED <<now, table, claims, sweep, consumer, effects, faults>>

WriteDecision(h) ==
    /\ handler[h].pc = "save"
    /\ Save(handler[h].cmd, handler[h].row)
    /\ handler' = [handler EXCEPT ![h] = IdleHandler]
    /\ UNCHANGED <<now, claims, sweep, consumer, effects, faults>>

(* A storage error, or the process dies: the decision is not recorded. *)
DropDecision(h) ==
    /\ handler[h].pc # "idle"
    /\ handler' = [handler EXCEPT ![h] = IdleHandler]
    /\ UNCHANGED <<now, table, claims, sweep, consumer, effects, faults>>

----------------------------------------------------------------------------
(* _expire_stale_pending_commands: a snapshot, then one write per row. *)

(* Nobody has decided these rows and their TTL is over. *)
Overdue == {c \in Commands : table[c].status = "awaiting_confirmation" /\ table[c].ttl <= now}

SweepRead ==
    /\ sweep = {} /\ Overdue # {}
    /\ sweep' = Overdue
    /\ UNCHANGED <<now, table, claims, handler, consumer, effects, faults>>

(* The row written is the one read: still unconfirmed, now expired. *)
ExpireRow(c) ==
    /\ c \in sweep
    /\ Save(c, [NoRow EXCEPT !.status = "expired", !.ttl = table[c].ttl])
    /\ sweep' = sweep \ {c}
    /\ UNCHANGED <<now, claims, handler, consumer, effects, faults>>

ExpireFails(c) ==
    /\ c \in sweep
    /\ sweep' = sweep \ {c}
    /\ Fault
    /\ UNCHANGED <<now, table, claims, handler, consumer, effects>>

----------------------------------------------------------------------------
(* The consuming daemons. *)

(* get_pending_commands(status='approved', kinds=...). *)
Ready(k) == {c \in Commands : Owner[c] = Role[k] /\ Visible(c) = "approved"}

Poll(k) ==
    /\ consumer[k].pc = "idle" /\ Ready(k) # {}
    /\ consumer' = [consumer EXCEPT
          ![k].pc = "batch",
          ![k].batch = {[cmd |-> c, row |-> table[c]] : c \in Ready(k)}]
    /\ UNCHANGED <<now, table, claims, handler, sweep, effects, faults>>

(* Leave one polled row behind; the poll ends with its last row. *)
Rest(k, q) == [IdleConsumer EXCEPT !.batch = consumer[k].batch \ {q},
                                   !.pc = IF consumer[k].batch = {q} THEN "idle" ELSE "batch"]
Skip(k, q) == consumer' = [consumer EXCEPT ![k] = Rest(k, q)]

(* Mutant: the claim trusts the poll and does not look at the clock. *)
ValidWhenPolled(q) ==
    /\ table[q.cmd].status = "approved"
    /\ table[q.cmd].by = q.row.by /\ table[q.cmd].at = q.row.at

(* The approval is the one polled, and still within its TTL. *)
Valid(q) ==
    /\ table[q.cmd].status = "approved"
    /\ table[q.cmd].by = q.row.by /\ table[q.cmd].at = q.row.at
    /\ table[q.cmd].ttl > now

(* Mutant: the claim table does not refuse a second claim. *)
FreeForAll(c) == TRUE

(* command_claims has no row for the command: its primary key is free. *)
Free(c) == ~ Claimed(c)

(* Mutant: an approval that ran out of time is left approved. *)
LeaveLapsed(c) == table' = table

(* claim_pending_command also expires an unclaimed approval past its TTL. *)
ExpireLapsed(c) ==
    table' = IF table[c].status = "approved" /\ table[c].ttl <= now /\ ~ Claimed(c)
             THEN [table EXCEPT ![c].status = "expired"] ELSE table

(* One transaction: insert the claim if the approval is valid and          *)
(* unclaimed, else expire it if it has lapsed.                             *)
Claim(k, q) ==
    /\ consumer[k].pc = "batch" /\ q \in consumer[k].batch
    /\ IF Valid(q) /\ Free(q.cmd)
       THEN /\ claims' = [claims EXCEPT ![q.cmd] = now]
            /\ consumer' = [consumer EXCEPT ![k] = [pc |-> "dispatch", cmd |-> q.cmd,
                               row |-> q.row, batch |-> consumer[k].batch \ {q}]]
            /\ table' = table
       ELSE /\ claims' = claims
            /\ Skip(k, q)
            /\ ExpireLapsed(q.cmd)
    /\ UNCHANGED <<now, handler, sweep, effects, faults>>

(* StorageError: cli/harvest skips the row, cli/live gives up the poll. *)
ClaimFails(k, q) ==
    /\ consumer[k].pc = "batch" /\ q \in consumer[k].batch
    /\ IF Role[k] = "harvest" THEN Skip(k, q)
       ELSE consumer' = [consumer EXCEPT ![k] = IdleConsumer]
    /\ Fault
    /\ UNCHANGED <<now, table, claims, handler, sweep, effects>>

(* The dispatch returns; a receipt is prepared from the daemon's own copy. *)
Return(k, status, result) ==
    consumer' = [consumer EXCEPT ![k].pc = "receipt",
                                 ![k].row.status = status,
                                 ![k].row.result = result]

Effect(c, n) == effects' = [effects EXCEPT ![c] = @ + n]

(* Success means that the effect happened. *)
DispatchSucceeds(k) ==
    /\ consumer[k].pc = "dispatch"
    /\ Effect(consumer[k].cmd, 1)
    /\ Return(k, "dispatched", "success")
    /\ UNCHANGED <<now, table, claims, handler, sweep, faults>>

(* A refusal or an OperatorError may follow a partial or unverified effect.*)
(* cli/live records any result that returns as dispatched, also an         *)
(* unsuccessful one; cli/harvest records it as failed.                     *)
DispatchRefused(k) ==
    /\ consumer[k].pc = "dispatch"
    /\ \E n \in {0, 1} : Effect(consumer[k].cmd, n)
    /\ \/ Return(k, "failed", "refusal")
       \/ Role[k] = "live" /\ Return(k, "dispatched", "refusal")
    /\ UNCHANGED <<now, table, claims, handler, sweep, faults>>

(* The batch goes on with its next row. *)
NextRow(k) ==
    consumer' = [consumer EXCEPT ![k] =
        [IdleConsumer EXCEPT !.batch = consumer[k].batch,
                             !.pc = IF consumer[k].batch = {} THEN "idle" ELSE "batch"]]

WriteReceipt(k) ==
    /\ consumer[k].pc = "receipt"
    /\ Save(consumer[k].cmd, consumer[k].row)
    /\ NextRow(k)
    /\ UNCHANGED <<now, claims, handler, sweep, effects, faults>>

(* The claim survives the missing receipt: the row stays claimed for ever. *)
ReceiptFails(k) ==
    /\ consumer[k].pc = "receipt"
    /\ NextRow(k)
    /\ Fault
    /\ UNCHANGED <<now, table, claims, handler, sweep, effects>>

(* Mutant: a restart gives the interrupted command back. *)
CrashReleasesClaim(k) ==
    /\ consumer[k].pc # "idle"
    /\ consumer' = [consumer EXCEPT ![k] = IdleConsumer]
    /\ claims' = [c \in Commands |-> IF c = consumer[k].cmd THEN NoTime ELSE claims[c]]
    /\ Fault
    /\ UNCHANGED <<now, table, handler, sweep, effects>>

(* The daemon dies; what it holds in memory is lost, the database is not.  *)
(* An exception the loop does not expect ends the poll in the same way.    *)
Crash(k) ==
    /\ consumer[k].pc # "idle"
    /\ consumer' = [consumer EXCEPT ![k] = IdleConsumer]
    /\ claims' = claims
    /\ Fault
    /\ UNCHANGED <<now, table, handler, sweep, effects>>

----------------------------------------------------------------------------
Handle(h) == ReadAndDecide(h) \/ WriteDecision(h) \/ DropDecision(h)

Expire == SweepRead \/ \E c \in Commands : ExpireRow(c) \/ ExpireFails(c)

Consume(k) ==
    \/ Poll(k)
    \/ \E q \in consumer[k].batch : Claim(k, q) \/ ClaimFails(k, q)
    \/ DispatchSucceeds(k) \/ DispatchRefused(k)
    \/ WriteReceipt(k) \/ ReceiptFails(k)

Next ==
    \/ Tick \/ Expire
    \/ \E c \in Commands : Request(c)
    \/ \E h \in Handlers : Handle(h) \/ \E c \in Commands : Click(h, c)
    \/ \E k \in Daemons : Consume(k) \/ Crash(k)

Spec == Init /\ [][Next]_vars

(* The clock runs, the expirer and the daemons keep polling, and a handler *)
(* that has begun ends.  No operator is obliged to decide anything.        *)
FairSpec ==
    /\ Spec
    /\ WF_vars(Tick) /\ WF_vars(Expire)
    /\ \A h \in Handlers : WF_vars(Handle(h))
    /\ \A k \in Daemons : WF_vars(Consume(k))

----------------------------------------------------------------------------
(* Properties. *)

(* Every variable has its type. *)
TypeOK ==
    /\ now \in Nat /\ faults \in 0..MaxFaults
    /\ table \in [Commands -> Row]
    /\ claims \in [Commands -> Stamp]
    /\ handler \in [Handlers -> Handler]
    /\ sweep \subseteq Commands
    /\ consumer \in [Daemons -> Consumer]
    /\ effects \in [Commands -> Nat]

(* A command takes effect at most once, with competing instances of the    *)
(* same daemon, crashes, restarts and receipts that could not be written.  *)
EffectAtMostOnce == \A c \in Commands : effects[c] <= 1

(* What took effect was approved by somebody and stays on record as        *)
(* approved, dispatched or failed: no decision read earlier and written    *)
(* later turns an executed command into a rejected or expired one.         *)
EffectWasApproved ==
    \A c \in Commands :
        effects[c] > 0 => /\ table[c].by # NoOne
                          /\ table[c].status \in {"approved", "dispatched", "failed"}

(* A claim is taken after the approval and before the TTL runs out, even   *)
(* when the daemon polled the row long before it claims it.                *)
ClaimWithinTTL ==
    \A c \in Commands :
        Claimed(c) => claims[c] < table[c].ttl /\ table[c].at <= claims[c]

(* A decided row keeps its confirmation; only an approval may still move,  *)
(* to the outcome of its dispatch or past its TTL.                         *)
Stands(c) ==
    table[c].status \notin {"absent", "awaiting_confirmation"} =>
        /\ table'[c].by = table[c].by /\ table'[c].at = table[c].at
        /\ table'[c].status # table[c].status =>
              /\ table[c].status = "approved"
              /\ table'[c].status \in {"dispatched", "failed", "expired"}

(* The first decision stands: of two handlers and the expirer that all     *)
(* read the row undecided, one wins, and who confirmed it and when never   *)
(* changes afterwards; a terminal row never changes at all.                *)
DecisionStands == [][\A c \in Commands : Stands(c)]_vars

(* No command waits for ever: the TTL closes what nobody decided, and what *)
(* is approved is claimed by its daemon or expires, although a poll, a     *)
(* claim or a receipt may fail and a daemon die.                           *)
Undecided(c) == table[c].status = "awaiting_confirmation"
Lingering(c) == Visible(c) = "approved"

CommandSettles ==
    \A c \in Commands : Undecided(c) \/ Lingering(c) ~> ~(Undecided(c) \/ Lingering(c))
=============================================================================
