--------------------------- MODULE SharedConnection ---------------------------
(***************************************************************************)
(* SQLiteStorageAdapter, statement by statement.  The tasks of a process   *)
(* share one connection and with it one transaction: what one of them      *)
(* commits or rolls back is what all of them have written since the last   *)
(* commit.  Only claim_pending_command opens a connection of its own, and  *)
(* only cli/harvest keeps its two loops apart with a lock.                 *)
(*                                                                         *)
(* One database file in WAL mode, which lets one connection write at a     *)
(* time; the others wait, or are told "database is locked" after a while.  *)
(***************************************************************************)
EXTENDS Integers, FiniteSets

CONSTANTS
    Tasks,
    Kind,           \* [Tasks -> {"save", "reserve", "claim"}]: what it calls
    Connection,     \* [Tasks -> connections]
    CycleTasks,     \* the tasks that run under storage_cycle_lock
    MaxWrites,      \* of each task
    MaxFaults       \* of a behaviour: disk, I/O, a lock held too long

VARIABLES
    file,       \* what is committed: the saved rows and the unsettled claims
    writer,     \* the connection in a write transaction, or "none"
    draft,      \* file as that transaction leaves it
    task,       \* [Tasks -> where it is and how often it has written]
    cycle,      \* holder of storage_cycle_lock, or "none"
    acked,      \* history: the rows whose save or claim has returned
    up,         \* connections that are open
    faults

vars == <<file, writer, draft, task, cycle, acked, up, faults>>

Row(t) == [by |-> t, n |-> task[t].n]
Claimant(t) == Kind[t] \in {"reserve", "claim"}
On(t) == Connection[t]

(* Reads of a connection see its own transaction. *)
View(c) == IF writer = c THEN draft ELSE file
MayWrite(c) == writer \in {"none", c}

At(t, pc) == task[t].pc = pc /\ On(t) \in up
Goto(t, pc) == task' = [task EXCEPT ![t].pc = pc]

(* The call is over, and with it the cycle. *)
Return(t) ==
    /\ Goto(t, "idle")
    /\ cycle' = IF cycle = t THEN "none" ELSE cycle

----------------------------------------------------------------------------
(* Nobody waits for another's cycle. *)
ExcludedNever(t) == FALSE

(* async with storage_cycle_lock *)
Excluded(t) == t \in CycleTasks /\ cycle # "none"

(* A loop comes round, a handler is called, an operator types. *)
Call(t) ==
    /\ At(t, "idle") /\ task[t].n < MaxWrites
    /\ ~Excluded(t)
    /\ cycle' = IF t \in CycleTasks THEN t ELSE cycle
    /\ task' = [task EXCEPT ![t] = [pc |-> IF Claimant(t) THEN "begin" ELSE "write", n |-> @.n + 1]]
    /\ UNCHANGED <<file, writer, draft, acked, up, faults>>

(* BEGIN IMMEDIATE, of a claim.  No connection that claims is in a         *)
(* transaction of another task then, which would make it fail.             *)
Begin(t) ==
    /\ At(t, "begin") /\ writer = "none"
    /\ writer' = On(t) /\ draft' = file
    /\ Goto(t, "check")
    /\ UNCHANGED <<file, cycle, acked, up, faults>>

(* An unsettled claim refuses the next one. *)
Check(t) ==
    /\ At(t, "check")
    /\ Goto(t, IF View(On(t)).claims = {} THEN "write" ELSE "rollback")
    /\ UNCHANGED <<file, writer, draft, cycle, acked, up, faults>>

(* The statement of a save opens a transaction if none is open.  After a   *)
(* foreign commit or rollback a claim's INSERT would open one, too.        *)
Write(t) ==
    /\ At(t, "write") /\ MayWrite(On(t))
    /\ writer' = On(t)
    /\ draft' = IF Claimant(t) THEN [View(On(t)) EXCEPT !.claims = @ \union {Row(t)}]
                ELSE [View(On(t)) EXCEPT !.saved = @ \union {Row(t)}]
    /\ Goto(t, "commit")
    /\ UNCHANGED <<file, cycle, acked, up, faults>>

(* COMMIT, which does nothing where no transaction is open *)
Commit(t) ==
    /\ file' = View(On(t))
    /\ writer' = IF writer = On(t) THEN "none" ELSE writer
    /\ UNCHANGED draft

CommitSave(t) ==
    /\ At(t, "commit") /\ ~Claimant(t)
    /\ Commit(t)
    /\ acked' = acked \union {Row(t)}
    /\ Return(t)
    /\ UNCHANGED <<up, faults>>

(* The claim stands: the caller goes on to Kraken, or to dispatch. *)
CommitClaim(t) ==
    /\ At(t, "commit") /\ Claimant(t)
    /\ Commit(t)
    /\ acked' = acked \union {Row(t)}
    /\ IF Kind[t] = "reserve" THEN Goto(t, "settle") /\ UNCHANGED cycle ELSE Return(t)
    /\ UNCHANGED <<up, faults>>

(* finalize_withdrawal_claim, for an answer that decides the claim *)
Settle(t) ==
    /\ At(t, "settle") /\ MayWrite(On(t))
    /\ IF Row(t) \in View(On(t)).claims
       THEN /\ writer' = On(t)
            /\ draft' = [View(On(t)) EXCEPT !.claims = @ \ {Row(t)}]
            /\ Goto(t, "settled")
       ELSE Goto(t, "rollback") /\ UNCHANGED <<writer, draft>>
    /\ UNCHANGED <<file, cycle, acked, up, faults>>

CommitSettled(t) ==
    /\ At(t, "settled")
    /\ Commit(t)
    /\ acked' = acked \ {Row(t)}
    /\ Return(t)
    /\ UNCHANGED <<up, faults>>

(* A statement fails: the row violates the schema, the disk is full, the   *)
(* lock was not to be had.                                                 *)
Fail(t) ==
    /\ \E pc \in {"begin", "check", "write", "commit", "settle", "settled"} : At(t, pc)
    /\ faults < MaxFaults
    /\ faults' = faults + 1
    /\ Goto(t, "rollback")
    /\ UNCHANGED <<file, writer, draft, cycle, acked, up>>

(* Everything the connection has not committed goes, whoever wrote it. *)
Rollback(t) ==
    /\ At(t, "rollback")
    /\ writer' = IF writer = On(t) THEN "none" ELSE writer
    /\ Return(t)
    /\ UNCHANGED <<file, draft, acked, up, faults>>

----------------------------------------------------------------------------
Connections == {Connection[t] : t \in Tasks}

Die(c) ==
    /\ c \in up /\ faults < MaxFaults
    /\ faults' = faults + 1
    /\ up' = up \ {c}
    /\ writer' = IF writer = c THEN "none" ELSE writer
    /\ task' = [t \in Tasks |-> IF On(t) = c THEN [task[t] EXCEPT !.pc = "idle"] ELSE task[t]]
    /\ cycle' = IF cycle # "none" /\ Connection[cycle] = c THEN "none" ELSE cycle
    /\ UNCHANGED <<file, draft, acked>>

(* connect: schema and migrations write, too *)
Connect(c) ==
    /\ c \in Connections \ up
    /\ writer = "none"
    /\ up' = up \union {c}
    /\ UNCHANGED <<file, writer, draft, task, cycle, acked, faults>>

Init ==
    /\ file = [saved |-> {}, claims |-> {}]
    /\ writer = "none" /\ draft = file
    /\ task = [t \in Tasks |-> [pc |-> "idle", n |-> 0]]
    /\ cycle = "none" /\ acked = {}
    /\ up = Connections /\ faults = 0

Next ==
    \/ \E t \in Tasks :
          \/ Call(t) \/ Begin(t) \/ Check(t) \/ Write(t)
          \/ CommitSave(t) \/ CommitClaim(t) \/ Settle(t) \/ CommitSettled(t)
          \/ Fail(t) \/ Rollback(t)
    \/ \E c \in Connections : Die(c) \/ Connect(c)

Spec == Init /\ [][Next]_vars

----------------------------------------------------------------------------
(* Properties. *)

(* adapters/sqlite_storage.py:1796, "an unrelated coroutine's rollback on  *)
(* the shared adapter cannot erase the claim", and cli/harvest.py:260, "a  *)
(* proposal write must never commit halfway through the withdrawal claim's *)
(* BEGIN IMMEDIATE transaction": a claim its owner may act on is in the    *)
(* file, and is the only one there.                                        *)
ClaimsHold ==
    /\ \A t \in Tasks : Claimant(t) /\ Row(t) \in acked => Row(t) \in file.claims
    /\ Cardinality(file.claims) <= 1

(* ports/storage.py:924, "Raises StorageError: If save fails": a save that *)
(* returned is in the file.                                                *)
ReturnedIsSaved ==
    \A row \in acked : ~Claimant(row.by) => row \in file.saved

=============================================================================
