-------------------------- MODULE SchemaMigration --------------------------
(***************************************************************************)
(* SQLiteStorageAdapter.connect on a file that an earlier release wrote:   *)
(* several daemons open it at once after a deploy, each brings the schema  *)
(* up to date, and each may be killed at any point or lose the write lock, *)
(* which fails its connect and has the container start it again.           *)
(*                                                                         *)
(* As the sqlite3 module of Python has it, a statement that defines schema *)
(* commits by itself unless a transaction is open, and one that changes    *)
(* rows opens a transaction.  One column stands for each group of columns  *)
(* that are added under the same circumstances, a row for those of its     *)
(* kind.  Older processes that are still running go on writing.            *)
(***************************************************************************)
EXTENDS Integers, Sequences, FiniteSets

CONSTANTS
    Daemons,
    Legacy,       \* the withdrawal results in the file: sets of Result
    Times,        \* observed_at of price snapshots
    MaxCopies     \* bound of the equal snapshots of a time

VARIABLES
    db,           \* what is committed
    tx,           \* the open write transaction: its owner and its draft
    conn,         \* [daemon -> where its connect is]
    seenCalls, seenTimes    \* history: what was ever stored

vars == <<db, tx, conn, seenCalls, seenTimes>>

Program == <<"trace_id", "rebuild", "snapshots", "guard", "submission_state", "failed",
             "offside_since", "commit">>
Columns == {"trace_id", "submission_state", "offside_since"}
Ready == Len(Program) + 1
Down == [at |-> 0, pc |-> "start"]
NoTx == [owner |-> "none", draft |-> <<>>]

(* A result before the migration has no submission_state. *)
Result(id, proposal, status) == [id |-> id, proposal |-> proposal, status |-> status,
                                 submission |-> "absent"]

----------------------------------------------------------------------------
(* SQLite *)

View(c) == IF tx.owner = c THEN tx.draft ELSE db

MayWrite(c) == tx.owner \in {c, "none"}

(* A statement that defines schema *)
Define(c, new) ==
    /\ MayWrite(c)
    /\ IF tx.owner = c THEN tx' = [tx EXCEPT !.draft = new] /\ UNCHANGED db
       ELSE db' = new /\ UNCHANGED tx

(* A statement that changes rows *)
Change(c, new) ==
    /\ MayWrite(c)
    /\ tx' = [owner |-> c, draft |-> new]
    /\ UNCHANGED db

Commit(c) == /\ tx' = NoTx
             /\ db' = View(c)

At(c, step, pc) == conn[c].at \in 1..Len(Program) /\ Program[conn[c].at] = step /\ conn[c].pc = pc
GoOn(c, pc) == conn' = [conn EXCEPT ![c].pc = pc]
NextStep(c) == conn' = [conn EXCEPT ![c] = [at |-> @.at + 1, pc |-> "start"]]

----------------------------------------------------------------------------
(* connect; the pragmas and CREATE IF NOT EXISTS do nothing to such a file *)
Open(c) ==
    /\ conn[c] = Down
    /\ NextStep(c)
    /\ UNCHANGED <<db, tx, seenCalls, seenTimes>>

(* Early return of the whole migration where the column is there *)
CheckColumnAndReturn(c) ==
    \E column \in Columns :
        /\ At(c, column, "start")
        /\ IF column \in View(c).columns
           THEN conn' = [conn EXCEPT ![c].at = IF column = "submission_state" THEN @ + 2 ELSE @ + 1]
           ELSE GoOn(c, "alter")
        /\ UNCHANGED <<db, tx, seenCalls, seenTimes>>

(* add_column_if_missing *)
CheckColumn(c) ==
    \E column \in Columns :
        /\ At(c, column, "start")
        /\ IF column \in View(c).columns THEN NextStep(c) ELSE GoOn(c, "alter")
        /\ UNCHANGED <<db, tx, seenCalls, seenTimes>>

WithColumn(d, column) ==
    [d EXCEPT !.columns = @ \union {column},
              !.results = IF column = "submission_state"
                          THEN {[r EXCEPT !.submission = "accepted"] : r \in @} ELSE @]

(* Whoever lost the race finds the column by looking again.  A failure for *)
(* another reason, the lock above all, is Abort.                           *)
AlterColumn(c) ==
    \E column \in Columns :
        /\ At(c, column, "alter")
        /\ IF column \in View(c).columns THEN UNCHANGED <<db, tx>>
           ELSE Define(c, WithColumn(View(c), column))
        /\ NextStep(c)
        /\ UNCHANGED <<seenCalls, seenTimes>>

(* migrate_llm_calls_ollama_cloud, in a savepoint of its own; its first    *)
(* statement takes the write lock                                          *)
BeginRebuild(c) ==
    /\ At(c, "rebuild", "start")
    /\ Change(c, View(c))
    /\ GoOn(c, IF View(c).wide THEN "release" ELSE "copy")
    /\ UNCHANGED <<seenCalls, seenTimes>>

CopyCalls(c) ==
    /\ At(c, "rebuild", "copy")
    /\ Change(c, [View(c) EXCEPT !.copied = View(c).calls])
    /\ GoOn(c, "drop")
    /\ UNCHANGED <<seenCalls, seenTimes>>

DropCalls(c) ==
    /\ At(c, "rebuild", "drop")
    /\ Define(c, [View(c) EXCEPT !.calls = {}])
    /\ GoOn(c, "rename")
    /\ UNCHANGED <<seenCalls, seenTimes>>

RenameCalls(c) ==
    /\ At(c, "rebuild", "rename")
    /\ Define(c, [View(c) EXCEPT !.calls = @ \union View(c).copied, !.copied = {}, !.wide = TRUE])
    /\ GoOn(c, "release")
    /\ UNCHANGED <<seenCalls, seenTimes>>

Release(c) ==
    /\ At(c, "rebuild", "release")
    /\ Commit(c)
    /\ NextStep(c)
    /\ UNCHANGED <<seenCalls, seenTimes>>

(* migrate_price_snapshots_unique: the count is not part of a transaction, *)
(* the delete opens one, and the index is in it then.                      *)
Duplicated(d) == \E t \in Times : d.snapshots[t] > 1

CountSnapshots(c) ==
    /\ At(c, "snapshots", "start")
    /\ GoOn(c, IF Duplicated(View(c)) THEN "collapse" ELSE "index")
    /\ UNCHANGED <<db, tx, seenCalls, seenTimes>>

One(n) == IF n = 0 THEN 0 ELSE 1

CollapseSnapshots(c) ==
    /\ At(c, "snapshots", "collapse")
    /\ Change(c, [View(c) EXCEPT !.snapshots = [t \in Times |-> One(@[t])]])
    /\ GoOn(c, "index")
    /\ UNCHANGED <<seenCalls, seenTimes>>

(* Refused, and the connect with it, if duplicates have come in: Abort *)
IndexSnapshots(c) ==
    /\ At(c, "snapshots", "index")
    /\ ~Duplicated(View(c))
    /\ Define(c, [View(c) EXCEPT !.unique = TRUE])
    /\ NextStep(c)
    /\ UNCHANGED <<seenCalls, seenTimes>>

(* migrate_transfer_results_unique_proposal_id *)
Blocking(d) == {r \in d.results : r.status # "failed"}
Doubled(d) == \E r, s \in Blocking(d) : r # s /\ r.proposal = s.proposal

CheckGuard(c) ==
    /\ At(c, "guard", "start")
    /\ IF Doubled(View(c)) THEN NextStep(c) ELSE GoOn(c, "index")
    /\ UNCHANGED <<db, tx, seenCalls, seenTimes>>

IndexGuard(c) ==
    /\ At(c, "guard", "index")
    /\ ~Doubled(View(c))
    /\ Define(c, [View(c) EXCEPT !.guard = TRUE])
    /\ NextStep(c)
    /\ UNCHANGED <<seenCalls, seenTimes>>

(* The second half of migrate_transfer_results_submission_state *)
HoldFailed(r) == IF r.status = "failed" /\ r.submission = "accepted"
                 THEN [r EXCEPT !.submission = "unknown"] ELSE r

MarkFailed(c) ==
    /\ At(c, "failed", "start")
    /\ Change(c, [View(c) EXCEPT !.results = {HoldFailed(r) : r \in @}])
    /\ NextStep(c)
    /\ UNCHANGED <<seenCalls, seenTimes>>

EndConnect(c) ==
    /\ At(c, "commit", "start")
    /\ Commit(c)
    /\ NextStep(c)
    /\ UNCHANGED <<seenCalls, seenTimes>>

(* Killed, or a statement failed: _close_after_failed_connect *)
Abort(c) ==
    /\ conn[c] # Down
    /\ conn' = [conn EXCEPT ![c] = Down]
    /\ tx' = IF tx.owner = c THEN NoTx ELSE tx
    /\ UNCHANGED <<db, seenCalls, seenTimes>>

----------------------------------------------------------------------------
(* Writers that are connected already, whatever their release *)

StoreCall ==
    /\ tx = NoTx
    /\ db' = [db EXCEPT !.calls = @ \union {"later"}]
    /\ seenCalls' = seenCalls \union {"later"}
    /\ UNCHANGED <<tx, conn, seenTimes>>

(* A price that is there is dropped once the index exists. *)
StoreSnapshot(t) ==
    /\ tx = NoTx
    /\ db.snapshots[t] < IF db.unique THEN 1 ELSE MaxCopies
    /\ db' = [db EXCEPT !.snapshots[t] = @ + 1]
    /\ seenTimes' = seenTimes \union {t}
    /\ UNCHANGED <<tx, conn, seenCalls>>

(* reserve_withdrawal of a daemon that is connected; the cap is            *)
(* Withdrawal's                                                            *)
Reserve(c, proposal) ==
    /\ conn[c].at = Ready
    /\ tx = NoTx
    /\ \A r \in Blocking(db) : r.proposal # proposal
    /\ \A r \in db.results : r.submission \notin {"reserved", "unknown"}
    /\ db' = [db EXCEPT !.results = @ \union
                {[Result("new", proposal, "pending") EXCEPT !.submission = "reserved"]}]
    /\ UNCHANGED <<tx, conn, seenCalls, seenTimes>>

(* The operator has looked an unknown outcome up; the guard, if it is      *)
(* there, refuses a second result of the proposal that counts.             *)
Verify(r) ==
    /\ tx = NoTx
    /\ r.submission = "unknown"
    /\ \E submission \in {"accepted", "rejected"} :
       /\ submission = "accepted" /\ db.guard => \A s \in Blocking(db) : s.proposal # r.proposal
       /\ db' = [db EXCEPT !.results = (@ \ {r}) \union
                  {[r EXCEPT !.submission = submission,
                             !.status = IF submission = "accepted" THEN "completed" ELSE @]}]
    /\ UNCHANGED <<tx, conn, seenCalls, seenTimes>>

Init ==
    /\ \E results \in Legacy :
         db = [columns |-> {}, wide |-> FALSE, calls |-> {"old"}, copied |-> {},
               snapshots |-> [t \in Times |-> 0], unique |-> FALSE, results |-> results,
               guard |-> FALSE]
    /\ tx = NoTx
    /\ conn = [c \in Daemons |-> Down]
    /\ seenCalls = {"old"} /\ seenTimes = {}

Connect(c) ==
    \/ Open(c) \/ CheckColumn(c) \/ AlterColumn(c)
    \/ BeginRebuild(c) \/ CopyCalls(c) \/ DropCalls(c) \/ RenameCalls(c) \/ Release(c)
    \/ CountSnapshots(c) \/ CollapseSnapshots(c) \/ IndexSnapshots(c)
    \/ CheckGuard(c) \/ IndexGuard(c) \/ MarkFailed(c) \/ EndConnect(c)
    \/ Abort(c)

Next ==
    \/ \E c \in Daemons : Connect(c) \/ \E r \in db.results : Reserve(c, r.proposal)
    \/ \E r \in db.results : Verify(r)
    \/ StoreCall
    \/ \E t \in Times : StoreSnapshot(t)

Spec == Init /\ [][Next]_vars

----------------------------------------------------------------------------
(* Properties. *)

(* A withdrawal that an earlier release recorded as failed may have been   *)
(* paid: nothing new is reserved before somebody has looked it up,         *)
(* wherever the migration was killed in between                            *)
(* (migrate_transfer_results_submission_state).                            *)
OldFailuresBlock ==
    (\E r \in db.results : r.submission = "reserved") =>
        \A r \in db.results : r.status = "failed" => r.submission = "rejected"

(* No connect loses a row: of the calls whose table is rebuilt, of the     *)
(* results, which may be evidence, and of the prices but for copies.       *)
NoRowMigratedAway ==
    /\ seenCalls \subseteq db.calls
    /\ \A t \in seenTimes : db.snapshots[t] > 0

(* Whoever is connected finds the whole schema, although it may have lost  *)
(* every race on the way, and a file without the guard against a second    *)
(* withdrawal still holds the doubled results.                             *)
ConnectedMeansMigrated ==
    (\E c \in Daemons : conn[c].at = Ready) =>
        /\ db.columns = Columns
        /\ db.wide /\ db.unique
        /\ ~db.guard => Doubled(db)

=============================================================================
