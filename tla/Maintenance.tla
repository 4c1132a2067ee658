---------------------------- MODULE Maintenance ----------------------------
(***************************************************************************)
(* cli/maintenance: the backup and the retention task.  The work of a task *)
(* blocks the daemon's event loop, so the daemon is in the middle of one   *)
(* job at a time; the processes that own the databases go on writing, and  *)
(* the daemon may be killed between two effects on the disk.  VACUUM and   *)
(* the monthly check of the newest copy change nothing that is kept here.  *)
(***************************************************************************)
EXTENDS Integers, SequencesExt

CONSTANTS
    Databases,      \* target_dbs
    MinInterval,    \* min_backup_interval_hours, 20 and more than 0 here
    Keep,           \* keep_n_daily_backups, 7 and more than 0 here
    Horizon,        \* maintenance.retention of the table
    MaxTime         \* bound of the clock

VARIABLES
    now,
    daemon,      \* "up" or "down"
    files,       \* backup_dir: [database -> copies, the newest first]
    backed,      \* history: the databases of which a copy was completed
    rows,        \* a prunable table: the times its rows were written at
    stored,      \* history: every row ever written
    archived,    \* rows in some archive file
    job          \* what the daemon is in the middle of

vars == <<now, daemon, files, backed, rows, stored, archived, job>>

Idle == [pc |-> "none", left |-> {}, db |-> "none", cutoff |-> 0, found |-> {}]

Copy(stamp, whole) == [stamp |-> stamp, whole |-> whole]

----------------------------------------------------------------------------
(* _backup_all *)

BeginBackups ==
    /\ daemon = "up" /\ job = Idle
    /\ job' = [Idle EXCEPT !.pc = "choose", !.left = Databases]
    /\ UNCHANGED <<now, daemon, files, backed, rows, stored, archived>>

(* The age is that of the stamp in the name; a copy that never got         *)
(* complete counts as well.                                                *)
BackupDue(db) == files[db] # <<>> => now - Head(files[db]).stamp >= MinInterval

SkipBackup(db) ==
    /\ job.pc = "choose" /\ db \in job.left
    /\ ~BackupDue(db)
    /\ job' = [job EXCEPT !.left = @ \ {db}]
    /\ UNCHANGED <<now, daemon, files, backed, rows, stored, archived>>

(* SQLite writes the copy in one transaction: a daemon killed in it leaves *)
(* a file that opens as what it held before, nothing at all if it is new.  *)
(* A copy of the same minute has the same name.                            *)
OpenCopy(db) ==
    /\ job.pc = "choose" /\ db \in job.left
    /\ BackupDue(db)
    /\ files' = IF files[db] # <<>> /\ Head(files[db]).stamp = now THEN files
                ELSE [files EXCEPT ![db] = <<Copy(now, FALSE)>> \o @]
    /\ job' = [job EXCEPT !.pc = "copy", !.left = @ \ {db}, !.db = db]
    /\ UNCHANGED <<now, daemon, backed, rows, stored, archived>>

CompleteCopy ==
    /\ job.pc = "copy"
    /\ files' = [files EXCEPT ![job.db][1].whole = TRUE]
    /\ backed' = backed \union {job.db}
    /\ job' = [job EXCEPT !.pc = "trim"]
    /\ UNCHANGED <<now, daemon, rows, stored, archived>>

NextDatabase == [job EXCEPT !.pc = "choose", !.db = "none"]

(* Without the continue of the except clause *)
CopyFailsAndTrims ==
    /\ job.pc = "copy"
    /\ files' = [files EXCEPT ![job.db] = SubSeq(Tail(@), 1, Min({Keep, Len(@) - 1}))]
    /\ job' = NextDatabase
    /\ UNCHANGED <<now, daemon, backed, rows, stored, archived>>

(* The half-written file is unlinked, the older ones are left alone. *)
CopyFails ==
    /\ job.pc = "copy"
    /\ files' = [files EXCEPT ![job.db] = Tail(@)]
    /\ job' = NextDatabase
    /\ UNCHANGED <<now, daemon, backed, rows, stored, archived>>

(* prune_old_backups; a file that cannot be unlinked stays *)
TrimBackups ==
    /\ job.pc = "trim"
    /\ \/ files' = [files EXCEPT ![job.db] = SubSeq(@, 1, Min({Keep, Len(@)}))]
       \/ UNCHANGED files
    /\ job' = NextDatabase
    /\ UNCHANGED <<now, daemon, backed, rows, stored, archived>>

EndBackups ==
    /\ job.pc = "choose" /\ job.left = {}
    /\ job' = Idle
    /\ UNCHANGED <<now, daemon, files, backed, rows, stored, archived>>

----------------------------------------------------------------------------
(* prune_table *)

BeginRetention ==
    LET cutoff == now - Horizon
        found == {t \in rows : t <= cutoff}
    IN /\ daemon = "up" /\ job = Idle /\ found # {}
       /\ job' = [Idle EXCEPT !.pc = "archive", !.cutoff = cutoff, !.found = found]
       /\ UNCHANGED <<now, daemon, files, backed, rows, stored, archived>>

WriteArchive ==
    /\ job.pc = "archive"
    /\ archived' = archived \union job.found
    /\ job' = [job EXCEPT !.pc = "delete"]
    /\ UNCHANGED <<now, daemon, files, backed, rows, stored>>

(* By the cutoff again; the read and the delete are not one transaction. *)
DeleteRows ==
    /\ job.pc = "delete"
    /\ rows' = {t \in rows : t > job.cutoff}
    /\ job' = Idle
    /\ UNCHANGED <<now, daemon, files, backed, stored, archived>>

RetentionFails ==
    /\ job.pc \in {"archive", "delete"}
    /\ job' = Idle
    /\ UNCHANGED <<now, daemon, files, backed, rows, stored, archived>>

----------------------------------------------------------------------------
(* A row is written with the time of its writing (save_notification, the   *)
(* news fetcher's fetched_at).                                             *)
WriteRow ==
    /\ rows' = rows \union {now}
    /\ stored' = stored \union {now}
    /\ UNCHANGED <<now, daemon, files, backed, archived, job>>

StartMaintenance ==
    /\ daemon = "down"
    /\ daemon' = "up"
    /\ UNCHANGED <<now, files, backed, rows, stored, archived, job>>

(* Killed, or ended by what a task lets out: run_poll_loop passes it on,   *)
(* and the gather of the tasks with it.                                    *)
EndMaintenance ==
    /\ daemon = "up"
    /\ daemon' = "down" /\ job' = Idle
    /\ UNCHANGED <<now, files, backed, rows, stored, archived>>

Tick ==
    /\ now < MaxTime
    /\ now' = now + 1
    /\ UNCHANGED <<daemon, files, backed, rows, stored, archived, job>>

Init ==
    /\ now = 0
    /\ daemon = "down"
    /\ files = [db \in Databases |-> <<>>]
    /\ backed = {} /\ rows = {} /\ stored = {} /\ archived = {}
    /\ job = Idle

Next ==
    \/ BeginBackups \/ CompleteCopy \/ CopyFails \/ TrimBackups \/ EndBackups
    \/ \E db \in Databases : SkipBackup(db) \/ OpenCopy(db)
    \/ BeginRetention \/ WriteArchive \/ DeleteRows \/ RetentionFails
    \/ WriteRow \/ StartMaintenance \/ EndMaintenance \/ Tick

Spec == Init /\ [][Next]_vars

----------------------------------------------------------------------------
(* Properties. *)

(* A database of which a copy was completed once has a complete copy at    *)
(* all times: copies that a kill or a full disk left incomplete take slots *)
(* and never the last good one (backup_database_locally,                   *)
(* prune_old_backups).                                                     *)
RestorePointKept ==
    \A db \in backed : \E i \in DOMAIN files[db] : files[db][i].whole

(* Restarts, each of which begins with a backup cycle, do not use up the   *)
(* slots: two copies of a database are MinInterval apart, so that Keep of  *)
(* them reach back (Keep - 1) * MinInterval (_backup_all's dedupe).        *)
CopiesSpaced ==
    \A db \in Databases : \A i \in 1..(Len(files[db]) - 1) :
        files[db][i].stamp - files[db][i + 1].stamp >= MinInterval

(* No row is lost, and none leaves its table within the horizon, although  *)
(* the delete goes by the cutoff and not by the rows that were archived.   *)
RowsKept ==
    /\ stored \subseteq rows \union archived
    /\ \A t \in stored : t > now - Horizon => t \in rows

=============================================================================
