------------------------------ MODULE Records ------------------------------
(***************************************************************************)
(* Withdrawal and what the records of a withdrawal, of the orders and of   *)
(* the account's money rest on: the migration of the databases, their      *)
(* backups and retention, the walks over Kraken's lists, and the state of  *)
(* a session that the next one restores.  They share no state in these     *)
(* models; a behaviour belongs to one of them, drawn at its start.         *)
(***************************************************************************)
EXTENDS Withdrawal

CONSTANTS
    Databases, MinInterval, Keep, Horizon, UpkeepEnd,                     \* Maintenance
    MaxEntries, Orders, OrderOf, PageSize, MaxPages, Limit, Wanted,       \* KrakenHistory
    Daemons, Legacy, Times, MaxCopies,                                    \* SchemaMigration
    Symbols, ReminderAfter, SessionsEnd                                   \* EngineState

(* Nothing of the backups and the retention is configured away: retention  *)
(* days are validated to be positive, a Keep or a MinInterval of 0 would   *)
(* switch the feature off.                                                 *)
ASSUME UpkeepAssumption ==
    MinInterval \in Nat \ {0} /\ Keep \in Nat \ {0} /\ Horizon \in Nat \ {0}

(* The pages of a walk and its caller's limits are constants of the code;  *)
(* what is wanted of a list are entries of it.                             *)
ASSUME ListsAssumption ==
    /\ MaxEntries \in Nat /\ PageSize \in Nat \ {0} /\ MaxPages \in Nat \ {0}
    /\ Limit \in [{"trades", "ledger"} -> Nat]
    /\ Wanted \in [{"trades", "ledger"} -> SUBSET (1..MaxEntries)]

(* held_reminder_seconds is validated to be positive. *)
ASSUME SessionsAssumption == ReminderAfter \in Nat \ {0}

(* The results of an earlier release: rows without a submission_state.     *)
ASSUME LegacyAssumption ==
    /\ "none" \notin Daemons
    /\ \A results \in Legacy : \A r \in results :
          r = [id |-> r.id, proposal |-> r.proposal, status |-> r.status, submission |-> "absent"]

VARIABLES
    system,
    clock, daemon, files, backed, written, stored, archived, job,
    newest, walk, ledger,
    db, tx, conn, seenCalls, seenTimes,
    minute, settings, session, engine, reminder, states, published, shown, quiet

Upkeep == INSTANCE Maintenance WITH
       MaxTime <- UpkeepEnd, now <- clock, rows <- written

Lists == INSTANCE KrakenHistory

Deploy == INSTANCE SchemaMigration

Restarts == INSTANCE EngineState WITH
       MaxTime <- SessionsEnd, now <- minute, table <- states

upkeepVars == <<clock, daemon, files, backed, written, stored, archived, job>>
krakenVars == <<newest, walk, ledger>>
deployVars == <<db, tx, conn, seenCalls, seenTimes>>
restartVars == <<minute, settings, session, engine, reminder, states, published, shown, quiet>>
all == <<system, vars, upkeepVars, krakenVars, deployVars, restartVars>>

RecordsInit ==
    /\ system \in {"withdrawal", "upkeep", "kraken", "deploy", "restarts"}
    /\ Init /\ Upkeep!Init /\ Lists!Init /\ Deploy!Init /\ Restarts!Init

(* A step of the one subsystem leaves the variables of the others alone. *)
Rest(name, ofIt) == system = name \/ UNCHANGED ofIt

RecordsNext ==
    /\ UNCHANGED system
    /\ Rest("withdrawal", vars) /\ Rest("upkeep", upkeepVars) /\ Rest("kraken", krakenVars)
    /\ Rest("deploy", deployVars) /\ Rest("restarts", restartVars)
    /\ \/ system = "withdrawal" /\ Next
       \/ system = "upkeep" /\ Upkeep!Next
       \/ system = "kraken" /\ Lists!Next
       \/ system = "deploy" /\ Deploy!Next
       \/ system = "restarts" /\ Restarts!Next

RecordsSpec == RecordsInit /\ [][RecordsNext]_all

----------------------------------------------------------------------------
(* Of the backups and the retention: a good copy stays, restarts do not    *)
(* use up the slots, no row is lost (cli/maintenance).                     *)
BackupsSound == Upkeep!RestorePointKept /\ Upkeep!CopiesSpaced /\ Upkeep!RowsKept

(* Of the walks: nothing but what arrivals push out is missed, and an      *)
(* undisturbed walk calls no order covered that it has not read.           *)
WalksSound == Lists!WalkComplete /\ Lists!CoverageSound

(* Of the migration: an old failure blocks new withdrawals until it is     *)
(* looked up, no row is lost, who is connected finds the whole schema.     *)
MigrationSound ==
    Deploy!OldFailuresBlock /\ Deploy!NoRowMigratedAway /\ Deploy!ConnectedMeansMigrated

(* Of a restart: pauses and episodes outlive it, and what stays paused is  *)
(* named again.                                                            *)
StateKept == Restarts!PauseKept /\ Restarts!EpisodeKept /\ Restarts!HeldIsTold

=============================================================================
