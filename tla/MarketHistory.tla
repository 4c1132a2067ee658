--------------------------- MODULE MarketHistory ---------------------------
(***************************************************************************)
(* The price history: cli/observe polls prices, fills the gap it slept     *)
(* through when it starts and tops up its bars; cli/observe --backfill     *)
(* fetches older bars; the maintenance daemon moves old snapshots into an  *)
(* archive.  The three are processes on one observe.db, and Kraken keeps   *)
(* only the latest bars.                                                   *)
(*                                                                         *)
(* One symbol.  Time is counted in bars: bar h is complete once now > h.   *)
(* Both intervals, of the gap fill and of the top-up, lie on that clock.   *)
(***************************************************************************)
EXTENDS Integers, FiniteSetsExt

CONSTANTS
    MaxTime,           \* bound of the clock
    Retention,         \* bars Kraken still returns
    Horizon,           \* prune_price_snapshots_older_than_days
    Threshold, MaxGap, \* of the gap a start fills
    Seed,              \* bars a first top-up asks for
    BackfillIntervals  \* what --interval is given

VARIABLES
    now,
    snapshots,    \* price_snapshots: the times it has a price of
    bars,         \* ohlc_bars: [interval -> opening times]
    archived,     \* times in some archive file
    observed,     \* history: every time a price was ever stored of
    daemon,       \* "down", "filling" or "polling"
    job,          \* the backfill_range under way in each process
    prune         \* the pruner

vars == <<now, snapshots, bars, archived, observed, daemon, job, prune>>

Times == 0..MaxTime
Intervals == {"minute", "hour"}
NoJob == [pc |-> "none", interval |-> "none", cursor |-> 0, until |-> 0, page |-> {}]
NoPrune == [pc |-> "none", cutoff |-> 0, rows |-> {}]

(* backfill_range with nothing to walk returns at once *)
Walk(interval, since, until) ==
    IF since >= until THEN NoJob
    ELSE [NoJob EXCEPT !.pc = "fetch", !.interval = interval, !.cursor = since, !.until = until]

----------------------------------------------------------------------------
(* backfill_range *)

(* Kraken's page, as the opening times of its bars: what it still has      *)
(* after the cursor, the bar in progress included.                         *)
Page(j) == {t \in Times : j.cursor < t /\ t <= j.until /\ now - Retention < t /\ t <= now}

Fetch(p) ==
    /\ job[p].pc = "fetch"
    /\ LET page == Page(job[p])
       IN job' = [job EXCEPT ![p] = IF page = {} THEN NoJob
                                    ELSE [@ EXCEPT !.pc = "bars", !.page = page]]
    /\ UNCHANGED <<now, snapshots, bars, archived, observed, daemon, prune>>

(* INSERT OR IGNORE: a bar stored once is never corrected; what is in it   *)
(* is left out.                                                            *)
SaveBars(p) ==
    /\ job[p].pc = "bars"
    /\ bars' = [bars EXCEPT ![job[p].interval] = @ \union job[p].page]
    /\ job' = [job EXCEPT ![p].pc = "snapshots"]
    /\ UNCHANGED <<now, snapshots, archived, observed, daemon, prune>>

SaveSnapshots(p) ==
    /\ job[p].pc = "snapshots"
    /\ LET times == job[p].page
       IN /\ snapshots' = snapshots \union times
          /\ observed' = observed \union times
          /\ job' = [job EXCEPT ![p] = IF Max(times) >= @.until THEN NoJob
                                       ELSE [@ EXCEPT !.pc = "fetch", !.cursor = Max(times),
                                                      !.page = {}]]
    /\ UNCHANGED <<now, bars, archived, daemon, prune>>

(* An ExchangeError or a StorageError ends the walk where it is. *)
WalkFails(p) ==
    /\ job[p].pc # "none"
    /\ job' = [job EXCEPT ![p] = NoJob]
    /\ UNCHANGED <<now, snapshots, bars, archived, observed, daemon, prune>>

----------------------------------------------------------------------------
(* cli/observe *)

(* _run_auto_gap_fill *)
GapToFill ==
    /\ snapshots # {}
    /\ now - Max(snapshots) \in Threshold..MaxGap

Boot ==
    /\ daemon = "down"
    /\ daemon' = "filling"
    /\ job' = [job EXCEPT !["daemon"] = IF GapToFill THEN Walk("minute", Max(snapshots), now)
                                        ELSE NoJob]
    /\ UNCHANGED <<now, snapshots, bars, archived, observed, prune>>

EnterLoop ==
    /\ daemon = "filling" /\ job["daemon"].pc = "none"
    /\ daemon' = "polling"
    /\ UNCHANGED <<now, snapshots, bars, archived, observed, job, prune>>

Poll ==
    /\ daemon = "polling" /\ job["daemon"].pc = "none"
    /\ snapshots' = snapshots \union {now}
    /\ observed' = observed \union {now}
    /\ UNCHANGED <<now, bars, archived, daemon, job, prune>>

(* _top_up_bars: from the newest stored bar to the last completed one *)
TopUp ==
    /\ daemon = "polling" /\ job["daemon"].pc = "none"
    /\ LET since == IF bars["hour"] = {} THEN now - Seed ELSE Max(bars["hour"])
       IN /\ since < now - 1
          /\ job' = [job EXCEPT !["daemon"] = Walk("hour", since, now - 1)]
    /\ UNCHANGED <<now, snapshots, bars, archived, observed, daemon, prune>>

Stop ==
    /\ daemon # "down"
    /\ daemon' = "down"
    /\ job' = [job EXCEPT !["daemon"] = NoJob]
    /\ UNCHANGED <<now, snapshots, bars, archived, observed, prune>>

----------------------------------------------------------------------------
(* cli/observe --backfill: --since and --days, --catchup, --resume; --until *)
(* is left at its default, now.                                             *)

Lowest(mode, interval, since) ==
    CASE mode = "since" -> {since}
      [] mode = "catchup" -> IF snapshots = {} THEN {} ELSE {Max(snapshots)}
      [] mode = "resume" -> IF bars[interval] = {} THEN {} ELSE {Max(bars[interval])}

Backfill(mode, interval, since) ==
    /\ job["cli"].pc = "none"
    /\ \E cursor \in Lowest(mode, interval, since) :
         /\ cursor < now
         /\ job' = [job EXCEPT !["cli"] = Walk(interval, cursor, now)]
    /\ UNCHANGED <<now, snapshots, bars, archived, observed, daemon, prune>>

----------------------------------------------------------------------------
(* prune_price_snapshots, at the maintenance daemon's cadence *)

BeginPrune ==
    LET cutoff == now - Horizon
        rows == {t \in snapshots : t <= cutoff}
    IN /\ prune.pc = "none" /\ rows # {}
       /\ prune' = [pc |-> "archive", cutoff |-> cutoff, rows |-> rows]
       /\ UNCHANGED <<now, snapshots, bars, archived, observed, daemon, job>>

Archive ==
    /\ prune.pc = "archive"
    /\ archived' = archived \union prune.rows
    /\ prune' = [prune EXCEPT !.pc = "delete"]
    /\ UNCHANGED <<now, snapshots, bars, observed, daemon, job>>

(* By the cutoff again, not by the rows that were read. *)
Delete ==
    /\ prune.pc = "delete"
    /\ snapshots' = {t \in snapshots : t > prune.cutoff}
    /\ prune' = NoPrune
    /\ UNCHANGED <<now, bars, archived, observed, daemon, job>>

DeleteAnyway ==
    /\ prune.pc = "archive"
    /\ prune' = [prune EXCEPT !.pc = "delete"]
    /\ UNCHANGED <<now, snapshots, bars, archived, observed, daemon, job>>

(* The archive cannot be written, the rows not deleted, or the daemon dies *)
PruneFails ==
    /\ prune.pc # "none"
    /\ prune' = NoPrune
    /\ UNCHANGED <<now, snapshots, bars, archived, observed, daemon, job>>

----------------------------------------------------------------------------
Tick ==
    /\ now < MaxTime
    /\ now' = now + 1
    /\ UNCHANGED <<snapshots, bars, archived, observed, daemon, job, prune>>

Init ==
    /\ now = 0
    /\ snapshots = {} /\ archived = {} /\ observed = {}
    /\ bars = [interval \in Intervals |-> {}]
    /\ daemon = "down"
    /\ job = [p \in {"daemon", "cli"} |-> NoJob]
    /\ prune = NoPrune

Next ==
    \/ \E p \in {"daemon", "cli"} : Fetch(p) \/ SaveBars(p) \/ SaveSnapshots(p) \/ WalkFails(p)
    \/ Boot \/ EnterLoop \/ Poll \/ TopUp \/ Stop
    \/ \E mode \in {"since", "catchup", "resume"}, interval \in BackfillIntervals, since \in Times :
           Backfill(mode, interval, since)
    \/ BeginPrune \/ Archive \/ Delete \/ PruneFails
    \/ Tick

Spec == Init /\ [][Next]_vars

----------------------------------------------------------------------------
(* Properties. *)

(* No price is lost: what was stored once is in the table, in an archive,  *)
(* or in a bar it can be made from again, although the pruner deletes by   *)
(* its cutoff and not by what it archived, and a backfill may store old    *)
(* prices in between.                                                      *)
PricesKept ==
    observed \subseteq snapshots \union archived \union UNION {bars[i] : i \in Intervals}

=============================================================================
