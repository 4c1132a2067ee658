---------------------------- MODULE ServicesProofs ----------------------------
(***************************************************************************)
(* Theorems about the parts of Services, for any number of tasks, retries, *)
(* orders, trades, calls, opinions, messages and clicks, any retention,    *)
(* horizon, timers, timeouts, caps and prices.                             *)
(*                                                                         *)
(* Each part has an inductive invariant of its own, in the order: the      *)
(* nonces, the price history, the failing key, the audit, the advice and   *)
(* its budget, the chat's turns and its cards, the bills, the placement.   *)
(***************************************************************************)
EXTENDS Services, FiniteSums, FiniteSetTheorems

-----------------------------------------------------------------------------
(* Among subsets of a finite set there is one that contains no other. *)
LEMMA SmallestSubset ==
  ASSUME NEW S, IsFiniteSet(S), NEW Bad, Bad \subseteq SUBSET S, Bad # {}
  PROVE  \E T \in Bad : \A U \in Bad : ~ (<<U, T>> \in StrictSubsetOrdering(S))
<1>1. IsWellFoundedOn(StrictSubsetOrdering(S), SUBSET S)
  BY FS_StrictSubsetOrderingWellFounded, FS_FiniteSubsetsOfFinite
<1> QED BY <1>1, WFMin, Zenon

(* Finite sets are inductive in the sense of FiniteSums. *)
LEMMA Finite == \A S : IsFiniteSet(S) => AllowsInduction(S)
<1> SUFFICES ASSUME NEW S, IsFiniteSet(S), NEW Good,
                    \A T \in SUBSET S :
                       (\A U \in SUBSET T : U # T => U \in Good) => T \in Good
             PROVE  SUBSET S \subseteq Good
  BY DEF AllowsInduction
<1> DEFINE Bad == (SUBSET S) \ Good
<1>1. SUFFICES ASSUME Bad # {} PROVE FALSE
  OBVIOUS
<1>2. Bad \subseteq SUBSET S
  OBVIOUS
<1>3. \E T \in Bad : \A U \in Bad : ~ (<<U, T>> \in StrictSubsetOrdering(S))
  <2> HIDE DEF Bad
  <2> QED BY <1>1, <1>2, SmallestSubset
<1>4. PICK T \in Bad : \A U \in Bad : ~ (<<U, T>> \in StrictSubsetOrdering(S))
  BY <1>3, Zenon
<1>5. \A U \in SUBSET T : U # T => U \in Good
  <2> SUFFICES ASSUME NEW U \in SUBSET T, U # T, U \notin Good
               PROVE  FALSE
    OBVIOUS
  <2>1. U \in Bad /\ <<U, T>> \in StrictSubsetOrdering(S)
    BY DEF StrictSubsetOrdering
  <2> QED BY <1>4, <2>1
<1> QED BY <1>5

-----------------------------------------------------------------------------
(* The nonces.  The lock is held as long as an answer is waited for, so    *)
(* the only request whose answer anybody reads carries the last nonce      *)
(* drawn; and Kraken has not seen that nonce as long as a request with it  *)
(* is on its way.                                                          *)

Answers == {"none", "taken", "invalid nonce"}
Task == [pc : {"idle", "lock", "sent"}, nonce : Int, attempt : Int, answer : Answers]

KeyTypes ==
    /\ clock \in Int /\ last \in Int /\ seen \in Int
    /\ lock \in Tasks \union {"nobody"}
    /\ task \in [Tasks -> Task]
    /\ wire \subseteq [from : Tasks, nonce : Int]

(* Who waits for an answer holds the lock and drew the last nonce. *)
HolderIsLast == \A t \in Tasks : task[t].pc = "sent" => lock = t /\ task[t].nonce = last

(* No nonce is drawn twice, and none that is on its way or was seen is     *)
(* above the last one.                                                     *)
NoncesRise ==
    /\ seen <= last
    /\ \A r \in wire : r.nonce <= last
    /\ \A r, q \in wire : r.nonce = q.nonce => r = q

(* The last nonce is on its way only before Kraken has seen it. *)
LastIsUnseen == \A r \in wire : r.nonce = last => seen < last

KeyInv == KeyTypes /\ HolderIsLast /\ NoncesRise /\ LastIsUnseen /\ NoncesAccepted

(* _make_nonce rises, whatever the clock says. *)
LEMMA NonceRises ==
  ASSUME KeyTypes
  PROVE  MakeNonce \in Int /\ MakeNonce > last
  BY DEF KeyTypes, MakeNonce

LEMMA InitKey == Init => KeyInv
<1> SUFFICES ASSUME Init
             PROVE  KeyInv
  OBVIOUS
<1>1. Idle \in Task
  BY DEF Idle, Task, Answers
<1>2. KeyTypes
  BY <1>1 DEF Init, KeyTypes
<1>3. HolderIsLast /\ NoncesAccepted
  BY DEF Init, HolderIsLast, NoncesAccepted, Idle
<1>4. NoncesRise /\ LastIsUnseen
  BY DEF Init, NoncesRise, LastIsUnseen
<1>5. QED BY <1>2, <1>3, <1>4 DEF KeyInv

LEMMA WaitingIsQuiet ==
  ASSUME NEW n \in Int
  PROVE  Waiting(n) \in Task /\ Waiting(n).pc # "sent" /\ Waiting(n).answer = "none"
  BY DEF Waiting, Task, Answers

LEMMA IdleIsQuiet == Idle \in Task /\ Idle.pc # "sent" /\ Idle.answer = "none"
  BY DEF Idle, Task, Answers

(* A task that waits for no answer, afterwards, changes nothing of it. *)
LEMMA BeginKeeps ==
  ASSUME KeyInv, NEW t \in Tasks, Begin(t)
  PROVE  KeyInv'
<1> DEFINE k == Waiting(1)
<1>1. k \in Task /\ k.pc # "sent" /\ k.answer = "none"
  BY WaitingIsQuiet
<1> HIDE DEF k
<1>2. task' = [task EXCEPT ![t] = k] /\ UNCHANGED <<clock, last, lock, wire, seen>>
  BY DEF Begin, k
<1>3. KeyTypes'
  BY <1>1, <1>2 DEF KeyInv, KeyTypes
<1>4. HolderIsLast' /\ NoncesAccepted'
  BY <1>1, <1>2 DEF KeyInv, KeyTypes, HolderIsLast, NoncesAccepted
<1>5. NoncesRise' /\ LastIsUnseen'
  BY <1>2 DEF KeyInv, NoncesRise, LastIsUnseen
<1>6. QED BY <1>3, <1>4, <1>5 DEF KeyInv

(* Nobody else waits for an answer, or the lock would not be free. *)
LEMMA SendKeeps ==
  ASSUME KeyInv, NEW t \in Tasks, Send(t)
  PROVE  KeyInv'
<1> DEFINE n == MakeNonce
           new == [from |-> t, nonce |-> n]
<1>1. n \in Int /\ n > last
  BY NonceRises DEF KeyInv
<1>2. /\ last' = n /\ lock' = t /\ wire' = wire \union {new}
      /\ task' = [task EXCEPT ![t].pc = "sent", ![t].nonce = n]
      /\ clock' = clock /\ seen' = seen /\ lock = "nobody"
  BY DEF Send
<1> HIDE DEF n
<1>3. KeyTypes'
  <2>1. [task[t] EXCEPT !.pc = "sent", !.nonce = n] \in Task
    BY <1>1 DEF KeyInv, KeyTypes, Task
  <2>2. task' \in [Tasks -> Task]
    BY <1>2, <2>1 DEF KeyInv, KeyTypes
  <2>3. new \in [from : Tasks, nonce : Int]
    BY <1>1
  <2>4. QED BY <1>1, <1>2, <2>2, <2>3 DEF KeyInv, KeyTypes
<1>4. HolderIsLast'
  <2> SUFFICES ASSUME NEW u \in Tasks, task'[u].pc = "sent"
               PROVE  lock' = u /\ task'[u].nonce = last'
    BY DEF HolderIsLast
  <2>1. CASE u = t
    BY <2>1, <1>2 DEF KeyInv, KeyTypes, Task
  <2>2. CASE u # t
    BY <2>2, <1>2, KrakenKeyAssumption DEF KeyInv, KeyTypes, HolderIsLast
  <2>3. QED BY <2>1, <2>2
<1>5. NoncesRise' /\ LastIsUnseen'
  BY <1>1, <1>2 DEF KeyInv, KeyTypes, NoncesRise, LastIsUnseen
<1>6. NoncesAccepted'
  <2>1. \A u \in Tasks : task'[u].answer = task[u].answer
    BY <1>2 DEF KeyInv, KeyTypes, Task
  <2>2. QED BY <2>1 DEF KeyInv, NoncesAccepted
<1>7. QED BY <1>3, <1>4, <1>5, <1>6 DEF KeyInv

(* An answer anybody reads is one to the last nonce, which was unseen. *)
LEMMA ArriveKeeps ==
  ASSUME KeyInv, NEW r \in wire, Arrive(r)
  PROVE  KeyInv'
<1>1. r.from \in Tasks /\ r.nonce \in Int
  BY DEF KeyInv, KeyTypes
<1>2. /\ wire' = wire \ {r} /\ last' = last /\ lock' = lock /\ clock' = clock
      /\ seen' = IF r.nonce > seen THEN r.nonce ELSE seen
  BY DEF Arrive
<1>3. task' = IF task[r.from].pc = "sent" /\ task[r.from].nonce = r.nonce
              THEN [task EXCEPT ![r.from].answer = "taken"] ELSE task
  BY <1>1 DEF Arrive, KeyInv, KeyTypes, HolderIsLast, LastIsUnseen
<1>4. KeyTypes'
  <2>1. [task[r.from] EXCEPT !.answer = "taken"] \in Task
    BY <1>1 DEF KeyInv, KeyTypes, Task, Answers
  <2>2. task' \in [Tasks -> Task]
    BY <1>1, <1>3, <2>1 DEF KeyInv, KeyTypes
  <2> QED BY <1>1, <1>2, <2>2 DEF KeyInv, KeyTypes
<1>5. HolderIsLast'
  BY <1>1, <1>2, <1>3 DEF KeyInv, KeyTypes, HolderIsLast, Task
<1>6. NoncesRise' /\ LastIsUnseen'
  BY <1>1, <1>2 DEF KeyInv, KeyTypes, NoncesRise, LastIsUnseen
<1>7. NoncesAccepted'
  BY <1>1, <1>3 DEF KeyInv, KeyTypes, NoncesAccepted, Task
<1>8. QED BY <1>4, <1>5, <1>6, <1>7 DEF KeyInv

(* Who lets go of the lock waits for no answer any more, and nobody else   *)
(* did.                                                                    *)
LEMMA LetGoKeeps ==
  ASSUME KeyInv, NEW t \in Tasks, Receive(t) \/ RateLimited(t) \/ GiveUp(t)
  PROVE  KeyInv'
<1> DEFINE k == Waiting(task[t].attempt + 1)
<1>1. \E j \in {k, Idle} : /\ j \in Task /\ j.pc # "sent" /\ j.answer = "none"
                          /\ task' = [task EXCEPT ![t] = j]
  <2>1. task[t].attempt + 1 \in Int
    BY DEF KeyInv, KeyTypes, Task
  <2>2. k \in Task /\ k.pc # "sent" /\ k.answer = "none"
    BY <2>1, WaitingIsQuiet
  <2>3. task' = [task EXCEPT ![t] = k] \/ task' = [task EXCEPT ![t] = Idle]
    BY DEF Receive, RateLimited, GiveUp
  <2>4. QED BY <2>2, <2>3, IdleIsQuiet
<1> HIDE DEF k
<1>2. /\ lock' = "nobody" /\ task[t].pc = "sent"
      /\ UNCHANGED <<clock, last, wire, seen>>
  BY DEF Receive, RateLimited, GiveUp
<1>3. KeyTypes'
  BY <1>1, <1>2 DEF KeyInv, KeyTypes
<1>4. HolderIsLast'
  <2> SUFFICES ASSUME NEW u \in Tasks, task'[u].pc = "sent"
               PROVE  FALSE
    BY DEF HolderIsLast
  <2>1. u # t /\ task[u].pc = "sent"
    BY <1>1 DEF KeyInv, KeyTypes
  <2>2. QED BY <2>1, <1>2 DEF KeyInv, HolderIsLast
<1>5. NoncesRise' /\ LastIsUnseen'
  BY <1>2 DEF KeyInv, NoncesRise, LastIsUnseen
<1>6. NoncesAccepted'
  BY <1>1 DEF KeyInv, KeyTypes, NoncesAccepted
<1>7. QED BY <1>3, <1>4, <1>5, <1>6 DEF KeyInv

LEMMA LoseKeeps ==
  ASSUME KeyInv, NEW r \in wire, Lose(r)
  PROVE  KeyInv'
  BY DEF Lose, KeyInv, KeyTypes, HolderIsLast, NoncesRise, LastIsUnseen, NoncesAccepted

LEMMA ClockKeeps ==
  ASSUME KeyInv, ClockMoves
  PROVE  KeyInv'
<1>1. clock' \in Int
  BY KrakenKeyAssumption DEF ClockMoves
<1>2. UNCHANGED <<last, lock, task, wire, seen>>
  BY DEF ClockMoves
<1>3. KeyTypes' /\ HolderIsLast' /\ NoncesAccepted'
  BY <1>1, <1>2 DEF KeyInv, KeyTypes, HolderIsLast, NoncesAccepted
<1>4. NoncesRise' /\ LastIsUnseen'
  BY <1>2 DEF KeyInv, NoncesRise, LastIsUnseen
<1>5. QED BY <1>3, <1>4 DEF KeyInv

LEMMA NextKey == KeyInv /\ [Next]_vars => KeyInv'
<1> SUFFICES ASSUME KeyInv, [Next]_vars
             PROVE  KeyInv'
  OBVIOUS
<1>1. ASSUME NEW t \in Tasks, Begin(t) PROVE KeyInv'
  BY <1>1, BeginKeeps
<1>2. ASSUME NEW t \in Tasks, Send(t) PROVE KeyInv'
  BY <1>2, SendKeeps
<1>3. ASSUME NEW t \in Tasks, Receive(t) \/ RateLimited(t) \/ GiveUp(t) PROVE KeyInv'
  BY <1>3, LetGoKeeps
<1>4. ASSUME NEW r \in wire, Arrive(r) PROVE KeyInv'
  BY <1>4, ArriveKeeps
<1>5. ASSUME NEW r \in wire, Lose(r) PROVE KeyInv'
  BY <1>5, LoseKeeps
<1>6. CASE ClockMoves
  BY <1>6, ClockKeeps
<1>7. CASE UNCHANGED vars
  BY <1>7 DEF vars, KeyInv, KeyTypes, HolderIsLast, NoncesRise, LastIsUnseen, NoncesAccepted
<1>8. QED BY <1>1, <1>2, <1>3, <1>4, <1>5, <1>6, <1>7 DEF Next

(* Every state has its types and satisfies the facts above. *)
THEOREM NonceInvariantHolds == Spec => []KeyInv
<1>1. Init => KeyInv
  BY InitKey
<1>2. KeyInv /\ [Next]_vars => KeyInv'
  BY NextKey
<1>3. QED BY <1>1, <1>2, PTL DEF Spec

(* No task is ever told that its nonce is invalid: of the requests of one  *)
(* process with one key, however slow the network, however the clock jumps *)
(* and however often a call is retried or given up (_private_post).        *)
THEOREM NoncesAreAccepted == Spec => []NoncesAccepted
<1>1. KeyInv => NoncesAccepted
  BY DEF KeyInv
<1>2. QED BY <1>1, NonceInvariantHolds, PTL

-----------------------------------------------------------------------------
(* The price history.  A backfill writes its bars before its prices, and a *)
(* poll writes the price of now, which no cutoff reaches: what the pruner  *)
(* deletes without having archived it is in a bar.                         *)

Walkers == {"daemon", "cli"}
BarTimes == UNION {bars[i] : i \in History!Intervals}

JobOK(j) ==
    /\ j = [pc |-> j.pc, interval |-> j.interval, cursor |-> j.cursor, until |-> j.until,
            page |-> j.page]
    /\ j.page \subseteq Int
    /\ j.pc # "none" => j.interval \in History!Intervals

HistoryTypes ==
    /\ now \in Int /\ snapshots \subseteq Int
    /\ bars = [i \in History!Intervals |-> bars[i]]
    /\ job = [p \in Walkers |-> job[p]]
    /\ \A p \in Walkers : JobOK(job[p])

(* The prices about to be written are in bars. *)
PageInv == \A p \in Walkers : job[p].pc = "snapshots" => job[p].page \subseteq BarTimes

(* What a prune will delete is about to be archived, archived, or in bars. *)
PruneInv ==
    /\ prune.pc # "none" => prune.cutoff \in Int /\ prune.cutoff < now
    /\ prune.pc = "archive" =>
         \A t \in snapshots : t <= prune.cutoff => t \in prune.rows \union BarTimes
    /\ prune.pc = "delete" =>
         \A t \in snapshots : t <= prune.cutoff => t \in archived \union BarTimes

HistoryInv ==
    /\ HistoryTypes /\ PageInv /\ PruneInv
    /\ prune = [pc |-> prune.pc, cutoff |-> prune.cutoff, rows |-> prune.rows]
    /\ observed \subseteq snapshots \union archived \union BarTimes

LEMMA NoJobOK == JobOK(History!NoJob) /\ History!NoJob.pc = "none"
  BY DEF JobOK, History!NoJob

LEMMA InitHistory == History!Init => HistoryInv
<1> SUFFICES ASSUME History!Init
             PROVE  HistoryInv
  OBVIOUS
<1>1. HistoryTypes /\ PageInv
  BY NoJobOK DEF History!Init, HistoryTypes, PageInv, Walkers
<1>2. prune = [pc |-> "none", cutoff |-> 0, rows |-> {}] /\ observed = {}
  BY DEF History!Init, History!NoPrune
<1>3. PruneInv /\ prune = [pc |-> prune.pc, cutoff |-> prune.cutoff, rows |-> prune.rows]
  BY <1>2 DEF PruneInv
<1> QED BY <1>1, <1>2, <1>3 DEF HistoryInv

(* A walk begins with an interval, or not at all. *)
LEMMA WalkOK ==
  ASSUME NEW i \in History!Intervals, NEW a, NEW b
  PROVE  LET j == History!Walk(i, a, b)
         IN JobOK(j) /\ j.pc \in {"none", "fetch"}
<1> DEFINE n == History!NoJob
           k == [n EXCEPT !.pc = "fetch", !.interval = i, !.cursor = a, !.until = b]
<1>1. k = [[[[n EXCEPT !.pc = "fetch"] EXCEPT !.interval = i] EXCEPT !.cursor = a]
             EXCEPT !.until = b]
  OBVIOUS
<1>2. k = [pc |-> "fetch", interval |-> i, cursor |-> a, until |-> b, page |-> {}]
  <2> HIDE DEF k
  <2> QED BY <1>1 DEF History!NoJob
<1> HIDE DEF n
<1>3. JobOK(k) /\ k.pc = "fetch"
  <2> HIDE DEF k
  <2> QED BY <1>2 DEF JobOK
<1>4. History!Walk(i, a, b) \in {k, History!NoJob}
  BY DEF History!Walk, n
<1> HIDE DEF k
<1> QED BY <1>3, <1>4, NoJobOK

(* Steps that only change what the walks are doing. *)
LEMMA JobsChange ==
  ASSUME HistoryInv, UNCHANGED <<now, snapshots, bars, archived, observed, prune>>,
         NEW p \in Walkers, NEW j, JobOK(j), j.pc \in {"none", "fetch", "bars"},
         job' = [job EXCEPT ![p] = j]
  PROVE  HistoryInv'
<1>1. \A q \in Walkers : job'[q] = IF q = p THEN j ELSE job[q]
  BY DEF HistoryInv, HistoryTypes
<1>2. job' = [q \in Walkers |-> job'[q]]
  BY DEF HistoryInv, HistoryTypes
<1>3. BarTimes' = BarTimes
  BY DEF BarTimes
<1>4. HistoryTypes'
  BY <1>1, <1>2 DEF HistoryInv, HistoryTypes, JobOK
<1>5. PageInv'
  BY <1>1, <1>3 DEF HistoryInv, PageInv
<1>6. PruneInv'
  BY <1>3 DEF HistoryInv, PruneInv
<1> QED BY <1>3, <1>4, <1>5, <1>6 DEF HistoryInv

LEMMA HistoryFetches ==
  ASSUME HistoryInv, NEW p \in Walkers, History!Fetch(p)
  PROVE  HistoryInv'
<1> DEFINE page == History!Page(job[p])
           k == [job[p] EXCEPT !.pc = "bars", !.page = page]
           j == IF page = {} THEN History!NoJob ELSE k
<1>1. JobOK(job[p]) /\ job[p].pc = "fetch"
  BY DEF History!Fetch, HistoryInv, HistoryTypes
<1>2. page \subseteq Int
  BY HistoryAssumption DEF History!Page, History!Times
<1>3. k = [[job[p] EXCEPT !.pc = "bars"] EXCEPT !.page = page]
  OBVIOUS
<1>4. job' = [job EXCEPT ![p] = j]
  BY DEF History!Fetch, HistoryInv, HistoryTypes
<1> HIDE DEF page
<1>5. k = [pc |-> "bars", interval |-> job[p].interval, cursor |-> job[p].cursor,
           until |-> job[p].until, page |-> page]
  <2> HIDE DEF k
  <2> QED BY <1>1, <1>3 DEF JobOK
<1>6. JobOK(k) /\ k.pc = "bars"
  <2> HIDE DEF k
  <2> QED BY <1>1, <1>2, <1>5 DEF JobOK
<1>7. JobOK(j) /\ j.pc \in {"none", "fetch", "bars"}
  <2> HIDE DEF k
  <2> QED BY <1>6, NoJobOK
<1> HIDE DEF j
<1>8. UNCHANGED <<now, snapshots, bars, archived, observed, prune>>
  BY DEF History!Fetch
<1> QED BY <1>4, <1>7, <1>8, JobsChange

LEMMA HistorySavesBars ==
  ASSUME HistoryInv, NEW p \in Walkers, History!SaveBars(p)
  PROVE  HistoryInv'
<1> DEFINE i == job[p].interval
           k == [job[p] EXCEPT !.pc = "snapshots"]
<1>1. JobOK(job[p]) /\ i \in History!Intervals
  BY DEF History!SaveBars, HistoryInv, HistoryTypes, JobOK
<1>2. /\ bars' = [bars EXCEPT ![i] = @ \union job[p].page]
      /\ job' = [job EXCEPT ![p] = k]
      /\ UNCHANGED <<now, snapshots, archived, observed, prune>>
  BY DEF History!SaveBars
<1>3. k = [pc |-> "snapshots", interval |-> i, cursor |-> job[p].cursor,
           until |-> job[p].until, page |-> job[p].page]
  BY <1>1 DEF JobOK
<1>4. JobOK(k) /\ k.page = job[p].page
  <2> HIDE DEF k
  <2> QED BY <1>1, <1>3 DEF JobOK
<1> HIDE DEF k
<1>5. /\ \A q \in Walkers : job'[q] = IF q = p THEN k ELSE job[q]
      /\ job' = [q \in Walkers |-> job'[q]]
  BY <1>2 DEF HistoryInv, HistoryTypes
<1>6. /\ \A q \in History!Intervals :
           bars'[q] = IF q = i THEN bars[q] \union job[p].page ELSE bars[q]
      /\ bars' = [q \in History!Intervals |-> bars'[q]]
  BY <1>1, <1>2 DEF HistoryInv, HistoryTypes
<1>7. BarTimes \subseteq BarTimes' /\ job[p].page \subseteq BarTimes'
  BY <1>1, <1>6 DEF BarTimes
<1>8. HistoryTypes'
  BY <1>2, <1>4, <1>5, <1>6 DEF HistoryInv, HistoryTypes, JobOK
<1>9. PageInv'
  BY <1>4, <1>5, <1>7 DEF HistoryInv, PageInv
<1>10. PruneInv'
  BY <1>2, <1>7 DEF HistoryInv, PruneInv
<1> QED BY <1>2, <1>7, <1>8, <1>9, <1>10 DEF HistoryInv

LEMMA HistorySavesPrices ==
  ASSUME HistoryInv, NEW p \in Walkers, History!SaveSnapshots(p)
  PROVE  HistoryInv'
<1> DEFINE times == job[p].page
           m == History!Max(times)
           k == [job[p] EXCEPT !.pc = "fetch", !.cursor = m, !.page = {}]
           j == IF m >= job[p].until THEN History!NoJob ELSE k
<1>1. JobOK(job[p]) /\ job[p].pc = "snapshots" /\ times \subseteq BarTimes /\ times \subseteq Int
  BY DEF History!SaveSnapshots, HistoryInv, HistoryTypes, PageInv, JobOK
<1>2. k = [[[job[p] EXCEPT !.pc = "fetch"] EXCEPT !.cursor = m] EXCEPT !.page = {}]
  OBVIOUS
<1>3. /\ job' = [job EXCEPT ![p] = j]
      /\ snapshots' = snapshots \union times /\ observed' = observed \union times
      /\ UNCHANGED <<now, bars, archived, prune>>
  BY DEF History!SaveSnapshots, HistoryInv, HistoryTypes
<1> HIDE DEF m
<1>4. k = [pc |-> "fetch", interval |-> job[p].interval, cursor |-> m,
           until |-> job[p].until, page |-> {}]
  <2> HIDE DEF k
  <2> QED BY <1>1, <1>2 DEF JobOK
<1>5. JobOK(k) /\ k.pc = "fetch"
  <2> HIDE DEF k
  <2> QED BY <1>1, <1>4 DEF JobOK
<1>6. JobOK(j) /\ j.pc \in {"none", "fetch"}
  <2> HIDE DEF k
  <2> QED BY <1>5, NoJobOK
<1> HIDE DEF j
<1>7. /\ \A q \in Walkers : job'[q] = IF q = p THEN j ELSE job[q]
      /\ job' = [q \in Walkers |-> job'[q]]
  BY <1>3 DEF HistoryInv, HistoryTypes
<1>8. BarTimes' = BarTimes
  BY <1>3 DEF BarTimes
<1>9. HistoryTypes'
  BY <1>1, <1>3, <1>6, <1>7 DEF HistoryInv, HistoryTypes, JobOK
<1>10. PageInv'
  BY <1>6, <1>7, <1>8 DEF HistoryInv, PageInv
<1>11. PruneInv'
  BY <1>1, <1>3, <1>8 DEF HistoryInv, PruneInv
<1> QED BY <1>1, <1>3, <1>8, <1>9, <1>10, <1>11 DEF HistoryInv

LEMMA HistoryWalks ==
  ASSUME HistoryInv,
         \/ \E p \in Walkers : History!WalkFails(p)
         \/ History!Boot \/ History!TopUp \/ History!Stop
         \/ \E mode \in {"since", "catchup", "resume"}, i \in BackfillIntervals,
               since \in History!Times : History!Backfill(mode, i, since)
  PROVE  HistoryInv'
<1>0. ASSUME NEW p \in Walkers, NEW j, JobOK(j), j.pc \in {"none", "fetch"},
             job' = [job EXCEPT ![p] = j], UNCHANGED <<now, snapshots, bars, archived, observed, prune>>
      PROVE  HistoryInv'
  BY <1>0, JobsChange
<1>1. ASSUME NEW p \in Walkers, History!WalkFails(p) PROVE HistoryInv'
  BY <1>1, <1>0, NoJobOK DEF History!WalkFails
<1>2. CASE History!Boot
  <2> DEFINE w == History!Walk("minute", History!Max(snapshots), now)
             j == IF History!GapToFill THEN w ELSE History!NoJob
  <2>1. JobOK(w) /\ w.pc \in {"none", "fetch"}
    BY WalkOK DEF History!Intervals
  <2>2. job' = [job EXCEPT !["daemon"] = j] /\ UNCHANGED <<now, snapshots, bars, archived, observed, prune>>
    BY <1>2 DEF History!Boot
  <2> HIDE DEF w
  <2>3. JobOK(j) /\ j.pc \in {"none", "fetch"}
    BY <2>1, NoJobOK
  <2> HIDE DEF j
  <2> QED BY <2>2, <2>3, <1>0 DEF Walkers
<1>3. CASE History!TopUp
  <2> DEFINE since == IF bars["hour"] = {} THEN now - Seed ELSE History!Max(bars["hour"])
             w == History!Walk("hour", since, now - 1)
  <2>1. JobOK(w) /\ w.pc \in {"none", "fetch"}
    BY WalkOK DEF History!Intervals
  <2>2. job' = [job EXCEPT !["daemon"] = w] /\ UNCHANGED <<now, snapshots, bars, archived, observed, prune>>
    BY <1>3 DEF History!TopUp
  <2> HIDE DEF w
  <2> QED BY <2>1, <2>2, <1>0 DEF Walkers
<1>4. CASE History!Stop
  BY <1>4, <1>0, NoJobOK DEF History!Stop, Walkers
<1>5. ASSUME NEW mode \in {"since", "catchup", "resume"}, NEW i \in BackfillIntervals,
             NEW since \in History!Times, History!Backfill(mode, i, since)
      PROVE  HistoryInv'
  <2>1. PICK cursor : job' = [job EXCEPT !["cli"] = History!Walk(i, cursor, now)]
    BY <1>5 DEF History!Backfill
  <2> DEFINE w == History!Walk(i, cursor, now)
  <2>2. JobOK(w) /\ w.pc \in {"none", "fetch"}
    BY WalkOK, HistoryAssumption DEF History!Intervals
  <2>3. UNCHANGED <<now, snapshots, bars, archived, observed, prune>>
    BY <1>5 DEF History!Backfill
  <2> HIDE DEF w
  <2> QED BY <2>1, <2>2, <2>3, <1>0 DEF Walkers, w
<1> QED BY <1>1, <1>2, <1>3, <1>4, <1>5

LEMMA HistoryPolls ==
  ASSUME HistoryInv, History!Poll
  PROVE  HistoryInv'
<1>1. /\ snapshots' = snapshots \union {now} /\ observed' = observed \union {now}
      /\ UNCHANGED <<now, bars, archived, job, prune>>
  BY DEF History!Poll
<1>2. BarTimes' = BarTimes
  BY <1>1 DEF BarTimes
<1>3. HistoryTypes' /\ PageInv'
  BY <1>1, <1>2 DEF HistoryInv, HistoryTypes, PageInv
<1>4. PruneInv'
  BY <1>1, <1>2 DEF HistoryInv, HistoryTypes, PruneInv
<1> QED BY <1>1, <1>2, <1>3, <1>4 DEF HistoryInv

LEMMA HistoryPrunes ==
  ASSUME HistoryInv, History!BeginPrune \/ History!Archive \/ History!Delete \/ History!PruneFails
  PROVE  HistoryInv'
<1>0. UNCHANGED <<now, bars, observed, job>> /\ BarTimes' = BarTimes
  BY DEF History!BeginPrune, History!Archive, History!Delete, History!PruneFails, BarTimes
<1>1. ASSUME snapshots' \subseteq snapshots PROVE HistoryTypes' /\ PageInv'
  BY <1>0, <1>1 DEF HistoryInv, HistoryTypes, PageInv
<1>2. CASE History!BeginPrune
  <2> DEFINE c == now - Horizon
             rows == {t \in snapshots : t <= c}
  <2>1. prune' = [pc |-> "archive", cutoff |-> c, rows |-> rows]
        /\ UNCHANGED <<snapshots, archived>>
    BY <1>2 DEF History!BeginPrune
  <2>2. c \in Int /\ c < now
    BY HistoryAssumption DEF HistoryInv, HistoryTypes
  <2>3. PruneInv'
    BY <1>0, <2>1, <2>2 DEF PruneInv
  <2> QED BY <1>0, <1>1, <2>1, <2>3 DEF HistoryInv
<1>3. CASE History!Archive
  <2>1. prune' = [pc |-> "delete", cutoff |-> prune.cutoff, rows |-> prune.rows]
        /\ archived' = archived \union prune.rows /\ snapshots' = snapshots /\ prune.pc = "archive"
    BY <1>3 DEF History!Archive, HistoryInv
  <2>2. PruneInv'
    BY <1>0, <2>1 DEF HistoryInv, PruneInv
  <2> QED BY <1>0, <1>1, <2>1, <2>2 DEF HistoryInv
<1>4. CASE History!Delete
  <2>1. /\ snapshots' = {t \in snapshots : t > prune.cutoff} /\ prune.pc = "delete"
        /\ prune' = [pc |-> "none", cutoff |-> 0, rows |-> {}] /\ archived' = archived
    BY <1>4 DEF History!Delete, History!NoPrune
  <2>2. PruneInv'
    BY <2>1 DEF PruneInv
  <2>3. \A t \in snapshots : t \in snapshots' \/ t \in archived \union BarTimes
    BY <2>1 DEF HistoryInv, HistoryTypes, PruneInv
  <2> QED BY <1>0, <1>1, <2>1, <2>2, <2>3 DEF HistoryInv
<1>5. CASE History!PruneFails
  <2>1. /\ prune' = [pc |-> "none", cutoff |-> 0, rows |-> {}]
        /\ UNCHANGED <<snapshots, archived>>
    BY <1>5 DEF History!PruneFails, History!NoPrune
  <2>2. PruneInv'
    BY <2>1 DEF PruneInv
  <2> QED BY <1>0, <1>1, <2>1, <2>2 DEF HistoryInv
<1> QED BY <1>2, <1>3, <1>4, <1>5

LEMMA HistoryPasses ==
  ASSUME HistoryInv, History!Tick \/ History!EnterLoop \/ UNCHANGED historyVars
  PROVE  HistoryInv'
<1>1. /\ UNCHANGED <<snapshots, bars, archived, observed, job, prune>>
      /\ now' = now \/ now' = now + 1
  BY DEF History!Tick, History!EnterLoop, historyVars
<1>2. BarTimes' = BarTimes
  BY <1>1 DEF BarTimes
<1>3. HistoryTypes' /\ PageInv'
  BY <1>1, <1>2 DEF HistoryInv, HistoryTypes, PageInv
<1>4. PruneInv'
  BY <1>1, <1>2 DEF HistoryInv, HistoryTypes, PruneInv
<1> QED BY <1>1, <1>2, <1>3, <1>4 DEF HistoryInv

LEMMA NextHistory == HistoryInv /\ [History!Next]_historyVars => HistoryInv'
  BY HistoryFetches, HistorySavesBars, HistorySavesPrices, HistoryWalks, HistoryPolls,
     HistoryPrunes, HistoryPasses DEF History!Next, Walkers

LEMMA HistoryPart == ServicesNext \/ UNCHANGED all => [History!Next]_historyVars
  BY DEF ServicesNext, Rest, all, partVars

(* For any horizon, retention and intervals: a price stored once is in the *)
(* table, in an archive or in a bar, whatever backfills write while the    *)
(* pruner deletes.                                                         *)
THEOREM PricesAreKept == ServicesSpec => []PricesKept
<1>1. ServicesInit => HistoryInv
  BY InitHistory DEF ServicesInit, PartsInit
<1>2. HistoryInv /\ [ServicesNext]_all => HistoryInv'
  BY NextHistory, HistoryPart
<1>3. HistoryInv => PricesKept
  BY DEF HistoryInv, PricesKept, History!PricesKept, BarTimes
<1> QED BY <1>1, <1>2, <1>3, PTL DEF ServicesSpec

-----------------------------------------------------------------------------
(* The failing key.  As long as nothing was paged, the timer outlasts the  *)
(* failures that are missing to the alert: each of them takes at most the  *)
(* timeouts of a fetch and of a ping and the sleep between two ticks.      *)

Rounds(n) == n * (2 * Slow + 1)

(* The timer outlasts as many failing rounds as the alert takes. *)
WindowOutlastsStreak == Rounds(StreakAlert) < Window

LiveOK(l) ==
    /\ l = [at |-> l.at, wait |-> l.wait, streak |-> l.streak, alerted |-> l.alerted,
            strikes |-> l.strikes, paused |-> l.paused, backoff |-> l.backoff,
            backoffSize |-> l.backoffSize, armed |-> l.armed]
    /\ l.at \in {"down", "top", "pinging", "tick"} /\ l.wait \in Nat
    /\ l.alerted \in BOOLEAN /\ l.paused \in BOOLEAN /\ l.armed \in BOOLEAN
    /\ l.at = "tick" => l.wait = 0
    /\ ~l.alerted => l.streak \in Nat /\ l.streak < StreakAlert

(* The longest until the alert, if nothing succeeds any more. *)
Due(l) ==
    IF l.at = "tick" THEN Rounds(StreakAlert - l.streak)
    ELSE l.wait + (IF l.at = "top" THEN Slow ELSE 0) + Rounds(StreakAlert - l.streak - 1)

(* Somebody may count on being paged. *)
Counting(l) == l.at # "down" /\ l.armed /\ ~l.alerted /\ ~l.paused

WatchInv ==
    /\ timer \in Nat
    /\ LiveOK(live)
    /\ Counting(live) /\ timer > 0 => Due(live) < timer

LEMMA RoundsGrow ==
  ASSUME NEW n \in Nat
  PROVE  Rounds(n) \in Nat /\ Rounds(n + 1) = Rounds(n) + 2 * Slow + 1
<1> DEFINE k == 2 * Slow + 1
<1>1. k \in Nat
  BY WatchAssumption
<1>2. Rounds(n) = n * k /\ Rounds(n + 1) = (n + 1) * k
  BY DEF Rounds
<1>3. k = 2 * Slow + 1
  OBVIOUS
<1> HIDE DEF k
<1>4. n * k \in Nat /\ (n + 1) * k = n * k + k
  BY <1>1
<1> QED BY <1>1, <1>2, <1>3, <1>4, WatchAssumption

LEMMA RoundsMonotone ==
  ASSUME NEW m \in Nat, NEW n \in Nat, m <= n
  PROVE  Rounds(m) <= Rounds(n)
<1> DEFINE k == 2 * Slow + 1
<1>1. k \in Nat
  BY WatchAssumption
<1>2. Rounds(m) = m * k /\ Rounds(n) = n * k
  BY DEF Rounds
<1> HIDE DEF k
<1>3. PICK d \in Nat : n = m + d
  <2>1. n - m \in Nat /\ n = m + (n - m)
    OBVIOUS
  <2> QED BY <2>1
<1>4. (m + d) * k = m * k + d * k /\ d * k \in Nat /\ m * k \in Nat
  BY <1>1
<1> QED BY <1>2, <1>3, <1>4

(* What note_... leaves alone. *)
Same(l, k) ==
    /\ LiveOK(k) /\ k.at = l.at /\ k.wait = l.wait /\ k.streak = l.streak
    /\ k.alerted = l.alerted /\ k.armed = l.armed /\ (l.paused => k.paused)

LEMMA SuccessNoted ==
  ASSUME NEW l, LiveOK(l)
  PROVE  Same(l, Watch!NoteSuccess(l))
<1> DEFINE k == [l EXCEPT !.strikes = 0, !.backoff = 0, !.backoffSize = 0]
<1>1. k = [[[l EXCEPT !.strikes = 0] EXCEPT !.backoff = 0] EXCEPT !.backoffSize = 0]
  OBVIOUS
<1>2. k = Watch!NoteSuccess(l)
  BY DEF Watch!NoteSuccess
<1> HIDE DEF k
<1>3. k = [at |-> l.at, wait |-> l.wait, streak |-> l.streak, alerted |-> l.alerted,
            strikes |-> 0, paused |-> l.paused, backoff |-> 0,
            backoffSize |-> 0, armed |-> l.armed]
  BY <1>1 DEF LiveOK
<1>4. Same(l, k)
  BY <1>3 DEF LiveOK, Same
<1> QED BY <1>2, <1>4

LEMMA LockoutNoted ==
  ASSUME NEW l, LiveOK(l)
  PROVE  Same(l, Watch!NoteLockout(l))
<1> DEFINE size == IF l.backoffSize = 0 THEN BackoffInitial
                   ELSE Watch!Min({BackoffMax, 2 * l.backoffSize})
           k == [l EXCEPT !.backoff = size, !.backoffSize = size]
<1>1. k = [[l EXCEPT !.backoff = size] EXCEPT !.backoffSize = size]
  OBVIOUS
<1>2. k = Watch!NoteLockout(l)
  BY DEF Watch!NoteLockout
<1> HIDE DEF k, size
<1>3. k = [at |-> l.at, wait |-> l.wait, streak |-> l.streak, alerted |-> l.alerted,
            strikes |-> l.strikes, paused |-> l.paused, backoff |-> size,
            backoffSize |-> size, armed |-> l.armed]
  BY <1>1 DEF LiveOK
<1>4. Same(l, k)
  BY <1>3 DEF LiveOK, Same
<1> QED BY <1>2, <1>4

LEMMA PermanentNoted ==
  ASSUME NEW l, LiveOK(l)
  PROVE  Same(l, Watch!NotePermanentAuth(l))
<1> DEFINE s == Watch!Min({Strikes, l.strikes + 1})
           b == l.paused \/ l.strikes + 1 >= Strikes
           k == [l EXCEPT !.strikes = s, !.paused = b]
<1>1. k = [[l EXCEPT !.strikes = s] EXCEPT !.paused = b]
  OBVIOUS
<1>2. k = Watch!NotePermanentAuth(l)
  BY DEF Watch!NotePermanentAuth, LiveOK
<1>5. b \in BOOLEAN /\ (l.paused => b)
  OBVIOUS
<1> HIDE DEF k, s, b
<1>3. k = [at |-> l.at, wait |-> l.wait, streak |-> l.streak, alerted |-> l.alerted,
            strikes |-> s, paused |-> b, backoff |-> l.backoff,
            backoffSize |-> l.backoffSize, armed |-> l.armed]
  BY <1>1 DEF LiveOK
<1>4. Same(l, k)
  BY <1>3, <1>5 DEF LiveOK, Same
<1> QED BY <1>2, <1>4

LEMMA FailureNoted ==
  ASSUME NEW l, LiveOK(l), NEW kind
  PROVE  Same(l, Watch!NoteFailure(l, kind))
<1>1. Same(l, l)
  BY DEF Same
<1>2. Watch!NoteFailure(l, kind) \in {Watch!NoteLockout(l), Watch!NotePermanentAuth(l), l}
  BY DEF Watch!NoteFailure
<1> QED BY <1>1, <1>2, LockoutNoted, PermanentNoted

(* A failure brings the alert one round nearer, or gives it. *)
LEMMA DmsFailureNoted ==
  ASSUME NEW l, LiveOK(l)
  PROVE  LET k == Watch!NoteDmsFailure(l)
         IN /\ LiveOK(k) /\ k.at = l.at /\ k.wait = l.wait /\ k.armed = l.armed
            /\ k.paused = l.paused
            /\ ~k.alerted => ~l.alerted /\ k.streak = l.streak + 1
<1> DEFINE s == Watch!Min({StreakAlert, l.streak + 1})
           b == l.alerted \/ l.streak + 1 >= StreakAlert
           k == [l EXCEPT !.streak = s, !.alerted = b]
<1>1. k = [[l EXCEPT !.streak = s] EXCEPT !.alerted = b]
  OBVIOUS
<1>2. k = Watch!NoteDmsFailure(l)
  BY DEF Watch!NoteDmsFailure, LiveOK
<1>5. ~b => ~l.alerted /\ s = l.streak + 1 /\ s \in Nat /\ s < StreakAlert
  <2> SUFFICES ASSUME ~b
               PROVE  s = l.streak + 1 /\ l.streak + 1 \in Nat /\ l.streak + 1 < StreakAlert
    OBVIOUS
  <2>1. l.streak \in Nat /\ l.streak + 1 < StreakAlert
    BY WatchAssumption DEF LiveOK
  <2>2. \A x \in {StreakAlert, l.streak + 1} :
          (\A y \in {StreakAlert, l.streak + 1} : x <= y) <=> x = l.streak + 1
    BY <2>1, WatchAssumption
  <2>3. s = CHOOSE x \in {StreakAlert, l.streak + 1} :
              \A y \in {StreakAlert, l.streak + 1} : x <= y
    BY DEF Watch!Min
  <2> QED BY <2>1, <2>2, <2>3
<1>6. b \in BOOLEAN
  OBVIOUS
<1> HIDE DEF k, s, b
<1>3. k = [at |-> l.at, wait |-> l.wait, streak |-> s, alerted |-> b,
            strikes |-> l.strikes, paused |-> l.paused, backoff |-> l.backoff,
            backoffSize |-> l.backoffSize, armed |-> l.armed]
  BY <1>1 DEF LiveOK
<1>4. /\ LiveOK(k) /\ k.at = l.at /\ k.wait = l.wait /\ k.armed = l.armed
      /\ k.paused = l.paused /\ (~k.alerted => ~l.alerted /\ k.streak = l.streak + 1)
  BY <1>3, <1>5, <1>6 DEF LiveOK
<1> QED BY <1>2, <1>4

LEMMA DmsSuccessNoted ==
  ASSUME NEW l, LiveOK(l)
  PROVE  LET k == Watch!NoteDmsSuccess(l)
         IN LiveOK(k) /\ k.at = l.at /\ k.wait = l.wait /\ k.streak = 0
<1> DEFINE m == Watch!NoteSuccess(l)
           k == [m EXCEPT !.streak = 0, !.alerted = FALSE]
<1>1. k = [[m EXCEPT !.streak = 0] EXCEPT !.alerted = FALSE]
  OBVIOUS
<1>2. k = Watch!NoteDmsSuccess(l)
  BY DEF Watch!NoteDmsSuccess
<1>3. Same(l, m)
  BY SuccessNoted
<1> HIDE DEF k, m
<1>4. k = [at |-> m.at, wait |-> m.wait, streak |-> 0, alerted |-> FALSE,
            strikes |-> m.strikes, paused |-> m.paused, backoff |-> m.backoff,
            backoffSize |-> m.backoffSize, armed |-> m.armed]
  BY <1>1, <1>3 DEF LiveOK, Same
<1>5. LiveOK(k) /\ k.at = l.at /\ k.wait = l.wait /\ k.streak = 0
  BY <1>3, <1>4, WatchAssumption DEF LiveOK, Same
<1> QED BY <1>2, <1>5

(* Where the loop goes next. *)
LEMMA Gone ==
  ASSUME NEW l, LiveOK(l), NEW at \in {"down", "top", "pinging", "tick"}, NEW w \in Nat,
         at = "tick" => w = 0
  PROVE  LET k == Watch!Goto(l, at, w)
         IN /\ LiveOK(k) /\ k.at = at /\ k.wait = w /\ k.streak = l.streak
            /\ k.alerted = l.alerted /\ k.paused = l.paused /\ k.armed = l.armed
<1> DEFINE k == [l EXCEPT !.at = at, !.wait = w]
<1>1. k = [[l EXCEPT !.at = at] EXCEPT !.wait = w]
  OBVIOUS
<1>2. k = Watch!Goto(l, at, w)
  BY DEF Watch!Goto
<1> HIDE DEF k
<1>3. k = [at |-> at, wait |-> w, streak |-> l.streak, alerted |-> l.alerted,
            strikes |-> l.strikes, paused |-> l.paused, backoff |-> l.backoff,
            backoffSize |-> l.backoffSize, armed |-> l.armed]
  BY <1>1 DEF LiveOK
<1>4. /\ LiveOK(k) /\ k.at = at /\ k.wait = w /\ k.streak = l.streak
      /\ k.alerted = l.alerted /\ k.paused = l.paused /\ k.armed = l.armed
  BY <1>3 DEF LiveOK
<1> QED BY <1>2, <1>4

LEMMA Armed ==
  ASSUME NEW l, LiveOK(l), NEW b \in BOOLEAN
  PROVE  LET k == [l EXCEPT !.armed = b]
         IN /\ LiveOK(k) /\ k.at = l.at /\ k.wait = l.wait /\ k.streak = l.streak
            /\ k.alerted = l.alerted /\ k.paused = l.paused /\ k.armed = b
<1> DEFINE k == [l EXCEPT !.armed = b]
<1>1. k = [at |-> l.at, wait |-> l.wait, streak |-> l.streak, alerted |-> l.alerted,
            strikes |-> l.strikes, paused |-> l.paused, backoff |-> l.backoff,
            backoffSize |-> l.backoffSize, armed |-> b]
  BY DEF LiveOK
<1> HIDE DEF k
<1>2. /\ LiveOK(k) /\ k.at = l.at /\ k.wait = l.wait /\ k.streak = l.streak
      /\ k.alerted = l.alerted /\ k.paused = l.paused /\ k.armed = b
  BY <1>1 DEF LiveOK
<1> QED BY <1>2 DEF k

LEMMA FreshAndDown ==
  /\ LiveOK(Watch!Fresh) /\ ~Watch!Fresh.armed
  /\ LiveOK(Watch!Down) /\ Watch!Down.at = "down"
<1>1. Watch!Fresh = [at |-> "top", wait |-> 0, streak |-> 0, alerted |-> FALSE, strikes |-> 0,
                     paused |-> FALSE, backoff |-> 0, backoffSize |-> 0, armed |-> FALSE]
  BY DEF Watch!Fresh
<1>2. Watch!Down = [Watch!Fresh EXCEPT !.at = "down"]
  BY DEF Watch!Down
<1>3. Watch!Down = [at |-> "down", wait |-> 0, streak |-> 0, alerted |-> FALSE, strikes |-> 0,
                    paused |-> FALSE, backoff |-> 0, backoffSize |-> 0, armed |-> FALSE]
  BY <1>1, <1>2
<1>4. LiveOK(Watch!Fresh) /\ ~Watch!Fresh.armed
  BY <1>1, WatchAssumption DEF LiveOK
<1>5. LiveOK(Watch!Down) /\ Watch!Down.at = "down"
  BY <1>3, WatchAssumption DEF LiveOK
<1> QED BY <1>4, <1>5

LEMMA InitWatch == Watch!Init => WatchInv
  BY FreshAndDown DEF Watch!Init, WatchInv, Counting

(* A renewed timer outlasts whatever is due. *)
LEMMA RenewedOutlasts ==
  ASSUME WindowOutlastsStreak, NEW l, LiveOK(l), ~l.alerted,
         \/ l.at = "tick"
         \/ l.at = "pinging" /\ l.wait = Slow
  PROVE  Due(l) < Window
<1> DEFINE n == StreakAlert - l.streak
<1>1. n \in Nat /\ n - 1 \in Nat /\ n <= StreakAlert /\ StreakAlert \in Nat
  BY WatchAssumption DEF LiveOK
<1>2. Rounds(n) <= Rounds(StreakAlert) /\ Rounds(n) = Rounds(n - 1) + 2 * Slow + 1
  <2>1. (n - 1) + 1 = n
    BY <1>1
  <2> HIDE DEF n
  <2> QED BY <1>1, <2>1, RoundsGrow, RoundsMonotone
<1>3. Rounds(n) \in Nat /\ Rounds(n - 1) \in Nat /\ Rounds(StreakAlert) \in Nat
  BY <1>1, RoundsGrow
<1>4. l.at = "tick" => Due(l) = Rounds(n)
  BY DEF Due
<1>5. l.at = "pinging" => Due(l) = l.wait + 0 + Rounds(n - 1)
  BY DEF Due
<1> HIDE DEF n
<1> QED BY <1>1, <1>2, <1>3, <1>4, <1>5, WatchAssumption DEF WindowOutlastsStreak

(* Steps of the loop before and after a ping, and after a fetch: what is   *)
(* due becomes no more.                                                    *)
LEMMA StepsOutlast ==
  ASSUME NEW l, NEW k, LiveOK(l), LiveOK(k), ~l.alerted, ~k.alerted,
         \/ /\ k.streak = l.streak
            /\ \/ l.at = "top" /\ l.wait = 0 /\ k.at = "pinging" /\ k.wait = Slow
               \/ l.at = "tick" /\ k.at = "top" /\ k.wait <= Slow + 1
         \/ /\ k.streak = l.streak + 1 /\ k.at = "tick"
            /\ l.at \in {"top", "pinging"} /\ l.wait = 0
  PROVE  Due(k) <= Due(l) /\ Due(k) \in Nat /\ Due(l) \in Nat
<1> DEFINE n == StreakAlert - l.streak
<1>1. n \in Nat /\ n - 1 \in Nat /\ l.wait \in Nat /\ k.wait \in Nat /\ l.streak \in Nat
  BY WatchAssumption DEF LiveOK
<1>2. Rounds(n) = Rounds(n - 1) + 2 * Slow + 1 /\ Rounds(n) \in Nat /\ Rounds(n - 1) \in Nat
  <2>1. (n - 1) + 1 = n
    BY <1>1
  <2> HIDE DEF n
  <2> QED BY <1>1, <2>1, RoundsGrow
<1>3. Due(l) = IF l.at = "tick" THEN Rounds(n)
               ELSE l.wait + (IF l.at = "top" THEN Slow ELSE 0) + Rounds(n - 1)
  BY DEF Due
<1>4. k.streak = l.streak =>
        Due(k) = IF k.at = "tick" THEN Rounds(n)
                 ELSE k.wait + (IF k.at = "top" THEN Slow ELSE 0) + Rounds(n - 1)
  BY DEF Due
<1>5. k.streak = l.streak + 1 /\ k.at = "tick" => Due(k) = Rounds(n - 1)
  <2>1. k.streak = l.streak + 1 => StreakAlert - k.streak = n - 1
    BY <1>1, WatchAssumption
  <2> QED BY <2>1 DEF Due
<1> HIDE DEF n
<1> QED BY <1>1, <1>2, <1>3, <1>4, <1>5, WatchAssumption

(* The loop goes on, with the timer as it was or renewed. *)
LEMMA LoopKeeps ==
  ASSUME WatchInv, LiveOK(live'),
         \/ /\ timer' = timer
            /\ Counting(live') => /\ Counting(live) /\ Due(live') <= Due(live)
                                  /\ Due(live') \in Nat /\ Due(live) \in Nat
         \/ /\ timer' = Window
            /\ Counting(live') => Due(live') < Window
  PROVE  WatchInv'
<1>1. timer' \in Nat
  BY WatchAssumption DEF WatchInv
<1>2. Counting(live') /\ timer' > 0 => Due(live') < timer'
  BY DEF WatchInv
<1>3. /\ Counting(live)' = Counting(live') /\ Due(live)' = Due(live')
      /\ LiveOK(live)' = LiveOK(live')
  BY DEF Counting, Due, LiveOK
<1> QED BY <1>1, <1>2, <1>3 DEF WatchInv

LEMMA PingIsConfirmed ==
  ASSUME WatchInv, WindowOutlastsStreak, Watch!PingConfirmed
  PROVE  WatchInv'
<1> DEFINE m == Watch!NoteDmsSuccess(live)
           g == Watch!Goto(m, "tick", 0)
           k == [g EXCEPT !.armed = TRUE]
<1>1. live' = k /\ timer' = Window
  BY DEF Watch!PingConfirmed
<1>2. LiveOK(m)
  BY DmsSuccessNoted DEF WatchInv
<1> HIDE DEF m
<1>3. LiveOK(g) /\ g.at = "tick"
  BY <1>2, Gone
<1> HIDE DEF g
<1>4. LiveOK(k) /\ k.at = "tick"
  BY <1>3, Armed
<1> HIDE DEF k
<1>5. Counting(k) => Due(k) < Window
  BY <1>4, RenewedOutlasts DEF Counting
<1> QED BY <1>1, <1>4, <1>5, LoopKeeps

LEMMA PingIsUnconfirmed ==
  ASSUME WatchInv, WindowOutlastsStreak, Watch!PingUnconfirmed
  PROVE  WatchInv'
<1> DEFINE s == Watch!NoteSuccess(live)
           f == Watch!NoteDmsFailure(s)
           g == Watch!Goto(f, "tick", 0)
<1>1. PICK renewed \in BOOLEAN :
        /\ timer' = IF renewed THEN Window ELSE timer
        /\ live' = [g EXCEPT !.armed = @ \/ renewed]
  BY DEF Watch!PingUnconfirmed
<1>2. live.at = "top" /\ live.wait = 0 /\ LiveOK(live)
  BY DEF Watch!PingUnconfirmed, Watch!Ready, WatchInv
<1>3. Same(live, s)
  BY <1>2, SuccessNoted
<1> HIDE DEF s
<1>4. /\ LiveOK(f) /\ f.armed = live.armed /\ (live.paused => f.paused)
      /\ ~f.alerted => ~live.alerted /\ f.streak = live.streak + 1
  BY <1>3, DmsFailureNoted DEF Same
<1> HIDE DEF f
<1>5. /\ LiveOK(g) /\ g.at = "tick" /\ g.wait = 0 /\ g.streak = f.streak
      /\ g.alerted = f.alerted /\ g.paused = f.paused /\ g.armed = f.armed
  BY <1>4, Gone
<1> HIDE DEF g
<1> DEFINE b == g.armed \/ renewed
           k == [g EXCEPT !.armed = b]
<1>6. live' = k /\ b \in BOOLEAN
  BY <1>1, <1>5 DEF LiveOK
<1> HIDE DEF b
<1>7. /\ LiveOK(k) /\ k.at = "tick" /\ k.wait = 0 /\ k.streak = f.streak
      /\ k.alerted = f.alerted /\ k.paused = f.paused /\ k.armed = b
  BY <1>5, <1>6, Armed
<1> HIDE DEF k
<1>8. CASE renewed
  <2>1. Counting(k) => Due(k) < Window
    BY <1>7, RenewedOutlasts DEF Counting
  <2> QED BY <1>1, <1>6, <1>7, <1>8, <2>1, LoopKeeps
<1>9. CASE ~renewed
  <2>1. b => live.armed
    BY <1>4, <1>5, <1>9 DEF b
  <2>2. Counting(k) => Counting(live)
    BY <1>2, <1>4, <1>7, <2>1 DEF Counting
  <2>3. Counting(k) => Due(k) <= Due(live) /\ Due(k) \in Nat /\ Due(live) \in Nat
    BY <1>2, <1>4, <1>7, StepsOutlast DEF Counting
  <2> QED BY <1>1, <1>6, <1>7, <1>9, <2>2, <2>3, LoopKeeps
<1> QED BY <1>8, <1>9

LEMMA PingFails ==
  ASSUME WatchInv, Watch!PingRefused \/ Watch!PingTimesOut
  PROVE  WatchInv'
<1>1. /\ live.at \in {"top", "pinging"} /\ live.wait = 0 /\ LiveOK(live)
      /\ timer' = timer
  BY DEF Watch!PingRefused, Watch!PingTimesOut, Watch!Ready, WatchInv
<1>2. PICK s : Same(live, s) /\ live' = Watch!Goto(Watch!NoteDmsFailure(s), "tick", 0)
  <2>1. Same(live, live)
    BY <1>1 DEF Same
  <2>2. \A kind : Same(live, Watch!NoteFailure(live, kind))
    BY <1>1, FailureNoted
  <2> QED BY <2>1, <2>2 DEF Watch!PingRefused, Watch!PingTimesOut
<1> DEFINE f == Watch!NoteDmsFailure(s)
           k == Watch!Goto(f, "tick", 0)
<1>3. /\ LiveOK(f) /\ f.armed = live.armed /\ (live.paused => f.paused)
      /\ ~f.alerted => ~live.alerted /\ f.streak = live.streak + 1
  BY <1>2, DmsFailureNoted DEF Same
<1>4. live' = k
  BY <1>2
<1> HIDE DEF f
<1>5. /\ LiveOK(k) /\ k.at = "tick" /\ k.wait = 0 /\ k.streak = f.streak
      /\ k.alerted = f.alerted /\ k.paused = f.paused /\ k.armed = f.armed
  BY <1>3, Gone
<1> HIDE DEF k
<1>6. Counting(k) => Counting(live)
  BY <1>1, <1>3, <1>5 DEF Counting
<1>7. Counting(k) => Due(k) <= Due(live) /\ Due(k) \in Nat /\ Due(live) \in Nat
  BY <1>1, <1>3, <1>5, StepsOutlast DEF Counting
<1> QED BY <1>1, <1>4, <1>5, <1>6, <1>7, LoopKeeps

LEMMA PingHangs ==
  ASSUME WatchInv, WindowOutlastsStreak, Watch!PingUnanswered
  PROVE  WatchInv'
<1> DEFINE g == Watch!Goto(live, "pinging", Slow)
<1>1. PICK renewed \in BOOLEAN :
        /\ timer' = IF renewed THEN Window ELSE timer
        /\ live' = [g EXCEPT !.armed = @ \/ renewed]
  <2>1. (alive["trader"] /\ ~locked) \in BOOLEAN
    OBVIOUS
  <2> QED BY <2>1 DEF Watch!PingUnanswered
<1>2. live.at = "top" /\ live.wait = 0 /\ LiveOK(live)
  BY DEF Watch!PingUnanswered, Watch!Ready, WatchInv
<1>3. /\ LiveOK(g) /\ g.at = "pinging" /\ g.wait = Slow /\ g.streak = live.streak
      /\ g.alerted = live.alerted /\ g.paused = live.paused /\ g.armed = live.armed
  BY <1>2, Gone, WatchAssumption
<1> HIDE DEF g
<1> DEFINE b == g.armed \/ renewed
           k == [g EXCEPT !.armed = b]
<1>4. live' = k /\ b \in BOOLEAN
  BY <1>1, <1>3 DEF LiveOK
<1> HIDE DEF b
<1>5. /\ LiveOK(k) /\ k.at = "pinging" /\ k.wait = Slow /\ k.streak = live.streak
      /\ k.alerted = live.alerted /\ k.paused = live.paused /\ k.armed = b
  BY <1>3, <1>4, Armed
<1> HIDE DEF k
<1>6. CASE renewed
  <2>1. Counting(k) => Due(k) < Window
    BY <1>5, RenewedOutlasts DEF Counting
  <2> QED BY <1>1, <1>4, <1>5, <1>6, <2>1, LoopKeeps
<1>7. CASE ~renewed
  <2>1. b => live.armed
    BY <1>3, <1>7 DEF b
  <2>2. Counting(k) => Counting(live)
    BY <1>2, <1>5, <2>1 DEF Counting
  <2>3. Counting(k) => Due(k) <= Due(live) /\ Due(k) \in Nat /\ Due(live) \in Nat
    BY <1>2, <1>5, StepsOutlast DEF Counting
  <2> QED BY <1>1, <1>4, <1>5, <1>7, <2>2, <2>3, LoopKeeps
<1> QED BY <1>6, <1>7

LEMMA TickPasses ==
  ASSUME WatchInv, \/ Watch!NoPing \/ Watch!SkipTick
                   \/ Watch!FetchSucceeds \/ Watch!FetchRefused \/ Watch!FetchUnanswered
  PROVE  WatchInv'
<1>1. LiveOK(live) /\ timer' = timer
  BY DEF Watch!NoPing, Watch!SkipTick, Watch!FetchSucceeds, Watch!FetchRefused,
         Watch!FetchUnanswered, WatchInv
<1>2. CASE Watch!NoPing
  <2>1. live' = Watch!Goto(live, "tick", 0) /\ live.paused
    BY <1>2 DEF Watch!NoPing
  <2>2. LiveOK(live') /\ live'.paused
    BY <1>1, <2>1, Gone
  <2> QED BY <1>1, <2>2, LoopKeeps DEF Counting
<1>3. CASE ~Watch!NoPing
  <2>1. PICK w \in {1, Slow + 1} :
          live.at = "tick" /\ \E s : Same(live, s) /\ live' = Watch!Goto(s, "top", w)
    <3>1. Same(live, live) /\ Same(live, Watch!NoteSuccess(live))
      BY <1>1, SuccessNoted DEF Same
    <3>2. \A kind : Same(live, Watch!NoteFailure(live, kind))
      BY <1>1, FailureNoted
    <3>4. live.at = "tick"
      BY <1>3 DEF Watch!SkipTick, Watch!FetchSucceeds, Watch!FetchRefused,
                  Watch!FetchUnanswered, Watch!Fetching, Watch!Ready
    <3>5. CASE Watch!SkipTick
      BY <3>1, <3>4, <3>5 DEF Watch!SkipTick
    <3>6. CASE Watch!FetchSucceeds
      BY <3>1, <3>4, <3>6 DEF Watch!FetchSucceeds
    <3>7. CASE Watch!FetchRefused
      BY <3>2, <3>4, <3>7 DEF Watch!FetchRefused
    <3>8. CASE Watch!FetchUnanswered
      BY <3>1, <3>4, <3>8 DEF Watch!FetchUnanswered
    <3> QED BY <1>3, <3>5, <3>6, <3>7, <3>8
  <2>2. PICK s : Same(live, s) /\ live' = Watch!Goto(s, "top", w)
    BY <2>1
  <2>3. w \in Nat /\ w <= Slow + 1
    BY WatchAssumption
  <2> DEFINE k == Watch!Goto(s, "top", w)
  <2>4. live' = k
    BY <2>2
  <2>5. /\ LiveOK(k) /\ k.at = "top" /\ k.wait = w /\ k.streak = s.streak
        /\ k.alerted = s.alerted /\ k.paused = s.paused /\ k.armed = s.armed
    BY <2>2, <2>3, Gone DEF Same
  <2> HIDE DEF k
  <2>6. Counting(k) => Counting(live)
    BY <1>1, <2>1, <2>2, <2>5 DEF Counting, Same
  <2>7. Counting(k) => Due(k) <= Due(live) /\ Due(k) \in Nat /\ Due(live) \in Nat
    BY <1>1, <2>1, <2>2, <2>3, <2>5, StepsOutlast DEF Counting, Same
  <2> QED BY <1>1, <2>4, <2>5, <2>6, <2>7, LoopKeeps
<1> QED BY <1>2, <1>3

LEMMA SessionBegins ==
  ASSUME WatchInv, Watch!Start \/ Watch!Stop
  PROVE  WatchInv'
<1>1. live' \in {Watch!Fresh, Watch!Down} /\ timer' \in {timer, 0}
  BY DEF Watch!Start, Watch!Stop
<1>2. LiveOK(live') /\ ~Counting(live')
  BY <1>1, FreshAndDown DEF Counting
<1>3. timer' \in Nat
  BY <1>1 DEF WatchInv
<1>4. LiveOK(live)' = LiveOK(live') /\ Counting(live)' = Counting(live')
  BY DEF LiveOK, Counting
<1> QED BY <1>2, <1>3, <1>4 DEF WatchInv

(* A tick of the clock takes one of both. *)
LEMMA ClockTicks ==
  ASSUME WatchInv, Watch!Elapse
  PROVE  WatchInv'
<1>1. /\ timer' = IF timer = 0 THEN 0 ELSE timer - 1
      /\ timer' \in Nat /\ LiveOK(live)
  BY DEF Watch!Elapse, WatchInv
<1>2. CASE live.at = "down"
  <2>1. live' = live
    BY <1>2 DEF Watch!Elapse
  <2> QED BY <1>1, <1>2, <2>1 DEF WatchInv, Counting
<1>3. CASE live.at # "down"
  <2> DEFINE c == IF live.backoff = 0 THEN 0 ELSE live.backoff - 1
             v == live.wait - 1
             k == [live EXCEPT !.wait = v, !.backoff = c]
  <2>1. live' = k /\ live.wait > 0
    BY <1>1, <1>3 DEF Watch!Elapse, LiveOK
  <2>2. k = [[live EXCEPT !.wait = v] EXCEPT !.backoff = c]
    OBVIOUS
  <2>3. v \in Nat /\ live.wait = v + 1 /\ live.at # "tick"
    BY <1>1, <2>1 DEF LiveOK
  <2> HIDE DEF k, c, v
  <2>4. k = [at |-> live.at, wait |-> v, streak |-> live.streak, alerted |-> live.alerted,
             strikes |-> live.strikes, paused |-> live.paused, backoff |-> c,
             backoffSize |-> live.backoffSize, armed |-> live.armed]
    BY <1>1, <2>2 DEF LiveOK
  <2>5. /\ LiveOK(k) /\ Counting(k) = Counting(live)
        /\ k.at = live.at /\ k.wait = v /\ k.streak = live.streak /\ k.alerted = live.alerted
    BY <1>1, <2>3, <2>4 DEF LiveOK, Counting
  <2>6. ~live.alerted => Due(live) = Due(k) + 1 /\ Due(k) \in Nat
    <3> DEFINE n == StreakAlert - live.streak - 1
    <3>1. ~live.alerted => n \in Nat
      BY <1>1, WatchAssumption DEF LiveOK
    <3>2. ~live.alerted => Rounds(n) \in Nat
      BY <3>1, RoundsGrow
    <3>3. /\ Due(live) = live.wait + (IF live.at = "top" THEN Slow ELSE 0) + Rounds(n)
          /\ Due(k) = v + (IF live.at = "top" THEN Slow ELSE 0) + Rounds(n)
      BY <2>3, <2>5 DEF Due
    <3> HIDE DEF n
    <3> QED BY <2>3, <3>2, <3>3, WatchAssumption
  <2>7. Counting(k) /\ timer' > 0 => Due(k) < timer'
    BY <1>1, <2>5, <2>6 DEF WatchInv, Counting
  <2>8. /\ Counting(live)' = Counting(live') /\ Due(live)' = Due(live')
        /\ LiveOK(live)' = LiveOK(live')
    BY DEF Counting, Due, LiveOK
  <2> QED BY <1>1, <2>1, <2>5, <2>7, <2>8 DEF WatchInv
<1> QED BY <1>2, <1>3

LEMMA NextWatch ==
  ASSUME WindowOutlastsStreak, WatchInv, [Watch!Next]_watchVars
  PROVE  WatchInv'
<1>1. CASE \/ Watch!PollFails \/ Watch!PollSucceeds \/ Watch!KeyDies \/ Watch!Redeploy
           \/ Watch!LockoutEnds \/ UNCHANGED watchVars
  <2>1. UNCHANGED <<timer, live>>
    BY <1>1 DEF Watch!PollFails, Watch!PollSucceeds, Watch!KeyDies, Watch!Redeploy,
                Watch!LockoutEnds, watchVars
  <2> QED BY <2>1 DEF WatchInv
<1> QED BY <1>1, SessionBegins, PingIsConfirmed, PingIsUnconfirmed, PingFails, PingHangs,
           TickPasses, ClockTicks DEF Watch!Next

LEMMA WatchPart == ServicesNext \/ UNCHANGED all => [Watch!Next]_watchVars
  BY DEF ServicesNext, Rest, all, partVars

(* The timer runs out only in a tick of the clock, and then nothing was    *)
(* due any more.                                                           *)
LEMMA PagedWhenRetired ==
  ASSUME WatchInv, [Watch!Next]_watchVars, timer = 1, timer' = 0, live'.at # "down", live.armed
  PROVE  live.alerted \/ live.paused
<1>1. CASE Watch!Elapse
  <2>1. live.at # "down" /\ live.wait > 0
    BY <1>1 DEF Watch!Elapse
  <2>2. LiveOK(live) /\ (Counting(live) => Due(live) < 1)
    BY DEF WatchInv
  <2>3. ~live.alerted => Due(live) > 0 /\ Due(live) \in Int
    <3> DEFINE n == StreakAlert - live.streak - 1
    <3>1. ~live.alerted => n \in Nat /\ live.at # "tick" /\ live.wait \in Nat
      BY <2>1, <2>2, WatchAssumption DEF LiveOK
    <3>2. ~live.alerted => Rounds(n) \in Nat
      BY <3>1, RoundsGrow
    <3>3. ~live.alerted =>
            Due(live) = live.wait + (IF live.at = "top" THEN Slow ELSE 0) + Rounds(n)
      BY <3>1 DEF Due
    <3>4. ~live.alerted => live.at # "tick" /\ live.wait \in Nat
      BY <3>1
    <3> HIDE DEF n
    <3> QED BY <2>1, <3>2, <3>3, <3>4, WatchAssumption
  <2> QED BY <2>1, <2>2, <2>3 DEF Counting
<1>2. CASE Watch!Stop
  <2>1. live' = Watch!Down
    BY <1>2 DEF Watch!Stop
  <2> QED BY <2>1, FreshAndDown
<1>3. CASE ~Watch!Elapse /\ ~Watch!Stop
  <2>1. timer' = timer \/ timer' = Window
    BY <1>3 DEF Watch!Next, Watch!Start, Watch!PingConfirmed, Watch!PingUnconfirmed,
                Watch!PingRefused, Watch!PingUnanswered, Watch!PingTimesOut, Watch!NoPing,
                Watch!SkipTick, Watch!FetchSucceeds, Watch!FetchRefused, Watch!FetchUnanswered,
                Watch!PollFails, Watch!PollSucceeds, Watch!KeyDies, Watch!Redeploy,
                Watch!LockoutEnds, watchVars
  <2> QED BY <2>1, WatchAssumption
<1> QED BY <1>1, <1>2, <1>3

-----------------------------------------------------------------------------
(* The audit.  The rows read before the open orders only grow, so that a   *)
(* trade lost in the end was absent when they were read; and an order that *)
(* is not open at the end defers nothing.                                  *)

AuditCheck == [pc : {"idle", "trades", "orders", "reported"},
          snapshot : SUBSET Trades, absent : SUBSET Trades]

AuditTypes == executed \subseteq Trades /\ listed \subseteq Trades /\ check \in AuditCheck

(* Between its two reads a check has noted what had no row; of that, what  *)
(* has none now is left.                                                   *)
Noted == check.pc = "orders" => check.snapshot \ saved \subseteq check.absent

AuditInv == AuditTypes /\ Noted

LEMMA InitAudit == Audit!Init => AuditInv
  BY DEF Audit!Init, AuditInv, AuditTypes, AuditCheck, Noted, Audit!NoCheck

(* Kraken's trades are trades. *)
LEMMA KrakenTypes ==
  ASSUME AuditTypes, [Audit!Next]_auditVars
  PROVE  executed' \subseteq Trades /\ listed' \subseteq Trades
<1>1. ASSUME NEW o \in Orders, Audit!Place(o) \/ Audit!Cancel(o) \/ Audit!Resolve(o) \/ Audit!Recover(o) \/ Audit!GiveUp(o)
      PROVE  executed' = executed /\ listed' = listed
  BY <1>1 DEF Audit!Place, Audit!Cancel, Audit!Resolve, Audit!Recover, Audit!GiveUp, Audit!kraken
<1>2. ASSUME NEW t \in Trades, Audit!Execute(t) \/ Audit!List(t)
      PROVE  executed' \subseteq Trades /\ listed' \subseteq Trades
  BY <1>2 DEF Audit!Execute, Audit!List, AuditTypes
<1>3. CASE Audit!Fetch \/ Audit!ReadTrades \/ Audit!ReadOrders \/ Audit!ReadFails
  BY <1>3 DEF Audit!Fetch, Audit!ReadTrades, Audit!ReadOrders, Audit!ReadFails, Audit!kraken, AuditTypes
<1>4. CASE UNCHANGED auditVars
  BY <1>4 DEF auditVars, AuditTypes
<1>5. QED BY <1>1, <1>2, <1>3, <1>4 DEF Audit!Next, AuditTypes

(* cli/live adds rows and takes none away. *)
LEMMA EngineKeeps ==
  ASSUME AuditInv, UNCHANGED check, saved \subseteq saved'
  PROVE  check' \in AuditCheck /\ Noted'
  BY DEF AuditInv, AuditTypes, Noted

LEMMA SavedGrows ==
  ASSUME NEW o \in Orders, Audit!Resolve(o) \/ Audit!Recover(o) \/ Audit!GiveUp(o)
  PROVE  saved \subseteq saved' /\ UNCHANGED check
<1>1. CASE Audit!Resolve(o)
  BY <1>1 DEF Audit!Resolve
<1>2. CASE Audit!Recover(o)
  BY <1>2 DEF Audit!Recover
<1>3. CASE Audit!GiveUp(o)
  BY <1>3 DEF Audit!GiveUp
<1>4. QED BY <1>1, <1>2, <1>3

LEMMA ReadTradesKeeps ==
  ASSUME AuditInv, Audit!ReadTrades
  PROVE  check' \in AuditCheck /\ Noted'
<1>1. /\ check' = [check EXCEPT !.pc = "orders", !.absent = check.snapshot \ saved]
      /\ saved' = saved /\ check \in AuditCheck
  BY DEF Audit!ReadTrades, Audit!store, AuditInv, AuditTypes
<1>2. check' = [pc |-> "orders", snapshot |-> check.snapshot, absent |-> check.snapshot \ saved]
  BY <1>1 DEF AuditCheck
<1>3. check.snapshot \subseteq Trades
  BY <1>1 DEF AuditCheck
<1>4. QED BY <1>1, <1>2, <1>3 DEF Noted, AuditCheck

LEMMA ReadOrdersKeeps ==
  ASSUME AuditInv, Audit!ReadOrders
  PROVE  check' \in AuditCheck /\ Noted'
<1>1. check' = [check EXCEPT !.pc = "reported"] /\ check \in AuditCheck
  BY DEF Audit!ReadOrders, AuditInv, AuditTypes
<1>2. check' \in AuditCheck /\ check'.pc = "reported"
  BY <1>1 DEF AuditCheck
<1>3. QED BY <1>2 DEF Noted

LEMMA NextAudit == AuditInv /\ [Audit!Next]_auditVars => AuditInv'
<1> SUFFICES ASSUME AuditInv, [Audit!Next]_auditVars
             PROVE  check' \in AuditCheck /\ Noted'
  BY KrakenTypes DEF AuditInv, AuditTypes
<1>1. ASSUME NEW o \in Orders, Audit!Place(o) \/ Audit!Cancel(o) PROVE check' \in AuditCheck /\ Noted'
  BY <1>1, EngineKeeps DEF Audit!Place, Audit!Cancel, Audit!store
<1>2. ASSUME NEW o \in Orders, Audit!Resolve(o) \/ Audit!Recover(o) \/ Audit!GiveUp(o)
      PROVE  check' \in AuditCheck /\ Noted'
  BY <1>2, SavedGrows, EngineKeeps
<1>3. ASSUME NEW t \in Trades, Audit!Execute(t) \/ Audit!List(t) PROVE check' \in AuditCheck /\ Noted'
  BY <1>3, EngineKeeps DEF Audit!Execute, Audit!List, Audit!store
<1>4. CASE Audit!Fetch
  BY <1>4 DEF Audit!Fetch, AuditInv, AuditTypes, AuditCheck, Noted
<1>5. CASE Audit!ReadTrades
  BY <1>5, ReadTradesKeeps
<1>6. CASE Audit!ReadOrders
  BY <1>6, ReadOrdersKeeps
<1>7. CASE Audit!ReadFails
  BY <1>7 DEF Audit!ReadFails, Audit!NoCheck, AuditCheck, Noted
<1>8. CASE UNCHANGED auditVars
  BY <1>8, EngineKeeps DEF auditVars
<1>9. QED BY <1>1, <1>2, <1>3, <1>4, <1>5, <1>6, <1>7, <1>8 DEF Audit!Next

(* The last read of a check: whatever is lost was absent and is not        *)
(* deferred, as its order is not open.                                     *)
LEMMA LostIsPaged ==
  ASSUME Noted, check.pc = "orders", Audit!ReadOrders
  PROVE  {t \in check.snapshot : Audit!Lost(t)} \subseteq paged'
<1> SUFFICES ASSUME NEW t \in check.snapshot, Audit!Lost(t)
             PROVE  t \in paged'
  OBVIOUS
<1>1. t \in check.absent
  BY DEF Noted, Audit!Lost
<1>2. ~Audit!Deferred(t)
  BY DEF Audit!Deferred, Audit!Lost
<1>3. QED BY <1>1, <1>2 DEF Audit!ReadOrders

(* No other step ends a check. *)
LEMMA OnlyReadOrdersReports ==
  ASSUME [Audit!Next]_auditVars, check.pc = "orders", check'.pc = "reported"
  PROVE  Audit!ReadOrders
<1>1. check' # check
  OBVIOUS
<1>2. ~Audit!Fetch /\ ~Audit!ReadTrades /\ ~Audit!ReadFails
  BY DEF Audit!Fetch, Audit!ReadTrades, Audit!ReadFails, Audit!NoCheck
<1>3. \A o \in Orders : ~Audit!Place(o) /\ ~Audit!Cancel(o) /\ ~Audit!Resolve(o) /\ ~Audit!Recover(o) /\ ~Audit!GiveUp(o)
  BY <1>1 DEF Audit!Place, Audit!Cancel, Audit!Resolve, Audit!Recover, Audit!GiveUp
<1>4. \A t \in Trades : ~Audit!Execute(t) /\ ~Audit!List(t)
  BY <1>1 DEF Audit!Execute, Audit!List
<1>5. QED BY <1>1, <1>2, <1>3, <1>4 DEF Audit!Next, auditVars

LEMMA AuditPart == ServicesNext \/ UNCHANGED all => [Audit!Next]_auditVars
  BY DEF ServicesNext, Rest, all, partVars

(* A check that ends pages every trade of its snapshot that has no row and *)
(* will get none, those given up after their order was closed included     *)
(* (reconcile_symbol_trades).                                              *)
THEOREM LostTradesArePaged == ServicesSpec => Audit!LossesPaged
<1>1. ServicesInit => AuditInv
  BY InitAudit DEF ServicesInit, PartsInit
<1>2. AuditInv /\ [ServicesNext]_all => AuditInv'
  BY NextAudit, AuditPart
<1>3. AuditInv /\ [ServicesNext]_all =>
        [check.pc = "orders" /\ check'.pc = "reported"
           => {t \in check.snapshot : Audit!Lost(t)} \subseteq paged']_auditVars
  BY AuditPart, OnlyReadOrdersReports, LostIsPaged DEF AuditInv
<1> QED BY <1>1, <1>2, <1>3, PTL DEF ServicesSpec, Audit!LossesPaged, Audit!vars, auditVars

(* When the timer a session armed runs out under it, the operator was      *)
(* paged of the failing key (_AuthEscalation, _note_dms_failure), if the   *)
(* timer outlasts the failing rounds of the alert; and the daily check     *)
(* pages what is lost.                                                     *)
THEOREM AlarmsAreReaching ==
  ASSUME WindowOutlastsStreak
  PROVE  ServicesSpec => AlarmsReach
<1>1. ServicesInit => WatchInv
  BY InitWatch DEF ServicesInit, PartsInit
<1>2. WatchInv /\ [ServicesNext]_all => WatchInv'
  BY NextWatch, WatchPart, WindowOutlastsStreak
<1>3. WatchInv /\ [ServicesNext]_all =>
        [timer = 1 /\ timer' = 0 /\ live'.at # "down" /\ live.armed
           => live.alerted \/ live.paused]_watchVars
  BY WatchPart, PagedWhenRetired
<1>4. ServicesSpec => Watch!PagedBeforeRetired
  BY <1>1, <1>2, <1>3, PTL DEF ServicesSpec, Watch!PagedBeforeRetired, Watch!vars, watchVars
<1> QED BY <1>4, LostTradesArePaged DEF AlarmsReach

-----------------------------------------------------------------------------
(* The advice.  The experts of one evaluation have slots of their own, so  *)
(* news speaks once in a reconciliation; a suggestion carries the verdict  *)
(* of the firewall on what was said, and the gate reads it.                *)

CallOK(k) == k = [role |-> k.role, pc |-> k.pc, candidate |-> k.candidate,
                  attempt |-> k.attempt, cost |-> k.cost, result |-> k.result]

(* Of an evaluation, the slots are taken, by one call of each expert.      *)
OneEach ==
    cycle.pc = "gather" =>
      \A s, t \in cycle.slots :
         /\ s \in Slots /\ call[s].pc # "free"
         /\ call[s].role = call[t].role => s = t

(* Aggregated from what some experts said of the value.                    *)
Said(s) ==
    /\ s.role = "aggregated" /\ s.value \in Int /\ s.opinions # {}
    /\ s.newsDrove = Advice!NewsDrove(s.value, s.opinions)
    /\ \A o \in s.opinions : o.value \in Int
    /\ \A n, m \in s.opinions : n.role = "news" /\ m.role = "news" => n = m

Backed(s) ==
    \E o \in s.opinions :
       /\ o.role # "news"
       /\ \A n \in s.opinions : n.role = "news" =>
            Advice!Distance(s.value, o.value) <= Advice!Distance(s.value, n.value)

AdviceInv ==
    /\ call = [s \in Slots |-> call[s]]
    /\ \A s \in Slots : CallOK(call[s])
    /\ OneEach
    /\ \A s \in suggestions : s.role = "heuristic" \/ Said(s)
    /\ terminal.pc = "apply" => \/ terminal.suggestion.role = "heuristic"
                                \/ Backed(terminal.suggestion)

(* What the firewall does not call driven by news, some other expert       *)
(* backs.                                                                  *)
LEMMA NotDrivenIsBacked ==
  ASSUME NEW s, Said(s), ~s.newsDrove
  PROVE  Backed(s)
<1>1. \A a, b \in Int : Advice!Distance(a, b) \in Int
  BY DEF Advice!Distance
<1>2. CASE \E n \in s.opinions : n.role = "news"
  <2>1. PICK n \in s.opinions : n.role = "news"
    BY <1>2
  <2>2. ~Advice!NewsDrove(s.value, s.opinions)
    BY DEF Said
  <2>3. PICK o \in s.opinions : /\ o.role # "news"
                                /\ ~(Advice!Distance(s.value, n.value) < Advice!Distance(s.value, o.value))
    BY <2>1, <2>2 DEF Advice!NewsDrove
  <2> DEFINE a == Advice!Distance(s.value, o.value)
             b == Advice!Distance(s.value, n.value)
  <2>4. a \in Int /\ b \in Int /\ ~(b < a)
    BY <1>1, <2>3 DEF Said
  <2>5. a <= b
    <3> HIDE DEF a, b
    <3> QED BY <2>4
  <2> QED BY <2>1, <2>3, <2>5 DEF Backed, Said
<1>3. CASE \A n \in s.opinions : n.role # "news"
  BY <1>3 DEF Backed, Said
<1> QED BY <1>2, <1>3

LEMMA FreeOK ==
  CallOK(Advice!Free) /\ \A r : /\ CallOK(Advice!New(r)) /\ Advice!New(r).role = r
                                /\ Advice!New(r).pc = "check"
<1> DEFINE f == Advice!Free
<1>1. f = [role |-> "none", pc |-> "free", candidate |-> 0, attempt |-> 0, cost |-> 0,
           result |-> "none"]
  BY DEF Advice!Free
<1>2. CallOK(f)
  BY <1>1 DEF CallOK
<1> HIDE DEF f
<1>3. ASSUME NEW r
      PROVE  CallOK(Advice!New(r)) /\ Advice!New(r).role = r /\ Advice!New(r).pc = "check"
  <2> DEFINE k == [f EXCEPT !.role = r, !.pc = "check", !.candidate = 1]
  <2>1. k = [[[f EXCEPT !.role = r] EXCEPT !.pc = "check"] EXCEPT !.candidate = 1]
    OBVIOUS
  <2>2. k = Advice!New(r)
    BY DEF Advice!New, f
  <2> HIDE DEF k
  <2>3. k = [role |-> r, pc |-> "check", candidate |-> 1, attempt |-> 0, cost |-> 0,
             result |-> "none"]
    BY <1>1, <2>1
  <2>4. CallOK(k) /\ k.role = r /\ k.pc = "check"
    BY <2>3 DEF CallOK
  <2> QED BY <2>2, <2>4
<1> QED BY <1>2, <1>3 DEF f

LEMMA InitAdvice == Advice!Init => AdviceInv
<1> SUFFICES ASSUME Advice!Init
             PROVE  AdviceInv
  OBVIOUS
<1>1. /\ call = [s \in Slots |-> Advice!Free] /\ suggestions = {}
      /\ cycle = Advice!Idle /\ terminal = Advice!Closed
  BY DEF Advice!Init, Advice!CallInit
<1>2. cycle.pc = "idle" /\ terminal.pc = "closed"
  BY <1>1 DEF Advice!Idle, Advice!Closed
<1> QED BY <1>1, <1>2, FreeOK DEF AdviceInv, OneEach

(* A call goes on for the expert it was asked of. *)
LEMMA CallGoesOn ==
  ASSUME AdviceInv, NEW s \in Slots, NEW k, CallOK(k),
         k.role = call[s].role, k.pc # "free",
         call' = [call EXCEPT ![s] = k],
         UNCHANGED <<cycle, suggestions, terminal>>
  PROVE  AdviceInv'
<1>1. \A t \in Slots : call'[t] = IF t = s THEN k ELSE call[t]
  BY DEF AdviceInv
<1>2. call' = [t \in Slots |-> call'[t]] /\ \A t \in Slots : CallOK(call'[t])
  BY <1>1 DEF AdviceInv
<1>3. OneEach'
  BY <1>1 DEF AdviceInv, OneEach
<1>4. (\A t \in Slots : CallOK(call[t]))'
  BY <1>2 DEF CallOK
<1> QED BY <1>2, <1>3, <1>4 DEF AdviceInv, Said, Backed

(* What a step of a call makes of its record. *)
Moved(o, k, pc, v) ==
    \/ k = [[o EXCEPT !.pc = pc] EXCEPT !.attempt = v]
    \/ k = [[o EXCEPT !.pc = pc] EXCEPT !.cost = v]
    \/ k = [[o EXCEPT !.pc = pc] EXCEPT !.result = v]
    \/ k = [[[o EXCEPT !.pc = pc] EXCEPT !.candidate = v] EXCEPT !.attempt = 0]

LEMMA CallMoves ==
  ASSUME NEW o, CallOK(o), NEW pc, pc # "free", NEW v, NEW k, Moved(o, k, pc, v)
  PROVE  CallOK(k) /\ k.role = o.role /\ k.pc # "free"
<1>1. CASE k = [[o EXCEPT !.pc = pc] EXCEPT !.attempt = v]
  BY <1>1 DEF CallOK
<1>2. CASE k = [[o EXCEPT !.pc = pc] EXCEPT !.cost = v]
  BY <1>2 DEF CallOK
<1>3. CASE k = [[o EXCEPT !.pc = pc] EXCEPT !.result = v]
  BY <1>3 DEF CallOK
<1>4. CASE k = [[[o EXCEPT !.pc = pc] EXCEPT !.candidate = v] EXCEPT !.attempt = 0]
  BY <1>4 DEF CallOK
<1> QED BY <1>1, <1>2, <1>3, <1>4 DEF Moved

LEMMA CallSteps ==
  ASSUME AdviceInv, NEW s \in Slots, Advice!CallStep(s),
         UNCHANGED <<cycle, suggestions, terminal>>
  PROVE  AdviceInv'
<1>0. CallOK(call[s]) /\ call = [t \in Slots |-> call[t]]
  BY DEF AdviceInv
<1>1. ASSUME NEW pc, pc # "free", NEW v, NEW k, Moved(call[s], k, pc, v),
             call' = [call EXCEPT ![s] = k]
      PROVE  AdviceInv'
  <2>1. CallOK(k) /\ k.role = call[s].role /\ k.pc # "free"
    BY <1>0, <1>1, CallMoves
  <2> QED BY <1>1, <2>1, CallGoesOn
<1>2. ASSUME NEW result, Advice!Finish(s, result)
      PROVE  AdviceInv'
  <2>1. PICK k : k = [[call[s] EXCEPT !.pc = "done"] EXCEPT !.result = result]
    OBVIOUS
  <2>2. call' = [call EXCEPT ![s] = k]
    BY <1>0, <1>2, <2>1 DEF Advice!Finish
  <2>3. Moved(call[s], k, "done", result)
    BY <2>1, Zenon DEF Moved
  <2> QED BY <2>2, <2>3, <1>1
<1>3. CASE Advice!Admit(s)
  <2>1. PICK k : k = [[call[s] EXCEPT !.pc = "sent"] EXCEPT !.attempt = 1]
    OBVIOUS
  <2>2. call' = [call EXCEPT ![s] = k]
    BY <1>0, <1>3, <2>1 DEF Advice!Admit
  <2>3. Moved(call[s], k, "sent", 1)
    BY <2>1, Zenon DEF Moved
  <2> QED BY <2>2, <2>3, <1>1
<1>4. CASE Advice!Deny(s) \/ Advice!StorageFails(s)
  BY <1>2, <1>4 DEF Advice!Deny, Advice!StorageFails
<1>5. ASSUME NEW cost, Advice!Answer(s, cost)
      PROVE  AdviceInv'
  <2>1. PICK k : k = [[call[s] EXCEPT !.pc = "answered"] EXCEPT !.cost = cost]
    OBVIOUS
  <2>2. call' = [call EXCEPT ![s] = k]
    BY <1>0, <1>5, <2>1 DEF Advice!Answer
  <2>3. Moved(call[s], k, "answered", cost)
    BY <2>1, Zenon DEF Moved
  <2> QED BY <2>2, <2>3, <1>1
<1>6. ASSUME NEW kind, Advice!Fail(s, kind)
      PROVE  AdviceInv'
  <2>0. call[s].pc = "sent"
    BY <1>6 DEF Advice!Fail, Advice!At
  <2>1. CASE call' = [call EXCEPT ![s].attempt = @ + 1]
    <3>1. PICK k : k = [[call[s] EXCEPT !.pc = "sent"] EXCEPT !.attempt = call[s].attempt + 1]
      OBVIOUS
    <3>2. [call[s] EXCEPT !.attempt = call[s].attempt + 1] = k
      BY <1>0, <2>0, <3>1 DEF CallOK
    <3>3. call' = [call EXCEPT ![s] = k]
      BY <1>0, <2>1, <3>2
    <3>4. Moved(call[s], k, "sent", call[s].attempt + 1)
      BY <3>1, Zenon DEF Moved
    <3> QED BY <3>3, <3>4, <1>1
  <2>2. CASE call' = [call EXCEPT ![s].pc = "check", ![s].candidate = @ + 1, ![s].attempt = 0]
    <3>1. PICK k : k = [[[call[s] EXCEPT !.pc = "check"] EXCEPT
                           !.candidate = call[s].candidate + 1] EXCEPT !.attempt = 0]
      OBVIOUS
    <3>2. call' = [call EXCEPT ![s] = k]
      BY <1>0, <2>2, <3>1
    <3>3. Moved(call[s], k, "check", call[s].candidate + 1)
      BY <3>1, Zenon DEF Moved
    <3> QED BY <3>2, <3>3, <1>1
  <2>3. CASE Advice!Finish(s, "error")
    BY <1>2, <2>3
  <2> QED BY <1>6, <2>1, <2>2, <2>3 DEF Advice!Fail
<1>7. ASSUME NEW result, Advice!Record(s, result)
      PROVE  AdviceInv'
  BY <1>2, <1>7 DEF Advice!Record
<1> QED BY <1>3, <1>4, <1>5, <1>6, <1>7 DEF Advice!CallStep

(* Slots are freed, and nobody waits for them. *)
LEMMA CallsFreed ==
  ASSUME AdviceInv, NEW done,
         call' = [s \in Slots |-> IF s \in done THEN Advice!Free ELSE call[s]],
         cycle'.pc # "gather" \/ (cycle' = cycle /\ \A s \in cycle.slots : s \notin done)
  PROVE  /\ OneEach' /\ call' = [s \in Slots |-> call'[s]]
         /\ (\A s \in Slots : CallOK(call[s]))'
<1>1. \A s \in Slots : call'[s] = IF s \in done THEN Advice!Free ELSE call[s]
  OBVIOUS
<1>2. \A s \in Slots : CallOK(call'[s])
  BY <1>1, FreeOK DEF AdviceInv
<1>3. OneEach'
  BY <1>1 DEF AdviceInv, OneEach
<1> QED BY <1>2, <1>3 DEF CallOK

LEMMA IdleAndClosed == Advice!Idle.pc = "idle" /\ Advice!Closed.pc = "closed"
  BY DEF Advice!Idle, Advice!Closed

(* A clear case is settled without any expert. *)
LEMMA AdviceSettles ==
  ASSUME AdviceInv, NEW coin, NEW key, NEW value, Advice!Settle(coin, key, value)
  PROVE  AdviceInv'
<1> DEFINE new == [role |-> "heuristic", newsDrove |-> FALSE, coin |-> coin, key |-> key,
                   value |-> value, opinions |-> {}]
<1>1. /\ suggestions' = suggestions \union {new}
      /\ UNCHANGED <<cycle, terminal, call>>
  BY DEF Advice!Settle, Advice!callVars
<1>2. new.role = "heuristic"
  OBVIOUS
<1> HIDE DEF new
<1> QED BY <1>1, <1>2 DEF AdviceInv, OneEach, Said, Backed

(* The experts are asked, each in a slot of its own. *)
LEMMA AdviceEscalates ==
  ASSUME AdviceInv, NEW coin, NEW key, NEW slotOf \in [Advice!Experts -> Slots],
         Advice!Escalate(coin, key, slotOf)
  PROVE  AdviceInv'
<1> DEFINE asked == {slotOf[role] : role \in Advice!Experts}
           Expert(s) == CHOOSE role \in Advice!Experts : slotOf[role] = s
<1>1. /\ cycle' = [pc |-> "gather", coin |-> coin, key |-> key, slots |-> asked]
      /\ call' = [s \in Slots |-> IF \E role \in Advice!Experts : slotOf[role] = s
                                  THEN Advice!New(Expert(s)) ELSE call[s]]
      /\ UNCHANGED <<suggestions, terminal>>
  BY DEF Advice!Escalate
<1>2. cycle'.pc = "gather" /\ cycle'.slots = asked
  BY <1>1
<1>3. \A s \in asked : /\ s \in Slots /\ \E role \in Advice!Experts : slotOf[role] = s
                       /\ slotOf[Expert(s)] = s
  OBVIOUS
<1>4. \A s \in asked : call'[s] = Advice!New(Expert(s))
  <2> HIDE DEF asked, Expert
  <2> QED BY <1>1, <1>3
<1> HIDE DEF asked, Expert
<1>5. \A s \in asked : call'[s].role = Expert(s) /\ call'[s].pc = "check"
  BY <1>4, FreeOK
<1>6. OneEach'
  BY <1>2, <1>3, <1>5 DEF OneEach
<1>7. call' = [s \in Slots |-> call'[s]] /\ \A s \in Slots : CallOK(call'[s])
  <2>1. \A s \in Slots : call'[s] \in {Advice!New(Expert(s)), call[s]}
    BY <1>1
  <2> QED BY <1>1, <2>1, FreeOK DEF AdviceInv
<1>8. (\A s \in Slots : CallOK(call[s]))'
  BY <1>7 DEF CallOK
<1> QED BY <1>1, <1>6, <1>7, <1>8 DEF AdviceInv, Said, Backed

(* What the experts said is a reconciliation in the sense of Said. *)
LEMMA AdviceAggregates ==
  ASSUME AdviceInv, NEW value \in Int, Advice!Aggregate(value)
  PROVE  AdviceInv'
<1> DEFINE spread == Advice!Spread
           new == Advice!Suggestion("aggregated", Advice!NewsDrove(value, spread), spread, value)
<1>1. /\ suggestions' = suggestions \union {new} /\ cycle' = Advice!Idle
      /\ call' = [s \in Slots |-> IF s \in cycle.slots THEN Advice!Free ELSE call[s]]
      /\ UNCHANGED terminal /\ spread # {} /\ cycle.pc = "gather"
  BY DEF Advice!Aggregate, Advice!Save, Advice!FreeSlots, Advice!Gathered
<1>2. \A o \in spread : \E s \in cycle.slots :
        /\ o.role = call[s].role /\ o.value = Meaning[call[s].result]
        /\ call[s].result \in Opinions \ {"silent"}
        /\ o = [role |-> call[s].role, value |-> Meaning[call[s].result]]
  BY DEF Advice!Spread, Advice!Answers
<1>3. \A o \in spread : o.value \in Int
  BY <1>2, AdviceAssumption
<1>4. \A n, m \in spread : n.role = "news" /\ m.role = "news" => n = m
  BY <1>1, <1>2 DEF AdviceInv, OneEach
<1>5. /\ new.role = "aggregated" /\ new.value = value /\ new.opinions = spread
      /\ new.newsDrove = Advice!NewsDrove(value, spread)
  BY DEF Advice!Suggestion
<1> HIDE DEF spread, new
<1>6. Said(new)
  BY <1>1, <1>3, <1>4, <1>5 DEF Said
<1>7. /\ OneEach' /\ call' = [s \in Slots |-> call'[s]]
      /\ (\A s \in Slots : CallOK(call[s]))'
  BY <1>1, CallsFreed, IdleAndClosed
<1> QED BY <1>1, <1>6, <1>7 DEF AdviceInv, Said, Backed

(* An evaluation ends without a suggestion. *)
LEMMA AdviceGivesUp ==
  ASSUME AdviceInv, Advice!FallBack \/ Advice!DaemonDies
  PROVE  AdviceInv'
<1>1. /\ cycle' = Advice!Idle /\ UNCHANGED <<suggestions, terminal>>
      /\ \E done : call' = [s \in Slots |-> IF s \in done THEN Advice!Free ELSE call[s]]
  <2>1. CASE Advice!FallBack
    BY <2>1 DEF Advice!FallBack, Advice!FreeSlots
  <2>2. CASE Advice!DaemonDies
    <3> DEFINE done == {s \in Slots : ~Advice!At(s, "free") /\ ProcessOf[call[s].role] = "advise"}
    <3>1. call' = [s \in Slots |-> IF s \in done THEN Advice!Free ELSE call[s]]
      BY <2>2 DEF Advice!DaemonDies, Advice!Restart
    <3> HIDE DEF done
    <3> QED BY <2>2, <3>1 DEF Advice!DaemonDies
  <2> QED BY <2>1, <2>2
<1>2. /\ OneEach' /\ call' = [s \in Slots |-> call'[s]]
      /\ (\A s \in Slots : CallOK(call[s]))'
  BY <1>1, CallsFreed, IdleAndClosed
<1> QED BY <1>1, <1>2 DEF AdviceInv, Said, Backed

(* Other calls begin and end in slots no evaluation has. *)
LEMMA AdviceChats ==
  ASSUME AdviceInv, NEW s \in Slots,
         (\E role \in Roles : Advice!Chat(s, role)) \/ Advice!Forget(s)
  PROVE  AdviceInv'
<1>1. cycle.pc = "gather" => s \notin cycle.slots
  BY DEF AdviceInv, OneEach, Advice!Chat, Advice!Ask, Advice!Forget, Advice!At
<1>2. PICK k : CallOK(k) /\ call' = [call EXCEPT ![s] = k]
  BY FreeOK DEF Advice!Chat, Advice!Ask, Advice!Forget, Advice!Release
<1>3. UNCHANGED <<cycle, suggestions, terminal>>
  BY DEF Advice!Chat, Advice!Forget, Advice!adviceVars
<1>4. \A t \in Slots : call'[t] = IF t = s THEN k ELSE call[t]
  BY <1>2 DEF AdviceInv
<1>5. call' = [t \in Slots |-> call'[t]]
  BY <1>2 DEF AdviceInv
<1>6. (\A t \in Slots : CallOK(call[t]))'
  BY <1>2, <1>4 DEF AdviceInv, CallOK
<1>7. OneEach'
  BY <1>1, <1>3, <1>4 DEF AdviceInv, OneEach
<1> QED BY <1>3, <1>5, <1>6, <1>7 DEF AdviceInv, Said, Backed

(* The gate lets pass what the firewall did not refuse. *)
LEMMA AdviceEvaluates ==
  ASSUME AdviceInv, NEW s \in suggestions, Advice!Evaluate(s)
  PROVE  AdviceInv'
<1>1. /\ terminal' = [pc |-> "apply", suggestion |-> s, value |-> s.value]
      /\ UNCHANGED <<call, cycle, suggestions>>
      /\ ~(s.role = "aggregated" /\ s.newsDrove)
  BY DEF Advice!Evaluate, Advice!GateAllows, Advice!EligibleRole
<1>2. s.role = "heuristic" \/ Backed(s)
  BY <1>1, NotDrivenIsBacked DEF AdviceInv, Said
<1>3. terminal'.suggestion = s
  BY <1>1
<1>4. (terminal.pc = "apply" => \/ terminal.suggestion.role = "heuristic"
                                \/ Backed(terminal.suggestion))'
  BY <1>2, <1>3 DEF Backed
<1> QED BY <1>1, <1>4 DEF AdviceInv, OneEach, Said

(* The terminal does something else, or closes. *)
LEMMA AdviceWrites ==
  ASSUME AdviceInv, \/ \E size \in Sizes : Advice!Compute(size)
                    \/ Advice!Rewrite \/ Advice!Interrupt \/ Advice!Hour
                    \/ UNCHANGED adviceVars
  PROVE  AdviceInv'
<1>1. UNCHANGED <<call, cycle, suggestions>>
  BY DEF Advice!Compute, Advice!Rewrite, Advice!Interrupt, Advice!Hour, Advice!HourPasses,
         Advice!adviceVars, adviceVars
<1>2. terminal' = terminal \/ terminal'.pc # "apply"
  <2>1. ASSUME NEW size, Advice!Compute(size) PROVE terminal'.pc = "recalibrate"
    BY <2>1 DEF Advice!Compute, Advice!Closed
  <2> QED BY <2>1, IdleAndClosed DEF Advice!Rewrite, Advice!Interrupt, Advice!Hour,
         Advice!adviceVars, adviceVars
<1> QED BY <1>1, <1>2 DEF AdviceInv, OneEach, Said, Backed

LEMMA NextAdvice == AdviceInv /\ [Advice!Next]_adviceVars => AdviceInv'
<1> SUFFICES ASSUME AdviceInv, [Advice!Next]_adviceVars
             PROVE  AdviceInv'
  OBVIOUS
<1>1. CASE Advice!Calls
  BY <1>1, CallSteps DEF Advice!Calls, Advice!adviceVars
<1>2. ASSUME NEW value \in Advice!Values, Advice!Aggregate(value)
      PROVE  AdviceInv'
  <2>1. value \in Int
    BY AdviceAssumption DEF Advice!Values, Advice!Range
  <2> QED BY <1>2, <2>1, AdviceAggregates
<1> QED BY <1>1, <1>2, AdviceSettles, AdviceEscalates, AdviceGivesUp, AdviceChats,
           AdviceEvaluates, AdviceWrites DEF Advice!Next

LEMMA AdvicePart == ServicesNext \/ UNCHANGED all => [Advice!Next]_adviceVars
  BY DEF ServicesNext, Rest, all, partVars

-----------------------------------------------------------------------------
(* The budget.  Whoever is admitted finds room for itself, so that what is *)
(* spent and what is under way exceed the cap by the others at most; that  *)
(* only shrinks until somebody else is admitted.                           *)

Ages == 0..Day
Spent == Total(llmCalls, Ages)
UnderWay == {s \in Slots : call[s].pc \in {"sent", "answered"}}
Bound == DailyCap + (Cardinality(Slots) - 1) * Estimate

BudgetInv ==
    /\ llmCalls \in [Ages -> Nat]
    /\ \A s \in Slots : call[s].pc = "answered" => call[s].cost \in 0..Estimate
    /\ Spent + Cardinality(UnderWay) * Estimate <= Bound

LEMMA SpentIsTotal == Advice!SpentToday = Spent
  BY DEF Advice!SpentToday, Spent, Ages, Total, First, MapThenFoldSet,
         Advice!MapThenSumSet, Advice!MapThenFoldSet

LEMMA SlotsFinite ==
  /\ Cardinality(Slots) \in Nat /\ Cardinality(Slots) >= 1
  /\ \A S \in SUBSET Slots : /\ IsFiniteSet(S) /\ Cardinality(S) \in Nat
                             /\ Cardinality(S) <= Cardinality(Slots)
<1>1. Cardinality(Slots) \in Nat /\ Cardinality(Slots) # 0
  BY AdviceAssumption, FS_CardinalityType, FS_EmptySet
<1>2. \A S \in SUBSET Slots : /\ IsFiniteSet(S) /\ Cardinality(S) \in Nat
                              /\ Cardinality(S) <= Cardinality(Slots)
  BY AdviceAssumption, FS_Subset, FS_CardinalityType
<1> QED BY <1>1, <1>2

LEMMA AgesFinite == IsFiniteSet(Ages) /\ 0 \in Ages
  BY AdviceAssumption, FS_Interval DEF Ages

LEMMA SpentNat ==
  ASSUME NEW w \in [Ages -> Nat]
  PROVE  Total(w, Ages) \in Nat
  BY AgesFinite, TotalNat, Finite

(* Fewer calls under way, and nothing more spent. *)
LEMMA LessUnderWay ==
  ASSUME BudgetInv, llmCalls' \in [Ages -> Nat], Spent' <= Spent,
         UnderWay' \subseteq UnderWay,
         \A s \in Slots : call'[s].pc = "answered" => call'[s].cost \in 0..Estimate
  PROVE  BudgetInv'
<1>1. /\ Cardinality(UnderWay') \in Nat /\ Cardinality(UnderWay) \in Nat
      /\ Cardinality(UnderWay') <= Cardinality(UnderWay)
  BY SlotsFinite, FS_Subset DEF UnderWay
<1>2. Spent \in Nat /\ Spent' \in Nat
  BY SpentNat DEF BudgetInv, Spent
<1>3. Cardinality(UnderWay') * Estimate <= Cardinality(UnderWay) * Estimate
  <2> DEFINE m == Cardinality(UnderWay')
             n == Cardinality(UnderWay)
  <2>1. m \in Nat /\ n \in Nat /\ m <= n
    BY <1>1
  <2> HIDE DEF m, n
  <2>2. PICK d \in Nat : n = m + d
    <3>1. n - m \in Nat /\ n = m + (n - m)
      BY <2>1
    <3> QED BY <3>1
  <2>3. (m + d) * Estimate = m * Estimate + d * Estimate /\ d * Estimate \in Nat
    BY <2>1, AdviceAssumption
  <2>4. m * Estimate \in Nat /\ m * Estimate <= n * Estimate
    BY <2>1, <2>2, <2>3, AdviceAssumption
  <2> QED BY <2>4 DEF m, n
<1>4. /\ Cardinality(UnderWay) * Estimate \in Nat /\ Cardinality(UnderWay') * Estimate \in Nat
      /\ Bound \in Int /\ Bound' = Bound
  BY <1>1, SlotsFinite, AdviceAssumption DEF Bound
<1>5. (Spent + Cardinality(UnderWay) * Estimate <= Bound)'
  BY <1>2, <1>3, <1>4 DEF BudgetInv
<1> QED BY <1>5 DEF BudgetInv

LEMMA InitBudget == Advice!Init => BudgetInv
<1> SUFFICES ASSUME Advice!Init
             PROVE  BudgetInv
  OBVIOUS
<1>1. llmCalls = [age \in Ages |-> 0] /\ call = [s \in Slots |-> Advice!Free]
  BY DEF Advice!Init, Advice!CallInit, Ages
<1>2. UnderWay = {} /\ Cardinality({}) = 0
  BY <1>1, FS_EmptySet DEF UnderWay, Advice!Free
<1>3. Spent = 0
  <2> DEFINE T == {x \in Ages : FALSE}
             j == [x \in Ages |-> x]
  <2>1. Total(llmCalls, {}) = 0
    BY TotalEmpty
  <2>2. ASSUME NEW S \in SUBSET Ages, \A R \in SUBSET S : R # S => Total(llmCalls, R) = 0
        PROVE  Total(llmCalls, S) = 0
    <3>1. CASE S = {}
      BY <2>1, <3>1
    <3>2. CASE S # {}
      <4>1. IsFiniteSet(S) /\ First(S) \in S
        BY <3>2, AgesFinite, FS_Subset DEF First
      <4>2. Total(llmCalls, S) = llmCalls[First(S)] + Total(llmCalls, S \ {First(S)})
        BY <3>2, <4>1, TotalFirst, Finite
      <4>3. Total(llmCalls, S \ {First(S)}) = 0
        BY <2>2, <4>1
      <4> QED BY <1>1, <4>1, <4>2, <4>3
    <3> QED BY <3>1, <3>2
  <2>3. SUBSET Ages \subseteq {S \in SUBSET Ages : Total(llmCalls, S) = 0}
    <3> DEFINE Good == {S \in SUBSET Ages : Total(llmCalls, S) = 0}
    <3>1. \A S \in SUBSET Ages : (\A R \in SUBSET S : R # S => R \in Good) => S \in Good
      BY <2>2
    <3> HIDE DEF Good
    <3>2. SUBSET Ages \subseteq Good
      BY <3>1, AgesFinite, SubsetInduction, Finite
    <3> QED BY <3>2 DEF Good
  <2> QED BY <2>3 DEF Spent
<1>4. \A s \in Slots : call[s].pc # "answered"
  BY <1>1 DEF Advice!Free
<1>5. Bound \in Int /\ Bound >= 0
  <2> DEFINE n == Cardinality(Slots) - 1
  <2>1. n \in Nat
    BY SlotsFinite
  <2>2. Bound = DailyCap + n * Estimate
    BY DEF Bound
  <2> HIDE DEF n
  <2>3. n * Estimate \in Nat
    BY <2>1, AdviceAssumption
  <2> QED BY <2>2, <2>3, AdviceAssumption
<1>6. llmCalls \in [Ages -> Nat]
  BY <1>1
<1>7. Spent + Cardinality(UnderWay) * Estimate <= Bound
  BY <1>2, <1>3, <1>5, AdviceAssumption
<1> QED BY <1>4, <1>6, <1>7 DEF BudgetInv

(* A call is admitted. *)
LEMMA BudgetAdmits ==
  ASSUME AdviceInv, BudgetInv, NEW s \in Slots, Advice!Admit(s)
  PROVE  BudgetInv'
<1> DEFINE others == Slots \ {s}
           u == Cardinality(UnderWay')
           n == Cardinality(Slots) - 1
<1>1. /\ llmCalls' = llmCalls /\ Spent + Estimate <= DailyCap
      /\ call' = [call EXCEPT ![s].pc = "sent", ![s].attempt = 1]
  BY SpentIsTotal DEF Advice!Admit, Advice!WithinBudget
<1>2. /\ \A t \in Slots : t # s => call'[t] = call[t]
      /\ call'[s].pc = "sent"
  BY <1>1 DEF AdviceInv, CallOK
<1>3. u \in Nat /\ n \in Nat /\ u <= n + 1
  <2>1. UnderWay' \in SUBSET Slots
    BY DEF UnderWay
  <2> QED BY <2>1, SlotsFinite
<1>4. Spent \in Nat /\ Spent' = Spent
  BY <1>1, SpentNat DEF BudgetInv, Spent
<1>5. Spent + u * Estimate <= DailyCap + n * Estimate
  <2> HIDE DEF u, n
  <2>1. PICK d \in Nat : n + 1 = u + d
    <3>1. (n + 1) - u \in Nat /\ n + 1 = u + ((n + 1) - u)
      BY <1>3
    <3> QED BY <3>1
  <2>2. (n + 1) * Estimate = u * Estimate + d * Estimate
    BY <1>3, <2>1, AdviceAssumption
  <2>3. (n + 1) * Estimate = n * Estimate + Estimate /\ d * Estimate \in Nat
    BY <1>3, AdviceAssumption
  <2>4. u * Estimate \in Nat /\ n * Estimate \in Nat
    BY <1>3, AdviceAssumption
  <2> QED BY <1>1, <1>4, <2>2, <2>3, <2>4, AdviceAssumption
<1>6. \A t \in Slots : call'[t].pc = "answered" => call'[t].cost \in 0..Estimate
  BY <1>2 DEF BudgetInv
<1>7. (Spent + Cardinality(UnderWay) * Estimate <= Bound)'
  BY <1>4, <1>5 DEF Bound
<1> QED BY <1>1, <1>6, <1>7 DEF BudgetInv

(* The request is answered; what it cost is at most the estimate. *)
LEMMA BudgetAnswers ==
  ASSUME AdviceInv, BudgetInv, NEW s \in Slots, NEW cost \in 1..Estimate, Advice!Answer(s, cost)
  PROVE  BudgetInv'
<1>1. /\ llmCalls' = llmCalls /\ call[s].pc = "sent"
      /\ call' = [call EXCEPT ![s].pc = "answered", ![s].cost = cost]
  BY DEF Advice!Answer, Advice!At
<1>2. /\ \A t \in Slots : t # s => call'[t] = call[t]
      /\ call'[s].cost = cost
  <2>1. CallOK(call[s]) /\ call = [t \in Slots |-> call[t]]
    BY DEF AdviceInv
  <2>2. PICK k : k = [[call[s] EXCEPT !.pc = "answered"] EXCEPT !.cost = cost]
    OBVIOUS
  <2>3. call' = [call EXCEPT ![s] = k]
    BY <1>1, <2>1, <2>2
  <2>4. k.cost = cost
    BY <2>1, <2>2 DEF CallOK
  <2> QED BY <2>1, <2>3, <2>4
<1>3. UnderWay' \subseteq UnderWay
  BY <1>1, <1>2 DEF UnderWay
<1>4. \A t \in Slots : call'[t].pc = "answered" => call'[t].cost \in 0..Estimate
  BY <1>2 DEF BudgetInv
<1>5. llmCalls' \in [Ages -> Nat] /\ Spent' <= Spent
  BY <1>1, SpentNat DEF BudgetInv, Spent
<1> QED BY <1>3, <1>4, <1>5, LessUnderWay

(* The row of a paid call is written, and it is under way no more. *)
LEMMA BudgetRecords ==
  ASSUME AdviceInv, BudgetInv, NEW s \in Slots, NEW result, Advice!Record(s, result)
  PROVE  BudgetInv'
<1> DEFINE c == call[s].cost
<1>1. /\ call[s].pc = "answered" /\ llmCalls' = [llmCalls EXCEPT ![0] = @ + c]
      /\ call' = [call EXCEPT ![s].pc = "done", ![s].result = result]
  BY DEF Advice!Record, Advice!Finish, Advice!At
<1>2. /\ \A t \in Slots : t # s => call'[t] = call[t]
      /\ call'[s].pc = "done"
  BY <1>1 DEF AdviceInv, CallOK
<1>3. c \in 0..Estimate
  BY <1>1 DEF BudgetInv
<1>4. UnderWay' = UnderWay \ {s} /\ s \in UnderWay
  BY <1>1, <1>2 DEF UnderWay
<1>5. Cardinality(UnderWay') = Cardinality(UnderWay) - 1 /\ Cardinality(UnderWay) \in Nat
      /\ Cardinality(UnderWay') \in Nat
  BY <1>4, SlotsFinite, FS_RemoveElement DEF UnderWay
<1>6. llmCalls' \in [Ages -> Nat]
  BY <1>1, <1>3, AdviceAssumption, AgesFinite DEF BudgetInv
<1>7. Spent' = Spent + c /\ Spent \in Nat
  <2> DEFINE rest == Ages \ {0}
  <2>1. IsFiniteSet(rest) /\ IsFiniteSet(Ages)
    BY AgesFinite, FS_Subset
  <2>2. \A x \in Ages : llmCalls[x] \in Int /\ llmCalls'[x] \in Int
    BY <1>6 DEF BudgetInv
  <2>3. /\ Total(llmCalls, Ages) = llmCalls[0] + Total(llmCalls, rest)
        /\ Total(llmCalls', Ages) = llmCalls'[0] + Total(llmCalls', rest)
    BY <2>1, <2>2, AgesFinite, TotalRemove, Finite
  <2>4. Total(llmCalls', rest) = Total(llmCalls, rest)
    <3>1. \A x \in rest : llmCalls'[x] = llmCalls[x]
      BY <1>1 DEF BudgetInv
    <3> QED BY <2>1, <3>1, TotalSame, Finite
  <2>5. llmCalls'[0] = llmCalls[0] + c
    BY <1>1, AgesFinite DEF BudgetInv
  <2>6. Total(llmCalls, rest) \in Int
    BY <2>1, <2>2, TotalInt, Finite
  <2>7. Spent = llmCalls[0] + Total(llmCalls, rest)
        /\ Spent' = llmCalls[0] + c + Total(llmCalls, rest)
    BY <2>3, <2>4, <2>5 DEF Spent
  <2>8. Spent \in Nat /\ llmCalls[0] \in Int
    BY <2>2, SpentNat, AgesFinite DEF BudgetInv, Spent
  <2> HIDE DEF rest
  <2> QED BY <1>3, <2>6, <2>7, <2>8
<1>8. (Spent + Cardinality(UnderWay) * Estimate <= Bound)'
  <2> DEFINE m == Cardinality(UnderWay')
             n == Cardinality(UnderWay)
  <2>1. n = m + 1 /\ m \in Nat
    BY <1>5
  <2>2. Spent + n * Estimate <= Bound /\ Bound' = Bound
    BY DEF BudgetInv, Bound
  <2>3. Bound \in Int
    BY SlotsFinite, AdviceAssumption DEF Bound
  <2> HIDE DEF m, n
  <2>4. (m + 1) * Estimate = m * Estimate + Estimate /\ m * Estimate \in Nat
    BY <2>1, AdviceAssumption
  <2>5. Spent' + m * Estimate <= Bound
    BY <1>3, <1>7, <2>1, <2>2, <2>3, <2>4, AdviceAssumption
  <2> QED BY <2>2, <2>5 DEF m
<1>9. \A t \in Slots : call'[t].pc = "answered" => call'[t].cost \in 0..Estimate
  BY <1>2 DEF BudgetInv
<1> QED BY <1>6, <1>8, <1>9 DEF BudgetInv

(* The window moves on. *)
LEMMA BudgetAges ==
  ASSUME AdviceInv, BudgetInv, Advice!HourPasses
  PROVE  BudgetInv'
<1>1. /\ llmCalls' = [age \in Ages |-> IF age = 0 THEN 0 ELSE llmCalls[age - 1]]
      /\ call' = call
  BY DEF Advice!HourPasses, Ages
<1> DEFINE old == 1..Day
           j == [age \in old |-> age - 1]
<1>2. /\ IsFiniteSet(old) /\ IsFiniteSet(Ages) /\ Ages \ {0} = old /\ 0 \in Ages
  <2>1. IsFiniteSet(old)
    BY FS_Interval, AdviceAssumption
  <2>2. Ages \ {0} = old
    BY AdviceAssumption DEF Ages
  <2> QED BY <2>1, <2>2, AgesFinite
<1>3. llmCalls' \in [Ages -> Nat]
  <2>1. ASSUME NEW age \in Ages, age # 0 PROVE age - 1 \in Ages
    BY <2>1, AdviceAssumption DEF Ages
  <2> QED BY <1>1, <2>1 DEF BudgetInv
<1>4. Total(llmCalls', Ages) = llmCalls'[0] + Total(llmCalls', old)
  <2>1. \A x \in Ages : llmCalls'[x] \in Int
    BY <1>3
  <2>2. Total(llmCalls', Ages) = llmCalls'[0] + Total(llmCalls', Ages \ {0})
    BY <1>2, <2>1, TotalRemove, Finite
  <2> QED BY <1>2, <2>2
<1>5. Total(llmCalls', old) <= Total(llmCalls, Ages)
  <2>1. j \in [old -> Ages] /\ (\A x, y \in old : j[x] = j[y] => x = y)
    BY AdviceAssumption DEF Ages
  <2>2. \A x \in old : llmCalls'[x] \in Int /\ llmCalls'[x] <= llmCalls[j[x]]
    <3> SUFFICES ASSUME NEW x \in old
                 PROVE  llmCalls'[x] \in Int /\ llmCalls'[x] <= llmCalls[j[x]]
      OBVIOUS
    <3>1. x \in Ages /\ x # 0 /\ j[x] = x - 1 /\ x - 1 \in Ages
      BY AdviceAssumption DEF Ages
    <3>2. llmCalls'[x] = llmCalls[x - 1] /\ llmCalls[x - 1] \in Nat
      BY <1>1, <3>1 DEF BudgetInv
    <3> QED BY <3>1, <3>2
  <2>3. \A y \in Ages : llmCalls[y] \in Nat
    BY DEF BudgetInv
  <2> HIDE DEF j, old
  <2> QED BY <1>2, <2>1, <2>2, <2>3, TotalInto, Finite
<1>6. llmCalls'[0] = 0 /\ Total(llmCalls', old) \in Int
  <2>1. \A x \in old : llmCalls'[x] \in Int
    BY <1>2, <1>3
  <2> QED BY <1>1, <1>2, <2>1, TotalInt, Finite
<1>7. Spent' <= Spent
  <2>1. Spent \in Nat
    BY SpentNat DEF BudgetInv, Spent
  <2> QED BY <1>4, <1>5, <1>6, <2>1 DEF Spent
<1>8. UnderWay' \subseteq UnderWay
  BY <1>1 DEF UnderWay
<1> QED BY <1>1, <1>3, <1>7, <1>8, LessUnderWay DEF BudgetInv

(* The steps that pay nothing and admit nobody. *)
LEMMA BudgetRests ==
  ASSUME BudgetInv, UNCHANGED llmCalls,
         \A s \in Slots : \/ call'[s] = call[s]
                          \/ call'[s].pc \notin {"sent", "answered"}
                          \/ call'[s].pc = "sent" /\ call[s].pc = "sent"
  PROVE  BudgetInv'
<1>1. UnderWay' \subseteq UnderWay
  BY DEF UnderWay
<1>2. \A s \in Slots : call'[s].pc = "answered" => call'[s].cost \in 0..Estimate
  BY DEF BudgetInv
<1>3. llmCalls' \in [Ages -> Nat] /\ Spent' <= Spent
  BY SpentNat DEF BudgetInv, Spent
<1> QED BY <1>1, <1>2, <1>3, LessUnderWay

LEMMA BudgetCalls ==
  ASSUME AdviceInv, BudgetInv, NEW s \in Slots, Advice!CallStep(s)
  PROVE  BudgetInv'
<1>0. CallOK(call[s]) /\ call = [t \in Slots |-> call[t]]
  BY DEF AdviceInv
<1>1. ASSUME NEW result, Advice!Finish(s, result), UNCHANGED llmCalls
      PROVE  BudgetInv'
  <2>1. /\ \A t \in Slots : t # s => call'[t] = call[t]
        /\ call'[s].pc = "done"
    BY <1>0, <1>1 DEF Advice!Finish, CallOK
  <2> QED BY <1>1, <2>1, BudgetRests
<1>2. ASSUME NEW kind, Advice!Fail(s, kind)
      PROVE  BudgetInv'
  <2>1. UNCHANGED llmCalls /\ call[s].pc = "sent"
    BY <1>2 DEF Advice!Fail, Advice!At
  <2>2. CASE call' = [call EXCEPT ![s].attempt = @ + 1]
    <3>1. /\ \A t \in Slots : t # s => call'[t] = call[t]
          /\ call'[s].pc = "sent"
      BY <1>0, <2>1, <2>2 DEF CallOK
    <3> QED BY <2>1, <3>1, BudgetRests
  <2>3. CASE call' = [call EXCEPT ![s].pc = "check", ![s].candidate = @ + 1, ![s].attempt = 0]
    <3>1. PICK k : k = [[[call[s] EXCEPT !.pc = "check"] EXCEPT
                           !.candidate = call[s].candidate + 1] EXCEPT !.attempt = 0]
      OBVIOUS
    <3>2. call' = [call EXCEPT ![s] = k]
      BY <1>0, <2>3, <3>1
    <3>3. k.pc = "check"
      BY <1>0, <3>1 DEF CallOK
    <3>4. /\ \A t \in Slots : t # s => call'[t] = call[t]
          /\ call'[s].pc = "check"
      BY <1>0, <3>2, <3>3
    <3> QED BY <2>1, <3>4, BudgetRests
  <2>4. CASE Advice!Finish(s, "error")
    BY <1>1, <2>1, <2>4
  <2> QED BY <1>2, <2>2, <2>3, <2>4 DEF Advice!Fail
<1>3. CASE Advice!Deny(s) \/ Advice!StorageFails(s)
  BY <1>1, <1>3 DEF Advice!Deny, Advice!StorageFails
<1> QED BY <1>2, <1>3, BudgetAdmits, BudgetAnswers, BudgetRecords DEF Advice!CallStep

LEMMA NextBudget == AdviceInv /\ BudgetInv /\ [Advice!Next]_adviceVars => BudgetInv'
<1> SUFFICES ASSUME AdviceInv, BudgetInv, [Advice!Next]_adviceVars
             PROVE  BudgetInv'
  OBVIOUS
<1>1. CASE Advice!Calls
  BY <1>1, BudgetCalls DEF Advice!Calls
<1>2. CASE Advice!Hour
  BY <1>2, BudgetAges DEF Advice!Hour
<1>3. ASSUME UNCHANGED <<llmCalls, call>>
      PROVE  BudgetInv'
  BY <1>3, BudgetRests
<1>4. ASSUME NEW done, UNCHANGED llmCalls,
             call' = [s \in Slots |-> IF s \in done THEN Advice!Free ELSE call[s]]
      PROVE  BudgetInv'
  <2>1. \A s \in Slots : call'[s] = call[s] \/ call'[s].pc = "free"
    BY <1>4 DEF Advice!Free
  <2> QED BY <1>4, <2>1, BudgetRests
<1>5. ASSUME NEW coin, NEW key, NEW value, Advice!Settle(coin, key, value)
      PROVE  BudgetInv'
  BY <1>3, <1>5 DEF Advice!Settle, Advice!callVars
<1>6. ASSUME NEW coin, NEW key, NEW slotOf, Advice!Escalate(coin, key, slotOf)
      PROVE  BudgetInv'
  <2>1. \A s \in Slots : call'[s] = call[s] \/ \E r : call'[s] = Advice!New(r)
    BY <1>6 DEF Advice!Escalate
  <2>2. \A s \in Slots : call'[s] = call[s] \/ call'[s].pc = "check"
    BY <2>1, FreeOK
  <2>3. UNCHANGED llmCalls
    BY <1>6 DEF Advice!Escalate
  <2> QED BY <2>2, <2>3, BudgetRests
<1>7. ASSUME NEW value, Advice!Aggregate(value)
      PROVE  BudgetInv'
  BY <1>4, <1>7 DEF Advice!Aggregate, Advice!FreeSlots
<1>8. CASE Advice!FallBack
  BY <1>4, <1>8 DEF Advice!FallBack, Advice!FreeSlots
<1>9. CASE Advice!DaemonDies
  <2> DEFINE done == {s \in Slots : ~Advice!At(s, "free") /\ ProcessOf[call[s].role] = "advise"}
  <2>1. /\ call' = [s \in Slots |-> IF s \in done THEN Advice!Free ELSE call[s]]
        /\ UNCHANGED llmCalls
    BY <1>9 DEF Advice!DaemonDies, Advice!Restart
  <2> HIDE DEF done
  <2> QED BY <2>1, <1>4
<1>10. ASSUME NEW s \in Slots, NEW role, Advice!Chat(s, role)
       PROVE  BudgetInv'
  <2>1. call' = [call EXCEPT ![s] = Advice!New(role)] /\ UNCHANGED llmCalls
    BY <1>10 DEF Advice!Chat, Advice!Ask
  <2>2. \A t \in Slots : call'[t] = call[t] \/ call'[t].pc = "check"
    BY <2>1, FreeOK DEF AdviceInv
  <2> QED BY <2>1, <2>2, BudgetRests
<1>11. ASSUME NEW s \in Slots, Advice!Forget(s)
       PROVE  BudgetInv'
  <2>1. call' = [call EXCEPT ![s] = Advice!Free] /\ UNCHANGED llmCalls
    BY <1>11 DEF Advice!Forget, Advice!Release
  <2>2. \A t \in Slots : call'[t] = call[t] \/ call'[t].pc = "free"
    BY <2>1 DEF AdviceInv, Advice!Free
  <2> QED BY <2>1, <2>2, BudgetRests
<1>12. CASE \/ \E s \in suggestions : Advice!Evaluate(s)
            \/ \E size \in Sizes : Advice!Compute(size)
            \/ Advice!Rewrite \/ Advice!Interrupt \/ UNCHANGED adviceVars
  BY <1>3, <1>12 DEF Advice!Evaluate, Advice!Compute, Advice!Rewrite, Advice!Interrupt, adviceVars
<1> QED BY <1>1, <1>2, <1>5, <1>6, <1>7, <1>8, <1>9, <1>10, <1>11, <1>12 DEF Advice!Next

(* For any experts, opinions, coins, budgets and number of calls at once:  *)
(* a value written from a reconciled suggestion lies at least as close to  *)
(* what some expert other than news said as to what news said; and the     *)
(* rows of a day exceed the cap at most by the calls that were under way.  *)
THEOREM AdviceIsSound == ServicesSpec => AdviceSound
<1>1. ServicesInit => AdviceInv /\ BudgetInv
  BY InitAdvice, InitBudget DEF ServicesInit, PartsInit
<1>2. AdviceInv /\ BudgetInv /\ [ServicesNext]_all => (AdviceInv /\ BudgetInv)'
  BY NextAdvice, NextBudget, AdvicePart
<1>3. AdviceInv /\ [ServicesNext]_all =>
        [terminal.pc = "apply" /\ settings' # settings =>
           LET s == terminal.suggestion
           IN \/ s.role = "heuristic"
              \/ \E o \in s.opinions :
                   /\ o.role # "news"
                   /\ \A n \in s.opinions : n.role = "news" =>
                        Advice!Distance(s.value, o.value) <= Advice!Distance(s.value, n.value)]_adviceVars
  BY DEF AdviceInv, Backed
<1>4. BudgetInv => Advice!OvershootBounded
  <2> SUFFICES ASSUME BudgetInv
               PROVE  Advice!OvershootBounded
    OBVIOUS
  <2> DEFINE n == Cardinality(UnderWay)
  <2>1. n \in Nat
    BY SlotsFinite DEF UnderWay
  <2>2. Spent + n * Estimate <= Bound
    BY DEF BudgetInv
  <2>3. Spent \in Nat /\ Bound \in Int
    BY SpentNat, SlotsFinite, AdviceAssumption DEF BudgetInv, Spent, Bound
  <2> HIDE DEF n
  <2>4. n * Estimate \in Nat
    BY <2>1, AdviceAssumption
  <2>5. Spent <= Bound
    BY <2>2, <2>3, <2>4
  <2>6. Advice!Cardinality(Slots) = Cardinality(Slots)
    BY DEF Advice!Cardinality, Cardinality
  <2> QED BY <2>5, <2>6, SpentIsTotal DEF Bound, Advice!OvershootBounded
<1> QED BY <1>1, <1>2, <1>3, <1>4, PTL DEF ServicesSpec, AdviceSound, Advice!FirewallHolds, Advice!vars, adviceVars

-----------------------------------------------------------------------------
(* The chat.  A message is handled by one task, in the life it was sent    *)
(* in; what the backfill has still to store of a user was not stored by an *)
(* earlier life, or is not newer than the last turn it read.               *)

IsHeard(t) == t.via # "reply"

TurnTypes ==
    /\ wall \in Nat /\ life \in Int
    /\ channel = [m \in Messages |-> channel[m]]
    /\ answering = [m \in Messages |-> answering[m]]
    /\ backfill = [pc |-> backfill.pc, history |-> backfill.history, users |-> backfill.users,
                   left |-> backfill.left, after |-> backfill.after]
    /\ backfill.after \in Int
    /\ \A m \in Messages : Talk!Sent(m) => channel[m].at \in 0 .. wall

(* Only what was sent is handled or stored, and by a daemon that is up. *)
OnlySent ==
    /\ \A m \in Messages : answering[m] # "none" => Talk!Sent(m) /\ gateway # "down"
    /\ backfill.history \subseteq {m \in Messages : Talk!Sent(m)}
    /\ backfill.left \subseteq {m \in Messages : Talk!Sent(m)}
    /\ \A t \in turns :
          /\ t.of \in Messages /\ Talk!Sent(t.of)
          /\ t.at \in 0 .. wall
          /\ IsHeard(t) => t.at = channel[t.of].at

(* What a task is about to store, no earlier life has stored. *)
TasksAreFirst ==
    \A m \in Messages, t \in turns :
       answering[m] = "save" /\ t.of = m /\ IsHeard(t) => t.life = life

(* Nor what the backfill is about to store, unless it will skip it. *)
BackfillIsFirst ==
    \A m \in backfill.left, t \in turns :
       t.of = m /\ IsHeard(t) => t.life = life \/ channel[m].at <= backfill.after

TurnInv == TurnTypes /\ OnlySent /\ TasksAreFirst /\ BackfillIsFirst /\ Talk!ContextOnce

(* A bounded set of numbers has a largest one. *)
LEMMA LargestExists ==
  ASSUME NEW n \in Nat, NEW T \in SUBSET (0 .. n), T # {}
  PROVE  \E a \in T : \A b \in T : b <= a
<1> DEFINE v == [a \in T |-> a]
<1>1. IsFiniteSet(0 .. n)
  BY FS_Interval
<1>2. IsFiniteSet(T)
  BY <1>1, FS_Subset
<1>3. \A a \in T : v[a] = a /\ v[a] \in Int
  OBVIOUS
<1>4. \E a \in T : \A b \in T : v[b] <= v[a]
  <2> HIDE DEF v
  <2> QED BY <1>2, <1>3, HasGreatest, Finite
<1> QED BY <1>3, <1>4

(* Latest reads the largest time of the turns with a user. *)
LEMMA LatestIsLargest ==
  ASSUME TurnInv, NEW user
  PROVE  /\ Talk!Latest(user) \in Int
         /\ \A t \in turns : channel[t.of].by = user => t.at <= Talk!Latest(user)
<1> DEFINE own == {t \in turns : channel[t.of].by = user}
           times == {t.at : t \in own}
<1>1. CASE own = {}
  BY <1>1 DEF Talk!Latest
<1>2. CASE own # {}
  <2>1. times \in SUBSET (0 .. wall) /\ times # {} /\ wall \in Nat
    <3>1. wall \in Nat /\ \A t \in turns : t.at \in 0 .. wall
      BY DEF TurnInv, TurnTypes, OnlySent
    <3> QED BY <1>2, <3>1
  <2>2. \E a \in times : \A b \in times : b <= a
    <3> HIDE DEF times
    <3> QED BY <2>1, LargestExists
  <2>3. \E a \in times : \A t \in own : t.at <= a
    BY <2>2
  <2>4. Talk!Latest(user) = CHOOSE a \in times : \A t \in own : t.at <= a
    BY <1>2 DEF Talk!Latest
  <2>5. Talk!Latest(user) \in times /\ \A t \in own : t.at <= Talk!Latest(user)
    <3> HIDE DEF times, own
    <3> QED BY <2>3, <2>4, Zenon
  <2> QED BY <2>1, <2>5
<1> QED BY <1>1, <1>2

LEMMA InitTurns == Talk!Init => TurnInv
  BY DEF Talk!Init, TurnInv, TurnTypes, OnlySent, TasksAreFirst, BackfillIsFirst, Talk!ContextOnce,
         Talk!Sent, Talk!NoBackfill

(* A task that moves on. *)
LEMMA TurnsOfTask ==
  ASSUME TurnInv, NEW m \in Messages, NEW pc, pc # "save", answering[m] # "none",
         answering' = [answering EXCEPT ![m] = pc],
         UNCHANGED <<wall, life, gateway, channel, backfill, turns>>
  PROVE  TurnInv'
<1>1. \A n \in Messages : answering'[n] = IF n = m THEN pc ELSE answering[n]
  BY DEF TurnInv, TurnTypes
<1>2. \A n \in Messages : Talk!Sent(n)' = Talk!Sent(n)
  BY DEF Talk!Sent
<1>3. TurnTypes'
  BY <1>2 DEF TurnInv, TurnTypes
<1>4. OnlySent'
  BY <1>1, <1>2 DEF TurnInv, OnlySent, IsHeard
<1>5. TasksAreFirst'
  BY <1>1 DEF TurnInv, TasksAreFirst, IsHeard
<1>6. BackfillIsFirst' /\ Talk!ContextOnce'
  BY DEF TurnInv, BackfillIsFirst, Talk!ContextOnce, IsHeard
<1> QED BY <1>3, <1>4, <1>5, <1>6 DEF TurnInv

(* A turn that this life stores as the first. *)
LEMMA TurnStored ==
  ASSUME TurnInv, NEW m \in Messages, Talk!Sent(m), NEW t,
         t.of = m, t.life = life, t.at = channel[m].at, IsHeard(t),
         \A s \in turns : s.of = m /\ IsHeard(s) => s.life = life,
         turns' \in {turns, turns \union {t}},
         UNCHANGED <<wall, life, gateway, channel>>
  PROVE  /\ \A s \in turns' : \/ s \in turns
                              \/ s.life = life /\ s.of = m /\ s.at = channel[m].at /\ IsHeard(s)
         /\ Talk!ContextOnce'
<1>1. \A s \in turns' : s \in turns \/ s = t
  OBVIOUS
<1>2. Talk!ContextOnce'
  BY <1>1 DEF TurnInv, Talk!ContextOnce, IsHeard
<1> QED BY <1>1, <1>2

LEMMA TurnsOfSave ==
  ASSUME TurnInv, NEW m \in Messages, Talk!SaveTurn(m)
  PROVE  TurnInv'
<1> DEFINE t == Talk!Turn(m, "live", channel[m].at)
<1>1. /\ answering[m] = "save" /\ turns' = turns \union {t}
      /\ answering' = [answering EXCEPT ![m] = "parse"]
      /\ UNCHANGED <<wall, life, gateway, channel, backfill>>
  BY DEF Talk!SaveTurn, Talk!At, Talk!Go
<1>2. t.of = m /\ t.life = life /\ t.at = channel[m].at /\ IsHeard(t)
  BY DEF Talk!Turn, IsHeard
<1>3. Talk!Sent(m) /\ \A s \in turns : s.of = m /\ IsHeard(s) => s.life = life
  BY <1>1 DEF TurnInv, OnlySent, TasksAreFirst
<1> HIDE DEF t
<1>4. /\ \A s \in turns' : \/ s \in turns
                           \/ s.life = life /\ s.of = m /\ s.at = channel[m].at /\ IsHeard(s)
      /\ Talk!ContextOnce'
  BY <1>1, <1>2, <1>3, TurnStored
<1>5. \A n \in Messages : answering'[n] = IF n = m THEN "parse" ELSE answering[n]
  BY <1>1 DEF TurnInv, TurnTypes
<1>6. \A n \in Messages : Talk!Sent(n)' = Talk!Sent(n)
  BY <1>1 DEF Talk!Sent
<1>7. TurnTypes'
  BY <1>1, <1>6 DEF TurnInv, TurnTypes
<1>8. OnlySent'
  BY <1>1, <1>3, <1>4, <1>5, <1>6 DEF TurnInv, TurnTypes, OnlySent, IsHeard
<1>9. TasksAreFirst' /\ BackfillIsFirst'
  BY <1>1, <1>4, <1>5 DEF TurnInv, TasksAreFirst, BackfillIsFirst, IsHeard
<1> QED BY <1>4, <1>7, <1>8, <1>9 DEF TurnInv

LEMMA TurnsOfReply ==
  ASSUME TurnInv, NEW m \in Messages, Talk!SaveReply(m)
  PROVE  TurnInv'
<1> DEFINE t == Talk!Turn(m, "reply", wall)
<1>1. /\ answering[m] = "reply" /\ turns' \in {turns, turns \union {t}}
      /\ answering' = [answering EXCEPT ![m] = "none"]
      /\ UNCHANGED <<wall, life, gateway, channel, backfill>>
  BY DEF Talk!SaveReply, Talk!At, Talk!Go
<1>2. t.of = m /\ t.at = wall /\ ~IsHeard(t) /\ t.life = life
  BY DEF Talk!Turn, IsHeard
<1>3. Talk!Sent(m)
  BY <1>1 DEF TurnInv, OnlySent
<1> HIDE DEF t
<1>4. \A s \in turns' : s \in turns \/ s = t
  BY <1>1
<1>5. \A n \in Messages : answering'[n] = IF n = m THEN "none" ELSE answering[n]
  BY <1>1 DEF TurnInv, TurnTypes
<1>6. \A n \in Messages : Talk!Sent(n)' = Talk!Sent(n)
  BY <1>1 DEF Talk!Sent
<1>7. TurnTypes'
  BY <1>1, <1>6 DEF TurnInv, TurnTypes
<1>8. OnlySent'
  BY <1>1, <1>2, <1>3, <1>4, <1>5, <1>6 DEF TurnInv, TurnTypes, OnlySent, IsHeard
<1>9. TasksAreFirst' /\ BackfillIsFirst' /\ Talk!ContextOnce'
  BY <1>1, <1>2, <1>4, <1>5 DEF TurnInv, TasksAreFirst, BackfillIsFirst, IsHeard, Talk!ContextOnce
<1> QED BY <1>7, <1>8, <1>9 DEF TurnInv

LEMMA TurnsOfSend ==
  ASSUME TurnInv, NEW m \in Messages, NEW user \in Users, Talk!Send(m, user)
  PROVE  TurnInv'
<1>1. /\ ~Talk!Sent(m)
      /\ channel' = [channel EXCEPT ![m] = [by |-> user, at |-> wall]]
      /\ \/ answering' = answering
         \/ gateway = "ready" /\ answering' = [answering EXCEPT ![m] = "save"]
      /\ UNCHANGED <<wall, life, gateway, backfill, turns>>
  BY DEF Talk!Send, Talk!Go
<1>2. \A n \in Messages : channel'[n] = IF n = m THEN [by |-> user, at |-> wall] ELSE channel[n]
  BY <1>1 DEF TurnInv, TurnTypes
<1>3. wall # -1 /\ wall \in 0 .. wall
  BY DEF TurnInv, TurnTypes
<1>4. \A n \in Messages : Talk!Sent(n)' <=> n = m \/ Talk!Sent(n)
  BY <1>2, <1>3 DEF Talk!Sent, Talk!Unsent
<1>5. \A n \in Messages : \/ answering'[n] = answering[n]
                          \/ n = m /\ gateway = "ready"
  BY <1>1 DEF TurnInv, TurnTypes
<1>6. TurnTypes'
  BY <1>1, <1>2, <1>3, <1>4 DEF TurnInv, TurnTypes
<1>7. \A t \in turns : t.of # m
  BY <1>1 DEF TurnInv, OnlySent
<1>8. OnlySent'
  <2>1. \A n \in Messages : answering'[n] # "none" => Talk!Sent(n)' /\ gateway' # "down"
    BY <1>1, <1>4, <1>5 DEF TurnInv, OnlySent
  <2>2. /\ backfill'.history \subseteq {n \in Messages : Talk!Sent(n)'}
        /\ backfill'.left \subseteq {n \in Messages : Talk!Sent(n)'}
    BY <1>1, <1>4 DEF TurnInv, OnlySent
  <2>3. \A t \in turns' :
          /\ t.of \in Messages /\ Talk!Sent(t.of)'
          /\ t.at \in 0 .. wall'
          /\ IsHeard(t) => t.at = channel'[t.of].at
    BY <1>1, <1>2, <1>4, <1>7 DEF TurnInv, OnlySent
  <2> QED BY <2>1, <2>2, <2>3 DEF OnlySent, IsHeard
<1>9. TasksAreFirst'
  BY <1>1, <1>5, <1>7 DEF TurnInv, TasksAreFirst, IsHeard
<1>10. BackfillIsFirst' /\ Talk!ContextOnce'
  <2>1. \A n \in backfill.left : channel'[n] = channel[n]
    BY <1>1, <1>2 DEF TurnInv, OnlySent
  <2> QED BY <1>1, <2>1 DEF TurnInv, BackfillIsFirst, Talk!ContextOnce, IsHeard
<1> QED BY <1>6, <1>8, <1>9, <1>10 DEF TurnInv

LEMMA TurnsOfTick ==
  ASSUME TurnInv, Talk!Tick
  PROVE  TurnInv'
<1>1. /\ wall' = wall + 1 /\ wall \in Nat
      /\ UNCHANGED <<life, gateway, channel, answering, backfill, turns>>
  BY DEF Talk!Tick, Talk!daemon, TurnInv, TurnTypes
<1>2. \A a : a \in 0 .. wall => a \in 0 .. wall'
  BY <1>1
<1>3. \A m \in Messages : Talk!Sent(m)' = Talk!Sent(m)
  BY <1>1 DEF Talk!Sent
<1>4. TurnTypes'
  BY <1>1, <1>2, <1>3 DEF TurnInv, TurnTypes
<1>5. \A t \in turns' :
         /\ t.of \in Messages /\ Talk!Sent(t.of)'
         /\ t.at \in 0 .. wall'
         /\ IsHeard(t) => t.at = channel'[t.of].at
  <2>1. \A t \in turns :
          /\ t.of \in Messages /\ Talk!Sent(t.of)
          /\ t.at \in 0 .. wall
          /\ IsHeard(t) => t.at = channel[t.of].at
    BY DEF TurnInv, OnlySent
  <2>2. turns' = turns /\ channel' = channel
    BY <1>1
  <2> QED BY <1>2, <1>3, <2>1, <2>2
<1>6. OnlySent'
  BY <1>1, <1>3, <1>5 DEF TurnInv, OnlySent, IsHeard
<1> QED BY <1>1, <1>4, <1>6 DEF TurnInv, TasksAreFirst, BackfillIsFirst, Talk!ContextOnce, IsHeard

(* The backfill reads. *)
LEMMA TurnsOfFetch ==
  ASSUME TurnInv, Talk!FetchHistory
  PROVE  TurnInv'
<1>1. PICK h \in Talk!Histories :
         backfill' = [backfill EXCEPT !.pc = "walk", !.history = h, !.users = Allowed]
  BY DEF Talk!FetchHistory
<1>2. h \subseteq {m \in Messages : Talk!Sent(m)}
  BY DEF Talk!Histories
<1>3. /\ backfill'.history = h /\ backfill'.left = backfill.left /\ backfill'.after = backfill.after
      /\ backfill' = [pc |-> backfill'.pc, history |-> backfill'.history, users |-> backfill'.users,
                   left |-> backfill'.left, after |-> backfill'.after]
  BY <1>1 DEF TurnInv, TurnTypes
<1>4. UNCHANGED <<wall, life, gateway, channel, answering, turns>>
  BY DEF Talk!FetchHistory
<1>5. TurnTypes' /\ OnlySent'
  BY <1>2, <1>3, <1>4 DEF TurnInv, TurnTypes, OnlySent, Talk!Sent, IsHeard
<1> QED BY <1>3, <1>4, <1>5 DEF TurnInv, TasksAreFirst, BackfillIsFirst, Talk!ContextOnce, IsHeard

LEMMA TurnsOfRead ==
  ASSUME TurnInv, NEW user \in Allowed, Talk!ReadLast(user)
  PROVE  TurnInv'
<1>1. UNCHANGED <<wall, life, gateway, channel, answering, turns>>
  BY DEF Talk!ReadLast
<1>2. CASE backfill' = [backfill EXCEPT
                          !.users = @ \ {user},
                          !.left = {m \in backfill.history : channel[m].by = user},
                          !.after = Talk!Latest(user)]
  <2>1. /\ backfill'.history = backfill.history
        /\ backfill'.left = {m \in backfill.history : channel[m].by = user}
        /\ backfill'.after = Talk!Latest(user)
        /\ backfill' = [pc |-> backfill'.pc, history |-> backfill'.history, users |-> backfill'.users,
                   left |-> backfill'.left, after |-> backfill'.after]
    BY <1>2 DEF TurnInv, TurnTypes
  <2>2. TurnTypes' /\ OnlySent'
    BY <1>1, <2>1, LatestIsLargest DEF TurnInv, TurnTypes, OnlySent, Talk!Sent, IsHeard
  <2>3. BackfillIsFirst'
    <3> SUFFICES ASSUME NEW m \in backfill'.left, NEW t \in turns, t.of = m, IsHeard(t)
                 PROVE  channel[m].at <= Talk!Latest(user)
      BY <1>1, <2>1 DEF BackfillIsFirst, IsHeard
    <3>1. t.at = channel[m].at
      BY DEF TurnInv, OnlySent
    <3>2. channel[t.of].by = user
      BY <2>1
    <3> QED BY <3>1, <3>2, LatestIsLargest
  <2> QED BY <1>1, <2>2, <2>3 DEF TurnInv, TasksAreFirst, Talk!ContextOnce, IsHeard
<1>3. CASE backfill' = [backfill EXCEPT !.users = @ \ {user}]
  <2>1. /\ backfill'.history = backfill.history /\ backfill'.left = backfill.left
        /\ backfill'.after = backfill.after
        /\ backfill' = [pc |-> backfill'.pc, history |-> backfill'.history, users |-> backfill'.users,
                   left |-> backfill'.left, after |-> backfill'.after]
    BY <1>3 DEF TurnInv, TurnTypes
  <2>2. TurnTypes' /\ OnlySent'
    BY <1>1, <2>1 DEF TurnInv, TurnTypes, OnlySent, Talk!Sent, IsHeard
  <2> QED BY <1>1, <2>1, <2>2 DEF TurnInv, TasksAreFirst, BackfillIsFirst, Talk!ContextOnce, IsHeard
<1> QED BY <1>2, <1>3 DEF Talk!ReadLast

(* What is newer than the last turn no earlier life has stored. *)
LEMMA TurnsOfStore ==
  ASSUME TurnInv, NEW m \in Messages, Talk!StoreTurn(m)
  PROVE  TurnInv'
<1> DEFINE t == Talk!Turn(m, "backfill", channel[m].at)
<1>1. /\ m \in backfill.left
      /\ backfill' = [backfill EXCEPT !.left = @ \ {m}]
      /\ UNCHANGED <<wall, life, gateway, channel, answering>>
      /\ \/ turns' = turns
         \/ channel[m].at > backfill.after /\ turns' \in {turns, turns \union {t}}
  BY DEF Talk!StoreTurn, Talk!Newer
<1>2. /\ backfill'.left = backfill.left \ {m} /\ backfill'.history = backfill.history
      /\ backfill'.after = backfill.after
      /\ backfill' = [pc |-> backfill'.pc, history |-> backfill'.history, users |-> backfill'.users,
                   left |-> backfill'.left, after |-> backfill'.after]
  BY <1>1 DEF TurnInv, TurnTypes
<1>3. TurnTypes'
  BY <1>1, <1>2 DEF TurnInv, TurnTypes, Talk!Sent
<1>4. Talk!Sent(m)
  BY <1>1 DEF TurnInv, OnlySent
<1>5. CASE turns' = turns
  <2>1. OnlySent'
    BY <1>1, <1>2, <1>5 DEF TurnInv, OnlySent, Talk!Sent, IsHeard
  <2> QED BY <1>1, <1>2, <1>3, <1>5, <2>1
          DEF TurnInv, TasksAreFirst, BackfillIsFirst, Talk!ContextOnce, IsHeard
<1>6. CASE channel[m].at > backfill.after /\ turns' \in {turns, turns \union {t}}
  <2>1. t.of = m /\ t.life = life /\ t.at = channel[m].at /\ IsHeard(t)
    BY DEF Talk!Turn, IsHeard
  <2>2. \A s \in turns : s.of = m /\ IsHeard(s) => s.life = life
    <3> SUFFICES ASSUME NEW s \in turns, s.of = m, IsHeard(s), channel[m].at <= backfill.after
                 PROVE  FALSE
      BY <1>1 DEF TurnInv, BackfillIsFirst
    <3>1. channel[m].at \in Int /\ backfill.after \in Int
      BY <1>4 DEF TurnInv, TurnTypes
    <3> QED BY <1>6, <3>1
  <2> HIDE DEF t
  <2>3. /\ \A s \in turns' : \/ s \in turns
                             \/ s.life = life /\ s.of = m /\ s.at = channel[m].at /\ IsHeard(s)
        /\ Talk!ContextOnce'
    BY <1>1, <1>4, <1>6, <2>1, <2>2, TurnStored
  <2>4. OnlySent'
    BY <1>1, <1>2, <1>4, <2>3 DEF TurnInv, TurnTypes, OnlySent, Talk!Sent, IsHeard
  <2>5. TasksAreFirst' /\ BackfillIsFirst'
    BY <1>1, <1>2, <2>3 DEF TurnInv, TasksAreFirst, BackfillIsFirst, IsHeard
  <2> QED BY <1>3, <2>3, <2>4, <2>5 DEF TurnInv
<1> QED BY <1>1, <1>5, <1>6

(* The daemon starts, connects and dies. *)
LEMMA TurnsOfDaemon ==
  ASSUME TurnInv, Talk!Start \/ Talk!OnReady \/ Talk!Stop \/ Talk!BackfillFails
  PROVE  TurnInv'
<1>1. CASE Talk!Start
  <2>1. /\ life' = life + 1 /\ gateway = "down" /\ gateway' = "connecting"
        /\ backfill' = [Talk!NoBackfill EXCEPT !.pc = "fetch"]
        /\ UNCHANGED <<wall, channel, answering, turns>>
    BY <1>1 DEF Talk!Start
  <2>2. /\ backfill'.left = {} /\ backfill'.history = {} /\ backfill'.after = -1
        /\ backfill' = [pc |-> backfill'.pc, history |-> backfill'.history, users |-> backfill'.users,
                   left |-> backfill'.left, after |-> backfill'.after]
    BY <2>1 DEF Talk!NoBackfill
  <2>3. \A m \in Messages : answering[m] = "none"
    BY <2>1 DEF TurnInv, OnlySent
  <2>4. TurnTypes' /\ OnlySent'
    BY <2>1, <2>2, <2>3 DEF TurnInv, TurnTypes, OnlySent, Talk!Sent, IsHeard
  <2> QED BY <2>1, <2>2, <2>3, <2>4 DEF TurnInv, TasksAreFirst, BackfillIsFirst, Talk!ContextOnce
<1>2. CASE Talk!OnReady
  BY <1>2 DEF Talk!OnReady, TurnInv, TurnTypes, OnlySent, TasksAreFirst, BackfillIsFirst,
              Talk!ContextOnce, Talk!Sent, IsHeard
<1>3. CASE Talk!Stop
  <2>1. /\ answering' = [m \in Messages |-> "none"] /\ backfill' = Talk!NoBackfill
        /\ UNCHANGED <<wall, life, channel, turns>>
    BY <1>3 DEF Talk!Stop
  <2> QED BY <2>1 DEF TurnInv, TurnTypes, OnlySent, TasksAreFirst, BackfillIsFirst,
              Talk!ContextOnce, Talk!Sent, IsHeard, Talk!NoBackfill
<1>4. CASE Talk!BackfillFails
  BY <1>4 DEF Talk!BackfillFails, Talk!NoBackfill, TurnInv, TurnTypes, OnlySent, TasksAreFirst,
              BackfillIsFirst, Talk!ContextOnce, Talk!Sent, IsHeard
<1> QED BY <1>1, <1>2, <1>3, <1>4

LEMMA TurnsOfHandle ==
  ASSUME TurnInv, NEW m \in Messages, Talk!Handle(m)
  PROVE  TurnInv'
<1>1. CASE Talk!SaveTurn(m) \/ Talk!SaveReply(m)
  BY <1>1, TurnsOfSave, TurnsOfReply
<1>2. CASE Talk!Parse(m)
  <2>1. PICK intent \in Talk!Understood(m) : answering' = [answering EXCEPT ![m] = intent]
    BY <1>2 DEF Talk!Parse, Talk!Go
  <2>2. intent # "save"
    BY ChatAssumption DEF Talk!Understood, Talk!Intents
  <2> QED BY <1>2, <2>1, <2>2, TurnsOfTask DEF Talk!Parse
<1>3. CASE ~Talk!SaveTurn(m) /\ ~Talk!SaveReply(m) /\ ~Talk!Parse(m)
  <2>1. \E pc \in {"none", "reparse", "post", "reply"} :
           /\ answering[m] # "none" /\ answering' = [answering EXCEPT ![m] = pc]
           /\ UNCHANGED <<wall, life, gateway, channel, backfill, turns>>
    BY <1>3 DEF Talk!Handle, Talk!At, Talk!Go, Talk!SaveTurnFails, Talk!ParseFails, Talk!SaveCommand,
                Talk!SaveCommandFails, Talk!PostCard, Talk!PostCardFails, Talk!Reparse,
                Talk!AnswerQuery, Talk!QueryFails, Talk!Talk
  <2> QED BY <2>1, TurnsOfTask
<1> QED BY <1>1, <1>2, <1>3

LEMMA NextTurns == TurnInv /\ [Talk!Next]_talkVars => TurnInv'
<1> SUFFICES ASSUME TurnInv, [Talk!Next]_talkVars
             PROVE  TurnInv'
  OBVIOUS
<1>1. CASE UNCHANGED <<wall, life, gateway, channel, answering, backfill, turns>>
  BY <1>1 DEF TurnInv, TurnTypes, OnlySent, TasksAreFirst, BackfillIsFirst, Talk!ContextOnce,
              Talk!Sent, IsHeard
<1>2. ASSUME NEW m \in Messages, Talk!DecideElsewhere(m) \/ Talk!Expire(m)
      PROVE  TurnInv'
  BY <1>1, <1>2 DEF Talk!DecideElsewhere, Talk!Expire, Talk!daemon
<1>3. ASSUME NEW c \in Clicks,
             \/ Talk!Decide(c) \/ Talk!EditCard(c)
             \/ \E m \in Messages, user \in Users, d \in {"approve", "reject"} :
                   Talk!Press(c, m, user, d)
      PROVE  TurnInv'
  BY <1>1, <1>3 DEF Talk!Decide, Talk!EditCard, Talk!Press
<1>4. UNCHANGED talkVars => TurnInv'
  BY <1>1 DEF talkVars
<1> QED BY <1>2, <1>3, <1>4, TurnsOfHandle, TurnsOfSend, TurnsOfTick, TurnsOfFetch, TurnsOfRead,
           TurnsOfStore, TurnsOfDaemon DEF Talk!Next
-----------------------------------------------------------------------------
(* The cards.  A card that buttons can be pressed on belongs to a row that *)
(* is stored once; a row that was decided keeps its decision, so what a    *)
(* click has read is still so when it edits the card.                      *)

Early == {"save", "parse", "reparse", "command"}

CardTypes ==
    /\ channel = [m \in Messages |-> channel[m]]
    /\ answering = [m \in Messages |-> answering[m]]
    /\ table = [m \in Messages |-> table[m]]
    /\ card = [m \in Messages |-> card[m]]
    /\ click = [c \in Clicks |-> click[c]]
    /\ \A m \in Messages : table[m] = [status |-> table[m].status, due |-> table[m].due]
    /\ \A c \in Clicks :
          click[c] = [pc |-> click[c].pc, of |-> click[c].of, decision |-> click[c].decision,
                      seen |-> click[c].seen, late |-> click[c].late]

(* A message that is not yet a command has neither row nor card. *)
NoCardYet ==
    /\ \A m \in Messages : ~Talk!Sent(m) \/ answering[m] \in Early =>
          card[m] = "none" /\ table[m].status = "none"
    /\ \A m \in Messages : answering[m] = "post" => card[m] = "none"

ClicksHaveCards ==
    \A c \in Clicks : click[c].pc # "idle" =>
       click[c].of \in Messages /\ card[click[c].of] # "none"

(* A decision that a click shows is on record. *)
ShownIsRecorded ==
    \A c \in Clicks : click[c].pc = "show" /\ click[c].seen \in {"approved", "rejected"} =>
       table[click[c].of].status = click[c].seen

CardInv == CardTypes /\ NoCardYet /\ ClicksHaveCards /\ ShownIsRecorded /\ Talk!CardTruthful

LEMMA InitCards == Talk!Init => CardInv
  BY DEF Talk!Init, CardInv, CardTypes, NoCardYet, ClicksHaveCards, ShownIsRecorded,
         Talk!CardTruthful, Talk!NoClick, Talk!NoRow, Early

(* A task that moves on without a row or a card. *)
LEMMA CardsOfTask ==
  ASSUME CardInv, NEW m \in Messages, NEW pc,
         pc # "post", pc \in Early => answering[m] \in Early,
         answering' = [answering EXCEPT ![m] = pc],
         UNCHANGED <<channel, table, card, click>>
  PROVE  CardInv'
<1>1. \A n \in Messages : answering'[n] = IF n = m THEN pc ELSE answering[n]
  BY DEF CardInv, CardTypes
<1>2. \A n \in Messages : Talk!Sent(n)' = Talk!Sent(n)
  BY DEF Talk!Sent
<1>3. NoCardYet'
  BY <1>1, <1>2 DEF CardInv, NoCardYet
<1>4. CardTypes'
  BY DEF CardInv, CardTypes
<1> QED BY <1>3, <1>4 DEF CardInv, ClicksHaveCards, ShownIsRecorded, Talk!CardTruthful

(* The table keeps what was decided (its triggers). *)
LEMMA RowsKeepDecisions ==
  ASSUME CardInv, NEW m \in Messages, NEW status, Talk!Write(m, status)
  PROVE  /\ table' = [n \in Messages |-> table'[n]]
         /\ \A n \in Messages :
               /\ table'[n] = [status |-> table'[n].status, due |-> table'[n].due]
               /\ table[n].status = "awaiting" \/ table'[n] = table[n]
         /\ table[m].status = "awaiting" => table'[m].status = status
<1> DEFINE new == [status |-> status, due |-> table[m].due]
<1>1. /\ table = [n \in Messages |-> table[n]]
      /\ \A n \in Messages : table[n] = [status |-> table[n].status, due |-> table[n].due]
  BY DEF CardInv, CardTypes
<1>2. CASE table[m].status = "awaiting"
  <2>1. table' = [table EXCEPT ![m].status = status]
    BY <1>2 DEF Talk!Write
  <2>2. [table[m] EXCEPT !.status = status] = new
    <3>1. table[m] = [status |-> table[m].status, due |-> table[m].due]
      BY <1>1
    <3> QED BY <3>1
  <2>3. table' = [n \in Messages |-> IF n = m THEN new ELSE table[n]]
    <3> HIDE DEF new
    <3> QED BY <1>1, <2>1, <2>2
  <2>4. \A n \in Messages : table'[n] = IF n = m THEN new ELSE table[n]
    BY <2>3
  <2>5. new = [status |-> new.status, due |-> new.due] /\ new.status = status
    OBVIOUS
  <2> HIDE DEF new
  <2> QED BY <1>1, <1>2, <2>3, <2>4, <2>5
<1>3. CASE table[m].status # "awaiting"
  BY <1>1, <1>3 DEF Talk!Write
<1> QED BY <1>2, <1>3

LEMMA CardsOfDecision ==
  ASSUME CardInv, NEW m \in Messages, NEW status, Talk!Write(m, status),
         UNCHANGED <<channel, answering, card, click>>
  PROVE  CardInv'
<1>1. /\ table' = [n \in Messages |-> table'[n]]
      /\ \A n \in Messages :
            /\ table'[n] = [status |-> table'[n].status, due |-> table'[n].due]
            /\ table[n].status = "awaiting" \/ table'[n] = table[n]
  BY RowsKeepDecisions
<1>2. CardTypes'
  BY <1>1 DEF CardInv, CardTypes
<1>3. NoCardYet'
  BY <1>1 DEF CardInv, NoCardYet, Talk!Sent
<1>4. ClicksHaveCards' /\ ShownIsRecorded' /\ Talk!CardTruthful'
  BY <1>1 DEF CardInv, ClicksHaveCards, ShownIsRecorded, Talk!CardTruthful
<1> QED BY <1>2, <1>3, <1>4 DEF CardInv

LEMMA CardsOfSend ==
  ASSUME TurnInv, CardInv, NEW m \in Messages, NEW user \in Users, Talk!Send(m, user)
  PROVE  CardInv'
<1>1. /\ ~Talk!Sent(m)
      /\ channel' = [channel EXCEPT ![m] = [by |-> user, at |-> wall]]
      /\ \/ answering' = answering
         \/ answering' = [answering EXCEPT ![m] = "save"]
      /\ UNCHANGED <<table, card, click>>
  BY DEF Talk!Send, Talk!Go
<1>2. CardTypes'
  BY <1>1 DEF CardInv, CardTypes
<1>3. \A n \in Messages : n # m => channel'[n] = channel[n] /\ answering'[n] = answering[n]
  BY <1>1 DEF CardInv, CardTypes
<1>4. card[m] = "none" /\ table[m].status = "none"
  BY <1>1 DEF CardInv, NoCardYet
<1>5. NoCardYet'
  BY <1>1, <1>3, <1>4 DEF CardInv, NoCardYet, Talk!Sent
<1> QED BY <1>1, <1>2, <1>5 DEF CardInv, ClicksHaveCards, ShownIsRecorded, Talk!CardTruthful

LEMMA CardsOfCommand ==
  ASSUME TurnInv, CardInv, NEW m \in Messages, Talk!SaveCommand(m)
  PROVE  CardInv'
<1> DEFINE new == [status |-> "awaiting", due |-> wall + TTL]
<1>1. /\ answering[m] = "command" /\ table' = [table EXCEPT ![m] = new]
      /\ answering' = [answering EXCEPT ![m] = "post"]
      /\ UNCHANGED <<channel, card, click>>
  BY DEF Talk!SaveCommand, Talk!At, Talk!Go
<1>2. Talk!Sent(m) /\ card[m] = "none"
  BY <1>1 DEF TurnInv, OnlySent, CardInv, NoCardYet, Early
<1>3. \A n \in Messages : /\ answering'[n] = IF n = m THEN "post" ELSE answering[n]
                          /\ table'[n] = IF n = m THEN new ELSE table[n]
  BY <1>1 DEF CardInv, CardTypes
<1>4. CardTypes'
  BY <1>1, <1>3 DEF CardInv, CardTypes
<1>5. NoCardYet'
  BY <1>1, <1>2, <1>3 DEF CardInv, NoCardYet, Talk!Sent, Early
<1>6. ClicksHaveCards' /\ ShownIsRecorded' /\ Talk!CardTruthful'
  BY <1>1, <1>2, <1>3 DEF CardInv, ClicksHaveCards, ShownIsRecorded, Talk!CardTruthful
<1> QED BY <1>4, <1>5, <1>6 DEF CardInv

LEMMA CardsOfPost ==
  ASSUME TurnInv, CardInv, NEW m \in Messages, Talk!PostCard(m) \/ Talk!PostCardFails(m)
  PROVE  CardInv'
<1>1. PICK shown \in {"none", "open"}, pc \in {"reply", "none"} :
         /\ answering[m] = "post" /\ card' = [card EXCEPT ![m] = shown]
         /\ answering' = [answering EXCEPT ![m] = pc]
         /\ UNCHANGED <<channel, table, click>>
  BY DEF Talk!PostCard, Talk!PostCardFails, Talk!At, Talk!Go
<1>2. Talk!Sent(m) /\ card[m] = "none"
  BY <1>1 DEF TurnInv, OnlySent, CardInv, NoCardYet
<1>3. \A n \in Messages : /\ answering'[n] = IF n = m THEN pc ELSE answering[n]
                          /\ card'[n] = IF n = m THEN shown ELSE card[n]
  BY <1>1 DEF CardInv, CardTypes
<1>4. CardTypes'
  BY <1>1 DEF CardInv, CardTypes
<1>5. NoCardYet'
  BY <1>1, <1>2, <1>3 DEF CardInv, NoCardYet, Talk!Sent, Early
<1>6. ClicksHaveCards' /\ ShownIsRecorded' /\ Talk!CardTruthful'
  BY <1>1, <1>2, <1>3 DEF CardInv, ClicksHaveCards, ShownIsRecorded, Talk!CardTruthful
<1> QED BY <1>4, <1>5, <1>6 DEF CardInv

LEMMA CardsOfPress ==
  ASSUME CardInv, NEW c \in Clicks, NEW m \in Messages, NEW user, NEW d, Talk!Press(c, m, user, d)
  PROVE  CardInv'
<1> DEFINE new == [pc |-> "decide", of |-> m, decision |-> d,
                   seen |-> table[m].status, late |-> table[m].due <= wall]
<1>1. /\ click' = [click EXCEPT ![c] = new] /\ card[m] # "none"
      /\ UNCHANGED <<channel, answering, table, card>>
  BY DEF Talk!Press
<1>2. \A b \in Clicks : click'[b] = IF b = c THEN new ELSE click[b]
  BY <1>1 DEF CardInv, CardTypes
<1>3. CardTypes'
  BY <1>1, <1>2 DEF CardInv, CardTypes
<1>4. NoCardYet' /\ Talk!CardTruthful'
  BY <1>1 DEF CardInv, NoCardYet, Talk!CardTruthful, Talk!Sent
<1>5. ClicksHaveCards' /\ ShownIsRecorded'
  BY <1>1, <1>2 DEF CardInv, ClicksHaveCards, ShownIsRecorded
<1> QED BY <1>3, <1>4, <1>5 DEF CardInv

LEMMA CardsOfDecide ==
  ASSUME CardInv, NEW c \in Clicks, Talk!Decide(c)
  PROVE  CardInv'
<1> DEFINE m == click[c].of
           status == IF click[c].late THEN "expired" ELSE Talk!Pressed(c)
<1>1. m \in Messages /\ card[m] # "none" /\ click[c].pc = "decide"
  BY DEF Talk!Decide, CardInv, ClicksHaveCards
<1>2. UNCHANGED <<channel, answering, card>>
  BY DEF Talk!Decide
<1>3. PICK read :
         /\ click' = [click EXCEPT ![c].pc = "show", ![c].seen = read]
         /\ \/ /\ Talk!Write(m, status)
               /\ read = IF table[m].status = "awaiting" THEN status ELSE "error"
            \/ read = "error" /\ UNCHANGED table
  BY Zenon DEF Talk!Decide
<1>4. /\ table' = [n \in Messages |-> table'[n]]
      /\ \A n \in Messages :
            /\ table'[n] = [status |-> table'[n].status, due |-> table'[n].due]
            /\ table[n].status = "awaiting" \/ table'[n] = table[n]
      /\ read # "error" => table'[m].status = read
  <2> HIDE DEF m, status
  <2>1. CASE Talk!Write(m, status) /\ read = IF table[m].status = "awaiting" THEN status ELSE "error"
    BY <1>1, <2>1, RowsKeepDecisions
  <2>2. CASE read = "error" /\ UNCHANGED table
    BY <2>2 DEF CardInv, CardTypes
  <2> QED BY <1>3, <2>1, <2>2
<1>5. /\ \A b \in Clicks : b # c => click'[b] = click[b]
      /\ click'[c] = [click[c] EXCEPT !.pc = "show", !.seen = read]
      /\ click' = [b \in Clicks |-> click'[b]]
  BY <1>3 DEF CardInv, CardTypes
<1>6. /\ click'[c].of = m /\ click'[c].seen = read
      /\ click'[c] = [pc |-> click'[c].pc, of |-> click'[c].of, decision |-> click'[c].decision,
                      seen |-> click'[c].seen, late |-> click'[c].late]
  BY <1>5 DEF CardInv, CardTypes
<1> HIDE DEF m, status
<1>7. CardTypes'
  BY <1>2, <1>4, <1>5, <1>6 DEF CardInv, CardTypes
<1>8. NoCardYet' /\ Talk!CardTruthful'
  BY <1>2, <1>4 DEF CardInv, NoCardYet, Talk!CardTruthful, Talk!Sent
<1>9. ClicksHaveCards'
  BY <1>1, <1>2, <1>5, <1>6 DEF CardInv, ClicksHaveCards
<1>10. ShownIsRecorded'
  BY <1>4, <1>5, <1>6 DEF CardInv, ClicksHaveCards, ShownIsRecorded
<1> QED BY <1>7, <1>8, <1>9, <1>10 DEF CardInv

LEMMA CardsOfEdit ==
  ASSUME CardInv, NEW c \in Clicks, Talk!EditCard(c)
  PROVE  CardInv'
<1> DEFINE m == click[c].of
           shown == Talk!ShownOutcome(c)
<1>1. /\ m \in Messages /\ card[m] # "none" /\ click[c].pc = "show"
      /\ card' \in {card, [card EXCEPT ![m] = shown]}
      /\ click' = [click EXCEPT ![c] = Talk!NoClick]
      /\ UNCHANGED <<channel, answering, table>>
  BY DEF Talk!EditCard, CardInv, ClicksHaveCards
<1>2. shown = "stale" \/ (shown = click[c].seen /\ shown \in {"approved", "rejected"})
  BY DEF Talk!ShownOutcome, Talk!Pressed
<1>3. shown # "none" /\ (shown # "stale" => table[m].status = shown)
  BY <1>1, <1>2 DEF CardInv, ShownIsRecorded
<1> HIDE DEF m, shown
<1>4. \A n \in Messages : card'[n] = card[n] \/ (n = m /\ card'[n] = shown)
  BY <1>1 DEF CardInv, CardTypes
<1>5. \A b \in Clicks : click'[b] = click[b] \/ click'[b] = Talk!NoClick
  BY <1>1 DEF CardInv, CardTypes
<1>6. CardTypes'
  BY <1>1, <1>5 DEF CardInv, CardTypes, Talk!NoClick
<1>7. NoCardYet'
  BY <1>1, <1>4 DEF CardInv, NoCardYet, Talk!Sent
<1>8. ClicksHaveCards' /\ ShownIsRecorded'
  BY <1>1, <1>3, <1>4, <1>5 DEF CardInv, ClicksHaveCards, ShownIsRecorded, Talk!NoClick
<1>9. Talk!CardTruthful'
  BY <1>1, <1>3, <1>4 DEF CardInv, Talk!CardTruthful
<1> QED BY <1>6, <1>7, <1>8, <1>9 DEF CardInv

LEMMA CardsOfHandle ==
  ASSUME TurnInv, CardInv, NEW m \in Messages, Talk!Handle(m)
  PROVE  CardInv'
<1>1. CASE Talk!SaveCommand(m) \/ Talk!PostCard(m) \/ Talk!PostCardFails(m)
  BY <1>1, CardsOfCommand, CardsOfPost
<1>2. CASE Talk!Parse(m)
  <2>1. PICK intent \in Talk!Understood(m) : answering' = [answering EXCEPT ![m] = intent]
    BY <1>2 DEF Talk!Parse, Talk!Go
  <2>2. intent # "post"
    BY ChatAssumption DEF Talk!Understood, Talk!Intents
  <2> QED BY <1>2, <2>1, <2>2, CardsOfTask DEF Talk!Parse, Early
<1>3. CASE ~Talk!SaveCommand(m) /\ ~Talk!PostCard(m) /\ ~Talk!PostCardFails(m) /\ ~Talk!Parse(m)
  <2>1. \E pc \in {"none", "parse", "reparse", "reply"} :
           /\ pc \in Early => answering[m] \in Early
           /\ answering' = [answering EXCEPT ![m] = pc]
           /\ UNCHANGED <<channel, table, card, click>>
    BY <1>3 DEF Talk!Handle, Talk!At, Talk!Go, Talk!SaveTurn, Talk!SaveTurnFails, Talk!ParseFails,
                Talk!SaveCommandFails, Talk!Reparse, Talk!AnswerQuery, Talk!QueryFails, Talk!Talk,
                Talk!SaveReply, Early
  <2> QED BY <2>1, CardsOfTask
<1> QED BY <1>1, <1>2, <1>3

LEMMA NextCards == TurnInv /\ CardInv /\ [Talk!Next]_talkVars => CardInv'
<1> SUFFICES ASSUME TurnInv, CardInv, [Talk!Next]_talkVars
             PROVE  CardInv'
  OBVIOUS
<1>1. CASE UNCHANGED <<channel, answering, table, card, click>>
  BY <1>1 DEF CardInv, CardTypes, NoCardYet, ClicksHaveCards, ShownIsRecorded, Talk!CardTruthful,
              Talk!Sent
<1>2. ASSUME NEW m \in Messages, Talk!DecideElsewhere(m) \/ Talk!Expire(m)
      PROVE  CardInv'
  BY <1>2, CardsOfDecision DEF Talk!DecideElsewhere, Talk!Expire, Talk!daemon
<1>3. CASE Talk!Tick \/ Talk!Start \/ Talk!OnReady
  BY <1>1, <1>3 DEF Talk!Tick, Talk!Start, Talk!OnReady, Talk!daemon
<1>4. CASE Talk!Stop
  <2>1. /\ answering' = [m \in Messages |-> "none"] /\ click' = [c \in Clicks |-> Talk!NoClick]
        /\ UNCHANGED <<channel, table, card>>
    BY <1>4 DEF Talk!Stop
  <2> QED BY <2>1 DEF CardInv, CardTypes, NoCardYet, ClicksHaveCards, ShownIsRecorded,
                      Talk!CardTruthful, Talk!NoClick, Talk!Sent, Early
<1>5. ASSUME NEW m \in Messages, Talk!StoreTurn(m)
      PROVE  CardInv'
  BY <1>1, <1>5 DEF Talk!StoreTurn
<1>6. ASSUME \/ Talk!FetchHistory \/ Talk!BackfillFails
             \/ \E user \in Allowed : Talk!ReadLast(user)
      PROVE  CardInv'
  BY <1>1, <1>6 DEF Talk!FetchHistory, Talk!BackfillFails, Talk!ReadLast
<1>7. UNCHANGED talkVars => CardInv'
  BY <1>1 DEF talkVars
<1> QED BY <1>2, <1>3, <1>4, <1>5, <1>6, <1>7, CardsOfHandle, CardsOfSend, CardsOfPress, CardsOfDecide,
           CardsOfEdit DEF Talk!Next

LEMMA TalkPart == ServicesNext \/ UNCHANGED all => [Talk!Next]_talkVars
  BY DEF ServicesNext, Rest, all, partVars

-----------------------------------------------------------------------------
(* The bills.  Of an answer the adapter reads every token in one bucket,   *)
(* so a row is the rounded bill; the rows are no more than the calls that  *)
(* have ended.                                                             *)

Ended == requests - (IF request.pc = "idle" THEN 0 ELSE 1)
Off == paid * Unit - billed

(* The reply is one the provider sends for these tokens, and can be read.  *)
Readable(u, text) ==
    /\ Bills!Possible(request.provider, u, text)
    /\ reply = Bills!Wire(request.provider, u, text)
    /\ request.provider = "ollama_cloud" => Bills!Accountable(reply)
    /\ request.bill = Bills!Bill(request.provider, u)

BillInv ==
    /\ requests \in Nat /\ paid \in Int /\ billed \in Int
    /\ request = [pc |-> request.pc, provider |-> request.provider, attempt |-> request.attempt,
                  bill |-> request.bill, result |-> request.result]
    /\ request.pc # "idle" => requests # 0 /\ request.provider \in DOMAIN Price
    /\ request.pc = "answered" => \E u \in Usages, text \in Bills!Texts : Readable(u, text)
    /\ 2 * Off <= Ended * Unit
    /\ -2 * Off <= Ended * Unit

LEMMA RoundedIsNear ==
  ASSUME NEW parts \in Int
  PROVE  /\ Bills!Rounded(parts) \in Int
         /\ 2 * (Bills!Rounded(parts) * Unit) <= 2 * parts + Unit
         /\ 2 * parts - Unit <= 2 * (Bills!Rounded(parts) * Unit)
<1> DEFINE r == Bills!Rounded(parts)
           d == 2 * Unit
           n == 2 * parts + Unit
<1>1. d \in Nat \ {0} /\ n \in Int
  BY BillsAssumption
<1>2. r = n \div d
  BY DEF Bills!Rounded
<1>3. n \div d \in Int /\ d * (n \div d) <= n /\ n < d * (n \div d) + d
  <2> HIDE DEF n, d
  <2> QED BY <1>1
<1>4. d * r = 2 * (r * Unit)
  <2>1. r \in Int
    BY <1>2, <1>3
  <2> HIDE DEF r
  <2> QED BY <2>1, BillsAssumption
<1>5. 2 * (r * Unit) <= n /\ n < 2 * (r * Unit) + d /\ r \in Int
  BY <1>2, <1>3, <1>4
<1>6. r * Unit \in Int
  BY <1>5, BillsAssumption
<1> HIDE DEF r
<1>7. 2 * (r * Unit) <= 2 * parts + Unit /\ 2 * parts - Unit <= 2 * (r * Unit)
  BY <1>5, <1>6, BillsAssumption
<1> QED BY <1>5, <1>7 DEF r

(* The buckets the four adapters make are the tokens of the answer. *)
LEMMA BucketsAreTokens ==
  ASSUME NEW u \in Usages, NEW text, NEW p \in DOMAIN Price,
         Bills!Possible(p, u, text),
         p = "ollama_cloud" => Bills!Accountable(Bills!Wire(p, u, text))
  PROVE  Bills!Extract(p, Bills!Wire(p, u, text)) =
           IF p \in {"openai", "google"}
           THEN Bills!Buckets(u.fresh, u.visible, u.thought, u.cached, 0)
           ELSE Bills!Buckets(u.fresh, u.visible + u.thought, 0, u.cached, u.written)
<1> DEFINE w == Bills!Wire(p, u, text)
<1>1. /\ u.fresh \in Nat /\ u.cached \in Nat /\ u.written \in Nat
      /\ u.visible \in Nat /\ u.thought \in Nat
      /\ p \in {"openai", "anthropic", "google", "ollama_cloud"}
  BY BillsAssumption
<1>2. text # "garbled"
  BY <1>1 DEF Bills!Possible, Bills!Accountable, Bills!Wire
<1>3. p # "anthropic" => u.written = 0
  BY <1>1 DEF Bills!Possible
<1>4. CASE p = "openai"
  BY <1>1, <1>2, <1>4 DEF Bills!Extract, Bills!Wire, Bills!FromOpenAI, Bills!Largest, Bills!Buckets
<1>5. CASE p = "google"
  BY <1>1, <1>2, <1>5 DEF Bills!Extract, Bills!Wire, Bills!FromGoogle, Bills!Largest, Bills!Buckets
<1>6. CASE p = "anthropic"
  BY <1>1, <1>2, <1>6 DEF Bills!Extract, Bills!Wire, Bills!FromAnthropic, Bills!Buckets
<1>7. CASE p = "ollama_cloud"
  BY <1>1, <1>2, <1>3, <1>7 DEF Bills!Extract, Bills!Wire, Bills!FromOllama, Bills!Buckets
<1> QED BY <1>1, <1>4, <1>5, <1>6, <1>7

LEMMA RowIsRoundedBill ==
  ASSUME NEW u \in Usages, NEW text, NEW p \in DOMAIN Price,
         Bills!Possible(p, u, text),
         p = "ollama_cloud" => Bills!Accountable(Bills!Wire(p, u, text))
  PROVE  /\ Bills!Bill(p, u) \in Int
         /\ Bills!CostFor(p, Bills!Extract(p, Bills!Wire(p, u, text))) = Bills!Rounded(Bills!Bill(p, u))
<1> DEFINE price == Price[p]
           i == price.input
           o == price.output
           c == Bills!Or(price.cached, i)
           n == Bills!Or(price.written, i)
           g == Bills!Or(price.reasoning, o)
<1>1. /\ u.fresh \in Nat /\ u.cached \in Nat /\ u.written \in Nat
      /\ u.visible \in Nat /\ u.thought \in Nat
      /\ p \in {"openai", "anthropic", "google", "ollama_cloud"}
  BY BillsAssumption
<1>2. i \in Int /\ o \in Int /\ c \in Int /\ n \in Int /\ g \in Int
  BY BillsAssumption DEF Bills!Or
<1>3. p \in {"anthropic", "ollama_cloud"} => g = o
  BY BillsAssumption DEF Bills!Or, Bills!NoRate
<1>4. Bills!OrIfNone(price.reasoning, o) = g
  BY BillsAssumption DEF Bills!Or, Bills!OrIfNone
<1>5. p # "anthropic" => u.written = 0
  BY <1>1 DEF Bills!Possible
<1>6. Bills!Bill(p, u) = u.fresh * i + u.cached * c + u.written * n + u.visible * o + u.thought * g
  BY DEF Bills!Bill
<1>7. \A b : Bills!CostFor(p, b) =
               Bills!Rounded(b.in * i + b.out * o + b.reasoning * g + b.cacheRead * c + b.cacheWrite * n)
  BY <1>4 DEF Bills!CostFor
<1> HIDE DEF i, o, c, n, g
<1>8. /\ u.fresh * i \in Int /\ u.cached * c \in Int /\ u.written * n \in Int
      /\ u.visible * o \in Int /\ u.thought * g \in Int /\ u.thought * o \in Int
      /\ (u.visible + u.thought) * o = u.visible * o + u.thought * o
      /\ 0 * g = 0 /\ 0 * n = 0
  BY <1>1, <1>2
<1> DEFINE parts(b) ==
             b.in * i + b.out * o + b.reasoning * g + b.cacheRead * c + b.cacheWrite * n
           two == Bills!Buckets(u.fresh, u.visible, u.thought, u.cached, 0)
           one == Bills!Buckets(u.fresh, u.visible + u.thought, 0, u.cached, u.written)
<1>9. parts(two) = u.fresh * i + u.visible * o + u.thought * g + u.cached * c + 0 * n
  BY DEF Bills!Buckets
<1>10. parts(one) = u.fresh * i + (u.visible + u.thought) * o + 0 * g + u.cached * c + u.written * n
  BY DEF Bills!Buckets
<1>11. p \in {"openai", "google"} => parts(two) = Bills!Bill(p, u)
  <2> HIDE DEF two
  <2>1. SUFFICES ASSUME p \in {"openai", "google"}
                 PROVE  parts(two) = Bills!Bill(p, u)
    OBVIOUS
  <2>2. u.written * n = 0
    BY <1>5, <1>8, <2>1
  <2> QED BY <1>6, <1>8, <1>9, <2>2
<1>12. p \notin {"openai", "google"} => parts(one) = Bills!Bill(p, u)
  <2> HIDE DEF one
  <2>1. SUFFICES ASSUME p \notin {"openai", "google"}
                 PROVE  parts(one) = Bills!Bill(p, u)
    OBVIOUS
  <2>2. u.thought * g = u.thought * o
    BY <1>1, <1>3, <2>1
  <2> QED BY <1>6, <1>8, <1>10, <2>2
<1>13. Bills!Extract(p, Bills!Wire(p, u, text)) = IF p \in {"openai", "google"} THEN two ELSE one
  BY BucketsAreTokens
<1>14. Bills!Bill(p, u) \in Int
  BY <1>6, <1>8
<1>15. Bills!CostFor(p, two) = Bills!Rounded(parts(two)) /\ Bills!CostFor(p, one) = Bills!Rounded(parts(one))
  <2> HIDE DEF one, two
  <2> QED BY <1>7
<1> HIDE DEF one, two, parts
<1> QED BY <1>11, <1>12, <1>13, <1>14, <1>15

LEMMA InitBills == Bills!Init => BillInv
  BY BillsAssumption DEF Bills!Init, Bills!Idle, BillInv, Off, Ended

(* A call that ends without a row leaves room for one. *)
LEMMA BillsEnd ==
  ASSUME BillInv, UNCHANGED <<paid, billed, requests>>,
         request'.pc = "idle",
         request' = [pc |-> request'.pc, provider |-> request'.provider,
                     attempt |-> request'.attempt, bill |-> request'.bill, result |-> request'.result]
  PROVE  BillInv'
<1>1. Off' = Off /\ Off \in Int /\ Unit \in Nat
  BY BillsAssumption DEF BillInv, Off
<1>2. Ended \in Int /\ Ended' \in Int /\ Ended <= Ended'
  BY DEF BillInv, Ended
<1>3. Ended * Unit <= Ended' * Unit
  BY <1>1, <1>2
<1>4. Ended * Unit \in Int /\ Ended' * Unit \in Int
  BY <1>1, <1>2
<1>5. 2 * Off' <= Ended' * Unit' /\ -2 * Off' <= Ended' * Unit'
  BY <1>1, <1>3, <1>4 DEF BillInv
<1> QED BY <1>5 DEF BillInv

LEMMA BillsBegin ==
  ASSUME BillInv, NEW p \in Providers, NEW size \in Prompts, Bills!Begin(p, size)
  PROVE  BillInv'
<1>1. /\ requests' = requests + 1 /\ UNCHANGED <<reply, paid, tally, billed>>
      /\ request.pc = "idle"
      /\ \/ request'.pc = "idle"
         \/ request'.pc = "sent" /\ request'.provider \in DOMAIN Price
      /\ request' = [pc |-> request'.pc, provider |-> request'.provider,
                     attempt |-> request'.attempt, bill |-> request'.bill, result |-> request'.result]
  BY DEF Bills!Begin, Bills!At, Bills!Finish, Bills!Idle
<1>2. Off' = Off /\ Off \in Int /\ Unit \in Nat
  BY <1>1, BillsAssumption DEF BillInv, Off
<1>3. Ended \in Int /\ Ended' \in Int /\ Ended <= Ended'
  BY <1>1 DEF BillInv, Ended
<1>4. Ended * Unit <= Ended' * Unit
  <2>1. \A x, y \in Int : x <= y => x * Unit <= y * Unit
    BY <1>2
  <2> QED BY <1>3, <2>1
<1>5. Ended * Unit \in Int /\ Ended' * Unit \in Int
  BY <1>2, <1>3
<1>6. 2 * Off' <= Ended' * Unit' /\ -2 * Off' <= Ended' * Unit'
  BY <1>2, <1>4, <1>5 DEF BillInv
<1> QED BY <1>1, <1>6 DEF BillInv

LEMMA BillsAnswer ==
  ASSUME BillInv, NEW u \in Usages, NEW text \in Bills!Texts, Bills!Answer(u, text)
  PROVE  BillInv'
<1> DEFINE w == Bills!Wire(request.provider, u, text)
<1>1. CASE request.provider = "ollama_cloud" /\ ~Bills!Accountable(w)
  BY <1>1, BillsEnd DEF Bills!Answer, Bills!Finish, Bills!Idle
<1>2. CASE ~(request.provider = "ollama_cloud" /\ ~Bills!Accountable(w))
  <2>1. /\ UNCHANGED <<paid, billed, requests>> /\ request.pc = "sent" /\ reply' = w
        /\ request' = [request EXCEPT !.pc = "answered", !.bill = Bills!Bill(request.provider, u)]
        /\ Bills!Possible(request.provider, u, text)
    BY <1>2 DEF Bills!Answer, Bills!At
  <2>2. /\ request'.pc = "answered" /\ request'.provider = request.provider
        /\ request'.bill = Bills!Bill(request.provider, u)
        /\ request' = [pc |-> request'.pc, provider |-> request'.provider,
                     attempt |-> request'.attempt, bill |-> request'.bill, result |-> request'.result]
    BY <2>1 DEF BillInv
  <2>3. Readable(u, text)'
    BY <1>2, <2>1, <2>2 DEF Readable
  <2>4. Off' = Off /\ Ended' = Ended
    BY <2>1, <2>2 DEF Off, Ended
  <2> HIDE DEF w
  <2>5. (\E v \in Usages, t \in Bills!Texts : Readable(v, t))'
    BY <2>3
  <2> QED BY <2>1, <2>2, <2>4, <2>5 DEF BillInv
<1> QED BY <1>1, <1>2

LEMMA BillsFail ==
  ASSUME BillInv, NEW transient \in BOOLEAN, Bills!Fail(transient)
  PROVE  BillInv'
<1>1. CASE transient /\ request.attempt <= CallRetries
  <2>1. /\ UNCHANGED <<paid, billed, requests, reply>> /\ request.pc = "sent"
        /\ request' = [request EXCEPT !.attempt = @ + 1]
    BY <1>1 DEF Bills!Fail, Bills!At
  <2>2. /\ request'.pc = "sent" /\ request'.provider = request.provider
        /\ request' = [pc |-> request'.pc, provider |-> request'.provider,
                     attempt |-> request'.attempt, bill |-> request'.bill, result |-> request'.result]
    BY <2>1 DEF BillInv
  <2>3. Off' = Off /\ Ended' = Ended
    BY <2>1, <2>2 DEF Off, Ended
  <2> QED BY <2>1, <2>2, <2>3 DEF BillInv
<1>2. CASE ~(transient /\ request.attempt <= CallRetries)
  BY <1>2, BillsEnd DEF Bills!Fail, Bills!Finish, Bills!Idle
<1> QED BY <1>1, <1>2

(* The row is off by half a unit at most. *)
LEMMA BillsRecord ==
  ASSUME BillInv, Bills!Record
  PROVE  BillInv'
<1>1. PICK u \in Usages, text \in Bills!Texts : Readable(u, text)
  BY DEF BillInv, Bills!Record, Bills!At
<1> DEFINE p == request.provider
           bill == request.bill
           cost == Bills!CostFor(p, Bills!Extract(p, reply))
<1>2. /\ request.pc = "answered" /\ paid' = paid + cost /\ billed' = billed + bill
      /\ requests' = requests /\ request'.pc = "idle"
      /\ request' = [pc |-> request'.pc, provider |-> request'.provider,
                     attempt |-> request'.attempt, bill |-> request'.bill, result |-> request'.result]
  BY DEF Bills!Record, Bills!At, Bills!Finish, Bills!Idle
<1>3. p \in DOMAIN Price
  BY <1>2 DEF BillInv
<1>4. bill \in Int /\ cost = Bills!Rounded(bill)
  <2> HIDE DEF p
  <2>1. /\ Bills!Possible(p, u, text) /\ reply = Bills!Wire(p, u, text) /\ bill = Bills!Bill(p, u)
        /\ p = "ollama_cloud" => Bills!Accountable(Bills!Wire(p, u, text))
    BY <1>1 DEF Readable, p
  <2> HIDE DEF bill
  <2> QED BY <1>3, <2>1, RowIsRoundedBill
<1> HIDE DEF bill, cost, p
<1>5. /\ cost \in Int
      /\ 2 * (cost * Unit) <= 2 * bill + Unit
      /\ 2 * bill - Unit <= 2 * (cost * Unit)
  BY <1>4, RoundedIsNear
<1>6. Unit \in Nat /\ paid \in Int /\ billed \in Int /\ requests \in Nat
  BY BillsAssumption DEF BillInv
<1> DEFINE a == cost * Unit
           b == paid * Unit
           n == requests * Unit
<1>7. a \in Int /\ b \in Int /\ n \in Int
  BY <1>5, <1>6
<1>8. Off = b - billed /\ Off' = (b + a) - (billed + bill)
  BY <1>2, <1>5, <1>6 DEF Off
<1>9. Ended * Unit = n - Unit /\ Ended' * Unit = n
  BY <1>2, <1>6 DEF Ended
<1>10. 2 * (b - billed) <= n - Unit /\ -2 * (b - billed) <= n - Unit
  BY <1>8, <1>9 DEF BillInv
<1> HIDE DEF a, b, n
<1>11. 2 * a <= 2 * bill + Unit /\ 2 * bill - Unit <= 2 * a
  BY <1>5 DEF a
<1>12. 2 * Off' <= Ended' * Unit' /\ -2 * Off' <= Ended' * Unit'
  BY <1>4, <1>6, <1>7, <1>8, <1>9, <1>10, <1>11
<1> QED BY <1>2, <1>4, <1>5, <1>6, <1>12 DEF BillInv

LEMMA NextBills == BillInv /\ [Bills!Next]_billVars => BillInv'
<1> SUFFICES ASSUME BillInv, [Bills!Next]_billVars
             PROVE  BillInv'
  OBVIOUS
<1>1. CASE Bills!RecordFails
  BY <1>1, BillsEnd DEF Bills!RecordFails, Bills!Finish, Bills!Idle
<1>2. CASE Bills!Restart
  BY <1>2, BillsEnd DEF Bills!Restart, Bills!Idle
<1>3. CASE UNCHANGED billVars
  BY <1>3 DEF billVars, BillInv, Off, Ended, Readable
<1> QED BY <1>1, <1>2, <1>3, BillsBegin, BillsAnswer, BillsFail, BillsRecord DEF Bills!Next

LEMMA BillsPart == ServicesNext \/ UNCHANGED all => [Bills!Next]_billVars
  BY DEF ServicesNext, Rest, all, partVars

LEMMA BillsAreOnce == BillInv => Bills!BilledOnce
<1> SUFFICES ASSUME BillInv
             PROVE  Bills!BilledOnce
  OBVIOUS
<1>1. Unit \in Nat /\ Ended \in Int /\ requests \in Nat /\ Ended <= requests /\ Off \in Int
  BY BillsAssumption DEF BillInv, Ended, Off
<1>2. Ended * Unit <= requests * Unit
  BY <1>1
<1>3. Ended * Unit \in Int /\ requests * Unit \in Int
  BY <1>1
<1>4. 2 * Off <= requests * Unit /\ -2 * Off <= requests * Unit
  BY <1>1, <1>2, <1>3 DEF BillInv
<1> QED BY <1>4 DEF Off, Bills!BilledOnce

(* For any messages, people, clicks and deadlines, and any restarts: what  *)
(* one life stored no later life stores again, and a card that shows a     *)
(* decision shows the one on record; for any tokens, prices and rounding,  *)
(* the ledger differs from the bills by half a unit for a call.            *)
THEOREM AssistantIsSound == ServicesSpec => []AssistantSound
<1>1. ServicesInit => TurnInv /\ CardInv /\ BillInv
  BY InitTurns, InitCards, InitBills DEF ServicesInit, PartsInit
<1>2. TurnInv /\ CardInv /\ BillInv /\ [ServicesNext]_all => (TurnInv /\ CardInv /\ BillInv)'
  BY NextTurns, NextCards, NextBills, TalkPart, BillsPart
<1>3. TurnInv /\ CardInv /\ BillInv => AssistantSound
  BY BillsAreOnce DEF TurnInv, CardInv, AssistantSound, Talk!ChatSound
<1> QED BY <1>1, <1>2, <1>3, PTL DEF ServicesSpec

-----------------------------------------------------------------------------
(* The placement.  What goes through a set in an order is a fold whose     *)
(* invariant, Keeps, says what holds when some of the set is done.         *)

Sides == {"buy", "sell"}
Row == [id : Nat, symbol : Grid!Coins, side : Sides, price : Nat, amount : Nat,
        status : {"pending", "open", "closed", "canceled"}, day : Nat, parent : Nat]
Trade == [at : Nat, order : Nat, symbol : Grid!Coins, side : Sides, price : Nat,
          amount : Nat, fee : Nat]

(* The orders table: an order's id is its place. *)
IsTable(os) == os \in Seq(Row) /\ \A i \in DOMAIN os : os[i].id = i

IsLedger(x) ==
    /\ x \in [usd : Int, base : [Grid!Coins -> Int], resting : SUBSET Nat, fills : SUBSET Trade,
              price : [Grid!Coins -> Int], rate : Nat, clock : Nat]
    /\ IsFiniteSet(x.fills)

(* A fill, or a recorded trade, is of its order whole. *)
IsFillOf(t, o) ==
    t.symbol = o.symbol /\ t.side = o.side /\ t.price = o.price /\ t.amount = o.amount

(* An order rests or has one fill, and the clock numbers the fills. *)
FillsMatch(os, x) ==
    /\ x.resting \subseteq DOMAIN os
    /\ \A t \in x.fills : /\ t.order \in DOMAIN os /\ t.order \notin x.resting
                          /\ IsFillOf(t, os[t.order])
                          /\ t.at <= x.clock
    /\ \A t, u \in x.fills : t.order = u.order \/ t.at = u.at => t = u

(* y is what x becomes when prices are pumped. *)
IsAfter(x, y) ==
    /\ x.fills \subseteq y.fills /\ x.clock <= y.clock
    /\ \A t \in y.fills \ x.fills : t.at > x.clock

-----------------------------------------------------------------------------
(* The last of a finite set there is. *)
LEMMA YoungestIs ==
  ASSUME NEW S, IsFiniteSet(S), S # {}, \A o \in S : o.id \in Int
  PROVE  Grid!Youngest(S) \in S /\ \A p \in S : p.id <= Grid!Youngest(S).id
<1> DEFINE v == [o \in S |-> o.id]
<1>1. \A o \in S : v[o] = o.id /\ v[o] \in Int
  OBVIOUS
<1>2. \E o \in S : \A p \in S : v[p] <= v[o]
  <2> HIDE DEF v
  <2> QED BY <1>1, HasGreatest, Finite
<1>3. \E o \in S : \A p \in S : p.id <= o.id
  BY <1>1, <1>2
<1> QED BY <1>3 DEF Grid!Youngest

LEMMA LatestIs ==
  ASSUME NEW S, IsFiniteSet(S), S # {}, \A t \in S : t.at \in Int
  PROVE  Grid!Latest(S) \in S /\ \A u \in S : u.at <= Grid!Latest(S).at
<1> DEFINE v == [t \in S |-> t.at]
<1>1. \A t \in S : v[t] = t.at /\ v[t] \in Int
  OBVIOUS
<1>2. \E t \in S : \A u \in S : v[u] <= v[t]
  <2> HIDE DEF v
  <2> QED BY <1>1, HasGreatest, Finite
<1>3. \E t \in S : \A u \in S : u.at <= t.at
  BY <1>1, <1>2
<1> QED BY <1>3 DEF Grid!Latest

LEMMA OldestIs ==
  ASSUME NEW S, IsFiniteSet(S), S # {}, \A t \in S : t.at \in Int
  PROVE  Grid!Oldest(S) \in S /\ \A u \in S : Grid!Oldest(S).at <= u.at
<1> DEFINE v == [t \in S |-> - t.at]
<1>1. \A t \in S : v[t] = - t.at /\ v[t] \in Int
  OBVIOUS
<1>2. \E t \in S : \A u \in S : v[u] <= v[t]
  <2> HIDE DEF v
  <2> QED BY <1>1, HasGreatest, Finite
<1>3. \E t \in S : \A u \in S : t.at <= u.at
  BY <1>1, <1>2
<1> QED BY <1>3 DEF Grid!Oldest

LEMMA DearestIs ==
  ASSUME NEW S, IsFiniteSet(S), S # {}, \A l \in S : l.price \in Int
  PROVE  Grid!Dearest(S) \in S /\ \A k \in S : k.price <= Grid!Dearest(S).price
<1> DEFINE v == [l \in S |-> l.price]
<1>1. \A l \in S : v[l] = l.price /\ v[l] \in Int
  OBVIOUS
<1>2. \E l \in S : \A k \in S : v[k] <= v[l]
  <2> HIDE DEF v
  <2> QED BY <1>1, HasGreatest, Finite
<1>3. \E l \in S : \A k \in S : k.price <= l.price
  BY <1>1, <1>2
<1> QED BY <1>3 DEF Grid!Dearest

(* The rows of a table are finitely many and told apart by their ids. *)
LEMMA TableIs ==
  ASSUME NEW os, IsTable(os)
  PROVE  /\ IsFiniteSet(Grid!Range(os)) /\ Grid!Range(os) \subseteq Row
         /\ DOMAIN os = 1..Len(os) /\ Len(os) \in Nat
         /\ \A o \in Grid!Range(os) : o.id \in DOMAIN os /\ os[o.id] = o
         /\ \A o, p \in Grid!Range(os) : o.id = p.id => o = p
         /\ \A i \in DOMAIN os : os[i] \in Row /\ os[i] \in Grid!Range(os) /\ os[i].id = i
<1>1. DOMAIN os = 1..Len(os) /\ Len(os) \in Nat /\ \A i \in DOMAIN os : os[i] \in Row
  BY DEF IsTable
<1>2. Grid!Range(os) = {os[i] : i \in DOMAIN os}
  BY DEF Grid!Range
<1>3. /\ \A o \in Grid!Range(os) : o.id \in DOMAIN os /\ os[o.id] = o
      /\ \A i \in DOMAIN os : os[i] \in Row /\ os[i] \in Grid!Range(os) /\ os[i].id = i
  BY <1>1, <1>2 DEF IsTable
<1>4. IsFiniteSet(Grid!Range(os))
  <2>1. IsFiniteSet(DOMAIN os)
    BY <1>1, FS_Interval
  <2> DEFINE f == [o \in Grid!Range(os) |-> o.id]
  <2>2. f \in Injection(Grid!Range(os), DOMAIN os)
    BY <1>3 DEF Injection, IsInjective
  <2> QED BY <2>1, <2>2, FS_Injection
<1>5. Grid!Range(os) \subseteq Row /\ \A o, p \in Grid!Range(os) : o.id = p.id => o = p
  BY <1>1, <1>2, <1>3
<1> QED BY <1>1, <1>3, <1>4, <1>5

-----------------------------------------------------------------------------
(* The ledger. *)
LEMMA FeeIsNat ==
  ASSUME NEW x, x.rate \in Nat, NEW cost \in Nat
  PROVE  Grid!Fee(x, cost) \in Nat
<1>1. cost * x.rate \in Nat
  OBVIOUS
<1> QED BY <1>1 DEF Grid!Fee

LEMMA AfterIsTransitive ==
  ASSUME NEW x, IsLedger(x), NEW y, IsLedger(y), NEW z, IsLedger(z),
         IsAfter(x, y), IsAfter(y, z)
  PROVE  IsAfter(x, z)
<1>1. x.clock \in Int /\ y.clock \in Int /\ z.clock \in Int
  BY DEF IsLedger
<1>2. \A t \in z.fills : t.at \in Int
  BY DEF IsLedger, Trade
<1> QED BY <1>1, <1>2 DEF IsAfter

LEMMA AfterItself ==
  ASSUME NEW x, IsLedger(x)
  PROVE  IsAfter(x, x)
  BY DEF IsLedger, IsAfter

(* One fill of an order that rests. *)
LEMMA FillKeeps ==
  ASSUME NEW os, IsTable(os), NEW x, IsLedger(x), FillsMatch(os, x),
         NEW o \in Grid!Range(os), o.id \in x.resting
  PROVE  LET y == Grid!Fill(o, x)
         IN /\ IsLedger(y) /\ FillsMatch(os, y) /\ IsAfter(x, y)
            /\ y.resting = x.resting \ {o.id}
            /\ y.price = x.price
<1> DEFINE y == Grid!Fill(o, x)
           cost == o.price * o.amount
           fee == Grid!Fee(x, cost)
           t == [at |-> x.clock + 1, order |-> o.id, symbol |-> o.symbol, side |-> o.side,
                 price |-> o.price, amount |-> o.amount, fee |-> fee]
<1>1. o \in Row /\ o.id \in DOMAIN os /\ os[o.id] = o
  BY TableIs
<1>2. cost \in Nat
  BY <1>1 DEF Row
<1>3. fee \in Nat
  <2> HIDE DEF cost
  <2> QED BY <1>2, FeeIsNat DEF IsLedger
<1>4. /\ y.fills = x.fills \union {t} /\ y.resting = x.resting \ {o.id}
      /\ y.clock = x.clock + 1 /\ y.price = x.price /\ y.rate = x.rate
      /\ y = [usd |-> y.usd, base |-> y.base, resting |-> y.resting, fills |-> y.fills,
              price |-> y.price, rate |-> y.rate, clock |-> y.clock]
      /\ y.usd = IF o.side = "buy" THEN x.usd - cost - fee ELSE x.usd + cost - fee
      /\ y.base = [x.base EXCEPT ![o.symbol] = IF o.side = "buy" THEN @ + o.amount
                                               ELSE @ - o.amount]
  <2>1. x = [usd |-> x.usd, base |-> x.base, resting |-> x.resting, fills |-> x.fills,
             price |-> x.price, rate |-> x.rate, clock |-> x.clock]
    BY DEF IsLedger
  <2> DEFINE usd == IF o.side = "buy" THEN x.usd - cost - fee ELSE x.usd + cost - fee
             base == [x.base EXCEPT ![o.symbol] = IF o.side = "buy" THEN @ + o.amount
                                                  ELSE @ - o.amount]
  <2>2. y = [x EXCEPT !.usd = usd, !.base = base, !.resting = @ \ {o.id}, !.clock = @ + 1,
                      !.fills = @ \union {t}]
    BY DEF Grid!Fill
  <2> HIDE DEF y, usd, base, t
  <2>3. y = [usd |-> usd, base |-> base, resting |-> x.resting \ {o.id},
             fills |-> x.fills \union {t}, price |-> x.price, rate |-> x.rate,
             clock |-> x.clock + 1]
    BY <2>1, <2>2
  <2> QED BY <2>3 DEF usd, base
<1> HIDE DEF y, cost, fee
<1>5. t \in Trade
  BY <1>1, <1>3 DEF IsLedger, Row, Trade
<1>6. y.usd \in Int /\ y.base \in [Grid!Coins -> Int]
  BY <1>1, <1>2, <1>3, <1>4 DEF IsLedger, Row
<1>7. IsFiniteSet(y.fills)
  <2>1. IsFiniteSet(x.fills)
    BY DEF IsLedger
  <2> HIDE DEF t
  <2> QED BY <1>4, <2>1, FS_AddElement
<1>8. IsLedger(y)
  <2>1. y.resting \subseteq Nat /\ y.fills \subseteq Trade /\ y.price \in [Grid!Coins -> Int]
        /\ y.rate \in Nat /\ y.clock \in Nat
    BY <1>4, <1>5 DEF IsLedger
  <2> QED BY <1>4, <1>6, <1>7, <2>1 DEF IsLedger
<1>9. \A u \in x.fills : u.order # o.id /\ u.at < x.clock + 1 /\ u.at \in Int
  BY DEF FillsMatch, IsLedger, Trade
<1>10. IsFillOf(t, o)
  BY DEF IsFillOf
<1>11. FillsMatch(os, y)
  <2>1. y.resting \subseteq DOMAIN os
    BY <1>4 DEF FillsMatch
  <2>2. \A u \in y.fills : /\ u.order \in DOMAIN os /\ u.order \notin y.resting
                           /\ IsFillOf(u, os[u.order]) /\ u.at <= y.clock
    BY <1>1, <1>4, <1>9, <1>10 DEF FillsMatch, IsLedger
  <2>3. \A u, v \in y.fills : u.order = v.order \/ u.at = v.at => u = v
    BY <1>4, <1>9 DEF FillsMatch, IsLedger
  <2> QED BY <2>1, <2>2, <2>3 DEF FillsMatch
<1>12. IsAfter(x, y)
  BY <1>4 DEF IsAfter, IsLedger
<1> QED BY <1>4, <1>8, <1>11, <1>12 DEF y

(* All that a price crosses. *)
Filled(p, D, v) ==
    /\ IsLedger(v) /\ FillsMatch(p.rows, v) /\ IsAfter(p.from, v)
    /\ v.resting = p.from.resting \ {d.id : d \in D}
    /\ v.price = p.from.price

Fills == INSTANCE FiniteSums WITH Step <- Grid!Fill, Final <- Grid!Youngest, Keeps <- Filled

LEMMA MatchOpenOrdersKeeps ==
  ASSUME NEW os, IsTable(os), NEW x, IsLedger(x), FillsMatch(os, x), NEW s
  PROVE  LET y == Grid!MatchOpenOrders(x, os, s)
         IN IsLedger(y) /\ FillsMatch(os, y) /\ IsAfter(x, y) /\ y.price = x.price
<1> DEFINE S == Grid!Crossed(x, os, s)
           p == [rows |-> os, from |-> x]
<1>1. S \subseteq Grid!Range(os) /\ \A o \in S : o.id \in x.resting
  BY DEF Grid!Crossed, Grid!Of
<1>2. IsFiniteSet(S) /\ \A o \in S : o.id \in Int
  BY <1>1, TableIs, FS_Subset DEF Row
<1>3. Fills!IsFoldable(S)
  <2>1. Fills!AllowsInduction(S)
    <3> HIDE DEF S
    <3> QED BY <1>2, Finite, Zenon DEF AllowsInduction, Fills!AllowsInduction
  <2>2. \A T \in SUBSET S : T # {} => Grid!Youngest(T) \in T
    BY <1>2, FS_Subset, YoungestIs
  <2> QED BY <2>1, <2>2 DEF Fills!IsFoldable
<1>4. Filled(p, {}, x)
  BY AfterItself DEF Filled
<1>5. ASSUME NEW D \in SUBSET S, NEW o \in S, NEW v, o \notin D, Filled(p, D, v)
      PROVE  Filled(p, D \union {o}, Grid!Fill(o, v))
  <2>1. IsLedger(v) /\ FillsMatch(os, v) /\ IsAfter(x, v) /\ v.price = x.price
        /\ v.resting = x.resting \ {d.id : d \in D}
    BY <1>5 DEF Filled
  <2>2. o.id \in v.resting
    <3>1. \A d \in D : d.id # o.id
      BY <1>1, <1>5, TableIs
    <3> QED BY <1>1, <2>1, <3>1
  <2> DEFINE y == Grid!Fill(o, v)
  <2>3. /\ IsLedger(y) /\ FillsMatch(os, y) /\ IsAfter(v, y)
        /\ y.resting = v.resting \ {o.id} /\ y.price = v.price
    <3>1. o \in Grid!Range(os)
      BY <1>1
    <3> QED BY <2>1, <2>2, <3>1, FillKeeps
  <2> HIDE DEF y
  <2>4. IsAfter(x, y)
    BY <2>1, <2>3, AfterIsTransitive
  <2>5. y.resting = x.resting \ {d.id : d \in D \union {o}}
    BY <2>1, <2>3
  <2>6. Filled(p, D \union {o}, y)
    BY <2>1, <2>3, <2>4, <2>5 DEF Filled
  <2> QED BY <2>6 DEF y
<1>6. Filled(p, S, Fills!Fold(x, S))
  <2>1. \A D \in SUBSET S, o \in S : \A v :
           (o \notin D /\ Grid!Youngest(D \union {o}) = o /\ Filled(p, D, v))
              => Filled(p, D \union {o}, Grid!Fill(o, v))
    BY <1>5
  <2> HIDE DEF S, p
  <2> QED BY <1>3, <1>4, <2>1, Fills!FoldKeeps
<1>7. Grid!MatchOpenOrders(x, os, s) = Fills!Fold(x, S)
  BY Zenon DEF Grid!MatchOpenOrders, Grid!InOrder, Grid!MapThenFoldSet, Fills!Fold, Fills!MapThenFoldSet
<1> QED BY <1>6, <1>7 DEF Filled

LEMMA PumpKeeps ==
  ASSUME NEW os, IsTable(os), NEW x, IsLedger(x), FillsMatch(os, x),
         NEW s \in Grid!Coins, NEW price \in Int
  PROVE  LET y == Grid!Pump(x, os, s, price)
         IN IsLedger(y) /\ FillsMatch(os, y) /\ IsAfter(x, y)
<1> DEFINE z == [x EXCEPT !.price[s] = price]
<1>1. IsLedger(z)
  BY DEF IsLedger
<1>2. /\ z.fills = x.fills /\ z.resting = x.resting /\ z.clock = x.clock
  BY DEF IsLedger
<1>3. FillsMatch(os, z)
  BY <1>2 DEF FillsMatch
<1> DEFINE y == Grid!MatchOpenOrders(z, os, s)
<1>4. IsLedger(y) /\ FillsMatch(os, y) /\ IsAfter(z, y)
  <2> HIDE DEF z
  <2> QED BY <1>1, <1>3, MatchOpenOrdersKeeps
<1>5. y = Grid!Pump(x, os, s, price)
  BY DEF Grid!Pump
<1>6. IsAfter(x, y)
  <2> HIDE DEF y, z
  <2> QED BY <1>2, <1>4 DEF IsAfter
<1> QED BY <1>4, <1>5, <1>6

-----------------------------------------------------------------------------
(* The orders of a coin are on the grid of its anchor; a is what the step  *)
(* makes of the anchors.                                                   *)

Delta(a, s) == Grid!GridSpacing(a[s], SpacingPercent)

LowestPrice(a, s, side) ==
    a[s] - Below * Delta(a, s) + (IF side = "sell" THEN Delta(a, s) ELSE 0)

OnGrid(a, o) ==
    /\ o.symbol \in Grid!Coins /\ a[o.symbol] # 0
    /\ o.side \in Sides /\ o.price \in Int
    /\ o.price >= LowestPrice(a, o.symbol, o.side)

(* Without the ceiling of TopSell, an order is of one level of the grid:   *)
(* it has the amount of that level, and its price or that of its counter.  *)
IsOfLevel(a, o, l) ==
    /\ o.amount = OrderSize \div l.price
    /\ o.price = IF o.side = l.side THEN l.price
                 ELSE IF l.side = "buy" THEN l.price + Delta(a, o.symbol)
                 ELSE l.price - Delta(a, o.symbol)

HasLevel(a, o) ==
    TopSell \/ \E l \in Grid!GridLevels(o.symbol, a[o.symbol], SpacingPercent, Above, Below) :
                  IsOfLevel(a, o, l)

(* A counter has the coin and the amount of what it is the counter of.     *)
HasParent(os, o) ==
    o.parent = 0 \/ /\ o.parent \in DOMAIN os
                    /\ os[o.parent].symbol = o.symbol
                    /\ os[o.parent].amount = o.amount
                    /\ os[o.parent].side # o.side

IsBook(a, os) ==
    /\ IsTable(os)
    /\ \A i \in DOMAIN os : /\ OnGrid(a, os[i]) /\ HasLevel(a, os[i])
                            /\ HasParent(os, os[i])
                            /\ os[i].day <= day

(* The recorded trades, and that a fill not yet recorded is later than     *)
(* those of its coin.                                                      *)
TradesMatch(os, ts, x) ==
    /\ ts \subseteq Trade /\ IsFiniteSet(ts)
    /\ \A t \in ts : t.order \in DOMAIN os /\ IsFillOf(t, os[t.order]) /\ t.at <= x.clock
    /\ \A t \in ts, u \in ts \union x.fills : t.at = u.at => t = u
    /\ \A t \in ts, u \in x.fills :
          os[u.order].status = "open" /\ u.symbol = t.symbol => t.at < u.at

(* The guard remembers no basis but that of the recorded trades. *)
BasisIsKnown(c, ts) ==
    /\ c = [s \in Grid!Coins |-> c[s]]
    /\ \A s \in Grid!Coins : c[s] \subseteq {Grid!ReplayAverageCost(Grid!Of(s, ts))}

IsDesk(a, w) ==
    /\ w = [x |-> w.x, orders |-> w.orders, trades |-> w.trades, cache |-> w.cache,
            placed |-> w.placed]
    /\ IsBook(a, w.orders) /\ IsLedger(w.x) /\ FillsMatch(w.orders, w.x)
    /\ TradesMatch(w.orders, w.trades, w.x)
    /\ BasisIsKnown(w.cache, w.trades)
    /\ w.placed \in Nat

Anchors == [Grid!Coins -> Nat]

-----------------------------------------------------------------------------
(* The lowest level of a grid is above 0. *)
LEMMA GridIsAboveZero ==
  ASSUME NEW a \in Anchors, NEW s \in Grid!Coins, a[s] # 0
  PROVE  /\ Delta(a, s) \in Nat /\ Below * Delta(a, s) \in Nat
         /\ a[s] - Below * Delta(a, s) > 0
         /\ \A n \in 1..Below : n * Delta(a, s) <= Below * Delta(a, s)
         /\ \A n \in Nat : n * Delta(a, s) \in Nat
<1> DEFINE r == a[s]
           d == Delta(a, s)
           b == Below
           c == SpacingPercent
<1>1. r \in Nat /\ r > 0 /\ b \in Nat /\ b > 0 /\ c \in Nat /\ c > 0 /\ b * c < 100
  BY PlacementAssumption DEF Anchors
<1>2. d = (r * c) \div 100
  BY DEF Delta, Grid!GridSpacing
<1> HIDE DEF r, d, b, c
<1>3. r * c \in Nat
  BY <1>1
<1>4. d \in Nat /\ 100 * d <= r * c
  BY <1>2, <1>3
<1>5. b * d \in Nat
  BY <1>1, <1>4
<1>6. 100 * (b * d) <= r * (b * c)
  <2>1. b * (100 * d) <= b * (r * c)
    BY <1>1, <1>3, <1>4
  <2>2. b * (100 * d) = 100 * (b * d) /\ b * (r * c) = r * (b * c)
    BY <1>1, <1>4
  <2> QED BY <2>1, <2>2
<1>7. r * (b * c) <= r * 99
  <2>1. b * c \in Nat /\ b * c <= 99
    BY <1>1
  <2> HIDE <1>4, <1>6
  <2> QED BY <1>1, <2>1
<1>8. r - b * d > 0
  <2> DEFINE e == b * d
             f == r * (b * c)
  <2>1. e \in Nat /\ 100 * e <= f /\ f <= r * 99
    BY <1>5, <1>6, <1>7
  <2>2. f \in Int
    BY <1>1
  <2> HIDE DEF e, f
  <2>3. r - e > 0
    BY <1>1, <2>1, <2>2
  <2> QED BY <2>3 DEF e
<1>9. \A n \in 1..b : n * d <= b * d
  BY <1>1, <1>4
<1>10. \A n \in Nat : n * d \in Nat
  BY <1>4
<1> QED BY <1>4, <1>5, <1>8, <1>9, <1>10 DEF r, d, b

LEMMA LevelsAreOnGrid ==
  ASSUME NEW a \in Anchors, NEW s \in Grid!Coins, a[s] # 0,
         NEW l \in Grid!GridLevels(s, a[s], SpacingPercent, Above, Below)
  PROVE  /\ l = [symbol |-> s, side |-> l.side, price |-> l.price]
         /\ OnGrid(a, l) /\ l.price \in Nat \ {0}
<1> DEFINE d == Delta(a, s)
<1>1. PICK n \in Nat :
         \/ n \in 1..Below /\ l = Grid!Level(s, "buy", a[s] - n * d)
         \/ n \in 1..Above /\ l = Grid!Level(s, "sell", a[s] + n * d)
  BY PlacementAssumption DEF Grid!GridLevels, Delta
<1>2. a[s] \in Nat /\ Below \in Nat /\ d \in Nat /\ n * d \in Nat /\ Below * d \in Nat
      /\ a[s] - Below * d > 0
  BY PlacementAssumption, GridIsAboveZero DEF Anchors
<1>3. CASE n \in 1..Below /\ l = Grid!Level(s, "buy", a[s] - n * d)
  <2>1. n * d <= Below * d
    BY <1>3, GridIsAboveZero
  <2>2. l.symbol = s /\ l.side = "buy" /\ l.price = a[s] - n * d
    BY <1>3 DEF Grid!Level
  <2>3. l = [symbol |-> s, side |-> l.side, price |-> l.price]
    BY <1>3, <2>2 DEF Grid!Level
  <2>4. l.price \in Int /\ l.price >= LowestPrice(a, s, "buy") /\ l.price > 0
    <3> DEFINE e == n * d
               f == Below * d
    <3>1. e \in Nat /\ f \in Nat /\ e <= f /\ a[s] - f > 0
      BY <1>2, <2>1
    <3> HIDE DEF e, f
    <3>2. a[s] - e \in Int /\ a[s] - e >= a[s] - f + 0 /\ a[s] - e > 0
      BY <1>2, <3>1
    <3> QED BY <2>2, <3>2 DEF LowestPrice, e, f
  <2> QED BY <2>2, <2>3, <2>4 DEF OnGrid, Sides
<1>4. CASE n \in 1..Above /\ l = Grid!Level(s, "sell", a[s] + n * d)
  <2>1. l.symbol = s /\ l.side = "sell" /\ l.price = a[s] + n * d
    BY <1>4 DEF Grid!Level
  <2>2. l = [symbol |-> s, side |-> l.side, price |-> l.price]
    BY <1>4, <2>1 DEF Grid!Level
  <2>3. Below * d >= d
    <3>1. 1 * d <= Below * d
      BY PlacementAssumption, GridIsAboveZero
    <3> QED BY <1>2, <3>1
  <2>4. l.price \in Int /\ l.price >= LowestPrice(a, s, "sell") /\ l.price > 0
    <3> DEFINE e == n * d
               f == Below * d
    <3>1. e \in Nat /\ f \in Nat /\ f >= d /\ a[s] - f > 0
      BY <1>2, <2>3
    <3> HIDE DEF e, f
    <3>2. a[s] + e \in Int /\ a[s] + e >= a[s] - f + d /\ a[s] + e > 0
      BY <1>2, <3>1
    <3> QED BY <2>1, <3>2 DEF LowestPrice, e, f
  <2> QED BY <2>1, <2>2, <2>4 DEF OnGrid, Sides
<1> QED BY <1>1, <1>3, <1>4

LEMMA OnGridIsAboveZero ==
  ASSUME NEW a \in Anchors, NEW o, OnGrid(a, o)
  PROVE  o.price \in Nat /\ o.price > 0
<1> DEFINE s == o.symbol
           d == Delta(a, s)
<1>1. s \in Grid!Coins /\ a[s] \in Nat /\ a[s] # 0 /\ o.price \in Int
      /\ o.price >= LowestPrice(a, s, o.side)
  BY DEF OnGrid, Anchors
<1>2. d \in Nat /\ Below * d \in Nat /\ a[s] - Below * d > 0
  BY <1>1, GridIsAboveZero
<1>3. LowestPrice(a, s, o.side) > 0 /\ LowestPrice(a, s, o.side) \in Int
  <2> DEFINE f == Below * d
             e == IF o.side = "sell" THEN d ELSE 0
  <2>1. f \in Nat /\ e \in Nat /\ a[s] - f > 0
    BY <1>2
  <2> HIDE DEF e, f
  <2>2. a[s] - f + e > 0 /\ a[s] - f + e \in Int
    BY <1>1, <2>1
  <2> QED BY <2>2 DEF LowestPrice, e, f
<1> QED BY <1>1, <1>3

-----------------------------------------------------------------------------
(* One order more. *)
LEMMA AppendIs ==
  ASSUME NEW os, IsTable(os), NEW o \in Row, o.id = Len(os) + 1
  PROVE  LET v == Append(os, o)
         IN /\ IsTable(v)
            /\ DOMAIN v = DOMAIN os \union {o.id} /\ o.id \notin DOMAIN os
            /\ v[o.id] = o /\ \A i \in DOMAIN os : v[i] = os[i]
            /\ Grid!Range(v) = Grid!Range(os) \union {o}
<1> DEFINE v == Append(os, o)
<1>1. os \in Seq(Row) /\ Len(os) \in Nat /\ DOMAIN os = 1..Len(os)
  BY DEF IsTable
<1>2. /\ v \in Seq(Row) /\ Len(v) = Len(os) + 1 /\ DOMAIN v = 1..(Len(os) + 1)
      /\ v[Len(os) + 1] = o /\ \A i \in 1..Len(os) : v[i] = os[i]
  BY <1>1
<1> HIDE DEF v
<1>3. 1..(Len(os) + 1) = 1..Len(os) \union {Len(os) + 1} /\ Len(os) + 1 \notin 1..Len(os)
  BY <1>1
<1>4. IsTable(v)
  BY <1>1, <1>2, <1>3 DEF IsTable
<1>5. Grid!Range(v) = Grid!Range(os) \union {o}
  <2>1. Grid!Range(v) = {v[i] : i \in DOMAIN v} /\ Grid!Range(os) = {os[i] : i \in DOMAIN os}
    BY DEF Grid!Range
  <2> QED BY <1>1, <1>2, <1>3, <2>1
<1> QED BY <1>1, <1>2, <1>3, <1>4, <1>5 DEF v

LEMMA AppendKeepsBook ==
  ASSUME NEW a, NEW os, IsBook(a, os), NEW o \in Row, o.id = Len(os) + 1,
         OnGrid(a, o), HasLevel(a, o), HasParent(os, o), o.day <= day
  PROVE  IsBook(a, Append(os, o))
<1> DEFINE v == Append(os, o)
<1>1. IsTable(os) /\ \A i \in DOMAIN os : /\ OnGrid(a, os[i]) /\ HasLevel(a, os[i])
                                          /\ HasParent(os, os[i]) /\ os[i].day <= day
  BY DEF IsBook
<1>2. /\ IsTable(v) /\ DOMAIN v = DOMAIN os \union {o.id}
      /\ v[o.id] = o /\ \A i \in DOMAIN os : v[i] = os[i]
  BY <1>1, AppendIs
<1> HIDE DEF v
<1>3. ASSUME NEW r, HasParent(os, r)
      PROVE  HasParent(v, r)
  BY <1>2, <1>3 DEF HasParent
<1>4. QED BY <1>1, <1>2, <1>3 DEF IsBook, v

(* What accepting an order does to the ledger. *)
LEMMA AcceptKeeps ==
  ASSUME NEW os, IsTable(os), NEW x, IsLedger(x), FillsMatch(os, x),
         NEW o \in Row, o.id = Len(os) + 1
  PROVE  LET y == Grid!Accept(x, os, o)
         IN IsLedger(y) /\ FillsMatch(Append(os, o), y) /\ IsAfter(x, y)
<1> DEFINE z == [x EXCEPT !.resting = @ \union {o.id}]
           v == Append(os, o)
           y == Grid!MatchOpenOrders(z, v, o.symbol)
<1>1. /\ IsTable(v) /\ DOMAIN v = DOMAIN os \union {o.id} /\ o.id \notin DOMAIN os
      /\ \A i \in DOMAIN os : v[i] = os[i]
  BY AppendIs
<1> HIDE DEF v
<1>2. /\ z.fills = x.fills /\ z.resting = x.resting \union {o.id} /\ z.clock = x.clock
  BY DEF IsLedger
<1>3. IsLedger(z)
  <2>1. o.id \in Nat
    BY DEF Row
  <2> QED BY <2>1 DEF IsLedger
<1> HIDE DEF z
<1>4. FillsMatch(v, z)
  BY <1>1, <1>2 DEF FillsMatch
<1>5. IsLedger(y) /\ FillsMatch(v, y) /\ IsAfter(z, y)
  BY <1>1, <1>3, <1>4, MatchOpenOrdersKeeps
<1>6. IsAfter(x, y)
  <2> HIDE DEF y
  <2> QED BY <1>2, <1>5 DEF IsAfter
<1>7. y = Grid!Accept(x, os, o)
  BY DEF Grid!Accept, z, v
<1> QED BY <1>5, <1>6, <1>7 DEF v

(* The rows matter to the fills but for the status. *)
LEMMA FillsMatchRows ==
  ASSUME NEW os, NEW v, NEW x, FillsMatch(os, x), DOMAIN v = DOMAIN os,
         \A i \in DOMAIN os : /\ v[i].symbol = os[i].symbol /\ v[i].side = os[i].side
                              /\ v[i].price = os[i].price /\ v[i].amount = os[i].amount
  PROVE  FillsMatch(v, x)
<1>1. ASSUME NEW t \in x.fills
      PROVE  t.order \in DOMAIN os /\ (IsFillOf(t, os[t.order]) <=> IsFillOf(t, v[t.order]))
  BY DEF FillsMatch, IsFillOf
<1> QED BY <1>1 DEF FillsMatch

(* The trades, of a later ledger. *)
LEMMA TradesMatchAfter ==
  ASSUME NEW os, NEW ts, NEW x, IsLedger(x), TradesMatch(os, ts, x),
         NEW y, IsLedger(y), IsAfter(x, y)
  PROVE  TradesMatch(os, ts, y)
<1>1. \A t \in ts : t.at \in Nat /\ t.at <= x.clock
  BY DEF TradesMatch, Trade
<1>2. \A u \in y.fills : u.at \in Nat /\ (u \in x.fills \/ u.at > x.clock)
  BY DEF IsLedger, IsAfter, Trade
<1>3. x.clock \in Nat /\ y.clock \in Nat /\ x.clock <= y.clock
  BY DEF IsLedger, IsAfter
<1>4. \A t \in ts : t.order \in DOMAIN os /\ IsFillOf(t, os[t.order]) /\ t.at <= y.clock
  BY <1>1, <1>3 DEF TradesMatch
<1>5. \A t \in ts, u \in ts \union y.fills : t.at = u.at => t = u
  <2> SUFFICES ASSUME NEW t \in ts, NEW u \in ts \union y.fills, t.at = u.at
               PROVE  t = u
    OBVIOUS
  <2>1. CASE u \in ts \union x.fills
    BY <2>1 DEF TradesMatch
  <2>2. CASE u \notin ts \union x.fills
    BY <2>2, <1>1, <1>2, <1>3
  <2> QED BY <2>1, <2>2
<1>6. ASSUME NEW t \in ts, NEW u \in y.fills, os[u.order].status = "open", u.symbol = t.symbol
      PROVE  t.at < u.at
  <2>1. CASE u \in x.fills
    BY <2>1, <1>6 DEF TradesMatch
  <2>2. CASE u \notin x.fills
    BY <2>2, <1>1, <1>2, <1>3
  <2> QED BY <2>1, <2>2
<1> QED BY <1>4, <1>5, <1>6 DEF TradesMatch

LEMMA PlaceLevelKeeps ==
  ASSUME NEW a, \A s \in Grid!Coins : tape[s] \in Int, NEW w, IsDesk(a, w),
         NEW o \in Row, o.id = Len(w.orders) + 1, o.day <= day,
         OnGrid(a, o), HasLevel(a, o), HasParent(w.orders, o)
  PROVE  LET v == Grid!PlaceLevel(w, o)
         IN /\ IsDesk(a, v) /\ v.trades = w.trades /\ v.cache = w.cache
            /\ \/ v.orders = w.orders /\ v.placed = w.placed
               \/ \E status \in {"open", "closed"} :
                     /\ v.orders = Append(w.orders, [o EXCEPT !.status = status])
                     /\ v.placed = w.placed + 1
<1> DEFINE os == w.orders
           pumped == Grid!Pump(w.x, os, o.symbol, tape[o.symbol])
           priced == Grid!Priced(w.x, os, o, tape[o.symbol], MakerFee, TakerFee)
           x == Grid!Accept(priced, os, o)
           status == IF o.id \in x.resting THEN "open" ELSE "closed"
           r == [o EXCEPT !.status = status]
           v == Grid!PlaceLevel(w, o)
<1>1. /\ IsBook(a, os) /\ IsTable(os) /\ IsLedger(w.x) /\ FillsMatch(os, w.x)
      /\ TradesMatch(os, w.trades, w.x) /\ BasisIsKnown(w.cache, w.trades) /\ w.placed \in Nat
  BY DEF IsDesk, IsBook
<1>2. o.symbol \in Grid!Coins /\ tape[o.symbol] \in Int
  BY DEF Row
<1>3. IsLedger(pumped) /\ FillsMatch(os, pumped) /\ IsAfter(w.x, pumped)
  BY <1>1, <1>2, PumpKeeps
<1>4. IsLedger(priced) /\ FillsMatch(os, priced) /\ IsAfter(w.x, priced)
  <2> DEFINE rate == IF Grid!Marketable(o, tape[o.symbol]) THEN TakerFee ELSE MakerFee
  <2>1. rate \in Nat
    BY PlacementAssumption
  <2>2. priced = [pumped EXCEPT !.rate = rate]
    BY DEF Grid!Priced
  <2> HIDE DEF rate, pumped, priced
  <2>3. /\ priced.fills = pumped.fills /\ priced.resting = pumped.resting
        /\ priced.clock = pumped.clock
    BY <1>3, <2>2 DEF IsLedger
  <2>4. IsLedger(priced)
    BY <1>3, <2>1, <2>2 DEF IsLedger
  <2> QED BY <1>3, <2>3, <2>4 DEF FillsMatch, IsAfter
<1> HIDE DEF pumped, priced
<1>5. IsLedger(x) /\ FillsMatch(Append(os, o), x) /\ IsAfter(priced, x)
  BY <1>1, <1>4, AcceptKeeps
<1> HIDE DEF x
<1>6. IsAfter(w.x, x)
  BY <1>1, <1>4, <1>5, AfterIsTransitive
<1>7. v = IF Grid!Affordable(priced, o)
          THEN [w EXCEPT !.x = x, !.orders = Append(os, r), !.placed = @ + 1]
          ELSE [w EXCEPT !.x = priced]
  BY DEF Grid!PlaceLevel, Grid!Tally, IsDesk, x, priced
<1> HIDE DEF v, status
<1>8. CASE ~ Grid!Affordable(priced, o)
  <2>1. v = [w EXCEPT !.x = priced]
    BY <1>7, <1>8
  <2>2. /\ v.x = priced /\ v.orders = os /\ v.trades = w.trades /\ v.cache = w.cache
        /\ v.placed = w.placed
        /\ v = [x |-> v.x, orders |-> v.orders, trades |-> v.trades, cache |-> v.cache,
                placed |-> v.placed]
    BY <2>1 DEF IsDesk
  <2>3. TradesMatch(os, w.trades, priced)
    BY <1>1, <1>4, TradesMatchAfter
  <2>4. IsDesk(a, v)
    BY <1>1, <1>4, <2>2, <2>3 DEF IsDesk
  <2> QED BY <2>2, <2>4 DEF v
<1>9. CASE Grid!Affordable(priced, o)
  <2>1. v = [w EXCEPT !.x = x, !.orders = Append(os, r), !.placed = @ + 1]
    BY <1>7, <1>9
  <2>2. /\ v.x = x /\ v.orders = Append(os, r) /\ v.trades = w.trades /\ v.cache = w.cache
        /\ v.placed = w.placed + 1
        /\ v = [x |-> v.x, orders |-> v.orders, trades |-> v.trades, cache |-> v.cache,
                placed |-> v.placed]
    BY <2>1 DEF IsDesk
  <2>3. /\ r \in Row /\ r.id = o.id /\ r.symbol = o.symbol /\ r.side = o.side
        /\ r.price = o.price /\ r.amount = o.amount /\ r.parent = o.parent /\ r.day = o.day
    BY DEF Row, status
  <2> HIDE DEF r
  <2>4. IsBook(a, Append(os, r))
    <3>1. OnGrid(a, r) /\ HasLevel(a, r) /\ HasParent(os, r)
      BY <2>3 DEF OnGrid, HasLevel, IsOfLevel, HasParent
    <3> QED BY <1>1, <2>3, <3>1, AppendKeepsBook
  <2>5. /\ DOMAIN Append(os, o) = DOMAIN os \union {o.id} /\ Append(os, o)[o.id] = o
        /\ \A i \in DOMAIN os : Append(os, o)[i] = os[i]
        /\ DOMAIN Append(os, r) = DOMAIN os \union {o.id} /\ Append(os, r)[o.id] = r
        /\ \A i \in DOMAIN os : Append(os, r)[i] = os[i]
        /\ o.id \notin DOMAIN os
    BY <1>1, <2>3, AppendIs
  <2>6. FillsMatch(Append(os, r), x)
    <3> DEFINE p == Append(os, o)
               q == Append(os, r)
    <3>1. /\ DOMAIN q = DOMAIN p
          /\ \A i \in DOMAIN p : /\ q[i].symbol = p[i].symbol /\ q[i].side = p[i].side
                                /\ q[i].price = p[i].price /\ q[i].amount = p[i].amount
      BY <2>3, <2>5
    <3>2. FillsMatch(p, x)
      BY <1>5
    <3> HIDE DEF p, q
    <3>3. FillsMatch(q, x)
      BY <3>1, <3>2, FillsMatchRows
    <3> QED BY <3>3 DEF q
  <2>7. TradesMatch(os, w.trades, x)
    BY <1>1, <1>5, <1>6, TradesMatchAfter
  <2>8. TradesMatch(Append(os, r), w.trades, x)
    <3>1. \A t \in w.trades : /\ t.order \in DOMAIN os /\ Append(os, r)[t.order] = os[t.order]
                              /\ t.at \in Int /\ t.at <= w.x.clock
      BY <1>1, <2>5 DEF TradesMatch, Trade
    <3>2. \A u \in x.fills : \/ u.order \in DOMAIN os /\ Append(os, r)[u.order] = os[u.order]
                             \/ u.at > w.x.clock
      BY <1>1, <1>6, <2>5 DEF IsAfter, FillsMatch
    <3>3. w.x.clock \in Int /\ \A u \in x.fills : u.at \in Int
      BY <1>1, <1>5 DEF IsLedger, Trade
    <3>4. \A t \in w.trades, u \in x.fills :
             Append(os, r)[u.order].status = "open" /\ u.symbol = t.symbol => t.at < u.at
      BY <2>7, <3>1, <3>2, <3>3 DEF TradesMatch
    <3> QED BY <2>5, <2>7, <3>1, <3>4 DEF TradesMatch
  <2>9. IsDesk(a, v)
    BY <1>1, <1>5, <2>2, <2>4, <2>6, <2>8 DEF IsDesk
  <2>10. status \in {"open", "closed"}
    BY DEF status
  <2> QED BY <2>2, <2>9, <2>10 DEF v, r
<1> QED BY <1>8, <1>9

-----------------------------------------------------------------------------
(* Sums of the placement. *)
LEMMA SumOfIs == \A w : Grid!SumOf(w) = Total(w, DOMAIN w)
  BY Zenon DEF Grid!SumOf, Grid!MapThenSumSet, Grid!MapThenFoldSet, Total, First, MapThenFoldSet

Money == [o \in Row |-> o.price * o.amount]

LEMMA MoneyIsNat == \A o \in Row : Money[o] = o.price * o.amount /\ Money[o] \in Nat
<1> SUFFICES ASSUME NEW o \in Row
             PROVE  o.price * o.amount \in Nat
  BY DEF Money
<1>1. o.price \in Nat /\ o.amount \in Nat
  BY DEF Row
<1> QED BY <1>1

LEMMA NotionalIs ==
  ASSUME NEW S, IsFiniteSet(S), S \subseteq Row
  PROVE  Grid!Notional(S) = Total(Money, S) /\ Grid!Notional(S) \in Nat
<1> DEFINE v == [o \in S |-> o.price * o.amount]
<1>1. Grid!Notional(S) = Total(v, DOMAIN v) /\ DOMAIN v = S
  BY SumOfIs DEF Grid!Notional
<1>2. \A o \in S : v[o] = Money[o]
  BY MoneyIsNat
<1>3. Total(v, S) = Total(Money, S)
  <2> HIDE DEF v
  <2> QED BY <1>2, TotalSame, Finite
<1>4. Total(Money, S) \in Nat
  BY MoneyIsNat, TotalNat, Finite
<1> QED BY <1>1, <1>3, <1>4

LEMMA NotionalAdd ==
  ASSUME NEW S, IsFiniteSet(S), S \subseteq Row, NEW o \in Row, o \notin S
  PROVE  Grid!Notional(S \union {o}) = Grid!Notional(S) + o.price * o.amount
<1> DEFINE R == S \union {o}
<1>1. IsFiniteSet(R) /\ R \subseteq Row
  BY FS_AddElement
<1>2. Total(Money, S \union {o}) = Money[o] + Total(Money, S)
  BY <1>1, MoneyIsNat, TotalAdd, Finite
<1>3. Grid!Notional(R) = Total(Money, R) /\ Grid!Notional(S) = Total(Money, S) /\ Grid!Notional(S) \in Nat
  <2> HIDE DEF R
  <2> QED BY <1>1, NotionalIs
<1> QED BY <1>2, <1>3, MoneyIsNat

LEMMA NotionalSplit ==
  ASSUME NEW S, IsFiniteSet(S), S \subseteq Row, NEW R \in SUBSET S
  PROVE  /\ Grid!Notional(S) = Grid!Notional(R) + Grid!Notional(S \ R)
         /\ Grid!Notional(R) <= Grid!Notional(S)
         /\ Grid!Notional(R) \in Nat /\ Grid!Notional(S) \in Nat /\ Grid!Notional(S \ R) \in Nat
<1>1. IsFiniteSet(R) /\ IsFiniteSet(S \ R) /\ R \subseteq Row /\ S \ R \subseteq Row
  BY FS_Subset
<1>2. Total(Money, S) = Total(Money, R) + Total(Money, S \ R)
  BY MoneyIsNat, TotalSplit, Finite
<1>3. /\ Grid!Notional(S) = Total(Money, S) /\ Grid!Notional(R) = Total(Money, R)
      /\ Grid!Notional(S \ R) = Total(Money, S \ R)
      /\ Grid!Notional(R) \in Nat /\ Grid!Notional(S) \in Nat /\ Grid!Notional(S \ R) \in Nat
  BY <1>1, NotionalIs
<1> QED BY <1>2, <1>3

-----------------------------------------------------------------------------
(* The replay. *)
IsBasis(b) == b \in [quantity : Nat, cost : Nat]
Replayed(p, D, b) == IsBasis(b)

Replays == INSTANCE FiniteSums WITH Step <- Grid!Absorb, Final <- Grid!Latest, Keeps <- Replayed

(* A share of the cost is no more than the cost. *)
LEMMA ShareIsPart ==
  ASSUME NEW c \in Nat, NEW q \in Nat, NEW m \in Nat, m < q
  PROVE  (c * m) \div q \in Nat /\ (c * m) \div q <= c
<1> DEFINE n == c * m
           d == n \div q
<1>1. n \in Nat /\ q > 0
  OBVIOUS
<1>2. n <= c * q
  OBVIOUS
<1> HIDE DEF n
<1>3. d \in Nat /\ q * d <= n
  BY <1>1
<1> HIDE DEF d
<1>4. d <= c
  <2> SUFFICES ASSUME d >= c + 1
               PROVE  FALSE
    BY <1>3
  <2>1. q * d >= q * (c + 1)
    BY <1>3
  <2>2. q * (c + 1) = c * q + q
    OBVIOUS
  <2> DEFINE e == q * d
             f == c * q
  <2>3. e \in Int /\ f \in Int /\ e <= n /\ n <= f /\ e >= f + q
    BY <1>2, <1>3, <2>1, <2>2
  <2> HIDE DEF e, f
  <2> QED BY <1>1, <2>3
<1> QED BY <1>3, <1>4 DEF n, d

Outlay == [t \in Trade |-> IF t.side = "buy" THEN t.price * t.amount + t.fee ELSE 0]

LEMMA OutlayIsNat == \A t \in Trade : Outlay[t] \in Nat
<1> SUFFICES ASSUME NEW t \in Trade
             PROVE  t.price * t.amount + t.fee \in Nat
  BY DEF Outlay
<1>1. t.price \in Nat /\ t.amount \in Nat /\ t.fee \in Nat
  BY DEF Trade
<1> QED BY <1>1

(* A BUY adds what was spent, a SELL nothing. *)
LEMMA AbsorbKeeps ==
  ASSUME NEW t \in Trade, NEW b, IsBasis(b)
  PROVE  IsBasis(Grid!Absorb(t, b)) /\ Grid!Absorb(t, b).cost <= b.cost + Outlay[t]
<1>1. b.quantity \in Nat /\ b.cost \in Nat
  BY DEF IsBasis
<1>2. t.amount \in Nat /\ t.side \in Sides /\ t.price * t.amount \in Nat /\ t.fee \in Nat
  <2>1. t.amount \in Nat /\ t.side \in Sides /\ t.price \in Nat /\ t.fee \in Nat
    BY DEF Trade
  <2> QED BY <2>1
<1>3. CASE t.side = "buy"
  <2>1. Grid!Absorb(t, b) = [quantity |-> b.quantity + t.amount,
                        cost |-> b.cost + t.price * t.amount + t.fee]
    BY <1>3 DEF Grid!Absorb
  <2>2. Outlay[t] = t.price * t.amount + t.fee
    BY <1>3 DEF Outlay
  <2> QED BY <1>1, <1>2, <2>1, <2>2 DEF IsBasis
<1>4. CASE t.side # "buy" /\ t.amount >= b.quantity
  <2>1. Grid!Absorb(t, b) = [quantity |-> 0, cost |-> 0]
    BY <1>4 DEF Grid!Absorb, Grid!NoBasis
  <2> QED BY <1>1, <2>1, OutlayIsNat DEF IsBasis
<1>5. CASE t.side # "buy" /\ ~ (t.amount >= b.quantity)
  <2> DEFINE share == (b.cost * t.amount) \div b.quantity
  <2>1. share \in Nat /\ share <= b.cost
    BY <1>1, <1>2, <1>5, ShareIsPart
  <2>2. Grid!Absorb(t, b) = [quantity |-> b.quantity - t.amount, cost |-> b.cost - share]
    BY <1>5 DEF Grid!Absorb
  <2> HIDE DEF share
  <2> QED BY <1>1, <1>2, <1>5, <2>1, <2>2, OutlayIsNat DEF IsBasis
<1> QED BY <1>3, <1>4, <1>5

LEMMA ReplayFoldable ==
  ASSUME NEW S, IsFiniteSet(S), S \subseteq Trade
  PROVE  Replays!IsFoldable(S)
<1>1. Replays!AllowsInduction(S)
  BY Finite, Zenon DEF AllowsInduction, Replays!AllowsInduction
<1>2. \A t \in S : t.at \in Int
  BY DEF Trade
<1>3. \A T \in SUBSET S : T # {} => Grid!Latest(T) \in T
  BY <1>2, FS_Subset, LatestIs
<1> QED BY <1>1, <1>3 DEF Replays!IsFoldable

LEMMA ReplayIsFold == \A S : Grid!ReplayAverageCost(S) = Replays!Fold(Grid!NoBasis, S)
  BY Zenon DEF Grid!ReplayAverageCost, Grid!InOrder, Grid!MapThenFoldSet, Replays!Fold, Replays!MapThenFoldSet

LEMMA ReplayIsBasis ==
  ASSUME NEW S, IsFiniteSet(S), S \subseteq Trade
  PROVE  IsBasis(Grid!ReplayAverageCost(S))
<1>1. Replays!IsFoldable(S)
  BY ReplayFoldable
<1>2. Replayed(0, {}, Grid!NoBasis)
  BY DEF Replayed, IsBasis, Grid!NoBasis
<1>3. \A D \in SUBSET S, e \in S : \A b :
         (e \notin D /\ Grid!Latest(D \union {e}) = e /\ Replayed(0, D, b))
            => Replayed(0, D \union {e}, Grid!Absorb(e, b))
  BY AbsorbKeeps DEF Replayed
<1>4. Replayed(0, S, Replays!Fold(Grid!NoBasis, S))
  BY <1>1, <1>2, <1>3, Replays!FoldKeeps
<1> QED BY <1>4, ReplayIsFold DEF Replayed

LEMMA ReplayFinal ==
  ASSUME NEW S, IsFiniteSet(S), S \subseteq Trade, S # {}
  PROVE  Grid!ReplayAverageCost(S) = Grid!Absorb(Grid!Latest(S), Grid!ReplayAverageCost(S \ {Grid!Latest(S)}))
  BY ReplayFoldable, ReplayIsFold, Replays!FoldFinal

LEMMA ReplayEmpty == Grid!ReplayAverageCost({}) = Grid!NoBasis
  BY ReplayIsFold, Replays!FoldEmpty

(* Later trades add no more than what they spent. *)
LEMMA ReplayGrows ==
  ASSUME NEW S, IsFiniteSet(S), S \subseteq Trade, NEW N, IsFiniteSet(N), N \subseteq Trade,
         \A t \in S, u \in N : t.at < u.at
  PROVE  Grid!ReplayAverageCost(S \union N).cost <= Grid!ReplayAverageCost(S).cost + Total(Outlay, N)
<1> DEFINE cost(T) == Grid!ReplayAverageCost(S \union T).cost
           Good == {T \in SUBSET N : cost(T) <= Grid!ReplayAverageCost(S).cost + Total(Outlay, T)}
<1>1. ASSUME NEW T \in SUBSET N, \A U \in SUBSET T : U # T => U \in Good
      PROVE  T \in Good
  <2>1. CASE T = {}
    <3>1. S \union T = S /\ Total(Outlay, T) = 0
      BY <2>1, TotalEmpty
    <3>2. Grid!ReplayAverageCost(S).cost \in Nat
      BY ReplayIsBasis DEF IsBasis
    <3>3. cost(T) = Grid!ReplayAverageCost(S).cost
      BY <3>1, Zenon
    <3> HIDE DEF cost
    <3>4. cost(T) <= Grid!ReplayAverageCost(S).cost + Total(Outlay, T)
      BY <3>1, <3>2, <3>3
    <3> QED BY <3>4
  <2>2. CASE T # {}
    <3> DEFINE R == S \union T
               t == Grid!Latest(R)
               U == T \ {t}
    <3>1. IsFiniteSet(T) /\ IsFiniteSet(U) /\ IsFiniteSet(R) /\ R \subseteq Trade /\ R # {}
      BY <2>2, FS_Subset, FS_Union
    <3>2. \A r \in R : r.at \in Int
      BY <3>1 DEF Trade
    <3>3. t \in R /\ \A r \in R : r.at <= t.at
      <4> HIDE DEF R
      <4> QED BY <3>1, <3>2, LatestIs
    <3>4. t \in T /\ t \notin S
      <4>1. PICK u \in T : TRUE
        BY <2>2
      <4>2. u \in R /\ u.at <= t.at /\ \A r \in S : r.at < u.at /\ r.at \in Int /\ u.at \in Int
        BY <3>2, <3>3, <4>1
      <4>3. t \notin S
        BY <4>2, <3>2, <3>3
      <4> QED BY <3>3, <4>3
    <3>5. R \ {t} = S \union U /\ U \in Good
      BY <1>1, <3>4
    <3>6. Grid!ReplayAverageCost(R) = Grid!Absorb(t, Grid!ReplayAverageCost(S \union U))
      BY <3>1, <3>5, ReplayFinal
    <3>7. IsBasis(Grid!ReplayAverageCost(S \union U)) /\ IsBasis(Grid!ReplayAverageCost(S))
      BY <3>1, <3>5, FS_Union, ReplayIsBasis
    <3>8. IsBasis(Grid!Absorb(t, Grid!ReplayAverageCost(S \union U)))
          /\ Grid!Absorb(t, Grid!ReplayAverageCost(S \union U)).cost <= cost(U) + Outlay[t]
      BY <3>4, <3>7, AbsorbKeeps
    <3>9. Total(Outlay, T) = Outlay[t] + Total(Outlay, U)
      <4>1. \A r \in T : Outlay[r] \in Int
        BY OutlayIsNat
      <4> HIDE DEF t
      <4> QED BY <3>1, <3>4, <4>1, TotalRemove, Finite
    <3>10. Outlay[t] \in Nat /\ Total(Outlay, U) \in Nat
      BY <3>1, <3>4, OutlayIsNat, TotalNat, Finite
    <3>11. cost(U) <= Grid!ReplayAverageCost(S).cost + Total(Outlay, U)
      BY <3>5
    <3>12. cost(T) \in Nat /\ cost(U) \in Nat /\ Grid!ReplayAverageCost(S).cost \in Nat
           /\ cost(T) <= cost(U) + Outlay[t]
      BY <3>6, <3>7, <3>8 DEF IsBasis
    <3> HIDE DEF cost, U, t
    <3>13. cost(T) <= Grid!ReplayAverageCost(S).cost + Total(Outlay, T)
      BY <3>9, <3>10, <3>11, <3>12
    <3> QED BY <3>13
  <2> QED BY <2>1, <2>2
<1>2. SUBSET N \subseteq Good
  <2> HIDE DEF Good
  <2> QED BY <1>1, SubsetInduction, Finite
<1> QED BY <1>2

-----------------------------------------------------------------------------
(* The caps, of any table and trades. *)

FeeOf == [t \in Trade |-> t.fee + 1]

FeesOf(ts, s) == Grid!SumOf([t \in Grid!Of(s, ts) |-> t.fee + 1])

Capped(os, ts) ==
    LET open == Grid!OpenOrders(os)
    IN /\ Grid!Notional(open) <= Caps.totalExposure
       /\ Grid!DailySpend(os, day) <= Caps.dailySpend
       /\ Grid!TotalInventoryCost(ts) + Grid!Notional(Grid!Buys(open))
             <= Caps.totalInventory + Grid!SumOf([s \in Grid!Coins |-> FeesOf(ts, s)])
       /\ \A s \in Grid!Coins :
            /\ Cardinality(Grid!Of(s, open)) <= Caps.ordersPerCoin
            /\ Grid!Notional(Grid!Of(s, open)) <= Caps.coinExposure
            /\ Grid!InventoryCost(ts, s) + Grid!Notional(Grid!Buys(Grid!Of(s, open)))
                  <= Caps.coinInventory + FeesOf(ts, s)

LEMMA CoinsAreFinite == IsFiniteSet(Grid!Coins) /\ \A i \in DOMAIN Symbols : Symbols[i] \in Grid!Coins
<1>1. Grid!Coins = {Symbols[i] : i \in DOMAIN Symbols}
  BY DEF Grid!Coins, Grid!Range
<1>2. DOMAIN Symbols = 1..Len(Symbols) /\ Len(Symbols) \in Nat
  BY PlacementAssumption
<1>3. IsFiniteSet(DOMAIN Symbols)
  BY <1>2, FS_Interval
<1> DEFINE f == [i \in DOMAIN Symbols |-> Symbols[i]]
<1>4. f \in Surjection(DOMAIN Symbols, Grid!Coins)
  BY <1>1 DEF Surjection
<1> QED BY <1>1, <1>3, <1>4, FS_Surjection

LEMMA FeesOfIs ==
  ASSUME NEW ts, IsFiniteSet(ts), ts \subseteq Trade, NEW s
  PROVE  /\ FeesOf(ts, s) = Total(FeeOf, Grid!Of(s, ts)) /\ FeesOf(ts, s) \in Nat
         /\ IsFiniteSet(Grid!Of(s, ts)) /\ Grid!Of(s, ts) \subseteq ts
<1> DEFINE S == Grid!Of(s, ts)
           v == [t \in S |-> t.fee + 1]
<1>1. IsFiniteSet(S) /\ S \subseteq ts
  BY FS_Subset DEF Grid!Of
<1>2. \A t \in S : FeeOf[t] = t.fee + 1 /\ FeeOf[t] \in Nat
  BY <1>1 DEF FeeOf, Trade
<1>3. FeesOf(ts, s) = Total(v, DOMAIN v)
  BY SumOfIs DEF FeesOf
<1>4. Total(v, DOMAIN v) = Total(FeeOf, S)
  <2>1. DOMAIN v = S /\ \A t \in S : v[t] = FeeOf[t]
    BY <1>2
  <2> HIDE DEF v, S
  <2> QED BY <1>1, <2>1, TotalSame, Finite
<1>5. Total(FeeOf, S) \in Nat
  <2> HIDE DEF S
  <2> QED BY <1>1, <1>2, TotalNat, Finite
<1> QED BY <1>1, <1>3, <1>4, <1>5

LEMMA AllFeesIs ==
  ASSUME NEW ts, IsFiniteSet(ts), ts \subseteq Trade
  PROVE  LET w == [s \in Grid!Coins |-> FeesOf(ts, s)]
         IN Grid!SumOf(w) = Total(w, Grid!Coins) /\ Grid!SumOf(w) \in Nat
<1> DEFINE w == [s \in Grid!Coins |-> FeesOf(ts, s)]
<1>1. DOMAIN w = Grid!Coins /\ \A s \in Grid!Coins : w[s] \in Nat
  BY FeesOfIs
<1> HIDE DEF w
<1>2. Grid!SumOf(w) = Total(w, Grid!Coins)
  BY <1>1, SumOfIs
<1>3. Total(w, Grid!Coins) \in Nat
  BY <1>1, CoinsAreFinite, TotalNat, Finite
<1> QED BY <1>2, <1>3 DEF w

(* What was spent on a coin without trades is nothing. *)
LEMMA InventoryIs ==
  ASSUME NEW ts, IsFiniteSet(ts), ts \subseteq Trade
  PROVE  LET w == [s \in Grid!Coins |-> Grid!InventoryCost(ts, s)]
         IN /\ Grid!TotalInventoryCost(ts) = Total(w, Grid!Coins) /\ Grid!TotalInventoryCost(ts) \in Nat
            /\ \A s : Grid!InventoryCost(ts, s) \in Nat
<1> DEFINE w == [s \in Grid!Coins |-> Grid!InventoryCost(ts, s)]
           R == {t.symbol : t \in ts}
           v == [s \in R |-> Grid!InventoryCost(ts, s)]
<1>1. \A s : Grid!InventoryCost(ts, s) \in Nat
  <2> TAKE s
  <2>1. IsFiniteSet(Grid!Of(s, ts)) /\ Grid!Of(s, ts) \subseteq Trade
    BY FS_Subset DEF Grid!Of
  <2> QED BY <2>1, ReplayIsBasis DEF Grid!InventoryCost, IsBasis
<1>2. R \subseteq Grid!Coins
  BY DEF Trade
<1>3. \A s \in Grid!Coins \ R : Grid!InventoryCost(ts, s) = 0
  <2> SUFFICES ASSUME NEW s \in Grid!Coins \ R
               PROVE  Grid!InventoryCost(ts, s) = 0
    OBVIOUS
  <2>1. Grid!Of(s, ts) = {}
    BY DEF Grid!Of
  <2> QED BY <2>1, ReplayEmpty DEF Grid!InventoryCost, Grid!NoBasis
<1>4. Grid!TotalInventoryCost(ts) = Total(v, DOMAIN v) /\ DOMAIN v = R
  BY SumOfIs DEF Grid!TotalInventoryCost
<1>5. \A s \in Grid!Coins : w[s] = Grid!InventoryCost(ts, s)
  OBVIOUS
<1>6. \A s \in R : v[s] = w[s]
  BY <1>2
<1> HIDE DEF w, R, v
<1>7. Total(v, R) = Total(w, R)
  BY <1>2, <1>6, CoinsAreFinite, FS_Subset, TotalSame, Finite
<1>8. Total(w, Grid!Coins) = Total(w, R) /\ Total(w, Grid!Coins) \in Nat
  <2>1. /\ \A s \in Grid!Coins : w[s] \in Nat
        /\ \A s \in Grid!Coins \ R : w[s] = 0
    BY <1>1, <1>3, <1>5
  <2>2. Total(w, Grid!Coins) = Total(w, R)
    BY <1>2, <2>1, CoinsAreFinite, TotalOfWeighed, Finite
  <2>3. Total(w, Grid!Coins) \in Nat
    BY <2>1, CoinsAreFinite, TotalNat, Finite
  <2> QED BY <2>2, <2>3
<1> QED BY <1>1, <1>4, <1>7, <1>8 DEF w

LEMMA OpenIs ==
  ASSUME NEW os, IsTable(os)
  PROVE  /\ IsFiniteSet(Grid!OpenOrders(os)) /\ Grid!OpenOrders(os) \subseteq Row
         /\ \A o \in Grid!OpenOrders(os) : o.id \in DOMAIN os /\ os[o.id] = o
         /\ \A i \in DOMAIN os : os[i].status = "open" => os[i] \in Grid!OpenOrders(os)
         /\ \A s : IsFiniteSet(Grid!Of(s, Grid!OpenOrders(os))) /\ Grid!Of(s, Grid!OpenOrders(os)) \subseteq Row
<1>1. /\ Grid!OpenOrders(os) \subseteq Grid!Range(os) /\ \A s : Grid!Of(s, Grid!OpenOrders(os)) \subseteq Grid!Range(os)
  BY DEF Grid!OpenOrders, Grid!Of
<1>2. IsFiniteSet(Grid!OpenOrders(os)) /\ \A s : IsFiniteSet(Grid!Of(s, Grid!OpenOrders(os)))
  BY <1>1, TableIs, FS_Subset
<1>3. \A i \in DOMAIN os : os[i].status = "open" => os[i] \in Grid!OpenOrders(os)
  BY TableIs DEF Grid!OpenOrders
<1> QED BY <1>1, <1>2, <1>3, TableIs

(* With one order more, perhaps. *)
LEMMA NotionalGrows ==
  ASSUME NEW S, IsFiniteSet(S), S \subseteq Row, NEW r \in Row, r \notin S,
         NEW R, R = S \/ R = S \union {r}
  PROVE  /\ Grid!Notional(R) <= Grid!Notional(S) + r.price * r.amount
         /\ Grid!Notional(S) \in Nat /\ Grid!Notional(R) \in Nat /\ r.price * r.amount \in Nat
<1>1. Grid!Notional(S) \in Nat /\ r.price * r.amount \in Nat
  BY NotionalIs, MoneyIsNat
<1>2. CASE R = S
  <2> DEFINE n == Grid!Notional(S)
             m == r.price * r.amount
  <2> HIDE DEF m
  <2>1. n <= n + m
    BY <1>1 DEF m
  <2> QED BY <1>1, <1>2, <2>1 DEF m
<1>3. CASE R = S \union {r}
  <2>1. Grid!Notional(S \union {r}) = Grid!Notional(S) + r.price * r.amount
    BY NotionalAdd
  <2>2. IsFiniteSet(R) /\ R \subseteq Row
    BY <1>3, FS_AddElement
  <2>3. Grid!Notional(R) \in Nat
    BY <2>2, NotionalIs
  <2> QED BY <1>1, <1>3, <2>1, <2>3
<1> QED BY <1>2, <1>3

(* With some orders less. *)
LEMMA NotionalShrinks ==
  ASSUME NEW S, IsFiniteSet(S), S \subseteq Row, NEW R \in SUBSET S
  PROVE  Grid!Notional(R) <= Grid!Notional(S) /\ Grid!Notional(R) \in Nat /\ Grid!Notional(S) \in Nat
  BY NotionalSplit

-----------------------------------------------------------------------------
LEMMA CardinalityIs == \A S : Grid!Cardinality(S) = Cardinality(S)
  BY Zenon DEF Cardinality, Grid!Cardinality

(* What it means that no cap refuses. *)
LEMMA NotRefused ==
  ASSUME NEW w, IsTable(w.orders), IsFiniteSet(w.trades), w.trades \subseteq Trade,
         NEW level, NEW amount, level.price * amount \in Nat,
         ~ Grid!SafetyRefuses(w, level, amount)
  PROVE  LET open == Grid!OpenOrders(w.orders)
             m == level.price * amount
             s == level.symbol
         IN /\ Cardinality(Grid!Of(s, open)) + 1 <= Caps.ordersPerCoin
            /\ Grid!Notional(Grid!Of(s, open)) + m <= Caps.coinExposure
            /\ Grid!Notional(open) + m <= Caps.totalExposure
            /\ level.side = "buy" =>
                  /\ Grid!DailySpend(w.orders, day) + m <= Caps.dailySpend
                  /\ Grid!InventoryCost(w.trades, s) + Grid!Notional(Grid!Buys(Grid!Of(s, open))) + m
                        <= Caps.coinInventory
                  /\ Grid!TotalInventoryCost(w.trades) + Grid!Notional(Grid!Buys(open)) + m
                        <= Caps.totalInventory
<1> DEFINE os == w.orders
           ts == w.trades
           s == level.symbol
           m == level.price * amount
           open == Grid!OpenOrders(os)
           spend == {o \in Grid!Buys(Grid!Range(os)) : o.status \in Grid!SpendCommitted /\ o.day = day}
<1>1. /\ IsFiniteSet(open) /\ open \subseteq Row
      /\ IsFiniteSet(Grid!Of(s, open)) /\ Grid!Of(s, open) \subseteq Row
  BY OpenIs
<1>2. /\ Grid!Buys(open) \subseteq open /\ Grid!Buys(Grid!Of(s, open)) \subseteq Grid!Of(s, open)
      /\ spend \subseteq Grid!Range(os)
  BY DEF Grid!Buys
<1>3. IsFiniteSet(Grid!Range(os)) /\ Grid!Range(os) \subseteq Row
  BY TableIs
<1>4. /\ Grid!Notional(spend) \in Nat /\ Grid!Notional(Grid!Buys(open)) \in Nat
      /\ Grid!Notional(Grid!Buys(Grid!Of(s, open))) \in Nat
  <2> HIDE DEF spend, open
  <2> QED BY <1>1, <1>2, <1>3, NotionalShrinks
<1>5. Grid!DailySpend(os, day) = Grid!Notional(spend)
  BY DEF Grid!DailySpend
<1> DEFINE n1 == Cardinality(Grid!Of(s, open))
           n2 == Grid!Notional(Grid!Of(s, open))
           n3 == Grid!Notional(open)
           n4 == Grid!DailySpend(os, day)
           n5 == Grid!InventoryCost(ts, s) + Grid!Notional(Grid!Buys(Grid!Of(s, open)))
           n6 == Grid!TotalInventoryCost(ts) + Grid!Notional(Grid!Buys(open))
<1>6. /\ n1 \in Nat /\ n2 \in Nat /\ n3 \in Nat /\ n4 \in Nat /\ n5 \in Nat /\ n6 \in Nat
      /\ m \in Nat
  <2>1. Grid!InventoryCost(ts, s) \in Nat /\ Grid!TotalInventoryCost(ts) \in Nat
    BY InventoryIs
  <2> QED BY <1>1, <1>4, <1>5, <2>1, NotionalIs, FS_CardinalityType
<1>7. /\ ~ (n1 + 1 > Caps.ordersPerCoin) /\ ~ (n2 + m > Caps.coinExposure)
      /\ ~ (n3 + m > Caps.totalExposure)
      /\ level.side = "buy" => /\ ~ (n4 + m > Caps.dailySpend)
                               /\ ~ (n5 + m > Caps.coinInventory)
                               /\ ~ (n6 + m > Caps.totalInventory)
  BY CardinalityIs DEF Grid!SafetyRefuses
<1>8. /\ Caps.ordersPerCoin \in Nat /\ Caps.coinExposure \in Nat
      /\ Caps.totalExposure \in Nat /\ Caps.dailySpend \in Nat
      /\ Caps.coinInventory \in Nat /\ Caps.totalInventory \in Nat
  BY PlacementAssumption
<1>9. /\ n1 + 1 <= Caps.ordersPerCoin /\ n2 + m <= Caps.coinExposure
      /\ n3 + m <= Caps.totalExposure
      /\ level.side = "buy" => /\ n4 + m <= Caps.dailySpend
                               /\ n5 + m <= Caps.coinInventory
                               /\ n6 + m <= Caps.totalInventory
  <2> HIDE DEF n1, n2, n3, n4, n5, n6, m
  <2> QED BY <1>6, <1>7, <1>8
<1> QED BY <1>9

(* With one order more, perhaps. *)
LEMMA CardinalityGrows ==
  ASSUME NEW S, IsFiniteSet(S), NEW r, r \notin S, NEW R, R = S \/ R = S \union {r}
  PROVE  /\ Cardinality(R) <= Cardinality(S) + 1
         /\ Cardinality(S) \in Nat /\ Cardinality(R) \in Nat
<1>1. Cardinality(S) \in Nat /\ Cardinality(S \union {r}) = Cardinality(S) + 1
  BY FS_CardinalityType, FS_AddElement
<1>2. CASE R = S
  BY <1>1, <1>2
<1>3. CASE R = S \union {r}
  BY <1>1, <1>3
<1> QED BY <1>2, <1>3

(* An order that no cap refuses leaves the caps as they are. *)
LEMMA PlacedIsCapped ==
  ASSUME NEW w, IsTable(w.orders), IsFiniteSet(w.trades), w.trades \subseteq Trade,
         day \in Nat, Capped(w.orders, w.trades),
         NEW level, NEW amount, ~ Grid!SafetyRefuses(w, level, amount),
         NEW r \in Row, r.id = Len(w.orders) + 1, r.symbol = level.symbol,
         r.side = level.side, r.price = level.price, r.amount = amount, r.day = day,
         r.status \in {"open", "closed"}
  PROVE  Capped(Append(w.orders, r), w.trades)
<1> DEFINE os == w.orders
           ts == w.trades
           v == Append(os, r)
           s == r.symbol
           m == r.price * r.amount
           open == Grid!OpenOrders(os)
           open2 == Grid!OpenOrders(v)
           spend == {o \in Grid!Buys(Grid!Range(os)) : o.status \in Grid!SpendCommitted /\ o.day = day}
           spend2 == {o \in Grid!Buys(Grid!Range(v)) : o.status \in Grid!SpendCommitted /\ o.day = day}
<1>1. /\ Cardinality(Grid!Of(s, open)) + 1 <= Caps.ordersPerCoin
      /\ Grid!Notional(Grid!Of(s, open)) + m <= Caps.coinExposure
      /\ Grid!Notional(open) + m <= Caps.totalExposure
      /\ r.side = "buy" =>
            /\ Grid!DailySpend(os, day) + m <= Caps.dailySpend
            /\ Grid!InventoryCost(ts, s) + Grid!Notional(Grid!Buys(Grid!Of(s, open))) + m <= Caps.coinInventory
            /\ Grid!TotalInventoryCost(ts) + Grid!Notional(Grid!Buys(open)) + m <= Caps.totalInventory
  <2>1. m = level.price * amount /\ m \in Nat
    BY MoneyIsNat
  <2> QED BY <2>1, NotRefused
<1>2. /\ IsTable(v) /\ Grid!Range(v) = Grid!Range(os) \union {r} /\ r \notin Grid!Range(os)
      /\ IsFiniteSet(Grid!Range(os)) /\ Grid!Range(os) \subseteq Row
  <2>1. r \notin Grid!Range(os)
    BY TableIs, AppendIs
  <2> QED BY <2>1, TableIs, AppendIs
<1>3. /\ open2 = open \/ open2 = open \union {r}
      /\ open \subseteq Grid!Range(os)
      /\ spend \subseteq Grid!Range(os)
      /\ r.side = "buy" => spend2 = spend \union {r}
      /\ r.side # "buy" => spend2 = spend
  BY <1>2 DEF Grid!OpenOrders, Grid!Buys, Grid!SpendCommitted
<1>4. /\ Grid!DailySpend(os, day) = Grid!Notional(spend) /\ Grid!DailySpend(v, day) = Grid!Notional(spend2)
  BY DEF Grid!DailySpend
<1>5. /\ Grid!Notional(open) <= Caps.totalExposure
      /\ Grid!DailySpend(os, day) <= Caps.dailySpend
      /\ Grid!TotalInventoryCost(ts) + Grid!Notional(Grid!Buys(open))
            <= Caps.totalInventory + Grid!SumOf([t \in Grid!Coins |-> FeesOf(ts, t)])
      /\ \A t \in Grid!Coins :
            /\ Cardinality(Grid!Of(t, open)) <= Caps.ordersPerCoin
            /\ Grid!Notional(Grid!Of(t, open)) <= Caps.coinExposure
            /\ Grid!InventoryCost(ts, t) + Grid!Notional(Grid!Buys(Grid!Of(t, open)))
                  <= Caps.coinInventory + FeesOf(ts, t)
  BY Zenon DEF Capped
<1> DEFINE fees == Grid!SumOf([t \in Grid!Coins |-> FeesOf(ts, t)])
<1>6. /\ Grid!TotalInventoryCost(ts) \in Nat /\ \A t : Grid!InventoryCost(ts, t) \in Nat
      /\ fees \in Nat /\ \A t : FeesOf(ts, t) \in Nat
      /\ Caps.ordersPerCoin \in Nat /\ Caps.coinExposure \in Nat
      /\ Caps.totalExposure \in Nat /\ Caps.dailySpend \in Nat
      /\ Caps.coinInventory \in Nat /\ Caps.totalInventory \in Nat
  BY InventoryIs, AllFeesIs, FeesOfIs, PlacementAssumption
<1> HIDE DEF v, open, open2, spend, spend2, os, ts, fees
<1>7. ASSUME NEW S \in SUBSET Grid!Range(os), NEW R, R = S \/ R = S \union {r}
      PROVE  /\ Grid!Notional(R) <= Grid!Notional(S) + m /\ m \in Nat
             /\ Grid!Notional(S) \in Nat /\ Grid!Notional(R) \in Nat
             /\ Cardinality(R) <= Cardinality(S) + 1
             /\ Cardinality(S) \in Nat /\ Cardinality(R) \in Nat
  <2>1. IsFiniteSet(S) /\ S \subseteq Row /\ r \notin S
    BY <1>2, FS_Subset
  <2> QED BY <1>7, <2>1, NotionalGrows, CardinalityGrows
<1> HIDE DEF m
<1>8. Grid!Notional(open2) <= Caps.totalExposure
  BY <1>1, <1>3, <1>6, <1>7
<1>9. Grid!DailySpend(v, day) <= Caps.dailySpend
  <2>1. CASE r.side = "buy"
    <3>1. /\ Grid!Notional(spend2) <= Grid!Notional(spend) + m /\ m \in Nat
          /\ Grid!Notional(spend2) \in Nat /\ Grid!Notional(spend) \in Nat
      BY <1>3, <1>7, <2>1
    <3> QED BY <1>1, <1>4, <1>6, <2>1, <3>1
  <2>2. CASE r.side # "buy"
    BY <1>3, <1>4, <1>5, <2>2
  <2> QED BY <2>1, <2>2
<1>10. Grid!TotalInventoryCost(ts) + Grid!Notional(Grid!Buys(open2)) <= Caps.totalInventory + fees
  <2>1. Grid!Buys(open) \subseteq Grid!Range(os)
    BY <1>3 DEF Grid!Buys
  <2>2. CASE r.side = "buy"
    <3>1. Grid!Buys(open2) = Grid!Buys(open) \/ Grid!Buys(open2) = Grid!Buys(open) \union {r}
      BY <1>3, <2>2 DEF Grid!Buys
    <3>2. /\ Grid!Notional(Grid!Buys(open2)) <= Grid!Notional(Grid!Buys(open)) + m /\ m \in Nat
          /\ Grid!Notional(Grid!Buys(open2)) \in Nat /\ Grid!Notional(Grid!Buys(open)) \in Nat
      BY <1>7, <2>1, <3>1
    <3> QED BY <1>1, <1>6, <2>2, <3>2
  <2>3. CASE r.side # "buy"
    <3>1. Grid!Buys(open2) = Grid!Buys(open)
      BY <1>3, <2>3 DEF Grid!Buys
    <3> QED BY <1>5, <3>1 DEF fees
  <2> QED BY <2>2, <2>3
<1>11. ASSUME NEW t \in Grid!Coins
       PROVE  /\ Cardinality(Grid!Of(t, open2)) <= Caps.ordersPerCoin
              /\ Grid!Notional(Grid!Of(t, open2)) <= Caps.coinExposure
              /\ Grid!InventoryCost(ts, t) + Grid!Notional(Grid!Buys(Grid!Of(t, open2)))
                    <= Caps.coinInventory + FeesOf(ts, t)
  <2>1. CASE t # s
    <3>1. Grid!Of(t, open2) = Grid!Of(t, open)
      BY <1>3, <2>1 DEF Grid!Of
    <3> QED BY <1>5, <3>1
  <2>2. CASE t = s
    <3>1. /\ Grid!Of(s, open2) = Grid!Of(s, open) \/ Grid!Of(s, open2) = Grid!Of(s, open) \union {r}
          /\ Grid!Of(s, open) \subseteq Grid!Range(os)
      BY <1>3 DEF Grid!Of
    <3>2. Cardinality(Grid!Of(s, open2)) <= Caps.ordersPerCoin
      <4>1. /\ Cardinality(Grid!Of(s, open2)) <= Cardinality(Grid!Of(s, open)) + 1
            /\ Cardinality(Grid!Of(s, open2)) \in Nat /\ Cardinality(Grid!Of(s, open)) \in Nat
        BY <1>7, <3>1
      <4> QED BY <1>1, <1>6, <4>1
    <3>3. Grid!Notional(Grid!Of(s, open2)) <= Caps.coinExposure
      BY <1>1, <1>6, <1>7, <3>1
    <3>4. Grid!InventoryCost(ts, s) + Grid!Notional(Grid!Buys(Grid!Of(s, open2)))
             <= Caps.coinInventory + FeesOf(ts, s)
      <4>1. Grid!Buys(Grid!Of(s, open)) \subseteq Grid!Range(os)
        BY <3>1 DEF Grid!Buys
      <4>2. CASE r.side = "buy"
        <5>1. \/ Grid!Buys(Grid!Of(s, open2)) = Grid!Buys(Grid!Of(s, open))
              \/ Grid!Buys(Grid!Of(s, open2)) = Grid!Buys(Grid!Of(s, open)) \union {r}
          BY <3>1, <4>2 DEF Grid!Buys
        <5>2. /\ Grid!Notional(Grid!Buys(Grid!Of(s, open2))) <= Grid!Notional(Grid!Buys(Grid!Of(s, open))) + m /\ m \in Nat
              /\ Grid!Notional(Grid!Buys(Grid!Of(s, open2))) \in Nat /\ Grid!Notional(Grid!Buys(Grid!Of(s, open))) \in Nat
          BY <1>7, <4>1, <5>1
        <5> QED BY <1>1, <1>6, <4>2, <5>2
      <4>3. CASE r.side # "buy"
        <5>1. Grid!Buys(Grid!Of(s, open2)) = Grid!Buys(Grid!Of(s, open))
          BY <3>1, <4>3 DEF Grid!Buys
        <5> QED BY <1>5, <2>2, <5>1
      <4> QED BY <4>2, <4>3
    <3> QED BY <2>2, <3>2, <3>3, <3>4
  <2> QED BY <2>1, <2>2
<1>12. Capped(v, ts)
  BY <1>8, <1>9, <1>10, <1>11, Zenon DEF Capped, open2, fees
<1> QED BY <1>12 DEF v, os, ts

-----------------------------------------------------------------------------
(* Orders that close, or are cancelled. *)
Closing(os, v) ==
    /\ v \in Seq(Row) /\ DOMAIN v = DOMAIN os
    /\ \A i \in DOMAIN os :
          \/ v[i] = os[i]
          \/ v[i] = [os[i] EXCEPT !.status = "canceled"]
          \/ os[i].status = "open" /\ v[i] = [os[i] EXCEPT !.status = "closed"]

LEMMA ClosingIs ==
  ASSUME NEW os, IsTable(os), NEW v, Closing(os, v)
  PROVE  /\ IsTable(v)
         /\ \A i \in DOMAIN os :
               /\ v[i].id = i /\ v[i].symbol = os[i].symbol /\ v[i].side = os[i].side
               /\ v[i].price = os[i].price /\ v[i].amount = os[i].amount
               /\ v[i].day = os[i].day /\ v[i].parent = os[i].parent
               /\ v[i].status = "open" => v[i] = os[i]
               /\ v[i].status \in Grid!SpendCommitted => os[i].status \in Grid!SpendCommitted
<1>1. ASSUME NEW i \in DOMAIN os
      PROVE  /\ v[i].id = i /\ v[i].symbol = os[i].symbol /\ v[i].side = os[i].side
             /\ v[i].price = os[i].price /\ v[i].amount = os[i].amount
             /\ v[i].day = os[i].day /\ v[i].parent = os[i].parent
             /\ v[i].status = "open" => v[i] = os[i]
             /\ v[i].status \in Grid!SpendCommitted => os[i].status \in Grid!SpendCommitted
  <2>1. os[i] \in Row /\ os[i].id = i
    BY TableIs
  <2>2. CASE v[i] = os[i]
    BY <2>1, <2>2
  <2>3. CASE v[i] = [os[i] EXCEPT !.status = "canceled"]
    BY <2>1, <2>3 DEF Row, Grid!SpendCommitted
  <2>4. CASE os[i].status = "open" /\ v[i] = [os[i] EXCEPT !.status = "closed"]
    BY <2>1, <2>4 DEF Row, Grid!SpendCommitted
  <2> QED BY <2>2, <2>3, <2>4 DEF Closing
<1> QED BY <1>1 DEF IsTable, Closing

LEMMA ClosingKeeps ==
  ASSUME NEW a, NEW os, IsBook(a, os), NEW v, Closing(os, v),
         NEW x, FillsMatch(os, x), NEW ts, TradesMatch(os, ts, x)
  PROVE  IsBook(a, v) /\ FillsMatch(v, x) /\ TradesMatch(v, ts, x)
<1>1. IsTable(os) /\ DOMAIN v = DOMAIN os
  BY DEF IsBook, Closing
<1>2. IsTable(v) /\ \A i \in DOMAIN os :
               /\ v[i].symbol = os[i].symbol /\ v[i].side = os[i].side
               /\ v[i].price = os[i].price /\ v[i].amount = os[i].amount
               /\ v[i].day = os[i].day /\ v[i].parent = os[i].parent
               /\ v[i].status = "open" => v[i] = os[i]
  BY <1>1, ClosingIs
<1>3. ASSUME NEW i \in DOMAIN os
      PROVE  OnGrid(a, v[i]) /\ HasLevel(a, v[i]) /\ HasParent(v, v[i]) /\ v[i].day <= day
  <2>1. OnGrid(a, os[i]) /\ HasLevel(a, os[i]) /\ HasParent(os, os[i]) /\ os[i].day <= day
    BY DEF IsBook
  <2>2. OnGrid(a, v[i])
    BY <1>2, <2>1 DEF OnGrid
  <2>3. HasLevel(a, v[i])
    BY <1>2, <2>1 DEF HasLevel, IsOfLevel
  <2>4. HasParent(v, v[i])
    BY <1>1, <1>2, <2>1 DEF HasParent
  <2> QED BY <1>2, <2>1, <2>2, <2>3, <2>4
<1>4. IsBook(a, v)
  BY <1>1, <1>2, <1>3 DEF IsBook
<1>5. FillsMatch(v, x)
  BY <1>1, <1>2, FillsMatchRows
<1>6. TradesMatch(v, ts, x)
  <2>1. \A u \in x.fills : u.order \in DOMAIN os
    BY DEF FillsMatch
  <2>2. \A t \in ts : t.order \in DOMAIN os /\ (IsFillOf(t, v[t.order]) <=> IsFillOf(t, os[t.order]))
    BY <1>2 DEF TradesMatch, IsFillOf
  <2> QED BY <1>1, <1>2, <2>1, <2>2 DEF TradesMatch
<1> QED BY <1>4, <1>5, <1>6

LEMMA ClosingShrinks ==
  ASSUME NEW os, IsTable(os), NEW v, Closing(os, v), NEW d
  PROVE  /\ Grid!OpenOrders(v) \subseteq Grid!OpenOrders(os)
         /\ Grid!DailySpend(v, d) <= Grid!DailySpend(os, d)
         /\ Grid!DailySpend(v, d) \in Nat /\ Grid!DailySpend(os, d) \in Nat
<1> DEFINE S == {o \in Grid!Buys(Grid!Range(os)) : o.status \in Grid!SpendCommitted /\ o.day = d}
           R == {o \in Grid!Buys(Grid!Range(v)) : o.status \in Grid!SpendCommitted /\ o.day = d}
           j == [o \in R |-> os[o.id]]
<1>1. /\ IsTable(v) /\ DOMAIN v = DOMAIN os
      /\ \A i \in DOMAIN os :
               /\ v[i].id = i /\ v[i].symbol = os[i].symbol /\ v[i].side = os[i].side
               /\ v[i].price = os[i].price /\ v[i].amount = os[i].amount
               /\ v[i].day = os[i].day
               /\ v[i].status = "open" => v[i] = os[i]
               /\ v[i].status \in Grid!SpendCommitted => os[i].status \in Grid!SpendCommitted
  <2>1. DOMAIN v = DOMAIN os
    BY DEF Closing
  <2> QED BY <2>1, ClosingIs
<1>2. \A o \in Grid!Range(v) : o.id \in DOMAIN os /\ v[o.id] = o /\ os[o.id] \in Grid!Range(os)
                          /\ os[o.id].id = o.id
  BY <1>1, TableIs
<1>3. Grid!OpenOrders(v) \subseteq Grid!OpenOrders(os)
  BY <1>1, <1>2 DEF Grid!OpenOrders
<1>4. S \subseteq Grid!Range(os) /\ R \subseteq Grid!Range(v)
  BY DEF Grid!Buys
<1>5. IsFiniteSet(S) /\ S \subseteq Row /\ IsFiniteSet(R) /\ R \subseteq Row
  <2> HIDE DEF S, R
  <2> QED BY <1>1, <1>4, TableIs, FS_Subset
<1>6. ASSUME NEW o \in R
      PROVE  os[o.id] \in S /\ Money[o] <= Money[os[o.id]]
  <2>1. o \in Grid!Range(v) /\ o.side = "buy" /\ o.status \in Grid!SpendCommitted /\ o.day = d
    BY DEF Grid!Buys
  <2>2. /\ o.id \in DOMAIN os /\ v[o.id] = o /\ os[o.id] \in Grid!Range(os)
    BY <1>2, <2>1
  <2>3. os[o.id] \in S
    BY <1>1, <2>1, <2>2 DEF Grid!Buys
  <2>4. Money[o] = Money[os[o.id]]
    <3>1. o.price = os[o.id].price /\ o.amount = os[o.id].amount
      BY <1>1, <2>2
    <3>2. o \in Row /\ os[o.id] \in Row
      BY <1>5, <2>3
    <3> QED BY <3>1, <3>2 DEF Money
  <2>5. Money[o] \in Nat
    BY <1>5, MoneyIsNat
  <2> QED BY <2>3, <2>4, <2>5
<1>7. /\ j \in [R -> S] /\ \A o \in R : j[o] = os[o.id]
      /\ \A o, p \in R : j[o] = j[p] => o = p
  <2>1. \A o \in R : o.id \in DOMAIN os /\ v[o.id] = o /\ os[o.id].id = o.id
    BY <1>2, <1>4
  <2> QED BY <1>6, <2>1
<1>8. /\ Grid!DailySpend(os, d) = Grid!Notional(S) /\ Grid!DailySpend(v, d) = Grid!Notional(R)
  BY DEF Grid!DailySpend
<1> HIDE DEF S, R, j
<1>9. Total(Money, R) <= Total(Money, S)
  <2>1. /\ \A o \in R : Money[o] \in Int /\ Money[o] <= Money[j[o]]
        /\ \A o \in S : Money[o] \in Nat
    BY <1>5, <1>6, <1>7, MoneyIsNat
  <2> QED BY <1>5, <1>7, <2>1, TotalInto, Finite
<1> QED BY <1>3, <1>5, <1>8, <1>9, NotionalIs

(* Fewer orders are open, no more is spent. *)
LEMMA CappedWithLess ==
  ASSUME NEW os, IsTable(os), NEW v, IsTable(v), Grid!OpenOrders(v) \subseteq Grid!OpenOrders(os),
         Grid!DailySpend(v, day) <= Grid!DailySpend(os, day),
         Grid!DailySpend(v, day) \in Nat, Grid!DailySpend(os, day) \in Nat,
         NEW ts, IsFiniteSet(ts), ts \subseteq Trade, Capped(os, ts)
  PROVE  Capped(v, ts)
<1> DEFINE open == Grid!OpenOrders(os)
           open2 == Grid!OpenOrders(v)
           fees == Grid!SumOf([t \in Grid!Coins |-> FeesOf(ts, t)])
<1>1. IsFiniteSet(open) /\ open \subseteq Row /\ open2 \subseteq open
  BY OpenIs
<1>2. ASSUME NEW S \in SUBSET open, NEW R \in SUBSET S
      PROVE  /\ Grid!Notional(R) <= Grid!Notional(S) /\ Grid!Notional(R) \in Nat /\ Grid!Notional(S) \in Nat
             /\ Cardinality(R) <= Cardinality(S)
             /\ Cardinality(R) \in Nat /\ Cardinality(S) \in Nat
  <2>1. IsFiniteSet(S) /\ S \subseteq Row /\ IsFiniteSet(R)
    BY <1>1, FS_Subset
  <2> QED BY <2>1, NotionalShrinks, FS_Subset, FS_CardinalityType
<1>3. /\ Grid!Notional(open) <= Caps.totalExposure
      /\ Grid!DailySpend(os, day) <= Caps.dailySpend
      /\ Grid!TotalInventoryCost(ts) + Grid!Notional(Grid!Buys(open)) <= Caps.totalInventory + fees
      /\ \A t \in Grid!Coins :
            /\ Cardinality(Grid!Of(t, open)) <= Caps.ordersPerCoin
            /\ Grid!Notional(Grid!Of(t, open)) <= Caps.coinExposure
            /\ Grid!InventoryCost(ts, t) + Grid!Notional(Grid!Buys(Grid!Of(t, open)))
                  <= Caps.coinInventory + FeesOf(ts, t)
  BY Zenon DEF Capped
<1>4. /\ Grid!TotalInventoryCost(ts) \in Nat /\ \A t : Grid!InventoryCost(ts, t) \in Nat
      /\ fees \in Nat /\ \A t : FeesOf(ts, t) \in Nat
      /\ Caps.ordersPerCoin \in Nat /\ Caps.coinExposure \in Nat
      /\ Caps.totalExposure \in Nat /\ Caps.dailySpend \in Nat
      /\ Caps.coinInventory \in Nat /\ Caps.totalInventory \in Nat
  BY InventoryIs, AllFeesIs, FeesOfIs, PlacementAssumption
<1> HIDE DEF open, open2, fees
<1>5. Grid!Notional(open2) <= Caps.totalExposure
  BY <1>1, <1>2, <1>3, <1>4
<1>6. Grid!DailySpend(v, day) <= Caps.dailySpend
  BY <1>3, <1>4
<1>7. Grid!TotalInventoryCost(ts) + Grid!Notional(Grid!Buys(open2)) <= Caps.totalInventory + fees
  <2>1. Grid!Buys(open) \subseteq open /\ Grid!Buys(open2) \subseteq Grid!Buys(open)
    BY <1>1 DEF Grid!Buys
  <2> QED BY <1>2, <1>3, <1>4, <2>1
<1>8. ASSUME NEW t \in Grid!Coins
      PROVE  /\ Cardinality(Grid!Of(t, open2)) <= Caps.ordersPerCoin
             /\ Grid!Notional(Grid!Of(t, open2)) <= Caps.coinExposure
             /\ Grid!InventoryCost(ts, t) + Grid!Notional(Grid!Buys(Grid!Of(t, open2)))
                   <= Caps.coinInventory + FeesOf(ts, t)
  <2>1. /\ Grid!Of(t, open) \subseteq open /\ Grid!Of(t, open2) \subseteq Grid!Of(t, open)
        /\ Grid!Buys(Grid!Of(t, open)) \subseteq open /\ Grid!Buys(Grid!Of(t, open2)) \subseteq Grid!Buys(Grid!Of(t, open))
    BY <1>1 DEF Grid!Of, Grid!Buys
  <2>2. Cardinality(Grid!Of(t, open2)) <= Caps.ordersPerCoin
    BY <1>2, <1>3, <1>4, <2>1
  <2>3. Grid!Notional(Grid!Of(t, open2)) <= Caps.coinExposure
    BY <1>2, <1>3, <1>4, <2>1
  <2>4. Grid!InventoryCost(ts, t) + Grid!Notional(Grid!Buys(Grid!Of(t, open2))) <= Caps.coinInventory + FeesOf(ts, t)
    BY <1>2, <1>3, <1>4, <2>1
  <2> QED BY <2>2, <2>3, <2>4
<1> QED BY <1>5, <1>6, <1>7, <1>8, Zenon DEF Capped, open2, fees

-----------------------------------------------------------------------------
(* The fills of a coin are recorded. *)
IdsOf(D) == {o.id : o \in D}

(* What recording the fills of the orders D makes of w. *)
WithFills(w, D) ==
    [x |-> w.x,
     orders |-> [i \in DOMAIN w.orders |->
                   IF i \in IdsOf(D) THEN [w.orders[i] EXCEPT !.status = "closed"]
                   ELSE w.orders[i]],
     trades |-> w.trades \union {t \in w.x.fills : t.order \in IdsOf(D)},
     cache |-> [s \in Grid!Coins |-> IF \E o \in D : o.symbol = s THEN {} ELSE w.cache[s]],
     placed |-> w.placed]

Recorded(p, D, v) == v = WithFills(p, D)

Recordings == INSTANCE FiniteSums WITH
                Step <- Grid!RecordFill, Final <- Grid!Youngest, Keeps <- Recorded

LEMMA CandidatesAre ==
  ASSUME NEW w, IsTable(w.orders), NEW s
  PROVE  /\ IsFiniteSet(Grid!Candidates(w, s))
         /\ Grid!Candidates(w, s) \subseteq Grid!Of(s, Grid!OpenOrders(w.orders))
         /\ \A o \in Grid!Candidates(w, s) :
               /\ o \in Row /\ o.id \in DOMAIN w.orders /\ w.orders[o.id] = o
               /\ o.symbol = s /\ o.status = "open" /\ o.id \notin w.x.resting
         /\ \A T \in SUBSET Grid!Candidates(w, s) : T # {} => Grid!Youngest(T) \in T
<1> DEFINE S == Grid!Candidates(w, s)
<1>1. S \subseteq Grid!Of(s, Grid!OpenOrders(w.orders)) /\ \A o \in S : o.id \notin w.x.resting
  BY DEF Grid!Candidates
<1>2. IsFiniteSet(S)
  BY <1>1, OpenIs, FS_Subset
<1>3. \A o \in Grid!Of(s, Grid!OpenOrders(w.orders)) :
         /\ o \in Row /\ o.id \in DOMAIN w.orders /\ w.orders[o.id] = o
         /\ o.symbol = s /\ o.status = "open"
  BY OpenIs DEF Grid!Of, Grid!OpenOrders
<1>4. ASSUME NEW T \in SUBSET S, T # {}
      PROVE  Grid!Youngest(T) \in T
  <2>1. IsFiniteSet(T) /\ \A o \in T : o.id \in Int
    BY <1>1, <1>2, <1>3, <1>4, FS_Subset DEF Row
  <2> QED BY <1>4, <2>1, YoungestIs
<1> QED BY <1>1, <1>2, <1>3, <1>4

LEMMA DetectFillsIs ==
  ASSUME NEW a, NEW w, IsDesk(a, w), NEW s \in Grid!Coins
  PROVE  Grid!DetectFills(w, s) = WithFills(w, Grid!Candidates(w, s))
<1> DEFINE S == Grid!Candidates(w, s)
<1>1. /\ w = [x |-> w.x, orders |-> w.orders, trades |-> w.trades, cache |-> w.cache,
              placed |-> w.placed]
      /\ IsTable(w.orders) /\ w.cache = [r \in Grid!Coins |-> w.cache[r]]
  BY DEF IsDesk, IsBook, BasisIsKnown
<1>2. Recordings!IsFoldable(S)
  <2>1. Recordings!AllowsInduction(S)
    <3>1. IsFiniteSet(S)
      BY <1>1, CandidatesAre
    <3> HIDE DEF S
    <3> QED BY <3>1, Finite, Zenon DEF AllowsInduction, Recordings!AllowsInduction
  <2> QED BY <1>1, <2>1, CandidatesAre DEF Recordings!IsFoldable
<1>3. Recorded(w, {}, w)
  <2>1. w.orders = [i \in DOMAIN w.orders |-> w.orders[i]]
    BY <1>1 DEF IsTable
  <2> DEFINE v == WithFills(w, {})
  <2>2. /\ v.orders = w.orders /\ v.trades = w.trades /\ v.cache = w.cache
        /\ v.x = w.x /\ v.placed = w.placed
        /\ v = [x |-> v.x, orders |-> v.orders, trades |-> v.trades, cache |-> v.cache,
                placed |-> v.placed]
    BY <1>1, <2>1 DEF WithFills, IdsOf
  <2> HIDE DEF v
  <2>3. v = w
    BY <1>1, <2>2
  <2> QED BY <2>3 DEF Recorded, v
<1>4. ASSUME NEW D \in SUBSET S, NEW o \in S, NEW v, Recorded(w, D, v)
      PROVE  Recorded(w, D \union {o}, Grid!RecordFill(o, v))
  <2>1. o.id \in DOMAIN w.orders /\ o.symbol = s
    BY <1>1, CandidatesAre
  <2> DEFINE E == D \union {o}
             z == WithFills(w, E)
             y == Grid!RecordFill(o, v)
  <2>2. v = WithFills(w, D)
    BY <1>4 DEF Recorded
  <2>3. /\ v.x = w.x /\ v.placed = w.placed
        /\ v.orders = [i \in DOMAIN w.orders |->
                   IF i \in IdsOf(D) THEN [w.orders[i] EXCEPT !.status = "closed"]
                   ELSE w.orders[i]]
        /\ v.trades = w.trades \union {t \in w.x.fills : t.order \in IdsOf(D)}
        /\ v.cache = [r \in Grid!Coins |-> IF \E d \in D : d.symbol = r THEN {} ELSE w.cache[r]]
        /\ v = [x |-> v.x, orders |-> v.orders, trades |-> v.trades, cache |-> v.cache,
                placed |-> v.placed]
    BY <2>2 DEF WithFills
  <2>4. IdsOf(E) = IdsOf(D) \union {o.id}
    BY DEF IdsOf
  <2>5. [v.orders EXCEPT ![o.id].status = "closed"] = z.orders
    <3>1. z.orders = [i \in DOMAIN w.orders |->
                   IF i \in IdsOf(E) THEN [w.orders[i] EXCEPT !.status = "closed"]
                   ELSE w.orders[i]]
      BY DEF WithFills
    <3> DEFINE u == [v.orders EXCEPT ![o.id].status = "closed"]
    <3>2. DOMAIN u = DOMAIN w.orders /\ u = [i \in DOMAIN w.orders |-> u[i]]
      BY <2>3
    <3>3. \A i \in DOMAIN w.orders : u[i] = z.orders[i]
      <4> TAKE i \in DOMAIN w.orders
      <4>1. CASE i = o.id
        <5>1. u[i] = [v.orders[i] EXCEPT !.status = "closed"]
          BY <2>1, <2>3, <4>1
        <5>2. z.orders[i] = [w.orders[i] EXCEPT !.status = "closed"]
          BY <2>4, <3>1, <4>1
        <5>3. CASE i \in IdsOf(D)
          <6>1. v.orders[i] = [w.orders[i] EXCEPT !.status = "closed"]
            BY <2>3, <5>3
          <6>2. w.orders[i] \in Row
            BY <1>1, TableIs
          <6> QED BY <5>1, <5>2, <6>1, <6>2 DEF Row
        <5>4. CASE i \notin IdsOf(D)
          <6>1. v.orders[i] = w.orders[i]
            BY <2>3, <5>4
          <6> QED BY <5>1, <5>2, <6>1
        <5> QED BY <5>3, <5>4
      <4>2. CASE i # o.id
        <5>1. u[i] = v.orders[i]
          BY <2>3, <4>2
        <5>2. i \in IdsOf(E) <=> i \in IdsOf(D)
          BY <2>4, <4>2
        <5> HIDE DEF E, u
        <5> QED BY <2>3, <3>1, <5>1, <5>2
      <4> QED BY <4>1, <4>2
    <3> HIDE DEF u
    <3> QED BY <3>1, <3>2, <3>3 DEF u
  <2>6. v.trades \union {t \in v.x.fills : t.order = o.id} = z.trades
    <3>1. z.trades = w.trades \union {t \in w.x.fills : t.order \in IdsOf(E)}
      BY DEF WithFills
    <3> QED BY <2>3, <2>4, <3>1
  <2>7. [v.cache EXCEPT ![o.symbol] = {}] = z.cache
    <3>1. z.cache = [r \in Grid!Coins |-> IF \E d \in E : d.symbol = r THEN {} ELSE w.cache[r]]
      BY DEF WithFills
    <3> DEFINE u == [v.cache EXCEPT ![o.symbol] = {}]
    <3>2. u = [r \in Grid!Coins |-> u[r]]
      BY <2>3
    <3>3. ASSUME NEW r \in Grid!Coins
          PROVE  u[r] = z.cache[r]
      <4>1. u[r] = IF r = o.symbol THEN {} ELSE v.cache[r]
        BY <2>3, <3>3
      <4>2. (\E d \in E : d.symbol = r) <=> (r = o.symbol \/ \E d \in D : d.symbol = r)
        OBVIOUS
      <4> HIDE DEF E, u
      <4> QED BY <2>3, <3>1, <3>3, <4>1, <4>2
    <3> HIDE DEF u
    <3> QED BY <3>1, <3>2, <3>3 DEF u
  <2>8. /\ z.x = w.x /\ z.placed = w.placed
        /\ z = [x |-> z.x, orders |-> z.orders, trades |-> z.trades, cache |-> z.cache,
                placed |-> z.placed]
    BY DEF WithFills
  <2>9. y = [v EXCEPT !.orders[o.id].status = "closed",
                      !.trades = @ \union {t \in v.x.fills : t.order = o.id},
                      !.cache[o.symbol] = {}]
    BY DEF Grid!RecordFill
  <2> HIDE DEF y, z, E
  <2>10. y = z
    <3>1. /\ y.x = v.x /\ y.placed = v.placed
          /\ y.orders = [v.orders EXCEPT ![o.id].status = "closed"]
          /\ y.trades = v.trades \union {t \in v.x.fills : t.order = o.id}
          /\ y.cache = [v.cache EXCEPT ![o.symbol] = {}]
          /\ y = [x |-> y.x, orders |-> y.orders, trades |-> y.trades, cache |-> y.cache,
                  placed |-> y.placed]
      BY <2>3, <2>9
    <3> QED BY <2>3, <2>5, <2>6, <2>7, <2>8, <3>1
  <2> QED BY <2>10 DEF Recorded, y, z, E
<1>5. Recorded(w, S, Recordings!Fold(w, S))
  <2>1. \A D \in SUBSET S, o \in S : \A v :
           (o \notin D /\ Grid!Youngest(D \union {o}) = o /\ Recorded(w, D, v))
              => Recorded(w, D \union {o}, Grid!RecordFill(o, v))
    BY <1>4
  <2> HIDE DEF S
  <2> QED BY <1>2, <1>3, <2>1, Recordings!FoldKeeps
<1>6. Grid!DetectFills(w, s) = Recordings!Fold(w, S)
  BY Zenon DEF Grid!DetectFills, Grid!InOrder, Grid!MapThenFoldSet, Recordings!Fold, Recordings!MapThenFoldSet
<1> QED BY <1>5, <1>6 DEF Recorded

-----------------------------------------------------------------------------
(* What the fills of some orders cost is the notional of the BUYs of them  *)
(* and the fees.                                                           *)
Paid == [t \in Trade |-> IF t.side = "buy" THEN t.price * t.amount ELSE 0]
Committed == [o \in Row |-> IF o.side = "buy" THEN Money[o] ELSE 0]

LEMMA CommittedIs ==
  ASSUME NEW C, IsFiniteSet(C), C \subseteq Row
  PROVE  Total(Committed, C) = Grid!Notional(Grid!Buys(C)) /\ \A o \in C : Committed[o] \in Nat
<1>1. IsFiniteSet(Grid!Buys(C)) /\ Grid!Buys(C) \subseteq C /\ Grid!Buys(C) \subseteq Row
      /\ \A o \in C \ Grid!Buys(C) : o.side # "buy"
  BY FS_Subset DEF Grid!Buys
<1>2. /\ \A o \in C : Committed[o] \in Nat
      /\ \A o \in C \ Grid!Buys(C) : Committed[o] = 0
      /\ \A o \in Grid!Buys(C) : Committed[o] = Money[o]
  BY <1>1, MoneyIsNat DEF Committed, Grid!Buys
<1>3. Total(Committed, C) = Total(Committed, Grid!Buys(C))
  BY <1>1, <1>2, TotalOfWeighed, Finite
<1>4. Total(Committed, Grid!Buys(C)) = Total(Money, Grid!Buys(C))
  BY <1>1, <1>2, TotalSame, Finite
<1> QED BY <1>1, <1>2, <1>3, <1>4, NotionalIs

LEMMA OutlayOnFills ==
  ASSUME NEW N, IsFiniteSet(N), N \subseteq Trade,
         NEW C, IsFiniteSet(C), C \subseteq Row,
         NEW j \in [N -> C], \A t, u \in N : j[t] = j[u] => t = u,
         \A t \in N : IsFillOf(t, j[t])
  PROVE  /\ Total(Outlay, N) <= Grid!Notional(Grid!Buys(C)) + Total(FeeOf, N)
         /\ Total(Outlay, N) \in Nat /\ Total(FeeOf, N) \in Nat /\ Grid!Notional(Grid!Buys(C)) \in Nat
<1> DEFINE both == [t \in N |-> Paid[t] + FeeOf[t]]
<1>1. \A t \in N : /\ Paid[t] \in Nat /\ FeeOf[t] \in Nat /\ Outlay[t] \in Nat
                   /\ Outlay[t] <= Paid[t] + FeeOf[t]
                   /\ Paid[t] <= Committed[j[t]] /\ Committed[j[t]] \in Nat
  <2> TAKE t \in N
  <2>1. t \in Trade /\ j[t] \in Row /\ t.side = j[t].side
        /\ t.price = j[t].price /\ t.amount = j[t].amount
    BY DEF IsFillOf
  <2>2. t.price * t.amount \in Nat /\ t.fee \in Nat
    <3>1. t.price \in Nat /\ t.amount \in Nat /\ t.fee \in Nat
      BY <2>1 DEF Trade
    <3> QED BY <3>1
  <2> DEFINE m == t.price * t.amount
  <2>3. /\ Outlay[t] = IF t.side = "buy" THEN m + t.fee ELSE 0
        /\ Paid[t] = IF t.side = "buy" THEN m ELSE 0
        /\ FeeOf[t] = t.fee + 1
    BY <2>1 DEF Outlay, Paid, FeeOf
  <2>4. Committed[j[t]] = IF t.side = "buy" THEN m ELSE 0
    BY <2>1 DEF Committed, Money
  <2>5. m \in Nat
    BY <2>2
  <2> HIDE DEF m
  <2> QED BY <2>2, <2>3, <2>4, <2>5
<1>2. \A t \in N : both[t] = Paid[t] + FeeOf[t]
  OBVIOUS
<1> HIDE DEF both
<1>3. Total(Outlay, N) <= Total(both, N)
  <2>1. \A t \in N : Outlay[t] \in Int /\ both[t] \in Nat /\ Outlay[t] <= both[t]
    BY <1>1, <1>2
  <2> QED BY <2>1, TotalAtMost, Finite
<1>4. Total(both, N) = Total(Paid, N) + Total(FeeOf, N)
  BY <1>1, <1>2, TotalPlus, Finite
<1>5. Total(Paid, N) <= Total(Committed, C)
  BY <1>1, CommittedIs, TotalInto, Finite
<1>6. Total(Committed, C) = Grid!Notional(Grid!Buys(C))
  BY CommittedIs
<1>7. Total(Paid, N) \in Nat /\ Total(FeeOf, N) \in Nat /\ Total(Outlay, N) \in Nat
      /\ Total(Committed, C) \in Nat
  BY <1>1, CommittedIs, TotalNat, Finite
<1> QED BY <1>3, <1>4, <1>5, <1>6, <1>7

(* A sum over the coins, when one of them changes. *)
LEMMA OneCoinChanges ==
  ASSUME NEW f, NEW g, \A r \in Grid!Coins : f[r] \in Int /\ g[r] \in Int,
         NEW s \in Grid!Coins, \A r \in Grid!Coins : r # s => f[r] = g[r]
  PROVE  Total(g, Grid!Coins) = Total(f, Grid!Coins) + (g[s] - f[s])
<1> DEFINE R == Grid!Coins \ {s}
<1>1. Total(f, Grid!Coins) = f[s] + Total(f, R) /\ Total(g, Grid!Coins) = g[s] + Total(g, R)
  BY CoinsAreFinite, TotalRemove, Finite
<1>2. IsFiniteSet(R) /\ \A r \in R : f[r] = g[r] /\ f[r] \in Int
  BY CoinsAreFinite, FS_Subset
<1> HIDE DEF R
<1>3. Total(f, R) = Total(g, R) /\ Total(f, R) \in Int
  BY <1>2, TotalSame, TotalInt, Finite
<1>4. f[s] \in Int /\ g[s] \in Int
  OBVIOUS
<1> QED BY <1>1, <1>3, <1>4

(* What orders bind becomes what their fills cost. *)
LEMMA RecordedIsCapped ==
  ASSUME NEW os, IsTable(os), NEW ts, IsFiniteSet(ts), ts \subseteq Trade, Capped(os, ts),
         NEW v, Closing(os, v), NEW s \in Grid!Coins,
         NEW C, C \subseteq Grid!Of(s, Grid!OpenOrders(os)), Grid!OpenOrders(v) = Grid!OpenOrders(os) \ C,
         NEW N, IsFiniteSet(N), N \subseteq Trade, N \intersect ts = {},
         \A t \in N : t.symbol = s,
         \A t \in Grid!Of(s, ts), u \in N : t.at < u.at,
         NEW j \in [N -> C], \A t, u \in N : j[t] = j[u] => t = u,
         \A t \in N : IsFillOf(t, j[t])
  PROVE  Capped(v, ts \union N)
<1> DEFINE open == Grid!OpenOrders(os)
           open2 == Grid!OpenOrders(v)
           ts2 == ts \union N
           fee == Total(FeeOf, N)
           bound == Grid!Notional(Grid!Buys(C))
<1>1. IsTable(v) /\ Capped(v, ts)
  <2>1. /\ IsTable(v) /\ Grid!OpenOrders(v) \subseteq Grid!OpenOrders(os)
        /\ Grid!DailySpend(v, day) <= Grid!DailySpend(os, day)
        /\ Grid!DailySpend(v, day) \in Nat /\ Grid!DailySpend(os, day) \in Nat
    BY ClosingIs, ClosingShrinks
  <2> QED BY <2>1, CappedWithLess
<1>2. /\ IsFiniteSet(open) /\ open \subseteq Row /\ IsFiniteSet(C) /\ C \subseteq open
      /\ \A o \in C : o.symbol = s
  BY OpenIs, FS_Subset DEF Grid!Of
<1>3. /\ Total(Outlay, N) <= bound + fee
      /\ Total(Outlay, N) \in Nat /\ fee \in Nat /\ bound \in Nat
  BY <1>2, OutlayOnFills
<1>4. /\ IsFiniteSet(ts2) /\ ts2 \subseteq Trade
      /\ Grid!Of(s, ts2) = Grid!Of(s, ts) \union N
      /\ \A r \in Grid!Coins : r # s => Grid!Of(r, ts2) = Grid!Of(r, ts)
  BY FS_Union DEF Grid!Of
<1> HIDE DEF fee, ts2
<1>5. /\ \A r \in Grid!Coins : r # s => /\ FeesOf(ts2, r) = FeesOf(ts, r)
                                  /\ Grid!InventoryCost(ts2, r) = Grid!InventoryCost(ts, r)
  BY <1>4 DEF FeesOf, Grid!InventoryCost
<1>6. FeesOf(ts2, s) = FeesOf(ts, s) + fee
  <2>1. /\ FeesOf(ts2, s) = Total(FeeOf, Grid!Of(s, ts2)) /\ FeesOf(ts, s) = Total(FeeOf, Grid!Of(s, ts))
        /\ IsFiniteSet(Grid!Of(s, ts2)) /\ Grid!Of(s, ts2) \subseteq Trade
    BY <1>4, FeesOfIs
  <2>2. \A t \in Trade : FeeOf[t] \in Int
    BY DEF FeeOf, Trade
  <2>3. Grid!Of(s, ts) \subseteq Grid!Of(s, ts2) /\ Grid!Of(s, ts2) \ Grid!Of(s, ts) = N
    BY <1>4 DEF Grid!Of
  <2>4. Total(FeeOf, Grid!Of(s, ts2))
           = Total(FeeOf, Grid!Of(s, ts)) + Total(FeeOf, Grid!Of(s, ts2) \ Grid!Of(s, ts))
    BY <2>1, <2>2, <2>3, TotalSplit, Finite
  <2>5. Total(FeeOf, Grid!Of(s, ts2) \ Grid!Of(s, ts)) = fee
    BY <2>3, Zenon DEF fee
  <2> QED BY <2>1, <2>4, <2>5
<1>7. Grid!InventoryCost(ts2, s) <= Grid!InventoryCost(ts, s) + Total(Outlay, N)
  <2>1. IsFiniteSet(Grid!Of(s, ts)) /\ Grid!Of(s, ts) \subseteq Trade
    BY FeesOfIs
  <2>2. Grid!ReplayAverageCost(Grid!Of(s, ts) \union N).cost
           <= Grid!ReplayAverageCost(Grid!Of(s, ts)).cost + Total(Outlay, N)
    BY <2>1, ReplayGrows
  <2>3. Grid!ReplayAverageCost(Grid!Of(s, ts2)) = Grid!ReplayAverageCost(Grid!Of(s, ts) \union N)
    BY <1>4, Zenon
  <2> QED BY <2>2, <2>3 DEF Grid!InventoryCost
<1>8. /\ \A r : Grid!InventoryCost(ts, r) \in Nat /\ Grid!InventoryCost(ts2, r) \in Nat
      /\ \A r : FeesOf(ts, r) \in Nat /\ FeesOf(ts2, r) \in Nat
  BY <1>4, InventoryIs, FeesOfIs
<1>9. Grid!InventoryCost(ts2, s) - FeesOf(ts2, s) <= Grid!InventoryCost(ts, s) - FeesOf(ts, s) + bound
  <2>1. Grid!InventoryCost(ts, s) \in Nat /\ Grid!InventoryCost(ts2, s) \in Nat
        /\ FeesOf(ts, s) \in Nat /\ FeesOf(ts2, s) \in Nat
    BY <1>8
  <2> HIDE DEF bound
  <2> QED BY <1>3, <1>6, <1>7, <2>1
<1> DEFINE cost == [r \in Grid!Coins |-> Grid!InventoryCost(ts, r)]
           cost2 == [r \in Grid!Coins |-> Grid!InventoryCost(ts2, r)]
           fees == [r \in Grid!Coins |-> FeesOf(ts, r)]
           fees2 == [r \in Grid!Coins |-> FeesOf(ts2, r)]
<1>10. /\ Grid!TotalInventoryCost(ts2) = Total(cost2, Grid!Coins)
       /\ Grid!TotalInventoryCost(ts) = Total(cost, Grid!Coins)
       /\ Grid!SumOf(fees2) = Total(fees2, Grid!Coins) /\ Grid!SumOf(fees) = Total(fees, Grid!Coins)
       /\ Total(cost2, Grid!Coins) \in Nat /\ Total(cost, Grid!Coins) \in Nat
       /\ Total(fees2, Grid!Coins) \in Nat /\ Total(fees, Grid!Coins) \in Nat
  BY <1>4, InventoryIs, AllFeesIs
<1>11. /\ Total(cost2, Grid!Coins) = Total(cost, Grid!Coins) + (Grid!InventoryCost(ts2, s) - Grid!InventoryCost(ts, s))
       /\ Total(fees2, Grid!Coins) = Total(fees, Grid!Coins) + (FeesOf(ts2, s) - FeesOf(ts, s))
  <2>1. /\ cost[s] = Grid!InventoryCost(ts, s) /\ cost2[s] = Grid!InventoryCost(ts2, s)
        /\ fees[s] = FeesOf(ts, s) /\ fees2[s] = FeesOf(ts2, s)
        /\ \A r \in Grid!Coins : cost[r] \in Int /\ cost2[r] \in Int /\ fees[r] \in Int /\ fees2[r] \in Int
        /\ \A r \in Grid!Coins : r # s => cost[r] = cost2[r] /\ fees[r] = fees2[r]
    BY <1>5, <1>8
  <2> HIDE DEF cost, cost2, fees, fees2
  <2>2. Total(cost2, Grid!Coins) = Total(cost, Grid!Coins) + (cost2[s] - cost[s])
    BY <2>1, OneCoinChanges
  <2>3. Total(fees2, Grid!Coins) = Total(fees, Grid!Coins) + (fees2[s] - fees[s])
    BY <2>1, OneCoinChanges
  <2> QED BY <2>1, <2>2, <2>3
<1>12. ASSUME NEW S \in SUBSET open, NEW R, C \subseteq S, R = S \ C
       PROVE  /\ Grid!Notional(Grid!Buys(S)) = bound + Grid!Notional(Grid!Buys(R))
              /\ Grid!Notional(Grid!Buys(R)) \in Nat
  <2>1. Grid!Buys(C) \subseteq Grid!Buys(S) /\ Grid!Buys(S) \ Grid!Buys(C) = Grid!Buys(R) /\ Grid!Buys(S) \subseteq open
    BY <1>12 DEF Grid!Buys
  <2>2. IsFiniteSet(Grid!Buys(S)) /\ Grid!Buys(S) \subseteq Row
    BY <1>2, <2>1, FS_Subset
  <2>3. /\ Grid!Notional(Grid!Buys(S)) = Grid!Notional(Grid!Buys(C)) + Grid!Notional(Grid!Buys(S) \ Grid!Buys(C))
        /\ Grid!Notional(Grid!Buys(S) \ Grid!Buys(C)) \in Nat
    BY <2>1, <2>2, NotionalSplit
  <2>4. Grid!Notional(Grid!Buys(S) \ Grid!Buys(C)) = Grid!Notional(Grid!Buys(R))
    BY <2>1, Zenon
  <2> QED BY <2>3, <2>4
<1>13. /\ Grid!Notional(open2) <= Caps.totalExposure
       /\ Grid!DailySpend(v, day) <= Caps.dailySpend
       /\ \A r \in Grid!Coins :
            /\ Cardinality(Grid!Of(r, open2)) <= Caps.ordersPerCoin
            /\ Grid!Notional(Grid!Of(r, open2)) <= Caps.coinExposure
            /\ Grid!InventoryCost(ts, r) + Grid!Notional(Grid!Buys(Grid!Of(r, open2)))
                  <= Caps.coinInventory + FeesOf(ts, r)
  BY <1>1, Zenon DEF Capped
<1>14. /\ Grid!TotalInventoryCost(ts) + Grid!Notional(Grid!Buys(open)) <= Caps.totalInventory + Grid!SumOf(fees)
       /\ Grid!InventoryCost(ts, s) + Grid!Notional(Grid!Buys(Grid!Of(s, open))) <= Caps.coinInventory + FeesOf(ts, s)
  BY Zenon DEF Capped
<1>15. Caps.coinInventory \in Nat /\ Caps.totalInventory \in Nat
  BY PlacementAssumption
<1>16. open2 = open \ C /\ Grid!Of(s, open2) = Grid!Of(s, open) \ C /\ C \subseteq Grid!Of(s, open)
       /\ Grid!Of(s, open) \subseteq open
  BY DEF Grid!Of
<1>17. /\ Grid!Notional(Grid!Buys(open)) = bound + Grid!Notional(Grid!Buys(open2))
       /\ Grid!Notional(Grid!Buys(open2)) \in Nat
       /\ Grid!Notional(Grid!Buys(Grid!Of(s, open))) = bound + Grid!Notional(Grid!Buys(Grid!Of(s, open2)))
       /\ Grid!Notional(Grid!Buys(Grid!Of(s, open2))) \in Nat
  <2> HIDE DEF open, open2, bound
  <2> QED BY <1>2, <1>12, <1>16
<1> HIDE DEF bound, open, open2, cost, cost2, fees, fees2
<1>18. Grid!TotalInventoryCost(ts2) + Grid!Notional(Grid!Buys(open2)) <= Caps.totalInventory + Grid!SumOf(fees2)
  <2> DEFINE i == Grid!InventoryCost(ts, s)
             i2 == Grid!InventoryCost(ts2, s)
             f == FeesOf(ts, s)
             f2 == FeesOf(ts2, s)
             k == Total(cost, Grid!Coins)
             k2 == Total(cost2, Grid!Coins)
             l == Total(fees, Grid!Coins)
             l2 == Total(fees2, Grid!Coins)
             n == Grid!Notional(Grid!Buys(open2))
  <2>1. /\ i \in Nat /\ i2 \in Nat /\ f \in Nat /\ f2 \in Nat /\ n \in Nat
        /\ k \in Nat /\ k2 \in Nat /\ l \in Nat /\ l2 \in Nat
    BY <1>8, <1>10, <1>17
  <2>2. i2 - f2 <= i - f + bound /\ k2 = k + (i2 - i) /\ l2 = l + (f2 - f)
        /\ k + (bound + n) <= Caps.totalInventory + l
    BY <1>9, <1>10, <1>11, <1>14, <1>17
  <2> HIDE DEF i, i2, f, f2, k, k2, l, l2, n
  <2>3. k2 + n <= Caps.totalInventory + l2
    BY <1>3, <1>15, <2>1, <2>2
  <2> QED BY <1>10, <2>3 DEF k2, l2, n
<1>19. Grid!InventoryCost(ts2, s) + Grid!Notional(Grid!Buys(Grid!Of(s, open2))) <= Caps.coinInventory + FeesOf(ts2, s)
  <2> DEFINE i == Grid!InventoryCost(ts, s)
             i2 == Grid!InventoryCost(ts2, s)
             f == FeesOf(ts, s)
             f2 == FeesOf(ts2, s)
             n == Grid!Notional(Grid!Buys(Grid!Of(s, open2)))
  <2>1. i \in Nat /\ i2 \in Nat /\ f \in Nat /\ f2 \in Nat /\ n \in Nat
    BY <1>8, <1>17
  <2>2. i2 - f2 <= i - f + bound /\ i + (bound + n) <= Caps.coinInventory + f
    BY <1>9, <1>14, <1>17
  <2> HIDE DEF i, i2, f, f2, n
  <2>3. i2 + n <= Caps.coinInventory + f2
    BY <1>3, <1>15, <2>1, <2>2
  <2> QED BY <2>3 DEF i2, f2, n
<1>20. ASSUME NEW r \in Grid!Coins
       PROVE  Grid!InventoryCost(ts2, r) + Grid!Notional(Grid!Buys(Grid!Of(r, open2)))
                 <= Caps.coinInventory + FeesOf(ts2, r)
  <2>1. CASE r = s
    BY <1>19, <2>1
  <2>2. CASE r # s
    BY <1>5, <1>13, <2>2
  <2> QED BY <2>1, <2>2
<1> QED BY <1>13, <1>18, <1>20, Zenon DEF Capped, open2, ts2, fees2

-----------------------------------------------------------------------------
LEMMA IsSeqOf ==
  ASSUME NEW n \in Nat, NEW R, NEW q, q = [i \in 1..n |-> q[i]], \A i \in 1..n : q[i] \in R
  PROVE  q \in Seq(R)
  OBVIOUS

(* Recording the fills of a coin keeps the desk in order, and the caps. *)
LEMMA DetectFillsKeeps ==
  ASSUME NEW a, NEW w, IsDesk(a, w), Capped(w.orders, w.trades), NEW s \in Grid!Coins
  PROVE  LET v == Grid!DetectFills(w, s)
         IN /\ IsDesk(a, v) /\ Capped(v.orders, v.trades)
            /\ Closing(w.orders, v.orders) /\ v.placed = w.placed
            /\ \A o \in Grid!Candidates(w, s) : v.orders[o.id].status = "closed"
<1> DEFINE os == w.orders
           ts == w.trades
           C == Grid!Candidates(w, s)
           N == {t \in w.x.fills : t.order \in IdsOf(C)}
           v == WithFills(w, C)
           q == v.orders
<1>1. /\ IsBook(a, os) /\ IsTable(os) /\ IsLedger(w.x) /\ FillsMatch(os, w.x)
      /\ TradesMatch(os, ts, w.x) /\ BasisIsKnown(w.cache, ts) /\ w.placed \in Nat
  BY DEF IsDesk, IsBook
<1>2. /\ v.x = w.x /\ v.placed = w.placed /\ v.trades = ts \union N
      /\ q = [i \in DOMAIN os |-> IF i \in IdsOf(C) THEN [os[i] EXCEPT !.status = "closed"]
                                         ELSE os[i]]
      /\ v.cache = [r \in Grid!Coins |-> IF \E o \in C : o.symbol = r THEN {} ELSE w.cache[r]]
      /\ v = [x |-> v.x, orders |-> v.orders, trades |-> v.trades, cache |-> v.cache,
              placed |-> v.placed]
      /\ q = v.orders
  BY DEF WithFills
<1>3. /\ IsFiniteSet(C) /\ C \subseteq Grid!Of(s, Grid!OpenOrders(os))
      /\ \A o \in C : /\ o \in Row /\ o.id \in DOMAIN os /\ os[o.id] = o
                      /\ o.symbol = s /\ o.status = "open" /\ o.id \notin w.x.resting
  BY <1>1, CandidatesAre
<1> HIDE DEF v, q
<1>4. \A i \in IdsOf(C) : i \in DOMAIN os /\ os[i] \in C /\ os[i].status = "open"
                         /\ os[i].symbol = s
  BY <1>3 DEF IdsOf
<1>5. Closing(os, q)
  <2>1. DOMAIN os = 1..Len(os) /\ Len(os) \in Nat /\ \A i \in DOMAIN os : os[i] \in Row
    BY <1>1, TableIs
  <2>2. \A i \in DOMAIN os : q[i] \in Row
    <3> TAKE i \in DOMAIN os
    <3>1. os[i] \in Row /\ (q[i] = os[i] \/ q[i] = [os[i] EXCEPT !.status = "closed"])
      BY <1>2, <2>1
    <3> HIDE DEF os
    <3> QED BY <3>1 DEF Row
  <2>3. q \in Seq(Row)
    <3>1. q = [i \in 1..Len(os) |-> q[i]] /\ \A i \in 1..Len(os) : q[i] \in Row
      BY <1>2, <2>1, <2>2
    <3> QED BY <2>1, <3>1, IsSeqOf
  <2> QED BY <1>2, <1>4, <2>3 DEF Closing
<1>6. /\ IsTable(q) /\ DOMAIN q = DOMAIN os
      /\ \A i \in DOMAIN os :
               /\ q[i].id = i /\ q[i].symbol = os[i].symbol
               /\ q[i].side = os[i].side
               /\ q[i].price = os[i].price /\ q[i].amount = os[i].amount
               /\ q[i].status = "open" => q[i] = os[i]
  <2>1. DOMAIN q = DOMAIN os
    BY <1>5 DEF Closing
  <2> QED BY <1>1, <1>5, <2>1, ClosingIs
<1>7. IsBook(a, q) /\ FillsMatch(q, w.x) /\ TradesMatch(q, ts, w.x)
  BY <1>1, <1>5, ClosingKeeps
<1>8. \A o \in C : q[o.id].status = "closed"
  <2> SUFFICES ASSUME NEW o \in C
               PROVE  q[o.id].status = "closed"
    OBVIOUS
  <2>1. o.id \in IdsOf(C) /\ o.id \in DOMAIN os /\ os[o.id] \in Row
    BY <1>3 DEF IdsOf
  <2>2. q[o.id] = [os[o.id] EXCEPT !.status = "closed"]
    BY <1>2, <2>1
  <2> QED BY <2>1, <2>2 DEF Row
<1>9. /\ N \subseteq w.x.fills /\ IsFiniteSet(N) /\ N \subseteq Trade
      /\ \A t \in N : /\ t.order \in IdsOf(C) /\ t.order \in DOMAIN os /\ t.symbol = s
                      /\ IsFillOf(t, os[t.order]) /\ os[t.order] \in C
                      /\ os[t.order].status = "open"
                      /\ t.at <= w.x.clock
  <2>1. N \subseteq w.x.fills /\ \A t \in N : t.order \in IdsOf(C)
    OBVIOUS
  <2>2. IsFiniteSet(N) /\ N \subseteq Trade
    <3>1. IsFiniteSet(w.x.fills) /\ w.x.fills \subseteq Trade
      BY <1>1 DEF IsLedger
    <3> HIDE DEF N
    <3> QED BY <2>1, <3>1, FS_Subset
  <2>3. \A t \in w.x.fills : IsFillOf(t, os[t.order]) /\ t.at <= w.x.clock
    BY <1>1 DEF FillsMatch
  <2> QED BY <1>4, <2>1, <2>2, <2>3 DEF IsFillOf
<1>10. /\ IsFiniteSet(ts) /\ ts \subseteq Trade
       /\ \A t \in ts : /\ t.order \in DOMAIN os /\ IsFillOf(t, q[t.order])
                        /\ t.at <= w.x.clock
       /\ \A t \in ts, u \in ts \union w.x.fills : t.at = u.at => t = u
  BY <1>6, <1>7 DEF TradesMatch
<1>11. \A t, u \in w.x.fills : t.order = u.order \/ t.at = u.at => t = u
  BY <1>1 DEF FillsMatch
<1>12. \A t \in ts, u \in N : u.symbol = t.symbol => t.at < u.at
  BY <1>1, <1>9 DEF TradesMatch
<1>13. N \intersect ts = {}
  <2>1. \A u \in N : u.at \in Int
    BY <1>9 DEF Trade
  <2> QED BY <1>12, <2>1
<1> HIDE DEF C, N
<1>14. TradesMatch(q, v.trades, w.x)
  <2>1. v.trades \subseteq Trade /\ IsFiniteSet(v.trades)
    <3>1. ts \union N \subseteq Trade /\ IsFiniteSet(ts \union N)
      BY <1>9, <1>10, FS_Union
    <3> QED BY <1>2, <3>1, Zenon
  <2>2. \A t \in v.trades : /\ t.order \in DOMAIN q /\ IsFillOf(t, q[t.order])
                            /\ t.at <= w.x.clock
    <3>1. \A t \in N : t.order \in DOMAIN os /\ IsFillOf(t, q[t.order]) /\ t.at <= w.x.clock
      BY <1>6, <1>9 DEF IsFillOf
    <3> QED BY <1>2, <1>6, <1>10, <3>1
  <2>3. \A t \in v.trades, u \in v.trades \union w.x.fills : t.at = u.at => t = u
    BY <1>2, <1>9, <1>10, <1>11
  <2>4. ASSUME NEW t \in v.trades, NEW u \in w.x.fills,
               q[u.order].status = "open", u.symbol = t.symbol
        PROVE  t.at < u.at
    <3>1. CASE t \in ts
      BY <1>7, <2>4, <3>1 DEF TradesMatch
    <3>2. CASE t \in N
      <4>1. u.symbol = s /\ u.order \in DOMAIN os /\ u.order \notin w.x.resting
            /\ IsFillOf(u, os[u.order])
        BY <1>1, <1>9, <2>4, <3>2 DEF FillsMatch
      <4>2. os[u.order].status = "open" /\ os[u.order].symbol = s /\ os[u.order].id = u.order
        BY <1>1, <1>6, <2>4, <4>1, TableIs DEF IsFillOf
      <4>3. os[u.order] \in C
        BY <1>1, <4>1, <4>2, OpenIs DEF C, Grid!Candidates, Grid!Of
      <4>4. q[u.order].status = "closed"
        BY <1>8, <4>2, <4>3
      <4> QED BY <2>4, <4>4
    <3> QED BY <1>2, <2>4, <3>1, <3>2
  <2> QED BY <2>1, <2>2, <2>3, <2>4 DEF TradesMatch
<1>15. BasisIsKnown(v.cache, v.trades)
  <2>1. ASSUME NEW r \in Grid!Coins
        PROVE  v.cache[r] \subseteq {Grid!ReplayAverageCost(Grid!Of(r, v.trades))}
    <3>1. CASE \E o \in C : o.symbol = r
      BY <1>2, <3>1
    <3>2. CASE ~ \E o \in C : o.symbol = r
      <4>1. \A t \in N : t.symbol # r
        BY <1>3, <1>9, <3>2
      <4>2. Grid!Of(r, v.trades) = Grid!Of(r, ts)
        BY <1>2, <4>1 DEF Grid!Of
      <4>3. v.cache[r] = w.cache[r]
        BY <1>2, <3>2
      <4>4. w.cache[r] \subseteq {Grid!ReplayAverageCost(Grid!Of(r, ts))}
        BY <1>1 DEF BasisIsKnown
      <4> QED BY <4>2, <4>3, <4>4
    <3> QED BY <3>1, <3>2
  <2>2. v.cache = [r \in Grid!Coins |-> v.cache[r]]
    BY <1>2
  <2> QED BY <2>1, <2>2 DEF BasisIsKnown
<1>16. IsDesk(a, v)
  BY <1>1, <1>2, <1>7, <1>14, <1>15 DEF IsDesk
<1>17. Capped(q, v.trades)
  <2> DEFINE j == [t \in N |-> os[t.order]]
  <2>1. j \in [N -> C] /\ \A t \in N : j[t] = os[t.order] /\ IsFillOf(t, j[t])
    BY <1>9
  <2>2. \A t, u \in N : j[t] = j[u] => t = u
    <3>1. \A t \in N : os[t.order].id = t.order
      BY <1>1, <1>9, TableIs
    <3> QED BY <1>9, <1>11, <2>1, <3>1
  <2>3. Grid!OpenOrders(q) = Grid!OpenOrders(os) \ C
    <3>1. ASSUME NEW o \in Grid!OpenOrders(q)
          PROVE  o \in Grid!OpenOrders(os) \ C
      <4>1. o \in Grid!OpenOrders(os)
        BY <1>1, <1>5, ClosingShrinks
      <4>2. o.id \in DOMAIN q /\ q[o.id] = o /\ o.status = "open"
        BY <1>6, <3>1, OpenIs DEF Grid!OpenOrders
      <4>3. o \notin C
        BY <1>8, <4>2
      <4> QED BY <4>1, <4>3
    <3>2. ASSUME NEW o \in Grid!OpenOrders(os), o \notin C
          PROVE  o \in Grid!OpenOrders(q)
      <4>1. o.id \in DOMAIN os /\ os[o.id] = o /\ o.status = "open"
        BY <1>1, OpenIs DEF Grid!OpenOrders
      <4>2. o.id \notin IdsOf(C)
        BY <1>4, <3>2, <4>1
      <4>3. q[o.id] = o
        BY <1>2, <4>1, <4>2
      <4> QED BY <1>6, <4>1, <4>3, OpenIs
    <3> QED BY <3>1, <3>2
  <2>4. \A t \in Grid!Of(s, ts), u \in N : t.at < u.at
    BY <1>9, <1>12 DEF Grid!Of
  <2> HIDE DEF j
  <2>5. Capped(q, ts \union N)
    <3>1. Closing(os, q) /\ Grid!OpenOrders(q) = Grid!OpenOrders(os) \ C
      BY <1>5, <2>3
    <3>2. Capped(os, ts)
      OBVIOUS
    <3>3. \A t, u \in N : j[t] = j[u] => t = u
      BY <2>2
    <3> HIDE DEF os, ts
    <3>4. /\ IsTable(os) /\ IsFiniteSet(ts) /\ ts \subseteq Trade
          /\ C \subseteq Grid!Of(s, Grid!OpenOrders(os))
          /\ IsFiniteSet(N) /\ N \subseteq Trade /\ \A t \in N : t.symbol = s
      BY <1>1, <1>3, <1>9, <1>10
    <3> QED BY <1>13, <2>1, <2>4, <3>1, <3>2, <3>3, <3>4, RecordedIsCapped
  <2>6. Capped(q, ts \union N) => Capped(q, v.trades)
    BY <1>2, Zenon
  <2> QED BY <1>2, <2>5, <2>6
<1>18. Grid!DetectFills(w, s) = v
  BY DetectFillsIs DEF v, C
<1> QED BY <1>2, <1>5, <1>8, <1>16, <1>17, <1>18 DEF C

-----------------------------------------------------------------------------
(* Placing the orders of one coin.  p has the anchors, the coin and what   *)
(* the placing began from.                                                 *)
Guarded(ts, o) ==
    o.side = "sell" =>
        Grid!SellAllowed(o.price, Grid!ReplayAverageCost(Grid!Of(o.symbol, ts)), MaxLossPercent, MakerFee)

Laid(p, D, v) ==
    /\ IsDesk(p.anchor, v) /\ Capped(v.orders, v.trades)
    /\ v.trades = p.from.trades
    /\ DOMAIN p.from.orders \subseteq DOMAIN v.orders
    /\ \A i \in DOMAIN p.from.orders : v.orders[i] = p.from.orders[i]
    /\ \A i \in DOMAIN v.orders \ DOMAIN p.from.orders :
          v.orders[i].symbol = p.coin /\ Guarded(v.trades, v.orders[i])
    /\ p.from.placed \in Nat /\ v.placed \in Nat /\ v.placed >= p.from.placed
    /\ v.placed = p.from.placed => v.orders = p.from.orders

LEMMA LaidAtFirst ==
  ASSUME NEW a, NEW s, NEW w, IsDesk(a, w), Capped(w.orders, w.trades), NEW D
  PROVE  Laid([anchor |-> a, coin |-> s, from |-> w], D, w)
<1>1. w.placed \in Nat
  BY DEF IsDesk
<1> QED BY <1>1 DEF Laid

LEMMA PlacedIsLaid ==
  ASSUME NEW p, NEW D, NEW w, Laid(p, D, w),
         day \in Nat, \A s \in Grid!Coins : tape[s] \in Int,
         NEW u, IsDesk(p.anchor, u),
         u.orders = w.orders, u.trades = w.trades, u.placed = w.placed,
         NEW level, NEW o \in Row, ~ Grid!SafetyRefuses(w, level, o.amount),
         o.id = Len(w.orders) + 1, o.day = day,
         o.symbol = p.coin, o.symbol = level.symbol, o.side = level.side, o.price = level.price,
         OnGrid(p.anchor, o), HasLevel(p.anchor, o), HasParent(w.orders, o),
         Guarded(w.trades, o), NEW E
  PROVE  Laid(p, E, Grid!PlaceLevel(u, o))
<1> DEFINE a == p.anchor
           os == w.orders
           ts == w.trades
           v == Grid!PlaceLevel(u, o)
<1>1. /\ IsDesk(a, w) /\ Capped(os, ts) /\ ts = p.from.trades
      /\ DOMAIN p.from.orders \subseteq DOMAIN os
      /\ \A i \in DOMAIN p.from.orders : os[i] = p.from.orders[i]
      /\ \A i \in DOMAIN os \ DOMAIN p.from.orders :
            os[i].symbol = p.coin /\ Guarded(ts, os[i])
      /\ p.from.placed \in Nat /\ w.placed \in Nat /\ w.placed >= p.from.placed
      /\ w.placed = p.from.placed => os = p.from.orders
  BY DEF Laid
<1>2. IsTable(os) /\ IsFiniteSet(ts) /\ ts \subseteq Trade
  BY <1>1 DEF IsDesk, IsBook, TradesMatch
<1>3. o.day <= day
  OBVIOUS
<1>4. /\ IsDesk(a, v) /\ v.trades = ts
      /\ \/ v.orders = os /\ v.placed = w.placed
         \/ \E status \in {"open", "closed"} :
               /\ v.orders = Append(os, [o EXCEPT !.status = status])
               /\ v.placed = w.placed + 1
  BY <1>3, PlaceLevelKeeps
<1> HIDE DEF v
<1>5. ASSUME v.orders = os, v.placed = w.placed
      PROVE  Laid(p, E, v)
  BY <1>1, <1>4, <1>5 DEF Laid
<1>6. ASSUME NEW status \in {"open", "closed"},
             v.orders = Append(os, [o EXCEPT !.status = status]), v.placed = w.placed + 1
      PROVE  Laid(p, E, v)
  <2> DEFINE r == [o EXCEPT !.status = status]
  <2>1. /\ r \in Row /\ r.id = o.id /\ r.symbol = o.symbol /\ r.side = o.side
        /\ r.price = o.price /\ r.amount = o.amount /\ r.day = o.day /\ r.status = status
    BY DEF Row
  <2> HIDE DEF r
  <2>2. /\ DOMAIN Append(os, r) = DOMAIN os \union {o.id} /\ o.id \notin DOMAIN os
        /\ Append(os, r)[o.id] = r /\ \A i \in DOMAIN os : Append(os, r)[i] = os[i]
    BY <1>2, <2>1, AppendIs
  <2>3. Capped(Append(os, r), ts)
    BY <1>1, <1>2, <2>1, PlacedIsCapped
  <2>4. Guarded(ts, r)
    BY <2>1 DEF Guarded
  <2> DEFINE q == Append(os, r)
  <2>5. v.orders = q
    BY <1>6 DEF r
  <2>6. /\ DOMAIN q = DOMAIN os \union {o.id} /\ o.id \notin DOMAIN os
        /\ q[o.id] = r /\ \A i \in DOMAIN os : q[i] = os[i]
        /\ Capped(q, ts)
    BY <2>2, <2>3
  <2> HIDE DEF q
  <2>7. \A i \in DOMAIN q \ DOMAIN p.from.orders : q[i].symbol = p.coin /\ Guarded(ts, q[i])
    BY <1>1, <2>1, <2>4, <2>6
  <2>8. DOMAIN p.from.orders \subseteq DOMAIN q
        /\ \A i \in DOMAIN p.from.orders : q[i] = p.from.orders[i]
    BY <1>1, <2>6
  <2>9. v.placed \in Nat /\ v.placed > p.from.placed
    BY <1>1, <1>6
  <2> QED BY <1>1, <1>4, <2>5, <2>6, <2>7, <2>8, <2>9 DEF Laid
<1> QED BY <1>4, <1>5, <1>6 DEF v

LEMMA TryPlaceKeeps ==
  ASSUME NEW p, NEW D, NEW w, Laid(p, D, w),
         day \in Nat, \A s \in Grid!Coins : tape[s] \in Int,
         NEW level, level.symbol = p.coin, OnGrid(p.anchor, level), level.price \in Nat,
         NEW amount \in Nat, NEW parent \in Nat,
         HasParent(w.orders, [symbol |-> level.symbol, side |-> level.side,
                              amount |-> amount, parent |-> parent]),
         HasLevel(p.anchor, [symbol |-> level.symbol, side |-> level.side,
                             price |-> level.price, amount |-> amount]),
         NEW E
  PROVE  Laid(p, E, Grid!TryPlace(w, level, amount, parent))
<1> DEFINE s == level.symbol
           o == [id |-> Len(w.orders) + 1, symbol |-> s, side |-> level.side,
                 price |-> level.price, amount |-> amount, status |-> "pending",
                 day |-> day, parent |-> parent]
           basis == Grid!Basis(w, s)
           guarded == [w EXCEPT !.cache[s] = basis]
           replay == Grid!ReplayAverageCost(Grid!Of(s, w.trades))
<1>1. IsDesk(p.anchor, w)
  BY DEF Laid
<1>2. /\ IsTable(w.orders) /\ Len(w.orders) \in Nat
      /\ s \in Grid!Coins /\ level.side \in Sides
  BY <1>1, TableIs DEF IsDesk, IsBook, OnGrid
<1>3. /\ o \in Row /\ o.id = Len(w.orders) + 1 /\ o.day = day /\ o.symbol = level.symbol
      /\ o.side = level.side /\ o.price = level.price /\ o.amount = amount /\ o.parent = parent
  BY <1>2 DEF Row
<1> HIDE DEF o
<1>4. OnGrid(p.anchor, o) /\ HasLevel(p.anchor, o) /\ HasParent(w.orders, o)
  <2>1. OnGrid(p.anchor, o)
    BY <1>3 DEF OnGrid
  <2>2. HasLevel(p.anchor, o)
    BY <1>3 DEF HasLevel, IsOfLevel
  <2>3. HasParent(w.orders, o)
    BY <1>3 DEF HasParent
  <2> QED BY <2>1, <2>2, <2>3
<1>5. basis \subseteq {replay} /\ \A b \in basis : b = replay
  <2>1. w.cache[s] \subseteq {replay}
    BY <1>1, <1>2 DEF IsDesk, BasisIsKnown
  <2> QED BY <2>1 DEF Grid!Basis
<1>6. /\ IsDesk(p.anchor, guarded) /\ guarded.orders = w.orders
      /\ guarded.trades = w.trades /\ guarded.placed = w.placed
  <2> DEFINE g == guarded
  <2>1. /\ g.x = w.x /\ g.orders = w.orders /\ g.trades = w.trades /\ g.placed = w.placed
        /\ g.cache = [w.cache EXCEPT ![s] = basis]
        /\ g = [x |-> g.x, orders |-> g.orders, trades |-> g.trades, cache |-> g.cache,
                placed |-> g.placed]
    BY <1>1 DEF IsDesk
  <2> HIDE DEF g
  <2>2. BasisIsKnown(g.cache, w.trades)
    <3>1. w.cache = [r \in Grid!Coins |-> w.cache[r]]
          /\ \A r \in Grid!Coins : w.cache[r] \subseteq {Grid!ReplayAverageCost(Grid!Of(r, w.trades))}
      BY <1>1 DEF IsDesk, BasisIsKnown
    <3> DEFINE c == g.cache
    <3>2. /\ c = [r \in Grid!Coins |-> c[r]]
          /\ \A r \in Grid!Coins : c[r] = IF r = s THEN basis ELSE w.cache[r]
      BY <2>1, <3>1
    <3> HIDE DEF c, basis, replay
    <3>3. \A r \in Grid!Coins : c[r] \subseteq {Grid!ReplayAverageCost(Grid!Of(r, w.trades))}
      BY <1>5, <3>1, <3>2 DEF replay
    <3> QED BY <3>2, <3>3 DEF BasisIsKnown, c
  <2>3. IsDesk(p.anchor, g)
    BY <1>1, <2>1, <2>2 DEF IsDesk
  <2> QED BY <2>1, <2>3 DEF g
<1> HIDE DEF guarded
<1>7. Grid!TryPlace(w, level, amount, parent) =
         IF Grid!SafetyRefuses(w, level, amount) THEN w
         ELSE IF level.side = "buy" THEN Grid!PlaceLevel(w, o)
         ELSE IF \E b \in basis : Grid!SellAllowed(level.price, b, MaxLossPercent, MakerFee)
              THEN Grid!PlaceLevel(guarded, o)
              ELSE guarded
  BY DEF Grid!TryPlace, o, guarded
<1>8. CASE Grid!SafetyRefuses(w, level, amount)
  BY <1>7, <1>8 DEF Laid
<1>9. CASE ~ Grid!SafetyRefuses(w, level, amount) /\ level.side = "buy"
  <2>1. Guarded(w.trades, o)
    BY <1>3, <1>9 DEF Guarded
  <2>2. Laid(p, E, Grid!PlaceLevel(w, o))
    BY <1>1, <1>3, <1>4, <1>9, <2>1, PlacedIsLaid
  <2> QED BY <1>7, <1>9, <2>2
<1>10. CASE ~ Grid!SafetyRefuses(w, level, amount) /\ level.side # "buy"
  <2>1. CASE \E b \in basis : Grid!SellAllowed(level.price, b, MaxLossPercent, MakerFee)
    <3>1. Grid!SellAllowed(level.price, replay, MaxLossPercent, MakerFee)
      BY <1>5, <2>1
    <3>2. Guarded(w.trades, o)
      BY <1>3, <3>1 DEF Guarded
    <3>3. Laid(p, E, Grid!PlaceLevel(guarded, o))
      BY <1>3, <1>4, <1>6, <1>10, <3>2, PlacedIsLaid
    <3> QED BY <1>7, <1>10, <2>1, <3>3
  <2>2. CASE ~ \E b \in basis : Grid!SellAllowed(level.price, b, MaxLossPercent, MakerFee)
    <3>1. Laid(p, E, guarded)
      BY <1>6 DEF Laid
    <3> QED BY <1>7, <1>10, <2>2, <3>1
  <2> QED BY <2>1, <2>2
<1> QED BY <1>8, <1>9, <1>10

-----------------------------------------------------------------------------
(* A layout: an order for each level of the grid, the dearest last. *)
LEMMA LevelsAreFinite ==
  ASSUME NEW s, NEW r \in Nat
  PROVE  IsFiniteSet(Grid!GridLevels(s, r, SpacingPercent, Above, Below))
<1> DEFINE d == Grid!GridSpacing(r, SpacingPercent)
           f == [n \in 1..Below |-> Grid!Level(s, "buy", r - n * d)]
           g == [n \in 1..Above |-> Grid!Level(s, "sell", r + n * d)]
           B == {Grid!Level(s, "buy", r - n * d) : n \in 1..Below}
           S == {Grid!Level(s, "sell", r + n * d) : n \in 1..Above}
<1>1. IsFiniteSet(1..Below) /\ IsFiniteSet(1..Above)
  <2>1. Below \in Int /\ Above \in Int
    BY PlacementAssumption
  <2> QED BY <2>1, FS_Interval
<1>2. f \in Surjection(1..Below, B) /\ g \in Surjection(1..Above, S)
  <2> HIDE DEF d
  <2> QED BY DEF Surjection
<1>3. IsFiniteSet(B) /\ IsFiniteSet(S)
  <2> HIDE DEF f, g, B, S
  <2> QED BY <1>1, <1>2, FS_Surjection
<1>4. Grid!GridLevels(s, r, SpacingPercent, Above, Below) = B \union S
  BY DEF Grid!GridLevels
<1>5. IsFiniteSet(B \union S)
  <2> HIDE DEF B, S
  <2> QED BY <1>3, FS_Union
<1> QED BY <1>4, <1>5, Zenon

Layouts == INSTANCE FiniteSums WITH Step <- Grid!PlaceSlot, Final <- Grid!Dearest, Keeps <- Laid

LEMMA PlaceLayoutKeeps ==
  ASSUME NEW w, anchor' \in Anchors, NEW s \in Grid!Coins, anchor'[s] # 0,
         IsDesk(anchor', w), Capped(w.orders, w.trades),
         day \in Nat, \A r \in Grid!Coins : tape[r] \in Int
  PROVE  Laid([anchor |-> anchor', coin |-> s, from |-> [w EXCEPT !.placed = 0]],
              Grid!Levels(s), Grid!PlaceLayout(w, s))
<1> DEFINE a == anchor'
           z == [w EXCEPT !.placed = 0]
           p == [anchor |-> a, coin |-> s, from |-> z]
           S == Grid!Levels(s)
<1>1. IsFiniteSet(S)
  BY LevelsAreFinite DEF Grid!Levels, Anchors
<1>2. \A l \in S : /\ OnGrid(a, l) /\ l.price \in Nat \ {0} /\ l.symbol = s /\ l.side \in Sides
                   /\ l \in Grid!GridLevels(s, a[s], SpacingPercent, Above, Below)
  <2> TAKE l \in S
  <2>1. l \in Grid!GridLevels(s, a[s], SpacingPercent, Above, Below)
    BY DEF Grid!Levels
  <2>2. l = [symbol |-> s, side |-> l.side, price |-> l.price]
        /\ OnGrid(a, l) /\ l.price \in Nat \ {0}
    BY <2>1, LevelsAreOnGrid
  <2> QED BY <2>1, <2>2 DEF OnGrid
<1>3. Layouts!IsFoldable(S)
  <2>1. Layouts!AllowsInduction(S)
    <3> HIDE DEF S
    <3> QED BY <1>1, Finite, Zenon DEF AllowsInduction, Layouts!AllowsInduction
  <2>2. \A T \in SUBSET S : T # {} => Grid!Dearest(T) \in T
    <3> HIDE DEF S
    <3> QED BY <1>1, <1>2, FS_Subset, DearestIs
  <2> QED BY <2>1, <2>2 DEF Layouts!IsFoldable
<1>4. Laid(p, {}, z)
  <2>1. /\ IsDesk(a, z) /\ z.orders = w.orders /\ z.trades = w.trades /\ z.placed = 0
    BY DEF IsDesk
  <2> HIDE DEF z, a
  <2>2. Capped(z.orders, z.trades)
    BY <2>1
  <2> QED BY <2>1, <2>2, LaidAtFirst
<1>5. ASSUME NEW D \in SUBSET S, NEW l \in S, NEW v, Laid(p, D, v)
      PROVE  Laid(p, D \union {l}, Grid!PlaceSlot(l, v))
  <2> DEFINE amount == OrderSize \div l.price
             o == [symbol |-> l.symbol, side |-> l.side, price |-> l.price, amount |-> amount]
  <2>1. amount \in Nat
    <3>1. OrderSize \in Nat /\ l.price \in Nat \ {0}
      BY <1>2, PlacementAssumption
    <3>2. \A n \in Nat, q \in Nat \ {0} : n \div q \in Nat
      OBVIOUS
    <3> QED BY <3>1, <3>2
  <2>2. HasLevel(a, o)
    <3>1. IsOfLevel(a, o, l)
      BY DEF IsOfLevel
    <3>2. o.symbol = s
      BY <1>2
    <3> HIDE DEF o
    <3> QED BY <1>2, <3>1, <3>2 DEF HasLevel
  <2>3. HasParent(v.orders, [symbol |-> l.symbol, side |-> l.side, amount |-> amount, parent |-> 0])
    BY DEF HasParent
  <2>4. p.anchor = a /\ p.coin = s
    OBVIOUS
  <2> HIDE DEF p, amount
  <2>5. Laid(p, D \union {l}, Grid!TryPlace(v, l, amount, 0))
    <3> HIDE DEF S
    <3> QED BY <1>2, <1>5, <2>1, <2>2, <2>3, <2>4, TryPlaceKeeps
  <2> QED BY <2>5 DEF Grid!PlaceSlot, amount
<1>6. Laid(p, S, Layouts!Fold(z, S))
  <2>1. \A D \in SUBSET S, l \in S : \A v :
           (l \notin D /\ Grid!Dearest(D \union {l}) = l /\ Laid(p, D, v))
              => Laid(p, D \union {l}, Grid!PlaceSlot(l, v))
    BY <1>5
  <2> HIDE DEF S, p, z
  <2> QED BY <1>3, <1>4, <2>1, Layouts!FoldKeeps
<1>7. Grid!PlaceLayout(w, s) = Layouts!Fold(z, S)
  BY Zenon DEF Grid!PlaceLayout, Grid!InOrder, Grid!MapThenFoldSet, Layouts!Fold, Layouts!MapThenFoldSet
<1> QED BY <1>6, <1>7

-----------------------------------------------------------------------------
(* A counter for each order that was filled. *)
LEMMA CounterLevelIs ==
  ASSUME NEW a \in Anchors, NEW o \in Row, OnGrid(a, o), HasLevel(a, o),
         NEW ceiling \in Nat,
         TopSell => ceiling >= LowestPrice(a, o.symbol, "sell")
  PROVE  LET l == Grid!CounterLevel(o, Delta(a, o.symbol), TopSell, ceiling)
         IN /\ l.symbol = o.symbol /\ l.side \in Sides /\ l.side # o.side
            /\ OnGrid(a, l) /\ l.price \in Nat
            /\ HasLevel(a, [symbol |-> l.symbol, side |-> l.side, price |-> l.price,
                            amount |-> o.amount])
<1> DEFINE s == o.symbol
           d == Delta(a, s)
           l == Grid!CounterLevel(o, d, TopSell, ceiling)
           q == [symbol |-> l.symbol, side |-> l.side, price |-> l.price, amount |-> o.amount]
<1>1. /\ s \in Grid!Coins /\ a[s] \in Nat /\ a[s] # 0 /\ o.side \in Sides /\ o.price \in Int
      /\ o.price >= LowestPrice(a, s, o.side)
  BY DEF OnGrid, Anchors
<1>2. d \in Nat /\ Below * d \in Nat
  BY <1>1, GridIsAboveZero
<1>3. l = IF o.side = "sell" THEN [symbol |-> s, side |-> "buy", price |-> o.price - d]
          ELSE IF TopSell THEN [symbol |-> s, side |-> "sell", price |-> ceiling]
          ELSE [symbol |-> s, side |-> "sell", price |-> o.price + d]
  BY DEF Grid!CounterLevel, Grid!Level
<1>4. /\ l.symbol = s /\ l.side = IF o.side = "sell" THEN "buy" ELSE "sell"
      /\ l.price = IF o.side = "sell" THEN o.price - d ELSE IF TopSell THEN ceiling
                   ELSE o.price + d
  BY <1>3
<1> HIDE DEF l
<1>5. l.price \in Int /\ l.price >= LowestPrice(a, s, l.side)
  <2> DEFINE f == Below * d
             e == a[s] - f
  <2>1. /\ LowestPrice(a, s, "sell") = e + d /\ LowestPrice(a, s, "buy") = e + 0
        /\ e \in Int
    BY <1>1, <1>2 DEF LowestPrice
  <2> HIDE DEF d, e, f
  <2>2. CASE o.side = "sell"
    BY <1>1, <1>2, <1>4, <2>1, <2>2
  <2>3. CASE o.side # "sell" /\ TopSell
    BY <1>1, <1>2, <1>4, <2>1, <2>3
  <2>4. CASE o.side # "sell" /\ ~ TopSell
    BY <1>1, <1>2, <1>4, <2>1, <2>4 DEF Sides
  <2> QED BY <2>2, <2>3, <2>4
<1>6. OnGrid(a, l)
  BY <1>1, <1>4, <1>5 DEF OnGrid, Sides
<1>7. l.price \in Nat
  BY <1>6, OnGridIsAboveZero
<1>8. HasLevel(a, q)
  <2>1. CASE TopSell
    BY <2>1 DEF HasLevel
  <2>2. CASE ~ TopSell
    <3>1. PICK k \in Grid!GridLevels(s, a[s], SpacingPercent, Above, Below) : IsOfLevel(a, o, k)
      BY <2>2 DEF HasLevel
    <3>2. /\ o.amount = OrderSize \div k.price
          /\ o.price = IF o.side = k.side THEN k.price
                 ELSE IF k.side = "buy" THEN k.price + d ELSE k.price - d
      BY <3>1 DEF IsOfLevel
    <3>3. k.side \in Sides /\ k.price \in Nat
      BY <1>1, LevelsAreOnGrid DEF OnGrid
    <3>4. /\ q.symbol = s /\ q.side = l.side /\ q.price = l.price /\ q.amount = o.amount
      BY <1>4
    <3> HIDE DEF q, d
    <3>5. q.price = IF q.side = k.side THEN k.price
                 ELSE IF k.side = "buy" THEN k.price + d ELSE k.price - d
      BY <1>1, <1>2, <1>4, <2>2, <3>2, <3>3, <3>4 DEF Sides
    <3>6. IsOfLevel(a, q, k)
      BY <3>2, <3>4, <3>5 DEF IsOfLevel, d
    <3> QED BY <3>1, <3>4, <3>6 DEF HasLevel
  <2> QED BY <2>1, <2>2
<1>9. l.side \in Sides /\ l.side # o.side
  BY <1>1, <1>4 DEF Sides
<1> QED BY <1>4, <1>6, <1>7, <1>8, <1>9 DEF l

LEMMA CeilingIs ==
  ASSUME anchor' \in Anchors, NEW s \in Grid!Coins, anchor'[s] # 0
  PROVE  /\ Grid!Dearest(Grid!Levels(s)).price \in Nat
         /\ Grid!Dearest(Grid!Levels(s)).price >= LowestPrice(anchor', s, "sell")
<1> DEFINE S == Grid!Levels(s)
           r == anchor'[s]
           top == Grid!Level(s, "sell", r + 1 * Grid!GridSpacing(r, SpacingPercent))
<1>1. S = Grid!GridLevels(s, r, SpacingPercent, Above, Below)
  BY DEF Grid!Levels
<1>2. IsFiniteSet(S)
  BY LevelsAreFinite DEF Anchors, Grid!Levels
<1>3. \A l \in S : OnGrid(anchor', l) /\ l.price \in Nat
  BY <1>1, LevelsAreOnGrid
<1>4. top \in S /\ top.side = "sell" /\ top.symbol = s
  <2>1. 1 \in 1..Above
    BY PlacementAssumption
  <2>2. top \in {Grid!Level(s, "sell", r + n * Grid!GridSpacing(r, SpacingPercent)) : n \in 1..Above}
    BY <2>1
  <2>3. top.side = "sell" /\ top.symbol = s
    BY DEF Grid!Level
  <2> QED BY <1>1, <2>2, <2>3 DEF Grid!GridLevels
<1> HIDE DEF S, top
<1>5. Grid!Dearest(S) \in S /\ top.price <= Grid!Dearest(S).price
  BY <1>2, <1>3, <1>4, DearestIs
<1>6. top.price >= LowestPrice(anchor', s, "sell") /\ top.price \in Nat
  BY <1>3, <1>4 DEF OnGrid
<1>7. LowestPrice(anchor', s, "sell") \in Int
  <2> DEFINE d == Delta(anchor', s)
             e == Below * d
  <2>1. anchor'[s] \in Nat /\ d \in Nat /\ e \in Nat
    BY GridIsAboveZero DEF Anchors
  <2>2. LowestPrice(anchor', s, "sell") = anchor'[s] - e + d
    BY DEF LowestPrice
  <2> HIDE DEF d, e
  <2> QED BY <2>1, <2>2
<1>8. Grid!Dearest(S).price \in Nat
  BY <1>3, <1>5
<1> QED BY <1>5, <1>6, <1>7, <1>8 DEF S

Counters == INSTANCE FiniteSums WITH Step <- Grid!PlaceCounter, Final <- Grid!Youngest, Keeps <- Laid

(* The orders C of the coin were filled, and are counted in the table.     *)
LEMMA CountersKeep ==
  ASSUME anchor \in Anchors, anchor' = anchor, NEW s \in Grid!Coins, anchor[s] # 0,
         NEW w, IsDesk(anchor, w), Capped(w.orders, w.trades),
         NEW C, IsFiniteSet(C), C \subseteq Row,
         \A o \in C : /\ o.id \in DOMAIN w.orders /\ o.symbol = s
                      /\ w.orders[o.id].symbol = s
                      /\ w.orders[o.id].side = o.side /\ w.orders[o.id].amount = o.amount
                      /\ OnGrid(anchor, o) /\ HasLevel(anchor, o),
         day \in Nat, \A r \in Grid!Coins : tape[r] \in Int
  PROVE  Laid([anchor |-> anchor, coin |-> s, from |-> w], C,
              Grid!InOrder(Grid!PlaceCounter, w, Grid!Youngest, C))
<1> DEFINE p == [anchor |-> anchor, coin |-> s, from |-> w]
           ceiling == Grid!Dearest(Grid!Levels(s)).price
<1>1. Counters!IsFoldable(C)
  <2>1. Counters!AllowsInduction(C)
    BY Finite, Zenon DEF AllowsInduction, Counters!AllowsInduction
  <2>2. \A o \in C : o.id \in Int
    BY DEF Row
  <2>3. \A T \in SUBSET C : T # {} => Grid!Youngest(T) \in T
    BY <2>2, FS_Subset, YoungestIs
  <2> QED BY <2>1, <2>3 DEF Counters!IsFoldable
<1>2. Laid(p, {}, w)
  BY LaidAtFirst
<1>3. ceiling \in Nat /\ ceiling >= LowestPrice(anchor, s, "sell")
  BY CeilingIs
<1>4. ASSUME NEW D \in SUBSET C, NEW o \in C, NEW v, Laid(p, D, v)
      PROVE  Laid(p, D \union {o}, Grid!PlaceCounter(o, v))
  <2> DEFINE l == Grid!CounterLevel(o, Delta(anchor, o.symbol), TopSell, ceiling)
  <2>1. /\ o \in Row /\ o.symbol = s /\ OnGrid(anchor, o) /\ HasLevel(anchor, o)
        /\ o.id \in DOMAIN w.orders
    OBVIOUS
  <2>2. /\ l.symbol = o.symbol /\ l.side \in Sides /\ l.side # o.side
        /\ OnGrid(anchor, l) /\ l.price \in Nat
        /\ HasLevel(anchor, [symbol |-> l.symbol, side |-> l.side, price |-> l.price,
                             amount |-> o.amount])
    <3> HIDE DEF ceiling
    <3> QED BY <1>3, <2>1, CounterLevelIs
  <2>3. Grid!PlaceCounter(o, v) = Grid!TryPlace(v, l, o.amount, o.id)
    BY <2>1 DEF Grid!PlaceCounter, Delta
  <2> HIDE DEF l, ceiling
  <2>4. HasParent(v.orders, [symbol |-> l.symbol, side |-> l.side,
                             amount |-> o.amount, parent |-> o.id])
    <3>1. o.id \in DOMAIN v.orders /\ v.orders[o.id] = w.orders[o.id]
      BY <1>4, <2>1 DEF Laid
    <3> QED BY <2>2, <3>1 DEF HasParent
  <2>5. p.anchor = anchor /\ p.coin = s /\ l.symbol = s
    BY <2>1, <2>2
  <2>6. o.amount \in Nat /\ o.id \in Nat
    BY <2>1 DEF Row
  <2> HIDE DEF p
  <2>7. Laid(p, D \union {o}, Grid!TryPlace(v, l, o.amount, o.id))
    BY <1>4, <2>2, <2>4, <2>5, <2>6, TryPlaceKeeps
  <2> QED BY <2>3, <2>7
<1>5. Laid(p, C, Counters!Fold(w, C))
  <2>1. \A D \in SUBSET C, o \in C : \A v :
           (o \notin D /\ Grid!Youngest(D \union {o}) = o /\ Laid(p, D, v))
              => Laid(p, D \union {o}, Grid!PlaceCounter(o, v))
    BY <1>4
  <2> HIDE DEF p
  <2> QED BY <1>1, <1>2, <2>1, Counters!FoldKeeps
<1>6. Grid!InOrder(Grid!PlaceCounter, w, Grid!Youngest, C) = Counters!Fold(w, C)
  BY Zenon DEF Grid!InOrder, Grid!MapThenFoldSet, Counters!Fold, Counters!MapThenFoldSet
<1> QED BY <1>5, <1>6

-----------------------------------------------------------------------------
(* The desk as it is, and with a ledger into which prices were pumped. *)
LEMMA PumpedDesk ==
  ASSUME NEW a, NEW x, IsDesk(a, Grid!Now(x)), NEW y, IsLedger(y), FillsMatch(orders, y), IsAfter(x, y)
  PROVE  IsDesk(a, Grid!Now(y))
<1>1. /\ Grid!Now(x).x = x /\ Grid!Now(x).orders = orders /\ Grid!Now(x).trades = trades /\ Grid!Now(x).cache = cache
      /\ Grid!Now(y).x = y /\ Grid!Now(y).orders = orders /\ Grid!Now(y).trades = trades /\ Grid!Now(y).cache = cache
      /\ Grid!Now(y).placed = 0
  BY DEF Grid!Now
<1>2. /\ IsBook(a, orders) /\ IsLedger(x) /\ TradesMatch(orders, trades, x)
      /\ BasisIsKnown(cache, trades)
  BY <1>1 DEF IsDesk
<1>3. TradesMatch(orders, trades, y)
  BY <1>2, TradesMatchAfter
<1>4. Grid!Now(y) = [x |-> y, orders |-> orders, trades |-> trades, cache |-> cache, placed |-> 0]
  BY DEF Grid!Now
<1> QED BY <1>1, <1>2, <1>3, <1>4 DEF IsDesk

(* The placed orders are not tallied in what the daemon keeps. *)
LEMMA DeskAgain ==
  ASSUME NEW a, NEW w, IsDesk(a, w)
  PROVE  IsDesk(a, [w EXCEPT !.placed = 0])
<1> DEFINE v == [w EXCEPT !.placed = 0]
<1>1. w = [x |-> w.x, orders |-> w.orders, trades |-> w.trades, cache |-> w.cache,
           placed |-> w.placed]
  BY DEF IsDesk
<1>2. /\ v.x = w.x /\ v.orders = w.orders /\ v.trades = w.trades /\ v.cache = w.cache
      /\ v.placed = 0
      /\ v = [x |-> v.x, orders |-> v.orders, trades |-> v.trades, cache |-> v.cache,
              placed |-> v.placed]
  BY <1>1
<1> HIDE DEF v
<1> QED BY <1>2 DEF IsDesk

Pumped(p, D, v) == IsLedger(v) /\ FillsMatch(orders, v) /\ IsAfter(p, v)

Values == INSTANCE FiniteSums WITH Step <- Grid!PumpCoin, Final <- Grid!Max, Keeps <- Pumped

LEMMA ValuedKeeps ==
  ASSUME NEW x, IsTable(orders), IsLedger(x), FillsMatch(orders, x),
         \A s \in Grid!Coins : tape[s] \in Int
  PROVE  LET y == Grid!Valued(x) IN IsLedger(y) /\ FillsMatch(orders, y) /\ IsAfter(x, y)
<1> DEFINE S == {n \in DOMAIN Symbols : x.base[Symbols[n]] > 0}
<1>1. S \subseteq 1..Len(Symbols) /\ Len(Symbols) \in Nat
  BY PlacementAssumption
<1>2. IsFiniteSet(S)
  BY <1>1, FS_Interval, FS_Subset
<1>3. \A n \in S : Symbols[n] \in Grid!Coins
  BY CoinsAreFinite
<1>4. \A n \in S : n \in Int
  BY <1>1
<1> HIDE DEF S
<1>5. Values!IsFoldable(S)
  <2>1. Values!AllowsInduction(S)
    BY <1>2, Finite, Zenon DEF AllowsInduction, Values!AllowsInduction
  <2>2. ASSUME NEW T \in SUBSET S, T # {}
        PROVE  Grid!Max(T) \in T
    <3> DEFINE v == [n \in T |-> n]
    <3>1. \A n \in T : v[n] = n /\ v[n] \in Int
      BY <1>4
    <3>2. IsFiniteSet(T)
      BY <1>2, FS_Subset
    <3>3. \E n \in T : \A m \in T : v[m] <= v[n]
      <4> HIDE DEF v
      <4> QED BY <2>2, <3>1, <3>2, HasGreatest, Finite
    <3>4. \E n \in T : \A m \in T : n >= m
      BY <1>4, <3>1, <3>3
    <3> QED BY <3>4 DEF Grid!Max
  <2> QED BY <2>1, <2>2 DEF Values!IsFoldable
<1>6. Pumped(x, {}, x)
  BY AfterItself DEF Pumped
<1>7. ASSUME NEW D \in SUBSET S, NEW n \in S, NEW v, Pumped(x, D, v)
      PROVE  Pumped(x, D \union {n}, Grid!PumpCoin(n, v))
  <2> DEFINE y == Grid!PumpCoin(n, v)
  <2>1. y = Grid!Pump(v, orders, Symbols[n], tape[Symbols[n]])
    BY DEF Grid!PumpCoin
  <2> HIDE DEF y
  <2>2. IsLedger(v) /\ FillsMatch(orders, v) /\ IsAfter(x, v)
    BY <1>7 DEF Pumped
  <2>3. IsLedger(y) /\ FillsMatch(orders, y) /\ IsAfter(v, y)
    BY <1>3, <2>1, <2>2, PumpKeeps
  <2>4. IsAfter(x, y)
    BY <2>2, <2>3, AfterIsTransitive
  <2>5. Pumped(x, D \union {n}, y)
    BY <2>3, <2>4 DEF Pumped
  <2> QED BY <2>5 DEF y
<1>8. Pumped(x, S, Values!Fold(x, S))
  <2>1. \A D \in SUBSET S, n \in S : \A v :
           (n \notin D /\ Grid!Max(D \union {n}) = n /\ Pumped(x, D, v))
              => Pumped(x, D \union {n}, Grid!PumpCoin(n, v))
    BY <1>7
  <2> QED BY <1>5, <1>6, <2>1, Values!FoldKeeps
<1>9. Grid!Valued(x) = Values!Fold(x, S)
  BY Zenon DEF S, Grid!Valued, Grid!InOrder, Grid!MapThenFoldSet, Values!Fold, Values!MapThenFoldSet
<1> QED BY <1>8, <1>9 DEF Pumped

(* What the cancellation leaves. *)
LEMMA CancelKeeps ==
  ASSUME NEW a, NEW x, IsDesk(a, Grid!Now(x)), Grid!CancelAllOpen(x), trades' = trades, cache' = cache
  PROVE  /\ IsDesk(a, [x |-> ledger', orders |-> orders', trades |-> trades', cache |-> cache',
                       placed |-> 0])
         /\ Closing(orders, orders')
<1>1. /\ Grid!Now(x).x = x /\ Grid!Now(x).orders = orders /\ Grid!Now(x).trades = trades /\ Grid!Now(x).cache = cache
  BY DEF Grid!Now
<1>2. /\ IsBook(a, orders) /\ IsLedger(x) /\ FillsMatch(orders, x)
      /\ TradesMatch(orders, trades, x) /\ BasisIsKnown(cache, trades)
  BY <1>1 DEF IsDesk
<1>3. Closing(orders, orders')
  <2>1. IsTable(orders)
    BY <1>2 DEF IsBook
  <2>2. /\ DOMAIN orders = 1..Len(orders) /\ Len(orders) \in Nat
        /\ \A i \in DOMAIN orders : orders[i] \in Row
    BY <2>1, TableIs
  <2>3. /\ DOMAIN orders' = DOMAIN orders
        /\ orders' = [i \in 1..Len(orders) |-> orders'[i]]
        /\ \A i \in DOMAIN orders :
             orders'[i] = orders[i] \/ orders'[i] = [orders[i] EXCEPT !.status = "canceled"]
    BY <2>2 DEF Grid!CancelAllOpen
  <2>4. \A r \in Row : [r EXCEPT !.status = "canceled"] \in Row
    BY DEF Row
  <2>5. \A i \in 1..Len(orders) : orders'[i] \in Row
    BY <2>2, <2>3, <2>4
  <2>6. orders' \in Seq(Row)
    BY <2>2, <2>3, <2>5, IsSeqOf
  <2> QED BY <2>3, <2>6 DEF Closing
<1>4. IsBook(a, orders') /\ FillsMatch(orders', x) /\ TradesMatch(orders', trades, x)
  BY <1>2, <1>3, ClosingKeeps
<1>5. ledger' = [x EXCEPT !.resting = {}]
  BY DEF Grid!CancelAllOpen
<1>6. IsLedger(ledger') /\ ledger'.fills = x.fills /\ ledger'.clock = x.clock /\ ledger'.resting = {}
  BY <1>2, <1>5 DEF IsLedger
<1>7. FillsMatch(orders', ledger')
  BY <1>4, <1>6 DEF FillsMatch
<1>8. TradesMatch(orders', trades, ledger')
  BY <1>4, <1>6 DEF TradesMatch
<1> QED BY <1>2, <1>3, <1>4, <1>6, <1>7, <1>8 DEF IsDesk

(* A coin without an anchor has no order: to anchor it moves no other. *)
LEMMA AnchoredDesk ==
  ASSUME NEW a, NEW w, IsDesk(a, w), NEW b, NEW s, a[s] = 0,
         \A r \in Grid!Coins : r # s => b[r] = a[r]
  PROVE  /\ IsDesk(b, w)
         /\ Grid!Of(s, Grid!OpenOrders(w.orders)) = {}
<1> DEFINE os == w.orders
<1>1. IsBook(a, os) /\ IsTable(os)
  BY DEF IsDesk, IsBook
<1> HIDE DEF os
<1>2. \A i \in DOMAIN os : /\ os[i].symbol \in Grid!Coins /\ os[i].symbol # s
                           /\ b[os[i].symbol] = a[os[i].symbol]
  BY <1>1 DEF IsBook, OnGrid
<1>3. \A i \in DOMAIN os : OnGrid(b, os[i]) /\ HasLevel(b, os[i])
  <2> SUFFICES ASSUME NEW i \in DOMAIN os
               PROVE  OnGrid(b, os[i]) /\ HasLevel(b, os[i])
    OBVIOUS
  <2> DEFINE o == os[i]
  <2>1. b[o.symbol] = a[o.symbol] /\ OnGrid(a, o) /\ HasLevel(a, o)
    BY <1>1, <1>2 DEF IsBook
  <2> HIDE DEF o
  <2>2. Delta(b, o.symbol) = Delta(a, o.symbol)
    BY <2>1 DEF Delta
  <2>3. LowestPrice(b, o.symbol, o.side) = LowestPrice(a, o.symbol, o.side)
    BY <2>1, <2>2 DEF LowestPrice
  <2>4. OnGrid(b, o)
    BY <2>1, <2>3 DEF OnGrid
  <2>5. \A l : IsOfLevel(b, o, l) = IsOfLevel(a, o, l)
    BY <2>2 DEF IsOfLevel
  <2>6. HasLevel(b, o)
    BY <2>1, <2>5 DEF HasLevel
  <2> QED BY <2>4, <2>6 DEF o
<1>4. IsBook(b, os)
  BY <1>1, <1>3 DEF IsBook
<1>5. Grid!Of(s, Grid!OpenOrders(os)) = {}
  BY <1>1, <1>2, OpenIs DEF Grid!Of
<1> QED BY <1>4, <1>5 DEF IsDesk, os

-----------------------------------------------------------------------------
(* What a step of one coin makes of the desk. *)
Stepped(s, w) ==
    /\ IsDesk(anchor', w) /\ Capped(w.orders, w.trades)
    /\ \A r \in Grid!Coins : r # s =>
          Grid!Of(r, Grid!OpenOrders(w.orders)) \subseteq Grid!Of(r, Grid!OpenOrders(orders))
    /\ \A i \in DOMAIN w.orders \ DOMAIN orders : Guarded(w.trades, w.orders[i])

(* The orders placed are of the coin. *)
LEMMA LaidElsewhere ==
  ASSUME NEW p, NEW D, NEW v, Laid(p, D, v), IsTable(p.from.orders), NEW r, r # p.coin
  PROVE  Grid!Of(r, Grid!OpenOrders(v.orders)) \subseteq Grid!Of(r, Grid!OpenOrders(p.from.orders))
<1> DEFINE os == p.from.orders
           vs == v.orders
<1>1. /\ IsTable(vs)
      /\ \A i \in DOMAIN os : vs[i] = os[i]
      /\ \A i \in DOMAIN vs \ DOMAIN os : vs[i].symbol = p.coin
  BY DEF Laid, IsDesk, IsBook
<1>2. IsTable(os)
  OBVIOUS
<1> HIDE DEF os, vs
<1>3. ASSUME NEW o \in Grid!Of(r, Grid!OpenOrders(vs))
      PROVE  o \in Grid!Of(r, Grid!OpenOrders(os))
  <2>1. o \in Grid!OpenOrders(vs) /\ o.symbol = r
    BY <1>3 DEF Grid!Of
  <2>2. o.id \in DOMAIN vs /\ vs[o.id] = o /\ o.status = "open"
    BY <1>1, <2>1, OpenIs DEF Grid!OpenOrders
  <2>3. o.id \in DOMAIN os /\ os[o.id] = o
    BY <1>1, <2>1, <2>2
  <2>4. o \in Grid!OpenOrders(os)
    BY <1>2, <2>2, <2>3, OpenIs
  <2> QED BY <2>1, <2>4 DEF Grid!Of
<1> QED BY <1>3 DEF os, vs

(* A layout on top of a step. *)
LEMMA LayoutIsStepped ==
  ASSUME anchor' \in Anchors, NEW s \in Grid!Coins, anchor'[s] # 0,
         NEW w, Stepped(s, w), DOMAIN orders \subseteq DOMAIN w.orders,
         day \in Nat, \A r \in Grid!Coins : tape[r] \in Int
  PROVE  LET v == Grid!PlaceLayout(w, s)
         IN /\ Stepped(s, v) /\ v.placed \in Nat
            /\ v.placed = 0 => v.orders = w.orders
<1> DEFINE v == Grid!PlaceLayout(w, s)
           u == [w EXCEPT !.placed = 0]
           p == [anchor |-> anchor', coin |-> s, from |-> u]
<1>1. IsDesk(anchor', w) /\ Capped(w.orders, w.trades)
  BY DEF Stepped
<1>2. Laid(p, Grid!Levels(s), v)
  BY <1>1, PlaceLayoutKeeps
<1>3. /\ p.anchor = anchor' /\ p.coin = s /\ p.from = u
      /\ u.orders = w.orders /\ u.trades = w.trades /\ u.placed = 0
  BY <1>1 DEF IsDesk
<1>4. IsTable(w.orders)
  BY <1>1 DEF IsDesk, IsBook
<1> HIDE DEF v, u, p
<1>5. /\ IsDesk(anchor', v) /\ Capped(v.orders, v.trades) /\ v.trades = w.trades
      /\ v.placed \in Nat
      /\ v.placed = 0 => v.orders = w.orders
      /\ \A i \in DOMAIN w.orders : v.orders[i] = w.orders[i]
      /\ \A i \in DOMAIN v.orders \ DOMAIN w.orders : Guarded(v.trades, v.orders[i])
  BY <1>2, <1>3 DEF Laid
<1>6. \A r \in Grid!Coins : r # s => Grid!Of(r, Grid!OpenOrders(v.orders)) \subseteq Grid!Of(r, Grid!OpenOrders(orders))
  <2> SUFFICES ASSUME NEW r \in Grid!Coins, r # s
               PROVE  Grid!Of(r, Grid!OpenOrders(v.orders)) \subseteq Grid!Of(r, Grid!OpenOrders(orders))
    OBVIOUS
  <2>1. Grid!Of(r, Grid!OpenOrders(v.orders)) \subseteq Grid!Of(r, Grid!OpenOrders(p.from.orders))
    BY <1>2, <1>3, <1>4, LaidElsewhere
  <2>2. p.from.orders = w.orders
    BY <1>3
  <2>3. Grid!Of(r, Grid!OpenOrders(v.orders)) \subseteq Grid!Of(r, Grid!OpenOrders(w.orders))
    BY <2>1, <2>2, Zenon
  <2> QED BY <2>3 DEF Stepped
<1>7. ASSUME NEW i \in DOMAIN v.orders \ DOMAIN orders
      PROVE  Guarded(v.trades, v.orders[i])
  <2>1. CASE i \in DOMAIN w.orders
    <3>1. Guarded(w.trades, w.orders[i])
      BY <1>7, <2>1 DEF Stepped
    <3>2. v.orders[i] = w.orders[i] /\ v.trades = w.trades
      BY <1>5, <2>1
    <3> QED BY <3>1, <3>2, Zenon
  <2>2. CASE i \notin DOMAIN w.orders
    BY <1>5, <1>7, <2>2
  <2> QED BY <2>1, <2>2
<1>8. Stepped(s, v)
  BY <1>5, <1>6, <1>7 DEF Stepped
<1> QED BY <1>5, <1>8 DEF v

(* The fills of the coin are recorded. *)
LEMMA DetectedIsStepped ==
  ASSUME anchor' = anchor, NEW s \in Grid!Coins, NEW x, IsDesk(anchor, Grid!Now(x)),
         Capped(orders, trades)
  PROVE  LET w == Grid!DetectFills(Grid!Now(x), s)
         IN /\ Stepped(s, w) /\ Closing(orders, w.orders) /\ w.placed = 0
            /\ Grid!OpenOrders(w.orders) \subseteq Grid!OpenOrders(orders)
            /\ DOMAIN w.orders = DOMAIN orders
<1> DEFINE w == Grid!DetectFills(Grid!Now(x), s)
<1>1. Grid!Now(x).orders = orders /\ Grid!Now(x).trades = trades /\ Grid!Now(x).placed = 0
  BY DEF Grid!Now
<1>2. /\ IsDesk(anchor, w) /\ Capped(w.orders, w.trades)
      /\ Closing(Grid!Now(x).orders, w.orders) /\ w.placed = Grid!Now(x).placed
  <2>1. Capped(Grid!Now(x).orders, Grid!Now(x).trades)
    BY <1>1, Zenon
  <2> QED BY <2>1, DetectFillsKeeps
<1> HIDE DEF w
<1>3. Closing(orders, w.orders) /\ w.placed = 0
  BY <1>1, <1>2, Zenon
<1>4. IsTable(orders)
  BY <1>1 DEF IsDesk, IsBook
<1>5. Grid!OpenOrders(w.orders) \subseteq Grid!OpenOrders(orders)
  BY <1>3, <1>4, ClosingShrinks
<1>6. \A r : Grid!Of(r, Grid!OpenOrders(w.orders)) \subseteq Grid!Of(r, Grid!OpenOrders(orders))
  BY <1>5 DEF Grid!Of
<1>7. DOMAIN w.orders = DOMAIN orders
  BY <1>3 DEF Closing
<1>8. Stepped(s, w)
  BY <1>2, <1>6, <1>7 DEF Stepped
<1> QED BY <1>3, <1>5, <1>7, <1>8 DEF w

(* And countered. *)
LEMMA CounteredIsStepped ==
  ASSUME anchor \in Anchors, anchor' = anchor, NEW s \in Grid!Coins, anchor[s] # 0,
         NEW x, IsDesk(anchor, Grid!Now(x)), Capped(orders, trades),
         day \in Nat, \A r \in Grid!Coins : tape[r] \in Int
  PROVE  LET v == Grid!InOrder(Grid!PlaceCounter, Grid!DetectFills(Grid!Now(x), s), Grid!Youngest, Grid!Candidates(Grid!Now(x), s))
         IN Stepped(s, v) /\ DOMAIN orders \subseteq DOMAIN v.orders
<1> DEFINE w == Grid!DetectFills(Grid!Now(x), s)
           C == Grid!Candidates(Grid!Now(x), s)
           v == Grid!InOrder(Grid!PlaceCounter, w, Grid!Youngest, C)
           p == [anchor |-> anchor, coin |-> s, from |-> w]
<1>1. /\ Stepped(s, w) /\ Closing(orders, w.orders) /\ DOMAIN w.orders = DOMAIN orders
  BY DetectedIsStepped
<1>2. IsDesk(anchor, w) /\ Capped(w.orders, w.trades)
  <2> HIDE DEF w
  <2> QED BY <1>1, Zenon DEF Stepped
<1>3. Grid!Now(x).orders = orders
  BY DEF Grid!Now
<1>4. IsBook(anchor, orders) /\ IsTable(orders)
  BY <1>3 DEF IsDesk, IsBook
<1>5. /\ IsFiniteSet(C)
      /\ \A o \in C : /\ o \in Row /\ o.id \in DOMAIN orders /\ orders[o.id] = o /\ o.symbol = s
  <2>1. IsTable(Grid!Now(x).orders)
    BY <1>3, <1>4
  <2> QED BY <1>3, <2>1, CandidatesAre
<1> HIDE DEF w, C
<1>6. \A i \in DOMAIN orders : /\ w.orders[i].symbol = orders[i].symbol
                               /\ w.orders[i].side = orders[i].side
                               /\ w.orders[i].amount = orders[i].amount
  BY <1>1, <1>4, ClosingIs
<1>7. \A o \in C : /\ o.id \in DOMAIN w.orders /\ o.symbol = s
                   /\ w.orders[o.id].symbol = s
                   /\ w.orders[o.id].side = o.side /\ w.orders[o.id].amount = o.amount
                   /\ OnGrid(anchor, o) /\ HasLevel(anchor, o)
  <2> SUFFICES ASSUME NEW o \in C
               PROVE  /\ o.id \in DOMAIN w.orders /\ o.symbol = s
                      /\ w.orders[o.id].symbol = s
                      /\ w.orders[o.id].side = o.side /\ w.orders[o.id].amount = o.amount
                      /\ OnGrid(anchor, o) /\ HasLevel(anchor, o)
    OBVIOUS
  <2>1. o.id \in DOMAIN orders /\ orders[o.id] = o /\ o.symbol = s
    BY <1>5
  <2>2. OnGrid(anchor, orders[o.id]) /\ HasLevel(anchor, orders[o.id])
    BY <1>4, <2>1 DEF IsBook
  <2>3. OnGrid(anchor, o) /\ HasLevel(anchor, o)
    BY <2>1, <2>2, Zenon
  <2> QED BY <1>1, <1>6, <2>1, <2>3
<1>8. C \subseteq Row
  BY <1>5
<1>9. Laid(p, C, v)
  BY <1>2, <1>5, <1>7, <1>8, CountersKeep
<1>10. p.anchor = anchor /\ p.coin = s /\ p.from = w
  OBVIOUS
<1> HIDE DEF p, v
<1>11. /\ IsDesk(anchor', v) /\ Capped(v.orders, v.trades)
       /\ DOMAIN w.orders \subseteq DOMAIN v.orders
       /\ \A i \in DOMAIN v.orders \ DOMAIN w.orders : Guarded(v.trades, v.orders[i])
  BY <1>9, <1>10 DEF Laid
<1>12. \A r \in Grid!Coins : r # s => Grid!Of(r, Grid!OpenOrders(v.orders)) \subseteq Grid!Of(r, Grid!OpenOrders(orders))
  <2> SUFFICES ASSUME NEW r \in Grid!Coins, r # s
               PROVE  Grid!Of(r, Grid!OpenOrders(v.orders)) \subseteq Grid!Of(r, Grid!OpenOrders(orders))
    OBVIOUS
  <2>1. IsTable(p.from.orders)
    BY <1>2, <1>10 DEF IsDesk, IsBook
  <2>2. Grid!Of(r, Grid!OpenOrders(v.orders)) \subseteq Grid!Of(r, Grid!OpenOrders(p.from.orders))
    BY <1>9, <1>10, <2>1, LaidElsewhere
  <2>3. Grid!Of(r, Grid!OpenOrders(v.orders)) \subseteq Grid!Of(r, Grid!OpenOrders(w.orders))
    BY <1>10, <2>2, Zenon
  <2>4. Grid!Of(r, Grid!OpenOrders(w.orders)) \subseteq Grid!Of(r, Grid!OpenOrders(orders))
    BY <1>1 DEF Stepped
  <2> QED BY <2>3, <2>4
<1>13. Stepped(s, v)
  BY <1>1, <1>11, <1>12 DEF Stepped
<1> QED BY <1>1, <1>11, <1>13 DEF v, w, C

-----------------------------------------------------------------------------
(* The invariant of the placement. *)
GridTypes ==
    /\ tape \in [Grid!Coins -> Nat \ {0}] /\ day \in Nat /\ anchor \in Anchors
    /\ starved \in [Grid!Coins -> Nat]
    /\ "turn" \in DOMAIN session /\ session.turn \in Nat \ {0}

GridInv ==
    /\ GridTypes
    /\ IsDesk(anchor, Grid!Now(ledger))
    /\ Capped(orders, trades)
    /\ Grid!StarvedBookIsEmpty

LEMMA DeskNow ==
  ASSUME NEW a, NEW x, IsDesk(a, Grid!Now(x))
  PROVE  /\ IsTable(orders) /\ IsBook(a, orders) /\ IsLedger(x) /\ FillsMatch(orders, x)
         /\ TradesMatch(orders, trades, x) /\ BasisIsKnown(cache, trades)
<1>1. /\ Grid!Now(x).x = x /\ Grid!Now(x).orders = orders /\ Grid!Now(x).trades = trades /\ Grid!Now(x).cache = cache
  BY DEF Grid!Now
<1> QED BY <1>1 DEF IsDesk, IsBook

(* What the next desk is. *)
LEMMA DeskNext ==
  ASSUME NEW w, IsDesk(anchor', w), day \in Int, day' \in Int, day' >= day,
         ledger' = w.x, orders' = w.orders, trades' = w.trades, cache' = w.cache
  PROVE  IsDesk(anchor, Grid!Now(ledger))'
<1>1. /\ IsBook(anchor', w.orders) /\ IsLedger(w.x) /\ FillsMatch(w.orders, w.x)
      /\ TradesMatch(w.orders, w.trades, w.x) /\ BasisIsKnown(w.cache, w.trades)
  BY DEF IsDesk
<1>2. IsBook(anchor, orders)'
  <2>1. \A i \in DOMAIN orders' : orders'[i].day \in Nat
    BY <1>1, TableIs DEF IsBook, Row
  <2> QED BY <1>1, <2>1 DEF IsBook
<1>3. (/\ IsLedger(ledger) /\ FillsMatch(orders, ledger)
       /\ TradesMatch(orders, trades, ledger) /\ BasisIsKnown(cache, trades))'
  BY <1>1
<1>4. (/\ Grid!Now(ledger).x = ledger /\ Grid!Now(ledger).orders = orders /\ Grid!Now(ledger).trades = trades
       /\ Grid!Now(ledger).cache = cache /\ Grid!Now(ledger).placed = 0
       /\ Grid!Now(ledger) = [x |-> Grid!Now(ledger).x, orders |-> Grid!Now(ledger).orders,
                         trades |-> Grid!Now(ledger).trades, cache |-> Grid!Now(ledger).cache,
                         placed |-> Grid!Now(ledger).placed])'
  BY DEF Grid!Now
<1> QED BY <1>2, <1>3, <1>4 DEF IsDesk

LEMMA CappedNext ==
  ASSUME NEW os, NEW ts, Capped(os, ts), day' = day, orders' = os, trades' = ts
  PROVE  Capped(orders, trades)'
  BY DEF Capped

(* A step of the coin s, whichever. *)
LEMMA SteppedKeeps ==
  ASSUME GridInv, NEW s \in Grid!Coins, NEW w, Stepped(s, w), Grid!Become(w),
         UNCHANGED <<tape, day>>, anchor' \in Anchors,
         starved' \in [Grid!Coins -> Nat], \A r \in Grid!Coins : r # s => starved'[r] = starved[r],
         starved'[s] > 0 => Grid!Of(s, Grid!OpenOrders(w.orders)) = {},
         session' = [session EXCEPT !.turn = @ + 1]
  PROVE  GridInv'
<1>1. GridTypes'
  BY DEF GridInv, GridTypes
<1>2. IsDesk(anchor', w) /\ Capped(w.orders, w.trades)
  BY DEF Stepped
<1>3. ledger' = w.x /\ orders' = w.orders /\ trades' = w.trades /\ cache' = w.cache
  BY DEF Grid!Become
<1>4. IsDesk(anchor, Grid!Now(ledger))'
  BY <1>2, <1>3, DeskNext DEF GridInv, GridTypes
<1>5. Capped(orders, trades)'
  BY <1>2, <1>3, CappedNext
<1>6. Grid!StarvedBookIsEmpty'
  <2> SUFFICES ASSUME NEW r \in Grid!Coins, starved'[r] > 0
               PROVE  Grid!Of(r, Grid!OpenOrders(orders')) = {}
    BY DEF Grid!StarvedBookIsEmpty
  <2>1. Grid!Of(r, Grid!OpenOrders(w.orders)) = {}
    <3>1. CASE r # s
      <4>1. Grid!Of(r, Grid!OpenOrders(orders)) = {}
        BY <3>1 DEF GridInv, Grid!StarvedBookIsEmpty
      <4>2. Grid!Of(r, Grid!OpenOrders(w.orders)) \subseteq Grid!Of(r, Grid!OpenOrders(orders))
        BY <3>1 DEF Stepped
      <4> QED BY <4>1, <4>2
    <3> QED BY <3>1
  <2> QED BY <1>3, <2>1, Zenon
<1> QED BY <1>1, <1>4, <1>5, <1>6 DEF GridInv

(* What Step says of the desk it leaves.                                   *)
LEMMA StepIsStepped ==
  ASSUME GridInv, Grid!Step
  PROVE  \E s \in Grid!Coins : \E w :
            /\ Stepped(s, w) /\ Grid!Become(w) /\ UNCHANGED <<tape, day>>
            /\ anchor' \in Anchors /\ starved' \in [Grid!Coins -> Nat]
            /\ \A r \in Grid!Coins : r # s => starved'[r] = starved[r]
            /\ starved'[s] > 0 => Grid!Of(s, Grid!OpenOrders(w.orders)) = {}
            /\ session' = [session EXCEPT !.turn = @ + 1]
<1> DEFINE s == Symbols[session.turn]
           x == Grid!Pump(ledger, orders, s, tape[s])
<1>1. /\ session' = [session EXCEPT !.turn = @ + 1] /\ UNCHANGED <<tape, day>>
      /\ \/ Grid!Initialize(s, x)
         \/ anchor[s] # 0 /\ UNCHANGED anchor /\ Grid!Offside(s, x)
         \/ anchor[s] # 0 /\ UNCHANGED anchor /\ Grid!Onside(s, x)
  BY DEF Grid!Step
<1>2. s \in Grid!Coins
  <2>1. session.turn <= Len(Symbols)
    BY Zenon DEF Grid!Step
  <2>2. session.turn \in Nat \ {0}
    BY DEF GridInv, GridTypes
  <2>3. session.turn \in DOMAIN Symbols
    BY <2>1, <2>2, PlacementAssumption
  <2> QED BY <2>3, CoinsAreFinite
<1>3. /\ day \in Nat /\ \A r \in Grid!Coins : tape[r] \in Nat \ {0}
      /\ anchor \in Anchors /\ starved \in [Grid!Coins -> Nat]
  BY DEF GridInv, GridTypes
<1>4. IsDesk(anchor, Grid!Now(ledger)) /\ Capped(orders, trades) /\ Grid!StarvedBookIsEmpty
  BY DEF GridInv
<1>5. IsTable(orders) /\ IsLedger(ledger) /\ FillsMatch(orders, ledger)
  BY <1>4, DeskNow
<1>6. IsLedger(x) /\ FillsMatch(orders, x) /\ IsAfter(ledger, x)
  <2>1. tape[s] \in Int
    BY <1>2, <1>3
  <2> HIDE DEF s
  <2> QED BY <1>2, <1>5, <2>1, PumpKeeps
<1> HIDE DEF s, x
<1>7. IsDesk(anchor, Grid!Now(x))
  BY <1>4, <1>6, PumpedDesk
<1>8. Grid!Now(x).orders = orders /\ Grid!Now(x).trades = trades /\ Grid!Now(x).placed = 0
  BY DEF Grid!Now
<1> DEFINE Goal(w) ==
             /\ Stepped(s, w) /\ Grid!Become(w)
             /\ anchor' \in Anchors /\ starved' \in [Grid!Coins -> Nat]
             /\ \A r \in Grid!Coins : r # s => starved'[r] = starved[r]
             /\ starved'[s] > 0 => Grid!Of(s, Grid!OpenOrders(w.orders)) = {}
<1>9. CASE Grid!Initialize(s, x)
  <2> DEFINE w == Grid!PlaceLayout(Grid!Now(x), s)
  <2>1. /\ anchor[s] = 0 /\ anchor' = [anchor EXCEPT ![s] = tape[s]] /\ Grid!Become(w)
        /\ starved' = [starved EXCEPT ![s] = Grid!NoteOutcome(w, @)]
    BY <1>9 DEF Grid!Initialize
  <2>2. anchor' \in Anchors /\ anchor'[s] # 0 /\ \A r \in Grid!Coins : r # s => anchor'[r] = anchor[r]
    BY <1>2, <1>3, <2>1 DEF Anchors
  <2>3. IsDesk(anchor', Grid!Now(x)) /\ Grid!Of(s, Grid!OpenOrders(Grid!Now(x).orders)) = {}
    <3>1. DOMAIN anchor' = Grid!Coins /\ DOMAIN anchor = Grid!Coins
      BY <1>3, <2>2 DEF Anchors
    <3>2. \A r : r # s /\ r \in Grid!Coins => anchor'[r] = anchor[r]
      BY <2>2
    <3> QED BY <1>7, <2>1, <3>2, AnchoredDesk
  <2>4. Stepped(s, Grid!Now(x))
    <3>1. Capped(Grid!Now(x).orders, Grid!Now(x).trades)
      BY <1>4, <1>8, Zenon
    <3>2. \A r : Grid!Of(r, Grid!OpenOrders(Grid!Now(x).orders)) = Grid!Of(r, Grid!OpenOrders(orders))
      BY <1>8, Zenon
    <3>3. DOMAIN Grid!Now(x).orders \ DOMAIN orders = {}
      BY <1>8
    <3> QED BY <2>3, <3>1, <3>2, <3>3 DEF Stepped
  <2>5. DOMAIN orders \subseteq DOMAIN Grid!Now(x).orders
    BY <1>8
  <2>6. /\ Stepped(s, w) /\ w.placed \in Nat
        /\ w.placed = 0 => w.orders = Grid!Now(x).orders
    BY <1>2, <1>3, <2>2, <2>4, <2>5, LayoutIsStepped
  <2> HIDE DEF w
  <2>7. /\ starved' \in [Grid!Coins -> Nat] /\ \A r \in Grid!Coins : r # s => starved'[r] = starved[r]
        /\ starved'[s] > 0 => w.placed = 0
    BY <1>2, <1>3, <2>1, <2>6 DEF Grid!NoteOutcome
  <2>8. starved'[s] > 0 => Grid!Of(s, Grid!OpenOrders(w.orders)) = {}
    BY <2>3, <2>6, <2>7, Zenon
  <2>9. Goal(w)
    BY <2>1, <2>2, <2>6, <2>7, <2>8
  <2> QED BY <1>1, <1>2, <2>9
<1>10. CASE anchor[s] # 0 /\ UNCHANGED anchor /\ Grid!Offside(s, x)
  <2> DEFINE w == Grid!DetectFills(Grid!Now(x), s)
  <2>1. Grid!Become(w) /\ starved' = starved
    BY <1>10 DEF Grid!Offside
  <2>2. Stepped(s, w) /\ Grid!OpenOrders(w.orders) \subseteq Grid!OpenOrders(orders)
    BY <1>2, <1>4, <1>7, <1>10, DetectedIsStepped
  <2> HIDE DEF w
  <2>3. starved'[s] > 0 => Grid!Of(s, Grid!OpenOrders(w.orders)) = {}
    BY <1>2, <1>4, <2>1, <2>2 DEF Grid!StarvedBookIsEmpty, Grid!Of
  <2>4. Goal(w)
    BY <1>3, <1>10, <2>1, <2>2, <2>3
  <2> QED BY <1>1, <1>2, <2>4
<1>11. CASE anchor[s] # 0 /\ UNCHANGED anchor /\ Grid!Onside(s, x)
  <2> DEFINE w == Grid!InOrder(Grid!PlaceCounter, Grid!DetectFills(Grid!Now(x), s), Grid!Youngest, Grid!Candidates(Grid!Now(x), s))
             n == IF starved[s] = 0 THEN 0 ELSE starved[s] + 1
             v == Grid!PlaceLayout(w, s)
  <2>1. \/ /\ Grid!StoredBook(w, s) # {} /\ Grid!Become(w) /\ starved' = [starved EXCEPT ![s] = 0]
        \/ /\ Grid!StoredBook(w, s) = {} /\ Grid!Become(w) /\ starved' = [starved EXCEPT ![s] = n]
        \/ /\ Grid!StoredBook(w, s) = {} /\ Grid!Become(v)
           /\ starved' = [starved EXCEPT ![s] = Grid!NoteOutcome(v, n)]
    BY <1>11 DEF Grid!Onside
  <2>2. Stepped(s, w) /\ DOMAIN orders \subseteq DOMAIN w.orders
    BY <1>2, <1>3, <1>4, <1>7, <1>11, CounteredIsStepped
  <2>3. /\ Stepped(s, v) /\ v.placed \in Nat
        /\ v.placed = 0 => v.orders = w.orders
    <3> HIDE DEF w
    <3>1. anchor' \in Anchors /\ anchor'[s] # 0
      BY <1>3, <1>11
    <3> QED BY <1>2, <1>3, <2>2, <3>1, LayoutIsStepped
  <2> HIDE DEF w, v
  <2>4. n \in Nat
    BY <1>2, <1>3
  <2>5. Grid!StoredBook(w, s) = Grid!Of(s, Grid!OpenOrders(w.orders))
    BY DEF Grid!StoredBook
  <2> HIDE DEF n
  <2>6. CASE Grid!StoredBook(w, s) # {} /\ Grid!Become(w) /\ starved' = [starved EXCEPT ![s] = 0]
    <3>1. Goal(w)
      BY <1>2, <1>3, <1>11, <2>2, <2>6
    <3> QED BY <1>1, <1>2, <3>1
  <2>7. CASE Grid!StoredBook(w, s) = {} /\ Grid!Become(w) /\ starved' = [starved EXCEPT ![s] = n]
    <3>1. Goal(w)
      BY <1>2, <1>3, <1>11, <2>2, <2>4, <2>5, <2>7
    <3> QED BY <1>1, <1>2, <3>1
  <2>8. CASE /\ Grid!StoredBook(w, s) = {} /\ Grid!Become(v)
             /\ starved' = [starved EXCEPT ![s] = Grid!NoteOutcome(v, n)]
    <3>1. /\ starved' \in [Grid!Coins -> Nat] /\ \A r \in Grid!Coins : r # s => starved'[r] = starved[r]
          /\ starved'[s] > 0 => v.placed = 0
      BY <1>2, <1>3, <2>3, <2>4, <2>8 DEF Grid!NoteOutcome
    <3>2. starved'[s] > 0 => Grid!Of(s, Grid!OpenOrders(v.orders)) = {}
      BY <2>3, <2>5, <2>8, <3>1, Zenon
    <3>3. Goal(v)
      BY <1>3, <1>11, <2>3, <2>8, <3>1, <3>2
    <3> QED BY <1>1, <1>2, <3>3
  <2> QED BY <2>1, <2>6, <2>7, <2>8
<1> QED BY <1>1, <1>9, <1>10, <1>11

-----------------------------------------------------------------------------
(* Nothing is placed outside a step: the table is as it was, or some of it *)
(* is cancelled.                                                           *)
LEMMA StandingKeeps ==
  ASSUME GridInv, NEW x, NEW v, Closing(orders, v),
         IsDesk(anchor, [x |-> x, orders |-> v, trades |-> trades, cache |-> cache', placed |-> 0]),
         ledger' = x, orders' = v, trades' = trades, anchor' = anchor, day' = day,
         tape' \in [Grid!Coins -> Nat \ {0}],
         starved' \in [Grid!Coins -> Nat], \A s \in Grid!Coins : starved'[s] > 0 => starved[s] > 0,
         "turn" \in DOMAIN session', session'.turn \in Nat \ {0}
  PROVE  GridInv'
<1>1. GridTypes'
  BY DEF GridInv, GridTypes
<1>2. IsDesk(anchor, Grid!Now(ledger))'
  <2> DEFINE w == [x |-> x, orders |-> v, trades |-> trades, cache |-> cache', placed |-> 0]
  <2>1. /\ ledger' = w.x /\ orders' = w.orders /\ trades' = w.trades /\ cache' = w.cache
        /\ IsDesk(anchor', w)
    OBVIOUS
  <2> HIDE DEF w
  <2> QED BY <2>1, DeskNext DEF GridInv, GridTypes
<1>3. IsTable(orders)
  BY DeskNow DEF GridInv
<1>4. IsTable(v)
  BY <1>3, ClosingIs
<1>5. /\ Grid!OpenOrders(v) \subseteq Grid!OpenOrders(orders)
      /\ Grid!DailySpend(v, day) <= Grid!DailySpend(orders, day)
      /\ Grid!DailySpend(v, day) \in Nat /\ Grid!DailySpend(orders, day) \in Nat
  BY <1>3, ClosingShrinks
<1>6. Capped(v, trades)
  <2>1. trades \subseteq Trade /\ IsFiniteSet(trades)
    <3>1. TradesMatch(orders, trades, ledger)
      BY DeskNow DEF GridInv
    <3> QED BY <3>1 DEF TradesMatch
  <2> QED BY <1>3, <1>4, <1>5, <2>1, CappedWithLess DEF GridInv
<1>7. Capped(orders, trades)'
  BY <1>6, CappedNext
<1>8. Grid!StarvedBookIsEmpty'
  <2> SUFFICES ASSUME NEW s \in Grid!Coins, starved'[s] > 0
               PROVE  Grid!Of(s, Grid!OpenOrders(orders')) = {}
    BY DEF Grid!StarvedBookIsEmpty
  <2>1. Grid!Of(s, Grid!OpenOrders(orders)) = {}
    BY DEF GridInv, Grid!StarvedBookIsEmpty
  <2>2. Grid!Of(s, Grid!OpenOrders(v)) = {}
    BY <1>5, <2>1 DEF Grid!Of
  <2> QED BY <2>2, Zenon
<1> QED BY <1>1, <1>2, <1>7, <1>8 DEF GridInv

LEMMA ItselfCloses ==
  ASSUME NEW os, IsTable(os)
  PROVE  Closing(os, os)
  BY DEF IsTable, Closing

(* The table stands, the ledger is pumped. *)
LEMMA PumpedKeeps ==
  ASSUME GridInv, NEW x, IsLedger(x), FillsMatch(orders, x), IsAfter(ledger, x),
         ledger' = x, UNCHANGED <<orders, trades, cache, anchor, day, starved>>,
         tape' \in [Grid!Coins -> Nat \ {0}],
         "turn" \in DOMAIN session', session'.turn \in Nat \ {0}
  PROVE  GridInv'
<1>1. IsDesk(anchor, Grid!Now(x))
  BY PumpedDesk DEF GridInv
<1>2. Grid!Now(x) = [x |-> x, orders |-> orders, trades |-> trades, cache |-> cache', placed |-> 0]
  BY DEF Grid!Now
<1>3. IsDesk(anchor, [x |-> x, orders |-> orders, trades |-> trades, cache |-> cache',
                      placed |-> 0])
  BY <1>1, <1>2, Zenon
<1>4. Closing(orders, orders)
  BY DeskNow, ItselfCloses DEF GridInv
<1>5. starved' \in [Grid!Coins -> Nat] /\ starved' = starved /\ orders' = orders /\ trades' = trades
      /\ anchor' = anchor /\ day' = day
  BY DEF GridInv, GridTypes
<1> QED BY <1>3, <1>4, <1>5, StandingKeeps

LEMMA EndedKeeps ==
  ASSUME GridInv, NEW x, IsLedger(x), FillsMatch(orders, x), IsAfter(ledger, x), Grid!Ended(x),
         UNCHANGED <<trades, cache, anchor, day, starved, tape>>
  PROVE  GridInv' /\ DOMAIN orders' = DOMAIN orders
<1>1. IsDesk(anchor, Grid!Now(x))
  BY PumpedDesk DEF GridInv
<1>2. Grid!CancelAllOpen(x) /\ session' = [session EXCEPT !.state = "stopped"]
  BY DEF Grid!Ended
<1>3. /\ IsDesk(anchor, [x |-> ledger', orders |-> orders', trades |-> trades',
                         cache |-> cache', placed |-> 0])
      /\ Closing(orders, orders')
  BY <1>1, <1>2, CancelKeeps
<1>4. trades' = trades /\ anchor' = anchor /\ day' = day /\ starved' = starved /\ tape' = tape
  OBVIOUS
<1>5. /\ tape' \in [Grid!Coins -> Nat \ {0}] /\ starved' \in [Grid!Coins -> Nat]
      /\ "turn" \in DOMAIN session' /\ session'.turn \in Nat \ {0}
  BY <1>2, <1>4 DEF GridInv, GridTypes
<1>6. IsDesk(anchor, [x |-> ledger', orders |-> orders', trades |-> trades,
                      cache |-> cache', placed |-> 0])
  BY <1>3, <1>4, Zenon
<1>7. GridInv'
  BY <1>3, <1>4, <1>5, <1>6, StandingKeeps
<1>8. DOMAIN orders' = DOMAIN orders
  BY <1>3 DEF Closing
<1> QED BY <1>7, <1>8

LEMMA EndTickKeeps ==
  ASSUME GridInv, Grid!EndTick
  PROVE  GridInv' /\ DOMAIN orders' = DOMAIN orders
<1> DEFINE x == Grid!Valued(ledger)
<1>1. IsTable(orders) /\ IsLedger(ledger) /\ FillsMatch(orders, ledger)
  BY DeskNow DEF GridInv
<1>2. \A s \in Grid!Coins : tape[s] \in Int
  BY DEF GridInv, GridTypes
<1>3. IsLedger(x) /\ FillsMatch(orders, x) /\ IsAfter(ledger, x)
  BY <1>1, <1>2, ValuedKeeps
<1>4. /\ UNCHANGED <<tape, day, trades, anchor, cache, starved>>
      /\ \/ Grid!Ended(Grid!Valued(x))
         \/ ledger' = x /\ session' = [session EXCEPT !.turn = 1, !.ticks = @ + 1]
            /\ UNCHANGED orders
  BY DEF Grid!EndTick
<1> HIDE DEF x
<1>5. CASE Grid!Ended(Grid!Valued(x))
  <2> DEFINE y == Grid!Valued(x)
  <2>1. IsLedger(y) /\ FillsMatch(orders, y) /\ IsAfter(x, y)
    BY <1>1, <1>2, <1>3, ValuedKeeps
  <2> HIDE DEF y
  <2>2. IsAfter(ledger, y)
    BY <1>1, <1>3, <2>1, AfterIsTransitive
  <2>3. Grid!Ended(y)
    BY <1>5 DEF y
  <2> QED BY <1>4, <2>1, <2>2, <2>3, EndedKeeps
<1>6. CASE ledger' = x /\ session' = [session EXCEPT !.turn = 1, !.ticks = @ + 1]
           /\ UNCHANGED orders
  <2>1. "turn" \in DOMAIN session' /\ session'.turn \in Nat \ {0}
    BY <1>6 DEF GridInv, GridTypes
  <2>2. tape' \in [Grid!Coins -> Nat \ {0}]
    BY <1>4 DEF GridInv, GridTypes
  <2>3. GridInv'
    BY <1>3, <1>4, <1>6, <2>1, <2>2, PumpedKeeps
  <2> QED BY <1>6, <2>3
<1> QED BY <1>4, <1>5, <1>6

LEMMA StopKeeps ==
  ASSUME GridInv, Grid!StopRequested
  PROVE  GridInv' /\ DOMAIN orders' = DOMAIN orders
<1> DEFINE x == Grid!Valued(ledger)
<1>1. IsTable(orders) /\ IsLedger(ledger) /\ FillsMatch(orders, ledger)
  BY DeskNow DEF GridInv
<1>2. \A s \in Grid!Coins : tape[s] \in Int
  BY DEF GridInv, GridTypes
<1>3. IsLedger(x) /\ FillsMatch(orders, x) /\ IsAfter(ledger, x)
  BY <1>1, <1>2, ValuedKeeps
<1>4. UNCHANGED <<tape, day, trades, anchor, cache, starved>> /\ Grid!Ended(x)
  BY DEF Grid!StopRequested
<1> HIDE DEF x
<1> QED BY <1>3, <1>4, EndedKeeps

LEMMA DieKeeps ==
  ASSUME GridInv, Grid!Die
  PROVE  GridInv' /\ DOMAIN orders' = DOMAIN orders
<1>1. /\ UNCHANGED <<tape, day, ledger, orders, trades, anchor, cache, starved>>
      /\ session' = [session EXCEPT !.state = "dead"]
  BY DEF Grid!Die
<1>2. IsLedger(ledger) /\ FillsMatch(orders, ledger) /\ IsAfter(ledger, ledger)
  BY DeskNow, AfterItself DEF GridInv
<1>3. /\ "turn" \in DOMAIN session' /\ session'.turn \in Nat \ {0}
      /\ tape' \in [Grid!Coins -> Nat \ {0}]
  BY <1>1 DEF GridInv, GridTypes
<1>4. GridInv'
  BY <1>1, <1>2, <1>3, PumpedKeeps
<1> QED BY <1>1, <1>4

LEMMA MoveTapeKeeps ==
  ASSUME GridInv, NEW s \in Grid!Coins, NEW p \in Prices[s], Grid!MoveTape(s, p)
  PROVE  GridInv' /\ DOMAIN orders' = DOMAIN orders
<1>1. /\ UNCHANGED <<day, ledger, orders, trades, anchor, cache, starved, session>>
      /\ tape' = [tape EXCEPT ![s] = p]
  BY DEF Grid!MoveTape
<1>2. IsLedger(ledger) /\ FillsMatch(orders, ledger) /\ IsAfter(ledger, ledger)
  BY DeskNow, AfterItself DEF GridInv
<1>3. p \in Nat \ {0}
  BY PlacementAssumption DEF Grid!Coins, Grid!Range
<1>4. /\ "turn" \in DOMAIN session' /\ session'.turn \in Nat \ {0}
      /\ tape' \in [Grid!Coins -> Nat \ {0}]
  BY <1>1, <1>3 DEF GridInv, GridTypes
<1>5. GridInv'
  BY <1>1, <1>2, <1>4, PumpedKeeps
<1> QED BY <1>1, <1>5

(* A new day has no order yet. *)
LEMMA MidnightKeeps ==
  ASSUME GridInv, Grid!Midnight
  PROVE  GridInv' /\ DOMAIN orders' = DOMAIN orders
<1>1. /\ day' = day + 1
      /\ UNCHANGED <<tape, ledger, orders, trades, anchor, cache, starved, session>>
  BY DEF Grid!Midnight
<1>2. GridTypes'
  BY <1>1 DEF GridInv, GridTypes
<1>3. IsBook(anchor, orders) /\ IsTable(orders)
  BY DeskNow DEF GridInv
<1>4. day \in Nat
  BY DEF GridInv, GridTypes
<1>5. IsDesk(anchor, Grid!Now(ledger))'
  <2>1. /\ Grid!Now(ledger).x = ledger /\ Grid!Now(ledger).orders = orders
        /\ Grid!Now(ledger).trades = trades /\ Grid!Now(ledger).cache = cache
    BY DEF Grid!Now
  <2>2. IsDesk(anchor', Grid!Now(ledger))
    BY <1>1 DEF GridInv
  <2>3. day \in Int /\ day' \in Int /\ day' >= day
    BY <1>1, <1>4
  <2> QED BY <1>1, <2>1, <2>2, <2>3, DeskNext
<1>6. Grid!DailySpend(orders, day') = 0
  <2> DEFINE S == {o \in Grid!Buys(Grid!Range(orders)) : o.status \in Grid!SpendCommitted /\ o.day = day'}
  <2>1. \A o \in Grid!Range(orders) : o.day \in Nat /\ o.day <= day
    BY <1>3, TableIs DEF IsBook, Row
  <2>2. S = {}
    BY <1>1, <1>4, <2>1 DEF Grid!Buys
  <2>3. {} \subseteq Row /\ IsFiniteSet({})
    BY FS_EmptySet
  <2>4. Grid!Notional({}) = Total(Money, {})
    BY <2>3, NotionalIs
  <2>5. Grid!Notional({}) = 0
    BY <2>4, TotalEmpty
  <2>6. Grid!DailySpend(orders, day') = Grid!Notional(S)
    BY DEF Grid!DailySpend
  <2> HIDE DEF S
  <2> QED BY <2>2, <2>5, <2>6, Zenon
<1>7. Capped(orders, trades)'
  <2>1. Grid!DailySpend(orders, day') <= Caps.dailySpend
    BY <1>6, PlacementAssumption
  <2>2. Capped(orders, trades)
    BY DEF GridInv
  <2> QED BY <1>1, <2>1, <2>2 DEF Capped
<1>8. Grid!StarvedBookIsEmpty'
  BY <1>1 DEF GridInv, Grid!StarvedBookIsEmpty
<1> QED BY <1>1, <1>2, <1>5, <1>7, <1>8 DEF GridInv

LEMMA FreshIs ==
  /\ IsLedger(Grid!Fresh) /\ Grid!Fresh.resting = {} /\ Grid!Fresh.fills = {} /\ Grid!Fresh.clock = 0
  /\ \A n \in Nat : LET x == [Grid!Fresh EXCEPT !.clock = n]
                    IN IsLedger(x) /\ x.resting = {} /\ x.fills = {} /\ x.clock = n
<1>1. Grid!Fresh = [usd |-> StartUsd, base |-> StartBase, resting |-> {}, fills |-> {},
               price |-> [s \in DOMAIN StartBase |-> 0], rate |-> MakerFee, clock |-> 0]
  BY DEF Grid!Fresh, Grid!NewLedger
<1>2. StartUsd \in Int /\ StartBase \in [Grid!Coins -> Int] /\ MakerFee \in Nat
  BY PlacementAssumption DEF Grid!Coins, Grid!Range
<1>3. IsFiniteSet({})
  BY FS_EmptySet
<1>4. [s \in DOMAIN StartBase |-> 0] \in [Grid!Coins -> Int]
  BY <1>2
<1> QED BY <1>1, <1>2, <1>3, <1>4 DEF IsLedger

(* A new ledger and no memory. *)
LEMMA BootKeeps ==
  ASSUME GridInv, Grid!Boot
  PROVE  GridInv' /\ DOMAIN orders' = DOMAIN orders
<1>1. /\ ledger' = [Grid!Fresh EXCEPT !.clock = ledger.clock] /\ cache' = [s \in Grid!Coins |-> {}]
      /\ starved' = [s \in Grid!Coins |-> 0]
      /\ "turn" \in DOMAIN session' /\ session'.turn \in Nat \ {0}
      /\ UNCHANGED <<tape, day, orders, trades, anchor>>
  BY DEF Grid!Boot, Grid!Session
<1>2. /\ IsTable(orders) /\ IsBook(anchor, orders) /\ IsLedger(ledger)
      /\ TradesMatch(orders, trades, ledger)
  BY DeskNow DEF GridInv
<1> DEFINE x == [Grid!Fresh EXCEPT !.clock = ledger.clock]
<1>3. IsLedger(x) /\ x.resting = {} /\ x.fills = {} /\ x.clock = ledger.clock
  BY <1>2, FreshIs DEF IsLedger
<1>4. ledger' = x
  BY <1>1
<1> HIDE DEF x
<1>5. FillsMatch(orders, x) /\ TradesMatch(orders, trades, x)
  BY <1>2, <1>3 DEF FillsMatch, TradesMatch
<1>6. BasisIsKnown(cache', trades)
  BY <1>1 DEF BasisIsKnown
<1>7. IsDesk(anchor, [x |-> x, orders |-> orders, trades |-> trades, cache |-> cache', placed |-> 0])
  BY <1>2, <1>3, <1>5, <1>6 DEF IsDesk
<1>8. Closing(orders, orders)
  BY <1>2, ItselfCloses
<1>9. /\ tape' \in [Grid!Coins -> Nat \ {0}] /\ starved' \in [Grid!Coins -> Nat]
      /\ \A s \in Grid!Coins : ~ (starved'[s] > 0)
      /\ orders' = orders /\ trades' = trades /\ anchor' = anchor /\ day' = day
  BY <1>1 DEF GridInv, GridTypes
<1>10. GridInv'
  BY <1>1, <1>4, <1>7, <1>8, <1>9, StandingKeeps
<1> QED BY <1>1, <1>10

LEMMA GridRests ==
  ASSUME GridInv, UNCHANGED gridVars
  PROVE  GridInv' /\ DOMAIN orders' = DOMAIN orders
<1>1. UNCHANGED <<tape, day, ledger, orders, trades, anchor, cache, starved, session>>
  BY DEF gridVars
<1>2. IsLedger(ledger) /\ FillsMatch(orders, ledger) /\ IsAfter(ledger, ledger)
  BY DeskNow, AfterItself DEF GridInv
<1>3. /\ "turn" \in DOMAIN session' /\ session'.turn \in Nat \ {0}
      /\ tape' \in [Grid!Coins -> Nat \ {0}]
  BY <1>1 DEF GridInv, GridTypes
<1>4. GridInv'
  BY <1>1, <1>2, <1>3, PumpedKeeps
<1> QED BY <1>1, <1>4

-----------------------------------------------------------------------------
LEMMA NothingIsCapped == Capped(<<>>, {}) /\ IsTable(<<>>)
<1>1. IsTable(<<>>) /\ Grid!Range(<<>>) = {}
  BY DEF IsTable, Grid!Range
<1>2. \A S : S = {} => Grid!Notional(S) = 0
  <2>1. {} \subseteq Row /\ IsFiniteSet({})
    BY FS_EmptySet
  <2>2. Grid!Notional({}) = Total(Money, {})
    BY <2>1, NotionalIs
  <2> QED BY <2>2, TotalEmpty
<1>3. Grid!OpenOrders(<<>>) = {}
  BY <1>1 DEF Grid!OpenOrders
<1>4. \A s : Grid!Of(s, {}) = {}
  BY DEF Grid!Of
<1>5. Grid!Buys({}) = {}
  BY DEF Grid!Buys
<1>6. Grid!DailySpend(<<>>, day) = 0
  <2> DEFINE S == {o \in Grid!Buys(Grid!Range(<<>>)) : o.status \in Grid!SpendCommitted /\ o.day = day}
  <2>1. S = {}
    BY <1>1 DEF Grid!Buys
  <2>2. Grid!DailySpend(<<>>, day) = Grid!Notional(S)
    BY DEF Grid!DailySpend
  <2> HIDE DEF S
  <2> QED BY <1>2, <2>1, <2>2
<1>7. IsFiniteSet({}) /\ {} \subseteq Trade
  BY FS_EmptySet
<1>8. \A s : Grid!InventoryCost({}, s) = 0 /\ FeesOf({}, s) \in Nat
  <2>1. \A s : Grid!InventoryCost({}, s) = Grid!ReplayAverageCost({}).cost
    BY <1>4, Zenon DEF Grid!InventoryCost
  <2>2. Grid!ReplayAverageCost({}).cost = 0
    BY ReplayEmpty DEF Grid!NoBasis
  <2>3. \A s : FeesOf({}, s) \in Nat
    BY <1>7, FeesOfIs
  <2> QED BY <2>1, <2>2, <2>3
<1>9. Grid!TotalInventoryCost({}) = 0
  <2> DEFINE w == [s \in {t.symbol : t \in {}} |-> Grid!InventoryCost({}, s)]
  <2>1. DOMAIN w = {}
    OBVIOUS
  <2>2. Grid!TotalInventoryCost({}) = Grid!SumOf(w)
    BY DEF Grid!TotalInventoryCost
  <2> HIDE DEF w
  <2>3. Grid!SumOf(w) = Total(w, DOMAIN w)
    BY SumOfIs
  <2>4. Total(w, DOMAIN w) = Total(w, {})
    BY <2>1, Zenon
  <2> QED BY <2>2, <2>3, <2>4, TotalEmpty
<1>10. Grid!SumOf([s \in Grid!Coins |-> FeesOf({}, s)]) \in Nat
  BY <1>7, AllFeesIs
<1>11. Cardinality({}) = 0
  BY FS_EmptySet
<1>12. /\ Caps.ordersPerCoin \in Nat /\ Caps.coinExposure \in Nat
       /\ Caps.totalExposure \in Nat /\ Caps.dailySpend \in Nat
       /\ Caps.coinInventory \in Nat /\ Caps.totalInventory \in Nat
  BY PlacementAssumption
<1>13. \A s : /\ Grid!Of(s, Grid!OpenOrders(<<>>)) = {} /\ Grid!Buys(Grid!Of(s, Grid!OpenOrders(<<>>))) = {}
  BY <1>3, <1>4, <1>5, Zenon
<1>14. Grid!Notional({}) = 0
  BY <1>2
<1>15. Capped(<<>>, {})
  <2>1. Grid!Notional(Grid!OpenOrders(<<>>)) = 0 /\ Grid!Notional(Grid!Buys(Grid!OpenOrders(<<>>))) = 0
    BY <1>3, <1>5, <1>14, Zenon
  <2>2. \A s : /\ Cardinality(Grid!Of(s, Grid!OpenOrders(<<>>))) = 0
               /\ Grid!Notional(Grid!Of(s, Grid!OpenOrders(<<>>))) = 0
               /\ Grid!Notional(Grid!Buys(Grid!Of(s, Grid!OpenOrders(<<>>)))) = 0
    BY <1>11, <1>13, <1>14, Zenon
  <2> QED BY <1>6, <1>8, <1>9, <1>10, <1>12, <2>1, <2>2 DEF Capped
<1> QED BY <1>1, <1>15

LEMMA InitGrid == Grid!Init => GridInv
<1> SUFFICES ASSUME Grid!Init
             PROVE  GridInv
  OBVIOUS
<1>1. /\ day = 1 /\ ledger = Grid!Fresh /\ orders = <<>> /\ trades = {}
      /\ anchor = [s \in Grid!Coins |-> 0] /\ cache = [s \in Grid!Coins |-> {}]
      /\ starved = [s \in Grid!Coins |-> 0]
      /\ session = Grid!Session("running", Grid!PortfolioValue(Grid!Fresh, tape))
  BY DEF Grid!Init
<1>2. tape \in [Grid!Coins -> Nat \ {0}]
  BY PlacementAssumption DEF Grid!Init, Grid!Coins, Grid!Range
<1>3. GridTypes
  BY <1>1, <1>2 DEF GridTypes, Anchors, Grid!Session
<1>4. Capped(orders, trades) /\ IsTable(orders)
  BY <1>1, NothingIsCapped, Zenon
<1>5. IsBook(anchor, orders)
  BY <1>1, <1>4 DEF IsBook
<1>6. IsLedger(ledger) /\ FillsMatch(orders, ledger)
  BY <1>1, FreshIs DEF FillsMatch
<1>7. TradesMatch(orders, trades, ledger)
  BY <1>1, FS_EmptySet DEF TradesMatch
<1>8. BasisIsKnown(cache, trades)
  BY <1>1 DEF BasisIsKnown
<1>9. IsDesk(anchor, Grid!Now(ledger))
  <2>1. /\ Grid!Now(ledger).x = ledger /\ Grid!Now(ledger).orders = orders
        /\ Grid!Now(ledger).trades = trades /\ Grid!Now(ledger).cache = cache /\ Grid!Now(ledger).placed = 0
        /\ Grid!Now(ledger) = [x |-> Grid!Now(ledger).x, orders |-> Grid!Now(ledger).orders,
                          trades |-> Grid!Now(ledger).trades, cache |-> Grid!Now(ledger).cache,
                          placed |-> Grid!Now(ledger).placed]
    BY DEF Grid!Now
  <2> QED BY <1>5, <1>6, <1>7, <1>8, <2>1 DEF IsDesk
<1>10. Grid!StarvedBookIsEmpty
  BY <1>1 DEF Grid!StarvedBookIsEmpty
<1> QED BY <1>3, <1>4, <1>9, <1>10 DEF GridInv

(* What is placed is guarded: in a step, of what it lays; nowhere else is  *)
(* a row added.                                                            *)
NewRowsGuarded == \A i \in DOMAIN orders' \ DOMAIN orders : Guarded(trades', orders'[i])

LEMMA NextGrid ==
  ASSUME GridInv, [Grid!Next]_gridVars
  PROVE  GridInv' /\ NewRowsGuarded
<1>1. CASE Grid!Step
  <2>1. PICK s \in Grid!Coins : \E w :
            /\ Stepped(s, w) /\ Grid!Become(w) /\ UNCHANGED <<tape, day>>
            /\ anchor' \in Anchors /\ starved' \in [Grid!Coins -> Nat]
            /\ \A r \in Grid!Coins : r # s => starved'[r] = starved[r]
            /\ starved'[s] > 0 => Grid!Of(s, Grid!OpenOrders(w.orders)) = {}
            /\ session' = [session EXCEPT !.turn = @ + 1]
    BY <1>1, StepIsStepped
  <2>2. PICK w :
            /\ Stepped(s, w) /\ Grid!Become(w) /\ UNCHANGED <<tape, day>>
            /\ anchor' \in Anchors /\ starved' \in [Grid!Coins -> Nat]
            /\ \A r \in Grid!Coins : r # s => starved'[r] = starved[r]
            /\ starved'[s] > 0 => Grid!Of(s, Grid!OpenOrders(w.orders)) = {}
            /\ session' = [session EXCEPT !.turn = @ + 1]
    BY <2>1
  <2>3. GridInv'
    BY <2>2, SteppedKeeps
  <2>4. \A i \in DOMAIN w.orders \ DOMAIN orders : Guarded(w.trades, w.orders[i])
    BY <2>2 DEF Stepped
  <2>5. orders' = w.orders /\ trades' = w.trades
    BY <2>2 DEF Grid!Become
  <2>6. NewRowsGuarded
    BY <2>4, <2>5, Zenon DEF NewRowsGuarded
  <2> QED BY <2>3, <2>6
<1>2. CASE Grid!EndTick
  BY <1>2, EndTickKeeps DEF NewRowsGuarded
<1>3. CASE Grid!StopRequested
  BY <1>3, StopKeeps DEF NewRowsGuarded
<1>4. CASE Grid!Die
  BY <1>4, DieKeeps DEF NewRowsGuarded
<1>5. CASE Grid!Boot
  BY <1>5, BootKeeps DEF NewRowsGuarded
<1>6. CASE \E s \in Grid!Coins : \E p \in Prices[s] : Grid!MoveTape(s, p)
  BY <1>6, MoveTapeKeeps DEF NewRowsGuarded
<1>7. CASE Grid!Midnight
  BY <1>7, MidnightKeeps DEF NewRowsGuarded
<1>8. CASE UNCHANGED gridVars
  BY <1>8, GridRests DEF NewRowsGuarded
<1> QED BY <1>1, <1>2, <1>3, <1>4, <1>5, <1>6, <1>7, <1>8 DEF Grid!Next

LEMMA GridPart == ServicesNext \/ UNCHANGED all => [Grid!Next]_gridVars
  BY DEF ServicesNext, Rest, all, partVars

LEMMA CapsAreHeld == GridInv => Grid!CapsHold
<1> SUFFICES ASSUME GridInv
             PROVE  Grid!CapsHold
  OBVIOUS
<1>1. Capped(orders, trades)
  BY DEF GridInv
<1>2. \A s : Grid!Fees(s) = FeesOf(trades, s)
  BY DEF Grid!Fees, FeesOf
<1>3. Grid!SumOf([s \in Grid!Coins |-> Grid!Fees(s)]) = Grid!SumOf([s \in Grid!Coins |-> FeesOf(trades, s)])
  <2>1. [s \in Grid!Coins |-> Grid!Fees(s)] = [s \in Grid!Coins |-> FeesOf(trades, s)]
    BY <1>2
  <2> QED BY <2>1, Zenon
<1>4. \A S : Grid!Cardinality(S) = Cardinality(S)
  BY CardinalityIs
<1> QED BY <1>1, <1>2, <1>3, <1>4 DEF Capped, Grid!CapsHold

(* For any coins, prices, grids, fees and caps: no cap is exceeded by what *)
(* is open and what was bought, whatever is placed, filled, cancelled and  *)
(* forgotten by a restart, and a coin counted as starved has no order.     *)
THEOREM BookIsSound == ServicesSpec => []BookSound
<1>1. ServicesInit => GridInv
  BY InitGrid DEF ServicesInit, PartsInit
<1>2. GridInv /\ [ServicesNext]_all => GridInv'
  BY NextGrid, GridPart
<1>3. GridInv => BookSound
  BY CapsAreHeld DEF GridInv, BookSound
<1> QED BY <1>1, <1>2, <1>3, PTL DEF ServicesSpec

(* No SELL is placed below what the recorded trades say the coin cost,     *)
(* less the loss that is allowed: the guard's cache is never stale.        *)
THEOREM SalesMakeNoLoss == ServicesSpec => NoLossSale
<1>1. ServicesInit => GridInv
  BY InitGrid DEF ServicesInit, PartsInit
<1>2. GridInv /\ [ServicesNext]_all => GridInv'
  BY NextGrid, GridPart
<1> DEFINE A == \A i \in DOMAIN orders' \ DOMAIN orders :
                  LET o == orders'[i]
                  IN o.side = "sell" =>
                        Grid!SellAllowed(o.price, Grid!ReplayAverageCost(Grid!Of(o.symbol, trades')),
                                    MaxLossPercent, MakerFee)
<1>3. GridInv /\ [ServicesNext]_all => [A]_gridVars
  <2>1. GridInv /\ [ServicesNext]_all => NewRowsGuarded
    BY NextGrid, GridPart
  <2> QED BY <2>1 DEF NewRowsGuarded, Guarded
<1>4. ServicesSpec => [][A]_gridVars
  <2> HIDE DEF A
  <2> QED BY <1>1, <1>2, <1>3, PTL DEF ServicesSpec
<1> QED BY <1>4 DEF NoLossSale, Grid!NoLossSale, Grid!vars, gridVars

-----------------------------------------------------------------------------
(* The cycles.  p has nothing to say; what is known when the trades D are  *)
(* matched: which BUYs are unpaired, and that a SELL left unpaired had     *)
(* none to close.                                                          *)
IsPair(c) ==
    /\ c.buy.side = "buy" /\ c.sell.side = "sell" /\ c.buy.symbol = c.sell.symbol
    /\ c.buy.price < c.sell.price /\ c.buy.at < c.sell.at
    /\ c.counter => c.buy.amount = c.sell.amount

Closes(b, t) == b.symbol = t.symbol /\ b.at < t.at /\ b.price < t.price

Matched(p, D, acc) ==
    /\ acc = [buys |-> acc.buys, cycles |-> acc.cycles]
    /\ acc.buys \subseteq D /\ \A b \in acc.buys : b.side = "buy"
    /\ \A c \in acc.cycles : c.buy \in D /\ c.sell \in D /\ IsPair(c) /\ c.buy \notin acc.buys
    /\ \A c, d \in acc.cycles : d # c => d.buy # c.buy /\ d.sell # c.sell
    /\ \A b \in D : b.side = "buy" => b \in acc.buys \/ \E c \in acc.cycles : c.buy = b
    /\ \A t \in D : t.side = "sell" =>
          (\E c \in acc.cycles : c.sell = t) \/ \A b \in acc.buys : ~ Closes(b, t)

Matchings == INSTANCE FiniteSums WITH Step <- Grid!Match, Final <- Grid!Latest, Keeps <- Matched

LEMMA CycleIs ==
  ASSUME NEW b \in Trade, NEW t \in Trade, b.side = "buy", t.side = "sell", Closes(b, t)
  PROVE  LET c == Grid!Cycle(b, t) IN c.buy = b /\ c.sell = t /\ IsPair(c)
  BY DEF Grid!Cycle, Closes, IsPair

LEMMA ClosableIs ==
  ASSUME NEW buys, IsFiniteSet(buys), buys \subseteq Trade, NEW t
  PROVE  /\ Grid!Closable(buys, t) \subseteq buys
         /\ \A b \in Grid!Closable(buys, t) : b.symbol = t.symbol /\ b.price < t.price
         /\ Grid!Closable(buys, t) = {} =>
               \A b \in buys : ~ (b.symbol = t.symbol /\ b.price < t.price)
         /\ Grid!Closable(buys, t) # {} => Grid!Oldest(Grid!Closable(buys, t)) \in Grid!Closable(buys, t)
<1> DEFINE C == Grid!Closable(buys, t)
           cheaper == {b \in Grid!Of(t.symbol, buys) : b.price < t.price}
           same == {b \in cheaper : b.amount = t.amount}
<1>1. C = IF same # {} THEN same ELSE cheaper
  BY DEF Grid!Closable
<1>2. cheaper = {b \in buys : b.symbol = t.symbol /\ b.price < t.price}
  BY DEF Grid!Of
<1>3. /\ C \subseteq buys
      /\ \A b \in C : b.symbol = t.symbol /\ b.price < t.price
      /\ C = {} => \A b \in buys : ~ (b.symbol = t.symbol /\ b.price < t.price)
  <2> HIDE DEF C
  <2> QED BY <1>1, <1>2
<1> HIDE DEF C
<1>4. \A b \in C : b.at \in Int
  BY <1>3 DEF Trade
<1>5. IsFiniteSet(C)
  BY <1>3, FS_Subset
<1>6. C # {} => Grid!Oldest(C) \in C
  BY <1>4, <1>5, OldestIs
<1> QED BY <1>3, <1>6 DEF C

(* One more trade, later than those matched. *)
LEMMA MatchKeeps ==
  ASSUME NEW p, NEW D, D \subseteq Trade, IsFiniteSet(D), NEW t \in Trade, t \notin D,
         \A d \in D : d.at < t.at, NEW acc, Matched(p, D, acc)
  PROVE  Matched(p, D \union {t}, Grid!Match(t, acc))
<1> DEFINE E == D \union {t}
           C == Grid!Closable(acc.buys, t)
<1>1. acc.buys \subseteq D /\ acc.buys \subseteq Trade /\ IsFiniteSet(acc.buys)
  BY FS_Subset DEF Matched
<1>2. /\ C \subseteq acc.buys
      /\ \A b \in C : b.symbol = t.symbol /\ b.price < t.price
      /\ C = {} => \A b \in acc.buys : ~ (b.symbol = t.symbol /\ b.price < t.price)
      /\ C # {} => Grid!Oldest(C) \in C
  BY <1>1, ClosableIs
<1>3. t.side \in {"buy", "sell"}
  BY DEF Trade, Sides
<1>4. \A d \in D : d.at \in Nat /\ d.at < t.at /\ ~ Closes(t, d)
  <2>1. \A d \in D : d.at \in Nat /\ t.at \in Nat
    BY DEF Trade
  <2> QED BY <2>1 DEF Closes
<1>5. CASE t.side = "buy"
  <2> DEFINE v == Grid!Match(t, acc)
  <2>1. v = [acc EXCEPT !.buys = @ \union {t}]
    BY <1>5 DEF Grid!Match
  <2>2. v = [buys |-> acc.buys \union {t}, cycles |-> acc.cycles]
    BY <2>1 DEF Matched
  <2>3. v.buys = acc.buys \union {t} /\ v.cycles = acc.cycles
        /\ v = [buys |-> v.buys, cycles |-> v.cycles]
    BY <2>2
  <2> HIDE DEF v
  <2>4. \A c \in v.cycles : c.buy \in E /\ c.sell \in E /\ IsPair(c) /\ c.buy \notin v.buys
    BY <2>3 DEF Matched
  <2>5. \A b \in E : b.side = "buy" => b \in v.buys \/ \E c \in v.cycles : c.buy = b
    BY <2>3 DEF Matched
  <2>6. \A u \in E : u.side = "sell" =>
           (\E c \in v.cycles : c.sell = u) \/ \A b \in v.buys : ~ Closes(b, u)
    <3> SUFFICES ASSUME NEW u \in D, u.side = "sell", ~ (\E c \in v.cycles : c.sell = u)
                 PROVE  \A b \in v.buys : ~ Closes(b, u)
      BY <1>5
    <3>1. \A b \in acc.buys : ~ Closes(b, u)
      BY <2>3 DEF Matched
    <3>2. ~ Closes(t, u)
      BY <1>4
    <3> QED BY <2>3, <3>1, <3>2
  <2>7. v.buys \subseteq E /\ \A b \in v.buys : b.side = "buy"
    BY <1>5, <2>3 DEF Matched
  <2>8. \A c, d \in v.cycles : d # c => d.buy # c.buy /\ d.sell # c.sell
    BY <2>3 DEF Matched
  <2>9. Matched(p, E, v)
    BY <2>3, <2>4, <2>5, <2>6, <2>7, <2>8 DEF Matched
  <2> QED BY <2>9 DEF v
<1>6. CASE t.side = "sell" /\ C = {}
  <2>1. Grid!Match(t, acc) = acc
    BY <1>6 DEF Grid!Match
  <2>2. \A b \in acc.buys : ~ Closes(b, t)
    BY <1>2, <1>6 DEF Closes
  <2>3. Matched(p, E, acc)
    <3>1. \A b \in E : b.side = "buy" => b \in acc.buys \/ \E c \in acc.cycles : c.buy = b
      BY <1>6 DEF Matched
    <3>2. \A u \in E : u.side = "sell" =>
             (\E c \in acc.cycles : c.sell = u) \/ \A b \in acc.buys : ~ Closes(b, u)
      BY <2>2 DEF Matched
    <3> HIDE DEF C
    <3> QED BY <3>1, <3>2 DEF Matched
  <2> QED BY <2>1, <2>3
<1>7. CASE t.side = "sell" /\ C # {}
  <2> DEFINE b == Grid!Oldest(C)
             v == Grid!Match(t, acc)
  <2>1. b \in acc.buys /\ b.symbol = t.symbol /\ b.price < t.price
    BY <1>2, <1>7
  <2>2. b \in D /\ b \in Trade /\ b.side = "buy" /\ b.at < t.at
    BY <1>1, <2>1 DEF Matched
  <2>3. Closes(b, t)
    BY <2>1, <2>2 DEF Closes
  <2> HIDE DEF C, b
  <2> DEFINE k == Grid!Cycle(b, t)
  <2>4. k.buy = b /\ k.sell = t /\ IsPair(k)
    BY <1>7, <2>2, <2>3, CycleIs
  <2>5. v = [buys |-> acc.buys \ {b}, cycles |-> acc.cycles \union {k}]
    BY <1>7 DEF Grid!Match, C, b
  <2>6. v.buys = acc.buys \ {b} /\ v.cycles = acc.cycles \union {k}
        /\ v = [buys |-> v.buys, cycles |-> v.cycles]
    BY <2>5
  <2> HIDE DEF v, k
  <2>7. \A c \in acc.cycles : c.buy # b /\ c.sell # t
    BY <2>1 DEF Matched
  <2>8. \A c \in v.cycles : c.buy \in E /\ c.sell \in E /\ IsPair(c) /\ c.buy \notin v.buys
    BY <2>2, <2>4, <2>6 DEF Matched
  <2>9. \A c, d \in v.cycles : d # c => d.buy # c.buy /\ d.sell # c.sell
    BY <2>4, <2>6, <2>7 DEF Matched
  <2>10. \A a \in E : a.side = "buy" => a \in v.buys \/ \E c \in v.cycles : c.buy = a
    BY <1>7, <2>4, <2>6 DEF Matched
  <2>11. \A u \in E : u.side = "sell" =>
            (\E c \in v.cycles : c.sell = u) \/ \A a \in v.buys : ~ Closes(a, u)
    <3> SUFFICES ASSUME NEW u \in E, u.side = "sell", ~ (\E c \in v.cycles : c.sell = u)
                 PROVE  \A a \in v.buys : ~ Closes(a, u)
      OBVIOUS
    <3>1. u # t
      BY <2>4, <2>6
    <3>2. \A a \in acc.buys : ~ Closes(a, u)
      BY <2>6, <3>1 DEF Matched
    <3> QED BY <2>6, <3>2
  <2>12. v.buys \subseteq E /\ \A a \in v.buys : a.side = "buy"
    BY <2>6 DEF Matched
  <2>13. Matched(p, E, v)
    BY <2>6, <2>8, <2>9, <2>10, <2>11, <2>12 DEF Matched
  <2> QED BY <2>13 DEF v
<1> QED BY <1>3, <1>5, <1>6, <1>7

LEMMA MatchingIs ==
  ASSUME NEW ts, IsFiniteSet(ts), ts \subseteq Trade, \A t, u \in ts : t.at = u.at => t = u
  PROVE  Matched(0, ts, Grid!Matching(ts))
<1> DEFINE none == [buys |-> {}, cycles |-> {}]
<1>1. Matchings!IsFoldable(ts)
  <2>1. Matchings!AllowsInduction(ts)
    BY Finite, Zenon DEF AllowsInduction, Matchings!AllowsInduction
  <2>2. \A t \in ts : t.at \in Int
    BY DEF Trade
  <2>3. \A T \in SUBSET ts : T # {} => Grid!Latest(T) \in T
    BY <2>2, FS_Subset, LatestIs
  <2> QED BY <2>1, <2>3 DEF Matchings!IsFoldable
<1>2. Matched(0, {}, none)
  BY DEF Matched
<1>3. ASSUME NEW D \in SUBSET ts, NEW t \in ts, NEW acc,
             t \notin D, Grid!Latest(D \union {t}) = t, Matched(0, D, acc)
      PROVE  Matched(0, D \union {t}, Grid!Match(t, acc))
  <2> DEFINE E == D \union {t}
  <2>1. E \subseteq ts /\ E # {} /\ D \subseteq E /\ t \in E
    OBVIOUS
  <2>2. IsFiniteSet(E) /\ IsFiniteSet(D) /\ D \subseteq Trade /\ \A d \in E : d.at \in Nat
    BY <2>1, FS_Subset DEF Trade
  <2>3. Grid!Latest(E) = t
    BY <1>3
  <2> HIDE DEF E
  <2>4. \A d \in E : d.at <= t.at
    BY <2>1, <2>2, <2>3, LatestIs
  <2>5. \A d \in D : d.at < t.at
    BY <1>3, <2>1, <2>2, <2>4
  <2> QED BY <1>3, <2>2, <2>5, MatchKeeps
<1>4. Matched(0, ts, Matchings!Fold(none, ts))
  <2>1. \A D \in SUBSET ts, t \in ts : \A acc :
           (t \notin D /\ Grid!Latest(D \union {t}) = t /\ Matched(0, D, acc))
              => Matched(0, D \union {t}, Grid!Match(t, acc))
    BY <1>3
  <2> HIDE DEF none
  <2> QED BY <1>1, <1>2, <2>1, Matchings!FoldKeeps
<1>5. Grid!Matching(ts) = Matchings!Fold(none, ts)
  BY Zenon DEF Grid!Matching, Grid!InOrder, Grid!MapThenFoldSet, Matchings!Fold, Matchings!MapThenFoldSet
<1> QED BY <1>4, <1>5

LEMMA CyclesArePaired == GridInv => Grid!CyclesPair
<1> SUFFICES ASSUME GridInv
             PROVE  Grid!CyclesPair
  OBVIOUS
<1> DEFINE acc == Grid!Matching(trades)
<1>1. IsFiniteSet(trades) /\ trades \subseteq Trade /\ \A t, u \in trades : t.at = u.at => t = u
  <2>1. TradesMatch(orders, trades, ledger)
    BY DeskNow DEF GridInv
  <2> QED BY <2>1 DEF TradesMatch
<1>2. Matched(0, trades, acc)
  BY <1>1, MatchingIs
<1>3. Grid!MatchCycles(trades) = acc.cycles
  BY DEF Grid!MatchCycles
<1> HIDE DEF acc
<1> DEFINE paired(t) == \E c \in acc.cycles : t \in {c.buy, c.sell}
<1>4. \A c \in acc.cycles :
         /\ {c.buy, c.sell} \subseteq trades
         /\ c.buy.side = "buy" /\ c.sell.side = "sell"
         /\ c.buy.symbol = c.sell.symbol
         /\ c.buy.price < c.sell.price
         /\ c.buy.at < c.sell.at
         /\ \A d \in acc.cycles : d # c => d.buy # c.buy /\ d.sell # c.sell
  BY <1>2 DEF Matched, IsPair
<1>5. ASSUME NEW sell \in trades, NEW buy \in trades,
             sell.side = "sell", buy.side = "buy", buy.symbol = sell.symbol,
             buy.at < sell.at, buy.price < sell.price, ~ paired(buy)
      PROVE  paired(sell)
  <2>1. buy \in acc.buys
    BY <1>2, <1>5 DEF Matched
  <2>2. Closes(buy, sell)
    BY <1>5 DEF Closes
  <2>3. \E c \in acc.cycles : c.sell = sell
    BY <1>2, <1>5, <2>1, <2>2 DEF Matched
  <2> QED BY <2>3
<1> QED BY <1>3, <1>4, <1>5 DEF Grid!CyclesPair

-----------------------------------------------------------------------------
(* An anchor is a price the tape has shown. *)
AnchorsAreSeen == \A s \in Grid!Coins : tape[s] \in Prices[s] /\ (anchor[s] # 0 => anchor[s] \in Prices[s])

LEMMA InitAnchors == Grid!Init => AnchorsAreSeen
  BY DEF Grid!Init, AnchorsAreSeen

LEMMA NextAnchors ==
  ASSUME GridInv, AnchorsAreSeen, [Grid!Next]_gridVars
  PROVE  AnchorsAreSeen'
<1>1. tape \in [Grid!Coins -> Nat \ {0}] /\ anchor \in [Grid!Coins -> Nat]
  BY DEF GridInv, GridTypes, Anchors
<1>2. CASE Grid!Step
  <2>1. PICK s \in Grid!Coins : \/ UNCHANGED anchor
                           \/ anchor' = [anchor EXCEPT ![s] = tape[s]]
    <3> DEFINE s == Symbols[session.turn]
    <3>1. s \in Grid!Coins
      <4>1. session.turn <= Len(Symbols)
        BY <1>2 DEF Grid!Step
      <4>2. session.turn \in Nat \ {0}
        BY DEF GridInv, GridTypes
      <4> QED BY <4>1, <4>2, PlacementAssumption, CoinsAreFinite
    <3>2. UNCHANGED anchor \/ anchor' = [anchor EXCEPT ![s] = tape[s]]
      BY <1>2 DEF Grid!Step, Grid!Initialize
    <3> HIDE DEF s
    <3> QED BY <3>1, <3>2
  <2>2. tape' = tape
    BY <1>2 DEF Grid!Step
  <2> QED BY <1>1, <2>1, <2>2 DEF AnchorsAreSeen
<1>3. CASE \E s \in Grid!Coins : \E p \in Prices[s] : Grid!MoveTape(s, p)
  BY <1>1, <1>3 DEF Grid!MoveTape, AnchorsAreSeen
<1>4. CASE Grid!EndTick \/ Grid!StopRequested \/ Grid!Die \/ Grid!Boot \/ Grid!Midnight \/ UNCHANGED gridVars
  <2>1. tape' = tape /\ anchor' = anchor
    BY <1>4 DEF Grid!EndTick, Grid!StopRequested, Grid!Die, Grid!Boot, Grid!Midnight, gridVars
  <2> QED BY <2>1 DEF AnchorsAreSeen
<1> QED BY <1>2, <1>3, <1>4 DEF Grid!Next

(* An order goes by the amount of its level; the levels of a coin, at any  *)
(* price it may be anchored at, have amounts of their own.  A counter at   *)
(* the ceiling, as TopSell has it, is of no level.                         *)
AmountsTellLevels ==
    /\ ~ TopSell
    /\ \A s \in Grid!Coins : \A r \in Prices[s] :
          \A l, k \in Grid!GridLevels(s, r, SpacingPercent, Above, Below) :
             OrderSize \div l.price = OrderSize \div k.price => l = k

(* Two BUYs of a coin and an amount have one price. *)
LEMMA AmountTellsPrice ==
  ASSUME GridInv, AnchorsAreSeen, AmountsTellLevels,
         NEW i \in DOMAIN orders, NEW j \in DOMAIN orders,
         orders[i].side = "buy", orders[j].side = "buy",
         orders[i].symbol = orders[j].symbol, orders[i].amount = orders[j].amount
  PROVE  orders[i].price = orders[j].price
<1> DEFINE o == orders[i]
           q == orders[j]
           s == o.symbol
           r == anchor[s]
           G == Grid!GridLevels(s, r, SpacingPercent, Above, Below)
<1>1. IsBook(anchor, orders)
  BY DeskNow DEF GridInv
<1>2. OnGrid(anchor, o) /\ HasLevel(anchor, o) /\ HasLevel(anchor, q)
  BY <1>1 DEF IsBook
<1>3. o.side = "buy" /\ q.side = "buy" /\ q.symbol = s /\ o.symbol = s /\ o.amount = q.amount
  OBVIOUS
<1>4. s \in Grid!Coins /\ r # 0
  BY <1>2 DEF OnGrid
<1>5. r \in Prices[s]
  BY <1>4 DEF AnchorsAreSeen
<1> HIDE DEF o, q
<1>6. PICK l \in G : IsOfLevel(anchor, o, l)
  BY <1>2 DEF HasLevel, AmountsTellLevels
<1>7. PICK k \in G : IsOfLevel(anchor, q, k)
  BY <1>2, <1>3 DEF HasLevel, AmountsTellLevels
<1> HIDE DEF s, r
<1>8. OrderSize \div l.price = OrderSize \div k.price
  BY <1>3, <1>6, <1>7 DEF IsOfLevel
<1>9. l = k
  BY <1>4, <1>5, <1>8 DEF AmountsTellLevels
<1>10. o.price = q.price
  BY <1>3, <1>6, <1>7, <1>9 DEF IsOfLevel
<1> QED BY <1>10 DEF o, q

LEMMA CountersAreTold == GridInv /\ AnchorsAreSeen /\ AmountsTellLevels => Grid!CountersTell
<1> SUFFICES ASSUME GridInv, AnchorsAreSeen, AmountsTellLevels,
                    NEW c \in Grid!MatchCycles(trades), c.counter,
                    orders[c.sell.order].parent # 0
             PROVE  orders[orders[c.sell.order].parent].price = c.buy.price
  BY DEF Grid!CountersTell
<1>1. TradesMatch(orders, trades, ledger) /\ IsBook(anchor, orders)
  BY DeskNow DEF GridInv
<1>2. IsFiniteSet(trades) /\ trades \subseteq Trade /\ \A t, u \in trades : t.at = u.at => t = u
  BY <1>1 DEF TradesMatch
<1>3. c.buy \in trades /\ c.sell \in trades /\ IsPair(c)
  <2>1. Matched(0, trades, Grid!Matching(trades))
    BY <1>2, MatchingIs
  <2>2. c \in Grid!Matching(trades).cycles
    BY DEF Grid!MatchCycles
  <2> QED BY <2>1, <2>2 DEF Matched
<1>4. /\ c.buy.side = "buy" /\ c.sell.side = "sell" /\ c.buy.symbol = c.sell.symbol
      /\ c.buy.amount = c.sell.amount
  BY <1>3 DEF IsPair
<1> DEFINE i == c.buy.order
           n == c.sell.order
           j == orders[n].parent
<1>5. /\ i \in DOMAIN orders /\ n \in DOMAIN orders
      /\ IsFillOf(c.buy, orders[i]) /\ IsFillOf(c.sell, orders[n])
  BY <1>1, <1>3 DEF TradesMatch
<1>6. HasParent(orders, orders[n]) /\ j # 0
  BY <1>1, <1>5 DEF IsBook
<1> HIDE DEF i, n
<1>7. /\ j \in DOMAIN orders /\ orders[j].symbol = orders[n].symbol
      /\ orders[j].amount = orders[n].amount /\ orders[j].side # orders[n].side
  BY <1>6 DEF HasParent
<1>8. orders[j].side \in {"buy", "sell"}
  <2>1. OnGrid(anchor, orders[j])
    BY <1>1, <1>7 DEF IsBook
  <2> QED BY <2>1 DEF OnGrid, Sides
<1>9. /\ orders[i].side = "buy" /\ orders[j].side = "buy"
      /\ orders[i].symbol = orders[j].symbol /\ orders[i].amount = orders[j].amount
      /\ orders[i].price = c.buy.price
  BY <1>4, <1>5, <1>7, <1>8 DEF IsFillOf
<1>10. orders[i].price = orders[j].price
  BY <1>5, <1>7, <1>9, AmountTellsPrice
<1>11. orders[j].price = c.buy.price
  BY <1>9, <1>10
<1> QED BY <1>11 DEF n

(* For any trades that any prices, caps, fills and restarts bring about: a *)
(* trade is in one cycle at most, a cycle buys before it sells and below   *)
(* its price, and no SELL stays unpaired beside a BUY it could close.      *)
THEOREM CyclesAlwaysPair == ServicesSpec => []Grid!CyclesPair
<1>1. ServicesInit => GridInv
  BY InitGrid DEF ServicesInit, PartsInit
<1>2. GridInv /\ [ServicesNext]_all => GridInv'
  BY NextGrid, GridPart
<1> QED BY <1>1, <1>2, CyclesArePaired, PTL DEF ServicesSpec

(* And where the amounts tell the levels of a grid apart, a cycle said to  *)
(* be the engine's own closes the very kind of BUY its SELL countered.     *)
THEOREM CyclesAreSound ==
  ASSUME AmountsTellLevels
  PROVE  ServicesSpec => []CyclesSound
<1>1. ServicesInit => GridInv /\ AnchorsAreSeen
  BY InitGrid, InitAnchors DEF ServicesInit, PartsInit
<1>2. GridInv /\ AnchorsAreSeen /\ [ServicesNext]_all => (GridInv /\ AnchorsAreSeen)'
  BY NextGrid, NextAnchors, GridPart
<1>3. GridInv /\ AnchorsAreSeen => CyclesSound
  BY CyclesArePaired, CountersAreTold DEF CyclesSound, Grid!CyclesSound
<1>4. ServicesSpec => []CyclesSound
  BY <1>1, <1>2, <1>3, PTL DEF ServicesSpec
<1> QED BY <1>4

=============================================================================
