--------------------------- MODULE GridEngineProofs ---------------------------
(***************************************************************************)
(* Theorems about GridEngine, for any number of orders, units, levels,     *)
(* anchors and faults.  The invariant has three parts: what the tables     *)
(* know of the exchange, what the running job's sets stand for, and which  *)
(* counters and given-up fills the engine still has to deal with.          *)
(***************************************************************************)
EXTENDS GridEngine, TLAPS

(* Orders that storage has as open but the exchange has done with, and     *)
(* orders whose end storage has.                                           *)
Departed == {o \in Orders : db[o].status = "open" /\ ex[o].status \in Terminal}
Ended    == {o \in Orders : db[o].status \in Terminal}

(* The tables.  An order is stored only once it was placed, and none is    *)
(* placed before there is an anchor; a marker that is still owed is within *)
(* its bounds.                                                             *)
TablesOK ==
    \A o \in Orders :
        /\ ex[o].status = "none" => db[o].status = "absent"
        /\ db[o].status = "absent" => db[o].marker = "none"
        /\ ex[o].status = "open" => ex[o].filled < Size
        /\ ex[o].by # "nobody" => ex[o].status = "canceled"
        /\ db[o].marker = "owed" => db[o].attempts < MaxAttempts /\ db[o].age < MaxAge
        /\ anchor = 0 => ex[o].status = "none"

(* The running job: whatever it is about to record has left the exchange,  *)
(* and a cancel without a failure leaves nothing live.                     *)
JobOK ==
    /\ At("sweep") => run.todo \subseteq Owed
    /\ IF At("sweep") THEN run.gone \subseteq Departed ELSE run.gone = {}
    /\ run.at \in {"boot", "detect"} => run.todo \subseteq Departed
    /\ At("persist") => run.todo \subseteq StoredOpen \intersect run.cancelled
    /\ \A o \in run.cancelled : ex[o].by = "engine"
    /\ At("layout") \/ (At("detect") /\ run.onside) => anchor > 0
    /\ run.at \in {"cancel", "persist"} /\ run.reanchor => anchor < MaxAnchor
    /\ At("cancel") /\ ~ run.failed => Live \subseteq run.todo
    /\ At("persist") /\ ~ run.failed => Live = {}

(* Counters: only orders with their end on record have one, and a counter  *)
(* is queued or about to be attempted, never both.                         *)
CountersOK ==
    /\ mem.pending \subseteq Ended
    /\ run.fills \subseteq Ended
    /\ run.fills \intersect mem.pending = {}
    /\ run.queue \subseteq mem.pending
    /\ \A c \in Orders :
          db[c].status # "absent" => ex[c].parent \in Ended \union {NoOrder}

(* Given-up fills: told of, or about to be told when the step ends.        *)
LoudOK ==
    /\ run.at \in {"down", "boot", "idle"} => mem.unpaged = {}
    /\ run.at \notin {"down", "boot"} => GivenUp \subseteq loud \union mem.unpaged

IInv ==
    /\ TypeOK /\ TablesOK /\ FillTradesAccounted /\ FillsRecordedTruly
    /\ JobOK /\ CountersOK /\ CounterNotRepeated /\ LoudOK

-----------------------------------------------------------------------------
(* What a step does to the tables. *)

Tables ==
    /\ ex \in [Orders -> ExOrder] /\ db \in [Orders -> DbOrder]
    /\ anchor \in 0..MaxAnchor
    /\ TablesOK /\ FillTradesAccounted /\ FillsRecordedTruly
    /\ \A c \in Orders :
          db[c].status # "absent" => ex[c].parent \in Ended \union {NoOrder}

LEMMA NoOrderIsNone == NoOrder \notin Orders
BY ConstantsAssumption DEF NoOrder, Orders

LEMMA IInvTables == IInv => Tables
BY DEF IInv, Tables, TypeOK, CountersOK

LEMMA SameTables ==
  ASSUME Tables, UNCHANGED <<ex, db>>,
         anchor' \in 0..MaxAnchor, anchor' >= anchor
  PROVE  Tables'
<1>1. anchor' = 0 => anchor = 0
  BY ConstantsAssumption DEF Tables
<1> QED
  BY <1>1 DEF Tables, TablesOK, FillTradesAccounted, FillsRecordedTruly, Ended

(* The exchange changes a live order. *)
LEMMA ExchangeMoves ==
  ASSUME Tables, NEW o \in Live, NEW e \in ExOrder,
         e.status \in {"open"} \union Terminal,
         e.status = "open" => e.filled < Size,
         e.by # "nobody" => e.status = "canceled",
         e.parent = ex[o].parent,
         ex' = [ex EXCEPT ![o] = e], UNCHANGED <<db, anchor>>
  PROVE  /\ Tables' /\ Live' \subseteq Live /\ ex'[o] = e
         /\ \A p \in Orders \ {o} : ex'[p] = ex[p]
<1>1. o \in Orders /\ ex[o].status = "open" /\ ex[o].by = "nobody"
  BY DEF Live, Tables, TablesOK
<1>2. ex' \in [Orders -> ExOrder]
  BY <1>1 DEF Tables
<1>3. ex'[o] = e /\ \A p \in Orders \ {o} : ex'[p] = ex[p]
  BY <1>1 DEF Tables
<1>4. TablesOK'
  BY <1>1, <1>3 DEF Tables, TablesOK, Terminal
<1>5. FillsRecordedTruly'
  BY <1>1, <1>3 DEF Tables, FillsRecordedTruly, Terminal
<1>6. \A p \in Orders : ex'[p].parent = ex[p].parent
  BY <1>3
<1>7. Live' \subseteq Live
  BY <1>1, <1>3 DEF Live
<1> QED
  BY <1>2, <1>3, <1>4, <1>5, <1>6, <1>7 DEF Tables, FillTradesAccounted, Ended

(* A row that says what became of an order. *)
Says(o, row) ==
    /\ row \in DbOrder /\ row.status \in Terminal
    /\ row.rows < row.filled => row.marker # "none"
    /\ row.marker = "owed" => row.attempts < MaxAttempts /\ row.age < MaxAge
    /\ row.marker # "givenUp"
    /\ ex[o].by # "engine" => ex[o].status \in Terminal /\ row.filled = ex[o].filled

LEMMA RecordedSays ==
  ASSUME NEW s \in Terminal, NEW f \in 0..Size, NEW n \in 0..Size, NEW o \in Orders,
         ex[o].by # "engine" => ex[o].status \in Terminal /\ f = ex[o].filled
  PROVE  /\ Says(o, Recorded(s, f, n)) /\ Recorded(s, f, n).status = s
         /\ Recorded(s, f, n).filled = f
<1> DEFINE r == Recorded(s, f, n)
<1>1. 0 \in 0..MaxAttempts /\ 0 \in 0..MaxAge /\ 0 < MaxAttempts /\ 0 < MaxAge
  BY ConstantsAssumption
<1>2. /\ r.status = s /\ r.filled = f /\ r.rows = n /\ r.attempts = 0 /\ r.age = 0
      /\ r.marker = IF n < f THEN "owed" ELSE "none"
  BY DEF Recorded, Absent
<1>3. r \in DbOrder
  BY <1>1, <1>2 DEF DbOrder, Recorded, Absent
<1> QED
  BY <1>1, <1>2, <1>3 DEF Says

LEMMA RowWritten ==
  ASSUME Tables, NEW o \in Orders, db[o].status # "absent", NEW row, Says(o, row),
         db' = [db EXCEPT ![o] = row], UNCHANGED <<ex, anchor>>
  PROVE  /\ Tables' /\ db'[o] = row
         /\ \A p \in Orders \ {o} : db'[p] = db[p]
         /\ Ended' = Ended \union {o}
<1>1. db' \in [Orders -> DbOrder]
  BY DEF Tables, Says
<1>2. db'[o] = row /\ \A p \in Orders \ {o} : db'[p] = db[p]
  BY DEF Tables
<1>3. Ended' = Ended \union {o}
  BY <1>2 DEF Ended, Says
<1>4. TablesOK'
  BY <1>2 DEF Tables, TablesOK, Says, Terminal
<1>5. FillTradesAccounted' /\ FillsRecordedTruly'
  BY <1>2 DEF Tables, FillTradesAccounted, FillsRecordedTruly, Says
<1>6. ASSUME NEW c \in Orders, db'[c].status # "absent"
      PROVE  ex[c].parent \in Ended' \union {NoOrder}
  <2>1. CASE c # o
    BY <1>2, <1>3, <1>6, <2>1 DEF Tables
  <2>2. CASE c = o
    BY <1>2, <1>3, <1>6, <2>2 DEF Tables
  <2> QED
    BY <2>1, <2>2
<1> QED
  BY <1>1, <1>2, <1>3, <1>4, <1>5, <1>6 DEF Tables
(* An order is placed, and saved or not. *)
LEMMA OrderPlaced ==
  ASSUME Tables, anchor > 0, NEW p \in Ended \union {NoOrder},
         Placed(p) \/ PlacedUntracked(p), faults \in 0..MaxFaults, anchor' = anchor
  PROVE  /\ Tables' /\ faults' \in 0..MaxFaults
         /\ \E o \in Orders :
               /\ ex[o].status = "none" /\ db[o].status = "absent"
               /\ ex'[o].status = "open" /\ ex'[o].parent = p
               /\ db'[o].status \in {"open", "absent"} /\ db'[o].marker # "givenUp"
               /\ PlacedUntracked(p) => db' = db
               /\ \A q \in Orders \ {o} : ex'[q] = ex[q] /\ db'[q] = db[q]
<1>1. PICK o \in Orders :
        /\ ex[o].status = "none"
        /\ ex' = [ex EXCEPT ![o] = Resting(p)]
        /\ \/ db' = [db EXCEPT ![o] = RowOpen]
           \/ PlacedUntracked(p) /\ db' = db
  BY DEF Placed, PlacedUntracked, NextId, Unused
<1>2. p \in Orders \union {NoOrder} /\ 0 \in 0..Size /\ 0 < Size
  BY ConstantsAssumption DEF Ended
<1>3. Resting(p) \in ExOrder /\ Resting(p).status = "open" /\ Resting(p).filled = 0
      /\ Resting(p).by = "nobody" /\ Resting(p).parent = p
  BY <1>2 DEF Resting, NotPlaced, ExOrder
<1>4. RowOpen \in DbOrder /\ RowOpen.status = "open" /\ RowOpen.filled = 0
      /\ RowOpen.rows = 0 /\ RowOpen.marker = "none"
  BY <1>2, ConstantsAssumption DEF RowOpen, Absent, DbOrder
<1>5. db[o].status = "absent"
  BY <1>1 DEF Tables, TablesOK
<1>6. ex' \in [Orders -> ExOrder] /\ db' \in [Orders -> DbOrder]
  BY <1>1, <1>3, <1>4 DEF Tables
<1>7. /\ ex'[o] = Resting(p) /\ db'[o] \in {RowOpen, db[o]}
      /\ PlacedUntracked(p) => db' = db
      /\ \A q \in Orders \ {o} : ex'[q] = ex[q] /\ db'[q] = db[q]
  <2>1. ex'[o] = Resting(p) /\ db'[o] \in {RowOpen, db[o]}
    BY <1>1 DEF Tables
  <2>2. \A q \in Orders \ {o} : ex'[q] = ex[q] /\ db'[q] = db[q]
    BY <1>1 DEF Tables
  <2> QED
    BY <2>1, <2>2 DEF PlacedUntracked
<1>8. TablesOK'
  <2>1. anchor' # 0
    BY ConstantsAssumption DEF Tables
  <2> QED
    BY <1>2, <1>3, <1>4, <1>5, <1>7, <2>1 DEF Tables, TablesOK
<1>9. FillTradesAccounted' /\ FillsRecordedTruly'
  BY <1>3, <1>4, <1>5, <1>7 DEF Tables, FillTradesAccounted, FillsRecordedTruly, Terminal
<1>10. Ended' = Ended
  BY <1>4, <1>5, <1>7 DEF Ended, Terminal
<1>11. ASSUME NEW c \in Orders, db'[c].status # "absent"
       PROVE  ex'[c].parent \in Ended' \union {NoOrder}
  BY <1>3, <1>5, <1>7, <1>10, <1>11 DEF Tables
<1>12. faults' \in 0..MaxFaults
  BY ConstantsAssumption DEF Placed, PlacedUntracked, Fault
<1>13. db'[o].marker # "givenUp" /\ db'[o].status \in {"open", "absent"}
  BY <1>4, <1>5, <1>7 DEF Tables, TablesOK
<1> QED
  BY <1>1, <1>3, <1>4, <1>5, <1>6, <1>7, <1>8, <1>9, <1>11, <1>12, <1>13 DEF Tables
(* The sweep looks at one owed marker. *)
LEMMA MarkerSwept ==
  ASSUME Tables, NEW o \in Owed, Sweep(o), mem \in Memory
  PROVE  /\ Tables' /\ mem' \in Memory
         /\ mem' = [mem EXCEPT !.unpaged = mem'.unpaged]
         /\ mem.unpaged \subseteq mem'.unpaged
         /\ db'[o].marker = "givenUp" => o \in mem'.unpaged
         /\ \A p \in Orders : db'[p].status = db[p].status
         /\ \A p \in Orders \ {o} : db'[p] = db[p]
<1>1. PICK n \in db[o].rows .. ex[o].filled, asked \in BOOLEAN :
        LET row   == [db[o] EXCEPT !.rows = n]
            tries == IF asked THEN row.attempts + 1 ELSE row.attempts
            over  == GiveUp(row, tries)
        IN
        \/ /\ Covered(row, n)
           /\ db' = [db EXCEPT ![o] = [row EXCEPT !.marker = "none",
                                                  !.attempts = 0, !.age = 0]]
           /\ UNCHANGED mem
        \/ /\ ~ Covered(row, n)
           /\ db' = [db EXCEPT ![o] =
                        [row EXCEPT !.attempts = tries, !.age = @ + 1,
                                    !.marker = IF over THEN "givenUp" ELSE "owed"]]
           /\ mem' = IF over THEN [mem EXCEPT !.unpaged = @ \union {o}] ELSE mem
  BY DEF Sweep
<1> DEFINE row   == [db[o] EXCEPT !.rows = n]
           tries == IF asked THEN row.attempts + 1 ELSE row.attempts
           over  == GiveUp(row, tries)
<1>2. /\ o \in Orders /\ db[o] \in DbOrder /\ ex[o] \in ExOrder /\ n \in 0..Size
      /\ db[o].marker = "owed" /\ db[o].attempts < MaxAttempts /\ db[o].age < MaxAge
  BY ConstantsAssumption DEF Owed, Tables, TablesOK, DbOrder, ExOrder
<1>3. row \in DbOrder /\ row.rows = n /\ row.filled = db[o].filled /\ row.status = db[o].status
      /\ row.attempts = db[o].attempts /\ row.age = db[o].age
  BY <1>2 DEF DbOrder
<1>4. tries \in 0..MaxAttempts /\ (~ over => tries < MaxAttempts /\ row.age + 1 < MaxAge)
      /\ row.age + 1 \in 0..MaxAge
  BY <1>2, <1>3, ConstantsAssumption DEF DbOrder, GiveUp
<1>5. db[o].status # "absent"
  BY <1>2 DEF Tables, TablesOK
<1>6. /\ db'[o] \in DbOrder /\ db'[o].status = db[o].status /\ db'[o].filled = db[o].filled
      /\ db'[o].rows < db'[o].filled => db'[o].marker # "none"
      /\ db'[o].marker = "owed" => db'[o].attempts < MaxAttempts /\ db'[o].age < MaxAge
      /\ db'[o].marker = "givenUp" => o \in mem'.unpaged
      /\ mem' \in Memory /\ mem' = [mem EXCEPT !.unpaged = mem'.unpaged]
      /\ mem.unpaged \subseteq mem'.unpaged
      /\ db' = [db EXCEPT ![o] = db'[o]]
  <2>1. CASE Covered(row, n)
    <3> DEFINE new == [row EXCEPT !.marker = "none", !.attempts = 0, !.age = 0]
    <3>1. db' = [db EXCEPT ![o] = new] /\ mem' = mem
      BY <1>1, <2>1
    <3>2. db'[o] = new
      BY <1>2, <3>1 DEF Tables
    <3>3. n >= row.filled
      BY <2>1 DEF Covered
    <3> HIDE DEF row
    <3>0. 0 \in 0..MaxAttempts /\ 0 \in 0..MaxAge
      BY ConstantsAssumption
    <3>4. new \in DbOrder
      BY <1>3, <3>0 DEF DbOrder
    <3>5. new.status = row.status /\ new.filled = row.filled /\ new.rows = n /\ new.marker = "none"
      BY <1>3 DEF DbOrder
    <3>6. mem' \in Memory /\ mem' = [mem EXCEPT !.unpaged = mem'.unpaged]
      BY <3>1 DEF Memory
    <3> HIDE DEF new
    <3>7. ~ new.rows < new.filled
      BY <1>2, <1>3, <3>3, <3>5, ConstantsAssumption DEF DbOrder
    <3> QED
      BY <1>3, <3>1, <3>2, <3>4, <3>5, <3>6, <3>7
  <2>2. CASE ~ Covered(row, n)
    <3> DEFINE new == [row EXCEPT !.attempts = tries, !.age = @ + 1,
                                  !.marker = IF over THEN "givenUp" ELSE "owed"]
    <3>3. /\ db' = [db EXCEPT ![o] = new]
          /\ mem' = IF over THEN [mem EXCEPT !.unpaged = @ \union {o}] ELSE mem
      BY <1>1, <2>2
    <3>4. db'[o] = new
      BY <1>2, <3>3 DEF Tables
    <3> HIDE DEF row, tries, over
    <3>1. /\ new.status = row.status /\ new.filled = row.filled /\ new.rows = n
          /\ new.attempts = tries /\ new.age = row.age + 1
          /\ new.marker = IF over THEN "givenUp" ELSE "owed"
      BY <1>3 DEF DbOrder
    <3>2. new \in DbOrder
      BY <1>3, <1>4 DEF DbOrder
    <3>5. /\ mem' \in Memory /\ mem' = [mem EXCEPT !.unpaged = mem'.unpaged]
          /\ mem.unpaged \subseteq mem'.unpaged /\ (over => o \in mem'.unpaged)
      BY <1>2, <3>3 DEF Memory
    <3> HIDE DEF new
    <3> QED
      BY <1>3, <1>4, <3>1, <3>2, <3>3, <3>4, <3>5
  <2> QED
    BY <2>1, <2>2
<1>7. \A p \in Orders \ {o} : db'[p] = db[p]
  BY <1>6 DEF Tables
<1>8. UNCHANGED <<ex, anchor>>
  BY DEF Sweep
<1>9. db' \in [Orders -> DbOrder]
  BY <1>6 DEF Tables
<1>10. \A p \in Orders : db'[p].status = db[p].status /\ db'[p].filled = db[p].filled
  BY <1>6, <1>7
<1>11. Ended' = Ended
  BY <1>10 DEF Ended
<1>12. TablesOK' /\ FillTradesAccounted' /\ FillsRecordedTruly'
  BY <1>5, <1>6, <1>7, <1>8, <1>10
  DEF Tables, TablesOK, FillTradesAccounted, FillsRecordedTruly
<1> QED
  BY <1>6, <1>7, <1>8, <1>9, <1>10, <1>11, <1>12 DEF Tables

(* The shutdown cancels one order, and saves that it did or does not. *)
LEMMA OrderClosed ==
  ASSUME Tables, NEW o \in Orders, CloseOrder(o)
  PROVE  /\ Tables' /\ anchor' = anchor /\ Ended \subseteq Ended'
         /\ \A p \in Orders : /\ db'[p].marker = db[p].marker
                              /\ db'[p].status # "absent" => db[p].status # "absent"
                              /\ ex'[p].parent = ex[p].parent
<1>1. /\ ex[o].status = "open" /\ anchor' = anchor
      /\ ex' = [ex EXCEPT ![o].status = "canceled", ![o].by = "engine"]
      /\ \/ db' = db
         \/ db[o].status = "open" /\ db' = [db EXCEPT ![o].status = "canceled"]
  BY DEF CloseOrder, Live, StoredOpen
<1>2. /\ ex' \in [Orders -> ExOrder] /\ db' \in [Orders -> DbOrder]
      /\ ex'[o].status = "canceled" /\ ex'[o].by = "engine" /\ ex'[o].parent = ex[o].parent
      /\ \A p \in Orders \ {o} : ex'[p] = ex[p] /\ db'[p] = db[p]
  <2>1. ex' \in [Orders -> ExOrder]
    <3> DEFINE e == [ex[o] EXCEPT !.status = "canceled", !.by = "engine"]
    <3>1. e \in ExOrder
      BY DEF Tables, ExOrder, Terminal
    <3>2. ex' = [ex EXCEPT ![o] = e]
      BY <1>1 DEF Tables
    <3> HIDE DEF e
    <3> QED
      BY <3>1, <3>2 DEF Tables
  <2>2. db' \in [Orders -> DbOrder]
    BY <1>1 DEF Tables, DbOrder, Terminal
  <2>3. ex'[o] = [ex[o] EXCEPT !.status = "canceled", !.by = "engine"] /\ ex[o] \in ExOrder
    BY <1>1 DEF Tables
  <2>4. \A p \in Orders \ {o} : ex'[p] = ex[p] /\ db'[p] = db[p]
    BY <1>1 DEF Tables
  <2> QED
    BY <2>1, <2>2, <2>3, <2>4 DEF ExOrder
<1>3. /\ db'[o].filled = db[o].filled /\ db'[o].rows = db[o].rows
      /\ db'[o].marker = db[o].marker /\ db'[o].attempts = db[o].attempts
      /\ db'[o].age = db[o].age
      /\ db'[o].status = db[o].status \/ (db[o].status = "open" /\ db'[o].status = "canceled")
  BY <1>1 DEF Tables, DbOrder
<1>4. Ended \subseteq Ended'
  BY <1>2, <1>3 DEF Ended, Terminal
<1>5. \A p \in Orders : /\ db'[p].status # "absent" => db[p].status # "absent"
                        /\ ex'[p].parent = ex[p].parent /\ db'[p].marker = db[p].marker
  BY <1>2, <1>3
<1>6. TablesOK' /\ FillTradesAccounted' /\ FillsRecordedTruly'
  BY <1>1, <1>2, <1>3 DEF Tables, TablesOK, FillTradesAccounted, FillsRecordedTruly
<1> QED
  BY <1>1, <1>2, <1>4, <1>5, <1>6 DEF Tables
-----------------------------------------------------------------------------
(* What a step does to the engine: its memory and the running job. *)

Engine ==
    /\ mem \in Memory /\ run \in Job /\ loud \subseteq Orders /\ faults \in 0..MaxFaults
    /\ JobOK /\ CountersOK /\ CounterNotRepeated /\ LoudOK

LEMMA IInvParts == IInv <=> Tables /\ Engine
BY DEF IInv, Tables, Engine, TypeOK, CountersOK

LEMMA PartsIInv == ASSUME Tables', Engine' PROVE IInv'
BY DEF IInv, Tables, Engine, TypeOK, CountersOK

LEMMA IdleType ==
  /\ Idle \in Job /\ Idle.at = "idle" /\ Idle.gone = {} /\ Idle.todo = {} /\ Idle.fills = {}
  /\ Idle.queue = {} /\ Idle.cancelled = {} /\ Idle.failed = FALSE /\ Idle.reanchor = FALSE
  /\ Down \in Job /\ Down.at = "down" /\ Down.gone = {} /\ Down.fills = {}
  /\ Down.queue = {} /\ Down.cancelled = {}
<1>1. 0 \in 0..Levels /\ [o \in Orders |-> 0] \in [Orders -> 0..Size]
  BY ConstantsAssumption
<1>2. Idle \in Job
  BY <1>1 DEF Idle, Job, Steps
<1> QED
  BY <1>2 DEF Idle, Down, Job, Steps

LEMMA LayoutType ==
  ASSUME run' = [Idle EXCEPT !.at = "layout", !.left = Levels]
  PROVE  /\ run' \in Job /\ run'.at = "layout" /\ run'.gone = {} /\ run'.fills = {}
         /\ run'.queue = {} /\ run'.cancelled = {}
<1>1. Levels \in 0..Levels
  BY ConstantsAssumption
<1> QED
  BY <1>1, IdleType DEF Job, Steps

LEMMA FreshType == FreshMemory \in Memory /\ FreshMemory.pending = {} /\ FreshMemory.unpaged = {}
BY DEF FreshMemory, Memory

LEMMA FaultType == ASSUME faults \in 0..MaxFaults, Fault \/ UNCHANGED faults
                   PROVE  faults' \in 0..MaxFaults
BY ConstantsAssumption DEF Fault

LEMMA InitIInv == Init => IInv
<1> SUFFICES ASSUME Init PROVE IInv
  OBVIOUS
<1>1. NotPlaced \in ExOrder /\ NotPlaced.status = "none" /\ NotPlaced.by = "nobody"
  BY ConstantsAssumption DEF NotPlaced, ExOrder
<1>2. Absent \in DbOrder /\ Absent.status = "absent" /\ Absent.rows = 0 /\ Absent.filled = 0
      /\ Absent.marker = "none"
  BY ConstantsAssumption DEF Absent, DbOrder
<1>3. \A o \in Orders : ex[o] = NotPlaced /\ db[o] = Absent
  BY DEF Init
<1>4. ex \in [Orders -> ExOrder] /\ db \in [Orders -> DbOrder] /\ anchor \in 0..MaxAnchor
      /\ faults \in 0..MaxFaults /\ anchor = 0
  BY <1>1, <1>2, ConstantsAssumption DEF Init
<1>5. Tables
  BY <1>1, <1>2, <1>3, <1>4
  DEF Tables, TablesOK, FillTradesAccounted, FillsRecordedTruly, Terminal
<1>6. CounterNotRepeated /\ CountersOK
  BY <1>2, <1>3, IdleType, FreshType DEF Init, CountersOK, CounterNotRepeated
<1>7. JobOK /\ LoudOK
  BY IdleType, FreshType DEF Init, JobOK, LoudOK, At
<1> QED
  BY <1>4, <1>5, <1>6, <1>7, IdleType, FreshType, IInvParts DEF Engine, Init

(* The end of a step that changed nothing storage has. *)
LEMMA FinishOK ==
  ASSUME IInv, NEW m \in Memory, Finish(m), m.pending = mem.pending,
         mem.unpaged \subseteq m.unpaged, Tables', faults' \in 0..MaxFaults, db' = db,
         \A c \in Orders : db[c].status # "absent" => ex'[c].parent = ex[c].parent,
         run.at \notin {"down", "boot"}
  PROVE  IInv'
<1>1. /\ mem' \in Memory /\ mem'.pending = mem.pending /\ mem'.unpaged = {}
      /\ run' = Idle /\ loud' = loud \union m.unpaged /\ loud' \subseteq Orders
  BY IInvParts DEF Finish, Memory, Engine
<1>2. Ended' = Ended /\ GivenUp' = GivenUp
  BY DEF Ended, GivenUp
<1>3. JobOK' /\ LoudOK'
  BY <1>1, <1>2, IdleType, IInvParts DEF JobOK, LoudOK, At, Engine
<1>4. CountersOK' /\ CounterNotRepeated'
  BY <1>1, <1>2, IdleType, IInvParts DEF CountersOK, CounterNotRepeated, Engine, Tables
<1> QED
  BY <1>1, <1>3, <1>4, IdleType, PartsIInv DEF Engine
(* The exchange's own moves. *)
LEMMA ExchangeIInv ==
  ASSUME IInv, NEW o \in Orders, Fill(o) \/ OutsideCancel(o)
  PROVE  IInv'
<1>1. Tables /\ Engine
  BY IInvParts
<1>2. o \in Live /\ ex[o] \in ExOrder /\ ex[o].status = "open" /\ ex[o].by = "nobody"
      /\ ex[o].filled < Size
  BY <1>1 DEF Fill, OutsideCancel, Live, Tables, TablesOK
<1>3. PICK e \in ExOrder :
        /\ e.status \in {"open"} \union Terminal /\ (e.status = "open" => e.filled < Size)
        /\ (e.by # "nobody" => e.status = "canceled") /\ e.parent = ex[o].parent
        /\ ex' = [ex EXCEPT ![o] = e]
  <2>1. CASE Fill(o)
    <3> DEFINE n == ex[o].filled + 1
               s == IF n = Size THEN "closed" ELSE "open"
               e == [ex[o] EXCEPT !.filled = n, !.status = s]
    <3>1. n \in 0..Size /\ (n # Size => n < Size)
      BY <1>2, ConstantsAssumption DEF ExOrder
    <3>2. e \in ExOrder /\ e.status = s /\ e.filled = n /\ e.by = "nobody"
          /\ e.parent = ex[o].parent
      BY <1>2, <3>1 DEF ExOrder, Terminal
    <3>3. ex' = [ex EXCEPT ![o] = e]
      BY <1>2, <2>1 DEF Fill, Live
    <3> HIDE DEF e, n
    <3> QED
      BY <3>1, <3>2, <3>3 DEF Terminal
  <2>2. CASE OutsideCancel(o)
    <3> DEFINE e == [ex[o] EXCEPT !.status = "canceled", !.by = "outside"]
    <3>1. e \in ExOrder /\ e.status = "canceled" /\ e.parent = ex[o].parent
      BY <1>2 DEF ExOrder, Terminal
    <3>2. ex' = [ex EXCEPT ![o] = e]
      BY <1>2, <2>2 DEF OutsideCancel, Live
    <3> HIDE DEF e
    <3> QED
      BY <3>1, <3>2 DEF Terminal
  <2> QED
    BY <2>1, <2>2
<1>4. UNCHANGED <<db, anchor, mem, run, loud, faults>>
  BY DEF Fill, OutsideCancel
<1>5. Tables' /\ Live' \subseteq Live /\ \A p \in Orders \ {o} : ex'[p] = ex[p]
  BY <1>1, <1>2, <1>3, <1>4, ExchangeMoves
<1>6. Departed \subseteq Departed' /\ Ended' = Ended /\ GivenUp' = GivenUp /\ Owed' = Owed
      /\ StoredOpen' = StoredOpen
  BY <1>2, <1>4, <1>5 DEF Departed, Ended, GivenUp, Owed, StoredOpen, Terminal
<1>7. \A p \in Orders : ex'[p].parent = ex[p].parent
  BY <1>2, <1>3, <1>5 DEF Fill, OutsideCancel, Tables
<1>8. JobOK'
  <2>1. \A p \in run.cancelled : p \in Orders /\ p # o
    BY <1>1, <1>2 DEF Engine, JobOK, Job
  <2>2. \A p \in run'.cancelled : ex'[p].by = "engine"
    BY <1>1, <1>4, <1>5, <2>1 DEF Engine, JobOK
  <2> QED
    BY <1>1, <1>4, <1>5, <1>6, <2>2 DEF Engine, JobOK, At
<1>9. CountersOK' /\ CounterNotRepeated' /\ LoudOK'
  BY <1>1, <1>4, <1>6, <1>7 DEF Engine, CountersOK, CounterNotRepeated, LoudOK
<1> QED
  BY <1>1, <1>4, <1>5, <1>8, <1>9, PartsIInv DEF Engine

(* An order that left the exchange goes on record.  inMem: it is queued    *)
(* for a counter; inFills: its counter is attempted in this tick.          *)
LEMMA RecordIInv ==
  ASSUME IInv, NEW o \in run.todo, db[o].status = "open",
         run.at \in {"boot", "detect", "persist"},
         NEW row, Says(o, row), db' = [db EXCEPT ![o] = row],
         UNCHANGED <<ex, anchor, loud, faults>>,
         mem' \in Memory, mem'.unpaged = mem.unpaged,
         mem'.pending \in {mem.pending, mem.pending \union {o}},
         run' \in {[run EXCEPT !.todo = @ \ {o}],
                   [run EXCEPT !.todo = @ \ {o}, !.fills = @ \union {o}]},
         mem'.pending # mem.pending => run'.fills = run.fills
  PROVE  IInv'
<1>1. Tables /\ Engine /\ o \in Orders /\ run \in Job
  BY IInvParts DEF Engine, Job
<1>2. /\ Tables' /\ db'[o] = row /\ \A p \in Orders \ {o} : db'[p] = db[p]
      /\ Ended' = Ended \union {o}
  BY <1>1, RowWritten
<1>3. /\ run' \in Job /\ run'.at = run.at /\ run'.gone = run.gone /\ run'.todo = run.todo \ {o}
      /\ run'.queue = run.queue /\ run'.cancelled = run.cancelled /\ run'.failed = run.failed
      /\ run'.onside = run.onside /\ run'.reanchor = run.reanchor
      /\ run'.fills \in {run.fills, run.fills \union {o}}
  <2>1. CASE run' = [run EXCEPT !.todo = @ \ {o}]
    BY <1>1, <2>1 DEF Job
  <2>2. CASE run' = [run EXCEPT !.todo = @ \ {o}, !.fills = @ \union {o}]
    BY <1>1, <2>2 DEF Job
  <2> QED
    BY <2>1, <2>2
<1>4. o \notin Ended /\ o \notin mem.pending /\ o \notin run.fills /\ o # NoOrder
  BY <1>1, NoOrderIsNone DEF Ended, Terminal, Engine, CountersOK
<1>5. run.gone = {} /\ run'.at # "sweep"
  BY <1>1, <1>3 DEF Engine, JobOK, At
<1>6. Departed \ {o} \subseteq Departed' /\ StoredOpen \ {o} \subseteq StoredOpen' /\ Live' = Live
  BY <1>1, <1>2 DEF Departed, StoredOpen, Live
<1>7. JobOK'
  BY <1>1, <1>3, <1>5, <1>6 DEF Engine, JobOK, At
<1>8. CountersOK'
  <2>1. mem'.pending \subseteq Ended' /\ run'.fills \subseteq Ended'
    BY <1>1, <1>2, <1>3 DEF Engine, CountersOK
  <2>2. run'.fills \intersect mem'.pending = {} /\ run'.queue \subseteq mem'.pending
    BY <1>1, <1>3, <1>4 DEF Engine, CountersOK
  <2> QED
    BY <1>2, <2>1, <2>2 DEF CountersOK, Tables
<1>9. CounterNotRepeated'
  <2> SUFFICES ASSUME NEW c \in Orders, db'[c].status # "absent"
               PROVE  ex'[c].parent \notin mem'.pending \union run'.fills
    BY DEF CounterNotRepeated
  <2>1. db[c].status # "absent"
    BY <1>2
  <2>2. ex[c].parent \in Ended \union {NoOrder} /\ ex[c].parent \notin mem.pending \union run.fills
    BY <1>1, <2>1 DEF Tables, Engine, CounterNotRepeated
  <2> QED
    BY <1>3, <1>4, <2>2
<1>10. LoudOK'
  <2>1. GivenUp' \subseteq GivenUp
    BY <1>2 DEF GivenUp, Says
  <2> QED
    BY <1>1, <1>3, <2>1 DEF Engine, LoudOK
<1> QED
  BY <1>1, <1>2, <1>3, <1>7, <1>8, <1>9, <1>10, PartsIInv DEF Engine
(* A placement: of the counter of p, or of a level. *)
LEMMA PlaceIInv ==
  ASSUME IInv, NEW p \in Ended \union {NoOrder}, anchor > 0, run.at \in {"detect", "layout"},
         Placed(p) \/ Refused \/ PlacedUntracked(p), UNCHANGED <<anchor, loud>>,
         mem' \in Memory, mem'.unpaged = mem.unpaged, mem'.pending \subseteq mem.pending,
         run' \in Job, run'.at = run.at, run'.gone = run.gone, run'.todo = run.todo,
         run'.cancelled = run.cancelled, run'.onside = run.onside,
         run'.fills \subseteq run.fills, run'.queue \subseteq mem'.pending,
         db' = db \/ p \notin mem'.pending \union run'.fills
  PROVE  IInv'
<1>1. Tables /\ Engine
  BY IInvParts
<1>2. Tables' /\ faults' \in 0..MaxFaults
  <2>1. CASE Refused
    BY <1>1, <2>1, SameTables, ConstantsAssumption DEF Refused, Tables, Engine
  <2>2. CASE Placed(p) \/ PlacedUntracked(p)
    BY <1>1, <2>2, OrderPlaced DEF Engine
  <2> QED
    BY <2>1, <2>2
<1>3. PICK S \in SUBSET Orders :
        /\ \A o \in S : /\ ex[o].status = "none" /\ db[o].status = "absent"
                        /\ db'[o].status \in {"open", "absent"} /\ db'[o].marker # "givenUp"
                        /\ db'[o].status # "absent" => db' # db /\ ex'[o].parent = p
        /\ \A q \in Orders \ S : ex'[q] = ex[q] /\ db'[q] = db[q]
  <2>1. CASE Refused
    <3> WITNESS {} \in SUBSET Orders
    <3> QED
      BY <2>1 DEF Refused
  <2>2. CASE Placed(p) \/ PlacedUntracked(p)
    <3>1. PICK o \in Orders :
               /\ ex[o].status = "none" /\ db[o].status = "absent"
               /\ ex'[o].status = "open" /\ ex'[o].parent = p
               /\ db'[o].status \in {"open", "absent"} /\ db'[o].marker # "givenUp"
               /\ PlacedUntracked(p) => db' = db
               /\ \A q \in Orders \ {o} : ex'[q] = ex[q] /\ db'[q] = db[q]
      BY <1>1, <2>2, OrderPlaced DEF Engine
    <3> WITNESS {o} \in SUBSET Orders
    <3> QED
      BY <2>2, <3>1
  <2> QED
    BY <2>1, <2>2
<1>4. Departed \subseteq Departed' /\ Ended' = Ended /\ GivenUp' \subseteq GivenUp
  BY <1>3 DEF Departed, Ended, GivenUp, Terminal
<1>5. JobOK'
  <2>1. ASSUME NEW q \in run.cancelled PROVE ex'[q].by = "engine"
    <3>1. q \in Orders /\ ex[q].by = "engine"
      BY <1>1 DEF Engine, JobOK, Job
    <3>2. ex[q].status = "canceled"
      BY <1>1, <3>1 DEF Tables, TablesOK
    <3> QED
      BY <1>3, <3>1, <3>2
  <2> QED
    BY <1>1, <1>4, <2>1 DEF Engine, JobOK, At
<1>6. CountersOK'
  BY <1>1, <1>2, <1>4 DEF Engine, CountersOK, Tables
<1>7. CounterNotRepeated'
  BY <1>1, <1>3 DEF Engine, CounterNotRepeated
<1>8. LoudOK'
  BY <1>1, <1>4 DEF Engine, LoudOK
<1> QED
  BY <1>1, <1>2, <1>5, <1>6, <1>7, <1>8, PartsIInv DEF Engine

LEMMA CounterIInv ==
  ASSUME IInv, NEW o \in Orders, CounterQueued(o) \/ CounterFill(o)
  PROVE  IInv'
<1>1. Tables /\ Engine /\ At("detect") /\ run.todo = {} /\ run \in Job /\ mem \in Memory
  BY IInvParts DEF CounterQueued, CounterFill, Detected, Engine
<1>2. o \in Ended
  BY <1>1 DEF CounterQueued, CounterFill, Engine, CountersOK
<1>3. anchor > 0
  <2>1. ex[o].status # "none"
    BY <1>1, <1>2 DEF Ended, Terminal, Tables, TablesOK
  <2> QED
    BY <1>1, <1>2, <2>1, ConstantsAssumption DEF Tables, TablesOK, Ended
<1>4. CASE CounterQueued(o)
  <2>1. /\ run' \in Job /\ run'.at = run.at /\ run'.gone = run.gone /\ run'.todo = run.todo
        /\ run'.cancelled = run.cancelled /\ run'.fills = run.fills
        /\ run'.queue = run.queue \ {o} /\ run'.onside = run.onside
    BY <1>1, <1>4 DEF CounterQueued, Job
  <2>2. o \notin run.fills /\ run.queue \subseteq mem.pending
    BY <1>1, <1>4 DEF CounterQueued, Engine, CountersOK
  <2>3. CASE Placed(o) /\ mem' = [mem EXCEPT !.pending = @ \ {o}]
    <3>1. mem' \in Memory /\ mem'.unpaged = mem.unpaged /\ mem'.pending = mem.pending \ {o}
      BY <1>1, <2>3 DEF Memory
    <3> QED
      BY <1>1, <1>2, <1>3, <1>4, <2>1, <2>2, <2>3, <3>1, PlaceIInv DEF CounterQueued, At
  <2>4. CASE (Refused \/ PlacedUntracked(o)) /\ UNCHANGED mem
    <3>1. db' = db
      BY <2>4 DEF Refused, PlacedUntracked
    <3> QED
      BY <1>1, <1>2, <1>3, <1>4, <2>1, <2>2, <2>4, <3>1, PlaceIInv DEF CounterQueued, At
  <2> QED
    BY <1>4, <2>3, <2>4 DEF CounterQueued
<1>5. CASE CounterFill(o)
  <2>1. /\ run' \in Job /\ run'.at = run.at /\ run'.gone = run.gone /\ run'.todo = run.todo
        /\ run'.cancelled = run.cancelled /\ run'.fills = run.fills \ {o}
        /\ run'.queue = run.queue /\ run'.onside = run.onside
    BY <1>1, <1>5 DEF CounterFill, Job
  <2>2. o \notin mem.pending /\ run.queue \subseteq mem.pending
    BY <1>1, <1>5 DEF CounterFill, Engine, CountersOK
  <2> QED
    BY <1>1, <1>2, <1>3, <1>5, <2>1, <2>2, PlaceIInv DEF CounterFill, At
<1> QED
  BY <1>4, <1>5

LEMMA LevelIInv == ASSUME IInv, PlaceLevel PROVE IInv'
<1>1. Tables /\ Engine /\ At("layout") /\ run \in Job /\ mem \in Memory /\ anchor > 0
  BY IInvParts DEF PlaceLevel, Engine, JobOK
<1>2. run.left - 1 \in 0..Levels
  BY <1>1, ConstantsAssumption DEF PlaceLevel, Job
<1>3. /\ run' \in Job /\ run'.at = run.at /\ run'.gone = run.gone /\ run'.todo = run.todo
      /\ run'.cancelled = run.cancelled /\ run'.fills = run.fills
      /\ run'.queue = run.queue /\ run'.onside = run.onside
  BY <1>1, <1>2 DEF PlaceLevel, Job
<1>4. NoOrder \notin mem.pending \union run.fills /\ run.queue \subseteq mem.pending
  BY <1>1, NoOrderIsNone DEF Engine, CountersOK, Ended
<1> QED
  BY <1>1, <1>3, <1>4, PlaceIInv DEF PlaceLevel, At

(* A placement whose save raises ends the step. *)
LEMMA SaveRaisesIInv == ASSUME IInv, SaveRaises PROVE IInv'
<1>1. Tables /\ Engine
  BY IInvParts
<1>2. PICK p \in Ended \union {NoOrder} :
        PlacedUntracked(p) /\ anchor > 0 /\ run.at \in {"detect", "layout"}
  <2>1. CASE At("layout") /\ PlacedUntracked(NoOrder)
    BY <1>1, <2>1 DEF Engine, JobOK, At
  <2>2. CASE \E o \in run.queue \union run.fills : Detected /\ run.onside /\ PlacedUntracked(o)
    BY <1>1, <2>2 DEF Engine, JobOK, At, Detected, CountersOK
  <2> QED
    BY <2>1, <2>2 DEF SaveRaises
<1>3. Tables' /\ faults' \in 0..MaxFaults /\ db' = db
  BY <1>1, <1>2, OrderPlaced DEF SaveRaises, Engine, PlacedUntracked
<1>4. \A c \in Orders : db[c].status # "absent" => ex'[c].parent = ex[c].parent
  BY <1>1, <1>2, OrderPlaced DEF SaveRaises, Engine
<1> QED
  BY <1>1, <1>2, <1>3, <1>4, FinishOK DEF SaveRaises, Abandon, Engine
(* A step that leaves tables and exchange alone, and ends no tick. *)
LEMMA JobStep ==
  ASSUME IInv, UNCHANGED <<ex, db>>, anchor' \in 0..MaxAnchor, anchor' >= anchor,
         mem' \in Memory, run' \in Job, loud' \subseteq Orders, faults' \in 0..MaxFaults,
         mem'.pending \subseteq mem.pending, run'.fills \subseteq run.fills,
         run'.queue \subseteq mem'.pending, JobOK', LoudOK'
  PROVE  IInv'
<1>1. Tables /\ Engine
  BY IInvParts
<1>2. Tables' /\ Ended' = Ended
  BY <1>1, SameTables DEF Ended
<1>3. CountersOK' /\ CounterNotRepeated'
  BY <1>1, <1>2 DEF Engine, CountersOK, CounterNotRepeated, Tables
<1> QED
  BY <1>2, <1>3, PartsIInv DEF Engine

LEMMA StartIInv ==
  ASSUME IInv, Boot \/ LoadMarkers \/ \E o \in Orders : ReconcileFails(o)
  PROVE  IInv'
<1>1. Tables /\ Engine /\ run \in Job /\ mem \in Memory
  BY IInvParts DEF Engine
<1>2. CASE Boot
  <2>1. /\ run' \in Job /\ run'.at = "boot" /\ run'.todo = StoredOpen \ Live /\ run'.gone = {}
        /\ run'.fills = {} /\ run'.queue = {} /\ run'.cancelled = {}
    BY <1>2, IdleType DEF Boot, Job, Steps, StoredOpen
  <2>2. StoredOpen \ Live \subseteq Departed
    BY <1>1 DEF Departed, StoredOpen, Live, Tables, TablesOK, ExOrder
  <2>3. JobOK' /\ LoudOK'
    BY <1>1, <1>2, <2>1, <2>2 DEF Boot, JobOK, LoudOK, At, Engine, Departed
  <2> QED
    BY <1>1, <1>2, <2>1, <2>3, JobStep, ConstantsAssumption DEF Boot, Tables, Engine
<1>3. CASE LoadMarkers
  <2>1. /\ run' = Idle /\ loud' = loud \union GivenUp /\ UNCHANGED <<ex, anchor, faults>>
        /\ mem' = [mem EXCEPT !.index = Owed # {}]
        /\ db' = [o \in Orders |-> [db[o] EXCEPT !.age = 0]]
    BY <1>3 DEF LoadMarkers
  <2>2. mem' \in Memory /\ mem'.pending = mem.pending /\ mem'.unpaged = {}
    BY <1>1, <1>3, <2>1 DEF Memory, LoadMarkers, At, Engine, LoudOK
  <2>3. ASSUME NEW o \in Orders
        PROVE  /\ db'[o] \in DbOrder /\ db'[o].status = db[o].status
               /\ db'[o].filled = db[o].filled /\ db'[o].rows = db[o].rows
               /\ db'[o].marker = db[o].marker /\ db'[o].attempts = db[o].attempts
               /\ db'[o].age = 0
    <3>1. db'[o] = [db[o] EXCEPT !.age = 0] /\ db[o] \in DbOrder /\ 0 \in 0..MaxAge
      BY <1>1, <2>1, ConstantsAssumption DEF Tables
    <3> QED
      BY <3>1 DEF DbOrder
  <2>4. Ended' = Ended /\ GivenUp' = GivenUp
    BY <2>3 DEF Ended, GivenUp
  <2>5. Tables'
    <3>1. db' \in [Orders -> DbOrder]
      BY <2>1, <2>3
    <3>2. 0 < MaxAge
      BY ConstantsAssumption
    <3>3. TablesOK' /\ FillTradesAccounted' /\ FillsRecordedTruly'
      BY <1>1, <2>1, <2>3, <3>2
      DEF Tables, TablesOK, FillTradesAccounted, FillsRecordedTruly
    <3> QED
      BY <1>1, <2>1, <2>3, <2>4, <3>1, <3>3 DEF Tables
  <2>6. JobOK' /\ LoudOK'
    BY <2>1, <2>2, <2>4, IdleType DEF JobOK, LoudOK, At
  <2>7. CountersOK' /\ CounterNotRepeated'
    BY <1>1, <2>1, <2>2, <2>3, <2>4, IdleType
    DEF Engine, CountersOK, CounterNotRepeated
  <2>8. loud' \subseteq Orders
    BY <1>1, <2>1 DEF Engine, GivenUp
  <2> QED
    BY <1>1, <2>1, <2>2, <2>5, <2>6, <2>7, <2>8, IdleType, PartsIInv DEF Engine
<1>4. CASE \E o \in Orders : ReconcileFails(o)
  <2>1. PICK o \in Orders : ReconcileFails(o)
    BY <1>4
  <2>2. /\ run' \in Job /\ run'.at = "boot" /\ run.at = "boot" /\ run'.todo = run.todo \ {o}
        /\ run'.gone = run.gone /\ run'.fills = run.fills /\ run'.queue = run.queue
        /\ run'.cancelled = run.cancelled
    BY <1>1, <2>1 DEF ReconcileFails, At, Job
  <2>3. faults' \in 0..MaxFaults
    BY <1>1, <2>1, FaultType DEF ReconcileFails, Engine
  <2>4. JobOK' /\ LoudOK'
    BY <1>1, <2>1, <2>2 DEF ReconcileFails, JobOK, LoudOK, At, Engine, Departed
  <2> QED
    BY <1>1, <2>1, <2>2, <2>3, <2>4, JobStep, ConstantsAssumption
    DEF ReconcileFails, Tables, Engine, CountersOK
<1> QED
  BY <1>2, <1>3, <1>4

LEMMA ReconcileIInv == ASSUME IInv, NEW o \in Orders, ReconcileOrder(o) PROVE IInv'
<1>1. Tables /\ Engine /\ run \in Job /\ mem \in Memory /\ run.at = "boot" /\ o \in run.todo
  BY IInvParts DEF Engine, ReconcileOrder, At
<1>2. o \in Departed /\ ex[o] \in ExOrder
  BY <1>1 DEF Engine, JobOK, Tables
<1>3. PICK n \in RowsVisible(o, ex[o].filled) :
        db' = [db EXCEPT ![o] =
                  Recorded(IF ex[o].filled > 0 THEN ex[o].status ELSE "canceled",
                           ex[o].filled, n)]
  BY DEF ReconcileOrder
<1> DEFINE row == Recorded(IF ex[o].filled > 0 THEN ex[o].status ELSE "canceled", ex[o].filled, n)
<1>4. n \in 0..Size /\ ex[o].filled \in 0..Size
  BY <1>2, ConstantsAssumption DEF RowsVisible, ExOrder
<1>5. Says(o, row)
  BY <1>2, <1>4, RecordedSays DEF Departed, Terminal
<1>6. mem' \in Memory /\ mem'.unpaged = mem.unpaged
      /\ mem'.pending \in {mem.pending, mem.pending \union {o}}
  BY <1>1 DEF ReconcileOrder, Memory
<1>7. run' = [run EXCEPT !.todo = @ \ {o}] /\ run'.fills = run.fills
  BY <1>1 DEF ReconcileOrder, Job
<1> HIDE DEF row
<1> QED
  BY <1>1, <1>2, <1>3, <1>5, <1>6, <1>7, RecordIInv DEF ReconcileOrder, Departed, row
LEMMA StartTickIInv == ASSUME IInv, StartTick PROVE IInv'
<1>1. Tables /\ Engine /\ run.at = "idle"
  BY IInvParts DEF StartTick, At
<1>2. /\ run' \in Job /\ run'.at = "sweep" /\ run'.gone = StoredOpen \ Live
      /\ run'.todo \subseteq Owed /\ run'.fills = {} /\ run'.queue = {} /\ run'.cancelled = {}
  BY IdleType DEF StartTick, Job, Steps, StoredOpen, Owed
<1>3. StoredOpen \ Live \subseteq Departed
  BY <1>1 DEF Departed, StoredOpen, Live, Tables, TablesOK, ExOrder
<1>4. JobOK' /\ LoudOK'
  BY <1>1, <1>2, <1>3 DEF StartTick, JobOK, LoudOK, At, Engine, Departed, Owed, GivenUp
<1> QED
  BY <1>1, <1>2, <1>4, JobStep, ConstantsAssumption DEF StartTick, Tables, Engine

LEMMA SweepIInv == ASSUME IInv, NEW o \in Orders, Sweep(o) PROVE IInv'
<1>1. Tables /\ Engine /\ run.at = "sweep" /\ o \in run.todo /\ o \in Owed /\ run \in Job
  BY IInvParts DEF Sweep, At, Engine, JobOK
<1>2. /\ Tables' /\ mem' \in Memory
      /\ mem' = [mem EXCEPT !.unpaged = mem'.unpaged]
      /\ mem.unpaged \subseteq mem'.unpaged
      /\ db'[o].marker = "givenUp" => o \in mem'.unpaged
      /\ \A p \in Orders : db'[p].status = db[p].status
      /\ \A p \in Orders \ {o} : db'[p] = db[p]
  BY <1>1, MarkerSwept DEF Engine
<1>3. mem'.pending = mem.pending
  BY <1>1, <1>2 DEF Engine, Memory
<1>4. /\ run' \in Job /\ run'.at = "sweep" /\ run'.todo = run.todo \ {o} /\ run'.gone = run.gone
      /\ run'.fills = run.fills /\ run'.queue = run.queue /\ run'.cancelled = run.cancelled
  BY <1>1 DEF Sweep, Job
<1>5. UNCHANGED <<ex, anchor, loud, faults>>
  BY DEF Sweep
<1>6. /\ Ended' = Ended /\ Departed' = Departed /\ Owed \ {o} \subseteq Owed'
      /\ GivenUp' \subseteq GivenUp \union mem'.unpaged
  BY <1>2, <1>5 DEF Ended, Departed, Owed, GivenUp
<1>7. JobOK' /\ LoudOK'
  BY <1>1, <1>2, <1>4, <1>5, <1>6 DEF JobOK, LoudOK, At, Engine
<1>8. CountersOK' /\ CounterNotRepeated'
  BY <1>1, <1>2, <1>3, <1>4, <1>5, <1>6 DEF Engine, CountersOK, CounterNotRepeated
<1> QED
  BY <1>1, <1>2, <1>4, <1>5, <1>7, <1>8, PartsIInv DEF Engine

LEMMA SweptType ==
  ASSUME mem \in Memory
  PROVE  Swept \in Memory /\ Swept.pending = mem.pending /\ Swept.unpaged = mem.unpaged
BY DEF Swept, Memory

(* The step goes on, to detection or to a layout. *)
LEMMA GoOnIInv == ASSUME IInv, Initialize \/ BeginDetect \/ Relayout PROVE IInv'
<1>1. Tables /\ Engine /\ run \in Job /\ mem \in Memory
  BY IInvParts DEF Engine
<1>2. CASE Initialize \/ Relayout
  <2>1. /\ run' \in Job /\ run'.at = "layout" /\ run'.gone = {} /\ run'.fills = {}
        /\ run'.queue = {} /\ run'.cancelled = {}
    BY <1>2, LayoutType DEF Initialize, Relayout
  <2>2. anchor' \in 0..MaxAnchor /\ anchor' >= anchor /\ anchor' > 0
    BY <1>1, <1>2, ConstantsAssumption
    DEF Initialize, Relayout, Tables, Engine, JobOK, Countered, Detected
  <2>3. mem' \in Memory /\ mem'.pending = mem.pending /\ mem'.unpaged = mem.unpaged
    BY <1>1, <1>2, SweptType DEF Initialize, Relayout
  <2>4. run.at \notin {"down", "boot"} /\ UNCHANGED <<ex, db, loud, faults>>
    BY <1>2 DEF Initialize, Relayout, SweepDone, Countered, Detected, At
  <2>5. JobOK' /\ LoudOK'
    BY <1>1, <2>1, <2>2, <2>3, <2>4 DEF JobOK, LoudOK, At, Engine, GivenUp
  <2> QED
    BY <1>1, <2>1, <2>2, <2>3, <2>4, <2>5, JobStep DEF Engine
<1>3. CASE BeginDetect
  <2>1. PICK on \in IF mem.paused THEN {FALSE} ELSE BOOLEAN :
          run' = [run EXCEPT !.at = "detect", !.onside = on, !.todo = run.gone, !.gone = {},
                             !.queue = IF on THEN mem.pending ELSE {}]
    BY <1>3 DEF BeginDetect
  <2>2. on \in BOOLEAN /\ (on => anchor > 0) /\ mem.pending \subseteq Orders
    BY <1>1, <1>3, <2>1, ConstantsAssumption DEF BeginDetect, Memory, Tables
  <2>3. /\ run' \in Job /\ run'.at = "detect" /\ run'.todo = run.gone /\ run'.gone = {}
        /\ run'.queue \subseteq mem.pending /\ run'.fills = run.fills
        /\ run'.onside = on /\ run'.cancelled = run.cancelled
    BY <1>1, <2>1, <2>2 DEF Job, Steps
  <2>4. mem' \in Memory /\ mem'.pending = mem.pending /\ mem'.unpaged = mem.unpaged
    BY <1>1, <1>3, SweptType DEF BeginDetect
  <2>5. UNCHANGED <<ex, db, anchor, loud, faults>> /\ run.at = "sweep"
    BY <1>3 DEF BeginDetect, SweepDone, At
  <2>6. JobOK' /\ LoudOK'
    BY <1>1, <2>2, <2>3, <2>4, <2>5 DEF JobOK, LoudOK, At, Engine, Departed, GivenUp
  <2> QED
    BY <1>1, <2>3, <2>4, <2>5, <2>6, JobStep, ConstantsAssumption DEF Engine, Tables
<1> QED
  BY <1>2, <1>3

LEMMA DetectIInv == ASSUME IInv, NEW o \in Orders, Detect(o) PROVE IInv'
<1>1. Tables /\ Engine /\ run \in Job /\ mem \in Memory /\ run.at = "detect" /\ o \in run.todo
  BY IInvParts DEF Engine, Detect, At
<1>2. o \in Departed /\ ex[o] \in ExOrder
  BY <1>1 DEF Engine, JobOK, Tables
<1>3. PICK n \in RowsVisible(o, ex[o].filled) :
        LET row == Recorded(ex[o].status, ex[o].filled, n) IN
          /\ db' = [db EXCEPT ![o] = row]
          /\ mem' = AfterDetection(o, row)
  BY DEF Detect
<1> DEFINE row == Recorded(ex[o].status, ex[o].filled, n)
<1>4. n \in 0..Size /\ ex[o].filled \in 0..Size
  BY <1>2, ConstantsAssumption DEF RowsVisible, ExOrder
<1>5. Says(o, row) /\ db' = [db EXCEPT ![o] = row] /\ mem' = AfterDetection(o, row)
  BY <1>2, <1>3, <1>4, RecordedSays DEF Departed
<1> HIDE DEF row
<1>6. mem' \in Memory /\ mem'.unpaged = mem.unpaged /\ mem'.pending = mem.pending
  BY <1>1, <1>5 DEF AfterDetection, Memory
<1>7. run' \in {[run EXCEPT !.todo = @ \ {o}],
                [run EXCEPT !.todo = @ \ {o}, !.fills = @ \union {o}]}
  <2>1. CASE ex[o].filled > 0
    BY <2>1 DEF Detect
  <2>2. CASE ~ ex[o].filled > 0
    <3>1. run' = [run EXCEPT !.todo = @ \ {o}, !.fills = @]
      BY <2>2 DEF Detect
    <3>2. [run EXCEPT !.todo = @ \ {o}, !.fills = @] = [run EXCEPT !.todo = @ \ {o}]
      BY <1>1 DEF Job
    <3> QED
      BY <3>1, <3>2
  <2> QED
    BY <2>1, <2>2
<1> QED
  BY <1>1, <1>2, <1>5, <1>6, <1>7, RecordIInv DEF Detect, Departed

(* The actions that end a tick or a command. *)
LEMMA EndsIInv ==
  ASSUME IInv,
         SkipTick \/ SuppressCounters \/ BookStands \/ HoldVanished \/ BackOff
           \/ EndLayout \/ StepRaises \/ HistoryFails \/ EndCancel
           \/ RefuseReanchor \/ ReanchorFails
  PROVE  IInv'
<1>1. Tables /\ Engine /\ mem \in Memory
  BY IInvParts DEF Engine
<1>2. UNCHANGED <<ex, db, anchor>> /\ (Fault \/ UNCHANGED faults)
      /\ run.at \notin {"down", "boot"}
  BY DEF SkipTick, SuppressCounters, BookStands, HoldVanished, BackOff, EndLayout, StepRaises,
         HistoryFails, EndCancel, RefuseReanchor, ReanchorFails, SweepDone, Detected,
         Countered, Persisted, At
<1>3. Tables' /\ faults' \in 0..MaxFaults
  BY <1>1, <1>2, SameTables, FaultType, ConstantsAssumption DEF Tables, Engine
<1>4. \E m \in Memory : Finish(m) /\ m.pending = mem.pending /\ m.unpaged = mem.unpaged
  <2>1. CASE SkipTick
    BY <1>1, <2>1, SweptType DEF SkipTick
  <2>2. CASE SuppressCounters \/ BackOff \/ StepRaises \/ HistoryFails \/ EndCancel
    BY <1>1, <2>2 DEF SuppressCounters, BackOff, StepRaises, HistoryFails, EndCancel, Abandon
  <2>3. CASE BookStands
    <3> DEFINE m == [mem EXCEPT !.starved = FALSE, !.external = FALSE]
    <3>1. m \in Memory /\ m.pending = mem.pending /\ m.unpaged = mem.unpaged
      BY <1>1 DEF Memory
    <3>2. Finish(m)
      BY <2>3 DEF BookStands
    <3> QED
      BY <3>1, <3>2
  <2>4. CASE HoldVanished
    <3> DEFINE m == [mem EXCEPT !.paused = TRUE, !.hold = TRUE]
    <3>1. m \in Memory /\ m.pending = mem.pending /\ m.unpaged = mem.unpaged
      BY <1>1 DEF Memory
    <3>2. Finish(m)
      BY <2>4 DEF HoldVanished
    <3> QED
      BY <3>1, <3>2
  <2>5. CASE EndLayout
    <3> DEFINE m == [mem EXCEPT !.starved = ~ run.laid]
    <3>0. (~ run.laid) \in BOOLEAN
      OBVIOUS
    <3>1. m \in Memory /\ m.pending = mem.pending /\ m.unpaged = mem.unpaged
      BY <1>1, <3>0 DEF Memory
    <3>2. Finish(m)
      BY <2>5 DEF EndLayout
    <3> QED
      BY <3>1, <3>2
  <2>6. CASE RefuseReanchor \/ ReanchorFails
    <3> DEFINE m == [mem EXCEPT !.external = FALSE]
    <3>1. m \in Memory /\ m.pending = mem.pending /\ m.unpaged = mem.unpaged
      BY <1>1 DEF Memory
    <3>2. Finish(m)
      BY <2>6 DEF RefuseReanchor, ReanchorFails
    <3> QED
      BY <3>1, <3>2
  <2> QED
    BY <2>1, <2>2, <2>3, <2>4, <2>5, <2>6
<1> QED
  BY <1>2, <1>3, <1>4, FinishOK

LEMMA CommandIInv ==
  ASSUME IInv, Pause \/ Resume \/ \E re \in BOOLEAN : BeginCancel(re)
  PROVE  IInv'
<1>1. Tables /\ Engine /\ run \in Job /\ mem \in Memory
  BY IInvParts DEF Engine
<1>2. CASE Pause \/ Resume
  <2>1. mem' \in Memory /\ mem'.pending = mem.pending /\ mem'.unpaged = mem.unpaged
    BY <1>1, <1>2 DEF Pause, Resume, Resumed, Memory
  <2>2. UNCHANGED <<ex, db, anchor, run, loud, faults>>
    BY <1>2 DEF Pause, Resume
  <2>3. JobOK' /\ LoudOK'
    BY <1>1, <2>1, <2>2
    DEF JobOK, LoudOK, At, Engine, Departed, Owed, StoredOpen, Live, GivenUp
  <2> QED
    BY <1>1, <2>1, <2>2, <2>3, JobStep, ConstantsAssumption DEF Tables, Engine, CountersOK
<1>3. ASSUME NEW re \in BOOLEAN, BeginCancel(re) PROVE IInv'
  <2> DEFINE c == [o \in Orders |-> ex[o].filled]
  <2>1. c \in [Orders -> 0..Size]
    BY <1>1 DEF Tables, ExOrder
  <2>2. run' = [Idle EXCEPT !.at = "cancel", !.reanchor = re, !.todo = Live, !.cut = c]
    BY <1>3 DEF BeginCancel
  <2> HIDE DEF c
  <2>3. /\ run' \in Job /\ run'.at = "cancel" /\ run'.gone = {} /\ run'.fills = {}
        /\ run'.todo = Live /\ run'.queue = {} /\ run'.cancelled = {} /\ run'.reanchor = re
    BY <2>1, <2>2, IdleType DEF Job, Steps, Live
  <2>4. JobOK' /\ LoudOK'
    BY <1>1, <1>3, <2>3 DEF BeginCancel, JobOK, LoudOK, At, Engine, Live, GivenUp
  <2> QED
    <3>1. UNCHANGED <<ex, db, anchor, mem, loud, faults>>
      BY <1>3 DEF BeginCancel
    <3>2. anchor' \in 0..MaxAnchor /\ anchor' >= anchor
      BY <1>1, <3>1, ConstantsAssumption DEF Tables
    <3> QED
      BY <1>1, <2>3, <2>4, <3>1, <3>2, JobStep DEF Engine
<1> QED
  BY <1>2, <1>3

(* A live order is cancelled by the engine; its reply comes or is lost.    *)
LEMMA CancelIInv ==
  ASSUME IInv, NEW o \in Orders, CancelOrder(o) \/ CancelReplyLost(o)
  PROVE  IInv'
<1>1. Tables /\ Engine /\ run \in Job /\ run.at = "cancel" /\ o \in run.todo /\ o \in Live
  BY IInvParts DEF Engine, CancelOrder, CancelReplyLost, At
<1>2. ex[o] \in ExOrder /\ ex[o].status = "open" /\ ex[o].by = "nobody"
  BY <1>1 DEF Tables, TablesOK, Live
<1> DEFINE e == [ex[o] EXCEPT !.status = "canceled", !.by = "engine"]
<1>3. e \in ExOrder /\ e.status = "canceled" /\ e.by = "engine" /\ e.parent = ex[o].parent
  BY <1>2 DEF ExOrder, Terminal
<1>4. ex' = [ex EXCEPT ![o] = e] /\ UNCHANGED <<db, anchor, mem, loud>>
  BY <1>1 DEF CancelOrder, CancelReplyLost, Tables
<1> HIDE DEF e
<1>5. /\ Tables' /\ Live' \subseteq Live /\ ex'[o] = e
      /\ \A p \in Orders \ {o} : ex'[p] = ex[p]
  BY <1>1, <1>3, <1>4, ExchangeMoves DEF Terminal
<1>6. /\ run' \in Job /\ run'.at = "cancel" /\ run'.todo = run.todo \ {o} /\ run'.gone = run.gone
      /\ run'.fills = run.fills /\ run'.queue = run.queue /\ run'.reanchor = run.reanchor
      /\ run'.cancelled \in {run.cancelled, run.cancelled \union {o}}
      /\ run'.failed = run.failed \/ run'.failed
  <2>1. CASE CancelOrder(o)
    BY <1>1, <2>1 DEF CancelOrder, Job
  <2>2. CASE CancelReplyLost(o)
    BY <1>1, <2>2 DEF CancelReplyLost, Job
  <2> QED
    BY <2>1, <2>2
<1>7. faults' \in 0..MaxFaults
  BY <1>1, FaultType DEF CancelOrder, CancelReplyLost, Engine
<1>8. o \notin Live' /\ Ended' = Ended /\ GivenUp' = GivenUp
      /\ \A p \in Orders : ex'[p].parent = ex[p].parent
  BY <1>3, <1>4, <1>5 DEF Live, Ended, GivenUp
<1>9. JobOK'
  <2>1. \A p \in run'.cancelled : ex'[p].by = "engine"
    BY <1>1, <1>3, <1>5, <1>6 DEF Engine, JobOK, Job
  <2>2. ~ run'.failed => Live' \subseteq run'.todo
    BY <1>1, <1>5, <1>6, <1>8 DEF Engine, JobOK, At
  <2> QED
    BY <1>1, <1>4, <1>6, <2>1, <2>2 DEF Engine, JobOK, At
<1>10. CountersOK' /\ CounterNotRepeated' /\ LoudOK'
  BY <1>1, <1>4, <1>6, <1>8 DEF Engine, CountersOK, CounterNotRepeated, LoudOK
<1> QED
  BY <1>1, <1>4, <1>5, <1>6, <1>7, <1>9, <1>10, PartsIInv DEF Engine

LEMMA CancelGoesOnIInv ==
  ASSUME IInv, BeginPersist \/ \E o \in Orders : CancelFails(o) \/ PersistFails(o)
  PROVE  IInv'
<1>1. Tables /\ Engine /\ run \in Job
  BY IInvParts DEF Engine
<1>2. CASE BeginPersist
  <2>1. /\ run' \in Job /\ run'.at = "persist" /\ run'.todo = run.cancelled \intersect StoredOpen
        /\ run'.gone = run.gone /\ run'.fills = run.fills /\ run'.queue = run.queue
        /\ run'.cancelled = run.cancelled /\ run'.failed = run.failed
        /\ run'.reanchor = run.reanchor
    BY <1>1, <1>2 DEF BeginPersist, Job, Steps
  <2>2. JobOK' /\ LoudOK'
    BY <1>1, <1>2, <2>1
    DEF BeginPersist, JobOK, LoudOK, At, Engine, StoredOpen, Live, GivenUp
  <2> QED
    BY <1>1, <1>2, <2>1, <2>2, JobStep, ConstantsAssumption
    DEF BeginPersist, Tables, Engine, CountersOK
<1>3. ASSUME NEW o \in Orders, CancelFails(o) \/ PersistFails(o) PROVE IInv'
  <2>1. /\ run' \in Job /\ run'.at = run.at /\ run'.todo = run.todo \ {o}
        /\ run'.gone = run.gone /\ run'.fills = run.fills /\ run'.queue = run.queue
        /\ run'.cancelled = run.cancelled /\ run'.reanchor = run.reanchor
        /\ run.at = "cancel" => run'.failed
        /\ run'.failed = run.failed \/ run'.failed
    <3>1. CASE CancelFails(o)
      BY <1>1, <3>1 DEF CancelFails, Job
    <3>2. CASE PersistFails(o)
      BY <1>1, <3>2 DEF PersistFails, Job, At
    <3> QED
      BY <1>3, <3>1, <3>2
  <2>2. UNCHANGED <<ex, db, anchor, mem, loud>> /\ run.at \in {"cancel", "persist"}
    BY <1>3 DEF CancelFails, PersistFails, At
  <2>3. faults' \in 0..MaxFaults
    BY <1>1, <1>3, FaultType DEF CancelFails, PersistFails, Engine
  <2>4. JobOK' /\ LoudOK'
    BY <1>1, <2>1, <2>2 DEF JobOK, LoudOK, At, Engine, StoredOpen, Live, GivenUp
  <2> QED
    BY <1>1, <2>1, <2>2, <2>3, <2>4, JobStep, ConstantsAssumption
    DEF Tables, Engine, CountersOK
<1> QED
  BY <1>2, <1>3

LEMMA PersistIInv == ASSUME IInv, NEW o \in Orders, PersistCancel(o) PROVE IInv'
<1>1. Tables /\ Engine /\ run \in Job /\ mem \in Memory /\ run.at = "persist" /\ o \in run.todo
  BY IInvParts DEF Engine, PersistCancel, At
<1>2. o \in StoredOpen /\ o \in run.cancelled /\ ex[o].by = "engine" /\ ex[o] \in ExOrder
  BY <1>1 DEF Engine, JobOK, At, Tables
<1>3. PICK n \in RowsVisible(o, run.cut[o]) :
        LET row == Recorded("canceled", run.cut[o], n) IN
          /\ db' = [db EXCEPT ![o] = row]
          /\ mem' = [mem EXCEPT !.index = @ \/ row.marker = "owed",
                                !.pending = IF row.filled > 0 THEN @ \union {o} ELSE @]
  BY DEF PersistCancel
<1> DEFINE row == Recorded("canceled", run.cut[o], n)
<1>4. n \in 0..Size /\ run.cut[o] \in 0..Size
  BY <1>1, <1>2, ConstantsAssumption DEF RowsVisible, ExOrder, Job
<1>5. /\ Says(o, row) /\ db' = [db EXCEPT ![o] = row]
      /\ mem' = [mem EXCEPT !.index = @ \/ row.marker = "owed",
                            !.pending = IF row.filled > 0 THEN @ \union {o} ELSE @]
  BY <1>2, <1>3, <1>4, RecordedSays DEF Terminal
<1> HIDE DEF row
<1>6. mem' \in Memory /\ mem'.unpaged = mem.unpaged
      /\ mem'.pending \in {mem.pending, mem.pending \union {o}}
  BY <1>1, <1>5 DEF Memory
<1>7. run' = [run EXCEPT !.todo = @ \ {o}] /\ run'.fills = run.fills
  BY <1>1 DEF PersistCancel, Job
<1> QED
  BY <1>1, <1>2, <1>5, <1>6, <1>7, RecordIInv DEF PersistCancel, StoredOpen

LEMMA ReanchorIInv == ASSUME IInv, Reanchor PROVE IInv' /\ Live = {}
<1>1. Tables /\ Engine /\ mem \in Memory /\ run.at = "persist" /\ ~ run.failed /\ run.reanchor
  BY IInvParts DEF Engine, Reanchor, Persisted, At
<1>2. Live = {} /\ anchor < MaxAnchor
  BY <1>1 DEF Engine, JobOK, At
<1>3. anchor' \in 0..MaxAnchor /\ anchor' >= anchor /\ anchor' > 0
  BY <1>1, <1>2, ConstantsAssumption DEF Tables, Reanchor
<1>4. /\ run' \in Job /\ run'.at = "layout" /\ run'.gone = {} /\ run'.fills = {}
      /\ run'.queue = {} /\ run'.cancelled = {}
  BY LayoutType DEF Reanchor
<1>5. mem' \in Memory /\ mem'.pending = mem.pending /\ mem'.unpaged = mem.unpaged
  BY <1>1 DEF Reanchor, Resumed, Memory
<1>6. JobOK' /\ LoudOK'
  BY <1>1, <1>3, <1>4, <1>5 DEF Reanchor, JobOK, LoudOK, At, Engine, GivenUp
<1> QED
  BY <1>1, <1>2, <1>3, <1>4, <1>5, <1>6, JobStep DEF Reanchor, Engine

LEMMA CloseIInv ==
  ASSUME IInv, BeginClose \/ EndClose \/ Crash \/ \E o \in Orders : CloseFails(o)
  PROVE  IInv'
<1>1. Tables /\ Engine /\ run \in Job
  BY IInvParts DEF Engine
<1>2. UNCHANGED <<ex, db, anchor, loud>> /\ faults' \in 0..MaxFaults
  BY <1>1, FaultType DEF BeginClose, EndClose, Crash, CloseFails, Engine
<1>3. CASE BeginClose
  <2> DEFINE c == [o \in Orders |-> ex[o].filled]
  <2>1. c \in [Orders -> 0..Size]
    BY <1>1 DEF Tables, ExOrder
  <2>2. run' = [Idle EXCEPT !.at = "close", !.todo = Live, !.cut = c]
    BY <1>3 DEF BeginClose
  <2> HIDE DEF c
  <2>3. /\ run' \in Job /\ run'.at = "close" /\ run'.gone = {} /\ run'.fills = {}
        /\ run'.queue = {} /\ run'.cancelled = {}
    BY <2>1, <2>2, IdleType DEF Job, Steps, Live
  <2>4. JobOK' /\ LoudOK'
    BY <1>1, <1>2, <1>3, <2>3 DEF BeginClose, JobOK, LoudOK, At, Engine, GivenUp
  <2> QED
    BY <1>1, <1>2, <1>3, <2>3, <2>4, JobStep, ConstantsAssumption DEF BeginClose, Tables, Engine
<1>4. CASE EndClose \/ Crash
  <2>1. mem' = FreshMemory /\ run' = Down
    BY <1>4 DEF EndClose, Crash
  <2>2. JobOK' /\ LoudOK'
    BY <2>1, IdleType, FreshType DEF JobOK, LoudOK, At
  <2> QED
    BY <1>1, <1>2, <2>1, <2>2, IdleType, FreshType, JobStep, ConstantsAssumption
    DEF Tables, Engine
<1>5. ASSUME NEW o \in Orders, CloseFails(o) PROVE IInv'
  <2>1. /\ run' \in Job /\ run'.at = "close" /\ run.at = "close" /\ run'.gone = run.gone
        /\ run'.fills = run.fills /\ run'.queue = run.queue /\ run'.cancelled = run.cancelled
    BY <1>1, <1>5 DEF CloseFails, Job, At
  <2>2. JobOK' /\ LoudOK'
    BY <1>1, <1>2, <1>5, <2>1 DEF CloseFails, JobOK, LoudOK, At, Engine, GivenUp
  <2> QED
    BY <1>1, <1>2, <1>5, <2>1, <2>2, JobStep, ConstantsAssumption
    DEF CloseFails, Tables, Engine, CountersOK
<1> QED
  BY <1>3, <1>4, <1>5

LEMMA CloseOrderIInv == ASSUME IInv, NEW o \in Orders, CloseOrder(o) PROVE IInv'
<1>1. Tables /\ Engine /\ run \in Job /\ run.at = "close"
  BY IInvParts DEF Engine, CloseOrder, At
<1>2. /\ Tables' /\ anchor' = anchor /\ Ended \subseteq Ended'
      /\ \A p \in Orders : /\ db'[p].marker = db[p].marker
                           /\ db'[p].status # "absent" => db[p].status # "absent"
                           /\ ex'[p].parent = ex[p].parent
  BY <1>1, OrderClosed
<1>3. /\ run' \in Job /\ run'.at = "close" /\ run'.gone = run.gone
      /\ run'.fills = run.fills /\ run'.queue = run.queue /\ run'.cancelled = run.cancelled
  BY <1>1 DEF CloseOrder, Job
<1>4. UNCHANGED <<mem, loud>> /\ faults' \in 0..MaxFaults
  BY <1>1, FaultType DEF CloseOrder, Engine
<1>5. JobOK'
  <2>1. ASSUME NEW p \in run.cancelled PROVE ex'[p].by = "engine"
    <3>1. p \in Orders /\ ex[p].by = "engine"
      BY <1>1 DEF Engine, JobOK, Job
    <3>2. p # o
      BY <1>1, <3>1 DEF CloseOrder, Live, Tables, TablesOK
    <3> QED
      BY <1>1, <3>1, <3>2 DEF CloseOrder, Tables
  <2> QED
    BY <1>1, <1>3, <2>1 DEF Engine, JobOK, At
<1>6. CountersOK' /\ CounterNotRepeated' /\ LoudOK'
  <2>1. GivenUp' = GivenUp
    BY <1>2 DEF GivenUp
  <2> QED
    BY <1>1, <1>2, <1>3, <1>4, <2>1 DEF Engine, CountersOK, CounterNotRepeated, LoudOK, Tables
<1> QED
  BY <1>1, <1>2, <1>3, <1>4, <1>5, <1>6, PartsIInv DEF Engine

LEMMA StutterIInv == ASSUME IInv, UNCHANGED vars PROVE IInv'
<1>1. Tables /\ Engine
  BY IInvParts
<1>2. JobOK' /\ LoudOK'
  BY <1>1 DEF vars, JobOK, LoudOK, At, Engine, Departed, Owed, StoredOpen, Live, GivenUp
<1> QED
  BY <1>1, <1>2, JobStep, ConstantsAssumption DEF vars, Tables, Engine, CountersOK

-----------------------------------------------------------------------------
(* Theorems. *)

LEMMA NextIInv == ASSUME IInv, [Next]_vars PROVE IInv'
<1>1. CASE Exchange
  BY <1>1, ExchangeIInv DEF Exchange
<1>2. CASE Start
  BY <1>2, StartIInv, ReconcileIInv DEF Start
<1>3. CASE StartTick
  BY <1>3, StartTickIInv
<1>4. CASE Step
  BY <1>4, EndsIInv, GoOnIInv, LevelIInv, SaveRaisesIInv, SweepIInv, DetectIInv, CounterIInv
  DEF Step
<1>5. CASE Cancelling
  BY <1>5, EndsIInv, CancelIInv, CancelGoesOnIInv, PersistIInv, ReanchorIInv DEF Cancelling
<1>6. CASE Command
  BY <1>6, CommandIInv DEF Command
<1>7. CASE Closing \/ Crash
  BY <1>7, CloseIInv, CloseOrderIInv DEF Closing
<1>8. CASE UNCHANGED vars
  BY <1>8, StutterIInv
<1> QED
  BY <1>1, <1>2, <1>3, <1>4, <1>5, <1>6, <1>7, <1>8 DEF Next

(* The whole invariant, for every size of the grid: an order is recorded   *)
(* only after it left the exchange, and what the engine has in memory      *)
(* agrees with the tables.                                                 *)
THEOREM InvariantHolds == Spec => []IInv
<1>1. Init => IInv
  BY InitIInv
<1>2. IInv /\ [Next]_vars => IInv'
  BY NextIInv
<1> QED
  BY <1>1, <1>2, PTL DEF Spec

(* Every variable keeps its type, and the sweep its bounds of attempts and *)
(* age (_recover_pending_fill_trades).                                     *)
THEOREM TypeCorrect == Spec => []TypeOK
<1>1. IInv => TypeOK
  BY DEF IInv
<1> QED
  BY <1>1, InvariantHolds, PTL

(* No fill loses a trade row silently: save_fill_pending_trades leaves a   *)
(* marker wherever rows fall short of the filled amount (ADR-046).         *)
THEOREM NoTradeForgotten == Spec => []FillTradesAccounted
<1>1. IInv => FillTradesAccounted
  BY DEF IInv
<1> QED
  BY <1>1, InvariantHolds, PTL

(* _detect_fills and apply_reconciliation record what the exchange did     *)
(* with every order the engine did not cancel itself.                      *)
THEOREM RecordsAreTrue == Spec => []FillsRecordedTruly
<1>1. IInv => FillsRecordedTruly
  BY DEF IInv
<1> QED
  BY <1>1, InvariantHolds, PTL

(* No filled order gets two counter-orders that storage tracks, from the   *)
(* detection, the queue or the reconciler (ADR-023).                       *)
THEOREM OneCounterOnly == Spec => []CounterNotRepeated
<1>1. IInv => CounterNotRepeated
  BY DEF IInv
<1> QED
  BY <1>1, InvariantHolds, PTL

(* A fill whose rows were given up on was paged when the engine is idle    *)
(* again, whether its step returned or raised.                             *)
THEOREM GivenUpIsPaged == Spec => []AbandonmentLoud
<1>1. IInv => AbandonmentLoud
  BY DEF IInv, LoudOK, AbandonmentLoud, At, GivenUp
<1> QED
  BY <1>1, InvariantHolds, PTL

(* reanchor saves a new anchor only when no order of the old one is live   *)
(* on the exchange, tracked in storage or not (ADR-031).                   *)
THEOREM AnchorsOnEmptyBook == Spec => NewAnchorOnEmptyBook
<1>1. ASSUME IInv, [Next]_vars PROVE [anchor' # anchor => Live = {}]_vars
  <2>1. CASE Initialize
    BY <2>1, <1>1 DEF Initialize, IInv, TablesOK, Live
  <2>2. CASE Reanchor
    BY <2>2, <1>1, ReanchorIInv
  <2>3. CASE ~ Initialize /\ ~ Reanchor
    <3>1. anchor' = anchor
      <4>1. CASE Exchange \/ Start \/ StartTick
        BY <4>1 DEF Exchange, Fill, OutsideCancel, Start, Boot, LoadMarkers, ReconcileOrder,
                    ReconcileFails, StartTick
      <4>2. CASE Step
        BY <2>3, <4>2
        DEF Step, SkipTick, BeginDetect, SuppressCounters, BookStands, HoldVanished, BackOff,
            Relayout, PlaceLevel, EndLayout, StepRaises, SaveRaises, Sweep, Detect,
            CounterQueued, CounterFill
      <4>3. CASE Cancelling
        BY <2>3, <4>3
        DEF Cancelling, CancelOrder, CancelFails, CancelReplyLost, PersistCancel, PersistFails,
            HistoryFails, BeginPersist, EndCancel, RefuseReanchor, ReanchorFails
      <4>4. CASE Command
        BY <4>4 DEF Command, Pause, Resume, BeginCancel
      <4>5. CASE Closing \/ Crash
        BY <4>5 DEF Closing, BeginClose, EndClose, CloseOrder, CloseFails, Crash
      <4>6. CASE UNCHANGED vars
        BY <4>6 DEF vars
      <4> QED
        BY <1>1, <4>1, <4>2, <4>3, <4>4, <4>5, <4>6 DEF Next
    <3> QED
      BY <3>1
  <2> QED
    BY <2>1, <2>2, <2>3
<1> QED
  BY <1>1, InvariantHolds, PTL DEF Spec, NewAnchorOnEmptyBook
=============================================================================
