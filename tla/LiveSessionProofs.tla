-------------------------- MODULE LiveSessionProofs --------------------------
(***************************************************************************)
(* Theorems about LiveSession, for a book, a timer and a strike limit of   *)
(* any size.  Three independent invariants: what the shutdown knows of the *)
(* book it is emptying, what the gate knows of a loss beyond the cap, and  *)
(* what the gate's floor knows of an approval.                             *)
(***************************************************************************)
EXTENDS LiveSession, TLAPS

(* A shutdown that has not failed so far has fetched every live order.     *)
ShutdownOK ==
    /\ At("cancel") /\ run.clean => book <= run.todo
    /\ At("disarm") /\ run.clean => book = 0

(* While the loss persists the tick's tickers show it; once a whole tick   *)
(* has had it, the gate is shut, and no later valuation opens it.          *)
GateOK ==
    /\ ghost.overdue => breach
    /\ ghost.since => breach
    /\ ghost.since /\ run.at \in Session => run.at \in Tick /\ run.price
    /\ ghost.overdue /\ run.at \in Session => run.stale
    /\ ghost.overdue /\ run.at \in {"probe", "revalue"} => ghost.since
    /\ run.at \in {"reanchor", "step", "value"} => ~ run.stale

(* Within a session, an approval is clouded only behind a shut gate or the *)
(* floor.                                                                  *)
FloorOK ==
    /\ cmd.clouded => cmd.approved
    /\ cmd.clouded /\ run.at \in Session => run.stale \/ cmd.old

IInv == TypeOK /\ ShutdownOK /\ OrdersStayGuarded /\ GateOK /\ FloorOK

(* Two positions of the process that differ in at and the escalation only. *)
Same(r, q) ==
    /\ r.stale = q.stale /\ r.price = q.price /\ r.opens = q.opens
    /\ r.tripped = q.tripped /\ r.todo = q.todo /\ r.clean = q.clean

-----------------------------------------------------------------------------
(* What the operators on the process record do. *)

Places == {"down"} \union Session \union Closing

LEMMA FreshType == Fresh \in Process /\ Fresh.at = "top"
<1>1. Fresh \in Process
  BY ConstantsAssumption DEF Fresh, Process, Session, Closing, Tick
<1> QED
  BY <1>1 DEF Fresh

LEMMA DownType == Down \in Process /\ Down.at = "down"
<1>1. Down \in Process
  BY FreshType DEF Down, Process
<1> QED
  BY FreshType DEF Down, Process

LEMMA GotoType ==
  ASSUME NEW r \in Process, NEW p \in Places
  PROVE  Goto(r, p) \in Process /\ Goto(r, p).at = p /\ Same(Goto(r, p), r)
BY DEF Process, Places, Goto, Same

LEMMA HeardType ==
  ASSUME NEW r \in Process
  PROVE  Heard(r) \in Process /\ Heard(r).at = r.at /\ Same(Heard(r), r)
<1>1. 0 \in 0..Strikes
  BY ConstantsAssumption
<1>2. Heard(r) \in Process
  BY <1>1 DEF Process, Heard
<1> QED
  BY <1>2 DEF Process, Heard, Same

LEMMA FailuresType ==
  ASSUME NEW r \in Process, NEW f \in Failures(r)
  PROVE  f \in Process /\ f.at = r.at /\ Same(f, r)
<1>1. r.strikes \in 0..Strikes
  BY DEF Process
<1>2. Strikes \in 0..Strikes /\ (r.strikes + 1 < Strikes => r.strikes + 1 \in 0..Strikes)
  BY <1>1, ConstantsAssumption
<1>3. CASE f = r
  BY <1>3 DEF Same
<1>4. CASE f = [r EXCEPT !.backoff = TRUE]
  BY <1>4 DEF Process, Same
<1>5. CASE f = [r EXCEPT !.strikes = @ + 1] /\ r.strikes + 1 < Strikes
  BY <1>2, <1>5 DEF Process, Same
<1>6. CASE f = [r EXCEPT !.strikes = Strikes, !.authPaused = TRUE]
  BY <1>2, <1>6 DEF Process, Same
<1> QED
  BY <1>3, <1>4, <1>5, <1>6 DEF Failures

LEMMA NextTickType ==
  ASSUME NEW r \in Process
  PROVE  NextTick(r) \in Process /\ NextTick(r).at = "top" /\ NextTick(r).stale = r.stale
BY DEF Process, Session, NextTick

LEMMA TripType ==
  ASSUME run \in Process, Trip PROVE run' \in Process /\ run'.at = "fetch"
<1>1. NextTick(run) \in Process
  BY NextTickType
<1> QED
  BY <1>1 DEF Trip, Process, Closing

LEMMA TickersType ==
  ASSUME NEW r \in Process, NEW p \in Tick, WithTickers(r, p),
         breach \in BOOLEAN, ghost \in History
  PROVE  /\ run' \in Process /\ run'.at = p /\ run'.price = breach
         /\ run'.stale = r.stale /\ run'.clean = r.clean /\ run'.todo = r.todo
         /\ ghost' \in History /\ ghost'.since = breach
         /\ ghost'.overdue = ghost.overdue /\ ghost'.guarded = ghost.guarded
<1>1. run' \in Process /\ ghost' \in History
  BY DEF WithTickers, Process, History, Session
<1> QED
  BY <1>1 DEF WithTickers, Process, History

LEMMA BookType ==
  ASSUME NEW b \in 0..MaxBook, BookIs(b), ghost \in History
  PROVE  /\ book' = b /\ ghost' \in History
         /\ ghost'.since = ghost.since /\ ghost'.overdue = ghost.overdue
         /\ b > 0 => ghost' = ghost
<1>1. ghost' \in History
  BY DEF BookIs, History
<1> QED
  BY <1>1, ConstantsAssumption DEF BookIs, History

LEMMA TickEndsType ==
  ASSUME TickEnds, ghost \in History
  PROVE  /\ ghost' \in History
         /\ ~ ghost'.since /\ ghost'.guarded = ghost.guarded
         /\ ghost'.overdue => ghost.overdue \/ ghost.since
<1>1. ghost' \in History
  BY DEF TickEnds, History
<1> QED
  BY <1>1 DEF TickEnds, History

LEMMA InitIInv == Init => IInv
<1> SUFFICES ASSUME Init PROVE IInv
  OBVIOUS
<1>1. TypeOK
  <2>1. cmd \in Command /\ ghost \in History
    BY DEF Init, NoCommand, Command, History
  <2>2. 0 \in 0..MaxBook /\ 0 \in 0..Window
    BY ConstantsAssumption
  <2> QED
    BY <2>1, <2>2, DownType DEF Init, TypeOK
<1>2. ShutdownOK /\ OrdersStayGuarded /\ GateOK /\ FloorOK
  BY DownType DEF Init, ShutdownOK, OrdersStayGuarded, GateOK, FloorOK, At, NoCommand, Session, Tick
<1> QED
  BY <1>1, <1>2 DEF IInv

(* No step leaves the types.                                               *)
LEMMA TypeStep == IInv /\ [Next]_vars => TypeOK'
<1> SUFFICES ASSUME IInv, [Next]_vars PROVE TypeOK'
  OBVIOUS
<1> USE ConstantsAssumption DEF IInv, TypeOK, At
<1>1. CASE World
  <2>1. CASE PriceMoves
    BY <2>1 DEF PriceMoves, History
  <2>2. CASE OrderLeaves
    BY <2>2, BookType DEF OrderLeaves
  <2>3. CASE TimerRuns
    BY <2>3, BookType DEF TimerRuns
  <2>4. CASE CoolDownEnds
    BY <2>4 DEF CoolDownEnds
  <2>5. CASE BackoffEnds
    BY <2>5 DEF BackoffEnds, Process
  <2>6. CASE Approve
    BY <2>6 DEF Approve, Command, Process
  <2> QED
    BY <1>1, <2>1, <2>2, <2>3, <2>4, <2>5, <2>6 DEF World
<1>2. CASE Loop
  <2>1. CASE Ping
    BY <2>1, GotoType, HeardType, FailuresType DEF Ping, Places, Session, Tick
  <2>2. CASE NoPing
    BY <2>2, GotoType DEF NoPing, Places, Session, Tick
  <2>3. CASE NoWork
    BY <2>3, GotoType DEF NoWork, Places, Session, Tick
  <2>4. CASE RefuseReanchor
    BY <2>4, GotoType DEF RefuseReanchor, Places, Session, Tick, NoCommand, Command, Refused
  <2>5. CASE EndReanchor
    BY <2>5, GotoType DEF EndReanchor, Places, Session, Tick
  <2> QED
    BY <1>2, <2>1, <2>2, <2>3, <2>4, <2>5 DEF Loop
<1>3. CASE RunTick
  <2>1. CASE SkipTick
    BY <2>1, NextTickType DEF SkipTick
  <2>2. CASE BeginTick
    BY <2>2, GotoType DEF BeginTick, Places, Session, Tick
  <2>3. CASE FetchOpens
    BY <2>3, HeardType DEF FetchOpens, WithTickers, AfterOpens, History, Process, Session, Tick
  <2>4. CASE FetchFails
    BY <2>4, FailuresType, TickersType DEF FetchFails, AfterOpens, Tick
  <2>5. CASE ValuationFails
    <3>1. PICK r \in Failures(run) : run' = [NextTick(r) EXCEPT !.stale = TRUE]
      BY <2>5 DEF ValuationFails
    <3>2. run' \in Process /\ run'.at = "top" /\ run'.stale
      BY <3>1, FailuresType, NextTickType DEF Process
    <3>3. cmd' \in Command /\ cmd'.approved = cmd.approved
      BY <2>5 DEF ValuationFails, Cloud, Command
    <3>4. ghost' \in History
      BY <2>5, TickEndsType DEF ValuationFails
    <3> QED
      BY <2>5, <3>2, <3>3, <3>4 DEF ValuationFails
  <2>6. CASE Probe
    BY <2>6, TripType, TickersType DEF Probe, Values, Tick
  <2>7. CASE Revalue
    BY <2>7, TripType DEF Revalue, Values, Age, Command, Process, Session, Tick
  <2>8. CASE EndSteps
    BY <2>8, GotoType DEF EndSteps, Places, Session, Tick
  <2>9. CASE Value
    BY <2>9, TripType, NextTickType, TickEndsType DEF Value, Values
  <2> QED
    BY <1>3, <2>1, <2>2, <2>3, <2>4, <2>5, <2>6, <2>7, <2>8, <2>9 DEF RunTick
<1>4. CASE Shutdown
  <2>1. CASE FetchToCancel
    BY <2>1 DEF FetchToCancel, Process, Closing
  <2>2. CASE FetchToCancelFails
    BY <2>2 DEF FetchToCancelFails, Process, Closing
  <2>3. CASE CancelOrder
    BY <2>3, BookType DEF CancelOrder, Process
  <2>4. CASE CancelFails
    <3>1. PICK b \in {book, IF book > 0 THEN book - 1 ELSE 0} : BookIs(b)
      BY <2>4 DEF CancelFails
    <3>2. b \in 0..MaxBook
      OBVIOUS
    <3>3. run.todo - 1 \in 0..MaxBook
      BY <2>4 DEF CancelFails, Process
    <3>4. run' \in Process
      BY <2>4, <3>3 DEF CancelFails, Process
    <3> QED
      BY <2>4, <3>1, <3>2, <3>4, BookType DEF CancelFails
  <2>5. CASE Cancelled
    BY <2>5, GotoType DEF Cancelled, Places, Closing
  <2>6. CASE Disarm
    BY <2>6, GotoType DEF Disarm, Places, Closing
  <2>7. CASE End
    BY <2>7, DownType DEF End
  <2> QED
    BY <1>4, <2>1, <2>2, <2>3, <2>4, <2>5, <2>6, <2>7 DEF Shutdown
<1>5. CASE Begin
  BY <1>5, FreshType DEF Begin, Cloud, Age, Command, History
<1>6. CASE Reanchor
  BY <1>6, GotoType, BookType DEF Reanchor, Places, Session, Tick, NoCommand, Command, Refused
<1>7. CASE PlaceOrder
  <2>1. book' \in 0..MaxBook
    BY <1>7 DEF PlaceOrder
  <2>2. ghost' \in History
    BY <1>7 DEF PlaceOrder, History
  <2> QED
    BY <1>7, <2>1, <2>2 DEF PlaceOrder
<1>8. CASE Stop
  BY <1>8, NextTickType DEF Stop, Process, Closing
<1>9. CASE Crash
  BY <1>9, DownType DEF Crash
<1>10. CASE UNCHANGED vars
  BY <1>10 DEF vars
<1> QED
  BY <1>1, <1>2, <1>3, <1>4, <1>5, <1>6, <1>7, <1>8, <1>9, <1>10 DEF Next, Start, StartAnyway

(* The shutdown empties the book before it disarms.                        *)
LEMMA GuardStep == IInv /\ [Next]_vars => (ShutdownOK /\ OrdersStayGuarded)'
<1> SUFFICES ASSUME IInv, [Next]_vars PROVE (ShutdownOK /\ OrdersStayGuarded)'
  OBVIOUS
<1> USE ConstantsAssumption DEF IInv, TypeOK, At, ShutdownOK, OrdersStayGuarded, Same
<1>1. CASE World
  <2>1. CASE PriceMoves
    BY <2>1 DEF PriceMoves, History
  <2>2. CASE OrderLeaves
    <3>1. book - 1 \in 0..MaxBook /\ BookIs(book - 1)
      BY <2>2 DEF OrderLeaves
    <3>2. book' = book - 1 /\ (book - 1 > 0 => ghost' = ghost)
      BY <3>1, BookType
    <3>3. UNCHANGED <<run, timer>>
      BY <2>2 DEF OrderLeaves
    <3>4. ShutdownOK'
      <4>1. run.at = "cancel" => run.todo \in Nat
        BY DEF Process
      <4> QED
        BY <2>2, <3>2, <3>3, <4>1 DEF OrderLeaves
    <3> QED
      BY <3>2, <3>3, <3>4
  <2>3. CASE TimerRuns
    <3>1. CASE timer = 1
      <4>1. book' = 0 /\ run' = run
        BY <2>3, <3>1 DEF TimerRuns, BookIs
      <4>2. run.todo >= 0
        BY DEF Process
      <4> QED
        BY <4>1, <4>2
    <3>2. CASE timer # 1
      BY <2>3, <3>2, BookType DEF TimerRuns
    <3> QED
      BY <3>1, <3>2
  <2>4. CASE CoolDownEnds
    BY <2>4 DEF CoolDownEnds
  <2>5. CASE BackoffEnds
    BY <2>5 DEF BackoffEnds, Process
  <2>6. CASE Approve
    BY <2>6 DEF Approve, Command, Process
  <2> QED
    BY <1>1, <2>1, <2>2, <2>3, <2>4, <2>5, <2>6 DEF World
<1>2. CASE Loop
  <2>1. CASE Ping
    BY <2>1, GotoType, HeardType, FailuresType DEF Ping, Places, Session, Tick
  <2>2. CASE NoPing
    BY <2>2, GotoType DEF NoPing, Places, Session, Tick
  <2>3. CASE NoWork
    BY <2>3, GotoType DEF NoWork, Places, Session, Tick
  <2>4. CASE RefuseReanchor
    BY <2>4, GotoType DEF RefuseReanchor, Places, Session, Tick, NoCommand, Command, Refused
  <2>5. CASE EndReanchor
    BY <2>5, GotoType DEF EndReanchor, Places, Session, Tick
  <2> QED
    BY <1>2, <2>1, <2>2, <2>3, <2>4, <2>5 DEF Loop
<1>3. CASE RunTick
  <2>1. CASE SkipTick
    BY <2>1, NextTickType DEF SkipTick
  <2>2. CASE BeginTick
    BY <2>2, GotoType DEF BeginTick, Places, Session, Tick
  <2>3. CASE FetchOpens
    BY <2>3, HeardType DEF FetchOpens, WithTickers, AfterOpens, History, Process, Session, Tick
  <2>4. CASE FetchFails
    BY <2>4, FailuresType, TickersType DEF FetchFails, AfterOpens, Tick
  <2>5. CASE ValuationFails
    BY <2>5, FailuresType, NextTickType, TickEndsType DEF ValuationFails, Cloud, Command, Process
  <2>6. CASE Probe
    BY <2>6, TripType, TickersType DEF Probe, Values, Tick
  <2>7. CASE Revalue
    BY <2>7, TripType DEF Revalue, Values, Age, Command, Process, Session, Tick
  <2>8. CASE EndSteps
    BY <2>8, GotoType DEF EndSteps, Places, Session, Tick
  <2>9. CASE Value
    BY <2>9, TripType, NextTickType, TickEndsType DEF Value, Values
  <2> QED
    BY <1>3, <2>1, <2>2, <2>3, <2>4, <2>5, <2>6, <2>7, <2>8, <2>9 DEF RunTick
<1>4. CASE Shutdown
  <2>1. CASE FetchToCancel
    BY <2>1 DEF FetchToCancel, Process, Closing
  <2>2. CASE FetchToCancelFails
    BY <2>2 DEF FetchToCancelFails, Process, Closing
  <2>3. CASE CancelOrder
    BY <2>3, BookType DEF CancelOrder, Process
  <2>4. CASE CancelFails
    <3>1. PICK b \in {book, IF book > 0 THEN book - 1 ELSE 0} : BookIs(b)
      BY <2>4 DEF CancelFails
    <3>2. b \in 0..book /\ b \in 0..MaxBook
      OBVIOUS
    <3>3. run'.at = "cancel" /\ ~ run'.clean
      BY <2>4 DEF CancelFails, Process
    <3> QED
      BY <2>4, <3>1, <3>2, <3>3, BookType DEF CancelFails
  <2>5. CASE Cancelled
    BY <2>5, GotoType DEF Cancelled, Places, Closing
  <2>6. CASE Disarm
    BY <2>6, GotoType DEF Disarm, Places, Closing
  <2>7. CASE End
    BY <2>7, DownType DEF End
  <2> QED
    BY <1>4, <2>1, <2>2, <2>3, <2>4, <2>5, <2>6, <2>7 DEF Shutdown
<1>5. CASE Begin
  BY <1>5, FreshType DEF Begin, Cloud, Age, Command, History
<1>6. CASE Reanchor
  BY <1>6, GotoType, BookType DEF Reanchor, Places, Session, Tick, NoCommand, Command, Refused
<1>7. CASE PlaceOrder
  BY <1>7 DEF PlaceOrder, History
<1>8. CASE Stop
  BY <1>8, NextTickType DEF Stop, Process, Closing
<1>9. CASE Crash
  BY <1>9, DownType DEF Crash
<1>10. CASE UNCHANGED vars
  BY <1>10 DEF vars
<1> QED
  BY <1>1, <1>2, <1>3, <1>4, <1>5, <1>6, <1>7, <1>8, <1>9, <1>10 DEF Next, Start, StartAnyway

(* The gate stays shut on a loss that persists.                            *)
LEMMA GateStep == IInv /\ [Next]_vars => GateOK'
<1> SUFFICES ASSUME IInv, [Next]_vars PROVE GateOK'
  OBVIOUS
<1> USE ConstantsAssumption DEF IInv, TypeOK, At, GateOK, Same, Session, Tick
<1>1. CASE World
  <2>1. CASE PriceMoves
    BY <2>1 DEF PriceMoves, History
  <2>2. CASE OrderLeaves
    BY <2>2, BookType DEF OrderLeaves
  <2>3. CASE TimerRuns
    BY <2>3, BookType DEF TimerRuns
  <2>4. CASE CoolDownEnds
    BY <2>4 DEF CoolDownEnds
  <2>5. CASE BackoffEnds
    BY <2>5 DEF BackoffEnds, Process
  <2>6. CASE Approve
    BY <2>6 DEF Approve, Command, Process
  <2> QED
    BY <1>1, <2>1, <2>2, <2>3, <2>4, <2>5, <2>6 DEF World
<1>2. CASE Loop
  <2>1. CASE Ping
    BY <2>1, GotoType, HeardType, FailuresType DEF Ping, Places, Session, Tick
  <2>2. CASE NoPing
    BY <2>2, GotoType DEF NoPing, Places, Session, Tick
  <2>3. CASE NoWork
    <3>1. run.at = "poll" /\ ghost.since = FALSE
      BY <2>3 DEF NoWork
    <3>2. run'.at = "tick" /\ run'.stale = run.stale
      BY <2>3, GotoType DEF NoWork, Places
    <3> QED
      BY <2>3, <3>1, <3>2 DEF NoWork
  <2>4. CASE RefuseReanchor
    BY <2>4, GotoType DEF RefuseReanchor, Places, Session, Tick, NoCommand, Command, Refused
  <2>5. CASE EndReanchor
    BY <2>5, GotoType DEF EndReanchor, Places, Session, Tick
  <2> QED
    BY <1>2, <2>1, <2>2, <2>3, <2>4, <2>5 DEF Loop
<1>3. CASE RunTick
  <2>1. CASE SkipTick
    BY <2>1, NextTickType DEF SkipTick
  <2>2. CASE BeginTick
    <3>1. run.at = "tick" /\ ghost.since = FALSE
      BY <2>2 DEF BeginTick
    <3>2. run'.at = "opens" /\ run'.stale = run.stale
      BY <2>2, GotoType DEF BeginTick, Places
    <3> QED
      BY <2>2, <3>1, <3>2 DEF BeginTick
  <2>3. CASE FetchOpens
    BY <2>3, HeardType DEF FetchOpens, WithTickers, AfterOpens, History, Process, Session, Tick
  <2>4. CASE FetchFails
    BY <2>4, FailuresType, TickersType DEF FetchFails, AfterOpens, Tick
  <2>5. CASE ValuationFails
    BY <2>5, FailuresType, NextTickType, TickEndsType DEF ValuationFails, Cloud, Command, Process
  <2>6. CASE Probe
    BY <2>6, TripType, TickersType DEF Probe, Values, Tick
  <2>7. CASE Revalue
    <3>1. CASE Trip
      BY <2>7, <3>1, TripType DEF Revalue
    <3>2. CASE run' = [run EXCEPT !.at = "step", !.stale = FALSE]
      <4>1. run'.at = "step" /\ run'.stale = FALSE /\ run'.price = run.price
        BY <3>2 DEF Process
      <4>2. ~ ghost.since \/ Trip
        BY <2>7 DEF Revalue, Values
      <4> QED
        BY <2>7, <3>1, <4>1, <4>2 DEF Revalue
    <3> QED
      BY <2>7, <3>1, <3>2 DEF Revalue
  <2>8. CASE EndSteps
    BY <2>8, GotoType DEF EndSteps, Places, Session, Tick
  <2>9. CASE Value
    BY <2>9, TripType, NextTickType, TickEndsType DEF Value, Values
  <2> QED
    BY <1>3, <2>1, <2>2, <2>3, <2>4, <2>5, <2>6, <2>7, <2>8, <2>9 DEF RunTick
<1>4. CASE Shutdown
  <2>1. CASE FetchToCancel
    BY <2>1 DEF FetchToCancel, Process, Closing
  <2>2. CASE FetchToCancelFails
    BY <2>2 DEF FetchToCancelFails, Process, Closing
  <2>3. CASE CancelOrder
    BY <2>3, BookType DEF CancelOrder, Process
  <2>4. CASE CancelFails
    BY <2>4, BookType DEF CancelFails, Process
  <2>5. CASE Cancelled
    BY <2>5, GotoType DEF Cancelled, Places, Closing
  <2>6. CASE Disarm
    BY <2>6, GotoType DEF Disarm, Places, Closing
  <2>7. CASE End
    BY <2>7, DownType DEF End
  <2> QED
    BY <1>4, <2>1, <2>2, <2>3, <2>4, <2>5, <2>6, <2>7 DEF Shutdown
<1>5. CASE Begin
  BY <1>5, FreshType DEF Begin, Cloud, Age, Command, History
<1>6. CASE Reanchor
  BY <1>6, GotoType, BookType DEF Reanchor, Places, Session, Tick, NoCommand, Command, Refused
<1>7. CASE PlaceOrder
  BY <1>7 DEF PlaceOrder, History
<1>8. CASE Stop
  BY <1>8, NextTickType DEF Stop, Process, Closing
<1>9. CASE Crash
  BY <1>9, DownType DEF Crash
<1>10. CASE UNCHANGED vars
  BY <1>10 DEF vars
<1> QED
  BY <1>1, <1>2, <1>3, <1>4, <1>5, <1>6, <1>7, <1>8, <1>9, <1>10 DEF Next, Start, StartAnyway

(* The floor moves past every clouded approval.                            *)
LEMMA FloorStep == IInv /\ [Next]_vars => FloorOK'
<1> SUFFICES ASSUME IInv, [Next]_vars PROVE FloorOK'
  OBVIOUS
<1> USE ConstantsAssumption DEF IInv, TypeOK, At, FloorOK, Same, Session, Tick
<1>1. CASE World
  <2>1. CASE PriceMoves
    BY <2>1 DEF PriceMoves, History
  <2>2. CASE OrderLeaves
    BY <2>2, BookType DEF OrderLeaves
  <2>3. CASE TimerRuns
    BY <2>3, BookType DEF TimerRuns
  <2>4. CASE CoolDownEnds
    BY <2>4 DEF CoolDownEnds
  <2>5. CASE BackoffEnds
    BY <2>5 DEF BackoffEnds, Process
  <2>6. CASE Approve
    BY <2>6 DEF Approve, Command, Process
  <2> QED
    BY <1>1, <2>1, <2>2, <2>3, <2>4, <2>5, <2>6 DEF World
<1>2. CASE Loop
  <2>1. CASE Ping
    BY <2>1, GotoType, HeardType, FailuresType DEF Ping, Places, Session, Tick
  <2>2. CASE NoPing
    BY <2>2, GotoType DEF NoPing, Places, Session, Tick
  <2>3. CASE NoWork
    BY <2>3, GotoType DEF NoWork, Places, Session, Tick
  <2>4. CASE RefuseReanchor
    BY <2>4, GotoType DEF RefuseReanchor, Places, Session, Tick, NoCommand, Command, Refused
  <2>5. CASE EndReanchor
    BY <2>5, GotoType DEF EndReanchor, Places, Session, Tick
  <2> QED
    BY <1>2, <2>1, <2>2, <2>3, <2>4, <2>5 DEF Loop
<1>3. CASE RunTick
  <2>1. CASE SkipTick
    BY <2>1, NextTickType DEF SkipTick
  <2>2. CASE BeginTick
    BY <2>2, GotoType DEF BeginTick, Places, Session, Tick
  <2>3. CASE FetchOpens
    BY <2>3, HeardType DEF FetchOpens, WithTickers, AfterOpens, History, Process, Session, Tick
  <2>4. CASE FetchFails
    BY <2>4, FailuresType, TickersType DEF FetchFails, AfterOpens, Tick
  <2>5. CASE ValuationFails
    BY <2>5, FailuresType, NextTickType, TickEndsType DEF ValuationFails, Cloud, Command, Process
  <2>6. CASE Probe
    BY <2>6, TripType, TickersType DEF Probe, Values, Tick
  <2>7. CASE Revalue
    BY <2>7, TripType DEF Revalue, Values, Age, Command, Process, Session, Tick
  <2>8. CASE EndSteps
    BY <2>8, GotoType DEF EndSteps, Places, Session, Tick
  <2>9. CASE Value
    BY <2>9, TripType, NextTickType, TickEndsType DEF Value, Values
  <2> QED
    BY <1>3, <2>1, <2>2, <2>3, <2>4, <2>5, <2>6, <2>7, <2>8, <2>9 DEF RunTick
<1>4. CASE Shutdown
  <2>1. CASE FetchToCancel
    BY <2>1 DEF FetchToCancel, Process, Closing
  <2>2. CASE FetchToCancelFails
    BY <2>2 DEF FetchToCancelFails, Process, Closing
  <2>3. CASE CancelOrder
    BY <2>3, BookType DEF CancelOrder, Process
  <2>4. CASE CancelFails
    BY <2>4, BookType DEF CancelFails, Process
  <2>5. CASE Cancelled
    BY <2>5, GotoType DEF Cancelled, Places, Closing
  <2>6. CASE Disarm
    BY <2>6, GotoType DEF Disarm, Places, Closing
  <2>7. CASE End
    BY <2>7, DownType DEF End
  <2> QED
    BY <1>4, <2>1, <2>2, <2>3, <2>4, <2>5, <2>6, <2>7 DEF Shutdown
<1>5. CASE Begin
  BY <1>5, FreshType DEF Begin, Cloud, Age, Command, History
<1>6. CASE Reanchor
  BY <1>6, GotoType, BookType DEF Reanchor, Places, Session, Tick, NoCommand, Command, Refused
<1>7. CASE PlaceOrder
  BY <1>7 DEF PlaceOrder, History
<1>8. CASE Stop
  BY <1>8, NextTickType DEF Stop, Process, Closing
<1>9. CASE Crash
  BY <1>9, DownType DEF Crash
<1>10. CASE UNCHANGED vars
  BY <1>10 DEF vars
<1> QED
  BY <1>1, <1>2, <1>3, <1>4, <1>5, <1>6, <1>7, <1>8, <1>9, <1>10 DEF Next, Start, StartAnyway

-----------------------------------------------------------------------------
(* The inductive invariant holds in every reachable state. *)
THEOREM Inductive == Spec => []IInv
<1>1. IInv /\ [Next]_vars => IInv'
  BY TypeStep, GuardStep, GateStep, FloorStep DEF IInv
<1> QED
  BY <1>1, InitIInv, PTL DEF Spec

(* Every variable has its type. *)
THEOREM TypeCorrect == Spec => []TypeOK
<1>1. IInv => TypeOK
  BY DEF IInv
<1> QED
  BY <1>1, Inductive, PTL

(* Orders placed under a running switch never lie unguarded, whatever the  *)
(* pings, the crash or the shutdown do.                                    *)
THEOREM GuardedOrders == Spec => []OrdersStayGuarded
<1>1. IInv => OrdersStayGuarded
  BY DEF IInv
<1> QED
  BY <1>1, Inductive, PTL

(* No order follows a loss beyond the cap that has lasted a whole tick. *)
THEOREM CapStopsOrders == Spec => NoOrderPastTheCap
<1>1. IInv /\ [Next]_vars => [PlaceOrder => ~ ghost.overdue]_vars
  <2> SUFFICES ASSUME IInv, PlaceOrder PROVE ~ ghost.overdue
    OBVIOUS
  <2>1. run.at \in {"reanchor", "step"}
    BY DEF PlaceOrder, At
  <2> QED
    BY <2>1 DEF IInv, GateOK, Session, Tick
<1> QED
  BY <1>1, Inductive, PTL DEF Spec, NoOrderPastTheCap

(* No re-anchor is executed on an approval the gate's floor has overtaken. *)
THEOREM ApprovalsAreCurrent == Spec => NoCloudedReanchor
<1>1. IInv /\ [Next]_vars =>
        [At("poll") /\ run'.at = "reanchor" => ~ cmd.clouded]_vars
  <2> SUFFICES ASSUME IInv, Next, At("poll"), run'.at = "reanchor"
               PROVE  ~ cmd.clouded
    OBVIOUS
  <2>1. Reanchor
    BY DEF Next, World, PriceMoves, OrderLeaves, TimerRuns, CoolDownEnds, BackoffEnds, Approve,
       Start, StartAnyway, Begin, Loop, Ping, NoPing, NoWork, RefuseReanchor, EndReanchor,
       PlaceOrder, RunTick, SkipTick, BeginTick, FetchOpens, FetchFails, ValuationFails, Probe,
       Revalue, EndSteps, Value, Shutdown, FetchToCancel, FetchToCancelFails, CancelOrder,
       CancelFails, Cancelled, Disarm, End, Stop, Crash, At, Goto, NextTick, Down, Fresh,
       IInv, TypeOK, Process
  <2> QED
    BY <2>1 DEF Reanchor, Refused, IInv, FloorOK, At, Session
<1> QED
  BY <1>1, Inductive, PTL DEF Spec, NoCloudedReanchor
=============================================================================
