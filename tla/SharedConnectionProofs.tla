------------------------ MODULE SharedConnectionProofs ------------------------
(***************************************************************************)
(* A theorem about SharedConnection, for any tasks and connections of      *)
(* which it is true, as it is of claim_pending_command's own connection    *)
(* and of cli/harvest's two loops, that a claim shares its connection only *)
(* with tasks that wait for its cycle.                                     *)
(***************************************************************************)
EXTENDS SharedConnection, FiniteSetTheorems, TLAPS

(* Two tasks on one connection, one of which claims, take turns.           *)
LoopsApart ==
    /\ "none" \notin Tasks /\ "none" \notin Connections
    /\ \A t, u \in Tasks :
          t # u /\ On(t) = On(u) /\ Claimant(t) => t \in CycleTasks /\ u \in CycleTasks

Places == {"idle", "begin", "check", "write", "commit", "settle", "settled", "rollback"}
Rows   == [by : Tasks, n : Nat]
Tables == [saved : SUBSET Rows, claims : SUBSET Rows]

Idle(t) == task[t].pc = "idle"
Is(t, pc) == task[t].pc = pc

TypesOK ==
    /\ file \in Tables /\ draft \in Tables
    /\ task \in [Tasks -> [pc : Places, n : Nat]]
    /\ acked \subseteq Rows
    /\ writer \in up \union {"none"} /\ up \subseteq Connections

(* A row that was acknowledged is not a later one's. *)
PastOK == \A row \in acked : row.n <= task[row.by].n

(* A closed connection has no work, and the lock is held for the whole of  *)
(* a cycle.                                                                *)
TurnsOK ==
    /\ \A t \in Tasks : On(t) \notin up => Idle(t)
    /\ \A t \in Tasks : t \in CycleTasks /\ ~ Idle(t) => cycle = t

(* An open transaction is the work of a task that has not left, and only a *)
(* claim in its last statements has changed the claims.                    *)
WriterOK ==
    writer # "none" =>
        /\ \E t \in Tasks : /\ On(t) = writer
                            /\ task[t].pc \in {"check", "write", "commit", "settled", "rollback"}
        /\ \/ draft.claims = file.claims
           \/ \E t \in Tasks : /\ Claimant(t) /\ On(t) = writer
                               /\ task[t].pc \in {"commit", "settled", "rollback"}

(* What a claim knows at each of its statements.                           *)
ClaimOK ==
    \A t \in Tasks :
        /\ ~ Claimant(t) => task[t].pc \in {"idle", "write", "commit", "rollback"}
        /\ Claimant(t) =>
              /\ Is(t, "check") => writer = On(t) /\ draft.claims = file.claims
              /\ Is(t, "write") => /\ writer = On(t) /\ draft.claims = file.claims
                                   /\ file.claims = {}
              /\ Is(t, "commit") => /\ writer = On(t) /\ draft.claims = {Row(t)}
                                    /\ file.claims = {}
              /\ Is(t, "settled") => /\ writer = On(t)
                                     /\ draft.claims = file.claims \ {Row(t)}

(* The claims of the file: the acknowledged one, and no two.               *)
FileOK ==
    /\ \A t \in Tasks : Claimant(t) /\ Row(t) \in acked => Row(t) \in file.claims
    /\ \A r, s \in file.claims : r = s

IInv == TypesOK /\ PastOK /\ TurnsOK /\ WriterOK /\ ClaimOK /\ FileOK

-----------------------------------------------------------------------------
(* While a claim is at work nobody else is on its connection, and a task   *)
(* that works beside no claim leaves the claims alone.                     *)
LEMMA Alone ==
  ASSUME LoopsApart, IInv, NEW t \in Tasks, NEW u \in Tasks, t # u, On(t) = On(u),
         Claimant(t) \/ Claimant(u), ~ Idle(t)
  PROVE  Idle(u)
BY DEF LoopsApart, IInv, TurnsOK

LEMMA OnConnections == \A t \in Tasks : On(t) \in Connections
BY DEF On, Connections

LEMMA InitIInv == Init => IInv
<1> SUFFICES ASSUME Init PROVE IInv
  OBVIOUS
<1>1. TypesOK
  BY DEF Init, TypesOK, Tables, Rows, Places
<1> QED
  BY <1>1, OnConnections
  DEF Init, IInv, PastOK, TurnsOK, WriterOK, ClaimOK, FileOK, Idle, Is

LEMMA GotoMoves ==
  ASSUME TypesOK, NEW t \in Tasks, NEW pc \in Places, Goto(t, pc)
  PROVE  /\ task' \in [Tasks -> [pc : Places, n : Nat]]
         /\ task'[t].pc = pc /\ task'[t].n = task[t].n
         /\ \A u \in Tasks \ {t} : task'[u] = task[u]
<1>1. task[t] \in [pc : Places, n : Nat]
  BY DEF TypesOK
<1>2. [task[t] EXCEPT !.pc = pc] \in [pc : Places, n : Nat]
  BY <1>1
<1> QED
  BY <1>1, <1>2 DEF Goto, TypesOK

(* The rows of the tasks are as they were, since nobody begins a new call. *)
LEMMA SameRows ==
  ASSUME \A t \in Tasks : task'[t].n = task[t].n
  PROVE  \A t \in Tasks : Row(t)' = Row(t)
BY DEF Row

LEMMA RowType == ASSUME TypesOK, NEW t \in Tasks PROVE Row(t) \in Rows
BY DEF TypesOK, Row, Rows

(* What every step of a task that goes on within its call keeps. *)
LEMMA GoesOn ==
  ASSUME LoopsApart, IInv, NEW t \in Tasks, NEW pc \in Places \ {"idle"}, Goto(t, pc),
         ~ Idle(t), UNCHANGED <<cycle, up>>, acked' = acked
  PROVE  /\ TurnsOK' /\ PastOK'
         /\ \A u \in Tasks : Row(u)' = Row(u)
         /\ task' \in [Tasks -> [pc : Places, n : Nat]]
         /\ task'[t].pc = pc /\ \A u \in Tasks \ {t} : task'[u] = task[u]
<1>1. /\ task' \in [Tasks -> [pc : Places, n : Nat]]
      /\ task'[t].pc = pc /\ task'[t].n = task[t].n
      /\ \A u \in Tasks \ {t} : task'[u] = task[u]
  BY GotoMoves DEF IInv
<1>2. TurnsOK'
  BY <1>1 DEF IInv, TurnsOK, Idle
<1>3. \A u \in Tasks : task'[u].n = task[u].n
  BY <1>1
<1>4. PastOK'
  BY <1>3 DEF IInv, PastOK, TypesOK, Rows
<1>5. \A u \in Tasks : Row(u)' = Row(u)
  BY <1>3, SameRows
<1> QED
  BY <1>1, <1>2, <1>4, <1>5

(* What every step that ends a call keeps. *)
LEMMA Returns ==
  ASSUME LoopsApart, IInv, NEW t \in Tasks, Return(t), up' = up,
         acked' \subseteq acked \union {Row(t)}
  PROVE  /\ TurnsOK' /\ PastOK' /\ acked' \subseteq Rows
         /\ \A u \in Tasks : Row(u)' = Row(u)
         /\ task' \in [Tasks -> [pc : Places, n : Nat]]
         /\ task'[t].pc = "idle" /\ \A u \in Tasks \ {t} : task'[u] = task[u]
<1>1. /\ task' \in [Tasks -> [pc : Places, n : Nat]]
      /\ task'[t].pc = "idle" /\ task'[t].n = task[t].n
      /\ \A u \in Tasks \ {t} : task'[u] = task[u]
  BY GotoMoves DEF IInv, Return, Places
<1>2. TurnsOK'
  BY <1>1 DEF IInv, TurnsOK, Idle, Return
<1>3. \A u \in Tasks : task'[u].n = task[u].n
  BY <1>1
<1>4. PastOK'
  <2>1. \A u \in Tasks : task[u].n \in Nat
    BY DEF IInv, TypesOK
  <2>2. Row(t).by = t /\ Row(t).n = task[t].n
    BY DEF Row
  <2>3. \A row \in acked : row.by \in Tasks
    BY DEF IInv, TypesOK, Rows
  <2> QED
    BY <1>3, <2>1, <2>2, <2>3 DEF IInv, PastOK
<1>5. \A u \in Tasks : Row(u)' = Row(u)
  BY <1>3, SameRows
<1>6. acked' \subseteq Rows
  BY RowType DEF IInv, TypesOK
<1> QED
  BY <1>1, <1>2, <1>4, <1>5, <1>6

LEMMA CallIInv == ASSUME LoopsApart, IInv, NEW t \in Tasks, Call(t) PROVE IInv'
<1> DEFINE r == [pc |-> IF Claimant(t) THEN "begin" ELSE "write", n |-> task[t].n + 1]
<1>1. task[t] \in [pc : Places, n : Nat] /\ task[t].pc = "idle" /\ On(t) \in up
  BY DEF Call, At, IInv, TypesOK
<1>2. r \in [pc : Places, n : Nat] /\ r.pc \in {"begin", "write"} /\ r.n = task[t].n + 1
      /\ r.pc = IF Claimant(t) THEN "begin" ELSE "write"
  BY <1>1 DEF Places
<1>3. task' = [task EXCEPT ![t] = r]
  BY DEF Call
<1> HIDE DEF r
<1>4. /\ task' \in [Tasks -> [pc : Places, n : Nat]] /\ task'[t] = r
      /\ \A u \in Tasks \ {t} : task'[u] = task[u]
  BY <1>2, <1>3 DEF IInv, TypesOK
<1>5. UNCHANGED <<file, writer, draft, acked, up, faults>>
  BY DEF Call
<1>6. TypesOK'
  BY <1>4, <1>5 DEF IInv, TypesOK
<1>7. PastOK' /\ Row(t)' \notin acked
  <2>1. task'[t].n = task[t].n + 1 /\ task[t].n \in Nat
    BY <1>1, <1>2, <1>4
  <2>2. \A row \in acked : row.n \in Nat /\ row.by \in Tasks
    BY DEF IInv, TypesOK, Rows
  <2>3. PastOK'
    BY <1>4, <1>5, <2>1, <2>2 DEF IInv, PastOK
  <2>4. Row(t)'.by = t /\ Row(t)'.n = task[t].n + 1
    BY <2>1 DEF Row
  <2> QED
    BY <2>1, <2>2, <2>3, <2>4 DEF IInv, PastOK
<1>8. \A u \in Tasks \ {t} : Row(u)' = Row(u)
  BY <1>4 DEF Row
<1>9. TurnsOK'
  <2>1. \A u \in Tasks : u \in CycleTasks /\ t \in CycleTasks => Idle(u)
    BY DEF IInv, TurnsOK, Call, Excluded, LoopsApart
  <2> QED
    BY <1>1, <1>4, <1>5, <2>1 DEF Call, IInv, TurnsOK, Idle
<1>10. WriterOK'
  BY <1>1, <1>4, <1>5 DEF IInv, WriterOK
<1>11. ClaimOK'
  BY <1>2, <1>4, <1>5, <1>8 DEF IInv, ClaimOK, Is
<1>12. FileOK'
  BY <1>5, <1>7, <1>8 DEF IInv, FileOK
<1> QED
  BY <1>6, <1>7, <1>9, <1>10, <1>11, <1>12 DEF IInv

LEMMA BeginIInv ==
  ASSUME LoopsApart, IInv, NEW t \in Tasks, Begin(t) PROVE IInv'
<1>1. /\ TurnsOK' /\ PastOK' /\ \A u \in Tasks : Row(u)' = Row(u)
      /\ task' \in [Tasks -> [pc : Places, n : Nat]]
      /\ task'[t].pc = "check" /\ \A u \in Tasks \ {t} : task'[u] = task[u]
  BY GoesOn DEF Begin, At, Idle, Places
<1>2. writer = "none" /\ writer' = On(t) /\ draft' = file /\ UNCHANGED <<file, acked, up>>
      /\ On(t) \in up
  BY DEF Begin, At
<1>3. TypesOK'
  BY <1>1, <1>2 DEF IInv, TypesOK
<1>4. WriterOK'
  BY <1>1, <1>2 DEF WriterOK
<1>5. ClaimOK'
  <2>1. \A u \in Tasks : On(u) # "none"
    BY OnConnections DEF LoopsApart
  <2>2. Claimant(t)
    BY DEF IInv, ClaimOK, Begin, At
  <2> QED
    BY <1>1, <1>2, <2>1, <2>2 DEF IInv, ClaimOK, Is
<1>6. FileOK'
  BY <1>1, <1>2 DEF IInv, FileOK
<1> QED
  BY <1>1, <1>3, <1>4, <1>5, <1>6 DEF IInv

(* No other claim is at a statement that needs the transaction, if t works *)
(* on the connection that has it.                                          *)
LEMMA NoOtherClaim ==
  ASSUME LoopsApart, IInv, NEW t \in Tasks, ~ Idle(t), writer \in {"none", On(t)},
         NEW u \in Tasks, u # t, Claimant(u)
  PROVE  task[u].pc \notin {"check", "write", "commit", "settled"}
<1>1. On(u) # "none"
  BY OnConnections DEF LoopsApart
<1>2. On(u) = On(t) => Idle(u)
  BY Alone
<1> QED
  BY <1>1, <1>2 DEF IInv, ClaimOK, Is, Idle

(* Beside a save the open transaction leaves the claims alone. *)
LEMMA SaverClaims ==
  ASSUME LoopsApart, IInv, NEW t \in Tasks, ~ Idle(t), ~ Claimant(t)
  PROVE  View(On(t)).claims = file.claims
<1>1. CASE writer # On(t)
  BY <1>1 DEF View
<1>2. CASE writer = On(t)
  <2>1. writer # "none"
    BY <1>2, OnConnections DEF LoopsApart
  <2>2. ASSUME NEW u \in Tasks, Claimant(u), On(u) = writer PROVE Idle(u)
    BY <1>2, <2>2, Alone
  <2> QED
    BY <1>2, <2>1, <2>2 DEF IInv, WriterOK, View, Idle
<1> QED
  BY <1>1, <1>2

LEMMA CheckIInv == ASSUME LoopsApart, IInv, NEW t \in Tasks, Check(t) PROVE IInv'
<1> DEFINE pc == IF View(On(t)).claims = {} THEN "write" ELSE "rollback"
<1>1. Claimant(t) /\ writer = On(t) /\ draft.claims = file.claims /\ task[t].pc = "check"
  BY DEF Check, At, IInv, ClaimOK, Is
<1>2. /\ TurnsOK' /\ PastOK' /\ \A u \in Tasks : Row(u)' = Row(u)
      /\ task' \in [Tasks -> [pc : Places, n : Nat]]
      /\ task'[t].pc = pc /\ \A u \in Tasks \ {t} : task'[u] = task[u]
  <2>1. pc \in Places \ {"idle"} /\ Goto(t, pc)
    BY DEF Check, Places
  <2> HIDE DEF pc
  <2> QED
    BY <1>1, <2>1, GoesOn DEF Check, Idle
<1>3. UNCHANGED <<file, writer, draft, acked, up>>
  BY DEF Check
<1>4. pc = "write" => file.claims = {}
  BY <1>1 DEF View
<1>5. pc \in {"write", "rollback"}
  OBVIOUS
<1> HIDE DEF pc
<1>6. TypesOK' /\ WriterOK' /\ FileOK'
  BY <1>1, <1>2, <1>3, <1>5 DEF IInv, TypesOK, WriterOK, FileOK
<1>7. ClaimOK'
  BY <1>1, <1>2, <1>3, <1>4, <1>5 DEF IInv, ClaimOK, Is
<1> QED
  BY <1>2, <1>6, <1>7 DEF IInv

LEMMA WriteIInv == ASSUME LoopsApart, IInv, NEW t \in Tasks, Write(t) PROVE IInv'
<1>1. task[t].pc = "write" /\ On(t) \in up /\ writer \in {"none", On(t)}
  BY DEF Write, At, MayWrite
<1>2. /\ TurnsOK' /\ PastOK' /\ \A u \in Tasks : Row(u)' = Row(u)
      /\ task' \in [Tasks -> [pc : Places, n : Nat]]
      /\ task'[t].pc = "commit" /\ \A u \in Tasks \ {t} : task'[u] = task[u]
  BY <1>1, GoesOn DEF Write, Idle, Places
<1>3. writer' = On(t) /\ UNCHANGED <<file, acked, up>>
  BY DEF Write
<1>4. View(On(t)) \in Tables
  BY DEF View, IInv, TypesOK
<1>5. /\ draft' \in Tables
      /\ draft'.claims = IF Claimant(t) THEN {Row(t)} ELSE file.claims
  <2>1. CASE Claimant(t)
    <3>1. View(On(t)).claims = {}
      BY <1>1, <2>1 DEF IInv, ClaimOK, Is, View
    <3>2. draft' = [View(On(t)) EXCEPT !.claims = @ \union {Row(t)}]
      BY <2>1 DEF Write
    <3>3. Row(t) \in Rows
      BY RowType DEF IInv
    <3> QED
      BY <1>4, <2>1, <3>1, <3>2, <3>3 DEF Tables
  <2>2. CASE ~ Claimant(t)
    <3>1. View(On(t)).claims = file.claims
      BY <1>1, <2>2, SaverClaims DEF Idle
    <3>2. draft' = [View(On(t)) EXCEPT !.saved = @ \union {Row(t)}]
      BY <2>2 DEF Write
    <3>3. Row(t) \in Rows
      BY RowType DEF IInv
    <3> QED
      BY <1>4, <2>2, <3>1, <3>2, <3>3 DEF Tables
  <2> QED
    BY <2>1, <2>2
<1>6. TypesOK'
  BY <1>1, <1>2, <1>3, <1>5 DEF IInv, TypesOK
<1>7. WriterOK'
  BY <1>2, <1>3, <1>5 DEF WriterOK
<1>8. Claimant(t) => file.claims = {}
  BY <1>1 DEF IInv, ClaimOK, Is
<1>9. ClaimOK'
  <2>1. ASSUME NEW u \in Tasks, u # t, Claimant(u)
        PROVE  task'[u].pc \notin {"check", "write", "commit", "settled"}
    BY <1>1, <1>2, <2>1, NoOtherClaim DEF Idle
  <2> QED
    BY <1>2, <1>3, <1>5, <1>8, <2>1 DEF IInv, ClaimOK, Is
<1>10. FileOK'
  BY <1>2, <1>3 DEF IInv, FileOK
<1> QED
  BY <1>2, <1>6, <1>7, <1>9, <1>10 DEF IInv

LEMMA CommitType ==
  ASSUME LoopsApart, IInv, NEW t \in Tasks, Commit(t), UNCHANGED up
  PROVE  /\ file' \in Tables /\ draft' = draft
         /\ writer' \in up \union {"none"} /\ writer' # On(t)
         /\ writer' = writer \/ (writer = On(t) /\ writer' = "none")
BY OnConnections DEF Commit, View, IInv, TypesOK, LoopsApart

(* After a step that ends t's call, the transaction of another connection  *)
(* is still somebody else's work.                                          *)
LEMMA WriterAfter ==
  ASSUME IInv, NEW t \in Tasks, file'.claims = file.claims \/ writer' = "none",
         draft' = draft, writer' # On(t), writer' \in {writer, "none"},
         \A u \in Tasks \ {t} : task'[u] = task[u]
  PROVE  WriterOK'
BY DEF IInv, WriterOK

LEMMA CommitSaveIInv == ASSUME LoopsApart, IInv, NEW t \in Tasks, CommitSave(t) PROVE IInv'
<1>1. task[t].pc = "commit" /\ ~ Claimant(t) /\ Commit(t) /\ UNCHANGED up
      /\ acked' = acked \union {Row(t)}
  BY DEF CommitSave, At
<1>2. /\ TurnsOK' /\ PastOK' /\ acked' \subseteq Rows /\ \A u \in Tasks : Row(u)' = Row(u)
      /\ task' \in [Tasks -> [pc : Places, n : Nat]]
      /\ task'[t].pc = "idle" /\ \A u \in Tasks \ {t} : task'[u] = task[u]
  BY <1>1, Returns DEF CommitSave
<1>3. /\ file' \in Tables /\ draft' = draft
      /\ writer' \in up \union {"none"} /\ writer' # On(t)
      /\ writer' = writer \/ (writer = On(t) /\ writer' = "none")
  BY <1>1, CommitType
<1>4. file'.claims = file.claims
  BY <1>1, SaverClaims DEF Commit, Idle
<1>5. TypesOK'
  BY <1>1, <1>2, <1>3 DEF IInv, TypesOK
<1>6. WriterOK'
  BY <1>2, <1>3, <1>4, WriterAfter
<1>7. ClaimOK'
  <2>1. ASSUME NEW u \in Tasks, u # t, Claimant(u), writer' # writer
        PROVE  task'[u].pc \notin {"check", "write", "commit", "settled"}
    BY <1>1, <1>2, <1>3, <2>1, NoOtherClaim DEF Idle
  <2> QED
    BY <1>1, <1>2, <1>3, <1>4, <2>1 DEF IInv, ClaimOK, Is
<1>8. FileOK'
  <2>1. \A u \in Tasks : Claimant(u) => Row(u) # Row(t)
    BY <1>1 DEF Row
  <2> QED
    BY <1>1, <1>2, <1>4, <2>1 DEF IInv, FileOK
<1> QED
  BY <1>2, <1>5, <1>6, <1>7, <1>8 DEF IInv

LEMMA CommitClaimIInv ==
  ASSUME LoopsApart, IInv, NEW t \in Tasks, CommitClaim(t) PROVE IInv'
<1>1. /\ task[t].pc = "commit" /\ Claimant(t) /\ Commit(t) /\ UNCHANGED up
      /\ acked' = acked \union {Row(t)} /\ On(t) \in up
  BY DEF CommitClaim, At
<1>2. writer = On(t) /\ draft.claims = {Row(t)} /\ file.claims = {}
  BY <1>1 DEF IInv, ClaimOK, Is
<1>3. /\ file' \in Tables /\ draft' = draft /\ writer' = "none" /\ file'.claims = {Row(t)}
  BY <1>1, <1>2, CommitType DEF Commit, View
<1>4. /\ TurnsOK' /\ PastOK' /\ acked' \subseteq Rows /\ \A u \in Tasks : Row(u)' = Row(u)
      /\ task' \in [Tasks -> [pc : Places, n : Nat]]
      /\ task'[t].pc \in {"idle", "settle"} /\ \A u \in Tasks \ {t} : task'[u] = task[u]
  <2>1. CASE Kind[t] = "reserve"
    <3>1. Goto(t, "settle") /\ UNCHANGED cycle
      BY <2>1 DEF CommitClaim
    <3>2. /\ task' \in [Tasks -> [pc : Places, n : Nat]]
          /\ task'[t].pc = "settle" /\ task'[t].n = task[t].n
          /\ \A u \in Tasks \ {t} : task'[u] = task[u]
      BY <3>1, GotoMoves DEF IInv, Places
    <3>3. TurnsOK'
      BY <1>1, <3>1, <3>2 DEF IInv, TurnsOK, Idle
    <3>4. \A u \in Tasks : task'[u].n = task[u].n
      BY <3>2
    <3>5. PastOK'
      <4>1. \A u \in Tasks : task[u].n \in Nat
        BY DEF IInv, TypesOK
      <4>2. Row(t).by = t /\ Row(t).n = task[t].n
        BY DEF Row
      <4>3. \A row \in acked : row.by \in Tasks
        BY DEF IInv, TypesOK, Rows
      <4> QED
        BY <1>1, <3>4, <4>1, <4>2, <4>3 DEF IInv, PastOK
    <3>6. \A u \in Tasks : Row(u)' = Row(u)
      BY <3>4, SameRows
    <3>7. acked' \subseteq Rows
      BY <1>1, RowType DEF IInv, TypesOK
    <3> QED
      BY <3>2, <3>3, <3>5, <3>6, <3>7
  <2>2. CASE Kind[t] # "reserve"
    BY <1>1, <2>2, Returns DEF CommitClaim
  <2> QED
    BY <2>1, <2>2
<1>5. TypesOK' /\ WriterOK'
  BY <1>1, <1>3, <1>4 DEF IInv, TypesOK, WriterOK
<1>6. ClaimOK'
  <2>1. ASSUME NEW u \in Tasks, u # t, Claimant(u)
        PROVE  task'[u].pc \notin {"check", "write", "commit", "settled"}
    BY <1>1, <1>2, <1>4, <2>1, NoOtherClaim DEF Idle
  <2> QED
    BY <1>1, <1>4, <2>1 DEF IInv, ClaimOK, Is
<1>7. FileOK'
  BY <1>1, <1>2, <1>3, <1>4 DEF IInv, FileOK
<1> QED
  BY <1>4, <1>5, <1>6, <1>7 DEF IInv

LEMMA SettleIInv == ASSUME LoopsApart, IInv, NEW t \in Tasks, Settle(t) PROVE IInv'
<1>1. task[t].pc = "settle" /\ Claimant(t) /\ writer \in {"none", On(t)} /\ On(t) \in up
  BY DEF Settle, At, MayWrite, IInv, ClaimOK
<1>2. writer = "none" /\ View(On(t)) = file
  <2>1. ASSUME writer = On(t) PROVE FALSE
    <3>1. writer # "none"
      BY <2>1, OnConnections DEF LoopsApart
    <3>2. PICK u \in Tasks :
            /\ On(u) = writer
            /\ task[u].pc \in {"check", "write", "commit", "settled", "rollback"}
      BY <3>1 DEF IInv, WriterOK
    <3> QED
      BY <1>1, <2>1, <3>2, Alone DEF Idle
  <2> QED
    BY <1>1, <2>1, OnConnections DEF View, LoopsApart
<1>3. UNCHANGED <<file, cycle, acked, up>>
  BY DEF Settle
<1>4. CASE Row(t) \in file.claims
  <2>1. writer' = On(t) /\ draft' = [file EXCEPT !.claims = @ \ {Row(t)}] /\ Goto(t, "settled")
    BY <1>2, <1>4 DEF Settle
  <2>2. /\ TurnsOK' /\ PastOK' /\ \A u \in Tasks : Row(u)' = Row(u)
        /\ task' \in [Tasks -> [pc : Places, n : Nat]]
        /\ task'[t].pc = "settled" /\ \A u \in Tasks \ {t} : task'[u] = task[u]
    BY <1>1, <1>3, <2>1, GoesOn DEF Idle, Places
  <2>3. draft' \in Tables /\ draft'.claims = file.claims \ {Row(t)}
    BY <2>1 DEF IInv, TypesOK, Tables
  <2>4. TypesOK' /\ FileOK'
    BY <1>1, <1>3, <2>1, <2>2, <2>3 DEF IInv, TypesOK, FileOK
  <2>5. WriterOK'
    BY <1>1, <2>1, <2>2 DEF WriterOK
  <2>6. ClaimOK'
    <3>1. ASSUME NEW u \in Tasks, u # t, Claimant(u)
          PROVE  task'[u].pc \notin {"check", "write", "commit", "settled"}
      BY <1>1, <2>2, <3>1, NoOtherClaim DEF Idle
    <3> QED
      BY <1>1, <1>3, <2>1, <2>2, <2>3, <3>1 DEF IInv, ClaimOK, Is
  <2> QED
    BY <2>2, <2>4, <2>5, <2>6 DEF IInv
<1>5. CASE Row(t) \notin file.claims
  <2>1. UNCHANGED <<writer, draft>> /\ Goto(t, "rollback")
    BY <1>2, <1>5 DEF Settle
  <2>2. /\ TurnsOK' /\ PastOK' /\ \A u \in Tasks : Row(u)' = Row(u)
        /\ task' \in [Tasks -> [pc : Places, n : Nat]]
        /\ task'[t].pc = "rollback" /\ \A u \in Tasks \ {t} : task'[u] = task[u]
    BY <1>1, <1>3, <2>1, GoesOn DEF Idle, Places
  <2>3. TypesOK' /\ FileOK' /\ WriterOK'
    BY <1>2, <1>3, <2>1, <2>2 DEF IInv, TypesOK, FileOK, WriterOK
  <2>4. ClaimOK'
    BY <1>1, <1>3, <2>1, <2>2 DEF IInv, ClaimOK, Is
  <2> QED
    BY <2>2, <2>3, <2>4 DEF IInv
<1> QED
  BY <1>4, <1>5

LEMMA CommitSettledIInv ==
  ASSUME LoopsApart, IInv, NEW t \in Tasks, CommitSettled(t) PROVE IInv'
<1>1. /\ task[t].pc = "settled" /\ Claimant(t) /\ Commit(t) /\ UNCHANGED up
      /\ acked' = acked \ {Row(t)}
  BY DEF CommitSettled, At, IInv, ClaimOK
<1>2. writer = On(t) /\ draft.claims = file.claims \ {Row(t)}
  BY <1>1 DEF IInv, ClaimOK, Is
<1>3. /\ file' \in Tables /\ draft' = draft /\ writer' = "none"
      /\ file'.claims = file.claims \ {Row(t)}
  BY <1>1, <1>2, CommitType DEF Commit, View
<1>4. /\ TurnsOK' /\ PastOK' /\ acked' \subseteq Rows /\ \A u \in Tasks : Row(u)' = Row(u)
      /\ task' \in [Tasks -> [pc : Places, n : Nat]]
      /\ task'[t].pc = "idle" /\ \A u \in Tasks \ {t} : task'[u] = task[u]
  BY <1>1, Returns DEF CommitSettled
<1>5. TypesOK' /\ WriterOK'
  BY <1>1, <1>3, <1>4 DEF IInv, TypesOK, WriterOK
<1>6. ClaimOK'
  <2>1. ASSUME NEW u \in Tasks, u # t, Claimant(u)
        PROVE  task'[u].pc \notin {"check", "write", "commit", "settled"}
    BY <1>1, <1>2, <1>4, <2>1, NoOtherClaim DEF Idle
  <2> QED
    BY <1>1, <1>4, <2>1 DEF IInv, ClaimOK, Is
<1>7. FileOK'
  BY <1>1, <1>3, <1>4 DEF IInv, FileOK
<1> QED
  BY <1>4, <1>5, <1>6, <1>7 DEF IInv

LEMMA FailIInv == ASSUME LoopsApart, IInv, NEW t \in Tasks, Fail(t) PROVE IInv'
<1>1. ~ Idle(t) /\ UNCHANGED <<file, writer, draft, cycle, acked, up>> /\ Goto(t, "rollback")
  BY DEF Fail, At, Idle
<1>2. /\ TurnsOK' /\ PastOK' /\ \A u \in Tasks : Row(u)' = Row(u)
      /\ task' \in [Tasks -> [pc : Places, n : Nat]]
      /\ task'[t].pc = "rollback" /\ \A u \in Tasks \ {t} : task'[u] = task[u]
  BY <1>1, GoesOn DEF Places
<1>3. TypesOK' /\ FileOK' /\ WriterOK'
  BY <1>1, <1>2 DEF IInv, TypesOK, FileOK, WriterOK
<1>4. ClaimOK'
  BY <1>1, <1>2 DEF IInv, ClaimOK, Is
<1> QED
  BY <1>2, <1>3, <1>4 DEF IInv

LEMMA RollbackIInv == ASSUME LoopsApart, IInv, NEW t \in Tasks, Rollback(t) PROVE IInv'
<1>1. /\ task[t].pc = "rollback" /\ UNCHANGED <<file, draft, acked, up>>
      /\ writer' = IF writer = On(t) THEN "none" ELSE writer
  BY DEF Rollback, At
<1>2. /\ TurnsOK' /\ PastOK' /\ acked' \subseteq Rows /\ \A u \in Tasks : Row(u)' = Row(u)
      /\ task' \in [Tasks -> [pc : Places, n : Nat]]
      /\ task'[t].pc = "idle" /\ \A u \in Tasks \ {t} : task'[u] = task[u]
  BY <1>1, Returns DEF Rollback
<1>3. writer' # On(t) /\ writer' \in {writer, "none"}
  BY <1>1, OnConnections DEF LoopsApart
<1>4. TypesOK' /\ FileOK' /\ WriterOK'
  BY <1>1, <1>2, <1>3, WriterAfter DEF IInv, TypesOK, FileOK
<1>5. ClaimOK'
  <2>1. ASSUME NEW u \in Tasks, u # t, Claimant(u), writer' # writer
        PROVE  task'[u].pc \notin {"check", "write", "commit", "settled"}
    BY <1>1, <1>2, <2>1, NoOtherClaim DEF Idle
  <2> QED
    BY <1>1, <1>2, <2>1 DEF IInv, ClaimOK, Is
<1> QED
  BY <1>2, <1>4, <1>5 DEF IInv

LEMMA DieIInv == ASSUME LoopsApart, IInv, NEW c \in Connections, Die(c) PROVE IInv'
<1>1. /\ UNCHANGED <<file, draft, acked>> /\ up' = up \ {c} /\ c \in up
      /\ writer' = IF writer = c THEN "none" ELSE writer
      /\ cycle' = IF cycle # "none" /\ Connection[cycle] = c THEN "none" ELSE cycle
      /\ task' = [t \in Tasks |-> IF On(t) = c THEN [task[t] EXCEPT !.pc = "idle"] ELSE task[t]]
  BY DEF Die
<1>2. ASSUME NEW t \in Tasks
      PROVE  /\ task'[t] \in [pc : Places, n : Nat] /\ task'[t].n = task[t].n
             /\ IF On(t) = c THEN task'[t].pc = "idle" ELSE task'[t] = task[t]
  <2>1. task[t] \in [pc : Places, n : Nat]
    BY DEF IInv, TypesOK
  <2>2. [task[t] EXCEPT !.pc = "idle"] \in [pc : Places, n : Nat]
    BY <2>1 DEF Places
  <2> QED
    BY <1>1, <2>1, <2>2
<1>3. task' \in [Tasks -> [pc : Places, n : Nat]]
  BY <1>1, <1>2
<1>4. \A u \in Tasks : Row(u)' = Row(u)
  BY <1>2, SameRows
<1>5. "none" \notin up /\ c # "none"
  BY <1>1 DEF IInv, TypesOK, LoopsApart
<1>6. TypesOK'
  BY <1>1, <1>3 DEF IInv, TypesOK
<1>7. PastOK' /\ FileOK'
  BY <1>1, <1>2, <1>4 DEF IInv, PastOK, FileOK, TypesOK, Rows
<1>8. TurnsOK'
  BY <1>1, <1>2 DEF IInv, TurnsOK, Idle, On
<1>9. WriterOK'
  BY <1>1, <1>2, <1>5 DEF IInv, WriterOK
<1>10. ClaimOK'
  BY <1>1, <1>2, <1>4 DEF IInv, ClaimOK, Is
<1> QED
  BY <1>6, <1>7, <1>8, <1>9, <1>10 DEF IInv

LEMMA ConnectIInv ==
  ASSUME LoopsApart, IInv, NEW c \in Connections, Connect(c) PROVE IInv'
<1>1. /\ UNCHANGED <<file, writer, draft, task, cycle, acked>>
      /\ up \subseteq up' /\ up' \subseteq up \union {c}
  BY DEF Connect
<1>2. \A u \in Tasks : Row(u)' = Row(u)
  BY <1>1 DEF Row
<1>3. TypesOK'
  BY <1>1 DEF IInv, TypesOK
<1>4. PastOK' /\ FileOK'
  BY <1>1, <1>2 DEF IInv, PastOK, FileOK
<1>5. TurnsOK' /\ WriterOK' /\ ClaimOK'
  BY <1>1, <1>2 DEF IInv, TurnsOK, WriterOK, ClaimOK, Idle, Is
<1> QED
  BY <1>3, <1>4, <1>5 DEF IInv

LEMMA StutterIInv == ASSUME IInv, UNCHANGED vars PROVE IInv'
<1>1. \A u \in Tasks : Row(u)' = Row(u)
  BY DEF Row, vars
<1> QED
  BY <1>1 DEF vars, IInv, TypesOK, PastOK, TurnsOK, WriterOK, ClaimOK, FileOK, Idle, Is

-----------------------------------------------------------------------------
(* The invariant holds whatever statement fails and whichever process      *)
(* dies.                                                                   *)
THEOREM InvariantHolds == ASSUME LoopsApart PROVE Spec => []IInv
<1>1. Init => IInv
  BY InitIInv
<1>2. IInv /\ [Next]_vars => IInv'
  <2> SUFFICES ASSUME IInv, [Next]_vars PROVE IInv'
    OBVIOUS
  <2>1. ASSUME NEW t \in Tasks,
               Call(t) \/ Begin(t) \/ Check(t) \/ Write(t) \/ CommitSave(t) \/ CommitClaim(t)
                 \/ Settle(t) \/ CommitSettled(t) \/ Fail(t) \/ Rollback(t)
        PROVE  IInv'
    BY <2>1, CallIInv, BeginIInv, CheckIInv, WriteIInv, CommitSaveIInv, CommitClaimIInv,
       SettleIInv, CommitSettledIInv, FailIInv, RollbackIInv
  <2>2. ASSUME NEW c \in Connections, Die(c) \/ Connect(c) PROVE IInv'
    BY <2>2, DieIInv, ConnectIInv
  <2>3. CASE UNCHANGED vars
    BY <2>3, StutterIInv
  <2> QED
    BY <2>1, <2>2, <2>3 DEF Next
<1> QED
  BY <1>1, <1>2, PTL DEF Spec

LEMMA AtMostOne ==
  ASSUME NEW S, \A r, s \in S : r = s PROVE Cardinality(S) <= 1
<1>1. CASE S = {}
  BY <1>1, FS_EmptySet
<1>2. CASE S # {}
  <2>1. PICK r : S = {r}
    BY <1>2
  <2> QED
    BY <2>1, FS_Singleton
<1> QED
  BY <1>1, <1>2

(* A claim whose save has returned (claim_pending_command,                 *)
(* reserve_withdrawal) is in the file until its owner settles it, and      *)
(* alone there: no rollback of an unrelated task erases it.                *)
THEOREM ClaimsAreKept == ASSUME LoopsApart PROVE Spec => []ClaimsHold
<1>1. IInv => ClaimsHold
  BY AtMostOne DEF IInv, FileOK, ClaimsHold
<1> QED
  BY <1>1, InvariantHolds, PTL
=============================================================================
