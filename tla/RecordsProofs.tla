---------------------------- MODULE RecordsProofs ----------------------------
(***************************************************************************)
(* Theorems about Withdrawal and the other parts of Records, for any       *)
(* number of proposals, executors, claims, retries, databases, daemons,    *)
(* symbols, amounts and intervals, and lists and pages of any length.      *)
(*                                                                         *)
(* Each part has an inductive invariant of its own, in the order: the      *)
(* withdrawals and their daily cap, the backups and the retention, the     *)
(* sessions, the migration, the walks over Kraken's lists.  A name of one  *)
(* part is not used in another but for the lemmas on sums, which the caps  *)
(* and the walks share.                                                    *)
(***************************************************************************)
EXTENDS Records, FiniteSums, FiniteSetTheorems, SequenceTheorems

-----------------------------------------------------------------------------
(* The withdrawals.  The inductive invariant adds to the properties what   *)
(* an executor between its reservation and its report knows, and what an   *)
(* unread answer says about the money.                                     *)

(* An executor past its reservation holds a reserved row, and is alone in  *)
(* doing so: the reservation required that nothing be unresolved.          *)
HoldersOwnReservedRow ==
    \A e \in Executors :
        exec[e].pc \in ClaimSteps =>
            exec[e].claim \in ClaimIds /\ rows[exec[e].claim].state = "reserved"

OneHolder ==
    \A e, f \in Executors :
        exec[e].pc \in ClaimSteps /\ exec[f].pc \in ClaimSteps => e = f

(* A claim is paid or in the network at most once, a row that is absent or *)
(* rejected neither, an accepted row is paid, and an answer is true.       *)
MoneyInv ==
    \A i \in ClaimIds :
        /\ moved[i] + inflight[i] <= 1
        /\ rows[i].state \in {"absent", "rejected"} => moved[i] = 0 /\ inflight[i] = 0
        /\ rows[i].state = "absent" => reply[i] = "none"
        /\ rows[i].state # "absent" => rows[i].proposal \in Proposals
        /\ rows[i].state = "accepted" => moved[i] = 1
        /\ reply[i] = "refid" => moved[i] = 1
        /\ reply[i] \in {"error", "limited"} => moved[i] = 0 /\ inflight[i] = 0

(* What the position of an executor says about its claim. *)
StepInv ==
    \A e \in Executors :
        LET i == exec[e].claim IN
        /\ exec[e].pc \notin ClaimSteps => exec[e].sent = 0
        /\ exec[e].pc # "idle" => exec[e].proposal \in Proposals
        /\ exec[e].pc = "submit" =>
              /\ exec[e].sent < MaxSends
              /\ moved[i] = 0 /\ inflight[i] = 0 /\ reply[i] = "none"
        /\ exec[e].pc = "recordAccepted" => moved[i] = 1
        /\ exec[e].pc = "recordRejected" => moved[i] = 0 /\ inflight[i] = 0

(* Two rows that block the same proposal are one row. *)
OneBlockingRow ==
    \A i, j \in ClaimIds :
        /\ rows[i].state \notin {"absent", "rejected"}
        /\ rows[j].state \notin {"absent", "rejected"}
        /\ rows[i].proposal = rows[j].proposal
        => i = j

IInv ==
    /\ TypeOK
    /\ OneUnresolvedClaim
    /\ HoldersOwnReservedRow
    /\ OneHolder
    /\ MoneyInv
    /\ StepInv
    /\ OneBlockingRow

-----------------------------------------------------------------------------
(* The initial states satisfy the invariant. *)
LEMMA InitIInv == Init => IInv
  BY ConstantsAssumption
  DEF Init, IInv, TypeOK, OneUnresolvedClaim, HoldersOwnReservedRow, OneHolder,
      MoneyInv, StepInv, OneBlockingRow, Row, Local, Steps, Open, Settled,
      ClaimSteps, Idle, NoRow

(* Updating the program counter of one executor keeps its record typed. *)
LEMMA GotoType ==
  ASSUME TypeOK, NEW e \in Executors, NEW step \in Steps, Goto(e, step)
  PROVE  /\ exec' \in [Executors -> Local]
         /\ exec'[e].pc = step
         /\ exec'[e].claim = exec[e].claim
         /\ exec'[e].proposal = exec[e].proposal
         /\ exec'[e].sent = exec[e].sent
         /\ \A f \in Executors \ {e} : exec'[f] = exec[f]
<1>1. exec[e] \in Local
  BY DEF TypeOK
<1>2. [exec[e] EXCEPT !.pc = step] \in Local
  BY <1>1 DEF Local
<1>3. exec' = [exec EXCEPT ![e] = [exec[e] EXCEPT !.pc = step]]
  BY DEF Goto
<1>4. exec' \in [Executors -> Local]
  BY <1>2, <1>3 DEF TypeOK
<1>5. /\ exec'[e] = [exec[e] EXCEPT !.pc = step]
      /\ \A f \in Executors \ {e} : exec'[f] = exec[f]
  BY <1>3 DEF TypeOK
<1> QED
  BY <1>1, <1>4, <1>5 DEF Local

(* An executor that ends a step outside the claim steps disturbs nothing:  *)
(* it may come from anywhere, and answers may be dropped on the way.       *)
LEMMA OutsideClaim ==
  ASSUME IInv, NEW e \in Executors, NEW v \in Local,
         v.pc \notin ClaimSteps, v.sent = 0,
         v.pc # "idle" => v.proposal \in Proposals,
         exec' = [exec EXCEPT ![e] = v],
         reply' \in [ClaimIds -> {"none", "refid", "error", "limited"}],
         \A i \in ClaimIds : reply'[i] \in {reply[i], "none"},
         UNCHANGED <<now, rows, inflight, moved>>
  PROVE  IInv'
<1>1. TypeOK'
  BY DEF IInv, TypeOK
<1>2. OneUnresolvedClaim' /\ OneBlockingRow'
  BY DEF IInv, OneUnresolvedClaim, OneBlockingRow
<1>3. /\ exec'[e] = v
      /\ \A f \in Executors \ {e} : exec'[f] = exec[f]
  BY DEF IInv, TypeOK
<1>4. HoldersOwnReservedRow' /\ OneHolder'
  BY <1>3 DEF IInv, HoldersOwnReservedRow, OneHolder
<1>5. MoneyInv'
  BY DEF IInv, MoneyInv
<1>6. StepInv'
  <2> SUFFICES ASSUME NEW f \in Executors, f # e, exec[f].pc = "submit"
               PROVE  reply'[exec[f].claim] = "none"
    BY <1>3 DEF IInv, StepInv, ClaimSteps
  <2>1. exec[f].claim \in ClaimIds
    BY DEF IInv, HoldersOwnReservedRow, ClaimSteps
  <2> QED
    BY <2>1 DEF IInv, StepInv
<1> QED
  BY <1>1, <1>2, <1>4, <1>5, <1>6 DEF IInv

(* An executor that has read an answer, or given up on it, goes to a claim *)
(* step whose knowledge about the money is true.                           *)
LEMMA AfterAnswer ==
  ASSUME IInv, NEW e \in Executors, NEW step \in ClaimSteps,
         exec[e].pc = "await",
         Goto(e, step), Discard(exec[e].claim),
         step = "submit" => /\ exec[e].sent < MaxSends
                            /\ moved[exec[e].claim] = 0
                            /\ inflight[exec[e].claim] = 0,
         step = "recordAccepted" => moved[exec[e].claim] = 1,
         step = "recordRejected" => moved[exec[e].claim] = 0 /\ inflight[exec[e].claim] = 0,
         UNCHANGED <<now, rows, inflight, moved>>
  PROVE  IInv'
<1>1. /\ exec' \in [Executors -> Local]
      /\ exec'[e].pc = step
      /\ exec'[e].claim = exec[e].claim
      /\ exec'[e].proposal = exec[e].proposal
      /\ exec'[e].sent = exec[e].sent
      /\ \A f \in Executors \ {e} : exec'[f] = exec[f]
  BY GotoType DEF IInv, ClaimSteps, Steps
<1>2. \A f \in Executors : exec'[f].pc \in ClaimSteps => exec[f].pc \in ClaimSteps
  BY <1>1 DEF ClaimSteps
<1>3. TypeOK'
  BY <1>1 DEF IInv, TypeOK, Discard
<1>4. OneUnresolvedClaim' /\ OneBlockingRow'
  BY DEF IInv, OneUnresolvedClaim, OneBlockingRow
<1>5. HoldersOwnReservedRow' /\ OneHolder'
  BY <1>1, <1>2 DEF IInv, HoldersOwnReservedRow, OneHolder, ClaimSteps
<1>6. MoneyInv'
  BY DEF IInv, MoneyInv, Discard
<1>7. StepInv'
  BY <1>1, <1>2 DEF IInv, StepInv, HoldersOwnReservedRow, OneHolder, ClaimSteps, Discard
<1> QED
  BY <1>3, <1>4, <1>5, <1>6, <1>7 DEF IInv
-----------------------------------------------------------------------------
(* One lemma per group of actions: each preserves the invariant. *)

LEMMA TickStep == IInv /\ Tick => IInv'
  BY DEF Tick, IInv, TypeOK, OneUnresolvedClaim, HoldersOwnReservedRow, OneHolder,
         MoneyInv, StepInv, OneBlockingRow

(* The gates, the day-cap check and a refusal leave the executor outside   *)
(* the claim steps.                                                        *)
LEMMA GateStep ==
  ASSUME IInv, NEW e \in Executors,
         \/ \E p \in Proposals : Begin(e, p)
         \/ ReadBalance(e) \/ CheckDayCap(e) \/ StampClaim(e) \/ Refuse(e)
  PROVE  IInv'
<1> USE ConstantsAssumption DEF IInv, TypeOK, Local, Steps, ClaimSteps, Idle
<1>1. CASE \E p \in Proposals : Begin(e, p)
  <2>1. PICK p \in Proposals : Begin(e, p)
    BY <1>1
  <2> DEFINE v == [pc |-> "balance", proposal |-> p,
                   claim |-> NoClaim, ts |-> 0, sent |-> 0]
  <2>2. v \in Local /\ v.pc \notin ClaimSteps /\ v.sent = 0 /\ v.proposal \in Proposals
    OBVIOUS
  <2>3. exec' = [exec EXCEPT ![e] = v] /\ UNCHANGED <<now, rows, inflight, moved, reply>>
    BY <2>1 DEF Begin
  <2> QED
    BY <2>2, <2>3, OutsideClaim
<1>2. CASE ReadBalance(e) \/ CheckDayCap(e)
  <2> PICK step \in {"dayCap", "stamp"} :
           /\ exec[e].pc \in {"balance", "dayCap"}
           /\ Goto(e, step)
           /\ UNCHANGED <<now, rows, inflight, moved, reply>>
    BY <1>2 DEF ReadBalance, CheckDayCap
  <2> DEFINE v == [exec[e] EXCEPT !.pc = step]
  <2>1. v \in Local /\ v.pc \notin ClaimSteps /\ v.sent = 0 /\ v.proposal \in Proposals
    BY DEF StepInv
  <2>2. exec' = [exec EXCEPT ![e] = v]
    BY DEF Goto
  <2> QED
    BY <2>1, <2>2, OutsideClaim
<1>3. CASE StampClaim(e)
  <2> DEFINE v == [exec[e] EXCEPT !.pc = "reserve", !.ts = now]
  <2>1. v \in Local /\ v.pc \notin ClaimSteps /\ v.sent = 0 /\ v.proposal \in Proposals
    <3>1. exec[e].pc = "stamp" /\ exec[e] \in Local /\ now \in Nat
      BY <1>3 DEF StampClaim
    <3>2. exec[e].sent = 0 /\ exec[e].proposal \in Proposals
      BY <3>1 DEF StepInv
    <3> QED BY ONLY <3>1, <3>2
  <2>2. exec' = [exec EXCEPT ![e] = v] /\ UNCHANGED <<now, rows, inflight, moved, reply>>
    BY <1>3 DEF StampClaim
  <2> QED
    BY <2>1, <2>2, OutsideClaim
<1>4. CASE Refuse(e)
  <2>1. exec' = [exec EXCEPT ![e] = Idle] /\ UNCHANGED <<now, rows, inflight, moved, reply>>
    BY <1>4 DEF Refuse, Return
  <2>2. Idle \in Local /\ Idle.pc = "idle" /\ Idle.sent = 0
    OBVIOUS
  <2> QED
    BY <2>1, <2>2, OutsideClaim
<1> QED
  BY <1>1, <1>2, <1>3, <1>4

(* A call that ends without touching the ledger. *)
LEMMA LetGoStep ==
  ASSUME IInv, NEW e \in Executors, FinalizeFails(e) \/ Crash(e)
  PROVE  IInv'
<1>1. Idle \in Local /\ Idle.pc = "idle" /\ Idle.pc \notin ClaimSteps /\ Idle.sent = 0
  BY ConstantsAssumption DEF Idle, Local, Steps, ClaimSteps
<1>2. exec' = [exec EXCEPT ![e] = Idle] /\ UNCHANGED <<now, rows, inflight, moved>>
  BY DEF FinalizeFails, Crash, Return
<1>3. /\ reply' \in [ClaimIds -> {"none", "refid", "error", "limited"}]
      /\ \A i \in ClaimIds : reply'[i] \in {reply[i], "none"}
  BY DEF FinalizeFails, Crash, Discard, IInv, TypeOK
<1> QED
  BY <1>1, <1>2, <1>3, OutsideClaim

(* Reading the answer, retrying on it, or giving it up. *)
LEMMA AnswerStep ==
  ASSUME IInv, NEW e \in Executors,
         \/ ReceiveRefid(e) \/ RetryRateLimited(e)
         \/ ReceiveRejection(e) \/ LoseReply(e)
  PROVE  IInv'
<1>1. exec[e].claim \in ClaimIds
  BY DEF IInv, HoldersOwnReservedRow, ClaimSteps, ReceiveRefid, RetryRateLimited,
         ReceiveRejection, LoseReply
<1>2. CASE ReceiveRefid(e)
  BY <1>1, <1>2, AfterAnswer DEF ReceiveRefid, IInv, MoneyInv, ClaimSteps
<1>3. CASE RetryRateLimited(e)
  BY <1>1, <1>3, AfterAnswer DEF RetryRateLimited, IInv, MoneyInv, ClaimSteps
<1>4. CASE ReceiveRejection(e)
  BY <1>1, <1>4, AfterAnswer DEF ReceiveRejection, IInv, MoneyInv, ClaimSteps
<1>5. CASE LoseReply(e)
  BY <1>5, AfterAnswer DEF LoseReply, ClaimSteps
<1> QED
  BY <1>2, <1>3, <1>4, <1>5
(* A reservation needs a proposal without a blocking row and a ledger      *)
(* without an unresolved one, so the new row is the only one of each kind. *)
LEMMA ReserveStep ==
  ASSUME IInv, NEW e \in Executors, NEW i \in ClaimIds, Reserve(e, i)
  PROVE  IInv'
<1> DEFINE p == exec[e].proposal
           v == [exec[e] EXCEPT !.pc = "submit", !.claim = i]
           r == [state |-> "reserved", proposal |-> p, ts |-> exec[e].ts]
<1>1. /\ exec[e] \in Local /\ exec[e].pc = "reserve" /\ exec[e].sent = 0
      /\ rows[i].state = "absent" /\ p \in Proposals
  BY DEF Reserve, IInv, TypeOK, StepInv, ClaimSteps
<1>2. v \in Local /\ v.pc = "submit" /\ v.claim = i /\ v.sent = 0 /\ v.proposal = p
  BY <1>1 DEF Local, Steps
<1>3. r \in Row /\ r.state = "reserved" /\ r.proposal = p
  BY <1>1 DEF Local, Row, Open
<1>4. /\ exec' = [exec EXCEPT ![e] = v]
      /\ rows' = [rows EXCEPT ![i] = r]
      /\ UNCHANGED <<now, inflight, moved, reply>>
  BY DEF Reserve
<1> HIDE DEF v, r
<1>5. TypeOK'
  BY <1>2, <1>3, <1>4 DEF IInv, TypeOK
<1>6. /\ exec'[e] = v
      /\ \A f \in Executors \ {e} : exec'[f] = exec[f]
      /\ rows'[i] = r
      /\ \A j \in ClaimIds \ {i} : rows'[j] = rows[j]
  BY <1>4 DEF IInv, TypeOK
<1>7. \A j \in ClaimIds : rows[j].state \notin Open
  BY DEF Reserve, Unresolved
<1>8. OneUnresolvedClaim'
  BY <1>6, <1>7 DEF OneUnresolvedClaim
<1>9. \A f \in Executors : exec[f].pc \notin ClaimSteps
  BY <1>7 DEF IInv, HoldersOwnReservedRow, Open
<1>10. HoldersOwnReservedRow' /\ OneHolder'
  BY <1>2, <1>3, <1>6, <1>9 DEF HoldersOwnReservedRow, OneHolder
<1>11. MoneyInv'
  BY <1>1, <1>3, <1>4, <1>6 DEF IInv, MoneyInv
<1>12. moved[i] = 0 /\ inflight[i] = 0 /\ reply[i] = "none"
  BY <1>1 DEF IInv, MoneyInv
<1>13. StepInv'
  <2> SUFFICES ASSUME NEW f \in Executors
               PROVE  StepInv!(f)'
    BY DEF StepInv
  <2>1. CASE f = e
    BY <1>1, <1>2, <1>4, <1>6, <1>12, <2>1, ConstantsAssumption DEF ClaimSteps
  <2>2. CASE f # e
    BY <1>6, <1>9, <2>2 DEF IInv, StepInv, ClaimSteps
  <2> QED
    BY <2>1, <2>2
<1>14. \A j \in ClaimIds : rows[j].state \notin {"absent", "rejected"} => rows[j].proposal # p
  BY DEF Reserve, AlreadyClaimed, NotFailed, Present
<1>15. OneBlockingRow'
  BY <1>3, <1>6, <1>14 DEF IInv, OneBlockingRow
<1> QED
  BY <1>5, <1>8, <1>10, <1>11, <1>13, <1>15 DEF IInv

LEMMA SubmitStep ==
  ASSUME IInv, NEW e \in Executors, Submit(e)
  PROVE  IInv'
<1> DEFINE i == exec[e].claim
           v == [exec[e] EXCEPT !.pc = "await", !.sent = @ + 1]
<1>1. /\ exec[e] \in Local /\ exec[e].pc = "submit" /\ exec[e].sent < MaxSends
      /\ i \in ClaimIds /\ rows[i].state = "reserved"
      /\ exec[e].proposal \in Proposals
      /\ moved[i] = 0 /\ inflight[i] = 0 /\ reply[i] = "none"
  BY DEF Submit, IInv, TypeOK, StepInv, HoldersOwnReservedRow, ClaimSteps
<1>2. v \in Local /\ v.pc = "await" /\ v.claim = i /\ v.proposal = exec[e].proposal
  <2>1. exec[e].sent + 1 \in 0..MaxSends
    BY <1>1, ConstantsAssumption DEF Local
  <2> QED
    BY <1>1, <2>1 DEF Local, Steps
<1>3. /\ exec' = [exec EXCEPT ![e] = v]
      /\ inflight' = [inflight EXCEPT ![i] = 1]
      /\ UNCHANGED <<now, rows, moved, reply>>
  <2>1. exec' = [exec EXCEPT ![e] = v] /\ UNCHANGED <<now, rows, moved, reply>>
    BY DEF Submit
  <2>2. inflight' = [inflight EXCEPT ![i] = inflight[i] + 1]
    BY DEF Submit
  <2> QED
    BY <1>1, <2>1, <2>2
<1> HIDE DEF v, i
<1>4. TypeOK'
  BY <1>1, <1>2, <1>3 DEF IInv, TypeOK
<1>5. /\ exec'[e] = v
      /\ \A f \in Executors \ {e} : exec'[f] = exec[f] /\ exec[f].pc \notin ClaimSteps
  BY <1>1, <1>3 DEF IInv, TypeOK, OneHolder, ClaimSteps
<1>6. OneUnresolvedClaim' /\ OneBlockingRow'
  BY <1>3 DEF IInv, OneUnresolvedClaim, OneBlockingRow
<1>7. HoldersOwnReservedRow' /\ OneHolder'
  BY <1>1, <1>2, <1>3, <1>5 DEF HoldersOwnReservedRow, OneHolder
<1>8. MoneyInv'
  BY <1>1, <1>3 DEF IInv, TypeOK, MoneyInv
<1>9. StepInv'
  BY <1>1, <1>2, <1>3, <1>5 DEF IInv, StepInv, ClaimSteps
<1> QED
  BY <1>4, <1>6, <1>7, <1>8, <1>9 DEF IInv

(* Kraken executes, refuses or never sees a request: only the holder of    *)
(* the claim, which is waiting, is concerned.                              *)
LEMMA KrakenStep ==
  ASSUME IInv, NEW i \in ClaimIds, Kraken(i)
  PROVE  IInv'
<1>1. /\ inflight[i] = 1 /\ moved[i] = 0
      /\ rows[i].state \notin {"absent", "rejected", "accepted"}
  BY DEF Kraken, KrakenAccept, KrakenReject, LoseRequest, IInv, TypeOK, MoneyInv
<1>2. /\ UNCHANGED <<now, rows, exec>>
      /\ inflight' = [inflight EXCEPT ![i] = 0]
      /\ \/ moved' = [moved EXCEPT ![i] = 1] /\ reply'[i] \in {"refid", "none"}
         \/ moved' = moved /\ reply'[i] \in {"error", "limited", "none"}
         \/ moved' = moved /\ reply'[i] = reply[i]
      /\ reply' \in [ClaimIds -> {"none", "refid", "error", "limited"}]
      /\ \A j \in ClaimIds \ {i} : reply'[j] = reply[j]
  BY <1>1 DEF Kraken, KrakenAccept, KrakenReject, LoseRequest, Answer, IInv, TypeOK
<1>3. TypeOK'
  BY <1>2 DEF IInv, TypeOK
<1>4. OneUnresolvedClaim' /\ OneBlockingRow' /\ HoldersOwnReservedRow' /\ OneHolder'
  BY <1>2 DEF IInv, OneUnresolvedClaim, OneBlockingRow, HoldersOwnReservedRow, OneHolder
<1>5. MoneyInv'
  BY <1>1, <1>2 DEF IInv, TypeOK, MoneyInv
<1>6. \A e \in Executors :
         exec[e].pc \in {"submit", "recordAccepted", "recordRejected"} => exec[e].claim # i
  BY <1>1 DEF IInv, StepInv
<1>7. StepInv'
  BY <1>2, <1>6 DEF IInv, TypeOK, StepInv, HoldersOwnReservedRow, ClaimSteps
<1> QED
  BY <1>3, <1>4, <1>5, <1>7 DEF IInv
(* A row leaves the state reserved (or unknown) for the outcome that the   *)
(* money confirms: by the executor that observed it, or by the operator.   *)
LEMMA SettleStep ==
  ASSUME IInv, NEW i \in ClaimIds,
         NEW outcome \in {"unknown", "accepted", "rejected"},
         rows[i].state \in Open,
         outcome = "accepted" => moved[i] = 1,
         outcome = "rejected" => moved[i] = 0 /\ inflight[i] = 0,
         rows' = [rows EXCEPT ![i].state = outcome]
  PROVE  /\ rows' \in [ClaimIds -> Row]
         /\ rows'[i].state = outcome /\ rows'[i].proposal = rows[i].proposal
         /\ \A j \in ClaimIds \ {i} : rows'[j] = rows[j]
<1>1. rows[i] \in Row /\ [rows[i] EXCEPT !.state = outcome] \in Row
  BY DEF IInv, TypeOK, Row, Open, Settled
<1>2. rows' = [rows EXCEPT ![i] = [rows[i] EXCEPT !.state = outcome]]
  OBVIOUS
<1>3. rows'[i] = [rows[i] EXCEPT !.state = outcome]
  BY <1>2 DEF IInv, TypeOK
<1>4. rows' \in [ClaimIds -> Row] /\ \A j \in ClaimIds \ {i} : rows'[j] = rows[j]
  BY <1>1, <1>2 DEF IInv, TypeOK
<1> QED
  BY <1>1, <1>3, <1>4 DEF Row

LEMMA FinalizeStep ==
  ASSUME IInv, NEW e \in Executors, Finalize(e)
  PROVE  IInv'
<1> DEFINE i == exec[e].claim
           outcome == OutcomeOf(exec[e].pc)
<1>1. /\ i \in ClaimIds /\ rows[i].state = "reserved"
      /\ exec[e].pc \in ClaimSteps
      /\ outcome \in {"unknown", "accepted", "rejected"}
      /\ outcome = "accepted" => moved[i] = 1
      /\ outcome = "rejected" => moved[i] = 0 /\ inflight[i] = 0
  BY DEF Finalize, Recording, OutcomeOf, ClaimSteps, IInv, HoldersOwnReservedRow, StepInv
<1>2. /\ rows' = [rows EXCEPT ![i].state = outcome]
      /\ exec' = [exec EXCEPT ![e] = Idle]
      /\ UNCHANGED <<now, inflight, moved, reply>>
  BY DEF Finalize, Return
<1> HIDE DEF i, outcome
<1>3. /\ rows' \in [ClaimIds -> Row]
      /\ rows'[i].state = outcome /\ rows'[i].proposal = rows[i].proposal
      /\ \A j \in ClaimIds \ {i} : rows'[j] = rows[j]
  BY <1>1, <1>2, SettleStep DEF Open
<1>4. Idle \in Local /\ Idle.pc = "idle" /\ Idle.pc \notin ClaimSteps /\ Idle.sent = 0
  BY ConstantsAssumption DEF Idle, Local, Steps, ClaimSteps
<1>5. TypeOK'
  BY <1>2, <1>3, <1>4 DEF IInv, TypeOK
<1>6. /\ exec'[e] = Idle
      /\ \A f \in Executors \ {e} : exec'[f] = exec[f] /\ exec[f].pc \notin ClaimSteps
  BY <1>1, <1>2 DEF IInv, TypeOK, OneHolder
<1>7. OneUnresolvedClaim' /\ OneBlockingRow'
  BY <1>1, <1>3 DEF IInv, OneUnresolvedClaim, OneBlockingRow, Open
<1>8. HoldersOwnReservedRow' /\ OneHolder'
  BY <1>4, <1>6 DEF HoldersOwnReservedRow, OneHolder
<1>9. MoneyInv'
  BY <1>1, <1>2, <1>3 DEF IInv, MoneyInv
<1>10. StepInv'
  BY <1>4, <1>6 DEF IInv, StepInv, ClaimSteps
<1> QED
  BY <1>5, <1>7, <1>8, <1>9, <1>10 DEF IInv

LEMMA ReconcileStep ==
  ASSUME IInv, NEW i \in ClaimIds, Reconcile(i)
  PROVE  IInv'
<1> DEFINE outcome == IF moved[i] > 0 THEN "accepted" ELSE "rejected"
<1>1. /\ rows[i].state \in Open /\ inflight[i] = 0
      /\ \A e \in Executors : exec[e].claim # i
      /\ outcome \in {"unknown", "accepted", "rejected"}
      /\ outcome = "accepted" => moved[i] = 1
      /\ outcome = "rejected" => moved[i] = 0
  BY DEF Reconcile, IInv, TypeOK, MoneyInv
<1>2. /\ rows' = [rows EXCEPT ![i].state = outcome]
      /\ UNCHANGED <<now, exec, inflight, moved, reply>>
  BY DEF Reconcile
<1> HIDE DEF outcome
<1>3. /\ rows' \in [ClaimIds -> Row]
      /\ rows'[i].state = outcome /\ rows'[i].proposal = rows[i].proposal
      /\ \A j \in ClaimIds \ {i} : rows'[j] = rows[j]
  BY <1>1, <1>2, SettleStep
<1>4. TypeOK'
  BY <1>2, <1>3 DEF IInv, TypeOK
<1>5. OneUnresolvedClaim' /\ OneBlockingRow'
  BY <1>1, <1>3 DEF IInv, OneUnresolvedClaim, OneBlockingRow, Open
<1>6. HoldersOwnReservedRow' /\ OneHolder' /\ StepInv'
  BY <1>1, <1>2, <1>3 DEF IInv, HoldersOwnReservedRow, OneHolder, StepInv
<1>7. MoneyInv'
  BY <1>1, <1>2, <1>3 DEF IInv, MoneyInv, Open
<1> QED
  BY <1>4, <1>5, <1>6, <1>7 DEF IInv

LEMMA NextIInv == IInv /\ [Next]_vars => IInv'
<1> SUFFICES ASSUME IInv, [Next]_vars PROVE IInv'
  OBVIOUS
<1>1. CASE Tick
  BY <1>1, TickStep
<1>2. ASSUME NEW e \in Executors,
             Proceed(e) \/ Crash(e) \/ \E p \in Proposals : Begin(e, p)
      PROVE  IInv'
  BY <1>2, GateStep, LetGoStep, AnswerStep, ReserveStep, SubmitStep, FinalizeStep DEF Proceed
<1>3. ASSUME NEW i \in ClaimIds, Kraken(i) \/ Reconcile(i)
      PROVE  IInv'
  BY <1>3, KrakenStep, ReconcileStep
<1>4. CASE UNCHANGED vars
  BY <1>4 DEF vars, IInv, TypeOK, OneUnresolvedClaim, HoldersOwnReservedRow, OneHolder,
              MoneyInv, StepInv, OneBlockingRow
<1> QED
  BY <1>1, <1>2, <1>3, <1>4 DEF Next

-----------------------------------------------------------------------------
(* The inductive invariant holds in every reachable state. *)
THEOREM Inductive == Spec => []IInv
  BY InitIInv, NextIInv, PTL DEF Spec

(* Every variable has its type and no call exceeds its request budget,     *)
(* 1 + _RATE_LIMIT_MAX_RETRIES.                                            *)
THEOREM TypeCorrect == Spec => []TypeOK
<1>1. IInv => TypeOK
  BY DEF IInv
<1> QED
  BY <1>1, Inductive, PTL

(* Kraken pays a proposal out at most once.                                *)
THEOREM PaidAtMostOnce == Spec => []AtMostOnePayout
<1>1. IInv => AtMostOnePayout
  <2> SUFFICES ASSUME IInv, NEW i \in ClaimIds, NEW j \in ClaimIds,
                      moved[i] > 0, moved[j] > 0, rows[i].proposal = rows[j].proposal
               PROVE  i = j /\ moved[i] = 1
    BY DEF AtMostOnePayout
  <2>1. moved[i] \in Nat /\ moved[j] \in Nat /\ inflight[i] \in Nat
    BY DEF IInv, TypeOK
  <2>2. /\ rows[i].state \notin {"absent", "rejected"}
        /\ rows[j].state \notin {"absent", "rejected"}
    BY <2>1 DEF IInv, MoneyInv
  <2>3. moved[i] = 1
    BY <2>1 DEF IInv, MoneyInv
  <2> QED
    BY <2>2, <2>3 DEF IInv, OneBlockingRow
<1> QED
  BY <1>1, Inductive, PTL

(* Money that moved, or still may, is covered by a blocking ledger row.    *)
THEOREM ClaimCoversPayout == Spec => []PayoutHasLiveClaim
<1>1. IInv => PayoutHasLiveClaim
  BY DEF IInv, MoneyInv, PayoutHasLiveClaim
<1> QED
  BY <1>1, Inductive, PTL

(* Only one withdrawal is ever unverified.                                 *)
THEOREM SingleUnresolvedClaim == Spec => []OneUnresolvedClaim
<1>1. IInv => OneUnresolvedClaim
  BY DEF IInv
<1> QED
  BY <1>1, Inductive, PTL

(* What an executor is about to record and report about the money is true. *)
THEOREM TruthfulReports == Spec => []ReportsTruthful
<1>1. IInv => ReportsTruthful
  BY DEF IInv, StepInv, ReportsTruthful
<1> QED
  BY <1>1, Inductive, PTL
-----------------------------------------------------------------------------
(* Every step of the claim ledger is a step of the abstract one or leaves  *)
(* it unchanged.                                                           *)
LEMMA LedgerUnchanged ==
  ASSUME UNCHANGED <<rows, moved>>
  PROVE  UNCHANGED Ledger!vars
  BY DEF Ledger!vars, Held, Paid, Unresolved

LEMMA LedgerHold ==
  ASSUME IInv, NEW e \in Executors, NEW i \in ClaimIds, Reserve(e, i),
         exec[e].proposal \in Proposals
  PROVE  Ledger!Hold(exec[e].proposal)
<1> DEFINE p == exec[e].proposal
<1>1. /\ Unresolved = {}
      /\ rows[i].state = "absent" /\ moved[i] = 0
      /\ \A j \in ClaimIds : rows[j].state \notin {"absent", "rejected"} => rows[j].proposal # p
  BY DEF Reserve, AlreadyClaimed, NotFailed, Present, IInv, MoneyInv
<1>2. /\ rows'[i].state = "reserved" /\ rows'[i].proposal = p
      /\ \A j \in ClaimIds \ {i} : rows'[j] = rows[j]
      /\ UNCHANGED moved
  BY DEF Reserve, IInv, TypeOK
<1>3. Held = {}
  BY <1>1 DEF Held
<1>4. p \notin Paid
  <2>1. ASSUME NEW j \in ClaimIds, moved[j] > 0
        PROVE  rows[j].state \notin {"absent", "rejected"}
    BY <2>1 DEF IInv, MoneyInv
  <2> QED
    BY <1>1, <2>1 DEF Paid
<1>5. Held' = {p}
  BY <1>1, <1>2 DEF Held, Unresolved, Open
<1>6. Paid' = Paid
  BY <1>1, <1>2 DEF Paid
<1> QED
  BY <1>3, <1>4, <1>5, <1>6 DEF Ledger!Hold

LEMMA LedgerPay ==
  ASSUME IInv, NEW i \in ClaimIds, KrakenAccept(i)
  PROVE  Ledger!Pay(rows[i].proposal)
<1> DEFINE p == rows[i].proposal
<1>1. /\ moved[i] = 0
      /\ rows[i].state \in Open
  BY DEF KrakenAccept, IInv, TypeOK, MoneyInv, Row, Settled
<1>2. /\ UNCHANGED rows
      /\ moved'[i] = 1
      /\ \A j \in ClaimIds \ {i} : moved'[j] = moved[j]
  BY <1>1 DEF KrakenAccept, IInv, TypeOK
<1>3. \A j \in ClaimIds : moved[j] > 0 => rows[j].proposal # p
  <2> SUFFICES ASSUME NEW j \in ClaimIds, moved[j] > 0, rows[j].proposal = p
               PROVE  FALSE
    OBVIOUS
  <2>1. rows[j].state \notin {"absent", "rejected"}
    BY DEF IInv, TypeOK, MoneyInv
  <2>2. rows[i].state \notin {"absent", "rejected"}
    BY <1>1 DEF Open
  <2>3. i = j
    BY <2>1, <2>2 DEF IInv, OneBlockingRow
  <2> QED
    BY <1>1, <2>3
<1>4. p \in Held /\ p \notin Paid /\ Held' = Held
  BY <1>1, <1>2, <1>3 DEF Held, Paid, Unresolved
<1>5. Paid' = Paid \union {p}
  BY <1>1, <1>2 DEF Paid
<1> QED
  BY <1>4, <1>5 DEF Ledger!Pay

LEMMA LedgerSettle ==
  ASSUME IInv, NEW i \in ClaimIds, rows[i].state \in Open,
         NEW outcome \in {"unknown", "accepted", "rejected"},
         outcome = "accepted" => moved[i] = 1,
         outcome = "rejected" => moved[i] = 0 /\ inflight[i] = 0,
         rows' = [rows EXCEPT ![i].state = outcome],
         UNCHANGED moved
  PROVE  Ledger!Release \/ UNCHANGED Ledger!vars
<1>1. /\ rows'[i].state = outcome /\ rows'[i].proposal = rows[i].proposal
      /\ \A j \in ClaimIds \ {i} : rows'[j] = rows[j]
  BY SettleStep
<1>2. \A j \in ClaimIds : rows'[j].proposal = rows[j].proposal
  BY <1>1
<1>3. Paid' = Paid
  BY <1>2 DEF Paid
<1>4. Unresolved = {i}
  BY DEF Unresolved, IInv, OneUnresolvedClaim
<1>5. CASE outcome = "unknown"
  <2>1. Unresolved' = {i}
    BY <1>1, <1>4, <1>5 DEF Unresolved, Open
  <2>2. Held' = Held
    BY <1>2, <1>4, <2>1 DEF Held
  <2> QED
    BY <1>3, <2>2 DEF Ledger!vars
<1>6. CASE outcome # "unknown"
  <2>1. Unresolved' = {}
    BY <1>1, <1>4, <1>6 DEF Unresolved, Open
  <2>2. Held' = {} /\ Held # {}
    BY <1>4, <2>1 DEF Held
  <2> QED
    BY <1>3, <2>2 DEF Ledger!Release
<1> QED
  BY <1>5, <1>6

LEMMA LedgerStep == IInv /\ [Next]_vars => [Ledger!Next]_Ledger!vars
<1> SUFFICES ASSUME IInv, [Next]_vars PROVE [Ledger!Next]_Ledger!vars
  OBVIOUS
<1>1. ASSUME NEW e \in Executors, NEW i \in ClaimIds, Reserve(e, i)
      PROVE  Ledger!Next
  <2>1. exec[e].proposal \in Proposals
    BY <1>1 DEF Reserve, IInv, StepInv
  <2> QED
    BY <1>1, <2>1, LedgerHold DEF Ledger!Next
<1>2. ASSUME NEW i \in ClaimIds, KrakenAccept(i)
      PROVE  Ledger!Next
  <2>1. rows[i].proposal \in Proposals
    BY <1>2 DEF KrakenAccept, IInv, TypeOK, MoneyInv
  <2> QED
    BY <1>2, <2>1, LedgerPay DEF Ledger!Next
<1>3. ASSUME NEW e \in Executors, Finalize(e)
      PROVE  [Ledger!Next]_Ledger!vars
  <2> DEFINE i == exec[e].claim
             outcome == OutcomeOf(exec[e].pc)
  <2>1. /\ i \in ClaimIds /\ rows[i].state \in Open
        /\ outcome \in {"unknown", "accepted", "rejected"}
        /\ outcome = "accepted" => moved[i] = 1
        /\ outcome = "rejected" => moved[i] = 0 /\ inflight[i] = 0
    BY <1>3 DEF Finalize, Recording, OutcomeOf, Open, ClaimSteps,
                IInv, HoldersOwnReservedRow, StepInv
  <2>2. rows' = [rows EXCEPT ![i].state = outcome] /\ UNCHANGED moved
    BY <1>3 DEF Finalize
  <2> HIDE DEF i, outcome
  <2> QED
    BY <2>1, <2>2, LedgerSettle DEF Ledger!Next
<1>4. ASSUME NEW i \in ClaimIds, Reconcile(i)
      PROVE  [Ledger!Next]_Ledger!vars
  <2> DEFINE outcome == IF moved[i] > 0 THEN "accepted" ELSE "rejected"
  <2>1. /\ rows[i].state \in Open
        /\ outcome \in {"unknown", "accepted", "rejected"}
        /\ outcome = "accepted" => moved[i] = 1
        /\ outcome = "rejected" => moved[i] = 0 /\ inflight[i] = 0
    BY <1>4 DEF Reconcile, IInv, TypeOK, MoneyInv
  <2>2. rows' = [rows EXCEPT ![i].state = outcome] /\ UNCHANGED moved
    BY <1>4 DEF Reconcile
  <2> HIDE DEF outcome
  <2> QED
    BY <2>1, <2>2, LedgerSettle DEF Ledger!Next
<1>5. CASE UNCHANGED <<rows, moved>>
  BY <1>5, LedgerUnchanged
<1>6. CASE Tick \/ UNCHANGED vars
  BY <1>5, <1>6 DEF Tick, vars
<1>7. ASSUME NEW e \in Executors,
             Proceed(e) \/ Crash(e) \/ \E p \in Proposals : Begin(e, p)
      PROVE  [Ledger!Next]_Ledger!vars
  BY <1>1, <1>3, <1>5, <1>7
  DEF Proceed, Begin, ReadBalance, CheckDayCap, StampClaim, Refuse, Submit, ReceiveRefid,
      RetryRateLimited, ReceiveRejection, LoseReply, FinalizeFails, Crash
<1>8. ASSUME NEW i \in ClaimIds, Kraken(i) \/ Reconcile(i)
      PROVE  [Ledger!Next]_Ledger!vars
  BY <1>2, <1>4, <1>5, <1>8 DEF Kraken, KrakenReject, LoseRequest
<1> QED
  BY <1>6, <1>7, <1>8 DEF Next

(* The withdrawal path implements the abstract ledger: one proposal held   *)
(* at a time, money only for the held one, never twice for the same one.   *)
THEOREM Refinement == Spec => ImplementsLedger
<1>1. Init => Ledger!Init
  BY DEF Init, Ledger!Init, Held, Paid, Unresolved, Open, NoRow
<1> QED
  BY <1>1, LedgerStep, Inductive, PTL DEF Spec, ImplementsLedger, Ledger!Spec

-----------------------------------------------------------------------------
(* The daily cap. *)

(* The claims of the day that begins at t, none of them rejected. *)
InWindow(t) == {i \in NotFailed : rows[i].ts \in t..(t + Window)}

CapInv ==
    /\ IsFiniteSet(Present)
    /\ \A t \in Nat : SumAmounts(InWindow(t)) <= DailyCap

(* Among subsets of a finite set there is one that contains no other. *)
LEMMA SmallestSubset ==
  ASSUME NEW S, IsFiniteSet(S), NEW Bad, Bad \subseteq SUBSET S, Bad # {}
  PROVE  \E T \in Bad : \A U \in Bad : ~ (<<U, T>> \in StrictSubsetOrdering(S))
<1>1. IsWellFoundedOn(StrictSubsetOrdering(S), SUBSET S)
  BY FS_StrictSubsetOrderingWellFounded, FS_FiniteSubsetsOfFinite
<1> QED BY <1>1, WFMin, Zenon

(* Finite sets are inductive in the sense of FiniteSums. *)
LEMMA Finite == \A S : IsFiniteSet(S) => AllowsInduction(S)
<1> SUFFICES ASSUME NEW S, IsFiniteSet(S), NEW Good,
                    \A T \in SUBSET S :
                       (\A U \in SUBSET T : U # T => U \in Good) => T \in Good
             PROVE  SUBSET S \subseteq Good
  BY DEF AllowsInduction
<1> DEFINE Bad == (SUBSET S) \ Good
<1>1. SUFFICES ASSUME Bad # {} PROVE FALSE
  OBVIOUS
<1>2. Bad \subseteq SUBSET S
  OBVIOUS
<1>3. \E T \in Bad : \A U \in Bad : ~ (<<U, T>> \in StrictSubsetOrdering(S))
  <2> HIDE DEF Bad
  <2> QED BY <1>1, <1>2, SmallestSubset
<1>4. PICK T \in Bad : \A U \in Bad : ~ (<<U, T>> \in StrictSubsetOrdering(S))
  BY <1>3, Zenon
<1>5. \A U \in SUBSET T : U # T => U \in Good
  <2> SUFFICES ASSUME NEW U \in SUBSET T, U # T, U \notin Good
               PROVE  FALSE
    OBVIOUS
  <2>1. U \in Bad /\ <<U, T>> \in StrictSubsetOrdering(S)
    BY DEF StrictSubsetOrdering
  <2> QED BY <1>4, <2>1
<1> QED BY <1>5

(* The amounts of some claims are a sum in the sense of FiniteSums. *)
LEMMA AmountsAreTotal ==
  ASSUME NEW r, NEW ids, IsFiniteSet(ids)
  PROVE  AmountsIn(r, ids) = Total([i \in ids |-> Amount[r[i].proposal]], ids)
<1> DEFINE w == [i \in ids |-> Amount[r[i].proposal]]
           Sums(h) == h = [s \in SUBSET ids |-> IF s = {} THEN 0
                              ELSE Amount[r[First(s)].proposal] + h[s \ {First(s)}]]
           g == CHOOSE h : Sums(h)
<1>1. \A s \in SUBSET ids : s # {} => w[First(s)] = Amount[r[First(s)].proposal]
  BY DEF First
<1>2. PICK h : IsRunningSum(h, w, ids)
  BY RunningSumExists, Finite
<1>3. Sums(h)
  BY <1>1, <1>2 DEF IsRunningSum
<1>4. Sums(g)
  <2> HIDE DEF Sums
  <2> QED BY <1>3, Zenon
<1>5. IsRunningSum(g, w, ids)
  <2> HIDE DEF g
  <2> QED BY <1>1, <1>4 DEF IsRunningSum
<1>6. Total(w, ids) = g[ids]
  <2> HIDE DEF g, w
  <2> QED BY <1>5, TotalOfRunningSum, Finite
<1>7. AmountsIn(r, ids) = g[ids]
  BY Zenon DEF AmountsIn, MapThenSumSet, MapThenFoldSet, First
<1> QED BY <1>6, <1>7, Zenon

(* Fewer claims, with the same proposals, do not add up to more. *)
LEMMA FewerAmounts ==
  ASSUME NEW r, NEW q, NEW A, NEW B, A \subseteq B, IsFiniteSet(B),
         \A i \in A : r[i].proposal = q[i].proposal,
         \A i \in B : Amount[q[i].proposal] \in Nat
  PROVE  /\ AmountsIn(r, A) <= AmountsIn(q, B)
         /\ AmountsIn(r, A) \in Int /\ AmountsIn(q, B) \in Int
<1> DEFINE v == [i \in A |-> Amount[r[i].proposal]]
           w == [i \in B |-> Amount[q[i].proposal]]
           j == [i \in A |-> i]
<1>1. IsFiniteSet(A)
  BY FS_Subset
<1>2. /\ \A i \in A : v[i] \in Int
      /\ \A i \in B : w[i] \in Nat /\ w[i] \in Int
      /\ j \in [A -> B]
      /\ \A x, y \in A : j[x] = j[y] => x = y
      /\ \A i \in A : v[i] <= w[j[i]]
  OBVIOUS
<1>3. AmountsIn(r, A) = Total(v, A) /\ AmountsIn(q, B) = Total(w, B)
  BY <1>1, AmountsAreTotal
<1> HIDE DEF v, w, j
<1>4. Total(v, A) \in Int /\ Total(w, B) \in Int
  BY <1>1, <1>2, TotalInt, Finite
<1>5. Total(v, A) <= Total(w, B)
  BY <1>1, <1>2, TotalInto, Finite
<1> QED BY <1>3, <1>4, <1>5

(* One claim more adds its amount. *)
LEMMA OneMoreAmount ==
  ASSUME NEW r, NEW q, NEW A, IsFiniteSet(A), NEW k, k \notin A,
         \A i \in A : r[i].proposal = q[i].proposal,
         \A i \in A \union {k} : Amount[r[i].proposal] \in Nat
  PROVE  AmountsIn(r, A \union {k}) = Amount[r[k].proposal] + AmountsIn(q, A)
<1> DEFINE B == A \union {k}
           v == [i \in B |-> Amount[r[i].proposal]]
           w == [i \in A |-> Amount[q[i].proposal]]
<1>1. IsFiniteSet(B)
  BY FS_AddElement
<1>2. /\ \A i \in A \union {k} : v[i] \in Int
      /\ \A i \in A : v[i] = w[i]
      /\ v[k] = Amount[r[k].proposal]
  OBVIOUS
<1>3. AmountsIn(r, B) = Total(v, B) /\ AmountsIn(q, A) = Total(w, A)
  BY <1>1, AmountsAreTotal
<1> HIDE DEF v, w
<1>4. Total(v, A \union {k}) = v[k] + Total(v, A)
  BY <1>2, TotalAdd, Finite
<1>5. Total(v, A) = Total(w, A)
  BY <1>2, TotalSame, Finite
<1> QED BY <1>2, <1>3, <1>4, <1>5

(* The amounts of the claims there are. *)
LEMMA AmountsNat ==
  ASSUME IInv
  PROVE  \A i \in Present : rows[i].proposal \in Proposals /\ Amount[rows[i].proposal] \in Nat
  BY ConstantsAssumption DEF IInv, MoneyInv, Present

LEMMA InitCap == Init => CapInv
<1> SUFFICES ASSUME Init PROVE CapInv
  OBVIOUS
<1>1. Present = {} /\ \A t : InWindow(t) = {}
  BY DEF Init, Present, NoRow, InWindow, NotFailed
<1>2. SumAmounts({}) = 0
  <2>1. SumAmounts({}) = Total([i \in {} |-> Amount[rows[i].proposal]], {})
    BY FS_EmptySet, AmountsAreTotal DEF SumAmounts
  <2> QED BY <2>1, TotalEmpty
<1> QED BY <1>1, <1>2, FS_EmptySet, ConstantsAssumption DEF CapInv

(* A step after which no claim counts that did not count before.           *)
LEMMA CapKept ==
  ASSUME IInv, CapInv, Present' \subseteq Present, NotFailed' \subseteq NotFailed,
         \A i \in NotFailed' : /\ rows'[i].proposal = rows[i].proposal
                               /\ rows'[i].ts = rows[i].ts
  PROVE  CapInv'
<1>1. IsFiniteSet(Present')
  BY FS_Subset DEF CapInv
<1>2. ASSUME NEW t \in Nat PROVE SumAmounts(InWindow(t))' <= DailyCap
  <2>1. InWindow(t)' \subseteq InWindow(t) /\ InWindow(t) \subseteq Present
    BY DEF InWindow, NotFailed
  <2>2. IsFiniteSet(InWindow(t))
    BY <2>1, FS_Subset DEF CapInv
  <2>3. \A i \in InWindow(t) : Amount[rows[i].proposal] \in Nat
    BY <2>1, AmountsNat
  <2>4. \A i \in InWindow(t)' : rows'[i].proposal = rows[i].proposal
    BY DEF InWindow
  <2>5. /\ AmountsIn(rows', InWindow(t)') <= AmountsIn(rows, InWindow(t))
        /\ AmountsIn(rows', InWindow(t)') \in Int /\ AmountsIn(rows, InWindow(t)) \in Int
    BY <2>1, <2>2, <2>3, <2>4, FewerAmounts
  <2>6. AmountsIn(rows, InWindow(t)) <= DailyCap
    BY DEF CapInv, SumAmounts
  <2> QED BY <2>5, <2>6, ConstantsAssumption DEF SumAmounts
<1> QED BY <1>1, <1>2 DEF CapInv

(* A reservation looks at every day the claim is in.                       *)
LEMMA CapReserve ==
  ASSUME IInv, CapInv, NEW e \in Executors, NEW i \in ClaimIds, Reserve(e, i)
  PROVE  CapInv'
<1> DEFINE p == exec[e].proposal
           ts == exec[e].ts
           counted == {k \in NotFailed : rows[k].ts >= WindowStart(ts)}
<1>1. /\ p \in Proposals /\ Amount[p] \in Nat /\ ts \in Nat
      /\ rows[i].state = "absent" /\ i \notin Present
      /\ rows' = [rows EXCEPT ![i] = [state |-> "reserved", proposal |-> p, ts |-> ts]]
      /\ ~ (WithdrawnSince(WindowStart(ts)) + Amount[p] > DailyCap)
      /\ rows \in [ClaimIds -> Row]
  BY ConstantsAssumption
  DEF Reserve, CapExceeded, IInv, TypeOK, StepInv, Local, Present
<1>2. /\ rows'[i] = [state |-> "reserved", proposal |-> p, ts |-> ts]
      /\ \A k \in ClaimIds \ {i} : rows'[k] = rows[k]
  BY <1>1
<1>3. /\ Present' = Present \union {i} /\ NotFailed' = NotFailed \union {i}
      /\ i \notin NotFailed /\ NotFailed \subseteq Present
      /\ \A k \in NotFailed : rows'[k] = rows[k] /\ rows[k].ts \in Nat
  BY <1>1, <1>2 DEF Present, NotFailed, Row
<1>4. IsFiniteSet(Present')
  BY <1>3, FS_AddElement DEF CapInv
<1>5. /\ IsFiniteSet(NotFailed) /\ IsFiniteSet(counted) /\ counted \subseteq NotFailed
      /\ \A k \in NotFailed : Amount[rows[k].proposal] \in Nat
  BY <1>3, FS_Subset, AmountsNat DEF CapInv
<1>6. AmountsIn(rows, counted) \in Int /\ AmountsIn(rows, counted) + Amount[p] <= DailyCap
  <2>1. WithdrawnSince(WindowStart(ts)) = AmountsIn(rows, counted)
    BY DEF WithdrawnSince, SumAmounts
  <2> HIDE DEF counted
  <2>2. AmountsIn(rows, counted) \in Int
    BY <1>5, FewerAmounts
  <2> QED BY <1>1, <2>1, <2>2, ConstantsAssumption
<1>7. ASSUME NEW t \in Nat PROVE SumAmounts(InWindow(t))' <= DailyCap
  <2>1. /\ InWindow(t) \subseteq NotFailed /\ IsFiniteSet(InWindow(t)) /\ i \notin InWindow(t)
        /\ \A k \in InWindow(t) : /\ rows'[k].proposal = rows[k].proposal
                                  /\ Amount[rows[k].proposal] \in Nat
    BY <1>3, <1>5, FS_Subset DEF InWindow
  <2>2. CASE ts \in t..(t + Window)
    <3>1. InWindow(t)' = InWindow(t) \union {i}
      BY <1>2, <1>3, <2>2 DEF InWindow
    <3>2. InWindow(t) \subseteq counted
      <4> SUFFICES ASSUME NEW k \in InWindow(t) PROVE rows[k].ts >= WindowStart(ts)
        BY DEF InWindow
      <4> QED BY <1>1, <1>3, <2>2, ConstantsAssumption DEF InWindow, WindowStart
    <3>3. /\ AmountsIn(rows, InWindow(t)) <= AmountsIn(rows, counted)
          /\ AmountsIn(rows, InWindow(t)) \in Int
      <4> HIDE DEF counted
      <4> QED BY <1>5, <3>2, FewerAmounts
    <3>4. AmountsIn(rows', InWindow(t) \union {i}) = Amount[p] + AmountsIn(rows, InWindow(t))
      <4>1. \A k \in InWindow(t) \union {i} : Amount[rows'[k].proposal] \in Nat
        BY <1>1, <1>2, <2>1
      <4>2. rows'[i].proposal = p
        BY <1>2
      <4> QED BY <2>1, <4>1, <4>2, OneMoreAmount
    <3> QED BY <1>1, <1>6, <3>1, <3>3, <3>4, ConstantsAssumption DEF SumAmounts
  <2>3. CASE ts \notin t..(t + Window)
    <3>1. InWindow(t)' = InWindow(t)
      <4>1. rows'[i].ts \notin t..(t + Window)
        BY <1>2, <2>3
      <4>2. InWindow(t)' = {k \in NotFailed : rows'[k].ts \in t..(t + Window)}
        BY <1>3, <4>1 DEF InWindow
      <4>3. \A k \in NotFailed : rows'[k].ts = rows[k].ts
        BY <1>3
      <4> QED BY <4>2, <4>3 DEF InWindow
    <3>2. /\ AmountsIn(rows', InWindow(t)) <= AmountsIn(rows, InWindow(t))
          /\ AmountsIn(rows', InWindow(t)) \in Int /\ AmountsIn(rows, InWindow(t)) \in Int
      BY <2>1, FewerAmounts
    <3>3. AmountsIn(rows, InWindow(t)) <= DailyCap
      BY DEF CapInv, SumAmounts
    <3> QED BY <3>1, <3>2, <3>3, ConstantsAssumption DEF SumAmounts
  <2> QED BY <2>2, <2>3
<1> QED BY <1>4, <1>7 DEF CapInv

(* Outcomes are written into rows that count already. *)
LEMMA CapOutcome ==
  ASSUME IInv, CapInv, NEW i \in ClaimIds, rows[i].state \in Open,
         NEW outcome, outcome # "absent",
         rows' = [rows EXCEPT ![i].state = outcome]
  PROVE  CapInv'
<1>1. rows \in [ClaimIds -> Row]
  BY DEF IInv, TypeOK
<1>2. /\ rows'[i] = [rows[i] EXCEPT !.state = outcome]
      /\ \A k \in ClaimIds \ {i} : rows'[k] = rows[k]
  BY <1>1
<1>3. rows'[i].state = outcome /\ rows'[i].ts = rows[i].ts /\ rows'[i].proposal = rows[i].proposal
  BY <1>1, <1>2 DEF Row
<1>4. Present' \subseteq Present /\ NotFailed' \subseteq NotFailed
  BY <1>2, <1>3 DEF Present, NotFailed, Open
<1>5. \A k \in NotFailed' : rows'[k].proposal = rows[k].proposal /\ rows'[k].ts = rows[k].ts
  BY <1>2, <1>3 DEF Present, NotFailed
<1> QED BY <1>4, <1>5, CapKept

LEMMA CapStep == IInv /\ CapInv /\ [Next]_vars => CapInv'
<1> SUFFICES ASSUME IInv, CapInv, [Next]_vars PROVE CapInv'
  OBVIOUS
<1>1. CASE UNCHANGED rows
  BY <1>1, CapKept DEF Present, NotFailed
<1>2. ASSUME NEW e \in Executors, NEW i \in ClaimIds, Reserve(e, i) PROVE CapInv'
  BY <1>2, CapReserve
<1>3. ASSUME NEW e \in Executors, Finalize(e) PROVE CapInv'
  <2>1. /\ exec[e].claim \in ClaimIds /\ rows[exec[e].claim].state \in Open
        /\ rows' = [rows EXCEPT ![exec[e].claim].state = OutcomeOf(exec[e].pc)]
    BY <1>3 DEF Finalize, Recording, IInv, HoldersOwnReservedRow, ClaimSteps, Open
  <2>2. OutcomeOf(exec[e].pc) # "absent"
    BY DEF OutcomeOf
  <2> QED BY <2>1, <2>2, CapOutcome
<1>4. ASSUME NEW i \in ClaimIds, Reconcile(i) PROVE CapInv'
  <2> DEFINE outcome == IF moved[i] > 0 THEN "accepted" ELSE "rejected"
  <2>1. rows[i].state \in Open /\ rows' = [rows EXCEPT ![i].state = outcome] /\ outcome # "absent"
    BY <1>4 DEF Reconcile
  <2> HIDE DEF outcome
  <2> QED BY <2>1, CapOutcome
<1> QED BY <1>1, <1>2, <1>3, <1>4
        DEF Next, vars, Tick, Proceed, Crash, Begin, Kraken, ReadBalance, CheckDayCap, StampClaim,
            Refuse, Submit, ReceiveRefid, RetryRateLimited, ReceiveRejection, LoseReply,
            FinalizeFails, KrakenAccept, KrakenReject, LoseRequest

(* In every day of claim times what was or may still be paid stays within  *)
(* the daily cap, for any amounts, cap and window, although claims are     *)
(* stamped before the write lock and inserted out of time order.           *)
THEOREM CapNeverExceeded == Spec => []CapHolds
<1>1. CapInv /\ now \in Nat => CapHolds
  <2> SUFFICES ASSUME CapInv, now \in Nat, NEW t \in 0..now
               PROVE  SumAmounts(InWindow(t)) <= DailyCap
    BY DEF CapHolds, InWindow
  <2> QED BY DEF CapInv
<1>2. IInv => now \in Nat
  BY DEF IInv, TypeOK
<1> QED BY <1>1, <1>2, InitCap, CapStep, Inductive, PTL DEF Spec

-----------------------------------------------------------------------------
(* The backups and the retention. *)

Copies == Seq([stamp : Nat, whole : BOOLEAN])
BackupSteps == {"choose", "copy", "trim"}
PruneSteps == {"archive", "delete"}

UpkeepTypes ==
    /\ clock \in Nat
    /\ files \in [Databases -> Copies]
    /\ backed \subseteq Databases
    /\ written \subseteq Nat /\ stored \subseteq Nat
    /\ job.pc \in {"none"} \union BackupSteps \union PruneSteps
    /\ job = [pc |-> job.pc, left |-> job.left, db |-> job.db,
              cutoff |-> job.cutoff, found |-> job.found]
    /\ job.left \subseteq Databases
    /\ job.pc \in {"copy", "trim"} => job.db \in Databases

Spaced(s) == \A i \in 1..(Len(s) - 1) : s[i].stamp - s[i + 1].stamp >= MinInterval
UpTo(s, t) == \A i \in 1..Len(s) : s[i].stamp <= t

(* The copies of a database are apart, and none is of the future.          *)
CopiesInv == \A d \in Databases : Spaced(files[d]) /\ UpTo(files[d], clock)

(* A database that was backed up has a complete copy; while another one is *)
(* made of it, it is not the newest, and when its slots are trimmed the    *)
(* newest is one.                                                          *)
RestoreInv ==
    /\ \A d \in backed : \E i \in 1..Len(files[d]) :
            files[d][i].whole /\ (job.pc = "copy" /\ job.db = d => i > 1)
    /\ job.pc = "copy" => files[job.db] # <<>>
    /\ job.pc = "trim" => files[job.db] # <<>> /\ files[job.db][1].whole

(* What the delete will take is what the archive was given.                *)
RetentionInv ==
    /\ stored \subseteq written \union archived
    /\ \A t \in stored : t > clock - Horizon => t \in written
    /\ job.pc \in PruneSteps =>
          /\ job.cutoff \in Int /\ job.cutoff <= clock - Horizon
          /\ \A t \in written : t <= job.cutoff => t \in job.found
    /\ job.pc = "delete" => job.found \subseteq archived

UpkeepInv == UpkeepTypes /\ CopiesInv /\ RestoreInv /\ RetentionInv

LEMMA InitUpkeep == Upkeep!Init => UpkeepInv
<1> SUFFICES ASSUME Upkeep!Init PROVE UpkeepInv
  OBVIOUS
<1>1. UpkeepTypes
  BY DEF Upkeep!Init, Upkeep!Idle, UpkeepTypes, Copies
<1>2. CopiesInv
  BY DEF Upkeep!Init, CopiesInv, Spaced, UpTo
<1>3. RestoreInv /\ RetentionInv
  BY DEF Upkeep!Init, Upkeep!Idle, RestoreInv, RetentionInv, PruneSteps
<1> QED BY <1>1, <1>2, <1>3 DEF UpkeepInv

LEMMA CopyType ==
  ASSUME NEW s \in Copies, NEW i \in 1..Len(s)
  PROVE  s[i] \in [stamp : Nat, whole : BOOLEAN]
  BY ElementOfSeq DEF Copies

LEMMA FirstReplaced ==
  ASSUME NEW S, NEW s \in Seq(S), 1 \in 1..Len(s), NEW c \in S
  PROVE  /\ [s EXCEPT ![1] = c] \in Seq(S)
         /\ Len([s EXCEPT ![1] = c]) = Len(s)
         /\ \A i \in 1..Len(s) : [s EXCEPT ![1] = c][i] = IF i = 1 THEN c ELSE s[i]
  BY ExceptSeq

LEMMA EarlierIsUpTo ==
  ASSUME NEW s \in Copies, NEW t \in Nat, NEW u \in Nat, t <= u, UpTo(s, t)
  PROVE  UpTo(s, u)
  BY CopyType DEF UpTo

(* A step that leaves the copies alone, and does not begin to make or trim *)
(* one.                                                                    *)
LEMMA CopiesLeftAlone ==
  ASSUME UpkeepInv, UNCHANGED <<files, backed>>, clock' \in Nat, clock' >= clock,
         job'.pc \notin {"copy", "trim"}
  PROVE  CopiesInv' /\ RestoreInv'
<1>1. CopiesInv'
  BY EarlierIsUpTo DEF UpkeepInv, CopiesInv, UpkeepTypes
<1>2. RestoreInv'
  BY DEF UpkeepInv, RestoreInv
<1> QED BY <1>1, <1>2

(* A new copy, the newest of its database.                                 *)
LEMMA NewestCopy ==
  ASSUME NEW s \in Copies, NEW t \in Nat, Spaced(s), UpTo(s, t),
         s # <<>> => t - s[1].stamp >= MinInterval, NEW c \in [stamp : Nat, whole : BOOLEAN],
         c.stamp = t
  PROVE  /\ <<c>> \o s \in Copies /\ Len(<<c>> \o s) = Len(s) + 1
         /\ Spaced(<<c>> \o s) /\ UpTo(<<c>> \o s, t)
         /\ \A i \in 1..Len(s) : (<<c>> \o s)[i + 1] = s[i]
<1> DEFINE n == <<c>> \o s
<1>1. /\ n \in Copies /\ Len(n) = Len(s) + 1 /\ Len(s) \in Nat
      /\ n[1] = c /\ \A i \in 1..Len(s) : n[i + 1] = s[i]
  BY DEF Copies
<1>2. \A i \in 1..Len(n) : i = 1 \/ (n[i] = s[i - 1] /\ i - 1 \in 1..Len(s))
  BY <1>1
<1> HIDE DEF n
<1>3. Spaced(n)
  <2> SUFFICES ASSUME NEW i \in 1..(Len(n) - 1)
               PROVE  n[i].stamp - n[i + 1].stamp >= MinInterval
    BY DEF Spaced
  <2>1. CASE i = 1
    BY <1>1, <2>1
  <2>2. CASE i # 1
    BY <1>1, <1>2, <2>2 DEF Spaced
  <2> QED BY <2>1, <2>2
<1>4. UpTo(n, t)
  BY <1>1, <1>2 DEF UpTo
<1> QED BY <1>1, <1>3, <1>4 DEF n

(* Some of the copies in a row.                                            *)
LEMMA FewerCopies ==
  ASSUME NEW s \in Copies, NEW t \in Nat, Spaced(s), UpTo(s, t),
         NEW r \in Copies, NEW k \in Nat, Len(r) + k <= Len(s),
         \A i \in 1..Len(r) : r[i] = s[i + k]
  PROVE  Spaced(r) /\ UpTo(r, t)
<1>1. Len(s) \in Nat /\ Len(r) \in Nat
  BY DEF Copies
<1>2. Spaced(r)
  <2> SUFFICES ASSUME NEW i \in 1..(Len(r) - 1)
               PROVE  r[i].stamp - r[i + 1].stamp >= MinInterval
    BY DEF Spaced
  <2>1. r[i] = s[i + k] /\ r[i + 1] = s[(i + k) + 1] /\ i + k \in 1..(Len(s) - 1)
    BY <1>1
  <2> QED BY <2>1 DEF Spaced
<1>3. UpTo(r, t)
  BY <1>1 DEF UpTo
<1> QED BY <1>2, <1>3

LEMMA TypesFrom ==
  ASSUME UpkeepTypes, NEW pc \in {"none"} \union BackupSteps \union PruneSteps,
         NEW left \in SUBSET Databases, NEW d, NEW cutoff, NEW found,
         pc \in {"copy", "trim"} => d \in Databases,
         job' = [pc |-> pc, left |-> left, db |-> d, cutoff |-> cutoff, found |-> found],
         clock' \in Nat, files' \in [Databases -> Copies], backed' \subseteq Databases,
         written' \subseteq Nat, stored' \subseteq Nat
  PROVE  UpkeepTypes'
  BY DEF UpkeepTypes

(* Of the steps of a backup the retention knows nothing.                   *)
LEMMA RetentionLeftAlone ==
  ASSUME UpkeepInv, UNCHANGED <<written, stored, archived>>, clock' \in Nat, clock' >= clock,
         \/ job'.pc \notin PruneSteps
         \/ UNCHANGED job
  PROVE  RetentionInv'
<1>1. \A t \in stored : t \in Nat
  BY DEF UpkeepInv, UpkeepTypes
<1>2. clock \in Nat
  BY DEF UpkeepInv, UpkeepTypes
<1> QED
  BY <1>1, <1>2, UpkeepAssumption DEF UpkeepInv, RetentionInv, PruneSteps

(* The steps of a backup that leave the files alone.                       *)
LEMMA UpkeepChooses ==
  ASSUME UpkeepInv,
         \/ Upkeep!BeginBackups \/ Upkeep!EndBackups
         \/ \E d \in Databases : Upkeep!SkipBackup(d)
         \/ Upkeep!RetentionFails \/ Upkeep!EndMaintenance
  PROVE  UpkeepInv'
<1>1. /\ UNCHANGED <<clock, files, backed, written, stored, archived>>
      /\ job'.pc \in {"none", "choose"}
      /\ UpkeepTypes'
  <2>1. UpkeepTypes /\ clock \in Nat
    BY DEF UpkeepInv, UpkeepTypes
  <2>2. CASE Upkeep!BeginBackups
    BY <2>1, <2>2, TypesFrom
    DEF Upkeep!BeginBackups, Upkeep!Idle, UpkeepTypes, BackupSteps
  <2>3. CASE Upkeep!EndBackups \/ Upkeep!RetentionFails \/ Upkeep!EndMaintenance
    BY <2>1, <2>3, TypesFrom
    DEF Upkeep!EndBackups, Upkeep!RetentionFails, Upkeep!EndMaintenance, Upkeep!Idle, UpkeepTypes
  <2>4. ASSUME NEW d \in Databases, Upkeep!SkipBackup(d)
        PROVE  /\ UNCHANGED <<clock, files, backed, written, stored, archived>>
               /\ job'.pc = "choose"
               /\ UpkeepTypes'
    <3>1. job' = [pc |-> "choose", left |-> job.left \ {d}, db |-> job.db,
                  cutoff |-> job.cutoff, found |-> job.found]
      BY <2>1, <2>4 DEF Upkeep!SkipBackup, UpkeepTypes
    <3> QED BY <2>1, <2>4, <3>1, TypesFrom DEF Upkeep!SkipBackup, UpkeepTypes, BackupSteps
  <2> QED BY <2>2, <2>3, <2>4
<1>2. clock \in Nat
  BY DEF UpkeepInv, UpkeepTypes
<1>3. CopiesInv' /\ RestoreInv'
  BY <1>1, <1>2, CopiesLeftAlone
<1>4. RetentionInv'
  BY <1>1, <1>2, RetentionLeftAlone DEF PruneSteps
<1> QED BY <1>1, <1>3, <1>4 DEF UpkeepInv

LEMMA UpkeepOpens ==
  ASSUME UpkeepInv, NEW d \in Databases, Upkeep!OpenCopy(d)
  PROVE  UpkeepInv'
<1> DEFINE old == files[d]
           new == <<[stamp |-> clock, whole |-> FALSE]>> \o old
<1>1. /\ clock \in Nat /\ old \in Copies /\ Len(old) \in Nat
      /\ Spaced(old) /\ UpTo(old, clock)
      /\ job.pc = "choose" /\ UpkeepTypes
  BY DEF UpkeepInv, UpkeepTypes, CopiesInv, Upkeep!OpenCopy, Copies
<1>2. old # <<>> => clock - old[1].stamp >= MinInterval
  BY DEF Upkeep!OpenCopy, Upkeep!BackupDue
<1>3. ~ (old # <<>> /\ Head(old).stamp = clock)
  <2> SUFFICES ASSUME old # <<>>, old[1].stamp = clock PROVE FALSE
    OBVIOUS
  <2> QED BY <1>1, <1>2, UpkeepAssumption
<1>4. /\ files' = [files EXCEPT ![d] = new]
      /\ UNCHANGED <<clock, daemon, backed, written, stored, archived>>
  BY <1>3 DEF Upkeep!OpenCopy, Upkeep!Copy
<1>5. job' = [pc |-> "copy", left |-> job.left \ {d}, db |-> d,
              cutoff |-> job.cutoff, found |-> job.found]
  BY <1>1 DEF Upkeep!OpenCopy, UpkeepTypes
<1>6. /\ new \in Copies /\ Len(new) = Len(old) + 1
      /\ Spaced(new) /\ UpTo(new, clock)
      /\ \A i \in 1..Len(old) : new[i + 1] = old[i]
  <2> HIDE DEF old
  <2> QED BY <1>1, <1>2, NewestCopy
<1>7. /\ files' \in [Databases -> Copies]
      /\ files'[d] = new /\ \A e \in Databases \ {d} : files'[e] = files[e]
  BY <1>1, <1>4, <1>6 DEF UpkeepTypes
<1> HIDE DEF new, old
<1>8. UpkeepTypes'
  BY <1>1, <1>4, <1>5, <1>7, TypesFrom DEF UpkeepTypes, BackupSteps
<1>9. CopiesInv'
  BY <1>4, <1>6, <1>7 DEF CopiesInv, UpkeepInv
<1>10. RestoreInv'
  <2>1. ASSUME NEW e \in backed, e # d
        PROVE  \E i \in 1..Len(files'[e]) :
                  files'[e][i].whole /\ (job'.pc = "copy" /\ job'.db = e => i > 1)
    BY <1>1, <1>5, <1>7, <2>1 DEF UpkeepInv, RestoreInv, UpkeepTypes
  <2>2. ASSUME d \in backed
        PROVE  \E i \in 1..Len(files'[d]) : files'[d][i].whole /\ i > 1
    <3>1. PICK i \in 1..Len(old) : old[i].whole
      BY <2>2 DEF UpkeepInv, RestoreInv, old
    <3>2. new[i + 1].whole /\ i + 1 \in 1..Len(new) /\ i + 1 > 1
      BY <1>1, <1>6, <3>1
    <3> QED BY <1>7, <3>2
  <2>3. files'[d] # <<>>
    BY <1>1, <1>6, <1>7
  <2> QED BY <1>4, <1>5, <2>1, <2>2, <2>3 DEF RestoreInv
<1>11. RetentionInv'
  BY <1>1, <1>4, <1>5, RetentionLeftAlone DEF PruneSteps
<1> QED BY <1>8, <1>9, <1>10, <1>11 DEF UpkeepInv

LEMMA UpkeepCompletes ==
  ASSUME UpkeepInv, Upkeep!CompleteCopy
  PROVE  UpkeepInv'
<1> DEFINE d == job.db
           old == files[d]
           new == [old EXCEPT ![1].whole = TRUE]
<1>1. /\ clock \in Nat /\ d \in Databases /\ old \in Copies /\ Len(old) \in Nat
      /\ 1 \in 1..Len(old) /\ Spaced(old) /\ UpTo(old, clock)
      /\ job.pc = "copy" /\ UpkeepTypes
  BY DEF UpkeepInv, UpkeepTypes, CopiesInv, RestoreInv, Upkeep!CompleteCopy, Copies
<1>2. /\ files' = [files EXCEPT ![d] = new]
      /\ UNCHANGED <<clock, daemon, written, stored, archived>>
      /\ backed' = backed \union {d}
  BY DEF Upkeep!CompleteCopy
<1>3. job' = [pc |-> "trim", left |-> job.left, db |-> d,
              cutoff |-> job.cutoff, found |-> job.found]
  BY <1>1 DEF Upkeep!CompleteCopy, UpkeepTypes
<1>4. old[1] \in [stamp : Nat, whole : BOOLEAN]
  BY <1>1, CopyType
<1>5. /\ new \in Copies /\ Len(new) = Len(old)
      /\ new[1].whole /\ new[1].stamp = old[1].stamp
      /\ \A i \in 1..Len(old) : i # 1 => new[i] = old[i]
  <2> DEFINE c == [old[1] EXCEPT !.whole = TRUE]
  <2>1. c \in [stamp : Nat, whole : BOOLEAN] /\ c.whole /\ c.stamp = old[1].stamp
    BY <1>4
  <2>2. new = [old EXCEPT ![1] = c]
    OBVIOUS
  <2> HIDE DEF c, old, new
  <2>3. /\ [old EXCEPT ![1] = c] \in Seq([stamp : Nat, whole : BOOLEAN])
        /\ Len([old EXCEPT ![1] = c]) = Len(old)
        /\ \A i \in 1..Len(old) : [old EXCEPT ![1] = c][i] = IF i = 1 THEN c ELSE old[i]
    BY <1>1, <2>1, FirstReplaced DEF Copies
  <2> QED BY <1>1, <2>1, <2>2, <2>3 DEF Copies
<1>6. /\ files' \in [Databases -> Copies]
      /\ files'[d] = new /\ \A e \in Databases \ {d} : files'[e] = files[e]
  BY <1>1, <1>2, <1>5 DEF UpkeepTypes
<1> HIDE DEF new, old
<1>7. Spaced(new) /\ UpTo(new, clock)
  <2>1. \A i \in 1..Len(old) : new[i].stamp = old[i].stamp
    BY <1>5
  <2> QED BY <1>1, <1>5, <2>1 DEF Spaced, UpTo
<1>8. UpkeepTypes'
  BY <1>1, <1>2, <1>3, <1>6, TypesFrom DEF UpkeepTypes, BackupSteps
<1>9. CopiesInv'
  BY <1>2, <1>6, <1>7 DEF CopiesInv, UpkeepInv
<1>10. RestoreInv'
  <2>1. new # <<>>
    BY <1>1, <1>5
  <2>2. ASSUME NEW e \in backed, e # d
        PROVE  \E i \in 1..Len(files'[e]) : files'[e][i].whole
    BY <1>1, <1>6, <2>2 DEF UpkeepInv, RestoreInv, UpkeepTypes
  <2> QED BY <1>1, <1>2, <1>3, <1>5, <1>6, <2>1, <2>2 DEF RestoreInv
<1>11. RetentionInv'
  BY <1>1, <1>2, <1>3, RetentionLeftAlone DEF PruneSteps
<1> QED BY <1>8, <1>9, <1>10, <1>11 DEF UpkeepInv

(* A copy that ends, whole or not, and leaves some of the files in a row.  *)
LEMMA UpkeepKeepsSome ==
  ASSUME UpkeepInv, NEW d \in Databases, NEW kept \in Copies, NEW k \in {0, 1},
         d = job.db, job.pc \in {"copy", "trim"},
         files' = [files EXCEPT ![d] = kept],
         Len(kept) + k <= Len(files[d]),
         \A i \in 1..Len(kept) : kept[i] = files[d][i + k],
         d \in backed => \E i \in 1..Len(kept) : kept[i].whole,
         job' = Upkeep!NextDatabase,
         UNCHANGED <<clock, daemon, backed, written, stored, archived>>
  PROVE  UpkeepInv'
<1>1. /\ clock \in Nat /\ files[d] \in Copies
      /\ Spaced(files[d]) /\ UpTo(files[d], clock) /\ UpkeepTypes
  BY DEF UpkeepInv, UpkeepTypes, CopiesInv
<1>2. job' = [pc |-> "choose", left |-> job.left, db |-> "none",
              cutoff |-> job.cutoff, found |-> job.found]
  BY <1>1 DEF Upkeep!NextDatabase, UpkeepTypes
<1>3. /\ files' \in [Databases -> Copies]
      /\ files'[d] = kept /\ \A e \in Databases \ {d} : files'[e] = files[e]
  BY <1>1 DEF UpkeepTypes
<1>4. UpkeepTypes'
  BY <1>1, <1>2, <1>3, TypesFrom DEF UpkeepTypes, BackupSteps
<1>5. CopiesInv'
  <2>1. Spaced(kept) /\ UpTo(kept, clock)
    BY <1>1, FewerCopies
  <2> QED BY <1>3, <2>1 DEF CopiesInv, UpkeepInv
<1>6. RestoreInv'
  <2>1. ASSUME NEW e \in backed, e # d
        PROVE  \E i \in 1..Len(files'[e]) : files'[e][i].whole
    BY <1>1, <1>3, <2>1 DEF UpkeepInv, RestoreInv, UpkeepTypes
  <2> QED BY <1>2, <1>3, <2>1 DEF RestoreInv
<1>7. RetentionInv'
  BY <1>1, <1>2, RetentionLeftAlone DEF PruneSteps
<1> QED BY <1>4, <1>5, <1>6, <1>7 DEF UpkeepInv

LEMMA UpkeepFails ==
  ASSUME UpkeepInv, Upkeep!CopyFails
  PROVE  UpkeepInv'
<1> DEFINE d == job.db
           old == files[d]
<1>1. /\ d \in Databases /\ old \in Copies /\ old # <<>> /\ job.pc = "copy"
  BY DEF UpkeepInv, UpkeepTypes, RestoreInv, Upkeep!CopyFails
<1>2. /\ files' = [files EXCEPT ![d] = Tail(old)]
      /\ job' = Upkeep!NextDatabase
      /\ UNCHANGED <<clock, daemon, backed, written, stored, archived>>
  BY DEF Upkeep!CopyFails
<1>3. /\ Tail(old) \in Copies /\ Len(Tail(old)) + 1 = Len(old) /\ Len(old) \in Nat
      /\ \A i \in 1..Len(Tail(old)) : Tail(old)[i] = old[i + 1]
  <2> HIDE DEF old
  <2> QED BY <1>1, HeadTailProperties, LenProperties DEF Copies
<1>4. ASSUME d \in backed PROVE \E i \in 1..Len(Tail(old)) : Tail(old)[i].whole
  <2>1. PICK i \in 1..Len(old) : old[i].whole /\ i > 1
    BY <1>1, <1>4 DEF UpkeepInv, RestoreInv
  <2>2. i - 1 \in 1..Len(Tail(old)) /\ Tail(old)[i - 1].whole
    BY <1>3, <2>1
  <2> QED BY <2>2
<1> HIDE DEF d
<1>5. Len(Tail(files[d])) + 1 <= Len(files[d])
  BY <1>3
<1> QED BY <1>1, <1>2, <1>3, <1>4, <1>5, UpkeepKeepsSome DEF d

LEMMA SmallerOf ==
  ASSUME NEW n \in Nat
  PROVE  Upkeep!Min({Keep, n}) \in {Keep, n} /\ Upkeep!Min({Keep, n}) <= n
<1>1. \E x \in {Keep, n} : \A y \in {Keep, n} : x =< y
  <2>1. CASE Keep =< n
    BY <2>1, UpkeepAssumption
  <2>2. CASE n =< Keep
    BY <2>2, UpkeepAssumption
  <2> QED BY <2>1, <2>2, UpkeepAssumption
<1> QED BY <1>1 DEF Upkeep!Min

LEMMA UpkeepTrims ==
  ASSUME UpkeepInv, Upkeep!TrimBackups
  PROVE  UpkeepInv'
<1> DEFINE d == job.db
           old == files[d]
           n == Upkeep!Min({Keep, Len(old)})
           kept == SubSeq(old, 1, n)
<1>1. /\ d \in Databases /\ old \in Copies /\ old # <<>> /\ old[1].whole
      /\ job.pc = "trim" /\ Len(old) \in Nat /\ 1 <= Len(old)
  BY DEF UpkeepInv, UpkeepTypes, RestoreInv, Upkeep!TrimBackups, Copies
<1>2. n \in Nat /\ 1 <= n /\ n <= Len(old)
  <2> HIDE DEF old
  <2> QED BY <1>1, SmallerOf, UpkeepAssumption
<1>3. /\ kept \in Copies /\ Len(kept) = n
      /\ \A i \in 1..Len(kept) : kept[i] = old[i + 0]
  <2>1. \A i \in 1..n : old[i] \in [stamp : Nat, whole : BOOLEAN]
    <3> HIDE DEF n, old
    <3> QED BY <1>1, <1>2, CopyType
  <2> HIDE DEF n, old
  <2>2. /\ kept \in Copies /\ Len(kept) = n - 1 + 1
        /\ \A i \in 1..(n - 1 + 1) : kept[i] = old[1 + i - 1]
    BY <1>2, <2>1, SubSeqProperties DEF Copies
  <2> QED BY <1>2, <2>2
<1>4. /\ job' = Upkeep!NextDatabase
      /\ UNCHANGED <<clock, daemon, backed, written, stored, archived>>
      /\ \/ files' = [files EXCEPT ![d] = kept]
         \/ UNCHANGED files
  BY DEF Upkeep!TrimBackups
<1>5. CASE files' = [files EXCEPT ![d] = kept]
  <2>1. \E i \in 1..Len(kept) : kept[i].whole
    <3> HIDE DEF kept, n, old
    <3>1. 1 \in 1..Len(kept) /\ kept[1] = old[1]
      BY <1>1, <1>2, <1>3
    <3> QED BY <1>1, <3>1
  <2>2. Len(kept) + 0 <= Len(files[d])
    BY <1>2, <1>3
  <2> HIDE DEF kept, d
  <2> QED BY <1>1, <1>3, <1>4, <1>5, <2>1, <2>2, UpkeepKeepsSome DEF d
<1>6. CASE UNCHANGED files
  <2>1. /\ Len(old) + 0 <= Len(files[d])
        /\ \A i \in 1..Len(old) : old[i] = files[d][i + 0]
        /\ files' = [files EXCEPT ![d] = old]
    BY <1>1, <1>6 DEF UpkeepInv, UpkeepTypes
  <2>2. \E i \in 1..Len(old) : old[i].whole
    BY <1>1
  <2> HIDE DEF old, d
  <2> QED BY <1>1, <1>4, <2>1, <2>2, UpkeepKeepsSome DEF d
<1> QED BY <1>4, <1>5, <1>6

(* The steps of the retention, of the writers and of the clock.            *)
LEMMA UpkeepRetains ==
  ASSUME UpkeepInv,
         \/ Upkeep!BeginRetention \/ Upkeep!WriteArchive \/ Upkeep!DeleteRows
         \/ Upkeep!WriteRow \/ Upkeep!StartMaintenance \/ Upkeep!Tick
  PROVE  UpkeepInv'
<1>1. /\ clock \in Nat /\ UpkeepTypes /\ CopiesInv /\ RestoreInv /\ RetentionInv
      /\ written \subseteq Nat /\ stored \subseteq Nat
  BY DEF UpkeepInv, UpkeepTypes
<1>2. CASE Upkeep!BeginRetention
  <2>1. job' = [pc |-> "archive", left |-> {}, db |-> "none", cutoff |-> clock - Horizon,
                found |-> {t \in written : t <= clock - Horizon}]
    BY <1>2 DEF Upkeep!BeginRetention, Upkeep!Idle
  <2>2. UNCHANGED <<clock, files, backed, written, stored, archived>>
    BY <1>2 DEF Upkeep!BeginRetention
  <2>3. UpkeepTypes'
    BY <1>1, <2>1, <2>2, TypesFrom DEF UpkeepTypes, PruneSteps
  <2>4. CopiesInv' /\ RestoreInv'
    BY <1>1, <2>1, <2>2, CopiesLeftAlone
  <2>5. RetentionInv'
    <3>1. job'.pc = "archive" /\ job'.cutoff = clock - Horizon /\ job'.cutoff \in Int
      BY <1>1, <2>1, UpkeepAssumption
    <3>2. \A t \in written' : t <= job'.cutoff => t \in job'.found
      BY <2>1, <2>2, <3>1
    <3>3. job'.cutoff <= clock' - Horizon
      BY <1>1, <2>2, <3>1, UpkeepAssumption
    <3> QED BY <1>1, <2>2, <3>1, <3>2, <3>3 DEF RetentionInv
  <2> QED BY <2>3, <2>4, <2>5 DEF UpkeepInv
<1>3. CASE Upkeep!WriteArchive
  <2>1. /\ job.pc = "archive"
        /\ job' = [pc |-> "delete", left |-> job.left, db |-> job.db, cutoff |-> job.cutoff,
                   found |-> job.found]
        /\ archived' = archived \union job.found
    BY <1>1, <1>3 DEF Upkeep!WriteArchive, UpkeepTypes
  <2>2. UNCHANGED <<clock, files, backed, written, stored>>
    BY <1>3 DEF Upkeep!WriteArchive
  <2>3. UpkeepTypes'
    BY <1>1, <2>1, <2>2, TypesFrom DEF UpkeepTypes, PruneSteps
  <2>4. CopiesInv' /\ RestoreInv'
    BY <1>1, <2>1, <2>2, CopiesLeftAlone
  <2>5. RetentionInv'
    BY <1>1, <2>1, <2>2, UpkeepAssumption DEF RetentionInv, PruneSteps
  <2> QED BY <2>3, <2>4, <2>5 DEF UpkeepInv
<1>4. CASE Upkeep!DeleteRows
  <2>1. /\ job.pc = "delete"
        /\ job' = [pc |-> "none", left |-> {}, db |-> "none", cutoff |-> 0, found |-> {}]
        /\ written' = {t \in written : t > job.cutoff}
    BY <1>4 DEF Upkeep!DeleteRows, Upkeep!Idle
  <2>2. UNCHANGED <<clock, files, backed, stored, archived>>
    BY <1>4 DEF Upkeep!DeleteRows
  <2>3. UpkeepTypes'
    BY <1>1, <2>1, <2>2, TypesFrom DEF UpkeepTypes
  <2>4. CopiesInv' /\ RestoreInv'
    BY <1>1, <2>1, <2>2, CopiesLeftAlone
  <2>5. /\ job.cutoff \in Int /\ job.cutoff <= clock - Horizon
        /\ \A t \in written : t <= job.cutoff => t \in archived
    BY <1>1, <2>1 DEF RetentionInv, PruneSteps
  <2>6. stored' \subseteq written' \union archived'
    BY <1>1, <2>1, <2>2, <2>5 DEF RetentionInv
  <2>7. \A t \in stored' : t > clock' - Horizon => t \in written'
    <3> SUFFICES ASSUME NEW t \in stored, t > clock - Horizon PROVE t \in written'
      BY <2>2
    <3>1. t \in written /\ t \in Nat
      BY <1>1 DEF RetentionInv
    <3>2. t > job.cutoff
      BY <1>1, <2>5, <3>1, UpkeepAssumption
    <3> QED BY <2>1, <3>1, <3>2
  <2>8. RetentionInv'
    BY <2>1, <2>6, <2>7 DEF RetentionInv, PruneSteps
  <2> QED BY <2>3, <2>4, <2>8 DEF UpkeepInv
<1>5. CASE Upkeep!WriteRow
  <2>1. /\ written' = written \union {clock} /\ stored' = stored \union {clock}
        /\ UNCHANGED <<clock, files, backed, archived, job>>
    BY <1>5 DEF Upkeep!WriteRow
  <2>2. UpkeepTypes'
    BY <1>1, <2>1 DEF UpkeepTypes
  <2>3. CopiesInv' /\ RestoreInv'
    BY <1>1, <2>1 DEF CopiesInv, RestoreInv
  <2>4. job.pc \in PruneSteps => ~ (clock <= job.cutoff)
    BY <1>1, UpkeepAssumption DEF RetentionInv
  <2>5. RetentionInv'
    BY <1>1, <2>1, <2>4 DEF RetentionInv
  <2> QED BY <2>2, <2>3, <2>5 DEF UpkeepInv
<1>6. CASE Upkeep!StartMaintenance \/ Upkeep!Tick
  <2>1. /\ clock' \in Nat /\ clock' >= clock
        /\ UNCHANGED <<files, backed, written, stored, archived, job>>
    BY <1>1, <1>6 DEF Upkeep!StartMaintenance, Upkeep!Tick
  <2>2. UpkeepTypes'
    BY <1>1, <2>1 DEF UpkeepTypes
  <2>3. CopiesInv'
    BY <1>1, <2>1, EarlierIsUpTo DEF CopiesInv, UpkeepTypes
  <2>4. RestoreInv'
    BY <1>1, <2>1 DEF RestoreInv
  <2>5. RetentionInv'
    BY <2>1, RetentionLeftAlone
  <2> QED BY <2>2, <2>3, <2>4, <2>5 DEF UpkeepInv
<1> QED BY <1>2, <1>3, <1>4, <1>5, <1>6

LEMMA NextUpkeep == UpkeepInv /\ [Upkeep!Next]_upkeepVars => UpkeepInv'
<1>1. CASE UNCHANGED upkeepVars
  BY <1>1 DEF upkeepVars, UpkeepInv, UpkeepTypes, CopiesInv, RestoreInv, RetentionInv
<1>2. ASSUME UpkeepInv, Upkeep!Next PROVE UpkeepInv'
  BY <1>2, UpkeepChooses, UpkeepOpens, UpkeepCompletes, UpkeepFails, UpkeepTrims, UpkeepRetains
  DEF Upkeep!Next
<1> QED BY <1>1, <1>2

(* A step of the union is a step of each of its parts, or leaves it alone. *)
LEMMA UpkeepPart == RecordsNext \/ UNCHANGED all => [Upkeep!Next]_upkeepVars
  BY DEF RecordsNext, Rest, all, upkeepVars

(* For any databases, intervals, slots and horizons: a database that was   *)
(* backed up once has a complete copy whatever was killed or failed, no    *)
(* restarts use up the slots, and no row is lost or leaves early.          *)
THEOREM BackupsAreSound == RecordsSpec => []BackupsSound
<1>1. RecordsInit => UpkeepInv
  BY InitUpkeep DEF RecordsInit
<1>2. UpkeepInv /\ [RecordsNext]_all => UpkeepInv'
  BY NextUpkeep, UpkeepPart
<1>3. UpkeepInv => BackupsSound
  <2> SUFFICES ASSUME UpkeepInv PROVE BackupsSound
    OBVIOUS
  <2>1. Upkeep!RestorePointKept
    <3> SUFFICES ASSUME NEW d \in backed
                 PROVE  \E i \in DOMAIN files[d] : files[d][i].whole
      BY DEF Upkeep!RestorePointKept
    <3>1. files[d] \in Copies
      BY DEF UpkeepInv, UpkeepTypes
    <3> QED BY <3>1 DEF UpkeepInv, RestoreInv, Copies
  <2>2. Upkeep!CopiesSpaced
    BY DEF UpkeepInv, CopiesInv, Spaced, Upkeep!CopiesSpaced
  <2>3. Upkeep!RowsKept
    BY DEF UpkeepInv, RetentionInv, Upkeep!RowsKept
  <2> QED BY <2>1, <2>2, <2>3 DEF BackupsSound
<1> QED BY <1>1, <1>2, <1>3, PTL DEF RecordsSpec

-----------------------------------------------------------------------------
(* What a session restores of the one before. *)

Episode == [off : BOOLEAN, since : Int]
Published == [known : BOOLEAN, paused : BOOLEAN, away : Episode]
LoopSteps == {"poll", "tick", "emit", "remind", "sleep"}

SessionTypes ==
    /\ minute \in Nat
    /\ settings \in [traded : SUBSET Symbols, enabled : SUBSET Symbols]
    /\ session \in [pc : {"down", "boot"} \union LoopSteps, left : SUBSET Symbols]
    /\ engine \in [paused : SUBSET Symbols, held : SUBSET Symbols, away : [Symbols -> Episode]]
    /\ reminder \in Int /\ reminder >= -1
    /\ states \in [Symbols -> Published]
    /\ published \subseteq Symbols
    /\ shown \in [Symbols -> Episode]
    /\ quiet \in [Symbols -> Int]

(* A pass of a session is over symbols that it trades. *)
PassInv ==
    /\ session.left \subseteq settings.traded
    /\ session.pc \in {"down", "boot"} => session.left = {}

(* A published pause stands in the table, and while a session runs it is   *)
(* also in its memory.                                                     *)
PauseInv ==
    /\ \A s \in published : states[s].known /\ states[s].paused
    /\ Restarts!PauseKept

EpisodeInv ==
    /\ \A s \in Symbols : shown[s].off => states[s].known /\ states[s].away = shown[s]
    /\ Restarts!EpisodeKept

(* What is not paused is not counted, what is paused is counted no higher  *)
(* than the age of the reminder, and that is back under its limit before   *)
(* the sleep.                                                              *)
QuietInv ==
    /\ \A s \in Symbols : s \notin engine.paused => quiet[s] = 0
    /\ \A s \in settings.traded : quiet[s] <= IF reminder = -1 THEN 0 ELSE reminder
    /\ reminder <= ReminderAfter
    /\ session.pc \in {"down", "boot"} => engine.paused = {}
    /\ session.pc = "sleep" =>
          /\ reminder < ReminderAfter
          /\ reminder = -1 => engine.paused \intersect settings.traded = {}

SessionsInv == SessionTypes /\ PassInv /\ PauseInv /\ EpisodeInv /\ QuietInv

LEMMA InitSessions == Restarts!Init => SessionsInv
<1> SUFFICES ASSUME Restarts!Init PROVE SessionsInv
  OBVIOUS
<1>1. /\ minute = 0 /\ settings = [traded |-> Symbols, enabled |-> Symbols]
      /\ session = [pc |-> "down", left |-> {}]
      /\ engine = [paused |-> {}, held |-> {},
                   away |-> [s \in Symbols |-> [off |-> FALSE, since |-> -1]]]
      /\ reminder = -1
      /\ published = {} /\ quiet = [s \in Symbols |-> 0]
      /\ shown = [s \in Symbols |-> states[s].away]
  BY DEF Restarts!Init, Restarts!Down, Restarts!Fresh, Restarts!Onside, Restarts!NoTime
<1>2. states \in [Symbols -> Published]
  BY DEF Restarts!Init, Restarts!Row, Restarts!NoRow, Restarts!Off, Restarts!Onside,
         Restarts!NoTime, Published, Episode
<1>3. \A s \in Symbols : states[s].away.off => states[s].known
  BY DEF Restarts!Init, Restarts!Row, Restarts!NoRow, Restarts!Off, Restarts!Onside
<1>4. SessionTypes
  BY <1>1, <1>2 DEF SessionTypes, Published, Episode
<1>5. PassInv /\ PauseInv /\ EpisodeInv /\ QuietInv
  BY <1>1, <1>2, <1>3, SessionsAssumption
  DEF PassInv, PauseInv, EpisodeInv, QuietInv, Restarts!PauseKept, Restarts!EpisodeKept,
      Restarts!Loops
<1> QED BY <1>4, <1>5 DEF SessionsInv

(* The episode of one symbol begins or ends. *)
LEMMA AwayAt ==
  ASSUME NEW away \in [Symbols -> Episode], NEW s \in Symbols, NEW x \in Episode
  PROVE  /\ [away EXCEPT ![s] = x] \in [Symbols -> Episode]
         /\ [away EXCEPT ![s] = x][s] = x
         /\ \A t \in Symbols \ {s} : [away EXCEPT ![s] = x][t] = away[t]
  OBVIOUS

(* Starting and stopping. *)
LEMMA SessionStarts ==
  ASSUME SessionsInv, Restarts!StartLive \/ Restarts!BootFails
  PROVE  SessionsInv'
<1>1. /\ session'.pc \in {"down", "boot"} /\ session' \in [pc : {"down", "boot"}, left : {{}}]
      /\ session.pc \in {"down", "boot"}
      /\ UNCHANGED <<minute, settings, engine, reminder, states, published, shown, quiet>>
  BY DEF Restarts!StartLive, Restarts!BootFails, Restarts!Goto, Restarts!Down, Restarts!history
<1>2. SessionTypes' /\ PassInv'
  BY <1>1 DEF SessionsInv, SessionTypes, PassInv
<1>3. PauseInv' /\ EpisodeInv' /\ QuietInv'
  BY <1>1 DEF SessionsInv, PauseInv, EpisodeInv, QuietInv, Restarts!PauseKept,
              Restarts!EpisodeKept, Restarts!Loops
<1> QED BY <1>2, <1>3 DEF SessionsInv

LEMMA SessionRestores ==
  ASSUME SessionsInv, Restarts!Restore
  PROVE  SessionsInv'
<1> DEFINE paused == {s \in Symbols : Restarts!Restored(s) /\ states[s].paused}
           away == [s \in Symbols |-> IF Restarts!Seeds(s) THEN states[s].away
                                      ELSE [off |-> FALSE, since |-> -1]]
<1>1. /\ session.pc = "boot" /\ session' = [pc |-> "poll", left |-> {}]
      /\ engine' = [paused |-> paused, held |-> {}, away |-> away]
      /\ quiet' = [s \in Symbols |-> IF s \in paused THEN quiet[s] ELSE 0]
      /\ shown' = [s \in Symbols |-> IF s \in settings.traded /\ ~Restarts!Seeds(s)
                                     THEN [off |-> FALSE, since |-> -1] ELSE shown[s]]
      /\ reminder' = -1
      /\ UNCHANGED <<minute, settings, states, published>>
  BY DEF Restarts!Restore, Restarts!Counting, Restarts!Over, Restarts!Goto, Restarts!Onside,
         Restarts!NoTime, SessionsInv, SessionTypes
<1>2. SessionTypes' /\ PassInv'
  BY <1>1 DEF SessionsInv, SessionTypes, PassInv, Episode, Published, LoopSteps
<1>3. PauseInv'
  BY <1>1 DEF SessionsInv, SessionTypes, PauseInv, Restarts!PauseKept, Restarts!Restored
<1>4. EpisodeInv'
  BY <1>1 DEF SessionsInv, SessionTypes, EpisodeInv, Restarts!EpisodeKept, Restarts!Seeds,
              Restarts!Restored
<1>5. QuietInv'
  <2>1. \A s \in Symbols : quiet[s] = 0
    BY <1>1 DEF SessionsInv, QuietInv
  <2> QED BY <1>1, <2>1, SessionsAssumption DEF SessionsInv, SessionTypes, QuietInv
<1> QED BY <1>2, <1>3, <1>4, <1>5 DEF SessionsInv

LEMMA SessionRestoresNothing ==
  ASSUME SessionsInv, Restarts!RestoreFails
  PROVE  SessionsInv'
<1>1. /\ session.pc = "boot" /\ session' = [pc |-> "poll", left |-> {}]
      /\ engine' = [paused |-> {}, held |-> {},
                    away |-> [s \in Symbols |-> [off |-> FALSE, since |-> -1]]]
      /\ quiet' = [s \in Symbols |-> 0]
      /\ published' = published \ settings.traded
      /\ shown' = [s \in Symbols |-> IF s \in settings.traded
                                     THEN [off |-> FALSE, since |-> -1] ELSE shown[s]]
      /\ reminder' = -1
      /\ UNCHANGED <<minute, settings, states>>
  BY DEF Restarts!RestoreFails, Restarts!Counting, Restarts!Over, Restarts!Lifted,
         Restarts!Goto, Restarts!Onside, Restarts!NoTime, Restarts!Fresh
<1>2. SessionTypes' /\ PassInv'
  BY <1>1 DEF SessionsInv, SessionTypes, PassInv, Episode, Published, LoopSteps
<1>3. PauseInv' /\ EpisodeInv' /\ QuietInv'
  BY <1>1, SessionsAssumption
  DEF SessionsInv, SessionTypes, PauseInv, EpisodeInv, QuietInv, Restarts!PauseKept,
      Restarts!EpisodeKept
<1> QED BY <1>2, <1>3 DEF SessionsInv

(* A step that only goes on within a pass, or to the next one.             *)
LEMMA SessionGoesOn ==
  ASSUME SessionsInv,
         \/ Restarts!BeginTick \/ Restarts!EndTick \/ Restarts!EndEmit
         \/ \E s \in Symbols : Restarts!SkipStep(s) \/ Restarts!EmitFails(s)
  PROVE  SessionsInv'
<1>1. /\ session.pc \in LoopSteps /\ session'.pc \in {"tick", "emit", "remind"}
      /\ session' \in [pc : LoopSteps, left : SUBSET settings.traded]
      /\ UNCHANGED <<minute, settings, engine, reminder, states, published, shown, quiet>>
  BY DEF Restarts!BeginTick, Restarts!EndTick, Restarts!EndEmit, Restarts!SkipStep,
         Restarts!EmitFails, Restarts!Goto, Restarts!Done, Restarts!history, SessionsInv,
         SessionTypes, PassInv, LoopSteps
<1>2. SessionTypes' /\ PassInv'
  BY <1>1 DEF SessionsInv, SessionTypes, PassInv
<1>3. PauseInv' /\ EpisodeInv' /\ QuietInv'
  BY <1>1 DEF SessionsInv, PauseInv, EpisodeInv, QuietInv, Restarts!PauseKept,
              Restarts!EpisodeKept, Restarts!Loops, LoopSteps
<1> QED BY <1>2, <1>3 DEF SessionsInv

(* A pause, of the operator's or because the key is dead.                  *)
LEMMA SessionPauses ==
  ASSUME SessionsInv,
         Restarts!KeyIsDead \/ \E ss \in SUBSET settings.traded : Restarts!Pause(ss)
  PROVE  SessionsInv'
<1>1. PICK ss \in SUBSET settings.traded :
         engine' = [engine EXCEPT !.paused = @ \union ss]
  BY DEF Restarts!KeyIsDead, Restarts!Pause
<1>2. /\ session.pc \in {"poll", "tick"}
      /\ UNCHANGED <<minute, settings, session, reminder, states, published, shown, quiet>>
  BY DEF Restarts!KeyIsDead, Restarts!Pause, Restarts!history
<1>3. /\ engine'.paused = engine.paused \union ss /\ engine'.away = engine.away
      /\ engine' \in [paused : SUBSET Symbols, held : SUBSET Symbols, away : [Symbols -> Episode]]
  BY <1>1 DEF SessionsInv, SessionTypes
<1>4. SessionTypes' /\ PassInv'
  BY <1>2, <1>3 DEF SessionsInv, SessionTypes, PassInv
<1>5. PauseInv' /\ EpisodeInv' /\ QuietInv'
  BY <1>2, <1>3 DEF SessionsInv, PauseInv, EpisodeInv, QuietInv, Restarts!PauseKept,
              Restarts!EpisodeKept, Restarts!Loops
<1> QED BY <1>4, <1>5 DEF SessionsInv

LEMMA SessionResumes ==
  ASSUME SessionsInv, NEW ss \in SUBSET Symbols, Restarts!Resume(ss)
  PROVE  SessionsInv'
<1>1. /\ session.pc = "poll"
      /\ engine'.paused = engine.paused \ ss /\ engine'.away = engine.away
      /\ engine' \in [paused : SUBSET Symbols, held : SUBSET Symbols, away : [Symbols -> Episode]]
  BY DEF Restarts!Resume, SessionsInv, SessionTypes
<1>2. /\ quiet' = [s \in Symbols |-> IF s \in engine'.paused THEN quiet[s] ELSE 0]
      /\ published' = published \ ss
      /\ UNCHANGED <<minute, settings, session, reminder, states, shown>>
  BY DEF Restarts!Resume, Restarts!Counting, Restarts!Lifted
<1>3. SessionTypes' /\ PassInv'
  BY <1>1, <1>2 DEF SessionsInv, SessionTypes, PassInv
<1>4. PauseInv' /\ EpisodeInv'
  BY <1>1, <1>2 DEF SessionsInv, PauseInv, EpisodeInv, Restarts!PauseKept,
              Restarts!EpisodeKept, Restarts!Loops
<1>5. QuietInv'
  BY <1>1, <1>2 DEF SessionsInv, SessionTypes, QuietInv
<1> QED BY <1>3, <1>4, <1>5 DEF SessionsInv

LEMMA SessionReanchors ==
  ASSUME SessionsInv, NEW s \in Symbols, Restarts!Reanchor(s)
  PROVE  SessionsInv'
<1> DEFINE on == [off |-> FALSE, since |-> -1]
           away == [engine.away EXCEPT ![s] = on]
<1>1. engine.away \in [Symbols -> Episode] /\ on \in Episode
  BY DEF SessionsInv, SessionTypes, Episode
<1>2. /\ away \in [Symbols -> Episode] /\ away[s] = on
      /\ \A t \in Symbols \ {s} : away[t] = engine.away[t]
  BY <1>1, AwayAt
<1>3. /\ session.pc = "poll"
      /\ engine' = [paused |-> engine.paused \ {s}, held |-> engine.held \ {s}, away |-> away]
  BY DEF Restarts!Reanchor, Restarts!Onside, Restarts!NoTime, SessionsInv, SessionTypes
<1> HIDE DEF away
<1>4. /\ session.pc = "poll"
      /\ engine'.paused = engine.paused \ {s} /\ engine'.away = away
      /\ engine' \in [paused : SUBSET Symbols, held : SUBSET Symbols, away : [Symbols -> Episode]]
  BY <1>2, <1>3 DEF SessionsInv, SessionTypes
<1>5. /\ quiet' = [t \in Symbols |-> IF t \in engine'.paused THEN quiet[t] ELSE 0]
      /\ published' = published \ {s}
      /\ shown' = [t \in Symbols |-> IF t \in {s} THEN [off |-> FALSE, since |-> -1] ELSE shown[t]]
      /\ UNCHANGED <<minute, settings, session, reminder, states>>
  BY DEF Restarts!Reanchor, Restarts!Counting, Restarts!Lifted, Restarts!Over,
         Restarts!Onside, Restarts!NoTime
<1>6. SessionTypes' /\ PassInv'
  BY <1>4, <1>5 DEF SessionsInv, SessionTypes, PassInv, Episode
<1>7. PauseInv'
  BY <1>4, <1>5 DEF SessionsInv, PauseInv, Restarts!PauseKept, Restarts!Loops
<1>8. EpisodeInv'
  BY <1>2, <1>4, <1>5 DEF SessionsInv, SessionTypes, EpisodeInv, Restarts!EpisodeKept, Restarts!Loops
<1>9. QuietInv'
  BY <1>4, <1>5 DEF SessionsInv, SessionTypes, QuietInv
<1> QED BY <1>6, <1>7, <1>8, <1>9 DEF SessionsInv

(* What a tick finds of the price of a symbol.                             *)
LEMMA SessionSteps ==
  ASSUME SessionsInv, NEW s \in Symbols,
         Restarts!StepOffside(s) \/ Restarts!StepOnside(s) \/ Restarts!HoldVanished(s)
  PROVE  SessionsInv'
<1>1. /\ session.pc = "tick" /\ s \in session.left
      /\ session' = [session EXCEPT !.left = @ \ {s}]
      /\ UNCHANGED <<minute, settings, reminder, states, published, quiet>>
  BY DEF Restarts!StepOffside, Restarts!StepOnside, Restarts!HoldVanished, Restarts!Steps,
         Restarts!Done, Restarts!history
<1>2. /\ engine'.paused \in {engine.paused, engine.paused \union {s}}
      /\ engine' \in [paused : SUBSET Symbols, held : SUBSET Symbols, away : [Symbols -> Episode]]
      /\ \A t \in Symbols \ {s} : engine'.away[t] = engine.away[t] /\ shown'[t] = shown[t]
      /\ shown' \in [Symbols -> Episode]
      /\ \/ shown'[s] = [off |-> FALSE, since |-> -1]
         \/ /\ shown'[s] = shown[s]
            /\ engine.away[s].off => engine'.away[s] = engine.away[s]
  <2>0. engine.away \in [Symbols -> Episode] /\ minute \in Nat
    BY DEF SessionsInv, SessionTypes
  <2>1. CASE Restarts!StepOffside(s)
    <3> DEFINE x == IF engine.away[s].off THEN engine.away[s] ELSE [off |-> TRUE, since |-> minute]
               away == [engine.away EXCEPT ![s] = x]
    <3>1. x \in Episode
      BY <2>0 DEF Episode
    <3>2. engine' = [paused |-> engine.paused, held |-> engine.held, away |-> away] /\ shown' = shown
      BY <2>1 DEF Restarts!StepOffside, Restarts!Off, Restarts!history, SessionsInv, SessionTypes
    <3>3. /\ away \in [Symbols -> Episode] /\ away[s] = x
          /\ \A t \in Symbols \ {s} : away[t] = engine.away[t]
      BY <2>0, <3>1, AwayAt
    <3> HIDE DEF away
    <3> QED BY <3>2, <3>3 DEF SessionsInv, SessionTypes
  <2>2. CASE Restarts!StepOnside(s) \/ Restarts!HoldVanished(s)
    <3> DEFINE on == [off |-> FALSE, since |-> -1]
               away == [engine.away EXCEPT ![s] = on]
    <3>1. on \in Episode
      BY DEF Episode
    <3>2. /\ \E pp \in {engine.paused, engine.paused \union {s}},
               hh \in {engine.held, engine.held \union {s}} :
               engine' = [paused |-> pp, held |-> hh, away |-> away]
          /\ shown' = [t \in Symbols |-> IF t \in {s} THEN on ELSE shown[t]]
      BY <2>2 DEF Restarts!StepOnside, Restarts!HoldVanished, Restarts!Over, Restarts!Onside,
                  Restarts!NoTime, SessionsInv, SessionTypes
    <3>3. /\ away \in [Symbols -> Episode] /\ away[s] = on
          /\ \A t \in Symbols \ {s} : away[t] = engine.away[t]
      BY <2>0, <3>1, AwayAt
    <3>4. /\ shown' \in [Symbols -> Episode] /\ shown'[s] = on
          /\ \A t \in Symbols \ {s} : shown'[t] = shown[t]
      BY <3>1, <3>2 DEF SessionsInv, SessionTypes
    <3> HIDE DEF away
    <3> QED BY <3>2, <3>3, <3>4 DEF SessionsInv, SessionTypes
  <2> QED BY <2>1, <2>2
<1>3. SessionTypes' /\ PassInv'
  BY <1>1, <1>2 DEF SessionsInv, SessionTypes, PassInv
<1>4. PauseInv'
  BY <1>1, <1>2 DEF SessionsInv, SessionTypes, PauseInv, Restarts!PauseKept, Restarts!Loops
<1>5. EpisodeInv'
  BY <1>1, <1>2 DEF SessionsInv, SessionTypes, EpisodeInv, Restarts!EpisodeKept, Restarts!Loops
<1>6. QuietInv'
  BY <1>1, <1>2 DEF SessionsInv, SessionTypes, QuietInv
<1> QED BY <1>3, <1>4, <1>5, <1>6 DEF SessionsInv

(* What is published is what the engine knows.                             *)
LEMMA SessionEmits ==
  ASSUME SessionsInv, NEW s \in Symbols, Restarts!Emit(s)
  PROVE  SessionsInv'
<1> DEFINE row == [known |-> TRUE, paused |-> s \in engine.paused, away |-> engine.away[s]]
<1>1. /\ session.pc = "emit" /\ s \in session.left
      /\ session' = [session EXCEPT !.left = @ \ {s}]
      /\ states' = [states EXCEPT ![s] = row]
      /\ published' = IF s \in engine.paused THEN published \union {s} ELSE published
      /\ shown' = [shown EXCEPT ![s] = engine.away[s]]
      /\ UNCHANGED <<minute, settings, engine, reminder, quiet>>
  BY DEF Restarts!Emit, Restarts!Row, Restarts!Done
<1>2. row \in Published /\ row.known /\ row.away = engine.away[s]
  BY DEF SessionsInv, SessionTypes, Published
<1>3. row.paused <=> s \in engine.paused
  OBVIOUS
<1> HIDE DEF row
<1>4. SessionTypes' /\ PassInv'
  BY <1>1, <1>2 DEF SessionsInv, SessionTypes, PassInv
<1>5. PauseInv'
  BY <1>1, <1>2, <1>3 DEF SessionsInv, SessionTypes, PauseInv, PassInv, Restarts!PauseKept, Restarts!Loops
<1>6. EpisodeInv'
  BY <1>1, <1>2 DEF SessionsInv, SessionTypes, EpisodeInv, Restarts!EpisodeKept, Restarts!Loops
<1>7. QuietInv'
  BY <1>1 DEF SessionsInv, SessionTypes, QuietInv
<1> QED BY <1>4, <1>5, <1>6, <1>7 DEF SessionsInv

LEMMA SessionReminds ==
  ASSUME SessionsInv, Restarts!Remind
  PROVE  SessionsInv'
<1> DEFINE named == engine.paused \intersect settings.traded
           sends == named # {} /\ reminder # -1 /\ reminder >= ReminderAfter
<1>1. /\ session.pc = "remind" /\ session' = [pc |-> "sleep", left |-> {}]
      /\ reminder' = IF named = {} THEN -1 ELSE IF reminder = -1 \/ sends THEN 0 ELSE reminder
      /\ quiet' = [s \in Symbols |-> IF sends /\ s \in named THEN 0 ELSE quiet[s]]
      /\ UNCHANGED <<minute, settings, engine, states, published, shown>>
  BY DEF Restarts!Remind, Restarts!Held, Restarts!Goto, Restarts!NoTime
<1>2. SessionTypes' /\ PassInv'
  BY <1>1 DEF SessionsInv, SessionTypes, PassInv, LoopSteps
<1>3. PauseInv' /\ EpisodeInv'
  BY <1>1 DEF SessionsInv, PauseInv, EpisodeInv, Restarts!PauseKept,
              Restarts!EpisodeKept, Restarts!Loops
<1>4. \A s \in settings.traded : s \in Symbols /\ quiet[s] \in Int /\ (s \in named \/ quiet[s] = 0)
  BY DEF SessionsInv, SessionTypes, QuietInv
<1>5. \A s \in settings.traded : quiet'[s] <= IF reminder' = -1 THEN 0 ELSE reminder'
  BY <1>1, <1>4, SessionsAssumption DEF SessionsInv, SessionTypes, QuietInv
<1>6. QuietInv'
  BY <1>1, <1>5, SessionsAssumption DEF SessionsInv, SessionTypes, QuietInv
<1> QED BY <1>2, <1>3, <1>6 DEF SessionsInv

LEMMA SessionSleeps ==
  ASSUME SessionsInv, Restarts!EndSleep
  PROVE  SessionsInv'
<1>1. /\ session.pc = "sleep" /\ session' = [pc |-> "poll", left |-> {}]
      /\ minute' = IF minute < SessionsEnd THEN minute + 1 ELSE minute
      /\ reminder' = IF reminder = -1 THEN -1 ELSE reminder + 1
      /\ quiet' = [s \in Symbols |-> IF s \in engine.paused THEN quiet[s] + 1 ELSE 0]
      /\ UNCHANGED <<settings, engine, states, published, shown>>
  BY DEF Restarts!EndSleep, Restarts!Goto, Restarts!NoTime
<1>2. SessionTypes' /\ PassInv'
  BY <1>1 DEF SessionsInv, SessionTypes, PassInv, LoopSteps
<1>3. PauseInv' /\ EpisodeInv'
  BY <1>1 DEF SessionsInv, PauseInv, EpisodeInv, Restarts!PauseKept,
              Restarts!EpisodeKept, Restarts!Loops
<1>4. QuietInv'
  BY <1>1, SessionsAssumption DEF SessionsInv, SessionTypes, QuietInv
<1> QED BY <1>2, <1>3, <1>4 DEF SessionsInv

(* While no session runs.                                                  *)
LEMMA SessionIsDown ==
  ASSUME SessionsInv, Restarts!EndLive \/ Restarts!EditSettings \/ Restarts!Elapse
  PROVE  SessionsInv'
<1>1. CASE Restarts!EndLive
  <2>1. /\ session' = [pc |-> "down", left |-> {}]
        /\ engine' = [paused |-> {}, held |-> {},
                      away |-> [s \in Symbols |-> [off |-> FALSE, since |-> -1]]]
        /\ reminder' = -1 /\ quiet' = [s \in Symbols |-> 0]
        /\ UNCHANGED <<minute, settings, states, published, shown>>
    BY <1>1 DEF Restarts!EndLive, Restarts!Down, Restarts!Fresh, Restarts!Onside,
                Restarts!NoTime, Restarts!Counting
  <2>2. SessionTypes' /\ PassInv'
    BY <2>1 DEF SessionsInv, SessionTypes, PassInv, Episode
  <2>3. PauseInv' /\ EpisodeInv' /\ QuietInv'
    BY <2>1, SessionsAssumption
    DEF SessionsInv, SessionTypes, PauseInv, EpisodeInv, QuietInv, Restarts!PauseKept,
        Restarts!EpisodeKept, Restarts!Loops
  <2> QED BY <2>2, <2>3 DEF SessionsInv
<1>2. CASE Restarts!EditSettings \/ Restarts!Elapse
  <2>1. /\ session.pc = "down" /\ minute' \in Nat
        /\ settings' \in [traded : SUBSET Symbols, enabled : SUBSET Symbols]
        /\ \/ UNCHANGED settings
           \/ UNCHANGED session
        /\ UNCHANGED <<session, engine, reminder, states, published, shown, quiet>>
    BY <1>2 DEF Restarts!EditSettings, Restarts!Elapse, Restarts!memory, Restarts!history,
                SessionsInv, SessionTypes
  <2>2. SessionTypes'
    BY <2>1 DEF SessionsInv, SessionTypes
  <2>3. PassInv' /\ PauseInv' /\ EpisodeInv'
    BY <2>1 DEF SessionsInv, PassInv, PauseInv, EpisodeInv, Restarts!PauseKept, Restarts!EpisodeKept,
                Restarts!Loops
  <2>4. \A s \in Symbols : quiet[s] = 0
    BY <2>1 DEF SessionsInv, QuietInv
  <2>5. QuietInv'
    BY <2>1, <2>2, <2>4 DEF SessionsInv, SessionTypes, QuietInv
  <2> QED BY <2>2, <2>3, <2>5 DEF SessionsInv
<1> QED BY <1>1, <1>2

LEMMA NextSessions == SessionsInv /\ [Restarts!Next]_restartVars => SessionsInv'
<1>1. CASE UNCHANGED restartVars
  BY <1>1 DEF restartVars, SessionsInv, SessionTypes, PassInv, PauseInv, EpisodeInv, QuietInv,
              Restarts!PauseKept, Restarts!EpisodeKept, Restarts!Loops
<1>2. ASSUME SessionsInv, Restarts!Next PROVE SessionsInv'
  <2>1. settings.traded \subseteq Symbols /\ engine.paused \subseteq Symbols
    BY <1>2 DEF SessionsInv, SessionTypes
  <2>2. ASSUME NEW s \in settings.traded,
               Restarts!Pause({s}) \/ Restarts!Resume({s}) \/ Restarts!Reanchor(s)
        PROVE  SessionsInv'
    BY <1>2, <2>1, <2>2, SessionPauses, SessionResumes, SessionReanchors
  <2>3. CASE Restarts!Pause(settings.traded) \/ Restarts!Resume(engine.paused)
    BY <1>2, <2>1, <2>3, SessionPauses, SessionResumes
  <2> QED
    BY <1>2, <2>2, <2>3, SessionStarts, SessionRestores, SessionRestoresNothing, SessionGoesOn,
       SessionPauses, SessionSteps, SessionEmits, SessionReminds, SessionSleeps, SessionIsDown
    DEF Restarts!Next
<1> QED BY <1>1, <1>2

LEMMA RestartsPart == RecordsNext \/ UNCHANGED all => [Restarts!Next]_restartVars
  BY DEF RecordsNext, Rest, all, restartVars

(* For any symbols and reminder interval: a published pause holds in every *)
(* later session that trades the symbol, an episode keeps its start, and   *)
(* what stays paused is named again in time.                               *)
THEOREM StateIsKept == RecordsSpec => []StateKept
<1>1. RecordsInit => SessionsInv
  BY InitSessions DEF RecordsInit
<1>2. SessionsInv /\ [RecordsNext]_all => SessionsInv'
  BY NextSessions, RestartsPart
<1>3. SessionsInv => StateKept
  <2>1. ASSUME SessionsInv, NEW s \in settings.traded PROVE quiet[s] <= ReminderAfter
    BY <2>1, SessionsAssumption DEF SessionsInv, SessionTypes, QuietInv
  <2> QED BY <2>1 DEF SessionsInv, PauseInv, EpisodeInv, StateKept, Restarts!HeldIsTold
<1> QED BY <1>1, <1>2, <1>3, PTL DEF RecordsSpec

-----------------------------------------------------------------------------
(* The migration. *)

Submissions == {"absent", "accepted", "rejected", "unknown", "reserved"}
HasState(d) == "submission_state" \in d.columns

(* The failures of an earlier release are held, or have been looked up.    *)
FailuresHeld(d) ==
    /\ HasState(d)
    /\ \A r \in d.results : r.status = "failed" => r.submission # "accepted"

(* A database, or the draft of one.                                        *)
DataOK(d) ==
    /\ d = [columns |-> d.columns, wide |-> d.wide, calls |-> d.calls, copied |-> d.copied,
            snapshots |-> d.snapshots, unique |-> d.unique, results |-> d.results,
            guard |-> d.guard]
    /\ d.columns \subseteq Deploy!Columns
    /\ d.wide \in BOOLEAN /\ d.unique \in BOOLEAN /\ d.guard \in BOOLEAN
    /\ d.snapshots \in [Times -> Nat]
    /\ \A t \in seenTimes : d.snapshots[t] > 0
    /\ \A r \in d.results :
          /\ r = [id |-> r.id, proposal |-> r.proposal, status |-> r.status,
                  submission |-> r.submission]
          /\ r.submission \in Submissions
          /\ r.submission = "absent" <=> ~HasState(d)
          /\ r.submission = "unknown" => r.status = "failed"
    /\ (\E r \in d.results : r.submission = "reserved") =>
          \A r \in d.results : r.status = "failed" => r.submission = "rejected"

(* What a database has that a connect has brought to its k-th step.        *)
Reached(d, k) ==
    /\ k > 1 => "trace_id" \in d.columns
    /\ k > 2 => d.wide
    /\ k > 3 => d.unique
    /\ k > 4 => d.guard \/ Deploy!Doubled(d)
    /\ k > 5 => HasState(d)
    /\ k > 6 => FailuresHeld(d)
    /\ k > 7 => "offside_since" \in d.columns

(* e has all of this that d has.                                           *)
NoLess(d, e) == \A k \in 0..9 : Reached(d, k) => Reached(e, k)

Phases == {"start", "alter", "copy", "drop", "rename", "release", "collapse", "index"}

Draft(c) == tx.owner = c

ConnTypes ==
    /\ conn \in [Daemons -> [at : 0..9, pc : Phases]]
    /\ tx.owner \in Daemons \union {"none"}
    /\ tx = [owner |-> tx.owner, draft |-> tx.draft]
    /\ tx.owner = "none" => tx = Deploy!NoTx
    /\ seenTimes \subseteq Times

MigrationInv ==
    /\ DataOK(db)
    /\ tx.owner # "none" => DataOK(tx.draft) /\ NoLess(db, tx.draft)
    /\ \A c \in Daemons :
          /\ Reached(Deploy!View(c), conn[c].at)
          /\ conn[c].at = 9 => ~Draft(c)

(* The calls are in the table, but for the moment in which the copy of the *)
(* table has not taken its name yet.                                       *)
CallsInv ==
    /\ seenCalls \subseteq db.calls
    /\ \A c \in Daemons :
          /\ Draft(c) /\ ~(conn[c].at = 2 /\ conn[c].pc = "rename") =>
                seenCalls \subseteq tx.draft.calls
          /\ conn[c].at = 2 /\ conn[c].pc \in {"drop", "rename"} =>
                Draft(c) /\ seenCalls \subseteq tx.draft.copied

(* Who has changed rows keeps the lock until the commit; a rebuild that is *)
(* released has left the wide table.                                       *)
DraftInv ==
    \A c \in Daemons :
        /\ conn[c].at \in {7, 8} => Draft(c)
        /\ conn[c].at = 2 /\ conn[c].pc # "start" => Draft(c)
        /\ conn[c].at = 2 /\ conn[c].pc = "release" => tx.draft.wide

DeployInv == ConnTypes /\ MigrationInv /\ CallsInv /\ DraftInv

(* The steps by their numbers. *)
LEMMA StepAt ==
  /\ Deploy!Ready = 9 /\ Len(Deploy!Program) = 8
  /\ \A c, pc : 
        /\ Deploy!At(c, "trace_id", pc) <=> conn[c].at = 1 /\ conn[c].pc = pc
        /\ Deploy!At(c, "rebuild", pc) <=> conn[c].at = 2 /\ conn[c].pc = pc
        /\ Deploy!At(c, "snapshots", pc) <=> conn[c].at = 3 /\ conn[c].pc = pc
        /\ Deploy!At(c, "guard", pc) <=> conn[c].at = 4 /\ conn[c].pc = pc
        /\ Deploy!At(c, "submission_state", pc) <=> conn[c].at = 5 /\ conn[c].pc = pc
        /\ Deploy!At(c, "failed", pc) <=> conn[c].at = 6 /\ conn[c].pc = pc
        /\ Deploy!At(c, "offside_since", pc) <=> conn[c].at = 7 /\ conn[c].pc = pc
        /\ Deploy!At(c, "commit", pc) <=> conn[c].at = 8 /\ conn[c].pc = pc
<1>1. Len(Deploy!Program) = 8 /\ Deploy!Ready = 9
  BY DEF Deploy!Program, Deploy!Ready
<1>2. /\ Deploy!Program[1] = "trace_id" /\ Deploy!Program[2] = "rebuild"
      /\ Deploy!Program[3] = "snapshots" /\ Deploy!Program[4] = "guard"
      /\ Deploy!Program[5] = "submission_state" /\ Deploy!Program[6] = "failed"
      /\ Deploy!Program[7] = "offside_since" /\ Deploy!Program[8] = "commit"
  BY DEF Deploy!Program
<1>3. \A i \in 1..8 : i \in {1, 2, 3, 4, 5, 6, 7, 8}
  OBVIOUS
<1> QED BY <1>1, <1>2, <1>3 DEF Deploy!At

LEMMA InitDeploy == Deploy!Init => DeployInv
<1> SUFFICES ASSUME Deploy!Init PROVE DeployInv
  OBVIOUS
<1>1. PICK results \in Legacy :
         db = [columns |-> {}, wide |-> FALSE, calls |-> {"old"}, copied |-> {},
               snapshots |-> [t \in Times |-> 0], unique |-> FALSE, results |-> results,
               guard |-> FALSE]
  BY DEF Deploy!Init
<1>2. /\ tx = [owner |-> "none", draft |-> <<>>] /\ conn = [c \in Daemons |-> [at |-> 0, pc |-> "start"]]
      /\ seenCalls = {"old"} /\ seenTimes = {}
  BY DEF Deploy!Init, Deploy!NoTx, Deploy!Down
<1>3. ConnTypes
  BY <1>2 DEF ConnTypes, Deploy!NoTx, Phases
<1>4. CallsInv
  BY <1>1, <1>2, LegacyAssumption DEF CallsInv, Draft
<1>5. DataOK(db)
  <2>1. \A r \in results : /\ r = [id |-> r.id, proposal |-> r.proposal, status |-> r.status,
                                   submission |-> r.submission]
                           /\ r.submission = "absent"
    BY LegacyAssumption
  <2> QED BY <1>1, <1>2, <2>1 DEF DataOK, HasState, Submissions
<1>6. MigrationInv
  BY <1>2, <1>5 DEF MigrationInv, Reached
<1>7. DraftInv
  BY <1>2 DEF DraftInv
<1> QED BY <1>3, <1>4, <1>6, <1>7 DEF DeployInv

LEMMA MoreIsNoLess ==
  ASSUME NEW d, NEW e, d.columns \subseteq e.columns, d.wide => e.wide, d.unique => e.unique,
         d.guard \/ Deploy!Doubled(d) => e.guard \/ Deploy!Doubled(e),
         FailuresHeld(d) => FailuresHeld(e)
  PROVE  NoLess(d, e)
<1> SUFFICES ASSUME NEW k \in 0..9, Reached(d, k) PROVE Reached(e, k)
  BY DEF NoLess
<1> QED BY DEF Reached, HasState

LEMMA SameResultsDoubled ==
  ASSUME NEW d, NEW e, e.results = d.results
  PROVE  Deploy!Doubled(d) <=> Deploy!Doubled(e)
  BY DEF Deploy!Doubled, Deploy!Blocking

(* A document that differs in neither columns nor results.                 *)
LEMMA OtherPartsNoLess ==
  ASSUME NEW d, NEW e, e.columns = d.columns, e.results = d.results, d.wide => e.wide,
         d.unique => e.unique, d.guard => e.guard
  PROVE  NoLess(d, e)
<1>1. Deploy!Doubled(d) <=> Deploy!Doubled(e)
  BY SameResultsDoubled
<1>2. FailuresHeld(d) => FailuresHeld(e)
  BY DEF FailuresHeld, HasState
<1> QED BY <1>1, <1>2, MoreIsNoLess

(* A connect that writes nothing, and goes on to a step that its view      *)
(* allows.                                                                 *)
LEMMA DeployGoesOn ==
  ASSUME DeployInv, NEW c \in Daemons, NEW at \in 0..8, NEW pc \in Phases,
         Reached(Deploy!View(c), at), UNCHANGED <<db, tx, seenTimes>>,
         conn' = [conn EXCEPT ![c] = [at |-> at, pc |-> pc]]
  PROVE  ConnTypes' /\ MigrationInv'
<1>1. ConnTypes'
  BY DEF DeployInv, ConnTypes
<1>2. /\ conn'[c] = [at |-> at, pc |-> pc]
      /\ \A e \in Daemons \ {c} : conn'[e] = conn[e]
      /\ \A e : Deploy!View(e)' = Deploy!View(e) /\ Draft(e)' = Draft(e)
  BY DEF DeployInv, ConnTypes, Deploy!View, Draft
<1>3. DataOK(db)' /\ (tx.owner # "none" => DataOK(tx.draft) /\ NoLess(db, tx.draft))'
  BY DEF DeployInv, MigrationInv, DataOK, HasState, NoLess, Reached, FailuresHeld
<1>4. ASSUME NEW e \in Daemons
      PROVE  (Reached(Deploy!View(e), conn[e].at) /\ (conn[e].at = 9 => ~Draft(e)))'
  <2>1. CASE e = c
    BY <1>2, <2>1
  <2>2. CASE e # c
    BY <1>2, <2>2 DEF DeployInv, MigrationInv
  <2> QED BY <2>1, <2>2
<1> QED BY <1>1, <1>3, <1>4 DEF MigrationInv

(* A connect that writes, in a transaction or by itself.                   *)
LEMMA DeployWrites ==
  ASSUME DeployInv, NEW c \in Daemons, NEW new, NEW at \in 0..8, NEW pc \in Phases,
         DataOK(new), NoLess(Deploy!View(c), new), Reached(new, at),
         Deploy!Define(c, new) \/ Deploy!Change(c, new), UNCHANGED seenTimes,
         conn' = [conn EXCEPT ![c] = [at |-> at, pc |-> pc]]
  PROVE  ConnTypes' /\ MigrationInv'
<1>1. /\ conn'[c] = [at |-> at, pc |-> pc] /\ conn' \in [Daemons -> [at : 0..9, pc : Phases]]
      /\ \A e \in Daemons \ {c} : conn'[e] = conn[e]
      /\ c # "none"
  BY LegacyAssumption DEF DeployInv, ConnTypes
<1>2. DataOK(new)'
  BY DEF DataOK
<1>3. CASE tx' = [owner |-> c, draft |-> new] /\ db' = db /\ tx.owner \in {c, "none"}
  <2>1. NoLess(db, new)
    <3>1. NoLess(db, Deploy!View(c))
      BY <1>1, <1>3 DEF DeployInv, MigrationInv, NoLess, Deploy!View
    <3> QED BY <3>1 DEF NoLess
  <2>2. DataOK(db)'
    BY <1>3 DEF DataOK, DeployInv, MigrationInv
  <2>3. ASSUME NEW e \in Daemons
        PROVE  (Reached(Deploy!View(e), conn[e].at) /\ (conn[e].at = 9 => ~Draft(e)))'
    <3>1. CASE e = c
      BY <1>1, <1>3, <3>1 DEF Deploy!View
    <3>2. CASE e # c
      <4>1. e # tx.owner /\ e # tx'.owner
        BY <1>3, <3>2, LegacyAssumption
      <4> QED BY <1>1, <1>3, <3>2, <4>1 DEF DeployInv, MigrationInv, Deploy!View, Draft
    <3> QED BY <3>1, <3>2
  <2>4. (NoLess(db, tx.draft))' /\ DataOK(tx.draft)'
    BY <1>2, <1>3, <2>1 DEF DataOK, NoLess, Reached
  <2>5. ConnTypes'
    BY <1>1, <1>3 DEF DeployInv, ConnTypes
  <2> QED BY <1>3, <2>2, <2>3, <2>4, <2>5 DEF MigrationInv
<1>4. CASE tx' = tx /\ tx.owner = "none" /\ db' = new
  <2>1. NoLess(db, db')
    BY <1>1, <1>4 DEF Deploy!View
  <2>2. DataOK(db)'
    BY <1>2, <1>4 DEF DataOK
  <2>3. ASSUME NEW e \in Daemons
        PROVE  (Reached(Deploy!View(e), conn[e].at) /\ (conn[e].at = 9 => ~Draft(e)))'
    <3>1. e # "none"
      BY LegacyAssumption
    <3>2. CASE e = c
      BY <1>1, <1>4, <3>1, <3>2 DEF Deploy!View
    <3>3. CASE e # c
      <4>1. Reached(db, conn[e].at) /\ conn[e].at \in 0..9
        BY <1>4, <3>1 DEF DeployInv, MigrationInv, ConnTypes, Deploy!View
      <4>2. Reached(db', conn[e].at)
        BY <2>1, <4>1 DEF NoLess
      <4> QED BY <1>1, <1>4, <3>1, <3>3, <4>2 DEF Deploy!View, Draft
    <3> QED BY <3>2, <3>3
  <2>4. ConnTypes'
    BY <1>1, <1>4 DEF DeployInv, ConnTypes
  <2> QED BY <1>4, <2>2, <2>3, <2>4 DEF MigrationInv
<1>5. tx = [owner |-> tx.owner, draft |-> tx.draft]
  BY DEF DeployInv, ConnTypes
<1> QED BY <1>3, <1>4, <1>5 DEF Deploy!Define, Deploy!Change, Deploy!MayWrite

(* A connect that commits what it wrote.                                   *)
LEMMA DeployCommits ==
  ASSUME DeployInv, NEW c \in Daemons, NEW at \in 0..9, NEW pc \in Phases,
         Reached(Deploy!View(c), at), Deploy!Commit(c), UNCHANGED seenTimes, Draft(c),
         conn' = [conn EXCEPT ![c] = [at |-> at, pc |-> pc]]
  PROVE  ConnTypes' /\ MigrationInv'
<1>1. /\ conn'[c] = [at |-> at, pc |-> pc] /\ conn' \in [Daemons -> [at : 0..9, pc : Phases]]
      /\ \A e \in Daemons \ {c} : conn'[e] = conn[e]
      /\ c # "none" /\ tx.owner = c
      /\ tx' = Deploy!NoTx /\ db' = tx.draft
  BY LegacyAssumption DEF DeployInv, ConnTypes, Deploy!Commit, Deploy!View, Draft
<1>2. DataOK(tx.draft) /\ NoLess(db, db')
  BY <1>1 DEF DeployInv, MigrationInv
<1>3. DataOK(db)'
  BY <1>1, <1>2 DEF DataOK
<1>4. tx' = [owner |-> "none", draft |-> <<>>]
  BY <1>1 DEF Deploy!NoTx
<1>5. ConnTypes'
  BY <1>1, <1>4 DEF DeployInv, ConnTypes
<1>6. ASSUME NEW e \in Daemons
      PROVE  (Reached(Deploy!View(e), conn[e].at) /\ (conn[e].at = 9 => ~Draft(e)))'
  <2>1. e # "none"
    BY LegacyAssumption
  <2>2. CASE e = c
    BY <1>1, <1>4, <2>1, <2>2 DEF Deploy!View, Draft
  <2>3. CASE e # c
    <3>1. Reached(db, conn[e].at) /\ conn[e].at \in 0..9
      BY <1>1, <2>3 DEF DeployInv, MigrationInv, ConnTypes, Deploy!View
    <3>2. Reached(db', conn[e].at)
      BY <1>2, <3>1 DEF NoLess
    <3> QED BY <1>1, <1>4, <2>1, <2>3, <3>2 DEF Deploy!View, Draft
  <2> QED BY <2>2, <2>3
<1> QED BY <1>3, <1>4, <1>5, <1>6 DEF MigrationInv

(* A connect that fails takes its draft with it.                           *)
LEMMA DeployAborts ==
  ASSUME DeployInv, NEW c \in Daemons, Deploy!Abort(c)
  PROVE  DeployInv'
<1>1. /\ conn' = [conn EXCEPT ![c] = [at |-> 0, pc |-> "start"]]
      /\ tx' = IF tx.owner = c THEN Deploy!NoTx ELSE tx
      /\ UNCHANGED <<db, seenCalls, seenTimes>>
  BY DEF Deploy!Abort, Deploy!Down
<1>2. /\ conn'[c] = [at |-> 0, pc |-> "start"] /\ conn' \in [Daemons -> [at : 0..9, pc : Phases]]
      /\ \A e \in Daemons \ {c} : conn'[e] = conn[e]
      /\ c # "none"
  BY <1>1, LegacyAssumption DEF DeployInv, ConnTypes, Phases
<1>3. ConnTypes'
  BY <1>1, <1>2 DEF DeployInv, ConnTypes, Deploy!NoTx
<1>4. \A e \in Daemons \ {c} : (Deploy!View(e))' = Deploy!View(e) /\ (Draft(e)' <=> Draft(e))
  BY <1>1, LegacyAssumption DEF Deploy!View, Draft, Deploy!NoTx
<1>5. \A d : DataOK(d)' <=> DataOK(d)
  BY <1>1 DEF DataOK
<1>6. /\ DataOK(db)'
      /\ (tx.owner # "none" => DataOK(tx.draft) /\ NoLess(db, tx.draft))'
  BY <1>1, <1>5 DEF DeployInv, MigrationInv, Deploy!NoTx, DataOK, NoLess, Reached
<1>7. \A e \in Daemons :
         (Reached(Deploy!View(e), conn[e].at) /\ (conn[e].at = 9 => ~Draft(e)))'
  BY <1>2, <1>4 DEF DeployInv, MigrationInv, Reached
<1>8. MigrationInv'
  BY <1>6, <1>7 DEF MigrationInv
<1>9. CallsInv'
  <2>1. tx'.owner # c
    BY <1>1, <1>2 DEF Deploy!NoTx
  <2>2. \A e \in Daemons \ {c} : Draft(e) => tx' = tx
    BY <1>1 DEF Draft
  <2> QED BY <1>1, <1>2, <1>4, <2>1, <2>2 DEF DeployInv, CallsInv, Draft
<1>10. DraftInv'
  <2>1. \A e \in Daemons \ {c} : Draft(e) => tx' = tx
    BY <1>1 DEF Draft
  <2> QED BY <1>1, <1>2, <1>4, <2>1 DEF DeployInv, DraftInv
<1> QED BY <1>3, <1>8, <1>9, <1>10 DEF DeployInv

(* What a view is, and that writing is possible only with or without a     *)
(* transaction of one's own.                                               *)
LEMMA ViewOK ==
  ASSUME DeployInv, NEW c \in Daemons
  PROVE  /\ DataOK(Deploy!View(c)) /\ Reached(Deploy!View(c), conn[c].at)
         /\ conn[c] \in [at : 0..9, pc : Phases]
         /\ ~Draft(c) => Deploy!View(c) = db
         /\ Draft(c) => Deploy!View(c) = tx.draft
         /\ Deploy!NextStep(c) => conn' = [conn EXCEPT ![c] = [at |-> conn[c].at + 1, pc |-> "start"]]
         /\ \A pc : Deploy!GoOn(c, pc) => conn' = [conn EXCEPT ![c] = [at |-> conn[c].at, pc |-> pc]]
<1>1. conn[c] \in [at : 0..9, pc : Phases]
  BY DEF DeployInv, ConnTypes
<1>2. DataOK(Deploy!View(c)) /\ Reached(Deploy!View(c), conn[c].at)
  BY LegacyAssumption DEF DeployInv, MigrationInv, Deploy!View
<1> QED BY <1>1, <1>2 DEF Draft, Deploy!View, Deploy!NextStep, Deploy!GoOn

(* The lock, when a connect writes or only goes on.                        *)
LEMMA DraftsKept ==
  ASSUME DeployInv, NEW c \in Daemons, NEW at, NEW pc, NEW new,
         Deploy!Define(c, new) \/ Deploy!Change(c, new) \/ UNCHANGED tx,
         conn' = [conn EXCEPT ![c] = [at |-> at, pc |-> pc]],
         at \in {7, 8} \/ (at = 2 /\ pc # "start") => Draft(c) \/ Deploy!Change(c, new),
         at = 2 /\ pc = "release" => tx'.draft.wide
  PROVE  DraftInv'
<1>1. /\ conn'[c] = [at |-> at, pc |-> pc]
      /\ \A e \in Daemons \ {c} : conn'[e] = conn[e]
      /\ tx = [owner |-> tx.owner, draft |-> tx.draft]
      /\ \A e \in Daemons : e # "none"
  BY LegacyAssumption DEF DeployInv, ConnTypes
<1>2. \/ tx' = [owner |-> c, draft |-> new] /\ tx.owner \in {c, "none"}
      \/ tx' = tx
  BY <1>1 DEF Deploy!Define, Deploy!Change, Deploy!MayWrite
<1>3. Deploy!Change(c, new) => tx'.owner = c
  BY DEF Deploy!Change
<1>4. ASSUME NEW e \in Daemons
      PROVE  /\ conn'[e].at \in {7, 8} => tx'.owner = e
             /\ conn'[e].at = 2 /\ conn'[e].pc # "start" => tx'.owner = e
             /\ conn'[e].at = 2 /\ conn'[e].pc = "release" => tx'.draft.wide
  <2>1. CASE e = c
    BY <1>1, <1>2, <1>3, <2>1 DEF Draft
  <2>2. CASE e # c
    BY <1>1, <1>2, <2>2 DEF DeployInv, DraftInv, Draft
  <2> QED BY <2>1, <2>2
<1> QED BY <1>4 DEF DraftInv, Draft

(* The calls, when a connect writes a document that has them all.          *)
LEMMA CallsKept ==
  ASSUME DeployInv, NEW c \in Daemons, NEW new, NEW at, NEW pc,
         \/ Deploy!Define(c, new) \/ Deploy!Change(c, new)
         \/ new = Deploy!View(c) /\ UNCHANGED <<db, tx>>,
         seenCalls \subseteq new.calls,
         at = 2 => pc \notin {"drop", "rename"},
         conn' = [conn EXCEPT ![c] = [at |-> at, pc |-> pc]],
         UNCHANGED seenCalls
  PROVE  CallsInv'
<1>1. /\ conn'[c] = [at |-> at, pc |-> pc]
      /\ \A e \in Daemons \ {c} : conn'[e] = conn[e]
      /\ c # "none"
      /\ tx = [owner |-> tx.owner, draft |-> tx.draft]
  BY LegacyAssumption DEF DeployInv, ConnTypes
<1>2. \/ tx' = [owner |-> c, draft |-> new] /\ db' = db /\ tx.owner \in {c, "none"}
      \/ tx' = tx /\ tx.owner = "none" /\ db' = new
      \/ tx' = tx /\ db' = db /\ new = Deploy!View(c)
  BY <1>1 DEF Deploy!Define, Deploy!Change, Deploy!MayWrite
<1>3. seenCalls \subseteq db'.calls
  BY <1>2 DEF DeployInv, CallsInv
<1>4. ASSUME NEW e \in Daemons
      PROVE  /\ tx'.owner = e /\ ~(conn'[e].at = 2 /\ conn'[e].pc = "rename") =>
                   seenCalls \subseteq tx'.draft.calls
             /\ conn'[e].at = 2 /\ conn'[e].pc \in {"drop", "rename"} =>
                   tx'.owner = e /\ seenCalls \subseteq tx'.draft.copied
  <2>3. e # "none"
    BY LegacyAssumption
  <2>1. CASE e = c
    BY <1>1, <1>2, <2>1, <2>3 DEF Deploy!View
  <2>2. CASE e # c
    <3>1. CASE tx'.owner = e \/ tx.owner = e
      <4>1. tx' = tx
        BY <1>1, <1>2, <2>2, <2>3, <3>1
      <4> QED BY <1>1, <2>2, <4>1 DEF DeployInv, CallsInv, Draft
    <3>2. CASE tx'.owner # e /\ tx.owner # e
      BY <1>1, <2>2, <3>2 DEF DeployInv, CallsInv, Draft
    <3> QED BY <3>1, <3>2
  <2> QED BY <2>1, <2>2
<1> QED BY <1>3, <1>4 DEF CallsInv, Draft

(* The view of a connect has all calls, but while the copy has no name.    *)
LEMMA ViewHasCalls ==
  ASSUME DeployInv, NEW c \in Daemons, ~(conn[c].at = 2 /\ conn[c].pc = "rename")
  PROVE  seenCalls \subseteq Deploy!View(c).calls
  BY DEF DeployInv, CallsInv, Draft, Deploy!View

(* Open, and the checks that write nothing.                                *)
LEMMA DeployChecks ==
  ASSUME DeployInv, NEW c \in Daemons,
         Deploy!Open(c) \/ Deploy!CheckColumn(c) \/ Deploy!CountSnapshots(c) \/ Deploy!CheckGuard(c)
  PROVE  DeployInv'
<1>1. /\ UNCHANGED <<db, tx, seenCalls, seenTimes>>
      /\ conn[c].at \notin {2, 6, 8, 9}
      /\ \/ /\ Deploy!NextStep(c)
            /\ Reached(Deploy!View(c), conn[c].at + 1)
         \/ \E pc \in {"alter", "collapse", "index"} : Deploy!GoOn(c, pc)
  <2>1. CASE Deploy!Open(c)
    BY <2>1 DEF Deploy!Open, Deploy!Down, Reached
  <2>2. CASE Deploy!CheckColumn(c)
    BY <2>2, StepAt, ViewOK DEF Deploy!CheckColumn, Deploy!Columns, Reached, HasState
  <2>3. CASE Deploy!CountSnapshots(c)
    BY <2>3, StepAt DEF Deploy!CountSnapshots
  <2>4. CASE Deploy!CheckGuard(c)
    BY <2>4, StepAt, ViewOK DEF Deploy!CheckGuard, Reached
  <2> QED BY <2>1, <2>2, <2>3, <2>4
<1>2. PICK at \in 0..8, pc \in Phases :
         /\ conn' = [conn EXCEPT ![c] = [at |-> at, pc |-> pc]]
         /\ Reached(Deploy!View(c), at)
         /\ pc \notin {"drop", "rename"}
         /\ at = 2 => pc = "start"
         /\ at \in {7, 8} => conn[c].at = 7
  <2> DEFINE Goal(at, pc) == /\ conn' = [conn EXCEPT ![c] = [at |-> at, pc |-> pc]]
                             /\ Reached(Deploy!View(c), at)
                             /\ pc \notin {"drop", "rename"}
                             /\ at = 2 => pc = "start"
                             /\ at \in {7, 8} => conn[c].at = 7
  <2>1. conn[c].at \in 0..7 /\ conn[c].at + 1 \in 0..8
    BY <1>1, ViewOK
  <2>2. CASE Deploy!NextStep(c) /\ Reached(Deploy!View(c), conn[c].at + 1)
    <3>1. Goal(conn[c].at + 1, "start")
      BY <1>1, <2>1, <2>2, ViewOK
    <3> QED BY <2>1, <3>1 DEF Phases
  <2>3. CASE \E pc \in {"alter", "collapse", "index"} : Deploy!GoOn(c, pc)
    <3>1. PICK pc \in {"alter", "collapse", "index"} : Deploy!GoOn(c, pc)
      BY <2>3
    <3>2. Goal(conn[c].at, pc) /\ pc \in Phases /\ conn[c].at \in 0..8
      BY <1>1, <2>1, <3>1, ViewOK DEF Phases
    <3> HIDE DEF Goal
    <3>3. \E at \in 0..8, q \in Phases : Goal(at, q)
      BY <3>2
    <3> QED BY <3>3 DEF Goal
  <2> QED BY <1>1, <2>2, <2>3
<1>3. ConnTypes' /\ MigrationInv'
  BY <1>1, <1>2, DeployGoesOn
<1>4. CallsInv'
  <2>1. seenCalls \subseteq Deploy!View(c).calls
    BY <1>1, ViewHasCalls
  <2> QED BY <1>1, <1>2, <2>1, CallsKept
<1>5. DraftInv'
  <2>1. conn[c].at = 7 => Draft(c)
    BY DEF DeployInv, DraftInv
  <2> QED BY <1>1, <1>2, <2>1, DraftsKept
<1> QED BY <1>3, <1>4, <1>5 DEF DeployInv

(* A column that is added.                                                 *)
LEMMA ColumnAdded ==
  ASSUME NEW d, DataOK(d), NEW column \in Deploy!Columns, column \notin d.columns
  PROVE  LET e == Deploy!WithColumn(d, column)
         IN /\ DataOK(e) /\ NoLess(d, e) /\ column \in e.columns /\ e.calls = d.calls
            /\ \A k \in 0..9 : Reached(d, k) => Reached(e, k)
<1> DEFINE mark(r) == [r EXCEPT !.submission = "accepted"]
           rows1 == IF column = "submission_state" THEN {mark(r) : r \in d.results} ELSE d.results
           e == [columns |-> d.columns \union {column}, wide |-> d.wide, calls |-> d.calls,
                 copied |-> d.copied, snapshots |-> d.snapshots, unique |-> d.unique,
                 results |-> rows1, guard |-> d.guard]
<1>1. Deploy!WithColumn(d, column) = e
  <2> HIDE DEF rows1
  <2>1. d = [columns |-> d.columns, wide |-> d.wide, calls |-> d.calls, copied |-> d.copied,
             snapshots |-> d.snapshots, unique |-> d.unique, results |-> d.results,
             guard |-> d.guard]
    BY DEF DataOK
  <2>2. Deploy!WithColumn(d, column)
          = [d EXCEPT !.columns = d.columns \union {column}, !.results = rows1]
    BY Zenon DEF Deploy!WithColumn, rows1
  <2> QED BY <2>1, <2>2
<1>2. CASE column # "submission_state"
  <2>1. e.results = d.results /\ (HasState(e) <=> HasState(d)) /\ d.columns \subseteq e.columns
    BY <1>2 DEF HasState
  <2>2. DataOK(e)
    BY <2>1 DEF DataOK
  <2>3. FailuresHeld(d) => FailuresHeld(e)
    BY <2>1 DEF FailuresHeld
  <2>4. Deploy!Doubled(d) <=> Deploy!Doubled(e)
    <3> HIDE DEF e
    <3> QED BY <2>1, SameResultsDoubled
  <2>5. NoLess(d, e)
    <3>1. e.wide = d.wide /\ e.unique = d.unique /\ e.guard = d.guard
      OBVIOUS
    <3> HIDE DEF e
    <3> QED BY <2>1, <2>3, <2>4, <3>1, MoreIsNoLess
  <2> QED BY <1>1, <2>2, <2>5 DEF NoLess
<1>3. CASE column = "submission_state"
  <2>1. ~HasState(d) /\ HasState(e) /\ e.results = {mark(r) : r \in d.results}
    BY <1>3 DEF HasState
  <2>2. \A r \in d.results :
           r = [id |-> r.id, proposal |-> r.proposal, status |-> r.status, submission |-> "absent"]
    BY <2>1 DEF DataOK
  <2>3. \A r \in d.results :
           mark(r) = [id |-> r.id, proposal |-> r.proposal, status |-> r.status,
                      submission |-> "accepted"]
    BY <2>2
  <2>7. \A q \in e.results :
          /\ q = [id |-> q.id, proposal |-> q.proposal, status |-> q.status,
                  submission |-> q.submission]
          /\ q.submission = "accepted"
    <3> SUFFICES ASSUME NEW r \in d.results
                 PROVE  /\ mark(r) = [id |-> mark(r).id, proposal |-> mark(r).proposal,
                                      status |-> mark(r).status, submission |-> mark(r).submission]
                        /\ mark(r).submission = "accepted"
      BY <2>1
    <3> QED BY <2>3
  <2>8. /\ d.columns \subseteq Deploy!Columns
        /\ d.wide \in BOOLEAN /\ d.unique \in BOOLEAN /\ d.guard \in BOOLEAN
        /\ d.snapshots \in [Times -> Nat]
        /\ \A t \in seenTimes : d.snapshots[t] > 0
    BY DEF DataOK
  <2>9. DataOK(e)
    <3> HIDE DEF rows1, mark
    <3> QED BY <2>1, <2>7, <2>8 DEF DataOK, Submissions
  <2>4. Deploy!Doubled(d) => Deploy!Doubled(e)
    <3> SUFFICES ASSUME NEW r \in d.results, NEW q \in d.results, r # q,
                        r.status # "failed", q.status # "failed", r.proposal = q.proposal
                 PROVE  Deploy!Doubled(e)
      BY DEF Deploy!Doubled, Deploy!Blocking
    <3>1. r.id # q.id \/ r.status # q.status
      BY <2>2
    <3>2. mark(r) # mark(q) /\ mark(r) \in e.results /\ mark(q) \in e.results
      BY <2>1, <2>3, <3>1
    <3>3. /\ mark(r).status # "failed" /\ mark(q).status # "failed"
          /\ mark(r).proposal = mark(q).proposal
      BY <2>3
    <3> HIDE DEF mark, e
    <3> QED BY <3>2, <3>3 DEF Deploy!Doubled, Deploy!Blocking
  <2>5. ~FailuresHeld(d)
    BY <2>1 DEF FailuresHeld
  <2>6. NoLess(d, e)
    <3>1. /\ e.wide = d.wide /\ e.unique = d.unique /\ e.guard = d.guard
          /\ d.columns \subseteq e.columns
      OBVIOUS
    <3> HIDE DEF e
    <3> QED BY <2>4, <2>5, <3>1, MoreIsNoLess
  <2> QED BY <1>1, <2>6, <2>9 DEF NoLess
<1> QED BY <1>2, <1>3

LEMMA DeployAlters ==
  ASSUME DeployInv, NEW c \in Daemons, Deploy!AlterColumn(c)
  PROVE  DeployInv'
<1> DEFINE d == Deploy!View(c)
           at == conn[c].at
<1>1. PICK column \in Deploy!Columns :
         /\ Deploy!At(c, column, "alter")
         /\ IF column \in d.columns THEN UNCHANGED <<db, tx>>
            ELSE Deploy!Define(c, Deploy!WithColumn(d, column))
         /\ Deploy!NextStep(c)
         /\ UNCHANGED <<seenCalls, seenTimes>>
  BY DEF Deploy!AlterColumn
<1>2. /\ at \in 0..9 /\ at + 1 \in 0..8 /\ at # 2 /\ at + 1 # 9
      /\ at \in {1, 5, 7}
      /\ column = IF at = 1 THEN "trace_id" ELSE IF at = 5 THEN "submission_state" ELSE "offside_since"
  BY <1>1, StepAt, ViewOK DEF Deploy!Columns
<1>3. /\ conn' = [conn EXCEPT ![c] = [at |-> at + 1, pc |-> "start"]]
      /\ DataOK(d) /\ Reached(d, at) /\ "start" \in Phases
  BY <1>1, ViewOK DEF Phases
<1>4. seenCalls \subseteq d.calls
  BY <1>2, ViewHasCalls
<1>7. DraftInv'
  <2>1. conn[c].at = 7 => Draft(c)
    BY DEF DeployInv, DraftInv
  <2> DEFINE new == Deploy!WithColumn(d, column)
  <2>2. Deploy!Define(c, new) \/ Deploy!Change(c, new) \/ UNCHANGED tx
    BY <1>1
  <2> HIDE DEF new
  <2>3. /\ at + 1 \in {7, 8} \/ (at + 1 = 2 /\ "start" # "start") => Draft(c)
        /\ ~(at + 1 = 2 /\ "start" = "release")
    BY <1>2, <2>1
  <2> QED BY <1>3, <2>2, <2>3, DraftsKept
<1>5. CASE column \in d.columns
  <2>1. Reached(d, at + 1)
    BY <1>2, <1>3, <1>5 DEF Reached, HasState
  <2>2. ConnTypes' /\ MigrationInv'
    BY <1>1, <1>2, <1>3, <1>5, <2>1, DeployGoesOn
  <2>3. CallsInv'
    BY <1>1, <1>3, <1>4, <1>5, CallsKept
  <2> QED BY <1>7, <2>2, <2>3 DEF DeployInv
<1>6. CASE column \notin d.columns
  <2> DEFINE new == Deploy!WithColumn(d, column)
  <2>1. /\ DataOK(new) /\ NoLess(d, new) /\ column \in new.columns /\ new.calls = d.calls
        /\ Reached(new, at)
    BY <1>2, <1>3, <1>6, ColumnAdded
  <2> HIDE DEF new
  <2>2. Reached(new, at + 1)
    BY <1>2, <2>1 DEF Reached, HasState
  <2>3. Deploy!Define(c, new)
    BY <1>1, <1>6 DEF new
  <2>4. ConnTypes' /\ MigrationInv'
    BY <1>1, <1>2, <1>3, <2>1, <2>2, <2>3, DeployWrites
  <2>5. CallsInv'
    BY <1>1, <1>3, <1>4, <2>1, <2>3, CallsKept
  <2> QED BY <1>7, <2>4, <2>5 DEF DeployInv
<1> QED BY <1>5, <1>6


(* What a document is, field by field.                                     *)
LEMMA Fields ==
  ASSUME NEW d, DataOK(d)
  PROVE  d = [columns |-> d.columns, wide |-> d.wide, calls |-> d.calls, copied |-> d.copied,
              snapshots |-> d.snapshots, unique |-> d.unique, results |-> d.results,
              guard |-> d.guard]
  BY DEF DataOK

(* A document whose results and columns are those of another.              *)
LEMMA SameResultsOK ==
  ASSUME NEW d, DataOK(d), NEW wide \in BOOLEAN, NEW calls, NEW copied,
         NEW snapshots \in [Times -> Nat], NEW unique \in BOOLEAN, NEW guard \in BOOLEAN,
         \A t \in seenTimes : snapshots[t] > 0
  PROVE  DataOK([columns |-> d.columns, wide |-> wide, calls |-> calls, copied |-> copied,
                 snapshots |-> snapshots, unique |-> unique, results |-> d.results,
                 guard |-> guard])
<1> DEFINE e == [columns |-> d.columns, wide |-> wide, calls |-> calls, copied |-> copied,
                 snapshots |-> snapshots, unique |-> unique, results |-> d.results,
                 guard |-> guard]
<1>1. HasState(e) <=> HasState(d)
  BY DEF HasState
<1> QED BY <1>1 DEF DataOK

(* The calls, within the rebuild of their table.                           *)
LEMMA CallsCopied ==
  ASSUME DeployInv, NEW c \in Daemons, NEW new, NEW pc,
         tx' = [owner |-> c, draft |-> new], db' = db, tx.owner \in {c, "none"},
         pc # "rename" => seenCalls \subseteq new.calls,
         seenCalls \subseteq new.copied,
         conn' = [conn EXCEPT ![c] = [at |-> 2, pc |-> pc]],
         UNCHANGED seenCalls
  PROVE  CallsInv'
<1>1. /\ conn'[c] = [at |-> 2, pc |-> pc]
      /\ \A e \in Daemons \ {c} : conn'[e] = conn[e] /\ tx.owner # e
  BY LegacyAssumption DEF DeployInv, ConnTypes
<1>2. ASSUME NEW e \in Daemons
      PROVE  /\ tx'.owner = e /\ ~(conn'[e].at = 2 /\ conn'[e].pc = "rename") =>
                   seenCalls \subseteq tx'.draft.calls
             /\ conn'[e].at = 2 /\ conn'[e].pc \in {"drop", "rename"} =>
                   tx'.owner = e /\ seenCalls \subseteq tx'.draft.copied
  <2>1. CASE e = c
    BY <1>1, <2>1
  <2>2. CASE e # c
    BY <1>1, <2>2 DEF DeployInv, CallsInv, Draft
  <2> QED BY <2>1, <2>2
<1> QED BY <1>2 DEF CallsInv, Draft, DeployInv

(* The rebuild of the table of the calls.                                  *)
LEMMA DeployRebuilds ==
  ASSUME DeployInv, NEW c \in Daemons,
         Deploy!BeginRebuild(c) \/ Deploy!CopyCalls(c) \/ Deploy!DropCalls(c) \/ Deploy!RenameCalls(c)
  PROVE  DeployInv'
<1> DEFINE d == Deploy!View(c)
           Doc(calls, copied, wide) ==
               [columns |-> d.columns, wide |-> wide, calls |-> calls, copied |-> copied,
                snapshots |-> d.snapshots, unique |-> d.unique, results |-> d.results,
                guard |-> d.guard]
<1>1. /\ DataOK(d) /\ d = Doc(d.calls, d.copied, d.wide)
      /\ Reached(d, conn[c].at) /\ c # "none"
      /\ d.wide \in BOOLEAN /\ tx = [owner |-> tx.owner, draft |-> tx.draft]
  <2>1. DataOK(d) /\ Reached(d, conn[c].at)
    BY ViewOK
  <2> QED BY <2>1, Fields, LegacyAssumption DEF DataOK, DeployInv, ConnTypes
<1>2. ASSUME NEW calls, NEW copied, NEW wide \in BOOLEAN, d.wide => wide
      PROVE  LET e == Doc(calls, copied, wide)
             IN DataOK(e) /\ NoLess(d, e) /\ (Reached(d, 2) => Reached(e, 2))
  <2> DEFINE e == Doc(calls, copied, wide)
  <2>4. /\ d.snapshots \in [Times -> Nat] /\ d.unique \in BOOLEAN /\ d.guard \in BOOLEAN
        /\ \A t \in seenTimes : d.snapshots[t] > 0
    <3> HIDE DEF d
    <3> QED BY <1>1 DEF DataOK
  <2>1. DataOK(e)
    <3> HIDE DEF d
    <3> QED BY <1>1, <1>2, <2>4, SameResultsOK
  <2>2. /\ e.columns = d.columns /\ e.results = d.results /\ e.wide = wide
        /\ e.unique = d.unique /\ e.guard = d.guard
    OBVIOUS
  <2> HIDE DEF e
  <2>3. NoLess(d, e)
    BY <1>2, <2>2, OtherPartsNoLess
  <2> QED BY <2>1, <2>3 DEF NoLess, e
<1>3. SUFFICES ASSUME NEW new, NEW pc \in {"copy", "drop", "rename", "release"},
                      DataOK(new), NoLess(d, new), Reached(new, 2),
                      Deploy!Define(c, new) \/ Deploy!Change(c, new),
                      Deploy!Change(c, new) \/ Draft(c),
                      conn' = [conn EXCEPT ![c] = [at |-> 2, pc |-> pc]],
                      UNCHANGED <<seenCalls, seenTimes>>,
                      pc = "release" => new.wide,
                      pc # "rename" => seenCalls \subseteq new.calls,
                      pc \in {"drop", "rename"} => seenCalls \subseteq new.copied
               PROVE  DeployInv'
  <2>1. CASE Deploy!BeginRebuild(c)
    <3>1. /\ conn[c].at = 2 /\ conn[c].pc = "start" /\ Deploy!Change(c, d)
          /\ Deploy!GoOn(c, IF d.wide THEN "release" ELSE "copy")
          /\ UNCHANGED <<seenCalls, seenTimes>>
      BY <2>1, StepAt DEF Deploy!BeginRebuild
    <3>2. seenCalls \subseteq d.calls
      BY <3>1, ViewHasCalls
    <3>3. conn' = [conn EXCEPT ![c] = [at |-> 2, pc |-> IF d.wide THEN "release" ELSE "copy"]]
      BY <3>1, ViewOK
    <3>4. NoLess(d, d)
      BY DEF NoLess
    <3> HIDE DEF d
    <3> QED BY <1>1, <1>3, <3>1, <3>2, <3>3, <3>4
  <2>2. CASE Deploy!CopyCalls(c)
    <3>1. /\ conn[c].at = 2 /\ conn[c].pc = "copy"
          /\ Deploy!Change(c, [d EXCEPT !.copied = d.calls])
          /\ Deploy!GoOn(c, "drop") /\ UNCHANGED <<seenCalls, seenTimes>>
      BY <2>2, StepAt DEF Deploy!CopyCalls
    <3>2. seenCalls \subseteq d.calls
      BY <3>1, ViewHasCalls
    <3>3. conn' = [conn EXCEPT ![c] = [at |-> 2, pc |-> "drop"]]
      BY <3>1, ViewOK
    <3> DEFINE new == Doc(d.calls, d.calls, d.wide)
    <3>4. [d EXCEPT !.copied = d.calls] = new
      BY <1>1
    <3>5. DataOK(new) /\ NoLess(d, new) /\ Reached(new, 2)
      BY <1>1, <1>2, <3>1
    <3>6. new.calls = d.calls /\ new.copied = d.calls
      OBVIOUS
    <3> HIDE DEF d, new
    <3> QED BY <1>3, <3>1, <3>2, <3>3, <3>4, <3>5, <3>6
  <2>3. CASE Deploy!DropCalls(c)
    <3>1. /\ conn[c].at = 2 /\ conn[c].pc = "drop"
          /\ Deploy!Define(c, [d EXCEPT !.calls = {}])
          /\ Deploy!GoOn(c, "rename") /\ UNCHANGED <<seenCalls, seenTimes>>
      BY <2>3, StepAt DEF Deploy!DropCalls
    <3>2. Draft(c) /\ seenCalls \subseteq d.copied
      BY <3>1 DEF DeployInv, CallsInv, Draft, Deploy!View
    <3>3. conn' = [conn EXCEPT ![c] = [at |-> 2, pc |-> "rename"]]
      BY <3>1, ViewOK
    <3> DEFINE new == Doc({}, d.copied, d.wide)
    <3>4. [d EXCEPT !.calls = {}] = new
      BY <1>1
    <3>5. DataOK(new) /\ NoLess(d, new) /\ Reached(new, 2)
      BY <1>1, <1>2, <3>1
    <3>6. new.copied = d.copied
      OBVIOUS
    <3> HIDE DEF d, new
    <3> QED BY <1>3, <3>1, <3>2, <3>3, <3>4, <3>5, <3>6
  <2>4. CASE Deploy!RenameCalls(c)
    <3>1. /\ conn[c].at = 2 /\ conn[c].pc = "rename"
          /\ Deploy!Define(c, [d EXCEPT !.calls = d.calls \union d.copied, !.copied = {}, !.wide = TRUE])
          /\ Deploy!GoOn(c, "release") /\ UNCHANGED <<seenCalls, seenTimes>>
      BY <2>4, StepAt DEF Deploy!RenameCalls
    <3>2. Draft(c) /\ seenCalls \subseteq d.copied
      BY <3>1 DEF DeployInv, CallsInv, Draft, Deploy!View
    <3>3. conn' = [conn EXCEPT ![c] = [at |-> 2, pc |-> "release"]]
      BY <3>1, ViewOK
    <3> DEFINE new == Doc(d.calls \union d.copied, {}, TRUE)
    <3>4. [d EXCEPT !.calls = d.calls \union d.copied, !.copied = {}, !.wide = TRUE] = new
      <4> HIDE DEF d
      <4> DEFINE calls == d.calls \union d.copied
                 first == [d EXCEPT !.calls = calls]
                 second == [first EXCEPT !.copied = {}]
      <4>1. first = Doc(calls, d.copied, d.wide)
        BY <1>1
      <4>2. second = Doc(calls, {}, d.wide)
        <5> HIDE DEF first
        <5> QED BY <4>1
      <4>3. [second EXCEPT !.wide = TRUE] = new
        <5>1. ASSUME NEW wide PROVE [second EXCEPT !.wide = wide] = Doc(calls, {}, wide)
          <6> HIDE DEF second
          <6> QED BY <4>2
        <5> QED BY <5>1
      <4>4. [d EXCEPT !.calls = calls, !.copied = {}, !.wide = TRUE] = [second EXCEPT !.wide = TRUE]
        OBVIOUS
      <4> QED BY <4>3, <4>4
    <3>5. DataOK(new) /\ NoLess(d, new) /\ Reached(new, 2)
      BY <1>1, <1>2, <3>1
    <3>6. new.calls = d.calls \union d.copied /\ new.wide
      OBVIOUS
    <3> HIDE DEF d, new
    <3> QED BY <1>3, <3>1, <3>2, <3>3, <3>4, <3>5, <3>6
  <2> QED BY <2>1, <2>2, <2>3, <2>4
<1>4. ConnTypes' /\ MigrationInv'
  <2> HIDE DEF d
  <2>1. pc \in Phases /\ 2 \in 0..8
    BY DEF Phases
  <2> QED BY <1>3, <2>1, DeployWrites DEF d
<1>5. tx' = [owner |-> c, draft |-> new] /\ db' = db /\ tx.owner \in {c, "none"}
  BY <1>1, <1>3 DEF Deploy!Define, Deploy!Change, Deploy!MayWrite, Draft
<1>6. CallsInv'
  <2>1. CASE pc \in {"drop", "rename"}
    BY <1>3, <1>5, <2>1, CallsCopied
  <2>2. CASE pc \notin {"drop", "rename"}
    BY <1>3, <2>2, CallsKept
  <2> QED BY <2>1, <2>2
<1>7. DraftInv'
  BY <1>3, <1>5, DraftsKept
<1> QED BY <1>4, <1>6, <1>7 DEF DeployInv

(* The commits of the rebuild and of the whole connect.                    *)
LEMMA DeployEnds ==
  ASSUME DeployInv, NEW c \in Daemons, Deploy!Release(c) \/ Deploy!EndConnect(c)
  PROVE  DeployInv'
<1> DEFINE at == conn[c].at + 1
<1>1. /\ Deploy!Commit(c) /\ UNCHANGED <<seenCalls, seenTimes>>
      /\ conn' = [conn EXCEPT ![c] = [at |-> at, pc |-> "start"]]
      /\ \/ conn[c].at = 2 /\ conn[c].pc = "release"
         \/ conn[c].at = 8 /\ conn[c].pc = "start"
  BY StepAt, ViewOK DEF Deploy!Release, Deploy!EndConnect
<1>2. Draft(c) /\ (conn[c].at = 2 => tx.draft.wide)
  BY <1>1 DEF DeployInv, DraftInv
<1>3. Reached(Deploy!View(c), at) /\ at \in 0..9 /\ "start" \in Phases
  BY <1>1, <1>2, ViewOK DEF Reached, Phases
<1>4. ConnTypes' /\ MigrationInv'
  BY <1>1, <1>2, <1>3, DeployCommits
<1>5. /\ tx' = [owner |-> "none", draft |-> <<>>] /\ db' = tx.draft
      /\ conn'[c] = [at |-> at, pc |-> "start"]
      /\ \A e \in Daemons \ {c} : conn'[e] = conn[e] /\ ~Draft(e)
      /\ \A e \in Daemons : e # "none"
  BY <1>1, <1>2, LegacyAssumption
  DEF DeployInv, ConnTypes, Draft, Deploy!Commit, Deploy!View, Deploy!NoTx
<1>6. CallsInv'
  <2>1. seenCalls \subseteq tx.draft.calls
    BY <1>1, <1>2 DEF DeployInv, CallsInv
  <2> QED BY <1>1, <1>5, <2>1 DEF DeployInv, CallsInv, Draft
<1>7. DraftInv'
  BY <1>1, <1>5 DEF DeployInv, DraftInv, Draft
<1> QED BY <1>4, <1>6, <1>7 DEF DeployInv


(* A connect that writes outside of the rebuild.                           *)
LEMMA DeployGains ==
  ASSUME DeployInv, NEW c \in Daemons, NEW new, NEW at \in 0..8, NEW pc \in Phases,
         DataOK(new), NoLess(Deploy!View(c), new), Reached(new, at),
         new.calls = Deploy!View(c).calls, conn[c].at # 2, at = 2 => pc = "start",
         Deploy!Define(c, new) \/ Deploy!Change(c, new),
         at \in {7, 8} => Draft(c) \/ Deploy!Change(c, new),
         UNCHANGED <<seenCalls, seenTimes>>,
         conn' = [conn EXCEPT ![c] = [at |-> at, pc |-> pc]]
  PROVE  DeployInv'
<1>1. ConnTypes' /\ MigrationInv'
  BY DeployWrites
<1>2. CallsInv'
  <2>1. seenCalls \subseteq new.calls
    BY ViewHasCalls
  <2>2. at = 2 => pc \notin {"drop", "rename"}
    OBVIOUS
  <2> QED BY <2>1, <2>2, CallsKept
<1>3. DraftInv'
  BY DraftsKept
<1> QED BY <1>1, <1>2, <1>3 DEF DeployInv

(* The index over the prices, and the guard.                               *)
LEMMA DeployIndexes ==
  ASSUME DeployInv, NEW c \in Daemons,
         Deploy!CollapseSnapshots(c) \/ Deploy!IndexSnapshots(c) \/ Deploy!IndexGuard(c)
  PROVE  DeployInv'
<1> DEFINE d == Deploy!View(c)
           Doc(snapshots, unique, guard) ==
               [columns |-> d.columns, wide |-> d.wide, calls |-> d.calls, copied |-> d.copied,
                snapshots |-> snapshots, unique |-> unique, results |-> d.results,
                guard |-> guard]
<1>1. /\ DataOK(d) /\ d = Doc(d.snapshots, d.unique, d.guard) /\ Reached(d, conn[c].at)
      /\ d.wide \in BOOLEAN /\ d.unique \in BOOLEAN /\ d.guard \in BOOLEAN
      /\ d.snapshots \in [Times -> Nat] /\ seenTimes \subseteq Times
      /\ \A t \in seenTimes : d.snapshots[t] > 0
  <2>1. DataOK(d) /\ Reached(d, conn[c].at) /\ seenTimes \subseteq Times
    BY ViewOK DEF DeployInv, ConnTypes
  <2> HIDE DEF d
  <2> QED BY <2>1, Fields DEF DataOK
<1>2. ASSUME NEW snapshots \in [Times -> Nat], NEW unique \in BOOLEAN, NEW guard \in BOOLEAN,
             \A t \in seenTimes : snapshots[t] > 0, d.unique => unique, d.guard => guard
      PROVE  LET e == Doc(snapshots, unique, guard)
             IN /\ DataOK(e) /\ NoLess(d, e) /\ e.calls = d.calls
                /\ e.unique = unique /\ e.guard = guard
                /\ Reached(d, conn[c].at) => Reached(e, conn[c].at)
  <2> DEFINE e == Doc(snapshots, unique, guard)
  <2>1. DataOK(e)
    <3> HIDE DEF d
    <3> QED BY <1>1, <1>2, SameResultsOK
  <2>2. /\ e.columns = d.columns /\ e.results = d.results /\ e.wide = d.wide
        /\ e.unique = unique /\ e.guard = guard /\ e.calls = d.calls
    OBVIOUS
  <2> HIDE DEF e
  <2>3. NoLess(d, e)
    BY <1>2, <2>2, OtherPartsNoLess
  <2>4. conn[c].at \in 0..9
    BY ViewOK
  <2> QED BY <2>1, <2>2, <2>3, <2>4 DEF NoLess, e
<1>3. CASE Deploy!CollapseSnapshots(c)
  <2> DEFINE collapsed == [t \in Times |-> Deploy!One(d.snapshots[t])]
             new == Doc(collapsed, d.unique, d.guard)
  <2>1. /\ conn[c].at = 3 /\ Deploy!Change(c, [d EXCEPT !.snapshots = collapsed])
        /\ Deploy!GoOn(c, "index") /\ UNCHANGED <<seenCalls, seenTimes>>
    BY <1>3, StepAt DEF Deploy!CollapseSnapshots
  <2>2. /\ collapsed \in [Times -> Nat]
        /\ \A t \in seenTimes : collapsed[t] > 0
    <3> HIDE DEF d
    <3> QED BY <1>1 DEF Deploy!One
  <2>3. conn' = [conn EXCEPT ![c] = [at |-> 3, pc |-> "index"]]
    BY <2>1, ViewOK
  <2>4. [d EXCEPT !.snapshots = collapsed] = new
    <3> HIDE DEF d, collapsed
    <3> QED BY <1>1
  <2>5. /\ DataOK(new) /\ NoLess(d, new) /\ new.calls = d.calls
        /\ Reached(new, 3)
    <3> HIDE DEF collapsed
    <3> QED BY <1>1, <1>2, <2>1, <2>2
  <2>6. 3 \in 0..8 /\ "index" \in Phases
    BY DEF Phases
  <2> HIDE DEF new
  <2>8. /\ conn[c].at # 2 /\ (3 = 2 => "index" = "start")
        /\ 3 \in {7, 8} => Draft(c) \/ Deploy!Change(c, new)
        /\ Deploy!Define(c, new) \/ Deploy!Change(c, new)
    BY <2>1, <2>4
  <2> QED BY <2>1, <2>3, <2>5, <2>6, <2>8, DeployGains, Zenon
<1>4. CASE Deploy!IndexSnapshots(c)
  <2> DEFINE new == Doc(d.snapshots, TRUE, d.guard)
  <2>1. /\ conn[c].at = 3 /\ Deploy!Define(c, [d EXCEPT !.unique = TRUE])
        /\ Deploy!NextStep(c) /\ UNCHANGED <<seenCalls, seenTimes>>
    BY <1>4, StepAt DEF Deploy!IndexSnapshots
  <2>2. conn' = [conn EXCEPT ![c] = [at |-> 4, pc |-> "start"]]
    BY <2>1, ViewOK
  <2>3. ASSUME NEW unique PROVE [d EXCEPT !.unique = unique] = Doc(d.snapshots, unique, d.guard)
    <3> HIDE DEF d
    <3> QED BY <1>1
  <2>4. Deploy!Define(c, new)
    BY <2>1, <2>3, Zenon
  <2>5. DataOK(new) /\ NoLess(d, new) /\ new.calls = d.calls /\ Reached(new, 3) /\ new.unique
    BY <1>1, <1>2, <2>1
  <2>6. 4 \in 0..8 /\ "start" \in Phases
    BY DEF Phases
  <2> HIDE DEF new
  <2>7. Reached(new, 4)
    BY <2>5 DEF Reached
  <2>8. /\ conn[c].at # 2 /\ (4 = 2 => "start" = "start")
        /\ 4 \in {7, 8} => Draft(c) \/ Deploy!Change(c, new)
        /\ Deploy!Define(c, new) \/ Deploy!Change(c, new)
    BY <2>1, <2>4
  <2> QED BY <2>1, <2>2, <2>7, <2>5, <2>6, <2>8, DeployGains, Zenon
<1>5. CASE Deploy!IndexGuard(c)
  <2> DEFINE new == Doc(d.snapshots, d.unique, TRUE)
  <2>1. /\ conn[c].at = 4 /\ Deploy!Define(c, [d EXCEPT !.guard = TRUE])
        /\ Deploy!NextStep(c) /\ UNCHANGED <<seenCalls, seenTimes>>
    BY <1>5, StepAt DEF Deploy!IndexGuard
  <2>2. conn' = [conn EXCEPT ![c] = [at |-> 5, pc |-> "start"]]
    BY <2>1, ViewOK
  <2>3. ASSUME NEW guard PROVE [d EXCEPT !.guard = guard] = Doc(d.snapshots, d.unique, guard)
    <3> HIDE DEF d
    <3> QED BY <1>1
  <2>4. Deploy!Define(c, new)
    BY <2>1, <2>3, Zenon
  <2>5. DataOK(new) /\ NoLess(d, new) /\ new.calls = d.calls /\ Reached(new, 4) /\ new.guard
    BY <1>1, <1>2, <2>1
  <2>6. 5 \in 0..8 /\ "start" \in Phases
    BY DEF Phases
  <2> HIDE DEF new
  <2>7. Reached(new, 5)
    BY <2>5 DEF Reached
  <2>8. /\ conn[c].at # 2 /\ (5 = 2 => "start" = "start")
        /\ 5 \in {7, 8} => Draft(c) \/ Deploy!Change(c, new)
        /\ Deploy!Define(c, new) \/ Deploy!Change(c, new)
    BY <2>1, <2>4
  <2> QED BY <2>1, <2>2, <2>7, <2>5, <2>6, <2>8, DeployGains, Zenon
<1> QED BY <1>3, <1>4, <1>5

(* The failures of an earlier release are held.                            *)
LEMMA DeployHolds ==
  ASSUME DeployInv, NEW c \in Daemons, Deploy!MarkFailed(c)
  PROVE  DeployInv'
<1> DEFINE d == Deploy!View(c)
           held == {Deploy!HoldFailed(r) : r \in d.results}
           new == [columns |-> d.columns, wide |-> d.wide, calls |-> d.calls, copied |-> d.copied,
                   snapshots |-> d.snapshots, unique |-> d.unique, results |-> held,
                   guard |-> d.guard]
<1>1. DataOK(d) /\ Reached(d, conn[c].at)
  BY ViewOK
<1>2. /\ conn[c].at = 6 /\ Deploy!Change(c, new) /\ UNCHANGED <<seenCalls, seenTimes>>
      /\ conn' = [conn EXCEPT ![c] = [at |-> 7, pc |-> "start"]]
  <2>1. conn[c].at = 6 /\ Deploy!Change(c, [d EXCEPT !.results = held]) /\ Deploy!NextStep(c)
        /\ UNCHANGED <<seenCalls, seenTimes>>
    BY StepAt DEF Deploy!MarkFailed
  <2>2. [d EXCEPT !.results = held] = new
    <3> HIDE DEF d, held
    <3> QED BY <1>1, Fields
  <2> QED BY <2>1, <2>2, ViewOK
<1>3. HasState(d)
  BY <1>1, <1>2 DEF Reached
<1>4. ASSUME NEW r \in d.results
      PROVE  LET h == Deploy!HoldFailed(r)
             IN /\ h = [id |-> r.id, proposal |-> r.proposal, status |-> r.status,
                        submission |-> h.submission]
                /\ h.submission \in Submissions \ {"absent"}
                /\ h.submission = "unknown" => r.status = "failed"
                /\ r.status = "failed" => h.submission # "accepted"
                /\ r.status # "failed" \/ r.submission = "rejected" => h = r
                /\ h.submission = "reserved" => r.submission = "reserved"
  <2> HIDE DEF d
  <2> QED BY <1>1, <1>3 DEF DataOK, Deploy!HoldFailed, Submissions
<1>5. ASSUME NEW q \in held
      PROVE  \E r \in d.results : q = Deploy!HoldFailed(r)
  OBVIOUS
<1>6. new.columns = d.columns /\ new.results = held /\ new.calls = d.calls
      /\ new.wide = d.wide /\ new.unique = d.unique /\ new.guard = d.guard
      /\ new.snapshots = d.snapshots /\ new.copied = d.copied
  OBVIOUS
<1>7. (\E q \in held : q.submission = "reserved") =>
         \A q \in held : q.status = "failed" => q.submission = "rejected"
  <2> SUFFICES ASSUME NEW r \in d.results, Deploy!HoldFailed(r).submission = "reserved",
                      NEW s \in d.results, Deploy!HoldFailed(s).status = "failed"
               PROVE  Deploy!HoldFailed(s).submission = "rejected"
    OBVIOUS
  <2>1. r.submission = "reserved" /\ s.status = "failed"
    BY <1>4
  <2>2. s.submission = "rejected"
    BY <1>1, <2>1 DEF DataOK
  <2> QED BY <1>4, <2>2
<1>8. /\ HasState(new)
      /\ \A q \in held :
           /\ q = [id |-> q.id, proposal |-> q.proposal, status |-> q.status,
                   submission |-> q.submission]
           /\ q.submission \in Submissions \ {"absent"}
           /\ q.submission = "unknown" => q.status = "failed"
           /\ q.status = "failed" => q.submission # "accepted"
  <2> SUFFICES ASSUME NEW r \in d.results
               PROVE  LET q == Deploy!HoldFailed(r)
                      IN /\ q = [id |-> q.id, proposal |-> q.proposal, status |-> q.status,
                                 submission |-> q.submission]
                         /\ q.submission \in Submissions \ {"absent"}
                         /\ q.submission = "unknown" => q.status = "failed"
                         /\ q.status = "failed" => q.submission # "accepted"
    BY <1>3 DEF HasState
  <2> QED BY <1>4
<1>9. Deploy!Doubled(d) => Deploy!Doubled(new)
  <2> SUFFICES ASSUME NEW r \in d.results, NEW s \in d.results, r # s,
                      r.status # "failed", s.status # "failed", r.proposal = s.proposal
               PROVE  Deploy!Doubled(new)
    BY DEF Deploy!Doubled, Deploy!Blocking
  <2>1. r \in held /\ s \in held
    BY <1>4
  <2> HIDE DEF new
  <2> QED BY <1>6, <2>1 DEF Deploy!Doubled, Deploy!Blocking
<1> HIDE DEF held, new
<1>10. new = [columns |-> new.columns, wide |-> new.wide, calls |-> new.calls, copied |-> new.copied,
              snapshots |-> new.snapshots, unique |-> new.unique, results |-> new.results,
              guard |-> new.guard]
  BY DEF new
<1>11. DataOK(new)
  <2> HIDE DEF d
  <2> QED BY <1>1, <1>6, <1>7, <1>8, <1>10 DEF DataOK
<1>12. FailuresHeld(new)
  BY <1>6, <1>8 DEF FailuresHeld
<1>13. NoLess(d, new)
  BY <1>6, <1>9, <1>12, MoreIsNoLess
<1>14. Reached(new, 7)
  <2>1. Reached(new, 6)
    BY <1>1, <1>2, <1>13 DEF NoLess
  <2> QED BY <1>12, <2>1 DEF Reached
<1>15. 7 \in 0..8 /\ "start" \in Phases
  BY DEF Phases
<1>16. /\ new.calls = d.calls /\ conn[c].at # 2 /\ (7 = 2 => "start" = "start")
       /\ 7 \in {7, 8} => Draft(c) \/ Deploy!Change(c, new)
       /\ Deploy!Define(c, new) \/ Deploy!Change(c, new)
  BY <1>2, <1>6
<1> QED BY <1>2, <1>11, <1>13, <1>14, <1>15, <1>16, DeployGains, Zenon


(* A writer outside of any connect, while nobody holds the lock.           *)
LEMMA DeployStores ==
  ASSUME DeployInv, tx = Deploy!NoTx, UNCHANGED <<tx, conn>>, DataOK(db)', NoLess(db, db'),
         seenTimes' \subseteq Times, seenCalls' \subseteq db'.calls
  PROVE  DeployInv'
<1>1. tx.owner = "none" /\ tx'.owner = "none" /\ \A e \in Daemons : e # "none"
  BY LegacyAssumption DEF Deploy!NoTx
<1>2. ConnTypes'
  BY DEF DeployInv, ConnTypes, Deploy!NoTx
<1>3. MigrationInv'
  <2>1. ASSUME NEW e \in Daemons
        PROVE  (Reached(Deploy!View(e), conn[e].at) /\ (conn[e].at = 9 => ~Draft(e)))'
    <3>1. Reached(db, conn[e].at) /\ conn[e].at \in 0..9
      BY <1>1 DEF DeployInv, MigrationInv, ConnTypes, Deploy!View
    <3>2. Reached(db', conn[e].at)
      BY <3>1 DEF NoLess
    <3> QED BY <1>1, <3>2 DEF Deploy!View, Draft
  <2> QED BY <1>1, <2>1 DEF MigrationInv
<1>4. CallsInv'
  BY <1>1 DEF DeployInv, CallsInv, Draft
<1>5. DraftInv'
  BY <1>1 DEF DeployInv, DraftInv, Draft
<1> QED BY <1>2, <1>3, <1>4, <1>5 DEF DeployInv

(* Calls and prices are stored.                                            *)
LEMMA DeployMore ==
  ASSUME DeployInv, Deploy!StoreCall \/ \E t \in Times : Deploy!StoreSnapshot(t)
  PROVE  DeployInv'
<1> DEFINE Doc(calls, snapshots) ==
               [columns |-> db.columns, wide |-> db.wide, calls |-> calls, copied |-> db.copied,
                snapshots |-> snapshots, unique |-> db.unique, results |-> db.results,
                guard |-> db.guard]
<1>1. DataOK(db) /\ db = Doc(db.calls, db.snapshots)
  BY Fields DEF DeployInv, MigrationInv
<1>2. SUFFICES ASSUME NEW calls, NEW snapshots \in [Times -> Nat], db' = Doc(calls, snapshots),
                      db.calls \subseteq calls, seenCalls' \subseteq seenCalls \union calls,
                      seenTimes' \subseteq Times,
                      \A t \in seenTimes' : snapshots[t] > 0,
                      tx = Deploy!NoTx, UNCHANGED <<tx, conn>>
               PROVE  DeployInv'
  <2>1. CASE Deploy!StoreCall
    <3>1. db' = Doc(db.calls \union {"later"}, db.snapshots)
      BY <1>1, <2>1 DEF Deploy!StoreCall
    <3>2. /\ db.snapshots \in [Times -> Nat] /\ \A t \in seenTimes : db.snapshots[t] > 0
          /\ seenTimes \subseteq Times
      BY <1>1 DEF DataOK, DeployInv, ConnTypes
    <3> HIDE DEF Doc
    <3> QED BY <1>2, <2>1, <3>1, <3>2 DEF Deploy!StoreCall
  <2>2. CASE \E t \in Times : Deploy!StoreSnapshot(t)
    <3>1. PICK t \in Times : Deploy!StoreSnapshot(t)
      BY <2>2
    <3> DEFINE snapshots == [db.snapshots EXCEPT ![t] = @ + 1]
    <3>2. /\ db.snapshots \in [Times -> Nat] /\ \A u \in seenTimes : db.snapshots[u] > 0
          /\ seenTimes \subseteq Times
      BY <1>1 DEF DataOK, DeployInv, ConnTypes
    <3>3. /\ snapshots \in [Times -> Nat]
          /\ \A u \in seenTimes \union {t} : snapshots[u] > 0
      BY <3>2
    <3>4. db' = [db EXCEPT !.snapshots = snapshots]
      BY <3>1 DEF Deploy!StoreSnapshot
    <3> HIDE DEF snapshots
    <3>5. db' = Doc(db.calls, snapshots)
      BY <1>1, <3>4
    <3> HIDE DEF Doc
    <3>6. /\ seenTimes' = seenTimes \union {t} /\ UNCHANGED <<tx, conn, seenCalls>> /\ tx = Deploy!NoTx
      BY <3>1 DEF Deploy!StoreSnapshot
    <3> QED BY <1>2, <3>2, <3>3, <3>5, <3>6
  <2> QED BY <2>1, <2>2
<1>3. DataOK(db)'
  <2>1. /\ db'.columns = db.columns /\ db'.results = db.results /\ db'.snapshots = snapshots
        /\ db'.wide = db.wide /\ db'.unique = db.unique /\ db'.guard = db.guard
    BY <1>2
  <2>2. db' = [columns |-> db'.columns, wide |-> db'.wide, calls |-> db'.calls,
               copied |-> db'.copied, snapshots |-> db'.snapshots, unique |-> db'.unique,
               results |-> db'.results, guard |-> db'.guard]
    BY <1>2
  <2> QED BY <1>1, <1>2, <2>1, <2>2 DEF DataOK, HasState
<1>4. NoLess(db, db')
  <2>1. /\ db'.columns = db.columns /\ db'.results = db.results
        /\ db'.wide = db.wide /\ db'.unique = db.unique /\ db'.guard = db.guard
    BY <1>2
  <2> QED BY <2>1, OtherPartsNoLess
<1>5. seenCalls' \subseteq db'.calls
  BY <1>2 DEF DeployInv, CallsInv
<1> QED BY <1>2, <1>3, <1>4, <1>5, DeployStores

ResultRow(i, p, st, sub) == [id |-> i, proposal |-> p, status |-> st, submission |-> sub]

(* A result takes the place of failed ones whose outcome is unknown, or is *)
(* reserved when no failure is left to look up.                            *)
LEMMA ResultsChange ==
  ASSUME DeployInv, NEW gone \in SUBSET db.results, NEW i, NEW p, NEW st, NEW sub,
         db' = [db EXCEPT !.results = (db.results \ gone) \union {ResultRow(i, p, st, sub)}],
         HasState(db),
         \A r \in gone : r.status = "failed" /\ r.submission = "unknown",
         \/ gone # {} /\ sub = "rejected"
         \/ gone # {} /\ sub = "accepted" /\ st = "completed"
         \/ /\ sub = "reserved" /\ st = "pending"
            /\ \A r \in db.results : r.status = "failed" => r.submission = "rejected",
         tx = Deploy!NoTx, UNCHANGED <<tx, conn, seenCalls, seenTimes>>
  PROVE  DeployInv'
<1>1. DataOK(db)
  BY DEF DeployInv, MigrationInv
<1> DEFINE row == ResultRow(i, p, st, sub)
           results == (db.results \ gone) \union {row}
<1>3. /\ db' = [columns |-> db.columns, wide |-> db.wide, calls |-> db.calls, copied |-> db.copied,
                snapshots |-> db.snapshots, unique |-> db.unique, results |-> results,
                guard |-> db.guard]
  <2> HIDE DEF results
  <2>1. db' = [db EXCEPT !.results = results]
    BY DEF results
  <2> QED BY <1>1, <2>1, Fields
<1>4. /\ db'.columns = db.columns /\ db'.results = results /\ db'.calls = db.calls
      /\ db'.wide = db.wide /\ db'.unique = db.unique /\ db'.guard = db.guard
      /\ db'.snapshots = db.snapshots
  BY <1>3
<1>5. /\ db' = [columns |-> db'.columns, wide |-> db'.wide, calls |-> db'.calls,
                copied |-> db'.copied, snapshots |-> db'.snapshots, unique |-> db'.unique,
                results |-> db'.results, guard |-> db'.guard]
  BY <1>3
<1>6. /\ row = [id |-> row.id, proposal |-> row.proposal, status |-> row.status,
                submission |-> row.submission]
      /\ row.status = st /\ row.submission = sub
  BY DEF ResultRow
<1> HIDE DEF row
<1>7. /\ HasState(db')
      /\ \A q \in results :
           /\ q = [id |-> q.id, proposal |-> q.proposal, status |-> q.status,
                   submission |-> q.submission]
           /\ q.submission \in Submissions \ {"absent"}
           /\ q.submission = "unknown" => q.status = "failed"
  BY <1>1, <1>4, <1>6 DEF DataOK, HasState, Submissions
<1>8. (\E q \in results : q.submission = "reserved") =>
         \A q \in results : q.status = "failed" => q.submission = "rejected"
  <2>1. CASE sub = "reserved"
    BY <1>6, <2>1
  <2>2. CASE sub # "reserved"
    <3> SUFFICES ASSUME NEW q \in db.results \ gone, q.submission = "reserved",
                        gone # {}
                 PROVE  FALSE
      BY <1>6, <2>2
    <3> QED BY <1>1 DEF DataOK
  <2> QED BY <2>1, <2>2
<1>9. Deploy!Doubled(db) => Deploy!Doubled(db')
  <2> SUFFICES ASSUME NEW q \in db.results, NEW s \in db.results, q # s,
                      q.status # "failed", s.status # "failed", q.proposal = s.proposal
               PROVE  Deploy!Doubled(db')
    BY DEF Deploy!Doubled, Deploy!Blocking
  <2>1. q \in results /\ s \in results
    OBVIOUS
  <2> HIDE DEF results
  <2> QED BY <1>4, <2>1 DEF Deploy!Doubled, Deploy!Blocking
<1>10. FailuresHeld(db) => FailuresHeld(db')
  BY <1>4, <1>6, <1>7 DEF FailuresHeld
<1> HIDE DEF results
<1>11. DataOK(db)'
  BY <1>1, <1>4, <1>5, <1>7, <1>8 DEF DataOK
<1>12. NoLess(db, db')
  BY <1>4, <1>9, <1>10, MoreIsNoLess
<1> QED BY <1>4, <1>11, <1>12, DeployStores DEF DeployInv, ConnTypes, CallsInv

(* Withdrawals are reserved and looked up.                                 *)
LEMMA DeployResults ==
  ASSUME DeployInv, \/ \E c \in Daemons : \E r \in db.results : Deploy!Reserve(c, r.proposal)
                    \/ \E r \in db.results : Deploy!Verify(r)
  PROVE  DeployInv'
<1>1. DataOK(db)
  BY DEF DeployInv, MigrationInv
<1>2. ASSUME NEW c \in Daemons, NEW r \in db.results, Deploy!Reserve(c, r.proposal)
      PROVE  DeployInv'
  <2>1. conn[c].at = 9 /\ tx = Deploy!NoTx /\ c # "none"
    BY <1>2, StepAt, LegacyAssumption DEF Deploy!Reserve
  <2>2. Reached(db, 9)
    BY <2>1 DEF DeployInv, MigrationInv, Deploy!View, Deploy!NoTx
  <2>3. HasState(db) /\ FailuresHeld(db)
    BY <2>2 DEF Reached
  <2>4. \A q \in db.results : q.status = "failed" => q.submission = "rejected"
    BY <1>1, <1>2, <2>3 DEF DataOK, FailuresHeld, Submissions, Deploy!Reserve
  <2>5. db' = [db EXCEPT !.results = (db.results \ {}) \union
                                      {ResultRow("new", r.proposal, "pending", "reserved")}]
    BY <1>2 DEF Deploy!Reserve, Deploy!Result, ResultRow
  <2>6. tx = Deploy!NoTx /\ UNCHANGED <<tx, conn, seenCalls, seenTimes>>
    BY <1>2 DEF Deploy!Reserve
  <2>7. {} \in SUBSET db.results /\ \A q \in {} : q.status = "failed" /\ q.submission = "unknown"
    OBVIOUS
  <2> QED BY <2>3, <2>4, <2>5, <2>6, <2>7, ResultsChange, Zenon
<1>3. ASSUME NEW r \in db.results, Deploy!Verify(r)
      PROVE  DeployInv'
  <2>1. PICK sub \in {"accepted", "rejected"} :
           db' = [db EXCEPT !.results = (@ \ {r}) \union
                    {[r EXCEPT !.submission = sub,
                               !.status = IF sub = "accepted" THEN "completed" ELSE @]}]
    BY <1>3 DEF Deploy!Verify
  <2>2. /\ r = ResultRow(r.id, r.proposal, r.status, r.submission) /\ r.submission = "unknown"
        /\ r.status = "failed" /\ HasState(db)
    BY <1>1, <1>3 DEF DataOK, Deploy!Verify, ResultRow
  <2> DEFINE st == IF sub = "accepted" THEN "completed" ELSE r.status
             first == [r EXCEPT !.submission = sub]
  <2>3. [first EXCEPT !.status = st] = ResultRow(r.id, r.proposal, st, sub)
    <3>1. first = ResultRow(r.id, r.proposal, r.status, sub)
      BY <2>2 DEF ResultRow
    <3> HIDE DEF first, st
    <3> QED BY <3>1 DEF ResultRow
  <2>4. db' = [db EXCEPT !.results = (db.results \ {r}) \union {ResultRow(r.id, r.proposal, st, sub)}]
    <3>1. [r EXCEPT !.submission = sub, !.status = IF sub = "accepted" THEN "completed" ELSE @]
          = [first EXCEPT !.status = st]
      OBVIOUS
    <3> QED BY <2>1, <2>3, <3>1, Zenon
  <2>5. tx = Deploy!NoTx /\ UNCHANGED <<tx, conn, seenCalls, seenTimes>>
    BY <1>3 DEF Deploy!Verify
  <2>6. \/ {r} # {} /\ sub = "rejected"
        \/ {r} # {} /\ sub = "accepted" /\ st = "completed"
    OBVIOUS
  <2>7. {r} \in SUBSET db.results /\ \A q \in {r} : q.status = "failed" /\ q.submission = "unknown"
    BY <2>2
  <2> HIDE DEF st, first
  <2> QED BY <2>2, <2>4, <2>5, <2>6, <2>7, ResultsChange, Zenon
<1> QED BY <1>2, <1>3

LEMMA NextDeploy == DeployInv /\ [Deploy!Next]_deployVars => DeployInv'
<1> SUFFICES ASSUME DeployInv, [Deploy!Next]_deployVars PROVE DeployInv'
  OBVIOUS
<1>1. ASSUME NEW c \in Daemons, Deploy!Connect(c) PROVE DeployInv'
  BY <1>1, DeployChecks, DeployAlters, DeployRebuilds, DeployEnds, DeployIndexes, DeployHolds,
     DeployAborts DEF Deploy!Connect
<1>2. CASE UNCHANGED deployVars
  BY <1>2 DEF deployVars, DeployInv, ConnTypes, MigrationInv, CallsInv, DraftInv, DataOK, Draft,
     NoLess, Reached, FailuresHeld, HasState, Deploy!View
<1> QED BY <1>1, <1>2, DeployMore, DeployResults DEF Deploy!Next

LEMMA DeployPart == RecordsNext \/ UNCHANGED all => [Deploy!Next]_deployVars
  BY DEF RecordsNext, Rest, all, deployVars

(* For any daemons and any file of an earlier release: an old failure      *)
(* blocks new withdrawals until it is looked up, no row is lost, and who   *)
(* is connected finds the whole schema, however many connects race, are    *)
(* killed or lose the lock.                                                *)
THEOREM MigrationIsSound == RecordsSpec => []MigrationSound
<1>1. RecordsInit => DeployInv
  BY InitDeploy DEF RecordsInit
<1>2. DeployInv /\ [RecordsNext]_all => DeployInv'
  BY NextDeploy, DeployPart
<1>3. DeployInv => MigrationSound
  <2> SUFFICES ASSUME DeployInv PROVE MigrationSound
    OBVIOUS
  <2>1. Deploy!OldFailuresBlock
    BY DEF DeployInv, MigrationInv, DataOK, Deploy!OldFailuresBlock
  <2>2. Deploy!NoRowMigratedAway
    BY DEF DeployInv, MigrationInv, CallsInv, DataOK, Deploy!NoRowMigratedAway
  <2>3. Deploy!ConnectedMeansMigrated
    <3> SUFFICES ASSUME NEW c \in Daemons, conn[c].at = 9
                 PROVE  db.columns = Deploy!Columns /\ db.wide /\ db.unique
                        /\ (~db.guard => Deploy!Doubled(db))
      BY StepAt DEF Deploy!ConnectedMeansMigrated
    <3>1. Reached(db, 9)
      BY LegacyAssumption DEF DeployInv, MigrationInv, Deploy!View, Draft
    <3> QED BY <3>1 DEF Reached, HasState, DeployInv, MigrationInv, DataOK, Deploy!Columns
  <2> QED BY <2>1, <2>2, <2>3 DEF MigrationSound
<1> QED BY <1>1, <1>2, <1>3, PTL DEF RecordsSpec

-----------------------------------------------------------------------------
(* The walks over Kraken's lists. *)

(* A walk that is under way or done; a total it was told counts what was   *)
(* there when it began.                                                    *)
Walks == [kind : {"trades", "ledger"}, pc : {"page", "done"}, offset : Nat, pages : Nat,
          got : [1..MaxEntries -> Nat], count : Int, since : Nat]

IsWalk(w) == w \in Walks /\ w.since <= newest /\ (w.count = -1 \/ w.count \in w.since..newest)

(* The pages of w went down to the entry above b: of the wanted entries    *)
(* that were there at the beginning all above b are read, none from b on   *)
(* down.  An entry that is not wanted takes a place in a page too, so that *)
(* what was read, twice or not, leaves room for those; and without an      *)
(* arrival nothing is read twice.                                          *)
ReadTo(w, b) ==
    /\ w.offset + b \in w.since..newest
    /\ \A t \in Wanted[w.kind] : b < t /\ t <= w.since => w.got[t] > 0
    /\ \A t \in 1..MaxEntries : t <= b => w.got[t] = 0
    /\ Total(w.got, 1..MaxEntries) + Cardinality(((b + 1)..w.since) \ Wanted[w.kind]) <= w.offset
    /\ b = 0 \/ w.offset = w.pages * PageSize
    /\ newest = w.since => \A t \in 1..MaxEntries : w.got[t] <= 1

(* A finished list misses nothing but what arrivals have pushed out, and   *)
(* has nothing twice without an arrival.                                   *)
Finished(w) ==
    /\ w.since <= MaxPages * PageSize /\ Cardinality(Wanted[w.kind] \intersect 1..w.since) <= Limit[w.kind]
          => \A t \in Wanted[w.kind] \intersect 1..w.since :
                Cardinality(Wanted[w.kind] \intersect 1..t) > newest - w.since => w.got[t] > 0
    /\ newest = w.since => \A t \in 1..MaxEntries : w.got[t] <= 1

WalksInv ==
    /\ newest \in 0..MaxEntries
    /\ walk.pc = "none" \/ IsWalk(walk)
    /\ walk.pc = "page" => \E b \in 0..MaxEntries : ReadTo(walk, b)
    /\ walk.pc = "done" => Finished(walk)

LEMMA ReadIsTotal == \A w, S : Lists!ReadOf(w, S) = Total(w.got, S)
  BY Zenon DEF Lists!ReadOf, Lists!MapThenSumSet, Lists!MapThenFoldSet, Total, MapThenFoldSet, First

LEMMA CountIs == \A S : Lists!Cardinality(S) = Cardinality(S)
  BY Zenon DEF Lists!Cardinality, Cardinality

(* Parts of a finite set that have nothing in common. *)
LEMMA CountParts ==
  ASSUME NEW S, IsFiniteSet(S), NEW A \in SUBSET S, NEW B \in SUBSET S, A \intersect B = {}
  PROVE  /\ Cardinality(A) + Cardinality(B) = Cardinality(A \union B)
         /\ Cardinality(A) + Cardinality(B) <= Cardinality(S)
         /\ IsFiniteSet(A) /\ Cardinality(A) \in Nat
         /\ IsFiniteSet(B) /\ Cardinality(B) \in Nat
         /\ Cardinality(S) \in Nat
<1>1. IsFiniteSet(A) /\ IsFiniteSet(B) /\ IsFiniteSet(A \union B)
  BY FS_Subset, FS_Union
<1>2. /\ Cardinality(A) \in Nat /\ Cardinality(B) \in Nat
      /\ Cardinality(A \union B) \in Nat /\ Cardinality(S) \in Nat
  BY <1>1, FS_CardinalityType
<1>3. Cardinality(A \union B) = Cardinality(A) + Cardinality(B) - Cardinality(A \intersect B)
  BY <1>1, FS_Union
<1>4. Cardinality(A \intersect B) = 0
  BY FS_EmptySet
<1>5. Cardinality(A \union B) <= Cardinality(S)
  BY FS_Subset
<1> QED BY <1>1, <1>2, <1>3, <1>4, <1>5

LEMMA CountSplit ==
  ASSUME NEW S, IsFiniteSet(S), NEW P
  PROVE  /\ Cardinality(S \intersect P) + Cardinality(S \ P) = Cardinality(S)
         /\ Cardinality(S \intersect P) \in Nat /\ Cardinality(S \ P) \in Nat
<1>1. /\ (S \intersect P) \union (S \ P) = S
      /\ (S \intersect P) \intersect (S \ P) = {}
      /\ S \intersect P \in SUBSET S /\ S \ P \in SUBSET S
  OBVIOUS
<1> DEFINE A == S \intersect P
           B == S \ P
<1>2. A \union B = S /\ A \intersect B = {} /\ A \in SUBSET S /\ B \in SUBSET S
  BY <1>1
<1> HIDE DEF A, B
<1>3. /\ Cardinality(A) + Cardinality(B) = Cardinality(A \union B)
      /\ Cardinality(A) \in Nat /\ Cardinality(B) \in Nat
  BY <1>2, CountParts
<1> QED BY <1>2, <1>3 DEF A, B

LEMMA Interval ==
  \A a, b \in Nat : /\ IsFiniteSet(a..b)
                    /\ Cardinality(a..b) = IF a > b THEN 0 ELSE b - a + 1
  BY FS_Interval

LEMMA CountUnion ==
  ASSUME NEW S, IsFiniteSet(S), NEW A \in SUBSET S, NEW B \in SUBSET S
  PROVE  Cardinality(A \union B) <= Cardinality(A) + Cardinality(B)
<1>1. IsFiniteSet(A) /\ IsFiniteSet(B)
  BY FS_Subset
<1>2. IsFiniteSet(A \intersect B)
  BY <1>1, FS_Subset
<1>3. Cardinality(A \union B) = Cardinality(A) + Cardinality(B) - Cardinality(A \intersect B)
  BY <1>1, FS_Union
<1>4. /\ Cardinality(A) \in Nat /\ Cardinality(B) \in Nat
      /\ Cardinality(A \intersect B) \in Nat
  BY <1>1, <1>2, FS_CardinalityType
<1> QED BY <1>3, <1>4

(* A sum of ones counts. *)
LEMMA OnesCount ==
  ASSUME NEW w, NEW S, IsFiniteSet(S), \A x \in S : w[x] = 1
  PROVE  Total(w, S) = Cardinality(S)
<1> DEFINE Good == {T \in SUBSET S : Total(w, T) = Cardinality(T)}
<1>1. ASSUME NEW T \in SUBSET S, \A U \in SUBSET T : U # T => U \in Good
      PROVE  T \in Good
  <2>1. CASE T = {}
    BY <2>1, TotalEmpty, FS_EmptySet
  <2>2. CASE T # {}
    <3>1. PICK y \in T : TRUE
      BY <2>2
    <3>2. T \ {y} \in Good /\ w[y] = 1
      BY <1>1, <3>1
    <3>3. IsFiniteSet(T) /\ \A x \in T : w[x] \in Int
      BY FS_Subset
    <3>4. Total(w, T) = w[y] + Total(w, T \ {y})
      BY <3>1, <3>3, TotalRemove, Finite
    <3>5. Cardinality(T \ {y}) = Cardinality(T) - 1 /\ Cardinality(T) \in Nat
      BY <3>1, <3>3, FS_RemoveElement, FS_CardinalityType
    <3> QED BY <3>2, <3>4, <3>5
  <2> QED BY <2>1, <2>2
<1> HIDE DEF Good
<1>2. SUBSET S \subseteq Good
  BY <1>1, SubsetInduction, Finite
<1> QED BY <1>2 DEF Good

(* Numbers that are positive on P add up to at least as many. *)
LEMMA PositivesCount ==
  ASSUME NEW w, NEW S, IsFiniteSet(S), \A x \in S : w[x] \in Nat,
         NEW P \in SUBSET S, \A x \in P : w[x] > 0
  PROVE  Cardinality(P) <= Total(w, S)
<1> DEFINE v == [x \in P |-> 1]
<1>1. IsFiniteSet(P)
  BY FS_Subset
<1>2. \A x \in P : v[x] = 1 /\ v[x] \in Int /\ w[x] \in Nat /\ v[x] <= w[x]
  OBVIOUS
<1> HIDE DEF v
<1>3. Total(v, P) = Cardinality(P)
  BY <1>1, <1>2, OnesCount
<1>4. Total(v, P) <= Total(w, P)
  BY <1>1, <1>2, TotalAtMost, Finite
<1>5. Total(w, P) <= Total(w, S)
  BY TotalOfPart, Finite
<1>6. Total(w, P) \in Nat /\ Total(w, S) \in Nat /\ Cardinality(P) \in Nat
  BY <1>1, <1>2, TotalNat, Finite, FS_CardinalityType
<1> QED BY <1>3, <1>4, <1>5, <1>6

(* Zeros and ones that add up to as many as there are are ones. *)
LEMMA AllAreOnes ==
  ASSUME NEW w, NEW S, IsFiniteSet(S), \A x \in S : w[x] \in Nat /\ w[x] <= 1,
         Total(w, S) >= Cardinality(S)
  PROVE  \A x \in S : w[x] > 0
<1> SUFFICES ASSUME NEW y \in S, w[y] = 0 PROVE FALSE
  OBVIOUS
<1> DEFINE R == S \ {y}
           v == [x \in R |-> 1]
<1>1. IsFiniteSet(R) /\ Cardinality(R) = Cardinality(S) - 1 /\ Cardinality(S) \in Nat
  BY FS_RemoveElement, FS_CardinalityType
<1>2. /\ \A x \in S : w[x] \in Int
      /\ \A x \in R : v[x] = 1 /\ v[x] \in Nat /\ w[x] \in Int /\ w[x] <= v[x]
  OBVIOUS
<1>3. Total(w, S) = w[y] + Total(w, R)
  BY <1>2, TotalRemove, Finite
<1> HIDE DEF v, R
<1>4. Total(v, R) = Cardinality(R) /\ Total(w, R) <= Total(v, R) /\ Total(w, R) \in Int
  BY <1>1, <1>2, OnesCount, TotalAtMost, TotalInt, Finite
<1> QED BY <1>1, <1>3, <1>4

(* The entries of P read once more. *)
LEMMA OneMoreReading ==
  ASSUME NEW got, NEW S, IsFiniteSet(S), \A t \in S : got[t] \in Nat, NEW P \in SUBSET S,
         NEW more, \A t \in S : more[t] = IF t \in P THEN got[t] + 1 ELSE got[t]
  PROVE  Total(more, S) = Total(got, S) + Cardinality(P)
<1> DEFINE u == [t \in S |-> IF t \in P THEN 1 ELSE 0]
<1>1. /\ IsFiniteSet(P)
      /\ \A t \in S : u[t] \in Nat /\ u[t] \in Int /\ got[t] \in Int /\ more[t] = got[t] + u[t]
      /\ \A t \in S \ P : u[t] = 0
      /\ \A t \in P : u[t] = 1
  BY FS_Subset
<1> HIDE DEF u
<1>2. Total(more, S) = Total(got, S) + Total(u, S)
  BY <1>1, TotalPlus, Finite
<1>3. Total(u, S) = Total(u, P) /\ Total(u, P) = Cardinality(P)
  BY <1>1, TotalOfWeighed, OnesCount, Finite
<1> QED BY <1>2, <1>3

(* A page has at least one entry as long as the offset is within the list, *)
(* and reaches from the offset down without a gap.                         *)
LEMMA PageIsRange ==
  ASSUME NEW offset \in Nat, newest \in 0..MaxEntries
  PROVE  \E lo \in 0..MaxEntries, top \in Int :
           /\ top = newest - offset
           /\ Lists!Page(offset) = (lo + 1)..top
           /\ Lists!Page(offset) = {} => top <= 0 /\ lo = 0
           /\ Lists!Page(offset) # {} => lo < top
           /\ Lists!Page(offset) # {} /\ lo # 0 => top - lo = PageSize
<1> DEFINE top == newest - offset
           lo == IF top > PageSize THEN top - PageSize ELSE 0
<1>1. top \in Int /\ top <= MaxEntries /\ lo \in 0..MaxEntries
  BY ListsAssumption
<1>2. Lists!Page(offset) = (lo + 1)..top
  BY ListsAssumption DEF Lists!Page
<1>3. top > 0 => top \in (lo + 1)..top
  BY ListsAssumption
<1>4. Lists!Page(offset) = {} => top <= 0 /\ lo = 0
  BY <1>1, <1>2, <1>3, ListsAssumption
<1>5. Lists!Page(offset) # {} => lo < top
  BY <1>1, <1>2
<1>6. lo # 0 => top - lo = PageSize
  BY <1>1, ListsAssumption
<1> QED BY <1>1, <1>2, <1>4, <1>5, <1>6

LEMMA PageRead ==
  ASSUME newest \in 0..MaxEntries, NEW w, IsWalk(w), NEW b \in 0..MaxEntries, ReadTo(w, b),
         NEW n, n.kind = w.kind, n.since = w.since,
         n.offset = w.offset + Cardinality(Lists!Page(w.offset)), n.pages = w.pages + 1,
         n.got \in [1..MaxEntries -> Nat],
         \A t \in 1..MaxEntries :
            n.got[t] = IF t \in Lists!Page(w.offset) \intersect Wanted[w.kind]
                       THEN w.got[t] + 1 ELSE w.got[t]
  PROVE  \E c \in 0..MaxEntries : ReadTo(n, c) /\ (Lists!Page(w.offset) = {} => c = 0)
<1> DEFINE page == Lists!Page(w.offset)
           W == Wanted[w.kind]
           E == 1..MaxEntries
<1>1. PICK lo \in 0..MaxEntries, top \in Int :
           /\ top = newest - w.offset
           /\ page = (lo + 1)..top
           /\ page = {} => top <= 0 /\ lo = 0
           /\ page # {} => lo < top
           /\ page # {} /\ lo # 0 => top - lo = PageSize
  BY PageIsRange DEF IsWalk, Walks
<1>2. /\ w.offset \in Nat /\ w.since \in 0..newest /\ w.pages \in Nat /\ w.got \in [E -> Nat]
      /\ W \in SUBSET E /\ newest <= MaxEntries /\ newest \in Nat /\ MaxEntries \in Nat
      /\ PageSize \in Nat
  <2>1. /\ w.offset \in Nat /\ w.since \in Nat /\ w.since <= newest /\ w.pages \in Nat
        /\ w.got \in [E -> Nat] /\ w.kind \in {"trades", "ledger"}
    BY DEF IsWalk, Walks
  <2>2. MaxEntries \in Nat /\ PageSize \in Nat /\ W \in SUBSET E
    BY <2>1, ListsAssumption
  <2>3. newest \in Nat /\ newest <= MaxEntries
    BY <2>2
  <2> QED BY <2>1, <2>2, <2>3
<1>3. /\ IsFiniteSet(page) /\ Cardinality(page) = (IF page = {} THEN 0 ELSE top - lo)
      /\ IsFiniteSet(E) /\ Cardinality(page) \in Nat
  <2>1. IsFiniteSet(E) /\ IsFiniteSet((lo + 1)..top)
    BY <1>2, FS_Interval
  <2>2. page # {} => Cardinality((lo + 1)..top) = top - lo /\ top - lo \in Nat
    <3>1. (lo + 1) \in Int /\ lo \in Nat
      BY <1>2
    <3>2. Cardinality((lo + 1)..top) = IF lo + 1 > top THEN 0 ELSE top - (lo + 1) + 1
      BY <3>1, FS_Interval
    <3> QED BY <1>1, <3>1, <3>2
  <2> HIDE DEF page, E
  <2> QED BY <1>1, <2>1, <2>2, FS_EmptySet
<1>4. page \subseteq E
  <2>1. lo \in Nat /\ top <= MaxEntries /\ MaxEntries \in Nat
    BY <1>1, <1>2
  <2>2. (lo + 1)..top \subseteq E
    BY ONLY <2>1
  <2>3. page = (lo + 1)..top
    BY <1>1
  <2> HIDE DEF page, E
  <2> QED BY <2>2, <2>3, Zenon
<1> DEFINE c == IF b < lo THEN b ELSE lo
<1>5. c \in 0..MaxEntries /\ c <= b /\ c <= lo
  BY <1>1
<1>6. w.offset + b >= w.since /\ w.offset + b <= newest
  BY DEF ReadTo
<1>7. page = {} => c = 0
  <2> HIDE DEF page
  <2> QED BY <1>1, <1>2, <1>6
<1>8. n.offset + c \in n.since..newest
  <2>1. n.offset = w.offset + Cardinality(page)
    OBVIOUS
  <2> HIDE DEF page
  <2>2. n.offset + c >= w.since /\ n.offset + c <= newest /\ n.offset + c \in Int
    <3>1. w.offset \in Int /\ w.since \in Int /\ newest \in Int /\ lo \in Int /\ b \in Int
      BY <1>2
    <3>2. page = {} => n.offset = w.offset /\ c = 0 /\ b = 0 /\ w.offset <= newest
      <4>1. page = {} => top <= 0 /\ lo = 0 /\ Cardinality(page) = 0 /\ top = newest - w.offset
        BY <1>1, <1>3
      <4>2. page = {} => n.offset = w.offset
        BY <2>1, <3>1, <4>1
      <4> HIDE DEF W, E
      <4> QED BY <1>6, <3>1, <4>1, <4>2
    <3>3. page # {} => n.offset = newest - lo /\ lo < newest - w.offset
      BY <1>1, <1>3, <2>1, <3>1
    <3> HIDE DEF E, W
    <3> QED BY <1>6, <3>1, <3>2, <3>3, <1>2
  <2> QED BY <1>2, <2>2
<1>9. \A t \in W : c < t /\ t <= n.since => n.got[t] > 0
  <2> SUFFICES ASSUME NEW t \in W, c < t, t <= w.since
               PROVE  n.got[t] > 0
    OBVIOUS
  <2>1. t \in E /\ w.got[t] \in Nat
    BY <1>2
  <2>2. CASE b < t
    <3>1. w.got[t] > 0
      BY <2>2 DEF ReadTo
    <3> QED BY <2>1, <3>1
  <2>3. CASE ~(b < t)
    <3>1. lo < t /\ t <= top
      BY <1>1, <1>2, <1>6, <2>1, <2>3
    <3>2. t \in page
      BY <1>1, <2>1, <3>1
    <3> QED BY <2>1, <3>2
  <2> QED BY <2>2, <2>3
<1>10. \A t \in E : t <= c => n.got[t] = 0
  <2> SUFFICES ASSUME NEW t \in E, t <= c PROVE n.got[t] = 0
    OBVIOUS
  <2>1. t <= b /\ t \notin page
    BY <1>1, <1>5
  <2>2. w.got[t] = 0
    BY <2>1 DEF ReadTo
  <2> QED BY <2>1, <2>2
<1>11. Total(n.got, E) + Cardinality(((c + 1)..n.since) \ W) <= n.offset
  <2> DEFINE gap == ((b + 1)..w.since) \ W
             rest == ((c + 1)..n.since) \ W
             read == page \intersect W
             other == page \ W
  <2>1. /\ Total(n.got, E) = Total(w.got, E) + Cardinality(read)
        /\ Total(w.got, E) \in Nat
    <3>1. /\ read \in SUBSET E /\ \A t \in E : w.got[t] \in Nat
          /\ \A t \in E : n.got[t] = IF t \in read THEN w.got[t] + 1 ELSE w.got[t]
      BY <1>2, <1>4
    <3> HIDE DEF read, E
    <3> QED BY <1>3, <3>1, OneMoreReading, TotalNat, Finite
  <2>2. Cardinality(read) + Cardinality(other) = Cardinality(page)
        /\ Cardinality(read) \in Nat /\ Cardinality(other) \in Nat
    <3> HIDE DEF page, W
    <3> QED BY <1>3, CountSplit
  <2>3. IsFiniteSet(gap \union other) /\ IsFiniteSet(gap)
    <3>1. gap \subseteq E
      BY <1>2
    <3>2. other \subseteq E
      <4> HIDE DEF page, E
      <4> QED BY <1>4
    <3> HIDE DEF gap, other, E
    <3> QED BY <1>3, <3>1, <3>2, FS_Subset
  <2>4. rest \subseteq gap \union other
    BY <1>1, <1>2, <1>6
  <2>5. Cardinality(rest) <= Cardinality(gap) + Cardinality(other)
        /\ Cardinality(rest) \in Nat /\ Cardinality(gap) \in Nat
    <3> HIDE DEF rest, gap, other
    <3>1. Cardinality(gap \union other) <= Cardinality(gap) + Cardinality(other)
      BY <2>3, CountUnion
    <3>2. Cardinality(rest) <= Cardinality(gap \union other) /\ IsFiniteSet(rest)
      BY <2>3, <2>4, FS_Subset
    <3>3. /\ Cardinality(gap \union other) \in Nat /\ Cardinality(rest) \in Nat
          /\ Cardinality(gap) \in Nat
      BY <2>3, <3>2, FS_CardinalityType
    <3> QED BY <2>2, <3>1, <3>2, <3>3
  <2>6. Total(w.got, E) + Cardinality(gap) <= w.offset
    BY DEF ReadTo
  <2>7. n.offset = w.offset + Cardinality(page)
    OBVIOUS
  <2>8. w.offset \in Nat
    BY <1>2
  <2> HIDE DEF rest, gap, other, read, page, E
  <2>9. Total(n.got, E) + Cardinality(rest) <= n.offset
    BY <1>3, <2>1, <2>2, <2>5, <2>6, <2>7, <2>8
  <2> QED BY <2>9 DEF rest, E
<1>12. c = 0 \/ n.offset = n.pages * PageSize
  <2> SUFFICES ASSUME c # 0 PROVE n.offset = n.pages * PageSize
    OBVIOUS
  <2>1. b # 0 /\ lo # 0 /\ page # {}
    BY <1>1, <1>5, <1>7
  <2>2. w.offset = w.pages * PageSize
    BY <2>1 DEF ReadTo
  <2>3. n.offset = w.pages * PageSize + PageSize
    BY <1>1, <1>3, <2>1, <2>2
  <2>4. (w.pages + 1) * PageSize = w.pages * PageSize + PageSize
    BY <1>2
  <2> QED BY <2>3, <2>4
<1>13. newest = n.since => \A t \in E : n.got[t] <= 1
  <2> SUFFICES ASSUME newest = w.since, NEW t \in E PROVE n.got[t] <= 1
    OBVIOUS
  <2>1. w.got[t] \in Nat /\ w.got[t] <= 1
    BY <1>2 DEF ReadTo
  <2>2. t \in page => t <= b
    BY <1>1, <1>2, <1>6
  <2>3. t <= b => w.got[t] = 0
    BY DEF ReadTo
  <2> QED BY <2>1, <2>2, <2>3
<1> HIDE DEF c, page, W, E
<1>14. ReadTo(n, c)
  BY <1>8, <1>9, <1>10, <1>11, <1>12, <1>13 DEF ReadTo, W, E
<1> QED BY <1>5, <1>7, <1>14 DEF page

(* How a walk that has come down to b may end: when it is not yet at an    *)
(* entry, that entry is among the oldest, as many as have arrived.         *)
LEMMA WalkEnds ==
  ASSUME newest \in 0..MaxEntries, NEW n, IsWalk(n), NEW b \in 0..MaxEntries, ReadTo(n, b),
         NEW page, Lists!Over(n, page), page = {} => b = 0,
         n.since <= MaxPages * PageSize,
         Cardinality(Wanted[n.kind] \intersect 1..n.since) <= Limit[n.kind],
         NEW t \in Wanted[n.kind] \intersect 1..n.since,
         Cardinality(Wanted[n.kind] \intersect 1..t) > newest - n.since
  PROVE  b < t
<1> DEFINE W == Wanted[n.kind]
           E == 1..MaxEntries
           older == W \intersect 1..t
           gap == (b + 1)..n.since
<1>0. /\ n.since \in 0..newest /\ n.got \in [E -> Nat] /\ n.offset \in Nat /\ n.pages \in Nat
      /\ n.kind \in {"trades", "ledger"}
  BY DEF IsWalk, Walks
<1>1. /\ n.offset \in Nat /\ n.since \in Nat /\ n.since <= newest /\ newest <= MaxEntries
      /\ newest \in Nat /\ MaxEntries \in Nat /\ t \in Nat /\ t <= n.since /\ b \in Nat
      /\ PageSize \in Nat /\ MaxPages \in Nat /\ n.pages \in Nat
      /\ W \in SUBSET E /\ n.got \in [E -> Nat] /\ Limit[n.kind] \in Nat
  <2>1. /\ MaxEntries \in Nat /\ PageSize \in Nat /\ MaxPages \in Nat
        /\ W \in SUBSET E /\ Limit[n.kind] \in Nat
    BY <1>0, ListsAssumption
  <2>2. /\ newest \in Nat /\ newest <= MaxEntries /\ n.since \in Nat /\ n.since <= newest
        /\ b \in Nat
    BY <1>0, <2>1
  <2>3. t \in 1..n.since
    OBVIOUS
  <2> QED BY <1>0, <2>1, <2>2, <2>3
<1>2. n.offset + b >= n.since /\ n.offset + b <= newest
  BY DEF ReadTo
<1>3. SUFFICES ASSUME t <= b PROVE FALSE
  BY <1>1
<1>4. Cardinality(older) \in Nat /\ Cardinality(older) <= t
  <2>1. IsFiniteSet(1..t) /\ Cardinality(1..t) = t
    BY <1>1, Interval
  <2>2. older \in SUBSET (1..t)
    OBVIOUS
  <2> HIDE DEF older
  <2> QED BY <2>1, <2>2, FS_Subset, FS_CardinalityType
<1>5. n.offset < n.since
  <2>1. Cardinality(older) > newest - n.since
    OBVIOUS
  <2> HIDE DEF older, W, E
  <2> QED BY <1>1, <1>2, <1>3, <1>4, <2>1
<1>6. b # 0 /\ page # {}
  BY <1>1, <1>3
<1>7. ~(n.count # -1 /\ n.offset >= n.count)
  BY <1>1, <1>5 DEF IsWalk, Walks
<1>8. n.pages # MaxPages
  <2>1. n.offset = n.pages * PageSize
    BY <1>6 DEF ReadTo
  <2> QED BY <1>1, <1>5, <2>1
<1>9. Total(n.got, E) >= Limit[n.kind]
  BY <1>6, <1>7, <1>8, ReadIsTotal DEF Lists!Over, Lists!NoCount, Lists!Entries
<1>10. Total(n.got, E) + Cardinality(gap \ W) <= n.offset
  BY DEF ReadTo
<1>11. IsFiniteSet(gap) /\ Cardinality(gap) = IF b < n.since THEN n.since - b ELSE 0
  <2>1. /\ IsFiniteSet(gap)
        /\ Cardinality(gap) = IF b + 1 > n.since THEN 0 ELSE n.since - (b + 1) + 1
    <3>1. b + 1 \in Nat /\ n.since \in Nat
      BY <1>1
    <3> QED BY <3>1, Interval
  <2> QED BY <1>1, <2>1
<1>12. /\ Cardinality(gap \intersect W) + Cardinality(gap \ W) = Cardinality(gap)
       /\ Cardinality(gap \intersect W) \in Nat /\ Cardinality(gap \ W) \in Nat
  BY <1>11, CountSplit
<1>13. Cardinality(older) + Cardinality(gap \intersect W) <= Cardinality(W \intersect 1..n.since)
  <2> DEFINE wanted == W \intersect 1..n.since
             newer == gap \intersect W
  <2>1. /\ older \in SUBSET wanted /\ newer \in SUBSET wanted /\ older \intersect newer = {}
    BY <1>1, <1>3
  <2>2. IsFiniteSet(wanted)
    <3>1. IsFiniteSet(1..n.since) /\ wanted \in SUBSET (1..n.since)
      BY <1>1, Interval
    <3> HIDE DEF wanted
    <3> QED BY <3>1, FS_Subset
  <2> HIDE DEF wanted, newer, older, W, gap
  <2>3. Cardinality(older) + Cardinality(newer) <= Cardinality(wanted)
    BY <2>1, <2>2, CountParts
  <2> QED BY <2>3 DEF wanted, newer
<1>14. Cardinality(W \intersect 1..n.since) \in Nat
  <2>1. IsFiniteSet(1..n.since) /\ W \intersect 1..n.since \in SUBSET (1..n.since)
    BY <1>1, Interval
  <2> QED BY <2>1, FS_Subset, FS_CardinalityType
<1>15. Total(n.got, E) \in Nat
  <2>1. IsFiniteSet(E) /\ \A e \in E : n.got[e] \in Nat
    BY <1>1, Interval
  <2> HIDE DEF E
  <2> QED BY <2>1, TotalNat, Finite
<1>16. /\ Cardinality(older) > newest - n.since
       /\ Cardinality(W \intersect 1..n.since) <= Limit[n.kind]
  OBVIOUS
<1> HIDE DEF older, gap, W, E
<1> QED BY <1>1, <1>2, <1>3, <1>4, <1>9, <1>10, <1>11, <1>12, <1>13, <1>14, <1>15, <1>16

(* The cut keeps what is not among the oldest. *)
LEMMA CutKeeps ==
  ASSUME newest \in 0..MaxEntries, NEW n, IsWalk(n), NEW b \in 0..MaxEntries, ReadTo(n, b),
         Cardinality(Wanted[n.kind] \intersect 1..n.since) <= Limit[n.kind],
         NEW t \in Wanted[n.kind] \intersect 1..n.since,
         Cardinality(Wanted[n.kind] \intersect 1..t) > newest - n.since, b < t
  PROVE  Lists!Sorted(n)[t] > 0
<1> DEFINE W == Wanted[n.kind]
           E == 1..MaxEntries
           older == W \intersect 1..t
           low == 1..t
           high == (t + 1)..MaxEntries
           gap == (b + 1)..n.since
           read == (b + 1)..t \intersect W
           newer == (t + 1)..n.since \intersect W
<1>0. /\ n.since \in 0..newest /\ n.got \in [E -> Nat] /\ n.offset \in Nat /\ n.pages \in Nat
      /\ n.kind \in {"trades", "ledger"}
  BY DEF IsWalk, Walks
<1>1. /\ n.offset \in Nat /\ n.since \in Nat /\ n.since <= newest /\ newest <= MaxEntries
      /\ newest \in Nat /\ MaxEntries \in Nat /\ t \in Nat /\ t <= n.since /\ b \in Nat
      /\ PageSize \in Nat /\ MaxPages \in Nat /\ n.pages \in Nat
      /\ W \in SUBSET E /\ n.got \in [E -> Nat] /\ Limit[n.kind] \in Nat /\ t \in E
  <2>1. /\ MaxEntries \in Nat /\ PageSize \in Nat /\ MaxPages \in Nat
        /\ W \in SUBSET E /\ Limit[n.kind] \in Nat
    BY <1>0, ListsAssumption
  <2>2. /\ newest \in Nat /\ newest <= MaxEntries /\ n.since \in Nat /\ n.since <= newest
        /\ b \in Nat
    BY <1>0, <2>1
  <2>3. t \in 1..n.since
    OBVIOUS
  <2> QED BY <1>0, <2>1, <2>2, <2>3
<1>2. n.offset + b >= n.since /\ n.offset + b <= newest
  BY DEF ReadTo
<1>3. /\ IsFiniteSet(E) /\ IsFiniteSet(low) /\ IsFiniteSet(high) /\ IsFiniteSet(gap)
      /\ Cardinality(gap) = n.since - b
  <2>1. /\ IsFiniteSet(gap)
        /\ Cardinality(gap) = IF b + 1 > n.since THEN 0 ELSE n.since - (b + 1) + 1
    <3>1. b + 1 \in Nat /\ n.since \in Nat
      BY <1>1
    <3> QED BY <3>1, Interval
  <2>2. IsFiniteSet(E) /\ IsFiniteSet(low) /\ IsFiniteSet(high)
    BY <1>1, Interval
  <2> HIDE DEF gap, E, low, high
  <2> QED BY <1>1, <2>1, <2>2
<1>4. Total(n.got, E) = Total(n.got, low) + Total(n.got, high)
      /\ Total(n.got, low) \in Nat /\ Total(n.got, high) \in Nat
  <2>1. low \in SUBSET E /\ E \ low = high /\ high \in SUBSET E
    <3>1. t \in Nat /\ 1 <= t /\ t <= MaxEntries /\ MaxEntries \in Nat
      BY <1>1
    <3>2. low \in SUBSET E /\ high \in SUBSET E
      BY ONLY <3>1
    <3>3. \A x : x \in E \ low <=> x \in high
      BY ONLY <3>1
    <3> HIDE DEF E, low, high
    <3> QED BY <3>2, <3>3
  <2>2. /\ \A e \in E : n.got[e] \in Int /\ n.got[e] \in Nat
        /\ \A e \in low : n.got[e] \in Nat
        /\ \A e \in high : n.got[e] \in Nat
    BY <1>1, <2>1
  <2> HIDE DEF E, low, high
  <2>3. Total(n.got, E) = Total(n.got, low) + Total(n.got, E \ low)
    BY <1>3, <2>1, <2>2, TotalSplit, Finite
  <2> QED BY <1>3, <2>1, <2>2, <2>3, TotalNat, Finite
<1>5. Cardinality(read) <= Total(n.got, low)
  <2>1. /\ read \in SUBSET low /\ low \subseteq E
        /\ \A e \in read : e \in W /\ b < e /\ e <= n.since
    BY <1>1
  <2>2. \A e \in low : n.got[e] \in Nat
    BY <1>1, <2>1
  <2>3. \A e \in W : b < e /\ e <= n.since => n.got[e] > 0
    BY DEF ReadTo
  <2>4. \A e \in read : n.got[e] > 0
    BY <2>1, <2>3
  <2> HIDE DEF read, low
  <2> QED BY <1>3, <2>1, <2>2, <2>4, PositivesCount
<1>6. Total(n.got, E) + Cardinality(gap \ W) <= n.offset
  BY DEF ReadTo
<1>7. /\ Cardinality(gap \intersect W) + Cardinality(gap \ W) = n.since - b
      /\ Cardinality(gap \intersect W) \in Nat /\ Cardinality(gap \ W) \in Nat
  BY <1>3, CountSplit
<1>8. /\ Cardinality(gap \intersect W) = Cardinality(read) + Cardinality(newer)
      /\ Cardinality(read) \in Nat /\ Cardinality(newer) \in Nat
  <2> DEFINE both == gap \intersect W
  <2>1. read \union newer = both /\ read \intersect newer = {}
    BY <1>1
  <2>2. IsFiniteSet(both) /\ read \in SUBSET both /\ newer \in SUBSET both
    <3>1. both \in SUBSET gap
      OBVIOUS
    <3>2. IsFiniteSet(both)
      BY <1>3, <3>1, FS_Subset
    <3> QED BY <2>1, <3>2
  <2> HIDE DEF both, read, newer
  <2>3. /\ Cardinality(read) + Cardinality(newer) = Cardinality(read \union newer)
        /\ Cardinality(read) \in Nat /\ Cardinality(newer) \in Nat
    BY <2>1, <2>2, CountParts
  <2> QED BY <2>1, <2>3 DEF both
<1>9. /\ Cardinality(W \intersect 1..n.since) = Cardinality(older) + Cardinality(newer)
      /\ Cardinality(older) \in Nat
  <2> DEFINE wanted == W \intersect 1..n.since
  <2>1. older \union newer = wanted /\ older \intersect newer = {}
    BY <1>1
  <2>2. IsFiniteSet(wanted) /\ older \in SUBSET wanted /\ newer \in SUBSET wanted
    <3>1. IsFiniteSet(1..n.since) /\ wanted \in SUBSET (1..n.since)
      BY <1>1, Interval
    <3>2. IsFiniteSet(wanted)
      <4> HIDE DEF wanted
      <4> QED BY <3>1, FS_Subset
    <3> QED BY <2>1, <3>2
  <2> HIDE DEF wanted, older, newer
  <2>3. /\ Cardinality(older) + Cardinality(newer) = Cardinality(older \union newer)
        /\ Cardinality(older) \in Nat
    BY <2>1, <2>2, CountParts
  <2> QED BY <2>1, <2>3 DEF wanted
<1>10. /\ Cardinality(older) > newest - n.since
       /\ Cardinality(W \intersect 1..n.since) <= Limit[n.kind]
  OBVIOUS
<1>11. Total(n.got, high) < Limit[n.kind]
  <2> HIDE DEF older, newer, read, gap, low, high, W, E
  <2> QED BY <1>1, <1>2, <1>4, <1>5, <1>6, <1>7, <1>8, <1>9, <1>10
<1>12. Lists!Room(n, t) = Limit[n.kind] - Total(n.got, high)
  BY ReadIsTotal DEF Lists!Room
<1>13. n.got[t] \in Nat /\ n.got[t] > 0
  BY <1>1 DEF ReadTo
<1>14. Lists!Sorted(n)[t] = IF Lists!Room(n, t) >= n.got[t] THEN n.got[t]
                            ELSE IF Lists!Room(n, t) > 0 THEN Lists!Room(n, t) ELSE 0
  BY <1>1 DEF Lists!Sorted, Lists!Entries
<1> HIDE DEF high
<1> QED BY <1>1, <1>4, <1>11, <1>12, <1>13, <1>14

(* The cut takes away only. *)
LEMMA CutTakes ==
  ASSUME NEW n, IsWalk(n)
  PROVE  /\ Lists!Sorted(n) \in [1..MaxEntries -> Nat]
         /\ \A t \in 1..MaxEntries : Lists!Sorted(n)[t] <= n.got[t]
<1> SUFFICES ASSUME NEW t \in 1..MaxEntries
             PROVE  Lists!Sorted(n)[t] \in Nat /\ Lists!Sorted(n)[t] <= n.got[t]
  BY DEF Lists!Sorted, Lists!Entries
<1> DEFINE high == (t + 1)..MaxEntries
<1>1. n.got[t] \in Nat /\ Limit[n.kind] \in Nat /\ MaxEntries \in Nat
  BY ListsAssumption DEF IsWalk, Walks
<1>2. Total(n.got, high) \in Nat
  <2>1. IsFiniteSet(high)
    <3>1. t + 1 \in Nat
      OBVIOUS
    <3> QED BY <1>1, <3>1, Interval
  <2>2. \A e \in high : n.got[e] \in Nat
    <3>1. \A e \in high : e \in 1..MaxEntries
      BY <1>1
    <3>2. n.got \in [1..MaxEntries -> Nat]
      BY DEF IsWalk, Walks
    <3> QED BY <3>1, <3>2
  <2> HIDE DEF high
  <2> QED BY <2>1, <2>2, TotalNat, Finite
<1>3. Lists!Room(n, t) = Limit[n.kind] - Total(n.got, high)
  BY ReadIsTotal DEF Lists!Room
<1>4. Lists!Sorted(n)[t] = IF Lists!Room(n, t) >= n.got[t] THEN n.got[t]
                           ELSE IF Lists!Room(n, t) > 0 THEN Lists!Room(n, t) ELSE 0
  BY DEF Lists!Sorted, Lists!Entries
<1> HIDE DEF high
<1> QED BY <1>1, <1>2, <1>3, <1>4

LEMMA InitWalks == Lists!Init => WalksInv
  BY ListsAssumption DEF Lists!Init, Lists!NoWalk, WalksInv

LEMMA WalkBegins ==
  ASSUME WalksInv, NEW kind \in Lists!Kinds, Lists!Begin(kind)
  PROVE  WalksInv'
<1>1. /\ newest' = newest /\ newest \in Nat /\ newest <= MaxEntries /\ MaxEntries \in Nat
      /\ walk' = [kind |-> kind, pc |-> "page", offset |-> 0, pages |-> 0,
                  got |-> [t \in 1..MaxEntries |-> 0], count |-> -1, since |-> newest]
      /\ kind \in {"trades", "ledger"} /\ Wanted[kind] \in SUBSET (1..MaxEntries)
  <2>1. /\ newest' = newest /\ newest \in Nat /\ newest <= MaxEntries /\ MaxEntries \in Nat
        /\ kind \in {"trades", "ledger"} /\ Wanted[kind] \in SUBSET (1..MaxEntries)
    BY ListsAssumption DEF Lists!Begin, Lists!Kinds, WalksInv
  <2>2. walk' = [Lists!NoWalk EXCEPT !.kind = kind, !.pc = "page", !.since = newest]
    BY DEF Lists!Begin
  <2> DEFINE none == [t \in 1..MaxEntries |-> 0]
  <2>3. Lists!NoWalk = [kind |-> "none", pc |-> "none", offset |-> 0, pages |-> 0,
                        got |-> none, count |-> -1, since |-> 0]
    BY DEF Lists!NoWalk, Lists!Entries, Lists!NoCount
  <2> HIDE DEF none
  <2>4. walk' = [kind |-> kind, pc |-> "page", offset |-> 0, pages |-> 0,
                 got |-> none, count |-> -1, since |-> newest]
    BY <2>2, <2>3
  <2> QED BY <2>1, <2>4 DEF none
<1>2. IsWalk(walk)'
  BY <1>1 DEF IsWalk, Walks
<1>3. ReadTo(walk, newest)'
  <2> DEFINE zeros == [t \in 1..MaxEntries |-> 0]
             gap == ((newest + 1)..newest) \ Wanted[kind]
  <2>1. Total(zeros, 1..MaxEntries) = 0
    <3>1. IsFiniteSet(1..MaxEntries) /\ IsFiniteSet({})
      BY <1>1, Interval, FS_EmptySet
    <3>2. \A x \in 1..MaxEntries : zeros[x] \in Nat /\ zeros[x] = 0
      OBVIOUS
    <3> HIDE DEF zeros
    <3>3. Total(zeros, 1..MaxEntries) = Total(zeros, {})
      BY <3>1, <3>2, TotalOfWeighed, Finite
    <3> QED BY <3>3, TotalEmpty
  <2>2. Cardinality(gap) = 0
    <3>1. gap = {}
      BY <1>1
    <3> QED BY <3>1, FS_EmptySet
  <2>3. walk'.got = zeros /\ walk'.since = newest /\ walk'.kind = kind /\ walk'.offset = 0
        /\ walk'.pages = 0
    BY <1>1
  <2>4. \A t \in 1..MaxEntries : zeros[t] = 0
    OBVIOUS
  <2>5. Total(walk'.got, 1..MaxEntries) = 0
        /\ Cardinality(((newest + 1)..walk'.since) \ Wanted[walk'.kind]) = 0
    BY <2>1, <2>2, <2>3
  <2> HIDE DEF zeros, gap
  <2> QED BY <1>1, <2>3, <2>4, <2>5, ListsAssumption DEF ReadTo
<1> QED BY <1>1, <1>2, <1>3 DEF WalksInv

LEMMA WalkReads == ASSUME WalksInv, Lists!ReadPage PROVE WalksInv'
<1> DEFINE page == Lists!Page(walk.offset)
<1>1. PICK count \in {newest, -1} :
        LET next == [walk EXCEPT !.offset = @ + Lists!Advance(page), !.pages = @ + 1,
                                 !.got = [t \in Lists!Entries |->
                                    IF t \in page \intersect Wanted[walk.kind] THEN @[t] + 1
                                                                             ELSE @[t]],
                                 !.count = IF @ = Lists!NoCount /\ page # {} THEN count ELSE @]
        IN walk' = IF Lists!Over(next, page)
                   THEN [next EXCEPT !.pc = "done", !.got = Lists!Sorted(next)]
                   ELSE next
  BY Zenon DEF Lists!ReadPage, Lists!NoCount
<1> DEFINE more == [t \in 1..MaxEntries |->
                      IF t \in page \intersect Wanted[walk.kind] THEN walk.got[t] + 1
                                                               ELSE walk.got[t]]
           n == [walk EXCEPT !.offset = @ + Cardinality(page), !.pages = @ + 1, !.got = more,
                             !.count = IF @ = -1 /\ page # {} THEN count ELSE @]
           d == Lists!Sorted(n)
<1>2. walk.pc = "page" /\ newest' = newest /\ newest \in 0..MaxEntries /\ IsWalk(walk)
  BY DEF Lists!ReadPage, WalksInv
<1>3. walk' = IF Lists!Over(n, page) THEN [n EXCEPT !.pc = "done", !.got = d] ELSE n
  <2>1. [t \in Lists!Entries |-> IF t \in page \intersect Wanted[walk.kind] THEN walk.got[t] + 1
                                                                      ELSE walk.got[t]] = more
    BY DEF Lists!Entries
  <2>2. Lists!Advance(page) = Cardinality(page)
    BY CountIs DEF Lists!Advance
  <2> HIDE DEF more, page
  <2> QED BY <1>1, <2>1, <2>2, Zenon DEF Lists!NoCount
<1>4. PICK b \in 0..MaxEntries : ReadTo(walk, b)
  BY <1>2 DEF WalksInv
<1>5. /\ walk \in Walks /\ walk.since <= newest
      /\ walk.count = -1 \/ walk.count \in walk.since..newest
      /\ newest \in Nat /\ MaxEntries \in Nat
  BY <1>2, ListsAssumption DEF IsWalk
<1>6. IsFiniteSet(page) /\ Cardinality(page) \in Nat
  <2>1. walk.offset \in Nat
    BY <1>5 DEF Walks
  <2>2. PICK lo \in 0..MaxEntries, top \in Int : page = (lo + 1)..top
    BY <1>2, <2>1, PageIsRange
  <2>3. IsFiniteSet((lo + 1)..top)
    BY FS_Interval
  <2> HIDE DEF page
  <2> QED BY <2>2, <2>3, FS_CardinalityType
<1>7. more \in [1..MaxEntries -> Nat]
  BY <1>5 DEF Walks
<1>8. /\ n \in Walks /\ n.kind = walk.kind /\ n.since = walk.since /\ n.pc = "page"
      /\ n.offset = walk.offset + Cardinality(page) /\ n.pages = walk.pages + 1 /\ n.got = more
      /\ n.count = IF walk.count = -1 /\ page # {} THEN count ELSE walk.count
  <2> DEFINE o == walk.offset + Cardinality(page)
             p == walk.pages + 1
             k == IF walk.count = -1 /\ page # {} THEN count ELSE walk.count
  <2>1. o \in Nat /\ p \in Nat /\ k \in Int
    <3> HIDE DEF page
    <3> QED BY <1>5, <1>6 DEF Walks
  <2>2. n = [walk EXCEPT !.offset = o, !.pages = p, !.got = more, !.count = k]
    BY Zenon
  <2> HIDE DEF page, more, o, p, k, n
  <2>3. /\ n \in Walks /\ n.kind = walk.kind /\ n.since = walk.since /\ n.pc = walk.pc
        /\ n.offset = o /\ n.pages = p /\ n.got = more /\ n.count = k
    <3>1. walk \in Walks /\ more \in [1..MaxEntries -> Nat]
      BY <1>5, <1>7
    <3> HIDE DEF d
    <3> QED BY ONLY <2>1, <2>2, <3>1 DEF Walks
  <2> QED BY <1>2, <2>3 DEF o, p, k
<1>9. IsWalk(n)
  <2>1. walk.since \in Nat
    BY <1>5 DEF Walks
  <2> HIDE DEF page, more, n
  <2> QED BY <1>5, <1>8, <2>1 DEF IsWalk
<1>10. PICK c \in 0..MaxEntries : ReadTo(n, c) /\ (page = {} => c = 0)
  <2>1. \A t \in 1..MaxEntries :
           more[t] = IF t \in page \intersect Wanted[walk.kind] THEN walk.got[t] + 1 ELSE walk.got[t]
    OBVIOUS
  <2> HIDE DEF more, n
  <2> QED BY <1>2, <1>4, <1>7, <1>8, <2>1, PageRead
<1>11. CASE ~Lists!Over(n, page)
  <2> HIDE DEF page, more, n, d
  <2>1. walk' = n
    BY <1>3, <1>11
  <2> QED BY <1>2, <1>8, <1>9, <1>10, <2>1 DEF WalksInv, IsWalk, ReadTo
<1>12. CASE Lists!Over(n, page)
  <2>1. /\ d \in [1..MaxEntries -> Nat]
        /\ \A t \in 1..MaxEntries : d[t] <= n.got[t]
    <3> HIDE DEF n, page, more
    <3> QED BY <1>9, CutTakes
  <2> HIDE DEF page, more, n, d
  <2>2. walk' = [n EXCEPT !.pc = "done", !.got = d]
    BY <1>3, <1>12
  <2>3. /\ walk' \in Walks /\ walk'.kind = n.kind /\ walk'.since = n.since /\ walk'.got = d
        /\ walk'.pc = "done" /\ walk'.count = n.count
    BY <1>8, <2>1, <2>2 DEF Walks
  <2>4. ASSUME n.since <= MaxPages * PageSize,
               Cardinality(Wanted[n.kind] \intersect 1..n.since) <= Limit[n.kind],
               NEW t \in Wanted[n.kind] \intersect 1..n.since,
               Cardinality(Wanted[n.kind] \intersect 1..t) > newest - n.since
        PROVE  d[t] > 0
    <3>1. c < t
      BY <1>2, <1>9, <1>10, <1>12, <2>4, WalkEnds
    <3> QED BY <1>2, <1>9, <1>10, <2>4, <3>1, CutKeeps DEF d
  <2>5. newest = n.since => \A t \in 1..MaxEntries : d[t] <= 1
    <3>1. \A t \in 1..MaxEntries : d[t] \in Nat /\ n.got[t] \in Nat
      BY <1>8, <2>1 DEF Walks
    <3> QED BY <1>10, <2>1, <3>1 DEF ReadTo
  <2>6. Finished(walk)'
    BY <1>2, <2>3, <2>4, <2>5 DEF Finished
  <2>7. IsWalk(walk)'
    BY <1>2, <1>9, <2>3 DEF IsWalk
  <2> QED BY <1>2, <2>3, <2>6, <2>7 DEF WalksInv
<1> QED BY <1>11, <1>12

(* One more entry: what is read stays read, and one more may be missed. *)
LEMMA WalkMeetsArrival == ASSUME WalksInv, Lists!Arrive PROVE WalksInv'
<1>1. /\ newest' = newest + 1 /\ walk' = walk /\ newest \in Nat /\ newest < MaxEntries
      /\ MaxEntries \in Nat
  BY ListsAssumption DEF Lists!Arrive, WalksInv
<1>2. IsWalk(walk) => IsWalk(walk)' /\ newest' # walk.since /\ walk.since \in Nat
  BY <1>1 DEF IsWalk, Walks
<1>3. ASSUME walk.pc = "page" PROVE \E b \in 0..MaxEntries : ReadTo(walk, b)'
  <2>1. PICK b \in 0..MaxEntries : ReadTo(walk, b)
    BY <1>3 DEF WalksInv
  <2>2. IsWalk(walk)
    BY <1>3 DEF WalksInv
  <2>3. walk.offset + b \in walk.since..newest'
    BY <1>1, <1>2, <2>1, <2>2 DEF ReadTo
  <2> QED BY <1>1, <1>2, <2>1, <2>2, <2>3 DEF ReadTo
<1>4. ASSUME walk.pc = "done" PROVE Finished(walk)'
  <2>1. IsWalk(walk) /\ Finished(walk)
    BY <1>4 DEF WalksInv
  <2>2. ASSUME NEW t \in Wanted[walk.kind] \intersect 1..walk.since,
               Cardinality(Wanted[walk.kind] \intersect 1..t) > newest + 1 - walk.since
        PROVE  Cardinality(Wanted[walk.kind] \intersect 1..t) > newest - walk.since
    <3>1. t \in Nat /\ walk.since \in Nat
      BY <1>2, <2>1
    <3>2. Cardinality(Wanted[walk.kind] \intersect 1..t) \in Nat
      <4>1. IsFiniteSet(1..t)
        BY <3>1, FS_Interval
      <4> QED BY <4>1, FS_Subset, FS_CardinalityType
    <3> HIDE DEF Walks
    <3> QED BY <1>1, <2>2, <3>1, <3>2
  <2> QED BY <1>1, <1>2, <2>1, <2>2 DEF Finished
<1> QED BY <1>1, <1>2, <1>3, <1>4 DEF WalksInv

LEMMA WalkStops ==
  ASSUME WalksInv, \/ Lists!WalkFails \/ Lists!SaveEntries \/ Lists!EndDetection
                   \/ UNCHANGED krakenVars
  PROVE  WalksInv'
<1>1. newest' = newest /\ (walk' = walk \/ walk' = Lists!NoWalk)
  BY DEF Lists!WalkFails, Lists!SaveEntries, Lists!EndDetection, krakenVars
<1>2. CASE walk' = walk
  BY <1>1, <1>2 DEF WalksInv, IsWalk, ReadTo, Finished
<1>3. CASE walk' = Lists!NoWalk
  <2>1. walk'.pc = "none"
    BY <1>3 DEF Lists!NoWalk
  <2> QED BY <1>1, <2>1 DEF WalksInv
<1> QED BY <1>1, <1>2, <1>3

LEMMA NextWalks == WalksInv /\ [Lists!Next]_krakenVars => WalksInv'
  BY WalkBegins, WalkReads, WalkMeetsArrival, WalkStops DEF Lists!Next

LEMMA ListsPart == RecordsNext \/ UNCHANGED all => [Lists!Next]_krakenVars
  BY DEF RecordsNext, Rest, all, krakenVars

(* For any list, page size and limits: a walk that fits them misses, of    *)
(* the wanted entries that were there, only as many of the oldest as       *)
(* arrived, and an undisturbed one calls no order covered whose trades it  *)
(* has not read.                                                           *)
THEOREM WalksAreSound == RecordsSpec => []WalksSound
<1>1. RecordsInit => WalksInv
  BY InitWalks DEF RecordsInit
<1>2. WalksInv /\ [RecordsNext]_all => WalksInv'
  BY NextWalks, ListsPart
<1>3. WalksInv => WalksSound
  <2> SUFFICES ASSUME WalksInv PROVE Lists!WalkComplete /\ Lists!CoverageSound
    BY DEF WalksSound
  <2>1. Lists!WalkComplete
    <3> SUFFICES ASSUME walk.pc = "done", Lists!Roomy, NEW t \in Lists!Older(walk.since),
                        Lists!Cardinality(Lists!Older(t)) > Lists!Arrived
                 PROVE  t \in Lists!Listed(walk)
      BY DEF Lists!WalkComplete
    <3>1. IsWalk(walk) /\ Finished(walk)
      BY DEF WalksInv
    <3>2. t \in Wanted[walk.kind] \intersect 1..walk.since
          /\ Cardinality(Wanted[walk.kind] \intersect 1..t) > newest - walk.since
      BY CountIs DEF Lists!Older, Lists!Arrived
    <3>3. /\ walk.since <= MaxPages * PageSize
          /\ Cardinality(Wanted[walk.kind] \intersect 1..walk.since) <= Limit[walk.kind]
      BY CountIs DEF Lists!Roomy
    <3>4. walk.got[t] > 0
      BY <3>1, <3>2, <3>3 DEF Finished
    <3>5. t \in 1..MaxEntries
      BY <3>1, <3>2, ListsAssumption DEF IsWalk, Walks
    <3> QED BY <3>4, <3>5 DEF Lists!Listed, Lists!Entries
  <2>2. Lists!CoverageSound
    <3> SUFFICES ASSUME walk.pc = "done", walk.kind = "trades", Lists!Arrived = 0,
                        NEW order \in Orders, Lists!Covers(order)
                 PROVE  Lists!TradesOf(order) \subseteq Lists!Listed(walk)
      BY DEF Lists!CoverageSound
    <3> DEFINE S == Lists!TradesOf(order)
    <3>1. IsWalk(walk) /\ Finished(walk)
      BY DEF WalksInv
    <3>2. /\ newest \in Nat /\ walk.since \in Nat /\ walk.got \in [1..MaxEntries -> Nat]
          /\ MaxEntries \in Nat
      BY <3>1, ListsAssumption DEF IsWalk, Walks, WalksInv
    <3>3. newest = walk.since
      BY <3>2 DEF Lists!Arrived
    <3>4. S \subseteq 1..MaxEntries /\ IsFiniteSet(S)
      <4>1. S \in SUBSET (1..MaxEntries) /\ IsFiniteSet(1..MaxEntries)
        BY <3>2, ListsAssumption, Interval DEF Lists!TradesOf
      <4> HIDE DEF S
      <4> QED BY <4>1, FS_Subset
    <3>5. \A t \in S : walk.got[t] \in Nat /\ walk.got[t] <= 1
      <4> HIDE DEF S
      <4> QED BY <3>1, <3>2, <3>3, <3>4 DEF Finished
    <3>6. Total(walk.got, S) >= Cardinality(S)
      BY CountIs, ReadIsTotal DEF Lists!Covers, Lists!Attributed
    <3> HIDE DEF S
    <3>7. \A t \in S : walk.got[t] > 0
      BY <3>4, <3>5, <3>6, AllAreOnes
    <3>8. S \subseteq Lists!Listed(walk)
      BY <3>4, <3>7 DEF Lists!Listed, Lists!Entries
    <3> QED BY <3>8 DEF S
  <2> QED BY <2>1, <2>2
<1> QED BY <1>1, <1>2, <1>3, PTL DEF RecordsSpec

=============================================================================
