--------------------- MODULE NotificationDeliveryProofs ---------------------
(***************************************************************************)
(* Theorems about NotificationDelivery, for any number of notifications,   *)
(* senders and attempts.  The inductive invariant says that a row being    *)
(* worked on has one holder, and what each position of the holder and each *)
(* stored state know about the channel.                                    *)
(***************************************************************************)
EXTENDS NotificationDelivery, TLAPS

Clean(n) == posted[n] = 0 /\ flight[n] = 0

Holds(s) == sender[s].pc \in {"send", "await", "finish"}

NoteOK(n) ==
    /\ posted[n] + flight[n] <= 1
    /\ row[n].state \in {"absent", "queued", "retry"} => Clean(n) /\ answer[n] = "none"
    /\ row[n].state = "sent" => posted[n] = 1
    /\ row[n].state = "failed" => Clean(n)
    /\ answer[n] = "receipt" => posted[n] = 1
    /\ answer[n] \in {"limited", "refused"} => Clean(n)

(* A holder's row is still sending its attempt, or was closed as uncertain *)
(* behind its back; nothing else can have happened to it.                  *)
SenderOK(s) ==
    LET n == sender[s].note IN
    Holds(s) =>
        /\ n \in Notifications
        /\ sender[s].attempt \in 1..MaxAttempts
        /\ row[n].state \in {"sending", "uncertain"}
        /\ row[n].state = "sending" => row[n].attempts = sender[s].attempt
        /\ sender[s].pc = "send" => Clean(n)
        /\ sender[s].pc \in {"send", "finish"} => answer[n] = "none"
        /\ sender[s].pc = "finish" => sender[s].outcome # "none"
        /\ sender[s].pc = "finish" /\ sender[s].outcome = "sent" => posted[n] = 1
        /\ sender[s].pc = "finish" /\ sender[s].outcome \in {"retry", "failed"} => Clean(n)

OneHolder ==
    \A s, t \in Senders :
        Holds(s) /\ Holds(t) /\ sender[s].note = sender[t].note => s = t

IInv ==
    /\ TypeOK
    /\ \A n \in Notifications : NoteOK(n)
    /\ \A s \in Senders : SenderOK(s)
    /\ OneHolder

(* What every step does: the invariant is kept and final states stay. *)
Kept == IInv' /\ \A n \in Notifications : row[n].state \in Final => row'[n].state = row[n].state

-----------------------------------------------------------------------------
LEMMA IdleType == IdleSender \in Sender /\ IdleSender.pc = "idle"
BY ConstantsAssumption DEF IdleSender, Sender

LEMMA LessType == \A t \in Nat : Less(t) \in Nat
BY DEF Less

(* The initial states satisfy the invariant. *)
LEMMA InitIInv == Init => IInv
<1> SUFFICES ASSUME Init PROVE IInv
  OBVIOUS
<1>2. TypeOK
  BY IdleType, ConstantsAssumption DEF Init, TypeOK, Delivery
<1>3. \A n \in Notifications : NoteOK(n)
  BY DEF Init, NoteOK, Clean
<1>4. (\A s \in Senders : SenderOK(s)) /\ OneHolder
  BY DEF Init, SenderOK, OneHolder, Holds, IdleSender
<1> QED
  BY <1>2, <1>3, <1>4 DEF IInv

(* A sender that lets go of its row, or had none, disturbs nothing; an     *)
(* answer it was waiting for may be dropped on the way.                    *)
LEMMA LetGo ==
  ASSUME IInv, NEW s \in Senders, NEW v \in Sender, v.pc \in {"idle", "batch"},
         sender' = [sender EXCEPT ![s] = v],
         answer' \in [Notifications -> {"none", "receipt", "limited", "refused"}],
         \A n \in Notifications : answer'[n] \in {answer[n], "none"},
         faults' \in 0..MaxFaults,
         UNCHANGED <<row, hold, flight, posted>>
  PROVE  Kept
<1>1. /\ sender'[s] = v /\ sender' \in [Senders -> Sender]
      /\ \A t \in Senders \ {s} : sender'[t] = sender[t]
  BY DEF IInv, TypeOK
<1>2. TypeOK'
  BY <1>1 DEF IInv, TypeOK
<1>3. \A n \in Notifications : NoteOK(n)'
  BY DEF IInv, NoteOK, Clean
<1>4. \A t \in Senders : Holds(t)' => t # s /\ Holds(t) /\ sender'[t] = sender[t]
  BY <1>1 DEF Holds
<1>5. ASSUME NEW t \in Senders PROVE SenderOK(t)'
  <2>1. SenderOK(t)
    BY DEF IInv
  <2> QED
    BY <1>4, <2>1 DEF SenderOK, Clean
<1>6. OneHolder'
  BY <1>4 DEF IInv, OneHolder
<1> QED
  BY <1>2, <1>3, <1>5, <1>6 DEF Kept, IInv

(* A holder that goes on with its row, reading its answer or not.          *)
LEMMA GoOn ==
  ASSUME IInv, NEW s \in Senders, Holds(s), NEW v \in Sender,
         v.pc = "finish", v.note = sender[s].note, v.attempt = sender[s].attempt,
         v.outcome # "none",
         v.outcome = "sent" => posted[v.note] = 1,
         v.outcome \in {"retry", "failed"} => Clean(v.note),
         sender' = [sender EXCEPT ![s] = v],
         answer' = [answer EXCEPT ![v.note] = "none"],
         UNCHANGED <<row, hold, flight, posted, faults>>
  PROVE  Kept
<1> DEFINE n == v.note
<1>1. /\ sender'[s] = v /\ sender' \in [Senders -> Sender]
      /\ \A t \in Senders \ {s} : sender'[t] = sender[t]
      /\ SenderOK(s) /\ n \in Notifications
  BY DEF IInv, TypeOK, SenderOK
<1>2. /\ answer' \in [Notifications -> {"none", "receipt", "limited", "refused"}]
      /\ answer'[n] = "none" /\ \A m \in Notifications \ {n} : answer'[m] = answer[m]
  BY <1>1 DEF IInv, TypeOK
<1>3. TypeOK'
  BY <1>1, <1>2 DEF IInv, TypeOK
<1>4. \A m \in Notifications : NoteOK(m)'
  BY <1>2 DEF IInv, NoteOK, Clean
<1>5. SenderOK(s)'
  BY <1>1, <1>2 DEF SenderOK, Clean, Holds
<1>6. ASSUME NEW t \in Senders \ {s} PROVE SenderOK(t)'
  <2>1. SenderOK(t) /\ sender'[t] = sender[t]
    BY <1>1 DEF IInv
  <2>2. Holds(t) => sender[t].note # n
    BY <1>1 DEF IInv, OneHolder
  <2> QED
    BY <1>2, <2>1, <2>2 DEF SenderOK, Clean, Holds
<1>7. OneHolder'
  BY <1>1 DEF IInv, OneHolder, Holds
<1> QED
  BY <1>3, <1>4, <1>5, <1>6, <1>7 DEF Kept, IInv

(* Discord consumes a request: the holder, if there still is one, awaits it.*)
LEMMA DiscordStep ==
  ASSUME IInv, NEW n \in Notifications, Discord(n)
  PROVE  Kept
<1>1. /\ flight[n] > 0 /\ posted[n] \in Nat /\ flight[n] \in Nat /\ NoteOK(n)
      /\ UNCHANGED <<row, hold, sender, faults>>
  BY DEF Discord, Post, Reject, Lose, IInv, TypeOK
<1>2. posted[n] = 0 /\ flight[n] = 1 /\ row[n].state \notin {"absent", "queued", "retry", "failed"}
  BY <1>1 DEF NoteOK, Clean
<1>3. /\ flight' \in [Notifications -> Nat] /\ flight'[n] = 0
      /\ \A m \in Notifications \ {n} : flight'[m] = flight[m]
  BY <1>1, <1>2 DEF Discord, Post, Reject, Lose, IInv, TypeOK
<1>4. /\ posted' \in [Notifications -> Nat] /\ posted'[n] \in {0, 1}
      /\ \A m \in Notifications \ {n} : posted'[m] = posted[m]
  BY <1>2 DEF Discord, Post, Reject, Lose, IInv, TypeOK
<1>5. /\ answer' \in [Notifications -> {"none", "receipt", "limited", "refused"}]
      /\ \A m \in Notifications \ {n} : answer'[m] = answer[m]
  BY DEF Discord, Post, Reject, Lose, Answer, IInv, TypeOK
<1>6. /\ answer'[n] = "receipt" => posted'[n] = 1
      /\ answer'[n] \in {"limited", "refused"} => posted'[n] = 0
  BY <1>1, <1>2 DEF Discord, Post, Reject, Lose, Answer, IInv, TypeOK, NoteOK, Clean
<1>7. row[n].state # "sent"
  BY <1>1, <1>2 DEF NoteOK
<1>8. TypeOK'
  BY <1>1, <1>3, <1>4, <1>5 DEF IInv, TypeOK
<1>9. \A m \in Notifications : NoteOK(m)'
  BY <1>1, <1>2, <1>3, <1>4, <1>5, <1>6, <1>7 DEF IInv, NoteOK, Clean
<1>10. ASSUME NEW s \in Senders PROVE SenderOK(s)'
  <2>1. SenderOK(s) /\ sender'[s] = sender[s]
    BY <1>1 DEF IInv
  <2>2. CASE Holds(s) /\ sender[s].note = n
    <3>1. sender[s].pc \notin {"send"}
      BY <1>2, <2>1, <2>2 DEF SenderOK, Clean
    <3>2. sender[s].pc = "finish" => sender[s].outcome \notin {"sent", "retry", "failed"}
      BY <1>2, <2>1, <2>2 DEF SenderOK, Clean
    <3>3. sender[s].pc = "finish" => answer'[n] = "none"
      <4> SUFFICES ASSUME sender[s].pc = "finish" PROVE answer'[n] = "none"
        OBVIOUS
      <4>1. ~ \E t \in Senders : sender[t].pc = "await" /\ sender[t].note = n
        BY <2>2 DEF IInv, OneHolder, Holds
      <4>2. answer[n] = "none"
        BY <2>1, <2>2 DEF SenderOK
      <4> QED
        BY <4>1, <4>2 DEF Discord, Post, Reject, Lose, Answer, IInv, TypeOK
    <3> QED
      BY <1>1, <2>1, <2>2, <3>1, <3>2, <3>3 DEF SenderOK, Holds
  <2>3. CASE ~ (Holds(s) /\ sender[s].note = n)
    BY <1>1, <1>3, <1>4, <1>5, <2>1, <2>3 DEF SenderOK, Holds, Clean
  <2> QED
    BY <2>2, <2>3
<1>11. OneHolder'
  BY <1>1 DEF IInv, OneHolder, Holds
<1> QED
  BY <1>1, <1>8, <1>9, <1>10, <1>11 DEF Kept, IInv

(* Where only rows change, and none that somebody holds changes otherwise  *)
(* than from sending to uncertain.                                         *)
LEMMA RowsMove ==
  ASSUME IInv, row' \in [Notifications -> Delivery], hold' \in Nat,
         \A n \in Notifications :
            \/ row'[n].state = row[n].state /\ row'[n].attempts = row[n].attempts
            \/ row[n].state = "absent" /\ row'[n].state = "queued"
            \/ row[n].state = "sending" /\ row'[n].state = "uncertain",
         UNCHANGED <<flight, posted, answer>>
  PROVE  /\ \A n \in Notifications : NoteOK(n)'
         /\ \A s \in Senders : sender'[s] = sender[s] => SenderOK(s)'
         /\ \A n \in Notifications : row[n].state \in Final => row'[n].state = row[n].state
<1>1. \A n \in Notifications : NoteOK(n)'
  BY DEF IInv, NoteOK, Clean
<1>2. ASSUME NEW s \in Senders, sender'[s] = sender[s] PROVE SenderOK(s)'
  <2>1. SenderOK(s)
    BY DEF IInv
  <2> QED
    BY <1>2, <2>1 DEF SenderOK, Holds, Clean
<1>3. \A n \in Notifications : row[n].state \in Final => row'[n].state = row[n].state
  BY DEF Final
<1> QED
  BY <1>1, <1>2, <1>3

LEMMA TickStep ==
  ASSUME IInv, Tick
  PROVE  Kept
<1>1. \A n \in Notifications : row[n] \in Delivery
  BY DEF IInv, TypeOK
<1>2. ASSUME NEW n \in Notifications
      PROVE  [row[n] EXCEPT !.lease = Less(@), !.wait = Less(@)] \in Delivery
  <2>1. row[n] \in Delivery /\ Less(row[n].lease) \in Nat /\ Less(row[n].wait) \in Nat
    BY <1>1, LessType DEF Delivery
  <2> QED
    BY <2>1 DEF Delivery
<1>3. row' \in [Notifications -> Delivery] /\ hold' \in Nat
  BY <1>2, LessType DEF Tick, IInv, TypeOK
<1>4. \A n \in Notifications :
         row'[n].state = row[n].state /\ row'[n].attempts = row[n].attempts
  BY <1>1 DEF Tick, Delivery
<1>5. UNCHANGED <<sender, flight, posted, answer, faults>>
  BY DEF Tick
<1>6. TypeOK' /\ OneHolder'
  BY <1>3, <1>5 DEF IInv, TypeOK, OneHolder, Holds
<1> QED
  BY <1>3, <1>4, <1>5, <1>6, RowsMove DEF Kept, IInv

LEMMA EmitStep ==
  ASSUME IInv, NEW n \in Notifications, Emit(n)
  PROVE  Kept
<1>1. /\ row[n].state = "absent" /\ row \in [Notifications -> Delivery]
      /\ row' = [row EXCEPT ![n].state = "queued"]
      /\ UNCHANGED <<hold, sender, flight, posted, answer, faults>>
  BY DEF Emit, IInv, TypeOK
<1>2. /\ row' \in [Notifications -> Delivery] /\ row'[n].state = "queued"
      /\ \A m \in Notifications \ {n} : row'[m] = row[m]
  BY <1>1 DEF Delivery
<1>3. TypeOK' /\ OneHolder'
  BY <1>1, <1>2 DEF IInv, TypeOK, OneHolder, Holds
<1>4. hold' \in Nat
  BY <1>1 DEF IInv, TypeOK
<1> QED
  BY <1>1, <1>2, <1>3, <1>4, RowsMove DEF Kept, IInv

-----------------------------------------------------------------------------
LEMMA FaultType == ASSUME IInv, Fault PROVE faults' \in 0..MaxFaults
BY ConstantsAssumption DEF Fault, IInv, TypeOK

(* The position of a sender that turns to the rest of its batch. *)
LEMMA NextRowType ==
  ASSUME IInv, NEW s \in Senders, NEW n, NextRow(s, n)
  PROVE  \E v \in Sender : v.pc \in {"idle", "batch"} /\ sender' = [sender EXCEPT ![s] = v]
<1> DEFINE rest == sender[s].batch \ {n}
           v == [IdleSender EXCEPT !.batch = rest, !.pc = IF rest = {} THEN "idle" ELSE "batch"]
<1>1. rest \subseteq Notifications
  BY DEF IInv, TypeOK, Sender
<1> HIDE DEF rest
<1>2. v \in Sender /\ v.pc \in {"idle", "batch"}
  BY <1>1, IdleType DEF Sender
<1>3. sender' = [sender EXCEPT ![s] = v]
  BY DEF NextRow, rest
<1> QED
  BY <1>2, <1>3

LEMMA PollStep ==
  ASSUME IInv, NEW s \in Senders, Poll(s)
  PROVE  Kept
<1> DEFINE v == [sender[s] EXCEPT !.pc = "batch", !.batch = Due]
<1>1. /\ sender' = [sender EXCEPT ![s] = v]
      /\ UNCHANGED <<row, hold, flight, posted, answer, faults>>
      /\ sender[s] \in Sender
  BY DEF Poll, IInv, TypeOK
<1>2. v \in Sender /\ v.pc = "batch"
  BY <1>1 DEF Sender, Due
<1> HIDE DEF v
<1> QED
  BY <1>1, <1>2, LetGo DEF IInv, TypeOK

(* Steps that only turn to the rest of the batch. *)
LEMMA SkipStep ==
  ASSUME IInv, NEW s \in Senders, NEW n, NextRow(s, n), faults' \in 0..MaxFaults,
         UNCHANGED <<row, hold, flight, posted, answer>>
  PROVE  Kept
<1>1. PICK v \in Sender : v.pc \in {"idle", "batch"} /\ sender' = [sender EXCEPT ![s] = v]
  BY NextRowType
<1>2. /\ answer' \in [Notifications -> {"none", "receipt", "limited", "refused"}]
      /\ \A m \in Notifications : answer'[m] \in {answer[m], "none"}
  BY DEF IInv, TypeOK
<1> QED
  BY <1>1, <1>2, LetGo

LEMMA FailureStep ==
  ASSUME IInv, NEW s \in Senders,
         FinishFails(s) \/ \E n \in sender[s].batch : ClaimFails(s, n)
  PROVE  Kept
BY FaultType, SkipStep DEF FinishFails, ClaimFails

LEMMA CrashStep ==
  ASSUME IInv, NEW s \in Senders, Crash(s)
  PROVE  Kept
<1>1. IdleSender \in Sender /\ IdleSender.pc = "idle"
  BY IdleType
<1>2. /\ answer' \in [Notifications -> {"none", "receipt", "limited", "refused"}]
      /\ \A m \in Notifications : answer'[m] \in {answer[m], "none"}
  BY DEF Crash, IInv, TypeOK
<1> QED
  BY <1>1, <1>2, FaultType, LetGo DEF Crash

(* A claim that is not granted: an expired lease is closed. *)
LEMMA RefusedClaim ==
  ASSUME IInv, NEW s \in Senders, NEW n \in sender[s].batch, Claim(s, n), ~ Claimable(n)
  PROVE  Kept
<1>1. /\ NextRow(s, n) /\ n \in Notifications /\ sender[s].pc = "batch"
      /\ UNCHANGED <<hold, flight, posted, answer, faults>>
      /\ row' = IF Expired(n) THEN [row EXCEPT ![n].state = AfterLease] ELSE row
      /\ row \in [Notifications -> Delivery] /\ hold \in Nat
  BY DEF Claim, IInv, TypeOK, Sender
<1>2. CASE ~ Expired(n)
  BY <1>1, <1>2, SkipStep DEF IInv, TypeOK
<1>3. CASE Expired(n)
  <2>1. /\ row' \in [Notifications -> Delivery]
        /\ row[n].state = "sending" /\ row'[n].state = "uncertain"
        /\ \A m \in Notifications \ {n} : row'[m] = row[m]
    BY <1>1, <1>3 DEF Expired, AfterLease, Delivery, Final
  <2>2. PICK v \in Sender : v.pc \in {"idle", "batch"} /\ sender' = [sender EXCEPT ![s] = v]
    BY <1>1, NextRowType
  <2>3. /\ sender'[s] = v /\ sender' \in [Senders -> Sender]
        /\ \A t \in Senders \ {s} : sender'[t] = sender[t]
    BY <2>2 DEF IInv, TypeOK
  <2>4. TypeOK'
    BY <1>1, <2>1, <2>3 DEF IInv, TypeOK
  <2>5. SenderOK(s)' /\ OneHolder'
    BY <2>2, <2>3 DEF IInv, SenderOK, OneHolder, Holds
  <2>6. /\ \A m \in Notifications : NoteOK(m)'
        /\ \A t \in Senders : sender'[t] = sender[t] => SenderOK(t)'
        /\ \A m \in Notifications : row[m].state \in Final => row'[m].state = row[m].state
    BY <1>1, <2>1, RowsMove
  <2> QED
    BY <2>3, <2>4, <2>5, <2>6 DEF Kept, IInv
<1> QED
  BY <1>2, <1>3

(* A claim that is granted: nobody holds a queued or retry row. *)
LEMMA GrantedClaim ==
  ASSUME IInv, NEW s \in Senders, NEW n \in sender[s].batch, Claim(s, n), Claimable(n)
  PROVE  Kept
<1> DEFINE a == row[n].attempts + 1
           r == [state |-> "sending", attempts |-> a, lease |-> Lease, wait |-> 0]
           v == [sender[s] EXCEPT !.pc = "send", !.note = n, !.attempt = a]
<1>1. /\ row' = [row EXCEPT ![n] = r] /\ sender' = [sender EXCEPT ![s] = v]
      /\ UNCHANGED <<hold, flight, posted, answer, faults>>
      /\ sender[s] \in Sender /\ row \in [Notifications -> Delivery]
  BY DEF Claim, IInv, TypeOK
<1>2. n \in Notifications
  BY <1>1 DEF Sender
<1>3. row[n].state \in {"queued", "retry"} /\ a \in 1..MaxAttempts
  BY <1>1, <1>2, ConstantsAssumption DEF Claimable, Delivery
<1>4. r \in Delivery /\ v \in Sender /\ v.pc = "send" /\ v.note = n /\ v.attempt = a
  <2>1. a \in 0..MaxAttempts /\ Lease \in Nat
    BY <1>3, ConstantsAssumption
  <2> HIDE DEF a
  <2>2. r \in Delivery
    BY <2>1 DEF Delivery
  <2> QED
    BY <1>1, <1>2, <2>1, <2>2 DEF Sender
<1>5. r.state = "sending" /\ r.attempts = a
  OBVIOUS
<1> HIDE DEF a, r, v
<1>6. /\ row' \in [Notifications -> Delivery] /\ row'[n] = r
      /\ \A m \in Notifications \ {n} : row'[m] = row[m]
      /\ sender' \in [Senders -> Sender] /\ sender'[s] = v
      /\ \A t \in Senders \ {s} : sender'[t] = sender[t]
  BY <1>1, <1>2, <1>4 DEF IInv, TypeOK
<1>7. Clean(n) /\ answer[n] = "none"
  BY <1>2, <1>3 DEF IInv, NoteOK
<1>8. \A t \in Senders : Holds(t) => sender[t].note # n
  BY <1>3 DEF IInv, SenderOK
<1>9. TypeOK'
  BY <1>1, <1>6 DEF IInv, TypeOK
<1>10. \A m \in Notifications : NoteOK(m)'
  BY <1>1, <1>5, <1>6 DEF IInv, NoteOK, Clean
<1>11. SenderOK(s)'
  BY <1>1, <1>2, <1>3, <1>4, <1>5, <1>6, <1>7 DEF SenderOK, Clean
<1>12. ASSUME NEW t \in Senders \ {s} PROVE SenderOK(t)'
  <2>1. SenderOK(t) /\ sender'[t] = sender[t] /\ (Holds(t) => sender[t].note # n)
    BY <1>6, <1>8 DEF IInv
  <2> QED
    BY <1>1, <1>6, <2>1 DEF SenderOK, Holds, Clean
<1>13. OneHolder'
  BY <1>4, <1>6, <1>8 DEF IInv, OneHolder, Holds
<1>14. \A m \in Notifications : row[m].state \in Final => row'[m].state = row[m].state
  BY <1>3, <1>6 DEF Final
<1> QED
  BY <1>6, <1>9, <1>10, <1>11, <1>12, <1>13, <1>14 DEF Kept, IInv

-----------------------------------------------------------------------------
LEMMA SubmitStep ==
  ASSUME IInv, NEW s \in Senders, Submit(s)
  PROVE  Kept
<1>0. PICK n \in Notifications : n = sender[s].note
  BY DEF Submit, IInv, SenderOK, Holds
<1> DEFINE v == [sender[s] EXCEPT !.pc = "await"]
<1>1. /\ sender[s].pc = "send" /\ SenderOK(s) /\ sender[s] \in Sender
      /\ sender' = [sender EXCEPT ![s] = v]
      /\ flight' = [flight EXCEPT ![n] = @ + 1]
      /\ UNCHANGED <<row, hold, posted, answer, faults>>
  BY <1>0 DEF Submit, IInv, TypeOK
<1>2. /\ n \in Notifications /\ Clean(n) /\ answer[n] = "none" /\ Holds(s)
      /\ row[n].state \in {"sending", "uncertain"}
  BY <1>0, <1>1 DEF SenderOK, Holds
<1>3. /\ v \in Sender /\ v.pc = "await" /\ v.note = n /\ v.attempt = sender[s].attempt
  BY <1>0, <1>1 DEF Sender
<1> HIDE DEF v
<1>4. /\ sender' \in [Senders -> Sender] /\ sender'[s] = v
      /\ \A t \in Senders \ {s} : sender'[t] = sender[t]
      /\ flight' \in [Notifications -> Nat] /\ flight'[n] = 1
      /\ \A m \in Notifications \ {n} : flight'[m] = flight[m]
  BY <1>1, <1>2, <1>3 DEF IInv, TypeOK, Clean
<1>5. TypeOK'
  BY <1>1, <1>4 DEF IInv, TypeOK
<1>6. \A m \in Notifications : NoteOK(m)'
  <2>1. NoteOK(n)'
    BY <1>1, <1>2, <1>4 DEF NoteOK, Clean
  <2>2. ASSUME NEW m \in Notifications \ {n} PROVE NoteOK(m)'
    BY <1>1, <1>4 DEF IInv, NoteOK, Clean
  <2> QED
    BY <2>1, <2>2
<1>7. SenderOK(s)'
  BY <1>0, <1>1, <1>2, <1>3, <1>4 DEF SenderOK, Holds
<1>8. ASSUME NEW t \in Senders \ {s} PROVE SenderOK(t)'
  <2>1. SenderOK(t) /\ sender'[t] = sender[t] /\ (Holds(t) => sender[t].note # n)
    BY <1>0, <1>2, <1>4 DEF IInv, OneHolder
  <2> QED
    BY <1>1, <1>4, <2>1 DEF SenderOK, Holds, Clean
<1>9. OneHolder'
  BY <1>0, <1>2, <1>3, <1>4 DEF IInv, OneHolder, Holds
<1> QED
  BY <1>1, <1>4, <1>5, <1>6, <1>7, <1>8, <1>9 DEF Kept, IInv

(* The record of a sender that has reached a conclusion. *)
LEMMA ConcludeType ==
  ASSUME IInv, NEW s \in Senders, NEW o \in Final \union {"retry"}, NEW t \in Nat,
         Conclude(s, o, t)
  PROVE  \E v \in Sender :
            /\ v.pc = "finish" /\ v.note = sender[s].note
            /\ v.attempt = sender[s].attempt /\ v.outcome = o
            /\ sender' = [sender EXCEPT ![s] = v]
<1> DEFINE v == [sender[s] EXCEPT !.pc = "finish", !.outcome = o, !.after = t]
<1>1. sender[s] \in Sender /\ sender' = [sender EXCEPT ![s] = v]
  BY DEF Conclude, IInv, TypeOK
<1>2. /\ v \in Sender /\ v.pc = "finish" /\ v.note = sender[s].note
      /\ v.attempt = sender[s].attempt /\ v.outcome = o
  BY <1>1 DEF Sender
<1> QED
  BY <1>1, <1>2

LEMMA PreSendFailureStep ==
  ASSUME IInv, NEW s \in Senders, PreSendFailure(s)
  PROVE  Kept
<1> DEFINE o == IF s \in RestSenders THEN "retry" ELSE "uncertain"
<1>1. /\ sender[s].pc = "send" /\ SenderOK(s) /\ Conclude(s, o, 0)
      /\ UNCHANGED <<row, hold, flight, posted, answer, faults>>
      /\ o \in Final \union {"retry"} /\ o \in {"retry", "uncertain"}
  BY DEF PreSendFailure, IInv, Final
<1> HIDE DEF o
<1>2. PICK v \in Sender :
            /\ v.pc = "finish" /\ v.note = sender[s].note
            /\ v.attempt = sender[s].attempt /\ v.outcome = o
            /\ sender' = [sender EXCEPT ![s] = v]
  BY <1>1, ConcludeType
<1>3. Holds(s) /\ v.note \in Notifications /\ Clean(v.note) /\ answer[v.note] = "none"
  BY <1>1, <1>2 DEF SenderOK, Holds
<1>4. answer' = [answer EXCEPT ![v.note] = "none"]
  BY <1>1, <1>3 DEF IInv, TypeOK
<1> QED
  BY <1>1, <1>2, <1>3, <1>4, GoOn

LEMMA AnswerStep ==
  ASSUME IInv, NEW s \in Senders, ReadAnswer(s) \/ LoseAnswer(s)
  PROVE  Kept
<1> DEFINE n == sender[s].note
<1>1. /\ sender[s].pc = "await" /\ SenderOK(s)
      /\ answer' = [answer EXCEPT ![n] = "none"]
      /\ UNCHANGED <<row, hold, flight, posted, faults>>
  BY DEF ReadAnswer, LoseAnswer, IInv
<1>2. n \in Notifications /\ Holds(s) /\ NoteOK(n)
      /\ answer[n] \in {"none", "receipt", "limited", "refused"}
  BY <1>1 DEF SenderOK, Holds, IInv, TypeOK
<1>3. \E o \in Final \union {"retry"}, t \in Nat :
         /\ Conclude(s, o, t)
         /\ o = "sent" => posted[n] = 1
         /\ o \in {"retry", "failed"} => Clean(n)
  <2>1. CASE LoseAnswer(s)
    BY <2>1 DEF LoseAnswer, Final
  <2>2. CASE ReadAnswer(s)
    <3>1. PICK t \in Nat : Conclude(s, Classified(s, answer[n]), t)
      BY <2>2, ConstantsAssumption DEF ReadAnswer
    <3>2. /\ Classified(s, answer[n]) \in Final \union {"retry"}
          /\ Classified(s, answer[n]) = "sent" => answer[n] = "receipt"
          /\ Classified(s, answer[n]) \in {"retry", "failed"} => answer[n] \in {"limited", "refused"}
      BY <1>2, <2>2 DEF ReadAnswer, Classified, Final
    <3> QED
      BY <1>2, <3>1, <3>2 DEF NoteOK
  <2> QED
    BY <2>1, <2>2
<1>4. PICK o \in Final \union {"retry"}, t \in Nat :
         /\ Conclude(s, o, t)
         /\ o = "sent" => posted[n] = 1
         /\ o \in {"retry", "failed"} => Clean(n)
  BY <1>3
<1>5. PICK v \in Sender :
            /\ v.pc = "finish" /\ v.note = n
            /\ v.attempt = sender[s].attempt /\ v.outcome = o
            /\ sender' = [sender EXCEPT ![s] = v]
  BY <1>4, ConcludeType
<1> QED
  BY <1>1, <1>2, <1>4, <1>5, GoOn DEF Final

(* The receipt is written by the owner of the row, or by nobody. *)
LEMMA FinishStep ==
  ASSUME IInv, NEW s \in Senders, Finish(s)
  PROVE  Kept
<1>0. PICK n \in Notifications : n = sender[s].note
  BY DEF Finish, IInv, SenderOK, Holds
<1> DEFINE after == sender[s].after
           state == StateAfter(sender[s].outcome, sender[s].attempt)
           r == [state |-> state, attempts |-> row[n].attempts, lease |-> 0,
                 wait |-> Larger(Delay[sender[s].attempt], after)]
<1>1. /\ sender[s].pc = "finish" /\ SenderOK(s) /\ sender[s] \in Sender
      /\ NextRow(s, n)
      /\ UNCHANGED <<flight, posted, answer, faults>>
      /\ IF Owns(s) THEN row' = [row EXCEPT ![n] = r] /\ hold' = Larger(hold, after)
                    ELSE UNCHANGED <<row, hold>>
      /\ faults \in 0..MaxFaults
  BY <1>0 DEF Finish, IInv, TypeOK
<1>2. CASE ~ Owns(s)
  BY <1>1, <1>2, SkipStep
<1>3. CASE Owns(s)
  <2>1. /\ n \in Notifications /\ Holds(s) /\ answer[n] = "none" /\ NoteOK(n)
        /\ row[n] \in Delivery /\ row[n].state = "sending"
        /\ sender[s].attempt \in 1..MaxAttempts /\ after \in Nat /\ hold \in Nat
    BY <1>0, <1>1, <1>3 DEF SenderOK, Holds, Owns, IInv, TypeOK, Sender
  <2>2. /\ state \in Final \union {"retry"}
        /\ state = "sent" => posted[n] = 1
        /\ state \in {"retry", "failed"} => Clean(n)
    BY <1>0, <1>1 DEF SenderOK, Holds, StateAfter, Sender, Final
  <2>3. Delay[sender[s].attempt] \in Nat
    BY <2>1, ConstantsAssumption
  <2>4. Larger(Delay[sender[s].attempt], after) \in Nat /\ Larger(hold, after) \in Nat
    BY <2>1, <2>3 DEF Larger
  <2> HIDE DEF state
  <2>5. r \in Delivery /\ r.state = state
    BY <2>1, <2>2, <2>4 DEF Delivery, Final
  <2> HIDE DEF r
  <2>6. /\ row' \in [Notifications -> Delivery] /\ row'[n] = r
        /\ \A m \in Notifications \ {n} : row'[m] = row[m]
        /\ hold' \in Nat
    BY <1>1, <1>3, <2>1, <2>4, <2>5 DEF IInv, TypeOK
  <2>7. PICK v \in Sender : v.pc \in {"idle", "batch"} /\ sender' = [sender EXCEPT ![s] = v]
    BY <1>1, NextRowType
  <2>8. /\ sender'[s] = v /\ sender' \in [Senders -> Sender]
        /\ \A t \in Senders \ {s} : sender'[t] = sender[t]
    BY <2>7 DEF IInv, TypeOK
  <2>9. TypeOK'
    BY <1>1, <2>6, <2>8 DEF IInv, TypeOK
  <2>10. NoteOK(n)'
    BY <1>1, <2>1, <2>2, <2>5, <2>6 DEF NoteOK, Clean, Final
  <2>11. ASSUME NEW m \in Notifications \ {n} PROVE NoteOK(m)'
    BY <1>1, <2>6 DEF IInv, NoteOK, Clean
  <2>12. SenderOK(s)' /\ OneHolder'
    BY <2>7, <2>8 DEF IInv, SenderOK, OneHolder, Holds
  <2>13. ASSUME NEW t \in Senders \ {s} PROVE SenderOK(t)'
    <3>1. SenderOK(t) /\ sender'[t] = sender[t] /\ (Holds(t) => sender[t].note # n)
      BY <1>0, <2>1, <2>8 DEF IInv, OneHolder
    <3> QED
      BY <1>1, <2>6, <3>1 DEF SenderOK, Holds, Clean
  <2>14. \A m \in Notifications : row[m].state \in Final => row'[m].state = row[m].state
    BY <2>1, <2>6 DEF Final
  <2> QED
    BY <2>8, <2>9, <2>10, <2>11, <2>12, <2>13, <2>14 DEF Kept, IInv
<1> QED
  BY <1>2, <1>3

-----------------------------------------------------------------------------
LEMMA NextKept == IInv /\ [Next]_vars => Kept
<1> SUFFICES ASSUME IInv, [Next]_vars PROVE Kept
  OBVIOUS
<1>1. CASE Tick
  BY <1>1, TickStep
<1>2. ASSUME NEW n \in Notifications, Emit(n) \/ Discord(n) PROVE Kept
  BY <1>2, EmitStep, DiscordStep
<1>3. ASSUME NEW s \in Senders, Step(s) \/ Crash(s) PROVE Kept
  BY <1>3, PollStep, RefusedClaim, GrantedClaim, PreSendFailureStep, SubmitStep, AnswerStep,
     FinishStep, FailureStep, CrashStep DEF Step
<1>4. CASE UNCHANGED vars
  BY <1>4 DEF vars, Kept, IInv, TypeOK, NoteOK, Clean, SenderOK, Holds, OneHolder
<1> QED
  BY <1>1, <1>2, <1>3, <1>4 DEF Next

(* The inductive invariant holds in every reachable state. *)
THEOREM Inductive == Spec => []IInv
<1>1. IInv /\ [Next]_vars => IInv'
  BY NextKept DEF Kept
<1> QED
  BY <1>1, InitIInv, PTL DEF Spec

(* Every variable has its type; attempts never exceed MaxAttempts.         *)
THEOREM TypeCorrect == Spec => []TypeOK
<1>1. IInv => TypeOK
  BY DEF IInv
<1> QED
  BY <1>1, Inductive, PTL

(* No notification is posted twice, whoever sends and whatever is lost.    *)
THEOREM NeverPostedTwice == Spec => []PostedAtMostOnce
<1>1. IInv => PostedAtMostOnce
  BY DEF IInv, NoteOK, PostedAtMostOnce
<1> QED
  BY <1>1, Inductive, PTL

(* The delivery states sent and failed say what happened in the channel.   *)
THEOREM StatesTruthful == Spec => []StateTruthful
<1>1. IInv => StateTruthful
  <2> SUFFICES ASSUME IInv, NEW n \in Notifications
               PROVE  /\ row[n].state = "sent" => posted[n] = 1
                      /\ row[n].state = "failed" => posted[n] + flight[n] = 0
    BY DEF StateTruthful
  <2> QED
    BY DEF IInv, NoteOK, Clean
<1> QED
  BY <1>1, Inductive, PTL

(* A final delivery state is never overwritten.                            *)
THEOREM FinalStatesStay == Spec => OutcomeFinal
<1>1. IInv /\ [Next]_vars =>
        [\A n \in Notifications : row[n].state \in Final => row'[n].state = row[n].state]_vars
  BY NextKept DEF Kept
<1> QED
  BY <1>1, Inductive, PTL DEF Spec, OutcomeFinal
=============================================================================
