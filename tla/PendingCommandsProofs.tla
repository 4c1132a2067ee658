----------------------- MODULE PendingCommandsProofs -----------------------
(***************************************************************************)
(* Theorems about PendingCommands, for any number of commands, handlers    *)
(* and daemons.  The inductive invariant says what the triggers protect    *)
(* (RowOK), what a claim fixes (ClaimOK), and what each process holding a  *)
(* row in memory still knows about the row in the table.                   *)
(***************************************************************************)
EXTENDS PendingCommands, TLAPS

Acting == {"dispatch", "receipt"}

RowOK(c) ==
    /\ table[c].status \in {"absent", "awaiting_confirmation"} =>
          table[c].by = NoOne /\ table[c].at = NoTime
    /\ table[c].status \in {"approved", "dispatched", "failed"} =>
          table[c].by \in Handlers /\ table[c].at \in Nat
    /\ table[c].at \in Nat => table[c].at <= now

(* A claimed row is neither rejected nor expired, now or later. *)
ClaimOK(c) ==
    Claimed(c) => /\ table[c].status \in {"approved", "dispatched", "failed"}
                  /\ table[c].at <= claims[c] /\ claims[c] < table[c].ttl

EffectOK(c) == effects[c] <= 1 /\ (effects[c] > 0 => Claimed(c))

(* A row a handler may write: a decision of its own, or an expiry that     *)
(* names nobody.                                                           *)
Decided(h, row) ==
    \/ row.status \in {"approved", "rejected"} /\ row.by = h /\ row.at \in Nat /\ row.at <= now
    \/ row.status = "expired" /\ row.by = NoOne /\ row.at = NoTime

HandlerOK(h) ==
    /\ handler[h].pc # "idle" =>
          /\ handler[h].cmd \in Commands
          /\ table[handler[h].cmd].status # "absent"
          /\ handler[h].stamp \in Nat => handler[h].stamp <= now
    /\ handler[h].pc = "read" /\ h \in DiscordHandlers => handler[h].stamp \in Nat
    /\ handler[h].pc = "save" =>
          /\ handler[h].row.ttl = table[handler[h].cmd].ttl
          /\ Decided(h, handler[h].row)

ConsumerOK(k) ==
    /\ consumer[k].pc \in Acting =>
          /\ consumer[k].cmd \in Commands
          /\ Claimed(consumer[k].cmd)
          /\ consumer[k].row.ttl = table[consumer[k].cmd].ttl
    /\ consumer[k].pc = "dispatch" => effects[consumer[k].cmd] = 0
    /\ consumer[k].pc = "receipt" => consumer[k].row.status \in {"dispatched", "failed"}
    /\ \A q \in consumer[k].batch :
          q.row.ttl = table[q.cmd].ttl /\ table[q.cmd].status # "absent"

(* The claim is exclusive: two daemons never act on one command. *)
OneActor ==
    \A k, l \in Daemons :
        /\ consumer[k].pc \in Acting /\ consumer[l].pc \in Acting
        /\ consumer[k].cmd = consumer[l].cmd
        => k = l

IInv ==
    /\ TypeOK
    /\ \A c \in Commands : RowOK(c) /\ ClaimOK(c) /\ EffectOK(c)
    /\ \A h \in Handlers : HandlerOK(h)
    /\ \A k \in Daemons : ConsumerOK(k)
    /\ OneActor
    /\ \A c \in sweep : table[c].status # "absent"

-----------------------------------------------------------------------------
(* The initial states satisfy the invariant. *)
LEMMA InitIInv == Init => IInv
<1> SUFFICES ASSUME Init PROVE IInv
  OBVIOUS
<1>1. NoRow \in Row
  BY DEF NoRow, Row, Stamp
<1>2. IdleHandler \in Handler /\ IdleConsumer \in Consumer
  BY <1>1 DEF IdleHandler, Handler, Stamp, IdleConsumer, Consumer
<1>3. TypeOK
  BY <1>1, <1>2, ConstantsAssumption DEF Init, TypeOK, Stamp
<1>4. \A c \in Commands : RowOK(c) /\ ClaimOK(c) /\ EffectOK(c)
  BY ConstantsAssumption DEF Init, RowOK, ClaimOK, EffectOK, NoRow, Claimed
<1>5. (\A h \in Handlers : HandlerOK(h)) /\ (\A k \in Daemons : ConsumerOK(k)) /\ OneActor
  BY DEF Init, HandlerOK, ConsumerOK, OneActor, IdleHandler, IdleConsumer, Acting
<1> QED
  BY <1>3, <1>4, <1>5 DEF IInv, Init

(* What every step leaves of a row that somebody may hold a copy of. *)
RowStep(c) ==
    /\ table[c].status # "absent" => table'[c].ttl = table[c].ttl /\ table'[c].status # "absent"
    /\ Stands(c)
    /\ Claimed(c) => table'[c].status \in {"approved", "dispatched", "failed"}

(* Every process and claim not touched by a step keeps its invariant.      *)
LEMMA Undisturbed ==
  ASSUME IInv, \A c \in Commands : RowStep(c), now' \in Nat, now <= now'
  PROVE  /\ \A h \in Handlers : handler'[h] = handler[h] => HandlerOK(h)'
         /\ \A k \in Daemons :
               consumer'[k] = consumer[k] /\ UNCHANGED <<claims, effects>> => ConsumerOK(k)'
         /\ \A c \in Commands : claims'[c] = claims[c] => ClaimOK(c)'
         /\ \A c \in sweep : table'[c].status # "absent"
<1>1. ASSUME NEW h \in Handlers, handler'[h] = handler[h]
      PROVE  HandlerOK(h)'
  <2>1. HandlerOK(h) /\ handler[h] \in Handler /\ now \in Nat
    BY DEF IInv, TypeOK
  <2>2. handler[h].pc # "idle" => RowStep(handler[h].cmd)
    BY <2>1 DEF HandlerOK
  <2> QED
    BY <1>1, <2>1, <2>2 DEF HandlerOK, RowStep, Decided, Handler, Row, Stamp
<1>2. ASSUME NEW k \in Daemons, consumer'[k] = consumer[k], UNCHANGED <<claims, effects>>
      PROVE  ConsumerOK(k)'
  <2>1. ConsumerOK(k) /\ consumer[k] \in Consumer
    BY DEF IInv, TypeOK
  <2>2. \A q \in consumer[k].batch : q.cmd \in Commands
    BY <2>1 DEF Consumer, Polled
  <2>3. \A c \in Commands : Claimed(c) => table[c].status # "absent"
    BY DEF IInv, ClaimOK
  <2> QED
    BY <1>2, <2>1, <2>2, <2>3 DEF ConsumerOK, RowStep, Claimed
<1>3. ASSUME NEW c \in Commands, claims'[c] = claims[c]
      PROVE  ClaimOK(c)'
  BY <1>3 DEF IInv, ClaimOK, RowStep, Stands, Claimed
<1>4. \A c \in sweep : table'[c].status # "absent"
  BY DEF IInv, TypeOK, RowStep
<1> QED
  BY <1>1, <1>2, <1>3, <1>4

(* A write that goes through the triggers keeps every row in order, if it  *)
(* keeps the TTL, takes no time from the future and, where it is an        *)
(* expiry, names nobody.                                                   *)
LEMMA SaveStep ==
  ASSUME IInv, NEW c \in Commands, NEW new \in Row, Save(c, new), now' = now,
         table[c].status # "absent",
         new.ttl = table[c].ttl,
         new.status \notin {"absent", "awaiting_confirmation"},
         new.status = "approved" => new.by \in Handlers /\ new.at \in Nat,
         new.status \in {"approved", "rejected"} => (new.at \in Nat => new.at <= now),
         new.status = "expired" => new.by = NoOne /\ new.at = NoTime
  PROVE  /\ table' \in [Commands -> Row]
         /\ \A b \in Commands : RowStep(b) /\ RowOK(b)'
<1>1. table \in [Commands -> Row] /\ RowOK(c) /\ ClaimOK(c)
  BY DEF IInv, TypeOK
<1>2. CASE ~ Accepts(c, new)
  BY <1>1, <1>2 DEF Save, IInv, RowStep, Stands, RowOK, ClaimOK
<1>3. CASE Accepts(c, new)
  <2>1. /\ table' = [table EXCEPT ![c] = new]
        /\ table'[c] = new
        /\ \A b \in Commands \ {c} : table'[b] = table[b]
    BY <1>1, <1>3 DEF Save
  <2>2. \A b \in Commands \ {c} : RowStep(b) /\ RowOK(b)'
    BY <2>1 DEF IInv, RowStep, Stands, RowOK, ClaimOK
  <2>3. RowOK(c)'
    BY <1>1, <1>3, <2>1, ConstantsAssumption
    DEF RowOK, Accepts, KeepsConfirmation, LegalTransition, Row, Terminal, Stamp
  <2>4. Stands(c)
    BY <1>1, <1>3, <2>1 DEF Stands, Accepts, KeepsConfirmation, LegalTransition
  <2>5. Claimed(c) => new.status \in {"approved", "dispatched", "failed"}
    BY <1>1, <1>3, ConstantsAssumption
    DEF ClaimOK, RowOK, Accepts, KeepsConfirmation, LegalTransition
  <2>6. RowStep(c)
    BY <1>1, <2>1, <2>4, <2>5 DEF RowStep
  <2> QED
    BY <1>1, <2>1, <2>2, <2>3, <2>6
<1> QED
  BY <1>2, <1>3

(* Nothing happens to the table. *)
LEMMA SameTable ==
  ASSUME IInv, UNCHANGED table
  PROVE  \A c \in Commands : RowStep(c)
BY DEF IInv, RowStep, Stands, ClaimOK

-----------------------------------------------------------------------------
(* One lemma per group of actions: each keeps the invariant and every row  *)
(* that is already decided.                                                *)
Kept == IInv' /\ \A c \in Commands : Stands(c)

LEMMA TickStep ==
  ASSUME IInv, Tick
  PROVE  Kept
<1>1. now \in Nat /\ now' = now + 1 /\ UNCHANGED <<table, claims, handler, sweep, consumer, effects, faults>>
  BY DEF Tick, IInv, TypeOK
<1>2. \A c \in Commands : RowStep(c)
  BY <1>1, SameTable
<1>3. \A c \in Commands : RowOK(c)' /\ EffectOK(c)'
  BY <1>1 DEF IInv, TypeOK, RowOK, EffectOK, Claimed, Row, Stamp
<1>4. TypeOK' /\ OneActor'
  BY <1>1 DEF IInv, TypeOK, OneActor
<1> QED
  BY <1>1, <1>2, <1>3, <1>4, Undisturbed DEF Kept, IInv, RowStep

LEMMA RequestStep ==
  ASSUME IInv, NEW c \in Commands, Request(c)
  PROVE  Kept
<1>1. /\ table[c].status = "absent" /\ now \in Nat
      /\ UNCHANGED <<now, claims, handler, sweep, consumer, effects, faults>>
      /\ table \in [Commands -> Row]
  BY DEF Request, IInv, TypeOK
<1> DEFINE new == [NoRow EXCEPT !.status = "awaiting_confirmation", !.ttl = now + TTL]
<1>2. /\ new \in Row /\ new.status = "awaiting_confirmation"
      /\ new.by = NoOne /\ new.at = NoTime
  <2>1. now + TTL \in Nat
    BY <1>1, ConstantsAssumption
  <2>2. NoRow \in Row
    BY DEF NoRow, Row, Stamp
  <2> QED
    BY <2>1, <2>2 DEF NoRow, Row, Stamp
<1>3. table' = [table EXCEPT ![c] = new]
  BY DEF Request
<1> HIDE DEF new
<1>4. /\ table' \in [Commands -> Row]
      /\ table'[c] = new /\ \A b \in Commands \ {c} : table'[b] = table[b]
  BY <1>1, <1>2, <1>3
<1>5. \A b \in Commands : RowStep(b)
  BY <1>1, <1>4 DEF IInv, ClaimOK, RowStep, Stands
<1>6. \A b \in Commands : RowOK(b)' /\ EffectOK(b)'
  BY <1>1, <1>2, <1>4, ConstantsAssumption DEF IInv, RowOK, EffectOK, Claimed
<1>7. TypeOK' /\ OneActor'
  BY <1>1, <1>4 DEF IInv, TypeOK, OneActor
<1> QED
  BY <1>1, <1>5, <1>6, <1>7, Undisturbed DEF Kept, IInv, RowStep

(* A handler moves and writes nothing. *)
LEMMA HandlerMoves ==
  ASSUME IInv, NEW h \in Handlers, NEW v \in Handler,
         handler' = [handler EXCEPT ![h] = v], HandlerOK(h)',
         UNCHANGED <<now, table, claims, sweep, consumer, effects, faults>>
  PROVE  Kept
<1>1. \A c \in Commands : RowStep(c)
  BY SameTable
<1>2. TypeOK' /\ OneActor'
  BY DEF IInv, TypeOK, OneActor
<1>3. \A c \in Commands : RowOK(c)' /\ EffectOK(c)'
  BY DEF IInv, RowOK, EffectOK, Claimed
<1>4. \A g \in Handlers \ {h} : handler'[g] = handler[g]
  BY DEF IInv, TypeOK
<1>5. now \in Nat
  BY DEF IInv, TypeOK
<1> QED
  BY <1>1, <1>2, <1>3, <1>4, <1>5, Undisturbed DEF Kept, IInv, RowStep

LEMMA IdleHandlerType == IdleHandler \in Handler /\ NoRow \in Row
BY DEF IdleHandler, Handler, NoRow, Row, Stamp

LEMMA ClickStep ==
  ASSUME IInv, NEW h \in Handlers, NEW c \in Commands, Click(h, c)
  PROVE  Kept
<1> DEFINE v == [IdleHandler EXCEPT !.pc = "read", !.cmd = c,
                   !.stamp = IF h \in DiscordHandlers THEN now ELSE NoTime]
<1>1. /\ handler' = [handler EXCEPT ![h] = v]
      /\ UNCHANGED <<now, table, claims, sweep, consumer, effects, faults>>
      /\ table[c].status # "absent" /\ now \in Nat /\ h \in DOMAIN handler
  BY DEF Click, IInv, TypeOK
<1>2. /\ v \in Handler /\ v.pc = "read" /\ v.cmd = c
      /\ v.stamp = IF h \in DiscordHandlers THEN now ELSE NoTime
  BY <1>1, IdleHandlerType DEF IdleHandler, Handler, Stamp
<1> HIDE DEF v
<1>3. HandlerOK(h)'
  BY <1>1, <1>2, ConstantsAssumption DEF HandlerOK
<1> QED
  BY <1>1, <1>2, <1>3, HandlerMoves

LEMMA BackToIdle ==
  ASSUME IInv, NEW h \in Handlers, handler' = [handler EXCEPT ![h] = IdleHandler]
  PROVE  HandlerOK(h)'
BY DEF IInv, TypeOK, HandlerOK, IdleHandler

LEMMA ReadStep ==
  ASSUME IInv, NEW h \in Handlers, ReadAndDecide(h)
  PROVE  Kept
<1> DEFINE c == handler[h].cmd
           t == IF h \in DiscordHandlers THEN handler[h].stamp ELSE now
<1>1. /\ handler[h].pc = "read" /\ now \in Nat /\ h \in DOMAIN handler
      /\ handler[h] \in Handler /\ HandlerOK(h)
      /\ UNCHANGED <<now, table, claims, sweep, consumer, effects, faults>>
  BY DEF ReadAndDecide, IInv, TypeOK
<1>2. c \in Commands /\ t \in Nat /\ t <= now
  BY <1>1 DEF HandlerOK
<1>3. CASE Visible(c) # "awaiting_confirmation"
  BY <1>1, <1>3, BackToIdle, IdleHandlerType, HandlerMoves DEF ReadAndDecide
<1>4. CASE Visible(c) = "awaiting_confirmation"
  <2>1. PICK verdict \in {"approved", "rejected"} :
          handler' = [handler EXCEPT ![h].pc = "save", ![h].stamp = t,
                                     ![h].row = Decision(table[c], h, t, verdict)]
    BY <1>4 DEF ReadAndDecide
  <2> DEFINE row == Decision(table[c], h, t, verdict)
             v == [handler[h] EXCEPT !.pc = "save", !.stamp = t, !.row = row]
  <2>2. table[c] \in Row /\ table[c].status = "awaiting_confirmation" /\ RowOK(c)
    BY <1>2, <1>4 DEF Visible, IInv, TypeOK
  <2>3. row \in Row /\ row.ttl = table[c].ttl /\ Decided(h, row)
    BY <1>2, <2>2 DEF Decision, Decided, RowOK, Row, Terminal, Stamp
  <2> HIDE DEF row
  <2>4. /\ v \in Handler /\ v.pc = "save" /\ v.cmd = c /\ v.stamp = t /\ v.row = row
        /\ handler' = [handler EXCEPT ![h] = v]
    BY <1>1, <1>2, <2>1, <2>3 DEF Handler, Stamp, row
  <2> HIDE DEF v
  <2>5. HandlerOK(h)'
    BY <1>1, <1>2, <2>2, <2>3, <2>4 DEF HandlerOK, Decided
  <2> QED
    BY <1>1, <2>4, <2>5, HandlerMoves
<1> QED
  BY <1>3, <1>4

LEMMA DropStep ==
  ASSUME IInv, NEW h \in Handlers, DropDecision(h)
  PROVE  Kept
BY BackToIdle, IdleHandlerType, HandlerMoves DEF DropDecision

LEMMA WriteDecisionStep ==
  ASSUME IInv, NEW h \in Handlers, WriteDecision(h)
  PROVE  Kept
<1> DEFINE c == handler[h].cmd
           new == handler[h].row
<1>1. /\ handler[h].pc = "save" /\ handler[h] \in Handler /\ HandlerOK(h) /\ now \in Nat
      /\ handler' = [handler EXCEPT ![h] = IdleHandler]
      /\ Save(c, new)
      /\ UNCHANGED <<now, claims, sweep, consumer, effects, faults>>
      /\ \A g \in Handlers \ {h} : handler'[g] = handler[g]
  BY DEF WriteDecision, IInv, TypeOK
<1>2. /\ c \in Commands /\ new \in Row /\ table[c].status # "absent" /\ new.ttl = table[c].ttl
      /\ Decided(h, new)
  BY <1>1 DEF HandlerOK, Handler
<1>3. /\ table' \in [Commands -> Row]
      /\ \A b \in Commands : RowStep(b) /\ RowOK(b)'
  <2> HIDE DEF c, new
  <2> QED
    BY <1>1, <1>2, SaveStep DEF Decided
<1>4. TypeOK' /\ OneActor' /\ \A b \in Commands : EffectOK(b)'
  BY <1>1, <1>3, IdleHandlerType DEF IInv, TypeOK, OneActor, EffectOK, Claimed
<1>5. HandlerOK(h)'
  BY <1>1, BackToIdle
<1> QED
  BY <1>1, <1>3, <1>4, <1>5, Undisturbed DEF Kept, IInv, RowStep

LEMMA SweepStep ==
  ASSUME IInv,
         SweepRead \/ \E c \in Commands : ExpireFails(c)
  PROVE  Kept
<1>1. /\ UNCHANGED <<now, table, claims, handler, consumer, effects>>
      /\ faults' \in 0..MaxFaults /\ now \in Nat
  BY ConstantsAssumption DEF SweepRead, ExpireFails, Fault, IInv, TypeOK
<1>2. sweep' \subseteq Commands /\ \A c \in sweep' : table[c].status # "absent"
  BY DEF SweepRead, ExpireFails, Overdue, IInv, TypeOK
<1>3. \A c \in Commands : RowStep(c)
  BY <1>1, SameTable
<1>4. TypeOK' /\ OneActor' /\ \A c \in Commands : RowOK(c)' /\ EffectOK(c)'
  BY <1>1, <1>2 DEF IInv, TypeOK, OneActor, RowOK, EffectOK, Claimed
<1> QED
  BY <1>1, <1>2, <1>3, <1>4, Undisturbed DEF Kept, IInv, RowStep

LEMMA ExpireStep ==
  ASSUME IInv, NEW c \in Commands, ExpireRow(c)
  PROVE  Kept
<1> DEFINE new == [NoRow EXCEPT !.status = "expired", !.ttl = table[c].ttl]
<1>1. /\ c \in sweep /\ table[c] \in Row /\ table[c].status # "absent" /\ now \in Nat
      /\ Save(c, new)
      /\ sweep' = sweep \ {c}
      /\ UNCHANGED <<now, claims, handler, consumer, effects, faults>>
  BY DEF ExpireRow, IInv, TypeOK
<1>2. /\ new \in Row /\ new.ttl = table[c].ttl
      /\ new.status = "expired" /\ new.by = NoOne /\ new.at = NoTime
  BY <1>1, IdleHandlerType DEF NoRow, Row, Terminal
<1> HIDE DEF new
<1>3. /\ table' \in [Commands -> Row]
      /\ \A b \in Commands : RowStep(b) /\ RowOK(b)'
  BY <1>1, <1>2, SaveStep
<1>4. TypeOK' /\ OneActor' /\ \A b \in Commands : EffectOK(b)'
  BY <1>1, <1>3 DEF IInv, TypeOK, OneActor, EffectOK, Claimed
<1> QED
  BY <1>1, <1>3, <1>4, Undisturbed DEF Kept, IInv, RowStep

-----------------------------------------------------------------------------
(* A daemon that ends a step outside dispatch and receipt writes nothing   *)
(* and keeps rows that are in the table.                                   *)
LEMMA ConsumerRests ==
  ASSUME IInv, NEW k \in Daemons, NEW v \in Consumer,
         consumer' = [consumer EXCEPT ![k] = v], v.pc \notin Acting,
         \A q \in v.batch : q.row.ttl = table[q.cmd].ttl /\ table[q.cmd].status # "absent",
         faults' \in 0..MaxFaults,
         UNCHANGED <<now, table, claims, handler, sweep, effects>>
  PROVE  Kept
<1>1. \A c \in Commands : RowStep(c)
  BY SameTable
<1>2. /\ consumer'[k] = v
      /\ \A l \in Daemons \ {k} : consumer'[l] = consumer[l]
      /\ now \in Nat
  BY DEF IInv, TypeOK
<1>3. ConsumerOK(k)'
  BY <1>2 DEF ConsumerOK, Acting
<1>4. OneActor'
  BY <1>2 DEF IInv, OneActor
<1>5. TypeOK'
  BY DEF IInv, TypeOK
<1>6. \A c \in Commands : RowOK(c)' /\ EffectOK(c)'
  BY DEF IInv, RowOK, EffectOK, Claimed
<1> QED
  BY <1>1, <1>2, <1>3, <1>4, <1>5, <1>6, Undisturbed DEF Kept, IInv, RowStep

LEMMA IdleConsumerType == IdleConsumer \in Consumer
BY IdleHandlerType DEF IdleConsumer, Consumer

(* Leaving one row behind, or none, is such a state. *)
LEMMA RestType ==
  ASSUME IInv, NEW k \in Daemons, NEW q
  PROVE  /\ Rest(k, q) \in Consumer /\ Rest(k, q).pc \notin Acting
         /\ Rest(k, q).batch = consumer[k].batch \ {q}
<1>1. consumer[k].batch \subseteq Polled
  BY DEF IInv, TypeOK, Consumer
<1> QED
  BY <1>1, IdleConsumerType DEF Rest, IdleConsumer, Consumer, Acting

LEMMA PollStep ==
  ASSUME IInv, NEW k \in Daemons, Poll(k)
  PROVE  Kept
<1> DEFINE b == {[cmd |-> c, row |-> table[c]] : c \in Ready(k)}
           v == [consumer[k] EXCEPT !.pc = "batch", !.batch = b]
<1>1. /\ consumer' = [consumer EXCEPT ![k] = v]
      /\ UNCHANGED <<now, table, claims, handler, sweep, effects, faults>>
      /\ table \in [Commands -> Row] /\ consumer[k] \in Consumer /\ faults \in 0..MaxFaults
  BY DEF Poll, IInv, TypeOK
<1>2. /\ b \subseteq Polled
      /\ \A q \in b : q.row.ttl = table[q.cmd].ttl /\ table[q.cmd].status # "absent"
  BY <1>1 DEF Ready, Visible, Polled
<1> HIDE DEF b
<1>3. v \in Consumer /\ v.pc = "batch" /\ v.batch = b
  BY <1>1, <1>2 DEF Consumer
<1> HIDE DEF v
<1> QED
  BY <1>1, <1>2, <1>3, ConsumerRests DEF Acting

LEMMA ClaimFailsStep ==
  ASSUME IInv, NEW k \in Daemons, NEW q \in consumer[k].batch, ClaimFails(k, q)
  PROVE  Kept
<1>1. /\ UNCHANGED <<now, table, claims, handler, sweep, effects>>
      /\ faults' \in 0..MaxFaults /\ ConsumerOK(k)
  BY ConstantsAssumption DEF ClaimFails, Fault, IInv, TypeOK
<1>2. CASE consumer' = [consumer EXCEPT ![k] = Rest(k, q)]
  BY <1>1, <1>2, RestType, ConsumerRests DEF ConsumerOK
<1>3. CASE consumer' = [consumer EXCEPT ![k] = IdleConsumer]
  <2>1. IdleConsumer.pc = "idle" /\ IdleConsumer.batch = {}
    BY DEF IdleConsumer
  <2> QED
    BY <1>1, <1>3, <2>1, IdleConsumerType, ConsumerRests DEF Acting
<1> QED
  BY <1>2, <1>3 DEF ClaimFails, Skip

LEMMA CrashStep ==
  ASSUME IInv, NEW k \in Daemons, Crash(k)
  PROVE  Kept
<1>1. /\ UNCHANGED <<now, table, claims, handler, sweep, effects>>
      /\ consumer' = [consumer EXCEPT ![k] = IdleConsumer]
      /\ faults' \in 0..MaxFaults
  BY ConstantsAssumption DEF Crash, Fault, IInv, TypeOK
<1>2. IdleConsumer.pc = "idle" /\ IdleConsumer.batch = {}
  BY DEF IdleConsumer
<1> QED
  BY <1>1, <1>2, IdleConsumerType, ConsumerRests DEF Acting

LEMMA ReceiptFailsStep ==
  ASSUME IInv, NEW k \in Daemons, ReceiptFails(k)
  PROVE  Kept
<1> DEFINE v == [IdleConsumer EXCEPT !.batch = consumer[k].batch,
                                     !.pc = IF consumer[k].batch = {} THEN "idle" ELSE "batch"]
<1>1. /\ UNCHANGED <<now, table, claims, handler, sweep, effects>>
      /\ consumer' = [consumer EXCEPT ![k] = v]
      /\ faults' \in 0..MaxFaults /\ ConsumerOK(k) /\ consumer[k] \in Consumer
  BY ConstantsAssumption DEF ReceiptFails, NextRow, Fault, IInv, TypeOK
<1>2. v \in Consumer /\ v.pc \notin Acting /\ v.batch = consumer[k].batch
  BY <1>1, IdleConsumerType DEF IdleConsumer, Consumer, Acting
<1> HIDE DEF v
<1> QED
  BY <1>1, <1>2, ConsumerRests DEF ConsumerOK

(* The claim is refused: the row is skipped and, if it lapsed, expired.    *)
LEMMA RefusedClaim ==
  ASSUME IInv, NEW k \in Daemons, NEW q \in consumer[k].batch, Claim(k, q),
         ~ (Valid(q) /\ Free(q.cmd))
  PROVE  Kept
<1> DEFINE c == q.cmd
<1>1. /\ UNCHANGED <<now, claims, handler, sweep, effects, faults>>
      /\ consumer' = [consumer EXCEPT ![k] = Rest(k, q)]
      /\ ExpireLapsed(c)
      /\ table \in [Commands -> Row] /\ ConsumerOK(k) /\ now \in Nat
      /\ c \in Commands /\ RowOK(c) /\ ClaimOK(c)
  BY DEF Claim, Skip, IInv, TypeOK, Consumer, Polled
<1>2. CASE table' = table
  BY <1>1, <1>2, RestType, ConsumerRests DEF ConsumerOK, IInv, TypeOK
<1>3. CASE /\ table[c].status = "approved" /\ ~ Claimed(c)
           /\ table' = [table EXCEPT ![c].status = "expired"]
  <2>1. /\ table' \in [Commands -> Row]
        /\ table'[c].status = "expired" /\ table'[c].ttl = table[c].ttl
        /\ table'[c].by = table[c].by /\ table'[c].at = table[c].at
        /\ \A b \in Commands \ {c} : table'[b] = table[b]
    BY <1>1, <1>3 DEF Row, Terminal
  <2>2. \A b \in Commands : RowStep(b)
    BY <1>1, <1>3, <2>1 DEF IInv, RowStep, Stands, ClaimOK
  <2>3. \A b \in Commands : RowOK(b)' /\ EffectOK(b)'
    BY <1>1, <2>1 DEF IInv, RowOK, EffectOK, Claimed
  <2>4. /\ Rest(k, q) \in Consumer /\ Rest(k, q).pc \notin Acting
        /\ Rest(k, q).batch = consumer[k].batch \ {q}
        /\ consumer'[k] = Rest(k, q)
        /\ \A l \in Daemons \ {k} : consumer'[l] = consumer[l]
    BY <1>1, RestType DEF IInv, TypeOK
  <2>5. TypeOK' /\ OneActor'
    BY <1>1, <2>1, <2>4 DEF IInv, TypeOK, OneActor
  <2>6. \A r \in consumer[k].batch : r.cmd \in Commands
    BY DEF IInv, TypeOK, Consumer, Polled
  <2>7. ConsumerOK(k)'
    BY <1>1, <2>2, <2>4, <2>6 DEF ConsumerOK, RowStep, Acting
  <2> QED
    BY <1>1, <2>2, <2>3, <2>4, <2>5, <2>7, Undisturbed DEF Kept, IInv, RowStep
<1> QED
  BY <1>1, <1>2, <1>3 DEF ExpireLapsed

(* The claim is taken: nobody else can be acting on an unclaimed command.  *)
LEMMA GrantedClaim ==
  ASSUME IInv, NEW k \in Daemons, NEW q \in consumer[k].batch, Claim(k, q),
         Valid(q), Free(q.cmd)
  PROVE  Kept
<1> DEFINE c == q.cmd
           v == [pc |-> "dispatch", cmd |-> c, row |-> q.row, batch |-> consumer[k].batch \ {q}]
<1>1. /\ UNCHANGED <<now, table, handler, sweep, effects, faults>>
      /\ claims' = [claims EXCEPT ![c] = now]
      /\ consumer' = [consumer EXCEPT ![k] = v]
      /\ ConsumerOK(k) /\ consumer[k] \in Consumer /\ now \in Nat
      /\ table[c].status = "approved" /\ table[c].ttl > now /\ ~ Claimed(c)
  BY DEF Claim, Valid, Free, IInv, TypeOK
<1>2. c \in Commands /\ q.row \in Row
  BY <1>1 DEF Consumer, Polled
<1>3. /\ v \in Consumer /\ v.pc = "dispatch" /\ v.cmd = c /\ v.row = q.row
      /\ v.batch = consumer[k].batch \ {q}
  BY <1>1, <1>2 DEF Consumer
<1> HIDE DEF v
<1>4. /\ claims' \in [Commands -> Stamp] /\ claims'[c] = now
      /\ \A b \in Commands \ {c} : claims'[b] = claims[b]
      /\ consumer' \in [Daemons -> Consumer] /\ consumer'[k] = v
      /\ \A l \in Daemons \ {k} : consumer'[l] = consumer[l]
  BY <1>1, <1>2, <1>3 DEF IInv, TypeOK, Stamp
<1>5. \A b \in Commands : Claimed(b)' <=> Claimed(b) \/ b = c
  BY <1>1, <1>4, ConstantsAssumption DEF Claimed
<1>6. \A b \in Commands : RowStep(b)
  BY <1>1, SameTable
<1>7. TypeOK'
  BY <1>1, <1>4 DEF IInv, TypeOK
<1>8. RowOK(c) /\ EffectOK(c) /\ effects[c] \in Nat
  BY <1>2 DEF IInv, TypeOK
<1>9. ClaimOK(c)'
  BY <1>1, <1>4, <1>8 DEF ClaimOK, RowOK
<1>10. \A b \in Commands : RowOK(b)' /\ EffectOK(b)'
  BY <1>1, <1>5 DEF IInv, RowOK, EffectOK
<1>11. ConsumerOK(k)'
  BY <1>1, <1>2, <1>3, <1>4, <1>5, <1>8 DEF ConsumerOK, EffectOK
<1>12. ASSUME NEW l \in Daemons \ {k} PROVE ConsumerOK(l)'
  <2>1. ConsumerOK(l) /\ consumer'[l] = consumer[l]
    BY <1>4 DEF IInv
  <2> QED
    BY <1>1, <1>5, <2>1 DEF ConsumerOK
<1>13. OneActor'
  <2>1. \A l \in Daemons : consumer[l].pc \in Acting => consumer[l].cmd # c
    BY <1>1 DEF IInv, ConsumerOK
  <2> QED
    BY <1>3, <1>4, <2>1 DEF IInv, OneActor
<1> QED
  BY <1>1, <1>4, <1>6, <1>7, <1>9, <1>10, <1>11, <1>12, <1>13, Undisturbed
  DEF Kept, IInv, RowStep

(* A dispatch returns: it had not taken effect, and nobody else runs it.   *)
LEMMA DispatchStep ==
  ASSUME IInv, NEW k \in Daemons, DispatchSucceeds(k) \/ DispatchRefused(k)
  PROVE  Kept
<1> DEFINE c == consumer[k].cmd
<1>1. PICK n \in {0, 1}, status \in {"dispatched", "failed"}, result \in {"success", "refusal"} :
         Effect(c, n) /\ Return(k, status, result)
  BY DEF DispatchSucceeds, DispatchRefused
<1> DEFINE v == [consumer[k] EXCEPT !.pc = "receipt", !.row.status = status, !.row.result = result]
<1>2. /\ UNCHANGED <<now, table, claims, handler, sweep, faults>>
      /\ consumer[k].pc = "dispatch" /\ consumer[k] \in Consumer /\ ConsumerOK(k)
      /\ now \in Nat
  BY DEF DispatchSucceeds, DispatchRefused, IInv, TypeOK
<1>3. c \in Commands /\ Claimed(c) /\ effects[c] = 0
  BY <1>2 DEF ConsumerOK, Acting
<1>4. /\ effects' \in [Commands -> Nat] /\ effects'[c] = n
      /\ \A b \in Commands \ {c} : effects'[b] = effects[b]
  BY <1>1, <1>3 DEF Effect, IInv, TypeOK
<1>5. /\ v \in Consumer /\ v.pc = "receipt" /\ v.cmd = c /\ v.batch = consumer[k].batch
      /\ v.row.ttl = consumer[k].row.ttl /\ v.row.status = status
  BY <1>2 DEF Consumer, Row, Terminal
<1>6. consumer' = [consumer EXCEPT ![k] = v]
  BY <1>1 DEF Return
<1> HIDE DEF v
<1>7. /\ consumer'[k] = v /\ consumer' \in [Daemons -> Consumer]
      /\ \A l \in Daemons \ {k} : consumer'[l] = consumer[l]
  BY <1>5, <1>6 DEF IInv, TypeOK
<1>8. \A b \in Commands : RowStep(b)
  BY <1>2, SameTable
<1>9. TypeOK'
  BY <1>2, <1>4, <1>7 DEF IInv, TypeOK
<1>10. \A b \in Commands : RowOK(b)' /\ EffectOK(b)'
  BY <1>2, <1>3, <1>4 DEF IInv, RowOK, EffectOK, Claimed
<1>11. ConsumerOK(k)'
  BY <1>2, <1>3, <1>5, <1>7 DEF ConsumerOK, Acting, Claimed
<1>12. ASSUME NEW l \in Daemons \ {k} PROVE ConsumerOK(l)'
  <2>1. ConsumerOK(l) /\ consumer'[l] = consumer[l]
    BY <1>7 DEF IInv
  <2>2. consumer[l].pc = "dispatch" => consumer[l].cmd # c /\ consumer[l].cmd \in Commands
    BY <1>2, <2>1 DEF IInv, OneActor, ConsumerOK, Acting
  <2> QED
    BY <1>2, <1>4, <2>1, <2>2 DEF ConsumerOK, Claimed
<1>13. OneActor'
  BY <1>2, <1>5, <1>7 DEF IInv, OneActor, Acting
<1> QED
  BY <1>2, <1>8, <1>9, <1>10, <1>11, <1>12, <1>13, Undisturbed DEF Kept, IInv, RowStep

LEMMA WriteReceiptStep ==
  ASSUME IInv, NEW k \in Daemons, WriteReceipt(k)
  PROVE  Kept
<1> DEFINE c == consumer[k].cmd
           new == consumer[k].row
           v == [IdleConsumer EXCEPT !.batch = consumer[k].batch,
                                     !.pc = IF consumer[k].batch = {} THEN "idle" ELSE "batch"]
<1>1. /\ UNCHANGED <<now, claims, handler, sweep, effects, faults>>
      /\ consumer[k].pc = "receipt" /\ consumer[k] \in Consumer /\ ConsumerOK(k)
      /\ Save(c, new) /\ now \in Nat
      /\ consumer' = [consumer EXCEPT ![k] = v]
  BY DEF WriteReceipt, NextRow, IInv, TypeOK
<1>2. /\ c \in Commands /\ Claimed(c) /\ new \in Row /\ new.ttl = table[c].ttl
      /\ new.status \in {"dispatched", "failed"} /\ ClaimOK(c)
  BY <1>1 DEF ConsumerOK, Acting, Consumer, IInv
<1>3. v \in Consumer /\ v.pc \notin Acting /\ v.batch = consumer[k].batch
  BY <1>1, IdleConsumerType DEF IdleConsumer, Consumer, Acting
<1> HIDE DEF v
<1>4. /\ table' \in [Commands -> Row]
      /\ \A b \in Commands : RowStep(b) /\ RowOK(b)'
  <2> HIDE DEF c, new
  <2> QED
    BY <1>1, <1>2, SaveStep DEF ClaimOK
<1>5. /\ consumer'[k] = v /\ consumer' \in [Daemons -> Consumer]
      /\ \A l \in Daemons \ {k} : consumer'[l] = consumer[l]
  BY <1>1, <1>3 DEF IInv, TypeOK
<1>6. TypeOK' /\ OneActor' /\ \A b \in Commands : EffectOK(b)'
  BY <1>1, <1>3, <1>4, <1>5 DEF IInv, TypeOK, OneActor, EffectOK, Claimed
<1>7. \A q \in consumer[k].batch : q.cmd \in Commands
  BY <1>1 DEF Consumer, Polled
<1>8. ConsumerOK(k)'
  BY <1>1, <1>3, <1>4, <1>5, <1>7 DEF ConsumerOK, RowStep, Acting
<1> QED
  BY <1>1, <1>4, <1>5, <1>6, <1>8, Undisturbed DEF Kept, IInv, RowStep

-----------------------------------------------------------------------------
LEMMA NextKept == IInv /\ [Next]_vars => Kept
<1> SUFFICES ASSUME IInv, [Next]_vars PROVE Kept
  OBVIOUS
<1>1. CASE Tick
  BY <1>1, TickStep
<1>2. CASE Expire
  BY <1>2, SweepStep, ExpireStep DEF Expire
<1>3. ASSUME NEW c \in Commands, Request(c) PROVE Kept
  BY <1>3, RequestStep
<1>4. ASSUME NEW h \in Handlers, Handle(h) \/ \E c \in Commands : Click(h, c) PROVE Kept
  BY <1>4, ClickStep, ReadStep, WriteDecisionStep, DropStep DEF Handle
<1>5. ASSUME NEW k \in Daemons, Consume(k) \/ Crash(k) PROVE Kept
  BY <1>5, PollStep, RefusedClaim, GrantedClaim, ClaimFailsStep, DispatchStep,
     WriteReceiptStep, ReceiptFailsStep, CrashStep DEF Consume
<1>6. CASE UNCHANGED vars
  BY <1>6 DEF vars, Kept, IInv, TypeOK, RowOK, ClaimOK, EffectOK, Claimed, HandlerOK,
              Decided, ConsumerOK, OneActor, Stands
<1> QED
  BY <1>1, <1>2, <1>3, <1>4, <1>5, <1>6 DEF Next

(* The inductive invariant holds in every reachable state. *)
THEOREM Inductive == Spec => []IInv
<1>1. IInv /\ [Next]_vars => IInv'
  BY NextKept DEF Kept
<1> QED
  BY <1>1, InitIInv, PTL DEF Spec

(* Every variable has its type. *)
THEOREM TypeCorrect == Spec => []TypeOK
<1>1. IInv => TypeOK
  BY DEF IInv
<1> QED
  BY <1>1, Inductive, PTL

(* A command takes effect at most once, with any number of daemons.        *)
THEOREM RunsAtMostOnce == Spec => []EffectAtMostOnce
<1>1. IInv => EffectAtMostOnce
  BY DEF IInv, EffectOK, EffectAtMostOnce
<1> QED
  BY <1>1, Inductive, PTL

(* What took effect was approved and stays on record as approved.          *)
THEOREM RunsOnlyApproved == Spec => []EffectWasApproved
<1>1. IInv => EffectWasApproved
  BY ConstantsAssumption DEF IInv, EffectOK, ClaimOK, RowOK, EffectWasApproved
<1> QED
  BY <1>1, Inductive, PTL

(* A claim falls between the approval and the end of the TTL.              *)
THEOREM ClaimsInTime == Spec => []ClaimWithinTTL
<1>1. IInv => ClaimWithinTTL
  BY DEF IInv, ClaimOK, ClaimWithinTTL
<1> QED
  BY <1>1, Inductive, PTL

(* The first decision on a command stands, whoever else had read the row.  *)
THEOREM FirstDecisionStands == Spec => DecisionStands
<1>1. IInv /\ [Next]_vars => [\A c \in Commands : Stands(c)]_vars
  BY NextKept DEF Kept
<1> QED
  BY <1>1, Inductive, PTL DEF Spec, DecisionStands
=============================================================================
