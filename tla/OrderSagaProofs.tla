--------------------------- MODULE OrderSagaProofs ---------------------------
(***************************************************************************)
(* OrderSaga, for any number of placements, gateways, crashes and lost     *)
(* events: type correctness, and for keys that are used once the invariant *)
(* SagaInv with what it says of cooked orders and of compensations.        *)
(***************************************************************************)
EXTENDS OrderSaga, InventoryProofs

\* The half of the invariant that holds whatever keys the clients send.
ControlInv == SagaTypeOK /\ \A p \in Placements : Control(p)

\* Keys are used once.
UsedOnce == \A p, q \in Placements : Order(p) = Order(q) => p = q

\* A step that is about one placement.
Only(p) ==
  \A q \in Placements \ {p} :
    /\ pc'[q] = pc[q] /\ loop'[q] = loop[q] /\ job'[q] = job[q] /\ stalls'[q] = stalls[q]
    /\ \A op \in {"deduct", "restore"} : <<q, op>> \in late' <=> <<q, op>> \in late

-----------------------------------------------------------------------------
LEMMA OrderType ==
  ASSUME NEW p \in Placements
  PROVE  Order(p) \in Orders
BY SagaAssumption DEF Order

\* What LogEvent does to the log, as far as the invariants tell logs apart.
LEMMA LogEventEffect ==
  ASSUME SagaTypeOK, NEW p \in Placements, NEW st \in Statuses, LogEvent(Order(p), st)
  PROVE  /\ log' \in [Orders -> Seq(Statuses)]
         /\ lost' \in 0 .. MaxLost
         /\ lost' = 0 => lost = 0 /\ Logged(Order(p), st)'
         /\ \A o \in Orders, s \in Statuses : Logged(o, s) => Logged(o, s)'
         /\ \A o \in Orders, s \in Statuses :
              Logged(o, s)' => Logged(o, s) \/ (o = Order(p) /\ s = st)
<1>t. Order(p) \in Orders /\ log \in [Orders -> Seq(Statuses)] /\ lost \in 0 .. MaxLost
      /\ MaxLost \in Nat
  BY OrderType, SagaAssumption DEF SagaTypeOK
<1>1. CASE log' = [log EXCEPT ![Order(p)] = Append(@, st)] /\ UNCHANGED lost
  <2>1. \A o \in Orders : log'[o] = IF o = Order(p) THEN Append(log[o], st) ELSE log[o]
    BY <1>t, <1>1
  <2>2. \A o \in Orders : log[o] \in Seq(Statuses)
    BY <1>t
  <2>3. log' \in [Orders -> Seq(Statuses)]
    BY <1>t, <1>1
  <2> DEFINE l == log[Order(p)]
  <2>a. /\ l \in Seq(Statuses) /\ st \in Statuses
        /\ Len(l) \in Nat /\ Len(Append(l, st)) = Len(l) + 1
        /\ \A k \in 1 .. Len(l) : Append(l, st)[k] = l[k]
        /\ Append(l, st)[Len(l) + 1] = st
    BY <1>t, <2>2
  <2>b. log'[Order(p)] = Append(l, st)
    BY <1>t, <2>1
  <2>4. \A o \in Orders, s \in Statuses : Logged(o, s) => Logged(o, s)'
    <3> SUFFICES ASSUME NEW o \in Orders, NEW s \in Statuses, Logged(o, s)
                 PROVE  Logged(o, s)'
      OBVIOUS
    <3>1. CASE o # Order(p)
      BY <2>1, <3>1 DEF Logged
    <3>2. CASE o = Order(p)
      <4>1. PICK k \in 1 .. Len(l) : l[k] = s
        BY <3>2 DEF Logged
      <4>2. k \in 1 .. Len(Append(l, st)) /\ Append(l, st)[k] = s
        BY <2>a, <4>1
      <4> QED
        BY <2>b, <3>2, <4>2 DEF Logged
    <3> QED
      BY <3>1, <3>2
  <2>5. \A o \in Orders, s \in Statuses :
          Logged(o, s)' => Logged(o, s) \/ (o = Order(p) /\ s = st)
    <3> SUFFICES ASSUME NEW o \in Orders, NEW s \in Statuses, Logged(o, s)'
                 PROVE  Logged(o, s) \/ (o = Order(p) /\ s = st)
      OBVIOUS
    <3>1. CASE o # Order(p)
      BY <2>1, <3>1 DEF Logged
    <3>2. CASE o = Order(p)
      <4>1. PICK k \in 1 .. Len(Append(l, st)) : Append(l, st)[k] = s
        BY <2>b, <3>2 DEF Logged
      <4>2. (k \in 1 .. Len(l) /\ l[k] = s) \/ s = st
        BY <2>a, <4>1
      <4> QED
        BY <3>2, <4>2 DEF Logged
    <3> QED
      BY <3>1, <3>2
  <2>6. Logged(Order(p), st)'
    <3>1. Len(l) + 1 \in 1 .. Len(Append(l, st))
      BY <2>a
    <3> QED
      BY <2>a, <2>b, <3>1 DEF Logged
  <2> QED
    BY <1>t, <1>1, <2>3, <2>4, <2>5, <2>6
<1>2. CASE lost < MaxLost /\ lost' = lost + 1 /\ UNCHANGED log
  BY <1>t, <1>2 DEF Logged
<1> QED
  BY <1>1, <1>2 DEF LogEvent, publishEvent

\* The control of the other placements is as it was.
LEMMA OnlyControl ==
  ASSUME ControlInv, NEW p \in Placements, Only(p), SagaTypeOK', Control(p)'
  PROVE  ControlInv'
<1>1. ASSUME NEW q \in Placements, q # p PROVE Control(q)'
  <2>1. Control(q)
    BY DEF ControlInv
  <2> QED
    BY <1>1, <2>1 DEF Only, Control
<1> QED
  BY <1>1 DEF ControlInv

LEMMA InitControl == SagaInit => ControlInv
<1> SUFFICES ASSUME SagaInit PROVE ControlInv
  OBVIOUS
<1>1. TypeOK
  BY InventoryAssumption DEF SagaInit, Init, TypeOK
<1>2. log \in [Orders -> Seq(Statuses)]
  BY DEF SagaInit
<1>3. SagaTypeOK
  BY <1>1, <1>2, SagaAssumption DEF SagaInit, SagaTypeOK, Running, Answers, InLoop
<1>4. \A p \in Placements : Control(p)
  BY SagaAssumption DEF SagaInit, Control, PastStock, WithJob
<1> QED
  BY <1>3, <1>4 DEF ControlInv

-----------------------------------------------------------------------------
(* Steps preserve ControlInv.                                              *)

\* placeOrder goes on and may log what it did; nothing else changes.
LEMMA PcStep ==
  ASSUME ControlInv, NEW p \in Placements, NEW to \in Running \union Answers,
         pc' = [pc EXCEPT ![p] = to],
         log' \in [Orders -> Seq(Statuses)], lost' \in 0 .. MaxLost,
         UNCHANGED <<inventory, loop, attempts, late, kitchen, process>>,
         to \in {"placed"} => loop[p] \in {"off", "over"},
         to \in PastStock => loop[p] = "over",
         <<p, "deduct">> \in late => to \in {"failing", "rejected"},
         <<p, "restore">> \in late => to \in {"manual", "busy"},
         job[p] # "none" => to \in WithJob
  PROVE  ControlInv'
<1>1. SagaTypeOK'
  BY DEF ControlInv, SagaTypeOK, inventory, kitchen, process, TypeOK
<1>2. Only(p)
  BY DEF ControlInv, SagaTypeOK, Only, kitchen
<1>3. Control(p)'
  BY DEF ControlInv, SagaTypeOK, Control, kitchen, Running, Answers
<1> QED
  BY <1>1, <1>2, <1>3, OnlyControl

\* The log is typed after every step that may write it.
LEMMA LogTyped ==
  ASSUME SagaTypeOK, NEW p \in Placements,
         (\E st \in Statuses : LogEvent(Order(p), st)) \/ UNCHANGED <<log, lost>>
  PROVE  log' \in [Orders -> Seq(Statuses)] /\ lost' \in 0 .. MaxLost
BY LogEventEffect DEF SagaTypeOK

LEMMA FireControl ==
  ASSUME ControlInv, NEW p \in Placements, Fire(p)
  PROVE  ControlInv'
<1>1. SagaTypeOK'
  BY DEF Fire, Step, ControlInv, SagaTypeOK, inventory, kitchen, process, TypeOK, Running
<1>2. Only(p)
  BY DEF Fire, Step, ControlInv, SagaTypeOK, Only, kitchen
<1>3. Control(p)'
  BY DEF Fire, Step, ControlInv, SagaTypeOK, Control, kitchen, PastStock, WithJob
<1> QED
  BY <1>1, <1>2, <1>3, OnlyControl

LEMMA PlaceOrderControl ==
  ASSUME ControlInv, NEW p \in Placements,
         \/ Place(p) \/ BreakerRejects(p) \/ BreakerTimesOut(p) \/ Reject(p)
         \/ KitchenQueued(p) \/ Accept(p) \/ Confirm(p) \/ QueueFails(p) \/ Compensate(p)
         \/ SendRestore(p) \/ RolledBack(p) \/ RestoreFails(p) \/ Busy(p)
  PROVE  ControlInv'
<1> DEFINE Edges ==
      {<<"idle", "placed">>, <<"placed", "failing">>, <<"deducting", "failing">>,
       <<"failing", "rejected">>, <<"adding", "queued">>, <<"queued", "accepted">>,
       <<"accepted", "confirmed">>, <<"deducted", "queueFailed">>,
       <<"queueFailed", "compensating">>, <<"compensating", "restoring">>,
       <<"restoreOk", "rolledBack">>, <<"restoreError", "manual">>,
       <<"rolledBack", "busy">>, <<"manual", "busy">>}
<1>1. PICK to \in Running \union Answers :
        <<pc[p], to>> \in Edges /\ pc' = [pc EXCEPT ![p] = to]
  BY DEF Place, BreakerRejects, BreakerTimesOut, Reject, KitchenQueued, Accept, Confirm,
         QueueFails, Compensate, SendRestore, RolledBack, RestoreFails, Busy, Step,
         Running, Answers
<1>2. (\E st \in Statuses : LogEvent(Order(p), st)) \/ UNCHANGED <<log, lost>>
  BY DEF Place, BreakerRejects, BreakerTimesOut, Reject, KitchenQueued, Accept, Confirm,
         QueueFails, Compensate, SendRestore, RolledBack, RestoreFails, Busy, Statuses
<1>3. UNCHANGED <<inventory, loop, attempts, late, kitchen, process>>
  BY DEF Place, BreakerRejects, BreakerTimesOut, Reject, KitchenQueued, Accept, Confirm,
         QueueFails, Compensate, SendRestore, RolledBack, RestoreFails, Busy
<1>4. log' \in [Orders -> Seq(Statuses)] /\ lost' \in 0 .. MaxLost
  BY <1>2, LogTyped DEF ControlInv
<1>5. Control(p)
  BY DEF ControlInv
<1>6. /\ to \in {"placed"} => loop[p] \in {"off", "over"}
      /\ to \in PastStock => loop[p] = "over"
      /\ <<p, "deduct">> \in late => to \in {"failing", "rejected"}
      /\ <<p, "restore">> \in late => to \in {"manual", "busy"}
      /\ job[p] # "none" => to \in WithJob
  BY <1>1, <1>5 DEF Control, PastStock, WithJob
<1> QED
  BY <1>1, <1>3, <1>4, <1>6, PcStep

\* The loop goes on: no other part of the saga hears of it.
LEMMA LoopControl ==
  ASSUME ControlInv, NEW p \in Placements,
         StartLoop(p) \/ Retry(p) \/ Resend(p) \/ StockDeducts(p) \/ StockAnswers(p)
  PROVE  ControlInv'
<1>1. PICK l \in InLoop : loop' = [loop EXCEPT ![p] = l]
  BY DEF StartLoop, Retry, Resend, StockDeducts, StockAnswers, InLoop
<1>2. loop[p] \in {"queued"} \union InLoop
  BY DEF StartLoop, Retry, Resend, StockDeducts, StockAnswers, InLoop
<1>3. UNCHANGED <<pc, late, kitchen, log, process, lost>>
  BY DEF StartLoop, Retry, Resend, StockDeducts, StockAnswers
<1>4. attempts' \in [Placements -> 0 .. MaxAttempts - 1]
  <2>1. CASE Retry(p)
    BY <2>1, SagaAssumption DEF Retry, RetriesLeft, ControlInv, SagaTypeOK
  <2>2. CASE UNCHANGED attempts
    BY <2>2 DEF ControlInv, SagaTypeOK
  <2> QED
    BY <2>1, <2>2 DEF StartLoop, Resend, StockDeducts, StockAnswers
<1>5. TypeOK'
  <2>1. CASE Deduct(Order(p))
    BY <2>1, OrderType, InventoryAssumption
    DEF ControlInv, SagaTypeOK, TypeOK, Deduct, Available
  <2>2. CASE UNCHANGED inventory
    BY <2>2 DEF ControlInv, SagaTypeOK, TypeOK, inventory
  <2> QED
    BY <2>1, <2>2 DEF StartLoop, Retry, Resend, StockDeducts, StockAnswers
<1>6. SagaTypeOK'
  BY <1>1, <1>3, <1>4, <1>5 DEF ControlInv, SagaTypeOK, kitchen, process
<1>7. Only(p)
  BY <1>1, <1>3 DEF ControlInv, SagaTypeOK, Only, kitchen
<1>8. Control(p)'
  <2>1. loop'[p] = l
    BY <1>1 DEF ControlInv, SagaTypeOK
  <2>2. Control(p)
    BY DEF ControlInv
  <2> QED
    BY <1>2, <1>3, <2>1, <2>2 DEF Control, kitchen, InLoop
<1> QED
  BY <1>6, <1>7, <1>8, OnlyControl

\* The loop ends, by an answer or by the timeout of its last call.
LEMMA SettleControl ==
  ASSUME ControlInv, NEW p \in Placements,
         DeductionSucceeds(p) \/ DeductionFails(p) \/ DeductTimesOut(p)
  PROVE  ControlInv'
<1>1. /\ loop[p] \in InLoop
      /\ loop' = [loop EXCEPT ![p] = "over"]
      /\ UNCHANGED <<inventory, attempts, kitchen, process>>
  BY DEF DeductionSucceeds, DeductionFails, DeductTimesOut, Settle, InLoop
<1>2. \/ pc[p] = "deducting" /\ pc' = [pc EXCEPT ![p] = "failing"]
      \/ /\ pc[p] = "deducting" /\ pc' = [pc EXCEPT ![p] = "deducted"]
         /\ UNCHANGED late
      \/ pc[p] # "deducting" /\ pc' = pc
  BY DEF DeductionSucceeds, DeductionFails, DeductTimesOut, Settle, Step
<1>3. late' = late \/ late' = late \union {<<p, "deduct">>}
  BY DEF DeductionSucceeds, DeductionFails, DeductTimesOut
<1>4. (\E st \in Statuses : LogEvent(Order(p), st)) \/ UNCHANGED <<log, lost>>
  BY DEF DeductionSucceeds, DeductionFails, DeductTimesOut, Settle, Statuses
<1>5. log' \in [Orders -> Seq(Statuses)] /\ lost' \in 0 .. MaxLost
  BY <1>4, LogTyped DEF ControlInv
<1>6. SagaTypeOK'
  <2>1. pc' \in [Placements -> {"idle", "dead"} \union Running \union Answers]
    BY <1>2 DEF ControlInv, SagaTypeOK, Running
  <2>2. late' \subseteq Placements \X {"deduct", "restore"}
    BY <1>3 DEF ControlInv, SagaTypeOK
  <2>3. TypeOK'
    BY <1>1 DEF ControlInv, SagaTypeOK, TypeOK, inventory
  <2> QED
    BY <1>1, <1>5, <2>1, <2>2, <2>3 DEF ControlInv, SagaTypeOK, kitchen, process
<1>7. Only(p)
  BY <1>1, <1>2, <1>3 DEF ControlInv, SagaTypeOK, Only, kitchen
<1>8. Control(p)'
  <2>1. Control(p) /\ loop'[p] = "over"
    BY <1>1 DEF ControlInv, SagaTypeOK
  <2>2. \/ pc[p] = "deducting" /\ pc'[p] = "failing"
        \/ pc[p] = "deducting" /\ pc'[p] = "deducted" /\ UNCHANGED late
        \/ pc[p] \in {"failing", "rejected"} /\ pc'[p] = pc[p]
    <3>1. pc[p] \in {"idle", "dead"} \union Running \union Answers
      BY DEF ControlInv, SagaTypeOK
    <3>2. pc[p] \in {"deducting", "failing", "rejected"}
      BY <1>1, <2>1, <3>1 DEF Control, InLoop, PastStock, Running, Answers
    <3> QED
      BY <1>2, <3>2 DEF ControlInv, SagaTypeOK
  <2>3. <<p, "restore">> \in late' <=> <<p, "restore">> \in late
    BY <1>3
  <2>4. job'[p] = job[p] /\ stalls'[p] = stalls[p]
    BY <1>1 DEF kitchen
  <2>5. <<p, "deduct">> \in late => pc[p] \in {"failing", "rejected", "dead"} /\ loop[p] = "over"
    BY <2>1 DEF Control
  <2>6. <<p, "restore">> \notin late /\ job[p] = "none"
    BY <2>1, <2>2 DEF Control, WithJob
  <2> QED
    BY <1>1, <2>1, <2>2, <2>3, <2>4, <2>5, <2>6 DEF Control, PastStock, WithJob, InLoop
<1> QED
  BY <1>6, <1>7, <1>8, OnlyControl

LEMMA QueueAddControl ==
  ASSUME ControlInv, NEW p \in Placements, QueueAdd(p)
  PROVE  ControlInv'
<1>1. SagaTypeOK'
  BY DEF QueueAdd, Step, ControlInv, SagaTypeOK, inventory, process, TypeOK, Running
<1>2. Only(p)
  BY DEF QueueAdd, Step, ControlInv, SagaTypeOK, Only
<1>3. Control(p)'
  BY DEF QueueAdd, Step, ControlInv, SagaTypeOK, Control, PastStock, WithJob
<1> QED
  BY <1>1, <1>2, <1>3, OnlyControl

LEMMA RestoreControl ==
  ASSUME ControlInv, NEW p \in Placements,
         StockRestores(p) \/ StockKeeps(p) \/ RestoreTimesOut(p)
  PROVE  ControlInv'
<1>1. PICK to \in {"restoreOk", "restoreError", "manual"} :
        pc[p] = "restoring" /\ pc' = [pc EXCEPT ![p] = to]
  BY DEF StockRestores, StockKeeps, RestoreTimesOut, Step
<1>2. late' = late \/ (late' = late \union {<<p, "restore">>} /\ to = "manual")
  BY <1>1 DEF StockRestores, StockKeeps, RestoreTimesOut, Step, ControlInv, SagaTypeOK
<1>3. UNCHANGED <<loop, attempts, kitchen, process>>
  BY DEF StockRestores, StockKeeps, RestoreTimesOut
<1>4. log' \in [Orders -> Seq(Statuses)] /\ lost' \in 0 .. MaxLost
  BY LogTyped DEF StockRestores, StockKeeps, RestoreTimesOut, Statuses, ControlInv
<1>5. TypeOK'
  BY InventoryAssumption
  DEF StockRestores, StockKeeps, RestoreTimesOut, Restore, inventory, ControlInv, SagaTypeOK, TypeOK
<1>6. SagaTypeOK'
  BY <1>1, <1>2, <1>3, <1>4, <1>5 DEF ControlInv, SagaTypeOK, kitchen, process, Running
<1>7. Only(p)
  BY <1>1, <1>2, <1>3 DEF ControlInv, SagaTypeOK, Only, kitchen
<1>8. Control(p)'
  BY <1>1, <1>2, <1>3 DEF ControlInv, SagaTypeOK, Control, kitchen, PastStock, WithJob
<1> QED
  BY <1>6, <1>7, <1>8, OnlyControl

\* A late call changes the stock, or not, and is late no more.
LEMMA LateControl ==
  ASSUME ControlInv, NEW p \in Placements, NEW op \in {"deduct", "restore"}, LateCall(p, op)
  PROVE  ControlInv'
<1>1. TypeOK'
  <2>1. CASE Deduct(Order(p))
    BY <2>1, OrderType, InventoryAssumption
    DEF ControlInv, SagaTypeOK, TypeOK, Deduct, Available
  <2>2. CASE Restore(Order(p))
    BY <2>2, InventoryAssumption DEF ControlInv, SagaTypeOK, TypeOK, Restore
  <2>3. CASE UNCHANGED inventory
    BY <2>3 DEF ControlInv, SagaTypeOK, TypeOK, inventory
  <2> QED
    BY <2>1, <2>2, <2>3 DEF LateCall
<1>2. late' = late \ {<<p, op>>} /\ UNCHANGED <<pc, loop, attempts, kitchen, log, process, lost>>
  BY DEF LateCall
<1>3. SagaTypeOK'
  BY <1>1, <1>2 DEF ControlInv, SagaTypeOK, kitchen, process
<1>4. Only(p)
  BY <1>2 DEF Only, kitchen
<1>5. Control(p)'
  BY <1>2 DEF ControlInv, Control, kitchen
<1> QED
  BY <1>3, <1>4, <1>5, OnlyControl

LEMMA KitchenControl ==
  ASSUME ControlInv, NEW p \in Placements, Kitchen(p)
  PROVE  ControlInv'
<1>1. PICK j \in {"waiting", "active", "completed", "failed"} : job' = [job EXCEPT ![p] = j]
  BY DEF Kitchen, Take, Cook, RecoverStalled
<1>2. /\ job[p] \notin {"none", "completed", "failed"}
      /\ UNCHANGED <<inventory, pc, loop, attempts, late, log, process, lost>>
  BY DEF Kitchen, Take, Cook, RecoverStalled
<1>3. stalls[p] <= MaxStalls
  BY <1>2 DEF ControlInv, Control
<1>4. /\ stalls' \in [Placements -> 0 .. MaxStalls + 1]
      /\ \A q \in Placements \ {p} : stalls'[q] = stalls[q]
      /\ j # "failed" => stalls'[p] <= MaxStalls
  <2>1. CASE UNCHANGED stalls
    BY <1>3, <2>1 DEF ControlInv, SagaTypeOK
  <2>2. CASE RecoverStalled(p)
    <3>1. MaxStalls \in Nat /\ stalls[p] \in Nat
      BY SagaAssumption DEF ControlInv, SagaTypeOK
    <3>2. stalls' = [stalls EXCEPT ![p] = @ + 1]
      BY <2>2 DEF RecoverStalled
    <3>3. stalls[p] < MaxStalls \/ j = "failed"
      BY <1>1, <2>2 DEF RecoverStalled, ControlInv, SagaTypeOK
    <3> QED
      BY <1>3, <3>1, <3>2, <3>3 DEF ControlInv, SagaTypeOK
  <2> QED
    BY <2>1, <2>2 DEF Kitchen, Take, Cook
<1>5. events' \subseteq Gateways \X Placements
  BY DEF Kitchen, Take, Cook, RecoverStalled, ControlInv, SagaTypeOK
<1>6. SagaTypeOK'
  BY <1>1, <1>2, <1>4, <1>5 DEF ControlInv, SagaTypeOK, process, inventory, TypeOK
<1>7. Only(p)
  BY <1>1, <1>2, <1>4 DEF Only, ControlInv, SagaTypeOK
<1>8. Control(p)'
  <2>1. job'[p] = j
    BY <1>1 DEF ControlInv, SagaTypeOK
  <2> QED
    BY <1>2, <1>4, <2>1 DEF ControlInv, Control
<1> QED
  BY <1>6, <1>7, <1>8, OnlyControl

LEMMA FinalizeControl ==
  ASSUME ControlInv, NEW g \in Gateways, NEW p \in Placements, Finalize(g, p)
  PROVE  ControlInv'
<1>1. UNCHANGED <<inventory, pc, loop, attempts, late, job, stalls, process>>
      /\ events' \subseteq events
  BY DEF Finalize
<1>2. log' \in [Orders -> Seq(Statuses)] /\ lost' \in 0 .. MaxLost
  BY LogTyped DEF Finalize, Statuses, ControlInv
<1>3. SagaTypeOK'
  BY <1>1, <1>2 DEF ControlInv, SagaTypeOK, inventory, process, TypeOK
<1>4. Only(p) /\ Control(p)'
  BY <1>1 DEF Only, ControlInv, Control
<1> QED
  BY <1>3, <1>4, OnlyControl

LEMMA CrashControl ==
  ASSUME ControlInv, KitchenCrash \/ \E g \in Gateways : GatewayCrash(g) \/ GatewayRestart(g)
  PROVE  ControlInv'
<1>1. CASE KitchenCrash
  <2>1. SagaTypeOK'
    <3>1. job' \in [Placements -> {"none", "waiting", "active", "stalled", "completed", "failed"}]
      BY <1>1 DEF KitchenCrash, ControlInv, SagaTypeOK
    <3>2. crashes' \in 0 .. MaxCrashes
      BY <1>1, SagaAssumption DEF KitchenCrash, ControlInv, SagaTypeOK
    <3>3. /\ UNCHANGED <<inventory, pc, loop, attempts, late, stalls, events, log, up, lost>>
          /\ TypeOK'
      BY <1>1 DEF KitchenCrash, ControlInv, SagaTypeOK, inventory, TypeOK
    <3> QED
      BY <3>1, <3>2, <3>3 DEF ControlInv, SagaTypeOK
  <2>2. \A p \in Placements : Control(p)'
    BY <1>1 DEF KitchenCrash, ControlInv, SagaTypeOK, Control
  <2> QED
    BY <2>1, <2>2 DEF ControlInv
<1>2. ASSUME NEW g \in Gateways, GatewayCrash(g) PROVE ControlInv'
  <2> DEFINE hit(p) == GatewayOf[p] = g
  <2>1. /\ pc' = [p \in Placements |-> IF hit(p) /\ pc[p] \in Running THEN "dead" ELSE pc[p]]
        /\ loop' = [p \in Placements |-> IF hit(p) THEN "over" ELSE loop[p]]
        /\ late' = late
             \union {<<p, "deduct">> : p \in {q \in Placements : hit(q) /\ loop[q] = "sent"}}
             \union {<<p, "restore">> : p \in {q \in Placements : hit(q) /\ pc[q] = "restoring"}}
    BY <1>2 DEF GatewayCrash
  <2>2. /\ up' \subseteq up /\ events' \subseteq events
        /\ crashes < MaxCrashes /\ crashes' = crashes + 1
        /\ UNCHANGED <<inventory, attempts, job, stalls, log, lost>>
    BY <1>2 DEF GatewayCrash
  <2>3. late' \subseteq Placements \X {"deduct", "restore"}
    BY <2>1 DEF ControlInv, SagaTypeOK
  <2>4. SagaTypeOK'
    <3>1. pc' \in [Placements -> {"idle", "dead"} \union Running \union Answers]
      BY <2>1 DEF ControlInv, SagaTypeOK
    <3>2. loop' \in [Placements -> {"off", "queued", "over"} \union InLoop]
      BY <2>1 DEF ControlInv, SagaTypeOK
    <3>3. crashes' \in 0 .. MaxCrashes
      BY <2>2, SagaAssumption DEF ControlInv, SagaTypeOK
    <3>4. TypeOK'
      BY <2>2 DEF ControlInv, SagaTypeOK, inventory, TypeOK
    <3> QED
      BY <2>2, <2>3, <3>1, <3>2, <3>3, <3>4 DEF ControlInv, SagaTypeOK
  <2>5. ASSUME NEW p \in Placements PROVE Control(p)'
    <3>1. Control(p) /\ pc[p] \in {"idle", "dead"} \union Running \union Answers
      BY DEF ControlInv, SagaTypeOK
    <3>2. /\ <<p, "deduct">> \in late' => <<p, "deduct">> \in late \/ (hit(p) /\ loop[p] = "sent")
          /\ <<p, "restore">> \in late' =>
               <<p, "restore">> \in late \/ (hit(p) /\ pc[p] = "restoring")
      BY <2>1
    <3>3. CASE ~hit(p)
      BY <2>1, <2>2, <3>1, <3>2, <3>3 DEF Control
    <3>4. CASE hit(p)
      <4>1. loop'[p] = "over" /\ pc'[p] = IF pc[p] \in Running THEN "dead" ELSE pc[p]
        BY <2>1, <3>4
      <4>2. pc[p] \in {"placed", "deducting", "failing"} => pc'[p] = "dead"
        BY <4>1 DEF Running
      <4>3. loop[p] = "sent" => pc[p] \in {"deducting", "failing", "rejected"}
        BY <3>1 DEF Control, Running, Answers, PastStock
      <4>4. pc[p] = "restoring" => job[p] = "none"
        BY <3>1 DEF Control, WithJob
      <4> QED
        BY <2>2, <3>1, <3>2, <4>1, <4>2, <4>3, <4>4
        DEF Control, Running, Answers, PastStock, WithJob
    <3> QED
      BY <3>3, <3>4
  <2> QED
    BY <2>4, <2>5 DEF ControlInv
<1>3. ASSUME NEW g \in Gateways, GatewayRestart(g) PROVE ControlInv'
  BY <1>3 DEF GatewayRestart, ControlInv, SagaTypeOK, Control, inventory, kitchen, TypeOK
<1> QED
  BY <1>1, <1>2, <1>3

LEMMA NextControl == ControlInv /\ [SagaNext]_saga => ControlInv'
<1> SUFFICES ASSUME ControlInv, [SagaNext]_saga PROVE ControlInv'
  OBVIOUS
<1>1. ASSUME NEW p \in Placements, Place(p) \/ Saga(p) PROVE ControlInv'
  BY <1>1, PlaceOrderControl, FireControl, LoopControl, SettleControl, QueueAddControl,
     RestoreControl DEF Saga
<1>2. ASSUME NEW p \in Placements, Stock(p) PROVE ControlInv'
  BY <1>2, LoopControl, RestoreControl, LateControl DEF Stock
<1>3. CASE UNCHANGED saga
  BY <1>3 DEF saga, ControlInv, SagaTypeOK, Control, TypeOK
<1> QED
  BY <1>1, <1>2, <1>3, KitchenControl, FinalizeControl, CrashControl DEF SagaNext

\* Type correctness of the saga, whatever keys the clients send: no deduction is
\* tried too often and no job is forgiven more stalls than it may have.
THEOREM SagaTypeCorrect == SagaSpec => []SagaTypeOK
<1>1. ControlInv => SagaTypeOK
  BY DEF ControlInv
<1> QED
  BY <1>1, InitControl, NextControl, PTL DEF SagaSpec

-----------------------------------------------------------------------------
(* Keys that are used once: what a saga is promised of the stock and of    *)
(* its log.                                                                *)

\* The other placements' part of what Ledger speaks of is as it was.
OnlyLedger(p) ==
  /\ lost' = 0 => lost = 0
  /\ \A q \in Placements \ {p} :
       /\ pc'[q] = pc[q] /\ loop'[q] = loop[q] /\ job'[q] = job[q]
       /\ <<q, "deduct">> \in late' <=> <<q, "deduct">> \in late
       /\ Order(q) \in deducted' <=> Order(q) \in deducted
       /\ \A st \in Statuses : Logged(Order(q), st)' <=> Logged(Order(q), st)
       /\ \A g \in Gateways : <<g, q>> \in events' => <<g, q>> \in events

LEMMA OnlyLedgerStep ==
  ASSUME SagaInv, NEW p \in Placements, OnlyLedger(p), ControlInv',
         Paid(p)', Told(p)', Compensated(p)'
  PROVE  SagaInv'
<1>1. ASSUME NEW q \in Placements, q # p PROVE Paid(q)' /\ Told(q)' /\ Compensated(q)'
  <2>1. Paid(q) /\ Told(q) /\ Compensated(q)
    BY DEF SagaInv
  <2>2. {"COMPLETED", "ROLLED_BACK", "MANUAL_INTERVENTION_REQUIRED"} \subseteq Statuses
    BY DEF Statuses
  <2>3. Paid(q)'
    BY <1>1, <2>1 DEF OnlyLedger, Paid
  <2>4. Told(q)'
    BY <1>1, <2>1, <2>2 DEF OnlyLedger, Told
  <2>5. Compensated(q)'
    BY <1>1, <2>1, <2>2 DEF OnlyLedger, Compensated
  <2> QED
    BY <2>3, <2>4, <2>5
<1> QED
  BY <1>1 DEF SagaInv, ControlInv

\* One placement's log entries are nobody else's, and neither is its stock.
LEMMA LogLocal ==
  ASSUME SagaTypeOK, UsedOnce, NEW p \in Placements,
         (\E st \in Statuses : LogEvent(Order(p), st)) \/ UNCHANGED <<log, lost>>
  PROVE  /\ lost' = 0 => lost = 0
         /\ \A q \in Placements \ {p}, st \in Statuses :
              Logged(Order(q), st)' <=> Logged(Order(q), st)
<1>1. CASE UNCHANGED <<log, lost>>
  BY <1>1 DEF Logged
<1>2. ASSUME NEW st \in Statuses, LogEvent(Order(p), st)
      PROVE  /\ lost' = 0 => lost = 0
             /\ \A q \in Placements \ {p}, s \in Statuses :
                  Logged(Order(q), s)' <=> Logged(Order(q), s)
  BY <1>2, LogEventEffect, OrderType DEF UsedOnce
<1> QED
  BY <1>1, <1>2

LEMMA StockLocal ==
  ASSUME UsedOnce, NEW p \in Placements,
         Deduct(Order(p)) \/ Restore(Order(p)) \/ UNCHANGED inventory
  PROVE  \A q \in Placements \ {p} : Order(q) \in deducted' <=> Order(q) \in deducted
BY DEF UsedOnce, Deduct, Restore, inventory

\* What the invariant says of one placement, and of its type.
LEMMA LedgerOf ==
  ASSUME SagaInv, NEW p \in Placements
  PROVE  /\ ControlInv /\ SagaTypeOK
         /\ Control(p) /\ Paid(p) /\ Told(p) /\ Compensated(p)
         /\ pc[p] \in {"idle", "dead"} \union Running \union Answers
BY DEF SagaInv, ControlInv, SagaTypeOK

LEMMA InitLedger == SagaInit => SagaInv
<1> SUFFICES ASSUME SagaInit PROVE SagaInv
  OBVIOUS
<1>1. \A o \in Orders, st \in Statuses : ~Logged(o, st)
  BY DEF SagaInit, Logged
<1>2. {"COMPLETED", "ROLLED_BACK", "MANUAL_INTERVENTION_REQUIRED"} \subseteq Statuses
  BY DEF Statuses
<1>3. ASSUME NEW p \in Placements PROVE Paid(p) /\ Told(p) /\ Compensated(p)
  BY <1>1, <1>2, OrderType DEF SagaInit, Paid, Told, Compensated, WithJob
<1> QED
  BY <1>3, InitControl DEF SagaInv, ControlInv

\* placeOrder goes on without a call to stock-service or the queue.
LEMMA PlaceOrderLedger ==
  ASSUME SagaInv, UsedOnce, NEW p \in Placements, ControlInv',
         \/ Place(p) \/ BreakerRejects(p) \/ BreakerTimesOut(p) \/ Reject(p)
         \/ KitchenQueued(p) \/ Accept(p) \/ Confirm(p) \/ QueueFails(p) \/ Compensate(p)
         \/ SendRestore(p) \/ RolledBack(p) \/ RestoreFails(p) \/ Busy(p)
  PROVE  SagaInv'
<1> DEFINE Edges ==
      {<<"idle", "placed", "PENDING">>, <<"placed", "failing", "FAILED">>,
       <<"deducting", "failing", "FAILED">>,
       <<"adding", "queued", "IN_KITCHEN">>, <<"queued", "accepted", "IN_KITCHEN">>,
       <<"deducted", "queueFailed", "FAILED">>,
       <<"queueFailed", "compensating", "COMPENSATING">>,
       <<"restoreOk", "rolledBack", "ROLLED_BACK">>,
       <<"restoreError", "manual", "MANUAL_INTERVENTION_REQUIRED">>}
<1> DEFINE Silent ==
      {<<"failing", "rejected">>, <<"accepted", "confirmed">>, <<"compensating", "restoring">>,
       <<"rolledBack", "busy">>, <<"manual", "busy">>}
<1>1. UNCHANGED <<inventory, loop, late, job, events>>
  BY DEF Place, BreakerRejects, BreakerTimesOut, Reject, KitchenQueued, Accept, Confirm,
         QueueFails, Compensate, SendRestore, RolledBack, RestoreFails, Busy, kitchen
<1>2. PICK to \in Running \union Answers, st \in Statuses :
        /\ pc' = [pc EXCEPT ![p] = to]
        /\ \/ <<pc[p], to, st>> \in Edges /\ LogEvent(Order(p), st)
           \/ <<pc[p], to>> \in Silent /\ UNCHANGED <<log, lost>>
  BY DEF Place, BreakerRejects, BreakerTimesOut, Reject, KitchenQueued, Accept, Confirm,
         QueueFails, Compensate, SendRestore, RolledBack, RestoreFails, Busy, Step,
         Running, Answers, Statuses
<1>3. OnlyLedger(p)
  BY <1>1, <1>2, LogLocal, LedgerOf DEF OnlyLedger, SagaTypeOK, inventory
<1>4. /\ pc'[p] = to /\ loop'[p] = loop[p] /\ job'[p] = job[p] /\ late' = late
      /\ deducted' = deducted /\ events' = events
  BY <1>1, <1>2, LedgerOf DEF SagaTypeOK, inventory
<1>5. CASE <<pc[p], to, st>> \in Edges /\ LogEvent(Order(p), st)
  <2>1. /\ \A s \in Statuses : Logged(Order(p), s)' => Logged(Order(p), s) \/ s = st
        /\ lost' = 0 => lost = 0 /\ Logged(Order(p), st)'
    BY <1>5, LogEventEffect, OrderType, LedgerOf
  <2>2. {"COMPLETED", "ROLLED_BACK", "MANUAL_INTERVENTION_REQUIRED"} \subseteq Statuses
    BY DEF Statuses
  <2>3. Paid(p)'
    BY <1>4, <1>5, LedgerOf DEF Paid, WithJob
  <2>4. Told(p)'
    BY <1>4, <1>5, <2>1, <2>2, LedgerOf DEF Told
  <2>5. Compensated(p)'
    BY <1>4, <1>5, <2>1, <2>2, LedgerOf DEF Compensated, Control
  <2> QED
    BY <1>3, <2>3, <2>4, <2>5, OnlyLedgerStep
<1>6. CASE <<pc[p], to>> \in Silent /\ UNCHANGED <<log, lost>>
  <2>1. \A s : Logged(Order(p), s)' <=> Logged(Order(p), s)
    BY <1>6 DEF Logged
  <2>2. Paid(p)'
    BY <1>4, <1>6, LedgerOf DEF Paid, WithJob
  <2>3. Told(p)'
    BY <1>4, <2>1, LedgerOf DEF Told
  <2>4. Compensated(p)'
    BY <1>4, <1>6, <2>1, LedgerOf DEF Compensated
  <2> QED
    BY <1>3, <2>2, <2>3, <2>4, OnlyLedgerStep
<1> QED
  BY <1>2, <1>5, <1>6

\* The loop goes on.  An acknowledgement means that the order is deducted, and no
\* deduction follows a rollback on record: the loop of that saga is over.
LEMMA LoopLedger ==
  ASSUME SagaInv, UsedOnce, NEW p \in Placements, ControlInv',
         \/ Fire(p) \/ StartLoop(p) \/ Retry(p) \/ Resend(p)
         \/ StockDeducts(p) \/ StockAnswers(p)
  PROVE  SagaInv'
<1>1. UNCHANGED <<late, job, events, log, lost>>
  BY DEF Fire, StartLoop, Retry, Resend, StockDeducts, StockAnswers, kitchen
<1>2. PICK l \in {"queued", "backoff", "sent", "gotOk", "gotConflict", "gotError"} :
        loop' = [loop EXCEPT ![p] = l]
  BY DEF Fire, StartLoop, Retry, Resend, StockDeducts, StockAnswers
<1>3. UNCHANGED inventory \/ (Deduct(Order(p)) /\ loop[p] = "sent")
  BY DEF Fire, StartLoop, Retry, Resend, StockDeducts, StockAnswers
<1>4. \/ pc' = pc /\ loop[p] \in {"queued"} \union InLoop
      \/ pc[p] = "placed" /\ pc' = [pc EXCEPT ![p] = "deducting"]
  BY DEF Fire, StartLoop, Retry, Resend, StockDeducts, StockAnswers, Step, InLoop
<1>5. l = "gotOk" => Order(p) \in deducted'
  <2>1. loop'[p] = l
    BY <1>2, LedgerOf DEF SagaTypeOK
  <2>2. CASE StockDeducts(p)
    BY <2>2 DEF StockDeducts, Deduct
  <2>3. CASE StockAnswers(p)
    BY <2>1, <2>3, LedgerOf DEF StockAnswers, inventory, SagaTypeOK
  <2>4. CASE Fire(p) \/ StartLoop(p) \/ Retry(p) \/ Resend(p)
    BY <2>1, <2>4, LedgerOf DEF Fire, StartLoop, Retry, Resend, SagaTypeOK
  <2> QED
    BY <2>2, <2>3, <2>4
<1>6. \A st : \A q \in Placements : Logged(Order(q), st)' <=> Logged(Order(q), st)
  BY <1>1 DEF Logged
<1>7. OnlyLedger(p)
  BY <1>1, <1>2, <1>3, <1>4, <1>6, StockLocal, LedgerOf DEF OnlyLedger, SagaTypeOK
<1>8. /\ loop'[p] = l /\ job'[p] = job[p]
      /\ pc'[p] = pc[p] \/ pc'[p] = "deducting"
  BY <1>1, <1>2, <1>4, LedgerOf DEF SagaTypeOK
<1>9. pc'[p] \notin {"rolledBack", "busy", "dead", "manual", "restoreOk"}
      /\ pc[p] \notin {"rolledBack", "busy", "dead"}
  BY <1>4, LedgerOf DEF Control, InLoop, PastStock, SagaTypeOK
<1>10. Order(p) \in deducted => Order(p) \in deducted'
  BY <1>3 DEF Deduct, inventory
<1>11. Paid(p)'
  BY <1>5, <1>8, <1>10, LedgerOf DEF Paid, WithJob
<1>12. Told(p)'
  BY <1>1, <1>6, <1>8, LedgerOf DEF Told
<1>13. Compensated(p)'
  BY <1>6, <1>9, LedgerOf DEF Compensated
<1> QED
  BY <1>7, <1>11, <1>12, <1>13, OnlyLedgerStep

LEMMA SettleLedger ==
  ASSUME SagaInv, UsedOnce, NEW p \in Placements, ControlInv',
         DeductionSucceeds(p) \/ DeductionFails(p) \/ DeductTimesOut(p)
  PROVE  SagaInv'
<1>1. /\ loop[p] \in InLoop
      /\ loop' = [loop EXCEPT ![p] = "over"]
      /\ UNCHANGED <<inventory, job, events>>
  BY DEF DeductionSucceeds, DeductionFails, DeductTimesOut, Settle, InLoop, kitchen
<1>2. \/ pc[p] = "deducting" /\ pc' = [pc EXCEPT ![p] = "failing"]
      \/ /\ pc[p] = "deducting" /\ pc' = [pc EXCEPT ![p] = "deducted"]
         /\ loop[p] = "gotOk"
      \/ pc[p] # "deducting" /\ pc' = pc
  BY DEF DeductionSucceeds, DeductionFails, DeductTimesOut, Settle, Step
<1>3. late' = late \/ late' = late \union {<<p, "deduct">>}
  BY DEF DeductionSucceeds, DeductionFails, DeductTimesOut
<1>4. (\E st \in {"VERIFIED", "FAILED"} : LogEvent(Order(p), st)) \/ UNCHANGED <<log, lost>>
  BY DEF DeductionSucceeds, DeductionFails, DeductTimesOut, Settle
<1>5. {"VERIFIED", "FAILED", "COMPLETED", "ROLLED_BACK", "MANUAL_INTERVENTION_REQUIRED"}
        \subseteq Statuses
  BY DEF Statuses
<1>6. \A s \in {"COMPLETED", "ROLLED_BACK"} : Logged(Order(p), s)' => Logged(Order(p), s)
  <2>1. CASE UNCHANGED <<log, lost>>
    BY <2>1 DEF Logged
  <2>2. ASSUME NEW st \in {"VERIFIED", "FAILED"}, LogEvent(Order(p), st)
        PROVE  \A s \in {"COMPLETED", "ROLLED_BACK"} : Logged(Order(p), s)' => Logged(Order(p), s)
    BY <1>5, <2>2, LogEventEffect, OrderType, LedgerOf
  <2> QED
    BY <1>4, <2>1, <2>2
<1>7. OnlyLedger(p)
  <2>1. /\ lost' = 0 => lost = 0
        /\ \A q \in Placements \ {p}, st \in Statuses :
             Logged(Order(q), st)' <=> Logged(Order(q), st)
    BY <1>4, <1>5, LogLocal, LedgerOf
  <2> QED
    BY <1>1, <1>2, <1>3, <2>1, LedgerOf DEF OnlyLedger, SagaTypeOK, inventory
<1>8. loop'[p] = "over" /\ job'[p] = job[p] /\ deducted' = deducted /\ events' = events
  BY <1>1, LedgerOf DEF SagaTypeOK, inventory
<1>9. /\ pc[p] \notin {"rolledBack", "busy", "dead"}
      /\ pc'[p] \notin {"rolledBack", "busy", "dead", "manual", "restoreOk"}
      /\ pc'[p] = "deducted" => loop[p] = "gotOk"
      /\ pc'[p] \notin {"adding", "queued", "accepted", "confirmed"}
  BY <1>1, <1>2, LedgerOf DEF Control, InLoop, PastStock, SagaTypeOK
<1>10. Paid(p)'
  BY <1>8, <1>9, LedgerOf DEF Paid, WithJob
<1>11. Told(p)'
  BY <1>6, <1>8, LedgerOf DEF Told
<1>12. Compensated(p)'
  BY <1>6, <1>9, LedgerOf DEF Compensated
<1> QED
  BY <1>7, <1>10, <1>11, <1>12, OnlyLedgerStep

\* The job is added for an order that is deducted.
LEMMA QueueAddLedger ==
  ASSUME SagaInv, UsedOnce, NEW p \in Placements, ControlInv', QueueAdd(p)
  PROVE  SagaInv'
<1>1. /\ pc[p] = "deducted" /\ pc' = [pc EXCEPT ![p] = "adding"]
      /\ job' = [job EXCEPT ![p] = "waiting"]
      /\ UNCHANGED <<inventory, loop, late, events, log, lost>>
  BY DEF QueueAdd, Step
<1>2. /\ pc'[p] = "adding" /\ job'[p] = "waiting" /\ loop' = loop /\ deducted' = deducted
      /\ events' = events
      /\ \A q \in Placements \ {p} : pc'[q] = pc[q] /\ job'[q] = job[q]
  BY <1>1, LedgerOf DEF SagaTypeOK, inventory
<1>3. \A st : \A q \in Placements : Logged(Order(q), st)' <=> Logged(Order(q), st)
  BY <1>1 DEF Logged
<1>4. job[p] = "none" /\ Order(p) \in deducted
  BY <1>1, LedgerOf DEF Control, Paid, WithJob
<1>5. OnlyLedger(p)
  BY <1>1, <1>2, <1>3 DEF OnlyLedger
<1>6. Paid(p)' /\ Told(p)' /\ Compensated(p)'
  BY <1>1, <1>2, <1>3, <1>4, LedgerOf DEF Paid, Told, Compensated
<1> QED
  BY <1>5, <1>6, OnlyLedgerStep

\* The compensation takes the portions of an order the kitchen never had.
LEMMA RestoreLedger ==
  ASSUME SagaInv, UsedOnce, NEW p \in Placements, ControlInv',
         StockRestores(p) \/ StockKeeps(p) \/ RestoreTimesOut(p)
  PROVE  SagaInv'
<1>1. PICK to \in {"restoreOk", "restoreError", "manual"} :
        pc[p] = "restoring" /\ pc' = [pc EXCEPT ![p] = to]
  BY DEF StockRestores, StockKeeps, RestoreTimesOut, Step
<1>2. pc'[p] = to /\ UNCHANGED <<loop, job, events>>
  BY <1>1, LedgerOf DEF StockRestores, StockKeeps, RestoreTimesOut, kitchen, SagaTypeOK
<1>3. UNCHANGED inventory \/ Restore(Order(p))
  BY DEF StockRestores, StockKeeps, RestoreTimesOut
<1>4. <<p, "deduct">> \in late' <=> <<p, "deduct">> \in late
  BY DEF StockRestores, StockKeeps, RestoreTimesOut
<1>5. (LogEvent(Order(p), "MANUAL_INTERVENTION_REQUIRED") /\ to = "manual")
      \/ (UNCHANGED <<log, lost>> /\ to # "manual")
  BY <1>1, <1>2, LedgerOf DEF StockRestores, StockKeeps, RestoreTimesOut, Step, SagaTypeOK
<1>6. {"COMPLETED", "ROLLED_BACK", "MANUAL_INTERVENTION_REQUIRED"} \subseteq Statuses
  BY DEF Statuses
<1>7. /\ \A s \in {"COMPLETED", "ROLLED_BACK"} : Logged(Order(p), s)' => Logged(Order(p), s)
      /\ (to = "manual" /\ lost' = 0) => Logged(Order(p), "MANUAL_INTERVENTION_REQUIRED")'
  <2>1. CASE UNCHANGED <<log, lost>> /\ to # "manual"
    BY <2>1 DEF Logged
  <2>2. CASE LogEvent(Order(p), "MANUAL_INTERVENTION_REQUIRED")
    BY <1>6, <2>2, LogEventEffect, OrderType, LedgerOf
  <2> QED
    BY <1>5, <2>1, <2>2
<1>8. to = "restoreOk" => Order(p) \notin deducted'
  BY <1>1, <1>2, LedgerOf
  DEF StockRestores, StockKeeps, RestoreTimesOut, Step, Restore, inventory, SagaTypeOK
<1>9. OnlyLedger(p)
  <2>1. /\ lost' = 0 => lost = 0
        /\ \A q \in Placements \ {p}, st \in Statuses :
             Logged(Order(q), st)' <=> Logged(Order(q), st)
    BY <1>5, <1>6, LogLocal, LedgerOf
  <2>2. \A q \in Placements \ {p} : <<q, "deduct">> \in late' <=> <<q, "deduct">> \in late
    BY DEF StockRestores, StockKeeps, RestoreTimesOut
  <2> QED
    BY <1>1, <1>2, <1>3, <2>1, <2>2, StockLocal, LedgerOf DEF OnlyLedger, SagaTypeOK
<1>10. loop'[p] # "gotOk" /\ job'[p] = "none"
  BY <1>1, <1>2, LedgerOf DEF Control, PastStock, WithJob
<1>11. Paid(p)'
  BY <1>2, <1>10 DEF Paid, WithJob
<1>12. Told(p)'
  BY <1>2, <1>7, LedgerOf DEF Told
<1>13. Compensated(p)'
  BY <1>1, <1>2, <1>7, <1>8, LedgerOf DEF Compensated
<1> QED
  BY <1>9, <1>11, <1>12, <1>13, OnlyLedgerStep

\* A late deduction belongs to a saga that is refused or dead and has no rollback on
\* record; a late restore to one the kitchen never had.
LEMMA LateLedger ==
  ASSUME SagaInv, UsedOnce, NEW p \in Placements, NEW op \in {"deduct", "restore"},
         ControlInv', LateCall(p, op)
  PROVE  SagaInv'
<1>1. /\ <<p, op>> \in late /\ late' = late \ {<<p, op>>}
      /\ UNCHANGED <<pc, loop, job, events, log, lost>>
      /\ \/ op = "deduct" /\ Deduct(Order(p))
         \/ op = "restore" /\ Restore(Order(p))
         \/ UNCHANGED inventory
  BY DEF LateCall, kitchen
<1>2. \A st : \A q \in Placements : Logged(Order(q), st)' <=> Logged(Order(q), st)
  BY <1>1 DEF Logged
<1>3. OnlyLedger(p)
  BY <1>1, <1>2, StockLocal DEF OnlyLedger
<1>4. Paid(p)'
  <2>1. CASE op = "deduct"
    BY <1>1, <2>1, LedgerOf DEF Paid, Deduct, inventory
  <2>2. CASE op = "restore"
    BY <1>1, <2>2, LedgerOf DEF Paid, Control, PastStock, WithJob
  <2> QED
    BY <2>1, <2>2
<1>5. Told(p)'
  BY <1>1, <1>2, LedgerOf DEF Told
<1>6. Compensated(p)'
  <2>1. CASE op = "deduct"
    <3>1. pc[p] \in {"failing", "rejected", "dead"} /\ ~Logged(Order(p), "ROLLED_BACK")
      BY <1>1, <2>1, LedgerOf DEF Control, Compensated
    <3> QED
      BY <1>1, <1>2, <3>1 DEF Compensated
  <2>2. CASE op = "restore"
    <3>1. Order(p) \notin deducted => Order(p) \notin deducted'
      BY <1>1, <2>2 DEF Restore, inventory
    <3> QED
      BY <1>1, <1>2, <3>1, LedgerOf DEF Compensated
  <2> QED
    BY <2>1, <2>2
<1> QED
  BY <1>3, <1>4, <1>5, <1>6, OnlyLedgerStep

LEMMA KitchenLedger ==
  ASSUME SagaInv, UsedOnce, NEW p \in Placements, ControlInv', Kitchen(p)
  PROVE  SagaInv'
<1>1. PICK j \in {"waiting", "active", "completed", "failed"} : job' = [job EXCEPT ![p] = j]
  BY DEF Kitchen, Take, Cook, RecoverStalled
<1>2. /\ job[p] \notin {"none", "completed"}
      /\ UNCHANGED <<inventory, pc, loop, late, log, lost>>
  BY DEF Kitchen, Take, Cook, RecoverStalled
<1>3. events' = events \/ (events' = events \union (up \X {p}) /\ j = "completed")
  BY <1>1, LedgerOf DEF Kitchen, Take, Cook, RecoverStalled, SagaTypeOK
<1>4. \A st : \A q \in Placements : Logged(Order(q), st)' <=> Logged(Order(q), st)
  BY <1>2 DEF Logged
<1>5. job'[p] = j /\ deducted' = deducted
  BY <1>1, <1>2, LedgerOf DEF SagaTypeOK, inventory
<1>6. OnlyLedger(p)
  BY <1>1, <1>2, <1>3, <1>4, <1>5, LedgerOf DEF OnlyLedger, SagaTypeOK
<1>7. Paid(p)'
  BY <1>2, <1>5, LedgerOf DEF Paid
<1>8. Told(p)'
  BY <1>2, <1>3, <1>4, <1>5, LedgerOf DEF Told
<1>9. Compensated(p)'
  BY <1>2, <1>4, <1>5, LedgerOf DEF Compensated
<1> QED
  BY <1>6, <1>7, <1>8, <1>9, OnlyLedgerStep

LEMMA FinalizeLedger ==
  ASSUME SagaInv, UsedOnce, NEW g \in Gateways, NEW p \in Placements, ControlInv',
         Finalize(g, p)
  PROVE  SagaInv'
<1>1. /\ <<g, p>> \in events /\ events' = events \ {<<g, p>>}
      /\ LogEvent(Order(p), "COMPLETED")
      /\ UNCHANGED <<inventory, pc, loop, late, job>>
  BY DEF Finalize
<1>2. {"COMPLETED", "ROLLED_BACK", "MANUAL_INTERVENTION_REQUIRED"} \subseteq Statuses
  BY DEF Statuses
<1>3. /\ \A s \in Statuses : Logged(Order(p), s) => Logged(Order(p), s)'
      /\ Logged(Order(p), "ROLLED_BACK")' => Logged(Order(p), "ROLLED_BACK")
      /\ lost' = 0 => lost = 0
  BY <1>1, <1>2, LogEventEffect, OrderType, LedgerOf
<1>4. OnlyLedger(p)
  BY <1>1, <1>2, LogLocal, LedgerOf DEF OnlyLedger, inventory
<1>5. job[p] = "completed"
  BY <1>1, LedgerOf DEF Told
<1>6. Paid(p)' /\ Told(p)'
  BY <1>1, <1>5, LedgerOf DEF Paid, Told, inventory
<1>7. Compensated(p)'
  BY <1>1, <1>2, <1>3, LedgerOf DEF Compensated, inventory
<1> QED
  BY <1>4, <1>6, <1>7, OnlyLedgerStep

LEMMA CrashLedger ==
  ASSUME SagaInv, ControlInv',
         KitchenCrash \/ \E g \in Gateways : GatewayCrash(g) \/ GatewayRestart(g)
  PROVE  SagaInv'
<1>1. /\ UNCHANGED <<inventory, log, lost>> /\ events' \subseteq events
      /\ \A p \in Placements :
           /\ pc'[p] = pc[p] \/ pc'[p] = "dead"
           /\ loop'[p] = loop[p] \/ loop'[p] = "over"
           /\ job'[p] = job[p] \/ (job[p] = "active" /\ job'[p] = "stalled")
  BY LedgerOf DEF KitchenCrash, GatewayCrash, GatewayRestart, kitchen
<1>2. ASSUME NEW p \in Placements, loop[p] # "sent"
      PROVE  <<p, "deduct">> \in late' => <<p, "deduct">> \in late
  BY <1>2 DEF KitchenCrash, GatewayCrash, GatewayRestart
<1>3. ASSUME NEW p \in Placements PROVE Paid(p)' /\ Told(p)' /\ Compensated(p)'
  <2>1. \A st : Logged(Order(p), st)' <=> Logged(Order(p), st)
    BY <1>1 DEF Logged
  <2>2. /\ pc'[p] = pc[p] \/ pc'[p] = "dead"
        /\ loop'[p] = loop[p] \/ loop'[p] = "over"
        /\ job'[p] = job[p] \/ (job[p] = "active" /\ job'[p] = "stalled")
        /\ deducted' = deducted
    BY <1>1 DEF inventory
  <2>3. Paid(p)'
    BY <2>2, LedgerOf DEF Paid, WithJob
  <2>4. Told(p)'
    BY <1>1, <2>1, <2>2, LedgerOf DEF Told
  <2>5. Logged(Order(p), "ROLLED_BACK") => loop[p] # "sent"
    BY LedgerOf DEF Control, Compensated, PastStock
  <2>6. Compensated(p)'
    BY <1>1, <1>2, <2>1, <2>2, <2>5, LedgerOf DEF Compensated
  <2> QED
    BY <2>3, <2>4, <2>6
<1> QED
  BY <1>3 DEF SagaInv, ControlInv

LEMMA NextLedger ==
  ASSUME UsedOnce
  PROVE  SagaInv /\ [SagaNext]_saga => SagaInv'
<1> SUFFICES ASSUME SagaInv, [SagaNext]_saga PROVE SagaInv'
  OBVIOUS
<1>1. ControlInv'
  BY NextControl DEF SagaInv, ControlInv
<1>2. ASSUME NEW p \in Placements, Place(p) \/ Saga(p) PROVE SagaInv'
  BY <1>1, <1>2, PlaceOrderLedger, LoopLedger, SettleLedger, QueueAddLedger, RestoreLedger
  DEF Saga
<1>3. ASSUME NEW p \in Placements, Stock(p) PROVE SagaInv'
  BY <1>1, <1>3, LoopLedger, RestoreLedger, LateLedger DEF Stock
<1>4. CASE UNCHANGED saga
  BY <1>1, <1>4 DEF saga, SagaInv, ControlInv, Paid, Told, Compensated, Logged
<1> QED
  BY <1>1, <1>2, <1>3, <1>4, KitchenLedger, FinalizeLedger, CrashLedger DEF SagaNext

\* For keys that are used once: who may still change a saga's stock, and what its
\* log promises of it, through every crash, timeout and late call.
THEOREM SagaSafety ==
  ASSUME UsedOnce
  PROVE  SagaSpec => []SagaInv
BY InitLedger, NextLedger, PTL DEF SagaSpec

\* With keys that are used once no timeout, crash or compensation takes back the
\* stock of an order the kitchen has, and none is confirmed or completed without.
THEOREM SagaCookedIsPaid ==
  ASSUME UsedOnce
  PROVE  SagaSpec => []CookedIsPaid
<1>1. SagaInv => CookedIsPaid
  <2> SUFFICES ASSUME SagaInv, NEW p \in Placements,
                      job[p] # "none" \/ pc[p] = "confirmed" \/ Logged(Order(p), "COMPLETED")
               PROVE  Order(p) \in deducted
    BY DEF CookedIsPaid
  <2> QED
    BY LedgerOf DEF Paid, Told, WithJob
<1> QED
  BY <1>1, SagaSafety, PTL

\* With keys that are used once the event log tells the truth of compensations.
THEOREM SagaCompensationRecorded ==
  ASSUME UsedOnce
  PROVE  SagaSpec => []CompensationRecorded
<1>1. SagaInv => CompensationRecorded
  BY LedgerOf DEF CompensationRecorded, Compensated
<1> QED
  BY <1>1, SagaSafety, PTL

-----------------------------------------------------------------------------
(* What the log says of an order that holds portions and has no job.       *)

\* A saga that has begun is on record, and the kitchen is on record only with a job.
OnRecord(p) ==
  /\ pc[p] = "idle" => Order(p) \notin deducted
  /\ (lost = 0 /\ pc[p] # "idle") => Logged(Order(p), "PENDING")
  /\ pc[p] \in {"adding", "queued", "accepted"} => job[p] # "none"
  /\ job[p] = "none" => ~Logged(Order(p), "IN_KITCHEN")

RecordInv == SagaInv /\ \A p \in Placements : OnRecord(p)

\* Jobs stay, sagas begin with Place, and reach the kitchen's steps with a job.
StepsOnward ==
  \A p \in Placements :
    /\ job'[p] = "none" => job[p] = "none"
    /\ pc'[p] = "idle" => pc[p] = "idle"
    /\ pc[p] = "idle" /\ pc'[p] # "idle" => Place(p)
    /\ pc'[p] \in {"adding", "queued", "accepted"} =>
         pc[p] \in {"adding", "queued", "accepted"} \/ job'[p] # "none"

\* One event at a time, and the kitchen's only from sagas that have reached it.
LogsOne ==
  \/ UNCHANGED <<log, lost>>
  \/ \E p \in Placements, st \in Statuses :
       /\ LogEvent(Order(p), st)
       /\ st = "IN_KITCHEN" => pc[p] \in {"adding", "queued"}

\* Portions are taken only for placements that have begun.
DeductsBegun ==
  \A o \in Orders :
    o \in deducted' /\ o \notin deducted => \E p \in Placements : Order(p) = o /\ pc[p] # "idle"

\* The two that move a saga on without its knowing move nothing back.
LEMMA SameOnward ==
  ASSUME UNCHANGED pc, \A p \in Placements : job'[p] = "none" => job[p] = "none"
  PROVE  StepsOnward
BY DEF StepsOnward

LEMMA PlacementOnward ==
  ASSUME ControlInv, NEW p \in Placements, Place(p) \/ Saga(p)
  PROVE  StepsOnward
<1>t. pc \in [Placements -> {"idle", "dead"} \union Running \union Answers]
      /\ job \in [Placements -> {"none", "waiting", "active", "stalled", "completed", "failed"}]
  BY DEF ControlInv, SagaTypeOK
<1>1. ASSUME NEW from, NEW to, Step(p, from, to), from # "idle", to # "idle", job' = job,
             to \in {"adding", "queued", "accepted"} => from \in {"adding", "queued", "accepted"}
      PROVE  StepsOnward
  BY <1>t, <1>1 DEF Step, StepsOnward
<1>2. ASSUME UNCHANGED <<pc, job>> PROVE StepsOnward
  BY <1>2, SameOnward
<1>3. CASE Place(p)
  BY <1>t, <1>3 DEF Place, Step, StepsOnward, kitchen
<1>4. CASE Fire(p) \/ BreakerRejects(p) \/ BreakerTimesOut(p) \/ Reject(p)
  BY <1>1, <1>4 DEF Fire, BreakerRejects, BreakerTimesOut, Reject, kitchen
<1>5. CASE StartLoop(p) \/ Retry(p) \/ Resend(p)
  BY <1>2, <1>5 DEF StartLoop, Retry, Resend, kitchen
<1>6. CASE DeductionSucceeds(p) \/ DeductionFails(p) \/ DeductTimesOut(p)
  BY <1>1, <1>2, <1>6 DEF DeductionSucceeds, DeductionFails, DeductTimesOut, Settle, kitchen
<1>7. CASE QueueAdd(p)
  BY <1>t, <1>7 DEF QueueAdd, Step, StepsOnward
<1>8. CASE KitchenQueued(p) \/ Accept(p) \/ Confirm(p) \/ QueueFails(p)
  BY <1>1, <1>8 DEF KitchenQueued, Accept, Confirm, QueueFails, kitchen
<1>9. CASE Compensate(p) \/ SendRestore(p) \/ RolledBack(p) \/ RestoreFails(p) \/ RestoreTimesOut(p)
  BY <1>1, <1>9 DEF Compensate, SendRestore, RolledBack, RestoreFails, RestoreTimesOut, kitchen
<1>10. CASE Busy(p)
  BY <1>t, <1>10 DEF Busy, StepsOnward, kitchen
<1> QED
  BY <1>3, <1>4, <1>5, <1>6, <1>7, <1>8, <1>9, <1>10 DEF Saga

LEMMA OtherOnward ==
  ASSUME ControlInv,
         \/ \E p \in Placements : Stock(p) \/ Kitchen(p)
         \/ \E g \in Gateways, p \in Placements : Finalize(g, p)
         \/ \E g \in Gateways : GatewayCrash(g) \/ GatewayRestart(g)
         \/ KitchenCrash \/ UNCHANGED saga
  PROVE  StepsOnward
<1>t. pc \in [Placements -> {"idle", "dead"} \union Running \union Answers]
      /\ job \in [Placements -> {"none", "waiting", "active", "stalled", "completed", "failed"}]
  BY DEF ControlInv, SagaTypeOK
<1>1. ASSUME NEW p \in Placements, StockDeducts(p) \/ StockAnswers(p) \/ \E op \in {"deduct", "restore"} : LateCall(p, op)
      PROVE  StepsOnward
  BY <1>1, SameOnward DEF StockDeducts, StockAnswers, LateCall, kitchen
<1>2. ASSUME NEW p \in Placements, StockRestores(p) \/ StockKeeps(p)
      PROVE  StepsOnward
  <2>1. job' = job /\ \E to \in {"restoreOk", "restoreError"} : Step(p, "restoring", to)
    BY <1>2 DEF StockRestores, StockKeeps, kitchen
  <2> QED
    BY <1>t, <2>1 DEF Step, StepsOnward
<1>3. ASSUME NEW p \in Placements, Kitchen(p) PROVE StepsOnward
  BY <1>t, <1>3, SameOnward DEF Kitchen, Take, Cook, RecoverStalled
<1>4. ASSUME NEW g \in Gateways, NEW p \in Placements, Finalize(g, p) PROVE StepsOnward
  BY <1>4, SameOnward DEF Finalize
<1>5. ASSUME NEW g \in Gateways, GatewayCrash(g) PROVE StepsOnward
  <2>1. job' = job /\ \A p \in Placements : pc'[p] = pc[p] \/ (pc'[p] = "dead" /\ pc[p] \in Running)
    BY <1>5 DEF GatewayCrash
  <2> QED
    BY <2>1 DEF StepsOnward, Running
<1>6. CASE KitchenCrash
  BY <1>6, SameOnward DEF KitchenCrash
<1>7. ASSUME NEW g \in Gateways, GatewayRestart(g) PROVE StepsOnward
  BY <1>7, SameOnward DEF GatewayRestart, kitchen
<1>8. CASE UNCHANGED saga
  BY <1>8, SameOnward DEF saga
<1> QED
  BY <1>1, <1>2, <1>3, <1>4, <1>5, <1>6, <1>7, <1>8 DEF Stock

LEMMA StepLogsOne == ControlInv /\ [SagaNext]_saga => LogsOne
<1> SUFFICES ASSUME ControlInv, [SagaNext]_saga PROVE LogsOne
  OBVIOUS
<1>1. ASSUME NEW p \in Placements, NEW st \in Statuses \ {"IN_KITCHEN"}, LogEvent(Order(p), st)
      PROVE  LogsOne
  BY <1>1 DEF LogsOne
<1>2. ASSUME UNCHANGED <<log, lost>> PROVE LogsOne
  BY <1>2 DEF LogsOne
<1>3. {"PENDING", "VERIFIED", "FAILED", "COMPENSATING", "ROLLED_BACK", "MANUAL_INTERVENTION_REQUIRED",
       "COMPLETED"} \subseteq Statuses \ {"IN_KITCHEN"}
  BY DEF Statuses
<1>4. ASSUME NEW p \in Placements, Place(p) \/ BreakerRejects(p) \/ BreakerTimesOut(p) \/ QueueFails(p)
             \/ Compensate(p) \/ RolledBack(p) \/ RestoreFails(p) \/ RestoreTimesOut(p)
      PROVE  LogsOne
  BY <1>1, <1>3, <1>4 DEF Place, BreakerRejects, BreakerTimesOut, QueueFails, Compensate, RolledBack,
     RestoreFails, RestoreTimesOut
<1>5. ASSUME NEW p \in Placements, DeductionSucceeds(p) \/ DeductionFails(p) \/ DeductTimesOut(p)
      PROVE  LogsOne
  BY <1>1, <1>2, <1>3, <1>5 DEF DeductionSucceeds, DeductionFails, DeductTimesOut, Settle
<1>6. ASSUME NEW p \in Placements, KitchenQueued(p) \/ Accept(p) PROVE LogsOne
  <2>1. LogEvent(Order(p), "IN_KITCHEN") /\ pc[p] \in {"adding", "queued"}
    BY <1>6 DEF KitchenQueued, Accept, Step
  <2> QED
    BY <2>1 DEF LogsOne, Statuses
<1>7. ASSUME NEW p \in Placements, Fire(p) \/ Reject(p) \/ StartLoop(p) \/ Retry(p) \/ Resend(p)
             \/ QueueAdd(p) \/ Confirm(p) \/ SendRestore(p) \/ Busy(p) \/ Stock(p) \/ Kitchen(p)
      PROVE  LogsOne
  BY <1>2, <1>7 DEF Fire, Reject, StartLoop, Retry, Resend, QueueAdd, Confirm, SendRestore, Busy,
     Stock, StockDeducts, StockAnswers, StockRestores, StockKeeps, LateCall, Kitchen, Take, Cook,
     RecoverStalled
<1>8. ASSUME NEW g \in Gateways, NEW p \in Placements, Finalize(g, p) PROVE LogsOne
  BY <1>1, <1>3, <1>8 DEF Finalize
<1>9. ASSUME NEW g \in Gateways, GatewayCrash(g) \/ GatewayRestart(g) PROVE LogsOne
  BY <1>2, <1>9 DEF GatewayCrash, GatewayRestart
<1>10. CASE KitchenCrash \/ UNCHANGED saga
  BY <1>2, <1>10 DEF KitchenCrash, saga
<1>11. ASSUME NEW p \in Placements, Saga(p) PROVE LogsOne
  BY <1>4, <1>5, <1>6, <1>7, <1>11 DEF Saga
<1> QED
  BY <1>4, <1>7, <1>8, <1>9, <1>10, <1>11 DEF SagaNext

LEMMA StepDeductsBegun == ControlInv /\ [SagaNext]_saga => DeductsBegun
<1> SUFFICES ASSUME ControlInv, [SagaNext]_saga PROVE DeductsBegun
  OBVIOUS
<1>1. ASSUME deducted' = deducted PROVE DeductsBegun
  BY <1>1 DEF DeductsBegun
<1>2. ASSUME NEW p \in Placements, Deduct(Order(p)), pc[p] # "idle" PROVE DeductsBegun
  BY <1>2 DEF Deduct, DeductsBegun
<1>3. ASSUME NEW p \in Placements, Restore(Order(p)) PROVE DeductsBegun
  BY <1>3 DEF Restore, DeductsBegun
<1>4. ASSUME NEW p \in Placements, Stock(p) PROVE DeductsBegun
  <2>1. Control(p)
    BY DEF ControlInv
  <2>2. CASE StockDeducts(p)
    <3>1. Deduct(Order(p)) /\ loop[p] = "sent"
      BY <2>2 DEF StockDeducts
    <3> QED
      BY <1>2, <2>1, <3>1 DEF Control
  <2>3. ASSUME NEW op \in {"deduct", "restore"}, LateCall(p, op) PROVE DeductsBegun
    <3>1. <<p, op>> \in late /\ (UNCHANGED inventory \/ Restore(Order(p)) \/ (op = "deduct" /\ Deduct(Order(p))))
      BY <2>3 DEF LateCall
    <3> QED
      BY <1>1, <1>2, <1>3, <2>1, <3>1 DEF Control, inventory
  <2>4. CASE StockAnswers(p) \/ StockKeeps(p)
    BY <1>1, <2>4 DEF StockAnswers, StockKeeps, inventory
  <2>5. CASE StockRestores(p)
    BY <1>3, <2>5 DEF StockRestores
  <2> QED
    BY <1>4, <2>2, <2>3, <2>4, <2>5 DEF Stock
<1>5. ASSUME NEW p \in Placements, Place(p) \/ Saga(p) PROVE deducted' = deducted
  BY <1>5 DEF Place, Saga, Fire, BreakerRejects, BreakerTimesOut, Reject, StartLoop, Retry, Resend,
     DeductionSucceeds, DeductionFails, DeductTimesOut, QueueAdd, KitchenQueued, Accept, Confirm,
     QueueFails, Compensate, SendRestore, RolledBack, RestoreFails, RestoreTimesOut, Busy, inventory
<1>6. ASSUME NEW p \in Placements, Kitchen(p) PROVE deducted' = deducted
  BY <1>6 DEF Kitchen, Take, Cook, RecoverStalled, inventory
<1>7. ASSUME NEW g \in Gateways, \/ GatewayCrash(g) \/ GatewayRestart(g)
                                 \/ \E p \in Placements : Finalize(g, p)
      PROVE  deducted' = deducted
  BY <1>7 DEF GatewayCrash, GatewayRestart, Finalize, inventory
<1>8. CASE KitchenCrash \/ UNCHANGED saga
  BY <1>1, <1>8 DEF KitchenCrash, saga, inventory
<1> QED
  BY <1>1, <1>4, <1>5, <1>6, <1>7, <1>8 DEF SagaNext

LEMMA InitRecord == ASSUME UsedOnce PROVE SagaInit => RecordInv
<1> SUFFICES ASSUME SagaInit PROVE \A p \in Placements : OnRecord(p)
  BY InitLedger DEF RecordInv
<1> SUFFICES ASSUME NEW p \in Placements PROVE OnRecord(p)
  OBVIOUS
<1>1. pc[p] = "idle" /\ job[p] = "none" /\ deducted = {}
  BY DEF SagaInit, Init
<1>2. log[Order(p)] = <<>> /\ Len(<<>>) = 0
  BY OrderType DEF SagaInit
<1>3. ~Logged(Order(p), "IN_KITCHEN")
  BY <1>2 DEF Logged
<1> QED
  BY <1>1, <1>3 DEF OnRecord

LEMMA NextRecord == ASSUME UsedOnce PROVE RecordInv /\ [SagaNext]_saga => RecordInv'
<1> SUFFICES ASSUME RecordInv, [SagaNext]_saga PROVE RecordInv'
  OBVIOUS
<1>0. SagaInv /\ SagaInv' /\ ControlInv /\ SagaTypeOK
  BY NextLedger DEF RecordInv, SagaInv, ControlInv
<1>1. StepsOnward /\ LogsOne /\ DeductsBegun
  BY <1>0, PlacementOnward, OtherOnward, StepLogsOne, StepDeductsBegun DEF SagaNext
\* What the log gains.
<1>2. /\ lost' = 0 => lost = 0
      /\ \A o \in Orders, s \in Statuses : Logged(o, s) => Logged(o, s)'
      /\ \A p \in Placements :
           Logged(Order(p), "IN_KITCHEN")' =>
             Logged(Order(p), "IN_KITCHEN") \/ pc[p] \in {"adding", "queued"}
  <2>1. CASE UNCHANGED <<log, lost>>
    BY <2>1 DEF Logged
  <2>2. ASSUME NEW p \in Placements, NEW st \in Statuses, LogEvent(Order(p), st),
               st = "IN_KITCHEN" => pc[p] \in {"adding", "queued"}
        PROVE  /\ lost' = 0 => lost = 0
               /\ \A o \in Orders, s \in Statuses : Logged(o, s) => Logged(o, s)'
               /\ \A q \in Placements :
                    Logged(Order(q), "IN_KITCHEN")' =>
                      Logged(Order(q), "IN_KITCHEN") \/ pc[q] \in {"adding", "queued"}
    <3>1. /\ lost' = 0 => lost = 0
          /\ \A o \in Orders, s \in Statuses : Logged(o, s) => Logged(o, s)'
          /\ \A o \in Orders, s \in Statuses :
               Logged(o, s)' => Logged(o, s) \/ (o = Order(p) /\ s = st)
      BY <1>0, <2>2, LogEventEffect
    <3>2. ASSUME NEW q \in Placements, Logged(Order(q), "IN_KITCHEN")', ~Logged(Order(q), "IN_KITCHEN")
          PROVE  pc[q] \in {"adding", "queued"}
      <4>1. Order(q) = Order(p) /\ st = "IN_KITCHEN"
        BY <3>1, <3>2, OrderType DEF Statuses
      <4> QED
        BY <2>2, <4>1 DEF UsedOnce
    <3> QED
      BY <3>1, <3>2
  <2> QED
    BY <1>1, <2>1, <2>2 DEF LogsOne
<1>3. ASSUME NEW p \in Placements PROVE OnRecord(p)'
  <2>0. OnRecord(p) /\ Order(p)' = Order(p) /\ Order(p) \in Orders
    BY OrderType DEF RecordInv, Order
  <2>1. pc'[p] = "idle" => Order(p) \notin deducted'
    <3> SUFFICES ASSUME pc'[p] = "idle", Order(p) \in deducted' PROVE FALSE
      OBVIOUS
    <3>1. pc[p] = "idle" /\ Order(p) \notin deducted
      BY <1>1, <2>0 DEF StepsOnward, OnRecord
    <3>2. PICK q \in Placements : Order(q) = Order(p) /\ pc[q] # "idle"
      BY <1>1, <2>0, <3>1 DEF DeductsBegun
    <3> QED
      BY <3>1, <3>2 DEF UsedOnce
  <2>2. lost' = 0 /\ pc'[p] # "idle" => Logged(Order(p), "PENDING")'
    <3> SUFFICES ASSUME lost' = 0, pc'[p] # "idle" PROVE Logged(Order(p), "PENDING")'
      OBVIOUS
    <3>1. CASE pc[p] # "idle"
      BY <1>2, <2>0, <3>1 DEF OnRecord, Statuses
    <3>2. CASE pc[p] = "idle"
      <4>1. LogEvent(Order(p), "PENDING")
        BY <1>1, <3>2 DEF StepsOnward, Place
      <4> QED
        BY <1>0, <4>1, LogEventEffect DEF Statuses
    <3> QED
      BY <3>1, <3>2
  <2>3. pc'[p] \in {"adding", "queued", "accepted"} => job'[p] # "none"
    BY <1>1, <2>0 DEF StepsOnward, OnRecord
  <2>4. job'[p] = "none" => ~Logged(Order(p), "IN_KITCHEN")'
    BY <1>1, <1>2, <2>0 DEF StepsOnward, OnRecord
  <2> QED
    BY <2>0, <2>1, <2>2, <2>3, <2>4 DEF OnRecord
<1> QED
  BY <1>0, <1>3 DEF RecordInv

\* With keys that are used once, an order that holds portions and has no kitchen job, a dead
\* saga's among them, is never replayed as cooked, completed or rolled back.
THEOREM SagaHeldIsOnRecord ==
  ASSUME UsedOnce
  PROVE  SagaSpec => []HeldIsOnRecord
<1>1. RecordInv => HeldIsOnRecord
  <2> SUFFICES ASSUME RecordInv, NEW p \in Placements,
                      Order(p) \in deducted, job[p] = "none", lost = 0
               PROVE  replayEvents(Order(p)) \in
                        {"PENDING", "VERIFIED", "FAILED", "COMPENSATING", "MANUAL_INTERVENTION_REQUIRED"}
    BY DEF HeldIsOnRecord
  <2> DEFINE l == log[Order(p)]
  <2>1. /\ OnRecord(p) /\ Told(p) /\ Compensated(p) /\ Order(p) \in Orders
        /\ l \in Seq(Statuses)
    BY OrderType DEF RecordInv, SagaInv, SagaTypeOK
  <2>2. /\ Logged(Order(p), "PENDING") /\ ~Logged(Order(p), "IN_KITCHEN")
        /\ ~Logged(Order(p), "COMPLETED") /\ ~Logged(Order(p), "ROLLED_BACK")
    BY <2>1 DEF OnRecord, Told, Compensated
  <2>3. Len(l) \in Nat /\ Len(l) # 0 /\ l # <<>>
    <3>1. PICK k \in 1 .. Len(l) : l[k] = "PENDING"
      BY <2>2 DEF Logged
    <3> QED
      BY <2>1, <3>1
  <2>4. Len(l) \in 1 .. Len(l) /\ l[Len(l)] \in Statuses
    BY <2>1, <2>3
  <2>5. l[Len(l)] \notin {"IN_KITCHEN", "COMPLETED", "ROLLED_BACK"}
    BY <2>2, <2>4 DEF Logged
  <2> QED
    BY <2>3, <2>4, <2>5 DEF replayEvents, Statuses
<1> QED
  BY <1>1, InitRecord, NextRecord, PTL DEF SagaSpec

-----------------------------------------------------------------------------
(* What the saga sees of the kitchen.                                      *)

LEMMA SagaJobsInit == SagaInit => Jobs!QueueInit
BY DEF SagaInit, Jobs!QueueInit, InQueue

LEMMA JobsUnmoved ==
  ASSUME stalls' = stalls, \A p \in Placements : InQueue(job'[p]) = InQueue(job[p])
  PROVE  UNCHANGED Jobs!queue
BY DEF Jobs!queue

LEMMA JobMoves ==
  ASSUME ControlInv, NEW p \in Placements, NEW s, job' = [job EXCEPT ![p] = s]
  PROVE  [q \in Placements |-> InQueue(job'[q])] =
           [[q \in Placements |-> InQueue(job[q])] EXCEPT ![p] = InQueue(s)]
<1>1. \A q \in Placements : job'[q] = IF q = p THEN s ELSE job[q]
  BY DEF ControlInv, SagaTypeOK
<1>2. \A q \in Placements : InQueue(job'[q]) = IF q = p THEN InQueue(s) ELSE InQueue(job[q])
  <2> SUFFICES ASSUME NEW q \in Placements
               PROVE  InQueue(job'[q]) = IF q = p THEN InQueue(s) ELSE InQueue(job[q])
    OBVIOUS
  <2>1. CASE q = p
    <3>1. job'[q] = s
      BY <1>1, <2>1
    <3> QED
      BY <2>1, <3>1
  <2>2. CASE q # p
    <3>1. job'[q] = job[q]
      BY <1>1, <2>2
    <3> QED
      BY <2>2, <3>1
  <2> QED
    BY <2>1, <2>2
<1> QED
  BY <1>2

LEMMA SagaJobsNext == ControlInv /\ [SagaNext]_saga => [Jobs!QueueNext]_(Jobs!queue)
<1> SUFFICES ASSUME ControlInv, [SagaNext]_saga PROVE Jobs!QueueNext \/ UNCHANGED Jobs!queue
  OBVIOUS
<1>0. ASSUME job' = job, stalls' = stalls PROVE UNCHANGED Jobs!queue
  BY <1>0, JobsUnmoved
<1>1. ASSUME NEW p \in Placements, QueueAdd(p) PROVE Jobs!QueueNext
  <2>1. job[p] = "none" /\ stalls' = stalls
    BY <1>1 DEF ControlInv, Control, WithJob, QueueAdd, Step
  <2>2. [q \in Placements |-> InQueue(job'[q])] =
          [[q \in Placements |-> InQueue(job[q])] EXCEPT ![p] = "queued"]
    <3>1. InQueue("waiting") = "queued"
      BY DEF InQueue
    <3> QED
      BY <1>1, <3>1, JobMoves DEF QueueAdd
  <2>3. [q \in Placements |-> InQueue(job[q])][p] = "none"
    BY <2>1 DEF InQueue
  <2>4. Jobs!Add(p)
    BY <2>1, <2>2, <2>3 DEF Jobs!Add
  <2> QED
    BY <2>4 DEF Jobs!QueueNext
<1>2. ASSUME NEW p \in Placements, Take(p) PROVE UNCHANGED Jobs!queue
  <2>1. stalls' = stalls /\ \A q \in Placements :
          job'[q] = job[q] \/ (job[q] = "waiting" /\ job'[q] = "active")
    BY <1>2 DEF Take, ControlInv, SagaTypeOK
  <2>2. \A q \in Placements : InQueue(job'[q]) = InQueue(job[q])
    BY <2>1 DEF InQueue
  <2> QED
    BY <2>1, <2>2, JobsUnmoved
<1>3. ASSUME NEW p \in Placements, Cook(p) PROVE Jobs!QueueNext
  <2>1. [q \in Placements |-> InQueue(job'[q])] =
          [[q \in Placements |-> InQueue(job[q])] EXCEPT ![p] = "done"]
    <3>1. InQueue("completed") = "done"
      BY DEF InQueue
    <3> QED
      BY <1>3, <3>1, JobMoves DEF Cook
  <2>2. [q \in Placements |-> InQueue(job[q])][p] = "queued" /\ stalls' = stalls
    BY <1>3 DEF Cook, InQueue
  <2>3. Jobs!Done(p)
    BY <2>1, <2>2 DEF Jobs!Done
  <2> QED
    BY <2>3 DEF Jobs!QueueNext
<1>4. ASSUME NEW p \in Placements, RecoverStalled(p) PROVE Jobs!QueueNext
  <2>1. [q \in Placements |-> InQueue(job[q])][p] = "queued" /\ stalls' = [stalls EXCEPT ![p] = @ + 1]
    BY <1>4 DEF RecoverStalled, InQueue
  <2>2. [q \in Placements |-> InQueue(job'[q])] =
          [[q \in Placements |-> InQueue(job[q])] EXCEPT ![p] = IF stalls[p] < MaxStalls THEN "queued" ELSE "lost"]
    <3>1. InQueue("waiting") = "queued" /\ InQueue("failed") = "lost"
      BY DEF InQueue
    <3>2. CASE stalls[p] < MaxStalls
      <4>1. job' = [job EXCEPT ![p] = "waiting"]
        BY <1>4, <3>2 DEF RecoverStalled
      <4> QED
        BY <3>1, <3>2, <4>1, JobMoves
    <3>3. CASE ~(stalls[p] < MaxStalls)
      <4>1. job' = [job EXCEPT ![p] = "failed"]
        BY <1>4, <3>3 DEF RecoverStalled
      <4> QED
        BY <3>1, <3>3, <4>1, JobMoves
    <3> QED
      BY <3>2, <3>3
  <2>3. Jobs!Stall(p)
    BY <2>1, <2>2 DEF Jobs!Stall
  <2> QED
    BY <2>3 DEF Jobs!QueueNext
<1>5. CASE KitchenCrash
  <2>1. stalls' = stalls /\ \A q \in Placements :
          job'[q] = job[q] \/ (job[q] = "active" /\ job'[q] = "stalled")
    BY <1>5 DEF KitchenCrash
  <2>2. \A q \in Placements : InQueue(job'[q]) = InQueue(job[q])
    BY <2>1 DEF InQueue
  <2> QED
    BY <2>1, <2>2, JobsUnmoved
<1>6. ASSUME NEW p \in Placements, Place(p) \/ Stock(p)
      PROVE  UNCHANGED Jobs!queue
  BY <1>0, <1>6 DEF Place, Stock, StockDeducts, StockAnswers, StockRestores, StockKeeps, LateCall, kitchen
<1>7. ASSUME NEW p \in Placements, Saga(p) PROVE Jobs!QueueNext \/ UNCHANGED Jobs!queue
  BY <1>0, <1>1, <1>7 DEF Saga, Fire, BreakerRejects, BreakerTimesOut, Reject, StartLoop, Retry, Resend,
     DeductionSucceeds, DeductionFails, DeductTimesOut, KitchenQueued, Accept, Confirm,
     QueueFails, Compensate, SendRestore, RolledBack, RestoreFails, RestoreTimesOut, Busy, kitchen
<1>8. ASSUME NEW g \in Gateways, \/ GatewayCrash(g) \/ GatewayRestart(g)
                                 \/ \E p \in Placements : Finalize(g, p)
      PROVE  UNCHANGED Jobs!queue
  BY <1>0, <1>8 DEF GatewayCrash, GatewayRestart, Finalize, kitchen
<1>9. CASE UNCHANGED saga
  BY <1>0, <1>9 DEF saga
<1> QED
  BY <1>2, <1>3, <1>4, <1>5, <1>6, <1>7, <1>8, <1>9 DEF SagaNext, Kitchen

-----------------------------------------------------------------------------
(* What the saga does to the stock.                                        *)

LEMMA SagaStockNext == [SagaNext]_saga => [Next]_inventory
<1> SUFFICES ASSUME [SagaNext]_saga PROVE Next \/ UNCHANGED inventory
  OBVIOUS
<1>1. ASSUME NEW p \in Placements, Stock(p) PROVE Next \/ UNCHANGED inventory
  BY <1>1, OrderType DEF Stock, StockDeducts, StockAnswers, StockRestores, StockKeeps, LateCall, Next
<1>2. ASSUME NEW p \in Placements, Place(p) \/ Saga(p) \/ Kitchen(p) PROVE UNCHANGED inventory
  BY <1>2 DEF Place, Saga, Fire, BreakerRejects, BreakerTimesOut, Reject, StartLoop, Retry, Resend,
     DeductionSucceeds, DeductionFails, DeductTimesOut, QueueAdd, KitchenQueued, Accept, Confirm,
     QueueFails, Compensate, SendRestore, RolledBack, RestoreFails, RestoreTimesOut, Busy,
     Kitchen, Take, Cook, RecoverStalled
<1>3. CASE \/ \E g \in Gateways, p \in Placements : Finalize(g, p)
           \/ \E g \in Gateways : GatewayCrash(g) \/ GatewayRestart(g)
           \/ KitchenCrash
  BY <1>3 DEF Finalize, GatewayCrash, GatewayRestart, KitchenCrash
<1>4. CASE UNCHANGED saga
  BY <1>4 DEF saga, inventory
<1> QED
  BY <1>1, <1>2, <1>3, <1>4 DEF SagaNext

LEMMA SagaKeepsInventory == SagaSpec => Spec
<1>1. SagaInit => Init
  BY DEF SagaInit
<1> QED
  BY <1>1, SagaStockNext, PTL DEF SagaSpec, Spec

-----------------------------------------------------------------------------
(* What the saga sees of breaker and bulkhead.                             *)

LEMMA SagaCallsInit == SagaInit => Bulkheads!CallsInit
BY DEF SagaInit, Bulkheads!CallsInit, HeardOf, ActionOf

\* Bulkhead counts as FiniteSets does.
LEMMA SameCount == \A S : Bulkheads!Cardinality(S) = Cardinality(S)
BY DEF Bulkheads!Cardinality, Cardinality, Bulkheads!IsFiniteSet, IsFiniteSet

LEMMA CallsUnmoved ==
  ASSUME \A p \in Placements :
           HeardOf(pc'[p]) = HeardOf(pc[p]) /\ ActionOf(loop'[p]) = ActionOf(loop[p])
  PROVE  UNCHANGED Bulkheads!calls
BY DEF Bulkheads!calls

LEMMA HeardMoves ==
  ASSUME SagaTypeOK, NEW p \in Placements, NEW to, pc' = [pc EXCEPT ![p] = to]
  PROVE  [q \in Placements |-> HeardOf(pc'[q])] =
           [[q \in Placements |-> HeardOf(pc[q])] EXCEPT ![p] = HeardOf(to)]
BY DEF SagaTypeOK

LEMMA ActionMoves ==
  ASSUME SagaTypeOK, NEW p \in Placements, NEW to, loop' = [loop EXCEPT ![p] = to]
  PROVE  [q \in Placements |-> ActionOf(loop'[q])] =
           [[q \in Placements |-> ActionOf(loop[q])] EXCEPT ![p] = ActionOf(to)]
BY DEF SagaTypeOK

\* placeOrder goes on between two states that look alike from the breaker.
LEMMA PcUnheard ==
  ASSUME SagaTypeOK, NEW p \in Placements, NEW from, NEW to, Step(p, from, to),
         HeardOf(from) = HeardOf(to), loop' = loop
  PROVE  UNCHANGED Bulkheads!calls
<1>1. pc[p] = from /\ pc' = [pc EXCEPT ![p] = to] /\ DOMAIN pc = Placements
  BY DEF Step, SagaTypeOK
<1>2. ASSUME NEW q \in Placements PROVE HeardOf(pc'[q]) = HeardOf(pc[q])
  <2>1. CASE q = p
    <3>1. pc'[q] = to /\ pc[q] = from
      BY <1>1, <2>1
    <3> QED
      BY <3>1
  <2>2. CASE q # p
    <3>1. pc'[q] = pc[q]
      BY <1>1, <2>2
    <3> QED
      BY <3>1
  <2> QED
    BY <2>1, <2>2
<1> QED
  BY <1>2, CallsUnmoved

LEMMA FireAdmits ==
  ASSUME ControlInv, NEW p \in Placements, Fire(p)
  PROVE  Bulkheads!CallsNext
<1>1. /\ SagaTypeOK /\ pc[p] = "placed" /\ loop[p] \in {"off", "over"}
      /\ pc' = [pc EXCEPT ![p] = "deducting"] /\ loop' = [loop EXCEPT ![p] = "queued"]
  BY DEF Fire, Step, ControlInv, Control
<1>2. /\ HeardOf("deducting") = "waiting" /\ ActionOf("queued") = "queued"
      /\ HeardOf(pc[p]) = "nothing" /\ ActionOf(loop[p]) = "none"
  BY <1>1 DEF HeardOf, ActionOf
<1>3. [q \in Placements |-> HeardOf(pc'[q])] =
        [[q \in Placements |-> HeardOf(pc[q])] EXCEPT ![p] = "waiting"]
  <2>1. [q \in Placements |-> HeardOf(pc'[q])] =
          [[q \in Placements |-> HeardOf(pc[q])] EXCEPT ![p] = HeardOf("deducting")]
    BY <1>1, HeardMoves
  <2> QED
    BY <1>2, <2>1
<1>4. [q \in Placements |-> ActionOf(loop'[q])] =
        [[q \in Placements |-> ActionOf(loop[q])] EXCEPT ![p] = "queued"]
  <2>1. [q \in Placements |-> ActionOf(loop'[q])] =
          [[q \in Placements |-> ActionOf(loop[q])] EXCEPT ![p] = ActionOf("queued")]
    BY <1>1, ActionMoves
  <2> QED
    BY <1>2, <2>1
<1>5. Bulkheads!Admit(p)
  BY <1>2, <1>3, <1>4 DEF Bulkheads!Admit
<1> QED
  BY <1>5 DEF Bulkheads!CallsNext

LEMMA RejectsRefuse ==
  ASSUME ControlInv, NEW p \in Placements, BreakerRejects(p)
  PROVE  Bulkheads!CallsNext
<1>1. /\ SagaTypeOK /\ pc[p] = "placed" /\ loop[p] \in {"off", "over"}
      /\ pc' = [pc EXCEPT ![p] = "failing"] /\ loop' = loop
  BY DEF BreakerRejects, Step, ControlInv, Control
<1>2. HeardOf("failing") = "over" /\ HeardOf(pc[p]) = "nothing" /\ ActionOf(loop[p]) = "none"
  BY <1>1 DEF HeardOf, ActionOf
<1>3. [q \in Placements |-> HeardOf(pc'[q])] =
        [[q \in Placements |-> HeardOf(pc[q])] EXCEPT ![p] = HeardOf("failing")]
  BY <1>1, HeardMoves
<1>4. Bulkheads!Refuse(p)
  BY <1>1, <1>2, <1>3 DEF Bulkheads!Refuse
<1> QED
  BY <1>4 DEF Bulkheads!CallsNext

LEMMA TimeoutGivesUp ==
  ASSUME ControlInv, NEW p \in Placements, BreakerTimesOut(p)
  PROVE  Bulkheads!CallsNext
<1>1. /\ SagaTypeOK /\ pc[p] = "deducting"
      /\ pc' = [pc EXCEPT ![p] = "failing"] /\ loop' = loop
  BY DEF BreakerTimesOut, Step, ControlInv
<1>2. HeardOf("failing") = "over" /\ HeardOf(pc[p]) = "waiting"
  BY <1>1 DEF HeardOf
<1>3. Bulkheads!GiveUp(p)
  BY <1>1, <1>2, HeardMoves DEF Bulkheads!GiveUp
<1> QED
  BY <1>3 DEF Bulkheads!CallsNext

LEMMA LoopStarts ==
  ASSUME ControlInv, NEW p \in Placements, StartLoop(p)
  PROVE  Bulkheads!CallsNext
<1>1. /\ SagaTypeOK /\ loop[p] = "queued" /\ loop' = [loop EXCEPT ![p] = "sent"] /\ pc' = pc
      /\ Cardinality({q \in Peers(p) : loop[q] \in InLoop}) < Slots
  BY DEF StartLoop, ControlInv
<1>2. ActionOf("sent") = "running" /\ ActionOf(loop[p]) = "queued"
  BY <1>1 DEF ActionOf
<1>3. Bulkheads!RunningAt(GatewayOf[p]) = {q \in Peers(p) : loop[q] \in InLoop}
  <2>1. \A q \in Placements : ActionOf(loop[q]) = "running" <=> loop[q] \in InLoop
    BY <1>1 DEF SagaTypeOK, ActionOf, InLoop
  <2> QED
    BY <2>1 DEF Bulkheads!RunningAt, Bulkheads!Of, Peers
<1>4. Bulkheads!Cardinality(Bulkheads!RunningAt(GatewayOf[p])) < Slots
  BY <1>1, <1>3, SameCount
<1>5. Bulkheads!Start(p)
  BY <1>1, <1>2, <1>4, ActionMoves DEF Bulkheads!Start
<1> QED
  BY <1>5 DEF Bulkheads!CallsNext

\* The loop goes on in the bulkhead.
LEMMA LoopUnheard ==
  ASSUME SagaTypeOK, NEW p \in Placements,
         Retry(p) \/ Resend(p) \/ StockDeducts(p) \/ StockAnswers(p)
  PROVE  UNCHANGED Bulkheads!calls
<1>1. PICK l \in InLoop : loop' = [loop EXCEPT ![p] = l]
  BY DEF Retry, Resend, StockDeducts, StockAnswers, InLoop
<1>2. loop[p] \in InLoop /\ pc' = pc
  BY DEF Retry, Resend, StockDeducts, StockAnswers, InLoop
<1>3. \A a, b \in InLoop : ActionOf(a) = ActionOf(b)
  BY DEF InLoop, ActionOf
<1>4. \A q \in Placements : loop'[q] = IF q = p THEN l ELSE loop[q]
  BY <1>1 DEF SagaTypeOK
<1>5. \A q \in Placements : ActionOf(loop'[q]) = ActionOf(loop[q])
  BY <1>2, <1>3, <1>4
<1> QED
  BY <1>2, <1>5, CallsUnmoved

LEMMA SettleEnds ==
  ASSUME SagaTypeOK, NEW p \in Placements,
         DeductionSucceeds(p) \/ DeductionFails(p) \/ DeductTimesOut(p)
  PROVE  Bulkheads!CallsNext
<1> DEFINE heard == [q \in Placements |-> HeardOf(pc[q])]
<1>1. /\ loop[p] \in InLoop /\ loop' = [loop EXCEPT ![p] = "over"]
      /\ \/ pc[p] = "deducting" /\ pc' = [pc EXCEPT ![p] = "deducted"]
         \/ pc[p] = "deducting" /\ pc' = [pc EXCEPT ![p] = "failing"]
         \/ pc[p] # "deducting" /\ pc' = pc
  BY DEF DeductionSucceeds, DeductionFails, DeductTimesOut, Settle, Step, InLoop
<1>2. /\ ActionOf("over") = "none" /\ ActionOf(loop[p]) = "running"
      /\ HeardOf("deducted") = "over" /\ HeardOf("failing") = "over"
      /\ HeardOf(pc[p]) = "waiting" <=> pc[p] = "deducting"
  BY <1>1 DEF ActionOf, HeardOf, InLoop
<1>3. [q \in Placements |-> HeardOf(pc'[q])] =
        [heard EXCEPT ![p] = IF heard[p] = "waiting" THEN "over" ELSE heard[p]]
  <2>1. CASE pc[p] = "deducting"
    <3>1. heard[p] = "waiting"
      BY <1>2, <2>1
    <3>2. [q \in Placements |-> HeardOf(pc'[q])] = [heard EXCEPT ![p] = "over"]
      BY <1>1, <1>2, <2>1, HeardMoves
    <3> QED
      BY <3>1, <3>2
  <2>2. CASE pc[p] # "deducting"
    <3>1. heard[p] # "waiting" /\ pc' = pc
      BY <1>1, <1>2, <2>2
    <3> QED
      BY <3>1
  <2> QED
    BY <2>1, <2>2
<1>4. [q \in Placements |-> ActionOf(loop'[q])] =
        [[q \in Placements |-> ActionOf(loop[q])] EXCEPT ![p] = "none"]
  BY <1>1, <1>2, ActionMoves
<1>5. Bulkheads!End(p)
  BY <1>2, <1>3, <1>4 DEF Bulkheads!End
<1> QED
  BY <1>5 DEF Bulkheads!CallsNext

LEMMA CrashStops ==
  ASSUME SagaTypeOK, NEW g \in Gateways, GatewayCrash(g)
  PROVE  Bulkheads!CallsNext
<1> DEFINE S == {q \in Placements : GatewayOf[q] = g /\ pc[q] \in Running}
<1>1. ASSUME NEW q \in Placements
      PROVE  /\ pc'[q] = IF q \in S THEN "dead" ELSE pc[q]
             /\ loop'[q] = IF GatewayOf[q] = g THEN "over" ELSE loop[q]
  BY DEF GatewayCrash
<1>2. Bulkheads!Of(g) = {q \in Placements : GatewayOf[q] = g}
  BY DEF Bulkheads!Of
<1>3. HeardOf("dead") = "over" /\ ActionOf("over") = "none"
  BY DEF HeardOf, ActionOf
<1>4. \A q \in Bulkheads!Of(g) \ S : HeardOf(pc[q]) # "waiting"
  BY <1>2 DEF HeardOf, Running
<1>5. ASSUME NEW q \in Placements
      PROVE  /\ HeardOf(pc'[q]) = IF q \in S THEN "over" ELSE HeardOf(pc[q])
             /\ ActionOf(loop'[q]) = IF q \in Bulkheads!Of(g) THEN "none" ELSE ActionOf(loop[q])
  <2>1. HeardOf(pc'[q]) = IF q \in S THEN "over" ELSE HeardOf(pc[q])
    <3>1. CASE q \in S
      <4>1. pc'[q] = "dead"
        BY <1>1, <3>1
      <4> QED
        BY <1>3, <3>1, <4>1
    <3>2. CASE q \notin S
      <4>1. pc'[q] = pc[q]
        BY <1>1, <3>2
      <4> QED
        BY <3>2, <4>1
    <3> QED
      BY <3>1, <3>2
  <2>2. ActionOf(loop'[q]) = IF q \in Bulkheads!Of(g) THEN "none" ELSE ActionOf(loop[q])
    <3>1. CASE GatewayOf[q] = g
      <4>1. loop'[q] = "over"
        BY <1>1, <3>1
      <4> QED
        BY <1>2, <1>3, <3>1, <4>1
    <3>2. CASE GatewayOf[q] # g
      <4>1. loop'[q] = loop[q]
        BY <1>1, <3>2
      <4> QED
        BY <1>2, <3>2, <4>1
    <3> QED
      BY <3>1, <3>2
  <2> QED
    BY <2>1, <2>2
<1>6. S \in SUBSET Bulkheads!Of(g)
  BY <1>2
<1> HIDE DEF S
<1>7. Bulkheads!Stop(g)
  BY <1>4, <1>5, <1>6, <1>2 DEF Bulkheads!Stop
<1> QED
  BY <1>7 DEF Bulkheads!CallsNext

LEMMA SagaCallsNext == ControlInv /\ [SagaNext]_saga => [Bulkheads!CallsNext]_(Bulkheads!calls)
<1> SUFFICES ASSUME ControlInv, [SagaNext]_saga
             PROVE  Bulkheads!CallsNext \/ UNCHANGED Bulkheads!calls
  OBVIOUS
<1>t. SagaTypeOK
  BY DEF ControlInv
<1>0. ASSUME pc' = pc, loop' = loop PROVE UNCHANGED Bulkheads!calls
  BY <1>0, CallsUnmoved
<1>h. /\ HeardOf("idle") = HeardOf("placed")
      /\ \A s \in PastStock \union {"failing", "rejected"} : HeardOf(s) = "over"
  BY DEF HeardOf, PastStock
<1>1. ASSUME NEW p \in Placements, Place(p) \/ Reject(p) PROVE UNCHANGED Bulkheads!calls
  BY <1>1, <1>t, <1>h, PcUnheard DEF Place, Reject
<1>2. ASSUME NEW p \in Placements,
             \/ QueueAdd(p) \/ KitchenQueued(p) \/ Accept(p) \/ Confirm(p) \/ QueueFails(p)
             \/ Compensate(p) \/ SendRestore(p) \/ RolledBack(p) \/ RestoreFails(p)
             \/ RestoreTimesOut(p) \/ Busy(p) \/ StockRestores(p) \/ StockKeeps(p)
      PROVE  UNCHANGED Bulkheads!calls
  <2>1. loop' = loop /\ \E from, to \in PastStock : Step(p, from, to)
    <3>1. CASE Busy(p)
      BY <3>1 DEF Busy, Step, PastStock
    <3>2. CASE StockRestores(p) \/ StockKeeps(p)
      BY <3>2 DEF StockRestores, StockKeeps, Step, PastStock
    <3>3. CASE ~(Busy(p) \/ StockRestores(p) \/ StockKeeps(p))
      BY <1>2, <3>3 DEF QueueAdd, KitchenQueued, Accept, Confirm, QueueFails, Compensate,
         SendRestore, RolledBack, RestoreFails, RestoreTimesOut, PastStock
    <3> QED
      BY <3>1, <3>2, <3>3
  <2> QED
    BY <2>1, <1>t, <1>h, PcUnheard
<1>3. ASSUME NEW p \in Placements, Saga(p)
      PROVE  Bulkheads!CallsNext \/ UNCHANGED Bulkheads!calls
  BY <1>1, <1>2, <1>3, <1>t, FireAdmits, RejectsRefuse, TimeoutGivesUp, LoopStarts, LoopUnheard,
     SettleEnds DEF Saga
<1>4. ASSUME NEW p \in Placements, NEW op \in {"deduct", "restore"}, LateCall(p, op)
      PROVE  UNCHANGED Bulkheads!calls
  BY <1>0, <1>4 DEF LateCall
<1>5. ASSUME NEW p \in Placements, Stock(p) PROVE UNCHANGED Bulkheads!calls
  BY <1>2, <1>4, <1>5, <1>t, LoopUnheard DEF Stock
<1>6. ASSUME NEW p \in Placements, Kitchen(p) PROVE UNCHANGED Bulkheads!calls
  BY <1>0, <1>6 DEF Kitchen, Take, Cook, RecoverStalled
<1>7. ASSUME NEW g \in Gateways, GatewayCrash(g) PROVE Bulkheads!CallsNext
  BY <1>7, <1>t, CrashStops
<1>8. CASE \/ \E g \in Gateways, p \in Placements : Finalize(g, p)
           \/ \E g \in Gateways : GatewayRestart(g)
           \/ KitchenCrash
  BY <1>0, <1>8 DEF Finalize, GatewayRestart, KitchenCrash
<1>9. CASE UNCHANGED saga
  BY <1>0, <1>9 DEF saga
<1> QED
  BY <1>1, <1>3, <1>5, <1>6, <1>7, <1>8, <1>9 DEF SagaNext

LEMMA SagaControlled == SagaSpec => []ControlInv
BY InitControl, NextControl, PTL DEF SagaSpec

\* Whatever keys the clients send and whatever crashes, the saga uses stock, kitchen queue
\* and bulkheads as the specifications that StockService, KitchenQueue and CircuitBreaker
\* implement allow.
THEOREM SagaKeepsContracts == SagaSpec => KeepsContracts
<1>1. SagaSpec => Jobs!QueueSpec
  BY SagaControlled, SagaJobsInit, SagaJobsNext, PTL DEF SagaSpec, Jobs!QueueSpec
<1>2. SagaSpec => Bulkheads!CallsSpec
  BY SagaControlled, SagaCallsInit, SagaCallsNext, PTL DEF SagaSpec, Bulkheads!CallsSpec
<1> QED
  BY <1>1, <1>2, SagaKeepsInventory DEF KeepsContracts

-----------------------------------------------------------------------------
(* What the kitchen's queue promises, carried over to the saga.            *)

\* Every queue that keeps to JobQueue counts its stalls.
StallsInLimits == stalls \in [Placements -> 0 .. MaxStalls + 1]

LEMMA QueueInitLost == Jobs!QueueInit => StallsInLimits /\ Jobs!LostByStalls
<1> SUFFICES ASSUME Jobs!QueueInit PROVE StallsInLimits /\ Jobs!LostByStalls
  OBVIOUS
<1>1. MaxStalls \in Nat
  BY SagaAssumption DEF SagaAssumption
<1>2. stalls = [p \in Placements |-> 0] /\ \A p \in Placements : InQueue(job[p]) = "none"
  BY DEF Jobs!QueueInit
<1> QED
  BY <1>1, <1>2 DEF StallsInLimits, Jobs!LostByStalls

LEMMA QueueNextLost ==
  StallsInLimits /\ Jobs!LostByStalls /\ [Jobs!QueueNext]_(Jobs!queue)
    => StallsInLimits' /\ Jobs!LostByStalls'
<1> DEFINE at(p) == InQueue(job[p])
<1> SUFFICES ASSUME StallsInLimits, Jobs!LostByStalls, Jobs!QueueNext \/ UNCHANGED Jobs!queue
             PROVE  StallsInLimits' /\ Jobs!LostByStalls'
  OBVIOUS
<1>1. MaxStalls \in Nat
  BY SagaAssumption DEF SagaAssumption
<1>2. \A p \in Placements :
        /\ at(p) \in {"none", "queued", "done", "lost"}
        /\ at(p) = "lost" <=> stalls[p] = MaxStalls + 1
        /\ stalls[p] \in 0 .. MaxStalls + 1
  BY DEF Jobs!LostByStalls
<1>3. SUFFICES /\ StallsInLimits'
               /\ \A p \in Placements :
                    /\ at(p)' \in {"none", "queued", "done", "lost"}
                    /\ at(p)' = "lost" <=> stalls'[p] = MaxStalls + 1
  BY DEF Jobs!LostByStalls, StallsInLimits
<1>4. ASSUME NEW p \in Placements, Jobs!Add(p) \/ Jobs!Done(p)
      PROVE  /\ stalls' = stalls /\ at(p) \in {"none", "queued"}
             /\ \A q \in Placements : at(q)' = at(q) \/ (q = p /\ at(q)' \in {"queued", "done"})
  <2>1. /\ at(p) \in {"none", "queued"} /\ stalls' = stalls
        /\ \E s \in {"queued", "done"} :
             [q \in Placements |-> at(q)'] = [[q \in Placements |-> at(q)] EXCEPT ![p] = s]
    BY <1>4 DEF Jobs!Add, Jobs!Done
  <2>2. PICK s \in {"queued", "done"} :
          [q \in Placements |-> at(q)'] = [[q \in Placements |-> at(q)] EXCEPT ![p] = s]
    BY <2>1
  <2>3. ASSUME NEW q \in Placements PROVE at(q)' = IF q = p THEN s ELSE at(q)
    <3>1. [x \in Placements |-> at(x)'][q] = [[x \in Placements |-> at(x)] EXCEPT ![p] = s][q]
      BY <2>2
    <3> HIDE DEF at
    <3> QED
      BY <3>1
  <2> QED
    BY <2>1, <2>3
<1>5. ASSUME NEW p \in Placements, Jobs!Stall(p)
      PROVE  /\ stalls' = [stalls EXCEPT ![p] = @ + 1] /\ at(p) = "queued"
             /\ \A q \in Placements :
                  at(q)' = IF q # p THEN at(q)
                           ELSE IF stalls[p] < MaxStalls THEN "queued" ELSE "lost"
  <2> DEFINE s == IF stalls[p] < MaxStalls THEN "queued" ELSE "lost"
  <2>1. /\ at(p) = "queued" /\ stalls' = [stalls EXCEPT ![p] = @ + 1]
        /\ [q \in Placements |-> at(q)'] = [[q \in Placements |-> at(q)] EXCEPT ![p] = s]
    BY <1>5 DEF Jobs!Stall
  <2>2. ASSUME NEW q \in Placements PROVE at(q)' = IF q = p THEN s ELSE at(q)
    <3>1. [x \in Placements |-> at(x)'][q] = [[x \in Placements |-> at(x)] EXCEPT ![p] = s][q]
      BY <2>1
    <3> HIDE DEF at, s
    <3> QED
      BY <3>1
  <2> QED
    BY <2>1, <2>2
<1>6. CASE UNCHANGED Jobs!queue
  <2>1. stalls' = stalls /\ [q \in Placements |-> at(q)'] = [q \in Placements |-> at(q)]
    BY <1>6 DEF Jobs!queue
  <2>2. ASSUME NEW q \in Placements PROVE at(q)' = at(q)
    <3>1. [x \in Placements |-> at(x)'][q] = [x \in Placements |-> at(x)][q]
      BY <2>1
    <3> HIDE DEF at
    <3> QED
      BY <3>1
  <2> HIDE DEF at
  <2> QED
    BY <1>2, <2>1, <2>2 DEF StallsInLimits
<1> HIDE DEF at
<1>7. CASE \E p \in Placements : Jobs!Add(p) \/ Jobs!Done(p)
  <2>1. PICK p \in Placements : Jobs!Add(p) \/ Jobs!Done(p)
    BY <1>7
  <2> QED
    BY <1>1, <1>2, <1>4, <2>1 DEF StallsInLimits
<1>8. CASE \E p \in Placements : Jobs!Stall(p)
  <2>1. PICK p \in Placements : Jobs!Stall(p)
    BY <1>8
  <2>2. stalls[p] <= MaxStalls
    BY <1>1, <1>2, <1>5, <2>1
  <2> QED
    BY <1>1, <1>2, <1>5, <2>1, <2>2 DEF StallsInLimits
<1> QED
  BY <1>6, <1>7, <1>8 DEF Jobs!QueueNext

\* Whatever the saga, its gateways and the worker go through, the job of an order is lost only
\* by stalling once more than BullMQ forgives; nothing the gateways do removes a job.
THEOREM SagaLosesByStalls == SagaSpec => []Jobs!LostByStalls
<1>1. Jobs!QueueSpec => []Jobs!LostByStalls
  BY QueueInitLost, QueueNextLost, PTL DEF Jobs!QueueSpec
<1>2. KeepsContracts => Jobs!QueueSpec
  BY DEF KeepsContracts
<1> QED
  BY <1>1, <1>2, SagaKeepsContracts, PTL

-----------------------------------------------------------------------------
(* Paid, whatever keys the clients send.                                   *)

\* A placement that counts on its deduction.
CountsOn(p) == loop[p] = "gotOk" \/ pc[p] \in {"deducted"} \union (WithJob \ {"dead"}) \/ job[p] # "none"

\* A refund is not withdrawn, and who comes to count on a deduction has been told of it.
RefundsStand(p) ==
  /\ Refunds(p) => Refunds(p)'
  /\ CountsOn(p)' => CountsOn(p) \/ Order(p) \in deducted'

\* Portions are given back only for a placement that refunds and counts on none.
GivenBack ==
  \A o \in Orders :
    o \in deducted /\ o \notin deducted' =>
      \E q \in Placements : Order(q) = o /\ Refunds(q) /\ ~CountsOn(q)

\* The values of a placement that the two tell apart.
LEMMA Stands ==
  ASSUME NEW p \in Placements, job'[p] = job[p], pc'[p] = pc[p],
         loop'[p] = "gotOk" => loop[p] = "gotOk" \/ Order(p) \in deducted'
  PROVE  RefundsStand(p)
<1>1. Refunds(p) => Refunds(p)'
  BY DEF Refunds
<1> QED
  BY <1>1 DEF RefundsStand, CountsOn

LEMMA MovedStands ==
  ASSUME ControlInv, NEW p \in Placements, NEW q \in Placements, NEW from, NEW to,
         Step(q, from, to), UNCHANGED job, loop'[p] = loop[p] \/ loop'[p] = "over",
         from \notin {"restoring", "restoreOk", "restoreError", "rolledBack", "manual", "busy", "dead"}
           \/ to \in {"restoreOk", "restoreError", "rolledBack", "manual", "busy"},
         to \in {"adding", "queued", "accepted", "confirmed"} =>
           from \in {"deducted", "adding", "queued", "accepted"},
         to = "deducted" => loop[q] = "gotOk"
  PROVE  RefundsStand(p)
<1>1. pc[q] = from /\ pc' = [pc EXCEPT ![q] = to]
  BY DEF Step
<1>2. pc \in [Placements -> {"idle", "dead"} \union Running \union Answers]
  BY DEF ControlInv, SagaTypeOK
<1>3. CASE p # q
  <2>1. pc'[p] = pc[p]
    BY <1>1, <1>2, <1>3
  <2> QED
    BY <2>1, Stands
<1>4. CASE p = q
  <2>1. pc'[p] = to /\ pc[p] = from /\ job'[p] = job[p]
    BY <1>1, <1>2, <1>4
  <2>2. Refunds(p) => Refunds(p)'
    BY <2>1 DEF Refunds
  <2>3. CountsOn(p)' <=> \/ loop'[p] = "gotOk" \/ to \in {"deducted"} \union (WithJob \ {"dead"})
                        \/ job[p] # "none"
    BY <2>1 DEF CountsOn
  <2>4. CountsOn(p)' => CountsOn(p)
    BY <1>4, <2>1, <2>3 DEF CountsOn, WithJob
  <2> QED
    BY <2>2, <2>4 DEF RefundsStand
<1> QED
  BY <1>3, <1>4

LEMMA PlacementStands ==
  ASSUME ControlInv, NEW q \in Placements, Place(q) \/ Saga(q), NEW p \in Placements
  PROVE  RefundsStand(p)
<1>t. /\ pc \in [Placements -> {"idle", "dead"} \union Running \union Answers]
      /\ loop \in [Placements -> {"off", "queued", "over"} \union InLoop]
      /\ job \in [Placements -> {"none", "waiting", "active", "stalled", "completed", "failed"}]
  BY DEF ControlInv, SagaTypeOK
<1>1. CASE Place(q) \/ BreakerRejects(q) \/ BreakerTimesOut(q) \/ Reject(q) \/ KitchenQueued(q)
           \/ Accept(q) \/ Confirm(q) \/ QueueFails(q)
  BY <1>1, MovedStands DEF Place, BreakerRejects, BreakerTimesOut, Reject, KitchenQueued, Accept,
     Confirm, QueueFails, kitchen
<1>2. CASE Compensate(q) \/ SendRestore(q) \/ RolledBack(q) \/ RestoreFails(q) \/ RestoreTimesOut(q)
  BY <1>2, MovedStands DEF Compensate, SendRestore, RolledBack, RestoreFails, RestoreTimesOut, kitchen
<1>3. CASE Fire(q)
  <2>1. loop' = [loop EXCEPT ![q] = "queued"] /\ Step(q, "placed", "deducting") /\ UNCHANGED job
    BY <1>3 DEF Fire, kitchen
  <2>2. pc' = [pc EXCEPT ![q] = "deducting"] /\ pc[q] = "placed"
    BY <2>1 DEF Step
  <2>3. CASE p = q
    <3>1. pc'[p] = "deducting" /\ pc[p] = "placed" /\ loop'[p] = "queued" /\ job'[p] = job[p]
      BY <1>t, <2>1, <2>2, <2>3
    <3> QED
      BY <3>1 DEF RefundsStand, Refunds, CountsOn, WithJob
  <2>4. CASE p # q
    BY <1>t, <2>1, <2>2, <2>4, Stands
  <2> QED
    BY <2>3, <2>4
<1>4. CASE StartLoop(q) \/ Retry(q) \/ Resend(q)
  <2>1. PICK l \in {"sent", "backoff"} : loop' = [loop EXCEPT ![q] = l]
    BY <1>4 DEF StartLoop, Retry, Resend
  <2>2. UNCHANGED <<pc, job>> /\ (loop'[p] = "gotOk" => loop[p] = "gotOk")
    BY <1>t, <1>4, <2>1 DEF StartLoop, Retry, Resend, kitchen
  <2> QED
    BY <2>2, Stands
<1>5. CASE DeductionSucceeds(q) \/ DeductionFails(q) \/ DeductTimesOut(q)
  <2>1. loop' = [loop EXCEPT ![q] = "over"] /\ UNCHANGED job
    BY <1>5 DEF DeductionSucceeds, DeductionFails, DeductTimesOut, Settle, kitchen
  <2>2. loop'[p] = loop[p] \/ loop'[p] = "over"
    BY <1>t, <2>1
  <2>3. \/ UNCHANGED pc
        \/ Step(q, "deducting", "failing")
        \/ Step(q, "deducting", "deducted") /\ loop[q] = "gotOk"
    BY <1>5 DEF DeductionSucceeds, DeductionFails, DeductTimesOut, Settle
  <2> QED
    BY <2>1, <2>2, <2>3, MovedStands, Stands
<1>6. CASE QueueAdd(q)
  <2>1. /\ pc' = [pc EXCEPT ![q] = "adding"] /\ pc[q] = "deducted"
        /\ job' = [job EXCEPT ![q] = "waiting"] /\ loop' = loop
    BY <1>6 DEF QueueAdd, Step
  <2>2. CASE p = q
    BY <2>1, <2>2 DEF RefundsStand, Refunds, CountsOn
  <2>3. CASE p # q
    BY <1>t, <2>1, <2>3, Stands
  <2> QED
    BY <2>2, <2>3
<1>7. CASE Busy(q)
  <2>1. PICK from \in {"rolledBack", "manual"} : Step(q, from, "busy")
    BY <1>7 DEF Busy, Step
  <2> QED
    BY <1>7, <2>1, MovedStands DEF Busy, kitchen
<1> QED
  BY <1>1, <1>2, <1>3, <1>4, <1>5, <1>6, <1>7 DEF Saga

LEMMA OtherStands ==
  ASSUME ControlInv, NEW p \in Placements,
         \/ \E q \in Placements : Stock(q) \/ Kitchen(q)
         \/ \E g \in Gateways, q \in Placements : Finalize(g, q)
         \/ \E g \in Gateways : GatewayCrash(g) \/ GatewayRestart(g)
         \/ KitchenCrash \/ UNCHANGED saga
  PROVE  RefundsStand(p)
<1>t. /\ pc \in [Placements -> {"idle", "dead"} \union Running \union Answers]
      /\ loop \in [Placements -> {"off", "queued", "over"} \union InLoop]
      /\ job \in [Placements -> {"none", "waiting", "active", "stalled", "completed", "failed"}]
  BY DEF ControlInv, SagaTypeOK
<1>1. ASSUME NEW q \in Placements, StockDeducts(q) \/ StockAnswers(q) PROVE RefundsStand(p)
  <2>1. PICK l \in {"gotOk", "gotConflict", "gotError"} :
           loop' = [loop EXCEPT ![q] = l] /\ (l = "gotOk" => Order(q) \in deducted')
    BY <1>1 DEF StockDeducts, StockAnswers, Deduct, inventory
  <2>2. UNCHANGED <<pc, job>> /\ (loop'[p] = "gotOk" => loop[p] = "gotOk" \/ Order(p) \in deducted')
    BY <1>t, <1>1, <2>1 DEF StockDeducts, StockAnswers, kitchen
  <2> QED
    BY <2>2, Stands
<1>2. ASSUME NEW q \in Placements, StockRestores(q) \/ StockKeeps(q) PROVE RefundsStand(p)
  <2>1. UNCHANGED <<job, loop>> /\ \E to \in {"restoreOk", "restoreError"} : Step(q, "restoring", to)
    BY <1>2 DEF StockRestores, StockKeeps, kitchen
  <2> QED
    BY <2>1, MovedStands
<1>3. ASSUME NEW q \in Placements, NEW op \in {"deduct", "restore"}, LateCall(q, op) PROVE RefundsStand(p)
  BY <1>3, Stands DEF LateCall, kitchen
<1>4. ASSUME NEW q \in Placements, Kitchen(q) PROVE RefundsStand(p)
  <2>1. PICK j \in {"waiting", "active", "completed", "failed"} : job' = [job EXCEPT ![q] = j]
    BY <1>4 DEF Kitchen, Take, Cook, RecoverStalled
  <2>2. job[q] # "none" /\ UNCHANGED <<pc, loop>>
    BY <1>4 DEF Kitchen, Take, Cook, RecoverStalled
  <2>3. job'[p] = "none" <=> job[p] = "none"
    BY <1>t, <2>1, <2>2
  <2> QED
    BY <2>2, <2>3 DEF RefundsStand, Refunds, CountsOn
<1>5. ASSUME NEW g \in Gateways, NEW q \in Placements, Finalize(g, q) PROVE RefundsStand(p)
  BY <1>5, Stands DEF Finalize
<1>6. ASSUME NEW g \in Gateways, GatewayCrash(g) PROVE RefundsStand(p)
  <2>1. /\ job' = job /\ (pc'[p] = pc[p] \/ (pc'[p] = "dead" /\ pc[p] \in Running))
        /\ (loop'[p] = loop[p] \/ loop'[p] = "over")
    BY <1>6 DEF GatewayCrash
  <2>2. CASE pc'[p] = pc[p]
    BY <2>1, <2>2, Stands
  <2>3. CASE pc'[p] = "dead"
    <3>1. job[p] # "none" => pc[p] \in WithJob
      BY DEF ControlInv, Control
    <3> QED
      BY <2>1, <2>3, <3>1 DEF RefundsStand, Refunds, CountsOn, WithJob
  <2> QED
    BY <2>1, <2>2, <2>3
<1>7. CASE KitchenCrash
  <2>1. UNCHANGED <<pc, loop>> /\ (job'[p] = "none" <=> job[p] = "none")
    BY <1>t, <1>7 DEF KitchenCrash
  <2> QED
    BY <2>1 DEF RefundsStand, Refunds, CountsOn
<1>8. ASSUME NEW g \in Gateways, GatewayRestart(g) PROVE RefundsStand(p)
  BY <1>8, Stands DEF GatewayRestart, kitchen
<1>9. CASE UNCHANGED saga
  BY <1>9, Stands DEF saga
<1> QED
  BY <1>1, <1>2, <1>3, <1>4, <1>5, <1>6, <1>7, <1>8, <1>9 DEF Stock

LEMMA StepGivenBack == ControlInv /\ [SagaNext]_saga => GivenBack
<1> SUFFICES ASSUME ControlInv, [SagaNext]_saga PROVE GivenBack
  OBVIOUS
<1>1. ASSUME deducted' = deducted PROVE GivenBack
  BY <1>1 DEF GivenBack
<1>2. ASSUME NEW q \in Placements, Deduct(Order(q)) PROVE GivenBack
  BY <1>2 DEF Deduct, GivenBack
<1>3. ASSUME NEW q \in Placements, Restore(Order(q)), job[q] = "none", loop[q] = "over",
             pc[q] \in {"restoring", "manual", "busy", "dead"}
      PROVE  GivenBack
  <2>1. Refunds(q) /\ ~CountsOn(q)
    BY <1>3 DEF Refunds, CountsOn, WithJob
  <2> QED
    BY <1>3, <2>1 DEF Restore, GivenBack
<1>4. ASSUME NEW q \in Placements, Stock(q) PROVE GivenBack
  <2>1. Control(q)
    BY DEF ControlInv
  <2>2. CASE StockDeducts(q)
    BY <1>2, <2>2 DEF StockDeducts
  <2>3. ASSUME NEW op \in {"deduct", "restore"}, LateCall(q, op) PROVE GivenBack
    <3>1. <<q, op>> \in late
          /\ (UNCHANGED inventory \/ (op = "restore" /\ Restore(Order(q))) \/ Deduct(Order(q)))
      BY <2>3 DEF LateCall
    <3>2. op = "restore" => job[q] = "none" /\ pc[q] \in {"manual", "busy", "dead"} /\ loop[q] = "over"
      BY <2>1, <3>1 DEF Control, PastStock
    <3> QED
      BY <1>1, <1>2, <1>3, <3>1, <3>2 DEF inventory
  <2>4. CASE StockAnswers(q) \/ StockKeeps(q)
    BY <1>1, <2>4 DEF StockAnswers, StockKeeps, inventory
  <2>5. CASE StockRestores(q)
    <3>1. pc[q] = "restoring" /\ Restore(Order(q))
      BY <2>5 DEF StockRestores, Step
    <3>2. job[q] = "none" /\ loop[q] = "over"
      BY <2>1, <3>1 DEF Control, PastStock, WithJob
    <3> QED
      BY <1>3, <3>1, <3>2
  <2> QED
    BY <1>4, <2>2, <2>3, <2>4, <2>5 DEF Stock
<1>5. ASSUME NEW p \in Placements, Place(p) \/ Saga(p) PROVE deducted' = deducted
  BY <1>5 DEF Place, Saga, Fire, BreakerRejects, BreakerTimesOut, Reject, StartLoop, Retry, Resend,
     DeductionSucceeds, DeductionFails, DeductTimesOut, QueueAdd, KitchenQueued, Accept, Confirm,
     QueueFails, Compensate, SendRestore, RolledBack, RestoreFails, RestoreTimesOut, Busy, inventory
<1>6. ASSUME NEW p \in Placements, Kitchen(p) PROVE deducted' = deducted
  BY <1>6 DEF Kitchen, Take, Cook, RecoverStalled, inventory
<1>7. ASSUME NEW g \in Gateways, \/ GatewayCrash(g) \/ GatewayRestart(g)
                                 \/ \E p \in Placements : Finalize(g, p)
      PROVE  deducted' = deducted
  BY <1>7 DEF GatewayCrash, GatewayRestart, Finalize, inventory
<1>8. CASE KitchenCrash \/ UNCHANGED saga
  BY <1>1, <1>8 DEF KitchenCrash, saga, inventory
<1> QED
  BY <1>1, <1>4, <1>5, <1>6, <1>7, <1>8 DEF SagaNext

LEMMA NextRefunded == ControlInv /\ PaidUnlessRefunded /\ [SagaNext]_saga => PaidUnlessRefunded'
<1> SUFFICES ASSUME ControlInv, PaidUnlessRefunded, [SagaNext]_saga, NEW p \in Placements
             PROVE  Paid(p)' \/ \E q \in Placements \ {p} : Order(q)' = Order(p)' /\ Refunds(q)'
  BY DEF PaidUnlessRefunded
<1>1. /\ GivenBack
      /\ \A q \in Placements : RefundsStand(q) /\ Order(q)' = Order(q) /\ Order(q) \in Orders
  BY StepGivenBack, PlacementStands, OtherStands, OrderType DEF SagaNext, Order
<1>2. /\ Paid(p) <=> (CountsOn(p) => Order(p) \in deducted)
      /\ Paid(p)' <=> (CountsOn(p)' => Order(p)' \in deducted')
  BY DEF Paid, CountsOn
<1>3. CASE \E q \in Placements \ {p} : Order(q) = Order(p) /\ Refunds(q)
  BY <1>1, <1>3 DEF RefundsStand
<1>4. CASE Paid(p)
  <2> SUFFICES ASSUME CountsOn(p)', Order(p) \notin deducted'
               PROVE  \E q \in Placements \ {p} : Order(q) = Order(p) /\ Refunds(q)'
    BY <1>1, <1>2
  <2>1. CountsOn(p) /\ Order(p) \in deducted
    BY <1>1, <1>2, <1>4 DEF RefundsStand
  <2>2. PICK q \in Placements : Order(q) = Order(p) /\ Refunds(q) /\ ~CountsOn(q)
    BY <1>1, <2>1 DEF GivenBack
  <2> QED
    BY <1>1, <2>1, <2>2 DEF RefundsStand
<1> QED
  BY <1>3, <1>4 DEF PaidUnlessRefunded

\* Whatever keys the clients send: only the compensation of another placement with the same
\* key can take back the stock of a placement whose deduction was acknowledged, or whose
\* job the kitchen has.
THEOREM SagaPaidUnlessRefunded == SagaSpec => []PaidUnlessRefunded
<1>1. SagaInit => PaidUnlessRefunded
  BY DEF SagaInit, PaidUnlessRefunded, Paid, WithJob
<1> QED
  BY <1>1, SagaControlled, NextRefunded, PTL DEF SagaSpec
=============================================================================
