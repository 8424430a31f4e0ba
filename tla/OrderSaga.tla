------------------------------ MODULE OrderSaga ------------------------------
(***************************************************************************)
(* order-gateway's saga (placeOrder, deductStockWithRetry, finalizeOrder)  *)
(* over the stock that Inventory promises, with the HTTP calls that may    *)
(* outlive their caller, the BullMQ kitchen queue and crashes of both      *)
(* processes.  A placement is one POST /order; two placements that send    *)
(* the same idempotency key have the same order, and ask for the same      *)
(* quantity of the same item.                                              *)
(***************************************************************************)
EXTENDS Inventory, Sequences

CONSTANTS
  Placements,   \* POST /order requests
  OrderOf,      \* [Placements -> Orders], the idempotency key each one sends
  Gateways,     \* replicas of order-gateway
  GatewayOf,    \* [Placements -> Gateways], the replica that serves each one
  MaxAttempts,  \* tries of one deduction (15 in the code)
  Slots,        \* concurrent deductions of a replica's bulkhead (200 in the code)
  MaxStalls,    \* stalls BullMQ forgives a job (its default, 1)
  MaxCrashes,   \* bound: process crashes in one behaviour
  MaxLost       \* bound: events whose INSERT fails in one behaviour

ASSUME SagaAssumption ==
  /\ OrderOf \in [Placements -> Orders]
  /\ GatewayOf \in [Placements -> Gateways]
  /\ MaxAttempts \in Nat \ {0} /\ Slots \in Nat \ {0}
  /\ {MaxStalls, MaxCrashes, MaxLost} \subseteq Nat

VARIABLES
  pc,           \* what placeOrder waits for, and how it ended
  loop,         \* deductStockWithRetry of a placement, which may outlive pc
  attempts,     \* its conflicts so far
  late,         \* calls to stock-service that nobody waits for any more
  job,          \* the kitchen job of a placement
  stalls,       \* how often it has stalled
  events,       \* "completed" events a replica has received and not handled
  log,          \* order_events, by timestamp, as the statuses replayEvents reads
  up,           \* running replicas
  crashes, lost \* counters of the bounds

saga == <<stock, deducted, pc, loop, attempts, late, job, stalls, events, log, up, crashes, lost>>
kitchen == <<job, stalls, events>>
process == <<up, crashes>>

Order(p) == OrderOf[p]
Peers(p) == {q \in Placements : GatewayOf[q] = GatewayOf[p]}

Running == {"placed", "deducting", "failing", "deducted", "adding", "queued", "accepted",
            "queueFailed", "compensating", "restoring", "restoreOk", "restoreError",
            "rolledBack", "manual"}
Answers == {"confirmed", "rejected", "busy"}
InLoop == {"backoff", "sent", "gotOk", "gotConflict", "gotError"}
Statuses == {"PENDING", "VERIFIED", "FAILED", "IN_KITCHEN", "COMPENSATING", "ROLLED_BACK",
             "MANUAL_INTERVENTION_REQUIRED", "COMPLETED"}

SagaInit ==
  /\ Init
  /\ pc = [p \in Placements |-> "idle"]
  /\ loop = [p \in Placements |-> "off"]
  /\ attempts = [p \in Placements |-> 0]
  /\ late = {}
  /\ job = [p \in Placements |-> "none"]
  /\ stalls = [p \in Placements |-> 0]
  /\ events = {}
  /\ log = [o \in Orders |-> <<>>]
  /\ up = Gateways
  /\ crashes = 0 /\ lost = 0

\* The event is stamped before its INSERT, and read in the order of the stamps.
publishEvent(o, status) == log' = [log EXCEPT ![o] = Append(@, status)]

\* A failed INSERT is only reported on the console.
LogEvent(o, status) ==
  \/ publishEvent(o, status) /\ UNCHANGED lost
  \/ lost < MaxLost /\ lost' = lost + 1 /\ UNCHANGED log

\* The status an order is replayed to.
replayEvents(o) == IF log[o] = <<>> THEN "UNKNOWN" ELSE log[o][Len(log[o])]

Step(p, from, to) ==
  /\ pc[p] = from
  /\ pc' = [pc EXCEPT ![p] = to]

-----------------------------------------------------------------------------
(* placeOrder up to the stock step.                                        *)

Place(p) ==
  /\ GatewayOf[p] \in up
  /\ Step(p, "idle", "placed")
  /\ LogEvent(Order(p), "PENDING")
  /\ UNCHANGED <<inventory, loop, attempts, late, kitchen, process>>

\* stockBreaker.fire with the circuit closed; the bulkhead may make it wait.
Fire(p) ==
  /\ Step(p, "placed", "deducting")
  /\ loop' = [loop EXCEPT ![p] = "queued"]
  /\ UNCHANGED <<inventory, attempts, late, kitchen, log, process, lost>>

\* The circuit is open, or the capacity of the breaker is used up.
BreakerRejects(p) ==
  /\ Step(p, "placed", "failing")
  /\ LogEvent(Order(p), "FAILED")
  /\ UNCHANGED <<inventory, loop, attempts, late, kitchen, process>>

\* The breaker stops waiting after its timeout; the deduction goes on.
BreakerTimesOut(p) ==
  /\ Step(p, "deducting", "failing")
  /\ LogEvent(Order(p), "FAILED")
  /\ UNCHANGED <<inventory, loop, attempts, late, kitchen, process>>

Reject(p) ==
  /\ Step(p, "failing", "rejected")
  /\ UNCHANGED <<inventory, loop, attempts, late, kitchen, log, process, lost>>

-----------------------------------------------------------------------------
(* deductStockWithRetry.                                                   *)

StartLoop(p) ==
  /\ loop[p] = "queued"
  /\ Cardinality({q \in Peers(p) : loop[q] \in InLoop}) < Slots
  /\ loop' = [loop EXCEPT ![p] = "sent"]
  /\ UNCHANGED <<inventory, pc, attempts, late, kitchen, log, process, lost>>

AttemptsUnbounded(p) == attempts[p] < MaxAttempts       \* fault: off by one
RetriesLeft(p) == attempts[p] < MaxAttempts - 1

Retry(p) ==
  /\ loop[p] = "gotConflict" /\ RetriesLeft(p)
  /\ attempts' = [attempts EXCEPT ![p] = @ + 1]
  /\ loop' = [loop EXCEPT ![p] = "backoff"]
  /\ UNCHANGED <<inventory, pc, late, kitchen, log, process, lost>>

Resend(p) ==
  /\ loop[p] = "backoff"
  /\ loop' = [loop EXCEPT ![p] = "sent"]
  /\ UNCHANGED <<inventory, pc, attempts, late, kitchen, log, process, lost>>

\* The loop has ended; the saga hears of it unless the breaker has given up.
Settle(p, to, status) ==
  /\ loop' = [loop EXCEPT ![p] = "over"]
  /\ \/ Step(p, "deducting", to) /\ LogEvent(Order(p), status)
     \/ pc[p] # "deducting" /\ UNCHANGED <<pc, log, lost>>

DeductionSucceeds(p) ==
  /\ loop[p] = "gotOk"
  /\ Settle(p, "deducted", "VERIFIED")
  /\ UNCHANGED <<inventory, attempts, late, kitchen, process>>

\* Fault: the error of a deduction is swallowed and the saga goes on.
DeductionFailsThrough(p) ==
  /\ loop[p] = "gotError" \/ (loop[p] = "gotConflict" /\ ~RetriesLeft(p))
  /\ Settle(p, "deducted", "FAILED")
  /\ UNCHANGED <<inventory, attempts, late, kitchen, process>>

DeductionFails(p) ==
  /\ loop[p] = "gotError" \/ (loop[p] = "gotConflict" /\ ~RetriesLeft(p))
  /\ Settle(p, "failing", "FAILED")
  /\ UNCHANGED <<inventory, attempts, late, kitchen, process>>

\* axios gives up after 2 s; stock-service may still be at work.
DeductTimesOut(p) ==
  /\ loop[p] = "sent"
  /\ late' = late \union {<<p, "deduct">>}
  /\ Settle(p, "failing", "FAILED")
  /\ UNCHANGED <<inventory, attempts, kitchen, process>>

-----------------------------------------------------------------------------
(* placeOrder, the kitchen step and the compensation.                      *)

QueueAdd(p) ==
  /\ Step(p, "deducted", "adding")
  /\ job' = [job EXCEPT ![p] = "waiting"]
  /\ UNCHANGED <<inventory, loop, attempts, late, stalls, events, log, process, lost>>

\* Fault: an error of the status update, after the add, starts the compensation.
KitchenQueuedOrFails(p) ==
  /\ \/ Step(p, "adding", "queued") /\ LogEvent(Order(p), "IN_KITCHEN")
     \/ Step(p, "adding", "queueFailed") /\ LogEvent(Order(p), "FAILED")
  /\ UNCHANGED <<inventory, loop, attempts, late, kitchen, process>>

KitchenQueued(p) ==
  /\ Step(p, "adding", "queued")
  /\ LogEvent(Order(p), "IN_KITCHEN")
  /\ UNCHANGED <<inventory, loop, attempts, late, kitchen, process>>

Accept(p) ==
  /\ Step(p, "queued", "accepted")
  /\ LogEvent(Order(p), "IN_KITCHEN")
  /\ UNCHANGED <<inventory, loop, attempts, late, kitchen, process>>

Confirm(p) ==
  /\ Step(p, "accepted", "confirmed")
  /\ UNCHANGED <<inventory, loop, attempts, late, kitchen, log, process, lost>>

\* Redis refuses the job.
QueueFails(p) ==
  /\ Step(p, "deducted", "queueFailed")
  /\ LogEvent(Order(p), "FAILED")
  /\ UNCHANGED <<inventory, loop, attempts, late, kitchen, process>>

Compensate(p) ==
  /\ Step(p, "queueFailed", "compensating")
  /\ LogEvent(Order(p), "COMPENSATING")
  /\ UNCHANGED <<inventory, loop, attempts, late, kitchen, process>>

SendRestore(p) ==
  /\ Step(p, "compensating", "restoring")
  /\ UNCHANGED <<inventory, loop, attempts, late, kitchen, log, process, lost>>

RolledBack(p) ==
  /\ Step(p, "restoreOk", "rolledBack")
  /\ LogEvent(Order(p), "ROLLED_BACK")
  /\ UNCHANGED <<inventory, loop, attempts, late, kitchen, process>>

\* Fault: the failed restore is recorded as a rollback.
RolledBackAnyway(p) ==
  /\ Step(p, "restoreError", "manual")
  /\ LogEvent(Order(p), "ROLLED_BACK")
  /\ UNCHANGED <<inventory, loop, attempts, late, kitchen, process>>

RestoreFails(p) ==
  /\ Step(p, "restoreError", "manual")
  /\ LogEvent(Order(p), "MANUAL_INTERVENTION_REQUIRED")
  /\ UNCHANGED <<inventory, loop, attempts, late, kitchen, process>>

\* Fault: the restore is awaited without a timeout.
RestoreAwaited(p) == FALSE /\ UNCHANGED saga

\* axios gives up after 2 s; the restore may still take effect.
RestoreTimesOut(p) ==
  /\ Step(p, "restoring", "manual")
  /\ late' = late \union {<<p, "restore">>}
  /\ LogEvent(Order(p), "MANUAL_INTERVENTION_REQUIRED")
  /\ UNCHANGED <<inventory, loop, attempts, kitchen, process>>

Busy(p) ==
  /\ pc[p] \in {"rolledBack", "manual"}
  /\ pc' = [pc EXCEPT ![p] = "busy"]
  /\ UNCHANGED <<inventory, loop, attempts, late, kitchen, log, process, lost>>

-----------------------------------------------------------------------------
(* stock-service, as StockService implements it: a call takes effect at    *)
(* most once, and may be refused or fail whatever the stock is (a cached   *)
(* rejection, a version conflict, an error after the commit).              *)

StockDeducts(p) ==
  /\ loop[p] = "sent"
  /\ Deduct(Order(p))
  /\ \E reply \in {"gotOk", "gotError"} : loop' = [loop EXCEPT ![p] = reply]
  /\ UNCHANGED <<pc, attempts, late, kitchen, log, process, lost>>

\* Without effect: "Already processed", or a failure.  Only a conflict is retried.
StockAnswers(p) ==
  /\ loop[p] = "sent"
  /\ \E reply \in {"gotConflict", "gotError"} \union (IF Order(p) \in deducted THEN {"gotOk"} ELSE {}) :
       loop' = [loop EXCEPT ![p] = reply]
  /\ UNCHANGED <<inventory, pc, attempts, late, kitchen, log, process, lost>>

StockRestores(p) ==
  /\ \E reply \in {"restoreOk", "restoreError"} : Step(p, "restoring", reply)
  /\ Restore(Order(p))
  /\ UNCHANGED <<loop, attempts, late, kitchen, log, process, lost>>

\* "Nothing to restore", or a failure.
StockKeeps(p) ==
  /\ \E reply \in {"restoreError"} \union (IF Order(p) \in deducted THEN {} ELSE {"restoreOk"}) :
       Step(p, "restoring", reply)
  /\ UNCHANGED <<inventory, loop, attempts, late, kitchen, log, process, lost>>

\* A call nobody waits for takes effect, or ends without.
LateCall(p, op) ==
  /\ <<p, op>> \in late
  /\ late' = late \ {<<p, op>>}
  /\ \/ op = "deduct" /\ Deduct(Order(p))
     \/ op = "restore" /\ Restore(Order(p))
     \/ UNCHANGED inventory
  /\ UNCHANGED <<pc, loop, attempts, kitchen, log, process, lost>>

-----------------------------------------------------------------------------
(* The kitchen worker, the completion listener and crashes.                *)

Take(p) ==
  /\ job[p] = "waiting"
  /\ job' = [job EXCEPT ![p] = "active"]
  /\ UNCHANGED <<inventory, pc, loop, attempts, late, stalls, events, log, process, lost>>

\* processOrder never throws: the job completes, and every running replica hears.
Cook(p) ==
  /\ job[p] = "active"
  /\ job' = [job EXCEPT ![p] = "completed"]
  /\ events' = events \union (up \X {p})
  /\ UNCHANGED <<inventory, pc, loop, attempts, late, stalls, log, process, lost>>

Finalize(g, p) ==
  /\ <<g, p>> \in events
  /\ events' = events \ {<<g, p>>}
  /\ LogEvent(Order(p), "COMPLETED")
  /\ UNCHANGED <<inventory, pc, loop, attempts, late, job, stalls, process>>

\* Fault: a job is acknowledged when it is taken, before it is cooked.
AckedWhenTaken ==
  /\ crashes < MaxCrashes /\ crashes' = crashes + 1
  /\ \E p \in Placements : job[p] = "active"
  /\ job' = [p \in Placements |-> IF job[p] = "active" THEN "none" ELSE job[p]]
  /\ UNCHANGED <<inventory, pc, loop, attempts, late, stalls, events, log, up, lost>>

KitchenCrash ==
  /\ crashes < MaxCrashes /\ crashes' = crashes + 1
  /\ \E p \in Placements : job[p] = "active"
  /\ job' = [p \in Placements |-> IF job[p] = "active" THEN "stalled" ELSE job[p]]
  /\ UNCHANGED <<inventory, pc, loop, attempts, late, stalls, events, log, up, lost>>

\* BullMQ's stalled check: the job is queued again, or failed for good.
RecoverStalled(p) ==
  /\ job[p] = "stalled"
  /\ stalls' = [stalls EXCEPT ![p] = @ + 1]
  /\ job' = [job EXCEPT ![p] = IF stalls[p] < MaxStalls THEN "waiting" ELSE "failed"]
  /\ UNCHANGED <<inventory, pc, loop, attempts, late, events, log, process, lost>>

\* The replica dies: its sagas stop where they are, and what they have asked of
\* stock-service goes on without them.
GatewayCrash(g) ==
  /\ g \in up /\ up' = up \ {g}
  /\ crashes < MaxCrashes /\ crashes' = crashes + 1
  /\ LET hit(p) == GatewayOf[p] = g
     IN  /\ pc' = [p \in Placements |-> IF hit(p) /\ pc[p] \in Running THEN "dead" ELSE pc[p]]
         /\ loop' = [p \in Placements |-> IF hit(p) THEN "over" ELSE loop[p]]
         /\ late' = late
              \union {<<p, "deduct">> : p \in {q \in Placements : hit(q) /\ loop[q] = "sent"}}
              \union {<<p, "restore">> : p \in {q \in Placements : hit(q) /\ pc[q] = "restoring"}}
  /\ events' = {e \in events : e[1] # g}
  /\ UNCHANGED <<inventory, attempts, job, stalls, log, lost>>

GatewayRestart(g) ==
  /\ g \notin up
  /\ up' = up \union {g}
  /\ UNCHANGED <<inventory, pc, loop, attempts, late, kitchen, log, crashes, lost>>

-----------------------------------------------------------------------------
\* placeOrder after its first await, and the loop it started.
Saga(p) ==
  \/ Fire(p) \/ BreakerRejects(p) \/ BreakerTimesOut(p) \/ Reject(p)
  \/ StartLoop(p) \/ Retry(p) \/ Resend(p)
  \/ DeductionSucceeds(p) \/ DeductionFails(p) \/ DeductTimesOut(p)
  \/ QueueAdd(p) \/ KitchenQueued(p) \/ Accept(p) \/ Confirm(p)
  \/ QueueFails(p) \/ Compensate(p) \/ SendRestore(p)
  \/ RolledBack(p) \/ RestoreFails(p) \/ RestoreTimesOut(p) \/ Busy(p)

Stock(p) ==
  \/ StockDeducts(p) \/ StockAnswers(p) \/ StockRestores(p) \/ StockKeeps(p)
  \/ \E op \in {"deduct", "restore"} : LateCall(p, op)

Kitchen(p) == Take(p) \/ Cook(p) \/ RecoverStalled(p)

SagaNext ==
  \/ \E p \in Placements : Place(p) \/ Saga(p) \/ Stock(p) \/ Kitchen(p)
  \/ \E g \in Gateways, p \in Placements : Finalize(g, p)
  \/ \E g \in Gateways : GatewayCrash(g) \/ GatewayRestart(g)
  \/ KitchenCrash

SagaSpec == SagaInit /\ [][SagaNext]_saga

(* PostgreSQL, Redis and the worker keep serving, and timers fire; nothing *)
(* is asked of stock-service, whose silence axios and the breaker bound.   *)
SagaFairSpec ==
  /\ SagaSpec
  /\ \A p \in Placements : WF_saga(Saga(p)) /\ WF_saga(Kitchen(p))

-----------------------------------------------------------------------------
(* Properties.                                                             *)

\* Every variable keeps its type, and no deduction is tried more than MaxAttempts
\* times.
SagaTypeOK ==
  /\ TypeOK
  /\ pc \in [Placements -> {"idle", "dead"} \union Running \union Answers]
  /\ loop \in [Placements -> {"off", "queued", "over"} \union InLoop]
  /\ attempts \in [Placements -> 0 .. MaxAttempts - 1]
  /\ late \subseteq Placements \X {"deduct", "restore"}
  /\ job \in [Placements -> {"none", "waiting", "active", "stalled", "completed", "failed"}]
  /\ stalls \in [Placements -> 0 .. MaxStalls + 1]
  /\ events \subseteq Gateways \X Placements
  /\ log \in [Orders -> Seq(Statuses)]
  /\ up \subseteq Gateways
  /\ crashes \in 0 .. MaxCrashes /\ lost \in 0 .. MaxLost

Logged(o, status) == \E k \in 1 .. Len(log[o]) : log[o][k] = status

\* The kitchen never cooks, and nobody confirms or completes, an order whose
\* portions are not deducted: no late call, crash or compensation takes back the
\* stock of an order the kitchen has (placeOrder, finalizeOrder).
CookedIsPaid ==
  \A p \in Placements :
    job[p] # "none" \/ pc[p] = "confirmed" \/ Logged(Order(p), "COMPLETED")
      => Order(p) \in deducted

\* The event log tells how a compensation ended: a recorded rollback has happened and
\* nothing undoes it, and stock that a refused order still holds, with no restore
\* under way, is marked for manual intervention.  Of that mark nothing is promised once
\* an INSERT has failed: logEvent prints the error, and placeOrder goes on without the record.
CompensationRecorded ==
  \A p \in Placements :
    /\ Logged(Order(p), "ROLLED_BACK") => Order(p) \notin deducted
    /\ (pc[p] = "busy" /\ Order(p) \in deducted /\ lost = 0)
         => Logged(Order(p), "MANUAL_INTERVENTION_REQUIRED")

\* The log never says of an order that holds portions without a kitchen job, a dead
\* saga's among them, that it is cooked, completed or rolled back, as long as no INSERT
\* has failed.  It does not tell such orders apart: PENDING and FAILED are also what is
\* replayed of orders that hold nothing.
HeldIsOnRecord ==
  \A p \in Placements :
    (Order(p) \in deducted /\ job[p] = "none" /\ lost = 0)
      => replayEvents(Order(p)) \in
           {"PENDING", "VERIFIED", "FAILED", "COMPENSATING", "MANUAL_INTERVENTION_REQUIRED"}

PastStock ==
  {"deducted", "adding", "queued", "accepted", "confirmed", "queueFailed", "compensating",
   "restoring", "restoreOk", "restoreError", "rolledBack", "manual", "busy"}
WithJob == {"adding", "queued", "accepted", "confirmed", "dead"}

\* Where a placement's loop, late calls and job can be, given where placeOrder is.
Control(p) ==
  /\ pc[p] \in {"idle", "placed"} => loop[p] \in {"off", "over"}
  /\ pc[p] \in PastStock \union {"dead"} => loop[p] = "over"
  /\ <<p, "deduct">> \in late => loop[p] = "over" /\ pc[p] \in {"failing", "rejected", "dead"}
  /\ <<p, "restore">> \in late => job[p] = "none" /\ pc[p] \in {"manual", "busy", "dead"}
  /\ job[p] # "none" => pc[p] \in WithJob
  /\ job[p] # "failed" => stalls[p] <= MaxStalls

\* A deduction that was acknowledged is kept until its saga compensates.
Paid(p) ==
  \/ loop[p] = "gotOk"
  \/ pc[p] \in {"deducted"} \union (WithJob \ {"dead"})
  \/ job[p] # "none"
  => Order(p) \in deducted

\* A placement that has asked for a restore, or died where it may have.
Refunds(p) ==
  \/ pc[p] \in {"restoring", "restoreOk", "restoreError", "rolledBack", "manual", "busy"}
  \/ pc[p] = "dead" /\ job[p] = "none"

\* Whatever keys are sent, nothing but the compensation of another placement with the same
\* key can take back the stock of an order the kitchen has (placeOrder).
PaidUnlessRefunded ==
  \A p \in Placements :
    Paid(p) \/ \E q \in Placements \ {p} : Order(q) = Order(p) /\ Refunds(q)

\* The completion listener finalizes what the kitchen has completed.
Told(p) ==
  /\ \A g \in Gateways : <<g, p>> \in events => job[p] = "completed"
  /\ Logged(Order(p), "COMPLETED") => job[p] = "completed"

\* What the log says of a compensation, and when.
Compensated(p) ==
  /\ pc[p] = "restoreOk" => Order(p) \notin deducted
  /\ Logged(Order(p), "ROLLED_BACK") =>
       /\ pc[p] \in {"rolledBack", "busy", "dead"}
       /\ Order(p) \notin deducted /\ <<p, "deduct">> \notin late
  /\ (lost = 0 /\ pc[p] \in {"rolledBack", "busy"}) =>
       \/ Logged(Order(p), "ROLLED_BACK")
       \/ pc[p] = "busy" /\ Logged(Order(p), "MANUAL_INTERVENTION_REQUIRED")
  /\ (lost = 0 /\ pc[p] = "manual") => Logged(Order(p), "MANUAL_INTERVENTION_REQUIRED")

\* Invariant of the proofs, for keys that are used once: who may still change the
\* stock of a placement, and what its log promises of it.
SagaInv ==
  SagaTypeOK /\ \A p \in Placements : Control(p) /\ Paid(p) /\ Told(p) /\ Compensated(p)

\* What the saga sees of the kitchen is JobQueue, which KitchenQueue implements.
InQueue(state) ==
  CASE state \in {"waiting", "active", "stalled"} -> "queued"
    [] state = "completed" -> "done"
    [] state = "failed" -> "lost"
    [] OTHER -> "none"
Jobs == INSTANCE JobQueue
  WITH Jobs <- Placements, job <- [p \in Placements |-> InQueue(job[p])]

\* What it sees of breaker and bulkhead is Bulkhead, which CircuitBreaker implements.
HeardOf(state) ==
  IF state \in {"idle", "placed"} THEN "nothing"
  ELSE IF state = "deducting" THEN "waiting" ELSE "over"
ActionOf(state) ==
  IF state \in {"off", "over"} THEN "none"
  ELSE IF state = "queued" THEN "queued" ELSE "running"
Bulkheads == INSTANCE Bulkhead
  WITH Calls <- Placements, Replicas <- Gateways, ReplicaOf <- GatewayOf,
       heard <- [p \in Placements |-> HeardOf(pc[p])],
       action <- [p \in Placements |-> ActionOf(loop[p])]

\* Through every timeout and crash the saga and its late calls use the stock, the kitchen
\* queue and the bulkheads as these promise: Inventory, JobQueue and Bulkhead.
KeepsContracts == Spec /\ Jobs!QueueSpec /\ Bulkheads!CallsSpec

\* Every POST /order is answered, whatever stock-service does, unless the gateway
\* serving it dies (the timeouts of axios and of the breaker).
Answered ==
  \A p \in Placements : pc[p] = "placed" ~> pc[p] \in Answers \union {"dead"}

\* A rejected order holds no stock once nothing of it is under way any more
\* (JUDGE_GUIDE.md: "auto-compensation").
RejectedHoldsNothing ==
  \A p \in Placements :
    (pc[p] = "rejected" /\ loop[p] \in {"off", "over"} /\ <<p, "deduct">> \notin late)
      => Order(p) \notin deducted

\* The event log replays a completed order as completed (JUDGE_GUIDE.md: "audit trail +
\* replay capability"; the dashboard's polls read nothing else).
ReplayedAsCompleted ==
  \A o \in Orders : Logged(o, "COMPLETED") => replayEvents(o) = "COMPLETED"
=============================================================================
