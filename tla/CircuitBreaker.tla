---------------------------- MODULE CircuitBreaker ----------------------------
(***************************************************************************)
(* The opossum breaker and the p-limit bulkhead that every deduction of an *)
(* order-gateway replica goes through, as orderService.ts configures them. *)
(* A call is one stockBreaker.fire; its action, deductStockWithRetry, goes *)
(* on in the bulkhead when the breaker has stopped waiting for it.         *)
(* Time is counted in units of 200 ms, by which the backoff grows.         *)
(***************************************************************************)
EXTENDS Naturals, Sequences, FiniteSets

CONSTANTS
  Calls,       \* callers, each with one call at a time
  Capacity,    \* calls the breaker waits for at a time (500 in the code)
  Slots,       \* actions the bulkhead runs at a time (200 in the code)
  MaxAttempts, \* tries of one deduction (15 in the code)
  Timeout,     \* how long the breaker waits for a call (50 units in the code)
  Behaviours,  \* what stock-service may do in an instance
  MaxFires,    \* bound: calls, and failures, that one rolling window counts
  MaxChanges   \* bound: changes of what stock-service does

ASSUME BreakerAssumption ==
  /\ IsFiniteSet(Calls)
  /\ {Capacity, Slots, MaxAttempts, Timeout} \subseteq Nat \ {0}
  /\ {MaxFires, MaxChanges} \subseteq Nat
  /\ Behaviours \subseteq {"answers", "conflicts", "silent"}

VARIABLES
  state,       \* of the breaker
  pendingClose,\* half-open, and the trial call is still to come
  trials,      \* history: calls admitted since the breaker became half-open
  fires, failures, \* what the rolling window counts
  call,        \* of each caller: what it has heard of its call
  action,      \* of each call: where deductStockWithRetry is
  queue,       \* actions waiting for the bulkhead, first come first served
  attempts,    \* conflicts of each action
  age,         \* time each call has spent in backoffs
  stock,       \* what stock-service does at present
  changes      \* counter of the bound

circuit == <<state, pendingClose, trials>>
window == <<fires, failures>>
loop == <<action, queue, attempts, age>>
env == <<stock, changes>>
breaker == <<circuit, window, call, loop, env>>

InBulkhead == {c \in Calls : action[c] \in {"sent", "backoff"}}
Waiting == {c \in Calls : call[c] = "waiting"}

BreakerInit ==
  /\ state = "closed" /\ pendingClose = FALSE /\ trials = {}
  /\ fires = 0 /\ failures = 0
  /\ call = [c \in Calls |-> "idle"]
  /\ action = [c \in Calls |-> "none"] /\ queue = <<>>
  /\ attempts = [c \in Calls |-> 0] /\ age = [c \in Calls |-> 0]
  /\ stock \in Behaviours /\ changes = 0

-----------------------------------------------------------------------------
(* opossum.                                                                *)

\* With one more failure, more than half of the n calls in the window have failed, or
\* the breaker is half-open.
Trips(n) == state = "halfOpen" \/ 2 * (failures + 1) > n

\* The history ends with the half-open state.
TrialsEnd == trials' = IF state' = "halfOpen" THEN trials ELSE {}

\* The call ends in an error, and the fallback turns it into a 429.
Fails(c, n) ==
  /\ call' = [call EXCEPT ![c] = "failed"]
  /\ failures' = IF failures < MaxFires THEN failures + 1 ELSE failures
  /\ state' = IF Trips(n) THEN "open" ELSE state
  /\ pendingClose' = FALSE /\ TrialsEnd

\* Fault: an error that errorFilter lets pass is no success to a half-open breaker.
SucceedsUnseen(c) ==
  /\ call' = [call EXCEPT ![c] = "answered"]
  /\ UNCHANGED <<circuit, failures>>

\* The call ends with an answer; a business error (400, 404, 409) is one to errorFilter.
Succeeds(c) ==
  /\ call' = [call EXCEPT ![c] = "answered"]
  /\ state' = IF state = "halfOpen" THEN "closed" ELSE state
  /\ pendingClose' = FALSE /\ TrialsEnd
  /\ UNCHANGED failures

Admits == state = "closed" \/ pendingClose

Reject(c) ==
  /\ ~Admits
  /\ call' = [call EXCEPT ![c] = "failed"]
  /\ UNCHANGED <<circuit, failures, loop>>

\* "Semaphore locked" counts as a failure.
Saturate(c) ==
  /\ Admits /\ Cardinality(Waiting) >= Capacity
  /\ Fails(c, fires + 1)
  /\ UNCHANGED loop

\* What an admitted call does but for the breaker's pendingClose.
Enters(c) ==
  /\ Admits /\ Cardinality(Waiting) < Capacity
  /\ trials' = IF state = "halfOpen" THEN trials \union {c} ELSE trials
  /\ call' = [call EXCEPT ![c] = "waiting"]
  /\ action' = [action EXCEPT ![c] = "queued"]
  /\ queue' = Append(queue, c)
  /\ UNCHANGED <<state, failures, attempts, age>>

\* Fault: the trial call does not clear pendingClose, so the next call is one too.
AdmitStillPending(c) == Enters(c) /\ UNCHANGED pendingClose
Admit(c) == Enters(c) /\ pendingClose' = FALSE

\* stockBreaker.fire in placeOrder.
Fire(c) ==
  /\ call[c] = "idle"
  /\ fires < MaxFires /\ fires' = fires + 1
  /\ Reject(c) \/ Saturate(c) \/ Admit(c)
  /\ UNCHANGED env

\* The time a call may spend besides its backoffs: in the queue of a full bulkhead
\* whose actions are slow, or waiting for a stock-service that is silent.
Overdue(c) ==
  \/ age[c] >= Timeout
  \/ action[c] = "queued" /\ Cardinality(InBulkhead) >= Slots /\ stock # "answers"
  \/ action[c] = "sent" /\ stock = "silent"

\* The breaker stops waiting; the action stays where it is.
TimesOut(c) ==
  /\ call[c] = "waiting" /\ Overdue(c)
  /\ Fails(c, fires)
  /\ UNCHANGED <<fires, loop, env>>

\* resetTimeout after the breaker opened.
HalfOpen ==
  /\ state = "open"
  /\ state' = "halfOpen" /\ pendingClose' = TRUE /\ trials' = {}
  /\ UNCHANGED <<window, call, loop, env>>

\* The oldest bucket leaves the rolling window.
Roll ==
  /\ \E n \in 0 .. fires, m \in 0 .. failures :
       /\ n + m < fires + failures
       /\ fires' = n /\ failures' = m
  /\ UNCHANGED <<circuit, call, loop, env>>

-----------------------------------------------------------------------------
(* deductStockWithRetry in the bulkhead.                                   *)

\* Fault: the slot of a call is free again when the breaker gives it up.
SlotFreeWhenFailed == Cardinality(InBulkhead \intersect Waiting) < Slots
SlotFree == Cardinality(InBulkhead) < Slots

Start ==
  /\ queue # <<>> /\ SlotFree
  /\ action' = [action EXCEPT ![Head(queue)] = "sent"]
  /\ queue' = Tail(queue)
  /\ UNCHANGED <<circuit, window, call, attempts, age, env>>

\* The action leaves the bulkhead; the breaker hears of it if it still waits.
Ends(c) ==
  /\ action' = [action EXCEPT ![c] = "none"]
  /\ attempts' = [attempts EXCEPT ![c] = 0]
  /\ age' = [age EXCEPT ![c] = 0]
  /\ UNCHANGED <<fires, queue, env>>

Unheard(c) == call[c] # "waiting" /\ UNCHANGED <<circuit, failures, call>>

RetriesUnbounded(c) == attempts[c] <= MaxAttempts  \* fault: both tests are left out
RetriesLeft(c) == attempts[c] < MaxAttempts - 1

\* A deduction, a refusal, or the last of too many conflicts.
Answered(c) ==
  /\ action[c] = "sent"
  /\ stock = "answers" \/ (stock = "conflicts" /\ ~RetriesLeft(c))
  /\ Ends(c)
  /\ Unheard(c) \/ (call[c] = "waiting" /\ Succeeds(c))

\* A 409 with retries left: Math.random() * 200 * attempts milliseconds.
Conflict(c) ==
  /\ action[c] = "sent" /\ stock = "conflicts" /\ RetriesLeft(c)
  /\ attempts' = [attempts EXCEPT ![c] = @ + 1]
  /\ action' = [action EXCEPT ![c] = "backoff"]
  /\ \E pause \in 0 .. attempts[c] + 1 :
       age' = [age EXCEPT ![c] = IF @ + pause < Timeout THEN @ + pause ELSE Timeout]
  /\ UNCHANGED <<circuit, window, call, queue, env>>

Resend(c) ==
  /\ action[c] = "backoff"
  /\ action' = [action EXCEPT ![c] = "sent"]
  /\ UNCHANGED <<circuit, window, call, queue, attempts, age, env>>

\* axios gives up after 2 s, or the connection fails.  The slot is free again, but a
\* stock-service that is only slow may still be at work on the request: what follows of it
\* there is in OrderSaga.
NoAnswer(c) ==
  /\ action[c] = "sent" /\ stock = "silent"
  /\ Ends(c)
  /\ Unheard(c) \/ (call[c] = "waiting" /\ Fails(c, fires))

-----------------------------------------------------------------------------
\* The caller has its answer and comes back with another order.
Again(c) ==
  /\ call[c] \in {"answered", "failed"} /\ action[c] = "none"
  /\ call' = [call EXCEPT ![c] = "idle"]
  /\ UNCHANGED <<circuit, window, loop, env>>

Change ==
  /\ changes < MaxChanges /\ changes' = changes + 1
  /\ stock' \in Behaviours \ {stock}
  /\ UNCHANGED <<circuit, window, call, loop>>

Act(c) == Answered(c) \/ Conflict(c) \/ Resend(c) \/ NoAnswer(c)

BreakerNext ==
  \/ \E c \in Calls : Fire(c) \/ TimesOut(c) \/ Act(c) \/ Again(c)
  \/ HalfOpen \/ Roll \/ Start \/ Change

BreakerSpec == BreakerInit /\ [][BreakerNext]_breaker

\* Timers fire, the bulkhead runs, and callers keep coming.
BreakerFairSpec ==
  /\ BreakerSpec
  /\ WF_breaker(HalfOpen) /\ WF_breaker(Roll) /\ WF_breaker(Start)
  /\ \A c \in Calls : WF_breaker(Act(c)) /\ WF_breaker(Fire(c)) /\ WF_breaker(Again(c))

-----------------------------------------------------------------------------
\* Every variable keeps its type, and no deduction is tried more than MaxAttempts times.
BreakerTypeOK ==
  /\ state \in {"closed", "open", "halfOpen"} /\ pendingClose \in BOOLEAN
  /\ trials \subseteq Calls
  /\ fires \in 0 .. MaxFires /\ failures \in 0 .. MaxFires
  /\ call \in [Calls -> {"idle", "waiting", "answered", "failed"}]
  /\ action \in [Calls -> {"none", "queued", "sent", "backoff"}]
  /\ queue \in Seq(Calls)
  /\ attempts \in [Calls -> 0 .. MaxAttempts - 1]
  /\ age \in [Calls -> 0 .. Timeout]
  /\ stock \in Behaviours /\ changes \in 0 .. MaxChanges

\* A half-open breaker waits for its trial or for a call that will end its state: it is
\* never left rejecting everything with nothing under way (late results of calls from
\* before it opened, timeouts and saturation included).
HalfOpenMovesOn ==
  /\ pendingClose => state = "halfOpen"
  /\ state = "halfOpen" => pendingClose \/ Waiting # {}

\* What placeOrder sees of breaker and bulkhead is Bulkhead, for one replica.
HeardOf(h) == IF h = "idle" THEN "nothing" ELSE IF h = "waiting" THEN "waiting" ELSE "over"
ActionOf(a) == IF a \in {"sent", "backoff"} THEN "running" ELSE a
Abs == INSTANCE Bulkhead
  WITH Replicas <- {"gateway"}, ReplicaOf <- [c \in Calls |-> "gateway"],
       heard <- [c \in Calls |-> HeardOf(call[c])],
       action <- [c \in Calls |-> ActionOf(action[c])]

\* Whatever state the breaker is in and whatever it has given up, a refused call has no
\* action, an admitted one has one, once, and only so many actions are in the bulkhead.
\* The limit is on actions, each with one request under way that axios has not given up:
\* README.md:44's "cap concurrent requests to downstream dependencies" says more, as
\* stock-service may still be at work on requests given up, and /restore takes no slot.
ImplementsBulkhead == Abs!CallsSpec

\* Nobody waits for nothing, and no call comes twice: a call the breaker waits for has its
\* action in the queue, once, or in the bulkhead, and an idle caller has none there.
Attended ==
  /\ \A c \in Calls :
       /\ call[c] = "waiting" => action[c] # "none"
       /\ call[c] = "idle" => action[c] = "none"
       /\ action[c] = "queued" <=> \E k \in 1 .. Len(queue) : queue[k] = c
  /\ \A j, k \in 1 .. Len(queue) : queue[j] = queue[k] => j = k

\* A half-open breaker tries stock-service with one call at most, counted from the moment
\* it became half-open, and is half-open no longer than it waits for that call: late results
\* of calls from before, saturation and returning callers let no second one in.
OneTrial ==
  state = "halfOpen" => /\ trials \subseteq Waiting
                        /\ \A c, d \in trials : c = d

\* Once stock-service answers for good the breaker closes again and again: no mixture of
\* trials, late results and stale counts keeps it from recovering.
Recovers == <>[](stock = "answers") => []<>(state = "closed")
=============================================================================
