------------------------------ MODULE Dashboard ------------------------------
(***************************************************************************)
(* react-dashboard: the order a student is shown, written by three         *)
(* callbacks that overtake each other: the answer to POST /order, the      *)
(* socket's notifications and the polls of GET /order/history.  Gateway    *)
(* and kitchen are reduced to what they tell the student and the event log.*)
(* Orders are numbered as they are placed; order 0 is the empty id of an   *)
(* order whose answer has not come yet.                                    *)
(***************************************************************************)
EXTENDS Naturals, Page

CONSTANTS
  MaxOrders,  \* bound: orders placed in one behaviour
  Polls       \* bound: polls in flight at once

ASSUME DashAssumption == MaxOrders \in Nat \ {0}

VARIABLES
  orderStatus, \* what the page shows of which order
  request,   \* the order whose POST is awaited (orderLoading), or 0
  placed,    \* orders placed so far
  polls,     \* polls in flight: asked about an order, or answered
  saga,      \* how far placeOrder is with each order
  cook,      \* the kitchen job of each order
  history,   \* the last status in the event log of each order
  said       \* the statuses sent to notification-hub for each order

page == <<loggedIn, orderStatus>>
world == <<saga, cook, history, said>>
dash == <<page, request, placed, polls, world>>

Orders == 1 .. MaxOrders
ORDER_STAGES == <<"PENDING", "VERIFIED", "IN_KITCHEN", "COMPLETED">>
Failures == {"FAILED", "COMPENSATING", "ROLLED_BACK"}
Stages == {ORDER_STAGES[k] : k \in 1 .. 4}

stageIndex(s) == IF s \in Stages THEN CHOOSE k \in 1 .. 4 : ORDER_STAGES[k] = s ELSE 0

Shown(o, s) == [orderId |-> o, status |-> s]
Nothing == Shown(0, "null")
Idle == [state |-> "idle", orderId |-> 0]

DashInit ==
  /\ loggedIn = FALSE /\ orderStatus = Nothing
  /\ request = 0 /\ placed = 0
  /\ polls = [k \in Polls |-> Idle]
  /\ saga = [o \in Orders |-> "none"]
  /\ cook = [o \in Orders |-> "none"]
  /\ history = [o \in Orders |-> "none"]
  /\ said = [o \in Orders |-> {}]

-----------------------------------------------------------------------------
(* The page.                                                               *)

handleLogin ==
  /\ ~loggedIn /\ loggedIn' = TRUE
  /\ UNCHANGED <<orderStatus, request, placed, polls, world>>

\* The tracked order stays, and so do requests under way.
Logout ==
  /\ loggedIn /\ loggedIn' = FALSE
  /\ UNCHANGED <<orderStatus, request, placed, polls, world>>

\* "Place Another Order".
Dismiss ==
  /\ loggedIn /\ orderStatus.status = "COMPLETED"
  /\ orderStatus' = Nothing
  /\ UNCHANGED <<loggedIn, request, placed, polls, world>>

handleOrder ==
  /\ loggedIn /\ orderStatus = Nothing /\ request = 0
  /\ placed < MaxOrders /\ placed' = placed + 1
  /\ request' = placed'
  /\ orderStatus' = Shown(0, "PENDING")
  /\ saga' = [saga EXCEPT ![placed'] = "sent"]
  /\ UNCHANGED <<loggedIn, polls, cook, history, said>>

\* Fault: the answer's status field is stored in place of its sagaState.
AnswerStatus(o) == Shown(o, "Confirmed")

\* Fault: the answer overwrites what the socket has shown.
AnswerAlways(o) == Shown(o, "IN_KITCHEN")

\* A more advanced status of the same order is kept.
AnswerShown(o) ==
  IF orderStatus.orderId = o /\ stageIndex("IN_KITCHEN") < stageIndex(orderStatus.status)
  THEN orderStatus
  ELSE Shown(o, "IN_KITCHEN")

Answered ==
  /\ request # 0 /\ saga[request] = "accepted"
  /\ orderStatus' = AnswerShown(request)
  /\ request' = 0
  /\ UNCHANGED <<loggedIn, placed, polls, world>>

\* The gateway answers with an error, or the connection breaks, at any time.
RequestFails ==
  /\ request # 0 /\ request' = 0
  /\ orderStatus' = Nothing
  /\ UNCHANGED <<loggedIn, placed, polls, world>>

\* A notification of any order arrives, however late and however often.
onOrderStatus(o, s) ==
  /\ loggedIn /\ s \in said[o]
  /\ orderStatus # Nothing /\ orderStatus.orderId \in {0, o}
  /\ s \in Stages => stageIndex(s) >= stageIndex(orderStatus.status)
  /\ orderStatus' = Shown(o, s)
  /\ UNCHANGED <<loggedIn, request, placed, polls, world>>

-----------------------------------------------------------------------------
(* The status polling fallback.                                            *)

\* Fault: polling stops once the socket has delivered something.
PollingPending == loggedIn /\ orderStatus.orderId # 0 /\ orderStatus.status = "PENDING"

Polling == loggedIn /\ orderStatus.orderId # 0 /\ orderStatus.status # "COMPLETED"

PollSend(k) ==
  /\ Polling /\ polls[k] = Idle
  /\ polls' = [polls EXCEPT ![k] = [state |-> "asked", orderId |-> orderStatus.orderId]]
  /\ UNCHANGED <<page, request, placed, world>>

\* GET /history: replayEvents ends with the status logged last; an order without
\* events is a 404, which the page ignores like every status but COMPLETED.
replayEvents(k) ==
  /\ polls[k].state = "asked"
  /\ polls' = [polls EXCEPT ![k].state =
                 IF history[polls[k].orderId] = "COMPLETED" THEN "completed" ELSE "other"]
  /\ UNCHANGED <<page, request, placed, world>>

\* Fault: the polled status is given to the order shown, not to the one polled.
CompletedShown(o) == Shown(orderStatus.orderId, "COMPLETED")

Completed(o) == Shown(o, "COMPLETED")

\* The answer is shown whatever is on the page by then.
pollStatus(k) ==
  /\ polls[k].state \in {"completed", "other"}
  /\ orderStatus' = IF polls[k].state = "completed" THEN Completed(polls[k].orderId) ELSE orderStatus
  /\ polls' = [polls EXCEPT ![k] = Idle]
  /\ UNCHANGED <<loggedIn, request, placed, world>>

PollFails(k) ==
  /\ polls[k].state = "asked"
  /\ polls' = [polls EXCEPT ![k] = Idle]
  /\ UNCHANGED <<page, request, placed, world>>

-----------------------------------------------------------------------------
(* What gateway and kitchen tell.                                          *)

\* logEvent, whose INSERT may fail, and updateStatus, which may not arrive.
Logs(o, s) == history' \in {history, [history EXCEPT ![o] = s]}
Tells(o, s) == said' = [said EXCEPT ![o] = @ \union {s}]

\* From where to where a status that is logged and told takes placeOrder.
Moves ==
  {<<"sent", "PENDING">>, <<"PENDING", "VERIFIED">>, <<"PENDING", "FAILED">>,
   <<"VERIFIED", "COMPENSATING">>, <<"COMPENSATING", "ROLLED_BACK">>, <<"added", "IN_KITCHEN">>}

placeOrder(o, s) ==
  /\ <<saga[o], s>> \in Moves
  /\ saga' = [saga EXCEPT ![o] = s]
  /\ Logs(o, s) /\ Tells(o, s)
  /\ UNCHANGED <<page, request, placed, polls, cook>>

RestoreFails(o) ==
  /\ saga[o] = "COMPENSATING"
  /\ saga' = [saga EXCEPT ![o] = "manual"]
  /\ Logs(o, "MANUAL_INTERVENTION_REQUIRED")
  /\ UNCHANGED <<page, request, placed, polls, cook, said>>

QueueAdd(o) ==
  /\ saga[o] = "VERIFIED"
  /\ saga' = [saga EXCEPT ![o] = "added"]
  /\ cook' = [cook EXCEPT ![o] = "waiting"]
  /\ UNCHANGED <<page, request, placed, polls, history, said>>

\* OrderAccepted, which may be logged after OrderCompleted.
Accept(o) ==
  /\ saga[o] = "IN_KITCHEN"
  /\ saga' = [saga EXCEPT ![o] = "accepted"]
  /\ Logs(o, "IN_KITCHEN")
  /\ UNCHANGED <<page, request, placed, polls, cook, said>>

processOrder(o) ==
  /\ \/ cook[o] = "waiting" /\ cook' = [cook EXCEPT ![o] = "cooking"] /\ Tells(o, "IN_KITCHEN")
     \/ cook[o] = "cooking" /\ cook' = [cook EXCEPT ![o] = "cooked"] /\ Tells(o, "COMPLETED")
  /\ UNCHANGED <<page, request, placed, polls, saga, history>>

\* Every gateway replica finalizes the order.
finalizeOrder(o) ==
  /\ cook[o] = "cooked"
  /\ Logs(o, "COMPLETED") /\ Tells(o, "COMPLETED")
  /\ UNCHANGED <<page, request, placed, polls, saga, cook>>

-----------------------------------------------------------------------------
DashNext ==
  \/ handleLogin \/ Logout \/ Dismiss \/ handleOrder \/ Answered \/ RequestFails
  \/ \E o \in Orders, s \in Stages \union Failures : onOrderStatus(o, s) \/ placeOrder(o, s)
  \/ \E k \in Polls : PollSend(k) \/ replayEvents(k) \/ pollStatus(k) \/ PollFails(k)
  \/ \E o \in Orders : RestoreFails(o) \/ QueueAdd(o) \/ Accept(o) \/ processOrder(o) \/ finalizeOrder(o)

DashSpec == DashInit /\ [][DashNext]_dash

\* The interval fires, the browser runs its callbacks, and not every poll fails.
DashFairSpec ==
  /\ DashSpec
  /\ \A k \in Polls : WF_dash(PollSend(k)) /\ SF_dash(replayEvents(k)) /\ WF_dash(pollStatus(k))

-----------------------------------------------------------------------------
\* Every variable keeps its type; an order without an id is only ever pending, and
\* only while its answer is awaited.
DashTypeOK ==
  /\ loggedIn \in BOOLEAN
  /\ \/ orderStatus \in {Nothing} \union [orderId : Orders, status : Stages \union Failures]
     \/ orderStatus = Shown(0, "PENDING") /\ request # 0
  /\ request \in 0 .. placed /\ placed \in 0 .. MaxOrders
  /\ polls \in [Polls -> [state : {"idle", "asked", "completed", "other"}, orderId : 0 .. MaxOrders]]
  /\ saga \in [Orders -> {"none", "sent", "added", "accepted", "manual"} \union Stages \union Failures]
  /\ cook \in [Orders -> {"none", "waiting", "cooking", "cooked"}]
  /\ history \in [Orders -> {"none", "MANUAL_INTERVENTION_REQUIRED"} \union Stages \union Failures]
  /\ said \in [Orders -> SUBSET (Stages \union Failures)]

\* What the page says of an order is true: gateway or kitchen has reported that status
\* of that order, whichever of answer, socket and poll wrote it, and in whatever order.
ShownIsTrue ==
  orderStatus.orderId # 0 => orderStatus.status \in said[orderStatus.orderId]

\* Invariant of the proofs: whatever the page may still be told is true as well.
DashInv ==
  /\ DashTypeOK /\ ShownIsTrue
  /\ \A o \in Orders :
       /\ cook[o] = "cooked" \/ history[o] = "COMPLETED" => "COMPLETED" \in said[o]
       /\ saga[o] \in {"IN_KITCHEN", "accepted"} => "IN_KITCHEN" \in said[o]
  /\ \A k \in Polls :
       /\ polls[k].state # "idle" => polls[k].orderId # 0
       /\ polls[k].state = "completed" => "COMPLETED" \in said[polls[k].orderId]

\* From one stage the page never goes back to an earlier one of the same order, though the
\* answer to POST /order comes after the kitchen's notifications ("Avoid overwriting a
\* more advanced status").  FAILED and COMPENSATING are no stages: they may take the place
\* of any, and after one of them an earlier stage than the last may be shown.
StageNotBack ==
  [][(orderStatus.orderId # 0 /\ orderStatus'.orderId = orderStatus.orderId
        /\ orderStatus'.status \notin Failures)
       => stageIndex(orderStatus'.status) >= stageIndex(orderStatus.status)]_dash

\* Without a single notification, an order whose history ends completed is shown
\* completed, as long as the student stays and nothing else takes its place (the
\* polling fallback).
FollowsHistory ==
  \A o \in Orders :
    (loggedIn /\ orderStatus.orderId = o /\ history[o] = "COMPLETED") ~>
      \/ orderStatus = Shown(o, "COMPLETED")
      \/ ~loggedIn \/ orderStatus.orderId # o \/ history[o] # "COMPLETED"
=============================================================================
