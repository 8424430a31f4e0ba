--------------------------- MODULE DashboardProofs ---------------------------
(* What the page says is true, for any number of orders and polls in flight. *)
EXTENDS Dashboard, ServicePanels, TLAPS

\* The four stages are numbered in their order, and nothing else has a number.
LEMMA StageNumbers ==
  /\ \A s \in Stages : stageIndex(s) \in 1 .. 4
  /\ \A s : s \notin Stages => stageIndex(s) = 0
  /\ stageIndex("COMPLETED") = 4 /\ "COMPLETED" \in Stages
  /\ stageIndex("IN_KITCHEN") = 3 /\ "IN_KITCHEN" \in Stages
  /\ Stages = {"PENDING", "VERIFIED", "IN_KITCHEN", "COMPLETED"}
<1>1. Stages = {"PENDING", "VERIFIED", "IN_KITCHEN", "COMPLETED"}
  <2>1. ORDER_STAGES[1] = "PENDING" /\ ORDER_STAGES[2] = "VERIFIED"
        /\ ORDER_STAGES[3] = "IN_KITCHEN" /\ ORDER_STAGES[4] = "COMPLETED"
    BY DEF ORDER_STAGES
  <2>2. 1 .. 4 = {1, 2, 3, 4}
    OBVIOUS
  <2> QED BY <2>1, <2>2 DEF Stages
<1>2. ASSUME NEW s \in Stages
      PROVE  stageIndex(s) \in 1 .. 4 /\ ORDER_STAGES[stageIndex(s)] = s
  <2>1. PICK k \in 1 .. 4 : ORDER_STAGES[k] = s
    BY DEF Stages
  <2>2. stageIndex(s) = CHOOSE j \in 1 .. 4 : ORDER_STAGES[j] = s
    BY DEF stageIndex
  <2> QED BY <2>1, <2>2
<1>3. stageIndex("COMPLETED") = 4 /\ stageIndex("IN_KITCHEN") = 3
  BY <1>1, <1>2 DEF ORDER_STAGES
<1>4. \A s : s \notin Stages => stageIndex(s) = 0
  BY DEF stageIndex
<1> QED BY <1>1, <1>2, <1>3, <1>4

LEMMA DashInitInv == DashInit => DashInv
<1> SUFFICES ASSUME DashInit PROVE DashInv
  OBVIOUS
<1> USE DashAssumption DEF DashInit, Shown, Nothing, Idle
<1>1. polls \in [Polls -> [state : {"idle", "asked", "completed", "other"}, orderId : 0 .. MaxOrders]]
  OBVIOUS
<1>2. saga \in [Orders -> {"none", "sent", "added", "accepted", "manual"} \union Stages \union Failures]
  OBVIOUS
<1>3. history \in [Orders -> {"none", "MANUAL_INTERVENTION_REQUIRED"} \union Stages \union Failures]
  OBVIOUS
<1>4. loggedIn \in BOOLEAN /\ orderStatus = Nothing /\ request \in 0 .. placed /\ placed \in 0 .. MaxOrders
  <2>1. loggedIn \in BOOLEAN
    BY Zenon
  <2>2. orderStatus = Nothing /\ request = 0 /\ placed = 0
    OBVIOUS
  <2>3. request \in 0 .. placed /\ placed \in 0 .. MaxOrders
    BY <2>2
  <2> QED BY <2>1, <2>2, <2>3
<1>5. DashTypeOK
  BY <1>1, <1>2, <1>3, <1>4 DEF DashTypeOK
<1>6. ShownIsTrue
  BY DEF ShownIsTrue
<1> QED BY <1>5, <1>6 DEF DashInv

\* The page, moved only by the student.
LEMMA StudentInv ==
  ASSUME DashInv, handleLogin \/ Logout \/ Dismiss \/ handleOrder
  PROVE  DashInv'
<1> USE DashAssumption, StageNumbers
    DEF DashInv, DashTypeOK, ShownIsTrue, page, world, Orders, Shown, Nothing, Failures
<1>1. CASE handleLogin BY <1>1 DEF handleLogin
<1>2. CASE Logout BY <1>2 DEF Logout
<1>3. CASE Dismiss BY <1>3 DEF Dismiss
<1>4. CASE handleOrder BY <1>4 DEF handleOrder
<1> QED BY <1>1, <1>2, <1>3, <1>4

\* The page, written by an answer, a notification or a poll.
LEMMA CallbackInv ==
  ASSUME DashInv,
         \/ Answered \/ RequestFails
         \/ \E o \in Orders, s \in Stages \union Failures : onOrderStatus(o, s)
         \/ \E k \in Polls : PollSend(k) \/ replayEvents(k) \/ pollStatus(k) \/ PollFails(k)
  PROVE  DashInv'
<1> USE DashAssumption, StageNumbers
    DEF DashInv, DashTypeOK, ShownIsTrue, page, world, Orders, Shown, Nothing, Failures
<1>1. CASE Answered BY <1>1 DEF Answered, AnswerShown
<1>2. CASE RequestFails BY <1>2 DEF RequestFails
<1>3. ASSUME NEW o \in Orders, NEW s \in Stages \union Failures, onOrderStatus(o, s)
      PROVE  DashInv'
  BY <1>3 DEF onOrderStatus
<1>4. ASSUME NEW k \in Polls, PollSend(k) PROVE DashInv'
  BY <1>4 DEF PollSend, Polling, Idle
<1>5. ASSUME NEW k \in Polls, replayEvents(k) PROVE DashInv'
  BY <1>5 DEF replayEvents
<1>6. ASSUME NEW k \in Polls, pollStatus(k) PROVE DashInv'
  BY <1>6 DEF pollStatus, Completed, Idle
<1>7. ASSUME NEW k \in Polls, PollFails(k) PROVE DashInv'
  BY <1>7 DEF PollFails, Idle
<1> QED BY <1>1, <1>2, <1>3, <1>4, <1>5, <1>6, <1>7

\* What is on the page, and what a poll brings, stays true when more is reported.
LEMMA Grows ==
  ASSUME DashInv, UNCHANGED <<page, request, placed, polls>>,
         \A q \in Orders : said[q] \subseteq said'[q]
  PROVE  /\ ShownIsTrue'
         /\ \A k \in Polls :
              /\ polls'[k].state # "idle" => polls'[k].orderId # 0
              /\ polls'[k].state = "completed" => "COMPLETED" \in said'[polls'[k].orderId]
<1>1. ShownIsTrue'
  BY DEF DashInv, DashTypeOK, ShownIsTrue, page, Shown, Nothing
<1>2. ASSUME NEW k \in Polls
      PROVE  /\ polls'[k].state # "idle" => polls'[k].orderId # 0
             /\ polls'[k].state = "completed" => "COMPLETED" \in said'[polls'[k].orderId]
  <2>1. polls[k].orderId \in 0 .. MaxOrders
    BY DEF DashInv, DashTypeOK
  <2>2. polls[k].state # "idle" => polls[k].orderId \in Orders
    BY <2>1, DashAssumption DEF DashInv, Orders
  <2> QED BY <2>2 DEF DashInv
<1> QED BY <1>1, <1>2

\* What gateway and kitchen report stays reported.
LEMMA WorldInv ==
  ASSUME DashInv, NEW o \in Orders,
         \/ \E s \in Stages \union Failures : placeOrder(o, s)
         \/ RestoreFails(o) \/ QueueAdd(o) \/ Accept(o) \/ processOrder(o) \/ finalizeOrder(o)
  PROVE  DashInv'
<1> USE DashAssumption, StageNumbers
    DEF DashInv, DashTypeOK, ShownIsTrue, page, world, Orders, Shown, Nothing, Failures, Logs, Tells
<1>1. ASSUME NEW s \in Stages \union Failures, placeOrder(o, s) PROVE DashInv'
  BY <1>1 DEF placeOrder, Moves
<1>2. CASE RestoreFails(o) BY <1>2 DEF RestoreFails
<1>3. CASE QueueAdd(o) BY <1>3 DEF QueueAdd
<1>4. CASE Accept(o) BY <1>4 DEF Accept
<1>5. CASE processOrder(o)
  <2>1. /\ said' \in [Orders -> SUBSET (Stages \union Failures)]
        /\ \A q \in Orders : said[q] \subseteq said'[q]
        /\ cook[o] = "cooking" => "COMPLETED" \in said'[o]
    <3>1. PICK s \in Stages : Tells(o, s) /\ (cook[o] = "cooking" => s = "COMPLETED")
      BY <1>5 DEF processOrder
    <3> QED BY <3>1
  <2>2. /\ cook' \in [Orders -> {"none", "waiting", "cooking", "cooked"}]
        /\ \A q \in Orders : cook'[q] = "cooked" => cook[q] = "cooked" \/ (q = o /\ cook[o] = "cooking")
    BY <1>5 DEF processOrder
  <2> QED BY <1>5, <2>1, <2>2, Grows DEF processOrder
<1>6. CASE finalizeOrder(o)
  <2>1. /\ said' \in [Orders -> SUBSET (Stages \union Failures)]
        /\ \A q \in Orders : said[q] \subseteq said'[q]
        /\ "COMPLETED" \in said'[o]
    BY <1>6 DEF finalizeOrder
  <2>2. /\ history' \in [Orders -> {"none", "MANUAL_INTERVENTION_REQUIRED"} \union Stages \union Failures]
        /\ \A q \in Orders : history'[q] = "COMPLETED" => history[q] = "COMPLETED" \/ q = o
    BY <1>6 DEF finalizeOrder
  <2> QED BY <1>6, <2>1, <2>2, Grows DEF finalizeOrder
<1> QED BY <1>1, <1>2, <1>3, <1>4, <1>5, <1>6

LEMMA DashStepInv == DashInv /\ [DashNext]_dash => DashInv'
<1> SUFFICES ASSUME DashInv, [DashNext]_dash PROVE DashInv'
  OBVIOUS
<1>1. CASE DashNext BY <1>1, StudentInv, CallbackInv, WorldInv DEF DashNext
<1>2. CASE UNCHANGED dash
  BY <1>2 DEF DashInv, DashTypeOK, ShownIsTrue, dash, page, world
<1> QED BY <1>1, <1>2

\* The page's invariant, for any number of orders and of polls in flight.
THEOREM DashSafety == DashSpec => []DashInv
<1> QED BY DashInitInv, DashStepInv, PTL DEF DashSpec

\* Whatever wrote the page (App.tsx: handleOrder, pollStatus, the socket handler), what
\* it says of an order has been reported of that order.
THEOREM DashShownIsTrue == DashSpec => []ShownIsTrue
<1>1. DashInv => ShownIsTrue BY DEF DashInv
<1> QED BY <1>1, DashSafety, PTL

\* Type correctness, and no order without an id once its answer is in.
THEOREM DashTypeCorrect == DashSpec => []DashTypeOK
<1>1. DashInv => DashTypeOK BY DEF DashInv
<1> QED BY <1>1, DashSafety, PTL

\* From one stage the page never goes back to an earlier one of the same order (App.tsx,
\* the two stage comparisons); FAILED and COMPENSATING are no stages.
THEOREM DashStageNotBack == DashSpec => StageNotBack
<1> DEFINE
     Kept == (orderStatus.orderId # 0 /\ orderStatus'.orderId = orderStatus.orderId
                /\ orderStatus'.status \notin Failures)
               => stageIndex(orderStatus'.status) >= stageIndex(orderStatus.status)
<1>1. ASSUME DashInv, [DashNext]_dash PROVE [Kept]_dash
  <2> stageIndex(orderStatus.status) \in 0 .. 4
    BY StageNumbers
  <2>1. CASE UNCHANGED orderStatus
    BY <2>1
  <2>2. CASE Dismiss \/ handleOrder \/ RequestFails
    BY <2>2 DEF Dismiss, handleOrder, RequestFails, Nothing, Shown
  <2>3. CASE Answered
    BY <2>3, StageNumbers DEF Answered, AnswerShown, Shown
  <2>4. ASSUME NEW o \in Orders, NEW s \in Stages \union Failures, onOrderStatus(o, s)
        PROVE  Kept
    BY <2>4 DEF onOrderStatus, Shown
  <2>5. ASSUME NEW k \in Polls, pollStatus(k) PROVE Kept
    BY <2>5, StageNumbers DEF pollStatus, Completed, Shown
  <2>6. CASE DashNext
    BY <1>1, <2>6, <2>1, <2>2, <2>3, <2>4, <2>5
       DEF DashNext, handleLogin, Logout, placeOrder, PollSend, replayEvents, PollFails,
           RestoreFails, QueueAdd, Accept, processOrder, finalizeOrder, page
  <2> QED BY <1>1, <2>6 DEF Kept
<1> QED BY <1>1, DashSafety, PTL DEF DashSpec, StageNotBack

-----------------------------------------------------------------------------
(* The page's two panels, ServicePanels, beside the tracked order.         *)

HealthAnswers == {"off", "asked", "UP", "DOWN"}
ChaosCalls == {None, [at |-> "asked"]} \union [at : {"answered"}, mode : Modes]
Switches == {None} \union [at : {"asked", "answered"}, mode : Modes]

\* PanelsTypeOK in three parts: the services and their panel, the mode's panel, its switch.
HealthTyped ==
  /\ alive \subseteq Services
  /\ poll \in [HealthPolls -> [Services -> HealthAnswers]]
  /\ services \in [Services -> {"CHECKING", "UP", "DOWN"}]
ModeTyped ==
  /\ mode \in Modes /\ chaosMode \in Modes
  /\ chaosPoll \in [ChaosPolls -> ChaosCalls]
SwitchTyped ==
  /\ chaosLoading \in BOOLEAN
  /\ trigger \in Switches
  /\ chaosLoading <=> trigger # None

LEMMA PanelsParts ==
  PanelsTypeOK <=> HealthTyped /\ ModeTyped /\ SwitchTyped /\ loggedIn \in BOOLEAN
<1>1. {mode, chaosMode} \subseteq Modes <=> mode \in Modes /\ chaosMode \in Modes
  OBVIOUS
<1> QED
  BY <1>1, Zenon DEF PanelsTypeOK, HealthTyped, ModeTyped, SwitchTyped, HealthAnswers, ChaosCalls,
     Switches

\* What the three parts tell of a call.
LEMMA CallValues ==
  /\ None \in Switches /\ None \in ChaosCalls /\ [at |-> "asked"] \in ChaosCalls
  /\ \A m \in Modes :
       /\ Call("answered", m) \in ChaosCalls /\ Call("answered", m) \in Switches
       /\ Call("asked", m) \in Switches
       /\ Call("answered", m) # None /\ Call("asked", m) # None
  /\ \A c \in ChaosCalls : c.at = "answered" => c.mode \in Modes
  /\ \A t \in Switches : (t # None <=> t.at # "off") /\ (t # None => t.mode \in Modes)
  /\ "NORMAL" \in Modes
BY DEF Call, None, Modes, ChaosCalls, Switches

LEMMA PanelsInitTyped == PanelsInit => PanelsTypeOK
<1> SUFFICES ASSUME PanelsInit PROVE PanelsTypeOK
  OBVIOUS
<1>1. HealthTyped
  BY DEF PanelsInit, Off, HealthTyped, HealthAnswers
<1>2. ModeTyped
  BY CallValues DEF PanelsInit, ModeTyped
<1>3. SwitchTyped
  <2>1. trigger = None /\ chaosLoading = FALSE
    BY DEF PanelsInit
  <2> QED
    BY <2>1, CallValues, Zenon DEF SwitchTyped
<1>4. loggedIn \in BOOLEAN
  <2>1. loggedIn = FALSE
    BY DEF PanelsInit
  <2> QED
    BY <2>1, Zenon
<1> QED
  BY <1>1, <1>2, <1>3, <1>4, PanelsParts

\* The services, their polls and the answers of these.
LEMMA HealthKept ==
  ASSUME HealthTyped,
         \/ \E p \in HealthPolls : Poll(p) \/ Show(p) \/ \E s \in Services : Answer(p, s)
         \/ \E s \in Services : Fall(s) \/ Recover(s)
         \/ UNCHANGED <<alive, poll, services>>
  PROVE  HealthTyped'
<1>1. ASSUME NEW p \in HealthPolls, Poll(p) PROVE HealthTyped'
  <2>1. Asked \in [Services -> HealthAnswers]
    BY DEF Asked, HealthAnswers
  <2> QED
    BY <1>1, <2>1 DEF Poll, backend, HealthTyped
<1>2. ASSUME NEW p \in HealthPolls, NEW s \in Services, Answer(p, s) PROVE HealthTyped'
  <2>1. PICK a \in HealthAnswers : poll' = [poll EXCEPT ![p][s] = a]
    BY <1>2 DEF Answer, HealthAnswers
  <2>2. poll' \in [HealthPolls -> [Services -> HealthAnswers]]
    BY <2>1 DEF HealthTyped
  <2> QED
    BY <1>2, <2>2 DEF Answer, backend, HealthTyped
<1>3. ASSUME NEW p \in HealthPolls, Show(p) PROVE HealthTyped'
  <2>1. services' \in [Services -> {"CHECKING", "UP", "DOWN"}]
    BY <1>3 DEF Show, AllAnswered, Updated, HealthTyped
  <2>2. Off \in [Services -> HealthAnswers]
    BY DEF Off, HealthAnswers
  <2> QED
    BY <1>3, <2>1, <2>2 DEF Show, backend, HealthTyped
<1>4. ASSUME NEW s \in Services, Fall(s) \/ Recover(s) PROVE HealthTyped'
  BY <1>4 DEF Fall, Recover, health, HealthTyped
<1>5. CASE UNCHANGED <<alive, poll, services>>
  BY <1>5 DEF HealthTyped
<1> QED
  BY <1>1, <1>2, <1>3, <1>4, <1>5

\* The mode and what the panel has heard of it.
LEMMA ModeKept ==
  ASSUME ModeTyped, SwitchTyped,
         \/ \E p \in ChaosPolls :
              ChaosPoll(p) \/ ChaosAnswer(p) \/ ChaosShow(p) \/ ChaosFails(p)
         \/ \E m \in Modes : OtherSwitch(m)
         \/ Switch \/ Switched
         \/ \E s \in Services : Fall(s)
         \/ UNCHANGED <<mode, chaosMode, chaosPoll>>
  PROVE  ModeTyped'
<1>1. ASSUME NEW p \in ChaosPolls,
             ChaosPoll(p) \/ ChaosAnswer(p) \/ ChaosShow(p) \/ ChaosFails(p)
      PROVE  ModeTyped'
  <2>1. PICK c \in ChaosCalls : chaosPoll' = [chaosPoll EXCEPT ![p] = c]
    BY <1>1, CallValues
    DEF ChaosPoll, ChaosAnswer, ChaosShow, ChaosFails, ModeTyped
  <2>2. chaosMode' \in Modes
    BY <1>1, CallValues
    DEF ChaosPoll, ChaosAnswer, ChaosShow, ChaosFails, ModeShown, ModeTyped
  <2>3. mode' = mode
    BY <1>1 DEF ChaosPoll, ChaosAnswer, ChaosShow, ChaosFails, backend
  <2> QED
    BY <2>1, <2>2, <2>3 DEF ModeTyped
<1>2. ASSUME NEW m \in Modes, OtherSwitch(m) PROVE ModeTyped'
  BY <1>2 DEF OtherSwitch, chaos, ModeTyped
<1>3. CASE Switch
  <2>1. trigger # None
    BY <1>3, CallValues DEF Switch, SwitchTyped
  <2> QED
    BY <1>3, <2>1, CallValues DEF Switch, ModeTyped, SwitchTyped
<1>4. CASE Switched
  <2>1. trigger # None
    BY <1>4, CallValues DEF Switched, SwitchTyped
  <2> QED
    BY <1>4, <2>1, CallValues DEF Switched, backend, ModeTyped, SwitchTyped
<1>5. ASSUME NEW s \in Services, Fall(s) PROVE ModeTyped'
  BY <1>5, CallValues DEF Fall, chaos, ModeTyped
<1>6. CASE UNCHANGED <<mode, chaosMode, chaosPoll>>
  BY <1>6 DEF ModeTyped
<1> QED
  BY <1>1, <1>2, <1>3, <1>4, <1>5, <1>6

\* The buttons wait exactly while a switch is under way.
LEMMA SwitchKept ==
  ASSUME SwitchTyped,
         \/ \E m \in Modes : triggerChaos(m)
         \/ Switch \/ Switched \/ SwitchFails
         \/ UNCHANGED <<trigger, chaosLoading>>
  PROVE  SwitchTyped'
<1>0. None' = None
  BY DEF None
<1>1. ASSUME NEW m \in Modes, NEW at \in {"asked", "answered"}, trigger' = Call(at, m),
             chaosLoading' = TRUE
      PROVE  SwitchTyped'
  <2>1. trigger' \in Switches /\ trigger' # None
    BY <1>1, CallValues
  <2> QED
    BY <1>0, <1>1, <2>1, Zenon DEF SwitchTyped, Switches, Modes
<1>2. ASSUME trigger' = None, chaosLoading' = FALSE PROVE SwitchTyped'
  <2>1. trigger' \in Switches
    BY <1>2, CallValues
  <2> QED
    BY <1>0, <1>2, <2>1, Zenon DEF SwitchTyped, Switches, Modes
<1>3. ASSUME NEW m \in Modes, triggerChaos(m) PROVE SwitchTyped'
  BY <1>1, <1>3 DEF triggerChaos
<1>4. CASE Switch
  <2>1. trigger # None /\ trigger' = Call("answered", trigger.mode) /\ chaosLoading' = chaosLoading
    BY <1>4, CallValues DEF Switch, SwitchTyped
  <2>2. chaosLoading' = TRUE /\ trigger.mode \in Modes
    <3>1. chaosLoading = TRUE
      BY <2>1, Zenon DEF SwitchTyped
    <3>2. trigger.mode \in Modes
      BY <2>1, CallValues DEF SwitchTyped
    <3> QED
      BY <2>1, <3>1, <3>2
  <2> QED
    BY <1>1, <2>1, <2>2
<1>5. CASE Switched \/ SwitchFails
  BY <1>2, <1>5 DEF Switched, SwitchFails
<1>6. CASE UNCHANGED <<trigger, chaosLoading>>
  BY <1>0, <1>6 DEF SwitchTyped, Switches, Modes
<1> QED
  BY <1>3, <1>4, <1>5, <1>6

LEMMA PanelsNextTyped ==
  PanelsTypeOK /\ [PanelsNext]_panels => PanelsTypeOK'
<1> SUFFICES ASSUME PanelsTypeOK, [PanelsNext]_panels
             PROVE  HealthTyped' /\ ModeTyped' /\ SwitchTyped' /\ loggedIn' \in BOOLEAN
  <2>1. (HealthTyped /\ ModeTyped /\ SwitchTyped /\ loggedIn \in BOOLEAN)' => PanelsTypeOK'
    BY PanelsParts, PTL
  <2> QED
    BY <2>1
<1> USE DEF backend, health, chaos
<1>0. HealthTyped /\ ModeTyped /\ SwitchTyped /\ loggedIn \in BOOLEAN
  BY PanelsParts
<1>1. ASSUME NEW p \in HealthPolls, Poll(p) \/ Show(p) \/ \E s \in Services : Answer(p, s)
      PROVE  HealthTyped' /\ UNCHANGED <<mode, chaosMode, chaosPoll, trigger, chaosLoading, loggedIn>>
  BY <1>0, <1>1, HealthKept DEF Poll, Show, Answer
<1>2. ASSUME NEW p \in ChaosPolls,
             ChaosPoll(p) \/ ChaosAnswer(p) \/ ChaosShow(p) \/ ChaosFails(p)
      PROVE  ModeTyped' /\ UNCHANGED <<alive, poll, services, trigger, chaosLoading, loggedIn>>
  BY <1>0, <1>2, ModeKept
  DEF ChaosPoll, ChaosAnswer, ChaosShow, ChaosFails
<1>3. ASSUME NEW m \in Modes, triggerChaos(m)
      PROVE  SwitchTyped' /\ UNCHANGED <<alive, poll, services, mode, chaosMode, chaosPoll, loggedIn>>
  BY <1>0, <1>3, SwitchKept DEF triggerChaos
<1>4. ASSUME NEW m \in Modes, OtherSwitch(m)
      PROVE  ModeTyped' /\ UNCHANGED <<alive, poll, services, trigger, chaosLoading, loggedIn>>
  BY <1>0, <1>4, ModeKept DEF OtherSwitch
<1>5. ASSUME Switch \/ Switched
      PROVE  ModeTyped' /\ SwitchTyped' /\ UNCHANGED <<alive, poll, services, loggedIn>>
  BY <1>0, <1>5, ModeKept, SwitchKept DEF Switch, Switched
<1>6. ASSUME SwitchFails
      PROVE  SwitchTyped' /\ UNCHANGED <<alive, poll, services, mode, chaosMode, chaosPoll, loggedIn>>
  BY <1>0, <1>6, SwitchKept DEF SwitchFails
<1>7. ASSUME NEW s \in Services, Fall(s) \/ Recover(s)
      PROVE  HealthTyped' /\ ModeTyped' /\ UNCHANGED <<trigger, chaosLoading, loggedIn>>
  <2>1. HealthTyped' /\ UNCHANGED <<trigger, chaosLoading, loggedIn>>
    BY <1>0, <1>7, HealthKept DEF Fall, Recover
  <2>2. ModeTyped'
    BY <1>0, <1>7, ModeKept DEF Recover
  <2> QED
    BY <2>1, <2>2
<1>8. ASSUME LogInOut
      PROVE  loggedIn' \in BOOLEAN
             /\ UNCHANGED <<alive, mode, poll, services, chaosPoll, trigger, chaosMode, chaosLoading>>
  BY <1>8, Zenon DEF LogInOut
<1>9. CASE UNCHANGED panels
  BY <1>0, <1>9, HealthKept, ModeKept, SwitchKept DEF panels
<1>10. CASE \E p \in HealthPolls : Poll(p) \/ Show(p) \/ \E s \in Services : Answer(p, s)
  BY <1>0, <1>1, <1>10, ModeKept, SwitchKept
<1>11. CASE \E p \in ChaosPolls :
              ChaosPoll(p) \/ ChaosAnswer(p) \/ ChaosShow(p) \/ ChaosFails(p)
  BY <1>0, <1>2, <1>11, HealthKept, SwitchKept
<1>12. CASE \E m \in Modes : triggerChaos(m) \/ OtherSwitch(m)
  BY <1>0, <1>3, <1>4, <1>12, HealthKept, ModeKept, SwitchKept
<1>13. CASE Switch \/ Switched \/ SwitchFails \/ LogInOut
  BY <1>0, <1>5, <1>6, <1>8, <1>13, HealthKept, ModeKept, SwitchKept
<1>14. CASE \E s \in Services : Fall(s) \/ Recover(s)
  BY <1>0, <1>7, <1>14, SwitchKept
<1> QED
  BY <1>9, <1>10, <1>11, <1>12, <1>13, <1>14 DEF PanelsNext

\* The panels keep their types through every order in which their polls, their switch
\* and the student's clicks end, and the buttons wait exactly while a switch is under way.
THEOREM PanelsTypesKept == PanelsSpec => []PanelsTypeOK
<1>1. PanelsSpec => PanelsInit /\ [][PanelsNext]_panels
  BY PTL DEF PanelsSpec
<1> QED
  BY <1>1, PanelsInitTyped, PanelsNextTyped, PTL
=============================================================================
