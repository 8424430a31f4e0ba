------------------------ MODULE CircuitBreakerProofs ------------------------
(* The breaker and the bulkhead, for any number of callers and any limits.  *)
EXTENDS CircuitBreaker, FiniteSetTheorems, SequenceTheorems, TLAPS

\* The bulkhead holds no more actions than it has slots, those the breaker has given up
\* included.
ActionsWithinSlots == Cardinality(InBulkhead) <= Slots

\* The trial to come is the first.
TrialsInv == OneTrial /\ (pendingClose => trials = {})

\* The type and the safety invariants together are inductive.
BreakerInv ==
  /\ BreakerTypeOK /\ HalfOpenMovesOn /\ ActionsWithinSlots
  /\ TrialsInv

States == {"closed", "open", "halfOpen"}
Heard == {"idle", "waiting", "answered", "failed"}
Places == {"none", "queued", "sent", "backoff"}

\* How many actions the bulkhead runs is a number, and one more start adds at most one.
LEMMA InBulkheadFinite == IsFiniteSet(InBulkhead) /\ Cardinality(InBulkhead) \in Nat
<1>1. InBulkhead \subseteq Calls
  BY DEF InBulkhead
<1>2. IsFiniteSet(Calls)
  BY BreakerAssumption DEF BreakerAssumption
<1>3. IsFiniteSet(InBulkhead)
  BY <1>1, <1>2, FS_Subset
<1> QED BY <1>3, FS_CardinalityType

LEMMA CappedWhenFewer ==
  ASSUME ActionsWithinSlots, InBulkhead' \subseteq InBulkhead
  PROVE  ActionsWithinSlots'
<1>1. Cardinality(InBulkhead') <= Cardinality(InBulkhead) /\ Cardinality(InBulkhead') \in Nat
  BY InBulkheadFinite, FS_Subset, FS_CardinalityType
<1>2. Slots \in Nat
  BY BreakerAssumption DEF BreakerAssumption
<1> QED BY <1>1, <1>2, InBulkheadFinite DEF ActionsWithinSlots

LEMMA BreakerInitInv == BreakerInit => BreakerInv
<1> SUFFICES ASSUME BreakerInit PROVE BreakerInv
  OBVIOUS
<1> USE BreakerAssumption DEF BreakerAssumption, BreakerInit
<1>1. BreakerTypeOK
  <2>1. pendingClose \in BOOLEAN
    BY Zenon
  <2>2. queue \in Seq(Calls)
    OBVIOUS
  <2>3. /\ attempts \in [Calls -> 0 .. MaxAttempts - 1]
        /\ age \in [Calls -> 0 .. Timeout]
        /\ fires \in 0 .. MaxFires /\ failures \in 0 .. MaxFires /\ changes \in 0 .. MaxChanges
    OBVIOUS
  <2> QED BY <2>1, <2>2, <2>3 DEF BreakerTypeOK
<1>2. HalfOpenMovesOn
  BY DEF HalfOpenMovesOn
<1>3. ActionsWithinSlots
  <2>1. InBulkhead = {}
    BY DEF InBulkhead
  <2> QED BY <2>1, FS_EmptySet DEF ActionsWithinSlots
<1>4. TrialsInv
  BY DEF TrialsInv, OneTrial
<1> QED BY <1>1, <1>2, <1>3, <1>4 DEF BreakerInv

\* No action but HalfOpen, and a call that enters, touches the trials of a half-open breaker.
LEMMA TrialsKept ==
  ASSUME BreakerInv, UNCHANGED <<circuit, Waiting>>
  PROVE  TrialsInv' /\ trials' \subseteq Calls
BY DEF BreakerInv, BreakerTypeOK, TrialsInv, OneTrial, circuit

\* A breaker that is not half-open has none.
LEMMA TrialsOver ==
  ASSUME state' # "halfOpen", pendingClose' = FALSE, TrialsEnd
  PROVE  TrialsInv' /\ trials' \subseteq Calls
BY DEF TrialsEnd, TrialsInv, OneTrial

\* A failure leaves a breaker that is open, or as closed or open as it was.
LEMMA FailsKeeps ==
  ASSUME BreakerInv, NEW c \in Calls, NEW n, Fails(c, n)
  PROVE  /\ state' \in States /\ pendingClose' \in BOOLEAN /\ pendingClose' = FALSE
         /\ state' # "halfOpen"
         /\ failures' \in 0 .. MaxFires
         /\ call' \in [Calls -> Heard]
         /\ TrialsInv' /\ trials' \subseteq Calls
<1> USE BreakerAssumption DEF BreakerAssumption, BreakerInv, BreakerTypeOK, Fails, States, Heard
<1>1. state' \in States /\ state' # "halfOpen"
  <2>1. CASE state = "halfOpen" BY <2>1 DEF Trips
  <2>2. CASE state # "halfOpen" BY <2>2
  <2> QED BY <2>1, <2>2
<1>2. pendingClose' = FALSE
  OBVIOUS
<1>3. pendingClose' \in BOOLEAN
  BY <1>2, Zenon
<1>4. failures' \in 0 .. MaxFires
  OBVIOUS
<1>5. call' \in [Calls -> Heard]
  OBVIOUS
<1> QED BY <1>1, <1>2, <1>3, <1>4, <1>5, TrialsOver

LEMMA SucceedsKeeps ==
  ASSUME BreakerInv, NEW c \in Calls, Succeeds(c)
  PROVE  /\ state' \in States /\ pendingClose' \in BOOLEAN /\ pendingClose' = FALSE
         /\ state' # "halfOpen"
         /\ failures' \in 0 .. MaxFires
         /\ call' \in [Calls -> Heard]
         /\ TrialsInv' /\ trials' \subseteq Calls
<1> USE DEF BreakerInv, BreakerTypeOK, Succeeds, States, Heard
<1>1. pendingClose' = FALSE
  OBVIOUS
<1>2. pendingClose' \in BOOLEAN
  BY <1>1, Zenon
<1>3. state' # "halfOpen"
  OBVIOUS
<1> QED BY <1>1, <1>2, <1>3, TrialsOver

LEMMA FireInv ==
  ASSUME BreakerInv, NEW c \in Calls, Fire(c)
  PROVE  BreakerInv'
<1> USE BreakerAssumption DEF BreakerAssumption
<1>1. /\ fires' \in 0 .. MaxFires /\ stock' \in Behaviours /\ changes' \in 0 .. MaxChanges
      /\ attempts' \in [Calls -> 0 .. MaxAttempts - 1] /\ age' \in [Calls -> 0 .. Timeout]
  <2>1. fires' \in 0 .. MaxFires
    BY DEF BreakerInv, BreakerTypeOK, Fire
  <2>2. UNCHANGED <<stock, changes, attempts, age>>
    BY DEF Fire, Reject, Saturate, Admit, Enters, loop, env
  <2> QED BY <2>1, <2>2 DEF BreakerInv, BreakerTypeOK
<1>2. CASE Reject(c)
  <2>1. call' \in [Calls -> Heard] /\ Waiting' = Waiting
    BY <1>2 DEF BreakerInv, BreakerTypeOK, Fire, Reject, Heard, Waiting
  <2>2. InBulkhead' = InBulkhead
    BY <1>2 DEF Reject, loop, InBulkhead
  <2>3. TrialsInv' /\ UNCHANGED <<state, pendingClose, failures, action, queue>> /\ trials' \subseteq Calls
    BY <1>2, <2>1, TrialsKept DEF Reject, circuit, loop
  <2> QED BY <1>1, <2>1, <2>2, <2>3, CappedWhenFewer
       DEF BreakerInv, BreakerTypeOK, HalfOpenMovesOn, Heard
<1>3. CASE Saturate(c)
  <2>1. Fails(c, fires + 1) /\ UNCHANGED loop
    BY <1>3 DEF Saturate
  <2>2. InBulkhead' = InBulkhead
    BY <2>1 DEF loop, InBulkhead
  <2> QED BY <1>1, <2>1, <2>2, FailsKeeps, CappedWhenFewer
       DEF BreakerInv, BreakerTypeOK, HalfOpenMovesOn, loop, Heard, States
<1>4. CASE Admit(c)
  <2>1. call' \in [Calls -> Heard] /\ c \in Waiting' /\ Waiting \subseteq Waiting'
    <3>1. call' = [call EXCEPT ![c] = "waiting"]
      BY <1>4 DEF Admit, Enters
    <3>2. call \in [Calls -> Heard]
      BY DEF BreakerInv, BreakerTypeOK, Heard
    <3>3. /\ call' \in [Calls -> Heard] /\ call'[c] = "waiting"
          /\ \A d \in Calls : call[d] = "waiting" => call'[d] = "waiting"
      BY <3>1, <3>2 DEF Heard
    <3> QED BY <3>3 DEF Waiting
  <2>2. pendingClose' = FALSE /\ pendingClose' \in BOOLEAN
    <3>1. pendingClose' = FALSE
      BY <1>4 DEF Admit
    <3> QED BY <3>1, Zenon
  <2>3. action' \in [Calls -> Places] /\ queue' \in Seq(Calls)
    BY <1>4 DEF BreakerInv, BreakerTypeOK, Admit, Enters, Places
  <2>4. InBulkhead' \subseteq InBulkhead
    BY <1>4 DEF BreakerInv, BreakerTypeOK, Admit, Enters, InBulkhead
  <2>5. state' = state /\ failures' = failures
    BY <1>4 DEF Admit, Enters
  \* The trial to come is the first.
  <2>6. TrialsInv' /\ trials' \subseteq Calls
    <3>1. trials' = IF state = "halfOpen" THEN trials \union {c} ELSE trials
      BY <1>4 DEF Admit, Enters
    <3>2. state = "halfOpen" => trials' = {c}
      BY <1>4, <3>1 DEF BreakerInv, TrialsInv, Admit, Enters, Admits
    <3>3. trials \subseteq Calls
      BY DEF BreakerInv, BreakerTypeOK
    <3> QED BY <2>1, <2>2, <2>5, <3>1, <3>2, <3>3 DEF TrialsInv, OneTrial
  <2> QED BY <1>1, <2>1, <2>2, <2>3, <2>4, <2>5, <2>6, CappedWhenFewer
       DEF BreakerInv, BreakerTypeOK, HalfOpenMovesOn, Heard, Places
<1> QED BY <1>2, <1>3, <1>4 DEF Fire

LEMMA ActInv ==
  ASSUME BreakerInv, NEW c \in Calls, Act(c)
  PROVE  BreakerInv'
<1> USE BreakerAssumption DEF BreakerAssumption
\* What leaves the bulkhead frees its slot.
<1>1. ASSUME Ends(c), UNCHANGED stock
      PROVE  /\ action' \in [Calls -> Places]
             /\ attempts' \in [Calls -> 0 .. MaxAttempts - 1] /\ age' \in [Calls -> 0 .. Timeout]
             /\ fires' \in 0 .. MaxFires /\ queue' \in Seq(Calls)
             /\ stock' \in Behaviours /\ changes' \in 0 .. MaxChanges
             /\ ActionsWithinSlots'
  <2>1. action' \in [Calls -> Places]
    BY <1>1 DEF BreakerInv, BreakerTypeOK, Ends, Places
  <2>2. attempts' \in [Calls -> 0 .. MaxAttempts - 1] /\ age' \in [Calls -> 0 .. Timeout]
    BY <1>1 DEF BreakerInv, BreakerTypeOK, Ends
  <2>3. InBulkhead' \subseteq InBulkhead
    BY <1>1 DEF BreakerInv, BreakerTypeOK, Ends, InBulkhead
  <2> QED BY <1>1, <2>1, <2>2, <2>3, CappedWhenFewer DEF BreakerInv, BreakerTypeOK, Ends, env
<1>2. ASSUME Unheard(c)
      PROVE  /\ state' = state /\ pendingClose' = pendingClose /\ failures' = failures
             /\ call' = call /\ Waiting' = Waiting /\ UNCHANGED <<circuit, Waiting>>
  BY <1>2 DEF Unheard, circuit, Waiting
<1>3. ASSUME Ends(c), UNCHANGED stock, Unheard(c)
      PROVE  BreakerInv'
  <2>1. TrialsInv' /\ trials' \subseteq Calls
    BY <1>2, <1>3, TrialsKept
  <2>2. HalfOpenMovesOn'
    BY <1>2, <1>3 DEF BreakerInv, HalfOpenMovesOn
  <2> QED BY <1>1, <1>2, <1>3, <2>1, <2>2 DEF BreakerInv, BreakerTypeOK, Places
<1>4. CASE Answered(c)
  <2>1. Ends(c) /\ UNCHANGED stock
    BY <1>4 DEF Answered, Ends, env
  <2>2. CASE Unheard(c) BY <2>1, <2>2, <1>3
  <2>3. CASE Succeeds(c)
    BY <1>1, <2>1, <2>3, SucceedsKeeps
      DEF BreakerInv, BreakerTypeOK, HalfOpenMovesOn, Places, States, Heard
  <2> QED BY <1>4, <2>2, <2>3 DEF Answered
<1>5. CASE NoAnswer(c)
  <2>1. Ends(c) /\ UNCHANGED stock
    BY <1>5 DEF NoAnswer, Ends, env
  <2>2. CASE Unheard(c) BY <2>1, <2>2, <1>3
  <2>3. CASE Fails(c, fires)
    BY <1>1, <2>1, <2>3, FailsKeeps
      DEF BreakerInv, BreakerTypeOK, HalfOpenMovesOn, Places, States, Heard
  <2> QED BY <1>5, <2>2, <2>3 DEF NoAnswer
<1>6. CASE Conflict(c)
  <2>1. attempts' \in [Calls -> 0 .. MaxAttempts - 1]
    <3>1. attempts \in [Calls -> 0 .. MaxAttempts - 1] /\ attempts[c] \in Nat
      BY DEF BreakerInv, BreakerTypeOK
    <3>2. attempts[c] < MaxAttempts - 1 /\ attempts' = [attempts EXCEPT ![c] = attempts[c] + 1]
      BY <1>6 DEF Conflict, RetriesLeft
    <3>3. attempts[c] + 1 \in 0 .. MaxAttempts - 1
      BY <3>1, <3>2
    <3> QED BY <3>1, <3>2, <3>3
  <2>2. age' \in [Calls -> 0 .. Timeout]
    <3>1. PICK pause \in 0 .. attempts[c] + 1 :
            age' = [age EXCEPT ![c] = IF @ + pause < Timeout THEN @ + pause ELSE Timeout]
      BY <1>6 DEF Conflict
    <3>2. age[c] \in Nat /\ pause \in Nat
      BY <3>1 DEF BreakerInv, BreakerTypeOK
    <3>3. (IF age[c] + pause < Timeout THEN age[c] + pause ELSE Timeout) \in 0 .. Timeout
      BY <3>2
    <3> QED BY <3>1, <3>3 DEF BreakerInv, BreakerTypeOK
  <2>3. action' \in [Calls -> Places] /\ InBulkhead' = InBulkhead
    BY <1>6 DEF BreakerInv, BreakerTypeOK, Conflict, Places, InBulkhead
  <2>4. UNCHANGED <<state, pendingClose, circuit, fires, failures, call, queue, stock, changes, Waiting>>
    BY <1>6 DEF Conflict, circuit, window, env, Waiting
  <2> QED BY <2>1, <2>2, <2>3, <2>4, CappedWhenFewer, TrialsKept
       DEF BreakerInv, BreakerTypeOK, HalfOpenMovesOn, Places
<1>7. CASE Resend(c)
  <2>1. action' \in [Calls -> Places] /\ InBulkhead' = InBulkhead
    BY <1>7 DEF BreakerInv, BreakerTypeOK, Resend, Places, InBulkhead
  <2>2. UNCHANGED <<state, pendingClose, circuit, fires, failures, call, queue, attempts, age, stock, changes, Waiting>>
    BY <1>7 DEF Resend, circuit, window, env, Waiting
  <2> QED BY <2>1, <2>2, CappedWhenFewer, TrialsKept
       DEF BreakerInv, BreakerTypeOK, HalfOpenMovesOn, Places
<1> QED BY <1>4, <1>5, <1>6, <1>7 DEF Act

\* The bulkhead starts an action only while a slot is free.
LEMMA StartInv == BreakerInv /\ Start => BreakerInv'
<1> SUFFICES ASSUME BreakerInv, Start PROVE BreakerInv'
  OBVIOUS
<1> USE BreakerAssumption DEF BreakerAssumption
<1>1. Head(queue) \in Calls /\ Tail(queue) \in Seq(Calls)
  BY DEF BreakerInv, BreakerTypeOK, Start
<1>2. action' \in [Calls -> Places]
  BY <1>1 DEF BreakerInv, BreakerTypeOK, Start, Places
<1>3. InBulkhead' \subseteq InBulkhead \union {Head(queue)}
  BY <1>1 DEF BreakerInv, BreakerTypeOK, Start, InBulkhead
<1>4. ActionsWithinSlots'
  <2>1. /\ IsFiniteSet(InBulkhead \union {Head(queue)})
        /\ Cardinality(InBulkhead \union {Head(queue)}) <= Cardinality(InBulkhead) + 1
    BY InBulkheadFinite, FS_AddElement
  <2>2. Cardinality(InBulkhead') <= Cardinality(InBulkhead \union {Head(queue)})
    BY <1>3, <2>1, FS_Subset
  <2>3. Cardinality(InBulkhead') \in Nat /\ Cardinality(InBulkhead \union {Head(queue)}) \in Nat
    BY <1>3, <2>1, FS_Subset, FS_CardinalityType
  <2>4. Cardinality(InBulkhead) < Slots /\ Slots \in Nat
    BY DEF Start, SlotFree
  <2> QED BY <2>1, <2>2, <2>3, <2>4, InBulkheadFinite DEF ActionsWithinSlots
<1>5. UNCHANGED <<state, pendingClose, circuit, fires, failures, call, attempts, age, stock, changes, Waiting>>
  BY DEF Start, circuit, window, env, Waiting
<1>6. queue' \in Seq(Calls)
  BY <1>1 DEF Start
<1> QED BY <1>2, <1>4, <1>5, <1>6, TrialsKept DEF BreakerInv, BreakerTypeOK, HalfOpenMovesOn, Places

LEMMA BreakerStepInv == BreakerInv /\ [BreakerNext]_breaker => BreakerInv'
<1> SUFFICES ASSUME BreakerInv, [BreakerNext]_breaker PROVE BreakerInv'
  OBVIOUS
<1> USE BreakerAssumption DEF BreakerAssumption
<1>1. ASSUME NEW c \in Calls, TimesOut(c) PROVE BreakerInv'
  <2>1. Fails(c, fires) /\ UNCHANGED <<fires, action, queue, attempts, age, stock, changes, InBulkhead>>
    BY <1>1 DEF TimesOut, loop, env, InBulkhead
  <2> QED BY <2>1, FailsKeeps, CappedWhenFewer
       DEF BreakerInv, BreakerTypeOK, HalfOpenMovesOn, States, Heard
<1>2. ASSUME NEW c \in Calls, Again(c) PROVE BreakerInv'
  <2>1. UNCHANGED <<state, pendingClose, circuit, fires, failures, action, queue, attempts, age, stock, changes, InBulkhead>>
    BY <1>2 DEF Again, circuit, window, loop, env, InBulkhead
  <2>2. call' \in [Calls -> Heard] /\ Waiting' = Waiting
    BY <1>2 DEF BreakerInv, BreakerTypeOK, Again, Heard, Waiting
  <2> QED BY <2>1, <2>2, CappedWhenFewer, TrialsKept DEF BreakerInv, BreakerTypeOK, HalfOpenMovesOn, Heard
<1>3. CASE HalfOpen
  <2>1. UNCHANGED <<fires, failures, call, action, queue, attempts, age, stock, changes, InBulkhead>>
    BY <1>3 DEF HalfOpen, window, loop, env, InBulkhead
  <2>2. state' = "halfOpen" /\ pendingClose' = TRUE
    BY <1>3 DEF HalfOpen
  <2>3. pendingClose' \in BOOLEAN
    BY <2>2, Zenon
  <2>4. trials' = {} /\ TrialsInv'
    BY <1>3 DEF HalfOpen, TrialsInv, OneTrial
  <2> QED BY <2>1, <2>2, <2>3, <2>4, CappedWhenFewer, TrialsKept DEF BreakerInv, BreakerTypeOK, HalfOpenMovesOn
<1>4. CASE Roll
  <2>1. UNCHANGED <<state, pendingClose, circuit, call, action, queue, attempts, age, stock, changes, InBulkhead, Waiting>>
    BY <1>4 DEF Roll, circuit, loop, env, InBulkhead, Waiting
  <2>2. fires' \in 0 .. MaxFires /\ failures' \in 0 .. MaxFires
    BY <1>4 DEF BreakerInv, BreakerTypeOK, Roll
  <2> QED BY <2>1, <2>2, CappedWhenFewer, TrialsKept DEF BreakerInv, BreakerTypeOK, HalfOpenMovesOn
<1>5. CASE Start BY <1>5, StartInv
<1>6. CASE Change
  <2>1. UNCHANGED <<state, pendingClose, circuit, fires, failures, call, action, queue, attempts, age, InBulkhead, Waiting>>
    BY <1>6 DEF Change, circuit, window, loop, InBulkhead, Waiting
  <2>2. stock' \in Behaviours /\ changes' \in 0 .. MaxChanges
    BY <1>6 DEF BreakerInv, BreakerTypeOK, Change
  <2> QED BY <2>1, <2>2, CappedWhenFewer, TrialsKept DEF BreakerInv, BreakerTypeOK, HalfOpenMovesOn
<1>7. CASE UNCHANGED breaker
  <2>1. UNCHANGED <<state, pendingClose, circuit, fires, failures, call, action, queue, attempts, age, stock, changes, InBulkhead, Waiting>>
    BY <1>7 DEF breaker, circuit, window, loop, env, InBulkhead, Waiting
  <2> QED BY <2>1, CappedWhenFewer, TrialsKept DEF BreakerInv, BreakerTypeOK, HalfOpenMovesOn
<1> QED BY <1>1, <1>2, <1>3, <1>4, <1>5, <1>6, <1>7, FireInv, ActInv DEF BreakerNext

-----------------------------------------------------------------------------
LEMMA BreakerCorrect == BreakerSpec => []BreakerInv
<1> QED BY BreakerInitInv, BreakerStepInv, PTL DEF BreakerSpec

\* The breaker's and the bulkhead's variables keep their types, and no deduction is tried
\* more than MaxAttempts times.
THEOREM BreakerTypesKept == BreakerSpec => []BreakerTypeOK
<1>1. BreakerInv => BreakerTypeOK
  BY DEF BreakerInv
<1> QED BY <1>1, BreakerCorrect, PTL

\* A half-open breaker has its trial to come or waits for a call, however many calls, from
\* before or after it opened, end in whatever order.
THEOREM HalfOpenAlwaysMovesOn == BreakerSpec => []HalfOpenMovesOn
<1>1. BreakerInv => HalfOpenMovesOn
  BY DEF BreakerInv
<1> QED BY <1>1, BreakerCorrect, PTL

\* A half-open breaker has at most one call of its own under way, whatever else ends, comes
\* or is refused meanwhile, for any number of callers.
THEOREM TrialIsAlone == BreakerSpec => []OneTrial
<1>1. BreakerInv => OneTrial
  BY DEF BreakerInv, TrialsInv
<1> QED BY <1>1, BreakerCorrect, PTL

-----------------------------------------------------------------------------
(* The queue of the bulkhead.                                              *)

Listed(q, c) == \E k \in 1 .. Len(q) : q[k] = c
Single(q) == \A j, k \in 1 .. Len(q) : q[j] = q[k] => j = k

LEMMA Joins ==
  ASSUME NEW q \in Seq(Calls), NEW c \in Calls, Single(q), ~Listed(q, c)
  PROVE  /\ Single(Append(q, c))
         /\ \A d \in Calls : Listed(Append(q, c), d) <=> d = c \/ Listed(q, d)
<1> DEFINE r == Append(q, c)
<1>1. /\ Len(r) = Len(q) + 1 /\ r[Len(q) + 1] = c
      /\ \A k \in 1 .. Len(q) : r[k] = q[k] /\ q[k] # c
  BY AppendProperties DEF Listed
<1>2. Len(q) \in Nat
  BY LenProperties
<1> HIDE DEF r
<1>3. \A k \in 1 .. Len(r) : k \in 1 .. Len(q) \/ k = Len(q) + 1
  BY <1>1, <1>2
<1>4. Single(r)
  BY <1>1, <1>2, <1>3 DEF Single
<1>5. ASSUME NEW d \in Calls PROVE Listed(r, d) <=> d = c \/ Listed(q, d)
  <2>1. Listed(r, d) => d = c \/ Listed(q, d)
    BY <1>1, <1>3 DEF Listed
  <2>2. Listed(r, c) /\ (Listed(q, d) => Listed(r, d))
    BY <1>1, <1>2 DEF Listed
  <2> QED BY <2>1, <2>2
<1> QED BY <1>4, <1>5 DEF r

LEMMA Leaves ==
  ASSUME NEW q \in Seq(Calls), q # <<>>, Single(q)
  PROVE  /\ Head(q) \in Calls /\ Listed(q, Head(q))
         /\ Single(Tail(q))
         /\ \A d \in Calls : Listed(Tail(q), d) <=> d # Head(q) /\ Listed(q, d)
<1> DEFINE r == Tail(q)
<1>1. /\ Len(r) = Len(q) - 1 /\ Head(q) \in Calls
      /\ \A k \in 1 .. Len(r) : r[k] = q[k + 1]
  BY HeadTailProperties
<1>2. Len(q) \in Nat \ {0} /\ Head(q) = q[1]
  BY EmptySeq, LenProperties
<1> HIDE DEF r
<1>3. \A k \in 1 .. Len(r) : k + 1 \in 1 .. Len(q) /\ k + 1 # 1
  BY <1>1, <1>2
<1>4. Single(r)
  <2> SUFFICES ASSUME NEW j \in 1 .. Len(r), NEW k \in 1 .. Len(r), r[j] = r[k] PROVE j = k
    BY DEF Single
  <2>1. j + 1 = k + 1
    BY <1>1, <1>3 DEF Single
  <2> QED BY <2>1
<1>5. 1 \in 1 .. Len(q)
  BY <1>2
<1>6. ASSUME NEW d \in Calls PROVE Listed(r, d) <=> d # Head(q) /\ Listed(q, d)
  <2>1. Listed(r, d) => d # Head(q) /\ Listed(q, d)
    <3> SUFFICES ASSUME NEW k \in 1 .. Len(r), r[k] = d PROVE d # Head(q) /\ Listed(q, d)
      BY DEF Listed
    <3>1. q[k + 1] = d /\ k + 1 \in 1 .. Len(q) /\ k + 1 # 1
      BY <1>1, <1>3
    <3>2. q[k + 1] # q[1]
      BY <1>5, <3>1 DEF Single
    <3> QED BY <1>2, <3>1, <3>2 DEF Listed
  <2>2. ASSUME NEW k \in 1 .. Len(q), q[k] = d, d # Head(q) PROVE Listed(r, d)
    <3>1. k # 1
      BY <1>2, <2>2
    <3>2. k - 1 \in 1 .. Len(r) /\ (k - 1) + 1 = k
      BY <1>1, <1>2, <3>1
    <3>3. r[k - 1] = d
      BY <1>1, <2>2, <3>2
    <3> QED BY <3>2, <3>3 DEF Listed
  <2> QED BY <2>1, <2>2 DEF Listed
<1> QED BY <1>1, <1>2, <1>4, <1>5, <1>6 DEF r, Listed

-----------------------------------------------------------------------------
(* Nobody waits for nothing.                                               *)

\* Attended, of one call and of the queue.
Cared(c) ==
  /\ call[c] = "waiting" => action[c] # "none"
  /\ call[c] = "idle" => action[c] = "none"
  /\ action[c] = "queued" <=> Listed(queue, c)

LEMMA AttendedParts == Attended <=> Single(queue) /\ \A c \in Calls : Cared(c)
BY DEF Attended, Single, Cared, Listed

\* A step that leaves the queue, and all but one of the calls, alone.
LEMMA AttendedStep ==
  ASSUME Attended, NEW c \in Calls, UNCHANGED queue, Cared(c)',
         \A d \in Calls \ {c} : call'[d] = call[d] /\ action'[d] = action[d]
  PROVE  Attended'
<1>1. Single(queue)'
  BY AttendedParts DEF Single
<1>2. ASSUME NEW d \in Calls PROVE Cared(d)'
  BY AttendedParts DEF Cared, Listed
<1>3. Attended' <=> Single(queue)' /\ \A d \in Calls : Cared(d)'
  BY DEF Attended, Single, Cared, Listed
<1> QED BY <1>1, <1>2, <1>3

LEMMA AttendedInit == BreakerInit => Attended
<1> SUFFICES ASSUME BreakerInit PROVE Attended
  OBVIOUS
<1>1. Len(queue) = 0
  BY EmptySeq DEF BreakerInit
<1> QED BY <1>1 DEF BreakerInit, Attended

LEMMA AttendedAdmit ==
  ASSUME BreakerInv, Attended, NEW c \in Calls, call[c] = "idle", Admit(c)
  PROVE  Attended'
<1>1. /\ call' = [call EXCEPT ![c] = "waiting"]
      /\ action' = [action EXCEPT ![c] = "queued"]
      /\ queue' = Append(queue, c)
  BY DEF Admit, Enters
<1>2. queue \in Seq(Calls) /\ Single(queue) /\ Cared(c) /\ ~Listed(queue, c)
  BY AttendedParts DEF BreakerInv, BreakerTypeOK, Cared
<1>3. /\ Single(queue')
      /\ \A d \in Calls : Listed(queue', d) <=> d = c \/ Listed(queue, d)
  BY <1>1, <1>2, Joins
<1>4. ASSUME NEW d \in Calls PROVE Cared(d)'
  <2>1. Cared(d)
    BY AttendedParts
  <2>2. CASE d = c
    <3>1. call'[d] = "waiting" /\ action'[d] = "queued"
      BY <1>1, <2>2 DEF BreakerInv, BreakerTypeOK
    <3> QED BY <1>3, <2>2, <3>1 DEF Cared
  <2>3. CASE d # c
    <3>1. call'[d] = call[d] /\ action'[d] = action[d]
      BY <1>1, <2>3 DEF BreakerInv, BreakerTypeOK
    <3> QED BY <1>3, <2>1, <2>3, <3>1 DEF Cared
  <2> QED BY <2>2, <2>3
<1>5. Attended' <=> Single(queue)' /\ \A d \in Calls : Cared(d)'
  BY DEF Attended, Single, Cared, Listed
<1> QED BY <1>3, <1>4, <1>5 DEF Single

LEMMA AttendedStart == BreakerInv /\ Attended /\ Start => Attended'
<1> SUFFICES ASSUME BreakerInv, Attended, Start PROVE Attended'
  OBVIOUS
<1> DEFINE h == Head(queue)
<1>1. /\ queue # <<>> /\ queue' = Tail(queue)
      /\ action' = [action EXCEPT ![h] = "sent"] /\ call' = call
  BY DEF Start
<1>2. queue \in Seq(Calls) /\ Single(queue)
  BY AttendedParts DEF BreakerInv, BreakerTypeOK
<1>3. /\ h \in Calls /\ Single(queue')
      /\ \A d \in Calls : Listed(queue', d) <=> d # h /\ Listed(queue, d)
  BY <1>1, <1>2, Leaves
<1>4. Cared(h) /\ Listed(queue, h)
  BY <1>1, <1>2, AttendedParts, Leaves
<1> HIDE DEF h
<1>5. ASSUME NEW d \in Calls PROVE Cared(d)'
  <2>1. Cared(d)
    BY AttendedParts
  <2>2. CASE d = h
    <3>1. action'[d] = "sent" /\ action[d] = "queued"
      BY <1>1, <1>4, <2>2 DEF BreakerInv, BreakerTypeOK, Cared
    <3> QED BY <1>1, <1>3, <2>1, <2>2, <3>1 DEF Cared
  <2>3. CASE d # h
    <3>1. action'[d] = action[d]
      BY <1>1, <2>3 DEF BreakerInv, BreakerTypeOK
    <3> QED BY <1>1, <1>3, <2>1, <2>3, <3>1 DEF Cared
  <2> QED BY <2>2, <2>3
<1>6. Attended' <=> Single(queue)' /\ \A d \in Calls : Cared(d)'
  BY DEF Attended, Single, Cared, Listed
<1> QED BY <1>3, <1>5, <1>6 DEF Single

LEMMA AttendedNext == BreakerInv /\ Attended /\ [BreakerNext]_breaker => Attended'
<1> SUFFICES ASSUME BreakerInv, Attended, [BreakerNext]_breaker PROVE Attended'
  OBVIOUS
<1>0. ASSUME UNCHANGED <<call, action, queue>> PROVE Attended'
  BY <1>0 DEF Attended
\* A caller hears of its call, or comes back.
<1>1. ASSUME NEW c \in Calls, UNCHANGED <<action, queue>>, NEW h \in Heard \ {"waiting"},
             call' = [call EXCEPT ![c] = h], h = "idle" => action[c] = "none"
      PROVE  Attended'
  <2>1. Cared(c)
    BY AttendedParts
  <2>2. call'[c] = h /\ \A d \in Calls \ {c} : call'[d] = call[d]
    BY <1>1 DEF BreakerInv, BreakerTypeOK
  <2>3. Cared(c)'
    BY <1>1, <2>1, <2>2 DEF Cared, Listed
  <2> QED BY <1>1, <2>2, <2>3, AttendedStep
\* An action in the bulkhead moves, and its caller may hear of it.
<1>2. ASSUME NEW c \in Calls, UNCHANGED queue, action[c] \in {"sent", "backoff"},
             NEW a \in {"none", "sent", "backoff"}, action' = [action EXCEPT ![c] = a],
             \/ call' = call /\ (a = "none" => call[c] # "waiting")
             \/ a = "none" /\ call' = [call EXCEPT ![c] = "answered"]
             \/ a = "none" /\ call' = [call EXCEPT ![c] = "failed"]
      PROVE  Attended'
  <2>1. Cared(c) /\ call[c] # "idle"
    BY <1>2, AttendedParts DEF Cared
  <2>2. action'[c] = a /\ \A d \in Calls \ {c} : call'[d] = call[d] /\ action'[d] = action[d]
    BY <1>2 DEF BreakerInv, BreakerTypeOK
  <2>3. call'[c] \in {call[c], "answered", "failed"} /\ (a = "none" => call'[c] # "waiting")
    BY <1>2 DEF BreakerInv, BreakerTypeOK
  <2>4. Cared(c)'
    BY <1>2, <2>1, <2>2, <2>3 DEF Cared, Listed
  <2> QED BY <1>2, <2>2, <2>4, AttendedStep
<1>3. ASSUME NEW c \in Calls, Fire(c) PROVE Attended'
  <2>1. CASE Reject(c) \/ Saturate(c)
    BY <1>1, <2>1 DEF Reject, Saturate, Fails, loop, Heard
  <2>2. CASE Admit(c)
    BY <1>3, <2>2, AttendedAdmit DEF Fire
  <2> QED BY <1>3, <2>1, <2>2 DEF Fire
<1>4. ASSUME NEW c \in Calls, TimesOut(c) PROVE Attended'
  BY <1>1, <1>4 DEF TimesOut, Fails, loop, Heard
<1>5. ASSUME NEW c \in Calls, Again(c) PROVE Attended'
  BY <1>1, <1>5 DEF Again, loop, Heard
<1>6. ASSUME NEW c \in Calls, Act(c) PROVE Attended'
  <2>1. CASE Answered(c)
    BY <1>2, <2>1 DEF Answered, Ends, Unheard, Succeeds
  <2>2. CASE NoAnswer(c)
    BY <1>2, <2>2 DEF NoAnswer, Ends, Unheard, Fails
  <2>3. CASE Conflict(c) \/ Resend(c)
    BY <1>2, <2>3 DEF Conflict, Resend
  <2> QED BY <1>6, <2>1, <2>2, <2>3 DEF Act
<1>7. CASE HalfOpen \/ Roll \/ Change \/ UNCHANGED breaker
  BY <1>0, <1>7 DEF HalfOpen, Roll, Change, loop, breaker
<1> QED BY <1>3, <1>4, <1>5, <1>6, <1>7, AttendedStart DEF BreakerNext

LEMMA BreakerAttended == BreakerSpec => [](BreakerInv /\ Attended)
<1>1. BreakerInit => BreakerInv /\ Attended
  BY BreakerInitInv, AttendedInit
<1>2. BreakerInv /\ Attended /\ [BreakerNext]_breaker => BreakerInv' /\ Attended'
  BY BreakerStepInv, AttendedNext
<1> QED BY <1>1, <1>2, PTL DEF BreakerSpec

\* No caller waits for an action that is nowhere, and none has two: the queue lists the
\* queued actions, each once, whatever the breaker has given up.
THEOREM CallsAreAttended == BreakerSpec => []Attended
BY BreakerAttended, PTL

-----------------------------------------------------------------------------
(* Breaker and bulkhead implement Bulkhead.                                *)

LEMMA RefinesInit == BreakerInit => Abs!CallsInit
BY DEF BreakerInit, Abs!CallsInit, HeardOf, ActionOf

LEMMA HeardMoves ==
  ASSUME NEW c \in Calls, NEW h, call \in [Calls -> Heard], call' = [call EXCEPT ![c] = h]
  PROVE  [d \in Calls |-> HeardOf(call'[d])] =
           [[d \in Calls |-> HeardOf(call[d])] EXCEPT ![c] = HeardOf(h)]
OBVIOUS

LEMMA ActionMoves ==
  ASSUME NEW c \in Calls, NEW a, action \in [Calls -> Places], action' = [action EXCEPT ![c] = a]
  PROVE  [d \in Calls |-> ActionOf(action'[d])] =
           [[d \in Calls |-> ActionOf(action[d])] EXCEPT ![c] = ActionOf(a)]
OBVIOUS

\* Bulkhead counts as FiniteSets does.
LEMMA SameCount == \A S : Abs!Cardinality(S) = Cardinality(S)
BY DEF Abs!Cardinality, Cardinality, Abs!IsFiniteSet, IsFiniteSet

LEMMA RunningIsInBulkhead ==
  ASSUME BreakerInv, NEW c \in Calls
  PROVE  Abs!RunningAt([d \in Calls |-> "gateway"][c]) = InBulkhead
<1>1. \A d \in Calls : ActionOf(action[d]) = "running" <=> action[d] \in {"sent", "backoff"}
  BY DEF BreakerInv, BreakerTypeOK, ActionOf
<1> QED BY <1>1 DEF Abs!RunningAt, Abs!Of, InBulkhead

\* A caller whose call ends before its action, or without one.
LEMMA FailsRefines ==
  ASSUME BreakerInv, Attended, NEW c \in Calls, UNCHANGED action,
         call' = [call EXCEPT ![c] = "failed"], call[c] \in {"idle", "waiting"}
  PROVE  Abs!CallsNext
<1>1. [d \in Calls |-> HeardOf(call'[d])] =
        [[d \in Calls |-> HeardOf(call[d])] EXCEPT ![c] = "over"]
  <2>1. HeardOf("failed") = "over"
    BY DEF HeardOf
  <2>2. call \in [Calls -> Heard]
    BY DEF BreakerInv, BreakerTypeOK, Heard
  <2> QED BY <2>1, <2>2, HeardMoves
<1>2. [d \in Calls |-> ActionOf(action'[d])] = [d \in Calls |-> ActionOf(action[d])]
  OBVIOUS
<1>3. CASE call[c] = "idle"
  <2>1. /\ [d \in Calls |-> HeardOf(call[d])][c] = "nothing"
        /\ [d \in Calls |-> ActionOf(action[d])][c] = "none"
    BY <1>3 DEF Attended, HeardOf, ActionOf
  <2>2. Abs!Refuse(c)
    BY <1>1, <1>2, <2>1 DEF Abs!Refuse
  <2> QED BY <2>2 DEF Abs!CallsNext
<1>4. CASE call[c] = "waiting"
  <2>1. [d \in Calls |-> HeardOf(call[d])][c] = "waiting"
    BY <1>4 DEF HeardOf
  <2>2. Abs!GiveUp(c)
    BY <1>1, <1>2, <2>1 DEF Abs!GiveUp
  <2> QED BY <2>2 DEF Abs!CallsNext
<1> QED BY <1>3, <1>4

LEMMA AdmitRefines ==
  ASSUME BreakerInv, Attended, NEW c \in Calls, call[c] = "idle", Admit(c)
  PROVE  Abs!CallsNext
<1>1. /\ call \in [Calls -> Heard] /\ action \in [Calls -> Places]
      /\ call' = [call EXCEPT ![c] = "waiting"] /\ action' = [action EXCEPT ![c] = "queued"]
  BY DEF BreakerInv, BreakerTypeOK, Heard, Places, Admit, Enters
<1>2. HeardOf("waiting") = "waiting" /\ ActionOf("queued") = "queued"
  BY DEF HeardOf, ActionOf
<1>3. /\ [d \in Calls |-> HeardOf(call'[d])] =
            [[d \in Calls |-> HeardOf(call[d])] EXCEPT ![c] = "waiting"]
      /\ [d \in Calls |-> ActionOf(action'[d])] =
            [[d \in Calls |-> ActionOf(action[d])] EXCEPT ![c] = "queued"]
  BY <1>1, <1>2, HeardMoves, ActionMoves
<1>4. /\ [d \in Calls |-> HeardOf(call[d])][c] = "nothing"
      /\ [d \in Calls |-> ActionOf(action[d])][c] = "none"
  BY DEF Attended, HeardOf, ActionOf
<1>5. Abs!Admit(c)
  BY <1>3, <1>4 DEF Abs!Admit
<1> QED BY <1>5 DEF Abs!CallsNext

LEMMA StartRefines ==
  ASSUME BreakerInv, Attended, Start
  PROVE  Abs!CallsNext
<1>1. /\ queue # <<>> /\ action' = [action EXCEPT ![Head(queue)] = "sent"] /\ call' = call
      /\ Cardinality(InBulkhead) < Slots
  BY DEF Start, SlotFree
<1>2. Head(queue) \in Calls /\ action[Head(queue)] = "queued" /\ action \in [Calls -> Places]
  <2>1. queue \in Seq(Calls) /\ Single(queue) /\ action \in [Calls -> Places]
    BY AttendedParts DEF BreakerInv, BreakerTypeOK, Places
  <2>2. Head(queue) \in Calls /\ Listed(queue, Head(queue))
    BY <1>1, <2>1, Leaves
  <2> QED BY <2>1, <2>2, AttendedParts DEF Cared
<1>3. PICK h \in Calls : h = Head(queue)
  BY <1>2
<1>4. ActionOf("sent") = "running" /\ ActionOf("queued") = "queued"
  BY DEF ActionOf
<1>5. [d \in Calls |-> ActionOf(action'[d])] =
        [[d \in Calls |-> ActionOf(action[d])] EXCEPT ![h] = "running"]
  BY <1>1, <1>2, <1>3, <1>4, ActionMoves
<1>6. [d \in Calls |-> ActionOf(action[d])][h] = "queued"
  BY <1>2, <1>3, <1>4
<1>7. Abs!Cardinality(Abs!RunningAt([d \in Calls |-> "gateway"][h])) < Slots
  BY <1>1, RunningIsInBulkhead, SameCount
<1>8. Abs!Start(h)
  BY <1>1, <1>5, <1>6, <1>7 DEF Abs!Start
<1> QED BY <1>8 DEF Abs!CallsNext

LEMMA EndsRefines ==
  ASSUME BreakerInv, NEW c \in Calls, action[c] = "sent", action' = [action EXCEPT ![c] = "none"],
         \/ call[c] # "waiting" /\ call' = call
         \/ call[c] = "waiting" /\ call' = [call EXCEPT ![c] = "answered"]
         \/ call[c] = "waiting" /\ call' = [call EXCEPT ![c] = "failed"]
  PROVE  Abs!CallsNext
<1> DEFINE heard == [d \in Calls |-> HeardOf(call[d])]
<1>1. call \in [Calls -> Heard] /\ action \in [Calls -> Places]
  BY DEF BreakerInv, BreakerTypeOK, Heard, Places
<1>2. /\ ActionOf("none") = "none" /\ ActionOf("sent") = "running"
      /\ HeardOf("answered") = "over" /\ HeardOf("failed") = "over" /\ HeardOf("waiting") = "waiting"
      /\ \A h \in Heard : HeardOf(h) = "waiting" <=> h = "waiting"
  BY DEF ActionOf, HeardOf, Heard
<1>3. [d \in Calls |-> ActionOf(action'[d])] =
        [[d \in Calls |-> ActionOf(action[d])] EXCEPT ![c] = "none"]
  BY <1>1, <1>2, ActionMoves
<1>4. [d \in Calls |-> ActionOf(action[d])][c] = "running"
  BY <1>2
<1>5. [d \in Calls |-> HeardOf(call'[d])] =
        [heard EXCEPT ![c] = IF heard[c] = "waiting" THEN "over" ELSE heard[c]]
  <2>1. CASE call[c] # "waiting" /\ call' = call
    <3>1. heard[c] # "waiting"
      BY <1>1, <1>2, <2>1
    <3> QED BY <2>1, <3>1
  <2>2. CASE call[c] = "waiting" /\ call' # call
    <3>1. heard[c] = "waiting"
      BY <1>2, <2>2
    <3>2. [d \in Calls |-> HeardOf(call'[d])] = [heard EXCEPT ![c] = "over"]
      BY <1>1, <1>2, <2>2, HeardMoves
    <3> QED BY <3>1, <3>2
  <2>3. call[c] = "waiting" => call' # call
    BY <1>1
  <2> QED BY <2>1, <2>2, <2>3
<1>6. Abs!End(c)
  BY <1>3, <1>4, <1>5 DEF Abs!End
<1> QED BY <1>6 DEF Abs!CallsNext

LEMMA RefinesNext ==
  BreakerInv /\ Attended /\ [BreakerNext]_breaker => [Abs!CallsNext]_(Abs!calls)
<1> SUFFICES ASSUME BreakerInv, Attended, [BreakerNext]_breaker
             PROVE  Abs!CallsNext \/ UNCHANGED Abs!calls
  OBVIOUS
<1>0. ASSUME UNCHANGED <<call, action>> PROVE UNCHANGED Abs!calls
  BY <1>0 DEF Abs!calls
<1>1. ASSUME NEW c \in Calls, Fire(c) PROVE Abs!CallsNext
  <2>1. call[c] = "idle"
    BY <1>1 DEF Fire
  <2>2. CASE Reject(c) \/ Saturate(c)
    BY <2>1, <2>2, FailsRefines DEF Reject, Saturate, Fails, loop
  <2>3. CASE Admit(c)
    BY <2>1, <2>3, AdmitRefines
  <2> QED BY <1>1, <2>2, <2>3 DEF Fire
<1>2. ASSUME NEW c \in Calls, TimesOut(c) PROVE Abs!CallsNext
  BY <1>2, FailsRefines DEF TimesOut, Fails, loop
<1>3. ASSUME NEW c \in Calls, Answered(c) \/ NoAnswer(c) PROVE Abs!CallsNext
  BY <1>3, EndsRefines DEF Answered, NoAnswer, Ends, Unheard, Succeeds, Fails
<1>4. ASSUME NEW c \in Calls, Conflict(c) \/ Resend(c) PROVE UNCHANGED Abs!calls
  <2>1. PICK a \in {"sent", "backoff"} : action' = [action EXCEPT ![c] = a]
    BY <1>4 DEF Conflict, Resend
  <2>2. action \in [Calls -> Places] /\ action[c] \in {"sent", "backoff"} /\ call' = call
    BY <1>4 DEF Conflict, Resend, BreakerInv, BreakerTypeOK, Places
  <2>3. \A d \in Calls : ActionOf(action'[d]) = ActionOf(action[d])
    BY <2>1, <2>2 DEF ActionOf
  <2> QED BY <2>2, <2>3 DEF Abs!calls
<1>5. ASSUME NEW c \in Calls, Again(c) PROVE Abs!CallsNext
  <2>1. /\ call' = [call EXCEPT ![c] = "idle"] /\ call[c] \in {"answered", "failed"}
        /\ action[c] = "none" /\ action' = action /\ call \in [Calls -> Heard]
    BY <1>5 DEF Again, loop, BreakerInv, BreakerTypeOK, Heard
  <2>2. HeardOf("idle") = "nothing" /\ HeardOf(call[c]) = "over" /\ ActionOf("none") = "none"
    BY <2>1 DEF HeardOf, ActionOf
  <2>3. [d \in Calls |-> HeardOf(call'[d])] =
          [[d \in Calls |-> HeardOf(call[d])] EXCEPT ![c] = "nothing"]
    BY <2>1, <2>2, HeardMoves
  <2>4. Abs!Again(c)
    BY <2>1, <2>2, <2>3 DEF Abs!Again
  <2> QED BY <2>4 DEF Abs!CallsNext
<1>6. CASE HalfOpen \/ Roll \/ Change \/ UNCHANGED breaker
  BY <1>0, <1>6 DEF HalfOpen, Roll, Change, loop, breaker
<1> QED BY <1>1, <1>2, <1>3, <1>4, <1>5, <1>6, StartRefines DEF BreakerNext, Act

\* For any number of callers and any limits, what the saga may rely on: a refused call has
\* no action, an admitted one runs once and within the limit, given up or not.
THEOREM BreakerImplementsBulkhead == BreakerSpec => ImplementsBulkhead
BY RefinesInit, RefinesNext, BreakerAttended, PTL
   DEF BreakerSpec, ImplementsBulkhead, Abs!CallsSpec
=============================================================================
