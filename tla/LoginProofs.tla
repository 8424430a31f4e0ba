----------------------------- MODULE LoginProofs -----------------------------
(* What the login limiter and the session entries promise, for any number of *)
(* students and requests and any limit, window and lifetime.                 *)
EXTENDS Login, SequenceTheorems, TLAPS

\* Sessions: no entry expires before a token of the student, nor later than a login of now
\* would make it; a token that is yet to be handed out is no younger than now.
TokensCovered ==
  /\ \A u \in Students : token[u] <= session[u]
  /\ \A r \in Requests : request[r].at = "save" => request[r].expires <= clock + Lifetime

\* Refusals: the window in which a student was first refused is the one that counts.
RefusedInWindow ==
  \A u \in Students : \A first \in refused[u] : resetAt[u] <= first + Window

\* Windows, of the values of the counter: a login comes in the window it is counted in; the
\* windows before the present one have ended; this one counts each login it let in; and of
\* Limit + 1 logins the last is in a later window than the first.
Counted(l, h, e) ==
  /\ \A k \in 1 .. Len(l) : l[k].at < l[k].until /\ l[k].until <= l[k].at + Window
  /\ \A k \in 1 .. Len(l) : l[k].until = e \/ l[k].until + Window <= e
  /\ \A k \in 1 .. Len(l) : l[k].until = e => Len(l) - k < h
  /\ \A k \in 1 .. Len(l) : k + Limit <= Len(l) => l[k].until + Window <= l[k + Limit].until

WindowsCounted == \A u \in Students : Counted(letIn[u], hits[u], resetAt[u])

LoginInv == LoginTypeOK /\ TokensCovered /\ RefusedInWindow /\ WindowsCounted

Logins == [at : Nat, until : Nat]

LEMMA Numbers ==
  /\ Limit \in Nat /\ Limit > 0 /\ Window \in Nat /\ Window > 0
  /\ Lifetime \in Nat /\ Lifetime > 0 /\ MaxClock \in Nat
BY LoginAssumption DEF LoginAssumption

LEMMA LoginInitInv == LoginInit => LoginInv
<1> SUFFICES ASSUME LoginInit PROVE LoginInv
  OBVIOUS
<1> USE Numbers DEF LoginInit
<1>1. /\ clock \in 0 .. MaxClock /\ hits \in [Students -> 0 .. Limit + 1]
      /\ resetAt \in [Students -> Nat] /\ session \in [Students -> Nat] /\ token \in [Students -> Nat]
      /\ \A u \in Students : resetAt[u] <= clock + Window /\ session[u] <= clock + Lifetime
  OBVIOUS
<1>2. letIn \in [Students -> Seq([at : Nat, until : Nat])] /\ refused \in [Students -> SUBSET Nat]
  BY EmptySeq
<1>3. request \in [Requests -> RequestStates]
  BY DEF RequestStates
<1>4. TokensCovered
  BY DEF TokensCovered, Idle
<1>5. RefusedInWindow
  BY DEF RefusedInWindow
<1>6. WindowsCounted
  <2> SUFFICES ASSUME NEW u \in Students PROVE Counted(letIn[u], hits[u], resetAt[u])
    BY DEF WindowsCounted
  <2>1. letIn[u] = <<>> /\ Len(letIn[u]) = 0 /\ 1 .. Len(letIn[u]) = {}
    BY EmptySeq
  <2> QED BY <2>1 DEF Counted
<1> QED BY <1>1, <1>2, <1>3, <1>4, <1>5, <1>6 DEF LoginInv, LoginTypeOK

-----------------------------------------------------------------------------
(* The limiter.                                                            *)

LEMMA TwoSteps ==
  ASSUME NEW n \in Nat, NEW m \in Nat, NEW k \in 1 .. n, k + 2 * m <= n, m > 0
  PROVE  /\ k + m \in 1 .. n /\ k + 2 * m \in 1 .. n /\ k \in Nat
         /\ (k + m) + m = k + 2 * m
OBVIOUS

\* One more login, in a window that had room or in a new one.
LEMMA OneMore ==
  ASSUME NEW l \in Seq(Logins), NEW h \in Nat, NEW e \in Nat, NEW c \in Nat,
         NEW h2 \in Nat, NEW e2 \in Nat,
         Counted(l, h, e), h2 <= Limit, c < e2, e2 <= c + Window,
         \/ h2 = h + 1 /\ e2 = e
         \/ h2 = 1 /\ e <= c /\ e2 = c + Window
  PROVE  /\ Append(l, [at |-> c, until |-> e2]) \in Seq(Logins)
         /\ Counted(Append(l, [at |-> c, until |-> e2]), h2, e2)
<1> USE Numbers
<1> DEFINE x == [at |-> c, until |-> e2]
           m == Append(l, x)
<1>1. x \in Logins /\ x.at = c /\ x.until = e2
  BY DEF Logins
<1>2. /\ m \in Seq(Logins) /\ Len(m) = Len(l) + 1
      /\ \A k \in 1 .. Len(l) : m[k] = l[k]
      /\ m[Len(l) + 1] = x
  BY <1>1, AppendProperties
<1>3. Len(l) \in Nat
  BY LenProperties
<1>4. \A k \in 1 .. Len(l) : l[k].at \in Nat /\ l[k].until \in Nat
  <2> SUFFICES ASSUME NEW k \in 1 .. Len(l) PROVE l[k].at \in Nat /\ l[k].until \in Nat
    OBVIOUS
  <2>1. l[k] \in Logins
    BY ElementOfSeq
  <2> QED BY <2>1 DEF Logins
<1> HIDE DEF x, m
\* What came before, seen from the present window.
<1>5. ASSUME NEW k \in 1 .. Len(l)
      PROVE  /\ l[k].until = e2 \/ l[k].until + Window <= e2
             /\ l[k].until = e2 => Len(l) + 1 - k < h2
  <2>1. /\ l[k].until = e \/ l[k].until + Window <= e
        /\ l[k].until = e => Len(l) - k < h
    BY DEF Counted
  <2>2. CASE h2 = h + 1 /\ e2 = e
    BY <1>3, <2>1, <2>2
  <2>3. CASE h2 = 1 /\ e <= c /\ e2 = c + Window
    <3>1. l[k].until <= e
      BY <1>4, <2>1
    <3>2. l[k].until + Window <= e2 /\ l[k].until # e2
      BY <1>4, <2>3, <3>1
    <3> QED BY <3>2
  <2> QED BY <2>2, <2>3
<1>6. \A k \in 1 .. Len(m) : m[k].at < m[k].until /\ m[k].until <= m[k].at + Window
  <2> SUFFICES ASSUME NEW k \in 1 .. Len(m)
               PROVE  m[k].at < m[k].until /\ m[k].until <= m[k].at + Window
    OBVIOUS
  <2>1. CASE k = Len(l) + 1 BY <1>1, <1>2, <2>1
  <2>2. CASE k \in 1 .. Len(l) BY <1>2, <2>2 DEF Counted
  <2> QED BY <1>2, <1>3, <2>1, <2>2
<1>7. ASSUME NEW k \in 1 .. Len(m)
      PROVE  /\ m[k].until = e2 \/ m[k].until + Window <= e2
             /\ m[k].until = e2 => Len(m) - k < h2
  <2>1. CASE k = Len(l) + 1 BY <1>1, <1>2, <1>3, <2>1
  <2>2. CASE k \in 1 .. Len(l) BY <1>2, <1>5, <2>2
  <2> QED BY <1>2, <1>3, <2>1, <2>2
<1>8. ASSUME NEW k \in 1 .. Len(m), k + Limit <= Len(m)
      PROVE  m[k].until + Window <= m[k + Limit].until
  <2>1. k \in 1 .. Len(l) /\ k \in Nat /\ k + Limit \in Nat
    BY <1>2, <1>3, <1>8
  <2>2. CASE k + Limit <= Len(l)
    <3>1. k + Limit \in 1 .. Len(l)
      BY <1>3, <2>1, <2>2
    <3>2. m[k] = l[k] /\ m[k + Limit] = l[k + Limit]
      BY <1>2, <2>1, <3>1
    <3> QED BY <2>1, <2>2, <3>2 DEF Counted
  <2>3. CASE k + Limit = Len(l) + 1
    <3>1. m[k + Limit].until = e2 /\ m[k] = l[k]
      BY <1>1, <1>2, <2>1, <2>3
    <3>2. ~(Len(l) + 1 - k < h2)
      BY <1>3, <2>1, <2>3
    <3> QED BY <1>5, <2>1, <3>1, <3>2
  <2> QED BY <1>2, <1>3, <1>8, <2>1, <2>2, <2>3
<1>9. Counted(m, h2, e2)
  BY <1>6, <1>7, <1>8 DEF Counted
<1> QED BY <1>2, <1>9 DEF m, x

\* A refusal is counted in the window that refuses.
LEMMA OneRefused ==
  ASSUME NEW l, NEW h \in Nat, NEW h2 \in Nat, NEW e, Counted(l, h, e), h <= h2,
         Len(l) \in Nat
  PROVE  Counted(l, h2, e)
BY DEF Counted

\* What a hit does to the counter.
LEMMA HitCounts ==
  ASSUME LoginInv, NEW u \in Students
  PROVE  /\ clock \in Nat /\ hits[u] \in Nat /\ resetAt[u] \in Nat
         /\ Hits(u) \in 0 .. Limit + 1 /\ Expiry(u) \in Nat
         /\ clock < Expiry(u) /\ Expiry(u) <= clock + Window
         /\ ~WithinLimit(u) => Counting(u) /\ Expiry(u) = resetAt[u] /\ hits[u] <= Hits(u)
         /\ WithinLimit(u) =>
              \/ Hits(u) = hits[u] + 1 /\ Expiry(u) = resetAt[u]
              \/ Hits(u) = 1 /\ resetAt[u] <= clock /\ Expiry(u) = clock + Window
<1>1. /\ clock \in Nat /\ hits[u] \in 0 .. Limit + 1 /\ resetAt[u] \in Nat
      /\ resetAt[u] <= clock + Window
  BY Numbers DEF LoginInv, LoginTypeOK
<1>2. CASE Counting(u)
  <2>1. /\ Expiry(u) = resetAt[u] /\ clock < resetAt[u]
        /\ Hits(u) = IF hits[u] <= Limit THEN hits[u] + 1 ELSE hits[u]
    BY <1>2 DEF Counting, Expiry, Hits
  <2>2. Hits(u) \in 0 .. Limit + 1 /\ hits[u] <= Hits(u)
    BY <1>1, <2>1, Numbers
  <2>3. WithinLimit(u) => Hits(u) = hits[u] + 1
    BY <1>1, <2>1, Numbers DEF WithinLimit
  <2> QED BY <1>1, <1>2, <2>1, <2>2, <2>3
<1>3. CASE ~Counting(u)
  <2>1. Expiry(u) = clock + Window /\ Hits(u) = 1 /\ resetAt[u] <= clock
    BY <1>1, <1>3 DEF Counting, Expiry, Hits
  <2>2. WithinLimit(u)
    BY <2>1, Numbers DEF WithinLimit
  <2> QED BY <1>1, <2>1, <2>2, Numbers
<1> QED BY <1>2, <1>3

\* What the limiter keeps of the other students stays; what it keeps of this one is right.
LEMMA LimiterInv ==
  ASSUME LoginInv, NEW u \in Students, Hit(u), UNCHANGED clock,
         \/ Passes(u)
         \/ /\ ~WithinLimit(u) /\ UNCHANGED letIn
            /\ refused' = [refused EXCEPT ![u] = IF @ = {} THEN {clock} ELSE @]
  PROVE  /\ hits' \in [Students -> 0 .. Limit + 1] /\ resetAt' \in [Students -> Nat]
         /\ \A v \in Students : resetAt'[v] <= clock' + Window
         /\ letIn' \in [Students -> Seq([at : Nat, until : Nat])]
         /\ refused' \in [Students -> SUBSET Nat]
         /\ RefusedInWindow' /\ WindowsCounted'
<1> USE Numbers
<1>1. /\ hits' = [hits EXCEPT ![u] = Hits(u)] /\ resetAt' = [resetAt EXCEPT ![u] = Expiry(u)]
      /\ clock' = clock
  BY DEF Hit
<1>2. /\ hits \in [Students -> 0 .. Limit + 1] /\ resetAt \in [Students -> Nat]
      /\ letIn \in [Students -> Seq(Logins)] /\ refused \in [Students -> SUBSET Nat]
      /\ \A v \in Students : resetAt[v] <= clock + Window
      /\ \A v \in Students : Counted(letIn[v], hits[v], resetAt[v])
      /\ \A v \in Students : \A first \in refused[v] : resetAt[v] <= first + Window
  BY DEF LoginInv, LoginTypeOK, Logins, WindowsCounted, RefusedInWindow
<1>3. /\ hits' \in [Students -> 0 .. Limit + 1] /\ resetAt' \in [Students -> Nat]
      /\ hits'[u] = Hits(u) /\ resetAt'[u] = Expiry(u)
      /\ \A v \in Students : v # u => hits'[v] = hits[v] /\ resetAt'[v] = resetAt[v]
  BY <1>1, <1>2, HitCounts
<1>4. \A v \in Students : resetAt'[v] <= clock' + Window
  BY <1>1, <1>2, <1>3, HitCounts
<1>5. CASE Passes(u)
  <2>1. /\ letIn' = [letIn EXCEPT ![u] = Append(letIn[u], [at |-> clock, until |-> Expiry(u)])]
        /\ refused' = [refused EXCEPT ![u] = {}]
        /\ Hits(u) <= Limit /\ WithinLimit(u)
    BY <1>5 DEF Passes, WithinLimit
  <2>2. letIn[u] \in Seq(Logins) /\ Counted(letIn[u], hits[u], resetAt[u])
    BY <1>2
  <2>3. /\ clock \in Nat /\ hits[u] \in Nat /\ resetAt[u] \in Nat /\ Hits(u) \in Nat /\ Expiry(u) \in Nat
        /\ clock < Expiry(u) /\ Expiry(u) <= clock + Window
        /\ \/ Hits(u) = hits[u] + 1 /\ Expiry(u) = resetAt[u]
           \/ Hits(u) = 1 /\ resetAt[u] <= clock /\ Expiry(u) = clock + Window
    BY <2>1, HitCounts
  <2>4. /\ Append(letIn[u], [at |-> clock, until |-> Expiry(u)]) \in Seq(Logins)
        /\ Counted(Append(letIn[u], [at |-> clock, until |-> Expiry(u)]), Hits(u), Expiry(u))
    BY <2>1, <2>2, <2>3, OneMore
  <2>5. letIn' \in [Students -> Seq(Logins)] /\ refused' \in [Students -> SUBSET Nat]
    BY <1>2, <2>1, <2>4
  <2>6. Counted(letIn'[u], hits'[u], resetAt'[u])
    BY <1>2, <1>3, <2>1, <2>4
  <2>7. ASSUME NEW v \in Students, v # u PROVE letIn'[v] = letIn[v] /\ refused'[v] = refused[v]
    BY <1>2, <2>1, <2>7
  <2>8. WindowsCounted'
    BY <1>2, <1>3, <2>6, <2>7 DEF WindowsCounted
  <2>9. RefusedInWindow'
    BY <1>2, <1>3, <2>1, <2>7 DEF RefusedInWindow
  <2> QED BY <1>3, <1>4, <2>5, <2>8, <2>9 DEF Logins
<1>6. CASE /\ ~WithinLimit(u) /\ UNCHANGED letIn
           /\ refused' = [refused EXCEPT ![u] = IF @ = {} THEN {clock} ELSE @]
  <2>1. /\ Expiry(u) = resetAt[u] /\ hits[u] <= Hits(u) /\ Expiry(u) <= clock + Window
        /\ hits[u] \in Nat /\ Hits(u) \in Nat /\ clock \in Nat
    BY <1>6, HitCounts
  <2>2. Len(letIn[u]) \in Nat
    BY <1>2, LenProperties
  <2>3. Counted(letIn[u], Hits(u), resetAt[u])
    BY <1>2, <2>1, <2>2, OneRefused
  <2>4. WindowsCounted'
    BY <1>2, <1>3, <1>6, <2>1, <2>3 DEF WindowsCounted
  <2>5. refused' \in [Students -> SUBSET Nat]
    BY <1>2, <1>6, <2>1
  <2>6. ASSUME NEW v \in Students, NEW first \in refused'[v] PROVE resetAt'[v] <= first + Window
    <3>1. CASE v # u
      BY <1>2, <1>3, <1>6, <2>6, <3>1
    <3>2. CASE v = u
      <4>1. first \in refused[u] \/ first = clock
        BY <1>2, <1>6, <2>6, <3>2
      <4> QED BY <1>2, <1>3, <2>1, <3>2, <4>1
    <3> QED BY <3>1, <3>2
  <2>7. RefusedInWindow'
    BY <2>6 DEF RefusedInWindow
  <2> QED BY <1>2, <1>3, <1>4, <1>6, <2>4, <2>5, <2>7 DEF Logins
<1> QED BY <1>5, <1>6

-----------------------------------------------------------------------------
(* The steps.                                                              *)

\* What is asked of a request that is set.
Due(x) == x \in RequestStates /\ (x.at = "save" => x.expires <= clock + Lifetime)

\* A step that only moves one request, or none.
LEMMA RequestMoves ==
  ASSUME LoginInv, UNCHANGED <<clock, session, token>>,
         \/ request' = request
         \/ \E r \in Requests : \E x : Due(x) /\ request' = [request EXCEPT ![r] = x]
  PROVE  /\ request' \in [Requests -> RequestStates] /\ TokensCovered'
         /\ session' \in [Students -> Nat] /\ token' \in [Students -> Nat]
         /\ \A u \in Students : session'[u] <= clock' + Lifetime
<1>1. /\ \A u \in Students : token'[u] <= session'[u] /\ session'[u] <= clock' + Lifetime
      /\ session' \in [Students -> Nat] /\ token' \in [Students -> Nat]
  BY DEF LoginInv, LoginTypeOK, TokensCovered
<1>2. request \in [Requests -> RequestStates] /\ \A r \in Requests : Due(request[r])
  BY DEF LoginInv, LoginTypeOK, TokensCovered, Due
<1>3. request' \in [Requests -> RequestStates] /\ \A r \in Requests : Due(request'[r])
  <2>1. CASE request' = request BY <1>2, <2>1
  <2>2. ASSUME NEW r \in Requests, NEW x, Due(x), request' = [request EXCEPT ![r] = x]
        PROVE  request' \in [Requests -> RequestStates] /\ \A q \in Requests : Due(request'[q])
    <3>1. x \in RequestStates
      BY <2>2 DEF Due
    <3>2. request' \in [Requests -> RequestStates]
      BY <1>2, <2>2, <3>1
    <3>3. \A q \in Requests : request'[q] = x \/ request'[q] = request[q]
      BY <1>2, <2>2
    <3> QED BY <1>2, <2>2, <3>2, <3>3
  <2> QED BY <2>1, <2>2
<1>4. \A r \in Requests : request'[r].at = "save" => request'[r].expires <= clock' + Lifetime
  BY <1>3 DEF Due
<1> QED BY <1>1, <1>3, <1>4 DEF TokensCovered

\* What does not touch the limiter keeps its part.
LEMMA LimiterKept ==
  ASSUME LoginInv, UNCHANGED <<clock, limiter>>
  PROVE  /\ hits' \in [Students -> 0 .. Limit + 1] /\ resetAt' \in [Students -> Nat]
         /\ \A v \in Students : resetAt'[v] <= clock' + Window
         /\ letIn' \in [Students -> Seq([at : Nat, until : Nat])]
         /\ refused' \in [Students -> SUBSET Nat]
         /\ RefusedInWindow' /\ WindowsCounted' /\ clock' \in 0 .. MaxClock
BY DEF LoginInv, LoginTypeOK, RefusedInWindow, WindowsCounted, limiter

LEMMA IdleDue == Due(Idle)
BY DEF Due, Idle, RequestStates

LEMMA TickInv == LoginInv /\ Tick => LoginInv'
<1> SUFFICES ASSUME LoginInv, Tick PROVE LoginInv'
  OBVIOUS
<1> USE Numbers
<1>1. UNCHANGED <<hits, resetAt, letIn, refused, request, session, token>>
  BY DEF Tick, limiter, issued
<1>2. clock \in Nat /\ clock' = clock + 1 /\ clock' \in 0 .. MaxClock
  BY DEF Tick, LoginInv, LoginTypeOK
<1>3. \A u \in Students : resetAt'[u] <= clock' + Window /\ session'[u] <= clock' + Lifetime
  <2> SUFFICES ASSUME NEW u \in Students
               PROVE  resetAt[u] <= clock + 1 + Window /\ session[u] <= clock + 1 + Lifetime
    BY <1>1, <1>2
  <2>1. /\ resetAt[u] \in Nat /\ session[u] \in Nat
        /\ resetAt[u] <= clock + Window /\ session[u] <= clock + Lifetime
    BY DEF LoginInv, LoginTypeOK
  <2> QED BY <1>2, <2>1
<1>4. \A r \in Requests : request'[r].at = "save" => request'[r].expires <= clock' + Lifetime
  <2> SUFFICES ASSUME NEW r \in Requests, request[r].at = "save"
               PROVE  request[r].expires <= clock + 1 + Lifetime
    BY <1>1, <1>2
  <2>1. request[r] \in RequestStates
    BY DEF LoginInv, LoginTypeOK
  <2>2. request[r].expires \in Nat
    BY <2>1 DEF RequestStates, Idle
  <2>3. request[r].expires <= clock + Lifetime
    BY DEF LoginInv, TokensCovered
  <2> QED BY <1>2, <2>2, <2>3
<1>5. LoginTypeOK'
  BY <1>1, <1>2, <1>3 DEF LoginInv, LoginTypeOK
<1>6. TokensCovered'
  BY <1>1, <1>4 DEF LoginInv, TokensCovered
<1>7. RefusedInWindow' /\ WindowsCounted'
  BY <1>1 DEF LoginInv, RefusedInWindow, WindowsCounted
<1> QED BY <1>5, <1>6, <1>7 DEF LoginInv

\* Requests that arrive.
LEMMA ArriveInv ==
  ASSUME LoginInv, NEW r \in Requests, NEW u \in Students,
         \/ TooMany(r, u) \/ PostIncomplete(r, u)
         \/ \E right \in BOOLEAN : Post(r, u, right) \/ PostDirect(r, u, right)
  PROVE  LoginInv'
<1>1. ASSUME NEW right \in BOOLEAN PROVE Due([at |-> "find", student |-> u, right |-> right])
  BY DEF Due, RequestStates
<1>2. UNCHANGED <<clock, session, token>>
  BY DEF TooMany, PostIncomplete, Post, PostDirect, issued
<1>3. \/ request' = request
      \/ \E q \in Requests : \E x : Due(x) /\ request' = [request EXCEPT ![q] = x]
  BY <1>1 DEF TooMany, PostIncomplete, Post, PostDirect
<1>4. /\ request' \in [Requests -> RequestStates] /\ TokensCovered'
      /\ session' \in [Students -> Nat] /\ token' \in [Students -> Nat]
      /\ \A v \in Students : session'[v] <= clock' + Lifetime
  BY <1>2, <1>3, RequestMoves
<1>5. CASE UNCHANGED limiter
  BY <1>2, <1>4, <1>5, LimiterKept DEF LoginInv, LoginTypeOK
<1>6. CASE /\ Hit(u)
           /\ \/ Passes(u)
              \/ /\ ~WithinLimit(u) /\ UNCHANGED letIn
                 /\ refused' = [refused EXCEPT ![u] = IF @ = {} THEN {clock} ELSE @]
  <2>1. clock' \in 0 .. MaxClock
    BY <1>2 DEF LoginInv, LoginTypeOK
  <2> QED BY <1>2, <1>4, <1>6, <2>1, LimiterInv DEF LoginInv, LoginTypeOK
<1> QED BY <1>5, <1>6 DEF TooMany, PostIncomplete, Post, PostDirect

\* Requests that go on.
LEMMA ServeInv ==
  ASSUME LoginInv, NEW r \in Requests, Refuse(r) \/ Sign(r) \/ Save(r) \/ Fail(r)
  PROVE  LoginInv'
<1> USE Numbers
<1>1. UNCHANGED <<clock, limiter>>
  BY DEF Refuse, Sign, Save, Fail
<1>2. clock \in Nat /\ request[r] \in RequestStates
  BY DEF LoginInv, LoginTypeOK
<1>3. CASE Refuse(r) \/ Sign(r)
  <2>1. UNCHANGED <<clock, session, token>>
    BY <1>3 DEF Refuse, Sign, issued
  <2>2. ASSUME request[r].student \in Registered
        PROVE  Due([at |-> "save", student |-> request[r].student, expires |-> clock + Lifetime])
    BY <1>2, <2>2 DEF Due, RequestStates
  <2>3. \E q \in Requests : \E x : Due(x) /\ request' = [request EXCEPT ![q] = x]
    BY <1>3, <2>2, IdleDue DEF Refuse, Sign, Ends
  <2> QED BY <1>1, <2>1, <2>3, RequestMoves, LimiterKept DEF LoginInv, LoginTypeOK
<1>4. ASSUME request[r].at = "save"
      PROVE  /\ request[r].student \in Students /\ request[r].expires \in Nat
             /\ request[r].expires <= clock + Lifetime
  <2>1. request[r] \in [at : {"save"}, student : Registered, expires : Nat]
    BY <1>2, <1>4 DEF RequestStates, Idle
  <2> QED BY <1>4, <2>1, LoginAssumption DEF LoginInv, TokensCovered, LoginAssumption
\* The new entry lasts as long as any token there can be.
<1>5. ASSUME request[r].at = "save", Entry(r),
             \/ token' = token
             \/ token' = [token EXCEPT ![request[r].student] =
                            IF request[r].expires > @ THEN request[r].expires ELSE @]
      PROVE  /\ session' \in [Students -> Nat] /\ token' \in [Students -> Nat]
             /\ \A v \in Students : token'[v] <= session'[v] /\ session'[v] <= clock + Lifetime
  <2> DEFINE u == request[r].student
  <2>1. /\ session \in [Students -> Nat] /\ token \in [Students -> Nat]
        /\ \A v \in Students : token[v] <= session[v] /\ session[v] <= clock + Lifetime
    BY DEF LoginInv, LoginTypeOK, TokensCovered
  <2>2. u \in Students /\ request[r].expires \in Nat /\ request[r].expires <= clock + Lifetime
    BY <1>4, <1>5
  <2>3. session' = [session EXCEPT ![u] = clock + Lifetime]
    BY <1>5 DEF Entry
  <2> HIDE DEF u
  <2>4. /\ session' \in [Students -> Nat] /\ session'[u] = clock + Lifetime
        /\ \A v \in Students : v # u => session'[v] = session[v]
    BY <1>2, <2>1, <2>2, <2>3
  <2>5. /\ token' \in [Students -> Nat] /\ token'[u] \in {token[u], request[r].expires}
        /\ \A v \in Students : v # u => token'[v] = token[v]
    <3>1. CASE token' = token BY <2>1, <3>1
    <3>2. CASE token' = [token EXCEPT ![u] = IF request[r].expires > @ THEN request[r].expires ELSE @]
      BY <2>1, <2>2, <3>2
    <3> QED BY <1>5, <3>1, <3>2 DEF u
  <2>6. token'[u] <= session'[u] /\ session'[u] <= clock + Lifetime
    <3>1. token[u] <= session[u] /\ session[u] <= clock + Lifetime /\ token[u] \in Nat /\ session[u] \in Nat
      BY <2>1, <2>2
    <3> QED BY <1>2, <2>2, <2>4, <2>5, <3>1
  <2> QED BY <2>1, <2>4, <2>5, <2>6
<1>6. CASE Save(r) \/ Fail(r)
  <2>1. request' = [request EXCEPT ![r] = Idle]
    BY <1>6 DEF Save, Fail, Ends
  <2>2. request' \in [Requests -> RequestStates]
        /\ \A q \in Requests : request'[q].at = "save" => request'[q].expires <= clock' + Lifetime
    <3>1. Idle \in RequestStates /\ Idle.at # "save"
      BY DEF RequestStates, Idle
    <3>2. request \in [Requests -> RequestStates]
      BY DEF LoginInv, LoginTypeOK
    <3>3. request' \in [Requests -> RequestStates]
      BY <2>1, <3>1, <3>2
    <3>4. \A q \in Requests : request'[q] = Idle \/ request'[q] = request[q]
      BY <2>1, <3>2
    <3> QED BY <1>1, <3>1, <3>3, <3>4 DEF LoginInv, TokensCovered
  <2>3. /\ session' \in [Students -> Nat] /\ token' \in [Students -> Nat]
        /\ \A v \in Students : token'[v] <= session'[v] /\ session'[v] <= clock' + Lifetime
    <3>1. CASE session' = session /\ token' = token
      BY <1>1, <3>1 DEF LoginInv, LoginTypeOK, TokensCovered
    <3>2. CASE ~(session' = session /\ token' = token)
      <4>1. /\ request[r].at = "save" /\ Entry(r)
            /\ \/ token' = token
               \/ token' = [token EXCEPT ![request[r].student] =
                              IF request[r].expires > @ THEN request[r].expires ELSE @]
        BY <1>6, <3>2 DEF Save, Fail
      <4> QED BY <1>1, <1>5, <4>1
    <3> QED BY <3>1, <3>2
  <2>4. TokensCovered'
    BY <2>2, <2>3 DEF TokensCovered
  <2> QED BY <1>1, <2>2, <2>3, <2>4, LimiterKept DEF LoginInv, LoginTypeOK
<1> QED BY <1>3, <1>6

LEMMA LoginCrashInv == LoginInv /\ Crash => LoginInv'
<1> SUFFICES ASSUME LoginInv, Crash PROVE LoginInv'
  OBVIOUS
<1>1. request' \in [Requests -> RequestStates] /\ \A r \in Requests : request'[r].at # "save"
  BY DEF Crash, RequestStates, Idle
<1>2. UNCHANGED <<clock, limiter, session, token>>
  BY DEF Crash, issued
<1>3. TokensCovered'
  BY <1>1, <1>2 DEF LoginInv, TokensCovered
<1> QED BY <1>1, <1>2, <1>3, LimiterKept DEF LoginInv, LoginTypeOK

LEMMA LoginStepInv == LoginInv /\ [LoginNext]_login => LoginInv'
<1> SUFFICES ASSUME LoginInv, [LoginNext]_login PROVE LoginInv'
  OBVIOUS
<1>1. CASE LoginNext
  BY <1>1, TickInv, ArriveInv, ServeInv, LoginCrashInv DEF LoginNext
<1>2. CASE UNCHANGED login
  <2>1. UNCHANGED <<clock, hits, resetAt, letIn, refused, request, session, token>>
    BY <1>2 DEF login, limiter, issued
  <2> QED BY <2>1 DEF LoginInv, LoginTypeOK, TokensCovered, RefusedInWindow, WindowsCounted
<1> QED BY <1>1, <1>2

LEMMA LoginCorrect == LoginSpec => []LoginInv
<1> QED BY LoginInitInv, LoginStepInv, PTL DEF LoginSpec

-----------------------------------------------------------------------------
\* The limiter's counters and the issued tokens keep their types and bounds.
THEOREM LoginTypesKept == LoginSpec => []LoginTypeOK
<1>1. LoginInv => LoginTypeOK
  BY DEF LoginInv
<1> QED BY <1>1, LoginCorrect, PTL

\* However logins of a student overlap, an accepted token has its session entry.
THEOREM SessionsCoverTokens == LoginSpec => []SessionCoversToken
<1>1. LoginInv => SessionCoversToken
  <2> SUFFICES ASSUME LoginInv, NEW u \in Students, clock < token[u] PROVE clock < session[u]
    BY DEF SessionCoversToken, authenticateToken
  <2>1. token[u] <= session[u] /\ token[u] \in Nat /\ session[u] \in Nat /\ clock \in Nat
    BY DEF LoginInv, LoginTypeOK, TokensCovered
  <2> QED BY <2>1
<1> QED BY <1>1, LoginCorrect, PTL

\* However often a refused student tries, the refusals end within a window of the first.
THEOREM RefusalsAlwaysEnd == LoginSpec => []RefusalsEnd
<1>1. LoginInv => RefusalsEnd
  <2> SUFFICES ASSUME LoginInv, NEW u \in Students, NEW first \in refused[u], ~WithinLimit(u)
               PROVE  clock < first + Window
    BY DEF RefusalsEnd
  <2>1. clock < resetAt[u] /\ clock \in Nat /\ resetAt[u] \in Nat
    BY HitCounts DEF Counting
  <2>2. resetAt[u] <= first + Window /\ first \in Nat
    BY DEF LoginInv, LoginTypeOK, RefusedInWindow
  <2> QED BY <2>1, <2>2, Numbers
<1> QED BY <1>1, LoginCorrect, PTL

\* Of 2 * Limit + 1 logins that were let in, the last is more than a window after the first.
THEOREM BurstsAreBounded == LoginSpec => []BurstsBounded
<1>1. LoginInv => BurstsBounded
  <2> SUFFICES ASSUME LoginInv, NEW u \in Students, NEW k \in 1 .. Len(letIn[u]),
                      k + 2 * Limit <= Len(letIn[u])
               PROVE  letIn[u][k + 2 * Limit].at > letIn[u][k].at + Window
    BY DEF BurstsBounded
  <2> DEFINE l == letIn[u]
  <2>1. l \in Seq(Logins) /\ Len(l) \in Nat /\ Counted(l, hits[u], resetAt[u])
    BY LenProperties DEF LoginInv, LoginTypeOK, WindowsCounted, Logins
  <2>2. /\ k + Limit \in 1 .. Len(l) /\ k + 2 * Limit \in 1 .. Len(l) /\ k \in Nat
        /\ (k + Limit) + Limit = k + 2 * Limit
        /\ k + Limit <= Len(l) /\ (k + Limit) + Limit <= Len(l)
    <3>1. /\ k + Limit \in 1 .. Len(l) /\ k + 2 * Limit \in 1 .. Len(l) /\ k \in Nat
          /\ (k + Limit) + Limit = k + 2 * Limit
      <4>1. /\ Len(l) \in Nat /\ Limit \in Nat /\ k \in 1 .. Len(l) /\ Limit > 0
            /\ k + 2 * Limit <= Len(l)
        BY <2>1, Numbers
      <4> HIDE DEF l
      <4> QED BY <4>1, TwoSteps
    <3> QED BY <3>1
  <2> HIDE DEF l
  <2>3. \A i \in 1 .. Len(l) : l[i].at \in Nat /\ l[i].until \in Nat
    <3> SUFFICES ASSUME NEW i \in 1 .. Len(l) PROVE l[i].at \in Nat /\ l[i].until \in Nat
      OBVIOUS
    <3>1. l[i] \in Logins
      BY <2>1, ElementOfSeq
    <3> QED BY <3>1 DEF Logins
  <2>4. l[k].until + Window <= l[k + Limit].until
    BY <2>1, <2>2 DEF Counted, l
  <2>5. l[k + Limit].until + Window <= l[k + 2 * Limit].until
    <3>1. l[k + Limit].until + Window <= l[(k + Limit) + Limit].until
      BY <2>1, <2>2 DEF Counted
    <3> QED BY <2>2, <3>1
  <2>6. l[k].at < l[k].until /\ l[k + 2 * Limit].until <= l[k + 2 * Limit].at + Window
    BY <2>1, <2>2 DEF Counted, l
  <2>7. k \in 1 .. Len(l)
    BY DEF l
  <2>8. l[k + 2 * Limit].at > l[k].at + Window
    <3>1. /\ l[k].at \in Nat /\ l[k].until \in Nat /\ l[k + Limit].until \in Nat
          /\ l[k + 2 * Limit].at \in Nat /\ l[k + 2 * Limit].until \in Nat
      BY <2>2, <2>3, <2>7
    <3>2. ASSUME NEW a \in Nat, NEW b \in Nat, NEW c \in Nat, NEW d \in Nat, NEW e \in Nat,
                 a < b, b + Window <= c, c + Window <= d, d <= e + Window
          PROVE  e > a + Window
      BY <3>2, Numbers
    <3> QED BY <2>4, <2>5, <2>6, <3>1, <3>2
  <2> QED BY <2>8 DEF l
<1> QED BY <1>1, LoginCorrect, PTL
=============================================================================
