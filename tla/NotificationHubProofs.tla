------------------------ MODULE NotificationHubProofs ------------------------
(* What the pages are shown and what is lost, for any number of students,   *)
(* pages, connections and notifications, any buffer limit and any number of *)
(* restarts.                                                                *)
EXTENDS NotificationHub, SequenceTheorems, TLAPS

\* ShownInOrder is not inductive: an arrival keeps the order because what travels to a page
\* is in order and newer than what it shows, an emission because everything emitted to the
\* student is older than it, and a replay because it is older than what is buffered.
InOrder(sh, w) ==
  /\ Increasing(sh) /\ Increasing(w)
  /\ \A m \in Range(sh), n \in Range(w) : m < n

PagesInOrder == \A p \in Pages : InOrder(shown[p], wire[p])

OnOnePage ==
  \A u \in Students : \A p, r \in PagesOf(u) : p # r => Emitted(p) \intersect Emitted(r) = {}

EmittedWasSent == \A u \in Students : \A p \in PagesOf(u) : \A n \in Emitted(p) : n <= sent[u]

\* A student is reached at a socket of their own, whose disconnect the hub has not heard.
ReachedAtOwn ==
  \A u \in Students : userSockets[u] # NoSocket =>
    /\ userSockets[u] \in Sockets /\ Student(userSockets[u]) = u
    /\ socket[userSockets[u]] \in {"open", "broken"}

HubInv ==
  /\ HubTypeOK /\ PagesInOrder /\ OnOnePage /\ EmittedWasSent /\ ReachedAtOwn
  /\ BufferIsNewest

\* A run of consecutive numbers up to n, newer than those of E.
NewestRun(q, n, E) ==
  /\ \A k \in 1 .. Len(q) : q[k] = n - Len(q) + k
  /\ q # <<>> => \A e \in E : e < q[1]

EmittedTo(u) == UNION {Emitted(p) : p \in PagesOf(u)}

LEMMA BufferedRuns ==
  BufferIsNewest <=>
    \A u \in Students :
      /\ notificationBuffer[u] # <<>> => userSockets[u] = NoSocket
      /\ notificationBuffer[u] # <<>> => NewestRun(notificationBuffer[u], sent[u], EmittedTo(u))
BY DEF BufferIsNewest, NewestRun, EmittedTo

LEMMA BufferedRunsNext ==
  BufferIsNewest' <=>
    \A u \in Students :
      /\ notificationBuffer'[u] # <<>> => userSockets'[u] = NoSocket
      /\ notificationBuffer'[u] # <<>> => NewestRun(notificationBuffer'[u], sent'[u], EmittedTo(u)')
BY DEF BufferIsNewest, NewestRun, EmittedTo

-----------------------------------------------------------------------------
(* The sequences a step makes.                                             *)

LEMMA NumbersAt ==
  ASSUME NEW q \in Seq(Nat)
  PROVE  /\ Len(q) \in Nat /\ Range(q) \subseteq Nat
         /\ Range(q) = {q[k] : k \in 1 .. Len(q)}
         /\ \A k \in 1 .. Len(q) : q[k] \in Nat
BY ElementOfSeq, RangeOfSeq, RangeEquality, LenProperties

LEMMA Concatenated ==
  ASSUME NEW q \in Seq(Nat), NEW r \in Seq(Nat)
  PROVE  /\ q \o r \in Seq(Nat) /\ Range(q \o r) = Range(q) \union Range(r)
         /\ Increasing(q) /\ Increasing(r) /\ (\A m \in Range(q), n \in Range(r) : m < n)
              => Increasing(q \o r)
<1> DEFINE t == q \o r
<1>1. /\ t \in Seq(Nat) /\ Range(t) = Range(q) \union Range(r)
      /\ Len(t) = Len(q) + Len(r) /\ Len(q) \in Nat /\ Len(r) \in Nat
      /\ \A k \in 1 .. Len(t) : t[k] = IF k <= Len(q) THEN q[k] ELSE r[k - Len(q)]
  BY ConcatProperties, RangeConcatenation, LenProperties
<1>2. ASSUME Increasing(q), Increasing(r), \A m \in Range(q), n \in Range(r) : m < n,
             NEW j \in 1 .. Len(t), NEW k \in 1 .. Len(t), j < k
      PROVE  t[j] < t[k]
  <2>1. CASE k <= Len(q)
    <3>1. j \in 1 .. Len(q) /\ k \in 1 .. Len(q) /\ t[j] = q[j] /\ t[k] = q[k]
      BY <1>1, <1>2, <2>1
    <3> QED BY <1>2, <3>1 DEF Increasing
  <2>2. CASE j > Len(q)
    <3>1. /\ j - Len(q) \in 1 .. Len(r) /\ k - Len(q) \in 1 .. Len(r)
          /\ j - Len(q) < k - Len(q)
          /\ t[j] = r[j - Len(q)] /\ t[k] = r[k - Len(q)]
      BY <1>1, <1>2, <2>2
    <3> QED BY <1>2, <3>1 DEF Increasing
  <2>3. CASE j <= Len(q) /\ k > Len(q)
    <3>1. /\ j \in 1 .. Len(q) /\ k - Len(q) \in 1 .. Len(r)
          /\ t[j] = q[j] /\ t[k] = r[k - Len(q)]
      BY <1>1, <1>2, <2>3
    <3>2. t[j] \in Range(q) /\ t[k] \in Range(r)
      BY <3>1, NumbersAt
    <3> QED BY <1>2, <3>2
  <2>4. Len(q) \in Nat /\ Len(t) \in Nat
    BY <1>1
  <2>5. k <= Len(q) \/ j > Len(q) \/ (j <= Len(q) /\ k > Len(q))
    BY <2>4
  <2> QED BY <2>1, <2>2, <2>3, <2>5
<1> QED BY <1>1, <1>2 DEF Increasing

LEMMA OneNumber ==
  ASSUME NEW n \in Nat
  PROVE  <<n>> \in Seq(Nat) /\ Increasing(<<n>>) /\ Range(<<n>>) = {n}
<1>1. <<n>> \in Seq(Nat) /\ Len(<<n>>) = 1 /\ <<n>>[1] = n /\ DOMAIN <<n>> = {1}
  OBVIOUS
<1>2. 1 .. Len(<<n>>) = {1}
  BY <1>1
<1>3. Increasing(<<n>>)
  BY <1>2 DEF Increasing
<1>4. Range(<<n>>) = {n}
  BY <1>1 DEF Range
<1> QED BY <1>1, <1>3, <1>4

\* What is emitted in order and newer than all before keeps a page in order.
LEMMA Emitting ==
  ASSUME NEW sh \in Seq(Nat), NEW w \in Seq(Nat), NEW q \in Seq(Nat), InOrder(sh, w),
         Increasing(q), \A m \in Range(sh) \union Range(w), n \in Range(q) : m < n
  PROVE  InOrder(sh, w \o q)
BY Concatenated DEF InOrder

\* The head of what travels arrives, and the page stays in order.
LEMMA Delivering ==
  ASSUME NEW sh \in Seq(Nat), NEW w \in Seq(Nat), w # <<>>, InOrder(sh, w)
  PROVE  /\ Append(sh, Head(w)) \in Seq(Nat) /\ Tail(w) \in Seq(Nat)
         /\ InOrder(Append(sh, Head(w)), Tail(w))
         /\ Range(Append(sh, Head(w))) \union Range(Tail(w)) = Range(sh) \union Range(w)
<1> DEFINE n == Head(w)
           t == Append(sh, n)
           v == Tail(w)
<1>1. /\ v \in Seq(Nat) /\ Len(w) \in Nat /\ Len(w) >= 1 /\ Len(v) = Len(w) - 1
      /\ n = w[1] /\ n \in Nat /\ \A k \in 1 .. Len(v) : v[k] = w[k + 1]
  <2>1. Len(w) \in Nat \ {0} /\ 1 \in 1 .. Len(w)
    BY EmptySeq
  <2>2. n = w[1] /\ v \in Seq(Nat) /\ Len(v) = Len(w) - 1 /\ \A k \in 1 .. Len(v) : v[k] = w[k + 1]
    BY HeadTailProperties
  <2> QED BY <2>1, <2>2, NumbersAt
<1>2. /\ t \in Seq(Nat) /\ Len(t) = Len(sh) + 1 /\ Len(sh) \in Nat
      /\ \A k \in 1 .. Len(sh) : t[k] = sh[k]
      /\ t[Len(sh) + 1] = n
  BY <1>1, AppendProperties, LenProperties
<1> HIDE DEF n, t, v
<1>lens. Len(sh) \in Nat /\ Len(t) = Len(sh) + 1 /\ Len(v) \in Nat /\ Len(w) = Len(v) + 1
  <2>1. Len(v) \in Nat
    BY <1>1, LenProperties
  <2>2. Len(w) = Len(v) + 1
    BY <1>1
  <2> QED BY <1>2, <2>1, <2>2
<1>ends. \A k \in 1 .. Len(t) : k \in 1 .. Len(sh) \/ k = Len(sh) + 1
  BY <1>lens
<1>next. \A k \in 1 .. Len(v) : k + 1 \in 1 .. Len(w) /\ 1 < k + 1
  BY <1>lens
<1>3. n \in Range(w) /\ \A k \in 1 .. Len(v) : k + 1 \in 1 .. Len(w) /\ n < v[k]
  <2>1. 1 \in 1 .. Len(w)
    BY <1>lens
  <2>2. n \in Range(w)
    BY <1>1, <2>1, NumbersAt
  <2>3. ASSUME NEW k \in 1 .. Len(v) PROVE k + 1 \in 1 .. Len(w) /\ n < v[k]
    <3>1. k + 1 \in 1 .. Len(w) /\ 1 < k + 1
      BY <1>next
    <3>2. w[1] < w[k + 1]
      BY <2>1, <3>1 DEF InOrder, Increasing
    <3> QED BY <1>1, <3>1, <3>2
  <2> QED BY <2>2, <2>3
<1>4. Range(v) \subseteq Range(w) /\ \A m \in Range(v) : n < m
  <2>1. Range(v) = {v[k] : k \in 1 .. Len(v)} /\ Range(w) = {w[k] : k \in 1 .. Len(w)}
    BY <1>1, NumbersAt
  <2>2. \A k \in 1 .. Len(v) : v[k] \in Range(w) /\ n < v[k]
    BY <1>1, <1>3, <2>1
  <2> QED BY <2>1, <2>2
<1>5. Range(w) = Range(v) \union {n}
  <2>1. ASSUME NEW k \in 1 .. Len(w), k # 1 PROVE w[k] \in Range(v)
    <3>1. k - 1 \in 1 .. Len(v) /\ (k - 1) + 1 = k
      BY <1>lens, <2>1
    <3>2. w[k] = v[k - 1]
      BY <1>1, <3>1
    <3>3. Range(v) = {v[i] : i \in 1 .. Len(v)}
      BY <1>1, NumbersAt
    <3> QED BY <3>1, <3>2, <3>3
  <2>2. \A m \in Range(w) : m \in Range(v) \union {n}
    BY <1>1, <2>1, NumbersAt
  <2> QED BY <1>3, <1>4, <2>2
<1>6. Range(t) = Range(sh) \union {n}
  <2>1. ASSUME NEW k \in 1 .. Len(t) PROVE t[k] \in Range(sh) \union {n}
    <3>1. k \in 1 .. Len(sh) \/ k = Len(sh) + 1
      BY <1>ends
    <3> QED BY <1>2, <3>1, NumbersAt
  <2>2. ASSUME NEW k \in 1 .. Len(sh) PROVE k \in 1 .. Len(t) /\ t[k] = sh[k]
    <3>1. k \in 1 .. Len(t)
      BY <1>lens
    <3> QED BY <1>2, <3>1
  <2>3. Len(sh) + 1 \in 1 .. Len(t)
    BY <1>lens
  <2>4. Range(t) = {t[k] : k \in 1 .. Len(t)} /\ Range(sh) = {sh[k] : k \in 1 .. Len(sh)}
    BY <1>2, NumbersAt
  <2>5. Range(sh) \subseteq Range(t)
    BY <2>2, <2>4
  <2>6. n \in Range(t)
    BY <1>2, <2>3, <2>4
  <2> QED BY <2>1, <2>4, <2>5, <2>6
<1>7. Increasing(t)
  <2> SUFFICES ASSUME NEW j \in 1 .. Len(t), NEW k \in 1 .. Len(t), j < k PROVE t[j] < t[k]
    BY DEF Increasing
  <2>1. j \in 1 .. Len(sh) /\ t[j] = sh[j] /\ sh[j] \in Range(sh)
    <3>1. j \in 1 .. Len(sh)
      BY <1>lens
    <3> QED BY <1>2, <3>1, NumbersAt
  <2>2. CASE k = Len(sh) + 1
    BY <1>2, <1>3, <2>1, <2>2 DEF InOrder
  <2>3. CASE k \in 1 .. Len(sh)
    BY <1>2, <2>1, <2>3 DEF InOrder, Increasing
  <2>4. k \in 1 .. Len(sh) \/ k = Len(sh) + 1
    BY <1>ends
  <2> QED BY <2>2, <2>3, <2>4
<1>8. Increasing(v)
  <2> SUFFICES ASSUME NEW j \in 1 .. Len(v), NEW k \in 1 .. Len(v), j < k PROVE v[j] < v[k]
    BY DEF Increasing
  <2>1. j + 1 \in 1 .. Len(w) /\ k + 1 \in 1 .. Len(w) /\ j + 1 < k + 1
    BY <1>next
  <2> QED BY <1>1, <2>1 DEF InOrder, Increasing
<1>9. \A m \in Range(t), k \in Range(v) : m < k
  <2>1. \A m \in Range(sh), k \in Range(v) : m < k
    BY <1>4 DEF InOrder
  <2> QED BY <1>4, <1>6, <2>1
<1> QED BY <1>1, <1>2, <1>5, <1>6, <1>7, <1>8, <1>9 DEF InOrder, n, t, v

LEMMA CutOff ==
  ASSUME NEW sh, NEW w, InOrder(sh, w)
  PROVE  InOrder(sh, <<>>) /\ Range(<<>>) = {} /\ <<>> \in Seq(Nat)
<1>1. <<>> \in Seq(Nat) /\ Len(<<>>) = 0
  BY EmptySeq
<1>2. DOMAIN <<>> = {} /\ 1 .. Len(<<>>) = {}
  BY <1>1
<1>3. Increasing(<<>>) /\ Range(<<>>) = {}
  BY <1>2 DEF Increasing, Range
<1> QED BY <1>1, <1>3 DEF InOrder

\* Buffering keeps a run of consecutive numbers up to the newest, within the limit, and
\* drops at most the head of a full buffer.
LEMMA Kept ==
  ASSUME NEW q \in Seq(Nat), NEW n \in Nat, NEW E \in SUBSET Nat, Len(q) <= BufferLimit,
         \A e \in E : e <= n, q # <<>> => NewestRun(q, n, E)
  PROVE  /\ KeepNewest(Append(q, n + 1)) \in Seq(Nat)
         /\ Len(KeepNewest(Append(q, n + 1))) <= BufferLimit
         /\ NewestRun(KeepNewest(Append(q, n + 1)), n + 1, E)
         /\ n + 1 \in Range(KeepNewest(Append(q, n + 1)))
         /\ \A m \in Range(q) : \/ m \in Range(KeepNewest(Append(q, n + 1)))
                                \/ Len(q) = BufferLimit /\ m = Head(q)
<1> DEFINE p == Append(q, n + 1)
           r == KeepNewest(p)
<1>1. /\ p \in Seq(Nat) /\ Len(q) \in Nat /\ Len(p) = Len(q) + 1
      /\ \A k \in 1 .. Len(q) : p[k] = q[k] /\ q[k] \in Nat
      /\ p[Len(q) + 1] = n + 1
  BY AppendProperties, NumbersAt
<1>2. BufferLimit \in Nat \ {0}
  BY HubAssumption DEF HubAssumption
<1>3. \A k \in 1 .. Len(p) : p[k] = n + 1 - Len(p) + k
  <2> SUFFICES ASSUME NEW k \in 1 .. Len(p) PROVE p[k] = n + 1 - Len(p) + k
    OBVIOUS
  <2>1. CASE k = Len(q) + 1 BY <1>1, <2>1
  <2>2. CASE k \in 1 .. Len(q)
    <3>1. q # <<>>
      BY <1>1, <2>2
    <3>2. q[k] = n - Len(q) + k
      BY <2>2, <3>1 DEF NewestRun
    <3> QED BY <1>1, <2>2, <3>2
  <2> QED BY <1>1, <2>1, <2>2
<1>4. \A e \in E : e < p[1]
  <2>1. CASE q = <<>>
    <3>1. Len(q) = 0 /\ p[1] = n + 1
      BY <1>1, <2>1
    <3> QED BY <3>1
  <2>2. CASE q # <<>>
    <3>1. 1 \in 1 .. Len(q)
      BY <2>2, EmptySeq, <1>1
    <3> QED BY <1>1, <2>2, <3>1 DEF NewestRun
  <2> QED BY <2>1, <2>2
<1> HIDE DEF p
<1>5. n + 1 \in Range(p) /\ Range(q) \subseteq Range(p)
  <2>1. Len(p) \in 1 .. Len(p) /\ \A k \in 1 .. Len(q) : k \in 1 .. Len(p)
    BY <1>1
  <2>2. Range(p) = {p[k] : k \in 1 .. Len(p)} /\ Range(q) = {q[k] : k \in 1 .. Len(q)}
    BY <1>1, NumbersAt
  <2>3. p[Len(p)] = n + 1
    BY <1>1
  <2> QED BY <1>1, <2>1, <2>2, <2>3
<1>6. CASE Len(p) <= BufferLimit
  <2>1. r = p
    BY <1>1, <1>2, <1>6 DEF KeepNewest
  <2>2. NewestRun(p, n + 1, E)
    BY <1>3, <1>4 DEF NewestRun
  <2> HIDE DEF r
  <2> QED BY <1>1, <1>5, <1>6, <2>1, <2>2 DEF r, p
<1>7. CASE Len(p) > BufferLimit
  <2>1. /\ r = Tail(p) /\ p # <<>> /\ q # <<>>
        /\ Len(q) = BufferLimit /\ Len(q) >= 1 /\ Len(p) >= 2
    BY <1>1, <1>2, <1>7, EmptySeq DEF KeepNewest
  <2>2. r \in Seq(Nat) /\ Len(r) = Len(p) - 1 /\ \A k \in 1 .. Len(r) : r[k] = p[k + 1]
    BY <1>1, <2>1, HeadTailProperties
  <2>3. Head(q) = q[1]
    BY <2>1, HeadTailProperties
  <2> HIDE DEF r
  <2>4. \A k \in 1 .. Len(r) : k + 1 \in 1 .. Len(p) /\ r[k] = n + 1 - Len(r) + k
    BY <1>1, <1>3, <2>2
  <2>5. \A e \in E : e < r[1]
    <3>1. 1 \in 1 .. Len(r) /\ 1 \in 1 .. Len(p)
      BY <1>1, <2>1, <2>2
    <3>2. p[1] = n + 1 - Len(p) + 1 /\ r[1] = n + 1 - Len(r) + 1
      BY <1>3, <2>4, <3>1
    <3>3. p[1] \in Int /\ r[1] \in Int /\ p[1] < r[1]
      BY <1>1, <2>2, <3>2
    <3> QED BY <1>4, <3>3
  <2>6. Range(r) = {r[k] : k \in 1 .. Len(r)} /\ Range(q) = {q[k] : k \in 1 .. Len(q)}
    BY <2>2, NumbersAt
  <2>7. n + 1 \in Range(r)
    <3>1. Len(r) \in 1 .. Len(r) /\ r[Len(r)] = n + 1
      BY <1>1, <2>1, <2>2, <2>4
    <3> QED BY <2>6, <3>1
  <2>8. ASSUME NEW k \in 1 .. Len(q), k # 1 PROVE q[k] \in Range(r)
    <3>1. k - 1 \in 1 .. Len(r) /\ (k - 1) + 1 = k
      BY <1>1, <2>2, <2>8
    <3>2. q[k] = r[k - 1]
      BY <1>1, <2>2, <3>1
    <3> QED BY <2>6, <3>1, <3>2
  <2>9. \A m \in Range(q) : m \in Range(r) \/ (Len(q) = BufferLimit /\ m = Head(q))
    BY <2>1, <2>3, <2>6, <2>8
  <2>10. Len(r) <= BufferLimit
    BY <1>1, <2>1, <2>2
  <2> QED BY <2>2, <2>4, <2>5, <2>7, <2>9, <2>10 DEF NewestRun, r, p
<1>8. Len(p) <= BufferLimit \/ Len(p) > BufferLimit
  BY <1>1, <1>2
<1> QED BY <1>6, <1>7, <1>8 DEF p

\* A buffered run is in order.
LEMMA RunInOrder ==
  ASSUME NEW q \in Seq(Nat), NEW n \in Nat, NEW E \in SUBSET Nat, q # <<>> => NewestRun(q, n, E)
  PROVE  /\ Increasing(q)
         /\ \A e \in E, m \in Range(q) : e < m
         /\ \A m \in Range(q) : m <= n
<1>1. /\ Len(q) \in Nat /\ Range(q) = {q[k] : k \in 1 .. Len(q)}
      /\ \A k \in 1 .. Len(q) : q[k] \in Nat
  BY NumbersAt
<1>2. ASSUME NEW k \in 1 .. Len(q)
      PROVE  /\ q[k] = n - Len(q) + k /\ q[1] = n - Len(q) + 1 /\ 1 <= k /\ k <= Len(q)
             /\ \A e \in E : e < q[1]
  <2>1. q # <<>> /\ 1 \in 1 .. Len(q)
    BY <1>1, <1>2
  <2> QED BY <2>1 DEF NewestRun
<1>3. ASSUME NEW j \in 1 .. Len(q), NEW k \in 1 .. Len(q), j < k PROVE q[j] < q[k]
  <2>1. q[j] = n - Len(q) + j /\ q[k] = n - Len(q) + k
    BY <1>2
  <2> QED BY <1>1, <1>3, <2>1
<1>4. ASSUME NEW k \in 1 .. Len(q) PROVE q[k] <= n /\ \A e \in E : e < q[k]
  <2>1. q[1] <= q[k] /\ q[k] <= n /\ q[1] \in Nat
    BY <1>1, <1>2
  <2> QED BY <1>1, <1>2, <2>1
<1> QED BY <1>1, <1>3, <1>4 DEF Increasing

-----------------------------------------------------------------------------
(* What a step does to the pages.                                          *)

LEMMA EmittedNumbers ==
  ASSUME HubTypeOK
  PROVE  /\ \A p \in Pages : Emitted(p) \subseteq Nat
         /\ \A u : EmittedTo(u) \subseteq Nat
         /\ \A u, p : p \in PagesOf(u) => Emitted(p) \subseteq EmittedTo(u) /\ p \in Pages
<1>1. ASSUME NEW p \in Pages PROVE Emitted(p) \subseteq Nat
  <2>1. shown[p] \in Seq(Nat) /\ wire[p] \in Seq(Nat)
    BY DEF HubTypeOK
  <2> QED BY <2>1, NumbersAt DEF Emitted
<1> QED BY <1>1 DEF EmittedTo, PagesOf

\* Only page x is emitted anything, and that is new to its student.
NewOnlyAt(x) ==
  \A u \in Students : \A p \in PagesOf(u) : \A n \in Emitted(p)' :
    n \in Emitted(p) \/ (p = x /\ n \notin EmittedTo(u) /\ n <= sent'[u])

LEMMA PagesKept ==
  ASSUME HubTypeOK, OnOnePage, EmittedWasSent, NEW x, NewOnlyAt(x),
         \A u \in Students : sent[u] \in Nat /\ sent'[u] \in Nat /\ sent[u] <= sent'[u]
  PROVE  OnOnePage' /\ EmittedWasSent'
<1>1. ASSUME NEW u \in Students, NEW p \in PagesOf(u), NEW r \in PagesOf(u), p # r,
             NEW n \in Emitted(p)', n \in Emitted(r)'
      PROVE  FALSE
  <2>1. /\ n \notin Emitted(p) \/ n \notin Emitted(r)
        /\ Emitted(p) \subseteq EmittedTo(u) /\ Emitted(r) \subseteq EmittedTo(u)
    BY <1>1, EmittedNumbers DEF OnOnePage
  <2>2. n \in Emitted(p) \/ (p = x /\ n \notin EmittedTo(u))
    BY <1>1 DEF NewOnlyAt
  <2>3. n \in Emitted(r) \/ (r = x /\ n \notin EmittedTo(u))
    BY <1>1 DEF NewOnlyAt
  <2> QED BY <1>1, <2>1, <2>2, <2>3
<1>2. ASSUME NEW u \in Students, NEW p \in PagesOf(u), NEW n \in Emitted(p)'
      PROVE  n <= sent'[u]
  <2>1. CASE n \in Emitted(p)
    <3>1. p \in Pages /\ n \in Nat /\ n <= sent[u]
      BY <2>1, EmittedNumbers DEF EmittedWasSent
    <3> QED BY <3>1
  <2> QED BY <1>2, <2>1 DEF NewOnlyAt
<1>3. OnOnePage'
  BY <1>1 DEF OnOnePage, PagesOf
<1>4. EmittedWasSent'
  BY <1>2 DEF EmittedWasSent, PagesOf
<1> QED BY <1>3, <1>4

\* Notifications go to one page, or to nobody.
LEMMA EmitKeeps ==
  ASSUME HubInv, NEW s \in Sockets, NEW q \in Seq(Nat), emit(s, q), shown' = shown,
         Increasing(q), \A e \in EmittedTo(Student(s)), m \in Range(q) : e < m,
         sent' \in [Students -> Nat], \A u \in Students : sent[u] <= sent'[u],
         \A m \in Range(q) : m <= sent'[Student(s)]
  PROVE  /\ wire' \in [Pages -> Seq(Nat)] /\ PagesInOrder' /\ OnOnePage' /\ EmittedWasSent'
         /\ \A p \in Pages : p # PageOf[s] => Emitted(p)' = Emitted(p)
         /\ \A p \in Pages : Emitted(p) \subseteq Emitted(p)'
         /\ socket'[s] = "open" => Emitted(PageOf[s])' = Emitted(PageOf[s]) \union Range(q)
<1> DEFINE x == PageOf[s]
<1>1. x \in Pages /\ x \in PagesOf(Student(s)) /\ Student(s) \in Students
  BY HubAssumption DEF HubAssumption, PagesOf, Student
<1>2. /\ shown[x] \in Seq(Nat) /\ wire[x] \in Seq(Nat) /\ InOrder(shown[x], wire[x])
      /\ wire \in [Pages -> Seq(Nat)]
  BY <1>1 DEF HubInv, HubTypeOK, PagesInOrder
<1>3. /\ wire[x] \o q \in Seq(Nat) /\ Range(wire[x] \o q) = Range(wire[x]) \union Range(q)
      /\ InOrder(shown[x], wire[x] \o q)
  <2>1. \A m \in Range(shown[x]) \union Range(wire[x]), n \in Range(q) : m < n
    BY <1>1 DEF EmittedTo, Emitted
  <2> QED BY <1>2, <2>1, Concatenated, Emitting
<1>4. wire' = IF socket'[s] = "open" THEN [wire EXCEPT ![x] = wire[x] \o q] ELSE wire
  BY DEF emit
<1> HIDE DEF x
<1>5. /\ wire' \in [Pages -> Seq(Nat)]
      /\ \A p \in Pages : p # x => wire'[p] = wire[p]
      /\ socket'[s] = "open" => wire'[x] = wire[x] \o q
      /\ socket'[s] # "open" => wire'[x] = wire[x]
  BY <1>1, <1>2, <1>3, <1>4
<1>6. PagesInOrder'
  BY <1>1, <1>2, <1>3, <1>5 DEF HubInv, PagesInOrder
<1>7. /\ \A p \in Pages : p # x => Emitted(p)' = Emitted(p)
      /\ socket'[s] = "open" => Emitted(x)' = Emitted(x) \union Range(q)
      /\ socket'[s] # "open" => Emitted(x)' = Emitted(x)
  BY <1>1, <1>3, <1>5 DEF Emitted
<1>8. \A p \in Pages : Emitted(p) \subseteq Emitted(p)'
  BY <1>7
<1>9. NewOnlyAt(x)
  <2> SUFFICES ASSUME NEW u \in Students, NEW p \in PagesOf(u), NEW n \in Emitted(p)', n \notin Emitted(p)
               PROVE  p = x /\ n \notin EmittedTo(u) /\ n <= sent'[u]
    BY DEF NewOnlyAt
  <2>1. p = x /\ n \in Range(q)
    BY <1>7 DEF PagesOf
  <2>2. u = Student(s)
    BY <1>1, <2>1 DEF PagesOf
  <2>3. n \in Nat /\ ~(n < n)
    BY <2>1, NumbersAt
  <2> QED BY <2>1, <2>2, <2>3
<1>10. \A u \in Students : sent[u] \in Nat /\ sent'[u] \in Nat /\ sent[u] <= sent'[u]
  BY DEF HubInv, HubTypeOK
<1>11. OnOnePage' /\ EmittedWasSent'
  <2>1. HubTypeOK /\ OnOnePage /\ EmittedWasSent
    BY DEF HubInv
  <2> QED BY <1>9, <1>10, <2>1, PagesKept
<1>12. /\ \A p \in Pages : p # x => Emitted(p)' = Emitted(p)
       /\ \A p \in Pages : Emitted(p) \subseteq Emitted(p)'
       /\ socket'[s] = "open" => Emitted(x)' = Emitted(x) \union Range(q)
  BY <1>7, <1>8
<1> QED BY <1>5, <1>6, <1>11, <1>12 DEF x

\* Some pages lose what is on its way.
LEMMA HangUpKeeps ==
  ASSUME HubInv, wire' \in [Pages -> Seq(Nat)], \A p \in Pages : wire'[p] \in {wire[p], <<>>},
         shown' = shown, sent' = sent
  PROVE  /\ PagesInOrder' /\ OnOnePage' /\ EmittedWasSent'
         /\ \A u \in Students : EmittedTo(u)' \subseteq EmittedTo(u)
<1>1. ASSUME NEW p \in Pages
      PROVE  InOrder(shown'[p], wire'[p]) /\ Emitted(p)' \subseteq Emitted(p)
  <2>1. InOrder(shown[p], wire[p])
    BY DEF HubInv, PagesInOrder
  <2>2. CASE wire'[p] = wire[p]
    BY <2>1, <2>2 DEF Emitted
  <2>3. CASE wire'[p] = <<>>
    <3>1. InOrder(shown[p], <<>>) /\ Range(<<>>) = {}
      BY <2>1, CutOff
    <3>2. Range(wire'[p]) = {}
      BY <2>3, <3>1
    <3> QED BY <2>3, <3>1, <3>2 DEF Emitted
  <2> QED BY <2>2, <2>3
<1>2. PagesInOrder'
  BY <1>1 DEF PagesInOrder
<1>3. OnOnePage' /\ EmittedWasSent'
  <2>1. \A u \in Students : sent[u] \in Nat /\ sent'[u] \in Nat /\ sent[u] <= sent'[u]
    BY DEF HubInv, HubTypeOK
  <2>2. NewOnlyAt(NoSocket)
    BY <1>1 DEF NewOnlyAt, PagesOf
  <2>3. HubTypeOK /\ OnOnePage /\ EmittedWasSent
    BY DEF HubInv
  <2> QED BY <2>1, <2>2, <2>3, PagesKept
<1>4. \A u \in Students : EmittedTo(u)' \subseteq EmittedTo(u)
  BY <1>1 DEF EmittedTo, PagesOf
<1> QED BY <1>2, <1>3, <1>4

\* A student whose buffer is left alone, or emptied, and to whom nothing is emitted.
LEMMA BufferLeft ==
  ASSUME HubInv, NEW u \in Students, sent'[u] = sent[u],
         notificationBuffer'[u] \in {notificationBuffer[u], <<>>},
         userSockets'[u] \in {userSockets[u], NoSocket},
         EmittedTo(u)' \subseteq EmittedTo(u)
  PROVE  /\ notificationBuffer'[u] # <<>> => userSockets'[u] = NoSocket
         /\ notificationBuffer'[u] # <<>> =>
              NewestRun(notificationBuffer'[u], sent'[u], EmittedTo(u)')
<1>1. CASE notificationBuffer'[u] = <<>>
  BY <1>1
<1>2. CASE notificationBuffer'[u] = notificationBuffer[u]
  BY <1>2, BufferedRuns DEF HubInv, NewestRun
<1> QED BY <1>1, <1>2

-----------------------------------------------------------------------------
LEMMA HubInitInv == HubInit => HubInv
<1> SUFFICES ASSUME HubInit PROVE HubInv
  OBVIOUS
<1> USE HubAssumption DEF HubAssumption
<1>1. <<>> \in Seq(Nat) /\ Len(<<>>) = 0 /\ 1 .. Len(<<>>) = {} /\ Range(<<>>) = {}
  <2>1. <<>> \in Seq(Nat) /\ Len(<<>>) = 0 /\ DOMAIN <<>> = {}
    BY EmptySeq
  <2> QED BY <2>1 DEF Range
<1>2. \A p \in Pages : shown[p] = <<>> /\ wire[p] = <<>>
  BY DEF HubInit
<1>3. \A u \in Students : notificationBuffer[u] = <<>> /\ userSockets[u] = NoSocket
  BY DEF HubInit
<1>4. HubTypeOK
  <2>1. wire \in [Pages -> Seq(Nat)] /\ shown \in [Pages -> Seq(Nat)]
        /\ notificationBuffer \in [Students -> Seq(Nat)]
    BY <1>1 DEF HubInit
  <2>2. \A u \in Students : Len(notificationBuffer[u]) <= BufferLimit
    BY <1>1, <1>3
  <2>3. /\ userSockets \in [Students -> Sockets \union {NoSocket}]
        /\ socket \in [Sockets -> SocketStates] /\ sent \in [Students -> Nat]
        /\ crashes \in 0 .. MaxCrashes
    BY DEF HubInit, SocketStates
  <2> QED BY <2>1, <2>2, <2>3 DEF HubTypeOK
<1>5. \A p \in Pages : Emitted(p) = {}
  BY <1>1, <1>2 DEF Emitted
<1>6. PagesInOrder
  BY <1>1, <1>2 DEF PagesInOrder, InOrder, Increasing
<1>7. OnOnePage /\ EmittedWasSent
  BY <1>5 DEF OnOnePage, EmittedWasSent, PagesOf
<1>8. ReachedAtOwn /\ BufferIsNewest
  BY <1>3 DEF ReachedAtOwn, BufferIsNewest
<1> QED BY <1>4, <1>6, <1>7, <1>8 DEF HubInv

\* A new connection: what was kept is newer than all that was emitted, and the buffer is empty.
LEMMA ConnectInv ==
  ASSUME HubInv, NEW s \in Sockets, handleConnection(s)
  PROVE  /\ HubInv'
         /\ \A p \in Pages : Emitted(p) \subseteq Emitted(p)'
         /\ socket'[s] = "open" =>
              Emitted(PageOf[s])' = Emitted(PageOf[s]) \union Range(notificationBuffer[Student(s)])
<1> DEFINE v == Student(s)
           q == notificationBuffer[v]
<1>1. v \in Students /\ PageOf[s] \in Pages /\ StudentOf[PageOf[s]] = v
  BY HubAssumption DEF HubAssumption, Student
<1>2. /\ emit(s, q) /\ shown' = shown /\ sent' = sent /\ crashes' = crashes
      /\ notificationBuffer' = [notificationBuffer EXCEPT ![v] = <<>>]
      /\ userSockets' = [userSockets EXCEPT ![v] = s]
      /\ socket[s] = "new"
      /\ \E state \in {"open", "broken"} : socket' = [socket EXCEPT ![s] = state]
  BY DEF handleConnection, replayBuffer
<1>3. /\ q \in Seq(Nat) /\ sent[v] \in Nat /\ EmittedTo(v) \in SUBSET Nat
      /\ q # <<>> => NewestRun(q, sent[v], EmittedTo(v))
  BY <1>1, BufferedRuns, EmittedNumbers DEF HubInv, HubTypeOK
<1>4. /\ Increasing(q) /\ \A e \in EmittedTo(v), m \in Range(q) : e < m
      /\ \A m \in Range(q) : m <= sent[v]
  BY <1>3, RunInOrder
<1>5. sent' \in [Students -> Nat] /\ \A u \in Students : sent[u] <= sent'[u]
  BY <1>2 DEF HubInv, HubTypeOK
<1> HIDE DEF q
<1>6. /\ wire' \in [Pages -> Seq(Nat)] /\ PagesInOrder' /\ OnOnePage' /\ EmittedWasSent'
      /\ \A p \in Pages : p # PageOf[s] => Emitted(p)' = Emitted(p)
      /\ \A p \in Pages : Emitted(p) \subseteq Emitted(p)'
      /\ socket'[s] = "open" => Emitted(PageOf[s])' = Emitted(PageOf[s]) \union Range(q)
  BY <1>2, <1>3, <1>4, <1>5, EmitKeeps
<1> HIDE DEF v
<1>7. HubTypeOK'
  <2>1. <<>> \in Seq(Nat) /\ Len(<<>>) <= BufferLimit
    BY EmptySeq, HubAssumption DEF HubAssumption
  <2>2. /\ notificationBuffer' \in [Students -> Seq(Nat)]
        /\ \A u \in Students : Len(notificationBuffer'[u]) <= BufferLimit
    BY <1>1, <1>2, <2>1 DEF HubInv, HubTypeOK
  <2>3. userSockets' \in [Students -> Sockets \union {NoSocket}] /\ socket' \in [Sockets -> SocketStates]
    BY <1>2 DEF HubInv, HubTypeOK, SocketStates
  <2> QED BY <1>2, <1>5, <1>6, <2>2, <2>3 DEF HubInv, HubTypeOK
<1>8. ReachedAtOwn'
  <2> SUFFICES ASSUME NEW u \in Students, userSockets'[u] # NoSocket
               PROVE  /\ userSockets'[u] \in Sockets /\ Student(userSockets'[u]) = u
                      /\ socket'[userSockets'[u]] \in {"open", "broken"}
    BY DEF ReachedAtOwn, Student
  <2>1. CASE u = v
    BY <1>1, <1>2, <2>1 DEF HubInv, HubTypeOK, v
  <2>2. CASE u # v
    <3>1. userSockets'[u] = userSockets[u]
      BY <1>2, <2>2 DEF HubInv, HubTypeOK
    <3>2. /\ userSockets[u] \in Sockets /\ Student(userSockets[u]) = u
          /\ socket[userSockets[u]] \in {"open", "broken"}
      BY <3>1 DEF HubInv, ReachedAtOwn
    <3>3. userSockets[u] # s
      BY <1>2, <3>2
    <3> QED BY <1>2, <3>1, <3>2, <3>3 DEF HubInv, HubTypeOK
  <2> QED BY <2>1, <2>2
<1>9. BufferIsNewest'
  <2> SUFFICES ASSUME NEW u \in Students
               PROVE  /\ notificationBuffer'[u] # <<>> => userSockets'[u] = NoSocket
                      /\ notificationBuffer'[u] # <<>> =>
                           NewestRun(notificationBuffer'[u], sent'[u], EmittedTo(u)')
    BY BufferedRunsNext
  <2>1. CASE u = v
    BY <1>1, <1>2, <2>1 DEF HubInv, HubTypeOK
  <2>2. CASE u # v
    <3>1. /\ notificationBuffer'[u] = notificationBuffer[u] /\ userSockets'[u] = userSockets[u]
          /\ sent'[u] = sent[u]
      BY <1>2, <2>2 DEF HubInv, HubTypeOK
    <3>2. \A p \in PagesOf(u) : Emitted(p)' = Emitted(p)
      BY <1>1, <1>6, <2>2 DEF PagesOf
    <3>3. EmittedTo(u)' \subseteq EmittedTo(u)
      BY <3>2 DEF EmittedTo, PagesOf
    <3> QED BY <3>1, <3>3, BufferLeft
  <2> QED BY <2>1, <2>2
<1> QED BY <1>6, <1>7, <1>8, <1>9 DEF HubInv, q, v

\* Connections break and close: what is on its way goes, and a student is found to have none.
LEMMA HangUpInv ==
  ASSUME HubInv, NEW s \in Sockets, Break(s) \/ disconnect(s)
  PROVE  HubInv'
<1>1. UNCHANGED <<notificationBuffer, sent, shown, crashes>> /\ HangUp(s)
  BY DEF Break, disconnect
<1>2. /\ wire' \in [Pages -> Seq(Nat)]
      /\ \A p \in Pages : wire'[p] \in {wire[p], <<>>}
  <2>1. <<>> \in Seq(Nat)
    BY EmptySeq
  <2> QED BY <1>1, <2>1 DEF HangUp, HubInv, HubTypeOK
<1>3. /\ PagesInOrder' /\ OnOnePage' /\ EmittedWasSent'
      /\ \A u \in Students : EmittedTo(u)' \subseteq EmittedTo(u)
  BY <1>1, <1>2, HangUpKeeps
<1>4. /\ userSockets' \in [Students -> Sockets \union {NoSocket}]
      /\ \A u \in Students : userSockets'[u] \in {userSockets[u], NoSocket}
      /\ socket' \in [Sockets -> SocketStates]
  BY DEF HubInv, HubTypeOK, SocketStates, Break, disconnect
<1>5. HubTypeOK'
  BY <1>1, <1>2, <1>4 DEF HubInv, HubTypeOK
<1>6. ReachedAtOwn'
  <2> SUFFICES ASSUME NEW u \in Students, userSockets'[u] # NoSocket
               PROVE  /\ userSockets'[u] \in Sockets /\ Student(userSockets'[u]) = u
                      /\ socket'[userSockets'[u]] \in {"open", "broken"}
    BY DEF ReachedAtOwn, Student
  <2>1. /\ userSockets'[u] = userSockets[u] /\ userSockets[u] \in Sockets
        /\ Student(userSockets[u]) = u /\ socket[userSockets[u]] \in {"open", "broken"}
    BY <1>4 DEF HubInv, ReachedAtOwn
  <2>2. CASE Break(s)
    BY <2>1, <2>2 DEF Break, HubInv, HubTypeOK
  <2>3. CASE disconnect(s)
    <3>1. userSockets[u] # s
      BY <2>1, <2>3 DEF disconnect, HubInv, HubTypeOK
    <3> QED BY <2>1, <2>3, <3>1 DEF disconnect, HubInv, HubTypeOK
  <2> QED BY <2>2, <2>3
<1>7. BufferIsNewest'
  <2>1. \A u \in Students : sent'[u] = sent[u] /\ notificationBuffer'[u] = notificationBuffer[u]
    BY <1>1
  <2> QED BY <1>3, <1>4, <2>1, BufferLeft, BufferedRunsNext
<1> QED BY <1>3, <1>5, <1>6, <1>7 DEF HubInv

\* An arrival: the page has the same notifications, one of them shown now.
LEMMA DeliverInv ==
  ASSUME HubInv, NEW x \in Pages, Deliver(x)
  PROVE  HubInv' /\ \A p \in Pages : Emitted(p)' = Emitted(p)
<1>1. /\ UNCHANGED <<userSockets, notificationBuffer, socket, sent, crashes>> /\ wire[x] # <<>>
      /\ shown' = [shown EXCEPT ![x] = Append(shown[x], Head(wire[x]))]
      /\ wire' = [wire EXCEPT ![x] = Tail(wire[x])]
  BY DEF Deliver
<1>2. /\ Append(shown[x], Head(wire[x])) \in Seq(Nat) /\ Tail(wire[x]) \in Seq(Nat)
      /\ InOrder(Append(shown[x], Head(wire[x])), Tail(wire[x]))
      /\ Range(Append(shown[x], Head(wire[x]))) \union Range(Tail(wire[x]))
           = Range(shown[x]) \union Range(wire[x])
  <2>1. shown[x] \in Seq(Nat) /\ wire[x] \in Seq(Nat) /\ InOrder(shown[x], wire[x])
    BY DEF HubInv, HubTypeOK, PagesInOrder
  <2> QED BY <1>1, <2>1, Delivering
<1>3. /\ shown' \in [Pages -> Seq(Nat)] /\ wire' \in [Pages -> Seq(Nat)]
      /\ shown'[x] = Append(shown[x], Head(wire[x])) /\ wire'[x] = Tail(wire[x])
      /\ \A p \in Pages : p # x => shown'[p] = shown[p] /\ wire'[p] = wire[p]
  BY <1>1, <1>2 DEF HubInv, HubTypeOK
<1>4. \A p \in Pages : Emitted(p)' = Emitted(p)
  BY <1>2, <1>3 DEF Emitted
<1>5. PagesInOrder'
  BY <1>2, <1>3 DEF HubInv, PagesInOrder
<1>6. HubTypeOK'
  BY <1>1, <1>3 DEF HubInv, HubTypeOK
<1>7. OnOnePage' /\ EmittedWasSent'
  BY <1>1, <1>4 DEF HubInv, OnOnePage, EmittedWasSent, PagesOf
<1>8. ReachedAtOwn'
  BY <1>1 DEF HubInv, ReachedAtOwn, Student
<1>9. BufferIsNewest'
  BY <1>1, <1>4 DEF HubInv, BufferIsNewest, PagesOf
<1> QED BY <1>4, <1>5, <1>6, <1>7, <1>8, <1>9 DEF HubInv

\* A notification for a student who is reached at some socket.
LEMMA NotifyEmits ==
  ASSUME HubInv, NEW u \in Students, notify(u), userSockets[u] # NoSocket
  PROVE  /\ HubInv'
         /\ \A p \in Pages : Emitted(p) \subseteq Emitted(p)'
         /\ socket'[userSockets[u]] = "open" =>
              sent'[u] \in Emitted(PageOf[userSockets[u]])'
<1>0. PICK n, s : n = sent[u] + 1 /\ s = userSockets[u]
  OBVIOUS
<1> DEFINE t == <<n>>
<1>1. /\ sent' = [sent EXCEPT ![u] = n] /\ emit(s, t)
      /\ UNCHANGED <<userSockets, socket, shown, crashes, notificationBuffer>>
  BY <1>0 DEF notify
<1>2. s \in Sockets /\ Student(s) = u
  BY <1>0 DEF HubInv, ReachedAtOwn
<1>3. sent[u] \in Nat /\ n \in Nat /\ notificationBuffer[u] = <<>>
  BY <1>0 DEF HubInv, HubTypeOK, BufferIsNewest
<1>4. t \in Seq(Nat) /\ Increasing(t) /\ Range(t) = {n}
  BY <1>3, OneNumber
<1>5. \A e \in EmittedTo(u) : e < n
  <2> SUFFICES ASSUME NEW e \in EmittedTo(u) PROVE e < n
    OBVIOUS
  <2>1. e \in Nat /\ e <= sent[u]
    BY EmittedNumbers DEF EmittedTo, HubInv, EmittedWasSent
  <2> QED BY <1>0, <1>3, <2>1
<1> HIDE DEF t
<1>6. /\ sent' \in [Students -> Nat] /\ sent'[u] = n
      /\ \A v \in Students : sent[v] <= sent'[v]
      /\ \A v \in Students : v # u => sent'[v] = sent[v]
  BY <1>0, <1>1, <1>3 DEF HubInv, HubTypeOK
<1>7. sent'[u] = n /\ n <= n
  BY <1>3, <1>6
<1>8. /\ wire' \in [Pages -> Seq(Nat)] /\ PagesInOrder' /\ OnOnePage' /\ EmittedWasSent'
      /\ \A p \in Pages : p # PageOf[s] => Emitted(p)' = Emitted(p)
      /\ \A p \in Pages : Emitted(p) \subseteq Emitted(p)'
      /\ socket'[s] = "open" => Emitted(PageOf[s])' = Emitted(PageOf[s]) \union Range(t)
  <2>1. \A e \in EmittedTo(Student(s)), m \in Range(t) : e < m
    BY <1>2, <1>4, <1>5
  <2>2. \A m \in Range(t) : m <= sent'[Student(s)]
    BY <1>2, <1>4, <1>7
  <2>3. shown' = shown /\ emit(s, t)
    BY <1>1
  <2>4. s \in Sockets /\ sent' \in [Students -> Nat] /\ \A v \in Students : sent[v] <= sent'[v]
    BY <1>2, <1>6
  <2>5. t \in Seq(Nat) /\ Increasing(t)
    BY <1>4
  <2> QED BY <2>1, <2>2, <2>3, <2>4, <2>5, EmitKeeps, Zenon
<1>9. HubTypeOK'
  BY <1>1, <1>6, <1>8 DEF HubInv, HubTypeOK
<1>10. ReachedAtOwn'
  BY <1>1 DEF HubInv, ReachedAtOwn, Student
<1>11. BufferIsNewest'
  <2> SUFFICES ASSUME NEW v \in Students
               PROVE  /\ notificationBuffer'[v] # <<>> => userSockets'[v] = NoSocket
                      /\ notificationBuffer'[v] # <<>> =>
                           NewestRun(notificationBuffer'[v], sent'[v], EmittedTo(v)')
    BY BufferedRunsNext
  <2>1. CASE v = u
    BY <1>1, <1>3, <2>1
  <2>2. CASE v # u
    <3>1. \A p \in PagesOf(v) : Emitted(p)' = Emitted(p)
      BY <1>2, <1>8, <2>2 DEF PagesOf, Student
    <3>2. EmittedTo(v)' \subseteq EmittedTo(v)
      BY <3>1 DEF EmittedTo, PagesOf
    <3>3. /\ sent'[v] = sent[v] /\ userSockets'[v] \in {userSockets[v], NoSocket}
          /\ notificationBuffer'[v] \in {notificationBuffer[v], <<>>}
      BY <1>1, <1>6, <2>2
    <3>4. HubInv
      OBVIOUS
    <3> QED BY <3>2, <3>3, <3>4, BufferLeft, Zenon
  <2> QED BY <2>1, <2>2
<1>12. HubInv'
  BY <1>8, <1>9, <1>10, <1>11 DEF HubInv
<1>13. socket'[s] = "open" => n \in Emitted(PageOf[s])'
  BY <1>4, <1>8
<1>14. \A p \in Pages : Emitted(p) \subseteq Emitted(p)'
  BY <1>8
<1>15. socket'[userSockets[u]] = "open" => sent'[u] \in Emitted(PageOf[userSockets[u]])'
  <2>1. userSockets'[u] = s /\ userSockets[u] = s
    BY <1>0, <1>1
  <2> QED BY <1>7, <1>13, <2>1 DEF Emitted
<1> QED BY <1>12, <1>14, <1>15

\* A notification for a student whom nothing reaches.
LEMMA NotifyBuffers ==
  ASSUME HubInv, NEW u \in Students, notify(u), userSockets[u] = NoSocket
  PROVE  /\ HubInv'
         /\ \A p \in Pages : Emitted(p)' = Emitted(p)
         /\ sent'[u] \in Range(notificationBuffer'[u])
         /\ \A m \in Range(notificationBuffer[u]) :
              \/ m \in Range(notificationBuffer'[u])
              \/ Len(notificationBuffer[u]) = BufferLimit /\ m = Head(notificationBuffer[u])
<1> DEFINE n == sent[u]
           q == notificationBuffer[u]
           r == KeepNewest(Append(q, n + 1))
<1>1. /\ sent' = [sent EXCEPT ![u] = n + 1]
      /\ notificationBuffer' = [notificationBuffer EXCEPT ![u] = r]
      /\ UNCHANGED <<userSockets, socket, shown, wire, crashes>>
  BY DEF notify, bufferNotification
<1>2. /\ n \in Nat /\ q \in Seq(Nat) /\ Len(q) <= BufferLimit
      /\ EmittedTo(u) \in SUBSET Nat /\ (q # <<>> => NewestRun(q, n, EmittedTo(u)))
  BY BufferedRuns, EmittedNumbers DEF HubInv, HubTypeOK
<1>3. \A e \in EmittedTo(u) : e <= n
  BY DEF EmittedTo, HubInv, EmittedWasSent
<1> HIDE DEF n, q
<1>4. /\ r \in Seq(Nat) /\ Len(r) <= BufferLimit /\ NewestRun(r, n + 1, EmittedTo(u))
      /\ n + 1 \in Range(r)
      /\ \A m \in Range(q) : m \in Range(r) \/ (Len(q) = BufferLimit /\ m = Head(q))
  BY <1>2, <1>3, Kept
<1> USE DEF n, q
<1> HIDE DEF r
<1>5. /\ sent' \in [Students -> Nat] /\ sent'[u] = n + 1
      /\ notificationBuffer' \in [Students -> Seq(Nat)] /\ notificationBuffer'[u] = r
      /\ \A v \in Students : v # u =>
           sent'[v] = sent[v] /\ notificationBuffer'[v] = notificationBuffer[v]
      /\ \A v \in Students : sent[v] \in Nat /\ sent'[v] \in Nat /\ sent[v] <= sent'[v]
  BY <1>1, <1>2, <1>4 DEF HubInv, HubTypeOK
<1>6. \A p \in Pages : Emitted(p)' = Emitted(p)
  BY <1>1 DEF Emitted
<1>7. HubTypeOK'
  <2>1. \A v \in Students : Len(notificationBuffer'[v]) <= BufferLimit
    BY <1>4, <1>5 DEF HubInv, HubTypeOK
  <2> QED BY <1>1, <1>5, <2>1 DEF HubInv, HubTypeOK
<1>8. OnOnePage' /\ EmittedWasSent'
  <2>1. NewOnlyAt(NoSocket)
    BY <1>6 DEF NewOnlyAt, PagesOf
  <2>2. HubTypeOK /\ OnOnePage /\ EmittedWasSent
    BY DEF HubInv
  <2>3. \A v \in Students : sent[v] \in Nat /\ sent'[v] \in Nat /\ sent[v] <= sent'[v]
    BY <1>5
  <2> QED BY <2>1, <2>2, <2>3, PagesKept
<1>9. PagesInOrder' /\ ReachedAtOwn'
  BY <1>1 DEF HubInv, PagesInOrder, ReachedAtOwn, Student
<1>10. BufferIsNewest'
  <2> SUFFICES ASSUME NEW v \in Students
               PROVE  /\ notificationBuffer'[v] # <<>> => userSockets'[v] = NoSocket
                      /\ notificationBuffer'[v] # <<>> =>
                           NewestRun(notificationBuffer'[v], sent'[v], EmittedTo(v)')
    BY BufferedRunsNext
  <2>1. EmittedTo(v)' = EmittedTo(v)
    BY <1>6 DEF EmittedTo, PagesOf
  <2>2. CASE v = u
    BY <1>1, <1>4, <1>5, <2>1, <2>2
  <2>3. CASE v # u
    BY <1>1, <1>5, <2>1, <2>3, BufferLeft
  <2> QED BY <2>2, <2>3
<1> QED BY <1>4, <1>5, <1>6, <1>7, <1>8, <1>9, <1>10 DEF HubInv

\* A restarted hub knows nothing, and what was shown stays shown.
LEMMA CrashInv == HubInv /\ Crash => HubInv'
<1> SUFFICES ASSUME HubInv, Crash PROVE HubInv'
  OBVIOUS
<1>1. <<>> \in Seq(Nat) /\ Len(<<>>) <= BufferLimit
  BY EmptySeq, HubAssumption DEF HubAssumption
<1>2. /\ notificationBuffer' \in [Students -> Seq(Nat)] /\ wire' \in [Pages -> Seq(Nat)]
      /\ \A u \in Students : notificationBuffer'[u] = <<>> /\ userSockets'[u] = NoSocket
      /\ \A u \in Students : Len(notificationBuffer'[u]) <= BufferLimit
      /\ \A p \in Pages : wire'[p] \in {wire[p], <<>>}
  BY <1>1 DEF Crash
<1>3. userSockets' \in [Students -> Sockets \union {NoSocket}] /\ socket' \in [Sockets -> SocketStates]
  BY DEF Crash, HubInv, HubTypeOK, SocketStates
<1>4. crashes' \in 0 .. MaxCrashes /\ sent' = sent /\ shown' = shown
  BY HubAssumption DEF Crash, HubInv, HubTypeOK, HubAssumption
<1>5. HubTypeOK'
  BY <1>2, <1>3, <1>4 DEF HubInv, HubTypeOK
<1>6. PagesInOrder' /\ OnOnePage' /\ EmittedWasSent'
  BY <1>2, <1>4, HangUpKeeps
<1>7. ReachedAtOwn' /\ BufferIsNewest'
  BY <1>2 DEF ReachedAtOwn, BufferIsNewest
<1> QED BY <1>5, <1>6, <1>7 DEF HubInv

LEMMA HubStepInv == HubInv /\ [HubNext]_hub => HubInv'
<1> SUFFICES ASSUME HubInv, [HubNext]_hub PROVE HubInv'
  OBVIOUS
<1>1. CASE HubNext
  BY <1>1, ConnectInv, HangUpInv, DeliverInv, NotifyEmits, NotifyBuffers, CrashInv DEF HubNext
<1>2. CASE UNCHANGED hub
  BY <1>2 DEF hub, HubInv, HubTypeOK, PagesInOrder, OnOnePage, EmittedWasSent, Emitted,
              ReachedAtOwn, BufferIsNewest, PagesOf, Student
<1> QED BY <1>1, <1>2

LEMMA HubCorrect == HubSpec => []HubInv
<1> QED BY HubInitInv, HubStepInv, PTL DEF HubSpec

-----------------------------------------------------------------------------
\* The hub's tables keep their types and no buffer outgrows BufferLimit.
THEOREM HubTypesKept == HubSpec => []HubTypeOK
<1>1. HubInv => HubTypeOK
  BY DEF HubInv
<1> QED BY <1>1, HubCorrect, PTL

\* No page shows a status before an earlier one, and no status is shown twice.
THEOREM AlwaysShownInOrder == HubSpec => []ShownInOrder
<1>1. HubInv => ShownInOrder
  <2> SUFFICES ASSUME HubInv PROVE ShownInOrder
    OBVIOUS
  <2>1. \A p \in Pages : Increasing(shown[p])
    BY DEF HubInv, PagesInOrder, InOrder
  <2>2. \A u \in Students : \A p, r \in PagesOf(u) :
          p # r => Range(shown[p]) \intersect Range(shown[r]) = {}
    BY DEF HubInv, OnOnePage, Emitted
  <2> QED BY <2>1, <2>2 DEF ShownInOrder
<1> QED BY <1>1, HubCorrect, PTL

\* What waits in a buffer is the newest there is, and nobody is registered meanwhile.
THEOREM BufferAlwaysNewest == HubSpec => []BufferIsNewest
<1>1. HubInv => BufferIsNewest
  BY DEF HubInv
<1> QED BY <1>1, HubCorrect, PTL

-----------------------------------------------------------------------------
(* What the hub loses.                                                     *)

\* One student's part of LossesKnown.
Accounted(u) ==
  \A n \in 1 .. sent'[u] :
    \/ Safe(u, n)'
    \/ n <= sent[u] /\ ~Safe(u, n)
    \/ crashes' # crashes
    \/ LostOnTheWay(u, n)
    \/ EmittedToNobody(u, n)
    \/ Overflown(u, n)

\* Safe in the next state, of the values of the variables.
LEMMA SafeNext ==
  ASSUME NEW u, NEW n
  PROVE  Safe(u, n)' <=>
           n \in Range(notificationBuffer'[u]) \/ \E p \in PagesOf(u) : n \in Emitted(p)'
BY DEF Safe, PagesOf

\* Nothing new for the student, and nothing taken from what is kept or emitted.
LEMMA NothingTaken ==
  ASSUME HubTypeOK, NEW u \in Students, sent'[u] = sent[u],
         \A n : Safe(u, n) => Safe(u, n)' \/ LostOnTheWay(u, n) \/ EmittedToNobody(u, n)
  PROVE  Accounted(u)
<1>1. sent[u] \in Nat
  BY DEF HubTypeOK
<1> QED BY <1>1 DEF Accounted

LEMMA ConnectAccounted ==
  ASSUME HubInv, NEW s \in Sockets, handleConnection(s), NEW u \in Students
  PROVE  Accounted(u)
<1>1. /\ \A p \in Pages : Emitted(p) \subseteq Emitted(p)'
      /\ socket'[s] = "open" =>
           Emitted(PageOf[s])' = Emitted(PageOf[s]) \union Range(notificationBuffer[Student(s)])
  BY ConnectInv
<1>2. /\ sent' = sent /\ Student(s) \in Students /\ PageOf[s] \in PagesOf(Student(s))
      /\ userSockets'[Student(s)] = s
      /\ socket'[s] \in {"open", "broken"}
      /\ \A v \in Students : v # Student(s) => notificationBuffer'[v] = notificationBuffer[v]
  BY HubAssumption DEF HubAssumption, Student, PagesOf, handleConnection, replayBuffer, HubInv, HubTypeOK
<1>3. ASSUME NEW n, Safe(u, n) PROVE Safe(u, n)' \/ EmittedToNobody(u, n)
  <2>1. CASE \E p \in PagesOf(u) : n \in Emitted(p)
    BY <1>1, <2>1, SafeNext DEF PagesOf
  <2>2. CASE n \in Range(notificationBuffer[u])
    <3>1. CASE u # Student(s)
      BY <1>2, <2>2, <3>1, SafeNext
    <3>2. CASE u = Student(s) /\ socket'[s] = "open"
      BY <1>1, <1>2, <2>2, <3>2, SafeNext
    <3>3. CASE u = Student(s) /\ socket'[s] = "broken"
      BY <1>2, <2>2, <3>3 DEF EmittedToNobody
    <3> QED BY <1>2, <3>1, <3>2, <3>3
  <2> QED BY <1>3, <2>1, <2>2 DEF Safe
<1> QED BY <1>2, <1>3, NothingTaken DEF HubInv

LEMMA HangUpAccounted ==
  ASSUME HubInv, NEW s \in Sockets, Break(s) \/ disconnect(s), NEW u \in Students
  PROVE  Accounted(u)
<1>1. /\ UNCHANGED <<notificationBuffer, sent, shown>>
      /\ \A p \in Pages : p # PageOf[s] => wire'[p] = wire[p]
      /\ socket[s] # "open" => wire' = wire
      /\ socket'[s] # "open"
  BY DEF Break, disconnect, HangUp, HubInv, HubTypeOK
<1>2. ASSUME NEW n, Safe(u, n) PROVE Safe(u, n)' \/ LostOnTheWay(u, n)
  <2>1. CASE n \in Range(notificationBuffer[u])
    BY <1>1, <2>1, SafeNext
  <2>2. ASSUME NEW p \in PagesOf(u), n \in Emitted(p)
        PROVE  Safe(u, n)' \/ LostOnTheWay(u, n)
    <3>0. p \in Pages /\ StudentOf[p] = u
      BY DEF PagesOf
    <3>1. CASE n \in Range(shown[p]) \/ wire'[p] = wire[p]
      <4>1. n \in Emitted(p)'
        BY <1>1, <2>2, <3>1 DEF Emitted
      <4> QED BY <4>1, SafeNext
    <3>2. CASE n \notin Range(shown[p]) /\ wire'[p] # wire[p]
      <4>1. n \in Range(wire[p]) /\ p = PageOf[s] /\ socket[s] = "open"
        BY <1>1, <2>2, <3>0, <3>2 DEF Emitted
      <4>2. Student(s) = u
        BY <3>0, <4>1 DEF Student
      <4> QED BY <1>1, <4>1, <4>2 DEF LostOnTheWay
    <3> QED BY <3>1, <3>2
  <2> QED BY <1>2, <2>1, <2>2 DEF Safe
<1> QED BY <1>1, <1>2, NothingTaken DEF HubInv

\* What a student's notification does to the others: nothing.
LEMMA NotifyOthers ==
  ASSUME HubInv, NEW v \in Students, notify(v), NEW u \in Students, u # v
  PROVE  Accounted(u)
<1>1. sent'[u] = sent[u] /\ notificationBuffer'[u] = notificationBuffer[u]
  BY DEF notify, bufferNotification, HubInv, HubTypeOK
<1>2. \A p \in Pages : Emitted(p) \subseteq Emitted(p)'
  BY NotifyEmits, NotifyBuffers
<1>3. \A n : Safe(u, n) => Safe(u, n)'
  BY <1>1, <1>2, SafeNext DEF Safe, PagesOf
<1> QED BY <1>1, <1>3, NothingTaken DEF HubInv

LEMMA NotifyAccounted ==
  ASSUME HubInv, NEW u \in Students, notify(u)
  PROVE  Accounted(u)
<1>1. /\ sent[u] \in Nat /\ sent'[u] = sent[u] + 1 /\ userSockets' = userSockets /\ socket' = socket
  BY DEF notify, HubInv, HubTypeOK
<1>2. ASSUME NEW n \in 1 .. sent'[u] PROVE n = sent'[u] \/ n <= sent[u]
  BY <1>1
<1>3. CASE userSockets[u] # NoSocket
  <2>1. PICK s, m : s = userSockets[u] /\ m = sent'[u]
    OBVIOUS
  <2>2. /\ s \in Sockets /\ Student(s) = u /\ socket[s] \in {"open", "broken"}
        /\ PageOf[s] \in PagesOf(u)
    BY <1>3, <2>1, HubAssumption DEF HubInv, ReachedAtOwn, PagesOf, Student, HubAssumption
  <2>3. /\ \A p \in Pages : Emitted(p) \subseteq Emitted(p)'
        /\ socket'[s] = "open" => m \in Emitted(PageOf[s])'
    <3>1. /\ \A p \in Pages : Emitted(p) \subseteq Emitted(p)'
          /\ socket'[userSockets[u]] = "open" => sent'[u] \in Emitted(PageOf[userSockets[u]])'
      BY <1>3, NotifyEmits
    <3> QED BY <1>1, <2>1, <3>1
  <2>4. notificationBuffer' = notificationBuffer
    BY <1>3 DEF notify
  <2>5. \A n : Safe(u, n) => Safe(u, n)'
    BY <2>3, <2>4, SafeNext DEF Safe, PagesOf
  <2>6. Safe(u, m)' \/ EmittedToNobody(u, m)
    <3>1. CASE socket[s] = "open"
      BY <1>1, <2>2, <2>3, <3>1, SafeNext
    <3>2. CASE socket[s] = "broken"
      BY <1>1, <2>1, <2>2, <3>2 DEF EmittedToNobody
    <3> QED BY <2>2, <3>1, <3>2
  <2> QED BY <1>2, <2>1, <2>5, <2>6 DEF Accounted
<1>4. CASE userSockets[u] = NoSocket
  <2>1. /\ \A p \in Pages : Emitted(p)' = Emitted(p)
        /\ sent'[u] \in Range(notificationBuffer'[u])
        /\ \A m \in Range(notificationBuffer[u]) :
             \/ m \in Range(notificationBuffer'[u])
             \/ Len(notificationBuffer[u]) = BufferLimit /\ m = Head(notificationBuffer[u])
    BY <1>4, NotifyBuffers
  <2>2. sent'[u] > sent[u]
    BY <1>1
  <2>3. \A n : Safe(u, n) => Safe(u, n)' \/ Overflown(u, n)
    BY <2>1, <2>2, SafeNext DEF Safe, PagesOf, Overflown
  <2>4. \A n : n = sent'[u] => Safe(u, n)'
    BY <2>1, SafeNext
  <2> QED BY <1>2, <2>3, <2>4 DEF Accounted
<1> QED BY <1>3, <1>4

LEMMA StepAccounted == HubInv /\ [HubNext]_hub => \A u \in Students : Accounted(u)
<1> SUFFICES ASSUME HubInv, [HubNext]_hub, NEW u \in Students PROVE Accounted(u)
  OBVIOUS
<1>1. ASSUME NEW p \in Pages, Deliver(p) PROVE Accounted(u)
  <2>1. UNCHANGED <<notificationBuffer, sent>> /\ \A r \in Pages : Emitted(r)' = Emitted(r)
    BY <1>1, DeliverInv DEF Deliver
  <2>2. \A n : Safe(u, n) => Safe(u, n)'
    BY <2>1, SafeNext DEF Safe, PagesOf
  <2> QED BY <2>1, <2>2, NothingTaken DEF HubInv
<1>2. CASE Crash
  <2>1. crashes' # crashes
    BY <1>2 DEF Crash, HubInv, HubTypeOK
  <2> QED BY <2>1 DEF Accounted
<1>3. CASE UNCHANGED hub
  <2>1. sent'[u] = sent[u] /\ \A n : Safe(u, n) => Safe(u, n)'
    BY <1>3, SafeNext DEF hub, Safe, Emitted, PagesOf
  <2> QED BY <2>1, NothingTaken DEF HubInv
<1>4. ASSUME NEW v \in Students, notify(v) PROVE Accounted(u)
  BY <1>4, NotifyOthers, NotifyAccounted
<1> QED BY <1>1, <1>2, <1>3, <1>4, ConnectAccounted, HangUpAccounted DEF HubNext

\* A notification is lost by a restart, with the connection it travels on, by being emitted
\* or replayed to a dead socket, or by the limit of the buffer, and by nothing else, for any
\* number of students, pages, sockets and notifications.
THEOREM OnlyKnownLosses == HubSpec => LossesKnown
<1>1. HubInv /\ [HubNext]_hub =>
        [\A u \in Students : \A n \in 1 .. sent'[u] :
           \/ Safe(u, n)'
           \/ n <= sent[u] /\ ~Safe(u, n)
           \/ crashes' # crashes
           \/ LostOnTheWay(u, n)
           \/ EmittedToNobody(u, n)
           \/ Overflown(u, n)]_hub
  BY StepAccounted DEF Accounted
<1> QED BY <1>1, HubCorrect, PTL DEF HubSpec, LossesKnown
=============================================================================
