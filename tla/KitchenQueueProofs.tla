------------------------- MODULE KitchenQueueProofs -------------------------
(* The kitchen's queue, for any number of jobs, replicas, kills and lapses,  *)
(* and any limits: its lists and locks agree, an order is finalized at most  *)
(* once by each replica, and the whole is the queue the saga relies on.      *)
EXTENDS KitchenQueue, FiniteSetTheorems, SequenceTheorems, TLAPS

\* Bounds of BullMQ's bookkeeping that no single job shows: a job has failed exactly when
\* it stalled once too often, and the runs are finitely many.
StallsCounted ==
  /\ IsFiniteSet(runs)
  /\ \A j \in Jobs : job[j] = "failed" <=> stalls[j] = MaxStalls + 1

KitchenInv == KitchenTypeOK /\ QueueSound /\ FinalizedOncePerReplica /\ StallsCounted

In(q, x) == \E i \in 1 .. Len(q) : q[i] = x
Pending(j) == {g \in Replicas : <<g, j>> \in events}

-----------------------------------------------------------------------------
(* The waiting list.                                                       *)

LEMMA Added ==
  ASSUME NEW q \in Seq(Jobs), NEW j \in Jobs, NoRepeats(q), ~In(q, j)
  PROVE  /\ Append(q, j) \in Seq(Jobs)
         /\ NoRepeats(Append(q, j))
         /\ \A x \in Jobs : In(Append(q, j), x) <=> x = j \/ In(q, x)
<1> DEFINE r == Append(q, j)
<1>1. /\ r \in Seq(Jobs) /\ Len(r) = Len(q) + 1
      /\ \A i \in 1 .. Len(q) : r[i] = q[i]
      /\ r[Len(q) + 1] = j
  BY AppendProperties
<1>2. Len(q) \in Nat
  BY LenProperties
<1>3. \A i \in 1 .. Len(q) : q[i] # j
  BY DEF In
<1> HIDE DEF r
<1>4. NoRepeats(r)
  BY <1>1, <1>2, <1>3 DEF NoRepeats
<1>5. ASSUME NEW x \in Jobs PROVE In(r, x) <=> x = j \/ In(q, x)
  <2>1. ASSUME NEW i \in 1 .. Len(r), r[i] = x PROVE x = j \/ In(q, x)
    <3>1. CASE i = Len(q) + 1 BY <1>1, <2>1, <3>1
    <3>2. CASE i \in 1 .. Len(q) BY <1>1, <2>1, <3>2 DEF In
    <3> QED BY <1>1, <1>2, <3>1, <3>2
  <2>2. In(r, j)
    BY <1>1, <1>2 DEF In
  <2>3. In(q, x) => In(r, x)
    BY <1>1, <1>2 DEF In
  <2> QED BY <2>1, <2>2, <2>3 DEF In
<1> QED BY <1>1, <1>4, <1>5 DEF r

LEMMA Fetched ==
  ASSUME NEW q \in Seq(Jobs), q # <<>>, NoRepeats(q)
  PROVE  /\ Head(q) \in Jobs /\ In(q, Head(q))
         /\ Tail(q) \in Seq(Jobs)
         /\ NoRepeats(Tail(q))
         /\ \A x \in Jobs : In(Tail(q), x) <=> x # Head(q) /\ In(q, x)
<1> DEFINE r == Tail(q)
<1>1. /\ r \in Seq(Jobs) /\ Len(r) = Len(q) - 1
      /\ \A i \in 1 .. Len(r) : r[i] = q[i + 1]
      /\ Head(q) \in Jobs
  BY HeadTailProperties
<1>2. Len(q) \in Nat \ {0} /\ Head(q) = q[1]
  BY EmptySeq, LenProperties
<1> HIDE DEF r
<1>3. NoRepeats(r)
  <2> SUFFICES ASSUME NEW i \in 1 .. Len(r), NEW k \in 1 .. Len(r), r[i] = r[k] PROVE i = k
    BY DEF NoRepeats
  <2>1. i + 1 \in 1 .. Len(q) /\ k + 1 \in 1 .. Len(q) /\ q[i + 1] = q[k + 1]
    BY <1>1, <1>2
  <2>2. i + 1 = k + 1
    BY <2>1 DEF NoRepeats
  <2> QED BY <2>2
<1>4. ASSUME NEW x \in Jobs PROVE In(r, x) <=> x # Head(q) /\ In(q, x)
  <2>1. ASSUME NEW i \in 1 .. Len(r), r[i] = x PROVE x # Head(q) /\ In(q, x)
    <3>1. i + 1 \in 1 .. Len(q) /\ q[i + 1] = x /\ 1 \in 1 .. Len(q) /\ i + 1 # 1
      BY <1>1, <1>2, <2>1
    <3>2. q[i + 1] # q[1]
      BY <3>1 DEF NoRepeats
    <3> QED BY <1>2, <3>1, <3>2 DEF In
  <2>2. ASSUME NEW i \in 1 .. Len(q), q[i] = x, x # Head(q) PROVE In(r, x)
    <3>1. i # 1
      BY <1>2, <2>2
    <3>2. i - 1 \in 1 .. Len(r) /\ (i - 1) + 1 = i
      BY <1>1, <1>2, <3>1
    <3>3. r[i - 1] = x
      BY <1>1, <2>2, <3>2
    <3> QED BY <3>2, <3>3 DEF In
  <2> QED BY <2>1, <2>2 DEF In
<1>5. In(q, Head(q))
  BY <1>2 DEF In
<1> QED BY <1>1, <1>3, <1>4, <1>5 DEF r

LEMMA PutBack ==
  ASSUME NEW q \in Seq(Jobs), NEW j \in Jobs, NoRepeats(q), ~In(q, j)
  PROVE  /\ <<j>> \o q \in Seq(Jobs)
         /\ NoRepeats(<<j>> \o q)
         /\ \A x \in Jobs : In(<<j>> \o q, x) <=> x = j \/ In(q, x)
<1> DEFINE r == <<j>> \o q
<1>1. /\ r \in Seq(Jobs) /\ Len(r) = 1 + Len(q)
      /\ \A i \in 1 .. 1 + Len(q) : r[i] = IF i <= 1 THEN <<j>>[i] ELSE q[i - 1]
  <2>1. <<j>> \in Seq(Jobs) /\ Len(<<j>>) = 1
    OBVIOUS
  <2> QED BY <2>1, ConcatProperties
<1>2. Len(q) \in Nat
  BY LenProperties
<1>3. r[1] = j /\ \A i \in 1 .. Len(q) : r[i + 1] = q[i] /\ q[i] # j
  <2>1. r[1] = j
    BY <1>1, <1>2
  <2>2. ASSUME NEW i \in 1 .. Len(q) PROVE r[i + 1] = q[i] /\ q[i] # j
    <3>1. i + 1 \in 1 .. 1 + Len(q) /\ ~(i + 1 <= 1) /\ (i + 1) - 1 = i
      BY <1>2
    <3> QED BY <1>1, <3>1 DEF In
  <2> QED BY <2>1, <2>2
<1> HIDE DEF r
<1>4. \A i \in 1 .. Len(r) : i = 1 \/ (i - 1 \in 1 .. Len(q) /\ r[i] = q[i - 1] /\ r[i] # j)
  <2> SUFFICES ASSUME NEW i \in 1 .. Len(r), i # 1
               PROVE  i - 1 \in 1 .. Len(q) /\ r[i] = q[i - 1] /\ r[i] # j
    OBVIOUS
  <2>1. i - 1 \in 1 .. Len(q) /\ (i - 1) + 1 = i
    BY <1>1, <1>2
  <2> QED BY <1>3, <2>1
<1>5. NoRepeats(r)
  <2> SUFFICES ASSUME NEW i \in 1 .. Len(r), NEW k \in 1 .. Len(r), r[i] = r[k] PROVE i = k
    BY DEF NoRepeats
  <2>1. CASE i = 1 \/ k = 1 BY <1>3, <1>4, <2>1
  <2>2. CASE i # 1 /\ k # 1
    <3>1. i - 1 \in 1 .. Len(q) /\ k - 1 \in 1 .. Len(q) /\ q[i - 1] = q[k - 1]
      BY <1>4, <2>2
    <3>2. i - 1 = k - 1
      BY <3>1 DEF NoRepeats
    <3> QED BY <3>2
  <2> QED BY <2>1, <2>2
<1>6. ASSUME NEW x \in Jobs PROVE In(r, x) <=> x = j \/ In(q, x)
  <2>1. In(r, x) => x = j \/ In(q, x)
    BY <1>3, <1>4 DEF In
  <2>2. In(r, j)
    BY <1>1, <1>2, <1>3 DEF In
  <2>3. In(q, x) => In(r, x)
    <3> SUFFICES ASSUME NEW i \in 1 .. Len(q), q[i] = x PROVE In(r, x)
      BY DEF In
    <3>1. i + 1 \in 1 .. Len(r)
      BY <1>1, <1>2
    <3> QED BY <1>3, <3>1 DEF In
  <2> QED BY <2>1, <2>2, <2>3
<1> QED BY <1>1, <1>5, <1>6 DEF r

\* What Redis keeps of the completed jobs.
LEMMA KeptBounded ==
  ASSUME NEW q \in Seq(Jobs), NEW j \in Jobs, Len(q) <= Keep
  PROVE  Newest(Append(q, j)) \in Seq(Jobs) /\ Len(Newest(Append(q, j))) <= Keep
<1>1. Append(q, j) \in Seq(Jobs) /\ Len(Append(q, j)) = Len(q) + 1 /\ Len(q) \in Nat
  BY AppendProperties, LenProperties
<1>2. Keep \in Nat \ {0}
  BY KitchenAssumption DEF KitchenAssumption
<1>3. CASE Len(Append(q, j)) > Keep
  <2>1. Append(q, j) # <<>>
    <3>1. Len(Append(q, j)) # 0
      BY <1>1
    <3>2. Len(<<>>) = 0
      BY EmptySeq
    <3> QED BY <3>1, <3>2
  <2>2. Tail(Append(q, j)) \in Seq(Jobs) /\ Len(Tail(Append(q, j))) = Len(Append(q, j)) - 1
    BY <1>1, <2>1, HeadTailProperties
  <2> QED BY <1>1, <1>2, <1>3, <2>2 DEF Newest
<1>4. CASE ~(Len(Append(q, j)) > Keep)
  BY <1>1, <1>2, <1>4 DEF Newest
<1> QED BY <1>3, <1>4

-----------------------------------------------------------------------------
(* What an action leaves alone keeps its part of the invariant.            *)

LEMMA Sound ==
  QueueSound <=>
    /\ NoRepeats(wait)
    /\ \A j \in Jobs : job[j] = "waiting" <=> In(wait, j)
    /\ \A j \in Jobs : lock[j] # 0 => job[j] = "active" /\ lock[j] = taken[j]
BY DEF QueueSound, In

LEMMA SoundNext ==
  QueueSound' <=>
    /\ NoRepeats(wait')
    /\ \A j \in Jobs : job'[j] = "waiting" <=> In(wait', j)
    /\ \A j \in Jobs : lock'[j] # 0 => job'[j] = "active" /\ lock'[j] = taken'[j]
BY DEF QueueSound, In, NoRepeats

\* Completed jobs stay completed, and what the listeners know stays.
LEMMA FinalizedKept ==
  ASSUME KitchenInv, UNCHANGED <<events, finalized>>,
         \A j \in Jobs : job[j] = "completed" => job'[j] = "completed"
  PROVE  FinalizedOncePerReplica'
BY DEF KitchenInv, FinalizedOncePerReplica

LEMMA RunReplaced ==
  ASSUME NEW S, IsFiniteSet(S), NEW x \in S, NEW y
  PROVE  /\ IsFiniteSet((S \ {x}) \union {y})
         /\ Cardinality((S \ {x}) \union {y}) <= Cardinality(S)
         /\ IsFiniteSet(S \ {x})
         /\ Cardinality(S \ {x}) <= Cardinality(S)
<1>1. IsFiniteSet(S \ {x}) /\ Cardinality(S \ {x}) = Cardinality(S) - 1 /\ Cardinality(S) \in Nat
  BY FS_RemoveElement, FS_CardinalityType
<1>2. /\ IsFiniteSet((S \ {x}) \union {y})
      /\ \/ Cardinality((S \ {x}) \union {y}) = Cardinality(S \ {x})
         \/ Cardinality((S \ {x}) \union {y}) = Cardinality(S \ {x}) + 1
  BY <1>1, FS_AddElement
<1> QED BY <1>1, <1>2

LEMMA KitchenInitInv == KitchenInit => KitchenInv
<1> SUFFICES ASSUME KitchenInit PROVE KitchenInv
  OBVIOUS
<1> USE KitchenAssumption DEF KitchenAssumption, KitchenInit
<1>1. <<>> \in Seq(Jobs) /\ Len(<<>>) = 0
  BY EmptySeq
<1>2. worker \in BOOLEAN
  BY Zenon
<1>3. IsFiniteSet(runs) /\ Cardinality(runs) = 0
  BY FS_EmptySet
<1>4. KitchenTypeOK
  <2>1. wait \in Seq(Jobs) /\ kept \in Seq(Jobs) /\ Len(kept) <= Keep
    BY <1>1
  <2>2. job \in [Jobs -> JobStates] /\ lock \in [Jobs -> Nat] /\ taken \in [Jobs -> Nat]
        /\ stalls \in [Jobs -> 0 .. MaxStalls + 1] /\ finalized \in [Jobs -> Nat]
    BY DEF JobStates
  <2>3. runs \subseteq [job : Jobs, token : Nat \ {0}, at : Stages] /\ Cardinality(runs) <= Concurrency
    BY <1>3
  <2>4. up \subseteq Replicas /\ events \subseteq Replicas \X Jobs
        /\ crashes \in 0 .. MaxCrashes /\ lapses \in 0 .. MaxLapses
    OBVIOUS
  <2> QED BY <1>2, <2>1, <2>2, <2>3, <2>4 DEF KitchenTypeOK
<1>5. QueueSound
  <2>1. wait = <<>> /\ 1 .. Len(wait) = {}
    BY <1>1
  <2> QED BY <2>1, Sound DEF In, NoRepeats
<1>6. FinalizedOncePerReplica
  <2> SUFFICES ASSUME NEW j \in Jobs
               PROVE  /\ finalized[j] + Cardinality(Pending(j)) <= Cardinality(Replicas)
                      /\ ~(finalized[j] > 0) /\ Pending(j) = {}
    BY DEF FinalizedOncePerReplica, Pending
  <2>1. Pending(j) = {} /\ finalized[j] = 0
    BY DEF Pending
  <2>2. Cardinality(Pending(j)) = 0 /\ Cardinality(Replicas) \in Nat
    BY <2>1, FS_EmptySet, FS_CardinalityType
  <2> QED BY <2>1, <2>2
<1>7. StallsCounted
  BY <1>3 DEF StallsCounted
<1> QED BY <1>4, <1>5, <1>6, <1>7 DEF KitchenInv

LEMMA AddInv ==
  ASSUME KitchenInv, NEW j \in Jobs, Add(j)
  PROVE  KitchenInv'
<1> USE DEF KitchenInv
<1>1. /\ wait' \in Seq(Jobs) /\ NoRepeats(wait')
      /\ \A x \in Jobs : In(wait', x) <=> x = j \/ In(wait, x)
  <2>1. ~In(wait, j) /\ NoRepeats(wait) /\ wait \in Seq(Jobs)
    BY Sound DEF Add, KitchenTypeOK
  <2> QED BY <2>1, Added DEF Add
<1>2. UNCHANGED <<lock, taken, stalls, kept, runs, worker, up, events, finalized, crashes, lapses>>
  BY DEF Add, listeners, bounds
<1>3. /\ job' \in [Jobs -> JobStates]
      /\ \A x \in Jobs : job'[x] = IF x = j THEN "waiting" ELSE job[x]
      /\ job[j] = "none"
  BY DEF Add, KitchenTypeOK, JobStates
<1>4. KitchenTypeOK'
  BY <1>1, <1>2, <1>3 DEF KitchenTypeOK
<1>5. QueueSound'
  BY <1>1, <1>2, <1>3, Sound, SoundNext
<1>6. FinalizedOncePerReplica'
  BY <1>2, <1>3, FinalizedKept
<1>7. StallsCounted'
  BY <1>2, <1>3 DEF StallsCounted
<1> QED BY <1>4, <1>5, <1>6, <1>7

LEMMA TakeInv == KitchenInv /\ Take => KitchenInv'
<1> SUFFICES ASSUME KitchenInv, Take PROVE KitchenInv'
  OBVIOUS
<1> USE DEF KitchenInv
<1> DEFINE j == Head(wait)
           k == taken[j] + 1
<1>1. /\ j \in Jobs /\ In(wait, j)
      /\ wait' \in Seq(Jobs) /\ NoRepeats(wait')
      /\ \A x \in Jobs : In(wait', x) <=> x # j /\ In(wait, x)
  <2>1. NoRepeats(wait) /\ wait \in Seq(Jobs) /\ wait # <<>>
    BY Sound DEF Take, KitchenTypeOK
  <2> QED BY <2>1, Fetched DEF Take
<1>2. UNCHANGED <<stalls, kept, worker, up, events, finalized, crashes, lapses>>
  BY DEF Take, listeners, bounds
<1>3. k \in Nat \ {0}
  BY <1>1 DEF KitchenTypeOK
<1>4. /\ job' = [job EXCEPT ![j] = "active"]
      /\ taken' = [taken EXCEPT ![j] = k]
      /\ lock' = [lock EXCEPT ![j] = k]
      /\ runs' = runs \union {Run(j, k, "starting")}
      /\ Cardinality(runs) < Concurrency
  BY DEF Take
<1>5. job[j] = "waiting"
  BY <1>1, Sound
<1> HIDE DEF j, k
<1>6. /\ job' \in [Jobs -> JobStates] /\ taken' \in [Jobs -> Nat] /\ lock' \in [Jobs -> Nat]
      /\ \A x \in Jobs : /\ job'[x] = IF x = j THEN "active" ELSE job[x]
                         /\ taken'[x] = IF x = j THEN k ELSE taken[x]
                         /\ lock'[x] = IF x = j THEN k ELSE lock[x]
  BY <1>1, <1>3, <1>4 DEF KitchenTypeOK, JobStates
<1>7. /\ runs' \subseteq [job : Jobs, token : Nat \ {0}, at : Stages]
      /\ IsFiniteSet(runs') /\ Cardinality(runs') <= Concurrency
  <2>1. Run(j, k, "starting") \in [job : Jobs, token : Nat \ {0}, at : Stages]
    BY <1>1, <1>3 DEF Run, Stages
  <2>2. /\ IsFiniteSet(runs') /\ Cardinality(runs) \in Nat
        /\ Cardinality(runs') = Cardinality(runs) \/ Cardinality(runs') = Cardinality(runs) + 1
    BY <1>4, FS_AddElement, FS_CardinalityType DEF StallsCounted
  <2>3. Concurrency \in Nat
    BY KitchenAssumption DEF KitchenAssumption
  <2> QED BY <1>4, <2>1, <2>2, <2>3 DEF KitchenTypeOK
<1>8. KitchenTypeOK'
  BY <1>1, <1>2, <1>6, <1>7 DEF KitchenTypeOK
<1>9. QueueSound'
  BY <1>1, <1>6, Sound, SoundNext
<1>10. FinalizedOncePerReplica'
  BY <1>2, <1>5, <1>6, FinalizedKept
<1>11. StallsCounted'
  BY <1>2, <1>5, <1>6, <1>7 DEF StallsCounted
<1> QED BY <1>8, <1>9, <1>10, <1>11

\* A step of a run changes nothing else.
LEMMA AdvanceInv ==
  ASSUME KitchenInv, NEW r \in runs, Started(r) \/ Cooked(r) \/ Told(r)
  PROVE  KitchenInv'
<1> USE DEF KitchenInv
<1>1. PICK to \in Stages : runs' = (runs \ {r}) \union {[r EXCEPT !.at = to]}
  BY DEF Started, Cooked, Told, Advance, Stages
<1>2. UNCHANGED <<job, wait, lock, taken, stalls, kept, worker, up, events, finalized, crashes, lapses>>
  BY DEF Started, Cooked, Told, Advance, redis, listeners, bounds
<1>3. runs' \subseteq [job : Jobs, token : Nat \ {0}, at : Stages]
  BY <1>1 DEF KitchenTypeOK
<1>4. IsFiniteSet(runs') /\ Cardinality(runs') <= Cardinality(runs)
  BY <1>1, RunReplaced DEF StallsCounted
<1>5. Cardinality(runs') <= Concurrency
  <2>1. Cardinality(runs') \in Nat /\ Cardinality(runs) \in Nat /\ Concurrency \in Nat
    BY <1>4, FS_CardinalityType, KitchenAssumption DEF StallsCounted, KitchenAssumption
  <2> QED BY <1>4, <2>1 DEF KitchenTypeOK
<1>6. KitchenTypeOK'
  BY <1>2, <1>3, <1>5 DEF KitchenTypeOK
<1>7. QueueSound'
  BY <1>2, Sound, SoundNext
<1>8. FinalizedOncePerReplica'
  BY <1>2, FinalizedKept
<1>9. StallsCounted'
  BY <1>2, <1>4 DEF StallsCounted
<1> QED BY <1>6, <1>7, <1>8, <1>9

LEMMA FinishInv ==
  ASSUME KitchenInv, NEW r \in runs, Finish(r)
  PROVE  KitchenInv'
<1> USE DEF KitchenInv
<1>1. UNCHANGED <<wait, taken, stalls, worker, up, finalized, crashes, lapses>>
  BY DEF Finish, bounds
<1>2. /\ runs' \subseteq [job : Jobs, token : Nat \ {0}, at : Stages]
      /\ IsFiniteSet(runs') /\ Cardinality(runs') <= Concurrency
  <2>1. runs' = runs \ {r}
    BY DEF Finish
  <2>2. IsFiniteSet(runs') /\ Cardinality(runs') <= Cardinality(runs)
    BY <2>1, RunReplaced DEF StallsCounted
  <2>3. Cardinality(runs') \in Nat /\ Cardinality(runs) \in Nat /\ Concurrency \in Nat
    BY <2>2, FS_CardinalityType, KitchenAssumption DEF StallsCounted, KitchenAssumption
  <2> QED BY <2>1, <2>2, <2>3 DEF KitchenTypeOK
<1>3. r.job \in Jobs /\ r.token \in Nat \ {0}
  BY DEF KitchenTypeOK
\* The run lost its lock: nobody hears of it.
<1>4. CASE UNCHANGED <<job, lock, kept, events>>
  <2>1. KitchenTypeOK'
    BY <1>1, <1>2, <1>4 DEF KitchenTypeOK
  <2>2. QueueSound'
    BY <1>1, <1>4, Sound, SoundNext
  <2>3. FinalizedOncePerReplica'
    BY <1>1, <1>4, FinalizedKept
  <2>4. StallsCounted'
    BY <1>1, <1>2, <1>4 DEF StallsCounted
  <2> QED BY <2>1, <2>2, <2>3, <2>4
\* It holds the lock, so the job was active, and nobody has heard of it before.
<1>5. CASE /\ Holds(r)
           /\ job' = [job EXCEPT ![r.job] = "completed"]
           /\ lock' = [lock EXCEPT ![r.job] = 0]
           /\ kept' = Newest(Append(kept, r.job))
           /\ events' = events \union (up \X {r.job})
  <2>1. job[r.job] = "active"
    BY <1>3, <1>5, Sound DEF Holds
  <2>2. /\ job' \in [Jobs -> JobStates] /\ lock' \in [Jobs -> Nat]
        /\ \A x \in Jobs : /\ job'[x] = IF x = r.job THEN "completed" ELSE job[x]
                           /\ lock'[x] = IF x = r.job THEN 0 ELSE lock[x]
    BY <1>3, <1>5 DEF KitchenTypeOK, JobStates
  <2>3. kept' \in Seq(Jobs) /\ Len(kept') <= Keep
    BY <1>3, <1>5, KeptBounded DEF KitchenTypeOK
  <2>4. events' \subseteq Replicas \X Jobs
    BY <1>3, <1>5 DEF KitchenTypeOK
  <2>5. KitchenTypeOK'
    BY <1>1, <1>2, <2>2, <2>3, <2>4 DEF KitchenTypeOK
  <2>6. QueueSound'
    BY <1>1, <2>1, <2>2, Sound, SoundNext
  <2>7. StallsCounted'
    BY <1>1, <1>2, <2>1, <2>2 DEF StallsCounted
  <2>8. ASSUME NEW x \in Jobs
        PROVE  /\ finalized'[x] + Cardinality(Pending(x)') <= Cardinality(Replicas)
               /\ finalized'[x] > 0 \/ Pending(x)' # {} => job'[x] = "completed"
    <3>1. CASE x = r.job
      <4>1. finalized[x] = 0
        <5>1. finalized[x] \in Nat /\ ~(finalized[x] > 0)
          BY <2>1, <3>1 DEF KitchenTypeOK, FinalizedOncePerReplica
        <5> QED BY <5>1
      <4>2. IsFiniteSet(Replicas) /\ Pending(x)' \subseteq Replicas
        BY KitchenAssumption DEF KitchenAssumption, Pending
      <4>3. Cardinality(Pending(x)') <= Cardinality(Replicas) /\ Cardinality(Pending(x)') \in Nat
        BY <4>2, FS_Subset, FS_CardinalityType
      <4> QED BY <1>1, <2>2, <3>1, <4>1, <4>3
    <3>2. CASE x # r.job
      <4>1. Pending(x)' = Pending(x)
        BY <1>5, <3>2 DEF Pending
      <4> QED BY <1>1, <2>2, <3>2, <4>1 DEF FinalizedOncePerReplica, Pending
    <3> QED BY <3>1, <3>2
  <2>9. FinalizedOncePerReplica'
    BY <2>8 DEF FinalizedOncePerReplica, Pending
  <2> QED BY <2>5, <2>6, <2>7, <2>9
<1> QED BY <1>4, <1>5 DEF Finish

\* Locks go away, and with them only a run's right to complete its job.
LEMMA LockLostInv ==
  ASSUME KitchenInv, NEW j \in Jobs, LockExpires(j) \/ LockLapses(j)
  PROVE  KitchenInv'
<1> USE DEF KitchenInv
<1>1. UNCHANGED <<job, wait, taken, stalls, kept, runs, worker, up, events, finalized, crashes>>
  BY DEF LockExpires, LockLapses, listeners, bounds
<1>2. /\ lock' \in [Jobs -> Nat]
      /\ \A x \in Jobs : lock'[x] = IF x = j THEN 0 ELSE lock[x]
  <2>1. lock' = [lock EXCEPT ![j] = 0]
    BY DEF LockExpires, LockLapses
  <2>2. lock \in [Jobs -> Nat]
    BY DEF KitchenTypeOK
  <2> QED BY <2>1, <2>2
<1>3. lapses' \in 0 .. MaxLapses
  BY KitchenAssumption DEF LockExpires, LockLapses, KitchenTypeOK, KitchenAssumption, bounds
<1>4. KitchenTypeOK'
  BY <1>1, <1>2, <1>3 DEF KitchenTypeOK
<1>5. QueueSound'
  BY <1>1, <1>2, Sound, SoundNext
<1>6. FinalizedOncePerReplica'
  BY <1>1, FinalizedKept
<1>7. StallsCounted'
  BY <1>1 DEF StallsCounted
<1> QED BY <1>4, <1>5, <1>6, <1>7

LEMMA RecoverInv ==
  ASSUME KitchenInv, NEW j \in Jobs, RecoverStalled(j)
  PROVE  KitchenInv'
<1> USE DEF KitchenInv
<1>1. UNCHANGED <<lock, taken, kept, runs, worker, up, events, finalized, crashes, lapses>>
  BY DEF RecoverStalled, listeners, bounds
<1>2. job[j] = "active" /\ lock[j] = 0
  BY DEF RecoverStalled
<1>3. /\ stalls[j] \in Nat /\ stalls[j] <= MaxStalls /\ MaxStalls \in Nat
      /\ stalls' \in [Jobs -> 0 .. MaxStalls + 1]
      /\ \A x \in Jobs : stalls'[x] = IF x = j THEN stalls[j] + 1 ELSE stalls[x]
  <2>1. stalls[j] \in 0 .. MaxStalls + 1 /\ MaxStalls \in Nat
    BY KitchenAssumption DEF KitchenTypeOK, KitchenAssumption
  <2>2. stalls[j] # MaxStalls + 1
    BY <1>2 DEF StallsCounted
  <2>3. stalls[j] + 1 \in 0 .. MaxStalls + 1 /\ stalls[j] <= MaxStalls
    BY <2>1, <2>2
  <2> QED BY <2>1, <2>3 DEF RecoverStalled, KitchenTypeOK
<1>4. CASE Forgiven(j) /\ job' = [job EXCEPT ![j] = "waiting"] /\ wait' = <<j>> \o wait
  <2>1. /\ wait' \in Seq(Jobs) /\ NoRepeats(wait')
        /\ \A x \in Jobs : In(wait', x) <=> x = j \/ In(wait, x)
    <3>1. ~In(wait, j) /\ NoRepeats(wait) /\ wait \in Seq(Jobs)
      BY <1>2, Sound DEF KitchenTypeOK
    <3> QED BY <1>4, <3>1, PutBack
  <2>2. /\ job' \in [Jobs -> JobStates]
        /\ \A x \in Jobs : job'[x] = IF x = j THEN "waiting" ELSE job[x]
    BY <1>4 DEF KitchenTypeOK, JobStates
  <2>3. KitchenTypeOK'
    BY <1>1, <1>3, <2>1, <2>2 DEF KitchenTypeOK
  <2>4. QueueSound'
    BY <1>1, <1>2, <2>1, <2>2, Sound, SoundNext
  <2>5. FinalizedOncePerReplica'
    BY <1>1, <1>2, <2>2, FinalizedKept
  <2>6. stalls'[j] # MaxStalls + 1
    BY <1>3, <1>4 DEF Forgiven
  <2>7. StallsCounted'
    BY <1>1, <1>3, <2>2, <2>6 DEF StallsCounted
  <2> QED BY <2>3, <2>4, <2>5, <2>7
<1>5. CASE ~Forgiven(j) /\ job' = [job EXCEPT ![j] = "failed"] /\ wait' = wait
  <2>1. /\ job' \in [Jobs -> JobStates]
        /\ \A x \in Jobs : job'[x] = IF x = j THEN "failed" ELSE job[x]
    BY <1>5 DEF KitchenTypeOK, JobStates
  <2>2. KitchenTypeOK'
    BY <1>1, <1>3, <1>5, <2>1 DEF KitchenTypeOK
  <2>3. QueueSound'
    BY <1>1, <1>2, <1>5, <2>1, Sound, SoundNext
  <2>4. FinalizedOncePerReplica'
    BY <1>1, <1>2, <2>1, FinalizedKept
  <2>5. stalls'[j] = MaxStalls + 1
    BY <1>3, <1>5 DEF Forgiven
  <2>6. StallsCounted'
    BY <1>1, <1>3, <2>1, <2>5 DEF StallsCounted
  <2> QED BY <2>2, <2>3, <2>4, <2>6
<1> QED BY <1>4, <1>5 DEF RecoverStalled

LEMMA WorkerProcessInv ==
  ASSUME KitchenInv, Kill \/ Restart
  PROVE  KitchenInv'
<1> USE DEF KitchenInv
<1>1. UNCHANGED <<job, wait, lock, taken, stalls, kept, up, events, finalized, lapses>>
  BY DEF Kill, Restart, redis, listeners, bounds
<1>2. worker' \in BOOLEAN
  BY Zenon DEF Kill, Restart
<1>3. crashes' \in 0 .. MaxCrashes
  BY KitchenAssumption DEF Kill, Restart, bounds, KitchenTypeOK, KitchenAssumption
<1>4. /\ runs' \subseteq [job : Jobs, token : Nat \ {0}, at : Stages]
      /\ IsFiniteSet(runs') /\ Cardinality(runs') <= Concurrency
  <2>1. CASE runs' = runs BY <2>1 DEF KitchenTypeOK, StallsCounted
  <2>2. CASE runs' = {}
    BY <2>2, FS_EmptySet, KitchenAssumption DEF KitchenAssumption
  <2> QED BY <2>1, <2>2 DEF Kill, Restart
<1>5. KitchenTypeOK'
  BY <1>1, <1>2, <1>3, <1>4 DEF KitchenTypeOK
<1>6. QueueSound'
  BY <1>1, Sound, SoundNext
<1>7. FinalizedOncePerReplica'
  BY <1>1, FinalizedKept
<1>8. StallsCounted'
  BY <1>1, <1>4 DEF StallsCounted
<1> QED BY <1>5, <1>6, <1>7, <1>8

\* A listener turns a pending event into at most one finalization.
LEMMA ListenInv ==
  ASSUME KitchenInv, NEW g \in Replicas, NEW j \in Jobs, OnCompleted(g, j)
  PROVE  KitchenInv'
<1> USE DEF KitchenInv
<1>1. UNCHANGED <<job, wait, lock, taken, stalls, kept, runs, worker, up, crashes, lapses>>
  BY DEF OnCompleted, redis, bounds
<1>2. <<g, j>> \in events /\ events' = events \ {<<g, j>>}
  BY DEF OnCompleted
<1>3. /\ finalized' \in [Jobs -> Nat]
      /\ \A x \in Jobs : finalized'[x] = finalized[x] \/ (x = j /\ finalized'[x] = finalized[x] + 1)
  <2>1. finalized' = [finalized EXCEPT ![j] = @ + 1] \/ finalized' = finalized
    BY DEF OnCompleted
  <2>2. finalized \in [Jobs -> Nat]
    BY DEF KitchenTypeOK
  <2> QED BY <2>1, <2>2
<1>4. ASSUME NEW x \in Jobs
      PROVE  /\ IsFiniteSet(Pending(x)) /\ Cardinality(Pending(x)) \in Nat
             /\ Cardinality(Replicas) \in Nat
  <2>1. IsFiniteSet(Replicas) /\ Pending(x) \subseteq Replicas
    BY KitchenAssumption DEF KitchenAssumption, Pending
  <2>2. IsFiniteSet(Pending(x))
    BY <2>1, FS_Subset
  <2> QED BY <2>1, <2>2, FS_CardinalityType
<1>5. ASSUME NEW x \in Jobs
      PROVE  /\ finalized'[x] + Cardinality(Pending(x)') <= Cardinality(Replicas)
             /\ finalized'[x] > 0 \/ Pending(x)' # {} => job'[x] = "completed"
  <2>1. /\ finalized[x] + Cardinality(Pending(x)) <= Cardinality(Replicas)
        /\ finalized[x] > 0 \/ Pending(x) # {} => job[x] = "completed"
        /\ finalized[x] \in Nat
    BY DEF FinalizedOncePerReplica, Pending, KitchenTypeOK
  <2>2. CASE x = j
    <3>1. g \in Pending(x) /\ Pending(x)' = Pending(x) \ {g}
      BY <1>2, <2>2 DEF Pending
    <3>2. Cardinality(Pending(x)') = Cardinality(Pending(x)) - 1
      BY <1>4, <3>1, FS_RemoveElement
    <3> QED BY <1>1, <1>3, <1>4, <2>1, <3>1, <3>2
  <2>3. CASE x # j
    <3>1. Pending(x)' = Pending(x)
      BY <1>2, <2>3 DEF Pending
    <3> QED BY <1>1, <1>3, <2>1, <2>3, <3>1
  <2> QED BY <2>2, <2>3
<1>6. KitchenTypeOK'
  BY <1>1, <1>2, <1>3 DEF KitchenTypeOK
<1>7. QueueSound'
  BY <1>1, Sound, SoundNext
<1>8. FinalizedOncePerReplica'
  BY <1>5 DEF FinalizedOncePerReplica, Pending
<1>9. StallsCounted'
  BY <1>1 DEF StallsCounted
<1> QED BY <1>6, <1>7, <1>8, <1>9

\* What a dying replica has not handled is lost.
LEMMA ReplicaInv ==
  ASSUME KitchenInv, NEW g \in Replicas, ReplicaDies(g) \/ ReplicaStarts(g)
  PROVE  KitchenInv'
<1> USE DEF KitchenInv
<1>1. UNCHANGED <<job, wait, lock, taken, stalls, kept, runs, worker, finalized, lapses>>
  BY DEF ReplicaDies, ReplicaStarts, redis, bounds
<1>2. up' \subseteq Replicas /\ events' \subseteq events
  BY DEF ReplicaDies, ReplicaStarts, KitchenTypeOK
<1>3. crashes' \in 0 .. MaxCrashes
  BY KitchenAssumption DEF ReplicaDies, ReplicaStarts, bounds, KitchenTypeOK, KitchenAssumption
<1>4. KitchenTypeOK'
  BY <1>1, <1>2, <1>3 DEF KitchenTypeOK
<1>5. QueueSound'
  BY <1>1, Sound, SoundNext
<1>6. ASSUME NEW x \in Jobs
      PROVE  /\ finalized'[x] + Cardinality(Pending(x)') <= Cardinality(Replicas)
             /\ finalized'[x] > 0 \/ Pending(x)' # {} => job'[x] = "completed"
  <2>1. IsFiniteSet(Replicas) /\ Pending(x) \subseteq Replicas /\ Pending(x)' \subseteq Pending(x)
    BY <1>2, KitchenAssumption DEF KitchenAssumption, Pending
  <2>2. IsFiniteSet(Pending(x)) /\ IsFiniteSet(Pending(x)')
    BY <2>1, FS_Subset
  <2>3. Cardinality(Pending(x)') <= Cardinality(Pending(x))
    BY <2>1, <2>2, FS_Subset
  <2>4. Cardinality(Pending(x)') \in Nat /\ Cardinality(Pending(x)) \in Nat /\ Cardinality(Replicas) \in Nat
    BY <2>1, <2>2, FS_CardinalityType
  <2>5. /\ finalized[x] + Cardinality(Pending(x)) <= Cardinality(Replicas)
        /\ finalized[x] > 0 \/ Pending(x) # {} => job[x] = "completed"
        /\ finalized[x] \in Nat
    BY DEF FinalizedOncePerReplica, Pending, KitchenTypeOK
  <2> QED BY <1>1, <2>1, <2>3, <2>4, <2>5
<1>7. FinalizedOncePerReplica'
  BY <1>6 DEF FinalizedOncePerReplica, Pending
<1>8. StallsCounted'
  BY <1>1 DEF StallsCounted
<1> QED BY <1>4, <1>5, <1>7, <1>8

LEMMA KitchenStepInv == KitchenInv /\ [KitchenNext]_kitchen => KitchenInv'
<1> SUFFICES ASSUME KitchenInv, [KitchenNext]_kitchen PROVE KitchenInv'
  OBVIOUS
<1>1. CASE Worker
  BY <1>1, TakeInv, AdvanceInv, FinishInv, WorkerProcessInv DEF Worker
<1>2. CASE HubAnswers
  BY <1>2, AdvanceInv DEF HubAnswers
<1>3. ASSUME NEW j \in Jobs, Add(j) \/ Bull(j) \/ LockLapses(j) PROVE KitchenInv'
  BY <1>3, AddInv, LockLostInv, RecoverInv DEF Bull
<1>4. ASSUME NEW g \in Replicas, ReplicaDies(g) \/ ReplicaStarts(g) PROVE KitchenInv'
  BY <1>4, ReplicaInv
<1>5. CASE UNCHANGED kitchen
  <2>1. UNCHANGED <<job, wait, lock, taken, stalls, kept, runs, worker, up, events, finalized, crashes, lapses>>
    BY <1>5 DEF kitchen, redis, listeners, bounds
  <2>2. QueueSound'
    BY <2>1, Sound, SoundNext DEF KitchenInv
  <2>3. FinalizedOncePerReplica'
    BY <2>1, FinalizedKept
  <2> QED BY <2>1, <2>2, <2>3 DEF KitchenInv, KitchenTypeOK, StallsCounted
<1> QED BY <1>1, <1>2, <1>3, <1>4, <1>5, WorkerProcessInv, ListenInv DEF KitchenNext

LEMMA KitchenCorrect == KitchenSpec => []KitchenInv
<1> QED BY KitchenInitInv, KitchenStepInv, PTL DEF KitchenSpec

-----------------------------------------------------------------------------
(* Refinement: a job in Redis is a job of JobQueue.                        *)

LEMMA KitchenInitRefines == KitchenInit => Abs!QueueInit
BY DEF KitchenInit, Abs!QueueInit, InQueue

\* What moves no job to another state of JobQueue, and finds none stalled, is a stutter.
LEMMA Unmoved ==
  ASSUME stalls' = stalls, \A j \in Jobs : InQueue(job'[j]) = InQueue(job[j])
  PROVE  UNCHANGED Abs!queue
BY DEF Abs!queue

\* One job moves.
LEMMA Moved ==
  ASSUME NEW j \in Jobs, NEW s, job \in [Jobs -> JobStates], job' = [job EXCEPT ![j] = s]
  PROVE  [x \in Jobs |-> InQueue(job'[x])] =
           [[x \in Jobs |-> InQueue(job[x])] EXCEPT ![j] = InQueue(s)]
<1>1. \A x \in Jobs : job'[x] = IF x = j THEN s ELSE job[x]
  OBVIOUS
<1> QED BY <1>1

LEMMA KitchenStepRefines ==
  KitchenInv /\ [KitchenNext]_kitchen => [Abs!QueueNext]_(Abs!queue)
<1> SUFFICES ASSUME KitchenInv, [KitchenNext]_kitchen
             PROVE  Abs!QueueNext \/ UNCHANGED Abs!queue
  OBVIOUS
<1> USE DEF KitchenInv
<1>0. job \in [Jobs -> JobStates] /\ stalls \in [Jobs -> 0 .. MaxStalls + 1]
  BY DEF KitchenTypeOK
<1>1. ASSUME job' = job, stalls' = stalls PROVE UNCHANGED Abs!queue
  BY <1>1, Unmoved
<1>2. ASSUME NEW j \in Jobs, Add(j) PROVE Abs!QueueNext
  <2>1. [x \in Jobs |-> InQueue(job'[x])] = [[x \in Jobs |-> InQueue(job[x])] EXCEPT ![j] = "queued"]
    <3>1. InQueue("waiting") = "queued"
      BY DEF InQueue
    <3> QED BY <1>0, <1>2, <3>1, Moved DEF Add
  <2>2. [x \in Jobs |-> InQueue(job[x])][j] = "none" /\ stalls' = stalls
    BY <1>2 DEF Add, InQueue
  <2>3. Abs!Add(j)
    BY <2>1, <2>2 DEF Abs!Add
  <2> QED BY <2>3 DEF Abs!QueueNext
<1>3. CASE Take
  <2>1. Head(wait) \in Jobs /\ In(wait, Head(wait))
    BY <1>3, Fetched, Sound DEF Take, KitchenTypeOK
  <2>2. job[Head(wait)] = "waiting"
    BY <2>1, Sound
  <2>3. job' = [job EXCEPT ![Head(wait)] = "active"] /\ stalls' = stalls
    BY <1>3 DEF Take
  <2>4. \A x \in Jobs : job'[x] = job[x] \/ (job[x] = "waiting" /\ job'[x] = "active")
    BY <1>0, <2>1, <2>2, <2>3
  <2>5. \A x \in Jobs : InQueue(job'[x]) = InQueue(job[x])
    BY <2>4 DEF InQueue
  <2> QED BY <2>3, <2>5, Unmoved
<1>4. ASSUME NEW r \in runs, Started(r) \/ Cooked(r) \/ Told(r) PROVE UNCHANGED Abs!queue
  BY <1>1, <1>4 DEF Started, Cooked, Told, Advance, redis
<1>5. ASSUME NEW r \in runs, Finish(r) PROVE Abs!QueueNext \/ UNCHANGED Abs!queue
  <2>1. CASE job' = job
    BY <1>1, <1>5, <2>1 DEF Finish
  <2>2. CASE Holds(r) /\ job' = [job EXCEPT ![r.job] = "completed"]
    <3>1. r.job \in Jobs /\ job[r.job] = "active" /\ stalls' = stalls
      <4>1. r.job \in Jobs /\ r.token \in Nat \ {0}
        BY DEF KitchenTypeOK
      <4> QED BY <1>5, <2>2, <4>1, Sound DEF Holds, Finish
    <3>2. [x \in Jobs |-> InQueue(job'[x])] = [[x \in Jobs |-> InQueue(job[x])] EXCEPT ![r.job] = "done"]
      <4>1. InQueue("completed") = "done"
        BY DEF InQueue
      <4> QED BY <1>0, <2>2, <3>1, <4>1, Moved
    <3>3. [x \in Jobs |-> InQueue(job[x])][r.job] = "queued"
      BY <3>1 DEF InQueue
    <3>4. Abs!Done(r.job)
      BY <3>1, <3>2, <3>3 DEF Abs!Done
    <3> QED BY <3>1, <3>4 DEF Abs!QueueNext
  <2> QED BY <1>5, <2>1, <2>2 DEF Finish
<1>6. ASSUME NEW j \in Jobs, RecoverStalled(j) PROVE Abs!QueueNext
  <2>1. [x \in Jobs |-> InQueue(job[x])][j] = "queued" /\ stalls' = [stalls EXCEPT ![j] = @ + 1]
    BY <1>6 DEF RecoverStalled, InQueue
  <2>2. [x \in Jobs |-> InQueue(job'[x])] =
          [[x \in Jobs |-> InQueue(job[x])] EXCEPT ![j] = IF stalls[j] < MaxStalls THEN "queued" ELSE "lost"]
    <3>1. InQueue("waiting") = "queued" /\ InQueue("failed") = "lost"
      BY DEF InQueue
    <3>2. CASE Forgiven(j) /\ job' = [job EXCEPT ![j] = "waiting"]
      BY <1>0, <3>1, <3>2, Moved DEF Forgiven
    <3>3. CASE ~Forgiven(j) /\ job' = [job EXCEPT ![j] = "failed"]
      BY <1>0, <3>1, <3>3, Moved DEF Forgiven
    <3> QED BY <1>6, <3>2, <3>3 DEF RecoverStalled
  <2>3. Abs!Stall(j)
    BY <2>1, <2>2 DEF Abs!Stall
  <2> QED BY <2>3 DEF Abs!QueueNext
<1>7. ASSUME NEW j \in Jobs, LockExpires(j) \/ LockLapses(j) PROVE UNCHANGED Abs!queue
  BY <1>1, <1>7 DEF LockExpires, LockLapses
<1>8. CASE Kill \/ Restart
  BY <1>1, <1>8 DEF Kill, Restart, redis
<1>9. ASSUME NEW g \in Replicas, NEW j \in Jobs, OnCompleted(g, j) PROVE UNCHANGED Abs!queue
  BY <1>1, <1>9 DEF OnCompleted, redis
<1>10. ASSUME NEW g \in Replicas, ReplicaDies(g) \/ ReplicaStarts(g) PROVE UNCHANGED Abs!queue
  BY <1>1, <1>10 DEF ReplicaDies, ReplicaStarts, redis
<1>11. CASE UNCHANGED kitchen
  BY <1>1, <1>11 DEF kitchen, redis
<1>12. CASE Worker
  BY <1>3, <1>4, <1>5, <1>8, <1>12 DEF Worker
<1>13. CASE HubAnswers
  BY <1>4, <1>13 DEF HubAnswers
<1> QED BY <1>2, <1>6, <1>7, <1>8, <1>9, <1>10, <1>11, <1>12, <1>13 DEF KitchenNext, Bull

\* Kills, lapsed locks, second runs of a job and completions that come too late: to the
\* saga the kitchen is a queue that keeps a job until it is done or has stalled too often.
THEOREM KitchenImplementsQueue == KitchenSpec => ImplementsJobQueue
<1> QED BY KitchenInitRefines, KitchenStepRefines, KitchenCorrect, PTL
     DEF KitchenSpec, ImplementsJobQueue, Abs!QueueSpec

\* Redis, the worker and the listeners keep their types and limits.
THEOREM KitchenTypesKept == KitchenSpec => []KitchenTypeOK
<1>1. KitchenInv => KitchenTypeOK
  BY DEF KitchenInv
<1> QED BY <1>1, KitchenCorrect, PTL

\* The waiting list and the locks always agree with the jobs' states.
THEOREM QueueAlwaysSound == KitchenSpec => []QueueSound
<1>1. KitchenInv => QueueSound
  BY DEF KitchenInv
<1> QED BY <1>1, KitchenCorrect, PTL

\* However often a job is cooked, each replica finalizes its order at most once.
THEOREM FinalizedOnce == KitchenSpec => []FinalizedOncePerReplica
<1>1. KitchenInv => FinalizedOncePerReplica
  BY DEF KitchenInv
<1> QED BY <1>1, KitchenCorrect, PTL

\* A job is given up exactly when its worker was lost with it once more than BullMQ forgives:
\* no kill or lapsed lock short of that loses an order's job, and no job stalls further.
THEOREM KitchenLosesByStalls == KitchenSpec => []Abs!LostByStalls
<1>1. KitchenInv => Abs!LostByStalls
  <2> SUFFICES ASSUME KitchenInv, NEW j \in Jobs
               PROVE  /\ InQueue(job[j]) \in {"none", "queued", "done", "lost"}
                      /\ stalls[j] \in 0 .. MaxStalls + 1
                      /\ InQueue(job[j]) = "lost" <=> stalls[j] = MaxStalls + 1
    BY DEF Abs!LostByStalls
  <2>1. job[j] \in JobStates /\ stalls[j] \in 0 .. MaxStalls + 1
    BY DEF KitchenInv, KitchenTypeOK
  <2>2. job[j] = "failed" <=> stalls[j] = MaxStalls + 1
    BY DEF KitchenInv, StallsCounted
  <2>3. /\ InQueue(job[j]) \in {"none", "queued", "done", "lost"}
        /\ InQueue(job[j]) = "lost" <=> job[j] = "failed"
    BY <2>1 DEF InQueue, JobStates
  <2> QED BY <2>1, <2>2, <2>3
<1> QED BY <1>1, KitchenCorrect, PTL
=============================================================================
