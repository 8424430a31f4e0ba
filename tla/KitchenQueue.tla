----------------------------- MODULE KitchenQueue -----------------------------
(***************************************************************************)
(* kitchen-queue's worker and the BullMQ queue it shares with the order    *)
(* gateways: what Redis keeps of each job, the runs of processOrder in the *)
(* worker's memory, locks that expire when the worker is killed or cut off *)
(* from Redis, and the gateways' completion listeners.                     *)
(***************************************************************************)
EXTENDS Naturals, Sequences, FiniteSets

CONSTANTS
  Jobs,        \* kitchen jobs, one per accepted order
  Replicas,    \* order-gateway processes, each with a completion listener
  Concurrency, \* runs a worker has at a time (10 in the code)
  Keep,        \* completed jobs whose data Redis keeps (100 in the code)
  MaxStalls,   \* stalls a job is forgiven (BullMQ's default, 1)
  MaxCrashes,  \* bound: kills of the worker or of a replica in one behaviour
  MaxLapses    \* bound: locks lost by a living run in one behaviour

ASSUME KitchenAssumption ==
  /\ IsFiniteSet(Jobs) /\ IsFiniteSet(Replicas)
  /\ Concurrency \in Nat \ {0} /\ Keep \in Nat \ {0}
  /\ {MaxStalls, MaxCrashes, MaxLapses} \subseteq Nat

VARIABLES
  job,       \* the state of each job in Redis
  wait,      \* waiting jobs, the next one first
  lock,      \* the run that holds a job's lock, 0 if none does
  taken,     \* how often each job has been handed to the worker
  stalls,    \* how often it has been found without a lock
  kept,      \* completed jobs with their data, newest last
  runs,      \* processOrder calls in the worker's memory, with what each awaits
  worker,    \* the worker's process runs
  up,        \* the running replicas
  events,    \* 'completed' events a replica has received and not handled
  finalized, \* how often a job's order has been finalized
  crashes, lapses \* counters of the bounds

redis == <<job, wait, lock, taken, stalls, kept>>
listeners == <<up, events, finalized>>
bounds == <<crashes, lapses>>
kitchen == <<redis, runs, worker, listeners, bounds>>

JobStates == {"none", "waiting", "active", "completed", "failed"}
Stages == {"starting", "cooking", "telling", "done"}

KitchenInit ==
  /\ job = [j \in Jobs |-> "none"] /\ wait = <<>>
  /\ lock = [j \in Jobs |-> 0] /\ taken = [j \in Jobs |-> 0]
  /\ stalls = [j \in Jobs |-> 0] /\ kept = <<>>
  /\ runs = {} /\ worker = TRUE
  /\ up = Replicas /\ events = {}
  /\ finalized = [j \in Jobs |-> 0]
  /\ crashes = 0 /\ lapses = 0

-----------------------------------------------------------------------------
(* The gateway adds; the worker takes, cooks and reports.                  *)

\* kitchenQueue.add in placeOrder.
Add(j) ==
  /\ job[j] = "none"
  /\ job' = [job EXCEPT ![j] = "waiting"]
  /\ wait' = Append(wait, j)
  /\ UNCHANGED <<lock, taken, stalls, kept, runs, worker, listeners, bounds>>

Run(j, k, at) == [job |-> j, token |-> k, at |-> at]

\* The worker fetches the next job while one of its slots is free.
Take ==
  /\ worker /\ wait # <<>> /\ Cardinality(runs) < Concurrency
  /\ LET j == Head(wait)
         k == taken[j] + 1
     IN  /\ job' = [job EXCEPT ![j] = "active"]
         /\ taken' = [taken EXCEPT ![j] = k]
         /\ lock' = [lock EXCEPT ![j] = k]
         /\ runs' = runs \union {Run(j, k, "starting")}
  /\ wait' = Tail(wait)
  /\ UNCHANGED <<stalls, kept, worker, listeners, bounds>>

Advance(r, from, to) ==
  /\ r \in runs /\ r.at = from
  /\ runs' = (runs \ {r}) \union {[r EXCEPT !.at = to]}
  /\ UNCHANGED <<redis, worker, listeners, bounds>>

\* processOrder: the chaos delay and the first notification, which has no timeout and
\* whose failure is ignored; the cooking; the second notification, likewise.
Started(r) == Advance(r, "starting", "cooking")
Cooked(r) == Advance(r, "cooking", "telling")
Told(r) == Advance(r, "telling", "done")

Newest(q) == IF Len(q) > Keep THEN Tail(q) ELSE q

HoldsOrHeld(r) == lock[r.job] <= r.token       \* fault: a lost lock is not noticed
Holds(r) == lock[r.job] = r.token

\* BullMQ records the completion if the run still holds the lock, keeps the data of
\* the newest completed jobs and tells every replica that listens.
Finish(r) ==
  /\ r \in runs /\ r.at = "done"
  /\ runs' = runs \ {r}
  /\ \/ /\ Holds(r)
        /\ job' = [job EXCEPT ![r.job] = "completed"]
        /\ lock' = [lock EXCEPT ![r.job] = 0]
        /\ kept' = Newest(Append(kept, r.job))
        /\ events' = events \union (up \X {r.job})
     \/ /\ ~Holds(r)
        /\ UNCHANGED <<job, lock, kept, events>>
  /\ UNCHANGED <<wait, taken, stalls, worker, up, finalized, bounds>>

-----------------------------------------------------------------------------
(* Faults and what brings jobs back.                                       *)

\* A lock nobody renews: its run died with the process.
Abandoned(j) == lock[j] # 0 /\ \A r \in runs : ~(r.job = j /\ Holds(r))

LockExpires(j) ==
  /\ job[j] = "active" /\ Abandoned(j)
  /\ lock' = [lock EXCEPT ![j] = 0]
  /\ UNCHANGED <<job, wait, taken, stalls, kept, runs, worker, listeners, bounds>>

\* The worker is cut off from Redis for longer than a lock lives; its run goes on.
LockLapses(j) ==
  /\ lapses < MaxLapses /\ lapses' = lapses + 1
  /\ lock[j] # 0 /\ ~Abandoned(j)
  /\ lock' = [lock EXCEPT ![j] = 0]
  /\ UNCHANGED <<job, wait, taken, stalls, kept, runs, worker, listeners, crashes>>

ForgivenOnceMore(j) == stalls[j] <= MaxStalls  \* fault: off by one
Forgiven(j) == stalls[j] < MaxStalls

\* Fault: nobody looks for stalled jobs.
NotRecovered(j) == FALSE /\ UNCHANGED kitchen

\* The worker's periodic check of active jobs without a lock.
RecoverStalled(j) ==
  /\ worker /\ job[j] = "active" /\ lock[j] = 0
  /\ stalls' = [stalls EXCEPT ![j] = @ + 1]
  /\ \/ /\ Forgiven(j)
        /\ job' = [job EXCEPT ![j] = "waiting"]
        /\ wait' = <<j>> \o wait
     \/ /\ ~Forgiven(j)
        /\ job' = [job EXCEPT ![j] = "failed"]
        /\ UNCHANGED wait
  /\ UNCHANGED <<lock, taken, kept, runs, worker, listeners, bounds>>

\* POST /kill, or a killed container; it is restarted.
Kill ==
  /\ worker /\ worker' = FALSE
  /\ crashes < MaxCrashes /\ crashes' = crashes + 1
  /\ runs' = {}
  /\ UNCHANGED <<redis, listeners, lapses>>

Restart ==
  /\ ~worker /\ worker' = TRUE
  /\ UNCHANGED <<redis, runs, listeners, bounds>>

-----------------------------------------------------------------------------
(* The completion listeners of the gateways.                               *)

\* getJob finds the data of a kept job only; then finalizeOrder runs.
OnCompleted(g, j) ==
  /\ <<g, j>> \in events
  /\ events' = events \ {<<g, j>>}
  /\ finalized' = IF \E k \in 1 .. Len(kept) : kept[k] = j
                  THEN [finalized EXCEPT ![j] = @ + 1] ELSE finalized
  /\ UNCHANGED <<redis, runs, worker, up, bounds>>

\* A replica that starts hears only of completions from then on.
ReplicaDies(g) ==
  /\ g \in up /\ up' = up \ {g}
  /\ crashes < MaxCrashes /\ crashes' = crashes + 1
  /\ events' = {e \in events : e[1] # g}
  /\ UNCHANGED <<redis, runs, worker, finalized, lapses>>

ReplicaStarts(g) ==
  /\ g \notin up /\ up' = up \union {g}
  /\ UNCHANGED <<redis, runs, worker, events, finalized, bounds>>

-----------------------------------------------------------------------------
Worker == Take \/ (\E r \in runs : Cooked(r) \/ Finish(r)) \/ Restart
Bull(j) == LockExpires(j) \/ RecoverStalled(j)
HubAnswers == \E r \in runs : Started(r) \/ Told(r)

KitchenNext ==
  \/ Worker \/ HubAnswers \/ Kill
  \/ \E j \in Jobs : Add(j) \/ Bull(j) \/ LockLapses(j)
  \/ \E g \in Replicas, j \in Jobs : OnCompleted(g, j)
  \/ \E g \in Replicas : ReplicaDies(g) \/ ReplicaStarts(g)

KitchenSpec == KitchenInit /\ [][KitchenNext]_kitchen

\* Redis, the worker's timers, the restart policy and the listeners keep going, and
\* notification-hub answers, or its connections fail: the worker's calls to it have no
\* timeout.
KitchenFairSpec ==
  /\ KitchenSpec
  /\ WF_kitchen(Take) /\ WF_kitchen(Restart)
  /\ \A j \in Jobs :
       /\ WF_kitchen(Bull(j))
       /\ WF_kitchen(\E r \in runs : r.job = j /\ (Cooked(r) \/ Finish(r)))
       /\ WF_kitchen(\E r \in runs : r.job = j /\ (Started(r) \/ Told(r)))
       /\ \A g \in Replicas : WF_kitchen(OnCompleted(g, j))

-----------------------------------------------------------------------------
\* Every variable keeps its type; runs and stalls stay within their limits.
KitchenTypeOK ==
  /\ job \in [Jobs -> JobStates]
  /\ wait \in Seq(Jobs) /\ kept \in Seq(Jobs) /\ Len(kept) <= Keep
  /\ lock \in [Jobs -> Nat] /\ taken \in [Jobs -> Nat]
  /\ stalls \in [Jobs -> 0 .. MaxStalls + 1]
  /\ runs \subseteq [job : Jobs, token : Nat \ {0}, at : Stages]
  /\ Cardinality(runs) <= Concurrency
  /\ worker \in BOOLEAN /\ up \subseteq Replicas
  /\ events \subseteq Replicas \X Jobs
  /\ finalized \in [Jobs -> Nat]
  /\ crashes \in 0 .. MaxCrashes /\ lapses \in 0 .. MaxLapses

NoRepeats(q) == \A i, k \in 1 .. Len(q) : q[i] = q[k] => i = k

\* Through kills, lapsed locks and recoveries a waiting job is in the list once, and a
\* lock belongs to the newest run of an active job.
QueueSound ==
  /\ NoRepeats(wait)
  /\ \A j \in Jobs : job[j] = "waiting" <=> \E i \in 1 .. Len(wait) : wait[i] = j
  /\ \A j \in Jobs :
       lock[j] # 0 => job[j] = "active" /\ lock[j] = taken[j]

\* An order is finalized, and OrderCompleted logged, at most once by each replica, however
\* often its job was cooked, and never before its job is completed.
FinalizedOncePerReplica ==
  \A j \in Jobs :
    LET pending == {g \in Replicas : <<g, j>> \in events}
    IN  /\ finalized[j] + Cardinality(pending) <= Cardinality(Replicas)
        /\ finalized[j] > 0 \/ pending # {} => job[j] = "completed"

\* The queue the saga relies on.
InQueue(state) ==
  CASE state \in {"waiting", "active"} -> "queued"
    [] state = "completed" -> "done"
    [] state = "failed" -> "lost"
    [] OTHER -> "none"
Abs == INSTANCE JobQueue WITH job <- [j \in Jobs |-> InQueue(job[j])], stalls <- stalls

\* Two runs of one job, late completions and recoveries are one job of JobQueue.
ImplementsJobQueue == Abs!QueueSpec

\* Every job that waits is cooked or given up, through kills and lapsed locks.
EveryJobEnds ==
  \A j \in Jobs : job[j] = "waiting" ~> job[j] \in {"completed", "failed"}
=============================================================================
