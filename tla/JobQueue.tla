------------------------------- MODULE JobQueue -------------------------------
(***************************************************************************)
(* What the kitchen's queue promises to the saga: a job that was added     *)
(* stays in the queue until it is done, and is given up only after it has  *)
(* stalled once more than it is forgiven.  Nothing is done twice.          *)
(***************************************************************************)
EXTENDS Naturals

CONSTANTS
  Jobs,      \* kitchen jobs, one per accepted order
  MaxStalls  \* stalls a job is forgiven (BullMQ's default, 1)

VARIABLES
  job,       \* where each job is
  stalls     \* how often it has lost its worker

queue == <<job, stalls>>

QueueInit ==
  /\ job = [j \in Jobs |-> "none"]
  /\ stalls = [j \in Jobs |-> 0]

Add(j) ==
  /\ job[j] = "none"
  /\ job' = [job EXCEPT ![j] = "queued"]
  /\ UNCHANGED stalls

Done(j) ==
  /\ job[j] = "queued"
  /\ job' = [job EXCEPT ![j] = "done"]
  /\ UNCHANGED stalls

\* A worker was lost with the job: it is queued again, or given up.
Stall(j) ==
  /\ job[j] = "queued"
  /\ stalls' = [stalls EXCEPT ![j] = @ + 1]
  /\ job' = [job EXCEPT ![j] = IF stalls[j] < MaxStalls THEN "queued" ELSE "lost"]

QueueNext == \E j \in Jobs : Add(j) \/ Done(j) \/ Stall(j)

QueueSpec == QueueInit /\ [][QueueNext]_queue

-----------------------------------------------------------------------------
\* A job is given up exactly when it has stalled more often than it is forgiven.
LostByStalls ==
  \A j \in Jobs :
    /\ job[j] \in {"none", "queued", "done", "lost"}
    /\ stalls[j] \in 0 .. MaxStalls + 1
    /\ job[j] = "lost" <=> stalls[j] = MaxStalls + 1
=============================================================================
