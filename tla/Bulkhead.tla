------------------------------- MODULE Bulkhead -------------------------------
(***************************************************************************)
(* What breaker and bulkhead of each replica promise placeOrder: a call is *)
(* refused, and then its action never runs, or its action is run once; the *)
(* caller hears of it at most once and may be told to give up before; and  *)
(* no replica runs more than Slots actions, given-up ones included.        *)
(***************************************************************************)
EXTENDS Naturals, FiniteSets

CONSTANTS
  Calls,     \* callers, each with one call at a time
  Replicas,  \* processes with a breaker and a bulkhead
  ReplicaOf, \* [Calls -> Replicas]
  Slots      \* actions a replica runs at a time

VARIABLES
  heard,     \* what each caller has heard of its call
  action     \* where the action of each call is

calls == <<heard, action>>

Of(r) == {c \in Calls : ReplicaOf[c] = r}
RunningAt(r) == {c \in Of(r) : action[c] = "running"}

CallsInit ==
  /\ heard = [c \in Calls |-> "nothing"]
  /\ action = [c \in Calls |-> "none"]

Admit(c) ==
  /\ heard[c] = "nothing" /\ action[c] = "none"
  /\ heard' = [heard EXCEPT ![c] = "waiting"]
  /\ action' = [action EXCEPT ![c] = "queued"]

Refuse(c) ==
  /\ heard[c] = "nothing" /\ action[c] = "none"
  /\ heard' = [heard EXCEPT ![c] = "over"]
  /\ UNCHANGED action

GiveUp(c) ==
  /\ heard[c] = "waiting"
  /\ heard' = [heard EXCEPT ![c] = "over"]
  /\ UNCHANGED action

Start(c) ==
  /\ action[c] = "queued"
  /\ Cardinality(RunningAt(ReplicaOf[c])) < Slots
  /\ action' = [action EXCEPT ![c] = "running"]
  /\ UNCHANGED heard

\* The caller hears of it if it still waits.
End(c) ==
  /\ action[c] = "running"
  /\ action' = [action EXCEPT ![c] = "none"]
  /\ heard' = [heard EXCEPT ![c] = IF @ = "waiting" THEN "over" ELSE @]

Again(c) ==
  /\ heard[c] = "over" /\ action[c] = "none"
  /\ heard' = [heard EXCEPT ![c] = "nothing"]
  /\ UNCHANGED action

\* The replica dies: its actions end, and its callers wait no more.
Stop(r) ==
  /\ action' = [c \in Calls |-> IF c \in Of(r) THEN "none" ELSE action[c]]
  /\ \E S \in SUBSET Of(r) :
       /\ \A c \in Of(r) \ S : heard[c] # "waiting"
       /\ heard' = [c \in Calls |-> IF c \in S THEN "over" ELSE heard[c]]

CallsNext ==
  \/ \E c \in Calls : Admit(c) \/ Refuse(c) \/ GiveUp(c) \/ Start(c) \/ End(c) \/ Again(c)
  \/ \E r \in Replicas : Stop(r)

CallsSpec == CallsInit /\ [][CallsNext]_calls
=============================================================================
