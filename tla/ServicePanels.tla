---------------------------- MODULE ServicePanels ----------------------------
(***************************************************************************)
(* The dashboard's service panel and its kitchen slowdown panel (App.tsx). *)
(* Every 3 s each service's /health is asked, and the panel is set when    *)
(* all have answered or 3 s have passed; every 5 s the kitchen's mode is   *)
(* read, and two buttons switch it.  Polls overlap and end in any order.   *)
(***************************************************************************)
EXTENDS Page

CONSTANTS
  Services,    \* gateway, stock, kitchen
  kitchen,     \* kitchen-queue, which keeps its mode in memory
  HealthPolls, \* health polls under way at a time
  ChaosPolls   \* polls of the mode under way at a time

ASSUME PanelsAssumption == kitchen \in Services

VARIABLES
  alive,        \* services that answer at present
  mode,         \* kitchen-queue's mode, chaosDelayMs > 0 being SLOW
  poll,         \* the answers each health poll has so far, or Off
  services,     \* what the panel shows of each service
  chaosPoll,    \* each mode poll: not under way, asked, or answered with a mode
  trigger,      \* the switch: not under way, asked for a mode, or answered
  chaosMode,    \* the mode the panel shows
  chaosLoading  \* the panel's buttons wait for an answer

backend == <<alive, mode>>
health == <<poll, services>>
chaos == <<chaosPoll, trigger, chaosMode, chaosLoading>>
panels == <<backend, health, chaos, loggedIn>>

Modes == {"NORMAL", "SLOW"}
Off == [s \in Services |-> "off"]
Asked == [s \in Services |-> "asked"]
None == [at |-> "off"]
Call(at, m) == [at |-> at, mode |-> m]

PanelsInit ==
  /\ alive = Services /\ mode = "NORMAL"
  /\ poll = [p \in HealthPolls |-> Off]
  /\ services = [s \in Services |-> "CHECKING"]
  /\ chaosPoll = [p \in ChaosPolls |-> None] /\ trigger = None
  /\ chaosMode = "NORMAL" /\ chaosLoading = FALSE
  /\ loggedIn = FALSE

-----------------------------------------------------------------------------
(* The service panel.                                                      *)

\* poll(), at first and at every interval.
Poll(p) ==
  /\ poll[p] = Off
  /\ poll' = [poll EXCEPT ![p] = Asked]
  /\ UNCHANGED <<backend, services, chaos, loggedIn>>

\* A service answers, or its request fails or times out.
Answer(p, s) ==
  /\ poll[p][s] = "asked"
  /\ poll' = [poll EXCEPT ![p][s] = IF s \in alive THEN "UP" ELSE "DOWN"]
  /\ UNCHANGED <<backend, services, chaos, loggedIn>>

\* Fault: Promise.race for Promise.all.
SomeAnswered(p) == \E s \in Services : poll[p][s] \in {"UP", "DOWN"}
AllAnswered(p) == \A s \in Services : poll[p][s] \in {"UP", "DOWN"}

\* Fault: a service that is down is left as it was shown.
MergedDown(p) ==
  [s \in Services |-> IF services[s] = "DOWN" THEN "DOWN" ELSE poll[p][s]]
Updated(p) == poll[p]

\* Promise.all has its answers; an older poll may end last.
Show(p) ==
  /\ AllAnswered(p)
  /\ services' = Updated(p)
  /\ poll' = [poll EXCEPT ![p] = Off]
  /\ UNCHANGED <<backend, chaos, loggedIn>>

anyDown == \E s \in Services : services[s] = "DOWN"

-----------------------------------------------------------------------------
(* The slowdown panel.                                                     *)

\* The effect starts, and its interval fires, while a student is logged in.
ChaosPoll(p) ==
  /\ loggedIn /\ chaosPoll[p] = None
  /\ chaosPoll' = [chaosPoll EXCEPT ![p] = [at |-> "asked"]]
  /\ UNCHANGED <<backend, health, trigger, chaosMode, chaosLoading, loggedIn>>

\* GET /chaos.
ChaosAnswer(p) ==
  /\ chaosPoll[p].at = "asked" /\ kitchen \in alive
  /\ chaosPoll' = [chaosPoll EXCEPT ![p] = Call("answered", mode)]
  /\ UNCHANGED <<backend, health, trigger, chaosMode, chaosLoading, loggedIn>>

\* Fault: an answer never puts the panel back to NORMAL.
ShownOnlySlow(p) == IF chaosPoll[p].mode = "SLOW" THEN "SLOW" ELSE chaosMode
ModeShown(p) == chaosPoll[p].mode

\* The answer is shown, also after a logout and however late.
ChaosShow(p) ==
  /\ chaosPoll[p].at = "answered"
  /\ chaosMode' = ModeShown(p)
  /\ chaosPoll' = [chaosPoll EXCEPT ![p] = None]
  /\ UNCHANGED <<backend, health, trigger, chaosLoading, loggedIn>>

ChaosFails(p) ==
  /\ chaosPoll[p].at = "asked"
  /\ chaosPoll' = [chaosPoll EXCEPT ![p] = None]
  /\ UNCHANGED <<backend, health, trigger, chaosMode, chaosLoading, loggedIn>>

\* A click on one of the two buttons.
triggerChaos(m) ==
  /\ loggedIn /\ ~chaosLoading /\ chaosMode # m
  /\ chaosLoading' = TRUE
  /\ trigger' = Call("asked", m)
  /\ UNCHANGED <<backend, health, chaosPoll, chaosMode, loggedIn>>

\* POST /chaos.
Switch ==
  /\ trigger.at = "asked" /\ kitchen \in alive
  /\ mode' = trigger.mode
  /\ trigger' = Call("answered", trigger.mode)
  /\ UNCHANGED <<alive, health, chaosPoll, chaosMode, chaosLoading, loggedIn>>

Switched ==
  /\ trigger.at = "answered"
  /\ chaosMode' = trigger.mode /\ chaosLoading' = FALSE
  /\ trigger' = None
  /\ UNCHANGED <<backend, health, chaosPoll, loggedIn>>

\* Fault: only an answer frees the buttons.
SwitchFailsLocked ==
  /\ trigger.at # "off"
  /\ trigger' = None
  /\ UNCHANGED <<backend, health, chaosPoll, chaosMode, chaosLoading, loggedIn>>

\* The kitchen is not reached, or its answer is lost.
SwitchFails ==
  /\ trigger.at # "off"
  /\ chaosLoading' = FALSE
  /\ trigger' = None
  /\ UNCHANGED <<backend, health, chaosPoll, chaosMode, loggedIn>>

-----------------------------------------------------------------------------
(* The services, other pages and the student.                              *)

\* A kitchen that dies forgets its mode.
Fall(s) ==
  /\ s \in alive /\ alive' = alive \ {s}
  /\ mode' = IF s = kitchen THEN "NORMAL" ELSE mode
  /\ UNCHANGED <<health, chaos, loggedIn>>

Recover(s) ==
  /\ s \notin alive /\ alive' = alive \union {s}
  /\ UNCHANGED <<mode, health, chaos, loggedIn>>

OtherSwitch(m) ==
  /\ kitchen \in alive /\ mode # m /\ mode' = m
  /\ UNCHANGED <<alive, health, chaos, loggedIn>>

LogInOut ==
  /\ loggedIn' = ~loggedIn
  /\ UNCHANGED <<backend, health, chaos>>

PanelsNext ==
  \/ \E p \in HealthPolls : Poll(p) \/ Show(p) \/ \E s \in Services : Answer(p, s)
  \/ \E p \in ChaosPolls : ChaosPoll(p) \/ ChaosAnswer(p) \/ ChaosShow(p) \/ ChaosFails(p)
  \/ \E m \in Modes : triggerChaos(m) \/ OtherSwitch(m)
  \/ Switch \/ Switched \/ SwitchFails \/ LogInOut
  \/ \E s \in Services : Fall(s) \/ Recover(s)

\* Intervals fire, requests end, and the browser runs callbacks; a living kitchen's
\* answer may be lost, though not every one of them.
PanelsSpec ==
  /\ PanelsInit /\ [][PanelsNext]_panels
  /\ \A p \in HealthPolls : WF_panels(Poll(p)) /\ WF_panels(Show(p))
  /\ \A p \in HealthPolls, s \in Services : WF_panels(Answer(p, s))
  /\ \A p \in ChaosPolls :
       /\ WF_panels(ChaosPoll(p)) /\ WF_panels(ChaosShow(p))
       /\ WF_panels(ChaosAnswer(p) \/ ChaosFails(p)) /\ SF_panels(ChaosAnswer(p))
  /\ WF_panels(Switch \/ Switched \/ SwitchFails)

-----------------------------------------------------------------------------
\* Every variable keeps its type, and the buttons wait exactly while a switch is under way.
PanelsTypeOK ==
  /\ alive \subseteq Services
  /\ poll \in [HealthPolls -> [Services -> {"off", "asked", "UP", "DOWN"}]]
  /\ services \in [Services -> {"CHECKING", "UP", "DOWN"}]
  /\ {mode, chaosMode} \subseteq Modes
  /\ chaosLoading \in BOOLEAN /\ loggedIn \in BOOLEAN
  /\ chaosPoll \in
       [ChaosPolls -> {None, [at |-> "asked"]} \union [at : {"answered"}, mode : Modes]]
  /\ trigger \in {None} \union [at : {"asked", "answered"}, mode : Modes]
  /\ chaosLoading <=> trigger # None

\* Polls that end late do not keep the panel wrong: it ends up showing, for good, what
\* stays true of a service, and the banner with it.
HealthConverges ==
  \A s \in Services :
    /\ <>[](s \in alive) => <>[](services[s] = "UP")
    /\ <>[](s \notin alive) => <>[](services[s] = "DOWN" /\ anyDown)

\* The panel of a student who stays logged in ends up showing a living kitchen's mode for
\* good, whatever late polls, other pages, lost answers and restarts have written.
ModeConverges ==
  \A m \in Modes :
    <>[](loggedIn /\ kitchen \in alive /\ mode = m) => <>[](chaosMode = m)

\* A slow kitchen can be put back: the buttons come free whatever happens to a switch.
ButtonsComeFree == chaosLoading ~> ~chaosLoading
=============================================================================
