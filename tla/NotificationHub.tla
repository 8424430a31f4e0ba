---------------------------- MODULE NotificationHub ----------------------------
(***************************************************************************)
(* notification-hub: which socket a student's notifications go to, and the *)
(* buffer that keeps them while the student is away.  A notification is    *)
(* its number, in the order the hub accepts them.  An emit returns at      *)
(* once: the notification travels, and arrives or is lost on the way.      *)
(***************************************************************************)
EXTENDS Integers, Sequences, Functions

CONSTANTS
  Students,
  Pages,        \* browser tabs
  Sockets,      \* socket.io connections in one behaviour
  StudentOf,    \* [Pages -> Students], who is logged in
  PageOf,       \* [Sockets -> Pages]: a page connects again and again
  BufferLimit,  \* 10 in the code
  NoSocket,
  MaxSent,      \* bound: [Students -> Nat], notifications of each student
  MaxCrashes    \* bound: restarts of the hub

ASSUME HubAssumption ==
  /\ StudentOf \in [Pages -> Students]
  /\ PageOf \in [Sockets -> Pages]
  /\ BufferLimit \in Nat \ {0}
  /\ NoSocket \notin Sockets
  /\ MaxSent \in [Students -> Nat] /\ MaxCrashes \in Nat

VARIABLES
  userSockets,        \* the socket each student is reached at, or NoSocket
  notificationBuffer, \* the notifications kept for each student, oldest first
  socket,             \* a connection; a broken one has no peer, and the hub has not noticed
  sent,               \* notifications accepted for each student
  wire,               \* those on their way to each page, in that order
  shown,              \* those each page has received, in that order
  crashes

hub == <<userSockets, notificationBuffer, socket, sent, wire, shown, crashes>>

SocketStates == {"new", "open", "broken", "closed"}

Student(s) == StudentOf[PageOf[s]]

HubInit ==
  /\ userSockets = [u \in Students |-> NoSocket]
  /\ notificationBuffer = [u \in Students |-> <<>>]
  /\ socket = [s \in Sockets |-> "new"]
  /\ sent = [u \in Students |-> 0]
  /\ wire = [p \in Pages |-> <<>>]
  /\ shown = [p \in Pages |-> <<>>]
  /\ crashes = 0

\* io.to(id).emit of each of q: nobody learns whether they arrive.
emit(s, q) ==
  wire' = IF socket'[s] = "open" THEN [wire EXCEPT ![PageOf[s]] = @ \o q] ELSE wire

\* Fault: the replayed notifications stay in the buffer.
ReplayAndKeep(s) ==
  /\ emit(s, notificationBuffer[Student(s)])
  /\ UNCHANGED notificationBuffer

\* Fault: the buffer is deleted before it is replayed.
DeleteFirst(s) ==
  /\ notificationBuffer' = [notificationBuffer EXCEPT ![Student(s)] = <<>>]
  /\ emit(s, notificationBuffer'[Student(s)])

\* The buffer is deleted whether or not what it held arrives.
replayBuffer(s) ==
  /\ emit(s, notificationBuffer[Student(s)])
  /\ notificationBuffer' = [notificationBuffer EXCEPT ![Student(s)] = <<>>]

\* The newest connection of a student replaces the older one.  A page has one connection
\* that is alive; the peer of the one the hub handles may be gone by then.
handleConnection(s) ==
  /\ socket[s] = "new"
  /\ \E state \in {"open", "broken"} :
       /\ state = "open" =>
            \A t \in Sockets : PageOf[t] = PageOf[s] => socket[t] # "open"
       /\ socket' = [socket EXCEPT ![s] = state]
  /\ userSockets' = [userSockets EXCEPT ![Student(s)] = s]
  /\ replayBuffer(s)
  /\ UNCHANGED <<sent, shown, crashes>>

\* A notification arrives at its page.
Deliver(p) ==
  /\ wire[p] # <<>>
  /\ shown' = [shown EXCEPT ![p] = Append(@, Head(wire[p]))]
  /\ wire' = [wire EXCEPT ![p] = Tail(@)]
  /\ UNCHANGED <<userSockets, notificationBuffer, socket, sent, crashes>>

\* With a connection goes what is on its way (what still arrives has arrived before).
HangUp(s) ==
  wire' = IF socket[s] = "open" THEN [wire EXCEPT ![PageOf[s]] = <<>>] ELSE wire

\* The network or the browser goes away; the hub notices at its ping timeout.
Break(s) ==
  /\ socket[s] = "open"
  /\ socket' = [socket EXCEPT ![s] = "broken"]
  /\ HangUp(s)
  /\ UNCHANGED <<userSockets, notificationBuffer, sent, shown, crashes>>

\* 'disconnect': the student's entry is deleted, whichever socket it names.
disconnect(s) ==
  /\ socket[s] \in {"open", "broken"}
  /\ socket' = [socket EXCEPT ![s] = "closed"]
  /\ userSockets' = [userSockets EXCEPT ![Student(s)] = NoSocket]
  /\ HangUp(s)
  /\ UNCHANGED <<notificationBuffer, sent, shown, crashes>>

\* Fault: the limit is tested before the push.
KeepOneMore(q) == IF Len(q) > BufferLimit + 1 THEN Tail(q) ELSE q

\* Fault: the newest notification is dropped, not the oldest.
DropNewest(q) == IF Len(q) > BufferLimit THEN SubSeq(q, 1, BufferLimit) ELSE q

KeepNewest(q) == IF Len(q) > BufferLimit THEN Tail(q) ELSE q

bufferNotification(u, n) ==
  notificationBuffer' =
    [notificationBuffer EXCEPT ![u] = KeepNewest(Append(@, n))]

\* POST /notify: emitted to the student's socket, dead or alive, or else buffered.
notify(u) ==
  LET n == sent[u] + 1
      s == userSockets[u]
  IN  /\ n <= MaxSent[u]
      /\ sent' = [sent EXCEPT ![u] = n]
      /\ UNCHANGED <<userSockets, socket, shown, crashes>>
      /\ \/ s # NoSocket /\ emit(s, <<n>>) /\ UNCHANGED notificationBuffer
         \/ s = NoSocket /\ bufferNotification(u, n) /\ UNCHANGED wire

\* Everything the hub knows is in its memory, and every connection ends.
Crash ==
  /\ crashes < MaxCrashes /\ crashes' = crashes + 1
  /\ userSockets' = [u \in Students |-> NoSocket]
  /\ notificationBuffer' = [u \in Students |-> <<>>]
  /\ socket' = [s \in Sockets |-> IF socket[s] = "new" THEN "new" ELSE "closed"]
  /\ wire' = [p \in Pages |-> <<>>]
  /\ UNCHANGED <<sent, shown>>

HubNext ==
  \/ \E s \in Sockets : handleConnection(s) \/ Break(s) \/ disconnect(s)
  \/ \E p \in Pages : Deliver(p)
  \/ \E u \in Students : notify(u)
  \/ Crash

HubSpec == HubInit /\ [][HubNext]_hub

-----------------------------------------------------------------------------
\* Every variable keeps its type, and no buffer outgrows its limit.
HubTypeOK ==
  /\ userSockets \in [Students -> Sockets \union {NoSocket}]
  /\ socket \in [Sockets -> SocketStates]
  /\ sent \in [Students -> Nat]
  /\ crashes \in 0 .. MaxCrashes
  /\ wire \in [Pages -> Seq(Nat)]
  /\ shown \in [Pages -> Seq(Nat)]
  /\ notificationBuffer \in [Students -> Seq(Nat)]
  /\ \A u \in Students : Len(notificationBuffer[u]) <= BufferLimit

PagesOf(u) == {p \in Pages : StudentOf[p] = u}

Increasing(q) == \A j, k \in 1 .. Len(q) : j < k => q[j] < q[k]

\* What a page has received or will, unless its connection goes.
Emitted(p) == Range(shown[p]) \union Range(wire[p])

\* Through reconnections, replays and crashes, and however long an emit travels, a page
\* shows statuses in the order the hub accepted them, and no status is shown twice, be it
\* on another page of the student.  Between two pages there is no order.
ShownInOrder ==
  /\ \A p \in Pages : Increasing(shown[p])
  /\ \A u \in Students : \A p, r \in PagesOf(u) :
       p # r => Range(shown[p]) \intersect Range(shown[r]) = {}

\* What is buffered is what came last: a run of consecutive notifications up to the
\* newest, none of them emitted, and nobody is registered while it waits.
BufferIsNewest ==
  \A u \in Students :
    LET q == notificationBuffer[u]
    IN  q # <<>> =>
          /\ userSockets[u] = NoSocket
          /\ \A k \in 1 .. Len(q) : q[k] = sent[u] - Len(q) + k
          /\ \A p \in PagesOf(u) : \A n \in Emitted(p) : n < q[1]

Safe(u, n) ==
  n \in Range(notificationBuffer[u]) \/ \E p \in PagesOf(u) : n \in Emitted(p)

\* The step ends the connection n travels on.
LostOnTheWay(u, n) ==
  \E s \in Sockets :
    /\ Student(s) = u /\ n \in Range(wire[PageOf[s]])
    /\ socket[s] = "open" /\ socket'[s] # "open"

\* The step emits n, new or buffered, to a socket whose peer is gone.
EmittedToNobody(u, n) ==
  \E s \in Sockets :
    /\ userSockets'[u] = s /\ socket'[s] = "broken"
    /\ n > sent[u] \/ n \in Range(notificationBuffer[u])

\* The step buffers one more than the limit, and n is the oldest.
Overflown(u, n) ==
  /\ sent'[u] > sent[u] /\ Len(notificationBuffer[u]) = BufferLimit
  /\ n = Head(notificationBuffer[u])

\* A notification the hub has accepted is lost in four ways only: the hub restarts, the
\* connection it travels on goes, the socket it is emitted or replayed to has no peer any
\* more, or it is the oldest of a full buffer when another comes.  A late disconnect, a
\* newer connection of another tab and a replay to a live page lose none.
LossesKnown ==
  [][\A u \in Students : \A n \in 1 .. sent'[u] :
       \/ Safe(u, n)'
       \/ n <= sent[u] /\ ~Safe(u, n)
       \/ crashes' # crashes
       \/ LostOnTheWay(u, n)
       \/ EmittedToNobody(u, n)
       \/ Overflown(u, n)]_hub

=============================================================================
