-------------------------------- MODULE Login --------------------------------
(***************************************************************************)
(* identity-provider: the limiter of POST /login, whose counters are in    *)
(* Redis, the login itself, and the token and session entry it leaves,     *)
(* which order-gateway's authenticateToken checks.                         *)
(***************************************************************************)
EXTENDS Naturals, Sequences

CONSTANTS
  Students,
  Registered,  \* those with a row in the students table
  Requests,    \* requests in flight at a time
  Limit,       \* logins a window lets in (3 in the code)
  Window,      \* length of a window (60 s in the code)
  Lifetime,    \* of a token and of a session entry (3600 s in the code)
  MaxClock     \* bound: how far time goes

ASSUME LoginAssumption ==
  /\ Registered \subseteq Students
  /\ {Limit, Window, Lifetime} \subseteq Nat \ {0} /\ MaxClock \in Nat

VARIABLES
  clock,
  hits, resetAt, \* the limiter's counter of each student, and when Redis drops it
  letIn,         \* what the limiter let in: when, and in the window ending when
  refused,       \* when a student was first refused since they were last let in
  request,       \* what each request awaits
  session,       \* when each session entry expires
  token          \* when the last token of each student expires

limiter == <<hits, resetAt, letIn, refused>>
issued == <<session, token>>
login == <<clock, limiter, request, issued>>

Idle == [at |-> "idle"]

\* initializeDatabase has filled the table; Redis is empty.
LoginInit ==
  /\ clock = 0
  /\ hits = [u \in Students |-> 0] /\ resetAt = [u \in Students |-> 0]
  /\ letIn = [u \in Students |-> <<>>] /\ refused = [u \in Students |-> {}]
  /\ request = [r \in Requests |-> Idle]
  /\ session = [u \in Students |-> 0] /\ token = [u \in Students |-> 0]

Tick ==
  /\ clock < MaxClock /\ clock' = clock + 1
  /\ UNCHANGED <<limiter, request, issued>>

-----------------------------------------------------------------------------
Counting(u) == clock < resetAt[u]

\* Fault: every hit starts the minute again.
ExpiryExtended(u) == clock + Window

\* The first hit starts the window; later ones leave its end alone.
Expiry(u) == IF Counting(u) THEN resetAt[u] ELSE clock + Window

\* The hits of the window, this one included; past Limit + 1 they need no count.
Hits(u) ==
  IF ~Counting(u) THEN 1
  ELSE IF hits[u] <= Limit THEN hits[u] + 1 ELSE hits[u]

\* The limiter's script in Redis counts a hit; what goes through is recorded here.
Hit(u) ==
  /\ hits' = [hits EXCEPT ![u] = Hits(u)]
  /\ resetAt' = [resetAt EXCEPT ![u] = Expiry(u)]

WithinLimitOrOne(u) == Hits(u) <= Limit + 1  \* fault: off by one
WithinLimit(u) == Hits(u) <= Limit

Passes(u) ==
  /\ WithinLimit(u)
  /\ letIn' = [letIn EXCEPT ![u] = Append(@, [at |-> clock, until |-> Expiry(u)])]
  /\ refused' = [refused EXCEPT ![u] = {}]

\* The limiter's handler answers 429.
TooMany(r, u) ==
  /\ request[r] = Idle /\ ~WithinLimit(u)
  /\ Hit(u)
  /\ refused' = [refused EXCEPT ![u] = IF @ = {} THEN {clock} ELSE @]
  /\ UNCHANGED <<clock, letIn, request, issued>>

\* POST /login with both credentials, right or wrong.
Post(r, u, right) ==
  /\ request[r] = Idle
  /\ Hit(u) /\ Passes(u)
  /\ request' = [request EXCEPT ![r] = [at |-> "find", student |-> u, right |-> right]]
  /\ UNCHANGED <<clock, issued>>

\* A request without a password counts, and is answered 400.
PostIncomplete(r, u) ==
  /\ request[r] = Idle
  /\ Hit(u) /\ Passes(u)
  /\ UNCHANGED <<clock, request, issued>>

\* POST /login-direct, the debug route: the same login, not counted.
PostDirect(r, u, right) ==
  /\ request[r] = Idle
  /\ request' = [request EXCEPT ![r] = [at |-> "find", student |-> u, right |-> right]]
  /\ UNCHANGED <<clock, limiter, issued>>

Ends(r) == request' = [request EXCEPT ![r] = Idle]

\* findByStudentId answers: no row, or another hash, is a 401.
Refuse(r) ==
  /\ request[r].at = "find"
  /\ request[r].student \notin Registered \/ ~request[r].right
  /\ Ends(r)
  /\ UNCHANGED <<clock, limiter, issued>>

\* The token is signed before the session entry is written.
Sign(r) ==
  /\ request[r].at = "find"
  /\ request[r].student \in Registered /\ request[r].right
  /\ request' = [request EXCEPT ![r] =
       [at |-> "save", student |-> request[r].student, expires |-> clock + Lifetime]]
  /\ UNCHANGED <<clock, limiter, issued>>

\* Fault: the lifetime is added to what the entry has left.
EntryAdds(r) == session' = [session EXCEPT ![request[r].student] = @ + Lifetime]

\* Fault: the entry lives as long as the token that is asked for has left.
EntryOfToken(r) == session' = [session EXCEPT ![request[r].student] = request[r].expires]

Entry(r) == session' = [session EXCEPT ![request[r].student] = clock + Lifetime]

\* The entry is written, and the student gets the token.
Save(r) ==
  /\ request[r].at = "save"
  /\ Entry(r)
  /\ LET u == request[r].student
         expires == request[r].expires
     IN  token' = [token EXCEPT ![u] = IF expires > @ THEN expires ELSE @]
  /\ Ends(r)
  /\ UNCHANGED <<clock, limiter>>

\* A failing query or command is a 500; the entry may have been written.
Fail(r) ==
  /\ request[r] # Idle
  /\ Ends(r)
  /\ UNCHANGED session \/ (request[r].at = "save" /\ Entry(r))
  /\ UNCHANGED <<clock, limiter, token>>

\* Fault: the counters are in the process, as they are in tests.
CrashForgets ==
  /\ request' = [r \in Requests |-> Idle]
  /\ hits' = [u \in Students |-> 0] /\ resetAt' = [u \in Students |-> 0]
  /\ UNCHANGED <<clock, letIn, refused, issued>>

\* POST /chaos: what is under way is lost, what is in Redis stays.
Crash ==
  /\ request' = [r \in Requests |-> Idle]
  /\ UNCHANGED <<clock, limiter, issued>>

\* order-gateway accepts the tokens of a student until they expire, and answers 403 then.
authenticateToken(u) == clock < token[u]

LoginNext ==
  \/ Tick \/ Crash
  \/ \E r \in Requests, u \in Students :
       \/ TooMany(r, u) \/ PostIncomplete(r, u)
       \/ \E right \in BOOLEAN : Post(r, u, right) \/ PostDirect(r, u, right)
  \/ \E r \in Requests : Refuse(r) \/ Sign(r) \/ Save(r) \/ Fail(r)

LoginSpec == LoginInit /\ [][LoginNext]_login

-----------------------------------------------------------------------------
RequestStates ==
  {Idle}
    \union [at : {"find"}, student : Students, right : BOOLEAN]
    \union [at : {"save"}, student : Registered, expires : Nat]

\* Every variable keeps its type; no counter and no session entry outlives what it is
\* given from now.
LoginTypeOK ==
  /\ clock \in 0 .. MaxClock
  /\ hits \in [Students -> 0 .. Limit + 1] /\ resetAt \in [Students -> Nat]
  /\ letIn \in [Students -> Seq([at : Nat, until : Nat])]
  /\ refused \in [Students -> SUBSET Nat]
  /\ request \in [Requests -> RequestStates]
  /\ \A u \in Students : resetAt[u] <= clock + Window /\ session[u] <= clock + Lifetime
  /\ session \in [Students -> Nat]
  /\ token \in [Students -> Nat]

\* What the fixed windows give of README.md:53's "strict 3 login attempts per minute policy
\* per Student ID": more than a window lies between the first and the last of any
\* 2 * Limit + 1 logins that were let in, through any restart.  Two adjoining windows may
\* let in 2 * Limit within a minute, and logins by POST /login-direct are not counted.
BurstsBounded ==
  \A u \in Students : \A k \in 1 .. Len(letIn[u]) :
    k + 2 * Limit <= Len(letIn[u])
      => letIn[u][k + 2 * Limit].at > letIn[u][k].at + Window

\* "Please try again after 60 seconds" (authRoutes.ts): a student who has been refused is
\* let in again before a window has passed, however often they try meanwhile.
RefusalsEnd ==
  \A u \in Students : \A first \in refused[u] :
    ~WithinLimit(u) => clock < first + Window

\* Logins of one student may overlap, and their tokens and entries come in any order:
\* whoever has a token that order-gateway still accepts has a session entry.
SessionCoversToken ==
  \A u \in Students : authenticateToken(u) => clock < session[u]
=============================================================================
