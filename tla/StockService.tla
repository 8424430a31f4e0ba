---------------------------- MODULE StockService ----------------------------
(***************************************************************************)
(* stock-service: POST /deduct and POST /restore, statement by statement   *)
(* over PostgreSQL (READ COMMITTED) and the Redis stock cache, with the    *)
(* cache refresh, connection errors and restarts of the service.           *)
(*                                                                         *)
(* One action is the code between two awaits.  pc[r] names the call that   *)
(* request r is waiting for; the row locks a transaction holds follow from *)
(* pc.  A transaction's writes stay in row[r] until it commits.            *)
(***************************************************************************)
EXTENDS Integers, FiniteSets

CONSTANTS
  Orders, Items, Stocked, InitialStock, ItemOf, QtyOf,   \* see Inventory
  Requests,     \* the HTTP requests the service may handle at once
  Quantities,   \* what a body may ask for; no client sends a number below one
  Refreshers,   \* the cache warm-up and refresh runs in progress at once
  PoolMax,      \* connections in the pg pool
  NoEntry       \* what Redis returns for an absent key

VARIABLES
  items,        \* committed rows of table items
  processed,    \* committed rows of table processed_orders
  cache,        \* Redis: the value of stock:<item>
  call,         \* the request bodies; chosen by the clients, never changed
  pc, row, reply,
  snap          \* what a refresh has read and not yet written to Redis

vars == <<items, processed, cache, call, pc, row, reply, snap>>
db == <<items, processed>>

ASSUME StockAssumption ==
  /\ Stocked \subseteq Items
  /\ IsFiniteSet(Orders) /\ IsFiniteSet(Requests)
  /\ InitialStock \in [Stocked -> Nat]
  /\ ItemOf \in [Orders -> Items]
  /\ QtyOf \in [Orders -> Nat \ {0}]
  /\ Quantities \subseteq Nat \ {0}
  /\ PoolMax \in Nat \ {0}
  /\ NoEntry \notin Int

Row == [stock : Int, version : Nat]

\* What the controllers take from a body; nothing ties item and quantity to the order id.
Bodies == [op : {"deduct", "restore"}, order : Orders, item : Items, qty : Quantities]
Order(r) == call[r].order
Item(r) == call[r].item
Qty(r) == call[r].qty

\* Every body about an order names the same item and quantity, as placeOrder's do for a key
\* that its callers use for one order only.
SameBodies == \A r \in Requests : Item(r) = ItemOf[Order(r)] /\ Qty(r) = QtyOf[Order(r)]

-----------------------------------------------------------------------------
(* Where a handler can be waiting.                                         *)

DeductSteps ==
  {"findItem", "updateStock", "markProcessed", "commit", "ackProcessed", "zeroCache"}
RestoreSteps == {"addStock", "unmark", "commitRestore"}
SharedSteps == {"isProcessed", "setCache"}
InService == DeductSteps \union RestoreSteps \union SharedSteps
Replies ==
  {"none", "already", "notFound", "outOfStock", "outOfStockCached", "conflict",
   "success", "nothing", "restored", "error", "lost"}
Labels == {"idle", "getCache", "connect", "done"} \union InService

\* A pooled client is held from connect() until the finally block.
ClientLeaked(r) == pc[r] \in InService \union {"done"}   \* fault: no finally block
HoldsClient(r) == pc[r] \in InService

\* Row locks in table items: from an UPDATE that found the row to the end of the transaction.
HoldsItem(r) ==
  Item(r) \in Stocked /\ pc[r] \in {"markProcessed", "commit", "unmark", "commitRestore"}

\* Row locks in processed_orders: SELECT ... FOR UPDATE of an existing row.
HoldsOrder(r) == pc[r] \in {"ackProcessed"} \union RestoreSteps

\* An uncommitted INSERT or DELETE of a row of processed_orders.
ChangesOrder(r) == pc[r] \in {"commit", "commitRestore"}

ItemFree(r) == \A s \in Requests \ {r} : HoldsItem(s) => Item(s) # Item(r)
OrderAlwaysFree(r) == TRUE                    \* fault: SELECT without FOR UPDATE
OrderFree(r) == \A s \in Requests \ {r} : HoldsOrder(s) => Order(s) # Order(r)
KeyFree(r) == \A s \in Requests \ {r} : ChangesOrder(s) => Order(s) # Order(r)

GoTo(r, l) ==
  /\ pc' = [pc EXCEPT ![r] = l]
  /\ UNCHANGED reply

Answer(r, a) ==
  /\ pc' = [pc EXCEPT ![r] = "done"]
  /\ reply' = [reply EXCEPT ![r] = a]

-----------------------------------------------------------------------------
Init ==
  /\ items = [i \in Stocked |-> [stock |-> InitialStock[i], version |-> 1]]
  /\ processed = {}
  /\ cache = [i \in Items |-> NoEntry]
  /\ call \in [Requests -> Bodies]
  /\ pc = [r \in Requests |-> "idle"]
  /\ row = [r \in Requests |-> [stock |-> 0, version |-> 0]]
  /\ reply = [r \in Requests |-> "none"]
  /\ snap = [f \in Refreshers |-> {}]

\* The controller accepts a request; only /deduct looks at the cache first.
Receive(r) ==
  /\ pc[r] = "idle"
  /\ GoTo(r, IF call[r].op = "deduct" THEN "getCache" ELSE "connect")
  /\ UNCHANGED <<db, cache, call, row, snap>>

CacheRejects(r) == cache[Item(r)] # NoEntry /\ cache[Item(r)] < Qty(r)

CheckCache(r) ==
  /\ pc[r] = "getCache"
  /\ \/ CacheRejects(r) /\ Answer(r, "outOfStockCached")
     \/ ~CacheRejects(r) /\ GoTo(r, "connect")
  /\ UNCHANGED <<db, cache, call, row, snap>>

\* pool.connect() and BEGIN.
Connect(r) ==
  /\ pc[r] = "connect"
  /\ Cardinality({s \in Requests : HoldsClient(s)}) < PoolMax
  /\ GoTo(r, "isProcessed")
  /\ UNCHANGED <<db, cache, call, row, snap>>

\* SELECT ... FOR UPDATE: waits for a lock on the row, if there is a row.
IsProcessed(r) ==
  /\ pc[r] = "isProcessed"
  /\ OrderFree(r)
  /\ IF Order(r) \in processed
       THEN GoTo(r, IF call[r].op = "deduct" THEN "ackProcessed" ELSE "addStock")
       ELSE IF call[r].op = "deduct" THEN GoTo(r, "findItem") ELSE Answer(r, "nothing")
  /\ UNCHANGED <<db, cache, call, row, snap>>

\* COMMIT of a transaction that found its order processed.
AckProcessed(r) ==
  /\ pc[r] = "ackProcessed"
  /\ Answer(r, "already")
  /\ UNCHANGED <<db, cache, call, row, snap>>

EnoughButOne(r) == items[Item(r)].stock >= Qty(r) - 1   \* fault: off by one
EnoughStock(r) == items[Item(r)].stock >= Qty(r)

FindItem(r) ==
  /\ pc[r] = "findItem"
  /\ \/ /\ Item(r) \notin Stocked
        /\ Answer(r, "notFound")
        /\ UNCHANGED row
     \/ /\ Item(r) \in Stocked /\ ~EnoughStock(r)
        /\ GoTo(r, "zeroCache")
        /\ UNCHANGED row
     \/ /\ Item(r) \in Stocked /\ EnoughStock(r)
        /\ row' = [row EXCEPT ![r] = items[Item(r)]]
        /\ GoTo(r, "updateStock")
  /\ UNCHANGED <<db, cache, call, snap>>

\* After the ROLLBACK: SET stock:<item> 0, whatever the row still holds.
ZeroCache(r) ==
  /\ pc[r] = "zeroCache"
  /\ cache' = [cache EXCEPT ![Item(r)] = 0]
  /\ Answer(r, "outOfStock")
  /\ UNCHANGED <<db, call, row, snap>>

VersionIgnored(r) == TRUE                     \* fault: UPDATE without the version test
VersionMatches(r) == items[Item(r)].version = row[r].version
Deducted(r) == [stock |-> items[Item(r)].stock - Qty(r), version |-> items[Item(r)].version + 1]

\* UPDATE ... WHERE version = $3: waits for the row lock, then re-reads it.
UpdateStock(r) ==
  /\ pc[r] = "updateStock"
  /\ ItemFree(r)
  /\ \/ /\ VersionMatches(r)
        /\ row' = [row EXCEPT ![r] = Deducted(r)]
        /\ GoTo(r, "markProcessed")
     \/ /\ ~VersionMatches(r)
        /\ Answer(r, "conflict")
        /\ UNCHANGED row
  /\ UNCHANGED <<db, cache, call, snap>>

KeyNotUnique(r) == FALSE                      \* fault: order_id is no primary key
DuplicateKey(r) == Order(r) \in processed

\* Fault: the request is answered before its COMMIT.
MarkProcessedAndAnswer(r) ==
  /\ pc[r] = "markProcessed"
  /\ KeyFree(r)
  /\ \/ DuplicateKey(r) /\ Answer(r, "error")
     \/ ~DuplicateKey(r) /\ GoTo(r, "setCache")
  /\ UNCHANGED <<db, cache, call, row, snap>>

\* INSERT INTO processed_orders: waits for an uncommitted change of the key; a
\* duplicate key rolls the deduction back.
MarkProcessed(r) ==
  /\ pc[r] = "markProcessed"
  /\ KeyFree(r)
  /\ \/ DuplicateKey(r) /\ Answer(r, "error")
     \/ ~DuplicateKey(r) /\ GoTo(r, "commit")
  /\ UNCHANGED <<db, cache, call, row, snap>>

\* Both COMMITs may take effect without their acknowledgement reaching the service.
Commit(r) ==
  /\ pc[r] = "commit"
  /\ items' = [items EXCEPT ![Item(r)] = row[r]]
  /\ processed' = processed \union {Order(r)}
  /\ GoTo(r, "setCache") \/ Answer(r, "error")
  /\ UNCHANGED <<cache, call, row, snap>>

CachedOrder(r) == Order(r)                     \* fault: the wrong variable is cached
CachedValue(r) == row[r].stock

\* SETEX after the commit; the answer of either operation.
SetCache(r) ==
  /\ pc[r] = "setCache"
  /\ cache' = [cache EXCEPT ![Item(r)] = CachedValue(r)]
  /\ Answer(r, IF call[r].op = "deduct" THEN "success" ELSE "restored")
  /\ UNCHANGED <<db, call, row, snap>>

RestoredSilently(r) == [row[r] EXCEPT !.stock = items[Item(r)].stock + Qty(r),
                                      !.version = items[Item(r)].version]  \* fault: version kept
Restored(r) == [stock |-> items[Item(r)].stock + Qty(r), version |-> items[Item(r)].version + 1]

\* The UPDATE adds what the body says, to the item it names, and finds no row of another.
AddStock(r) ==
  /\ pc[r] = "addStock"
  /\ ItemFree(r)
  /\ row' = IF Item(r) \in Stocked THEN [row EXCEPT ![r] = Restored(r)] ELSE row
  /\ GoTo(r, "unmark")
  /\ UNCHANGED <<db, cache, call, snap>>

\* DELETE FROM processed_orders; the row is locked since isProcessed.
Unmark(r) ==
  /\ pc[r] = "unmark"
  /\ GoTo(r, "commitRestore")
  /\ UNCHANGED <<db, cache, call, row, snap>>

\* The record goes whether or not a row was updated; the cache follows an updated row.
CommitRestore(r) ==
  /\ pc[r] = "commitRestore"
  /\ items' = IF Item(r) \in Stocked THEN [items EXCEPT ![Item(r)] = row[r]] ELSE items
  /\ processed' = processed \ {Order(r)}
  /\ \/ Item(r) \in Stocked /\ GoTo(r, "setCache")
     \/ Item(r) \notin Stocked /\ Answer(r, "restored")
     \/ Answer(r, "error")
  /\ UNCHANGED <<cache, call, row, snap>>

\* A Redis or PostgreSQL call of the handler fails: the transaction, if it is
\* still open, is rolled back and the answer is 500, even after the commit.
Fail(r) ==
  /\ pc[r] \in Labels \ {"idle", "done"}
  /\ Answer(r, "error")
  /\ UNCHANGED <<db, cache, call, row, snap>>

-----------------------------------------------------------------------------
(* Cache warm-up and refresh; Redis; restarts.                             *)

RefreshRead(f) ==
  /\ snap[f] = {}
  /\ snap' = [snap EXCEPT ![f] = {items}]
  /\ UNCHANGED <<db, cache, call, pc, row, reply>>

RefreshMissing(i, table) ==                   \* fault: the refresh only fills absent keys
  IF cache[i] = NoEntry THEN table[i].stock ELSE cache[i]
Refreshed(i, table) == table[i].stock

RefreshWrite(f) ==
  /\ \E table \in snap[f] :
       cache' = [i \in Items |-> IF i \in Stocked THEN Refreshed(i, table) ELSE cache[i]]
  /\ snap' = [snap EXCEPT ![f] = {}]
  /\ UNCHANGED <<db, call, pc, row, reply>>

RefreshFail(f) ==
  /\ snap[f] # {}
  /\ snap' = [snap EXCEPT ![f] = {}]
  /\ UNCHANGED <<db, cache, call, pc, row, reply>>

\* An entry expires, is evicted, or is lost with Redis.
Expire(i) ==
  /\ cache[i] # NoEntry
  /\ cache' = [cache EXCEPT ![i] = NoEntry]
  /\ UNCHANGED <<db, call, pc, row, reply, snap>>

InFlight(r) == pc[r] \notin {"idle", "done"}

\* The process exits and is restarted: open transactions are rolled back and
\* the requests it was handling are never answered.
Crash ==
  /\ \E r \in Requests : InFlight(r)
  /\ pc' = [r \in Requests |-> IF InFlight(r) THEN "done" ELSE pc[r]]
  /\ reply' = [r \in Requests |-> IF InFlight(r) THEN "lost" ELSE reply[r]]
  /\ snap' = [f \in Refreshers |-> {}]
  /\ UNCHANGED <<db, cache, call, row>>

-----------------------------------------------------------------------------
Handle(r) ==
  \/ CheckCache(r) \/ Connect(r) \/ IsProcessed(r) \/ AckProcessed(r)
  \/ FindItem(r) \/ ZeroCache(r) \/ UpdateStock(r) \/ MarkProcessed(r)
  \/ Commit(r) \/ SetCache(r)
  \/ AddStock(r) \/ Unmark(r) \/ CommitRestore(r)

Next ==
  \/ \E r \in Requests : Receive(r) \/ Handle(r) \/ Fail(r)
  \/ \E f \in Refreshers : RefreshRead(f) \/ RefreshWrite(f) \/ RefreshFail(f)
  \/ \E i \in Items : Expire(i)
  \/ Crash

Spec == Init /\ [][Next]_vars

(* What a stalled process would break: node serves every callback, the     *)
(* database serves its lock queues, and the refresh interval keeps firing. *)
(* A refresh may fail, though not for ever: hence SF.                      *)
Fairness ==
  /\ \A r \in Requests : WF_vars(Handle(r))
  /\ \A f \in Refreshers : WF_vars(RefreshRead(f)) /\ SF_vars(RefreshWrite(f))

FairSpec == Spec /\ Fairness

-----------------------------------------------------------------------------
(* Properties.                                                             *)

CacheEntry == Int \union {NoEntry}

\* Every variable keeps its type; the cache holds stock counts and nothing else.
TypeOK ==
  /\ items \in [Stocked -> Row]
  /\ processed \subseteq Orders
  /\ cache \in [Items -> CacheEntry]
  /\ call \in [Requests -> Bodies]
  /\ pc \in [Requests -> Labels]
  /\ row \in [Requests -> Row]
  /\ reply \in [Requests -> Replies]
  /\ snap \in [Refreshers -> SUBSET [Stocked -> Row]]

Abs == INSTANCE Inventory
         WITH stock <- [i \in Stocked |-> items[i].stock], deducted <- processed

\* The service implements the inventory as long as no order id comes with two bodies: every
\* step takes an order's portions once, gives them back once, or changes neither
\* (deductStock, restoreStock).
ImplementsInventory == Abs!Init /\ [][SameBodies => Abs!Next]_(Abs!inventory)

\* No interleaving of deductions, restores, retries and crashes sells an item
\* below zero (the version test of updateStock), whatever items and quantities come with an
\* order id.
NoOversell == Abs!NoOversell

\* The two tables agree after every crash and every concurrent restore: what an
\* item has lost is what its processed orders hold (the FOR UPDATE of
\* isOrderProcessed, the unique key of markOrderProcessed).  A restore gives back what its
\* own body says (stockService.ts:124-127), so this is of keys with one body.
Conservation == SameBodies => Abs!Conservation

\* The idempotency decision a transaction took still holds when it acts on it:
\* nobody deletes a record that a restore or a repeated deduction has found, and
\* nobody else inserts the one a deduction is about to commit.
DecisionHolds ==
  \A r \in Requests :
    /\ HoldsOrder(r) => Order(r) \in processed
    /\ pc[r] = "commit" => Order(r) \notin processed

\* At most one transaction has an uncommitted change of a row.
ExclusiveRows ==
  \A r, s \in Requests :
    r # s =>
      /\ ~(HoldsItem(r) /\ HoldsItem(s) /\ Item(r) = Item(s))
      /\ ~(HoldsOrder(r) /\ HoldsOrder(s) /\ Order(r) = Order(s))
      /\ ~(ChangesOrder(r) /\ ChangesOrder(s) /\ Order(r) = Order(s))

\* A transaction that read a row and finds its version unchanged finds its stock
\* unchanged, and enough for the order; one that wrote it commits that change.
RowsRead ==
  \A r \in Requests :
    /\ pc[r] \in {"updateStock", "markProcessed", "commit"} => Item(r) \in Stocked
    /\ pc[r] = "updateStock" =>
         /\ row[r].version <= items[Item(r)].version
         /\ row[r].stock >= Qty(r)
         /\ VersionMatches(r) => row[r].stock = items[Item(r)].stock
    /\ pc[r] \in {"markProcessed", "commit"} =>
         row[r] = Deducted(r) /\ EnoughStock(r)
    /\ pc[r] \in {"unmark", "commitRestore"} /\ Item(r) \in Stocked => row[r] = Restored(r)

\* Invariant of the proofs.
IInv == TypeOK /\ ExclusiveRows /\ DecisionHolds /\ RowsRead /\ NoOversell

\* What the gateway makes of an answer is true, whatever else runs or crashes: an
\* acknowledged deduction stays in the table until somebody asks for its restore,
\* and a rejected order holds nothing unless it was sent more than once.
AnswersTrue ==
  \A r \in Requests :
    LET others == {s \in Requests \ {r} : Order(s) = Order(r) /\ pc[s] # "idle"}
    IN  /\ (reply[r] \in {"success", "already"} /\ \A s \in others : call[s].op = "deduct")
             => Order(r) \in processed
        /\ (reply[r] \in {"conflict", "notFound", "outOfStock", "outOfStockCached"}
             /\ others = {})
             => Order(r) \notin processed

\* No committed change of a stock keeps its version: the version test of another
\* transaction sees deductions and restores alike.
NoSilentChange ==
  [][\A i \in Stocked :
       items'[i].stock # items[i].stock => items'[i].version = items[i].version + 1]_vars

\* Every request the service has accepted is answered: no lock or pool wait
\* deadlocks, no exit of a handler keeps its pooled client.
AllServed == \A r \in Requests : InFlight(r) ~> pc[r] = "done"

\* The wait of r's next call is over.
MayProceed(r) ==
  /\ pc[r] = "connect" => Cardinality({s \in Requests : HoldsClient(s)}) < PoolMax
  /\ pc[r] = "isProcessed" => OrderFree(r)
  /\ pc[r] \in {"updateStock", "addStock"} => ItemFree(r)
  /\ pc[r] = "markProcessed" => KeyFree(r)

\* r waits until s ends its transaction, or may have to.
WaitsFor(r, s) ==
  /\ r # s
  /\ \/ pc[r] = "connect" /\ HoldsClient(s)
     \/ pc[r] = "isProcessed" /\ HoldsOrder(s) /\ Order(s) = Order(r)
     \/ pc[r] \in {"updateStock", "addStock"} /\ HoldsItem(s) /\ Item(s) = Item(r)
     \/ pc[r] = "markProcessed" /\ ChangesOrder(s) /\ Order(s) = Order(r)

\* Who cannot go on waits for another request in flight, and no requests wait for each
\* other in a circle: connections, records and rows are taken in one order by both
\* operations (deductStock, restoreStock).
NoDeadlock ==
  /\ \A r \in Requests :
       ~MayProceed(r) => \E s \in Requests : InFlight(s) /\ WaitsFor(r, s)
  /\ \A S \in SUBSET Requests :
       S # {} => \E r \in S : \A s \in S : ~WaitsFor(r, s)

Coherent == \A i \in Stocked : cache[i] \in {NoEntry, items[i].stock}

\* README.md: a periodic re-sync "ensures the cache never stays stale".  Once
\* requests stop, the cache agrees with the table for good.
CacheConverges == <>[]Coherent
=============================================================================
