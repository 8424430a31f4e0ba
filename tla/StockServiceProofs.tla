------------------------- MODULE StockServiceProofs -------------------------
(***************************************************************************)
(* StockService, for any finite set of requests, orders and items: IInv is *)
(* inductive, and every step is a step of Inventory or leaves it alone.    *)
(***************************************************************************)
EXTENDS StockService, FiniteSetTheorems, TLAPS

\* The calls after which a transaction has something to lose: a lock it holds, a
\* row it has read to change it, or a change it has not committed.
Critical ==
  {"updateStock", "markProcessed", "commit", "ackProcessed"} \union RestoreSteps

LEMMA RequestTypes ==
  ASSUME TypeOK, NEW r \in Requests
  PROVE  /\ Order(r) \in Orders
         /\ Item(r) \in Items
         /\ Qty(r) \in Nat \ {0}
<1>1. call[r] \in Bodies
  BY DEF TypeOK
<1> QED
  BY <1>1, StockAssumption DEF Bodies, Order, Item, Qty

\* The clients' request bodies never change.
LEMMA SameCalls ==
  ASSUME UNCHANGED call
  PROVE  \A r \in Requests : /\ Order(r)' = Order(r)
                             /\ Item(r)' = Item(r)
                             /\ Qty(r)' = Qty(r)
  BY DEF Order, Item, Qty

LEMMA InitIInv == Init => IInv
<1> SUFFICES ASSUME Init PROVE IInv
  OBVIOUS
<1>1. TypeOK
  BY StockAssumption DEF Init, TypeOK, Row, CacheEntry, Labels, Replies
<1>2. ExclusiveRows /\ DecisionHolds /\ RowsRead
  BY DEF Init, ExclusiveRows, DecisionHolds, RowsRead, HoldsItem, HoldsOrder, ChangesOrder,
         RestoreSteps
<1>3. NoOversell
  BY StockAssumption DEF Init, NoOversell, Abs!NoOversell
<1> QED
  BY <1>1, <1>2, <1>3 DEF IInv

\* A step of one request to a call that holds nothing disturbs nobody.
LEMMA StepAside ==
  ASSUME IInv, NEW r \in Requests, NEW l \in Labels \ Critical,
         pc' = [pc EXCEPT ![r] = l], reply' \in [Requests -> Replies],
         cache' \in [Items -> CacheEntry],
         UNCHANGED <<items, processed, call, row, snap>>
  PROVE  IInv'
<1>1. \A s \in Requests : Order(s)' = Order(s) /\ Item(s)' = Item(s) /\ Qty(s)' = Qty(s)
  BY SameCalls
<1>2. \A s \in Requests : pc'[s] = pc[s] \/ pc'[s] = l
  BY DEF IInv, TypeOK
<1>3. TypeOK'
  BY DEF IInv, TypeOK
<1>4. ExclusiveRows'
  BY <1>1, <1>2 DEF IInv, ExclusiveRows, HoldsItem, HoldsOrder, ChangesOrder, Critical,
                    RestoreSteps
<1>5. DecisionHolds'
  BY <1>1, <1>2 DEF IInv, DecisionHolds, HoldsOrder, Critical, RestoreSteps
<1>6. RowsRead'
  BY <1>1, <1>2 DEF IInv, RowsRead, VersionMatches, Deducted, EnoughStock, Restored, Critical,
                    RestoreSteps
<1>7. NoOversell'
  BY DEF IInv, NoOversell, Abs!NoOversell
<1> QED
  BY <1>3, <1>4, <1>5, <1>6, <1>7 DEF IInv

\* The answer and the next call of StepAside, from the handlers' two ways to end.
LEMMA StepAsideAnswer ==
  ASSUME IInv, NEW r \in Requests, NEW a \in Replies, Answer(r, a),
         cache' \in [Items -> CacheEntry],
         UNCHANGED <<items, processed, call, row, snap>>
  PROVE  IInv'
<1>1. pc' = [pc EXCEPT ![r] = "done"] /\ reply' = [reply EXCEPT ![r] = a]
  BY DEF Answer
<1>2. reply' \in [Requests -> Replies]
  BY <1>1 DEF IInv, TypeOK
<1>3. "done" \in Labels \ Critical
  BY DEF Labels, Critical, RestoreSteps
<1> QED
  BY <1>1, <1>2, <1>3, StepAside

LEMMA StepAsideGoTo ==
  ASSUME IInv, NEW r \in Requests, NEW l \in Labels \ Critical, GoTo(r, l),
         UNCHANGED <<items, processed, cache, call, row, snap>>
  PROVE  IInv'
<1>1. pc' = [pc EXCEPT ![r] = l] /\ reply' \in [Requests -> Replies]
  BY DEF GoTo, IInv, TypeOK
<1>2. cache' \in [Items -> CacheEntry]
  BY DEF IInv, TypeOK
<1> QED
  BY <1>1, <1>2, StepAside

\* The SELECT ... FOR UPDATE takes the row of an order, if there is one.
LEMMA IsProcessedStep ==
  ASSUME IInv, NEW r \in Requests, IsProcessed(r)
  PROVE  IInv'
<1>1. CASE Order(r) \notin processed
  <2>1. GoTo(r, "findItem") \/ Answer(r, "nothing")
    BY <1>1 DEF IsProcessed
  <2>2. "findItem" \in Labels \ Critical /\ "nothing" \in Replies
    BY DEF Labels, InService, DeductSteps, Critical, RestoreSteps, Replies
  <2>3. cache' \in [Items -> CacheEntry] /\ UNCHANGED <<items, processed, cache, call, row, snap>>
    BY DEF IsProcessed, db, IInv, TypeOK
  <2> QED
    BY <2>1, <2>2, <2>3, StepAsideGoTo, StepAsideAnswer
<1>2. CASE Order(r) \in processed
  <2>1. PICK l \in {"ackProcessed", "addStock"} : pc' = [pc EXCEPT ![r] = l] /\ UNCHANGED reply
    BY <1>2 DEF IsProcessed, GoTo
  <2>2. OrderFree(r) /\ UNCHANGED <<items, processed, cache, call, row, snap>>
    BY DEF IsProcessed, db
  <2>3. \A s \in Requests : Order(s)' = Order(s) /\ Item(s)' = Item(s) /\ Qty(s)' = Qty(s)
    BY <2>2, SameCalls
  <2>4. \A s \in Requests : pc'[s] = (IF s = r THEN l ELSE pc[s])
    BY <2>1 DEF IInv, TypeOK
  <2>6. TypeOK'
    BY <2>1, <2>2 DEF IInv, TypeOK, Labels, InService, DeductSteps, RestoreSteps
  <2>7. ExclusiveRows'
    BY <2>2, <2>3, <2>4 DEF IInv, ExclusiveRows, OrderFree, HoldsItem, HoldsOrder, ChangesOrder,
                            RestoreSteps
  <2>8. DecisionHolds'
    BY <1>2, <2>2, <2>3, <2>4 DEF IInv, DecisionHolds, HoldsOrder, RestoreSteps
  <2>9. RowsRead'
    BY <2>2, <2>3, <2>4 DEF IInv, RowsRead, VersionMatches, Deducted, EnoughStock, Restored,
                            RestoreSteps
  <2>10. NoOversell'
    BY <2>2 DEF IInv, NoOversell, Abs!NoOversell
  <2> QED
    BY <2>6, <2>7, <2>8, <2>9, <2>10 DEF IInv
<1> QED
  BY <1>1, <1>2

\* The SELECT remembers the row the UPDATE will compare versions with.
LEMMA FindItemStep ==
  ASSUME IInv, NEW r \in Requests, FindItem(r)
  PROVE  IInv'
<1>1. UNCHANGED <<items, processed, cache, call, snap>> /\ cache' \in [Items -> CacheEntry]
  BY DEF FindItem, db, IInv, TypeOK
<1>2. CASE Item(r) \notin Stocked \/ ~EnoughStock(r)
  <2>1. UNCHANGED row /\ (GoTo(r, "zeroCache") \/ Answer(r, "notFound"))
    BY <1>2 DEF FindItem
  <2>2. "zeroCache" \in Labels \ Critical /\ "notFound" \in Replies
    BY DEF Labels, InService, DeductSteps, Critical, RestoreSteps, Replies
  <2> QED
    BY <1>1, <2>1, <2>2, StepAsideGoTo, StepAsideAnswer
<1>3. CASE Item(r) \in Stocked /\ EnoughStock(r)
  <2>1. /\ pc' = [pc EXCEPT ![r] = "updateStock"] /\ UNCHANGED reply
        /\ row' = [row EXCEPT ![r] = items[Item(r)]]
    BY <1>3 DEF FindItem, GoTo
  <2>2. \A s \in Requests : Order(s)' = Order(s) /\ Item(s)' = Item(s) /\ Qty(s)' = Qty(s)
    BY <1>1, SameCalls
  <2>3. \A s \in Requests : /\ pc'[s] = (IF s = r THEN "updateStock" ELSE pc[s])
                             /\ row'[s] = (IF s = r THEN items[Item(r)] ELSE row[s])
    BY <2>1 DEF IInv, TypeOK
  <2>4. items[Item(r)] \in Row /\ items[Item(r)].version \in Nat
    BY <1>3 DEF IInv, TypeOK, Row
  <2>5. TypeOK'
    BY <1>1, <2>1, <2>4 DEF IInv, TypeOK, Labels, InService, DeductSteps
  <2>6. ExclusiveRows'
    BY <2>2, <2>3 DEF IInv, ExclusiveRows, HoldsItem, HoldsOrder, ChangesOrder, RestoreSteps
  <2>7. DecisionHolds'
    BY <1>1, <2>2, <2>3 DEF IInv, DecisionHolds, HoldsOrder, RestoreSteps
  <2>8. RowsRead'
    BY <1>1, <1>3, <2>2, <2>3, <2>4
       DEF IInv, RowsRead, VersionMatches, Deducted, EnoughStock, Restored, RestoreSteps
  <2>9. NoOversell'
    BY <1>1 DEF IInv, NoOversell, Abs!NoOversell
  <2> QED
    BY <2>5, <2>6, <2>7, <2>8, <2>9 DEF IInv
<1> QED
  BY <1>2, <1>3

\* A step of a transaction that keeps the tables and takes the lock of its item.
LEMMA LockItem ==
  ASSUME IInv, NEW r \in Requests, NEW l \in {"markProcessed", "unmark"}, NEW w \in Row,
         pc' = [pc EXCEPT ![r] = l], row' = [row EXCEPT ![r] = w],
         pc[r] = (IF l = "unmark" THEN "addStock" ELSE "updateStock"),
         Item(r) \in Stocked => w = (IF l = "unmark" THEN Restored(r) ELSE Deducted(r)),
         l = "markProcessed" => EnoughStock(r),
         ItemFree(r), UNCHANGED <<items, processed, cache, call, reply, snap>>
  PROVE  IInv'
<1>1. \A s \in Requests : Order(s)' = Order(s) /\ Item(s)' = Item(s) /\ Qty(s)' = Qty(s)
  BY SameCalls
<1>2. \A s \in Requests : /\ pc'[s] = (IF s = r THEN l ELSE pc[s])
                           /\ row'[s] = (IF s = r THEN w ELSE row[s])
  BY DEF IInv, TypeOK
<1>3. TypeOK'
  BY DEF IInv, TypeOK, Labels, InService, DeductSteps, RestoreSteps
<1>4. ExclusiveRows'
  BY <1>1, <1>2 DEF IInv, ExclusiveRows, ItemFree, HoldsItem, HoldsOrder, ChangesOrder,
                    RestoreSteps
<1>5. DecisionHolds'
  BY <1>1, <1>2 DEF IInv, DecisionHolds, HoldsOrder, RestoreSteps
<1>6. RowsRead'
  <2> SUFFICES ASSUME NEW s \in Requests PROVE RowsRead!(s)'
    BY DEF RowsRead
  <2> QED
    BY <1>1, <1>2
       DEF IInv, RowsRead, VersionMatches, Deducted, EnoughStock, Restored, RestoreSteps
<1>7. NoOversell'
  BY DEF IInv, NoOversell, Abs!NoOversell
<1> QED
  BY <1>3, <1>4, <1>5, <1>6, <1>7 DEF IInv

\* The UPDATE with the version test: it keeps what it read, or gives up.
LEMMA UpdateStockStep ==
  ASSUME IInv, NEW r \in Requests, UpdateStock(r)
  PROVE  IInv'
<1>1. CASE ~VersionMatches(r)
  <2>1. Answer(r, "conflict") /\ UNCHANGED <<items, processed, cache, call, row, snap>>
    BY <1>1 DEF UpdateStock, db
  <2>2. "conflict" \in Replies /\ cache' \in [Items -> CacheEntry]
    BY <2>1 DEF Replies, IInv, TypeOK
  <2> QED
    BY <2>1, <2>2, StepAsideAnswer
<1>2. CASE VersionMatches(r)
  <2>1. /\ pc[r] = "updateStock" /\ ItemFree(r)
        /\ pc' = [pc EXCEPT ![r] = "markProcessed"] /\ row' = [row EXCEPT ![r] = Deducted(r)]
        /\ UNCHANGED <<items, processed, cache, call, reply, snap>>
    BY <1>2 DEF UpdateStock, db, GoTo
  <2>2. Item(r) \in Stocked /\ EnoughStock(r)
    BY <1>2, <2>1 DEF IInv, RowsRead, EnoughStock
  <2>3. Deducted(r) \in Row
    BY <2>2, RequestTypes DEF IInv, TypeOK, Row, Deducted
  <2> QED
    BY <2>1, <2>2, <2>3, LockItem
<1> QED
  BY <1>1, <1>2

LEMMA AddStockStep ==
  ASSUME IInv, NEW r \in Requests, AddStock(r)
  PROVE  IInv'
<1>1. /\ pc[r] = "addStock" /\ ItemFree(r)
      /\ pc' = [pc EXCEPT ![r] = "unmark"]
      /\ UNCHANGED <<items, processed, cache, call, reply, snap>>
  BY DEF AddStock, db, GoTo
<1>2. CASE Item(r) \in Stocked
  <2>1. row' = [row EXCEPT ![r] = Restored(r)]
    BY <1>2 DEF AddStock
  <2>2. Restored(r) \in Row
    BY <1>2, RequestTypes DEF IInv, TypeOK, Row, Restored
  <2> QED
    BY <1>1, <2>1, <2>2, LockItem
<1>3. CASE Item(r) \notin Stocked
  <2>1. row[r] \in Row /\ row' = [row EXCEPT ![r] = row[r]]
    BY <1>3 DEF AddStock, IInv, TypeOK
  <2> QED
    BY <1>1, <1>3, <2>1, LockItem
<1> QED
  BY <1>2, <1>3

\* The INSERT or the DELETE of an order's record, not committed yet.
LEMMA ChangeOrder ==
  ASSUME IInv, NEW r \in Requests, NEW l \in {"commit", "commitRestore"},
         pc' = [pc EXCEPT ![r] = l],
         pc[r] = (IF l = "commit" THEN "markProcessed" ELSE "unmark"),
         l = "commit" => Order(r) \notin processed /\ KeyFree(r),
         UNCHANGED <<items, processed, cache, call, row, reply, snap>>
  PROVE  IInv'
<1>1. \A s \in Requests : Order(s)' = Order(s) /\ Item(s)' = Item(s) /\ Qty(s)' = Qty(s)
  BY SameCalls
<1>2. \A s \in Requests : pc'[s] = (IF s = r THEN l ELSE pc[s])
  BY DEF IInv, TypeOK
<1>3. TypeOK'
  BY DEF IInv, TypeOK, Labels, InService, DeductSteps, RestoreSteps
<1>4. ExclusiveRows'
  <2>1. CASE l = "commit"
    BY <1>1, <1>2, <2>1 DEF IInv, ExclusiveRows, KeyFree, HoldsItem, HoldsOrder, ChangesOrder,
                            RestoreSteps
  <2>2. CASE l = "commitRestore"
    <3>1. \A s \in Requests : s # r /\ ChangesOrder(s) => Order(s) # Order(r)
      BY <2>2 DEF IInv, ExclusiveRows, DecisionHolds, HoldsOrder, ChangesOrder, RestoreSteps
    <3> QED
      BY <1>1, <1>2, <2>2, <3>1 DEF IInv, ExclusiveRows, HoldsItem, HoldsOrder, ChangesOrder,
                                    RestoreSteps
  <2> QED
    BY <2>1, <2>2
<1>5. DecisionHolds'
  BY <1>1, <1>2 DEF IInv, DecisionHolds, HoldsOrder, RestoreSteps
<1>6. RowsRead'
  <2> SUFFICES ASSUME NEW s \in Requests PROVE RowsRead!(s)'
    BY DEF RowsRead
  <2> QED
    BY <1>1, <1>2
       DEF IInv, RowsRead, VersionMatches, Deducted, EnoughStock, Restored, RestoreSteps
<1>7. NoOversell'
  BY DEF IInv, NoOversell, Abs!NoOversell
<1> QED
  BY <1>3, <1>4, <1>5, <1>6, <1>7 DEF IInv

LEMMA MarkProcessedStep ==
  ASSUME IInv, NEW r \in Requests, MarkProcessed(r)
  PROVE  IInv'
<1>1. /\ pc[r] = "markProcessed" /\ KeyFree(r)
      /\ UNCHANGED <<items, processed, cache, call, row, snap>>
      /\ cache' \in [Items -> CacheEntry] /\ "error" \in Replies
  BY DEF MarkProcessed, db, IInv, TypeOK, Replies
<1>2. CASE DuplicateKey(r)
  BY <1>1, <1>2, StepAsideAnswer DEF MarkProcessed
<1>3. CASE ~DuplicateKey(r)
  <2>1. pc' = [pc EXCEPT ![r] = "commit"] /\ UNCHANGED reply
    BY <1>3 DEF MarkProcessed, GoTo
  <2>2. Order(r) \notin processed
    BY <1>3 DEF DuplicateKey
  <2> QED
    BY <1>1, <2>1, <2>2, ChangeOrder
<1> QED
  BY <1>2, <1>3

LEMMA UnmarkStep ==
  ASSUME IInv, NEW r \in Requests, Unmark(r)
  PROVE  IInv'
<1>1. /\ pc[r] = "unmark" /\ pc' = [pc EXCEPT ![r] = "commitRestore"]
      /\ UNCHANGED <<items, processed, cache, call, row, reply, snap>>
  BY DEF Unmark, db, GoTo
<1> QED
  BY <1>1, ChangeOrder

\* Facts both COMMITs share: what r wrote replaces the row of its item, whose lock
\* keeps every other writer away; readers find a newer version.
LEMMA CommitRow ==
  ASSUME IInv, NEW r \in Requests,
         pc[r] \in {"commit", "commitRestore"}, NEW l \in {"setCache", "done"},
         pc' = [pc EXCEPT ![r] = l], reply' \in [Requests -> Replies],
         items' = [items EXCEPT ![Item(r)] = row[r]],
         Item(r) \in Stocked, processed' \subseteq Orders,
         UNCHANGED <<cache, call, row, snap>>
  PROVE  TypeOK' /\ ExclusiveRows' /\ RowsRead' /\ NoOversell'
<1>1. \A s \in Requests : Order(s)' = Order(s) /\ Item(s)' = Item(s) /\ Qty(s)' = Qty(s)
  BY SameCalls
<1>2. \A s \in Requests : pc'[s] = (IF s = r THEN l ELSE pc[s])
  BY DEF IInv, TypeOK
<1>3. Item(r) \in Stocked /\ row[r] \in Row
  BY DEF IInv, TypeOK, RowsRead, RestoreSteps
<1>4. \A i \in Stocked : items'[i] = (IF i = Item(r) THEN row[r] ELSE items[i])
  BY DEF IInv, TypeOK
<1>5. /\ items[Item(r)].version \in Nat /\ items[Item(r)].stock \in Nat
      /\ Qty(r) \in Nat \ {0}
  BY <1>3, RequestTypes DEF IInv, TypeOK, NoOversell, Abs!NoOversell, Row
<1>6. row[r].version = items[Item(r)].version + 1 /\ row[r].stock \in Nat
  <2>1. CASE pc[r] = "commit"
    <3>1. row[r] = Deducted(r) /\ EnoughStock(r)
      BY <2>1 DEF IInv, RowsRead
    <3> QED
      BY <1>5, <3>1 DEF Deducted, EnoughStock
  <2>2. CASE pc[r] = "commitRestore"
    <3>1. row[r] = Restored(r)
      BY <2>2 DEF IInv, RowsRead
    <3> QED
      BY <1>5, <3>1 DEF Restored
  <2> QED
    BY <2>1, <2>2
<1>7. TypeOK'
  BY <1>3, <1>4 DEF IInv, TypeOK, Labels, InService, SharedSteps
<1>8. ExclusiveRows'
  BY <1>1, <1>2 DEF IInv, ExclusiveRows, HoldsItem, HoldsOrder, ChangesOrder, RestoreSteps
<1>9. RowsRead'
  <2> SUFFICES ASSUME NEW s \in Requests PROVE RowsRead!(s)'
    BY DEF RowsRead
  <2>1. CASE s = r
    BY <1>2, <2>1 DEF RowsRead, RestoreSteps
  <2>2. CASE s # r /\ (HoldsItem(s) \/ Item(s) # Item(r))
    <3>1. Item(s) # Item(r)
      BY <2>2 DEF IInv, ExclusiveRows, HoldsItem
    <3>2. Item(s) \in Stocked => items'[Item(s)] = items[Item(s)]
      BY <1>4, <3>1
    <3> QED
      BY <1>1, <1>2, <2>2, <3>2
         DEF IInv, RowsRead, VersionMatches, Deducted, EnoughStock, Restored, RestoreSteps
  <2>3. CASE s # r /\ ~HoldsItem(s) /\ Item(s) = Item(r)
    <3>1. items'[Item(s)] = row[r]
      BY <1>3, <1>4, <2>3
    <3>2. row[s].version \in Nat
      BY DEF IInv, TypeOK, Row
    <3> QED
      BY <1>1, <1>2, <1>3, <1>5, <1>6, <2>3, <3>1, <3>2
         DEF IInv, RowsRead, VersionMatches, HoldsItem, RestoreSteps
  <2> QED
    BY <2>1, <2>2, <2>3
<1>10. NoOversell'
  BY <1>4, <1>6 DEF IInv, NoOversell, Abs!NoOversell
<1> QED
  BY <1>7, <1>8, <1>9, <1>10

\* The COMMIT of a restore that found no row of the item its body names.
LEMMA CommitNoRow ==
  ASSUME IInv, NEW r \in Requests, Item(r) \notin Stocked, NEW l \in {"setCache", "done"},
         pc' = [pc EXCEPT ![r] = l], reply' \in [Requests -> Replies],
         processed' \subseteq Orders, UNCHANGED <<items, cache, call, row, snap>>
  PROVE  TypeOK' /\ ExclusiveRows' /\ RowsRead' /\ NoOversell'
<1>1. \A s \in Requests : Order(s)' = Order(s) /\ Item(s)' = Item(s) /\ Qty(s)' = Qty(s)
  BY SameCalls
<1>2. \A s \in Requests : pc'[s] = (IF s = r THEN l ELSE pc[s])
  BY DEF IInv, TypeOK
<1>3. TypeOK'
  BY DEF IInv, TypeOK, Labels, InService, SharedSteps
<1>4. ExclusiveRows'
  BY <1>1, <1>2 DEF IInv, ExclusiveRows, HoldsItem, HoldsOrder, ChangesOrder, RestoreSteps
<1>5. RowsRead'
  BY <1>1, <1>2 DEF IInv, RowsRead, VersionMatches, Deducted, EnoughStock, Restored
<1>6. NoOversell'
  BY DEF IInv, NoOversell, Abs!NoOversell
<1> QED
  BY <1>3, <1>4, <1>5, <1>6

LEMMA CommitStep ==
  ASSUME IInv, NEW r \in Requests, Commit(r)
  PROVE  IInv'
<1>1. /\ pc[r] = "commit" /\ items' = [items EXCEPT ![Item(r)] = row[r]]
      /\ processed' = processed \union {Order(r)} /\ UNCHANGED <<cache, call, row, snap>>
  BY DEF Commit
<1>2. PICK l \in {"setCache", "done"} : pc' = [pc EXCEPT ![r] = l]
  BY DEF Commit, GoTo, Answer
<1>3. reply' \in [Requests -> Replies]
  BY DEF Commit, GoTo, Answer, IInv, TypeOK, Replies
<1>4. processed' \subseteq Orders /\ Item(r) \in Stocked
  BY <1>1, RequestTypes DEF IInv, TypeOK, RowsRead
<1>5. \A s \in Requests : pc'[s] = (IF s = r THEN l ELSE pc[s])
  BY <1>2 DEF IInv, TypeOK
<1>6. \A s \in Requests : s # r /\ pc[s] = "commit" => Order(s) # Order(r)
  BY <1>1 DEF IInv, ExclusiveRows, ChangesOrder
<1>7. \A s \in Requests : Order(s)' = Order(s)
  BY <1>1, SameCalls
<1>8. DecisionHolds'
  BY <1>1, <1>5, <1>6, <1>7 DEF IInv, DecisionHolds, HoldsOrder, RestoreSteps
<1> QED
  BY <1>1, <1>2, <1>3, <1>4, <1>8, CommitRow DEF IInv

LEMMA CommitRestoreStep ==
  ASSUME IInv, NEW r \in Requests, CommitRestore(r)
  PROVE  IInv'
<1>1. /\ pc[r] = "commitRestore" 
      /\ items' = IF Item(r) \in Stocked THEN [items EXCEPT ![Item(r)] = row[r]] ELSE items
      /\ processed' = processed \ {Order(r)} /\ UNCHANGED <<cache, call, row, snap>>
  BY DEF CommitRestore
<1>2. PICK l \in {"setCache", "done"} : pc' = [pc EXCEPT ![r] = l]
  BY DEF CommitRestore, GoTo, Answer
<1>3. reply' \in [Requests -> Replies]
  BY DEF CommitRestore, GoTo, Answer, IInv, TypeOK, Replies
<1>4. processed' \subseteq Orders
  BY <1>1 DEF IInv, TypeOK
<1>5. \A s \in Requests : pc'[s] = (IF s = r THEN l ELSE pc[s])
  BY <1>2 DEF IInv, TypeOK
<1>6. \A s \in Requests : s # r /\ HoldsOrder(s) => Order(s) # Order(r)
  BY <1>1 DEF IInv, ExclusiveRows, HoldsOrder, RestoreSteps
<1>7. \A s \in Requests : Order(s)' = Order(s)
  BY <1>1, SameCalls
<1>8. DecisionHolds'
  BY <1>1, <1>5, <1>6, <1>7 DEF IInv, DecisionHolds, HoldsOrder, RestoreSteps
<1>9. TypeOK' /\ ExclusiveRows' /\ RowsRead' /\ NoOversell'
  <2>1. CASE Item(r) \in Stocked
    BY <1>1, <1>2, <1>3, <1>4, <2>1, CommitRow
  <2>2. CASE Item(r) \notin Stocked
    BY <1>1, <1>2, <1>3, <1>4, <2>2, CommitNoRow
  <2> QED
    BY <2>1, <2>2
<1> QED
  BY <1>8, <1>9 DEF IInv

\* Whatever happens to the cache, to a refresh and to requests that hold nothing.
LEMMA Background ==
  ASSUME IInv, UNCHANGED <<items, processed, call, pc, row, reply>>,
         cache' \in [Items -> CacheEntry],
         snap' \in [Refreshers -> SUBSET [Stocked -> Row]]
  PROVE  IInv'
<1>1. \A s \in Requests : Order(s)' = Order(s) /\ Item(s)' = Item(s) /\ Qty(s)' = Qty(s)
  BY SameCalls
<1>2. TypeOK'
  BY DEF IInv, TypeOK
<1>3. ExclusiveRows'
  BY <1>1 DEF IInv, ExclusiveRows, HoldsItem, HoldsOrder, ChangesOrder
<1>4. DecisionHolds'
  BY <1>1 DEF IInv, DecisionHolds, HoldsOrder
<1>5. RowsRead'
  BY <1>1 DEF IInv, RowsRead, VersionMatches, Deducted, EnoughStock, Restored
<1>6. NoOversell'
  BY DEF IInv, NoOversell, Abs!NoOversell
<1> QED
  BY <1>2, <1>3, <1>4, <1>5, <1>6 DEF IInv

LEMMA RefreshStep ==
  ASSUME IInv, NEW f \in Refreshers, RefreshRead(f) \/ RefreshWrite(f) \/ RefreshFail(f)
  PROVE  IInv'
<1>1. CASE RefreshRead(f)
  BY <1>1, Background DEF RefreshRead, db, IInv, TypeOK
<1>2. CASE RefreshWrite(f)
  <2>1. PICK table \in snap[f] :
          cache' = [i \in Items |-> IF i \in Stocked THEN Refreshed(i, table) ELSE cache[i]]
    BY <1>2 DEF RefreshWrite
  <2>2. table \in [Stocked -> Row]
    BY DEF IInv, TypeOK
  <2>3. cache' \in [Items -> CacheEntry]
    BY <2>1, <2>2 DEF IInv, TypeOK, Refreshed, Row, CacheEntry
  <2>4. /\ UNCHANGED <<items, processed, call, pc, row, reply>>
        /\ snap' \in [Refreshers -> SUBSET [Stocked -> Row]]
    BY <1>2 DEF RefreshWrite, db, IInv, TypeOK
  <2> QED
    BY <2>3, <2>4, Background
<1>3. CASE RefreshFail(f)
  BY <1>3, Background DEF RefreshFail, db, IInv, TypeOK
<1> QED
  BY <1>1, <1>2, <1>3

LEMMA ExpireStep ==
  ASSUME IInv, NEW i \in Items, Expire(i)
  PROVE  IInv'
  BY Background DEF Expire, db, IInv, TypeOK, CacheEntry

\* A crash rolls back every transaction that has not committed.
LEMMA CrashStep ==
  ASSUME IInv, Crash
  PROVE  IInv'
<1>1. \A s \in Requests : Order(s)' = Order(s) /\ Item(s)' = Item(s) /\ Qty(s)' = Qty(s)
  BY SameCalls DEF Crash
<1>2. \A s \in Requests : pc'[s] \in {"idle", "done"}
  BY DEF Crash, InFlight
<1>3. TypeOK'
  BY DEF Crash, db, IInv, TypeOK, Labels, Replies
<1>4. ExclusiveRows' /\ DecisionHolds' /\ RowsRead'
  BY <1>1, <1>2 DEF ExclusiveRows, DecisionHolds, RowsRead, HoldsItem, HoldsOrder, ChangesOrder,
                    RestoreSteps
<1>5. NoOversell'
  BY DEF Crash, db, IInv, NoOversell, Abs!NoOversell
<1> QED
  BY <1>3, <1>4, <1>5 DEF IInv

\* The steps that only move a request on or answer it.
LEMMA QuietStep ==
  ASSUME IInv, NEW r \in Requests,
         Receive(r) \/ CheckCache(r) \/ Connect(r) \/ AckProcessed(r) \/ ZeroCache(r)
           \/ SetCache(r) \/ Fail(r)
  PROVE  IInv'
<1>1. /\ {"getCache", "connect", "isProcessed"} \subseteq Labels \ Critical
      /\ {"outOfStockCached", "already", "outOfStock", "success", "restored", "error"}
           \subseteq Replies
  BY DEF Labels, InService, SharedSteps, Critical, RestoreSteps, Replies
<1>2. cache \in [Items -> CacheEntry] /\ cache' \in [Items -> CacheEntry]
  <2>1. cache' = cache \/ cache' = [cache EXCEPT ![Item(r)] = 0]
        \/ cache' = [cache EXCEPT ![Item(r)] = row[r].stock]
    BY DEF Receive, CheckCache, Connect, AckProcessed, ZeroCache, SetCache, Fail, CachedValue
  <2>2. row[r].stock \in Int
    BY DEF IInv, TypeOK, Row
  <2> QED
    BY <2>1, <2>2 DEF IInv, TypeOK, CacheEntry
<1>3. UNCHANGED <<items, processed, call, row, snap>>
  BY DEF Receive, CheckCache, Connect, AckProcessed, ZeroCache, SetCache, Fail, db
<1>4. \/ \E a \in Replies : Answer(r, a)
      \/ UNCHANGED cache /\ \E l \in {"getCache", "connect", "isProcessed"} : GoTo(r, l)
  BY <1>1 DEF Receive, CheckCache, Connect, AckProcessed, ZeroCache, SetCache, Fail
<1> QED
  BY <1>1, <1>2, <1>3, <1>4, StepAsideAnswer, StepAsideGoTo

LEMMA NextIInv == IInv /\ [Next]_vars => IInv'
<1> SUFFICES ASSUME IInv, [Next]_vars PROVE IInv'
  OBVIOUS
<1>1. ASSUME NEW r \in Requests, Receive(r) \/ Handle(r) \/ Fail(r) PROVE IInv'
  BY <1>1, QuietStep, IsProcessedStep, FindItemStep, UpdateStockStep, MarkProcessedStep,
     CommitStep, AddStockStep, UnmarkStep, CommitRestoreStep DEF Handle
<1>2. CASE UNCHANGED vars
  BY <1>2, Background DEF vars, IInv, TypeOK
<1> QED
  BY <1>1, <1>2, RefreshStep, ExpireStep, CrashStep DEF Next

-----------------------------------------------------------------------------
\* In every reachable state, whatever the number of requests, orders, items and
\* connections: every variable has its type, no item is oversold, row changes are
\* exclusive and every idempotency decision still holds when it is acted on.
THEOREM StockSafety == Spec => []IInv
  BY InitIInv, NextIInv, PTL DEF Spec

\* Every variable of the service keeps its type.
THEOREM StockTypeCorrect == Spec => []TypeOK
  BY StockSafety, PTL DEF IInv

\* deductStock never sells an item below zero, however many requests are in flight.
THEOREM StockNoOversell == Spec => []NoOversell
  BY StockSafety, PTL DEF IInv

\* stockService.ts never acts on an idempotency decision that no longer holds.
THEOREM StockDecisionHolds == Spec => []DecisionHolds
  BY StockSafety, PTL DEF IInv

-----------------------------------------------------------------------------
(* The refinement: the committed tables are the inventory.                 *)

LEMMA RefinesInit == Init => Abs!Init
<1> SUFFICES ASSUME Init PROVE Abs!Init
  OBVIOUS
<1>1. [i \in Stocked |-> items[i].stock] = InitialStock
  BY StockAssumption DEF Init
<1> QED
  BY <1>1 DEF Init, Abs!Init

LEMMA CommitDeducts ==
  ASSUME IInv, SameBodies, NEW r \in Requests, Commit(r)
  PROVE  \E o \in Orders : Abs!Deduct(o)
<1>1. /\ pc[r] = "commit" /\ items' = [items EXCEPT ![Item(r)] = row[r]]
      /\ processed' = processed \union {Order(r)}
  BY DEF Commit
<1>2. Order(r) \notin processed
  BY <1>1 DEF IInv, DecisionHolds
<1>3. Item(r) \in Stocked /\ row[r] = Deducted(r) /\ EnoughStock(r)
  BY <1>1 DEF IInv, RowsRead
<1>4. PICK o \in Orders : o = Order(r) /\ Item(r) = ItemOf[o] /\ Qty(r) = QtyOf[o]
  BY RequestTypes DEF IInv, SameBodies
<1>5. \A i \in Stocked :
        items'[i].stock = (IF i = Item(r) THEN items[i].stock - Qty(r) ELSE items[i].stock)
  BY <1>1, <1>3 DEF IInv, TypeOK, Deducted
<1>6. Abs!Available(o)
  BY <1>3, <1>4 DEF Abs!Available, EnoughStock
<1>7. [i \in Stocked |-> items'[i].stock] =
        [[i \in Stocked |-> items[i].stock] EXCEPT ![ItemOf[o]] = @ - QtyOf[o]]
  BY <1>3, <1>4, <1>5
<1> QED
  BY <1>1, <1>2, <1>4, <1>6, <1>7 DEF Abs!Deduct

LEMMA CommitRestores ==
  ASSUME IInv, SameBodies, Abs!TypeOK, NEW r \in Requests, CommitRestore(r)
  PROVE  \E o \in Orders : Abs!Restore(o)
<1>1. /\ pc[r] = "commitRestore" /\ processed' = processed \ {Order(r)}
      /\ Item(r) \in Stocked => items' = [items EXCEPT ![Item(r)] = row[r]]
  BY DEF CommitRestore
<1>2. Order(r) \in processed
  BY <1>1 DEF IInv, DecisionHolds, HoldsOrder, RestoreSteps
\* What is recorded under an order id with one body is of an item in the table.
<1>3. Item(r) \in Stocked /\ row[r] = Restored(r)
  <2>1. Item(r) \in Stocked
    BY <1>2 DEF Abs!TypeOK, SameBodies
  <2> QED
    BY <1>1, <2>1 DEF IInv, RowsRead
<1>4. PICK o \in Orders : o = Order(r) /\ Item(r) = ItemOf[o] /\ Qty(r) = QtyOf[o]
  BY RequestTypes DEF IInv, SameBodies
<1>5. \A i \in Stocked :
        items'[i].stock = (IF i = Item(r) THEN items[i].stock + Qty(r) ELSE items[i].stock)
  BY <1>1, <1>3 DEF IInv, TypeOK, Restored
<1>6. [i \in Stocked |-> items'[i].stock] =
        [[i \in Stocked |-> items[i].stock] EXCEPT ![ItemOf[o]] = @ + QtyOf[o]]
  BY <1>3, <1>4, <1>5
<1> QED
  BY <1>1, <1>2, <1>4, <1>6 DEF Abs!Restore

\* Only the two COMMITs change a table.
LEMMA TablesKept ==
  ASSUME [Next]_vars, ~\E r \in Requests : Commit(r) \/ CommitRestore(r)
  PROVE  UNCHANGED <<items, processed>>
<1>1. ASSUME NEW r \in Requests, Receive(r) \/ Handle(r) \/ Fail(r)
      PROVE  UNCHANGED <<items, processed>>
  BY <1>1 DEF Receive, Fail, Handle, CheckCache, Connect, IsProcessed, AckProcessed, FindItem,
              ZeroCache, UpdateStock, MarkProcessed, SetCache, AddStock, Unmark, db
<1> QED
  BY <1>1 DEF Next, RefreshRead, RefreshWrite, RefreshFail, Expire, Crash, vars, db

LEMMA RefinesNext ==
  IInv /\ SameBodies /\ Abs!TypeOK /\ [Next]_vars => [Abs!Next]_(Abs!inventory)
<1> SUFFICES ASSUME IInv, SameBodies, Abs!TypeOK, [Next]_vars PROVE [Abs!Next]_(Abs!inventory)
  OBVIOUS
<1>1. ASSUME NEW r \in Requests, Commit(r) PROVE Abs!Next
  <2>1. PICK o \in Orders : Abs!Deduct(o)
    BY <1>1, CommitDeducts
  <2> QED
    BY <2>1 DEF Abs!Next
<1>2. ASSUME NEW r \in Requests, CommitRestore(r) PROVE Abs!Next
  <2>1. PICK o \in Orders : Abs!Restore(o)
    BY <1>2, CommitRestores
  <2> QED
    BY <2>1 DEF Abs!Next
<1>3. CASE ~\E r \in Requests : Commit(r) \/ CommitRestore(r)
  BY <1>3, TablesKept DEF Abs!inventory
<1> QED
  BY <1>1, <1>2, <1>3

AbsProofs == INSTANCE InventoryProofs
               WITH stock <- [i \in Stocked |-> items[i].stock], deducted <- processed

\* As long as the bodies of an order id agree, the tables are in order.
BooksInv == IInv /\ (SameBodies => AbsProofs!InvInventory)

LEMMA SameInventory ==
  /\ AbsProofs!InventoryAssumption
  /\ Abs!Init => AbsProofs!Init
  /\ [Abs!Next]_(Abs!inventory) => [AbsProofs!Next]_(AbsProofs!inventory)
  /\ AbsProofs!InvInventory => Abs!TypeOK /\ Abs!Conservation
<1>1. AbsProofs!InventoryAssumption
  BY StockAssumption DEF AbsProofs!InventoryAssumption, IsFiniteSet, AbsProofs!IsFiniteSet
<1>2. Abs!Init => AbsProofs!Init
  BY DEF Abs!Init, AbsProofs!Init
<1>3. [Abs!Next]_(Abs!inventory) => [AbsProofs!Next]_(AbsProofs!inventory)
  BY DEF Abs!Next, Abs!Deduct, Abs!Restore, Abs!Available, Abs!inventory,
         AbsProofs!Next, AbsProofs!Deduct, AbsProofs!Restore, AbsProofs!Available,
         AbsProofs!inventory
<1>4. AbsProofs!InvInventory => Abs!TypeOK
  BY DEF AbsProofs!InvInventory, Abs!TypeOK, AbsProofs!TypeOK
<1>5. AbsProofs!InvInventory => Abs!Conservation
  BY DEF AbsProofs!InvInventory, Abs!Conservation, AbsProofs!Conservation, Abs!SoldPortions,
         AbsProofs!SoldPortions, Abs!PortionsOf, AbsProofs!PortionsOf,
         Abs!Cardinality, AbsProofs!Cardinality
<1> QED
  BY <1>1, <1>2, <1>3, <1>4, <1>5

LEMMA InitBooks == Init => BooksInv
<1> SUFFICES ASSUME Init PROVE BooksInv
  OBVIOUS
<1>1. AbsProofs!Init => AbsProofs!InvInventory
  BY SameInventory, AbsProofs!InventoryInit
<1> QED
  BY <1>1, RefinesInit, SameInventory, InitIInv DEF BooksInv

LEMMA BodiesStay == [Next]_vars => (SameBodies' <=> SameBodies)
<1> SUFFICES ASSUME [Next]_vars PROVE UNCHANGED call
  BY SameCalls DEF SameBodies
<1>1. ASSUME NEW r \in Requests, Receive(r) \/ Handle(r) \/ Fail(r) PROVE UNCHANGED call
  BY <1>1 DEF Receive, Fail, Handle, CheckCache, Connect, IsProcessed, AckProcessed, FindItem,
              ZeroCache, UpdateStock, MarkProcessed, Commit, SetCache, AddStock, Unmark,
              CommitRestore
<1> QED
  BY <1>1 DEF Next, RefreshRead, RefreshWrite, RefreshFail, Expire, Crash, vars

LEMMA NextBooks ==
  BooksInv /\ [Next]_vars => BooksInv' /\ [SameBodies => Abs!Next]_(Abs!inventory)
<1> SUFFICES ASSUME BooksInv, [Next]_vars
             PROVE  BooksInv' /\ [SameBodies => Abs!Next]_(Abs!inventory)
  OBVIOUS
<1>1. IInv'
  BY NextIInv DEF BooksInv
<1>2. SameBodies => [Abs!Next]_(Abs!inventory)
  BY SameInventory, RefinesNext DEF BooksInv
<1>3. AbsProofs!InvInventory /\ [AbsProofs!Next]_(AbsProofs!inventory) => AbsProofs!InvInventory'
  BY SameInventory, AbsProofs!InventoryStep
<1>4. SameBodies' => AbsProofs!InvInventory'
  BY <1>2, <1>3, SameInventory, BodiesStay DEF BooksInv
<1> QED
  BY <1>1, <1>2, <1>4 DEF BooksInv

\* stock-service implements the inventory it promises, through every interleaving of
\* its statements, lost acknowledgements, cache failures and crashes, for requests that
\* agree on what an order asks for.
THEOREM StockImplementsInventory == Spec => ImplementsInventory
<1>1. Init => Abs!Init
  BY RefinesInit
<1> QED
  BY <1>1, InitBooks, NextBooks, PTL DEF Spec, ImplementsInventory

\* A committed stock change always bumps the version, so that every concurrent
\* version test notices it.
THEOREM StockNoSilentChange == Spec => NoSilentChange
<1>1. IInv /\ [Next]_vars =>
        [\A i \in Stocked : items'[i].stock # items[i].stock =>
           items'[i].version = items[i].version + 1]_vars
  <2> SUFFICES ASSUME IInv, [Next]_vars, NEW i \in Stocked, items'[i].stock # items[i].stock
               PROVE  items'[i].version = items[i].version + 1
    OBVIOUS
  <2>1. PICK r \in Requests : Commit(r) \/ CommitRestore(r)
    BY TablesKept
  <2>2. i = Item(r) /\ items'[i] = row[r]
    BY <2>1 DEF Commit, CommitRestore, IInv, TypeOK
  <2>3. row[r] = Deducted(r) \/ row[r] = Restored(r)
    BY <2>1 DEF Commit, CommitRestore, IInv, RowsRead
  <2> QED
    BY <2>2, <2>3 DEF Deducted, Restored
<1> QED
  BY <1>1, StockSafety, PTL DEF Spec, NoSilentChange

\* No interleaving, retry, failure or crash makes the two tables disagree: the stock
\* an item has lost is exactly what its processed orders hold, if every body about an order
\* asks for the same.
THEOREM StockConservation == Spec => []Conservation
<1>1. BooksInv => Conservation
  BY SameInventory DEF BooksInv, Conservation
<1> QED
  BY <1>1, InitBooks, NextBooks, PTL DEF Spec

-----------------------------------------------------------------------------
(* The answers.  AnswersTrue is not inductive: it says nothing of a        *)
(* deduction that has committed and not answered, nor of who may answer    *)
(* what.                                                                   *)

Others(r) == {s \in Requests \ {r} : Order(s) = Order(r) /\ pc[s] # "idle"}

\* A handler runs only the steps of its operation, and answers once.
OpFits(r) ==
  /\ pc[r] \in DeductSteps \union {"getCache"} => call[r].op = "deduct"
  /\ pc[r] \in RestoreSteps => call[r].op = "restore"
  /\ pc[r] # "done" => reply[r] = "none"

Acknowledged(r) ==
  \/ reply[r] \in {"success", "already"}
  \/ pc[r] = "setCache" /\ call[r].op = "deduct"

\* Only a restore of the same order takes back what was acknowledged.
Kept(r) ==
  Acknowledged(r) /\ (\A s \in Others(r) : call[s].op = "deduct") => Order(r) \in processed

\* An order that was sent once is processed only by the deduction it was sent with.
Alone(r) ==
  (Others(r) = {} /\ Order(r) \in processed) =>
    \/ pc[r] = "setCache" /\ call[r].op = "deduct"
    \/ pc[r] = "done" /\ reply[r] \in {"success", "error", "lost"}

AnswerInv == IInv /\ \A r \in Requests : OpFits(r) /\ Kept(r) /\ Alone(r)

LEMMA InitAnswer == Init => AnswerInv
<1> SUFFICES ASSUME Init, NEW r \in Requests PROVE OpFits(r) /\ Kept(r) /\ Alone(r)
  BY InitIInv DEF AnswerInv
<1>1. pc[r] = "idle" /\ reply[r] = "none" /\ processed = {}
  BY DEF Init
<1> QED
  BY <1>1 DEF OpFits, Kept, Acknowledged, Alone, DeductSteps, RestoreSteps

\* Who else has sent an order is only ever added to.
LEMMA OthersGrow ==
  ASSUME AnswerInv, UNCHANGED call,
         \A s \in Requests : pc'[s] = pc[s] \/ pc'[s] # "idle"
  PROVE  \A s \in Requests : Others(s) \subseteq Others(s)' /\ Order(s)' = Order(s)
<1>1. \A s \in Requests : Order(s)' = Order(s)
  BY SameCalls
<1> QED
  BY <1>1 DEF Others

\* What a step of request r does to the answers of every other request.
LEMMA OthersKeep ==
  ASSUME AnswerInv, NEW r \in Requests, NEW s \in Requests \ {r}, UNCHANGED call,
         \A t \in Requests : pc'[t] = pc[t] \/ pc'[t] # "idle",
         pc'[s] = pc[s], reply'[s] = reply[s],
         \/ processed' = processed
         \/ processed' = processed \union {Order(r)} /\ pc'[r] # "idle"
         \/ processed' = processed \ {Order(r)} /\ pc'[r] # "idle" /\ call[r].op = "restore"
  PROVE  OpFits(s)' /\ Kept(s)' /\ Alone(s)'
<1>1. OpFits(s) /\ Kept(s) /\ Alone(s)
  BY DEF AnswerInv
<1>2. Others(s) \subseteq Others(s)' /\ Order(s)' = Order(s) /\ Order(r)' = Order(r)
  BY OthersGrow
<1>3. OpFits(s)'
  BY <1>1 DEF OpFits
<1>4. pc'[r] # "idle" /\ Order(s) = Order(r) => r \in Others(s)'
  BY <1>2 DEF Others
<1>5. Kept(s)'
  <2> SUFFICES ASSUME Acknowledged(s)', \A t \in Others(s)' : call[t].op = "deduct"
               PROVE  Order(s) \in processed'
    BY <1>2 DEF Kept
  <2>1. Order(s) \in processed
    BY <1>1, <1>2 DEF Kept, Acknowledged
  <2> QED
    BY <1>4, <2>1
<1>6. Alone(s)'
  BY <1>1, <1>2, <1>4 DEF Alone
<1> QED
  BY <1>3, <1>5, <1>6

\* A request that is taken up, moves on or is answered, without a COMMIT of a change.
LEMMA UncommittedStep ==
  ASSUME AnswerInv, NEW r \in Requests, Receive(r) \/ Handle(r) \/ Fail(r),
         ~Commit(r), ~CommitRestore(r)
  PROVE  \A s \in Requests : OpFits(s)' /\ Kept(s)' /\ Alone(s)'
<1>1. UNCHANGED <<call, processed>>
  BY DEF Receive, Handle, Fail, CheckCache, Connect, IsProcessed, AckProcessed, FindItem,
         ZeroCache, UpdateStock, MarkProcessed, SetCache, AddStock, Unmark, db
<1>2. \/ \E l \in Labels \ {"idle", "done", "setCache"} : GoTo(r, l)
      \/ \E a \in Replies : Answer(r, a)
  BY DEF Receive, Handle, Fail, CheckCache, Connect, IsProcessed, AckProcessed, FindItem,
         ZeroCache, UpdateStock, MarkProcessed, SetCache, AddStock, Unmark,
         Labels, InService, DeductSteps, RestoreSteps, SharedSteps, Replies
<1>3. /\ pc'[r] # "idle" /\ pc[r] # "done"
      /\ \A s \in Requests \ {r} : pc'[s] = pc[s] /\ reply'[s] = reply[s]
  BY <1>2 DEF Receive, Handle, Fail, CheckCache, Connect, IsProcessed, AckProcessed, FindItem,
         ZeroCache, UpdateStock, MarkProcessed, SetCache, AddStock, Unmark, GoTo, Answer,
         AnswerInv, IInv, TypeOK
<1>4. Others(r) \subseteq Others(r)' /\ Order(r)' = Order(r)
  BY <1>1, <1>3, OthersGrow
<1>5. OpFits(r) /\ Kept(r) /\ Alone(r) /\ reply[r] = "none"
  BY <1>3 DEF AnswerInv, OpFits
<1>6. OpFits(r)'
  BY <1>1, <1>5 DEF Receive, Handle, Fail, CheckCache, Connect, IsProcessed, AckProcessed, FindItem,
         ZeroCache, UpdateStock, MarkProcessed, SetCache, AddStock, Unmark, GoTo, Answer,
         AnswerInv, IInv, TypeOK, Bodies, OpFits, DeductSteps, RestoreSteps
<1>7. Kept(r)'
  <2> SUFFICES ASSUME Acknowledged(r)', \A t \in Others(r)' : call[t].op = "deduct"
               PROVE  Order(r) \in processed
    BY <1>1, <1>4 DEF Kept
  <2>1. (SetCache(r) /\ call[r].op = "deduct") \/ AckProcessed(r)
    BY <1>1, <1>2, <1>5 DEF Receive, Handle, Fail, CheckCache, Connect, IsProcessed,
         AckProcessed, FindItem, ZeroCache, UpdateStock, MarkProcessed, SetCache, AddStock, Unmark, GoTo, Answer,
         AnswerInv, IInv, TypeOK, Acknowledged
  <2>2. CASE SetCache(r) /\ call[r].op = "deduct"
    BY <1>4, <1>5, <2>2 DEF Kept, Acknowledged, SetCache
  <2>3. CASE AckProcessed(r)
    BY <2>3 DEF AckProcessed, AnswerInv, IInv, DecisionHolds, HoldsOrder
  <2> QED
    BY <2>1, <2>2, <2>3
<1>8. Alone(r)'
  <2> SUFFICES ASSUME Others(r)' = {}, Order(r) \in processed
               PROVE  pc'[r] = "done" /\ reply'[r] \in {"success", "error", "lost"}
    BY <1>1, <1>4 DEF Alone
  <2>1. pc[r] = "setCache" /\ call[r].op = "deduct"
    BY <1>3, <1>4, <1>5 DEF Alone
  <2>2. SetCache(r) \/ Fail(r)
    BY <2>1 DEF Receive, Handle, CheckCache, Connect, IsProcessed, AckProcessed, FindItem,
         ZeroCache, UpdateStock, MarkProcessed, AddStock, Unmark
  <2> QED
    BY <2>1, <2>2 DEF SetCache, Fail, Answer, AnswerInv, IInv, TypeOK
<1> QED
  BY <1>1, <1>3, <1>6, <1>7, <1>8, OthersKeep

LEMMA CommitAnswers ==
  ASSUME AnswerInv, NEW r \in Requests, Commit(r)
  PROVE  \A s \in Requests : OpFits(s)' /\ Kept(s)' /\ Alone(s)'
<1>1. /\ pc[r] = "commit" /\ call[r].op = "deduct" /\ reply[r] = "none"
      /\ call' = call /\ processed' = processed \union {Order(r)}
  BY DEF Commit, AnswerInv, OpFits, DeductSteps
<1>2. /\ \A s \in Requests \ {r} : pc'[s] = pc[s] /\ reply'[s] = reply[s]
      /\ \/ pc'[r] = "setCache" /\ reply'[r] = "none"
         \/ pc'[r] = "done" /\ reply'[r] = "error"
  BY <1>1 DEF Commit, GoTo, Answer, AnswerInv, IInv, TypeOK
<1>3. Order(r)' = Order(r)
  BY <1>1, SameCalls
<1>4. OpFits(r)' /\ Kept(r)' /\ Alone(r)'
  BY <1>1, <1>2, <1>3 DEF OpFits, Kept, Alone, DeductSteps, RestoreSteps
<1> QED
  BY <1>1, <1>2, <1>4, OthersKeep

LEMMA CommitRestoreAnswers ==
  ASSUME AnswerInv, NEW r \in Requests, CommitRestore(r)
  PROVE  \A s \in Requests : OpFits(s)' /\ Kept(s)' /\ Alone(s)'
<1>1. /\ pc[r] = "commitRestore" /\ call[r].op = "restore" /\ reply[r] = "none"
      /\ call' = call /\ processed' = processed \ {Order(r)}
  BY DEF CommitRestore, AnswerInv, OpFits, RestoreSteps
<1>2. /\ \A s \in Requests \ {r} : pc'[s] = pc[s] /\ reply'[s] = reply[s]
      /\ \/ pc'[r] = "setCache" /\ reply'[r] = "none"
         \/ pc'[r] = "done" /\ reply'[r] \in {"error", "restored"}
  BY <1>1 DEF CommitRestore, GoTo, Answer, AnswerInv, IInv, TypeOK
<1>3. Order(r)' = Order(r)
  BY <1>1, SameCalls
<1>4. OpFits(r)' /\ Kept(r)' /\ Alone(r)'
  BY <1>1, <1>2, <1>3 DEF OpFits, Kept, Acknowledged, Alone, DeductSteps, RestoreSteps
<1> QED
  BY <1>1, <1>2, <1>4, OthersKeep

\* A crash answers nobody.
LEMMA CrashAnswers ==
  ASSUME AnswerInv, Crash
  PROVE  \A s \in Requests : OpFits(s)' /\ Kept(s)' /\ Alone(s)'
<1> SUFFICES ASSUME NEW s \in Requests PROVE OpFits(s)' /\ Kept(s)' /\ Alone(s)'
  OBVIOUS
<1>1. /\ \A t \in Requests :
           \/ pc'[t] = "done" /\ reply'[t] = "lost" /\ pc[t] # "idle"
           \/ pc'[t] = pc[t] /\ reply'[t] = reply[t] /\ pc[t] \in {"idle", "done"}
      /\ call' = call /\ processed' = processed
  BY DEF Crash, InFlight, db
<1>2. Others(s) \subseteq Others(s)' /\ Order(s)' = Order(s)
  BY <1>1, OthersGrow
<1>3. OpFits(s) /\ Kept(s) /\ Alone(s)
  BY DEF AnswerInv
<1> QED
  BY <1>1, <1>2, <1>3 DEF OpFits, Kept, Acknowledged, Alone, DeductSteps, RestoreSteps

LEMMA NextAnswer == AnswerInv /\ [Next]_vars => AnswerInv'
<1> SUFFICES ASSUME AnswerInv, [Next]_vars
             PROVE  \A s \in Requests : OpFits(s)' /\ Kept(s)' /\ Alone(s)'
  BY NextIInv DEF AnswerInv
<1>1. ASSUME NEW r \in Requests, Receive(r) \/ Handle(r) \/ Fail(r)
      PROVE  \A s \in Requests : OpFits(s)' /\ Kept(s)' /\ Alone(s)'
  BY <1>1, UncommittedStep, CommitAnswers, CommitRestoreAnswers
<1>2. ASSUME UNCHANGED <<processed, call, pc, reply>>
      PROVE  \A s \in Requests : OpFits(s)' /\ Kept(s)' /\ Alone(s)'
  <2>1. \A s \in Requests : Others(s)' = Others(s) /\ Order(s)' = Order(s)
    BY <1>2, SameCalls DEF Others
  <2> QED
    BY <1>2, <2>1 DEF AnswerInv, OpFits, Kept, Acknowledged, Alone
<1>3. CASE Crash
  BY <1>3, CrashAnswers
<1>4. ASSUME \/ UNCHANGED vars
             \/ \E i \in Items : Expire(i)
             \/ \E f \in Refreshers : RefreshRead(f) \/ RefreshWrite(f) \/ RefreshFail(f)
      PROVE  UNCHANGED <<processed, call, pc, reply>>
  BY <1>4 DEF vars, db, Expire, RefreshRead, RefreshWrite, RefreshFail
<1> QED
  BY <1>1, <1>2, <1>3, <1>4 DEF Next

\* What stock-service has answered stays true, however many requests, retries and
\* crashes follow: an acknowledged deduction holds until a restore is asked for, and a
\* rejected order that was sent once holds nothing.
THEOREM StockAnswersTrue == Spec => []AnswersTrue
<1>1. AnswerInv => AnswersTrue
  <2> SUFFICES ASSUME AnswerInv, NEW r \in Requests
               PROVE  /\ (/\ reply[r] \in {"success", "already"}
                          /\ \A s \in Others(r) : call[s].op = "deduct")
                           => Order(r) \in processed
                      /\ (reply[r] \in {"conflict", "notFound", "outOfStock", "outOfStockCached"}
                           /\ Others(r) = {})
                           => Order(r) \notin processed
    BY DEF AnswersTrue, Others
  <2>1. OpFits(r) /\ Kept(r) /\ Alone(r)
    BY DEF AnswerInv
  <2> QED
    BY <2>1 DEF OpFits, Kept, Acknowledged, Alone
<1> QED
  BY <1>1, InitAnswer, NextAnswer, PTL DEF Spec

-----------------------------------------------------------------------------
(* Waiting.                                                                *)

\* How many waits a transaction has ahead of it, counted down from the last: what is
\* waited for is always held by a request that has fewer.
Ahead(r) ==
  CASE pc[r] = "connect" -> 4
    [] pc[r] = "isProcessed" -> 3
    [] pc[r] \in {"updateStock", "addStock"} -> 2
    [] pc[r] = "markProcessed" -> 1
    [] OTHER -> 0

LEMMA WaitsForLess ==
  ASSUME NEW r \in Requests, NEW s \in Requests, WaitsFor(r, s)
  PROVE  /\ Ahead(r) \in 1 .. 4 /\ Ahead(s) \in 0 .. 3
         /\ Ahead(s) < Ahead(r)
<1> USE DEF WaitsFor, Ahead, HoldsClient, HoldsOrder, HoldsItem, ChangesOrder, InService,
            DeductSteps, RestoreSteps, SharedSteps
<1>1. CASE pc[r] = "connect"
  BY <1>1
<1>2. CASE pc[r] = "isProcessed"
  BY <1>2
<1>3. CASE pc[r] \in {"updateStock", "addStock"}
  BY <1>3
<1>4. CASE pc[r] = "markProcessed"
  BY <1>4
<1> QED
  BY <1>1, <1>2, <1>3, <1>4

\* Of any requests, one has the fewest waits ahead, and waits for none of the others.
LEMMA SomeoneHasLeast ==
  ASSUME NEW S \in SUBSET Requests, S # {}
  PROVE  \E r \in S : \A s \in S : ~WaitsFor(r, s)
<1>1. \A r \in S : Ahead(r) \in 0 .. 4
  BY DEF Ahead
<1>2. CASE \E r \in S : Ahead(r) = 0
  BY <1>2, WaitsForLess
<1>3. CASE \A r \in S : Ahead(r) # 0
  <2>1. CASE \E r \in S : Ahead(r) = 1
    BY <1>1, <1>3, <2>1, WaitsForLess
  <2>2. CASE (\A r \in S : Ahead(r) # 1) /\ \E r \in S : Ahead(r) = 2
    BY <1>1, <1>3, <2>2, WaitsForLess
  <2>3. CASE (\A r \in S : Ahead(r) \notin {1, 2}) /\ \E r \in S : Ahead(r) = 3
    BY <1>1, <1>3, <2>3, WaitsForLess
  <2>4. CASE \A r \in S : Ahead(r) \notin {1, 2, 3}
    BY <1>1, <1>3, <2>4, WaitsForLess
  <2> QED
    BY <2>1, <2>2, <2>3, <2>4
<1> QED
  BY <1>2, <1>3

\* A full pool has a client out: with no connection at all the service would wait for ever.
LEMMA WaitingHasReason ==
  ASSUME NEW r \in Requests, ~MayProceed(r)
  PROVE  \E s \in Requests : InFlight(s) /\ WaitsFor(r, s)
<1>1. \A s \in Requests :
        HoldsClient(s) \/ HoldsOrder(s) \/ HoldsItem(s) \/ ChangesOrder(s) => InFlight(s)
  BY DEF InFlight, HoldsClient, HoldsOrder, HoldsItem, ChangesOrder, InService, DeductSteps,
         RestoreSteps, SharedSteps
<1>2. CASE pc[r] = "connect"
  <2>1. {s \in Requests : HoldsClient(s)} # {}
    <3>1. ~(Cardinality({s \in Requests : HoldsClient(s)}) < PoolMax)
      BY <1>2 DEF MayProceed
    <3>2. Cardinality({}) = 0 /\ PoolMax \in Nat \ {0}
      BY FS_EmptySet, StockAssumption
    <3> QED
      BY <3>1, <3>2
  <2>2. ~HoldsClient(r)
    BY <1>2 DEF HoldsClient, InService, DeductSteps, RestoreSteps, SharedSteps
  <2> QED
    BY <1>1, <1>2, <2>1, <2>2 DEF WaitsFor
<1>3. CASE pc[r] # "connect"
  BY <1>1, <1>3 DEF MayProceed, WaitsFor, OrderFree, ItemFree, KeyFree
<1> QED
  BY <1>2, <1>3

\* However many requests compete for however few connections, none waits for a lock, a
\* record or the pool in a circle, and what it waits for is held by a request in flight.
THEOREM StockNoDeadlock == Spec => []NoDeadlock
<1>1. NoDeadlock
  BY SomeoneHasLeast, WaitingHasReason DEF NoDeadlock
<1> QED
  BY <1>1, PTL
=============================================================================
