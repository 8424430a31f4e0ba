------------------------------ MODULE Inventory ------------------------------
(***************************************************************************)
(* What stock-service promises the rest of FeastFlow, free of SQL, locks   *)
(* and cache: an order takes its portions from its item at most once, and  *)
(* gives the same portions back at most once.  StockService implements     *)
(* this specification; OrderSaga is built on it.                           *)
(***************************************************************************)
EXTENDS Integers, FiniteSets

CONSTANTS
  Orders,       \* order ids (the idempotency keys of the gateway)
  Items,        \* item ids an order can name
  Stocked,      \* the ids that are rows of the items table
  InitialStock, \* [Stocked -> Nat], the seeded stock
  ItemOf,       \* [Orders -> Items]
  QtyOf         \* [Orders -> Nat \ {0}], the portions an order asks for

ASSUME InventoryAssumption ==
  /\ Stocked \subseteq Items
  /\ IsFiniteSet(Orders)
  /\ InitialStock \in [Stocked -> Nat]
  /\ ItemOf \in [Orders -> Items]
  /\ QtyOf \in [Orders -> Nat \ {0}]

VARIABLES
  stock,        \* [Stocked -> Nat]
  deducted      \* the orders whose portions are taken and not given back

inventory == <<stock, deducted>>

Init ==
  /\ stock = InitialStock
  /\ deducted = {}

Available(o) ==
  /\ ItemOf[o] \in Stocked
  /\ stock[ItemOf[o]] >= QtyOf[o]

\* A deduction that takes effect.
Deduct(o) ==
  /\ o \notin deducted
  /\ Available(o)
  /\ stock' = [stock EXCEPT ![ItemOf[o]] = @ - QtyOf[o]]
  /\ deducted' = deducted \union {o}

\* A compensation that takes effect.
Restore(o) ==
  /\ o \in deducted
  /\ stock' = [stock EXCEPT ![ItemOf[o]] = @ + QtyOf[o]]
  /\ deducted' = deducted \ {o}

Next == \E o \in Orders : Deduct(o) \/ Restore(o)

Spec == Init /\ [][Next]_inventory

-----------------------------------------------------------------------------
(* The portions of item i that deducted orders hold, each one a pair of    *)
(* its order and its number within the order.                              *)
PortionsOf(o) == {o} \X (1 .. QtyOf[o])
SoldPortions(i) == UNION {PortionsOf(o) : o \in {p \in deducted : ItemOf[p] = i}}

TypeOK ==
  /\ stock \in [Stocked -> Int]
  /\ deducted \subseteq {o \in Orders : ItemOf[o] \in Stocked}

\* No item is sold below zero (the overselling problem of STACK.md).
NoOversell == \A i \in Stocked : stock[i] >= 0

\* No portion is lost, sold twice or given back twice: what is left of an item
\* and what deducted orders hold of it always add up to the seeded stock.
Conservation ==
  \A i \in Stocked : stock[i] + Cardinality(SoldPortions(i)) = InitialStock[i]

=============================================================================
