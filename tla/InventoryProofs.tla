--------------------------- MODULE InventoryProofs ---------------------------
(***************************************************************************)
(* Inventory: for any finite set of orders, items, quantities and stock,   *)
(* portions are conserved and no item is oversold.                         *)
(***************************************************************************)
EXTENDS Inventory, FiniteSetTheorems, TLAPS

\* The invariant of the proofs; finiteness is what Cardinality needs.
InvInventory ==
  /\ TypeOK
  /\ NoOversell
  /\ Conservation
  /\ \A i \in Stocked : IsFiniteSet(SoldPortions(i))

-----------------------------------------------------------------------------
\* An order holds as many portions as it asked for.
LEMMA PortionCount ==
  ASSUME NEW o \in Orders
  PROVE  IsFiniteSet(PortionsOf(o)) /\ Cardinality(PortionsOf(o)) = QtyOf[o]
<1>q. QtyOf[o] \in Nat \ {0}
  BY InventoryAssumption
<1>1. IsFiniteSet(1 .. QtyOf[o]) /\ Cardinality(1 .. QtyOf[o]) = QtyOf[o]
  BY <1>q, FS_Interval
<1>2. IsFiniteSet({o}) /\ Cardinality({o}) = 1
  BY FS_Singleton
<1>3. /\ IsFiniteSet({o} \X (1 .. QtyOf[o]))
      /\ Cardinality({o} \X (1 .. QtyOf[o])) = Cardinality({o}) * Cardinality(1 .. QtyOf[o])
  BY <1>1, <1>2, FS_Product
<1> QED
  BY <1>q, <1>1, <1>2, <1>3 DEF PortionsOf

\* Taking an order's portions adds exactly them to what its item has sold.
LEMMA DeductPortions ==
  ASSUME TypeOK, NEW o \in Orders, o \notin deducted, deducted' = deducted \union {o},
         NEW i \in Stocked, IsFiniteSet(SoldPortions(i))
  PROVE  /\ IsFiniteSet(SoldPortions(i)')
         /\ Cardinality(SoldPortions(i)') =
              Cardinality(SoldPortions(i)) + (IF ItemOf[o] = i THEN QtyOf[o] ELSE 0)
<1>1. CASE ItemOf[o] # i
  <2>1. SoldPortions(i)' = SoldPortions(i)
    BY <1>1 DEF SoldPortions
  <2>2. Cardinality(SoldPortions(i)) \in Nat
    BY FS_CardinalityType
  <2> QED
    BY <1>1, <2>1, <2>2
<1>2. CASE ItemOf[o] = i
  <2>1. SoldPortions(i)' = SoldPortions(i) \union PortionsOf(o)
    BY <1>2 DEF SoldPortions
  <2>2. Cardinality(SoldPortions(i) \intersect PortionsOf(o)) = 0
    <3>1. SoldPortions(i) \intersect PortionsOf(o) = {}
      BY DEF SoldPortions, PortionsOf
    <3> QED
      BY <3>1, FS_EmptySet
  <2>3. IsFiniteSet(PortionsOf(o)) /\ Cardinality(PortionsOf(o)) = QtyOf[o]
    BY PortionCount
  <2>4. /\ IsFiniteSet(SoldPortions(i) \union PortionsOf(o))
        /\ Cardinality(SoldPortions(i) \union PortionsOf(o)) =
             Cardinality(SoldPortions(i)) + Cardinality(PortionsOf(o))
             - Cardinality(SoldPortions(i) \intersect PortionsOf(o))
    BY <2>3, FS_Union
  <2>5. Cardinality(SoldPortions(i)) \in Nat /\ QtyOf[o] \in Nat
    BY FS_CardinalityType, InventoryAssumption
  <2>6. /\ IsFiniteSet(SoldPortions(i) \union PortionsOf(o))
        /\ Cardinality(SoldPortions(i) \union PortionsOf(o)) =
             Cardinality(SoldPortions(i)) + QtyOf[o]
    BY <2>2, <2>3, <2>4, <2>5
  <2> QED
    BY <1>2, <2>1, <2>6
<1> QED
  BY <1>1, <1>2

\* Giving an order's portions back removes exactly them.
LEMMA RestorePortions ==
  ASSUME TypeOK, NEW o \in Orders, o \in deducted, deducted' = deducted \ {o},
         NEW i \in Stocked, IsFiniteSet(SoldPortions(i))
  PROVE  /\ IsFiniteSet(SoldPortions(i)')
         /\ Cardinality(SoldPortions(i)') =
              Cardinality(SoldPortions(i)) - (IF ItemOf[o] = i THEN QtyOf[o] ELSE 0)
<1>1. CASE ItemOf[o] # i
  <2>1. SoldPortions(i)' = SoldPortions(i)
    BY <1>1 DEF SoldPortions
  <2>2. Cardinality(SoldPortions(i)) \in Nat
    BY FS_CardinalityType
  <2> QED
    BY <1>1, <2>1, <2>2
<1>2. CASE ItemOf[o] = i
  <2>1. SoldPortions(i)' = SoldPortions(i) \ PortionsOf(o)
    BY <1>2 DEF SoldPortions, PortionsOf
  <2>2. PortionsOf(o) \subseteq SoldPortions(i)
    BY <1>2 DEF SoldPortions
  <2>3. IsFiniteSet(PortionsOf(o)) /\ Cardinality(PortionsOf(o)) = QtyOf[o]
    BY PortionCount
  <2>4. /\ IsFiniteSet(SoldPortions(i) \ PortionsOf(o))
        /\ Cardinality(SoldPortions(i) \ PortionsOf(o)) =
             Cardinality(SoldPortions(i)) - Cardinality(SoldPortions(i) \intersect PortionsOf(o))
    BY FS_Difference
  <2>5. SoldPortions(i) \intersect PortionsOf(o) = PortionsOf(o)
    BY <2>2
  <2> QED
    BY <1>2, <2>1, <2>3, <2>4, <2>5
<1> QED
  BY <1>1, <1>2

-----------------------------------------------------------------------------
LEMMA InventoryInit == Init => InvInventory
<1> SUFFICES ASSUME Init PROVE InvInventory
  OBVIOUS
<1>1. \A i \in Stocked : SoldPortions(i) = {}
  BY DEF Init, SoldPortions
<1>2. IsFiniteSet({}) /\ Cardinality({}) = 0
  BY FS_EmptySet
<1>3. \A i \in Stocked : stock[i] \in Nat /\ stock[i] = InitialStock[i]
  BY InventoryAssumption DEF Init
<1>4. TypeOK
  BY InventoryAssumption DEF Init, TypeOK
<1>5. NoOversell
  BY <1>3 DEF NoOversell
<1>6. Conservation
  BY <1>1, <1>2, <1>3 DEF Conservation
<1> QED
  BY <1>1, <1>2, <1>4, <1>5, <1>6 DEF InvInventory

LEMMA InventoryStep == InvInventory /\ [Next]_inventory => InvInventory'
<1> SUFFICES ASSUME InvInventory, [Next]_inventory PROVE InvInventory'
  OBVIOUS
<1> USE DEF InvInventory
<1>1. ASSUME NEW o \in Orders, Deduct(o) PROVE InvInventory'
  <2>1. /\ ItemOf[o] \in Stocked /\ QtyOf[o] \in Nat /\ stock[ItemOf[o]] >= QtyOf[o]
        /\ stock' = [stock EXCEPT ![ItemOf[o]] = stock[ItemOf[o]] - QtyOf[o]]
        /\ o \notin deducted /\ deducted' = deducted \union {o}
    BY <1>1, InventoryAssumption DEF Deduct, Available
  <2>2. TypeOK'
    BY <2>1 DEF TypeOK
  <2>3. NoOversell'
    BY <2>1 DEF NoOversell, TypeOK
  <2>4. \A i \in Stocked :
          /\ IsFiniteSet(SoldPortions(i)')
          /\ Cardinality(SoldPortions(i)') =
               Cardinality(SoldPortions(i)) + (IF ItemOf[o] = i THEN QtyOf[o] ELSE 0)
    BY <2>1, DeductPortions
  <2>5. \A i \in Stocked : Cardinality(SoldPortions(i)) \in Nat
    BY FS_CardinalityType
  <2>6. Conservation'
    BY <2>1, <2>4, <2>5 DEF Conservation, TypeOK
  <2> QED
    BY <2>2, <2>3, <2>4, <2>6
<1>2. ASSUME NEW o \in Orders, Restore(o) PROVE InvInventory'
  <2>1. /\ QtyOf[o] \in Nat
        /\ stock' = [stock EXCEPT ![ItemOf[o]] = stock[ItemOf[o]] + QtyOf[o]]
        /\ o \in deducted /\ deducted' = deducted \ {o}
    BY <1>2, InventoryAssumption DEF Restore
  <2>2. TypeOK'
    BY <2>1 DEF TypeOK
  <2>3. NoOversell'
    BY <2>1 DEF NoOversell, TypeOK
  <2>4. \A i \in Stocked :
          /\ IsFiniteSet(SoldPortions(i)')
          /\ Cardinality(SoldPortions(i)') =
               Cardinality(SoldPortions(i)) - (IF ItemOf[o] = i THEN QtyOf[o] ELSE 0)
    BY <2>1, RestorePortions
  <2>5. \A i \in Stocked : Cardinality(SoldPortions(i)) \in Nat
    BY FS_CardinalityType
  <2>6. Conservation'
    BY <2>1, <2>4, <2>5 DEF Conservation, TypeOK
  <2> QED
    BY <2>2, <2>3, <2>4, <2>6
<1>3. ASSUME UNCHANGED inventory PROVE InvInventory'
  BY <1>3 DEF inventory, TypeOK, NoOversell, Conservation, SoldPortions
<1> QED
  BY <1>1, <1>2, <1>3 DEF Next

\* No sequence of deductions and compensations oversells an item, loses a portion
\* or gives one back twice.
THEOREM InventoryCorrect == Spec => [](NoOversell /\ Conservation)
<1>1. InvInventory => NoOversell /\ Conservation
  BY DEF InvInventory
<1> QED
  BY <1>1, InventoryInit, InventoryStep, PTL DEF Spec
=============================================================================
