--------------------------- MODULE MCStockService ---------------------------
(* Three calls at a time about two orders that compete for one item, or    *)
(* about an item the table does not have; and calls that disagree about    *)
(* what an order asks for.                                                 *)
EXTENDS StockService, TLC

CONSTANTS o1, o2, o3, box, ghost, r1, r2, r3

MCInitialStock == (box :> 2)
MCItemOf == (o1 :> box @@ o2 :> box @@ o3 :> ghost)
MCQtyOf == (o1 :> 1 @@ o2 :> 2 @@ o3 :> 1)

Rank(c) == (CASE c.order = o1 -> 0 [] c.order = o2 -> 2 [] OTHER -> 4)
           + (IF c.op = "deduct" THEN 0 ELSE 1)

\* Requests are interchangeable: their calls are given in one order only.  One of them
\* deducts, and a call for the missing item comes beside two deductions of o1.
CallsInOrder ==
  /\ Rank(call[r1]) <= Rank(call[r2]) /\ Rank(call[r2]) <= Rank(call[r3])
  /\ Rank(call[r1]) \in {0, 2}
  /\ Rank(call[r3]) >= 4 => Rank(call[r2]) = 0

\* One order id with two bodies: a restore of more than was deducted, a restore of another
\* item, and a repeated deduction that asks for more.
Body(op, o, i, q) == [op |-> op, order |-> o, item |-> i, qty |-> q]
OtherBodies ==
  /\ call[r1] = Body("deduct", o1, box, 1)
  /\ <<call[r2], call[r3]>> \in
       {<<Body("deduct", o2, box, 2), Body("restore", o1, box, 2)>>,
        <<Body("deduct", o1, box, 1), Body("restore", o1, ghost, 1)>>,
        <<Body("deduct", o1, box, 2), Body("restore", o1, box, 1)>>}

MCInit == Init /\ ((SameBodies /\ CallsInOrder) \/ OtherBodies)

MCSpec == MCInit /\ [][Next]_vars /\ Fairness
=============================================================================
