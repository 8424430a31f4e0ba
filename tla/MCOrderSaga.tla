----------------------------- MODULE MCOrderSaga -----------------------------
(* Small instances of OrderSaga: two placements, with a key each or with one *)
(* key between them, for an item that cannot serve every order.            *)
EXTENDS OrderSaga, TLC

CONSTANTS o1, o2, box, g1, g2, p1, p2

MCInitialStock == (box :> 1)
MCItemOf == [o \in Orders |-> box]
MCQtyOf == [o \in Orders |-> 1]

UniqueKeys == (p1 :> o1 @@ p2 :> o2)
SharedKey == (p1 :> o1 @@ p2 :> o1)

OneGateway == [p \in Placements |-> g1]
TwoGateways == (p1 :> g1 @@ p2 :> g2)
=============================================================================
