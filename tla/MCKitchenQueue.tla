---------------------------- MODULE MCKitchenQueue ----------------------------
(* Two orders cooked by one worker for two replicas of the gateway.          *)
EXTENDS KitchenQueue
=============================================================================
