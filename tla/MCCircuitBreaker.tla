--------------------------- MODULE MCCircuitBreaker ---------------------------
(* Three callers of one replica, more than breaker or bulkhead take at once. *)
EXTENDS CircuitBreaker
=============================================================================
