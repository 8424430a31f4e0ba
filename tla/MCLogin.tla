------------------------------- MODULE MCLogin -------------------------------
(* One student, whose requests overlap.                                       *)
EXTENDS Login
=============================================================================
