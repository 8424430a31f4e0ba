---------------------------- MODULE MCDashboard ----------------------------
(* Two orders one after the other, and polls that may stay in flight. *)
EXTENDS Dashboard
=============================================================================
