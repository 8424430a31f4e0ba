-------------------------------- MODULE Page --------------------------------
(* What the dashboard's order tracking and its panels share.                *)
VARIABLE
  loggedIn  \* a student is logged in
=============================================================================
