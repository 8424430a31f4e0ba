--------------------------- MODULE MCServicePanels ---------------------------
(* Two services, one of them the kitchen, and overlapping polls.             *)
EXTENDS ServicePanels
=============================================================================
