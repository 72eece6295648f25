----------------------------- MODULE MCMonitor -----------------------------
(* Model checking of Monitor: the sleeps are as short as tells them apart. *)
EXTENDS Monitor

MCPeriod == [monitor |-> 2, scheduler |-> 3]
=============================================================================
