---------------------------- MODULE MCInstances ----------------------------
(* Model checking of Instances: two daemons with the default pid file and one *)
(* with option -p, on machines where all directories can be used, where the   *)
(* default one cannot be written, and where the one of option -p is missing.  *)
EXTENDS Instances

CONSTANTS d1, d2, d3

MCPidPath == [p \in Procs |-> IF p = d3 THEN "custom" ELSE "default"]

AllUsable == [f \in Paths |-> "ok"]
MCLayouts == {AllUsable,
              [AllUsable EXCEPT !["default"] = "denied"],
              [AllUsable EXCEPT !["custom"] = "missing"]}
=============================================================================
