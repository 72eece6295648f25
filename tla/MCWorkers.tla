----------------------------- MODULE MCWorkers -----------------------------
(* Model checking of Workers. The process ids are interchangeable. *)
EXTENDS Workers, TLC

PidSymmetry == Permutations(Pids)
=============================================================================
