--------------------------- MODULE MCStorageCalls ---------------------------
(* Model checking of StorageCalls. Processes, disks and volumes are          *)
(* interchangeable.                                                          *)
EXTENDS StorageCalls, TLC

MCMaxCalls ==
  [devices |-> 2, snapshots |-> 3, memory |-> 3, tuning |-> 2, security |-> 3]

CallSymmetry == Permutations(Procs) \cup Permutations(Disks) \cup Permutations(Volumes)
=============================================================================
