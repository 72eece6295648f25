-------------------------- MODULE MCStorageDaemon --------------------------
(* Model checking of StorageDaemon. *)
EXTENDS StorageDaemon
=============================================================================
