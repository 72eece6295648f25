---------------------------- MODULE MCIpcServer ----------------------------
(* Model checking of IpcServer: the constants are given values in the .cfg. *)
EXTENDS IpcServer
=============================================================================
