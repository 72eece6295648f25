----------------------------- MODULE WorkerPool -----------------------------
(***************************************************************************)
(* What storage_daemon promises about its worker processes, with nothing   *)
(* of how it keeps the promise: no table, no slots, no signal handlers and *)
(* no loops that read the table while handlers change it.  Workers are     *)
(* started up to a limit while the daemon is open, each one that ends is   *)
(* collected at most once, only a daemon that is closing kills workers,    *)
(* and none is left running when it is over.                               *)
(***************************************************************************)
EXTENDS Naturals, FiniteSets

CONSTANTS
  Pids,    \* process ids
  Limit    \* workers that may run at a time

VARIABLES
  child,   \* per process id: what the kernel knows of it
  phase    \* "open", "closing" or "over"

vars == <<child, phase>>

\* The workers that run, also when a SIGKILL is on its way.
Live == {p \in Pids : child[p] \in {"running", "doomed"}}

Init ==
  /\ child = [p \in Pids |-> "unborn"]
  /\ phase = "open"
-----------------------------------------------------------------------------
Start(p) ==
  /\ phase = "open"
  /\ child[p] = "unborn"
  /\ Cardinality(Live) < Limit
  /\ child' = [child EXCEPT ![p] = "running"]
  /\ UNCHANGED phase

\* A worker exits or is killed by a signal, with or without a daemon.
Ends(p) ==
  /\ \/ child[p] = "running" /\ child' = [child EXCEPT ![p] = "exited"]
     \/ p \in Live /\ child' = [child EXCEPT ![p] = "signaled"]
  /\ UNCHANGED phase

Collect(p) ==
  /\ phase # "over"
  /\ child[p] \in {"exited", "signaled"}
  /\ child' = [child EXCEPT ![p] = "gone"]
  /\ UNCHANGED phase

Close ==
  /\ phase = "open"
  /\ phase' = "closing"
  /\ UNCHANGED child

Kill(p) ==
  /\ phase = "closing"
  /\ child[p] = "running"
  /\ child' = [child EXCEPT ![p] = "doomed"]
  /\ UNCHANGED phase

\* Whoever still runs is killed as the daemon ends.
Finish ==
  /\ phase = "closing"
  /\ phase' = "over"
  /\ child' = [p \in Pids |-> IF child[p] = "running" THEN "doomed" ELSE child[p]]
-----------------------------------------------------------------------------
Next ==
  \/ \E p \in Pids : Start(p) \/ Ends(p) \/ Collect(p) \/ Kill(p)
  \/ Close
  \/ Finish

Spec == Init /\ [][Next]_vars
=============================================================================
