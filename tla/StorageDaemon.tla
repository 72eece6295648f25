--------------------------- MODULE StorageDaemon ---------------------------
(***************************************************************************)
(* The whole running daemon: the main thread with its workers (Workers)    *)
(* and the request server with its clients (IpcServer), joined at the      *)
(* places where daemon_main.c joins them.  Each component leaves its       *)
(* neighbour as an environment that may do more than the real one:         *)
(* Workers lets the IPC thread return at any time, IpcServer lets the main *)
(* thread stop the server at any time.  Here                               *)
(*   - the IPC thread has returned when ipc_server_run has;                *)
(*   - the server is stopped when the main thread leaves its loop, and     *)
(*     cleaned up when main returns, or by the kernel when the daemon is   *)
(*     killed;                                                             *)
(*   - the IPC thread stands still while a signal handler runs on it.      *)
(***************************************************************************)
EXTENDS Naturals, Sequences, FiniteSets

CONSTANTS
  Pids, NoPid, MAX_WORKERS, SpawnPeriod, SpawnBelow, Foreground,
  Clients, NoClient, IPC_MAX_CLIENTS, BACKLOG

ASSUME WorkerAssumption ==
  /\ NoPid \notin Pids /\ IsFiniteSet(Pids)
  /\ MAX_WORKERS \in Nat \ {0}
  /\ SpawnPeriod \in Nat \ {0}
  /\ SpawnBelow \in Nat \ {0}
  /\ Foreground \in BOOLEAN
ASSUME ServerAssumption ==
  /\ NoClient \notin Clients /\ IsFiniteSet(Clients)
  /\ IPC_MAX_CLIENTS \in Nat \ {0}
  /\ BACKLOG \in Nat

VARIABLES
  pc, i, active, loop_count, newpid, workers, worker_count, child,
  daemon_running, reload_config, sigchld, hpc, hwait,
  run_pc, k, read_fds, accept_ready, running, clients, num_clients,
  backlog, cpc, sent, resp, hung

mainVars == <<pc, i, active, loop_count, newpid, workers, worker_count, child,
              daemon_running, reload_config, sigchld, hpc, hwait>>
serverVars == <<run_pc, k, read_fds, accept_ready, running, clients, num_clients,
                backlog, cpc, sent, resp, hung>>
vars == <<mainVars, serverVars>>

\* How far the main thread has come, as the server sees it.
MainPhase ==
  CASE pc \in {"done", "killed"} -> "down"
    [] pc \in {"join", "term_test", "term_kill", "sleep2", "kill_test", "kill_probe",
               "kill_send", "reap", "rmpid"} -> "stopped"
    [] OTHER -> "up"

W == INSTANCE Workers WITH ipc_exited <- run_pc = "exited"
S == INSTANCE IpcServer WITH main_pc <- MainPhase

\* The state once the IPC thread has been created.
Init == run_pc = "test" /\ W!Init /\ S!Init
-----------------------------------------------------------------------------
\* Mutant: the server is stopped only after the join.
StopServer_Late ==
  /\ UNCHANGED serverVars
  /\ W!StopIpc

\* Mutant: the main thread does not join the IPC thread.
StopServer_NoJoin ==
  /\ W!MainAt("stop")
  /\ pc' = "term_test"
  /\ running' = FALSE
  /\ UNCHANGED <<i, active, loop_count, newpid, workers, worker_count, child,
                 daemon_running, reload_config, sigchld, hpc, hwait, run_pc, k, read_fds,
                 accept_ready, clients, num_clients, backlog, cpc, sent, resp, hung>>

\* ipc_server_stop, called by the main thread once it has left its loop.
StopServer ==
  /\ UNCHANGED run_pc
  /\ W!StopIpc
  /\ S!Stop

\* Mutant: main returns without calling cleanup.
Leave_NoCleanup ==
  /\ UNCHANGED serverVars
  /\ W!RemovePidfile

\* daemon_remove_pidfile and cleanup at the end of main.
Leave ==
  /\ UNCHANGED run_pc
  /\ W!RemovePidfile
  /\ S!Cleanup

\* kill(0, SIGKILL) in daemon_shutdown: the kernel closes the daemon's sockets.
KilledByItself ==
  /\ pc = "kill_send"
  /\ workers[i].pid = NoPid
  /\ UNCHANGED run_pc
  /\ W!KillSend
  /\ S!Cleanup

\* The other steps of the main thread, of the handlers and of the workers.
MainStep ==
  /\ UNCHANGED serverVars
  /\ \/ W!LoopTest \/ W!MonTest \/ W!MonKill \/ W!Decide
     \/ W!SpawnRefused \/ W!SpawnFails \/ W!Fork \/ W!RecordWorker \/ W!SleepLoop
     \/ W!JoinIpc \/ W!TermTest \/ W!TermKill \/ W!SleepBeforeKill
     \/ W!KillTest \/ W!KillProbe \/ (W!KillSend /\ workers[i].pid # NoPid)
     \/ W!ReapCall

\* Signals sent to the daemon.
Signals == UNCHANGED serverVars /\ (W!SigTerm \/ W!SigHup)

HandlerEnters == UNCHANGED serverVars /\ \E t \in W!Threads : W!SigChld(t)
HandlerStep(t) == UNCHANGED serverVars /\ (W!ReapWait(t) \/ W!ReapRecord(t))
WorkerEnds(p) == UNCHANGED serverVars /\ W!ChildDies(p)

\* The IPC thread, when no handler runs on top of it and the process is alive.
ServerStep ==
  /\ pc \notin {"done", "killed"}
  /\ hpc["ipc"] = "idle"
  /\ UNCHANGED mainVars
  /\ S!ServerStep

ClientStep(c) == UNCHANGED mainVars /\ S!ClientStep(c)
ClientReceives(c) == UNCHANGED mainVars /\ S!Receive(c)

MainThread == StopServer \/ Leave \/ KilledByItself \/ MainStep

Next ==
  \/ MainThread
  \/ Signals
  \/ HandlerEnters
  \/ \E t \in W!Threads : HandlerStep(t)
  \/ \E p \in Pids : WorkerEnds(p)
  \/ ServerStep
  \/ \E c \in Clients : ClientStep(c)

\* Both threads and the handlers are scheduled, workers end, and a client that has
\* something to read reads it; nobody has to send a signal or a request.
Fairness ==
  /\ WF_vars(MainThread)
  /\ WF_vars(HandlerEnters)
  /\ \A t \in W!Threads : WF_vars(HandlerStep(t))
  /\ \A p \in Pids : WF_vars(WorkerEnds(p))
  /\ WF_vars(ServerStep)
  /\ \A c \in Clients : WF_vars(ClientReceives(c))

Spec == Init /\ [][Next]_vars
FairSpec == Spec /\ Fairness
-----------------------------------------------------------------------------
(* Properties.                                                             *)

\* The whole daemon is an implementation of Workers: what that module lets the IPC
\* thread do covers what ipc_server_run really does.
ImplementsWorkers == W!Spec

\* The whole daemon is an implementation of IpcServer: the order in which daemon_main.c
\* stops, joins and cleans up the server is one that module allows.
ImplementsIpcServer == S!Spec

\* SIGTERM or SIGINT ends the whole daemon: both threads stop, also when workers die or
\* CMD_SHUTDOWN arrives meanwhile, and no client is left waiting for an answer.
TermReleasesEverybody ==
  ~daemon_running ~>
    pc \in {"done", "killed"} /\ \A c \in Clients : cpc[c] # "waiting"

\* "Shutting down daemon", the answer to CMD_SHUTDOWN: a daemon that has given it ends.
ShutdownCommandEnds ==
  \A c \in Clients :
    (sent[c] = "SHUTDOWN" /\ resp[c] = "OK") ~> pc \in {"done", "killed"}
=============================================================================
