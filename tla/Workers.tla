------------------------------ MODULE Workers ------------------------------
(***************************************************************************)
(* The worker processes of storage_daemon: the table workers[] of          *)
(* daemon.c, the main loop of daemon_main.c that spawns and monitors them, *)
(* the SIGCHLD handler that reaps them and the orderly shutdown.           *)
(*                                                                         *)
(* The main thread is modelled at the grain of its accesses to the table:  *)
(* the build is not optimised, so every workers[i].pid in the source is a  *)
(* read of its own, and the SIGCHLD handler may run between two of them.   *)
(* The handler runs on any thread that is not already running it; while    *)
(* it runs on the main thread the main thread's own code stands still.     *)
(***************************************************************************)
EXTENDS Naturals, FiniteSets

CONSTANTS
  Pids,          \* process ids fork() can return
  NoPid,         \* the pid 0 of a slot with no process
  MAX_WORKERS,   \* size of workers[] (10 in daemon.h)
  SpawnPeriod,   \* the main loop spawns every SpawnPeriod turns (30)
  SpawnBelow,    \* ... when fewer than this many workers are active (3)
  Foreground     \* TRUE with -f: the monitor thread survives start-up

ASSUME PidAssumption == NoPid \notin Pids /\ IsFiniteSet(Pids)
ASSUME SizeAssumption ==
  /\ MAX_WORKERS \in Nat \ {0}
  /\ SpawnPeriod \in Nat \ {0}
  /\ SpawnBelow \in Nat \ {0}
ASSUME ModeAssumption == Foreground \in BOOLEAN

VARIABLES
  pc,             \* where the main thread is
  i,              \* loop index of daemon_monitor_workers / daemon_shutdown
  active,         \* active_count of daemon_monitor_workers
  loop_count,     \* loop_count of main, modulo SpawnPeriod
  newpid,         \* pid returned by the fork being recorded
  workers,        \* workers[], one record per slot
  worker_count,
  child,          \* what the kernel knows of every process id
  daemon_running,
  reload_config,
  sigchld,        \* a SIGCHLD is pending for the process
  hpc,            \* per thread: where its daemon_reap_zombies call is
  hwait,          \* per thread: what its last waitpid returned
  ipc_exited      \* the IPC thread has returned

mainVars == <<pc, i, active, loop_count, newpid>>
tableVars == <<workers, worker_count>>
flagVars == <<daemon_running, reload_config>>
reapVars == <<hpc, hwait>>
vars == <<mainVars, tableVars, child, flagVars, sigchld, reapVars, ipc_exited>>

Slots == 0 .. MAX_WORKERS - 1
Threads == {"main", "ipc", "monitor"}

\* WORKER_BUSY, WORKER_IDLE and WORKER_FAILED of daemon.h.
Status == {"BUSY", "IDLE", "FAILED"}

\* A process is running, "doomed" once SIGKILL is on its way, a zombie that
\* "exited" or was "signaled", and "gone" when waitpid has returned it.
Live == {"running", "doomed"}
Zombie == {"exited", "signaled"}
ChildState == {"unborn", "gone"} \cup Live \cup Zombie

Stopped == {"done", "killed"}
MainPC == {"loop", "mon_test", "mon_kill", "decide", "spawn", "record", "sleep",
           "stop", "join", "term_test", "term_kill", "sleep2",
           "kill_test", "kill_probe", "kill_send", "reap", "rmpid"} \cup Stopped

Alive == pc \notin Stopped

\* A local variable that goes out of scope returns to its first value.
NoWait == [pid |-> NoPid, how |-> "exited"]

\* The main thread's own code runs only when no handler runs on top of it.
MainAt(label) == pc = label /\ hpc["main"] = "idle"

\* kill(pid, 0) = 0: pid 0 is the caller's own group, a zombie still exists.
Exists(p) == p # NoPid => child[p] \in Live \cup Zombie

Init ==
  /\ pc = "loop"
  /\ i = 0
  /\ active = 0
  /\ loop_count = 0
  /\ newpid = NoPid
  /\ workers = [s \in Slots |-> [pid |-> NoPid, status |-> "IDLE"]]
  /\ worker_count = 0
  /\ child = [p \in Pids |-> "unborn"]
  /\ daemon_running = TRUE
  /\ reload_config = FALSE
  /\ sigchld = FALSE
  /\ hpc = [t \in Threads |-> "idle"]
  /\ hwait = [t \in Threads |-> NoWait]
  /\ ipc_exited = FALSE
-----------------------------------------------------------------------------
(* Signals and the SIGCHLD handler.                                        *)

\* daemon_signal_handler on SIGTERM or SIGINT.
SigTerm ==
  /\ Alive
  /\ daemon_running' = FALSE
  /\ UNCHANGED <<mainVars, tableVars, child, reload_config, sigchld, reapVars, ipc_exited>>

\* daemon_signal_handler on SIGHUP.
SigHup ==
  /\ Alive
  /\ reload_config' = TRUE
  /\ UNCHANGED <<mainVars, tableVars, child, daemon_running, sigchld, reapVars, ipc_exited>>

\* Mutant: SIGCHLD is blocked in every thread.
HandlerThreads_Blocked == {}

\* The threads of the process, none of which blocks SIGCHLD.
HandlerThreads ==
  {"main"} \cup (IF ipc_exited THEN {} ELSE {"ipc"})
           \cup (IF Foreground THEN {"monitor"} ELSE {})

\* daemon_signal_handler on SIGCHLD: some thread enters daemon_reap_zombies.
SigChld(t) ==
  /\ Alive
  /\ sigchld
  /\ t \in HandlerThreads
  /\ hpc[t] = "idle"
  /\ sigchld' = FALSE
  /\ hpc' = [hpc EXCEPT ![t] = "wait"]
  /\ UNCHANGED <<mainVars, tableVars, child, flagVars, hwait, ipc_exited>>

\* waitpid(-1, &status, WNOHANG): takes one zombie, or the loop is over.
ReapWait(t) ==
  /\ Alive
  /\ hpc[t] = "wait"
  /\ \/ \E p \in Pids :
          /\ child[p] \in Zombie
          /\ child' = [child EXCEPT ![p] = "gone"]
          /\ hwait' = [hwait EXCEPT ![t] = [pid |-> p, how |-> child[p]]]
          /\ hpc' = [hpc EXCEPT ![t] = "record"]
     \/ /\ \A p \in Pids : child[p] \notin Zombie
        /\ hpc' = [hpc EXCEPT ![t] = "idle"]
        /\ UNCHANGED <<child, hwait>>
  /\ UNCHANGED <<mainVars, tableVars, flagVars, sigchld, ipc_exited>>

\* The slots below worker_count that hold pid p.
SlotsOf(p) == {s \in Slots : s < worker_count /\ workers[s].pid = p}

\* Mutant: the way the worker ended is not looked at.
ReapStatus_AlwaysIdle(how) == "IDLE"

\* The status of the slot of a worker that ended in this way.
ReapStatus(how) == IF how = "exited" THEN "IDLE" ELSE "FAILED"

\* The search of daemon_reap_zombies for the slot of the reaped pid.
ReapRecord(t) ==
  LET p == hwait[t].pid
      st == ReapStatus(hwait[t].how)
  IN /\ Alive
     /\ hpc[t] = "record"
     /\ \/ \E s \in SlotsOf(p) :
             /\ \A r \in SlotsOf(p) : s <= r
             /\ workers' = [workers EXCEPT ![s] = [pid |-> NoPid, status |-> st]]
        \/ /\ SlotsOf(p) = {}
           /\ UNCHANGED workers
     /\ hpc' = [hpc EXCEPT ![t] = "wait"]
     /\ hwait' = [hwait EXCEPT ![t] = NoWait]
     /\ UNCHANGED <<mainVars, worker_count, child, flagVars, sigchld, ipc_exited>>
-----------------------------------------------------------------------------
(* The main loop, lines 190-211 of daemon_main.c.                          *)

\* The test of the while loop and daemon_reload_config.
LoopTest ==
  /\ MainAt("loop")
  /\ \/ /\ daemon_running
        /\ pc' = "mon_test"
        /\ i' = 0
        /\ active' = 0
        /\ reload_config' = FALSE
     \/ /\ ~daemon_running
        /\ pc' = "stop"
        /\ UNCHANGED <<i, active, reload_config>>
  /\ UNCHANGED <<loop_count, newpid, tableVars, child, daemon_running, sigchld,
                 reapVars, ipc_exited>>

\* daemon_monitor_workers: the for test and the read of "workers[i].pid > 0".
MonTest ==
  /\ MainAt("mon_test")
  /\ \/ /\ i < worker_count
        /\ workers[i].pid # NoPid
        /\ pc' = "mon_kill"
        /\ UNCHANGED i
     \/ /\ i < worker_count
        /\ workers[i].pid = NoPid
        /\ i' = i + 1
        /\ UNCHANGED pc
     \/ /\ i >= worker_count
        /\ pc' = "decide"
        /\ i' = 0
  /\ UNCHANGED <<active, loop_count, newpid, tableVars, child, flagVars, sigchld,
                 reapVars, ipc_exited>>

\* Mutant: a worker that is not found keeps its slot.
MonKill_Keep ==
  /\ MainAt("mon_kill")
  /\ active' = active + (IF Exists(workers[i].pid) THEN 1 ELSE 0)
  /\ pc' = "mon_test"
  /\ i' = i + 1
  /\ UNCHANGED <<loop_count, newpid, tableVars, child, flagVars, sigchld,
                 reapVars, ipc_exited>>

\* daemon_monitor_workers: kill(workers[i].pid, 0), which reads the pid again.
MonKill ==
  /\ MainAt("mon_kill")
  /\ \/ /\ Exists(workers[i].pid)
        /\ active' = active + 1
        /\ UNCHANGED workers
     \/ /\ ~Exists(workers[i].pid)
        /\ workers' = [workers EXCEPT ![i] = [pid |-> NoPid, status |-> "FAILED"]]
        /\ UNCHANGED active
  /\ pc' = "mon_test"
  /\ i' = i + 1
  /\ UNCHANGED <<loop_count, newpid, worker_count, child, flagVars, sigchld,
                 reapVars, ipc_exited>>

\* Every SpawnPeriod turns, when too few workers are active, one is spawned.
Decide ==
  /\ MainAt("decide")
  /\ pc' = IF loop_count = 0 /\ active < SpawnBelow THEN "spawn" ELSE "sleep"
  /\ active' = 0
  /\ UNCHANGED <<i, loop_count, newpid, tableVars, child, flagVars, sigchld,
                 reapVars, ipc_exited>>

\* daemon_spawn_worker refuses: every slot has been used.
SpawnRefused ==
  /\ MainAt("spawn")
  /\ worker_count >= MAX_WORKERS
  /\ pc' = "sleep"
  /\ UNCHANGED <<i, active, loop_count, newpid, tableVars, child, flagVars, sigchld,
                 reapVars, ipc_exited>>

\* malloc of task_id or fork() fails.
SpawnFails ==
  /\ MainAt("spawn")
  /\ worker_count < MAX_WORKERS
  /\ pc' = "sleep"
  /\ UNCHANGED <<i, active, loop_count, newpid, tableVars, child, flagVars, sigchld,
                 reapVars, ipc_exited>>

\* fork() returns in the parent; the child already runs.
Fork ==
  /\ MainAt("spawn")
  /\ worker_count < MAX_WORKERS
  /\ \E p \in Pids :
       /\ child[p] = "unborn"
       /\ child' = [child EXCEPT ![p] = "running"]
       /\ newpid' = p
  /\ pc' = "record"
  /\ UNCHANGED <<i, active, loop_count, tableVars, flagVars, sigchld, reapVars,
                 ipc_exited>>

\* Mutant: worker_count++ is missing.
RecordWorker_Unpublished ==
  /\ MainAt("record")
  /\ workers' = [workers EXCEPT ![worker_count] = [pid |-> newpid, status |-> "BUSY"]]
  /\ newpid' = NoPid
  /\ pc' = "sleep"
  /\ UNCHANGED <<i, active, loop_count, worker_count, child, flagVars, sigchld,
                 reapVars, ipc_exited>>

\* The slot is filled and then published by worker_count++; no reader of the
\* table looks at a slot before that, so the two are one step.
RecordWorker ==
  /\ MainAt("record")
  /\ workers' = [workers EXCEPT ![worker_count] = [pid |-> newpid, status |-> "BUSY"]]
  /\ worker_count' = worker_count + 1
  /\ newpid' = NoPid
  /\ pc' = "sleep"
  /\ UNCHANGED <<i, active, loop_count, child, flagVars, sigchld, reapVars, ipc_exited>>

\* sleep(1), which a signal cuts short, and loop_count++.
SleepLoop ==
  /\ MainAt("sleep")
  /\ loop_count' = (loop_count + 1) % SpawnPeriod
  /\ pc' = "loop"
  /\ UNCHANGED <<i, active, newpid, tableVars, child, flagVars, sigchld, reapVars,
                 ipc_exited>>
-----------------------------------------------------------------------------
(* Shutdown: lines 216-224 of daemon_main.c and daemon_shutdown.           *)

\* ipc_server_stop; what it does to the server is modelled in IpcServer.
StopIpc ==
  /\ MainAt("stop")
  /\ pc' = "join"
  /\ UNCHANGED <<i, active, loop_count, newpid, tableVars, child, flagVars, sigchld,
                 reapVars, ipc_exited>>

\* pthread_join returns once the IPC thread has returned.
JoinIpc ==
  /\ MainAt("join")
  /\ ipc_exited
  /\ pc' = "term_test"
  /\ i' = 0
  /\ UNCHANGED <<active, loop_count, newpid, tableVars, child, flagVars, sigchld,
                 reapVars, ipc_exited>>

\* The loop that sends SIGTERM: the read of "workers[i].pid > 0".
TermTest ==
  /\ MainAt("term_test")
  /\ \/ /\ i < worker_count
        /\ workers[i].pid # NoPid
        /\ pc' = "term_kill"
        /\ UNCHANGED i
     \/ /\ i < worker_count
        /\ workers[i].pid = NoPid
        /\ i' = i + 1
        /\ UNCHANGED pc
     \/ /\ i >= worker_count
        /\ pc' = "sleep2"
        /\ i' = 0
  /\ UNCHANGED <<active, loop_count, newpid, tableVars, child, flagVars, sigchld,
                 reapVars, ipc_exited>>

\* kill(workers[i].pid, SIGTERM). Workers and daemon share the handler that only
\* clears daemon_running, so SIGTERM at most cuts a worker's sleep short: it may
\* exit at any time in this model. With pid 0 the daemon signals itself as well.
TermKill ==
  /\ MainAt("term_kill")
  /\ daemon_running' = (daemon_running /\ workers[i].pid # NoPid)
  /\ pc' = "term_test"
  /\ i' = i + 1
  /\ UNCHANGED <<active, loop_count, newpid, tableVars, child, reload_config, sigchld,
                 reapVars, ipc_exited>>

\* Mutant: the second loop starts at slot 1.
SleepBeforeKill_SkipFirst ==
  /\ MainAt("sleep2")
  /\ pc' = "kill_test"
  /\ i' = 1
  /\ UNCHANGED <<active, loop_count, newpid, tableVars, child, flagVars, sigchld,
                 reapVars, ipc_exited>>

\* sleep(2), which any signal cuts short.
SleepBeforeKill ==
  /\ MainAt("sleep2")
  /\ pc' = "kill_test"
  /\ i' = 0
  /\ UNCHANGED <<active, loop_count, newpid, tableVars, child, flagVars, sigchld,
                 reapVars, ipc_exited>>

\* Mutant: the loop that sends SIGKILL stops one slot early.
KillTest_SkipLast ==
  /\ MainAt("kill_test")
  /\ \/ /\ i + 1 < worker_count
        /\ workers[i].pid # NoPid
        /\ pc' = "kill_probe"
        /\ UNCHANGED i
     \/ /\ i + 1 < worker_count
        /\ workers[i].pid = NoPid
        /\ i' = i + 1
        /\ UNCHANGED pc
     \/ /\ i + 1 >= worker_count
        /\ pc' = "reap"
        /\ i' = 0
  /\ UNCHANGED <<active, loop_count, newpid, tableVars, child, flagVars, sigchld,
                 reapVars, ipc_exited>>

\* The loop that sends SIGKILL: the read of "workers[i].pid > 0".
KillTest ==
  /\ MainAt("kill_test")
  /\ \/ /\ i < worker_count
        /\ workers[i].pid # NoPid
        /\ pc' = "kill_probe"
        /\ UNCHANGED i
     \/ /\ i < worker_count
        /\ workers[i].pid = NoPid
        /\ i' = i + 1
        /\ UNCHANGED pc
     \/ /\ i >= worker_count
        /\ pc' = "reap"
        /\ i' = 0
  /\ UNCHANGED <<active, loop_count, newpid, tableVars, child, flagVars, sigchld,
                 reapVars, ipc_exited>>

\* Mutant: a worker that no longer exists is tried again instead of skipped.
KillProbe_Retry ==
  /\ MainAt("kill_probe")
  /\ pc' = IF Exists(workers[i].pid) THEN "kill_send" ELSE "kill_test"
  /\ UNCHANGED <<i, active, loop_count, newpid, tableVars, child, flagVars, sigchld,
                 reapVars, ipc_exited>>

\* "kill(workers[i].pid, 0) == 0", the second read.
KillProbe ==
  /\ MainAt("kill_probe")
  /\ \/ /\ Exists(workers[i].pid)
        /\ pc' = "kill_send"
        /\ UNCHANGED i
     \/ /\ ~Exists(workers[i].pid)
        /\ pc' = "kill_test"
        /\ i' = i + 1
  /\ UNCHANGED <<active, loop_count, newpid, tableVars, child, flagVars, sigchld,
                 reapVars, ipc_exited>>

\* kill(workers[i].pid, SIGKILL), the third read. A slot cleared since the first
\* one makes it kill(0, SIGKILL): the whole process group, daemon included.
KillSend ==
  /\ MainAt("kill_send")
  /\ \/ /\ workers[i].pid # NoPid
        /\ child' = [child EXCEPT ![workers[i].pid] =
                       IF @ = "running" THEN "doomed" ELSE @]
        /\ pc' = "kill_test"
        /\ i' = i + 1
     \/ /\ workers[i].pid = NoPid
        /\ child' = [p \in Pids |-> IF child[p] = "running" THEN "doomed" ELSE child[p]]
        /\ pc' = "killed"
        /\ UNCHANGED i
  /\ UNCHANGED <<active, loop_count, newpid, tableVars, flagVars, sigchld, reapVars,
                 ipc_exited>>

\* The call of daemon_reap_zombies from daemon_shutdown.
ReapCall ==
  /\ MainAt("reap")
  /\ hpc' = [hpc EXCEPT !["main"] = "wait"]
  /\ pc' = "rmpid"
  /\ UNCHANGED <<i, active, loop_count, newpid, tableVars, child, flagVars, sigchld,
                 hwait, ipc_exited>>

\* daemon_remove_pidfile, cleanup and the return of main; the files they remove
\* are modelled in Instances.
RemovePidfile ==
  /\ MainAt("rmpid")
  /\ pc' = "done"
  /\ UNCHANGED <<i, active, loop_count, newpid, tableVars, child, flagVars, sigchld,
                 reapVars, ipc_exited>>
-----------------------------------------------------------------------------
(* The environment: the workers and the IPC thread.                        *)

\* A worker returns from worker_func and exits, or is killed by a signal.
ChildDies(p) ==
  /\ \/ /\ child[p] = "running"
        /\ \E how \in Zombie : child' = [child EXCEPT ![p] = how]
     \/ /\ child[p] = "doomed"
        /\ child' = [child EXCEPT ![p] = "signaled"]
  /\ sigchld' = (sigchld \/ Alive)
  /\ UNCHANGED <<mainVars, tableVars, flagVars, reapVars, ipc_exited>>

\* ipc_server_run returns: after CMD_SHUTDOWN, or once the main thread asked.
IpcThreadExits ==
  /\ Alive
  /\ ~ipc_exited
  /\ hpc["ipc"] = "idle"
  /\ ipc_exited' = TRUE
  /\ UNCHANGED <<mainVars, tableVars, child, flagVars, sigchld, reapVars>>
-----------------------------------------------------------------------------
MainStep ==
  \/ LoopTest \/ MonTest \/ MonKill \/ Decide
  \/ SpawnRefused \/ SpawnFails \/ Fork \/ RecordWorker \/ SleepLoop
  \/ StopIpc \/ JoinIpc \/ TermTest \/ TermKill \/ SleepBeforeKill
  \/ KillTest \/ KillProbe \/ KillSend \/ ReapCall \/ RemovePidfile

Reap(t) == SigChld(t) \/ ReapWait(t) \/ ReapRecord(t)

Next ==
  \/ SigTerm \/ SigHup
  \/ \E t \in Threads : Reap(t)
  \/ MainStep
  \/ \E p \in Pids : ChildDies(p)
  \/ IpcThreadExits

\* The main thread and the handlers are scheduled, a worker's function returns
\* (test_worker sleeps three seconds), and the IPC loop, which wakes at least
\* once a second, sees that it has been stopped. No signal is promised.
Fairness ==
  /\ WF_vars(MainStep)
  /\ \A t \in Threads : WF_vars(ReapWait(t) \/ ReapRecord(t))
  /\ WF_vars(\E t \in Threads : SigChld(t))
  /\ \A p \in Pids : WF_vars(ChildDies(p))
  /\ WF_vars(pc = "join" /\ IpcThreadExits)

Spec == Init /\ [][Next]_vars
FairSpec == Spec /\ Fairness
-----------------------------------------------------------------------------
(* Properties.                                                             *)

\* Types of the state of daemon.c and of the main loop.
TypeOK ==
  /\ pc \in MainPC
  /\ i \in Nat
  /\ active \in Nat
  /\ loop_count \in 0 .. SpawnPeriod - 1
  /\ newpid \in Pids \cup {NoPid}
  /\ workers \in [Slots -> [pid : Pids \cup {NoPid}, status : Status]]
  /\ worker_count \in 0 .. MAX_WORKERS
  /\ child \in [Pids -> ChildState]
  /\ daemon_running \in BOOLEAN
  /\ reload_config \in BOOLEAN
  /\ sigchld \in BOOLEAN
  /\ hpc \in [Threads -> {"idle", "wait", "record"}]
  /\ hwait \in [Threads -> [pid : Pids \cup {NoPid}, how : Zombie]]
  /\ ipc_exited \in BOOLEAN

\* A worker process that still runs is never lost: daemon_spawn_worker is about to
\* record it, or a slot that the monitor and the shutdown loops visit holds its pid,
\* whatever the SIGCHLD handlers on the other threads do to the table meanwhile.
RunningIsTracked ==
  \A p \in Pids : child[p] \in Live =>
    \/ pc = "record" /\ newpid = p
    \/ SlotsOf(p) # {}

\* The limit of the main loop ("active < 3") bounds the worker processes that exist,
\* although the count it compares is taken slot by slot while workers die.
WorkersBounded ==
  Cardinality({p \in Pids : child[p] \in Live}) <= SpawnBelow

\* When main has returned, daemon_shutdown has left no worker behind: each one has
\* died or has been sent SIGKILL, also the ones that died under the loops' feet.
NoWorkerSurvives == pc = "done" => \A p \in Pids : child[p] # "running"

\* What a step may do to the status of a slot.
IdleStep ==
  \A s \in Slots :
    workers[s].status = "BUSY" /\ workers'[s].status = "IDLE" =>
      \E t \in Threads : hwait[t] = [pid |-> workers[s].pid, how |-> "exited"]

\* A slot turns from BUSY to IDLE only for a worker that exited by itself: a worker
\* killed by a signal, or one whose end nobody recorded, is never reported as IDLE.
IdleOnlyAfterExit == [][IdleStep]_vars

\* "Resource cleanup and zombie prevention": a worker that has ended is collected
\* by some waitpid, unless the daemon itself ends first.
ZombiesReaped ==
  \A p \in Pids : child[p] \in Zombie ~> (child[p] = "gone" \/ ~Alive)

\* A slot does not stay BUSY for a worker that was reaped before it was recorded:
\* the next turns of daemon_monitor_workers clear it, unless the daemon stops.
StaleSlotCleared ==
  \A p \in Pids :
    (child[p] = "gone" /\ SlotsOf(p) # {}) ~> (SlotsOf(p) = {} \/ ~daemon_running)

\* SIGTERM and SIGINT end the daemon: the loops of daemon_shutdown, the join of the
\* IPC thread and the handlers never wait for each other for ever.
TermEndsDaemon == ~daemon_running ~> ~Alive

\* "SIGTERM/SIGINT      Graceful shutdown": the shutdown runs to the end of main and is
\* never cut short by a SIGKILL that the daemon sends to its own process group.
GracefulShutdown == pc # "killed"

\* What the main thread has come to, seen from outside.
Phase ==
  CASE pc \in Stopped -> "over"
    [] pc \in {"loop", "mon_test", "mon_kill", "decide", "spawn", "record", "sleep"} -> "open"
    [] OTHER -> "closing"

\* What the daemon promises about its workers, read off the processes alone.
Pool == INSTANCE WorkerPool WITH Limit <- SpawnBelow, phase <- Phase

\* The table, the loops over it and the handlers that change it meanwhile implement the
\* pool: no more workers than the limit, each waited for at most once, SIGKILL only from
\* daemon_shutdown, and no worker left running when the daemon is over.
ImplementsPool == Pool!Spec
=============================================================================
