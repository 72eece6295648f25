----------------------------- MODULE Instances -----------------------------
(***************************************************************************)
(* What storage_daemon processes share with each other: the socket path    *)
(* and the pid files.  Several processes start, are refused, run, stop and *)
(* crash in any order; each follows main of daemon_main.c from             *)
(* ipc_server_init to cleanup.  The number of a daemon that has ended may  *)
(* be given to any other process of the machine, which kill(pid, 0) cannot *)
(* tell from a daemon.  The names of the shared memory object and of the   *)
(* semaphore are created and removed in the same places as the socket path *)
(* and are not modelled apart.                                             *)
(***************************************************************************)
EXTENDS Naturals

CONSTANTS
  Procs,      \* process ids of daemons
  Nobody,     \* no process
  PidPath,    \* PidPath[p]: "default", or "custom" when p has option -p
  Layouts     \* what the directories of the three paths may be

Paths == {"default", "custom", "local"}

ASSUME ProcAssumption ==
  /\ Procs \cap {Nobody, "absent", "empty"} = {}
  /\ PidPath \in [Procs -> {"default", "custom"}]
ASSUME DirAssumption == Layouts \subseteq [Paths -> {"ok", "missing", "denied"}]

VARIABLES
  dir,      \* per path: its directory is "ok", "missing" or "denied" (cannot be written)
  ppc,      \* per process: where its main is
  sock,     \* the process that bound the socket path, Nobody if there is no such file
  pidfile,  \* per path: "absent", "empty" or the process id written in it
  opened,   \* per process: the pid file it has open for writing, or "none"
  foreign,  \* the numbers of Procs that processes other than a daemon have now
  alone     \* history, per process: no other process has been alive since it started

vars == <<dir, ppc, sock, pidfile, opened, foreign, alone>>

NotAlive == {"off", "stopped"}
Alive(p) == ppc[p] \notin NotAlive
PPC == NotAlive \cup {"unlink", "bind", "prepare", "daemonize", "check", "refused",
                      "open", "write", "setup", "run", "rm_default", "rm_own", "leave", "cleanup", "failed"}

\* Mutant: a pid file that exists is enough.
IsRunning_NoKill(path) ==
  \E f \in {path, "local"} :
    /\ f = "local" => pidfile[path] = "absent"
    /\ pidfile[f] \in Procs

\* kill(pid, 0) == 0: some process has the number, a daemon or not.
Exists(q) == Alive(q) \/ q \in foreign

\* daemon_is_running: the local file is read when the path cannot be opened; a file
\* without a number in it counts as no daemon, a number any process has as a running one.
IsRunning(path) ==
  \E f \in {path, "local"} :
    /\ f = "local" => pidfile[path] = "absent"
    /\ \E q \in Procs : pidfile[f] = q /\ Exists(q)

\* Where fopen(path, "w") with the fallback of daemon_create_pidfile ends up.
Targets(path) ==
  {f \in {path, "local"} : dir[f] = "ok" /\ (f = "local" => dir[path] # "ok")}

Init ==
  /\ dir \in Layouts
  /\ ppc = [p \in Procs |-> "off"]
  /\ sock = Nobody
  /\ pidfile = [f \in Paths |-> "absent"]
  /\ opened = [p \in Procs |-> "none"]
  /\ foreign = {}
  /\ alone = [p \in Procs |-> FALSE]
-----------------------------------------------------------------------------
(* Start-up.                                                               *)

\* main is entered. The history notes whether another process is alive.
Start(p) ==
  /\ ppc[p] \in NotAlive /\ p \notin foreign
  /\ ppc' = [ppc EXCEPT ![p] = "unlink"]
  /\ alone' = [q \in Procs |-> q = p /\ \A r \in Procs \ {p} : ~Alive(r)]
  /\ UNCHANGED <<sock, pidfile, opened, foreign, dir>>

\* unlink(socket_path) of ipc_server_init: whoever bound it loses it.
IpcUnlink(p) ==
  /\ ppc[p] = "unlink"
  /\ sock' = Nobody
  /\ ppc' = [ppc EXCEPT ![p] = "bind"]
  /\ UNCHANGED <<pidfile, opened, alone, foreign, dir>>

\* Mutant: the old socket file is removed after bind instead of before it.
IpcBind_UnlinkAfter(p) ==
  /\ ppc[p] = "bind"
  /\ sock' = Nobody
  /\ ppc' = [ppc EXCEPT ![p] = "prepare"]
  /\ UNCHANGED <<pidfile, opened, alone, foreign, dir>>

\* bind, listen and ipc_shm_init; a failure unlinks the path before it returns.
IpcBind(p) ==
  /\ ppc[p] = "bind"
  /\ \/ /\ sock = Nobody
        /\ sock' = p
        /\ ppc' = [ppc EXCEPT ![p] = "prepare"]
     \/ /\ sock' = Nobody
        /\ ppc' = [ppc EXCEPT ![p] = "failed"]
  /\ UNCHANGED <<pidfile, opened, alone, foreign, dir>>

\* monitor_init and monitor_start_continuous; when one fails the socket path is removed.
Prepare(p) ==
  /\ ppc[p] = "prepare"
  /\ \E next \in {"daemonize", "cleanup"} : ppc' = [ppc EXCEPT ![p] = next]
  /\ UNCHANGED <<sock, pidfile, opened, alone, foreign, dir>>

\* daemon_init, which goes on in the second child; p is the number of the process
\* that goes on. Option -f skips it, and so does a parent that is init. A fork, setsid,
\* chdir or /dev/null that fails ends in cleanup(), in the launcher or in a child.
Daemonize(p) ==
  /\ ppc[p] = "daemonize"
  /\ \E next \in {"check", "cleanup"} : ppc' = [ppc EXCEPT ![p] = next]
  /\ UNCHANGED <<sock, pidfile, opened, alone, foreign, dir>>

\* The test at the top of daemon_create_pidfile.
CheckPid(p) ==
  /\ ppc[p] = "check"
  /\ ppc' = [ppc EXCEPT ![p] = IF IsRunning(PidPath[p]) THEN "refused" ELSE "open"]
  /\ UNCHANGED <<sock, pidfile, opened, alone, foreign, dir>>

\* main gives up after daemon_create_pidfile: it goes on to cleanup().
Refused(p) ==
  /\ ppc[p] = "refused"
  /\ ppc' = [ppc EXCEPT ![p] = "cleanup"]
  /\ UNCHANGED <<sock, pidfile, opened, alone, foreign, dir>>

\* fopen(..., "w") truncates or creates the file; when neither path can be
\* opened, main gives up.
OpenPid(p) ==
  /\ ppc[p] = "open"
  /\ \/ \E f \in Targets(PidPath[p]) :
          /\ pidfile' = [pidfile EXCEPT ![f] = "empty"]
          /\ opened' = [opened EXCEPT ![p] = f]
          /\ ppc' = [ppc EXCEPT ![p] = "write"]
     \/ /\ ppc' = [ppc EXCEPT ![p] = "cleanup"]
        /\ UNCHANGED <<pidfile, opened>>
  /\ UNCHANGED <<sock, alone, foreign, dir>>

\* fprintf and fclose: the number goes to the file that was opened, which may have
\* been unlinked since.
WritePid(p) ==
  /\ ppc[p] = "write"
  /\ pidfile' = [f \in Paths |-> IF f = opened[p] THEN p ELSE pidfile[f]]
  /\ opened' = [opened EXCEPT ![p] = "none"]
  /\ ppc' = [ppc EXCEPT ![p] = "setup"]
  /\ UNCHANGED <<sock, alone, foreign, dir>>

\* daemon_setup_signals and pthread_create: the daemon runs; or the first fails and
\* the pid file is removed; or the second fails and it is not.
Setup(p) ==
  /\ ppc[p] = "setup"
  /\ \E next \in {"run", "rm_own", "cleanup"} : ppc' = [ppc EXCEPT ![p] = next]
  /\ UNCHANGED <<sock, pidfile, opened, alone, foreign, dir>>
-----------------------------------------------------------------------------
(* The end of a process.                                                   *)

\* The main loop ends and daemon_shutdown runs up to daemon_remove_pidfile(NULL).
Stop(p) ==
  /\ ppc[p] = "run"
  /\ ppc' = [ppc EXCEPT ![p] = "rm_default"]
  /\ UNCHANGED <<sock, pidfile, opened, alone, foreign, dir>>

\* daemon_remove_pidfile(path): the local file is tried only when unlink fails with
\* an error other than ENOENT. A file that is open elsewhere loses its name.
Remove(path) ==
  LET f == IF dir[path] = "denied" THEN "local" ELSE path
  IN /\ pidfile' = [pidfile EXCEPT ![f] = "absent"]
     /\ opened' = [q \in Procs |-> IF opened[q] = f THEN "none" ELSE opened[q]]

\* daemon_remove_pidfile(NULL), the last call of daemon_shutdown.
RemoveDefault(p) ==
  /\ ppc[p] = "rm_default"
  /\ Remove("default")
  /\ ppc' = [ppc EXCEPT ![p] = "rm_own"]
  /\ UNCHANGED <<sock, alone, foreign, dir>>

\* Mutant: main leaves the pid file to daemon_shutdown, which knows only the default.
RemoveOwn_Skip(p) ==
  /\ ppc[p] = "rm_own"
  /\ ppc' = [ppc EXCEPT ![p] = "leave"]
  /\ UNCHANGED <<sock, pidfile, opened, alone, foreign, dir>>

\* daemon_remove_pidfile(pidfile), called by main.
RemoveOwn(p) ==
  /\ ppc[p] = "rm_own"
  /\ Remove(PidPath[p])
  /\ ppc' = [ppc EXCEPT ![p] = "leave"]
  /\ UNCHANGED <<sock, alone, foreign, dir>>

\* cleanup() and the return of main: ipc_server_cleanup unlinks the socket path,
\* whichever process bound it.
Cleanup(p) ==
  /\ ppc[p] \in {"cleanup", "leave"}
  /\ sock' = Nobody
  /\ ppc' = [ppc EXCEPT ![p] = IF @ = "leave" THEN "stopped" ELSE "off"]
  /\ UNCHANGED <<pidfile, opened, alone, foreign, dir>>

\* main returns 1 after a failed ipc_server_init.
Fail(p) ==
  /\ ppc[p] = "failed"
  /\ ppc' = [ppc EXCEPT ![p] = "off"]
  /\ UNCHANGED <<sock, pidfile, opened, alone, foreign, dir>>

\* The process dies anywhere, and its files stay.
Crash(p) ==
  /\ Alive(p)
  /\ ppc' = [ppc EXCEPT ![p] = "off"]
  /\ opened' = [opened EXCEPT ![p] = "none"]
  /\ UNCHANGED <<sock, pidfile, alone, foreign, dir>>
-----------------------------------------------------------------------------
\* The machine: a process that is no daemon gets the number of one that ended, or gives
\* it back.
Reuse(q) ==
  /\ ~Alive(q)
  /\ foreign' = IF q \in foreign THEN foreign \ {q} ELSE foreign \cup {q}
  /\ UNCHANGED <<dir, ppc, sock, pidfile, opened, alone>>

Step(p) ==
  \/ Start(p) \/ IpcUnlink(p) \/ IpcBind(p) \/ Prepare(p) \/ Daemonize(p) \/ CheckPid(p)
  \/ Refused(p) \/ OpenPid(p) \/ WritePid(p) \/ Setup(p) \/ Stop(p) \/ RemoveDefault(p)
  \/ RemoveOwn(p) \/ Cleanup(p) \/ Fail(p) \/ Crash(p)

Next == \E p \in Procs : Step(p) \/ Reuse(p)

Spec == Init /\ [][Next]_vars
-----------------------------------------------------------------------------
(* Properties.                                                             *)

\* Types of the processes' positions and of the shared files; a pid file is held open
\* only between the fopen and the fclose of daemon_create_pidfile.
TypeOK ==
  /\ dir \in Layouts
  /\ ppc \in [Procs -> PPC]
  /\ sock \in Procs \cup {Nobody}
  /\ pidfile \in [Paths -> Procs \cup {"absent", "empty"}]
  /\ opened \in [Procs -> Paths \cup {"none"}]
  /\ \A p \in Procs : opened[p] # "none" => ppc[p] = "write"
  /\ foreign \subseteq Procs /\ \A p \in foreign : ppc[p] \in NotAlive
  /\ alone \in [Procs -> BOOLEAN]

\* Recovery: whatever earlier processes left behind when they crashed, a daemon that
\* reaches its main loop with no other process beside it owns the socket path and is
\* the one its pid file names, so that clients and "kill $(cat pidfile)" find it.
FreshStartWorks ==
  \A p \in Procs : ppc[p] = "run" /\ alone[p] =>
    sock = p /\ \E f \in Targets(PidPath[p]) : pidfile[f] = p

\* What daemon_is_running may refuse a lone start for: a number in the file it reads that
\* some process has, of a daemon that did not stop in an orderly way.
RefuseStep ==
  \A p \in Procs : ppc[p] = "check" /\ ppc'[p] = "refused" /\ alone[p] =>
    \E f \in {PidPath[p], "local"}, q \in {p} \cup foreign :
      /\ pidfile[f] = q
      /\ ppc[q] # "stopped" \/ (f = "local" /\ dir[PidPath[q]] = "missing")

\* With no other daemon beside it, a start is refused by daemon_is_running only for the
\* number of a daemon that did not stop in an orderly way (or whose local file stayed
\* because its directory is missing), and only while some process has that number: the
\* starting one itself or one that is no daemon. The code does not tell the latter from a
\* daemon, so that a leftover file may keep every daemon from starting; a file that names
\* nobody, or that of a daemon that was stopped, never does.
OnlyLeftoverBlocks == [][RefuseStep]_vars

\* A daemon that stops in an orderly way leaves no pid file with its number, with option
\* -p and without, whatever other daemons do meanwhile, and with no other beside it no
\* socket either. When the directory of its pid file is missing, daemon_remove_pidfile
\* takes ENOENT for "already removed" and the local file may stay.
OrderlyStopLeavesNothing ==
  \A p \in Procs : ppc[p] = "stopped" =>
    /\ alone[p] => sock = Nobody
    /\ \A f \in Paths : pidfile[f] = p => f = "local" /\ dir[PidPath[p]] = "missing"

\* "Daemon already running (PID file exists)": the start that finds a running daemon
\* and gives up has not touched it; the daemon still owns the socket path.
RefusedStartIsHarmless ==
  \A p, q \in Procs :
    ppc[q] = "refused" /\ ppc[p] = "run" /\ pidfile[PidPath[p]] = p => sock = p
=============================================================================
