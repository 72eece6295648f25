# Storage Manager: TLA+ models, checks and proofs

The Storage Manager is a daemon, a command line client, a library of storage
functions and a Linux kernel module. This directory models the parts of it in which
several actors meet: threads and signal handlers inside the daemon, clients and
server, daemons that start side by side, concurrent users of the kernel module's
table, and processes that run library calls at the same time on the same disks,
database and files.

`PROJECT.json` lists the components, the runs, the mutants, the source lines of every
definition, the findings, the hazards and the theorems. Paths there begin with `src/`,
the root of the repository; `src/src/daemon.c` is `src/daemon.c` in the repository.

## Running it

    tlc -workers 2 -config Workers.cfg MCWorkers            # one run
    tlapm IpcServer_proofs.tla                              # one proof module

A run's module and configuration are in the table below. Definitions whose comment
begins with *Mutant* are plausible bugs of the definition that follows; they are used
by no specification. Each property is violated when its mutant takes the definition's
place.

## The system and its parts

| Part | State | Operations | Module |
|---|---|---|---|
| Worker processes (`daemon.c`, `daemon_main.c`) | `workers[]`, `worker_count`, `daemon_running`, `reload_config`, the kernel's process states | main loop (monitor, spawn), SIGTERM/SIGINT/SIGHUP/SIGCHLD handler, `daemon_reap_zombies`, `daemon_shutdown` | `Workers` |
| Request server (`ipc_server.c`) | `server_state`: `running`, `clients[]`, `num_clients`; the listen queue and the sockets | `ipc_server_run`, `ipc_accept_client`, dispatch, stop, cleanup; the client's connect, send, receive, give up | `IpcServer` |
| Whole daemon (`daemon_main.c`) | the two above | main thread, IPC thread, handlers, workers, clients together | `StorageDaemon` |
| Start-up (`daemon_main.c`, `daemon.c`, `ipc_server.c`) | socket path, pid files and their directories | `main` from `ipc_server_init` to `cleanup`, `daemon_init`, `daemon_create_pidfile`, `daemon_is_running`, `daemon_remove_pidfile`, crashes | `Instances` |
| Kernel module (`storage_stats.c`) | `device_stats[]`, `device_count`, `debug` | `update_storage_stats` with `get_device_stats`, `reset_stats`, the `/proc` write and the `/proc` report | `StorageStats` |
| Backup engine (`backup_engine.c`) | rows of `backups.db`, backup directories | `backup_create`, `backup_list`, `backup_get_info`, `backup_verify`, `backup_restore`, `backup_cleanup_old`, crashes | `BackupEngine` |
| Library calls (`filesystem_ops.c`, `lvm_manager.c`, `raid_manager.c`, `security_manager.c`, `memory_manager.c`, `performance_tuner.c`, snapshots of `backup_engine.c`) | disks with their signature and kernel user, array, group, snapshots and mounts, swap/password/test files, kernel settings, file attributes, audit log | one script of commands for each call | `StorageCalls` |
| Background threads (`monitor.c`, scheduler of `backup_engine.c`) | per service: database, flag, thread handle; samples; `performance_history` | init, start, stop, cleanup, the thread loops, `monitor_get_current_performance`, `monitor_save_sample`, `monitor_get_history`, `monitor_cleanup_old_data` | `Monitor` |
| Shared memory, semaphore, message queue (`ipc_server.c`) | created and removed with the server, read by nobody | | not modelled |
| Resource limits, logging, ACLs, parsing of `/proc` and of reports, shell scripts | | | not modelled |

How they interact. The main thread of the daemon starts the IPC thread and, in the
foreground, a monitor thread; it forks workers. SIGCHLD is delivered to any of these
threads and its handler writes the table that the main thread reads. At the end the
main thread stops the server, joins its thread, runs `daemon_shutdown` and cleans up.
`storage_cli` talks to the daemon for a few commands only. Its other commands call the
library in its own process, so that the database, the disks and the kernel's settings
are shared by processes that do not know of each other. Nothing locks them.

## The modules

**Workers.** The main thread is a sequence of labels (`pc`), at the grain of its
accesses to `workers[i].pid`: the project is built without optimisation, so each
occurrence in the source is a read. `SigChld(t)` starts the handler on a thread `t`;
`ReapWait` is one `waitpid`, `ReapRecord` the search for the slot and its update. While
the handler runs on the main thread, the main thread's own code stands still. `child`
is what the kernel knows of each process. A child sent SIGKILL is `doomed` and dies
later. `kill(0, SIGKILL)` ends in `pc = "killed"`.

**WorkerPool** says what the daemon promises about its workers, from the processes
alone: they are started below a limit while the daemon is open, each is collected at
most once, only a daemon that is closing kills, and none is left running at the end. It
has no table and no handlers. `Workers` implements it (`ImplementsPool`); the mapping
keeps `child` and reads the phase off the main thread's `pc`.

**IpcServer.** The IPC thread goes through test, select, accept and one turn of the
serving loop per slot. `read_fds` is the set that `select` returned and is older than
the table when it is used. Clients follow `send_command`; they may write a whole
request or fewer bytes, close at any time, and come back. The main thread's part is
`Stop` and `Cleanup` (after the join).

**RequestService** says what the server promises its clients: one request and at most
one answer, which is the answer to that request, and no end without an answer but for a
request cut short, a client that left, more conversations than the service can hold, or
the end of the service. It has no thread, table, backlog or `select`. `IpcServer`
implements it (`ImplementsService`); the mapping renames the clients' variables,
`running` is `serving`, and the service is over once the cleanup is done.

**StorageDaemon** composes the two. Its state is theirs; `ipc_exited` of `Workers` is
`run_pc = "exited"`, and `main_pc` of `IpcServer` is a function of the main thread's
`pc` (`MainPhase`). The runs check that the composition implements both component
specifications, so that what each component assumes of the other (the IPC thread may
return at any time; stop, join and cleanup come in this order) is really the case.

**Instances.** Each process goes through `main`. Init is the clean machine; crashes
produce the leftovers. `dir` says of each directory whether it is usable, missing or
not writable, and never changes. `Daemonize` is `daemon_init`, which may fail after the
socket is bound. `foreign` has the numbers of dead daemons that other programs have got
since (`Reuse`): `kill(pid, 0)` succeeds for those, too. `alone` is a history variable:
no other daemon has lived since this one started.

**StorageStats.** An update is `Find`, or `Create` and `ReturnCreated`, then `Apply`:
the two critical sections of `stats_lock`, and between them the computation of the
pointer outside the lock. `Cut` maps a name to what `strncpy` keeps of it.

**BackupEngine.** Processes run one operation after the other and may crash between
two steps. A backup's id is the second it was made in. `listed` and `row` are the
table, `dirs` and `files` the file system. `rsync` copies and `rm -rf` removes file by
file. `backup_verify` reads the row, looks for the directory (`Verify`) and asks `du` for
its size (`Measure`), with the steps of others in between. `removed` and `torn` are history variables.

**StorageCalls.** A call is a script, the sequence of `<<command, target>>` steps that
the function runs. `Does` takes the next step when it succeeds, `Fail` when it fails;
`Fatal` says which failures end the call and `Rollback` what the call does before it
returns. `Crash` drops what is left of the script. What `mkfs`, `mdadm`, LVM, `mount`,
`swapon`, `cryptsetup` and sysfs do is external to the code and modelled by its effect
on the disks and files: these tools open a block device exclusively, so they refuse one
that the kernel holds, save for `fsck -n`, which only reads. The source decides which
commands run, in which order, with which flags, and what happens after a failure. A
setter of a kernel setting (`Set`) has its effect or has none, and the profile goes on.
`copied`, `crowded`, `left`, `want`, `mixed`, `missed`, `logged` and `cleared` are history
variables.

The calls fall into five areas: block devices, snapshots, swap, kernel settings, and
attributes with the audit log. No command of one area reads or writes a variable of
another one, save for `files`, in which they create and remove files of different
names. So the steps of calls of different areas commute, and a behaviour has calls of
one area only (`area`, chosen in Init).

**Monitor.** One process with its main thread and the threads it has created. The main
thread runs one call after the other, as `test_monitor`, `storage_cli` and the daemon
do; the threads go through their loops and read the flags without a mutex. A sleeping
thread counts seconds down. `prev` tells whether the last sample was taken in this
second, and a sample is zeros, a rate, or memory that nobody wrote. `Serve` is the
daemon: `daemon_init` may fork, and then the threads are `lost`. Other processes insert
and delete rows at any time. `calm`, `cut` and `forked` are history variables.

## What correctness means here

- *Workers*: no running worker is lost from the table, their number is bounded, IDLE is
  reported only for a worker that exited, no worker outlives an orderly stop, every
  zombie is collected, SIGTERM ends the daemon.
- *IpcServer*: the count of clients is exact, a connection is held in one place, the
  loop never blocks in `read`, a whole request is dropped only for lack of room, every
  request is settled, a stop completes.
- *Instances*: a start recovers from whatever a crash left; without another daemon it is
  refused only for the file of one that crashed, while some process has its number; an
  orderly stop leaves nothing.
- *StorageStats*: counters of an entry agree, a pointer computed outside the lock stays
  in the table, an update never lands in an entry older than its device's, duplicate
  entries arise only from cut names, the total of a report covers what it lists.
- *BackupEngine*: a row that says success is a complete backup, verify finds such a
  backup missing or empty, and restore misses files of it, only after a cleanup, the
  newest backup survives.
- *StorageCalls*: nothing temporary is left behind, a snapshot backup copies its own
  snapshot, no setter of a profile undoes another one, the audit log keeps what it was
  given. That no call damages a device in use is no property of this code: the tools
  see to it.
- *Monitor*: every running thread is the one its service knows and has an open database,
  no row of the history is unwritten memory, a listing stays inside its array, sampling
  goes on, a stop returns.

## The runs

| Run | Module, configuration | Bounds | Shows |
|---|---|---|---|
| workers | `MCWorkers`, `Workers.cfg` | 2 pids, 2 slots, spawn at every turn below 2 workers, main and IPC thread | `RunningIsTracked`, `NoWorkerSurvives`, `IdleOnlyAfterExit`, `ZombiesReaped`, `StaleSlotCleared`, `TermEndsDaemon`, `ImplementsPool` |
| workers_graceful | `MCWorkers`, `Workers_graceful.cfg` | 2 pids, 2 slots | violation of `GracefulShutdown` |
| ipc | `MCIpcServer`, `IpcServer.cfg` | 2 clients, 1 slot, backlog 1 | `NumClientsExact`, `HeldOnce`, `ReadNeverBlocks`, `DroppedOnlyWhenFull`, `RequestSettled`, `StopCompletes`, `ImplementsService` |
| daemon_refines | `MCStorageDaemon`, `StorageDaemon_refines.cfg` | 1 pid, 1 client, 1 slot each | `ImplementsWorkers`, `ImplementsIpcServer`, `TermReleasesEverybody` |
| daemon_shutdown_command | `MCStorageDaemon`, `StorageDaemon_shutdown.cfg` | the same | violation of `ShutdownCommandEnds` |
| stats_safety | `MCStorageStats`, `StorageStats_safety.cfg` | 2 callers, 1 reader, 3 entries of up to 2 operations, names with and without a cut | `OpCountExact`, `PointerInTable`, `NeverAnOlderEntry`, `DuplicatesOnlyOfLongNames`, `TotalCoversListed` |
| stats_attribution | `MCStorageStats`, `StorageStats_attribution.cfg` | the same | violation of `CountedForItsDevice` |
| instances_safety | `MCInstances`, `Instances_safety.cfg` | 3 processes, one with a pid file of its own; all directories usable, the default one not writable, or the own one missing | `FreshStartWorks`, `OrderlyStopLeavesNothing`, `OnlyLeftoverBlocks` |
| instances_refused | `MCInstances`, `Instances_refused.cfg` | 2 processes | violation of `RefusedStartIsHarmless` |
| backup_safety | `MCBackupEngine`, `BackupEngine_safety.cfg` | 2 processes, 2 files, 2 seconds, keep 1 | `SuccessIsComplete`, `SoundNeverRejected`, `RestoredIsWhole`, `NewestSurvives` |
| storage_calls | `MCStorageCalls`, `StorageCalls_safety.cfg` | 3 processes, of which 2 work on devices or tune; 2 setters that fail; 2 disks in any state, 2 volumes, 2 seconds, 2 workloads, device without `queue_depth` | `NothingLeftBehind`, `CopiesOwnSnapshot`, `ProfileApplied`, `AuditKept` |
| monitor | `MCMonitor`, `Monitor.cfg` | 2 threads, sleeps of 2 and 3 seconds, 2 rows | `ThreadsAccounted`, `RowsWritten`, `HistoryFits`, `KeepsSampling`, `StopReturns` |

The type invariants, `WorkersBounded`, and the two properties of the shutdown's order
(`ServerGoneFirst`, `NobodyLeftConnected`) are in no run; they are proved (below).

Why the bounds are enough to meet the interesting cases:

- *Workers*: two workers are the least number for one to die while another one is
  counted, killed or recorded, and with as many slots the refusal for a full table
  happens. The safety properties are proved for every number of pids, slots and
  workers, so the run carries the liveness, and without symmetry. With as many pids as
  `SpawnBelow` the limit of `WorkerPool` never refuses a start; that part of
  `ImplementsPool` rests on the proof. Three pids with a limit of two also pass, but
  take TLC twelve minutes (709310 states), too long to keep as a run.
- *IpcServer*: with one slot and two clients a second connection finds the table full,
  waits in the backlog or is refused there. The safety properties are proved for every
  number of clients and slots, so the run carries the liveness.
- *StorageStats*: two creations race, a third entry leaves room for duplicates of a cut
  name, and the table becomes full. `MaxOps` bounds what is counted in one entry.
- *Instances*: two processes race and a third finds what they left. Its properties are
  proved for every number of processes and every layout of directories.
- *BackupEngine*: two seconds make two backups in the same second, or one after the
  other; two files make a copy or a removal that was done half. The properties are
  proved for every number of processes, files and seconds.
- *StorageCalls*: each property relates a call to one other, and a third call can come
  between them in every area but the two largest ones, devices and settings. Two volumes
  in one second share a mount point. `MaxTime` bounds the clock, `MaxCalls` the calls,
  `MaxMissed` the setters that fail: two are enough for one before and one after a setter
  that takes effect. The properties are proved for every value of the constants.
- *Monitor*: each service has one thread, and a third one would have to belong to a
  service that was started twice, which `ThreadsAccounted` excludes for every number of
  threads. Two rows are enough for one to be deleted, and one inserted, between the two
  passes of a listing. The periods (5, or what the caller asks for, and 60 seconds in
  the code) only need to be different and above one second.

Deadlock is not checked where the system may stop: the daemon after its shutdown, the
server after its cleanup, processes that have made their call. In `Instances`,
`BackupEngine`, `StorageStats` and `Monitor` it is checked.

## Fairness

`FairSpec` of `Workers`, `IpcServer` and `StorageDaemon` assumes weak fairness of the
main thread and of the IPC thread (both are schedulable threads that never wait for
ever: `select` has a timeout and `sleep` ends), of a handler that has started and of the
delivery of a pending SIGCHLD, of the end of a worker (`test_worker` sleeps three
seconds and exits) and of a client that has something to read. Nobody is obliged to send
a signal or a request. In `Workers` alone the IPC thread is assumed to return once it is
joined; `StorageDaemon` checks this from the server's code (`TermReleasesEverybody`).

`FairSpec` of `Monitor` assumes that time passes, that each thread is scheduled, and that
a call of the main thread which can go on does. Nothing obliges the main thread to make
a call, or a signal to come.

## What is proved

TLAPS checks the proof modules for every value of the constants that satisfies the
assumptions named in the modules: sizes and periods are natural numbers, positive where
the code needs it; the sets of process ids and of clients are finite; the null values
are not members; cutting a name twice is cutting it once. Each module but the last
proves `TypeCorrect` first. Below is what its inductive invariant adds, and why.

`IpcServer_proofs`: `NumClientsIsExact`, `ConnectionsHeldOnce`, `ServingNeverBlocks`,
`RequestsDroppedOnlyWhenFull`, `ServerImplementsService`.

- `LoopInv`: between `select` and the serving loop the reported descriptors are in the
  table and readable, `accept_ready` means that the backlog is not empty, and after the
  cleanup the thread has ended. Without the first part an accept before the loop could
  not be shown harmless.
- `IdleInv`: a client that has not connected has a fresh socket, which `HeldOnce` needs
  when it connects.

The argument is one lemma per action. The count rests on the cardinality of the set of
active slots (`SlotSetFacts`), the backlog on lemmas about `Append` and `Tail`.

For the refinement, `AskedInv` adds that a client which has not written has sent nothing
and that a stopped server stays stopped. An accept that finds no slot is the hard step:
the service may refuse only when more conversations are open than it can hold, and
`FullService` shows that the full table and the one accepted connection are that many.

`StorageStats_proofs`: `OpCountIsExact`, `PointersStayInTable`, `UpdatesNeverGoBack`,
`ShortNamesUnique`, `TotalsCoverListed`. `TableInv` says that the names in the table are
cut names, `CallerInv` that a caller that has created an entry and left the lock still
finds an entry with its name in the table. `CallerInv` is why the pointer computed
outside the lock is in the table: entries are never removed, so `device_count` is at
least one and has only grown.

`Workers_proofs`: `NoWorkerIsLost`, `ShutdownLeavesNoWorker`, `SpawnLimitHolds`,
`IdleMeansExited`, `WorkersImplementPool`.

- `LoopInv`: a handler about to record a process has collected it (so it clears no slot
  of a running one), and the main thread records into a free slot.
- `KillInv`: in the loop that sends SIGKILL, a worker that still runs has a slot at or
  after the loop's index. `NoWorkerIsLost` gives it at the start of the loop; a slot is
  passed only when its process was killed or is gone.
- `CountInv`: the workers whose slots the monitor has passed are among those it has
  counted. Workers that die make the count too large, never too small, so the limit
  holds although it is compared with a count that is out of date.

The refinement needs no further invariant. `CountInv` gives the limit when a worker is
started, `ShutdownLeavesNoWorker` that the daemon's return leaves nobody for the pool's
`Finish` to kill, and `KilledByItself` is a `Finish` that does.

`Monitor_proofs`: `NoStrayThread`, `RowsAreWritten`, `HistoryStaysInside`.

- `ServiceInv`: a service that is not active, and is not being stopped, has no running
  thread; this is what a start needs, and what the join before the close provides.
- `PlaceInv` and `FreshInv`: as long as the second of the last sample is not over, the
  main thread is in its pause, or the thread that took the sample has its sleep still to
  do. So whoever samples next finds the last sample in an earlier second.
- `HistoryInv`: between the passes the table has only grown if nothing was deleted.

`Instances_proofs`: `StartRecovers`, `OnlyLeftoversRefuse`, `StopCleansUp`. `SharedInv`
says that a process's number is only ever in the file that the fallback of
`daemon_create_pidfile` leads to and in none once it has removed its own; this is why a
number that refuses a start is that of a daemon that crashed. `AloneInv` says how far a process that is alone has come:
what it owns at each place of `main`.

`StorageCalls_proofs`: `BackupReadsItsSnapshot`, `ProfileIsApplied`, `EntriesStay`,
`NothingStays`.

- `TodoInv`: every step left in a script is a command with a target it can have, and
  the steps of `audit_log` that empty the log are left only after an open that failed.
  All the rest needs it, since a command's effect depends on its target.
- `DevInv`, for the types: a held device has the signature its user needs, failed
  members belong to the array, and a snapshot exists only in a group with a volume.
- `FileInv`, `SnapInv`: swap is on only with its file; what is mounted is a snapshot
  that exists.
- `TuneInv`: of a process that tunes alone, every setting of the profile is in force, is
  still to be written, or was missed by its setter, and what is still to be written spoils none of those in
  force. The order of `perf_apply_profile` is what makes this true: the scheduler, which
  resets `nr_requests`, comes first, and `nr_requests` after the queue depth that falls
  back to it.
- `CopyInv`: the steps of a snapshot backup are left in their order, and while it is to
  copy, its snapshot is mounted on top of its mount point or the point is crowded.
- `AttrInv`, `AuditInv`: the types of the attributes, and `AuditKept` with the type of the
  log.
- `ScriptInv`: what is left of a script is `Complete`. What a step makes, a later step
  releases; the steps whose failure ends the call come first, and the rollback of each
  undoes what the ones before it have made. So nothing depends on which step fails.
- `KeptInv`: every snapshot and file that exists is `Due`, released by the rest of some
  script whatever fails in it, or is in `left`: a crash, a release that failed, a failed
  command that had made it, or a `swapoff`, which keeps the file, left it there.
- `MountInv`: calls of the same second mount at the same point, and an unmount takes the
  topmost mount, whoever made it. So mounts cannot be given to calls one by one; instead
  there are never more mounts at a point than calls that will unmount there (`Fits`).

`BackupEngine_proofs`: `SuccessMeansComplete`, `VerifyTrustsSuccess`, `RestoreIsWhole`,
`LatestIsKept`.

- `RowInv` and `LocalInv`: the directory of every backup that is listed, or that a
  process works on, exists until a cleanup touches it; what a process has copied, and
  what makes it report success, is on disk. A second backup of the same second, or a
  crash in the middle, only adds files to the directory.
- `NewerInv`: whatever a cleanup still has to remove is older than some row of the table.
  It holds when the rows are read, because the newest one is kept, and it survives the
  deletions of other cleanups because the row they keep is newer still.

`StorageDaemon_proofs`: `DaemonImplementsWorkers`, `DaemonImplementsIpcServer`,
`ServerIsGoneFirst`, `NobodyIsLeft`. For the first two, each step of the daemon is a step
of the component or leaves it alone; no invariant is needed, since the guards of the joint actions carry what the components ask for. `ExitedIsFinal` makes
the return of `ipc_server_run` the one step `Workers` sees of the server, `PhaseKept` makes
`StopServer`, `Leave` and `KilledByItself` the only steps that move the main thread to
another phase. So what is proved of `Workers` and `IpcServer`, the refinement of
`WorkerPool` and `RequestService` included, holds of the daemon in which they run
together. This last step is an argument on paper: the prover does not take a theorem of
an instantiated module as a fact, so no theorem of the composition restates them.

The other two are about the order of the shutdown, which only the composition has.

- `ServerIsGoneFirst`: once the main thread is past `pthread_join`, the IPC thread has
  returned and no handler runs on it. `JoinInv` adds that a thread which has returned is
  not interrupted any more.
- `NobodyIsLeft`: when the daemon is gone, every client that has connected can see the
  end of its connection. `ConnInv` says that a connection nobody has closed is in the
  backlog or in the table, and that a daemon that is gone has neither.

TLC checked `JoinInv`, `ConnInv` and `NobodyLeftConnected` once with two clients and a
backlog of one (6141826 states), and the three invariants behind `NothingStays` on the
instance of `storage_calls`, before they were proved.

Only model-checked: the liveness properties (`ZombiesReaped`, `StaleSlotCleared`,
`TermEndsDaemon`, `RequestSettled`, `StopCompletes`, `TermReleasesEverybody`,
`KeepsSampling`, `StopReturns`). Liveness under fairness and ENABLED are out of the
prover's reach. So is induction over data. Every safety property that a passing run
checks is proved.

## Findings

Four runs end in a violation; each states a line of the repository and shows a behaviour
of the code that contradicts it.

- `GracefulShutdown`: `daemon_shutdown` tests and uses `workers[i].pid` in separate reads.
  A worker reaped in between makes it call `kill(0, SIGKILL)`.
- `ShutdownCommandEnds`: `CMD_SHUTDOWN` is answered "Shutting down daemon", but stops the
  request server only.
- `CountedForItsDevice`: an operation on a new device is counted for another device that
  was created at the same moment.
- `RefusedStartIsHarmless`: a second daemon takes the socket path before it looks for the
  first one, is refused, and removes the path.

## Defects that properties except

These behaviours are in the models as they are in the code. They contradict no single
line of the repository as plainly as the four above, so that the properties around them
name them as exceptions; a property that passes does not mean that they are harmless.

- A differential backup copies nothing: `cmd` still holds the `mkdir`, which is run again,
  and the empty backup is recorded as a success (`CopyDone`; `SuccessIsComplete`,
  `SoundNeverRejected` and `RestoredIsWhole` speak of the other types).
- `backup_verify` looks at the directory and at its size only, and takes a `du` that could
  not run, or a locked database, for a bad backup (`Measure`, `GetInfo`).
- A crash between `rm -rf` and `DELETE` leaves a row that says success without its files
  (`removed`); a listing torn between its passes makes `backup_cleanup_old` remove what
  unwritten memory names (`torn`, in `NewestSurvives`).
- Snapshots of two volumes that are mounted in the same second share their mount point:
  one backup copies the other volume, and each may unmount the other's (`crowded`, in
  `CopiesOwnSnapshot`).
- The mount point stays when the mount fails, the swap file when `dd` fails, and one of
  the two password files when the creation of the other one fails (`FailureLeaves`, in
  `NothingLeftBehind`).
- `perf_apply_profile` looks at the result of no setter and reports success; a value the
  kernel refuses is not even seen by the setter (`missed`, in `ProfileApplied`).
- `audit_log` empties the log when it cannot open it to append, and reports success for an
  entry that was not written (`cleared`, in `AuditKept`).
- `attr_unset` writes back what it read: flags that others set or removed in between are
  lost (`GetFlags`, `ClearFlags`; no property).
- The daemon starts its monitor thread before it forks: in the background the thread is
  gone while `monitoring_active` says it runs (`forked`, in `KeepsSampling`). A signal that
  ends a sleep brings two samples into one second, and the second one is saved unwritten
  (`cut`, in `RowsWritten`).
- A pid file that a crash has left refuses every start while any process, daemon or not,
  has its number (`foreign`, in `OnlyLeftoverBlocks`).

## Abstractions

- *Workers*: a process id is not used twice. The update of a slot by the handler is one
  step. A SIGCHLD during the main thread's own `daemon_reap_zombies` is the same as its
  next turn. SIGUSR1 only logs. `syslog()` inside a handler is a hazard, not modelled.
- *IpcServer*: requests are a status, a shutdown, any other command, or too few bytes.
  Descriptors inherited by forked workers are not tracked. `accept` does not run out of
  descriptors, as the table is smaller than their limit.
- *StorageStats*: bytes and latencies are left out; they are added under the same lock as
  the counts. `active` is always 1.
- *Instances*: the names of the shared memory object and of the semaphore follow the
  socket path. A process has its id from the start: `daemon_init` forks earlier than
  anything looks at the id, and what its parents do after the fork is to exit. The
  directories do not change while daemons run.
- *BackupEngine*: one source and one destination; the two clock reads of `backup_create`
  are one step; the hour that a change of clock repeats is left out; when `mkdir` fails
  `rsync` makes the directory; the files are not of size 0; a statement that meets a locked database does nothing. The entries
  that a torn listing leaves unwritten are a nondeterministic choice. An incremental
  backup holds what a full one holds.
- *StorageCalls*: the caller is root and the devices exist. Sizes, labels, file system
  types and ciphers are left out. There is one array, one volume group, one swap path,
  one benchmark path, one tuned device, one mount point per device, one file whose
  attributes change and one audit log. A volume has at most one LVM snapshot besides those
  of backups. A physical volume whose group has no active volume is not held by the
  kernel: force flags do overwrite it, in the model as in the system. A setter has no
  effect when its `fopen` fails or the kernel refuses the value, which it does not see as
  the write happens in `fclose`; a scheduler the kernel does not have is always refused,
  and a new one resets `nr_requests`. Whether the device has a `queue_depth` does not
  change. A command that did its work and is reported as failed
  (`execute_command` with a full buffer) is a hazard, not modelled.
- *Monitor*: one process is looked at closely, the others are what they do to the table.
  All samples are of one device. The main thread is the only one that starts and stops a
  service, as in every program of the repository, and stops only one it has started. The
  clock does not go back. The backup scheduler's thread only sleeps, as in the code.
  A signal reaches a thread's `sleep` only in the daemon, which alone installs handlers.

## Not modelled

- Shared memory, semaphore and message queue (`ipc_shm_*`, `ipc_sem_*`, `ipc_mq_*`).
  `ipc_server_init` creates the shared status and the semaphore, `ipc_server_cleanup`
  removes them; a failure of `ipc_shm_init` is one of `IpcBind` in `Instances`. Nothing
  calls the functions that read or write the status, wait for the semaphore or use the
  queue, so nobody can find them in a wrong state.
- `daemon_set_resource_limits`, logging, and the lock inside `syslog()` that a handler
  may find taken: the state is the kernel's or the C library's, and no code of the
  repository reads it.
- ACLs: each function is one `setfacl` or `getfacl` command and returns its result.
- Listings, status reports, getters, usage queries, the conversion of sizes and all
  printing: they read and format, and change no state that another operation uses.
- Shell scripts and installation: sequential, pure I/O.
- A command that did its work and is reported as failed because `execute_command`
  stopped reading its output: it needs more output than the caller's buffer holds.
