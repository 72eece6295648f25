------------------------------ MODULE Monitor ------------------------------
(***************************************************************************)
(* The two background threads of the library, monitor_thread_func of       *)
(* monitor.c and backup_scheduler_thread of backup_engine.c, in one        *)
(* process; the samples the first one takes, and the table                 *)
(* performance_history, which other processes read and write as well.      *)
(*                                                                         *)
(* The services are started and stopped by the main thread only, in        *)
(* test_monitor, storage_cli and storage_daemon alike, so their mutexes    *)
(* are never contended and a critical section is one step.  The threads    *)
(* read the flags without a mutex.                                         *)
(*                                                                         *)
(* Time is relative: a sleeping thread counts seconds down, and the second *)
(* of the last sample is told apart only from later ones.  A row of the    *)
(* table is what its numbers are: zeros, a rate, or memory nobody wrote.   *)
(* The rows are those of the sampled device, in the order of their         *)
(* timestamps, which is the order they are inserted in.                    *)
(***************************************************************************)
EXTENDS Naturals, Sequences, FiniteSets

CONSTANTS
  Threads,    \* what pthread_create can return
  NoThread,   \* the value 0 of monitor_thread and scheduler_thread
  Dangling,   \* the value a pthread_create that fails may leave there
  Period,     \* per service: the seconds its thread sleeps (5 and 60 in the code)
  MaxRows     \* bound on the rows of the table

Services == {"monitor", "scheduler"}

ASSUME ThreadAssumption == NoThread \notin Threads /\ Dangling \notin Threads \cup {NoThread}
ASSUME PeriodAssumption == Period \in [Services -> Nat \ {0}]
ASSUME RowsAssumption == MaxRows \in Nat

VARIABLES
  mpc,      \* where the main thread is
  msvc,     \* the service it works on
  open,     \* per service: its database connection is not NULL
  active,   \* per service: monitoring_active, scheduler_active
  handle,   \* per service: monitor_thread, scheduler_thread
  tpc,      \* per thread: where it is
  svc,      \* per thread: the service it runs
  timer,    \* per thread: seconds its sleep still lasts
  sample,   \* per thread: the local variable sample
  prev,     \* prev_stats and prev_time: "never", "now" (this second), "past"
  rows,     \* performance_history
  hist,     \* the result of monitor_get_history: entries allocated and written
  calm,     \* history: no row was deleted, nor the table locked, since the first pass
  cut,      \* history: a signal has cut a thread's sleep short
  forked    \* history: daemon_init has forked since the service was started

mainVars == <<mpc, msvc>>
svcVars == <<open, active, handle>>
threadVars == <<tpc, svc, timer>>
sampleVars == <<sample, prev>>
histVars == <<hist, calm>>
vars == <<mainVars, svcVars, threadVars, sampleVars, rows, histVars, cut, forked>>

MainPC == {"idle", "create", "join", "join_close", "close", "pause", "fill", "filled",
           "serving", "exited"}
Running == {"test", "stat", "save", "sleep"}
ThreadPC == {"unused", "ended", "lost"} \cup Running
Values == {"zero", "rate", "unwritten"}

Init ==
  /\ mpc = "idle"
  /\ msvc = "monitor"
  /\ open = [s \in Services |-> FALSE]
  /\ active = [s \in Services |-> FALSE]
  /\ handle = [s \in Services |-> NoThread]
  /\ tpc = [t \in Threads |-> "unused"]
  /\ svc = [t \in Threads |-> "monitor"]
  /\ timer = [t \in Threads |-> 0]
  /\ sample = [t \in Threads |-> "unwritten"]
  /\ prev = "never"
  /\ rows = << >>
  /\ hist = [count |-> 0, filled |-> 0]
  /\ calm = TRUE
  /\ cut = FALSE
  /\ forked = FALSE

\* A second passes.
Tick ==
  /\ timer' = [t \in Threads |-> IF timer[t] > 0 THEN timer[t] - 1 ELSE 0]
  /\ prev' = IF prev = "now" THEN "past" ELSE prev
  /\ UNCHANGED <<mainVars, svcVars, tpc, svc, sample, rows, histVars, cut, forked>>
-----------------------------------------------------------------------------
(* Life of a service.                                                      *)

\* monitor_init and backup_init. Every caller gives up when they fail: what they
\* leave in the pointer to the connection they have closed is not used.
Open(s) ==
  /\ mpc = "idle"
  /\ ~open[s]
  /\ \/ open' = [open EXCEPT ![s] = TRUE] /\ UNCHANGED mpc
     \/ mpc' = "exited" /\ UNCHANGED open
  /\ UNCHANGED <<msvc, active, handle, threadVars, sampleVars, rows, histVars, cut, forked>>

\* monitor_start_continuous and backup_start_scheduler up to pthread_create. A
\* service that is active is refused.
Start(s) ==
  /\ mpc = "idle"
  /\ open[s]
  /\ ~active[s]
  /\ active' = [active EXCEPT ![s] = TRUE]
  /\ mpc' = "create"
  /\ msvc' = s
  /\ UNCHANGED <<open, handle, threadVars, sampleVars, rows, histVars, cut, forked>>

\* pthread_create succeeds, or fails and may have written to the handle.
CreateThread ==
  /\ mpc = "create"
  /\ \/ \E t \in Threads :
          /\ tpc[t] = "unused"
          /\ tpc' = [tpc EXCEPT ![t] = "test"]
          /\ svc' = [svc EXCEPT ![t] = msvc]
          /\ handle' = [handle EXCEPT ![msvc] = t]
          /\ UNCHANGED active
     \/ /\ active' = [active EXCEPT ![msvc] = FALSE]
        /\ \E h \in {handle[msvc], Dangling} : handle' = [handle EXCEPT ![msvc] = h]
        /\ UNCHANGED <<tpc, svc>>
  /\ mpc' = "idle"
  /\ UNCHANGED <<msvc, open, timer, sampleVars, rows, histVars, cut, forked>>

\* Mutant: the flag is left set.
ClearFlag_Kept(s, next) ==
  /\ mpc = "idle"
  /\ active[s]
  /\ mpc' = next
  /\ msvc' = s
  /\ UNCHANGED <<svcVars, threadVars, sampleVars, rows, histVars, cut, forked>>

\* monitor_stop_continuous and backup_stop_scheduler up to the end of their
\* critical section. They are called for a service that has been started.
ClearFlag(s, next) ==
  /\ mpc = "idle"
  /\ active[s]
  /\ active' = [active EXCEPT ![s] = FALSE]
  /\ mpc' = next
  /\ msvc' = s
  /\ UNCHANGED <<open, handle, threadVars, sampleVars, rows, histVars, cut, forked>>

Stop(s) == ClearFlag(s, "join")

\* Mutant: the connection is closed first, and the thread stopped afterwards.
Cleanup_CloseFirst(s) ==
  /\ mpc = "idle"
  /\ open[s]
  /\ open' = [open EXCEPT ![s] = FALSE]
  /\ active' = [active EXCEPT ![s] = FALSE]
  /\ mpc' = IF active[s] THEN "join" ELSE "idle"
  /\ msvc' = s
  /\ UNCHANGED <<handle, threadVars, sampleVars, rows, histVars, cut, forked>>

\* monitor_cleanup and backup_cleanup: an active service is stopped first.
Cleanup(s) ==
  \/ ClearFlag(s, "join_close")
  \/ /\ mpc = "idle"
     /\ open[s] /\ ~active[s]
     /\ mpc' = "close"
     /\ msvc' = s
     /\ UNCHANGED <<svcVars, threadVars, sampleVars, rows, histVars, cut, forked>>

\* pthread_join, without the mutex, and the reset of the handle. With the handle 0
\* there is nothing to wait for.
Join ==
  /\ mpc \in {"join", "join_close"}
  /\ \/ \E t \in Threads :
          /\ handle[msvc] = t
          /\ tpc[t] = "ended"
          /\ tpc' = [tpc EXCEPT ![t] = "unused"]
     \/ handle[msvc] = NoThread /\ UNCHANGED tpc
  /\ handle' = [handle EXCEPT ![msvc] = NoThread]
  /\ mpc' = IF mpc = "join" THEN "idle" ELSE "close"
  /\ UNCHANGED <<msvc, open, active, svc, timer, sampleVars, rows, histVars, cut, forked>>

\* sqlite3_close and the reset of the pointer.
Close ==
  /\ mpc = "close"
  /\ open' = [open EXCEPT ![msvc] = FALSE]
  /\ mpc' = "idle"
  /\ UNCHANGED <<msvc, active, handle, threadVars, sampleVars, rows, histVars, cut, forked>>

\* storage_daemon: it starts the monitor alone, then daemon_init forks twice and only
\* the main thread is in the process that goes on; the threads do go on with -f, and
\* under init. It never stops the monitor.
Serve ==
  /\ mpc = "idle"
  /\ active["monitor"] /\ ~active["scheduler"]
  /\ mpc' = "serving"
  /\ forked' \in BOOLEAN
  /\ tpc' = [t \in Threads |-> IF forked' /\ tpc[t] # "unused" THEN "lost" ELSE tpc[t]]
  /\ UNCHANGED <<msvc, svcVars, svc, timer, sampleVars, rows, histVars, cut>>
-----------------------------------------------------------------------------
(* Samples.                                                                *)

\* What monitor_get_current_performance leaves in the sample: within the second of
\* the last one it writes nothing but the timestamp.
Measured ==
  CASE prev = "never" -> "zero"
    [] prev = "past"  -> "rate"
    [] prev = "now"   -> "unwritten"

\* The loop test of the thread functions, which read the flag without the mutex.
ThreadTest(t) ==
  /\ tpc[t] = "test"
  /\ LET s == svc[t]
     IN  /\ tpc' = [tpc EXCEPT ![t] = CASE ~active[s]      -> "ended"
                                        [] s = "monitor"   -> "stat"
                                        [] s = "scheduler" -> "sleep"]
         /\ timer' = [timer EXCEPT ![t] = IF active[s] /\ s = "scheduler" THEN Period[s]
                                                                          ELSE 0]
  /\ UNCHANGED <<mainVars, svcVars, svc, sampleVars, rows, histVars, cut, forked>>

\* The end of the loop's body: sleep().
GoToSleep(t) ==
  /\ tpc' = [tpc EXCEPT ![t] = "sleep"]
  /\ timer' = [timer EXCEPT ![t] = Period[svc[t]]]

\* Mutant: the thread returns when the device cannot be read.
TakeSample_GiveUp(t) ==
  /\ tpc[t] = "stat"
  /\ \/ /\ sample' = [sample EXCEPT ![t] = Measured]
        /\ prev' = "now"
        /\ tpc' = [tpc EXCEPT ![t] = "save"]
     \/ /\ tpc' = [tpc EXCEPT ![t] = "ended"]
        /\ UNCHANGED sampleVars
  /\ UNCHANGED <<mainVars, svcVars, svc, timer, rows, histVars, cut, forked>>

\* monitor_get_current_performance; the device may be missing from /proc/diskstats.
\* All callers sample the same device.
TakeSample(t) ==
  /\ tpc[t] = "stat"
  /\ \/ /\ sample' = [sample EXCEPT ![t] = Measured]
        /\ prev' = "now"
        /\ tpc' = [tpc EXCEPT ![t] = "save"]
        /\ UNCHANGED timer
     \/ GoToSleep(t) /\ UNCHANGED sampleVars
  /\ UNCHANGED <<mainVars, svcVars, svc, rows, histVars, cut, forked>>

\* The INSERT of monitor_track_performance, which a locked table makes fail.
InsertRow(value) ==
  \/ Len(rows) < MaxRows /\ rows' = Append(rows, value)
  \/ UNCHANGED rows

\* Mutant: a sample that could not be saved is taken again at once.
SaveSample_Retry(t) ==
  /\ tpc[t] = "save"
  /\ InsertRow(sample[t])
  /\ IF rows' = rows THEN tpc' = [tpc EXCEPT ![t] = "stat"] /\ UNCHANGED timer
                     ELSE GoToSleep(t)
  /\ sample' = [sample EXCEPT ![t] = "unwritten"]
  /\ UNCHANGED <<mainVars, svcVars, svc, prev, histVars, cut, forked>>

\* monitor_save_sample, whose result the thread ignores.
SaveSample(t) ==
  /\ tpc[t] = "save"
  /\ InsertRow(sample[t])
  /\ GoToSleep(t)
  /\ sample' = [sample EXCEPT ![t] = "unwritten"]
  /\ UNCHANGED <<mainVars, svcVars, svc, prev, histVars, cut, forked>>

\* The sleep ends: in time, or because a signal handler of the daemon ran on it.
WakeUp(t) ==
  /\ tpc[t] = "sleep"
  /\ timer[t] = 0
  /\ tpc' = [tpc EXCEPT ![t] = "test"]
  /\ UNCHANGED <<mainVars, svcVars, svc, timer, sampleVars, rows, histVars, cut, forked>>

Interrupted(t) ==
  /\ tpc[t] = "sleep"
  /\ timer[t] > 0
  /\ mpc = "serving"
  /\ tpc' = [tpc EXCEPT ![t] = "test"]
  /\ timer' = [timer EXCEPT ![t] = 0]
  /\ cut' = TRUE
  /\ UNCHANGED <<mainVars, svcVars, svc, sampleVars, rows, histVars, forked>>

\* The main thread takes and saves a sample itself while the monitor is off, and
\* sleeps for a second before it does anything else.
SampleOnce ==
  /\ mpc = "idle"
  /\ open["monitor"] /\ ~active["monitor"]
  /\ InsertRow(Measured)
  /\ prev' = "now"
  /\ mpc' = "pause"
  /\ UNCHANGED <<msvc, svcVars, threadVars, sample, histVars, cut, forked>>

Resume ==
  /\ mpc = "pause"
  /\ prev # "now"
  /\ mpc' = "idle"
  /\ UNCHANGED <<msvc, svcVars, threadVars, sampleVars, rows, histVars, cut, forked>>
-----------------------------------------------------------------------------
(* The table.                                                              *)

\* monitor_get_history, first pass: the rows are counted, and sqlite3_reset lets go of
\* the table. It returns here when there are none, or the table is locked, or malloc fails.
CountRows ==
  /\ mpc = "idle"
  /\ open["monitor"]
  /\ Len(rows) > 0
  /\ hist' = [count |-> Len(rows), filled |-> 0]
  /\ calm' = TRUE
  /\ mpc' = "fill"
  /\ UNCHANGED <<msvc, svcVars, threadVars, sampleVars, rows, cut, forked>>

\* Mutant: "i < *count" is missing.
FillEntries_Unbounded ==
  /\ mpc = "fill"
  /\ \/ hist' = [hist EXCEPT !.filled = Len(rows)] /\ UNCHANGED calm
     \/ calm' = FALSE /\ UNCHANGED hist
  /\ mpc' = "filled"
  /\ UNCHANGED <<msvc, svcVars, threadVars, sampleVars, rows, cut, forked>>

\* ... second pass: an entry is written for every row there is now, as long as
\* there are entries; none when the table is locked.
FillEntries ==
  /\ mpc = "fill"
  /\ \/ /\ hist' = [hist EXCEPT !.filled = IF Len(rows) < hist.count THEN Len(rows)
                                                                ELSE hist.count]
        /\ UNCHANGED calm
     \/ calm' = FALSE /\ UNCHANGED hist
  /\ mpc' = "filled"
  /\ UNCHANGED <<msvc, svcVars, threadVars, sampleVars, rows, cut, forked>>

\* The caller has used the entries and frees them.
FreeHistory ==
  /\ mpc = "filled"
  /\ hist' = [count |-> 0, filled |-> 0]
  /\ calm' = TRUE
  /\ mpc' = "idle"
  /\ UNCHANGED <<msvc, svcVars, threadVars, sampleVars, rows, cut, forked>>

\* monitor_cleanup_old_data, by this process or another: rows up to some timestamp go.
DeleteOldRows ==
  /\ \E n \in 1 .. Len(rows) : rows' = SubSeq(rows, n + 1, Len(rows))
  /\ calm' = FALSE
  /\ UNCHANGED <<mainVars, svcVars, threadVars, sampleVars, hist, cut, forked>>

\* Another process saves a sample of its own.
InsertElsewhere ==
  /\ InsertRow("rate")
  /\ UNCHANGED <<mainVars, svcVars, threadVars, sampleVars, histVars, cut, forked>>
-----------------------------------------------------------------------------
Returning == CreateThread \/ Join \/ Close \/ Resume \/ FillEntries \/ FreeHistory

Main ==
  \/ \E s \in Services : Open(s) \/ Start(s) \/ Stop(s) \/ Cleanup(s)
  \/ Serve \/ SampleOnce \/ CountRows
  \/ Returning

Thread(t) == ThreadTest(t) \/ TakeSample(t) \/ SaveSample(t) \/ WakeUp(t)

Next ==
  \/ Tick \/ Main
  \/ \E t \in Threads : Thread(t) \/ Interrupted(t)
  \/ DeleteOldRows \/ InsertElsewhere

\* Time passes, the threads are scheduled, and a call of the main thread goes on
\* whenever it can. That it calls anything is not promised.
Fairness ==
  /\ WF_vars(Tick)
  /\ \A t \in Threads : WF_vars(Thread(t))
  /\ WF_vars(Returning)

Spec == Init /\ [][Next]_vars
FairSpec == Spec /\ Fairness
-----------------------------------------------------------------------------
(* Properties.                                                             *)

\* Types of the statics of monitor.c and backup_engine.c and of the threads' locals; a
\* thread never sleeps for longer than the period of its service.
TypeOK ==
  /\ mpc \in MainPC
  /\ msvc \in Services
  /\ open \in [Services -> BOOLEAN]
  /\ active \in [Services -> BOOLEAN]
  /\ handle \in [Services -> Threads \cup {NoThread, Dangling}]
  /\ tpc \in [Threads -> ThreadPC]
  /\ svc \in [Threads -> Services]
  /\ timer \in [Threads -> Nat] /\ \A t \in Threads : timer[t] <= Period[svc[t]]
  /\ sample \in [Threads -> Values]
  /\ prev \in {"never", "now", "past"}
  /\ rows \in Seq(Values) /\ Len(rows) <= MaxRows
  /\ hist \in [count : Nat, filled : Nat]
  /\ calm \in BOOLEAN /\ cut \in BOOLEAN /\ forked \in BOOLEAN

\* Every thread that runs is accounted for: it is the one whose handle the service
\* holds, the service is active or the main thread is waiting for the thread in
\* pthread_join, and its database is open. So a service never has two threads, none is
\* left when stop or cleanup returns, and none uses a closed connection.
ThreadsAccounted ==
  \A t \in Threads : tpc[t] \in Running =>
    /\ handle[svc[t]] = t
    /\ active[svc[t]] \/ (mpc \in {"join", "join_close"} /\ msvc = svc[t])
    /\ open[svc[t]]

\* A row of performance_history never holds memory that nobody wrote, although a
\* sample of the second of the one before it is not filled in: restarts, samples of
\* the main thread and failed INSERTs never bring two samples into one second. Only a
\* signal that cuts the thread's sleep short does.
RowsWritten == (\E i \in 1 .. Len(rows) : rows[i] = "unwritten") => cut

\* monitor_get_history never writes past the entries it has allocated, whatever other
\* threads and processes insert between its two passes, and it fills all of them
\* unless rows were deleted, or the table was locked, in between.
HistoryFits ==
  mpc = "filled" => hist.filled <= hist.count /\ (calm => hist.filled = hist.count)

\* "Continuous background monitoring": as long as the service is active, its thread
\* goes on to take samples, whatever fails, unless daemon_init has forked without it.
KeepsSampling ==
  LET on == active["monitor"] /\ ~forked
  IN  on ~> (~on \/ \E t \in Threads : svc[t] = "monitor" /\ tpc[t] = "stat")

\* monitor_stop_continuous and backup_stop_scheduler return: the thread they join sees
\* the flag they have cleared, although it reads it without the mutex.
StopReturns == mpc \in {"join", "join_close"} ~> mpc = "idle"
=============================================================================
