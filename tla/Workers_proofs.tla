--------------------------- MODULE Workers_proofs ---------------------------
(***************************************************************************)
(* Proofs about Workers, for any number of process ids, slots and workers. *)
(***************************************************************************)
EXTENDS Workers, FiniteSetTheorems, TLAPS

\* Most leaves are arithmetic, sequences, records and functions and go to SMT; the ones
\* that are plain logic name Zenon.
USE SMTT(40)

\* Where the main thread is restricts the index, the count and the new process; a
\* handler that is about to record a process has collected it.
LoopInv ==
  /\ pc = "record" => worker_count < MAX_WORKERS /\ newpid \in Pids
  /\ pc \in {"mon_kill", "term_kill", "kill_probe", "kill_send"} => i < worker_count
  /\ \A t \in Threads : hpc[t] = "record" =>
       hwait[t].pid \in Pids /\ child[hwait[t].pid] = "gone"

Safe == TypeOK /\ LoopInv /\ RunningIsTracked

Labels == {"loop", "mon_test", "mon_kill", "decide", "spawn", "record", "sleep",
           "stop", "join", "term_test", "term_kill", "sleep2",
           "kill_test", "kill_probe", "kill_send", "reap", "rmpid", "done", "killed"}

-----------------------------------------------------------------------------
(* Types, and no worker is lost.                                           *)

LEMMA LabelFacts == MainPC = Labels
BY DEF MainPC, Labels, Stopped

LEMMA SlotFacts == /\ MAX_WORKERS \in Nat \ {0}
                   /\ \A s \in Slots : s \in Nat /\ s < MAX_WORKERS
                   /\ \A n \in Nat : n < MAX_WORKERS => n \in Slots
BY SizeAssumption DEF Slots

LEMMA InitSafe == Init => Safe
<1> SUFFICES ASSUME Init PROVE Safe
  OBVIOUS
<1>1. TypeOK
  <2>1. daemon_running \in BOOLEAN /\ reload_config \in BOOLEAN /\ sigchld \in BOOLEAN
        /\ ipc_exited \in BOOLEAN
    BY ZenonT(40) DEF Init
  <2>2. loop_count \in 0 .. SpawnPeriod - 1 /\ worker_count \in 0 .. MAX_WORKERS
    BY SizeAssumption DEF Init
  <2> QED BY <2>1, <2>2, LabelFacts
          DEF Init, TypeOK, Labels, ChildState, Status, NoWait, Zombie
<1>2. LoopInv
  BY DEF Init, LoopInv
<1>3. RunningIsTracked
  BY DEF Init, RunningIsTracked, Live
<1> QED BY <1>1, <1>2, <1>3 DEF Safe

\* The signal handlers of the daemon, and the main thread's steps that touch neither
\* the table nor the processes.
LEMMA QuietSafe ==
  ASSUME Safe,
         \/ SigTerm \/ SigHup \/ LoopTest \/ MonTest \/ Decide \/ SpawnRefused
         \/ SpawnFails \/ SleepLoop \/ StopIpc \/ JoinIpc \/ TermTest \/ TermKill
         \/ SleepBeforeKill \/ KillTest \/ KillProbe \/ RemovePidfile \/ IpcThreadExits
         \/ UNCHANGED vars
  PROVE  Safe'
<1> USE DEF Safe
<1>1. UNCHANGED <<workers, worker_count, child, hpc, hwait>>
  BY DEF SigTerm, SigHup, LoopTest, MonTest, Decide, SpawnRefused, SpawnFails, SleepLoop,
         StopIpc, JoinIpc, TermTest, TermKill, SleepBeforeKill, KillTest, KillProbe,
         RemovePidfile, IpcThreadExits, vars, tableVars, reapVars
<1>2. /\ daemon_running' \in BOOLEAN
      /\ reload_config' \in BOOLEAN
      /\ sigchld' \in BOOLEAN
      /\ ipc_exited' \in BOOLEAN
  BY ZenonT(40)
     DEF SigTerm, SigHup, LoopTest, MonTest, Decide, SpawnRefused, SpawnFails, SleepLoop,
         StopIpc, JoinIpc, TermTest, TermKill, SleepBeforeKill, KillTest, KillProbe,
         RemovePidfile, IpcThreadExits, vars, flagVars, TypeOK
<1>3. /\ i' \in Nat
      /\ active' \in Nat
      /\ newpid' = newpid
      /\ loop_count' \in 0 .. SpawnPeriod - 1
  BY SizeAssumption
     DEF SigTerm, SigHup, LoopTest, MonTest, Decide, SpawnRefused, SpawnFails, SleepLoop,
         StopIpc, JoinIpc, TermTest, TermKill, SleepBeforeKill, KillTest, KillProbe,
         RemovePidfile, IpcThreadExits, vars, mainVars, TypeOK
<1>4. /\ pc' \in Labels
      /\ pc' = "record" => pc = "record"
      /\ pc = "record" => pc' = "record"
      /\ pc' \in {"mon_kill", "term_kill", "kill_probe", "kill_send"} => i' < worker_count
  BY LabelFacts
     DEF SigTerm, SigHup, LoopTest, MonTest, Decide, SpawnRefused, SpawnFails, SleepLoop,
         StopIpc, JoinIpc, TermTest, TermKill, SleepBeforeKill, KillTest, KillProbe,
         RemovePidfile, IpcThreadExits, vars, mainVars, MainAt, TypeOK, LoopInv, Labels
<1>5. TypeOK'
  BY <1>1, <1>2, <1>3, <1>4, LabelFacts DEF TypeOK, MainPC
<1>6. LoopInv'
  BY <1>1, <1>3, <1>4 DEF LoopInv
<1>7. RunningIsTracked'
  BY <1>1, <1>3, <1>4 DEF RunningIsTracked, SlotsOf
<1> QED BY <1>5, <1>6, <1>7

LEMMA MonKillSafe == ASSUME Safe, MonKill PROVE Safe'
<1> USE DEF Safe
<1>1. workers' \in [Slots -> [pid : Pids \cup {NoPid}, status : Status]]
  BY SlotFacts DEF MonKill, TypeOK, Status
<1>2. TypeOK'
  BY <1>1, LabelFacts
     DEF MonKill, MainAt, TypeOK, Labels, MainPC, flagVars, reapVars
<1>3. LoopInv'
  BY DEF MonKill, MainAt, LoopInv, reapVars
<1>4. RunningIsTracked'
  <2> SUFFICES ASSUME NEW p \in Pids, child[p] \in Live
               PROVE  \E s \in Slots : s < worker_count /\ workers'[s].pid = p
    BY DEF MonKill, MainAt, RunningIsTracked, SlotsOf
  <2>1. PICK s \in Slots : s < worker_count /\ workers[s].pid = p
    BY DEF MonKill, MainAt, RunningIsTracked, SlotsOf
  <2>2. workers'[s].pid = p
    BY <2>1 DEF MonKill, Exists, TypeOK
  <2> QED BY <2>1, <2>2
<1> QED BY <1>2, <1>3, <1>4

LEMMA ForkSafe == ASSUME Safe, Fork PROVE Safe'
<1> USE DEF Safe
<1>1. PICK p \in Pids : /\ child[p] = "unborn"
                       /\ child' = [child EXCEPT ![p] = "running"]
                       /\ newpid' = p
  BY ZenonT(40) DEF Fork
<1>2. TypeOK'
  BY <1>1, LabelFacts
     DEF Fork, MainAt, TypeOK, Labels, MainPC, ChildState, Live, tableVars, flagVars, reapVars
<1>3. LoopInv'
  BY <1>1 DEF Fork, MainAt, TypeOK, LoopInv, tableVars, reapVars
<1>4. RunningIsTracked'
  BY <1>1 DEF Fork, MainAt, TypeOK, RunningIsTracked, SlotsOf, tableVars
<1> QED BY <1>2, <1>3, <1>4

LEMMA RecordWorkerSafe == ASSUME Safe, RecordWorker PROVE Safe'
<1> USE DEF Safe
<1>1. /\ worker_count \in Slots
      /\ newpid \in Pids
      /\ worker_count' = worker_count + 1
      /\ workers' = [workers EXCEPT ![worker_count] = [pid |-> newpid, status |-> "BUSY"]]
  BY SlotFacts DEF RecordWorker, MainAt, TypeOK, LoopInv
<1>2. TypeOK'
  BY <1>1, SlotFacts, LabelFacts
     DEF RecordWorker, TypeOK, Labels, MainPC, Status, flagVars, reapVars
<1>3. LoopInv'
  BY DEF RecordWorker, MainAt, LoopInv, reapVars
<1>4. RunningIsTracked'
  <2> SUFFICES ASSUME NEW p \in Pids, child[p] \in Live
               PROVE  \E s \in Slots : s < worker_count + 1 /\ workers'[s].pid = p
    BY <1>1 DEF RecordWorker, RunningIsTracked, SlotsOf
  <2>1. CASE newpid = p
    BY <1>1, <2>1, SlotFacts DEF TypeOK
  <2>2. CASE newpid # p
    <3>1. PICK s \in Slots : s < worker_count /\ workers[s].pid = p
      BY <2>2 DEF RunningIsTracked, SlotsOf
    <3>2. s \in Nat /\ worker_count \in Nat /\ s # worker_count
      BY <1>1, <3>1, SlotFacts
    <3> QED BY <1>1, <3>1, <3>2 DEF TypeOK
  <2> QED BY <2>1, <2>2
<1> QED BY <1>2, <1>3, <1>4

LEMMA KillSendSafe == ASSUME Safe, KillSend PROVE Safe'
<1> USE DEF Safe
<1>1. /\ child' \in [Pids -> ChildState]
      /\ \A p \in Pids : child'[p] \in Live => child[p] \in Live
      /\ \A p \in Pids : child[p] = "gone" => child'[p] = "gone"
  BY DEF KillSend, TypeOK, ChildState, Live
<1>2. pc' \in Labels /\ pc' \notin {"record", "mon_kill", "term_kill", "kill_probe", "kill_send"}
  BY DEF KillSend, Labels
<1>3. TypeOK'
  BY <1>1, <1>2, LabelFacts
     DEF KillSend, TypeOK, MainPC, tableVars, flagVars, reapVars
<1>4. LoopInv'
  BY <1>1, <1>2 DEF KillSend, LoopInv, reapVars
<1>5. RunningIsTracked'
  BY <1>1 DEF KillSend, MainAt, RunningIsTracked, SlotsOf, tableVars
<1> QED BY <1>3, <1>4, <1>5

LEMMA ReapCallSafe == ASSUME Safe, ReapCall PROVE Safe'
<1> USE DEF Safe
<1>1. TypeOK'
  BY LabelFacts DEF ReapCall, TypeOK, Labels, MainPC, Threads, tableVars, flagVars
<1>2. LoopInv'
  BY DEF ReapCall, TypeOK, LoopInv, tableVars
<1>3. RunningIsTracked'
  BY DEF ReapCall, MainAt, RunningIsTracked, SlotsOf, tableVars
<1> QED BY <1>1, <1>2, <1>3

LEMMA ChildDiesSafe == ASSUME Safe, NEW p \in Pids, ChildDies(p) PROVE Safe'
<1> USE DEF Safe
<1>1. /\ child' \in [Pids -> ChildState]
      /\ \A q \in Pids : child'[q] \in Live => child[q] \in Live
      /\ \A q \in Pids : child[q] = "gone" => child'[q] = "gone"
  BY DEF ChildDies, TypeOK, ChildState, Live, Zombie
<1>2. sigchld' \in BOOLEAN
  BY ZenonT(40) DEF ChildDies
<1>3. TypeOK'
  BY <1>1, <1>2 DEF ChildDies, TypeOK, MainPC, mainVars, tableVars, flagVars, reapVars
<1>4. LoopInv'
  BY <1>1 DEF ChildDies, LoopInv, mainVars, tableVars, reapVars
<1>5. RunningIsTracked'
  BY <1>1 DEF ChildDies, RunningIsTracked, SlotsOf, mainVars, tableVars
<1> QED BY <1>3, <1>4, <1>5

\* The handlers, on whatever thread they run.
LEMMA SigChldSafe == ASSUME Safe, NEW t \in Threads, SigChld(t) PROVE Safe'
<1> USE DEF Safe
<1>1. TypeOK'
  BY ZenonT(40) DEF SigChld, TypeOK, MainPC, mainVars, tableVars, flagVars
<1>2. LoopInv'
  BY DEF SigChld, TypeOK, LoopInv, mainVars, tableVars
<1>3. RunningIsTracked'
  BY DEF SigChld, RunningIsTracked, SlotsOf, mainVars, tableVars
<1> QED BY <1>1, <1>2, <1>3

LEMMA ReapWaitSafe == ASSUME Safe, NEW t \in Threads, ReapWait(t) PROVE Safe'
<1> USE DEF Safe
<1>1. CASE \E p \in Pids : /\ child[p] \in Zombie
                           /\ child' = [child EXCEPT ![p] = "gone"]
                           /\ hwait' = [hwait EXCEPT ![t] = [pid |-> p, how |-> child[p]]]
                           /\ hpc' = [hpc EXCEPT ![t] = "record"]
  <2>1. PICK p \in Pids : /\ child[p] \in Zombie
                          /\ child' = [child EXCEPT ![p] = "gone"]
                          /\ hwait' = [hwait EXCEPT ![t] = [pid |-> p, how |-> child[p]]]
                          /\ hpc' = [hpc EXCEPT ![t] = "record"]
    BY <1>1, ZenonT(40)
  <2>2. TypeOK'
    BY <2>1 DEF ReapWait, TypeOK, MainPC, ChildState, mainVars, tableVars, flagVars
  <2>3. LoopInv'
    BY <2>1 DEF ReapWait, TypeOK, LoopInv, mainVars, tableVars
  <2>4. RunningIsTracked'
    BY <2>1 DEF ReapWait, TypeOK, RunningIsTracked, SlotsOf, Live, mainVars, tableVars
  <2> QED BY <2>2, <2>3, <2>4
<1>2. CASE hpc' = [hpc EXCEPT ![t] = "idle"] /\ UNCHANGED <<child, hwait>>
  <2>1. TypeOK'
    BY <1>2 DEF ReapWait, TypeOK, MainPC, mainVars, tableVars, flagVars
  <2>2. LoopInv'
    BY <1>2 DEF ReapWait, TypeOK, LoopInv, mainVars, tableVars
  <2>3. RunningIsTracked'
    BY <1>2 DEF ReapWait, RunningIsTracked, SlotsOf, mainVars, tableVars
  <2> QED BY <2>1, <2>2, <2>3
<1> QED BY <1>1, <1>2 DEF ReapWait

\* What ReapRecord does to the table: at most one slot of the collected process, which
\* is gone, is cleared.
LEMMA ReapRecordTable ==
  ASSUME Safe, NEW t \in Threads, ReapRecord(t)
  PROVE  /\ workers' \in [Slots -> [pid : Pids \cup {NoPid}, status : Status]]
         /\ hwait[t].pid \in Pids /\ child[hwait[t].pid] = "gone"
         /\ \A s \in Slots : workers[s].pid # hwait[t].pid => workers'[s] = workers[s]
         /\ \A s \in Slots : workers'[s] # workers[s] =>
              /\ workers[s].pid = hwait[t].pid
              /\ workers'[s] = [pid |-> NoPid, status |-> ReapStatus(hwait[t].how)]
<1> USE DEF Safe
<1>1. hwait[t].pid \in Pids /\ child[hwait[t].pid] = "gone"
  BY DEF ReapRecord, LoopInv
<1>2. ReapStatus(hwait[t].how) \in Status
  BY DEF ReapStatus, Status
<1>3. CASE \E s \in SlotsOf(hwait[t].pid) :
             workers' = [workers EXCEPT ![s] =
                           [pid |-> NoPid, status |-> ReapStatus(hwait[t].how)]]
  BY <1>1, <1>2, <1>3 DEF TypeOK, SlotsOf
<1>4. CASE workers' = workers
  BY <1>1, <1>4 DEF TypeOK
<1> QED BY <1>3, <1>4 DEF ReapRecord

LEMMA ReapRecordSafe == ASSUME Safe, NEW t \in Threads, ReapRecord(t) PROVE Safe'
<1> USE DEF Safe
<1>1. TypeOK'
  <2>1. hwait' \in [Threads -> [pid : Pids \cup {NoPid}, how : Zombie]]
    BY DEF ReapRecord, TypeOK, NoWait, Zombie
  <2> QED BY <2>1, ReapRecordTable, ZenonT(40)
          DEF ReapRecord, TypeOK, MainPC, mainVars, flagVars
<1>2. LoopInv'
  BY DEF ReapRecord, TypeOK, LoopInv, mainVars
<1>3. RunningIsTracked'
  <2> SUFFICES ASSUME NEW p \in Pids, child[p] \in Live, ~(pc = "record" /\ newpid = p)
               PROVE  \E s \in Slots : s < worker_count /\ workers'[s].pid = p
    BY DEF ReapRecord, RunningIsTracked, SlotsOf, mainVars
  <2>1. PICK s \in Slots : s < worker_count /\ workers[s].pid = p
    BY DEF RunningIsTracked, SlotsOf
  <2>2. p # hwait[t].pid
    BY ReapRecordTable, ZenonT(40) DEF Live
  <2> QED BY <2>1, <2>2, ReapRecordTable, ZenonT(40)
<1> QED BY <1>1, <1>2, <1>3

LEMMA NextSafe == Safe /\ [Next]_vars => Safe'
<1> SUFFICES ASSUME Safe, [Next]_vars PROVE Safe'
  OBVIOUS
<1>1. CASE \E t \in Threads : Reap(t)
  BY <1>1, SigChldSafe, ReapWaitSafe, ReapRecordSafe DEF Reap
<1>2. CASE MainStep
  BY <1>2, QuietSafe, MonKillSafe, ForkSafe, RecordWorkerSafe, KillSendSafe, ReapCallSafe
     DEF MainStep
<1>3. CASE \E p \in Pids : ChildDies(p)
  BY <1>3, ChildDiesSafe
<1>4. CASE SigTerm \/ SigHup \/ IpcThreadExits \/ UNCHANGED vars
  BY <1>4, QuietSafe
<1> QED BY <1>1, <1>2, <1>3, <1>4 DEF Next

LEMMA SafeInvariant == Spec => []Safe
BY InitSafe, NextSafe, PTL DEF Spec

\* The state of daemon.c and of the main loop keeps its types, whatever the handlers on
\* the other threads do between two reads of the table.
THEOREM TypeCorrect == Spec => []TypeOK
<1>1. Safe => TypeOK
  BY DEF Safe
<1> QED BY <1>1, SafeInvariant, PTL

\* For any number of workers: daemon_spawn_worker, daemon_monitor_workers and
\* daemon_reap_zombies never lose the pid of a worker that still runs.
THEOREM NoWorkerIsLost == Spec => []RunningIsTracked
<1>1. Safe => RunningIsTracked
  BY DEF Safe
<1> QED BY <1>1, SafeInvariant, PTL

-----------------------------------------------------------------------------
(* The shutdown leaves no worker running.                                  *)

\* The second loop of daemon_shutdown has still to visit a slot of every process that
\* runs; after it nothing runs.
KillInv ==
  /\ pc \in {"kill_test", "kill_probe", "kill_send"} =>
       \A p \in Pids : child[p] = "running" =>
         \E s \in Slots : i <= s /\ s < worker_count /\ workers[s].pid = p
  /\ pc \in {"reap", "rmpid", "done", "killed"} => \A p \in Pids : child[p] # "running"

LEMMA InitKill == Init => KillInv
BY DEF Init, KillInv

\* Outside the second loop: the main thread is not in it before or after the step, or
\* has just entered it.
LEMMA OtherKill ==
  ASSUME Safe, KillInv,
         \/ LoopTest \/ MonTest \/ MonKill \/ Decide \/ SpawnRefused \/ SpawnFails \/ Fork
         \/ RecordWorker \/ SleepLoop \/ StopIpc \/ JoinIpc \/ TermTest \/ TermKill
         \/ ReapCall \/ RemovePidfile
  PROVE  KillInv'
<1>1. /\ pc' \notin {"kill_test", "kill_probe", "kill_send"}
      /\ pc' \in {"reap", "rmpid", "done", "killed"} =>
           pc \in {"reap", "rmpid"} /\ child' = child
  BY DEF LoopTest, MonTest, MonKill, Decide, SpawnRefused, SpawnFails, Fork, RecordWorker,
         SleepLoop, StopIpc, JoinIpc, TermTest, TermKill, ReapCall, RemovePidfile, MainAt
<1> QED BY <1>1 DEF KillInv

LEMMA EnterKill == ASSUME Safe, SleepBeforeKill PROVE KillInv'
<1> SUFFICES ASSUME NEW p \in Pids, child[p] = "running"
             PROVE  \E s \in Slots : 0 <= s /\ s < worker_count /\ workers[s].pid = p
  BY DEF SleepBeforeKill, KillInv, tableVars
<1>1. SlotsOf(p) # {}
  BY DEF SleepBeforeKill, MainAt, Safe, RunningIsTracked, Live
<1> QED BY <1>1, SlotFacts DEF SlotsOf

\* The slot the loop leaves behind holds no process that runs.
LEMMA LoopKill ==
  ASSUME Safe, KillInv, KillTest \/ KillProbe \/ KillSend
  PROVE  KillInv'
<1> USE DEF Safe
<1>1. /\ UNCHANGED <<workers, worker_count>>
      /\ \A p \in Pids : child'[p] = "running" => child[p] = "running"
      /\ pc \in {"kill_test", "kill_probe", "kill_send"}
  BY DEF KillTest, KillProbe, KillSend, MainAt, TypeOK, ChildState, Live, tableVars
<1>2. CASE i' = i /\ pc' \in {"kill_probe", "kill_send"}
  BY <1>1, <1>2 DEF KillInv
<1>3. CASE /\ i' = i + 1
           /\ pc' = "kill_test"
           /\ \A p \in Pids : child'[p] = "running" => workers[i].pid # p
  <2> SUFFICES ASSUME NEW p \in Pids, child'[p] = "running"
               PROVE  \E s \in Slots : i + 1 <= s /\ s < worker_count /\ workers[s].pid = p
    BY <1>1, <1>3 DEF KillInv
  <2>1. PICK s \in Slots : i <= s /\ s < worker_count /\ workers[s].pid = p
    BY <1>1 DEF KillInv
  <2> QED BY <1>3, <2>1, SlotFacts DEF TypeOK
<1>4. CASE pc' = "reap" /\ i >= worker_count /\ child' = child
  BY <1>1, <1>4, SlotFacts DEF KillInv, TypeOK
<1>5. CASE pc' = "killed" /\ \A p \in Pids : child'[p] # "running"
  BY <1>5 DEF KillInv
<1>6. CASE KillTest
  BY <1>2, <1>3, <1>4, <1>6, PidAssumption DEF KillTest, MainAt
<1>7. CASE KillProbe
  BY <1>2, <1>3, <1>7 DEF KillProbe, MainAt, Exists, Live
<1>8. CASE KillSend
  BY <1>3, <1>5, <1>8 DEF KillSend, TypeOK
<1> QED BY <1>6, <1>7, <1>8

\* A process that dies, and a handler that clears the slot of one that is gone, leave
\* what the loop has to do.
LEMMA OutsideKill ==
  ASSUME Safe, KillInv,
         \/ SigTerm \/ SigHup \/ IpcThreadExits \/ UNCHANGED vars
         \/ \E t \in Threads : Reap(t)
         \/ \E p \in Pids : ChildDies(p)
  PROVE  KillInv'
<1> USE DEF Safe
<1>1. UNCHANGED <<pc, i, worker_count>>
  BY DEF SigTerm, SigHup, IpcThreadExits, vars, Reap, SigChld, ReapWait, ReapRecord,
         ChildDies, mainVars, tableVars
<1>2. \A p \in Pids : child'[p] = "running" => child[p] = "running"
  BY DEF SigTerm, SigHup, IpcThreadExits, vars, Reap, SigChld, ReapWait, ReapRecord,
         ChildDies, TypeOK, Zombie
<1>3. \A p \in Pids, s \in Slots :
        child[p] = "running" /\ workers[s].pid = p => workers'[s].pid = p
  <2>1. CASE \E t \in Threads : ReapRecord(t)
    BY <2>1, ReapRecordTable, ZenonT(40)
  <2>2. CASE UNCHANGED workers
    BY <2>2
  <2> QED BY <2>1, <2>2
          DEF SigTerm, SigHup, IpcThreadExits, vars, Reap, SigChld, ReapWait, ChildDies,
              tableVars
<1> QED BY <1>1, <1>2, <1>3 DEF KillInv

LEMMA NextKill == Safe /\ KillInv /\ [Next]_vars => KillInv'
BY OtherKill, EnterKill, LoopKill, OutsideKill DEF Next, MainStep

\* When main has returned, daemon_shutdown has killed or outlived every worker, however
\* the deaths and the handlers fall between its loops.
THEOREM ShutdownLeavesNoWorker == Spec => []NoWorkerSurvives
<1>1. KillInv => NoWorkerSurvives
  BY DEF KillInv, NoWorkerSurvives
<1> QED BY <1>1, SafeInvariant, InitKill, NextKill, PTL DEF Spec

-----------------------------------------------------------------------------
(* The limit on the number of workers.                                     *)

LiveSet == {p \in Pids : child[p] \in Live}

\* The live processes that a slot below k holds.
LiveBelow(k) ==
  {p \in LiveSet : \E s \in Slots : s < k /\ s < worker_count /\ workers[s].pid = p}

\* The count of daemon_monitor_workers is never below the number of live processes in
\* the slots it has passed, and the decision to spawn is taken on such a count.
CountInv ==
  /\ WorkersBounded
  /\ pc \in {"mon_test", "mon_kill"} => Cardinality(LiveBelow(i)) <= active
  /\ pc = "decide" => Cardinality(LiveSet) <= active
  /\ pc = "spawn" => Cardinality(LiveSet) < SpawnBelow

LEMMA Smaller ==
  ASSUME NEW S \in SUBSET Pids, NEW T \in SUBSET S
  PROVE  /\ IsFiniteSet(S) /\ IsFiniteSet(T)
         /\ Cardinality(S) \in Nat /\ Cardinality(T) \in Nat
         /\ Cardinality(T) <= Cardinality(S)
BY PidAssumption, FS_Subset, FS_CardinalityType

LEMMA OneMore ==
  ASSUME NEW S \in SUBSET Pids, NEW T \in SUBSET Pids, NEW p, T \subseteq S \cup {p}
  PROVE  Cardinality(T) \in Nat /\ Cardinality(T) <= Cardinality(S) + 1
<1>1. IsFiniteSet(S) /\ Cardinality(S) \in Nat
  BY Smaller
<1>2. /\ IsFiniteSet(S \cup {p})
      /\ Cardinality(S \cup {p}) \in Nat
      /\ Cardinality(S \cup {p}) <= Cardinality(S) + 1
  BY <1>1, FS_AddElement, FS_CardinalityType
<1>3. Cardinality(T) <= Cardinality(S \cup {p})
  BY <1>2, FS_Subset
<1> QED BY <1>1, <1>2, <1>3, Smaller

LEMMA InitCount == Init => CountInv
<1> SUFFICES ASSUME Init PROVE WorkersBounded
  BY ZenonT(40) DEF Init, CountInv
<1>1. {p \in Pids : child[p] \in Live} = {}
  BY DEF Init, Live
<1> QED BY <1>1, FS_EmptySet, SizeAssumption DEF WorkersBounded

\* The live set and its part below the index do not grow: the counts stay good.
LEMMA ShrinkCount ==
  ASSUME Safe, CountInv, LiveSet' \subseteq LiveSet,
         pc' \in {"mon_test", "mon_kill"} =>
           pc \in {"mon_test", "mon_kill"} /\ LiveBelow(i)' \subseteq LiveBelow(i) /\ active' = active,
         pc' = "decide" => pc = "decide" /\ active' = active,
         pc' = "spawn" => pc = "spawn"
  PROVE  CountInv'
<1>1. LiveSet \subseteq Pids /\ LiveBelow(i) \subseteq Pids
  BY DEF LiveSet, LiveBelow
<1>2. /\ Cardinality(LiveSet) \in Nat /\ Cardinality(LiveSet') \in Nat
      /\ Cardinality(LiveSet') <= Cardinality(LiveSet)
  BY <1>1, Smaller
<1>3. pc' \in {"mon_test", "mon_kill"} =>
        /\ Cardinality(LiveBelow(i)) \in Nat /\ Cardinality(LiveBelow(i)') \in Nat
        /\ Cardinality(LiveBelow(i)') <= Cardinality(LiveBelow(i))
  BY <1>1, Smaller
<1>4. WorkersBounded'
  BY <1>2, SizeAssumption DEF CountInv, WorkersBounded, LiveSet
<1> QED BY <1>2, <1>3, <1>4, SizeAssumption DEF CountInv, Safe, TypeOK

LEMMA MonTestCount == ASSUME Safe, CountInv, MonTest PROVE CountInv'
<1> USE DEF Safe
<1>1. UNCHANGED <<active, workers, worker_count, child>> /\ pc = "mon_test"
  BY DEF MonTest, MainAt, tableVars
<1>2. LiveSet' = LiveSet
  BY <1>1 DEF LiveSet
<1>3. CASE pc' = "mon_kill" /\ i' = i
  BY <1>1, <1>2, <1>3, ShrinkCount DEF LiveBelow
<1>4. CASE pc' = "mon_test" /\ i' = i + 1 /\ workers[i].pid = NoPid
  <2>1. LiveBelow(i)' \subseteq LiveBelow(i)
    <3> SUFFICES ASSUME NEW p \in LiveSet, NEW s \in Slots,
                        s < i + 1, s < worker_count, workers[s].pid = p
                 PROVE  s < i
      BY <1>1, <1>2, <1>4 DEF LiveBelow
    <3>1. s # i
      BY <1>4, PidAssumption DEF LiveSet
    <3>2. s \in Nat /\ i \in Nat
      BY SlotFacts DEF TypeOK
    <3> QED BY <3>1, <3>2
  <2> QED BY <1>1, <1>2, <1>4, <2>1, ShrinkCount
<1>5. CASE pc' = "decide" /\ i >= worker_count
  <2>1. LiveBelow(i) = LiveSet
    <3>1. \A p \in LiveSet : SlotsOf(p) # {}
      BY <1>1 DEF RunningIsTracked, LiveSet
    <3> QED BY <1>5, <3>1, SlotFacts DEF LiveBelow, SlotsOf, TypeOK
  <2> QED BY <1>1, <1>2, <1>5, <2>1 DEF CountInv, WorkersBounded, LiveSet
<1> QED BY <1>3, <1>4, <1>5 DEF MonTest, MainAt

LEMMA MonKillCount == ASSUME Safe, CountInv, MonKill PROVE CountInv'
<1> USE DEF Safe
<1>1. /\ UNCHANGED <<worker_count, child>>
      /\ pc = "mon_kill" /\ pc' = "mon_test"
      /\ i' = i + 1
      /\ i \in Slots
  BY SlotFacts DEF MonKill, MainAt, LoopInv, TypeOK
<1>2. LiveSet' = LiveSet /\ LiveSet \subseteq Pids
  BY <1>1 DEF LiveSet
<1>3. CASE Exists(workers[i].pid)
  <2>1. active' = active + 1 /\ workers' = workers
    BY <1>3 DEF MonKill
  <2>2. LiveBelow(i)' \subseteq LiveBelow(i) \cup {workers[i].pid}
    BY <1>1, <1>2, <2>1, SlotFacts DEF LiveBelow, TypeOK
  <2>3. Cardinality(LiveBelow(i)') \in Nat /\ Cardinality(LiveBelow(i)') <= Cardinality(LiveBelow(i)) + 1
    <3>1. LiveBelow(i) \in SUBSET Pids /\ LiveBelow(i)' \in SUBSET Pids
      BY <1>2 DEF LiveBelow
    <3> QED BY <2>2, <3>1, OneMore
  <2>4. Cardinality(LiveBelow(i)) \in Nat
    BY <1>2, Smaller DEF LiveBelow
  <2> QED BY <1>1, <1>2, <2>1, <2>3, <2>4 DEF CountInv, WorkersBounded, LiveSet, TypeOK
<1>4. CASE ~Exists(workers[i].pid)
  <2>1. /\ active' = active
        /\ workers' = [workers EXCEPT ![i] = [pid |-> NoPid, status |-> "FAILED"]]
    BY <1>4 DEF MonKill
  <2>2. LiveBelow(i)' \subseteq LiveBelow(i)
    BY <1>1, <1>2, <2>1, SlotFacts, PidAssumption DEF LiveBelow, LiveSet, TypeOK
  <2> QED BY <1>1, <1>2, <2>1, <2>2, ShrinkCount
<1> QED BY <1>3, <1>4

LEMMA LoopTestCount == ASSUME Safe, CountInv, LoopTest PROVE CountInv'
<1>1. child' = child /\ pc' \in {"mon_test", "stop"} /\ (pc' = "mon_test" => i' = 0 /\ active' = 0)
  BY DEF LoopTest
<1>2. pc' = "mon_test" => LiveBelow(i)' = {}
  BY <1>1, SlotFacts DEF LiveBelow
<1> QED BY <1>1, <1>2, FS_EmptySet DEF CountInv, WorkersBounded

LEMMA DecideCount == ASSUME Safe, CountInv, Decide PROVE CountInv'
<1>1. /\ child' = child /\ pc = "decide" /\ pc' \in {"spawn", "sleep"}
      /\ pc' = "spawn" => active < SpawnBelow
  BY DEF Decide, MainAt
<1>2. LiveSet' = LiveSet /\ Cardinality(LiveSet) \in Nat
  BY <1>1, Smaller DEF LiveSet
<1> QED BY <1>1, <1>2, SizeAssumption DEF CountInv, WorkersBounded, LiveSet, Safe, TypeOK

LEMMA ForkCount == ASSUME Safe, CountInv, Fork PROVE CountInv'
<1>1. PICK p \in Pids : child' = [child EXCEPT ![p] = "running"]
  BY ZenonT(40) DEF Fork
<1>2. pc = "spawn" /\ pc' = "record"
  BY DEF Fork, MainAt
<1>3. LiveSet \in SUBSET Pids /\ LiveSet' \in SUBSET Pids /\ LiveSet' \subseteq LiveSet \cup {p}
  BY <1>1 DEF LiveSet, Safe, TypeOK
<1>4. /\ Cardinality(LiveSet) \in Nat /\ Cardinality(LiveSet') \in Nat
      /\ Cardinality(LiveSet') <= Cardinality(LiveSet) + 1
  BY <1>3, OneMore, Smaller
<1> QED BY <1>2, <1>4, SizeAssumption DEF CountInv, WorkersBounded, LiveSet

\* Every other step: no process is born, and the count is not in use or not touched.
LEMMA OtherCount ==
  ASSUME Safe, CountInv,
         \/ SpawnRefused \/ SpawnFails \/ RecordWorker \/ SleepLoop \/ StopIpc \/ JoinIpc
         \/ TermTest \/ TermKill \/ SleepBeforeKill \/ KillTest \/ KillProbe \/ KillSend
         \/ ReapCall \/ RemovePidfile \/ SigTerm \/ SigHup \/ IpcThreadExits \/ UNCHANGED vars
         \/ \E t \in Threads : Reap(t)
         \/ \E p \in Pids : ChildDies(p)
  PROVE  CountInv'
<1> USE DEF Safe
<1>1. CASE \/ SpawnRefused \/ SpawnFails \/ RecordWorker \/ SleepLoop \/ StopIpc \/ JoinIpc
           \/ TermTest \/ TermKill \/ SleepBeforeKill \/ KillTest \/ KillProbe \/ KillSend
           \/ ReapCall \/ RemovePidfile
  <2>1. pc' \notin {"mon_test", "mon_kill", "decide", "spawn"}
    BY <1>1, ZenonT(40) DEF SpawnRefused, SpawnFails, RecordWorker, SleepLoop, StopIpc, JoinIpc,
       TermTest, TermKill, SleepBeforeKill, KillTest, KillProbe, KillSend, ReapCall,
       RemovePidfile, MainAt
  <2>2. LiveSet' \subseteq LiveSet
    BY <1>1, ZenonT(40) DEF SpawnRefused, SpawnFails, RecordWorker, SleepLoop, StopIpc, JoinIpc,
       TermTest, TermKill, SleepBeforeKill, KillTest, KillProbe, KillSend, ReapCall,
       RemovePidfile, LiveSet, Live, TypeOK
  <2> QED BY <2>1, <2>2, ShrinkCount
<1>2. CASE \/ SigTerm \/ SigHup \/ IpcThreadExits \/ UNCHANGED vars
           \/ \E t \in Threads : Reap(t)
           \/ \E p \in Pids : ChildDies(p)
  <2>1. UNCHANGED <<pc, i, active, worker_count>>
    BY <1>2, ZenonT(40)
       DEF SigTerm, SigHup, IpcThreadExits, vars, Reap, SigChld, ReapWait, ReapRecord,
       ChildDies, mainVars, tableVars
  <2>2. LiveSet' \subseteq LiveSet
    BY <1>2, ZenonT(40)
       DEF SigTerm, SigHup, IpcThreadExits, vars, Reap, SigChld, ReapWait, ReapRecord,
       ChildDies, LiveSet, Live, Zombie, TypeOK
  <2>3. \A s \in Slots : workers'[s].pid \in Pids => workers'[s] = workers[s]
    <3>1. CASE \E t \in Threads : ReapRecord(t)
      <4> SUFFICES ASSUME NEW t \in Threads, ReapRecord(t), NEW s \in Slots,
                          workers'[s] # workers[s]
                   PROVE  workers'[s].pid \notin Pids
        BY <3>1
      <4>1. workers'[s] = [pid |-> NoPid, status |-> ReapStatus(hwait[t].how)]
        BY ReapRecordTable
      <4> QED BY <4>1, PidAssumption
    <3>2. CASE workers' = workers
      BY <3>2
    <3> QED BY <1>2, <3>1, <3>2, ZenonT(40)
            DEF SigTerm, SigHup, IpcThreadExits, vars, Reap, SigChld, ReapWait, ChildDies,
                tableVars
  <2>4. LiveBelow(i)' \subseteq LiveBelow(i)
    <3> SUFFICES ASSUME NEW p \in LiveSet, NEW s \in Slots,
                        s < i, s < worker_count, workers'[s].pid = p
                 PROVE  workers[s].pid = p
      BY <2>1, <2>2 DEF LiveBelow
    <3> QED BY <2>3 DEF LiveSet
  <2> QED BY <2>1, <2>2, <2>4, ShrinkCount
<1> QED BY <1>1, <1>2

LEMMA NextCount == Safe /\ CountInv /\ [Next]_vars => CountInv'
BY MonTestCount, MonKillCount, LoopTestCount, DecideCount, ForkCount, OtherCount
   DEF Next, MainStep

\* "active < 3" bounds the worker processes that exist, for any limit: the count taken
\* slot by slot never misses a process that is still alive when the decision is taken.
THEOREM SpawnLimitHolds == Spec => []WorkersBounded
<1>1. CountInv => WorkersBounded
  BY DEF CountInv
<1> QED BY <1>1, SafeInvariant, InitCount, NextCount, PTL DEF Spec

-----------------------------------------------------------------------------
(* The status a worker is reported with.                                   *)

\* Only daemon_reap_zombies writes IDLE over BUSY, and only for a worker that waitpid
\* reported as exited.
THEOREM IdleMeansExited == Spec => IdleOnlyAfterExit
<1>1. Safe /\ [Next]_vars => [IdleStep]_vars
  <2> SUFFICES ASSUME Safe, Next PROVE IdleStep
    OBVIOUS
  <2>1. CASE \E t \in Threads : ReapRecord(t)
    <3> SUFFICES ASSUME NEW t \in Threads, ReapRecord(t), NEW s \in Slots,
                        workers[s].status = "BUSY", workers'[s].status = "IDLE"
                 PROVE  hwait[t] = [pid |-> workers[s].pid, how |-> "exited"]
      BY <2>1, ZenonT(40) DEF IdleStep
    <3>1. /\ workers[s].pid = hwait[t].pid
          /\ workers'[s] = [pid |-> NoPid, status |-> ReapStatus(hwait[t].how)]
      BY ReapRecordTable, ZenonT(40)
    <3>2. ReapStatus(hwait[t].how) = "IDLE"
      BY <3>1
    <3>3. hwait[t].how = "exited"
      BY <3>2 DEF ReapStatus
    <3>4. hwait[t] \in [pid : Pids \cup {NoPid}, how : Zombie]
      BY DEF Safe, TypeOK
    <3> QED BY <3>1, <3>3, <3>4
  <2>2. CASE MonKill
    BY <2>2 DEF MonKill, IdleStep, Safe, TypeOK
  <2>3. CASE RecordWorker
    BY <2>3 DEF RecordWorker, IdleStep, Safe, TypeOK
  <2>4. CASE workers' = workers
    BY <2>4 DEF IdleStep
  <2> QED BY <2>1, <2>2, <2>3, <2>4, ZenonT(40)
          DEF Next, MainStep, Reap, SigTerm, SigHup, SigChld, ReapWait, LoopTest, MonTest,
              Decide, SpawnRefused, SpawnFails, Fork, SleepLoop, StopIpc, JoinIpc, TermTest,
              TermKill, SleepBeforeKill, KillTest, KillProbe, KillSend, ReapCall,
              RemovePidfile, ChildDies, IpcThreadExits, tableVars
<1> QED BY <1>1, SafeInvariant, PTL DEF Spec, IdleOnlyAfterExit

-----------------------------------------------------------------------------
(* The pool of workers that the daemon implements.                         *)

\* The pool counts as the daemon does.
LEMMA PoolCounts == ASSUME NEW S PROVE Pool!Cardinality(S) = Cardinality(S)
BY ZenonT(40) DEF Pool!Cardinality, Cardinality

\* The handlers, the signals and the IPC thread do nothing to the pool but to collect a
\* zombie; a worker that ends does so in the pool as well.
LEMMA OutsidePool ==
  ASSUME Safe, SigTerm \/ SigHup \/ IpcThreadExits \/ (\E t \in Threads : Reap(t))
                 \/ (\E p \in Pids : ChildDies(p))
  PROVE  Pool!Next \/ UNCHANGED Pool!vars
<1>1. Phase' = Phase
  BY DEF SigTerm, SigHup, IpcThreadExits, Reap, SigChld, ReapWait, ReapRecord, ChildDies,
         mainVars, Phase
<1>2. CASE \E p \in Pids : ChildDies(p)
  <2>1. PICK p \in Pids : ChildDies(p)
    BY <1>2
  <2>2. Pool!Ends(p)
    BY <1>1, <2>1 DEF ChildDies, Zombie, Pool!Ends, Pool!Live
  <2> QED BY <2>2 DEF Pool!Next
<1>3. CASE \E t \in Threads : ReapWait(t) /\ child' # child
  <2>1. PICK t \in Threads, p \in Pids :
          Alive /\ child[p] \in Zombie /\ child' = [child EXCEPT ![p] = "gone"]
    BY <1>3 DEF ReapWait
  <2>2. Phase # "over"
    BY <2>1 DEF Alive, Phase
  <2>3. Pool!Collect(p)
    BY <1>1, <2>1, <2>2 DEF Zombie, Pool!Collect
  <2> QED BY <2>3 DEF Pool!Next
<1>4. CASE child' = child
  BY <1>1, <1>4 DEF Pool!vars
<1> QED BY <1>2, <1>3, <1>4 DEF SigTerm, SigHup, IpcThreadExits, Reap, SigChld, ReapRecord

\* The main thread's steps: fork starts a worker, SIGKILL kills one, the end of main or
\* the daemon's own SIGKILL ends the pool.
LEMMA MainPool ==
  ASSUME Safe, CountInv, NoWorkerSurvives', MainStep
  PROVE  Pool!Next \/ UNCHANGED Pool!vars
<1> DEFINE Open == {"loop", "mon_test", "mon_kill", "decide", "spawn", "record", "sleep"}
<1>1. CASE Fork
  <2>1. PICK p \in Pids : child[p] = "unborn" /\ child' = [child EXCEPT ![p] = "running"]
    BY <1>1, ZenonT(40) DEF Fork
  <2>2. pc = "spawn" /\ pc' = "record"
    BY <1>1 DEF Fork, MainAt
  <2>3. Phase = "open" /\ Phase' = "open"
    BY <2>2 DEF Phase, Stopped
  <2>4. Pool!Live = LiveSet
    BY DEF Pool!Live, LiveSet, Live
  <2>5. Pool!Cardinality(Pool!Live) < SpawnBelow
    BY <2>2, <2>4, PoolCounts DEF CountInv
  <2>6. Pool!Start(p)
    BY <2>1, <2>3, <2>5 DEF Pool!Start
  <2> QED BY <2>6 DEF Pool!Next
<1>2. CASE KillSend /\ workers[i].pid # NoPid
  <2>1. pc = "kill_send" /\ pc' = "kill_test"
    BY <1>2 DEF KillSend, MainAt
  <2>2. Phase = "closing" /\ Phase' = "closing"
    BY <2>1 DEF Phase, Stopped
  <2>3. PICK p : child' = [child EXCEPT ![p] = IF @ = "running" THEN "doomed" ELSE @]
    BY <1>2 DEF KillSend
  <2>4. CASE p \in Pids /\ child[p] = "running"
    <3>1. Pool!Kill(p)
      BY <2>2, <2>3, <2>4 DEF Pool!Kill
    <3> QED BY <2>4, <3>1 DEF Pool!Next
  <2>5. CASE ~(p \in Pids /\ child[p] = "running")
    <3>1. child' = child
      BY <2>3, <2>5 DEF Safe, TypeOK
    <3> QED BY <2>2, <3>1 DEF Pool!vars
  <2> QED BY <2>4, <2>5
<1>3. CASE KillSend /\ workers[i].pid = NoPid
  <2>1. pc = "kill_send" /\ pc' = "killed"
    BY <1>3 DEF KillSend, MainAt
  <2>2. Phase = "closing" /\ Phase' = "over"
    BY <2>1 DEF Phase, Stopped
  <2>3. Pool!Finish
    BY <1>3, <2>2 DEF KillSend, Pool!Finish
  <2> QED BY <2>3 DEF Pool!Next
<1>4. CASE RemovePidfile
  <2>1. pc = "rmpid" /\ pc' = "done" /\ child' = child
    BY <1>4 DEF RemovePidfile, MainAt
  <2>2. Phase = "closing" /\ Phase' = "over"
    BY <2>1 DEF Phase, Stopped
  <2>3. \A p \in Pids : child[p] # "running"
    BY <2>1 DEF NoWorkerSurvives
  <2>4. child' = [p \in Pids |-> IF child[p] = "running" THEN "doomed" ELSE child[p]]
    BY <2>1, <2>3 DEF Safe, TypeOK
  <2>5. Pool!Finish
    BY <2>2, <2>4 DEF Pool!Finish
  <2> QED BY <2>5 DEF Pool!Next
<1>5. CASE LoopTest /\ ~daemon_running
  <2>1. pc = "loop" /\ pc' = "stop" /\ child' = child
    BY <1>5 DEF LoopTest, MainAt
  <2>2. Pool!Close
    BY <2>1 DEF Pool!Close, Phase, Stopped
  <2> QED BY <2>2 DEF Pool!Next
<1>6. CASE \/ LoopTest /\ daemon_running
           \/ MonTest \/ MonKill \/ Decide \/ SpawnRefused \/ SpawnFails \/ RecordWorker
           \/ SleepLoop
  <2>1. pc \in Open /\ pc' \in Open /\ child' = child
    BY <1>6 DEF LoopTest, MonTest, MonKill, Decide, SpawnRefused, SpawnFails, RecordWorker,
                SleepLoop, MainAt
  <2>2. Phase = "open" /\ Phase' = "open"
    BY <2>1 DEF Phase, Stopped
  <2> QED BY <2>1, <2>2 DEF Pool!vars
<1>7. CASE \/ StopIpc \/ JoinIpc \/ TermTest \/ TermKill \/ SleepBeforeKill \/ KillTest
           \/ KillProbe \/ ReapCall
  <2> DEFINE Closing == {"stop", "join", "term_test", "term_kill", "sleep2", "kill_test",
                         "kill_probe", "kill_send", "reap", "rmpid"}
  <2>1. pc \in Closing /\ pc' \in Closing /\ child' = child
    BY <1>7 DEF StopIpc, JoinIpc, TermTest, TermKill, SleepBeforeKill, KillTest, KillProbe,
                ReapCall, MainAt
  <2>2. Phase = "closing" /\ Phase' = "closing"
    BY <2>1 DEF Phase, Stopped
  <2> QED BY <2>1, <2>2 DEF Pool!vars
<1> QED BY <1>1, <1>2, <1>3, <1>4, <1>5, <1>6, <1>7 DEF MainStep

\* The daemon implements the pool of workers, for every number of processes, slots and
\* workers: what its main loop, daemon_shutdown and daemon_reap_zombies do to the table
\* between them is, seen from outside, a start, an end, a collection, a kill or nothing.
THEOREM WorkersImplementPool == Spec => ImplementsPool
<1>1. Init => Pool!Init
  BY DEF Init, Pool!Init, Phase, Stopped
<1>2. Safe /\ CountInv /\ NoWorkerSurvives' /\ [Next]_vars => [Pool!Next]_(Pool!vars)
  <2>1. UNCHANGED vars => UNCHANGED Pool!vars
    BY DEF vars, mainVars, Pool!vars, Phase
  <2> QED BY <2>1, OutsidePool, MainPool DEF Next
<1> QED BY <1>1, <1>2, SafeInvariant, InitCount, NextCount, ShutdownLeavesNoWorker, PTL
        DEF Spec, ImplementsPool, Pool!Spec
=============================================================================
