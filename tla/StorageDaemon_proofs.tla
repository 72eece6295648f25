------------------------ MODULE StorageDaemon_proofs ------------------------
(***************************************************************************)
(* The whole daemon implements both of its components, and its shutdown    *)
(* leaves neither the IPC thread nor a connection behind, for every value  *)
(* of the constants.                                                       *)
(***************************************************************************)
EXTENDS StorageDaemon, TLAPS

\* Most leaves are arithmetic, sequences, records and functions and go to SMT; the ones
\* that are plain logic name Zenon.
USE SMTT(40)

-----------------------------------------------------------------------------
(* Workers.                                                                *)

\* The IPC thread takes no step once ipc_server_run has returned.
LEMMA ExitedIsFinal == S!ServerStep => run_pc # "exited"
BY DEF S!ServerStep, S!RunTest, S!Select, S!Accept, S!ServeSlot, S!SkipSlot, S!EndServe

LEMMA WorkersStep == [Next]_vars => [W!Next]_(W!vars)
<1> SUFFICES ASSUME [Next]_vars PROVE W!Next \/ UNCHANGED W!vars
  OBVIOUS
<1>1. CASE MainThread
  BY <1>1 DEF MainThread, StopServer, Leave, KilledByItself, MainStep, W!Next, W!MainStep
<1>2. CASE Signals \/ HandlerEnters \/ (\E t \in W!Threads : HandlerStep(t))
             \/ \E p \in Pids : WorkerEnds(p)
  BY <1>2 DEF Signals, HandlerEnters, HandlerStep, WorkerEnds, W!Next, W!Reap
<1>3. CASE ServerStep
  <2>1. run_pc # "exited"
    BY <1>3, ExitedIsFinal DEF ServerStep
  <2>2. CASE run_pc' = "exited"
    BY <1>3, <2>1, <2>2
    DEF ServerStep, mainVars, W!Next, W!IpcThreadExits, W!Alive, W!Stopped, W!mainVars,
        W!tableVars, W!flagVars, W!reapVars
  <2>3. CASE run_pc' # "exited"
    BY <1>3, <2>1, <2>3
    DEF ServerStep, mainVars, W!vars, W!mainVars, W!tableVars, W!flagVars, W!reapVars
  <2> QED BY <2>2, <2>3
<1>4. CASE \E c \in Clients : ClientStep(c)
  BY <1>4 DEF ClientStep, mainVars, S!ClientStep, S!Connect, S!Send, S!Receive, S!Abandon,
              S!Again, S!runVars, W!vars, W!mainVars, W!tableVars, W!flagVars, W!reapVars
<1>5. CASE UNCHANGED vars
  BY <1>5 DEF vars, mainVars, serverVars, W!vars, W!mainVars, W!tableVars, W!flagVars,
              W!reapVars
<1> QED BY <1>1, <1>2, <1>3, <1>4, <1>5 DEF Next

\* The whole daemon is an implementation of Workers: the IPC thread's return is a step
\* that module allows, and everything else the server and the clients do leaves the
\* workers alone.
THEOREM DaemonImplementsWorkers == Spec => ImplementsWorkers
<1>1. Init => W!Init
  BY DEF Init
<1> QED BY <1>1, WorkersStep, PTL DEF Spec, ImplementsWorkers, W!Spec

-----------------------------------------------------------------------------
(* IpcServer.                                                              *)

\* Of the main thread's steps only the three that also act on the server move it to
\* another phase.
LEMMA PhaseKept ==
  ASSUME MainStep \/ Signals \/ HandlerEnters \/ (\E t \in W!Threads : HandlerStep(t))
           \/ \E p \in Pids : WorkerEnds(p)
  PROVE  UNCHANGED MainPhase
<1>1. CASE MainStep
  BY <1>1, ZenonT(40)
  DEF MainStep, MainPhase, W!MainAt, W!LoopTest, W!MonTest, W!MonKill, W!Decide,
      W!SpawnRefused, W!SpawnFails, W!Fork, W!RecordWorker, W!SleepLoop, W!JoinIpc,
      W!TermTest, W!TermKill, W!SleepBeforeKill, W!KillTest, W!KillProbe, W!KillSend,
      W!ReapCall
<1>2. CASE Signals \/ HandlerEnters \/ (\E t \in W!Threads : HandlerStep(t))
             \/ \E p \in Pids : WorkerEnds(p)
  BY <1>2
  DEF Signals, HandlerEnters, HandlerStep, WorkerEnds, MainPhase, W!SigTerm, W!SigHup,
      W!SigChld, W!ReapWait, W!ReapRecord, W!ChildDies, W!mainVars
<1> QED BY <1>1, <1>2

LEMMA IpcServerStep == [Next]_vars => [S!Next]_(S!vars)
<1> SUFFICES ASSUME [Next]_vars PROVE S!Next \/ UNCHANGED S!vars
  OBVIOUS
<1>1. CASE StopServer \/ Leave \/ KilledByItself
  BY <1>1 DEF StopServer, Leave, KilledByItself, S!Next
<1>2. CASE MainStep \/ Signals \/ HandlerEnters \/ (\E t \in W!Threads : HandlerStep(t))
             \/ \E p \in Pids : WorkerEnds(p)
  <2>1. UNCHANGED MainPhase
    BY <1>2, PhaseKept
  <2> QED
    BY <1>2, <2>1
    DEF MainStep, Signals, HandlerEnters, HandlerStep, WorkerEnds, serverVars, S!vars,
        S!runVars, S!stateVars, S!sockVars
<1>3. CASE ServerStep \/ \E c \in Clients : ClientStep(c)
  BY <1>3 DEF ServerStep, ClientStep, S!Next
<1>4. CASE UNCHANGED vars
  BY <1>4 DEF vars, mainVars, serverVars, MainPhase, S!vars, S!runVars, S!stateVars,
              S!sockVars
<1> QED BY <1>1, <1>2, <1>3, <1>4 DEF Next, MainThread

\* The whole daemon is an implementation of IpcServer: main stops the server once, as
\* it leaves its loop, and closes its sockets, or is killed, only after the join.
THEOREM DaemonImplementsIpcServer == Spec => ImplementsIpcServer
<1>1. Init => S!Init
  BY DEF Init
<1> QED BY <1>1, IpcServerStep, PTL DEF Spec, ImplementsIpcServer, S!Spec

-----------------------------------------------------------------------------
(* The order of the shutdown.                                              *)

\* The main thread is past pthread_join.
Joined == {"term_test", "term_kill", "sleep2", "kill_test", "kill_probe", "kill_send",
           "reap", "rmpid", "done", "killed"}

\* From the first loop of daemon_shutdown on the IPC thread is gone: neither its own code
\* nor a SIGCHLD handler on top of it runs beside the loops over workers[], and neither
\* cleanup nor a SIGKILL to the daemon's own group finds it inside ipc_server_run.
ServerGoneFirst == pc \in Joined => run_pc = "exited" /\ hpc["ipc"] = "idle"

\* Nobody is left connected to a daemon that is gone, however it went: whoever has
\* called connect() can see the end of its connection.
NobodyLeftConnected ==
  pc \in {"done", "killed"} => \A c \in Clients : cpc[c] # "idle" => hung[c]

\* The inductive invariants.  A thread that has returned is not interrupted any more; a
\* connection that has not been closed is waiting or in the table, and a daemon that is
\* gone has neither.
JoinInv ==
  /\ hpc \in [W!Threads -> {"idle", "wait", "record"}]
  /\ run_pc = "exited" => hpc["ipc"] = "idle"
  /\ pc \in Joined => run_pc = "exited"

ConnInv ==
  /\ \A c \in Clients : cpc[c] # "idle" /\ ~hung[c] => c \in S!Queued \cup S!FdSet
  /\ MainPhase = "down" => S!Queued \cup S!FdSet = {}
  /\ clients \in [S!Slots -> Clients \cup {NoClient}] /\ backlog \in Seq(Clients)
  /\ hung \in [Clients -> BOOLEAN] /\ DOMAIN cpc = Clients
  /\ accept_ready => run_pc = "accept" /\ backlog # << >>

LEMMA NextJoinInv == JoinInv /\ [Next]_vars => JoinInv'
<1> SUFFICES ASSUME JoinInv, [Next]_vars PROVE JoinInv'
  OBVIOUS
<1> USE DEF Joined
<1>1. CASE StopServer \/ Leave \/ KilledByItself
  <2>1. UNCHANGED <<run_pc, hpc>>
    BY <1>1 DEF StopServer, Leave, KilledByItself, W!StopIpc, W!RemovePidfile, W!KillSend, W!reapVars
  <2>2. pc' = "join" \/ pc \in Joined
    BY <1>1 DEF StopServer, Leave, KilledByItself, W!StopIpc, W!RemovePidfile, W!MainAt
  <2> QED BY <2>1, <2>2 DEF JoinInv
<1>2. CASE MainStep
  <2>1. run_pc' = run_pc
    BY <1>2 DEF MainStep, serverVars
  <2>2. pc' \in Joined => pc \in Joined \/ run_pc = "exited"
    <3>1. CASE W!LoopTest \/ W!MonTest \/ W!MonKill \/ W!Decide
      <4>1. pc' \in {"mon_test", "stop", "mon_kill", "decide", "spawn", "sleep"}
        BY <3>1 DEF W!LoopTest, W!MonTest, W!MonKill, W!Decide, W!MainAt
      <4> QED BY <4>1
    <3>2. CASE W!SpawnRefused \/ W!SpawnFails \/ W!Fork \/ W!RecordWorker \/ W!SleepLoop
      <4>1. pc' \in {"sleep", "record", "loop"}
        BY <3>2 DEF W!SpawnRefused, W!SpawnFails, W!Fork, W!RecordWorker, W!SleepLoop
      <4> QED BY <4>1
    <3>3. CASE W!JoinIpc
      BY <3>3 DEF W!JoinIpc
    <3>4. CASE W!TermTest \/ W!TermKill \/ W!SleepBeforeKill \/ W!KillTest
      BY <3>4 DEF W!TermTest, W!TermKill, W!SleepBeforeKill, W!KillTest, W!MainAt
    <3>5. CASE W!KillProbe \/ W!KillSend \/ W!ReapCall
      BY <3>5 DEF W!KillProbe, W!KillSend, W!ReapCall, W!MainAt
    <3> QED BY <1>2, <3>1, <3>2, <3>3, <3>4, <3>5, ZenonT(40) DEF MainStep
  <2>3. hpc' = hpc \/ hpc' = [hpc EXCEPT !["main"] = "wait"]
    BY <1>2, ZenonT(40)
    DEF MainStep, W!LoopTest, W!MonTest, W!MonKill, W!Decide, W!reapVars,
        W!SpawnRefused, W!SpawnFails, W!Fork, W!RecordWorker, W!SleepLoop, W!JoinIpc,
        W!TermTest, W!TermKill, W!SleepBeforeKill, W!KillTest, W!KillProbe, W!KillSend,
        W!ReapCall
  <2>4. /\ hpc' \in [W!Threads -> {"idle", "wait", "record"}]
        /\ hpc'["ipc"] = hpc["ipc"]
    BY <2>3 DEF JoinInv, W!Threads
  <2> QED BY <2>1, <2>2, <2>4 DEF JoinInv
<1>3. CASE Signals \/ \E p \in Pids : WorkerEnds(p)
  BY <1>3 DEF Signals, WorkerEnds, W!SigTerm, W!SigHup, W!ChildDies, W!mainVars, W!reapVars,
              serverVars, JoinInv
<1>4. ASSUME NEW t \in W!Threads, W!SigChld(t) \/ W!ReapWait(t) \/ W!ReapRecord(t),
             UNCHANGED serverVars
      PROVE  JoinInv'
  <2>1. UNCHANGED <<pc, run_pc>>
    BY <1>4 DEF W!SigChld, W!ReapWait, W!ReapRecord, W!mainVars, serverVars
  <2>2. PICK v \in {"idle", "wait", "record"} : hpc' = [hpc EXCEPT ![t] = v]
    BY <1>4 DEF W!SigChld, W!ReapWait, W!ReapRecord
  <2>3. t = "ipc" => run_pc # "exited"
    BY <1>4 DEF W!SigChld, W!HandlerThreads, W!ReapWait, W!ReapRecord, JoinInv
  <2> QED BY <2>1, <2>2, <2>3 DEF JoinInv
<1>5. CASE HandlerEnters \/ \E t \in W!Threads : HandlerStep(t)
  BY <1>4, <1>5 DEF HandlerEnters, HandlerStep
<1>6. CASE ServerStep
  <2>1. run_pc # "exited"
    BY <1>6, ExitedIsFinal DEF ServerStep
  <2> QED BY <1>6, <2>1 DEF ServerStep, mainVars, JoinInv
<1>7. CASE \E c \in Clients : ClientStep(c)
  BY <1>7 DEF ClientStep, mainVars, S!ClientStep, S!Connect, S!Send, S!Receive, S!Abandon,
              S!Again, S!runVars, JoinInv
<1>8. CASE UNCHANGED vars
  BY <1>8 DEF vars, mainVars, serverVars, JoinInv
<1> QED BY <1>1, <1>2, <1>3, <1>5, <1>6, <1>7, <1>8 DEF Next, MainThread

\* pthread_join stands between the IPC thread and everything main does after its loop.
THEOREM ServerIsGoneFirst == Spec => []ServerGoneFirst
<1>1. Init => JoinInv
  BY DEF Init, W!Init, JoinInv, Joined, W!Threads
<1>2. JoinInv => ServerGoneFirst
  BY DEF JoinInv, ServerGoneFirst
<1> QED BY <1>1, <1>2, NextJoinInv, PTL DEF Spec

\* The clients: connect() puts a connection in the queue of a daemon that is still
\* there, and no other call of theirs opens one.
LEMMA ClientConnInv ==
  ASSUME ConnInv, NEW c \in Clients, S!ClientStep(c), UNCHANGED mainVars
  PROVE  ConnInv'
<1>1. MainPhase' = MainPhase /\ UNCHANGED <<clients, run_pc, accept_ready>>
  BY DEF mainVars, MainPhase, S!ClientStep, S!Connect, S!Send, S!Receive, S!Abandon, S!Again,
         S!runVars, S!stateVars
<1>2. S!FdSet' = S!FdSet
  BY <1>1 DEF S!FdSet
<1>3. CASE S!Connect(c)
  <2>1. /\ backlog \in Seq(Clients) /\ backlog' = Append(backlog, c)
        /\ MainPhase # "down" /\ hung' = hung /\ cpc' = [cpc EXCEPT ![c] = "connected"]
    BY <1>3 DEF S!Connect, ConnInv
  <2>2. /\ backlog' \in Seq(Clients) /\ backlog' # << >>
        /\ DOMAIN backlog = 1 .. Len(backlog) /\ DOMAIN backlog' = 1 .. Len(backlog) + 1
        /\ \A j \in 1 .. Len(backlog) : backlog'[j] = backlog[j]
        /\ backlog'[Len(backlog) + 1] = c /\ Len(backlog) \in Nat
    BY <2>1
  <2>3. S!Queued \cup {c} \subseteq S!Queued'
    BY <2>2 DEF S!Queued
  <2> QED BY <1>1, <1>2, <2>1, <2>2, <2>3 DEF ConnInv
<1>4. CASE S!Send(c) \/ S!Receive(c) \/ S!Abandon(c)
  <2>1. UNCHANGED <<backlog, hung>> /\ cpc[c] # "idle"
    BY <1>4 DEF S!Send, S!Receive, S!Abandon, S!Open
  <2>2. \E v : cpc' = [cpc EXCEPT ![c] = v]
    BY <1>4 DEF S!Send, S!Receive, S!Abandon
  <2>3. S!Queued' = S!Queued
    BY <2>1 DEF S!Queued
  <2> QED BY <1>1, <1>2, <2>1, <2>2, <2>3 DEF ConnInv
<1>5. CASE S!Again(c)
  <2>1. /\ backlog' = backlog /\ hung' = [hung EXCEPT ![c] = FALSE]
        /\ cpc' = [cpc EXCEPT ![c] = "idle"]
    BY <1>5 DEF S!Again
  <2>2. S!Queued' = S!Queued
    BY <2>1 DEF S!Queued
  <2> QED BY <1>1, <1>2, <2>1, <2>2 DEF ConnInv
<1> QED BY <1>3, <1>4, <1>5 DEF S!ClientStep

\* The IPC thread: a connection that leaves the queue goes into a free slot or is
\* closed, and one that leaves the table has been closed.
LEMMA ServerConnInv ==
  ASSUME ConnInv, ServerStep
  PROVE  ConnInv'
<1>1. MainPhase # "down" /\ MainPhase' = MainPhase /\ cpc' = cpc
  BY DEF ServerStep, mainVars, MainPhase, S!ServerStep, S!RunTest, S!Select, S!Accept,
         S!ServeSlot, S!SkipSlot, S!EndServe, S!sockVars
<1>2. CASE S!RunTest \/ S!Select \/ S!SkipSlot \/ S!EndServe
  <2>1. UNCHANGED <<clients, backlog, hung>>
    BY <1>2 DEF S!RunTest, S!Select, S!SkipSlot, S!EndServe, S!stateVars, S!sockVars
  <2>2. S!Queued' = S!Queued /\ S!FdSet' = S!FdSet
    BY <2>1 DEF S!Queued, S!FdSet
  <2>3. accept_ready' => run_pc' = "accept" /\ backlog # << >>
    BY <1>2, ZenonT(40) DEF S!RunTest, S!Select, S!SkipSlot, S!EndServe, ConnInv
  <2> QED BY <1>1, <2>1, <2>2, <2>3 DEF ConnInv
<1>3. CASE S!Accept /\ ~accept_ready
  <2>1. UNCHANGED <<clients, backlog, hung>> /\ ~accept_ready'
    BY <1>3 DEF S!Accept
  <2>2. S!Queued' = S!Queued /\ S!FdSet' = S!FdSet
    BY <2>1 DEF S!Queued, S!FdSet
  <2> QED BY <1>1, <2>1, <2>2 DEF ConnInv
<1>4. CASE S!Accept /\ accept_ready
  <2> DEFINE h == Head(backlog)
  <2>1. /\ backlog \in Seq(Clients) /\ backlog # << >> /\ backlog' = Tail(backlog)
        /\ ~accept_ready'
    BY <1>4 DEF S!Accept, ConnInv
  <2>2. /\ backlog' \in Seq(Clients) /\ h \in Clients /\ h = backlog[1]
        /\ DOMAIN backlog = 1 .. Len(backlog) /\ DOMAIN backlog' = 1 .. Len(backlog) - 1
        /\ \A j \in 1 .. Len(backlog) - 1 : backlog'[j] = backlog[j + 1]
        /\ Len(backlog) \in Nat
    BY <2>1
  <2>3. S!Queued \subseteq S!Queued' \cup {h}
    <3> SUFFICES ASSUME NEW j \in 1 .. Len(backlog), j # 1 PROVE backlog[j] \in S!Queued'
      BY <2>2 DEF S!Queued
    <3>1. j - 1 \in 1 .. Len(backlog) - 1 /\ backlog'[j - 1] = backlog[j]
      BY <2>2
    <3> QED BY <2>2, <3>1 DEF S!Queued
  <2>4. CASE S!AcceptFull
    <3>1. hung' = [hung EXCEPT ![h] = TRUE] /\ clients' = clients
      BY <2>4 DEF S!AcceptFull
    <3>2. S!FdSet' = S!FdSet
      BY <3>1 DEF S!FdSet
    <3>3. hung' \in [Clients -> BOOLEAN] /\ hung'[h] /\ \A c \in Clients : ~hung'[c] => ~hung[c]
      BY <2>2, <3>1 DEF ConnInv
    <3> QED BY <1>1, <2>1, <2>2, <2>3, <3>1, <3>2, <3>3 DEF ConnInv
  <2>5. ASSUME NEW s \in S!Slots, S!AcceptInto(s) PROVE ConnInv'
    <3>1. clients[s] = NoClient /\ clients' = [clients EXCEPT ![s] = h] /\ hung' = hung
      BY <2>5 DEF S!AcceptInto
    <3>2. clients' \in [S!Slots -> Clients \cup {NoClient}]
      BY <2>2, <3>1 DEF ConnInv
    <3>3. S!FdSet \cup {h} \subseteq S!FdSet'
      BY <2>2, <3>1, ServerAssumption DEF ConnInv, S!FdSet
    <3> QED BY <1>1, <2>1, <2>2, <2>3, <3>1, <3>2, <3>3 DEF ConnInv
  <2> QED BY <1>4, <2>4, <2>5 DEF S!Accept
<1>5. CASE S!ServeSlot
  <2>1. /\ hung' = [hung EXCEPT ![clients[k]] = TRUE]
        /\ clients' = [clients EXCEPT ![k] = NoClient]
        /\ UNCHANGED <<backlog, run_pc, accept_ready>>
    BY <1>5 DEF S!ServeSlot
  <2>2. S!Queued' = S!Queued
    BY <2>1 DEF S!Queued
  <2>3. S!FdSet \subseteq S!FdSet' \cup {clients[k]}
    BY <2>1 DEF ConnInv, S!FdSet
  <2>4. /\ hung' \in [Clients -> BOOLEAN]
        /\ \A c \in Clients : ~hung'[c] => ~hung[c] /\ c # clients[k]
    BY <2>1, ZenonT(40) DEF ConnInv
  <2>5. clients' \in [S!Slots -> Clients \cup {NoClient}]
    BY <2>1, ZenonT(40) DEF ConnInv
  <2> QED BY <1>1, <2>1, <2>2, <2>3, <2>4, <2>5 DEF ConnInv
<1> QED BY <1>2, <1>3, <1>4, <1>5 DEF ServerStep, S!ServerStep

\* The main thread: ipc_server_cleanup, or the kernel, closes whatever is left.
LEMMA MainConnInv ==
  ASSUME ConnInv, StopServer \/ Leave \/ KilledByItself
  PROVE  ConnInv'
<1>1. CASE StopServer
  <2>1. UNCHANGED <<clients, backlog, hung, cpc, run_pc, accept_ready>> /\ MainPhase' = "stopped"
    BY <1>1 DEF StopServer, S!Stop, S!runVars, S!sockVars
  <2>2. S!Queued' = S!Queued /\ S!FdSet' = S!FdSet
    BY <2>1 DEF S!Queued, S!FdSet
  <2> QED BY <2>1, <2>2 DEF ConnInv
<1>2. CASE Leave \/ KilledByItself
  <2>1. S!Cleanup
    BY <1>2 DEF Leave, KilledByItself
  <2>2. /\ hung' = [c \in Clients |->
                      hung[c] \/ c \in S!Queued \/ \E s \in S!Slots : clients[s] = c]
        /\ clients' = [s \in S!Slots |-> NoClient]
        /\ backlog' = << >>
        /\ UNCHANGED <<cpc, run_pc, accept_ready>>
    BY <2>1 DEF S!Cleanup, S!runVars
  <2>3. S!Queued' = {} /\ S!FdSet' = {}
    BY <2>2, ServerAssumption DEF S!Queued, S!FdSet
  <2>4. \A c \in Clients : cpc'[c] # "idle" => hung'[c]
    BY <2>2, ZenonT(40) DEF ConnInv, S!FdSet
  <2>5. ~accept_ready'
    BY <2>1, <2>2 DEF S!Cleanup, ConnInv
  <2> QED BY <2>2, <2>3, <2>4, <2>5 DEF ConnInv
<1> QED BY <1>1, <1>2

LEMMA NextConnInv == ConnInv /\ [Next]_vars => ConnInv'
<1> SUFFICES ASSUME ConnInv, [Next]_vars PROVE ConnInv'
  OBVIOUS
<1>1. CASE MainStep \/ Signals \/ HandlerEnters \/ (\E t \in W!Threads : HandlerStep(t))
             \/ \E p \in Pids : WorkerEnds(p)
  <2>1. MainPhase' = MainPhase
    BY <1>1, PhaseKept
  <2>2. UNCHANGED <<clients, backlog, hung, cpc, run_pc, accept_ready>>
    BY <1>1 DEF MainStep, Signals, HandlerEnters, HandlerStep, WorkerEnds, serverVars
  <2>3. S!Queued' = S!Queued /\ S!FdSet' = S!FdSet
    BY <2>2 DEF S!Queued, S!FdSet
  <2> QED BY <2>1, <2>2, <2>3 DEF ConnInv
<1>2. CASE UNCHANGED vars
  <2>1. UNCHANGED <<clients, backlog, hung, cpc, run_pc, accept_ready>> /\ MainPhase' = MainPhase
    BY <1>2 DEF vars, mainVars, serverVars, MainPhase
  <2>2. S!Queued' = S!Queued /\ S!FdSet' = S!FdSet
    BY <2>1 DEF S!Queued, S!FdSet
  <2> QED BY <2>1, <2>2 DEF ConnInv
<1>3. CASE \E c \in Clients : ClientStep(c)
  BY <1>3, ClientConnInv DEF ClientStep
<1> QED BY <1>1, <1>2, <1>3, ServerConnInv, MainConnInv DEF Next, MainThread

\* A daemon that has ended, through main or through its own SIGKILL, has closed every
\* connection, waiting or accepted.
THEOREM NobodyIsLeft == Spec => []NobodyLeftConnected
<1>1. Init => ConnInv
  <2> SUFFICES ASSUME Init PROVE ConnInv
    OBVIOUS
  <2>1. S!Queued = {} /\ S!FdSet = {}
    BY ServerAssumption DEF Init, S!Init, S!Queued, S!FdSet
  <2> QED BY <2>1 DEF Init, S!Init, ConnInv
<1>2. ConnInv => NobodyLeftConnected
  BY DEF ConnInv, NobodyLeftConnected, MainPhase
<1> QED BY <1>1, <1>2, NextConnInv, PTL DEF Spec
=============================================================================
