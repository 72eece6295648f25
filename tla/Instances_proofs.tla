-------------------------- MODULE Instances_proofs --------------------------
(***************************************************************************)
(* Proofs about Instances, for any number of processes, any pid files and  *)
(* any directories.                                                        *)
(***************************************************************************)
EXTENDS Instances, TLAPS

\* Most leaves are arithmetic, sequences, records and functions and go to SMT; the ones
\* that are plain logic name Zenon.
USE SMTT(40)

\* The positions between bind and the end of the main loop.
Bound == {"prepare", "daemonize", "check", "refused", "open", "write", "setup", "run"}

\* Nothing else lives beside a process that is alone, a process writes its number only
\* to the file the fallback of daemon_create_pidfile leads to, and once it has removed its
\* file nobody brings its number back.
SharedInv ==
  /\ \A p \in Procs, q \in Procs : alone[p] /\ q # p => ~Alive(q)
  /\ \A p \in Procs : opened[p] # "none" => opened[p] \in Targets(PidPath[p])
  /\ \A p \in Procs, f \in Paths : pidfile[f] = p => f \in Targets(PidPath[p])
  /\ \A p \in Procs, f \in Paths : ppc[p] \in {"leave", "stopped"} /\ pidfile[f] = p =>
       f = "local" /\ dir[PidPath[p]] = "missing"

\* How far a process that is alone has come.
Progress(p) ==
  /\ ppc[p] \in Bound => sock = p
  /\ ppc[p] = "write" => opened[p] # "none"
  /\ ppc[p] \in {"setup", "run"} => \E f \in Targets(PidPath[p]) : pidfile[f] = p
  /\ ppc[p] = "stopped" => sock = Nobody

AloneInv == \A p \in Procs : alone[p] => Progress(p)

IInv == TypeOK /\ SharedInv /\ AloneInv

LEMMA PCFacts ==
  PPC = {"off", "stopped", "unlink", "bind", "prepare", "daemonize", "check", "refused",
         "open", "write", "setup", "run", "rm_default", "rm_own", "leave", "cleanup", "failed"}
BY DEF PPC, NotAlive

LEMMA TargetFacts ==
  ASSUME TypeOK, NEW p \in Procs
  PROVE  /\ PidPath[p] \in Paths
         /\ Targets(PidPath[p]) \subseteq Paths
         /\ \A f \in Targets(PidPath[p]) :
              f = IF dir[PidPath[p]] = "ok" THEN PidPath[p] ELSE "local"
BY ProcAssumption DEF Targets, Paths

LEMMA InitIInv == Init => IInv
<1> SUFFICES ASSUME Init PROVE IInv
  OBVIOUS
<1>1. TypeOK
  BY PCFacts DEF Init, TypeOK
<1>2. SharedInv
  BY ProcAssumption DEF Init, SharedInv
<1>3. AloneInv
  BY DEF Init, AloneInv
<1> QED BY <1>1, <1>2, <1>3 DEF IInv

\* A step of p that is not a start: nobody is alone but p, or the process that is alone
\* does not exist any more.
LEMMA OnlyMe ==
  ASSUME SharedInv, NEW p \in Procs, Alive(p), NEW q \in Procs, alone[q]
  PROVE  q = p
BY DEF SharedInv

LEMMA StartIInv == ASSUME IInv, NEW p \in Procs, Start(p) PROVE IInv'
<1> USE DEF IInv
<1>1. TypeOK'
  <2>1. alone' \in [Procs -> BOOLEAN]
    BY ZenonT(40) DEF Start
  <2>2. ppc' \in [Procs -> PPC] /\ \A q \in Procs : opened[q] # "none" => ppc'[q] = "write"
    BY PCFacts DEF Start, TypeOK, NotAlive
  <2> QED BY <2>1, <2>2 DEF Start, TypeOK, NotAlive
<1>2. SharedInv'
  <2>1. \A q \in Procs, r \in Procs : alone'[q] /\ r # q => ppc'[r] \in NotAlive
    BY ZenonT(40) DEF Start, TypeOK, Alive
  <2> QED BY <2>1 DEF Start, SharedInv, Alive, Targets
<1>3. AloneInv'
  BY ZenonT(40) DEF Start, TypeOK, AloneInv, Progress, Bound
<1> QED BY <1>1, <1>2, <1>3

\* Steps that leave the pid files alone.
LEMMA SocketIInv ==
  ASSUME IInv, NEW p \in Procs,
         \/ IpcUnlink(p) \/ IpcBind(p) \/ Prepare(p) \/ Daemonize(p) \/ Refused(p)
         \/ Setup(p) \/ Stop(p) \/ Cleanup(p) \/ Fail(p)
  PROVE  IInv'
<1> USE DEF IInv
<1>1. /\ UNCHANGED <<pidfile, opened, alone, foreign, dir>>
      /\ Alive(p) /\ ppc[p] # "write"
      /\ sock' \in Procs \cup {Nobody}
  BY DEF IpcUnlink, IpcBind, Prepare, Daemonize, Refused, Setup, Stop, Cleanup, Fail,
         Alive, NotAlive, TypeOK
<1>2. PICK next \in PPC : /\ ppc' = [ppc EXCEPT ![p] = next]
                          /\ next \notin {"write", "refused", "open"}
                          /\ next \in Bound => sock' = p \/ (ppc[p] \in Bound /\ sock' = sock)
                          /\ next = "setup" => ppc[p] = "setup"
                          /\ next = "run" => ppc[p] = "setup"
                          /\ next = "stopped" => ppc[p] = "leave" /\ sock' = Nobody
                          /\ next # "leave"
  BY PCFacts
     DEF IpcUnlink, IpcBind, Prepare, Daemonize, Refused, Setup, Stop, Cleanup, Fail, Bound,
         TypeOK
<1>3. TypeOK'
  BY <1>1, <1>2 DEF TypeOK, Alive, NotAlive
<1>4. SharedInv'
  BY <1>1, <1>2 DEF TypeOK, SharedInv, Alive, Targets
<1>5. AloneInv'
  <2>1. alone[p] => Progress(p)'
    BY <1>1, <1>2 DEF TypeOK, AloneInv, Progress, Targets, Bound
  <2> QED BY <1>1, <2>1, OnlyMe DEF AloneInv
<1> QED BY <1>3, <1>4, <1>5

LEMMA CheckPidIInv == ASSUME IInv, NEW p \in Procs, CheckPid(p) PROVE IInv'
<1> USE DEF IInv
<1>1. /\ UNCHANGED <<sock, pidfile, opened, alone, foreign, dir>>
      /\ ppc[p] = "check" /\ Alive(p)
  BY DEF CheckPid, Alive, NotAlive
<1>2. PICK next \in {"refused", "open"} :
        ppc' = [ppc EXCEPT ![p] = next]
  BY ZenonT(40) DEF CheckPid
<1>3. TypeOK'
  BY <1>1, <1>2, PCFacts DEF TypeOK, Alive, NotAlive
<1>4. SharedInv'
  BY <1>1, <1>2 DEF TypeOK, SharedInv, Alive, NotAlive, Targets
<1>5. alone[p] => Progress(p)'
  BY <1>1, <1>2 DEF TypeOK, AloneInv, Progress, Bound
<1>6. AloneInv'
  BY <1>1, <1>5, OnlyMe DEF AloneInv
<1> QED BY <1>3, <1>4, <1>6

LEMMA OpenPidIInv == ASSUME IInv, NEW p \in Procs, OpenPid(p) PROVE IInv'
<1> USE DEF IInv
<1>1. UNCHANGED <<sock, alone, foreign, dir>> /\ ppc[p] = "open" /\ Alive(p)
  BY DEF OpenPid, Alive, NotAlive
<1>2. CASE ppc' = [ppc EXCEPT ![p] = "cleanup"] /\ UNCHANGED <<pidfile, opened>>
  <2>1. TypeOK'
    BY <1>1, <1>2, PCFacts DEF TypeOK, Alive, NotAlive
  <2>2. SharedInv'
    BY <1>1, <1>2 DEF TypeOK, SharedInv, Alive, NotAlive, Targets
  <2>3. Progress(p)'
    BY <1>2 DEF TypeOK, Progress, Bound
  <2> QED BY <1>1, <2>1, <2>2, <2>3, OnlyMe DEF AloneInv
<1>3. CASE \E f \in Targets(PidPath[p]) :
             /\ pidfile' = [pidfile EXCEPT ![f] = "empty"]
             /\ opened' = [opened EXCEPT ![p] = f]
             /\ ppc' = [ppc EXCEPT ![p] = "write"]
  <2>1. PICK f \in Targets(PidPath[p]) :
             /\ pidfile' = [pidfile EXCEPT ![f] = "empty"]
             /\ opened' = [opened EXCEPT ![p] = f]
             /\ ppc' = [ppc EXCEPT ![p] = "write"]
    BY <1>3, ZenonT(40)
  <2>2. f \in Paths /\ f # "none"
    BY TargetFacts DEF Paths
  <2>3. TypeOK'
    BY <1>1, <2>1, <2>2, PCFacts DEF TypeOK, Alive, NotAlive
  <2>4. SharedInv'
    BY <1>1, <2>1, <2>2, ProcAssumption DEF TypeOK, SharedInv, Alive, NotAlive, Targets
  <2>5. alone[p] => Progress(p)'
    BY <1>1, <2>1, <2>2 DEF TypeOK, AloneInv, Progress, Bound
  <2> QED BY <1>1, <2>3, <2>4, <2>5, OnlyMe DEF AloneInv
<1> QED BY <1>2, <1>3 DEF OpenPid

LEMMA WritePidIInv == ASSUME IInv, NEW p \in Procs, WritePid(p) PROVE IInv'
<1> USE DEF IInv
<1>1. /\ UNCHANGED <<sock, alone, foreign, dir>> /\ ppc[p] = "write" /\ Alive(p)
      /\ pidfile' = [f \in Paths |-> IF f = opened[p] THEN p ELSE pidfile[f]]
      /\ opened' = [opened EXCEPT ![p] = "none"]
      /\ ppc' = [ppc EXCEPT ![p] = "setup"]
  BY DEF WritePid, Alive, NotAlive
<1>2. TypeOK'
  BY <1>1, PCFacts DEF TypeOK, Alive, NotAlive
<1>3. SharedInv'
  <2>1. \A q \in Procs, f \in Paths : pidfile'[f] = q => f \in Targets(PidPath[q])
    <3> SUFFICES ASSUME NEW q \in Procs, NEW f \in Paths, pidfile'[f] = q
                 PROVE  f \in Targets(PidPath[q])
      OBVIOUS
    <3>1. CASE f = opened[p]
      BY <1>1, <3>1 DEF SharedInv, Paths
    <3>2. CASE f # opened[p]
      BY <1>1, <3>2 DEF SharedInv
    <3> QED BY <3>1, <3>2
  <2>2. \A q \in Procs : opened'[q] # "none" => opened'[q] \in Targets(PidPath[q])
    BY <1>1 DEF SharedInv, TypeOK
  <2>3. \A q \in Procs, r \in Procs : alone[q] /\ r # q => ppc'[r] \in NotAlive
    BY <1>1, OnlyMe DEF SharedInv, Alive, TypeOK
  <2> QED BY <1>1, <2>1, <2>2, <2>3 DEF SharedInv, Alive, Targets
<1>4. alone[p] => Progress(p)'
  <2> SUFFICES ASSUME alone[p] PROVE Progress(p)'
    OBVIOUS
  <2>1. opened[p] \in Targets(PidPath[p]) /\ sock = p
    BY <1>1 DEF AloneInv, Progress, SharedInv, Bound
  <2>2. opened[p] \in Paths
    BY <2>1, TargetFacts
  <2>3. pidfile'[opened[p]] = p
    BY <1>1, <2>2
  <2> QED BY <1>1, <2>1, <2>3, ZenonT(40) DEF TypeOK, Progress, Targets
<1>5. AloneInv'
  BY <1>1, <1>4, OnlyMe DEF AloneInv
<1> QED BY <1>2, <1>3, <1>5

\* daemon_remove_pidfile, of whatever path: types, and every number still where it may be.
\* After main's call for its own path, what is left with the number of p is the local file,
\* and only where the directory of its pid file is missing.
LEMMA RemoveShared ==
  ASSUME IInv, NEW p \in Procs, Alive(p), ppc[p] # "write", NEW path \in Paths, Remove(path),
         UNCHANGED <<sock, alone, foreign, dir>>,
         NEW next \in PPC, ppc' = [ppc EXCEPT ![p] = next],
         next # "stopped", next = "leave" => path = PidPath[p]
  PROVE  TypeOK' /\ SharedInv'
<1> USE DEF IInv
<1>1. PICK f \in Paths :
        /\ f = IF dir[path] = "denied" THEN "local" ELSE path
        /\ pidfile' = [pidfile EXCEPT ![f] = "absent"]
        /\ opened' = [q \in Procs |-> IF opened[q] = f THEN "none" ELSE opened[q]]
  BY ZenonT(40) DEF Remove, Paths
<1>2. TypeOK'
  BY <1>1 DEF TypeOK, Alive, NotAlive
<1>3. \A q \in Procs, g \in Paths : pidfile'[g] = q => g \in Targets(PidPath[q])
  BY <1>1, ProcAssumption DEF TypeOK, SharedInv
<1>4. \A q \in Procs : opened'[q] # "none" => opened'[q] \in Targets(PidPath[q])
  BY <1>1 DEF SharedInv
<1>5. \A q \in Procs, r \in Procs : alone[q] /\ r # q => ppc'[r] \in NotAlive
  BY OnlyMe DEF SharedInv, Alive, TypeOK
<1>6. ASSUME NEW q \in Procs, NEW g \in Paths, ppc'[q] \in {"leave", "stopped"},
             pidfile'[g] = q
      PROVE  g = "local" /\ dir[PidPath[q]] = "missing"
  <2>1. g # f /\ pidfile[g] = q
    BY <1>1, <1>6, ProcAssumption DEF TypeOK
  <2>2. CASE q # p
    BY <1>6, <2>1, <2>2 DEF TypeOK, SharedInv
  <2>3. CASE q = p
    <3>1. path = PidPath[p]
      BY <1>6, <2>3 DEF TypeOK
    <3>2. g = IF dir[PidPath[p]] = "ok" THEN PidPath[p] ELSE "local"
      BY <2>1, <2>3, TargetFacts DEF SharedInv
    <3>3. dir[PidPath[p]] \in {"ok", "missing", "denied"}
      BY TargetFacts, DirAssumption DEF TypeOK
    <3> QED BY <1>1, <2>1, <2>3, <3>1, <3>2, <3>3
  <2> QED BY <2>2, <2>3
<1> QED BY <1>2, <1>3, <1>4, <1>5, <1>6 DEF SharedInv, Alive, Targets

LEMMA RemoveDefaultIInv == ASSUME IInv, NEW p \in Procs, RemoveDefault(p) PROVE IInv'
<1>1. /\ UNCHANGED <<sock, alone, foreign, dir>> /\ ppc[p] = "rm_default" /\ Alive(p)
      /\ Remove("default") /\ ppc' = [ppc EXCEPT ![p] = "rm_own"]
  BY DEF RemoveDefault, Alive, NotAlive
<1>2. "rm_own" \in PPC /\ "default" \in Paths
  BY PCFacts DEF Paths
<1>3. TypeOK' /\ SharedInv'
  BY <1>1, <1>2, RemoveShared, ZenonT(40)
<1>4. Progress(p)'
  BY <1>1 DEF IInv, TypeOK, Progress, Bound
<1> QED BY <1>1, <1>3, <1>4, OnlyMe DEF IInv, AloneInv

LEMMA RemoveOwnIInv == ASSUME IInv, NEW p \in Procs, RemoveOwn(p) PROVE IInv'
<1>1. /\ UNCHANGED <<sock, alone, foreign, dir>> /\ ppc[p] = "rm_own" /\ Alive(p)
      /\ Remove(PidPath[p]) /\ ppc' = [ppc EXCEPT ![p] = "leave"]
  BY DEF RemoveOwn, Alive, NotAlive
<1>2. "leave" \in PPC /\ PidPath[p] \in Paths
  BY PCFacts, TargetFacts DEF IInv
<1>3. TypeOK' /\ SharedInv'
  BY <1>1, <1>2, RemoveShared, ZenonT(40)
<1>4. Progress(p)'
  BY <1>1 DEF IInv, TypeOK, Progress, Bound
<1> QED BY <1>1, <1>3, <1>4, OnlyMe DEF IInv, AloneInv

LEMMA CrashIInv == ASSUME IInv, NEW p \in Procs, Crash(p) PROVE IInv'
<1> USE DEF IInv
<1>1. TypeOK'
  BY PCFacts DEF Crash, TypeOK, Alive, NotAlive
<1>2. SharedInv'
  BY DEF Crash, TypeOK, SharedInv, Alive, NotAlive, Targets
<1>3. Progress(p)'
  BY DEF Crash, TypeOK, Progress, Bound
<1> QED BY <1>1, <1>2, <1>3, OnlyMe DEF Crash, AloneInv

LEMMA ReuseIInv == ASSUME IInv, NEW q \in Procs, Reuse(q) PROVE IInv'
<1> USE DEF IInv
<1>1. TypeOK'
  BY DEF Reuse, TypeOK, Alive
<1>2. SharedInv' /\ AloneInv'
  BY DEF Reuse, SharedInv, AloneInv, Progress, Alive, Targets
<1> QED BY <1>1, <1>2

LEMMA NextIInv == IInv /\ [Next]_vars => IInv'
<1> SUFFICES ASSUME IInv, [Next]_vars PROVE IInv'
  OBVIOUS
<1>1. CASE UNCHANGED vars
  BY <1>1 DEF vars, IInv, TypeOK, SharedInv, AloneInv, Progress, Alive, Targets
<1>2. ASSUME NEW p \in Procs, Step(p) PROVE IInv'
  BY <1>2, StartIInv, SocketIInv, CheckPidIInv, OpenPidIInv, WritePidIInv,
     RemoveDefaultIInv, RemoveOwnIInv, CrashIInv DEF Step
<1> QED BY <1>1, <1>2, ReuseIInv DEF Next

LEMMA Invariance == Spec => []IInv
BY InitIInv, NextIInv, PTL DEF Spec

\* The shared files keep their types, and a pid file is open only inside
\* daemon_create_pidfile.
THEOREM TypeCorrect == Spec => []TypeOK
<1>1. IInv => TypeOK
  BY DEF IInv
<1> QED BY <1>1, Invariance, PTL

\* Whatever crashed processes left, a daemon that starts alone owns the socket path and is
\* named by its pid file once it runs.
THEOREM StartRecovers == Spec => []FreshStartWorks
<1>1. IInv => FreshStartWorks
  BY DEF IInv, AloneInv, Progress, Bound, FreshStartWorks
<1> QED BY <1>1, Invariance, PTL

LEMMA NextRefuses == IInv /\ [Next]_vars => [RefuseStep]_vars
<1> SUFFICES ASSUME IInv, Next, NEW p \in Procs,
                    ppc[p] = "check", ppc'[p] = "refused", alone[p]
             PROVE  \E f \in {PidPath[p], "local"}, q \in {p} \cup foreign :
                      /\ pidfile[f] = q
                      /\ ppc[q] # "stopped" \/ (f = "local" /\ dir[PidPath[q]] = "missing")
  BY DEF RefuseStep
<1> USE DEF IInv
<1>1. CheckPid(p)
  <2>1. PICK q \in Procs : Step(q) \/ Reuse(q)
    BY DEF Next
  <2>2. q = p /\ Step(p)
    BY <2>1 DEF Step, Reuse, Start, IpcUnlink, IpcBind, Prepare, Daemonize, CheckPid, Refused,
                OpenPid, WritePid, Setup, Stop, RemoveDefault, RemoveOwn, Cleanup, Fail, Crash,
                TypeOK
  <2> QED BY <2>2 DEF Step, Start, IpcUnlink, IpcBind, Prepare, Daemonize, Refused, OpenPid,
                      WritePid, Setup, Stop, RemoveDefault, RemoveOwn, Cleanup, Fail, Crash,
                      TypeOK, NotAlive
<1>2. IsRunning(PidPath[p])
  BY <1>1 DEF CheckPid, TypeOK
<1>3. PICK f \in {PidPath[p], "local"}, q \in Procs : pidfile[f] = q /\ Exists(q)
  BY <1>2 DEF IsRunning
<1>4. f \in Paths
  BY <1>3, TargetFacts DEF Paths
<1>5. q \in {p} \cup foreign
  BY <1>3 DEF Exists, SharedInv
<1>6. ppc[q] # "stopped" \/ (f = "local" /\ dir[PidPath[q]] = "missing")
  BY <1>3, <1>4 DEF SharedInv
<1> QED BY <1>3, <1>5, <1>6

\* daemon_is_running refuses a daemon that is alone only for a number some process has,
\* left in a file by a daemon that was not stopped in an orderly way (OnlyLeftoverBlocks).
THEOREM OnlyLeftoversRefuse == Spec => OnlyLeftoverBlocks
BY InitIInv, NextIInv, NextRefuses, PTL DEF Spec, OnlyLeftoverBlocks

\* daemon_shutdown, daemon_remove_pidfile and cleanup leave neither the socket nor a pid
\* file, up to the local file of a missing directory.
THEOREM StopCleansUp == Spec => []OrderlyStopLeavesNothing
<1>1. IInv => OrderlyStopLeavesNothing
  BY DEF IInv, SharedInv, AloneInv, Progress, OrderlyStopLeavesNothing
<1> QED BY <1>1, Invariance, PTL
=============================================================================
