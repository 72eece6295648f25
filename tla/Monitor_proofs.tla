--------------------------- MODULE Monitor_proofs ---------------------------
(***************************************************************************)
(* Proofs about Monitor, for any threads, periods and size of the table.   *)
(***************************************************************************)
EXTENDS Monitor, SequenceTheorems, TLAPS

\* Most leaves are arithmetic, sequences, records and functions and go to SMT; the ones
\* that are plain logic name Zenon.
USE SMTT(40)

-----------------------------------------------------------------------------
(* Types.                                                                  *)

\* A thread that is not there has no sleep to finish, so a new one starts awake.
TimersOff == \A t \in Threads : tpc[t] \in {"unused", "ended"} => timer[t] = 0

Typed == TypeOK /\ TimersOff

LEMMA PCFacts ==
  /\ MainPC = {"idle", "create", "join", "join_close", "close", "pause", "fill", "filled",
               "serving", "exited"}
  /\ ThreadPC = {"unused", "ended", "lost", "test", "stat", "save", "sleep"}
BY DEF MainPC, ThreadPC, Running

LEMMA InsertType ==
  ASSUME TypeOK, NEW v \in Values, InsertRow(v)
  PROVE  /\ rows' \in Seq(Values) /\ Len(rows') <= MaxRows
         /\ Len(rows) <= Len(rows')
         /\ \A k \in 1 .. Len(rows') :
              (k \in 1 .. Len(rows) /\ rows'[k] = rows[k]) \/ rows'[k] = v
<1>1. CASE Len(rows) < MaxRows /\ rows' = Append(rows, v)
  BY <1>1, RowsAssumption DEF TypeOK
<1>2. CASE rows' = rows
  BY <1>2 DEF TypeOK
<1> QED BY <1>1, <1>2 DEF InsertRow

LEMMA MeasuredType == TypeOK => Measured \in Values
BY DEF TypeOK, Measured, Values

LEMMA InitType == Init => Typed
<1> SUFFICES ASSUME Init PROVE TypeOK
  BY ZenonT(40) DEF Init, Typed, TimersOff
<1>1. /\ open \in [Services -> BOOLEAN]
      /\ active \in [Services -> BOOLEAN]
      /\ calm \in BOOLEAN /\ cut \in BOOLEAN /\ forked \in BOOLEAN
  BY ZenonT(40) DEF Init
<1>2. \A t \in Threads : timer[t] <= Period[svc[t]]
  BY PeriodAssumption DEF Init, Services
<1>3. rows \in Seq(Values) /\ Len(rows) <= MaxRows
  BY RowsAssumption DEF Init
<1> QED BY <1>1, <1>2, <1>3, PCFacts DEF Init, TypeOK, Services, Values

\* The main thread's calls.
LEMMA MainType == ASSUME Typed, Main PROVE Typed'
<1> USE PCFacts DEF Typed
<1>1. CASE \E s \in Services : Open(s) \/ Start(s) \/ Stop(s) \/ Cleanup(s)
  BY <1>1, ZenonT(40) DEF Open, Start, Stop, Cleanup, ClearFlag, TypeOK, TimersOff,
     svcVars, threadVars, sampleVars, histVars
<1>2. CASE CreateThread
  <2>1. CASE \E t \in Threads : /\ tpc[t] = "unused"
                               /\ tpc' = [tpc EXCEPT ![t] = "test"]
                               /\ svc' = [svc EXCEPT ![t] = msvc]
                               /\ handle' = [handle EXCEPT ![msvc] = t]
                               /\ UNCHANGED active
    <3>1. PICK t \in Threads : /\ tpc[t] = "unused"
                               /\ tpc' = [tpc EXCEPT ![t] = "test"]
                               /\ svc' = [svc EXCEPT ![t] = msvc]
                               /\ handle' = [handle EXCEPT ![msvc] = t]
                               /\ UNCHANGED active
      BY <2>1, ZenonT(40)
    <3>2. /\ handle' \in [Services -> Threads \cup {NoThread, Dangling}]
          /\ tpc' \in [Threads -> ThreadPC]
          /\ svc' \in [Threads -> Services]
      BY <3>1 DEF TypeOK
    <3>3. \A u \in Threads : timer[u] <= Period[svc'[u]]
      <4>1. timer[t] = 0 /\ svc'[t] = msvc
        BY <3>1 DEF TypeOK, TimersOff
      <4>2. Period[msvc] \in Nat
        BY PeriodAssumption DEF TypeOK
      <4> QED BY <3>1, <4>1, <4>2 DEF TypeOK
    <3>4. TimersOff'
      BY <1>2, <3>1 DEF CreateThread, TypeOK, TimersOff
    <3> QED BY <1>2, <3>1, <3>2, <3>3, <3>4 DEF CreateThread, TypeOK, sampleVars, histVars
  <2>2. CASE /\ active' = [active EXCEPT ![msvc] = FALSE]
             /\ \E h \in {handle[msvc], Dangling} : handle' = [handle EXCEPT ![msvc] = h]
             /\ UNCHANGED <<tpc, svc>>
    BY <1>2, <2>2 DEF CreateThread, TypeOK, TimersOff, sampleVars, histVars
  <2> QED BY <1>2, <2>1, <2>2 DEF CreateThread
<1>3. CASE Join \/ Close \/ Resume
  BY <1>3, ZenonT(40) DEF Join, Close, Resume, TypeOK, TimersOff, svcVars, threadVars,
     sampleVars, histVars
<1>4. CASE Serve
  <2>1. forked' \in BOOLEAN /\ tpc' \in [Threads -> ThreadPC] /\ TimersOff'
    BY <1>4 DEF Serve, TypeOK, TimersOff
  <2> QED BY <1>4, <2>1 DEF Serve, TypeOK, svcVars, sampleVars, histVars
<1>5. CASE SampleOnce
  BY <1>5, InsertType, MeasuredType
     DEF SampleOnce, TypeOK, TimersOff, svcVars, threadVars, histVars
<1>6. CASE CountRows \/ FillEntries \/ FreeHistory
  <2>1. calm' \in BOOLEAN
    BY <1>6, ZenonT(40) DEF CountRows, FillEntries, FreeHistory, TypeOK
  <2>2. hist' \in [count : Nat, filled : Nat]
    <3>1. Len(rows) \in Nat /\ hist \in [count : Nat, filled : Nat]
      BY DEF TypeOK
    <3>2. CASE CountRows
      BY <3>1, <3>2 DEF CountRows
    <3>3. CASE FillEntries
      BY <3>1, <3>3 DEF FillEntries
    <3>4. CASE FreeHistory
      BY <3>4 DEF FreeHistory
    <3> QED BY <1>6, <3>2, <3>3, <3>4
  <2> QED BY <1>6, <2>1, <2>2
          DEF CountRows, FillEntries, FreeHistory, TypeOK, TimersOff, svcVars, threadVars,
              sampleVars
<1> QED BY <1>1, <1>2, <1>3, <1>4, <1>5, <1>6 DEF Main, Returning

LEMMA SleepType ==
  ASSUME Typed, NEW t \in Threads, GoToSleep(t), svc' = svc
  PROVE  /\ tpc' \in [Threads -> ThreadPC]
         /\ timer' \in [Threads -> Nat]
         /\ \A u \in Threads : timer'[u] <= Period[svc'[u]]
         /\ TimersOff'
<1>1. Period[svc[t]] \in Nat
  BY PeriodAssumption DEF Typed, TypeOK
<1> QED BY <1>1, PCFacts DEF Typed, TypeOK, GoToSleep, TimersOff

LEMMA ThreadType ==
  ASSUME Typed, NEW t \in Threads, Thread(t) \/ Interrupted(t)
  PROVE  Typed'
<1> USE PCFacts DEF Typed
<1>0. Period[svc[t]] \in Nat
  BY PeriodAssumption DEF TypeOK
<1>1. CASE ThreadTest(t)
  <2>1. tpc' \in [Threads -> ThreadPC]
    BY <1>1 DEF ThreadTest, TypeOK, Services
  <2>2. /\ timer' \in [Threads -> Nat]
        /\ \A u \in Threads : timer'[u] <= Period[svc'[u]]
    BY <1>0, <1>1 DEF ThreadTest, TypeOK
  <2>3. TimersOff'
    BY <1>1 DEF ThreadTest, TypeOK, TimersOff, Services
  <2> QED BY <1>1, <2>1, <2>2, <2>3, ZenonT(40)
          DEF ThreadTest, TypeOK, mainVars, svcVars, sampleVars, histVars
<1>2. CASE TakeSample(t)
  <2>1. CASE GoToSleep(t) /\ UNCHANGED sampleVars
    BY <1>2, <2>1, SleepType DEF TakeSample, TypeOK, mainVars, svcVars, sampleVars, histVars
  <2>2. CASE /\ sample' = [sample EXCEPT ![t] = Measured]
             /\ prev' = "now"
             /\ tpc' = [tpc EXCEPT ![t] = "save"]
             /\ UNCHANGED timer
    BY <1>2, <2>2, MeasuredType DEF TakeSample, TypeOK, TimersOff, mainVars, svcVars, histVars
  <2> QED BY <1>2, <2>1, <2>2 DEF TakeSample
<1>3. CASE SaveSample(t)
  <2>1. /\ sample[t] \in Values
        /\ sample' \in [Threads -> Values]
    BY <1>3 DEF SaveSample, TypeOK, Values
  <2> QED BY <1>3, <2>1, InsertType, SleepType
          DEF SaveSample, TypeOK, mainVars, svcVars, histVars
<1>4. CASE WakeUp(t)
  BY <1>4 DEF WakeUp, TypeOK, TimersOff, mainVars, svcVars, sampleVars, histVars
<1>5. CASE Interrupted(t)
  <2>1. /\ timer' \in [Threads -> Nat]
        /\ \A u \in Threads : timer'[u] <= Period[svc'[u]]
    BY <1>0, <1>5 DEF Interrupted, TypeOK
  <2> QED BY <1>5, <2>1
          DEF Interrupted, TypeOK, TimersOff, mainVars, svcVars, sampleVars, histVars
<1> QED BY <1>1, <1>2, <1>3, <1>4, <1>5 DEF Thread

LEMMA OtherType ==
  ASSUME Typed, Tick \/ DeleteOldRows \/ InsertElsewhere \/ UNCHANGED vars
  PROVE  Typed'
<1> USE DEF Typed
<1>1. CASE Tick
  <2>1. /\ timer' \in [Threads -> Nat]
        /\ \A u \in Threads : timer'[u] <= timer[u]
    BY <1>1 DEF Tick, TypeOK
  <2>2. \A u \in Threads : Period[svc[u]] \in Nat
    BY PeriodAssumption DEF TypeOK
  <2>3. \A u \in Threads : timer'[u] <= Period[svc'[u]]
    BY <1>1, <2>1, <2>2 DEF Tick, TypeOK
  <2>4. TimersOff'
    BY <1>1 DEF Tick, TypeOK, TimersOff
  <2> QED BY <1>1, <2>1, <2>3, <2>4 DEF Tick, TypeOK, mainVars, svcVars, histVars
<1>2. CASE DeleteOldRows
  <2>1. rows' \in Seq(Values) /\ Len(rows') <= MaxRows
    BY <1>2, RowsAssumption DEF DeleteOldRows, TypeOK
  <2> QED BY <1>2, <2>1, ZenonT(40)
          DEF DeleteOldRows, TypeOK, TimersOff, mainVars, svcVars, threadVars, sampleVars
<1>3. CASE InsertElsewhere
  <2>1. "rate" \in Values
    BY DEF Values
  <2> QED BY <1>3, <2>1, InsertType
          DEF InsertElsewhere, TypeOK, TimersOff, mainVars, svcVars, threadVars, sampleVars,
              histVars
<1>4. CASE UNCHANGED vars
  BY <1>4 DEF TypeOK, TimersOff, vars, mainVars, svcVars, threadVars, sampleVars, histVars
<1> QED BY <1>1, <1>2, <1>3, <1>4

LEMMA NextType == Typed /\ [Next]_vars => Typed'
BY MainType, ThreadType, OtherType DEF Next

LEMMA TypeInvariant == Spec => []Typed
BY InitType, NextType, PTL DEF Spec

\* The statics of monitor.c and backup_engine.c keep their types, and no thread sleeps for
\* longer than the period of its service.
THEOREM TypeCorrect == Spec => []TypeOK
<1>1. Typed => TypeOK
  BY DEF Typed
<1> QED BY <1>1, TypeInvariant, PTL

-----------------------------------------------------------------------------
(* Every thread is accounted for.                                          *)

\* What the main thread knows of the service it works on.
ServiceInv ==
  /\ ThreadsAccounted
  /\ mpc \in {"join", "join_close", "close"} => ~active[msvc]
  /\ mpc = "create" => /\ open[msvc] /\ active[msvc]
                       /\ \A t \in Threads : tpc[t] \in Running => svc[t] # msvc

LEMMA InitService == Init => ServiceInv
BY DEF Init, ServiceInv, ThreadsAccounted, Running

\* Outside a stop a service that is not active has no thread.
LEMMA InactiveHasNone ==
  ASSUME ServiceInv, NEW t \in Threads, tpc[t] \in Running,
         mpc \notin {"join", "join_close"}
  PROVE  active[svc[t]]
BY DEF ServiceInv, ThreadsAccounted

LEMMA CallService ==
  ASSUME Typed, ServiceInv, NEW s \in Services,
         Open(s) \/ Start(s) \/ Stop(s) \/ Cleanup(s)
  PROVE  ServiceInv'
<1> USE DEF Typed
<1>1. CASE Open(s)
  BY <1>1, ZenonT(40) DEF Open, TypeOK, ServiceInv, ThreadsAccounted, threadVars
<1>2. CASE Start(s)
  BY <1>2, InactiveHasNone DEF Start, TypeOK, ServiceInv, ThreadsAccounted, threadVars
<1>3. CASE \E next \in {"join", "join_close"} : ClearFlag(s, next)
  BY <1>3 DEF ClearFlag, TypeOK, ServiceInv, ThreadsAccounted, threadVars
<1>4. CASE /\ mpc = "idle" /\ ~active[s] /\ mpc' = "close" /\ msvc' = s
           /\ UNCHANGED <<svcVars, threadVars>>
  BY <1>4 DEF ServiceInv, ThreadsAccounted, threadVars, svcVars
<1> QED BY <1>1, <1>2, <1>3, <1>4 DEF Stop, Cleanup

LEMMA CreateService == ASSUME Typed, ServiceInv, CreateThread PROVE ServiceInv'
<1> USE DEF Typed
<1>1. mpc = "create" /\ mpc' = "idle" /\ msvc' = msvc /\ open' = open
  BY DEF CreateThread
<1>2. CASE \E t \in Threads : /\ tpc[t] = "unused"
                              /\ tpc' = [tpc EXCEPT ![t] = "test"]
                              /\ svc' = [svc EXCEPT ![t] = msvc]
                              /\ handle' = [handle EXCEPT ![msvc] = t]
                              /\ UNCHANGED active
  <2>1. PICK t \in Threads : /\ tpc[t] = "unused"
                             /\ tpc' = [tpc EXCEPT ![t] = "test"]
                             /\ svc' = [svc EXCEPT ![t] = msvc]
                             /\ handle' = [handle EXCEPT ![msvc] = t]
                             /\ UNCHANGED active
    BY <1>2, ZenonT(40)
  <2> SUFFICES ASSUME NEW u \in Threads, tpc'[u] \in Running
               PROVE  handle'[svc'[u]] = u /\ active'[svc'[u]] /\ open'[svc'[u]]
    BY <1>1 DEF ServiceInv, ThreadsAccounted
  <2>2. CASE u = t
    BY <1>1, <2>1, <2>2 DEF TypeOK, ServiceInv
  <2>3. CASE u # t
    <3>1. svc'[u] = svc[u] /\ tpc'[u] = tpc[u] /\ svc[u] # msvc
      BY <1>1, <2>1, <2>3 DEF TypeOK, ServiceInv
    <3> QED BY <1>1, <2>1, <3>1 DEF TypeOK, ServiceInv, ThreadsAccounted
  <2> QED BY <2>2, <2>3
<1>3. CASE /\ active' = [active EXCEPT ![msvc] = FALSE]
           /\ \E h \in {handle[msvc], Dangling} : handle' = [handle EXCEPT ![msvc] = h]
           /\ UNCHANGED <<tpc, svc>>
  BY <1>1, <1>3 DEF TypeOK, ServiceInv, ThreadsAccounted
<1> QED BY <1>2, <1>3 DEF CreateThread

\* pthread_join returns for the one thread the service has, and the connection is closed
\* when it has none.
LEMMA JoinService == ASSUME Typed, ServiceInv, Join PROVE ServiceInv'
<1> USE DEF Typed
<1>1. /\ mpc \in {"join", "join_close"} /\ mpc' \in {"idle", "close"}
      /\ UNCHANGED <<msvc, open, active, svc>>
      /\ handle' = [handle EXCEPT ![msvc] = NoThread]
  BY DEF Join
<1>2. ~active[msvc]
  BY <1>1 DEF ServiceInv
<1>3. ASSUME NEW u \in Threads, tpc'[u] \in Running
      PROVE  tpc[u] = tpc'[u] /\ svc[u] # msvc
  <2>1. CASE \E t \in Threads : /\ handle[msvc] = t
                                /\ tpc[t] = "ended"
                                /\ tpc' = [tpc EXCEPT ![t] = "unused"]
    BY <1>3, <2>1 DEF TypeOK, ServiceInv, ThreadsAccounted, Running
  <2>2. CASE handle[msvc] = NoThread /\ tpc' = tpc
    BY <1>3, <2>2, ThreadAssumption DEF TypeOK, ServiceInv, ThreadsAccounted
  <2> QED BY <2>1, <2>2 DEF Join
<1>4. ThreadsAccounted'
  BY <1>1, <1>3 DEF TypeOK, ServiceInv, ThreadsAccounted
<1> QED BY <1>1, <1>2, <1>4 DEF ServiceInv

LEMMA CloseService == ASSUME Typed, ServiceInv, Close PROVE ServiceInv'
<1>1. \A t \in Threads : tpc[t] \in Running => svc[t] # msvc
  BY InactiveHasNone DEF Close, ServiceInv
<1> QED BY <1>1 DEF Close, Typed, TypeOK, ServiceInv, ThreadsAccounted, threadVars

LEMMA RestService ==
  ASSUME Typed, ServiceInv,
         \/ Serve \/ SampleOnce \/ CountRows \/ Resume \/ FillEntries \/ FreeHistory
         \/ Tick \/ DeleteOldRows \/ InsertElsewhere \/ UNCHANGED vars
         \/ \E t \in Threads : Thread(t) \/ Interrupted(t)
  PROVE  ServiceInv'
<1> USE DEF Typed
<1>1. UNCHANGED <<open, active, handle, svc, msvc>>
  BY DEF Serve, SampleOnce, CountRows, Resume, FillEntries, FreeHistory, Tick,
         DeleteOldRows, InsertElsewhere, vars, Thread, ThreadTest, TakeSample, SaveSample,
         WakeUp, Interrupted, mainVars, svcVars, threadVars
<1>2. \/ mpc' = mpc
      \/ mpc \notin {"join", "join_close"} /\ mpc' \notin {"create", "join", "join_close", "close"}
  BY DEF Serve, SampleOnce, CountRows, Resume, FillEntries, FreeHistory, Tick,
         DeleteOldRows, InsertElsewhere, vars, Thread, ThreadTest, TakeSample, SaveSample,
         WakeUp, Interrupted, mainVars
<1>3. \A u \in Threads : tpc'[u] \in Running => tpc[u] \in Running
  <2>1. CASE Serve
    BY <2>1 DEF Serve, TypeOK, Running
  <2>2. CASE \E t \in Threads : Thread(t) \/ Interrupted(t)
    BY <2>2 DEF Thread, ThreadTest, TakeSample, SaveSample, WakeUp, Interrupted, GoToSleep,
       TypeOK, Running
  <2>3. CASE tpc' = tpc
    BY <2>3
  <2> QED BY <2>1, <2>2, <2>3
          DEF SampleOnce, CountRows, Resume, FillEntries, FreeHistory, Tick,
              DeleteOldRows, InsertElsewhere, vars, threadVars
<1> QED BY <1>1, <1>2, <1>3 DEF ServiceInv, ThreadsAccounted

LEMMA NextService == Typed /\ ServiceInv /\ [Next]_vars => ServiceInv'
BY CallService, CreateService, JoinService, CloseService, RestService
   DEF Next, Main, Returning

LEMMA ServiceInvariant == Spec => []ServiceInv
BY TypeInvariant, InitService, NextService, PTL DEF Spec

\* For any threads and periods: a thread of the library runs only while its service holds
\* its handle, is active or being joined, and has its database open.
THEOREM NoStrayThread == Spec => []ThreadsAccounted
<1>1. ServiceInv => ThreadsAccounted
  BY DEF ServiceInv
<1> QED BY <1>1, ServiceInvariant, PTL

-----------------------------------------------------------------------------
(* No row holds memory that nobody wrote.                                  *)

\* A thread that will not sample again within this second.
Spent(t) ==
  /\ svc[t] = "monitor"
  /\ \/ tpc[t] = "save"
     \/ tpc[t] = "sleep" /\ timer[t] > 0

\* Only the thread of the monitor is inside the sampling code; after a fork no thread is.
PlaceInv ==
  /\ \A t \in Threads : tpc[t] \in {"stat", "save"} => svc[t] = "monitor"
  /\ forked => mpc = "serving" /\ \A t \in Threads : tpc[t] \notin Running
  /\ mpc = "pause" => ~active["monitor"]

\* The second of the last sample is not over: whoever took it is still busy with it,
\* asleep, or gone for good.
FreshInv ==
  ~cut =>
    /\ prev = "now" => mpc = "pause" \/ forked \/ \E t \in Threads : Spent(t)
    /\ \A t \in Threads : tpc[t] = "save" => sample[t] # "unwritten"
    /\ \A k \in 1 .. Len(rows) : rows[k] # "unwritten"

SampleInv == PlaceInv /\ FreshInv

LEMMA InitSample == Init => SampleInv
BY DEF Init, SampleInv, PlaceInv, FreshInv, Running

LEMMA OneMonitorThread ==
  ASSUME ServiceInv, NEW t \in Threads, NEW u \in Threads,
         tpc[t] \in Running, tpc[u] \in Running, svc[t] = svc[u]
  PROVE  t = u
BY DEF ServiceInv, ThreadsAccounted

LEMMA TakeSampleSample ==
  ASSUME Typed, ServiceInv, SampleInv, NEW t \in Threads, TakeSample(t)
  PROVE  SampleInv'
<1> USE DEF Typed
<1>1. /\ tpc[t] = "stat" /\ svc[t] = "monitor" /\ t \in Threads
      /\ UNCHANGED <<mpc, msvc, active, svc, rows, cut, forked>>
  BY DEF TakeSample, SampleInv, PlaceInv, mainVars, svcVars
<1>2. ~forked /\ mpc # "pause"
  <2>1. tpc[t] \in Running
    BY <1>1 DEF Running
  <2>2. ~forked
    BY <2>1 DEF SampleInv, PlaceInv
  <2>3. mpc # "pause"
    BY <1>1, <2>1, InactiveHasNone DEF SampleInv, PlaceInv
  <2> QED BY <2>2, <2>3
<1>3. ~cut => prev # "now"
  <2> SUFFICES ASSUME ~cut, NEW u \in Threads, Spent(u) PROVE FALSE
    BY <1>2 DEF SampleInv, FreshInv
  <2>1. svc[u] = svc[t] /\ tpc[u] \in Running /\ tpc[t] \in Running
    BY <1>1 DEF Spent, Running
  <2>2. u = t
    BY <2>1, OneMonitorThread
  <2> QED BY <1>1, <2>2 DEF Spent
<1>4. CASE /\ sample' = [sample EXCEPT ![t] = Measured]
           /\ prev' = "now"
           /\ tpc' = [tpc EXCEPT ![t] = "save"]
           /\ UNCHANGED timer
  <2>1. PlaceInv'
    BY <1>1, <1>2, <1>4 DEF TypeOK, SampleInv, PlaceInv
  <2>2. Spent(t)'
    BY <1>1, <1>4 DEF TypeOK, Spent
  <2>3. ~cut => Measured # "unwritten"
    BY <1>3 DEF Measured, TypeOK
  <2> QED BY <1>1, <1>4, <2>1, <2>2, <2>3 DEF TypeOK, SampleInv, FreshInv
<1>5. CASE GoToSleep(t) /\ UNCHANGED sampleVars
  <2>1. PlaceInv'
    BY <1>1, <1>2, <1>5 DEF GoToSleep, TypeOK, SampleInv, PlaceInv
  <2> QED BY <1>1, <1>3, <1>5, <2>1 DEF GoToSleep, sampleVars, TypeOK, SampleInv, FreshInv
<1> QED BY <1>4, <1>5 DEF TakeSample

LEMMA SaveSampleSample ==
  ASSUME Typed, ServiceInv, SampleInv, NEW t \in Threads, SaveSample(t)
  PROVE  SampleInv'
<1> USE DEF Typed
<1>1. /\ tpc[t] = "save" /\ svc[t] = "monitor" /\ sample[t] \in Values
      /\ UNCHANGED <<mpc, active, svc, prev, cut, forked>>
      /\ sample' = [sample EXCEPT ![t] = "unwritten"]
  BY DEF SaveSample, SampleInv, PlaceInv, TypeOK, mainVars, svcVars
<1>2. tpc' = [tpc EXCEPT ![t] = "sleep"] /\ timer' = [timer EXCEPT ![t] = Period["monitor"]]
  BY <1>1 DEF SaveSample, GoToSleep
<1>3. Period["monitor"] \in Nat \ {0}
  BY PeriodAssumption DEF Services
<1>4. PlaceInv'
  BY <1>1, <1>2 DEF TypeOK, SampleInv, PlaceInv, Running
<1>5. Spent(t)'
  BY <1>1, <1>2, <1>3 DEF TypeOK, Spent
<1>6. ~cut => \A k \in 1 .. Len(rows') : rows'[k] # "unwritten"
  BY <1>1, InsertType DEF SaveSample, SampleInv, FreshInv
<1>7. ~cut => \A u \in Threads : tpc'[u] = "save" => sample'[u] # "unwritten"
  BY <1>1, <1>2 DEF TypeOK, SampleInv, FreshInv
<1> QED BY <1>1, <1>4, <1>5, <1>6, <1>7 DEF SampleInv, FreshInv

\* The main thread samples only when the monitor has no thread.
LEMMA SampleOnceSample ==
  ASSUME Typed, ServiceInv, SampleInv, SampleOnce
  PROVE  SampleInv'
<1> USE DEF Typed
<1>1. /\ mpc = "idle" /\ mpc' = "pause" /\ ~active["monitor"] /\ prev' = "now"
      /\ UNCHANGED <<active, tpc, svc, timer, sample, cut, forked>>
  BY DEF SampleOnce, svcVars, threadVars
<1>2. ~cut => prev # "now"
  <2> SUFFICES ASSUME ~cut, NEW u \in Threads, Spent(u) PROVE FALSE
    BY <1>1 DEF SampleInv, PlaceInv, FreshInv
  <2> QED BY <1>1, InactiveHasNone DEF Spent, Running
<1>3. ~cut => Measured # "unwritten"
  BY <1>2 DEF Measured, TypeOK
<1>4. ~cut => \A k \in 1 .. Len(rows') : rows'[k] # "unwritten"
  BY <1>3, InsertType, MeasuredType DEF SampleOnce, SampleInv, FreshInv
<1> QED BY <1>1, <1>4 DEF SampleInv, PlaceInv, FreshInv

\* Steps that take no sample and save none keep whoever took the last one where it is.
LEMMA KeepsFresh ==
  ASSUME FreshInv, UNCHANGED <<prev, sample, rows, cut>>,
         mpc = "pause" => mpc' = "pause" \/ prev # "now",
         forked => forked',
         \A t \in Threads : Spent(t) => Spent(t)' \/ forked',
         \A t \in Threads : tpc'[t] = "save" => tpc[t] = "save"
  PROVE  FreshInv'
BY DEF FreshInv

LEMMA MainSample ==
  ASSUME Typed, ServiceInv, SampleInv, Main, ~SampleOnce
  PROVE  SampleInv'
<1> USE DEF Typed, SampleInv
<1>0. UNCHANGED <<prev, sample, rows, cut>>
  BY DEF Main, Returning, Open, Start, Stop, Cleanup, ClearFlag, CreateThread, Join, Close,
         Serve, Resume, CountRows, FillEntries, FreeHistory, sampleVars
<1>1. CASE \/ \E s \in Services : Open(s) \/ Start(s) \/ Stop(s) \/ Cleanup(s)
           \/ Close \/ Resume \/ CountRows \/ FillEntries \/ FreeHistory
  <2>1. /\ UNCHANGED <<tpc, svc, timer, forked>>
        /\ mpc # "serving" /\ mpc' # "pause"
        /\ mpc = "pause" => prev # "now"
    BY <1>1 DEF Open, Start, Stop, Cleanup, ClearFlag, Close, Resume, CountRows, FillEntries,
       FreeHistory, threadVars
  <2>2. PlaceInv'
    BY <2>1 DEF PlaceInv
  <2> QED BY <1>0, <2>1, <2>2, KeepsFresh DEF Spent
<1>2. CASE CreateThread
  <2>1. mpc = "create" /\ mpc' = "idle" /\ UNCHANGED <<timer, forked>>
    BY <1>2 DEF CreateThread
  <2>2. \A t \in Threads : \/ UNCHANGED <<tpc[t], svc[t]>>
                           \/ tpc[t] = "unused" /\ tpc'[t] = "test"
    BY <1>2 DEF CreateThread, TypeOK
  <2>3. PlaceInv'
    BY <2>1, <2>2 DEF PlaceInv
  <2> QED BY <1>0, <2>1, <2>2, <2>3, KeepsFresh DEF Spent
<1>3. CASE Join
  <2>1. mpc \in {"join", "join_close"} /\ mpc' \in {"idle", "close"} /\ UNCHANGED <<svc, timer, forked>>
    BY <1>3 DEF Join
  <2>2. \A t \in Threads : \/ tpc'[t] = tpc[t]
                           \/ tpc[t] = "ended" /\ tpc'[t] = "unused"
    BY <1>3 DEF Join, TypeOK
  <2>3. PlaceInv'
    BY <2>1, <2>2 DEF PlaceInv
  <2> QED BY <1>0, <2>1, <2>2, <2>3, KeepsFresh DEF Spent
<1>4. CASE Serve
  <2>1. /\ mpc = "idle" /\ mpc' = "serving" /\ ~forked
        /\ UNCHANGED <<svc, timer>>
    BY <1>4 DEF Serve, PlaceInv
  <2>2. \A t \in Threads : \/ ~forked' /\ tpc'[t] = tpc[t]
                           \/ forked' /\ tpc'[t] \in {"unused", "lost"}
    BY <1>4 DEF Serve, TypeOK
  <2>3. PlaceInv'
    BY <2>1, <2>2 DEF PlaceInv, Running
  <2> QED BY <1>0, <2>1, <2>2, <2>3, KeepsFresh DEF Spent
<1> QED BY <1>1, <1>2, <1>3, <1>4 DEF Main, Returning

LEMMA ThreadSample ==
  ASSUME Typed, ServiceInv, SampleInv, NEW t \in Threads,
         ThreadTest(t) \/ WakeUp(t) \/ Interrupted(t)
  PROVE  SampleInv'
<1> USE DEF Typed, SampleInv
<1>1. /\ UNCHANGED <<mpc, active, svc, prev, sample, rows, forked>>
      /\ tpc[t] \in {"test", "sleep"}
      /\ \A u \in Threads : u # t => tpc'[u] = tpc[u] /\ timer'[u] = timer[u]
  BY DEF ThreadTest, WakeUp, Interrupted, TypeOK, mainVars, svcVars, sampleVars
<1>2. tpc'[t] = "stat" => svc[t] = "monitor"
  BY DEF ThreadTest, WakeUp, Interrupted, TypeOK, Services
<1>3. tpc'[t] # "save" /\ tpc[t] \in Running
  BY <1>1 DEF ThreadTest, WakeUp, Interrupted, TypeOK, Services, Running
<1>4. PlaceInv'
  BY <1>1, <1>2, <1>3 DEF PlaceInv
<1>5. CASE Interrupted(t)
  BY <1>4, <1>5 DEF Interrupted, FreshInv
<1>6. CASE ThreadTest(t) \/ WakeUp(t)
  <2>1. ~Spent(t) /\ cut' = cut
    BY <1>6 DEF ThreadTest, WakeUp, Spent, TypeOK
  <2> QED BY <1>1, <1>3, <1>4, <2>1, KeepsFresh DEF Spent
<1> QED BY <1>5, <1>6

LEMMA RestSample ==
  ASSUME Typed, SampleInv, Tick \/ DeleteOldRows \/ InsertElsewhere \/ UNCHANGED vars
  PROVE  SampleInv'
<1> USE DEF Typed, SampleInv
<1>1. UNCHANGED <<mpc, active, tpc, svc, sample, cut, forked>>
  BY DEF Tick, DeleteOldRows, InsertElsewhere, vars, mainVars, svcVars, threadVars, sampleVars
<1>2. PlaceInv'
  BY <1>1 DEF PlaceInv
<1>3. CASE Tick
  BY <1>1, <1>2, <1>3 DEF Tick, FreshInv
<1>4. CASE DeleteOldRows \/ InsertElsewhere \/ UNCHANGED vars
  <2>1. UNCHANGED <<prev, timer>>
    BY <1>4 DEF DeleteOldRows, InsertElsewhere, vars, threadVars, sampleVars
  <2>2. ~cut => \A k \in 1 .. Len(rows') : rows'[k] # "unwritten"
    <3>1. CASE DeleteOldRows
      BY <3>1 DEF DeleteOldRows, TypeOK, FreshInv
    <3>2. CASE InsertElsewhere
      BY <3>2, InsertType DEF InsertElsewhere, FreshInv, Values
    <3>3. CASE UNCHANGED vars
      BY <3>3 DEF vars, FreshInv
    <3> QED BY <1>4, <3>1, <3>2, <3>3
  <2> QED BY <1>1, <1>2, <2>1, <2>2 DEF FreshInv, Spent
<1> QED BY <1>3, <1>4

LEMMA NextSample == Typed /\ ServiceInv /\ SampleInv /\ [Next]_vars => SampleInv'
BY TakeSampleSample, SaveSampleSample, SampleOnceSample, MainSample, ThreadSample, RestSample
   DEF Next, Thread

\* Unless a signal cuts a sleep short, no row of performance_history holds memory that
\* monitor_get_current_performance did not write, for any periods of at least a second.
THEOREM RowsAreWritten == Spec => []RowsWritten
<1>1. SampleInv => RowsWritten
  BY DEF SampleInv, FreshInv, RowsWritten
<1> QED BY <1>1, TypeInvariant, ServiceInvariant, InitSample, NextSample, PTL DEF Spec
-----------------------------------------------------------------------------
(* The two passes of monitor_get_history.                                  *)

\* Between the passes nothing is filled, and no row that was counted is missing.
HistoryInv ==
  /\ mpc = "fill" => hist.filled = 0 /\ (calm => hist.count <= Len(rows))
  /\ HistoryFits

LEMMA NextHistory == Typed /\ HistoryInv /\ [Next]_vars => HistoryInv'
<1> SUFFICES ASSUME Typed, HistoryInv, [Next]_vars PROVE HistoryInv'
  OBVIOUS
<1> USE DEF Typed
<1>0. Len(rows) \in Nat /\ hist \in [count : Nat, filled : Nat]
  BY DEF TypeOK
<1>1. CASE CountRows
  BY <1>0, <1>1 DEF CountRows, HistoryInv, HistoryFits
<1>2. CASE FillEntries
  <2>1. CASE calm' = FALSE /\ UNCHANGED hist
    BY <1>0, <1>2, <2>1 DEF FillEntries, HistoryInv, HistoryFits
  <2>2. CASE /\ hist' = [hist EXCEPT !.filled = IF Len(rows) < hist.count THEN Len(rows)
                                                                    ELSE hist.count]
             /\ UNCHANGED calm
    <3>1. /\ hist'.count = hist.count
          /\ hist'.filled = IF Len(rows) < hist.count THEN Len(rows) ELSE hist.count
      BY <1>0, <2>2
    <3>2. hist.count \in Nat /\ mpc = "fill" /\ mpc' = "filled"
      BY <1>0, <1>2 DEF FillEntries
    <3> QED BY <1>0, <2>2, <3>1, <3>2 DEF HistoryInv, HistoryFits
  <2> QED BY <1>2, <2>1, <2>2, ZenonT(40) DEF FillEntries
<1>3. CASE /\ mpc' \notin {"fill", "filled"}
  BY <1>3 DEF HistoryInv, HistoryFits
<1>4. CASE UNCHANGED <<mpc, hist, calm>> /\ Len(rows') \in Nat /\ Len(rows) <= Len(rows')
  BY <1>0, <1>4 DEF HistoryInv, HistoryFits
<1>5. CASE DeleteOldRows
  BY <1>5 DEF DeleteOldRows, mainVars, HistoryInv, HistoryFits
<1>6. CASE InsertElsewhere \/ \E t \in Threads : SaveSample(t)
  <2>1. PICK v \in Values : InsertRow(v)
    BY <1>6 DEF InsertElsewhere, SaveSample, Values, TypeOK
  <2>2. Len(rows') \in Nat /\ Len(rows) <= Len(rows')
    BY <2>1, InsertType
  <2> QED BY <1>4, <1>6, <2>2 DEF InsertElsewhere, SaveSample, mainVars, histVars
<1>7. CASE Tick \/ UNCHANGED vars \/ \E t \in Threads : ThreadTest(t) \/ TakeSample(t)
                                                        \/ WakeUp(t) \/ Interrupted(t)
  <2>1. UNCHANGED <<mpc, hist, calm, rows>>
    BY <1>7 DEF Tick, vars, ThreadTest, TakeSample, WakeUp, Interrupted, mainVars, histVars
  <2> QED BY <1>0, <1>4, <2>1
<1>8. CASE Main /\ ~CountRows /\ ~FillEntries
  <2>1. mpc' \notin {"fill", "filled"}
    BY <1>8 DEF Main, Returning, Open, Start, Stop, Cleanup, ClearFlag, CreateThread, Join,
       Close, Serve, SampleOnce, Resume, FreeHistory
  <2> QED BY <1>3, <2>1
<1> QED BY <1>1, <1>2, <1>5, <1>6, <1>7, <1>8 DEF Next, Thread

\* The second pass of monitor_get_history stays within what the first one allocated, for
\* any table and whatever is inserted or deleted in between.
THEOREM HistoryStaysInside == Spec => []HistoryFits
<1>1. Init => HistoryInv
  BY DEF Init, HistoryInv, HistoryFits
<1>2. HistoryInv => HistoryFits
  BY DEF HistoryInv
<1> QED BY <1>1, <1>2, TypeInvariant, NextHistory, PTL DEF Spec
=============================================================================
