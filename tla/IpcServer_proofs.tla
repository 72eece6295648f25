-------------------------- MODULE IpcServer_proofs --------------------------
(***************************************************************************)
(* Proofs about IpcServer, for any number of clients, slots and waiting    *)
(* connections.                                                            *)
(***************************************************************************)
EXTENDS IpcServer, FiniteSetTheorems, TLAPS

\* Most leaves are arithmetic, sequences, records and functions and go to SMT; the ones
\* that are plain logic name Zenon.
USE SMTT(40)

\* Where the IPC thread is restricts what it knows: select() was called on held
\* connections only, and server_fd stays readable until the thread itself accepts.
LoopInv ==
  /\ accept_ready => run_pc = "accept" /\ backlog # << >>
  /\ run_pc = "accept" => read_fds \subseteq FdSet /\ \A c \in read_fds : Readable(c)
  /\ main_pc = "down" => run_pc = "exited"

\* A client that has not connected has a fresh socket.
IdleInv == \A c \in Clients : cpc[c] = "idle" => ~hung[c]

IInv == TypeOK /\ NumClientsExact /\ HeldOnce /\ ReadNeverBlocks /\ LoopInv /\ IdleInv

-----------------------------------------------------------------------------
(* Lemmas about the queue of waiting connections.                          *)

Elems(q) == {q[j] : j \in DOMAIN q}
Distinct(q) == \A j, l \in DOMAIN q : q[j] = q[l] => j = l

\* A connection that was not waiting is put at the end of the queue.
LEMMA AppendFacts ==
  ASSUME NEW C, NEW q \in Seq(C), NEW c \in C, Distinct(q), c \notin Elems(q)
  PROVE  /\ Append(q, c) \in Seq(C)
         /\ Elems(Append(q, c)) = Elems(q) \cup {c}
         /\ Distinct(Append(q, c))
<1>1. /\ Append(q, c) \in Seq(C)
      /\ Len(Append(q, c)) = Len(q) + 1
      /\ \A j \in 1 .. Len(q) : Append(q, c)[j] = q[j]
      /\ Append(q, c)[Len(q) + 1] = c
  OBVIOUS
<1>2. DOMAIN q = 1 .. Len(q) /\ DOMAIN Append(q, c) = 1 .. Len(q) + 1 /\ Len(q) \in Nat
  BY <1>1
<1>3. Elems(Append(q, c)) = Elems(q) \cup {c}
  BY <1>1, <1>2 DEF Elems
<1>4. Distinct(Append(q, c))
  BY <1>1, <1>2 DEF Elems, Distinct
<1> QED BY <1>1, <1>3, <1>4

\* The connection at the head of the queue leaves it.
LEMMA TailFacts ==
  ASSUME NEW C, NEW q \in Seq(C), q # << >>, Distinct(q)
  PROVE  /\ Head(q) \in C
         /\ Tail(q) \in Seq(C)
         /\ Head(q) \in Elems(q)
         /\ Elems(Tail(q)) = Elems(q) \ {Head(q)}
         /\ Distinct(Tail(q))
<1>1. /\ Len(q) \in Nat \ {0}
      /\ DOMAIN q = 1 .. Len(q)
      /\ Head(q) = q[1]
      /\ Head(q) \in C
      /\ Tail(q) \in Seq(C)
      /\ Len(Tail(q)) = Len(q) - 1
      /\ \A j \in 1 .. Len(q) - 1 : Tail(q)[j] = q[j + 1]
  OBVIOUS
<1>2. DOMAIN Tail(q) = 1 .. Len(q) - 1
  BY <1>1
<1>3. Elems(Tail(q)) = Elems(q) \ {Head(q)}
  <2>1. ASSUME NEW x \in Elems(Tail(q)) PROVE x \in Elems(q) \ {Head(q)}
    BY <1>1, <1>2, <2>1 DEF Elems, Distinct
  <2>2. ASSUME NEW x \in Elems(q) \ {Head(q)} PROVE x \in Elems(Tail(q))
    <3>1. PICK j \in 1 .. Len(q) : x = q[j] /\ j # 1
      BY <1>1, <2>2 DEF Elems
    <3>2. j - 1 \in 1 .. Len(q) - 1 /\ Tail(q)[j - 1] = x
      BY <1>1, <3>1
    <3> QED BY <1>2, <3>2 DEF Elems
  <2> QED BY <2>1, <2>2
<1>4. Distinct(Tail(q))
  BY <1>1, <1>2 DEF Distinct
<1>5. Head(q) \in Elems(q)
  BY <1>1 DEF Elems
<1> QED BY <1>1, <1>3, <1>4, <1>5

-----------------------------------------------------------------------------
(* Lemmas about the table.                                                 *)

\* A set of slots is finite and no larger than the table.
LEMMA SlotSetFacts ==
  ASSUME NEW T \in SUBSET Slots
  PROVE  /\ IsFiniteSet(T)
         /\ Cardinality(T) \in 0 .. IPC_MAX_CLIENTS
<1>1. IsFiniteSet(Slots) /\ Cardinality(Slots) = IPC_MAX_CLIENTS
  BY TableAssumption, FS_Interval DEF Slots
<1>2. IsFiniteSet(T) /\ Cardinality(T) <= Cardinality(Slots)
  BY <1>1, FS_Subset
<1>3. Cardinality(T) \in Nat
  BY <1>2, FS_CardinalityType
<1> QED BY <1>1, <1>2, <1>3, TableAssumption

-----------------------------------------------------------------------------
(* Every step keeps the invariant.                                         *)

\* Nothing is connected at the start.
LEMMA InitIInv == Init => IInv
<1> SUFFICES ASSUME Init PROVE IInv
  OBVIOUS
<1> USE ClientAssumption, TableAssumption
<1>1. Active = {} /\ Queued = {} /\ FdSet = {} /\ DOMAIN backlog = {}
  BY DEF Init, Active, Queued, FdSet, Slots
<1>2. TypeOK
  <2>1. accept_ready \in BOOLEAN /\ running \in BOOLEAN
    BY ZenonT(40) DEF Init
  <2>2. hung \in [Clients -> BOOLEAN]
    BY DEF Init
  <2> QED BY <2>1, <2>2 DEF Init, TypeOK, Slots, Requests
<1>3. NumClientsExact
  BY <1>1, FS_EmptySet DEF Init, NumClientsExact
<1>4. HeldOnce
  BY <1>1 DEF Init, HeldOnce
<1>5. ReadNeverBlocks /\ LoopInv /\ IdleInv
  BY DEF Init, ReadNeverBlocks, LoopInv, IdleInv
<1> QED BY <1>2, <1>3, <1>4, <1>5 DEF IInv

\* connect(): the client was nowhere, now it waits at the end of the queue.
LEMMA ConnectIInv == ASSUME NEW c \in Clients, IInv, Connect(c) PROVE IInv'
<1> USE ClientAssumption, TableAssumption
<1>0. TypeOK /\ NumClientsExact /\ HeldOnce /\ ReadNeverBlocks /\ LoopInv /\ IdleInv
  BY DEF IInv
<1>1. /\ cpc[c] = "idle"
      /\ main_pc # "down"
      /\ backlog' = Append(backlog, c)
      /\ cpc' = [cpc EXCEPT ![c] = "connected"]
      /\ UNCHANGED <<run_pc, k, read_fds, accept_ready, running, clients, num_clients,
                     main_pc, sent, resp, hung>>
  BY DEF Connect, runVars, stateVars
<1>2. Distinct(backlog) /\ c \notin Elems(backlog) /\ backlog \in Seq(Clients)
  BY <1>0, <1>1 DEF HeldOnce, Distinct, Elems, Queued, TypeOK
<1>3. /\ backlog' \in Seq(Clients)
      /\ Elems(backlog') = Elems(backlog) \cup {c}
      /\ Distinct(backlog')
  BY <1>1, <1>2, AppendFacts
<1>4. Active' = Active /\ FdSet' = FdSet /\ Queued' = Queued \cup {c}
  BY <1>1, <1>3 DEF Active, FdSet, Queued, Elems
<1>5. TypeOK'
  BY <1>0, <1>1, <1>3 DEF TypeOK
<1>6. NumClientsExact'
  BY <1>0, <1>1, <1>4 DEF NumClientsExact
<1>7. HeldOnce'
  <2>1. \A x \in Clients : x \in Queued' \cup FdSet' <=> cpc'[x] # "idle" /\ ~hung'[x]
    BY <1>0, <1>1, <1>4 DEF HeldOnce, IdleInv, TypeOK
  <2>2. Queued' \cap FdSet' = {}
    BY <1>0, <1>1, <1>4 DEF HeldOnce
  <2>3. \A s, r \in Active' : clients'[s] = clients'[r] => s = r
    BY <1>0, <1>1, <1>4 DEF HeldOnce
  <2> QED BY <2>1, <2>2, <2>3, <1>3 DEF HeldOnce, Distinct
<1>8. ReadNeverBlocks'
  <2>1. \A x \in Clients : Readable(x) => Readable(x)'
    BY <1>0, <1>1 DEF Readable, TypeOK
  <2> QED BY <1>0, <1>1, <2>1 DEF ReadNeverBlocks, TypeOK
<1>9. LoopInv'
  <2>1. \A x \in Clients : Readable(x) => Readable(x)'
    BY <1>0, <1>1 DEF Readable, TypeOK
  <2>2. backlog' # << >>
    BY <1>1, <1>2
  <2> QED BY <1>0, <1>1, <1>4, <2>1, <2>2 DEF LoopInv, TypeOK
<1>10. IdleInv'
  BY <1>0, <1>1 DEF IdleInv, TypeOK
<1> QED BY <1>5, <1>6, <1>7, <1>8, <1>9, <1>10 DEF IInv

\* write(), read() and close() of a client change neither the queue nor the table.
LEMMA ClientIOIInv ==
  ASSUME NEW c \in Clients, IInv, Send(c) \/ Receive(c) \/ Abandon(c) PROVE IInv'
<1> USE ClientAssumption, TableAssumption
<1>0. TypeOK /\ NumClientsExact /\ HeldOnce /\ ReadNeverBlocks /\ LoopInv /\ IdleInv
  BY DEF IInv
<1>1. /\ UNCHANGED <<run_pc, k, read_fds, accept_ready, running, clients, num_clients,
                     main_pc, backlog, resp, hung>>
      /\ cpc[c] \in {"connected", "waiting"}
      /\ \E x \in {"waiting", "closed"} : cpc' = [cpc EXCEPT ![c] = x]
      /\ sent' = sent \/ \E r \in Requests : sent' = [sent EXCEPT ![c] = r]
  BY DEF Send, Receive, Abandon, Open, runVars, stateVars
<1>2. Active' = Active /\ FdSet' = FdSet /\ Queued' = Queued
  BY <1>1 DEF Active, FdSet, Queued
<1>3. /\ cpc' \in [Clients -> {"idle", "connected", "waiting", "closed"}]
      /\ sent' \in [Clients -> Requests \cup {"none"}]
      /\ \A x \in Clients : cpc'[x] = "idle" <=> cpc[x] = "idle"
      /\ \A x \in Clients : cpc[x] = "closed" => cpc'[x] = "closed"
      /\ \A x \in Clients : sent[x] # "none" => sent'[x] # "none"
  BY <1>0, <1>1 DEF TypeOK, Requests, Commands
<1>4. TypeOK'
  BY <1>0, <1>1, <1>3 DEF TypeOK
<1>5. NumClientsExact' /\ HeldOnce' /\ IdleInv'
  BY <1>0, <1>1, <1>2, <1>3 DEF NumClientsExact, HeldOnce, IdleInv
<1>6. \A x \in Clients : Readable(x) => Readable(x)'
  BY <1>3 DEF Readable
<1>7. ReadNeverBlocks' /\ LoopInv'
  BY <1>0, <1>1, <1>2, <1>6 DEF ReadNeverBlocks, LoopInv, TypeOK
<1> QED BY <1>4, <1>5, <1>7 DEF IInv

\* Both ends are closed: no slot and no queue holds the socket that goes away.
LEMMA AgainIInv == ASSUME NEW c \in Clients, IInv, Again(c) PROVE IInv'
<1> USE ClientAssumption, TableAssumption
<1>0. TypeOK /\ NumClientsExact /\ HeldOnce /\ ReadNeverBlocks /\ LoopInv /\ IdleInv
  BY DEF IInv
<1>1. /\ hung[c]
      /\ cpc' = [cpc EXCEPT ![c] = "idle"]
      /\ sent' = [sent EXCEPT ![c] = "none"]
      /\ resp' = [resp EXCEPT ![c] = "none"]
      /\ hung' = [hung EXCEPT ![c] = FALSE]
      /\ UNCHANGED <<run_pc, k, read_fds, accept_ready, running, clients, num_clients,
                     main_pc, backlog>>
  BY DEF Again, runVars, stateVars
<1>2. Active' = Active /\ FdSet' = FdSet /\ Queued' = Queued
  BY <1>1 DEF Active, FdSet, Queued
<1>3. c \notin Queued \cup FdSet
  BY <1>0, <1>1 DEF HeldOnce
<1>4. TypeOK'
  BY <1>0, <1>1 DEF TypeOK
<1>5. NumClientsExact' /\ IdleInv'
  BY <1>0, <1>1, <1>2 DEF NumClientsExact, IdleInv, TypeOK
<1>6. HeldOnce'
  <2>1. \A x \in Clients : x \in Queued' \cup FdSet' <=> cpc'[x] # "idle" /\ ~hung'[x]
    BY <1>0, <1>1, <1>2, <1>3 DEF HeldOnce, TypeOK
  <2> QED BY <2>1, <1>0, <1>1, <1>2 DEF HeldOnce
<1>7. \A x \in FdSet : Readable(x) => Readable(x)'
  BY <1>0, <1>1, <1>3 DEF Readable, TypeOK, FdSet
<1>8. ReadNeverBlocks'
  <2>1. \A s \in Slots : clients[s] \in read_fds => clients[s] \in FdSet
    BY <1>0 DEF TypeOK, FdSet
  <2>2. \A s \in k .. IPC_MAX_CLIENTS - 1 : s \in Slots
    BY <1>0 DEF TypeOK, Slots
  <2> QED BY <1>0, <1>1, <1>7, <2>1, <2>2 DEF ReadNeverBlocks
<1>9. LoopInv'
  BY <1>0, <1>1, <1>2, <1>7 DEF LoopInv
<1> QED BY <1>4, <1>5, <1>6, <1>8, <1>9 DEF IInv

\* The steps of the IPC thread that change neither the queue nor the table.
LEMMA LoopIInv == ASSUME IInv, RunTest \/ Select \/ SkipSlot \/ EndServe PROVE IInv'
<1> USE ClientAssumption, TableAssumption
<1>0. TypeOK /\ NumClientsExact /\ HeldOnce /\ ReadNeverBlocks /\ LoopInv /\ IdleInv
  BY DEF IInv
<1>1. UNCHANGED <<running, clients, num_clients, main_pc, backlog, cpc, sent, resp, hung>>
  BY DEF RunTest, Select, SkipSlot, EndServe, stateVars, sockVars
<1>2. Active' = Active /\ FdSet' = FdSet /\ Queued' = Queued
  BY <1>1 DEF Active, FdSet, Queued
<1>3. NumClientsExact' /\ HeldOnce' /\ IdleInv'
  BY <1>0, <1>1, <1>2 DEF NumClientsExact, HeldOnce, IdleInv
<1>4. \A x \in Clients : Readable(x)' <=> Readable(x)
  BY <1>1 DEF Readable
<1>5. run_pc # "exited" => main_pc # "down"
  BY <1>0 DEF LoopInv
<1>6. CASE RunTest
  <2>1. TypeOK'
    BY <1>0, <1>1, <1>6 DEF RunTest, TypeOK
  <2>2. ReadNeverBlocks' /\ LoopInv'
    BY <1>0, <1>1, <1>5, <1>6 DEF RunTest, ReadNeverBlocks, LoopInv
  <2> QED BY <1>3, <2>1, <2>2 DEF IInv
<1>7. CASE Select
  <2>1. FdSet \subseteq Clients
    BY DEF FdSet
  <2>2. TypeOK'
    BY <1>0, <1>1, <1>7, <2>1, ZenonT(40) DEF Select, TypeOK
  <2>3. ReadNeverBlocks'
    BY <1>7 DEF Select, ReadNeverBlocks
  <2>4. LoopInv'
    <3>1. run_pc = "select" /\ main_pc' # "down"
      BY <1>1, <1>5, <1>7 DEF Select
    <3>2. CASE run_pc' = "test"
      BY <1>0, <1>7, <3>1, <3>2 DEF Select, LoopInv
    <3>3. CASE run_pc' = "accept"
      <4>1. read_fds' = {c \in FdSet : Readable(c)} /\ accept_ready' = (backlog # << >>)
        BY <1>7, <3>3 DEF Select
      <4>2. read_fds' \subseteq FdSet' /\ \A c \in read_fds' : Readable(c)'
        BY <1>2, <1>4, <2>1, <4>1
      <4> QED BY <1>1, <3>1, <3>3, <4>1, <4>2, ZenonT(40) DEF LoopInv
    <3> QED BY <1>7, <3>2, <3>3 DEF Select
  <2> QED BY <1>3, <2>2, <2>3, <2>4 DEF IInv
<1>8. CASE SkipSlot
  <2>1. TypeOK'
    BY <1>0, <1>1, <1>8 DEF SkipSlot, TypeOK
  <2>2. \A s \in k + 1 .. IPC_MAX_CLIENTS - 1 :
          s \in k .. IPC_MAX_CLIENTS - 1 /\ clients[s] \in Clients \cup {NoClient}
    BY <1>0 DEF TypeOK, Slots
  <2>3. ReadNeverBlocks'
    BY <1>0, <1>1, <1>4, <1>8, <2>2 DEF SkipSlot, ReadNeverBlocks, TypeOK
  <2>4. LoopInv'
    BY <1>0, <1>1, <1>8 DEF SkipSlot, LoopInv
  <2> QED BY <1>3, <2>1, <2>3, <2>4 DEF IInv
<1>9. CASE EndServe
  <2>1. TypeOK'
    BY <1>0, <1>1, <1>9 DEF EndServe, TypeOK
  <2>2. ReadNeverBlocks' /\ LoopInv'
    BY <1>0, <1>1, <1>5, <1>9 DEF EndServe, ReadNeverBlocks, LoopInv
  <2> QED BY <1>3, <2>1, <2>2 DEF IInv
<1> QED BY <1>6, <1>7, <1>8, <1>9

\* ipc_server_stop only clears running.
LEMMA StopIInv == ASSUME IInv, Stop PROVE IInv'
<1>1. /\ running' = FALSE
      /\ main_pc = "up" /\ main_pc' = "stopped"
      /\ UNCHANGED <<run_pc, k, read_fds, accept_ready, clients, num_clients,
                     backlog, cpc, sent, resp, hung>>
  BY DEF Stop, runVars, sockVars
<1>2. TypeOK'
  <2>1. running' \in BOOLEAN
    BY <1>1, ZenonT(40)
  <2> QED BY <1>1, <2>1 DEF IInv, TypeOK
<1> QED BY <1>1, <1>2 DEF IInv, NumClientsExact, HeldOnce, ReadNeverBlocks, LoopInv, IdleInv,
                          Active, Queued, FdSet, Readable

\* ipc_server_cleanup empties the table and the queue and closes what was in them.
LEMMA CleanupIInv == ASSUME IInv, Cleanup PROVE IInv'
<1> USE ClientAssumption, TableAssumption
<1>0. TypeOK /\ NumClientsExact /\ HeldOnce /\ ReadNeverBlocks /\ LoopInv /\ IdleInv
  BY DEF IInv
<1>1. /\ run_pc = "exited"
      /\ main_pc' = "down"
      /\ hung' = [c \in Clients |-> hung[c] \/ c \in Queued \/ \E s \in Slots : clients[s] = c]
      /\ clients' = [s \in Slots |-> NoClient]
      /\ backlog' = << >>
      /\ running' = FALSE
      /\ UNCHANGED <<run_pc, k, read_fds, accept_ready, num_clients, cpc, sent, resp>>
  BY DEF Cleanup, runVars
<1>2. Active' = {} /\ FdSet' = {} /\ Queued' = {} /\ DOMAIN backlog' = {}
  BY <1>1 DEF Active, FdSet, Queued
<1>3. \A c \in Clients : hung'[c] <=> hung[c] \/ c \in Queued \cup FdSet
  BY <1>1, ZenonT(40) DEF FdSet
<1>4. hung' \in [Clients -> BOOLEAN]
  <2>1. \A c \in Clients : (hung[c] \/ c \in Queued \/ \E s \in Slots : clients[s] = c) \in BOOLEAN
    BY ZenonT(40)
  <2> QED BY <1>1, <2>1
<1>5. TypeOK'
  <2>1. running' \in BOOLEAN
    BY <1>1, ZenonT(40)
  <2> QED BY <1>0, <1>1, <1>4, <2>1 DEF TypeOK
<1>6. HeldOnce'
  <2>1. \A c \in Clients : ~(cpc'[c] # "idle" /\ ~hung'[c])
    BY <1>0, <1>1, <1>3 DEF HeldOnce
  <2> QED BY <1>2, <2>1 DEF HeldOnce
<1>7. IdleInv'
  BY <1>0, <1>1, <1>3 DEF IdleInv, HeldOnce
<1>8. NumClientsExact' /\ ReadNeverBlocks' /\ LoopInv'
  BY <1>0, <1>1 DEF NumClientsExact, ReadNeverBlocks, LoopInv
<1> QED BY <1>5, <1>6, <1>7, <1>8 DEF IInv

\* ipc_accept_client puts the head of the queue in a free slot.
LEMMA AcceptIntoIInv ==
  ASSUME NEW s \in Slots, IInv, Accept, accept_ready, backlog' = Tail(backlog), AcceptInto(s)
  PROVE  IInv'
<1> USE ClientAssumption, TableAssumption
<1>0. TypeOK /\ NumClientsExact /\ HeldOnce /\ ReadNeverBlocks /\ LoopInv /\ IdleInv
  BY DEF IInv
<1> DEFINE c == Head(backlog)
<1>1. /\ run_pc = "accept" /\ run_pc' = "serve"
      /\ k' = 0
      /\ accept_ready' = FALSE
      /\ clients[s] = NoClient
      /\ clients' = [clients EXCEPT ![s] = c]
      /\ num_clients' = num_clients + 1
      /\ backlog' = Tail(backlog)
      /\ UNCHANGED <<read_fds, running, main_pc, cpc, sent, resp, hung>>
  BY DEF Accept, AcceptInto
<1>2. /\ backlog \in Seq(Clients) /\ backlog # << >> /\ Distinct(backlog)
      /\ Elems(backlog) = Queued /\ Elems(backlog') = Queued'
  BY <1>0 DEF TypeOK, LoopInv, HeldOnce, Distinct, Elems, Queued
<1>3. /\ c \in Clients /\ c \in Queued
      /\ backlog' \in Seq(Clients)
      /\ Queued' = Queued \ {c}
      /\ Distinct(backlog')
  BY <1>1, <1>2, TailFacts
<1> HIDE DEF c
<1>4. c # NoClient /\ c \notin FdSet
  BY <1>0, <1>3 DEF HeldOnce
<1>5. Active' = Active \cup {s} /\ s \notin Active
  BY <1>0, <1>1, <1>4 DEF Active, TypeOK
<1>6. FdSet' = FdSet \cup {c}
  BY <1>0, <1>1, <1>3, <1>4 DEF FdSet, TypeOK
<1>7. NumClientsExact' /\ num_clients' \in 0 .. IPC_MAX_CLIENTS
  <2>1. Active \in SUBSET Slots /\ Active' \in SUBSET Slots
    BY DEF Active
  <2>2. Cardinality(Active') = Cardinality(Active) + 1
    BY <1>5, <2>1, SlotSetFacts, FS_AddElement
  <2>3. Cardinality(Active') \in 0 .. IPC_MAX_CLIENTS
    BY <2>1, SlotSetFacts
  <2>4. main_pc # "down"
    BY <1>0, <1>1 DEF LoopInv
  <2> QED BY <1>0, <1>1, <2>2, <2>3, <2>4 DEF NumClientsExact
<1>8. TypeOK'
  <2>1. accept_ready' \in BOOLEAN
    BY <1>1, ZenonT(40)
  <2> QED BY <1>0, <1>1, <1>3, <1>7, <2>1 DEF TypeOK
<1>9. HeldOnce'
  <2>1. \A x, y \in Active' : clients'[x] = clients'[y] => x = y
    <3>1. \A x \in Active : clients'[x] = clients[x] /\ clients[x] # c
      BY <1>0, <1>1, <1>4, <1>5 DEF Active, FdSet, TypeOK
    <3>2. clients'[s] = c
      BY <1>0, <1>1 DEF TypeOK
    <3> QED BY <1>0, <1>5, <3>1, <3>2 DEF HeldOnce
  <2>2. Queued' \cap FdSet' = {}
    BY <1>0, <1>3, <1>6 DEF HeldOnce
  <2>3. \A x \in Clients : x \in Queued' \cup FdSet' <=> cpc'[x] # "idle" /\ ~hung'[x]
    BY <1>0, <1>1, <1>3, <1>6 DEF HeldOnce
  <2> QED BY <1>3, <2>1, <2>2, <2>3 DEF HeldOnce, Distinct
<1>10. ReadNeverBlocks'
  <2>1. read_fds \subseteq FdSet /\ \A x \in read_fds : Readable(x)
    BY <1>0, <1>1 DEF LoopInv
  <2>2. \A x \in Clients : Readable(x)' <=> Readable(x)
    BY <1>1 DEF Readable
  <2> QED BY <1>0, <1>1, <2>1, <2>2 DEF ReadNeverBlocks, TypeOK
<1>11. LoopInv' /\ IdleInv'
  BY <1>0, <1>1 DEF LoopInv, IdleInv
<1> QED BY <1>7, <1>8, <1>9, <1>10, <1>11 DEF IInv

\* ipc_accept_client closes the head of the queue when the table is full.
LEMMA AcceptFullIInv ==
  ASSUME IInv, Accept, accept_ready, backlog' = Tail(backlog), AcceptFull PROVE IInv'
<1> USE ClientAssumption, TableAssumption
<1>0. TypeOK /\ NumClientsExact /\ HeldOnce /\ ReadNeverBlocks /\ LoopInv /\ IdleInv
  BY DEF IInv
<1> DEFINE c == Head(backlog)
<1>1. /\ run_pc = "accept" /\ run_pc' = "serve"
      /\ k' = 0
      /\ accept_ready' = FALSE
      /\ hung' = [hung EXCEPT ![c] = TRUE]
      /\ backlog' = Tail(backlog)
      /\ UNCHANGED <<read_fds, running, main_pc, cpc, sent, resp, clients, num_clients>>
  BY DEF Accept, AcceptFull
<1>2. /\ backlog \in Seq(Clients) /\ backlog # << >> /\ Distinct(backlog)
      /\ Elems(backlog) = Queued /\ Elems(backlog') = Queued'
  BY <1>0 DEF TypeOK, LoopInv, HeldOnce, Distinct, Elems, Queued
<1>3. /\ c \in Clients /\ c \in Queued
      /\ backlog' \in Seq(Clients)
      /\ Queued' = Queued \ {c}
      /\ Distinct(backlog')
  BY <1>1, <1>2, TailFacts
<1> HIDE DEF c
<1>4. c \notin FdSet /\ cpc[c] # "idle"
  BY <1>0, <1>3 DEF HeldOnce
<1>5. Active' = Active /\ FdSet' = FdSet
  BY <1>1 DEF Active, FdSet
<1>6. TypeOK'
  <2>1. accept_ready' \in BOOLEAN
    BY <1>1, ZenonT(40)
  <2>2. hung' \in [Clients -> BOOLEAN]
    BY <1>0, <1>1, <1>3 DEF TypeOK
  <2> QED BY <1>0, <1>1, <1>3, <2>1, <2>2 DEF TypeOK
<1>7. NumClientsExact'
  BY <1>0, <1>1, <1>5 DEF NumClientsExact
<1>8. HeldOnce'
  <2>1. \A x \in Clients : x \in Queued' \cup FdSet' <=> cpc'[x] # "idle" /\ ~hung'[x]
    BY <1>0, <1>1, <1>3, <1>4, <1>5 DEF HeldOnce, TypeOK
  <2> QED BY <1>0, <1>1, <1>3, <1>5, <2>1 DEF HeldOnce, Distinct
<1>9. ReadNeverBlocks'
  <2>1. read_fds \subseteq FdSet /\ \A x \in read_fds : Readable(x)
    BY <1>0, <1>1 DEF LoopInv
  <2>2. \A x \in Clients : Readable(x)' <=> Readable(x)
    BY <1>1 DEF Readable
  <2> QED BY <1>0, <1>1, <2>1, <2>2 DEF ReadNeverBlocks, TypeOK
<1>10. LoopInv' /\ IdleInv'
  BY <1>0, <1>1, <1>4 DEF LoopInv, IdleInv, TypeOK
<1> QED BY <1>6, <1>7, <1>8, <1>9, <1>10 DEF IInv

\* A turn of the loop in which server_fd was not readable.
LEMMA AcceptNoneIInv ==
  ASSUME IInv, Accept, ~accept_ready, UNCHANGED <<clients, num_clients, hung, backlog>>
  PROVE  IInv'
<1> USE ClientAssumption, TableAssumption
<1>0. TypeOK /\ NumClientsExact /\ HeldOnce /\ ReadNeverBlocks /\ LoopInv /\ IdleInv
  BY DEF IInv
<1>1. /\ run_pc = "accept" /\ run_pc' = "serve"
      /\ k' = 0
      /\ accept_ready' = FALSE
      /\ UNCHANGED <<read_fds, running, main_pc, cpc, sent, resp, clients, num_clients, hung, backlog>>
  BY DEF Accept
<1>2. TypeOK'
  <2>1. accept_ready' \in BOOLEAN
    BY <1>1, ZenonT(40)
  <2> QED BY <1>0, <1>1, <2>1 DEF TypeOK
<1>3. NumClientsExact' /\ HeldOnce' /\ IdleInv' /\ LoopInv'
  <2>1. NumClientsExact'
    BY <1>0, <1>1 DEF NumClientsExact, Active
  <2>2. HeldOnce'
    BY <1>0, <1>1 DEF HeldOnce, Active, Queued, FdSet
  <2>3. IdleInv' /\ LoopInv'
    BY <1>0, <1>1 DEF IdleInv, LoopInv
  <2> QED BY <2>1, <2>2, <2>3
<1>4. ReadNeverBlocks'
  <2>1. \A x \in read_fds : Readable(x)
    BY <1>0, <1>1 DEF LoopInv
  <2>2. \A x \in Clients : Readable(x)' <=> Readable(x)
    BY <1>1 DEF Readable
  <2> QED BY <1>0, <1>1, <2>1, <2>2 DEF ReadNeverBlocks, TypeOK
<1> QED BY <1>2, <1>3, <1>4 DEF IInv

\* A served connection is closed and its slot is free again.
LEMMA ServeIInv == ASSUME IInv, ServeSlot PROVE IInv'
<1> USE ClientAssumption, TableAssumption
<1>0. TypeOK /\ NumClientsExact /\ HeldOnce /\ ReadNeverBlocks /\ LoopInv /\ IdleInv
  BY DEF IInv
<1> DEFINE c == clients[k]
<1>1. /\ run_pc = "serve" /\ k < IPC_MAX_CLIENTS /\ c \in read_fds
      /\ hung' = [hung EXCEPT ![c] = TRUE]
      /\ clients' = [clients EXCEPT ![k] = NoClient]
      /\ num_clients' = num_clients - 1
      /\ k' = k + 1
      /\ UNCHANGED <<run_pc, read_fds, accept_ready, main_pc, backlog, cpc, sent>>
  BY DEF ServeSlot
<1>2. k \in Slots /\ c \in Clients
  BY <1>0, <1>1 DEF TypeOK, Slots
<1>3. k \in Active /\ Active' = Active \ {k} /\ c \in FdSet
  BY <1>0, <1>1, <1>2 DEF Active, FdSet, TypeOK
<1>4. FdSet' = FdSet \ {c} /\ Queued' = Queued
  <2>1. \A s \in Slots : s # k => clients'[s] = clients[s] /\ clients[s] # c
    BY <1>0, <1>1, <1>2, <1>3 DEF HeldOnce, Active, TypeOK
  <2>2. clients'[k] = NoClient
    BY <1>0, <1>1, <1>2 DEF TypeOK
  <2>3. FdSet' = FdSet \ {c}
    BY <1>2, <2>1, <2>2 DEF FdSet
  <2> QED BY <1>1, <2>3 DEF Queued
<1>5. NumClientsExact' /\ num_clients' \in 0 .. IPC_MAX_CLIENTS
  <2>1. Active \in SUBSET Slots /\ Active' \in SUBSET Slots
    BY DEF Active
  <2>2. Cardinality(Active') = Cardinality(Active) - 1
    BY <1>3, <2>1, SlotSetFacts, FS_RemoveElement
  <2>3. Cardinality(Active') \in 0 .. IPC_MAX_CLIENTS
    BY <2>1, SlotSetFacts
  <2>4. main_pc # "down"
    BY <1>0, <1>1 DEF LoopInv
  <2> QED BY <1>0, <1>1, <2>2, <2>3, <2>4 DEF NumClientsExact
<1>6. TypeOK'
  <2>1. running' \in BOOLEAN
    BY ZenonT(40) DEF ServeSlot
  <2>2. resp' \in [Clients -> {"none", "OK", "INVALID_COMMAND"}]
    BY <1>0, <1>2 DEF ServeSlot, DispatchStatus, TypeOK
  <2>3. hung' \in [Clients -> BOOLEAN]
    BY <1>0, <1>1, <1>2 DEF TypeOK
  <2>4. clients' \in [Slots -> Clients \cup {NoClient}] /\ k' \in 0 .. IPC_MAX_CLIENTS
    BY <1>0, <1>1, <1>2 DEF TypeOK
  <2> QED BY <1>0, <1>1, <1>5, <2>1, <2>2, <2>3, <2>4 DEF TypeOK
<1>7. HeldOnce'
  <2>1. c \notin Queued /\ cpc[c] # "idle"
    BY <1>0, <1>2, <1>3 DEF HeldOnce
  <2>2. \A x \in Clients : x \in Queued' \cup FdSet' <=> cpc'[x] # "idle" /\ ~hung'[x]
    BY <1>0, <1>1, <1>2, <1>4, <2>1 DEF HeldOnce, TypeOK
  <2>3. \A x, y \in Active' : clients'[x] = clients'[y] => x = y
    BY <1>0, <1>1, <1>2, <1>3 DEF HeldOnce, TypeOK, Active
  <2>4. Queued' \cap FdSet' = {}
    BY <1>0, <1>4 DEF HeldOnce
  <2> QED BY <1>0, <1>1, <2>2, <2>3, <2>4 DEF HeldOnce
<1>8. ReadNeverBlocks'
  <2>1. \A x \in Clients : Readable(x)' <=> Readable(x)
    BY <1>1 DEF Readable
  <2>2. \A s \in k + 1 .. IPC_MAX_CLIENTS - 1 :
          s \in k .. IPC_MAX_CLIENTS - 1 /\ clients'[s] = clients[s] /\ s \in Slots
    BY <1>0, <1>1, <1>2 DEF TypeOK, Slots
  <2> QED BY <1>0, <1>1, <2>1, <2>2 DEF ReadNeverBlocks, TypeOK
<1>9. LoopInv' /\ IdleInv'
  <2>1. cpc[c] # "idle"
    BY <1>0, <1>2, <1>3 DEF HeldOnce
  <2> QED BY <1>0, <1>1, <1>2, <2>1 DEF LoopInv, IdleInv, TypeOK
<1> QED BY <1>5, <1>6, <1>7, <1>8, <1>9 DEF IInv

\* Every step of the clients, the IPC thread and the main thread keeps the invariant.
LEMMA NextIInv == IInv /\ [Next]_vars => IInv'
<1> SUFFICES ASSUME IInv, [Next]_vars PROVE IInv'
  OBVIOUS
<1>1. ASSUME NEW c \in Clients, ClientStep(c) PROVE IInv'
  BY <1>1, ConnectIInv, ClientIOIInv, AgainIInv DEF ClientStep
<1>2. CASE Accept
  <2>1. CASE accept_ready
    BY <1>2, <2>1, AcceptIntoIInv, AcceptFullIInv, ZenonT(40) DEF Accept
  <2>2. CASE ~accept_ready
    BY <1>2, <2>2, AcceptNoneIInv, ZenonT(40) DEF Accept
  <2> QED BY <2>1, <2>2
<1>3. CASE UNCHANGED vars
  <2>0. /\ UNCHANGED <<run_pc, k, read_fds, accept_ready, running, clients, num_clients>>
        /\ UNCHANGED <<main_pc, backlog, cpc, sent, resp, hung>>
    BY <1>3 DEF vars, runVars, stateVars, sockVars
  <2>1. TypeOK'
    BY <2>0 DEF IInv, TypeOK
  <2>2. NumClientsExact'
    BY <2>0 DEF IInv, NumClientsExact, Active
  <2>3. HeldOnce'
    <3>1. Active' = Active /\ Queued' = Queued /\ FdSet' = FdSet
      BY <2>0 DEF Active, Queued, FdSet
    <3> QED BY <2>0, <3>1 DEF IInv, HeldOnce
  <2>4. ReadNeverBlocks'
    BY <2>0 DEF IInv, ReadNeverBlocks, Readable
  <2>5. LoopInv' /\ IdleInv'
    BY <2>0 DEF IInv, LoopInv, IdleInv, Readable, FdSet
  <2> QED BY <2>1, <2>2, <2>3, <2>4, <2>5 DEF IInv
<1> QED BY <1>1, <1>2, <1>3, LoopIInv, ServeIInv, StopIInv, CleanupIInv DEF Next, ServerStep

\* The inductive invariant holds in every reachable state.
THEOREM Invariance == Spec => []IInv
BY InitIInv, NextIInv, PTL DEF Spec

\* The types of server_state, of the loop's locals and of the sockets are kept; in
\* particular num_clients stays between 0 and IPC_MAX_CLIENTS.
THEOREM TypeCorrect == Spec => []TypeOK
<1>1. IInv => TypeOK BY DEF IInv
<1> QED BY Invariance, <1>1, PTL

\* What CMD_STATUS reports is the number of connections in the table.
THEOREM NumClientsIsExact == Spec => []NumClientsExact
<1>1. IInv => NumClientsExact BY DEF IInv
<1> QED BY Invariance, <1>1, PTL

\* No connection is lost, none is in two places, none is closed twice.
THEOREM ConnectionsHeldOnce == Spec => []HeldOnce
<1>1. IInv => HeldOnce BY DEF IInv
<1> QED BY Invariance, <1>1, PTL

\* The serving loop never blocks in read().
THEOREM ServingNeverBlocks == Spec => []ReadNeverBlocks
<1>1. IInv => ReadNeverBlocks BY DEF IInv
<1> QED BY Invariance, <1>1, PTL

\* A whole request is left unanswered only by a full table or by the cleanup.
THEOREM RequestsDroppedOnlyWhenFull == Spec => DroppedOnlyWhenFull
<1>1. ASSUME IInv, [Next]_vars PROVE [DropStep]_vars
  <2> SUFFICES ASSUME Next, NEW c \in Clients, cpc[c] \in {"connected", "waiting"},
                      ~hung[c], hung'[c], sent[c] \in Commands, resp'[c] = "none"
               PROVE  Active = Slots \/ main_pc' = "down"
    BY <1>1 DEF Open, DropStep
  <2>0. TypeOK
    BY <1>1 DEF IInv
  <2>1. ASSUME NEW d \in Clients, ClientStep(d) PROVE FALSE
    BY <2>0, <2>1 DEF ClientStep, Connect, Send, Receive, Abandon, Again, TypeOK
  <2>2. CASE RunTest \/ Select \/ SkipSlot \/ EndServe \/ Stop
    BY <2>2 DEF RunTest, Select, SkipSlot, EndServe, Stop, sockVars
  <2>3. CASE Accept
    BY <2>3 DEF Accept, AcceptFull, AcceptInto
  <2>4. CASE ServeSlot
    <3>1. clients[k] \in Clients
      BY <2>0, <2>4 DEF ServeSlot, TypeOK
    <3>2. c = clients[k]
      BY <2>0, <2>4, <3>1 DEF ServeSlot, TypeOK
    <3>3. resp' = [resp EXCEPT ![c] = DispatchStatus(sent[c])]
      BY <2>4, <3>2 DEF ServeSlot
    <3>4. resp'[c] = DispatchStatus(sent[c])
      BY <2>0, <3>3 DEF TypeOK
    <3> QED BY <3>4 DEF DispatchStatus
  <2>5. CASE Cleanup
    BY <2>5 DEF Cleanup
  <2> QED BY <2>1, <2>2, <2>3, <2>4, <2>5 DEF Next, ServerStep
<1> QED BY Invariance, <1>1, PTL DEF Spec, DroppedOnlyWhenFull

-----------------------------------------------------------------------------
(* The service that the server implements.                                 *)

\* A client writes once and only when it is connected, and a server whose main thread
\* has stopped it stays stopped.
AskedInv ==
  /\ \A c \in Clients : cpc[c] \in {"idle", "connected"} => sent[c] = "none"
  /\ main_pc = "stopped" => ~running

LEMMA NextAskedInv == TypeOK /\ AskedInv /\ [Next]_vars => AskedInv'
<1> SUFFICES ASSUME TypeOK, AskedInv, [Next]_vars PROVE AskedInv'
  OBVIOUS
<1>1. ASSUME NEW c \in Clients, ClientStep(c) PROVE AskedInv'
  <2>1. main_pc' = main_pc /\ running' = running
    BY <1>1 DEF ClientStep, Connect, Send, Receive, Abandon, Again, stateVars
  <2>2. \A d \in Clients : cpc'[d] \in {"idle", "connected"} => sent'[d] = "none"
    BY <1>1 DEF ClientStep, Connect, Send, Receive, Abandon, Again, AskedInv, TypeOK
  <2> QED BY <2>1, <2>2 DEF AskedInv
<1>2. CASE ServerStep
  <2>1. cpc' = cpc /\ sent' = sent /\ main_pc' = main_pc
    BY <1>2 DEF ServerStep, RunTest, Select, Accept, ServeSlot, SkipSlot, EndServe, sockVars
  <2>2. running' = running \/ running' = (running /\ sent[clients[k]] # "SHUTDOWN")
    BY <1>2, ZenonT(40)
       DEF ServerStep, RunTest, Select, Accept, ServeSlot, SkipSlot, EndServe, stateVars
  <2>3. main_pc' = "stopped" => ~running'
    BY <2>1, <2>2, ZenonT(40) DEF AskedInv
  <2> QED BY <2>1, <2>3 DEF AskedInv
<1>3. CASE Stop \/ Cleanup
  BY <1>3 DEF Stop, Cleanup, sockVars, AskedInv
<1>4. CASE UNCHANGED vars
  BY <1>4 DEF vars, stateVars, sockVars, AskedInv
<1> QED BY <1>1, <1>2, <1>3, <1>4 DEF Next

\* The service counts as the server does.
LEMMA ServiceCounts == ASSUME NEW S PROVE Service!Cardinality(S) = Cardinality(S)
BY ZenonT(40) DEF Service!Cardinality, Cardinality

\* What the clients do, they do to the service.
LEMMA ClientService ==
  ASSUME NEW c \in Clients, ClientStep(c)
  PROVE  Service!Next
<1>1. CASE Connect(c)
  <2>1. Service!Connect(c)
    BY <1>1 DEF Connect, stateVars, Service!Connect
  <2> QED BY <2>1 DEF Service!Next
<1>2. CASE Send(c)
  <2>1. Service!Ask(c)
    BY <1>2, ZenonT(40) DEF Send, Requests, Commands, stateVars, Service!Ask, Service!Commands
  <2> QED BY <2>1 DEF Service!Next
<1>3. CASE Receive(c) \/ Abandon(c)
  <2>1. Service!Leave(c)
    BY <1>3 DEF Receive, Abandon, Open, stateVars, Service!Leave
  <2> QED BY <2>1 DEF Service!Next
<1>4. CASE Again(c)
  <2>1. Service!Again(c)
    BY <1>4 DEF Again, stateVars, Service!Again
  <2> QED BY <2>1 DEF Service!Next
<1> QED BY <1>1, <1>2, <1>3, <1>4 DEF ClientStep

\* The connections the server holds are the conversations of the service.
LEMMA ServiceHeld == ASSUME IInv PROVE Service!Held = Queued \cup FdSet
<1>1. Queued \subseteq Clients /\ FdSet \subseteq Clients
  BY DEF IInv, TypeOK, Queued, FdSet
<1> QED BY <1>1 DEF IInv, HeldOnce, Service!Held

\* A connection that finds every slot taken makes one conversation too many.
LEMMA FullService ==
  ASSUME IInv, Active = Slots, backlog # << >>
  PROVE  Head(backlog) \in Service!Held /\ Service!Cardinality(Service!Held) > IPC_MAX_CLIENTS
<1> USE ClientAssumption, TableAssumption
<1> DEFINE h == Head(backlog)
<1>0. TypeOK /\ HeldOnce
  BY DEF IInv
<1>1. h \in Queued /\ h \in Clients
  <2>1. Head(backlog) = backlog[1] /\ 1 \in DOMAIN backlog /\ backlog[1] \in Clients
    BY <1>0 DEF TypeOK
  <2> QED BY <2>1 DEF Queued
<1>2. h \notin FdSet
  BY <1>0, <1>1 DEF HeldOnce
<1>3. IsFiniteSet(Slots) /\ Cardinality(Slots) = IPC_MAX_CLIENTS
  BY FS_Interval DEF Slots
<1>4. \A s \in Slots : clients[s] \in FdSet
  BY <1>0 DEF TypeOK, Active, FdSet
<1>5. clients \in Bijection(Slots, FdSet)
  <2>1. clients \in [Slots -> FdSet]
    BY <1>0, <1>4 DEF TypeOK
  <2>2. \A s, r \in Slots : clients[s] = clients[r] => s = r
    BY <1>0 DEF HeldOnce
  <2>3. \A d \in FdSet : \E s \in Slots : clients[s] = d
    BY DEF FdSet
  <2> QED BY <2>1, <2>2, <2>3 DEF Bijection, Injection, Surjection, IsInjective
<1>6. IsFiniteSet(FdSet) /\ Cardinality(FdSet) = IPC_MAX_CLIENTS
  BY <1>3, <1>5, FS_Bijection DEF ExistsBijection
<1>7. /\ IsFiniteSet(FdSet \cup {h})
      /\ Cardinality(FdSet \cup {h}) = IPC_MAX_CLIENTS + 1
  BY <1>2, <1>6, FS_AddElement
<1>8. IsFiniteSet(Service!Held)
  <2>1. Service!Held \subseteq Clients
    BY DEF Service!Held
  <2> QED BY <2>1, FS_Subset
<1>9. FdSet \cup {h} \subseteq Service!Held
  BY <1>1, ServiceHeld
<1>10. Cardinality(FdSet \cup {h}) <= Cardinality(Service!Held)
  BY <1>8, <1>9, FS_Subset
<1>11. Cardinality(Service!Held) \in Nat
  BY <1>8, FS_CardinalityType
<1>12. Cardinality(Service!Held) > IPC_MAX_CLIENTS
  BY <1>7, <1>10, <1>11
<1> QED BY <1>9, <1>12, ServiceCounts

\* The steps of the IPC thread: one that serves a slot answers or discards, one that
\* finds no slot refuses, and the others are nothing to the service.
LEMMA ServerService ==
  ASSUME IInv, AskedInv, ServerStep
  PROVE  Service!Next \/ UNCHANGED Service!vars
<1>0. TypeOK /\ HeldOnce /\ LoopInv /\ ReadNeverBlocks
  BY DEF IInv
<1>1. main_pc # "down" /\ main_pc' = main_pc
  BY <1>0 DEF LoopInv, ServerStep, RunTest, Select, Accept, ServeSlot, SkipSlot, EndServe
<1>2. CASE RunTest \/ Select \/ SkipSlot \/ EndServe
  BY <1>2 DEF RunTest, Select, SkipSlot, EndServe, stateVars, sockVars, Service!vars
<1>3. CASE Accept
  <2>1. UNCHANGED <<running, main_pc, cpc, sent, resp>>
    BY <1>3 DEF Accept
  <2>2. CASE hung' = hung
    BY <2>1, <2>2 DEF Service!vars
  <2>3. CASE accept_ready /\ AcceptFull
    <3> DEFINE c == Head(backlog)
    <3>1. Active = Slots /\ backlog # << >> /\ hung' = [hung EXCEPT ![c] = TRUE]
      BY <1>0, <2>3 DEF AcceptFull, LoopInv
    <3>2. c \in Service!Held /\ Service!Cardinality(Service!Held) > IPC_MAX_CLIENTS
      BY <3>1, FullService
    <3>3. c \in Clients
      BY <3>2 DEF Service!Held
    <3>4. Service!Refuse(c)
      BY <1>1, <2>1, <3>1, <3>2 DEF Service!Refuse
    <3> QED BY <3>3, <3>4 DEF Service!Next
  <2> QED BY <1>3, <2>2, <2>3 DEF Accept, AcceptInto
<1>4. CASE ServeSlot
  <2> DEFINE c == clients[k]
  <2>1. /\ run_pc = "serve" /\ k < IPC_MAX_CLIENTS /\ c \in read_fds
        /\ running' = (running /\ sent[c] # "SHUTDOWN")
        /\ resp' = IF sent[c] \in Commands /\ cpc[c] # "closed"
                   THEN [resp EXCEPT ![c] = DispatchStatus(sent[c])]
                   ELSE resp
        /\ hung' = [hung EXCEPT ![c] = TRUE]
        /\ UNCHANGED <<main_pc, cpc, sent>>
    BY <1>4 DEF ServeSlot
  <2>2. k \in Slots /\ k \in k .. IPC_MAX_CLIENTS - 1 /\ c \in Clients
    BY <1>0, <2>1, TableAssumption DEF TypeOK, Slots
  <2>3. Readable(c)
    BY <1>0, <2>1, <2>2 DEF ReadNeverBlocks
  <2>4. c \in Service!Held
    BY <2>2, ServiceHeld DEF FdSet
  <2>5. Service!Close(c)
    BY <1>1, <2>1, <2>4, ZenonT(40) DEF Service!Close
  <2>6. CASE sent[c] \in Commands /\ cpc[c] # "closed"
    <3>1. cpc[c] = "waiting"
      <4>1. cpc[c] \in {"idle", "connected", "waiting", "closed"} /\ sent[c] # "none"
        BY <1>0, <2>2, <2>6 DEF TypeOK, Commands
      <4> QED BY <2>2, <2>6, <4>1 DEF AskedInv
    <3>2. resp' = [resp EXCEPT ![c] = Service!Reply(sent[c])]
      BY <2>1, <2>6 DEF DispatchStatus, Service!Reply
    <3>3. Service!Answer(c)
      BY <2>5, <2>6, <3>1, <3>2 DEF Commands, Service!Answer, Service!Commands
    <3> QED BY <2>2, <3>3 DEF Service!Next
  <2>7. CASE ~(sent[c] \in Commands /\ cpc[c] # "closed")
    <3>1. cpc[c] = "closed" \/ sent[c] = "short"
      BY <1>0, <2>2, <2>3, <2>7 DEF TypeOK, Requests, Readable
    <3>2. Service!Discard(c)
      BY <2>1, <2>5, <2>7, <3>1 DEF Service!Discard
    <3> QED BY <2>2, <3>2 DEF Service!Next
  <2> QED BY <2>6, <2>7
<1> QED BY <1>2, <1>3, <1>4 DEF ServerStep

\* ipc_server_stop and ipc_server_cleanup, which ends every conversation.
LEMMA MainService ==
  ASSUME IInv, AskedInv, Stop \/ Cleanup
  PROVE  Service!Next
<1>1. CASE Stop
  <2>1. Service!Stop
    BY <1>1 DEF Stop, sockVars, Service!Stop
  <2> QED BY <2>1 DEF Service!Next
<1>2. CASE Cleanup
  <2>1. \A c \in Clients :
          (hung[c] \/ c \in Queued \/ \E s \in Slots : clients[s] = c) <=> cpc[c] # "idle"
    BY DEF IInv, HeldOnce, IdleInv, FdSet
  <2>2. hung' = [c \in Clients |-> cpc[c] # "idle"]
    BY <1>2, <2>1 DEF Cleanup
  <2>3. ~running /\ running' = running
    <3>1. running \in BOOLEAN /\ ~running /\ ~running' /\ running' \in BOOLEAN
      BY <1>2, ZenonT(40) DEF Cleanup, AskedInv, IInv, TypeOK
    <3> QED BY <3>1
  <2>4. Service!End
    BY <1>2, <2>2, <2>3 DEF Cleanup, Service!End
  <2> QED BY <2>4 DEF Service!Next
<1> QED BY <1>1, <1>2

\* The server implements the service, for every number of clients, slots and waiting
\* connections: a turn of the serving loop is the answer to the request of its own
\* connection, or the end of a conversation for one of the reasons the service names.
THEOREM ServerImplementsService == Spec => ImplementsService
<1>1. Init => Service!Init /\ AskedInv
  BY DEF Init, Service!Init, AskedInv
<1>2. IInv /\ AskedInv /\ [Next]_vars => [Service!Next]_(Service!vars)
  <2>1. UNCHANGED vars => UNCHANGED Service!vars
    BY DEF vars, stateVars, sockVars, Service!vars
  <2> QED BY <2>1, ClientService, ServerService, MainService DEF Next
<1>3. IInv => TypeOK
  BY DEF IInv
<1> QED BY <1>1, <1>2, <1>3, Invariance, NextAskedInv, PTL DEF Spec, ImplementsService, Service!Spec
=============================================================================
