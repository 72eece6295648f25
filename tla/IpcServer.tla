----------------------------- MODULE IpcServer -----------------------------
(***************************************************************************)
(* The request server of storage_daemon (ipc_server.c): the IPC thread     *)
(* that runs ipc_server_run, its table of clients, the clients on the      *)
(* other side of the Unix socket, and the main thread that stops the       *)
(* server, joins the thread and calls ipc_server_cleanup.                  *)
(*                                                                         *)
(* A connection is named by the client that opened it; a descriptor stays  *)
(* open as long as a slot holds it, so a descriptor number of read_fds     *)
(* never names another connection.  clients_mutex is contended by nobody   *)
(* (cleanup runs after the join), so it needs no variable; a client may    *)
(* still act between two turns of the serving loop.                        *)
(***************************************************************************)
EXTENDS Naturals, Sequences, FiniteSets

CONSTANTS
  Clients,          \* client processes, each with one connection at a time
  NoClient,         \* marks a slot that is not active
  IPC_MAX_CLIENTS,  \* size of clients[] (64)
  BACKLOG           \* the argument of listen() (10)

ASSUME ClientAssumption == NoClient \notin Clients /\ IsFiniteSet(Clients)
ASSUME TableAssumption == IPC_MAX_CLIENTS \in Nat \ {0} /\ BACKLOG \in Nat

VARIABLES
  run_pc,        \* where the IPC thread is
  k,             \* loop index of the serving loop
  read_fds,      \* connections select() reported readable
  accept_ready,  \* ... and whether it reported server_fd
  running,       \* server_state.running
  clients,       \* clients[]: the connection of an active slot, or NoClient
  num_clients,
  main_pc,       \* "up", "stopped" after ipc_server_stop, "down" after cleanup
  backlog,       \* connections that wait to be accepted
  cpc,           \* per client: where it is in send_command
  sent,          \* per client: what its socket holds for the server to read
  resp,          \* per client: the answer written to its socket
  hung           \* per client: the server has closed its end

runVars == <<run_pc, k, read_fds, accept_ready>>
stateVars == <<running, clients, num_clients>>
sockVars == <<backlog, cpc, sent, resp, hung>>
vars == <<runVars, stateVars, main_pc, sockVars>>

Slots == 0 .. IPC_MAX_CLIENTS - 1
Commands == {"STATUS", "SHUTDOWN", "OTHER"}
\* What a client may write: one whole request_t, or fewer bytes than that.
Requests == Commands \cup {"short"}

Active == {s \in Slots : clients[s] # NoClient}
Queued == {backlog[j] : j \in DOMAIN backlog}

\* A connection of which the client has not closed its end.
Open == {c \in Clients : cpc[c] \in {"connected", "waiting"}}

\* read() returns at once: there is something to read, or end of file.
Readable(c) == sent[c] # "none" \/ cpc[c] = "closed"

Init ==
  /\ run_pc = "test"
  /\ k = 0
  /\ read_fds = {}
  /\ accept_ready = FALSE
  /\ running = TRUE
  /\ clients = [s \in Slots |-> NoClient]
  /\ num_clients = 0
  /\ main_pc = "up"
  /\ backlog = << >>
  /\ cpc = [c \in Clients |-> "idle"]
  /\ sent = [c \in Clients |-> "none"]
  /\ resp = [c \in Clients |-> "none"]
  /\ hung = [c \in Clients |-> FALSE]
-----------------------------------------------------------------------------
(* The clients: connect_to_daemon and send_command of storage_cli.c.       *)

\* connect(): waits for room in the backlog, fails once server_fd is closed.
Connect(c) ==
  /\ cpc[c] = "idle"
  /\ main_pc # "down"
  /\ Len(backlog) <= BACKLOG
  /\ backlog' = Append(backlog, c)
  /\ cpc' = [cpc EXCEPT ![c] = "connected"]
  /\ UNCHANGED <<runVars, stateVars, main_pc, sent, resp, hung>>

\* write() of the request; a client other than the CLI may write a short one.
Send(c) ==
  /\ cpc[c] = "connected"
  /\ ~hung[c]
  /\ \E r \in Requests : sent' = [sent EXCEPT ![c] = r]
  /\ cpc' = [cpc EXCEPT ![c] = "waiting"]
  /\ UNCHANGED <<runVars, stateVars, main_pc, backlog, resp, hung>>

\* read() returns the answer, or end of file; then close().
Receive(c) ==
  /\ cpc[c] = "waiting"
  /\ resp[c] # "none" \/ hung[c]
  /\ cpc' = [cpc EXCEPT ![c] = "closed"]
  /\ UNCHANGED <<runVars, stateVars, main_pc, backlog, sent, resp, hung>>

\* The client is interrupted, or its write() fails, before it has an answer.
Abandon(c) ==
  /\ c \in Open
  /\ resp[c] = "none"
  /\ cpc' = [cpc EXCEPT ![c] = "closed"]
  /\ UNCHANGED <<runVars, stateVars, main_pc, backlog, sent, resp, hung>>

\* Both ends are closed: the socket is gone and the client may start again.
Again(c) ==
  /\ cpc[c] = "closed"
  /\ hung[c]
  /\ cpc' = [cpc EXCEPT ![c] = "idle"]
  /\ sent' = [sent EXCEPT ![c] = "none"]
  /\ resp' = [resp EXCEPT ![c] = "none"]
  /\ hung' = [hung EXCEPT ![c] = FALSE]
  /\ UNCHANGED <<runVars, stateVars, main_pc, backlog>>
-----------------------------------------------------------------------------
(* The IPC thread: ipc_server_run.                                         *)

\* Mutant: the loop never looks at running.
RunTest_Forever ==
  /\ run_pc = "test"
  /\ run_pc' = "select"
  /\ UNCHANGED <<k, read_fds, accept_ready, stateVars, main_pc, sockVars>>

\* "while (server_state.running)".
RunTest ==
  /\ run_pc = "test"
  /\ run_pc' = IF running THEN "select" ELSE "exited"
  /\ UNCHANGED <<k, read_fds, accept_ready, stateVars, main_pc, sockVars>>

\* The connections of the active slots, put in read_fds before select().
FdSet == {c \in Clients : \E s \in Slots : clients[s] = c}

\* Mutant: max_fd stays at server_fd, so select() never looks at the clients.
Select_MaxFd ==
  /\ run_pc = "select"
  /\ \/ /\ backlog # << >>
        /\ read_fds' = {}
        /\ accept_ready' = TRUE
        /\ run_pc' = "accept"
     \/ /\ backlog = << >>
        /\ run_pc' = "test"
        /\ UNCHANGED <<read_fds, accept_ready>>
  /\ UNCHANGED <<k, stateVars, main_pc, sockVars>>

\* The descriptor set is built and select() reports the readable ones; with
\* none within a second, or when a signal arrives first, the loop continues.
Select ==
  LET ready == {c \in FdSet : Readable(c)}
  IN /\ run_pc = "select"
     /\ \/ /\ ready # {} \/ backlog # << >>
           /\ read_fds' = ready
           /\ accept_ready' = (backlog # << >>)
           /\ run_pc' = "accept"
        \/ /\ ready = {}
           /\ backlog = << >>
           /\ run_pc' = "test"
           /\ UNCHANGED <<read_fds, accept_ready>>
     /\ UNCHANGED <<k, stateVars, main_pc, sockVars>>

\* ipc_accept_client puts the connection in slot s, the first free one.
AcceptInto(s) ==
  /\ clients[s] = NoClient
  /\ \A r \in Slots : r < s => clients[r] # NoClient
  /\ clients' = [clients EXCEPT ![s] = Head(backlog)]
  /\ num_clients' = num_clients + 1
  /\ UNCHANGED hung

\* Mutant: the refused connection is not closed.
AcceptFull_Leak ==
  /\ Active = Slots
  /\ UNCHANGED <<clients, num_clients, hung>>

\* Mutant: the last slot is never used.
AcceptFull_Early ==
  /\ num_clients >= IPC_MAX_CLIENTS - 1
  /\ hung' = [hung EXCEPT ![Head(backlog)] = TRUE]
  /\ UNCHANGED <<clients, num_clients>>

\* ipc_accept_client finds no free slot and closes the connection.
AcceptFull ==
  /\ Active = Slots
  /\ hung' = [hung EXCEPT ![Head(backlog)] = TRUE]
  /\ UNCHANGED <<clients, num_clients>>

\* Mutant: the accepted connection is served in the same turn.
Accept_ServeNow ==
  /\ run_pc = "accept"
  /\ \/ /\ accept_ready
        /\ backlog' = Tail(backlog)
        /\ AcceptFull \/ \E s \in Slots : AcceptInto(s)
        /\ read_fds' = read_fds \cup {Head(backlog)}
     \/ /\ ~accept_ready
        /\ UNCHANGED <<clients, num_clients, hung, backlog, read_fds>>
  /\ run_pc' = "serve"
  /\ k' = 0
  /\ accept_ready' = FALSE
  /\ UNCHANGED <<running, main_pc, cpc, sent, resp>>

\* The server_fd part of one turn of the loop.
Accept ==
  /\ run_pc = "accept"
  /\ \/ /\ accept_ready
        /\ backlog' = Tail(backlog)
        /\ AcceptFull \/ \E s \in Slots : AcceptInto(s)
     \/ /\ ~accept_ready
        /\ UNCHANGED <<clients, num_clients, hung, backlog>>
  /\ run_pc' = "serve"
  /\ k' = 0
  /\ accept_ready' = FALSE
  /\ UNCHANGED <<read_fds, running, main_pc, cpc, sent, resp>>

\* The status of ipc_dispatch_command for a whole request.
DispatchStatus(cmd) ==
  IF cmd \in {"STATUS", "SHUTDOWN"} THEN "OK" ELSE "INVALID_COMMAND"

\* Mutant: a short read frees the slot but forgets the count.
ServeSlot_Uncounted ==
  LET c == clients[k]
      whole == sent[c] \in Commands
  IN /\ run_pc = "serve"
     /\ k < IPC_MAX_CLIENTS
     /\ clients[k] \in read_fds
     /\ running' = (running /\ sent[c] # "SHUTDOWN")
     /\ resp' = IF whole /\ cpc[c] # "closed"
                THEN [resp EXCEPT ![c] = DispatchStatus(sent[c])]
                ELSE resp
     /\ hung' = [hung EXCEPT ![c] = TRUE]
     /\ clients' = [clients EXCEPT ![k] = NoClient]
     /\ num_clients' = IF whole THEN num_clients - 1 ELSE num_clients
     /\ k' = k + 1
     /\ UNCHANGED <<run_pc, read_fds, accept_ready, main_pc, backlog, cpc, sent>>

\* Mutant: what a read of fewer bytes than a request_t has left there is dispatched.
ServeSlot_Short ==
  LET c == clients[k]
      whole == sent[c] # "none"
  IN /\ run_pc = "serve"
     /\ k < IPC_MAX_CLIENTS
     /\ clients[k] \in read_fds
     /\ running' = (running /\ sent[c] # "SHUTDOWN")
     /\ resp' = IF whole /\ cpc[c] # "closed"
                THEN [resp EXCEPT ![c] = DispatchStatus(sent[c])]
                ELSE resp
     /\ hung' = [hung EXCEPT ![c] = TRUE]
     /\ clients' = [clients EXCEPT ![k] = NoClient]
     /\ num_clients' = num_clients - 1
     /\ k' = k + 1
     /\ UNCHANGED <<run_pc, read_fds, accept_ready, main_pc, backlog, cpc, sent>>

\* One turn of the serving loop on an active slot whose descriptor is in read_fds:
\* a whole request is dispatched and answered (the write fails silently when the
\* client is gone); in every case the connection is closed and the slot freed.
ServeSlot ==
  LET c == clients[k]
      whole == sent[c] \in Commands
  IN /\ run_pc = "serve"
     /\ k < IPC_MAX_CLIENTS
     /\ clients[k] \in read_fds
     /\ running' = (running /\ sent[c] # "SHUTDOWN")
     /\ resp' = IF whole /\ cpc[c] # "closed"
                THEN [resp EXCEPT ![c] = DispatchStatus(sent[c])]
                ELSE resp
     /\ hung' = [hung EXCEPT ![c] = TRUE]
     /\ clients' = [clients EXCEPT ![k] = NoClient]
     /\ num_clients' = num_clients - 1
     /\ k' = k + 1
     /\ UNCHANGED <<run_pc, read_fds, accept_ready, main_pc, backlog, cpc, sent>>

\* A slot that is not active, or that select() did not report.
SkipSlot ==
  /\ run_pc = "serve"
  /\ k < IPC_MAX_CLIENTS
  /\ clients[k] \notin read_fds
  /\ k' = k + 1
  /\ UNCHANGED <<run_pc, read_fds, accept_ready, stateVars, main_pc, sockVars>>

\* The end of the serving loop; read_fds is cleared by the FD_ZERO of the next turn.
EndServe ==
  /\ run_pc = "serve"
  /\ k = IPC_MAX_CLIENTS
  /\ run_pc' = "test"
  /\ k' = 0
  /\ read_fds' = {}
  /\ UNCHANGED <<accept_ready, stateVars, main_pc, sockVars>>
-----------------------------------------------------------------------------
(* The main thread.                                                        *)

\* ipc_server_stop.
Stop ==
  /\ main_pc = "up"
  /\ running' = FALSE
  /\ main_pc' = "stopped"
  /\ UNCHANGED <<runVars, clients, num_clients, sockVars>>

\* ipc_server_cleanup, after pthread_join: the active connections and server_fd
\* are closed, and with it every connection nobody accepted. num_clients stays.
Cleanup ==
  /\ main_pc = "stopped"
  /\ run_pc = "exited"
  /\ main_pc' = "down"
  /\ hung' = [c \in Clients |->
                hung[c] \/ c \in Queued \/ \E s \in Slots : clients[s] = c]
  /\ clients' = [s \in Slots |-> NoClient]
  /\ backlog' = << >>
  /\ running' = FALSE
  /\ UNCHANGED <<runVars, num_clients, cpc, sent, resp>>
-----------------------------------------------------------------------------
ClientStep(c) == Connect(c) \/ Send(c) \/ Receive(c) \/ Abandon(c) \/ Again(c)
ServerStep == RunTest \/ Select \/ Accept \/ ServeSlot \/ SkipSlot \/ EndServe

Next ==
  \/ \E c \in Clients : ClientStep(c)
  \/ ServerStep
  \/ Stop
  \/ Cleanup

\* The IPC thread and a client with something to read are scheduled, and a main
\* thread that has stopped the server goes on to join and clean up. No client is
\* obliged to send or to connect, and nobody is obliged to stop the daemon.
Fairness ==
  /\ WF_vars(ServerStep)
  /\ WF_vars(Cleanup)
  /\ \A c \in Clients : WF_vars(Receive(c))

Spec == Init /\ [][Next]_vars
FairSpec == Spec /\ Fairness
-----------------------------------------------------------------------------
(* Properties.                                                             *)

\* Types of server_state, of the loop's locals and of the sockets.
TypeOK ==
  /\ run_pc \in {"test", "select", "accept", "serve", "exited"}
  /\ k \in 0 .. IPC_MAX_CLIENTS
  /\ read_fds \in SUBSET Clients
  /\ accept_ready \in BOOLEAN
  /\ running \in BOOLEAN
  /\ clients \in [Slots -> Clients \cup {NoClient}]
  /\ num_clients \in 0 .. IPC_MAX_CLIENTS
  /\ main_pc \in {"up", "stopped", "down"}
  /\ backlog \in Seq(Clients)
  /\ cpc \in [Clients -> {"idle", "connected", "waiting", "closed"}]
  /\ sent \in [Clients -> Requests \cup {"none"}]
  /\ resp \in [Clients -> {"none", "OK", "INVALID_COMMAND"}]
  /\ hung \in [Clients -> BOOLEAN]

\* num_clients, which CMD_STATUS reports, is the number of active slots on every path
\* of ipc_accept_client and of the serving loop, until ipc_server_cleanup.
NumClientsExact == main_pc # "down" => num_clients = Cardinality(Active)

\* No connection is lost and none is closed twice: one that both ends hold open is in
\* exactly one place, the backlog or one slot, and one the server has closed is in none.
HeldOnce ==
  /\ \A s, r \in Active : clients[s] = clients[r] => s = r
  /\ \A j, l \in DOMAIN backlog : backlog[j] = backlog[l] => j = l
  /\ Queued \cap FdSet = {}
  /\ \A c \in Clients : c \in Queued \cup FdSet <=> cpc[c] # "idle" /\ ~hung[c]

\* The serving loop never blocks in read(), with clients_mutex held and everybody else
\* waiting: a slot it is still to serve holds a connection with data or end of file,
\* also when the slot was filled by ipc_accept_client after select() returned.
ReadNeverBlocks ==
  run_pc = "serve" =>
    \A s \in k .. IPC_MAX_CLIENTS - 1 : clients[s] \in read_fds => Readable(clients[s])

\* A step that drops an open connection with an unanswered request finds the table
\* full or is the cleanup.
DropStep ==
  \A c \in Open :
    (~hung[c] /\ hung'[c] /\ sent[c] \in Commands /\ resp'[c] = "none")
      => Active = Slots \/ main_pc' = "down"

\* A client that waits for the answer to a whole request is disconnected without one
\* only when the table was full as it was accepted, or by ipc_server_cleanup.
DroppedOnlyWhenFull == [][DropStep]_vars

\* A client that has written its request does not wait for ever: it is answered or
\* disconnected, or the server has been stopped.
RequestSettled ==
  \A c \in Clients : cpc[c] = "waiting" ~> (cpc[c] # "waiting" \/ ~running)

\* After ipc_server_stop the thread leaves its loop, so the join of the main thread
\* returns and the cleanup disconnects every client that is left.
StopCompletes ==
  main_pc = "stopped" ~> main_pc = "down" /\ \A c \in Open : hung[c]

\* What the server promises its clients, read off the sockets alone.
Service == INSTANCE RequestService WITH
  Capacity <- IPC_MAX_CLIENTS, stage <- cpc, request <- sent, answer <- resp,
  closed <- hung, serving <- running, over <- main_pc = "down"

\* The thread, the table, the backlog and select() implement the service: whoever is
\* answered gets the answer to its own request and no other, and a connection is ended
\* without one only if its client has left or has cut its request short, if more are
\* open than the table has slots, or with the whole server.
ImplementsService == Service!Spec
=============================================================================
