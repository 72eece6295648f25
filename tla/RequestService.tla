--------------------------- MODULE RequestService ---------------------------
(***************************************************************************)
(* What the request server of storage_daemon promises its clients, with    *)
(* nothing of how ipc_server.c keeps the promise: no thread, no table, no  *)
(* queue of waiting connections and no select().  A conversation is one    *)
(* request and at most one answer, which is the answer to that request;    *)
(* the service ends it, and may end it without an answer for the reasons   *)
(* named here only.                                                        *)
(***************************************************************************)
EXTENDS Naturals, FiniteSets

CONSTANTS
  Clients,   \* client processes, each in one conversation at a time
  Capacity   \* conversations the service can hold (IPC_MAX_CLIENTS)

VARIABLES
  stage,     \* per client: where it is in its conversation
  request,   \* per client: what it has written
  answer,    \* per client: what it can read
  closed,    \* per client: the service has ended the conversation
  serving,   \* nobody has asked the service to stop
  over       \* the service is gone

vars == <<stage, request, answer, closed, serving, over>>

Commands == {"STATUS", "SHUTDOWN", "OTHER"}

\* The conversations the service has not ended.
Held == {c \in Clients : stage[c] # "idle" /\ ~closed[c]}

\* ipc_dispatch_command.
Reply(cmd) == IF cmd \in {"STATUS", "SHUTDOWN"} THEN "OK" ELSE "INVALID_COMMAND"

Init ==
  /\ stage = [c \in Clients |-> "idle"]
  /\ request = [c \in Clients |-> "none"]
  /\ answer = [c \in Clients |-> "none"]
  /\ closed = [c \in Clients |-> FALSE]
  /\ serving = TRUE
  /\ over = FALSE
-----------------------------------------------------------------------------
(* The clients.                                                            *)

Connect(c) ==
  /\ stage[c] = "idle"
  /\ ~over
  /\ stage' = [stage EXCEPT ![c] = "connected"]
  /\ UNCHANGED <<request, answer, closed, serving, over>>

\* One request, whole or cut short.
Ask(c) ==
  /\ stage[c] = "connected"
  /\ ~closed[c]
  /\ \E r \in Commands \cup {"short"} : request' = [request EXCEPT ![c] = r]
  /\ stage' = [stage EXCEPT ![c] = "waiting"]
  /\ UNCHANGED <<answer, closed, serving, over>>

\* The client closes its end, with or without an answer.
Leave(c) ==
  /\ stage[c] \in {"connected", "waiting"}
  /\ stage' = [stage EXCEPT ![c] = "closed"]
  /\ UNCHANGED <<request, answer, closed, serving, over>>

\* A conversation that both sides have ended makes room for the next.
Again(c) ==
  /\ stage[c] = "closed"
  /\ closed[c]
  /\ stage' = [stage EXCEPT ![c] = "idle"]
  /\ request' = [request EXCEPT ![c] = "none"]
  /\ answer' = [answer EXCEPT ![c] = "none"]
  /\ closed' = [closed EXCEPT ![c] = FALSE]
  /\ UNCHANGED <<serving, over>>
-----------------------------------------------------------------------------
(* The service.                                                            *)

\* The service ends the conversation with c, and stops when it was told to.
Close(c) ==
  /\ c \in Held
  /\ ~over
  /\ closed' = [closed EXCEPT ![c] = TRUE]
  /\ serving' = (serving /\ request[c] # "SHUTDOWN")
  /\ UNCHANGED <<stage, request, over>>

\* A client that waits for the answer to a whole request gets the one to its request.
Answer(c) ==
  /\ stage[c] = "waiting"
  /\ request[c] \in Commands
  /\ answer' = [answer EXCEPT ![c] = Reply(request[c])]
  /\ Close(c)

\* The client has left, or has not written a whole request: there is nobody, or
\* nothing, to answer.  The request of a client that has left is still carried out.
Discard(c) ==
  /\ stage[c] = "closed" \/ request[c] = "short"
  /\ UNCHANGED answer
  /\ Close(c)

\* The service holds more conversations than it has room for, and ends one of them
\* without looking at its request.
Refuse(c) ==
  /\ Cardinality(Held) > Capacity
  /\ c \in Held
  /\ ~over
  /\ closed' = [closed EXCEPT ![c] = TRUE]
  /\ UNCHANGED <<stage, request, answer, serving, over>>

\* The daemon stops the service.
Stop ==
  /\ ~over
  /\ serving' = FALSE
  /\ UNCHANGED <<stage, request, answer, closed, over>>

\* The stopped service is gone, and with it every conversation.
End ==
  /\ ~over
  /\ ~serving
  /\ over' = TRUE
  /\ closed' = [c \in Clients |-> stage[c] # "idle"]
  /\ UNCHANGED <<stage, request, answer, serving>>
-----------------------------------------------------------------------------
Next ==
  \/ \E c \in Clients :
       \/ Connect(c) \/ Ask(c) \/ Leave(c) \/ Again(c)
       \/ Answer(c) \/ Discard(c) \/ Refuse(c)
  \/ Stop
  \/ End

Spec == Init /\ [][Next]_vars
=============================================================================
