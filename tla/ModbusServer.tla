---------------------------- MODULE ModbusServer ----------------------------
(***************************************************************************)
(* The life of the Modbus TCP server (modbus_tcp.c): the event task that   *)
(* starts it whenever the services are initialised (main.c), the web       *)
(* server that starts and stops it (webui_api.c), and the server tasks.    *)
(* The code between taking and giving s_modbus_mutex is one step, except   *)
(* where the mutex is given back before the work is done; the server tasks *)
(* read s_listen_socket without it.  Which client is served is left out,   *)
(* and the saved setting too: nothing but GET /api/modbus reads it.        *)
(***************************************************************************)
EXTENDS Naturals, FiniteSets

CONSTANTS
  Servers,   \* the server tasks there is memory for
  NoTask     \* NULL

ASSUME ServerAssumption == NoTask \notin Servers

VARIABLES
  s_running,
  s_listen_socket,        \* is there a listening socket?
  s_server_task_handle,
  server,                 \* where each server task is
  open,                   \* is the listening socket it waits on still open?
  caller,                 \* where the tasks that start and stop the server are
  forgotten               \* history: has a stop ended before its server?

serverVars == <<server, open>>
modbusVars == <<s_running, s_listen_socket, s_server_task_handle, server, open, caller,
                forgotten>>

Callers == {"event", "httpd"}

CallerPlaces == {"idle", "init", "init failed", "start", "stopping"}

ServerPlaces == {"none", "check", "select", "accept", "serve", "cleanup"}

(* The mutex has been created. *)
Init ==
  /\ s_running = FALSE /\ s_listen_socket = FALSE /\ s_server_task_handle = NoTask
  /\ server = [i \in Servers |-> "none"] /\ open = [i \in Servers |-> FALSE]
  /\ caller = [c \in Callers |-> "idle"]
  /\ forgotten = FALSE

Live == {i \in Servers : server[i] # "none"}

Goes(c, from, to) == caller[c] = from /\ caller' = [caller EXCEPT ![c] = to]

-----------------------------------------------------------------------------
(* modbus_tcp_init and modbus_tcp_start, one after the other. *)
CallStart(c) ==
  /\ Goes(c, "idle", "init")
  /\ UNCHANGED <<s_running, s_listen_socket, s_server_task_handle, serverVars, forgotten>>

InitServer(c) ==
  /\ Goes(c, "init", "start")
  /\ s_listen_socket' = TRUE
  /\ UNCHANGED <<s_running, s_server_task_handle, serverVars, forgotten>>

(* No socket to be had. *)
InitFails(c) ==
  /\ ~ s_listen_socket
  /\ Goes(c, "init", "idle")
  /\ UNCHANGED <<s_running, s_listen_socket, s_server_task_handle, serverVars, forgotten>>

(* setsockopt, bind or listen fails: the mutex is given back before the    *)
(* socket is closed.                                                       *)
BindFails(c) ==
  /\ ~ s_listen_socket
  /\ Goes(c, "init", "init failed")
  /\ s_listen_socket' = TRUE
  /\ UNCHANGED <<s_running, s_server_task_handle, serverVars, forgotten>>

CloseListenSocket ==
  /\ s_listen_socket' = FALSE
  /\ open' = [i \in Servers |-> FALSE]

CloseUnbound(c) ==
  /\ Goes(c, "init failed", "idle")
  /\ CloseListenSocket
  /\ UNCHANGED <<s_running, s_server_task_handle, server, forgotten>>

StartRefused(c) ==
  /\ ~ s_listen_socket \/ s_server_task_handle # NoTask
  /\ Goes(c, "start", "idle")
  /\ UNCHANGED <<s_running, s_listen_socket, s_server_task_handle, serverVars, forgotten>>

(* The handle not looked at. *)
StartAnother(c) ==
  /\ s_listen_socket
  /\ Goes(c, "start", "idle")
  /\ s_running' = TRUE
  /\ \E i \in Servers \ Live :
       /\ s_server_task_handle' = i
       /\ server' = [server EXCEPT ![i] = "check"]
  /\ UNCHANGED <<s_listen_socket, open, forgotten>>

StartServer(c) ==
  /\ s_listen_socket /\ s_server_task_handle = NoTask
  /\ Goes(c, "start", "idle")
  /\ s_running' = TRUE
  /\ \E i \in Servers \ Live :
       /\ s_server_task_handle' = i
       /\ server' = [server EXCEPT ![i] = "check"]
  /\ UNCHANGED <<s_listen_socket, open, forgotten>>

(* No memory for the task. *)
StartFails(c) ==
  /\ s_listen_socket /\ s_server_task_handle = NoTask
  /\ Servers \ Live = {}
  /\ Goes(c, "start", "idle")
  /\ s_running' = FALSE
  /\ UNCHANGED <<s_listen_socket, s_server_task_handle, serverVars, forgotten>>

Starting(c) ==
  \/ InitServer(c) \/ InitFails(c) \/ BindFails(c) \/ CloseUnbound(c)
  \/ StartRefused(c) \/ StartServer(c) \/ StartFails(c)

-----------------------------------------------------------------------------
(* modbus_tcp_stop; only the web server calls it. *)
CallStop ==
  /\ Goes("httpd", "idle", IF s_server_task_handle = NoTask THEN "idle" ELSE "stopping")
  /\ s_running' = FALSE
  /\ CloseListenSocket
  /\ UNCHANGED <<s_server_task_handle, server, forgotten>>

(* After a second, whether the server has ended or not. *)
StopEnds ==
  /\ Goes("httpd", "stopping", "idle")
  /\ s_server_task_handle' = NoTask
  /\ forgotten' = (forgotten \/ Live # {})
  /\ UNCHANGED <<s_running, s_listen_socket, serverVars>>

-----------------------------------------------------------------------------
(* modbus_tcp_server_task *)
Moves(i, from, to) == server[i] = from /\ server' = [server EXCEPT ![i] = to]

(* The flag read once, before the loop. *)
CheckOnce(i) ==
  /\ Moves(i, "check", "select")
  /\ open' = [open EXCEPT ![i] = s_listen_socket]
  /\ UNCHANGED <<s_running, s_listen_socket, s_server_task_handle, caller, forgotten>>

CheckRunning(i) ==
  /\ Moves(i, "check", IF s_running THEN "select" ELSE "cleanup")
  /\ open' = [open EXCEPT ![i] = s_listen_socket]
  /\ UNCHANGED <<s_running, s_listen_socket, s_server_task_handle, caller, forgotten>>

(* After a second, or with a client to serve, or because the socket it     *)
(* waits on was closed.                                                    *)
SelectReturns(i) ==
  /\ \/ Moves(i, "select", "check")
     \/ Moves(i, "select", "serve")
     \/ Moves(i, "select", "cleanup") /\ ~ open[i]
  /\ UNCHANGED <<s_running, s_listen_socket, s_server_task_handle, open, caller, forgotten>>

(* accept waits until a client comes if another task has taken the one     *)
(* that select reported.                                                   *)
ConnectionReported(i) ==
  /\ Moves(i, "select", "accept")
  /\ open' = [open EXCEPT ![i] = s_listen_socket]
  /\ UNCHANGED <<s_running, s_listen_socket, s_server_task_handle, caller, forgotten>>

Accept(i) ==
  /\ Moves(i, "accept", "serve")
  /\ UNCHANGED <<s_running, s_listen_socket, s_server_task_handle, open, caller, forgotten>>

AcceptFails(i) ==
  /\ Moves(i, "accept", "check") /\ ~ open[i]
  /\ UNCHANGED <<s_running, s_listen_socket, s_server_task_handle, open, caller, forgotten>>

(* Receiving from a client has no time limit. *)
Serve(i) ==
  /\ Moves(i, "serve", "check")
  /\ UNCHANGED <<s_running, s_listen_socket, s_server_task_handle, open, caller, forgotten>>

(* Deleted without clearing the handle. *)
EndServerKeepingHandle(i) ==
  /\ Moves(i, "cleanup", "none")
  /\ UNCHANGED <<s_running, s_listen_socket, s_server_task_handle, open, caller, forgotten>>

EndServer(i) ==
  /\ Moves(i, "cleanup", "none")
  /\ s_server_task_handle' = NoTask
  /\ UNCHANGED <<s_running, s_listen_socket, open, caller, forgotten>>

ServerTask(i) ==
  \/ CheckRunning(i) \/ SelectReturns(i) \/ ConnectionReported(i)
  \/ AcceptFails(i) \/ EndServer(i)

-----------------------------------------------------------------------------
Next ==
  \/ \E c \in Callers : CallStart(c) \/ Starting(c)
  \/ CallStop
  \/ StopEnds
  \/ \E i \in Servers : ServerTask(i) \/ Accept(i) \/ Serve(i)

Spec == Init /\ [][Next]_modbusVars

(* The tasks are scheduled and select returns after a second at the        *)
(* latest.  Nothing is assumed of the clients, nor that anybody calls.     *)
Fairness ==
  /\ \A c \in Callers : WF_modbusVars(Starting(c))
  /\ WF_modbusVars(StopEnds)
  /\ \A i \in Servers : WF_modbusVars(ServerTask(i))

FairSpec == Spec /\ Fairness

-----------------------------------------------------------------------------
ModbusTypeOK ==
  /\ s_running \in BOOLEAN /\ s_listen_socket \in BOOLEAN
  /\ s_server_task_handle \in Servers \union {NoTask}
  /\ server \in [Servers -> ServerPlaces] /\ open \in [Servers -> BOOLEAN]
  /\ caller \in [Callers -> CallerPlaces]
  /\ forgotten \in BOOLEAN

(* A start that is refused because the server is "already running" is      *)
(* refused for a task that exists: the handle never outlives its task, so  *)
(* the server can always be started again.                                 *)
RefusedForServer == s_server_task_handle # NoTask => s_server_task_handle \in Live

(* As long as every stop has found its server gone after the second it     *)
(* waits, there are never two of them, whoever starts it and however the   *)
(* starts and stops interleave.                                            *)
OneServer == ~ forgotten => \A i, j \in Live : i = j

(* Stopped and not started again, every server task ends, unless it waits  *)
(* for a client: in a receive, or in an accept on the socket that a start  *)
(* opened while modbus_tcp_stop waited for the task.                       *)
Held(i) == server[i] \in {"serve", "accept"}
StoppedServersEnd == <>[](~ s_running) => <>[](\A i \in Live : Held(i))

(* Started again and again (main.c does so each time the link has brought  *)
(* an address), not stopped and with sockets to be had, there is a server  *)
(* at last that runs, however the earlier starts and stops went, unless    *)
(* clients hold all the tasks there is memory for.                         *)
StoppedOrNoSocket == CallStop \/ \E c \in Callers : InitFails(c) \/ BindFails(c)
RestartedServerStays ==
  []<>(\E c \in Callers : caller[c] = "start") /\ <>[][~ StoppedOrNoSocket]_modbusVars
    => <>[](s_running /\ Live # {}) \/ []<>(\A i \in Servers : Held(i))

=============================================================================
