------------------------- MODULE ModbusServer_proofs -------------------------
(***************************************************************************)
(* Theorems about ModbusServer for any number of server tasks: its type    *)
(* invariant, that no start is refused for a task that has ended, and that *)
(* there is one server as long as every stop found its server gone.        *)
(***************************************************************************)
EXTENDS ModbusServer, TLAPS

(* What the steps preserve: the handle, when set, is that of a live task,  *)
(* and as long as no stop has ended before its server, the live task is    *)
(* the one of the handle.                                                  *)
HandleOfLive == \A i \in Live : s_server_task_handle = i
ModbusInv == ModbusTypeOK /\ RefusedForServer /\ (~ forgotten => HandleOfLive)

-----------------------------------------------------------------------------
(* The places the steps name are places of the tasks.                      *)
LEMMA PlaceNames ==
  /\ {"idle", "init", "init failed", "start", "stopping"} \subseteq CallerPlaces
  /\ {"none", "check", "select", "accept", "serve", "cleanup"} \subseteq ServerPlaces
  /\ "httpd" \in Callers
BY DEF CallerPlaces, ServerPlaces, Callers

(* A caller that goes to a place of the callers stays well typed.          *)
LEMMA GoesTyped ==
  ASSUME caller \in [Callers -> CallerPlaces], NEW c, NEW from, NEW to,
         to \in CallerPlaces, Goes(c, from, to)
  PROVE  caller' \in [Callers -> CallerPlaces]
BY DEF Goes

(* So does a server task that moves to a place of the servers.             *)
LEMMA MovesTyped ==
  ASSUME server \in [Servers -> ServerPlaces], NEW i, NEW from, NEW to,
         to \in ServerPlaces, Moves(i, from, to)
  PROVE  server' \in [Servers -> ServerPlaces]
BY DEF Moves

(* A server task that moves from one place to another that is not "none"   *)
(* was alive, and leaves the live tasks as they are.                       *)
LEMMA MovesKeepLive ==
  ASSUME server \in [Servers -> ServerPlaces], NEW i \in Servers, NEW from, NEW to,
         from # "none", to # "none", Moves(i, from, to)
  PROVE  Live' = Live
BY DEF Moves, Live

(* Nothing that leaves the live tasks, the handle and the history alone    *)
(* changes the two invariants about them.                                  *)
LEMMA SameHandles ==
  ASSUME ModbusInv, Live' = Live, UNCHANGED <<s_server_task_handle, forgotten>>
  PROVE  RefusedForServer' /\ (~ forgotten' => HandleOfLive')
BY DEF ModbusInv, RefusedForServer, HandleOfLive

-----------------------------------------------------------------------------
(* Init establishes the invariant.                                         *)
LEMMA ModbusInitially == Init => ModbusInv
<1> SUFFICES ASSUME Init PROVE ModbusInv
  OBVIOUS
<1>1. ModbusTypeOK
  BY PlaceNames DEF Init, ModbusTypeOK
<1>2. Live = {}
  BY DEF Init, Live
<1>3. RefusedForServer /\ HandleOfLive
  BY <1>2 DEF Init, RefusedForServer, HandleOfLive
<1> QED
  BY <1>1, <1>3 DEF ModbusInv

(* A caller's steps that create no task.                                   *)
LEMMA CallersStep ==
  ASSUME ModbusInv, NEW c \in Callers,
         \/ CallStart(c) \/ InitServer(c) \/ InitFails(c) \/ BindFails(c)
         \/ CloseUnbound(c) \/ StartRefused(c) \/ StartFails(c) \/ CallStop
  PROVE  ModbusInv'
<1>1. ModbusTypeOK
  BY DEF ModbusInv
<1>2. /\ UNCHANGED <<server, s_server_task_handle, forgotten>>
      /\ open' \in [Servers -> BOOLEAN]
      /\ s_running' \in BOOLEAN /\ s_listen_socket' \in BOOLEAN
  BY <1>1 DEF ModbusTypeOK, CallStart, InitServer, InitFails, BindFails, CloseUnbound,
     StartRefused, StartFails, CallStop, CloseListenSocket, serverVars
<1>3. PICK from, to : to \in CallerPlaces /\ \E d : Goes(d, from, to)
  BY PlaceNames DEF CallStart, InitServer, InitFails, BindFails, CloseUnbound,
     StartRefused, StartFails, CallStop
<1>4. caller' \in [Callers -> CallerPlaces]
  BY <1>1, <1>3, GoesTyped DEF ModbusTypeOK
<1>5. ModbusTypeOK'
  BY <1>1, <1>2, <1>4 DEF ModbusTypeOK
<1>6. Live' = Live
  BY <1>2 DEF Live
<1> QED
  BY <1>2, <1>5, <1>6, SameHandles DEF ModbusInv

(* The start that creates the server task.                                 *)
LEMMA StartServerStep ==
  ASSUME ModbusInv, NEW c \in Callers, StartServer(c)
  PROVE  ModbusInv'
<1>1. ModbusTypeOK
  BY DEF ModbusInv
<1>2. PICK i \in Servers \ Live :
        s_server_task_handle' = i /\ server' = [server EXCEPT ![i] = "check"]
  BY DEF StartServer
<1>3. caller' \in [Callers -> CallerPlaces]
  <2>1. Goes(c, "start", "idle")
    BY DEF StartServer
  <2> QED
    BY <1>1, <2>1, GoesTyped, PlaceNames DEF ModbusTypeOK
<1>4. server' \in [Servers -> ServerPlaces]
  BY <1>1, <1>2, PlaceNames DEF ModbusTypeOK
<1>5. ModbusTypeOK'
  BY <1>1, <1>2, <1>3, <1>4 DEF ModbusTypeOK, StartServer
<1>6. Live' = Live \union {i}
  BY <1>1, <1>2 DEF ModbusTypeOK, Live
<1>7. RefusedForServer'
  BY <1>2, <1>6 DEF RefusedForServer
<1>8. ASSUME ~ forgotten PROVE Live = {}
  <2>1. HandleOfLive /\ s_server_task_handle = NoTask
    BY <1>8 DEF ModbusInv, StartServer
  <2> QED
    BY <2>1, ServerAssumption DEF HandleOfLive, Live
<1>9. ~ forgotten' => HandleOfLive'
  BY <1>2, <1>6, <1>8 DEF HandleOfLive, StartServer
<1> QED
  BY <1>5, <1>7, <1>9 DEF ModbusInv

(* The end of the second that a stop waits.                                *)
LEMMA StopEndsStep ==
  ASSUME ModbusInv, StopEnds
  PROVE  ModbusInv'
<1>1. ModbusTypeOK
  BY DEF ModbusInv
<1>2. caller' \in [Callers -> CallerPlaces]
  <2>1. Goes("httpd", "stopping", "idle")
    BY DEF StopEnds
  <2> QED
    BY <1>1, <2>1, GoesTyped, PlaceNames DEF ModbusTypeOK
<1>3. ModbusTypeOK'
  BY <1>1, <1>2 DEF ModbusTypeOK, StopEnds, serverVars
<1>4. RefusedForServer'
  BY DEF RefusedForServer, StopEnds
<1>5. Live' = Live
  BY DEF StopEnds, serverVars, Live
<1>6. ~ forgotten' => HandleOfLive'
  BY <1>5 DEF StopEnds, HandleOfLive
<1> QED
  BY <1>3, <1>4, <1>6 DEF ModbusInv

(* The steps of a server task but its last.                                *)
LEMMA ServersStep ==
  ASSUME ModbusInv, NEW i \in Servers,
         \/ CheckRunning(i) \/ SelectReturns(i) \/ ConnectionReported(i)
         \/ Accept(i) \/ AcceptFails(i) \/ Serve(i)
  PROVE  ModbusInv'
<1>1. ModbusTypeOK
  BY DEF ModbusInv
<1>2. /\ UNCHANGED <<s_running, s_listen_socket, s_server_task_handle, caller, forgotten>>
      /\ open' \in [Servers -> BOOLEAN]
  BY <1>1 DEF ModbusTypeOK, CheckRunning, SelectReturns, ConnectionReported, Accept,
     AcceptFails, Serve
<1>3. PICK from, to : /\ from # "none" /\ to # "none" /\ to \in ServerPlaces
                      /\ Moves(i, from, to)
  BY PlaceNames DEF CheckRunning, SelectReturns, ConnectionReported, Accept, AcceptFails, Serve
<1>4. server' \in [Servers -> ServerPlaces] /\ Live' = Live
  BY <1>1, <1>3, MovesTyped, MovesKeepLive DEF ModbusTypeOK
<1>5. ModbusTypeOK'
  BY <1>1, <1>2, <1>4 DEF ModbusTypeOK
<1> QED
  BY <1>2, <1>4, <1>5, SameHandles DEF ModbusInv

(* The last step of a server task, which clears the handle.                *)
LEMMA EndServerStep ==
  ASSUME ModbusInv, NEW i \in Servers, EndServer(i)
  PROVE  ModbusInv'
<1>1. ModbusTypeOK
  BY DEF ModbusInv
<1>2. server' \in [Servers -> ServerPlaces]
  <2>1. Moves(i, "cleanup", "none")
    BY DEF EndServer
  <2> QED
    BY <1>1, <2>1, MovesTyped, PlaceNames DEF ModbusTypeOK
<1>3. ModbusTypeOK'
  BY <1>1, <1>2 DEF ModbusTypeOK, EndServer
<1>4. RefusedForServer'
  BY DEF RefusedForServer, EndServer
<1>5. i \in Live /\ Live' = Live \ {i}
  BY <1>1 DEF ModbusTypeOK, EndServer, Moves, Live
<1>6. ~ forgotten' => HandleOfLive'
  BY <1>5 DEF ModbusInv, HandleOfLive, EndServer
<1> QED
  BY <1>3, <1>4, <1>6 DEF ModbusInv

-----------------------------------------------------------------------------
(* Every step keeps the invariant.                                         *)
LEMMA ModbusStep == ModbusInv /\ [Next]_modbusVars => ModbusInv'
<1> SUFFICES ASSUME ModbusInv, [Next]_modbusVars PROVE ModbusInv'
  OBVIOUS
<1>1. ASSUME NEW c \in Callers, CallStart(c) \/ Starting(c) PROVE ModbusInv'
  BY <1>1, CallersStep, StartServerStep DEF Starting
<1>2. CASE CallStop
  <2>1. "httpd" \in Callers
    BY PlaceNames
  <2> QED
    BY <1>2, <2>1, CallersStep
<1>3. CASE StopEnds
  BY <1>3, StopEndsStep
<1>4. ASSUME NEW i \in Servers, ServerTask(i) \/ Accept(i) \/ Serve(i) PROVE ModbusInv'
  BY <1>4, ServersStep, EndServerStep DEF ServerTask
<1>5. CASE UNCHANGED modbusVars
  <2>1. ModbusTypeOK'
    BY <1>5 DEF ModbusInv, ModbusTypeOK, modbusVars, serverVars
  <2>2. Live' = Live /\ UNCHANGED <<s_server_task_handle, forgotten>>
    BY <1>5 DEF modbusVars, serverVars, Live
  <2> QED
    BY <2>1, <2>2, SameHandles DEF ModbusInv
<1> QED
  BY <1>1, <1>2, <1>3, <1>4, <1>5 DEF Next

(* The invariant holds in every reachable state.                           *)
THEOREM ModbusInvariant == Spec => []ModbusInv
BY ModbusInitially, ModbusStep, PTL DEF Spec

(* Type correctness of the server's variables.                             *)
THEOREM ModbusTypeCorrect == Spec => []ModbusTypeOK
<1>1. ModbusInv => ModbusTypeOK
  BY DEF ModbusInv
<1> QED
  BY <1>1, ModbusInvariant, PTL

(* modbus_tcp_start answers "already running" for a task that exists,      *)
(* however init, start, stop and the tasks' own ends interleave.           *)
THEOREM RefusedForLiveServer == Spec => []RefusedForServer
<1>1. ModbusInv => RefusedForServer
  BY DEF ModbusInv
<1> QED
  BY <1>1, ModbusInvariant, PTL

(* There are two servers only after a modbus_tcp_stop whose second was     *)
(* over before its server had ended.                                       *)
THEOREM OneServerUnlessForgotten == Spec => []OneServer
<1>1. ModbusInv => OneServer
  BY DEF ModbusInv, OneServer, HandleOfLive
<1> QED
  BY <1>1, ModbusInvariant, PTL

=============================================================================
