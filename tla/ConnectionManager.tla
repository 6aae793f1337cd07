-------------------------- MODULE ConnectionManager --------------------------
(***************************************************************************)
(* The connection manager of the CIP stack: the pools of connection        *)
(* objects, the list of active connections, the UDP descriptors the I/O    *)
(* connections hold, the hand-over of the multicast producing socket and   *)
(* the watchdog walk of ManageConnections.                                 *)
(*                                                                         *)
(* Every handler of the stack runs to completion in the one OpENer task,   *)
(* so a handler is one step; the walk of ManageConnections is cut into one *)
(* step per list node because what a visit does to the list decides which  *)
(* node the walk reads next.  There is one input (T->O) assembly, as in    *)
(* the application, and one address per originator.                        *)
(***************************************************************************)
EXTENDS Integers, FiniteSets

CONSTANTS
  Originators,      \* scanners; each stands for vendor id, serial and address
  Serials,          \* connection serial numbers an originator uses
  OwnerSlot,        \* g_exlusive_owner_connections[0].connection_data
  InputSlots,       \* g_input_only_connections[0].connection_data[]
  ListenSlots,      \* g_listen_only_connections[0].connection_data[]
  ExplicitSlots,    \* explicit_connection_object_pool[]
  OwnerPoint,       \* O->T assembly of the exclusive owner connection point
  InputPoint,       \* ... of the input only connection point
  ListenPoint,      \* ... of the listen only connection point
  TtoOTypes,        \* T->O connection types the originators ask for
  PacketOrders,     \* may a received I/O packet be late?  a set of Booleans
  Descriptors,      \* socket descriptors of the IP stack
  SessionHandles,   \* 1 .. OPENER_NUMBER_OF_SUPPORTED_SESSIONS
  Watchdog,         \* regular inactivity watchdog, in ManageConnections calls
  InitialWatchdog   \* watchdog of a connection that has not received yet

Slots == {OwnerSlot} \cup InputSlots \cup ListenSlots \cup ExplicitSlots
IoSlots == Slots \ ExplicitSlots
NonListenOnlySlots == {OwnerSlot} \cup InputSlots

kEipInvalidSocket == -1
Multicast == "Multicast"
PointToPoint == "PointToPoint"
Nobody == "nobody"
Faults == {"none", "null node", "freed node", "assertion", "hung"}

ASSUME PoolsAssumption ==
  /\ Slots \subseteq Nat
  /\ IsFiniteSet(Slots)
  /\ OwnerSlot \notin InputSlots \cup ListenSlots \cup ExplicitSlots
  /\ InputSlots \cap (ListenSlots \cup ExplicitSlots) = {}
  /\ ListenSlots \cap ExplicitSlots = {}
ASSUME NetworkAssumption ==
  /\ Descriptors \subseteq Nat
  /\ SessionHandles \subseteq Nat
  /\ 0 \notin SessionHandles
  /\ TtoOTypes \subseteq {Multicast, PointToPoint}
  /\ PacketOrders \subseteq BOOLEAN
  /\ Originators \cap {Nobody, "free", "udp"} = {}
  /\ Nobody \notin Serials
ASSUME WatchdogAssumption ==
  /\ Watchdog \in Nat \ {0}
  /\ InitialWatchdog \in Nat \ {0}
  /\ InitialWatchdog >= Watchdog

VARIABLES
  conn,       \* the connection objects of all pools
  list,       \* connection_list: each linked object -> the objects behind it
  cursor,     \* node the walk of ManageConnections stands on ({}: no walk)
  desc,       \* what each descriptor is: free, a UDP socket, a TCP peer
  udpIo,      \* g_network_status.udp_io_messaging
  sessions,   \* g_registered_sessions: handle -> descriptor
  active,     \* s_active_io_connections of the application
  fault       \* a panic (NULL node, failed assertion) or an endless loop

cmVars == <<conn, list, cursor, desc, udpIo, sessions, active, fault>>

Watchdogs == 0 .. InitialWatchdog
Sockets == Descriptors \cup {kEipInvalidSocket}

(* What the last accepted packet did to the pair of watchdogs: nothing was *)
(* received yet, both were reloaded together, or a late packet reloaded    *)
(* only last_package_watchdog_timer.                                       *)
Heard == {"nothing", "in step", "late"}

CipConnectionObject ==
  [state : {"NonExistent", "Established", "TimedOut"},
   originator : Originators \cup {Nobody}, serial : Serials \cup {Nobody},
   tToO : {Multicast, PointToPoint},
   consuming : Sockets, producing : Sockets,
   watchdog : Watchdogs, heard : Heard,
   session : SessionHandles \cup {0}]

(* ConnectionObjectInitializeEmpty *)
EmptyConnection ==
  [state |-> "NonExistent", originator |-> Nobody, serial |-> Nobody,
   tToO |-> PointToPoint, consuming |-> kEipInvalidSocket,
   producing |-> kEipInvalidSocket, watchdog |-> 0, heard |-> "nothing",
   session |-> 0]

-----------------------------------------------------------------------------
(* The doubly linked list, newest node first.  A list maps each linked     *)
(* object to the set of the objects behind it.                             *)

Linked(l) == DOMAIN l

(* The node of A that a walk from the head meets first, as a set. *)
Front(l, A) == {s \in A : A \ {s} \subseteq l[s]}

NextNode(l, s) == Front(l, l[s])

InsertAtHead(l, s) ==
  [x \in Linked(l) \cup {s} |-> IF x = s THEN Linked(l) ELSE l[x]]

RemoveNodes(l, D) == [x \in Linked(l) \ D |-> l[x] \ D]

(* Mutant: the nodes of the I/O connections are forgotten. *)
NodesOfExplicitOnly == Cardinality(ExplicitSlots)

(* The static node pool has one node per explicit object but one per       *)
(* connection point, not per object, of the three I/O types.               *)
kNodesAmount == Cardinality(ExplicitSlots) + 3

-----------------------------------------------------------------------------
(* The stack's state as a record, for the functions a handler calls in     *)
(* sequence.                                                               *)

Stack == [conn |-> conn, list |-> list, desc |-> desc,
          sessions |-> sessions, active |-> active]

Becomes(S) ==
  /\ conn' = S.conn
  /\ list' = S.list
  /\ desc' = S.desc
  /\ sessions' = S.sessions
  /\ active' = S.active

Lowest(A) == {a \in A : \A b \in A : a <= b}

(* Mutant: the count is decremented without looking at it. *)
IoConnectionsGoneUnguarded(count, n) == count - n

(* CheckIoConnectionEvent with a Closed or TimedOut event, n times *)
IoConnectionsGone(count, n) == IF count > n THEN count - n ELSE 0

(* Closing a descriptor closes whatever the number means now. *)
CloseSockets(d, fds) == [f \in Descriptors |-> IF f \in fds THEN "free" ELSE d[f]]

(* n announcements of a closed or timed out I/O connection *)
Announce(S, n) ==
  [conn |-> S.conn, list |-> S.list, desc |-> S.desc, sessions |-> S.sessions,
   active |-> IoConnectionsGone(S.active, n)]

(* ConnectionObjectSetState *)
SetState(S, c, state) ==
  [conn |-> [S.conn EXCEPT ![c].state = state], list |-> S.list,
   desc |-> S.desc, sessions |-> S.sessions, active |-> S.active]

SocketsOf(S, D) == {S.conn[s].consuming : s \in D} \cup {S.conn[s].producing : s \in D}

(* Mutant: the node of a closed connection stays linked. *)
DiscardKeepingNodes(S, D) ==
  [S EXCEPT
     !.conn = [s \in Slots |-> IF s \in D THEN EmptyConnection ELSE S.conn[s]],
     !.desc = CloseSockets(S.desc, SocketsOf(S, D))]

(* CloseCommunicationChannelsAndRemoveFromActiveConnectionsList for each   *)
(* connection of D; CloseConnection for explicit ones, which own no socket.*)
Discard(S, D) ==
  [conn |-> [s \in Slots |-> IF s \in D THEN EmptyConnection ELSE S.conn[s]],
   list |-> RemoveNodes(S.list, D),
   desc |-> CloseSockets(S.desc, SocketsOf(S, D)),
   sessions |-> S.sessions, active |-> S.active]

(* GetExistingProducerIoConnection: any state, listen only included *)
Producers(S, types) ==
  {s \in Linked(S.list) \cap IoSlots :
     /\ S.conn[s].producing # kEipInvalidSocket
     /\ S.conn[s].tToO \in types}

(* GetNextNonControlMasterConnection *)
NonControlMasters(S) ==
  {s \in Linked(S.list) \cap NonListenOnlySlots :
     /\ S.conn[s].state = "Established"
     /\ S.conn[s].tToO = Multicast
     /\ S.conn[s].producing = kEipInvalidSocket}

(* Mutant: the hand-over forgets that owners control the multicast too. *)
InputOnlyControlsMulticast(S, c) ==
  /\ c \in InputSlots
  /\ S.conn[c].tToO = Multicast
  /\ S.conn[c].producing # kEipInvalidSocket

ControlsMulticast(S, c) ==
  /\ c \in NonListenOnlySlots
  /\ S.conn[c].tToO = Multicast
  /\ S.conn[c].producing # kEipInvalidSocket

(* transfer_master_connection: the heir gets the socket of c *)
TransferMaster(S, c) ==
  LET heir == Front(S.list, NonControlMasters(S)) IN
  [conn |-> [s \in Slots |->
     IF s \in heir THEN [S.conn[s] EXCEPT !.producing = S.conn[c].producing]
     ELSE IF s = c THEN [S.conn[s] EXCEPT !.producing = kEipInvalidSocket]
     ELSE S.conn[s]],
   list |-> S.list, desc |-> S.desc, sessions |-> S.sessions, active |-> S.active]

(* The connections of a type on the input: every linked one, in any state. *)
LinkedListenOnly(S) == Linked(S.list) \cap ListenSlots
LinkedInputOnly(S) == Linked(S.list) \cap InputSlots

(* CloseAllConnectionsForInputWithSameType announces each close and the    *)
(* close function announces it again.                                      *)
CloseAllConnectionsForInput(S, D) ==
  Discard(Announce(S, 2 * Cardinality(D)), D)

(* Mutant: closing an owner closes the input only connections as well. *)
ClosedWithAsOnTimeOut(S, c) ==
  IF c = OwnerSlot THEN LinkedInputOnly(S) \cup LinkedListenOnly(S)
  ELSE IF ControlsMulticast(S, c) /\ NonControlMasters(S) = {}
  THEN LinkedListenOnly(S) ELSE {}

(* CloseIoConnection; what it discards besides c *)
ClosedWith(S, c) ==
  IF ControlsMulticast(S, c) /\ NonControlMasters(S) = {}
  THEN LinkedListenOnly(S) ELSE {}

CloseIoConnection(S, c) ==
  LET S0 == SetState(Announce(S, 1), c, "NonExistent")
      S1 == IF ControlsMulticast(S, c) /\ NonControlMasters(S0) # {}
            THEN TransferMaster(S0, c) ELSE S0
  IN  Discard(CloseAllConnectionsForInput(S1, ClosedWith(S0, c)), {c})

CloseFunction(S, c) ==
  IF c \in ExplicitSlots THEN Discard(S, {c}) ELSE CloseIoConnection(S, c)

-----------------------------------------------------------------------------
(* Sessions, as far as the connection manager touches them. *)

HasSession(o) ==
  \E h \in SessionHandles : sessions[h] # kEipInvalidSocket /\ desc[sessions[h]] = o

(* CloseClass3ConnectionBasedOnSession: the walk reads the next pointer of *)
(* the node it has just freed, so only the first connection is closed.     *)
FirstClass3OfSession(S, h) ==
  Front(S.list, {s \in Linked(S.list) \cap ExplicitSlots : S.conn[s].session = h})

(* CheckForTimedOutConnectionsAndCloseTCPConnections: is c the last of its *)
(* originator that has not timed out?                                      *)
LastOfOriginator(S, c) ==
  ~ \E s \in Linked(S.list) \ {c} :
      /\ S.conn[s].originator = S.conn[c].originator
      /\ S.conn[s].state # "TimedOut"

(* CloseSocket and RemoveSession for every session in H *)
WithoutSessions(S, H) ==
  [conn |-> S.conn, list |-> S.list,
   desc |-> CloseSockets(S.desc, {S.sessions[h] : h \in H}),
   sessions |-> [h \in SessionHandles |->
                   IF h \in H THEN kEipInvalidSocket ELSE S.sessions[h]],
   active |-> S.active]

(* CloseSession for every session in H *)
CloseSessions(S, H) ==
  Discard(WithoutSessions(S, H), UNION {FirstClass3OfSession(S, h) : h \in H})

(* CloseEncapsulationSessionBySockAddr *)
SessionsOf(S, o) ==
  {h \in SessionHandles :
     S.sessions[h] # kEipInvalidSocket /\ S.desc[S.sessions[h]] = o}

-----------------------------------------------------------------------------
(* HandleIoConnectionTimeOut *)

(* Mutant: the application is not told. *)
TimedOutUnannounced(S, c) == SetState(S, c, "TimedOut")

(* Mutant: the sockets are released early, their numbers kept. *)
TimedOutReleasingSockets(S, c) ==
  [SetState(Announce(S, 1), c, "TimedOut") EXCEPT
     !.desc = CloseSockets(@, SocketsOf(S, {c}))]

TimedOut(S, c) == SetState(Announce(S, 1), c, "TimedOut")

(* An owner of packets whose last one reloaded both watchdogs has gone     *)
(* silent altogether: its sessions are closed with its last connection.    *)
SilentOriginatorClosed(S, c) ==
  LET S0 == TimedOut(S, c) IN
  IF S0.conn[c].heard = "in step" /\ LastOfOriginator(S0, c)
  THEN CloseSessions(S0, SessionsOf(S0, S0.conn[c].originator))
  ELSE S0

HandleIoConnectionTimeOut(S, c) ==
  LET S1 == SilentOriginatorClosed(S, c)
      handover == ControlsMulticast(S1, c) /\ NonControlMasters(S1) # {}
  IN  IF handover THEN TransferMaster(S1, c)
      ELSE IF c = OwnerSlot
           THEN CloseAllConnectionsForInput(S1, LinkedInputOnly(S1) \cup LinkedListenOnly(S1))
      ELSE IF ControlsMulticast(S1, c)
           THEN CloseAllConnectionsForInput(S1, LinkedListenOnly(S1))
      ELSE S1

(* The walk that closes the input only connections after an owner has      *)
(* timed out saves the next node first.  Closing the last of them that     *)
(* controls the multicast closes every listen only connection, and the     *)
(* saved node may be one of those.                                         *)
LastInputMaster(S) ==
  LET masters == {s \in LinkedInputOnly(S) : ControlsMulticast(S, s)}
      chain == masters \cup UNION {NonControlMasters(S) \cap S.list[m] : m \in masters}
  IN  {s \in chain : S.list[s] \cap chain = {}}

SavedNodeFreed(S, c) ==
  LET S1 == SilentOriginatorClosed(S, c) IN
  /\ c = OwnerSlot
  /\ ~ ControlsMulticast(S1, c)
  /\ \E m \in LastInputMaster(S1) : NextNode(S1.list, m) \cap ListenSlots # {}

(* Class3ConnectionTimeoutHandler; closing the socket of a session that is *)
(* no longer registered never returns (RemoveSocketTimerFromList).         *)
SessionOfClass3Gone(S, c) ==
  LastOfOriginator(S, c) /\ S.sessions[S.conn[c].session] = kEipInvalidSocket

(* Mutant: the table entry of the closed session is not reset. *)
Class3ConnectionTimeoutKeepingEntry(S, c) ==
  LET S1 == IF LastOfOriginator(S, c)
            THEN [S EXCEPT !.desc = CloseSockets(@, {S.sessions[S.conn[c].session]})]
            ELSE S
  IN  Discard(S1, {c})

Class3ConnectionTimeout(S, c) ==
  LET S1 == IF LastOfOriginator(S, c)
            THEN WithoutSessions(S, {S.conn[c].session}) ELSE S
  IN  Discard(S1, {c})

-----------------------------------------------------------------------------
(* CipStackInit, EncapsulationInit and ApplicationInitialization *)
NoConnections == [s \in Slots |-> EmptyConnection]
EmptyList == [s \in {} |-> {}]

CMInit ==
  /\ conn = NoConnections
  /\ list = EmptyList
  /\ cursor = {}
  /\ desc = [d \in Descriptors |-> "free"]
  /\ udpIo = kEipInvalidSocket
  /\ sessions = [h \in SessionHandles |-> kEipInvalidSocket]
  /\ active = 0
  /\ fault = "none"

(* A panic loses the state; what reboots the device is in EipTarget. *)
Panic(cause) ==
  /\ conn' = NoConnections
  /\ list' = EmptyList
  /\ cursor' = {}
  /\ desc' = [d \in Descriptors |-> "free"]
  /\ udpIo' = kEipInvalidSocket
  /\ sessions' = [h \in SessionHandles |-> kEipInvalidSocket]
  /\ active' = 0
  /\ fault' = cause

(* The task is between two handlers. *)
Running == fault = "none" /\ cursor = {}

-----------------------------------------------------------------------------
(* Forward open *)

Free(pool) == {s \in pool : conn[s].state = "NonExistent"}

(* Mutant: the originator of the timed out connection is not compared. *)
ReclaimableByAnyone(pool, o) == {s \in pool : conn[s].state = "TimedOut"}

Reclaimable(pool, o) ==
  {s \in pool : conn[s].state = "TimedOut" /\ conn[s].originator = o}

FromPool(pool, o) ==
  IF Reclaimable(pool, o) # {} THEN Lowest(Reclaimable(pool, o)) ELSE Lowest(Free(pool))

(* GetIoConnectionForConnectionData: the object an accepted request gets.  *)
(* The exclusive owner point is tried first and an ownership conflict ends *)
(* the search.                                                             *)
IoConnectionFor(o, point) ==
  IF point = OwnerPoint
  THEN Free({OwnerSlot}) \cup Reclaimable({OwnerSlot}, o)
  ELSE IF point = InputPoint THEN FromPool(InputSlots, o)
  ELSE IF point = ListenPoint /\ Producers(Stack, {Multicast, PointToPoint}) # {}
       THEN FromPool(ListenSlots, o)
  ELSE {}

(* CheckForExistingConnection *)
MatchingEstablished(o, n) ==
  \E s \in Linked(list) : conn[s].state = "Established"
                         /\ conn[s].originator = o /\ conn[s].serial = n

Opened(o, n, type, consuming, producing, h) ==
  [EmptyConnection EXCEPT
     !.state = "Established", !.originator = o, !.serial = n, !.tToO = type,
     !.consuming = consuming, !.producing = producing,
     !.watchdog = InitialWatchdog, !.session = h]

(* OpenProducingMulticastConnection and its point-to-point sibling: the    *)
(* producing socket of a new connection in s, with udp the new descriptor. *)
ProducingSocket(S, s, type, udp) ==
  LET master == Front(S.list, Producers(S, {Multicast})) IN
  IF type = PointToPoint \/ Producers(S, {Multicast}) = {} THEN {udp}
  ELSE IF s = OwnerSlot THEN {S.conn[m].producing : m \in master}
  ELSE {kEipInvalidSocket}

(* Mutant: the former master keeps the socket. *)
NobodyDispossessed(S, s, type) == {}

(* An exclusive owner takes the socket away from the master it found. *)
Dispossessed(S, s, type) ==
  IF type = Multicast /\ s = OwnerSlot
  THEN Front(S.list, Producers(S, {Multicast})) ELSE {}

EstablishIoConnection(S, s, new) ==
  [conn |-> [x \in Slots |->
               IF x = s THEN new
               ELSE IF x \in Dispossessed(S, s, new.tToO)
                    THEN [S.conn[x] EXCEPT !.producing = kEipInvalidSocket]
               ELSE S.conn[x]],
   list |-> InsertAtHead(S.list, s),
   desc |-> [S.desc EXCEPT ![new.consuming] = "udp"],
   sessions |-> S.sessions, active |-> S.active + 1]

(* DoublyLinkedListInsertAtHead dereferences what the allocator returns. *)
NodeAvailable(l) == Cardinality(Linked(l)) < kNodesAmount

(* A forward open for an I/O connection.  A timed out connection of the    *)
(* same originator is closed first, whatever becomes of the request after  *)
(* that: it is refused when its parameters do not suit (SetupIoConnection- *)
(* ..., HandleConfigData), or when no descriptor is left, which leaves the *)
(* shared descriptor variable invalid.                                     *)
ForwardOpenIo(o, n, point, type) ==
  /\ Running
  /\ HasSession(o)
  /\ ~ MatchingEstablished(o, n)
  /\ \E s \in IoConnectionFor(o, point) :
       LET S == IF s \in Linked(list) THEN CloseIoConnection(Stack, s) ELSE Stack
           unused == {d \in Descriptors : S.desc[d] = "free"}
       IN  \/ /\ Becomes(S)
              /\ UNCHANGED <<udpIo, cursor, fault>>
           \/ /\ unused = {}
              /\ Becomes(S)
              /\ udpIo' = kEipInvalidSocket
              /\ UNCHANGED <<cursor, fault>>
           \/ \E udp \in Lowest(unused) :
              \E producing \in ProducingSocket(S, s, type, udp) :
                IF NodeAvailable(S.list)
                THEN /\ Becomes(EstablishIoConnection(S, s,
                                  Opened(o, n, type, udp, producing, 0)))
                     /\ udpIo' = udp
                     /\ UNCHANGED <<cursor, fault>>
                ELSE Panic("null node")

(* EstablishClass3Connection *)
ForwardOpenClass3(o, n, h) ==
  /\ Running
  /\ h \in SessionsOf(Stack, o)
  /\ ~ MatchingEstablished(o, n)
  /\ \E s \in Lowest(Free(ExplicitSlots)) :
       IF NodeAvailable(list)
       THEN /\ conn' = [conn EXCEPT ![s] = Opened(o, n, PointToPoint,
                                   kEipInvalidSocket, kEipInvalidSocket, h)]
            /\ list' = InsertAtHead(list, s)
            /\ UNCHANGED <<cursor, desc, udpIo, sessions, active, fault>>
       ELSE Panic("null node")

(* Forward close: the first linked connection with the triad is closed,    *)
(* established or timed out.                                               *)
ForwardClose(o, n) ==
  /\ Running
  /\ HasSession(o)
  /\ \E c \in Front(list, {s \in Linked(list) :
                             conn[s].originator = o /\ conn[s].serial = n}) :
       Becomes(CloseFunction(Stack, c))
  /\ UNCHANGED <<cursor, udpIo, fault>>

-----------------------------------------------------------------------------
(* Received data *)

(* Mutant: a late packet reloads the inactivity watchdog as well. *)
ReceivedIgnoringOrder(c, late) ==
  [c EXCEPT !.watchdog = Watchdog, !.heard = IF late THEN "late" ELSE "in step"]

(* HandleReceivedConnectedData: a packet in sequence reloads both          *)
(* watchdogs, a late one only that of the last packet.  The first packet   *)
(* is in sequence.                                                         *)
Received(c, late) ==
  IF ~late THEN [c EXCEPT !.watchdog = Watchdog, !.heard = "in step"]
  ELSE IF c.watchdog = Watchdog THEN c
  ELSE [c EXCEPT !.heard = "late"]

(* CheckAndHandleConsumingUdpSocket: select reports the consuming socket   *)
(* of c, the datagram is read from the shared descriptor and goes to the   *)
(* connection t it names.                                                  *)
ReceiveIoData(c, t, late) ==
  /\ Running
  /\ c \in Linked(list) /\ conn[c].consuming = udpIo
  /\ udpIo # kEipInvalidSocket /\ desc[udpIo] = "udp"
  /\ t \in Linked(list) \cap IoSlots /\ conn[t].state = "Established"
  /\ late => conn[t].heard # "nothing"
  /\ conn' = [conn EXCEPT ![t] = Received(@, late)]
  /\ UNCHANGED <<list, cursor, desc, udpIo, sessions, active, fault>>

(* The same, with the shared descriptor closed meanwhile: the read fails   *)
(* and the connection whose own socket is readable is closed.  The walk    *)
(* goes on to the node it had saved.                                       *)
ReceiveOnClosedDescriptor(c) ==
  /\ Running
  /\ c \in Front(list, {s \in Linked(list) : conn[s].consuming = conn[c].consuming})
  /\ conn[c].consuming # kEipInvalidSocket /\ desc[conn[c].consuming] = "udp"
  /\ udpIo \in Descriptors => desc[udpIo] = "free"
  /\ IF NextNode(list, c) \cap ClosedWith(Stack, c) # {}
     THEN Panic("freed node")
     ELSE /\ Becomes(CloseIoConnection(Stack, c))
          /\ UNCHANGED <<cursor, udpIo, fault>>

(* NotifyConnectedCommonPacketFormat on an explicit connection *)
ReceiveExplicit(c) ==
  /\ Running
  /\ c \in Linked(list) \cap ExplicitSlots
  /\ HasSession(conn[c].originator)
  /\ conn' = [conn EXCEPT ![c].watchdog = Watchdog]
  /\ UNCHANGED <<list, cursor, desc, udpIo, sessions, active, fault>>

-----------------------------------------------------------------------------
(* ManageConnections *)

ManageConnections ==
  /\ Running
  /\ Linked(list) # {}
  /\ cursor' = Front(list, Linked(list))
  /\ UNCHANGED <<conn, list, desc, udpIo, sessions, active, fault>>

Expired(c) == conn[c].state = "Established" /\ conn[c].watchdog <= 1

VisitAges(c) ==
  /\ ~ Expired(c)
  /\ conn' = IF conn[c].state = "Established"
             THEN [conn EXCEPT ![c].watchdog = @ - 1] ELSE conn
  /\ cursor' = NextNode(list, c)
  /\ UNCHANGED <<list, desc, udpIo, sessions, active, fault>>

VisitTimesOutIo(c) ==
  /\ c \in IoSlots
  /\ Expired(c)
  /\ IF SavedNodeFreed(Stack, c)
     THEN Panic("freed node")
     ELSE /\ Becomes(HandleIoConnectionTimeOut(Stack, c))
          /\ cursor' = NextNode(list', c)
          /\ UNCHANGED <<udpIo, fault>>

(* The handler frees the node the walk stands on, so the walk ends here. *)
VisitTimesOutClass3(c) ==
  /\ c \in ExplicitSlots
  /\ Expired(c)
  /\ IF SessionOfClass3Gone(Stack, c)
     THEN /\ fault' = "hung"
          /\ UNCHANGED <<conn, list, cursor, desc, udpIo, sessions, active>>
     ELSE /\ Becomes(Class3ConnectionTimeout(Stack, c))
          /\ cursor' = {}
          /\ UNCHANGED <<udpIo, fault>>

Visit ==
  /\ fault = "none"
  /\ \E c \in cursor : VisitAges(c) \/ VisitTimesOutIo(c) \/ VisitTimesOutClass3(c)

-----------------------------------------------------------------------------
CMNext ==
  \/ \E o \in Originators, n \in Serials :
       \/ \E point \in {OwnerPoint, InputPoint, ListenPoint}, type \in TtoOTypes :
            ForwardOpenIo(o, n, point, type)
       \/ \E h \in SessionHandles : ForwardOpenClass3(o, n, h)
       \/ ForwardClose(o, n)
  \/ \E c \in IoSlots :
       \/ \E t \in IoSlots, late \in PacketOrders : ReceiveIoData(c, t, late)
       \/ ReceiveOnClosedDescriptor(c)
  \/ \E c \in ExplicitSlots : ReceiveExplicit(c)
  \/ ManageConnections
  \/ Visit

=============================================================================
