----------------------------- MODULE EipTarget -----------------------------
(***************************************************************************)
(* The EtherNet/IP target: the connection manager and the encapsulation    *)
(* layer in the one OpENer task, with the resets, the link events and the  *)
(* reboots that end them.                                                  *)
(***************************************************************************)
EXTENDS Encapsulation

Init == CMInit

(* SampleApplicationNotifyLinkDown, called by the Ethernet event task at   *)
(* any point of the OpENer task's loop.                                    *)
NotifyLinkDown ==
  /\ fault = "none"
  /\ active' = 0
  /\ UNCHANGED <<conn, list, cursor, desc, udpIo, sessions, fault>>

(* Reset service of type 0: CloseAllConnections, then a scheduled restart. *)
ResetDevice ==
  /\ Running
  /\ \E o \in Originators : HasSession(o)
  /\ LET S == Discard(Stack, Linked(list)) IN
       /\ conn' = S.conn /\ list' = S.list /\ desc' = S.desc
       /\ active' = 0
  /\ UNCHANGED <<cursor, udpIo, sessions, fault>>

(* Reset service of type 1 forgets the connections without closing them.   *)
ResetDeviceToInitialConfiguration ==
  /\ Running
  /\ \E o \in Originators : HasSession(o)
  /\ active' = 0
  /\ UNCHANGED <<conn, list, cursor, desc, udpIo, sessions, fault>>

(* A panic reboots the device; so does, at any time, esp_restart after a   *)
(* reset service or a loss of power.                                       *)
PanicReboot == fault \in {"null node", "freed node", "assertion"} /\ Panic("none")
Restart == Panic("none")

Next ==
  \/ CMNext
  \/ EncapNext
  \/ NotifyLinkDown
  \/ ResetDevice
  \/ ResetDeviceToInitialConfiguration
  \/ PanicReboot
  \/ Restart

Spec == Init /\ [][Next]_cmVars

(* The loop of the OpENer task calls ManageConnections every tick and its  *)
(* walk goes on to the end of the list; a panic always reboots.  A visit   *)
(* is possible while the walk stands on a node, so its weak fairness is    *)
(* spelled out: the walk ends again and again or makes step after step.    *)
Walking == fault = "none" /\ cursor # {}

Fairness ==
  /\ WF_cmVars(ManageConnections)
  /\ []<>(~ Walking) \/ []<><<Visit>>_cmVars
  /\ WF_cmVars(PanicReboot)

FairSpec == Spec /\ Fairness
-----------------------------------------------------------------------------
(* Types.  The list is a function from its nodes to the nodes behind each. *)
TypeOK ==
  /\ conn \in [Slots -> CipConnectionObject]
  /\ Linked(list) \subseteq Slots
  /\ list \in [Linked(list) -> SUBSET Linked(list)]
  /\ cursor \subseteq Linked(list)
  /\ desc \in [Descriptors -> Originators \cup {"free", "udp"}]
  /\ udpIo \in Sockets
  /\ sessions \in [SessionHandles -> Sockets]
  /\ active \in Nat
  /\ fault \in Faults

-----------------------------------------------------------------------------
(* The list of active connections holds exactly the pool objects that are  *)
(* in use, timed out ones included, and its nodes are in one order: no     *)
(* close, timeout or reclaim of a slot leaves a dangling node behind,      *)
(* inserts an object twice or makes a walk go round in a circle            *)
(* (AddNewActiveConnection, RemoveFromActiveConnections).                  *)
ListConsistent ==
  /\ \A s \in Slots : s \in Linked(list) <=> conn[s].state # "NonExistent"
  /\ \A s \in Linked(list) : s \notin list[s]
  /\ \A s, t \in Linked(list) : s # t => (s \in list[t] <=> t \notin list[s])
  /\ \A s \in Linked(list) : \A t \in list[s] : list[t] \subseteq list[s]

(* At most one linked multicast connection holds the producing socket of   *)
(* the input, whoever opened, took over, timed out, was handed the socket  *)
(* or closed: two of them would both send the same connection id           *)
(* (OpenProducingMulticastConnection, transfer_master_connection).         *)
SingleMulticastProducer ==
  \A s, t \in Producers(Stack, {Multicast}) : s = t

EstablishedIo == {s \in IoSlots : conn[s].state = "Established"}

(* While all scanners ask for multicast, an established I/O connection is  *)
(* never left without a holder of the producing socket, and the holder is  *)
(* not a listen only connection: hand-over and cascaded closes cover every *)
(* order of closes and timeouts (CloseIoConnection,                        *)
(* HandleIoConnectionTimeOut).                                             *)
ProducerExists ==
  EstablishedIo # {} =>
    Producers(Stack, {Multicast}) \cap NonListenOnlySlots # {}

(* What the application counts, and the identity object reports, never     *)
(* exceeds the number of established I/O connections, however often the    *)
(* stack announces the same close (CheckIoConnectionEvent).                *)
ActiveNotAboveEstablished == active <= Cardinality(EstablishedIo)

-----------------------------------------------------------------------------
(* The exclusive owner point implements ExclusiveOwnership: the state of   *)
(* the pool's one object is the phase of the ownership                     *)
(* (GetExclusiveOwnerConnection, GetConnectedOutputAssembly).              *)
Owner == conn[OwnerSlot].originator
Phase == [NonExistent |-> "free", Established |-> "held", TimedOut |-> "lapsed"]

Ownership == INSTANCE ExclusiveOwnership WITH
  Scanners <- Originators, NoOwner <- Nobody,
  owner <- Owner, phase <- Phase[conn[OwnerSlot].state]

ImplementsOwnership == Ownership!Spec

(* An input only connection of a scanner ends by that scanner's own close, *)
(* by a receive on its own socket that fails, with the owner of the input  *)
(* timing out, or with a reset: a close or a timeout of any other          *)
(* connection leaves it alone (CloseIoConnection,                          *)
(* HandleIoConnectionTimeOut).                                             *)
OwnerTimesOut ==
  conn[OwnerSlot].state = "Established" /\ conn'[OwnerSlot].state = "TimedOut"

InputOnlyClosed(s) ==
  conn[s].state = "Established" /\ conn'[s].state = "NonExistent"

InputOnlyOutlivesOthers ==
  [][\A s \in InputSlots : InputOnlyClosed(s) =>
       \/ \E n \in Serials : ForwardClose(conn[s].originator, n)
       \/ ReceiveOnClosedDescriptor(s)
       \/ OwnerTimesOut
       \/ Linked(list') = {}]_cmVars

(* A scanner that stops sending in-sequence packets loses its connection,  *)
(* although late packets keep arriving: the connection times out, or its   *)
(* inactivity watchdog is reloaded again and again                         *)
(* (HandleReceivedConnectedData, ManageConnections).                       *)
JustHeard(s) == conn[s].heard = "in step" /\ conn[s].watchdog = Watchdog

SilentConnectionEnds ==
  \A s \in IoSlots :
    []<>(conn[s].state # "Established") \/ []<>JustHeard(s)

-----------------------------------------------------------------------------
(* With one connection point configured for all three types, as the        *)
(* application does, only the owner's object is ever used; then:           *)

(* the socket numbers an established owner holds are open UDP sockets and  *)
(* the shared descriptor is one of them, whatever closes around it         *)
(* (CreateUdpSocket, CloseUdpSocket);                                      *)
OwnerKeepsItsSockets ==
  conn[OwnerSlot].state = "Established" =>
    /\ udpIo = conn[OwnerSlot].consuming
    /\ udpIo = conn[OwnerSlot].producing
    /\ desc[udpIo] = "udp"

(* the socket of a registered session is an open TCP socket: no close of   *)
(* an I/O connection closes a number that now belongs to a session         *)
(* (CloseCommunicationChannelsAndRemoveFromActiveConnectionsList);         *)
SessionSocketsOpen ==
  \A d \in RegisteredSockets : desc[d] \in Originators

(* and the node pool, one node per connection point, is never exhausted    *)
(* (CipConnectionObjectListArrayAllocator).                                *)
NoNullNode == fault # "null node"

-----------------------------------------------------------------------------
(* What comments, assertions and documents say and the code does not do.   *)

(* ManageConnections is called periodically: the task never stops.         *)
NeverHangs == fault # "hung"

=============================================================================
