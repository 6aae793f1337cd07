------------------------- MODULE Connections_proofs -------------------------
(***************************************************************************)
(* What becomes of the connections of EipTarget, for every value of the    *)
(* constants.  First the refinement: whatever the handlers do to the other *)
(* connections, the owner's object changes hands only as                   *)
(* ExclusiveOwnership allows.  Then every step of the target is described  *)
(* by what it does to the I/O connections (IoStep), and from that follow   *)
(* the bound of the application's count, who may end an input only         *)
(* connection, and that the multicast data keep a producer.                *)
(***************************************************************************)
EXTENDS EipTarget_proofs

(* What a close, or a time-out of another connection, may do to the object *)
(* of the owner: nothing that shows, or empty it.                          *)
SameOwner(S, T) ==
  /\ T.conn[OwnerSlot].state = S.conn[OwnerSlot].state
  /\ T.conn[OwnerSlot].originator = S.conn[OwnerSlot].originator

OwnerFree(S) ==
  S.conn[OwnerSlot].state = "NonExistent" /\ S.conn[OwnerSlot].originator = Nobody

KeepsOwner(S, T) == SameOwner(S, T) \/ OwnerFree(T)

(* The owner's object is an I/O object. *)
LEMMA OwnerIsAnIoSlot == OwnerSlot \in Slots /\ OwnerSlot \in IoSlots
BY PoolsAssumption DEF Slots, IoSlots

(* Discarding connections leaves the owner or frees its object. *)
LEMMA DiscardKeepsOwner ==
  ASSUME NEW S, NEW D, NEW T, T = Discard(S, D)
  PROVE  /\ KeepsOwner(S, T)
         /\ OwnerSlot \in D => OwnerFree(T)
         /\ OwnerSlot \notin D => SameOwner(S, T)
<1>1. T.conn[OwnerSlot] = IF OwnerSlot \in D THEN EmptyConnection ELSE S.conn[OwnerSlot]
  BY OwnerIsAnIoSlot DEF Discard
<1> QED  BY <1>1 DEF KeepsOwner, SameOwner, OwnerFree, EmptyConnection

(* So does closing connections with the double announcement. *)
LEMMA CloseAllKeepsOwner ==
  ASSUME NEW S, NEW D, NEW T, T = CloseAllConnectionsForInput(S, D)
  PROVE  /\ KeepsOwner(S, T)
         /\ OwnerSlot \notin D => SameOwner(S, T)
<1>1. PICK A : A = Announce(S, 2 * Cardinality(D))
  OBVIOUS
<1>2. A.conn = S.conn
  BY <1>1 DEF Announce
<1>3. T = Discard(A, D)
  BY <1>1 DEF CloseAllConnectionsForInput
<1> QED  BY <1>2, <1>3, DiscardKeepsOwner DEF KeepsOwner, SameOwner, OwnerFree

(* The hand-over of the producing socket leaves the owner. *)
LEMMA TransferKeepsOwner ==
  ASSUME NEW S, S \in Stacks, NEW c, NEW T, T = TransferMaster(S, c)
  PROVE  SameOwner(S, T)
<1>1. S.conn[OwnerSlot] \in CipConnectionObject
  BY OwnerIsAnIoSlot, FieldTypes
<1>2. PICK heir : heir = Front(S.list, NonControlMasters(S))
  OBVIOUS
<1>3. T.conn[OwnerSlot] =
        IF OwnerSlot \in heir THEN [S.conn[OwnerSlot] EXCEPT !.producing = S.conn[c].producing]
        ELSE IF OwnerSlot = c THEN [S.conn[OwnerSlot] EXCEPT !.producing = kEipInvalidSocket]
        ELSE S.conn[OwnerSlot]
  BY <1>2, OwnerIsAnIoSlot DEF TransferMaster
<1> QED  BY <1>1, <1>3 DEF SameOwner, CipConnectionObject

(* A change of the state of another object leaves the owner. *)
LEMMA SetStateKeepsOwner ==
  ASSUME NEW S, S \in Stacks, NEW c, NEW state, NEW T, T = SetState(S, c, state)
  PROVE  /\ c # OwnerSlot => SameOwner(S, T)
         /\ c = OwnerSlot => /\ T.conn[OwnerSlot].state = state
                             /\ T.conn[OwnerSlot].originator = S.conn[OwnerSlot].originator
<1>1. S.conn \in [Slots -> CipConnectionObject] /\ OwnerSlot \in Slots
  BY OwnerIsAnIoSlot, FieldTypes
<1>2. T.conn = [S.conn EXCEPT ![c].state = state]
  BY DEF SetState
<1> QED  BY <1>1, <1>2 DEF SameOwner, CipConnectionObject

(* Closing an I/O connection leaves the owner or frees its object. *)
LEMMA CloseIoKeepsOwner ==
  ASSUME NEW S, WellFormed(S), NEW c \in Linked(S.list),
         NEW T, T = CloseIoConnection(S, c)
  PROVE  KeepsOwner(S, T)
<1>1. S \in Stacks /\ c \in Slots /\ WellFormedExcept(S, {}) /\ 1 \in Nat
  BY FieldTypes DEF WellFormed, WellFormedExcept
<1>2. PICK A : A = Announce(S, 1)
  OBVIOUS
<1>3. WellFormedExcept(A, {}) /\ A.conn = S.conn /\ A \in Stacks
  BY <1>1, <1>2, AnnounceIsSafe DEF WellFormedExcept
<1>4. PICK S0 : S0 = SetState(A, c, "NonExistent")
  OBVIOUS
<1>5. S0 \in Stacks
  <2>1. WellFormedExcept(S0, {c})
    BY <1>1, <1>3, <1>4, SetStateIsSafe
  <2> QED  BY <2>1 DEF WellFormedExcept
<1>6. PICK S1 : S1 = IF ControlsMulticast(S, c) /\ NonControlMasters(S0) # {}
                     THEN TransferMaster(S0, c) ELSE S0
  OBVIOUS
<1>7. SameOwner(S0, S1)
  <2>1. CASE S1 = S0
    BY <2>1 DEF SameOwner
  <2>2. CASE S1 = TransferMaster(S0, c)
    BY <1>5, <2>2, TransferKeepsOwner
  <2> QED  BY <1>6, <2>1, <2>2
<1>8. PICK S2 : S2 = CloseAllConnectionsForInput(S1, ClosedWith(S0, c))
  OBVIOUS
<1>9. KeepsOwner(S1, S2)
  BY <1>8, CloseAllKeepsOwner
<1>10. T = Discard(S2, {c})
  BY <1>2, <1>4, <1>6, <1>8 DEF CloseIoConnection
<1>11. CASE c = OwnerSlot
  <2>1. OwnerFree(T)
    BY <1>10, <1>11, DiscardKeepsOwner
  <2> QED  BY <2>1 DEF KeepsOwner
<1>12. CASE c # OwnerSlot
  <2>1. SameOwner(S, S0)
    BY <1>3, <1>4, <1>12, SetStateKeepsOwner DEF SameOwner
  <2>2. KeepsOwner(S2, T)
    BY <1>10, DiscardKeepsOwner
  <2> QED  BY <1>7, <1>9, <2>1, <2>2 DEF KeepsOwner, SameOwner, OwnerFree
<1> QED  BY <1>11, <1>12

(* So does the close function of any connection. *)
LEMMA CloseFunctionKeepsOwner ==
  ASSUME NEW S, WellFormed(S), NEW c \in Linked(S.list),
         NEW T, T = CloseFunction(S, c)
  PROVE  KeepsOwner(S, T)
<1>1. CASE T = Discard(S, {c})
  BY <1>1, DiscardKeepsOwner
<1>2. CASE T = CloseIoConnection(S, c)
  BY <1>2, CloseIoKeepsOwner
<1> QED  BY <1>1, <1>2 DEF CloseFunction

(* Closing sessions closes explicit connections only. *)
LEMMA CloseSessionsKeepsOwner ==
  ASSUME NEW S, NEW H, NEW T, T = CloseSessions(S, H)
  PROVE  SameOwner(S, T)
<1>1. PICK S1 : S1 = WithoutSessions(S, H)
  OBVIOUS
<1>2. S1.conn = S.conn
  BY <1>1 DEF WithoutSessions
<1>3. PICK D : D = UNION {FirstClass3OfSession(S, h) : h \in H}
  OBVIOUS
<1>4. OwnerSlot \notin D
  BY <1>3, PoolsAssumption DEF FirstClass3OfSession, Front
<1>5. T = Discard(S1, D)
  BY <1>1, <1>3 DEF CloseSessions
<1> QED  BY <1>2, <1>4, <1>5, DiscardKeepsOwner DEF SameOwner

(* The owner's object lapses by its own time-out only. *)
Lapses(S, T) ==
  /\ S.conn[OwnerSlot].state = "Established"
  /\ T.conn[OwnerSlot].state = "TimedOut"
  /\ T.conn[OwnerSlot].originator = S.conn[OwnerSlot].originator

(* A timeout of an I/O connection leaves the owner or is its own lapse. *)
LEMMA IoTimeOutKeepsOwner ==
  ASSUME NEW S, WellFormed(S), NEW c \in Linked(S.list), c \in IoSlots,
         S.conn[c].state = "Established",
         NEW T, T = HandleIoConnectionTimeOut(S, c)
  PROVE  SameOwner(S, T) \/ Lapses(S, T)
<1>1. S \in Stacks /\ c \in Slots /\ WellFormedExcept(S, {}) /\ 1 \in Nat
  BY FieldTypes DEF WellFormed, WellFormedExcept
<1>2. PICK A : A = Announce(S, 1)
  OBVIOUS
<1>3. A.conn = S.conn /\ A \in Stacks
  BY <1>1, <1>2, AnnounceIsSafe DEF WellFormedExcept
<1>4. PICK S0 : S0 = TimedOut(S, c)
  OBVIOUS
<1>5. S0 = SetState(A, c, "TimedOut")
  BY <1>2, <1>4 DEF TimedOut
<1>6. SameOwner(S, S0) \/ Lapses(S, S0)
  BY <1>3, <1>5, SetStateKeepsOwner DEF SameOwner, Lapses
<1>7. PICK S1 : S1 = SilentOriginatorClosed(S, c)
  OBVIOUS
<1>8. SameOwner(S0, S1)
  <2>1. S1 = S0 \/ S1 = CloseSessions(S0, SessionsOf(S0, S0.conn[c].originator))
    BY <1>4, <1>7 DEF SilentOriginatorClosed
  <2> QED  BY <2>1, CloseSessionsKeepsOwner DEF SameOwner
<1>9. S1 \in Stacks
  BY <1>7, SilentOriginatorIsSafe DEF WellFormed, WellFormedExcept
<1>10. OwnerSlot \notin LinkedInputOnly(S1) \cup LinkedListenOnly(S1)
  BY PoolsAssumption DEF LinkedInputOnly, LinkedListenOnly
<1>11. SameOwner(S1, T)
  <2>1. \/ T = TransferMaster(S1, c)
        \/ T = CloseAllConnectionsForInput(S1, LinkedInputOnly(S1) \cup LinkedListenOnly(S1))
        \/ T = CloseAllConnectionsForInput(S1, LinkedListenOnly(S1))
        \/ T = S1
    BY <1>7 DEF HandleIoConnectionTimeOut
  <2>2. CASE T = TransferMaster(S1, c)
    BY <1>9, <2>2, TransferKeepsOwner
  <2>3. CASE T = CloseAllConnectionsForInput(S1, LinkedInputOnly(S1) \cup LinkedListenOnly(S1))
    BY <1>10, <2>3, CloseAllKeepsOwner
  <2>4. CASE T = CloseAllConnectionsForInput(S1, LinkedListenOnly(S1))
    BY <1>10, <2>4, CloseAllKeepsOwner
  <2>5. CASE T = S1
    BY <2>5 DEF SameOwner
  <2> QED  BY <2>1, <2>2, <2>3, <2>4, <2>5
<1> QED  BY <1>6, <1>8, <1>11 DEF SameOwner, Lapses

-----------------------------------------------------------------------------
(* The steps of the target, seen from the owner's object. *)
OwnerKept ==
  \/ UNCHANGED <<conn[OwnerSlot].state, conn[OwnerSlot].originator>>
  \/ conn'[OwnerSlot].state = "NonExistent" /\ conn'[OwnerSlot].originator = Nobody

OwnerLapses ==
  /\ conn[OwnerSlot].state = "Established"
  /\ conn'[OwnerSlot].state = "TimedOut"
  /\ conn'[OwnerSlot].originator = conn[OwnerSlot].originator

OwnerOpens(o) ==
  /\ \/ conn[OwnerSlot].state = "NonExistent"
     \/ conn[OwnerSlot].state = "TimedOut" /\ conn[OwnerSlot].originator = o
  /\ conn'[OwnerSlot].state = "Established"
  /\ conn'[OwnerSlot].originator = o

(* What holds of a handler's record holds of the step that takes it. *)
LEMMA HandlerKeepsOwner ==
  ASSUME NEW T, Becomes(T), KeepsOwner(Stack, T)
  PROVE  OwnerKept
BY DEF Becomes, KeepsOwner, SameOwner, OwnerFree, OwnerKept, Stack

(* A reboot frees the owner's object. *)
LEMMA PanicKeepsOwner ==
  ASSUME NEW cause, Panic(cause)
  PROVE  OwnerKept
BY OwnerIsAnIoSlot DEF Panic, NoConnections, EmptyConnection, OwnerKept

(* A forward open leaves the owner, frees its object, or makes the requester
   the owner of a free object or of one that lapsed from it. *)
LEMMA ForwardOpenIoMovesOwner ==
  ASSUME IInv, NEW o \in Originators, NEW n \in Serials, NEW point,
         NEW type \in TtoOTypes, ForwardOpenIo(o, n, point, type)
  PROVE  OwnerKept \/ OwnerOpens(o)
<1>1. WellFormed(Stack) /\ Stack.conn = conn /\ Stack.list = list
  BY StackIsWellFormed
<1>2. PICK s \in IoConnectionFor(o, point) :
        LET S == IF s \in Linked(list) THEN CloseIoConnection(Stack, s) ELSE Stack
            unused == {d \in Descriptors : S.desc[d] = "free"}
        IN  \/ Becomes(S)
            \/ \E udp \in Lowest(unused) :
               \E producing \in ProducingSocket(S, s, type, udp) :
                 \/ Becomes(EstablishIoConnection(S, s,
                              Opened(o, n, type, udp, producing, 0)))
                 \/ Panic("null node")
  BY DEF ForwardOpenIo
<1>3. PICK S : S = IF s \in Linked(list) THEN CloseIoConnection(Stack, s) ELSE Stack
  OBVIOUS
<1>4. KeepsOwner(Stack, S) /\ S \in Stacks
  <2>1. CASE S = Stack
    BY <1>1, <2>1 DEF KeepsOwner, SameOwner, WellFormed, WellFormedExcept
  <2>2. CASE S = CloseIoConnection(Stack, s) /\ s \in Linked(list)
    BY <1>1, <2>2, CloseIoKeepsOwner, CloseIoIsSafe DEF WellFormed, WellFormedExcept
  <2> QED  BY <1>3, <2>1, <2>2
<1>5. CASE Becomes(S)
  BY <1>4, <1>5, HandlerKeepsOwner
<1>6. CASE Panic("null node")
  BY <1>6, PanicKeepsOwner
<1>7. ASSUME NEW udp, NEW producing,
             Becomes(EstablishIoConnection(S, s, Opened(o, n, type, udp, producing, 0)))
      PROVE  OwnerKept \/ OwnerOpens(o)
  <2>1. PICK new : new = Opened(o, n, type, udp, producing, 0)
    OBVIOUS
  <2>2. new.state = "Established" /\ new.originator = o
    BY <2>1 DEF Opened, EmptyConnection
  <2>3. PICK T : T = EstablishIoConnection(S, s, new)
    OBVIOUS
  <2>4. Becomes(T)
    BY <1>7, <2>1, <2>3
  <2>5. T.conn[OwnerSlot] =
          IF OwnerSlot = s THEN new
          ELSE IF OwnerSlot \in Dispossessed(S, s, new.tToO)
               THEN [S.conn[OwnerSlot] EXCEPT !.producing = kEipInvalidSocket]
          ELSE S.conn[OwnerSlot]
    BY <2>3, OwnerIsAnIoSlot DEF EstablishIoConnection
  <2>6. CASE OwnerSlot # s
    <3>1. S.conn[OwnerSlot] \in CipConnectionObject
      BY <1>4, OwnerIsAnIoSlot, FieldTypes
    <3>2. SameOwner(S, T)
      BY <2>5, <2>6, <3>1 DEF SameOwner, CipConnectionObject
    <3> QED  BY <1>4, <2>4, <3>2, HandlerKeepsOwner DEF KeepsOwner, SameOwner, OwnerFree
  <2>7. CASE OwnerSlot = s
    <3>1. \/ conn[s].state = "NonExistent"
          \/ conn[s].state = "TimedOut" /\ conn[s].originator = o
      BY <2>7, PoolsAssumption DEF IoConnectionFor, FromPool, Free, Reclaimable, Lowest
    <3>2. conn'[OwnerSlot] = new
      BY <2>4, <2>5, <2>7 DEF Becomes
    <3> QED  BY <2>2, <2>7, <3>1, <3>2 DEF OwnerOpens
  <2> QED  BY <2>6, <2>7
<1> QED  BY <1>2, <1>3, <1>5, <1>6, <1>7

(* Any step: the object of the owner is opened, lapses, is freed, or shows *)
(* no change.                                                              *)
OwnerStep == OwnerKept \/ OwnerLapses \/ \E o \in Originators : OwnerOpens(o)

(* Every step of the connection manager is one of those. *)
LEMMA ConnectionManagerMovesOwner ==
  ASSUME IInv, CMNext
  PROVE  OwnerStep
<1>1. WellFormed(Stack) /\ Stack.conn = conn /\ Stack.list = list /\ TypeOK
  BY StackIsWellFormed DEF IInv
<1>2. ASSUME NEW o \in Originators, NEW n \in Serials, NEW point, NEW type \in TtoOTypes,
             ForwardOpenIo(o, n, point, type)
      PROVE  OwnerStep
  BY <1>2, ForwardOpenIoMovesOwner DEF OwnerStep
<1>3. ASSUME NEW o \in Originators, NEW n \in Serials, NEW h \in SessionHandles,
             ForwardOpenClass3(o, n, h)
      PROVE  OwnerStep
  <2>1. PICK s \in ExplicitSlots :
          \/ conn' = [conn EXCEPT ![s] = Opened(o, n, PointToPoint,
                                  kEipInvalidSocket, kEipInvalidSocket, h)]
          \/ Panic("null node")
    BY <1>3 DEF ForwardOpenClass3, Lowest, Free
  <2>2. s # OwnerSlot
    BY PoolsAssumption
  <2> QED  BY <1>1, <2>1, <2>2, OwnerIsAnIoSlot, PanicKeepsOwner
           DEF TypeOK, OwnerKept, OwnerStep
<1>4. ASSUME NEW o \in Originators, NEW n \in Serials, ForwardClose(o, n)
      PROVE  OwnerStep
  <2>1. PICK c \in Linked(list) : Becomes(CloseFunction(Stack, c))
    BY <1>4 DEF ForwardClose, Front
  <2>2. PICK T : T = CloseFunction(Stack, c)
    OBVIOUS
  <2> QED  BY <1>1, <2>1, <2>2, CloseFunctionKeepsOwner, HandlerKeepsOwner DEF OwnerStep
<1>5. ASSUME NEW c, NEW t, NEW late, ReceiveIoData(c, t, late)
      PROVE  OwnerStep
  <2>1. t \in Slots /\ conn[OwnerSlot] \in CipConnectionObject
    BY <1>1, <1>5, OwnerIsAnIoSlot DEF ReceiveIoData, TypeOK, IoSlots
  <2>2. conn' = [conn EXCEPT ![t] = Received(conn[t], late)]
    BY <1>5 DEF ReceiveIoData
  <2> QED  BY <1>1, <2>1, <2>2, OwnerIsAnIoSlot
           DEF TypeOK, Received, CipConnectionObject, OwnerKept, OwnerStep
<1>6. ASSUME NEW c, ReceiveOnClosedDescriptor(c)
      PROVE  OwnerStep
  <2>1. c \in Linked(list) /\ (Panic("freed node") \/ Becomes(CloseIoConnection(Stack, c)))
    BY <1>6 DEF ReceiveOnClosedDescriptor, Front
  <2>2. PICK T : T = CloseIoConnection(Stack, c)
    OBVIOUS
  <2> QED  BY <1>1, <2>1, <2>2, CloseIoKeepsOwner, HandlerKeepsOwner, PanicKeepsOwner
           DEF OwnerStep
<1>7. ASSUME NEW c, ReceiveExplicit(c)
      PROVE  OwnerStep
  BY <1>1, <1>7, OwnerIsAnIoSlot DEF ReceiveExplicit, TypeOK, IoSlots, OwnerKept, OwnerStep
<1>8. CASE ManageConnections
  BY <1>8 DEF ManageConnections, OwnerKept, OwnerStep
<1>9. ASSUME NEW c \in cursor, VisitAges(c)
      PROVE  OwnerStep
  <2>1. conn \in [Slots -> CipConnectionObject] /\ OwnerSlot \in Slots
    BY <1>1, OwnerIsAnIoSlot DEF TypeOK
  <2>2. \/ conn' = [conn EXCEPT ![c].watchdog = conn[c].watchdog - 1]
        \/ conn' = conn
    BY <1>9 DEF VisitAges
  <2> QED  BY <2>1, <2>2 DEF CipConnectionObject, OwnerKept, OwnerStep
<1>10. ASSUME NEW c \in cursor, VisitTimesOutIo(c)
       PROVE  OwnerStep
  <2>1. c \in Linked(list) /\ c \in IoSlots /\ conn[c].state = "Established"
    BY <1>1, <1>10 DEF TypeOK, VisitTimesOutIo, Expired
  <2>2. PICK T : T = HandleIoConnectionTimeOut(Stack, c)
    OBVIOUS
  <2>3. SameOwner(Stack, T) \/ Lapses(Stack, T)
    BY <1>1, <2>1, <2>2, IoTimeOutKeepsOwner
  <2>4. Panic("freed node") \/ Becomes(T)
    BY <1>10, <2>2 DEF VisitTimesOutIo
  <2>5. CASE Panic("freed node")
    BY <2>5, PanicKeepsOwner DEF OwnerStep
  <2>6. CASE Becomes(T)
    BY <1>1, <2>3, <2>6 DEF SameOwner, Lapses, Becomes, OwnerKept, OwnerLapses, OwnerStep
  <2> QED  BY <2>4, <2>5, <2>6
<1>11. ASSUME NEW c \in cursor, VisitTimesOutClass3(c)
       PROVE  OwnerStep
  <2>1. PICK S1 : S1 = IF LastOfOriginator(Stack, c)
                       THEN WithoutSessions(Stack, {Stack.conn[c].session}) ELSE Stack
    OBVIOUS
  <2>2. S1.conn = conn
    BY <1>1, <2>1 DEF WithoutSessions
  <2>3. PICK T : T = Discard(S1, {c})
    OBVIOUS
  <2>4. KeepsOwner(Stack, T)
    BY <1>1, <2>2, <2>3, DiscardKeepsOwner DEF KeepsOwner, SameOwner
  <2>5. UNCHANGED conn \/ Becomes(T)
    BY <1>11, <2>1, <2>3 DEF VisitTimesOutClass3, Class3ConnectionTimeout
  <2> QED  BY <2>4, <2>5, HandlerKeepsOwner DEF OwnerKept, OwnerStep
<1> QED  BY <1>2, <1>3, <1>4, <1>5, <1>6, <1>7, <1>8, <1>9, <1>10, <1>11
         DEF CMNext, Visit

(* No other step gives the object to anybody. *)
LEMMA OthersKeepOwner ==
  ASSUME EncapNext \/ NotifyLinkDown \/ ResetDevice \/ ResetDeviceToInitialConfiguration
         \/ PanicReboot \/ Restart \/ UNCHANGED cmVars
  PROVE  OwnerStep
<1>1. Stack.conn = conn
  BY DEF Stack
<1>2. CASE UNCHANGED conn
  BY <1>2 DEF OwnerKept, OwnerStep
<1>3. CASE \E cause : Panic(cause)
  BY <1>3, PanicKeepsOwner DEF OwnerStep
<1>4. ASSUME NEW h \in SessionHandles, EndSession(h)
      PROVE  OwnerStep
  <2>1. PICK T : T = CloseSessions(Stack, {h})
    OBVIOUS
  <2>2. Becomes(T) /\ KeepsOwner(Stack, T)
    BY <1>4, <2>1, CloseSessionsKeepsOwner DEF EndSession, KeepsOwner
  <2> QED  BY <2>2, HandlerKeepsOwner DEF OwnerStep
<1>5. ASSUME NEW h \in SessionHandles, EncapsulationInactivity(h)
      PROVE  OwnerStep
  <2>1. PICK S : S = Discard(Stack, FirstClass3OfSession(Stack, h - 1))
    OBVIOUS
  <2>2. PICK T : T = CloseSessions(S, {h})
    OBVIOUS
  <2>3. KeepsOwner(Stack, S) /\ SameOwner(S, T)
    BY <2>1, <2>2, DiscardKeepsOwner, CloseSessionsKeepsOwner
  <2>4. Becomes(T)
    BY <1>5, <2>1, <2>2 DEF EncapsulationInactivity
  <2> QED  BY <2>3, <2>4, HandlerKeepsOwner
           DEF KeepsOwner, SameOwner, OwnerFree, OwnerStep
<1>6. CASE ResetDevice
  <2>1. PICK S : S = Discard(Stack, Linked(list))
    OBVIOUS
  <2>2. conn' = S.conn /\ KeepsOwner(Stack, S)
    BY <1>6, <2>1, DiscardKeepsOwner DEF ResetDevice
  <2> QED  BY <1>1, <2>2 DEF KeepsOwner, SameOwner, OwnerFree, OwnerKept, OwnerStep
<1>7. CASE EncapNext
  BY <1>2, <1>3, <1>4, <1>5, <1>7
     DEF EncapNext, AcceptTcp, RegisterSession, CloseUnregisteredTcp
<1> QED  BY <1>2, <1>3, <1>6, <1>7 DEF NotifyLinkDown, ResetDeviceToInitialConfiguration,
         PanicReboot, Restart, cmVars

-----------------------------------------------------------------------------
(* An owner's object that is free belongs to nobody: what the refinement   *)
(* needs beside the invariant, for closing a free object changes nothing.  *)
FreeIsNobodys == conn[OwnerSlot].state = "NonExistent" => Owner = Nobody

(* The target implements the abstract ownership of the output assembly:    *)
(* whoever opens, closes or times out, in any order and with any pools, an *)
(* owner is never replaced by another scanner while it holds the point or  *)
(* has lapsed from it (GetExclusiveOwnerConnection).                       *)
THEOREM Refinement == Spec => ImplementsOwnership
<1>1. Init => Ownership!Init /\ FreeIsNobodys
  BY OwnerIsAnIoSlot DEF Init, CMInit, NoConnections, EmptyConnection, Ownership!Init,
     Owner, Phase, FreeIsNobodys
<1>2. ASSUME IInv, FreeIsNobodys, [Next]_cmVars
      PROVE  FreeIsNobodys' /\ [Ownership!Next]_Ownership!vars
  <2>1. OwnerStep
    BY <1>2, ConnectionManagerMovesOwner, OthersKeepOwner DEF Next
  <2>2. conn[OwnerSlot].state \in {"NonExistent", "Established", "TimedOut"}
    BY <1>2, OwnerIsAnIoSlot DEF IInv, TypeOK, CipConnectionObject
  <2>3. CASE UNCHANGED <<conn[OwnerSlot].state, conn[OwnerSlot].originator>>
    BY <1>2, <2>3 DEF FreeIsNobodys, Owner, Phase, Ownership!vars
  <2>4. CASE conn'[OwnerSlot].state = "NonExistent" /\ conn'[OwnerSlot].originator = Nobody
    <3>1. CASE conn[OwnerSlot].state = "NonExistent"
      BY <1>2, <2>4, <3>1 DEF FreeIsNobodys, Owner, Phase, Ownership!vars
    <3>2. CASE conn[OwnerSlot].state # "NonExistent"
      BY <2>2, <2>4, <3>2 DEF FreeIsNobodys, Owner, Phase, Ownership!vars,
         Ownership!Next, Ownership!Release
    <3> QED  BY <3>1, <3>2
  <2>5. CASE OwnerLapses
    BY <2>5 DEF OwnerLapses, FreeIsNobodys, Owner, Phase, Ownership!vars,
       Ownership!Next, Ownership!Lapse
  <2>6. ASSUME NEW o \in Originators, OwnerOpens(o)
        PROVE  FreeIsNobodys' /\ [Ownership!Next]_Ownership!vars
    <3>1. CASE conn[OwnerSlot].state = "NonExistent"
      BY <2>6, <3>1 DEF OwnerOpens, FreeIsNobodys, Owner, Phase,
         Ownership!Next, Ownership!Acquire
    <3>2. CASE conn[OwnerSlot].state = "TimedOut" /\ conn[OwnerSlot].originator = o
      BY <2>6, <3>2 DEF OwnerOpens, FreeIsNobodys, Owner, Phase,
         Ownership!Next, Ownership!Reclaim
    <3> QED  BY <2>6, <3>1, <3>2 DEF OwnerOpens
  <2> QED  BY <2>1, <2>3, <2>4, <2>5, <2>6 DEF OwnerStep, OwnerKept
<1> QED  BY <1>1, <1>2, Invariance, PTL DEF Spec, ImplementsOwnership, Ownership!Spec

-----------------------------------------------------------------------------
(* What the handlers do to the I/O connections, in the terms the properties *)
(* of the next sections use.                                                *)

(* Nothing happens to an I/O connection; the application may forget some.   *)
IoUntouched(S, T) ==
  /\ T.active <= S.active
  /\ \A s \in IoSlots :
       /\ s \in Linked(T.list) <=> s \in Linked(S.list)
       /\ T.conn[s].state = S.conn[s].state
       /\ T.conn[s].tToO = S.conn[s].tToO
       /\ T.conn[s].producing = S.conn[s].producing

(* The connection c is closed or times out; the connections of D are closed *)
(* with it and the one of heir, if any, gets its producing socket.          *)
Ends(S, T, c, D, heir) ==
  /\ D \subseteq Linked(S.list) \cap IoSlots /\ c \notin D
  /\ heir \subseteq NonControlMasters(S) \ (D \cup {c})
  /\ T.active <= IoConnectionsGone(IoConnectionsGone(S.active, 1), 2 * Cardinality(D))
  /\ \A s \in D : T.conn[s].state = "NonExistent" /\ s \notin Linked(T.list)
  /\ \A s \in IoSlots \ (D \cup {c}) :
       /\ s \in Linked(T.list) <=> s \in Linked(S.list)
       /\ T.conn[s].state = S.conn[s].state
       /\ T.conn[s].tToO = S.conn[s].tToO
       /\ T.conn[s].producing =
            IF s \in heir THEN S.conn[c].producing ELSE S.conn[s].producing
  /\ T.conn[c].state # "Established"
  /\ c \in Linked(T.list) =>
       /\ T.conn[c].tToO = S.conn[c].tToO
       /\ T.conn[c].producing \in {S.conn[c].producing, kEipInvalidSocket}
  /\ D \subseteq ListenSlots \/ Linked(S.list) \cap IoSlots \subseteq D \cup {c}
  /\ heir # {} => ControlsMulticast(S, c)
  /\ ControlsMulticast(S, c) /\ heir = {} =>
       NonControlMasters(S) = {} /\ Linked(S.list) \cap ListenSlots \subseteq D

(* The pools of the I/O connections, and who can be handed the socket. *)
LEMMA IoPools ==
  /\ OwnerSlot \in IoSlots /\ InputSlots \subseteq IoSlots /\ ListenSlots \subseteq IoSlots
  /\ IoSlots \subseteq Slots
  /\ \A s \in IoSlots : s \in ListenSlots <=> s \notin NonListenOnlySlots
  /\ \A s \in IoSlots : s \in NonListenOnlySlots <=> s = OwnerSlot \/ s \in InputSlots
  /\ OwnerSlot \notin InputSlots \cup ListenSlots /\ InputSlots \cap ListenSlots = {}
BY PoolsAssumption DEF IoSlots, Slots, NonListenOnlySlots

(* Closing explicit connections leaves the I/O connections. *)
LEMMA DiscardLeavesIo ==
  ASSUME NEW S, S \in Stacks, NEW D, D \cap IoSlots = {}, NEW T, T = Discard(S, D)
  PROVE  IoUntouched(S, T)
<1>1. S.list \in Lists /\ S.active \in Nat
  BY FieldTypes
<1>2. Linked(T.list) = Linked(S.list) \ D
  BY <1>1, UnlinkedList DEF Discard
<1>3. \A s \in IoSlots : T.conn[s] = S.conn[s]
  BY IoPools DEF Discard
<1>4. T.active = S.active
  BY DEF Discard
<1> QED  BY <1>1, <1>2, <1>3, <1>4 DEF IoUntouched

(* So does closing sessions with their class 3 connections. *)
LEMMA CloseSessionsLeavesIo ==
  ASSUME NEW S, WellFormed(S), NEW H, NEW T, T = CloseSessions(S, H)
  PROVE  IoUntouched(S, T)
<1>1. PICK S1 : S1 = WithoutSessions(S, H)
  OBVIOUS
<1>2. S1 \in Stacks /\ S1.conn = S.conn /\ S1.list = S.list /\ S1.active = S.active
  BY <1>1, WithoutSessionsIsSafe DEF WithoutSessions, WellFormed, WellFormedExcept
<1>3. PICK D : D = UNION {FirstClass3OfSession(S, h) : h \in H}
  OBVIOUS
<1>4. D \cap IoSlots = {}
  BY <1>3 DEF FirstClass3OfSession, Front, IoSlots
<1>5. IoUntouched(S1, T)
  BY <1>1, <1>2, <1>3, <1>4, DiscardLeavesIo DEF CloseSessions
<1> QED  BY <1>2, <1>5 DEF IoUntouched

(* So does the timeout of an explicit connection. *)
LEMMA Class3TimeOutLeavesIo ==
  ASSUME NEW S, WellFormed(S), NEW c \in ExplicitSlots,
         NEW T, T = Class3ConnectionTimeout(S, c)
  PROVE  IoUntouched(S, T)
<1>1. PICK S1 : S1 = IF LastOfOriginator(S, c)
                     THEN WithoutSessions(S, {S.conn[c].session}) ELSE S
  OBVIOUS
<1>2. S1 \in Stacks /\ S1.conn = S.conn /\ S1.list = S.list /\ S1.active = S.active
  BY <1>1, WithoutSessionsIsSafe DEF WithoutSessions, WellFormed, WellFormedExcept
<1>3. PICK D : D = {c}
  OBVIOUS
<1>4. D \cap IoSlots = {}
  BY <1>3 DEF IoSlots
<1>5. IoUntouched(S1, T)
  BY <1>1, <1>2, <1>3, <1>4, DiscardLeavesIo DEF Class3ConnectionTimeout
<1> QED  BY <1>2, <1>5 DEF IoUntouched

-----------------------------------------------------------------------------
(* The fields after a hand-over: the heir is one connection. *)
LEMMA TransferEffect ==
  ASSUME NEW S, NEW E, WellFormedExcept(S, E), NEW c \in Slots, ControlsMulticast(S, c),
         NonControlMasters(S) # {}, NEW T, T = TransferMaster(S, c)
  PROVE  \E heir \in SUBSET NonControlMasters(S) :
           /\ heir # {} /\ c \notin heir
           /\ T.list = S.list /\ T.active = S.active
           /\ \A s \in Slots :
                /\ T.conn[s].state = S.conn[s].state
                /\ T.conn[s].tToO = S.conn[s].tToO
                /\ T.conn[s].producing = IF s \in heir THEN S.conn[c].producing
                                         ELSE IF s = c THEN kEipInvalidSocket
                                         ELSE S.conn[s].producing
<1>1. S \in Stacks /\ Ordered(S.list) /\ S.list \in Lists
      /\ S.conn \in [Slots -> CipConnectionObject]
  BY FieldTypes DEF WellFormedExcept
<1>2. NonControlMasters(S) \subseteq Linked(S.list)
  BY DEF NonControlMasters
<1>3. PICK heir : heir = Front(S.list, NonControlMasters(S))
  OBVIOUS
<1>4. heir \subseteq NonControlMasters(S) /\ heir # {}
  BY <1>1, <1>2, <1>3, FrontExists DEF Front
<1>5. c \notin heir
  BY <1>4 DEF NonControlMasters, ControlsMulticast
<1>6. T.list = S.list /\ T.active = S.active
  BY DEF TransferMaster
<1>7. \A s \in Slots : T.conn[s] =
        IF s \in heir THEN [S.conn[s] EXCEPT !.producing = S.conn[c].producing]
        ELSE IF s = c THEN [S.conn[s] EXCEPT !.producing = kEipInvalidSocket]
        ELSE S.conn[s]
  BY <1>3 DEF TransferMaster
<1>8. \A s \in Slots :
        /\ T.conn[s].state = S.conn[s].state
        /\ T.conn[s].tToO = S.conn[s].tToO
        /\ T.conn[s].producing = IF s \in heir THEN S.conn[c].producing
                                 ELSE IF s = c THEN kEipInvalidSocket
                                 ELSE S.conn[s].producing
  BY <1>1, <1>7 DEF CipConnectionObject
<1> QED  BY <1>4, <1>5, <1>6, <1>8

(* The fields after closing connections with the double announcement. *)
LEMMA CloseAllEffect ==
  ASSUME NEW S, S \in Stacks, NEW D \in SUBSET Slots,
         NEW T, T = CloseAllConnectionsForInput(S, D)
  PROVE  /\ T.active = IoConnectionsGone(S.active, 2 * Cardinality(D))
         /\ Linked(T.list) = Linked(S.list) \ D
         /\ \A s \in D : T.conn[s] = EmptyConnection
         /\ \A s \in Slots \ D : T.conn[s] = S.conn[s]
<1>1. PICK A : A = Announce(S, 2 * Cardinality(D))
  OBVIOUS
<1>2. /\ A.conn = S.conn /\ A.list = S.list
      /\ A.active = IoConnectionsGone(S.active, 2 * Cardinality(D))
  BY <1>1 DEF Announce
<1>3. T = Discard(A, D)
  BY <1>1 DEF CloseAllConnectionsForInput
<1>4. S.list \in Lists
  BY FieldTypes
<1>5. Linked(T.list) = Linked(S.list) \ D
  BY <1>2, <1>3, <1>4, UnlinkedList DEF Discard
<1> QED  BY <1>2, <1>3, <1>5 DEF Discard

(* The fields after the announced change of a connection's state. *)
LEMMA EndedState ==
  ASSUME NEW S, WellFormed(S), NEW c \in Slots, NEW state \in {"NonExistent", "TimedOut"},
         NEW C, C = {c}, NEW T, T = SetState(Announce(S, 1), c, state)
  PROVE  /\ WellFormedExcept(T, C)
         /\ T.list = S.list
         /\ T.active = IoConnectionsGone(S.active, 1)
         /\ T.conn[c].state = state
         /\ \A s \in Slots : /\ T.conn[s].tToO = S.conn[s].tToO
                             /\ T.conn[s].producing = S.conn[s].producing
                             /\ s # c => T.conn[s].state = S.conn[s].state
         /\ ControlsMulticast(T, c) <=> ControlsMulticast(S, c)
         /\ ControlsMulticast(S, c) => NonControlMasters(T) = NonControlMasters(S)
<1>1. S \in Stacks /\ WellFormedExcept(S, {}) /\ 1 \in Nat
  BY DEF WellFormed, WellFormedExcept
<1>2. PICK A : A = Announce(S, 1)
  OBVIOUS
<1>3. /\ WellFormedExcept(A, {}) /\ A.conn = S.conn /\ A.list = S.list
      /\ A.active = IoConnectionsGone(S.active, 1)
  BY <1>1, <1>2, AnnounceIsSafe DEF Announce
<1>4. T = SetState(A, c, state) /\ state \in {"NonExistent", "Established", "TimedOut"}
  BY <1>2
<1>5. PICK E : WellFormedExcept(A, E) /\ \A s : s \in E \/ s = c => s \in C
  BY <1>3
<1>6. /\ WellFormedExcept(T, C)
      /\ T.list = S.list
      /\ T.conn[c].state = state
      /\ \A s \in Slots : /\ T.conn[s].tToO = S.conn[s].tToO
                          /\ T.conn[s].producing = S.conn[s].producing
  <2>1. /\ WellFormedExcept(T, C)
        /\ T.list = A.list
        /\ T.conn[c].state = state
        /\ \A s \in Slots : /\ T.conn[s].tToO = A.conn[s].tToO
                            /\ T.conn[s].producing = A.conn[s].producing
    BY <1>4, <1>5, SetStateIsSafe
  <2> QED  BY <1>3, <2>1
<1>7. T.active = IoConnectionsGone(S.active, 1)
  BY <1>3, <1>4 DEF SetState
<1>8. \A s \in Slots : s # c => T.conn[s].state = S.conn[s].state
  BY <1>1, <1>3, <1>4, FieldTypes DEF SetState
<1>9. ControlsMulticast(T, c) <=> ControlsMulticast(S, c)
  BY <1>6 DEF ControlsMulticast
<1>10. ControlsMulticast(S, c) => NonControlMasters(T) = NonControlMasters(S)
  <2>1. NonListenOnlySlots \subseteq Slots
    BY DEF NonListenOnlySlots, Slots
  <2> QED  BY <1>6, <1>8, <2>1 DEF ControlsMulticast, NonControlMasters
<1> QED  BY <1>6, <1>7, <1>8, <1>9, <1>10

(* Closing an I/O connection ends it; only listen only connections may be   *)
(* closed with it.                                                          *)
LEMMA CloseIoEnds ==
  ASSUME NEW S, WellFormed(S), NEW c \in Linked(S.list), c \in IoSlots,
         NEW T, T = CloseIoConnection(S, c)
  PROVE  /\ c \notin Linked(T.list)
         /\ T.conn[c].state = "NonExistent"
         /\ \E D \in SUBSET ListenSlots : \E heir : Ends(S, T, c, D, heir)
<1>1. S \in Stacks /\ c \in Slots /\ Linked(S.list) \subseteq Slots
  BY FieldTypes DEF WellFormed, WellFormedExcept
<1>2. PICK S0 : S0 = SetState(Announce(S, 1), c, "NonExistent")
  OBVIOUS
<1>0. PICK C : C = {c}
  OBVIOUS
<1>3. /\ WellFormedExcept(S0, C) /\ S0.list = S.list
      /\ S0.active = IoConnectionsGone(S.active, 1)
      /\ \A s \in Slots : /\ S0.conn[s].tToO = S.conn[s].tToO
                          /\ S0.conn[s].producing = S.conn[s].producing
                          /\ s # c => S0.conn[s].state = S.conn[s].state
      /\ ControlsMulticast(S0, c) <=> ControlsMulticast(S, c)
      /\ ControlsMulticast(S, c) => NonControlMasters(S0) = NonControlMasters(S)
  BY <1>0, <1>1, <1>2, EndedState
<1>4. PICK S1 : S1 = IF ControlsMulticast(S, c) /\ NonControlMasters(S0) # {}
                     THEN TransferMaster(S0, c) ELSE S0
  OBVIOUS
<1>5. PICK heir \in SUBSET NonControlMasters(S) :
        /\ c \notin heir
        /\ heir # {} => ControlsMulticast(S, c)
        /\ ControlsMulticast(S, c) /\ heir = {} => NonControlMasters(S0) = {}
        /\ S1 \in Stacks /\ S1.list = S.list /\ S1.active = S0.active
        /\ \A s \in Slots \ {c} :
             /\ S1.conn[s].state = S.conn[s].state
             /\ S1.conn[s].tToO = S.conn[s].tToO
             /\ S1.conn[s].producing =
                  IF s \in heir THEN S.conn[c].producing ELSE S.conn[s].producing
  <2>1. CASE ControlsMulticast(S, c) /\ NonControlMasters(S0) # {}
    <3>1. PICK heir \in SUBSET NonControlMasters(S0) :
            /\ heir # {} /\ c \notin heir
            /\ S1.list = S0.list /\ S1.active = S0.active
            /\ \A s \in Slots :
                 /\ S1.conn[s].state = S0.conn[s].state
                 /\ S1.conn[s].tToO = S0.conn[s].tToO
                 /\ S1.conn[s].producing = IF s \in heir THEN S0.conn[c].producing
                                           ELSE IF s = c THEN kEipInvalidSocket
                                           ELSE S0.conn[s].producing
      BY <1>1, <1>3, <1>4, <2>1, TransferEffect
    <3>2. S1 \in Stacks
      BY <1>1, <1>3, <1>4, <2>1, TransferIsSafe DEF WellFormedExcept
    <3> QED  BY <1>1, <1>3, <2>1, <3>1, <3>2
  <2>2. CASE ~ (ControlsMulticast(S, c) /\ NonControlMasters(S0) # {})
    <3>1. S1 = S0 /\ S1 \in Stacks
      BY <1>3, <1>4, <2>2 DEF WellFormedExcept
    <3>2. PICK none \in SUBSET NonControlMasters(S) : \A s : s \notin none
      <4>1. {} \in SUBSET NonControlMasters(S)
        OBVIOUS
      <4> QED  BY <4>1
    <3> QED  BY <1>3, <2>2, <3>1, <3>2
  <2> QED  BY <2>1, <2>2
<1>6. PICK D : D = ClosedWith(S0, c)
  OBVIOUS
<1>7. /\ D \subseteq ListenSlots /\ D \subseteq Linked(S.list) /\ D \in SUBSET Slots
      /\ ControlsMulticast(S, c) /\ heir = {} => D = Linked(S.list) \cap ListenSlots
      /\ ControlsMulticast(S, c) \/ D = {}
  BY <1>1, <1>3, <1>5, <1>6 DEF ClosedWith, LinkedListenOnly
<1>8. c \notin D
  BY <1>7, IoPools DEF ControlsMulticast
<1>9. heir \cap D = {}
  BY <1>7, IoPools DEF NonControlMasters
<1>10. PICK S2 : S2 = CloseAllConnectionsForInput(S1, D)
  OBVIOUS
<1>11. /\ S2.active = IoConnectionsGone(S1.active, 2 * Cardinality(D))
       /\ Linked(S2.list) = Linked(S1.list) \ D
       /\ \A s \in D : S2.conn[s] = EmptyConnection
       /\ \A s \in Slots \ D : S2.conn[s] = S1.conn[s]
  BY <1>5, <1>7, <1>10, CloseAllEffect
<1>12. T = Discard(S2, {c})
  BY <1>2, <1>4, <1>6, <1>10 DEF CloseIoConnection
<1>13. /\ T.active = S2.active
       /\ \A s \in Slots : T.conn[s] = IF s = c THEN EmptyConnection ELSE S2.conn[s]
       /\ Linked(T.list) = Linked(S2.list) \ {c}
  BY <1>12 DEF Discard, RemoveNodes, Linked
<1>14. EmptyConnection.state = "NonExistent"
  BY DEF EmptyConnection
<1>15. Ends(S, T, c, D, heir)
  <2>1. T.active <= IoConnectionsGone(IoConnectionsGone(S.active, 1), 2 * Cardinality(D))
    <3>1. T.active = IoConnectionsGone(IoConnectionsGone(S.active, 1), 2 * Cardinality(D))
      BY <1>3, <1>5, <1>11, <1>13
    <3>2. Cardinality(D) \in Nat /\ S.active \in Nat
      BY <1>1, <1>7, PoolsAreFinite, FieldTypes
    <3> QED  BY <3>1, <3>2 DEF IoConnectionsGone
  <2>2. \A s \in D : T.conn[s].state = "NonExistent" /\ s \notin Linked(T.list)
    BY <1>7, <1>8, <1>11, <1>13, <1>14
  <2>3. \A s \in IoSlots \ (D \cup {c}) :
          /\ s \in Linked(T.list) <=> s \in Linked(S.list)
          /\ T.conn[s].state = S.conn[s].state
          /\ T.conn[s].tToO = S.conn[s].tToO
          /\ T.conn[s].producing =
               IF s \in heir THEN S.conn[c].producing ELSE S.conn[s].producing
    BY <1>5, <1>11, <1>13, IoPools
  <2>4. T.conn[c].state # "Established" /\ c \notin Linked(T.list)
    BY <1>1, <1>13, <1>14
  <2>5. ControlsMulticast(S, c) /\ heir = {} =>
          NonControlMasters(S) = {} /\ Linked(S.list) \cap ListenSlots \subseteq D
    BY <1>3, <1>5, <1>7
  <2>6. D \subseteq Linked(S.list) \cap IoSlots
    BY <1>7, IoPools
  <2> QED  BY <1>5, <1>7, <1>8, <1>9, <2>1, <2>2, <2>3, <2>4, <2>5, <2>6 DEF Ends
<1> QED  BY <1>1, <1>7, <1>13, <1>14, <1>15

(* The state a timeout leaves before it hands over or closes others. *)
LEMMA SilentOriginatorEffect ==
  ASSUME NEW S, WellFormed(S), NEW c \in Linked(S.list), c \in IoSlots,
         S.conn[c].state # "NonExistent", NEW T, T = SilentOriginatorClosed(S, c)
  PROVE  /\ WellFormed(T)
         /\ T.active <= IoConnectionsGone(S.active, 1)
         /\ T.conn[c].state = "TimedOut"
         /\ \A s \in IoSlots : /\ s \in Linked(T.list) <=> s \in Linked(S.list)
                               /\ T.conn[s].tToO = S.conn[s].tToO
                               /\ T.conn[s].producing = S.conn[s].producing
                               /\ s # c => T.conn[s].state = S.conn[s].state
         /\ ControlsMulticast(T, c) <=> ControlsMulticast(S, c)
         /\ ControlsMulticast(S, c) => NonControlMasters(T) = NonControlMasters(S)
<1>1. S \in Stacks /\ c \in Slots /\ IoSlots \subseteq Slots
  BY IoPools DEF WellFormed, WellFormedExcept
<1>2. PICK S0 : S0 = TimedOut(S, c)
  OBVIOUS
<1>3. WellFormed(S0)
  BY <1>2, TimedOutIsSafe
<1>4. PICK C : C = {c}
  OBVIOUS
<1>5. /\ S0.list = S.list
      /\ S0.active = IoConnectionsGone(S.active, 1)
      /\ S0.conn[c].state = "TimedOut"
      /\ \A s \in Slots : /\ S0.conn[s].tToO = S.conn[s].tToO
                          /\ S0.conn[s].producing = S.conn[s].producing
                          /\ s # c => S0.conn[s].state = S.conn[s].state
  <2>1. S0 = SetState(Announce(S, 1), c, "TimedOut")
    BY <1>2 DEF TimedOut
  <2> QED  BY <1>1, <1>4, <2>1, EndedState
<1>6. S0.active \in Nat
  BY <1>3, FieldTypes DEF WellFormed, WellFormedExcept
<1>7. PICK H : H = SessionsOf(S0, S0.conn[c].originator)
  OBVIOUS
<1>8. T = S0 \/ T = CloseSessions(S0, H)
  BY <1>2, <1>7 DEF SilentOriginatorClosed
<1>9. WellFormed(T) /\ IoUntouched(S0, T)
  <2>1. CASE T = S0
    BY <1>3, <1>6, <2>1 DEF IoUntouched
  <2>2. CASE T = CloseSessions(S0, H)
    BY <1>3, <2>2, CloseSessionsIsSafe, CloseSessionsLeavesIo
  <2> QED  BY <1>8, <2>1, <2>2
<1>10. /\ T.active <= IoConnectionsGone(S.active, 1)
       /\ T.conn[c].state = "TimedOut"
       /\ \A s \in IoSlots : /\ s \in Linked(T.list) <=> s \in Linked(S.list)
                             /\ T.conn[s].tToO = S.conn[s].tToO
                             /\ T.conn[s].producing = S.conn[s].producing
                             /\ s # c => T.conn[s].state = S.conn[s].state
  BY <1>1, <1>5, <1>9 DEF IoUntouched
<1>11. ControlsMulticast(T, c) <=> ControlsMulticast(S, c)
  BY <1>10 DEF ControlsMulticast
<1>12. ControlsMulticast(S, c) => NonControlMasters(T) = NonControlMasters(S)
  <2>1. NonListenOnlySlots \subseteq IoSlots
    BY IoPools DEF NonListenOnlySlots
  <2> QED  BY <1>10, <2>1 DEF ControlsMulticast, NonControlMasters
<1> QED  BY <1>9, <1>10, <1>11, <1>12

(* A timeout of an I/O connection ends it. Only the owner's closes others   *)
(* than listen only connections, and then it closes every other one.        *)
LEMMA IoTimeOutEnds ==
  ASSUME NEW S, WellFormed(S), NEW c \in Linked(S.list), c \in IoSlots,
         S.conn[c].state # "NonExistent", NEW T, T = HandleIoConnectionTimeOut(S, c)
  PROVE  /\ T.conn[c].state = "TimedOut"
         /\ \E D, heir : Ends(S, T, c, D, heir) /\ (c = OwnerSlot \/ D \subseteq ListenSlots)
<1>1. S \in Stacks /\ c \in Slots /\ Linked(S.list) \subseteq Slots
  BY FieldTypes DEF WellFormed, WellFormedExcept
<1>2. PICK S1 : S1 = SilentOriginatorClosed(S, c)
  OBVIOUS
<1>3. /\ WellFormed(S1)
      /\ S1.active <= IoConnectionsGone(S.active, 1)
      /\ S1.conn[c].state = "TimedOut"
      /\ \A s \in IoSlots : /\ s \in Linked(S1.list) <=> s \in Linked(S.list)
                            /\ S1.conn[s].tToO = S.conn[s].tToO
                            /\ S1.conn[s].producing = S.conn[s].producing
                            /\ s # c => S1.conn[s].state = S.conn[s].state
      /\ ControlsMulticast(S1, c) <=> ControlsMulticast(S, c)
      /\ ControlsMulticast(S, c) => NonControlMasters(S1) = NonControlMasters(S)
  BY <1>2, SilentOriginatorEffect
<1>4. S1 \in Stacks /\ S1.active \in Nat /\ S.active \in Nat /\ WellFormedExcept(S1, {})
  BY <1>1, <1>3, FieldTypes DEF WellFormed, WellFormedExcept
<1>5. PICK none : none = {}
  OBVIOUS
<1>6. CASE ControlsMulticast(S1, c) /\ NonControlMasters(S1) # {}
  <2>1. T = TransferMaster(S1, c)
    BY <1>2, <1>6 DEF HandleIoConnectionTimeOut
  <2>2. PICK heir \in SUBSET NonControlMasters(S1) :
          /\ heir # {} /\ c \notin heir
          /\ T.list = S1.list /\ T.active = S1.active
          /\ \A s \in Slots :
               /\ T.conn[s].state = S1.conn[s].state
               /\ T.conn[s].tToO = S1.conn[s].tToO
               /\ T.conn[s].producing = IF s \in heir THEN S1.conn[c].producing
                                        ELSE IF s = c THEN kEipInvalidSocket
                                        ELSE S1.conn[s].producing
    BY <1>1, <1>4, <1>6, <2>1, TransferEffect
  <2>3. T.active <= IoConnectionsGone(IoConnectionsGone(S.active, 1), 2 * Cardinality(none))
    <3>1. Cardinality(none) = 0
      BY <1>5, FS_EmptySet
    <3> QED  BY <1>3, <1>4, <2>2, <3>1 DEF IoConnectionsGone
  <2>4. Ends(S, T, c, none, heir)
    BY <1>3, <1>5, <1>6, <2>2, <2>3, IoPools DEF Ends
  <2> QED  BY <1>1, <1>3, <1>5, <2>2, <2>4
<1>7. CASE ~ (ControlsMulticast(S1, c) /\ NonControlMasters(S1) # {})
  <2>1. PICK D \in SUBSET (Linked(S1.list) \cap IoSlots) :
          /\ c \notin D
          /\ T.active = IoConnectionsGone(S1.active, 2 * Cardinality(D))
          /\ \A s \in D : T.conn[s].state = "NonExistent" /\ s \notin Linked(T.list)
          /\ \A s \in Slots \ D : T.conn[s] = S1.conn[s]
                                  /\ (s \in Linked(T.list) <=> s \in Linked(S1.list))
          /\ \/ D \subseteq ListenSlots
             \/ c = OwnerSlot /\ Linked(S1.list) \cap IoSlots \subseteq D \cup {c}
          /\ ControlsMulticast(S1, c) => Linked(S1.list) \cap ListenSlots \subseteq D
    <3>1. CASE c = OwnerSlot
      <4>1. PICK D : D = LinkedInputOnly(S1) \cup LinkedListenOnly(S1)
        OBVIOUS
      <4>2. /\ D \subseteq Linked(S1.list) \cap IoSlots /\ D \in SUBSET Slots
            /\ c \notin D /\ Linked(S1.list) \cap IoSlots \subseteq D \cup {c}
            /\ Linked(S1.list) \cap ListenSlots \subseteq D
        BY <3>1, <4>1, IoPools DEF LinkedInputOnly, LinkedListenOnly
      <4>3. T = CloseAllConnectionsForInput(S1, D)
        BY <1>2, <1>7, <3>1, <4>1 DEF HandleIoConnectionTimeOut
      <4>4. EmptyConnection.state = "NonExistent"
        BY DEF EmptyConnection
      <4> QED  BY <1>4, <3>1, <4>2, <4>3, <4>4, CloseAllEffect
    <3>2. CASE c # OwnerSlot /\ ControlsMulticast(S1, c)
      <4>1. PICK D : D = LinkedListenOnly(S1)
        OBVIOUS
      <4>2. /\ D \subseteq Linked(S1.list) \cap IoSlots /\ D \in SUBSET Slots
            /\ D \subseteq ListenSlots
            /\ c \notin D /\ Linked(S1.list) \cap ListenSlots \subseteq D
        BY <3>2, <4>1, IoPools DEF LinkedListenOnly, ControlsMulticast
      <4>3. T = CloseAllConnectionsForInput(S1, D)
        BY <1>2, <1>7, <3>2, <4>1 DEF HandleIoConnectionTimeOut
      <4>4. EmptyConnection.state = "NonExistent"
        BY DEF EmptyConnection
      <4> QED  BY <1>4, <4>2, <4>3, <4>4, CloseAllEffect
    <3>3. CASE c # OwnerSlot /\ ~ ControlsMulticast(S1, c)
      <4>1. T = S1
        BY <1>2, <1>7, <3>3 DEF HandleIoConnectionTimeOut
      <4>2. Cardinality(none) = 0
        BY <1>5, FS_EmptySet
      <4>3. T.active = IoConnectionsGone(S1.active, 2 * Cardinality(none))
        BY <1>4, <4>1, <4>2 DEF IoConnectionsGone
      <4> QED  BY <1>5, <3>3, <4>1, <4>3
    <3> QED  BY <3>1, <3>2, <3>3
  <2>2. T.active <= IoConnectionsGone(IoConnectionsGone(S.active, 1), 2 * Cardinality(D))
    <3>1. Cardinality(D) \in Nat
      BY <2>1, IoPools, PoolsAreFinite
    <3> QED  BY <1>3, <1>4, <2>1, <3>1 DEF IoConnectionsGone
  <2>3. Ends(S, T, c, D, none)
    BY <1>1, <1>3, <1>5, <1>7, <2>1, <2>2, IoPools DEF Ends
  <2> QED  BY <1>1, <1>3, <2>1, <2>3
<1> QED  BY <1>6, <1>7

-----------------------------------------------------------------------------
(* A new connection in s takes the producing socket of the ones it          *)
(* dispossesses.                                                            *)
LEMMA EstablishEffect ==
  ASSUME NEW S, S \in Stacks, NEW s \in Slots, s \notin Linked(S.list), NEW new,
         NEW T, T = EstablishIoConnection(S, s, new)
  PROVE  /\ T.active = S.active + 1
         /\ Linked(T.list) = Linked(S.list) \cup {s}
         /\ T.conn[s] = new
         /\ \A x \in Slots \ {s} :
              /\ T.conn[x].state = S.conn[x].state
              /\ T.conn[x].tToO = S.conn[x].tToO
         /\ \E gone : /\ gone = Dispossessed(S, s, new.tToO)
                     /\ \A x \in Slots \ {s} :
                          T.conn[x].producing = IF x \in gone THEN kEipInvalidSocket
                                                ELSE S.conn[x].producing
<1>1. S.list \in Lists /\ S.conn \in [Slots -> CipConnectionObject]
  BY FieldTypes
<1>2. T.active = S.active + 1
  BY DEF EstablishIoConnection
<1>3. Linked(T.list) = Linked(S.list) \cup {s}
  BY <1>1, LongerList DEF EstablishIoConnection
<1>4. PICK gone : gone = Dispossessed(S, s, new.tToO)
  OBVIOUS
<1>5. \A x \in Slots : T.conn[x] =
        IF x = s THEN new
        ELSE IF x \in gone THEN [S.conn[x] EXCEPT !.producing = kEipInvalidSocket]
        ELSE S.conn[x]
  BY <1>4 DEF EstablishIoConnection
<1>6. \A x \in Slots \ {s} :
        /\ T.conn[x].state = S.conn[x].state
        /\ T.conn[x].tToO = S.conn[x].tToO
        /\ T.conn[x].producing = IF x \in gone THEN kEipInvalidSocket
                                 ELSE S.conn[x].producing
  BY <1>1, <1>5 DEF CipConnectionObject
<1> QED  BY <1>2, <1>3, <1>4, <1>5, <1>6

-----------------------------------------------------------------------------
(* The steps of the target, seen from the I/O connections. *)

(* A reset or a reboot leaves no connection. *)
Cleared(T) ==
  /\ T.active = 0
  /\ Linked(T.list) = {}
  /\ \A s \in Slots : T.conn[s].state = "NonExistent"

(* Who ends the connection c, unless it is the owner that times out. *)
EndedByItsOwn(c, T) ==
  \/ T.conn[c].state = "TimedOut"
  \/ conn[c].state = "TimedOut"
  \/ \E n \in Serials : ForwardClose(conn[c].originator, n)
  \/ ReceiveOnClosedDescriptor(c)

(* A connection opens in s, in the state S that its reclaim, if any, left.  *)
Opening(s, udp, new, S, T) ==
  /\ s \in IoSlots /\ WellFormed(S) /\ s \notin Linked(S.list)
  /\ \/ S = Stack
     \/ /\ s \in Linked(list) /\ conn[s].state = "TimedOut"
        /\ \E D \in SUBSET ListenSlots : \E heir : Ends(Stack, S, s, D, heir)
  /\ s \in ListenSlots => Producers(Stack, {Multicast, PointToPoint}) # {}
  /\ new.state = "Established" /\ new.tToO \in TtoOTypes
  /\ udp \in Descriptors /\ new.producing \in ProducingSocket(S, s, new.tToO, udp)
  /\ T = EstablishIoConnection(S, s, new)

IoStep(T) ==
  \/ Cleared(T)
  \/ IoUntouched(Stack, T)
  \/ \E c \in Linked(list) \cap IoSlots : \E D, heir :
       /\ Ends(Stack, T, c, D, heir)
       /\ \/ D \subseteq ListenSlots /\ EndedByItsOwn(c, T)
          \/ OwnerTimesOut
  \/ \E s, udp, new, S : Opening(s, udp, new, S, T)

(* A step that changes no field of an I/O connection but its watchdogs. *)
LEMMA InPlaceStep ==
  ASSUME IInv, UNCHANGED list, active' \in {active, 0},
         \A s \in IoSlots : /\ conn'[s].state = conn[s].state
                            /\ conn'[s].tToO = conn[s].tToO
                            /\ conn'[s].producing = conn[s].producing
  PROVE  \E T : Becomes(T) /\ IoStep(T)
<1>1. PICK T : T = [conn |-> conn', list |-> list', desc |-> desc',
                    sessions |-> sessions', active |-> active']
  OBVIOUS
<1>2. Becomes(T)
  BY <1>1 DEF Becomes
<1>3. active \in Nat
  BY DEF IInv, TypeOK
<1>4. IoUntouched(Stack, T)
  BY <1>1, <1>3 DEF IoUntouched, Stack
<1> QED  BY <1>2, <1>4 DEF IoStep

(* The loss of the state clears it. *)
LEMMA PanicStep ==
  ASSUME NEW cause, Panic(cause)
  PROVE  \E T : Becomes(T) /\ IoStep(T)
<1>1. PICK T : T = [conn |-> NoConnections, list |-> EmptyList, desc |-> desc',
                    sessions |-> sessions', active |-> 0]
  OBVIOUS
<1>2. Becomes(T)
  BY <1>1 DEF Becomes, Panic
<1>3. Cleared(T)
  BY <1>1 DEF Cleared, NoConnections, EmptyConnection, EmptyList, Linked
<1> QED  BY <1>2, <1>3 DEF IoStep

(* A forward open refuses the request, or opens the connection, after it    *)
(* has closed the timed out one it reclaims.                                *)
LEMMA ForwardOpenIoStep ==
  ASSUME IInv, NEW o \in Originators, NEW n \in Serials, NEW point,
         NEW type \in TtoOTypes, ForwardOpenIo(o, n, point, type)
  PROVE  \E T : Becomes(T) /\ IoStep(T)
<1>1. WellFormed(Stack) /\ Stack.conn = conn /\ Stack.list = list
  BY StackIsWellFormed
<1>2. PICK s \in IoConnectionFor(o, point) :
        LET S == IF s \in Linked(list) THEN CloseIoConnection(Stack, s) ELSE Stack
            unused == {d \in Descriptors : S.desc[d] = "free"}
        IN  \/ Becomes(S)
            \/ \E udp \in Lowest(unused) :
               \E producing \in ProducingSocket(S, s, type, udp) :
                 \/ Becomes(EstablishIoConnection(S, s,
                              Opened(o, n, type, udp, producing, 0)))
                 \/ Panic("null node")
  BY DEF ForwardOpenIo
<1>3. /\ s \in IoSlots
      /\ conn[s].state \in {"NonExistent", "TimedOut"}
      /\ s \in ListenSlots => Producers(Stack, {Multicast, PointToPoint}) # {}
  <2>1. \/ s = OwnerSlot
        \/ s \in InputSlots
        \/ s \in ListenSlots /\ Producers(Stack, {Multicast, PointToPoint}) # {}
    BY DEF IoConnectionFor, FromPool, Free, Reclaimable, Lowest
  <2>2. conn[s].state \in {"NonExistent", "TimedOut"}
    BY DEF IoConnectionFor, FromPool, Free, Reclaimable, Lowest
  <2> QED  BY <2>1, <2>2, IoPools
<1>4. PICK S : S = IF s \in Linked(list) THEN CloseIoConnection(Stack, s) ELSE Stack
  OBVIOUS
<1>5. s \in Linked(list) <=> conn[s].state # "NonExistent"
  BY <1>3, IoPools DEF IInv, ListConsistent
<1>6. /\ WellFormed(S) /\ s \notin Linked(S.list)
      /\ \/ S = Stack
         \/ /\ s \in Linked(list) /\ conn[s].state = "TimedOut"
            /\ \E D \in SUBSET ListenSlots : \E heir : Ends(Stack, S, s, D, heir)
  <2>1. CASE s \in Linked(list)
    BY <1>1, <1>3, <1>4, <1>5, <2>1, CloseIoIsSafe, CloseIoEnds
  <2>2. CASE s \notin Linked(list)
    BY <1>1, <1>4, <2>2
  <2> QED  BY <2>1, <2>2
<1>7. CASE Becomes(S)
  <2>1. CASE S = Stack
    <3>1. Stack.active \in Nat
      BY <1>1, FieldTypes DEF WellFormed, WellFormedExcept
    <3>2. IoUntouched(Stack, S)
      BY <2>1, <3>1 DEF IoUntouched
    <3> QED  BY <1>7, <3>2 DEF IoStep
  <2>2. CASE /\ s \in Linked(list) /\ conn[s].state = "TimedOut"
             /\ \E D \in SUBSET ListenSlots : \E heir : Ends(Stack, S, s, D, heir)
    BY <1>3, <1>7, <2>2 DEF IoStep, EndedByItsOwn
  <2> QED  BY <1>6, <2>1, <2>2
<1>8. CASE Panic("null node")
  BY <1>8, PanicStep
<1>9. ASSUME NEW udp \in Descriptors, NEW producing \in ProducingSocket(S, s, type, udp),
             Becomes(EstablishIoConnection(S, s, Opened(o, n, type, udp, producing, 0)))
      PROVE  \E T : Becomes(T) /\ IoStep(T)
  <2>1. PICK new : new = Opened(o, n, type, udp, producing, 0)
    OBVIOUS
  <2>2. new.state = "Established" /\ new.tToO = type /\ new.producing = producing
    BY <2>1 DEF Opened, EmptyConnection
  <2>3. PICK T : T = EstablishIoConnection(S, s, new)
    OBVIOUS
  <2>4. Opening(s, udp, new, S, T)
    BY <1>3, <1>6, <1>9, <2>2, <2>3 DEF Opening
  <2> QED  BY <1>9, <2>1, <2>3, <2>4 DEF IoStep
<1> QED  BY <1>2, <1>4, <1>7, <1>8, <1>9 DEF Lowest

(* A close of any connection by its originator, or by a failed receive. *)
LEMMA CloseStep ==
  ASSUME IInv, NEW c \in Linked(list), NEW T, T = CloseFunction(Stack, c), Becomes(T),
         \/ \E n \in Serials : ForwardClose(conn[c].originator, n)
         \/ ReceiveOnClosedDescriptor(c)
  PROVE  IoStep(T)
<1>1. WellFormed(Stack) /\ Stack \in Stacks /\ Stack.conn = conn /\ Stack.list = list
      /\ c \in Slots
  BY StackIsWellFormed DEF WellFormed, WellFormedExcept, IInv, TypeOK
<1>2. CASE c \in ExplicitSlots
  <2>1. PICK D : D = {c}
    OBVIOUS
  <2>2. D \cap IoSlots = {} /\ T = Discard(Stack, D)
    BY <1>2, <2>1 DEF IoSlots, CloseFunction
  <2> QED  BY <1>1, <2>2, DiscardLeavesIo DEF IoStep
<1>3. CASE c \notin ExplicitSlots
  <2>1. c \in IoSlots /\ T = CloseIoConnection(Stack, c)
    BY <1>1, <1>3 DEF CloseFunction, IoSlots
  <2>2. PICK D \in SUBSET ListenSlots : \E heir : Ends(Stack, T, c, D, heir)
    BY <1>1, <2>1, CloseIoEnds
  <2> QED  BY <2>1, <2>2 DEF IoStep, EndedByItsOwn
<1> QED  BY <1>2, <1>3

(* A timeout of an I/O connection. *)
LEMMA IoTimeOutStep ==
  ASSUME IInv, NEW c \in Linked(list), c \in IoSlots, conn[c].state = "Established",
         NEW T, T = HandleIoConnectionTimeOut(Stack, c), Becomes(T)
  PROVE  IoStep(T)
<1>1. WellFormed(Stack) /\ Stack.conn = conn /\ Stack.list = list
  BY StackIsWellFormed
<1>2. PICK D, heir : /\ T.conn[c].state = "TimedOut"
                     /\ Ends(Stack, T, c, D, heir)
                     /\ c = OwnerSlot \/ D \subseteq ListenSlots
  BY <1>1, IoTimeOutEnds
<1>3. c = OwnerSlot => OwnerTimesOut
  BY <1>2 DEF OwnerTimesOut, Becomes
<1> QED  BY <1>2, <1>3 DEF IoStep, EndedByItsOwn

(* Every step of the connection manager is one of those. *)
LEMMA ConnectionManagerStep ==
  ASSUME IInv, CMNext
  PROVE  \E T : Becomes(T) /\ IoStep(T)
<1>1. /\ WellFormed(Stack) /\ Stack.conn = conn /\ Stack.list = list /\ TypeOK
      /\ IoSlots \subseteq Slots /\ IoSlots \cap ExplicitSlots = {}
      /\ \A s \in Slots : conn[s] \in CipConnectionObject
  BY StackIsWellFormed, IoPools DEF IInv, IoSlots, TypeOK
<1>2. ASSUME NEW o \in Originators, NEW n \in Serials, NEW point, NEW type \in TtoOTypes,
             ForwardOpenIo(o, n, point, type)
      PROVE  \E T : Becomes(T) /\ IoStep(T)
  BY <1>2, ForwardOpenIoStep
<1>3. ASSUME NEW o \in Originators, NEW n \in Serials, NEW h \in SessionHandles,
             ForwardOpenClass3(o, n, h)
      PROVE  \E T : Becomes(T) /\ IoStep(T)
  <2>1. PICK s \in Free(ExplicitSlots) :
          \/ /\ conn' = [conn EXCEPT ![s] = Opened(o, n, PointToPoint,
                                      kEipInvalidSocket, kEipInvalidSocket, h)]
             /\ list' = InsertAtHead(list, s)
             /\ UNCHANGED <<cursor, desc, udpIo, sessions, active, fault>>
          \/ Panic("null node")
    BY <1>3 DEF ForwardOpenClass3, Lowest
  <2>2. CASE Panic("null node")
    BY <2>2, PanicStep
  <2>3. CASE /\ conn' = [conn EXCEPT ![s] = Opened(o, n, PointToPoint,
                                      kEipInvalidSocket, kEipInvalidSocket, h)]
             /\ list' = InsertAtHead(list, s)
             /\ UNCHANGED <<cursor, desc, udpIo, sessions, active, fault>>
    <3>1. s \notin IoSlots /\ \A x \in IoSlots : conn'[x] = conn[x]
      BY <1>1, <2>3 DEF Free, TypeOK
    <3>2. Linked(list') = Linked(list) \cup {s}
      BY <2>3 DEF InsertAtHead, Linked
    <3>3. PICK T : T = [conn |-> conn', list |-> list', desc |-> desc',
                        sessions |-> sessions', active |-> active']
      OBVIOUS
    <3>4. IoUntouched(Stack, T) /\ Becomes(T)
      BY <1>1, <2>3, <3>1, <3>2, <3>3 DEF IoUntouched, Becomes, Stack, TypeOK
    <3> QED  BY <3>4 DEF IoStep
  <2> QED  BY <2>1, <2>2, <2>3
<1>4. ASSUME NEW o \in Originators, NEW n \in Serials, ForwardClose(o, n)
      PROVE  \E T : Becomes(T) /\ IoStep(T)
  <2>1. PICK c \in Linked(list) : /\ Becomes(CloseFunction(Stack, c))
                                  /\ conn[c].originator = o
    BY <1>4 DEF ForwardClose, Front
  <2>2. PICK T : T = CloseFunction(Stack, c)
    OBVIOUS
  <2> QED  BY <1>4, <2>1, <2>2, CloseStep
<1>5. ASSUME NEW c, NEW t, NEW late, ReceiveIoData(c, t, late)
      PROVE  \E T : Becomes(T) /\ IoStep(T)
  <2>1. t \in Slots /\ conn' = [conn EXCEPT ![t] = Received(conn[t], late)]
    BY <1>1, <1>5 DEF ReceiveIoData
  <2>2. \A s \in IoSlots : /\ conn'[s].state = conn[s].state
                           /\ conn'[s].tToO = conn[s].tToO
                           /\ conn'[s].producing = conn[s].producing
    BY <1>1, <2>1 DEF Received, CipConnectionObject, TypeOK
  <2> QED  BY <1>5, <2>2, InPlaceStep DEF ReceiveIoData
<1>6. ASSUME NEW c \in IoSlots, ReceiveOnClosedDescriptor(c)
      PROVE  \E T : Becomes(T) /\ IoStep(T)
  <2>1. c \in Linked(list) /\ (Panic("freed node") \/ Becomes(CloseIoConnection(Stack, c)))
    BY <1>6 DEF ReceiveOnClosedDescriptor, Front
  <2>2. PICK T : T = CloseIoConnection(Stack, c)
    OBVIOUS
  <2>3. T = CloseFunction(Stack, c)
    BY <2>2 DEF CloseFunction, IoSlots
  <2> QED  BY <1>6, <2>1, <2>2, <2>3, CloseStep, PanicStep
<1>7. ASSUME NEW c, ReceiveExplicit(c)
      PROVE  \E T : Becomes(T) /\ IoStep(T)
  <2>1. \A s \in IoSlots : conn'[s] = conn[s]
    BY <1>1, <1>7 DEF ReceiveExplicit, TypeOK
  <2> QED  BY <1>7, <2>1, InPlaceStep DEF ReceiveExplicit
<1>8. CASE ManageConnections
  BY <1>8, InPlaceStep DEF ManageConnections
<1>9. ASSUME NEW c \in cursor, VisitAges(c)
      PROVE  \E T : Becomes(T) /\ IoStep(T)
  <2>1. \/ conn' = [conn EXCEPT ![c].watchdog = conn[c].watchdog - 1]
        \/ conn' = conn
    BY <1>9 DEF VisitAges
  <2>2. \A s \in IoSlots : /\ conn'[s].state = conn[s].state
                           /\ conn'[s].tToO = conn[s].tToO
                           /\ conn'[s].producing = conn[s].producing
    BY <1>1, <2>1 DEF CipConnectionObject, TypeOK
  <2> QED  BY <1>9, <2>2, InPlaceStep DEF VisitAges
<1>10. ASSUME NEW c \in cursor, VisitTimesOutIo(c)
       PROVE  \E T : Becomes(T) /\ IoStep(T)
  <2>1. c \in Linked(list) /\ c \in IoSlots /\ conn[c].state = "Established"
    BY <1>1, <1>10 DEF TypeOK, VisitTimesOutIo, Expired
  <2>2. PICK T : T = HandleIoConnectionTimeOut(Stack, c)
    OBVIOUS
  <2>3. Panic("freed node") \/ Becomes(T)
    BY <1>10, <2>2 DEF VisitTimesOutIo
  <2> QED  BY <2>1, <2>2, <2>3, IoTimeOutStep, PanicStep
<1>11. ASSUME NEW c \in cursor, VisitTimesOutClass3(c)
       PROVE  \E T : Becomes(T) /\ IoStep(T)
  <2>1. CASE UNCHANGED <<conn, list, cursor, desc, udpIo, sessions, active>>
    BY <2>1, InPlaceStep
  <2>2. PICK T : T = Class3ConnectionTimeout(Stack, c)
    OBVIOUS
  <2>3. CASE Becomes(T)
    <3>1. c \in ExplicitSlots
      BY <1>11 DEF VisitTimesOutClass3
    <3> QED  BY <1>1, <2>2, <2>3, <3>1, Class3TimeOutLeavesIo DEF IoStep
  <2> QED  BY <1>11, <2>1, <2>2, <2>3 DEF VisitTimesOutClass3
<1> QED  BY <1>2, <1>3, <1>4, <1>5, <1>6, <1>7, <1>8, <1>9, <1>10, <1>11
         DEF CMNext, Visit

(* So is every other step. *)
LEMMA IoStepOfEveryStep ==
  ASSUME IInv, [Next]_cmVars
  PROVE  \E T : Becomes(T) /\ IoStep(T)
<1>1. /\ WellFormed(Stack) /\ Stack \in Stacks
      /\ Stack.conn = conn /\ Stack.list = list /\ TypeOK
  BY StackIsWellFormed DEF IInv, WellFormed, WellFormedExcept
<1>2. CASE CMNext
  BY <1>2, ConnectionManagerStep
<1>3. CASE UNCHANGED <<conn, list>> /\ active' \in {active, 0}
  BY <1>3, InPlaceStep
<1>4. CASE \E cause : Panic(cause)
  BY <1>4, PanicStep
<1>5. ASSUME NEW h \in SessionHandles, EndSession(h)
      PROVE  \E T : Becomes(T) /\ IoStep(T)
  <2>1. PICK T : T = CloseSessions(Stack, {h})
    OBVIOUS
  <2> QED  BY <1>1, <1>5, <2>1, CloseSessionsLeavesIo DEF EndSession, IoStep
<1>6. ASSUME NEW h \in SessionHandles, EncapsulationInactivity(h)
      PROVE  \E T : Becomes(T) /\ IoStep(T)
  <2>1. PICK D : D = FirstClass3OfSession(Stack, h - 1)
    OBVIOUS
  <2>2. PICK S : S = Discard(Stack, D)
    OBVIOUS
  <2>3. PICK T : T = CloseSessions(S, {h})
    OBVIOUS
  <2>4. D \cap IoSlots = {}
    BY <2>1 DEF FirstClass3OfSession, Front, IoSlots
  <2>5. IoUntouched(Stack, S) /\ WellFormed(S)
    BY <1>1, <2>2, <2>4, DiscardLeavesIo, DiscardIsSafe DEF WellFormed
  <2>6. IoUntouched(S, T) /\ WellFormed(T)
    BY <2>3, <2>5, CloseSessionsLeavesIo, CloseSessionsIsSafe
  <2>7. Stack.active \in Nat /\ S.active \in Nat /\ T.active \in Nat
    BY <1>1, <2>5, <2>6, FieldTypes DEF WellFormed, WellFormedExcept
  <2>8. IoUntouched(Stack, T)
    BY <2>5, <2>6, <2>7 DEF IoUntouched
  <2> QED  BY <1>6, <2>1, <2>2, <2>3, <2>8 DEF EncapsulationInactivity, IoStep
<1>7. CASE ResetDevice
  <2>1. PICK S : S = Discard(Stack, Linked(list))
    OBVIOUS
  <2>2. conn' = S.conn /\ list' = S.list /\ desc' = S.desc /\ active' = 0
    BY <1>7, <2>1 DEF ResetDevice
  <2>3. Linked(S.list) = {}
    BY <1>1, <2>1 DEF Discard, RemoveNodes, Linked
  <2>4. \A s \in Slots : S.conn[s].state = "NonExistent"
    BY <1>1, <2>1 DEF Discard, EmptyConnection, IInv, ListConsistent
  <2>5. PICK T : T = [conn |-> conn', list |-> list', desc |-> desc',
                      sessions |-> sessions', active |-> active']
    OBVIOUS
  <2>6. Becomes(T) /\ Cleared(T)
    BY <2>2, <2>3, <2>4, <2>5 DEF Becomes, Cleared
  <2> QED  BY <2>6 DEF IoStep
<1>8. CASE EncapNext
  <2>1. ASSUME NEW o \in Originators, AcceptTcp(o)
        PROVE  \E T : Becomes(T) /\ IoStep(T)
    BY <1>3, <1>4, <2>1 DEF AcceptTcp
  <2>2. ASSUME NEW d \in Descriptors, RegisterSession(d) \/ CloseUnregisteredTcp(d)
        PROVE  \E T : Becomes(T) /\ IoStep(T)
    BY <1>3, <2>2 DEF RegisterSession, CloseUnregisteredTcp
  <2> QED  BY <1>5, <1>6, <1>8, <2>1, <2>2 DEF EncapNext
<1>9. CASE NotifyLinkDown \/ ResetDeviceToInitialConfiguration \/ UNCHANGED cmVars
  BY <1>3, <1>9 DEF NotifyLinkDown, ResetDeviceToInitialConfiguration, cmVars
<1>10. CASE PanicReboot \/ Restart
  BY <1>4, <1>10 DEF PanicReboot, Restart
<1> QED  BY <1>2, <1>7, <1>8, <1>9, <1>10 DEF Next

-----------------------------------------------------------------------------
(* The application's count. *)

EstablishedIn(S) == {s \in IoSlots : S.conn[s].state = "Established"}

CountCovered(S) == S.active <= Cardinality(EstablishedIn(S))

(* Taking away a set and one more element takes away no more than that.     *)
LEMMA CardinalityLeft ==
  ASSUME NEW A \in SUBSET Slots, NEW B \in SUBSET Slots, NEW D \in SUBSET Slots, NEW c,
         A \subseteq B \cup D \cup {c}
  PROVE  /\ Cardinality(A) \in Nat /\ Cardinality(B) \in Nat /\ Cardinality(D) \in Nat
         /\ Cardinality(A) <= Cardinality(B) + Cardinality(D) + 1
<1>1. IsFiniteSet(A) /\ IsFiniteSet(B) /\ IsFiniteSet(D)
  BY PoolsAssumption, FS_Subset
<1>2. PICK E : E = B \cup D
  OBVIOUS
<1>3. IsFiniteSet(E) /\ Cardinality(E) \in Nat
      /\ Cardinality(E) <= Cardinality(B) + Cardinality(D)
  <2>1. /\ IsFiniteSet(B \cup D) /\ IsFiniteSet(B \cap D)
        /\ Cardinality(B \cup D) = Cardinality(B) + Cardinality(D) - Cardinality(B \cap D)
    BY <1>1, FS_Union, FS_Intersection
  <2> QED  BY <1>1, <1>2, <2>1, FS_CardinalityType
<1>4. /\ IsFiniteSet(E \cup {c})
      /\ Cardinality(E \cup {c}) \in Nat
      /\ Cardinality(E \cup {c}) <= Cardinality(E) + 1
  <2>1. /\ IsFiniteSet(E \cup {c})
        /\ Cardinality(E \cup {c}) = IF c \in E THEN Cardinality(E) ELSE Cardinality(E) + 1
    BY <1>3, FS_AddElement
  <2> QED  BY <1>3, <2>1
<1>5. Cardinality(A) <= Cardinality(E \cup {c})
  BY <1>2, <1>4, FS_Subset
<1> QED  BY <1>1, <1>3, <1>4, <1>5, FS_CardinalityType

(* The end of a connection is announced at least once for each connection   *)
(* that ends, and the count stops at zero.                                  *)
LEMMA EndsKeepsCount ==
  ASSUME NEW S, NEW T, NEW c, NEW D, NEW heir, Ends(S, T, c, D, heir),
         S.active \in Nat, T.active \in Nat, CountCovered(S)
  PROVE  CountCovered(T)
<1>1. EstablishedIn(S) \subseteq EstablishedIn(T) \cup D \cup {c}
  BY DEF Ends, EstablishedIn
<1>2. /\ EstablishedIn(S) \in SUBSET Slots /\ EstablishedIn(T) \in SUBSET Slots
      /\ D \in SUBSET Slots
  BY IoPools DEF EstablishedIn, Ends
<1>3. /\ Cardinality(EstablishedIn(S)) \in Nat /\ Cardinality(EstablishedIn(T)) \in Nat
      /\ Cardinality(D) \in Nat
      /\ Cardinality(EstablishedIn(S)) <= Cardinality(EstablishedIn(T)) + Cardinality(D) + 1
  BY <1>1, <1>2, CardinalityLeft
<1>4. T.active <= IoConnectionsGone(IoConnectionsGone(S.active, 1), 2 * Cardinality(D))
  BY DEF Ends
<1> QED  BY <1>3, <1>4 DEF CountCovered, IoConnectionsGone

(* Each opening is announced once. *)
LEMMA OpeningKeepsCount ==
  ASSUME NEW S, NEW T, NEW s, NEW new, NEW udp, Opening(s, udp, new, S, T), CountCovered(S)
  PROVE  CountCovered(T)
<1>1. S \in Stacks /\ InUseExcept(S, {}) /\ s \in Slots /\ s \notin Linked(S.list)
  BY IoPools DEF Opening, WellFormed, WellFormedExcept
<1>2. /\ T.active = S.active + 1
      /\ T.conn[s] = new
      /\ \A x \in Slots \ {s} : T.conn[x].state = S.conn[x].state
  BY <1>1, EstablishEffect DEF Opening
<1>3. s \notin EstablishedIn(S)
  BY <1>1 DEF EstablishedIn, InUseExcept
<1>4. EstablishedIn(T) = EstablishedIn(S) \cup {s}
  BY <1>2, IoPools DEF EstablishedIn, Opening
<1>5. IsFiniteSet(EstablishedIn(S))
  BY IoPools, PoolsAssumption, FS_Subset DEF EstablishedIn
<1>6. Cardinality(EstablishedIn(T)) = Cardinality(EstablishedIn(S)) + 1
  BY <1>3, <1>4, <1>5, FS_AddElement
<1> QED  BY <1>1, <1>2, <1>5, <1>6, FieldTypes, FS_CardinalityType DEF CountCovered

(* No step lets the count exceed the established connections. *)
LEMMA StepKeepsCount ==
  ASSUME IInv, ActiveNotAboveEstablished, [Next]_cmVars
  PROVE  ActiveNotAboveEstablished'
<1>1. PICK T : Becomes(T) /\ IoStep(T)
  BY IoStepOfEveryStep
<1>2. T.active \in Nat
  BY <1>1, StepIsSafe DEF IInv, TypeOK, Becomes
<1>3. /\ CountCovered(Stack) /\ WellFormed(Stack) /\ Stack.active \in Nat
      /\ Stack.conn = conn /\ Stack.list = list
  BY StackIsWellFormed DEF ActiveNotAboveEstablished, CountCovered, EstablishedIn, EstablishedIo, IInv, TypeOK
<1>4. CountCovered(T)
  <2>1. CASE Cleared(T)
    <3>1. Cardinality(EstablishedIn(T)) \in Nat
      BY IoPools, PoolsAreFinite DEF EstablishedIn
    <3> QED  BY <2>1, <3>1 DEF Cleared, CountCovered
  <2>2. CASE IoUntouched(Stack, T)
    <3>1. EstablishedIn(T) = EstablishedIn(Stack)
      BY <2>2 DEF IoUntouched, EstablishedIn
    <3>2. Cardinality(EstablishedIn(T)) \in Nat
      BY IoPools, PoolsAreFinite DEF EstablishedIn
    <3> QED  BY <1>2, <1>3, <2>2, <3>1, <3>2 DEF IoUntouched, CountCovered
  <2>3. CASE \E c, D, heir : Ends(Stack, T, c, D, heir)
    BY <1>2, <1>3, <2>3, EndsKeepsCount
  <2>4. ASSUME NEW s, NEW udp, NEW new, NEW S, Opening(s, udp, new, S, T)
        PROVE  CountCovered(T)
    <3>1. S = Stack \/ \E D, heir : Ends(Stack, S, s, D, heir)
      BY <2>4 DEF Opening
    <3>2. S.active \in Nat
      BY <2>4, FieldTypes DEF Opening, WellFormed, WellFormedExcept
    <3>3. CountCovered(S)
      BY <1>3, <3>1, <3>2, EndsKeepsCount
    <3> QED  BY <2>4, <3>3, OpeningKeepsCount
  <2> QED  BY <1>1, <2>1, <2>2, <2>3, <2>4 DEF IoStep
<1> QED  BY <1>1, <1>4 DEF CountCovered, EstablishedIn, ActiveNotAboveEstablished,
         EstablishedIo, Becomes

(* The count of the application never exceeds the number of established I/O *)
(* connections, for any pools, although one close may be announced up to    *)
(* three times and a link event sets the count back to zero at any moment   *)
(* (CheckIoConnectionEvent, CloseAllConnectionsForInputWithSameType).       *)
THEOREM CountIsCovered == Spec => []ActiveNotAboveEstablished
<1>1. Init => IInv /\ ActiveNotAboveEstablished
  <2>1. Cardinality(EstablishedIo) \in Nat
    BY IoPools, PoolsAreFinite DEF EstablishedIo
  <2> QED  BY <2>1, EmptyStateIsSafe DEF Init, CMInit, ActiveNotAboveEstablished
<1>2. IInv /\ ActiveNotAboveEstablished /\ [Next]_cmVars =>
        IInv' /\ ActiveNotAboveEstablished'
  BY StepIsSafe, StepKeepsCount
<1> QED  BY <1>1, <1>2, PTL DEF Spec

-----------------------------------------------------------------------------
(* Input only connections. *)

(* A connection that is closed, directly or with another one, was linked.   *)
LEMMA StepKeepsInputOnly ==
  ASSUME IInv, [Next]_cmVars, NEW s \in InputSlots, InputOnlyClosed(s)
  PROVE  \/ \E n \in Serials : ForwardClose(conn[s].originator, n)
         \/ ReceiveOnClosedDescriptor(s)
         \/ OwnerTimesOut
         \/ Linked(list') = {}
<1>1. PICK T : Becomes(T) /\ IoStep(T)
  BY IoStepOfEveryStep
<1>2. /\ s \in IoSlots /\ s \in Slots /\ s \notin ListenSlots
      /\ conn[s].state = "Established" /\ T.conn[s].state = "NonExistent"
  BY <1>1, IoPools DEF InputOnlyClosed, Becomes
<1>3. WellFormed(Stack) /\ Stack.conn = conn /\ Stack.list = list
  BY StackIsWellFormed
<1>4. CASE Cleared(T)
  BY <1>1, <1>4 DEF Cleared, Becomes
<1>5. CASE IoUntouched(Stack, T)
  BY <1>2, <1>3, <1>5 DEF IoUntouched
<1>6. ASSUME NEW c \in Linked(list) \cap IoSlots, NEW D, NEW heir,
             Ends(Stack, T, c, D, heir), D \subseteq ListenSlots, EndedByItsOwn(c, T)
      PROVE  \/ \E n \in Serials : ForwardClose(conn[s].originator, n)
             \/ ReceiveOnClosedDescriptor(s)
  <2>1. s = c
    BY <1>2, <1>3, <1>6 DEF Ends
  <2> QED  BY <1>2, <1>6, <2>1 DEF EndedByItsOwn
<1>7. ASSUME NEW x, NEW udp, NEW new, NEW S, Opening(x, udp, new, S, T)
      PROVE  FALSE
  <2>1. S \in Stacks /\ x \in Slots /\ x \notin Linked(S.list) /\ new.state = "Established"
    BY <1>7, IoPools DEF Opening, WellFormed, WellFormedExcept
  <2>2. T.conn[x] = new /\ \A y \in Slots \ {x} : T.conn[y].state = S.conn[y].state
    BY <1>7, <2>1, EstablishEffect DEF Opening
  <2>3. s # x /\ S.conn[s].state = "NonExistent"
    BY <1>2, <2>1, <2>2
  <2>4. CASE S = Stack
    BY <1>2, <1>3, <2>3, <2>4
  <2>5. ASSUME NEW D \in SUBSET ListenSlots, NEW heir, Ends(Stack, S, x, D, heir)
        PROVE  FALSE
    BY <1>2, <1>3, <2>3, <2>5 DEF Ends
  <2> QED  BY <1>7, <2>4, <2>5 DEF Opening
<1> QED  BY <1>1, <1>4, <1>5, <1>6, <1>7 DEF IoStep

(* An input only connection ends by its own scanner's close, its own failed *)
(* receive, the owner's timeout or a loss of all connections, whichever T->O *)
(* types the scanners mix and whatever else is handed over, closed or       *)
(* reclaimed (CloseIoConnection, HandleIoConnectionTimeOut).                *)
THEOREM InputOnlyIsKept == Spec => InputOnlyOutlivesOthers
<1>1. IInv /\ [Next]_cmVars =>
        [\A s \in InputSlots : InputOnlyClosed(s) =>
           \/ \E n \in Serials : ForwardClose(conn[s].originator, n)
           \/ ReceiveOnClosedDescriptor(s)
           \/ OwnerTimesOut
           \/ Linked(list') = {}]_cmVars
  BY StepKeepsInputOnly
<1> QED  BY <1>1, Invariance, PTL DEF Spec, InputOnlyOutlivesOthers

-----------------------------------------------------------------------------
(* The multicast producer while all scanners ask for multicast. *)

OnlyMulticast(S) == \A s \in Linked(S.list) \cap IoSlots : S.conn[s].tToO = Multicast

ListenersProduceNothing(S) ==
  \A s \in Linked(S.list) \cap ListenSlots : S.conn[s].producing = kEipInvalidSocket

ProducerFor(S) ==
  EstablishedIn(S) # {} => Producers(S, {Multicast}) \cap NonListenOnlySlots # {}

Produced(S) == OnlyMulticast(S) /\ ListenersProduceNothing(S) /\ ProducerFor(S)

(* The end of a connection leaves a producer, or nobody who needs one.      *)
LEMMA EndsKeepsProducer ==
  ASSUME NEW S, NEW T, NEW c \in IoSlots, NEW D, NEW heir, Ends(S, T, c, D, heir),
         WellFormed(S), c \in Linked(S.list), Produced(S)
  PROVE  Produced(T)
<1>1. /\ OneProducer(S) /\ S \in Stacks
      /\ \A s \in IoSlots : s \in Linked(S.list) <=> S.conn[s].state # "NonExistent"
  BY IoPools DEF WellFormed, WellFormedExcept, InUseExcept
<1>2. \A s \in IoSlots : s \in Linked(T.list) =>
        /\ s \in Linked(S.list) /\ s \notin D
        /\ T.conn[s].tToO = S.conn[s].tToO
        /\ T.conn[s].producing \in {S.conn[s].producing, kEipInvalidSocket} \/ s \in heir
  BY DEF Ends
<1>3. OnlyMulticast(T)
  BY <1>2 DEF OnlyMulticast, Produced
<1>4. heir \cap ListenSlots = {}
  BY IoPools DEF Ends, NonControlMasters
<1>5. ListenersProduceNothing(T)
  BY <1>2, <1>4, IoPools DEF ListenersProduceNothing, Produced
<1>6. ASSUME NEW e \in EstablishedIn(T)
      PROVE  Producers(T, {Multicast}) \cap NonListenOnlySlots # {}
  <2>1. /\ e \in IoSlots /\ e # c /\ e \notin D
        /\ S.conn[e].state = "Established" /\ e \in Linked(S.list)
        /\ S.conn[e].tToO = Multicast
    BY <1>1, <1>6 DEF EstablishedIn, Ends, Produced, OnlyMulticast
  <2>2. D \subseteq ListenSlots
    BY <2>1 DEF Ends
  <2>3. PICK p \in Producers(S, {Multicast}) : p \in NonListenOnlySlots
    BY <2>1 DEF Produced, ProducerFor, EstablishedIn
  <2>4. /\ p \in IoSlots /\ p \in Linked(S.list) /\ p \notin D
        /\ S.conn[p].producing # kEipInvalidSocket /\ S.conn[p].tToO = Multicast
    BY <2>2, <2>3, IoPools DEF Producers
  <2>5. CASE p # c
    <3>1. p \notin heir
      BY <2>4 DEF Ends, NonControlMasters
    <3>2. p \in Producers(T, {Multicast})
      BY <2>4, <2>5, <3>1 DEF Ends, Producers
    <3> QED  BY <2>3, <3>2
  <2>6. CASE p = c
    <3>1. ControlsMulticast(S, c)
      BY <2>3, <2>4, <2>6 DEF ControlsMulticast
    <3>2. CASE heir = {}
      <4>1. NonControlMasters(S) = {} /\ Linked(S.list) \cap ListenSlots \subseteq D
        BY <3>1, <3>2 DEF Ends
      <4>2. e \in NonListenOnlySlots
        BY <2>1, <4>1, IoPools
      <4>3. S.conn[e].producing # kEipInvalidSocket
        BY <2>1, <4>1, <4>2 DEF NonControlMasters
      <4>4. e \in Producers(S, {Multicast})
        BY <2>1, <4>3 DEF Producers
      <4> QED  BY <1>1, <2>1, <2>3, <2>6, <4>4 DEF OneProducer
    <3>3. ASSUME NEW h \in heir
          PROVE  Producers(T, {Multicast}) \cap NonListenOnlySlots # {}
      <4>1. /\ h \in NonListenOnlySlots /\ h \in Linked(S.list) /\ h # c /\ h \notin D
            /\ S.conn[h].tToO = Multicast
        BY <3>3 DEF Ends, NonControlMasters
      <4>2. h \in IoSlots
        BY <4>1, IoPools DEF NonListenOnlySlots
      <4>3. /\ h \in Linked(T.list) /\ T.conn[h].tToO = Multicast
            /\ T.conn[h].producing = S.conn[c].producing
        BY <3>3, <4>1, <4>2 DEF Ends
      <4>4. h \in Producers(T, {Multicast})
        BY <2>4, <2>6, <4>2, <4>3 DEF Producers
      <4> QED  BY <4>1, <4>4
    <3> QED  BY <3>2, <3>3
  <2> QED  BY <2>5, <2>6
<1> QED  BY <1>3, <1>5, <1>6 DEF Produced, ProducerFor

(* The end of a listen only connection leaves the producer.                 *)
LEMMA ListenerEndKeepsProducer ==
  ASSUME NEW S, NEW T, NEW c \in ListenSlots, NEW D \in SUBSET ListenSlots, NEW heir,
         Ends(S, T, c, D, heir), Produced(S),
         Producers(S, {Multicast, PointToPoint}) # {}
  PROVE  Producers(T, {Multicast}) # {}
<1>1. PICK p : p \in Producers(S, {Multicast, PointToPoint})
  OBVIOUS
<1>2. /\ p \in IoSlots /\ p \in Linked(S.list) /\ S.conn[p].producing # kEipInvalidSocket
      /\ S.conn[p].tToO = Multicast /\ p \notin ListenSlots
  BY <1>1 DEF Producers, Produced, OnlyMulticast, ListenersProduceNothing
<1>3. p \notin heir /\ p # c /\ p \notin D
  BY <1>2 DEF Ends, NonControlMasters
<1> QED  BY <1>2, <1>3 DEF Ends, Producers

(* What opening leaves in the object and in those of the others.            *)
LEMMA OpeningEffect ==
  ASSUME NEW S, NEW T, NEW s, NEW new, NEW udp, Opening(s, udp, new, S, T)
  PROVE  /\ Linked(T.list) = Linked(S.list) \cup {s}
         /\ T.conn[s] = new
         /\ \A x \in Slots \ {s} : T.conn[x].tToO = S.conn[x].tToO
         /\ \E gone : /\ gone = Dispossessed(S, s, new.tToO)
                     /\ \A x \in Slots \ {s} :
                          T.conn[x].producing = IF x \in gone THEN kEipInvalidSocket
                                                ELSE S.conn[x].producing
<1>1. S \in Stacks /\ s \in Slots /\ s \notin Linked(S.list)
  BY IoPools DEF Opening, WellFormed, WellFormedExcept
<1>2. T = EstablishIoConnection(S, s, new)
  BY DEF Opening
<1>3. Linked(T.list) = Linked(S.list) \cup {s}
  <2>1. S.list \in Lists
    BY <1>1, FieldTypes
  <2> QED  BY <1>1, <1>2, <2>1, LongerList DEF EstablishIoConnection
<1>4. T.conn[s] = new
  BY <1>1, <1>2, EstablishEffect
<1>5. \A x \in Slots \ {s} : T.conn[x].tToO = S.conn[x].tToO
  BY <1>1, <1>2, EstablishEffect
<1>6. \E gone : /\ gone = Dispossessed(S, s, new.tToO)
                     /\ \A x \in Slots \ {s} :
                          T.conn[x].producing = IF x \in gone THEN kEipInvalidSocket
                                                ELSE S.conn[x].producing
  BY <1>1, <1>2, EstablishEffect
<1> QED  BY <1>3, <1>4, <1>5, <1>6

(* The first connection produces, an owner takes over, any other joins.     *)
LEMMA OpeningKeepsProducer ==
  ASSUME TtoOTypes \subseteq {Multicast},
         NEW S, NEW T, NEW s, NEW new, NEW udp, Opening(s, udp, new, S, T), Produced(S),
         s \in ListenSlots => Producers(S, {Multicast}) # {}
  PROVE  Produced(T)
<1>1. /\ S \in Stacks /\ s \in Slots /\ s \in IoSlots /\ s \notin Linked(S.list)
      /\ new.tToO = Multicast /\ Multicast # PointToPoint
      /\ udp # kEipInvalidSocket /\ new.producing \in ProducingSocket(S, s, Multicast, udp)
  <2>1. /\ S \in Stacks /\ s \in IoSlots /\ s \notin Linked(S.list)
        /\ new.tToO \in TtoOTypes /\ udp \in Descriptors
        /\ new.producing \in ProducingSocket(S, s, new.tToO, udp)
    BY DEF Opening, WellFormed, WellFormedExcept
  <2>2. new.tToO = Multicast
    BY <2>1
  <2>3. Multicast # PointToPoint
    BY DEF Multicast, PointToPoint
  <2>4. udp # kEipInvalidSocket
    BY <2>1, NetworkAssumption DEF kEipInvalidSocket
  <2>5. s \in Slots
    BY <2>1, IoPools
  <2> QED  BY <2>1, <2>2, <2>3, <2>4, <2>5
<1>2. /\ Linked(T.list) = Linked(S.list) \cup {s}
      /\ T.conn[s] = new
      /\ \A x \in Slots \ {s} : T.conn[x].tToO = S.conn[x].tToO
  <2>1. Linked(T.list) = Linked(S.list) \cup {s}
    BY OpeningEffect
  <2>2. T.conn[s] = new
    BY OpeningEffect
  <2>3. \A x \in Slots \ {s} : T.conn[x].tToO = S.conn[x].tToO
    BY OpeningEffect
  <2> QED  BY <2>1, <2>2, <2>3
<1>3. PICK gone : /\ gone = Dispossessed(S, s, new.tToO)
                  /\ \A x \in Slots \ {s} :
                       T.conn[x].producing = IF x \in gone THEN kEipInvalidSocket
                                             ELSE S.conn[x].producing
  BY OpeningEffect
<1>4. OnlyMulticast(T)
  BY <1>1, <1>2, IoPools DEF OnlyMulticast, Produced
<1>5. s \in ListenSlots => new.producing = kEipInvalidSocket
  BY <1>1, IoPools DEF ProducingSocket
<1>6. ListenersProduceNothing(T)
  BY <1>2, <1>3, <1>5, IoPools DEF ListenersProduceNothing, Produced
<1>7. CASE new.producing # kEipInvalidSocket
  <2>1. s \in NonListenOnlySlots /\ s \in Producers(T, {Multicast})
    BY <1>1, <1>2, <1>5, <1>7, IoPools DEF Producers
  <2> QED  BY <1>4, <1>6, <2>1 DEF Produced, ProducerFor
<1>8. CASE new.producing = kEipInvalidSocket
  <2>1. Producers(S, {Multicast}) # {}
    BY <1>1, <1>8 DEF ProducingSocket
  <2>2. s # OwnerSlot
    <3>1. s = OwnerSlot => \E m \in Producers(S, {Multicast}) :
                             new.producing = S.conn[m].producing
      BY <1>1, <2>1 DEF ProducingSocket, Front
    <3> QED  BY <1>8, <3>1 DEF Producers
  <2>3. gone = {}
    BY <1>3, <2>2 DEF Dispossessed
  <2>4. PICK p \in Producers(S, {Multicast}) : TRUE
    BY <2>1
  <2>5. /\ p \in IoSlots /\ p # s /\ p \in Linked(S.list)
        /\ S.conn[p].producing # kEipInvalidSocket /\ S.conn[p].tToO = Multicast
    BY <1>1, <2>4 DEF Producers
  <2>6. p \in Producers(T, {Multicast})
    BY <1>2, <1>3, <2>3, <2>5, IoPools DEF Producers
  <2>7. p \in NonListenOnlySlots
    BY <2>5, IoPools DEF Produced, ListenersProduceNothing
  <2> QED  BY <1>4, <1>6, <2>6, <2>7 DEF Produced, ProducerFor
<1> QED  BY <1>7, <1>8

(* No step leaves a multicast connection without a producer. *)
LEMMA StepKeepsProducer ==
  ASSUME TtoOTypes \subseteq {Multicast}, IInv, Produced(Stack), [Next]_cmVars
  PROVE  Produced(Stack)'
<1>1. PICK T : Becomes(T) /\ IoStep(T)
  BY IoStepOfEveryStep
<1>2. WellFormed(Stack) /\ Stack.conn = conn /\ Stack.list = list
  BY StackIsWellFormed
<1>3. Produced(T)
  <2>1. CASE Cleared(T)
    BY <2>1, IoPools DEF Cleared, Produced, OnlyMulticast, ListenersProduceNothing,
       ProducerFor, EstablishedIn
  <2>2. CASE IoUntouched(Stack, T)
    <3>1. Producers(T, {Multicast}) = Producers(Stack, {Multicast})
      BY <2>2 DEF IoUntouched, Producers
    <3>2. EstablishedIn(T) = EstablishedIn(Stack)
      BY <2>2 DEF IoUntouched, EstablishedIn
    <3> QED  BY <2>2, <3>1, <3>2, IoPools DEF IoUntouched, Produced, OnlyMulticast,
             ListenersProduceNothing, ProducerFor
  <2>3. CASE \E c \in Linked(list) \cap IoSlots : \E D, heir :
               Ends(Stack, T, c, D, heir)
    BY <1>2, <2>3, EndsKeepsProducer
  <2>4. ASSUME NEW s, NEW udp, NEW new, NEW S, Opening(s, udp, new, S, T)
        PROVE  Produced(T)
    <3>1. CASE S = Stack
      <4>1. s \in ListenSlots => Producers(S, {Multicast}) # {}
        BY <2>4, <3>1 DEF Opening, Producers, Produced, OnlyMulticast
      <4> QED  BY <2>4, <3>1, <4>1, OpeningKeepsProducer
    <3>2. ASSUME NEW D \in SUBSET ListenSlots, NEW heir, s \in Linked(list),
                 Ends(Stack, S, s, D, heir)
          PROVE  Produced(T)
      <4>1. s \in IoSlots /\ s \in Linked(Stack.list)
        BY <1>2, <2>4, <3>2 DEF Opening
      <4>2. Produced(S)
        BY <1>2, <3>2, <4>1, EndsKeepsProducer
      <4>3. s \in ListenSlots => Producers(S, {Multicast}) # {}
        BY <2>4, <3>2, ListenerEndKeepsProducer DEF Opening
      <4> QED  BY <2>4, <4>2, <4>3, OpeningKeepsProducer
    <3> QED  BY <2>4, <3>1, <3>2 DEF Opening
  <2> QED  BY <1>1, <2>1, <2>2, <2>3, <2>4 DEF IoStep
<1> QED  BY <1>1, <1>3 DEF Becomes, Stack, Produced, OnlyMulticast, ListenersProduceNothing,
         ProducerFor, EstablishedIn, Producers

(* While all scanners ask for multicast, no order of opens, closes,         *)
(* timeouts, reclaims and hand-overs leaves an established connection       *)
(* without a holder of the producing socket, and the holder is no listen    *)
(* only connection, for any pools (CloseIoConnection,                       *)
(* HandleIoConnectionTimeOut, OpenProducingMulticastConnection).            *)
THEOREM ProducerIsThere == TtoOTypes \subseteq {Multicast} => (Spec => []ProducerExists)
<1> SUFFICES ASSUME TtoOTypes \subseteq {Multicast}
             PROVE  Spec => []ProducerExists
  OBVIOUS
<1>1. Init => IInv /\ Produced(Stack)
  BY EmptyStateIsSafe, IoPools DEF Init, CMInit, Stack, NoConnections, EmptyList, Linked,
     EmptyConnection, Produced, OnlyMulticast, ListenersProduceNothing, ProducerFor,
     EstablishedIn
<1>2. IInv /\ Produced(Stack) /\ [Next]_cmVars => IInv' /\ Produced(Stack)'
  BY StepIsSafe, StepKeepsProducer
<1>3. Produced(Stack) => ProducerExists
  BY DEF Produced, ProducerFor, EstablishedIn, EstablishedIo, ProducerExists, Stack
<1> QED  BY <1>1, <1>2, <1>3, PTL DEF Spec

=============================================================================
