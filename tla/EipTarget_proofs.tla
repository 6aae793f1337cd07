-------------------------- MODULE EipTarget_proofs --------------------------
(***************************************************************************)
(* Proofs about EipTarget for every number of scanners, pool objects,      *)
(* descriptors and sessions.  The functions a handler calls in sequence    *)
(* are operators on the record Stack; each lemma says that one of them     *)
(* keeps such a record well formed.                                        *)
(***************************************************************************)
EXTENDS EipTarget, TLAPS, FiniteSetTheorems

Lists == UNION {[D -> SUBSET D] : D \in SUBSET Slots}

Stacks ==
  [conn : [Slots -> CipConnectionObject], list : Lists,
   desc : [Descriptors -> Originators \cup {"free", "udp"}],
   sessions : [SessionHandles -> Sockets], active : Nat]

Ordered(l) ==
  /\ \A s \in Linked(l) : s \notin l[s]
  /\ \A s, t \in Linked(l) : s # t => (s \in l[t] <=> t \notin l[s])
  /\ \A s \in Linked(l) : \A t \in l[s] : l[t] \subseteq l[s]

OneProducer(S) == \A s, t \in Producers(S, {Multicast}) : s = t

(* A handler clears the state of an object before it unlinks it: E holds   *)
(* the objects that are in between.                                        *)
InUseExcept(S, E) ==
  \A s \in Slots \ E : s \in Linked(S.list) <=> S.conn[s].state # "NonExistent"

WellFormedExcept(S, E) ==
  S \in Stacks /\ Ordered(S.list) /\ InUseExcept(S, E) /\ OneProducer(S)

WellFormed(S) == WellFormedExcept(S, {})

-----------------------------------------------------------------------------
(* Unlinking nodes leaves a list: the nodes that remain, in their order. *)
LEMMA UnlinkedList ==
  ASSUME NEW l \in Lists, NEW D
  PROVE  /\ RemoveNodes(l, D) \in Lists
         /\ Linked(RemoveNodes(l, D)) = Linked(l) \ D
         /\ Ordered(l) => Ordered(RemoveNodes(l, D))
<1>1. PICK L \in SUBSET Slots : l \in [L -> SUBSET L]
  BY DEF Lists
<1> DEFINE m == RemoveNodes(l, D)
<1>2. m \in [L \ D -> SUBSET (L \ D)] /\ DOMAIN m = L \ D
  BY <1>1 DEF RemoveNodes, Linked
<1>3. m \in Lists
  BY <1>2, L \ D \in SUBSET Slots DEF Lists
<1>4. \A x \in L \ D : m[x] = l[x] \ D
  BY <1>1 DEF RemoveNodes, Linked
<1>5. Ordered(l) => Ordered(m)
  BY <1>1, <1>2, <1>4 DEF Ordered, Linked
<1> QED  BY <1>1, <1>2, <1>3, <1>5 DEF Linked

(* Inserting a node that is not linked leaves a list with one more node. *)
LEMMA LongerList ==
  ASSUME NEW l \in Lists, NEW s \in Slots, s \notin Linked(l)
  PROVE  /\ InsertAtHead(l, s) \in Lists
         /\ Linked(InsertAtHead(l, s)) = Linked(l) \cup {s}
         /\ Ordered(l) => Ordered(InsertAtHead(l, s))
<1>1. PICK L \in SUBSET Slots : l \in [L -> SUBSET L]
  BY DEF Lists
<1> DEFINE m == InsertAtHead(l, s)
<1>2. m \in [L \cup {s} -> SUBSET (L \cup {s})] /\ DOMAIN m = L \cup {s}
  BY <1>1 DEF InsertAtHead, Linked
<1>3. m \in Lists
  BY <1>2, L \cup {s} \in SUBSET Slots DEF Lists
<1>4. m[s] = L /\ \A x \in L : m[x] = l[x]
  BY <1>1 DEF InsertAtHead, Linked
<1>5. Ordered(l) => Ordered(m)
  BY <1>1, <1>2, <1>4 DEF Ordered, Linked
<1> QED  BY <1>1, <1>2, <1>3, <1>5 DEF Linked

(* At most one node of a set comes first in the list. *)
LEMMA FrontIsUnique ==
  ASSUME NEW l \in Lists, Ordered(l), NEW A \in SUBSET Linked(l)
  PROVE  \A s, t \in Front(l, A) : s = t
BY DEF Front, Ordered

(* A set of nodes that is not empty has a first one: a walk meets it. *)
LEMMA FrontExists ==
  ASSUME NEW l \in Lists, Ordered(l), NEW A \in SUBSET Linked(l), A # {}
  PROVE  Front(l, A) # {}
<1>1. PICK L \in SUBSET Slots : l \in [L -> SUBSET L] /\ Linked(l) = L
  BY DEF Lists, Linked
<1>2. IsFiniteSet(A) /\ FiniteSubsetsOf(A) = SUBSET A
  BY <1>1, PoolsAssumption, FS_Subset, FS_FiniteSubsetsOfFinite
<1> DEFINE missed(s) == A \ l[s]
           T == {missed(s) : s \in A}
<1>3. IsWellFoundedOn(StrictSubsetOrdering(A), SUBSET A)
  BY <1>2, FS_StrictSubsetOrderingWellFounded
<1>4. T \subseteq SUBSET A /\ T # {}
  OBVIOUS
<1>5. PICK m \in T : \A t \in T : <<t, m>> \notin StrictSubsetOrdering(A)
  <2> HIDE DEF T
  <2> QED  BY <1>3, <1>4, WFMin
<1>6. PICK s \in A : m = missed(s)
  OBVIOUS
<1>7. ASSUME NEW t \in A \ {s}, t \notin l[s]
      PROVE  FALSE
  <2>1. s \in l[t] /\ l[s] \subseteq l[t]
    BY <1>1, <1>7 DEF Ordered
  <2>2. s \in missed(s) /\ s \notin missed(t) /\ missed(t) \subseteq missed(s)
    BY <2>1 DEF Ordered
  <2>3. <<missed(t), missed(s)>> \in StrictSubsetOrdering(A)
    BY <2>2 DEF StrictSubsetOrdering
  <2> QED  BY <1>5, <1>6, <2>3
<1> QED  BY <1>7 DEF Front

(* The application's count stays a natural number. *)
LEMMA CountIsNatural ==
  ASSUME NEW count \in Nat, NEW n \in Nat
  PROVE  IoConnectionsGone(count, n) \in Nat
BY DEF IoConnectionsGone

(* The pools are finite, and so is every set of their objects. *)
LEMMA PoolsAreFinite ==
  ASSUME NEW D \in SUBSET Slots
  PROVE  Cardinality(D) \in Nat
BY PoolsAssumption, FS_Subset, FS_CardinalityType

(* An initialised object has the fields of a connection object. *)
LEMMA EmptyConnectionType == EmptyConnection \in CipConnectionObject
BY WatchdogAssumption DEF EmptyConnection, CipConnectionObject, Sockets, Watchdogs,
   Heard, kEipInvalidSocket, PointToPoint, Multicast

(* Closing descriptors leaves each free or what it was. *)
LEMMA ClosedSocketsType ==
  ASSUME NEW d \in [Descriptors -> Originators \cup {"free", "udp"}], NEW fds
  PROVE  CloseSockets(d, fds) \in [Descriptors -> Originators \cup {"free", "udp"}]
BY DEF CloseSockets

-----------------------------------------------------------------------------
(* The fields of a well formed record, named. *)
LEMMA FieldTypes ==
  ASSUME NEW S \in Stacks
  PROVE  /\ S.conn \in [Slots -> CipConnectionObject]
         /\ S.list \in Lists
         /\ Linked(S.list) \subseteq Slots
         /\ S.desc \in [Descriptors -> Originators \cup {"free", "udp"}]
         /\ S.sessions \in [SessionHandles -> Sockets]
         /\ S.active \in Nat
BY DEF Stacks, Lists, Linked

(* A change that adds no node and gives nobody a producing socket keeps    *)
(* the producer unique.                                                    *)
LEMMA FewerProducers ==
  ASSUME NEW S, NEW T, OneProducer(S),
         Producers(T, {Multicast}) \subseteq Producers(S, {Multicast})
  PROVE  OneProducer(T)
BY DEF OneProducer

(* An object that leaves the list is no longer in between. *)
LEMMA DiscardIsSafe ==
  ASSUME NEW S, NEW E, NEW D, WellFormedExcept(S, E),
         NEW F, \A s \in E : s \in D \/ s \in F,
         NEW T, T = Discard(S, D)
  PROVE  /\ WellFormedExcept(T, F)
         /\ \A s : s \in Linked(T.list) <=> s \in Linked(S.list) /\ s \notin D
<1>1. S \in Stacks /\ Ordered(S.list) /\ InUseExcept(S, E) /\ OneProducer(S)
  BY DEF WellFormedExcept
<1>2. S.list \in Lists
  BY <1>1, FieldTypes
<1> DEFINE newConn == [s \in Slots |-> IF s \in D THEN EmptyConnection ELSE S.conn[s]]
           newDesc == CloseSockets(S.desc, SocketsOf(S, D))
<1>3. newConn \in [Slots -> CipConnectionObject]
  BY <1>1, EmptyConnectionType, FieldTypes
<1>4. newDesc \in [Descriptors -> Originators \cup {"free", "udp"}]
  BY <1>1, FieldTypes, ClosedSocketsType
<1>5. /\ RemoveNodes(S.list, D) \in Lists
      /\ Linked(RemoveNodes(S.list, D)) = Linked(S.list) \ D
      /\ Ordered(RemoveNodes(S.list, D))
  BY <1>1, <1>2, UnlinkedList
<1>6. T = [conn |-> newConn, list |-> RemoveNodes(S.list, D), desc |-> newDesc,
           sessions |-> S.sessions, active |-> S.active]
  BY DEF Discard
<1>7. \A s \in Slots : newConn[s] = IF s \in D THEN EmptyConnection ELSE S.conn[s]
  OBVIOUS
<1> HIDE DEF newConn, newDesc
<1>8. /\ T \in Stacks
      /\ T.conn = newConn /\ T.list = RemoveNodes(S.list, D)
  BY <1>1, <1>3, <1>4, <1>5, <1>6, FieldTypes DEF Stacks
<1>9. InUseExcept(T, F)
  BY <1>1, <1>5, <1>7, <1>8 DEF InUseExcept, EmptyConnection
<1>10. Producers(T, {Multicast}) \subseteq Producers(S, {Multicast})
  BY <1>5, <1>7, <1>8 DEF Producers, IoSlots, EmptyConnection
<1> QED  BY <1>1, <1>5, <1>8, <1>9, <1>10, FewerProducers DEF WellFormedExcept

(* Telling the application changes its count only. *)
LEMMA AnnounceIsSafe ==
  ASSUME NEW S, NEW E, NEW n \in Nat, WellFormedExcept(S, E),
         NEW T, T = Announce(S, n)
  PROVE  WellFormedExcept(T, E) /\ T.conn = S.conn /\ T.list = S.list
<1>1. S \in Stacks /\ Ordered(S.list) /\ InUseExcept(S, E) /\ OneProducer(S)
  BY DEF WellFormedExcept
<1>2. IoConnectionsGone(S.active, n) \in Nat
  BY <1>1, FieldTypes, CountIsNatural
<1>3. T \in Stacks /\ T.conn = S.conn /\ T.list = S.list
  BY <1>1, <1>2, FieldTypes DEF Announce, Stacks
<1>4. InUseExcept(T, E)
  BY <1>1, <1>3 DEF InUseExcept
<1>5. Producers(T, {Multicast}) = Producers(S, {Multicast})
  BY <1>3 DEF Producers
<1> QED  BY <1>1, <1>3, <1>4, <1>5, FewerProducers DEF WellFormedExcept

(* Closing connections with the double announcement is as safe. *)
LEMMA CloseAllIsSafe ==
  ASSUME NEW S, NEW E, NEW D \in SUBSET Slots, WellFormedExcept(S, E),
         NEW T, T = CloseAllConnectionsForInput(S, D)
  PROVE  /\ WellFormedExcept(T, E)
         /\ \A s : s \in Linked(T.list) <=> s \in Linked(S.list) /\ s \notin D
<1>1. 2 * Cardinality(D) \in Nat
  BY PoolsAreFinite
<1>2. PICK S1 : S1 = Announce(S, 2 * Cardinality(D))
  OBVIOUS
<1>3. WellFormedExcept(S1, E) /\ S1.list = S.list
  BY <1>1, <1>2, AnnounceIsSafe
<1>4. T = Discard(S1, D)
  BY <1>2 DEF CloseAllConnectionsForInput
<1> QED  BY <1>3, <1>4, DiscardIsSafe

-----------------------------------------------------------------------------
(* The hand-over: the holder of the producing socket loses it and at most  *)
(* one other connection gets it.                                           *)
LEMMA TransferIsSafe ==
  ASSUME NEW S, NEW E, NEW c, WellFormedExcept(S, E),
         c \in Linked(S.list), ControlsMulticast(S, c),
         NEW T, T = TransferMaster(S, c)
  PROVE  WellFormedExcept(T, E) /\ T.list = S.list
<1>1. S \in Stacks /\ Ordered(S.list) /\ InUseExcept(S, E) /\ OneProducer(S)
  BY DEF WellFormedExcept
<1> DEFINE heir == Front(S.list, NonControlMasters(S))
           newConn == [s \in Slots |->
             IF s \in heir THEN [S.conn[s] EXCEPT !.producing = S.conn[c].producing]
             ELSE IF s = c THEN [S.conn[s] EXCEPT !.producing = kEipInvalidSocket]
             ELSE S.conn[s]]
<1>2. c \in Slots /\ S.conn \in [Slots -> CipConnectionObject]
  BY <1>1, FieldTypes
<1>3. \A s \in Slots :
        /\ newConn[s] \in CipConnectionObject
        /\ newConn[s].state = S.conn[s].state
        /\ newConn[s].tToO = S.conn[s].tToO
        /\ s \notin heir => newConn[s].producing \in {kEipInvalidSocket, S.conn[s].producing}
        /\ s = c /\ s \notin heir => newConn[s].producing = kEipInvalidSocket
  <2> TAKE s \in Slots
  <2>0. S.conn[s] \in CipConnectionObject /\ S.conn[c].producing \in Sockets
    BY <1>2 DEF CipConnectionObject
  <2>1. kEipInvalidSocket \in Sockets
    BY DEF Sockets
  <2> HIDE DEF heir
  <2>2. CASE s \in heir
    BY <2>0, <2>1, <2>2 DEF CipConnectionObject
  <2>3. CASE s \notin heir /\ s = c
    BY <2>0, <2>1, <2>3 DEF CipConnectionObject
  <2>4. CASE s \notin heir /\ s # c
    BY <2>0, <2>1, <2>4
  <2> QED  BY <2>2, <2>3, <2>4
<1>4. newConn \in [Slots -> CipConnectionObject]
  BY <1>3
<1> HIDE DEF newConn
<1>5. T = [conn |-> newConn, list |-> S.list, desc |-> S.desc,
           sessions |-> S.sessions, active |-> S.active]
  BY DEF TransferMaster, newConn
<1>6. T \in Stacks /\ T.conn = newConn /\ T.list = S.list
  BY <1>1, <1>4, <1>5, FieldTypes DEF Stacks
<1>7. InUseExcept(T, E)
  BY <1>1, <1>3, <1>6 DEF InUseExcept
<1>8. OneProducer(T)
  <2>1. NonControlMasters(S) \subseteq Linked(S.list) /\ S.list \in Lists
    BY <1>1, FieldTypes DEF NonControlMasters
  <2>2. \A s, t \in heir : s = t
    BY <1>1, <2>1, FrontIsUnique
  <2>3. Producers(T, {Multicast}) \subseteq heir
    <3> SUFFICES ASSUME NEW s \in Producers(T, {Multicast}), s \notin heir
                 PROVE  FALSE
      OBVIOUS
    <3>1. /\ s \in Slots /\ s \in Linked(S.list) \cap IoSlots
          /\ newConn[s].producing # kEipInvalidSocket
          /\ newConn[s].tToO = Multicast
      BY <1>6 DEF Producers, IoSlots
    <3>2. s \in Producers(S, {Multicast}) /\ s # c
      BY <1>3, <3>1 DEF Producers
    <3>3. c \in Producers(S, {Multicast})
      BY <1>2, PoolsAssumption DEF ControlsMulticast, Producers, IoSlots, NonListenOnlySlots
    <3> QED  BY <1>1, <3>2, <3>3 DEF OneProducer
  <2> QED  BY <2>2, <2>3 DEF OneProducer
<1> QED  BY <1>1, <1>6, <1>7, <1>8 DEF WellFormedExcept

(* Nothing is in between any more. *)
LEMMA Settled ==
  ASSUME NEW S, NEW E, WellFormedExcept(S, E), \A s : s \notin E
  PROVE  WellFormed(S)
BY DEF WellFormed, WellFormedExcept, InUseExcept

(* A change of the state of c leaves the rest, the sockets included. *)
LEMMA SetStateIsSafe ==
  ASSUME NEW S, NEW E, NEW c \in Slots, WellFormedExcept(S, E),
         NEW state \in {"NonExistent", "Established", "TimedOut"},
         NEW F, \A s : s \in E \/ s = c => s \in F,
         NEW T, T = SetState(S, c, state)
  PROVE  /\ WellFormedExcept(T, F)
         /\ T.list = S.list
         /\ T.conn[c].state = state
         /\ \A s \in Slots : /\ T.conn[s].tToO = S.conn[s].tToO
                             /\ T.conn[s].producing = S.conn[s].producing
<1>1. S \in Stacks /\ Ordered(S.list) /\ InUseExcept(S, E) /\ OneProducer(S)
  BY DEF WellFormedExcept
<1> DEFINE newConn == [S.conn EXCEPT ![c].state = state]
<1>2. S.conn \in [Slots -> CipConnectionObject]
  BY <1>1, FieldTypes
<1>3. /\ newConn \in [Slots -> CipConnectionObject]
      /\ newConn[c].state = state
      /\ \A s \in Slots : /\ newConn[s].tToO = S.conn[s].tToO
                          /\ newConn[s].producing = S.conn[s].producing
      /\ \A s \in Slots \ {c} : newConn[s] = S.conn[s]
  BY <1>2 DEF CipConnectionObject
<1> HIDE DEF newConn
<1>4. T = [conn |-> newConn, list |-> S.list, desc |-> S.desc,
           sessions |-> S.sessions, active |-> S.active]
  BY DEF SetState, newConn
<1>5. T \in Stacks /\ T.conn = newConn /\ T.list = S.list
  BY <1>1, <1>3, <1>4, FieldTypes DEF Stacks
<1>6. InUseExcept(T, F)
  BY <1>1, <1>3, <1>5 DEF InUseExcept
<1>7. Producers(T, {Multicast}) \subseteq Producers(S, {Multicast})
  BY <1>3, <1>5 DEF Producers, IoSlots
<1> QED  BY <1>1, <1>3, <1>5, <1>6, <1>7, FewerProducers DEF WellFormedExcept

(* Closing an I/O connection takes c out of the list; listen only          *)
(* connections may go with it.                                             *)
LEMMA CloseIoIsSafe ==
  ASSUME NEW S, WellFormed(S), NEW c \in Linked(S.list),
         NEW T, T = CloseIoConnection(S, c)
  PROVE  /\ WellFormed(T)
         /\ \A s : s \in Linked(T.list) => s \in Linked(S.list) /\ s # c
<1>1. S \in Stacks /\ c \in Slots /\ WellFormedExcept(S, {}) /\ 1 \in Nat
  BY FieldTypes DEF WellFormed, WellFormedExcept
<1>2. PICK A : A = Announce(S, 1)
  OBVIOUS
<1>3. WellFormedExcept(A, {}) /\ A.conn = S.conn /\ A.list = S.list
  BY <1>1, <1>2, AnnounceIsSafe
<1>4. PICK S0 : S0 = SetState(A, c, "NonExistent")
  OBVIOUS
<1>5. PICK C : C = {c}
  OBVIOUS
<1>6. /\ WellFormedExcept(S0, C) /\ S0.list = S.list
      /\ \A s \in Slots : /\ S0.conn[s].tToO = S.conn[s].tToO
                          /\ S0.conn[s].producing = S.conn[s].producing
  BY <1>1, <1>3, <1>4, <1>5, SetStateIsSafe
<1>7. ControlsMulticast(S, c) <=> ControlsMulticast(S0, c)
  BY <1>1, <1>6 DEF ControlsMulticast
<1>8. PICK S1 : S1 = IF ControlsMulticast(S, c) /\ NonControlMasters(S0) # {}
                     THEN TransferMaster(S0, c) ELSE S0
  OBVIOUS
<1>9. WellFormedExcept(S1, C) /\ S1.list = S.list
  <2>1. CASE S1 = S0
    BY <1>6, <2>1
  <2>2. CASE S1 = TransferMaster(S0, c) /\ ControlsMulticast(S, c)
    BY <1>6, <1>7, <2>2, TransferIsSafe
  <2> QED  BY <1>8, <2>1, <2>2
<1>10. PICK D \in SUBSET Slots : D = ClosedWith(S0, c)
  BY <1>1, <1>6, FieldTypes DEF ClosedWith, LinkedListenOnly
<1>11. PICK S2 : S2 = CloseAllConnectionsForInput(S1, D)
  OBVIOUS
<1>12. /\ WellFormedExcept(S2, C)
       /\ \A s : s \in Linked(S2.list) <=> s \in Linked(S.list) /\ s \notin D
  BY <1>9, <1>11, CloseAllIsSafe
<1>13. T = Discard(S2, C)
  BY <1>2, <1>4, <1>5, <1>8, <1>10, <1>11 DEF CloseIoConnection
<1>14. /\ WellFormedExcept(T, {})
       /\ \A s : s \in Linked(T.list) <=> s \in Linked(S2.list) /\ s \notin C
  BY <1>5, <1>12, <1>13, DiscardIsSafe
<1> QED  BY <1>5, <1>12, <1>14 DEF WellFormed

(* The close function of a connection takes it out of the list. *)
LEMMA CloseFunctionIsSafe ==
  ASSUME NEW S, WellFormed(S), NEW c \in Linked(S.list)
  PROVE  WellFormed(CloseFunction(S, c))
<1>1. CASE c \in ExplicitSlots
  BY <1>1, DiscardIsSafe DEF CloseFunction, WellFormed
<1>2. CASE c \notin ExplicitSlots
  BY <1>2, CloseIoIsSafe DEF CloseFunction
<1> QED  BY <1>1, <1>2

-----------------------------------------------------------------------------
(* Ending sessions closes at most class 3 connections. *)
LEMMA WithoutSessionsIsSafe ==
  ASSUME NEW S, WellFormed(S), NEW H, NEW T, T = WithoutSessions(S, H)
  PROVE  WellFormed(T) /\ T.conn = S.conn /\ T.list = S.list
<1>1. S \in Stacks /\ Ordered(S.list) /\ InUseExcept(S, {}) /\ OneProducer(S)
  BY DEF WellFormed, WellFormedExcept
<1> DEFINE newDesc == CloseSockets(S.desc, {S.sessions[h] : h \in H})
           newSessions == [h \in SessionHandles |->
                             IF h \in H THEN kEipInvalidSocket ELSE S.sessions[h]]
<1>2. newDesc \in [Descriptors -> Originators \cup {"free", "udp"}]
  BY <1>1, FieldTypes, ClosedSocketsType
<1>3. newSessions \in [SessionHandles -> Sockets]
  BY <1>1, FieldTypes DEF Sockets
<1> HIDE DEF newDesc, newSessions
<1>4. T = [conn |-> S.conn, list |-> S.list, desc |-> newDesc,
           sessions |-> newSessions, active |-> S.active]
  BY DEF WithoutSessions, newDesc, newSessions
<1>5. T \in Stacks /\ T.conn = S.conn /\ T.list = S.list
  BY <1>1, <1>2, <1>3, <1>4, FieldTypes DEF Stacks
<1>6. InUseExcept(T, {})
  BY <1>1, <1>5 DEF InUseExcept
<1>7. Producers(T, {Multicast}) = Producers(S, {Multicast})
  BY <1>5 DEF Producers
<1> QED  BY <1>1, <1>5, <1>6, <1>7, FewerProducers DEF WellFormed, WellFormedExcept

(* Closing sessions with their class 3 connections keeps the record well   *)
(* formed and the I/O connections linked.                                  *)
LEMMA CloseSessionsIsSafe ==
  ASSUME NEW S, WellFormed(S), NEW H, NEW T, T = CloseSessions(S, H)
  PROVE  /\ WellFormed(T)
         /\ \A s \in IoSlots : s \in Linked(S.list) => s \in Linked(T.list)
<1>1. PICK S1 : S1 = WithoutSessions(S, H)
  OBVIOUS
<1>2. WellFormed(S1) /\ S1.conn = S.conn /\ S1.list = S.list
  BY <1>1, WithoutSessionsIsSafe
<1>3. PICK D : D = UNION {FirstClass3OfSession(S, h) : h \in H}
  OBVIOUS
<1>4. D \subseteq ExplicitSlots
  BY <1>3 DEF FirstClass3OfSession, Front
<1>5. T = Discard(S1, D)
  BY <1>1, <1>3 DEF CloseSessions
<1> QED  BY <1>2, <1>4, <1>5, DiscardIsSafe DEF WellFormed, IoSlots

-----------------------------------------------------------------------------
(* A connection that times out stays linked, and so the walk can go on     *)
(* from its node.                                                          *)
LEMMA TimedOutIsSafe ==
  ASSUME NEW S, WellFormed(S), NEW c \in Linked(S.list),
         S.conn[c].state # "NonExistent", NEW T, T = TimedOut(S, c)
  PROVE  WellFormed(T) /\ T.list = S.list
<1>1. S \in Stacks /\ c \in Slots /\ WellFormedExcept(S, {}) /\ 1 \in Nat
  BY FieldTypes DEF WellFormed, WellFormedExcept
<1>2. PICK A : A = Announce(S, 1)
  OBVIOUS
<1>3. WellFormedExcept(A, {}) /\ A.conn = S.conn /\ A.list = S.list
  BY <1>1, <1>2, AnnounceIsSafe
<1>4. PICK C : C = {c}
  OBVIOUS
<1>5. T = SetState(A, c, "TimedOut")
  BY <1>2 DEF TimedOut
<1>6. WellFormedExcept(T, C) /\ T.list = S.list /\ T.conn[c].state = "TimedOut"
  BY <1>1, <1>3, <1>4, <1>5, SetStateIsSafe
<1> QED  BY <1>4, <1>6 DEF WellFormed, WellFormedExcept, InUseExcept

(* So does a timeout that closes the sessions of a silent originator. *)
LEMMA SilentOriginatorIsSafe ==
  ASSUME NEW S, WellFormed(S), NEW c \in Linked(S.list), c \in IoSlots,
         S.conn[c].state # "NonExistent", NEW T, T = SilentOriginatorClosed(S, c)
  PROVE  WellFormed(T) /\ c \in Linked(T.list)
<1>1. PICK S0 : S0 = TimedOut(S, c)
  OBVIOUS
<1>2. WellFormed(S0) /\ S0.list = S.list
  BY <1>1, TimedOutIsSafe
<1>3. PICK H : H = SessionsOf(S0, S0.conn[c].originator)
  OBVIOUS
<1>4. T = S0 \/ T = CloseSessions(S0, H)
  BY <1>1, <1>3 DEF SilentOriginatorClosed
<1> QED  BY <1>2, <1>4, CloseSessionsIsSafe

(* The timeout handler of an I/O connection keeps the record well formed   *)
(* and the node of the connection linked.                                  *)
LEMMA IoTimeOutIsSafe ==
  ASSUME NEW S, WellFormed(S), NEW c \in Linked(S.list), c \in IoSlots,
         S.conn[c].state # "NonExistent", NEW T, T = HandleIoConnectionTimeOut(S, c)
  PROVE  WellFormed(T) /\ c \in Linked(T.list)
<1>1. PICK S1 : S1 = SilentOriginatorClosed(S, c)
  OBVIOUS
<1>2. WellFormed(S1) /\ c \in Linked(S1.list) /\ S1 \in Stacks
  BY <1>1, SilentOriginatorIsSafe DEF WellFormed, WellFormedExcept
<1>3. PICK I : I = LinkedInputOnly(S1) \cup LinkedListenOnly(S1)
  OBVIOUS
<1>4. PICK L : L = LinkedListenOnly(S1)
  OBVIOUS
<1>5. I \in SUBSET Slots /\ L \in SUBSET Slots
  BY <1>2, <1>3, <1>4, FieldTypes DEF LinkedInputOnly, LinkedListenOnly
<1>6. \/ T = TransferMaster(S1, c) /\ ControlsMulticast(S1, c)
      \/ T = CloseAllConnectionsForInput(S1, I) /\ c = OwnerSlot
      \/ T = CloseAllConnectionsForInput(S1, L) /\ ControlsMulticast(S1, c)
      \/ T = S1
  BY <1>1, <1>3, <1>4 DEF HandleIoConnectionTimeOut
<1>7. CASE T = TransferMaster(S1, c) /\ ControlsMulticast(S1, c)
  BY <1>2, <1>7, TransferIsSafe DEF WellFormed
<1>8. CASE T = CloseAllConnectionsForInput(S1, I) /\ c = OwnerSlot
  <2>1. c \notin I
    BY <1>3, <1>8, PoolsAssumption DEF LinkedInputOnly, LinkedListenOnly
  <2> QED  BY <1>2, <1>5, <1>8, <2>1, CloseAllIsSafe DEF WellFormed
<1>9. CASE T = CloseAllConnectionsForInput(S1, L) /\ ControlsMulticast(S1, c)
  <2>1. c \notin L
    BY <1>4, <1>9, PoolsAssumption DEF LinkedListenOnly, ControlsMulticast,
       NonListenOnlySlots
  <2> QED  BY <1>2, <1>5, <1>9, <2>1, CloseAllIsSafe DEF WellFormed
<1> QED  BY <1>2, <1>6, <1>7, <1>8, <1>9

(* The timeout handler of a class 3 connection takes it out of the list. *)
LEMMA Class3TimeOutIsSafe ==
  ASSUME NEW S, WellFormed(S), NEW c
  PROVE  WellFormed(Class3ConnectionTimeout(S, c))
<1>1. PICK S1 : S1 = IF LastOfOriginator(S, c)
                     THEN WithoutSessions(S, {S.conn[c].session}) ELSE S
  OBVIOUS
<1>2. WellFormed(S1)
  BY <1>1, WithoutSessionsIsSafe
<1>3. PICK T : T = Discard(S1, {c})
  OBVIOUS
<1>4. WellFormed(T)
  BY <1>2, <1>3, DiscardIsSafe DEF WellFormed
<1> QED  BY <1>1, <1>3, <1>4 DEF Class3ConnectionTimeout

-----------------------------------------------------------------------------
(* A new connection: it is the only producer, or it produces nothing.      *)
LEMMA EstablishIsSafe ==
  ASSUME NEW S, WellFormed(S), NEW s \in IoSlots, s \notin Linked(S.list),
         NEW new \in CipConnectionObject, new.state = "Established",
         NEW udp \in Descriptors, new.consuming = udp,
         new.producing \in ProducingSocket(S, s, new.tToO, udp),
         NEW T, T = EstablishIoConnection(S, s, new)
  PROVE  WellFormed(T)
<1>1. S \in Stacks /\ Ordered(S.list) /\ InUseExcept(S, {}) /\ OneProducer(S)
  BY DEF WellFormed, WellFormedExcept
<1> DEFINE gone == Dispossessed(S, s, new.tToO)
           newConn == [x \in Slots |->
               IF x = s THEN new
               ELSE IF x \in gone THEN [S.conn[x] EXCEPT !.producing = kEipInvalidSocket]
               ELSE S.conn[x]]
           newDesc == [S.desc EXCEPT ![new.consuming] = "udp"]
<1>2. s \in Slots /\ S.conn \in [Slots -> CipConnectionObject] /\ S.list \in Lists
  BY <1>1, FieldTypes DEF IoSlots
<1>3. \A x \in Slots :
        /\ newConn[x] \in CipConnectionObject
        /\ x = s => newConn[x] = new
        /\ x # s => /\ newConn[x].state = S.conn[x].state
                    /\ newConn[x].tToO = S.conn[x].tToO
        /\ x # s /\ x \notin gone => newConn[x] = S.conn[x]
        /\ x # s /\ x \in gone => newConn[x].producing = kEipInvalidSocket
  <2> TAKE x \in Slots
  <2>0. S.conn[x] \in CipConnectionObject /\ kEipInvalidSocket \in Sockets
    BY <1>2 DEF Sockets
  <2> HIDE DEF gone
  <2>1. CASE x = s
    BY <2>1
  <2>2. CASE x # s /\ x \in gone
    BY <2>0, <2>2 DEF CipConnectionObject
  <2>3. CASE x # s /\ x \notin gone
    BY <2>0, <2>3
  <2> QED  BY <2>1, <2>2, <2>3
<1>4. newConn \in [Slots -> CipConnectionObject]
  BY <1>3
<1>5. newDesc \in [Descriptors -> Originators \cup {"free", "udp"}]
  BY <1>1, FieldTypes
<1>6. /\ InsertAtHead(S.list, s) \in Lists
      /\ Linked(InsertAtHead(S.list, s)) = Linked(S.list) \cup {s}
      /\ Ordered(InsertAtHead(S.list, s))
  BY <1>1, <1>2, LongerList
<1> HIDE DEF newConn, newDesc
<1>7. T = [conn |-> newConn, list |-> InsertAtHead(S.list, s), desc |-> newDesc,
           sessions |-> S.sessions, active |-> S.active + 1]
  BY DEF EstablishIoConnection, newConn, newDesc
<1>8. T \in Stacks /\ T.conn = newConn /\ T.list = InsertAtHead(S.list, s)
  BY <1>1, <1>4, <1>5, <1>6, <1>7, FieldTypes DEF Stacks
<1>9. InUseExcept(T, {})
  BY <1>1, <1>2, <1>3, <1>6, <1>8 DEF InUseExcept
<1>10. OneProducer(T)
  <2>1. new.tToO \in {Multicast, PointToPoint}
    BY DEF CipConnectionObject
  <2>2. \A x : x \in Producers(T, {Multicast}) /\ x # s =>
          x \in Producers(S, {Multicast}) /\ x \notin gone
    BY <1>3, <1>6, <1>8 DEF Producers, IoSlots
  <2>3. s \in Producers(T, {Multicast}) =>
          new.tToO = Multicast /\ new.producing # kEipInvalidSocket
    BY <1>2, <1>3, <1>8 DEF Producers
  <2>4. CASE s \notin Producers(T, {Multicast})
    BY <1>1, <2>2, <2>4 DEF OneProducer
  <2>5. CASE s \in Producers(T, {Multicast})
    <3>1. new.tToO = Multicast /\ Multicast # PointToPoint
      BY <2>3, <2>5 DEF Multicast, PointToPoint
    <3>2. Producers(S, {Multicast}) = {} \/ s = OwnerSlot
      BY <2>3, <2>5, <3>1 DEF ProducingSocket
    <3>3. \A x : x \in Producers(S, {Multicast}) => x \in gone
      <4> SUFFICES ASSUME NEW x \in Producers(S, {Multicast})
                   PROVE  x \in gone
        OBVIOUS
      <4>1. gone = Front(S.list, Producers(S, {Multicast}))
        BY <3>1, <3>2 DEF Dispossessed
      <4>2. Producers(S, {Multicast}) \ {x} = {}
        BY <1>1 DEF OneProducer
      <4> QED  BY <4>1, <4>2 DEF Front
    <3> QED  BY <2>2, <3>3 DEF OneProducer
  <2> QED  BY <2>4, <2>5
<1> QED  BY <1>6, <1>8, <1>9, <1>10 DEF WellFormed, WellFormedExcept

-----------------------------------------------------------------------------
(* The inductive invariant: nothing has to be added to the three that the  *)
(* runs check, but none of them is inductive without the others.           *)
IInv == TypeOK /\ ListConsistent /\ SingleMulticastProducer

(* The invariant says that the record of the state is well formed. *)
LEMMA StackIsWellFormed ==
  ASSUME IInv
  PROVE  /\ WellFormed(Stack)
         /\ Stack.conn = conn /\ Stack.list = list /\ Stack.desc = desc
         /\ Stack.sessions = sessions /\ Stack.active = active
<1>1. /\ Stack.conn = conn /\ Stack.list = list /\ Stack.desc = desc
      /\ Stack.sessions = sessions /\ Stack.active = active
  BY DEF Stack
<1>2. list \in Lists
  BY DEF IInv, TypeOK, Lists
<1>3. Stack \in Stacks
  BY <1>2 DEF IInv, TypeOK, Stacks, Stack
<1>4. Ordered(Stack.list)
  BY <1>1 DEF IInv, ListConsistent, Ordered
<1>5. InUseExcept(Stack, {})
  BY <1>1 DEF IInv, ListConsistent, InUseExcept
<1>6. OneProducer(Stack)
  BY DEF IInv, SingleMulticastProducer, OneProducer
<1> QED  BY <1>1, <1>3, <1>4, <1>5, <1>6 DEF WellFormed, WellFormedExcept

(* A handler that leaves a well formed record keeps the invariant. *)
LEMMA HandlerIsSafe ==
  ASSUME NEW T, WellFormed(T), Becomes(T), cursor' \subseteq Linked(T.list),
         udpIo' \in Sockets, fault' \in Faults
  PROVE  IInv'
<1>1. T \in Stacks /\ Ordered(T.list) /\ InUseExcept(T, {}) /\ OneProducer(T)
  BY DEF WellFormed, WellFormedExcept
<1>2. TypeOK'
  <2>1. PICK L \in SUBSET Slots : T.list \in [L -> SUBSET L]
    BY <1>1 DEF Stacks, Lists
  <2>2. Linked(T.list) \subseteq Slots /\ T.list \in [Linked(T.list) -> SUBSET Linked(T.list)]
    BY <2>1 DEF Linked
  <2> QED  BY <1>1, <2>2, FieldTypes DEF TypeOK, Becomes
<1>3. ListConsistent'
  BY <1>1 DEF ListConsistent, Becomes, Ordered, InUseExcept
<1>4. SingleMulticastProducer'
  BY <1>1 DEF SingleMulticastProducer, Becomes, OneProducer, Producers, Stack
<1> QED  BY <1>2, <1>3, <1>4 DEF IInv

(* So does a step that leaves the list and the use of every object alone. *)
LEMMA SameListIsSafe ==
  ASSUME IInv, conn' \in [Slots -> CipConnectionObject], UNCHANGED list,
         \A s \in Slots : /\ conn'[s].state = conn[s].state
                          /\ conn'[s].tToO = conn[s].tToO
                          /\ conn'[s].producing = conn[s].producing,
         cursor' \subseteq Linked(list),
         desc' \in [Descriptors -> Originators \cup {"free", "udp"}],
         udpIo' \in Sockets, sessions' \in [SessionHandles -> Sockets],
         active' \in Nat, fault' \in Faults
  PROVE  IInv'
<1>1. TypeOK'
  BY DEF IInv, TypeOK
<1>2. ListConsistent'
  BY DEF IInv, ListConsistent
<1>3. SingleMulticastProducer'
  BY DEF IInv, TypeOK, SingleMulticastProducer, Producers, Stack, IoSlots, Linked
<1> QED  BY <1>1, <1>2, <1>3 DEF IInv

(* The state after a boot satisfies the invariant. *)
LEMMA EmptyStateIsSafe ==
  ASSUME CMInit
  PROVE  IInv
<1>1. TypeOK
  BY EmptyConnectionType DEF CMInit, TypeOK, NoConnections, EmptyList, Linked,
     Sockets, Faults
<1>2. ListConsistent
  BY DEF CMInit, ListConsistent, NoConnections, EmptyList, Linked, EmptyConnection
<1>3. SingleMulticastProducer
  BY DEF CMInit, SingleMulticastProducer, Producers, Stack, EmptyList, Linked
<1> QED  BY <1>1, <1>2, <1>3 DEF IInv

(* A reboot, or the loss of the state in a panic, keeps the invariant. *)
LEMMA PanicIsSafe ==
  ASSUME NEW cause \in Faults, Panic(cause)
  PROVE  IInv'
<1>1. TypeOK'
  BY EmptyConnectionType DEF Panic, TypeOK, NoConnections, EmptyList, Linked, Sockets
<1>2. ListConsistent'
  BY DEF Panic, ListConsistent, NoConnections, EmptyList, Linked, EmptyConnection
<1>3. SingleMulticastProducer'
  BY DEF Panic, SingleMulticastProducer, Producers, Stack, EmptyList, Linked
<1> QED  BY <1>1, <1>2, <1>3 DEF IInv

-----------------------------------------------------------------------------
(* The steps of the connection manager. *)
(* A forward open of an I/O connection, the close of the one it reclaims   *)
(* included, keeps the invariant.                                          *)
LEMMA ForwardOpenIoIsSafe ==
  ASSUME IInv, NEW o \in Originators, NEW n \in Serials, NEW point,
         NEW type \in TtoOTypes, ForwardOpenIo(o, n, point, type)
  PROVE  IInv'
<1>1. /\ WellFormed(Stack) /\ Stack.conn = conn /\ Stack.list = list
      /\ cursor = {} /\ fault \in Faults /\ udpIo \in Sockets
  BY StackIsWellFormed DEF ForwardOpenIo, Running, IInv, TypeOK
<1>2. PICK s \in IoConnectionFor(o, point) :
        LET S == IF s \in Linked(list) THEN CloseIoConnection(Stack, s) ELSE Stack
            unused == {d \in Descriptors : S.desc[d] = "free"}
        IN  \/ Becomes(S) /\ UNCHANGED <<udpIo, cursor, fault>>
            \/ /\ unused = {} /\ Becomes(S)
               /\ udpIo' = kEipInvalidSocket /\ UNCHANGED <<cursor, fault>>
            \/ \E udp \in Lowest(unused) :
               \E producing \in ProducingSocket(S, s, type, udp) :
                 IF NodeAvailable(S.list)
                 THEN /\ Becomes(EstablishIoConnection(S, s,
                                   Opened(o, n, type, udp, producing, 0)))
                      /\ udpIo' = udp
                      /\ UNCHANGED <<cursor, fault>>
                 ELSE Panic("null node")
  BY DEF ForwardOpenIo
<1>3. s \in IoSlots
  BY PoolsAssumption DEF IoConnectionFor, FromPool, Free, Reclaimable, Lowest,
     IoSlots, Slots
<1>4. PICK S : S = IF s \in Linked(list) THEN CloseIoConnection(Stack, s) ELSE Stack
  OBVIOUS
<1>5. WellFormed(S) /\ s \notin Linked(S.list) /\ S \in Stacks
  BY <1>1, <1>4, CloseIoIsSafe DEF WellFormed, WellFormedExcept
<1>6. PICK unused : unused = {d \in Descriptors : S.desc[d] = "free"}
  OBVIOUS
<1>7. kEipInvalidSocket \in Sockets /\ Descriptors \subseteq Sockets
  BY DEF Sockets
<1>8. CASE Becomes(S) /\ UNCHANGED <<udpIo, cursor, fault>>
  BY <1>1, <1>5, <1>8, HandlerIsSafe
<1>9. CASE Becomes(S) /\ udpIo' = kEipInvalidSocket /\ UNCHANGED <<cursor, fault>>
  BY <1>1, <1>5, <1>7, <1>9, HandlerIsSafe
<1>10. ASSUME NEW udp \in Lowest(unused),
              NEW producing \in ProducingSocket(S, s, type, udp),
              Becomes(EstablishIoConnection(S, s, Opened(o, n, type, udp, producing, 0))),
              udpIo' = udp, UNCHANGED <<cursor, fault>>
       PROVE  IInv'
  <2>1. udp \in Descriptors /\ udp \in Sockets
    BY <1>6, <1>7, <1>10 DEF Lowest
  <2>2. producing \in Sockets
    <3>1. Front(S.list, Producers(S, {Multicast})) \subseteq Slots
      BY <1>5, FieldTypes DEF Front, Producers
    <3>2. \A m \in Slots : S.conn[m].producing \in Sockets
      BY <1>5, FieldTypes DEF CipConnectionObject
    <3> QED  BY <1>7, <1>10, <2>1, <3>1, <3>2 DEF ProducingSocket
  <2>3. PICK new : new = Opened(o, n, type, udp, producing, 0)
    OBVIOUS
  <2>4. /\ new \in CipConnectionObject
        /\ new.state = "Established" /\ new.tToO = type
        /\ new.consuming = udp /\ new.producing = producing
    <3>1. InitialWatchdog \in Watchdogs
      BY WatchdogAssumption DEF Watchdogs
    <3>2. type \in {Multicast, PointToPoint}
      BY NetworkAssumption
    <3> QED  BY <2>1, <2>2, <2>3, <3>1, <3>2
             DEF Opened, EmptyConnection, CipConnectionObject, Heard
  <2>5. WellFormed(EstablishIoConnection(S, s, new))
    BY <1>3, <1>5, <1>10, <2>1, <2>4, EstablishIsSafe
  <2> QED  BY <1>1, <1>10, <2>1, <2>3, <2>5, HandlerIsSafe
<1>11. CASE Panic("null node")
  BY <1>11, PanicIsSafe DEF Faults
<1> QED  BY <1>2, <1>4, <1>6, <1>8, <1>9, <1>10, <1>11

(* A forward open of a class 3 connection keeps the invariant. *)
LEMMA ForwardOpenClass3IsSafe ==
  ASSUME IInv, NEW o \in Originators, NEW n \in Serials, NEW h \in SessionHandles,
         ForwardOpenClass3(o, n, h)
  PROVE  IInv'
<1>1. cursor = {} /\ TypeOK
  BY DEF ForwardOpenClass3, Running, IInv
<1>2. PICK s \in Free(ExplicitSlots) :
        IF NodeAvailable(list)
        THEN /\ conn' = [conn EXCEPT ![s] = Opened(o, n, PointToPoint,
                                    kEipInvalidSocket, kEipInvalidSocket, h)]
             /\ list' = InsertAtHead(list, s)
             /\ UNCHANGED <<cursor, desc, udpIo, sessions, active, fault>>
        ELSE Panic("null node")
  BY DEF ForwardOpenClass3, Lowest
<1>3. CASE Panic("null node")
  BY <1>3, PanicIsSafe DEF Faults
<1>4. CASE NodeAvailable(list)
  <2>1. PICK new : new = Opened(o, n, PointToPoint, kEipInvalidSocket,
                                kEipInvalidSocket, h)
    OBVIOUS
  <2>2. new \in CipConnectionObject /\ new.state = "Established" /\ new.tToO = PointToPoint
    <3>1. InitialWatchdog \in Watchdogs
      BY WatchdogAssumption DEF Watchdogs
    <3> QED  BY <2>1, <3>1 DEF Opened, EmptyConnection, CipConnectionObject, Heard, Sockets
  <2>3. s \in Slots /\ s \notin Linked(list) /\ list \in Lists
    BY DEF Free, IInv, TypeOK, ListConsistent, Lists, Slots
  <2>4. conn' = [conn EXCEPT ![s] = new] /\ list' = InsertAtHead(list, s)
    BY <1>2, <1>4, <2>1
  <2>5. /\ list' \in Lists
        /\ Linked(list') = Linked(list) \cup {s}
        /\ Ordered(list')
    BY <2>3, <2>4, LongerList DEF IInv, ListConsistent, Ordered
  <2>6. TypeOK'
    <3>1. conn' \in [Slots -> CipConnectionObject]
      BY <1>1, <2>2, <2>4 DEF TypeOK
    <3>2. Linked(list') \subseteq Slots /\ list' \in [Linked(list') -> SUBSET Linked(list')]
      BY <2>5 DEF Lists, Linked
    <3> QED  BY <1>1, <1>2, <1>4, <3>1, <3>2 DEF TypeOK
  <2>7. ListConsistent'
    <3>1. \A x \in Slots : x \in Linked(list') <=> conn'[x].state # "NonExistent"
      BY <1>1, <2>2, <2>3, <2>4, <2>5 DEF IInv, TypeOK, ListConsistent
    <3> QED  BY <2>5, <3>1 DEF ListConsistent, Ordered
  <2>8. SingleMulticastProducer'
    <3>1. \A x \in Slots : x # s => conn'[x] = conn[x]
      BY <1>1, <2>4 DEF TypeOK
    <3>2. s \notin IoSlots
      BY DEF Free, IoSlots
    <3> QED  BY <2>5, <3>1, <3>2 DEF IInv, SingleMulticastProducer, Producers, Stack, IoSlots
  <2> QED  BY <2>6, <2>7, <2>8 DEF IInv
<1> QED  BY <1>2, <1>3, <1>4

(* A forward close keeps the invariant. *)
LEMMA ForwardCloseIsSafe ==
  ASSUME IInv, NEW o, NEW n, ForwardClose(o, n)
  PROVE  IInv'
<1>1. PICK c \in Linked(list) : Becomes(CloseFunction(Stack, c))
  BY DEF ForwardClose, Front
<1>2. PICK T : T = CloseFunction(Stack, c)
  OBVIOUS
<1>3. WellFormed(T)
  BY <1>1, <1>2, StackIsWellFormed, CloseFunctionIsSafe
<1>4. cursor' = {} /\ udpIo' \in Sockets /\ fault' \in Faults
  BY DEF ForwardClose, Running, IInv, TypeOK
<1> QED  BY <1>1, <1>2, <1>3, <1>4, HandlerIsSafe

(* Received I/O data reloads watchdogs only. *)
LEMMA ReceiveIoDataIsSafe ==
  ASSUME IInv, NEW c, NEW t, NEW late \in BOOLEAN, ReceiveIoData(c, t, late)
  PROVE  IInv'
<1>1. TypeOK /\ t \in Slots
  BY DEF ReceiveIoData, IInv, IoSlots
<1>2. conn[t] \in CipConnectionObject
  BY <1>1 DEF TypeOK
<1>3. PICK new : new = Received(conn[t], late)
  OBVIOUS
<1>4. /\ new \in CipConnectionObject /\ new.state = conn[t].state
      /\ new.tToO = conn[t].tToO /\ new.producing = conn[t].producing
  <2>1. Watchdog \in Watchdogs
    BY WatchdogAssumption DEF Watchdogs
  <2> QED  BY <1>2, <1>3, <2>1 DEF Received, CipConnectionObject, Heard
<1>5. conn' = [conn EXCEPT ![t] = new]
  BY <1>3 DEF ReceiveIoData
<1> QED  BY <1>1, <1>4, <1>5, SameListIsSafe DEF ReceiveIoData, TypeOK

(* A failed receive closes one I/O connection and keeps the invariant. *)
LEMMA ReceiveOnClosedDescriptorIsSafe ==
  ASSUME IInv, NEW c, ReceiveOnClosedDescriptor(c)
  PROVE  IInv'
<1>1. /\ c \in Linked(list) /\ cursor = {} /\ udpIo \in Sockets /\ fault \in Faults
      /\ WellFormed(Stack) /\ Stack.list = list
  BY StackIsWellFormed DEF ReceiveOnClosedDescriptor, Front, Running, IInv, TypeOK
<1>2. PICK T : T = CloseIoConnection(Stack, c)
  OBVIOUS
<1>3. WellFormed(T)
  BY <1>1, <1>2, CloseIoIsSafe
<1>4. \/ Panic("freed node")
      \/ Becomes(T) /\ UNCHANGED <<cursor, udpIo, fault>>
  BY <1>2 DEF ReceiveOnClosedDescriptor
<1>5. CASE Panic("freed node")
  BY <1>5, PanicIsSafe DEF Faults
<1>6. CASE Becomes(T) /\ UNCHANGED <<cursor, udpIo, fault>>
  BY <1>1, <1>3, <1>6, HandlerIsSafe
<1> QED  BY <1>4, <1>5, <1>6

(* A received explicit message reloads a watchdog only. *)
LEMMA ReceiveExplicitIsSafe ==
  ASSUME IInv, NEW c, ReceiveExplicit(c)
  PROVE  IInv'
<1>1. TypeOK /\ c \in Slots
  BY DEF ReceiveExplicit, IInv, Slots
<1>2. conn[c] \in CipConnectionObject /\ Watchdog \in Watchdogs
  BY <1>1, WatchdogAssumption DEF TypeOK, Watchdogs
<1>3. conn' = [conn EXCEPT ![c] = [conn[c] EXCEPT !.watchdog = Watchdog]]
  BY DEF ReceiveExplicit
<1>4. conn' \in [Slots -> CipConnectionObject]
  BY <1>1, <1>2, <1>3 DEF TypeOK, CipConnectionObject
<1>5. \A s \in Slots : /\ conn'[s].state = conn[s].state
                       /\ conn'[s].tToO = conn[s].tToO
                       /\ conn'[s].producing = conn[s].producing
  BY <1>1, <1>2, <1>3 DEF TypeOK, CipConnectionObject
<1> QED  BY <1>1, <1>4, <1>5, SameListIsSafe DEF ReceiveExplicit, TypeOK

(* The walk of ManageConnections stands on a linked node or has ended. *)
LEMMA NextIsLinked ==
  ASSUME NEW l \in Lists, NEW c \in Linked(l)
  PROVE  NextNode(l, c) \subseteq Linked(l)
BY DEF NextNode, Front, Lists, Linked

(* A visit of the walk of ManageConnections keeps the invariant. *)
LEMMA VisitIsSafe ==
  ASSUME IInv, ManageConnections \/ Visit
  PROVE  IInv'
<1>1. /\ TypeOK /\ list \in Lists /\ WellFormed(Stack)
      /\ Stack.conn = conn /\ Stack.list = list
  BY StackIsWellFormed DEF IInv, TypeOK, Lists
<1>2. CASE ManageConnections
  <2>1. cursor' \subseteq Linked(list)
    BY <1>2 DEF ManageConnections, Front
  <2> QED  BY <1>1, <1>2, <2>1, SameListIsSafe DEF ManageConnections, TypeOK
<1>3. ASSUME NEW c \in cursor, VisitAges(c)
      PROVE  IInv'
  <2>1. c \in Linked(list) /\ c \in Slots /\ conn[c] \in CipConnectionObject
    BY <1>1, <1>3 DEF TypeOK
  <2>2. cursor' \subseteq Linked(list)
    BY <1>1, <1>3, <2>1, NextIsLinked DEF VisitAges
  <2>3. CASE conn[c].state = "Established"
    <3>1. conn[c].watchdog \in 0 .. InitialWatchdog /\ ~ (conn[c].watchdog <= 1)
      BY <1>3, <2>1, <2>3 DEF VisitAges, Expired, CipConnectionObject, Watchdogs
    <3>2. conn[c].watchdog - 1 \in Watchdogs
      BY <3>1, WatchdogAssumption DEF Watchdogs
    <3>3. conn' = [conn EXCEPT ![c] = [conn[c] EXCEPT !.watchdog = conn[c].watchdog - 1]]
      BY <1>3, <2>3 DEF VisitAges
    <3>4. conn' \in [Slots -> CipConnectionObject]
      BY <1>1, <2>1, <3>2, <3>3 DEF TypeOK, CipConnectionObject
    <3>5. \A s \in Slots : /\ conn'[s].state = conn[s].state
                           /\ conn'[s].tToO = conn[s].tToO
                           /\ conn'[s].producing = conn[s].producing
      BY <1>1, <2>1, <3>3 DEF TypeOK, CipConnectionObject
    <3> QED  BY <1>1, <1>3, <2>2, <3>4, <3>5, SameListIsSafe DEF VisitAges, TypeOK
  <2>4. CASE conn[c].state # "Established"
    BY <1>1, <1>3, <2>2, <2>4, SameListIsSafe DEF VisitAges, TypeOK
  <2> QED  BY <2>3, <2>4
<1>4. ASSUME NEW c \in cursor, VisitTimesOutIo(c)
      PROVE  IInv'
  <2>1. c \in Linked(list) /\ c \in IoSlots /\ conn[c].state # "NonExistent"
    BY <1>1, <1>4 DEF TypeOK, VisitTimesOutIo, Expired
  <2>2. PICK T : T = HandleIoConnectionTimeOut(Stack, c)
    OBVIOUS
  <2>3. WellFormed(T) /\ c \in Linked(T.list) /\ T.list \in Lists
    BY <1>1, <2>1, <2>2, IoTimeOutIsSafe, FieldTypes DEF WellFormed, WellFormedExcept
  <2>4. CASE Panic("freed node")
    BY <2>4, PanicIsSafe DEF Faults
  <2>5. CASE Becomes(T) /\ cursor' = NextNode(list', c) /\ UNCHANGED <<udpIo, fault>>
    <3>1. list' = T.list
      BY <2>5 DEF Becomes
    <3>2. cursor' \subseteq Linked(T.list)
      BY <2>3, <2>5, <3>1, NextIsLinked
    <3> QED  BY <1>1, <2>3, <2>5, <3>2, HandlerIsSafe DEF TypeOK
  <2> QED  BY <1>4, <2>2, <2>4, <2>5 DEF VisitTimesOutIo
<1>5. ASSUME NEW c \in cursor, VisitTimesOutClass3(c)
      PROVE  IInv'
  <2>1. CASE /\ fault' = "hung"
             /\ UNCHANGED <<conn, list, cursor, desc, udpIo, sessions, active>>
    BY <1>1, <2>1, SameListIsSafe DEF TypeOK, Faults
  <2>2. PICK T : T = Class3ConnectionTimeout(Stack, c)
    OBVIOUS
  <2>3. WellFormed(T)
    BY <1>1, <2>2, Class3TimeOutIsSafe
  <2>4. CASE Becomes(T) /\ cursor' = {} /\ UNCHANGED <<udpIo, fault>>
    BY <1>1, <2>3, <2>4, HandlerIsSafe DEF TypeOK
  <2> QED  BY <1>5, <2>1, <2>2, <2>4 DEF VisitTimesOutClass3
<1> QED  BY <1>2, <1>3, <1>4, <1>5 DEF Visit

(* Every step of the connection manager keeps the invariant. *)
LEMMA ConnectionManagerIsSafe ==
  ASSUME IInv, CMNext
  PROVE  IInv'
BY ForwardOpenIoIsSafe, ForwardOpenClass3IsSafe, ForwardCloseIsSafe, ReceiveIoDataIsSafe,
   ReceiveOnClosedDescriptorIsSafe, ReceiveExplicitIsSafe, VisitIsSafe,
   NetworkAssumption DEF CMNext

-----------------------------------------------------------------------------
(* The steps of the encapsulation layer. *)
LEMMA EncapsulationIsSafe ==
  ASSUME IInv, EncapNext
  PROVE  IInv'
<1>1. TypeOK /\ WellFormed(Stack)
  BY StackIsWellFormed DEF IInv
<1>2. ASSUME NEW o \in Originators, AcceptTcp(o)
      PROVE  IInv'
  <2>1. PICK d \in Descriptors :
          \/ /\ desc' = [desc EXCEPT ![d] = o]
             /\ UNCHANGED <<conn, list, cursor, udpIo, sessions, active, fault>>
          \/ Panic("assertion")
    BY <1>2 DEF AcceptTcp, Lowest
  <2>2. CASE Panic("assertion")
    BY <2>2, PanicIsSafe DEF Faults
  <2>3. CASE /\ desc' = [desc EXCEPT ![d] = o]
             /\ UNCHANGED <<conn, list, cursor, udpIo, sessions, active, fault>>
    BY <1>1, <2>3, SameListIsSafe DEF TypeOK
  <2> QED  BY <2>1, <2>2, <2>3
<1>3. ASSUME NEW d \in Descriptors, RegisterSession(d)
      PROVE  IInv'
  <2>1. PICK h \in SessionHandles : sessions' = [sessions EXCEPT ![h] = d]
    BY <1>3 DEF RegisterSession, Lowest
  <2>2. sessions' \in [SessionHandles -> Sockets]
    BY <1>1, <2>1 DEF TypeOK, Sockets
  <2> QED  BY <1>1, <1>3, <2>2, SameListIsSafe DEF RegisterSession, TypeOK
<1>4. ASSUME NEW d \in Descriptors, CloseUnregisteredTcp(d)
      PROVE  IInv'
  BY <1>1, <1>4, SameListIsSafe DEF CloseUnregisteredTcp, TypeOK
<1>5. ASSUME NEW h \in SessionHandles, EndSession(h)
      PROVE  IInv'
  <2>1. PICK T : T = CloseSessions(Stack, {h})
    OBVIOUS
  <2>2. WellFormed(T) /\ Becomes(T) /\ cursor' = {} /\ UNCHANGED <<udpIo, fault>>
    BY <1>1, <1>5, <2>1, CloseSessionsIsSafe DEF EndSession, Running
  <2> QED  BY <1>1, <2>2, HandlerIsSafe DEF TypeOK
<1>6. ASSUME NEW h \in SessionHandles, EncapsulationInactivity(h)
      PROVE  IInv'
  <2>1. PICK D : D = FirstClass3OfSession(Stack, h - 1)
    OBVIOUS
  <2>2. PICK S : S = Discard(Stack, D)
    OBVIOUS
  <2>3. WellFormed(S)
    BY <1>1, <2>2, DiscardIsSafe DEF WellFormed
  <2>4. PICK T : T = CloseSessions(S, {h})
    OBVIOUS
  <2>5. WellFormed(T) /\ Becomes(T) /\ cursor' = {} /\ UNCHANGED <<udpIo, fault>>
    BY <1>6, <2>1, <2>2, <2>3, <2>4, CloseSessionsIsSafe
       DEF EncapsulationInactivity, Running
  <2> QED  BY <1>1, <2>5, HandlerIsSafe DEF TypeOK
<1> QED  BY <1>2, <1>3, <1>4, <1>5, <1>6 DEF EncapNext

(* Resets, link events and reboots. *)
LEMMA ResetIsSafe ==
  ASSUME IInv, ResetDevice
  PROVE  IInv'
<1>1. TypeOK /\ WellFormed(Stack)
  BY StackIsWellFormed DEF IInv
<1>2. PICK S : S = Discard(Stack, Linked(list))
  OBVIOUS
<1>3. WellFormedExcept(S, {})
  BY <1>1, <1>2, DiscardIsSafe DEF WellFormed
<1>4. PICK T : T = [conn |-> S.conn, list |-> S.list, desc |-> S.desc,
                    sessions |-> S.sessions, active |-> 0]
  OBVIOUS
<1>5. T \in Stacks /\ T.conn = S.conn /\ T.list = S.list
  BY <1>3, <1>4, FieldTypes DEF WellFormedExcept, Stacks
<1>6. Producers(T, {Multicast}) = Producers(S, {Multicast})
  BY <1>5 DEF Producers
<1>7. WellFormed(T)
  BY <1>3, <1>5, <1>6 DEF WellFormed, WellFormedExcept, InUseExcept, OneProducer
<1>8. S.sessions = sessions
  BY <1>2 DEF Discard, Stack
<1>9. Becomes(T) /\ cursor' = {} /\ UNCHANGED <<udpIo, fault>>
  BY <1>2, <1>4, <1>8 DEF ResetDevice, Becomes, Running
<1> QED  BY <1>1, <1>7, <1>9, HandlerIsSafe DEF TypeOK

(* Every step of the target keeps the invariant. *)
LEMMA StepIsSafe ==
  ASSUME IInv, [Next]_cmVars
  PROVE  IInv'
<1>1. TypeOK
  BY DEF IInv
<1>2. CASE CMNext
  BY <1>2, ConnectionManagerIsSafe
<1>3. CASE EncapNext
  BY <1>3, EncapsulationIsSafe
<1>4. CASE NotifyLinkDown
  BY <1>1, <1>4, SameListIsSafe DEF NotifyLinkDown, TypeOK
<1>5. CASE ResetDevice
  BY <1>5, ResetIsSafe
<1>6. CASE ResetDeviceToInitialConfiguration
  BY <1>1, <1>6, SameListIsSafe DEF ResetDeviceToInitialConfiguration, TypeOK
<1>7. CASE PanicReboot \/ Restart
  BY <1>7, PanicIsSafe DEF PanicReboot, Restart, Faults
<1>8. CASE UNCHANGED cmVars
  BY <1>1, <1>8, SameListIsSafe DEF cmVars, TypeOK
<1> QED  BY <1>2, <1>3, <1>4, <1>5, <1>6, <1>7, <1>8 DEF Next

-----------------------------------------------------------------------------
(* No handler of the stack, whatever it closes, hands over or times out,   *)
(* breaks the types, the list or the single producer: the three together   *)
(* are inductive (SetState, transfer_master_connection,                    *)
(* RemoveFromActiveConnections run between two consistent states).         *)
THEOREM Invariance == Spec => []IInv
<1>1. Init => IInv
  BY EmptyStateIsSafe DEF Init
<1>2. IInv /\ [Next]_cmVars => IInv'
  BY StepIsSafe
<1> QED  BY <1>1, <1>2, PTL DEF Spec

(* Every variable keeps its type; above all, the list stays a list of pool *)
(* objects and the walk of ManageConnections never stands on a node that a *)
(* handler has unlinked.                                                   *)
THEOREM TypeCorrect == Spec => []TypeOK
<1>1. IInv => TypeOK
  BY DEF IInv
<1> QED  BY <1>1, Invariance, PTL

(* The active connection list holds exactly the objects in use, each once, *)
(* in one order, for any pools and any node budget                         *)
(* (AddNewActiveConnection, RemoveFromActiveConnections).                  *)
THEOREM ListIsConsistent == Spec => []ListConsistent
<1>1. IInv => ListConsistent
  BY DEF IInv
<1> QED  BY <1>1, Invariance, PTL

(* No two linked multicast connections ever hold a producing socket, for   *)
(* any number of scanners, pool objects and descriptors                    *)
(* (OpenProducingMulticastConnection, transfer_master_connection).         *)
THEOREM SingleProducer == Spec => []SingleMulticastProducer
<1>1. IInv => SingleMulticastProducer
  BY DEF IInv
<1> QED  BY <1>1, Invariance, PTL

-----------------------------------------------------------------------------
(* The shipped configuration: one connection point for all three types.    *)

Shipped == OwnerPoint = InputPoint /\ InputPoint = ListenPoint

(* No I/O connection but the owner's is linked,                             *)
OnlyOwner(S) == Linked(S.list) \cap IoSlots \subseteq {OwnerSlot}

(* the shared descriptor u is an open UDP socket and the only one it holds, *)
OwnerSockets(S, u) ==
  OwnerSlot \in Linked(S.list) =>
    /\ u \in Descriptors /\ S.desc[u] = "udp"
    /\ S.conn[OwnerSlot].consuming = u
    /\ S.conn[OwnerSlot].producing = u

(* an explicit connection holds no socket and belongs to a session,         *)
ExplicitFields(S) ==
  \A s \in Linked(S.list) \cap ExplicitSlots :
    /\ S.conn[s].session \in SessionHandles
    /\ S.conn[s].consuming = kEipInvalidSocket
    /\ S.conn[s].producing = kEipInvalidSocket

(* and the sessions have open TCP sockets of their own.                     *)
SessionsApart(S) ==
  \A g, h \in SessionHandles :
    S.sessions[g] # kEipInvalidSocket /\ S.sessions[g] = S.sessions[h] => g = h

SessionsOpen(S) ==
  \A h \in SessionHandles :
    S.sessions[h] # kEipInvalidSocket =>
      S.sessions[h] \in Descriptors /\ S.desc[S.sessions[h]] \in Originators

Apart(S, u) ==
  /\ OnlyOwner(S)
  /\ OwnerSockets(S, u)
  /\ ExplicitFields(S)
  /\ SessionsApart(S)
  /\ SessionsOpen(S)

(* Numbers and owners of descriptors that never mix. *)
LEMMA Kinds ==
  /\ kEipInvalidSocket \notin Descriptors
  /\ "udp" \notin Originators /\ "free" \notin Originators
  /\ OwnerSlot \in IoSlots /\ OwnerSlot \notin ExplicitSlots
  /\ \A s \in Slots : s \in IoSlots <=> s \notin ExplicitSlots
BY PoolsAssumption, NetworkAssumption DEF kEipInvalidSocket, IoSlots, Slots

(* What the owner and the sessions hold is the same when nothing of it     *)
(* changes.                                                                *)
LEMMA SameHolders ==
  ASSUME NEW S, NEW T, NEW u, Apart(S, u), Linked(S.list) \subseteq Slots,
         Linked(T.list) = Linked(S.list), T.desc = S.desc, T.sessions = S.sessions,
         \A s \in Slots : /\ T.conn[s].consuming = S.conn[s].consuming
                          /\ T.conn[s].producing = S.conn[s].producing
                          /\ T.conn[s].session = S.conn[s].session
  PROVE  Apart(T, u)
<1>1. OnlyOwner(T)
  BY DEF Apart, OnlyOwner
<1>2. OwnerSockets(T, u)
  BY DEF Apart, OwnerSockets
<1>3. ExplicitFields(T)
  BY DEF Apart, ExplicitFields
<1>4. SessionsApart(T) /\ SessionsOpen(T)
  BY DEF Apart, SessionsApart, SessionsOpen
<1> QED  BY <1>1, <1>2, <1>3, <1>4 DEF Apart

(* With the owner unlinked, the shared descriptor does not matter. *)
LEMMA NoOwnerNoSocket ==
  ASSUME NEW S, NEW u, Apart(S, u), OwnerSlot \notin Linked(S.list), NEW v
  PROVE  Apart(S, v)
BY DEF Apart, OwnerSockets

(* Closing linked connections closes no socket of a session. *)
LEMMA DiscardKeepsApart ==
  ASSUME NEW S, NEW u, Apart(S, u), S \in Stacks,
         NEW D, D \subseteq Linked(S.list), NEW T, T = Discard(S, D)
  PROVE  /\ Apart(T, u)
         /\ \A s : s \in Linked(T.list) <=> s \in Linked(S.list) /\ s \notin D
<1>1. S.list \in Lists /\ Linked(S.list) \subseteq Slots
  BY FieldTypes
<1>2. PICK closed : closed = SocketsOf(S, D)
  OBVIOUS
<1>3. /\ \A s \in Slots : T.conn[s] = IF s \in D THEN EmptyConnection ELSE S.conn[s]
      /\ \A f \in Descriptors : T.desc[f] = IF f \in closed THEN "free" ELSE S.desc[f]
      /\ T.sessions = S.sessions
  BY <1>2 DEF Discard, CloseSockets
<1>4. \A s : s \in Linked(T.list) <=> s \in Linked(S.list) /\ s \notin D
  BY <1>1, UnlinkedList DEF Discard
<1>5. \A f \in closed : f = kEipInvalidSocket \/ (f = u /\ OwnerSlot \in D)
  <2> SUFFICES ASSUME NEW s \in D, NEW f \in {S.conn[s].consuming, S.conn[s].producing}
               PROVE  f = kEipInvalidSocket \/ (f = u /\ OwnerSlot \in D)
    BY <1>2 DEF SocketsOf
  <2>1. CASE s \in ExplicitSlots
    BY <2>1 DEF Apart, ExplicitFields
  <2>2. CASE s \notin ExplicitSlots
    <3>1. s = OwnerSlot
      BY <1>1, <2>2, Kinds DEF Apart, OnlyOwner
    <3> QED  BY <3>1 DEF Apart, OwnerSockets
  <2> QED  BY <2>1, <2>2
<1>6. OnlyOwner(T)
  BY <1>4 DEF Apart, OnlyOwner
<1>7. OwnerSockets(T, u)
  BY <1>1, <1>3, <1>4, <1>5, Kinds DEF Apart, OwnerSockets
<1>8. ExplicitFields(T)
  BY <1>1, <1>3, <1>4 DEF Apart, ExplicitFields
<1>9. SessionsApart(T)
  BY <1>3 DEF Apart, SessionsApart
<1>10. SessionsOpen(T)
  <2> SUFFICES ASSUME NEW h \in SessionHandles, S.sessions[h] # kEipInvalidSocket,
                      S.sessions[h] \in closed
               PROVE  FALSE
    BY <1>3 DEF Apart, SessionsOpen
  <2>1. S.sessions[h] = u /\ OwnerSlot \in Linked(S.list)
    BY <1>5
  <2>2. S.desc[u] = "udp" /\ S.desc[u] \in Originators
    BY <2>1 DEF Apart, OwnerSockets, SessionsOpen
  <2> QED  BY <2>2, Kinds
<1> QED  BY <1>4, <1>6, <1>7, <1>8, <1>9, <1>10 DEF Apart

(* Ending sessions closes their own sockets only. *)
LEMMA WithoutSessionsKeepsApart ==
  ASSUME NEW S, NEW u, Apart(S, u), NEW H \in SUBSET SessionHandles,
         NEW T, T = WithoutSessions(S, H)
  PROVE  Apart(T, u) /\ T.conn = S.conn /\ T.list = S.list
<1>1. PICK closed : closed = {S.sessions[h] : h \in H}
  OBVIOUS
<1>2. /\ T.conn = S.conn /\ T.list = S.list
      /\ \A f \in Descriptors : T.desc[f] = IF f \in closed THEN "free" ELSE S.desc[f]
      /\ \A h \in SessionHandles :
           T.sessions[h] = IF h \in H THEN kEipInvalidSocket ELSE S.sessions[h]
  BY <1>1 DEF WithoutSessions, CloseSockets
<1>3. OnlyOwner(T) /\ ExplicitFields(T)
  BY <1>2 DEF Apart, OnlyOwner, ExplicitFields
<1>4. OwnerSockets(T, u)
  <2> SUFFICES ASSUME OwnerSlot \in Linked(S.list), u \in closed
               PROVE  FALSE
    BY <1>2 DEF Apart, OwnerSockets
  <2>1. u \in Descriptors /\ S.desc[u] = "udp"
    BY DEF Apart, OwnerSockets
  <2>2. PICK h \in H : u = S.sessions[h]
    BY <1>1
  <2>3. S.desc[u] \in Originators
    BY <2>1, <2>2, Kinds DEF Apart, SessionsOpen
  <2> QED  BY <2>1, <2>3, Kinds
<1>5. SessionsApart(T)
  BY <1>2 DEF Apart, SessionsApart
<1>6. SessionsOpen(T)
  <2> SUFFICES ASSUME NEW h \in SessionHandles, h \notin H,
                      S.sessions[h] # kEipInvalidSocket, S.sessions[h] \in closed
               PROVE  FALSE
    BY <1>2 DEF Apart, SessionsOpen
  <2>1. PICK g \in H : S.sessions[g] = S.sessions[h]
    BY <1>1
  <2> QED  BY <2>1 DEF Apart, SessionsApart
<1> QED  BY <1>2, <1>3, <1>4, <1>5, <1>6 DEF Apart

(* With their class 3 connections as well. *)
LEMMA CloseSessionsKeepsApart ==
  ASSUME NEW S, NEW u, Apart(S, u), WellFormed(S), NEW H \in SUBSET SessionHandles,
         NEW T, T = CloseSessions(S, H)
  PROVE  Apart(T, u) /\ \A s \in IoSlots : s \in Linked(T.list) <=> s \in Linked(S.list)
<1>1. PICK S1 : S1 = WithoutSessions(S, H)
  OBVIOUS
<1>2. Apart(S1, u) /\ S1.list = S.list /\ S1 \in Stacks
  BY <1>1, WithoutSessionsKeepsApart, WithoutSessionsIsSafe
     DEF WellFormed, WellFormedExcept
<1>3. PICK D : D = UNION {FirstClass3OfSession(S, h) : h \in H}
  OBVIOUS
<1>4. D \subseteq Linked(S1.list) /\ D \cap IoSlots = {}
  BY <1>2, <1>3 DEF FirstClass3OfSession, Front, IoSlots
<1>5. T = Discard(S1, D)
  BY <1>1, <1>3 DEF CloseSessions
<1>6. Apart(T, u)
  BY <1>2, <1>4, <1>5, DiscardKeepsApart
<1>7. \A s : s \in Linked(T.list) <=> s \in Linked(S1.list) /\ s \notin D
  BY <1>2, <1>4, <1>5, DiscardKeepsApart
<1> QED  BY <1>2, <1>4, <1>6, <1>7

(* The timeout of an explicit connection. *)
LEMMA Class3TimeoutKeepsApart ==
  ASSUME NEW S, NEW u, Apart(S, u), WellFormed(S),
         NEW c \in Linked(S.list), c \in ExplicitSlots,
         NEW T, T = Class3ConnectionTimeout(S, c)
  PROVE  Apart(T, u)
<1>1. S.conn[c].session \in SessionHandles
  BY DEF Apart, ExplicitFields
<1>2. PICK H : H = {S.conn[c].session}
  OBVIOUS
<1>3. PICK S1 : S1 = IF LastOfOriginator(S, c) THEN WithoutSessions(S, H) ELSE S
  OBVIOUS
<1>4. Apart(S1, u) /\ S1.list = S.list /\ S1 \in Stacks
  <2>1. H \in SUBSET SessionHandles
    BY <1>1, <1>2
  <2>2. CASE LastOfOriginator(S, c)
    BY <1>3, <2>1, <2>2, WithoutSessionsKeepsApart, WithoutSessionsIsSafe
       DEF WellFormed, WellFormedExcept
  <2>3. CASE ~LastOfOriginator(S, c)
    BY <1>3, <2>3 DEF WellFormed, WellFormedExcept
  <2> QED  BY <2>2, <2>3
<1>5. PICK D : D = {c}
  OBVIOUS
<1>6. D \subseteq Linked(S1.list) /\ T = Discard(S1, D)
  BY <1>2, <1>3, <1>4, <1>5 DEF Class3ConnectionTimeout
<1> QED  BY <1>4, <1>6, DiscardKeepsApart

-----------------------------------------------------------------------------
(* Telling the application, or changing a state, changes no holder. *)
LEMMA AnnounceKeepsApart ==
  ASSUME NEW S, NEW E, NEW u, Apart(S, u), WellFormedExcept(S, E), NEW n \in Nat,
         NEW T, T = Announce(S, n)
  PROVE  Apart(T, u) /\ WellFormedExcept(T, E) /\ T.list = S.list /\ T.conn = S.conn
<1>1. WellFormedExcept(T, E) /\ T.list = S.list /\ T.conn = S.conn
  BY AnnounceIsSafe
<1>2. T.desc = S.desc /\ T.sessions = S.sessions
  BY DEF Announce
<1>3. Linked(S.list) \subseteq Slots
  BY FieldTypes DEF WellFormedExcept
<1> QED  BY <1>1, <1>2, <1>3, SameHolders

(* The state of a connection is not one of what Apart is about. *)
LEMMA SetStateKeepsApart ==
  ASSUME NEW S, NEW E, NEW u, Apart(S, u), WellFormedExcept(S, E), NEW c \in Slots,
         NEW state \in {"NonExistent", "Established", "TimedOut"},
         NEW F, \A s : s \in E \/ s = c => s \in F,
         NEW T, T = SetState(S, c, state)
  PROVE  Apart(T, u) /\ WellFormedExcept(T, F) /\ T.list = S.list
         /\ T.conn[c].state = state
<1>1. WellFormedExcept(T, F)
  BY SetStateIsSafe
<1>2. T.list = S.list /\ T.desc = S.desc /\ T.sessions = S.sessions
  BY DEF SetState
<1>3. /\ Linked(S.list) \subseteq Slots
      /\ S.conn \in [Slots -> CipConnectionObject]
  BY FieldTypes DEF WellFormedExcept
<1>4. T.conn = [S.conn EXCEPT ![c].state = state]
  BY DEF SetState
<1>5. /\ T.conn[c].state = state
      /\ \A s \in Slots : /\ T.conn[s].consuming = S.conn[s].consuming
                          /\ T.conn[s].producing = S.conn[s].producing
                          /\ T.conn[s].session = S.conn[s].session
  BY <1>3, <1>4 DEF CipConnectionObject
<1> QED  BY <1>1, <1>2, <1>3, <1>5, SameHolders

(* Closing connections with the double announcement. *)
LEMMA CloseAllKeepsApart ==
  ASSUME NEW S, NEW E, NEW u, Apart(S, u), WellFormedExcept(S, E),
         NEW D, D \subseteq Linked(S.list),
         NEW T, T = CloseAllConnectionsForInput(S, D)
  PROVE  /\ Apart(T, u) /\ WellFormedExcept(T, E)
         /\ \A s : s \in Linked(T.list) <=> s \in Linked(S.list) /\ s \notin D
<1>1. D \in SUBSET Slots
  BY FieldTypes DEF WellFormedExcept
<1>2. 2 * Cardinality(D) \in Nat
  BY <1>1, PoolsAreFinite
<1>3. PICK A : A = Announce(S, 2 * Cardinality(D))
  OBVIOUS
<1>4. Apart(A, u) /\ WellFormedExcept(A, E) /\ A.list = S.list
  BY <1>2, <1>3, AnnounceKeepsApart
<1>5. T = Discard(A, D)
  BY <1>3 DEF CloseAllConnectionsForInput
<1>6. A \in Stacks
  BY <1>4 DEF WellFormedExcept
<1>7. Apart(T, u)
  BY <1>4, <1>5, <1>6, DiscardKeepsApart
<1>8. /\ WellFormedExcept(T, E)
      /\ \A s : s \in Linked(T.list) <=> s \in Linked(S.list) /\ s \notin D
  BY <1>1, CloseAllIsSafe
<1> QED  BY <1>7, <1>8

(* With only the owner linked there is nobody to take over its socket and   *)
(* nobody to be closed with it.                                             *)
LEMMA NobodyElse ==
  ASSUME NEW S, NEW u, Apart(S, u), S.conn[OwnerSlot].state # "Established"
  PROVE  /\ NonControlMasters(S) = {}
         /\ LinkedInputOnly(S) = {}
         /\ LinkedListenOnly(S) = {}
<1>1. \A s \in Linked(S.list) \cap IoSlots : s = OwnerSlot
  BY DEF Apart, OnlyOwner
<1>2. /\ NonListenOnlySlots \subseteq IoSlots
      /\ InputSlots \subseteq IoSlots /\ ListenSlots \subseteq IoSlots
      /\ OwnerSlot \notin InputSlots /\ OwnerSlot \notin ListenSlots
  BY PoolsAssumption DEF IoSlots, Slots, NonListenOnlySlots
<1> QED  BY <1>1, <1>2 DEF NonControlMasters, LinkedInputOnly, LinkedListenOnly

(* The close of the owner. *)
LEMMA CloseOwnerKeepsApart ==
  ASSUME NEW S, NEW u, Apart(S, u), WellFormed(S), OwnerSlot \in Linked(S.list),
         NEW T, T = CloseIoConnection(S, OwnerSlot)
  PROVE  /\ Apart(T, u)
         /\ \A s : s \in Linked(T.list) <=> s \in Linked(S.list) /\ s # OwnerSlot
<1>1. OwnerSlot \in Slots /\ WellFormedExcept(S, {}) /\ 1 \in Nat
  BY DEF WellFormed, Slots
<1>2. PICK A : A = Announce(S, 1)
  OBVIOUS
<1>3. Apart(A, u) /\ WellFormedExcept(A, {}) /\ A.list = S.list
  BY <1>1, <1>2, AnnounceKeepsApart
<1>4. PICK E : E = {OwnerSlot}
  OBVIOUS
<1>5. PICK S0 : S0 = SetState(A, OwnerSlot, "NonExistent")
  OBVIOUS
<1>6. /\ Apart(S0, u) /\ WellFormedExcept(S0, E) /\ S0.list = S.list
      /\ S0.conn[OwnerSlot].state = "NonExistent"
  BY <1>1, <1>3, <1>4, <1>5, SetStateKeepsApart
<1>7. NonControlMasters(S0) = {} /\ LinkedListenOnly(S0) = {}
  BY <1>6, NobodyElse
<1>8. PICK none : none = ClosedWith(S0, OwnerSlot)
  OBVIOUS
<1>9. none = {}
  BY <1>7, <1>8 DEF ClosedWith
<1>10. PICK B : B = CloseAllConnectionsForInput(S0, none)
  OBVIOUS
<1>11. /\ Apart(B, u) /\ WellFormedExcept(B, E)
       /\ \A s : s \in Linked(B.list) <=> s \in Linked(S.list)
  BY <1>6, <1>9, <1>10, CloseAllKeepsApart
<1>12. T = Discard(B, E)
  BY <1>2, <1>4, <1>5, <1>7, <1>8, <1>10 DEF CloseIoConnection
<1>13. B \in Stacks /\ E \subseteq Linked(B.list)
  BY <1>4, <1>11 DEF WellFormedExcept
<1>14. /\ Apart(T, u)
       /\ \A s : s \in Linked(T.list) <=> s \in Linked(B.list) /\ s \notin E
  BY <1>11, <1>12, <1>13, DiscardKeepsApart
<1> QED  BY <1>4, <1>11, <1>14

(* The timeout of the owner. *)
LEMMA OwnerTimeOutKeepsApart ==
  ASSUME NEW S, NEW u, Apart(S, u), WellFormed(S), OwnerSlot \in Linked(S.list),
         S.conn[OwnerSlot].state # "NonExistent",
         NEW T, T = HandleIoConnectionTimeOut(S, OwnerSlot)
  PROVE  Apart(T, u)
<1>1. OwnerSlot \in Slots /\ OwnerSlot \in IoSlots /\ WellFormedExcept(S, {}) /\ 1 \in Nat
  BY Kinds DEF WellFormed, Slots
<1>2. PICK A : A = Announce(S, 1)
  OBVIOUS
<1>3. Apart(A, u) /\ WellFormedExcept(A, {}) /\ A.list = S.list /\ A.conn = S.conn
  BY <1>1, <1>2, AnnounceKeepsApart
<1>4. PICK E : E = {OwnerSlot}
  OBVIOUS
<1>5. PICK S0 : S0 = SetState(A, OwnerSlot, "TimedOut")
  OBVIOUS
<1>6. /\ Apart(S0, u) /\ WellFormedExcept(S0, E) /\ S0.list = S.list
      /\ S0.conn[OwnerSlot].state = "TimedOut"
  BY <1>1, <1>3, <1>4, <1>5, SetStateKeepsApart
<1>7. WellFormed(S0) /\ S0 = TimedOut(S, OwnerSlot)
  <2>1. S0 = TimedOut(S, OwnerSlot)
    BY <1>2, <1>5 DEF TimedOut
  <2>2. WellFormed(S0)
    BY <1>4, <1>6 DEF WellFormed, WellFormedExcept, InUseExcept
  <2> QED  BY <2>1, <2>2
<1>8. PICK S1 : S1 = SilentOriginatorClosed(S, OwnerSlot)
  OBVIOUS
<1>9. Apart(S1, u) /\ WellFormed(S1) /\ S1.conn[OwnerSlot].state = "TimedOut"
  <2>1. CASE S1 = S0
    BY <1>6, <1>7, <2>1
  <2>2. CASE S1 = CloseSessions(S0, SessionsOf(S0, S0.conn[OwnerSlot].originator))
    <3>1. PICK H : H = SessionsOf(S0, S0.conn[OwnerSlot].originator)
      OBVIOUS
    <3>2. H \in SUBSET SessionHandles /\ S1 = CloseSessions(S0, H)
      BY <2>2, <3>1 DEF SessionsOf
    <3>3. Apart(S1, u)
      BY <1>6, <1>7, <3>2, CloseSessionsKeepsApart
    <3>4. WellFormed(S1)
      BY <1>7, <3>2, CloseSessionsIsSafe
    <3>5. S1.conn[OwnerSlot] = S0.conn[OwnerSlot]
      BY <1>1, <3>2, Kinds DEF CloseSessions, Discard, WithoutSessions,
         FirstClass3OfSession, Front
    <3> QED  BY <1>6, <3>3, <3>4, <3>5
  <2> QED  BY <1>7, <1>8, <2>1, <2>2 DEF SilentOriginatorClosed
<1>10. NonControlMasters(S1) = {} /\ LinkedInputOnly(S1) = {} /\ LinkedListenOnly(S1) = {}
  BY <1>9, NobodyElse
<1>11. PICK none : none = LinkedInputOnly(S1) \cup LinkedListenOnly(S1)
  OBVIOUS
<1>12. T = CloseAllConnectionsForInput(S1, none) /\ none \subseteq Linked(S1.list)
  BY <1>8, <1>10, <1>11 DEF HandleIoConnectionTimeOut
<1> QED  BY <1>9, <1>12, CloseAllKeepsApart DEF WellFormed

(* The owner opens with a descriptor that was free. *)
LEMMA OpenKeepsApart ==
  ASSUME NEW S, NEW u, Apart(S, u), S \in Stacks, OwnerSlot \notin Linked(S.list),
         NEW udp \in Descriptors, S.desc[udp] = "free",
         NEW new, new.consuming = udp, new.producing = udp,
         NEW T, T = EstablishIoConnection(S, OwnerSlot, new)
  PROVE  Apart(T, udp)
<1>1. /\ S.list \in Lists /\ Linked(S.list) \subseteq Slots
      /\ S.desc \in [Descriptors -> Originators \cup {"free", "udp"}]
      /\ OwnerSlot \in Slots
  BY FieldTypes DEF Slots
<1>2. Linked(T.list) = Linked(S.list) \cup {OwnerSlot}
  BY <1>1, LongerList DEF EstablishIoConnection
<1>3. T.desc[udp] = "udp" /\ \A f \in Descriptors \ {udp} : T.desc[f] = S.desc[f]
  BY <1>1 DEF EstablishIoConnection
<1>4. T.sessions = S.sessions /\ T.conn[OwnerSlot] = new
  BY <1>1 DEF EstablishIoConnection
<1>5. \A s \in Slots \ IoSlots : T.conn[s] = S.conn[s]
  <2>1. PICK gone : gone = Dispossessed(S, OwnerSlot, new.tToO)
    OBVIOUS
  <2>2. gone \subseteq IoSlots
    BY <2>1 DEF Dispossessed, Front, Producers
  <2> QED  BY <2>1, <2>2, Kinds DEF EstablishIoConnection
<1>6. OnlyOwner(T)
  BY <1>2 DEF Apart, OnlyOwner
<1>7. OwnerSockets(T, udp)
  BY <1>3, <1>4 DEF OwnerSockets
<1>8. ExplicitFields(T)
  BY <1>1, <1>2, <1>5, Kinds DEF Apart, ExplicitFields
<1>9. SessionsApart(T)
  BY <1>4 DEF Apart, SessionsApart
<1>10. SessionsOpen(T)
  BY <1>3, <1>4, Kinds DEF Apart, SessionsOpen
<1> QED  BY <1>6, <1>7, <1>8, <1>9, <1>10 DEF Apart

-----------------------------------------------------------------------------
(* The steps of the target, seen from the sockets. *)

(* A step to the record T with the shared descriptor v that keeps the      *)
(* sockets apart and finds a node for every connection it opens.           *)
ApartStep == \E T, v : Becomes(T) /\ udpIo' = v /\ Apart(T, v) /\ fault' # "null node"

(* A step that changes no holder. *)
LEMMA InPlaceKeepsApart ==
  ASSUME TypeOK, Apart(Stack, udpIo), fault' # "null node",
         UNCHANGED <<list, desc, sessions, udpIo>>,
         \A s \in Slots : /\ conn'[s].consuming = conn[s].consuming
                          /\ conn'[s].producing = conn[s].producing
                          /\ conn'[s].session = conn[s].session
  PROVE  ApartStep
<1>1. PICK T : T = [conn |-> conn', list |-> list', desc |-> desc',
                    sessions |-> sessions', active |-> active']
  OBVIOUS
<1>2. Becomes(T)
  BY <1>1 DEF Becomes
<1>3. PICK S : S = Stack
  OBVIOUS
<1>4. /\ S.conn = conn /\ S.list = list /\ S.desc = desc /\ S.sessions = sessions
      /\ Apart(S, udpIo) /\ Linked(S.list) \subseteq Slots
  BY <1>3 DEF Stack, TypeOK
<1>5. /\ T.list = S.list /\ T.desc = S.desc /\ T.sessions = S.sessions
      /\ \A s \in Slots : /\ T.conn[s].consuming = S.conn[s].consuming
                          /\ T.conn[s].producing = S.conn[s].producing
                          /\ T.conn[s].session = S.conn[s].session
  <2>1. T.conn = conn' /\ T.list = list' /\ T.desc = desc' /\ T.sessions = sessions'
    BY <1>1
  <2> QED  BY <1>4, <2>1
<1>6. Linked(T.list) = Linked(S.list)
  BY <1>5
<1>7. Apart(T, udpIo)
  <2>1. PICK u : u = udpIo
    OBVIOUS
  <2>2. Apart(T, u)
    <3>1. Apart(S, u)
      BY <1>4, <2>1
    <3>2. OnlyOwner(T)
      BY <1>6, <3>1 DEF Apart, OnlyOwner
    <3>3. OwnerSockets(T, u)
      BY <1>5, <1>6, <3>1, Kinds DEF Apart, OwnerSockets, Slots
    <3>4. ExplicitFields(T)
      BY <1>4, <1>5, <1>6, <3>1 DEF Apart, ExplicitFields
    <3>5. SessionsApart(T) /\ SessionsOpen(T)
      BY <1>5, <3>1 DEF Apart, SessionsApart, SessionsOpen
    <3> QED  BY <3>2, <3>3, <3>4, <3>5 DEF Apart
  <2> QED  BY <2>1, <2>2
<1> QED  BY <1>2, <1>7 DEF ApartStep

(* The empty tables hold nothing. *)
LEMMA EmptyTablesApart ==
  ASSUME NEW T, Linked(T.list) = {},
         \A h \in SessionHandles : T.sessions[h] = kEipInvalidSocket, NEW u
  PROVE  Apart(T, u)
BY DEF Apart, OnlyOwner, OwnerSockets, ExplicitFields, SessionsApart, SessionsOpen

(* The loss of the state leaves nothing held. *)
LEMMA PanicKeepsApart ==
  ASSUME NEW cause \in {"none", "freed node", "assertion"}, Panic(cause)
  PROVE  ApartStep
<1>1. PICK T : T = [conn |-> conn', list |-> list', desc |-> desc',
                    sessions |-> sessions', active |-> active']
  OBVIOUS
<1>2. Becomes(T)
  BY <1>1 DEF Becomes
<1>3. Linked(T.list) = {} /\ \A h \in SessionHandles : T.sessions[h] = kEipInvalidSocket
  BY <1>1 DEF Panic, EmptyList, Linked
<1>4. fault' # "null node"
  BY DEF Panic
<1> QED  BY <1>2, <1>3, <1>4, EmptyTablesApart DEF ApartStep

(* A node is left for every connection that may open. *)
LEMMA NodeIsLeft ==
  ASSUME NEW l \in Lists, Linked(l) \cap IoSlots \subseteq {OwnerSlot}
  PROVE  NodeAvailable(l)
<1>1. IsFiniteSet(ExplicitSlots) /\ Cardinality(ExplicitSlots) \in Nat
  BY PoolsAssumption, FS_Subset, FS_CardinalityType DEF Slots
<1>2. PICK E : E = ExplicitSlots \cup {OwnerSlot}
  OBVIOUS
<1>3. IsFiniteSet(E) /\ Cardinality(E) \in Nat
      /\ Cardinality(E) <= Cardinality(ExplicitSlots) + 1
  <2>1. /\ IsFiniteSet(ExplicitSlots \cup {OwnerSlot})
        /\ Cardinality(ExplicitSlots \cup {OwnerSlot}) =
             IF OwnerSlot \in ExplicitSlots THEN Cardinality(ExplicitSlots)
             ELSE Cardinality(ExplicitSlots) + 1
    BY <1>1, FS_AddElement
  <2> QED  BY <1>1, <1>2, <2>1
<1>4. Linked(l) \subseteq E
  BY <1>2, Kinds DEF Lists, Linked
<1>5. Cardinality(Linked(l)) \in Nat /\ Cardinality(Linked(l)) <= Cardinality(E)
  BY <1>3, <1>4, FS_Subset, FS_CardinalityType
<1> QED  BY <1>1, <1>3, <1>5 DEF NodeAvailable, kNodesAmount

(* A forward open gets the owner's object or none. *)
LEMMA ForwardOpenIoKeepsApart ==
  ASSUME Shipped, IInv, Apart(Stack, udpIo), fault # "null node",
         NEW o \in Originators, NEW n \in Serials,
         NEW point \in {OwnerPoint, InputPoint, ListenPoint},
         NEW type \in TtoOTypes, ForwardOpenIo(o, n, point, type)
  PROVE  ApartStep
<1>1. WellFormed(Stack) /\ Stack \in Stacks /\ Stack.conn = conn /\ Stack.list = list
  BY StackIsWellFormed DEF WellFormed, WellFormedExcept
<1>2. PICK s \in IoConnectionFor(o, point) :
        LET S == IF s \in Linked(list) THEN CloseIoConnection(Stack, s) ELSE Stack
            unused == {d \in Descriptors : S.desc[d] = "free"}
        IN  \/ /\ Becomes(S)
               /\ UNCHANGED <<udpIo, cursor, fault>>
            \/ /\ unused = {}
               /\ Becomes(S)
               /\ udpIo' = kEipInvalidSocket
               /\ UNCHANGED <<cursor, fault>>
            \/ \E udp \in Lowest(unused) :
               \E producing \in ProducingSocket(S, s, type, udp) :
                 IF NodeAvailable(S.list)
                 THEN /\ Becomes(EstablishIoConnection(S, s,
                                   Opened(o, n, type, udp, producing, 0)))
                      /\ udpIo' = udp
                      /\ UNCHANGED <<cursor, fault>>
                 ELSE Panic("null node")
  BY DEF ForwardOpenIo
<1>3. s = OwnerSlot
  BY DEF Shipped, IoConnectionFor, Free, Reclaimable
<1>4. PICK S : S = IF OwnerSlot \in Linked(list) THEN CloseIoConnection(Stack, OwnerSlot)
                   ELSE Stack
  OBVIOUS
<1>5. /\ Apart(S, udpIo) /\ WellFormed(S) /\ S \in Stacks
      /\ OwnerSlot \notin Linked(S.list)
  <2>1. CASE OwnerSlot \in Linked(list)
    <3>1. S = CloseIoConnection(Stack, OwnerSlot) /\ OwnerSlot \in Linked(Stack.list)
      BY <1>1, <1>4, <2>1
    <3>2. /\ Apart(S, udpIo)
          /\ \A x : x \in Linked(S.list) <=> x \in Linked(Stack.list) /\ x # OwnerSlot
      BY <1>1, <3>1, CloseOwnerKeepsApart
    <3>3. WellFormed(S)
      BY <1>1, <3>1, CloseIoIsSafe
    <3> QED  BY <3>2, <3>3 DEF WellFormed, WellFormedExcept
  <2>2. CASE OwnerSlot \notin Linked(list)
    BY <1>1, <1>4, <2>2
  <2> QED  BY <2>1, <2>2
<1>6. CASE Becomes(S) /\ UNCHANGED <<udpIo, fault>>
  BY <1>5, <1>6 DEF ApartStep
<1>7. CASE Becomes(S) /\ udpIo' = kEipInvalidSocket /\ UNCHANGED fault
  BY <1>5, <1>7, NoOwnerNoSocket DEF ApartStep
<1>8. NodeAvailable(S.list)
  BY <1>5, FieldTypes, NodeIsLeft DEF Apart, OnlyOwner
<1>9. ASSUME NEW udp \in Descriptors, S.desc[udp] = "free",
             NEW producing \in ProducingSocket(S, OwnerSlot, type, udp),
             Becomes(EstablishIoConnection(S, OwnerSlot,
                       Opened(o, n, type, udp, producing, 0))),
             udpIo' = udp, UNCHANGED fault
      PROVE  ApartStep
  <2>1. producing = udp
    <3>1. Producers(S, {Multicast}) = {}
      BY <1>5 DEF Producers, Apart, OnlyOwner
    <3> QED  BY <1>9, <3>1 DEF ProducingSocket
  <2>2. PICK new : new = Opened(o, n, type, udp, producing, 0)
    OBVIOUS
  <2>3. new.consuming = udp /\ new.producing = udp
    BY <2>1, <2>2 DEF Opened, EmptyConnection
  <2>4. PICK T : T = EstablishIoConnection(S, OwnerSlot, new)
    OBVIOUS
  <2>5. Apart(T, udp)
    BY <1>5, <1>9, <2>3, <2>4, OpenKeepsApart
  <2> QED  BY <1>9, <2>2, <2>4, <2>5 DEF ApartStep
<1>10. PICK unused : unused = {d \in Descriptors : S.desc[d] = "free"}
  OBVIOUS
<1>11. \/ Becomes(S) /\ UNCHANGED <<udpIo, fault>>
       \/ Becomes(S) /\ udpIo' = kEipInvalidSocket /\ UNCHANGED fault
       \/ \E udp \in Lowest(unused) :
          \E producing \in ProducingSocket(S, OwnerSlot, type, udp) :
            /\ Becomes(EstablishIoConnection(S, OwnerSlot,
                         Opened(o, n, type, udp, producing, 0)))
            /\ udpIo' = udp
            /\ UNCHANGED fault
  BY <1>2, <1>3, <1>4, <1>8, <1>10
<1> QED  BY <1>6, <1>7, <1>9, <1>10, <1>11 DEF Lowest

(* An explicit connection opens. *)
LEMMA ForwardOpenClass3KeepsApart ==
  ASSUME IInv, Apart(Stack, udpIo), fault # "null node",
         NEW o, NEW n, NEW h \in SessionHandles, ForwardOpenClass3(o, n, h)
  PROVE  ApartStep
<1>1. Stack \in Stacks /\ Stack.conn = conn /\ Stack.list = list /\ Stack.desc = desc
      /\ Stack.sessions = sessions /\ list \in Lists /\ TypeOK
  BY StackIsWellFormed, FieldTypes DEF WellFormed, WellFormedExcept, IInv
<1>2. NodeAvailable(list)
  BY <1>1, NodeIsLeft DEF Apart, OnlyOwner
<1>3. PICK new : new = Opened(o, n, PointToPoint, kEipInvalidSocket, kEipInvalidSocket, h)
  OBVIOUS
<1>4. PICK s \in Free(ExplicitSlots) :
        /\ conn' = [conn EXCEPT ![s] = new]
        /\ list' = InsertAtHead(list, s)
        /\ UNCHANGED <<cursor, desc, udpIo, sessions, active, fault>>
  BY <1>2, <1>3 DEF ForwardOpenClass3, Lowest
<1>5. s \in Slots /\ s \in ExplicitSlots /\ s \notin IoSlots
      /\ conn[s].state = "NonExistent" /\ s \notin Linked(list)
  BY Kinds DEF Free, Slots, IoSlots, IInv, ListConsistent
<1>6. /\ new.consuming = kEipInvalidSocket /\ new.producing = kEipInvalidSocket
      /\ new.session = h
  BY <1>3 DEF Opened, EmptyConnection
<1>7. Linked(list') = Linked(list) \cup {s}
  BY <1>1, <1>4, <1>5, LongerList
<1>8. conn'[s] = new /\ \A x \in Slots \ {s} : conn'[x] = conn[x]
  BY <1>1, <1>4, <1>5 DEF TypeOK
<1>9. PICK T : T = [conn |-> conn', list |-> list', desc |-> desc',
                    sessions |-> sessions', active |-> active']
  OBVIOUS
<1>10. Becomes(T)
  BY <1>9 DEF Becomes
<1>11. T.conn = conn' /\ T.list = list' /\ T.desc = desc /\ T.sessions = sessions
  BY <1>4, <1>9
<1>12. OnlyOwner(T)
  BY <1>1, <1>5, <1>7, <1>11 DEF Apart, OnlyOwner
<1>13. OwnerSockets(T, udpIo)
  <2>1. OwnerSlot \in Slots \ {s}
    BY <1>5, Kinds DEF Slots
  <2>2. conn'[OwnerSlot] = conn[OwnerSlot] /\ OwnerSlot \in Linked(list') <=> OwnerSlot \in Linked(list)
    BY <1>7, <1>8, <2>1
  <2> QED  BY <1>1, <1>11, <2>1, <2>2, <1>7, <1>8 DEF Apart, OwnerSockets
<1>14. ExplicitFields(T)
  BY <1>1, <1>5, <1>6, <1>7, <1>8, <1>11 DEF Apart, ExplicitFields, Slots
<1>15. SessionsApart(T) /\ SessionsOpen(T)
  BY <1>1, <1>11 DEF Apart, SessionsApart, SessionsOpen
<1>16. Apart(T, udpIo)
  BY <1>12, <1>13, <1>14, <1>15 DEF Apart
<1> QED  BY <1>4, <1>10, <1>16 DEF ApartStep

(* A close of any connection. *)
LEMMA CloseKeepsApart ==
  ASSUME IInv, Apart(Stack, udpIo), fault # "null node",
         NEW c \in Linked(list), Becomes(CloseFunction(Stack, c)), UNCHANGED <<udpIo, fault>>
  PROVE  ApartStep
<1>1. WellFormed(Stack) /\ Stack \in Stacks /\ Stack.list = list /\ c \in Slots
  BY StackIsWellFormed DEF WellFormed, WellFormedExcept, IInv, TypeOK
<1>2. PICK T : T = CloseFunction(Stack, c)
  OBVIOUS
<1>3. CASE c \in ExplicitSlots
  <2>1. PICK D : D = {c}
    OBVIOUS
  <2>2. T = Discard(Stack, D) /\ D \subseteq Linked(Stack.list)
    BY <1>1, <1>2, <1>3, <2>1 DEF CloseFunction
  <2>3. Apart(T, udpIo)
    BY <1>1, <2>2, DiscardKeepsApart
  <2> QED  BY <1>2, <2>3 DEF ApartStep
<1>4. CASE c \notin ExplicitSlots
  <2>1. c = OwnerSlot
    BY <1>1, <1>4, Kinds DEF Apart, OnlyOwner
  <2>2. T = CloseIoConnection(Stack, OwnerSlot) /\ OwnerSlot \in Linked(Stack.list)
    BY <1>1, <1>2, <1>4, <2>1 DEF CloseFunction
  <2>3. Apart(T, udpIo)
    BY <1>1, <2>2, CloseOwnerKeepsApart
  <2> QED  BY <1>2, <2>3 DEF ApartStep
<1> QED  BY <1>3, <1>4

(* Every step of the connection manager. *)
LEMMA ConnectionManagerKeepsApart ==
  ASSUME Shipped, IInv, Apart(Stack, udpIo), fault # "null node", CMNext
  PROVE  ApartStep
<1>1. /\ WellFormed(Stack) /\ Stack.conn = conn /\ Stack.list = list
      /\ TypeOK /\ conn \in [Slots -> CipConnectionObject]
      /\ \A s \in Slots : conn[s] \in CipConnectionObject
      /\ Linked(list) \subseteq Slots /\ cursor \subseteq Linked(list)
  BY StackIsWellFormed DEF IInv, TypeOK
<1>2. ASSUME NEW o \in Originators, NEW n \in Serials,
             NEW point \in {OwnerPoint, InputPoint, ListenPoint},
             NEW type \in TtoOTypes, ForwardOpenIo(o, n, point, type)
      PROVE  ApartStep
  BY <1>2, ForwardOpenIoKeepsApart
<1>3. ASSUME NEW o \in Originators, NEW n \in Serials, NEW h \in SessionHandles,
             ForwardOpenClass3(o, n, h)
      PROVE  ApartStep
  BY <1>3, ForwardOpenClass3KeepsApart
<1>4. ASSUME NEW o \in Originators, NEW n \in Serials, ForwardClose(o, n)
      PROVE  ApartStep
  BY <1>4, CloseKeepsApart DEF ForwardClose, Front
<1>5. ASSUME NEW c, NEW t \in IoSlots, NEW late, ReceiveIoData(c, t, late)
      PROVE  ApartStep
  <2>1. t \in Slots /\ conn' = [conn EXCEPT ![t] = Received(conn[t], late)]
    BY <1>5, Kinds DEF ReceiveIoData, IoSlots
  <2>2. \A s \in Slots : /\ conn'[s].consuming = conn[s].consuming
                         /\ conn'[s].producing = conn[s].producing
                         /\ conn'[s].session = conn[s].session
    BY <1>1, <2>1 DEF Received, CipConnectionObject
  <2> QED  BY <1>1, <1>5, <2>2, InPlaceKeepsApart DEF ReceiveIoData
<1>6. ASSUME NEW c \in IoSlots, ReceiveOnClosedDescriptor(c)
      PROVE  ApartStep
  <2>1. c \in Linked(list) /\ c \notin ExplicitSlots
    BY <1>6 DEF ReceiveOnClosedDescriptor, Front, IoSlots
  <2>2. CASE Panic("freed node")
    BY <2>2, PanicKeepsApart
  <2>3. CASE Becomes(CloseIoConnection(Stack, c)) /\ UNCHANGED <<cursor, udpIo, fault>>
    BY <2>1, <2>3, CloseKeepsApart DEF CloseFunction
  <2> QED  BY <1>6, <2>2, <2>3 DEF ReceiveOnClosedDescriptor
<1>7. ASSUME NEW c, ReceiveExplicit(c)
      PROVE  ApartStep
  <2>1. \A s \in Slots : /\ conn'[s].consuming = conn[s].consuming
                         /\ conn'[s].producing = conn[s].producing
                         /\ conn'[s].session = conn[s].session
    BY <1>1, <1>7 DEF ReceiveExplicit, CipConnectionObject
  <2> QED  BY <1>1, <1>7, <2>1, InPlaceKeepsApart DEF ReceiveExplicit
<1>8. CASE ManageConnections
  BY <1>1, <1>8, InPlaceKeepsApart DEF ManageConnections
<1>9. ASSUME NEW c \in cursor, VisitAges(c)
      PROVE  ApartStep
  <2>1. \/ conn' = [conn EXCEPT ![c].watchdog = conn[c].watchdog - 1]
        \/ conn' = conn
    BY <1>9 DEF VisitAges
  <2>2. \A s \in Slots : /\ conn'[s].consuming = conn[s].consuming
                         /\ conn'[s].producing = conn[s].producing
                         /\ conn'[s].session = conn[s].session
    <3>1. PICK w : w = conn[c].watchdog - 1
      OBVIOUS
    <3>2. CASE conn' = [conn EXCEPT ![c].watchdog = w]
      BY <1>1, <3>2 DEF CipConnectionObject
    <3>3. CASE conn' = conn
      BY <3>3
    <3> QED  BY <2>1, <3>1, <3>2, <3>3
  <2> QED  BY <1>1, <1>9, <2>2, InPlaceKeepsApart DEF VisitAges
<1>10. ASSUME NEW c \in cursor, VisitTimesOutIo(c)
       PROVE  ApartStep
  <2>1. c \in Linked(list) /\ c \in IoSlots /\ conn[c].state = "Established"
    BY <1>1, <1>10 DEF VisitTimesOutIo, Expired
  <2>2. c = OwnerSlot
    BY <1>1, <2>1 DEF Apart, OnlyOwner
  <2>3. PICK T : T = HandleIoConnectionTimeOut(Stack, OwnerSlot)
    OBVIOUS
  <2>4. Panic("freed node") \/ (Becomes(T) /\ UNCHANGED <<udpIo, fault>>)
    BY <1>10, <2>2, <2>3 DEF VisitTimesOutIo
  <2>5. Apart(T, udpIo)
    BY <1>1, <2>1, <2>2, <2>3, OwnerTimeOutKeepsApart
  <2> QED  BY <2>4, <2>5, PanicKeepsApart DEF ApartStep
<1>11. ASSUME NEW c \in cursor, VisitTimesOutClass3(c)
       PROVE  ApartStep
  <2>1. CASE fault' = "hung" /\ UNCHANGED <<conn, list, cursor, desc, udpIo, sessions, active>>
    BY <1>1, <2>1, InPlaceKeepsApart
  <2>2. PICK T : T = Class3ConnectionTimeout(Stack, c)
    OBVIOUS
  <2>3. CASE Becomes(T) /\ UNCHANGED <<udpIo, fault>>
    <3>1. c \in ExplicitSlots /\ c \in Linked(Stack.list)
      BY <1>1, <1>11 DEF VisitTimesOutClass3
    <3>2. Apart(T, udpIo)
      BY <1>1, <2>2, <3>1, Class3TimeoutKeepsApart
    <3> QED  BY <2>3, <3>2 DEF ApartStep
  <2> QED  BY <1>11, <2>1, <2>2, <2>3 DEF VisitTimesOutClass3
<1> QED  BY <1>2, <1>3, <1>4, <1>5, <1>6, <1>7, <1>8, <1>9, <1>10, <1>11
         DEF CMNext, Visit

(* A step of the TCP sockets or the session table. *)
LEMMA NetworkStepKeepsApart ==
  ASSUME Apart(Stack, udpIo), fault # "null node",
         UNCHANGED <<conn, list, udpIo, fault>>,
         OwnerSlot \in Linked(list) => desc'[udpIo] = "udp",
         \A g, h \in SessionHandles :
           sessions'[g] # kEipInvalidSocket /\ sessions'[g] = sessions'[h] => g = h,
         \A h \in SessionHandles :
           sessions'[h] # kEipInvalidSocket =>
             sessions'[h] \in Descriptors /\ desc'[sessions'[h]] \in Originators
  PROVE  ApartStep
<1>1. PICK S : S = Stack
  OBVIOUS
<1>2. Apart(S, udpIo) /\ S.conn = conn /\ S.list = list
  BY <1>1 DEF Stack
<1>3. PICK T : T = [conn |-> conn', list |-> list', desc |-> desc',
                    sessions |-> sessions', active |-> active']
  OBVIOUS
<1>4. /\ Becomes(T) /\ T.conn = S.conn /\ T.list = S.list /\ T.desc = desc'
      /\ T.sessions = sessions'
  BY <1>2, <1>3 DEF Becomes
<1>5. OnlyOwner(T) /\ ExplicitFields(T)
  BY <1>2, <1>4 DEF Apart, OnlyOwner, ExplicitFields
<1>6. OwnerSockets(T, udpIo)
  BY <1>2, <1>4 DEF Apart, OwnerSockets
<1>7. SessionsApart(T)
  BY <1>4 DEF SessionsApart
<1>8. SessionsOpen(T)
  BY <1>4 DEF SessionsOpen
<1> QED  BY <1>4, <1>5, <1>6, <1>7, <1>8 DEF Apart, ApartStep

(* Every step of the encapsulation layer. *)
LEMMA EncapsulationKeepsApart ==
  ASSUME IInv, Apart(Stack, udpIo), fault # "null node", EncapNext
  PROVE  ApartStep
<1>1. /\ WellFormed(Stack) /\ Stack \in Stacks /\ Stack.conn = conn /\ Stack.list = list
      /\ Stack.desc = desc /\ Stack.sessions = sessions
      /\ TypeOK /\ desc \in [Descriptors -> Originators \cup {"free", "udp"}]
      /\ sessions \in [SessionHandles -> Sockets]
  BY StackIsWellFormed DEF IInv, TypeOK, WellFormed, WellFormedExcept
<1>4. /\ OwnerSlot \in Linked(list) =>
           /\ udpIo \in Descriptors /\ desc[udpIo] = "udp"
           /\ conn[OwnerSlot].consuming = udpIo
           /\ conn[OwnerSlot].producing = udpIo
      /\ \A g, h \in SessionHandles :
           sessions[g] # kEipInvalidSocket /\ sessions[g] = sessions[h] => g = h
      /\ \A h \in SessionHandles :
           sessions[h] # kEipInvalidSocket =>
             sessions[h] \in Descriptors /\ desc[sessions[h]] \in Originators
  <2>1. PICK S : S = Stack
    OBVIOUS
  <2> QED  BY <1>1, <2>1 DEF Apart, OwnerSockets, SessionsApart, SessionsOpen
<1>5. ASSUME NEW o \in Originators, AcceptTcp(o)
      PROVE  ApartStep
  <2>1. CASE Panic("assertion")
    BY <2>1, PanicKeepsApart
  <2>2. ASSUME NEW d \in Descriptors, desc[d] = "free", desc' = [desc EXCEPT ![d] = o],
               UNCHANGED <<conn, list, cursor, udpIo, sessions, active, fault>>
        PROVE  ApartStep
    <3>1. \A f \in Descriptors : desc'[f] = IF f = d THEN o ELSE desc[f]
      BY <1>1, <2>2
    <3>2. \A h \in SessionHandles :
            sessions[h] # kEipInvalidSocket => desc'[sessions[h]] \in Originators
      BY <1>4, <3>1
    <3>3. OwnerSlot \in Linked(list) => desc'[udpIo] = "udp"
      BY <1>4, <2>2, <3>1
    <3> QED  BY <1>4, <2>2, <3>2, <3>3, NetworkStepKeepsApart
  <2> QED  BY <1>5, <2>1, <2>2 DEF AcceptTcp, Lowest
<1>6. ASSUME NEW d \in Descriptors, RegisterSession(d)
      PROVE  ApartStep
  <2>1. PICK h \in SessionHandles : sessions' = [sessions EXCEPT ![h] = d]
    BY <1>6 DEF RegisterSession, Lowest
  <2>2. /\ desc[d] \in Originators /\ \A g \in SessionHandles : sessions[g] # d
        /\ UNCHANGED <<conn, list, cursor, desc, udpIo, active, fault>>
    BY <1>6, Kinds DEF RegisterSession, RegisteredSockets
  <2>3. \A g \in SessionHandles : sessions'[g] = IF g = h THEN d ELSE sessions[g]
    BY <1>1, <2>1
  <2> QED  BY <1>4, <2>2, <2>3, NetworkStepKeepsApart
<1>7. ASSUME NEW d \in Descriptors, CloseUnregisteredTcp(d)
      PROVE  ApartStep
  <2>1. /\ desc[d] \in Originators /\ desc' = [desc EXCEPT ![d] = "free"]
        /\ \A g \in SessionHandles : sessions[g] # d
        /\ UNCHANGED <<conn, list, cursor, udpIo, sessions, active, fault>>
    BY <1>7, Kinds DEF CloseUnregisteredTcp, RegisteredSockets
  <2>2. \A f \in Descriptors : desc'[f] = IF f = d THEN "free" ELSE desc[f]
    BY <1>1, <2>1
  <2>3. \A h \in SessionHandles :
          sessions[h] # kEipInvalidSocket => desc'[sessions[h]] \in Originators
    BY <1>4, <2>1, <2>2
  <2>4. OwnerSlot \in Linked(list) => desc'[udpIo] = "udp"
    BY <1>4, <2>1, <2>2, Kinds
  <2> QED  BY <1>4, <2>1, <2>3, <2>4, NetworkStepKeepsApart
<1>8. ASSUME NEW h \in SessionHandles, EndSession(h)
      PROVE  ApartStep
  <2>1. PICK H : H = {h}
    OBVIOUS
  <2>2. PICK S : S = CloseSessions(Stack, H)
    OBVIOUS
  <2>3. Becomes(S) /\ UNCHANGED <<udpIo, fault>>
    BY <1>8, <2>1, <2>2 DEF EndSession
  <2>4. Apart(S, udpIo)
    BY <1>1, <2>1, <2>2, CloseSessionsKeepsApart
  <2> QED  BY <2>3, <2>4 DEF ApartStep
<1>9. ASSUME NEW h \in SessionHandles, EncapsulationInactivity(h)
      PROVE  ApartStep
  <2>1. PICK D : D = FirstClass3OfSession(Stack, h - 1)
    OBVIOUS
  <2>2. D \subseteq Linked(Stack.list)
    BY <2>1 DEF FirstClass3OfSession, Front
  <2>3. PICK S : S = Discard(Stack, D)
    OBVIOUS
  <2>4. Apart(S, udpIo)
    BY <1>1, <2>2, <2>3, DiscardKeepsApart
  <2>10. WellFormed(S)
    <3>1. PICK none : none = {}
      OBVIOUS
    <3>2. WellFormedExcept(Stack, none)
      BY <1>1, <3>1 DEF WellFormed
    <3>3. \A s \in none : s \in D \/ s \in none
      OBVIOUS
    <3>4. WellFormedExcept(S, none)
      BY <2>3, <3>2, <3>3, DiscardIsSafe, Zenon
    <3> QED  BY <3>1, <3>4 DEF WellFormed
  <2>5. PICK H : H = {h}
    OBVIOUS
  <2>6. PICK R : R = CloseSessions(S, H)
    OBVIOUS
  <2>7. Becomes(R) /\ UNCHANGED <<udpIo, fault>>
    BY <1>9, <2>1, <2>3, <2>5, <2>6 DEF EncapsulationInactivity
  <2>8. Apart(R, udpIo)
    BY <2>4, <2>5, <2>10, <2>6, CloseSessionsKeepsApart
  <2> QED  BY <2>7, <2>8 DEF ApartStep
<1> QED  BY <1>5, <1>6, <1>7, <1>8, <1>9 DEF EncapNext

(* Every step. *)
LEMMA StepKeepsApart ==
  ASSUME Shipped, IInv, Apart(Stack, udpIo), fault # "null node", [Next]_cmVars
  PROVE  (Apart(Stack, udpIo) /\ fault # "null node")'
<1>1. /\ WellFormed(Stack) /\ Stack \in Stacks /\ TypeOK /\ Stack.list = list
      /\ Stack.sessions = sessions
  BY StackIsWellFormed DEF IInv, WellFormed, WellFormedExcept
<1>2. ASSUME CMNext  PROVE ApartStep
  BY <1>2, ConnectionManagerKeepsApart
<1>3. ASSUME EncapNext  PROVE ApartStep
  BY <1>3, EncapsulationKeepsApart
<1>4. ASSUME UNCHANGED <<conn, list, desc, sessions, udpIo, fault>>  PROVE ApartStep
  BY <1>1, <1>4, InPlaceKeepsApart
<1>5. ASSUME ResetDevice  PROVE ApartStep
  <2>1. PICK D : D = Linked(list)
    OBVIOUS
  <2>2. PICK S : S = Discard(Stack, D)
    OBVIOUS
  <2>3. /\ conn' = S.conn /\ list' = S.list /\ desc' = S.desc
        /\ UNCHANGED <<udpIo, sessions, fault>>
    BY <1>5, <2>1, <2>2 DEF ResetDevice
  <2>4. Apart(S, udpIo) /\ S.sessions = sessions
    <3>1. S.sessions = sessions
      BY <1>1, <2>2 DEF Discard
    <3>2. D \subseteq Linked(Stack.list)
      BY <1>1, <2>1
    <3> QED  BY <1>1, <2>2, <3>1, <3>2, DiscardKeepsApart
  <2>5. PICK T : T = [conn |-> conn', list |-> list', desc |-> desc',
                      sessions |-> sessions', active |-> active']
    OBVIOUS
  <2>6. /\ Becomes(T)
        /\ T.conn = S.conn /\ T.list = S.list /\ T.desc = S.desc
        /\ T.sessions = S.sessions
    BY <2>3, <2>4, <2>5 DEF Becomes
  <2>7. Apart(T, udpIo)
    BY <2>4, <2>6 DEF Apart, OnlyOwner, OwnerSockets, ExplicitFields, SessionsApart,
       SessionsOpen
  <2> QED  BY <2>3, <2>6, <2>7 DEF ApartStep
<1>6. ASSUME PanicReboot \/ Restart PROVE ApartStep
  BY <1>6, PanicKeepsApart DEF PanicReboot, Restart
<1>7. ApartStep
  BY <1>2, <1>3, <1>4, <1>5, <1>6
     DEF Next, NotifyLinkDown, ResetDeviceToInitialConfiguration, cmVars
<1>8. PICK T, v : Becomes(T) /\ udpIo' = v /\ Apart(T, v) /\ fault' # "null node"
  BY <1>7 DEF ApartStep
<1>9. /\ Stack'.conn = T.conn /\ Stack'.list = T.list /\ Stack'.desc = T.desc
      /\ Stack'.sessions = T.sessions
  BY <1>8 DEF Becomes, Stack
<1>10. Apart(Stack', udpIo')
  BY <1>8, <1>9 DEF Apart, OnlyOwner, OwnerSockets, ExplicitFields, SessionsApart,
     SessionsOpen
<1> QED  BY <1>8, <1>10


(* What the steps keep, from the start. *)
LEMMA ApartInvariance ==
  ASSUME Shipped
  PROVE  Spec => [](IInv /\ Apart(Stack, udpIo) /\ fault # "null node")
<1>1. Init => IInv /\ Apart(Stack, udpIo) /\ fault # "null node"
  <2> SUFFICES ASSUME CMInit
               PROVE  IInv /\ Apart(Stack, udpIo) /\ fault # "null node"
    BY DEF Init
  <2>1. Linked(Stack.list) = {}
    BY DEF CMInit, Stack, EmptyList, Linked
  <2>2. \A h \in SessionHandles : Stack.sessions[h] = kEipInvalidSocket
    BY DEF CMInit, Stack
  <2>3. Apart(Stack, udpIo)
    BY <2>1, <2>2, EmptyTablesApart
  <2> QED  BY <2>3, EmptyStateIsSafe DEF CMInit
<1>2. IInv /\ Apart(Stack, udpIo) /\ fault # "null node" /\ [Next]_cmVars
        => IInv' /\ Apart(Stack, udpIo)' /\ (fault # "null node")'
  BY StepIsSafe, StepKeepsApart
<1> QED  BY <1>1, <1>2, PTL DEF Spec

(* With one connection point for the three types, the sockets an           *)
(* established owner holds are the shared descriptor, open, and stay so     *)
(* until its end, whatever is opened and closed around it                   *)
(* (CreateUdpSocket, CloseUdpSocket).                                       *)
THEOREM OwnerHoldsItsSockets == Shipped => (Spec => []OwnerKeepsItsSockets)
<1> SUFFICES ASSUME Shipped
             PROVE  Spec => []OwnerKeepsItsSockets
  OBVIOUS
<1>1. IInv /\ Apart(Stack, udpIo) /\ fault # "null node" => OwnerKeepsItsSockets
  <2> SUFFICES ASSUME IInv, Apart(Stack, udpIo), conn[OwnerSlot].state = "Established"
               PROVE  /\ udpIo = conn[OwnerSlot].consuming
                      /\ udpIo = conn[OwnerSlot].producing
                      /\ desc[udpIo] = "udp"
    BY DEF OwnerKeepsItsSockets
  <2>1. OwnerSlot \in Linked(list)
    BY DEF IInv, ListConsistent, Slots
  <2>2. Stack.list = list /\ Stack.conn = conn /\ Stack.desc = desc
    BY DEF Stack
  <2> QED  BY <2>1, <2>2 DEF Apart, OwnerSockets
<1> QED  BY <1>1, ApartInvariance, PTL

(* With one connection point, no close of an I/O connection closes a        *)
(* descriptor that has become the socket of a session                       *)
(* (CloseCommunicationChannelsAndRemoveFromActiveConnectionsList).          *)
THEOREM SessionsKeepTheirSockets == Shipped => (Spec => []SessionSocketsOpen)
<1> SUFFICES ASSUME Shipped
             PROVE  Spec => []SessionSocketsOpen
  OBVIOUS
<1>1. IInv /\ Apart(Stack, udpIo) /\ fault # "null node" => SessionSocketsOpen
  <2> SUFFICES ASSUME Apart(Stack, udpIo), NEW h \in SessionHandles,
                      sessions[h] # kEipInvalidSocket
               PROVE  desc[sessions[h]] \in Originators
    BY DEF SessionSocketsOpen, RegisteredSockets
  <2>1. Stack.sessions = sessions /\ Stack.desc = desc
    BY DEF Stack
  <2> QED  BY <2>1 DEF Apart, SessionsOpen
<1> QED  BY <1>1, ApartInvariance, PTL

(* With one connection point, the node pool, which has one node per point   *)
(* and not per object, never runs out (CipConnectionObjectListArrayAllocator). *)
THEOREM NodesSuffice == Shipped => (Spec => []NoNullNode)
<1> SUFFICES ASSUME Shipped
             PROVE  Spec => []NoNullNode
  OBVIOUS
<1>1. IInv /\ Apart(Stack, udpIo) /\ fault # "null node" => NoNullNode
  BY DEF NoNullNode
<1> QED  BY <1>1, ApartInvariance, PTL

=============================================================================
