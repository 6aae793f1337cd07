--------------------------- MODULE Encapsulation ---------------------------
(***************************************************************************)
(* The encapsulation layer: TCP sockets of the originators and the session *)
(* table.  Ending a session closes its class 3 connection, so the module   *)
(* extends the connection manager and shares its state.                    *)
(***************************************************************************)
EXTENDS ConnectionManager

RegisteredSockets == {sessions[h] : h \in SessionHandles} \ {kEipInvalidSocket}

(* CheckAndHandleTcpListenerSocket: a socket timer must be free, and each  *)
(* registered session occupies one.                                        *)
AcceptTcp(o) ==
  /\ Running
  /\ \E d \in Lowest({f \in Descriptors : desc[f] = "free"}) :
       IF \E h \in SessionHandles : sessions[h] = kEipInvalidSocket
       THEN /\ desc' = [desc EXCEPT ![d] = o]
            /\ UNCHANGED <<conn, list, cursor, udpIo, sessions, active, fault>>
       ELSE Panic("assertion")

(* HandleReceivedRegisterSessionCommand: one session per socket *)
RegisterSession(d) ==
  /\ Running
  /\ desc[d] \in Originators
  /\ d \notin RegisteredSockets
  /\ \E h \in Lowest({g \in SessionHandles : sessions[g] = kEipInvalidSocket}) :
       sessions' = [sessions EXCEPT ![h] = d]
  /\ UNCHANGED <<conn, list, cursor, desc, udpIo, active, fault>>

(* HandleReceivedUnregisterSessionCommand; CloseTcpSocket and RemoveSession *)
(* after the peer has closed the socket do the same.                        *)
EndSession(h) ==
  /\ Running
  /\ sessions[h] # kEipInvalidSocket
  /\ desc[sessions[h]] \in Originators
  /\ Becomes(CloseSessions(Stack, {h}))
  /\ UNCHANGED <<cursor, udpIo, fault>>

(* The peer closes a socket that never registered a session. *)
CloseUnregisteredTcp(d) ==
  /\ Running
  /\ desc[d] \in Originators
  /\ d \notin RegisteredSockets
  /\ desc' = [desc EXCEPT ![d] = "free"]
  /\ UNCHANGED <<conn, list, cursor, udpIo, sessions, active, fault>>

(* CheckEncapsulationInactivity: GetSessionFromSocket returns the index of *)
(* the table entry, one less than the session's handle, and the class 3    *)
(* connection of that handle is closed before the session's own.           *)
EncapsulationInactivity(h) ==
  /\ Running
  /\ sessions[h] # kEipInvalidSocket
  /\ Becomes(CloseSessions(Discard(Stack, FirstClass3OfSession(Stack, h - 1)), {h}))
  /\ UNCHANGED <<cursor, udpIo, fault>>

EncapNext ==
  \/ \E o \in Originators : AcceptTcp(o)
  \/ \E d \in Descriptors : RegisterSession(d) \/ CloseUnregisteredTcp(d)
  \/ \E h \in SessionHandles : EndSession(h) \/ EncapsulationInactivity(h)

=============================================================================
