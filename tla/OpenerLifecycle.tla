-------------------------- MODULE OpenerLifecycle --------------------------
(***************************************************************************)
(* The life of the OpENer task.  The event task handles, in order, link    *)
(* and address events (main.c) and starts the stack; the OpENer task ends  *)
(* it when it finds the link down (opener.c).  The two meet in             *)
(* opener_init_mutex, held for the whole of opener_init and for the last   *)
(* assignments of opener_thread, and in the flags around it.               *)
(***************************************************************************)
EXTENDS Naturals, Sequences

CONSTANT EventQueueLength   \* events the default event loop can hold

ASSUME QueueAssumption == EventQueueLength \in Nat \ {0}

VARIABLES
  carrier,                 \* the cable
  events,                  \* the queue of the default event loop
  link,                    \* netif_is_link_up
  address,                 \* has an address been obtained since the link is up?
  s_netif,                 \* s_netif # NULL
  s_services_initialized,
  opener_initialized,
  g_end_stack,
  thread,                  \* where opener_thread is
  stack,                   \* is the CIP stack initialised?
  network,                 \* did NetworkHandlerInitialize succeed?
  static,                  \* is the address configured, so that it is there at once?
  erred                    \* history: has the loop failed since the last start?

netVars == <<carrier, address, static>>
mainVars == <<link, s_netif, s_services_initialized>>
openerVars == <<opener_initialized, g_end_stack, thread, stack, network, erred>>
lifeVars == <<carrier, events, link, address, s_netif, s_services_initialized,
              opener_initialized, g_end_stack, thread, stack, network, static,
              erred>>

Init ==
  /\ carrier = FALSE /\ link = FALSE /\ address = FALSE
  /\ events = <<>>
  /\ s_netif = FALSE /\ s_services_initialized = FALSE
  /\ opener_initialized = FALSE /\ g_end_stack = 0
  /\ thread = "none" /\ stack = FALSE /\ network = FALSE
  /\ static \in BOOLEAN
  /\ erred = FALSE

EventKinds == {"CONNECTED", "DISCONNECTED", "GOT_IP"}

(* esp_event_post, which waits for room. *)
Post(e) ==
  /\ Len(events) < EventQueueLength
  /\ events' = Append(events, e)

-----------------------------------------------------------------------------
(* The network.  The Ethernet driver reports the cable. *)
CableChanges ==
  /\ carrier' = ~ carrier
  /\ Post(IF carrier THEN "DISCONNECTED" ELSE "CONNECTED")
  /\ UNCHANGED <<address, static, mainVars, openerVars>>

Ending ==
  \/ thread \in {"finished", "shut down"}
  \/ (thread = "looping" /\ g_end_stack = 1)

(* A static address comes with the link; one from DHCP takes so long that  *)
(* no event is left and no task is ending.                                 *)
AddressPossible ==
  /\ link
  /\ static \/ (events = <<>> /\ ~ Ending)

ObtainAddress ==
  /\ AddressPossible /\ ~ address
  /\ address' = TRUE
  /\ Post("GOT_IP")
  /\ UNCHANGED <<carrier, static, mainVars, openerVars>>

(* IP_EVENT_ETH_GOT_IP can fire multiple times. *)
RenewAddress ==
  /\ AddressPossible /\ address
  /\ Post("GOT_IP")
  /\ UNCHANGED <<netVars, mainVars, openerVars>>

-----------------------------------------------------------------------------
(* The event task. *)
Takes(e) ==
  /\ events # <<>>
  /\ Head(events) = e
  /\ events' = Tail(events)

HandleConnected ==
  /\ Takes("CONNECTED")
  /\ link' = TRUE
  /\ UNCHANGED <<netVars, s_netif, s_services_initialized, openerVars>>

(* The services kept over a loss of the link. *)
HandleDisconnectedKeepingServices ==
  /\ Takes("DISCONNECTED")
  /\ link' = FALSE
  /\ address' = FALSE
  /\ UNCHANGED <<carrier, static, s_netif, s_services_initialized, openerVars>>

HandleDisconnected ==
  /\ Takes("DISCONNECTED")
  /\ link' = FALSE
  /\ address' = FALSE
  /\ s_services_initialized' = FALSE
  /\ UNCHANGED <<carrier, static, s_netif, openerVars>>

(* opener_init: not at all if the old task is still there, not now if the  *)
(* link is down.  The task starts even if the network handler failed,      *)
(* whose result is kept in a variable of an inner block.                   *)
OpenerInit ==
  \/ /\ opener_initialized
     /\ UNCHANGED openerVars
  \/ /\ ~ opener_initialized /\ ~ link
     /\ g_end_stack' = 1
     /\ UNCHANGED <<opener_initialized, thread, stack, network, erred>>
  \/ /\ ~ opener_initialized /\ link
     /\ network' \in BOOLEAN
     /\ erred' = FALSE
     /\ stack' = TRUE
     /\ g_end_stack' = 0
     /\ thread' = "looping"
     /\ opener_initialized' = TRUE

HandleGotIp ==
  /\ Takes("GOT_IP")
  /\ s_netif' = (s_netif \/ link)
  /\ IF s_netif' /\ ~ s_services_initialized
       THEN OpenerInit /\ s_services_initialized' = TRUE
       ELSE UNCHANGED <<s_services_initialized, openerVars>>
  /\ UNCHANGED <<netVars, link>>

HandleEvent == HandleConnected \/ HandleDisconnected \/ HandleGotIp

-----------------------------------------------------------------------------
(* opener_thread *)
EnvironmentUnchanged == UNCHANGED <<netVars, events, mainVars>>

(* The two passes of the loop that set g_end_stack; the others change      *)
(* nothing.                                                                *)
EndStack ==
  /\ thread = "looping" /\ g_end_stack = 0
  /\ g_end_stack' = 1
  /\ UNCHANGED <<opener_initialized, thread, stack, network>>
  /\ EnvironmentUnchanged

ProcessCyclicFails ==
  /\ EndStack
  /\ erred' = TRUE

(* The link looked at only after an error. *)
NoticeLinkDownAfterError ==
  /\ EndStack
  /\ ~ link /\ ~ network
  /\ UNCHANGED erred

NoticeLinkDown ==
  /\ EndStack
  /\ ~ link
  /\ UNCHANGED erred

(* NetworkHandlerFinish *)
FinishNetwork ==
  /\ thread = "looping" /\ g_end_stack = 1
  /\ thread' = "finished"
  /\ network' = FALSE
  /\ UNCHANGED <<opener_initialized, g_end_stack, stack, erred>>
  /\ EnvironmentUnchanged

(* opener_initialized cleared before the stack is shut down. *)
ShutdownClearingEarly ==
  /\ thread = "finished"
  /\ thread' = "shut down"
  /\ opener_initialized' = FALSE
  /\ UNCHANGED <<g_end_stack, stack, network, erred>>
  /\ EnvironmentUnchanged

ShutdownCipStack ==
  /\ thread = "finished"
  /\ thread' = "shut down"
  /\ stack' = FALSE
  /\ UNCHANGED <<opener_initialized, g_end_stack, network, erred>>
  /\ EnvironmentUnchanged

EndThread ==
  /\ thread = "shut down"
  /\ thread' = "none"
  /\ opener_initialized' = FALSE
  /\ UNCHANGED <<g_end_stack, stack, network, erred>>
  /\ EnvironmentUnchanged

OpenerThread == NoticeLinkDown \/ FinishNetwork \/ ShutdownCipStack \/ EndThread

-----------------------------------------------------------------------------
Next ==
  \/ CableChanges
  \/ ObtainAddress
  \/ RenewAddress
  \/ HandleEvent
  \/ OpenerThread
  \/ ProcessCyclicFails

Spec == Init /\ [][Next]_lifeVars

(* The event task waits only for the mutex, which is held for a moment,    *)
(* the loop of opener_thread for 10 ms at most; a linked device gets an    *)
(* address.  Nothing is assumed of the cable or of failures.               *)
Fairness ==
  /\ WF_lifeVars(HandleEvent)
  /\ WF_lifeVars(OpenerThread)
  /\ WF_lifeVars(ObtainAddress)

FairSpec == Spec /\ Fairness

-----------------------------------------------------------------------------
LifecycleTypeOK ==
  /\ carrier \in BOOLEAN /\ link \in BOOLEAN /\ address \in BOOLEAN
  /\ events \in Seq(EventKinds)
  /\ Len(events) <= EventQueueLength
  /\ s_netif \in BOOLEAN /\ s_services_initialized \in BOOLEAN
  /\ opener_initialized \in BOOLEAN
  /\ g_end_stack \in {0, 1}
  /\ thread \in {"none", "looping", "finished", "shut down"}
  /\ stack \in BOOLEAN /\ network \in BOOLEAN
  /\ static \in BOOLEAN /\ erred \in BOOLEAN

(* A stack is initialised only when the one before has been shut down and  *)
(* its task is gone, however late the old task notices the loss of the     *)
(* link and however fast the link comes back (opener_initialized).         *)
NoInitOverOldStack ==
  [][thread' = "looping" /\ thread # "looping" => thread = "none" /\ ~ stack]_lifeVars

(* Without a link the task ends and stays away: no late address event      *)
(* starts it again.                                                        *)
EndsWithoutLink == <>[](~ link) => <>[](thread = "none" /\ ~ stack)

(* A cable that stays in brings the stack back for good, unless its loop   *)
(* fails: however often the link flapped before, the last loss of the link *)
(* is handled, the old task gone, and a new one started, before an address *)
(* from DHCP is handled.                                                   *)
CarrierStays == <>[]carrier
StackRuns == thread = "looping" /\ g_end_stack = 0

StackComesBackWithDhcp == ~ static /\ CarrierStays => <>[](StackRuns \/ erred)

=============================================================================
