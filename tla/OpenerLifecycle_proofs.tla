----------------------- MODULE OpenerLifecycle_proofs -----------------------
(* Proofs about OpenerLifecycle for any length of the event queue. *)
EXTENDS OpenerLifecycle, SequenceTheorems, TLAPS

(* What the mutex and the order of the last assignments of opener_thread   *)
(* keep: the flag stands for the task, and the stack for its first stages. *)
LifecycleInv ==
  /\ LifecycleTypeOK
  /\ opener_initialized <=> thread # "none"
  /\ stack <=> thread \in {"looping", "finished"}
  /\ thread \in {"finished", "shut down"} => g_end_stack = 1

(* A queue that has room holds one event more after a post. *)
LEMMA PostKeepsQueue ==
  ASSUME LifecycleTypeOK, NEW e \in EventKinds, Post(e)
  PROVE  /\ events' \in Seq(EventKinds)
         /\ Len(events') <= EventQueueLength
<1>1. events \in Seq(EventKinds)
  BY DEF LifecycleTypeOK
<1>2. Append(events, e) \in Seq(EventKinds) /\ Len(Append(events, e)) = Len(events) + 1
  BY <1>1, AppendProperties
<1>3. Len(events) \in Nat
  BY <1>1, LenProperties
<1>. QED
  BY <1>2, <1>3, QueueAssumption DEF Post

(* And one less after the event task has taken one. *)
LEMMA TakesKeepsQueue ==
  ASSUME LifecycleTypeOK, NEW e, Takes(e)
  PROVE  /\ events' \in Seq(EventKinds)
         /\ Len(events') <= EventQueueLength
<1>1. events \in Seq(EventKinds) /\ Len(events) <= EventQueueLength
  BY DEF LifecycleTypeOK
<1>2. Tail(events) \in Seq(EventKinds) /\ Len(Tail(events)) = Len(events) - 1
  BY <1>1, HeadTailProperties DEF Takes
<1>3. Len(events) \in Nat
  BY <1>1, LenProperties
<1>. QED
  BY <1>1, <1>2, <1>3, QueueAssumption DEF Takes

(* The invariant holds at the start and after every step. *)
THEOREM LifecycleInvariance == Spec => []LifecycleInv
<1>1. Init => LifecycleInv
  <2>. SUFFICES ASSUME Init PROVE LifecycleInv
    OBVIOUS
  <2>1. events \in Seq(EventKinds) /\ Len(events) <= EventQueueLength
    BY QueueAssumption DEF Init
  <2>. QED
    BY <2>1 DEF Init, LifecycleInv, LifecycleTypeOK
<1>2. LifecycleInv /\ [Next]_lifeVars => LifecycleInv'
  <2>. SUFFICES ASSUME LifecycleInv, [Next]_lifeVars
                PROVE  LifecycleInv'
    OBVIOUS
  <2>. USE DEF LifecycleInv
  <2>1. CASE CableChanges
    <3>1. PICK e \in EventKinds : Post(e)
      BY <2>1 DEF CableChanges, EventKinds
    <3>. QED
      BY <2>1, <3>1, PostKeepsQueue
         DEF CableChanges, LifecycleTypeOK, mainVars, openerVars
  <2>2. CASE ObtainAddress
    <3>1. "GOT_IP" \in EventKinds /\ Post("GOT_IP")
      BY <2>2 DEF ObtainAddress, EventKinds
    <3>. QED
      BY <2>2, <3>1, PostKeepsQueue
         DEF ObtainAddress, LifecycleTypeOK, mainVars, openerVars
  <2>3. CASE RenewAddress
    <3>1. "GOT_IP" \in EventKinds /\ Post("GOT_IP")
      BY <2>3 DEF RenewAddress, EventKinds
    <3>. QED
      BY <2>3, <3>1, PostKeepsQueue
         DEF RenewAddress, LifecycleTypeOK, netVars, mainVars, openerVars
  <2>4. CASE HandleConnected
    BY <2>4, TakesKeepsQueue DEF HandleConnected, LifecycleTypeOK, netVars, openerVars
  <2>5. CASE HandleDisconnected
    BY <2>5, TakesKeepsQueue DEF HandleDisconnected, LifecycleTypeOK, openerVars
  <2>6. CASE HandleGotIp
    <3>1. CASE UNCHANGED openerVars
      BY <2>6, <3>1, TakesKeepsQueue
         DEF HandleGotIp, LifecycleTypeOK, netVars, openerVars
    <3>2. CASE OpenerInit /\ ~ UNCHANGED openerVars
      <4>. USE <2>6, <3>2 DEF HandleGotIp, OpenerInit
      <4>1. g_end_stack' \in {0, 1}
        OBVIOUS
      <4>2. CASE ~ link
        <5>1. UNCHANGED <<opener_initialized, thread, stack, network, erred>>
          BY <4>2
        <5>2. thread = "none"
          BY <4>2 DEF openerVars
        <5>. QED
          BY <4>1, <5>1, <5>2, TakesKeepsQueue DEF LifecycleTypeOK, netVars
      <4>3. CASE link
        <5>1. /\ network' \in BOOLEAN /\ stack' = TRUE /\ thread' = "looping"
              /\ opener_initialized' = TRUE /\ erred' = FALSE
          BY <4>3
        <5>. QED
          BY <4>1, <5>1, TakesKeepsQueue DEF LifecycleTypeOK, netVars
      <4>. QED
        BY <4>2, <4>3
    <3>. QED
      BY <2>6, <3>1, <3>2 DEF HandleGotIp
  <2>7. CASE NoticeLinkDown \/ ProcessCyclicFails
    BY <2>7
       DEF ProcessCyclicFails, NoticeLinkDown, EndStack, EnvironmentUnchanged,
           LifecycleTypeOK, netVars, mainVars
  <2>8. CASE FinishNetwork
    BY <2>8 DEF FinishNetwork, EnvironmentUnchanged, LifecycleTypeOK, netVars, mainVars
  <2>9. CASE ShutdownCipStack
    BY <2>9
       DEF ShutdownCipStack, EnvironmentUnchanged, LifecycleTypeOK, netVars, mainVars
  <2>10. CASE EndThread
    BY <2>10 DEF EndThread, EnvironmentUnchanged, LifecycleTypeOK, netVars, mainVars
  <2>11. CASE UNCHANGED lifeVars
    BY <2>11 DEF lifeVars, LifecycleTypeOK
  <2>. QED
    BY <2>1, <2>2, <2>3, <2>4, <2>5, <2>6, <2>7, <2>8, <2>9, <2>10, <2>11
       DEF Next, HandleEvent, OpenerThread
<1>. QED
  BY <1>1, <1>2, PTL DEF Spec

(* The types hold, and posting events never overfills the queue. *)
THEOREM LifecycleTypeCorrect == Spec => []LifecycleTypeOK
BY LifecycleInvariance, PTL DEF LifecycleInv

(* Only the address event starts a task, and it starts one only where      *)
(* there is none: the stack is never initialised over an old one.          *)
THEOREM InitAfterShutdown == Spec => NoInitOverOldStack
<1>1. LifecycleInv /\ [Next]_lifeVars =>
        [thread' = "looping" /\ thread # "looping" => thread = "none" /\ ~ stack]_lifeVars
  <2>. SUFFICES ASSUME LifecycleInv, Next, thread' = "looping", thread # "looping"
                PROVE  thread = "none" /\ ~ stack
    OBVIOUS
  <2>1. CASE HandleGotIp
    BY <2>1 DEF HandleGotIp, OpenerInit, LifecycleInv, openerVars
  <2>2. CASE CableChanges \/ ObtainAddress \/ RenewAddress \/ HandleConnected
              \/ HandleDisconnected
    BY <2>2
       DEF CableChanges, ObtainAddress, RenewAddress, HandleConnected,
           HandleDisconnected, openerVars
  <2>3. CASE OpenerThread \/ ProcessCyclicFails
    BY <2>3
       DEF OpenerThread, ProcessCyclicFails, NoticeLinkDown, EndStack,
           FinishNetwork, ShutdownCipStack, EndThread
  <2>. QED
    BY <2>1, <2>2, <2>3 DEF Next, HandleEvent
<1>. QED
  BY <1>1, LifecycleInvariance, PTL DEF Spec, NoInitOverOldStack

=============================================================================
