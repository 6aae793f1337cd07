----------------------- MODULE AddressConflict_proofs -----------------------
(* Proofs about AddressConflict for any number of probes, announcements,   *)
(* attempts and conflicts and any size of the queues.                      *)
EXTENDS AddressConflict, SequenceTheorems, TLAPS

(* A queue that has room holds one element more after an append, and one   *)
(* less after the first is taken.                                          *)
LEMMA BoundedQueue ==
  ASSUME NEW S, NEW q \in Seq(S), NEW bound \in Nat, Len(q) <= bound
  PROVE  /\ \A e \in S : Len(q) < bound =>
              Append(q, e) \in Seq(S) /\ Len(Append(q, e)) <= bound
         /\ q # <<>> => Tail(q) \in Seq(S) /\ Len(Tail(q)) <= bound
<1>1. Len(q) \in Nat
  BY LenProperties
<1>2. ASSUME NEW e \in S, Len(q) < bound
      PROVE  Append(q, e) \in Seq(S) /\ Len(Append(q, e)) <= bound
  BY <1>1, <1>2, AppendProperties
<1>3. ASSUME q # <<>>
      PROVE  Tail(q) \in Seq(S) /\ Len(Tail(q)) <= bound
  BY <1>1, <1>3, HeadTailProperties
<1>. QED
  BY <1>2, <1>3

(* The two queues of the model. *)
QueuesOK ==
  /\ events \in Seq(LinkEvents) /\ Len(events) <= EventQueueLength
  /\ mailbox \in Seq(Messages) /\ Len(mailbox) <= MailboxSize

(* A count kept at most at its limit is within it. *)
LEMMA AtMostBounds ==
  ASSUME NEW n \in Nat, NEW limit \in Nat
  PROVE  AtMost(n, limit) \in 0 .. limit
BY DEF AtMost

(* Every step keeps the queues within their sizes. *)
LEMMA QueuesKept ==
  ASSUME QueuesOK, [Next]_conflictVars
  PROVE  QueuesOK'
<1>. USE ConflictAssumption
<1>1. \A e \in LinkEvents : Len(events) < EventQueueLength =>
        Append(events, e) \in Seq(LinkEvents) /\ Len(Append(events, e)) <= EventQueueLength
  BY BoundedQueue DEF QueuesOK
<1>2. events # <<>> => Tail(events) \in Seq(LinkEvents) /\ Len(Tail(events)) <= EventQueueLength
  BY BoundedQueue DEF QueuesOK
<1>3. \A m \in Messages : Len(mailbox) < MailboxSize =>
        Append(mailbox, m) \in Seq(Messages) /\ Len(Append(mailbox, m)) <= MailboxSize
  BY BoundedQueue DEF QueuesOK
<1>4. mailbox # <<>> => Tail(mailbox) \in Seq(Messages) /\ Len(Tail(mailbox)) <= MailboxSize
  BY BoundedQueue DEF QueuesOK
<1>5. {"CONNECTED", "DISCONNECTED"} \subseteq LinkEvents /\ {"stop", "retry"} \subseteq Messages
  BY DEF LinkEvents, Messages
<1>6. CASE UNCHANGED <<events, mailbox>>
  BY <1>6 DEF QueuesOK
<1>7. CASE CableChanges
  BY <1>1, <1>5, <1>7 DEF CableChanges, QueuesOK, tcpipVars
<1>8. CASE HandleConnected
  BY <1>2, <1>8 DEF HandleConnected, Takes, QueuesOK
<1>9. CASE HandleDisconnected
  BY <1>2, <1>3, <1>5, <1>9 DEF HandleDisconnected, Takes, QueuesOK
<1>10. CASE StopDetection \/ RetrySkips \/ RetryStarts
  BY <1>4, <1>10 DEF StopDetection, RetrySkips, RetryStarts, TakesMessage, QueuesOK, linkVars
<1>11. CASE PostRetry \/ DirectWaitEndsInConflict
  BY <1>3, <1>5, <1>11 DEF PostRetry, DirectWaitEndsInConflict, QueuesOK, linkVars
<1>12. CASE RivalComesOrGoes \/ NetifUp \/ NetifDown \/ SendProbe \/ Announce
             \/ FinishAnnouncing \/ DefendIntervalEnds \/ RateLimitEnds
  <2>. QED
    BY <1>6, <1>12
       DEF RivalComesOrGoes, NetifUp, NetifDown, SendProbe, Announce, FinishAnnouncing,
           DefendIntervalEnds, RateLimitEnds, tcpipVars, linkVars
<1>13. CASE ConflictWhileProbing \/ DefendAddress \/ ConflictInUse
             \/ DeferredWithoutPending \/ DeferredStart \/ WaitEnds
             \/ RetryTimerExpires \/ RetryDirectlySkips \/ RetryDirectly \/ DirectWaitEnds
  BY <1>6, <1>13
     DEF ConflictWhileProbing, DefendAddress, ConflictInUse, DeferredWithoutPending,
         DeferredStart, WaitEnds, RetryTimerExpires, RetryDirectlySkips, RetryDirectly,
         DirectWaitEnds, tcpipVars, linkVars
<1>14. CASE UNCHANGED conflictVars
  BY <1>6, <1>14 DEF conflictVars
<1>. QED
  BY <1>7, <1>8, <1>9, <1>10, <1>11, <1>12, <1>13, <1>14
     DEF Next, EventTask, TcpipThread, RetryCallback

-----------------------------------------------------------------------------
(* The other variables, without what no property needs. *)
CountsOK ==
  /\ carrier \in BOOLEAN /\ rival \in BOOLEAN
  /\ eventTask \in EventTaskPlaces
  /\ linkUp \in BOOLEAN /\ ip \in BOOLEAN /\ ipInfo \in BOOLEAN
  /\ state \in DetectorStates
  /\ sent_num \in Nat
  /\ num_conflicts \in 0 .. MAX_CONFLICTS /\ lastconflict \in BOOLEAN
  /\ s_acd_registered \in BOOLEAN /\ s_acd_probe_pending \in BOOLEAN
  /\ answer \in Answers
  /\ deferred \in 0 .. MaxDeferred
  /\ tcpip \in {"run", "wait"}
  /\ timer \in BOOLEAN /\ timerTask \in TimerTaskPlaces
  /\ s_acd_retry_count \in 0 .. MaxAttempts
  /\ fault \in BOOLEAN
  /\ ended \in Endings

(* The type of every variable is one of the two parts. *)
LEMMA TypeParts == AddressTypeOK <=> QueuesOK /\ CountsOK
BY DEF AddressTypeOK, QueuesOK, CountsOK

(* A conflict reported to main.c changes nothing out of its type. *)
LEMMA ReportedTypes ==
  ASSUME CountsOK, NEW times \in Nat, ConflictReported(times)
  PROVE  /\ ip' \in BOOLEAN /\ ipInfo' \in BOOLEAN
         /\ s_acd_registered' \in BOOLEAN /\ s_acd_probe_pending' \in BOOLEAN
         /\ answer' \in Answers
         /\ timer' \in BOOLEAN /\ timerTask' \in TimerTaskPlaces
         /\ s_acd_retry_count' \in 0 .. MaxAttempts
         /\ fault' \in BOOLEAN
         /\ ended' \in Endings
<1>1. s_acd_retry_count' \in 0 .. MaxAttempts
  <2>1. MaxAttempts \in Nat
    BY ConflictAssumption
  <2>2. s_acd_retry_count \in 0 .. MaxAttempts
    BY DEF CountsOK
  <2>3. s_acd_retry_count + times \in Nat
    BY <2>1, <2>2
  <2>. QED
    BY <2>1, <2>3, AtMostBounds DEF ConflictReported, AttemptsAfter
<1>. QED
  BY <1>1 DEF CountsOK, ConflictReported, RemoveAddress, addressVars, Answers, Endings

(* Nor does the detector when it restarts after a conflict. *)
LEMMA RestartTypes ==
  ASSUME CountsOK, RestartDetector
  PROVE  /\ state' \in DetectorStates
         /\ num_conflicts' \in 0 .. MAX_CONFLICTS
         /\ \E times \in {1, 2} : ConflictReported(times)
<1>1. MAX_CONFLICTS \in Nat
  BY ConflictAssumption
<1>2. num_conflicts \in 0 .. MAX_CONFLICTS
  BY DEF CountsOK
<1>3. num_conflicts + 1 \in Nat
  BY <1>1, <1>2
<1>4. num_conflicts' \in 0 .. MAX_CONFLICTS
  BY <1>1, <1>3, AtMostBounds DEF RestartDetector
<1>5. {"OFF", "RATE_LIMIT"} \subseteq DetectorStates
  BY DEF DetectorStates
<1>. QED
  BY <1>4, <1>5 DEF RestartDetector

(* The start of a detection, and its being put off, keep the types. *)
LEMMA StartTypes ==
  ASSUME CountsOK, StartDetection
  PROVE  /\ num_conflicts' \in 0 .. MAX_CONFLICTS
         /\ s_acd_registered' \in BOOLEAN
         /\ answer' \in Answers
         /\ state' \in DetectorStates /\ sent_num' \in Nat /\ lastconflict' \in BOOLEAN
         /\ ended' \in Endings
<1>1. MAX_CONFLICTS \in Nat
  BY ConflictAssumption
<1>2. num_conflicts' \in 0 .. MAX_CONFLICTS
  BY <1>1 DEF StartDetection, CountsOK
<1>3. "PROBE_WAIT" \in DetectorStates /\ "none" \in Answers /\ "no" \in Endings
  BY DEF DetectorStates, AwaitsAnswer, Answers, Endings
<1>. QED
  BY <1>2, <1>3 DEF StartDetection

(* The calls put off stay within their bound. *)
LEMMA DeferredTypes ==
  ASSUME CountsOK
  PROVE  \A n \in 0 .. 2 : AtMost(deferred + n, MaxDeferred) \in 0 .. MaxDeferred
<1>1. MaxDeferred \in Nat
  BY ConflictAssumption
<1>2. deferred \in 0 .. MaxDeferred
  BY DEF CountsOK
<1>3. \A n \in 0 .. 2 : deferred + n \in Nat
  BY <1>1, <1>2
<1>. QED
  BY <1>1, <1>3, AtMostBounds

(* Every step keeps the types of the other variables. *)
LEMMA CountsKept ==
  ASSUME CountsOK, [Next]_conflictVars
  PROVE  CountsOK'
<1>. USE DEF linkVars, addressVars, acdVars, tcpipVars, retryVars, mainVars
<1>1. CASE CableChanges \/ RivalComesOrGoes
  <2>1. carrier' \in BOOLEAN /\ rival' \in BOOLEAN
    BY <1>1 DEF CableChanges, RivalComesOrGoes, CountsOK
  <2>2. UNCHANGED <<eventTask, linkUp, addressVars, acdVars, tcpip, deferred, retryVars,
                    mainVars, ended>>
    BY <1>1 DEF CableChanges, RivalComesOrGoes
  <2>. QED
    BY <2>1, <2>2 DEF CountsOK
<1>2. CASE HandleConnected
  <2>1. deferred' \in 0 .. MaxDeferred
    BY <1>2, DeferredTypes DEF HandleConnected
  <2>. QED
    BY <1>2, <2>1 DEF HandleConnected, Takes, CountsOK, EventTaskPlaces
<1>3. CASE NetifUp \/ HandleDisconnected \/ NetifDown
  BY <1>3 DEF NetifUp, HandleDisconnected, NetifDown, Takes, CountsOK, DetectorStates,
              EventTaskPlaces
<1>4. CASE SendProbe
  BY <1>4 DEF SendProbe, CountsOK, DetectorStates, AwaitsAnswer
<1>5. MAX_CONFLICTS \in Nat
  BY ConflictAssumption
<1>6. CASE Announce
  BY <1>5, <1>6 DEF Announce, CountsOK, DetectorStates, InUse
<1>7. CASE FinishAnnouncing
  <2>1. s_acd_retry_count' \in 0 .. MaxAttempts
    BY <1>7, ConflictAssumption DEF FinishAnnouncing, AddressOk
  <2>2. num_conflicts' \in 0 .. MAX_CONFLICTS
    BY <1>5, <1>7 DEF FinishAnnouncing, CountsOK
  <2>3. ip' \in BOOLEAN /\ ipInfo' \in BOOLEAN /\ s_acd_probe_pending' \in BOOLEAN
    BY <1>7 DEF FinishAnnouncing, AddressOk, CountsOK
  <2>4. "ONGOING" \in DetectorStates /\ "ok" \in Answers
    BY DEF DetectorStates, InUse, Answers
  <2>. QED
    BY <1>7, <2>1, <2>2, <2>3, <2>4 DEF FinishAnnouncing, AddressOk, CountsOK
<1>8. CASE DefendIntervalEnds \/ DefendAddress
  BY <1>8 DEF DefendIntervalEnds, DefendAddress, CountsOK
<1>9. CASE RateLimitEnds
  BY <1>9, ReportedTypes DEF RateLimitEnds, CountsOK, DetectorStates
<1>10. CASE ConflictWhileProbing \/ ConflictInUse
  <2>1. RestartDetector /\ UNCHANGED <<linkVars, sent_num, lastconflict, tcpipVars>>
    BY <1>10 DEF ConflictWhileProbing, ConflictInUse
  <2>2. PICK times \in {1, 2} : ConflictReported(times)
    BY <2>1, RestartTypes
  <2>3. state' \in DetectorStates /\ num_conflicts' \in 0 .. MAX_CONFLICTS
    BY <2>1, RestartTypes
  <2>. QED
    BY <2>1, <2>2, <2>3, ReportedTypes DEF CountsOK
<1>11. CASE DeferredWithoutPending
  BY <1>11, ConflictAssumption DEF DeferredWithoutPending, CountsOK
<1>12. CASE DeferredStart
  <2>1. deferred' \in 0 .. MaxDeferred
    BY <1>12, ConflictAssumption DEF DeferredStart, CountsOK
  <2>. QED
    BY <1>12, <2>1, StartTypes DEF DeferredStart, CountsOK
<1>13. CASE StopDetection
  BY <1>13 DEF StopDetection, CountsOK, DetectorStates, Endings
<1>14. CASE RetrySkips \/ RetryDirectlySkips
  <2>1. SkipPending(deferred)
    BY <1>14 DEF RetrySkips, RetryDirectlySkips
  <2>2. deferred' = AtMost(deferred + (IF s_acd_probe_pending THEN 1 ELSE 0), MaxDeferred)
    BY <2>1 DEF SkipPending, CountsOK
  <2>3. deferred' \in 0 .. MaxDeferred
    BY <2>2, DeferredTypes
  <2>. QED
    BY <1>14, <2>1, <2>3
       DEF RetrySkips, RetryDirectlySkips, SkipPending, NoDetection, CountsOK,
           TimerTaskPlaces
<1>15. CASE RetryStarts \/ RetryDirectly
  BY <1>15, StartTypes DEF RetryStarts, RetryDirectly, CountsOK, TimerTaskPlaces
<1>16. CASE WaitEnds
  BY <1>16 DEF WaitEnds, CountsOK
<1>17. CASE RetryTimerExpires \/ PostRetry
  <2>1. timer' \in BOOLEAN /\ timerTask' \in TimerTaskPlaces /\ s_acd_probe_pending' \in BOOLEAN
    BY <1>17 DEF RetryTimerExpires, PostRetry, CountsOK, TimerTaskPlaces
  <2>2. UNCHANGED <<carrier, rival, eventTask, linkUp, addressVars, acdVars, tcpip, deferred,
                    s_acd_retry_count, s_acd_registered, answer, fault, ended>>
    BY <1>17 DEF RetryTimerExpires, PostRetry
  <2>. QED
    BY <2>1, <2>2 DEF CountsOK
<1>18. CASE DirectWaitEnds \/ DirectWaitEndsInConflict
  BY <1>18 DEF DirectWaitEnds, DirectWaitEndsInConflict, CountsOK, TimerTaskPlaces
<1>19. CASE UNCHANGED conflictVars
  BY <1>19 DEF conflictVars, CountsOK
<1>. QED
  BY <1>1, <1>2, <1>3, <1>4, <1>6, <1>7, <1>8, <1>9, <1>10, <1>11, <1>12, <1>13, <1>14,
     <1>15, <1>16, <1>17, <1>18, <1>19
     DEF Next, EventTask, TcpipThread, RetryCallback

(* Every variable keeps its type, the queues and counts their bounds. *)
THEOREM ConflictTypeCorrect == Spec => []AddressTypeOK
<1>1. Init => AddressTypeOK
  <2>. SUFFICES ASSUME Init PROVE QueuesOK /\ CountsOK
    BY TypeParts
  <2>1. QueuesOK
    BY ConflictAssumption DEF Init, QueuesOK
  <2>2. /\ 0 \in 0 .. MAX_CONFLICTS
        /\ 0 \in 0 .. MaxDeferred
        /\ 0 \in 0 .. MaxAttempts
    BY ConflictAssumption
  <2>. QED
    BY <2>1, <2>2 DEF Init, CountsOK, DetectorStates, EventTaskPlaces, TimerTaskPlaces,
                      Answers, Endings
<1>2. AddressTypeOK /\ [Next]_conflictVars => AddressTypeOK'
  <2>. SUFFICES ASSUME AddressTypeOK, [Next]_conflictVars PROVE AddressTypeOK'
    OBVIOUS
  <2>1. QueuesOK' /\ CountsOK'
    BY TypeParts, QueuesKept, CountsKept
  <2>. QED
    BY <2>1 DEF AddressTypeOK, QueuesOK, CountsOK
<1>. QED
  BY <1>1, <1>2, PTL DEF Spec

-----------------------------------------------------------------------------
(* A conflict is being dealt with as long as attempts are counted or main.c*)
(* holds it for the last answer, and meanwhile nobody has the address.     *)
ConflictInv ==
  /\ s_acd_retry_count > 0 => fault
  /\ answer = "conflict" => fault
  /\ fault => ~ ip /\ ~ ipInfo
  /\ ~ linkUp => state = "OFF"

(* A report of a conflict keeps it, whether a retry follows or not: once   *)
(* the attempts are used up the address is gone already.                   *)
LEMMA ReportedKeeps ==
  ASSUME AddressTypeOK, ConflictInv, NEW times, ConflictReported(times)
  PROVE  fault' /\ ~ ip' /\ ~ ipInfo'
<1>1. CASE AttemptsLeft
  BY <1>1 DEF ConflictReported, RemoveAddress
<1>2. CASE ~ AttemptsLeft
  <2>1. s_acd_retry_count > 0
    BY <1>2, ConflictAssumption DEF AddressTypeOK, AttemptsLeft
  <2>. QED
    BY <1>2, <2>1 DEF ConflictReported, ConflictInv, addressVars
<1>. QED
  BY <1>1, <1>2

(* The invariant holds at the start and after every step. *)
LEMMA ConflictInvariance ==
  ASSUME AddressTypeOK, ConflictInv, [Next]_conflictVars
  PROVE  ConflictInv'
<1>. USE DEF ConflictInv, linkVars, addressVars, acdVars, tcpipVars, retryVars, mainVars
<1>1. CASE UNCHANGED <<s_acd_retry_count, answer, fault, ip, ipInfo, linkUp, state>>
  BY <1>1
<1>2. CASE CableChanges \/ RivalComesOrGoes \/ HandleConnected \/ HandleDisconnected
  BY <1>1, <1>2 DEF CableChanges, RivalComesOrGoes, HandleConnected, HandleDisconnected
<1>3. CASE NetifUp \/ NetifDown
  BY <1>3 DEF NetifUp, NetifDown
<1>4. CASE SendProbe \/ Announce
  BY <1>4 DEF SendProbe, Announce
<1>5. CASE FinishAnnouncing
  BY <1>5 DEF FinishAnnouncing, AddressOk
<1>6. CASE DefendIntervalEnds \/ DefendAddress
  BY <1>1, <1>6 DEF DefendIntervalEnds, DefendAddress
<1>7. CASE RateLimitEnds
  BY <1>7, ReportedKeeps DEF RateLimitEnds
<1>8. CASE ConflictWhileProbing \/ ConflictInUse
  <2>1. PICK times : ConflictReported(times)
    BY <1>8 DEF ConflictWhileProbing, ConflictInUse, RestartDetector
  <2>2. linkUp' /\ fault' /\ ~ ip' /\ ~ ipInfo'
    BY <1>8, <2>1, ReportedKeeps DEF ConflictWhileProbing, ConflictInUse, HearsRival
  <2>. QED
    BY <2>2
<1>9. CASE DeferredWithoutPending \/ WaitEnds
  BY <1>1, <1>9 DEF DeferredWithoutPending, WaitEnds
<1>10. CASE StopDetection
  BY <1>10 DEF StopDetection
<1>11. CASE RetrySkips \/ RetryDirectlySkips
  BY <1>1, <1>11 DEF RetrySkips, RetryDirectlySkips, SkipPending, NoDetection
<1>12. CASE DeferredStart \/ RetryStarts \/ RetryDirectly
  BY <1>12 DEF DeferredStart, RetryStarts, RetryDirectly, StartDetection, CannotStart
<1>13. CASE RetryTimerExpires \/ PostRetry \/ DirectWaitEnds
  BY <1>1, <1>13 DEF RetryTimerExpires, PostRetry, DirectWaitEnds
<1>14. CASE DirectWaitEndsInConflict
  BY <1>14 DEF DirectWaitEndsInConflict
<1>15. CASE UNCHANGED conflictVars
  BY <1>1, <1>15 DEF conflictVars
<1>. QED
  BY <1>2, <1>3, <1>4, <1>5, <1>6, <1>7, <1>8, <1>9, <1>10, <1>11, <1>12, <1>13, <1>14,
     <1>15
     DEF Next, EventTask, TcpipThread, RetryCallback

(* Type correctness and the invariant together. *)
THEOREM ConflictInvariant == Spec => [](AddressTypeOK /\ ConflictInv)
<1>1. Init => ConflictInv
  BY DEF Init, ConflictInv
<1>2. AddressTypeOK /\ ConflictInv /\ [Next]_conflictVars => ConflictInv'
  BY ConflictInvariance
<1>. QED
  BY <1>1, <1>2, ConflictTypeCorrect, PTL DEF Spec

(* A conflict that is reported leaves the device without the address, and  *)
(* with none to come back when the link does.                              *)
THEOREM AddressRemoved == Spec => []ConflictRemovesAddress
<1>1. ConflictInv => ConflictRemovesAddress
  BY DEF ConflictInv, ConflictRemovesAddress
<1>. QED
  BY <1>1, ConflictInvariant, PTL

(* The detector is off whenever the link is down. *)
THEOREM OffWithoutLink == Spec => []DetectsOnLink
<1>1. ConflictInv => DetectsOnLink
  BY DEF ConflictInv, DetectsOnLink
<1>. QED
  BY <1>1, ConflictInvariant, PTL

=============================================================================
