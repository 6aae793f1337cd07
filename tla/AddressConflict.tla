-------------------------- MODULE AddressConflict --------------------------
(***************************************************************************)
(* Detection of address conflicts for a static address.  The event task    *)
(* handles the link (main.c, esp_netif), the tcpip thread runs lwIP's      *)
(* detector (acd.c), its deferred calls and its mailbox, and the timer     *)
(* task the retry timer of main.c.  While tcpip_perform_acd waits for an   *)
(* answer on the tcpip thread, that thread holds the core lock and does    *)
(* nothing else.  Times are left out: a timer that is set may expire at    *)
(* any moment, but a whole detection takes longer than that wait.  The     *)
(* calls main.c makes without the core lock are atomic here.               *)
(***************************************************************************)
EXTENDS Naturals, Sequences

CONSTANTS
  PROBE_NUM,          \* probes sent before the announcements
  ANNOUNCE_NUM,       \* announcements before the address is in use
  MaxAttempts,        \* CONFIG_OPENER_ACD_RETRY_MAX_ATTEMPTS, at least 1
  MAX_CONFLICTS,      \* conflicts after which lwIP limits the rate
  EventQueueLength,   \* events the default event loop can hold
  MailboxSize,        \* messages of main.c the tcpip mailbox can hold
  MaxDeferred         \* bound: deferred calls are counted up to this many

ASSUME ConflictAssumption ==
  /\ PROBE_NUM \in Nat \ {0} /\ ANNOUNCE_NUM \in Nat \ {0}
  /\ MaxAttempts \in Nat \ {0} /\ MAX_CONFLICTS \in Nat \ {0}
  /\ EventQueueLength \in Nat \ {0} /\ MailboxSize \in Nat \ {0}
  /\ MaxDeferred \in Nat \ {0}

VARIABLES
  carrier,                \* the cable
  rival,                  \* does another host on the network use the address?
  events,                 \* the queue of the default event loop
  eventTask,              \* between main.c's handler and esp_netif's
  linkUp,                 \* netif_is_link_up
  ip,                     \* has the lwIP interface the address?
  ipInfo,                 \* has esp_netif's ip_info?
  state, sent_num,        \* s_static_ip_acd
  num_conflicts,
  lastconflict,           \* was a conflict answered within DEFEND_INTERVAL?
  s_acd_registered,
  s_acd_probe_pending,
  answer,                 \* s_acd_callback_received and s_acd_last_state
  deferred,               \* sys_timeouts set for tcpip_retry_acd_deferred
  mailbox,                \* of the tcpip thread
  tcpip,                  \* does the tcpip thread run, or wait in tcpip_perform_acd?
  timer,                  \* is s_acd_retry_timer running?
  timerTask,              \* where the timer task is
  s_acd_retry_count,
  fault,                  \* kTcpipStatusAcdFault
  ended                   \* history: why the last detection ended unanswered

linkVars == <<carrier, rival, events, eventTask, linkUp>>
addressVars == <<ip, ipInfo>>
acdVars == <<state, sent_num, num_conflicts, lastconflict>>
tcpipVars == <<mailbox, tcpip, deferred>>
retryVars == <<timer, timerTask, s_acd_retry_count>>
mainVars == <<s_acd_registered, s_acd_probe_pending, answer, fault>>
conflictVars == <<carrier, rival, events, eventTask, linkUp, ip, ipInfo, state,
                  sent_num, num_conflicts, lastconflict, mailbox, tcpip, deferred,
                  timer, timerTask, s_acd_retry_count, s_acd_registered,
                  s_acd_probe_pending, answer, fault, ended>>

(* configure_netif_from_tcpip has left the address to the detection, which *)
(* waits for the Ethernet driver to start.                                 *)
Init ==
  /\ carrier = FALSE /\ rival \in BOOLEAN
  /\ events = <<>> /\ eventTask = "idle"
  /\ linkUp = FALSE /\ ip = FALSE /\ ipInfo = FALSE
  /\ state = "OFF" /\ sent_num = 0 /\ num_conflicts = 0 /\ lastconflict = FALSE
  /\ s_acd_registered = FALSE /\ s_acd_probe_pending = TRUE /\ answer = "none"
  /\ deferred = 0 /\ mailbox = <<>> /\ tcpip = "run"
  /\ timer = FALSE /\ timerTask = "idle" /\ s_acd_retry_count = 0
  /\ fault = FALSE
  /\ ended = "no"

AtMost(n, limit) == IF n <= limit THEN n ELSE limit

AwaitsAnswer == {"PROBE_WAIT", "PROBING", "ANNOUNCE_WAIT"}

InUse == {"ANNOUNCING", "ONGOING"}

DetectorStates == AwaitsAnswer \union InUse \union {"OFF", "RATE_LIMIT"}

LinkEvents == {"CONNECTED", "DISCONNECTED"}

Messages == {"stop", "retry"}

EventTaskPlaces == {"idle", "up", "down"}

TimerTaskPlaces == {"idle", "callback", "wait"}

Answers == {"none", "ok", "conflict"}

Endings == {"no", "gave up", "stopped"}

-----------------------------------------------------------------------------
(* The network. *)
CableChanges ==
  /\ Len(events) < EventQueueLength
  /\ carrier' = ~ carrier
  /\ events' = Append(events, IF carrier THEN "DISCONNECTED" ELSE "CONNECTED")
  /\ UNCHANGED <<rival, eventTask, linkUp, addressVars, acdVars, tcpipVars,
                 retryVars, mainVars, ended>>

RivalComesOrGoes ==
  /\ rival' = ~ rival
  /\ UNCHANGED <<carrier, events, eventTask, linkUp, addressVars, acdVars,
                 tcpipVars, retryVars, mainVars, ended>>

-----------------------------------------------------------------------------
(* tcpip_perform_acd up to the wait for the semaphore. *)
StartDetection ==
  /\ num_conflicts' = IF s_acd_registered THEN num_conflicts ELSE 0
  /\ s_acd_registered' = TRUE
  /\ answer' = "none"
  /\ state' = "PROBE_WAIT" /\ sent_num' = 0 /\ lastconflict' = FALSE
  /\ ended' = "no"

NoDetection == UNCHANGED <<acdVars, s_acd_registered, answer, ended>>

CannotStart == ~ s_acd_probe_pending \/ ~ linkUp

(* tcpip_try_pending_acd when the detection cannot start; with the link    *)
(* down it is tried again later.                                           *)
SkipPending(calls) ==
  /\ CannotStart
  /\ deferred' = AtMost(IF s_acd_probe_pending THEN calls + 1 ELSE calls, MaxDeferred)
  /\ NoDetection

-----------------------------------------------------------------------------
(* The event task: main.c's handler, then that of esp_netif, which needs   *)
(* the core lock.  The address events it also gets are OpenerLifecycle's.  *)
Takes(e) ==
  /\ eventTask = "idle"
  /\ events # <<>> /\ Head(events) = e
  /\ events' = Tail(events)

(* esp_netif_set_mac needs the lock too; the link is still down for        *)
(* tcpip_try_pending_acd.                                                  *)
HandleConnected ==
  /\ Takes("CONNECTED")
  /\ tcpip = "run"
  /\ eventTask' = "up"
  /\ deferred' = AtMost(deferred + (IF s_acd_probe_pending THEN 2 ELSE 1), MaxDeferred)
  /\ UNCHANGED <<carrier, rival, linkUp, addressVars, acdVars, mailbox, tcpip,
                 retryVars, mainVars, ended>>

NetifUp ==
  /\ eventTask = "up" /\ tcpip = "run"
  /\ eventTask' = "idle"
  /\ linkUp' = TRUE
  /\ ip' = ipInfo
  /\ UNCHANGED <<carrier, rival, events, ipInfo, acdVars, tcpipVars, retryVars,
                 mainVars, ended>>

HandleDisconnected ==
  /\ Takes("DISCONNECTED")
  /\ Len(mailbox) < MailboxSize
  /\ mailbox' = Append(mailbox, "stop")
  /\ eventTask' = "down"
  /\ UNCHANGED <<carrier, rival, linkUp, addressVars, acdVars, tcpip, deferred,
                 retryVars, mainVars, ended>>

(* acd_network_changed_link_down left out. *)
NetifDownDetecting ==
  /\ eventTask = "down" /\ tcpip = "run"
  /\ eventTask' = "idle"
  /\ linkUp' = FALSE
  /\ ip' = FALSE
  /\ UNCHANGED <<carrier, rival, events, ipInfo, acdVars, tcpipVars, retryVars,
                 mainVars, ended>>

NetifDown ==
  /\ eventTask = "down" /\ tcpip = "run"
  /\ eventTask' = "idle"
  /\ linkUp' = FALSE
  /\ ip' = FALSE
  /\ state' = "OFF"
  /\ UNCHANGED <<carrier, rival, events, ipInfo, sent_num, num_conflicts,
                 lastconflict, tcpipVars, retryVars, mainVars, ended>>

EventTask == HandleConnected \/ NetifUp \/ HandleDisconnected \/ NetifDown

-----------------------------------------------------------------------------
(* tcpip_acd_conflict_callback *)

(* The increment before the check. *)
AttemptsCountedFirst(times) == s_acd_retry_count + times

AttemptsAfter(times) == AtMost(s_acd_retry_count + times, MaxAttempts)

AlwaysLeft == TRUE

AttemptsLeft == s_acd_retry_count < MaxAttempts

(* The address taken from the interface but not from esp_netif. *)
RemoveFromInterface == ip' = FALSE /\ UNCHANGED ipInfo

RemoveAddress == ip' = FALSE /\ ipInfo' = FALSE

(* Called so many times in a row with ACD_DECLINE or ACD_RESTART_CLIENT:   *)
(* tcpip_acd_start_retry, unless the attempts are used up.                 *)
ConflictReported(times) ==
  /\ answer' = "conflict"
  /\ fault' = TRUE
  /\ s_acd_retry_count' = AttemptsAfter(times)
  /\ IF AttemptsLeft
       THEN /\ RemoveAddress
            /\ s_acd_registered' = FALSE
            /\ timer' = TRUE
            /\ UNCHANGED ended
       ELSE /\ ended' = "gave up"
            /\ UNCHANGED <<addressVars, s_acd_registered, timer>>
  /\ UNCHANGED <<s_acd_probe_pending, timerTask>>

(* Called with ACD_IP_OK. *)
AddressOk ==
  /\ answer' = "ok"
  /\ fault' = FALSE
  /\ s_acd_retry_count' = 0
  /\ timer' = FALSE
  /\ IF s_acd_probe_pending
       THEN ip' = TRUE /\ ipInfo' = TRUE /\ s_acd_probe_pending' = FALSE
       ELSE UNCHANGED <<addressVars, s_acd_probe_pending>>
  /\ UNCHANGED <<timerTask, s_acd_registered, ended>>

-----------------------------------------------------------------------------
(* lwIP's detector on the tcpip thread: acd_tmr, acd_arp_reply. *)
SendProbe ==
  /\ tcpip = "run" /\ state \in {"PROBE_WAIT", "PROBING"}
  /\ IF sent_num + 1 >= PROBE_NUM
       THEN state' = "ANNOUNCE_WAIT" /\ sent_num' = 0
       ELSE state' = "PROBING" /\ sent_num' = sent_num + 1
  /\ UNCHANGED <<linkVars, addressVars, num_conflicts, lastconflict, tcpipVars,
                 retryVars, mainVars, ended>>

Announced == sent_num + 1 >= ANNOUNCE_NUM

Announce ==
  /\ tcpip = "run" /\ state \in {"ANNOUNCE_WAIT", "ANNOUNCING"}
  /\ ~ Announced
  /\ state' = "ANNOUNCING" /\ sent_num' = sent_num + 1
  /\ num_conflicts' = IF sent_num = 0 THEN 0 ELSE num_conflicts
  /\ UNCHANGED <<linkVars, addressVars, lastconflict, tcpipVars, retryVars,
                 mainVars, ended>>

(* Not within the wait that began with the detection. *)
FinishAnnouncing ==
  /\ tcpip = "run" /\ timerTask # "wait"
  /\ state \in {"ANNOUNCE_WAIT", "ANNOUNCING"}
  /\ Announced
  /\ state' = "ONGOING" /\ sent_num' = 0
  /\ num_conflicts' = IF sent_num = 0 THEN 0 ELSE num_conflicts
  /\ AddressOk
  /\ UNCHANGED <<linkVars, lastconflict, tcpipVars>>

(* lastconflict counted down to 0. *)
DefendIntervalEnds ==
  /\ tcpip = "run" /\ lastconflict
  /\ lastconflict' = FALSE
  /\ UNCHANGED <<linkVars, addressVars, state, sent_num, num_conflicts, tcpipVars,
                 retryVars, mainVars, ended>>

RateLimitEnds ==
  /\ tcpip = "run" /\ state = "RATE_LIMIT"
  /\ state' = "OFF"
  /\ ConflictReported(1)
  /\ UNCHANGED <<linkVars, sent_num, num_conflicts, lastconflict, tcpipVars>>

(* acd_restart: one call of the callback, and a second one unless the      *)
(* rate is limited.                                                        *)
RestartDetector ==
  /\ num_conflicts' = AtMost(num_conflicts + 1, MAX_CONFLICTS)
  /\ IF num_conflicts + 1 >= MAX_CONFLICTS
       THEN state' = "RATE_LIMIT" /\ ConflictReported(1)
       ELSE state' = "OFF" /\ ConflictReported(2)

HearsRival == tcpip = "run" /\ linkUp /\ rival

ConflictWhileProbing ==
  /\ HearsRival /\ state \in AwaitsAnswer
  /\ RestartDetector
  /\ UNCHANGED <<linkVars, sent_num, lastconflict, tcpipVars>>

DefendAddress ==
  /\ HearsRival /\ state \in InUse /\ ~ lastconflict
  /\ lastconflict' = TRUE
  /\ UNCHANGED <<linkVars, addressVars, state, sent_num, num_conflicts, tcpipVars,
                 retryVars, mainVars, ended>>

ConflictInUse ==
  /\ HearsRival /\ state \in InUse /\ lastconflict
  /\ RestartDetector
  /\ UNCHANGED <<linkVars, sent_num, lastconflict, tcpipVars>>

-----------------------------------------------------------------------------
(* The deferred calls and the mailbox of the tcpip thread. *)
DeferredWithoutPending ==
  /\ tcpip = "run" /\ deferred > 0 /\ ~ s_acd_probe_pending
  /\ deferred' = deferred - 1
  /\ UNCHANGED <<linkVars, addressVars, acdVars, mailbox, tcpip, retryVars, mainVars,
                 ended>>

(* tcpip_retry_acd_deferred.  With the link down it sets itself anew,      *)
(* which changes nothing.                                                  *)
DeferredStart ==
  /\ tcpip = "run" /\ deferred > 0 /\ s_acd_probe_pending /\ linkUp
  /\ deferred' = deferred - 1
  /\ tcpip' = "wait"
  /\ StartDetection
  /\ UNCHANGED <<linkVars, addressVars, mailbox, retryVars, s_acd_probe_pending, fault>>

TakesMessage(message) ==
  /\ tcpip = "run"
  /\ mailbox # <<>> /\ Head(mailbox) = message
  /\ mailbox' = Tail(mailbox)

(* tcpip_acd_stop_cb *)
StopDetection ==
  /\ TakesMessage("stop")
  /\ state' = "OFF"
  /\ ended' = IF linkUp /\ state # "OFF" THEN "stopped" ELSE ended
  /\ UNCHANGED <<linkVars, addressVars, sent_num, num_conflicts, lastconflict, tcpip,
                 deferred, retryVars, mainVars>>

(* retry_callback *)
RetrySkips ==
  /\ TakesMessage("retry")
  /\ SkipPending(deferred)
  /\ UNCHANGED <<linkVars, addressVars, tcpip, retryVars, s_acd_probe_pending, fault>>

RetryStarts ==
  /\ TakesMessage("retry")
  /\ ~ CannotStart
  /\ tcpip' = "wait"
  /\ StartDetection
  /\ UNCHANGED <<linkVars, addressVars, deferred, retryVars, s_acd_probe_pending, fault>>

(* The end of tcpip_perform_acd.  No callback came, the thread that calls  *)
(* it having waited: the detection goes on.                                *)
WaitEnds ==
  /\ tcpip = "wait"
  /\ tcpip' = "run"
  /\ UNCHANGED <<linkVars, addressVars, acdVars, mailbox, deferred, retryVars, mainVars,
                 ended>>

TcpipThread ==
  \/ DeferredWithoutPending \/ DeferredStart
  \/ StopDetection \/ RetrySkips \/ RetryStarts \/ WaitEnds

-----------------------------------------------------------------------------
(* The timer task: tcpip_acd_retry_timer_callback. *)

(* Another attempt not marked as pending. *)
RetryTimerExpiresNotPending ==
  /\ timer /\ timerTask = "idle"
  /\ timer' = FALSE
  /\ timerTask' = "callback"
  /\ UNCHANGED <<linkVars, addressVars, acdVars, tcpipVars, s_acd_retry_count,
                 mainVars, ended>>

RetryTimerExpires ==
  /\ timer /\ timerTask = "idle"
  /\ timer' = FALSE
  /\ timerTask' = "callback"
  /\ s_acd_probe_pending' = TRUE
  /\ UNCHANGED <<linkVars, addressVars, acdVars, tcpipVars, s_acd_retry_count,
                 s_acd_registered, answer, fault, ended>>

PostRetry ==
  /\ timerTask = "callback"
  /\ Len(mailbox) < MailboxSize
  /\ mailbox' = Append(mailbox, "retry")
  /\ timerTask' = "idle"
  /\ UNCHANGED <<linkVars, addressVars, acdVars, tcpip, deferred, timer,
                 s_acd_retry_count, mainVars, ended>>

(* The mailbox full, of these messages or of others. *)
RetryDirectlySkips ==
  /\ timerTask = "callback"
  /\ SkipPending(deferred)
  /\ timerTask' = "idle"
  /\ UNCHANGED <<linkVars, addressVars, mailbox, tcpip, timer, s_acd_retry_count,
                 s_acd_probe_pending, fault>>

RetryDirectly ==
  /\ timerTask = "callback"
  /\ ~ CannotStart
  /\ timerTask' = "wait"
  /\ StartDetection
  /\ UNCHANGED <<linkVars, addressVars, tcpipVars, timer, s_acd_retry_count,
                 s_acd_probe_pending, fault>>

DirectWaitEnds ==
  /\ timerTask = "wait" /\ answer # "conflict"
  /\ timerTask' = "idle"
  /\ UNCHANGED <<linkVars, addressVars, acdVars, tcpipVars, timer, s_acd_retry_count,
                 mainVars, ended>>

(* The message stands for both that are sent. *)
DirectWaitEndsInConflict ==
  /\ timerTask = "wait" /\ answer = "conflict"
  /\ Len(mailbox) < MailboxSize
  /\ mailbox' = Append(mailbox, "stop")
  /\ timerTask' = "idle"
  /\ s_acd_probe_pending' = FALSE
  /\ fault' = TRUE
  /\ UNCHANGED <<linkVars, addressVars, acdVars, tcpip, deferred, timer,
                 s_acd_retry_count, s_acd_registered, answer, ended>>

RetryCallback ==
  PostRetry \/ RetryDirectlySkips \/ RetryDirectly \/ DirectWaitEnds \/ DirectWaitEndsInConflict

-----------------------------------------------------------------------------
Next ==
  \/ CableChanges
  \/ RivalComesOrGoes
  \/ EventTask
  \/ SendProbe
  \/ Announce
  \/ FinishAnnouncing
  \/ DefendIntervalEnds
  \/ RateLimitEnds
  \/ ConflictWhileProbing
  \/ DefendAddress
  \/ ConflictInUse
  \/ TcpipThread
  \/ RetryTimerExpires
  \/ RetryCallback

Spec == Init /\ [][Next]_conflictVars

(* The tasks are scheduled, their waits are limited and the timers expire; *)
(* nothing is assumed of the cable, the other host or the mailbox's room.  *)
Fairness ==
  /\ WF_conflictVars(EventTask)
  /\ WF_conflictVars(SendProbe) /\ WF_conflictVars(Announce)
  /\ WF_conflictVars(FinishAnnouncing) /\ WF_conflictVars(RateLimitEnds)
  /\ WF_conflictVars(TcpipThread)
  /\ WF_conflictVars(RetryTimerExpires) /\ WF_conflictVars(RetryCallback)

FairSpec == Spec /\ Fairness

-----------------------------------------------------------------------------
AddressTypeOK ==
  /\ carrier \in BOOLEAN /\ rival \in BOOLEAN
  /\ events \in Seq(LinkEvents) /\ Len(events) <= EventQueueLength
  /\ eventTask \in EventTaskPlaces
  /\ linkUp \in BOOLEAN /\ ip \in BOOLEAN /\ ipInfo \in BOOLEAN
  /\ state \in DetectorStates
  /\ sent_num \in Nat
  /\ num_conflicts \in 0 .. MAX_CONFLICTS /\ lastconflict \in BOOLEAN
  /\ s_acd_registered \in BOOLEAN /\ s_acd_probe_pending \in BOOLEAN
  /\ answer \in Answers
  /\ deferred \in 0 .. MaxDeferred
  /\ mailbox \in Seq(Messages) /\ Len(mailbox) <= MailboxSize
  /\ tcpip \in {"run", "wait"}
  /\ timer \in BOOLEAN /\ timerTask \in TimerTaskPlaces
  /\ s_acd_retry_count \in 0 .. MaxAttempts
  /\ fault \in BOOLEAN
  /\ ended \in Endings

(* While a conflict is reported the device does not use the address, and   *)
(* esp_netif has none it could give the interface when the link comes back *)
(* (main.c: "On conflict, removes IP").                                    *)
ConflictRemovesAddress == fault => ~ ip /\ ~ ipInfo

(* Nothing is probed or announced without a link, where no answer could be *)
(* heard: an address found good there would be unchecked.                  *)
DetectsOnLink == ~ linkUp => state = "OFF"

(* With the cable in and no rival the address is obtained for good, unless *)
(* the attempts were used up or the message that stops the detection at    *)
(* the loss of the link is handled after the link and the detection have   *)
(* come back.                                                              *)
Undisturbed == <>[](carrier /\ ~ rival)
AddressAcquired == Undisturbed => <>[](ip \/ ended # "no")

(* Nobody retries for ever: the retry timer no longer expires, or the      *)
(* address is in use again and again, however often the link flaps and the *)
(* rival comes back (main.c: "Prevents infinite retry loops").             *)
RetriesEnd == <>[](timerTask # "callback") \/ []<>(state = "ONGOING")

=============================================================================
