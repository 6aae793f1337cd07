----------------------------- MODULE IoTransport -----------------------------
(***************************************************************************)
(* What I/O connections carry (cipconnectionmanager.c, cipioconnection.c): *)
(* the packets an exclusive owner's originator sends, which the network    *)
(* delays, loses and repeats, and the multicast packets of the input       *)
(* assembly, which one of the connections produces for all of them.  The   *)
(* two meet in ManageConnections, called with the time since its last      *)
(* call: an owner that falls silent hands the production over.             *)
(*                                                                         *)
(* Class 1, one owner and input only connections, all of them multicast;   *)
(* the watchdogs of the input only connections are left out.  Time is      *)
(* counted in timer ticks; the originator sends at most one packet a tick, *)
(* each with new data.  Packets are named by their age: how many were sent *)
(* after them.                                                             *)
(***************************************************************************)
EXTENDS Integers

CONSTANTS
  Owner, Inputs,     \* the connections
  NoConnection,
  Numbers,           \* 2^32: how many sequence numbers of packets there are
  DataNumbers,       \* 2^16: how many sequence numbers of data there are
  Watchdog,          \* the timeout: packet interval times multiplier
  InitialWatchdog,   \* the timeout before the first packet
  Rpi,               \* requested packet interval of the multicast packets
  InhibitTime,       \* production inhibit time
  LongestCycle,      \* the longest time between two calls of ManageConnections
  Delay              \* how many newer packets may overtake one

Connections == {Owner} \union Inputs

(* The loop is faster than a timeout.  A silent owner ends before half of  *)
(* the sequence numbers are used up, and packets are not delayed by as     *)
(* many.                                                                   *)
ASSUME TransportAssumption ==
  /\ Owner \notin Inputs /\ NoConnection \notin Connections
  /\ {Numbers, DataNumbers, Watchdog, InitialWatchdog, Rpi, InhibitTime, LongestCycle,
      Delay} \subseteq Nat
  /\ LongestCycle > 0 /\ Watchdog > LongestCycle /\ InitialWatchdog >= Watchdog
  /\ \A n \in {Numbers, DataNumbers} :
       n > 1 /\ 2 * (Watchdog + LongestCycle + Delay) < n

VARIABLES
  elapsed_time,
  established,                        \* the established connections
  master,                             \* the one with the multicast socket
  production_trigger,
  transmission_trigger_timer,
  eip_level_sequence_count_producing,
  inactivity_watchdog_timer,          \* this and the next three: the owner's
  eip_first_level_sequence_count_received,
  eip_level_sequence_count_consuming,
  sequence_count_consuming,
  number, data_number,                \* of the last packet its originator sent
  packets,                            \* how many of them may still arrive
  heard,                              \* history: packets accepted, counted to two
  accepted,                           \* history: age of the last packet accepted
  assembly,                           \* history: age of the data in the assembly
  quiet,                              \* history: time since one was accepted
  waited,                             \* history: time since a multicast packet
  last,                               \* history: its sequence number
  restarted                           \* history: does the next one begin anew?

consumerVars == <<inactivity_watchdog_timer, eip_first_level_sequence_count_received,
                  eip_level_sequence_count_consuming, sequence_count_consuming, heard,
                  accepted, assembly>>
originatorVars == <<number, data_number, packets>>
producerVars == <<master, transmission_trigger_timer, eip_level_sequence_count_producing>>
streamVars == <<waited, last, restarted>>
transportVars == <<elapsed_time, established, production_trigger, consumerVars, originatorVars,
                   producerVars, streamVars, quiet>>

(* SEQ_GT32 and the negation of SEQ_LEQ16: a is at most half of the        *)
(* numbers ahead of b.                                                     *)
GreaterNumber(a, b, n) == a > b
SequenceGreater(a, b, n) == 2 * ((a - b) % n) < n /\ a # b

Init ==
  /\ elapsed_time = 0 /\ established = {} /\ master = NoConnection
  /\ production_trigger \in {"Cyclic", "ApplicationObject"}
  /\ transmission_trigger_timer = [c \in Connections |-> 0]
  /\ eip_level_sequence_count_producing = [c \in Connections |-> 0]
  /\ inactivity_watchdog_timer = InitialWatchdog
  /\ eip_first_level_sequence_count_received = FALSE
  /\ eip_level_sequence_count_consuming = 0 /\ sequence_count_consuming = 0
  /\ number \in 0 .. Numbers - 1 /\ data_number = number % DataNumbers /\ packets = 0
  /\ heard = 0 /\ accepted = 0 /\ assembly = 0 /\ quiet = 0
  /\ waited = 0 /\ last = 0 /\ restarted = TRUE

-----------------------------------------------------------------------------
(* transfer_master_connection: the producer, when it goes, gives socket,   *)
(* numbers and timer to another established connection.                    *)
Heirs(c) == IF established \ {c} = {} THEN {NoConnection} ELSE established \ {c}
MasterAfter(c, h) == IF master = c THEN h ELSE master
NotHanded(f, c, h) == f
Handed(f, c, h) == IF master = c /\ h # NoConnection THEN [f EXCEPT ![h] = f[c]] ELSE f

(* EstablishIoConnection: a timed out connection is closed first, the      *)
(* first connection opens the stream, the owner takes it over.             *)
EstablishIoConnection(c) ==
  /\ c \notin established
  /\ established' = established \union {c}
  /\ \E h \in Heirs(c) :
       /\ master' = IF c = Owner \/ MasterAfter(c, h) = NoConnection
                    THEN c ELSE MasterAfter(c, h)
       /\ transmission_trigger_timer' =
            [Handed(transmission_trigger_timer, c, h) EXCEPT ![c] = 0]
       /\ eip_level_sequence_count_producing' =
            [Handed(eip_level_sequence_count_producing, c, h) EXCEPT ![c] = 0]
       /\ waited' = IF master' = c /\ MasterAfter(c, h) \notin established
                    THEN 0 ELSE waited
  /\ restarted' = (restarted \/ master' = c)
  /\ UNCHANGED <<elapsed_time, production_trigger, number, data_number, last>>

OpenInputOnly(c) ==
  /\ c \in Inputs
  /\ EstablishIoConnection(c)
  /\ UNCHANGED <<consumerVars, packets, quiet>>

OpenOwner ==
  /\ EstablishIoConnection(Owner)
  /\ inactivity_watchdog_timer' = InitialWatchdog
  /\ eip_first_level_sequence_count_received' = FALSE
  /\ eip_level_sequence_count_consuming' = 0 /\ sequence_count_consuming' = 0
  /\ heard' = 0 /\ accepted' = 0 /\ assembly' = 0 /\ packets' = 0 /\ quiet' = 0

(* Also of a timed out connection.                                         *)
CloseIoConnection(c) ==
  /\ c \in established \/ c = master
  /\ established' = established \ {c}
  /\ \E h \in Heirs(c) :
       /\ master' = MasterAfter(c, h)
       /\ transmission_trigger_timer' = Handed(transmission_trigger_timer, c, h)
       /\ eip_level_sequence_count_producing' =
            Handed(eip_level_sequence_count_producing, c, h)
  /\ UNCHANGED <<elapsed_time, production_trigger, consumerVars, originatorVars, streamVars,
                 quiet>>

-----------------------------------------------------------------------------
(* HandleReceivedIoConnectionData keeps the data's number, new or not.     *)
CountOfNewData(d) ==
  IF SequenceGreater(d, sequence_count_consuming, DataNumbers)
  THEN d ELSE sequence_count_consuming
DataCountAfter(d) == d

(* HandleReceivedConnectedData: a packet that is newer than the last one,  *)
(* or the first.  One that is not changes nothing here.                    *)
HandleReceivedConnectedData(age) ==
  LET n == (number - age) % Numbers
      d == (data_number - age) % DataNumbers
  IN  /\ Owner \in established /\ age < packets
      /\ \/ SequenceGreater(n, eip_level_sequence_count_consuming, Numbers)
         \/ ~ eip_first_level_sequence_count_received
      /\ inactivity_watchdog_timer' = Watchdog
      /\ eip_first_level_sequence_count_received' = TRUE
      /\ eip_level_sequence_count_consuming' = n
      /\ sequence_count_consuming' = DataCountAfter(d)
      /\ assembly' = IF SequenceGreater(d, sequence_count_consuming, DataNumbers)
                     THEN age ELSE assembly
      /\ heard' = IF heard = 0 THEN 1 ELSE 2
      /\ accepted' = age /\ quiet' = 0
      /\ UNCHANGED <<elapsed_time, established, production_trigger, originatorVars,
                     producerVars, streamVars>>

(* A tick: the originator of an established owner sends a packet, or not.  *)
Tick(sends) ==
  LET count == IF sends THEN 1 ELSE 0
  IN  /\ sends => Owner \in established
      /\ elapsed_time < LongestCycle
      /\ elapsed_time' = elapsed_time + 1
      /\ number' = (number + count) % Numbers
      /\ data_number' = (data_number + count) % DataNumbers
      /\ packets' = IF packets > Delay THEN packets ELSE packets + count
      /\ accepted' = accepted + count /\ assembly' = assembly + count
      /\ quiet' = IF Owner \in established THEN quiet + 1 ELSE quiet
      /\ waited' = IF master \in established /\ waited <= Rpi + 2 * LongestCycle
                   THEN waited + 1 ELSE waited
      /\ UNCHANGED <<established, production_trigger, inactivity_watchdog_timer,
                     eip_first_level_sequence_count_received,
                     eip_level_sequence_count_consuming, sequence_count_consuming, heard,
                     producerVars, last, restarted>>

-----------------------------------------------------------------------------
(* The production of connection c in ManageConnections, with its numbers   *)
(* and timers so far.                                                      *)
NextTimerWithoutElapsed(t) == t + Rpi
NextTimer(t) ==
  IF t + Rpi > elapsed_time THEN t + Rpi - elapsed_time ELSE 0

Produce(c, timers, counts) ==
  IF timers[c] <= elapsed_time
  THEN /\ transmission_trigger_timer' = [timers EXCEPT ![c] = NextTimer(timers[c])]
       /\ eip_level_sequence_count_producing' =
            [counts EXCEPT ![c] = (counts[c] + 1) % Numbers]
       /\ last' = (counts[c] + 1) % Numbers
       /\ waited' = 0 /\ restarted' = FALSE
  ELSE /\ transmission_trigger_timer' = [timers EXCEPT ![c] = timers[c] - elapsed_time]
       /\ eip_level_sequence_count_producing' = counts
       /\ UNCHANGED streamVars

NotItsTurn(timers, counts) ==
  /\ transmission_trigger_timer' = timers
  /\ eip_level_sequence_count_producing' = counts
  /\ UNCHANGED streamVars

(* TriggerConnections, which the application may call in HandleApplication *)
(* for the connection that produces.                                       *)
Triggered ==
  {transmission_trigger_timer} \union
  {[transmission_trigger_timer EXCEPT ![c] = InhibitTime] :
     c \in {d \in established \intersect {master} : production_trigger = "ApplicationObject"}}

ExpiredLater == Owner \in established /\ elapsed_time > inactivity_watchdog_timer
ExpiredFromFirst == Owner \in established /\ elapsed_time + 1 >= inactivity_watchdog_timer
Expired == Owner \in established /\ elapsed_time >= inactivity_watchdog_timer

(* Nobody times out: the watchdog is counted down and the master produces. *)
ConnectionsStay(timers) ==
  /\ ~ Expired
  /\ inactivity_watchdog_timer' =
       IF Owner \in established THEN inactivity_watchdog_timer - elapsed_time
                                ELSE inactivity_watchdog_timer
  /\ IF master \in established
     THEN Produce(master, timers, eip_level_sequence_count_producing)
     ELSE NotItsTurn(timers, eip_level_sequence_count_producing)
  /\ UNCHANGED <<established, master>>

(* HandleIoConnectionTimeOut: the owner, which produces, hands over; its   *)
(* heir comes later in the list and has its turn in this call, or it came  *)
(* before.  Without an heir the owner keeps the socket.                    *)
OwnerTimesOut(timers) ==
  /\ Expired
  /\ established' = established \ {Owner}
  /\ \E h \in Heirs(Owner) :
       LET handedTimers == Handed(timers, Owner, h)
           handedCounts == Handed(eip_level_sequence_count_producing, Owner, h)
       IN  IF h = NoConnection
           THEN /\ transmission_trigger_timer' = timers
                /\ restarted' = TRUE
                /\ UNCHANGED <<master, eip_level_sequence_count_producing, waited, last>>
           ELSE /\ master' = MasterAfter(Owner, h)
                /\ Produce(h, handedTimers, handedCounts) \/ NotItsTurn(handedTimers, handedCounts)
  /\ UNCHANGED inactivity_watchdog_timer

ManageConnections ==
  /\ elapsed_time > 0
  /\ elapsed_time' = 0
  /\ \E timers \in Triggered : ConnectionsStay(timers) \/ OwnerTimesOut(timers)
  /\ UNCHANGED <<production_trigger, originatorVars, eip_first_level_sequence_count_received,
                 eip_level_sequence_count_consuming, sequence_count_consuming, heard, accepted,
                 assembly, quiet>>

Next ==
  \/ \E c \in Inputs : OpenInputOnly(c)
  \/ OpenOwner
  \/ \E c \in Connections : CloseIoConnection(c)
  \/ \E age \in 0 .. Delay : HandleReceivedConnectedData(age)
  \/ \E sends \in BOOLEAN : Tick(sends)
  \/ ManageConnections

Spec == Init /\ [][Next]_transportVars

-----------------------------------------------------------------------------
TransportTypeOK ==
  /\ elapsed_time \in 0 .. LongestCycle
  /\ established \subseteq Connections /\ master \in Connections \union {NoConnection}
  /\ production_trigger \in {"Cyclic", "ApplicationObject"}
  /\ transmission_trigger_timer \in [Connections -> Nat]
  /\ eip_level_sequence_count_producing \in [Connections -> 0 .. Numbers - 1]
  /\ inactivity_watchdog_timer \in Nat \ {0}
  /\ eip_first_level_sequence_count_received \in BOOLEAN
  /\ {eip_level_sequence_count_consuming, number, last} \subseteq 0 .. Numbers - 1
  /\ {sequence_count_consuming, data_number} \subseteq 0 .. DataNumbers - 1
  /\ packets \in 0 .. Delay + 1 /\ heard \in 0 .. 2
  /\ {accepted, assembly, quiet, waited} \subseteq Nat
  /\ restarted \in BOOLEAN

(* Packets that arrive late or twice never take an established connection  *)
(* back: every packet accepted is younger than the last one, although the  *)
(* numbers wrap around.                                                    *)
InOrder == [][heard' = 2 /\ number' = number => accepted' <= accepted]_transportVars

(* Once a second packet has been accepted the assembly holds the data of   *)
(* the last one, however many were lost in between.  The first may be      *)
(* taken for old data: its number is compared with 0.                      *)
FreshData == heard = 2 => assembly = accepted

(* No connection times out unless for the time of its watchdog, less the   *)
(* one cycle that is counted again, no packet was accepted.                *)
NotTimedOutEarly ==
  [][elapsed_time' # elapsed_time /\ Owner \in established \ established'
       => quiet >= (IF heard = 0 THEN InitialWatchdog ELSE Watchdog) - LongestCycle]_transportVars

(* Every connection that hears nothing is timed out within the time of its *)
(* watchdog and a cycle.                                                   *)
SilenceEnds ==
  Owner \in established
    => quiet < (IF heard = 0 THEN InitialWatchdog ELSE Watchdog) + LongestCycle

(* The listeners of a cyclic stream never wait much longer than the packet *)
(* interval, hand-overs, take-overs and late cycles included: the timer    *)
(* goes with the stream.                                                   *)
StreamGoesOn ==
  production_trigger = "Cyclic" /\ master \in established
    => waited <= Rpi + 2 * LongestCycle

(* The packets of a stream are numbered one by one whoever produces them,  *)
(* and none comes before its time, unless an owner has just taken over or  *)
(* nobody produced before.                                                 *)
StreamInSequence ==
  [][ waited' < waited /\ ~ restarted /\ ~ restarted'
        => /\ last' = (last + 1) % Numbers
           /\ waited >= (IF production_trigger = "Cyclic" \/ Rpi <= InhibitTime
                         THEN Rpi ELSE InhibitTime) - LongestCycle ]_transportVars

=============================================================================
