-------------------------- MODULE IoTransport_proofs --------------------------
(***************************************************************************)
(* Theorems about IoTransport for every packet interval, timeout, cycle    *)
(* and number of connections: its types, the bounds on the watchdog of the *)
(* owner and on the waiting of the listeners, the numbering of the stream, *)
(* and the order and freshness of what the owner's originator sends.       *)
(***************************************************************************)
EXTENDS IoTransport, TLAPS

Timeout == IF heard = 0 THEN InitialWatchdog ELSE Watchdog

(* An established owner holds the socket, and only the owner keeps it      *)
(* after a timeout; the next stream begins anew.                           *)
Holder ==
  /\ Owner \in established => master = Owner
  /\ master \in Inputs => master \in established
  /\ master = Owner /\ Owner \notin established => restarted

(* What is left of the watchdog, the time already waited and the time not  *)
(* yet counted down are the timeout, but for the part of a cycle in which  *)
(* the last packet came.                                                   *)
WatchBand ==
  Owner \in established
    => /\ inactivity_watchdog_timer + quiet - elapsed_time <= Timeout
       /\ inactivity_watchdog_timer + quiet - elapsed_time >= Timeout - LongestCycle

(* The same for the master's timer and the time the listeners have waited: *)
(* only a hand-over loses a cycle, and an owner that took over sends at    *)
(* its first turn.                                                         *)
Timer == transmission_trigger_timer[master]
Cyclic == production_trigger = "Cyclic"
UpperBand ==
  Cyclic =>
    /\ master \in Inputs => waited - elapsed_time + Timer <= Rpi + LongestCycle
    /\ Owner \in established =>
         \/ waited - elapsed_time + Timer <= Rpi
         \/ /\ Timer = 0 /\ waited - elapsed_time <= Rpi + LongestCycle
            /\ inactivity_watchdog_timer > LongestCycle
    /\ master = Owner /\ Owner \notin established => waited + Timer <= Rpi + LongestCycle

Least == IF Cyclic \/ Rpi <= InhibitTime THEN Rpi ELSE InhibitTime
LowerBand ==
  master \in established /\ ~ restarted
    => waited >= elapsed_time /\ waited - elapsed_time + Timer >= Least - LongestCycle

Numbered ==
  master # NoConnection /\ ~ restarted => eip_level_sequence_count_producing[master] = last

TransportInv ==
  TransportTypeOK /\ Holder /\ WatchBand /\ UpperBand /\ LowerBand /\ Numbered

-----------------------------------------------------------------------------
(* The constants are natural numbers.                                      *)
LEMMA Constants ==
  /\ Numbers \in Nat /\ Numbers > 1 /\ DataNumbers \in Nat /\ DataNumbers > 1
  /\ Watchdog \in Nat /\ InitialWatchdog \in Nat /\ Rpi \in Nat /\ InhibitTime \in Nat
  /\ LongestCycle \in Nat /\ Delay \in Nat
  /\ LongestCycle > 0 /\ Watchdog > LongestCycle /\ InitialWatchdog >= Watchdog
BY TransportAssumption

(* The connections are distinct from what stands for none.                 *)
LEMMA Names ==
  /\ Owner \in Connections /\ Inputs \subseteq Connections /\ Owner \notin Inputs
  /\ NoConnection \notin Connections
  /\ \A c \in Connections : c = Owner \/ c \in Inputs
BY TransportAssumption DEF Connections

(* A remainder is one of the numbers.                                      *)
LEMMA Remainders ==
  /\ \A x \in Int : x % Numbers \in 0 .. Numbers - 1
  /\ \A x \in Int : x % DataNumbers \in 0 .. DataNumbers - 1
BY Constants

(* Heirs are established connections, or none.                             *)
LEMMA HeirsAre ==
  ASSUME NEW c, NEW h \in Heirs(c)
  PROVE  (h = NoConnection /\ established \subseteq {c}) \/ h \in established \ {c}
BY DEF Heirs

(* Handing over keeps the type, and gives the heir what the master had.    *)
LEMMA HandedOver ==
  ASSUME NEW S, NEW f \in [Connections -> S], NEW c \in Connections, NEW h,
         master \in Connections \union {NoConnection}, established \subseteq Connections,
         h \in Heirs(c)
  PROVE  /\ Handed(f, c, h) \in [Connections -> S]
         /\ master # c \/ h = NoConnection => Handed(f, c, h) = f
         /\ master = c /\ h # NoConnection => h \in established \ {c} /\ Handed(f, c, h)[h] = f[c]
<1>1. h = NoConnection \/ h \in established \ {c}
  BY HeirsAre
<1>2. CASE master = c /\ h # NoConnection
  <2>1. h \in Connections
    BY <1>1, <1>2
  <2>2. Handed(f, c, h) = [f EXCEPT ![h] = f[c]]
    BY <1>2 DEF Handed
  <2> QED
    BY <1>1, <1>2, <2>1, <2>2
<1> QED
  BY <1>2 DEF Handed

(* The least time between two packets.                                     *)
LEMMA LeastIs ==
  Least \in Nat /\ Least <= Rpi /\ (~ Cyclic => Least <= InhibitTime)
BY Constants DEF Least

(* The production of a connection sends the next number or counts its      *)
(* timer down.                                                             *)
Sent(c, timers, counts) ==
  /\ waited' = 0 /\ restarted' = FALSE
  /\ last' = (counts[c] + 1) % Numbers
  /\ eip_level_sequence_count_producing'[c] = last'
  /\ timers[c] <= elapsed_time
  /\ transmission_trigger_timer'[c] <= Rpi
  /\ transmission_trigger_timer'[c] >= Rpi - elapsed_time

CountedDown(c, timers, counts) ==
  /\ UNCHANGED streamVars
  /\ eip_level_sequence_count_producing'[c] = counts[c]
  /\ timers[c] > elapsed_time
  /\ transmission_trigger_timer'[c] = timers[c] - elapsed_time

LEMMA ProduceDoes ==
  ASSUME elapsed_time \in Nat, NEW c \in Connections, NEW timers \in [Connections -> Nat],
         NEW counts \in [Connections -> 0 .. Numbers - 1], Produce(c, timers, counts)
  PROVE  /\ transmission_trigger_timer' \in [Connections -> Nat]
         /\ eip_level_sequence_count_producing' \in [Connections -> 0 .. Numbers - 1]
         /\ Sent(c, timers, counts) \/ CountedDown(c, timers, counts)
<1>1. timers[c] \in Nat /\ counts[c] \in Nat
  BY Constants
<1>2. NextTimer(timers[c]) \in Nat
      /\ (timers[c] <= elapsed_time => NextTimer(timers[c]) <= Rpi)
      /\ NextTimer(timers[c]) >= Rpi - elapsed_time
  BY <1>1, Constants DEF NextTimer
<1>3. (counts[c] + 1) % Numbers \in 0 .. Numbers - 1
  BY <1>1, Remainders
<1>4. CASE timers[c] <= elapsed_time
  BY <1>1, <1>2, <1>3, <1>4 DEF Produce, Sent
<1>5. CASE ~ (timers[c] <= elapsed_time)
  <2>1. timers[c] - elapsed_time \in Nat /\ timers[c] > elapsed_time
    BY <1>1, <1>5
  <2> QED
    BY <1>5, <2>1 DEF Produce, CountedDown
<1> QED
  BY <1>4, <1>5

(* The timers after a trigger: as they were, or, in a stream that is not   *)
(* cyclic, with the inhibit time for the master.                           *)
LEMMA TriggeredTimers ==
  ASSUME transmission_trigger_timer \in [Connections -> Nat], established \subseteq Connections,
         NEW timers \in Triggered
  PROVE  /\ timers \in [Connections -> Nat]
         /\ \/ timers = transmission_trigger_timer
            \/ master \in established /\ timers[master] = InhibitTime /\ ~ Cyclic
<1>1. CASE timers = transmission_trigger_timer
  BY <1>1
<1>2. ASSUME NEW c \in established \intersect {master},
             production_trigger = "ApplicationObject",
             timers = [transmission_trigger_timer EXCEPT ![c] = InhibitTime]
      PROVE  /\ timers \in [Connections -> Nat]
             /\ master \in established /\ timers[master] = InhibitTime /\ ~ Cyclic
  <2>1. ~ Cyclic
    BY <1>2 DEF Cyclic
  <2>2. /\ timers \in [Connections -> Nat]
        /\ master \in established /\ timers[master] = InhibitTime
    BY <1>2, Constants
  <2> QED
    BY <2>1, <2>2
<1> QED
  BY <1>1, <1>2 DEF Triggered

-----------------------------------------------------------------------------
(* What the types say of each variable.                                    *)
TypesOfNumbers ==
  /\ elapsed_time \in Nat /\ elapsed_time <= LongestCycle
  /\ inactivity_watchdog_timer \in Nat /\ inactivity_watchdog_timer > 0
  /\ packets \in Nat /\ packets <= Delay + 1
  /\ heard \in Nat /\ heard <= 2
  /\ accepted \in Nat /\ assembly \in Nat /\ quiet \in Nat /\ waited \in Nat
  /\ eip_level_sequence_count_consuming \in 0 .. Numbers - 1
  /\ number \in 0 .. Numbers - 1 /\ last \in 0 .. Numbers - 1
  /\ sequence_count_consuming \in 0 .. DataNumbers - 1
  /\ data_number \in 0 .. DataNumbers - 1

TypesOfNames ==
  /\ established \subseteq Connections /\ master \in Connections \union {NoConnection}
  /\ transmission_trigger_timer \in [Connections -> Nat]
  /\ eip_level_sequence_count_producing \in [Connections -> 0 .. Numbers - 1]
  /\ eip_first_level_sequence_count_received \in BOOLEAN
  /\ restarted \in BOOLEAN

Kinds == production_trigger \in {"Cyclic", "ApplicationObject"}

LEMMA Typing ==
  /\ TransportTypeOK <=> TypesOfNumbers /\ TypesOfNames /\ Kinds
  /\ TransportTypeOK' <=> TypesOfNumbers' /\ TypesOfNames' /\ Kinds'
<1>1. TransportTypeOK => TypesOfNumbers
  BY Constants DEF TransportTypeOK, TypesOfNumbers
<1>2. TransportTypeOK => TypesOfNames /\ Kinds
  BY DEF TransportTypeOK, TypesOfNames, Kinds
<1>3. TypesOfNumbers /\ TypesOfNames /\ Kinds => TransportTypeOK
  BY Constants DEF TransportTypeOK, TypesOfNumbers, TypesOfNames, Kinds
<1>4. TransportTypeOK' => TypesOfNumbers'
  BY Constants DEF TransportTypeOK, TypesOfNumbers
<1>5. TransportTypeOK' => TypesOfNames' /\ Kinds'
  BY DEF TransportTypeOK, TypesOfNames, Kinds
<1>6. TypesOfNumbers' /\ TypesOfNames' /\ Kinds' => TransportTypeOK'
  BY Constants DEF TransportTypeOK, TypesOfNumbers, TypesOfNames, Kinds
<1> QED
  BY <1>1, <1>2, <1>3, <1>4, <1>5, <1>6

(* The initial states.                                                     *)
LEMMA TransportInitially == Init => TransportInv
<1> SUFFICES ASSUME Init PROVE TransportInv
  OBVIOUS
<1>1. TransportTypeOK
  <2>1. number \in Int /\ data_number = number % DataNumbers
    BY Constants DEF Init
  <2>2. data_number \in 0 .. DataNumbers - 1
    BY <2>1, Remainders
  <2>3. TypesOfNumbers
    <3>1. /\ elapsed_time = 0 /\ inactivity_watchdog_timer = InitialWatchdog /\ packets = 0
          /\ eip_level_sequence_count_consuming = 0 /\ sequence_count_consuming = 0
          /\ number \in 0 .. Numbers - 1
          /\ heard = 0 /\ accepted = 0 /\ assembly = 0 /\ quiet = 0 /\ waited = 0 /\ last = 0
      BY DEF Init
    <3> QED
      BY <2>2, <3>1, Constants DEF TypesOfNumbers
  <2>4. TypesOfNames
    <3>1. 0 \in Nat /\ 0 \in 0 .. Numbers - 1
      BY Constants
    <3>2. /\ established = {} /\ master = NoConnection
          /\ transmission_trigger_timer = [c \in Connections |-> 0]
          /\ eip_level_sequence_count_producing = [c \in Connections |-> 0]
          /\ eip_first_level_sequence_count_received = FALSE /\ restarted = TRUE
      BY DEF Init
    <3> QED
      BY <3>1, <3>2 DEF TypesOfNames
  <2>5. Kinds
    BY DEF Init, Kinds
  <2> QED
    BY <2>3, <2>4, <2>5, Typing
<1>2. Holder /\ WatchBand /\ UpperBand /\ LowerBand /\ Numbered
  BY Names DEF Init, Holder, WatchBand, UpperBand, LowerBand, Numbered
<1> QED
  BY <1>1, <1>2 DEF TransportInv

-----------------------------------------------------------------------------
(* A connection that opens becomes the master, beginning its numbers anew, *)
(* or joins the stream and changes nothing of it.                          *)
Takes(c) ==
  /\ master' = c /\ transmission_trigger_timer'[c] = 0 /\ restarted' = TRUE
  /\ c = Owner \/ master = NoConnection
  /\ \/ waited' = 0
     \/ waited' = waited /\ c = Owner /\ master \in {Owner} \union established

Joins(c) ==
  /\ c # master /\ c \in Inputs
  /\ UNCHANGED <<master, restarted, waited>>
  /\ transmission_trigger_timer'[master] = transmission_trigger_timer[master]
  /\ eip_level_sequence_count_producing'[master] = eip_level_sequence_count_producing[master]

LEMMA EstablishDoes ==
  ASSUME TransportInv, NEW c \in Connections, EstablishIoConnection(c)
  PROVE  /\ transmission_trigger_timer' \in [Connections -> Nat]
         /\ eip_level_sequence_count_producing' \in [Connections -> 0 .. Numbers - 1]
         /\ master' \in Connections /\ waited' \in Nat /\ restarted' \in BOOLEAN
         /\ Takes(c) \/ Joins(c)
<1> DEFINE timers(h) == Handed(transmission_trigger_timer, c, h)
           counts(h) == Handed(eip_level_sequence_count_producing, c, h)
<1>1. TransportTypeOK /\ Holder
  BY DEF TransportInv
<1>2. /\ transmission_trigger_timer \in [Connections -> Nat]
      /\ eip_level_sequence_count_producing \in [Connections -> 0 .. Numbers - 1]
      /\ master \in Connections \union {NoConnection} /\ established \subseteq Connections
      /\ waited \in Nat /\ restarted \in BOOLEAN
  BY <1>1 DEF TransportTypeOK
<1>3. c \notin established /\ restarted' = (restarted \/ master' = c)
  BY DEF EstablishIoConnection
<1>4. PICK h \in Heirs(c) :
        /\ master' = IF c = Owner \/ MasterAfter(c, h) = NoConnection
                     THEN c ELSE MasterAfter(c, h)
        /\ transmission_trigger_timer' = [timers(h) EXCEPT ![c] = 0]
        /\ eip_level_sequence_count_producing' = [counts(h) EXCEPT ![c] = 0]
        /\ waited' = IF master' = c /\ MasterAfter(c, h) \notin established
                     THEN 0 ELSE waited
  BY DEF EstablishIoConnection
<1>5. h = NoConnection \/ h \in established
  BY HeirsAre
<1>6. /\ timers(h) \in [Connections -> Nat]
      /\ counts(h) \in [Connections -> 0 .. Numbers - 1]
      /\ master # c => timers(h) = transmission_trigger_timer
                       /\ counts(h) = eip_level_sequence_count_producing
  BY <1>2, HandedOver
<1>7. 0 \in Nat /\ 0 \in 0 .. Numbers - 1
  BY Constants
<1>8. MasterAfter(c, h) \in Connections \union {NoConnection}
  BY <1>2, <1>5 DEF MasterAfter
<1>9. /\ transmission_trigger_timer' \in [Connections -> Nat]
      /\ eip_level_sequence_count_producing' \in [Connections -> 0 .. Numbers - 1]
      /\ transmission_trigger_timer'[c] = 0
  <2> HIDE DEF timers, counts
  <2> QED
    BY <1>4, <1>6, <1>7
<1>10. master' \in Connections /\ waited' \in Nat /\ restarted' \in BOOLEAN
  BY <1>2, <1>3, <1>4, <1>8
<1>11. CASE c = Owner \/ MasterAfter(c, h) = NoConnection
  <2>1. master' = c /\ restarted' = TRUE
    BY <1>2, <1>3, <1>4, <1>11
  <2>2. c = Owner \/ master = NoConnection
    <3>1. CASE c \in Inputs
      BY <1>1, <1>3, <1>11, <3>1, Names DEF Holder, MasterAfter
    <3> QED
      BY <3>1, Names
  <2>3. CASE waited' # 0
    <3>1. waited' = waited /\ MasterAfter(c, h) \in established
      BY <1>4, <2>1, <2>3
    <3>2. c = Owner
      BY <1>2, <1>11, <3>1, Names
    <3>3. master \in {Owner} \union established
      BY <3>1, <3>2 DEF MasterAfter
    <3> QED
      BY <1>9, <1>10, <2>1, <2>2, <3>1, <3>2, <3>3 DEF Takes
  <2> QED
    BY <1>9, <1>10, <2>1, <2>2, <2>3 DEF Takes
<1>12. CASE ~ (c = Owner \/ MasterAfter(c, h) = NoConnection)
  <2>1. c \in Inputs
    BY <1>12, Names
  <2>2. c # master
    BY <1>1, <1>3, <2>1 DEF Holder
  <2>3. master' = master /\ master \in Connections
    BY <1>4, <1>8, <1>12, <2>2 DEF MasterAfter
  <2>4. waited' = waited /\ restarted' = restarted
    BY <1>2, <1>3, <1>4, <2>2, <2>3
  <2>5. /\ transmission_trigger_timer'[master] = transmission_trigger_timer[master]
        /\ eip_level_sequence_count_producing'[master]
             = eip_level_sequence_count_producing[master]
    <3> HIDE DEF timers, counts
    <3> QED
      BY <1>4, <1>6, <2>2, <2>3
  <2> QED
    BY <1>9, <1>10, <2>1, <2>2, <2>3, <2>4, <2>5 DEF Joins
<1> QED
  BY <1>9, <1>10, <1>11, <1>12

(* An input only connection opens.                                         *)
LEMMA OpenInputOnlyKeeps ==
  ASSUME TransportInv, NEW c \in Inputs, OpenInputOnly(c)
  PROVE  TransportInv'
<1>1. TypesOfNumbers /\ TypesOfNames /\ Kinds
  BY Typing DEF TransportInv
<1>2. Holder /\ WatchBand /\ UpperBand /\ LowerBand /\ Numbered
  BY DEF TransportInv
<1>3. c \in Connections /\ c # Owner /\ EstablishIoConnection(c)
  BY Names DEF OpenInputOnly
<1>4. /\ transmission_trigger_timer' \in [Connections -> Nat]
      /\ eip_level_sequence_count_producing' \in [Connections -> 0 .. Numbers - 1]
      /\ master' \in Connections /\ waited' \in Nat /\ restarted' \in BOOLEAN
      /\ Takes(c) \/ Joins(c)
  BY <1>3, EstablishDoes
<1>5. /\ c \notin established /\ established' = established \union {c}
      /\ UNCHANGED <<elapsed_time, production_trigger, number, data_number, last>>
  BY <1>3 DEF EstablishIoConnection
<1>6. UNCHANGED <<consumerVars, packets, quiet>>
  BY DEF OpenInputOnly
<1>7. TypesOfNumbers'
  BY <1>1, <1>4, <1>5, <1>6 DEF TypesOfNumbers, consumerVars
<1>8. TypesOfNames' /\ Kinds'
  BY <1>1, <1>3, <1>4, <1>5, <1>6 DEF TypesOfNames, Kinds, consumerVars
<1>9. Cyclic' = Cyclic
  BY <1>5 DEF Cyclic
<1>10. WatchBand'
  BY <1>2, <1>3, <1>5, <1>6 DEF WatchBand, Timeout, consumerVars
<1>11. CASE Takes(c)
  <2>1. master = NoConnection /\ Owner \notin established'
    BY <1>2, <1>3, <1>5, <1>11, Names DEF Takes, Holder
  <2>2. waited' = 0 /\ master' = c /\ Timer' = 0 /\ restarted'
    BY <1>3, <1>11 DEF Takes, Timer
  <2>3. Holder' /\ LowerBand' /\ Numbered'
    BY <1>3, <1>5, <2>1, <2>2 DEF Holder, LowerBand, Numbered
  <2>4. UpperBand'
    BY <1>1, <1>3, <1>5, <2>1, <2>2, Constants DEF UpperBand, TypesOfNumbers
  <2> QED
    BY <1>7, <1>8, <1>10, <2>3, <2>4, Typing DEF TransportInv
<1>12. CASE Joins(c)
  <2>1. /\ c # master /\ master' = master /\ restarted' = restarted /\ waited' = waited
        /\ Timer' = Timer
        /\ eip_level_sequence_count_producing'[master]
             = eip_level_sequence_count_producing[master]
    BY <1>12 DEF Joins, Timer
  <2>2. Holder'
    BY <1>2, <1>3, <1>5, <2>1 DEF Holder
  <2>3. Numbered'
    BY <1>2, <1>5, <2>1 DEF Numbered
  <2>4. UpperBand'
    BY <1>2, <1>3, <1>5, <1>6, <1>9, <2>1 DEF UpperBand, consumerVars
  <2>5. Least' = Least
    BY <1>9 DEF Least
  <2>6. LowerBand'
    BY <1>2, <1>5, <2>1, <2>5 DEF LowerBand
  <2> QED
    BY <1>7, <1>8, <1>10, <2>2, <2>3, <2>4, <2>6, Typing DEF TransportInv
<1> QED
  BY <1>4, <1>11, <1>12

(* The owner opens: it takes the stream over, or begins one.               *)
LEMMA OpenOwnerKeeps ==
  ASSUME TransportInv, OpenOwner
  PROVE  TransportInv'
<1>1. TypesOfNumbers /\ TypesOfNames /\ Kinds
  BY Typing DEF TransportInv
<1>2. Holder /\ UpperBand
  BY DEF TransportInv
<1>3. Owner \in Connections /\ EstablishIoConnection(Owner)
  BY Names DEF OpenOwner
<1>4. /\ transmission_trigger_timer' \in [Connections -> Nat]
      /\ eip_level_sequence_count_producing' \in [Connections -> 0 .. Numbers - 1]
      /\ master' \in Connections /\ waited' \in Nat /\ restarted' \in BOOLEAN
      /\ Takes(Owner)
  BY <1>3, EstablishDoes, Names DEF Joins
<1>5. /\ Owner \notin established /\ established' = established \union {Owner}
      /\ UNCHANGED <<elapsed_time, production_trigger, number, data_number, last>>
  BY <1>3 DEF EstablishIoConnection
<1>6. /\ inactivity_watchdog_timer' = InitialWatchdog
      /\ eip_first_level_sequence_count_received' = FALSE
      /\ eip_level_sequence_count_consuming' = 0 /\ sequence_count_consuming' = 0
      /\ heard' = 0 /\ accepted' = 0 /\ assembly' = 0 /\ packets' = 0 /\ quiet' = 0
  BY DEF OpenOwner
<1>7. TypesOfNumbers'
  BY <1>1, <1>4, <1>5, <1>6, Constants DEF TypesOfNumbers
<1>8. TypesOfNames' /\ Kinds'
  BY <1>1, <1>3, <1>4, <1>5, <1>6 DEF TypesOfNames, Kinds
<1>9. Cyclic' = Cyclic
  BY <1>5 DEF Cyclic
<1>10. WatchBand'
  BY <1>1, <1>5, <1>6, Constants DEF WatchBand, Timeout, TypesOfNumbers
<1>11. /\ master' = Owner /\ Timer' = 0 /\ restarted'
       /\ waited' = 0 \/ (waited' = waited /\ (master = Owner \/ master \in established))
  BY <1>4 DEF Takes, Timer
<1>12. Holder' /\ LowerBand' /\ Numbered'
  BY <1>5, <1>11, Names DEF Holder, LowerBand, Numbered
<1>13. UpperBand'
  <2>1. ASSUME Cyclic, master = Owner \/ master \in established
        PROVE  waited - elapsed_time <= Rpi + LongestCycle
    <3>1. master \in Connections /\ Timer \in Nat
      BY <1>1, <1>3, <2>1 DEF TypesOfNames, Timer
    <3>2. CASE master \in Inputs
      BY <1>1, <1>2, <2>1, <3>1, <3>2, Constants DEF UpperBand, TypesOfNumbers
    <3>3. CASE master = Owner
      BY <1>1, <1>2, <1>5, <2>1, <3>1, <3>3, Constants DEF UpperBand, TypesOfNumbers
    <3> QED
      BY <3>1, <3>2, <3>3, Names
  <2>2. CASE waited' = 0
    BY <1>1, <1>5, <1>11, <2>2, Names, Constants DEF UpperBand, TypesOfNumbers
  <2>3. CASE waited' # 0 /\ Cyclic
    <3>1. waited' = waited /\ waited - elapsed_time <= Rpi + LongestCycle
      BY <1>11, <2>1, <2>3
    <3>2. inactivity_watchdog_timer' > LongestCycle
      BY <1>6, Constants
    <3> QED
      BY <1>5, <1>11, <3>1, <3>2, Names DEF UpperBand
  <2>4. CASE ~ Cyclic
    BY <1>9, <2>4 DEF UpperBand
  <2> QED
    BY <2>2, <2>3, <2>4
<1> QED
  BY <1>7, <1>8, <1>10, <1>12, <1>13, Typing DEF TransportInv

(* A connection closes; the master hands over what it has.                 *)
LEMMA CloseKeeps ==
  ASSUME TransportInv, NEW c \in Connections, CloseIoConnection(c)
  PROVE  TransportInv'
<1>1. TypesOfNumbers /\ TypesOfNames /\ Kinds
  BY Typing DEF TransportInv
<1>2. Holder /\ WatchBand /\ UpperBand /\ LowerBand /\ Numbered
  BY DEF TransportInv
<1>3. /\ c \in established \/ c = master
      /\ established' = established \ {c}
      /\ UNCHANGED <<elapsed_time, production_trigger, consumerVars, originatorVars,
                     streamVars, quiet>>
  BY DEF CloseIoConnection
<1>4. PICK h \in Heirs(c) :
        /\ master' = MasterAfter(c, h)
        /\ transmission_trigger_timer' = Handed(transmission_trigger_timer, c, h)
        /\ eip_level_sequence_count_producing' =
             Handed(eip_level_sequence_count_producing, c, h)
  BY DEF CloseIoConnection
<1>5. (h = NoConnection /\ established \subseteq {c}) \/ h \in established \ {c}
  BY HeirsAre
<1>6. /\ transmission_trigger_timer' \in [Connections -> Nat]
      /\ eip_level_sequence_count_producing' \in [Connections -> 0 .. Numbers - 1]
  BY <1>1, <1>4, HandedOver DEF TypesOfNames
<1>7. TypesOfNumbers'
  BY <1>1, <1>3 DEF TypesOfNumbers, consumerVars, originatorVars, streamVars
<1>8. TypesOfNames' /\ Kinds'
  BY <1>1, <1>3, <1>4, <1>5, <1>6
     DEF TypesOfNames, Kinds, MasterAfter, consumerVars, streamVars
<1>9. /\ Cyclic' = Cyclic /\ Least' = Least
      /\ UNCHANGED <<waited, restarted, last, elapsed_time, inactivity_watchdog_timer>>
  BY <1>3 DEF Cyclic, Least, consumerVars, streamVars
<1>10. WatchBand'
  BY <1>2, <1>3 DEF WatchBand, Timeout, consumerVars
<1>11. CASE master # c
  <2>1. /\ master' = master /\ Timer' = Timer
        /\ UNCHANGED eip_level_sequence_count_producing
    BY <1>4, <1>11 DEF MasterAfter, Handed, Timer
  <2>2. c \in established /\ (master = Owner => c # Owner)
    BY <1>3, <1>11
  <2>3. Holder' /\ Numbered'
    BY <1>2, <1>3, <1>9, <1>11, <2>1, <2>2 DEF Holder, Numbered
  <2>4. UpperBand'
    BY <1>2, <1>3, <1>9, <1>11, <2>1, <2>2 DEF UpperBand
  <2>5. LowerBand'
    BY <1>2, <1>3, <1>9, <2>1 DEF LowerBand
  <2> QED
    BY <1>7, <1>8, <1>10, <2>3, <2>4, <2>5, Typing DEF TransportInv
<1>12. CASE master = c /\ h = NoConnection
  <2>1. master' = NoConnection /\ established' = {}
    BY <1>3, <1>4, <1>5, <1>12, <1>1, Names DEF MasterAfter, TypesOfNames
  <2>2. Holder' /\ UpperBand' /\ LowerBand' /\ Numbered'
    BY <2>1, Names DEF Holder, UpperBand, LowerBand, Numbered
  <2> QED
    BY <1>7, <1>8, <1>10, <2>2, Typing DEF TransportInv
<1>13. CASE master = c /\ h # NoConnection
  <2>1. h \in established \ {c} /\ h \in Connections /\ master' = h
    BY <1>1, <1>4, <1>5, <1>13 DEF MasterAfter, TypesOfNames
  <2>2. Owner \notin established' /\ h \in Inputs
    BY <1>2, <1>3, <1>13, <2>1, Names DEF Holder
  <2>3. /\ Timer' = Timer
        /\ eip_level_sequence_count_producing'[master']
             = eip_level_sequence_count_producing[master]
    <3>1. /\ transmission_trigger_timer \in [Connections -> Nat]
          /\ eip_level_sequence_count_producing \in [Connections -> 0 .. Numbers - 1]
          /\ master \in Connections \union {NoConnection} /\ established \subseteq Connections
      BY <1>1 DEF TypesOfNames
    <3>2. Handed(transmission_trigger_timer, c, h)[h] = transmission_trigger_timer[c]
      BY <1>13, <3>1, HandedOver
    <3>3. Handed(eip_level_sequence_count_producing, c, h)[h]
            = eip_level_sequence_count_producing[c]
      BY <1>13, <2>1, <3>1 DEF Handed
    <3> QED
      BY <1>4, <1>13, <2>1, <3>2, <3>3 DEF Timer
  <2>4. c \in established \/ restarted
    BY <1>2, <1>13, Names DEF Holder
  <2>5. Holder'
    BY <1>3, <2>1, <2>2, Names DEF Holder
  <2>6. Numbered'
    BY <1>2, <1>9, <1>13, <2>1, <2>3, Names DEF Numbered
  <2>7. LowerBand'
    BY <1>2, <1>9, <1>13, <2>3, <2>4 DEF LowerBand
  <2>8. UpperBand'
    <3>1. Timer \in Nat
      BY <1>1, <1>13 DEF TypesOfNames, Timer
    <3>2. Cyclic => waited - elapsed_time + Timer <= Rpi + LongestCycle
      <4>1. CASE c \in Inputs
        BY <1>2, <1>13, <4>1 DEF UpperBand
      <4>2. CASE c = Owner /\ Owner \in established
        BY <1>1, <1>2, <3>1, <4>2, Constants DEF UpperBand, TypesOfNumbers
      <4>3. CASE c = Owner /\ Owner \notin established
        BY <1>1, <1>2, <1>13, <3>1, <4>3, Constants DEF UpperBand, TypesOfNumbers
      <4> QED
        BY <4>1, <4>2, <4>3, Names
    <3> QED
      BY <1>9, <2>1, <2>2, <2>3, <3>2, Names DEF UpperBand
  <2> QED
    BY <1>7, <1>8, <1>10, <2>5, <2>6, <2>7, <2>8, Typing DEF TransportInv
<1> QED
  BY <1>11, <1>12, <1>13

(* A packet is accepted: the watchdog starts again.                        *)
LEMMA ReceiveKeeps ==
  ASSUME TransportInv, NEW age \in 0 .. Delay, HandleReceivedConnectedData(age)
  PROVE  TransportInv'
<1>1. TypesOfNumbers /\ TypesOfNames /\ Kinds
  BY Typing DEF TransportInv
<1>2. Holder /\ UpperBand /\ LowerBand /\ Numbered
  BY DEF TransportInv
<1>3. age \in Nat
  BY Constants
<1>4. /\ inactivity_watchdog_timer' = Watchdog /\ Owner \in established
      /\ eip_first_level_sequence_count_received' = TRUE
      /\ eip_level_sequence_count_consuming' = (number - age) % Numbers
      /\ sequence_count_consuming' = (data_number - age) % DataNumbers
      /\ assembly' \in {age, assembly}
      /\ heard' = IF heard = 0 THEN 1 ELSE 2
      /\ accepted' = age /\ quiet' = 0
      /\ UNCHANGED <<elapsed_time, established, production_trigger, originatorVars,
                     producerVars, streamVars>>
  BY DEF HandleReceivedConnectedData, DataCountAfter
<1>5. /\ eip_level_sequence_count_consuming' \in 0 .. Numbers - 1
      /\ sequence_count_consuming' \in 0 .. DataNumbers - 1
  <2>1. number - age \in Int /\ data_number - age \in Int
    BY <1>1, <1>3, Constants DEF TypesOfNumbers
  <2> QED
    BY <1>4, <2>1, Remainders
<1>6. TypesOfNumbers'
  BY <1>1, <1>3, <1>4, <1>5, Constants DEF TypesOfNumbers, originatorVars, streamVars
<1>7. TypesOfNames' /\ Kinds'
  BY <1>1, <1>4 DEF TypesOfNames, Kinds, producerVars, streamVars
<1>8. /\ Cyclic' = Cyclic /\ Least' = Least /\ Timer' = Timer
      /\ UNCHANGED <<master, eip_level_sequence_count_producing, waited, last, restarted>>
  BY <1>4 DEF Cyclic, Least, Timer, producerVars, streamVars
<1>9. Holder' /\ Numbered' /\ LowerBand'
  BY <1>2, <1>4, <1>8 DEF Holder, Numbered, LowerBand
<1>10. WatchBand'
  BY <1>1, <1>4, Constants DEF WatchBand, Timeout, TypesOfNumbers
<1>11. UpperBand'
  <2>1. inactivity_watchdog_timer' > LongestCycle
    BY <1>4, Constants
  <2> QED
    BY <1>2, <1>4, <1>8, <2>1 DEF UpperBand
<1> QED
  BY <1>6, <1>7, <1>9, <1>10, <1>11, Typing DEF TransportInv

(* Time passes.                                                            *)
LEMMA TickKeeps ==
  ASSUME TransportInv, NEW sends \in BOOLEAN, Tick(sends)
  PROVE  TransportInv'
<1> DEFINE count == IF sends THEN 1 ELSE 0
<1>1. TypesOfNumbers /\ TypesOfNames /\ Kinds
  BY Typing DEF TransportInv
<1>2. Holder /\ WatchBand /\ UpperBand /\ LowerBand /\ Numbered
  BY DEF TransportInv
<1>3. count \in {0, 1}
  OBVIOUS
<1>4. /\ elapsed_time < LongestCycle /\ elapsed_time' = elapsed_time + 1
      /\ number' = (number + count) % Numbers
      /\ data_number' = (data_number + count) % DataNumbers
      /\ packets' = IF packets > Delay THEN packets ELSE packets + count
      /\ accepted' = accepted + count /\ assembly' = assembly + count
      /\ quiet' = IF Owner \in established THEN quiet + 1 ELSE quiet
      /\ waited' = IF master \in established /\ waited <= Rpi + 2 * LongestCycle
                   THEN waited + 1 ELSE waited
      /\ UNCHANGED <<established, production_trigger, inactivity_watchdog_timer,
                     eip_first_level_sequence_count_received,
                     eip_level_sequence_count_consuming, sequence_count_consuming, heard,
                     producerVars, last, restarted>>
  BY DEF Tick
<1> HIDE DEF count
<1>5. number' \in 0 .. Numbers - 1 /\ data_number' \in 0 .. DataNumbers - 1
  <2>1. number + count \in Int /\ data_number + count \in Int
    BY <1>1, <1>3, Constants DEF TypesOfNumbers
  <2> QED
    BY <1>4, <2>1, Remainders
<1>6. TypesOfNumbers'
  BY <1>1, <1>3, <1>4, <1>5, Constants DEF TypesOfNumbers
<1>7. TypesOfNames' /\ Kinds'
  BY <1>1, <1>4 DEF TypesOfNames, Kinds, producerVars
<1>8. /\ Cyclic' = Cyclic /\ Least' = Least /\ Timer' = Timer
      /\ UNCHANGED <<master, eip_level_sequence_count_producing>>
  BY <1>4 DEF Cyclic, Least, Timer, producerVars
<1>9. Holder' /\ Numbered'
  BY <1>2, <1>4, <1>8 DEF Holder, Numbered
<1>10. WatchBand'
  BY <1>1, <1>2, <1>4, Constants DEF WatchBand, Timeout, TypesOfNumbers
<1>11. UpperBand'
  <2>1. ASSUME Cyclic, master \in Connections
        PROVE  /\ Timer \in Int
               /\ waited' - elapsed_time' <= waited - elapsed_time
               /\ master \notin established => waited' = waited
    BY <1>1, <1>4, <2>1, Constants DEF TypesOfNumbers, TypesOfNames, Timer
  <2>2. ASSUME Cyclic, master \in Inputs
        PROVE  waited' - elapsed_time' + Timer <= Rpi + LongestCycle
    BY <1>1, <1>2, <1>4, <2>1, <2>2, Names, Constants DEF UpperBand, TypesOfNumbers
  <2>3. ASSUME Cyclic, Owner \in established
        PROVE  \/ waited' - elapsed_time' + Timer <= Rpi
               \/ /\ Timer = 0 /\ waited' - elapsed_time' <= Rpi + LongestCycle
                  /\ inactivity_watchdog_timer > LongestCycle
    <3>1. master = Owner /\ master \in Connections
      BY <1>2, <2>3, Names DEF Holder
    <3> QED
      BY <1>1, <1>2, <1>4, <2>1, <2>3, <3>1, Constants DEF UpperBand, TypesOfNumbers
  <2>4. ASSUME Cyclic, master = Owner, Owner \notin established
        PROVE  waited' + Timer <= Rpi + LongestCycle
    BY <1>2, <2>1, <2>4, Names DEF UpperBand
  <2> QED
    BY <1>4, <1>8, <2>2, <2>3, <2>4 DEF UpperBand
<1>12. LowerBand'
  <2> SUFFICES ASSUME master \in established, ~ restarted
               PROVE  /\ waited' >= elapsed_time'
                      /\ waited' - elapsed_time' + Timer >= Least - LongestCycle
    BY <1>4, <1>8 DEF LowerBand
  <2>1. /\ Timer \in Nat /\ waited >= elapsed_time
        /\ waited - elapsed_time + Timer >= Least - LongestCycle
    BY <1>1, <1>2 DEF LowerBand, TypesOfNames, Timer
  <2> QED
    BY <1>1, <1>4, <2>1, LeastIs, Constants DEF TypesOfNumbers
<1> QED
  BY <1>6, <1>7, <1>9, <1>10, <1>11, <1>12, Typing DEF TransportInv

(* The stream after a turn of the master: only its time, its timer and its *)
(* number matter.                                                          *)
LEMMA TurnKeeps ==
  ASSUME TypesOfNumbers, NEW c \in Connections, NEW timers \in [Connections -> Nat],
         NEW counts \in [Connections -> 0 .. Numbers - 1],
         Sent(c, timers, counts) \/ CountedDown(c, timers, counts),
         elapsed_time' = 0, Cyclic' = Cyclic, master' = c, restarted \in BOOLEAN,
         transmission_trigger_timer' \in [Connections -> Nat],
         ~ restarted => counts[c] = last
  PROVE  /\ Numbered' /\ waited' \in Nat /\ restarted' \in BOOLEAN
         /\ last' \in 0 .. Numbers - 1
         /\ \/ waited' + Timer' <= Rpi
            \/ /\ timers[c] > elapsed_time
               /\ waited' + Timer' = waited - elapsed_time + timers[c]
         /\ (~ restarted => timers[c] + waited - elapsed_time >= Least - LongestCycle)
              => LowerBand'
<1>1. /\ waited \in Nat /\ elapsed_time \in Nat /\ elapsed_time <= LongestCycle
      /\ last \in 0 .. Numbers - 1 /\ timers[c] \in Nat /\ counts[c] \in Nat
  BY Constants DEF TypesOfNumbers
<1>2. Least' = Least /\ Timer' = transmission_trigger_timer'[c] /\ Timer' \in Nat
  BY DEF Least, Timer
<1>3. CASE Sent(c, timers, counts)
  <2>1. /\ waited' = 0 /\ ~ restarted' /\ last' = (counts[c] + 1) % Numbers
        /\ eip_level_sequence_count_producing'[c] = last'
        /\ Timer' <= Rpi /\ Timer' >= Rpi - elapsed_time
    BY <1>2, <1>3 DEF Sent
  <2>2. last' \in 0 .. Numbers - 1
    BY <1>1, <2>1, Remainders
  <2>3. Numbered'
    BY <2>1 DEF Numbered
  <2>4. waited' + Timer' <= Rpi
    BY <1>2, <2>1, Constants
  <2>5. waited' >= elapsed_time' /\ waited' - elapsed_time' + Timer' >= Least' - LongestCycle
    BY <1>1, <1>2, <2>1, LeastIs, Constants
  <2>6. LowerBand'
    BY <2>5 DEF LowerBand
  <2>7. waited' \in Nat /\ restarted' \in BOOLEAN
    BY <1>3 DEF Sent
  <2> QED
    BY <2>2, <2>3, <2>4, <2>6, <2>7
<1>4. CASE CountedDown(c, timers, counts)
  <2>1. /\ UNCHANGED <<waited, last, restarted>>
        /\ eip_level_sequence_count_producing'[c] = counts[c]
        /\ timers[c] > elapsed_time /\ Timer' = timers[c] - elapsed_time
    BY <1>2, <1>4 DEF CountedDown, streamVars
  <2>2. Numbered'
    BY <2>1 DEF Numbered
  <2>3. waited' + Timer' = waited - elapsed_time + timers[c]
    BY <1>1, <2>1
  <2>4. ASSUME ~ restarted => timers[c] + waited - elapsed_time >= Least - LongestCycle
        PROVE  LowerBand'
    <3>1. ~ restarted' => waited' - elapsed_time' + Timer' >= Least' - LongestCycle
      BY <1>1, <1>2, <2>1, <2>4, Constants
    <3>2. waited' >= elapsed_time'
      BY <1>1, <2>1
    <3> QED
      BY <3>1, <3>2 DEF LowerBand
  <2> QED
    BY <1>1, <2>1, <2>2, <2>3, <2>4
<1> QED
  BY <1>3, <1>4

(* ManageConnections when nobody times out.                                *)
LEMMA StayKeeps ==
  ASSUME TransportInv, ManageConnections, NEW timers \in Triggered, ConnectionsStay(timers)
  PROVE  TransportInv'
<1> DEFINE counts == eip_level_sequence_count_producing
<1>1. TypesOfNumbers /\ TypesOfNames /\ Kinds
  BY Typing DEF TransportInv
<1>2. Holder /\ WatchBand /\ UpperBand /\ LowerBand /\ Numbered
  BY DEF TransportInv
<1>3. /\ elapsed_time' = 0
      /\ UNCHANGED <<production_trigger, originatorVars,
                     eip_first_level_sequence_count_received,
                     eip_level_sequence_count_consuming, sequence_count_consuming, heard,
                     accepted, assembly, quiet>>
  BY DEF ManageConnections
<1>4. /\ UNCHANGED <<established, master>>
      /\ Owner \in established => ~ (elapsed_time >= inactivity_watchdog_timer)
      /\ inactivity_watchdog_timer' =
           IF Owner \in established THEN inactivity_watchdog_timer - elapsed_time
                                    ELSE inactivity_watchdog_timer
      /\ IF master \in established THEN Produce(master, timers, counts)
                                   ELSE NotItsTurn(timers, counts)
  BY DEF ConnectionsStay, Expired
<1>5. /\ timers \in [Connections -> Nat]
      /\ \/ timers = transmission_trigger_timer
         \/ master \in established /\ timers[master] = InhibitTime /\ ~ Cyclic
  BY <1>1, TriggeredTimers DEF TypesOfNames
<1>6. Cyclic' = Cyclic /\ Least' = Least
  BY <1>3 DEF Cyclic, Least
<1>7. inactivity_watchdog_timer' \in Nat /\ inactivity_watchdog_timer' > 0
  BY <1>1, <1>4 DEF TypesOfNumbers
<1>8. Kinds'
  BY <1>1, <1>3 DEF Kinds
<1>9. WatchBand'
  BY <1>1, <1>2, <1>3, <1>4, Constants DEF WatchBand, Timeout, TypesOfNumbers
<1>10. CASE master \in established
  <2>1. master \in Connections /\ counts \in [Connections -> 0 .. Numbers - 1]
    BY <1>1, <1>10 DEF TypesOfNames
  <2>2. Produce(master, timers, counts)
    BY <1>4, <1>10
  <2>3. elapsed_time \in Nat
    BY <1>1 DEF TypesOfNumbers
  <2>4. /\ transmission_trigger_timer' \in [Connections -> Nat]
        /\ counts' \in [Connections -> 0 .. Numbers - 1]
        /\ Sent(master, timers, counts) \/ CountedDown(master, timers, counts)
    <3> HIDE DEF counts
    <3>1. counts' = eip_level_sequence_count_producing'
      BY DEF counts
    <3> QED
      BY <1>5, <2>1, <2>2, <2>3, <3>1, ProduceDoes
  <2>5. ~ restarted => counts[master] = last
    BY <1>2, <2>1, Names DEF Numbered
  <2>6. restarted \in BOOLEAN /\ master' = master
    BY <1>1, <1>4 DEF TypesOfNames
  <2>7. /\ Numbered' /\ waited' \in Nat /\ restarted' \in BOOLEAN
        /\ last' \in 0 .. Numbers - 1
        /\ \/ waited' + Timer' <= Rpi
           \/ /\ timers[master] > elapsed_time
              /\ waited' + Timer' = waited - elapsed_time + timers[master]
        /\ (~ restarted => timers[master] + waited - elapsed_time >= Least - LongestCycle)
             => LowerBand'
    <3> HIDE DEF counts
    <3> QED
      BY <1>1, <1>3, <1>5, <1>6, <2>1, <2>4, <2>5, <2>6, TurnKeeps
  <2>8. TypesOfNumbers'
    BY <1>1, <1>3, <1>7, <2>7, Constants DEF TypesOfNumbers, originatorVars
  <2>9. TypesOfNames'
    BY <1>1, <1>3, <1>4, <2>4, <2>7 DEF TypesOfNames
  <2>10. LowerBand'
    <3>1. ASSUME ~ restarted
          PROVE  timers[master] + waited - elapsed_time >= Least - LongestCycle
      <4>1. /\ Timer \in Nat /\ waited >= elapsed_time
            /\ waited - elapsed_time + Timer >= Least - LongestCycle
        BY <1>1, <1>2, <1>10, <2>1, <3>1 DEF LowerBand, TypesOfNames, Timer
      <4>2. timers[master] = Timer \/ (timers[master] = InhibitTime /\ ~ Cyclic)
        BY <1>5 DEF Timer
      <4> QED
        BY <1>1, <4>1, <4>2, LeastIs, Constants DEF TypesOfNumbers
    <3> QED
      BY <2>7, <3>1
  <2>11. UpperBand'
    <3>1. ASSUME Cyclic
          PROVE  waited' + Timer' <= Rpi + LongestCycle
                 /\ (Owner \in established => waited' + Timer' <= Rpi)
      <4>1. Timer \in Nat /\ timers[master] = Timer
        BY <1>1, <1>5, <2>1, <3>1 DEF TypesOfNames, Timer
      <4>2. waited' + Timer' \in Int
        <5>1. Timer' \in Int
          BY <2>1, <2>4, <2>6 DEF Timer
        <5>2. waited' \in Int
          BY <2>7
        <5> QED
          BY <5>1, <5>2
      <4>3. CASE waited' + Timer' <= Rpi
        BY <4>2, <4>3, Constants
      <4>4. CASE /\ Timer > elapsed_time
                 /\ waited' + Timer' = waited - elapsed_time + Timer
        <5>1. elapsed_time \in Nat /\ waited \in Nat /\ Timer # 0
          BY <1>1, <4>1, <4>4 DEF TypesOfNumbers
        <5>2. CASE master \in Inputs
          BY <1>2, <3>1, <4>2, <4>4, <5>1, <5>2, Constants, Names DEF UpperBand, Holder
        <5>3. CASE master = Owner
          <6>1. waited - elapsed_time + Timer <= Rpi
            BY <1>2, <1>10, <3>1, <4>1, <5>1, <5>3 DEF UpperBand
          <6> QED
            BY <4>2, <4>4, <5>1, <6>1, Constants
        <5> QED
          BY <2>1, <5>2, <5>3, Names
      <4> QED
        BY <2>7, <4>1, <4>3, <4>4
    <3>2. Timer' \in Nat
      BY <2>1, <2>4, <2>6 DEF Timer
    <3>3. ~ (master' = Owner /\ Owner \notin established')
      BY <1>4, <1>10
    <3>4. waited' - elapsed_time' + Timer' = waited' + Timer'
      BY <1>3, <2>7, <3>2
    <3> QED
      BY <1>4, <1>6, <3>1, <3>3, <3>4 DEF UpperBand
  <2>12. Holder'
    BY <1>2, <1>4, <1>10, <2>6 DEF Holder
  <2> QED
    BY <1>8, <1>9, <2>7, <2>8, <2>9, <2>10, <2>11, <2>12, Typing DEF TransportInv
<1>11. CASE master \notin established
  <2>1. /\ timers = transmission_trigger_timer
        /\ UNCHANGED <<transmission_trigger_timer, counts, waited, last, restarted>>
    BY <1>4, <1>5, <1>11 DEF NotItsTurn, streamVars
  <2>2. TypesOfNumbers'
    BY <1>1, <1>3, <1>7, <2>1, Constants DEF TypesOfNumbers, originatorVars
  <2>3. TypesOfNames'
    BY <1>1, <1>3, <1>4, <2>1 DEF TypesOfNames
  <2>4. Timer' = Timer
    BY <1>4, <2>1 DEF Timer
  <2>5. master \notin Inputs /\ Owner \notin established
    BY <1>2, <1>11 DEF Holder
  <2>6. UpperBand'
    BY <1>2, <1>4, <1>6, <2>1, <2>4, <2>5 DEF UpperBand
  <2>7. Holder' /\ LowerBand' /\ Numbered'
    BY <1>2, <1>4, <1>11, <2>1 DEF Holder, LowerBand, Numbered
  <2> QED
    BY <1>8, <1>9, <2>2, <2>3, <2>6, <2>7, Typing DEF TransportInv
<1> QED
  BY <1>10, <1>11

(* ManageConnections when the owner times out.                             *)
LEMMA TimeOutKeeps ==
  ASSUME TransportInv, ManageConnections, NEW timers \in Triggered, OwnerTimesOut(timers)
  PROVE  TransportInv'
<1> DEFINE counts == eip_level_sequence_count_producing
           handedTimers(h) == Handed(timers, Owner, h)
           handedCounts(h) == Handed(counts, Owner, h)
<1>1. TypesOfNumbers /\ TypesOfNames /\ Kinds
  BY Typing DEF TransportInv
<1>2. Holder /\ UpperBand /\ LowerBand /\ Numbered
  BY DEF TransportInv
<1>3. /\ elapsed_time' = 0
      /\ UNCHANGED <<production_trigger, originatorVars,
                     eip_first_level_sequence_count_received,
                     eip_level_sequence_count_consuming, sequence_count_consuming, heard,
                     accepted, assembly, quiet>>
  BY DEF ManageConnections
<1>4. /\ Owner \in established /\ elapsed_time >= inactivity_watchdog_timer
      /\ established' = established \ {Owner} /\ UNCHANGED inactivity_watchdog_timer
  BY DEF OwnerTimesOut, Expired
<1>5. PICK h \in Heirs(Owner) :
        IF h = NoConnection
        THEN /\ transmission_trigger_timer' = timers
             /\ restarted' = TRUE
             /\ UNCHANGED <<master, counts, waited, last>>
        ELSE /\ master' = MasterAfter(Owner, h)
             /\ \/ Produce(h, handedTimers(h), handedCounts(h))
                \/ NotItsTurn(handedTimers(h), handedCounts(h))
  BY DEF OwnerTimesOut
<1>6. (h = NoConnection /\ established \subseteq {Owner}) \/ h \in established \ {Owner}
  BY HeirsAre
<1>7. master = Owner /\ master \in Connections /\ master # NoConnection
  BY <1>2, <1>4, Names DEF Holder
<1>8. /\ timers \in [Connections -> Nat] /\ counts \in [Connections -> 0 .. Numbers - 1]
      /\ \/ timers = transmission_trigger_timer
         \/ timers[master] = InhibitTime /\ ~ Cyclic
  BY <1>1, TriggeredTimers DEF TypesOfNames
<1>9. Cyclic' = Cyclic /\ Least' = Least
  BY <1>3 DEF Cyclic, Least
<1>10. Kinds' /\ WatchBand'
  BY <1>1, <1>3, <1>4 DEF Kinds, WatchBand
<1>11. Cyclic => waited - elapsed_time + timers[master] <= Rpi
  <2>1. ~ (inactivity_watchdog_timer > LongestCycle)
    BY <1>1, <1>4, Constants DEF TypesOfNumbers
  <2> QED
    BY <1>2, <1>4, <1>8, <2>1 DEF UpperBand, Timer
<1>12. ~ restarted => timers[master] + waited - elapsed_time >= Least - LongestCycle
  <2>1. ASSUME ~ restarted
        PROVE  /\ Timer \in Nat /\ waited >= elapsed_time
               /\ waited - elapsed_time + Timer >= Least - LongestCycle
    BY <1>1, <1>2, <1>4, <1>7, <2>1 DEF LowerBand, TypesOfNames, Timer
  <2>2. timers[master] = Timer \/ (timers[master] = InhibitTime /\ ~ Cyclic)
    BY <1>8 DEF Timer
  <2> QED
    BY <1>1, <2>1, <2>2, LeastIs, Constants DEF TypesOfNumbers
<1>13. timers[master] \in Nat /\ waited \in Nat /\ elapsed_time \in Nat
       /\ elapsed_time <= LongestCycle
  BY <1>1, <1>7, <1>8 DEF TypesOfNumbers
<1>14. CASE h = NoConnection
  <2>1. /\ established' = {} /\ master' = Owner /\ restarted' = TRUE
        /\ transmission_trigger_timer' = timers
        /\ UNCHANGED <<counts, waited, last>>
    BY <1>1, <1>4, <1>5, <1>6, <1>7, <1>14, Names DEF TypesOfNames
  <2>2. Holder' /\ LowerBand' /\ Numbered'
    BY <2>1, Names DEF Holder, LowerBand, Numbered
  <2>3. Timer' = timers[master]
    BY <1>7, <2>1 DEF Timer
  <2>4. UpperBand'
    <3>1. Cyclic => waited + timers[master] <= Rpi + LongestCycle
      BY <1>11, <1>13, Constants
    <3> QED
      BY <1>9, <2>1, <2>3, <3>1, Names DEF UpperBand
  <2>5. TypesOfNumbers'
    BY <1>1, <1>3, <1>4, <2>1, Constants DEF TypesOfNumbers, originatorVars
  <2>6. TypesOfNames'
    BY <1>1, <1>3, <1>7, <1>8, <2>1 DEF TypesOfNames
  <2> QED
    BY <1>10, <2>2, <2>4, <2>5, <2>6, Typing DEF TransportInv
<1>15. CASE h # NoConnection
  <2>1. /\ h \in established \ {Owner} /\ h \in Connections /\ h \in Inputs /\ master' = h
        /\ Owner \notin established'
    BY <1>1, <1>4, <1>5, <1>6, <1>7, <1>15, Names DEF MasterAfter, TypesOfNames
  <2>2. handedTimers(h) = [timers EXCEPT ![h] = timers[master]]
        /\ handedCounts(h) = [counts EXCEPT ![h] = counts[master]]
    BY <1>7, <1>15 DEF Handed
  <2>3. /\ handedTimers(h) \in [Connections -> Nat]
        /\ handedTimers(h)[h] = timers[master]
    <3> HIDE DEF handedTimers
    <3> QED
      BY <1>7, <1>8, <2>1, <2>2
  <2>4. /\ handedCounts(h) \in [Connections -> 0 .. Numbers - 1]
        /\ handedCounts(h)[h] = counts[master]
    <3> HIDE DEF handedCounts, counts
    <3> QED
      BY <1>7, <1>8, <2>1, <2>2
  <2>5. ~ restarted => counts[master] = last
    BY <1>2, <1>7 DEF Numbered
  <2>6. restarted \in BOOLEAN
    BY <1>1 DEF TypesOfNames
  <2>7. Holder'
    BY <1>4, <2>1, Names DEF Holder
  <2>8. CASE Produce(h, handedTimers(h), handedCounts(h))
    <3> HIDE DEF handedTimers, handedCounts
    <3>1. /\ transmission_trigger_timer' \in [Connections -> Nat]
          /\ eip_level_sequence_count_producing' \in [Connections -> 0 .. Numbers - 1]
          /\ \/ Sent(h, handedTimers(h), handedCounts(h))
             \/ CountedDown(h, handedTimers(h), handedCounts(h))
      BY <1>13, <2>1, <2>3, <2>4, <2>8, ProduceDoes
    <3>2. /\ Numbered' /\ waited' \in Nat /\ restarted' \in BOOLEAN
          /\ last' \in 0 .. Numbers - 1
          /\ \/ waited' + Timer' <= Rpi
             \/ /\ handedTimers(h)[h] > elapsed_time
                /\ waited' + Timer' = waited - elapsed_time + handedTimers(h)[h]
          /\ (~ restarted =>
                handedTimers(h)[h] + waited - elapsed_time >= Least - LongestCycle)
               => LowerBand'
      <4>1. ~ restarted => handedCounts(h)[h] = last
        BY <2>4, <2>5
      <4> QED
        BY <1>1, <1>3, <1>9, <2>1, <2>3, <2>4, <2>6, <3>1, <4>1, TurnKeeps
    <3>3. LowerBand'
      BY <1>12, <2>3, <3>2
    <3>4. Timer' \in Int /\ waited' \in Int
      BY <2>1, <3>1, <3>2 DEF Timer
    <3>5. waited' + Timer' \in Int
      BY <3>4
    <3>6. UpperBand'
      <4>1. Cyclic => waited' + Timer' <= Rpi
        <5>1. \/ waited' + Timer' <= Rpi
              \/ waited' + Timer' = waited - elapsed_time + timers[master]
          BY <2>3, <3>2
        <5> QED
          BY <1>11, <5>1
      <4>2. Cyclic => waited' - elapsed_time' + Timer' <= Rpi + LongestCycle
        <5>1. waited' - elapsed_time' + Timer' = waited' + Timer'
          BY <1>3, <3>4
        <5> QED
          BY <3>5, <4>1, <5>1, Constants
      <4> QED
        BY <1>9, <2>1, <4>2, Names DEF UpperBand
    <3>7. TypesOfNumbers'
      BY <1>1, <1>3, <1>4, <3>2, Constants DEF TypesOfNumbers, originatorVars
    <3>8. TypesOfNames'
      BY <1>1, <1>3, <1>4, <2>1, <3>1, <3>2 DEF TypesOfNames
    <3> QED
      BY <1>10, <2>7, <3>2, <3>3, <3>6, <3>7, <3>8, Typing DEF TransportInv
  <2>9. CASE NotItsTurn(handedTimers(h), handedCounts(h))
    <3> HIDE DEF handedTimers, handedCounts
    <3>1. /\ transmission_trigger_timer' = handedTimers(h)
          /\ eip_level_sequence_count_producing' = handedCounts(h)
          /\ UNCHANGED <<waited, last, restarted>>
      BY <2>9 DEF NotItsTurn, streamVars
    <3>2. Timer' = timers[master]
      BY <2>1, <2>3, <3>1 DEF Timer
    <3>3. Numbered'
      BY <2>1, <2>4, <2>5, <3>1 DEF Numbered
    <3>4. LowerBand'
      <4>1. ~ restarted => waited - 0 + timers[master] >= Least - LongestCycle
        BY <1>12, <1>13, LeastIs, Constants
      <4>2. waited >= 0
        BY <1>13
      <4> QED
        BY <1>3, <1>9, <3>1, <3>2, <4>1, <4>2 DEF LowerBand
    <3>5. UpperBand'
      <4>1. Cyclic => waited - 0 + timers[master] <= Rpi + LongestCycle
        BY <1>11, <1>13, Constants
      <4> QED
        BY <1>3, <1>9, <2>1, <3>1, <3>2, <4>1, Names DEF UpperBand
    <3>6. TypesOfNumbers'
      BY <1>1, <1>3, <1>4, <3>1, Constants DEF TypesOfNumbers, originatorVars
    <3>7. TypesOfNames'
      BY <1>1, <1>3, <1>4, <2>1, <2>3, <2>4, <2>6, <3>1 DEF TypesOfNames
    <3> QED
      BY <1>10, <2>7, <3>3, <3>4, <3>5, <3>6, <3>7, Typing DEF TransportInv
  <2> QED
    BY <1>5, <1>15, <2>8, <2>9
<1> QED
  BY <1>14, <1>15

-----------------------------------------------------------------------------
(* Every step keeps the invariant.                                         *)
LEMMA TransportStep == TransportInv /\ [Next]_transportVars => TransportInv'
<1> SUFFICES ASSUME TransportInv, [Next]_transportVars PROVE TransportInv'
  OBVIOUS
<1>1. CASE \E c \in Inputs : OpenInputOnly(c)
  BY <1>1, OpenInputOnlyKeeps
<1>2. CASE OpenOwner
  BY <1>2, OpenOwnerKeeps
<1>3. CASE \E c \in Connections : CloseIoConnection(c)
  BY <1>3, CloseKeeps
<1>4. CASE \E age \in 0 .. Delay : HandleReceivedConnectedData(age)
  BY <1>4, ReceiveKeeps
<1>5. CASE \E sends \in BOOLEAN : Tick(sends)
  BY <1>5, TickKeeps
<1>6. CASE ManageConnections
  <2>1. PICK timers \in Triggered : ConnectionsStay(timers) \/ OwnerTimesOut(timers)
    BY <1>6 DEF ManageConnections
  <2> QED
    BY <1>6, <2>1, StayKeeps, TimeOutKeeps
<1>7. CASE UNCHANGED transportVars
  BY <1>7 DEF transportVars, consumerVars, originatorVars, producerVars, streamVars,
              TransportInv, TransportTypeOK, Holder, WatchBand, Timeout, UpperBand, Timer,
              Cyclic, LowerBand, Least, Numbered
<1> QED
  BY <1>1, <1>2, <1>3, <1>4, <1>5, <1>6, <1>7 DEF Next

(* The invariant holds in every reachable state.                           *)
THEOREM TransportInvariant == Spec => []TransportInv
BY TransportInitially, TransportStep, PTL DEF Spec

(* Timers, watchdogs and sequence numbers keep their types whoever          *)
(* produces: no watchdog of an established connection is counted to 0.     *)
THEOREM TransportTypeCorrect == Spec => []TransportTypeOK
<1>1. TransportInv => TransportTypeOK
  BY DEF TransportInv
<1> QED
  BY <1>1, TransportInvariant, PTL

(* A silent owner is timed out within its timeout and a cycle.             *)
THEOREM SilenceBounded == Spec => []SilenceEnds
<1>1. TransportInv => SilenceEnds
  <2> SUFFICES ASSUME TransportInv, Owner \in established
               PROVE  quiet < Timeout + LongestCycle
    BY DEF SilenceEnds, Timeout
  <2>1. TypesOfNumbers
    BY Typing DEF TransportInv
  <2>2. inactivity_watchdog_timer + quiet - elapsed_time <= Timeout
    BY DEF TransportInv, WatchBand
  <2>3. Timeout \in Nat
    BY Constants DEF Timeout
  <2> QED
    BY <2>1, <2>2, <2>3, Constants DEF TypesOfNumbers
<1> QED
  BY <1>1, TransportInvariant, PTL

(* Listeners wait for a packet at most the interval and two cycles.        *)
THEOREM StreamBounded == Spec => []StreamGoesOn
<1>1. TransportInv => StreamGoesOn
  <2> SUFFICES ASSUME TransportInv, Cyclic, master \in established
               PROVE  waited <= Rpi + 2 * LongestCycle
    BY DEF StreamGoesOn, Cyclic
  <2>1. TypesOfNumbers /\ TypesOfNames
    BY Typing DEF TransportInv
  <2>2. waited - elapsed_time <= Rpi + LongestCycle
    <3>1. Timer \in Nat /\ (master \in Inputs \/ master = Owner)
      BY <2>1, Names DEF TypesOfNames, Timer
    <3>2. CASE master \in Inputs
      BY <2>1, <3>1, <3>2, Constants DEF TransportInv, UpperBand, TypesOfNumbers
    <3>3. CASE master = Owner
      BY <2>1, <3>1, <3>3, Constants DEF TransportInv, UpperBand, TypesOfNumbers
    <3> QED
      BY <3>1, <3>2, <3>3
  <2> QED
    BY <2>1, <2>2, Constants DEF TypesOfNumbers
<1> QED
  BY <1>1, TransportInvariant, PTL

-----------------------------------------------------------------------------
(* A watchdog ends a connection only after its timeout without a packet.   *)
NotEarly ==
  elapsed_time' # elapsed_time /\ Owner \in established \ established'
    => quiet >= Timeout - LongestCycle

LEMMA NotEarlyStep == TransportInv /\ [Next]_transportVars => NotEarly
<1> SUFFICES ASSUME TransportInv, [Next]_transportVars,
                    elapsed_time' # elapsed_time, Owner \in established,
                    Owner \notin established'
             PROVE  quiet >= Timeout - LongestCycle
  BY DEF NotEarly
<1>1. ManageConnections
  <2>1. ASSUME NEW c \in Connections
        PROVE  ~ EstablishIoConnection(c) /\ ~ CloseIoConnection(c)
    BY DEF EstablishIoConnection, CloseIoConnection
  <2>2. \A c \in Inputs : ~ OpenInputOnly(c)
    BY <2>1, Names DEF OpenInputOnly
  <2>3. ~ OpenOwner
    BY <2>1, Names DEF OpenOwner
  <2>4. \A age \in 0 .. Delay : ~ HandleReceivedConnectedData(age)
    BY DEF HandleReceivedConnectedData
  <2>5. \A sends \in BOOLEAN : ~ Tick(sends)
    BY DEF Tick
  <2>6. ~ UNCHANGED transportVars
    BY DEF transportVars
  <2> QED
    BY <2>1, <2>2, <2>3, <2>4, <2>5, <2>6 DEF Next
<1>2. Expired
  <2>1. PICK timers \in Triggered : ConnectionsStay(timers) \/ OwnerTimesOut(timers)
    BY <1>1 DEF ManageConnections
  <2>2. OwnerTimesOut(timers)
    BY <2>1 DEF ConnectionsStay
  <2> QED
    BY <2>2 DEF OwnerTimesOut
<1>3. TypesOfNumbers
  BY Typing DEF TransportInv
<1>4. inactivity_watchdog_timer + quiet - elapsed_time >= Timeout - LongestCycle
  BY DEF TransportInv, WatchBand
<1>5. Timeout \in Nat
  BY Constants DEF Timeout
<1> QED
  BY <1>2, <1>3, <1>4, <1>5, Constants DEF Expired, TypesOfNumbers

(* No connection times out before its time.                                *)
THEOREM TimeOutsJustified == Spec => NotTimedOutEarly
<1>1. TransportInv /\ [Next]_transportVars
        => [elapsed_time' # elapsed_time /\ Owner \in established \ established'
             => quiet >= (IF heard = 0 THEN InitialWatchdog ELSE Watchdog)
                         - LongestCycle]_transportVars
  BY NotEarlyStep DEF NotEarly, Timeout
<1> QED
  BY <1>1, TransportInvariant, PTL DEF Spec, NotTimedOutEarly

(* A packet that does not begin a stream anew has the next number, and     *)
(* comes in its time.                                                      *)
Successive ==
  waited' < waited /\ ~ restarted /\ ~ restarted'
    => last' = (last + 1) % Numbers /\ waited >= Least - LongestCycle

LEMMA SuccessiveStep == TransportInv /\ [Next]_transportVars => Successive
<1> SUFFICES ASSUME TransportInv, [Next]_transportVars,
                    waited' < waited, ~ restarted, ~ restarted'
             PROVE  last' = (last + 1) % Numbers /\ waited >= Least - LongestCycle
  BY DEF Successive
<1>1. TypesOfNumbers /\ TypesOfNames
  BY Typing DEF TransportInv
<1>2. Holder /\ LowerBand /\ Numbered
  BY DEF TransportInv
<1>3. waited' # waited
  BY <1>1 DEF TypesOfNumbers
<1>4. ManageConnections
  <2>1. ASSUME NEW c \in Connections PROVE ~ EstablishIoConnection(c)
    <3>1. ~ Takes(c) /\ ~ Joins(c)
      BY <1>3 DEF Takes, Joins
    <3> QED
      BY <3>1, EstablishDoes
  <2>2. \A c \in Connections : ~ CloseIoConnection(c)
    BY <1>3 DEF CloseIoConnection, streamVars
  <2>3. \A c \in Inputs : ~ OpenInputOnly(c)
    BY <2>1, Names DEF OpenInputOnly
  <2>4. ~ OpenOwner
    BY <2>1, Names DEF OpenOwner
  <2>5. \A age \in 0 .. Delay : ~ HandleReceivedConnectedData(age)
    BY <1>3 DEF HandleReceivedConnectedData, streamVars
  <2>6. \A sends \in BOOLEAN : ~ Tick(sends)
    <3>1. ~ (waited + 1 < waited)
      BY <1>1 DEF TypesOfNumbers
    <3> QED
      BY <1>3, <3>1 DEF Tick
  <2>7. ~ UNCHANGED transportVars
    BY <1>3 DEF transportVars, streamVars
  <2> QED
    BY <2>2, <2>3, <2>4, <2>5, <2>6, <2>7 DEF Next
<1>5. PICK timers \in Triggered : ConnectionsStay(timers) \/ OwnerTimesOut(timers)
  BY <1>4 DEF ManageConnections
<1>6. /\ timers \in [Connections -> Nat]
      /\ \/ timers = transmission_trigger_timer
         \/ timers[master] = InhibitTime /\ ~ Cyclic
  BY <1>1, TriggeredTimers DEF TypesOfNames
<1>7. master \in established /\ master \in Connections
  <2>1. CASE ConnectionsStay(timers)
    <3>1. master \in established
      BY <1>3, <2>1 DEF ConnectionsStay, NotItsTurn, streamVars
    <3> QED
      BY <1>1, <3>1 DEF TypesOfNames
  <2>2. CASE OwnerTimesOut(timers)
    BY <1>2, <2>2, Names DEF OwnerTimesOut, Expired, Holder
  <2> QED
    BY <1>5, <2>1, <2>2
<1>8. /\ timers[master] <= elapsed_time
      /\ last' = (eip_level_sequence_count_producing[master] + 1) % Numbers
  <2>1. CASE ConnectionsStay(timers)
    BY <1>3, <1>7, <2>1 DEF ConnectionsStay, Produce, streamVars
  <2>2. CASE OwnerTimesOut(timers)
    <3>1. Owner \in established /\ master = Owner
      BY <1>2, <2>2 DEF OwnerTimesOut, Expired, Holder
    <3>2. PICK h \in Heirs(Owner) :
            IF h = NoConnection
            THEN UNCHANGED waited
            ELSE LET handedTimers == Handed(timers, Owner, h)
                     handedCounts == Handed(eip_level_sequence_count_producing, Owner, h)
                 IN  \/ Produce(h, handedTimers, handedCounts)
                     \/ NotItsTurn(handedTimers, handedCounts)
      BY <2>2 DEF OwnerTimesOut
    <3>3. h # NoConnection /\ h \in Connections
      BY <1>1, <1>3, <3>2, HeirsAre DEF TypesOfNames
    <3>4. Produce(h, Handed(timers, Owner, h),
                  Handed(eip_level_sequence_count_producing, Owner, h))
      BY <1>3, <3>2, <3>3 DEF NotItsTurn, streamVars
    <3>5. /\ Handed(timers, Owner, h)[h] = timers[master]
          /\ Handed(eip_level_sequence_count_producing, Owner, h)[h]
               = eip_level_sequence_count_producing[master]
      BY <1>1, <1>6, <3>1, <3>3 DEF Handed, TypesOfNames
    <3> QED
      BY <1>3, <3>4, <3>5 DEF Produce, streamVars
  <2> QED
    BY <1>5, <2>1, <2>2
<1>9. eip_level_sequence_count_producing[master] = last
  BY <1>2, <1>7, Names DEF Numbered
<1>10. waited >= Least - LongestCycle
  <2>1. /\ Timer \in Nat /\ waited >= elapsed_time
        /\ waited - elapsed_time + Timer >= Least - LongestCycle
    BY <1>1, <1>2, <1>7 DEF LowerBand, TypesOfNames, Timer
  <2>2. Timer <= elapsed_time \/ (InhibitTime <= elapsed_time /\ ~ Cyclic)
    BY <1>6, <1>8 DEF Timer
  <2> QED
    BY <1>1, <2>1, <2>2, LeastIs, Constants DEF TypesOfNumbers
<1> QED
  BY <1>8, <1>9, <1>10

(* The packets of a stream have consecutive numbers and keep their         *)
(* distance whoever produces them.                                         *)
THEOREM StreamNumbered == Spec => StreamInSequence
<1>1. TransportInv /\ [Next]_transportVars
        => [ waited' < waited /\ ~ restarted /\ ~ restarted'
               => /\ last' = (last + 1) % Numbers
                  /\ waited >= (IF production_trigger = "Cyclic" \/ Rpi <= InhibitTime
                                THEN Rpi ELSE InhibitTime) - LongestCycle ]_transportVars
  BY SuccessiveStep DEF Successive, Least, Cyclic
<1> QED
  BY <1>1, TransportInvariant, PTL DEF Spec, StreamInSequence

-----------------------------------------------------------------------------
(* For the provers the remainder is an operator like any other.            *)
Remainder(a, n) == a % n

-----------------------------------------------------------------------------
(* Arithmetic of remainders: a multiple smaller than the modulus is none,  *)
LEMMA SmallMultiple ==
  ASSUME NEW N \in Nat, N > 0, NEW q \in Int, q * N < N, q * N > -N
  PROVE  q = 0
<1>1. CASE q >= 1
  <2>1. q * N = N + (q - 1) * N
    BY SMT
  <2>2. (q - 1) * N >= 0
    BY <1>1, SMT
  <2> QED  BY <1>1, <2>1, <2>2
<1>2. CASE q <= -1
  <2>1. q * N = (q + 1) * N - N
    BY SMT
  <2>2. (q + 1) * N <= 0
    BY <1>2, SMT
  <2> QED  BY <1>2, <2>1, <2>2
<1> QED  BY <1>1, <1>2

(* what is left of a number is a multiple,                                 *)
LEMMA DivMod ==
  ASSUME NEW N \in Nat, N > 0, NEW a \in Int, NEW r, r = a % N
  PROVE  r \in Int /\ 0 <= r /\ r < N /\ \E q \in Int : a = q * N + r
<1>1. r \in 0 .. N - 1
  OBVIOUS
<1>2. PICK q \in Int : q = a \div N
  OBVIOUS
<1>3. N * q + r = a
  BY <1>1, <1>2
<1>4. a = q * N + r
  BY ONLY <1>1, <1>2, <1>3, a \in Int, N \in Nat
<1> QED  BY <1>1, <1>2, <1>4

(* a number has one remainder,                                             *)
LEMMA OneRemainder ==
  ASSUME NEW N \in Nat, N > 0, NEW q \in Int, NEW p \in Int,
         NEW r \in Int, 0 <= r, r < N, NEW s \in Int, 0 <= s, s < N,
         q * N + r = p * N + s
  PROVE  r = s
<1>1. PICK k \in Int : k = q - p
  OBVIOUS
<1>2. k * N = q * N - p * N
  BY <1>1
<1>3. k * N = s - r
  BY <1>2
<1>4. k = 0
  BY <1>3, SmallMultiple
<1> QED  BY <1>3, <1>4

(* and numbers that differ by a multiple have the same.                    *)
LEMMA SameRemainder ==
  ASSUME NEW N \in Nat, N > 0, NEW a \in Int, NEW b \in Int, NEW k \in Int, a = b + k * N
  PROVE  a % N = b % N
<1>1. PICK r, s : r = a % N /\ s = b % N
  OBVIOUS
<1>2. r \in Int /\ 0 <= r /\ r < N /\ \E q \in Int : a = q * N + r
  BY <1>1, DivMod
<1>3. s \in Int /\ 0 <= s /\ s < N /\ \E q \in Int : b = q * N + s
  BY <1>1, DivMod
<1>4. PICK q \in Int : a = q * N + r
  BY <1>2
<1>5. PICK p \in Int : b = p * N + s
  BY <1>3
<1>6. PICK j \in Int : j = p + k
  OBVIOUS
<1>7. j * N = p * N + k * N
  BY <1>6
<1>8. q * N + r = j * N + s
  BY <1>2, <1>3, <1>4, <1>5, <1>7
<1>9. r = s
  BY <1>2, <1>3, <1>8, OneRemainder
<1> QED  BY <1>1, <1>9

(* A number may be reduced before another is subtracted from it,           *)
LEMMA ReducedMinus ==
  ASSUME NEW N \in Nat, N > 0, NEW x \in Int, NEW y \in Int
  PROVE  Remainder(Remainder(x, N) - y, N) = Remainder(x - y, N)
<1>1. PICK r : r = x % N
  OBVIOUS
<1>2. r \in Int /\ \E q \in Int : x = q * N + r
  BY <1>1, DivMod
<1>3. PICK q \in Int : x = q * N + r
  BY <1>2
<1>4. PICK a \in Int, b \in Int : a = x - y /\ b = r - y
  BY <1>2
<1>5. a = b + q * N
  <2>1. PICK m \in Int : m = q * N
    OBVIOUS
  <2> QED  BY <1>2, <1>3, <1>4, <2>1
<1>6. a % N = b % N
  BY <1>5, SameRemainder
<1>7. (r - y) % N = (x - y) % N
  BY <1>4, <1>6
<1> QED  BY <1>1, <1>7 DEF Remainder

(* and so may the other.                                                   *)
LEMMA MinusReduced ==
  ASSUME NEW N \in Nat, N > 0, NEW x \in Int, NEW y \in Int
  PROVE  Remainder(Remainder(x, N) - Remainder(y, N), N) = Remainder(x - y, N)
<1>1. PICK s : s = Remainder(y, N)
  OBVIOUS
<1>2. s \in Int /\ \E q \in Int : y = q * N + s
  BY <1>1, DivMod DEF Remainder
<1>3. PICK q \in Int : y = q * N + s
  BY <1>2
<1>4. Remainder(Remainder(x, N) - s, N) = Remainder(x - s, N)
  BY <1>2, ReducedMinus
<1>5. PICK a \in Int, b \in Int : a = x - s /\ b = x - y
  BY <1>2
<1>6. a = b + q * N
  <2>1. PICK m \in Int : m = q * N
    OBVIOUS
  <2> QED  BY <1>2, <1>3, <1>5, <2>1
<1>7. a % N = b % N
  BY <1>6, SameRemainder
<1>8. Remainder(x - s, N) = Remainder(x - y, N)
  BY <1>5, <1>7 DEF Remainder
<1> QED  BY <1>1, <1>4, <1>8

(* A number of at most half the modulus is ahead, its opposite behind.     *)
LEMMA Ahead ==
  ASSUME NEW N \in Nat, N > 0, NEW d \in Int
  PROVE  /\ 0 <= d /\ d < N => d % N = d
         /\ d < 0 /\ -N < d => d % N = d + N
<1>1. ASSUME NEW e \in Int, 0 <= e, e < N
      PROVE  e % N = e
  <2>1. e \in 0 .. N - 1
    BY <1>1
  <2> QED  BY <2>1
<1>2. ASSUME d < 0, -N < d
      PROVE  d % N = d + N
  <2>1. PICK e \in Int : e = d + N
    OBVIOUS
  <2>2. e % N = e
    BY <1>1, <1>2, <2>1
  <2>3. PICK k \in Int : e = d + k * N
    <3>1. e = d + 1 * N
      BY <2>1
    <3> QED  BY <3>1
  <2>4. e % N = d % N
    BY <2>3, SameRemainder
  <2> QED  BY <2>1, <2>2, <2>4
<1> QED  BY <1>1, <1>2

(* A packet is newer than another just if it is younger, as long as the    *)
(* two ages are less than half of the numbers.                             *)
LEMMA YoungerIsGreater ==
  ASSUME NEW N \in Nat, N > 1, NEW x \in Int, NEW a \in Nat, NEW b \in Nat,
         2 * a < N, 2 * b < N
  PROVE  SequenceGreater((x - b) % N, (x - a) % N, N) <=> b < a
<1>1. PICK d \in Int : d = a - b
  OBVIOUS
<1>2. PICK r, s : r = (x - b) % N /\ s = (x - a) % N
  OBVIOUS
<1>3. (r - s) % N = d % N
  <2>1. PICK u \in Int, v \in Int : u = x - b /\ v = x - a
    OBVIOUS
  <2>2. Remainder(Remainder(u, N) - Remainder(v, N), N) = Remainder(u - v, N)
    <3>1. N > 0 /\ u \in Int /\ v \in Int /\ N \in Nat
      OBVIOUS
    <3> QED  BY <3>1, MinusReduced, Zenon
  <2>3. u - v = d
    BY <1>1, <2>1
  <2>4. Remainder(u, N) = r /\ Remainder(v, N) = s
    BY <1>2, <2>1 DEF Remainder
  <2> QED  BY <2>2, <2>3, <2>4 DEF Remainder
<1>4. CASE b < a
  <2>1. d % N = d
    BY <1>1, <1>4, Ahead
  <2>2. 2 * ((r - s) % N) < N
    BY <1>1, <1>3, <2>1
  <2>3. r # s
    <3>1. ASSUME r = s  PROVE FALSE
      <4>1. r \in Int
        BY <1>2
      <4>2. r - s = 0 /\ 0 % N = 0
        BY <3>1, <4>1, Ahead
      <4> QED  BY <1>1, <1>3, <1>4, <2>1, <4>2
    <3> QED  BY <3>1
  <2> QED  BY <1>2, <1>4, <2>2, <2>3 DEF SequenceGreater
<1>5. CASE b = a
  <2>1. r = s
    BY <1>2, <1>5
  <2> QED  BY <1>2, <1>5, <2>1 DEF SequenceGreater
<1>6. CASE b > a
  <2>1. d % N = d + N
    BY <1>1, <1>6, Ahead
  <2>2. ~ 2 * ((r - s) % N) < N
    BY <1>1, <1>3, <2>1
  <2> QED  BY <1>2, <1>6, <2>2 DEF SequenceGreater
<1> QED  BY <1>4, <1>5, <1>6

-----------------------------------------------------------------------------
(* The numbers of the connection are those of the last packet accepted,    *)
(* which is at most as old as the time since, and how many can overtake it *)
(* say; the second packet brings its data into the assembly.               *)
ConsumerInv ==
  /\ eip_first_level_sequence_count_received <=> heard # 0
  /\ heard # 0 =>
       /\ eip_level_sequence_count_consuming = (number - accepted) % Numbers
       /\ sequence_count_consuming = (data_number - accepted) % DataNumbers
       /\ Owner \in established => accepted <= Delay + quiet
  /\ FreshData

ConsumerInputs ==
  <<eip_first_level_sequence_count_received, eip_level_sequence_count_consuming,
    sequence_count_consuming, heard, accepted, assembly, originatorVars, quiet>>

(* A step that leaves alone the owner's numbers and does not establish it. *)
LEMMA NothingConsumed ==
  ASSUME ConsumerInv, UNCHANGED ConsumerInputs,
         Owner \in established' => Owner \in established
  PROVE  ConsumerInv'
<1>1. /\ eip_first_level_sequence_count_received' = eip_first_level_sequence_count_received
      /\ eip_level_sequence_count_consuming' = eip_level_sequence_count_consuming
      /\ sequence_count_consuming' = sequence_count_consuming
      /\ heard' = heard /\ accepted' = accepted /\ assembly' = assembly /\ quiet' = quiet
      /\ number' = number /\ data_number' = data_number
  BY DEF ConsumerInputs, originatorVars
<1> QED
  BY <1>1 DEF ConsumerInv, FreshData

(* In every connection that has heard a packet the numbers used since are  *)
(* fewer than half of them: the watchdog ends it before.                   *)
LEMMA FewUsed ==
  ASSUME TransportInv, ConsumerInv, Owner \in established, heard # 0
  PROVE  /\ accepted \in Nat /\ 2 * accepted < Numbers /\ 2 * accepted < DataNumbers
<1>1. accepted \in Nat /\ quiet \in Nat /\ elapsed_time \in 0 .. LongestCycle
      /\ inactivity_watchdog_timer \in Nat \ {0}
  BY Typing DEF TransportInv, TypesOfNumbers
<1>2. accepted <= Delay + quiet
  BY DEF ConsumerInv
<1>3. inactivity_watchdog_timer + quiet - elapsed_time <= Watchdog
  BY DEF TransportInv, WatchBand, Timeout
<1>4. quiet < Watchdog + LongestCycle
  BY <1>1, <1>3, Constants
<1>5. /\ 2 * (Watchdog + LongestCycle + Delay) < Numbers
      /\ 2 * (Watchdog + LongestCycle + Delay) < DataNumbers
  BY TransportAssumption
<1> QED
  BY <1>1, <1>2, <1>4, <1>5, Constants

(* A packet is accepted if it is the first or younger than the last one,   *)
(* and in the second case its data are new too.                            *)
LEMMA YoungerAccepted ==
  ASSUME TransportInv, ConsumerInv, NEW age \in 0 .. Delay,
         HandleReceivedConnectedData(age), heard # 0
  PROVE  age < accepted /\ assembly' = age
<1>1. /\ Owner \in established
      /\ \/ SequenceGreater((number - age) % Numbers, eip_level_sequence_count_consuming, Numbers)
         \/ ~ eip_first_level_sequence_count_received
      /\ assembly' = IF SequenceGreater((data_number - age) % DataNumbers,
                                        sequence_count_consuming, DataNumbers)
                     THEN age ELSE assembly
  BY DEF HandleReceivedConnectedData
<1>2. /\ eip_first_level_sequence_count_received
      /\ eip_level_sequence_count_consuming = (number - accepted) % Numbers
      /\ sequence_count_consuming = (data_number - accepted) % DataNumbers
  BY DEF ConsumerInv
<1>3. accepted \in Nat /\ 2 * accepted < Numbers /\ 2 * accepted < DataNumbers
  BY <1>1, FewUsed
<1>4. age \in Nat /\ 2 * age < Numbers /\ 2 * age < DataNumbers
  <2>1. /\ 2 * (Watchdog + LongestCycle + Delay) < Numbers
        /\ 2 * (Watchdog + LongestCycle + Delay) < DataNumbers
    BY TransportAssumption
  <2> QED  BY <2>1, Constants
<1>5. number \in Int /\ data_number \in Int
  BY Typing DEF TransportInv, TypesOfNumbers
<1>6. age < accepted
  <2>1. SequenceGreater((number - age) % Numbers, (number - accepted) % Numbers, Numbers)
    BY <1>1, <1>2
  <2> QED  BY <2>1, <1>3, <1>4, <1>5, Constants, YoungerIsGreater
<1>7. SequenceGreater((data_number - age) % DataNumbers,
                      (data_number - accepted) % DataNumbers, DataNumbers)
  BY <1>3, <1>4, <1>5, <1>6, Constants, YoungerIsGreater
<1> QED
  BY <1>1, <1>2, <1>6, <1>7

(* Every step keeps the numbers of the last packet.                        *)
LEMMA ConsumerStep ==
  ASSUME TransportInv, ConsumerInv, [Next]_transportVars
  PROVE  ConsumerInv'
<1>1. ASSUME NEW c \in Inputs, OpenInputOnly(c)  PROVE ConsumerInv'
  <2>1. UNCHANGED ConsumerInputs
    BY <1>1 DEF OpenInputOnly, EstablishIoConnection, ConsumerInputs, consumerVars,
                originatorVars
  <2>2. established' = established \union {c}
    BY <1>1 DEF OpenInputOnly, EstablishIoConnection
  <2> QED
    BY <2>1, <2>2, Names, NothingConsumed
<1>2. CASE OpenOwner
  <2>1. ~ eip_first_level_sequence_count_received' /\ heard' = 0
    BY <1>2 DEF OpenOwner
  <2> QED
    BY <2>1 DEF ConsumerInv, FreshData
<1>3. ASSUME NEW c \in Connections, CloseIoConnection(c)  PROVE ConsumerInv'
  <2>1. UNCHANGED ConsumerInputs
    BY <1>3 DEF CloseIoConnection, ConsumerInputs, consumerVars
  <2>2. established' = established \ {c}
    BY <1>3 DEF CloseIoConnection
  <2> QED
    BY <2>1, <2>2, NothingConsumed
<1>4. ASSUME NEW age \in 0 .. Delay, HandleReceivedConnectedData(age)  PROVE ConsumerInv'
  <2>1. /\ eip_first_level_sequence_count_received' = TRUE
        /\ eip_level_sequence_count_consuming' = (number - age) % Numbers
        /\ sequence_count_consuming' = (data_number - age) % DataNumbers
        /\ heard' = IF heard = 0 THEN 1 ELSE 2
        /\ accepted' = age /\ quiet' = 0 /\ number' = number /\ data_number' = data_number
    BY <1>4 DEF HandleReceivedConnectedData, DataCountAfter, originatorVars
  <2>2. accepted' <= Delay + quiet'
    BY <2>1, Constants
  <2>3. FreshData'
    <3>1. CASE heard = 0
      BY <2>1, <3>1 DEF FreshData
    <3>2. CASE heard # 0
      BY <1>4, <2>1, <3>2, YoungerAccepted DEF FreshData
    <3> QED  BY <3>1, <3>2
  <2> QED
    BY <2>1, <2>2, <2>3 DEF ConsumerInv
<1>5. ASSUME NEW sends \in BOOLEAN, Tick(sends)  PROVE ConsumerInv'
  <2> DEFINE count == IF sends THEN 1 ELSE 0
  <2>1. /\ sends => Owner \in established
        /\ number' = (number + count) % Numbers
        /\ data_number' = (data_number + count) % DataNumbers
        /\ accepted' = accepted + count /\ assembly' = assembly + count
        /\ quiet' = IF Owner \in established THEN quiet + 1 ELSE quiet
        /\ established' = established /\ heard' = heard
        /\ eip_first_level_sequence_count_received' = eip_first_level_sequence_count_received
        /\ eip_level_sequence_count_consuming' = eip_level_sequence_count_consuming
        /\ sequence_count_consuming' = sequence_count_consuming
    BY <1>5 DEF Tick
  <2>2. count \in 0 .. 1
    OBVIOUS
  <2> HIDE DEF count
  <2>3. accepted \in Nat /\ quiet \in Nat /\ number \in Int /\ data_number \in Int
    BY Typing DEF TransportInv, TypesOfNumbers
  <2>4. ASSUME NEW N \in Nat, N > 0, NEW x \in Int
        PROVE  (((x + count) % N) - (accepted + count)) % N = (x - accepted) % N
    <3>1. PICK u \in Int, v \in Int : u = x + count /\ v = accepted + count
      BY <2>2, <2>3
    <3>2. Remainder(Remainder(u, N) - v, N) = Remainder(u - v, N)
      BY <2>4, ReducedMinus
    <3>3. u - v = x - accepted
      BY <2>2, <2>3, <3>1
    <3> QED  BY <3>1, <3>2, <3>3 DEF Remainder
  <2>5. (number' - accepted') % Numbers = (number - accepted) % Numbers
    BY <2>1, <2>3, <2>4, Constants
  <2>6. (data_number' - accepted') % DataNumbers = (data_number - accepted) % DataNumbers
    BY <2>1, <2>3, <2>4, Constants
  <2>7. Owner \in established /\ accepted <= Delay + quiet => accepted' <= Delay + quiet'
    BY <2>1, <2>2, <2>3, Constants
  <2>8. FreshData'
    BY <2>1 DEF ConsumerInv, FreshData
  <2> QED
    BY <2>1, <2>5, <2>6, <2>7, <2>8 DEF ConsumerInv
<1>6. CASE ManageConnections
  <2>1. UNCHANGED ConsumerInputs
    BY <1>6 DEF ManageConnections, ConsumerInputs, originatorVars
  <2>2. established' \subseteq established
    BY <1>6 DEF ManageConnections, ConnectionsStay, OwnerTimesOut
  <2> QED
    BY <2>1, <2>2, NothingConsumed
<1>7. CASE UNCHANGED transportVars
  BY <1>7, NothingConsumed DEF transportVars, ConsumerInputs, consumerVars, originatorVars
<1> QED
  BY <1>1, <1>2, <1>3, <1>4, <1>5, <1>6, <1>7 DEF Next

(* In every reachable state the numbers are those of the last packet.      *)
THEOREM ConsumerInvariant == Spec => []ConsumerInv
<1>1. Init => ConsumerInv
  BY DEF Init, ConsumerInv, FreshData
<1>2. TransportInv /\ ConsumerInv /\ [Next]_transportVars => ConsumerInv'
  BY ConsumerStep
<1> QED
  BY <1>1, <1>2, TransportInvariant, PTL DEF Spec

(* Once a second packet has been accepted, the assembly holds the data of  *)
(* the last one, for every length of the sequence numbers that a silent    *)
(* owner cannot half use up.                                               *)
THEOREM AssemblyFresh == Spec => []FreshData
<1>1. ConsumerInv => FreshData
  BY DEF ConsumerInv
<1> QED
  BY <1>1, ConsumerInvariant, PTL

(* A packet that is accepted after the first is younger than the last one. *)
NotBack == heard' = 2 /\ number' = number => accepted' <= accepted

(* No step accepts an older one.                                           *)
LEMMA NotBackStep ==
  ASSUME TransportInv, ConsumerInv, [Next]_transportVars
  PROVE  NotBack
<1>0. accepted \in Nat /\ number \in 0 .. Numbers - 1
  BY Typing DEF TransportInv, TypesOfNumbers
<1>1. ASSUME accepted' = accepted  PROVE NotBack
  BY <1>0, <1>1 DEF NotBack
<1>2. ASSUME NEW c \in Inputs, OpenInputOnly(c)  PROVE NotBack
  BY <1>1, <1>2 DEF OpenInputOnly, consumerVars
<1>3. CASE OpenOwner
  BY <1>3 DEF OpenOwner, NotBack
<1>4. ASSUME NEW c \in Connections, CloseIoConnection(c)  PROVE NotBack
  BY <1>1, <1>4 DEF CloseIoConnection, consumerVars
<1>5. ASSUME NEW age \in 0 .. Delay, HandleReceivedConnectedData(age)  PROVE NotBack
  <2>1. accepted' = age /\ heard' = IF heard = 0 THEN 1 ELSE 2
    BY <1>5 DEF HandleReceivedConnectedData
  <2>2. heard # 0 => age < accepted
    BY <1>5, YoungerAccepted
  <2>3. age \in Nat
    BY Constants
  <2> QED
    BY <1>0, <2>1, <2>2, <2>3 DEF NotBack
<1>6. ASSUME NEW sends \in BOOLEAN, Tick(sends)  PROVE NotBack
  <2>1. CASE sends
    <3>1. number' = (number + 1) % Numbers
      BY <1>6, <2>1 DEF Tick
    <3>2. number' # number
      <4>1. CASE number + 1 < Numbers
        <5>1. (number + 1) % Numbers = number + 1
          BY <1>0, <4>1, Constants, Ahead
        <5> QED  BY <1>0, <3>1, <5>1
      <4>2. CASE number + 1 = Numbers
        <5>1. number + 1 = 0 + 1 * Numbers
          BY <1>0, <4>2, Constants
        <5>2. Numbers % Numbers = 0
          BY Constants
        <5> QED  BY <1>0, <3>1, <4>2, <5>2, Constants
      <4> QED  BY <1>0, <4>1, <4>2, Constants
    <3> QED  BY <3>2 DEF NotBack
  <2>2. CASE ~ sends
    <3>1. accepted' = accepted + 0
      BY <1>6, <2>2 DEF Tick
    <3> QED  BY <1>0, <1>1, <3>1
  <2> QED  BY <2>1, <2>2
<1>7. CASE ManageConnections
  BY <1>1, <1>7 DEF ManageConnections
<1>8. CASE UNCHANGED transportVars
  BY <1>1, <1>8 DEF transportVars, consumerVars
<1> QED
  BY <1>2, <1>3, <1>4, <1>5, <1>6, <1>7, <1>8 DEF Next

(* Packets that arrive late or twice never take a connection back,         *)
(* although the numbers wrap around.                                       *)
THEOREM PacketsInOrder == Spec => InOrder
<1>1. TransportInv /\ ConsumerInv /\ [Next]_transportVars
        => [heard' = 2 /\ number' = number => accepted' <= accepted]_transportVars
  BY NotBackStep DEF NotBack
<1> QED
  BY <1>1, TransportInvariant, ConsumerInvariant, PTL DEF Spec, InOrder

=============================================================================
