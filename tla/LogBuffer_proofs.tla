--------------------------- MODULE LogBuffer_proofs ---------------------------
(***************************************************************************)
(* Proofs about the log buffer: for any size of the ring, of the messages  *)
(* and of the answers, the types are right, the ring holds the newest      *)
(* bytes between two messages, and an answer is a run of consecutive bytes *)
(* that says truly whether it is truncated.                                *)
(***************************************************************************)
EXTENDS LogBuffer, SequenceTheorems, TLAPS

(* The ring holds the newest bytes up to the given number of bytes: those  *)
(* before the write position were written last, those after it before      *)
(* them.                                                                   *)
LowerPart(total) ==
  \A i \in Places : i < s_write_pos => s_log_buffer[i] = total - s_write_pos + i + 1

UpperPart(total) ==
  \A i \in Places :
    i >= s_write_pos => s_log_buffer[i] = total - s_write_pos - BufferSize + i + 1

RingUpTo(total) ==
  /\ s_wrapped => s_write_pos > 0 /\ total > BufferSize /\ UpperPart(total)
  /\ ~ s_wrapped => s_write_pos = total
  /\ LowerPart(total)

(* One holder of the mutex, where it says it is.                           *)
MutexInv ==
  /\ \A t \in Tasks : writer[t] # "idle" <=> mutex = t
  /\ request \in {"copying", "second part"} <=> mutex = Httpd

RingInv ==
  /\ (mutex \notin Tasks \/ writer[mutex] = "locked") => RingUpTo(s_total_written)
  /\ \A t \in Tasks : writer[t] = "second part" =>
       /\ ~ Fits(bytes_to_write[t])
       /\ s_wrapped => s_total_written > BufferSize
       /\ ~ s_wrapped => s_write_pos = s_total_written
       /\ LowerPart(s_total_written)
       /\ UpperPart(s_total_written + BufferSize)
  /\ \A t \in Tasks : writer[t] = "written" => RingUpTo(s_total_written + bytes_to_write[t])
  /\ \A t \in Tasks : writer[t] # "idle" => bytes_to_write[t] > 0

(* The buffer for logs of the given size.                                  *)
Room(size) == IF size < ResponseLimit THEN size + 1 ELSE ResponseLimit

(* What the web server has read, and the size it goes by.                  *)
RequestInv ==
  /\ request \in {"sized", "copying", "second part"} =>
       /\ newest <= s_total_written
       /\ log_size = AtMost(newest, BufferSize)
       /\ buffer_size = Room(log_size)
  /\ request = "second part" =>
       s_wrapped /\ response = Bytes(s_write_pos, AtMost(first_part, buffer_size))
  /\ AnswerConsecutive
  /\ TruncatedTruly

LogInv == LogTypeOK /\ MutexInv /\ RingInv /\ RequestInv

-----------------------------------------------------------------------------
(* Initially nothing is logged and nothing asked. *)
LEMMA InitLogInv == Init => LogInv
<1>. SUFFICES ASSUME Init
              PROVE  LogInv
  OBVIOUS
<1>. USE LogAssumption DEF Init
<1>1. LogTypeOK
  BY DEF LogTypeOK, WriterPlaces, RequestPlaces, Places
<1>2. MutexInv
  BY DEF MutexInv
<1>3. RingInv
  BY DEF RingInv, RingUpTo, LowerPart, Places
<1>4. RequestInv
  BY DEF RequestInv, AnswerConsecutive, TruncatedTruly
<1>. QED
  BY <1>1, <1>2, <1>3, <1>4 DEF LogInv

(* The types of the ring and of the tasks that write into it.              *)
RingTypeOK ==
  /\ s_log_buffer \in [Places -> Nat]
  /\ s_write_pos \in 0 .. BufferSize
  /\ s_wrapped \in BOOLEAN
  /\ s_total_written \in Nat
  /\ mutex \in Tasks \union {Httpd, Nobody}
  /\ writer \in [Tasks -> WriterPlaces]
  /\ bytes_to_write \in [Tasks -> 0 .. MaxMessage]

(* The sizes are numbers, a message no longer than the ring.               *)
LEMMA Sizes ==
  /\ BufferSize \in Nat /\ BufferSize > 0
  /\ MaxMessage \in Nat /\ MaxMessage <= BufferSize
  /\ ResponseLimit \in Nat /\ ResponseLimit > 0 /\ ResponseLimit <= BufferSize
BY LogAssumption

(* The types, member by member.                                            *)
LEMMA RingTypes ==
  ASSUME LogInv
  PROVE  /\ RingTypeOK
         /\ s_write_pos \in Nat /\ s_write_pos <= BufferSize
         /\ \A t \in Tasks : bytes_to_write[t] \in Nat /\ bytes_to_write[t] <= MaxMessage
<1>1. RingTypeOK
  BY DEF LogInv, LogTypeOK, RingTypeOK
<1>2. s_write_pos \in 0 .. BufferSize /\ \A t \in Tasks : bytes_to_write[t] \in 0 .. MaxMessage
  BY <1>1 DEF RingTypeOK
<1>. QED
  BY <1>1, <1>2, Sizes

(* A task that waits for the mutex and gets it finds the ring whole.       *)
LEMMA TakeMutexKeeps ==
  ASSUME LogInv, NEW t \in Tasks, TakeMutex(t)
  PROVE  RingTypeOK' /\ MutexInv' /\ RingInv'
<1>. USE LogAssumption, Sizes
<1>a. RingTypeOK /\ MutexInv /\ RingInv /\ RequestInv
  BY RingTypes DEF LogInv
<1>b. /\ s_write_pos \in Nat /\ s_write_pos <= BufferSize
      /\ \A u \in Tasks : bytes_to_write[u] \in Nat /\ bytes_to_write[u] <= MaxMessage
  BY RingTypes
<1>. USE <1>a
<1>1. RingTypeOK'
  <2>1. writer' \in [Tasks -> WriterPlaces]
    BY DEF TakeMutex, RingTypeOK, WriterPlaces
  <2>2. \A n \in 1 .. MaxMessage : n \in 0 .. MaxMessage
    OBVIOUS
  <2>3. bytes_to_write' \in [Tasks -> 0 .. MaxMessage]
    BY <2>2 DEF TakeMutex, RingTypeOK
  <2>. QED
    BY <2>1, <2>3 DEF TakeMutex, RingTypeOK, ringVars
<1>2. MutexInv'
  BY DEF TakeMutex, MutexInv, RingTypeOK, requestVars
<1>3. mutex = Nobody /\ mutex' = t /\ UNCHANGED ringVars
  BY DEF TakeMutex
<1>4. RingUpTo(s_total_written)'
  BY <1>3 DEF RingInv, RingUpTo, LowerPart, UpperPart, ringVars
<1>5. \A u \in Tasks : writer[u] = "idle"
  BY <1>3 DEF MutexInv
<1>6. \A u \in Tasks : writer'[u] = IF u = t THEN "locked" ELSE "idle"
  BY <1>5 DEF TakeMutex, RingTypeOK
<1>7. bytes_to_write'[t] > 0
  BY DEF TakeMutex, RingTypeOK
<1>. QED
  BY <1>1, <1>2, <1>4, <1>6, <1>7 DEF RingInv

(* A message that fits is written in one go.                               *)
LEMMA CopyMessageKeeps ==
  ASSUME LogInv, NEW t \in Tasks, CopyMessage(t)
  PROVE  RingTypeOK' /\ MutexInv' /\ RingInv'
<1>. USE LogAssumption, Sizes
<1>a. RingTypeOK /\ MutexInv /\ RingInv /\ RequestInv
  BY RingTypes DEF LogInv
<1>b. /\ s_write_pos \in Nat /\ s_write_pos <= BufferSize
      /\ \A u \in Tasks : bytes_to_write[u] \in Nat /\ bytes_to_write[u] <= MaxMessage
  BY RingTypes
<1>. USE <1>a
<1>. DEFINE n == bytes_to_write[t]
<1>1. n \in Nat /\ n > 0 /\ s_write_pos + n <= BufferSize /\ s_write_pos \in Nat
      /\ s_total_written \in Nat /\ BufferSize \in Nat
  <2>1. writer[t] # "idle"
    BY DEF CopyMessage
  <2>2. n > 0
    BY <2>1 DEF RingInv
  <2>3. s_write_pos + n <= BufferSize
    BY DEF CopyMessage, Fits
  <2>. QED
    BY <1>b, <2>2, <2>3 DEF RingTypeOK
<1>2. /\ s_write_pos' = s_write_pos + n
      /\ UNCHANGED <<s_wrapped, s_total_written, mutex, bytes_to_write>>
  BY DEF CopyMessage
<1>3. \A i \in Places : s_log_buffer'[i] =
        IF s_write_pos <= i /\ i < s_write_pos + n THEN s_total_written + 1 + (i - s_write_pos)
        ELSE s_log_buffer[i]
  BY DEF CopyMessage, Copied
<1>4. mutex = t /\ RingUpTo(s_total_written)
  BY DEF CopyMessage, RingInv, MutexInv
<1>5. RingTypeOK'
  <2>1. s_log_buffer' \in [Places -> Nat]
    BY <1>1 DEF CopyMessage, Copied, RingTypeOK, Places
  <2>2. writer' \in [Tasks -> WriterPlaces]
    BY DEF CopyMessage, RingTypeOK, WriterPlaces
  <2>3. s_write_pos' \in 0 .. BufferSize
    BY <1>1, <1>2
  <2>. QED
    BY <2>1, <2>2, <2>3, <1>2 DEF RingTypeOK
<1>6. MutexInv'
  BY DEF CopyMessage, MutexInv, RingTypeOK, requestVars
<1>7. RingUpTo(s_total_written + n)'
  <2>. USE DEF Places
  <2>1. LowerPart(s_total_written + n)'
    BY <1>1, <1>2, <1>3, <1>4 DEF RingUpTo, LowerPart
  <2>2. s_wrapped => UpperPart(s_total_written + n)'
    BY <1>1, <1>2, <1>3, <1>4 DEF RingUpTo, UpperPart
  <2>. QED
    BY <1>1, <1>2, <1>4, <2>1, <2>2 DEF RingUpTo
<1>8. \A u \in Tasks : writer'[u] = IF u = t THEN "written" ELSE "idle"
  BY <1>4 DEF CopyMessage, MutexInv, RingTypeOK
<1>. QED
  BY <1>1, <1>2, <1>4, <1>5, <1>6, <1>7, <1>8 DEF RingInv

(* The first part of a message that does not fit replaces what lies after  *)
(* the write position.                                                     *)
LEMMA CopyToEndKeeps ==
  ASSUME LogInv, NEW t \in Tasks, CopyToEnd(t)
  PROVE  RingTypeOK' /\ MutexInv' /\ RingInv'
<1>. USE LogAssumption, Sizes
<1>a. RingTypeOK /\ MutexInv /\ RingInv /\ RequestInv
  BY RingTypes DEF LogInv
<1>b. /\ s_write_pos \in Nat /\ s_write_pos <= BufferSize
      /\ \A u \in Tasks : bytes_to_write[u] \in Nat /\ bytes_to_write[u] <= MaxMessage
  BY RingTypes
<1>. USE <1>a
<1>1. s_write_pos \in 0 .. BufferSize /\ s_total_written \in Nat /\ BufferSize \in Nat
  BY DEF RingTypeOK
<1>2. UNCHANGED <<s_write_pos, s_wrapped, s_total_written, mutex, bytes_to_write>>
  BY DEF CopyToEnd
<1>3. \A i \in Places : s_log_buffer'[i] =
        IF s_write_pos <= i THEN s_total_written + 1 + (i - s_write_pos) ELSE s_log_buffer[i]
  <2>1. s_log_buffer' = Copied(s_write_pos, first_part, s_total_written + 1)
    BY DEF CopyToEnd
  <2>2. \A i \in Places : i \in Int /\ i < s_write_pos + first_part
    BY <1>1 DEF first_part, Places
  <2>. QED
    BY <1>1, <2>1, <2>2 DEF Copied
<1>4. mutex = t /\ RingUpTo(s_total_written) /\ ~ Fits(bytes_to_write[t])
  BY DEF CopyToEnd, RingInv, MutexInv
<1>5. RingTypeOK'
  <2>1. s_log_buffer' \in [Places -> Nat]
    <3>1. \A i \in Places : i \in Nat /\ s_log_buffer[i] \in Nat
      BY <1>1 DEF Places, RingTypeOK
    <3>2. \A i \in Places : s_log_buffer'[i] \in Nat
      BY <1>1, <1>3, <3>1
    <3>3. s_log_buffer' = [i \in Places |-> s_log_buffer'[i]]
      BY DEF CopyToEnd, Copied
    <3>. QED
      BY <3>2, <3>3
  <2>2. writer' \in [Tasks -> WriterPlaces]
    BY DEF CopyToEnd, RingTypeOK, WriterPlaces
  <2>. QED
    BY <2>1, <2>2, <1>2 DEF RingTypeOK
<1>6. MutexInv'
  BY DEF CopyToEnd, MutexInv, RingTypeOK, requestVars
<1>7. LowerPart(s_total_written)'
  BY <1>1, <1>2, <1>3, <1>4 DEF RingUpTo, LowerPart, Places
<1>8. UpperPart(s_total_written + BufferSize)'
  BY <1>1, <1>2, <1>3 DEF UpperPart, Places
<1>9. \A u \in Tasks : writer'[u] = IF u = t THEN "second part" ELSE "idle"
  BY <1>4 DEF CopyToEnd, MutexInv, RingTypeOK
<1>10. bytes_to_write'[t] > 0 /\ ~ Fits(bytes_to_write[t])'
  BY <1>2, <1>4 DEF RingInv, CopyToEnd, Fits
<1>11. (s_wrapped => s_total_written > BufferSize)' /\ (~ s_wrapped => s_write_pos = s_total_written)'
  BY <1>2, <1>4 DEF RingUpTo
<1>. QED
  BY <1>2, <1>4, <1>5, <1>6, <1>7, <1>8, <1>9, <1>10, <1>11 DEF RingInv

(* The rest of it begins the next round.                                   *)
LEMMA CopyFromStartKeeps ==
  ASSUME LogInv, NEW t \in Tasks, CopyFromStart(t)
  PROVE  RingTypeOK' /\ MutexInv' /\ RingInv'
<1>. USE LogAssumption, Sizes
<1>a. RingTypeOK /\ MutexInv /\ RingInv /\ RequestInv
  BY RingTypes DEF LogInv
<1>b. /\ s_write_pos \in Nat /\ s_write_pos <= BufferSize
      /\ \A u \in Tasks : bytes_to_write[u] \in Nat /\ bytes_to_write[u] <= MaxMessage
  BY RingTypes
<1>. USE <1>a
<1>. DEFINE n == bytes_to_write[t]
            m == n - first_part
<1>1. /\ s_write_pos \in 0 .. BufferSize /\ s_total_written \in Nat /\ BufferSize \in Nat
      /\ n \in Nat /\ n <= BufferSize
  BY DEF RingTypeOK
<1>2. /\ mutex = t /\ s_write_pos + n > BufferSize
      /\ LowerPart(s_total_written) /\ UpperPart(s_total_written + BufferSize)
      /\ s_wrapped => s_total_written > BufferSize
      /\ ~ s_wrapped => s_write_pos = s_total_written
  <2>1. writer[t] = "second part"
    BY DEF CopyFromStart
  <2>2. ~ Fits(n)
    BY <2>1 DEF RingInv
  <2>3. s_write_pos + n > BufferSize
    BY <1>1, <2>2 DEF Fits
  <2>. QED
    BY <2>1, <2>3 DEF RingInv, MutexInv
<1>3. m \in Nat /\ m > 0 /\ m <= s_write_pos /\ m = n - BufferSize + s_write_pos
  BY <1>1, <1>2 DEF first_part
<1>4. /\ s_write_pos' = m /\ s_wrapped' = TRUE
      /\ UNCHANGED <<s_total_written, mutex, bytes_to_write>>
  BY DEF CopyFromStart
<1>5. \A i \in Places : s_log_buffer'[i] =
        IF i < m THEN s_total_written + BufferSize - s_write_pos + 1 + i ELSE s_log_buffer[i]
  <2>1. s_log_buffer' = Copied(0, m, s_total_written + first_part + 1)
    BY DEF CopyFromStart
  <2>2. \A i \in Places : i \in Nat
    BY <1>1 DEF Places
  <2>. HIDE DEF m
  <2>. QED
    BY <1>1, <1>3, <2>1, <2>2 DEF Copied, first_part
<1>6. RingTypeOK'
  <2>1. s_log_buffer' \in [Places -> Nat]
    <3>1. \A i \in Places : s_log_buffer'[i] \in Nat
      <4>1. \A i \in Places : i \in Nat /\ s_log_buffer[i] \in Nat
        BY <1>1 DEF Places, RingTypeOK
      <4>2. s_total_written + BufferSize - s_write_pos \in Nat
        BY <1>1
      <4>. QED
        BY <1>3, <1>5, <4>1, <4>2
    <3>2. s_log_buffer' = [i \in Places |-> s_log_buffer'[i]]
      BY DEF CopyFromStart, Copied
    <3>. QED
      BY <3>1, <3>2
  <2>2. writer' \in [Tasks -> WriterPlaces]
    BY DEF CopyFromStart, RingTypeOK, WriterPlaces
  <2>3. s_write_pos' \in 0 .. BufferSize
    BY <1>1, <1>3, <1>4
  <2>. QED
    BY <2>1, <2>2, <2>3, <1>4 DEF RingTypeOK
<1>7. MutexInv'
  BY DEF CopyFromStart, MutexInv, RingTypeOK, requestVars
<1>8. LowerPart(s_total_written + n)'
  BY <1>1, <1>3, <1>4, <1>5 DEF LowerPart, Places
<1>9. UpperPart(s_total_written + n)'
  BY <1>1, <1>2, <1>3, <1>4, <1>5 DEF LowerPart, UpperPart, Places
<1>10. s_total_written + n > BufferSize
  BY <1>1, <1>2
<1>11. RingUpTo(s_total_written + n)'
  BY <1>3, <1>4, <1>8, <1>9, <1>10 DEF RingUpTo
<1>12. \A u \in Tasks : writer'[u] = IF u = t THEN "written" ELSE "idle"
  BY <1>2 DEF CopyFromStart, MutexInv, RingTypeOK
<1>13. n > 0
  BY <1>1, <1>3
<1>. QED
  BY <1>2, <1>4, <1>6, <1>7, <1>11, <1>12, <1>13 DEF RingInv

(* The bytes are counted, and the mutex given back with a whole ring.      *)
LEMMA GiveMutexKeeps ==
  ASSUME LogInv, NEW t \in Tasks, GiveMutex(t)
  PROVE  RingTypeOK' /\ MutexInv' /\ RingInv'
<1>. USE LogAssumption, Sizes
<1>a. RingTypeOK /\ MutexInv /\ RingInv /\ RequestInv
  BY RingTypes DEF LogInv
<1>b. /\ s_write_pos \in Nat /\ s_write_pos <= BufferSize
      /\ \A u \in Tasks : bytes_to_write[u] \in Nat /\ bytes_to_write[u] <= MaxMessage
  BY RingTypes
<1>. USE <1>a
<1>1. mutex = t /\ RingUpTo(s_total_written + bytes_to_write[t])
  BY DEF GiveMutex, MutexInv, RingInv
<1>2. RingTypeOK'
  <2>1. writer' \in [Tasks -> WriterPlaces]
    BY DEF GiveMutex, RingTypeOK, WriterPlaces
  <2>2. s_total_written' \in Nat
    BY <1>b DEF GiveMutex, RingTypeOK
  <2>. QED
    BY <2>1, <2>2 DEF GiveMutex, RingTypeOK
<1>3. MutexInv'
  BY <1>1 DEF GiveMutex, MutexInv, RingTypeOK, requestVars
<1>4. RingUpTo(s_total_written)'
  BY <1>1 DEF GiveMutex, RingUpTo, LowerPart, UpperPart
<1>5. \A u \in Tasks : writer'[u] = "idle"
  BY <1>1 DEF GiveMutex, MutexInv, RingTypeOK
<1>. QED
  BY <1>2, <1>3, <1>4, <1>5 DEF RingInv

(* A write does not disturb a request: the server then has not the mutex,  *)
(* and the number of bytes written only grows.                             *)
LEMMA WriteKeepsRequest ==
  ASSUME LogInv, NEW t \in Tasks, Write(t), RingTypeOK'
  PROVE  LogTypeOK' /\ RequestInv'
<1>. USE LogAssumption, Sizes
<1>a. RingTypeOK /\ MutexInv /\ RingInv /\ RequestInv
  BY RingTypes DEF LogInv
<1>b. /\ s_write_pos \in Nat /\ s_write_pos <= BufferSize
      /\ \A u \in Tasks : bytes_to_write[u] \in Nat /\ bytes_to_write[u] <= MaxMessage
  BY RingTypes
<1>. USE <1>a
<1>1. UNCHANGED requestVars
  BY DEF Write, TakeMutex, CopyMessage, CopyToEnd, CopyFromStart, GiveMutex
<1>2. LogTypeOK'
  BY <1>1 DEF RingTypeOK, LogTypeOK, LogInv, requestVars
<1>3. s_total_written' >= s_total_written
  <2>1. s_total_written \in Nat
    BY DEF RingTypeOK
  <2>2. s_total_written' = s_total_written \/ s_total_written' = s_total_written + bytes_to_write[t]
    BY DEF Write, TakeMutex, CopyMessage, CopyToEnd, CopyFromStart, GiveMutex, ringVars
  <2>. QED
    BY <1>b, <2>1, <2>2
<1>4. mutex # Httpd
  BY DEF Write, TakeMutex, CopyMessage, CopyToEnd, CopyFromStart, GiveMutex, MutexInv
<1>5. request \notin {"copying", "second part"}
  BY <1>4 DEF MutexInv
<1>6. AnswerConsecutive' /\ TruncatedTruly'
  BY <1>1 DEF RequestInv, AnswerConsecutive, TruncatedTruly, Truncated, requestVars
<1>7. newest' <= s_total_written' \/ request' # "sized"
  <2>1. newest \in Nat /\ s_total_written \in Nat /\ s_total_written' \in Nat
    BY DEF LogInv, LogTypeOK, RingTypeOK
  <2>2. newest <= s_total_written \/ request # "sized"
    BY DEF RequestInv
  <2>. QED
    BY <1>1, <1>3, <2>1, <2>2 DEF requestVars
<1>. QED
  BY <1>1, <1>2, <1>5, <1>6, <1>7 DEF RequestInv, requestVars

-----------------------------------------------------------------------------
(* A request does not disturb the ring.                                    *)
LEMMA RequestKeepsRing ==
  ASSUME LogInv, UNCHANGED <<ringVars, writerVars>>,
         mutex' \in {Httpd, Nobody}, mutex \in {Httpd, Nobody}
  PROVE  RingTypeOK' /\ RingInv'
<1>. USE LogAssumption, Sizes
<1>a. RingTypeOK /\ MutexInv /\ RingInv /\ RequestInv
  BY RingTypes DEF LogInv
<1>b. /\ s_write_pos \in Nat /\ s_write_pos <= BufferSize
      /\ \A u \in Tasks : bytes_to_write[u] \in Nat /\ bytes_to_write[u] <= MaxMessage
  BY RingTypes
<1>. USE <1>a
<1>1. \A u \in Tasks : writer[u] = "idle"
  BY DEF MutexInv
<1>2. RingUpTo(s_total_written)
  BY DEF RingInv
<1>3. RingUpTo(s_total_written)'
  BY <1>2 DEF RingUpTo, LowerPart, UpperPart, ringVars
<1>4. RingTypeOK'
  BY DEF RingTypeOK, ringVars, writerVars
<1>. QED
  BY <1>1, <1>3, <1>4 DEF RingInv, writerVars

(* Bytes is a sequence.                                                    *)
LEMMA BytesSeq ==
  ASSUME s_log_buffer \in [Places -> Nat], NEW pos \in Nat, NEW n \in Nat,
         BufferSize \in Nat, pos + n <= BufferSize
  PROVE  /\ Bytes(pos, n) \in Seq(Nat) /\ Len(Bytes(pos, n)) = n
         /\ \A i \in 1 .. n : Bytes(pos, n)[i] = s_log_buffer[pos + i - 1]
<1>1. \A i \in 1 .. n : s_log_buffer[pos + i - 1] \in Nat
  BY DEF Places
<1>. QED
  BY <1>1 DEF Bytes

(* The terminator takes the last place of the buffer if the copy fills it. *)
LEMMA TerminatedSeq ==
  ASSUME NEW copy \in Seq(Nat), buffer_size \in Nat, buffer_size > 0
  PROVE  /\ Terminated(copy) \in Seq(Nat)
         /\ Len(Terminated(copy)) = AtMost(Len(copy), buffer_size - 1)
         /\ \A i \in 1 .. Len(Terminated(copy)) : Terminated(copy)[i] = copy[i]
<1>. DEFINE k == AtMost(Len(copy), buffer_size - 1)
<1>1. Len(copy) \in Nat
  OBVIOUS
<1>2. k \in Nat /\ k <= Len(copy)
  BY <1>1 DEF AtMost
<1>. HIDE DEF k
<1>3. /\ SubSeq(copy, 1, k) \in Seq(Nat)
      /\ Len(SubSeq(copy, 1, k)) = k
      /\ \A i \in 1 .. k : SubSeq(copy, 1, k)[i] = copy[i]
  BY <1>1, <1>2
<1>. QED
  BY <1>3 DEF Terminated, k

(* The two properties of an answer, of values.                             *)
Right(answer, size, known) ==
  /\ \A i \in 1 .. Len(answer) - 1 : answer[i + 1] = answer[i] + 1
  /\ IF Len(answer) < size
       THEN Len(answer) = ResponseLimit - 1
       ELSE known > 0 => answer # <<>> /\ answer[Len(answer)] >= known

(* An answer that leaves of its buffer only the place of the terminator is *)
(* right, wherever in the log it begins.                                   *)
LEMMA AnswerRight ==
  ASSUME NEW base \in Nat, NEW answer \in Seq(Nat), NEW size, NEW known \in Nat,
         size = AtMost(known, BufferSize),
         Len(answer) = Room(size) - 1,
         \A i \in 1 .. Len(answer) : answer[i] = base + i
  PROVE  Right(answer, size, known)
<1>. USE Sizes DEF Room, Right
<1>. DEFINE k == Len(answer)
<1>1. k \in Nat
  OBVIOUS
<1>2. size \in Nat
  BY DEF AtMost
<1>3. \A i \in 1 .. k - 1 : answer[i + 1] = answer[i] + 1
  <2>1. \A i \in 1 .. k - 1 : i \in 1 .. k /\ i + 1 \in 1 .. k
    BY <1>1
  <2>. QED
    BY <2>1
<1>4. CASE size < ResponseLimit
  <2>1. size = known /\ k = known
    BY <1>2, <1>4 DEF AtMost
  <2>2. known > 0 => k \in 1 .. k /\ answer[k] = base + k
    BY <1>1, <2>1
  <2>3. known > 0 => answer # <<>> /\ answer[k] >= known
    BY <2>1, <2>2
  <2>. QED
    BY <1>3, <2>1, <2>3
<1>5. CASE size >= ResponseLimit
  <2>1. Room(size) = ResponseLimit
    BY <1>2, <1>5
  <2>. QED
    BY <1>2, <1>3, <1>5, <2>1
<1>. QED
  BY <1>2, <1>4, <1>5

(* The size is read, and the buffer made, while the mutex is free.         *)
LEMMA ReadSizeKeeps ==
  ASSUME LogInv, ReadSize
  PROVE  LogInv'
<1>. USE LogAssumption, Sizes
<1>a. LogTypeOK /\ RingTypeOK /\ MutexInv /\ RingInv /\ RequestInv
  BY RingTypes DEF LogInv
<1>b. s_write_pos \in Nat /\ s_write_pos <= BufferSize /\ s_total_written \in Nat
  BY <1>a, RingTypes DEF RingTypeOK
<1>c. mutex = Nobody /\ RingUpTo(s_total_written)
  BY <1>a DEF ReadSize, RingInv
<1>1. RingTypeOK' /\ RingInv'
  BY <1>c, RequestKeepsRing DEF ReadSize
<1>2. MutexInv'
  BY <1>a DEF ReadSize, MutexInv, writerVars
<1>3. Stored \in 0 .. BufferSize /\ Stored = AtMost(s_total_written, BufferSize)
  BY <1>b, <1>c DEF Stored, RingUpTo, AtMost
<1>4. /\ log_size' = Stored /\ newest' = s_total_written /\ s_total_written' = s_total_written
      /\ request' = "sized" /\ response' = <<>>
      /\ buffer_size' = IF Stored < ResponseLimit THEN Stored + 1 ELSE ResponseLimit
  BY DEF ReadSize, ringVars
<1>5. buffer_size' \in 1 .. ResponseLimit
  BY <1>3, <1>4
<1>6. LogTypeOK'
  BY <1>1, <1>3, <1>4, <1>5, <1>b DEF LogTypeOK, RingTypeOK, RequestPlaces
<1>7. RequestInv'
  BY <1>3, <1>4, <1>b DEF RequestInv, AnswerConsecutive, TruncatedTruly, AtMost, Room
<1>. QED
  BY <1>1, <1>2, <1>6, <1>7 DEF LogInv

(* Whatever was logged in between, the ring holds no fewer bytes.          *)
LEMMA LockForCopyKeeps ==
  ASSUME LogInv, LockForCopy
  PROVE  LogInv'
<1>. USE LogAssumption
<1>a. LogTypeOK /\ RingTypeOK /\ MutexInv /\ RingInv /\ RequestInv
  BY RingTypes DEF LogInv
<1>1. RingTypeOK' /\ RingInv'
  BY RequestKeepsRing DEF LockForCopy
<1>2. MutexInv'
  BY <1>a DEF LockForCopy, MutexInv, writerVars
<1>3. LogTypeOK'
  BY <1>a, <1>1 DEF LockForCopy, LogTypeOK, RingTypeOK, RequestPlaces
<1>4. RequestInv'
  BY <1>a DEF LockForCopy, RequestInv, AnswerConsecutive, TruncatedTruly, ringVars
<1>. QED
  BY <1>1, <1>2, <1>3, <1>4 DEF LogInv

(* What is kept by a step of log_buffer_get, the answer apart.             *)
LEMMA AnswerKeeps ==
  ASSUME LogInv, CopyAll \/ CopyRest,
         response' \in Seq(Nat), Len(response') <= BufferSize,
         AnswerConsecutive', TruncatedTruly'
  PROVE  LogInv'
<1>. USE LogAssumption
<1>a. LogTypeOK /\ RingTypeOK /\ MutexInv /\ RingInv /\ RequestInv
  BY RingTypes DEF LogInv
<1>b. /\ UNCHANGED <<ringVars, writerVars, log_size, buffer_size, newest>>
      /\ mutex = Httpd /\ mutex' = Nobody /\ request' = "answered"
  BY <1>a DEF CopyAll, CopyRest, AnswerWith, MutexInv
<1>1. RingTypeOK' /\ RingInv'
  BY <1>b, RequestKeepsRing
<1>2. MutexInv'
  BY <1>a, <1>b DEF MutexInv, writerVars
<1>3. LogTypeOK'
  BY <1>a, <1>b, <1>1 DEF LogTypeOK, RingTypeOK, RequestPlaces
<1>4. RequestInv'
  BY <1>b DEF RequestInv
<1>. QED
  BY <1>1, <1>2, <1>3, <1>4 DEF LogInv

(* Before the first wrap the ring is an array.                             *)
LEMMA CopyAllKeeps ==
  ASSUME LogInv, CopyAll
  PROVE  LogInv'
<1>. USE LogAssumption, Sizes
<1>a. LogTypeOK /\ RingTypeOK /\ MutexInv /\ RingInv /\ RequestInv
  BY RingTypes DEF LogInv
<1>b. /\ s_write_pos \in Nat /\ s_write_pos <= BufferSize /\ s_total_written \in Nat
      /\ log_size \in Nat /\ newest \in Nat
      /\ buffer_size \in Nat /\ buffer_size > 0 /\ buffer_size <= ResponseLimit
      /\ s_log_buffer \in [Places -> Nat]
  BY <1>a, RingTypes DEF RingTypeOK, LogTypeOK
<1>c. /\ newest <= s_total_written /\ log_size = AtMost(newest, BufferSize)
      /\ buffer_size = Room(log_size)
  BY <1>a DEF CopyAll, RequestInv
<1>d. mutex = Httpd /\ RingUpTo(s_total_written) /\ ~ s_wrapped
  BY <1>a DEF CopyAll, MutexInv, RingInv
<1>e. s_write_pos = s_total_written /\ LowerPart(s_total_written)
  BY <1>d DEF RingUpTo
<1>. DEFINE n == AtMost(s_write_pos, buffer_size)
            copy == Bytes(0, n)
            k == buffer_size - 1
<1>1. n \in Nat /\ n <= s_write_pos /\ AtMost(n, k) = k /\ k <= n
  BY <1>b, <1>c, <1>e DEF AtMost, Room
<1>2. k \in Nat /\ k <= BufferSize
  BY <1>b
<1>. HIDE DEF n, k
<1>3. /\ copy \in Seq(Nat) /\ Len(copy) = n
      /\ \A i \in 1 .. n : copy[i] = s_log_buffer[0 + i - 1]
  BY <1>1, <1>b, BytesSeq
<1>4. \A i \in 1 .. n : copy[i] = i
  <2>1. \A i \in 1 .. n : i - 1 \in Places /\ i - 1 < s_write_pos
    BY <1>1, <1>b DEF Places
  <2>2. \A i \in 1 .. n : s_log_buffer[i - 1] = i
    BY <1>1, <1>b, <1>e, <2>1 DEF LowerPart
  <2>. QED
    BY <1>1, <1>3, <2>2
<1>5. response' = Terminated(copy)
  BY DEF CopyAll, AnswerWith, n
<1>6. response' \in Seq(Nat) /\ Len(response') = k /\ \A i \in 1 .. k : response'[i] = copy[i]
  <2>. HIDE DEF copy
  <2>. QED
    BY <1>1, <1>3, <1>5, <1>b, TerminatedSeq DEF k
<1>7. \A i \in 1 .. Len(response') : response'[i] = 0 + i
  BY <1>1, <1>2, <1>4, <1>6
<1>8. /\ newest' = newest /\ log_size' = log_size /\ buffer_size' = buffer_size
      /\ request' = "answered"
  BY DEF CopyAll, AnswerWith
<1>9. AnswerConsecutive' /\ TruncatedTruly'
  <2>1. response' \in Seq(Nat) /\ Len(response') = Room(log_size) - 1
    BY <1>6, <1>c DEF k
  <2>2. newest \in Nat /\ 0 \in Nat /\ log_size = AtMost(newest, BufferSize)
    BY <1>2, <1>b, <1>c
  <2>3. Right(response', log_size, newest)
    BY <2>1, <2>2, <1>7, AnswerRight
  <2>. QED
    BY <2>3, <1>8 DEF Right, AnswerConsecutive, TruncatedTruly, Truncated
<1>. QED
  BY <1>2, <1>6, <1>9, AnswerKeeps

(* A ring that has wrapped is full; its oldest bytes lie after the write   *)
(* position.                                                               *)
LEMMA CopyOldestKeeps ==
  ASSUME LogInv, CopyOldest
  PROVE  LogInv'
<1>. USE LogAssumption, Sizes
<1>a. LogTypeOK /\ RingTypeOK /\ MutexInv /\ RingInv /\ RequestInv
  BY RingTypes DEF LogInv
<1>b. /\ s_write_pos \in Nat /\ s_write_pos <= BufferSize
      /\ buffer_size \in Nat /\ buffer_size > 0
      /\ s_log_buffer \in [Places -> Nat]
  BY <1>a, RingTypes DEF RingTypeOK, LogTypeOK
<1>c. /\ UNCHANGED <<ringVars, mutex, writerVars, log_size, buffer_size, newest>>
      /\ mutex = Httpd /\ request = "copying" /\ request' = "second part" /\ s_wrapped
  BY <1>a DEF CopyOldest, MutexInv
<1>. DEFINE n == AtMost(first_part, buffer_size)
<1>1. n \in Nat /\ s_write_pos + n <= BufferSize
  BY <1>b DEF AtMost, first_part
<1>. HIDE DEF n
<1>2. Bytes(s_write_pos, n) \in Seq(Nat) /\ Len(Bytes(s_write_pos, n)) <= BufferSize
  BY <1>1, <1>b, BytesSeq
<1>3. response' = Bytes(s_write_pos, n)
  BY DEF CopyOldest, n
<1>4. RingTypeOK' /\ RingInv'
  BY <1>c, RequestKeepsRing
<1>5. MutexInv'
  BY <1>a, <1>c DEF MutexInv, writerVars
<1>6. LogTypeOK'
  BY <1>a, <1>c, <1>2, <1>3, <1>4 DEF LogTypeOK, RingTypeOK, RequestPlaces
<1>7. response' = Bytes(s_write_pos, AtMost(first_part, buffer_size))'
  BY <1>3, <1>c DEF n, first_part, Bytes, ringVars
<1>8. /\ newest <= s_total_written /\ log_size = AtMost(newest, BufferSize)
      /\ buffer_size = Room(log_size)
  BY <1>a, <1>c DEF RequestInv
<1>9. RequestInv'
  BY <1>c, <1>7, <1>8 DEF RequestInv, AnswerConsecutive, TruncatedTruly, ringVars
<1>. QED
  BY <1>4, <1>5, <1>6, <1>9 DEF LogInv

LEMMA CopyRestKeeps ==
  ASSUME LogInv, CopyRest
  PROVE  LogInv'
<1>. USE LogAssumption, Sizes
<1>a. LogTypeOK /\ RingTypeOK /\ MutexInv /\ RingInv /\ RequestInv
  BY RingTypes DEF LogInv
<1>b. /\ s_write_pos \in Nat /\ s_write_pos <= BufferSize /\ s_total_written \in Nat
      /\ log_size \in Nat /\ newest \in Nat
      /\ buffer_size \in Nat /\ buffer_size > 0 /\ buffer_size <= ResponseLimit
      /\ s_log_buffer \in [Places -> Nat]
  BY <1>a, RingTypes DEF RingTypeOK, LogTypeOK
<1>c. /\ log_size = AtMost(newest, BufferSize)
      /\ buffer_size = Room(log_size)
      /\ s_wrapped /\ response = Bytes(s_write_pos, AtMost(first_part, buffer_size))
      /\ mutex = Httpd
  BY <1>a DEF CopyRest, RequestInv, MutexInv
<1>d. RingUpTo(s_total_written)
  BY <1>a, <1>c DEF RingInv
<1>e. /\ s_total_written > BufferSize
      /\ LowerPart(s_total_written) /\ UpperPart(s_total_written)
  BY <1>c, <1>d DEF RingUpTo
<1>. DEFINE a == AtMost(first_part, buffer_size)
            b == AtMost(s_write_pos, buffer_size - a)
            older == Bytes(s_write_pos, a)
            newer == Bytes(0, b)
            copy == older \o newer
            base == s_total_written - BufferSize
            k == buffer_size - 1
<1>1. /\ a \in Nat /\ b \in Nat /\ s_write_pos + a <= BufferSize /\ b <= s_write_pos
      /\ a + b = buffer_size
      /\ b > 0 => a = BufferSize - s_write_pos
  BY <1>b DEF AtMost, first_part
<1>2. k \in Nat /\ k <= BufferSize /\ base \in Nat /\ AtMost(a + b, k) = k
  BY <1>b, <1>e, <1>1 DEF AtMost
<1>. HIDE DEF a, b
<1>3. /\ older \in Seq(Nat) /\ Len(older) = a
      /\ \A i \in 1 .. a : older[i] = s_log_buffer[s_write_pos + i - 1]
  BY <1>1, <1>b, BytesSeq
<1>4. /\ newer \in Seq(Nat) /\ Len(newer) = b
      /\ \A i \in 1 .. b : newer[i] = s_log_buffer[0 + i - 1]
  BY <1>1, <1>b, BytesSeq
<1>5. \A i \in 1 .. a : older[i] = base + i
  <2>1. \A i \in 1 .. a : s_write_pos + i - 1 \in Places /\ s_write_pos + i - 1 >= s_write_pos
    BY <1>1, <1>b DEF Places
  <2>2. \A i \in 1 .. a : s_log_buffer[s_write_pos + i - 1] = base + i
    BY <1>1, <1>b, <1>e, <2>1 DEF UpperPart
  <2>. QED
    BY <1>3, <2>2
<1>6. \A i \in 1 .. b : newer[i] = base + a + i
  <2>1. \A i \in 1 .. b : 0 + i - 1 \in Places /\ 0 + i - 1 < s_write_pos
    BY <1>1, <1>b DEF Places
  <2>2. \A i \in 1 .. b : s_log_buffer[0 + i - 1] = s_total_written - s_write_pos + i
    BY <1>1, <1>b, <1>e, <2>1 DEF LowerPart
  <2>3. \A i \in 1 .. b : base + a + i = s_total_written - s_write_pos + i
    BY <1>1, <1>b
  <2>. QED
    BY <1>4, <2>2, <2>3
<1>. HIDE DEF older, newer, base, k
<1>7. /\ copy \in Seq(Nat) /\ Len(copy) = a + b
      /\ \A i \in 1 .. a + b : copy[i] = IF i <= a THEN older[i] ELSE newer[i - a]
  <2>1. /\ older \o newer \in Seq(Nat)
        /\ Len(older \o newer) = Len(older) + Len(newer)
        /\ \A i \in 1 .. Len(older) + Len(newer) :
             (older \o newer)[i] = IF i <= Len(older) THEN older[i] ELSE newer[i - Len(older)]
    <3>1. older \in Seq(Nat) /\ newer \in Seq(Nat)
      BY <1>3, <1>4
    <3>. QED
      BY <3>1, ConcatProperties, Zenon
  <2>. QED
    BY <1>3, <1>4, <2>1
<1>8. \A i \in 1 .. a + b : copy[i] = base + i
  <2>1. \A i \in 1 .. a + b : i <= a => i \in 1 .. a
    BY <1>1
  <2>2. \A i \in 1 .. a + b : i > a => i - a \in 1 .. b /\ base + a + (i - a) = base + i
    BY <1>1, <1>2
  <2>. QED
    BY <1>1, <1>5, <1>6, <1>7, <2>1, <2>2
<1>9. response' = Terminated(copy)
  BY <1>c, <1>3 DEF CopyRest, AnswerWith, older, newer, a, b
<1>10. response' \in Seq(Nat) /\ Len(response') = k /\ \A i \in 1 .. k : response'[i] = copy[i]
  <2>. HIDE DEF copy
  <2>. QED
    BY <1>2, <1>7, <1>9, <1>b, TerminatedSeq DEF k
<1>11. \A i \in 1 .. Len(response') : response'[i] = base + i
  <2>1. \A i \in 1 .. k : i \in 1 .. a + b
    BY <1>1, <1>2 DEF k
  <2>. QED
    BY <1>8, <1>10, <2>1
<1>12. newest' = newest /\ log_size' = log_size
  BY DEF CopyRest
<1>13. AnswerConsecutive' /\ TruncatedTruly'
  <2>1. response' \in Seq(Nat) /\ Len(response') = Room(log_size) - 1
    BY <1>10, <1>c DEF k
  <2>2. newest \in Nat /\ base \in Nat /\ log_size = AtMost(newest, BufferSize)
    BY <1>2, <1>b, <1>c
  <2>3. Right(response', log_size, newest)
    BY <2>1, <2>2, <1>11, AnswerRight
  <2>. QED
    BY <2>3, <1>12 DEF Right, AnswerConsecutive, TruncatedTruly, Truncated
<1>. QED
  BY <1>2, <1>10, <1>13, AnswerKeeps

-----------------------------------------------------------------------------
(* Every step keeps the invariant.                                         *)
LEMMA NextLogInv == LogInv /\ [Next]_logVars => LogInv'
<1>. SUFFICES ASSUME LogInv, [Next]_logVars
              PROVE  LogInv'
  OBVIOUS
<1>1. ASSUME NEW t \in Tasks, Write(t)
      PROVE  LogInv'
  <2>1. RingTypeOK' /\ MutexInv' /\ RingInv'
    BY <1>1, TakeMutexKeeps, CopyMessageKeeps, CopyToEndKeeps, CopyFromStartKeeps,
       GiveMutexKeeps DEF Write
  <2>2. LogTypeOK' /\ RequestInv'
    BY <1>1, <2>1, WriteKeepsRequest
  <2>. QED
    BY <2>1, <2>2 DEF LogInv
<1>2. CASE GetLogs
  BY <1>2, ReadSizeKeeps, LockForCopyKeeps, CopyAllKeeps, CopyOldestKeeps, CopyRestKeeps
     DEF GetLogs
<1>3. CASE UNCHANGED logVars
  BY <1>3 DEF logVars, LogInv, LogTypeOK, MutexInv, RingInv, RingUpTo, LowerPart, UpperPart,
     Fits, RequestInv, AnswerConsecutive, TruncatedTruly, Truncated, Bytes, first_part
<1>. QED
  BY <1>1, <1>2, <1>3 DEF Next

THEOREM LogInvariant == Spec => []LogInv
<1>. QED
  BY InitLogInv, NextLogInv, PTL DEF Spec

(* The types hold, the bounds of the buffer included, for any sizes.       *)
THEOREM LogTypeCorrect == Spec => []LogTypeOK
<1>1. LogInv => LogTypeOK
  BY DEF LogInv
<1>. QED
  BY <1>1, LogInvariant, PTL

(* Between two messages the ring holds the newest bytes, for any number of *)
(* tasks and any sizes.                                                    *)
THEOREM LatestKept == Spec => []HoldsLatest
<1>1. ASSUME LogInv, NobodyWrites
      PROVE  /\ Stored = AtMost(s_total_written, BufferSize)
             /\ \A byte \in Oldest .. s_total_written : s_log_buffer[PlaceOf(byte)] = byte
  <2>. USE Sizes
  <2>a. /\ s_write_pos \in Nat /\ s_write_pos <= BufferSize
        /\ s_total_written \in Nat /\ s_wrapped \in BOOLEAN
    BY <1>1, RingTypes DEF RingTypeOK
  <2>b. RingUpTo(s_total_written)
    BY <1>1 DEF LogInv, MutexInv, RingInv, NobodyWrites
  <2>1. Stored = AtMost(s_total_written, BufferSize)
    BY <2>a, <2>b DEF Stored, RingUpTo, AtMost
  <2>2. ASSUME NEW byte \in Oldest .. s_total_written, ~ s_wrapped
        PROVE  s_log_buffer[PlaceOf(byte)] = byte
    <3>1. Oldest = 1 /\ byte - 1 \in Places /\ byte - 1 < s_write_pos
      BY <2>a, <2>b, <2>2 DEF Oldest, Stored, RingUpTo, Places
    <3>2. PlaceOf(byte) = byte - 1
      BY <2>a, <2>2, <3>1 DEF PlaceOf, Places
    <3>. QED
      BY <2>a, <2>b, <2>2, <3>1, <3>2 DEF RingUpTo, LowerPart
  <2>3. ASSUME NEW byte \in Oldest .. s_total_written, s_wrapped
        PROVE  s_log_buffer[PlaceOf(byte)] = byte
    <3>. DEFINE place == byte - Oldest + s_write_pos
    <3>1. Oldest = s_total_written - BufferSize + 1 /\ byte \in Int
      BY <2>a, <2>3 DEF Oldest, Stored
    <3>2. CASE place < BufferSize
      <4>1. PlaceOf(byte) = place /\ place \in Places /\ place >= s_write_pos
        BY <2>a, <2>3, <3>1, <3>2 DEF PlaceOf, Places
      <4>2. s_log_buffer[place] = s_total_written - s_write_pos - BufferSize + place + 1
        BY <2>b, <2>3, <4>1 DEF RingUpTo, UpperPart
      <4>. QED
        BY <2>a, <3>1, <4>1, <4>2
    <3>3. CASE place >= BufferSize
      <4>1. /\ PlaceOf(byte) = place - BufferSize /\ place - BufferSize \in Places
            /\ place - BufferSize < s_write_pos
        BY <2>a, <2>3, <3>1, <3>3 DEF PlaceOf, Places
      <4>2. s_log_buffer[place - BufferSize] =
              s_total_written - s_write_pos + (place - BufferSize) + 1
        BY <2>b, <4>1 DEF RingUpTo, LowerPart
      <4>. QED
        BY <2>a, <3>1, <4>1, <4>2
    <3>. QED
      BY <2>a, <3>1, <3>2, <3>3
  <2>. QED
    BY <2>1, <2>2, <2>3
<1>2. LogInv => HoldsLatest
  BY <1>1 DEF HoldsLatest
<1>. QED
  BY <1>2, LogInvariant, PTL

(* No answer has a gap or a byte out of order.                             *)
THEOREM AnswersConsecutive == Spec => []AnswerConsecutive
<1>1. LogInv => AnswerConsecutive
  BY DEF LogInv, RequestInv
<1>. QED
  BY <1>1, LogInvariant, PTL

(* An answer says truly whether it is truncated.                           *)
THEOREM AnswersTruncatedTruly == Spec => []TruncatedTruly
<1>1. LogInv => TruncatedTruly
  BY DEF LogInv, RequestInv
<1>. QED
  BY <1>1, LogInvariant, PTL
=============================================================================
