------------------------------ MODULE LogBuffer ------------------------------
(***************************************************************************)
(* The ring of log bytes (log_buffer.c): the tasks that log write into it  *)
(* under its mutex, and GET /api/logs of the web server (webui_api.c)      *)
(* reads its size and then, the mutex given back in between, its bytes.    *)
(* A byte is its number in the order of writing.  A message for which the  *)
(* mutex does not come within 10 ms is left out, and changes nothing.      *)
(***************************************************************************)
EXTENDS Integers, Sequences

CONSTANTS
  Tasks,         \* the tasks that log
  Httpd,         \* the task of the web server, which serves one request at a time
  Nobody,        \* holds the mutex when it is free
  BufferSize,    \* s_buffer_size
  MaxMessage,    \* sizeof(temp_buffer) - 1: longer messages are cut
  ResponseLimit, \* the largest buffer of the web server for the logs
  MaxLogged      \* bound: bytes written altogether

ASSUME LogAssumption ==
  /\ BufferSize \in Nat \ {0}
  /\ MaxMessage \in 1 .. BufferSize
  /\ ResponseLimit \in 1 .. BufferSize
  /\ MaxLogged \in Nat
  /\ Httpd \notin Tasks
  /\ Nobody \notin Tasks \union {Httpd}

VARIABLES
  s_log_buffer, s_write_pos, s_wrapped,
  s_total_written,    \* written by the code and never read by it
  mutex,              \* who holds s_buffer_mutex, or Nobody
  writer,             \* where in log_buffer_vprintf each task is
  bytes_to_write,
  request,            \* where in api_get_logs_handler the web server is
  log_size, buffer_size,
  response,           \* the bytes of the answer
  newest              \* history: the newest byte when log_size was read

ringVars == <<s_log_buffer, s_write_pos, s_wrapped, s_total_written>>
writerVars == <<writer, bytes_to_write>>
requestVars == <<request, log_size, buffer_size, response, newest>>
logVars == <<s_log_buffer, s_write_pos, s_wrapped, s_total_written, mutex, writer,
             bytes_to_write, request, log_size, buffer_size, response, newest>>

Places == 0 .. BufferSize - 1

WriterPlaces == {"idle", "locked", "second part", "written"}

RequestPlaces == {"none", "sized", "copying", "second part", "answered"}

(* log_buffer_init has enabled the buffer. *)
Init ==
  /\ s_log_buffer = [i \in Places |-> 0] /\ s_write_pos = 0 /\ s_wrapped = FALSE
  /\ s_total_written = 0
  /\ mutex = Nobody
  /\ writer = [t \in Tasks |-> "idle"] /\ bytes_to_write = [t \in Tasks |-> 0]
  /\ request = "none" /\ log_size = 0 /\ buffer_size = 1 /\ response = <<>>
  /\ newest = 0

-----------------------------------------------------------------------------
(* log_buffer_vprintf *)

(* Goes on when the mutex has not come in time. *)
TakeMutexOrNot(t) ==
  /\ writer[t] = "idle"
  /\ \E n \in 1 .. MaxMessage :
       /\ s_total_written + n <= MaxLogged
       /\ bytes_to_write' = [bytes_to_write EXCEPT ![t] = n]
  /\ mutex' = t
  /\ writer' = [writer EXCEPT ![t] = "locked"]
  /\ UNCHANGED <<ringVars, requestVars>>

TakeMutex(t) ==
  /\ writer[t] = "idle"
  /\ mutex = Nobody
  /\ \E n \in 1 .. MaxMessage :
       /\ s_total_written + n <= MaxLogged
       /\ bytes_to_write' = [bytes_to_write EXCEPT ![t] = n]
  /\ mutex' = t
  /\ writer' = [writer EXCEPT ![t] = "locked"]
  /\ UNCHANGED <<ringVars, requestVars>>

(* One byte too many taken to fit. *)
FitsOneMore(n) == s_write_pos + n <= BufferSize + 1

Fits(n) == s_write_pos + n <= BufferSize

(* The ring with n bytes, numbered from the given one on, copied to pos. *)
Copied(pos, n, first) ==
  [i \in Places |-> IF pos <= i /\ i < pos + n THEN first + (i - pos) ELSE s_log_buffer[i]]

CopyMessage(t) ==
  /\ writer[t] = "locked" /\ Fits(bytes_to_write[t])
  /\ s_log_buffer' = Copied(s_write_pos, bytes_to_write[t], s_total_written + 1)
  /\ s_write_pos' = s_write_pos + bytes_to_write[t]
  /\ writer' = [writer EXCEPT ![t] = "written"]
  /\ UNCHANGED <<s_wrapped, s_total_written, mutex, bytes_to_write, requestVars>>

first_part == BufferSize - s_write_pos

CopyToEnd(t) ==
  /\ writer[t] = "locked" /\ ~ Fits(bytes_to_write[t])
  /\ s_log_buffer' = Copied(s_write_pos, first_part, s_total_written + 1)
  /\ writer' = [writer EXCEPT ![t] = "second part"]
  /\ UNCHANGED <<s_write_pos, s_wrapped, s_total_written, mutex, bytes_to_write,
                 requestVars>>

CopyFromStart(t) ==
  /\ writer[t] = "second part"
  /\ s_log_buffer' = Copied(0, bytes_to_write[t] - first_part,
                            s_total_written + first_part + 1)
  /\ s_write_pos' = bytes_to_write[t] - first_part
  /\ s_wrapped' = TRUE
  /\ writer' = [writer EXCEPT ![t] = "written"]
  /\ UNCHANGED <<s_total_written, mutex, bytes_to_write, requestVars>>

GiveMutex(t) ==
  /\ writer[t] = "written"
  /\ s_total_written' = s_total_written + bytes_to_write[t]
  /\ mutex' = Nobody
  /\ writer' = [writer EXCEPT ![t] = "idle"]
  /\ UNCHANGED <<s_log_buffer, s_write_pos, s_wrapped, bytes_to_write, requestVars>>

-----------------------------------------------------------------------------
(* api_get_logs_handler *)

(* s_wrapped not looked at. *)
WritePosition == s_write_pos

Stored == IF s_wrapped THEN BufferSize ELSE s_write_pos

(* log_buffer_get_size, and the buffer for the answer. *)
ReadSize ==
  /\ request \in {"none", "answered"}
  /\ mutex = Nobody
  /\ log_size' = Stored
  /\ buffer_size' = IF Stored < ResponseLimit THEN Stored + 1 ELSE ResponseLimit
  /\ request' = "sized"
  /\ response' = <<>>
  /\ newest' = s_total_written
  /\ UNCHANGED <<ringVars, mutex, writerVars>>

(* log_buffer_get *)
LockForCopy ==
  /\ request = "sized"
  /\ mutex = Nobody
  /\ mutex' = Httpd
  /\ request' = "copying"
  /\ UNCHANGED <<ringVars, writerVars, log_size, buffer_size, response, newest>>

AtMost(n, limit) == IF n <= limit THEN n ELSE limit

(* n bytes of the ring from pos on. *)
Bytes(pos, n) == [i \in 1 .. n |-> s_log_buffer[pos + i - 1]]

(* What was copied, its end replaced by the terminator if it fills the     *)
(* buffer.                                                                 *)
Terminated(copy) == SubSeq(copy, 1, AtMost(Len(copy), buffer_size - 1))

AnswerWith(copy) ==
  /\ response' = Terminated(copy)
  /\ mutex' = Nobody
  /\ request' = "answered"

CopyAll ==
  /\ request = "copying" /\ ~ s_wrapped
  /\ AnswerWith(Bytes(0, AtMost(s_write_pos, buffer_size)))
  /\ UNCHANGED <<ringVars, writerVars, log_size, buffer_size, newest>>

(* The newer part first. *)
CopyNewest ==
  /\ request = "copying" /\ s_wrapped
  /\ response' = Bytes(0, AtMost(s_write_pos, buffer_size))
  /\ request' = "second part"
  /\ UNCHANGED <<ringVars, mutex, writerVars, log_size, buffer_size, newest>>

CopyOldest ==
  /\ request = "copying" /\ s_wrapped
  /\ response' = Bytes(s_write_pos, AtMost(first_part, buffer_size))
  /\ request' = "second part"
  /\ UNCHANGED <<ringVars, mutex, writerVars, log_size, buffer_size, newest>>

CopyRest ==
  /\ request = "second part"
  /\ AnswerWith(response \o Bytes(0, AtMost(s_write_pos, buffer_size - Len(response))))
  /\ UNCHANGED <<ringVars, writerVars, log_size, buffer_size, newest>>

-----------------------------------------------------------------------------
Write(t) ==
  TakeMutex(t) \/ CopyMessage(t) \/ CopyToEnd(t) \/ CopyFromStart(t) \/ GiveMutex(t)

GetLogs == ReadSize \/ LockForCopy \/ CopyAll \/ CopyOldest \/ CopyRest

Next == (\E t \in Tasks : Write(t)) \/ GetLogs

Spec == Init /\ [][Next]_logVars

-----------------------------------------------------------------------------
(* Nobody writes outside the buffer, or answers more than there is.        *)
LogTypeOK ==
  /\ s_log_buffer \in [Places -> Nat]
  /\ s_write_pos \in 0 .. BufferSize
  /\ s_wrapped \in BOOLEAN
  /\ s_total_written \in Nat
  /\ mutex \in Tasks \union {Httpd, Nobody}
  /\ writer \in [Tasks -> WriterPlaces]
  /\ bytes_to_write \in [Tasks -> 0 .. MaxMessage]
  /\ request \in RequestPlaces
  /\ log_size \in 0 .. BufferSize
  /\ buffer_size \in 1 .. ResponseLimit
  /\ response \in Seq(Nat) /\ Len(response) <= BufferSize
  /\ newest \in Nat

(* Between two messages the ring holds the newest bytes, as many as it has *)
(* room for, each at the place where a reader that starts with the oldest  *)
(* comes to it: also when a message ends exactly at the end of the buffer. *)
NobodyWrites == \A t \in Tasks : writer[t] = "idle"
Oldest == s_total_written - Stored + 1
PlaceOf(byte) ==
  LET place == byte - Oldest + (IF s_wrapped THEN s_write_pos ELSE 0)
  IN IF place < BufferSize THEN place ELSE place - BufferSize
HoldsLatest ==
  NobodyWrites =>
    /\ Stored = AtMost(s_total_written, BufferSize)
    /\ \A byte \in Oldest .. s_total_written : s_log_buffer[PlaceOf(byte)] = byte

(* An answer has no gap and no byte out of order, whatever was logged      *)
(* between the reading of the size and of the bytes.                       *)
AnswerConsecutive ==
  request = "answered" =>
    \A i \in 1 .. Len(response) - 1 : response[i + 1] = response[i] + 1

(* An answer not marked as truncated goes at least up to the byte that was *)
(* the newest when its size was read; a truncated one is as long as the    *)
(* limit allows (API_Endpoints.md: "Whether the response was truncated").  *)
Truncated == Len(response) < log_size
TruncatedTruly ==
  request = "answered" =>
    IF Truncated
      THEN Len(response) = ResponseLimit - 1
      ELSE newest > 0 => response # <<>> /\ response[Len(response)] >= newest

=============================================================================
