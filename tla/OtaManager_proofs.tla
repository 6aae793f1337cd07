------------------------- MODULE OtaManager_proofs -------------------------
(* Proofs about OtaManager for any tasks and any length of an image. *)
EXTENDS OtaManager, TLAPS

(***************************************************************************)
(* The inductive invariant.  Nothing in the code says that an upload and a *)
(* download exclude each other: it follows from what each of them holds.   *)
(***************************************************************************)

(* A download runs exactly as long as its handle is kept, and an upload    *)
(* runs only without one.                                                  *)
Exclusion ==
  /\ \A t \in Tasks : download[t] # "absent" <=> s_ota_task_handle = t
  /\ upload # "idle" => s_ota_task_handle = NoTask

(* Where each update has an OTA handle open; never on the running image. *)
Handles ==
  /\ writing[Httpd] # NoSlot <=> upload = "streaming"
  /\ \A t \in Tasks :
       /\ download[t] \in {"begun", "performing"} => writing[t] # NoSlot
       /\ writing[t] # NoSlot => download[t] \in {"begun", "performing", "failed"}
  /\ \A w \in Writers : writing[w] # running
  /\ upload \in {"streaming", "verified", "installed"} =>
       s_update_partition \in Slots \ {running}
  /\ upload = "streaming" => s_update_partition = writing[Httpd]

(* The boot partition changes when, and only when, an update is installed. *)
Installed ==
  \/ upload \in {"installed", "restarting"}
  \/ \E t \in Tasks : download[t] \in {"installed", "restarting"}

Images ==
  /\ boot # running <=> Installed
  /\ Whole(running) /\ Whole(boot)
  /\ upload = "verified" => Whole(s_update_partition)

Statuses ==
  /\ StatusTruthful
  /\ upload \in {"streaming", "verified"} => status # "ERROR"
  /\ \A t \in Tasks : download[t] \in {"performing", "unfinished"} => boot = running
  /\ \A t \in Tasks : download[t] = "performing" => status # "ERROR"

OtaInv == OtaTypeOK /\ Exclusion /\ Handles /\ Images /\ Statuses

-----------------------------------------------------------------------------
(* With two partitions, the next one to update is the one not running. *)
LEMMA NextSlot ==
  ASSUME running \in Slots
  PROVE  /\ NextUpdatePartition \in Slots \ {running}
         /\ \A s \in Slots : s # running => s = NextUpdatePartition
BY DEF Slots, NextUpdatePartition

(* The invariant holds at the start. *)
LEMMA InitOtaInv == Init => OtaInv
<1>. SUFFICES ASSUME Init PROVE OtaInv
  OBVIOUS
<1>1. OtaTypeOK
  <2>1. flash \in [Slots -> 0..ImageChunks]
    BY OtaAssumption DEF Init
  <2>2. writing \in [Writers -> Slots \cup {NoSlot}]
    BY DEF Init
  <2>3. upload = "idle" /\ download = [t \in Tasks |-> "absent"]
    BY DEF Init
  <2>. QED
    BY <2>1, <2>2, <2>3 DEF Init, OtaTypeOK
<1>2. Exclusion
  BY OtaAssumption DEF Init, Exclusion
<1>3. Handles
  BY OtaAssumption DEF Init, Handles, Slots, Writers
<1>4. Images
  BY OtaAssumption DEF Init, Images, Installed, Whole, Slots
<1>5. Statuses
  BY DEF Init, Statuses, StatusTruthful
<1>. QED
  BY <1>1, <1>2, <1>3, <1>4, <1>5 DEF OtaInv

(* No step of the web server's task, of the event task or a restart breaks *)
(* the invariant.                                                          *)
LEMMA UploadKeepsOtaInv ==
  ASSUME OtaInv,
         OtaManagerInit \/ StartStreaming \/ StartStreamingFails \/ UploadStep
           \/ Restart
  PROVE  OtaInv'
<1>1. CASE OtaManagerInit
  BY <1>1, OtaAssumption, NextSlot
     DEF OtaManagerInit, Flash,
         OtaInv, OtaTypeOK, Exclusion, Handles, Images, Statuses,
         StatusTruthful, Installed, Whole, Slots, Writers
<1>2. CASE StartStreaming
  BY <1>2, OtaAssumption, NextSlot
     DEF StartStreaming, Requested, NoUpdateTask, EspOtaBegin,
         OtaInv, OtaTypeOK, Exclusion, Handles, Images, Statuses,
         StatusTruthful, Installed, Whole, Slots, Writers
<1>3. CASE StartStreamingFails
  BY <1>3, OtaAssumption, NextSlot
     DEF StartStreamingFails, Requested, NoUpdateTask,
         OtaInv, OtaTypeOK, Exclusion, Handles, Images, Statuses,
         StatusTruthful, Installed, Whole, Slots, Writers
<1>4. CASE WriteChunk
  BY <1>4, OtaAssumption, NextSlot
     DEF WriteChunk, EspOtaWrite,
         OtaInv, OtaTypeOK, Exclusion, Handles, Images, Statuses,
         StatusTruthful, Installed, Whole, Slots, Writers
<1>5. CASE WriteChunkFails
  BY <1>5, OtaAssumption, NextSlot
     DEF WriteChunkFails, EspOtaClose, Flash,
         OtaInv, OtaTypeOK, Exclusion, Handles, Images, Statuses,
         StatusTruthful, Installed, Whole, Slots, Writers
<1>6. CASE AbortUpload
  BY <1>6, OtaAssumption, NextSlot
     DEF AbortUpload, EspOtaClose, Flash,
         OtaInv, OtaTypeOK, Exclusion, Handles, Images, Statuses,
         StatusTruthful, Installed, Whole, Slots, Writers
<1>7. CASE EndStreaming
  BY <1>7, OtaAssumption, NextSlot
     DEF EndStreaming, EspOtaClose, Flash,
         OtaInv, OtaTypeOK, Exclusion, Handles, Images, Statuses,
         StatusTruthful, Installed, Whole, Slots, Writers
<1>8. CASE FinishFails
  BY <1>8, OtaAssumption, NextSlot
     DEF FinishFails, EspOtaClose, Flash,
         OtaInv, OtaTypeOK, Exclusion, Handles, Images, Statuses,
         StatusTruthful, Installed, Whole, Slots, Writers
<1>9. CASE SetBootPartition
  BY <1>9, OtaAssumption, NextSlot
     DEF SetBootPartition,
         OtaInv, OtaTypeOK, Exclusion, Handles, Images, Statuses,
         StatusTruthful, Installed, Whole, Slots, Writers
<1>10. CASE FinishStreaming
  BY <1>10, OtaAssumption, NextSlot
     DEF FinishStreaming, Flash,
         OtaInv, OtaTypeOK, Exclusion, Handles, Images, Statuses,
         StatusTruthful, Installed, Whole, Slots, Writers
<1>11. CASE Restart
  BY <1>11, OtaAssumption, NextSlot
     DEF Restart,
         OtaInv, OtaTypeOK, Exclusion, Handles, Images, Statuses,
         StatusTruthful, Installed, Whole, Slots, Writers
<1>. QED
  BY <1>1, <1>2, <1>3, <1>4, <1>5, <1>6, <1>7, <1>8, <1>9, <1>10, <1>11 DEF UploadStep

(* Nor does a step of a download. *)
LEMMA DownloadKeepsOtaInv ==
  ASSUME OtaInv, NEW t \in Tasks, StartUpdate(t) \/ DownloadStep(t)
  PROVE  OtaInv'
<1>1. CASE StartUpdate(t)
  BY <1>1, OtaAssumption, NextSlot
     DEF StartUpdate, Requested, NoUpdateTask, Flash,
         OtaInv, OtaTypeOK, Exclusion, Handles, Images, Statuses,
         StatusTruthful, Installed, Whole, Slots, Writers
<1>2. CASE Begin(t)
  BY <1>2, OtaAssumption, NextSlot
     DEF Begin, EspOtaBegin, Goes, DownloadUnchanged,
         OtaInv, OtaTypeOK, Exclusion, Handles, Images, Statuses,
         StatusTruthful, Installed, Whole, Slots, Writers
<1>3. CASE BeginFails(t)
  BY <1>3, OtaAssumption, NextSlot
     DEF BeginFails, Goes, DownloadUnchanged,
         OtaInv, OtaTypeOK, Exclusion, Handles, Images, Statuses,
         StatusTruthful, Installed, Whole, Slots, Writers
<1>4. CASE ReportBegun(t)
  BY <1>4, OtaAssumption, NextSlot
     DEF ReportBegun, Goes, DownloadUnchanged,
         OtaInv, OtaTypeOK, Exclusion, Handles, Images, Statuses,
         StatusTruthful, Installed, Whole, Slots, Writers
<1>5. CASE Perform(t)
  BY <1>5, OtaAssumption, NextSlot
     DEF Perform, EspOtaWrite, DownloadUnchanged,
         OtaInv, OtaTypeOK, Exclusion, Handles, Images, Statuses,
         StatusTruthful, Installed, Whole, Slots, Writers
<1>6. CASE PerformFails(t)
  BY <1>6, OtaAssumption, NextSlot
     DEF PerformFails, Goes, DownloadUnchanged,
         OtaInv, OtaTypeOK, Exclusion, Handles, Images, Statuses,
         StatusTruthful, Installed, Whole, Slots, Writers
<1>7. CASE Finish(t)
  BY <1>7, OtaAssumption, NextSlot
     DEF Finish, EspOtaClose, Goes, DownloadUnchanged,
         OtaInv, OtaTypeOK, Exclusion, Handles, Images, Statuses,
         StatusTruthful, Installed, Whole, Slots, Writers
<1>8. CASE DownloadFinishFails(t)
  BY <1>8, OtaAssumption, NextSlot
     DEF DownloadFinishFails, EspOtaClose, Goes, DownloadUnchanged,
         OtaInv, OtaTypeOK, Exclusion, Handles, Images, Statuses,
         StatusTruthful, Installed, Whole, Slots, Writers
<1>9. CASE ReportUnfinished(t)
  BY <1>9, OtaAssumption, NextSlot
     DEF ReportUnfinished, Goes, DownloadUnchanged,
         OtaInv, OtaTypeOK, Exclusion, Handles, Images, Statuses,
         StatusTruthful, Installed, Whole, Slots, Writers
<1>10. CASE ReportComplete(t)
  BY <1>10, OtaAssumption, NextSlot
     DEF ReportComplete, Goes, DownloadUnchanged,
         OtaInv, OtaTypeOK, Exclusion, Handles, Images, Statuses,
         StatusTruthful, Installed, Whole, Slots, Writers
<1>11. CASE Abort(t)
  BY <1>11, OtaAssumption, NextSlot
     DEF Abort, EspOtaClose, Goes, DownloadUnchanged,
         OtaInv, OtaTypeOK, Exclusion, Handles, Images, Statuses,
         StatusTruthful, Installed, Whole, Slots, Writers
<1>12. CASE Release(t)
  BY <1>12, OtaAssumption, NextSlot
     DEF Release, Goes, DownloadUnchanged,
         OtaInv, OtaTypeOK, Exclusion, Handles, Images, Statuses,
         StatusTruthful, Installed, Whole, Slots, Writers
<1>. QED
  BY <1>1, <1>2, <1>3, <1>4, <1>5, <1>6, <1>7, <1>8, <1>9, <1>10, <1>11, <1>12 DEF DownloadStep

(* OtaInv is an invariant of the manager. *)
THEOREM OtaInvariance == Spec => []OtaInv
<1>1. OtaInv /\ [Next]_otaVars => OtaInv'
  <2>. SUFFICES ASSUME OtaInv, [Next]_otaVars PROVE OtaInv'
    OBVIOUS
  <2>1. CASE Next
    BY <2>1, UploadKeepsOtaInv, DownloadKeepsOtaInv DEF Next, EspRestart
  <2>2. CASE UNCHANGED otaVars
    BY <2>2
       DEF otaVars, OtaInv, OtaTypeOK, Exclusion, Handles, Images, Statuses,
           StatusTruthful, Installed, Whole, Slots, Writers
  <2>. QED
    BY <2>1, <2>2
<1>. QED
  BY InitOtaInv, <1>1, PTL DEF Spec

(* The types: in particular no partition holds more than an image.         *)
THEOREM OtaTypeCorrect == Spec => []OtaTypeOK
<1>1. OtaInv => OtaTypeOK
  BY DEF OtaInv
<1>. QED
  BY <1>1, OtaInvariance, PTL

(* At most one update writes, whether it is an upload or a download. *)
THEOREM OneWriterAtATime == Spec => []OneWriter
<1>1. OtaInv => OneWriter
  BY OtaAssumption DEF OtaInv, OtaTypeOK, Exclusion, Handles, OneWriter, Writers
<1>. QED
  BY <1>1, OtaInvariance, PTL

(* The device can be switched off at any time. *)
THEOREM AlwaysBootable == Spec => []BootImageWhole
<1>1. OtaInv => BootImageWhole
  BY DEF OtaInv, Images, BootImageWhole
<1>. QED
  BY <1>1, OtaInvariance, PTL

(* What is reported of a finished update is what happened to it. *)
THEOREM FinalStatusTruthful == Spec => []StatusTruthful
<1>1. OtaInv => StatusTruthful
  BY DEF OtaInv, Statuses
<1>. QED
  BY <1>1, OtaInvariance, PTL

-----------------------------------------------------------------------------
(* The refinement: each step leaves the two partitions as they are, or     *)
(* writes the spare one, installs it, or restarts.                         *)
LEMMA UploadRefines ==
  ASSUME OtaInv,
         OtaManagerInit \/ StartStreaming \/ StartStreamingFails \/ UploadStep
           \/ Restart
  PROVE  [TwoSlots!Next]_(TwoSlots!vars)
<1>. DEFINE Stays == UNCHANGED <<running, boot, flash>>
<1>0. Stays => [TwoSlots!Next]_(TwoSlots!vars)
  BY DEF TwoSlots!vars, Whole
<1>1. CASE OtaManagerInit \/ WriteChunkFails \/ AbortUpload \/ EndStreaming \/ FinishFails \/ FinishStreaming
  BY <1>0, <1>1 DEF OtaManagerInit, WriteChunkFails, AbortUpload, EndStreaming, FinishFails, FinishStreaming, Flash
<1>2. CASE StartStreaming
  <2>1. TwoSlots!Write(NextUpdatePartition)
    BY <1>2, OtaAssumption, NextSlot
       DEF StartStreaming, Requested, NoUpdateTask, EspOtaBegin, TwoSlots!Write, TwoSlots!Install, TwoSlots!Restart,
         OtaInv, OtaTypeOK, Exclusion, Handles, Images, Statuses,
         StatusTruthful, Installed, Whole, Slots, Writers
  <2>. QED
    BY <2>1, <1>2, NextSlot DEF TwoSlots!Next, OtaInv, OtaTypeOK, StartStreaming
<1>3. CASE StartStreamingFails
  <2>1. TwoSlots!Write(NextUpdatePartition)
    BY <1>3, OtaAssumption, NextSlot
       DEF StartStreamingFails, Requested, NoUpdateTask, TwoSlots!Write, TwoSlots!Install, TwoSlots!Restart,
         OtaInv, OtaTypeOK, Exclusion, Handles, Images, Statuses,
         StatusTruthful, Installed, Whole, Slots, Writers
  <2>. QED
    BY <2>1, <1>3, NextSlot DEF TwoSlots!Next, OtaInv, OtaTypeOK, StartStreamingFails
<1>4. CASE WriteChunk
  <2>1. TwoSlots!Write(NextUpdatePartition)
    BY <1>4, OtaAssumption, NextSlot
       DEF WriteChunk, EspOtaWrite, TwoSlots!Write, TwoSlots!Install, TwoSlots!Restart,
         OtaInv, OtaTypeOK, Exclusion, Handles, Images, Statuses,
         StatusTruthful, Installed, Whole, Slots, Writers
  <2>. QED
    BY <2>1, <1>4, NextSlot DEF TwoSlots!Next, OtaInv, OtaTypeOK, WriteChunk
<1>5. CASE SetBootPartition
  <2>1. TwoSlots!Install(s_update_partition)
    BY <1>5, OtaAssumption, NextSlot
       DEF SetBootPartition, TwoSlots!Write, TwoSlots!Install, TwoSlots!Restart,
         OtaInv, OtaTypeOK, Exclusion, Handles, Images, Statuses,
         StatusTruthful, Installed, Whole, Slots, Writers
  <2>. QED
    BY <2>1, <1>5, NextSlot DEF TwoSlots!Next, OtaInv, OtaTypeOK, SetBootPartition
<1>6. CASE Restart
  <2>1. TwoSlots!Restart
    BY <1>6, OtaAssumption, NextSlot
       DEF Restart, TwoSlots!Write, TwoSlots!Install, TwoSlots!Restart,
         OtaInv, OtaTypeOK, Exclusion, Handles, Images, Statuses,
         StatusTruthful, Installed, Whole, Slots, Writers
  <2>. QED
    BY <2>1, <1>6, NextSlot DEF TwoSlots!Next, OtaInv, OtaTypeOK, Restart
<1>. QED
  BY <1>1, <1>2, <1>3, <1>4, <1>5, <1>6 DEF UploadStep

(* The same of a step of a download. *)
LEMMA DownloadRefines ==
  ASSUME OtaInv, NEW t \in Tasks, StartUpdate(t) \/ DownloadStep(t)
  PROVE  [TwoSlots!Next]_(TwoSlots!vars)
<1>. DEFINE Stays == UNCHANGED <<running, boot, flash>>
<1>0. Stays => [TwoSlots!Next]_(TwoSlots!vars)
  BY DEF TwoSlots!vars, Whole
<1>1. CASE StartUpdate(t) \/ BeginFails(t) \/ ReportBegun(t) \/ PerformFails(t) \/ DownloadFinishFails(t) \/ ReportUnfinished(t) \/ ReportComplete(t) \/ Abort(t) \/ Release(t)
  BY <1>0, <1>1 DEF StartUpdate, BeginFails, ReportBegun, PerformFails, DownloadFinishFails, ReportUnfinished, ReportComplete, Abort, Release, Flash, DownloadUnchanged
<1>2. CASE Begin(t)
  <2>1. TwoSlots!Write(NextUpdatePartition)
    BY <1>2, OtaAssumption, NextSlot
       DEF Begin, EspOtaBegin, Goes, DownloadUnchanged, TwoSlots!Write, TwoSlots!Install,
         OtaInv, OtaTypeOK, Exclusion, Handles, Images, Statuses,
         StatusTruthful, Installed, Whole, Slots, Writers
  <2>. QED
    BY <2>1, <1>2, NextSlot
       DEF TwoSlots!Next, OtaInv, OtaTypeOK, Handles, Writers, Begin
<1>3. CASE Perform(t)
  <2>1. TwoSlots!Write(NextUpdatePartition)
    BY <1>3, OtaAssumption, NextSlot
       DEF Perform, EspOtaWrite, DownloadUnchanged, TwoSlots!Write, TwoSlots!Install,
         OtaInv, OtaTypeOK, Exclusion, Handles, Images, Statuses,
         StatusTruthful, Installed, Whole, Slots, Writers
  <2>. QED
    BY <2>1, <1>3, NextSlot
       DEF TwoSlots!Next, OtaInv, OtaTypeOK, Handles, Writers, Perform
<1>4. CASE Finish(t)
  <2>1. TwoSlots!Install(writing[t])
    BY <1>4, OtaAssumption, NextSlot
       DEF Finish, EspOtaClose, Goes, DownloadUnchanged, TwoSlots!Write, TwoSlots!Install,
         OtaInv, OtaTypeOK, Exclusion, Handles, Images, Statuses,
         StatusTruthful, Installed, Whole, Slots, Writers
  <2>2. writing[t] \in Slots
    BY <2>1 DEF TwoSlots!Install
  <2>. QED
    BY <2>1, <2>2 DEF TwoSlots!Next
<1>. QED
  BY <1>1, <1>2, <1>3, <1>4 DEF DownloadStep

(* The manager implements the promise of two partitions. *)
THEOREM TwoSlotRefinement == Spec => ImplementsTwoSlotUpdate
<1>1. Init => TwoSlots!Init
  BY DEF Init, TwoSlots!Init, Whole, Slots
<1>2. OtaInv /\ [Next]_otaVars => [TwoSlots!Next]_(TwoSlots!vars)
  <2>. SUFFICES ASSUME OtaInv, [Next]_otaVars
                PROVE  [TwoSlots!Next]_(TwoSlots!vars)
    OBVIOUS
  <2>1. CASE Next
    BY <2>1, UploadRefines, DownloadRefines DEF Next, EspRestart
  <2>2. CASE UNCHANGED otaVars
    BY <2>2 DEF otaVars, TwoSlots!vars, Whole
  <2>. QED
    BY <2>1, <2>2
<1>. QED
  BY <1>1, <1>2, OtaInvariance, PTL DEF Spec, ImplementsTwoSlotUpdate, TwoSlots!Spec

=============================================================================
