---------------------------- MODULE OtaManager ----------------------------
(***************************************************************************)
(* Firmware updates (components/ota_manager and the update handler of      *)
(* components/webui): an upload streamed by the web server's one task, a   *)
(* download by a task of its own, and the Ethernet event task, which       *)
(* initialises the manager again whenever the link comes back.             *)
(*                                                                         *)
(* The mutex s_ota_mutex is held only within an action.  An image is so    *)
(* many chunks; what a partition holds is the number of them written since *)
(* it was erased, which is enough as long as there is one writer.          *)
(***************************************************************************)
EXTENDS Naturals, FiniteSets

CONSTANTS
  Tasks,        \* handles of ota_task
  NoTask,       \* the NULL task handle
  Httpd,        \* the task of the web server
  NoSlot,       \* the NULL partition
  ImageChunks   \* chunks of a complete image

ASSUME OtaAssumption ==
  /\ NoTask \notin Tasks
  /\ Httpd \notin Tasks
  /\ NoSlot \notin {"ota_0", "ota_1"}
  /\ ImageChunks \in Nat \ {0}

Slots == {"ota_0", "ota_1"}
Writers == Tasks \cup {Httpd}

VARIABLES
  running,            \* the partition the device runs from
  boot,               \* the partition it will start from
  flash,              \* chunks of an image in each partition
  writing,            \* the partition each writer has an open OTA handle on
  upload,             \* what the web server's task is doing
  download,           \* what each ota_task is doing
  s_ota_task_handle,
  s_update_partition,
  status,             \* s_ota_status.status
  initialized         \* s_ota_mutex # NULL

otaVars == <<running, boot, flash, writing, upload, download,
             s_ota_task_handle, s_update_partition, status, initialized>>

Whole(s) == flash[s] = ImageChunks

(* esp_ota_get_next_update_partition(NULL) *)
NextUpdatePartition == CHOOSE s \in Slots : s # running

Init ==
  /\ running \in Slots
  /\ boot = running
  /\ \E n \in 0..ImageChunks :
       flash = [s \in Slots |-> IF s = running THEN ImageChunks ELSE n]
  /\ writing = [w \in Writers |-> NoSlot]
  /\ upload = "idle"
  /\ download = [t \in Tasks |-> "absent"]
  /\ s_ota_task_handle = NoTask
  /\ s_update_partition = NoSlot
  /\ status = "IDLE"
  /\ initialized = FALSE

-----------------------------------------------------------------------------
(* The OTA library on behalf of writer w. *)

EspOtaBegin(w) ==
  /\ flash' = [flash EXCEPT ![NextUpdatePartition] = 0]
  /\ writing' = [writing EXCEPT ![w] = NextUpdatePartition]

EspOtaWrite(w) ==
  /\ writing[w] # NoSlot
  /\ ~ Whole(writing[w])
  /\ flash' = [flash EXCEPT ![writing[w]] = @ + 1]

(* esp_ota_end and esp_ota_abort free the handle; end passes an image only *)
(* if it is complete, and may refuse it even then.                         *)
EspOtaClose(w) == writing' = [writing EXCEPT ![w] = NoSlot]

Flash == <<running, boot, flash>>

-----------------------------------------------------------------------------
(* ota_manager_init, again each time an address is obtained after a loss   *)
(* of the link.                                                            *)
OtaManagerInit ==
  /\ initialized' = TRUE
  /\ status' = "IDLE"
  /\ UNCHANGED <<Flash, writing, upload, download, s_ota_task_handle,
                 s_update_partition>>

(* The check of a running download left out. *)
UncheckedTask == TRUE

NoUpdateTask == s_ota_task_handle = NoTask

(* A request reaches the manager when the web server's task has none. *)
Requested == upload = "idle" /\ initialized /\ NoUpdateTask

StartUpdate(t) ==
  /\ Requested
  /\ download[t] = "absent"
  /\ s_ota_task_handle' = t
  /\ download' = [download EXCEPT ![t] = "begin"]
  /\ UNCHANGED <<Flash, writing, upload, s_update_partition, status,
                 initialized>>

StartStreaming ==
  /\ Requested
  /\ EspOtaBegin(Httpd)
  /\ s_update_partition' = NextUpdatePartition
  /\ upload' = "streaming"
  /\ status' = "IN_PROGRESS"
  /\ UNCHANGED <<running, boot, download, s_ota_task_handle, initialized>>

(* esp_ota_begin fails after erasing. *)
StartStreamingFails ==
  /\ Requested
  /\ flash' = [flash EXCEPT ![NextUpdatePartition] = 0]
  /\ UNCHANGED <<running, boot, writing, upload, download,
                 s_ota_task_handle, s_update_partition, status, initialized>>

WriteChunk ==
  /\ upload = "streaming"
  /\ EspOtaWrite(Httpd)
  /\ UNCHANGED <<running, boot, writing, upload, download,
                 s_ota_task_handle, s_update_partition, status, initialized>>

WriteChunkFails ==
  /\ upload = "streaming"
  /\ EspOtaClose(Httpd)
  /\ upload' = "idle"
  /\ status' = "ERROR"
  /\ UNCHANGED <<Flash, download, s_ota_task_handle, s_update_partition,
                 initialized>>

(* The upload handler gives up: timeouts, a lost connection, no memory, an *)
(* incomplete body.                                                        *)
AbortUpload ==
  /\ upload = "streaming"
  /\ EspOtaClose(Httpd)
  /\ upload' = "idle"
  /\ UNCHANGED <<Flash, download, s_ota_task_handle, s_update_partition,
                 status, initialized>>

(* The three parts of ota_manager_finish_streaming_update. *)
(* The result of esp_ota_end not looked at. *)
EndStreamingUnverified ==
  /\ upload = "streaming"
  /\ EspOtaClose(Httpd)
  /\ upload' = "verified"
  /\ UNCHANGED <<Flash, download, s_ota_task_handle, s_update_partition,
                 status, initialized>>

EndStreaming ==
  /\ upload = "streaming"
  /\ Whole(writing[Httpd])
  /\ EspOtaClose(Httpd)
  /\ upload' = "verified"
  /\ UNCHANGED <<Flash, download, s_ota_task_handle, s_update_partition,
                 status, initialized>>

FinishFails ==
  /\ upload \in {"streaming", "verified"}
  /\ EspOtaClose(Httpd)
  /\ upload' = "idle"
  /\ s_ota_task_handle' = NoTask
  /\ s_update_partition' = NoSlot
  /\ status' = "ERROR"
  /\ UNCHANGED <<Flash, download, initialized>>

SetBootPartition ==
  /\ upload = "verified"
  /\ s_update_partition # NoSlot
  /\ boot' = s_update_partition
  /\ upload' = "installed"
  /\ UNCHANGED <<running, flash, writing, download, s_ota_task_handle,
                 s_update_partition, status, initialized>>

(* Without the restart. *)
FinishStreamingStayingUp ==
  /\ upload = "installed"
  /\ upload' = "idle"
  /\ s_ota_task_handle' = NoTask
  /\ s_update_partition' = NoSlot
  /\ status' = "COMPLETE"
  /\ UNCHANGED <<Flash, writing, download, initialized>>

FinishStreaming ==
  /\ upload = "installed"
  /\ upload' = "restarting"
  /\ s_ota_task_handle' = NoTask
  /\ s_update_partition' = NoSlot
  /\ status' = "COMPLETE"
  /\ UNCHANGED <<Flash, writing, download, initialized>>

-----------------------------------------------------------------------------
(* ota_task *)

Goes(t, from, to) ==
  /\ download[t] = from
  /\ download' = [download EXCEPT ![t] = to]

DownloadUnchanged ==
  UNCHANGED <<running, upload, s_update_partition, initialized>>

Begin(t) ==
  /\ Goes(t, "begin", "begun")
  /\ EspOtaBegin(t)
  /\ UNCHANGED <<boot, s_ota_task_handle, status>>
  /\ DownloadUnchanged

(* A failed begin that leaves the task handle. *)
BeginFailsKeepingHandle(t) ==
  /\ Goes(t, "begin", "absent")
  /\ status' = "ERROR"
  /\ UNCHANGED <<boot, flash, writing, s_ota_task_handle>>
  /\ DownloadUnchanged

BeginFails(t) ==
  /\ Goes(t, "begin", "absent")
  /\ status' = "ERROR"
  /\ s_ota_task_handle' = NoTask
  /\ UNCHANGED <<boot, flash, writing>>
  /\ DownloadUnchanged

ReportBegun(t) ==
  /\ Goes(t, "begun", "performing")
  /\ status' = "IN_PROGRESS"
  /\ UNCHANGED <<boot, flash, writing, s_ota_task_handle>>
  /\ DownloadUnchanged

Perform(t) ==
  /\ download[t] = "performing"
  /\ EspOtaWrite(t)
  /\ UNCHANGED <<boot, writing, download, s_ota_task_handle, status>>
  /\ DownloadUnchanged

PerformFails(t) ==
  /\ Goes(t, "performing", "failed")
  /\ status' = "ERROR"
  /\ UNCHANGED <<boot, flash, writing, s_ota_task_handle>>
  /\ DownloadUnchanged

(* esp_https_ota_finish verifies the image and makes it the boot image; it *)
(* frees its handle whether it succeeds or not.                            *)
Finish(t) ==
  /\ Goes(t, "performing", "installed")
  /\ Whole(writing[t])
  /\ boot' = writing[t]
  /\ EspOtaClose(t)
  /\ UNCHANGED <<flash, s_ota_task_handle, status>>
  /\ DownloadUnchanged

(* The result of esp_https_ota_finish not looked at. *)
DownloadFinishUnchecked(t) ==
  /\ Goes(t, "performing", "installed")
  /\ EspOtaClose(t)
  /\ UNCHANGED <<boot, flash, s_ota_task_handle, status>>
  /\ DownloadUnchanged

DownloadFinishFails(t) ==
  /\ Goes(t, "performing", "unfinished")
  /\ EspOtaClose(t)
  /\ UNCHANGED <<boot, flash, s_ota_task_handle, status>>
  /\ DownloadUnchanged

ReportUnfinished(t) ==
  /\ Goes(t, "unfinished", "failed")
  /\ status' = "ERROR"
  /\ UNCHANGED <<boot, flash, writing, s_ota_task_handle>>
  /\ DownloadUnchanged

(* The task handle cleared with the report, as the other ends do. *)
ReportCompleteReleasing(t) ==
  /\ Goes(t, "installed", "restarting")
  /\ status' = "COMPLETE"
  /\ s_ota_task_handle' = NoTask
  /\ UNCHANGED <<boot, flash, writing>>
  /\ DownloadUnchanged

ReportComplete(t) ==
  /\ Goes(t, "installed", "restarting")
  /\ status' = "COMPLETE"
  /\ UNCHANGED <<boot, flash, writing, s_ota_task_handle>>
  /\ DownloadUnchanged

(* esp_https_ota_abort; after a failed finish its argument is freed memory *)
(* and the device may as well panic, which is a Restart.                   *)
Abort(t) ==
  /\ Goes(t, "failed", "aborted")
  /\ EspOtaClose(t)
  /\ UNCHANGED <<boot, flash, s_ota_task_handle, status>>
  /\ DownloadUnchanged

Release(t) ==
  /\ Goes(t, "aborted", "absent")
  /\ s_ota_task_handle' = NoTask
  /\ UNCHANGED <<boot, flash, writing, status>>
  /\ DownloadUnchanged

-----------------------------------------------------------------------------
(* esp_restart after an update; a loss of power or a panic at any time.    *)
Restart ==
  /\ running' = boot
  /\ writing' = [w \in Writers |-> NoSlot]
  /\ upload' = "idle"
  /\ download' = [t \in Tasks |-> "absent"]
  /\ s_ota_task_handle' = NoTask
  /\ s_update_partition' = NoSlot
  /\ status' = "IDLE"
  /\ initialized' = FALSE
  /\ UNCHANGED <<boot, flash>>

Restarting == upload = "restarting" \/ \E t \in Tasks : download[t] = "restarting"
EspRestart == Restarting /\ Restart

UploadStep ==
  \/ WriteChunk \/ WriteChunkFails \/ AbortUpload
  \/ EndStreaming \/ FinishFails \/ SetBootPartition \/ FinishStreaming

DownloadStep(t) ==
  \/ Begin(t) \/ BeginFails(t) \/ ReportBegun(t)
  \/ Perform(t) \/ PerformFails(t) \/ Finish(t) \/ DownloadFinishFails(t)
  \/ ReportUnfinished(t) \/ ReportComplete(t) \/ Abort(t) \/ Release(t)

Next ==
  \/ OtaManagerInit
  \/ StartStreaming
  \/ StartStreamingFails
  \/ UploadStep
  \/ \E t \in Tasks : StartUpdate(t) \/ DownloadStep(t)
  \/ EspRestart
  \/ Restart

Spec == Init /\ [][Next]_otaVars

(* The upload handler reads, times out or gives up, and a download task    *)
(* has network timeouts: neither waits for ever.  esp_restart restarts.    *)
(* Nothing is assumed of requests, links or power.                         *)
Fairness ==
  /\ WF_otaVars(UploadStep)
  /\ \A t \in Tasks : WF_otaVars(DownloadStep(t))
  /\ WF_otaVars(EspRestart)

FairSpec == Spec /\ Fairness

-----------------------------------------------------------------------------
(* No partition is written past its image; the states are those named.     *)
OtaTypeOK ==
  /\ running \in Slots /\ boot \in Slots
  /\ flash \in [Slots -> 0..ImageChunks]
  /\ writing \in [Writers -> Slots \cup {NoSlot}]
  /\ upload \in {"idle", "streaming", "verified", "installed", "restarting"}
  /\ download \in [Tasks -> {"absent", "begin", "begun", "performing",
                             "failed", "unfinished", "aborted",
                             "installed", "restarting"}]
  /\ s_ota_task_handle \in Tasks \cup {NoTask}
  /\ s_update_partition \in Slots \cup {NoSlot}
  /\ status \in {"IDLE", "IN_PROGRESS", "COMPLETE", "ERROR"}
  /\ initialized \in BOOLEAN

(* Two updates never write at the same time, although only a download is   *)
(* kept in s_ota_task_handle and an upload is not: the web server's one    *)
(* task cannot take a second request, and a download keeps its handle till *)
(* after the abort.                                                        *)
OneWriter ==
  \A v, w \in Writers :
    writing[v] # NoSlot /\ writing[w] # NoSlot => v = w

(* Whenever the power fails, the partition the device will start from      *)
(* holds a complete image: an installed image is not erased by a further   *)
(* update in the two or three seconds before the restart.                  *)
BootImageWhole == Whole(boot)

(* The device keeps the promise of two partitions: no update writes the    *)
(* image it runs, or one installed and not yet started, or installs an     *)
(* incomplete one.                                                         *)
TwoSlots ==
  INSTANCE TwoSlotUpdate WITH Partitions <- Slots, whole <- {s \in Slots : Whole(s)}

ImplementsTwoSlotUpdate == TwoSlots!Spec

(* A completed update is installed and an installed one is not reported as *)
(* failed, however status reports and initialisations interleave.          *)
StatusTruthful ==
  /\ status = "COMPLETE" => boot # running
  /\ boot # running => status # "ERROR"

(* No update holds a partition, and no download the task handle, for ever: *)
(* every error path of the three ends of an update gives back what it took *)
UpdateEnds ==
  /\ \A w \in Writers : writing[w] # NoSlot ~> writing[w] = NoSlot
  /\ \A t \in Tasks : s_ota_task_handle = t ~> s_ota_task_handle # t

(* and an installed image is started.                                      *)
InstalledIsStarted == boot # running ~> boot = running

=============================================================================
