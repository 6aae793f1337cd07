-------------------------- MODULE TwoSlotUpdate --------------------------
(***************************************************************************)
(* What a device with two firmware partitions promises, whatever becomes   *)
(* of its updates: it starts from a complete image.  Only the partition it *)
(* will not start from is ever written, an image is installed only when it *)
(* is complete, and an installed image stays as it is until it is started. *)
(***************************************************************************)
CONSTANT Partitions

VARIABLES running, boot, whole

vars == <<running, boot, whole>>

Init ==
  /\ running \in Partitions
  /\ boot = running
  /\ whole \in SUBSET Partitions
  /\ running \in whole

Write(s) ==
  /\ boot = running
  /\ s # running
  /\ whole' \in {whole \cup {s}, whole \ {s}}
  /\ UNCHANGED <<running, boot>>

Install(s) ==
  /\ boot = running
  /\ s \in whole \ {running}
  /\ boot' = s
  /\ UNCHANGED <<running, whole>>

Restart ==
  /\ running' = boot
  /\ UNCHANGED <<boot, whole>>

Next == Restart \/ \E s \in Partitions : Write(s) \/ Install(s)

Spec == Init /\ [][Next]_vars

=============================================================================
