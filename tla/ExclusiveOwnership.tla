------------------------ MODULE ExclusiveOwnership ------------------------
(***************************************************************************)
(* What the target promises about its output assembly: one scanner at a    *)
(* time owns it, and an owner that has lapsed keeps it reserved until it   *)
(* comes back or the connection is closed.  Nobody takes an output         *)
(* assembly over from somebody else.                                       *)
(***************************************************************************)
CONSTANTS Scanners, NoOwner

VARIABLES owner, phase

vars == <<owner, phase>>

Init == owner = NoOwner /\ phase = "free"

Acquire(o) ==
  /\ phase = "free"
  /\ owner' = o
  /\ phase' = "held"

Lapse ==
  /\ phase = "held"
  /\ phase' = "lapsed"
  /\ UNCHANGED owner

Reclaim(o) ==
  /\ phase = "lapsed"
  /\ owner = o
  /\ phase' = "held"
  /\ UNCHANGED owner

Release ==
  /\ phase # "free"
  /\ owner' = NoOwner
  /\ phase' = "free"

Next ==
  \/ \E o \in Scanners : Acquire(o) \/ Reclaim(o)
  \/ Lapse
  \/ Release

Spec == Init /\ [][Next]_vars

=============================================================================
