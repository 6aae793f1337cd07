---------------------------- MODULE MCEipTarget ----------------------------
(* EipTarget on small pools, descriptors and watchdogs. *)
EXTENDS EipTarget, TLC

Symmetry == Permutations(Originators) \cup Permutations(Serials)

(* The count of the application is written and never read by the stack;    *)
(* runs that check nothing of it leave it out.                             *)
StackView == <<conn, list, cursor, desc, udpIo, sessions, fault>>

=============================================================================
