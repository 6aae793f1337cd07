---------------------------- MODULE MCIoTransport ----------------------------
EXTENDS IoTransport, TLC

(* The input only connections are interchangeable.                         *)
Symmetry == Permutations(Inputs)

(* Only the master's timer and numbers are read, and what the owner has    *)
(* consumed only while it is established.                                  *)
TransportView ==
  <<elapsed_time, established, master, production_trigger, streamVars,
    IF master = NoConnection THEN 0
    ELSE <<transmission_trigger_timer[master], eip_level_sequence_count_producing[master]>>,
    IF Owner \in established THEN <<consumerVars, originatorVars, quiet>> ELSE number>>

=============================================================================
