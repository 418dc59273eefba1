-------------------------- MODULE MC_TebContributor --------------------------
(* TebContributor with two TEBs, two readout groups (0 the common one),   *)
(* two batch slots of two entries, and a datagram mix of events,          *)
(* SlowUpdates and Disables, triggering the common group or not.          *)
EXTENDS TebContributor

MCKinds ==
  {[svc |-> "L1Accept",   rog |-> {0}],
   [svc |-> "L1Accept",   rog |-> {1}],
   [svc |-> "SlowUpdate", rog |-> {0, 1}],
   [svc |-> "Disable",    rog |-> {0}],
   [svc |-> "Disable",    rog |-> {1}]}
====
