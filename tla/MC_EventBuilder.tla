--------------------------- MODULE MC_EventBuilder ---------------------------
(* Two contributors, two readout groups and five pulses spread over three  *)
(* epochs of two events; the epoch LUT has two slots, so the third epoch   *)
(* collides with the first when the first is still pending, and the event *)
(* pool (2) is smaller than the LUT's reach (4).                           *)
EXTENDS EventBuilder

MCContractTable == (0 :> {0, 1}) @@ (1 :> {1})

\* readout groups per pulse: group 0, group 1 only, both groups
MCRoG == [p \in Pids |-> CASE p % 3 = 0 -> {0}
                           [] p % 3 = 1 -> {1}
                           [] OTHER     -> {0, 1}]
====
