---------------------------- MODULE LinkHandshake ----------------------------
(***************************************************************************)
(* What the link bootstrap of spec.md 4.A promises, with each end's part   *)
(* as one atomic step.  The poster (the end that will issue RDMA writes)   *)
(* and the pender (the end that receives them) each end up either ready,   *)
(* knowing the other's id, or failed.  The poster is ready only after the  *)
(* pender, and then holds the very descriptor the pender registered, whose *)
(* extent covers the region size the poster announced.  A failed end may   *)
(* start again (spec.md 7: a SizeMismatch is non-fatal if the caller       *)
(* retries).                                                               *)
(***************************************************************************)
EXTENDS Naturals

CONSTANTS
  PosterId,   \* id the poster announces
  PenderId,   \* id the pender announces
  Descs,      \* remote-memory descriptors [key, extent]
  Sizes,      \* region sizes the poster may announce
  Nil

Ends == {"poster", "pender"}

VARIABLES
  size,       \* the region size the poster announces
  st,         \* [Ends -> {"busy", "ready", "failed"}]
  peer,       \* [Ends -> id of the other end, or Nil]
  ra          \* [Ends -> descriptor: the pender's own, the poster's remote one]

vars == <<size, st, peer, ra>>

Init ==
  /\ size \in Sizes
  /\ st = [e \in Ends |-> "busy"]
  /\ peer = [e \in Ends |-> Nil]
  /\ ra = [e \in Ends |-> Nil]

\* the pender learns the poster's id and publishes a region large enough
PenderReady ==
  /\ st["pender"] = "busy"
  /\ \E d \in Descs :
       /\ d.extent >= size
       /\ ra' = [ra EXCEPT !["pender"] = d]
  /\ st' = [st EXCEPT !["pender"] = "ready"]
  /\ peer' = [peer EXCEPT !["pender"] = PosterId]
  /\ UNCHANGED size

\* the poster learns the pender's id and its descriptor
PosterReady ==
  /\ st["poster"] = "busy"
  /\ st["pender"] = "ready"
  /\ st' = [st EXCEPT !["poster"] = "ready"]
  /\ peer' = [peer EXCEPT !["poster"] = PenderId]
  /\ ra' = [ra EXCEPT !["poster"] = ra["pender"]]
  /\ UNCHANGED size

Fail(e) ==
  /\ st[e] = "busy"
  /\ st' = [st EXCEPT ![e] = "failed"]
  /\ UNCHANGED <<size, peer, ra>>

Restart(e) ==
  /\ st[e] = "failed"
  /\ st' = [st EXCEPT ![e] = "busy"]
  /\ peer' = [peer EXCEPT ![e] = Nil]
  /\ ra' = [ra EXCEPT ![e] = Nil]
  /\ UNCHANGED size

Next ==
  \/ PenderReady
  \/ PosterReady
  \/ \E e \in Ends : Fail(e) \/ Restart(e)

Spec == Init /\ [][Next]_vars
====
