------------------------------- MODULE EbLfLink -------------------------------
(***************************************************************************)
(* The link bootstrap of src/psdaq/psdaq/eb/EbLfLink.cc between a poster   *)
(* (preparePoster(id, region, size)) and a pender (preparePender(id), or   *)
(* preparePender(id, &size) followed by its caller's region set-up and     *)
(* setupMr(region, size) in EbAppBase::_linksConfigure).  Every            *)
(* sendU32/recvU32/sendMr/recvMr call is one step; the connection is two   *)
(* reliable FIFO channels of messages (spec.md 6: sendSync / recvSync).   *)
(*                                                                         *)
(* Data is abstracted: a region size is a small number, a registered      *)
(* memory region is its descriptor [key, extent], and a message is either *)
(* a 32-bit word or a descriptor.  A receive takes whatever message is    *)
(* next: recvU32 of a descriptor reads its first word, the rkey; recvMr   *)
(* of a word reads that word as the rkey and whatever the buffer held    *)
(* before as the rest.                                                    *)
(*                                                                         *)
(* register_memory and every send and receive may fail (a receive also by *)
(* timing out), up to MaxFailures times; a failed end may run its prepare *)
(* again over the same connection, up to MaxRestarts times.               *)
(*                                                                         *)
(* Once both prepares have returned 0 the poster writes into the pender's *)
(* region, each write consuming one of the receives the pender keeps      *)
(* posted: the module EbLfRecv, composed here as the link's data phase.   *)
(***************************************************************************)
EXTENDS Naturals, Sequences

CONSTANTS
  PosterId,      \* id passed to preparePoster
  PenderId,      \* id passed to preparePender
  RaSize,        \* sizeof(RemoteAddress)
  TrSpace,       \* transition space the pender's caller adds to the region
  Keys,          \* rkeys register_memory may return
  Extents,       \* region extents a descriptor may carry
  PenderSized,   \* which preparePender overloads are used: TRUE is (id, &size)
  PosterSizes,   \* region sizes the poster may announce
  MaxFailures,   \* bound on failed calls
  MaxRestarts,   \* bound on prepare calls repeated after a failure
  RxDepth, Window, MaxWrites, MaxShortPosts, TxDepth, MaxCqErrors, \* of EbLfRecv
  Nil

ASSUME /\ PenderSized \subseteq BOOLEAN /\ PosterSizes \subseteq Nat
       /\ Keys \subseteq Nat /\ RaSize \in Nat /\ TrSpace \in Nat

Descs == [key : Keys, extent : Extents]
U32(v) == [kind |-> "u32", val |-> v]
MrMsg(d) == [kind |-> "mr", ra |-> d]

VARIABLES
  pPc,       \* the poster's position in preparePoster
  nPc,       \* the pender's position in preparePender and its caller
  toN,       \* messages in flight from poster to pender
  toP,       \* messages in flight from pender to poster
  pId,       \* poster's _id (the peer id it received)
  nId,       \* pender's _id
  pRa,       \* poster's _ra (the remote descriptor it received)
  nRa,       \* descriptor of the pender's region, as sendMr() sends it
  rs,        \* region size the pender received
  sized,     \* the pender uses preparePender(id, &size)
  size,      \* size the poster announces
  failures,
  restarts,
  rOuts, posted, inflight, backlog, sent, landed, shortPosts,   \* of EbLfRecv
  postPc, pendBit, txCq, rc, calls, cqErrors, returned

recvVars == <<rOuts, posted, inflight, backlog, sent, landed, shortPosts,
              postPc, pendBit, txCq, rc, calls, cqErrors, returned>>

hsVars == <<pPc, nPc, toN, toP, pId, nId, pRa, nRa, rs, sized, size,
            failures, restarts>>

vars == <<hsVars, recvVars>>

Recv == INSTANCE EbLfRecv

-----------------------------------------------------------------------------
\* outcomes of a call that may fail
Outcomes == IF failures < MaxFailures THEN BOOLEAN ELSE {TRUE}

\* recvU32: *u32 = *(uint32_t*)buf, the first word of whatever arrived
ReadU32(m) == IF m.kind = "u32" THEN m.val ELSE m.ra.key

\* recvMr: memcpy(&_ra, buf): a word arriving instead fills only the rkey
ReadMr(m) == IF m.kind = "mr" THEN {m.ra}
             ELSE {[key |-> m.val, extent |-> e] : e \in Extents}

\* the end moves to pc on success, or returns the error
Go(pc, ok, next) == pc' = IF ok THEN next ELSE "failed"

Count(ok) == failures' = IF ok THEN failures ELSE failures + 1

-----------------------------------------------------------------------------
(* preparePoster(id, region, size), lines 114-138                          *)
PosterSetupMr(ok) ==
  /\ pPc = "setupMr"
  /\ Go(pPc, ok, "sendId") /\ Count(ok)
  /\ UNCHANGED <<nPc, toN, toP, pId, nId, pRa, nRa, rs, sized, size, restarts>>

PosterSendId(ok) ==
  /\ pPc = "sendId"
  /\ toN' = IF ok THEN Append(toN, U32(PosterId)) ELSE toN
  /\ Go(pPc, ok, "recvId") /\ Count(ok)
  /\ UNCHANGED <<nPc, toP, pId, nId, pRa, nRa, rs, sized, size, restarts>>

PosterRecvId(ok) ==
  /\ pPc = "recvId"
  /\ ok => toP # <<>>
  /\ pId' = IF ok THEN ReadU32(Head(toP)) ELSE pId
  /\ toP' = IF ok THEN Tail(toP) ELSE toP
  /\ Go(pPc, ok, "sendSize") /\ Count(ok)
  /\ UNCHANGED <<nPc, toN, nId, pRa, nRa, rs, sized, size, restarts>>

\* mutant: the region size is never sent
PosterSendSizeSkipped(ok) ==
  /\ pPc = "sendSize"
  /\ Go(pPc, ok, "recvMr") /\ Count(ok)
  /\ UNCHANGED <<nPc, toN, toP, pId, nId, pRa, nRa, rs, sized, size, restarts>>

PosterSendSize(ok) ==
  /\ pPc = "sendSize"
  /\ toN' = IF ok THEN Append(toN, U32(size)) ELSE toN
  /\ Go(pPc, ok, "recvMr") /\ Count(ok)
  /\ UNCHANGED <<nPc, toP, pId, nId, pRa, nRa, rs, sized, size, restarts>>

PosterRecvMr(ok) ==
  /\ pPc = "recvMr"
  /\ ok => toP # <<>>
  /\ IF ok THEN \E d \in ReadMr(Head(toP)) : pRa' = d ELSE UNCHANGED pRa
  /\ toP' = IF ok THEN Tail(toP) ELSE toP
  /\ Go(pPc, ok, "done") /\ Count(ok)
  /\ UNCHANGED <<nPc, toN, pId, nId, nRa, rs, sized, size, restarts>>

-----------------------------------------------------------------------------
(* preparePender, lines 55-95: register the small buffer, receive the      *)
(* poster's id, send its own, receive the region size.                     *)
PenderSetupMr(ok) ==
  /\ nPc = "setupMr"
  /\ \E k \in Keys : nRa' = [key |-> k, extent |-> RaSize]
  /\ Go(nPc, ok, "recvId") /\ Count(ok)
  /\ UNCHANGED <<pPc, toN, toP, pId, nId, pRa, rs, sized, size, restarts>>

PenderRecvId(ok) ==
  /\ nPc = "recvId"
  /\ ok => toN # <<>>
  /\ nId' = IF ok THEN ReadU32(Head(toN)) ELSE nId
  /\ toN' = IF ok THEN Tail(toN) ELSE toN
  /\ Go(nPc, ok, "sendId") /\ Count(ok)
  /\ UNCHANGED <<pPc, toP, pId, pRa, nRa, rs, sized, size, restarts>>

\* mutant: the pender echoes the id it received instead of its own
PenderSendIdEcho(ok) ==
  /\ nPc = "sendId"
  /\ toP' = IF ok THEN Append(toP, U32(nId)) ELSE toP
  /\ Go(nPc, ok, "recvSize") /\ Count(ok)
  /\ UNCHANGED <<pPc, toN, pId, nId, pRa, nRa, rs, sized, size, restarts>>

PenderSendId(ok) ==
  /\ nPc = "sendId"
  /\ toP' = IF ok THEN Append(toP, U32(PenderId)) ELSE toP
  /\ Go(nPc, ok, "recvSize") /\ Count(ok)
  /\ UNCHANGED <<pPc, toN, pId, nId, pRa, nRa, rs, sized, size, restarts>>

\* mutant: the size check is left out
PenderCheckSizeUnchecked(ok) ==
  /\ nPc = "recvSize" /\ ~sized
  /\ ok => toN # <<>>
  /\ rs' = IF ok THEN ReadU32(Head(toN)) ELSE rs
  /\ toN' = IF ok THEN Tail(toN) ELSE toN
  /\ Go(nPc, ok, "sendMr") /\ Count(ok)
  /\ UNCHANGED <<pPc, toP, pId, nId, pRa, nRa, sized, size, restarts>>

(* preparePender(id): the region size must be sizeof(RemoteAddress), else *)
(* it returns -1 (SizeMismatch); then sendMr sends the small buffer's     *)
(* descriptor.                                                             *)
PenderCheckSize(ok) ==
  /\ nPc = "recvSize" /\ ~sized
  /\ ok => toN # <<>>
  /\ rs' = IF ok THEN ReadU32(Head(toN)) ELSE rs
  /\ toN' = IF ok THEN Tail(toN) ELSE toN
  /\ nPc' = IF ok /\ rs' = RaSize THEN "sendMr" ELSE "failed"
  /\ Count(ok)
  /\ UNCHANGED <<pPc, toP, pId, nId, pRa, nRa, sized, size, restarts>>

\* preparePender(id, &size): the size goes back to the caller, unchecked
PenderReturnSize(ok) ==
  /\ nPc = "recvSize" /\ sized
  /\ ok => toN # <<>>
  /\ rs' = IF ok THEN ReadU32(Head(toN)) ELSE rs
  /\ toN' = IF ok THEN Tail(toN) ELSE toN
  /\ Go(nPc, ok, "region") /\ Count(ok)
  /\ UNCHANGED <<pPc, toP, pId, nId, pRa, nRa, sized, size, restarts>>

(* The sized pender's caller, EbAppBase::_linksConfigure: the region is    *)
(* the received size plus the transition space, (re)allocated if larger   *)
(* than before (ENOMEM on failure), then registered by setupMr(region,    *)
(* size), which goes on to sendMr.                                         *)
PenderRegion(ok) ==
  /\ nPc = "region"
  /\ \E k \in Keys : nRa' = [key |-> k, extent |-> rs + TrSpace]
  /\ Go(nPc, ok, "sendMr") /\ Count(ok)
  /\ UNCHANGED <<pPc, toN, toP, pId, nId, pRa, rs, sized, size, restarts>>

\* sendMr(mr): the descriptor of the registered region goes to the poster
PenderSendMr(ok) ==
  /\ nPc = "sendMr"
  /\ toP' = IF ok THEN Append(toP, MrMsg(nRa)) ELSE toP
  /\ Go(nPc, ok, "done") /\ Count(ok)
  /\ UNCHANGED <<pPc, toN, pId, nId, pRa, nRa, rs, sized, size, restarts>>

-----------------------------------------------------------------------------
(* A failed prepare is called again with the same arguments over the same *)
(* connection: nothing drains what the earlier attempt left in flight.    *)
PosterRestart ==
  /\ pPc = "failed" /\ restarts < MaxRestarts
  /\ UNCHANGED recvVars
  /\ pPc' = "setupMr" /\ restarts' = restarts + 1
  /\ UNCHANGED <<nPc, toN, toP, pId, nId, pRa, nRa, rs, sized, size, failures>>

PenderRestart ==
  /\ nPc = "failed" /\ restarts < MaxRestarts
  /\ UNCHANGED recvVars
  /\ nPc' = "setupMr" /\ restarts' = restarts + 1
  /\ UNCHANGED <<pPc, toN, toP, pId, nId, pRa, nRa, rs, sized, size, failures>>

Init ==
  /\ pPc = "setupMr" /\ nPc = "setupMr"
  /\ toN = <<>> /\ toP = <<>>
  /\ pId = Nil /\ nId = Nil /\ pRa = Nil /\ nRa = Nil /\ rs = Nil
  /\ sized \in PenderSized
  /\ size \in PosterSizes
  /\ failures = 0 /\ restarts = 0
  /\ Recv!Init

PosterStep(ok) ==
  /\ \/ PosterSetupMr(ok) \/ PosterSendId(ok) \/ PosterRecvId(ok)
     \/ PosterSendSize(ok) \/ PosterRecvMr(ok)
  /\ UNCHANGED recvVars

PenderStep(ok) ==
  /\ \/ PenderSetupMr(ok) \/ PenderRecvId(ok) \/ PenderSendId(ok)
     \/ PenderCheckSize(ok) \/ PenderReturnSize(ok) \/ PenderRegion(ok)
     \/ PenderSendMr(ok)
  /\ UNCHANGED recvVars

\* both prepares returned 0: the poster may post into the pender's region
Prepared == pPc = "done" /\ nPc = "done"

(* The data phase: the poster's writes, their landing in the pender's     *)
(* posted receives, and the pender handling completions.                  *)
DataStep ==
  /\ Prepared
  /\ \/ Recv!Write \/ Recv!WriteData \/ Recv!Drain
     \/ Recv!Land \/ Recv!PostCompRecv
  /\ UNCHANGED hsVars

\* both ends have returned from their prepare for good
Finished ==
  /\ pPc \in {"done", "failed"} /\ nPc \in {"done", "failed"}
  /\ UNCHANGED vars

Next ==
  \/ \E ok \in Outcomes : PosterStep(ok) \/ PenderStep(ok)
  \/ PosterRestart \/ PenderRestart
  \/ DataStep
  \/ Finished

(* Each end runs its prepare on its own thread until it returns; a call   *)
(* that can succeed eventually does.  Failures, restarts and timeouts are *)
(* not forced.                                                            *)
Spec == /\ Init /\ [][Next]_vars
        /\ WF_vars(PosterStep(TRUE)) /\ WF_vars(PenderStep(TRUE))
        /\ WF_vars(Prepared /\ Recv!Land /\ UNCHANGED hsVars)
        /\ WF_vars(Prepared /\ Recv!PostCompRecv /\ UNCHANGED hsVars)
        /\ WF_vars(Prepared /\ Recv!WriteData /\ UNCHANGED hsVars)
        /\ WF_vars(Prepared /\ Recv!Drain /\ UNCHANGED hsVars)

-----------------------------------------------------------------------------
(* Refinement: the abstract ends are ready when their prepare has         *)
(* returned 0, failed when it returned an error, and busy in between; an  *)
(* end's peer id and descriptor are visible once it is ready.              *)
AbsSt(pc) == CASE pc = "done"   -> "ready"
               [] pc = "failed" -> "failed"
               [] OTHER         -> "busy"

Abs == INSTANCE LinkHandshake WITH
         Descs <- Descs, Sizes <- PosterSizes,
         st    <- [e \in {"poster", "pender"} |->
                     IF e = "poster" THEN AbsSt(pPc) ELSE AbsSt(nPc)],
         peer  <- [e \in {"poster", "pender"} |->
                     IF e = "poster" THEN (IF pPc = "done" THEN pId ELSE Nil)
                                     ELSE (IF nPc = "done" THEN nId ELSE Nil)],
         ra    <- [e \in {"poster", "pender"} |->
                     IF e = "poster" THEN (IF pPc = "done" THEN pRa ELSE Nil)
                                     ELSE (IF nPc = "done" THEN nRa ELSE Nil)]

-----------------------------------------------------------------------------
(* Properties                                                              *)
(* The bootstrap implements the exchange of spec.md 4.A: whenever the    *)
(* poster's preparePoster returns 0, the pender's prepare has returned 0,  *)
(* each holds the other's id, and the poster's _ra is the descriptor the  *)
(* pender registered, covering the size the poster announced, across     *)
(* every interleaving, failure and repeated prepare.                      *)
ImplementsLinkHandshake == Abs!Spec

(* However often either prepare is retried over the connection, a poster *)
(* whose prepare returns 0 holds the pender's id: the pender's last       *)
(* message of an attempt that does not fail is its descriptor, so no      *)
(* stale descriptor is ever read in the place of the id.                  *)
PosterLearnsPenderId == pPc = "done" => pId = PenderId

(* In the data phase after any handshake history, the pender's _rOuts is  *)
(* the receives it has posted plus the completions it has not handled     *)
(* (EbLfRecv).                                                             *)
ROutsAccounts == Recv!ROutsAccounts

(* ... and a prepared link always has a receive posted or a completion     *)
(* whose postCompRecv can post more, so the poster's writes can land.      *)
ReplenishReachable == Recv!ReplenishReachable

(* The poster's post() calls in the data phase: a non-negative rc means   *)
(* the write was submitted, and every call returns (EbLfRecv).            *)
PostRcMeansSubmitted == Recv!PostRcMeansSubmitted
PostReturns == Recv!PostReturns

\* the pender's overload accepts the announced size
SizeAccepted == sized \/ size = RaSize

(* A handshake in which no call fails, over an announced size the pender   *)
(* accepts, ends with both prepares returning 0: neither end waits for a   *)
(* message that never comes.                                               *)
HandshakeCompletes ==
  ([](failures = 0) /\ SizeAccepted) => <>(pPc = "done" /\ nPc = "done")
====
