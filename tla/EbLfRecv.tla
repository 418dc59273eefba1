------------------------------- MODULE EbLfRecv -------------------------------
(***************************************************************************)
(* Receive buffers of one link, EbLfLink::postCompRecv and _postCompRecv   *)
(* (src/psdaq/psdaq/eb/EbLfLink.cc lines 268-302).  Every RDMA write with  *)
(* immediate data the peer issues consumes one receive buffer posted on    *)
(* the endpoint; the transport retries a write that finds none (RNR), so  *)
(* it lands once one is posted.  The application handles each completion  *)
(* and calls postCompRecv, which decrements _rOuts and, when at most one  *)
(* is left, posts _rxDepth - _rOuts new buffers, stopping at the first     *)
(* recv_comp_data that fails (EAGAIN or an error).                        *)
(*                                                                         *)
(* The sender has at most Window writes that the application has not yet  *)
(* handled: the batch slots and transition buffers it waits for come back *)
(* only after the TEB has handled the write.                              *)
(*                                                                         *)
(* The sender's EbLfLink::post (lines 306-340) sets its bit in the shared *)
(* _pending mask and calls write_data until it returns something other    *)
(* than -FI_EAGAIN; write_data fails so while TxDepth writes are           *)
(* submitted and their completions not yet read from the TX completion    *)
(* queue.  Between attempts it reads up to 8 TX completions (cq->comp),   *)
(* leaving the loop on a CQ error.  It then clears its bit and returns rc.*)
(***************************************************************************)
EXTENDS Integers, Sequences

CONSTANTS
  RxDepth,      \* _rxDepth
  Window,       \* writes the sender may have outstanding
  MaxWrites,    \* writes the sender issues in all
  MaxShortPosts, \* bound on _postCompRecv calls cut short
  TxDepth,       \* writes the TX queue holds before write_data says EAGAIN
  MaxCqErrors    \* bound on cq->comp calls that fail

ASSUME RxDepth \in Nat \ {0} /\ Window \in Nat \ {0}

VARIABLES
  rOuts,     \* _rOuts: buffers posted and not yet handled, as the link counts
  posted,    \* buffers the endpoint holds for arriving writes
  inflight,  \* writes issued that have not landed
  backlog,   \* completions of landed writes the application has not handled
  sent,      \* writes issued so far
  landed,    \* writes landed so far
  shortPosts, \* _postCompRecv calls that fell short so far
  postPc,        \* where the sender's post() is: "idle", "write" or "drain"
  pendBit,   \* the sender's bit of _pending
  txCq,      \* completions of landed writes not yet read from the TX CQ
  rc,        \* rc of the post() in progress, or of the last one returned
  calls,     \* post() calls so far
  cqErrors,  \* cq->comp calls that failed so far
  returned   \* post() returns so far, each as [rc, submitted]

vars == <<rOuts, posted, inflight, backlog, sent, landed, shortPosts,
          postPc, pendBit, txCq, rc, calls, cqErrors, returned>>
postVars == <<postPc, pendBit, txCq, rc, calls, cqErrors, returned>>

FiEagain == -11   \* -FI_EAGAIN
CqError  == -5    \* a negative error of cq->comp
MaxComp  == 8     \* maxCnt of the drain

-----------------------------------------------------------------------------
(* The sender calls post() while it holds a credit: _pending |= 1 << _id. *)
Write ==
  /\ postPc = "idle" /\ calls < MaxWrites
  /\ inflight + backlog < Window
  /\ postPc' = "write" /\ pendBit' = TRUE /\ calls' = calls + 1
  /\ UNCHANGED <<rOuts, posted, inflight, backlog, sent, landed, shortPosts,
                 txCq, rc, cqErrors, returned>>

\* _pending &= ~(1 << _id); return rc
Return(r, submitted) ==
  /\ postPc' = "idle" /\ pendBit' = FALSE /\ rc' = r
  /\ returned' = Append(returned, [rc |-> r, sub |-> submitted])

(* write_data: submitted (rc 0, and post returns) while the TX queue has   *)
(* room, else -FI_EAGAIN and the loop drains the TX CQ.                     *)
WriteData ==
  /\ postPc = "write"
  /\ IF inflight + txCq < TxDepth
       THEN /\ inflight' = inflight + 1 /\ sent' = sent + 1
            /\ Return(0, TRUE)
       ELSE /\ postPc' = "drain" /\ rc' = FiEagain
            /\ UNCHANGED <<inflight, sent, pendBit, returned>>
  /\ UNCHANGED <<rOuts, posted, backlog, landed, shortPosts, txCq, calls,
                 cqErrors>>

\* mutant: the loop body runs once (if instead of while)
AfterDrainOnce(r) == "return"

\* while (write_data(...) == -FI_EAGAIN): leave only on a CQ error
AfterDrain(r) == IF r # FiEagain /\ r < 0 THEN "return" ELSE "write"

\* mutant: the drain never reads a completion
CompResultsNone ==
  {FiEagain} \cup (IF cqErrors < MaxCqErrors THEN {CqError} ELSE {})

(* rc = cq->comp(cqEntry, maxCnt): the number of completions read, or     *)
(* -FI_EAGAIN when there are none, or an error (bounded).                 *)
CompResults ==
  (IF txCq > 0 THEN {IF txCq < MaxComp THEN txCq ELSE MaxComp} ELSE {FiEagain})
  \cup (IF cqErrors < MaxCqErrors THEN {CqError} ELSE {})

Drain ==
  /\ postPc = "drain"
  /\ \E r \in CompResults :
       /\ txCq' = IF r > 0 THEN txCq - r ELSE txCq
       /\ cqErrors' = IF r = CqError THEN cqErrors + 1 ELSE cqErrors
       /\ IF AfterDrain(r) = "return"
            THEN Return(r, FALSE)
            ELSE /\ postPc' = "write" /\ rc' = r
                 /\ UNCHANGED <<pendBit, returned>>
  /\ UNCHANGED <<rOuts, posted, inflight, backlog, sent, landed, shortPosts,
                 calls>>

(* The write lands in a posted receive buffer: the receiver gets its      *)
(* completion and the sender's TX CQ a send completion.                   *)
Land ==
  /\ inflight > 0 /\ posted > 0
  /\ inflight' = inflight - 1 /\ posted' = posted - 1
  /\ backlog' = backlog + 1 /\ landed' = landed + 1
  /\ txCq' = txCq + 1
  /\ UNCHANGED <<rOuts, sent, shortPosts, postPc, pendBit, rc, calls, cqErrors,
                 returned>>

(* _postCompRecv(count): the number of buffers posted before the first     *)
(* failure; all count unless the failure bound allows one.                 *)
Posts(count) == IF shortPosts < MaxShortPosts THEN 0..count ELSE {count}

\* mutant: _rOuts counts every buffer asked for, not those posted
ROutsAfterAsked(r, count, k) == r + count

\* _rOuts += _postCompRecv(count, ctx)
ROutsAfter(r, count, k) == r + k

(* The application handles a completion and calls postCompRecv: --_rOuts, *)
(* and at most one left, top up to _rxDepth; a shortfall is only reported. *)
PostCompRecv ==
  /\ backlog > 0
  /\ backlog' = backlog - 1
  /\ LET r == rOuts - 1
         count == RxDepth - r
     IN IF r <= 1
          THEN \E k \in Posts(count) :
                 /\ rOuts' = ROutsAfter(r, count, k)
                 /\ posted' = posted + k
                 /\ shortPosts' = IF k < count THEN shortPosts + 1 ELSE shortPosts
          ELSE /\ rOuts' = r
               /\ UNCHANGED <<posted, shortPosts>>
  /\ UNCHANGED <<inflight, sent, landed, postVars>>

\* all post() calls have returned, and their writes landed and been handled
Drained ==
  /\ calls = MaxWrites /\ postPc = "idle" /\ inflight = 0 /\ backlog = 0
  /\ UNCHANGED vars

(* The link is prepared with _rxDepth buffers posted.                       *)
Init ==
  /\ rOuts = RxDepth /\ posted = RxDepth
  /\ inflight = 0 /\ backlog = 0
  /\ sent = 0 /\ landed = 0 /\ shortPosts = 0
  /\ postPc = "idle" /\ pendBit = FALSE /\ txCq = 0 /\ rc = 0
  /\ calls = 0 /\ cqErrors = 0 /\ returned = <<>>

Next == Write \/ WriteData \/ Drain \/ Land \/ PostCompRecv \/ Drained

(* The NIC delivers writes, the application keeps handling completions,  *)
(* and a thread inside post() keeps running its loop; the sender is not    *)
(* obliged to call post().                                                  *)
Spec == /\ Init /\ [][Next]_vars /\ WF_vars(Land) /\ WF_vars(PostCompRecv)
        /\ WF_vars(WriteData) /\ WF_vars(Drain)

-----------------------------------------------------------------------------
(* Properties                                                              *)

(* _rOuts is exactly the buffers posted plus the completions not yet       *)
(* handled, however the replenishes fell short: postCompRecv's test        *)
(* _rOuts <= 1 then means at most one buffer is left for arriving writes. *)
ROutsAccounts == rOuts = posted + backlog

(* The link always has either a receive buffer posted or a completion     *)
(* still to handle, whose postCompRecv can top the queue up: it is never   *)
(* left with writes able to arrive and nothing to land them in or to      *)
(* trigger a replenish.                                                    *)
ReplenishReachable == posted + backlog > 0

(* Callers read post()'s rc by its sign (TebContributor::_post returns on *)
(* rc < 0): every call that returns a non-negative rc submitted its write, *)
(* and every call that submitted returns 0, whichever TX completions the   *)
(* loop read in between and whatever the CQ returned.                      *)
PostRcMeansSubmitted ==
  \A i \in 1..Len(returned) : (returned[i].rc >= 0) = returned[i].sub

(* Every post() call returns: the loop on a full TX queue ends, because the *)
(* writes filling it land in receives the peer keeps replenishing and the  *)
(* drain reads their completions.                                          *)
PostReturns == (postPc # "idle") ~> (postPc = "idle")
====
