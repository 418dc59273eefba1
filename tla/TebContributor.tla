---------------------------- MODULE TebContributor ----------------------------
(***************************************************************************)
(* The contributor side of the pipeline, src/psdaq/psdaq/eb/TebContributor.cc: *)
(* allocate() and process() run on the DRP's worker thread and batch the   *)
(* datagrams, _post() sends a batch to the TEB chosen by its pulse id and  *)
(* queues it on _pending, _post(dgram) forwards transitions to the other   *)
(* TEBs using transition-buffer credits (_getTrBufIdx).                    *)
(*                                                                         *)
(* The BatchManager (fetchW, release) and the result receiver              *)
(* (EbCtrbInBase) are not part of the sources and are modelled from        *)
(* spec.md 4.B and 2; a TEB is modelled only by what it does with what it  *)
(* receives: a Buffer|Response batch yields one result, a transition      *)
(* buffer is held and its index later returned (EbAppBase::post).         *)
(*                                                                         *)
(* A datagram is identified by its pulse id; its service and readout       *)
(* groups are drawn from Kinds.  Memory addresses are abstracted: a batch  *)
(* [start, end] carries the datagrams allocated from start to end.         *)
(***************************************************************************)
EXTENDS Integers, Sequences, FiniteSets, SequencesExt

CONSTANTS
  Tebs,          \* TEB ids 0..NumEbs-1 (links sorted by id)
  Groups,        \* readout groups
  CommonGroup,   \* _prms.partition: the common readout group
  Contractor,    \* _prms.contractor: groups this DRP contributes to TEBs for
  Kinds,         \* set of [svc, rog]: the datagrams the DRP may produce
  Batching,      \* _prms.batching
  MaxEntries,    \* MAX_ENTRIES: pulse ids per batch window
  MaxBatches,    \* MAX_BATCHES: batch slots in the batch region
  MaxLatency,    \* capacity of the _pending queue (MAX_LATENCY)
  TrBuffers,     \* TEB_TR_BUFFERS: transition buffers per TEB
  MaxPid,        \* pulse ids are 1..MaxPid
  MaxGap,        \* the next pulse id is previous + 0..MaxGap
  MaxFailures,   \* bound on link->post() calls that fail
  MaxConfigs,    \* bound on unconfigure()/configure() cycles
  Nil

NumEbs == Cardinality(Tebs)
Pids   == 1..MaxPid
TrIdx  == 0..TrBuffers-1
None   == "none"
Services == {"L1Accept", "SlowUpdate", "Disable"}

ASSUME /\ Tebs = 0..NumEbs-1 /\ NumEbs > 0
       /\ CommonGroup \in Groups /\ Contractor \subseteq Groups
       /\ Kinds \subseteq [svc : Services, rog : SUBSET Groups]
       /\ Batching \in BOOLEAN
       /\ MaxEntries \in Nat \ {0} /\ MaxBatches \in Nat \ {0}
       /\ MaxLatency \in Nat \ {0} /\ TrBuffers \in Nat \ {0}
       /\ MaxFailures \in Nat /\ MaxConfigs \in Nat

VARIABLES
  previousPid, \* _previousPid
  phase,       \* worker thread: "idle", "fetch" (in fetchW), "filled"
               \* (allocated, process() next), "forward" (in _post(dgram))
  cur,         \* pulse id of the datagram being handled
  dg,          \* [Pids -> Kinds \cup {Nil}]: datagrams allocated so far
  batchStart,  \* _batchStart (a pulse id or Nil)
  batchEnd,    \* _batchEnd
  contractor,  \* _contractor
  pending,     \* _pending: Seq of [start, pids, resp]
  inUse,       \* BatchManager: pulse ids whose batch slot is not released
  fwdTodo,     \* TEBs _post(dgram) still has to forward cur to
  trBuffers,   \* _trBuffers: [Tebs -> Seq(TrIdx)] free transition buffers
  credits,     \* [Tebs -> Seq(TrIdx)]: freed indices in flight from a TEB
  held,        \* [Tebs -> SUBSET TrIdx]: transition buffers a TEB is using
  toTeb,       \* [Tebs -> Seq(message)]: RDMA writes not yet seen by the TEB
  results,     \* [Tebs -> Seq(Pids)]: results in flight, by batch start
  sent,        \* history: Seq of [teb, pids] of everything written to TEBs
  fatal,       \* None, or why the process abort()ed
  failures,    \* link->post() calls that have failed so far
  configs      \* unconfigure()/configure() cycles so far

vars == <<previousPid, phase, cur, dg, batchStart, batchEnd, contractor,
          pending, inUse, fwdTodo, trBuffers, credits, held, toTeb, results,
          sent, fatal, failures, configs>>

-----------------------------------------------------------------------------
(* Pulse id arithmetic (Batch / BatchManager)                              *)

\* Batch::index(pid): the entry index of a pulse in the batch region
Index(p)  == p % (MaxBatches * MaxEntries)
\* the batch window of a pulse, and the batch slot it occupies
Window(p) == p \div MaxEntries
Slot(p)   == Window(p) % MaxBatches

\* mutant: the window check is dropped
ExpiredNever(p, start) == FALSE

\* BatchManager::expired(cur, start)
Expired(p, start) == Window(p) # Window(start)

\* destination TEB of a batch starting at p: (idx / MAX_ENTRIES) % _numEbs
Dst(p) == (Index(p) \div MaxEntries) % NumEbs

\* mutant: the batch extent reaches one entry past end
ContentPastEnd(start, end) == {q \in Pids : start <= q /\ q <= end + 1 /\ dg[q] # Nil}

\* the datagrams a batch [start, end] carries
Content(start, end) == {q \in Pids : start <= q /\ q <= end /\ dg[q] # Nil}

IsEvent(d) == d.svc = "L1Accept"

-----------------------------------------------------------------------------
(* allocate(hdr, appPrm), first half: the pulse id must advance, then      *)
(* fetchW(pid) is called and may block.                                    *)
\* mutant: a repeated pulse id is accepted
AdvancesOrRepeats(p) == p >= previousPid

Advances(p) == p > previousPid

Allocate(p) ==
  /\ fatal = None
  /\ phase = "idle"
  /\ \/ /\ Advances(p)
        /\ previousPid' = p
        /\ cur' = p
        /\ phase' = "fetch"
        /\ UNCHANGED fatal
     \/ /\ ~Advances(p)
        /\ fatal' = "NonMonotonicPulseId"
        /\ UNCHANGED <<previousPid, cur, phase>>
  /\ UNCHANGED <<dg, batchStart, batchEnd, contractor, pending, inUse,
                 fwdTodo, trBuffers, credits, held, toTeb, results, sent,
                 failures, configs>>

\* BatchManager::fetchW(pid): blocks while the slot holds another window
SlotFree(p) == \A q \in inUse : Slot(q) = Slot(p) => Window(q) = Window(p)

\* fetchW returns; the DRP fills the datagram (store(), batch->allocate())
Fetch(k) ==
  /\ phase = "fetch"
  /\ SlotFree(cur)
  /\ inUse' = inUse \cup {cur}
  /\ dg' = [dg EXCEPT ![cur] = k]
  /\ phase' = "filled"
  /\ UNCHANGED <<previousPid, cur, batchStart, batchEnd, contractor, pending,
                 fwdTodo, trBuffers, credits, held, toTeb, results, sent,
                 fatal, failures, configs>>
-----------------------------------------------------------------------------
(* process(dgram), TebContributor.cc lines 224-294.  Proc is what the      *)
(* body computes for the datagram cur: the batches [s, e] it _post()s in   *)
(* order, whether it bypasses the TEBs (common group not triggered), and  *)
(* the new _batchStart, _batchEnd and _contractor.                         *)
EndOr(s, e) == IF e = Nil THEN s ELSE e

Proc ==
  LET d      == dg[cur]
      own    == d.rog \cap Contractor
      start0 == IF batchStart = Nil THEN cur ELSE batchStart
      con0   == IF batchStart = Nil THEN own ELSE contractor
      exp    == Expired(cur, start0)
      flush  == d.svc \notin {"L1Accept", "SlowUpdate"} \/ ~Batching
      start1 == IF exp THEN cur ELSE start0
      con2   == (IF exp THEN own ELSE con0) \cup own
      postA  == IF exp /\ con0 # {}
                  THEN <<[s |-> start0, e |-> EndOr(start0, batchEnd)]>>
                  ELSE <<>>
      postB  == IF flush /\ con2 # {} THEN <<[s |-> start1, e |-> cur]>>
                                      ELSE <<>>
  IN IF CommonGroup \in d.rog
     THEN [posts |-> postA \o postB, bypass |-> FALSE, con |-> con2,
           start |-> IF flush THEN Nil ELSE start1,
           end   |-> IF flush THEN Nil ELSE cur]
     ELSE [posts  |-> IF batchStart # Nil /\ contractor # {}
                        THEN <<[s |-> batchStart,
                                e |-> EndOr(batchStart, batchEnd)]>>
                        ELSE <<>>,
           bypass |-> TRUE, con |-> contractor, start |-> Nil, end |-> Nil]

\* mutant: the batch is queued without the Response flag
BatchEntryNoResponse(b) == [start |-> b.s, pids |-> Content(b.s, b.e), resp |-> FALSE]

\* _post(start, end): the _pending entry, pushed before the write is issued
BatchEntry(b) == [start |-> b.s, pids |-> Content(b.s, b.e), resp |-> TRUE]

\* mutant: a bypassing datagram is queued as if a result were due
BypassEntryAwaitsResult(p) == [start |-> p, pids |-> {p}, resp |-> TRUE]

\* a bypassing datagram on _pending: no result will come for it
BypassEntry(p) == [start |-> p, pids |-> {p}, resp |-> FALSE]

\* entries process() pushes on _pending: its batches, then a bypassing dgram
Pushes ==
  [i \in 1..Len(Proc.posts) |-> BatchEntry(Proc.posts[i])]
  \o (IF Proc.bypass THEN <<BypassEntry(cur)>>
                     ELSE <<>>)

\* the Buffer|Response writes of those batches, to TEB Dst(start)
Writes ==
  [i \in 1..Len(Proc.posts) |->
     [teb |-> Dst(Proc.posts[i].s), kind |-> "Buffer",
      start |-> Proc.posts[i].s, pids |-> Content(Proc.posts[i].s, Proc.posts[i].e)]]

(* link->post() fails (EbLfLink::post: write_data fails, or the TX CQ    *)
(* errors while it waits out EAGAIN); a failure is only logged.  The      *)
(* outcomes a call may have while the failure bound is not reached.      *)
PostOutcomes == IF failures < MaxFailures THEN BOOLEAN ELSE {TRUE}

\* _pending overflows: the size check after a push finds it full
Overflows == Len(pending) + Len(Pushes) >= MaxLatency

\* mutant: the src != dst test is dropped
OthersAll(p) == Tebs

\* the TEBs _post(dgram) forwards to: all but the one the batch went to
Others(p) == Tebs \ {Dst(p)}

\* transitions are forwarded to the other TEBs when _contractor is set
Forwards == ~IsEvent(dg[cur]) /\ Proc.con # {} /\ NumEbs >= 2

(* A batch whose link->post() fails stays on _pending: _post returns      *)
(* after the push (line 324) and nothing is written.  lost is the set of  *)
(* batch starts whose write failed.                                       *)
Process ==
  /\ phase = "filled"
  /\ ~Overflows
  /\ \E lost \in SUBSET {Writes[i].start : i \in DOMAIN Writes} :
       LET W == SelectSeq(Writes, LAMBDA w : w.start \notin lost)
       IN /\ failures + Cardinality(lost) <= MaxFailures
          /\ failures' = failures + Cardinality(lost)
          /\ toTeb' = [t \in Tebs |-> toTeb[t] \o SelectSeq(W, LAMBDA w : w.teb = t)]
          /\ sent'  = sent \o [i \in DOMAIN W |-> [teb |-> W[i].teb, pids |-> W[i].pids]]
  /\ pending'    = pending \o Pushes
  /\ batchStart' = Proc.start
  /\ batchEnd'   = Proc.end
  /\ contractor' = Proc.con
  /\ IF Forwards THEN /\ phase' = "forward"
                      /\ fwdTodo' = Others(cur)
                 ELSE /\ phase' = "idle"
                      /\ UNCHANGED fwdTodo
  /\ UNCHANGED <<previousPid, cur, dg, inUse, trBuffers, credits, held,
                 results, fatal, configs>>

PendingOverflow ==
  /\ phase = "filled"
  /\ Overflows
  /\ fatal' = "PendingOverflow"
  /\ UNCHANGED <<previousPid, phase, cur, dg, batchStart, batchEnd, contractor,
                 pending, inUse, fwdTodo, trBuffers, credits, held, toTeb,
                 results, sent, failures, configs>>

-----------------------------------------------------------------------------
(* _post(dgram), lines 359-438: forward cur to each other TEB, in link     *)
(* order, as a Transition|NoResponse write into a transition buffer whose  *)
(* index _getTrBufIdx takes from the free list after draining the freed    *)
(* indices the TEB has returned (poll loop, lines 333-339).               *)

\* mutant: the free list of the batch's TEB (dst) is used instead of src's
PolledOfDst(t) == trBuffers[Dst(cur)] \o credits[Dst(cur)]

\* the free list after the poll loop
Polled(t) == trBuffers[t] \o credits[t]

(* A failed post is logged and the loop goes on to the next TEB ("Continue *)
(* on error", line 430): the index taken from the list is not returned.  *)
Forward(ok) ==
  LET t == Min(fwdTodo)
      m == [teb |-> t, kind |-> "Transition", start |-> cur, pids |-> {cur},
            idx |-> Head(Polled(t))]
  IN /\ phase = "forward"
     /\ Polled(t) # <<>>
     /\ trBuffers' = [trBuffers EXCEPT ![t] = Tail(Polled(t))]
     /\ credits'   = [credits EXCEPT ![t] = <<>>]
     /\ toTeb'     = IF ok THEN [toTeb EXCEPT ![t] = Append(@, m)] ELSE toTeb
     /\ sent'      = IF ok THEN Append(sent, [teb |-> t, pids |-> {cur}]) ELSE sent
     /\ failures'  = IF ok THEN failures ELSE failures + 1
     /\ fwdTodo'   = fwdTodo \ {t}
     /\ phase'     = IF fwdTodo = {t} THEN "idle" ELSE "forward"
     /\ UNCHANGED <<previousPid, cur, dg, batchStart, batchEnd, contractor,
                    pending, inUse, held, results, fatal, configs>>

\* no index arrives within the 5 s poll: abort() (lines 386-394)
NoTransitionBuffer ==
  /\ phase = "forward"
  /\ Polled(Min(fwdTodo)) = <<>>
  /\ fatal' = "NoTransitionBuffer"
  /\ UNCHANGED <<previousPid, phase, cur, dg, batchStart, batchEnd, contractor,
                 pending, inUse, fwdTodo, trBuffers, credits, held, toTeb,
                 results, sent, failures, configs>>
-----------------------------------------------------------------------------
(* A TEB, by what it does with the writes it sees: a Buffer|Response batch *)
(* yields one result on the result link; a transition buffer is held by   *)
(* the builder and its index is later written back (EbAppBase::post,     *)
(* EbAppBase.cc lines 351-373).                                            *)
TebReceive(t) ==
  /\ toTeb[t] # <<>>
  /\ LET m == Head(toTeb[t]) IN
       IF m.kind = "Buffer"
         THEN /\ results' = [results EXCEPT ![t] = Append(@, m.start)]
              /\ UNCHANGED held
         ELSE /\ held' = [held EXCEPT ![t] = @ \cup {m.idx}]
              /\ UNCHANGED results
  /\ toTeb' = [toTeb EXCEPT ![t] = Tail(@)]
  /\ UNCHANGED <<previousPid, phase, cur, dg, batchStart, batchEnd, contractor,
                 pending, inUse, fwdTodo, trBuffers, credits, sent, fatal, failures, configs>>

(* EbAppBase::post: the transition buffer idx is freed by writing it back *)
(* with lnk->post(nullptr, 0, imm); a failure is only logged (line 366).  *)
TebFreeTr(t, i, ok) ==
  /\ i \in held[t]
  /\ held'     = [held EXCEPT ![t] = @ \ {i}]
  /\ credits'  = IF ok THEN [credits EXCEPT ![t] = Append(@, i)] ELSE credits
  /\ failures' = IF ok THEN failures ELSE failures + 1
  /\ UNCHANGED <<previousPid, phase, cur, dg, batchStart, batchEnd, contractor,
                 pending, inUse, fwdTodo, trBuffers, toTeb, results, sent, fatal,
                 configs>>

-----------------------------------------------------------------------------
(* The result receiver (EbCtrbInBase, spec.md 2 and 4.B): it retires the  *)
(* _pending entries in order; a bypassing datagram at once, a batch when   *)
(* its result has come from its TEB, and releases the batch slot pulses.   *)
Retire ==
  /\ fatal = None
  /\ pending # <<>>
  /\ LET e == Head(pending) IN
       IF e.resp
         THEN /\ results[Dst(e.start)] # <<>>
              /\ Head(results[Dst(e.start)]) = e.start
              /\ results' = [results EXCEPT ![Dst(e.start)] = Tail(@)]
              /\ inUse' = inUse \ e.pids
         ELSE /\ inUse' = inUse \ e.pids
              /\ UNCHANGED results
  /\ pending' = Tail(pending)
  /\ UNCHANGED <<previousPid, phase, cur, dg, batchStart, batchEnd, contractor,
                 fwdTodo, trBuffers, credits, held, toTeb, sent, fatal, failures, configs>>

\* EbAppBase::unconfigure(): EventBuilder::clear() drops the builders' events,
\* and with them the transition buffers they hold, without writing any back
EbClear == [t \in Tebs |-> {}]

(* unconfigure() then configure() and startup() on the contributor, with *)
(* EbAppBase::unconfigure() (EventBuilder::clear) on the TEBs, at the end *)
(* of a run: the Unconfigure transition has flushed the open batch and   *)
(* every result has come back (_pending is empty).  The batch manager and *)
(* _pending are reset, and each free list is refilled with                *)
(* 0..TEB_TR_BUFFERS-1 (lines 177-186).  The links are kept (only         *)
(* disconnect() drops them): indices written back and transitions written *)
(* in the last run stay in flight.                                        *)
Reconfigure ==
  /\ fatal = None
  /\ phase = "idle"
  /\ pending = <<>> /\ batchStart = Nil
  /\ configs < MaxConfigs
  /\ configs'    = configs + 1
  /\ inUse'      = {}
  /\ trBuffers'  = [t \in Tebs |-> [i \in 1..TrBuffers |-> i - 1]]
  /\ held'       = EbClear
  /\ UNCHANGED <<previousPid, phase, cur, dg, batchStart, batchEnd, contractor,
                 pending, fwdTodo, credits, toTeb, results, sent, fatal, failures>>

\* the DRP has no more pulses, or the process has aborted
Done ==
  /\ \/ fatal # None
     \/ phase = "idle" /\ previousPid = MaxPid
  /\ UNCHANGED vars

-----------------------------------------------------------------------------
(* configure(): _previousPid = 0, batch reset, free list 0..TEB_TR_BUFFERS-1 *)
Init ==
  /\ previousPid = 0
  /\ phase = "idle"
  /\ cur = Nil
  /\ dg = [p \in Pids |-> Nil]
  /\ batchStart = Nil /\ batchEnd = Nil /\ contractor = {}
  /\ pending = <<>>
  /\ inUse = {}
  /\ fwdTodo = {}
  /\ trBuffers = [t \in Tebs |-> [i \in 1..TrBuffers |-> i - 1]]
  /\ credits = [t \in Tebs |-> <<>>]
  /\ held = [t \in Tebs |-> {}]
  /\ toTeb = [t \in Tebs |-> <<>>]
  /\ results = [t \in Tebs |-> <<>>]
  /\ sent = <<>>
  /\ fatal = None
  /\ failures = 0
  /\ configs = 0

Next ==
  \/ \E p \in ((previousPid + 1)..(previousPid + MaxGap) \cap Pids) \cup {previousPid} :
        Allocate(p)
  \/ \E k \in Kinds : Fetch(k)
  \/ Process
  \/ PendingOverflow
  \/ \E ok \in PostOutcomes : Forward(ok)
  \/ NoTransitionBuffer
  \/ \E t \in Tebs : TebReceive(t)
  \/ \E t \in Tebs, i \in TrIdx, ok \in PostOutcomes : TebFreeTr(t, i, ok)
  \/ Retire
  \/ Reconfigure
  \/ Done

(* The worker thread, the TEBs and the receiver thread all keep running;  *)
(* the DRP is not obliged to produce another pulse.                        *)
Fairness ==
  /\ WF_vars(\E k \in Kinds : Fetch(k))
  /\ WF_vars(Process) /\ WF_vars(\E ok \in PostOutcomes : Forward(ok))
  /\ \A t \in Tebs : /\ WF_vars(TebReceive(t))
                     /\ WF_vars(\E i \in TrIdx, ok \in PostOutcomes : TebFreeTr(t, i, ok))
  /\ WF_vars(Retire)

Spec == Init /\ [][Next]_vars /\ Fairness
-----------------------------------------------------------------------------
(* Properties                                                              *)

Msgs == [teb : Tebs, kind : {"Buffer"}, start : Pids, pids : SUBSET Pids]
        \cup [teb : Tebs, kind : {"Transition"}, start : Pids,
              pids : SUBSET Pids, idx : TrIdx]

TypeOK ==
  /\ previousPid \in 0..MaxPid
  /\ phase \in {"idle", "fetch", "filled", "forward"}
  /\ cur \in Pids \cup {Nil}
  /\ dg \in [Pids -> Kinds \cup {Nil}]
  /\ batchStart \in Pids \cup {Nil} /\ batchEnd \in Pids \cup {Nil}
  /\ contractor \subseteq Contractor
  /\ pending \in Seq([start : Pids, pids : SUBSET Pids, resp : BOOLEAN])
  /\ inUse \subseteq Pids
  /\ fwdTodo \subseteq Tebs
  /\ trBuffers \in [Tebs -> Seq(TrIdx)] /\ credits \in [Tebs -> Seq(TrIdx)]
  /\ held \in [Tebs -> SUBSET TrIdx]
  /\ toTeb \in [Tebs -> Seq(Msgs)]
  /\ results \in [Tebs -> Seq(Pids)]
  /\ sent \in Seq([teb : Tebs, pids : SUBSET Pids])
  /\ fatal \in {None, "NonMonotonicPulseId", "PendingOverflow",
                "NoTransitionBuffer"}
  /\ failures \in 0..MaxFailures /\ configs \in 0..MaxConfigs

\* how many writes to TEB t carried datagram q
Copies(t, q) == Cardinality({i \in DOMAIN sent : sent[i].teb = t /\ q \in sent[i].pids})

\* q has left the contributor: it is in no open batch and not being handled
Settled(q) ==
  /\ dg[q] # Nil
  /\ ~(phase \in {"filled", "forward"} /\ cur = q)
  /\ ~(batchStart # Nil /\ batchStart <= q)

(* Every batch written to a TEB lies in one batch window: process() posts  *)
(* the open batch before a datagram of a new window joins it (expired()),  *)
(* so a TEB never builds across the index wrap of the batch region.       *)
BatchInOneWindow ==
  \A i \in DOMAIN sent :
    \A q \in sent[i].pids : Window(q) = Window(Min(sent[i].pids))

(* A transition of the common readout group reaches either every TEB      *)
(* exactly once (the batch to Dst, _post(dgram) to the others) or none,  *)
(* once it has left process(): the TEBs see the same transitions.         *)
TransitionsReachAllTebs ==
  \A q \in Pids :
    /\ \A t \in Tebs : Copies(t, q) <= 1
    /\ (Settled(q) /\ ~IsEvent(dg[q]) /\ CommonGroup \in dg[q].rog)
         => \/ \A t \in Tebs : Copies(t, q) = 1
            \/ \A t \in Tebs : Copies(t, q) = 0

(* The transition buffers of a TEB are conserved: every index is, exactly *)
(* once, on the free list, returned in flight, in a write, or held by the *)
(* TEB, so _getTrBufIdx never hands out a buffer the TEB still uses.      *)
\* the indices of the transition writes in flight to TEB t, in order
TrWriteIdx(t) ==
  LET trs == SelectSeq(toTeb[t], LAMBDA m : m.kind = "Transition")
  IN [i \in DOMAIN trs |-> trs[i].idx]

TrIndices(t) ==
  trBuffers[t] \o credits[t] \o TrWriteIdx(t) \o SetToSeq(held[t])

TrBuffersConserved ==
  \A t \in Tebs : IsInjective(TrIndices(t)) /\ ToSet(TrIndices(t)) = TrIdx

(* A transition buffer is never written while the TEB still uses it: no  *)
(* two writes in flight to a TEB use one index, and none uses an index   *)
(* the TEB holds.  This is what conservation protects; it also has to    *)
(* hold across unconfigure()/configure(), which refills the free lists   *)
(* while indices of the previous run may still be in flight.             *)
TrBufferNeverOverwritten ==
  \A t \in Tebs : /\ IsInjective(TrWriteIdx(t))
                 /\ ToSet(TrWriteIdx(t)) \cap held[t] = {}

(* A result always answers the oldest batch on _pending that awaits one  *)
(* from that TEB: the results in flight from TEB t are, in order, the    *)
(* first of the Response batches for t on _pending.  The receiver can     *)
(* then match every result to the head of _pending.                       *)
ResultsAnswerOldestPending ==
  \A t \in Tebs :
    LET due == SelectSeq(pending, LAMBDA e : e.resp /\ Dst(e.start) = t)
    IN /\ Len(results[t]) <= Len(due)
       /\ \A i \in 1..Len(results[t]) : results[t][i] = due[i].start

(* Backpressure bounds _pending (spec.md 5): every entry holds pulses     *)
(* that the batch manager still counts as in use, and no pulse is held by *)
(* two entries, so _pending never has more entries than the batch region  *)
(* has pulses (MAX_BATCHES * MAX_ENTRIES) and a MAX_LATENCY above that     *)
(* cannot overflow.                                                        *)
PendingHoldsBatchSlots ==
  /\ \A i \in DOMAIN pending : pending[i].pids # {} /\ pending[i].pids \subseteq inUse
  /\ \A i, j \in DOMAIN pending : i # j => pending[i].pids \cap pending[j].pids = {}

(* A datagram that does not trigger the common readout group bypasses the *)
(* TEBs (spec.md 4.D step 3: not forwarded to any builder).              *)
BypassNeverSent ==
  \A q \in Pids :
    (dg[q] # Nil /\ CommonGroup \notin dg[q].rog) => \A t \in Tebs : Copies(t, q) = 0

(* Every entry process() pushes on _pending is eventually retired, its    *)
(* batch by the result of the TEB it was written to, unless the process  *)
(* aborts first.                                                          *)
PendingRetired ==
  \A p \in Pids :
    (\E i \in DOMAIN pending : pending[i].start = p) ~>
      (~(\E i \in DOMAIN pending : pending[i].start = p) \/ fatal # None)

(* A fetchW() call eventually returns: the DRP's worker never blocks for  *)
(* good waiting for a batch slot.  No run checks it: with pulse gaps of  *)
(* 3 (MC_TebContributor_live.cfg) it fails, because fetchW can wait on   *)
(* the slot of the open batch that only the blocked worker would post;   *)
(* add it to that cfg's PROPERTIES to see the trace.                      *)
FetchReturns == (phase = "fetch") ~> (phase # "fetch")
====
