----------------------------- MODULE EventBuilder -----------------------------
(***************************************************************************)
(* The builder side of the event-building pipeline: the receive loop of    *)
(* EbAppBase (src/psdaq/psdaq/eb/EbAppBase.cc) feeding the reassembly      *)
(* engine declared in src/psdaq/psdaq/eb/EventBuilder.hh.                  *)
(*                                                                         *)
(* EventBuilder.cc is not part of the sources, so the engine's process(),  *)
(* _flush() and expired() are modelled from spec.md section 4.C; the       *)
(* callbacks contract() and fixup() and the pend/timeout loop are          *)
(* translated from EbAppBase.cc.                                           *)
(*                                                                         *)
(* Contributors are the environment: each walks the pulse ids in           *)
(* ascending order and, for a pulse whose contract names it, either        *)
(* deposits its fragment (an RDMA write plus immediate data, queued on     *)
(* the builder's completion queue) or loses it (dead or late contributor). *)
(* A pulse id is abstracted to a small natural; its epoch is the id with   *)
(* the low log2(Entries) bits dropped.                                     *)
(***************************************************************************)
EXTENDS Integers, Sequences, FiniteSets, SequencesExt

CONSTANTS
  Srcs,           \* contributor ids (DRPs)
  Groups,         \* readout groups
  ContractTable,  \* [Groups -> SUBSET Srcs]: _contract, set at configure
  RoG,            \* [Pids -> SUBSET Groups]: readout groups of each pulse
  MaxPid,         \* pulse ids are 0..MaxPid
  Entries,        \* events per epoch (maxEntries)
  Epochs,         \* epoch LUT size (maxEvBuffers + maxTrBuffers)
  EventPoolSize,  \* capacity of the event freelist
  EventTimeout,   \* ticks after which an incomplete event is fixed up
  FlushPerEpoch,  \* TRUE: _flush stops per epoch (spec 4.C step 4 wording)
  Nil             \* empty LUT slot

Pids == 0..MaxPid
None == "none"

ASSUME /\ ContractTable \in [Groups -> SUBSET Srcs]
       /\ RoG \in [Pids -> (SUBSET Groups) \ {{}}]
       /\ Entries \in Nat \ {0} /\ Epochs \in Nat \ {0}
       /\ EventPoolSize \in Nat \ {0} /\ EventTimeout \in Nat \ {0}
       /\ FlushPerEpoch \in BOOLEAN

VARIABLES
  nextPid,     \* [Srcs -> 0..MaxPid+1]: next pulse each contributor handles
  inbox,       \* [Srcs -> Seq(Pids)]: fragments notified but not yet pend()ed
  events,      \* pulse ids with an EbEvent in the engine
  contract,    \* [Pids -> SUBSET Srcs]: EbEvent contract
  remaining,   \* [Pids -> SUBSET Srcs]: EbEvent _remaining
  age,         \* [Pids -> 0..EventTimeout]: ticks since the event was created
  epochLut,    \* [0..Epochs-1 -> epoch key or Nil]: _epochLut
  lastRetired, \* highest pulse id retired so far (-1 initially)
  fatal,       \* None, or the reason the builder process aborted
  delivered,   \* history: events handed to process(EbEvent), in order
  arrived      \* history: [Pids -> SUBSET Srcs], fragments pend()ed so far

vars == <<nextPid, inbox, events, contract, remaining, age, epochLut,
          lastRetired, fatal, delivered, arrived>>

-----------------------------------------------------------------------------
(* Pure helpers                                                            *)

\* EbAppBase::contract: OR of the contract entries of the readout groups
Contract(groups) == UNION {ContractTable[g] : g \in groups}

\* epoch key and its LUT slot (_epIndex)
EpochKey(p) == p \div Entries
EpIndex(k)  == k % Epochs
Slots       == 0..Epochs-1

\* a contributor takes part in pulse p iff its bit is in p's contract
Participates(c, p) == c \in Contract(RoG[p])

\* the set of pulse ids retired so far
DeliveredPids == {delivered[i].pid : i \in DOMAIN delivered}

-----------------------------------------------------------------------------
(* _flush(): the events it retires, in the order it retires them.  An      *)
(* event is retired when it is complete and no incomplete event precedes   *)
(* it (in the whole pending list, or only within its epoch when            *)
(* FlushPerEpoch).                                                         *)
\* mutant: any complete event is retired, ignoring older incomplete ones
RetirableAnyComplete(evs, rem) == {p \in evs : rem[p] = {}}

Retirable(evs, rem) ==
  {p \in evs : \A q \in evs :
                 /\ q <= p
                 /\ FlushPerEpoch => EpochKey(q) = EpochKey(p)
                 => rem[q] = {}}

\* an epoch stays allocated while it, or an older epoch, has pending events
\* (only the empty epochs at the head of the pending list are discarded)
\* mutant: the head epoch is discarded while it still holds events
EpochLiveStrict(left, k) == \E q \in left : EpochKey(q) < k

EpochLive(left, k) == \E q \in left : EpochKey(q) <= k

(* Retire the flushable events of the state <<evs, con, rem, ag, lut>>     *)
(* reached by the current step: deliver them, release their pool slots,    *)
(* and discard the empty epochs at the head of the pending list, clearing  *)
(* their LUT slots.  missing[p] is what fixup() recorded for p and seen[p] *)
(* the contributions pend()ed for p up to this step.                       *)
Flush(evs, con, rem, ag, lut, missing, seen) ==
  LET R    == Retirable(evs, rem)
      left == evs \ R
      rec(p)  == [pid |-> p, missing |-> missing[p], seen |-> seen[p]]
      order   == SetToSortSeq(R, <)
  IN /\ events'      = left
     /\ contract'    = [p \in Pids |-> IF p \in left THEN con[p] ELSE {}]
     /\ remaining'   = [p \in Pids |-> IF p \in left THEN rem[p] ELSE {}]
     /\ age'         = [p \in Pids |-> IF p \in left THEN ag[p] ELSE 0]
     /\ epochLut'    = [s \in Slots |-> IF lut[s] # Nil /\ EpochLive(left, lut[s])
                                          THEN lut[s] ELSE Nil]
     /\ delivered'   = delivered \o [i \in 1..Len(order) |-> rec(order[i])]
     /\ lastRetired' = IF R = {} THEN lastRetired ELSE Max(R \cup {lastRetired})

NoMissing == [p \in Pids |-> {}]

-----------------------------------------------------------------------------
(* Environment: contributor c handles its next pulse.                      *)

\* the fragment is written into the builder's region and notified
Contribute(c) ==
  /\ fatal = None
  /\ nextPid[c] <= MaxPid
  /\ nextPid' = [nextPid EXCEPT ![c] = @ + 1]
  /\ inbox'   = IF Participates(c, nextPid[c])
                  THEN [inbox EXCEPT ![c] = Append(@, nextPid[c])]
                  ELSE inbox
  /\ UNCHANGED <<events, contract, remaining, age, epochLut, lastRetired,
                 fatal, delivered, arrived>>

\* the contributor never delivers its fragment for this pulse
LoseContribution(c) ==
  /\ fatal = None
  /\ nextPid[c] <= MaxPid
  /\ Participates(c, nextPid[c])
  /\ nextPid' = [nextPid EXCEPT ![c] = @ + 1]
  /\ UNCHANGED <<inbox, events, contract, remaining, age, epochLut,
                 lastRetired, fatal, delivered, arrived>>

-----------------------------------------------------------------------------
(* EbAppBase::process() when pend() returns a fragment of contributor c,   *)
(* followed by EventBuilder::process(): match the event, else drop a late  *)
(* fragment, else match or allocate its epoch and allocate the event;      *)
(* then _tryFlush().                                                       *)

\* the fragment's event is pending: clear c's bit in _remaining
MergeFragment(c, p, seen) ==
  /\ p \in events
  /\ Flush(events, contract, [remaining EXCEPT ![p] = @ \ {c}], age,
           epochLut, NoMissing, seen)

\* its event was already retired (flushed or fixed up): drop it
DropLate(p) ==
  /\ p \notin events
  /\ p <= lastRetired
  /\ UNCHANGED <<events, contract, remaining, age, epochLut, lastRetired,
                 delivered>>

\* _remaining of a new event: its contract less the creating contributor
\* mutant: the creator's own bit is left in _remaining
NewRemainingKeepsCreator(c, p) == Contract(RoG[p])

NewRemaining(c, p) == Contract(RoG[p]) \ {c}

\* the event freelist can supply another event
\* mutant: the capacity test is off by one
PoolHasRoomOffByOne(evs) == Cardinality(evs) <= EventPoolSize

PoolHasRoom(evs) == Cardinality(evs) < EventPoolSize

\* first fragment of a pulse: allocate the epoch if needed, then the event
CreateEvent(c, p, seen) ==
  LET k == EpochKey(p)
      s == EpIndex(k)
      con == Contract(RoG[p])
  IN /\ p \notin events
     /\ p > lastRetired
     /\ epochLut[s] \in {Nil, k}
     /\ PoolHasRoom(events)
     /\ Flush(events \cup {p}, [contract EXCEPT ![p] = con],
              [remaining EXCEPT ![p] = NewRemaining(c, p)], [age EXCEPT ![p] = 0],
              [epochLut EXCEPT ![s] = k], NoMissing, seen)

\* the epoch LUT slot holds a different epoch: key space wrapped (fatal)
EpochCollision(p) ==
  LET s == EpIndex(EpochKey(p))
  IN /\ p \notin events
     /\ p > lastRetired
     /\ epochLut[s] \notin {Nil, EpochKey(p)}
     /\ fatal' = "Collision"
     /\ UNCHANGED <<events, contract, remaining, age, epochLut, lastRetired,
                    delivered>>

\* the event freelist is empty (fatal)
PoolExhausted(p) ==
  /\ p \notin events
  /\ p > lastRetired
  /\ epochLut[EpIndex(EpochKey(p))] \in {Nil, EpochKey(p)}
  /\ ~PoolHasRoom(events)
  /\ fatal' = "PoolExhausted"
  /\ UNCHANGED <<events, contract, remaining, age, epochLut, lastRetired,
                 delivered>>

Receive(c) ==
  /\ fatal = None
  /\ inbox[c] # <<>>
  /\ LET p    == Head(inbox[c])
         seen == [arrived EXCEPT ![p] = @ \cup {c}]
     IN /\ inbox'   = [inbox EXCEPT ![c] = Tail(@)]
        /\ arrived' = seen
        /\ \/ MergeFragment(c, p, seen) /\ UNCHANGED fatal
           \/ DropLate(p) /\ UNCHANGED fatal
           \/ CreateEvent(c, p, seen) /\ UNCHANGED fatal
           \/ EpochCollision(p)
           \/ PoolExhausted(p)
  /\ UNCHANGED nextPid

-----------------------------------------------------------------------------
(* EbAppBase::process() when pend() times out (no immediate data for      *)
(* 100 ms): EventBuilder::expired().  The oldest epoch's first incomplete  *)
(* event that has timed out is fixed up together with every incomplete     *)
(* event before it: fixup() is called for each still-expected contributor *)
(* (EbAppBase::fixup marks DroppedContribution), the event is marked       *)
(* complete, and _flush() runs.                                            *)

\* incomplete events of the oldest epoch whose age reached the timeout
Due ==
  IF events = {} THEN {}
  ELSE LET head == Min({EpochKey(q) : q \in events})
       IN {p \in events : /\ EpochKey(p) = head
                          /\ remaining[p] # {}
                          /\ age[p] >= EventTimeout}

Idle == \A c \in Srcs : inbox[c] = <<>>

\* the events fixed up when e is due: e and every incomplete event before it
\* mutant: only the events strictly before e are fixed up
FixedUpBefore(e) == {p \in events : p < e /\ remaining[p] # {}}

FixedUp(e) == {p \in events : p <= e /\ remaining[p] # {}}

\* EbAppBase::fixup(event, srcId), called for each contributor still in
\* _remaining: the event gets DroppedContribution and srcId is recorded in
\* the fixup histogram; here the record is the set of missing srcIds
FixupMissing(fixed) ==
  [p \in Pids |-> IF p \in fixed THEN remaining[p] ELSE {}]

Expired ==
  /\ fatal = None
  /\ Idle
  /\ Due # {}
  /\ LET fixed == FixedUp(Min(Due))
         rem   == [p \in Pids |-> IF p \in fixed THEN {} ELSE remaining[p]]
     IN Flush(events, contract, rem, age, epochLut, FixupMissing(fixed),
              arrived)
  /\ UNCHANGED <<nextPid, inbox, fatal, arrived>>

\* time passes for every event in the engine (ages saturate at the timeout)
Tick ==
  /\ fatal = None
  /\ \E p \in events : age[p] < EventTimeout
  /\ age' = [p \in Pids |-> IF p \in events /\ age[p] < EventTimeout
                              THEN age[p] + 1 ELSE age[p]]
  /\ UNCHANGED <<nextPid, inbox, events, contract, remaining, epochLut,
                 lastRetired, fatal, delivered, arrived>>

-----------------------------------------------------------------------------
Init ==
  /\ nextPid     = [c \in Srcs |-> 0]
  /\ inbox       = [c \in Srcs |-> <<>>]
  /\ events      = {}
  /\ contract    = [p \in Pids |-> {}]
  /\ remaining   = [p \in Pids |-> {}]
  /\ age         = [p \in Pids |-> 0]
  /\ epochLut    = [s \in Slots |-> Nil]
  /\ lastRetired = -1
  /\ fatal       = None
  /\ delivered   = <<>>
  /\ arrived     = [p \in Pids |-> {}]

Next ==
  \/ \E c \in Srcs : Contribute(c)
  \/ \E c \in Srcs : LoseContribution(c)
  \/ \E c \in Srcs : Receive(c)
  \/ Expired
  \/ Tick

\* The pend loop runs continuously and the clock advances; contributors
\* are not required to produce anything.
Fairness ==
  /\ \A c \in Srcs : WF_vars(Receive(c))
  /\ WF_vars(Expired)
  /\ WF_vars(Tick)

Spec == Init /\ [][Next]_vars /\ Fairness

-----------------------------------------------------------------------------
(* Invariants and properties                                               *)

TypeOK ==
  /\ nextPid \in [Srcs -> 0..MaxPid+1]
  /\ inbox \in [Srcs -> Seq(Pids)]
  /\ events \subseteq Pids /\ Cardinality(events) <= EventPoolSize
  /\ contract \in [Pids -> SUBSET Srcs]
  /\ remaining \in [Pids -> SUBSET Srcs]
  /\ age \in [Pids -> 0..EventTimeout]
  /\ epochLut \in [Slots -> Nat \cup {Nil}]
  /\ lastRetired \in -1..MaxPid
  /\ fatal \in {None, "Collision", "PoolExhausted"}
  /\ arrived \in [Pids -> SUBSET Srcs]

(* Ordering (spec 8.1, 8.3): the events handed to process(EbEvent) have   *)
(* strictly ascending pulse ids, whatever the arrival order of fragments   *)
(* from different contributors, late fragments and fixups; in particular  *)
(* no pulse is delivered twice.                                            *)
InOrderDelivery ==
  \A i, j \in DOMAIN delivered : i < j => delivered[i].pid < delivered[j].pid

(* Completeness-or-damage (spec 8.2, 8.4): an event is delivered with      *)
(* exactly the contributors of its contract (OR of the contract table     *)
(* over its readout groups) whose fragment had not been pend()ed by then   *)
(* reported missing by fixup(); it is undamaged iff none is missing.       *)
DeliveryAccountsForContract ==
  \A i \in DOMAIN delivered :
    LET d == delivered[i]
    IN d.missing = Contract(RoG[d.pid]) \ d.seen

(* Every pending event can be found through its epoch's LUT slot, and      *)
(* every occupied slot names an epoch that still has pending events: a    *)
(* stale or cleared slot would make the next fragment of a pending pulse  *)
(* allocate a second event for it or reuse a released epoch.              *)
EpochLutConsistent ==
  /\ \A p \in events : epochLut[EpIndex(EpochKey(p))] = EpochKey(p)
  /\ \A s \in Slots : epochLut[s] # Nil =>
        /\ EpIndex(epochLut[s]) = s
        /\ \E p \in events : EpochKey(p) = epochLut[s]

(* Bounded latency (spec 8.2): every event created in the engine is        *)
(* eventually delivered, complete or fixed up, unless the builder aborts. *)
EveryEventDelivered ==
  \A p \in Pids : (p \in events) ~> (p \in DeliveredPids \/ fatal # None)
====
