# TLA+ models of the LCLS-II event-building pipeline

This directory models the trigger event-building (TEB) path of `src/psdaq/psdaq/eb`.
Each DRP (contributor) batches its datagrams and writes every batch over RDMA to
one TEB, picked from the pulse id. The TEBs reassemble events from all the
contributors' fragments and send back results.

## The system's parts and how they interact

| Part | Source | State | Operations |
|---|---|---|---|
| Contributor dispatcher | `TebContributor.cc` | `_previousPid`, `_batchStart/_batchEnd/_contractor`, `_pending` queue, `_trBuffers` free lists | `allocate` (monotonic pid check, `fetchW`), `process` (batch / expire / flush / bypass, forward transitions), `_post(start,end)`, `_post(dgram)`, `_getTrBufIdx`, `configure`, `unconfigure` |
| Batch manager | not in the sources; spec.md 4.B | batch slots, each pending until released | `fetchW` (blocks), `expired`, `release` |
| Result receiver | not in the sources; spec.md 2 | — | retires `_pending` in order and releases slots |
| Builder application | `EbAppBase.cc` | `_contract[group]`, `_links`, `_region`/`_regSize` | constructor and destructor, `connect`, `configure`/`_linksConfigure`, `unconfigure`, `disconnect`, `process` (pend 100 ms; on timeout `expired()`), `contract`, `fixup`, `post` (returns transition buffers), `trim` |
| Event-builder engine | `EventBuilder.hh` (the `.cc` is not in the sources; spec.md 4.C) | `_pending` epochs, `_epochLut`, event pool, `_remaining` per event | `process` (match, late drop, create epoch/event), `_flush`, `expired` (`_fixup`) |
| Link layer | `EbLfLink.cc` | endpoint, memory regions, receive credits | `preparePender/Poster`, `setupMr`, `sendMr/recvMr`, `postCompRecv`, `post` |
| Datagram header | `Dgram.hh` | `env` | `readoutGroups() = env & 0xffff` |

The parts interact like this:

1. A contributor's `_post(start,end)` pushes the batch on `_pending` and then writes it to TEB `(index/MAX_ENTRIES) % numEbs`.
2. A transition is also written, as a standalone `Transition|NoResponse` buffer, to every other TEB. Each such write uses a transition-buffer index from that TEB's credit list.
3. The TEB's `EbAppBase::process` hands every fragment it pends to the engine. When the TEB has finished with a transition buffer, `EbAppBase::post` writes its index back.
4. The engine delivers complete events, or events fixed up on timeout, in pulse order. The result for a batch goes back to the contributor, which retires the head of `_pending` and releases the slot.

## Modules

| Module | Models | State ↔ code |
|---|---|---|
| `EventBuilder` | EbAppBase receive loop and engine | `events`, `contract`, `remaining`, `epochLut` are the engine's members. `inbox[c]` is the completion queue seen by `pend()`. `Receive(c)` is one pended fragment through `EventBuilder::process` and `_tryFlush`. `Expired` is the pend timeout calling `expired()`, which calls `fixup()` per missing source and then `_flush`. `Contract` is `EbAppBase::contract` and `FixupMissing` is `EbAppBase::fixup`. The contributors are the environment (`Contribute`, `LoseContribution`). `delivered` and `arrived` are history. |
| `TebContributor` | contributor dispatcher with batch manager, receiver and TEBs as environment | `phase` is the worker thread's position: idle, inside `fetchW`, between `allocate` and `process`, or inside `_post(dgram)`. `Allocate`, `Fetch`, `Process` / `PendingOverflow`, and `Forward` / `NoTransitionBuffer` are the handlers. `Proc` is the body of `process()` as a record: posts, bypass, new start/end/contractor. `toTeb[t]` holds writes not yet seen. `TebReceive` turns a batch into a result and holds a transition buffer; `TebFreeTr` is `EbAppBase::post`; `Retire` is the receiver. `sent` is the history of writes. |
| `TebContributor` (faults, reconfigure) | failed link posts, `unconfigure`/`configure` | `PostOutcomes` lets up to `MaxFailures` `link->post` calls fail (EbLfLink::post). A failed batch write in `Process` leaves the entry on `_pending` and unsent (the `return` at line 324). A failed `Forward` consumes the transition-buffer index ("Continue on error", line 430). A failed `TebFreeTr` drops the index being returned (EbAppBase::post, line 366). `Reconfigure` is `unconfigure` plus `configure`: it clears the TEBs' events (`EventBuilder::clear`) and refills `_trBuffers`, while indices and transitions from the previous run are still in flight. |
| `LinkHandshake` | what the link bootstrap promises (spec.md 4.A) | This is the abstract spec. The poster and the pender are each busy, ready or failed. The pender becomes ready with a descriptor whose extent covers the announced size. The poster becomes ready only after the pender does, and it then gets that same descriptor and the pender's id. A failed end may start again. |
| `EbLfLink` | `preparePoster`, both `preparePender`s, `setupMr`, `sendU32`/`recvU32`, `sendMr`/`recvMr`, the sized pender's region in `EbAppBase::_linksConfigure` | `pPc`/`nPc` are each end's position in its call sequence. `toN`/`toP` are the two FIFO channels (spec.md 6). A receive reads whatever message comes next: `ReadU32` of a descriptor yields its rkey, and `ReadMr` of a word yields a descriptor with that rkey and an arbitrary extent. Every call may fail (`Go`). A failed end may call prepare again over the same connection (`PosterRestart`, `PenderRestart`). `Abs` maps the model onto `LinkHandshake`. Once both ends are `done`, `DataStep` runs `EbLfRecv`. |
| `EbLfRecv` | `postCompRecv`, `_postCompRecv`, and the poster's `post()` | `rOuts` is `_rOuts`. `posted` and `backlog` are the receives the endpoint holds and the completions not yet handled. `Land` is the NIC: a write lands in a posted receive and leaves a send completion in the poster's TX CQ (`txCq`). `Write` is the call of `post()` (`_pending |= 1 << _id`, `pendBit`); `WriteData` is `write_data`, which submits while fewer than `TxDepth` writes are in the TX queue and else returns `-FI_EAGAIN`; `Drain` is `cq->comp` reading up to 8 completions, leaving the loop on a CQ error (`AfterDrain`); `Return` clears the bit and records the rc in `returned`. `PostCompRecv` decrements `_rOuts` and, at `<= 1`, posts `_rxDepth - _rOuts` receives, stopping at the first failure (`Posts`). It is composed into `EbLfLink`. |
| `ContractBits` | `EbAppBase::connect`'s contract table, `trim`, `contract` | `contract` is `_contract`; `Trim(dst)` is `trim()` with the 64-bit value of the int `~(1 << dst)`; `ContractLoop` is the `ffs` loop of `contract()` as a RECURSIVE operator. Widths are scaled: 8-bit contracts and a 4-bit int stand for 64 and 32 bits. |
| `EbAppConnect` | `EbAppBase`'s constructor, `connect`, `configure`/`_linksConfigure`, `unconfigure`, `disconnect`, `trim` and destructor, with `ContractBits` composed in | `phase` is the builder's place in the connect/configure cycle. `links` is `_links` as remote ids in vector order; `Connect` picks any accept order and `Configure` sorts them (`links = tmpLinks`) only when every link was prepared. `region`/`regSize` are `_region`/`_regSize` indexed 0..n-1; `Resize` is `std::vector::resize`. `live` is the set of allocated regions, handles numbered by `allocs`. `linkMr[id]` is what `link->setupMr` registered. `Configure` prepares a prefix of the links, may stop at a failed `prepare` or at an `allocRegion` that runs out of memory after the old region was freed. `Disconnect` keeps `_region`, as the code does. `Destruct` is `~EbAppBase()`. |
| `MC_*` | constants for TLC | — |

Data is abstracted throughout:

- A datagram is its pulse id plus a `[svc, rog]` kind.
- A batch is the set of pulse ids allocated in `[start, end]`.
- Addresses, sizes, immediate-data encodings and logging are left out.

Fatal `abort()`s are modelled as `fatal`, after which the aborting process does nothing more.

## Runs

| Run | Checks | Result |
|---|---|---|
| `eb_engine` (`MC_EventBuilder.cfg`) | `TypeOK`, `InOrderDelivery`, `DeliveryAccountsForContract`, `EpochLutConsistent`, `EveryEventDelivered` | pass, 97k states |
| `tc_safety` (`MC_TebContributor.cfg`, one reconfigure) | `TypeOK`, `BatchInOneWindow`, `TransitionsReachAllTebs`, `ResultsAnswerOldestPending`, `PendingHoldsBatchSlots` | pass, 2.9M states |
| `tc_liveness` (`MC_TebContributor_live.cfg`, pulse gaps up to 3) | `TrBuffersConserved`, `PendingRetired` | pass, 91k states |
| `tc_faults` (`MC_TebContributor_faults.cfg`, one failed post) | `TrBufferNeverOverwritten` | pass, 2.0M states |
| `tc_bypass` | `BypassNeverSent` | violation: see findings |
| `tc_reconfig_overwrite` | `TrBufferNeverOverwritten` with one reconfigure | violation: see findings |
| `lf_handshake` (`MC_EbLfLink.cfg`, one failed call, no retry) | `ImplementsLinkHandshake` (refinement of `LinkHandshake`), `HandshakeCompletes` | pass |
| `lf_restart` (`MC_EbLfLink_restart.cfg`, two failures, two retries, one short top-up, TX queue of 2, one failed CQ read) | `PosterLearnsPenderId`, `ROutsAccounts`, `ReplenishReachable`, `PostRcMeansSubmitted`, `PostReturns` | pass |
| `lf_retry_confusion` (`MC_EbLfLink_retry.cfg`) | `ImplementsLinkHandshake` with one retry | violation: see findings |
| `ea_lifecycle` (`MC_EbAppConnect.cfg`) | `TypeOK`, `LinkMrValid`, and the composed `ContractIsUnion`, `TrimRemovesOnlyDst` for ids 0..2 | pass, 86k states |
| `ea_region_leak` (`MC_EbAppConnect_leak.cfg`) | `AllFreedAtDestruction` | violation: see findings |
| `cb_trim_width` | `TrimRemovesOnlyDst` for ids 3 and 5 (31 and 33 at full width) | violation: see findings |

### Findings

1. **Stale `_contractor` after a bypass.** `TebContributor::process()` (line 293) forwards a transition whenever `_contractor` is non-zero. The bypass branch (common readout group not triggered) posts the open batch but never clears `_contractor`. As a result, a Disable, for example, that does not trigger the common group is written to every TEB except `Dst(pid)`. spec.md 4.D says such a datagram goes to no builder. Even if it were meant to go somewhere, the TEBs would disagree about it.
2. **trim() computes its mask in a 32-bit int.** `_contract[group] &= ~(1 << dst)` (EbAppBase.cc:379) clears contributors 31-63 for `dst = 31`. For `dst >= 32` the shift is undefined. x86 masks the count, so contributor `dst-32` is removed instead; a 0 result removes every contributor from 32 up.

3. **Reconfigure overwrites transition buffers in use.** `configure()` refills `_trBuffers` with every index (lines 177-186). `unconfigure` clears the TEB's events but keeps the links, and the indices the TEBs still hold, or are returning, come back afterwards. As a result, the contributor writes a new transition into a buffer the TEB has not yet finished with, or the same index sits twice in the free list.
4. **A retried link prepare pairs with the peer's earlier attempt.** `recvU32` takes the first word of whatever message arrives, and the handshake has no framing. A poster that times out in `recvU32(ID)` and calls `preparePoster` again re-sends its id. The pender, still in its first attempt, reads that id as the region size, then registers and publishes a region smaller than the size the poster announced. spec.md 7 says a SizeMismatch is non-fatal when the caller retries, but a retry over the same connection is not safe.
5. **A reconnect with fewer contributors leaks input regions.** `disconnect()` keeps `_region` so that the next `connect()` need not allocate again. But `connect()` resizes `_region` to the new contributor count (line 152) without freeing the entries it drops. Connecting with two contributors, disconnecting and connecting with one leaves the second region allocated, and `~EbAppBase()`, which frees only what `_region` holds, never frees it.

Other disagreements can be reproduced by changing a bound. They are not standing runs, and `PROJECT.json` records them as hazard notes:

- Adding `FetchReturns` to `MC_TebContributor_live.cfg`, whose pulse gaps reach 3, makes it fail. `allocate()` blocks in `fetchW` before `process()` has posted the open batch. When the next pulse maps to that batch's slot in a later window (a gap of at least `(MAX_BATCHES-1)*MAX_ENTRIES+1`), nothing can release the slot, as long as a slot stays pending until its result is released (spec.md 4.B).
- Checking `ResultsAnswerOldestPending` under `MC_TebContributor_faults.cfg` (one failed post) makes it fail. After a failed post (`return` at line 324) the batch stays on `_pending` unanswered, although spec.md 7 says transport errors are retried.
- `MaxShortPosts = 2` in `MC_EbLfLink_restart.cfg` makes `ReplenishReachable` fail. After two short top-ups `_rOuts` reaches 0 with no receive posted, and nothing calls `postCompRecv` again.
- `MaxAllocFailures = 1` in `MC_EbAppConnect.cfg` makes `LinkMrValid` fail. An `allocRegion` in `_linksConfigure` that runs out of memory leaves `_region[id]` null after freeing the old region, but keeps the old `_regSize[id]` (line 247). A retried `configure()` whose need fits that size skips the allocation, calls `setupMr(nullptr, size)` and reaches configured.
- `FlushPerEpoch = TRUE` in `MC_EventBuilder.cfg` makes `InOrderDelivery` fail (it also breaks `EpochLutConsistent`, which TLC reports first when both are checked). This is the literal reading of spec.md 4.C step 4 ("stop at the first incomplete event in each epoch"), which lets a later epoch's complete event overtake an earlier incomplete one and so contradicts 8.1.

### Bounds

- **Engine.** There are 2 contributors, 2 readout groups whose contracts overlap, and pulses 0..4 over epochs of 2 entries. The LUT has 2 slots and the pool holds 2 events; the timeout is 2 ticks. These bounds make every engine branch fire: merge, late drop, create, LUT collision, pool exhaustion, fixup, and delivery both damaged and complete.
- **Contributor.** There are 2 TEBs, 2 batch slots of 2 entries, `_pending` capacity 3 and 1 transition buffer per TEB. Pulse ids are 1..5 (1..4 for liveness) with gaps up to 2 (up to 3 for liveness). The kinds are L1Accept and Disable in the common group or outside it, and SlowUpdate in both groups. With these, the following all happen:
  - batches that expire,
  - flushes,
  - two posts in one `process()`,
  - bypasses,
  - forwarding that waits for credits,
  - `_pending` overflow,
  - the credit timeout,
  - a non-monotonic pid abort.

  A gap of 3 is exactly the smallest that reaches an open batch's slot in a later window. `tc_liveness` admits it, so `PendingRetired` is checked over behaviours where the worker hangs in `fetchW`. `FetchReturns` is not claimed, because it fails there (see above).

- **Link.** One poster and one pender use both pender overloads. The announced sizes are the fixed size, which the pender accepts, and a larger one, which it rejects. There are two rkeys and extents 0..6. One failure is enough for every call to fail somewhere. Two failures and two retries let both ends retry, once each or one end twice. In the data phase, 3 or 4 writes go into 2 or 3 receives with a window equal to the depth. The queue then runs dry while completions wait, and the top-up happens at `_rOuts` 1 and, after a short one, at 0. In the restart run the poster's TX queue holds 2 writes, one fewer than the window, so `write_data` returns `-FI_EAGAIN` and `post()` drains completions, reads none, or (once) fails to read the TX CQ.
- **Builder lifecycle.** Contributor sets {0} and {0,1}, in every accept order, over three connect cycles, make `connect()` both grow and shrink the tables and keep regions from an earlier cycle. A guess of 3 and announced needs of 2 or 4 make `configure()` both keep and regrow a region. One failed `prepare` leaves the links unsorted before a later successful `configure()`. The contract tables are the 16 of the former `ContractBits` run. Contributor ids are dense (index = id), as `connect()` assumes.
- **Contributor faults.** One failed post and one reconfigure are each enough to reach every failure path once. Together they make the state space too large for a 5-minute run.

### Fairness

- **Engine.** The pend loop (`Receive`, `Expired`) runs continuously and the clock advances (`Tick`), so each gets weak fairness. The contributors get no fairness, because a DRP may stop or lose fragments.
- **Contributor.** The worker's `Fetch`, `Process` and `Forward`, the TEBs' `TebReceive` and `TebFreeTr`, and the receiver thread's `Retire` each get weak fairness. `Allocate` gets none, because the DRP is not obliged to produce pulses.
- **Link.** Each end runs its prepare on its own thread, so a call that can succeed eventually does: `WF(PosterStep(TRUE))` and `WF(PenderStep(TRUE))`. Failures, retries and timeouts are never forced. In the data phase, the NIC lands writes and the TEB keeps handling completions (weak fairness on `Land` and `PostCompRecv`). A thread inside `post()` keeps running its loop (weak fairness on `WriteData` and `Drain`). The poster is not obliged to call `post()`.
- **Deadlock.** The contributor's safety run checks deadlock. `Done` stutters once input ends or after an abort. The liveness cfgs do not: `tc_liveness` admits the `fetchW` hang (H3) as a final state and checks `PendingRetired` over it, and the link runs report a stall through the liveness property it violates. The builder-lifecycle cfgs do not check deadlock, because every behaviour ends at the destructor or at the bound on connect cycles. The engine cfg does not either: quiescent states and states after an abort have no step. The link and fault cfgs do not check deadlock, because an end blocked in `recv_sync` after its peer failed has no step.

## Not modelled, and the plan

1. **Done:** `EventBuilder`, `TebContributor` (including failed posts and reconfigure), `ContractBits`, the `EbAppBase` lifecycle `EbAppConnect`, the `EbLfLink` handshake with its refinement of `LinkHandshake`, and the receive replenish `EbLfRecv`.
2. **`EbLfLink::post`.** The RDMA overload is modelled in `EbLfRecv`. Its failures, as the callers see them, are `PostOutcomes` in `TebContributor`. The `inject_data` overload changes no state but the endpoint's. Its `rc = inject_data(...) < 0` precedence slip (line 348) returns 1 instead of the error; the only caller, `EbAppBase::post`, tests `if (rc)`, so only the logged code is wrong. The `_pending` bit mask is only read by a metric, so the `1 << _id` int shift (line 315) is not checked.
3. **Sparse contributor ids.** `tmpLinks[rmtId]` and `_region[rmtId]` index by the peer's id, while `connect()` sizes them by the number of contributors. `EbAppConnect` uses dense ids. Sparse ids need the peers' id assignment, which is outside the sources. `connect()`'s `_transport.setupMr` of each region (line 192) is not modelled either, because what `EbLfServer` keeps is outside the sources. So is the `allocRegion` failure inside `connect()`.
4. **TebContributor lifecycle.** `startup()`, `shutdown()`, `connect()` and `disconnect()` (TebContributor.cc 82-109, 126-155) start and join the receiver thread, size `_links`/`_trBuffers` and register the BatchManager's region with each link. The order the DRP application calls them in, the receiver loop (`EbCtrbInBase::receiver`) and the BatchManager's region are all outside the sources. A model of them would be a guess at their callers, so only `unconfigure`+`configure` between drained runs (`Reconfigure`) is modelled.
5. **Pipeline composition:** contributors and TEBs instantiated together, with results flowing back. The abstract spec "each pulse is delivered once, in order, by the TEB it was sent to" is to be checked by refinement.

Metrics, logging, and libfabric setup beyond what the link handshake needs stay unmodelled, because they are pure I/O. The batch manager, the result receiver and the link owners (`EbLfServer`/`EbLfClient`, which prime the receive queue) are not in the sources. They are modelled from spec.md where the components above need them.
