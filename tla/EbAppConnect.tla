----------------------------- MODULE EbAppConnect -----------------------------
(***************************************************************************)
(* The builder's link and region tables across its lifecycle,             *)
(* src/psdaq/psdaq/eb/EbAppBase.cc: connect() sizes the per-contributor   *)
(* vectors to the number of contributors and allocates a guessed input    *)
(* region for each empty slot; configure() (_linksConfigure) prepares     *)
(* every link, grows the region of the link's contributor when the size   *)
(* it announces needs more, registers it with setupMr and finally sorts   *)
(* the links by remote id; unconfigure() only clears the engine;          *)
(* disconnect() drops the links and clears the contract table but keeps   *)
(* _region and _regSize for the next connect().                           *)
(*                                                                         *)
(* The contract table of ContractBits is composed in: connect() installs   *)
(* prms.contractors, disconnect() fills it with 0, and trim() may be      *)
(* called while connected.                                                 *)
(*                                                                         *)
(* A region is a handle 1, 2, ... in allocation order; NullRegion is a    *)
(* nullptr.  Sizes are small numbers.                                      *)
(***************************************************************************)
EXTENDS Naturals, FiniteSets, SequencesExt

CONSTANTS
  Masks,              \* contributor sets prms.contributors may hold
  Sizes,              \* region sizes a contributor may announce in prepare
  Guess,              \* regSizeGuess of connect()
  TrSpace,            \* roundUpSize(_maxTrBuffers * maxTrSize)
  MaxCycles,          \* bound on connect() calls
  MaxPrepareFailures, \* bound on link->prepare() failures
  MaxAllocFailures,   \* bound on allocRegion() failures in configure()
  NumGroups, ContractWidth, IntWidth, Configured, Dsts   \* of ContractBits

Ids == UNION Masks
NullRegion == 0
Nil == [h |-> NullRegion, size |-> 0]

VARIABLES
  phase,     \* "disconnected", "connected" or "configured"
  links,     \* _links: remote ids of the links, in vector order
  region,    \* _region: [0..n-1 -> region handle]
  regSize,   \* _regSize: [0..n-1 -> size recorded for the region]
  live,      \* regions allocated and not freed
  allocs,    \* allocRegion() calls so far
  linkMr,    \* [Ids -> region and size the link registered, or Nil]
  cycles, prepFails, allocFails,
  contract, configured, trimmed   \* of ContractBits

cbVars == <<contract, configured, trimmed>>
vars == <<phase, links, region, regSize, live, allocs, linkMr, cycles,
          prepFails, allocFails, cbVars>>

CB == INSTANCE ContractBits

\* std::vector::resize(n): keep the first n entries, pad with a value
Resize(f, n, pad) == [i \in 0..n-1 |-> IF i \in DOMAIN f THEN f[i] ELSE pad]

\* mutant: the fill stops one group short
ZeroTableShort == [g \in 0..NumGroups-2 |-> 0]

\* _contract.fill(0)
ZeroTable == [g \in 0..NumGroups-1 |-> 0]

-----------------------------------------------------------------------------
(* connect(prms): resize the vectors to popcount(contributors), install   *)
(* the contract table, accept the links in whatever order they come, and *)
(* allocate a region of the guessed size for every slot still empty.     *)
Connect(mask) ==
  /\ phase = "disconnected" /\ cycles < MaxCycles
  /\ LET n     == Cardinality(mask)
         r0    == Resize(region, n, NullRegion)
         nulls == {i \in 0..n-1 : r0[i] = NullRegion}
         Fresh(i) == allocs + Cardinality({j \in nulls : j <= i})
     IN /\ region' = [i \in 0..n-1 |-> IF i \in nulls THEN Fresh(i) ELSE r0[i]]
        /\ regSize' = [i \in 0..n-1 |-> IF i \in nulls THEN Guess
                                         ELSE Resize(regSize, n, 0)[i]]
        /\ live' = live \cup {Fresh(i) : i \in nulls}
        /\ allocs' = allocs + Cardinality(nulls)
  /\ links' \in SetToSeqs(mask)
  /\ contract' \in Configured /\ configured' = contract' /\ trimmed' = {}
  /\ phase' = "connected" /\ cycles' = cycles + 1
  /\ UNCHANGED <<linkMr, prepFails, allocFails>>

\* links = tmpLinks: tmpLinks[rmtId] = link for every link
SortedLinks(ls) == SetToSortSeq(ToSet(ls), LAMBDA a, b : a < b)

\* mutant: a region is grown only when the need exceeds it by more than one
NeedsGrowthLate(need, have) == need > have + 1

\* if (regSize > _regSize[rmtId]) free and reallocate
NeedsGrowth(need, have) == need > have

(* _linksConfigure: links[1..k] are prepared and set up in vector order;  *)
(* the next prepare fails (k < Len(links)), or the allocation for link k  *)
(* fails after its old region was freed (ENOMEM), and configure returns   *)
(* with the links unsorted.  The region of a link is indexed by its id.  *)
Configure ==
  /\ phase = "connected"
  /\ \E k \in 0..Len(links), need \in [Ids -> {s + TrSpace : s \in Sizes}],
        oom \in (IF allocFails < MaxAllocFailures THEN BOOLEAN ELSE {FALSE}) :
       LET done  == {links[j] : j \in 1..k}
           grown == {r \in done : NeedsGrowth(need[r], regSize[r])}
           lastR == IF k > 0 THEN links[k] ELSE NullRegion
           noMem == oom /\ k > 0 /\ lastR \in grown
           Fresh(r) == allocs + Cardinality({q \in grown : q <= r})
           newRegion == [i \in DOMAIN region |->
                           IF i \in grown THEN (IF noMem /\ i = lastR
                                                THEN NullRegion ELSE Fresh(i))
                           ELSE region[i]]
           ok == k = Len(links) /\ ~noMem
       IN /\ (k < Len(links) => prepFails < MaxPrepareFailures)
          /\ oom => noMem
          /\ region' = newRegion
          /\ regSize' = [i \in DOMAIN regSize |->
                           IF i \in grown /\ ~(noMem /\ i = lastR)
                           THEN need[i] ELSE regSize[i]]
          /\ live' = (live \ {region[r] : r \in grown}) \cup
                     {Fresh(r) : r \in grown \ (IF noMem THEN {lastR} ELSE {})}
          /\ allocs' = allocs + Cardinality(grown)
          /\ linkMr' = [r \in Ids |->
                          IF r \in done /\ ~(noMem /\ r = lastR)
                          THEN [h |-> newRegion[r], size |-> need[r]]
                          ELSE linkMr[r]]
          /\ links' = IF ok THEN SortedLinks(links) ELSE links
          /\ phase' = IF ok THEN "configured" ELSE "connected"
          /\ prepFails' = IF k < Len(links) THEN prepFails + 1 ELSE prepFails
          /\ allocFails' = IF noMem THEN allocFails + 1 ELSE allocFails
  /\ UNCHANGED <<cycles, cbVars>>

\* unconfigure(): EventBuilder::clear; the tables are left alone
Unconfigure ==
  /\ phase = "configured"
  /\ phase' = "connected"
  /\ UNCHANGED <<links, region, regSize, live, allocs, linkMr, cycles,
                 prepFails, allocFails, cbVars>>

(* disconnect(), after configure or unconfigure alike: the links go,      *)
(* _contract.fill(0); _region and _regSize stay.                          *)
Disconnect ==
  /\ phase \in {"connected", "configured"}
  /\ phase' = "disconnected"
  /\ links' = <<>> /\ linkMr' = [r \in Ids |-> Nil]
  /\ contract' = ZeroTable /\ configured' = ZeroTable /\ trimmed' = {}
  /\ UNCHANGED <<region, regSize, live, allocs, cycles, prepFails, allocFails>>

\* trim(dst) on a connected builder
TrimContract ==
  /\ phase \in {"connected", "configured"}
  /\ \E dst \in Dsts : CB!Trim(dst)
  /\ UNCHANGED <<phase, links, region, regSize, live, allocs, linkMr, cycles,
                 prepFails, allocFails>>

(* ~EbAppBase(), on a disconnected builder: free every region _region     *)
(* holds and clear it.                                                     *)
Destruct ==
  /\ phase = "disconnected"
  /\ live' = live \ {region[i] : i \in DOMAIN region}
  /\ region' = <<>>
  /\ phase' = "destroyed"
  /\ UNCHANGED <<links, regSize, allocs, linkMr, cycles, prepFails, allocFails,
                 cbVars>>

\* the constructor: no links, no regions, an all-zero contract table
Init ==
  /\ phase = "disconnected" /\ links = <<>>
  /\ region = <<>> /\ regSize = <<>> /\ live = {} /\ allocs = 0
  /\ linkMr = [r \in Ids |-> Nil]
  /\ cycles = 0 /\ prepFails = 0 /\ allocFails = 0
  /\ contract = ZeroTable /\ configured = ZeroTable /\ trimmed = {}

Next ==
  \/ \E mask \in Masks : Connect(mask)
  \/ Configure \/ Unconfigure \/ Disconnect \/ TrimContract \/ Destruct

Spec == Init /\ [][Next]_vars

-----------------------------------------------------------------------------
(* Properties                                                              *)

TypeOK ==
  /\ phase \in {"disconnected", "connected", "configured", "destroyed"}
  /\ links \in Seq(Ids) /\ live \subseteq 1..allocs
  /\ linkMr \in [Ids -> [h : 0..allocs, size : Nat]]
  /\ contract \in [0..NumGroups-1 -> 0..2^ContractWidth-1] /\ trimmed \subseteq Dsts

(* Every memory region a current link registered with setupMr is still   *)
(* allocated and is at least as large as the size registered, across     *)
(* reallocations in configure() and regions kept from an earlier connect. *)
LinkMrValid ==
  \A j \in 1..Len(links) :
    LET r == links[j] IN
      linkMr[r] # Nil =>
        /\ linkMr[r].h \in live
        /\ linkMr[r].h = region[r]
        /\ linkMr[r].size <= regSize[r]

(* Once the builder is destroyed no input region is left allocated: the   *)
(* destructor's loop over _region reaches every region connect() and      *)
(* configure() allocated, over any number of connect/disconnect cycles.   *)
AllFreedAtDestruction ==
  phase = "destroyed" => live = {}

ContractIsUnion == CB!ContractIsUnion
TrimRemovesOnlyDst == CB!TrimRemovesOnlyDst
====
