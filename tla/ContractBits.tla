----------------------------- MODULE ContractBits -----------------------------
(***************************************************************************)
(* The builder's contract table, EbAppBase.cc: _contract[group] is a       *)
(* 64-bit mask of contributor ids, set at connect(), narrowed by trim(dst) *)
(* and read by contract(), which ORs the entries of a datagram's readout   *)
(* groups with an ffs loop.                                                *)
(*                                                                         *)
(* Widths are scaled: ContractWidth stands for the 64 bits of a contract,  *)
(* IntWidth for the 32 bits of the int in which trim() computes            *)
(* ~(1 << dst), so that the sign extension and the shift past the int's    *)
(* width behave as they do at full size.                                   *)
(***************************************************************************)
EXTENDS Integers, FiniteSets, FiniteSetsExt, Bitwise

CONSTANTS
  NumGroups,      \* entries of _contract (readout groups)
  ContractWidth,  \* bits of a contract word (uint64_t)
  IntWidth,       \* bits of int, the type of 1 << dst
  Configured,     \* contract tables prms.contractors may hold
  Dsts            \* contributor ids trim() may be called with

ASSUME /\ IntWidth < ContractWidth
       /\ Configured \subseteq [0..NumGroups-1 -> 0..2^ContractWidth-1]
       /\ Dsts \subseteq 0..ContractWidth-1

GroupMasks == 0..2^NumGroups-1

VARIABLES
  contract,   \* _contract
  configured, \* the table connect() installed
  trimmed     \* the ids trim() has been called with

vars == <<contract, configured, trimmed>>

-----------------------------------------------------------------------------
\* the set of bit positions of x
BitSet(x) == {b \in 0..ContractWidth-1 : (x \div 2^b) % 2 = 1}

\* __builtin_ffs: one plus the index of the lowest set bit, 0 for 0
Ffs(x) == IF x = 0 THEN 0 ELSE 1 + Min(BitSet(x))

\* groups &= ~(1 << group)
ClearBit(x, b) == IF b \in BitSet(x) THEN x - 2^b ELSE x

(* contract(): while (groups) { group = ffs(groups) - 1; clear it;         *)
(* contract |= _contract[group]; }                                         *)
\* mutant: the loop body runs once (if instead of while)
ContractLoopFirstOnly(groups, acc) ==
  IF groups = 0 THEN acc
  ELSE acc | contract[Ffs(groups) - 1]

RECURSIVE ContractLoop(_, _)
ContractLoop(groups, acc) ==
  IF groups = 0 THEN acc
  ELSE LET group == Ffs(groups) - 1
       IN ContractLoop(ClearBit(groups, group), acc | contract[group])

Contract(groups) == ContractLoop(groups, 0)

(* The 64-bit value of the int ~(1 << dst).  For dst past the int's width  *)
(* the shift is undefined; the builds' shift instructions mask the count  *)
(* (x86) or yield 0 (shift by register on 32-bit ARM).  ~ of a value with *)
(* the top int bit clear is negative and sign-extends to ones above it.   *)
ShiftOutcomes(dst) ==
  IF dst < IntWidth THEN {2^dst} ELSE {2^(dst % IntWidth), 0}

\* mutant: the bit above dst is shifted in
TrimMaskOffByOne(dst, shifted) ==
  LET nm == (2^IntWidth - 1) - ((2 * shifted) % 2^IntWidth)
  IN IF nm >= 2^(IntWidth - 1) THEN nm + 2^ContractWidth - 2^IntWidth ELSE nm

TrimMask(dst, shifted) ==
  LET nm == (2^IntWidth - 1) - shifted
  IN IF nm >= 2^(IntWidth - 1) THEN nm + 2^ContractWidth - 2^IntWidth ELSE nm

-----------------------------------------------------------------------------
\* connect(): _contract = prms.contractors
Init ==
  /\ contract \in Configured
  /\ configured = contract
  /\ trimmed = {}

\* trim(dst): _contract[group] &= ~(1 << dst) for every group
Trim(dst) ==
  /\ dst \notin trimmed
  /\ \E shifted \in ShiftOutcomes(dst) :
       contract' = [g \in DOMAIN contract |-> contract[g] & TrimMask(dst, shifted)]
  /\ trimmed' = trimmed \cup {dst}
  /\ UNCHANGED configured

\* every dst has been trimmed: nothing more to do
Done ==
  /\ trimmed = Dsts
  /\ UNCHANGED vars

Next == (\E dst \in Dsts : Trim(dst)) \/ Done

Spec == Init /\ [][Next]_vars

-----------------------------------------------------------------------------
(* contract() returns the union of the contributors of every readout      *)
(* group set in the datagram, whatever the table and whatever trim() has  *)
(* done to it: the ffs loop visits each set group bit exactly once.       *)
ContractIsUnion ==
  \A groups \in GroupMasks :
    BitSet(Contract(groups)) = UNION {BitSet(contract[g]) : g \in BitSet(groups)}

(* trim(dst) removes contributor dst, and only it, from every group: the  *)
(* table is the configured one less the trimmed ids.                      *)
TrimRemovesOnlyDst ==
  \A g \in DOMAIN contract : BitSet(contract[g]) = BitSet(configured[g]) \ trimmed
====
