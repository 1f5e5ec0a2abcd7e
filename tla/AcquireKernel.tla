---------------------------- MODULE AcquireKernel ----------------------------
(***************************************************************************)
(* The Triton kernel of acquire.py, which decode uses in place of          *)
(* ExpertTable.acquire: the same rules with another way to find victims.   *)
(* It sorts one integer per slot, with the slot number in the low bits,    *)
(* over as many slots as the larger table has, rounded up to a power of    *)
(* two; the slots a table does not have get the largest keys.              *)
(***************************************************************************)
EXTENDS ExpertTable

CONSTANTS
    Protect,    \* _PROTECT (2^40), larger than any timestamp
    SlotSpan    \* 1 << _SLOT_BITS, what the low bits of a key can tell apart

\* block_s: the smallest power of two that is not below n.
BlockOf(n) == CHOOSE b \in {2 ^ k: k \in 0 .. n}: n <= b /\ (b = 1 \/ b \div 2 < n)

\* The slots whose occupant is among the references.
KernelUsed(t, need) == {i \in SlotsOf(t): t.expert_in[i] \in need}

\* Mutant: the slots in use are not protected.
SortKeyUnprotected(t, need, i) ==
    (IF i \notin SlotsOf(t) THEN 2 * Protect ELSE t.last_used[i]) * SlotSpan + i

\* Mutants: the slots used last first, and the timestamp left out.
SortKeyNewest(t, need, i) ==
    LET key == IF i \notin SlotsOf(t) THEN 4 * Protect
               ELSE IF i \in KernelUsed(t, need) THEN 2 * Protect
               ELSE Protect - t.last_used[i]
    IN  key * SlotSpan + i
SortKeyBySlot(t, need, i) ==
    LET key == IF i \notin SlotsOf(t) THEN 2 * Protect
               ELSE IF i \in KernelUsed(t, need) THEN Protect ELSE 0
    IN  key * SlotSpan + i

\* The packed key: slots in use last, padding after them.
SortKey(t, need, i) ==
    LET key == IF i \notin SlotsOf(t) THEN 2 * Protect
               ELSE t.last_used[i] + (IF i \in KernelUsed(t, need) THEN Protect ELSE 0)
    IN  key * SlotSpan + i

\* The slot at a rank of the sorted keys: their low bits.
KernelOrder(t, need, block, rank) ==
    LET keys == {SortKey(t, need, i): i \in 0 .. (block - 1)}
        key == CHOOSE x \in keys: Cardinality({y \in keys: y < x}) = rank
    IN  key % SlotSpan

KernelVictim(t, need, block, e) ==
    LET last == Cardinality(SlotsOf(t)) - 1
        rank == MissRank(t, need, e)
    IN  KernelOrder(t, need, block, IF rank < last THEN rank ELSE last)

KernelAcquire(t, need, block) ==
    Placing(t, need, [e \in Misses(t, need) |-> KernelVictim(t, need, block, e)])

\* todo: the missed experts packed from the front, None after them.
KernelTodo(t, need, K) ==
    [j \in 0 .. (K - 1) |->
        LET here == {e \in Misses(t, need): MissRank(t, need, e) = j}
        IN  IF here = {} THEN None ELSE CHOOSE e \in here: TRUE]

\* The experts of a list padded with None.
Listed(list) == {list[j]: j \in DOMAIN list} \ {None}
=============================================================================
