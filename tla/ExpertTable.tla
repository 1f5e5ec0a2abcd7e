----------------------------- MODULE ExpertTable -----------------------------
(***************************************************************************)
(* The expert-to-slot table of table.py (and of the Triton kernel in       *)
(* acquire.py, which follows the same rules), as operators on a record.    *)
(*                                                                         *)
(* The sink element at the end of every tensor is written and never read,  *)
(* and hits and misses are statistics; neither is modelled.  A list packed *)
(* with -1 is the set of its experts.                                      *)
(***************************************************************************)
EXTENDS Integers, FiniteSets

CONSTANT E      \* number of experts
ASSUME ExpertsAssumption == E \in Nat

Experts == 0 .. (E - 1)
None == -1

TableType(size) ==
    [slot_of   : [Experts -> {None} \union 0 .. (size - 1)],
     expert_in : [0 .. (size - 1) -> {None} \union Experts],
     last_used : [0 .. (size - 1) -> Nat],
     step      : Nat \ {0}]

SlotsOf(t) == DOMAIN t.expert_in
Resident(t) == {e \in Experts: t.slot_of[e] # None}

\* ExpertTable.__init__ with no expert in it.
EmptyTable(size) ==
    [slot_of   |-> [e \in Experts |-> None],
     expert_in |-> [i \in 0 .. (size - 1) |-> None],
     last_used |-> [i \in 0 .. (size - 1) |-> 0],
     step      |-> 1]

\* Mutant: one expert more than there are slots.
WarmTableTooMany(size) ==
    [EmptyTable(size) EXCEPT
        !.slot_of = [e \in Experts |-> IF e <= size THEN e ELSE None],
        !.expert_in = [i \in 0 .. (size - 1) |-> i]]

\* The RAM table after the warm start: expert e is in slot e.
WarmTable(size) ==
    [EmptyTable(size) EXCEPT
        !.slot_of = [e \in Experts |-> IF e < size THEN e ELSE None],
        !.expert_in = [i \in 0 .. (size - 1) |-> i]]

-----------------------------------------------------------------------------
(* acquire: give every needed expert a slot.                               *)

Misses(t, need) == {e \in need: t.slot_of[e] = None}

\* Mutant: the slots in use are not protected.
NoSlotUsed(t, need) == {}

\* The slots whose expert is hit in this step.
SlotUsed(t, need) ==
    {i \in SlotsOf(t): LET occupant == t.expert_in[i]
                       IN  occupant \in need /\ t.slot_of[occupant] # None}

\* Victim order: slots in use last, then by last use, then by slot number
\* (_PROTECT is larger than any last_used, and the sort is stable).
VictimBefore(t, need, i, j) ==
    LET used == SlotUsed(t, need)
    IN  IF (i \in used) # (j \in used) THEN j \in used
        ELSE \/ t.last_used[i] < t.last_used[j]
             \/ t.last_used[i] = t.last_used[j] /\ i < j

SlotRank(t, need, i) ==
    Cardinality({j \in SlotsOf(t): VictimBefore(t, need, j, i)})

\* The ordinal of a missed expert.
MissRank(t, need, e) == Cardinality({f \in Misses(t, need): f < e})

\* A miss takes the slot at its ordinal.
Victim(t, need, e) ==
    CHOOSE i \in SlotsOf(t): SlotRank(t, need, i) = MissRank(t, need, e)

\* Mutant: the experts pushed out of their slots stay in slot_of.
EvictedStay(t, victims) == {}

\* The experts pushed out of their slots.
Evicted(t, victims) == {t.expert_in[i]: i \in victims} \ {None}

\* Update a table whose missed experts get the slots in victim.
Placing(t, need, victim) ==
    LET misses == DOMAIN victim
        evicted == Evicted(t, {victim[e]: e \in misses})
        slot_of == [e \in Experts |-> IF e \in misses THEN victim[e]
                                      ELSE IF e \in evicted THEN None
                                      ELSE t.slot_of[e]]
        Placed(i) == {e \in misses: victim[e] = i}
    IN  [slot_of   |-> slot_of,
         expert_in |-> [i \in SlotsOf(t) |->
                           IF Placed(i) = {} THEN t.expert_in[i]
                           ELSE CHOOSE e \in Placed(i): TRUE],
         last_used |-> [i \in SlotsOf(t) |->
                           IF \E e \in need: slot_of[e] = i THEN t.step
                           ELSE t.last_used[i]],
         step      |-> t.step + 1]

Acquire(t, need) == Placing(t, need, [e \in Misses(t, need) |-> Victim(t, need, e)])

-----------------------------------------------------------------------------
(* seed: fill the RAM table from a prefill's routing.  counts is how often *)
(* each expert is referenced.                                              *)

\* topk: any m experts such that none left out is referenced more often,
\* listed from a most referenced one (top[0]).
TopChoices(counts, m) ==
    LET Tops == {top \in SUBSET Experts:
                    /\ Cardinality(top) = m
                    /\ \A e \in top, f \in Experts \ top: counts[e] >= counts[f]}
        Firsts(top) == {e \in top: \A f \in top: counts[e] >= counts[f]}
    IN  UNION {{[top |-> top, first |-> e]: e \in Firsts(top)}: top \in Tops}

SeedWith(ram, vram, counts, c) ==
    LET size == Cardinality(SlotsOf(ram))
        slots == Cardinality(SlotsOf(vram))
        top == {e \in c.top: counts[e] > 0} \union {c.first}
        ram1 == IF size > slots THEN Acquire(ram, top) ELSE ram
        kept == {i \in SlotsOf(vram):
                    LET v == vram.expert_in[i]
                    IN  v # None /\ (ram1.slot_of[v] # None \/ counts[v] > 0)}
        rest == IF kept = SlotsOf(vram) THEN {} ELSE {c.first}
    IN  Acquire(ram1, {vram.expert_in[i]: i \in kept} \union rest)

\* The tables seed may leave.
Seed(ram, vram, counts) ==
    LET spare == Cardinality(SlotsOf(ram)) - Cardinality(SlotsOf(vram))
        m == IF spare > 1 THEN spare ELSE 1
    IN  {SeedWith(ram, vram, counts, c): c \in TopChoices(counts, m)}

-----------------------------------------------------------------------------
(* plan_chunks: arrange a prefill's experts into chunks of W rows.  before *)
(* and after are the RAM table's slot_of around its update.                *)

\* Mutant: the old slot of an expert that moved counts as usable.
OldRowAlwaysUsable(before, after, e) == before[e] # None

\* The old slot still holds the row: unchanged, or evicted and being freed.
OldRowUsable(before, after, e) ==
    before[e] # None /\ (after[e] = None \/ after[e] = before[e])

\* The experts read from SSD: needed ones without a usable row, and those
\* that moved to another slot.
SsdReads(before, after, need) ==
    {e \in Experts: /\ ~ OldRowUsable(before, after, e)
                    /\ e \in need \/ before[e] # None}

\* Needed experts that wait for no read come first, the reads start at the
\* next chunk boundary; both in expert order.
Position(before, after, need, W, e) ==
    LET ssd == SsdReads(before, after, need)
        first == need \ ssd
        boundary == ((Cardinality(first) + W - 1) \div W) * W
        Preceding(s) == Cardinality({f \in s: f < e})
    IN  IF e \in first THEN Preceding(first) ELSE boundary + Preceding(ssd)

NumChunks(W) == ((E + W - 1) \div W) + 1

\* Mutant: all chunks share the rows of one face.
OneFace(c) == 0

\* The face of a chunk's shared rows.
Face(c) == c % 2

\* The plan: for every expert its chunk, its row on the working slab and the
\* row it is copied from (also where it is read to), and the three lists.
\* The two faces of shared rows follow the RAM tier at working_base.
PlanChunks(before, after, need, cached, W, ram_base, working_base) ==
    LET ssd == SsdReads(before, after, need)
        pos == [e \in need \union ssd |-> Position(before, after, need, W, e)]
        Shared(e) == working_base + Face(pos[e] \div W) * W + (pos[e] % W)
    IN  [chunk   |-> [e \in need \union ssd |-> pos[e] \div W],
         dst_row |-> [e \in need \union ssd |-> pos[e] % W],
         src_row |-> [e \in need \union ssd |->
                         IF OldRowUsable(before, after, e) THEN before[e] + ram_base
                         ELSE IF after[e] # None THEN after[e] + ram_base
                         ELSE Shared(e)],
         todo    |-> need \ (ssd \ cached),
         ssd     |-> ssd,
         late    |-> (need \intersect ssd) \ cached]

-----------------------------------------------------------------------------
(* What the operators promise.                                             *)

\* slot_of and expert_in are inverse to each other.
IsInverse(t) ==
    /\ \A e \in Experts: t.slot_of[e] # None => t.expert_in[t.slot_of[e]] = e
    /\ \A i \in SlotsOf(t): t.expert_in[i] # None => t.slot_of[t.expert_in[i]] = i
=============================================================================
