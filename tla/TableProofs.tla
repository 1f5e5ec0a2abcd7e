----------------------------- MODULE TableProofs -----------------------------
(***************************************************************************)
(* Proofs about the two tables of a layer: the kernel's packed sort keys   *)
(* give the victims the torch version gives, both tables stay inverse, and *)
(* the rows of the RAM tier stay what its table says.  With decode alone,  *)
(* for every number of experts and slots, either table is a cache with LRU *)
(* replacement, and the RAM tier stays a superset of the VRAM tier when it *)
(* has at least 2S-1 slots.                                                *)
(***************************************************************************)
EXTENDS MCTierTables, ExpertTableProofs

-----------------------------------------------------------------------------
(* The kernel's keys.                                                      *)

\* Two numbers packed into one compare as their high parts do.
LEMMA PackOrder ==
    ASSUME NEW P \in Nat, NEW k \in Nat, NEW l \in Nat, k < l,
           NEW i \in 0 .. (P - 1), NEW j \in 0 .. (P - 1)
    PROVE  k * P + i < l * P + j
<1>1. PICK d \in Nat: l = k + d + 1
  BY SMT
<1>2. l * P = k * P + d * P + P
  BY <1>1
<1>3. d * P \in Nat /\ k * P \in Nat /\ l * P \in Nat
  OBVIOUS
<1> QED BY <1>2, <1>3

\* The low part is the remainder.
LEMMA PackMod ==
    ASSUME NEW P \in Nat, NEW k \in Nat, NEW i \in 0 .. (P - 1)
    PROVE  (k * P + i) % P = i
OBVIOUS

\* The high part of a slot's key.
HighPart(t, ids, i) ==
    IF i \notin SlotsOf(t) THEN 2 * Protect
    ELSE t.last_used[i] + (IF i \in KernelUsed(t, ids) THEN Protect ELSE 0)

\* The tables the kernel works on: timestamps below Protect, and no more slots
\* than the block sorts and the low bits tell apart.
KernelFits(size, t, block) ==
    /\ TableInv(size, t)
    /\ \A i \in SlotsOf(t): t.last_used[i] < Protect
    /\ block \in size .. SlotSpan

\* Both versions protect the same slots.
LEMMA KernelUsedIsSlotUsed ==
    ASSUME NEW size \in Nat, NEW t, TableInv(size, t), NEW ids \in SUBSET Experts
    PROVE  KernelUsed(t, ids) = SlotUsed(t, ids)
<1>1. \A e \in Experts: e # None
  BY SizesAssumption DEF Experts, None
<1>2. \A i \in SlotsOf(t): t.expert_in[i] # None => t.slot_of[t.expert_in[i]] = i
  BY DEF TableInv, IsInverse
<1>3. \A i \in SlotsOf(t): i # None
  BY SlotsOfTable DEF TableInv, None
<1> QED BY <1>1, <1>2, <1>3 DEF KernelUsed, SlotUsed

\* The keys order the slots of the table as the victim order does and put the
\* padding behind them; the low bits give the slot back.
LEMMA KeysOrderSlots ==
    ASSUME NEW size \in Nat, NEW t, NEW block, KernelFits(size, t, block),
           NEW ids \in SUBSET Experts
    PROVE  /\ SlotsOf(t) \subseteq 0 .. (block - 1)
           /\ \A i \in 0 .. (block - 1): /\ SortKey(t, ids, i) \in Nat
                                        /\ SortKey(t, ids, i) % SlotSpan = i
           /\ \A i, j \in SlotsOf(t): VictimBefore(t, ids, i, j)
                                        => SortKey(t, ids, i) < SortKey(t, ids, j)
           /\ \A i \in SlotsOf(t), j \in (0 .. (block - 1)) \ SlotsOf(t):
                 SortKey(t, ids, i) < SortKey(t, ids, j)
<1> DEFINE K(i) == SortKey(t, ids, i)
           H(i) == HighPart(t, ids, i)
           U == SlotUsed(t, ids)
<1>1. SlotsOf(t) = 0 .. (size - 1) /\ t.last_used \in [0 .. (size - 1) -> Nat]
  BY SlotsOfTable DEF KernelFits, TableInv, TableType
<1>2. block \in Nat /\ size <= block /\ block <= SlotSpan /\ SlotSpan \in Nat /\ Protect \in Nat
  BY KernelAssumption DEF KernelFits
<1>3. SlotsOf(t) \subseteq 0 .. (block - 1)
  BY <1>1, <1>2
<1>4. KernelUsed(t, ids) = U
  BY KernelUsedIsSlotUsed DEF KernelFits
<1>5. \A i: K(i) = H(i) * SlotSpan + i
  BY DEF SortKey, HighPart
<1>6. \A i \in 0 .. (block - 1): i \in 0 .. (SlotSpan - 1)
  BY <1>2
<1>7. \A i \in SlotsOf(t):
         /\ t.last_used[i] \in Nat /\ t.last_used[i] < Protect
         /\ H(i) = t.last_used[i] + (IF i \in U THEN Protect ELSE 0)
  BY <1>1, <1>4 DEF KernelFits, HighPart
<1>8. \A i: i \notin SlotsOf(t) => H(i) = 2 * Protect
  BY DEF HighPart
<1> HIDE DEF K, H, U
<1>9. \A i \in 0 .. (block - 1): H(i) \in Nat
  <2>1. \A i \in SlotsOf(t): H(i) \in Nat
    BY <1>2, <1>7
  <2>2. \A i: i \notin SlotsOf(t) => H(i) \in Nat
    BY <1>2, <1>8
  <2> QED BY <2>1, <2>2
<1>10. ASSUME NEW i \in 0 .. (block - 1)
       PROVE  K(i) \in Nat /\ K(i) % SlotSpan = i
  <2>1. K(i) % SlotSpan = i
    BY <1>2, <1>5, <1>6, <1>9, PackMod
  <2>2. H(i) * SlotSpan \in Nat
    BY <1>2, <1>9
  <2> QED BY <1>5, <2>1, <2>2
<1>11. \A i, j \in 0 .. (block - 1): H(i) < H(j) => K(i) < K(j)
  BY <1>2, <1>5, <1>6, <1>9, PackOrder
<1>12. \A i, j \in 0 .. (block - 1): H(i) = H(j) /\ i < j => K(i) < K(j)
  <2> SUFFICES ASSUME NEW i \in 0 .. (block - 1), NEW j \in 0 .. (block - 1),
                      H(i) = H(j), i < j
               PROVE  K(i) < K(j)
    OBVIOUS
  <2>1. H(i) * SlotSpan \in Nat
    BY <1>2, <1>9
  <2>2. K(i) = H(i) * SlotSpan + i /\ K(j) = H(i) * SlotSpan + j
    BY <1>5
  <2> QED BY <2>1, <2>2
<1>13. ASSUME NEW i \in SlotsOf(t), NEW j \in SlotsOf(t), VictimBefore(t, ids, i, j)
       PROVE  K(i) < K(j)
  <2>1. IF (i \in U) # (j \in U) THEN j \in U
        ELSE \/ t.last_used[i] < t.last_used[j]
             \/ t.last_used[i] = t.last_used[j] /\ i < j
    BY <1>13 DEF VictimBefore, U
  <2>2. CASE i \notin U /\ j \in U
    <3>1. H(i) < H(j)
      BY <1>2, <1>7, <2>2
    <3> QED BY <1>3, <1>11, <3>1
  <2>3. CASE (i \in U <=> j \in U) /\ t.last_used[i] < t.last_used[j]
    <3>1. H(i) < H(j)
      BY <1>2, <1>7, <2>3
    <3> QED BY <1>3, <1>11, <3>1
  <2>4. CASE (i \in U <=> j \in U) /\ t.last_used[i] = t.last_used[j] /\ i < j
    <3>1. H(i) = H(j)
      BY <1>2, <1>7, <2>4
    <3> QED BY <1>3, <1>12, <2>4, <3>1
  <2> QED BY <2>1, <2>2, <2>3, <2>4
<1>14. ASSUME NEW i \in SlotsOf(t), NEW j \in (0 .. (block - 1)) \ SlotsOf(t)
       PROVE  K(i) < K(j)
  <2>1. H(i) < H(j)
    BY <1>2, <1>7, <1>8
  <2> QED BY <1>3, <1>11, <2>1
<1> QED BY <1>3, <1>10, <1>13, <1>14 DEF K

\* As many keys are below a slot's key as there are slots before it.
LEMMA KeyRankIsSlotRank ==
    ASSUME NEW size \in Nat, NEW t, NEW block, KernelFits(size, t, block),
           NEW ids \in SUBSET Experts, NEW i \in SlotsOf(t)
    PROVE  LET keys == {SortKey(t, ids, j): j \in 0 .. (block - 1)}
           IN  Cardinality({y \in keys: y < SortKey(t, ids, i)}) = SlotRank(t, ids, i)
<1> DEFINE K(j) == SortKey(t, ids, j)
           B == 0 .. (block - 1)
           keys == {K(j): j \in B}
           before == {j \in SlotsOf(t): VictimBefore(t, ids, j, i)}
           below == {y \in keys: y < K(i)}
           F == [j \in before |-> K(j)]
<1>1. /\ SlotsOf(t) \subseteq B
      /\ \A j \in B: K(j) \in Nat /\ K(j) % SlotSpan = j
      /\ \A j, k \in SlotsOf(t): VictimBefore(t, ids, j, k) => K(j) < K(k)
      /\ \A j \in SlotsOf(t), k \in B \ SlotsOf(t): K(j) < K(k)
  BY KeysOrderSlots
<1>2. t \in TableType(size)
  BY DEF KernelFits, TableInv
<1>3. \A j, k \in SlotsOf(t): j # k => VictimBefore(t, ids, j, k) \/ VictimBefore(t, ids, k, j)
  <2>1. StrictTotalOn(SlotOrder(t, ids), SlotsOf(t))
    BY <1>2, SlotOrderTotal
  <2> QED BY <2>1 DEF StrictTotalOn, SlotOrder
<1> HIDE DEF K, B
<1>4. \A j \in before: K(j) \in below
  BY <1>1
<1>5. ASSUME NEW y \in below
      PROVE  \E j \in before: K(j) = y
  <2>1. PICK j \in B: y = K(j)
    OBVIOUS
  <2>2. K(j) < K(i) /\ K(j) \in Nat /\ K(i) \in Nat
    BY <1>1, <2>1
  <2>3. j \in SlotsOf(t)
    BY <1>1, <2>2
  <2>4. j # i /\ ~ VictimBefore(t, ids, i, j)
    BY <1>1, <2>2, <2>3
  <2> QED BY <1>3, <2>1, <2>3, <2>4
<1>6. IsFiniteSet(before)
  BY <1>2, SlotsOfTable, FS_Subset
<1>7. ExistsBijection(before, below)
  <2>1. F \in [before -> below]
    BY <1>4
  <2>2. \A j, k \in before: F[j] = F[k] => j = k
    BY <1>1
  <2>3. \A y \in below: \E j \in before: F[j] = y
    BY <1>5
  <2>4. F \in Bijection(before, below)
    BY <2>1, <2>2, <2>3, Fun_IsBij
  <2> QED BY <2>4 DEF ExistsBijection
<1>8. Cardinality(below) = Cardinality(before)
  BY <1>6, <1>7, FS_Bijection
<1> QED BY <1>8 DEF SlotRank, K, B

LEMMA KeysFinite ==
    ASSUME NEW size \in Nat, NEW t, NEW block, KernelFits(size, t, block),
           NEW ids \in SUBSET Experts
    PROVE  LET keys == {SortKey(t, ids, j): j \in 0 .. (block - 1)}
           IN  IsFiniteSet(keys) /\ keys \subseteq Nat
<1> DEFINE B == 0 .. (block - 1)
           keys == {SortKey(t, ids, j): j \in B}
           F == [j \in B |-> SortKey(t, ids, j)]
<1>1. \A j \in B: SortKey(t, ids, j) \in Nat
  BY KeysOrderSlots
<1>2. keys \subseteq Nat
  BY <1>1
<1>3. F \in Surjection(B, keys)
  BY DEF Surjection
<1>4. block \in Nat
  BY KernelAssumption DEF KernelFits
<1>5. block - 1 \in Int
  BY <1>4
<1>6. IsFiniteSet(B)
  BY <1>5, FS_Interval
<1>7. IsFiniteSet(keys)
  BY <1>3, <1>6, FS_Surjection
<1> QED BY <1>2, <1>7

\* The kernel takes the same victims: the slot it decodes from the key of a
\* rank is the slot of that rank.
LEMMA KernelVictimIsVictim ==
    ASSUME NEW size \in Nat, NEW t, NEW block, KernelFits(size, t, block),
           NEW ids \in SUBSET Experts, Cardinality(ids) <= size,
           NEW e \in Misses(t, ids)
    PROVE  /\ KernelVictim(t, ids, block, e) \in SlotsOf(t)
           /\ KernelVictim(t, ids, block, e) = Victim(t, ids, e)
<1> DEFINE K(j) == SortKey(t, ids, j)
           keys == {SortKey(t, ids, j): j \in 0 .. (block - 1)}
           n == MissRank(t, ids, e)
           Below(x) == Cardinality({y \in keys: y < x})
<1>1. t \in TableType(size)
  BY DEF KernelFits, TableInv
<1>2. n \in 0 .. (size - 1) /\ \E i \in SlotsOf(t): SlotRank(t, ids, i) = n
  BY <1>1, MissRankIsSlotRank
<1>3. PICK i \in SlotsOf(t): SlotRank(t, ids, i) = n
  BY <1>2
<1>4. Victim(t, ids, e) = i
  <2>1. \A j \in SlotsOf(t): SlotRank(t, ids, j) = n => j = i
    BY <1>1, <1>3, SlotRankInjective
  <2> QED BY <1>3, <2>1 DEF Victim
<1>5. Cardinality(SlotsOf(t)) - 1 = size - 1
  BY <1>1, SlotsOfTable
<1>6. KernelVictim(t, ids, block, e) = KernelOrder(t, ids, block, n)
  BY <1>2, <1>5 DEF KernelVictim
<1>7. K(i) \in keys /\ K(i) % SlotSpan = i /\ Below(K(i)) = n
  BY <1>3, KeysOrderSlots, KeyRankIsSlotRank
<1>8. ASSUME NEW x \in keys, Below(x) = n
      PROVE  x = K(i)
  <2>1. IsFiniteSet(keys) /\ keys \subseteq Nat
    BY KeysFinite
  <2> HIDE DEF keys, K
  <2>2. StrictTotalOn(IdOrder(keys), keys)
    BY <2>1 DEF StrictTotalOn, IdOrder
  <2>3. \A z \in keys: Rank(IdOrder(keys), keys, z) = Below(z)
    <3> SUFFICES ASSUME NEW z \in keys
                 PROVE  Rank(IdOrder(keys), keys, z) = Below(z)
      OBVIOUS
    <3>1. {y \in keys: <<y, z>> \in IdOrder(keys)} = {y \in keys: y < z}
      BY DEF IdOrder
    <3> QED BY <3>1 DEF Rank
  <2>4. Rank(IdOrder(keys), keys, x) = Rank(IdOrder(keys), keys, K(i))
    BY <1>7, <1>8, <2>3
  <2> QED BY <1>7, <2>1, <2>2, <2>4, RankInjective
<1>9. (CHOOSE x \in keys: Below(x) = n) = K(i)
  <2> HIDE DEF keys, Below, n, K
  <2> QED BY <1>7, <1>8
<1>10. KernelOrder(t, ids, block, n) = K(i) % SlotSpan
  BY <1>9 DEF KernelOrder
<1> QED BY <1>4, <1>6, <1>7, <1>10

\* The kernel and the torch version leave the same table.
LEMMA KernelIsAcquire ==
    ASSUME NEW size \in Nat, NEW t, NEW block, KernelFits(size, t, block),
           NEW ids \in SUBSET Experts, Cardinality(ids) <= size
    PROVE  KernelAcquire(t, ids, block) = Acquire(t, ids)
<1>1. \A e \in Misses(t, ids): KernelVictim(t, ids, block, e) = Victim(t, ids, e)
  BY KernelVictimIsVictim
<1>2. [e \in Misses(t, ids) |-> KernelVictim(t, ids, block, e)]
         = [e \in Misses(t, ids) |-> Victim(t, ids, e)]
  BY <1>1
<1> QED BY <1>2 DEF KernelAcquire, Acquire

\* The kernel's list of misses holds every missed expert and nothing else.
LEMMA TodoIsMisses ==
    ASSUME NEW size \in Nat, NEW t \in TableType(size), NEW ids \in SUBSET Experts,
           NEW K \in Nat, Cardinality(ids) <= K
    PROVE  Listed(KernelTodo(t, ids, K)) = Misses(t, ids)
<1> DEFINE m == Misses(t, ids)
           Here(j) == {e \in m: MissRank(t, ids, e) = j}
           list == KernelTodo(t, ids, K)
<1>1. IsFiniteSet(m) /\ Cardinality(m) \in Nat /\ Cardinality(m) <= K
  BY MissesFinite
<1>2. \A e \in m: MissRank(t, ids, e) \in 0 .. (K - 1)
  <2>1. \A e \in m: MissRank(t, ids, e) \in 0 .. (Cardinality(m) - 1)
    BY <1>1, MissOrderTotal, RankGrows
  <2> QED BY <1>1, <2>1
<1>3. \A e, f \in m: MissRank(t, ids, e) = MissRank(t, ids, f) => e = f
  <2>1. ASSUME NEW e \in m, NEW f \in m, MissRank(t, ids, e) = MissRank(t, ids, f)
        PROVE  e = f
    <3>1. Rank(IdOrder(m), m, e) = Rank(IdOrder(m), m, f) /\ StrictTotalOn(IdOrder(m), m)
      BY <2>1, MissOrderTotal
    <3> QED BY <1>1, <3>1, RankInjective
  <2> QED BY <2>1
<1>4. None \notin m
  BY SizesAssumption DEF Misses, Experts, None
<1>5. list = [j \in 0 .. (K - 1) |-> IF Here(j) = {} THEN None ELSE CHOOSE e \in Here(j): TRUE]
  BY DEF KernelTodo
<1> HIDE DEF m, list
<1>6. ASSUME NEW e \in m
      PROVE  e \in Listed(list)
  <2>1. Here(MissRank(t, ids, e)) = {e}
    BY <1>3
  <2>2. list[MissRank(t, ids, e)] = e
    BY <1>2, <1>5, <2>1
  <2> QED BY <1>2, <1>4, <1>5, <2>2 DEF Listed
<1>7. ASSUME NEW e \in Listed(list)
      PROVE  e \in m
  <2>1. PICK j \in 0 .. (K - 1): e = list[j] /\ e # None
    BY <1>5 DEF Listed
  <2> QED BY <1>5, <2>1
<1> QED BY <1>6, <1>7 DEF m, list

-----------------------------------------------------------------------------
(* The specification.                                                      *)

IInv ==
    /\ TableInv(S, vram)
    /\ TableInv(R, ram)
    /\ rows \in [0 .. (R - 1) -> Experts]
    /\ path \in {"none", "decode", "acquire", "seed"}
    /\ need \subseteq Experts
    /\ reads \subseteq Experts

LEMMA Sizes ==
    /\ S \in Nat /\ R \in Nat /\ E \in Nat /\ 1 <= S /\ S <= R /\ R <= E
    /\ BlockOf(R) \in S .. SlotSpan /\ BlockOf(R) \in R .. SlotSpan
    /\ Protect \in Nat
BY SizesAssumption, KernelAssumption

\* The kernel does what the torch version does in any state a decode step
\* starts from.
LEMMA DecodeIsAcquire ==
    ASSUME IInv, vram.step <= Protect, ram.step <= Protect,
           NEW ids \in SUBSET Experts, Cardinality(ids) <= S
    PROVE  /\ KernelAcquire(vram, ids, BlockOf(R)) = Acquire(vram, ids)
           /\ KernelAcquire(ram, ids, BlockOf(R)) = Acquire(ram, ids)
           /\ Listed(KernelTodo(ram, ids, S)) = Misses(ram, ids)
           /\ Cardinality(ids) <= R
<1>1. vram \in TableType(S) /\ ram \in TableType(R) /\ TableInv(S, vram) /\ TableInv(R, ram)
  BY DEF IInv, TableInv
<1>2. Cardinality(ids) \in Nat
  BY <1>1, Sizes, MissesFinite
<1>3. Cardinality(ids) <= R
  BY <1>2, Sizes
<1>4. /\ SlotsOf(vram) = 0 .. (S - 1) /\ SlotsOf(ram) = 0 .. (R - 1)
      /\ \A i \in SlotsOf(vram): vram.last_used[i] \in Nat
      /\ \A i \in SlotsOf(ram): ram.last_used[i] \in Nat
      /\ vram.step \in Nat /\ ram.step \in Nat
  BY <1>1, Sizes, SlotsOfTable DEF TableType
<1>5. /\ \A i \in SlotsOf(vram): vram.last_used[i] < Protect
      /\ \A i \in SlotsOf(ram): ram.last_used[i] < Protect
  <2>1. /\ \A i \in SlotsOf(vram): vram.last_used[i] < vram.step
        /\ \A i \in SlotsOf(ram): ram.last_used[i] < ram.step
    BY <1>1 DEF TableInv
  <2>2. vram.step \in Nat /\ ram.step \in Nat /\ Protect \in Nat
    BY <1>4, Sizes
  <2>3. ASSUME NEW i \in SlotsOf(vram) PROVE vram.last_used[i] < Protect
    <3>1. vram.last_used[i] < vram.step /\ vram.last_used[i] \in Nat
      BY <1>4, <2>1
    <3> QED BY <2>2, <3>1
  <2>4. ASSUME NEW i \in SlotsOf(ram) PROVE ram.last_used[i] < Protect
    <3>1. ram.last_used[i] < ram.step /\ ram.last_used[i] \in Nat
      BY <1>4, <2>1
    <3> QED BY <2>2, <3>1
  <2> QED BY <2>3, <2>4
<1>6. KernelFits(S, vram, BlockOf(R)) /\ KernelFits(R, ram, BlockOf(R))
  BY <1>1, <1>5, Sizes DEF KernelFits
<1>7. KernelAcquire(vram, ids, BlockOf(R)) = Acquire(vram, ids)
  BY <1>6, Sizes, KernelIsAcquire
<1>8. KernelAcquire(ram, ids, BlockOf(R)) = Acquire(ram, ids)
  BY <1>3, <1>6, Sizes, KernelIsAcquire
<1>9. Listed(KernelTodo(ram, ids, S)) = Misses(ram, ids)
  BY <1>1, Sizes, TodoIsMisses
<1> QED BY <1>3, <1>7, <1>8, <1>9

LEMMA RowsTyped ==
    ASSUME IInv, TableInv(R, ram'), reads' \subseteq Experts, ReadRows
    PROVE  rows' \in [0 .. (R - 1) -> Experts]
BY DEF IInv, ReadRows

LEMMA InitInv == Init => IInv
<1> SUFFICES ASSUME Init PROVE IInv
  OBVIOUS
<1>1. TableInv(S, vram) /\ TableInv(R, ram)
  BY Sizes, EmptyTableInv, WarmTableInv DEF Init
<1>2. rows \in [0 .. (R - 1) -> Experts]
  BY Sizes DEF Init, Experts
<1> QED BY <1>1, <1>2 DEF Init, IInv

LEMMA DecodeInv == IInv /\ Decode => IInv'
<1> SUFFICES ASSUME IInv, Decode PROVE IInv'
  OBVIOUS
<1>1. PICK ids \in SUBSET Experts:
         /\ Cardinality(ids) <= S
         /\ vram' = KernelAcquire(vram, ids, BlockOf(R))
         /\ ram' = KernelAcquire(ram, ids, BlockOf(R))
         /\ need' = ids
         /\ reads' = Listed(KernelTodo(ram, ids, S))
  BY DEF Decode
<1>2. /\ vram' = Acquire(vram, ids) /\ ram' = Acquire(ram, ids)
      /\ reads' = Misses(ram, ids) /\ Cardinality(ids) <= R
  BY <1>1, DecodeIsAcquire DEF Decode
<1>3. TableInv(S, vram') /\ TableInv(R, ram')
  BY <1>1, <1>2, Sizes, AcquireKeeps DEF IInv
<1>4. reads' \subseteq Experts
  BY <1>2 DEF Misses
<1>5. rows' \in [0 .. (R - 1) -> Experts]
  BY <1>3, <1>4, RowsTyped DEF Decode
<1> QED BY <1>1, <1>3, <1>4, <1>5 DEF IInv, Decode

LEMMA PrefillAcquireInv == IInv /\ PrefillAcquire => IInv'
<1> SUFFICES ASSUME IInv, PrefillAcquire PROVE IInv'
  OBVIOUS
<1>1. PICK ids \in SUBSET Experts:
         Cardinality(ids) <= R /\ ram' = Acquire(ram, ids) /\ need' = ids
  BY DEF PrefillAcquire
<1>2. TableInv(S, vram') /\ TableInv(R, ram')
  BY <1>1, Sizes, AcquireKeeps DEF IInv, PrefillAcquire
<1>3. reads' \subseteq Experts
  BY DEF PrefillAcquire, SsdReads
<1>4. rows' \in [0 .. (R - 1) -> Experts]
  BY <1>2, <1>3, RowsTyped DEF PrefillAcquire
<1> QED BY <1>1, <1>2, <1>3, <1>4 DEF IInv, PrefillAcquire

LEMMA PrefillSeedInv == IInv /\ PrefillSeed => IInv'
<1> SUFFICES ASSUME IInv, PrefillSeed PROVE IInv'
  OBVIOUS
<1>1. PICK counts \in [Experts -> 0 .. MaxCount]:
         /\ ram' \in Seed(ram, vram, counts)
         /\ need' = {e \in Experts: counts[e] > 0}
  BY DEF PrefillSeed
<1>2. counts \in [Experts -> Nat]
  BY PathsAssumption
<1>3. TableInv(S, vram') /\ TableInv(R, ram')
  <2>1. PICK top, r1, ids: SeedStep(R, S, ram, counts, ram', top, r1, ids)
    BY <1>1, <1>2, Sizes, SeedSteps DEF IInv
  <2> QED BY <2>1, Sizes, SeedKeeps DEF IInv, PrefillSeed
<1>4. reads' \subseteq Experts
  BY DEF PrefillSeed, SsdReads
<1>5. rows' \in [0 .. (R - 1) -> Experts]
  BY <1>3, <1>4, RowsTyped DEF PrefillSeed
<1> QED BY <1>1, <1>3, <1>4, <1>5 DEF IInv, PrefillSeed

\* IInv is inductive.
LEMMA NextInv == IInv /\ [Next]_vars => IInv'
<1> SUFFICES ASSUME IInv, [Next]_vars PROVE IInv'
  OBVIOUS
<1>1. CASE Decode
  BY <1>1, DecodeInv
<1>2. CASE PrefillAcquire
  BY <1>2, PrefillAcquireInv
<1>3. CASE PrefillSeed
  BY <1>3, PrefillSeedInv
<1>4. CASE UNCHANGED vars
  BY <1>4 DEF vars, IInv
<1> QED BY <1>1, <1>2, <1>3, <1>4 DEF Next

LEMMA Invariance == Spec => []IInv
<1> QED BY InitInv, NextInv, PTL DEF Spec

\* The tables keep their types: no update stores a slot or an expert that does
\* not exist (table.py:87-136, :138-195).
THEOREM TablesTypeCorrect == Spec => []TypeOK
<1>1. IInv => TypeOK
  BY DEF IInv, TableInv, TypeOK
<1> QED BY <1>1, Invariance, PTL

\* Both directions of both tables stay inverse for every number of experts and
\* slots (table.py:112-128).
THEOREM TablesStayInverse == Spec => []TablesInverse
<1>1. IInv => TablesInverse
  BY DEF IInv, TableInv, TablesInverse
<1> QED BY <1>1, Invariance, PTL

\* The kernel of acquire.py does what ExpertTable.acquire does for every table
\* size whose slot numbers fit the low bits of its keys, as long as no timestamp
\* reaches the protection bit.
THEOREM KernelIsFaithful == Spec => KernelMatchesTable
<1>1. IInv /\ [Next]_vars => [path' = "decode" => /\ vram' = Acquire(vram, need')
                                                /\ ram' = Acquire(ram, need')
                                                /\ reads' = Misses(ram, need')]_vars
  <2> SUFFICES ASSUME IInv, Next, path' = "decode"
               PROVE  /\ vram' = Acquire(vram, need') /\ ram' = Acquire(ram, need')
                      /\ reads' = Misses(ram, need')
    OBVIOUS
  <2>1. Decode
    BY DEF Next, PrefillAcquire, PrefillSeed
  <2>2. PICK ids \in SUBSET Experts:
           /\ Cardinality(ids) <= S
           /\ vram' = KernelAcquire(vram, ids, BlockOf(R))
           /\ ram' = KernelAcquire(ram, ids, BlockOf(R))
           /\ need' = ids
           /\ reads' = Listed(KernelTodo(ram, ids, S))
    BY <2>1 DEF Decode
  <2> QED BY <2>1, <2>2, DecodeIsAcquire DEF Decode
<1> QED BY <1>1, Invariance, PTL DEF Spec, KernelMatchesTable

\* What a step needs has a slot after it: in both tables after a decode step, in
\* RAM after an acquiring prefill (table.py:106 "this never reaches the slots in
\* use").
THEOREM NeededGetSlots == Spec => NeededAreResident
<1>1. IInv /\ [Next]_vars => [/\ path' \in {"decode", "acquire"} => need' \subseteq Resident(ram')
                              /\ path' = "decode" => need' \subseteq Resident(vram')]_vars
  <2> SUFFICES ASSUME IInv, Next
               PROVE  /\ path' \in {"decode", "acquire"} => need' \subseteq Resident(ram')
                      /\ path' = "decode" => need' \subseteq Resident(vram')
    OBVIOUS
  <2>1. CASE Decode
    <3>1. PICK ids \in SUBSET Experts:
             /\ Cardinality(ids) <= S
             /\ vram' = KernelAcquire(vram, ids, BlockOf(R))
             /\ ram' = KernelAcquire(ram, ids, BlockOf(R))
             /\ need' = ids
             /\ reads' = Listed(KernelTodo(ram, ids, S))
      BY <2>1 DEF Decode
    <3>2. vram' = Acquire(vram, ids) /\ ram' = Acquire(ram, ids) /\ Cardinality(ids) <= R
      BY <2>1, <3>1, DecodeIsAcquire DEF Decode
    <3> QED BY <3>1, <3>2, Sizes, AcquireResident DEF IInv
  <2>2. CASE PrefillAcquire
    <3>1. PICK ids \in SUBSET Experts:
             Cardinality(ids) <= R /\ ram' = Acquire(ram, ids) /\ need' = ids
      BY <2>2 DEF PrefillAcquire
    <3>2. path' = "acquire"
      BY <2>2 DEF PrefillAcquire
    <3> QED BY <3>1, <3>2, Sizes, AcquireResident DEF IInv
  <2>3. CASE PrefillSeed
    BY <2>3 DEF PrefillSeed
  <2> QED BY <2>1, <2>2, <2>3 DEF Next
<1> QED BY <1>1, Invariance, PTL DEF Spec, NeededAreResident

-----------------------------------------------------------------------------
(* The rows of the RAM tier.                                               *)

\* The rows stay valid in a step that reads every expert which got a new slot.
LEMMA RowsFollowReads ==
    ASSUME IInv, RamRowsValid, TableInv(R, ram'), ReadRows,
           \A e \in Experts: ram'.slot_of[e] # None
                             => ram'.slot_of[e] = ram.slot_of[e] \/ e \in reads'
    PROVE  RamRowsValid'
<1>1. /\ SlotsOf(ram) = 0 .. (R - 1) /\ SlotsOf(ram') = 0 .. (R - 1)
      /\ ram'.expert_in \in [0 .. (R - 1) -> {None} \union Experts]
  BY Sizes, SlotsOfTable DEF IInv, TableInv, TableType
<1>2. ASSUME NEW i \in SlotsOf(ram'), ram'.expert_in[i] # None
      PROVE  rows'[i] = ram'.expert_in[i]
  <2> DEFINE e == ram'.expert_in[i]
  <2>1. e \in Experts /\ ram'.slot_of[e] = i /\ i # None
    <3>1. e \in Experts
      BY <1>1, <1>2
    <3>2. ram'.slot_of[e] = i
      BY <1>2 DEF TableInv, IsInverse
    <3>3. i # None
      BY <1>1, Sizes DEF None
    <3> QED BY <3>1, <3>2, <3>3
  <2>2. CASE e \in reads'
    BY <1>1, <2>2 DEF ReadRows
  <2>3. CASE e \notin reads'
    <3>1. ram.slot_of[e] = i
      BY <2>1, <2>3
    <3>2. ram.expert_in[i] = e
      BY <2>1, <3>1 DEF IInv, TableInv, IsInverse
    <3>3. rows[i] = e
      BY <1>1, <1>2, <3>2 DEF RamRowsValid
    <3> QED BY <1>1, <2>3, <3>3 DEF ReadRows
  <2> QED BY <2>2, <2>3
<1> QED BY <1>2 DEF RamRowsValid

\* A prefill that routes to at least one expert leaves no slot of the RAM tier
\* with another expert's weights: evictions, moves and the two updates of a
\* seeding prefill are all followed by the read of what changed its slot
\* (table.py:151 "a slot for them would never get its row read").
THEOREM RowsStayValid ==
    ASSUME "padding" \notin Paths
    PROVE  Spec => []RamRowsValid
<1>1. Init => RamRowsValid
  <2> SUFFICES ASSUME Init PROVE RamRowsValid
    OBVIOUS
  <2>1. ram = [EmptyTable(R) EXCEPT
                  !.slot_of = [e \in Experts |-> IF e < R THEN e ELSE None],
                  !.expert_in = [i \in 0 .. (R - 1) |-> i]]
    BY DEF Init, WarmTable
  <2>2. ram.expert_in = [i \in 0 .. (R - 1) |-> i]
    BY <2>1 DEF EmptyTable
  <2> QED BY <2>2 DEF Init, RamRowsValid, SlotsOf
<1>2. IInv /\ RamRowsValid /\ [Next]_vars => RamRowsValid'
  <2> SUFFICES ASSUME IInv, RamRowsValid, [Next]_vars PROVE RamRowsValid'
    OBVIOUS
  <2>1. IInv'
    BY NextInv
  <2>2. TableInv(R, ram) /\ TableInv(R, ram') /\ ram \in TableType(R)
    BY <2>1 DEF IInv, TableInv
  <2>3. CASE Decode
    <3>1. PICK ids \in SUBSET Experts:
             /\ Cardinality(ids) <= S
             /\ ram' = KernelAcquire(ram, ids, BlockOf(R))
             /\ reads' = Listed(KernelTodo(ram, ids, S))
      BY <2>3 DEF Decode
    <3>2. ram' = Acquire(ram, ids) /\ reads' = Misses(ram, ids) /\ Cardinality(ids) <= R
      BY <2>3, <3>1, DecodeIsAcquire DEF Decode
    <3>3. \A e \in Experts: ram'.slot_of[e] # None
                            => ram'.slot_of[e] = ram.slot_of[e] \/ e \in reads'
      BY <2>2, <3>2, Sizes, OnlyMissesGetSlots
    <3> QED BY <2>2, <2>3, <3>3, RowsFollowReads DEF Decode
  <2>4. CASE PrefillAcquire
    <3>1. PICK ids \in SUBSET Experts:
             Cardinality(ids) <= R /\ ram' = Acquire(ram, ids) /\ need' = ids
      BY <2>4 DEF PrefillAcquire
    <3>2. reads' = SsdReads(ram.slot_of, ram'.slot_of, ids)
      BY <2>4, <3>1 DEF PrefillAcquire
    <3>3. ASSUME NEW e \in Experts, ram'.slot_of[e] # None
          PROVE  ram'.slot_of[e] = ram.slot_of[e] \/ e \in reads'
      <4>1. ram'.slot_of[e] = ram.slot_of[e] \/ e \in ids
        BY <2>2, <3>1, <3>3, Sizes, OnlyMissesGetSlots DEF Misses
      <4> QED BY <3>2, <3>3, <4>1, NewSlotsAreRead
    <3> QED BY <2>2, <2>4, <3>3, RowsFollowReads DEF PrefillAcquire
  <2>5. CASE PrefillSeed
    <3>1. PICK counts \in [Experts -> 0 .. MaxCount]:
             /\ "padding" \in Paths \/ \E e \in Experts: counts[e] > 0
             /\ ram' \in Seed(ram, vram, counts)
             /\ need' = {e \in Experts: counts[e] > 0}
      BY <2>5 DEF PrefillSeed
    <3>2. counts \in [Experts -> Nat] /\ \E e \in Experts: counts[e] > 0
      BY <3>1, PathsAssumption
    <3>3. PICK top, r1, ids: SeedStep(R, S, ram, counts, ram', top, r1, ids)
      BY <3>1, <3>2, Sizes, SeedSteps DEF IInv
    <3>4. reads' = SsdReads(ram.slot_of, ram'.slot_of, need')
      BY <2>5 DEF PrefillSeed
    <3>5. ASSUME NEW e \in Experts, ram'.slot_of[e] # None
          PROVE  ram'.slot_of[e] = ram.slot_of[e] \/ e \in reads'
      <4>1. ram.slot_of[e] = None => e \in need'
        BY <2>2, <3>1, <3>2, <3>3, <3>5, Sizes, SeedPlacesNeeded
      <4> QED BY <3>4, <3>5, <4>1, NewSlotsAreRead
    <3> QED BY <2>2, <2>5, <3>5, RowsFollowReads DEF PrefillSeed
  <2>6. CASE UNCHANGED vars
    BY <2>6 DEF vars, RamRowsValid
  <2> QED BY <2>3, <2>4, <2>5, <2>6 DEF Next
<1> QED BY <1>1, <1>2, Invariance, PTL DEF Spec

-----------------------------------------------------------------------------
(* Decode alone.                                                           *)

\* The step that last used a resident expert.
Stamp(t, e) == t.last_used[t.slot_of[e]]

Full(t) == \A i \in SlotsOf(t): t.expert_in[i] # None

-----------------------------------------------------------------------------
(* One update of one table.                                                *)

\* An expert that a table holds after an update was used in it, or has kept its
\* slot and its stamp.
LEMMA AcquireStamps ==
    ASSUME NEW size \in Nat, NEW t, TableInv(size, t), NEW ids \in SUBSET Experts,
           Cardinality(ids) <= size,
           NEW e \in Resident(Acquire(t, ids))
    PROVE  /\ e \in ids => Stamp(Acquire(t, ids), e) = t.step
           /\ e \notin ids => /\ e \in Resident(t)
                              /\ Acquire(t, ids).slot_of[e] = t.slot_of[e]
                              /\ Stamp(Acquire(t, ids), e) = Stamp(t, e)
<1> DEFINE victim == [f \in Misses(t, ids) |-> Victim(t, ids, f)]
           u == Acquire(t, ids)
<1>1. t \in TableType(size) /\ TableInv(size, u) /\ u \in TableType(size)
  BY AcquireKeeps DEF TableInv
<1>2. SlotsOf(t) = 0 .. (size - 1) /\ SlotsOf(u) = 0 .. (size - 1)
  BY <1>1, SlotsOfTable
<1>3. u.last_used = [i \in SlotsOf(t) |-> IF \E f \in ids: u.slot_of[f] = i THEN t.step
                                         ELSE t.last_used[i]]
  BY DEF Acquire, Placing
<1>4. e \in Experts /\ u.slot_of[e] # None /\ u.slot_of[e] \in SlotsOf(t)
  <2>1. e \in Resident(u)
    OBVIOUS
  <2> HIDE DEF u
  <2>2. e \in Experts /\ u.slot_of[e] # None
    BY <2>1 DEF Resident
  <2>3. u.slot_of \in [Experts -> {None} \union 0 .. (size - 1)]
    BY <1>1 DEF TableType
  <2> QED BY <1>2, <2>2, <2>3
<1>5. u.slot_of[e] = t.slot_of[e] \/ e \in Misses(t, ids)
  BY <1>1, <1>4, OnlyMissesGetSlots
<1>6. \A f \in ids: u.slot_of[f] = u.slot_of[e] => f = e
  <2> SUFFICES ASSUME NEW f \in ids, u.slot_of[f] = u.slot_of[e] PROVE f = e
    OBVIOUS
  <2> HIDE DEF u
  <2> QED BY <1>1, <1>4 DEF TableInv, IsInverse
<1> HIDE DEF u
<1>7. CASE e \in ids
  BY <1>3, <1>4, <1>7 DEF Stamp, u
<1>8. CASE e \notin ids
  <2>1. u.slot_of[e] = t.slot_of[e]
    BY <1>5, <1>8 DEF Misses
  <2>2. ~ \E f \in ids: u.slot_of[f] = u.slot_of[e]
    BY <1>6, <1>8
  <2>3. u.last_used[u.slot_of[e]] = t.last_used[u.slot_of[e]]
    BY <1>3, <1>4, <2>2
  <2> QED BY <1>4, <1>8, <2>1, <2>3 DEF Stamp, Resident, u
<1> QED BY <1>7, <1>8

\* A slot before a victim is a victim.
LEMMA VictimsComeFirst ==
    ASSUME NEW size \in Nat, NEW t \in TableType(size), NEW ids \in SUBSET Experts,
           Cardinality(ids) <= size,
           NEW i \in SlotsOf(t), NEW f \in Misses(t, ids),
           VictimBefore(t, ids, i, Victim(t, ids, f))
    PROVE  \E g \in Misses(t, ids): Victim(t, ids, g) = i
<1> DEFINE m == Misses(t, ids)
           j == Victim(t, ids, f)
           T == SlotsOf(t)
           B == SlotOrder(t, ids)
<1>1. j \in T /\ SlotRank(t, ids, j) = MissRank(t, ids, f)
  BY MissRankIsSlotRank DEF Victim
<1>2. /\ StrictTotalOn(B, T) /\ IsFiniteSet(T)
      /\ SlotRank(t, ids, i) = Rank(B, T, i) /\ SlotRank(t, ids, j) = Rank(B, T, j)
  BY <1>1, SlotOrderTotal, SlotsOfTable
<1>3. <<i, j>> \in B
  BY <1>1 DEF SlotOrder
<1>4. Rank(B, T, i) < Rank(B, T, j) /\ Rank(B, T, i) \in Nat /\ Rank(B, T, j) \in Nat
  <2> HIDE DEF B, T, j
  <2>1. /\ Rank(B, T, i) \in 0 .. (Cardinality(T) - 1)
        /\ Rank(B, T, j) \in 0 .. (Cardinality(T) - 1)
        /\ Rank(B, T, i) < Rank(B, T, j)
    BY <1>1, <1>2, <1>3, RankGrows DEF T
  <2> QED BY <2>1
<1>5. MissRank(t, ids, f) \in 0 .. (Cardinality(m) - 1) /\ Cardinality(m) \in Nat
  BY MissOrderTotal, MissesFinite, RankGrows
<1>6. SlotRank(t, ids, i) \in 0 .. (Cardinality(m) - 1)
  <2> HIDE DEF m, B, T, j
  <2> QED BY <1>1, <1>2, <1>4, <1>5
<1>7. PICK g \in m: MissRank(t, ids, g) = SlotRank(t, ids, i)
  <2>1. StrictTotalOn(IdOrder(m), m) /\ IsFiniteSet(m)
    BY MissOrderTotal, MissesFinite
  <2>2. \E g \in m: Rank(IdOrder(m), m, g) = SlotRank(t, ids, i)
    <3> HIDE DEF m
    <3> QED BY <1>6, <2>1, RankOnto
  <2> QED BY <2>2, MissOrderTotal
<1>8. /\ Victim(t, ids, g) \in T
      /\ SlotRank(t, ids, Victim(t, ids, g)) = MissRank(t, ids, g)
  BY MissRankIsSlotRank DEF Victim
<1>9. Victim(t, ids, g) = i
  BY <1>7, <1>8, SlotRankInjective
<1> QED BY <1>9

\* An expert that loses its slot was last used no later than any expert that
\* keeps its slot unused.
LEMMA EvictedOldest ==
    ASSUME NEW size \in Nat, NEW t, TableInv(size, t), NEW ids \in SUBSET Experts,
           Cardinality(ids) <= size,
           NEW e \in Resident(t), e \notin Resident(Acquire(t, ids)),
           NEW f \in Resident(Acquire(t, ids)), f \notin ids
    PROVE  Stamp(t, e) <= Stamp(t, f)
<1> DEFINE victim == [g \in Misses(t, ids) |-> Victim(t, ids, g)]
           gone == Evicted(t, {victim[g]: g \in Misses(t, ids)})
           u == Acquire(t, ids)
           i == t.slot_of[e]
           j == t.slot_of[f]
<1>1. t \in TableType(size) /\ Places(t, ids, victim) /\ SlotsOf(t) = 0 .. (size - 1)
  BY AcquirePlaces, SlotsOfTable DEF TableInv
<1>2. \A g \in Experts \ Misses(t, ids): u.slot_of[g] = IF g \in gone THEN None ELSE t.slot_of[g]
  BY <1>1, PlacingFields DEF Acquire
<1>3. e \notin ids
  BY AcquireResident
<1>4. f \in Resident(t) /\ u.slot_of[f] = j
  BY AcquireStamps
<1> HIDE DEF u, gone
<1>5. e \in Experts /\ f \in Experts /\ t.slot_of[e] # None /\ u.slot_of[e] = None
  BY <1>4 DEF Resident, u
<1>6. e \in gone /\ f \notin gone
  BY <1>2, <1>3, <1>4, <1>5 DEF Misses, Resident
<1>7. PICK g \in Misses(t, ids): t.expert_in[Victim(t, ids, g)] = e
  BY <1>6 DEF gone, Evicted
<1>8. /\ i \in SlotsOf(t) /\ j \in SlotsOf(t)
      /\ t.expert_in[i] = e /\ t.expert_in[j] = f
      /\ t.last_used[i] \in Nat /\ t.last_used[j] \in Nat /\ i \in Nat /\ j \in Nat
  BY <1>1, <1>4, <1>5 DEF TableType, TableInv, IsInverse, Resident
<1>9. Victim(t, ids, g) = i
  <2>1. Victim(t, ids, g) \in SlotsOf(t)
    BY <1>1 DEF Places
  <2>2. t.expert_in[Victim(t, ids, g)] # None
    BY <1>5, <1>7, SizesAssumption DEF Experts, None
  <2> QED BY <1>7, <2>1, <2>2 DEF TableInv, IsInverse
<1>10. ~ VictimBefore(t, ids, j, i)
  <2> SUFFICES ASSUME VictimBefore(t, ids, j, i) PROVE FALSE
    OBVIOUS
  <2>1. PICK h \in Misses(t, ids): Victim(t, ids, h) = j
    <3>1. VictimBefore(t, ids, j, Victim(t, ids, g))
      BY <1>9
    <3>2. j \in SlotsOf(t) /\ t \in TableType(size)
      BY <1>1, <1>8
    <3> HIDE DEF i, j
    <3> QED BY <3>1, <3>2, VictimsComeFirst
  <2>2. f # None
    BY <1>5, SizesAssumption DEF Experts, None
  <2>3. f \in gone
    BY <1>8, <2>1, <2>2 DEF gone, Evicted
  <2> QED BY <1>6, <2>3
<1>11. i \notin SlotUsed(t, ids) /\ j \notin SlotUsed(t, ids)
  BY <1>3, <1>8 DEF SlotUsed
<1>12. ~ (t.last_used[j] < t.last_used[i])
  BY <1>10, <1>11 DEF VictimBefore
<1> QED BY <1>8, <1>12 DEF Stamp

\* An update empties no slot.
LEMMA FullStays ==
    ASSUME NEW size \in Nat, NEW t, TableInv(size, t), NEW ids \in SUBSET Experts,
           Cardinality(ids) <= size, Full(t)
    PROVE  Full(Acquire(t, ids))
<1> DEFINE victim == [g \in Misses(t, ids) |-> Victim(t, ids, g)]
           u == Acquire(t, ids)
           m == Misses(t, ids)
<1>1. Places(t, ids, victim) /\ t \in TableType(size)
  BY AcquirePlaces DEF TableInv
<1>2. /\ SlotsOf(u) = SlotsOf(t)
      /\ \A e \in m: u.expert_in[victim[e]] = e
      /\ \A i \in SlotsOf(t): (\A e \in m: victim[e] # i) => u.expert_in[i] = t.expert_in[i]
  BY <1>1, PlacingFields DEF Acquire
<1>3. \A e \in m: e # None
  BY SizesAssumption DEF Misses, Experts, None
<1> HIDE DEF u, m, victim
<1> QED BY <1>2, <1>3 DEF Full, u

\* A table holds no more experts than it has slots, and as many when it is full.
LEMMA ResidentSize ==
    ASSUME NEW size \in Nat, NEW t, TableInv(size, t)
    PROVE  /\ IsFiniteSet(Resident(t)) /\ Cardinality(Resident(t)) \in Nat
           /\ Cardinality(Resident(t)) <= size
           /\ Full(t) => Cardinality(Resident(t)) = size
<1> DEFINE F == [e \in Resident(t) |-> t.slot_of[e]]
           T == SlotsOf(t)
<1>1. t \in TableType(size) /\ T = 0 .. (size - 1) /\ IsFiniteSet(T) /\ Cardinality(T) = size
  BY SlotsOfTable DEF TableInv
<1>2. F \in [Resident(t) -> T]
  BY <1>1 DEF Resident, TableType
<1>3. \A e, f \in Resident(t): F[e] = F[f] => e = f
  BY DEF TableInv, IsInverse, Resident
<1>4. F \in Injection(Resident(t), T)
  BY <1>2, <1>3, Fun_IsInj
<1>5. IsFiniteSet(Resident(t)) /\ Cardinality(Resident(t)) <= size
  BY <1>1, <1>4, FS_Injection
<1>6. ASSUME Full(t) PROVE Cardinality(Resident(t)) = size
  <2>1. \A i \in T: \E e \in Resident(t): F[e] = i
    <3> SUFFICES ASSUME NEW i \in T PROVE \E e \in Resident(t): F[e] = i
      OBVIOUS
    <3> DEFINE e == t.expert_in[i]
    <3>1. e \in Experts /\ t.slot_of[e] = i /\ i # None
      BY <1>1, <1>6 DEF Full, TableInv, IsInverse, TableType, None
    <3>2. e \in Resident(t)
      BY <3>1 DEF Resident
    <3> QED BY <3>1, <3>2
  <2>2. F \in Surjection(Resident(t), T)
    BY <1>2, <2>1, Fun_IsSurj
  <2> QED BY <1>1, <1>4, <2>2, FS_Injection
<1> QED BY <1>5, <1>6, FS_CardinalityType

\* A stamp is a step of the past.
LEMMA StampRange ==
    ASSUME NEW size \in Nat, NEW t, TableInv(size, t), NEW e \in Resident(t)
    PROVE  Stamp(t, e) \in Nat /\ Stamp(t, e) < t.step /\ t.step \in Nat /\ t.step > 0
<1>1. t \in TableType(size) /\ SlotsOf(t) = 0 .. (size - 1)
  BY SlotsOfTable DEF TableInv
<1>2. t.slot_of[e] \in SlotsOf(t)
  BY <1>1 DEF Resident, TableType
<1>3. t.last_used[t.slot_of[e]] \in Nat /\ t.last_used[t.slot_of[e]] < t.step
  BY <1>1, <1>2 DEF TableType, TableInv
<1> QED BY <1>1, <1>3 DEF Stamp, TableType

-----------------------------------------------------------------------------
(* An update is a use of the LRU cache.                                    *)

\* Empty slots are older than occupied ones.
EmptyOldest(t) ==
    \A i, j \in SlotsOf(t): t.expert_in[i] = None /\ t.expert_in[j] # None
                            => t.last_used[i] < t.last_used[j]

\* What an update does to the slots: one it leaves empty was empty and keeps its
\* stamp; one it leaves occupied is stamped now, or was occupied and keeps its stamp.
LEMMA SlotsAfter ==
    ASSUME NEW size \in Nat, NEW t, TableInv(size, t), NEW ids \in SUBSET Experts,
           Cardinality(ids) <= size, NEW i \in SlotsOf(t)
    PROVE  LET u == Acquire(t, ids)
           IN  /\ u.expert_in[i] = None
                     => t.expert_in[i] = None /\ u.last_used[i] = t.last_used[i]
               /\ u.expert_in[i] # None
                     => \/ u.last_used[i] = t.step
                        \/ t.expert_in[i] # None /\ u.last_used[i] = t.last_used[i]
<1> DEFINE m == Misses(t, ids)
           victim == [g \in m |-> Victim(t, ids, g)]
           u == Acquire(t, ids)
<1>1. Places(t, ids, victim) /\ t \in TableType(size)
  BY AcquirePlaces DEF TableInv
<1>2. /\ \A e \in m: u.slot_of[e] = victim[e] /\ u.expert_in[victim[e]] = e
      /\ \A j \in SlotsOf(t): (\A e \in m: victim[e] # j) => u.expert_in[j] = t.expert_in[j]
  BY <1>1, PlacingFields DEF Acquire
<1>3. u.last_used = [j \in SlotsOf(t) |-> IF \E f \in ids: u.slot_of[f] = j THEN t.step
                                         ELSE t.last_used[j]]
  BY DEF Acquire, Placing
<1>4. TableInv(size, u) /\ SlotsOf(u) = SlotsOf(t) /\ SlotsOf(t) = 0 .. (size - 1)
  BY <1>1, AcquireKeeps, SlotsOfTable DEF TableInv
<1>5. \A e \in Experts: e # None
  BY SizesAssumption DEF Experts, None
<1>6. m \subseteq ids /\ m \subseteq Experts
  BY DEF Misses
<1>7. i # None
  BY <1>4 DEF None
<1> HIDE DEF u, victim, m
<1>8. CASE \E f \in ids: u.slot_of[f] = i
  <2>1. PICK f \in ids: u.slot_of[f] = i
    BY <1>8
  <2>2. u.expert_in[i] = f
    BY <1>4, <1>7, <2>1 DEF TableInv, IsInverse
  <2>3. u.last_used[i] = t.step
    BY <1>3, <1>8
  <2> QED BY <1>5, <2>2, <2>3 DEF u
<1>9. CASE ~ \E f \in ids: u.slot_of[f] = i
  <2>1. u.last_used[i] = t.last_used[i]
    BY <1>3, <1>9
  <2>2. \A e \in m: victim[e] # i
    BY <1>2, <1>6, <1>9
  <2>3. u.expert_in[i] = t.expert_in[i]
    BY <1>2, <2>2
  <2> QED BY <2>1, <2>3 DEF u
<1> QED BY <1>8, <1>9

LEMMA EmptyOldestStays ==
    ASSUME NEW size \in Nat, NEW t, TableInv(size, t), NEW ids \in SUBSET Experts,
           Cardinality(ids) <= size, EmptyOldest(t)
    PROVE  EmptyOldest(Acquire(t, ids))
<1> DEFINE u == Acquire(t, ids)
<1>1. SlotsOf(u) = SlotsOf(t)
  BY AcquireKeeps, SlotsOfTable DEF TableInv
<1> SUFFICES ASSUME NEW i \in SlotsOf(t), NEW j \in SlotsOf(t),
                    u.expert_in[i] = None, u.expert_in[j] # None
             PROVE  u.last_used[i] < u.last_used[j]
  BY <1>1 DEF EmptyOldest
<1>2. t.expert_in[i] = None /\ u.last_used[i] = t.last_used[i]
  BY SlotsAfter
<1>3. \/ u.last_used[j] = t.step
      \/ t.expert_in[j] # None /\ u.last_used[j] = t.last_used[j]
  BY SlotsAfter
<1> HIDE DEF u
<1> QED BY <1>2, <1>3 DEF EmptyOldest, TableInv

\* An expert is pushed out only when no slot is empty afterwards.
LEMMA EvictsWhenFull ==
    ASSUME NEW size \in Nat, NEW t, TableInv(size, t), NEW ids \in SUBSET Experts,
           Cardinality(ids) <= size, EmptyOldest(t),
           NEW e \in Resident(t), e \notin Resident(Acquire(t, ids))
    PROVE  Full(Acquire(t, ids))
<1> DEFINE m == Misses(t, ids)
           victim == [g \in m |-> Victim(t, ids, g)]
           gone == Evicted(t, {victim[g]: g \in m})
           u == Acquire(t, ids)
           i == t.slot_of[e]
<1>1. t \in TableType(size) /\ Places(t, ids, victim) /\ SlotsOf(t) = 0 .. (size - 1)
  BY AcquirePlaces, SlotsOfTable DEF TableInv
<1>2. /\ SlotsOf(u) = SlotsOf(t)
      /\ \A g \in m: u.expert_in[victim[g]] = g
      /\ \A g \in Experts \ m: u.slot_of[g] = IF g \in gone THEN None ELSE t.slot_of[g]
  BY <1>1, PlacingFields DEF Acquire
<1>3. e \notin ids
  BY AcquireResident
<1>4. e \in Experts /\ t.slot_of[e] # None
  BY DEF Resident
<1>5. u.slot_of[e] = None
  BY <1>4 DEF Resident
<1> HIDE DEF u, gone
<1>6. e \in gone
  BY <1>2, <1>3, <1>4, <1>5 DEF Misses
<1>7. PICK g \in m: t.expert_in[Victim(t, ids, g)] = e
  BY <1>6 DEF gone, Evicted
<1>8. i \in SlotsOf(t) /\ t.expert_in[i] = e /\ e # None
  BY <1>1, <1>4, SizesAssumption DEF TableType, TableInv, IsInverse, Experts, None
<1>9. Victim(t, ids, g) = i
  <2>1. Victim(t, ids, g) \in SlotsOf(t)
    BY <1>1 DEF Places
  <2> QED BY <1>7, <1>8, <2>1 DEF TableInv, IsInverse
<1>10. SUFFICES ASSUME NEW j \in SlotsOf(t), u.expert_in[j] = None PROVE FALSE
  BY <1>2 DEF Full, u
<1>11. t.expert_in[j] = None
  BY <1>10, SlotsAfter DEF u
<1>12. i \notin SlotUsed(t, ids) /\ j \notin SlotUsed(t, ids)
  BY <1>3, <1>8, <1>11, SizesAssumption DEF SlotUsed, Experts, None
<1>13. t.last_used[j] < t.last_used[i]
  BY <1>8, <1>11 DEF EmptyOldest
<1>14. VictimBefore(t, ids, j, Victim(t, ids, g))
  BY <1>9, <1>12, <1>13 DEF VictimBefore
<1>15. PICK h \in m: Victim(t, ids, h) = j
  <2> HIDE DEF i
  <2> QED BY <1>1, <1>14, VictimsComeFirst
<1>16. h # None /\ u.expert_in[j] = h
  <2>1. h \in Experts
    BY DEF Misses
  <2>2. victim[h] = j
    BY <1>15
  <2>3. u.expert_in[victim[h]] = h
    BY <1>2
  <2> QED BY <2>1, <2>2, <2>3, SizesAssumption DEF Experts, None
<1> QED BY <1>10, <1>16

\* The four conditions of a use, and what it makes of the order.
LEMMA AcquireIsUse ==
    ASSUME NEW size \in Nat, NEW t, TableInv(size, t), NEW ids \in SUBSET Experts,
           Cardinality(ids) <= size, EmptyOldest(t)
    PROVE  LET u == Acquire(t, ids)
               evicted == Resident(t) \ Resident(u)
               stay == (Resident(t) \ evicted) \ ids
           IN  /\ evicted \subseteq Resident(t) \ ids
               /\ size - Cardinality((Resident(t) \ evicted) \union ids) >= 0
               /\ evicted # {} => size - Cardinality((Resident(t) \ evicted) \union ids) = 0
               /\ \A a \in stay, b \in evicted: <<a, b>> \notin OlderIn(t)
               /\ Resident(u) = (Resident(t) \ evicted) \union ids
               /\ OlderIn(u) = {q \in OlderIn(t): q[1] \in stay /\ q[2] \in stay}
                               \union (stay \X ids)
<1> DEFINE u == Acquire(t, ids)
           evicted == Resident(t) \ Resident(u)
           stay == (Resident(t) \ evicted) \ ids
<1>1. ids \subseteq Resident(u) /\ TableInv(size, u)
  BY AcquireResident, AcquireKeeps
<1>2. \A e \in Resident(u):
         /\ e \in ids => Stamp(u, e) = t.step
         /\ e \notin ids => e \in Resident(t) /\ Stamp(u, e) = Stamp(t, e)
  BY AcquireStamps
<1>3. evicted \subseteq Resident(t) \ ids
  BY <1>1
<1>4. Resident(u) = (Resident(t) \ evicted) \union ids /\ stay = Resident(u) \ ids
  BY <1>1, <1>2
<1>5. /\ Cardinality(Resident(u)) \in Nat /\ Cardinality(Resident(u)) <= size
      /\ Full(u) => Cardinality(Resident(u)) = size
  BY <1>1, ResidentSize
<1>6. evicted # {} => Full(u)
  BY EvictsWhenFull
<1>7. \A a \in stay, b \in evicted: Stamp(t, b) <= Stamp(t, a)
  BY <1>4, EvictedOldest
<1>8. \A e \in Resident(t): Stamp(t, e) \in Nat /\ Stamp(t, e) < t.step
  BY StampRange
<1>9. t.step \in Nat
  BY DEF TableInv, TableType
<1> HIDE DEF u
<1>10. \A a \in stay, b \in evicted: <<a, b>> \notin OlderIn(t)
  <2> SUFFICES ASSUME NEW a \in stay, NEW b \in evicted, <<a, b>> \in OlderIn(t) PROVE FALSE
    OBVIOUS
  <2>1. Stamp(t, a) < Stamp(t, b)
    BY DEF OlderIn, Stamp
  <2>2. Stamp(t, b) <= Stamp(t, a) /\ Stamp(t, a) \in Nat /\ Stamp(t, b) \in Nat
    BY <1>4, <1>7, <1>8
  <2> QED BY <2>1, <2>2
<1>11. OlderIn(u) = {q \in OlderIn(t): q[1] \in stay /\ q[2] \in stay} \union (stay \X ids)
  <2>1. ASSUME NEW a \in Resident(u), NEW b \in Resident(u)
        PROVE  Stamp(u, a) < Stamp(u, b)
               <=> \/ a \in stay /\ b \in stay /\ Stamp(t, a) < Stamp(t, b)
                   \/ a \in stay /\ b \in ids
    <3>1. CASE a \in ids
      <4>1. Stamp(u, a) = t.step /\ a \notin stay
        BY <1>2, <1>4, <2>1, <3>1
      <4>2. Stamp(u, b) \in Nat /\ Stamp(u, b) <= t.step
        BY <1>2, <1>8, <1>9, <2>1
      <4> QED BY <1>9, <4>1, <4>2
    <3>2. CASE a \notin ids
      <4>1. a \in stay /\ Stamp(u, a) = Stamp(t, a) /\ Stamp(t, a) < t.step
        BY <1>2, <1>4, <1>8, <2>1, <3>2
      <4>2. b \in ids => Stamp(u, b) = t.step
        BY <1>2, <2>1
      <4>3. b \notin ids => b \in stay /\ Stamp(u, b) = Stamp(t, b)
        BY <1>2, <1>4, <2>1
      <4> HIDE DEF stay
      <4> QED BY <4>1, <4>2, <4>3
    <3> QED BY <3>1, <3>2
  <2>2. \A q: q \in OlderIn(u) <=> /\ q \in Resident(u) \X Resident(u)
                                   /\ Stamp(u, q[1]) < Stamp(u, q[2])
    BY DEF OlderIn, Stamp
  <2>3. \A q: q \in OlderIn(t) <=> /\ q \in Resident(t) \X Resident(t)
                                   /\ Stamp(t, q[1]) < Stamp(t, q[2])
    BY DEF OlderIn, Stamp
  <2>4. stay \subseteq Resident(u) /\ stay \subseteq Resident(t) /\ ids \subseteq Resident(u)
    BY <1>1, <1>4
  <2> HIDE DEF stay
  <2>5. ASSUME NEW q \in OlderIn(u)
        PROVE  q \in {p \in OlderIn(t): p[1] \in stay /\ p[2] \in stay} \union (stay \X ids)
    <3>1. PICK a \in Resident(u), b \in Resident(u): q = <<a, b>>
      BY <2>2, <2>5
    <3>2. Stamp(u, a) < Stamp(u, b)
      BY <2>2, <2>5, <3>1
    <3> QED BY <2>1, <2>3, <2>4, <3>1, <3>2
  <2>6. ASSUME NEW q \in {p \in OlderIn(t): p[1] \in stay /\ p[2] \in stay} \union (stay \X ids)
        PROVE  q \in OlderIn(u)
    <3>1. CASE q \in stay \X ids
      <4>1. PICK a \in stay, b \in ids: q = <<a, b>>
        BY <3>1
      <4> QED BY <2>1, <2>2, <2>4, <4>1
    <3>2. CASE q \in OlderIn(t) /\ q[1] \in stay /\ q[2] \in stay
      <4>1. q = <<q[1], q[2]>> /\ Stamp(t, q[1]) < Stamp(t, q[2])
        BY <2>3, <3>2
      <4> QED BY <2>1, <2>2, <2>4, <3>2, <4>1
    <3> QED BY <2>6, <3>1, <3>2
  <2> QED BY <2>5, <2>6
<1>12. size - Cardinality((Resident(t) \ evicted) \union ids) >= 0
  BY <1>4, <1>5
<1>13. evicted # {} => size - Cardinality((Resident(t) \ evicted) \union ids) = 0
  BY <1>4, <1>5, <1>6
<1> HIDE DEF stay, evicted
<1> QED BY <1>3, <1>4, <1>10, <1>11, <1>12, <1>13 DEF u, stay, evicted

-----------------------------------------------------------------------------
(* The refinement.                                                         *)

\* What a behaviour keeps: the invariant of the tables, and the age of empty slots
\* as long as there is no prefill.
LruInv == IInv /\ (only = "decode" => EmptyOldest(vram) /\ EmptyOldest(ram))

LEMMA LruInit == Init => EmptyOldest(vram) /\ EmptyOldest(ram)
<1> SUFFICES ASSUME Init PROVE EmptyOldest(vram) /\ EmptyOldest(ram)
  OBVIOUS
<1>1. /\ vram.expert_in = [i \in 0 .. (S - 1) |-> None]
      /\ ram.expert_in = [i \in 0 .. (R - 1) |-> i]
  BY DEF Init, EmptyTable, WarmTable
<1> QED BY <1>1, Sizes DEF EmptyOldest, SlotsOf, None

\* What a decode step does, in terms of the tables' own update.
LEMMA DecodeUpdates ==
    ASSUME IInv, Decode
    PROVE  \E ids \in SUBSET Experts:
              /\ Cardinality(ids) <= S /\ Cardinality(ids) <= R
              /\ vram' = Acquire(vram, ids) /\ ram' = Acquire(ram, ids)
<1>1. PICK ids \in SUBSET Experts:
         /\ Cardinality(ids) <= S
         /\ vram' = KernelAcquire(vram, ids, BlockOf(R))
         /\ ram' = KernelAcquire(ram, ids, BlockOf(R))
  BY DEF Decode
<1>2. vram' = Acquire(vram, ids) /\ ram' = Acquire(ram, ids) /\ Cardinality(ids) <= R
  BY <1>1, DecodeIsAcquire DEF Decode
<1> QED BY <1>1, <1>2

LEMMA LruInvKept == LruInv /\ [MCNext]_<<vars, only>> => LruInv'
<1> SUFFICES ASSUME LruInv, [MCNext]_<<vars, only>> PROVE LruInv'
  OBVIOUS
<1>1. IInv'
  BY NextInv DEF LruInv, MCNext, Next
<1>2. CASE Decode /\ UNCHANGED only
  <2>1. PICK ids \in SUBSET Experts:
           /\ Cardinality(ids) <= S /\ Cardinality(ids) <= R
           /\ vram' = Acquire(vram, ids) /\ ram' = Acquire(ram, ids)
    BY <1>2, DecodeUpdates DEF LruInv
  <2>2. ASSUME only = "decode" PROVE EmptyOldest(vram') /\ EmptyOldest(ram')
    BY <2>1, <2>2, Sizes, EmptyOldestStays DEF LruInv, IInv
  <2> QED BY <1>1, <1>2, <2>2 DEF LruInv
<1>3. CASE only = "any" /\ UNCHANGED only
  BY <1>1, <1>3 DEF LruInv
<1>4. CASE UNCHANGED <<vars, only>>
  BY <1>1, <1>4 DEF LruInv, vars
<1> QED BY <1>2, <1>3, <1>4 DEF MCNext

\* The instances of the abstract cache count as the tables do.
LEMMA SameCount ==
    ASSUME NEW X
    PROVE  Vram!Cardinality(X) = Cardinality(X) /\ Ram!Cardinality(X) = Cardinality(X)
<1>1. Vram!Cardinality(X) = Cardinality(X)
  BY DEF Vram!Cardinality, Cardinality
<1>2. Ram!Cardinality(X) = Cardinality(X)
  BY DEF Ram!Cardinality, Cardinality
<1> QED BY <1>1, <1>2

\* Under decode alone either table is a cache with LRU replacement: what a step
\* evicts makes room and no more, and nothing that stays unused was used before it
\* (table.py:20 "Replacement is LRU"; README.md "the least recently used").
THEOREM DecodeIsLru == MCSpec => TablesAreLru
<1>1. MCInit => LruInv
  BY InitInv, LruInit DEF MCInit, LruInv
<1>2. MCInit => Vram!Init
  <2> SUFFICES ASSUME MCInit PROVE Vram!Init
    OBVIOUS
  <2>1. Resident(vram) = {}
    BY DEF MCInit, Init, EmptyTable, Resident
  <2>2. OlderIn(vram) = {}
    BY <2>1 DEF OlderIn
  <2>3. Cardinality({}) = 0 /\ S >= 0
    BY Sizes, FS_EmptySet
  <2> QED BY <2>1, <2>2, <2>3, SameCount DEF Vram!Init
<1>3. LruInv /\ [MCNext]_<<vars, only>>
      => [only = "decode" => /\ Vram!Next \/ UNCHANGED <<vram.slot_of, vram.last_used>>
                             /\ Ram!Next \/ UNCHANGED <<ram.slot_of, ram.last_used>>
         ]_<<vars, only>>
  <2> SUFFICES ASSUME LruInv, MCNext, only = "decode" PROVE Vram!Next /\ Ram!Next
    OBVIOUS
  <2>1. PICK ids \in SUBSET Experts:
           /\ Cardinality(ids) <= S /\ Cardinality(ids) <= R
           /\ vram' = Acquire(vram, ids) /\ ram' = Acquire(ram, ids)
    BY DecodeUpdates DEF LruInv, MCNext
  <2>2. Vram!Next
    <3>1. /\ TableInv(S, vram) /\ EmptyOldest(vram) /\ S \in Nat
          /\ Cardinality(ids) <= S /\ vram' = Acquire(vram, ids)
      BY <2>1, Sizes DEF LruInv, IInv
    <3>2. Vram!Use(ids, Resident(vram) \ Resident(vram'))
      BY <2>1, <3>1, AcquireIsUse, SameCount DEF Vram!Use, Vram!Room
    <3> QED BY <3>2 DEF Vram!Next
  <2>3. Ram!Next
    <3>1. /\ TableInv(R, ram) /\ EmptyOldest(ram) /\ R \in Nat
          /\ Cardinality(ids) <= R /\ ram' = Acquire(ram, ids)
      BY <2>1, Sizes DEF LruInv, IInv
    <3>2. Ram!Use(ids, Resident(ram) \ Resident(ram'))
      BY <2>1, <3>1, AcquireIsUse, SameCount DEF Ram!Use, Ram!Room
    <3> QED BY <3>2 DEF Ram!Next
  <2> QED BY <2>2, <2>3
<1> QED BY <1>1, <1>2, <1>3, LruInvKept, PTL DEF MCSpec, TablesAreLru

-----------------------------------------------------------------------------
(* Inclusion.  Suppose RAM evicts an expert e that VRAM keeps.  Every      *)
(* expert in RAM is used now or was used no earlier than e.  At most S     *)
(* experts were used in the step that last used e, so S or more were used  *)
(* after it; VRAM, which keeps e, keeps all of these, and has no slot left *)
(* for e.                                                                  *)

\* The experts last used in the same step as e.
Batch(t, e) == {f \in Resident(t): Stamp(t, f) = Stamp(t, e)}

SameStamps(v, r) ==
    \A e \in Resident(v): Stamp(v, e) = Stamp(r, e) /\ Stamp(r, e) > 0

\* VRAM keeps what was used after one of its experts.
KeepsNewer(v, r) ==
    \A e \in Resident(v), f \in Resident(r): Stamp(r, e) < Stamp(r, f) => f \in Resident(v)

SmallBatches(r) ==
    \A e \in Resident(r): Stamp(r, e) > 0 => Cardinality(Batch(r, e)) <= S

Included(v, r) ==
    /\ v.step = r.step
    /\ Full(r)
    /\ Resident(v) \subseteq Resident(r)
    /\ SameStamps(v, r) /\ KeepsNewer(v, r) /\ SmallBatches(r)

\* The inductive invariant of decode.
Inclusion == Included(vram, ram)

-----------------------------------------------------------------------------
(* One decode step of both tables.                                         *)

\* A decode step: both tables take the same experts.
DecodeStep(v, r, ids) ==
    /\ TableInv(S, v) /\ TableInv(R, r) /\ Included(v, r)
    /\ ids \in SUBSET Experts
    /\ Cardinality(ids) <= S /\ Cardinality(ids) <= R

\* An expert that VRAM held before a step and loses in it was last used no later
\* than any that VRAM keeps unused.
LEMMA NewerStays ==
    ASSUME NEW v, NEW r, NEW ids, DecodeStep(v, r, ids),
           NEW e \in Resident(Acquire(v, ids)), e \notin ids,
           NEW f \in Resident(r), Stamp(r, e) < Stamp(r, f)
    PROVE  f \in Resident(Acquire(v, ids))
<1>1. /\ S \in Nat /\ TableInv(S, v) /\ TableInv(R, r) /\ R \in Nat
      /\ ids \in SUBSET Experts /\ Cardinality(ids) <= S
  BY Sizes DEF DecodeStep
<1>2. e \in Resident(v)
  BY <1>1, AcquireStamps
<1>3. f \in Resident(v)
  BY <1>2 DEF DecodeStep, Included, KeepsNewer
<1>4. Stamp(v, e) = Stamp(r, e) /\ Stamp(v, f) = Stamp(r, f)
  BY <1>2, <1>3 DEF DecodeStep, Included, SameStamps
<1>5. Stamp(v, e) \in Nat /\ Stamp(v, f) \in Nat
  BY <1>1, <1>2, <1>3, StampRange
<1>6. SUFFICES ASSUME f \notin Resident(Acquire(v, ids)) PROVE FALSE
  OBVIOUS
<1>7. Stamp(v, f) <= Stamp(v, e)
  BY <1>1, <1>3, <1>6, EvictedOldest
<1> QED BY <1>4, <1>5, <1>7

\* The counting argument: RAM keeps what VRAM keeps.
LEMMA StaysIncluded ==
    ASSUME R >= 2 * S - 1, NEW v, NEW r, NEW ids, DecodeStep(v, r, ids)
    PROVE  Resident(Acquire(v, ids)) \subseteq Resident(Acquire(r, ids))
<1> DEFINE AV == Resident(Acquire(v, ids))
           AR == Resident(Acquire(r, ids))
<1>1. /\ S \in Nat /\ R \in Nat /\ 1 <= S
      /\ TableInv(S, v) /\ TableInv(R, r) /\ Full(r)
      /\ ids \in SUBSET Experts /\ Cardinality(ids) <= S /\ Cardinality(ids) <= R
  BY Sizes, SizesAssumption DEF DecodeStep, Included
<1>2. ids \subseteq AV /\ ids \subseteq AR
  BY <1>1, AcquireResident
<1>3. /\ IsFiniteSet(AV) /\ Cardinality(AV) \in Nat /\ Cardinality(AV) <= S
      /\ IsFiniteSet(AR) /\ Cardinality(AR) = R
  BY <1>1, AcquireKeeps, FullStays, ResidentSize
<1> SUFFICES ASSUME NEW e \in AV, e \notin AR PROVE FALSE
  OBVIOUS
<1>4. e \notin ids
  BY <1>2
<1>5. e \in Resident(v) /\ e \in Resident(r)
  BY <1>1, <1>4, AcquireStamps DEF DecodeStep, Included
<1>6. Stamp(r, e) > 0 /\ Stamp(r, e) \in Nat
  BY <1>1, <1>5, StampRange DEF DecodeStep, Included, SameStamps
<1> DEFINE B == Batch(r, e)
           C == AR \ (B \ {e})
<1>7. e \in B /\ IsFiniteSet(B) /\ Cardinality(B) \in Nat /\ Cardinality(B) <= S
  <2>1. Cardinality(B) <= S
    BY <1>5, <1>6 DEF DecodeStep, Included, SmallBatches
  <2>2. IsFiniteSet(Resident(r))
    BY <1>1, ResidentSize
  <2>3. B \subseteq Resident(r) /\ e \in B
    BY <1>5 DEF Batch
  <2>4. IsFiniteSet(B)
    BY <2>2, <2>3, FS_Subset
  <2> QED BY <2>1, <2>3, <2>4, FS_CardinalityType
<1>8. C \subseteq AV
  <2> SUFFICES ASSUME NEW f \in C, f \notin ids PROVE f \in AV
    BY <1>2
  <2>1. f \in AR /\ f # e
    OBVIOUS
  <2>2. f \in Resident(r)
    BY <1>1, <2>1, AcquireStamps
  <2>3. Stamp(r, e) <= Stamp(r, f)
    BY <1>1, <1>5, <2>1, EvictedOldest
  <2>4. Stamp(r, f) # Stamp(r, e)
    BY <2>1, <2>2 DEF Batch
  <2>5. Stamp(r, f) \in Nat
    BY <1>1, <2>2, StampRange
  <2>6. Stamp(r, e) < Stamp(r, f)
    BY <1>6, <2>3, <2>4, <2>5
  <2> QED BY <1>4, <2>2, <2>6, NewerStays
<1> HIDE DEF B, AV, AR
<1>9. IsFiniteSet(B \ {e}) /\ Cardinality(B \ {e}) = Cardinality(B) - 1
  BY <1>7, FS_RemoveElement
<1>10. /\ IsFiniteSet(C) /\ Cardinality(C) \in Nat
       /\ Cardinality(C) = R - Cardinality(AR \intersect (B \ {e}))
  BY <1>3, FS_Difference, FS_CardinalityType
<1>11. /\ Cardinality(AR \intersect (B \ {e})) <= Cardinality(B \ {e})
       /\ Cardinality(AR \intersect (B \ {e})) \in Nat
  <2>1. AR \intersect (B \ {e}) \subseteq B \ {e}
    OBVIOUS
  <2> QED BY <1>9, <2>1, FS_Subset, FS_CardinalityType
<1>12. Cardinality(C) >= S
  BY <1>1, <1>7, <1>9, <1>10, <1>11
<1>13. e \notin C
  OBVIOUS
<1> HIDE DEF C
<1>14. IsFiniteSet(C \union {e}) /\ Cardinality(C \union {e}) = Cardinality(C) + 1
  BY <1>10, <1>13, FS_AddElement
<1>15. Cardinality(C \union {e}) <= Cardinality(AV)
  <2>1. C \union {e} \subseteq AV
    BY <1>8
  <2> QED BY <1>3, <2>1, FS_Subset
<1> QED BY <1>1, <1>3, <1>10, <1>12, <1>14, <1>15

\* The invariant of decode is kept.
LEMMA StepKeepsIncluded ==
    ASSUME R >= 2 * S - 1, NEW v, NEW r, NEW ids, DecodeStep(v, r, ids)
    PROVE  Included(Acquire(v, ids), Acquire(r, ids))
<1> DEFINE v1 == Acquire(v, ids)
           r1 == Acquire(r, ids)
<1>1. /\ S \in Nat /\ R \in Nat
      /\ TableInv(S, v) /\ TableInv(R, r) /\ Full(r) /\ v.step = r.step
      /\ ids \in SUBSET Experts /\ Cardinality(ids) <= S /\ Cardinality(ids) <= R
  BY Sizes DEF DecodeStep, Included
<1>2. /\ TableInv(S, v1) /\ TableInv(R, r1) /\ Full(r1)
      /\ ids \subseteq Resident(v1) /\ ids \subseteq Resident(r1)
  BY <1>1, AcquireKeeps, AcquireResident, FullStays
<1>3. v1.step = v.step + 1 /\ r1.step = r.step + 1
  BY DEF Acquire, Placing
<1>4. Resident(v1) \subseteq Resident(r1)
  BY StaysIncluded
<1>5. \A e \in Resident(v1):
         /\ e \in ids => Stamp(v1, e) = v.step
         /\ e \notin ids => e \in Resident(v) /\ Stamp(v1, e) = Stamp(v, e)
  BY <1>1, AcquireStamps
<1>6. \A e \in Resident(r1):
         /\ e \in ids => Stamp(r1, e) = r.step
         /\ e \notin ids => e \in Resident(r) /\ Stamp(r1, e) = Stamp(r, e)
  BY <1>1, AcquireStamps
<1>7. \A e \in Resident(r): Stamp(r, e) \in Nat /\ Stamp(r, e) < r.step
  BY <1>1, StampRange
<1>8. r.step \in Nat /\ r.step > 0
  BY <1>1 DEF TableInv, TableType
<1> HIDE DEF v1, r1
<1>9. SameStamps(v1, r1)
  <2> SUFFICES ASSUME NEW e \in Resident(v1)
               PROVE  Stamp(v1, e) = Stamp(r1, e) /\ Stamp(r1, e) > 0
    BY DEF SameStamps
  <2>1. CASE e \in ids
    BY <1>1, <1>4, <1>5, <1>6, <1>8, <2>1
  <2>2. CASE e \notin ids
    <3>1. Stamp(v, e) = Stamp(r, e) /\ Stamp(r, e) > 0
      BY <1>5, <2>2 DEF DecodeStep, Included, SameStamps
    <3> QED BY <1>4, <1>5, <1>6, <2>2, <3>1
  <2> QED BY <2>1, <2>2
<1>10. KeepsNewer(v1, r1)
  <2> SUFFICES ASSUME NEW e \in Resident(v1), NEW f \in Resident(r1),
                      Stamp(r1, e) < Stamp(r1, f), f \notin ids
               PROVE  f \in Resident(v1)
    BY <1>2 DEF KeepsNewer
  <2>1. f \in Resident(r) /\ Stamp(r1, f) = Stamp(r, f)
    BY <1>6
  <2>2. Stamp(r, f) \in Nat /\ Stamp(r, f) < r.step
    BY <1>7, <2>1
  <2>3. e \notin ids
    BY <1>4, <1>6, <1>8, <2>1, <2>2
  <2>4. Stamp(r, e) < Stamp(r, f)
    BY <1>4, <1>6, <2>1, <2>3
  <2> QED BY <2>1, <2>3, <2>4, NewerStays DEF v1
<1>11. SmallBatches(r1)
  <2> SUFFICES ASSUME NEW e \in Resident(r1), Stamp(r1, e) > 0
               PROVE  Cardinality(Batch(r1, e)) <= S
    BY DEF SmallBatches
  <2>1. CASE e \in ids
    <3>1. Batch(r1, e) \subseteq ids
      <4> SUFFICES ASSUME NEW f \in Resident(r1), Stamp(r1, f) = Stamp(r1, e), f \notin ids
                   PROVE  FALSE
        BY DEF Batch
      <4> QED BY <1>6, <1>7, <1>8, <2>1
    <3>2. IsFiniteSet(ids) /\ Cardinality(ids) \in Nat
      BY <1>1, MissesFinite DEF TableInv
    <3>3. Cardinality(Batch(r1, e)) <= Cardinality(ids) /\ Cardinality(Batch(r1, e)) \in Nat
      BY <3>1, <3>2, FS_Subset, FS_CardinalityType
    <3> QED BY <1>1, <3>2, <3>3
  <2>2. CASE e \notin ids
    <3>1. e \in Resident(r) /\ Stamp(r1, e) = Stamp(r, e)
      BY <1>6, <2>2
    <3>2. Batch(r1, e) \subseteq Batch(r, e)
      <4> SUFFICES ASSUME NEW f \in Resident(r1), Stamp(r1, f) = Stamp(r1, e)
                   PROVE  f \in Resident(r) /\ Stamp(r, f) = Stamp(r, e)
        BY DEF Batch
      <4>1. f \notin ids
        BY <1>6, <1>7, <1>8, <3>1
      <4> QED BY <1>6, <3>1, <4>1
    <3>3. Cardinality(Batch(r, e)) <= S
      BY <3>1 DEF DecodeStep, Included, SmallBatches
    <3>4. IsFiniteSet(Batch(r, e))
      <4>1. IsFiniteSet(Resident(r))
        BY <1>1, ResidentSize
      <4>2. Batch(r, e) \subseteq Resident(r)
        BY DEF Batch
      <4> QED BY <4>1, <4>2, FS_Subset
    <3>5. /\ Cardinality(Batch(r1, e)) <= Cardinality(Batch(r, e))
          /\ Cardinality(Batch(r1, e)) \in Nat /\ Cardinality(Batch(r, e)) \in Nat
      BY <3>2, <3>4, FS_Subset, FS_CardinalityType
    <3> QED BY <1>1, <3>3, <3>5
  <2> QED BY <2>1, <2>2
<1> QED BY <1>1, <1>2, <1>3, <1>4, <1>9, <1>10, <1>11 DEF Included, v1, r1

-----------------------------------------------------------------------------
(* Behaviours with decode steps alone.                                     *)

\* What a behaviour keeps: the invariant of the tables, and inclusion as long as
\* there is no prefill.
DecodeInclusionInv == IInv /\ (only = "decode" => Inclusion)

LEMMA InclusionInit == Init => Inclusion
<1> SUFFICES ASSUME Init PROVE Inclusion
  OBVIOUS
<1>1. /\ vram.step = 1 /\ vram.slot_of = [e \in Experts |-> None]
      /\ ram.step = 1 /\ ram.last_used = [i \in 0 .. (R - 1) |-> 0]
      /\ ram.expert_in = [i \in 0 .. (R - 1) |-> i]
  BY DEF Init, EmptyTable, WarmTable
<1>2. TableInv(R, ram) /\ R \in Nat
  BY InitInv, Sizes DEF IInv
<1>3. SlotsOf(ram) = 0 .. (R - 1) /\ ram \in TableType(R)
  BY <1>2, SlotsOfTable DEF TableInv
<1>4. Full(ram)
  BY <1>1, <1>2, <1>3 DEF Full, None
<1>5. Resident(vram) = {}
  BY <1>1 DEF Resident
<1>6. \A e \in Resident(ram): Stamp(ram, e) = 0
  <2> SUFFICES ASSUME NEW e \in Resident(ram) PROVE Stamp(ram, e) = 0
    OBVIOUS
  <2>1. ram.slot_of[e] \in 0 .. (R - 1)
    BY <1>3 DEF Resident, TableType
  <2> QED BY <1>1, <2>1 DEF Stamp
<1>7. SameStamps(vram, ram) /\ KeepsNewer(vram, ram)
  BY <1>5 DEF SameStamps, KeepsNewer
<1>8. SmallBatches(ram)
  BY <1>6 DEF SmallBatches
<1> QED BY <1>1, <1>4, <1>5, <1>7, <1>8 DEF Inclusion, Included

LEMMA InclusionStep ==
    ASSUME R >= 2 * S - 1, IInv, Inclusion, Decode
    PROVE  Inclusion'
<1>1. PICK ids \in SUBSET Experts:
         /\ Cardinality(ids) <= S /\ Cardinality(ids) <= R
         /\ vram' = Acquire(vram, ids) /\ ram' = Acquire(ram, ids)
  BY DecodeUpdates
<1>2. DecodeStep(vram, ram, ids)
  BY <1>1 DEF DecodeStep, IInv, Inclusion
<1>3. Included(Acquire(vram, ids), Acquire(ram, ids))
  BY <1>2, StepKeepsIncluded
<1> QED BY <1>1, <1>3 DEF Inclusion

\* RAM holds every expert that VRAM holds as long as there are only decode steps
\* and RAM has 2S-1 slots or more, for every number of experts and slots
\* (experts.py:405 "RAM stays a superset of VRAM").
THEOREM DecodeStaysIncluded ==
    ASSUME R >= 2 * S - 1
    PROVE  MCSpec => []DecodeKeepsInclusion
<1>1. MCInit => DecodeInclusionInv
  BY InitInv, InclusionInit DEF MCInit, DecodeInclusionInv
<1>2. DecodeInclusionInv /\ [MCNext]_<<vars, only>> => DecodeInclusionInv'
  <2> SUFFICES ASSUME DecodeInclusionInv, [MCNext]_<<vars, only>>
               PROVE  DecodeInclusionInv'
    OBVIOUS
  <2>1. IInv'
    BY NextInv DEF DecodeInclusionInv, MCNext, Next
  <2>2. CASE Decode /\ UNCHANGED only
    BY <2>1, <2>2, InclusionStep DEF DecodeInclusionInv
  <2>3. CASE only = "any" /\ UNCHANGED only
    BY <2>1, <2>3 DEF DecodeInclusionInv
  <2>4. CASE UNCHANGED <<vars, only>>
    BY <2>1, <2>4 DEF DecodeInclusionInv, Inclusion, vars
  <2> QED BY <2>2, <2>3, <2>4 DEF MCNext
<1>3. DecodeInclusionInv => DecodeKeepsInclusion
  BY DEF DecodeInclusionInv, Inclusion, Included, DecodeKeepsInclusion, RamIncludesVram
<1> QED BY <1>1, <1>2, <1>3, PTL DEF MCSpec
=============================================================================
