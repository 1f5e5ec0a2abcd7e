-------------------------- MODULE ExpertTableProofs --------------------------
(***************************************************************************)
(* What the operators on an expert table do, for every number of experts   *)
(* and slots: an update keeps a table inverse, gives what is needed a slot *)
(* and new slots to nothing else.                                          *)
(*                                                                         *)
(* A victim is the slot of a rank in an order, so everything rests on one  *)
(* fact about finite sets: in a strict total order the ranks are a         *)
(* bijection with 0 .. n-1.                                                *)
(***************************************************************************)
EXTENDS ExpertTable, FiniteSetTheorems, FunctionTheorems, TLAPS

-----------------------------------------------------------------------------
(* Ranks.                                                                  *)

StrictTotalOn(B, T) ==
    /\ \A x \in T: <<x, x>> \notin B
    /\ \A x, y, z \in T: <<x, y>> \in B /\ <<y, z>> \in B => <<x, z>> \in B
    /\ \A x, y \in T: x # y => <<x, y>> \in B \/ <<y, x>> \in B

Rank(B, T, x) == Cardinality({y \in T: <<y, x>> \in B})

\* The rank of an element grows with the order and is below the size of the set.
LEMMA RankGrows ==
    ASSUME NEW T, IsFiniteSet(T), NEW B, StrictTotalOn(B, T)
    PROVE  /\ \A x \in T: Rank(B, T, x) \in 0 .. (Cardinality(T) - 1)
           /\ \A x, y \in T: <<x, y>> \in B => Rank(B, T, x) < Rank(B, T, y)
<1> DEFINE P(x) == {y \in T: <<y, x>> \in B}
<1>1. \A x \in T: IsFiniteSet(P(x)) /\ Cardinality(P(x)) \in Nat
  BY FS_Subset, FS_CardinalityType
<1>2. ASSUME NEW x \in T
      PROVE  Rank(B, T, x) \in 0 .. (Cardinality(T) - 1)
  <2>1. IsFiniteSet(T \ {x}) /\ Cardinality(T \ {x}) = Cardinality(T) - 1
    BY FS_RemoveElement
  <2>2. P(x) \in SUBSET (T \ {x})
    BY DEF StrictTotalOn
  <2>3. Cardinality(P(x)) <= Cardinality(T) - 1
    <3> HIDE DEF P
    <3>1. Cardinality(P(x)) <= Cardinality(T \ {x})
      BY <2>1, <2>2, FS_Subset
    <3> QED BY <2>1, <3>1
  <2>4. Cardinality(T) \in Nat
    BY FS_CardinalityType
  <2> QED BY <1>1, <2>3, <2>4 DEF Rank
<1>3. ASSUME NEW x \in T, NEW y \in T, <<x, y>> \in B
      PROVE  Rank(B, T, x) < Rank(B, T, y)
  <2>1. P(x) \in SUBSET P(y)
    BY <1>3 DEF StrictTotalOn
  <2>2. x \in P(y) /\ x \notin P(x)
    BY <1>3 DEF StrictTotalOn
  <2>3. Cardinality(P(x)) <= Cardinality(P(y)) /\ Cardinality(P(x)) # Cardinality(P(y))
    BY <1>1, <2>1, <2>2, FS_Subset
  <2> QED BY <1>1, <2>3 DEF Rank
<1> QED BY <1>2, <1>3

\* Different elements have different ranks.
LEMMA RankInjective ==
    ASSUME NEW T, IsFiniteSet(T), NEW B, StrictTotalOn(B, T),
           NEW x \in T, NEW y \in T, Rank(B, T, x) = Rank(B, T, y)
    PROVE  x = y
<1>1. /\ Rank(B, T, x) \in Int /\ Rank(B, T, y) \in Int
      /\ <<x, y>> \in B => Rank(B, T, x) < Rank(B, T, y)
      /\ <<y, x>> \in B => Rank(B, T, y) < Rank(B, T, x)
  BY RankGrows
<1>2. x # y => <<x, y>> \in B \/ <<y, x>> \in B
  BY DEF StrictTotalOn
<1> QED BY <1>1, <1>2

\* Every number below the size of the set is a rank.
LEMMA RankOnto ==
    ASSUME NEW T, IsFiniteSet(T), NEW B, StrictTotalOn(B, T),
           NEW n \in 0 .. (Cardinality(T) - 1)
    PROVE  \E x \in T: Rank(B, T, x) = n
<1> DEFINE F == [x \in T |-> Rank(B, T, x)]
           U == 0 .. (Cardinality(T) - 1)
<1>1. F \in [T -> U]
  BY RankGrows
<1>2. \A x, y \in T: F[x] = F[y] => x = y
  BY RankInjective
<1>3. F \in Injection(T, U)
  BY <1>1, <1>2, Fun_IsInj
<1>4. Cardinality(T) \in Nat
  BY FS_CardinalityType
<1>5. IsFiniteSet(U) /\ Cardinality(U) = Cardinality(T)
  BY <1>4, FS_Interval
<1>6. F \in Surjection(T, U)
  BY <1>3, <1>5, FS_Injection
<1> HIDE DEF F
<1>7. \A t \in U: \E x \in T: F[x] = t
  BY <1>6 DEF Surjection
<1>8. PICK x \in T: F[x] = n
  BY <1>7
<1> QED BY <1>8 DEF F

-----------------------------------------------------------------------------
(* The order of the victims and the order of the misses.                   *)

SlotOrder(t, ids) ==
    {q \in SlotsOf(t) \X SlotsOf(t): VictimBefore(t, ids, q[1], q[2])}
IdOrder(m) == {q \in m \X m: q[1] < q[2]}

LEMMA SlotsOfTable ==
    ASSUME NEW size \in Nat, NEW t \in TableType(size)
    PROVE  /\ SlotsOf(t) = 0 .. (size - 1)
           /\ IsFiniteSet(SlotsOf(t)) /\ Cardinality(SlotsOf(t)) = size
<1>1. SlotsOf(t) = 0 .. (size - 1)
  BY DEF SlotsOf, TableType
<1> QED BY <1>1, FS_Interval

\* The victim order is total: ties are broken by the slot number.
LEMMA SlotOrderTotal ==
    ASSUME NEW size \in Nat, NEW t \in TableType(size), NEW ids
    PROVE  /\ StrictTotalOn(SlotOrder(t, ids), SlotsOf(t))
           /\ \A i \in SlotsOf(t):
                 SlotRank(t, ids, i) = Rank(SlotOrder(t, ids), SlotsOf(t), i)
<1> DEFINE T == SlotsOf(t)
           U == SlotUsed(t, ids)
<1>1. \A i, j \in T: <<i, j>> \in SlotOrder(t, ids) <=> VictimBefore(t, ids, i, j)
  BY DEF SlotOrder
<1>2. ASSUME NEW i \in T, NEW j \in T
      PROVE  /\ i \notin U /\ j \in U => VictimBefore(t, ids, i, j)
             /\ i \in U /\ j \notin U => ~ VictimBefore(t, ids, i, j)
             /\ (i \in U <=> j \in U) => (VictimBefore(t, ids, i, j) <=>
                   \/ t.last_used[i] < t.last_used[j]
                   \/ t.last_used[i] = t.last_used[j] /\ i < j)
  <2> HIDE DEF U
  <2>1. VictimBefore(t, ids, i, j) <=>
           IF (i \in U) # (j \in U) THEN j \in U
           ELSE \/ t.last_used[i] < t.last_used[j]
                \/ t.last_used[i] = t.last_used[j] /\ i < j
    BY DEF VictimBefore, U
  <2> QED BY <2>1
<1>3. T = 0 .. (size - 1) /\ t.last_used \in [0 .. (size - 1) -> Nat]
  BY SlotsOfTable DEF TableType
<1>4. StrictTotalOn(SlotOrder(t, ids), T)
  <2> HIDE DEF T, U
  <2>1. \A x \in T: ~ VictimBefore(t, ids, x, x)
    BY <1>2, <1>3
  <2>2. ASSUME NEW x \in T, NEW y \in T, NEW z \in T,
               VictimBefore(t, ids, x, y), VictimBefore(t, ids, y, z)
        PROVE  VictimBefore(t, ids, x, z)
    <3>1. /\ t.last_used[x] \in Int /\ t.last_used[y] \in Int /\ t.last_used[z] \in Int
          /\ x \in Int /\ y \in Int /\ z \in Int
      BY <1>3
    <3>2. CASE (x \in U <=> y \in U) /\ (y \in U <=> z \in U)
      BY <1>2, <2>2, <3>1, <3>2
    <3>3. CASE ~ ((x \in U <=> y \in U) /\ (y \in U <=> z \in U))
      BY <1>2, <2>2, <3>3
    <3> QED BY <3>2, <3>3
  <2>3. ASSUME NEW x \in T, NEW y \in T, x # y
        PROVE  VictimBefore(t, ids, x, y) \/ VictimBefore(t, ids, y, x)
    <3>1. t.last_used[x] \in Int /\ t.last_used[y] \in Int /\ x \in Int /\ y \in Int
      BY <1>3
    <3> QED BY <1>2, <2>3, <3>1
  <2> QED BY <1>1, <2>1, <2>2, <2>3 DEF StrictTotalOn
<1>5. ASSUME NEW i \in T
      PROVE  SlotRank(t, ids, i) = Rank(SlotOrder(t, ids), T, i)
  <2>1. {j \in T: VictimBefore(t, ids, j, i)} = {j \in T: <<j, i>> \in SlotOrder(t, ids)}
    BY <1>1
  <2> QED BY <2>1 DEF SlotRank, Rank
<1> QED BY <1>4, <1>5

LEMMA MissesFinite ==
    ASSUME NEW size \in Nat, NEW t \in TableType(size), NEW ids \in SUBSET Experts
    PROVE  /\ IsFiniteSet(ids) /\ Cardinality(ids) \in Nat
           /\ IsFiniteSet(Misses(t, ids))
           /\ Cardinality(Misses(t, ids)) \in 0 .. Cardinality(ids)
<1>1. IsFiniteSet(Experts)
  BY ExpertsAssumption, FS_Interval DEF Experts
<1>2. IsFiniteSet(ids)
  BY <1>1, FS_Subset
<1>3. Misses(t, ids) \in SUBSET ids
  BY DEF Misses
<1> QED BY <1>2, <1>3, FS_Subset, FS_CardinalityType

LEMMA MissOrderTotal ==
    ASSUME NEW size \in Nat, NEW t \in TableType(size), NEW ids \in SUBSET Experts
    PROVE  LET m == Misses(t, ids)
           IN  /\ StrictTotalOn(IdOrder(m), m)
               /\ \A e \in m: MissRank(t, ids, e) = Rank(IdOrder(m), m, e)
<1> DEFINE m == Misses(t, ids)
<1>1. m \subseteq Int
  <2>1. m \subseteq ids
    BY DEF Misses
  <2>2. Experts \subseteq Int
    BY ExpertsAssumption DEF Experts
  <2> QED BY <2>1, <2>2
<1>2. \A e, f \in m: <<e, f>> \in IdOrder(m) <=> e < f
  BY DEF IdOrder
<1> HIDE DEF m
<1>3. StrictTotalOn(IdOrder(m), m)
  BY <1>1, <1>2 DEF StrictTotalOn
<1>4. ASSUME NEW e \in m
      PROVE  MissRank(t, ids, e) = Rank(IdOrder(m), m, e)
  <2>1. {f \in m: f < e} = {f \in m: <<f, e>> \in IdOrder(m)}
    BY <1>2
  <2> QED BY <2>1 DEF MissRank, Rank, m
<1> QED BY <1>3, <1>4 DEF m

-----------------------------------------------------------------------------
(* Placing the misses.                                                     *)

\* A miss takes the slot whose rank is the miss's ordinal.
Places(t, ids, victim) ==
    /\ victim \in [Misses(t, ids) -> SlotsOf(t)]
    /\ \A e \in Misses(t, ids): SlotRank(t, ids, victim[e]) = MissRank(t, ids, e)

\* No two misses take the same slot.
LEMMA PlacesApart ==
    ASSUME NEW size \in Nat, NEW t \in TableType(size), NEW ids \in SUBSET Experts,
           NEW victim, Places(t, ids, victim),
           NEW e \in Misses(t, ids), NEW f \in Misses(t, ids), victim[e] = victim[f]
    PROVE  e = f
<1> DEFINE m == Misses(t, ids)
<1>1. MissRank(t, ids, e) = MissRank(t, ids, f)
  BY DEF Places
<1>2. Rank(IdOrder(m), m, e) = Rank(IdOrder(m), m, f)
  BY <1>1, MissOrderTotal
<1>3. StrictTotalOn(IdOrder(m), m) /\ IsFiniteSet(m)
  BY MissOrderTotal, MissesFinite
<1> QED BY <1>2, <1>3, RankInjective

\* Slots of one rank are the same slot.
LEMMA SlotRankInjective ==
    ASSUME NEW size \in Nat, NEW t \in TableType(size), NEW ids,
           NEW i \in SlotsOf(t), NEW j \in SlotsOf(t),
           SlotRank(t, ids, i) = SlotRank(t, ids, j)
    PROVE  i = j
<1>1. StrictTotalOn(SlotOrder(t, ids), SlotsOf(t)) /\ IsFiniteSet(SlotsOf(t))
  BY SlotOrderTotal, SlotsOfTable
<1>2. Rank(SlotOrder(t, ids), SlotsOf(t), i) = Rank(SlotOrder(t, ids), SlotsOf(t), j)
  BY SlotOrderTotal
<1> QED BY <1>1, <1>2, RankInjective

\* The ordinal of a miss is a rank when no more experts are needed than there
\* are slots.
LEMMA MissRankIsSlotRank ==
    ASSUME NEW size \in Nat, NEW t \in TableType(size), NEW ids \in SUBSET Experts,
           Cardinality(ids) <= size, NEW e \in Misses(t, ids)
    PROVE  /\ MissRank(t, ids, e) \in 0 .. (size - 1)
           /\ \E i \in SlotsOf(t): SlotRank(t, ids, i) = MissRank(t, ids, e)
<1> DEFINE m == Misses(t, ids)
<1>1. MissRank(t, ids, e) \in 0 .. (Cardinality(m) - 1)
  BY MissOrderTotal, MissesFinite, RankGrows
<1>2. Cardinality(m) <= size /\ Cardinality(m) \in Nat
  BY MissesFinite
<1>3. MissRank(t, ids, e) \in 0 .. (size - 1)
  BY <1>1, <1>2
<1>4. MissRank(t, ids, e) \in 0 .. (Cardinality(SlotsOf(t)) - 1)
  BY <1>3, SlotsOfTable
<1>5. \E i \in SlotsOf(t): Rank(SlotOrder(t, ids), SlotsOf(t), i) = MissRank(t, ids, e)
  BY <1>4, SlotOrderTotal, SlotsOfTable, RankOnto
<1> QED BY <1>3, <1>5, SlotOrderTotal

\* The torch version's victims.
LEMMA AcquirePlaces ==
    ASSUME NEW size \in Nat, NEW t \in TableType(size), NEW ids \in SUBSET Experts,
           Cardinality(ids) <= size
    PROVE  Places(t, ids, [e \in Misses(t, ids) |-> Victim(t, ids, e)])
<1>1. ASSUME NEW e \in Misses(t, ids)
      PROVE  /\ Victim(t, ids, e) \in SlotsOf(t)
             /\ SlotRank(t, ids, Victim(t, ids, e)) = MissRank(t, ids, e)
  BY MissRankIsSlotRank DEF Victim
<1> QED BY <1>1 DEF Places

-----------------------------------------------------------------------------
(* What an update keeps.                                                   *)

\* The inductive invariant of a table: it is inverse, and no slot was used in a
\* step that is still to come.
TableInv(size, t) ==
    /\ t \in TableType(size)
    /\ IsInverse(t)
    /\ \A i \in SlotsOf(t): t.last_used[i] < t.step

\* The updated table, field by field.
LEMMA PlacingFields ==
    ASSUME NEW size \in Nat, NEW t \in TableType(size), NEW ids \in SUBSET Experts,
           NEW victim, Places(t, ids, victim)
    PROVE  LET u == Placing(t, ids, victim)
               m == Misses(t, ids)
               gone == Evicted(t, {victim[e]: e \in m})
           IN  /\ u \in TableType(size) /\ SlotsOf(u) = SlotsOf(t)
               /\ u.step = t.step + 1
               /\ \A e \in m: u.slot_of[e] = victim[e] /\ u.expert_in[victim[e]] = e
               /\ \A e \in Experts \ m: u.slot_of[e] = IF e \in gone THEN None ELSE t.slot_of[e]
               /\ \A i \in SlotsOf(t):
                     (\A e \in m: victim[e] # i) => u.expert_in[i] = t.expert_in[i]
               /\ \A i \in SlotsOf(t): u.last_used[i] \in {t.step, t.last_used[i]}
<1> DEFINE u == Placing(t, ids, victim)
           m == Misses(t, ids)
           gone == Evicted(t, {victim[e]: e \in m})
           slot_of == [e \in Experts |-> IF e \in m THEN victim[e]
                                         ELSE IF e \in gone THEN None ELSE t.slot_of[e]]
           Placed(i) == {e \in m: victim[e] = i}
<1>1. DOMAIN victim = m /\ victim \in [m -> SlotsOf(t)] /\ m \subseteq Experts
  BY DEF Places, Misses
<1>2. /\ u.slot_of = slot_of
      /\ u.expert_in = [i \in SlotsOf(t) |-> IF Placed(i) = {} THEN t.expert_in[i]
                                            ELSE CHOOSE e \in Placed(i): TRUE]
      /\ u.last_used = [i \in SlotsOf(t) |-> IF \E e \in ids: slot_of[e] = i THEN t.step
                                            ELSE t.last_used[i]]
      /\ u.step = t.step + 1
      /\ u = [slot_of |-> u.slot_of, expert_in |-> u.expert_in,
              last_used |-> u.last_used, step |-> u.step]
  BY <1>1 DEF Placing
<1> HIDE DEF u, gone
<1>3. SlotsOf(t) = 0 .. (size - 1)
  BY SlotsOfTable
<1>4. /\ t.slot_of \in [Experts -> {None} \union 0 .. (size - 1)]
      /\ t.expert_in \in [0 .. (size - 1) -> {None} \union Experts]
      /\ t.last_used \in [0 .. (size - 1) -> Nat]
      /\ t.step \in Nat \ {0}
  BY DEF TableType
<1>5. u \in TableType(size)
  <2>1. slot_of \in [Experts -> {None} \union 0 .. (size - 1)]
    BY <1>1, <1>3, <1>4
  <2>2. u.expert_in \in [0 .. (size - 1) -> {None} \union Experts]
    <3>1. \A i \in SlotsOf(t): Placed(i) # {} => (CHOOSE e \in Placed(i): TRUE) \in Experts
      BY <1>1
    <3> QED BY <1>2, <1>3, <1>4, <3>1
  <2>3. u.last_used \in [0 .. (size - 1) -> Nat]
    BY <1>2, <1>3, <1>4
  <2>4. u.step \in Nat \ {0}
    BY <1>2, <1>4
  <2> QED BY <1>2, <2>1, <2>2, <2>3, <2>4 DEF TableType
<1>6. \A e \in m: u.slot_of[e] = victim[e] /\ u.expert_in[victim[e]] = e
  <2> SUFFICES ASSUME NEW e \in m
               PROVE  u.slot_of[e] = victim[e] /\ u.expert_in[victim[e]] = e
    OBVIOUS
  <2>1. Placed(victim[e]) = {e}
    BY PlacesApart
  <2>2. (CHOOSE f \in Placed(victim[e]): TRUE) = e
    BY <2>1
  <2> QED BY <1>1, <1>2, <2>1, <2>2
<1>7. \A e \in Experts \ m: u.slot_of[e] = IF e \in gone THEN None ELSE t.slot_of[e]
  BY <1>2
<1>8. \A i \in SlotsOf(t): (\A e \in m: victim[e] # i) => u.expert_in[i] = t.expert_in[i]
  BY <1>2
<1>9. \A i \in SlotsOf(t): u.last_used[i] \in {t.step, t.last_used[i]}
  BY <1>2
<1>10. SlotsOf(u) = SlotsOf(t)
  BY <1>2 DEF SlotsOf
<1> QED BY <1>2, <1>5, <1>6, <1>7, <1>8, <1>9, <1>10 DEF u, gone

\* An update keeps the invariant of the table.
LEMMA PlacingKeeps ==
    ASSUME NEW size \in Nat, NEW t, TableInv(size, t), NEW ids \in SUBSET Experts,
           NEW victim, Places(t, ids, victim)
    PROVE  TableInv(size, Placing(t, ids, victim))
<1> DEFINE u == Placing(t, ids, victim)
           m == Misses(t, ids)
           gone == Evicted(t, {victim[e]: e \in m})
<1>1. /\ u \in TableType(size) /\ SlotsOf(u) = SlotsOf(t)
      /\ u.step = t.step + 1
      /\ \A e \in m: u.slot_of[e] = victim[e] /\ u.expert_in[victim[e]] = e
      /\ \A e \in Experts \ m: u.slot_of[e] = IF e \in gone THEN None ELSE t.slot_of[e]
      /\ \A i \in SlotsOf(t): (\A e \in m: victim[e] # i) => u.expert_in[i] = t.expert_in[i]
      /\ \A i \in SlotsOf(t): u.last_used[i] \in {t.step, t.last_used[i]}
  BY PlacingFields DEF TableInv
<1>2. /\ t \in TableType(size)
      /\ \A e \in Experts: t.slot_of[e] # None => t.expert_in[t.slot_of[e]] = e
      /\ \A i \in SlotsOf(t): t.expert_in[i] # None => t.slot_of[t.expert_in[i]] = i
      /\ \A i \in SlotsOf(t): t.last_used[i] < t.step
  BY DEF TableInv, IsInverse
<1>3. /\ SlotsOf(t) = 0 .. (size - 1)
      /\ \A e \in Experts: t.slot_of[e] # None => t.slot_of[e] \in SlotsOf(t)
      /\ \A i \in SlotsOf(t): t.expert_in[i] # None => t.expert_in[i] \in Experts
      /\ \A i \in SlotsOf(t): t.last_used[i] \in Nat
      /\ t.step \in Nat
  BY <1>2, SlotsOfTable DEF TableType
<1>4. m \subseteq Experts /\ \A e \in m: t.slot_of[e] = None /\ victim[e] \in SlotsOf(t)
  BY DEF Misses, Places
<1>5. \A e \in gone: e # None /\ \E f \in m: t.expert_in[victim[f]] = e
  BY DEF Evicted
<1>6. \A f \in m: t.expert_in[victim[f]] # None => t.expert_in[victim[f]] \in gone
  BY DEF Evicted
<1> HIDE DEF u, m, gone
<1>7. ASSUME NEW e \in Experts, u.slot_of[e] # None
      PROVE  u.expert_in[u.slot_of[e]] = e
  <2>1. CASE e \in m
    BY <1>1, <2>1
  <2>2. CASE e \notin m
    <3>1. e \notin gone /\ u.slot_of[e] = t.slot_of[e]
      BY <1>1, <1>7, <2>2
    <3>2. t.expert_in[t.slot_of[e]] = e /\ t.slot_of[e] \in SlotsOf(t)
      BY <1>2, <1>3, <1>7, <3>1
    <3>3. e # None
      BY ExpertsAssumption DEF Experts, None
    <3>4. \A f \in m: victim[f] # t.slot_of[e]
      BY <1>6, <3>1, <3>2, <3>3
    <3> QED BY <1>1, <3>1, <3>2, <3>4
  <2> QED BY <2>1, <2>2
<1>8. ASSUME NEW i \in SlotsOf(t), u.expert_in[i] # None
      PROVE  u.slot_of[u.expert_in[i]] = i
  <2>1. CASE \E e \in m: victim[e] = i
    BY <1>1, <2>1
  <2>2. CASE \A e \in m: victim[e] # i
    <3> DEFINE e == t.expert_in[i]
    <3>1. u.expert_in[i] = e /\ e # None /\ e \in Experts /\ t.slot_of[e] = i
      BY <1>1, <1>2, <1>3, <1>8, <2>2
    <3>2. i # None
      BY <1>3 DEF None
    <3>3. e \notin m
      BY <1>4, <3>1, <3>2
    <3>4. e \notin gone
      BY <1>2, <1>4, <1>5, <2>2, <3>1
    <3> QED BY <1>1, <3>1, <3>3, <3>4
  <2> QED BY <2>1, <2>2
<1>9. \A i \in SlotsOf(t): u.last_used[i] < u.step
  BY <1>1, <1>2, <1>3
<1>10. IsInverse(u)
  BY <1>1, <1>7, <1>8 DEF IsInverse
<1> QED BY <1>1, <1>9, <1>10 DEF TableInv, u

-----------------------------------------------------------------------------
(* What acquire and seed keep.                                             *)

LEMMA AcquireKeeps ==
    ASSUME NEW size \in Nat, NEW t, TableInv(size, t), NEW ids \in SUBSET Experts,
           Cardinality(ids) <= size
    PROVE  TableInv(size, Acquire(t, ids))
<1>1. t \in TableType(size)
  BY DEF TableInv
<1>2. Places(t, ids, [e \in Misses(t, ids) |-> Victim(t, ids, e)])
  BY <1>1, AcquirePlaces
<1> QED BY <1>2, PlacingKeeps DEF Acquire

\* A slot in use has at least as many slots before it as there are misses.
LEMMA UsedSlotsComeLast ==
    ASSUME NEW size \in Nat, NEW t, TableInv(size, t), NEW ids \in SUBSET Experts,
           Cardinality(ids) <= size, NEW i \in SlotUsed(t, ids)
    PROVE  Cardinality(Misses(t, ids)) <= SlotRank(t, ids, i)
<1> DEFINE T == SlotsOf(t)
           U == SlotUsed(t, ids)
           m == Misses(t, ids)
           hits == ids \ m
           before == {j \in T: VictimBefore(t, ids, j, i)}
           F == [e \in {t.expert_in[j]: j \in U} |-> t.slot_of[e]]
<1>1. IsFiniteSet(T) /\ Cardinality(T) = size /\ t \in TableType(size)
  BY SlotsOfTable DEF TableInv
<1>2. /\ IsFiniteSet(ids) /\ IsFiniteSet(m) /\ Cardinality(ids) \in Nat
      /\ Cardinality(m) \in Nat /\ m \subseteq ids
  BY <1>1, MissesFinite DEF Misses
<1>3. U \in SUBSET T
  BY DEF SlotUsed
<1>4. IsFiniteSet(hits) /\ Cardinality(hits) = Cardinality(ids) - Cardinality(m)
  <2>1. ids \intersect m = m
    BY <1>2
  <2> HIDE DEF m
  <2>2. IsFiniteSet(hits)
    BY <1>2, FS_Subset
  <2> QED BY <1>2, <2>1, <2>2, FS_Difference
<1>5. Cardinality(U) <= Cardinality(hits)
  <2> DEFINE G == [j \in U |-> t.expert_in[j]]
  <2>1. G \in [U -> hits]
    BY DEF SlotUsed, Misses
  <2>2. \A j, k \in U: G[j] = G[k] => j = k
    <3>1. \A j \in U: t.expert_in[j] # None
      BY ExpertsAssumption DEF SlotUsed, Experts, None
    <3>2. \A j \in U: t.slot_of[G[j]] = j
      BY <1>3, <3>1 DEF TableInv, IsInverse
    <3> QED BY <3>2
  <2>3. G \in Injection(U, hits)
    BY <2>1, <2>2, Fun_IsInj
  <2> QED BY <1>4, <2>3, FS_Injection
<1>6. IsFiniteSet(U) /\ Cardinality(U) \in Nat
  BY <1>1, <1>3, FS_Subset, FS_CardinalityType
<1>7. IsFiniteSet(T \ U) /\ Cardinality(T \ U) = size - Cardinality(U)
  <2>1. T \intersect U = U
    BY <1>3
  <2> HIDE DEF T, U
  <2>2. /\ IsFiniteSet(T \ U)
        /\ Cardinality(T \ U) = Cardinality(T) - Cardinality(T \intersect U)
    BY <1>1, FS_Difference
  <2> QED BY <1>1, <2>1, <2>2
<1>8. T \ U \in SUBSET before
  <2> SUFFICES ASSUME NEW j \in T \ U
               PROVE  VictimBefore(t, ids, j, i)
    OBVIOUS
  <2> QED BY DEF VictimBefore
<1>9. IsFiniteSet(before) /\ Cardinality(before) \in Nat
  BY <1>1, FS_Subset, FS_CardinalityType
<1>10. Cardinality(T \ U) <= Cardinality(before)
  BY <1>8, <1>9, FS_Subset
<1> HIDE DEF T, U, m, hits, before
<1>11. Cardinality(m) <= Cardinality(before)
  BY <1>2, <1>4, <1>5, <1>6, <1>7, <1>9, <1>10
<1> QED BY <1>11 DEF m, before, T, SlotRank

\* Every needed expert has a slot afterwards: misses take victims, and no hit
\* loses its slot.
LEMMA AcquireResident ==
    ASSUME NEW size \in Nat, NEW t, TableInv(size, t), NEW ids \in SUBSET Experts,
           Cardinality(ids) <= size
    PROVE  ids \subseteq Resident(Acquire(t, ids))
<1> DEFINE m == Misses(t, ids)
           victim == [e \in m |-> Victim(t, ids, e)]
           u == Placing(t, ids, victim)
           gone == Evicted(t, {victim[e]: e \in m})
<1>1. t \in TableType(size) /\ SlotsOf(t) = 0 .. (size - 1)
  BY SlotsOfTable DEF TableInv
<1>2. Places(t, ids, victim)
  BY <1>1, AcquirePlaces
<1>3. /\ \A e \in m: u.slot_of[e] = victim[e]
      /\ \A e \in Experts \ m: u.slot_of[e] = IF e \in gone THEN None ELSE t.slot_of[e]
  BY <1>1, <1>2, PlacingFields
<1>4. \A e \in m: /\ victim[e] \in SlotsOf(t)
                  /\ SlotRank(t, ids, victim[e]) = MissRank(t, ids, e)
                  /\ MissRank(t, ids, e) \in 0 .. (Cardinality(m) - 1)
  BY <1>1, <1>2, MissOrderTotal, MissesFinite, RankGrows DEF Places
<1>5. \A i \in SlotsOf(t): i # None
  BY <1>1 DEF None
<1>6. ASSUME NEW e \in ids, e \notin m
      PROVE  u.slot_of[e] # None
  <2>1. t.slot_of[e] # None
    BY <1>6 DEF Misses
  <2>2. e \notin gone
    <3> SUFFICES ASSUME NEW f \in m, t.expert_in[victim[f]] = e
                 PROVE  FALSE
      BY DEF Evicted
    <3>1. victim[f] \in SlotUsed(t, ids)
      BY <1>4, <2>1 DEF SlotUsed
    <3>2. Cardinality(m) <= SlotRank(t, ids, victim[f])
      BY <3>1, UsedSlotsComeLast
    <3>3. Cardinality(m) \in Nat
      BY <1>1, MissesFinite
    <3> HIDE DEF m, victim
    <3> QED BY <1>4, <3>2, <3>3
  <2> HIDE DEF u, gone
  <2> QED BY <1>3, <1>6, <2>1, <2>2
<1>7. \A e \in m: u.slot_of[e] # None
  BY <1>3, <1>4, <1>5
<1> QED BY <1>6, <1>7 DEF Resident, Acquire

LEMMA ImageSize ==
    ASSUME NEW T, IsFiniteSet(T), NEW f
    PROVE  /\ IsFiniteSet({f[x]: x \in T})
           /\ Cardinality({f[x]: x \in T}) <= Cardinality(T)
<1> DEFINE V == {f[x]: x \in T}
           F == [x \in T |-> f[x]]
<1>1. F \in Surjection(T, V)
  BY DEF Surjection
<1> QED BY <1>1, FS_Surjection

\* An update gives a new slot only to an expert it misses.
LEMMA OnlyMissesGetSlots ==
    ASSUME NEW size \in Nat, NEW t \in TableType(size), NEW ids \in SUBSET Experts,
           Cardinality(ids) <= size,
           NEW e \in Experts, Acquire(t, ids).slot_of[e] # None
    PROVE  Acquire(t, ids).slot_of[e] = t.slot_of[e] \/ e \in Misses(t, ids)
<1> DEFINE victim == [f \in Misses(t, ids) |-> Victim(t, ids, f)]
           u == Placing(t, ids, victim)
           gone == Evicted(t, {victim[f]: f \in Misses(t, ids)})
<1>1. Places(t, ids, victim)
  BY AcquirePlaces
<1>2. \A f \in Experts \ Misses(t, ids): u.slot_of[f] = IF f \in gone THEN None ELSE t.slot_of[f]
  BY <1>1, PlacingFields
<1>3. Acquire(t, ids) = u
  BY DEF Acquire
<1> HIDE DEF u, gone
<1> QED BY <1>2, <1>3

\* What moved or came in has to be read.
LEMMA NewSlotsAreRead ==
    ASSUME NEW before, NEW after, NEW ids, NEW e \in Experts,
           after[e] # None, after[e] # before[e], before[e] # None \/ e \in ids
    PROVE  e \in SsdReads(before, after, ids)
BY DEF SsdReads, OldRowUsable

\* Seeding is two updates.  Neither asks for more experts than there are slots,
\* and they ask for experts the prefill needs or RAM already holds, unless the
\* prefill needs none.
SeedStep(size, slots, r, counts, u, top, r1, ids) ==
    /\ top \in SUBSET Experts /\ ids \in SUBSET Experts
    /\ Cardinality(top) <= size /\ Cardinality(ids) <= size
    /\ r1 = (IF size > slots THEN Acquire(r, top) ELSE r)
    /\ u = Acquire(r1, ids)
    /\ (\E e \in Experts: counts[e] > 0)
          => /\ \A e \in top: counts[e] > 0
             /\ \A e \in ids: r1.slot_of[e] # None \/ counts[e] > 0

LEMMA SeedSteps ==
    ASSUME NEW size \in Nat, NEW slots \in Nat, 1 <= slots, slots <= size,
           NEW r, TableInv(size, r), NEW v, TableInv(slots, v),
           NEW counts \in [Experts -> Nat], NEW u \in Seed(r, v, counts)
    PROVE  \E top, r1, ids: SeedStep(size, slots, r, counts, u, top, r1, ids)
<1> DEFINE m == IF size - slots > 1 THEN size - slots ELSE 1
<1>1. /\ slots \in Nat /\ size \in Nat /\ 1 <= slots /\ slots <= size
      /\ r \in TableType(size) /\ v \in TableType(slots)
  BY ExpertsAssumption DEF TableInv
<1>2. /\ SlotsOf(v) = 0 .. (slots - 1) /\ IsFiniteSet(SlotsOf(v))
      /\ Cardinality(SlotsOf(v)) = slots /\ Cardinality(SlotsOf(r)) = size
  BY <1>1, SlotsOfTable
<1>3. PICK c \in TopChoices(counts, m): u = SeedWith(r, v, counts, c)
  BY <1>2 DEF Seed
<1>4. c.top \in SUBSET Experts /\ Cardinality(c.top) = m /\ c.first \in c.top
  BY DEF TopChoices
<1> DEFINE top == {e \in c.top: counts[e] > 0} \union {c.first}
           r1 == IF size > slots THEN Acquire(r, top) ELSE r
           kept == {i \in SlotsOf(v):
                      LET e == v.expert_in[i]
                      IN  e # None /\ (r1.slot_of[e] # None \/ counts[e] > 0)}
           rest == IF kept = SlotsOf(v) THEN {} ELSE {c.first}
           ids == {v.expert_in[i]: i \in kept} \union rest
<1>5. u = Acquire(r1, ids)
  BY <1>2, <1>3 DEF SeedWith
<1>6. IsFiniteSet(Experts)
  BY ExpertsAssumption, FS_Interval DEF Experts
<1>7. top \in SUBSET Experts /\ Cardinality(top) <= size
  <2>1. top \in SUBSET c.top /\ top \in SUBSET Experts
    BY <1>4
  <2>2. IsFiniteSet(c.top)
    BY <1>4, <1>6, FS_Subset
  <2> HIDE DEF top
  <2>3. Cardinality(top) <= m /\ Cardinality(top) \in Nat
    BY <1>4, <2>1, <2>2, FS_Subset, FS_CardinalityType
  <2> QED BY <1>1, <2>1, <2>3
<1>8. ASSUME \E e \in Experts: counts[e] > 0
      PROVE  counts[c.first] > 0
  <2>1. /\ \A e \in c.top: counts[c.first] >= counts[e]
        /\ \A e \in c.top, f \in Experts \ c.top: counts[e] >= counts[f]
    BY DEF TopChoices
  <2>2. \A e \in Experts: counts[c.first] >= counts[e] /\ counts[e] \in Nat
    BY <1>4, <2>1
  <2> QED BY <1>4, <1>8, <2>2
<1>9. ASSUME \E e \in Experts: counts[e] > 0
      PROVE  /\ \A e \in top: counts[e] > 0
             /\ \A e \in ids: r1.slot_of[e] # None \/ counts[e] > 0
  BY <1>8, <1>9
<1>10. r1 = (IF size > slots THEN Acquire(r, top) ELSE r)
  OBVIOUS
<1> HIDE DEF r1, top
<1>11. ids \in SUBSET Experts
  <2>1. v.expert_in \in [0 .. (slots - 1) -> {None} \union Experts]
    BY <1>1 DEF TableType
  <2> QED BY <1>2, <1>4, <2>1
<1>12. Cardinality(ids) <= size
  <2> DEFINE image == {v.expert_in[i]: i \in kept}
  <2>1. kept \in SUBSET SlotsOf(v)
    OBVIOUS
  <2> HIDE DEF kept
  <2>2. /\ IsFiniteSet(kept) /\ Cardinality(kept) \in Nat /\ Cardinality(kept) <= slots
        /\ kept = SlotsOf(v) \/ Cardinality(kept) # slots
    BY <1>2, <2>1, FS_Subset, FS_CardinalityType
  <2>3. /\ IsFiniteSet(image) /\ Cardinality(image) \in Nat
        /\ Cardinality(image) <= Cardinality(kept)
    BY <2>2, ImageSize, FS_CardinalityType
  <2> HIDE DEF image
  <2>4. CASE kept = SlotsOf(v)
    <3>1. ids = image
      BY <2>4 DEF image
    <3> QED BY <1>1, <2>2, <2>3, <3>1
  <2>5. CASE kept # SlotsOf(v)
    <3>1. ids = image \union {c.first}
      BY <2>5 DEF image
    <3>2. Cardinality(ids) \in {Cardinality(image), Cardinality(image) + 1}
      BY <2>3, <3>1, FS_AddElement
    <3> HIDE DEF ids, rest
    <3>3. Cardinality(kept) < slots
      BY <1>1, <2>2, <2>5
    <3> QED BY <1>1, <2>2, <2>3, <3>2, <3>3
  <2> QED BY <2>4, <2>5
<1> HIDE DEF ids
<1>13. SeedStep(size, slots, r, counts, u, top, r1, ids)
  BY <1>5, <1>7, <1>9, <1>10, <1>11, <1>12 DEF SeedStep
<1> QED BY <1>13

LEMMA SeedKeeps ==
    ASSUME NEW size \in Nat, NEW slots \in Nat, 1 <= slots, slots <= size,
           NEW r, TableInv(size, r), NEW counts, NEW u, NEW top, NEW r1, NEW ids,
           SeedStep(size, slots, r, counts, u, top, r1, ids)
    PROVE  TableInv(size, r1) /\ TableInv(size, u)
<1>1. size \in Nat
  BY ExpertsAssumption
<1>2. TableInv(size, r1)
  BY <1>1, AcquireKeeps DEF SeedStep
<1> QED BY <1>1, <1>2, AcquireKeeps DEF SeedStep

\* Seeding gives slots only to experts the prefill needs, unless it needs none.
LEMMA SeedPlacesNeeded ==
    ASSUME NEW size \in Nat, NEW slots \in Nat, 1 <= slots, slots <= size,
           NEW r, TableInv(size, r), NEW counts, NEW u, NEW top, NEW r1, NEW ids,
           SeedStep(size, slots, r, counts, u, top, r1, ids), \E f \in Experts: counts[f] > 0,
           NEW e \in Experts, u.slot_of[e] # None, r.slot_of[e] = None
    PROVE  counts[e] > 0
<1>1. size \in Nat /\ r \in TableType(size) /\ r1 \in TableType(size)
  BY ExpertsAssumption, SeedKeeps DEF TableInv
<1>2. u.slot_of[e] = r1.slot_of[e] \/ e \in Misses(r1, ids)
  BY <1>1, OnlyMissesGetSlots DEF SeedStep
<1>3. CASE r1.slot_of[e] = None
  BY <1>2, <1>3 DEF SeedStep, Misses
<1>4. CASE r1.slot_of[e] # None
  <2>1. r1 = Acquire(r, top)
    BY <1>4 DEF SeedStep
  <2>2. e \in Misses(r, top)
    BY <1>1, <1>4, <2>1, OnlyMissesGetSlots DEF SeedStep
  <2> QED BY <2>2 DEF SeedStep, Misses
<1> QED BY <1>3, <1>4

LEMMA EmptyTableInv ==
    ASSUME NEW size \in Nat
    PROVE  TableInv(size, EmptyTable(size))
<1> DEFINE t == EmptyTable(size)
<1>1. /\ t \in TableType(size)
      /\ \A e \in Experts: t.slot_of[e] = None
      /\ \A i \in SlotsOf(t): t.expert_in[i] = None /\ t.last_used[i] = 0
      /\ t.step = 1
  BY DEF EmptyTable, TableType, SlotsOf
<1> QED BY <1>1 DEF TableInv, IsInverse

LEMMA WarmTableInv ==
    ASSUME NEW size \in Nat, size <= E
    PROVE  TableInv(size, WarmTable(size))
<1> DEFINE t == WarmTable(size)
<1>1. /\ t.slot_of = [e \in Experts |-> IF e < size THEN e ELSE None]
      /\ t.expert_in = [i \in 0 .. (size - 1) |-> i]
      /\ t.last_used = [i \in 0 .. (size - 1) |-> 0]
      /\ t.step = 1
      /\ t = [slot_of |-> t.slot_of, expert_in |-> t.expert_in,
              last_used |-> t.last_used, step |-> t.step]
  <2> DEFINE e0 == EmptyTable(size)
  <2>1. e0 = [slot_of |-> [e \in Experts |-> None], expert_in |-> [i \in 0 .. (size - 1) |-> None],
              last_used |-> [i \in 0 .. (size - 1) |-> 0], step |-> 1]
    BY DEF EmptyTable
  <2>2. t = [e0 EXCEPT !.slot_of = [e \in Experts |-> IF e < size THEN e ELSE None],
                       !.expert_in = [i \in 0 .. (size - 1) |-> i]]
    BY DEF WarmTable
  <2> HIDE DEF e0, t
  <2>3. t = [slot_of |-> [e \in Experts |-> IF e < size THEN e ELSE None],
             expert_in |-> [i \in 0 .. (size - 1) |-> i],
             last_used |-> [i \in 0 .. (size - 1) |-> 0], step |-> 1]
    BY <2>1, <2>2
  <2> QED BY <2>3
<1> HIDE DEF t
<1>2. Experts = 0 .. (E - 1) /\ E \in Nat /\ SlotsOf(t) = 0 .. (size - 1)
  BY <1>1, ExpertsAssumption DEF Experts, SlotsOf
<1>3. t \in TableType(size)
  <2>1. t.slot_of \in [Experts -> {None} \union 0 .. (size - 1)]
    BY <1>1, <1>2
  <2>2. t.expert_in \in [0 .. (size - 1) -> {None} \union Experts]
    BY <1>1, <1>2
  <2>3. t.last_used \in [0 .. (size - 1) -> Nat] /\ t.step \in Nat \ {0}
    BY <1>1
  <2> QED BY <1>1, <2>1, <2>2, <2>3 DEF TableType
<1>4. IsInverse(t)
  BY <1>1, <1>2 DEF IsInverse, None
<1>5. \A i \in SlotsOf(t): t.last_used[i] < t.step
  BY <1>1, <1>2
<1> QED BY <1>3, <1>4, <1>5 DEF TableInv, t

-----------------------------------------------------------------------------
(* The plan of a prefill.                                                  *)

\* The ordinals of the experts of a list grow with the experts.
LEMMA ListRanks ==
    ASSUME NEW m \in SUBSET Experts
    PROVE  /\ IsFiniteSet(m) /\ Cardinality(m) \in Nat /\ Cardinality(m) <= E
           /\ \A e \in m: Cardinality({f \in m: f < e}) \in 0 .. (Cardinality(m) - 1)
           /\ \A e, f \in m: Cardinality({g \in m: g < e}) = Cardinality({g \in m: g < f})
                             => e = f
<1>1. IsFiniteSet(Experts) /\ Cardinality(Experts) = E
  BY ExpertsAssumption, FS_Interval DEF Experts
<1>2. IsFiniteSet(m) /\ Cardinality(m) \in Nat /\ Cardinality(m) <= E
  BY <1>1, FS_Subset, FS_CardinalityType
<1>3. m \subseteq Int
  BY ExpertsAssumption DEF Experts
<1>4. \A e, f \in m: <<e, f>> \in IdOrder(m) <=> e < f
  BY DEF IdOrder
<1>5. StrictTotalOn(IdOrder(m), m)
  BY <1>3, <1>4 DEF StrictTotalOn
<1>6. \A e \in m: Cardinality({f \in m: f < e}) = Rank(IdOrder(m), m, e)
  <2> SUFFICES ASSUME NEW e \in m
               PROVE  {f \in m: f < e} = {f \in m: <<f, e>> \in IdOrder(m)}
    BY DEF Rank
  <2> QED BY <1>4
<1>7. \A e \in m: Cardinality({f \in m: f < e}) \in 0 .. (Cardinality(m) - 1)
  BY <1>2, <1>5, <1>6, RankGrows
<1>8. \A e, f \in m: Cardinality({g \in m: g < e}) = Cardinality({g \in m: g < f}) => e = f
  BY <1>2, <1>5, <1>6, RankInjective
<1> QED BY <1>2, <1>7, <1>8

LEMMA DivMod ==
    ASSUME NEW N \in Nat \ {0}, NEW x \in Nat
    PROVE  /\ x \div N \in Nat /\ x % N \in 0 .. (N - 1)
           /\ x = N * (x \div N) + (x % N)
OBVIOUS

\* A multiple of N separates the quotients of what is below from the others.
LEMMA DivSplit ==
    ASSUME NEW N \in Nat \ {0}, NEW x \in Nat, NEW q \in Nat
    PROVE  /\ x < q * N => x \div N < q
           /\ q * N <= x => q <= x \div N
<1> DEFINE k == x \div N
<1>1. k \in Nat /\ x % N \in 0 .. (N - 1) /\ x = N * k + (x % N)
  BY DivMod
<1> HIDE DEF k
<1>2. ASSUME x < q * N, k >= q PROVE FALSE
  <2>1. PICK d \in Nat: k = q + d
    BY <1>1, <1>2
  <2>2. N * k = q * N + N * d /\ N * d \in Nat /\ q * N \in Nat
    BY <2>1
  <2> QED BY <1>1, <1>2, <2>2
<1>3. ASSUME q * N <= x, k < q PROVE FALSE
  <2>1. PICK d \in Nat: q = k + d + 1
    <3>1. q - k - 1 \in Nat /\ q = k + (q - k - 1) + 1
      BY <1>1, <1>3
    <3> QED BY <3>1
  <2>2. PICK u \in Nat, w \in Nat: u = N * k /\ w = N * d
    BY <1>1
  <2>3. q * N = u + w + N
    BY <1>1, <2>1, <2>2
  <2>4. x = u + (x % N)
    BY <1>1, <2>2
  <2> QED BY <1>1, <1>3, <2>3, <2>4
<1> QED BY <1>1, <1>2, <1>3 DEF k

\* Positions are apart, what waits for no read is in earlier chunks than every
\* read, and there are chunks enough for all of them.
LEMMA Positions ==
    ASSUME NEW before, NEW after, NEW need \in SUBSET Experts, NEW W \in Nat \ {0}
    PROVE  LET ssd == SsdReads(before, after, need)
               pos(e) == Position(before, after, need, W, e)
           IN  /\ \A e \in need \union ssd: pos(e) \in Nat /\ pos(e) \div W < NumChunks(W)
               /\ \A e, f \in need \union ssd: pos(e) = pos(f) => e = f
               /\ \A e \in need \ ssd, f \in ssd: pos(e) \div W < pos(f) \div W
<1> DEFINE ssd == SsdReads(before, after, need)
           first == need \ ssd
           pos(e) == Position(before, after, need, W, e)
           n == Cardinality(first)
           k == Cardinality(ssd)
           q == (n + W - 1) \div W
           Preceding(s, e) == Cardinality({f \in s: f < e})
<1>1. ssd \in SUBSET Experts /\ first \in SUBSET Experts
  BY DEF SsdReads
<1>2. /\ \A e \in first: pos(e) = Preceding(first, e)
      /\ \A e \in ssd: pos(e) = (q * W) + Preceding(ssd, e)
  BY DEF Position
<1>3. E \in Nat
  BY ExpertsAssumption
<1>4. need \union ssd = first \union ssd /\ first \intersect ssd = {}
  OBVIOUS
<1> HIDE DEF ssd, first, pos
<1>5. /\ IsFiniteSet(first) /\ n \in Nat /\ IsFiniteSet(ssd) /\ k \in Nat
      /\ \A e \in first: Preceding(first, e) \in 0 .. (n - 1)
      /\ \A e \in ssd: Preceding(ssd, e) \in 0 .. (k - 1)
      /\ \A e, f \in first: Preceding(first, e) = Preceding(first, f) => e = f
      /\ \A e, f \in ssd: Preceding(ssd, e) = Preceding(ssd, f) => e = f
  BY <1>1, ListRanks
<1>6. n + k <= E
  <2>1. first \union ssd \in SUBSET Experts
    BY <1>1
  <2>2. Cardinality(first \union ssd) <= E
    BY <2>1, ListRanks
  <2>3. Cardinality(first \intersect ssd) = 0
    BY <1>4, FS_EmptySet
  <2>4. Cardinality(first \union ssd) = n + k - Cardinality(first \intersect ssd)
    BY <1>5, FS_Union
  <2> QED BY <1>5, <2>2, <2>3, <2>4
<1> HIDE DEF n, k, Preceding
<1>7. q \in Nat /\ n <= q * W /\ q * W <= n + W - 1
  <2>1. n + W - 1 \in Nat
    BY <1>5
  <2>2. /\ q \in Nat /\ (n + W - 1) % W \in 0 .. (W - 1)
        /\ n + W - 1 = W * q + ((n + W - 1) % W)
    BY <2>1, DivMod
  <2>3. W * q = q * W /\ q * W \in Nat
    BY <2>2
  <2> HIDE DEF q
  <2> QED BY <1>5, <2>2, <2>3
<1> HIDE DEF q
<1>8. q * W \in Nat
  BY <1>7
<1>9. \A e \in first: pos(e) \in Nat /\ pos(e) < n
  BY <1>2, <1>5
<1>10. \A e \in ssd: pos(e) \in Nat /\ q * W <= pos(e) /\ pos(e) < q * W + k
  BY <1>2, <1>5, <1>8
<1>11. ASSUME NEW e \in first \union ssd
       PROVE  pos(e) \in Nat /\ pos(e) \div W < NumChunks(W)
  <2> DEFINE c == (E + W - 1) \div W
  <2>1. pos(e) \in Nat /\ pos(e) <= E + W - 1
    BY <1>3, <1>5, <1>6, <1>7, <1>8, <1>9, <1>10
  <2>2. c \in Nat /\ (E + W - 1) % W \in 0 .. (W - 1) /\ E + W - 1 = W * c + ((E + W - 1) % W)
    <3>1. E + W - 1 \in Nat
      BY <1>3
    <3> QED BY <3>1, DivMod
  <2> HIDE DEF c
  <2>3. W * c \in Nat /\ (c + 1) * W = W * c + W
    BY <2>2
  <2>4. pos(e) < (c + 1) * W
    BY <1>3, <2>1, <2>2, <2>3
  <2>5. pos(e) \div W < c + 1
    <3>1. c + 1 \in Nat
      BY <2>2
    <3> QED BY <2>1, <2>4, <3>1, DivSplit
  <2> QED BY <2>1, <2>5 DEF NumChunks, c
<1>12. ASSUME NEW e \in first \union ssd, NEW f \in first \union ssd, pos(e) = pos(f)
       PROVE  e = f
  <2>1. CASE e \in first /\ f \in first
    BY <1>2, <1>5, <1>12, <2>1
  <2>2. CASE e \in ssd /\ f \in ssd
    <3>1. PICK b \in Nat: b = q * W
      BY <1>8
    <3>2. /\ pos(e) = b + Preceding(ssd, e) /\ pos(f) = b + Preceding(ssd, f)
          /\ Preceding(ssd, e) \in Int /\ Preceding(ssd, f) \in Int
      BY <1>2, <1>5, <2>2, <3>1
    <3>3. PICK i \in Int, j \in Int: i = Preceding(ssd, e) /\ j = Preceding(ssd, f)
      BY <3>2
    <3>4. b + i = b + j
      BY <1>12, <3>2, <3>3
    <3>5. i = j
      BY <3>4
    <3> QED BY <1>5, <2>2, <3>3, <3>5
  <2>3. CASE (e \in first /\ f \in ssd) \/ (e \in ssd /\ f \in first)
    BY <1>5, <1>7, <1>8, <1>9, <1>10, <1>12, <2>3
  <2> QED BY <2>1, <2>2, <2>3
<1>13. ASSUME NEW e \in first, NEW f \in ssd
       PROVE  pos(e) \div W < pos(f) \div W
  <2>1. pos(e) \in Nat /\ pos(e) < q * W /\ pos(f) \in Nat /\ q * W <= pos(f)
    BY <1>5, <1>7, <1>8, <1>9, <1>10
  <2>2. pos(e) \div W < q /\ q <= pos(f) \div W
    BY <1>7, <2>1, DivSplit
  <2>3. pos(e) \div W \in Nat /\ pos(f) \div W \in Nat
    BY <2>1, DivMod
  <2> QED BY <1>7, <2>2, <2>3
<1> QED BY <1>4, <1>11, <1>12, <1>13 DEF ssd, first, pos

\* What a plan of chunks keeps apart.  Two reads into one row are two chunks or
\* more from each other, and every copy that needs no read comes before the
\* chunk of every read.
ChunksApart(pl, ssd, before, after, need, N, size) ==
    /\ \A e \in need \union ssd: /\ pl.chunk[e] \in 0 .. (NumChunks(N) - 1)
                                 /\ pl.dst_row[e] \in 0 .. (N - 1)
                                 /\ pl.src_row[e] \in 0 .. (size + 2 * N - 1)
    /\ \A e, f \in need \union ssd:
          pl.chunk[e] = pl.chunk[f] /\ pl.dst_row[e] = pl.dst_row[f] => e = f
    /\ \A e, f \in ssd: e # f /\ pl.src_row[e] = pl.src_row[f] =>
          /\ pl.src_row[e] >= size
          /\ pl.chunk[f] > pl.chunk[e] + 1 \/ pl.chunk[e] > pl.chunk[f] + 1
    /\ \A e \in need \ ssd, f \in ssd: pl.chunk[e] < pl.chunk[f]
    /\ \A e \in need \ ssd: before[e] # None /\ pl.src_row[e] = before[e]
    /\ \A e \in ssd: IF after[e] # None THEN pl.src_row[e] = after[e]
                     ELSE pl.src_row[e] >= size

LEMMA ChunkPlan ==
    ASSUME NEW size \in Nat, NEW W \in Nat \ {0}, NEW need \in SUBSET Experts, NEW cached,
           NEW before \in [Experts -> {None} \union 0 .. (size - 1)],
           NEW after \in [Experts -> {None} \union 0 .. (size - 1)],
           \A e, f \in Experts: after[e] # None /\ after[e] = after[f] => e = f
    PROVE  ChunksApart(PlanChunks(before, after, need, cached, W, 0, size),
                       SsdReads(before, after, need), before, after, need, W, size)
<1> DEFINE ssd == SsdReads(before, after, need)
           all == need \union ssd
           pos == [e \in all |-> Position(before, after, need, W, e)]
           Shared(e) == size + Face(pos[e] \div W) * W + (pos[e] % W)
           pl == PlanChunks(before, after, need, cached, W, 0, size)
<1>1. /\ pl.chunk = [e \in all |-> pos[e] \div W]
      /\ pl.dst_row = [e \in all |-> pos[e] % W]
      /\ pl.src_row = [e \in all |-> IF OldRowUsable(before, after, e) THEN before[e] + 0
                                     ELSE IF after[e] # None THEN after[e] + 0 ELSE Shared(e)]
  BY DEF PlanChunks
<1>2. /\ \A e \in all: pos[e] \in Nat /\ pos[e] \div W < NumChunks(W)
      /\ \A e, f \in all: pos[e] = pos[f] => e = f
      /\ \A e \in need \ ssd, f \in ssd: pos[e] \div W < pos[f] \div W
  BY Positions
<1>3. /\ all \subseteq Experts /\ ssd \subseteq all
      /\ \A e \in ssd: ~ OldRowUsable(before, after, e)
      /\ \A e \in need \ ssd: OldRowUsable(before, after, e)
  BY DEF SsdReads
<1>4. \A e \in Experts: OldRowUsable(before, after, e) => before[e] # None
  BY DEF OldRowUsable
<1> HIDE DEF ssd, all, pos, pl
<1>5. \A e \in all: /\ pos[e] \div W \in Nat /\ pos[e] % W \in 0 .. (W - 1)
                    /\ pos[e] = W * (pos[e] \div W) + (pos[e] % W)
  BY <1>2, DivMod
<1>6. \A e, f \in all: pos[e] \div W = pos[f] \div W /\ pos[e] % W = pos[f] % W => e = f
  BY <1>2, <1>5
<1>7. \A c \in Nat: Face(c) \in {0, 1}
  BY DEF Face
<1>8. \A e \in all: \E k \in {0, W}: /\ k = Face(pos[e] \div W) * W
                                    /\ Shared(e) = size + k + (pos[e] % W)
  <2> SUFFICES ASSUME NEW e \in all
               PROVE  Face(pos[e] \div W) * W \in {0, W}
    OBVIOUS
  <2>1. Face(pos[e] \div W) \in {0, 1}
    BY <1>5, <1>7
  <2> QED BY <2>1
<1>9. \A e \in all: Shared(e) \in size .. (size + 2 * W - 1)
  <2> HIDE DEF Shared
  <2> SUFFICES ASSUME NEW e \in all
               PROVE  Shared(e) \in size .. (size + 2 * W - 1)
    OBVIOUS
  <2>1. PICK k \in {0, W}: Shared(e) = size + k + (pos[e] % W)
    BY <1>8
  <2>2. PICK r \in 0 .. (W - 1): r = pos[e] % W
    BY <1>5
  <2> QED BY <2>1, <2>2
<1>10. ASSUME NEW e \in all, NEW f \in all, e # f, Shared(e) = Shared(f)
       PROVE  \/ pos[f] \div W > pos[e] \div W + 1
              \/ pos[e] \div W > pos[f] \div W + 1
  <2> DEFINE c == pos[e] \div W
             d == pos[f] \div W
  <2>1. PICK k \in {0, W}: k = Face(c) * W /\ Shared(e) = size + k + (pos[e] % W)
    BY <1>8
  <2>2. PICK l \in {0, W}: l = Face(d) * W /\ Shared(f) = size + l + (pos[f] % W)
    BY <1>8
  <2>3. PICK x \in 0 .. (W - 1): x = pos[e] % W
    BY <1>5
  <2>4. PICK y \in 0 .. (W - 1): y = pos[f] % W
    BY <1>5
  <2>5. size + k + x = size + l + y
    BY <1>10, <2>1, <2>2, <2>3, <2>4
  <2>6. k = l /\ x = y
    BY <2>5
  <2>7. c \in Nat /\ d \in Nat /\ c # d
    BY <1>5, <1>6, <1>10, <2>3, <2>4, <2>6
  <2> HIDE DEF c, d, Shared
  <2>8. Face(c) = Face(d)
    <3>1. Face(c) \in {0, 1} /\ Face(d) \in {0, 1}
      BY <1>7, <2>7
    <3> QED BY <2>1, <2>2, <2>6, <3>1
  <2>9. d # c + 1 /\ c # d + 1
    BY <2>7, <2>8 DEF Face
  <2>10. d > c + 1 \/ c > d + 1
    BY <2>7, <2>9
  <2> QED BY <2>10 DEF c, d
<1> HIDE DEF Shared
<1>11. ASSUME NEW e \in ssd
       PROVE  /\ after[e] # None => pl.src_row[e] = after[e] /\ after[e] \in 0 .. (size - 1)
              /\ after[e] = None => pl.src_row[e] = Shared(e)
  BY <1>1, <1>3
<1>12. ASSUME NEW e \in need \ ssd
       PROVE  /\ before[e] # None /\ pl.src_row[e] = before[e]
              /\ before[e] \in 0 .. (size - 1)
  <2>1. e \in all /\ e \in Experts /\ OldRowUsable(before, after, e)
    BY <1>3 DEF all
  <2>2. before[e] # None /\ before[e] \in 0 .. (size - 1)
    BY <1>4, <2>1
  <2> QED BY <1>1, <2>1, <2>2
<1>13. \A e \in all: pl.chunk[e] \in 0 .. (NumChunks(W) - 1)
  <2>1. NumChunks(W) \in Int
    <3>1. E + W - 1 \in Nat
      BY ExpertsAssumption
    <3> QED BY <3>1, DivMod DEF NumChunks
  <2> QED BY <1>1, <1>2, <1>5, <2>1
<1>14. \A e \in all: pl.src_row[e] \in 0 .. (size + 2 * W - 1)
  <2> SUFFICES ASSUME NEW e \in all
               PROVE  pl.src_row[e] \in 0 .. (size + 2 * W - 1)
    OBVIOUS
  <2>1. CASE e \in ssd
    BY <1>9, <1>11, <2>1
  <2>2. CASE e \in need \ ssd
    BY <1>12, <2>2
  <2> QED BY <2>1, <2>2 DEF all
<1>15. \A e, f \in all: pl.chunk[e] = pl.chunk[f] /\ pl.dst_row[e] = pl.dst_row[f] => e = f
  BY <1>1, <1>6
<1>16. ASSUME NEW e \in ssd, NEW f \in ssd, e # f, pl.src_row[e] = pl.src_row[f]
       PROVE  /\ pl.src_row[e] >= size
              /\ pl.chunk[f] > pl.chunk[e] + 1 \/ pl.chunk[e] > pl.chunk[f] + 1
  <2>1. e \in all /\ f \in all /\ e \in Experts /\ f \in Experts
    BY <1>3
  <2>2. Shared(e) \in size .. (size + 2 * W - 1) /\ Shared(f) \in size .. (size + 2 * W - 1)
    BY <1>9, <2>1
  <2>3. after[e] = None /\ after[f] = None
    BY <1>11, <1>16, <2>1, <2>2
  <2>4. Shared(e) = Shared(f) /\ pl.src_row[e] = Shared(e)
    BY <1>11, <1>16, <2>3
  <2> QED BY <1>1, <1>10, <1>16, <2>1, <2>2, <2>4
<1>17. \A e \in all: pl.dst_row[e] \in 0 .. (W - 1)
  BY <1>1, <1>5
<1>18. \A e \in need \ ssd, f \in ssd: pl.chunk[e] < pl.chunk[f]
  BY <1>1, <1>2 DEF all
<1>19. \A e \in ssd: IF after[e] # None THEN pl.src_row[e] = after[e] ELSE pl.src_row[e] >= size
  BY <1>3, <1>9, <1>11
<1> QED
  BY <1>12, <1>13, <1>14, <1>15, <1>16, <1>17, <1>18, <1>19 DEF all, ssd, pl, ChunksApart
=============================================================================
