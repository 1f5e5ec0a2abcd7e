----------------------------- MODULE PagerProofs -----------------------------
(***************************************************************************)
(* Pager keeps the rows of all three tiers right, for every number of      *)
(* experts, slots and working rows, and however many reads fail.  Waits    *)
(* may be given up, in this layer and in others, any number of times but   *)
(* within the scope of Pager: fewer than Ring-1 of the requests given up   *)
(* are unserved at a time.                                                 *)
(*                                                                         *)
(* The argument is about rows of the RAM tier that are settled: they hold  *)
(* the expert they should and no read that would overwrite them is         *)
(* pending.  A plan never reads two experts into one row within two        *)
(* neighbouring chunks, and reads of at most two neighbouring chunks are   *)
(* pending unless they were given up; so a row is settled when its read is *)
(* over, and it stays settled until it has been copied.                    *)
(***************************************************************************)
EXTENDS Pager, ExpertTableProofs, SequenceTheorems, TLAPS

-----------------------------------------------------------------------------
(* What a plan promises.                                                   *)

\* Its lists, and where they lie.
PlanSets(pl) ==
    /\ pl.kind \in {"decode", "prefill"}
    /\ pl.need \subseteq Experts /\ pl.ssd \subseteq Experts
    /\ pl.todo \subseteq pl.need /\ pl.late \subseteq pl.need \intersect pl.ssd
    /\ pl.late \intersect pl.cached = {}
    /\ (pl.todo \ pl.skip) \intersect pl.ssd \subseteq pl.cached
    /\ pl.chunks \in Nat \ {0}
    /\ \A e \in pl.need \union pl.ssd: /\ pl.chunk[e] \in 0 .. (pl.chunks - 1)
                                       /\ pl.src_row[e] \in RamRowNumbers

\* Decode works on the slots of the VRAM table v, prefill on the working slab.
PlanKind(pl, v) ==
    /\ pl.kind = "decode" => /\ pl.skip = pl.ssd /\ pl.late = pl.ssd /\ pl.cached = {}
                             /\ pl.chunks = 1
                             /\ \A e \in pl.need: /\ pl.chunk[e] = 0
                                                  /\ pl.dst_row[e] = v.slot_of[e]
                                                  /\ pl.dst_row[e] # None
                             /\ Cardinality(pl.need) <= S
    /\ pl.kind = "prefill" => /\ pl.skip = {} /\ pl.cached = Resident(v)
                              /\ pl.need = pl.todo \union pl.late
                              /\ \A e \in pl.need: pl.dst_row[e] \in 0 .. (W - 1)

\* No two copies of a chunk share a row, nor two reads of neighbouring chunks,
\* and a row is copied before it is read over.  A read to the RAM tier r goes
\* to the expert's slot.
PlanApart(pl, r) ==
    /\ \A e, f \in pl.need:
          e # f /\ pl.chunk[e] = pl.chunk[f] => pl.dst_row[e] # pl.dst_row[f]
    /\ \A e, f \in pl.ssd: e # f /\ pl.src_row[e] = pl.src_row[f] =>
          /\ pl.src_row[e] >= R
          /\ pl.chunk[f] > pl.chunk[e] + 1 \/ pl.chunk[e] > pl.chunk[f] + 1
    /\ \A e \in pl.todo \ (pl.skip \union pl.cached), f \in pl.ssd:
          pl.src_row[e] = pl.src_row[f] => pl.chunk[e] < pl.chunk[f]
    /\ \A e \in pl.ssd: IF r.slot_of[e] # None THEN pl.src_row[e] = r.slot_of[e]
                        ELSE pl.src_row[e] >= R

-----------------------------------------------------------------------------
(* The inductive invariant.                                                *)

Busy == gpu # "idle"

\* The last chunk whose reads were published, and the first that may be unread.
Newest == IF gpu = "copy" THEN chunk ELSE chunk + 1
Oldest == IF gpu \in {"copy", "wait"} THEN chunk ELSE chunk + 1

PlanInv ==
    /\ Busy => PlanSets(plan) /\ PlanKind(plan, vram) /\ PlanApart(plan, ram)
    /\ Busy => chunk < plan.chunks /\ ran = {e \in plan.need: plan.chunk[e] < chunk}
    /\ ~ Busy => plan = NoPlan /\ chunk = 0 /\ ran = {}

\* A request, with this layer's reads or another's, and the reads of a plan it may hold.
Request == [chunk : Int, left : SUBSET (AnyRow \X RamRowNumbers)]
ReadsOf(pl, c) == {<<e, pl.src_row[e]>>: e \in InChunk(pl, pl.ssd, c)}

\* Requests that were given up come first, the others in the order of their chunks.
\* What is left of one given up are reads of spoiled experts, or another layer's.
QueueInv ==
    /\ queue \in Seq(Request)
    /\ \A i \in DOMAIN queue: queue[i].left # {}
    /\ \A i \in DOMAIN queue:
          queue[i].chunk = Abandoned =>
             \A x \in queue[i].left: x[1] \in spoiled \union {None}
    /\ \A i \in DOMAIN queue: queue[i].chunk # Abandoned =>
          /\ Busy /\ queue[i].chunk \in Oldest .. Newest
          /\ queue[i].left \subseteq ReadsOf(plan, queue[i].chunk)
    /\ \A i, j \in DOMAIN queue:
          i < j => queue[i].chunk = Abandoned \/ queue[i].chunk < queue[j].chunk

\* A row holds expert e, and no pending read will write it.
Settled(rows, q, row, e) ==
    /\ rows[row] = e
    /\ \A i \in DOMAIN q: \A x \in q[i].left: x[2] # row

\* The plan's read of e is pending and was not given up.
Awaited(q, pl, e) ==
    \E i \in DOMAIN q: q[i].chunk # Abandoned /\ <<e, pl.src_row[e]>> \in q[i].left

\* What was read is settled: in the RAM tier for good, in a shared row until
\* its chunk is over.
ReadsRight ==
    Busy => \A e \in plan.ssd \ spoiled:
       /\ plan.chunk[e] <= Newest /\ ~ Awaited(queue, plan, e)
       /\ plan.src_row[e] < R \/ plan.chunk[e] >= chunk
       => Settled(ramRows, queue, plan.src_row[e], e)

\* What is copied without a read is settled until it has been copied.
SourcesRight ==
    Busy => \A e \in plan.todo \ (plan.skip \union plan.cached \union spoiled):
       plan.chunk[e] > chunk \/ (plan.chunk[e] = chunk /\ gpu = "copy")
       => Settled(ramRows, queue, plan.src_row[e], e)

\* So is every slot of the RAM tier the plan does not read to.
RamRight ==
    \A i \in SlotsOf(ram):
       ram.expert_in[i] \notin spoiled \union plan.ssd \union {None}
       => Settled(ramRows, queue, i, ram.expert_in[i])

\* An expert of the VRAM table has its row in the slab, or its copy is due.
Due(e) == plan.kind = "decode" /\ e \in plan.todo /\ gpu \in {"copy", "wait", "late"}
SlabRight ==
    \A i \in SlotsOf(vram):
       vram.expert_in[i] \notin spoiled \union {None} /\ ~ Due(vram.expert_in[i])
       => slab[i] = vram.expert_in[i]

\* The place of an expert in a list.
Place(list, e) == Cardinality({f \in list: f < e})

\* What decode has copied before the wait: to the staging if it is compressed.
HalfRight ==
    plan.kind = "decode" /\ gpu \in {"wait", "late"} =>
       \A e \in plan.todo \ (plan.skip \union spoiled):
          IF Compress THEN staging[Place(plan.todo, e)] = e ELSE slab[plan.dst_row[e]] = e

\* What prefill has copied to the working slab.
WorkRight ==
    plan.kind = "prefill" =>
       /\ gpu \in {"wait", "late"} =>
             \A e \in plan.todo \ spoiled: plan.chunk[e] = chunk => work[plan.dst_row[e]] = e
       /\ gpu = "run" =>
             \A e \in plan.need \ spoiled: plan.chunk[e] = chunk => work[plan.dst_row[e]] = e

Tables == TypeOK /\ TableInv(S, vram) /\ TableInv(R, ram)

IInv == /\ Tables /\ PlanInv /\ QueueInv /\ ReadsRight /\ SourcesRight /\ RamRight
        /\ SlabRight /\ HalfRight /\ WorkRight

-----------------------------------------------------------------------------
(* The queue.                                                              *)

LEMMA QueueTypes ==
    ASSUME NEW q \in Seq(Request)
    PROVE  /\ Len(q) \in Nat /\ DOMAIN q = 1 .. Len(q)
           /\ \A i \in DOMAIN q: /\ q[i] \in Request /\ q[i].chunk \in Int
                                 /\ q[i].left \subseteq AnyRow \X RamRowNumbers
<1>1. Len(q) \in Nat /\ DOMAIN q = 1 .. Len(q)
  BY LenProperties
<1>2. \A i \in DOMAIN q: q[i] \in Request
  BY <1>1, ElementOfSeq
<1>3. \A x \in Request: x.chunk \in Int /\ x.left \subseteq AnyRow \X RamRowNumbers
  BY DEF Request
<1> QED
  BY <1>1, <1>2, <1>3

\* Published appends the reads of the chunk, if it has any.
LEMMA PublishedQueue ==
    ASSUME NEW q \in Seq(Request), NEW pl, PlanSets(pl), NEW c \in Nat,
           NEW q2, q2 = Published(q, pl, c)
    PROVE  /\ q2 \in Seq(Request) /\ Len(q2) \in Nat /\ DOMAIN q2 = 1 .. Len(q2)
           /\ DOMAIN q = 1 .. Len(q) /\ Len(q) \in Nat
           /\ Len(q) <= Len(q2) /\ Len(q2) <= Len(q) + 1
           /\ \A i \in DOMAIN q: i \in DOMAIN q2 /\ q2[i] = q[i]
           /\ \A i \in DOMAIN q2: i \notin DOMAIN q =>
                 /\ i = Len(q) + 1 /\ q2[i].chunk = c
                 /\ q2[i].left = ReadsOf(pl, c) /\ q2[i].left # {}
           /\ \A e \in InChunk(pl, pl.ssd, c):
                 \E i \in DOMAIN q2: q2[i].chunk = c /\ <<e, pl.src_row[e]>> \in q2[i].left
<1> DEFINE list == InChunk(pl, pl.ssd, c)
           new == [chunk |-> c, left |-> ReadsOf(pl, c)]
<1>1. DOMAIN q = 1 .. Len(q) /\ Len(q) \in Nat
  BY QueueTypes
<1>2. CASE list = {}
  <2>1. q2 = q
    BY <1>2 DEF Published
  <2> QED
    BY <2>1, <1>1, <1>2
<1>3. CASE list # {}
  <2>1. q2 = Append(q, new)
    BY <1>3 DEF Published, ReadsOf
  <2>2. ReadsOf(pl, c) \subseteq AnyRow \X RamRowNumbers
    BY DEF ReadsOf, InChunk, PlanSets, AnyRow
  <2>3. new \in Request
    BY <2>2 DEF Request
  <2> HIDE DEF new, list
  <2>4. /\ q2 \in Seq(Request) /\ Len(q2) = Len(q) + 1
        /\ \A i \in 1 .. Len(q): q2[i] = q[i]
        /\ q2[Len(q) + 1] = new
    BY <2>1, <2>3, AppendProperties
  <2>5. DOMAIN q2 = 1 .. (Len(q) + 1)
    BY <2>4, <1>1, LenProperties
  <2>6. new.chunk = c /\ new.left = ReadsOf(pl, c)
    BY DEF new
  <2>7. \A e \in list: <<e, pl.src_row[e]>> \in ReadsOf(pl, c)
    BY DEF ReadsOf, list
  <2>8. ReadsOf(pl, c) # {}
    BY <2>7, <1>3
  <2>9. Len(q) + 1 \in DOMAIN q2 /\ Len(q2) \in Nat /\ DOMAIN q2 = 1 .. Len(q2)
    BY <2>4, <2>5, <1>1
  <2>10. \A i \in DOMAIN q2: i \notin DOMAIN q => i = Len(q) + 1
    BY <2>5, <1>1
  <2>11. \A e \in list:
            \E i \in DOMAIN q2: q2[i].chunk = c /\ <<e, pl.src_row[e]>> \in q2[i].left
    BY <2>4, <2>6, <2>7, <2>9
  <2>12. \A i \in DOMAIN q: i \in DOMAIN q2 /\ q2[i] = q[i]
    BY <2>4, <2>5, <1>1
  <2> QED
    BY <1>1, <2>4, <2>6, <2>8, <2>9, <2>10, <2>11, <2>12 DEF list
<1> QED
  BY <1>2, <1>3

\* What ReadDone makes of the queue.
Served(q, r) ==
    LET left == Head(q).left \ {r}
    IN  IF left = {} THEN Tail(q) ELSE [q EXCEPT ![1].left = left]

\* The queue q2 is q without the read r of its first request.  Requests move up
\* by d places.
ReadOver(q, q2, r, d) ==
    /\ d \in {0, 1} /\ q2 \in Seq(Request) /\ DOMAIN q2 = 1 .. (Len(q) - d)
    /\ \A i \in DOMAIN q2: /\ i + d \in DOMAIN q /\ q2[i].chunk = q[i + d].chunk
                           /\ q2[i].left # {}
                           /\ q2[i].left = q[i + d].left \ (IF i + d = 1 THEN {r} ELSE {})
    /\ \A i \in DOMAIN q: \A x \in q[i].left:
          i # 1 \/ x # r => i - d \in DOMAIN q2 /\ x \in q2[i - d].left

LEMMA ReadDoneQueue ==
    ASSUME NEW q \in Seq(Request), q # <<>>, \A i \in DOMAIN q: q[i].left # {},
           NEW r \in Head(q).left, NEW q2, q2 = Served(q, r)
    PROVE  \E d \in {0, 1}: ReadOver(q, q2, r, d)
<1> DEFINE left == q[1].left \ {r}
<1>1. /\ Len(q) \in Nat /\ DOMAIN q = 1 .. Len(q)
      /\ \A i \in DOMAIN q: q[i] \in Request
  BY QueueTypes
<1>2. Len(q) >= 1 /\ Head(q) = q[1] /\ 1 \in DOMAIN q
  <2>1. Len(q) \in Nat \ {0}
    BY EmptySeq
  <2>2. Head(q) = q[1]
    OBVIOUS
  <2> QED
    BY <2>1, <2>2, <1>1
<1>3. CASE left = {}
  <2>1. q2 = Tail(q)
    BY <1>2, <1>3 DEF Served
  <2>2. /\ q2 \in Seq(Request) /\ Len(q2) = Len(q) - 1
        /\ \A i \in 1 .. Len(q2): q2[i] = q[i + 1]
    BY <2>1, HeadTailProperties
  <2>3. DOMAIN q2 = 1 .. (Len(q) - 1)
    BY <2>2, <1>1, <1>2, LenProperties
  <2>4. ASSUME NEW i \in DOMAIN q2
        PROVE  i + 1 \in DOMAIN q /\ i + 1 # 1 /\ q2[i] = q[i + 1]
    <3>1. i \in Int /\ 1 <= i /\ i <= Len(q) - 1
      BY <2>3, <1>1
    <3>2. i + 1 \in DOMAIN q /\ i + 1 # 1
      BY <3>1, <1>1
    <3>3. i \in 1 .. Len(q2)
      BY <3>1, <2>2, <1>1
    <3> QED
      BY <3>2, <3>3, <2>2
  <2>5. \A i \in DOMAIN q2: /\ i + 1 \in DOMAIN q /\ q2[i].chunk = q[i + 1].chunk
                            /\ q2[i].left # {}
                            /\ q2[i].left = q[i + 1].left \ (IF i + 1 = 1 THEN {r} ELSE {})
    BY <2>4
  <2>6. ASSUME NEW i \in DOMAIN q, NEW x \in q[i].left, i # 1 \/ x # r
        PROVE  i - 1 \in DOMAIN q2 /\ x \in q2[i - 1].left
    <3>1. i # 1
      BY <2>6, <1>3
    <3>2. i - 1 \in DOMAIN q2 /\ (i - 1) + 1 = i
      BY <3>1, <1>1, <2>3
    <3> QED
      BY <3>2, <2>4
  <2>7. ReadOver(q, q2, r, 1)
    BY <2>2, <2>3, <2>5, <2>6 DEF ReadOver
  <2> QED
    BY <2>7
<1>4. CASE left # {}
  <2>1. q2 = [q EXCEPT ![1].left = left]
    BY <1>2, <1>4 DEF Served
  <2> DEFINE new == [q[1] EXCEPT !.left = left]
  <2>2. q2 = [q EXCEPT ![1] = new]
    BY <2>1
  <2>3. new \in Request /\ new.chunk = q[1].chunk /\ new.left = left
    BY <1>1, <1>2 DEF Request
  <2> HIDE DEF new
  <2>4. /\ q2 \in Seq(Request) /\ Len(q2) = Len(q)
        /\ \A j \in 1 .. Len(q): q2[j] = IF j = 1 THEN new ELSE q[j]
    <3>1. 1 \in 1 .. Len(q)
      BY <1>1, <1>2
    <3> QED
      BY <2>2, <2>3, <3>1, ExceptSeq
  <2>5. DOMAIN q2 = 1 .. (Len(q) - 0) /\ DOMAIN q2 = DOMAIN q
    <3>1. DOMAIN q2 = 1 .. Len(q2)
      BY <2>4, LenProperties
    <3> QED
      BY <3>1, <2>4, <1>1
  <2>6. \A i \in DOMAIN q2: i + 0 = i /\ i - 0 = i
    BY <2>5
  <2>7. q2[1] = new
    BY <2>4, <1>1, <1>2
  <2>8. \A i \in DOMAIN q2: i # 1 => q2[i] = q[i]
    BY <2>4, <2>5, <1>1
  <2>9. \A i \in DOMAIN q2: /\ i \in DOMAIN q /\ q2[i].chunk = q[i].chunk
                            /\ q2[i].left # {}
                            /\ q2[i].left = q[i].left \ (IF i = 1 THEN {r} ELSE {})
    BY <2>3, <2>5, <2>7, <2>8, <1>4
  <2>10. \A i \in DOMAIN q: \A x \in q[i].left:
            i # 1 \/ x # r => i \in DOMAIN q2 /\ x \in q2[i].left
    BY <2>5, <2>9
  <2>11. ReadOver(q, q2, r, 0)
    BY <2>4, <2>5, <2>6, <2>9, <2>10 DEF ReadOver
  <2> QED
    BY <2>11
<1> QED
  BY <1>3, <1>4

-----------------------------------------------------------------------------
(* The plans.                                                              *)

LEMMA Bounds ==
    /\ E \in Nat /\ S \in Nat /\ R \in Nat /\ W \in Nat \ {0}
    /\ 1 <= S /\ S <= R /\ R <= E
    /\ 0 .. (R - 1) \subseteq RamRowNumbers
BY PagerAssumption DEF RamRowNumbers

LEMMA TableFacts ==
    ASSUME NEW size \in Nat, NEW t, TableInv(size, t)
    PROVE  /\ SlotsOf(t) = 0 .. (size - 1)
           /\ \A e \in Experts: t.slot_of[e] # None =>
                 t.slot_of[e] \in SlotsOf(t) /\ t.expert_in[t.slot_of[e]] = e
           /\ \A i \in SlotsOf(t): t.expert_in[i] # None =>
                 t.expert_in[i] \in Experts /\ t.slot_of[t.expert_in[i]] = i
           /\ \A e, f \in Experts: t.slot_of[e] # None /\ t.slot_of[e] = t.slot_of[f] => e = f
           /\ t.slot_of \in [Experts -> {None} \union 0 .. (size - 1)]
           /\ t \in TableType(size) /\ None \notin SlotsOf(t) /\ None \notin Experts
<1>1. t \in TableType(size) /\ IsInverse(t)
  BY DEF TableInv
<1>2. SlotsOf(t) = 0 .. (size - 1)
  BY <1>1, SlotsOfTable
<1>3. /\ t.slot_of \in [Experts -> {None} \union 0 .. (size - 1)]
      /\ t.expert_in \in [0 .. (size - 1) -> {None} \union Experts]
  BY <1>1 DEF TableType
<1>4. \A e \in Experts: t.slot_of[e] # None =>
         t.slot_of[e] \in SlotsOf(t) /\ t.expert_in[t.slot_of[e]] = e
  BY <1>1, <1>2, <1>3 DEF IsInverse
<1>5. \A i \in SlotsOf(t): t.expert_in[i] # None =>
         t.expert_in[i] \in Experts /\ t.slot_of[t.expert_in[i]] = i
  BY <1>1, <1>2, <1>3 DEF IsInverse
<1>6. None \notin SlotsOf(t) /\ None \notin Experts
  BY <1>2, ExpertsAssumption DEF None, Experts
<1> QED
  BY <1>1, <1>2, <1>3, <1>4, <1>5, <1>6

\* What holds when a plan is adopted and the tables v and r become v2 and r2.
PlanStarts(pl, v, v2, r, r2) ==
    /\ TableInv(S, v2) /\ TableInv(R, r2)
    /\ PlanSets(pl) /\ PlanKind(pl, v2) /\ PlanApart(pl, r2)
    /\ \A i \in SlotsOf(r2): r2.expert_in[i] \notin pl.ssd \union {None} =>
          i \in SlotsOf(r) /\ r2.expert_in[i] = r.expert_in[i]
    /\ \A e \in pl.todo \ (pl.skip \union pl.cached):
          pl.src_row[e] \in SlotsOf(r) /\ r.expert_in[pl.src_row[e]] = e
    /\ \A i \in SlotsOf(v2): v2.expert_in[i] # None =>
          \/ pl.kind = "decode" /\ v2.expert_in[i] \in pl.todo
          \/ i \in SlotsOf(v) /\ v2.expert_in[i] = v.expert_in[i]

\* The occupant of a slot was there before, if acquire did not place it.
LEMMA OccupantsStay ==
    ASSUME NEW size \in Nat, NEW t, TableInv(size, t), NEW ids \in SUBSET Experts,
           Cardinality(ids) <= size, NEW u, u = Acquire(t, ids), NEW i \in SlotsOf(u),
           u.expert_in[i] \notin Misses(t, ids) \union {None}
    PROVE  i \in SlotsOf(t) /\ u.expert_in[i] = t.expert_in[i]
<1> DEFINE e == u.expert_in[i]
<1>1. TableInv(size, u)
  BY AcquireKeeps
<1>2. e \in Experts /\ u.slot_of[e] = i /\ i # None /\ SlotsOf(u) = SlotsOf(t)
  BY <1>1, TableFacts
<1>3. u.slot_of[e] = t.slot_of[e]
  <2>1. t \in TableType(size)
    BY DEF TableInv
  <2>2. \A f \in Experts: Acquire(t, ids).slot_of[f] # None =>
           Acquire(t, ids).slot_of[f] = t.slot_of[f] \/ f \in Misses(t, ids)
    BY <2>1, OnlyMissesGetSlots
  <2> QED
    BY <2>2, <1>2
<1>4. t.expert_in[t.slot_of[e]] = e
  <2>1. e \in Experts /\ t.slot_of[e] # None
    BY <1>2, <1>3
  <2> HIDE DEF e
  <2> QED
    BY <2>1, TableFacts
<1> QED
  BY <1>2, <1>3, <1>4

LEMMA DecodePlanStarts ==
    ASSUME NEW v, TableInv(S, v), NEW r, TableInv(R, r), NEW ids \in SUBSET Experts,
           Cardinality(ids) <= S, NEW v2, v2 = Acquire(v, ids), NEW r2, r2 = Acquire(r, ids),
           NEW pl, pl.kind = "decode", pl.chunks = 1, pl.need = ids,
           pl.chunk = [e \in Experts |-> 0], pl.dst_row = v2.slot_of, pl.src_row = r2.slot_of,
           pl.todo = Misses(v, ids), pl.ssd = Misses(r, ids), pl.skip = pl.ssd,
           pl.late = pl.ssd, pl.cached = {}
    PROVE  PlanStarts(pl, v, v2, r, r2)
<1>1. Cardinality(ids) \in Nat /\ Cardinality(ids) <= R
  BY MissesFinite, Bounds DEF TableInv
<1>2. TableInv(S, v2) /\ TableInv(R, r2)
  BY <1>1, AcquireKeeps, Bounds
<1>3. \A e \in ids: v2.slot_of[e] # None /\ r2.slot_of[e] # None
  <2>1. ids \subseteq Resident(v2) /\ ids \subseteq Resident(r2)
    BY <1>1, AcquireResident, Bounds
  <2> QED
    BY <2>1 DEF Resident
<1>4. /\ Misses(v, ids) \subseteq ids /\ Misses(r, ids) \subseteq ids
      /\ \A e \in ids: e \notin Misses(r, ids) => r.slot_of[e] # None
  BY DEF Misses
<1>5. \A e \in ids: r2.slot_of[e] \in 0 .. (R - 1) /\ r2.slot_of[e] \in RamRowNumbers
  BY <1>2, <1>3, TableFacts, Bounds
<1>6. PlanSets(pl)
  BY <1>4, <1>5 DEF PlanSets
<1>7. PlanKind(pl, v2)
  BY <1>3 DEF PlanKind
<1>8. PlanApart(pl, r2)
  <2>1. \A e, f \in ids: e # f => /\ v2.slot_of[e] # v2.slot_of[f]
                                  /\ r2.slot_of[e] # r2.slot_of[f]
    BY <1>2, <1>3, TableFacts, Bounds
  <2> QED
    BY <2>1, <1>3, <1>4 DEF PlanApart
<1>9. \A i \in SlotsOf(r2): r2.expert_in[i] \notin pl.ssd \union {None} =>
         i \in SlotsOf(r) /\ r2.expert_in[i] = r.expert_in[i]
  BY <1>1, OccupantsStay, Bounds
<1>10. ASSUME NEW e \in pl.todo \ (pl.skip \union pl.cached)
       PROVE  pl.src_row[e] \in SlotsOf(r) /\ r.expert_in[pl.src_row[e]] = e
  <2>1. e \in ids /\ e \in Experts /\ e \notin Misses(r, ids) /\ r.slot_of[e] # None
    BY <1>4
  <2>2. r2.slot_of[e] = r.slot_of[e]
    <3>1. r \in TableType(R)
      BY DEF TableInv
    <3> QED
      BY <3>1, <2>1, <1>1, <1>3, OnlyMissesGetSlots, Bounds
  <2> QED
    BY <2>1, <2>2, TableFacts, Bounds
<1>11. \A i \in SlotsOf(v2): v2.expert_in[i] # None =>
          \/ pl.kind = "decode" /\ v2.expert_in[i] \in pl.todo
          \/ i \in SlotsOf(v) /\ v2.expert_in[i] = v.expert_in[i]
  BY OccupantsStay, Bounds
<1> QED
  BY <1>2, <1>6, <1>7, <1>8, <1>9, <1>10, <1>11 DEF PlanStarts

LEMMA PrefillPlanStarts ==
    ASSUME NEW v, TableInv(S, v), NEW r, TableInv(R, r), NEW r2, TableInv(R, r2),
           NEW need \in SUBSET Experts,
           \A e \in Experts: r2.slot_of[e] # None /\ r.slot_of[e] = None => e \in need,
           NEW pc, pc = PlanChunks(r.slot_of, r2.slot_of, need, Resident(v), W, 0, R),
           NEW pl, pl.kind = "prefill", pl.chunks = NumChunks(W), pl.need = need,
           pl.chunk = pc.chunk, pl.dst_row = pc.dst_row, pl.src_row = pc.src_row,
           pl.todo = pc.todo, pl.ssd = pc.ssd, pl.skip = {}, pl.late = pc.late,
           pl.cached = Resident(v)
    PROVE  PlanStarts(pl, v, v, r, r2)
<1> DEFINE ssd == SsdReads(r.slot_of, r2.slot_of, need)
           C == NumChunks(W)
<1>1. /\ pc.ssd = ssd /\ pc.todo = need \ (ssd \ Resident(v))
      /\ pc.late = (need \intersect ssd) \ Resident(v)
  BY DEF PlanChunks
<1>2. ssd \subseteq Experts
  BY DEF SsdReads
<1>3. /\ \A e \in need \union ssd: /\ pc.chunk[e] \in 0 .. (C - 1)
                                   /\ pc.dst_row[e] \in 0 .. (W - 1)
                                   /\ pc.src_row[e] \in 0 .. (R + 2 * W - 1)
      /\ \A e, f \in need \union ssd:
            pc.chunk[e] = pc.chunk[f] /\ pc.dst_row[e] = pc.dst_row[f] => e = f
      /\ \A e, f \in ssd: e # f /\ pc.src_row[e] = pc.src_row[f] =>
            /\ pc.src_row[e] >= R
            /\ pc.chunk[f] > pc.chunk[e] + 1 \/ pc.chunk[e] > pc.chunk[f] + 1
      /\ \A e \in need \ ssd, f \in ssd: pc.chunk[e] < pc.chunk[f]
      /\ \A e \in need \ ssd: r.slot_of[e] # None /\ pc.src_row[e] = r.slot_of[e]
      /\ \A e \in ssd: IF r2.slot_of[e] # None THEN pc.src_row[e] = r2.slot_of[e]
                       ELSE pc.src_row[e] >= R
  <2>1. /\ r.slot_of \in [Experts -> {None} \union 0 .. (R - 1)]
        /\ r2.slot_of \in [Experts -> {None} \union 0 .. (R - 1)]
        /\ \A e, f \in Experts: r2.slot_of[e] # None /\ r2.slot_of[e] = r2.slot_of[f] => e = f
    BY TableFacts, Bounds
  <2>2. PICK x \in [Experts -> {None} \union 0 .. (R - 1)]: x = r.slot_of
    BY <2>1
  <2>3. PICK y \in [Experts -> {None} \union 0 .. (R - 1)]: y = r2.slot_of
    BY <2>1
  <2>4. pc = PlanChunks(x, y, need, Resident(v), W, 0, R) /\ ssd = SsdReads(x, y, need)
    BY <2>2, <2>3
  <2>5. \A e, f \in Experts: y[e] # None /\ y[e] = y[f] => e = f
    BY <2>1, <2>3
  <2> HIDE DEF ssd
  <2> QED
    <3>1. R \in Nat /\ W \in Nat \ {0}
      BY Bounds
    <3>2. ChunksApart(PlanChunks(x, y, need, Resident(v), W, 0, R), SsdReads(x, y, need),
                      x, y, need, W, R)
      BY <3>1, <2>5, ChunkPlan
    <3>3. ChunksApart(pc, ssd, r.slot_of, r2.slot_of, need, W, R)
      BY <3>2, <2>2, <2>3, <2>4
    <3> QED
      BY <3>3 DEF ChunksApart
<1>4. C \in Nat \ {0}
  <2>1. E + W - 1 \in Nat /\ W \in Nat \ {0}
    BY Bounds
  <2>2. (E + W - 1) \div W \in Nat
    BY <2>1, DivMod
  <2> QED
    BY <2>2 DEF NumChunks
<1> HIDE DEF ssd, C
<1>5. PlanSets(pl)
  BY <1>1, <1>2, <1>3, <1>4 DEF PlanSets, RamRowNumbers, C
<1>6. PlanKind(pl, v)
  BY <1>1, <1>3 DEF PlanKind
<1>7. PlanApart(pl, r2)
  BY <1>1, <1>3 DEF PlanApart
<1>8. ASSUME NEW i \in SlotsOf(r2), r2.expert_in[i] \notin pl.ssd \union {None}
      PROVE  i \in SlotsOf(r) /\ r2.expert_in[i] = r.expert_in[i]
  <2> DEFINE e == r2.expert_in[i]
  <2>1. e \in Experts /\ r2.slot_of[e] = i /\ i # None /\ SlotsOf(r2) = SlotsOf(r)
    BY <1>8, TableFacts, Bounds
  <2>2. r.slot_of[e] = i
    <3>1. e \notin SsdReads(r.slot_of, r2.slot_of, need)
      BY <1>1, <1>8 DEF ssd
    <3> QED
      BY <3>1, <2>1, NewSlotsAreRead
  <2>3. r.expert_in[r.slot_of[e]] = e
    BY <2>1, <2>2, TableFacts, Bounds
  <2> QED
    BY <2>1, <2>2, <2>3
<1>9. \A e \in pl.todo \ (pl.skip \union pl.cached):
         pl.src_row[e] \in SlotsOf(r) /\ r.expert_in[pl.src_row[e]] = e
  <2>1. \A e \in pl.todo \ (pl.skip \union pl.cached): e \in need \ ssd
    BY <1>1
  <2> QED
    BY <2>1, <1>3, TableFacts, Bounds
<1> QED
  BY <1>5, <1>6, <1>7, <1>8, <1>9 DEF PlanStarts

LEMMA StartAdopts ==
    ASSUME Tables, StartDecode \/ StartPrefillAcquire \/ StartPrefillSeed
    PROVE  gpu = "idle" /\ \E pl: Begin(pl) /\ PlanStarts(pl, vram, vram', ram, ram')
<1>1. TableInv(S, vram) /\ TableInv(R, ram)
  BY DEF Tables
<1>2. CASE StartDecode
  <2>1. PICK ids \in SUBSET Experts: /\ Cardinality(ids) <= S
                                     /\ vram' = Acquire(vram, ids)
                                     /\ ram' = Acquire(ram, ids)
                                     /\ Begin(DecodePlan(ids))
    BY <1>2 DEF StartDecode
  <2>2. PICK pl: pl = DecodePlan(ids)
    OBVIOUS
  <2>3. /\ pl.kind = "decode" /\ pl.chunks = 1 /\ pl.need = ids
        /\ pl.chunk = [e \in Experts |-> 0] /\ pl.dst_row = vram'.slot_of
        /\ pl.src_row = ram'.slot_of /\ pl.todo = Misses(vram, ids)
        /\ pl.ssd = Misses(ram, ids) /\ pl.skip = pl.ssd /\ pl.late = pl.ssd /\ pl.cached = {}
    BY <2>2 DEF DecodePlan
  <2>4. PlanStarts(pl, vram, vram', ram, ram')
    BY <1>1, <2>1, <2>3, DecodePlanStarts
  <2> QED
    BY <1>2, <2>1, <2>2, <2>4 DEF StartDecode
<1>3. ASSUME NEW need \in SUBSET Experts, TableInv(R, ram)', UNCHANGED vram,
             \A e \in Experts: ram'.slot_of[e] # None /\ ram.slot_of[e] = None => e \in need
      PROVE  PlanStarts(PrefillPlan(need), vram, vram', ram, ram')
  <2>1. PICK pl: pl = PrefillPlan(need)
    OBVIOUS
  <2>2. PICK pc: pc = PlanChunks(ram.slot_of, ram'.slot_of, need, Resident(vram), W, 0, R)
    OBVIOUS
  <2>3. /\ pl.kind = "prefill" /\ pl.chunks = NumChunks(W) /\ pl.need = need
        /\ pl.chunk = pc.chunk /\ pl.dst_row = pc.dst_row /\ pl.src_row = pc.src_row
        /\ pl.todo = pc.todo /\ pl.ssd = pc.ssd /\ pl.skip = {} /\ pl.late = pc.late
        /\ pl.cached = Resident(vram)
    BY <2>1, <2>2 DEF PrefillPlan
  <2>4. PICK v: v = vram
    OBVIOUS
  <2>5. PICK r: r = ram
    OBVIOUS
  <2>6. PICK r2: r2 = ram'
    OBVIOUS
  <2>7. TableInv(S, v) /\ TableInv(R, r) /\ TableInv(R, r2)
    BY <1>1, <1>3, <2>4, <2>5, <2>6
  <2>8. /\ \A e \in Experts: r2.slot_of[e] # None /\ r.slot_of[e] = None => e \in need
        /\ pc = PlanChunks(r.slot_of, r2.slot_of, need, Resident(v), W, 0, R)
        /\ pl.cached = Resident(v)
    BY <1>3, <2>2, <2>3, <2>4, <2>5, <2>6
  <2>9. PlanStarts(pl, v, v, r, r2)
    BY <2>3, <2>7, <2>8, PrefillPlanStarts
  <2> QED
    BY <1>3, <2>1, <2>4, <2>5, <2>6, <2>9
<1>4. CASE StartPrefillAcquire
  <2>1. PICK ids \in SUBSET Experts: /\ Cardinality(ids) <= R
                                     /\ ram' = Acquire(ram, ids)
                                     /\ Begin(PrefillPlan(ids))
    BY <1>4 DEF StartPrefillAcquire
  <2>2. TableInv(R, ram)'
    BY <1>1, <2>1, AcquireKeeps, Bounds
  <2>3. \A e \in Experts: ram'.slot_of[e] # None /\ ram.slot_of[e] = None => e \in ids
    <3>1. ram \in TableType(R)
      BY <1>1 DEF TableInv
    <3> QED
      BY <2>1, <3>1, OnlyMissesGetSlots, Bounds DEF Misses
  <2> QED
    BY <1>3, <1>4, <2>1, <2>2, <2>3 DEF StartPrefillAcquire
<1>5. CASE StartPrefillSeed
  <2> DEFINE counts(need) == [e \in Experts |-> IF e \in need THEN 1 ELSE 0]
  <2>1. PICK need \in SUBSET Experts:
           need # {} /\ ram' \in Seed(ram, vram, counts(need)) /\ Begin(PrefillPlan(need))
    BY <1>5 DEF StartPrefillSeed
  <2>2. PICK cs \in [Experts -> Nat]: cs = counts(need)
    OBVIOUS
  <2>3. \A e \in Experts: cs[e] = IF e \in need THEN 1 ELSE 0
    BY <2>2
  <2>4. ram' \in Seed(ram, vram, cs)
    BY <2>1, <2>2
  <2>5. \E top, r1, ids: SeedStep(R, S, ram, cs, ram', top, r1, ids)
    BY <1>1, <2>4, SeedSteps, Bounds
  <2>6. PICK top, r1, ids: SeedStep(R, S, ram, cs, ram', top, r1, ids)
    BY <2>5
  <2>7. TableInv(R, ram)'
    <3>1. PICK u: u = ram' /\ SeedStep(R, S, ram, cs, u, top, r1, ids)
      BY <2>6
    <3>2. TableInv(R, u)
      BY <1>1, <3>1, SeedKeeps, Bounds
    <3> QED
      BY <3>1, <3>2
  <2>8. \E f \in Experts: cs[f] > 0
    <3>1. PICK f: f \in need
      BY <2>1
    <3>2. f \in Experts /\ cs[f] = 1
      BY <2>1, <2>3, <3>1
    <3> QED
      BY <3>2
  <2>9. ASSUME NEW e \in Experts, ram'.slot_of[e] # None, ram.slot_of[e] = None
        PROVE  e \in need
    <3>1. cs[e] > 0
      BY <1>1, <2>6, <2>8, <2>9, SeedPlacesNeeded, Bounds
    <3> QED
      BY <2>3, <3>1
  <2> QED
    BY <1>3, <1>5, <2>1, <2>7, <2>9 DEF StartPrefillSeed
<1> QED
  BY <1>2, <1>4, <1>5

-----------------------------------------------------------------------------
(* Settled rows.                                                           *)

\* A row stays settled while nobody writes it and no read of it is added.
LEMMA SettledStays ==
    ASSUME NEW rows, NEW rows2, NEW q, NEW q2, NEW row, NEW e,
           Settled(rows, q, row, e), rows2[row] = rows[row],
           \A i \in DOMAIN q2: \A x \in q2[i].left:
              x[2] = row => \E k \in DOMAIN q: x \in q[k].left
    PROVE  Settled(rows2, q2, row, e)
BY DEF Settled

LEMMA SettledPublished ==
    ASSUME NEW q \in Seq(Request), NEW pl, PlanSets(pl), NEW c \in Nat,
           NEW q2, q2 = Published(q, pl, c), NEW rows, NEW rows2, NEW row, NEW e,
           Settled(rows, q, row, e), rows2[row] = rows[row],
           \A f \in InChunk(pl, pl.ssd, c): pl.src_row[f] # row
    PROVE  Settled(rows2, q2, row, e)
<1> SUFFICES ASSUME NEW i \in DOMAIN q2, NEW x \in q2[i].left, x[2] = row
             PROVE  \E k \in DOMAIN q: x \in q[k].left
  BY SettledStays
<1>1. CASE i \in DOMAIN q
  <2>1. q2[i] = q[i]
    BY <1>1, PublishedQueue
  <2> QED
    BY <1>1, <2>1
<1>2. CASE i \notin DOMAIN q
  <2>1. q2[i].left = ReadsOf(pl, c)
    BY <1>2, PublishedQueue
  <2>2. PICK f \in InChunk(pl, pl.ssd, c): x = <<f, pl.src_row[f]>>
    BY <2>1 DEF ReadsOf
  <2>3. x[2] = pl.src_row[f]
    BY <2>2
  <2> QED
    BY <2>3
<1> QED
  BY <1>1, <1>2

\* A new forward step.  Nothing is pending but reads that were given up, and the
\* plan copies and overwrites slots of settled rows.
LEMMA BeginKeeps ==
    ASSUME IInv, gpu = "idle", NEW pl, Begin(pl), PlanStarts(pl, vram, vram', ram, ram')
    PROVE  IInv'
<1> DEFINE rows == [i \in RamRowNumbers |-> IF i < R THEN ramRows[i] ELSE None]
<1>1. /\ ramRows' = rows /\ plan' = pl /\ chunk' = 0 /\ ran' = {} /\ gpu' = "copy"
      /\ queue' = Published(queue, pl, 0)
      /\ UNCHANGED <<slab, giveUps, fails, spoiled, wrong>>
  BY DEF Begin, SharedRowsLost
<1>2. /\ PlanSets(pl) /\ PlanKind(pl, vram') /\ PlanApart(pl, ram')
      /\ TableInv(S, vram') /\ TableInv(R, ram')
  BY DEF PlanStarts
<1>3. plan = NoPlan /\ queue \in Seq(Request)
  BY DEF IInv, PlanInv, QueueInv, Busy
<1>4. plan.kind = "none" /\ plan.ssd = {}
  BY <1>3 DEF NoPlan
<1>5. \A i \in 0 .. (R - 1): rows[i] = ramRows[i]
  BY Bounds
<1> HIDE DEF rows
<1>6. Tables'
  <2>1. TypeOK
    BY DEF IInv, Tables
  <2>2. vram' \in TableType(S) /\ ram' \in TableType(R)
    BY <1>2 DEF TableInv
  <2>3. ramRows' \in [RamRowNumbers -> AnyRow]
    <3>1. \A i \in RamRowNumbers: ramRows[i] \in AnyRow
      BY <2>1 DEF TypeOK
    <3> QED
      BY <3>1, <1>1 DEF rows, AnyRow
  <2>4. work' \in [0 .. (W - 1) -> AnyRow] /\ staging' \in [StagingRows -> AnyRow]
    <3>1. work \in [0 .. (W - 1) -> AnyRow]
      BY <2>1 DEF TypeOK
    <3> QED
      BY <3>1 DEF Begin, SharedRowsLost, AnyRow
  <2>5. TypeOK'
    BY <2>1, <2>2, <2>3, <2>4, <1>1 DEF TypeOK
  <2> QED
    BY <2>5, <1>2 DEF Tables
<1>7. PlanInv'
  BY <1>1, <1>2 DEF PlanInv, Busy, PlanSets
<1>8. \A i \in DOMAIN queue:
         queue[i].chunk = Abandoned /\ \A x \in queue[i].left: x[1] \in spoiled \union {None}
  BY DEF IInv, QueueInv, Busy
<1>9. /\ queue' \in Seq(Request) /\ DOMAIN queue' = 1 .. Len(queue')
      /\ Len(queue) \in Nat /\ Len(queue') \in Nat
      /\ DOMAIN queue = 1 .. Len(queue)
      /\ \A i \in DOMAIN queue: i \in DOMAIN queue' /\ queue'[i] = queue[i]
      /\ \A i \in DOMAIN queue': i \notin DOMAIN queue =>
            /\ i = Len(queue) + 1 /\ queue'[i].chunk = 0
            /\ queue'[i].left = ReadsOf(pl, 0) /\ queue'[i].left # {}
      /\ \A e \in InChunk(pl, pl.ssd, 0):
            \E i \in DOMAIN queue': queue'[i].chunk = 0 /\ <<e, pl.src_row[e]>> \in queue'[i].left
  BY <1>1, <1>2, <1>3, PublishedQueue
<1>10. Abandoned # 0
  BY DEF Abandoned
<1>11. QueueInv'
  <2>1. \A i \in DOMAIN queue: queue[i].left # {}
    BY DEF IInv, QueueInv
  <2>2. \A i \in DOMAIN queue': queue'[i].left # {}
    BY <2>1, <1>9
  <2>3. \A i \in DOMAIN queue':
           queue'[i].chunk = Abandoned =>
              \A x \in queue'[i].left: x[1] \in spoiled' \union {None}
    BY <1>1, <1>8, <1>9, <1>10
  <2>4. \A i \in DOMAIN queue': queue'[i].chunk # Abandoned =>
           /\ Busy' /\ queue'[i].chunk \in Oldest' .. Newest'
           /\ queue'[i].left \subseteq ReadsOf(plan', queue'[i].chunk)
    BY <1>1, <1>8, <1>9 DEF Busy, Oldest, Newest
  <2>5. \A i, j \in DOMAIN queue':
           i < j => queue'[i].chunk = Abandoned \/ queue'[i].chunk < queue'[j].chunk
    BY <1>8, <1>9
  <2> QED
    BY <2>2, <2>3, <2>4, <2>5, <1>9 DEF QueueInv
<1>12. ReadsRight'
  <2>1. \A e \in pl.ssd: pl.chunk[e] <= 0 => Awaited(queue', pl, e)
    <3> SUFFICES ASSUME NEW e \in pl.ssd, pl.chunk[e] <= 0
                 PROVE  Awaited(queue', pl, e)
      OBVIOUS
    <3>1. pl.chunk[e] = 0
      BY <1>2 DEF PlanSets
    <3>2. e \in InChunk(pl, pl.ssd, 0)
      BY <3>1 DEF InChunk
    <3> QED
      BY <3>2, <1>9, <1>10 DEF Awaited
  <2> QED
    BY <2>1, <1>1 DEF ReadsRight, Newest
<1>13. SlotsOf(ram) = 0 .. (R - 1) /\ SlotsOf(ram') = 0 .. (R - 1)
  BY <1>2, TableFacts, Bounds DEF IInv, Tables
<1>14. ASSUME NEW i \in SlotsOf(ram), ram.expert_in[i] \notin spoiled \union {None},
              \A f \in InChunk(pl, pl.ssd, 0): pl.src_row[f] # i
       PROVE  Settled(ramRows', queue', i, ram.expert_in[i])
  <2>1. Settled(ramRows, queue, i, ram.expert_in[i])
    BY <1>4, <1>14 DEF IInv, RamRight
  <2>2. ramRows'[i] = ramRows[i]
    BY <1>1, <1>5, <1>13
  <2> QED
    BY <2>1, <2>2, <1>1, <1>2, <1>3, <1>14, SettledPublished
<1>15. SourcesRight'
  <2> SUFFICES ASSUME NEW e \in pl.todo \ (pl.skip \union pl.cached \union spoiled)
               PROVE  Settled(ramRows', queue', pl.src_row[e], e)
    BY <1>1 DEF SourcesRight
  <2>1. pl.src_row[e] \in SlotsOf(ram) /\ ram.expert_in[pl.src_row[e]] = e
    BY DEF PlanStarts
  <2>2. e \in Experts /\ pl.chunk[e] >= 0 /\ pl.chunk[e] \in Int
    BY <1>2 DEF PlanSets
  <2>3. ASSUME NEW f \in InChunk(pl, pl.ssd, 0)
        PROVE  pl.src_row[f] # pl.src_row[e]
    <3>1. f \in pl.ssd /\ pl.chunk[f] = 0
      BY DEF InChunk
    <3> QED
      BY <3>1, <2>2, <1>2 DEF PlanApart
  <2>4. e # None
    BY <2>2, Bounds DEF Experts, None
  <2> QED
    BY <2>1, <2>3, <2>4, <1>14
<1>16. RamRight'
  <2> SUFFICES ASSUME NEW i \in SlotsOf(ram'),
                      ram'.expert_in[i] \notin spoiled \union pl.ssd \union {None}
               PROVE  Settled(ramRows', queue', i, ram'.expert_in[i])
    BY <1>1 DEF RamRight
  <2>1. i \in SlotsOf(ram) /\ ram'.expert_in[i] = ram.expert_in[i]
    BY DEF PlanStarts
  <2>2. i < R /\ i # None /\ i \in Int
    BY <1>13, Bounds DEF None
  <2>3. ASSUME NEW f \in InChunk(pl, pl.ssd, 0)
        PROVE  pl.src_row[f] # i
    <3>1. f \in pl.ssd /\ f \in Experts
      BY <1>2 DEF InChunk, PlanSets
    <3>2. CASE ram'.slot_of[f] = None
      BY <3>1, <3>2, <2>2, <1>2, Bounds DEF PlanApart
    <3>3. CASE ram'.slot_of[f] # None
      <4>1. pl.src_row[f] = ram'.slot_of[f]
        BY <3>1, <3>3, <1>2 DEF PlanApart
      <4>2. ram'.expert_in[ram'.slot_of[f]] = f
        BY <3>1, <3>3, <1>2, TableFacts, Bounds
      <4> QED
        BY <4>1, <4>2, <3>1
    <3> QED
      BY <3>2, <3>3
  <2> QED
    BY <2>1, <2>3, <1>14
<1>17. SlabRight'
  <2> SUFFICES ASSUME NEW i \in SlotsOf(vram'),
                      vram'.expert_in[i] \notin spoiled \union {None},
                      ~ (pl.kind = "decode" /\ vram'.expert_in[i] \in pl.todo)
               PROVE  slab[i] = vram'.expert_in[i]
    BY <1>1 DEF SlabRight, Due
  <2>1. i \in SlotsOf(vram) /\ vram'.expert_in[i] = vram.expert_in[i]
    BY DEF PlanStarts
  <2> QED
    BY <2>1, <1>4 DEF IInv, SlabRight, Due
<1>18. HalfRight' /\ WorkRight'
  BY <1>1 DEF HalfRight, WorkRight
<1> QED
  BY <1>6, <1>7, <1>11, <1>12, <1>15, <1>16, <1>17, <1>18 DEF IInv

-----------------------------------------------------------------------------
(* Copies.                                                                 *)

LEMMA CopiedRows ==
    ASSUME NEW rows, NEW list, NEW skip,
           \A e, f \in list \ skip: plan.dst_row[e] = plan.dst_row[f] => e = f
    PROVE  /\ DOMAIN Copied(rows, list, skip) = DOMAIN rows
           /\ \A e \in list \ skip: plan.dst_row[e] \in DOMAIN rows /\ ~ Staged(e) =>
                 Copied(rows, list, skip)[plan.dst_row[e]] = Source(e)
           /\ \A i \in DOMAIN rows: (\A e \in list \ skip: plan.dst_row[e] = i => Staged(e)) =>
                 Copied(rows, list, skip)[i] = rows[i]
<1> DEFINE here(i) == {e \in list \ skip: plan.dst_row[e] = i /\ ~ Staged(e)}
<1>1. Copied(rows, list, skip) =
         [i \in DOMAIN rows |-> IF here(i) = {} THEN rows[i]
                                ELSE Source(CHOOSE e \in here(i): TRUE)]
  BY DEF Copied
<1>2. \A e \in list \ skip: ~ Staged(e) => here(plan.dst_row[e]) = {e}
  OBVIOUS
<1>3. \A i \in DOMAIN rows: (\A e \in list \ skip: plan.dst_row[e] = i => Staged(e)) => here(i) = {}
  OBVIOUS
<1> HIDE DEF here
<1>4. \A e: (CHOOSE x \in {e}: TRUE) = e
  OBVIOUS
<1> QED
  BY <1>1, <1>2, <1>3, <1>4

LEMMA GatheredRows ==
    ASSUME NEW list, NEW skip,
           \A e, f \in list: Index(list, e) = Index(list, f) => e = f
    PROVE  /\ DOMAIN Gathered(list, skip) = StagingRows
           /\ \A e \in list \ skip: Index(list, e) \in StagingRows /\ Staged(e) =>
                 Gathered(list, skip)[Index(list, e)] = Source(e)
           /\ \A j \in StagingRows: Gathered(list, skip)[j] = staging[j]
                 \/ \E e \in list \ skip: Gathered(list, skip)[j] = Source(e)
<1> DEFINE here(j) == {e \in list \ skip: Index(list, e) = j /\ Staged(e)}
<1>1. Gathered(list, skip) =
         [j \in StagingRows |-> IF here(j) = {} THEN staging[j]
                                ELSE Source(CHOOSE e \in here(j): TRUE)]
  BY DEF Gathered
<1>2. \A e \in list \ skip: Staged(e) => here(Index(list, e)) = {e}
  OBVIOUS
<1>3. \A j: here(j) \subseteq list \ skip
  OBVIOUS
<1> HIDE DEF here
<1>4. \A e: (CHOOSE x \in {e}: TRUE) = e
  OBVIOUS
<1>5. \A j: here(j) # {} => (CHOOSE x \in here(j): TRUE) \in here(j)
  OBVIOUS
<1>6. \A e \in list \ skip: Index(list, e) \in StagingRows /\ Staged(e) =>
         Gathered(list, skip)[Index(list, e)] = Source(e)
  BY <1>1, <1>2, <1>4
<1>7. \A j \in StagingRows: Gathered(list, skip)[j] = staging[j]
         \/ \E e \in list \ skip: Gathered(list, skip)[j] = Source(e)
  BY <1>1, <1>3, <1>5
<1> QED
  BY <1>1, <1>6, <1>7

LEMMA ExpandedRows ==
    ASSUME NEW rows, NEW st, NEW list, NEW skip,
           \A e, f \in list \ skip: plan.dst_row[e] = plan.dst_row[f] => e = f
    PROVE  /\ DOMAIN Expanded(rows, st, list, skip) = DOMAIN rows
           /\ \A e \in list \ skip: plan.dst_row[e] \in DOMAIN rows /\ Staged(e) =>
                 Expanded(rows, st, list, skip)[plan.dst_row[e]] = st[Index(list, e)]
           /\ \A i \in DOMAIN rows: (\A e \in list \ skip: plan.dst_row[e] = i => ~ Staged(e)) =>
                 Expanded(rows, st, list, skip)[i] = rows[i]
<1> DEFINE here(i) == {e \in list \ skip: plan.dst_row[e] = i /\ Staged(e)}
<1>1. Expanded(rows, st, list, skip) =
         [i \in DOMAIN rows |-> IF here(i) = {} THEN rows[i]
                                ELSE st[Index(list, CHOOSE e \in here(i): TRUE)]]
  BY DEF Expanded
<1>2. \A e \in list \ skip: Staged(e) => here(plan.dst_row[e]) = {e}
  OBVIOUS
<1>3. \A i \in DOMAIN rows: (\A e \in list \ skip: plan.dst_row[e] = i => ~ Staged(e)) => here(i) = {}
  OBVIOUS
<1> HIDE DEF here
<1>4. \A e: (CHOOSE x \in {e}: TRUE) = e
  OBVIOUS
<1> QED
  BY <1>1, <1>2, <1>3, <1>4

\* The rows the copies of a plan go to.
TargetRows == IF plan.kind = "decode" THEN 0 .. (S - 1) ELSE 0 .. (W - 1)

\* The experts of one chunk have rows and places in the staging of their own.
LEMMA ChunkIndex ==
    ASSUME Tables, PlanInv, Busy, NEW list, list \subseteq plan.need,
           \A e, f \in list: plan.chunk[e] = plan.chunk[f]
    PROVE  /\ \A e \in list: /\ plan.dst_row[e] \in TargetRows
                             /\ Index(list, e) \in StagingRows
           /\ \A e, f \in list: plan.dst_row[e] = plan.dst_row[f] => e = f
           /\ \A e, f \in list: Index(list, e) = Index(list, f) => e = f
<1>1. PlanSets(plan) /\ PlanKind(plan, vram) /\ PlanApart(plan, ram)
  BY DEF PlanInv
<1>2. \A e, f \in list: plan.dst_row[e] = plan.dst_row[f] => e = f
  BY <1>1 DEF PlanApart
<1>3. plan.kind \in {"decode", "prefill"} /\ plan.need \subseteq Experts
  BY <1>1 DEF PlanSets
<1>4. CASE plan.kind = "prefill"
  <2>1. \A e \in list: plan.dst_row[e] \in 0 .. (W - 1)
    BY <1>1, <1>4 DEF PlanKind
  <2>2. 0 .. (W - 1) \subseteq StagingRows
    BY Bounds DEF StagingRows
  <2>3. \A e: Index(list, e) = plan.dst_row[e]
    BY <1>4 DEF Index
  <2> QED
    BY <1>2, <1>4, <2>1, <2>2, <2>3 DEF TargetRows
<1>5. CASE plan.kind = "decode"
  <2>1. \A e \in list: plan.dst_row[e] \in 0 .. (S - 1)
    BY <1>1, <1>3, <1>5, TableFacts, Bounds DEF PlanKind, Tables
  <2>2. list \in SUBSET Experts /\ plan.need \in SUBSET Experts
    BY <1>3
  <2>3. IsFiniteSet(plan.need) /\ Cardinality(plan.need) \in Nat /\ Cardinality(plan.need) <= S
    BY <1>1, <1>5, <2>2, ListRanks DEF PlanKind
  <2>4. Cardinality(list) \in Nat /\ Cardinality(list) <= Cardinality(plan.need)
    BY <2>2, <2>3, ListRanks, FS_Subset
  <2>5. \A e: Index(list, e) = Cardinality({f \in list: f < e})
    BY <1>5 DEF Index
  <2>6. 0 .. (Cardinality(list) - 1) \subseteq StagingRows
    BY <2>3, <2>4, Bounds DEF StagingRows
  <2>7. /\ \A e \in list: Index(list, e) \in 0 .. (Cardinality(list) - 1)
        /\ \A e, f \in list: Index(list, e) = Index(list, f) => e = f
    <3>1. \A e \in list: Cardinality({f \in list: f < e}) \in 0 .. (Cardinality(list) - 1)
      BY <2>2, ListRanks
    <3>2. \A e, f \in list:
             Cardinality({g \in list: g < e}) = Cardinality({g \in list: g < f}) => e = f
      BY <2>2, ListRanks
    <3> QED
      BY <2>5, <3>1, <3>2, Zenon
  <2> QED
    BY <1>2, <1>5, <2>1, <2>6, <2>7 DEF TargetRows
<1> QED
  BY <1>3, <1>4, <1>5

\* The rows after the copy of a list.
CopiedInto(new, rows, list, skip) ==
    /\ DOMAIN new = TargetRows
    /\ \A e \in list \ skip: new[plan.dst_row[e]] = Source(e)
    /\ \A i \in TargetRows: (\A e \in list \ skip: plan.dst_row[e] # i) => new[i] = rows[i]

\* A list copied and expanded: each of its rows has its source, no other changes.
LEMMA CopyExpands ==
    ASSUME Tables, PlanInv, Busy, NEW list, list \subseteq plan.need,
           \A e, f \in list: plan.chunk[e] = plan.chunk[f], NEW skip, NEW rows, DOMAIN rows = TargetRows,
           NEW st, st = Gathered(list, skip),
           NEW new, new = Expanded(Copied(rows, list, skip), st, list, skip)
    PROVE  CopiedInto(new, rows, list, skip)
<1> DEFINE mid == Copied(rows, list, skip)
<1>1. /\ \A e \in list: plan.dst_row[e] \in TargetRows /\ Index(list, e) \in StagingRows
      /\ \A e, f \in list: plan.dst_row[e] = plan.dst_row[f] => e = f
      /\ \A e, f \in list: Index(list, e) = Index(list, f) => e = f
  BY ChunkIndex
<1>2. \A e, f \in list \ skip: plan.dst_row[e] = plan.dst_row[f] => e = f
  BY <1>1
<1>3. /\ DOMAIN mid = TargetRows
      /\ \A e \in list \ skip: ~ Staged(e) => mid[plan.dst_row[e]] = Source(e)
      /\ \A i \in TargetRows: (\A e \in list \ skip: plan.dst_row[e] = i => Staged(e)) =>
            mid[i] = rows[i]
  BY <1>1, <1>2, CopiedRows
<1> HIDE DEF mid
<1>4. \A e \in list \ skip: Staged(e) => st[Index(list, e)] = Source(e)
  BY <1>1, GatheredRows
<1>5. new = Expanded(mid, st, list, skip)
  BY DEF mid
<1>6. /\ DOMAIN new = TargetRows
      /\ \A e \in list \ skip: Staged(e) => new[plan.dst_row[e]] = st[Index(list, e)]
      /\ \A i \in TargetRows: (\A e \in list \ skip: plan.dst_row[e] = i => ~ Staged(e)) =>
            new[i] = mid[i]
  BY <1>1, <1>2, <1>3, <1>5, ExpandedRows
<1>7. ASSUME NEW e \in list \ skip
      PROVE  new[plan.dst_row[e]] = Source(e)
  <2>1. CASE Staged(e)
    BY <1>4, <1>6, <2>1
  <2>2. CASE ~ Staged(e)
    <3>1. \A f \in list \ skip: plan.dst_row[f] = plan.dst_row[e] => ~ Staged(f)
      BY <1>2, <2>2
    <3> QED
      BY <1>1, <1>3, <1>6, <2>2, <3>1
  <2> QED
    BY <2>1, <2>2
<1> QED
  BY <1>3, <1>6, <1>7 DEF CopiedInto

LEMMA CopyTypes ==
    ASSUME Tables, PlanInv, Busy, NEW list, list \subseteq plan.need, NEW skip, NEW N,
           NEW rows \in [0 .. N -> AnyRow]
    PROVE  /\ Copied(rows, list, skip) \in [0 .. N -> AnyRow]
           /\ Gathered(list, skip) \in [StagingRows -> AnyRow]
           /\ \A st \in [StagingRows -> AnyRow]:
                 (\A e \in list: Index(list, e) \in StagingRows) =>
                    Expanded(rows, st, list, skip) \in [0 .. N -> AnyRow]
<1>1. TypeOK /\ PlanSets(plan) /\ PlanKind(plan, vram) /\ TableInv(S, vram)
  BY DEF Tables, PlanInv
<1>2. ASSUME NEW e \in list
      PROVE  Source(e) \in AnyRow
  <2>1. e \in Experts /\ plan.src_row[e] \in RamRowNumbers
    BY <1>1 DEF PlanSets
  <2>2. CASE e \in plan.cached
    <3>1. plan.cached = Resident(vram)
      BY <1>1, <2>2 DEF PlanKind, PlanSets
    <3>2. vram.slot_of[e] \in 0 .. (S - 1)
      BY <1>1, <2>1, <2>2, <3>1, TableFacts, Bounds DEF Resident
    <3> QED
      BY <1>1, <2>2, <3>2 DEF Source, TypeOK
  <2>3. CASE e \notin plan.cached
    BY <1>1, <2>1, <2>3 DEF Source, TypeOK
  <2> QED
    BY <2>2, <2>3
<1>3. \A T: T # {} => (CHOOSE x \in T: TRUE) \in T
  OBVIOUS
<1>4. Copied(rows, list, skip) \in [0 .. N -> AnyRow]
  <2> DEFINE here(i) == {e \in list \ skip: plan.dst_row[e] = i /\ ~ Staged(e)}
  <2>1. Copied(rows, list, skip) =
           [i \in 0 .. N |-> IF here(i) = {} THEN rows[i]
                             ELSE Source(CHOOSE e \in here(i): TRUE)]
    BY DEF Copied
  <2>2. \A i: here(i) \subseteq list
    OBVIOUS
  <2> HIDE DEF here
  <2>3. \A i: here(i) # {} => Source(CHOOSE e \in here(i): TRUE) \in AnyRow
    BY <1>2, <1>3, <2>2
  <2> QED
    BY <2>1, <2>3
<1>5. Gathered(list, skip) \in [StagingRows -> AnyRow]
  <2> DEFINE here(j) == {e \in list \ skip: Index(list, e) = j /\ Staged(e)}
  <2>1. Gathered(list, skip) =
           [j \in StagingRows |-> IF here(j) = {} THEN staging[j]
                                  ELSE Source(CHOOSE e \in here(j): TRUE)]
    BY DEF Gathered
  <2>2. \A j: here(j) \subseteq list
    OBVIOUS
  <2> HIDE DEF here
  <2>3. \A j: here(j) # {} => Source(CHOOSE e \in here(j): TRUE) \in AnyRow
    BY <1>2, <1>3, <2>2
  <2>4. staging \in [StagingRows -> AnyRow]
    BY <1>1 DEF TypeOK
  <2> QED
    BY <2>1, <2>3, <2>4
<1>6. ASSUME NEW st \in [StagingRows -> AnyRow],
             \A e \in list: Index(list, e) \in StagingRows
      PROVE  Expanded(rows, st, list, skip) \in [0 .. N -> AnyRow]
  <2> DEFINE here(i) == {e \in list \ skip: plan.dst_row[e] = i /\ Staged(e)}
  <2>1. Expanded(rows, st, list, skip) =
           [i \in 0 .. N |-> IF here(i) = {} THEN rows[i]
                             ELSE st[Index(list, CHOOSE e \in here(i): TRUE)]]
    BY DEF Expanded
  <2>2. \A i: here(i) \subseteq list
    OBVIOUS
  <2> HIDE DEF here
  <2>3. \A i: here(i) # {} => st[Index(list, CHOOSE e \in here(i): TRUE)] \in AnyRow
    BY <1>3, <1>6, <2>2
  <2> QED
    BY <2>1, <2>3
<1> QED
  BY <1>4, <1>5, <1>6

\* Where a copy comes from: a VRAM hit of prefill from the slab, the others from
\* rows that are settled.
LEMMA SourceRight ==
    ASSUME IInv, Busy, NEW e \in plan.need \ spoiled,
           \/ e \in plan.cached
           \/ e \notin plan.cached /\ Settled(ramRows, queue, plan.src_row[e], e)
    PROVE  Source(e) = e
<1>1. CASE e \in plan.cached
  <2>1. PlanSets(plan) /\ PlanKind(plan, vram) /\ TableInv(S, vram)
    BY DEF IInv, PlanInv, Tables
  <2>2. plan.kind = "prefill" /\ plan.cached = Resident(vram) /\ e \in Experts
    BY <1>1, <2>1 DEF PlanKind, PlanSets
  <2>3. vram.slot_of[e] # None
    BY <1>1, <2>2 DEF Resident
  <2>4. vram.slot_of[e] \in SlotsOf(vram) /\ vram.expert_in[vram.slot_of[e]] = e /\ e # None
    BY <2>1, <2>2, <2>3, TableFacts, Bounds
  <2>5. ~ Due(e)
    BY <2>2 DEF Due
  <2>6. slab[vram.slot_of[e]] = e
    BY <2>4, <2>5 DEF IInv, SlabRight
  <2> QED
    BY <1>1, <2>6 DEF Source
<1>2. CASE e \notin plan.cached
  BY <1>2 DEF Source, Settled
<1> QED
  BY <1>1, <1>2

-----------------------------------------------------------------------------
(* The steps of the GPU.                                                   *)

\* What every step within a forward step may use.
LEMMA BusyFacts ==
    ASSUME IInv, Busy
    PROVE  /\ Tables /\ TypeOK /\ PlanInv
           /\ PlanSets(plan) /\ PlanKind(plan, vram) /\ PlanApart(plan, ram)
           /\ chunk \in Nat /\ plan.chunks \in Nat \ {0} /\ chunk < plan.chunks
           /\ plan.need \subseteq Experts /\ plan.ssd \subseteq Experts
           /\ plan.todo \subseteq plan.need
           /\ plan.late \subseteq plan.need /\ plan.late \subseteq plan.ssd
           /\ \A e \in plan.need \union plan.ssd: plan.chunk[e] \in Nat
           /\ queue \in Seq(Request)
           /\ plan.kind \in {"decode", "prefill"}
           /\ plan.kind = "decode" => chunk = 0 /\ plan.cached = {} /\ plan.skip = plan.ssd
                                      /\ \A e \in plan.need: plan.chunk[e] = 0
           /\ plan.kind = "prefill" => plan.skip = {}
<1>1. Tables /\ TypeOK /\ PlanInv /\ queue \in Seq(Request)
  BY DEF IInv, Tables, QueueInv
<1>2. PlanSets(plan) /\ PlanKind(plan, vram) /\ PlanApart(plan, ram)
  BY <1>1 DEF PlanInv
<1>3. chunk \in Nat /\ plan.chunks \in Nat \ {0} /\ chunk < plan.chunks
  BY <1>1, <1>2 DEF TypeOK, PlanSets, PlanInv
<1>4. /\ plan.need \subseteq Experts /\ plan.ssd \subseteq Experts
      /\ plan.todo \subseteq plan.need
      /\ plan.late \subseteq plan.need /\ plan.late \subseteq plan.ssd
      /\ plan.kind \in {"decode", "prefill"}
  BY <1>2 DEF PlanSets
<1>5. \A e \in plan.need \union plan.ssd: plan.chunk[e] \in Nat
  BY <1>2, <1>3 DEF PlanSets
<1>6. plan.kind = "decode" => chunk = 0 /\ plan.cached = {} /\ plan.skip = plan.ssd
                              /\ \A e \in plan.need: plan.chunk[e] = 0
  BY <1>2, <1>3 DEF PlanKind
<1>7. plan.kind = "prefill" => plan.skip = {}
  BY <1>2 DEF PlanKind
<1> QED
  BY <1>1, <1>2, <1>3, <1>4, <1>5, <1>6, <1>7

\* The slots of a decode's experts.
LEMMA DecodeSlots ==
    ASSUME IInv, Busy, plan.kind = "decode", NEW e \in plan.need
    PROVE  /\ plan.dst_row[e] \in SlotsOf(vram) /\ plan.dst_row[e] \in TargetRows
           /\ vram.expert_in[plan.dst_row[e]] = e
<1>1. PlanKind(plan, vram) /\ e \in Experts /\ TableInv(S, vram)
  BY BusyFacts DEF Tables
<1>2. plan.dst_row[e] = vram.slot_of[e] /\ plan.dst_row[e] # None
  BY <1>1 DEF PlanKind
<1>3. vram.slot_of[e] \in SlotsOf(vram) /\ vram.expert_in[vram.slot_of[e]] = e
      /\ SlotsOf(vram) = 0 .. (S - 1)
  BY <1>1, <1>2, TableFacts, Bounds
<1> QED
  BY <1>2, <1>3 DEF TargetRows

\* Publishing the next chunk's reads unsettles no row that is still to be used.
LEMMA CopyTodoQueue ==
    ASSUME IInv, CopyTodo
    PROVE  /\ Busy /\ gpu' = "wait" /\ Busy' /\ queue' = Published(queue, plan, chunk + 1)
           /\ QueueInv' /\ ReadsRight' /\ SourcesRight' /\ RamRight'
<1>1. /\ Busy /\ gpu = "copy" /\ gpu' = "wait" /\ Busy'
      /\ UNCHANGED <<vram, ram, ramRows, plan, chunk, ran, giveUps, fails, spoiled, wrong>>
  BY DEF CopyTodo, Busy, tables
<1>2. PICK pl: pl = plan
  OBVIOUS
<1>3. PICK c \in Nat: c = chunk
  BY <1>1, BusyFacts
<1>4. /\ PlanSets(pl) /\ PlanApart(pl, ram) /\ c < pl.chunks /\ pl.chunks \in Nat
      /\ \A e \in pl.need \union pl.ssd: pl.chunk[e] \in Nat
      /\ pl.todo \subseteq pl.need
      /\ queue \in Seq(Request) /\ TableInv(R, ram)
  BY <1>1, <1>2, <1>3, BusyFacts DEF Tables
<1>5. queue' = Published(queue, pl, c + 1)
  <2>1. CASE c + 1 < pl.chunks
    BY <2>1, <1>2, <1>3 DEF CopyTodo
  <2>2. CASE ~ (c + 1 < pl.chunks)
    <3>1. InChunk(pl, pl.ssd, c + 1) = {}
      BY <2>2, <1>4 DEF InChunk, PlanSets
    <3> QED
      BY <2>2, <3>1, <1>2, <1>3 DEF CopyTodo, Published
  <2> QED
    BY <2>1, <2>2
<1>6. /\ queue' \in Seq(Request) /\ DOMAIN queue' = 1 .. Len(queue')
      /\ Len(queue) \in Nat /\ Len(queue') \in Nat
      /\ DOMAIN queue = 1 .. Len(queue)
      /\ \A i \in DOMAIN queue: i \in DOMAIN queue' /\ queue'[i] = queue[i]
      /\ \A i \in DOMAIN queue': i \notin DOMAIN queue =>
            /\ i = Len(queue) + 1 /\ queue'[i].chunk = c + 1
            /\ queue'[i].left = ReadsOf(pl, c + 1) /\ queue'[i].left # {}
      /\ \A e \in InChunk(pl, pl.ssd, c + 1): \E i \in DOMAIN queue':
            queue'[i].chunk = c + 1 /\ <<e, pl.src_row[e]>> \in queue'[i].left
  BY <1>4, <1>5, PublishedQueue
<1>7. c + 1 # Abandoned
  BY DEF Abandoned
<1>8. QueueInv'
  <2>1. \A i \in DOMAIN queue:
           /\ queue[i].left # {} /\ queue[i].chunk \in Int
           /\ queue[i].chunk = Abandoned =>
                 \A x \in queue[i].left: x[1] \in spoiled \union {None}
           /\ queue[i].chunk # Abandoned =>
                 queue[i].chunk = c /\ queue[i].left \subseteq ReadsOf(pl, queue[i].chunk)
    BY <1>1, <1>2, <1>3, <1>4, QueueTypes DEF IInv, QueueInv, Oldest, Newest
  <2>2. \A i, j \in DOMAIN queue:
           i < j => queue[i].chunk = Abandoned \/ queue[i].chunk < queue[j].chunk
    BY DEF IInv, QueueInv
  <2>3. \A i \in DOMAIN queue': queue'[i].left # {}
    BY <2>1, <1>6
  <2>4. \A i \in DOMAIN queue':
           queue'[i].chunk = Abandoned =>
              \A x \in queue'[i].left: x[1] \in spoiled' \union {None}
    BY <2>1, <1>1, <1>6, <1>7
  <2>5. \A i \in DOMAIN queue': queue'[i].chunk # Abandoned =>
           /\ Busy' /\ queue'[i].chunk \in Oldest' .. Newest'
           /\ queue'[i].left \subseteq ReadsOf(plan', queue'[i].chunk)
    <3>1. Oldest' = c /\ Newest' = c + 1 /\ plan' = pl
      BY <1>1, <1>2, <1>3 DEF Oldest, Newest
    <3> QED
      BY <2>1, <3>1, <1>1, <1>6
  <2>6. \A i, j \in DOMAIN queue':
           i < j => queue'[i].chunk = Abandoned \/ queue'[i].chunk < queue'[j].chunk
    <3> SUFFICES ASSUME NEW i \in DOMAIN queue', NEW j \in DOMAIN queue', i < j
                 PROVE  queue'[i].chunk = Abandoned \/ queue'[i].chunk < queue'[j].chunk
      OBVIOUS
    <3>1. i \in DOMAIN queue
      BY <1>6
    <3>2. CASE j \in DOMAIN queue
      BY <2>2, <3>1, <3>2, <1>6
    <3>3. CASE j \notin DOMAIN queue
      BY <2>1, <3>1, <3>3, <1>6
    <3> QED
      BY <3>2, <3>3
  <2> QED
    BY <2>3, <2>4, <2>5, <2>6, <1>6 DEF QueueInv
<1>9. ASSUME NEW row, NEW e, Settled(ramRows, queue, row, e),
             \A f \in InChunk(pl, pl.ssd, c + 1): pl.src_row[f] # row
      PROVE  Settled(ramRows', queue', row, e)
  BY <1>1, <1>4, <1>5, <1>9, SettledPublished
<1>10. ReadsRight'
  <2> SUFFICES ASSUME NEW e \in pl.ssd \ spoiled, pl.chunk[e] <= c + 1,
                      ~ Awaited(queue', pl, e), pl.src_row[e] < R \/ pl.chunk[e] >= c
               PROVE  Settled(ramRows', queue', pl.src_row[e], e)
    BY <1>1, <1>2, <1>3 DEF ReadsRight, Newest
  <2>1. e \notin InChunk(pl, pl.ssd, c + 1)
    BY <1>6, <1>7 DEF Awaited
  <2>2. pl.chunk[e] <= c /\ pl.chunk[e] \in Nat
    BY <2>1, <1>4 DEF InChunk
  <2>3. ~ Awaited(queue, pl, e)
    BY <1>6 DEF Awaited
  <2>4. Settled(ramRows, queue, pl.src_row[e], e)
    BY <2>2, <2>3, <1>1, <1>2, <1>3 DEF IInv, ReadsRight, Newest
  <2>5. ASSUME NEW f \in InChunk(pl, pl.ssd, c + 1), pl.src_row[f] = pl.src_row[e]
        PROVE  FALSE
    <3>1. f \in pl.ssd /\ pl.chunk[f] = c + 1 /\ e # f
      BY <2>2 DEF InChunk
    <3>2. /\ pl.src_row[e] >= R /\ pl.src_row[e] \in Int
          /\ pl.chunk[f] > pl.chunk[e] + 1 \/ pl.chunk[e] > pl.chunk[f] + 1
      BY <2>5, <3>1, <1>4 DEF PlanApart, PlanSets, RamRowNumbers
    <3> QED
      BY <2>2, <3>1, <3>2, Bounds
  <2> QED
    BY <2>4, <2>5, <1>9
<1>11. SourcesRight'
  <2> SUFFICES ASSUME NEW e \in pl.todo \ (pl.skip \union pl.cached \union spoiled),
                      pl.chunk[e] > c
               PROVE  Settled(ramRows', queue', pl.src_row[e], e)
    BY <1>1, <1>2, <1>3 DEF SourcesRight
  <2>1. Settled(ramRows, queue, pl.src_row[e], e)
    BY <1>1, <1>2, <1>3 DEF IInv, SourcesRight
  <2>2. pl.chunk[e] \in Nat
    BY <1>4
  <2>3. ASSUME NEW f \in InChunk(pl, pl.ssd, c + 1), pl.src_row[f] = pl.src_row[e]
        PROVE  FALSE
    <3>1. f \in pl.ssd /\ pl.chunk[f] = c + 1
      BY DEF InChunk
    <3>2. pl.chunk[e] < pl.chunk[f]
      BY <2>3, <3>1, <1>4 DEF PlanApart
    <3> QED
      BY <2>2, <3>1, <3>2
  <2> QED
    BY <2>1, <2>3, <1>9
<1>12. RamRight'
  <2> SUFFICES ASSUME NEW i \in SlotsOf(ram),
                      ram.expert_in[i] \notin spoiled \union pl.ssd \union {None}
               PROVE  Settled(ramRows', queue', i, ram.expert_in[i])
    BY <1>1, <1>2 DEF RamRight
  <2>1. Settled(ramRows, queue, i, ram.expert_in[i])
    BY <1>2 DEF IInv, RamRight
  <2>2. ASSUME NEW f \in InChunk(pl, pl.ssd, c + 1), pl.src_row[f] = i
        PROVE  FALSE
    <3>1. f \in pl.ssd /\ f \in Experts
      BY <1>4 DEF InChunk, PlanSets
    <3>2. i \in Int /\ i < R
      <4>1. SlotsOf(ram) = 0 .. (R - 1)
        BY <1>4, TableFacts, Bounds
      <4> QED
        BY <4>1, Bounds
    <3>3. ram.slot_of[f] # None /\ pl.src_row[f] = ram.slot_of[f]
      BY <2>2, <3>1, <3>2, <1>4, Bounds DEF PlanApart
    <3>4. ram.expert_in[ram.slot_of[f]] = f
      BY <3>1, <3>3, <1>4, TableFacts, Bounds
    <3> QED
      BY <2>2, <3>1, <3>3, <3>4
  <2> QED
    BY <2>1, <2>2, <1>9
<1> QED
  BY <1>1, <1>2, <1>3, <1>5, <1>8, <1>10, <1>11, <1>12

LEMMA CopyTodoKeeps ==
    ASSUME IInv, CopyTodo
    PROVE  IInv'
<1> DEFINE list == InChunk(plan, plan.todo, chunk)
<1>1. /\ Busy /\ gpu = "copy" /\ gpu' = "wait" /\ Busy'
      /\ UNCHANGED <<vram, ram, ramRows, plan, chunk, ran, giveUps, fails, spoiled, wrong>>
      /\ staging' = Gathered(list, plan.skip)
      /\ SetTarget(IF plan.kind = "decode" THEN Copied(Target, list, plan.skip)
                   ELSE Expanded(Copied(Target, list, plan.skip), staging', list, plan.skip))
  BY DEF CopyTodo, Busy, tables
<1>2. /\ Tables /\ TypeOK /\ PlanInv /\ plan.kind \in {"decode", "prefill"}
      /\ plan.todo \subseteq plan.need /\ chunk \in Nat
      /\ plan.need \subseteq Experts /\ TableInv(S, vram)
  BY <1>1, BusyFacts DEF Tables
<1>3. list \subseteq plan.need /\ \A e, f \in list: plan.chunk[e] = plan.chunk[f]
  BY <1>2 DEF InChunk
<1> HIDE DEF list
<1>4. /\ \A e \in list: plan.dst_row[e] \in TargetRows /\ Index(list, e) \in StagingRows
      /\ \A e, f \in list: plan.dst_row[e] = plan.dst_row[f] => e = f
      /\ \A e, f \in list: Index(list, e) = Index(list, f) => e = f
  BY <1>1, <1>2, <1>3, ChunkIndex
<1>5. ASSUME NEW e \in list \ spoiled, e \notin plan.skip \/ e \in plan.cached
      PROVE  Source(e) = e
  <2>1. e \in plan.need \ spoiled
    BY <1>3
  <2>2. CASE e \in plan.cached
    BY <2>1, <2>2, <1>1, SourceRight
  <2>3. CASE e \notin plan.cached
    <3>1. e \in plan.todo \ (plan.skip \union plan.cached \union spoiled) /\ plan.chunk[e] = chunk
      BY <1>5, <2>3 DEF list, InChunk
    <3>2. Settled(ramRows, queue, plan.src_row[e], e)
      BY <3>1, <1>1 DEF IInv, SourcesRight
    <3> QED
      BY <2>1, <2>3, <3>2, <1>1, SourceRight
  <2> QED
    BY <2>2, <2>3
<1>6. staging' \in [StagingRows -> AnyRow]
  <2>1. slab \in [0 .. (S - 1) -> AnyRow]
    BY <1>2 DEF TypeOK
  <2> QED
    BY <2>1, <1>1, <1>2, <1>3, CopyTypes
<1>7. QueueInv' /\ ReadsRight' /\ SourcesRight' /\ RamRight'
  BY CopyTodoQueue
<1>8. PlanInv'
  BY <1>1, <1>2 DEF PlanInv, Busy
<1>9. CASE plan.kind = "decode"
  <2>1. slab' = Copied(slab, list, plan.skip) /\ work' = work
    BY <1>1, <1>9 DEF SetTarget, Target
  <2>2. slab \in [0 .. (S - 1) -> AnyRow] /\ TargetRows = 0 .. (S - 1)
    BY <1>2, <1>9 DEF TypeOK, TargetRows
  <2>3. slab' \in [0 .. (S - 1) -> AnyRow]
    BY <2>1, <2>2, <1>1, <1>2, <1>3, CopyTypes
  <2>4. Tables'
    BY <2>1, <2>3, <1>1, <1>2, <1>6 DEF Tables, TypeOK
  <2>5. /\ \A e \in list \ plan.skip: ~ Staged(e) => slab'[plan.dst_row[e]] = Source(e)
        /\ \A i \in TargetRows: (\A e \in list: plan.dst_row[e] # i) => slab'[i] = slab[i]
    <3>1. PICK new: new = slab' /\ new = Copied(slab, list, plan.skip)
      BY <2>1
    <3>2. /\ DOMAIN slab = TargetRows
          /\ \A e, f \in list \ plan.skip: plan.dst_row[e] = plan.dst_row[f] => e = f
      BY <2>2, <1>4
    <3>3. /\ \A e \in list \ plan.skip: plan.dst_row[e] \in DOMAIN slab /\ ~ Staged(e) =>
                new[plan.dst_row[e]] = Source(e)
          /\ \A i \in DOMAIN slab:
                (\A e \in list \ plan.skip: plan.dst_row[e] = i => Staged(e)) => new[i] = slab[i]
      BY <3>1, <3>2, CopiedRows
    <3> QED
      BY <3>1, <3>2, <3>3, <1>4
  <2>6. \A e \in list \ plan.skip: Staged(e) => staging'[Index(list, e)] = Source(e)
    BY <1>1, <1>4, GatheredRows
  <2>7. list = plan.todo /\ plan.cached = {}
    BY <1>1, <1>2, <1>9, BusyFacts DEF list, InChunk
  <2>8. SlabRight'
    <3> SUFFICES ASSUME NEW i \in SlotsOf(vram),
                        vram.expert_in[i] \notin spoiled \union {None},
                        vram.expert_in[i] \notin plan.todo
                 PROVE  slab'[i] = vram.expert_in[i]
      BY <1>1, <1>9 DEF SlabRight, Due
    <3>1. slab[i] = vram.expert_in[i]
      BY DEF IInv, SlabRight, Due
    <3>2. \A e \in list: plan.dst_row[e] # i
      BY <2>7, <1>1, <1>2, <1>9, DecodeSlots
    <3>3. i \in TargetRows
      BY <2>2, <1>2, TableFacts, Bounds
    <3> QED
      BY <3>1, <3>2, <3>3, <2>5
  <2>9. HalfRight'
    <3> SUFFICES ASSUME NEW e \in plan.todo \ (plan.skip \union spoiled)
                 PROVE  IF Compress THEN staging'[Place(plan.todo, e)] = e
                        ELSE slab'[plan.dst_row[e]] = e
      BY <1>1 DEF HalfRight
    <3>1. Source(e) = e
      BY <2>7, <1>5
    <3>2. Staged(e) <=> Compress
      BY <2>7 DEF Staged
    <3>3. Index(list, e) = Place(plan.todo, e)
      BY <2>7, <1>9 DEF Index, Place
    <3> QED
      BY <3>1, <3>2, <3>3, <2>5, <2>6, <2>7
  <2>10. WorkRight'
    BY <1>1, <1>9 DEF WorkRight
  <2> QED
    BY <2>4, <2>8, <2>9, <2>10, <1>7, <1>8 DEF IInv
<1>10. CASE plan.kind = "prefill"
  <2>1. slab' = slab /\ work' = Expanded(Copied(work, list, plan.skip), staging', list, plan.skip)
    BY <1>1, <1>10 DEF SetTarget, Target
  <2>2. work \in [0 .. (W - 1) -> AnyRow] /\ TargetRows = 0 .. (W - 1)
    BY <1>2, <1>10 DEF TypeOK, TargetRows
  <2>3. work' \in [0 .. (W - 1) -> AnyRow]
    <3>1. Copied(work, list, plan.skip) \in [0 .. (W - 1) -> AnyRow]
      BY <2>2, <1>1, <1>2, <1>3, CopyTypes
    <3> QED
      BY <3>1, <2>1, <1>1, <1>2, <1>3, <1>4, <1>6, CopyTypes
  <2>4. Tables'
    BY <2>1, <2>3, <1>1, <1>2, <1>6 DEF Tables, TypeOK
  <2>5. \A e \in list \ plan.skip: work'[plan.dst_row[e]] = Source(e)
    <3>1. PICK st: st = staging' /\ st = Gathered(list, plan.skip)
      BY <1>1
    <3>2. PICK new: /\ new = work'
                    /\ new = Expanded(Copied(work, list, plan.skip), st, list, plan.skip)
      BY <2>1, <3>1
    <3>3. DOMAIN work = TargetRows
      BY <2>2
    <3>4. Tables /\ PlanInv /\ Busy
      BY <1>1, <1>2
    <3>5. \A e \in list \ plan.skip: new[plan.dst_row[e]] = Source(e)
      <4>1. CopiedInto(new, work, list, plan.skip)
        BY <3>1, <3>2, <3>3, <3>4, <1>3, CopyExpands
      <4> QED
        BY <4>1 DEF CopiedInto
    <3> QED
      BY <3>2, <3>5
  <2>6. plan.skip = {}
    BY <1>1, <1>10, BusyFacts
  <2>7. SlabRight' /\ HalfRight'
    BY <2>1, <1>1, <1>10 DEF IInv, SlabRight, HalfRight, Due
  <2>8. WorkRight'
    <3> SUFFICES ASSUME NEW e \in plan.todo \ spoiled, plan.chunk[e] = chunk
                 PROVE  work'[plan.dst_row[e]] = e
      BY <1>1 DEF WorkRight
    <3>1. e \in list
      BY DEF list, InChunk
    <3> QED
      BY <3>1, <2>5, <2>6, <1>5
  <2> QED
    BY <2>4, <2>7, <2>8, <1>7, <1>8 DEF IInv
<1> QED
  BY <1>2, <1>9, <1>10

\* After its wait, a chunk's reads are settled.
LEMMA LateSettled ==
    ASSUME IInv, gpu = "late", NEW e \in InChunk(plan, plan.late, chunk) \ spoiled
    PROVE  e \in plan.need /\ e \notin plan.cached /\ Settled(ramRows, queue, plan.src_row[e], e)
<1>1. Busy /\ Oldest = chunk + 1 /\ Newest = chunk + 1
  BY DEF Busy, Oldest, Newest
<1>2. e \in plan.late /\ plan.chunk[e] = chunk /\ e \in plan.need /\ e \in plan.ssd
  BY <1>1, BusyFacts DEF InChunk
<1>3. e \notin plan.cached
  BY <1>1, <1>2, BusyFacts DEF PlanSets
<1>4. chunk \in Nat
  BY <1>1, BusyFacts
<1>5. ~ Awaited(queue, plan, e)
  <2> SUFFICES ASSUME NEW i \in DOMAIN queue, queue[i].chunk # Abandoned,
                      <<e, plan.src_row[e]>> \in queue[i].left
               PROVE  FALSE
    BY DEF Awaited
  <2>1. /\ queue[i].chunk \in (chunk + 1) .. (chunk + 1)
        /\ queue[i].left \subseteq ReadsOf(plan, queue[i].chunk)
    BY <1>1 DEF IInv, QueueInv
  <2>2. queue[i].chunk = chunk + 1
    BY <2>1, <1>4
  <2>3. <<e, plan.src_row[e]>> \in ReadsOf(plan, chunk + 1)
    BY <2>1, <2>2
  <2>4. PICK f \in InChunk(plan, plan.ssd, chunk + 1): <<e, plan.src_row[e]>> = <<f, plan.src_row[f]>>
    BY <2>3 DEF ReadsOf
  <2>5. e \in InChunk(plan, plan.ssd, chunk + 1)
    BY <2>4
  <2> QED
    BY <2>5, <1>2, <1>4 DEF InChunk
<1> QED
  BY <1>1, <1>2, <1>3, <1>4, <1>5 DEF IInv, ReadsRight

\* The slab after the two copies of a decode: the first one expanded, the second
\* one copied.
LEMMA CopyLateDecode ==
    ASSUME IInv, CopyLate, plan.kind = "decode"
    PROVE  SlabRight' /\ slab' \in [0 .. (S - 1) -> AnyRow]
<1> DEFINE todo == InChunk(plan, plan.todo, chunk)
           late == InChunk(plan, plan.late, chunk)
           mid == Expanded(slab, staging, todo, plan.skip)
<1>1. /\ Busy /\ gpu = "late" /\ gpu' = "run" /\ UNCHANGED <<vram, plan, chunk, spoiled>>
      /\ staging' = Gathered(late, {})
      /\ slab' = Expanded(Copied(mid, late, {}), Gathered(late, {}), late, {})
  BY DEF CopyLate, Busy, tables, SetTarget, Target
<1>2. /\ Tables /\ TypeOK /\ PlanInv /\ plan.todo \subseteq plan.need
      /\ plan.late \subseteq plan.need /\ TableInv(S, vram) /\ chunk = 0 /\ plan.cached = {}
      /\ \A e \in plan.need: plan.chunk[e] = 0
  BY <1>1, BusyFacts DEF Tables
<1>3. plan.late = plan.skip
  BY <1>1, BusyFacts DEF PlanKind
<1>4. todo = plan.todo /\ late = plan.late
  BY <1>2 DEF InChunk
<1> HIDE DEF todo, late
<1>5. /\ todo \subseteq plan.need /\ \A e, f \in todo: plan.chunk[e] = plan.chunk[f]
      /\ late \subseteq plan.need /\ \A e, f \in late: plan.chunk[e] = plan.chunk[f]
  BY <1>2, <1>4
<1>6. /\ \A e \in todo: plan.dst_row[e] \in TargetRows /\ Index(todo, e) \in StagingRows
      /\ \A e, f \in todo: plan.dst_row[e] = plan.dst_row[f] => e = f
      /\ \A e \in late: Index(late, e) \in StagingRows
  BY <1>1, <1>2, <1>5, ChunkIndex
<1>7. /\ slab \in [0 .. (S - 1) -> AnyRow] /\ DOMAIN slab = TargetRows
      /\ staging \in [StagingRows -> AnyRow] /\ TargetRows = SlotsOf(vram)
  <2>1. TargetRows = SlotsOf(vram)
    BY <1>2, TableFacts, Bounds DEF TargetRows
  <2> QED
    BY <2>1, <1>2 DEF TypeOK, TargetRows
<1>8. /\ DOMAIN mid = TargetRows
      /\ \A e \in todo \ plan.skip: Staged(e) => mid[plan.dst_row[e]] = staging[Index(todo, e)]
      /\ \A i \in TargetRows: (\A e \in todo \ plan.skip: plan.dst_row[e] = i => ~ Staged(e)) =>
            mid[i] = slab[i]
  <2>1. \A e, f \in todo \ plan.skip: plan.dst_row[e] = plan.dst_row[f] => e = f
    BY <1>6
  <2>2. /\ DOMAIN Expanded(slab, staging, todo, plan.skip) = DOMAIN slab
        /\ \A e \in todo \ plan.skip: plan.dst_row[e] \in DOMAIN slab /\ Staged(e) =>
              Expanded(slab, staging, todo, plan.skip)[plan.dst_row[e]] = staging[Index(todo, e)]
        /\ \A i \in DOMAIN slab:
              (\A e \in todo \ plan.skip: plan.dst_row[e] = i => ~ Staged(e)) =>
                 Expanded(slab, staging, todo, plan.skip)[i] = slab[i]
    BY <2>1, ExpandedRows
  <2> QED
    BY <2>2, <1>6, <1>7
<1>9. mid \in [0 .. (S - 1) -> AnyRow]
  BY <1>1, <1>2, <1>5, <1>6, <1>7, CopyTypes
<1> HIDE DEF mid
<1>10. CopiedInto(slab', mid, late, {})
  <2>1. PICK new: /\ new = slab'
                  /\ new = Expanded(Copied(mid, late, {}), Gathered(late, {}), late, {})
    BY <1>1
  <2>2. CopiedInto(new, mid, late, {})
    BY <2>1, <1>1, <1>2, <1>5, <1>8, CopyExpands
  <2> QED
    BY <2>1, <2>2
<1>11. slab' \in [0 .. (S - 1) -> AnyRow]
  <2>1. /\ Copied(mid, late, {}) \in [0 .. (S - 1) -> AnyRow]
        /\ Gathered(late, {}) \in [StagingRows -> AnyRow]
    BY <1>1, <1>2, <1>5, <1>9, CopyTypes
  <2> QED
    BY <2>1, <1>1, <1>2, <1>5, <1>6, CopyTypes
<1>12. ASSUME NEW i \in SlotsOf(vram), vram.expert_in[i] \notin spoiled \union {None}
       PROVE  slab'[i] = vram.expert_in[i]
  <2> DEFINE e == vram.expert_in[i]
  <2>1. \A f \in plan.need: plan.dst_row[f] = i => f = e
    <3>1. \A f \in plan.need: vram.expert_in[plan.dst_row[f]] = f
      BY <1>1, DecodeSlots
    <3> QED
      BY <3>1
  <2>2. \A f \in plan.need: f = e => plan.dst_row[f] = i
    <3>1. e \in Experts /\ vram.slot_of[e] = i
      BY <1>2, <1>12, TableFacts, Bounds
    <3> QED
      BY <3>1, <1>1, BusyFacts DEF PlanKind
  <2>3. CASE e \in late
    <3>1. slab'[plan.dst_row[e]] = Source(e) /\ plan.dst_row[e] = i
      BY <2>2, <2>3, <1>5, <1>10 DEF CopiedInto
    <3>2. /\ e \in plan.need /\ e \notin plan.cached
          /\ Settled(ramRows, queue, plan.src_row[e], e)
      BY <2>3, <1>1, <1>12, LateSettled DEF late
    <3>3. Source(e) = e
      BY <3>2, <1>1, <1>12, SourceRight
    <3> QED
      BY <3>1, <3>3
  <2>4. CASE e \notin late
    <3>1. slab'[i] = mid[i]
      BY <2>1, <2>4, <1>5, <1>7, <1>10 DEF CopiedInto
    <3>2. CASE e \in todo
      <4>1. e \in plan.todo \ (plan.skip \union spoiled) /\ plan.dst_row[e] = i
        BY <2>2, <2>4, <3>2, <1>3, <1>4, <1>5, <1>12
      <4>2. IF Compress THEN staging[Place(plan.todo, e)] = e ELSE slab[plan.dst_row[e]] = e
        BY <4>1, <1>1 DEF IInv, HalfRight
      <4>3. Index(todo, e) = Place(plan.todo, e)
        BY <1>4 DEF Index, Place
      <4>4. Staged(e) <=> Compress
        BY <1>2 DEF Staged
      <4>5. CASE Compress
        BY <4>1, <4>2, <4>3, <4>4, <4>5, <3>1, <3>2, <1>8
      <4>6. CASE ~ Compress
        <5>1. \A f \in todo \ plan.skip: plan.dst_row[f] = i => ~ Staged(f)
          BY <4>6 DEF Staged
        <5> QED
          BY <5>1, <4>1, <4>2, <4>6, <3>1, <1>7, <1>8
      <4> QED
        BY <4>5, <4>6
    <3>3. CASE e \notin todo
      <4>1. ~ Due(e)
        BY <3>3, <1>4 DEF Due
      <4>2. slab[i] = e
        BY <4>1, <1>12 DEF IInv, SlabRight
      <4>3. \A f \in todo \ plan.skip: plan.dst_row[f] = i => ~ Staged(f)
        BY <2>1, <3>3, <1>5
      <4> QED
        BY <4>2, <4>3, <3>1, <1>7, <1>8
    <3> QED
      BY <3>2, <3>3
  <2> QED
    BY <2>3, <2>4
<1> QED
  BY <1>1, <1>11, <1>12 DEF SlabRight

LEMMA CopyLatePrefill ==
    ASSUME IInv, CopyLate, plan.kind = "prefill"
    PROVE  WorkRight' /\ work' \in [0 .. (W - 1) -> AnyRow]
<1> DEFINE late == InChunk(plan, plan.late, chunk)
<1>1. /\ Busy /\ gpu = "late" /\ gpu' = "run" /\ UNCHANGED <<vram, plan, chunk, spoiled>>
      /\ work' = Expanded(Copied(work, late, {}), Gathered(late, {}), late, {})
  BY DEF CopyLate, Busy, tables, SetTarget, Target
<1>2. /\ Tables /\ TypeOK /\ PlanInv /\ plan.late \subseteq plan.need
      /\ plan.need = plan.todo \union plan.late
  BY <1>1, BusyFacts DEF PlanKind
<1>3. /\ late \subseteq plan.need /\ \A e, f \in late: plan.chunk[e] = plan.chunk[f]
      /\ \A e \in plan.late: plan.chunk[e] = chunk => e \in late
  BY <1>2 DEF InChunk
<1>4. \A e \in late \ spoiled: Source(e) = e
  BY <1>1, LateSettled, SourceRight
<1> HIDE DEF late
<1>5. /\ work \in [0 .. (W - 1) -> AnyRow] /\ DOMAIN work = TargetRows
  BY <1>2 DEF TypeOK, TargetRows
<1>6. CopiedInto(work', work, late, {})
  <2>1. PICK new: /\ new = work'
                  /\ new = Expanded(Copied(work, late, {}), Gathered(late, {}), late, {})
    BY <1>1
  <2>2. CopiedInto(new, work, late, {})
    BY <2>1, <1>1, <1>2, <1>3, <1>5, CopyExpands
  <2> QED
    BY <2>1, <2>2
<1>7. work' \in [0 .. (W - 1) -> AnyRow]
  <2>1. /\ Copied(work, late, {}) \in [0 .. (W - 1) -> AnyRow]
        /\ Gathered(late, {}) \in [StagingRows -> AnyRow]
    BY <1>1, <1>2, <1>3, <1>5, CopyTypes
  <2>2. \A e \in late: Index(late, e) \in StagingRows
    BY <1>1, <1>2, <1>3, ChunkIndex
  <2> QED
    BY <2>1, <2>2, <1>1, <1>2, <1>3, CopyTypes
<1>8. ASSUME NEW e \in plan.need \ spoiled, plan.chunk[e] = chunk
      PROVE  work'[plan.dst_row[e]] = e
  <2>1. CASE e \in late
    BY <2>1, <1>4, <1>6, <1>8 DEF CopiedInto
  <2>2. CASE e \notin late
    <3>1. e \in plan.todo
      BY <2>2, <1>2, <1>3, <1>8
    <3>2. work[plan.dst_row[e]] = e
      BY <3>1, <1>1, <1>8 DEF IInv, WorkRight
    <3>3. plan.dst_row[e] \in TargetRows
      BY <1>1, BusyFacts DEF PlanKind, TargetRows
    <3>4. \A f \in late: plan.dst_row[f] # plan.dst_row[e]
      <4>1. \A f \in late: f \in plan.need /\ plan.chunk[f] = plan.chunk[e] /\ f # e
        BY <2>2, <1>3, <1>8 DEF late, InChunk
      <4> QED
        BY <4>1, <1>1, <1>8, BusyFacts DEF PlanApart
    <3> QED
      BY <3>2, <3>3, <3>4, <1>6 DEF CopiedInto
  <2> QED
    BY <2>1, <2>2
<1> QED
  BY <1>1, <1>7, <1>8 DEF WorkRight

LEMMA CopyLateKeeps ==
    ASSUME IInv, CopyLate
    PROVE  IInv'
<1>1. /\ Busy /\ gpu = "late" /\ gpu' = "run" /\ Busy'
      /\ UNCHANGED <<vram, ram, ramRows, plan, chunk, ran, queue, giveUps, fails, spoiled, wrong>>
      /\ staging' = Gathered(InChunk(plan, plan.late, chunk), {})
  BY DEF CopyLate, Busy, tables
<1>2. /\ Tables /\ TypeOK /\ PlanInv /\ plan.kind \in {"decode", "prefill"}
      /\ plan.late \subseteq plan.need
  BY <1>1, BusyFacts
<1>3. Oldest' = Oldest /\ Newest' = Newest
  BY <1>1 DEF Oldest, Newest
<1>4. PlanInv'
  BY <1>1, <1>2 DEF PlanInv, Busy
<1>5. QueueInv'
  BY <1>1, <1>3 DEF IInv, QueueInv
<1>6. ReadsRight' /\ SourcesRight' /\ RamRight'
  BY <1>1, <1>3 DEF IInv, ReadsRight, SourcesRight, RamRight
<1>7. HalfRight'
  BY <1>1 DEF HalfRight
<1>8. staging' \in [StagingRows -> AnyRow]
  <2>1. slab \in [0 .. (S - 1) -> AnyRow]
    BY <1>2 DEF TypeOK
  <2>2. InChunk(plan, plan.late, chunk) \subseteq plan.need
    BY <1>2 DEF InChunk
  <2> QED
    BY <2>1, <2>2, <1>1, <1>2, CopyTypes
<1>9. CASE plan.kind = "decode"
  <2>1. SlabRight' /\ slab' \in [0 .. (S - 1) -> AnyRow]
    BY <1>9, CopyLateDecode
  <2>2. work' = work
    BY <1>9 DEF CopyLate, SetTarget
  <2>3. Tables'
    BY <2>1, <2>2, <1>1, <1>2, <1>8 DEF Tables, TypeOK
  <2>4. WorkRight'
    BY <1>1, <1>9 DEF WorkRight
  <2> QED
    BY <2>1, <2>3, <2>4, <1>4, <1>5, <1>6, <1>7 DEF IInv
<1>10. CASE plan.kind = "prefill"
  <2>1. WorkRight' /\ work' \in [0 .. (W - 1) -> AnyRow]
    BY <1>10, CopyLatePrefill
  <2>2. slab' = slab
    BY <1>10 DEF CopyLate, SetTarget
  <2>3. Tables'
    BY <2>1, <2>2, <1>1, <1>2, <1>8 DEF Tables, TypeOK
  <2>4. SlabRight'
    BY <2>2, <1>1, <1>10 DEF IInv, SlabRight, Due
  <2> QED
    BY <2>1, <2>3, <2>4, <1>4, <1>5, <1>6, <1>7 DEF IInv
<1> QED
  BY <1>2, <1>9, <1>10

\* The chunk's own request is over, so what is pending is of the next chunk.
LEMMA WaitKeeps ==
    ASSUME IInv, Wait
    PROVE  IInv'
<1>1. /\ Busy /\ gpu = "wait" /\ gpu' = "late" /\ Busy' /\ Unfinished(chunk) = {}
      /\ UNCHANGED <<vram, ram, ramRows, slab, work, staging, plan, chunk, ran, queue,
                     giveUps, fails, spoiled, wrong>>
  BY DEF Wait, Busy, tables, memory
<1>2. Tables /\ TypeOK /\ PlanInv /\ chunk \in Nat
  BY <1>1, BusyFacts
<1>3. /\ Oldest = chunk /\ Newest = chunk + 1 /\ Newest' = Newest /\ Oldest' = chunk + 1
  BY <1>1 DEF Oldest, Newest
<1>4. QueueInv'
  <2>1. \A i \in DOMAIN queue: queue[i].chunk # chunk
    BY <1>1 DEF Unfinished
  <2>2. \A i \in DOMAIN queue:
           queue[i].chunk # Abandoned => queue[i].chunk \in Oldest' .. Newest'
    <3>1. \A i \in DOMAIN queue:
             queue[i].chunk # Abandoned => queue[i].chunk \in chunk .. (chunk + 1)
      BY <1>3 DEF IInv, QueueInv
    <3> QED
      BY <2>1, <3>1, <1>2, <1>3
  <2> QED
    BY <2>2, <1>1, <1>3 DEF IInv, QueueInv
<1>5. ReadsRight' /\ SourcesRight' /\ RamRight'
  BY <1>1, <1>3 DEF IInv, ReadsRight, SourcesRight, RamRight
<1>6. Tables' /\ PlanInv'
  BY <1>1, <1>2 DEF Tables, TypeOK, PlanInv, Busy
<1>7. SlabRight' /\ HalfRight' /\ WorkRight'
  BY <1>1 DEF IInv, SlabRight, HalfRight, WorkRight, Due
<1> QED
  BY <1>4, <1>5, <1>6, <1>7 DEF IInv

\* Giving up leaves the reads pending; their experts are spoiled.
LEMMA GiveUpKeeps ==
    ASSUME IInv, GiveUp
    PROVE  IInv'
<1>1. /\ Busy /\ gpu = "wait" /\ gpu' = "late" /\ Busy'
      /\ UNCHANGED <<vram, ram, ramRows, slab, work, staging, plan, chunk, ran, fails, wrong>>
      /\ giveUps < MaxGiveUps /\ giveUps' = giveUps + 1
      /\ spoiled' = spoiled \union
            {r[1]: r \in UNION {queue[i].left: i \in Unfinished(chunk)}}
      /\ queue' = [i \in DOMAIN queue |->
                      IF queue[i].chunk = chunk THEN [queue[i] EXCEPT !.chunk = Abandoned]
                      ELSE queue[i]]
  BY DEF GiveUp, MayGiveUp, Busy, tables, memory
<1>2. /\ Tables /\ TypeOK /\ PlanInv /\ chunk \in Nat /\ queue \in Seq(Request)
      /\ chunk # Abandoned
  BY <1>1, BusyFacts DEF Abandoned
<1>3. /\ Oldest = chunk /\ Newest = chunk + 1 /\ Newest' = Newest /\ Oldest' = chunk + 1
  BY <1>1 DEF Oldest, Newest
<1>4. /\ Len(queue) \in Nat /\ DOMAIN queue = 1 .. Len(queue)
      /\ \A i \in DOMAIN queue: queue[i] \in Request /\ queue[i].chunk \in Int
                                /\ queue[i].left \subseteq AnyRow \X RamRowNumbers
  BY <1>2, QueueTypes
<1>5. ASSUME NEW i \in DOMAIN queue
      PROVE  /\ queue'[i] \in Request /\ queue'[i].left = queue[i].left
             /\ queue'[i].chunk = IF queue[i].chunk = chunk THEN Abandoned ELSE queue[i].chunk
  <2>1. queue[i] \in Request
    BY <1>4
  <2>2. Abandoned \in Int
    BY DEF Abandoned
  <2> QED
    BY <2>1, <2>2, <1>1 DEF Request
<1>6. DOMAIN queue' = DOMAIN queue
  BY <1>1
<1>7. \A i \in Unfinished(chunk): \A x \in queue[i].left: x[1] \in spoiled'
  BY <1>1
<1>8. spoiled \subseteq spoiled' /\ spoiled' \subseteq Experts
  <2>1. \A i \in Unfinished(chunk): \A x \in queue[i].left: x[1] \in Experts
    <3>1. \A i \in Unfinished(chunk): queue[i].left \subseteq ReadsOf(plan, chunk)
      BY <1>2 DEF Unfinished, IInv, QueueInv
    <3>2. \A x \in ReadsOf(plan, chunk): x[1] \in plan.ssd
      BY DEF ReadsOf, InChunk
    <3> QED
      BY <3>1, <3>2, <1>1, BusyFacts
  <2> QED
    BY <2>1, <1>1, <1>2 DEF TypeOK
<1>9. QueueInv'
  <2>1. queue' \in Seq(Request)
    <3>1. queue' \in [1 .. Len(queue) -> Request]
      <4>1. queue' = [i \in DOMAIN queue |-> queue'[i]]
        BY <1>1
      <4> QED
        BY <4>1, <1>4, <1>5
    <3> QED
      BY <3>1, <1>4, SeqDef
  <2>2. \A i \in DOMAIN queue: queue[i].left # {}
    BY DEF IInv, QueueInv
  <2>3. ASSUME NEW i \in DOMAIN queue, queue'[i].chunk = Abandoned
        PROVE  \A x \in queue'[i].left: x[1] \in spoiled' \union {None}
    <3>1. CASE queue[i].chunk = chunk
      BY <3>1, <1>5, <1>7 DEF Unfinished
    <3>2. CASE queue[i].chunk # chunk
      BY <2>3, <3>2, <1>5, <1>8 DEF IInv, QueueInv
    <3> QED
      BY <3>1, <3>2
  <2>4. ASSUME NEW i \in DOMAIN queue, queue'[i].chunk # Abandoned
        PROVE  /\ queue'[i].chunk = queue[i].chunk /\ queue[i].chunk # Abandoned
               /\ queue'[i].chunk = chunk + 1
               /\ queue'[i].left \subseteq ReadsOf(plan, queue'[i].chunk)
    <3>1. queue[i].chunk # chunk /\ queue'[i].chunk = queue[i].chunk
      BY <2>4, <1>5
    <3>2. queue[i].chunk \in chunk .. (chunk + 1)
          /\ queue[i].left \subseteq ReadsOf(plan, queue[i].chunk)
      BY <2>4, <3>1, <1>3 DEF IInv, QueueInv
    <3> QED
      BY <2>4, <3>1, <3>2, <1>2, <1>5
  <2>5. ASSUME NEW i \in DOMAIN queue, NEW j \in DOMAIN queue, i < j,
               queue'[i].chunk # Abandoned
        PROVE  queue'[i].chunk < queue'[j].chunk
    <3>1. queue[i].chunk = chunk + 1 /\ queue[i].chunk # Abandoned
      BY <2>4, <2>5
    <3>2. queue[i].chunk < queue[j].chunk
      BY <2>5, <3>1 DEF IInv, QueueInv
    <3>3. queue[j].chunk \in Int
      BY <1>4
    <3>4. queue[j].chunk # chunk
      BY <3>1, <3>2, <3>3, <1>2
    <3> QED
      BY <3>1, <3>2, <3>4, <1>2, <1>5
  <2>6. \A i \in DOMAIN queue: queue'[i].chunk # Abandoned =>
           queue'[i].chunk \in Oldest' .. Newest'
    BY <2>4, <1>2, <1>3
  <2> QED
    BY <2>1, <2>2, <2>3, <2>4, <2>5, <2>6, <1>1, <1>5, <1>6 DEF QueueInv
<1>10. ASSUME NEW row, NEW e, Settled(ramRows, queue, row, e)
       PROVE  Settled(ramRows', queue', row, e)
  <2>1. ramRows'[row] = ramRows[row]
    BY <1>1
  <2>2. \A i \in DOMAIN queue': \A x \in queue'[i].left:
           x[2] = row => \E k \in DOMAIN queue: x \in queue[k].left
    BY <1>5, <1>6
  <2> QED
    BY <2>1, <2>2, <1>10, SettledStays
<1>11. ReadsRight'
  <2> SUFFICES ASSUME NEW e \in plan.ssd \ spoiled', plan.chunk[e] <= Newest,
                      ~ Awaited(queue', plan, e), plan.src_row[e] < R \/ plan.chunk[e] >= chunk
               PROVE  Settled(ramRows', queue', plan.src_row[e], e)
    BY <1>1, <1>3 DEF ReadsRight
  <2>1. ~ Awaited(queue, plan, e)
    <3> SUFFICES ASSUME NEW i \in DOMAIN queue, queue[i].chunk # Abandoned,
                        <<e, plan.src_row[e]>> \in queue[i].left
                 PROVE  FALSE
      BY DEF Awaited
    <3>1. CASE queue[i].chunk = chunk
      <4>1. <<e, plan.src_row[e]>>[1] \in spoiled'
        BY <3>1, <1>7 DEF Unfinished
      <4> QED
        BY <4>1
    <3>2. CASE queue[i].chunk # chunk
      BY <3>2, <1>5, <1>6 DEF Awaited
    <3> QED
      BY <3>1, <3>2
  <2>2. Settled(ramRows, queue, plan.src_row[e], e)
    BY <2>1, <1>1, <1>8 DEF IInv, ReadsRight
  <2> QED
    BY <2>2, <1>10
<1>12. SourcesRight'
  <2> SUFFICES ASSUME NEW e \in plan.todo \ (plan.skip \union plan.cached \union spoiled'),
                      plan.chunk[e] > chunk
               PROVE  Settled(ramRows', queue', plan.src_row[e], e)
    BY <1>1 DEF SourcesRight
  <2>1. Settled(ramRows, queue, plan.src_row[e], e)
    BY <1>1, <1>8 DEF IInv, SourcesRight
  <2> QED
    BY <2>1, <1>10
<1>13. RamRight'
  BY <1>1, <1>8, <1>10 DEF IInv, RamRight
<1>14. Tables' /\ PlanInv'
  <2>1. giveUps' \in 0 .. MaxGiveUps
    <3>1. giveUps \in 0 .. MaxGiveUps /\ MaxGiveUps \in Nat
      BY <1>2, PagerAssumption DEF TypeOK
    <3>2. giveUps < MaxGiveUps /\ giveUps' = giveUps + 1
      BY <1>1
    <3> QED
      BY <3>1, <3>2
  <2> QED
    BY <2>1, <1>1, <1>2, <1>8 DEF Tables, TypeOK, PlanInv, Busy
<1>15. SlabRight' /\ HalfRight' /\ WorkRight'
  BY <1>1, <1>8 DEF IInv, SlabRight, HalfRight, WorkRight, Due
<1> QED
  BY <1>9, <1>11, <1>12, <1>13, <1>14, <1>15 DEF IInv

\* Another layer's reads come last, into the shared rows, which hold nothing that
\* is to be kept between two steps.
LEMMA GiveUpElsewhereKeeps ==
    ASSUME IInv, GiveUpElsewhere
    PROVE  IInv'
<1>1. /\ ~ Busy /\ ~ Busy' /\ gpu' = gpu /\ gpu = "idle"
      /\ UNCHANGED <<vram, ram, ramRows, slab, work, staging, plan, chunk, ran, fails,
                     spoiled, wrong>>
      /\ giveUps < MaxGiveUps /\ giveUps' = giveUps + 1
  BY DEF GiveUpElsewhere, MayGiveUp, Busy, tables, memory
<1>2. PICK rows \in (SUBSET SharedRows) \ {{}}:
         queue' = Append(queue, [chunk |-> Abandoned, left |-> {<<None, i>>: i \in rows}])
  BY DEF GiveUpElsewhere
<1>3. Tables /\ TypeOK /\ PlanInv /\ queue \in Seq(Request)
  BY DEF IInv, Tables, QueueInv
<1>4. PICK new: new = [chunk |-> Abandoned, left |-> {<<None, i>>: i \in rows}]
  OBVIOUS
<1>5. /\ new \in Request /\ new.chunk = Abandoned /\ new.left # {}
      /\ \A x \in new.left: x[1] = None /\ x[2] \in Int /\ x[2] >= R
  <2>1. \A i \in rows: i \in RamRowNumbers /\ i \in Int /\ i >= R
    BY Bounds DEF SharedRows, RamRowNumbers
  <2>2. {<<None, i>>: i \in rows} \subseteq AnyRow \X RamRowNumbers
    BY <2>1 DEF AnyRow
  <2>3. Abandoned \in Int
    BY DEF Abandoned
  <2>4. new \in Request
    BY <2>2, <2>3, <1>4 DEF Request
  <2>5. new.chunk = Abandoned /\ new.left = {<<None, i>>: i \in rows}
    BY <1>4
  <2>6. new.left # {}
    BY <2>5
  <2>7. \A x \in new.left: x[1] = None /\ x[2] \in rows
    BY <2>5
  <2> QED
    BY <2>1, <2>4, <2>5, <2>6, <2>7
<1>6. /\ queue' \in Seq(Request) /\ DOMAIN queue = 1 .. Len(queue) /\ Len(queue) \in Nat
      /\ DOMAIN queue' = 1 .. (Len(queue) + 1)
      /\ \A i \in 1 .. Len(queue): queue'[i] = queue[i]
      /\ queue'[Len(queue) + 1] = new
  <2>1. /\ queue' \in Seq(Request) /\ Len(queue') = Len(queue) + 1
        /\ \A i \in 1 .. Len(queue): queue'[i] = queue[i]
        /\ queue'[Len(queue) + 1] = new
    BY <1>2, <1>3, <1>4, <1>5, AppendProperties
  <2>2. DOMAIN queue = 1 .. Len(queue) /\ Len(queue) \in Nat
    BY <1>3, QueueTypes
  <2>3. DOMAIN queue' = 1 .. Len(queue')
    BY <2>1, LenProperties
  <2> QED
    BY <2>1, <2>2, <2>3
<1>7. \A i \in DOMAIN queue': queue'[i] = new \/ (i \in DOMAIN queue /\ queue'[i] = queue[i])
  BY <1>6
<1>8. QueueInv'
  <2>1. \A i \in DOMAIN queue:
           /\ queue[i].left # {} /\ queue[i].chunk = Abandoned
           /\ \A x \in queue[i].left: x[1] \in spoiled \union {None}
    BY <1>1 DEF IInv, QueueInv
  <2>2. \A i \in DOMAIN queue':
           /\ queue'[i].left # {} /\ queue'[i].chunk = Abandoned
           /\ \A x \in queue'[i].left: x[1] \in spoiled \union {None}
    BY <2>1, <1>5, <1>7
  <2> QED
    BY <2>2, <1>1, <1>6 DEF QueueInv
<1>9. RamRight'
  <2> SUFFICES ASSUME NEW i \in SlotsOf(ram),
                      ram.expert_in[i] \notin spoiled \union plan.ssd \union {None}
               PROVE  Settled(ramRows, queue', i, ram.expert_in[i])
    BY <1>1 DEF RamRight
  <2>1. Settled(ramRows, queue, i, ram.expert_in[i])
    BY DEF IInv, RamRight
  <2>2. i \in Int /\ i < R
    BY <1>3, TableFacts, Bounds DEF Tables
  <2>3. ASSUME NEW k \in DOMAIN queue', NEW x \in queue'[k].left
        PROVE  x[2] # i
    <3>1. CASE queue'[k] = new
      <4>1. x[2] \in Int /\ x[2] >= R
        BY <3>1, <1>5
      <4> QED
        BY <4>1, <2>2, Bounds
    <3>2. CASE k \in DOMAIN queue /\ queue'[k] = queue[k]
      BY <3>2, <2>1 DEF Settled
    <3> QED
      BY <3>1, <3>2, <1>7
  <2> QED
    BY <2>1, <2>3 DEF Settled
<1>10. ReadsRight' /\ SourcesRight'
  BY <1>1 DEF ReadsRight, SourcesRight
<1>11. Tables' /\ PlanInv'
  <2>1. giveUps' \in 0 .. MaxGiveUps
    <3>1. giveUps \in 0 .. MaxGiveUps /\ MaxGiveUps \in Nat
      BY <1>3, PagerAssumption DEF TypeOK
    <3>2. giveUps < MaxGiveUps /\ giveUps' = giveUps + 1
      BY <1>1
    <3> QED
      BY <3>1, <3>2
  <2> QED
    BY <2>1, <1>1, <1>3 DEF Tables, TypeOK, PlanInv
<1>12. SlabRight' /\ HalfRight' /\ WorkRight'
  BY <1>1 DEF IInv, SlabRight, HalfRight, WorkRight, Due
<1> QED
  BY <1>8, <1>9, <1>10, <1>11, <1>12 DEF IInv

\* The last chunk leaves every row of both tiers right; the shared rows may be
\* used by the next layer.
LEMMA RunKeeps ==
    ASSUME IInv, Run
    PROVE  IInv'
<1>1. /\ Busy /\ gpu = "run"
      /\ UNCHANGED <<vram, ram, ramRows, slab, work, staging, queue, giveUps, fails, spoiled>>
      /\ wrong' = IF wrong > MaxGiveUps \/ \A e \in Mapped: RightRow(e) THEN wrong
                  ELSE wrong + 1
  BY DEF Run, Busy, tables, memory
<1>2. /\ Tables /\ TypeOK /\ PlanInv /\ chunk \in Nat /\ chunk < plan.chunks
      /\ plan.chunks \in Nat /\ plan.need \subseteq Experts /\ plan.ssd \subseteq Experts
      /\ \A e \in plan.need \union plan.ssd: plan.chunk[e] \in Nat
      /\ Oldest = chunk + 1 /\ Newest = chunk + 1
  BY <1>1, BusyFacts DEF Oldest, Newest
<1>3. wrong' \in 0 .. (MaxGiveUps + 1)
  <2>1. wrong \in 0 .. (MaxGiveUps + 1) /\ MaxGiveUps \in Nat
    BY <1>2, PagerAssumption DEF TypeOK
  <2>2. CASE wrong > MaxGiveUps \/ \A e \in Mapped: RightRow(e)
    BY <2>1, <2>2, <1>1
  <2>3. CASE ~ (wrong > MaxGiveUps \/ \A e \in Mapped: RightRow(e))
    <3>1. wrong' = wrong + 1 /\ ~ (wrong > MaxGiveUps)
      BY <2>3, <1>1
    <3> QED
      BY <2>1, <3>1
  <2> QED
    BY <2>2, <2>3
<1>4. Mapped = {e \in plan.need: plan.chunk[e] = chunk}
  BY DEF Mapped, InChunk
<1>5. CASE chunk + 1 < plan.chunks
  <2>1. /\ gpu' = "copy" /\ chunk' = chunk + 1 /\ ran' = ran \union Mapped /\ plan' = plan
        /\ Busy'
    BY <1>5 DEF Run, Busy
  <2>2. plan.kind = "prefill"
    BY <1>1, <1>2, <1>5, BusyFacts DEF PlanKind
  <2>3. /\ ran = {e \in plan.need: plan.chunk[e] < chunk}
        /\ ran' = {e \in plan.need: plan.chunk[e] < chunk + 1}
    <3>1. ran = {e \in plan.need: plan.chunk[e] < chunk}
      BY <1>1, <1>2 DEF PlanInv
    <3>2. \A e \in plan.need:
             plan.chunk[e] < chunk + 1 <=> plan.chunk[e] < chunk \/ plan.chunk[e] = chunk
      BY <1>2
    <3> QED
      BY <3>1, <3>2, <2>1, <1>4
  <2>4. PlanInv'
    BY <2>1, <2>3, <1>1, <1>2, <1>5 DEF PlanInv, Busy
  <2>5. Tables'
    <3>1. ran' \subseteq Experts /\ chunk' \in Nat
      BY <2>1, <2>3, <1>2
    <3> QED
      BY <3>1, <2>1, <1>1, <1>2, <1>3 DEF Tables, TypeOK
  <2>6. Oldest' = Oldest /\ Newest' = Newest
    BY <2>1, <1>2 DEF Oldest, Newest
  <2>7. QueueInv'
    BY <2>1, <2>6, <1>1 DEF IInv, QueueInv
  <2>8. ReadsRight'
    BY <2>1, <2>6, <1>1, <1>2 DEF IInv, ReadsRight
  <2>9. SourcesRight'
    <3> SUFFICES ASSUME NEW e \in plan.todo \ (plan.skip \union plan.cached \union spoiled),
                        plan.chunk[e] > chunk + 1 \/ plan.chunk[e] = chunk + 1
                 PROVE  Settled(ramRows, queue, plan.src_row[e], e)
      BY <2>1, <1>1 DEF SourcesRight
    <3>1. plan.chunk[e] \in Nat
      BY <1>1, <1>2, BusyFacts
    <3>2. plan.chunk[e] > chunk
      BY <3>1, <1>2
    <3> QED
      BY <3>2, <1>1 DEF IInv, SourcesRight
  <2>10. RamRight'
    BY <2>1, <1>1 DEF IInv, RamRight
  <2>11. SlabRight' /\ HalfRight' /\ WorkRight'
    BY <2>1, <2>2, <1>1 DEF IInv, SlabRight, HalfRight, WorkRight, Due
  <2> QED
    BY <2>4, <2>5, <2>7, <2>8, <2>9, <2>10, <2>11 DEF IInv
<1>6. CASE ~ (chunk + 1 < plan.chunks)
  <2>1. /\ gpu' = "idle" /\ chunk' = 0 /\ ran' = {} /\ plan' = NoPlan /\ ~ Busy'
    BY <1>6 DEF Run, Busy
  <2>2. plan'.kind = "none" /\ plan'.ssd = {}
    BY <2>1 DEF NoPlan
  <2>3. PlanInv' /\ Tables'
    BY <2>1, <1>1, <1>2, <1>3 DEF PlanInv, Tables, TypeOK
  <2>4. \A i \in DOMAIN queue: queue[i].chunk = Abandoned
    <3> SUFFICES ASSUME NEW i \in DOMAIN queue, queue[i].chunk # Abandoned
                 PROVE  FALSE
      OBVIOUS
    <3>1. /\ queue[i].chunk \in (chunk + 1) .. (chunk + 1) /\ queue[i].left # {}
          /\ queue[i].left \subseteq ReadsOf(plan, queue[i].chunk)
      BY <1>2 DEF IInv, QueueInv
    <3>2. queue[i].chunk = chunk + 1
      BY <3>1, <1>2
    <3>3. PICK f \in InChunk(plan, plan.ssd, chunk + 1): TRUE
      BY <3>1, <3>2 DEF ReadsOf
    <3>4. f \in plan.ssd /\ plan.chunk[f] = chunk + 1
      BY <3>3 DEF InChunk
    <3>5. plan.chunk[f] \in 0 .. (plan.chunks - 1)
      BY <3>4, <1>1, BusyFacts DEF PlanSets
    <3> QED
      BY <3>4, <3>5, <1>2, <1>6
  <2>5. QueueInv'
    BY <2>4, <1>1 DEF IInv, QueueInv
  <2>6. ReadsRight' /\ SourcesRight'
    BY <2>1 DEF ReadsRight, SourcesRight
  <2>7. RamRight'
    <3> SUFFICES ASSUME NEW i \in SlotsOf(ram),
                        ram.expert_in[i] \notin spoiled \union {None},
                        ram.expert_in[i] \in plan.ssd
                 PROVE  Settled(ramRows, queue, i, ram.expert_in[i])
      BY <2>1, <1>1 DEF IInv, RamRight
    <3> DEFINE e == ram.expert_in[i]
    <3>1. SlotsOf(ram) = 0 .. (R - 1) /\ e \in Experts /\ ram.slot_of[e] = i /\ i # None
      BY <1>2, TableFacts, Bounds DEF Tables
    <3>2. plan.src_row[e] = i
      BY <3>1, <1>1, BusyFacts DEF PlanApart
    <3>3. i < R
      BY <3>1, Bounds
    <3>4. ~ Awaited(queue, plan, e)
      BY <2>4 DEF Awaited
    <3>5. plan.chunk[e] <= Newest
      <4>1. plan.chunk[e] \in 0 .. (plan.chunks - 1)
        BY <1>1, BusyFacts DEF PlanSets
      <4> QED
        BY <4>1, <1>2, <1>6
    <3> HIDE DEF e
    <3>6. Settled(ramRows, queue, plan.src_row[e], e)
      BY <3>2, <3>3, <3>4, <3>5, <1>1 DEF IInv, ReadsRight, e
    <3> QED
      BY <3>2, <3>6 DEF e
  <2>8. SlabRight' /\ HalfRight' /\ WorkRight'
    BY <2>1, <2>2, <1>1 DEF IInv, SlabRight, HalfRight, WorkRight, Due
  <2> QED
    BY <2>3, <2>5, <2>6, <2>7, <2>8 DEF IInv
<1> QED
  BY <1>5, <1>6

-----------------------------------------------------------------------------
(* The steps of the host.                                                  *)

\* A read is over, with its own row in place or its expert spoiled, or it was
\* another layer's and was given up.  Nothing else
\* is pending for that row: the other pending reads are of the same chunk or of
\* a neighbouring one.
LEMMA ReadKeeps ==
    ASSUME IInv, queue # <<>>, NEW r \in Head(queue).left, ReadDone(r),
           NEW v \in AnyRow, v = r[1] \/ r[1] \in spoiled' \union {None},
           ramRows' = [ramRows EXCEPT ![r[2]] = v],
           spoiled \subseteq spoiled', spoiled' \subseteq Experts, fails' \in 0 .. MaxFails,
           UNCHANGED <<vram, ram, slab, work, staging, gpu, plan, chunk, ran, giveUps, wrong>>
    PROVE  IInv'
<1>1. /\ Tables /\ TypeOK /\ PlanInv /\ queue \in Seq(Request)
      /\ Newest' = Newest /\ Oldest' = Oldest /\ (Busy' <=> Busy)
  BY DEF IInv, Tables, QueueInv, Newest, Oldest, Busy
<1>2. PICK q2: q2 = queue' /\ q2 = Served(queue, r)
  BY DEF ReadDone, Served
<1>3. \A i \in DOMAIN queue: queue[i].left # {}
  BY DEF IInv, QueueInv
<1>4. \E d \in {0, 1}: ReadOver(queue, q2, r, d)
  BY <1>1, <1>2, <1>3, ReadDoneQueue
<1>5. PICK d \in {0, 1}: ReadOver(queue, q2, r, d)
  BY <1>4
<1>6. /\ Len(queue) \in Nat /\ DOMAIN queue = 1 .. Len(queue) /\ 1 \in DOMAIN queue
      /\ Head(queue) = queue[1] /\ r \in queue[1].left
      /\ \A i \in DOMAIN queue: /\ queue[i].chunk \in Int
                                /\ queue[i].left \subseteq AnyRow \X RamRowNumbers
  <2>1. Len(queue) \in Nat /\ DOMAIN queue = 1 .. Len(queue)
    BY <1>1, QueueTypes
  <2>2. Len(queue) \in Nat \ {0}
    BY <1>1, EmptySeq
  <2>3. Head(queue) = queue[1]
    OBVIOUS
  <2> QED
    BY <2>1, <2>2, <2>3, <1>1, QueueTypes
<1>7. r[2] \in RamRowNumbers /\ r = <<r[1], r[2]>>
  <2>1. r \in AnyRow \X RamRowNumbers
    BY <1>6
  <2> QED
    BY <2>1
<1>8. /\ q2 \in Seq(Request) /\ DOMAIN q2 = 1 .. (Len(queue) - d)
      /\ \A i \in DOMAIN q2: /\ i \in Int /\ i + d \in DOMAIN queue
                             /\ q2[i].chunk = queue[i + d].chunk
                             /\ q2[i].left # {} /\ q2[i].left \subseteq queue[i + d].left
                             /\ i + d = 1 => r \notin q2[i].left
  BY <1>5, <1>6 DEF ReadOver
<1>9. ASSUME NEW i \in DOMAIN queue, NEW x \in queue[i].left, i # 1 \/ x # r
      PROVE  \E k \in DOMAIN q2: q2[k].chunk = queue[i].chunk /\ x \in q2[k].left
  <2>1. i - d \in DOMAIN q2 /\ x \in q2[i - d].left
    BY <1>5, <1>9 DEF ReadOver
  <2>2. (i - d) + d = i
    BY <1>6
  <2>3. q2[i - d].chunk = queue[i].chunk
    BY <2>1, <2>2, <1>8
  <2> QED
    BY <2>1, <2>3
<1>10. QueueInv'
  <2>1. \A i \in DOMAIN q2: q2[i].left # {}
    BY <1>8
  <2>2. \A i \in DOMAIN q2: q2[i].chunk = Abandoned =>
           \A x \in q2[i].left: x[1] \in spoiled' \union {None}
    <3>1. \A i \in DOMAIN queue:
             queue[i].chunk = Abandoned =>
                \A x \in queue[i].left: x[1] \in spoiled \union {None}
      BY DEF IInv, QueueInv
    <3> QED
      BY <3>1, <1>8
  <2>3. \A i \in DOMAIN q2: q2[i].chunk # Abandoned =>
           /\ Busy' /\ q2[i].chunk \in Oldest' .. Newest'
           /\ q2[i].left \subseteq ReadsOf(plan', q2[i].chunk)
    <3>1. \A i \in DOMAIN queue: queue[i].chunk # Abandoned =>
             /\ Busy /\ queue[i].chunk \in Oldest .. Newest
             /\ queue[i].left \subseteq ReadsOf(plan, queue[i].chunk)
      BY DEF IInv, QueueInv
    <3>2. plan' = plan
      OBVIOUS
    <3> QED
      BY <3>1, <3>2, <1>1, <1>8
  <2>4. ASSUME NEW i \in DOMAIN q2, NEW j \in DOMAIN q2, i < j
        PROVE  q2[i].chunk = Abandoned \/ q2[i].chunk < q2[j].chunk
    <3>1. i + d < j + d /\ i + d \in DOMAIN queue /\ j + d \in DOMAIN queue
      BY <2>4, <1>8
    <3>2. queue[i + d].chunk = Abandoned \/ queue[i + d].chunk < queue[j + d].chunk
      BY <3>1 DEF IInv, QueueInv
    <3> QED
      BY <3>2, <1>8
  <2> QED
    BY <2>1, <2>2, <2>3, <2>4, <1>2, <1>8 DEF QueueInv
<1>11. ASSUME NEW row, NEW e, Settled(ramRows, queue, row, e)
       PROVE  Settled(ramRows', queue', row, e)
  <2>1. row # r[2]
    BY <1>6, <1>11 DEF Settled
  <2>2. ramRows'[row] = ramRows[row]
    BY <2>1, <1>1 DEF TypeOK
  <2>3. \A i \in DOMAIN q2: \A x \in q2[i].left:
           x[2] = row => \E k \in DOMAIN queue: x \in queue[k].left
    BY <1>8
  <2>4. PICK rows: rows = ramRows' /\ rows[row] = ramRows[row]
    BY <2>2
  <2>5. Settled(rows, q2, row, e)
    BY <2>3, <2>4, <1>11, SettledStays
  <2> QED
    BY <2>4, <2>5, <1>2
<1>12. ReadsRight'
  <2> SUFFICES ASSUME Busy, NEW e \in plan.ssd \ spoiled', plan.chunk[e] <= Newest,
                      ~ Awaited(q2, plan, e), plan.src_row[e] < R \/ plan.chunk[e] >= chunk
               PROVE  Settled(ramRows', q2, plan.src_row[e], e)
    BY <1>1, <1>2 DEF ReadsRight
  <2> DEFINE y == <<e, plan.src_row[e]>>
  <2>1. CASE ~ Awaited(queue, plan, e)
    <3>1. Settled(ramRows, queue, plan.src_row[e], e)
      BY <2>1 DEF IInv, ReadsRight
    <3> QED
      BY <3>1, <1>2, <1>11
  <2>2. CASE Awaited(queue, plan, e)
    <3>1. PICK i \in DOMAIN queue: queue[i].chunk # Abandoned /\ y \in queue[i].left
      BY <2>2 DEF Awaited
    <3>2. i = 1 /\ y = r
      BY <3>1, <1>9 DEF Awaited
    <3>3. r[1] = e /\ r[2] = plan.src_row[e] /\ v = e
      <4>1. e # None
        BY BusyFacts, Bounds DEF Experts, None
      <4> QED
        BY <3>2, <4>1
    <3>4. ramRows'[plan.src_row[e]] = e
      BY <3>3, <1>1, <1>7 DEF TypeOK
    <3>5. chunk \in Nat /\ Oldest \in Nat /\ Newest \in Nat /\ Newest <= Oldest + 1
      BY BusyFacts DEF Oldest, Newest
    <3>6. ASSUME NEW k \in DOMAIN queue, NEW x \in queue[k].left, queue[k].chunk # Abandoned
          PROVE  /\ x[1] \in plan.ssd /\ plan.chunk[x[1]] = queue[k].chunk
                 /\ x = <<x[1], plan.src_row[x[1]]>>
                 /\ queue[k].chunk \in Oldest .. Newest
      <4>1. /\ queue[k].left \subseteq ReadsOf(plan, queue[k].chunk)
            /\ queue[k].chunk \in Oldest .. Newest
        BY <3>6 DEF IInv, QueueInv
      <4>2. PICK f \in InChunk(plan, plan.ssd, queue[k].chunk): x = <<f, plan.src_row[f]>>
        BY <4>1 DEF ReadsOf
      <4>3. x[1] = f /\ f \in plan.ssd /\ plan.chunk[f] = queue[k].chunk
        BY <4>2 DEF InChunk
      <4> QED
        BY <4>1, <4>2, <4>3
    <3>7. plan.chunk[e] = queue[1].chunk /\ queue[1].chunk \in Oldest .. Newest
      BY <3>1, <3>2, <3>3, <3>6
    <3>8. ASSUME NEW j \in DOMAIN q2, NEW x \in q2[j].left, x[2] = plan.src_row[e]
          PROVE  FALSE
      <4>1. PICK k \in DOMAIN queue: k = j + d
        BY <1>8
      <4>2. x \in queue[k].left /\ (k = 1 => x # r)
        BY <4>1, <1>8
      <4>3. k # 1 => queue[1].chunk < queue[k].chunk
        <5>1. k # 1 => 1 < k
          BY <1>6
        <5> QED
          BY <5>1, <3>1, <3>2, <1>6 DEF IInv, QueueInv
      <4>4. queue[k].chunk # Abandoned
        <5>1. queue[1].chunk >= 0 /\ queue[1].chunk \in Int /\ queue[k].chunk \in Int
          BY <3>5, <3>7, <1>6
        <5> QED
          BY <5>1, <4>3 DEF Abandoned
      <4>5. /\ x[1] \in plan.ssd /\ plan.chunk[x[1]] = queue[k].chunk
            /\ x = <<x[1], plan.src_row[x[1]]>> /\ queue[k].chunk \in Oldest .. Newest
        BY <4>2, <4>4, <3>6
      <4>6. x[2] = plan.src_row[x[1]]
        BY <4>5
      <4>7. x[1] # e
        <5> SUFFICES ASSUME x[1] = e
                     PROVE  FALSE
          OBVIOUS
        <5>1. queue[k].chunk = queue[1].chunk /\ x = r
          BY <4>5, <3>2, <3>7
        <5>2. queue[1].chunk \in Int
          BY <1>6
        <5> QED
          BY <5>1, <5>2, <4>2, <4>3
      <4>8. \/ plan.chunk[x[1]] > plan.chunk[e] + 1
            \/ plan.chunk[e] > plan.chunk[x[1]] + 1
        BY <4>5, <4>6, <4>7, <3>8, BusyFacts DEF PlanApart
      <4> QED
        BY <4>5, <4>8, <3>5, <3>7
    <3> QED
      BY <3>4, <3>8 DEF Settled
  <2> QED
    BY <2>1, <2>2
<1>13. SourcesRight' /\ RamRight'
  <2>1. SourcesRight'
    BY <1>1, <1>11 DEF IInv, SourcesRight
  <2>2. RamRight'
    BY <1>11 DEF IInv, RamRight
  <2> QED
    BY <2>1, <2>2
<1>14. Tables' /\ PlanInv'
  <2>1. ramRows' \in [RamRowNumbers -> AnyRow]
    BY <1>1 DEF TypeOK
  <2> QED
    BY <2>1, <1>1 DEF Tables, TypeOK, PlanInv, Busy
<1>15. SlabRight' /\ HalfRight' /\ WorkRight'
  BY DEF IInv, SlabRight, HalfRight, WorkRight, Due
<1> QED
  BY <1>10, <1>12, <1>13, <1>14, <1>15 DEF IInv

LEMMA HostKeeps ==
    ASSUME IInv, HostStep
    PROVE  IInv'
<1>1. TypeOK /\ queue \in Seq(Request)
  BY DEF IInv, Tables, QueueInv
<1>2. queue # <<>> => \A r \in Head(queue).left: r[1] \in AnyRow /\ r[2] \in RamRowNumbers
  <2> SUFFICES ASSUME queue # <<>>
               PROVE  \A r \in Head(queue).left: r[1] \in AnyRow /\ r[2] \in RamRowNumbers
    OBVIOUS
  <2>1. Head(queue) \in Request
    BY <1>1, HeadTailProperties
  <2>2. Head(queue).left \subseteq AnyRow \X RamRowNumbers
    BY <2>1 DEF Request
  <2> QED
    BY <2>2
<1>3. CASE Read
  <2>1. PICK r \in Head(queue).left: /\ ramRows' = [ramRows EXCEPT ![r[2]] = r[1]]
                                     /\ ReadDone(r)
    BY <1>3 DEF Read
  <2>2. /\ queue # <<>>
        /\ UNCHANGED <<vram, ram, slab, work, staging, gpu, plan, chunk, ran, giveUps,
                       fails, spoiled, wrong>>
    BY <1>3 DEF Read, tables
  <2>3. r[1] \in AnyRow
    BY <2>2, <1>2 DEF AnyRow
  <2>4. spoiled \subseteq spoiled' /\ spoiled' \subseteq Experts /\ fails' \in 0 .. MaxFails
    BY <2>2, <1>1 DEF TypeOK
  <2> QED
    BY <2>1, <2>2, <2>3, <2>4, ReadKeeps
<1>4. CASE ReadFails
  <2>1. PICK r \in Head(queue).left:
           /\ \E left \in {ramRows[r[2]], None}: ramRows' = [ramRows EXCEPT ![r[2]] = left]
           /\ ReadDone(r)
           /\ spoiled' = spoiled \union ({r[1]} \intersect Experts)
    BY <1>4 DEF ReadFails
  <2>2. /\ queue # <<>> /\ fails < MaxFails /\ fails' = fails + 1
        /\ UNCHANGED <<vram, ram, slab, work, staging, gpu, plan, chunk, ran, giveUps, wrong>>
    BY <1>4 DEF ReadFails, tables
  <2>3. PICK v \in {ramRows[r[2]], None}: ramRows' = [ramRows EXCEPT ![r[2]] = v]
    BY <2>1
  <2>4. v \in AnyRow
    BY <2>2, <2>3, <1>1, <1>2 DEF AnyRow, TypeOK
  <2>5. /\ spoiled \subseteq spoiled' /\ spoiled' \subseteq Experts
        /\ r[1] \in spoiled' \union {None}
    BY <2>1, <2>2, <1>1, <1>2 DEF TypeOK, AnyRow
  <2>6. fails' \in 0 .. MaxFails
    BY <2>2, <1>1, PagerAssumption DEF TypeOK
  <2> QED
    BY <2>1, <2>2, <2>3, <2>4, <2>5, <2>6, ReadKeeps
<1> QED
  BY <1>3, <1>4 DEF HostStep

-----------------------------------------------------------------------------
(* The invariant, and what it says.                                        *)

LEMMA InitHolds ==
    ASSUME Init
    PROVE  IInv
<1>1. TableInv(S, vram) /\ TableInv(R, ram)
  BY EmptyTableInv, WarmTableInv, Bounds DEF Init
<1>2. gpu = "idle" /\ plan = NoPlan /\ chunk = 0 /\ ran = {} /\ queue = <<>> /\ spoiled = {}
  BY DEF Init
<1>3. plan.kind = "none" /\ plan.ssd = {}
  BY <1>2 DEF NoPlan
<1>4. vram \in TableType(S) /\ ram \in TableType(R)
  BY <1>1 DEF TableInv
<1>5. 0 .. (R - 1) \subseteq Experts /\ 0 .. (R - 1) \subseteq RamRowNumbers
  BY Bounds DEF Experts
<1>6. Tables
  <2>1. ramRows \in [RamRowNumbers -> AnyRow]
    <3>1. \A i \in RamRowNumbers: i < R => i \in Experts
      BY Bounds DEF RamRowNumbers, Experts
    <3> QED
      BY <3>1 DEF Init, AnyRow
  <2>2. /\ slab \in [0 .. (S - 1) -> AnyRow] /\ work \in [0 .. (W - 1) -> AnyRow]
        /\ staging \in [StagingRows -> AnyRow]
    BY DEF Init, AnyRow
  <2>3. giveUps \in 0 .. MaxGiveUps /\ fails \in 0 .. MaxFails /\ wrong \in 0 .. (MaxGiveUps + 1)
    BY PagerAssumption DEF Init
  <2> QED
    BY <1>1, <1>2, <1>4, <2>1, <2>2, <2>3 DEF Tables, TypeOK
<1>7. PlanInv
  BY <1>2 DEF PlanInv, Busy
<1>8. QueueInv
  <2>1. queue \in Seq(Request) /\ Len(queue) = 0
    BY <1>2, EmptySeq
  <2>2. DOMAIN queue = {}
    BY <2>1, QueueTypes
  <2> QED
    BY <2>1, <2>2 DEF QueueInv
<1>9. ReadsRight /\ SourcesRight
  BY <1>2 DEF ReadsRight, SourcesRight, Busy
<1>10. RamRight
  <2> SUFFICES ASSUME NEW i \in SlotsOf(ram)
               PROVE  Settled(ramRows, queue, i, ram.expert_in[i])
    BY DEF RamRight
  <2>1. i \in 0 .. (R - 1)
    BY <1>1, TableFacts, Bounds
  <2>2. ram.expert_in[i] = i
    BY <2>1 DEF Init, WarmTable
  <2>3. ramRows[i] = i
    BY <2>1, <1>5, Bounds DEF Init
  <2>4. DOMAIN queue = {}
    <3>1. queue \in Seq(Request) /\ Len(queue) = 0
      BY <1>2, EmptySeq
    <3> QED
      BY <3>1, QueueTypes
  <2> QED
    BY <2>2, <2>3, <2>4 DEF Settled
<1>11. SlabRight
  <2>1. SlotsOf(vram) = 0 .. (S - 1)
    BY <1>1, TableFacts, Bounds
  <2>2. \A i \in 0 .. (S - 1): vram.expert_in[i] = None
    BY DEF Init, EmptyTable
  <2> QED
    BY <2>1, <2>2 DEF SlabRight
<1>12. HalfRight /\ WorkRight
  BY <1>3 DEF HalfRight, WorkRight
<1> QED
  BY <1>6, <1>7, <1>8, <1>9, <1>10, <1>11, <1>12 DEF IInv

LEMMA StepKeeps ==
    ASSUME IInv, [Next]_vars
    PROVE  IInv'
<1>1. CASE StartDecode \/ StartPrefillAcquire \/ StartPrefillSeed
  <2>1. Tables
    BY DEF IInv
  <2>2. gpu = "idle" /\ \E pl: Begin(pl) /\ PlanStarts(pl, vram, vram', ram, ram')
    BY <1>1, <2>1, StartAdopts
  <2> QED
    BY <2>2, BeginKeeps
<1>2. CASE CopyTodo
  BY <1>2, CopyTodoKeeps
<1>3. CASE Wait
  BY <1>3, WaitKeeps
<1>4. CASE GiveUp
  BY <1>4, GiveUpKeeps
<1>5. CASE CopyLate
  BY <1>5, CopyLateKeeps
<1>6. CASE Run
  BY <1>6, RunKeeps
<1>7. CASE HostStep
  BY <1>7, HostKeeps
<1>8. CASE GiveUpElsewhere
  BY <1>8, GiveUpElsewhereKeeps
<1>9. CASE UNCHANGED vars
  BY <1>9 DEF vars, IInv, Tables, TypeOK, PlanInv, Busy, QueueInv, Oldest, Newest, ReadsRight,
              SourcesRight, RamRight, SlabRight, Due, HalfRight, WorkRight
<1> QED
  BY <1>1, <1>2, <1>3, <1>4, <1>5, <1>6, <1>7, <1>8, <1>9 DEF Next, GpuStep

\* The invariant above holds in every state.
THEOREM PagerInvariant == Spec => []IInv
<1>1. Init => IInv
  BY InitHolds
<1>2. IInv /\ [Next]_vars => IInv'
  BY StepKeeps
<1> QED
  BY <1>1, <1>2, PTL DEF Spec

\* The tables, the rows of the three tiers and the counters keep their types:
\* every slot number and every row number the kernels compute is in range.
THEOREM PagerTypeCorrect == Spec => []TypeOK
<1>1. IInv => TypeOK
  BY DEF IInv, Tables
<1> QED
  BY <1>1, PagerInvariant, PTL

\* While fewer than Ring-1 of the requests that any layer gave up are unserved:
\* whenever the MoE runs, every expert of the chunk is computed with its own
\* weights, but those whose read failed or was given up.  No read of the host
\* overwrites a row before it is copied or after it was read (table.py:190-199),
\* nor does a late one of another layer's.
THEOREM RightRows == Spec => []MoeUsesRightRows
<1>1. ASSUME IInv, gpu = "run", NEW e \in Mapped \ spoiled
      PROVE  RightRow(e)
  <2>1. /\ Busy /\ PlanSets(plan) /\ PlanKind(plan, vram) /\ plan.kind \in {"decode", "prefill"}
        /\ e \in plan.need /\ plan.chunk[e] = chunk
    BY <1>1, BusyFacts DEF Busy, Mapped, InChunk
  <2>2. CASE plan.kind = "decode"
    <3>1. plan.dst_row[e] \in SlotsOf(vram) /\ vram.expert_in[plan.dst_row[e]] = e
      BY <1>1, <2>1, <2>2, DecodeSlots
    <3>2. e # None /\ ~ Due(e)
      BY <1>1, <2>1, Bounds DEF Due, PlanSets, Experts, None
    <3> QED
      BY <1>1, <2>2, <3>1, <3>2 DEF IInv, SlabRight, RightRow, Target
  <2>3. CASE plan.kind = "prefill"
    BY <1>1, <2>1, <2>3 DEF IInv, WorkRight, RightRow, Target
  <2> QED
    BY <2>1, <2>2, <2>3
<1>2. IInv => MoeUsesRightRows
  BY <1>1 DEF MoeUsesRightRows
<1> QED
  BY <1>2, PagerInvariant, PTL

\* In the same scope: when the last chunk runs, every expert the step needs has run,
\* and no read is pending but those given up.  So the number of chunks is enough
\* (table.py:187), and the next layer may use the shared rows (experts.py:79-81).
THEOREM StepsAreComplete == Spec => []StepIsComplete
<1>1. ASSUME IInv, gpu = "run", chunk + 1 = plan.chunks
      PROVE  /\ ran \union Mapped = plan.need
             /\ \A i \in DOMAIN queue: queue[i].chunk = Abandoned
  <2>1. Busy /\ PlanInv /\ chunk \in Nat /\ PlanSets(plan)
    BY <1>1, BusyFacts DEF Busy
  <2>2. \A e \in plan.need \union plan.ssd: plan.chunk[e] \in Nat /\ plan.chunk[e] <= chunk
    BY <1>1, <2>1 DEF PlanSets
  <2>3. ran \union Mapped = plan.need
    <3>1. ran = {e \in plan.need: plan.chunk[e] < chunk}
      BY <2>1 DEF PlanInv
    <3>2. Mapped = {e \in plan.need: plan.chunk[e] = chunk}
      BY DEF Mapped, InChunk
    <3>3. \A e \in plan.need: plan.chunk[e] < chunk \/ plan.chunk[e] = chunk
      BY <2>1, <2>2
    <3> QED
      BY <3>1, <3>2, <3>3
  <2>4. ASSUME NEW i \in DOMAIN queue, queue[i].chunk # Abandoned
        PROVE  FALSE
    <3>1. /\ queue[i].chunk \in Oldest .. Newest /\ queue[i].left # {}
          /\ queue[i].left \subseteq ReadsOf(plan, queue[i].chunk)
      BY <1>1, <2>4 DEF IInv, QueueInv
    <3>2. queue[i].chunk = chunk + 1
      BY <1>1, <2>1, <3>1 DEF Oldest, Newest
    <3>3. PICK f \in InChunk(plan, plan.ssd, chunk + 1): TRUE
      BY <3>1, <3>2 DEF ReadsOf
    <3>4. f \in plan.ssd /\ plan.chunk[f] = chunk + 1
      BY <3>3 DEF InChunk
    <3> QED
      BY <2>1, <2>2, <3>4
  <2> QED
    BY <2>3, <2>4
<1>2. IInv => StepIsComplete
  BY <1>1 DEF StepIsComplete
<1> QED
  BY <1>2, PagerInvariant, PTL

\* In the same scope: between forward steps every slot of both tables holds the row
\* of its expert, unless its read failed or was given up, so a later hit may be used
\* as it is.
THEOREM RowsMatch == Spec => []RowsMatchTables
<1>1. ASSUME IInv, gpu = "idle"
      PROVE  /\ \A i \in SlotsOf(vram):
                   vram.expert_in[i] \notin spoiled \union {None} => slab[i] = vram.expert_in[i]
             /\ \A i \in SlotsOf(ram):
                   ram.expert_in[i] \notin spoiled \union {None} => ramRows[i] = ram.expert_in[i]
  <2>1. plan = NoPlan
    BY <1>1 DEF IInv, PlanInv, Busy
  <2>2. plan.kind = "none" /\ plan.ssd = {}
    BY <2>1 DEF NoPlan
  <2> QED
    BY <1>1, <2>2 DEF IInv, SlabRight, Due, RamRight, Settled
<1>2. IInv => RowsMatchTables
  BY <1>1 DEF RowsMatchTables
<1> QED
  BY <1>2, PagerInvariant, PTL
=============================================================================
