-------------------------------- MODULE Pager --------------------------------
(***************************************************************************)
(* One MoE layer through the three tiers: the tables decide, the host      *)
(* reads rows from SSD into the RAM tier while the GPU copies rows into a  *)
(* slab and runs the MoE on it (experts.py: forward_modular and            *)
(* _expert_pager_forward_working).                                         *)
(*                                                                         *)
(* A forward step is a plan of chunks.  Decode is one chunk on the cache   *)
(* slab, prefill NumChunks(W) chunks on the working slab.  Both follow one *)
(* order: publish the reads of chunk 0; then for every chunk copy what     *)
(* needs no read, publish the next chunk's reads, wait for this chunk's,   *)
(* copy what was read, run.  The host's reads interleave with all of it.   *)
(*                                                                         *)
(* The ring between the two sides is the in-order service of FetchService. *)
(* FetchRing implements that as long as fewer than Ring-1 of the requests  *)
(* that were given up, by any layer, are unserved, which is the scope of   *)
(* this module: beyond it the host may jump over a request that is still   *)
(* waited for.  A row is the expert whose weights it has.                  *)
(* A copy of a list is one step: a host read that overlaps it may as well  *)
(* come first.  So is the expansion of compressed rows with the copy next  *)
(* to it: it touches the GPU's own memory alone.                           *)
(*                                                                         *)
(* A failed read is noticed when Python runs the next forward step, and    *)
(* neither a replayed graph nor a step that was launched before does that: *)
(* steps go on here with what the read left.                               *)
(***************************************************************************)
EXTENDS ExpertTable, Sequences

CONSTANTS
    S,          \* VRAM slots
    R,          \* RAM slots
    W,          \* rows of the working slab (WORKING_ROWS)
    Paths,      \* a subset of {"decode", "acquire", "seed"}
    Ring,       \* slots of the ring (store.py: RING)
    Compress,   \* whether the RAM and SSD tiers are compressed
    MaxGiveUps, \* bound: waits given up, here and in other layers
    MaxFails,   \* bound: reads that fail
    MaxFaults   \* bound: both together

ASSUME PagerAssumption ==
    /\ E \in Nat /\ S \in Nat /\ R \in Nat /\ W \in Nat
    /\ 1 <= S /\ S <= R /\ R <= E /\ 1 <= W
    /\ Paths \subseteq {"decode", "acquire", "seed"}
    /\ Ring \in Nat /\ Ring >= 2
    /\ Compress \in BOOLEAN
    /\ MaxGiveUps \in Nat /\ MaxFails \in Nat /\ MaxFaults \in Nat

VARIABLES
    vram, ram,  \* the tables
    ramRows,    \* rows of the RAM tier, then two faces of W shared rows
    slab,       \* rows of the cache slab
    work,       \* rows of the working slab
    staging,    \* compressed rows between their copy and their expansion
    gpu,        \* "idle", "copy", "wait", "late", "run"
    plan,       \* the plan of the current forward step
    chunk,      \* its current chunk
    ran,        \* experts the MoE has run in this forward step
    queue,      \* requests the host has not finished, oldest first: this layer's, and
                \* those that other layers gave up
    giveUps,    \* waits given up, here and in other layers
    fails,      \* reads that failed
    spoiled,    \* history: experts whose read failed, or was not finished when
                \* a wait was given up
    wrong       \* history: chunks the MoE ran on a wrong row (up to MaxGiveUps + 1)

tables == <<vram, ram>>
memory == <<ramRows, slab, work, staging>>  \* None: another layer's weights, or none
vars == <<vram, ram, ramRows, slab, work, staging, gpu, plan, chunk, ran, queue, giveUps,
          fails, spoiled, wrong>>

AnyRow == {None} \union Experts
RamRowNumbers == 0 .. (R + 2 * W - 1)
SharedRows == R .. (R + 2 * W - 1)
\* Decode stages in the head of the working slab, prefill in rows of its own;
\* neither is used while the other is.
StagingRows == 0 .. ((IF S > W THEN S ELSE W) - 1)
Abandoned == -1

NoPlan ==
    [kind |-> "none", chunks |-> 0, need |-> {}, chunk |-> <<>>, dst_row |-> <<>>,
     src_row |-> <<>>, todo |-> {}, skip |-> {}, ssd |-> {}, late |-> {}, cached |-> {}]

Init ==
    /\ vram = EmptyTable(S)
    /\ ram = WarmTable(R)
    /\ ramRows = [i \in RamRowNumbers |-> IF i < R THEN i ELSE None]
    /\ slab = [i \in 0 .. (S - 1) |-> None]
    /\ work = [i \in 0 .. (W - 1) |-> None]
    /\ staging = [i \in StagingRows |-> None]
    /\ gpu = "idle" /\ plan = NoPlan /\ chunk = 0 /\ ran = {}
    /\ queue = <<>>
    /\ giveUps = 0 /\ fails = 0 /\ spoiled = {} /\ wrong = 0

-----------------------------------------------------------------------------
InChunk(pl, list, c) == {e \in list: pl.chunk[e] = c}

\* The request of a chunk's reads: nothing is published for an empty list.
Published(q, pl, c) ==
    LET list == InChunk(pl, pl.ssd, c)
    IN  IF list = {} THEN q
        ELSE Append(q, [chunk |-> c, left |-> {<<e, pl.src_row[e]>>: e \in list}])

\* The other layers ran since this layer's last step, and they use the same
\* working slab, staging and shared rows: nothing of this layer is left there.
SharedRowsLost ==
    /\ work' = [i \in DOMAIN work |-> None]
    /\ staging' = [i \in StagingRows |-> None]
    /\ ramRows' = [i \in RamRowNumbers |-> IF i < R THEN ramRows[i] ELSE None]

Begin(pl) ==
    /\ SharedRowsLost
    /\ plan' = pl
    /\ chunk' = 0
    /\ ran' = {}
    /\ queue' = Published(queue, pl, 0)
    /\ gpu' = "copy"
    /\ UNCHANGED <<slab, giveUps, fails, spoiled, wrong>>

\* Decode: both tables acquire.  VRAM misses that RAM has are copied while the
\* RAM misses, which this copy skips, are read; those are copied after the
\* wait, VRAM hits among them.
DecodePlan(ids) ==
    LET all == [e \in Experts |-> 0]
        ssd == Misses(ram, ids)
    IN  [kind |-> "decode", chunks |-> 1, need |-> ids, chunk |-> all,
         dst_row |-> vram'.slot_of, src_row |-> ram'.slot_of,
         todo |-> Misses(vram, ids), skip |-> ssd, ssd |-> ssd, late |-> ssd,
         cached |-> {}]

StartDecode ==
    /\ gpu = "idle" /\ "decode" \in Paths
    /\ \E ids \in SUBSET Experts:
          /\ Cardinality(ids) <= S
          /\ vram' = Acquire(vram, ids)
          /\ ram' = Acquire(ram, ids)
          /\ Begin(DecodePlan(ids))

\* Prefill: the RAM table is updated, the VRAM table is only read.
PrefillPlan(need) ==
    LET pl == PlanChunks(ram.slot_of, ram'.slot_of, need, Resident(vram), W, 0, R)
    IN  [kind |-> "prefill", chunks |-> NumChunks(W), need |-> need, chunk |-> pl.chunk,
         dst_row |-> pl.dst_row, src_row |-> pl.src_row,
         todo |-> pl.todo, skip |-> {}, ssd |-> pl.ssd, late |-> pl.late,
         cached |-> Resident(vram)]

StartPrefillAcquire ==
    /\ gpu = "idle" /\ "acquire" \in Paths /\ S < R
    /\ UNCHANGED vram
    /\ \E ids \in SUBSET Experts:
          /\ Cardinality(ids) <= R
          /\ ram' = Acquire(ram, ids)
          /\ Begin(PrefillPlan(ids))

StartPrefillSeed ==
    /\ gpu = "idle" /\ "seed" \in Paths
    /\ UNCHANGED vram
    /\ \E need \in (SUBSET Experts) \ {{}}:
          /\ ram' \in Seed(ram, vram, [e \in Experts |-> IF e \in need THEN 1 ELSE 0])
          /\ Begin(PrefillPlan(need))

-----------------------------------------------------------------------------
(* The chunks.                                                             *)

Target == IF plan.kind = "decode" THEN slab ELSE work
SetTarget(rows) ==
    IF plan.kind = "decode" THEN slab' = rows /\ UNCHANGED work
    ELSE work' = rows /\ UNCHANGED slab

\* A VRAM hit is copied raw from the cache slab; the rest comes from the RAM
\* tier and, when that is compressed, goes through the staging.
Staged(e) == Compress /\ e \notin plan.cached
Source(e) == IF e \in plan.cached THEN slab[vram.slot_of[e]] ELSE ramRows[plan.src_row[e]]

\* The index of an expert in a list: decode's lists are packed from the front,
\* a chunk of prefill's has a place for every row of the working slab.
Index(list, e) ==
    IF plan.kind = "decode" THEN Cardinality({f \in list: f < e}) ELSE plan.dst_row[e]

\* The copy of a list but the experts in skip: into rows and into the staging.
Copied(rows, list, skip) ==
    [i \in DOMAIN rows |->
        LET here == {e \in list \ skip: plan.dst_row[e] = i /\ ~ Staged(e)}
        IN  IF here = {} THEN rows[i] ELSE Source(CHOOSE e \in here: TRUE)]
Gathered(list, skip) ==
    [j \in StagingRows |->
        LET here == {e \in list \ skip: Index(list, e) = j /\ Staged(e)}
        IN  IF here = {} THEN staging[j] ELSE Source(CHOOSE e \in here: TRUE)]

\* Mutant: what was copied raw is expanded as well.
ExpandsCached(rows, staged, list, skip) ==
    [i \in DOMAIN rows |->
        LET here == {e \in list \ skip: plan.dst_row[e] = i /\ Compress}
        IN  IF here = {} THEN rows[i] ELSE staged[Index(list, CHOOSE e \in here: TRUE)]]

\* The expansion of the staged rows of a list.
Expanded(rows, staged, list, skip) ==
    [i \in DOMAIN rows |->
        LET here == {e \in list \ skip: plan.dst_row[e] = i /\ Staged(e)}
        IN  IF here = {} THEN rows[i] ELSE staged[Index(list, CHOOSE e \in here: TRUE)]]

\* Copy the chunk's experts that wait for no read, then publish the next
\* chunk's reads.  Decode expands what it copied only after the wait.
CopyTodo ==
    /\ gpu = "copy"
    /\ LET list == InChunk(plan, plan.todo, chunk)
           rows == Copied(Target, list, plan.skip)
       IN  /\ staging' = Gathered(list, plan.skip)
           /\ SetTarget(IF plan.kind = "decode" THEN rows
                        ELSE Expanded(rows, staging', list, plan.skip))
    /\ queue' = IF chunk + 1 < plan.chunks THEN Published(queue, plan, chunk + 1)
                ELSE queue
    /\ gpu' = "wait"
    /\ UNCHANGED <<tables, ramRows, plan, chunk, ran, giveUps, fails, spoiled, wrong>>

\* Mutant: the wait is for the request of the chunk before.
UnfinishedBefore(c) == {i \in DOMAIN queue: queue[i].chunk = c - 1}

Unfinished(c) == {i \in DOMAIN queue: queue[i].chunk = c}

\* The chunk's request is finished, or it had none.
Wait ==
    /\ gpu = "wait" /\ Unfinished(chunk) = {}
    /\ gpu' = "late"
    /\ UNCHANGED <<tables, memory, plan, chunk, ran, queue, giveUps, fails, spoiled, wrong>>

\* The bounds of a give-up, and the scope: with this one, fewer than Ring-1 of the
\* requests that were given up are unserved.
Unserved == {i \in DOMAIN queue: queue[i].chunk = Abandoned}
MayGiveUp ==
    /\ giveUps < MaxGiveUps /\ giveUps + fails < MaxFaults
    /\ Cardinality(Unserved) + 1 < Ring - 1

\* The wait is given up: the GPU goes on, and the host may still serve the
\* request later.
GiveUp ==
    /\ gpu = "wait" /\ Unfinished(chunk) # {} /\ MayGiveUp
    /\ giveUps' = giveUps + 1
    /\ spoiled' = spoiled \union {r[1]: r \in UNION {queue[i].left: i \in Unfinished(chunk)}}
    /\ queue' = [i \in DOMAIN queue |->
                    IF queue[i].chunk = chunk THEN [queue[i] EXCEPT !.chunk = Abandoned]
                    ELSE queue[i]]
    /\ gpu' = "late"
    /\ UNCHANGED <<tables, memory, plan, chunk, ran, fails, wrong>>

\* Between two forward steps of this layer another one gives up a wait.  Its
\* request is before all that this layer publishes later, and may read weights
\* of that layer into the shared rows meanwhile; its reads into rows of its own
\* are not seen here.
GiveUpElsewhere ==
    /\ gpu = "idle" /\ MayGiveUp
    /\ giveUps' = giveUps + 1
    /\ \E rows \in (SUBSET SharedRows) \ {{}}:
          queue' = Append(queue, [chunk |-> Abandoned, left |-> {<<None, i>>: i \in rows}])
    /\ UNCHANGED <<tables, memory, gpu, plan, chunk, ran, fails, spoiled, wrong>>

\* Copy the experts that were read.
CopyLate ==
    /\ gpu = "late"
    /\ LET todo == InChunk(plan, plan.todo, chunk)
           late == InChunk(plan, plan.late, chunk)
           rows == IF plan.kind = "decode" THEN Expanded(Target, staging, todo, plan.skip)
                   ELSE Target
       IN  /\ staging' = Gathered(late, {})
           /\ SetTarget(Expanded(Copied(rows, late, {}), staging', late, {}))
    /\ gpu' = "run"
    /\ UNCHANGED <<tables, ramRows, plan, chunk, ran, queue, giveUps, fails, spoiled, wrong>>

Mapped == InChunk(plan, plan.need, chunk)
RightRow(e) == Target[plan.dst_row[e]] = e

\* The MoE runs on the chunk's experts; after the last chunk the step is over.
Run ==
    /\ gpu = "run"
    /\ wrong' = IF wrong > MaxGiveUps \/ \A e \in Mapped: RightRow(e) THEN wrong
                ELSE wrong + 1
    /\ IF chunk + 1 < plan.chunks
       THEN /\ gpu' = "copy" /\ chunk' = chunk + 1 /\ ran' = ran \union Mapped
            /\ UNCHANGED plan
       ELSE /\ gpu' = "idle" /\ chunk' = 0 /\ ran' = {}
            /\ plan' = NoPlan
    /\ UNCHANGED <<tables, memory, queue, giveUps, fails, spoiled>>

-----------------------------------------------------------------------------
(* The host: requests in order, the reads of one request in any order.     *)

\* Mutant: done is not stored after the last read.
NeverDone(r) == queue' = [queue EXCEPT ![1].left = @ \ {r}]

\* A read of the oldest request is over; after the last one done is stored,
\* whether they succeeded or not.
ReadDone(r) ==
    LET left == Head(queue).left \ {r}
    IN  queue' = IF left = {} THEN Tail(queue) ELSE [queue EXCEPT ![1].left = left]

Read ==
    /\ queue # <<>>
    /\ \E r \in Head(queue).left:
          /\ ramRows' = [ramRows EXCEPT ![r[2]] = r[1]]
          /\ ReadDone(r)
    /\ UNCHANGED <<tables, slab, work, staging, gpu, plan, chunk, ran, giveUps, fails, spoiled,
                   wrong>>

\* A read that fails leaves the row as it was, or a part of another one in it.
ReadFails ==
    /\ queue # <<>>
    /\ fails < MaxFails /\ giveUps + fails < MaxFaults
    /\ fails' = fails + 1
    /\ \E r \in Head(queue).left:
          /\ \E left \in {ramRows[r[2]], None}: ramRows' = [ramRows EXCEPT ![r[2]] = left]
          /\ ReadDone(r)
          /\ spoiled' = spoiled \union ({r[1]} \intersect Experts)
    /\ UNCHANGED <<tables, slab, work, staging, gpu, plan, chunk, ran, giveUps, wrong>>

GpuStep == CopyTodo \/ Wait \/ GiveUp \/ CopyLate \/ Run
HostStep == Read \/ ReadFails
Next == \/ StartDecode \/ StartPrefillAcquire \/ StartPrefillSeed
        \/ GpuStep \/ GiveUpElsewhere \/ HostStep

Spec == Init /\ [][Next]_vars

\* Launched kernels run to their end, the server thread never sleeps, and a
\* request reaches it in the end: a wait for one that does not is given up.
FairSpec == Spec /\ WF_vars(GpuStep) /\ WF_vars(HostStep)

-----------------------------------------------------------------------------
(* Properties.                                                             *)

TypeOK ==
    /\ vram \in TableType(S) /\ ram \in TableType(R)
    /\ ramRows \in [RamRowNumbers -> AnyRow]
    /\ slab \in [0 .. (S - 1) -> AnyRow]
    /\ work \in [0 .. (W - 1) -> AnyRow]
    /\ staging \in [StagingRows -> AnyRow]
    /\ gpu \in {"idle", "copy", "wait", "late", "run"}
    /\ chunk \in Nat /\ ran \subseteq Experts
    /\ giveUps \in 0 .. MaxGiveUps /\ fails \in 0 .. MaxFails /\ spoiled \subseteq Experts
    /\ wrong \in 0 .. (MaxGiveUps + 1)

\* Whenever the MoE runs, every expert of the chunk is computed with its own
\* weights, although the host overwrites RAM rows while the GPU copies from
\* them and one plan reuses rows of experts it evicts (table.py:190-199).  A
\* wait that was given up harms no expert but those still to be read then, even
\* when the host serves the request late, and a read that failed only its own.
\* A request that another layer gave up harms none, although it may be served
\* into the shared rows while this layer uses them.
MoeUsesRightRows == gpu = "run" => \A e \in Mapped \ spoiled: RightRow(e)

\* A step's chunks are enough: when the last one runs, every expert the step
\* needs has run (table.py:187 "The number of chunks N is ceil(E / W) + 1"), and
\* no read is pending but those given up, as the next layer may use the shared
\* rows (experts.py:79-81).
StepIsComplete ==
    gpu = "run" /\ chunk + 1 = plan.chunks =>
        /\ ran \union Mapped = plan.need
        /\ \A i \in DOMAIN queue: queue[i].chunk = Abandoned

\* Between forward steps the rows of both tiers are what the tables say, for
\* every expert but those that a given-up wait or a failed read left unread.
RowsMatchTables ==
    gpu = "idle" =>
        /\ \A i \in SlotsOf(vram):
              vram.expert_in[i] \notin spoiled \union {None} => slab[i] = vram.expert_in[i]
        /\ \A i \in SlotsOf(ram):
              ram.expert_in[i] \notin spoiled \union {None} => ramRows[i] = ram.expert_in[i]

\* A forward step that has started ends.
EveryStepEnds == gpu # "idle" ~> gpu = "idle"

\* A wait that is given up spoils one forward step (gather.py:47-48 "The rows
\* of that layer stay stale, so one token's output is wrong").  Checked on
\* decode, where a forward step is one chunk.
OneWrongStepPerGiveUp == wrong <= giveUps
=============================================================================
