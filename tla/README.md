# TLA+ models of vllm-expert-pager

The program pages the experts of a mixture-of-experts model through three
tiers: VRAM slots, pinned RAM rows, and a paging file on SSD.  The GPU decides
alone what goes where (no value is read back by the host), and asks a C thread
on the host to read rows through a ring in pinned memory.  This directory
models that machinery, checks it with TLC and proves part of it with TLAPS.
File names below are relative to `src/src/vllm_expert_pager/`.

## The system

| component | state | operations | what makes it hard |
|---|---|---|---|
| Fetch ring (`gather.py` 197-287, `store.py` 189-251) | ring slots (seq, layer, experts, rows), done, re-publish count, device seq, two ticket words; the server's `last` | `_fetch_publish`, `_fetch_wait` (wait, re-publish, give up), `server_main` | two processors, no lock, stores that may not arrive, timeouts, a ring that wraps, two requests in flight |
| Host read threads (`store.py` 84-306) | job list, `next`, `finished`, `gen`, `failing`/`failed`/`err`, `stop` | `run_jobs`, `read_one`, `fail`, `worker_main`, `ssd_stop` | late wakers, failures in several threads, shutdown |
| Expert table (`table.py`) | `slot_of`, `expert_in`, `last_used`, `step`, one table per tier | `acquire`, `seed`, `plan_chunks` | several experts are evicted, moved and placed in one step, ties, protection of what is in use |
| Decode acquire (`acquire.py`) | both tables | one launch for both tables | the same rules with packed sort keys and padded slots |
| Forward step (`experts.py` 380-604) | rows of the slabs, the staging, the plan, the chunk loop | decode, prefill by acquire or seed | reads overwrite rows while other rows are copied; chunks overlap; reads fail |
| Row copies and expansion (`gather.py` 51-194, 328-393; `codec.py` 195-327) | the staging | `gather_rows`, `decode_rows` | what is staged where, and what is not |
| Codec (`codec.py`) | lengths, codes, LUT, record; bit buffers of the lanes | `code_lengths`, `Code`, `encode`, `_decode_group` | encoder and decoder must agree on refills, lanes share one stream of words |
| Store and loader (`store.py` 351-599, `experts.py` 98-376) | paging file, pinned rows, staged shards | `Store.__init__`, `write`, `weight_loader`, `_expert_pager_setup` | shards in any order, crashes, a restart on an old file, two engines on one path |
| Native build (`native.py`) | the library cache | `build` | several processes build at once, or die while they do |
| Plugin (`plugin.py`) | - | `register` | - |

The forward step of a layer calls the table (or its kernel) for both tiers,
turns the result into a plan, publishes the reads to the ring, copies rows that
need no read, waits, copies the rows that were read, expands what is compressed
and runs the MoE.  The server takes the ring's requests in order and hands the
reads of one request to the read threads.  Python's only other contact with the
host side is `store.failed`, which a forward step looks at when it runs in
Python, and `Store.close`.

What must hold, by component:

* ring: a wait is for its own request, returns only after that request was
  read, and returns; nothing is read twice; a request's body survives until it
  was served;
* read threads: each job is read once before done; a failure is visible with
  its text when the GPU goes on; stop ends everything;
* tables: `slot_of` and `expert_in` are inverse, an expert in use is never
  evicted, replacement is LRU, RAM includes VRAM, a RAM row holds what the RAM
  table says, the kernel does what the table does;
* forward step: the MoE always runs on the right rows, on every needed expert,
  and a step that begins ends; a failed read or a wait that was given up harms
  nothing but the experts that were not read;
* codec: expanding a record gives the row, codes exist for every histogram;
* loading: an engine that is ready has every row in its place and runs a whole
  library; a start is not refused because of a file that was loaded to the end.

## The modules

| module | models | uses |
|---|---|---|
| FetchService | the abstract promise of the ring | |
| FetchRing, MCFetchRing | the ring, GPU side and server loop | FetchService (refinement) |
| ReadPool | the threads that read one request | |
| ExpertTable | `acquire`, `seed`, `plan_chunks` as operators | |
| AcquireKernel | the decode kernel as operators | ExpertTable |
| LruCache | the abstract LRU cache | |
| TierTables, MCTierTables | both tables and the RAM rows of a layer | AcquireKernel, LruCache (refinement) |
| Pager, MCPager | forward steps of a layer over all tiers | ExpertTable; the promise of FetchService |
| HuffmanCode | code lengths, canonical codes, table | |
| RefillSchedule | when a lane takes a word | |
| Codec, MCCodec | `encode` and `_decode_group` on one row | HuffmanCode, RefillSchedule (refinement) |
| Loader, MCLoader | starts of engines, file, library, shards | |
| FetchRingProofs | theorems | FetchRing, MCFetchRing |
| ReadPoolProofs, RefillProofs, LoaderProofs | theorems | ReadPool; RefillSchedule; Loader |
| ExpertTableProofs | lemmas about the table's operators | ExpertTable |
| TableProofs | theorems | TierTables, MCTierTables, ExpertTableProofs |
| CodecProofs | theorems | Codec |
| PagerProofs | theorems | Pager, ExpertTableProofs |

**FetchRing** is the protocol itself.  One forward step is a number of chunks
(1 for decode); the GPU's `gpu` says where its single stream of kernels is,
`n`, `p`, `k` are the chunks of the step, those published and those waited for.

| model | code |
|---|---|
| `Publish`, `PublishEmpty`, `Release` | `_fetch_publish`: body and ticket first, the seq word is a store of its own |
| `BeginWait`, `SkipWait`, `Accept`, `SpinOut`, `Republish`, `GiveUp` | `_fetch_wait`; `SpinOut` and `Republish` are two steps because done may arrive between the load and the re-publish |
| `See`, `Take`, `Finish`, `Rewrite` | `server_main`: a new seq in the watched slot, the copy of the body, the reads and done, the poll loop that stores done again |
| `Delivered`, `Dropped` | a store of either side is visible to the other, or never is |

`n = 1` selects the ticket as the code does: decode passes the seq word as the
ticket.  A request body is the number of the request that wrote it.  The code's
bound of eight re-publishes is `MaxTries`; the number of spins is not modelled,
a spin-out may happen whenever done has not arrived.

**ReadPool** models what happens inside "the request is read".  A critical
section of `mu` is one step; everything `read_one` and `fail` do outside of
`mu` is split where another thread can see the difference.  A thread reads
`layer`, `job_expert[j]` and `job_row[j]` when it performs the read, so
`Current` is what the job list holds at that time.

**ExpertTable** holds `acquire`, `seed` and `plan_chunks` as operators on a
table record, with victims chosen by the rank of a slot and the ordinal of a
miss, as the code does with `argsort` and `cumsum`.  Ties in `topk` are
unspecified, so `Seed` is the set of tables it may leave.  `Placing` is the
update itself, for any choice of victims; **AcquireKernel** shares it and chooses
the victims as the kernel does, by sorting integers: `Protect` is `_PROTECT`,
`SlotSpan` is `1 << _SLOT_BITS`, `BlockOf` the padding to a power of two.

**TierTables** runs both tables of one layer under any sequence of steps, with
the contents of the RAM rows; decode uses the kernel, prefill the table, as in
the code.  Its invariants need no interleaving, since both tables change on the
GPU's one stream.  A decode step is taken only while no table has counted more
than `Protect` steps, 2^40 in the code.

**Pager** composes tables, plan, row contents, staging and host reads of one
layer.  Steps are the launches of the chunk loop; the host's reads interleave
with them.  The ring is replaced by the in-order queue that FetchService
promises.  Between two steps of a layer the other layers run, so everything
shared (the working slab, the staging and the shared rows) is lost at `Begin`.
A wait that is given up leaves its request in the queue marked as abandoned:
the host serves it in its turn, at any later time.  The ring is that of all
layers, so another one may give up a wait as well (`GiveUpElsewhere`); of its
reads only those into the shared rows matter here.  The queue is the ring only
while fewer than `Ring`-1 of the requests given up, by whatever layer, are unserved
(`MayGiveUp`), and Pager says nothing of what comes after: see its scope under
PagerProofs.  A read that fails (`ReadFails`)
leaves its row as it was or mixed; steps go on, as a replayed graph does.  The
expansion is placed with the copy next to it, except that decode expands its
first list after the wait, as the code does.  Decode uses the table's `Acquire`
here; that the kernel does the same is a theorem (`KernelIsFaithful`).

**HuffmanCode** and **Codec** follow one row from its histogram to its expanded
form.  A merge of the Huffman tree, a round of the raising loop, and a symbol
decoded by all lanes of a group are one step each; groups are independent of
each other, so they interleave.  `counts` are integers with a common scale in
place of floats.  The two assertions of `Code` are the phase `"assert"`.  Exponents
are symbols; a nibble (sign and mantissa) is the number of its position, so that
one expanded to the wrong place shows.  **RefillSchedule** is the decoder's rule
of when a lane takes a word, for any code lengths, with the encoder's formula
beside it; Codec shows that every lane follows it.

**Loader** has the state that engine processes and their restarts share (file and
library cache) and what each process loads.  `file` maps the places that were
written to rows, so its size is that of the last one; `Cut` is a record of which
only the beginning was written.  `Leave` is a crash or the end of a process at any
point, `NextShards` the order of vLLM's checkpoint: both are external.  Shards
come layer by layer; within a layer, in any order for the processes in
`AnyOrder` and in the order of experts for the others.

**MCTierTables** and **MCPager** add a VIEW.  `step` grows without bound, and only
the order of the timestamps matters to `acquire`, so states that differ in
nothing else are one state.  The views also drop histories that only action
properties (or another run's invariant) read; TLC evaluates action properties on
every transition it generates.  Some properties are about decode alone:
MCTierTables chooses in the beginning whether there are prefills, and in
**MCFetchRing** the ticket words, which decode never writes, tell it; a constraint
ends behaviours with prefills earlier.  **MCCodec** gives the rows, **MCLoader**
the sizes.

A definition whose comment begins with "Mutant:" is not part of a model: it is
a plausible bug of the definition after it, kept to show that a property
notices that bug.

## The runs

| run | what it shows | bounds |
|---|---|---|
| RingPatient | fewer than Ring-1 waits are given up: losses are recovered, waits are right, refinement of FetchService, liveness | Ring 4, decode and 3-chunk prefill, 6 requests (the ring wraps), 2 lost stores, 3 re-publishes, 2 give-ups |
| RingGiveUps | with give-ups: a body is kept until it is served or given up; a foreign body needs at least Ring-1 give-ups; decode alone accepts only what was read and misses only what was given up | decode alone: 7 requests, 4 losses; decode and 2-chunk prefill: 5 requests, 2 losses |
| RingPrefillGiveUps | violation: a wait accepts a request never read | 5 requests, 2 losses, 3 give-ups |
| Tables | all paths: inverse tables, RAM rows, needed experts resident, the kernel does what the table does; decode alone: RAM includes VRAM, both tables are LRU caches | E 4, S 2, R 3 |
| TablesNarrow | violation: RAM loses an expert VRAM holds at R = S | E 4, S 2, R 2 |
| TablesPadding | violation: seeding from invalid references only | E 3, S 1, R 2 |
| Pager | right rows, every expert run, nothing pending at the end, rows match tables; compressed tiers | E 4, S 1, R 2, W 2 |
| PagerGiveUps | one fault, a failed read or a wait given up here or in another layer: other experts keep the right rows, and every step ends | E 4, S 1, R 1, W 1, Ring 4 |
| PagerStale | violation: one give-up, two wrong steps | E 3, S 1, R 2, W 1 |
| ReadPool | reads, failures, stop | server and 2 workers, 2 requests of 1 or 2 experts |
| Codec | codes fill the table and are cheapest, the raising loop ends, the decoder gives the row back and every lane its own words, lanes follow RefillSchedule | 6 symbols, codes up to 4 bits, words of 5, 2 groups of 2 lanes of 4 symbols |
| Loader | a ready engine has everything stored and a whole library, the staging fits, a start is refused only on a file of a broken load | 2 processes, 3 starts, 2 layers, E 2, R 1, 1 short write, 1 missing shard |

Why the bounds suffice.  In RingPatient the ring of the code (4) is reused and
prefill has two requests in flight over its two ticket words, with a third chunk
that reuses a word; two give-ups are the most that Ring 4 allows before the host may
jump.  In RingGiveUps the fifth request is the first that can take
a slot from one that was never served; decode alone goes on until slots have
been reused by three such requests.  In Tables, S = 2 gives two misses in one
step, and R = 2S-1 is the smallest RAM tier that keeps VRAM's experts; three RAM
slots are padded to four in the kernel, whose keys then use every slot number of
`SlotSpan` = 4.  `MaxCount` is 1: counts only matter to `topk` by their order
and by being zero, and with equal counts every choice of `topk` among the
referenced experts is allowed, so larger counts add no case.  Pager needs E to be
a multiple of W for the extra chunk to be used (E 4, W 2), and PagerGiveUps three
experts without a RAM slot, so that the two faces of the shared rows alternate.
Two workers and the server are enough for a late worker beside two that read; a
request of one expert wakes nobody, one of two does.  In Codec a lane's four
symbols take from 4 to 16 bits, so lanes take two to four words of 5 bits, at
the same symbol or at different ones; a tree of six symbols is five deep at most,
over the limit of 4, so the raising loop runs; and the pitch is small enough for some
rows to be rejected.  In Loader one process can load while another checks, opens,
compiles or dies, and a third start meets what both left.

Fairness.  `FairSpec` of FetchRing and Pager has weak fairness of the GPU's
steps and of the host's steps: a launched kernel runs to its end and the server
thread polls without sleeping.  Starting another forward step is up to vLLM and
is not fair.  In ReadPool every thread is fair (a read returns, `mu` is
granted); publishing and stopping are not.  In Codec building the code is fair:
it is a computation that waits for nothing.  Losses, faults and give-ups are
bounded by constants; in RingPatient the two stores that may be lost are fewer than
the three re-publishes.  In Pager the fairness of the host stands for a request that
reaches it in the end.  One that never does is a wait given up in FetchRing, where
liveness is checked with lost stores; if no later one reaches the host either, the
give-ups add up and leave the scope of Pager.

`CHECK_DEADLOCK FALSE` is used in three runs: in ReadPool every thread has ended
after `ssd_stop` and the last request, in Codec a row ends when it is expanded or
rejected, and in Loader the starts may be used up.

## What the violations say

* **RingPrefillGiveUps**.  "done advances in order, so waiting for a seq also
  covers every request before it" (`store.py` 29) stops being true once
  requests are given up.  The server watches one slot.  If the request of that
  slot never arrives, it sees nothing until the slot is reused, and prefill
  reuses it with the second of two requests in flight; done then covers the
  first one, which was not read.  It takes Ring-1 requests that were given up and are
  unserved: with fewer, `RingImplementsService` proves that it cannot happen.
* **TablesNarrow**.  "RAM stays a superset of VRAM" (`experts.py` 405) needs
  more than `R >= CACHE_SLOTS`.  Both tables break ties by slot number, and
  the slot numbers differ.  The result is a needless read, not a wrong row.
* **TablesPadding**.  `seed` acquires an expert whose row is never read when
  every reference is invalid.  `RowsStayValid` proves that this is the only way.
* **PagerStale**.  A give-up costs more than "one token's output"
  (`gather.py` 47): the tables keep the expert, and later hits use the stale row.

Two smaller divergences have no run.  `gather.py` 422 says that an empty list
writes the current seq to the ticket; `_fetch_publish` writes nothing then (and
`_fetch_wait` of the empty list does not read the ticket, so nothing depends on
it).  `tests/test_store.py` 308 says the host notices a given-up request "from
the gap in seq at the next request"; it does only when the slot is reused, up
to RING requests later.

Three properties of Loader say in so many words what the code does not promise.
`ReadyIsStored` excepts the rows of the file after a short write (the result of
`os.pwrite` is not looked at) and for an engine whose file another engine opened
meanwhile (nothing locks it); `RefusedOnlyIfBroken` is about files of undisturbed
loads.  `LibraryIsWhole` takes the process ids of engines that share a cache to be
different.

## The proofs

### FetchRingProofs

For every ring size of at least 2, every set of chunk counts and every number
of losses and retries:

* `TypeCorrect`: `Spec => []TypeOK`;
* `OwnRequest`: `Spec => []WaitsForOwnRequest`, with give-ups;
* `AcceptedIsServed`, `ReadOnce`, `RingImplementsService`: while fewer than Ring-1
  of the requests given up are unserved (`FewUnserved`),
  `Spec /\ []FewUnserved => []AcceptedWasServed`, and likewise `[]NeverReadsTwice`
  and `Service!Spec` (`ImplementsService`).

`TypeCorrect` and `OwnRequest` rest on the inductive invariant `GInv`: the
control state of the chunk loop (`Control`) and what the ticket words hold
(`Tickets`).  A ticket word is right only as long as no later chunk of the same
parity has published, so `Tickets` speaks of the chunks in flight, of which
there are at most two.  The constants' assumptions are in FetchRing:
`RingAssumption`, `ForwardsAssumption`, `BoundsAssumption`.

With any number of give-ups, for the same constants, and for decode alone where the property
says so:

* `PendingKept`: `Spec => []PendingBodyKept`;
* `ForeignNeedsGiveUps`: `Spec => []ForeignBodyNeedsGiveUps`;
* `DecodeAcceptedIsServed`: `Spec => []DecodeAcceptsServed`;
* `DecodeMissedIsGivenUp`: `Spec => []DecodeMissedWasGivenUp`.

The invariant `UInv` is what survives any give-up.  The body of each of the newest
`Ring` requests is in its slot (`Bodies`), and a slot's seq word is never ahead of
its body (`SeqWords`).  A request that is neither served nor given up has a chunk in flight (`Pending`), and chunks in flight
wait for the two newest requests (`InFlight`), so every older one was given up.
The body in a slot is that of its request or of a later one of the same slot
(`NewerBodies`), at least `Ring` later; of the requests from the one to the other
at most one can still be waited for (`WaitersAreFew`), which gives the bound on
foreign bodies.  Under decode a chunk in flight waits for the newest request
(`DecodeWaitsNewest`), which the host reads with its own body (`HostReads`): so a
wait that ends was served, and what the host skips nobody waits for.

`AcceptedIsServed`, `ReadOnce` and `RingImplementsService` add `Serving` to it: the
host serves exactly `last + 1`, with its own body, so what is served is `1 .. last`.
Of the requests after `last` all but the newest two were given up (`WaitersAreFew`);
with fewer than Ring-1 of those, no more requests are outstanding than the ring has
slots (`FewOutstanding`).  So no slot is used again before its request was served,
and the host, which watches the slot of `last + 1`, finds that request there and
nothing later.  The assumption is needed: RingPrefillGiveUps is a counterexample
with Ring-1 requests given up.

### ReadPoolProofs

For any set of workers and any number of requests of any sizes, with reads that
fail:

* `PoolTypeCorrect`: `Spec => []TypeOK`;
* `ServedOnce`: `Spec => []ServedJobsReadOnce`;
* `FailureIsVisible`: `Spec => []FailureVisibleAtDone`;
* `FirstFailureStays`: `Spec => FirstFailureKept`.

Every index below `next` was taken by one thread, which still has it or has counted
it: `finished + Cardinality(Busy) = next` (`Sharing`).  The server leaves its spin
only at `finished = njobs`; then nobody is busy, and a worker that wakes late finds
`next = njobs` and takes nothing.  `Reads` gives the number of times each job was
read, and `Failures` follows the first failure through its stages: `failing` is
set, its thread alone writes the text, then `failed` is set, then the job is
counted.

### ExpertTableProofs and TableProofs

For every E, S, R with 1 <= S <= R <= E, every set of paths, and key widths that
pass the kernel's own check (`SizesAssumption`, `PathsAssumption`,
`KernelAssumption`):

* `TablesTypeCorrect`: `Spec => []TypeOK`;
* `TablesStayInverse`: `Spec => []TablesInverse`;
* `KernelIsFaithful`: `Spec => KernelMatchesTable`;
* `NeededGetSlots`: `Spec => NeededAreResident`;
* `RowsStayValid`: `Spec => []RamRowsValid`, if `"padding" \notin Paths`.

The lemmas about `acquire`, `seed` and `plan_chunks` are in ExpertTableProofs, which
Pager's proofs use as well.  They rest on one fact about finite sets: in a strict
total order the number of smaller elements is a bijection with 0 .. n-1 (`RankGrows`,
`RankInjective`, `RankOnto`).  With it the order of victims gives every miss a
slot of its own (`AcquirePlaces`), and placing experts in slots of their own
keeps a table inverse, whichever experts it evicts (`PlacingKeeps`).  The sort keys
of the kernel order the slots as the table's order does, because slot numbers
stay below `SlotSpan` and timestamps below `Protect`, and the padding comes last
(`KeysOrderSlots`, by `PackOrder` and `PackMod`); so ranks and victims agree
(`KeyRankIsSlotRank`, `KernelIsAcquire`).  The slots in use have the last ranks
and there are at most as many misses as other slots, so none of them is a victim
(`UsedSlotsComeLast`, `AcquireResident`).  The inductive invariant is `IInv`: both
tables are typed and inverse, and every timestamp is below the table's step count;
the last is what keeps keys apart and is not part of `TypeOK`.  For the rows,
whatever changed its slot is in the list of reads, in a seeding prefill through
two updates (`NewSlotsAreRead`, `SeedPlacesNeeded`, `RowsFollowReads`).

Under decode alone (TableProofs), for the same constants:

* `DecodeIsLru`: `MCSpec => TablesAreLru`, the refinement of LruCache;
* `DecodeStaysIncluded`: `MCSpec => []DecodeKeepsInclusion`, if `R >= 2 * S - 1`.

Victims are the first slots of their order (`VictimsComeFirst`), so what loses its
slot was last used no later than what keeps one unused (`EvictedOldest`), and an
expert is pushed out only when no slot is left empty (`EvictsWhenFull`).  For the
latter the invariant adds that empty slots are older than occupied ones
(`EmptyOldest`); `AcquireIsUse` then gives the step of the abstract cache.

Inclusion needs an invariant about both tables (`Included`).  They agree on when an
expert of VRAM was last used, VRAM holds every expert of RAM that was used after
one that it holds, and no step used more than S of them.  Suppose RAM evicts an
expert e that VRAM keeps (`StaysIncluded`).  Of the R experts RAM then holds, at
most S-1 were last used in the same step as e; the other R-S+1 >= S were used after
it, so VRAM, which keeps e, keeps them, and has no slot left for e.
TablesNarrow shows that fewer slots are not enough.

### PagerProofs

For every number of experts, slots of both tiers and working rows, compressed tiers
or not, any schedule of the host's reads, any number of failed reads, and any number
of give-ups within the scope below:

* `PagerTypeCorrect`: `Spec => []TypeOK`;
* `RightRows`: `Spec => []MoeUsesRightRows`;
* `StepsAreComplete`: `Spec => []StepIsComplete`;
* `RowsMatch`: `Spec => []RowsMatchTables`.

A property of one moment, the run of the MoE, has to be carried from the `acquire`
that gave an expert its row, through reads the host performs at any time, to the
copy and the expansion; so the invariant `IInv` says for every place a row can be
in what it holds.  Its centre is `Settled`: a row of the RAM tier holds its expert
and no read that is pending will overwrite it.  Three parts say which rows are
settled: the sources of experts without a read (`SourcesRight`), those whose read
was waited for (`ReadsRight`), and every occupied slot between steps (`RamRight`).
From there rows go to the staging (`HalfRight`), the working slab (`WorkRight`) and
the VRAM slots (`SlabRight`).  A settled row stays settled because `QueueInv` bounds
what is pending, reads of two neighbouring chunks and those that were given up,
and because `PlanInv` keeps these apart: experts read within two neighbouring chunks
have different rows, and no chunk reads a row that it or a later chunk still copies.
That is what `plan_chunks` is for, and it is lemma `ChunkPlan` of ExpertTableProofs:
positions in the order of the misses are ranks, so two experts whose positions differ
by less than two chunks differ in their faces of the shared rows.  What was given up or failed
is excepted (`spoiled`), as in the properties.  What another layer gave up is read
into the shared rows only, where nothing is settled between two steps; during a step
such a request comes before this layer's own, and one of those overwrites what it
left.  TLC checked `IInv` on the bounds of Pager and PagerGiveUps, and with three RAM
slots and faults in compressed tiers, before it was proved; PagerGiveUps also passes
with `RowsMatchTables` and with two faults.

The scope.  At any time fewer than Ring-1 of the requests that were given up are
unserved: `MayGiveUp` is the guard of `GiveUp` and of `GiveUpElsewhere`, and
`FewUnserved` of FetchRing, which has the requests of all layers, says the same of
the ring.  Within it FetchRing implements FetchService, so the queue of Pager, in
which every request is served in order and by its own list, is what the code does.
Beyond it is not: with prefill the host may jump over a request that is still waited
for (RingPrefillGiveUps), and with decode too it may read a list of which one part is
another request's, copied while the GPU wrote over it.  Which rows are wrong then is
not known from what was given up, and the theorems do not speak of it.  The number of
give-ups in all is not restricted: requests that were given up and then served, as
when the host was slow, count no more.

### LoaderProofs

For every number of processes, layers, experts, starts and short writes, every
order of the shards within a layer and every size of rows:

* `LoaderTypeCorrect`: `Spec => []TypeOK`;
* `LibraryWhole`: `Spec => []LibraryIsWhole`;
* `ReadyStored`: `Spec => []ReadyIsStored`;
* `ReadyFits`: `Spec => []StagingFits`;
* `RefusalsAreJust`: `Spec => RefusedOnlyIfBroken`.

`IInv` makes what a process has stored a function of the shards it has had
(`Arrived`): the half that waits (`StageInv`), the rows that are whole in RAM
(`PinnedInv`) and in the file (`FileInv`).  The file is shared.  `Overlap` says that
two processes that have it open at the same time both count as disturbed, so for an
undisturbed one nobody else has written, and what it wrote stays because places do
not overlap (`PlaceApart`).  A load that ends undisturbed, with no write cut short
and no shard lacking, leaves every place filled (`PlaceOnto`), hence the size the
next start asks for (`FullHasSize`), and nobody is about to write
(`UnbrokenInv`).  `ReadyFits` is arithmetic: rounding the staging up to rows of the
slab asks for exactly enough (`RoundedUp`).

### RefillProofs

`RefillsAgree`: for every word size, limit and chunk with 1 <= Limit <= Word
(`WordHoldsCode`) and every sequence of code lengths, the decoder takes word w
before the first symbol that has `Word * w - (Limit - 1)` bits before it, which is
what `encode` computes; at the end of a chunk it has taken the `nw` words the
encoder laid out; and the buffer neither runs out within a code nor exceeds
`Word + Limit - 2` bits.  The invariant ties the buffer to the stream:
`level = Word * taken - before[i]`, bits before symbols only grow, and the next
word is not due yet.

### CodecProofs

For every alphabet, every limit, word, chunk and group size, and every set of rows
(`CodeAssumption`, `GeometryAssumption`):

* `CodecInvariant`: `Spec => []IInv`;
* `CodesComplete`: `Spec => []CodesFillTable`;
* `CodesAreCheapest`: `Spec => []CheapestCode`;
* `ExpandedIsRow`: `Spec => []DecodedIsRow`;
* `GroupsSeparate`: `Spec => []GroupsTakeOwnWords`;
* `DecoderFollowsSchedule`: `Spec => LanesFollowSchedule`.

`PowersAssumption` (Codec) is the law of powers of two, 2^(n+1) = 2 * 2^n, up to the
bits of a chunk's words.  It is a fact of arithmetic, not about the code: the provers
do not know it, and TLC evaluates it.

Two arguments meet in the invariant.  The first is about order.  `TakenBefore(g, i)`
are the words that the encoder's schedule takes before step i of group g; a word's
place in the record is its rank by key (`HuffAt`), and in a step the lanes that refill
take the ranks from `Cardinality(TakenBefore(g, i))` on, lane by lane (`StepWords`).
So a group's read position is that number (`GroupInv`), and a lane that refills gets
the word the encoder meant for it (`GroupWords`).  For that the lane must refill when
the encoder thinks so: a word was taken exactly if its step has passed, and
`level + Before = Word * taken` (`LaneInv`, `LaneReady`).

The second is about bits.  `Pending(c, i, t)` is the sum of what the first t words of
a chunk hold of the codes from symbol i on.  A lane's buffer, put back to its place
among the chunk's bits, is that sum (`LaneInv`).  Taking a word adds the word
(`PendingWord`); decoding splits off the first code, which lies wholly in the words
taken (`PendingSymbol`), and since the codes that follow are a multiple of the power
of two after it, its bits are the remainder and the rest is the quotient
(`SymbolDecoded`).  A code is split over two words by the encoder, and both parts are
multiples of the same power (`CodeInWords`).

Both need that a table index names one symbol, which is what the assertions of `Code`
say and `CodesComplete` proves.  While the tree is built its nodes divide the symbols
(`Tree`), and the symbols below a node, each with the entries a code of its length
gets, fill exactly one share of the table (`Kraft`: Kraft's equality, for every node
whose symbols are within the limit).  So the lengths of the whole tree fill it.  In
canonical order the shares lie end to end (`CodesInOrder`) up to the last entry
(`CodesCover`), and a symbol writes the entries whose reversed index lies in its
share (`WritesEntry`, from `ReversedTwice` and `ReversedPrefix`): one symbol for each
entry (`OneWriter`, `AssertionsHold`).

`CodesAreCheapest` has an invariant of its own, `CheapInv`, about trees that need no
second round: for every prefix code that fills the table, the forest can be completed
within the limit to a code that spends no more (`Cheap`).  `LeavesAreCheap` starts
it.  For `MergeKeepsCheap`, two nodes are at the greatest depth because the depths
fill the table (`DeepestTwo`); exchanging them with the two rarest costs nothing
(`Exchange`, `RarestDeepest`), and the node they become is one bit less deep
(`MergedDepths`).

Sums over sets, prefix sums and powers are recursive.  Induction over them is the
search for a least counterexample, with `WFMin` of WellFoundedInduction, which takes
no operator as a parameter (`LeastNumber`, `SmallestSet`); `SumIs` says what the
community module's fold computes, once its defining recursion is shown to have a
solution.  TLC agrees with the part of `IInv` about decoding on 256 rows of
Codec's geometry, and with `Kraft` and `CheapInv` on the histograms of MCCodec for
five symbols and a limit of three bits.

### Only model-checked

Liveness (`EveryWaitEnds`, `EveryStepEnds`, `EveryRequestServed`, `StopReturns`,
`LimitLoopEnds`): the provers do not reason about fairness and ENABLED.  What the
codes of later rounds of `code_lengths` cost is not stated: the code promises nothing
about it.

## Not modelled

* The interception of `moe_sum` and the shared experts (`experts.py` 541-553):
  they are sums of the MoE kernel's outputs.
* An exception thrown by the MoE in the middle of a prefill, and the exception that
  Python raises when it notices a failed read: the engine ends.
* Constructor checks on vLLM's configuration, tensor views, the allocation of
  pinned memory, the LUT tensor, the split of a row copy into words and programs,
  scale rows: data layout.
* Statistics counters and logs, and the test-only delay of the server.
* `plugin.py`, which registers a class.
* Warps of one kernel: a kernel runs in its program order.  The publish kernel and
  the acquire kernel load a counter and store it incremented without a barrier
  between; that no warp loads it late is taken from the compiler.

A read that overlaps a copy is taken to come before or after it: no property
depends on a torn row, since the models show that such a row is not used.

## Plan

Done: every component is modelled, and every safety property that a run checks of the
ring, the read threads, the tables, the forward steps, the loader, the code, the
encoder and the decoder is proved.

Left: only the liveness properties are model-checked and not proved.
