----------------------------- MODULE TierTables -----------------------------
(***************************************************************************)
(* The two expert tables of one layer, VRAM over RAM, under any sequence   *)
(* of decode and prefill steps (experts.py: forward_modular and the table  *)
(* updates of _expert_pager_forward_working).                              *)
(***************************************************************************)
EXTENDS AcquireKernel

CONSTANTS
    S,          \* VRAM slots per layer (CACHE_SLOTS)
    R,          \* RAM slots per layer (RAM_SLOTS)
    Paths,      \* the paths taken: "decode", "acquire", "seed", and "padding" when
                \* every reference of a seeding prefill may be an invalid -1
    MaxCount    \* bound: how often a prefill references one expert

\* Checked by ExpertPagerRoutedExperts.__init__ and Store.__init__.
ASSUME SizesAssumption ==
    /\ E \in Nat /\ S \in Nat /\ R \in Nat
    /\ 1 <= S /\ S <= R /\ R <= E
ASSUME PathsAssumption ==
    /\ Paths \subseteq {"decode", "acquire", "seed", "padding"}
    /\ MaxCount \in Nat
\* AcquirePair.__init__ refuses more slots than the key has room for.
ASSUME KernelAssumption ==
    /\ Protect \in Nat /\ SlotSpan \in Nat
    /\ BlockOf(R) \in R .. SlotSpan

VARIABLES
    vram,       \* the VRAM table
    ram,        \* the RAM table
    rows,       \* the expert whose weights are in each row of the RAM tier
    path,       \* history: the path of the last step
    need,       \* history: its experts
    reads       \* history: the experts it asked the host to read

vars == <<vram, ram, rows, path, need, reads>>

Init ==
    /\ vram = EmptyTable(S)
    /\ ram = WarmTable(R)
    /\ rows = [i \in 0 .. (R - 1) |-> i]
    /\ path = "none"
    /\ need = {}
    /\ reads = {}

\* The host reads every expert asked for into the row of its RAM slot; what
\* is not in the table goes to a shared row.
ReadRows ==
    rows' = [i \in 0 .. (R - 1) |->
                IF ram'.expert_in[i] \in reads' THEN ram'.expert_in[i] ELSE rows[i]]

\* Up to S references: one kernel updates both tables, and what the RAM table
\* missed is read from SSD.  Bound: no more than Protect (2^40) steps.
Decode ==
    /\ "decode" \in Paths
    /\ vram.step <= Protect /\ ram.step <= Protect
    /\ path' = "decode"
    /\ \E ids \in SUBSET Experts:
          /\ Cardinality(ids) <= S
          /\ vram' = KernelAcquire(vram, ids, BlockOf(R))
          /\ ram' = KernelAcquire(ram, ids, BlockOf(R))
          /\ need' = ids
          /\ reads' = Listed(KernelTodo(ram, ids, S))
    /\ ReadRows

\* S+1 to R references: the RAM table acquires, the VRAM table is not touched.
PrefillAcquire ==
    /\ "acquire" \in Paths /\ S < R
    /\ path' = "acquire"
    /\ \E ids \in SUBSET Experts:
          /\ Cardinality(ids) <= R
          /\ ram' = Acquire(ram, ids)
          /\ need' = ids
    /\ reads' = SsdReads(ram.slot_of, ram'.slot_of, need')
    /\ ReadRows
    /\ UNCHANGED vram

\* More than R references: the RAM table is seeded.
PrefillSeed ==
    /\ "seed" \in Paths
    /\ path' = "seed"
    /\ \E counts \in [Experts -> 0 .. MaxCount]:
          /\ "padding" \in Paths \/ \E e \in Experts: counts[e] > 0
          /\ ram' \in Seed(ram, vram, counts)
          /\ need' = {e \in Experts: counts[e] > 0}
    /\ reads' = SsdReads(ram.slot_of, ram'.slot_of, need')
    /\ ReadRows
    /\ UNCHANGED vram

Next == Decode \/ PrefillAcquire \/ PrefillSeed

Spec == Init /\ [][Next]_vars

-----------------------------------------------------------------------------
(* Properties.                                                             *)

TypeOK ==
    /\ vram \in TableType(S)
    /\ ram \in TableType(R)
    /\ rows \in [0 .. (R - 1) -> Experts]
    /\ path \in {"none", "decode", "acquire", "seed"}
    /\ need \subseteq Experts
    /\ reads \subseteq Experts

\* The kernel leaves both tables as the torch version would (acquire.py:5 "Table
\* contents and return values match the torch version"), although it sorts
\* keys that pack timestamp, protection and slot number into one integer and
\* pads the slots to a power of two.
KernelMatchesTable ==
    [][path' = "decode" => /\ vram' = Acquire(vram, need')
                           /\ ram' = Acquire(ram, need')
                           /\ reads' = Misses(ram, need')]_vars

\* In both tables slot_of and expert_in stay inverse to each other, although
\* one step evicts, moves and places several experts with scatters whose order
\* is not fixed (table.py:112 "Update the tables").
TablesInverse == IsInverse(vram) /\ IsInverse(ram)

\* A needed expert has a RAM slot after a decode step or an acquiring prefill:
\* no slot of an expert in use is a victim (table.py:106 "this never reaches
\* the slots in use").  A decode step finds all its experts in VRAM as well.
NeededAreResident ==
    [][/\ path' \in {"decode", "acquire"} => need' \subseteq Resident(ram')
       /\ path' = "decode" => need' \subseteq Resident(vram')]_vars

\* RAM holds every expert that VRAM holds (experts.py:405 "RAM stays a
\* superset of VRAM").
RamIncludesVram == Resident(vram) \subseteq Resident(ram)

\* The row of every RAM slot holds the weights of the expert the table says is
\* there, through evictions, moves and reads (table.py:151 "a slot for them
\* would never get its row read"; tests/test_store.py checks it on samples).
RamRowsValid ==
    \A i \in SlotsOf(ram): ram.expert_in[i] # None => rows[i] = ram.expert_in[i]

\* Either table is a cache with LRU replacement.
OlderIn(t) == {q \in Resident(t) \X Resident(t):
                  t.last_used[t.slot_of[q[1]]] < t.last_used[t.slot_of[q[2]]]}
Vram == INSTANCE LruCache WITH Size <- S, resident <- Resident(vram), older <- OlderIn(vram)
Ram == INSTANCE LruCache WITH Size <- R, resident <- Resident(ram), older <- OlderIn(ram)
=============================================================================
