---------------------------- MODULE MCTierTables ----------------------------
(***************************************************************************)
(* TierTables for TLC.  Only the order of the timestamps decides what a    *)
(* table does next, so states that differ in nothing else are one (VIEW).  *)
(* The history of the last step is left out of the view: it is read by     *)
(* action properties only, and TLC checks those on every step it makes.    *)
(*                                                                         *)
(* A behaviour takes every path of Paths, or decode alone: `only` is       *)
(* chosen in the beginning and never changes.                              *)
(***************************************************************************)
EXTENDS TierTables

VARIABLE only   \* "decode" when the behaviour has no prefill

Stamps(t) == {t.last_used[i]: i \in SlotsOf(t)}
Age(t, i) == Cardinality({x \in Stamps(t): x < t.last_used[i]})
Shape(t) == <<t.slot_of, t.expert_in, [i \in SlotsOf(t) |-> Age(t, i)]>>

TablesView == <<only, Shape(vram), Shape(ram), rows>>

MCInit == Init /\ only \in {"decode", "any"}
MCNext ==
    \/ Decode /\ UNCHANGED only
    \/ only = "any" /\ PrefillAcquire /\ UNCHANGED only
    \/ only = "any" /\ PrefillSeed /\ UNCHANGED only
MCSpec == MCInit /\ [][MCNext]_<<vars, only>>

\* As long as there are only decode steps, RAM holds every expert that VRAM
\* holds (experts.py:405 "RAM stays a superset of VRAM").
DecodeKeepsInclusion == only = "decode" => RamIncludesVram

\* Under decode either table is a cache with LRU replacement (table.py:20
\* "Replacement is LRU"; README.md "the least recently used").
TablesAreLru ==
    /\ Vram!Init
    /\ [][only = "decode" => /\ Vram!Next \/ UNCHANGED <<vram.slot_of, vram.last_used>>
                             /\ Ram!Next \/ UNCHANGED <<ram.slot_of, ram.last_used>>
         ]_<<vars, only>>
=============================================================================
