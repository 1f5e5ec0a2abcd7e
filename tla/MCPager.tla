------------------------------- MODULE MCPager -------------------------------
(***************************************************************************)
(* Pager for TLC.  Only the order of the timestamps decides what a table   *)
(* does next, so states that differ in nothing else are one (VIEW).        *)
(***************************************************************************)
EXTENDS Pager

Stamps(t) == {t.last_used[i]: i \in SlotsOf(t)}
Age(t, i) == Cardinality({x \in Stamps(t): x < t.last_used[i]})
Shape(t) == <<t.slot_of, t.expert_in, [i \in SlotsOf(t) |-> Age(t, i)]>>

\* The number of wrong chunks is history that OneWrongStepPerGiveUp alone reads.
PagerView ==
    <<Shape(vram), Shape(ram), memory, gpu, plan, chunk, ran, queue, giveUps, fails, spoiled>>
PagerViewWrong == <<PagerView, wrong>>
=============================================================================
