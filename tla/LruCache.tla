------------------------------ MODULE LruCache ------------------------------
(***************************************************************************)
(* What an expert table promises: a cache of Size entries with LRU         *)
(* replacement.  A step needs a set of experts at once; all of them are in *)
(* the cache afterwards, and only what it pushes out, and only as much as  *)
(* it must, is evicted, none of it used later than anything that stays.    *)
(* There are no slots and no timestamps here.                              *)
(***************************************************************************)
EXTENDS Naturals, FiniteSets

CONSTANTS Experts, Size

VARIABLES
    resident,   \* the experts in the cache
    older       \* pairs <<a, b>> of residents: a was last used before b

vars == <<resident, older>>

Room(kept, need) == Size - Cardinality(kept \union need)

\* need is used: the evicted experts make room and no more.
Use(need, evicted) ==
    LET stay == (resident \ evicted) \ need
    IN  /\ evicted \subseteq resident \ need
        /\ Room(resident \ evicted, need) >= 0
        /\ evicted # {} => Room(resident \ evicted, need) = 0
        /\ \A a \in stay, b \in evicted: <<a, b>> \notin older
        /\ resident' = (resident \ evicted) \union need
        /\ older' = {q \in older: q[1] \in stay /\ q[2] \in stay} \union (stay \X need)

\* A cache starts with any experts in it, none older than another.
Init ==
    /\ resident \in SUBSET Experts
    /\ Cardinality(resident) <= Size
    /\ older = {}

Next ==
    \E need \in SUBSET Experts, evicted \in SUBSET resident: Use(need, evicted)

Spec == Init /\ [][Next]_vars
=============================================================================
