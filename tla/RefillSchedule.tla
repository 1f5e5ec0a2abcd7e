--------------------------- MODULE RefillSchedule ---------------------------
(***************************************************************************)
(* When a lane takes a word from the stream: the rule of the decoder       *)
(* (codec.py: _decode_group), one symbol per step, for any code whose      *)
(* codes have 1 to Limit bits.                                             *)
(*                                                                         *)
(* The encoder computes the same schedule without running the decoder      *)
(* (RefillPoint): that the two agree is what lets it put the words where   *)
(* lanes that refill at the same time find them side by side.              *)
(***************************************************************************)
EXTENDS Integers

CONSTANTS
    Word,       \* bits of a word (32)
    Limit,      \* maximum code length
    Chunk       \* symbols of a lane (CHUNK)

\* Before a lookup at most one word is taken, which must hold a whole code.
WordHoldsCode ==
    /\ Word \in Nat /\ Limit \in Nat /\ Chunk \in Nat
    /\ 1 <= Limit /\ Limit <= Word
    /\ Chunk >= 1

VARIABLES
    i,          \* symbols decoded
    level,      \* bits in the buffer
    before,     \* before[j]: bits of the symbols before symbol j, for j <= i
    taken,      \* words taken
    refills     \* refills[k]: the symbol before which word k was taken

vars == <<i, level, before, taken, refills>>

Init ==
    /\ i = 0
    /\ level = 0
    /\ before = [j \in 0 .. 0 |-> 0]
    /\ taken = 0
    /\ refills = [w \in {} |-> 0]

\* The next symbol has n bits.
Consume(n) ==
    /\ i < Chunk
    /\ i' = i + 1
    /\ before' = [j \in 0 .. (i + 1) |-> IF j <= i THEN before[j] ELSE before[i] + n]

Refill(n) ==
    /\ level < Limit
    /\ level' = level + Word - n
    /\ taken' = taken + 1
    /\ refills' = [w \in 0 .. taken |-> IF w < taken THEN refills[w] ELSE i]

Enough(n) ==
    /\ level >= Limit
    /\ level' = level - n
    /\ UNCHANGED <<taken, refills>>

Step == \E n \in 1 .. Limit: Consume(n) /\ (Refill(n) \/ Enough(n))

Spec == Init /\ [][Step]_vars

-----------------------------------------------------------------------------

\* encode: the k-th refill is at the first symbol with this many bits before.
Threshold(w) == Word * w - (Limit - 1)
RefillPoint(bits, w, j) ==
    /\ bits[j] >= Threshold(w)
    /\ \A h \in 0 .. (j - 1): bits[h] < Threshold(w)

TypeOK ==
    /\ i \in 0 .. Chunk
    /\ level \in Nat
    /\ before \in [0 .. i -> Nat]
    /\ taken \in Nat
    /\ refills \in [0 .. (taken - 1) -> 0 .. (i - 1)]

\* The decoder takes its k-th word where the encoder says it does (codec.py:19
\* "The encoder computes the refill order (symbol index, lane) with the same
\* rule as the decoder").
RefillsAtThresholds == \A w \in 0 .. (taken - 1): RefillPoint(before, w, refills[w])

\* At the end of a chunk the lane has taken as many words as the encoder laid
\* out for it (nw), so the lanes' next words stay side by side.
TakesAllWords ==
    i = Chunk => taken = (before[Chunk - 1] + (Limit - 1)) \div Word + 1

\* The buffer never runs out of bits in the middle of a code, and never holds
\* more than a code and a word: a 64-bit buffer is enough for 32-bit words.
BufferInRange == 0 <= level /\ level <= Word + Limit - 2
=============================================================================
