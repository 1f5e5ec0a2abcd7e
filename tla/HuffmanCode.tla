----------------------------- MODULE HuffmanCode -----------------------------
(***************************************************************************)
(* The length-limited Huffman code of codec.py: _huffman_lengths,          *)
(* code_lengths and the class Code.  One merge of the two rarest nodes is  *)
(* one step, and so is one round of the loop that makes the tree           *)
(* shallower until no code is longer than the table's index.               *)
(*                                                                         *)
(* The counts are floats in the code.  Only their proportions matter, so   *)
(* they are kept as integers with a common scale instead of fractions.     *)
(***************************************************************************)
EXTENDS Integers, FiniteSets, FiniteSetsExt, Functions

CONSTANTS
    NumSymbols,     \* symbols of the alphabet (16 exponents)
    Limit,          \* maximum code length (LIMIT); the LUT has 2^Limit entries
    MaxRaises       \* bound: rounds of code_lengths

\* The loop can reach the limit only if the symbols fit in 2^Limit codes.
ASSUME CodeAssumption ==
    /\ NumSymbols \in Nat /\ NumSymbols >= 2
    /\ Limit \in Nat /\ 2 ^ Limit >= NumSymbols
    /\ MaxRaises \in Nat

VARIABLES
    phase,      \* "tree", then "coded", or "assert" when an assertion fails
    counts,     \* the counts the current tree is built from
    raises,     \* rounds after the first (k)
    heap,       \* the nodes not merged yet
    lengths,    \* code length of every symbol
    codes,      \* its code, first bit in the lowest bit
    lut         \* the symbol every table index decodes to

codeVars == <<phase, counts, raises, heap, lengths, codes, lut>>

Symbols == 0 .. (NumSymbols - 1)
Entries == 0 .. (2 ^ Limit - 1)

Leaves(c) == {[count |-> c[s], id |-> s, symbols |-> {s}]: s \in Symbols}
NoLengths == [s \in Symbols |-> 0]

\* Mutant: a heap by age.
OldestFirst(a, b) == a.id < b.id

\* The heap's order: by count, then by age.
RarerThan(a, b) ==
    \/ a.count < b.count
    \/ a.count = b.count /\ a.id < b.id

\* Symbols that never occur also get a code.
FirstCounts(hist) == [s \in Symbols |-> IF hist[s] > 1 THEN hist[s] ELSE 1]

InitCode(hist) ==
    /\ phase = "tree"
    /\ counts = FirstCounts(hist)
    /\ raises = 0
    /\ heap = Leaves(counts)
    /\ lengths = NoLengths
    /\ codes = NoLengths
    /\ lut = [x \in Entries |-> 0]

-----------------------------------------------------------------------------
(* code_lengths.                                                           *)

\* The two rarest nodes become one; every symbol below gets a bit longer.
Merge ==
    /\ phase = "tree"
    /\ \E a, b \in heap:
          /\ a # b
          /\ \A x \in heap \ {a}: RarerThan(a, x)
          /\ \A x \in heap \ {a, b}: RarerThan(b, x)
          /\ heap' = (heap \ {a, b}) \union
                {[count   |-> a.count + b.count,
                  id      |-> 2 * NumSymbols - Cardinality(heap),
                  symbols |-> a.symbols \union b.symbols]}
          /\ lengths' = [s \in Symbols |->
                IF s \in a.symbols \union b.symbols THEN lengths[s] + 1 ELSE lengths[s]]
    /\ UNCHANGED <<phase, counts, raises, codes, lut>>

TooLong == \E s \in Symbols: lengths[s] > Limit

\* Mutant: the floor is a share of the rarest count.
RaisedLittle(c, k) ==
    LET least == CHOOSE x \in {c[s]: s \in Symbols}: \A s \in Symbols: x <= c[s]
        unit == 2 ^ (Limit - k)
    IN  [s \in Symbols |-> IF c[s] * unit > least THEN c[s] * unit ELSE least]

\* No count stays below the k-th floor, sum / 2^(Limit - k); scaled by the
\* denominator.
Raised(c, k) ==
    LET sum == SumFunctionOnSet(c, Symbols)
        unit == 2 ^ (Limit - k)
    IN  [s \in Symbols |-> IF c[s] * unit > sum THEN c[s] * unit ELSE sum]

\* The tree is too deep: start again with the rare symbols less rare.
Raise ==
    /\ phase = "tree" /\ Cardinality(heap) = 1 /\ TooLong
    /\ raises < MaxRaises
    /\ raises' = raises + 1
    /\ counts' = Raised(counts, raises')
    /\ heap' = Leaves(counts')
    /\ lengths' = NoLengths
    /\ UNCHANGED <<phase, codes, lut>>

-----------------------------------------------------------------------------
(* class Code.                                                             *)

\* Canonical order: by length, then by symbol.
CanonBefore(len, s, t) ==
    \/ len[s] < len[t]
    \/ len[s] = len[t] /\ s < t

Canonical(len) ==
    LET At(i) == CHOOSE s \in Symbols:
                    Cardinality({t \in Symbols: CanonBefore(len, t, s)}) = i
        code[i \in Symbols] ==
            IF i = 0 THEN 0
            ELSE (code[i - 1] + 1) * 2 ^ (len[At(i)] - len[At(i - 1)])
    IN  [s \in Symbols |->
            code[Cardinality({t \in Symbols: CanonBefore(len, t, s)})]]

\* Mutant: the bits are not turned around.
NotReversed(v, n) == v

\* The lowest n bits of v, in reverse.
Reversed(v, n) ==
    SumFunctionOnSet([b \in 0 .. (n - 1) |-> ((v \div 2 ^ b) % 2) * 2 ^ (n - 1 - b)],
                     0 .. (n - 1))

\* The symbols whose code is what the lowest bits of a table index say.
Writers(len, code, x) == {s \in Symbols: x % 2 ^ len[s] = code[s]}

\* The codes of accepted lengths and the table; both assertions of the code
\* (no entry written twice, no entry left out) are about the writers.
Assign ==
    /\ phase = "tree" /\ Cardinality(heap) = 1 /\ ~ TooLong
    /\ LET canon == Canonical(lengths)
       IN  codes' = [s \in Symbols |-> Reversed(canon[s], lengths[s])]
    /\ IF \A x \in Entries: Cardinality(Writers(lengths, codes', x)) = 1
       THEN /\ phase' = "coded"
            /\ lut' = [x \in Entries |->
                          CHOOSE s \in Symbols: s \in Writers(lengths, codes', x)]
       ELSE phase' = "assert" /\ UNCHANGED lut
    /\ UNCHANGED <<counts, raises, heap, lengths>>

BuildCode == Merge \/ Raise \/ Assign
=============================================================================
