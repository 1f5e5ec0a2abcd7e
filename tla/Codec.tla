-------------------------------- MODULE Codec --------------------------------
(***************************************************************************)
(* One compressed row (codec.py): the code is built from the row's         *)
(* histogram, encode lays the record out, and _decode_group expands the    *)
(* record, all lanes of a group one symbol per step and the groups         *)
(* independently of each other.                                            *)
(*                                                                         *)
(* A value of the row is an exponent (the symbol) and the four bits of     *)
(* sign and mantissa.  Nothing looks into the latter, so they are the      *)
(* number of the position they come from: a nibble that ends up at another *)
(* position shows.  Offsets in the record count 32-bit words.              *)
(***************************************************************************)
EXTENDS HuffmanCode

CONSTANTS
    Word,       \* bits of a word (32)
    Chunk,      \* values of a lane (CHUNK)
    Lanes,      \* lanes of a group (LANES)
    Groups,     \* groups of a row
    Nibbles,    \* sign + mantissa nibbles in a word (8)
    Pitch,      \* words of a record
    Rows        \* the rows: functions from position to exponent

Positions == 0 .. (Groups * Lanes * Chunk - 1)
Chunks == 0 .. (Groups * Lanes - 1)
GroupIds == 0 .. (Groups - 1)
LaneIds == 0 .. (Lanes - 1)
Steps == 0 .. (Chunk - 1)

ASSUME GeometryAssumption ==
    /\ Word \in Nat /\ Limit <= Word
    /\ Chunk \in Nat \ {0} /\ Lanes \in Nat \ {0} /\ Groups \in Nat \ {0}
    /\ Nibbles \in Nat \ {0} /\ Chunk % Nibbles = 0
    /\ Pitch \in Nat
    /\ Rows \subseteq [Positions -> Symbols]

\* The powers of two, up to the bits of a chunk's words: the proofs need the
\* law, which the provers do not know.
MaxBits == Word * (Chunk + 1)
ASSUME PowersAssumption ==
    \A n \in 0 .. MaxBits: 2 ^ n \in Nat \ {0} /\ 2 ^ (n + 1) = 2 * 2 ^ n

VARIABLES
    row,        \* the row
    record,     \* the compressed record
    pos,        \* symbols decoded by every group
    rp,         \* next Huffman word of every group
    buf,        \* bit buffer of every lane (by chunk)
    level,      \* bits in it
    out,        \* the destination row
    \* history, by chunk
    before,     \* bits the lane consumed before each of its symbols
    refills     \* the symbols before which the lane took a word

decodeVars == <<pos, rp, buf, level, out, before, refills>>
vars == <<codeVars, row, record, decodeVars>>

NoRecord == [gstart |-> <<>>, fixed |-> <<>>, huff |-> <<>>]
NoValue == <<-1, -1>>

Init ==
    /\ row \in Rows
    /\ InitCode([s \in Symbols |-> Cardinality({p \in Positions: row[p] = s})])
    /\ record = NoRecord
    /\ pos = [g \in GroupIds |-> 0]
    /\ rp = [g \in GroupIds |-> 0]
    /\ buf = [c \in Chunks |-> 0]
    /\ level = [c \in Chunks |-> 0]
    /\ out = [p \in Positions |-> NoValue]
    /\ before = [c \in Chunks |-> [j \in 0 .. 0 |-> 0]]
    /\ refills = [c \in Chunks |-> [w \in {} |-> 0]]

-----------------------------------------------------------------------------
(* encode.                                                                 *)

\* Bits before every symbol of a chunk.
BitsBefore(c) ==
    LET f[i \in Steps] == IF i = 0 THEN 0 ELSE f[i - 1] + lengths[row[c * Chunk + i - 1]]
    IN  f

\* Mutant: the encoder expects refills of an empty buffer only.
WordsOfTight(bits) == bits[Chunk - 1] \div Word + 1

\* nw: words of a chunk.
WordsOf(bits) == (bits[Chunk - 1] + (Limit - 1)) \div Word + 1

\* at: the symbol before which a chunk's k-th word is taken.
RefillAt(bits, k) ==
    LET late == {i \in Steps: bits[i] >= Word * k - (Limit - 1)}
    IN  IF late = {} THEN Chunk ELSE Min(late)

\* Mutant: words in chunk order.
KeyByChunk(c, at) == c * Chunk + at

\* The order of the words: by group, refilling symbol and lane.
Key(c, at) == ((c \div Lanes) * Chunk + at) * Lanes + (c % Lanes)

\* The nibbles in (group, word, lane) order.
FixedWords ==
    LET perLane == Chunk \div Nibbles
    IN  [j \in 0 .. (Groups * Lanes * perLane - 1) |->
            LET c == (j \div (Lanes * perLane)) * Lanes + (j % Lanes)
                m == (j \div Lanes) % perLane
            IN  [k \in 0 .. (Nibbles - 1) |-> c * Chunk + m * Nibbles + k]]

\* The Huffman words, chunk by chunk: a code is added to the word it begins
\* in, and what does not fit there to the next one.
PlainWords(bits, base, total) ==
    LET Start(q) == base[q \div Chunk] * Word + bits[q \div Chunk][q % Chunk]
        head == [q \in Positions |-> (codes[row[q]] * 2 ^ (Start(q) % Word)) % 2 ^ Word]
        rest == [q \in Positions |-> codes[row[q]] \div 2 ^ (Word - (Start(q) % Word))]
    IN  [w \in 0 .. total |->
            SumFunctionOnSet(head, {q \in Positions: Start(q) \div Word = w})
          + SumFunctionOnSet(rest, {q \in Positions: Start(q) \div Word + 1 = w})]

Encode ==
    /\ phase = "coded"
    /\ LET bits == [c \in Chunks |-> BitsBefore(c)]
           nw == [c \in Chunks |-> WordsOf(bits[c])]
           Words(s) == SumFunctionOnSet(nw, s)
           base == [c \in Chunks |-> Words(0 .. (c - 1))]
           total == Words(Chunks)
           kmax == Max({nw[c]: c \in Chunks})
           valid == {w \in Chunks \X (0 .. (kmax - 1)): RefillAt(bits[w[1]], w[2]) < Chunk}
           key == [w \in valid |-> Key(w[1], RefillAt(bits[w[1]], w[2]))]
           plain == PlainWords(bits, base, total)
           Rank(w) == Cardinality({v \in valid: key[v] < key[w]})
       IN  IF (Groups + 1) + Cardinality(Positions) \div Nibbles + total > Pitch
           THEN phase' = "rejected" /\ UNCHANGED <<record, rp>>
           ELSE /\ phase' = "decode"
                /\ record' =
                      [gstart |-> [g \in 0 .. Groups |-> Words(0 .. (g * Lanes - 1))],
                       fixed  |-> FixedWords,
                       huff   |-> [j \in 0 .. (Cardinality(valid) - 1) |->
                                      LET w == CHOOSE v \in valid: Rank(v) = j
                                      IN  plain[base[w[1]] + w[2]]]]
                /\ rp' = [g \in GroupIds |-> record'.gstart[g]]
    /\ UNCHANGED <<counts, raises, heap, lengths, codes, lut, row,
                   pos, buf, level, out, before, refills>>

-----------------------------------------------------------------------------
(* _decode_group.                                                          *)

\* Mutant: a lane refills when its buffer is empty.
LowWhenEmpty(lev) == lev = 0

Low(lev) == lev < Limit

\* Beyond the record's words there is padding.
HuffWord(j) == IF j \in DOMAIN record.huff THEN record.huff[j] ELSE 0

\* Refilling lanes take adjacent words from the group's read position on.
WordIndex(g, refill, l) == rp[g] + Cardinality({h \in refill: h <= l}) - 1

Nibble(g, l, i) ==
    record.fixed[(g * (Chunk \div Nibbles) + i \div Nibbles) * Lanes + l][i % Nibbles]

\* All lanes of group g decode their next symbol.
DecodeSymbol(g) ==
    /\ phase = "decode" /\ pos[g] < Chunk
    /\ LET i == pos[g]
           refill == {l \in LaneIds: Low(level[g * Lanes + l])}
           InGroup(c) == c \div Lanes = g
           Refills(c) == InGroup(c) /\ (c % Lanes) \in refill
           filled == [c \in Chunks |->
                         IF Refills(c)
                         THEN buf[c] + HuffWord(WordIndex(g, refill, c % Lanes)) * 2 ^ level[c]
                         ELSE buf[c]]
           symbol == [c \in Chunks |-> lut[filled[c] % 2 ^ Limit]]
           bits == [c \in Chunks |-> lengths[symbol[c]]]
       IN  /\ rp' = [rp EXCEPT ![g] = @ + Cardinality(refill)]
           /\ buf' = [c \in Chunks |-> IF InGroup(c) THEN filled[c] \div 2 ^ bits[c] ELSE buf[c]]
           /\ level' = [c \in Chunks |->
                           IF InGroup(c)
                           THEN level[c] + (IF Refills(c) THEN Word ELSE 0) - bits[c]
                           ELSE level[c]]
           /\ out' = [p \in Positions |->
                         IF InGroup(p \div Chunk) /\ p % Chunk = i
                         THEN <<symbol[p \div Chunk], Nibble(g, (p \div Chunk) % Lanes, i)>>
                         ELSE out[p]]
           /\ before' = [c \in Chunks |->
                            IF InGroup(c)
                            THEN [j \in 0 .. (i + 1) |->
                                     IF j <= i THEN before[c][j] ELSE before[c][i] + bits[c]]
                            ELSE before[c]]
           /\ refills' = [c \in Chunks |->
                             IF Refills(c)
                             THEN LET taken == Cardinality(DOMAIN refills[c])
                                  IN  [w \in 0 .. taken |->
                                          IF w < taken THEN refills[c][w] ELSE i]
                             ELSE refills[c]]
    /\ pos' = [pos EXCEPT ![g] = @ + 1]
    /\ UNCHANGED <<codeVars, row, record>>

Next ==
    \/ BuildCode /\ UNCHANGED <<row, record, decodeVars>>
    \/ Encode
    \/ \E g \in GroupIds: DecodeSymbol(g)

Spec == Init /\ [][Next]_vars

\* The load computes the code without waiting for anything.
FairSpec == Spec /\ WF_vars(BuildCode /\ UNCHANGED <<row, record, decodeVars>>)

-----------------------------------------------------------------------------
(* Properties.                                                             *)

\* The codes of every histogram are prefix-free and fill the table (the
\* assertions of codec.py:114 and 116), also when rare symbols were raised.
CodesFillTable == phase # "assert"

\* The loop of code_lengths ends for every histogram: raising the rare symbols
\* makes the tree shallow enough before the bound (codec.py:87 "Raise the
\* probability of rare symbols to make the tree shallower").
LimitLoopEnds == <>(phase # "tree")

\* Unless symbols had to be raised, no other code that fills the table makes a
\* row shorter (codec.py:67, Huffman's construction).
Cost(len) == MapThenSumSet(LAMBDA s: counts[s] * len[s], Symbols)
FullCodes ==
    {len \in [Symbols -> 1 .. Limit]:
        MapThenSumSet(LAMBDA s: 2 ^ (Limit - len[s]), Symbols) = 2 ^ Limit}
CheapestCode ==
    phase = "coded" /\ raises = 0 => \A len \in FullCodes: Cost(lengths) <= Cost(len)

\* Whatever part of a record was expanded so far is the row, exponents and
\* nibbles at their positions, although lanes take words that the encoder
\* ordered without running the decoder (codec.py:154).
DecodedIsRow ==
    \A g \in GroupIds, l \in LaneIds, i \in Steps:
        LET p == (g * Lanes + l) * Chunk + i
        IN  i < pos[g] => out[p] = <<row[p], p>>

\* A group takes only its own words, and all of them (codec.py:43 "Decoding
\* group g needs only this LUT and two contiguous ranges of the record").
GroupsTakeOwnWords ==
    phase = "decode" =>
        \A g \in GroupIds:
            /\ rp[g] <= record.gstart[g + 1]
            /\ pos[g] = Chunk => rp[g] = record.gstart[g + 1]

\* Every lane refills by RefillSchedule's rule, whose agreement with the
\* encoder is proved for every code.
Lane(c) == INSTANCE RefillSchedule WITH
    i <- pos[c \div Lanes], level <- level[c], before <- before[c],
    taken <- Cardinality(DOMAIN refills[c]), refills <- refills[c]
LanesFollowSchedule ==
    /\ \A c \in Chunks: Lane(c)!Init
    /\ [][\A c \in Chunks: Lane(c)!Step \/ UNCHANGED Lane(c)!vars]_vars
=============================================================================
