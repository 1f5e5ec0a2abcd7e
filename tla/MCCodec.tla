------------------------------- MODULE MCCodec -------------------------------
(***************************************************************************)
(* Codec for TLC: rows put together from a few streams, one per lane, so   *)
(* that lanes refill together, apart and in every order, and one row for   *)
(* every way to divide its values among the symbols.                       *)
(***************************************************************************)
EXTENDS Codec, Sequences

Streams ==
    {<<0, 0, 0, 0>>, <<0, 1, 0, 2>>, <<5, 3, 4, 3>>, <<0, 0, 2, 4>>,
     <<1, 5, 5, 0>>, <<1, 0, 1, 0>>}

RowOf(a, b, c, d) ==
    LET s == a \o b \o c \o d
    IN  [p \in Positions |-> s[p + 1]]
MixedRows == {RowOf(a, b, c, d): a, b, c, d \in Streams}

\* How often every symbol occurs, the frequent ones first, and a row of it.
SizeOfRow == Cardinality(Positions)
Upto(h, s) == MapThenSumSet(LAMBDA t: h[t], 0 .. s)
Tails == {h \in [1 .. (NumSymbols - 1) -> 0 .. (SizeOfRow \div 2)]:
             \A s \in 2 .. (NumSymbols - 1): h[s] <= h[s - 1]}
Rest(h) == SizeOfRow - MapThenSumSet(LAMBDA t: h[t], 1 .. (NumSymbols - 1))
Histograms ==
    {[s \in Symbols |-> IF s = 0 THEN Rest(h) ELSE h[s]]:
        h \in {t \in Tails: Rest(t) >= t[1]}}
SortedRow(h) == [p \in Positions |-> Min({s \in Symbols: p < Upto(h, s)})]
SortedRows == {SortedRow(h): h \in Histograms}

MCRows == MixedRows \union SortedRows
=============================================================================
