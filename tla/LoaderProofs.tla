---------------------------- MODULE LoaderProofs ----------------------------
(***************************************************************************)
(* Loader for every number of processes, layers, experts and starts.       *)
(*                                                                         *)
(* What a process has stored is a function of the shards it has had: of an *)
(* expert's row it has staged the half that came alone, or pinned the row  *)
(* that is whole.  The file is another matter, since every process writes  *)
(* it: an invariant says that two processes that have it open at the same  *)
(* time are both disturbed, so an undisturbed one wrote all that is there. *)
(***************************************************************************)
EXTENDS Loader, Sequences, FiniteSetTheorems, TLAPS

-----------------------------------------------------------------------------
(* The inductive invariant.                                                *)

LibStates == {"none", "part", "whole"}
Building == {"open", "compiling", "compiled", "replaced", "loading"}
Phases == {"off", "checked", "refused", "ready", "failed"} \union Building
Rows == {None} \union {Row(x, name): x \in LayerExperts, name \in Names}

Shape ==
    /\ working \in WorkingRows /\ absent \subseteq MayLack
    /\ lib \in LibStates
    /\ out \in [Procs -> LibStates] /\ loaded \in [Procs -> LibStates]
    /\ phase \in [Procs -> Phases]
    /\ todo \in [Procs -> SUBSET Shards]
    /\ stage \in [Procs -> Halves]
    /\ pinned \in [Procs -> [RamRows -> [Names -> Rows]]]
    /\ starts \in 0 .. MaxStarts /\ short \in 0 .. MaxShort
    /\ disturbed \subseteq Procs

\* There is a file when a process has it open, and nothing outside its places.
FileShape ==
    \/ DOMAIN file \subseteq Places
    \/ file = NoFile /\ \A p \in Procs: ~ Opened(p)

\* Only the rename makes the library, from an output that is whole.
LibraryInv ==
    /\ lib # "part"
    /\ \A p \in Procs: /\ loaded[p] # "part"
                       /\ phase[p] = "compiled" => out[p] = "whole"

\* The shards a process has had.
Arrived(p) == IF Opened(p) THEN (Shards \ absent) \ todo[p] ELSE {}
HasRow(p, x, name) == \A kind \in KindsOf(name): <<x, kind>> \in Arrived(p)

\* The halves that wait for the other one.
Waiting(p, x) ==
    IF HasRow(p, x, "w13") THEN {}
    ELSE {s \in Arrived(p): s \in {<<x, "w1">>, <<x, "w3">>}}

StageInv == \A p \in Procs, x \in LayerExperts: stage[p][x] = Waiting(p, x)

PinnedInv ==
    \A p \in Procs, x \in LayerExperts, name \in Names:
       HasRow(p, x, name) /\ x[2] < R => pinned[p][RamRow(x)][name] = Row(x, name)

\* Whoever has the file open together with another knows it as disturbed.
Overlap ==
    \A p, q \in Procs: p # q /\ Opened(p) /\ Opened(q) => p \in disturbed

InFile(x, name) ==
    Place(x, name) \in DOMAIN file /\ file[Place(x, name)] = Row(x, name)

FileInv ==
    \A p \in Procs, x \in LayerExperts, name \in Names:
       HasRow(p, x, name) /\ p \notin disturbed /\ short = 0 => InFile(x, name)

\* What is to come is in the checkpoint, and all of it has come at the setup.
TodoInv ==
    \A p \in Procs: /\ todo[p] \cap absent = {}
                    /\ phase[p] \in {"ready", "failed"} => todo[p] = {}

\* A file that is not broken is full, and nobody is about to write it.
FileFull == \A x \in LayerExperts, name \in Names: InFile(x, name)

UnbrokenInv ==
    ~ broken => /\ file = NoFile \/ (DOMAIN file \subseteq Places /\ FileFull)
                /\ \A p \in Procs: phase[p] \notin Building

IInv ==
    /\ Shape /\ FileShape /\ LibraryInv
    /\ StageInv /\ PinnedInv /\ Overlap /\ FileInv
    /\ TodoInv /\ UnbrokenInv /\ StagingFits

-----------------------------------------------------------------------------
(* Rows and places.                                                        *)

LEMMA Constants ==
    /\ Layers \in Nat \ {0} /\ E \in Nat \ {0} /\ R \in Nat \ {0} /\ R < E
    /\ MayLack \subseteq Shards
    /\ MaxStarts \in Nat /\ MaxShort \in Nat
BY LoaderAssumption

\* a and c are quotients of the same number by n, and b and d its digits.
SameNumber(n, a, b, c, d) ==
    b < n /\ d < n /\ a * n + b = c * n + d

\* A number with a digit below n has one quotient and one digit.
LEMMA DigitUnique ==
    ASSUME NEW n \in Nat, NEW a \in Nat, NEW b \in Nat,
           NEW c \in Nat, NEW d \in Nat, SameNumber(n, a, b, c, d)
    PROVE  a = c /\ b = d
<1>1. ASSUME NEW u \in Nat, NEW v \in Nat, NEW e \in Nat, NEW f \in Nat,
             e < n, u < v
      PROVE  u * n + e # v * n + f
  <2>1. PICK k \in Nat: v = u + k + 1
    <3>1. v - u - 1 \in Nat /\ v = u + (v - u - 1) + 1
      BY <1>1
    <3> QED BY <3>1
  <2>2. PICK g \in Nat, h \in Nat: g = u * n /\ h = k * n
    OBVIOUS
  <2>3. v * n = g + h + n
    BY <2>1, <2>2
  <2> QED BY <1>1, <2>2, <2>3
<1>2. ~ a < c
  BY <1>1 DEF SameNumber
<1>3. ~ c < a
  BY <1>1 DEF SameNumber
<1>4. a = c
  BY <1>2, <1>3
<1>5. PICK g \in Nat: g = a * n
  OBVIOUS
<1> QED BY <1>4, <1>5 DEF SameNumber

\* An index of layers and experts stays below the product.
LEMMA DigitBound ==
    ASSUME NEW n \in Nat, NEW m \in Nat,
           NEW a \in 0 .. (m - 1), NEW b \in 0 .. (n - 1)
    PROVE  a * n + b \in 0 .. (m * n - 1)
<1>1. PICK k \in Nat: m = a + k + 1
  <2>1. m - a - 1 \in Nat /\ m = a + (m - a - 1) + 1
    OBVIOUS
  <2> QED BY <2>1
<1>2. PICK g \in Nat, h \in Nat: g = a * n /\ h = k * n
  OBVIOUS
<1>3. m * n = g + h + n
  BY <1>1, <1>2
<1> QED BY <1>2, <1>3

LEMMA LayerExpertType ==
    ASSUME NEW x \in LayerExperts
    PROVE  /\ x[1] \in 0 .. (Layers - 1) /\ x[2] \in 0 .. (E - 1)
           /\ x = <<x[1], x[2]>>
BY DEF LayerExperts

\* Every row has a place of its own.
LEMMA PlaceType ==
    ASSUME NEW x \in LayerExperts, NEW name \in Names
    PROVE  Place(x, name) \in Places
<1>1. PICK i \in Nat: i = x[1] * E + x[2]
  BY LayerExpertType, Constants
<1>2. PICK n \in Nat: n = Layers * E
  BY Constants
<1>3. i \in 0 .. (n - 1)
  <2>1. x[1] * E + x[2] \in 0 .. (Layers * E - 1)
    BY LayerExpertType, Constants, DigitBound
  <2> QED BY <1>1, <1>2, <2>1
<1>4. 2 * Layers * E = 2 * n
  BY <1>2, Constants
<1>5. Place(x, name) = 2 * i + (IF name = "w2" THEN 1 ELSE 0)
  BY <1>1 DEF Place
<1> QED BY <1>2, <1>3, <1>4, <1>5 DEF Places

LEMMA PlaceApart ==
    ASSUME NEW x \in LayerExperts, NEW y \in LayerExperts,
           NEW name \in Names, NEW other \in Names,
           Place(x, name) = Place(y, other)
    PROVE  x = y /\ name = other
<1>1. PICK i \in Nat: i = x[1] * E + x[2]
  BY LayerExpertType, Constants
<1>2. PICK j \in Nat: j = y[1] * E + y[2]
  BY LayerExpertType, Constants
<1>3. 2 * i + (IF name = "w2" THEN 1 ELSE 0) = 2 * j + (IF other = "w2" THEN 1 ELSE 0)
  BY <1>1, <1>2 DEF Place
<1>4. i = j /\ name = other
  <2>1. CASE name = "w2"
    BY <1>3, <2>1 DEF Names
  <2>2. CASE name = "w13"
    BY <1>3, <2>2 DEF Names
  <2> QED BY <2>1, <2>2 DEF Names
<1>5. x[1] * E + x[2] = y[1] * E + y[2]
  BY <1>1, <1>2, <1>4
<1>6. x[1] = y[1] /\ x[2] = y[2]
  <2>1. /\ x[1] \in Nat /\ x[2] \in Nat /\ y[1] \in Nat /\ y[2] \in Nat
        /\ x[2] < E /\ y[2] < E /\ E \in Nat
    BY LayerExpertType, Constants
  <2>2. SameNumber(E, x[1], x[2], y[1], y[2])
    BY <1>5, <2>1 DEF SameNumber
  <2> QED BY <2>1, <2>2, DigitUnique
<1> QED BY <1>4, <1>6, LayerExpertType

\* Every place is the place of a row.
LEMMA PlaceOnto ==
    ASSUME NEW i \in Places
    PROVE  \E x \in LayerExperts, name \in Names: Place(x, name) = i
<1>1. PICK n \in Nat: n = Layers * E
  BY Constants
<1>2. 2 * Layers * E = 2 * n
  BY <1>1, Constants
<1>3. PICK h \in 0 .. (n - 1), b \in {0, 1}: i = 2 * h + b
  <2>1. i \in 0 .. (2 * n - 1)
    BY <1>2 DEF Places
  <2>2. i \div 2 \in 0 .. (n - 1) /\ i % 2 \in {0, 1} /\ i = 2 * (i \div 2) + (i % 2)
    BY <2>1
  <2> QED BY <2>2
<1>4. PICK a \in Nat, c \in 0 .. (E - 1): h = a * E + c
  <2>1. h \div E \in Nat /\ h % E \in 0 .. (E - 1) /\ h = E * (h \div E) + (h % E)
    BY Constants
  <2>2. PICK q \in Nat: q = h \div E
    BY <2>1
  <2>3. h = q * E + (h % E)
    BY <2>1, <2>2, Constants
  <2> QED BY <2>1, <2>3
<1>5. a < Layers
  <2> SUFFICES ASSUME a >= Layers PROVE FALSE
    BY Constants
  <2>1. PICK k \in Nat: a = Layers + k
    <3>1. a - Layers \in Nat /\ a = Layers + (a - Layers)
      BY Constants
    <3> QED BY <3>1
  <2>2. PICK g \in Nat: g = k * E
    BY Constants
  <2>3. a * E = n + g
    BY <1>1, <2>1, <2>2, Constants
  <2> QED BY <1>4, <2>3
<1>6. <<a, c>> \in LayerExperts
  BY <1>5, Constants DEF LayerExperts
<1>7. PICK name \in Names: (name = "w2") <=> (b = 1)
  BY <1>3 DEF Names
<1>8. Place(<<a, c>>, name) = i
  <2>1. Place(<<a, c>>, name) = 2 * h + (IF name = "w2" THEN 1 ELSE 0)
    BY <1>4 DEF Place
  <2> QED BY <1>3, <1>7, <2>1
<1> QED BY <1>6, <1>8

\* The rows of the RAM tier do not share memory.
LEMMA RamRowType ==
    ASSUME NEW x \in LayerExperts, x[2] < R
    PROVE  RamRow(x) \in RamRows
<1>1. x[1] * R + x[2] \in 0 .. (Layers * R - 1)
  BY LayerExpertType, Constants, DigitBound
<1> QED BY <1>1 DEF RamRow, RamRows

LEMMA RamRowApart ==
    ASSUME NEW x \in LayerExperts, NEW y \in LayerExperts,
           x[2] < R, y[2] < R, RamRow(x) = RamRow(y)
    PROVE  x = y
<1>1. x[1] = y[1] /\ x[2] = y[2]
  <2>1. /\ x[1] \in Nat /\ x[2] \in Nat /\ y[1] \in Nat /\ y[2] \in Nat
        /\ R \in Nat
    BY LayerExpertType, Constants
  <2>2. SameNumber(R, x[1], x[2], y[1], y[2])
    BY <2>1 DEF SameNumber, RamRow
  <2> QED BY <2>1, <2>2, DigitUnique
<1> QED BY <1>1, LayerExpertType

LEMMA RowIsWhole ==
    ASSUME NEW x \in LayerExperts, NEW name \in Names
    PROVE  Row(x, name) # Cut /\ Row(x, name) \in Rows
<1>1. Len(Row(x, name)) # 0
  BY DEF Row
<1> QED BY <1>1 DEF Cut, Rows

-----------------------------------------------------------------------------
(* The rows of the working slab that the decode staging takes.             *)

\* A quotient that is rounded up is at most w exactly when w times the
\* divisor holds the dividend.
LEMMA RoundedUp ==
    ASSUME NEW s \in Nat \ {0}, NEW a \in Nat, NEW w \in Nat
    PROVE  (a + s - 1) \div s <= w <=> a <= w * s
<1>1. PICK t \in Nat: t = a + s - 1
  <2>1. a + s - 1 \in Nat
    OBVIOUS
  <2> QED BY <2>1
<1>2. /\ t \div s \in Nat /\ t % s \in 0 .. (s - 1)
      /\ t = s * (t \div s) + (t % s)
  OBVIOUS
<1>3. PICK q \in Nat: q = t \div s
  BY <1>2
<1>4. PICK r \in 0 .. (s - 1): r = t % s
  BY <1>2
<1>5. PICK m \in Nat, n \in Nat: m = s * q /\ n = w * s
  OBVIOUS
<1>6. a + s - 1 = m + r
  BY <1>1, <1>2, <1>3, <1>4, <1>5
<1>7. ASSUME q <= w PROVE m <= n
  <2>1. PICK k \in Nat: w = q + k
    <3>1. w - q \in Nat /\ w = q + (w - q)
      BY <1>7
    <3> QED BY <3>1
  <2>2. PICK g \in Nat: g = k * s
    OBVIOUS
  <2>3. n = m + g
    BY <1>5, <2>1, <2>2
  <2> QED BY <2>3
<1>8. ASSUME q > w PROVE m >= n + s
  <2>1. PICK k \in Nat: q = w + k + 1
    <3>1. q - w - 1 \in Nat /\ q = w + (q - w - 1) + 1
      BY <1>8
    <3> QED BY <3>1
  <2>2. PICK g \in Nat: g = s * k
    OBVIOUS
  <2>3. m = n + g + s
    BY <1>5, <2>1, <2>2
  <2> QED BY <2>3
<1>9. q <= w <=> a <= n
  BY <1>6, <1>7, <1>8
<1> QED BY <1>1, <1>3, <1>5, <1>9

Fits == \A name \in Names: CacheSlots * PitchSize[name] <= working * RowSize[name]

LEMMA LeastType ==
    ASSUME NEW name \in Names
    PROVE  Least(name) \in Int
<1>1. RowSize[name] \in Nat \ {0} /\ PitchSize[name] \in Nat /\ CacheSlots \in Nat
  BY LoaderAssumption
<1>2. PICK a \in Nat: a = CacheSlots * PitchSize[name]
  BY <1>1
<1>3. (a + RowSize[name] - 1) \div RowSize[name] \in Int
  BY <1>1
<1> QED BY <1>2, <1>3 DEF Least

\* What the setup asks of WORKING_ROWS is that the staging fits.
LEMMA SetupAsksFits ==
    ASSUME working \in WorkingRows
    PROVE  working < Max({Least(name): name \in Names}) <=> ~ Fits
<1>1. working \in Nat
  BY LoaderAssumption
<1>2. ASSUME NEW name \in Names
      PROVE  Least(name) <= working
                <=> CacheSlots * PitchSize[name] <= working * RowSize[name]
  <2>1. /\ RowSize[name] \in Nat \ {0} /\ PitchSize[name] \in Nat
        /\ CacheSlots \in Nat
    BY LoaderAssumption
  <2>2. PICK a \in Nat: a = CacheSlots * PitchSize[name]
    BY <2>1
  <2>3. (a + RowSize[name] - 1) \div RowSize[name] <= working
           <=> a <= working * RowSize[name]
    BY <1>1, <2>1, RoundedUp
  <2> QED BY <2>2, <2>3 DEF Least
<1> DEFINE L == {Least(name): name \in Names}
           m == Max(L)
<1>3. m \in L /\ \A n \in L: m >= n
  <2>1. PICK n \in L: \A k \in L: n >= k
    <3>1. L = {Least("w13"), Least("w2")}
      BY DEF Names
    <3>2. Least("w13") \in Int /\ Least("w2") \in Int
      BY LeastType DEF Names
    <3> QED BY <3>1, <3>2
  <2> HIDE DEF L
  <2> QED BY <2>1 DEF Max
<1> HIDE DEF m
<1>4. m \in Int
  BY <1>3, LeastType
<1>5. m <= working <=> \A name \in Names: Least(name) <= working
  BY <1>1, <1>3, <1>4, LeastType
<1>6. m <= working <=> Fits
  BY <1>2, <1>5 DEF Fits
<1> QED BY <1>1, <1>4, <1>6 DEF m

-----------------------------------------------------------------------------
(* The initial states.                                                     *)

\* A process that has not opened the file has had nothing.
LEMMA NothingArrived ==
    ASSUME NEW p \in Procs, ~ Opened(p), NEW x \in LayerExperts
    PROVE  /\ Waiting(p, x) = {}
           /\ \A name \in Names: ~ HasRow(p, x, name)
<1>1. Arrived(p) = {}
  BY DEF Arrived
<1>2. \A name \in Names: ~ HasRow(p, x, name)
  BY <1>1 DEF HasRow, KindsOf, Names
<1> QED BY <1>1, <1>2 DEF Waiting

LEMMA NothingTyped ==
    /\ NothingStaged \in Halves
    /\ NothingPinned \in [RamRows -> [Names -> Rows]]
BY DEF NothingStaged, NothingPinned, Halves, Rows

LEMMA InitHolds ==
    ASSUME Init
    PROVE  IInv
<1>1. Shape
  <2>1. absent \subseteq MayLack
    BY DEF Init
  <2>2. MaxStarts \in Nat /\ MaxShort \in Nat
    BY Constants
  <2> QED BY <2>1, <2>2, NothingTyped DEF Init, Shape, LibStates, Phases
<1>2. \A p \in Procs: ~ Opened(p)
  BY DEF Init, Opened
<1>3. FileShape
  <2>1. CASE file = NoFile
    BY <1>2, <2>1 DEF FileShape
  <2>2. CASE file = [i \in {0} |-> Cut]
    <3>1. PICK n \in Nat: n = Layers * E
      BY Constants
    <3>2. n >= 1
      BY <3>1, Constants
    <3>3. 2 * Layers * E = 2 * n
      BY <3>1, Constants
    <3>4. 0 \in Places
      BY <3>2, <3>3 DEF Places
    <3> QED BY <2>2, <3>4 DEF FileShape
  <2> QED BY <2>1, <2>2 DEF Init
<1>4. LibraryInv
  BY DEF Init, LibraryInv
<1>5. StageInv
  BY <1>2, NothingArrived DEF Init, StageInv, NothingStaged
<1>6. PinnedInv /\ FileInv
  BY <1>2, NothingArrived DEF PinnedInv, FileInv
<1>7. Overlap
  BY <1>2 DEF Overlap
<1>8. TodoInv
  BY DEF Init, TodoInv
<1>9. UnbrokenInv
  BY DEF Init, UnbrokenInv, Building
<1>10. StagingFits
  BY DEF Init, StagingFits
<1> QED BY <1>1, <1>3, <1>4, <1>5, <1>6, <1>7, <1>8, <1>9, <1>10 DEF IInv

-----------------------------------------------------------------------------
(* Steps that store nothing.                                               *)

StoreInv == FileShape /\ StageInv /\ PinnedInv /\ Overlap /\ FileInv

\* What a process has had changes only with what is to come.
LEMMA ArrivedSame ==
    ASSUME NEW p \in Procs, NEW x \in LayerExperts,
           absent' = absent, Opened(p)' <=> Opened(p),
           Opened(p) => todo'[p] = todo[p]
    PROVE  /\ Arrived(p)' = Arrived(p)
           /\ Waiting(p, x)' = Waiting(p, x)
           /\ \A name \in Names: HasRow(p, x, name)' <=> HasRow(p, x, name)
<1>1. Arrived(p)' = Arrived(p)
  BY DEF Arrived
<1>2. \A name: HasRow(p, x, name)' <=> HasRow(p, x, name)
  BY <1>1 DEF HasRow
<1>3. Waiting(p, x)' = Waiting(p, x)
  BY <1>1, <1>2 DEF Waiting
<1> QED BY <1>1, <1>2, <1>3

\* A step that opens and closes no file and writes nothing.
LEMMA StoresSame ==
    ASSUME StoreInv,
           UNCHANGED <<absent, todo, stage, pinned, file, disturbed, short>>,
           \A p \in Procs: Opened(p)' <=> Opened(p)
    PROVE  StoreInv'
<1>1. \A p \in Procs, x \in LayerExperts:
         /\ Waiting(p, x)' = Waiting(p, x)
         /\ \A name \in Names: HasRow(p, x, name)' <=> HasRow(p, x, name)
  BY ArrivedSame
<1>2. FileShape'
  BY DEF StoreInv, FileShape
<1>3. StageInv'
  BY <1>1 DEF StoreInv, StageInv
<1>4. PinnedInv'
  BY <1>1 DEF StoreInv, PinnedInv
<1>5. Overlap'
  BY DEF StoreInv, Overlap
<1>6. FileInv'
  <2>1. \A x, name: InFile(x, name)' <=> InFile(x, name)
    BY DEF InFile
  <2> QED BY <1>1, <2>1 DEF StoreInv, FileInv
<1> QED BY <1>2, <1>3, <1>4, <1>5, <1>6 DEF StoreInv

LEMMA CheckKeeps ==
    ASSUME IInv, NEW p \in Procs, Check(p)
    PROVE  IInv'
<1> USE DEF Check, envVars, libVars, loadVars
<1>1. \A q \in Procs: phase'[q] = IF q = p THEN phase'[p] ELSE phase[q]
  BY DEF IInv, Shape
<1>2. phase[p] = "off" /\ phase'[p] \in {"refused", "checked"}
  BY DEF IInv, Shape
<1>3. \A q \in Procs: Opened(q)' <=> Opened(q)
  BY <1>1, <1>2 DEF Opened
<1>4. Shape'
  BY Constants DEF IInv, Shape, Phases
<1>5. StoreInv'
  BY <1>3, StoresSame DEF IInv, StoreInv
<1>6. LibraryInv'
  BY <1>1, <1>2 DEF IInv, LibraryInv
<1>7. TodoInv'
  BY <1>1, <1>2 DEF IInv, TodoInv
<1>8. UnbrokenInv'
  BY <1>1, <1>2 DEF IInv, UnbrokenInv, Building, FileFull, InFile
<1>9. StagingFits'
  BY <1>1, <1>2 DEF IInv, StagingFits
<1> QED BY <1>4, <1>5, <1>6, <1>7, <1>8, <1>9 DEF IInv, StoreInv

-----------------------------------------------------------------------------
(* The library.                                                            *)

\* A step of the build is from one phase of a start to the next.
LEMMA BuildKeeps ==
    ASSUME IInv, NEW p \in Procs,
           Compile(p) \/ Compiled(p) \/ Replace(p) \/ LoadLibrary(p)
    PROVE  IInv'
<1>1. /\ phase[p] \in {"open", "compiling", "compiled", "replaced"}
      /\ phase'[p] \in {"compiling", "compiled", "replaced", "loading"}
      /\ \A q \in Procs \ {p}: phase'[q] = phase[q]
      /\ UNCHANGED <<envVars, file, loadVars, starts, short, disturbed, broken>>
  BY DEF IInv, Shape, Compile, Compiled, Replace, LoadLibrary
<1> USE DEF envVars, libVars, loadVars
<1>2. \A q \in Procs: Opened(q)' <=> Opened(q)
  BY <1>1 DEF Opened
<1>3. Shape'
  <2>1. phase' \in [Procs -> Phases]
    BY DEF IInv, Shape, Phases, Building, Compile, Compiled, Replace, LoadLibrary
  <2>2. /\ lib' \in LibStates
        /\ out' \in [Procs -> LibStates] /\ loaded' \in [Procs -> LibStates]
    BY DEF IInv, Shape, LibStates, Compile, Compiled, Replace, LoadLibrary
  <2> QED BY <1>1, <2>1, <2>2 DEF IInv, Shape
<1>4. StoreInv'
  BY <1>1, <1>2, StoresSame DEF IInv, StoreInv
<1>5. LibraryInv'
  <2>1. CASE Compile(p)
    BY <2>1 DEF IInv, Shape, LibraryInv, Compile
  <2>2. CASE Compiled(p)
    BY <2>2 DEF IInv, Shape, LibraryInv, Compiled
  <2>3. CASE Replace(p)
    BY <2>3 DEF IInv, Shape, LibraryInv, Replace
  <2>4. CASE LoadLibrary(p)
    BY <2>4 DEF IInv, Shape, LibraryInv, LoadLibrary
  <2> QED BY <2>1, <2>2, <2>3, <2>4
<1>6. TodoInv'
  BY <1>1 DEF IInv, TodoInv
<1>7. UnbrokenInv'
  BY <1>1 DEF IInv, UnbrokenInv, Building
<1>8. StagingFits'
  BY <1>1 DEF IInv, StagingFits
<1> QED BY <1>3, <1>4, <1>5, <1>6, <1>7, <1>8 DEF IInv, StoreInv

-----------------------------------------------------------------------------
(* The file is opened.                                                     *)

\* Who opens the file has nothing in it, and disturbs all who have it open.
LEMMA OpenKeeps ==
    ASSUME IInv, NEW p \in Procs, Open(p)
    PROVE  IInv'
<1> USE DEF envVars, libVars
<1>1. /\ phase[p] = "checked" /\ phase'[p] = "open"
      /\ \A q \in Procs \ {p}: phase'[q] = phase[q] /\ todo'[q] = todo[q]
      /\ todo'[p] = Shards \ absent
      /\ DOMAIN file' = {} /\ broken'
      /\ UNCHANGED <<envVars, libVars, stage, pinned, starts, short>>
  BY DEF IInv, Shape, Open
<1>2. /\ ~ Opened(p) /\ Opened(p)'
      /\ \A q \in Procs \ {p}: Opened(q)' <=> Opened(q)
  BY <1>1 DEF Opened
<1>3. /\ disturbed' \subseteq Procs
      /\ \A q \in Procs \ {p}: Opened(q) => q \in disturbed' /\ p \in disturbed'
      /\ disturbed \ {p} \subseteq disturbed'
  BY DEF IInv, Shape, Open
<1>4. Shape'
  <2>1. phase' \in [Procs -> Phases] /\ todo' \in [Procs -> SUBSET Shards]
    BY DEF IInv, Shape, Open, Phases, Building
  <2> QED BY <1>1, <1>3, <2>1 DEF IInv, Shape
<1>5. Arrived(p)' = {}
  BY <1>1 DEF Arrived
<1>6. \A x \in LayerExperts: /\ Waiting(p, x)' = {}
                             /\ \A name \in Names: ~ HasRow(p, x, name)'
  BY <1>5 DEF Waiting, HasRow, KindsOf
<1>7. \A q \in Procs \ {p}, x \in LayerExperts:
         /\ Waiting(q, x)' = Waiting(q, x)
         /\ \A name \in Names: HasRow(q, x, name)' <=> HasRow(q, x, name)
  BY <1>1, <1>2, ArrivedSame
<1>8. StageInv'
  <2>1. \A x \in LayerExperts: stage[p][x] = {}
    BY <1>2, NothingArrived DEF IInv, StageInv
  <2>2. \A q \in Procs \ {p}, x \in LayerExperts: stage[q][x] = Waiting(q, x)
    BY DEF IInv, StageInv
  <2>3. \A x \in LayerExperts: stage'[p][x] = Waiting(p, x)'
    BY <1>1, <1>6, <2>1
  <2>4. \A q \in Procs \ {p}, x \in LayerExperts: stage'[q][x] = Waiting(q, x)'
    BY <1>1, <1>7, <2>2
  <2> QED BY <2>3, <2>4 DEF StageInv
<1>9. PinnedInv'
  BY <1>1, <1>6, <1>7 DEF IInv, PinnedInv
<1>10. Overlap'
  BY <1>2, <1>3 DEF IInv, Overlap
<1>11. FileInv'
  <2>1. \A q \in Procs \ {p}, x \in LayerExperts, name \in Names:
           HasRow(q, x, name) => q \in disturbed'
    BY <1>3, NothingArrived
  <2> QED BY <1>6, <1>7, <2>1 DEF FileInv
<1>12. FileShape'
  BY <1>1 DEF FileShape
<1>13. LibraryInv'
  BY <1>1 DEF IInv, LibraryInv
<1>14. TodoInv'
  BY <1>1 DEF IInv, TodoInv
<1>15. UnbrokenInv'
  BY <1>1 DEF UnbrokenInv
<1>16. StagingFits'
  BY <1>1 DEF IInv, StagingFits
<1> QED BY <1>4, <1>8, <1>9, <1>10, <1>11, <1>12, <1>13, <1>14, <1>15, <1>16 DEF IInv

-----------------------------------------------------------------------------
(* The end of a load, and of a process.                                    *)

\* An undisturbed load that lacked and lost nothing leaves the file full.
LEMMA SetupKeeps ==
    ASSUME IInv, NEW p \in Procs, Setup(p)
    PROVE  IInv'
<1> USE DEF envVars, libVars, loadVars
<1>1. /\ phase[p] = "loading" /\ todo[p] = {}
      /\ phase'[p] = IF working < Max({Least(name): name \in Names}) THEN "failed"
                     ELSE "ready"
      /\ \A q \in Procs \ {p}: phase'[q] = phase[q]
      /\ broken' = (disturbed # {} \/ short > 0 \/ absent # {})
      /\ UNCHANGED <<envVars, file, libVars, loadVars, starts, short, disturbed>>
  BY DEF IInv, Shape, Setup
<1>2. phase'[p] \in {"failed", "ready"}
  BY <1>1
<1>3. \A q \in Procs: Opened(q)' <=> Opened(q)
  BY <1>1, <1>2 DEF Opened
<1>4. Shape'
  <2>1. phase' \in [Procs -> Phases]
    BY DEF IInv, Shape, Setup, Phases, Building
  <2> QED BY <1>1, <2>1 DEF IInv, Shape
<1>5. StoreInv'
  BY <1>1, <1>3, StoresSame DEF IInv, StoreInv
<1>6. LibraryInv'
  BY <1>1, <1>2 DEF IInv, LibraryInv
<1>7. TodoInv'
  BY <1>1, <1>2 DEF IInv, TodoInv
<1>8. UnbrokenInv'
  <2> SUFFICES ASSUME ~ broken'
               PROVE  /\ DOMAIN file' \subseteq Places /\ FileFull'
                      /\ \A q \in Procs: phase'[q] \notin Building
    BY DEF UnbrokenInv
  <2>1. disturbed = {} /\ absent = {} /\ short = 0
    <3>1. ~ (disturbed # {} \/ short > 0 \/ absent # {})
      BY <1>1
    <3>2. short \in 0 .. MaxShort
      BY DEF IInv, Shape
    <3> QED BY <3>1, <3>2, Constants
  <2>2. Opened(p) /\ \A q \in Procs \ {p}: ~ Opened(q)
    BY <1>1, <2>1 DEF IInv, Overlap, Opened
  <2>3. \A q \in Procs: phase'[q] \notin Building
    BY <1>1, <1>2, <2>2 DEF Opened, Building
  <2>4. DOMAIN file \subseteq Places
    BY <2>2 DEF IInv, FileShape
  <2>5. \A x \in LayerExperts, name \in Names: HasRow(p, x, name)
    BY <1>1, <2>1, <2>2 DEF HasRow, Arrived, KindsOf, Shards, Names
  <2>6. FileFull
    BY <2>1, <2>5 DEF IInv, FileInv, FileFull
  <2> QED BY <1>1, <2>3, <2>4, <2>6 DEF FileFull, InFile
<1>9. StagingFits'
  <2>1. phase'[p] = IF Fits THEN "ready" ELSE "failed"
    BY <1>1, SetupAsksFits DEF IInv, Shape
  <2>2. Fits' <=> Fits
    BY <1>1 DEF Fits
  <2>3. \A q \in Procs \ {p}: /\ phase[q] = "ready" => Fits
                              /\ phase[q] = "failed" => ~ Fits
    BY DEF IInv, StagingFits, Fits
  <2>4. \A q \in Procs: /\ phase'[q] = "ready" => Fits'
                        /\ phase'[q] = "failed" => ~ Fits'
    BY <1>1, <2>1, <2>2, <2>3
  <2> QED BY <2>4 DEF StagingFits, Fits
<1> QED BY <1>4, <1>5, <1>6, <1>7, <1>8, <1>9 DEF IInv, StoreInv

\* What a process had is gone with it; the file stays as it is.
LEMMA LeaveKeeps ==
    ASSUME IInv, NEW p \in Procs, Leave(p)
    PROVE  IInv'
<1> USE DEF envVars
<1>1. /\ phase'[p] = "off" /\ todo'[p] = {} /\ stage'[p] = NothingStaged
      /\ loaded'[p] = "none"
      /\ \A q \in Procs \ {p}: /\ phase'[q] = phase[q] /\ todo'[q] = todo[q]
                               /\ stage'[q] = stage[q] /\ pinned'[q] = pinned[q]
                               /\ loaded'[q] = loaded[q]
      /\ disturbed' = disturbed \ {p}
      /\ UNCHANGED <<envVars, file, lib, out, starts, short, broken>>
  BY DEF IInv, Shape, Leave
<1>2. /\ ~ Opened(p)'
      /\ \A q \in Procs \ {p}: Opened(q)' <=> Opened(q)
  BY <1>1 DEF Opened
<1>3. Shape'
  <2>1. /\ phase' \in [Procs -> Phases] /\ todo' \in [Procs -> SUBSET Shards]
        /\ loaded' \in [Procs -> LibStates]
    BY DEF IInv, Shape, Leave, Phases, LibStates
  <2>2. /\ stage' \in [Procs -> Halves]
        /\ pinned' \in [Procs -> [RamRows -> [Names -> Rows]]]
    BY NothingTyped DEF IInv, Shape, Leave
  <2> QED BY <1>1, <2>1, <2>2 DEF IInv, Shape
<1>4. \A x \in LayerExperts: /\ Waiting(p, x)' = {}
                             /\ \A name \in Names: ~ HasRow(p, x, name)'
  <2>1. Arrived(p)' = {}
    BY <1>2 DEF Arrived
  <2> QED BY <2>1 DEF Waiting, HasRow, KindsOf
<1>5. \A q \in Procs \ {p}, x \in LayerExperts:
         /\ Waiting(q, x)' = Waiting(q, x)
         /\ \A name \in Names: HasRow(q, x, name)' <=> HasRow(q, x, name)
  BY <1>1, <1>2, ArrivedSame
<1>6. FileShape'
  BY <1>1, <1>2 DEF IInv, FileShape
<1>7. StageInv'
  <2>1. \A q \in Procs \ {p}, x \in LayerExperts: stage[q][x] = Waiting(q, x)
    BY DEF IInv, StageInv
  <2>2. \A x \in LayerExperts: stage'[p][x] = Waiting(p, x)'
    BY <1>1, <1>4 DEF NothingStaged
  <2>3. \A q \in Procs \ {p}, x \in LayerExperts: stage'[q][x] = Waiting(q, x)'
    BY <1>1, <1>5, <2>1
  <2> QED BY <2>2, <2>3 DEF StageInv
<1>8. PinnedInv'
  BY <1>1, <1>4, <1>5 DEF IInv, PinnedInv
<1>9. Overlap'
  BY <1>1, <1>2 DEF IInv, Overlap
<1>10. FileInv'
  BY <1>1, <1>4, <1>5 DEF IInv, FileInv, InFile
<1>11. LibraryInv'
  BY <1>1 DEF IInv, LibraryInv
<1>12. TodoInv'
  BY <1>1 DEF IInv, TodoInv
<1>13. UnbrokenInv'
  BY <1>1 DEF IInv, UnbrokenInv, Building, FileFull, InFile
<1>14. StagingFits'
  BY <1>1 DEF IInv, StagingFits
<1> QED BY <1>3, <1>6, <1>7, <1>8, <1>9, <1>10, <1>11, <1>12, <1>13, <1>14 DEF IInv

-----------------------------------------------------------------------------
(* A shard is loaded.                                                      *)

\* A process takes one of the shards that are to come.
Takes(p, s) ==
    /\ phase[p] = "loading" /\ s \in todo[p]
    /\ todo' = [todo EXCEPT ![p] = @ \ {s}]
    /\ UNCHANGED <<absent, phase, disturbed>>

\* At most one row has become whole, in one process.
OnlyRow(p, x, name) ==
    \A q \in Procs, y \in LayerExperts, n \in Names:
       HasRow(q, y, n)' => \/ HasRow(q, y, n)
                           \/ q = p /\ y = x /\ n = name

LEMMA NextIsToCome ==
    ASSUME NEW p \in Procs, NEW s \in NextShards(p)
    PROVE  s \in todo[p]
BY DEF NextShards

LEMMA TakesOne ==
    ASSUME IInv, NEW p \in Procs, NEW s, Takes(p, s)
    PROVE  /\ Opened(p) /\ s \in Shards /\ s \notin Arrived(p)
           /\ Arrived(p)' = Arrived(p) \union {s}
           /\ \A q \in Procs: Opened(q)' <=> Opened(q)
           /\ \A q \in Procs \ {p}, x \in LayerExperts:
                 /\ Waiting(q, x)' = Waiting(q, x)
                 /\ \A name \in Names: HasRow(q, x, name)' <=> HasRow(q, x, name)
<1>1. /\ todo'[p] = todo[p] \ {s}
      /\ \A q \in Procs \ {p}: todo'[q] = todo[q]
      /\ phase[p] = "loading" /\ s \in todo[p] /\ todo[p] \subseteq Shards
      /\ absent' = absent /\ phase' = phase
  BY DEF IInv, Shape, Takes
<1>2. \A q \in Procs: Opened(q)' <=> Opened(q)
  BY <1>1 DEF Opened
<1>3. Opened(p)
  BY <1>1 DEF Opened
<1>4. s \notin absent
  BY <1>1 DEF IInv, TodoInv
<1>5. Arrived(p) = (Shards \ absent) \ todo[p]
  BY <1>3 DEF Arrived
<1>6. Arrived(p)' = (Shards \ absent) \ (todo[p] \ {s})
  BY <1>1, <1>2, <1>3 DEF Arrived
<1>7. \A q \in Procs \ {p}, x \in LayerExperts:
         /\ Waiting(q, x)' = Waiting(q, x)
         /\ \A name \in Names: HasRow(q, x, name)' <=> HasRow(q, x, name)
  BY <1>1, <1>2, ArrivedSame
<1> QED BY <1>1, <1>2, <1>3, <1>4, <1>5, <1>6, <1>7

\* A write pins its row and puts it in the file, and touches no other row.
LEMMA WriteKeeps ==
    ASSUME IInv, NEW p \in Procs, NEW x \in LayerExperts, NEW name \in Names,
           Opened(p), Write(p, x, name, Row(x, name)), OnlyRow(p, x, name),
           UNCHANGED <<phase, disturbed>>
    PROVE  /\ pinned' \in [Procs -> [RamRows -> [Names -> Rows]]]
           /\ short' \in 0 .. MaxShort
           /\ FileShape' /\ PinnedInv' /\ FileInv'
<1> DEFINE i == Place(x, name)
           row == Row(x, name)
<1>1. pinned' = IF x[2] < R THEN [pinned EXCEPT ![p][RamRow(x)][name] = row]
                ELSE pinned
  BY DEF Write
<1>2. pinned \in [Procs -> [RamRows -> [Names -> Rows]]]
  BY DEF IInv, Shape
<1>3. pinned' \in [Procs -> [RamRows -> [Names -> Rows]]]
  BY <1>1, <1>2, RowIsWhole, RamRowType
<1>4. short \in 0 .. MaxShort
  BY DEF IInv, Shape
<1>5. \/ /\ DOMAIN file' = DOMAIN file \union {i} /\ short' = short
         /\ file'[i] = row /\ \A j \in DOMAIN file \ {i}: file'[j] = file[j]
      \/ short' = short + 1 /\ short < MaxShort /\ DOMAIN file' \subseteq DOMAIN file \union {i}
  BY DEF Write
<1>6. short' \in 0 .. MaxShort /\ (short' = 0 => short = 0)
  BY <1>4, <1>5, Constants
<1>7. \A q \in Procs: Opened(q)' <=> Opened(q)
  BY DEF Opened
<1>8. FileShape'
  <2>1. DOMAIN file \subseteq Places
    BY DEF IInv, FileShape
  <2>2. i \in Places
    BY PlaceType
  <2>3. DOMAIN file' \subseteq Places
    BY <1>5, <2>1, <2>2
  <2> QED BY <2>3 DEF FileShape
<1>9. PinnedInv'
  <2> SUFFICES ASSUME NEW q \in Procs, NEW y \in LayerExperts, NEW n \in Names,
                      HasRow(q, y, n)', y[2] < R
               PROVE  pinned'[q][RamRow(y)][n] = Row(y, n)
    BY DEF PinnedInv
  <2>1. RamRow(y) \in RamRows /\ (x[2] < R => RamRow(x) \in RamRows)
    BY RamRowType
  <2>2. CASE q = p /\ y = x /\ n = name
    BY <1>1, <1>2, <2>1, <2>2
  <2>3. CASE ~ (q = p /\ y = x /\ n = name)
    <3>1. pinned[q][RamRow(y)][n] = Row(y, n)
      BY <2>3 DEF IInv, PinnedInv, OnlyRow
    <3>2. x[2] < R => ~ (q = p /\ RamRow(y) = RamRow(x) /\ n = name)
      BY <2>3, RamRowApart
    <3>3. pinned'[q][RamRow(y)][n] = pinned[q][RamRow(y)][n]
      BY <1>1, <1>2, <2>1, <3>2
    <3> QED BY <3>1, <3>3
  <2> QED BY <2>2, <2>3
<1>10. FileInv'
  <2> SUFFICES ASSUME NEW q \in Procs, NEW y \in LayerExperts, NEW n \in Names,
                      HasRow(q, y, n)', q \notin disturbed, short' = 0
               PROVE  Place(y, n) \in DOMAIN file' /\ file'[Place(y, n)] = Row(y, n)
    BY DEF FileInv, InFile
  <2> HIDE DEF i, row
  <2>1. /\ DOMAIN file' = DOMAIN file \union {i} /\ short = 0
        /\ file'[i] = row /\ \A j \in DOMAIN file \ {i}: file'[j] = file[j]
    BY <1>4, <1>5, <1>6
  <2>2. CASE y = x /\ n = name
    BY <2>1, <2>2 DEF i, row
  <2>3. CASE ~ (y = x /\ n = name)
    <3>1. HasRow(q, y, n)
      BY <2>3 DEF OnlyRow
    <3>2. Place(y, n) \in DOMAIN file /\ file[Place(y, n)] = Row(y, n)
      BY <2>1, <3>1 DEF IInv, FileInv, InFile
    <3>3. Place(y, n) # i
      BY <2>3, PlaceApart DEF i
    <3> QED BY <2>1, <3>2, <3>3
  <2> QED BY <2>2, <2>3
<1> QED BY <1>3, <1>6, <1>8, <1>9, <1>10

\* What a load leaves alone.
LEMMA TakeKeeps ==
    ASSUME IInv, NEW p \in Procs, NEW s, Takes(p, s),
           UNCHANGED <<envVars, libVars, starts, broken>>
    PROVE  /\ LibraryInv' /\ Overlap' /\ TodoInv' /\ UnbrokenInv' /\ StagingFits'
           /\ todo' \in [Procs -> SUBSET Shards]
<1> USE DEF envVars, libVars
<1>1. todo \in [Procs -> SUBSET Shards]
  BY DEF IInv, Shape
<1>2. todo' \in [Procs -> SUBSET Shards] /\ \A q \in Procs: todo'[q] \subseteq todo[q]
  BY <1>1 DEF Takes
<1>3. LibraryInv'
  BY DEF IInv, LibraryInv, Takes
<1>4. Overlap'
  BY DEF IInv, Overlap, Takes, Opened
<1>5. TodoInv'
  BY <1>2 DEF IInv, TodoInv, Takes
<1>6. UnbrokenInv'
  <2>1. phase[p] \in Building
    BY DEF Takes, Building
  <2>2. broken
    BY <2>1 DEF IInv, UnbrokenInv
  <2> QED BY <2>2 DEF UnbrokenInv
<1>7. StagingFits'
  BY DEF IInv, StagingFits, Takes
<1> QED BY <1>2, <1>3, <1>4, <1>5, <1>6, <1>7

LEMMA ShardType ==
    ASSUME NEW s \in Shards
    PROVE  /\ s[1] \in LayerExperts /\ s[2] \in {"w1", "w3", "w2"}
           /\ s = <<s[1], s[2]>>
BY DEF Shards

\* A row of w2 is its shard.
LEMMA LoadW2Keeps ==
    ASSUME IInv, NEW p \in Procs, LoadW2(p)
    PROVE  IInv'
<1>1. PICK s \in NextShards(p):
         /\ phase[p] = "loading" /\ s[2] = "w2"
         /\ todo' = [todo EXCEPT ![p] = @ \ {s}]
         /\ Write(p, s[1], "w2", <<s>>)
         /\ UNCHANGED <<envVars, libVars, stage, phase, starts, disturbed, broken>>
  BY DEF LoadW2
<1> DEFINE x == s[1]
<1>2. Takes(p, s)
  BY <1>1, NextIsToCome DEF Takes, envVars
<1>3. /\ Opened(p) /\ s \in Shards
      /\ Arrived(p)' = Arrived(p) \union {s}
      /\ \A q \in Procs \ {p}, y \in LayerExperts:
            /\ Waiting(q, y)' = Waiting(q, y)
            /\ \A n \in Names: HasRow(q, y, n)' <=> HasRow(q, y, n)
  BY <1>2, TakesOne
<1>4. x \in LayerExperts /\ s = <<x, "w2">> /\ "w2" \in Names
  BY <1>1, <1>3, ShardType DEF Names
<1>5. <<s>> = Row(x, "w2")
  BY <1>4 DEF Row
<1>6. \A y \in LayerExperts: HasRow(p, y, "w13")' <=> HasRow(p, y, "w13")
  BY <1>3, <1>4 DEF HasRow, KindsOf
<1>7. \A y \in LayerExperts: HasRow(p, y, "w2")' => HasRow(p, y, "w2") \/ y = x
  BY <1>3, <1>4 DEF HasRow, KindsOf
<1>8. OnlyRow(p, x, "w2")
  BY <1>3, <1>6, <1>7 DEF OnlyRow, Names
<1>9. /\ pinned' \in [Procs -> [RamRows -> [Names -> Rows]]]
      /\ short' \in 0 .. MaxShort
      /\ FileShape' /\ PinnedInv' /\ FileInv'
  BY <1>1, <1>3, <1>4, <1>5, <1>8, WriteKeeps
<1>10. StageInv'
  <2>1. \A y \in LayerExperts: Waiting(p, y)' = Waiting(p, y)
    BY <1>3, <1>4, <1>6 DEF Waiting
  <2>2. \A q \in Procs, y \in LayerExperts: Waiting(q, y)' = Waiting(q, y)
    BY <1>3, <2>1
  <2> QED BY <1>1, <2>2 DEF IInv, StageInv
<1>11. /\ LibraryInv' /\ Overlap' /\ TodoInv' /\ UnbrokenInv' /\ StagingFits'
       /\ todo' \in [Procs -> SUBSET Shards]
  BY <1>1, <1>2, TakeKeeps
<1>12. Shape'
  BY <1>1, <1>9, <1>11 DEF IInv, Shape, envVars, libVars
<1> QED BY <1>9, <1>10, <1>11, <1>12 DEF IInv

\* The two shards of a row of w13, by what is staged with one of them.
Other(x, s) == IF s = <<x, "w1">> THEN <<x, "w3">> ELSE <<x, "w1">>

\* What is staged with a shard that comes is its other half or nothing.
LEMMA StagedHalves ==
    ASSUME IInv, NEW p \in Procs, NEW x \in LayerExperts,
           NEW s \in {<<x, "w1">>, <<x, "w3">>}, s \notin Arrived(p)
    PROVE  stage[p][x] = IF Other(x, s) \in Arrived(p) THEN {Other(x, s)} ELSE {}
<1>1. stage[p][x] = Waiting(p, x)
  BY DEF IInv, StageInv
<1>2. ~ HasRow(p, x, "w13")
  <2>1. s[2] \in KindsOf("w13") /\ s = <<x, s[2]>>
    BY DEF KindsOf
  <2> QED BY <2>1 DEF HasRow
<1>3. Waiting(p, x) = {t \in Arrived(p): t \in {s, Other(x, s)}}
  BY <1>2 DEF Waiting, Other
<1> QED BY <1>1, <1>3

\* A row of w13 is written when its second half comes, in either order.
LEMMA LoadW13Keeps ==
    ASSUME IInv, NEW p \in Procs, LoadW13(p)
    PROVE  IInv'
<1> DEFINE Staged(t) == stage[p][StageKey(t[1])] \union {t}
           Half(t, kind) == CHOOSE u \in Staged(t): u[2] = kind
<1>1. PICK s \in NextShards(p):
         /\ phase[p] = "loading" /\ s[2] \in {"w1", "w3"}
         /\ todo' = [todo EXCEPT ![p] = @ \ {s}]
         /\ IF {t[2]: t \in Staged(s)} = {"w1", "w3"}
            THEN /\ stage' = [stage EXCEPT ![p][StageKey(s[1])] = {}]
                 /\ Write(p, s[1], "w13", <<Half(s, "w1"), Half(s, "w3")>>)
            ELSE /\ stage' = [stage EXCEPT ![p][StageKey(s[1])] = Staged(s)]
                 /\ UNCHANGED <<pinned, file, short>>
         /\ UNCHANGED <<envVars, libVars, phase, starts, disturbed, broken>>
  BY DEF LoadW13
<1> DEFINE x == s[1]
           o == Other(x, s)
<1>2. Takes(p, s)
  BY <1>1, NextIsToCome DEF Takes, envVars
<1>3. /\ Opened(p) /\ s \in Shards /\ s \notin Arrived(p)
      /\ Arrived(p)' = Arrived(p) \union {s}
      /\ \A q \in Procs: Opened(q)' <=> Opened(q)
      /\ \A q \in Procs \ {p}, y \in LayerExperts:
            /\ Waiting(q, y)' = Waiting(q, y)
            /\ \A n \in Names: HasRow(q, y, n)' <=> HasRow(q, y, n)
  BY <1>2, TakesOne
<1>4. x \in LayerExperts /\ s \in {<<x, "w1">>, <<x, "w3">>}
  BY <1>1, <1>3, ShardType
<1>5. /\ LibraryInv' /\ Overlap' /\ TodoInv' /\ UnbrokenInv' /\ StagingFits'
      /\ todo' \in [Procs -> SUBSET Shards]
  BY <1>1, <1>2, TakeKeeps
<1>6. stage \in [Procs -> Halves] /\ stage[p][x] = IF o \in Arrived(p) THEN {o} ELSE {}
  <2>1. stage \in [Procs -> Halves]
    BY DEF IInv, Shape
  <2> HIDE DEF x
  <2>2. stage[p][x] = IF Other(x, s) \in Arrived(p) THEN {Other(x, s)} ELSE {}
    BY <1>3, <1>4, StagedHalves
  <2> QED BY <2>1, <2>2
<1>7. /\ {s, o} = {<<x, "w1">>, <<x, "w3">>} /\ s # o /\ o \in Shards
      /\ s[1] = x /\ o[1] = x /\ {s[2], o[2]} = {"w1", "w3"} /\ s[2] # o[2]
  BY <1>4 DEF Other, Shards
<1>8. \A y \in LayerExperts: HasRow(p, y, "w2")' <=> HasRow(p, y, "w2")
  BY <1>3, <1>4 DEF HasRow, KindsOf
<1>9. \A y \in LayerExperts \ {x}:
         /\ HasRow(p, y, "w13")' <=> HasRow(p, y, "w13")
         /\ Waiting(p, y)' = Waiting(p, y)
  <2>1. \A y \in LayerExperts \ {x}: s \notin {<<y, "w1">>, <<y, "w3">>}
    BY <1>4
  <2>2. \A y \in LayerExperts \ {x}: HasRow(p, y, "w13")' <=> HasRow(p, y, "w13")
    BY <1>3, <2>1 DEF HasRow, KindsOf
  <2> QED BY <1>3, <2>1, <2>2 DEF Waiting
<1>10. HasRow(p, x, "w13")' <=> o \in Arrived(p)
  BY <1>3, <1>4, <1>7 DEF HasRow, KindsOf, Other
<1>11. StageKey(x) = x
  BY DEF StageKey
<1>12. CASE o \in Arrived(p)
  <2>1. Staged(s) = {s, o}
    BY <1>6, <1>11, <1>12
  <2>2. {t[2]: t \in Staged(s)} = {"w1", "w3"}
    BY <1>7, <2>1
  <2>3. Half(s, "w1") = <<x, "w1">> /\ Half(s, "w3") = <<x, "w3">>
    BY <1>4, <1>7, <2>1 DEF Other
  <2> HIDE DEF Staged, Half
  <2>4. /\ stage' = [stage EXCEPT ![p][x] = {}]
        /\ Write(p, x, "w13", Row(x, "w13"))
    BY <1>1, <1>11, <2>2, <2>3 DEF Row
  <2>5. OnlyRow(p, x, "w13")
    BY <1>3, <1>8, <1>9 DEF OnlyRow, Names
  <2>6. /\ pinned' \in [Procs -> [RamRows -> [Names -> Rows]]]
        /\ short' \in 0 .. MaxShort
        /\ FileShape' /\ PinnedInv' /\ FileInv'
    BY <1>1, <1>3, <1>4, <2>4, <2>5, WriteKeeps DEF Names
  <2>7. stage' \in [Procs -> Halves]
    BY <1>6, <2>4 DEF Halves
  <2>8. Shape'
    BY <1>1, <1>5, <2>6, <2>7 DEF IInv, Shape, envVars, libVars
  <2>9. StageInv'
    <3>1. Waiting(p, x)' = {} /\ stage'[p][x] = {}
      BY <1>4, <1>6, <1>10, <1>12, <2>4 DEF Waiting, Halves
    <3>2. \A q \in Procs, y \in LayerExperts: ~ (q = p /\ y = x) =>
             stage'[q][y] = stage[q][y] /\ Waiting(q, y)' = Waiting(q, y)
      BY <1>3, <1>6, <1>9, <2>4 DEF Halves
    <3>3. \A q \in Procs, y \in LayerExperts: stage[q][y] = Waiting(q, y)
      BY DEF IInv, StageInv
    <3>4. ASSUME NEW q \in Procs, NEW y \in LayerExperts
          PROVE  stage'[q][y] = Waiting(q, y)'
      <4>1. CASE q = p /\ y = x
        BY <3>1, <4>1
      <4>2. CASE ~ (q = p /\ y = x)
        BY <3>2, <3>3, <4>2
      <4> QED BY <4>1, <4>2
    <3> QED BY <3>4 DEF StageInv
  <2> QED BY <1>5, <2>6, <2>8, <2>9 DEF IInv
<1>13. CASE o \notin Arrived(p)
  <2>1. Staged(s) = {s}
    BY <1>6, <1>11, <1>13
  <2>2. {t[2]: t \in Staged(s)} # {"w1", "w3"}
    BY <1>7, <2>1
  <2> HIDE DEF Staged, Half
  <2>3. /\ stage' = [stage EXCEPT ![p][x] = {s}]
        /\ UNCHANGED <<pinned, file, short>>
    BY <1>1, <1>11, <2>1, <2>2
  <2>4. \A q \in Procs, y \in LayerExperts, n \in Names:
           HasRow(q, y, n)' => HasRow(q, y, n)
    BY <1>3, <1>8, <1>9, <1>10, <1>13 DEF Names
  <2>5. PinnedInv' /\ FileInv'
    BY <1>1, <2>3, <2>4 DEF IInv, PinnedInv, FileInv, InFile
  <2>6. FileShape'
    BY <1>3, <2>3 DEF IInv, FileShape
  <2>7. stage' \in [Procs -> Halves]
    BY <1>3, <1>6, <2>3 DEF Halves
  <2>8. Shape'
    BY <1>1, <1>5, <2>3, <2>7 DEF IInv, Shape, envVars, libVars
  <2>9. StageInv'
    <3>1. Waiting(p, x)' = {s} /\ stage'[p][x] = {s}
      <4>1. ~ HasRow(p, x, "w13")'
        BY <1>10, <1>13
      <4>2. Waiting(p, x)' = {t \in Arrived(p) \union {s}: t \in {s, o}}
        BY <1>3, <1>7, <4>1 DEF Waiting
      <4> QED BY <1>4, <1>6, <1>13, <2>3, <4>2 DEF Halves
    <3>2. \A q \in Procs, y \in LayerExperts: ~ (q = p /\ y = x) =>
             stage'[q][y] = stage[q][y] /\ Waiting(q, y)' = Waiting(q, y)
      BY <1>3, <1>6, <1>9, <2>3 DEF Halves
    <3>3. \A q \in Procs, y \in LayerExperts: stage[q][y] = Waiting(q, y)
      BY DEF IInv, StageInv
    <3>4. ASSUME NEW q \in Procs, NEW y \in LayerExperts
          PROVE  stage'[q][y] = Waiting(q, y)'
      <4>1. CASE q = p /\ y = x
        BY <3>1, <4>1
      <4>2. CASE ~ (q = p /\ y = x)
        BY <3>2, <3>3, <4>2
      <4> QED BY <4>1, <4>2
    <3> QED BY <3>4 DEF StageInv
  <2> QED BY <1>5, <2>5, <2>6, <2>8, <2>9 DEF IInv
<1> QED BY <1>12, <1>13

-----------------------------------------------------------------------------
(* Theorems.                                                               *)

LEMMA StepKeeps ==
    ASSUME IInv, [Next]_vars
    PROVE  IInv'
<1>1. ASSUME NEW p \in Procs,
             \/ Check(p) \/ Open(p)
             \/ Compile(p) \/ Compiled(p) \/ Replace(p) \/ LoadLibrary(p)
             \/ LoadW13(p) \/ LoadW2(p)
             \/ Setup(p) \/ Leave(p)
      PROVE  IInv'
  BY <1>1, CheckKeeps, OpenKeeps, BuildKeeps, LoadW13Keeps, LoadW2Keeps,
     SetupKeeps, LeaveKeeps
<1>2. CASE UNCHANGED vars
  <2> USE <1>2 DEF vars, envVars, libVars, loadVars
  <2>1. StoreInv'
    <3>1. \A p \in Procs: Opened(p)' <=> Opened(p)
      BY DEF Opened
    <3> QED BY <3>1, StoresSame DEF IInv, StoreInv
  <2>2. Shape'
    BY DEF IInv, Shape
  <2>3. LibraryInv' /\ TodoInv' /\ StagingFits'
    BY DEF IInv, LibraryInv, TodoInv, StagingFits
  <2>4. UnbrokenInv'
    BY DEF IInv, UnbrokenInv, FileFull, InFile
  <2> QED BY <2>1, <2>2, <2>3, <2>4 DEF IInv, StoreInv
<1> QED BY <1>1, <1>2 DEF Next

\* In every reachable state what a process has stored follows from the shards
\* it has had, and only a disturbed process shares the file with another one.
THEOREM LoaderInvariant == Spec => []IInv
<1>1. Init => IInv
  BY InitHolds
<1>2. IInv /\ [Next]_vars => IInv'
  BY StepKeeps
<1> QED BY <1>1, <1>2, PTL DEF Spec

\* The variables keep their types: no row outside the places of the file, for
\* any numbers of layers, experts and processes (store.py: the offset of write).
THEOREM LoaderTypeCorrect == Spec => []TypeOK
<1>1. IInv => TypeOK
  BY DEF IInv, Shape, FileShape, TypeOK, LibStates
<1> QED BY <1>1, LoaderInvariant, PTL

\* However many processes build the library at once, and whenever they die, no
\* process loads one that is not whole (native.py: os.replace).
THEOREM LibraryWhole == Spec => []LibraryIsWhole
<1>1. IInv => LibraryIsWhole
  BY DEF IInv, LibraryInv, LibraryIsWhole
<1> QED BY <1>1, LoaderInvariant, PTL

\* A ready engine has pinned the rows of the experts below R, has every row in
\* the file unless it was disturbed or a write was cut short, and has nothing
\* staged but halves that stay alone, whatever the order of the shards
\* (experts.py: weight_loader; store.py: write).
THEOREM ReadyStored == Spec => []ReadyIsStored
<1>1. ASSUME IInv PROVE ReadyIsStored
  <2> SUFFICES ASSUME NEW p \in Procs, NEW x \in LayerExperts, phase[p] = "ready"
               PROVE  /\ \A name \in Names: Complete(x, name) =>
                            /\ x[2] < R => pinned[p][RamRow(x)][name] = Row(x, name)
                            /\ p \notin disturbed /\ short = 0 =>
                                  file[Place(x, name)] = Row(x, name)
                      /\ Complete(x, "w13") => stage[p][x] = {}
    BY DEF ReadyIsStored
  <2>1. Arrived(p) = Shards \ absent
    BY <1>1 DEF IInv, TodoInv, Arrived, Opened
  <2>2. \A name \in Names: Complete(x, name) => HasRow(p, x, name)
    BY <2>1 DEF Complete, HasRow, KindsOf, Shards
  <2>3. \A name \in Names: Complete(x, name) =>
           /\ x[2] < R => pinned[p][RamRow(x)][name] = Row(x, name)
           /\ p \notin disturbed /\ short = 0 => file[Place(x, name)] = Row(x, name)
    BY <1>1, <2>2 DEF IInv, PinnedInv, FileInv, InFile
  <2>4. Complete(x, "w13") => Waiting(p, x) = {}
    BY <2>2 DEF Waiting, Names
  <2>5. stage[p][x] = Waiting(p, x)
    BY <1>1 DEF IInv, StageInv
  <2> QED BY <2>3, <2>4, <2>5
<1> QED BY <1>1, LoaderInvariant, PTL

\* An engine is ready exactly when the working slab holds the decode staging of
\* both names, for every size of row and number of slots (experts.py:294).
THEOREM ReadyFits == Spec => []StagingFits
<1>1. IInv => StagingFits
  BY DEF IInv
<1> QED BY <1>1, LoaderInvariant, PTL

\* A full file is as long as a paging file has to be.
LEMMA FullHasSize ==
    ASSUME DOMAIN file \subseteq Places, FileFull
    PROVE  SizeOf(file) = FullSize
<1>1. PICK m \in Nat: m = Layers * E
  BY Constants
<1>2. 2 * Layers * E = 2 * m /\ m >= 1
  BY <1>1, Constants
<1>3. Places = 0 .. (2 * m - 1)
  BY <1>2 DEF Places
<1>4. DOMAIN file = Places
  <2>1. \A i \in Places: i \in DOMAIN file
    BY PlaceOnto DEF FileFull, InFile
  <2> QED BY <2>1
<1>5. \A i \in Places: file[i] # Cut
  BY PlaceOnto, RowIsWhole DEF FileFull, InFile
<1>6. Max(DOMAIN file) = 2 * m - 1
  <2>1. /\ 2 * m - 1 \in DOMAIN file
        /\ \A i \in DOMAIN file: 2 * m - 1 >= i /\ i \in Int
    BY <1>2, <1>3, <1>4
  <2>2. \A k \in DOMAIN file: (\A i \in DOMAIN file: k >= i) => k = 2 * m - 1
    BY <2>1
  <2> QED BY <2>1, <2>2 DEF Max
<1>7. DOMAIN file # {} /\ file[2 * m - 1] # Cut
  BY <1>2, <1>3, <1>4, <1>5
<1>8. SizeOf(file) = 2 * (2 * m - 1) + 2
  BY <1>6, <1>7 DEF SizeOf
<1>9. Cardinality(Places) = 2 * m
  BY <1>2, <1>3, FS_Interval
<1> QED BY <1>8, <1>9 DEF FullSize

\* No start is refused over a file that a load left whole: it has the size that
\* the check of a start asks for (store.py: Store.__init__).
THEOREM RefusalsAreJust == Spec => RefusedOnlyIfBroken
<1>1. ASSUME IInv, [Next]_vars
      PROVE  \A p \in Procs: phase[p] = "off" /\ phase'[p] = "refused" => broken
  <2> SUFFICES ASSUME NEW p \in Procs, phase[p] = "off", phase'[p] = "refused",
                      ~ broken
               PROVE  FALSE
    OBVIOUS
  <2>1. Check(p)
    <3>1. PICK q \in Procs:
             \/ Check(q) \/ Open(q)
             \/ Compile(q) \/ Compiled(q) \/ Replace(q) \/ LoadLibrary(q)
             \/ LoadW13(q) \/ LoadW2(q)
             \/ Setup(q) \/ Leave(q)
      BY <1>1 DEF Next, vars
    <3>2. phase \in [Procs -> Phases]
      BY <1>1 DEF IInv, Shape
    <3>3. ~ (LoadW13(q) \/ LoadW2(q))
      BY DEF LoadW13, LoadW2
    <3>4. ~ (Open(q) \/ Compile(q) \/ Compiled(q) \/ Replace(q) \/ LoadLibrary(q))
      BY <3>2 DEF Open, Compile, Compiled, Replace, LoadLibrary
    <3>5. ~ (Setup(q) \/ Leave(q))
      BY <3>2 DEF Setup, Leave
    <3>6. Check(q) => q = p
      BY <3>2 DEF Check
    <3> QED BY <3>1, <3>3, <3>4, <3>5, <3>6
  <2>2. file # NoFile /\ SizeOf(file) # FullSize
    BY <1>1, <2>1 DEF Check, IInv, Shape
  <2>3. DOMAIN file \subseteq Places /\ FileFull
    BY <1>1, <2>2 DEF IInv, UnbrokenInv
  <2> QED BY <2>2, <2>3, FullHasSize
<1> QED BY <1>1, LoaderInvariant, PTL DEF Spec, RefusedOnlyIfBroken
=============================================================================
