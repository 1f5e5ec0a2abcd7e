---------------------------- MODULE RefillProofs ----------------------------
(***************************************************************************)
(* Proofs about RefillSchedule, for every word size, code length limit and *)
(* chunk size with Limit <= Word: the decoder refills where the encoder    *)
(* says, takes as many words as it laid out, and its buffer stays in range.*)
(***************************************************************************)
EXTENDS RefillSchedule, TLAPS

\* A lane knows how many bits it holds: those of the words it took, less those
\* of the symbols it decoded.
Accounting ==
    /\ level + before[i] = Word * taken
    /\ level <= Word + Limit - 2

\* The bits before a symbol only grow.
Growing == \A a \in 0 .. i: \A b \in a .. i: before[a] <= before[b]

\* The words taken were due when they were taken, the next one is not due at
\* any symbol decoded so far.
Due ==
    /\ \A w \in 0 .. (taken - 1):
          /\ before[refills[w]] >= Threshold(w)
          /\ \A h \in 0 .. (refills[w] - 1): before[h] < Threshold(w)
    /\ \A h \in 0 .. (i - 1): before[h] < Threshold(taken)
    /\ i > 0 => taken > 0

IInv == TypeOK /\ Accounting /\ Growing /\ Due

\* A word more is a word's bits more.
LEMMA OneWordMore ==
    ASSUME NEW a \in Nat, NEW w \in Nat
    PROVE  a * (w + 1) = a * w + a /\ a * w \in Nat
  BY SMT

LEMMA Quotient ==
    ASSUME NEW a \in Nat \ {0}, NEW b \in Nat, NEW w \in Nat,
           a * w <= b, b < a * w + a
    PROVE  b \div a = w
<1>1. b \div a \in Int /\ a * (b \div a) <= b /\ b < a * (b \div a) + a
  BY SMT
<1>2. CASE b \div a < w
  <2>1. a * (b \div a + 1) <= a * w
    BY <1>1, <1>2, SMT
  <2> QED
    BY <1>1, <2>1, SMT
<1>3. CASE b \div a > w
  <2>1. a * (w + 1) <= a * (b \div a)
    BY <1>1, <1>3, SMT
  <2> QED
    BY <1>1, <2>1, SMT
<1> QED
  BY <1>1, <1>2, <1>3

LEMMA InitIInv == ASSUME WordHoldsCode PROVE Init => IInv
<1> SUFFICES ASSUME Init PROVE IInv
  OBVIOUS
<1> USE DEF Init, WordHoldsCode
<1>1. TypeOK
  BY DEF TypeOK
<1>2. Accounting
  BY DEF Accounting
<1>3. Growing
  BY DEF Growing
<1>4. Due
  BY DEF Due
<1> QED
  BY <1>1, <1>2, <1>3, <1>4 DEF IInv

LEMMA StepIInv == ASSUME WordHoldsCode PROVE IInv /\ [Step]_vars => IInv'
<1> SUFFICES ASSUME IInv, [Step]_vars PROVE IInv'
  OBVIOUS
<1>1. CASE UNCHANGED vars
  BY <1>1 DEF IInv, TypeOK, Accounting, Growing, Due, Threshold, vars
<1>2. ASSUME NEW n \in 1 .. Limit, Consume(n), Refill(n) \/ Enough(n)
      PROVE  IInv'
  <2> USE <1>2 DEF IInv, WordHoldsCode
  <2>1. /\ i \in Nat /\ i < Chunk /\ i' = i + 1 /\ n \in Nat
        /\ before' \in [0 .. i' -> Nat]
        /\ \A j \in 0 .. i: before'[j] = before[j]
        /\ before'[i'] = before[i] + n
        /\ before[i] \in Nat /\ level \in Nat /\ taken \in Nat
    BY DEF Consume, TypeOK
  <2>2. /\ Word * (taken + 1) = Word * taken + Word
        /\ Word * taken \in Nat
    BY <2>1, OneWordMore
  <2>3. Growing'
    <3> SUFFICES ASSUME NEW a \in 0 .. i', NEW b \in a .. i'
                 PROVE  before'[a] <= before'[b]
      BY DEF Growing
    <3>1. CASE b <= i
      BY <3>1, <2>1 DEF Growing, TypeOK
    <3>2. CASE b = i' /\ a = i'
      BY <3>2, <2>1
    <3>3. CASE b = i' /\ a <= i
      <4>1. before[a] <= before[i] /\ before[a] \in Nat
        BY <3>3, <2>1 DEF Growing, TypeOK
      <4> QED
        BY <4>1, <3>3, <2>1
    <3> QED
      BY <3>1, <3>2, <3>3, <2>1
  <2>4. CASE Refill(n)
    <3>1. /\ level < Limit /\ level' = level + Word - n /\ taken' = taken + 1
          /\ refills' \in [0 .. taken -> 0 .. i]
          /\ \A w \in 0 .. (taken - 1): refills'[w] = refills[w]
          /\ refills'[taken] = i
      <4>1. /\ level < Limit /\ level' = level + Word - n /\ taken' = taken + 1
            /\ refills' = [w \in 0 .. taken |-> IF w < taken THEN refills[w] ELSE i]
        BY <2>4 DEF Refill
      <4>2. refills \in [0 .. (taken - 1) -> 0 .. (i - 1)]
        BY DEF TypeOK
      <4> HIDE DEF IInv, WordHoldsCode
      <4>3. \A w \in 0 .. taken: w < taken => refills[w] \in 0 .. i
        BY <2>1, <4>2
      <4>4. i \in 0 .. i
        BY <2>1
      <4>5. refills' \in [0 .. taken -> 0 .. i]
        BY <4>1, <4>3, <4>4
      <4>6. \A w \in 0 .. (taken - 1): w \in 0 .. taken /\ w < taken
        BY <2>1
      <4>7. taken \in 0 .. taken /\ ~ taken < taken
        BY <2>1
      <4> QED BY <4>1, <4>5, <4>6, <4>7
    <3>2. TypeOK'
      BY <3>1, <2>1 DEF TypeOK
    <3>3. Accounting'
      <4>1. level' + before'[i'] = Word * (taken + 1)
        <5>1. level + before[i] = Word * taken
          BY DEF Accounting
        <5>2. level' + before'[i'] = level + before[i] + Word
          BY <3>1, <2>1
        <5> QED
          BY <5>1, <5>2, <2>2
      <4>2. level' <= Word + Limit - 2
        BY <3>1, <2>1
      <4> QED
        BY <4>1, <4>2, <3>1 DEF Accounting
    <3>4. before[i] >= Threshold(taken)
      BY <3>1, <2>1, <2>2 DEF Accounting, Threshold
    <3>5. \A h \in 0 .. i: before[h] < Threshold(taken + 1)
      <4>1. \A h \in 0 .. i: before[h] <= before[i] /\ before[h] \in Nat
        BY <2>1 DEF Growing, TypeOK
      <4>2. before[i] < Threshold(taken + 1)
        BY <2>1, <2>2 DEF Accounting, Threshold
      <4> QED
        BY <4>1, <4>2, <2>1, <2>2 DEF Threshold
    <3>6. Due'
      <4>1. ASSUME NEW w \in 0 .. (taken' - 1)
            PROVE  /\ before'[refills'[w]] >= Threshold(w)
                   /\ \A h \in 0 .. (refills'[w] - 1): before'[h] < Threshold(w)
        <5>1. CASE w = taken
          BY <5>1, <3>1, <3>4, <2>1 DEF Due, TypeOK
        <5>2. CASE w # taken
          <6>1. w \in 0 .. (taken - 1) /\ refills'[w] = refills[w]
            BY <5>2, <4>1, <3>1, <2>1
          <6>2. refills[w] \in 0 .. (i - 1)
            BY <6>1 DEF TypeOK
          <6>3. \A h \in 0 .. refills[w]: before'[h] = before[h]
            BY <6>2, <2>1
          <6>4. /\ before[refills[w]] >= Threshold(w)
                /\ \A h \in 0 .. (refills[w] - 1): before[h] < Threshold(w)
            BY <6>1 DEF Due
          <6> HIDE DEF IInv, WordHoldsCode
          <6>5. before'[refills[w]] >= Threshold(w)
            BY <6>2, <6>3, <6>4, <2>1
          <6>6. ASSUME NEW h \in 0 .. (refills[w] - 1)
                PROVE  before'[h] < Threshold(w)
            <7>1. h \in 0 .. refills[w]
              BY <6>2, <6>6, <2>1
            <7> QED
              BY <7>1, <6>3, <6>4, <6>6
          <6> QED
            BY <6>1, <6>5, <6>6
        <5> QED
          BY <5>1, <5>2
      <4>2. \A h \in 0 .. (i' - 1): before'[h] < Threshold(taken')
        BY <3>1, <3>5, <2>1
      <4>3. i' > 0 => taken' > 0
        BY <3>1, <2>1
      <4> QED
        BY <4>1, <4>2, <4>3 DEF Due, Threshold
    <3> QED
      BY <2>3, <3>2, <3>3, <3>6
  <2>5. CASE Enough(n)
    <3>1. /\ level >= Limit /\ level' = level - n
          /\ taken' = taken /\ refills' = refills
      BY <2>5 DEF Enough
    <3>2. TypeOK'
      BY <3>1, <2>1 DEF TypeOK
    <3>3. Accounting'
      BY <3>1, <2>1, <2>2 DEF Accounting
    <3>4. before[i] < Threshold(taken)
      BY <3>1, <2>1, <2>2 DEF Accounting, Threshold
    <3>5. taken > 0
      BY <3>1, <2>1, <2>2 DEF Accounting
    <3>6. Due'
      <4>1. ASSUME NEW w \in 0 .. (taken' - 1)
            PROVE  /\ before'[refills'[w]] >= Threshold(w)
                   /\ \A h \in 0 .. (refills'[w] - 1): before'[h] < Threshold(w)
        <5>1. w \in 0 .. (taken - 1) /\ refills'[w] = refills[w]
          BY <4>1, <3>1
        <5>2. refills[w] \in 0 .. (i - 1)
          BY <5>1 DEF TypeOK
        <5>3. \A h \in 0 .. refills[w]: before'[h] = before[h]
          BY <5>2, <2>1
        <5>4. /\ before[refills[w]] >= Threshold(w)
              /\ \A h \in 0 .. (refills[w] - 1): before[h] < Threshold(w)
          BY <5>1 DEF Due
        <5> HIDE DEF IInv, WordHoldsCode
        <5>5. before'[refills[w]] >= Threshold(w)
          BY <5>2, <5>3, <5>4, <2>1
        <5>6. ASSUME NEW h \in 0 .. (refills[w] - 1)
              PROVE  before'[h] < Threshold(w)
          <6>1. h \in 0 .. refills[w]
            BY <5>2, <5>6, <2>1
          <6> QED
            BY <6>1, <5>3, <5>4, <5>6
        <5> QED
          BY <5>1, <5>5, <5>6
      <4>2. \A h \in 0 .. (i' - 1): before'[h] < Threshold(taken')
        <5>1. \A h \in 0 .. (i - 1): before[h] < Threshold(taken)
          BY DEF Due
        <5> HIDE DEF IInv, WordHoldsCode
        <5>2. \A h \in 0 .. i: before[h] < Threshold(taken) /\ before'[h] = before[h]
          BY <2>1, <3>4, <5>1
        <5>3. taken' = taken /\ i' - 1 = i
          BY <3>1, <2>1
        <5> QED BY <5>2, <5>3 DEF Threshold
      <4> QED
        BY <4>1, <4>2, <3>1, <3>5 DEF Due, Threshold
    <3> QED
      BY <2>3, <3>2, <3>3, <3>6
  <2> QED
    BY <2>4, <2>5
<1> QED
  BY <1>1, <1>2 DEF Step

LEMMA IInvSchedule ==
    ASSUME WordHoldsCode
    PROVE  IInv => TypeOK /\ RefillsAtThresholds /\ TakesAllWords /\ BufferInRange
<1> SUFFICES ASSUME IInv
             PROVE  TypeOK /\ RefillsAtThresholds /\ TakesAllWords /\ BufferInRange
  OBVIOUS
<1> USE DEF IInv, WordHoldsCode
<1>1. RefillsAtThresholds
  BY DEF RefillsAtThresholds, RefillPoint, Due
<1>2. BufferInRange
  BY DEF BufferInRange, Accounting, TypeOK
<1>3. TakesAllWords
  <2> SUFFICES ASSUME i = Chunk
               PROVE  taken = (before[Chunk - 1] + (Limit - 1)) \div Word + 1
    BY DEF TakesAllWords
  <2> DEFINE last == Chunk - 1
             w == taken - 1
             bits == before[last] + (Limit - 1)
  <2>1. last \in 0 .. (i - 1) /\ before[last] \in Nat /\ w \in Nat /\ taken = w + 1
    BY DEF TypeOK, Due
  <2>2. before[last] < Threshold(taken)
    BY <2>1 DEF Due
  <2>3. refills[w] \in 0 .. last /\ before[refills[w]] >= Threshold(w)
    BY <2>1 DEF Due, TypeOK
  <2>4. before[refills[w]] <= before[last] /\ before[refills[w]] \in Nat
    BY <2>1, <2>3 DEF Growing, TypeOK
  <2>5. Word * (w + 1) = Word * w + Word /\ Word * w \in Nat
    BY <2>1, OneWordMore
  <2>6. Word * w <= bits /\ bits < Word * w + Word /\ bits \in Nat
    BY <2>1, <2>2, <2>3, <2>4, <2>5 DEF Threshold
  <2>7. bits \div Word = w
    <3> HIDE DEF bits, w
    <3> QED
      BY <2>1, <2>6, Quotient
  <2> QED
    BY <2>1, <2>7
<1> QED
  BY <1>1, <1>2, <1>3

\* The words a lane takes are the words the encoder laid out for it, in time for
\* every lookup, and the 64-bit buffer is never too small (codec.py:19 and 154).
THEOREM RefillsAgree ==
    ASSUME WordHoldsCode
    PROVE  Spec => [](RefillsAtThresholds /\ TakesAllWords /\ BufferInRange)
<1>1. Init => IInv
  BY InitIInv
<1>2. IInv /\ [Step]_vars => IInv'
  BY StepIInv
<1>3. IInv => RefillsAtThresholds /\ TakesAllWords /\ BufferInRange
  BY IInvSchedule
<1> QED
  BY <1>1, <1>2, <1>3, PTL DEF Spec
=============================================================================
