----------------------------- MODULE CodecProofs -----------------------------
(***************************************************************************)
(* Proofs about Codec, for every alphabet, word size, chunk and row: the   *)
(* codes fill the table and are as cheap as any, the lanes of a group      *)
(* refill when the encoder said they would, take the words it put there    *)
(* for them, and expand the record to the row.                             *)
(***************************************************************************)
EXTENDS Codec, FiniteSetTheorems, FunctionTheorems, WellFoundedInduction, TLAPS

-----------------------------------------------------------------------------
(* Induction over data, as the search for a least counterexample.          *)

LEMMA LeastNumber ==
    ASSUME NEW A \in SUBSET Nat, A # {}
    PROVE  \E n \in A: \A m \in A: n <= m
<1>1. IsWellFoundedOn(OpToRel(<, Nat), Nat)
  BY NatLessThanWellFounded
<1>2. PICK n \in A: \A m \in A: <<m, n>> \notin OpToRel(<, Nat)
  BY <1>1, WFMin
<1>3. \A m \in A: ~ m < n
  BY <1>2 DEF OpToRel
<1> QED BY <1>3

LEMMA SmallestSet ==
    ASSUME NEW S, IsFiniteSet(S), NEW A \in SUBSET SUBSET S, A # {}
    PROVE  \E T \in A: \A U \in A: ~ (U \subseteq T /\ U # T)
<1>1. IsWellFoundedOn(StrictSubsetOrdering(S), SUBSET S)
  BY FS_StrictSubsetOrderingWellFounded, FS_FiniteSubsetsOfFinite
<1>2. PICK T \in A: \A U \in A: <<U, T>> \notin StrictSubsetOrdering(S)
  BY <1>1, WFMin
<1>3. ASSUME NEW U \in A, U \subseteq T, U # T PROVE FALSE
  <2>1. <<U, T>> \in (SUBSET S) \X (SUBSET S)
    OBVIOUS
  <2>2. <<U, T>> \in StrictSubsetOrdering(S)
    BY <1>3, <2>1 DEF StrictSubsetOrdering
  <2> QED BY <1>2, <1>3, <2>2
<1> QED BY <1>3

-----------------------------------------------------------------------------
(* Sums.                                                                   *)

Choice(s) == CHOOSE x \in s: TRUE

\* The function by which SumFunctionOnSet is defined.
Summing(f, it, S) ==
    it = [s \in SUBSET S |-> IF s = {} THEN 0 ELSE f[Choice(s)] + it[s \ {Choice(s)}]]

LEMMA ChoiceIn ==
    ASSUME NEW s, s # {}
    PROVE  Choice(s) \in s
BY DEF Choice

LEMMA SummingUnique ==
    ASSUME NEW f, NEW S1, NEW S2, NEW it1, NEW it2,
           Summing(f, it1, S1), Summing(f, it2, S2),
           NEW S, IsFiniteSet(S), S \subseteq S1, S \subseteq S2
    PROVE  it1[S] = it2[S]
<1> DEFINE A == {T \in SUBSET S: it1[T] # it2[T]}
<1> SUFFICES ASSUME A # {} PROVE FALSE
  OBVIOUS
<1>1. PICK T \in A: \A U \in A: ~ (U \subseteq T /\ U # T)
  <2>1. A \in SUBSET SUBSET S
    OBVIOUS
  <2> HIDE DEF A
  <2> QED BY <2>1, SmallestSet
<1>2. T \subseteq S /\ it1[T] # it2[T]
  BY <1>1
<1>3. it1[T] = IF T = {} THEN 0 ELSE f[Choice(T)] + it1[T \ {Choice(T)}]
  BY <1>2 DEF Summing
<1>4. it2[T] = IF T = {} THEN 0 ELSE f[Choice(T)] + it2[T \ {Choice(T)}]
  BY <1>2 DEF Summing
<1>5. T # {}
  BY <1>2, <1>3, <1>4
<1>6. it1[T \ {Choice(T)}] = it2[T \ {Choice(T)}]
  BY <1>1, <1>2, <1>5, ChoiceIn
<1> QED BY <1>2, <1>3, <1>4, <1>6

LEMMA SummingExists ==
    ASSUME NEW f, NEW S, IsFiniteSet(S)
    PROVE  \E it: Summing(f, it, S)
<1> DEFINE A == {T \in SUBSET S: ~ \E it: Summing(f, it, T)}
<1> SUFFICES ASSUME A # {} PROVE FALSE
  OBVIOUS
<1>1. PICK T \in A: \A U \in A: ~ (U \subseteq T /\ U # T)
  <2>1. A \in SUBSET SUBSET S
    OBVIOUS
  <2> HIDE DEF A
  <2> QED BY <2>1, SmallestSet
<1>2. T \subseteq S /\ ~ \E it: Summing(f, it, T)
  BY <1>1
<1> DEFINE Sub(u) == CHOOSE it: Summing(f, it, u)
           it == [s \in SUBSET T |-> IF s = {} THEN 0
                                     ELSE f[Choice(s)] + Sub(s \ {Choice(s)})[s \ {Choice(s)}]]
<1>3. \A u: u \subseteq T /\ u # T => Summing(f, Sub(u), u)
  <2>1. \A u: u \subseteq T /\ u # T => \E g: Summing(f, g, u)
    BY <1>1, <1>2
  <2> QED BY <2>1
<1> HIDE DEF A, Sub
<1>4. ASSUME NEW u, u \subseteq T, u # T
      PROVE  it[u] = Sub(u)[u]
  <2>1. CASE u = {}
    <3>1. it[u] = 0
      BY <2>1
    <3>2. Sub(u)[u] = 0
      BY <1>3, <1>4, <2>1 DEF Summing
    <3> QED BY <3>1, <3>2
  <2>2. CASE u # {}
    <3> DEFINE w == u \ {Choice(u)}
    <3>1. w \subseteq u /\ w # u
      BY <2>2, ChoiceIn
    <3>2. Summing(f, Sub(u), u) /\ Summing(f, Sub(w), w)
      BY <1>3, <1>4, <3>1
    <3>3. IsFiniteSet(w)
      BY <1>2, <1>4, <3>1, FS_Subset
    <3>4. Sub(u)[w] = Sub(w)[w]
      BY <3>1, <3>2, <3>3, SummingUnique
    <3>5. Sub(u)[u] = f[Choice(u)] + Sub(u)[w]
      BY <2>2, <3>2 DEF Summing
    <3>6. it[u] = f[Choice(u)] + Sub(w)[w]
      BY <1>4, <2>2
    <3> QED BY <3>4, <3>5, <3>6
  <2> QED BY <2>1, <2>2
<1>5. \A s \in SUBSET T: s # {} => it[s \ {Choice(s)}] = Sub(s \ {Choice(s)})[s \ {Choice(s)}]
  BY <1>4, ChoiceIn
<1>6. \A s \in SUBSET T: it[s] = IF s = {} THEN 0 ELSE f[Choice(s)] + it[s \ {Choice(s)}]
  BY <1>5
<1>7. Summing(f, it, T)
  BY <1>6 DEF Summing
<1> QED BY <1>2, <1>7

LEMMA SumIs ==
    ASSUME NEW f, NEW S, IsFiniteSet(S), NEW it, NEW S1, S \subseteq S1, Summing(f, it, S1)
    PROVE  SumFunctionOnSet(f, S) = it[S]
<1> DEFINE g == CHOOSE h: Summing(f, h, S)
<1>1. Summing(f, g, S)
  BY SummingExists
<1>2. SumFunctionOnSet(f, S) = g[S]
  BY DEF SumFunctionOnSet, FoldFunctionOnSet, MapThenFoldSet, Choice, Summing
<1> HIDE DEF g
<1> QED BY <1>1, <1>2, SummingUnique

LEMMA SumEmpty ==
    ASSUME NEW f
    PROVE  SumFunctionOnSet(f, {}) = 0
<1>1. IsFiniteSet({})
  BY FS_EmptySet
<1>2. PICK it: Summing(f, it, {})
  BY <1>1, SummingExists
<1>3. it[{}] = 0
  BY <1>2 DEF Summing
<1> QED BY <1>1, <1>2, <1>3, SumIs

LEMMA SumChoice ==
    ASSUME NEW f, NEW S, IsFiniteSet(S), S # {}
    PROVE  SumFunctionOnSet(f, S)
              = f[Choice(S)] + SumFunctionOnSet(f, S \ {Choice(S)})
<1>1. PICK it: Summing(f, it, S)
  BY SummingExists
<1>2. it[S] = f[Choice(S)] + it[S \ {Choice(S)}]
  BY <1>1 DEF Summing
<1>3. IsFiniteSet(S \ {Choice(S)})
  BY FS_Subset
<1>4. SumFunctionOnSet(f, S) = it[S]
  BY <1>1, SumIs
<1>5. SumFunctionOnSet(f, S \ {Choice(S)}) = it[S \ {Choice(S)}]
  BY <1>1, <1>3, SumIs
<1> QED BY <1>2, <1>4, <1>5

\* A sum of numbers is one, whatever the set.
LEMMA SumType ==
    ASSUME NEW S, IsFiniteSet(S), NEW f, \A x \in S: f[x] \in Nat
    PROVE  SumFunctionOnSet(f, S) \in Nat
<1> DEFINE A == {T \in SUBSET S: SumFunctionOnSet(f, T) \notin Nat}
<1> SUFFICES ASSUME A # {} PROVE FALSE
  OBVIOUS
<1>1. PICK T \in A: \A U \in A: ~ (U \subseteq T /\ U # T)
  <2>1. A \in SUBSET SUBSET S
    OBVIOUS
  <2> HIDE DEF A
  <2> QED BY <2>1, SmallestSet
<1>2. T \subseteq S /\ SumFunctionOnSet(f, T) \notin Nat /\ IsFiniteSet(T)
  BY <1>1, FS_Subset
<1>3. T # {}
  BY <1>2, SumEmpty
<1>4. Choice(T) \in T
  BY <1>3, ChoiceIn
<1>5. SumFunctionOnSet(f, T \ {Choice(T)}) \in Nat
  BY <1>1, <1>2, <1>4
<1>6. SumFunctionOnSet(f, T) = f[Choice(T)] + SumFunctionOnSet(f, T \ {Choice(T)})
  BY <1>2, <1>3, SumChoice
<1>7. f[Choice(T)] \in Nat
  BY <1>2, <1>4
<1> QED BY <1>2, <1>5, <1>6, <1>7

\* Any element can be taken out of a sum.
LEMMA SumRemove ==
    ASSUME NEW S, IsFiniteSet(S), NEW f, \A x \in S: f[x] \in Nat, NEW x \in S
    PROVE  SumFunctionOnSet(f, S) = f[x] + SumFunctionOnSet(f, S \ {x})
<1> DEFINE A == {T \in SUBSET S:
                    \E y \in T: SumFunctionOnSet(f, T) # f[y] + SumFunctionOnSet(f, T \ {y})}
<1> SUFFICES ASSUME A # {} PROVE FALSE
  <2>1. S \notin A
    OBVIOUS
  <2> QED BY <2>1
<1>1. PICK T \in A: \A U \in A: ~ (U \subseteq T /\ U # T)
  <2>1. A \in SUBSET SUBSET S
    OBVIOUS
  <2> HIDE DEF A
  <2> QED BY <2>1, SmallestSet
<1>2. PICK y \in T: SumFunctionOnSet(f, T) # f[y] + SumFunctionOnSet(f, T \ {y})
  BY <1>1
<1>3. T \subseteq S /\ IsFiniteSet(T) /\ T # {}
  BY <1>1, FS_Subset
<1>4. PICK c: c = Choice(T)
  OBVIOUS
<1>5. c \in T /\ SumFunctionOnSet(f, T) = f[c] + SumFunctionOnSet(f, T \ {c})
  BY <1>3, <1>4, ChoiceIn, SumChoice
<1>6. c # y
  BY <1>2, <1>5
<1>7. T \ {c} \notin A /\ T \ {y} \notin A
  BY <1>1, <1>5, <1>6
<1>8. SumFunctionOnSet(f, T \ {c}) = f[y] + SumFunctionOnSet(f, (T \ {c}) \ {y})
  BY <1>2, <1>3, <1>6, <1>7
<1>9. SumFunctionOnSet(f, T \ {y}) = f[c] + SumFunctionOnSet(f, (T \ {y}) \ {c})
  BY <1>3, <1>5, <1>6, <1>7
<1>10. (T \ {c}) \ {y} = (T \ {y}) \ {c}
  OBVIOUS
<1>11. PICK r \in Nat: r = SumFunctionOnSet(f, (T \ {c}) \ {y})
  <2>1. IsFiniteSet((T \ {c}) \ {y})
    BY <1>3, FS_Subset
  <2>2. \A z \in (T \ {c}) \ {y}: f[z] \in Nat
    BY <1>3
  <2> QED BY <2>1, <2>2, SumType
<1>12. f[c] \in Nat /\ f[y] \in Nat
  BY <1>3, <1>5, <1>2
<1>13. SumFunctionOnSet(f, T) = f[c] + (f[y] + r)
  BY <1>5, <1>8, <1>11
<1>14. SumFunctionOnSet(f, T \ {y}) = f[c] + r
  BY <1>9, <1>10, <1>11
<1> HIDE DEF A
<1> QED BY <1>2, <1>12, <1>13, <1>14

\* Numbers added to some terms, each a multiple of a term of another sum, add
\* that multiple of the sum.
Extended(S, f, e, h, m, A) ==
    \A x \in S: e[x] = f[x] + (IF x \in A THEN h[x] * m ELSE 0)

LEMMA SumExtended ==
    ASSUME NEW S, IsFiniteSet(S), NEW f, \A x \in S: f[x] \in Nat,
           NEW e, \A x \in S: e[x] \in Nat,
           NEW h, \A x \in S: h[x] \in Nat, NEW m \in Nat,
           NEW A \in SUBSET S, Extended(S, f, e, h, m, A)
    PROVE  SumFunctionOnSet(e, S) = SumFunctionOnSet(f, S) + SumFunctionOnSet(h, A) * m
<1> DEFINE Same(T) == SumFunctionOnSet(e, T)
                        = SumFunctionOnSet(f, T) + SumFunctionOnSet(h, A \cap T) * m
           B == {T \in SUBSET S: ~ Same(T)}
<1> SUFFICES ASSUME B # {} PROVE FALSE
  <2>1. Same(S)
    OBVIOUS
  <2>2. A \cap S = A
    OBVIOUS
  <2> QED BY <2>1, <2>2
<1>1. PICK T \in B: \A U \in B: ~ (U \subseteq T /\ U # T)
  <2>1. B \in SUBSET SUBSET S
    OBVIOUS
  <2> HIDE DEF B
  <2> QED BY <2>1, SmallestSet
<1>2. T \subseteq S /\ IsFiniteSet(T) /\ ~ Same(T)
  BY <1>1, FS_Subset
<1>3. T # {}
  <2>1. SUFFICES ASSUME T = {} PROVE FALSE
    OBVIOUS
  <2>2. A \cap T = {}
    BY <2>1
  <2> QED BY <1>2, <2>1, <2>2, SumEmpty
<1>4. PICK x \in T: TRUE
  BY <1>3
<1> DEFINE U == T \ {x}
<1>5. Same(U) /\ U \subseteq S /\ IsFiniteSet(U) /\ IsFiniteSet(A \cap T) /\ IsFiniteSet(A \cap U)
  BY <1>1, <1>2, <1>4, FS_Subset
<1>6. SumFunctionOnSet(e, T) = e[x] + SumFunctionOnSet(e, U)
  BY <1>2, <1>4, SumRemove
<1>7. SumFunctionOnSet(f, T) = f[x] + SumFunctionOnSet(f, U)
  BY <1>2, <1>4, SumRemove
<1>8. SumFunctionOnSet(h, A \cap T)
        = (IF x \in A THEN h[x] ELSE 0) + SumFunctionOnSet(h, A \cap U)
  <2>1. CASE x \in A
    <3>1. (A \cap T) \ {x} = A \cap U /\ x \in A \cap T
      BY <1>4, <2>1
    <3>2. \A y \in A \cap T: h[y] \in Nat
      OBVIOUS
    <3> QED BY <1>5, <2>1, <3>1, <3>2, SumRemove
  <2>2. CASE x \notin A
    <3>1. A \cap T = A \cap U
      BY <2>2
    <3>2. \A y \in A \cap U: h[y] \in Nat
      OBVIOUS
    <3>3. PICK n \in Nat: n = SumFunctionOnSet(h, A \cap U)
      BY <1>5, <3>2, SumType
    <3>4. SumFunctionOnSet(h, A \cap T) = n
      BY <3>1, <3>3, Zenon
    <3>5. SumFunctionOnSet(h, A \cap T) = 0 + n
      BY <3>4
    <3> QED BY <2>2, <3>3, <3>5
  <2> QED BY <2>1, <2>2
<1>9. PICK a \in Nat: a = SumFunctionOnSet(h, A \cap U)
  BY <1>5, SumType
<1>10. PICK b \in Nat: b = SumFunctionOnSet(f, U)
  BY <1>5, SumType
<1>11. PICK y \in Nat: y = h[x]
  BY <1>2, <1>4
<1>12. e[x] = f[x] + (IF x \in A THEN y * m ELSE 0) /\ f[x] \in Nat
  BY <1>2, <1>4, <1>11 DEF Extended
<1>13. SumFunctionOnSet(e, U) = b + a * m
  BY <1>5, <1>9, <1>10
<1>14. SumFunctionOnSet(h, A \cap T) = (IF x \in A THEN y ELSE 0) + a
  BY <1>8, <1>9, <1>11
<1>15. (y + a) * m = y * m + a * m /\ y * m \in Nat /\ a * m \in Nat
  OBVIOUS
<1>16. Same(T)
  <2> HIDE DEF U
  <2>1. CASE x \in A
    BY <1>6, <1>7, <1>10, <1>12, <1>13, <1>14, <1>15, <2>1
  <2>2. CASE x \notin A
    BY <1>6, <1>7, <1>10, <1>12, <1>13, <1>14, <1>15, <2>2
  <2> QED BY <2>1, <2>2
<1> QED BY <1>2, <1>16

\* Terms that are 0 do not count.
LEMMA SumWithoutZeros ==
    ASSUME NEW S, IsFiniteSet(S), NEW f, \A x \in S: f[x] \in Nat,
           NEW A \in SUBSET S, \A x \in S \ A: f[x] = 0
    PROVE  SumFunctionOnSet(f, S) = SumFunctionOnSet(f, A)
<1> DEFINE B == {T \in SUBSET S: SumFunctionOnSet(f, T) # SumFunctionOnSet(f, A \cap T)}
<1> SUFFICES ASSUME B # {} PROVE FALSE
  <2>1. A \cap S = A
    OBVIOUS
  <2> QED BY <2>1
<1>1. PICK T \in B: \A U \in B: ~ (U \subseteq T /\ U # T)
  <2>1. B \in SUBSET SUBSET S
    OBVIOUS
  <2> HIDE DEF B
  <2> QED BY <2>1, SmallestSet
<1>2. T \subseteq S /\ IsFiniteSet(T) /\ SumFunctionOnSet(f, T) # SumFunctionOnSet(f, A \cap T)
  BY <1>1, FS_Subset
<1>3. PICK x \in T: TRUE
  <2>1. SUFFICES ASSUME T = {} PROVE FALSE
    OBVIOUS
  <2>2. A \cap T = T
    BY <2>1
  <2> QED BY <1>2, <2>2
<1>4. SumFunctionOnSet(f, T \ {x}) = SumFunctionOnSet(f, A \cap (T \ {x}))
  BY <1>1, <1>2, <1>3
<1>5. SumFunctionOnSet(f, T) = f[x] + SumFunctionOnSet(f, T \ {x})
  BY <1>2, <1>3, SumRemove
<1>6. CASE x \in A
  <2>1. (A \cap T) \ {x} = A \cap (T \ {x}) /\ x \in A \cap T
    BY <1>3, <1>6
  <2>2. IsFiniteSet(A \cap T) /\ \A y \in A \cap T: f[y] \in Nat
    BY <1>2, FS_Subset
  <2>3. SumFunctionOnSet(f, A \cap T) = f[x] + SumFunctionOnSet(f, (A \cap T) \ {x})
    BY <2>1, <2>2, SumRemove
  <2> QED BY <1>2, <1>4, <1>5, <2>1, <2>3
<1>7. CASE x \notin A
  <2>1. A \cap T = A \cap (T \ {x}) /\ f[x] = 0
    BY <1>2, <1>3, <1>7
  <2>2. IsFiniteSet(T \ {x}) /\ \A y \in T \ {x}: f[y] \in Nat
    BY <1>2, FS_Subset
  <2>3. PICK n \in Nat: n = SumFunctionOnSet(f, T \ {x})
    BY <2>2, SumType
  <2> QED BY <1>2, <1>4, <1>5, <2>1, <2>3
<1> QED BY <1>6, <1>7

\* A sum of multiples is one.
LEMMA SumMultiple ==
    ASSUME NEW S, IsFiniteSet(S), NEW f, NEW d \in Nat,
           \A x \in S: \E k \in Nat: f[x] = k * d
    PROVE  \E k \in Nat: SumFunctionOnSet(f, S) = k * d
<1> DEFINE A == {T \in SUBSET S: ~ \E k \in Nat: SumFunctionOnSet(f, T) = k * d}
<1> SUFFICES ASSUME A # {} PROVE FALSE
  OBVIOUS
<1>1. PICK T \in A: \A U \in A: ~ (U \subseteq T /\ U # T)
  <2>1. A \in SUBSET SUBSET S
    OBVIOUS
  <2> HIDE DEF A
  <2> QED BY <2>1, SmallestSet
<1>2. T \subseteq S /\ IsFiniteSet(T) /\ ~ \E k \in Nat: SumFunctionOnSet(f, T) = k * d
  BY <1>1, FS_Subset
<1>3. T # {}
  <2>1. SumFunctionOnSet(f, {}) = 0 * d
    BY SumEmpty
  <2> QED BY <1>2, <2>1
<1>4. PICK x \in T: x = Choice(T)
  BY <1>3, ChoiceIn
<1>5. PICK k \in Nat: SumFunctionOnSet(f, T \ {x}) = k * d
  BY <1>1, <1>2, <1>4
<1>6. PICK l \in Nat: f[x] = l * d
  BY <1>2, <1>4
<1>7. SumFunctionOnSet(f, T) = l * d + k * d
  BY <1>2, <1>3, <1>4, <1>5, <1>6, SumChoice
<1>8. l * d + k * d = (l + k) * d /\ l + k \in Nat
  OBVIOUS
<1> QED BY <1>2, <1>7, <1>8

LEMMA SumSame ==
    ASSUME NEW S, IsFiniteSet(S), NEW f, \A x \in S: f[x] \in Nat,
           NEW e, \A x \in S: e[x] = f[x]
    PROVE  SumFunctionOnSet(e, S) = SumFunctionOnSet(f, S)
<1>1. PICK A \in SUBSET S, m \in Nat: A = {} /\ m = 0
  OBVIOUS
<1>2. Extended(S, f, e, f, m, A)
  BY <1>1 DEF Extended
<1>3. \A x \in S: e[x] \in Nat
  OBVIOUS
<1>4. SumFunctionOnSet(e, S) = SumFunctionOnSet(f, S) + SumFunctionOnSet(f, A) * m
  BY <1>2, <1>3, SumExtended
<1>5. SumFunctionOnSet(f, A) = 0 /\ SumFunctionOnSet(f, S) \in Nat
  BY <1>1, SumEmpty, SumType
<1> QED BY <1>1, <1>4, <1>5

LEMMA SumScaled ==
    ASSUME NEW S, IsFiniteSet(S), NEW f, \A x \in S: f[x] \in Nat, NEW m \in Nat,
           NEW e, \A x \in S: e[x] = f[x] * m
    PROVE  SumFunctionOnSet(e, S) = SumFunctionOnSet(f, S) * m
<1> DEFINE z == [x \in S |-> 0]
<1>1. \A x \in S: z[x] \in Nat /\ e[x] \in Nat /\ z[x] = 0 /\ \E k \in Nat: z[x] = k * 0
  <2> SUFFICES ASSUME NEW x \in S
               PROVE  z[x] \in Nat /\ e[x] \in Nat /\ z[x] = 0 /\ \E k \in Nat: z[x] = k * 0
    OBVIOUS
  <2>1. f[x] * m \in Nat
    OBVIOUS
  <2>2. 0 = 0 * 0 /\ 0 \in Nat
    OBVIOUS
  <2> QED BY <2>1, <2>2
<1>2. Extended(S, z, e, f, m, S)
  <2> SUFFICES ASSUME NEW x \in S PROVE e[x] = z[x] + f[x] * m
    BY DEF Extended
  <2>1. f[x] * m \in Nat
    OBVIOUS
  <2> QED BY <1>1, <2>1
<1> HIDE DEF z
<1>3. SumFunctionOnSet(e, S) = SumFunctionOnSet(z, S) + SumFunctionOnSet(f, S) * m
  BY <1>1, <1>2, SumExtended
<1>4. PICK k \in Nat: SumFunctionOnSet(z, S) = k * 0
  BY <1>1, SumMultiple
<1>5. SumFunctionOnSet(f, S) * m \in Nat
  BY SumType
<1> QED BY <1>3, <1>4, <1>5

LEMMA SumUnion ==
    ASSUME NEW A, IsFiniteSet(A), NEW B, IsFiniteSet(B), A \cap B = {},
           NEW f, \A x \in A \union B: f[x] \in Nat
    PROVE  /\ SumFunctionOnSet(f, A \union B) = SumFunctionOnSet(f, A) + SumFunctionOnSet(f, B)
           /\ SumFunctionOnSet(f, A) \in Nat /\ SumFunctionOnSet(f, B) \in Nat
<1> DEFINE S == A \union B
           z == [x \in S |-> IF x \in A THEN f[x] ELSE 0]
<1>1. IsFiniteSet(S)
  BY FS_Union
<1>2. A \in SUBSET S /\ B \in SUBSET S
  OBVIOUS
<1>3. /\ \A x \in S: z[x] \in Nat /\ f[x] \in Nat
      /\ \A x \in S \ A: z[x] = 0
      /\ \A x \in A: z[x] = f[x] /\ f[x] \in Nat
      /\ \A x \in B: f[x] \in Nat
  OBVIOUS
<1>4. Extended(S, z, f, f, 1, B)
  BY DEF Extended
<1> HIDE DEF z, S
<1>5. SumFunctionOnSet(f, S) = SumFunctionOnSet(z, S) + SumFunctionOnSet(f, B) * 1
  BY <1>1, <1>2, <1>3, <1>4, SumExtended
<1>6. SumFunctionOnSet(z, S) = SumFunctionOnSet(z, A)
  BY <1>1, <1>2, <1>3, SumWithoutZeros
<1>7. SumFunctionOnSet(z, A) = SumFunctionOnSet(f, A)
  BY <1>3, SumSame
<1>8. SumFunctionOnSet(f, A) \in Nat /\ SumFunctionOnSet(f, B) \in Nat
  BY <1>3, SumType
<1>9. SumFunctionOnSet(f, S) = SumFunctionOnSet(f, A) + SumFunctionOnSet(f, B)
  BY <1>5, <1>6, <1>7, <1>8
<1> QED BY <1>8, <1>9 DEF S

\* Two elements taken out of a sum.
LEMMA SumTwo ==
    ASSUME NEW S, IsFiniteSet(S), NEW f, \A x \in S: f[x] \in Nat,
           NEW a \in S, NEW b \in S, a # b
    PROVE  /\ SumFunctionOnSet(f, S) = f[a] + f[b] + SumFunctionOnSet(f, S \ {a, b})
           /\ SumFunctionOnSet(f, S \ {a, b}) \in Nat
           /\ IsFiniteSet(S \ {a, b})
<1> DEFINE T == S \ {a}
<1>1. IsFiniteSet(T) /\ b \in T /\ T \ {b} = S \ {a, b} /\ \A x \in T: f[x] \in Nat
  BY FS_Subset
<1>2. SumFunctionOnSet(f, S) = f[a] + SumFunctionOnSet(f, T)
  BY SumRemove
<1> HIDE DEF T
<1>3. SumFunctionOnSet(f, T) = f[b] + SumFunctionOnSet(f, T \ {b})
  BY <1>1, SumRemove
<1>4. SumFunctionOnSet(f, S \ {a, b}) = SumFunctionOnSet(f, T \ {b})
  BY <1>1, Zenon
<1>5. IsFiniteSet(S \ {a, b}) /\ \A x \in S \ {a, b}: f[x] \in Nat
  BY FS_Subset
<1>6. SumFunctionOnSet(f, S \ {a, b}) \in Nat
  BY <1>5, SumType
<1>7. f[a] \in Nat /\ f[b] \in Nat
  OBVIOUS
<1> QED BY <1>2, <1>3, <1>4, <1>5, <1>6, <1>7

\* A sum does not depend on the names of what is summed.
LEMMA SumRenamed ==
    ASSUME NEW S, IsFiniteSet(S), NEW T, NEW g \in [S -> T],
           \A x, y \in S: g[x] = g[y] => x = y,
           \A z \in T: \E x \in S: g[x] = z,
           NEW f, \A z \in T: f[z] \in Nat, NEW e, \A x \in S: e[x] = f[g[x]]
    PROVE  IsFiniteSet(T) /\ SumFunctionOnSet(f, T) = SumFunctionOnSet(e, S)
<1> DEFINE Image(U) == {g[x]: x \in U}
           A == {U \in SUBSET S: ~ (/\ IsFiniteSet(Image(U))
                                    /\ SumFunctionOnSet(f, Image(U)) = SumFunctionOnSet(e, U))}
<1>1. SUFFICES ASSUME A # {} PROVE FALSE
  <2>1. S \notin A
    BY <1>1
  <2>2. Image(S) = T
    OBVIOUS
  <2> HIDE DEF Image
  <2>3. IsFiniteSet(Image(S)) /\ SumFunctionOnSet(f, Image(S)) = SumFunctionOnSet(e, S)
    BY <2>1
  <2> QED BY <2>2, <2>3, Zenon
<1>2. PICK U \in A: \A V \in A: ~ (V \subseteq U /\ V # U)
  <2>1. A \in SUBSET SUBSET S
    OBVIOUS
  <2> HIDE DEF A
  <2> QED BY <1>1, <2>1, SmallestSet
<1>3. /\ U \in SUBSET S
      /\ ~ (IsFiniteSet(Image(U)) /\ SumFunctionOnSet(f, Image(U)) = SumFunctionOnSet(e, U))
  BY <1>2
<1>4. CASE U = {}
  <2>1. Image(U) = {}
    BY <1>4
  <2> HIDE DEF Image
  <2>2. IsFiniteSet(Image(U)) /\ SumFunctionOnSet(f, Image(U)) = 0
    BY <2>1, FS_EmptySet, SumEmpty
  <2> QED BY <1>3, <1>4, <2>2, SumEmpty
<1>5. CASE U # {}
  <2>1. PICK x \in U: TRUE
    BY <1>5
  <2> DEFINE V == U \ {x}
  <2>2. V \in SUBSET S /\ V \subseteq U /\ V # U
    BY <1>3, <2>1
  <2>3. V \notin A
    <3> HIDE DEF A, V
    <3> QED BY <1>2, <2>2
  <2>4. IsFiniteSet(Image(V)) /\ SumFunctionOnSet(f, Image(V)) = SumFunctionOnSet(e, V)
    BY <2>2, <2>3
  <2>5. Image(U) = Image(V) \union {g[x]} /\ g[x] \notin Image(V)
    BY <1>3, <2>1
  <2>6. \A z \in Image(U): f[z] \in Nat
    BY <1>3
  <2>7. IsFiniteSet(U) /\ \A y \in U: e[y] \in Nat
    BY <1>3, FS_Subset
  <2>8. e[x] = f[g[x]]
    BY <1>3, <2>1
  <2> HIDE DEF Image
  <2>9. IsFiniteSet(Image(U))
    <3>1. IsFiniteSet(Image(V) \union {g[x]})
      BY <2>4, FS_AddElement
    <3> QED BY <2>5, <3>1, Zenon
  <2>10. Image(U) \ {g[x]} = Image(V) /\ g[x] \in Image(U)
    BY <2>5
  <2>11. SumFunctionOnSet(f, Image(U)) = f[g[x]] + SumFunctionOnSet(f, Image(U) \ {g[x]})
    BY <2>6, <2>9, <2>10, SumRemove
  <2>12. SumFunctionOnSet(e, U) = e[x] + SumFunctionOnSet(e, V)
    BY <2>1, <2>7, SumRemove
  <2>13. SumFunctionOnSet(f, Image(U) \ {g[x]}) = SumFunctionOnSet(f, Image(V))
    BY <2>10, Zenon
  <2> QED BY <1>3, <2>4, <2>8, <2>9, <2>11, <2>12, <2>13
<1> QED BY <1>4, <1>5

-----------------------------------------------------------------------------
(* Powers of two.                                                          *)

LEMMA MaxBitsType ==
    /\ MaxBits \in Nat /\ Word \in Nat /\ Limit \in Nat \ {0} /\ Limit <= Word
    /\ Word <= MaxBits /\ Chunk \in Nat \ {0}
<1>1. Limit # 0
  <2>1. SUFFICES ASSUME Limit = 0 PROVE FALSE
    OBVIOUS
  <2>2. 2 ^ 0 = 1
    OBVIOUS
  <2>3. 2 ^ 0 >= NumSymbols /\ NumSymbols \in Nat /\ NumSymbols >= 2
    BY <2>1, CodeAssumption
  <2> QED BY <2>2, <2>3
<1>2. PICK w \in Nat: w = Word
  BY GeometryAssumption
<1>3. PICK c \in Nat \ {0}: c = Chunk
  BY GeometryAssumption
<1>4. w * (c + 1) = w * c + w /\ w * c \in Nat
  OBVIOUS
<1> QED BY <1>1, <1>2, <1>3, <1>4, CodeAssumption, GeometryAssumption DEF MaxBits

LEMMA PowType ==
    ASSUME NEW n \in 0 .. MaxBits
    PROVE  2 ^ n \in Nat \ {0}
BY PowersAssumption

LEMMA PowAdd ==
    ASSUME NEW m \in Nat, NEW n \in Nat, m + n <= MaxBits
    PROVE  2 ^ (m + n) = 2 ^ m * 2 ^ n
<1> DEFINE A == {k \in Nat: m + k <= MaxBits /\ 2 ^ (m + k) # 2 ^ m * 2 ^ k}
<1> SUFFICES ASSUME A # {} PROVE FALSE
  OBVIOUS
<1>1. PICK k \in A: \A j \in A: k <= j
  <2>1. A \in SUBSET Nat
    OBVIOUS
  <2> HIDE DEF A
  <2> QED BY <2>1, LeastNumber
<1>2. k \in Nat /\ m + k <= MaxBits /\ 2 ^ (m + k) # 2 ^ m * 2 ^ k
  BY <1>1
<1>3. PICK x \in Nat: x = 2 ^ m
  BY <1>2, PowType, MaxBitsType
<1>4. k # 0
  <2>1. SUFFICES ASSUME k = 0 PROVE FALSE
    OBVIOUS
  <2>2. 2 ^ 0 = 1 /\ m + k = m
    BY <2>1
  <2> QED BY <1>2, <1>3, <2>1, <2>2
<1>5. PICK j \in Nat: j + 1 = k
  BY <1>2, <1>4
<1>6. 2 ^ (m + j) = 2 ^ m * 2 ^ j
  <2>1. j \notin A
    BY <1>1, <1>2, <1>5
  <2>2. m + j <= MaxBits
    BY <1>2, <1>5, MaxBitsType
  <2> QED BY <1>5, <2>1, <2>2
<1>7. m + j \in 0 .. MaxBits /\ j \in 0 .. MaxBits /\ (m + j) + 1 = m + k
  BY <1>2, <1>5, MaxBitsType
<1>8. 2 ^ (m + k) = 2 * 2 ^ (m + j) /\ 2 ^ k = 2 * 2 ^ j
  BY <1>5, <1>7, PowersAssumption
<1>9. PICK y \in Nat: y = 2 ^ j
  BY <1>7, PowType
<1>10. 2 * (x * y) = x * (2 * y)
  OBVIOUS
<1> QED BY <1>2, <1>3, <1>6, <1>8, <1>9, <1>10

\* A larger power is a multiple of a smaller one.
LEMMA PowMultiple ==
    ASSUME NEW m \in Nat, NEW n \in Nat, m <= n, n <= MaxBits
    PROVE  \E k \in Nat \ {0}: 2 ^ n = k * 2 ^ m
<1>1. PICK d \in Nat: n = m + d
  <2>1. n - m \in Nat /\ n = m + (n - m)
    OBVIOUS
  <2> QED BY <2>1
<1>2. 2 ^ n = 2 ^ m * 2 ^ d
  BY <1>1, PowAdd
<1>3. PICK x \in Nat: x = 2 ^ m
  BY PowType, MaxBitsType
<1>4. PICK y \in Nat \ {0}: y = 2 ^ d
  BY <1>1, PowType, MaxBitsType
<1>5. x * y = y * x
  OBVIOUS
<1> QED BY <1>2, <1>3, <1>4, <1>5

-----------------------------------------------------------------------------
(* Positions, chunks, lanes.                                               *)

\* Quotient and remainder are unique.
LEMMA DivMod ==
    ASSUME NEW n \in Nat \ {0}, NEW k \in Nat, NEW r \in 0 .. (n - 1)
    PROVE  (k * n + r) \div n = k /\ (k * n + r) % n = r
<1>1. PICK q \in Nat: q = k * n + r
  BY SMT
<1>2. PICK d \in Int: d = q \div n
  BY <1>1, SMT
<1>3. q = d * n + (q % n) /\ q % n \in 0 .. (n - 1)
  BY <1>1, <1>2, SMT
<1>4. PICK m \in 0 .. (n - 1): m = q % n
  BY <1>3
<1>5. k * n + r = d * n + m
  BY <1>1, <1>3, <1>4
<1>6. d = k
  <2>1. CASE d < k
    <3>1. PICK e \in Nat: k = d + e + 1
      BY <2>1, SMT
    <3>2. k * n = d * n + e * n + n /\ e * n \in Nat
      BY <3>1, SMT
    <3> QED BY <1>5, <3>2, SMT
  <2>2. CASE d > k
    <3>1. PICK e \in Nat: d = k + e + 1
      BY <2>2, SMT
    <3>2. d * n = k * n + e * n + n /\ e * n \in Nat
      BY <3>1, SMT
    <3> QED BY <1>5, <3>2, SMT
  <2> QED BY <2>1, <2>2
<1>7. q \div n = k /\ q % n = r
  BY <1>2, <1>4, <1>5, <1>6
<1>8. (k * n + r) \div n = q \div n /\ (k * n + r) % n = q % n
  BY <1>1, Zenon
<1> QED BY <1>7, <1>8, Zenon

\* A number below m * n has a quotient below m.
LEMMA DivBelow ==
    ASSUME NEW n \in Nat \ {0}, NEW m \in Nat, NEW q \in 0 .. (m * n - 1)
    PROVE  /\ q \div n \in 0 .. (m - 1) /\ q % n \in 0 .. (n - 1)
           /\ q = (q \div n) * n + (q % n)
<1>1. PICK d \in Nat: d = q \div n
  BY SMT
<1>2. q = d * n + (q % n) /\ q % n \in 0 .. (n - 1)
  BY <1>1, SMT
<1>3. d < m
  <2>1. SUFFICES ASSUME d >= m PROVE FALSE
    OBVIOUS
  <2>2. d * n >= m * n
    BY <2>1, SMT
  <2> QED BY <1>2, <2>2, SMT
<1> QED BY <1>1, <1>2, <1>3

\* A pair of digits is below the product of the bases.
LEMMA PackBelow ==
    ASSUME NEW n \in Nat \ {0}, NEW m \in Nat, NEW k \in 0 .. (m - 1), NEW r \in 0 .. (n - 1)
    PROVE  k * n + r \in 0 .. (m * n - 1)
<1>1. PICK d \in Nat: m = k + d + 1
  BY SMT
<1>2. m * n = k * n + d * n + n /\ k * n \in Nat /\ d * n \in Nat
  BY <1>1, SMT
<1> QED BY <1>2

LEMMA LaneOfChunk ==
    ASSUME NEW g \in GroupIds, NEW l \in LaneIds
    PROVE  /\ g * Lanes + l \in Chunks
           /\ (g * Lanes + l) \div Lanes = g /\ (g * Lanes + l) % Lanes = l
<1>1. Lanes \in Nat \ {0} /\ Groups \in Nat /\ g \in 0 .. (Groups - 1) /\ l \in 0 .. (Lanes - 1)
  BY GeometryAssumption DEF GroupIds, LaneIds
<1>2. (g * Lanes + l) \div Lanes = g /\ (g * Lanes + l) % Lanes = l
  BY <1>1, DivMod
<1> QED BY <1>1, <1>2, PackBelow DEF Chunks

LEMMA ChunkOfLane ==
    ASSUME NEW c \in Chunks
    PROVE  /\ c \div Lanes \in GroupIds /\ c % Lanes \in LaneIds
           /\ c = (c \div Lanes) * Lanes + (c % Lanes)
<1>1. Lanes \in Nat \ {0} /\ Groups \in Nat
  BY GeometryAssumption
<1> QED BY <1>1, DivBelow DEF Chunks, GroupIds, LaneIds

LEMMA ChunksType == Groups * Lanes \in Nat /\ IsFiniteSet(Chunks) /\ Chunks \subseteq Nat
<1>1. Groups * Lanes \in Nat
  BY GeometryAssumption
<1> QED BY <1>1, FS_Interval DEF Chunks

LEMMA StepOfPosition ==
    ASSUME NEW c \in Chunks, NEW i \in Steps
    PROVE  /\ c * Chunk + i \in Positions
           /\ (c * Chunk + i) \div Chunk = c /\ (c * Chunk + i) % Chunk = i
<1>1. /\ Chunk \in Nat \ {0} /\ Groups * Lanes \in Nat
      /\ c \in 0 .. (Groups * Lanes - 1) /\ i \in 0 .. (Chunk - 1)
  BY GeometryAssumption, ChunksType DEF Chunks, Steps
<1>2. c * Chunk + i \in 0 .. ((Groups * Lanes) * Chunk - 1)
  BY <1>1, PackBelow
<1>3. (c * Chunk + i) \div Chunk = c /\ (c * Chunk + i) % Chunk = i
  <2>1. c \in Nat
    BY <1>1
  <2> QED BY <1>1, <2>1, DivMod
<1> QED BY <1>2, <1>3 DEF Positions

LEMMA PositionOfStep ==
    ASSUME NEW q \in Positions
    PROVE  /\ q \div Chunk \in Chunks /\ q % Chunk \in Steps
           /\ q = (q \div Chunk) * Chunk + (q % Chunk)
<1>1. Chunk \in Nat \ {0} /\ Groups * Lanes \in Nat
  BY GeometryAssumption, ChunksType
<1>2. q \in 0 .. ((Groups * Lanes) * Chunk - 1)
  BY DEF Positions
<1> QED BY <1>1, <1>2, DivBelow DEF Chunks, Steps

-----------------------------------------------------------------------------
(* Ranks by a key.                                                         *)

KeyRank(K, T, x) == Cardinality({y \in T: K[y] < K[x]})

\* Different elements have different keys, which are numbers.
KeysApart(K, T) == \A x, y \in T: K[x] \in Int /\ (K[x] = K[y] => x = y)

LEMMA KeyRankGrows ==
    ASSUME NEW T, IsFiniteSet(T), NEW K, KeysApart(K, T)
    PROVE  /\ \A x \in T: KeyRank(K, T, x) \in 0 .. (Cardinality(T) - 1)
           /\ \A x, y \in T: K[x] < K[y] <=> KeyRank(K, T, x) < KeyRank(K, T, y)
           /\ \A x, y \in T: KeyRank(K, T, x) = KeyRank(K, T, y) => x = y
<1> DEFINE P(x) == {y \in T: K[y] < K[x]}
<1>1. \A x \in T: IsFiniteSet(P(x)) /\ Cardinality(P(x)) \in Nat
  BY FS_Subset, FS_CardinalityType
<1>2. ASSUME NEW x \in T
      PROVE  KeyRank(K, T, x) \in 0 .. (Cardinality(T) - 1)
  <2>1. IsFiniteSet(T \ {x}) /\ Cardinality(T \ {x}) = Cardinality(T) - 1
    BY FS_RemoveElement
  <2>2. P(x) \in SUBSET (T \ {x})
    BY DEF KeysApart
  <2>3. Cardinality(P(x)) <= Cardinality(T) - 1
    <3> HIDE DEF P
    <3>1. Cardinality(P(x)) <= Cardinality(T \ {x})
      BY <2>1, <2>2, FS_Subset
    <3> QED BY <2>1, <3>1
  <2>4. Cardinality(T) \in Nat
    BY FS_CardinalityType
  <2> QED BY <1>1, <2>3, <2>4 DEF KeyRank
<1>3. ASSUME NEW x \in T, NEW y \in T, K[x] < K[y]
      PROVE  KeyRank(K, T, x) < KeyRank(K, T, y)
  <2>1. P(x) \in SUBSET P(y)
    BY <1>3 DEF KeysApart
  <2>2. x \in P(y) /\ x \notin P(x)
    BY <1>3 DEF KeysApart
  <2>3. Cardinality(P(x)) <= Cardinality(P(y)) /\ Cardinality(P(x)) # Cardinality(P(y))
    BY <1>1, <2>1, <2>2, FS_Subset
  <2> QED BY <1>1, <2>3 DEF KeyRank
<1>4. \A x \in T: KeyRank(K, T, x) \in Nat
  BY <1>1 DEF KeyRank
<1>5. ASSUME NEW x \in T, NEW y \in T
      PROVE  /\ K[x] < K[y] <=> KeyRank(K, T, x) < KeyRank(K, T, y)
             /\ KeyRank(K, T, x) = KeyRank(K, T, y) => x = y
  <2>1. K[x] \in Int /\ K[y] \in Int /\ (K[x] = K[y] => x = y)
    BY DEF KeysApart
  <2>2. KeyRank(K, T, x) \in Nat /\ KeyRank(K, T, y) \in Nat
    BY <1>4
  <2>3. K[x] < K[y] => KeyRank(K, T, x) < KeyRank(K, T, y)
    BY <1>3
  <2>4. K[y] < K[x] => KeyRank(K, T, y) < KeyRank(K, T, x)
    BY <1>3
  <2> QED BY <2>1, <2>2, <2>3, <2>4
<1> QED BY <1>2, <1>5

\* Every number below the size of the set is a rank.
LEMMA KeyRankOnto ==
    ASSUME NEW T, IsFiniteSet(T), NEW K, KeysApart(K, T),
           NEW n \in 0 .. (Cardinality(T) - 1)
    PROVE  \E x \in T: KeyRank(K, T, x) = n
<1> DEFINE F == [x \in T |-> KeyRank(K, T, x)]
           U == 0 .. (Cardinality(T) - 1)
<1>1. F \in [T -> U]
  BY KeyRankGrows
<1>2. \A x, y \in T: F[x] = F[y] => x = y
  BY KeyRankGrows
<1>3. F \in Injection(T, U)
  BY <1>1, <1>2, Fun_IsInj
<1>4. Cardinality(T) \in Nat
  BY FS_CardinalityType
<1>5. IsFiniteSet(U) /\ Cardinality(U) = Cardinality(T)
  BY <1>4, FS_Interval
<1>6. F \in Surjection(T, U)
  BY <1>3, <1>5, FS_Injection
<1> HIDE DEF F
<1>7. \A t \in U: \E x \in T: F[x] = t
  BY <1>6 DEF Surjection
<1>8. PICK x \in T: F[x] = n
  BY <1>7
<1> QED BY <1>8 DEF F

\* Two sets that map one to one onto each other have the same size.
LEMMA SameSize ==
    ASSUME NEW S, IsFiniteSet(S), NEW T, NEW f \in [S -> T],
           \A x, y \in S: f[x] = f[y] => x = y,
           \A z \in T: \E x \in S: f[x] = z
    PROVE  IsFiniteSet(T) /\ Cardinality(T) = Cardinality(S)
<1>1. f \in Injection(S, T)
  BY Fun_IsInj
<1>2. f \in Surjection(S, T)
  BY DEF Surjection
<1> QED BY <1>1, <1>2, FS_Surjection

-----------------------------------------------------------------------------
(* Recursive functions.                                                    *)

\* A function that computes its values one from the other exists.
Recursive(f, F, n) == f[0] = 0 /\ \A i \in 1 .. n: f[i] = F[i][f[i - 1]]

LEMMA RecursiveExists ==
    ASSUME NEW n \in Nat, NEW F \in [1 .. n -> [Int -> Int]]
    PROVE  \E f \in [0 .. n -> Int]: Recursive(f, F, n)
<1> DEFINE Made(k) == \E f \in [0 .. k -> Int]: Recursive(f, F, k)
           A == {k \in 0 .. n: ~ Made(k)}
<1> SUFFICES ASSUME A # {} PROVE FALSE
  <2>1. n \in 0 .. n
    OBVIOUS
  <2>2. A = {} => Made(n)
    <3> HIDE DEF Made
    <3> QED BY <2>1
  <2> QED BY <2>2
<1>1. PICK k \in A: \A j \in A: k <= j
  <2>1. A \in SUBSET Nat
    OBVIOUS
  <2> HIDE DEF A
  <2> QED BY <2>1, LeastNumber
<1>2. k \in 0 .. n /\ ~ \E f \in [0 .. k -> Int]: Recursive(f, F, k)
  BY <1>1
<1>3. k # 0
  <2>1. [i \in 0 .. 0 |-> 0] \in [0 .. 0 -> Int] /\ Recursive([i \in 0 .. 0 |-> 0], F, 0)
    BY DEF Recursive
  <2> QED BY <1>2, <2>1
<1>4. PICK j \in 0 .. n: j + 1 = k
  BY <1>2, <1>3
<1>5. j \notin A
  <2> HIDE DEF A
  <2> QED BY <1>1, <1>2, <1>4
<1>6. PICK f \in [0 .. j -> Int]: Recursive(f, F, j)
  BY <1>5
<1> HIDE DEF A
<1> DEFINE e == [i \in 0 .. k |-> IF i <= j THEN f[i] ELSE F[k][f[j]]]
<1>7. F[k][f[j]] \in Int
  BY <1>2, <1>3, <1>4
<1>8. e \in [0 .. k -> Int]
  BY <1>2, <1>4, <1>7
<1>9. Recursive(e, F, k)
  <2>1. e[0] = 0
    BY <1>2, <1>4, <1>6 DEF Recursive
  <2>2. ASSUME NEW i \in 1 .. k PROVE e[i] = F[i][e[i - 1]]
    <3>1. i - 1 \in 0 .. k /\ i - 1 <= j /\ i \in 0 .. k
      BY <1>2, <1>4
    <3>2. e[i - 1] = f[i - 1]
      BY <3>1
    <3>3. CASE i <= j
      <4>1. e[i] = f[i] /\ i \in 1 .. j
        BY <1>2, <1>4, <3>1, <3>3
      <4> QED BY <1>6, <3>2, <4>1 DEF Recursive
    <3>4. CASE i = k
      <4>1. e[i] = F[k][f[j]] /\ i - 1 = j
        BY <1>2, <1>4, <3>1, <3>4
      <4> HIDE DEF e
      <4> QED BY <3>2, <3>4, <4>1
    <3> QED BY <1>2, <1>4, <3>3, <3>4
  <2> HIDE DEF e
  <2> QED BY <2>1, <2>2 DEF Recursive
<1> QED BY <1>2, <1>8, <1>9

-----------------------------------------------------------------------------
(* What the encoder computes for a row: the bits of its symbols, and when  *)
(* the decoder takes each word of a chunk.                                 *)

\* What the encoder and the decoder need to know about the code.
CodedRow ==
    /\ row \in [Positions -> Symbols]
    /\ lengths \in [Symbols -> 1 .. Limit]
    /\ codes \in [Symbols -> Nat]
    /\ \A s \in Symbols: codes[s] < 2 ^ lengths[s]

Symbol(c, i) == row[c * Chunk + i]
Size(c, i) == lengths[Symbol(c, i)]

\* The bits before a symbol, those of the whole chunk for i = Chunk.
Before(c, i) == IF i = 0 THEN 0 ELSE BitsBefore(c)[i - 1] + Size(c, i - 1)

LEMMA SymbolSize ==
    ASSUME CodedRow, NEW c \in Chunks, NEW i \in Steps
    PROVE  Symbol(c, i) \in Symbols /\ Size(c, i) \in 1 .. Limit
<1>1. c * Chunk + i \in Positions
  BY StepOfPosition
<1> QED BY <1>1 DEF Symbol, Size, CodedRow

LEMMA BitsBeforeExists ==
    ASSUME CodedRow, NEW c \in Chunks
    PROVE  /\ BitsBefore(c) \in [Steps -> Int]
           /\ BitsBefore(c)[0] = 0
           /\ \A i \in Steps \ {0}: BitsBefore(c)[i] = BitsBefore(c)[i - 1] + Size(c, i - 1)
<1> DEFINE F == [i \in 1 .. (Chunk - 1) |-> [v \in Int |-> v + Size(c, i - 1)]]
           Rec(f) == f = [i \in Steps |-> IF i = 0 THEN 0
                                          ELSE f[i - 1] + lengths[row[c * Chunk + i - 1]]]
           Defined(f) == /\ f \in [Steps -> Int]
                         /\ f[0] = 0
                         /\ \A i \in Steps \ {0}: f[i] = f[i - 1] + Size(c, i - 1)
<1>1. Chunk - 1 \in Nat /\ Steps = 0 .. (Chunk - 1)
  BY MaxBitsType DEF Steps
<1>2. \A i \in 1 .. (Chunk - 1): Size(c, i - 1) \in Int
  <2>1. \A i \in 1 .. (Chunk - 1): i - 1 \in Steps
    BY <1>1
  <2> QED BY <2>1, SymbolSize, MaxBitsType
<1>3. F \in [1 .. (Chunk - 1) -> [Int -> Int]]
  BY <1>2
<1>4. PICK f \in [0 .. (Chunk - 1) -> Int]: Recursive(f, F, Chunk - 1)
  <2> HIDE DEF F
  <2> QED BY <1>1, <1>3, RecursiveExists
<1>5. f[0] = 0 /\ \A i \in 1 .. (Chunk - 1): f[i] = f[i - 1] + Size(c, i - 1)
  <2>1. \A i \in 1 .. (Chunk - 1): f[i - 1] \in Int
    BY <1>1, <1>4
  <2> QED BY <1>4, <2>1 DEF Recursive
<1>6. \A i \in Steps: Size(c, i - 1) = lengths[row[c * Chunk + i - 1]]
  <2> SUFFICES ASSUME NEW i \in Steps PROVE c * Chunk + (i - 1) = c * Chunk + i - 1
    BY DEF Size, Symbol
  <2>1. PICK p \in Nat: p = c * Chunk
    BY ChunksType, MaxBitsType
  <2>2. p + (i - 1) = p + i - 1
    BY <1>1
  <2> QED BY <2>1, <2>2
<1>7. Rec(f)
  <2> DEFINE e == [i \in Steps |-> IF i = 0 THEN 0 ELSE f[i - 1] + lengths[row[c * Chunk + i - 1]]]
  <2>1. \A i \in Steps: e[i] = f[i]
    BY <1>1, <1>5, <1>6
  <2> QED BY <1>1, <1>4, <2>1
<1>8. BitsBefore(c) = CHOOSE h: Rec(h)
  BY DEF BitsBefore
<1>9. ASSUME NEW h, Rec(h) PROVE Defined(h)
  <2>1. \A i \in Steps: h[i] = IF i = 0 THEN 0 ELSE h[i - 1] + Size(c, i - 1)
    BY <1>6, <1>9
  <2>2. \A i \in Steps: h[i] = f[i]
    <3> DEFINE A == {i \in Steps: h[i] # f[i]}
    <3> SUFFICES ASSUME A # {} PROVE FALSE
      OBVIOUS
    <3>1. PICK k \in A: \A j \in A: k <= j
      <4>1. A \in SUBSET Nat
        BY <1>1
      <4> HIDE DEF A
      <4> QED BY <4>1, LeastNumber
    <3>2. k \in Steps /\ h[k] # f[k] /\ k # 0
      BY <1>5, <2>1, <3>1
    <3>3. k - 1 \in Steps /\ k - 1 < k /\ k \in 1 .. (Chunk - 1)
      BY <1>1, <3>2
    <3>4. h[k - 1] = f[k - 1]
      BY <3>1, <3>3
    <3> HIDE DEF A
    <3> QED BY <1>5, <2>1, <3>2, <3>3, <3>4
  <2> QED BY <1>1, <1>4, <1>5, <1>9, <2>2
<1> HIDE DEF Rec, Defined
<1>10. Rec(BitsBefore(c))
  BY <1>7, <1>8
<1>11. Defined(BitsBefore(c))
  BY <1>9, <1>10
<1> QED BY <1>11 DEF Defined

LEMMA BeforeFacts ==
    ASSUME CodedRow, NEW c \in Chunks
    PROVE  /\ BitsBefore(c) \in [Steps -> Nat]
           /\ \A i \in 0 .. Chunk: Before(c, i) \in 0 .. Limit * i
           /\ Before(c, 0) = 0
           /\ \A i \in Steps: /\ BitsBefore(c)[i] = Before(c, i)
                              /\ Before(c, i + 1) = Before(c, i) + Size(c, i)
<1>1. Chunk \in Nat \ {0} /\ Steps = 0 .. (Chunk - 1) /\ Limit \in Nat
  BY MaxBitsType DEF Steps
<1>2. /\ BitsBefore(c) \in [Steps -> Int]
      /\ BitsBefore(c)[0] = 0
      /\ \A i \in Steps \ {0}: BitsBefore(c)[i] = BitsBefore(c)[i - 1] + Size(c, i - 1)
  BY BitsBeforeExists
<1>3. \A i \in Steps: BitsBefore(c)[i] = Before(c, i)
  BY <1>2 DEF Before
<1>4. \A i \in Steps: Before(c, i + 1) = Before(c, i) + Size(c, i)
  <2> SUFFICES ASSUME NEW i \in Steps PROVE Before(c, i + 1) = Before(c, i) + Size(c, i)
    OBVIOUS
  <2>1. i + 1 # 0 /\ (i + 1) - 1 = i
    BY <1>1
  <2> QED BY <1>3, <2>1 DEF Before
<1>5. Before(c, 0) = 0
  BY DEF Before
<1> DEFINE A == {i \in 0 .. Chunk: Before(c, i) \notin 0 .. Limit * i}
<1>6. ASSUME A # {} PROVE FALSE
  <2>1. PICK k \in A: \A j \in A: k <= j
    <3>1. A \in SUBSET Nat
      OBVIOUS
    <3> HIDE DEF A
    <3> QED BY <1>6, <3>1, LeastNumber
  <2>2. k \in 0 .. Chunk /\ Before(c, k) \notin 0 .. Limit * k
    BY <2>1
  <2>3. k # 0
    <3>1. Limit * 0 = 0
      BY <1>1
    <3> QED BY <1>5, <2>2, <3>1
  <2>4. PICK j \in Steps: j + 1 = k
    BY <1>1, <2>2, <2>3
  <2>5. j \notin A /\ j \in 0 .. Chunk
    BY <1>1, <2>1, <2>4
  <2>6. Before(c, j) \in 0 .. Limit * j
    BY <2>5
  <2>7. Before(c, k) = Before(c, j) + Size(c, j) /\ Size(c, j) \in 1 .. Limit
    BY <1>4, <2>4, SymbolSize
  <2>8. Limit * k = Limit * j + Limit /\ Limit * j \in Nat
    BY <1>1, <2>4
  <2> HIDE DEF A
  <2> QED BY <1>1, <2>2, <2>6, <2>7, <2>8
<1>7. \A i \in 0 .. Chunk: Before(c, i) \in 0 .. Limit * i
  BY <1>6
<1>8. \A i \in Steps: Before(c, i) \in Nat
  <2> SUFFICES ASSUME NEW i \in Steps PROVE Before(c, i) \in Nat
    OBVIOUS
  <2>1. i \in 0 .. Chunk /\ Limit * i \in Int
    BY <1>1
  <2> QED BY <1>7, <2>1
<1> QED BY <1>2, <1>3, <1>4, <1>5, <1>7, <1>8

LEMMA BeforeGrows ==
    ASSUME CodedRow, NEW c \in Chunks, NEW i \in 0 .. Chunk, NEW j \in i .. Chunk
    PROVE  /\ Before(c, i) \in Nat /\ Before(c, j) \in Nat
           /\ Before(c, i) <= Before(c, j)
           /\ Before(c, j) <= MaxBits - Word
<1>1. Chunk \in Nat \ {0} /\ Steps = 0 .. (Chunk - 1)
  BY MaxBitsType DEF Steps
<1>2. \A k \in 0 .. Chunk: Before(c, k) \in Nat /\ Before(c, k) <= Limit * k
  <2> SUFFICES ASSUME NEW k \in 0 .. Chunk PROVE Before(c, k) \in Nat /\ Before(c, k) <= Limit * k
    OBVIOUS
  <2>1. Limit * k \in Nat
    BY MaxBitsType
  <2> QED BY <2>1, BeforeFacts
<1> DEFINE A == {k \in i .. Chunk: ~ Before(c, i) <= Before(c, k)}
<1>3. ASSUME A # {} PROVE FALSE
  <2>1. PICK k \in A: \A h \in A: k <= h
    <3>1. A \in SUBSET Nat
      OBVIOUS
    <3> HIDE DEF A
    <3> QED BY <1>3, <3>1, LeastNumber
  <2>2. k \in i .. Chunk /\ ~ Before(c, i) <= Before(c, k)
    BY <2>1
  <2>3. k # i
    BY <1>2, <2>2
  <2>4. PICK h \in Steps: h + 1 = k /\ h \in i .. Chunk
    BY <1>1, <2>2, <2>3
  <2>5. h \notin A
    BY <1>1, <2>1, <2>4
  <2>6. Before(c, i) <= Before(c, h)
    BY <2>4, <2>5
  <2>7. Before(c, k) = Before(c, h) + Size(c, h) /\ Size(c, h) \in 1 .. Limit
    BY <2>4, SymbolSize, BeforeFacts
  <2> HIDE DEF A
  <2>8. Before(c, i) \in Nat /\ Before(c, h) \in Nat
    BY <1>1, <1>2, <2>4
  <2>9. Size(c, h) \in Nat
    BY <2>7
  <2>10. Before(c, i) <= Before(c, k)
    BY <2>6, <2>7, <2>8, <2>9
  <2> QED BY <2>2, <2>10
<1>4. Before(c, i) <= Before(c, j)
  BY <1>3
<1>5. Before(c, j) <= MaxBits - Word
  <2>1. PICK w \in Nat: w = Word
    BY MaxBitsType
  <2>2. PICK l \in 0 .. w: l = Limit
    BY <2>1, MaxBitsType
  <2>3. w * (Chunk + 1) = w * Chunk + w /\ w * Chunk \in Nat
    BY <1>1
  <2>4. l * j <= w * Chunk /\ l * j \in Nat
    <3>1. PICK d \in Nat: w = l + d
      BY <2>2, SMT
    <3>2. PICK e \in Nat: Chunk = j + e
      BY <1>1, SMT
    <3>3. (l + d) * (j + e) = l * j + l * e + d * j + d * e
      BY <3>1, <3>2, SMT
    <3>4. l * j \in Nat /\ l * e \in Nat /\ d * j \in Nat /\ d * e \in Nat
      BY <3>1, <3>2, SMT
    <3> QED BY <3>1, <3>2, <3>3, <3>4
  <2>5. Before(c, j) \in Nat /\ Before(c, j) <= l * j
    BY <1>2, <2>2
  <2> QED BY <2>1, <2>3, <2>4, <2>5 DEF MaxBits
<1> QED BY <1>2, <1>4, <1>5

\* The symbol before which the decoder takes a chunk's k-th word, Chunk if it
\* takes none.
At(c, k) == RefillAt(BitsBefore(c), k)
NumWords(c) == WordsOf(BitsBefore(c))
Threshold(k) == Word * k - (Limit - 1)

LEMMA ThresholdFacts ==
    ASSUME NEW k \in Nat
    PROVE  /\ Threshold(k) \in Int /\ Word * k \in Nat
           /\ Word * (k + 1) = Word * k + Word
           /\ Threshold(k + 1) = Threshold(k) + Word
           /\ \A j \in 0 .. k: Threshold(j) <= Threshold(k)
<1>1. PICK w \in Nat: w = Word
  BY MaxBitsType
<1>2. w * k \in Nat /\ w * (k + 1) = w * k + w
  OBVIOUS
<1>3. \A j \in 0 .. k: w * j <= w * k
  OBVIOUS
<1>4. \A j \in 0 .. k: w * j \in Nat
  OBVIOUS
<1>5. Limit \in Nat
  BY MaxBitsType
<1>6. \A j \in Nat: Threshold(j) = w * j - (Limit - 1)
  BY <1>1 DEF Threshold
<1>7. Threshold(k + 1) = w * k + w - (Limit - 1) /\ Threshold(k) = w * k - (Limit - 1)
  <2>1. k + 1 \in Nat
    OBVIOUS
  <2>2. Threshold(k + 1) = w * (k + 1) - (Limit - 1)
    BY <1>6, <2>1
  <2>3. Threshold(k) = w * k - (Limit - 1)
    BY <1>6
  <2>4. Threshold(k + 1) = w * k + w - (Limit - 1)
    BY <1>2, <1>5, <2>2
  <2> QED BY <2>3, <2>4
<1>8. \A j \in 0 .. k: Threshold(j) <= Threshold(k)
  <2> SUFFICES ASSUME NEW j \in 0 .. k PROVE Threshold(j) <= Threshold(k)
    OBVIOUS
  <2>1. Threshold(j) = w * j - (Limit - 1) /\ w * j <= w * k /\ w * j \in Nat
    BY <1>3, <1>4, <1>6
  <2> QED BY <1>2, <1>5, <1>7, <2>1
<1> QED BY <1>1, <1>2, <1>5, <1>7, <1>8

\* A word is taken before step i exactly if it was due at the symbol before.
LEMMA AtBelow ==
    ASSUME CodedRow, NEW c \in Chunks, NEW k \in Nat
    PROVE  /\ At(c, k) \in 0 .. Chunk
           /\ \A i \in 0 .. Chunk: At(c, k) < i <=> i > 0 /\ Before(c, i - 1) >= Threshold(k)
<1>1. Chunk \in Nat \ {0} /\ Steps = 0 .. (Chunk - 1)
  BY MaxBitsType DEF Steps
<1> DEFINE late == {i \in Steps: BitsBefore(c)[i] >= Threshold(k)}
<1>2. At(c, k) = IF late = {} THEN Chunk ELSE Min(late)
  BY DEF At, RefillAt, Threshold
<1>3. \A i \in Steps: i \in late <=> Before(c, i) >= Threshold(k)
  BY BeforeFacts
<1>4. \A i, j \in Steps: i <= j /\ i \in late => j \in late
  <2> SUFFICES ASSUME NEW i \in Steps, NEW j \in Steps, i <= j, i \in late PROVE j \in late
    OBVIOUS
  <2>1. /\ Before(c, i) \in Nat /\ Before(c, j) \in Nat /\ Before(c, i) <= Before(c, j)
        /\ Threshold(k) \in Int
    <3>1. i \in 0 .. Chunk /\ j \in i .. Chunk
      BY <1>1
    <3> QED BY <3>1, BeforeGrows, ThresholdFacts
  <2> HIDE DEF late
  <2> QED BY <1>3, <2>1
<1>5. late # {} => Min(late) \in late /\ \A i \in late: Min(late) <= i
  <2>1. late \in SUBSET Nat
    BY <1>1
  <2> HIDE DEF late
  <2>2. SUFFICES ASSUME late # {} PROVE Min(late) \in late /\ \A i \in late: Min(late) <= i
    OBVIOUS
  <2>3. \E n \in late: \A m \in late: n <= m
    BY <2>1, <2>2, LeastNumber
  <2> QED BY <2>3 DEF Min
<1>6. late \subseteq Steps
  OBVIOUS
<1> HIDE DEF late
<1>7. At(c, k) \in 0 .. Chunk
  <2>1. CASE late = {}
    BY <1>1, <1>2, <2>1
  <2>2. CASE late # {}
    <3>1. At(c, k) \in Steps
      BY <1>2, <1>5, <1>6, <2>2
    <3> QED BY <1>1, <3>1
  <2> QED BY <2>1, <2>2
<1>8. ASSUME NEW i \in 0 .. Chunk
      PROVE  At(c, k) < i <=> i > 0 /\ Before(c, i - 1) >= Threshold(k)
  <2>1. CASE i = 0
    BY <1>7, <2>1
  <2>2. CASE i # 0
    <3>1. i - 1 \in Steps /\ i > 0 /\ i - 1 < i
      BY <1>1, <2>2
    <3>2. Before(c, i - 1) >= Threshold(k) <=> i - 1 \in late
      BY <1>3, <3>1
    <3>3. CASE late = {}
      <4>1. At(c, k) = Chunk
        BY <1>2, <3>3
      <4> QED BY <1>1, <1>8, <3>1, <3>2, <3>3, <4>1
    <3>4. CASE late # {}
      <4>1. At(c, k) \in late /\ \A j \in late: At(c, k) <= j
        BY <1>2, <1>5, <3>4
      <4>2. At(c, k) <= i - 1 => i - 1 \in late
        BY <1>4, <1>6, <3>1, <4>1
      <4>3. At(c, k) <= i - 1 <=> At(c, k) < i
        BY <1>7, <1>8
      <4> QED BY <3>1, <3>2, <4>1, <4>2, <4>3
    <3> QED BY <3>3, <3>4
  <2> QED BY <2>1, <2>2
<1> QED BY <1>7, <1>8

\* Later words are taken later.
LEMMA AtIncreasing ==
    ASSUME CodedRow, NEW c \in Chunks, NEW k \in Nat, NEW l \in Nat, k < l, At(c, k) < Chunk
    PROVE  At(c, k) < At(c, l)
<1>1. Chunk \in Nat \ {0} /\ Steps = 0 .. (Chunk - 1)
  BY MaxBitsType DEF Steps
<1>2. PICK i \in Steps: i = At(c, k)
  BY <1>1, AtBelow
<1>3. SUFFICES ASSUME At(c, l) < i + 1 PROVE FALSE
  BY <1>1, <1>2, AtBelow
<1>4. Before(c, i) >= Threshold(l)
  <2>1. i + 1 \in 0 .. Chunk /\ (i + 1) - 1 = i
    BY <1>1
  <2> QED BY <1>3, <2>1, AtBelow
<1>5. Threshold(l) >= Threshold(k) + Word /\ Threshold(k) \in Int /\ Threshold(l) \in Int
  <2>1. k + 1 \in 0 .. l
    OBVIOUS
  <2> QED BY <2>1, ThresholdFacts
<1>6. Before(c, i) \in Nat /\ Before(c, i) < Threshold(k) + Word
  <2>1. CASE i = 0
    <3>1. Threshold(k) >= Threshold(0) /\ Threshold(0) = 1 - Limit
      <4>1. Word * 0 = 0
        BY MaxBitsType
      <4>2. 0 \in 0 .. k
        OBVIOUS
      <4> QED BY <4>1, <4>2, ThresholdFacts, MaxBitsType DEF Threshold
    <3>2. Before(c, i) = 0
      BY <2>1, BeforeFacts
    <3> QED BY <1>5, <3>1, <3>2, MaxBitsType
  <2>2. CASE i # 0
    <3>1. i - 1 \in Steps /\ i \in 0 .. Chunk /\ (i - 1) + 1 = i
      BY <1>1, <2>2
    <3>2. ~ Before(c, i - 1) >= Threshold(k)
      BY <1>1, <1>2, <2>2, <3>1, AtBelow
    <3>3. Before(c, i) = Before(c, i - 1) + Size(c, i - 1) /\ Size(c, i - 1) \in 1 .. Limit
      BY <3>1, BeforeFacts, SymbolSize
    <3>4. Before(c, i - 1) \in Nat
      BY <1>1, <3>1, BeforeGrows
    <3> QED BY <1>5, <3>2, <3>3, <3>4, MaxBitsType
  <2> QED BY <2>1, <2>2
<1> QED BY <1>4, <1>5, <1>6, MaxBitsType

\* The encoder lays out the words that are taken.
LEMMA AtWords ==
    ASSUME CodedRow, NEW c \in Chunks
    PROVE  NumWords(c) \in Nat /\ \A k \in Nat: At(c, k) < Chunk <=> k < NumWords(c)
<1>1. Chunk \in Nat \ {0} /\ Steps = 0 .. (Chunk - 1) /\ Chunk - 1 \in Steps
  BY MaxBitsType DEF Steps
<1>2. PICK w \in Nat \ {0}: w = Word
  BY MaxBitsType
<1>3. PICK b \in Nat: b = Before(c, Chunk - 1) + (Limit - 1)
  <2>1. Before(c, Chunk - 1) \in Nat
    BY <1>1, BeforeGrows
  <2> QED BY <2>1, MaxBitsType
<1>4. NumWords(c) = b \div w + 1
  BY <1>1, <1>2, <1>3, BeforeFacts DEF NumWords, WordsOf
<1>5. PICK d \in Nat: d = b \div w
  BY SMT
<1>6. b = d * w + (b % w) /\ b % w \in 0 .. (w - 1)
  BY <1>5, SMT
<1>7. ASSUME NEW k \in Nat PROVE At(c, k) < Chunk <=> k < NumWords(c)
  <2>1. At(c, k) < Chunk <=> Before(c, Chunk - 1) >= Threshold(k)
    BY <1>1, AtBelow
  <2>2. Before(c, Chunk - 1) >= Threshold(k) <=> b >= w * k
    <3>1. Threshold(k) = w * k - (Limit - 1) /\ w * k \in Nat
      BY <1>2 DEF Threshold
    <3>2. Before(c, Chunk - 1) \in Nat
      BY <1>1, BeforeGrows
    <3> QED BY <1>3, <3>1, <3>2, MaxBitsType
  <2>3. b >= w * k <=> k <= d
    <3>1. CASE k <= d
      <4>1. w * k <= d * w
        BY <3>1, SMT
      <4>2. w * k \in Nat /\ d * w \in Nat
        BY SMT
      <4> QED BY <1>6, <3>1, <4>1, <4>2
    <3>2. CASE k > d
      <4>1. PICK e \in Nat: k = d + e + 1
        BY <3>2, SMT
      <4>2. w * k = d * w + w * e + w /\ w * e \in Nat /\ d * w \in Nat
        BY <4>1, SMT
      <4> QED BY <1>6, <3>2, <4>2
    <3> QED BY <3>1, <3>2
  <2> QED BY <1>4, <1>5, <2>1, <2>2, <2>3
<1> QED BY <1>4, <1>5, <1>7

-----------------------------------------------------------------------------
(* The record: the words of all chunks, in the order in which they are     *)
(* taken.                                                                  *)

WordCounts == [c \in Chunks |-> NumWords(c)]
Base(c) == SumFunctionOnSet(WordCounts, 0 .. (c - 1))
AllWords == {w \in Chunks \X Nat: w[2] < NumWords(w[1])}
KeyOf(w) == Key(w[1], At(w[1], w[2]))
WordKeys == [w \in AllWords |-> KeyOf(w)]

\* The words that are taken before step i of group g, and in that step.
TakenBefore(g, i) ==
    {w \in AllWords: \/ w[1] \div Lanes < g
                     \/ w[1] \div Lanes = g /\ At(w[1], w[2]) < i}
TakenAt(g, i) == {w \in AllWords: w[1] \div Lanes = g /\ At(w[1], w[2]) = i}

LEMMA PackLess ==
    ASSUME NEW n \in Nat \ {0}, NEW k \in Nat, NEW m \in Nat,
           NEW r \in 0 .. (n - 1), NEW s \in 0 .. n
    PROVE  k * n + r < m * n + s <=> k < m \/ (k = m /\ r < s)
<1>1. CASE k < m
  <2>1. PICK d \in Nat: m = k + d + 1
    BY <1>1, SMT
  <2>2. m * n = k * n + d * n + n /\ k * n \in Nat /\ d * n \in Nat
    BY <2>1, SMT
  <2> QED BY <1>1, <2>2
<1>2. CASE k = m
  <2>1. k * n \in Nat
    OBVIOUS
  <2> QED BY <1>2, <2>1
<1>3. CASE k > m
  <2>1. PICK d \in Nat: k = m + d + 1
    BY <1>3, SMT
  <2>2. k * n = m * n + d * n + n /\ m * n \in Nat /\ d * n \in Nat
    BY <2>1, SMT
  <2> QED BY <1>3, <2>2
<1> QED BY <1>1, <1>2, <1>3

LEMMA WordFacts ==
    ASSUME CodedRow, NEW w \in AllWords
    PROVE  /\ w[1] \in Chunks /\ w[2] \in Nat /\ w = <<w[1], w[2]>>
           /\ At(w[1], w[2]) \in Steps
           /\ w[1] \div Lanes \in GroupIds /\ w[1] % Lanes \in LaneIds
<1>1. w[1] \in Chunks /\ w[2] \in Nat /\ w = <<w[1], w[2]>> /\ w[2] < NumWords(w[1])
  BY DEF AllWords
<1>2. At(w[1], w[2]) \in 0 .. Chunk /\ At(w[1], w[2]) < Chunk
  BY <1>1, AtBelow, AtWords
<1> QED BY <1>1, <1>2, ChunkOfLane, MaxBitsType DEF Steps

\* The order of the keys.
LEMMA KeyOrder ==
    ASSUME CodedRow, NEW v \in AllWords, NEW w \in AllWords
    PROVE  /\ KeyOf(v) \in Int
           /\ KeyOf(v) < KeyOf(w) <=>
                 \/ v[1] \div Lanes < w[1] \div Lanes
                 \/ /\ v[1] \div Lanes = w[1] \div Lanes
                    /\ \/ At(v[1], v[2]) < At(w[1], w[2])
                       \/ At(v[1], v[2]) = At(w[1], w[2]) /\ v[1] % Lanes < w[1] % Lanes
<1>1. PICK n \in Nat \ {0}, m \in Nat \ {0}: n = Lanes /\ m = Chunk
  BY GeometryAssumption
<1>2. PICK g \in Nat, i \in 0 .. (m - 1), l \in 0 .. (n - 1):
          g = v[1] \div Lanes /\ i = At(v[1], v[2]) /\ l = v[1] % Lanes
  BY <1>1, WordFacts DEF GroupIds, Steps, LaneIds
<1>3. PICK h \in Nat, j \in 0 .. (m - 1), k \in 0 .. (n - 1):
          h = w[1] \div Lanes /\ j = At(w[1], w[2]) /\ k = w[1] % Lanes
  BY <1>1, WordFacts DEF GroupIds, Steps, LaneIds
<1>4. PICK x \in Nat: x = g * m + i
  OBVIOUS
<1>5. PICK y \in Nat: y = h * m + j
  OBVIOUS
<1>6. x < y <=> g < h \/ (g = h /\ i < j)
  BY <1>4, <1>5, PackLess
<1>7. KeyOf(v) = x * n + l /\ KeyOf(w) = y * n + k
  BY <1>1, <1>2, <1>3, <1>4, <1>5 DEF KeyOf, Key
<1>8. x * n + l < y * n + k <=> x < y \/ (x = y /\ l < k)
  BY PackLess
<1>9. x = y <=> g = h /\ i = j
  <2>1. y < x <=> h < g \/ (h = g /\ j < i)
    BY <1>4, <1>5, PackLess
  <2> QED BY <1>4, <1>5, <1>6, <2>1
<1>10. x * n + l \in Int
  OBVIOUS
<1> QED BY <1>2, <1>3, <1>6, <1>7, <1>8, <1>9, <1>10

LEMMA KeysOfWords == ASSUME CodedRow PROVE KeysApart(WordKeys, AllWords)
<1> SUFFICES ASSUME NEW v \in AllWords, NEW w \in AllWords
             PROVE  KeyOf(v) \in Int /\ (KeyOf(v) = KeyOf(w) => v = w)
  BY DEF KeysApart, WordKeys
<1>1. KeyOf(v) \in Int /\ KeyOf(w) \in Int
  BY KeyOrder
<1>2. SUFFICES ASSUME KeyOf(v) = KeyOf(w) PROVE v = w
  BY <1>1
<1>3. ~ KeyOf(v) < KeyOf(w) /\ ~ KeyOf(w) < KeyOf(v)
  BY <1>1, <1>2
<1>4. PICK g \in Int, i \in Int, l \in Int:
          g = v[1] \div Lanes /\ i = At(v[1], v[2]) /\ l = v[1] % Lanes
  BY WordFacts DEF GroupIds, Steps, LaneIds
<1>5. PICK h \in Int, j \in Int, k \in Int:
          h = w[1] \div Lanes /\ j = At(w[1], w[2]) /\ k = w[1] % Lanes
  BY WordFacts DEF GroupIds, Steps, LaneIds
<1>6. ~ (g < h \/ (g = h /\ (i < j \/ (i = j /\ l < k))))
  BY <1>3, <1>4, <1>5, KeyOrder
<1>7. ~ (h < g \/ (h = g /\ (j < i \/ (j = i /\ k < l))))
  BY <1>3, <1>4, <1>5, KeyOrder
<1>8. g = h /\ i = j /\ l = k
  BY <1>6, <1>7
<1>9. v[1] = w[1]
  <2>1. v[1] = (v[1] \div Lanes) * Lanes + (v[1] % Lanes)
    BY WordFacts, ChunkOfLane
  <2>2. w[1] = (w[1] \div Lanes) * Lanes + (w[1] % Lanes)
    BY WordFacts, ChunkOfLane
  <2> QED BY <1>4, <1>5, <1>8, <2>1, <2>2
<1>10. v[2] = w[2]
  <2>1. At(v[1], v[2]) = At(v[1], w[2]) /\ At(v[1], v[2]) < Chunk
    BY <1>4, <1>5, <1>8, <1>9, WordFacts, MaxBitsType DEF Steps
  <2>2. v[1] \in Chunks /\ v[2] \in Nat /\ w[2] \in Nat /\ At(v[1], v[2]) \in Int
    BY WordFacts DEF Steps
  <2>3. ~ v[2] < w[2] /\ ~ w[2] < v[2]
    BY <2>1, <2>2, AtIncreasing
  <2> QED BY <2>2, <2>3
<1> QED BY <1>9, <1>10, WordFacts

LEMMA BaseFacts ==
    ASSUME CodedRow
    PROVE  /\ \A m \in 0 .. (Groups * Lanes): Base(m) \in Nat
           /\ Base(0) = 0
           /\ \A c \in Chunks: Base(c + 1) = Base(c) + NumWords(c) /\ NumWords(c) \in Nat
           /\ \A m \in 0 .. (Groups * Lanes): \A n \in m .. (Groups * Lanes): Base(m) <= Base(n)
<1>1. PICK n \in Nat: n = Groups * Lanes /\ Chunks = 0 .. (n - 1)
  BY ChunksType DEF Chunks
<1>2. \A c \in Chunks: WordCounts[c] = NumWords(c) /\ NumWords(c) \in Nat
  BY AtWords DEF WordCounts
<1>3. \A m \in 0 .. n: IsFiniteSet(0 .. (m - 1)) /\ 0 .. (m - 1) \subseteq Chunks
  <2> SUFFICES ASSUME NEW m \in 0 .. n
               PROVE  IsFiniteSet(0 .. (m - 1)) /\ 0 .. (m - 1) \subseteq Chunks
    OBVIOUS
  <2>1. 0 .. (m - 1) \subseteq Chunks
    BY <1>1
  <2> QED BY <2>1, FS_Interval
<1>4. ASSUME NEW m \in 0 .. n PROVE Base(m) \in Nat
  <2>1. IsFiniteSet(0 .. (m - 1)) /\ \A c \in 0 .. (m - 1): WordCounts[c] \in Nat
    BY <1>2, <1>3
  <2> QED BY <2>1, SumType DEF Base
<1>5. Base(0) = 0
  <2>1. 0 .. (0 - 1) = {}
    OBVIOUS
  <2>2. Base(0) = SumFunctionOnSet(WordCounts, {})
    BY <2>1, Zenon DEF Base
  <2> QED BY <2>2, SumEmpty
<1>6. ASSUME NEW c \in Chunks PROVE Base(c + 1) = Base(c) + NumWords(c)
  <2>1. c + 1 \in 0 .. n /\ c \in Nat
    BY <1>1
  <2> DEFINE S == 0 .. ((c + 1) - 1)
  <2>2. IsFiniteSet(S) /\ \A d \in S: WordCounts[d] \in Nat
    BY <1>2, <1>3, <2>1
  <2>3. c \in S /\ S \ {c} = 0 .. (c - 1)
    BY <2>1
  <2> HIDE DEF S
  <2>4. SumFunctionOnSet(WordCounts, S) = WordCounts[c] + SumFunctionOnSet(WordCounts, S \ {c})
    BY <2>2, <2>3, SumRemove
  <2>5. SumFunctionOnSet(WordCounts, S) = WordCounts[c] + Base(c)
    BY <2>3, <2>4, Zenon DEF Base
  <2>6. SumFunctionOnSet(WordCounts, S) = Base(c + 1)
    BY DEF Base, S
  <2>7. Base(c) \in Nat
    BY <1>1, <1>4
  <2> QED BY <1>2, <2>5, <2>6, <2>7
<1>7. ASSUME NEW m \in 0 .. n, NEW k \in m .. n PROVE Base(m) <= Base(k)
  <2> DEFINE A == {j \in m .. n: ~ Base(m) <= Base(j)}
  <2>1. SUFFICES ASSUME A # {} PROVE FALSE
    OBVIOUS
  <2>2. PICK j \in A: \A h \in A: j <= h
    <3>1. A \in SUBSET Nat
      OBVIOUS
    <3> HIDE DEF A
    <3> QED BY <2>1, <3>1, LeastNumber
  <2>3. j \in m .. n /\ ~ Base(m) <= Base(j)
    BY <2>2
  <2>4. j # m
    BY <1>4, <2>3
  <2>5. PICK h \in Chunks: h + 1 = j /\ h \in m .. n
    BY <1>1, <2>3, <2>4
  <2>6. h \notin A
    BY <2>2, <2>3, <2>5
  <2>7. Base(m) <= Base(h)
    BY <2>5, <2>6
  <2>8. Base(j) = Base(h) + NumWords(h) /\ NumWords(h) \in Nat
    BY <1>2, <1>6, <2>5
  <2>9. Base(m) \in Nat /\ Base(h) \in Nat
    BY <1>4, <2>5
  <2> HIDE DEF A
  <2> QED BY <2>3, <2>7, <2>8, <2>9
<1> QED BY <1>1, <1>2, <1>4, <1>5, <1>6, <1>7

\* As many words come before a chunk's as the encoder says.
LEMMA WordsBelow ==
    ASSUME CodedRow, NEW m \in 0 .. (Groups * Lanes)
    PROVE  /\ IsFiniteSet({w \in AllWords: w[1] < m})
           /\ Cardinality({w \in AllWords: w[1] < m}) = Base(m)
<1> DEFINE W(k) == {w \in AllWords: w[1] < k}
           Counted(k) == IsFiniteSet(W(k)) /\ Cardinality(W(k)) = Base(k)
           A == {k \in 0 .. (Groups * Lanes): ~ Counted(k)}
<1>1. SUFFICES ASSUME A # {} PROVE FALSE
  OBVIOUS
<1>2. PICK k \in A: \A j \in A: k <= j
  <2>1. A \in SUBSET Nat
    BY ChunksType
  <2> HIDE DEF A
  <2> QED BY <1>1, <2>1, LeastNumber
<1>3. k \in 0 .. (Groups * Lanes) /\ ~ Counted(k)
  BY <1>2
<1>4. k # 0
  <2>1. W(0) = {}
    BY WordFacts, ChunksType
  <2>2. Base(0) = 0
    BY BaseFacts
  <2>3. IsFiniteSet({}) /\ Cardinality({}) = 0
    BY FS_EmptySet
  <2>4. Counted(0)
    BY <2>1, <2>2, <2>3, Zenon
  <2> QED BY <1>3, <2>4
<1>5. PICK j \in Chunks: j + 1 = k
  BY <1>3, <1>4, ChunksType DEF Chunks
<1>6. j \in 0 .. (Groups * Lanes) /\ ~ k <= j
  BY <1>5, ChunksType DEF Chunks
<1>7. Counted(j)
  <2> HIDE DEF Counted
  <2> QED BY <1>2, <1>6
<1> DEFINE V == {w \in AllWords: w[1] = j}
<1>8. W(k) = W(j) \union V /\ W(j) \cap V = {}
  <2>1. \A w \in AllWords: w[1] \in Nat
    BY WordFacts, ChunksType
  <2>2. \A w \in AllWords: w[1] < k <=> w[1] < j \/ w[1] = j
    BY <1>5, <1>6, <2>1, ChunksType
  <2>3. \A w \in AllWords: ~ (w[1] < j /\ w[1] = j)
    BY <1>6, <2>1, ChunksType
  <2> QED BY <2>2, <2>3
<1>9. IsFiniteSet(V) /\ Cardinality(V) = NumWords(j)
  <2>1. PICK n \in Nat: n = NumWords(j)
    BY AtWords
  <2> DEFINE f == [x \in 0 .. (n - 1) |-> <<j, x>>]
  <2>2. IsFiniteSet(0 .. (n - 1)) /\ Cardinality(0 .. (n - 1)) = n
    BY FS_Interval
  <2>3. \A x \in 0 .. (n - 1): <<j, x>> \in V
    BY <2>1 DEF AllWords
  <2>4. f \in [0 .. (n - 1) -> V]
    BY <2>3
  <2>5. \A x, y \in 0 .. (n - 1): f[x] = f[y] => x = y
    OBVIOUS
  <2>6. \A z \in V: \E x \in 0 .. (n - 1): f[x] = z
    <3> SUFFICES ASSUME NEW z \in V PROVE \E x \in 0 .. (n - 1): f[x] = z
      OBVIOUS
    <3>1. z = <<z[1], z[2]>> /\ z[1] = j /\ z[2] \in Nat /\ z[2] < n
      BY <2>1 DEF AllWords
    <3>2. z[2] \in 0 .. (n - 1) /\ f[z[2]] = z
      BY <3>1
    <3> QED BY <3>2
  <2> HIDE DEF f, V
  <2>7. IsFiniteSet(V) /\ Cardinality(V) = Cardinality(0 .. (n - 1))
    BY <2>2, <2>4, <2>5, <2>6, SameSize
  <2> QED BY <2>1, <2>2, <2>7
<1>10. Base(k) = Base(j) + NumWords(j) /\ Base(j) \in Nat /\ NumWords(j) \in Nat
  BY <1>5, <1>6, BaseFacts
<1>11. IsFiniteSet(W(j) \union V)
       /\ Cardinality(W(j) \union V)
             = Cardinality(W(j)) + Cardinality(V) - Cardinality(W(j) \cap V)
  <2> HIDE DEF W, V
  <2> QED BY <1>7, <1>9, FS_Union
<1>12. Cardinality(W(j) \cap V) = 0
  <2> HIDE DEF W, V
  <2>1. W(j) \cap V = {}
    BY <1>8
  <2> QED BY <2>1, FS_EmptySet, Zenon
<1>13. Counted(k)
  <2> HIDE DEF W, V
  <2>1. IsFiniteSet(W(k)) /\ Cardinality(W(k)) = Cardinality(W(j) \union V)
    BY <1>8, <1>11, Zenon
  <2> QED BY <1>7, <1>9, <1>10, <1>11, <1>12, <2>1
<1> QED BY <1>3, <1>13

\* The words of a group are those of its chunks.
LEMMA GroupsInOrder ==
    ASSUME CodedRow, NEW g \in 0 .. Groups
    PROVE  /\ g * Lanes \in 0 .. (Groups * Lanes)
           /\ IsFiniteSet(TakenBefore(g, 0)) /\ Cardinality(TakenBefore(g, 0)) = Base(g * Lanes)
           /\ TakenBefore(g, Chunk) = TakenBefore(g + 1, 0)
<1>1. PICK n \in Nat \ {0}: n = Lanes
  BY GeometryAssumption
<1>2. PICK m \in Nat: m = Groups /\ g \in 0 .. m
  BY GeometryAssumption
<1>3. g * n \in Nat /\ m * n \in Nat /\ g * n <= m * n
  BY <1>2, SMT
<1>4. ASSUME NEW w \in AllWords
      PROVE  /\ w[1] \div Lanes \in Nat /\ At(w[1], w[2]) \in Steps
             /\ w[1] < g * Lanes <=> w[1] \div Lanes < g
  <2>1. /\ w[1] \div Lanes \in GroupIds /\ w[1] % Lanes \in LaneIds
        /\ w[1] = (w[1] \div Lanes) * Lanes + (w[1] % Lanes)
        /\ At(w[1], w[2]) \in Steps
    BY WordFacts, ChunkOfLane
  <2>2. PICK h \in Nat, l \in 0 .. (n - 1): h = w[1] \div Lanes /\ l = w[1] % Lanes
    BY <1>1, <2>1 DEF GroupIds, LaneIds
  <2>3. w[1] = h * n + l
    BY <1>1, <2>1, <2>2
  <2>4. h * n + l < g * n + 0 <=> h < g \/ (h = g /\ l < 0)
    BY <1>2, PackLess
  <2>5. g * n + 0 = g * n
    BY <1>3
  <2>6. w[1] < g * n <=> h < g
    BY <2>2, <2>3, <2>4, <2>5
  <2> QED BY <1>1, <2>1, <2>2, <2>6
<1>5. TakenBefore(g, 0) = {w \in AllWords: w[1] < g * Lanes}
  <2>1. \A w \in AllWords: ~ At(w[1], w[2]) < 0
    BY <1>4, MaxBitsType DEF Steps
  <2> QED BY <1>4, <2>1 DEF TakenBefore
<1>6. TakenBefore(g, Chunk) = TakenBefore(g + 1, 0)
  <2>1. \A w \in AllWords: ~ At(w[1], w[2]) < 0 /\ At(w[1], w[2]) < Chunk
    BY <1>4, MaxBitsType DEF Steps
  <2>2. \A w \in AllWords: w[1] \div Lanes < g + 1 <=> w[1] \div Lanes < g \/ w[1] \div Lanes = g
    BY <1>2, <1>4
  <2> QED BY <2>1, <2>2 DEF TakenBefore
<1>7. g * Lanes \in 0 .. (Groups * Lanes)
  BY <1>1, <1>2, <1>3
<1> QED BY <1>5, <1>6, <1>7, WordsBelow, Zenon

LEMMA AllWordsFinite ==
    ASSUME CodedRow
    PROVE  IsFiniteSet(AllWords) /\ Cardinality(AllWords) = Base(Groups * Lanes)
<1>1. {w \in AllWords: w[1] < Groups * Lanes} = AllWords
  BY WordFacts, ChunksType DEF Chunks
<1>2. Groups * Lanes \in 0 .. (Groups * Lanes)
  BY ChunksType
<1> QED BY <1>1, <1>2, WordsBelow, Zenon

\* In step i of group g the lanes of R take a word, lane l its word t[l].
LanesTake(g, i, R, t) ==
    /\ R \subseteq LaneIds /\ t \in [LaneIds -> Nat]
    /\ \A l \in LaneIds, k \in Nat: At(g * Lanes + l, k) = i <=> l \in R /\ k = t[l]

LEMMA LanesTakeWords ==
    ASSUME CodedRow, NEW g \in GroupIds, NEW i \in Steps, NEW R, NEW t, LanesTake(g, i, R, t)
    PROVE  /\ \A l \in R: <<g * Lanes + l, t[l]>> \in TakenAt(g, i)
           /\ \A w \in TakenAt(g, i): \E l \in R: w = <<g * Lanes + l, t[l]>>
<1>1. ASSUME NEW l \in R PROVE <<g * Lanes + l, t[l]>> \in TakenAt(g, i)
  <2>1. l \in LaneIds /\ t[l] \in Nat /\ At(g * Lanes + l, t[l]) = i
    BY DEF LanesTake
  <2>2. g * Lanes + l \in Chunks /\ (g * Lanes + l) \div Lanes = g
    BY <2>1, LaneOfChunk
  <2>3. At(g * Lanes + l, t[l]) < Chunk
    BY <2>1, MaxBitsType DEF Steps
  <2>4. t[l] < NumWords(g * Lanes + l)
    BY <2>1, <2>2, <2>3, AtWords
  <2>5. <<g * Lanes + l, t[l]>> \in AllWords
    BY <2>1, <2>2, <2>4 DEF AllWords
  <2> QED BY <2>1, <2>2, <2>5 DEF TakenAt
<1>2. ASSUME NEW w \in TakenAt(g, i) PROVE \E l \in R: w = <<g * Lanes + l, t[l]>>
  <2>1. w \in AllWords /\ w[1] \div Lanes = g /\ At(w[1], w[2]) = i
    BY DEF TakenAt
  <2>2. w[1] \in Chunks /\ w[2] \in Nat /\ w = <<w[1], w[2]>>
    BY <2>1, WordFacts
  <2>3. PICK l \in LaneIds: w[1] = g * Lanes + l
    BY <2>1, <2>2, ChunkOfLane
  <2>4. l \in R /\ w[2] = t[l]
    BY <2>1, <2>2, <2>3 DEF LanesTake
  <2> QED BY <2>2, <2>3, <2>4
<1> QED BY <1>1, <1>2

LEMMA TakenBeforeStep ==
    ASSUME CodedRow, NEW g \in GroupIds, NEW i \in Steps
    PROVE  /\ IsFiniteSet(TakenBefore(g, i)) /\ Cardinality(TakenBefore(g, i)) \in Nat
           /\ TakenBefore(g, i + 1) = TakenBefore(g, i) \union TakenAt(g, i)
           /\ TakenBefore(g, i) \cap TakenAt(g, i) = {}
           /\ IsFiniteSet(TakenAt(g, i))
<1>1. \A w \in AllWords: w[1] \div Lanes \in Int /\ At(w[1], w[2]) \in Int
  BY WordFacts DEF GroupIds, Steps
<1>2. i \in Int /\ g \in Int
  BY DEF GroupIds, Steps
<1>3. TakenBefore(g, i + 1) = TakenBefore(g, i) \union TakenAt(g, i)
  <2>1. \A w \in AllWords: At(w[1], w[2]) < i + 1 <=> At(w[1], w[2]) < i \/ At(w[1], w[2]) = i
    BY <1>1, <1>2
  <2> QED BY <2>1 DEF TakenBefore, TakenAt
<1>4. TakenBefore(g, i) \cap TakenAt(g, i) = {}
  BY <1>1, <1>2 DEF TakenBefore, TakenAt
<1>5. TakenBefore(g, i) \in SUBSET AllWords /\ TakenAt(g, i) \in SUBSET AllWords
  BY DEF TakenBefore, TakenAt
<1> QED BY <1>3, <1>4, <1>5, AllWordsFinite, FS_Subset, FS_CardinalityType

\* The words that are taken in a step follow each other in the record in the
\* order of the lanes, from the words taken before on.
LEMMA StepWords ==
    ASSUME CodedRow, NEW g \in GroupIds, NEW i \in Steps, NEW R, NEW t, LanesTake(g, i, R, t)
    PROVE  /\ Cardinality(TakenBefore(g, i + 1))
                 = Cardinality(TakenBefore(g, i)) + Cardinality(R)
           /\ \A l \in R: KeyRank(WordKeys, AllWords, <<g * Lanes + l, t[l]>>)
                 = Cardinality(TakenBefore(g, i)) + Cardinality({h \in R: h <= l}) - 1
<1> DEFINE word(l) == <<g * Lanes + l, t[l]>>
           Some(T) == {word(l): l \in T}
<1>1. R \subseteq LaneIds /\ LaneIds \subseteq Nat /\ IsFiniteSet(R)
  <2>1. IsFiniteSet(LaneIds) /\ LaneIds \subseteq Nat
    BY GeometryAssumption, FS_Interval DEF LaneIds
  <2>2. R \in SUBSET LaneIds
    BY DEF LanesTake
  <2> QED BY <2>1, <2>2, FS_Subset
<1>2. \A l \in R: word(l) \in TakenAt(g, i) /\ word(l)[1] % Lanes = l
  BY <1>1, LanesTakeWords, LaneOfChunk
<1>3. TakenAt(g, i) = Some(R)
  <2>1. \A w \in TakenAt(g, i): \E l \in R: w = word(l)
    BY LanesTakeWords
  <2> QED BY <1>2, <2>1
<1>4. ASSUME NEW T \in SUBSET R
      PROVE  /\ IsFiniteSet(Some(T)) /\ Cardinality(Some(T)) = Cardinality(T)
             /\ Some(T) \subseteq TakenAt(g, i)
             /\ Cardinality(TakenBefore(g, i) \union Some(T))
                   = Cardinality(TakenBefore(g, i)) + Cardinality(T)
  <2> DEFINE f == [l \in T |-> word(l)]
  <2>1. IsFiniteSet(T)
    BY <1>1, FS_Subset
  <2>2. f \in [T -> Some(T)]
    OBVIOUS
  <2>3. \A x, y \in T: f[x] = f[y] => x = y
    <3> SUFFICES ASSUME NEW x \in T, NEW y \in T, word(x) = word(y) PROVE x = y
      OBVIOUS
    <3>1. word(x)[1] % Lanes = x /\ word(y)[1] % Lanes = y
      BY <1>2
    <3> HIDE DEF word
    <3> QED BY <3>1
  <2>4. \A z \in Some(T): \E x \in T: f[x] = z
    OBVIOUS
  <2>5. Some(T) \subseteq TakenAt(g, i)
    BY <1>2
  <2> HIDE DEF f, Some
  <2>6. IsFiniteSet(Some(T)) /\ Cardinality(Some(T)) = Cardinality(T)
    BY <2>1, <2>2, <2>3, <2>4, SameSize
  <2>7. IsFiniteSet(TakenBefore(g, i)) /\ TakenBefore(g, i) \cap Some(T) = {}
    BY <2>5, TakenBeforeStep
  <2>8. Cardinality(TakenBefore(g, i) \union Some(T))
          = Cardinality(TakenBefore(g, i)) + Cardinality(Some(T))
            - Cardinality(TakenBefore(g, i) \cap Some(T))
    BY <2>6, <2>7, FS_Union
  <2>9. Cardinality(TakenBefore(g, i) \cap Some(T)) = 0
    BY <2>7, FS_EmptySet, Zenon
  <2>10. Cardinality(TakenBefore(g, i)) \in Nat /\ Cardinality(Some(T)) \in Nat
    BY <2>6, TakenBeforeStep, FS_CardinalityType
  <2> QED BY <2>5, <2>6, <2>8, <2>9, <2>10
<1>5. Cardinality(TakenBefore(g, i + 1)) = Cardinality(TakenBefore(g, i)) + Cardinality(R)
  <2> HIDE DEF Some
  <2>1. TakenBefore(g, i + 1) = TakenBefore(g, i) \union Some(R)
    BY <1>3, TakenBeforeStep
  <2> QED BY <1>4, <2>1, Zenon
<1>6. ASSUME NEW l \in R
      PROVE  KeyRank(WordKeys, AllWords, word(l))
                = Cardinality(TakenBefore(g, i)) + Cardinality({h \in R: h <= l}) - 1
  <2> DEFINE T == {h \in R: h < l}
             less == {v \in AllWords: WordKeys[v] < WordKeys[word(l)]}
  <2>1. word(l) \in AllWords /\ word(l)[1] \div Lanes = g /\ At(word(l)[1], word(l)[2]) = i
    BY <1>2 DEF TakenAt
  <2>2. ASSUME NEW v \in AllWords
        PROVE  v \in less <=> v \in TakenBefore(g, i) \union Some(T)
    <3>1. WordKeys[v] = KeyOf(v) /\ WordKeys[word(l)] = KeyOf(word(l))
      BY <2>1 DEF WordKeys
    <3>2. KeyOf(v) < KeyOf(word(l)) <=>
                 \/ v[1] \div Lanes < g
                 \/ /\ v[1] \div Lanes = g
                    /\ \/ At(v[1], v[2]) < i
                       \/ At(v[1], v[2]) = i /\ v[1] % Lanes < l
      <4>1. word(l)[1] % Lanes = l
        BY <1>2
      <4> HIDE DEF word
      <4> QED BY <2>1, <4>1, KeyOrder
    <3>3. v \in Some(T) <=> v \in TakenAt(g, i) /\ v[1] % Lanes < l
      <4>1. \A h \in R: h \in T <=> h < l
        OBVIOUS
      <4>2. \A h \in R: word(h)[1] % Lanes = h
        BY <1>2
      <4>3. v \in TakenAt(g, i) <=> \E h \in R: v = word(h)
        BY <1>3
      <4>4. T \subseteq R
        OBVIOUS
      <4> HIDE DEF T, word
      <4> QED BY <4>1, <4>2, <4>3, <4>4
    <3>4. v \in TakenBefore(g, i) <=> \/ v[1] \div Lanes < g
                                      \/ v[1] \div Lanes = g /\ At(v[1], v[2]) < i
      BY DEF TakenBefore
    <3>5. v \in TakenAt(g, i) <=> v[1] \div Lanes = g /\ At(v[1], v[2]) = i
      BY DEF TakenAt
    <3>6. v \in less <=> KeyOf(v) < KeyOf(word(l))
      BY <3>1
    <3> HIDE DEF less, Some, T, word
    <3> QED BY <3>2, <3>3, <3>4, <3>5, <3>6
  <2>3. T \in SUBSET R
    OBVIOUS
  <2>4. TakenBefore(g, i) \union Some(T) \subseteq AllWords /\ less \subseteq AllWords
    <3>1. Some(T) \subseteq TakenAt(g, i)
      BY <1>4, <2>3
    <3> HIDE DEF Some
    <3> QED BY <3>1 DEF TakenBefore, TakenAt
  <2>5. less = TakenBefore(g, i) \union Some(T)
    <3> HIDE DEF less, Some, T
    <3> QED BY <2>2, <2>4
  <2>6. KeyRank(WordKeys, AllWords, word(l)) = Cardinality(less)
    BY DEF KeyRank
  <2>7. Cardinality(less) = Cardinality(TakenBefore(g, i)) + Cardinality(T)
    <3> HIDE DEF less, Some, T
    <3> QED BY <1>4, <2>3, <2>5, Zenon
  <2>8. Cardinality({h \in R: h <= l}) = Cardinality(T) + 1 /\ Cardinality(T) \in Nat
    <3>1. {h \in R: h <= l} = T \union {l}
      <4>1. \A h \in R: h <= l <=> h < l \/ h = l
        BY <1>1
      <4> QED BY <4>1
    <3>2. l \notin T /\ IsFiniteSet(T)
      BY <1>1, FS_Subset
    <3> HIDE DEF T
    <3>3. Cardinality(T \union {l}) = Cardinality(T) + 1 /\ Cardinality(T) \in Nat
      BY <3>2, FS_AddElement, FS_CardinalityType
    <3> QED BY <3>1, <3>3, Zenon
  <2>9. Cardinality(TakenBefore(g, i)) \in Nat
    BY TakenBeforeStep
  <2> HIDE DEF less, T
  <2> QED BY <2>6, <2>7, <2>8, <2>9
<1> QED BY <1>5, <1>6

-----------------------------------------------------------------------------
(* The bits in the words.                                                  *)

\* Where the code of a position begins among the bits of its chunk, in which
\* word that is, and its parts in that word and in the next one.
Offset(q) == Before(q \div Chunk, q % Chunk)
WordAt(q) == Offset(q) \div Word
Head(q) == (codes[row[q]] * 2 ^ (Offset(q) % Word)) % 2 ^ Word
Rest(q) == codes[row[q]] \div 2 ^ (Word - (Offset(q) % Word))
Heads == [q \in Positions |-> Head(q)]
Rests == [q \in Positions |-> Rest(q)]

\* A product shifted into a window of d * n: what stays and what is carried.
LEMMA ShiftMod ==
    ASSUME NEW a \in Nat, NEW m \in Nat \ {0}, NEW d \in Nat \ {0}
    PROVE  /\ (a * m) % (m * d) = (a % d) * m
           /\ a \div d \in Nat /\ a % d \in Nat
           /\ a = (a \div d) * d + (a % d)
<1>1. PICK k \in Nat, r \in 0 .. (d - 1): a = k * d + r /\ k = a \div d /\ r = a % d
  BY SMT
<1>2. PICK n \in Nat \ {0}: n = m * d
  BY SMT
<1>3. a * m = k * n + r * m
  <2>1. (k * d + r) * m = k * (m * d) + r * m
    BY SMT
  <2> QED BY <1>1, <1>2, <2>1
<1>4. r * m \in 0 .. (n - 1)
  <2>1. PICK e \in Nat: d = r + e + 1
    <3>1. d - r - 1 \in Nat /\ d = r + (d - r - 1) + 1
      OBVIOUS
    <3> QED BY <3>1
  <2>2. m * (r + e + 1) = r * m + m * e + m /\ r * m \in Nat /\ m * e \in Nat
    BY SMT
  <2> QED BY <1>2, <2>1, <2>2
<1>5. (k * n + r * m) % n = r * m
  BY <1>4, DivMod
<1> QED BY <1>1, <1>2, <1>3, <1>5

LEMMA OffsetFacts ==
    ASSUME CodedRow, NEW q \in Positions
    PROVE  /\ row[q] \in Symbols /\ codes[row[q]] \in Nat
           /\ lengths[row[q]] \in 1 .. Limit /\ codes[row[q]] < 2 ^ lengths[row[q]]
           /\ Offset(q) \in Nat /\ Offset(q) <= MaxBits - Word
           /\ WordAt(q) \in Nat /\ Offset(q) % Word \in 0 .. (Word - 1)
           /\ Offset(q) = Word * WordAt(q) + (Offset(q) % Word)
<1>1. q \div Chunk \in Chunks /\ q % Chunk \in Steps
  BY PositionOfStep
<1>2. q % Chunk \in 0 .. Chunk
  BY <1>1, MaxBitsType DEF Steps
<1>3. Offset(q) \in Nat /\ Offset(q) <= MaxBits - Word
  <2>1. q % Chunk \in (q % Chunk) .. Chunk
    BY <1>2
  <2> QED BY <1>1, <1>2, <2>1, BeforeGrows DEF Offset
<1>4. PICK w \in Nat \ {0}: w = Word
  BY MaxBitsType
<1>5. PICK b \in Nat: b = Offset(q)
  BY <1>3
<1>6. b \div w \in Nat /\ b % w \in 0 .. (w - 1) /\ b = w * (b \div w) + (b % w)
  BY SMT
<1>7. /\ WordAt(q) \in Nat /\ Offset(q) % Word \in 0 .. (Word - 1)
      /\ Offset(q) = Word * WordAt(q) + (Offset(q) % Word)
  BY <1>4, <1>5, <1>6 DEF WordAt
<1> QED BY <1>3, <1>7 DEF CodedRow

\* The two parts are the code at its place; the second one is empty if the code
\* ends in the word in which it begins.
LEMMA CodeInWords ==
    ASSUME CodedRow, NEW q \in Positions
    PROVE  /\ Head(q) \in Nat /\ Rest(q) \in Nat
           /\ 2 ^ (Word * WordAt(q)) \in Nat /\ 2 ^ (Word * (WordAt(q) + 1)) \in Nat
           /\ Head(q) * 2 ^ (Word * WordAt(q)) + Rest(q) * 2 ^ (Word * (WordAt(q) + 1))
                 = codes[row[q]] * 2 ^ Offset(q)
           /\ \E k \in Nat: Head(q) * 2 ^ (Word * WordAt(q)) = k * 2 ^ Offset(q)
           /\ \E k \in Nat: Rest(q) * 2 ^ (Word * (WordAt(q) + 1)) = k * 2 ^ Offset(q)
           /\ Offset(q) + lengths[row[q]] <= Word * (WordAt(q) + 1) => Rest(q) = 0
<1>1. PICK b \in Nat, k \in Nat, o \in Nat, w \in Nat:
          /\ b = Offset(q) /\ k = WordAt(q) /\ o = Offset(q) % Word
          /\ w = Word * WordAt(q) /\ b = w + o /\ b <= MaxBits - Word /\ o < Word
  <2>1. Word * WordAt(q) \in Nat
    BY OffsetFacts, MaxBitsType
  <2> QED BY <2>1, OffsetFacts, MaxBitsType
<1>2. /\ Word \in Nat /\ MaxBits \in Nat /\ Word * (WordAt(q) + 1) = w + Word
      /\ w + Word <= MaxBits /\ w \in 0 .. MaxBits /\ o \in 0 .. MaxBits /\ b \in 0 .. MaxBits
  <2>1. Word * (WordAt(q) + 1) = w + Word
    BY <1>1, ThresholdFacts
  <2> QED BY <1>1, <2>1, MaxBitsType
<1> DEFINE Places == b = w + o /\ o < Word /\ w + Word <= MaxBits
<1>20. Places
  BY <1>1, <1>2
<1>3. PICK d \in 0 .. MaxBits: d + o = Word /\ Word - o = d
  <2>1. Word - o \in 0 .. MaxBits /\ (Word - o) + o = Word
    BY <1>2, <1>20
  <2> QED BY <2>1
<1>4. PICK a \in Nat: a = codes[row[q]]
  BY OffsetFacts
<1>5. PICK P \in Nat, M \in Nat \ {0}, D \in Nat \ {0}, B \in Nat:
          P = 2 ^ w /\ M = 2 ^ o /\ D = 2 ^ d /\ B = 2 ^ b
  <2>1. /\ 2 ^ w \in Nat \ {0} /\ 2 ^ o \in Nat \ {0}
        /\ 2 ^ d \in Nat \ {0} /\ 2 ^ b \in Nat \ {0}
    BY <1>2, <1>3, PowType
  <2> QED BY <2>1
<1>6. 2 ^ Word = M * D
  <2>1. o + d = Word /\ o + d <= MaxBits
    BY <1>2, <1>3, <1>20
  <2>2. 2 ^ (o + d) = 2 ^ o * 2 ^ d
    BY <1>3, <2>1, PowAdd
  <2> QED BY <1>5, <2>1, <2>2
<1>7. B = P * M
  <2>1. 2 ^ (w + o) = 2 ^ w * 2 ^ o
    BY <1>1, <1>2, PowAdd
  <2> QED BY <1>1, <1>5, <2>1
<1>8. 2 ^ (w + Word) = P * (M * D)
  <2>1. 2 ^ (w + Word) = 2 ^ w * 2 ^ Word
    BY <1>1, <1>2, PowAdd
  <2> QED BY <1>5, <1>6, <2>1
<1>9. PICK r \in Nat, e \in Nat:
          /\ r = a % D /\ e = a \div D /\ a = e * D + r
          /\ (a * M) % (M * D) = r * M
  <2>1. /\ (a * M) % (M * D) = (a % D) * M
        /\ a \div D \in Nat /\ a % D \in Nat
        /\ a = (a \div D) * D + (a % D)
    BY ShiftMod
  <2> QED BY <2>1
<1>10. Head(q) = r * M
  BY <1>1, <1>4, <1>5, <1>6, <1>9 DEF Head
<1>11. Rest(q) = e
  BY <1>1, <1>3, <1>4, <1>5, <1>9 DEF Rest
<1>12. /\ (r * M) * P = r * (P * M)
       /\ e * (P * (M * D)) = (e * D) * (P * M)
       /\ (e * D) * (P * M) + r * (P * M) = (e * D + r) * (P * M)
       /\ e * D \in Nat /\ r * M \in Nat /\ P * (M * D) \in Nat
  BY SMT
<1>13. Head(q) * 2 ^ (Word * WordAt(q)) = r * B
  BY <1>1, <1>5, <1>7, <1>10, <1>12
<1>14. Rest(q) * 2 ^ (Word * (WordAt(q) + 1)) = (e * D) * B
  BY <1>1, <1>2, <1>7, <1>8, <1>11, <1>12
<1>15. Head(q) * 2 ^ (Word * WordAt(q)) + Rest(q) * 2 ^ (Word * (WordAt(q) + 1))
          = codes[row[q]] * 2 ^ Offset(q)
  <2>1. (e * D) * B + r * B = a * B /\ r * B \in Nat /\ (e * D) * B \in Nat
    BY <1>7, <1>9, <1>12
  <2>2. (e * D) * B + r * B = r * B + (e * D) * B
    BY <2>1
  <2> QED BY <1>1, <1>4, <1>5, <1>13, <1>14, <2>1, <2>2
<1>16. Offset(q) + lengths[row[q]] <= Word * (WordAt(q) + 1) => Rest(q) = 0
  <2>1. SUFFICES ASSUME b + lengths[row[q]] <= w + Word PROVE e = 0
    BY <1>1, <1>2, <1>11
  <2>2. PICK l \in Nat: l = lengths[row[q]] /\ a < 2 ^ l
    BY <1>4, OffsetFacts, MaxBitsType
  <2>3. l <= d
    BY <1>2, <1>3, <1>20, <2>1, <2>2
  <2>4. PICK x \in Nat, y \in Nat \ {0}: x = 2 ^ l /\ D = y * x
    <3>1. l <= MaxBits /\ d <= MaxBits
      BY <1>2, <1>3, <2>3, MaxBitsType
    <3>2. PICK y \in Nat \ {0}: 2 ^ d = y * 2 ^ l
      BY <2>3, <3>1, PowMultiple
    <3>3. 2 ^ l \in Nat
      BY <1>2, <2>2, <3>1, PowType
    <3> QED BY <1>5, <3>2, <3>3
  <2>5. x <= D
    BY <2>4, SMT
  <2>6. a < D
    BY <2>2, <2>4, <2>5
  <2>7. e # 0 => e * D >= D
    BY SMT
  <2> QED BY <1>9, <1>12, <2>6, <2>7
<1>17. 2 ^ (Word * WordAt(q)) \in Nat /\ 2 ^ (Word * (WordAt(q) + 1)) \in Nat
  BY <1>1, <1>2, <1>5, <1>8, <1>12
<1>18. \E j \in Nat: Head(q) * 2 ^ (Word * WordAt(q)) = j * 2 ^ Offset(q)
  BY <1>1, <1>5, <1>13
<1>19. \E j \in Nat: Rest(q) * 2 ^ (Word * (WordAt(q) + 1)) = j * 2 ^ Offset(q)
  BY <1>1, <1>5, <1>12, <1>14
<1> QED BY <1>10, <1>11, <1>12, <1>15, <1>16, <1>17, <1>18, <1>19

\* What the first t words of its chunk hold of a code, and of all codes of a
\* chunk from symbol i on: what a lane that took t words and decoded i symbols
\* has in its buffer.
Piece(q, t) ==
      (IF WordAt(q) < t THEN Head(q) * 2 ^ (Word * WordAt(q)) ELSE 0)
    + (IF WordAt(q) + 1 < t THEN Rest(q) * 2 ^ (Word * (WordAt(q) + 1)) ELSE 0)
Loaded(t) == [q \in Positions |-> Piece(q, t)]
From(c, i) == (c * Chunk + i) .. (c * Chunk + Chunk - 1)
Pending(c, i, t) == SumFunctionOnSet(Loaded(t), From(c, i))

\* The codes and the carried codes of a word, and the word.
HeadsIn(c, k) == {q \in Positions: q \div Chunk = c /\ WordAt(q) = k}
RestsIn(c, k) == {q \in Positions: q \div Chunk = c /\ WordAt(q) + 1 = k}
Content(c, k) == SumFunctionOnSet(Heads, HeadsIn(c, k)) + SumFunctionOnSet(Rests, RestsIn(c, k))

LEMMA PositionsFinite == IsFiniteSet(Positions)
<1>1. PICK n \in Nat: n = Groups * Lanes
  BY ChunksType
<1>2. n * Chunk \in Nat
  BY MaxBitsType
<1> QED BY <1>1, <1>2, FS_Interval DEF Positions

LEMMA FromFacts ==
    ASSUME NEW c \in Chunks, NEW i \in 0 .. Chunk
    PROVE  /\ From(c, i) \subseteq Positions /\ IsFiniteSet(From(c, i))
           /\ \A q \in Positions: q \in From(c, i) <=> q \div Chunk = c /\ q % Chunk >= i
           /\ i \in Steps => /\ c * Chunk + i \in From(c, i)
                             /\ From(c, i) \ {c * Chunk + i} = From(c, i + 1)
<1>1. PICK p \in Nat: p = c * Chunk
  BY ChunksType, MaxBitsType
<1>2. PICK n \in Nat \ {0}: n = Chunk
  BY MaxBitsType
<1>3. From(c, i) = (p + i) .. (p + n - 1) /\ From(c, i + 1) = (p + (i + 1)) .. (p + n - 1)
  BY <1>1, <1>2 DEF From
<1>4. ASSUME NEW q \in From(c, i) PROVE q \in Positions /\ q \div Chunk = c /\ q % Chunk >= i
  <2>1. PICK j \in 0 .. (n - 1): q = p + j /\ j >= i
    <3>1. q - p \in 0 .. (n - 1) /\ q = p + (q - p) /\ q - p >= i
      BY <1>2, <1>3
    <3> QED BY <3>1
  <2>2. j \in Steps /\ q = c * Chunk + j
    BY <1>1, <1>2, <2>1 DEF Steps
  <2> QED BY <2>1, <2>2, StepOfPosition
<1>5. ASSUME NEW q \in Positions, q \div Chunk = c, q % Chunk >= i PROVE q \in From(c, i)
  <2>1. PICK j \in 0 .. (n - 1): j = q % Chunk
    BY <1>2, PositionOfStep DEF Steps
  <2>2. q = p + j
    BY <1>1, <1>5, <2>1, PositionOfStep
  <2> QED BY <1>2, <1>3, <1>5, <2>1, <2>2
<1>6. IsFiniteSet(From(c, i))
  BY <1>1, <1>2, <1>3, FS_Interval
<1>7. ASSUME i \in Steps
      PROVE  c * Chunk + i \in From(c, i) /\ From(c, i) \ {c * Chunk + i} = From(c, i + 1)
  <2>1. i < n
    BY <1>2, <1>7 DEF Steps
  <2> QED BY <1>1, <1>2, <1>3, <2>1
<1> QED BY <1>4, <1>5, <1>6, <1>7

LEMMA PieceType ==
    ASSUME CodedRow, NEW q \in Positions, NEW t \in Nat
    PROVE  Piece(q, t) \in Nat /\ \E k \in Nat: Piece(q, t) = k * 2 ^ Offset(q)
<1>1. PICK x \in Nat: x = Head(q) * 2 ^ (Word * WordAt(q)) /\ \E k \in Nat: x = k * 2 ^ Offset(q)
  BY CodeInWords
<1>2. PICK y \in Nat: y = Rest(q) * 2 ^ (Word * (WordAt(q) + 1)) /\ \E k \in Nat: y = k * 2 ^ Offset(q)
  BY CodeInWords
<1>3. PICK B \in Nat: B = 2 ^ Offset(q)
  BY OffsetFacts, PowType, MaxBitsType
<1>4. PICK k \in Nat: x = k * B
  BY <1>1, <1>3
<1>5. PICK l \in Nat: y = l * B
  BY <1>2, <1>3
<1>6. (k + l) * B = x + y /\ 0 * B = 0 /\ k + l \in Nat
  BY <1>4, <1>5
<1>7. Piece(q, t) = (IF WordAt(q) < t THEN x ELSE 0) + (IF WordAt(q) + 1 < t THEN y ELSE 0)
  BY <1>1, <1>2 DEF Piece
<1>8. Piece(q, t) \in {0, x, y, x + y}
  BY <1>7
<1>9. ASSUME NEW z \in {0, x, y, x + y} PROVE z \in Nat /\ \E j \in Nat: z = j * B
  BY <1>4, <1>5, <1>6
<1> QED BY <1>3, <1>8, <1>9

LEMMA LoadedFacts ==
    ASSUME CodedRow, NEW c \in Chunks, NEW i \in 0 .. Chunk, NEW t \in Nat
    PROVE  /\ \A q \in From(c, i): Loaded(t)[q] \in Nat
           /\ Pending(c, i, t) \in Nat
           /\ \E k \in Nat: Pending(c, i, t) = k * 2 ^ Before(c, i)
<1>1. \A q \in From(c, i): q \in Positions /\ Loaded(t)[q] = Piece(q, t)
  BY FromFacts DEF Loaded
<1>2. \A q \in From(c, i): Loaded(t)[q] \in Nat
  BY <1>1, PieceType
<1>3. Pending(c, i, t) \in Nat
  BY <1>2, FromFacts, SumType DEF Pending
<1>4. PICK b \in Nat: b = Before(c, i) /\ b <= MaxBits
  <2>1. i \in i .. Chunk
    BY MaxBitsType
  <2> QED BY <2>1, BeforeGrows, MaxBitsType
<1>5. PICK B \in Nat: B = 2 ^ b
  BY <1>4, PowType, MaxBitsType
<1>6. ASSUME NEW q \in From(c, i) PROVE \E k \in Nat: Loaded(t)[q] = k * B
  <2>1. q \in Positions /\ q \div Chunk = c /\ q % Chunk >= i /\ q % Chunk \in Steps
    BY FromFacts, PositionOfStep
  <2>2. b <= Offset(q) /\ Offset(q) \in Nat /\ Offset(q) <= MaxBits
    <3>1. q % Chunk \in i .. Chunk
      BY <2>1, MaxBitsType DEF Steps
    <3>2. Before(c, i) <= Before(c, q % Chunk)
      BY <3>1, BeforeGrows
    <3> QED BY <1>4, <2>1, <3>2, OffsetFacts, MaxBitsType DEF Offset
  <2>3. PICK m \in Nat: 2 ^ Offset(q) = m * B
    BY <1>4, <1>5, <2>2, PowMultiple
  <2>4. PICK n \in Nat: Piece(q, t) = n * 2 ^ Offset(q)
    BY <2>1, PieceType
  <2>5. n * (m * B) = (n * m) * B /\ n * m \in Nat
    BY SMT
  <2> QED BY <1>1, <2>3, <2>4, <2>5
<1>7. \E k \in Nat: Pending(c, i, t) = k * B
  BY <1>6, FromFacts, SumMultiple DEF Pending
<1> QED BY <1>2, <1>3, <1>4, <1>5, <1>7

\* With its first t words loaded the symbol's code comes first in the buffer.
LEMMA PendingSymbol ==
    ASSUME CodedRow, NEW c \in Chunks, NEW i \in Steps, NEW t \in Nat,
           Before(c, i + 1) <= Word * t
    PROVE  Pending(c, i, t) = codes[Symbol(c, i)] * 2 ^ Before(c, i) + Pending(c, i + 1, t)
<1> DEFINE q == c * Chunk + i
<1>1. q \in Positions /\ q \div Chunk = c /\ q % Chunk = i /\ row[q] = Symbol(c, i)
  BY StepOfPosition DEF Symbol
<1>2. i \in 0 .. Chunk /\ q \in From(c, i) /\ From(c, i) \ {q} = From(c, i + 1)
  <2>1. i \in 0 .. Chunk
    BY MaxBitsType DEF Steps
  <2> QED BY <2>1, FromFacts
<1>3. Offset(q) = Before(c, i) /\ Before(c, i + 1) = Offset(q) + lengths[row[q]]
  BY <1>1, BeforeFacts DEF Offset, Size
<1>4. Pending(c, i, t) = Loaded(t)[q] + Pending(c, i + 1, t)
  <2> HIDE DEF q
  <2>1. IsFiniteSet(From(c, i)) /\ \A r \in From(c, i): Loaded(t)[r] \in Nat
    BY <1>2, LoadedFacts, FromFacts
  <2>2. SumFunctionOnSet(Loaded(t), From(c, i))
          = Loaded(t)[q] + SumFunctionOnSet(Loaded(t), From(c, i) \ {q})
    BY <1>2, <2>1, SumRemove
  <2> QED BY <1>2, <2>2, Zenon DEF Pending
<1> HIDE DEF q
<1>5. PICK k \in Nat, b \in Nat, l \in Nat \ {0}:
          k = WordAt(q) /\ b = Offset(q) /\ l = lengths[row[q]] /\ b + l <= Word * t
  BY <1>1, <1>3, OffsetFacts, MaxBitsType
<1>6. /\ Word * k \in Nat /\ Word * t \in Nat /\ Word * (k + 1) = Word * k + Word
      /\ b >= Word * k
  <2>1. Word * k \in Nat /\ Word * t \in Nat /\ Word * (k + 1) = Word * k + Word
    BY ThresholdFacts
  <2>2. Offset(q) = Word * k + (Offset(q) % Word) /\ Offset(q) % Word \in 0 .. (Word - 1)
    BY <1>1, <1>5, OffsetFacts
  <2>3. PICK o \in Nat: o = Offset(q) % Word
    BY <2>2, MaxBitsType
  <2>4. b = Word * k + o
    BY <1>5, <2>2, <2>3
  <2> QED BY <2>1, <2>4
<1>7. k < t
  <2>1. Word * k < Word * t
    BY <1>5, <1>6
  <2>2. SUFFICES ASSUME t <= k PROVE FALSE
    OBVIOUS
  <2>3. PICK d \in Nat: k = t + d
    BY <2>2, SMT
  <2>4. PICK w \in Nat: w = Word
    BY MaxBitsType
  <2>5. w * k = w * t + w * d /\ w * d \in Nat
    BY <2>3, SMT
  <2> QED BY <1>6, <2>1, <2>4, <2>5
<1>8. PICK x \in Nat: x = Head(q) * 2 ^ (Word * WordAt(q))
  BY <1>1, CodeInWords
<1>9. PICK y \in Nat: y = Rest(q) * 2 ^ (Word * (WordAt(q) + 1))
  BY <1>1, CodeInWords
<1>10. x + y = codes[row[q]] * 2 ^ Offset(q)
  BY <1>1, <1>8, <1>9, CodeInWords
<1>11. ~ k + 1 < t => y = 0
  <2>1. SUFFICES ASSUME ~ k + 1 < t PROVE y = 0
    OBVIOUS
  <2>2. k + 1 = t
    BY <1>7, <2>1
  <2>3. Offset(q) + lengths[row[q]] <= Word * (WordAt(q) + 1)
    BY <1>5, <2>2
  <2>4. Rest(q) = 0
    BY <1>1, <2>3, CodeInWords
  <2>5. 2 ^ (Word * (WordAt(q) + 1)) \in Nat
    BY <1>1, CodeInWords
  <2> QED BY <1>9, <2>4, <2>5
<1>12. Loaded(t)[q] = x + y
  <2>1. Loaded(t)[q] = (IF k < t THEN x ELSE 0) + (IF k + 1 < t THEN y ELSE 0)
    BY <1>1, <1>5, <1>8, <1>9 DEF Loaded, Piece
  <2> QED BY <1>7, <1>11, <2>1
<1> QED BY <1>1, <1>3, <1>4, <1>10, <1>12

\* A word more in the buffer: the bits of the codes to come in it.
LEMMA PendingWord ==
    ASSUME CodedRow, NEW c \in Chunks, NEW i \in 0 .. Chunk, NEW t \in Nat,
           Before(c, i) <= Word * t, Word * t <= MaxBits
    PROVE  /\ Content(c, t) \in Nat
           /\ Pending(c, i, t + 1) = Pending(c, i, t) + Content(c, t) * 2 ^ (Word * t)
<1> DEFINE S == From(c, i)
           A == {q \in S: WordAt(q) = t}
           B == {q \in S: WordAt(q) + 1 = t}
<1>1. S \subseteq Positions /\ IsFiniteSet(S) /\ A \in SUBSET S /\ B \in SUBSET S
  BY FromFacts
<1>2. PICK m \in Nat: m = 2 ^ (Word * t)
  BY PowType, ThresholdFacts, MaxBitsType
<1> DEFINE step == [q \in S |-> Loaded(t)[q] + (IF q \in A THEN Heads[q] * m ELSE 0)]
<1>3. \A q \in S: Heads[q] \in Nat /\ Rests[q] \in Nat /\ Loaded(t)[q] \in Nat
  BY <1>1, CodeInWords, LoadedFacts DEF Heads, Rests
<1>4. \A q \in S: step[q] \in Nat
  <2> SUFFICES ASSUME NEW q \in S PROVE step[q] \in Nat
    OBVIOUS
  <2>1. PICK x \in Nat, y \in Nat: x = Heads[q] /\ y = Loaded(t)[q]
    BY <1>3
  <2>2. x * m \in Nat
    OBVIOUS
  <2> QED BY <2>1, <2>2
<1>5. SumFunctionOnSet(step, S) = SumFunctionOnSet(Loaded(t), S) + SumFunctionOnSet(Heads, A) * m
  <2>1. Extended(S, Loaded(t), step, Heads, m, A)
    BY DEF Extended
  <2> HIDE DEF step, S, A
  <2> QED BY <1>1, <1>3, <1>4, <2>1, SumExtended
<1>6. Extended(S, step, Loaded(t + 1), Rests, m, B)
  <2> SUFFICES ASSUME NEW q \in S
               PROVE  Loaded(t + 1)[q] = step[q] + (IF q \in B THEN Rests[q] * m ELSE 0)
    BY DEF Extended
  <2>1. q \in Positions
    BY <1>1
  <2>2. PICK k \in Nat: k = WordAt(q)
    BY <2>1, OffsetFacts
  <2>3. PICK x \in Nat: x = Head(q) * 2 ^ (Word * WordAt(q))
    BY <2>1, CodeInWords
  <2>4. PICK y \in Nat: y = Rest(q) * 2 ^ (Word * (WordAt(q) + 1))
    BY <2>1, CodeInWords
  <2>5. Loaded(t)[q] = (IF k < t THEN x ELSE 0) + (IF k + 1 < t THEN y ELSE 0)
    BY <2>1, <2>2, <2>3, <2>4 DEF Loaded, Piece
  <2>6. Loaded(t + 1)[q] = (IF k < t + 1 THEN x ELSE 0) + (IF k + 1 < t + 1 THEN y ELSE 0)
    BY <2>1, <2>2, <2>3, <2>4 DEF Loaded, Piece
  <2>7. k = t => Heads[q] * m = x
    BY <1>2, <2>1, <2>2, <2>3 DEF Heads
  <2>8. k + 1 = t => Rests[q] * m = y
    BY <1>2, <2>1, <2>2, <2>4 DEF Rests
  <2>9. /\ q \in A <=> k = t
        /\ q \in B <=> k + 1 = t
    BY <2>2
  <2>10. step[q] = Loaded(t)[q] + (IF q \in A THEN Heads[q] * m ELSE 0)
    OBVIOUS
  <2> HIDE DEF A, B, step, S
  <2>11. CASE k = t
    BY <2>5, <2>6, <2>7, <2>9, <2>10, <2>11
  <2>12. CASE k + 1 = t
    BY <2>5, <2>6, <2>8, <2>9, <2>10, <2>12
  <2>13. CASE k # t /\ k + 1 # t
    BY <2>5, <2>6, <2>9, <2>10, <2>13
  <2> QED BY <2>11, <2>12, <2>13
<1>7. SumFunctionOnSet(Loaded(t + 1), S) = SumFunctionOnSet(step, S) + SumFunctionOnSet(Rests, B) * m
  <2>1. \A q \in S: Loaded(t + 1)[q] \in Nat
    BY LoadedFacts
  <2> HIDE DEF step, S, B
  <2> QED BY <1>1, <1>3, <1>4, <1>6, <2>1, SumExtended
<1>8. ASSUME NEW q \in Positions, q \div Chunk = c, q \notin S
      PROVE  Offset(q) + lengths[row[q]] <= Word * t
  <2>1. PICK j \in Steps: j = q % Chunk /\ q = c * Chunk + j
    BY <1>8, PositionOfStep
  <2>2. j < i
    <3>1. q \in From(c, i) <=> q \div Chunk = c /\ q % Chunk >= i
      BY FromFacts
    <3>2. ~ j >= i
      BY <1>8, <2>1, <3>1
    <3>3. j \in Int /\ i \in Int
      BY DEF Steps
    <3> QED BY <3>2, <3>3
  <2>3. j + 1 \in 0 .. Chunk /\ i \in (j + 1) .. Chunk
    BY <2>2, MaxBitsType DEF Steps
  <2>4. Before(c, j + 1) <= Before(c, i) /\ Before(c, j + 1) \in Nat /\ Before(c, i) \in Nat
    BY <2>3, BeforeGrows
  <2>5. Before(c, j + 1) = Offset(q) + lengths[row[q]]
    BY <1>8, <2>1, BeforeFacts DEF Offset, Size, Symbol
  <2>6. Word * t \in Nat
    BY ThresholdFacts
  <2> QED BY <2>4, <2>5, <2>6
<1>9. HeadsIn(c, t) = A
  <2>1. ASSUME NEW q \in Positions, q \div Chunk = c, WordAt(q) = t PROVE q \in S
    <3>1. SUFFICES ASSUME q \notin S PROVE FALSE
      OBVIOUS
    <3>2. Offset(q) + lengths[row[q]] <= Word * t
      BY <1>8, <2>1, <3>1
    <3>3. PICK o \in Nat, b \in Nat, l \in Nat \ {0}, w \in Nat:
              o = Offset(q) % Word /\ b = Offset(q) /\ l = lengths[row[q]] /\ w = Word * t
      <4>1. Offset(q) % Word \in Nat /\ Offset(q) \in Nat /\ lengths[row[q]] \in Nat \ {0}
        BY <2>1, OffsetFacts, MaxBitsType
      <4>2. Word * t \in Nat
        BY ThresholdFacts
      <4> QED BY <4>1, <4>2
    <3>4. b = w + o
      BY <2>1, <3>3, OffsetFacts
    <3> QED BY <3>2, <3>3, <3>4
  <2>2. ASSUME NEW q \in S PROVE q \in Positions /\ q \div Chunk = c
    BY FromFacts
  <2> HIDE DEF S
  <2> QED BY <2>1, <2>2 DEF HeadsIn
<1>10. B \subseteq RestsIn(c, t) /\ \A q \in RestsIn(c, t) \ B: Rests[q] = 0
  <2>1. ASSUME NEW q \in Positions, q \div Chunk = c, WordAt(q) + 1 = t, q \notin S
        PROVE  Rests[q] = 0
    <3>1. Offset(q) + lengths[row[q]] <= Word * (WordAt(q) + 1)
      BY <1>8, <2>1
    <3> QED BY <3>1, CodeInWords DEF Rests
  <2>2. ASSUME NEW q \in S PROVE q \in Positions /\ q \div Chunk = c
    BY FromFacts
  <2> HIDE DEF S
  <2> QED BY <2>1, <2>2 DEF RestsIn
<1>11. SumFunctionOnSet(Rests, RestsIn(c, t)) = SumFunctionOnSet(Rests, B)
  <2>1. IsFiniteSet(RestsIn(c, t)) /\ \A q \in RestsIn(c, t): Rests[q] \in Nat
    <3>1. RestsIn(c, t) \in SUBSET Positions
      BY DEF RestsIn
    <3>2. \A q \in Positions: Rests[q] \in Nat
      BY CodeInWords DEF Rests
    <3> QED BY <3>1, <3>2, PositionsFinite, FS_Subset
  <2> HIDE DEF B
  <2> QED BY <1>10, <2>1, SumWithoutZeros
<1> HIDE DEF S, A, B, step
<1>12. PICK x \in Nat: x = SumFunctionOnSet(Heads, A)
  <2>1. IsFiniteSet(A) /\ \A q \in A: Heads[q] \in Nat
    BY <1>1, <1>3, FS_Subset
  <2> QED BY <2>1, SumType
<1>13. PICK y \in Nat: y = SumFunctionOnSet(Rests, B)
  <2>1. IsFiniteSet(B) /\ \A q \in B: Rests[q] \in Nat
    BY <1>1, <1>3, FS_Subset
  <2> QED BY <2>1, SumType
<1>14. Content(c, t) = x + y
  BY <1>9, <1>11, <1>12, <1>13 DEF Content
<1>15. Pending(c, i, t + 1) = Pending(c, i, t) + x * m + y * m
  BY <1>5, <1>7, <1>12, <1>13 DEF Pending, S
<1>16. (x + y) * m = x * m + y * m /\ x * m \in Nat /\ y * m \in Nat
  OBVIOUS
<1>17. Pending(c, i, t) \in Nat
  BY LoadedFacts
<1> QED BY <1>2, <1>14, <1>15, <1>16, <1>17

\* The words before they are put in order.
Bits == [c \in Chunks |-> BitsBefore(c)]
Bases == [c \in Chunks |-> Base(c)]
Plain == PlainWords(Bits, Bases, Base(Groups * Lanes))

\* A code begins in a word of its chunk, and what is carried out of the chunk's
\* last word is nothing.
LEMMA CodeInChunk ==
    ASSUME CodedRow, NEW q \in Positions
    PROVE  /\ WordAt(q) < NumWords(q \div Chunk)
           /\ WordAt(q) + 1 < NumWords(q \div Chunk) \/ Rest(q) = 0
<1> DEFINE c == q \div Chunk
           last == Chunk - 1
<1>1. c \in Chunks /\ q % Chunk \in Steps /\ last \in Steps /\ last + 1 = Chunk
  BY PositionOfStep, MaxBitsType DEF Steps
<1>2. PICK k \in Nat, b \in Nat, o \in Nat, w \in Nat:
          /\ k = WordAt(q) /\ b = Offset(q) /\ o = Offset(q) % Word /\ w = Word * k
          /\ b = w + o
  <2>1. WordAt(q) \in Nat /\ Offset(q) \in Nat /\ Offset(q) % Word \in Nat
        /\ Offset(q) = Word * WordAt(q) + (Offset(q) % Word)
    BY OffsetFacts, MaxBitsType
  <2>2. Word * WordAt(q) \in Nat
    BY <2>1, ThresholdFacts
  <2> QED BY <2>1, <2>2
<1>3. Offset(q) <= Before(c, last) /\ Before(c, last) \in Nat
  <2>1. q % Chunk \in 0 .. Chunk /\ last \in (q % Chunk) .. Chunk
    BY <1>1, MaxBitsType DEF Steps
  <2> HIDE DEF last
  <2> QED BY <1>1, <2>1, BeforeGrows DEF Offset
<1>4. \A n \in Nat: n < NumWords(c) <=> Before(c, last) >= Threshold(n)
  <2> SUFFICES ASSUME NEW n \in Nat PROVE n < NumWords(c) <=> Before(c, last) >= Threshold(n)
    OBVIOUS
  <2>1. At(c, n) < Chunk <=> n < NumWords(c)
    BY <1>1, AtWords
  <2>2. Chunk \in 0 .. Chunk /\ Chunk > 0
    BY MaxBitsType
  <2>3. At(c, n) < Chunk <=> Before(c, Chunk - 1) >= Threshold(n)
    BY <1>1, <2>2, AtBelow
  <2> QED BY <2>1, <2>3
<1> HIDE DEF last
<1>5. Threshold(k) = w - (Limit - 1) /\ Threshold(k + 1) = w - (Limit - 1) + Word
  BY <1>2, ThresholdFacts DEF Threshold
<1>6. k < NumWords(c)
  <2>1. Before(c, last) >= Threshold(k)
    BY <1>2, <1>3, <1>5, MaxBitsType
  <2> QED BY <1>4, <2>1
<1>7. ASSUME ~ k + 1 < NumWords(c) PROVE Rest(q) = 0
  <2>1. ~ Before(c, last) >= Threshold(k + 1)
    BY <1>4, <1>7
  <2>2. PICK l \in Nat: l = lengths[row[q]] /\ l <= Limit
    BY OffsetFacts, MaxBitsType
  <2>3. b + l <= w + Word
    BY <1>2, <1>3, <1>5, <2>1, <2>2, MaxBitsType
  <2>4. Word * (WordAt(q) + 1) = w + Word
    BY <1>2, ThresholdFacts
  <2> QED BY <1>2, <2>2, <2>3, <2>4, CodeInWords
<1> QED BY <1>2, <1>6, <1>7

\* The chunks' words do not overlap.
LEMMA ChunkOfWord ==
    ASSUME CodedRow, NEW c \in Chunks, NEW d \in Chunks, NEW k \in Nat, NEW l \in Nat,
           k < NumWords(c), l < NumWords(d), Base(c) + k = Base(d) + l
    PROVE  c = d /\ k = l
<1>1. \A e \in Chunks: /\ Base(e) \in Nat /\ Base(e + 1) = Base(e) + NumWords(e)
                       /\ NumWords(e) \in Nat
                       /\ e \in Nat /\ e + 1 \in 0 .. (Groups * Lanes)
                       /\ e \in 0 .. (Groups * Lanes)
  <2>1. \A e \in Chunks: /\ e \in Nat /\ e + 1 \in 0 .. (Groups * Lanes)
                         /\ e \in 0 .. (Groups * Lanes)
    BY ChunksType DEF Chunks
  <2> QED BY <2>1, BaseFacts
<1>2. ASSUME NEW e \in Chunks, NEW f \in Chunks, e < f PROVE Base(e) + NumWords(e) <= Base(f)
  <2>1. f \in (e + 1) .. (Groups * Lanes)
    BY <1>1, <1>2, ChunksType
  <2>2. Base(e + 1) <= Base(f)
    BY <1>1, <2>1, BaseFacts
  <2> QED BY <1>1, <2>2
<1>3. ~ c < d
  <2>1. SUFFICES ASSUME Base(c) + NumWords(c) <= Base(d) PROVE FALSE
    BY <1>2
  <2> QED BY <1>1, <2>1
<1>4. ~ d < c
  <2>1. SUFFICES ASSUME Base(d) + NumWords(d) <= Base(c) PROVE FALSE
    BY <1>2
  <2> QED BY <1>1, <2>1
<1> QED BY <1>1, <1>3, <1>4

LEMMA PlainContent ==
    ASSUME CodedRow, NEW c \in Chunks, NEW k \in Nat, k < NumWords(c)
    PROVE  Plain[Base(c) + k] = Content(c, k)
<1> DEFINE Begin(q) == Bases[q \div Chunk] * Word + Bits[q \div Chunk][q % Chunk]
           head == [q \in Positions |-> (codes[row[q]] * 2 ^ (Begin(q) % Word)) % 2 ^ Word]
           rest == [q \in Positions |-> codes[row[q]] \div 2 ^ (Word - (Begin(q) % Word))]
           n == Base(Groups * Lanes)
           w == Base(c) + k
<1>1. ASSUME NEW q \in Positions
      PROVE  /\ Begin(q) \div Word = Base(q \div Chunk) + WordAt(q)
             /\ Begin(q) % Word = Offset(q) % Word
  <2>1. q \div Chunk \in Chunks /\ q % Chunk \in Steps
    BY PositionOfStep
  <2>2. Bases[q \div Chunk] = Base(q \div Chunk) /\ Base(q \div Chunk) \in Nat
    BY <2>1, BaseFacts, ChunksType DEF Bases, Chunks
  <2>3. Bits[q \div Chunk][q % Chunk] = Offset(q)
    BY <2>1, BeforeFacts DEF Bits, Offset
  <2>4. PICK b \in Nat, j \in Nat, o \in Nat, v \in Nat \ {0}:
            /\ b = Base(q \div Chunk) /\ j = WordAt(q) /\ o = Offset(q) % Word /\ v = Word
            /\ o \in 0 .. (v - 1) /\ Offset(q) = v * j + o
    <3>1. WordAt(q) \in Nat /\ Offset(q) % Word \in 0 .. (Word - 1) /\ Word \in Nat \ {0}
          /\ Offset(q) = Word * WordAt(q) + (Offset(q) % Word)
      BY OffsetFacts, MaxBitsType
    <3> QED BY <2>2, <3>1
  <2>5. Begin(q) = (b + j) * v + o
    <3>1. b * v + (v * j + o) = (b + j) * v + o
      BY SMT
    <3> QED BY <2>2, <2>3, <2>4, <3>1
  <2>6. ((b + j) * v + o) \div v = b + j /\ ((b + j) * v + o) % v = o
    <3>1. b + j \in Nat /\ o \in 0 .. (v - 1) /\ v \in Nat \ {0}
      BY <2>4
    <3> QED BY <3>1, DivMod
  <2> HIDE DEF Begin
  <2> QED BY <2>4, <2>5, <2>6
<1>2. head = Heads /\ rest = Rests
  <2>1. \A q \in Positions: head[q] = Heads[q] /\ rest[q] = Rests[q]
    <3> SUFFICES ASSUME NEW q \in Positions PROVE head[q] = Heads[q] /\ rest[q] = Rests[q]
      OBVIOUS
    <3>1. Begin(q) % Word = Offset(q) % Word
      BY <1>1
    <3> HIDE DEF Begin
    <3> QED BY <3>1 DEF Heads, Rests, Head, Rest
  <2> HIDE DEF Begin
  <2> QED BY <2>1 DEF Heads, Rests
<1>3. w \in 0 .. n
  <2>1. c + 1 \in 0 .. (Groups * Lanes) /\ Groups * Lanes \in (c + 1) .. (Groups * Lanes)
        /\ c \in 0 .. (Groups * Lanes)
    BY ChunksType DEF Chunks
  <2>2. Base(c + 1) <= n /\ n \in Nat /\ Base(c) \in Nat
        /\ Base(c + 1) = Base(c) + NumWords(c) /\ NumWords(c) \in Nat
    BY <2>1, BaseFacts, ChunksType
  <2> QED BY <2>2
<1>4. Plain[w] = SumFunctionOnSet(head, {q \in Positions: Begin(q) \div Word = w})
                 + SumFunctionOnSet(rest, {q \in Positions: Begin(q) \div Word + 1 = w})
  <2> HIDE DEF w, n
  <2>1. Plain = [x \in 0 .. n |->
                    SumFunctionOnSet(head, {q \in Positions: Begin(q) \div Word = x})
                  + SumFunctionOnSet(rest, {q \in Positions: Begin(q) \div Word + 1 = x})]
    BY DEF Plain, PlainWords, n
  <2> HIDE DEF head, rest, Begin
  <2> QED BY <1>3, <2>1
<1>5. {q \in Positions: Begin(q) \div Word = w} = HeadsIn(c, k)
  <2>1. ASSUME NEW q \in Positions
        PROVE  Begin(q) \div Word = w <=> q \div Chunk = c /\ WordAt(q) = k
    <3>1. q \div Chunk \in Chunks /\ WordAt(q) \in Nat /\ WordAt(q) < NumWords(q \div Chunk)
      BY PositionOfStep, OffsetFacts, CodeInChunk
    <3>2. Begin(q) \div Word = Base(q \div Chunk) + WordAt(q)
      BY <1>1
    <3>3. Base(q \div Chunk) + WordAt(q) = Base(c) + k => q \div Chunk = c /\ WordAt(q) = k
      BY <3>1, ChunkOfWord
    <3> HIDE DEF Begin
    <3> QED BY <3>2, <3>3
  <2> HIDE DEF Begin, w
  <2> QED BY <2>1 DEF HeadsIn
<1> DEFINE Next1 == {q \in Positions: Begin(q) \div Word + 1 = w}
<1>6. RestsIn(c, k) \subseteq Next1 /\ \A q \in Next1 \ RestsIn(c, k): Rests[q] = 0
  <2>1. ASSUME NEW q \in Positions
        PROVE  /\ q \div Chunk = c /\ WordAt(q) + 1 = k => Begin(q) \div Word + 1 = w
               /\ Begin(q) \div Word + 1 = w => (q \div Chunk = c /\ WordAt(q) + 1 = k) \/ Rest(q) = 0
    <3>1. q \div Chunk \in Chunks /\ WordAt(q) \in Nat /\ Base(q \div Chunk) \in Nat
          /\ Base(c) \in Nat
      BY PositionOfStep, OffsetFacts, BaseFacts, ChunksType DEF Chunks
    <3>2. Begin(q) \div Word = Base(q \div Chunk) + WordAt(q)
      BY <1>1
    <3>3. WordAt(q) + 1 < NumWords(q \div Chunk) \/ Rest(q) = 0
      BY CodeInChunk
    <3>4. ASSUME Base(q \div Chunk) + (WordAt(q) + 1) = Base(c) + k,
                 WordAt(q) + 1 < NumWords(q \div Chunk)
          PROVE  q \div Chunk = c /\ WordAt(q) + 1 = k
      <4>1. WordAt(q) + 1 \in Nat
        BY <3>1
      <4> QED BY <3>1, <3>4, <4>1, ChunkOfWord
    <3> HIDE DEF Begin
    <3>5. Begin(q) \div Word + 1 = Base(q \div Chunk) + (WordAt(q) + 1)
      BY <3>1, <3>2
    <3> QED BY <3>3, <3>4, <3>5
  <2> HIDE DEF Begin, w
  <2> QED BY <2>1 DEF RestsIn, Rests
<1>7. SumFunctionOnSet(Rests, Next1) = SumFunctionOnSet(Rests, RestsIn(c, k))
  <2>1. IsFiniteSet(Next1) /\ \A q \in Next1: Rests[q] \in Nat
    <3>1. Next1 \in SUBSET Positions
      OBVIOUS
    <3>2. \A q \in Positions: Rests[q] \in Nat
      BY CodeInWords DEF Rests
    <3> HIDE DEF Next1
    <3> QED BY <3>1, <3>2, PositionsFinite, FS_Subset
  <2> HIDE DEF Next1
  <2> QED BY <1>6, <2>1, SumWithoutZeros
<1>8. Plain[w] = SumFunctionOnSet(Heads, HeadsIn(c, k)) + SumFunctionOnSet(Rests, Next1)
  <2> HIDE DEF Begin, head, rest, w
  <2> QED BY <1>2, <1>4, <1>5, Zenon
<1> HIDE DEF Next1
<1> QED BY <1>7, <1>8, Zenon DEF Content

\* The record of the row.
RecordOf ==
    [gstart |-> [g \in 0 .. Groups |-> Base(g * Lanes)],
     fixed  |-> FixedWords,
     huff   |-> [j \in 0 .. (Cardinality(AllWords) - 1) |->
                    LET w == CHOOSE v \in AllWords: KeyRank(WordKeys, AllWords, v) = j
                    IN  Plain[Base(w[1]) + w[2]]]]

\* A word is where its key puts it.
LEMMA HuffAt ==
    ASSUME CodedRow, NEW w \in AllWords
    PROVE  LET j == KeyRank(WordKeys, AllWords, w)
           IN  j \in DOMAIN RecordOf.huff /\ RecordOf.huff[j] = Content(w[1], w[2])
<1> DEFINE R(v) == KeyRank(WordKeys, AllWords, v)
           word(j) == CHOOSE v \in AllWords: R(v) = j
<1>1. R(w) \in 0 .. (Cardinality(AllWords) - 1)
      /\ \A v \in AllWords: R(v) = R(w) => v = w
  BY AllWordsFinite, KeysOfWords, KeyRankGrows
<1>2. word(R(w)) = w
  <2> HIDE DEF R
  <2> QED BY <1>1
<1>3. RecordOf.huff = [j \in 0 .. (Cardinality(AllWords) - 1) |->
                          Plain[Base(word(j)[1]) + word(j)[2]]]
  BY DEF RecordOf
<1> HIDE DEF R, word
<1>4. RecordOf.huff[R(w)] = Plain[Base(w[1]) + w[2]]
  BY <1>1, <1>2, <1>3
<1>5. w[1] \in Chunks /\ w[2] \in Nat /\ w[2] < NumWords(w[1])
  BY DEF AllWords
<1>6. Plain[Base(w[1]) + w[2]] = Content(w[1], w[2])
  BY <1>5, PlainContent
<1>7. R(w) \in DOMAIN RecordOf.huff
  BY <1>1, <1>3
<1> QED BY <1>4, <1>6, <1>7 DEF R

\* There is a chunk with the most words.
LEMMA MostWords ==
    ASSUME CodedRow
    PROVE  \E n \in {WordCounts[c]: c \in Chunks}: \A m \in {WordCounts[c]: c \in Chunks}: n >= m
<1>1. PICK t \in Nat: t = Base(Groups * Lanes)
  BY BaseFacts, ChunksType
<1>2. ASSUME NEW c \in Chunks PROVE WordCounts[c] \in 0 .. t
  <2>1. c + 1 \in 0 .. (Groups * Lanes) /\ Groups * Lanes \in (c + 1) .. (Groups * Lanes)
        /\ c \in 0 .. (Groups * Lanes)
    BY ChunksType DEF Chunks
  <2>2. Base(c + 1) <= t /\ Base(c) \in Nat /\ Base(c + 1) = Base(c) + NumWords(c)
        /\ NumWords(c) \in Nat
    BY <1>1, <2>1, BaseFacts
  <2> QED BY <2>2 DEF WordCounts
<1> DEFINE A == {t - WordCounts[c]: c \in Chunks}
<1>3. A \in SUBSET Nat
  BY <1>2
<1>4. 0 \in Chunks
  <2>1. Groups \in Nat \ {0} /\ Lanes \in Nat \ {0}
    BY GeometryAssumption
  <2>2. Groups * Lanes \in Nat \ {0}
    BY <2>1, SMT
  <2> QED BY <2>2 DEF Chunks
<1>5. PICK a \in A: \A b \in A: a <= b
  <2>1. A # {}
    BY <1>4
  <2> HIDE DEF A
  <2> QED BY <1>3, <2>1, LeastNumber
<1>6. PICK c \in Chunks: a = t - WordCounts[c]
  BY <1>5
<1>7. \A d \in Chunks: t - WordCounts[c] <= t - WordCounts[d]
  BY <1>5, <1>6
<1>8. \A d \in Chunks: WordCounts[c] >= WordCounts[d]
  BY <1>2, <1>7
<1> QED BY <1>8

\* encode lays the record out like that.
LEMMA EncodedRecord ==
    ASSUME CodedRow, Encode, phase' = "decode"
    PROVE  record' = RecordOf /\ rp' = [g \in GroupIds |-> Base(g * Lanes)]
<1> DEFINE bits == [c \in Chunks |-> BitsBefore(c)]
           nw == [c \in Chunks |-> WordsOf(bits[c])]
           Words(s) == SumFunctionOnSet(nw, s)
           base == [c \in Chunks |-> Words(0 .. (c - 1))]
           total == Words(Chunks)
           kmax == Max({nw[c]: c \in Chunks})
           valid == {w \in Chunks \X (0 .. (kmax - 1)): RefillAt(bits[w[1]], w[2]) < Chunk}
           key == [w \in valid |-> Key(w[1], RefillAt(bits[w[1]], w[2]))]
           plain == PlainWords(bits, base, total)
           Rank(w) == Cardinality({v \in valid: key[v] < key[w]})
           huff == [j \in 0 .. (Cardinality(valid) - 1) |->
                       LET w == CHOOSE v \in valid: Rank(v) = j
                       IN  plain[base[w[1]] + w[2]]]
<1>1. /\ record' = [gstart |-> [g \in 0 .. Groups |-> Words(0 .. (g * Lanes - 1))],
                    fixed  |-> FixedWords, huff |-> huff]
      /\ rp' = [g \in GroupIds |-> record'.gstart[g]]
  BY DEF Encode
<1>2. bits = Bits
  BY DEF Bits
<1>3. nw = WordCounts
  BY DEF WordCounts, NumWords
<1> HIDE DEF bits, nw
<1>4. \A m: Words(0 .. (m - 1)) = Base(m)
  BY <1>3 DEF Base
<1>5. base = Bases
  BY <1>4 DEF Bases
<1>6. total = Base(Groups * Lanes)
  BY <1>4 DEF Chunks
<1> HIDE DEF Words, base, total
<1>7. plain = Plain
  BY <1>2, <1>5, <1>6 DEF Plain
<1>8. valid = AllWords
  <2>1. kmax \in Nat /\ \A c \in Chunks: NumWords(c) \in Nat /\ NumWords(c) <= kmax
    <3> DEFINE M == {nw[c]: c \in Chunks}
    <3>1. \E n \in M: \A m \in M: n >= m
      BY <1>3, MostWords
    <3> HIDE DEF M
    <3>2. Max(M) \in M /\ \A m \in M: Max(M) >= m
      BY <3>1 DEF Max
    <3>3. \A c \in Chunks: nw[c] = NumWords(c) /\ NumWords(c) \in Nat
      BY <1>3, AtWords DEF WordCounts
    <3>4. \A m \in M: m \in Nat
      BY <3>3 DEF M
    <3>5. \A c \in Chunks: NumWords(c) \in M
      BY <3>3 DEF M
    <3>6. kmax = Max(M)
      BY DEF M
    <3> HIDE DEF kmax
    <3> QED BY <3>2, <3>3, <3>4, <3>5, <3>6
  <2> HIDE DEF kmax
  <2>2. ASSUME NEW c \in Chunks, NEW k \in Nat
        PROVE  RefillAt(bits[c], k) < Chunk <=> k < NumWords(c)
    BY <1>2, AtWords DEF At, Bits
  <2>3. ASSUME NEW w \in Chunks \X Nat
        PROVE  w \in valid <=> w \in AllWords
    <3>1. w[1] \in Chunks /\ w[2] \in Nat /\ w = <<w[1], w[2]>>
      OBVIOUS
    <3>2. w[2] < NumWords(w[1]) => w[2] \in 0 .. (kmax - 1)
      BY <2>1, <3>1
    <3>3. w[2] \in 0 .. (kmax - 1) => w \in Chunks \X (0 .. (kmax - 1))
      BY <3>1
    <3> QED BY <2>2, <3>1, <3>2, <3>3 DEF AllWords
  <2>4. valid \subseteq Chunks \X Nat /\ AllWords \subseteq Chunks \X Nat
    BY <2>1 DEF AllWords
  <2> HIDE DEF valid
  <2> QED BY <2>3, <2>4
<1>9. key = WordKeys
  <2>1. \A w \in AllWords: Key(w[1], RefillAt(bits[w[1]], w[2])) = KeyOf(w)
    BY <1>2 DEF KeyOf, At, AllWords, Bits
  <2> HIDE DEF valid
  <2> QED BY <1>8, <2>1 DEF WordKeys
<1> HIDE DEF plain, valid, key
<1>10. \A w: Rank(w) = KeyRank(WordKeys, AllWords, w)
  BY <1>8, <1>9 DEF KeyRank
<1> HIDE DEF Rank
<1> DEFINE word(j) == CHOOSE v \in valid: Rank(v) = j
           wordOf(j) == CHOOSE v \in AllWords: KeyRank(WordKeys, AllWords, v) = j
<1>11. \A j: word(j) = wordOf(j)
  BY <1>8, <1>10
<1>12. ASSUME NEW j \in 0 .. (Cardinality(AllWords) - 1)
       PROVE  base[word(j)[1]] + word(j)[2] = Base(wordOf(j)[1]) + wordOf(j)[2]
  <2>1. PICK v \in AllWords: KeyRank(WordKeys, AllWords, v) = j
    BY AllWordsFinite, KeysOfWords, KeyRankOnto
  <2>2. wordOf(j) \in AllWords
    BY <2>1
  <2> HIDE DEF word, wordOf
  <2>3. wordOf(j)[1] \in Chunks
    BY <2>2 DEF AllWords
  <2> QED BY <1>5, <1>11, <2>3 DEF Bases
<1>13. huff = [j \in 0 .. (Cardinality(AllWords) - 1) |-> Plain[Base(wordOf(j)[1]) + wordOf(j)[2]]]
  <2>1. huff = [j \in 0 .. (Cardinality(valid) - 1) |-> plain[base[word(j)[1]] + word(j)[2]]]
    OBVIOUS
  <2> HIDE DEF word, wordOf, huff
  <2> QED BY <1>7, <1>8, <1>12, <2>1
<1>14. huff = RecordOf.huff
  BY <1>13 DEF RecordOf
<1> HIDE DEF huff, word, wordOf
<1>15. [g \in 0 .. Groups |-> Words(0 .. (g * Lanes - 1))] = [g \in 0 .. Groups |-> Base(g * Lanes)]
  BY <1>4
<1>16. record' = RecordOf
  BY <1>1, <1>14, <1>15 DEF RecordOf
<1>17. \A g \in GroupIds: record'.gstart[g] = Base(g * Lanes)
  <2>1. \A g \in GroupIds: g \in 0 .. Groups
    BY GeometryAssumption DEF GroupIds
  <2> QED BY <1>16, <2>1 DEF RecordOf
<1> QED BY <1>1, <1>16, <1>17

-----------------------------------------------------------------------------
(* The code: lengths of 1 to Limit bits, and codes of that many bits.      *)

LEMMA SymbolsFinite ==
    /\ Symbols = 0 .. (NumSymbols - 1) /\ NumSymbols \in Nat \ {0}
    /\ IsFiniteSet(Symbols) /\ Cardinality(Symbols) = NumSymbols
<1>1. NumSymbols \in Nat \ {0}
  BY CodeAssumption
<1> QED BY <1>1, FS_Interval DEF Symbols

\* A code's bits in reverse are a number of as many bits.
LEMMA ReversedRange ==
    ASSUME NEW v \in Int, NEW n \in 0 .. MaxBits
    PROVE  Reversed(v, n) \in Nat /\ Reversed(v, n) < 2 ^ n
<1> DEFINE f == [b \in 0 .. (n - 1) |-> ((v \div 2 ^ b) % 2) * 2 ^ (n - 1 - b)]
           Lowest(m) == SumFunctionOnSet(f, 0 .. (m - 1))
<1>1. ASSUME NEW b \in 0 .. (n - 1)
      PROVE  /\ f[b] \in Nat /\ 2 ^ (n - 1 - b) \in Nat /\ f[b] <= 2 ^ (n - 1 - b)
             /\ 2 ^ (n - b) = 2 * 2 ^ (n - 1 - b)
  <2>1. b \in 0 .. MaxBits /\ n - 1 - b \in 0 .. MaxBits /\ n - b = (n - 1 - b) + 1
    BY MaxBitsType
  <2>2. PICK x \in Nat: x = 2 ^ (n - 1 - b) /\ 2 ^ (n - b) = 2 * x
    BY <2>1, PowersAssumption
  <2>3. PICK d \in Nat \ {0}: d = 2 ^ b
    BY <2>1, PowType
  <2>4. PICK e \in Int: e = v \div d
    BY SMT
  <2>5. e % 2 \in 0 .. 1
    OBVIOUS
  <2>6. f[b] = (e % 2) * x
    BY <2>2, <2>3, <2>4
  <2>7. (e % 2) * x = 0 \/ (e % 2) * x = x
    BY <2>5
  <2> HIDE DEF f
  <2> QED BY <2>2, <2>6, <2>7
<1>2. ASSUME NEW m \in 0 .. n
      PROVE  IsFiniteSet(0 .. (m - 1)) /\ \A b \in 0 .. (m - 1): f[b] \in Nat
  <2>1. \A b \in 0 .. (m - 1): b \in 0 .. (n - 1)
    BY MaxBitsType
  <2> HIDE DEF f
  <2> QED BY <1>1, <2>1, FS_Interval
<1>3. ASSUME NEW m \in 0 .. n PROVE Lowest(m) \in Nat
  <2> HIDE DEF f
  <2> QED BY <1>2, SumType
<1>4. ASSUME NEW m \in 0 .. (n - 1) PROVE Lowest(m + 1) = f[m] + Lowest(m)
  <2> DEFINE S == 0 .. ((m + 1) - 1)
  <2>1. m \in S /\ S \ {m} = 0 .. (m - 1) /\ m + 1 \in 0 .. n
    BY MaxBitsType
  <2>2. IsFiniteSet(S) /\ \A b \in S: f[b] \in Nat
    <3> HIDE DEF f
    <3> QED BY <1>2, <2>1
  <2> HIDE DEF f, S
  <2>3. SumFunctionOnSet(f, S) = f[m] + SumFunctionOnSet(f, S \ {m})
    BY <2>1, <2>2, SumRemove
  <2> QED BY <2>1, <2>3, Zenon DEF S
<1> HIDE DEF Lowest, f
<1> DEFINE A == {m \in 0 .. n: ~ Lowest(m) + 2 ^ (n - m) <= 2 ^ n}
<1>5. ASSUME A # {} PROVE FALSE
  <2>1. PICK m \in A: \A k \in A: m <= k
    <3>1. A \in SUBSET Nat
      BY MaxBitsType
    <3> HIDE DEF A
    <3> QED BY <1>5, <3>1, LeastNumber
  <2>2. m \in 0 .. n /\ ~ Lowest(m) + 2 ^ (n - m) <= 2 ^ n
    BY <2>1
  <2>3. PICK p \in Nat: p = 2 ^ n
    BY PowType
  <2>4. m # 0
    <3>1. SUFFICES ASSUME m = 0 PROVE FALSE
      OBVIOUS
    <3>2. 0 .. (0 - 1) = {}
      OBVIOUS
    <3>3. Lowest(0) = 0
      BY <3>2, SumEmpty, Zenon DEF Lowest
    <3>4. n - m = n
      BY <3>1, MaxBitsType
    <3> QED BY <2>2, <2>3, <3>1, <3>3, <3>4
  <2>5. PICK k \in 0 .. (n - 1): k + 1 = m /\ n - m = n - 1 - k
    <3>1. m - 1 \in 0 .. (n - 1) /\ (m - 1) + 1 = m /\ n - m = n - 1 - (m - 1)
      BY <2>2, <2>4, MaxBitsType
    <3> QED BY <3>1
  <2>6. k \notin A /\ k \in 0 .. n
    BY <2>1, <2>2, <2>5, MaxBitsType
  <2>7. Lowest(k) + 2 ^ (n - k) <= 2 ^ n
    BY <2>6
  <2>8. PICK x \in Nat, y \in Nat, z \in Nat:
            /\ x = 2 ^ (n - 1 - k) /\ 2 ^ (n - k) = 2 * x
            /\ y = f[k] /\ y <= x /\ z = Lowest(k)
    BY <1>1, <1>3, <2>6
  <2>9. Lowest(m) = y + z
    BY <1>4, <2>5, <2>8
  <2> HIDE DEF A
  <2> QED BY <2>2, <2>3, <2>5, <2>7, <2>8, <2>9
<1>6. Lowest(n) + 2 ^ (n - n) <= 2 ^ n /\ n \in 0 .. n
  <2>1. n \in 0 .. n
    BY MaxBitsType
  <2>2. n \notin A
    BY <1>5
  <2> QED BY <2>1, <2>2
<1>7. n - n = 0 /\ 2 ^ 0 = 1
  BY MaxBitsType
<1>8. Lowest(n) + 1 <= 2 ^ n
  BY <1>6, <1>7
<1>9. Reversed(v, n) = Lowest(n)
  BY DEF Reversed, Lowest, f
<1>10. 2 ^ n \in Nat
  BY PowType
<1> QED BY <1>3, <1>6, <1>8, <1>9, <1>10

\* The nodes of the heap divide the symbols, and only a node of one symbol has
\* no bit for it yet.
Tree(h, len) ==
    /\ len \in [Symbols -> Nat]
    /\ IsFiniteSet(h)
    /\ \A x \in h: x.symbols \in SUBSET Symbols /\ x.symbols # {}
    /\ \A x, y \in h: x # y => x.symbols \cap y.symbols = {}
    /\ \A s \in Symbols: \E x \in h: s \in x.symbols
    /\ \A s \in Symbols: len[s] = 0 => \E x \in h: x.symbols = {s}

\* Every symbol has a code of its length, and is the only one that the table
\* has for it.
CodeInv ==
    /\ CodedRow
    /\ \A x \in Entries: \A s \in Symbols: s \in Writers(lengths, codes, x) => lut[x] = s

LEMMA LeavesAreTree ==
    ASSUME NEW c
    PROVE  Tree(Leaves(c), NoLengths)
<1> DEFINE leaf(s) == [count |-> c[s], id |-> s, symbols |-> {s}]
           f == [s \in Symbols |-> leaf(s)]
           h == Leaves(c)
<1>1. h = {leaf(s): s \in Symbols}
  BY DEF Leaves
<1>2. \A s \in Symbols: leaf(s) \in h /\ leaf(s).symbols = {s}
  BY <1>1
<1>3. \A x \in h: \E s \in Symbols: x = leaf(s)
  BY <1>1
<1>4. IsFiniteSet(h)
  <2>1. f \in [Symbols -> h]
    BY <1>2
  <2>2. \A s, t \in Symbols: f[s] = f[t] => s = t
    OBVIOUS
  <2>3. \A x \in h: \E s \in Symbols: f[s] = x
    BY <1>3
  <2> HIDE DEF f, h
  <2> QED BY <2>1, <2>2, <2>3, SymbolsFinite, SameSize
<1> HIDE DEF h, leaf
<1>5. \A x \in h: x.symbols \in SUBSET Symbols /\ x.symbols # {}
  BY <1>2, <1>3
<1>6. \A x, y \in h: x # y => x.symbols \cap y.symbols = {}
  BY <1>2, <1>3
<1>7. \A s \in Symbols: \E x \in h: x.symbols = {s} /\ s \in x.symbols
  BY <1>2
<1>8. NoLengths \in [Symbols -> Nat]
  BY DEF NoLengths
<1> QED BY <1>4, <1>5, <1>6, <1>7, <1>8 DEF Tree, h

LEMMA MergeKeepsTree ==
    ASSUME Tree(heap, lengths), Merge
    PROVE  Tree(heap', lengths')
<1>1. PICK a \in heap, b \in heap:
          /\ a # b
          /\ heap' = (heap \ {a, b}) \union
                {[count   |-> a.count + b.count,
                  id      |-> 2 * NumSymbols - Cardinality(heap),
                  symbols |-> a.symbols \union b.symbols]}
          /\ lengths' = [s \in Symbols |->
                IF s \in a.symbols \union b.symbols THEN lengths[s] + 1 ELSE lengths[s]]
  BY DEF Merge
<1>2. PICK n: /\ n.symbols = a.symbols \union b.symbols
              /\ heap' = (heap \ {a, b}) \union {n}
  BY <1>1
<1>3. lengths' \in [Symbols -> Nat]
  BY <1>1 DEF Tree
<1>4. IsFiniteSet(heap')
  <2>1. IsFiniteSet(heap \ {a, b})
    BY FS_Subset DEF Tree
  <2> QED BY <1>2, <2>1, FS_AddElement
<1>5. \A x \in heap': x.symbols \in SUBSET Symbols /\ x.symbols # {}
  BY <1>2 DEF Tree
<1>6. \A x, y \in heap': x # y => x.symbols \cap y.symbols = {}
  <2> SUFFICES ASSUME NEW x \in heap', NEW y \in heap', x # y PROVE x.symbols \cap y.symbols = {}
    OBVIOUS
  <2>1. CASE x \in heap \ {a, b} /\ y \in heap \ {a, b}
    BY <2>1 DEF Tree
  <2>2. CASE x = n /\ y \in heap \ {a, b}
    <3>1. a.symbols \cap y.symbols = {} /\ b.symbols \cap y.symbols = {}
      BY <2>2 DEF Tree
    <3> QED BY <1>2, <2>2, <3>1
  <2>3. CASE y = n /\ x \in heap \ {a, b}
    <3>1. a.symbols \cap x.symbols = {} /\ b.symbols \cap x.symbols = {}
      BY <2>3 DEF Tree
    <3> QED BY <1>2, <2>3, <3>1
  <2> QED BY <1>2, <2>1, <2>2, <2>3
<1>7. ASSUME NEW s \in Symbols
      PROVE  /\ \E x \in heap': s \in x.symbols
             /\ lengths'[s] = 0 => \E x \in heap': x.symbols = {s}
  <2>1. CASE s \in n.symbols
    <3>1. lengths'[s] # 0
      BY <1>1, <1>2, <2>1 DEF Tree
    <3> QED BY <1>2, <2>1, <3>1
  <2>2. CASE s \notin n.symbols
    <3>1. lengths'[s] = lengths[s] /\ s \notin a.symbols /\ s \notin b.symbols
      BY <1>1, <1>2, <2>2
    <3>2. PICK x \in heap: s \in x.symbols
      BY DEF Tree
    <3>3. x \in heap'
      BY <1>2, <3>1, <3>2
    <3>4. ASSUME NEW y \in heap, y.symbols = {s} PROVE y \in heap'
      <4>1. s \in y.symbols
        BY <3>4
      <4> QED BY <1>2, <3>1, <4>1
    <3>5. lengths[s] = 0 => \E y \in heap: y.symbols = {s}
      BY DEF Tree
    <3> QED BY <3>1, <3>2, <3>3, <3>4, <3>5
  <2> QED BY <2>1, <2>2
<1> QED BY <1>3, <1>4, <1>5, <1>6, <1>7 DEF Tree

\* A tree that is one node gives every symbol a bit.
LEMMA OneNode ==
    ASSUME NEW h, NEW len, Tree(h, len), Cardinality(h) = 1, NEW s \in Symbols
    PROVE  len[s] # 0
<1>1. PICK x: h = {x}
  BY FS_Singleton DEF Tree
<1>2. SUFFICES ASSUME len[s] = 0 PROVE FALSE
  OBVIOUS
<1>3. x.symbols = {s} /\ \A t \in Symbols: t \in x.symbols
  BY <1>1, <1>2 DEF Tree
<1>4. 0 \in Symbols /\ 1 \in Symbols
  BY CodeAssumption DEF Symbols
<1> QED BY <1>3, <1>4

-----------------------------------------------------------------------------
(* Bits in reverse.                                                        *)

Bit(v, n) == (v \div 2 ^ n) % 2

\* Two divisions are one.
LEMMA DivDiv ==
    ASSUME NEW v \in Nat, NEW m \in Nat \ {0}, NEW n \in Nat \ {0}
    PROVE  /\ (v \div m) \div n = v \div (n * m)
           /\ v % (n * m) = ((v \div m) % n) * m + (v % m)
<1>1. PICK d \in Nat: d = v \div m
  BY SMT
<1>2. PICK r \in 0 .. (m - 1): r = v % m /\ v = d * m + r
  <2>1. v = d * m + (v % m) /\ v % m \in 0 .. (m - 1)
    BY <1>1, SMT
  <2> QED BY <2>1
<1>3. PICK e \in Nat: e = d \div n
  BY SMT
<1>4. PICK s \in 0 .. (n - 1): s = d % n /\ d = e * n + s
  <2>1. d = e * n + (d % n) /\ d % n \in 0 .. (n - 1)
    BY <1>3, SMT
  <2> QED BY <2>1
<1>5. v = e * (n * m) + (s * m + r)
  BY <1>2, <1>4, SMT
<1>6. s * m + r \in 0 .. (n * m - 1)
  <2>1. n \in Nat
    OBVIOUS
  <2> QED BY <2>1, PackBelow, Zenon
<1>7. PICK p \in Nat \ {0}: p = n * m
  <2>1. n * m \in Nat \ {0}
    BY SMT
  <2> QED BY <2>1
<1>8. PICK t \in 0 .. (p - 1): t = s * m + r /\ v = e * p + t
  BY <1>5, <1>6, <1>7
<1>9. (e * p + t) \div p = e /\ (e * p + t) % p = t
  BY DivMod
<1>10. v \div p = e /\ v % p = t
  BY <1>8, <1>9, Zenon
<1>11. v \div (n * m) = e /\ v % (n * m) = s * m + r
  BY <1>7, <1>8, <1>10, Zenon
<1>12. (v \div m) \div n = e /\ (v \div m) % n = s /\ v % m = r
  BY <1>1, <1>2, <1>3, <1>4, Zenon
<1> QED BY <1>11, <1>12, Zenon

LEMMA BitFacts ==
    ASSUME NEW v \in Nat, NEW n \in Nat, n + 1 <= MaxBits
    PROVE  /\ Bit(v, n) \in 0 .. 1
           /\ v \div 2 \in Nat /\ Bit(v \div 2, n) = Bit(v, n + 1)
           /\ v % 2 ^ n \in 0 .. (2 ^ n - 1)
           /\ v % 2 ^ (n + 1) = Bit(v, n) * 2 ^ n + (v % 2 ^ n)
<1>1. PICK p \in Nat \ {0}: p = 2 ^ n /\ 2 ^ (n + 1) = 2 * p
  <2>1. n \in 0 .. MaxBits
    BY MaxBitsType
  <2> QED BY <2>1, PowersAssumption
<1>2. PICK d \in Nat: d = v \div p
  BY SMT
<1>3. d % 2 \in 0 .. 1
  BY SMT
<1>4. PICK h \in Nat: h = v \div 2
  BY SMT
<1>5. (v \div 2) \div p = v \div (p * 2)
  <2>1. 2 \in Nat \ {0}
    OBVIOUS
  <2> QED BY <2>1, DivDiv, Zenon
<1>6. p * 2 = 2 * p
  BY SMT
<1>7. v % (2 * p) = ((v \div p) % 2) * p + (v % p)
  <2>1. 2 \in Nat \ {0}
    OBVIOUS
  <2> QED BY <2>1, DivDiv, Zenon
<1>8. v % p \in 0 .. (p - 1)
  BY SMT
<1>9. Bit(v, n) = d % 2
  BY <1>1, <1>2, Zenon DEF Bit
<1>10. Bit(v \div 2, n) = Bit(v, n + 1)
  BY <1>1, <1>5, <1>6, Zenon DEF Bit
<1>11. v % 2 ^ (n + 1) = Bit(v, n) * 2 ^ n + (v % 2 ^ n)
  BY <1>1, <1>7, Zenon DEF Bit
<1> QED BY <1>1, <1>3, <1>4, <1>8, <1>9, <1>10, <1>11

\* The reverse of one more bit.
LEMMA ReversedStep ==
    ASSUME NEW v \in Nat, NEW n \in Nat, n + 1 <= MaxBits
    PROVE  /\ Reversed(v, 0) = 0
           /\ Reversed(v, n) \in Nat
           /\ Reversed(v, n + 1) = 2 * Reversed(v, n) + Bit(v, n)
<1> DEFINE f == [b \in 0 .. (n - 1) |-> ((v \div 2 ^ b) % 2) * 2 ^ (n - 1 - b)]
           g == [b \in 0 .. ((n + 1) - 1) |-> ((v \div 2 ^ b) % 2) * 2 ^ ((n + 1) - 1 - b)]
           S == 0 .. (n - 1)
           T == 0 .. ((n + 1) - 1)
<1>1. \A b \in S: b + 1 <= MaxBits /\ b \in Nat /\ b \in T
  BY MaxBitsType
<1>2. ASSUME NEW b \in S PROVE f[b] \in Nat /\ g[b] \in Nat /\ g[b] = f[b] * 2
  <2>1. Bit(v, b) \in 0 .. 1 /\ b \in T
    BY <1>1, BitFacts
  <2>2. n - 1 - b \in 0 .. MaxBits /\ (n + 1) - 1 - b = (n - 1 - b) + 1
    BY MaxBitsType
  <2>3. PICK x \in Nat: x = 2 ^ (n - 1 - b) /\ 2 ^ ((n + 1) - 1 - b) = 2 * x
    BY <2>2, PowersAssumption
  <2>4. f[b] = Bit(v, b) * x /\ g[b] = Bit(v, b) * (2 * x)
    BY <2>1, <2>3 DEF Bit
  <2>5. \/ Bit(v, b) * x = 0 /\ Bit(v, b) * (2 * x) = 0
        \/ Bit(v, b) * x = x /\ Bit(v, b) * (2 * x) = 2 * x
    BY <2>1
  <2> HIDE DEF f, g
  <2> QED BY <2>4, <2>5
<1>3. g[n] = Bit(v, n) /\ Bit(v, n) \in Nat
  <2>1. Bit(v, n) \in 0 .. 1
    BY BitFacts
  <2>2. n \in T /\ (n + 1) - 1 - n = 0 /\ 2 ^ 0 = 1
    OBVIOUS
  <2>3. g[n] = Bit(v, n) * 1
    BY <2>2 DEF Bit
  <2> QED BY <2>1, <2>3
<1>4. IsFiniteSet(S) /\ IsFiniteSet(T) /\ n \in T /\ T \ {n} = S
  <2>1. IsFiniteSet(S) /\ IsFiniteSet(T)
    BY FS_Interval
  <2>2. n \in T /\ T \ {n} = S
    OBVIOUS
  <2> QED BY <2>1, <2>2
<1>5. \A b \in T: g[b] \in Nat
  <2>1. \A b \in T: b = n \/ b \in S
    OBVIOUS
  <2> HIDE DEF g, S, T
  <2> QED BY <1>2, <1>3, <2>1
<1>6. Reversed(v, n) = SumFunctionOnSet(f, S) /\ Reversed(v, n + 1) = SumFunctionOnSet(g, T)
  BY DEF Reversed
<1>7. Reversed(v, 0) = 0
  <2>1. 0 .. (0 - 1) = {}
    OBVIOUS
  <2>2. \A h: SumFunctionOnSet(h, 0 .. (0 - 1)) = 0
    BY <2>1, SumEmpty, Zenon
  <2> QED BY <2>2, Zenon DEF Reversed
<1> HIDE DEF f, g, S, T
<1>8. SumFunctionOnSet(g, T) = g[n] + SumFunctionOnSet(g, S)
  BY <1>4, <1>5, SumRemove
<1>9. SumFunctionOnSet(g, S) = SumFunctionOnSet(f, S) * 2
  BY <1>2, <1>4, SumScaled
<1>10. SumFunctionOnSet(f, S) \in Nat
  BY <1>2, <1>4, SumType
<1> QED BY <1>3, <1>6, <1>7, <1>8, <1>9, <1>10

\* The lowest bit becomes the highest.
LEMMA ReversedLow ==
    ASSUME NEW v \in Nat, NEW n \in Nat, n + 1 <= MaxBits
    PROVE  Reversed(v, n + 1) = Bit(v, 0) * 2 ^ n + Reversed(v \div 2, n)
<1> DEFINE A == {k \in Nat: /\ k + 1 <= MaxBits
                            /\ Reversed(v, k + 1) # Bit(v, 0) * 2 ^ k + Reversed(v \div 2, k)}
<1> SUFFICES ASSUME A # {} PROVE FALSE
  OBVIOUS
<1>1. PICK k \in A: \A j \in A: k <= j
  <2>1. A \in SUBSET Nat
    OBVIOUS
  <2> HIDE DEF A
  <2> QED BY <2>1, LeastNumber
<1>2. /\ k \in Nat /\ k + 1 <= MaxBits
      /\ Reversed(v, k + 1) # Bit(v, 0) * 2 ^ k + Reversed(v \div 2, k)
  BY <1>1
<1>3. PICK h \in Nat: h = v \div 2
  BY SMT
<1>4. Bit(v, 0) \in 0 .. 1
  <2>1. 0 \in Nat /\ 0 + 1 <= MaxBits
    BY <1>2, MaxBitsType
  <2> QED BY <2>1, BitFacts
<1>5. CASE k = 0
  <2>1. Reversed(v, 0 + 1) = 2 * Reversed(v, 0) + Bit(v, 0) /\ Reversed(v, 0) = 0
    BY <1>2, <1>5, ReversedStep
  <2>2. Reversed(h, 0) = 0
    BY <1>2, <1>5, ReversedStep
  <2>3. 2 ^ 0 = 1
    OBVIOUS
  <2> QED BY <1>2, <1>3, <1>4, <1>5, <2>1, <2>2, <2>3
<1>6. CASE k # 0
  <2>1. PICK j \in Nat: j + 1 = k
    BY <1>2, <1>6
  <2>2. j + 1 <= MaxBits /\ j \in 0 .. MaxBits /\ ~ k <= j
    BY <1>2, <2>1, MaxBitsType
  <2>3. Reversed(v, k) = Bit(v, 0) * 2 ^ j + Reversed(h, j)
    <3>1. j \notin A
      <4> HIDE DEF A
      <4> QED BY <1>1, <2>2
    <3> QED BY <1>3, <2>1, <2>2, <3>1
  <2>4. PICK x \in Nat: x = 2 ^ j /\ 2 ^ k = 2 * x
    BY <2>1, <2>2, PowersAssumption
  <2>5. Reversed(v, k + 1) = 2 * Reversed(v, k) + Bit(v, k)
    BY <1>2, ReversedStep
  <2>6. PICK y \in Nat: y = Reversed(h, j)
    BY <2>2, ReversedStep
  <2>7. Reversed(h, k) = 2 * y + Bit(h, j)
    BY <2>1, <2>2, <2>6, ReversedStep
  <2>8. Bit(h, j) = Bit(v, k) /\ Bit(v, k) \in 0 .. 1
    <3>1. Bit(v \div 2, j) = Bit(v, j + 1)
      BY <2>2, BitFacts
    <3>2. Bit(v, k) \in 0 .. 1
      BY <1>2, BitFacts
    <3> QED BY <1>3, <2>1, <3>1, <3>2
  <2>9. PICK b \in 0 .. 1: b = Bit(v, 0)
    BY <1>4
  <2>10. PICK e \in 0 .. 1: e = Bit(v, k)
    BY <2>8
  <2>11. 2 * (b * x + y) + e = b * (2 * x) + (2 * y + e)
    BY SMT
  <2>12. Reversed(v, k + 1) = 2 * (b * x + y) + e
    BY <2>3, <2>4, <2>5, <2>6, <2>9, <2>10
  <2>13. Reversed(h, k) = 2 * y + e
    BY <2>7, <2>8, <2>10
  <2> QED BY <1>2, <1>3, <2>4, <2>9, <2>11, <2>12, <2>13
<1> QED BY <1>5, <1>6

\* The reverse of the lowest bits is the beginning of the reverse.
LEMMA ReversedPrefix ==
    ASSUME NEW v \in Nat, NEW n \in Nat, NEW d \in Nat, n + d <= MaxBits
    PROVE  \E r \in 0 .. (2 ^ d - 1): Reversed(v, n + d) = Reversed(v, n) * 2 ^ d + r
<1> DEFINE Right(k) == \E r \in 0 .. (2 ^ k - 1): Reversed(v, n + k) = Reversed(v, n) * 2 ^ k + r
           A == {k \in Nat: n + k <= MaxBits /\ ~ Right(k)}
<1> SUFFICES ASSUME A # {} PROVE FALSE
  OBVIOUS
<1>1. PICK k \in A: \A j \in A: k <= j
  <2>1. A \in SUBSET Nat
    OBVIOUS
  <2> HIDE DEF A
  <2> QED BY <2>1, LeastNumber
<1>2. k \in Nat /\ n + k <= MaxBits /\ ~ Right(k)
  BY <1>1
<1>3. PICK y \in Nat: y = Reversed(v, n)
  <2>1. n \in 0 .. MaxBits
    BY <1>2, MaxBitsType
  <2> QED BY <2>1, ReversedRange
<1>4. CASE k = 0
  <2>1. 2 ^ 0 = 1 /\ 0 \in 0 .. (1 - 1) /\ n + 0 = n
    OBVIOUS
  <2>2. Reversed(v, n + 0) = y * 1 + 0
    BY <1>3, <2>1
  <2>3. Right(0)
    BY <1>3, <2>1, <2>2
  <2> QED BY <1>2, <1>4, <2>3
<1>5. CASE k # 0
  <2>1. PICK j \in Nat: j + 1 = k
    BY <1>2, <1>5
  <2>2. n + j <= MaxBits /\ j \in 0 .. MaxBits /\ ~ k <= j /\ n + j \in Nat
        /\ (n + j) + 1 <= MaxBits /\ (n + j) + 1 = n + k
    BY <1>2, <2>1, MaxBitsType
  <2>3. Right(j)
    <3>1. j \notin A
      <4> HIDE DEF A
      <4> QED BY <1>1, <2>2
    <3> QED BY <2>2, <3>1
  <2>4. PICK x \in Nat: x = 2 ^ j /\ 2 ^ k = 2 * x
    BY <2>1, <2>2, PowersAssumption
  <2>5. PICK r \in 0 .. (x - 1): Reversed(v, n + j) = y * x + r
    BY <1>3, <2>3, <2>4
  <2>6. PICK b \in 0 .. 1: b = Bit(v, n + j)
    BY <2>2, BitFacts
  <2>7. Reversed(v, (n + j) + 1) = 2 * Reversed(v, n + j) + Bit(v, n + j)
    BY <2>2, ReversedStep
  <2>8. 2 * (y * x + r) + b = y * (2 * x) + (2 * r + b)
    BY SMT
  <2>9. 2 * r + b \in 0 .. (2 * x - 1)
    OBVIOUS
  <2>10. Reversed(v, n + k) = Reversed(v, n) * 2 ^ k + (2 * r + b)
    BY <1>3, <2>2, <2>4, <2>5, <2>6, <2>7, <2>8
  <2>11. 2 * r + b \in 0 .. (2 ^ k - 1)
    BY <2>4, <2>9
  <2> QED BY <1>2, <2>10, <2>11
<1> QED BY <1>4, <1>5

\* Reversing is its own inverse: the lowest bits of x are the reverse of c
\* exactly if c is the reverse of the lowest bits of x.
LEMMA ReversedTwice ==
    ASSUME NEW x \in Nat, NEW n \in 0 .. MaxBits, NEW c \in 0 .. (2 ^ n - 1)
    PROVE  x % 2 ^ n = Reversed(c, n) <=> Reversed(x, n) = c
<1> DEFINE Right(k) == \A v \in 0 .. (2 ^ k - 1): x % 2 ^ k = Reversed(v, k) <=> Reversed(x, k) = v
           A == {k \in Nat: k <= MaxBits /\ ~ Right(k)}
<1>1. SUFFICES ASSUME A # {} PROVE FALSE
  <2>1. n \in Nat /\ n <= MaxBits
    BY MaxBitsType
  <2>2. Right(n)
    BY <1>1, <2>1
  <2> QED BY <2>2
<1>2. PICK k \in A: \A j \in A: k <= j
  <2>1. A \in SUBSET Nat
    OBVIOUS
  <2> HIDE DEF A
  <2> QED BY <1>1, <2>1, LeastNumber
<1>3. k \in Nat /\ k <= MaxBits /\ ~ Right(k)
  BY <1>2
<1>4. CASE k = 0
  <2>1. 2 ^ 0 = 1 /\ x % 1 = 0
    OBVIOUS
  <2>2. 0 + 1 <= MaxBits
    BY MaxBitsType
  <2>3. \A v \in Nat: Reversed(v, 0) = 0
    BY <2>2, ReversedStep
  <2>4. \A v \in 0 .. (1 - 1): v = 0
    OBVIOUS
  <2>5. Right(0)
    BY <2>1, <2>3, <2>4
  <2> QED BY <1>3, <1>4, <2>5
<1>5. CASE k # 0
  <2>1. PICK j \in Nat: j + 1 = k
    BY <1>3, <1>5
  <2>2. j <= MaxBits /\ j \in 0 .. MaxBits /\ ~ k <= j /\ j + 1 <= MaxBits
    BY <1>3, <2>1, MaxBitsType
  <2>3. Right(j)
    <3>1. j \notin A
      <4> HIDE DEF A
      <4> QED BY <1>2, <2>2
    <3> QED BY <2>2, <3>1
  <2>4. PICK p \in Nat \ {0}: p = 2 ^ j /\ 2 ^ k = 2 * p
    BY <2>1, <2>2, PowersAssumption
  <2>5. PICK v \in 0 .. (2 * p - 1): ~ (x % 2 ^ k = Reversed(v, k) <=> Reversed(x, k) = v)
    BY <1>3, <2>4
  <2>6. PICK u \in Nat: u = v \div 2
    BY SMT
  <2>7. PICK b \in 0 .. 1: b = v % 2 /\ v = 2 * u + b
    <3>1. v % 2 \in 0 .. 1 /\ v = 2 * (v \div 2) + (v % 2)
      BY SMT
    <3> QED BY <2>6, <3>1
  <2>8. u \in 0 .. (p - 1)
    BY <2>7
  <2>9. x % p = Reversed(u, j) <=> Reversed(x, j) = u
    BY <2>3, <2>4, <2>8
  <2>10. PICK e \in 0 .. 1: e = Bit(x, j)
    BY <2>2, BitFacts
  <2>11. PICK l \in 0 .. (p - 1): l = x % p /\ x % 2 ^ k = e * p + l
    <3>1. x % 2 ^ j \in 0 .. (2 ^ j - 1) /\ x % 2 ^ (j + 1) = Bit(x, j) * 2 ^ j + (x % 2 ^ j)
      BY <2>2, BitFacts
    <3> QED BY <2>1, <2>4, <2>10, <3>1
  <2>12. PICK y \in Nat: y = Reversed(x, j) /\ Reversed(x, k) = 2 * y + e
    <3>1. Reversed(x, j) \in Nat /\ Reversed(x, j + 1) = 2 * Reversed(x, j) + Bit(x, j)
      BY <2>2, ReversedStep
    <3> QED BY <2>1, <2>10, <3>1
  <2>13. PICK z \in 0 .. (p - 1): z = Reversed(u, j)
    <3>1. Reversed(u, j) \in Nat /\ Reversed(u, j) < 2 ^ j
      <4>1. u \in Int
        OBVIOUS
      <4> QED BY <2>2, <4>1, ReversedRange
    <3> QED BY <2>4, <3>1
  <2>14. Reversed(v, k) = b * p + z
    <3>1. Reversed(v, j + 1) = Bit(v, 0) * 2 ^ j + Reversed(v \div 2, j)
      BY <2>2, ReversedLow
    <3>2. Bit(v, 0) = b
      <4>1. 2 ^ 0 = 1 /\ v \div 1 = v
        OBVIOUS
      <4> QED BY <2>7, <4>1, Zenon DEF Bit
    <3> QED BY <2>1, <2>4, <2>6, <2>13, <3>1, <3>2
  <2>15. l = z <=> y = u
    BY <2>9, <2>11, <2>12, <2>13
  <2>16. e * p + l = b * p + z <=> e = b /\ l = z
    <3>1. (e = 0 => e * p = 0) /\ (e = 1 => e * p = p) /\ (b = 0 => b * p = 0) /\ (b = 1 => b * p = p)
      BY SMT
    <3>2. (e = 0 \/ e = 1) /\ (b = 0 \/ b = 1)
      OBVIOUS
    <3> QED BY <3>1, <3>2
  <2>17. 2 * y + e = 2 * u + b <=> e = b /\ y = u
    OBVIOUS
  <2>18. x % 2 ^ k = Reversed(v, k) <=> e * p + l = b * p + z
    BY <2>11, <2>14
  <2>19. Reversed(x, k) = v <=> 2 * y + e = 2 * u + b
    BY <2>7, <2>12
  <2> QED BY <2>5, <2>15, <2>16, <2>17, <2>18, <2>19
<1> QED BY <1>4, <1>5

-----------------------------------------------------------------------------
(* A tree's lengths fill the table.                                        *)

\* The table entries of a code of every length.
Shares(len) == [s \in Symbols |-> 2 ^ (Limit - len[s])]

\* If no code below a node is longer than the limit, their shares would fill the
\* table (Kraft's equality).
Kraft(h, len) ==
    \A x \in h: (\A s \in x.symbols: len[s] <= Limit)
                    => SumFunctionOnSet(Shares(len), x.symbols) = 2 ^ Limit

LEMMA ShareType ==
    ASSUME NEW n \in Nat, n <= Limit
    PROVE  Limit - n \in 0 .. MaxBits /\ 2 ^ (Limit - n) \in Nat \ {0}
<1>1. Limit - n \in 0 .. MaxBits
  BY MaxBitsType
<1> QED BY <1>1, PowType

LEMMA LeavesAreKraft ==
    ASSUME NEW c
    PROVE  Kraft(Leaves(c), NoLengths)
<1> SUFFICES ASSUME NEW x \in Leaves(c)
             PROVE  SumFunctionOnSet(Shares(NoLengths), x.symbols) = 2 ^ Limit
  BY DEF Kraft
<1>1. PICK s \in Symbols: x.symbols = {s}
  BY DEF Leaves
<1>2. Limit - 0 = Limit /\ 0 <= Limit
  BY MaxBitsType
<1>3. Shares(NoLengths)[s] = 2 ^ Limit /\ 2 ^ Limit \in Nat
  BY <1>2, ShareType DEF Shares, NoLengths
<1> DEFINE S == {s}
           f == Shares(NoLengths)
<1>4. IsFiniteSet(S) /\ s \in S /\ S \ {s} = {}
  BY FS_Singleton
<1>5. \A y \in S: f[y] \in Nat
  BY <1>3
<1> HIDE DEF S, f
<1>6. SumFunctionOnSet(f, S) = f[s] + SumFunctionOnSet(f, S \ {s})
  BY <1>4, <1>5, SumRemove
<1>7. SumFunctionOnSet(f, S) = f[s] + 0
  BY <1>4, <1>6, SumEmpty
<1> QED BY <1>1, <1>3, <1>7 DEF f, S

LEMMA MergeKeepsKraft ==
    ASSUME Tree(heap, lengths), Kraft(heap, lengths), Merge
    PROVE  Kraft(heap', lengths')
<1>1. PICK a \in heap, b \in heap:
          /\ a # b
          /\ heap' = (heap \ {a, b}) \union
                {[count   |-> a.count + b.count,
                  id      |-> 2 * NumSymbols - Cardinality(heap),
                  symbols |-> a.symbols \union b.symbols]}
          /\ lengths' = [s \in Symbols |->
                IF s \in a.symbols \union b.symbols THEN lengths[s] + 1 ELSE lengths[s]]
  BY DEF Merge
<1>2. PICK n: /\ n.symbols = a.symbols \union b.symbols
              /\ heap' = (heap \ {a, b}) \union {n}
  BY <1>1
<1> DEFINE f == Shares(lengths)
           e == Shares(lengths')
<1>3. \A x \in heap: IsFiniteSet(x.symbols) /\ x.symbols \in SUBSET Symbols
  BY SymbolsFinite, FS_Subset DEF Tree
<1>4. \A s \in Symbols: lengths[s] \in Nat
  BY DEF Tree
<1> SUFFICES ASSUME NEW x \in heap', \A s \in x.symbols: lengths'[s] <= Limit
             PROVE  SumFunctionOnSet(e, x.symbols) = 2 ^ Limit
  BY DEF Kraft
<1>5. CASE x \in heap \ {a, b}
  <2>1. \A s \in x.symbols: s \in Symbols /\ lengths'[s] = lengths[s]
    <3>1. x.symbols \cap a.symbols = {} /\ x.symbols \cap b.symbols = {}
      BY <1>5 DEF Tree
    <3> QED BY <1>1, <1>3, <1>5, <3>1
  <2>2. \A s \in x.symbols: e[s] = f[s] /\ lengths[s] \in Nat /\ lengths[s] <= Limit
    BY <1>4, <2>1 DEF Shares
  <2>3. \A s \in x.symbols: f[s] \in Nat
    BY <2>1, <2>2, ShareType DEF Shares
  <2>4. SumFunctionOnSet(f, x.symbols) = 2 ^ Limit
    BY <1>5, <2>2 DEF Kraft
  <2> HIDE DEF e, f
  <2>5. SumFunctionOnSet(e, x.symbols) = SumFunctionOnSet(f, x.symbols)
    BY <1>3, <1>5, <2>2, <2>3, SumSame
  <2> QED BY <2>4, <2>5
<1>6. CASE x = n
  <2> DEFINE T == a.symbols \union b.symbols
  <2>1. x.symbols = T /\ IsFiniteSet(T) /\ T \in SUBSET Symbols
    BY <1>2, <1>3, <1>6, FS_Union
  <2>2. \A s \in T: lengths'[s] = lengths[s] + 1 /\ lengths[s] \in Nat /\ lengths[s] + 1 <= Limit
    BY <1>1, <1>4, <2>1
  <2>3. ASSUME NEW s \in T
        PROVE  f[s] = e[s] * 2 /\ f[s] \in Nat /\ e[s] \in Nat /\ lengths[s] <= Limit
    <3>1. PICK k \in Nat: k = lengths[s] /\ lengths'[s] = k + 1 /\ k + 1 <= Limit
      BY <2>2
    <3>2. Limit - k = (Limit - (k + 1)) + 1 /\ Limit - (k + 1) \in 0 .. MaxBits
      BY <3>1, MaxBitsType
    <3>3. PICK p \in Nat: p = 2 ^ (Limit - (k + 1)) /\ 2 ^ (Limit - k) = 2 * p
      BY <3>2, PowersAssumption
    <3>4. f[s] = 2 ^ (Limit - k) /\ e[s] = 2 ^ (Limit - (k + 1))
      BY <2>1, <3>1 DEF Shares
    <3> QED BY <3>1, <3>3, <3>4, MaxBitsType
  <2>4. SumFunctionOnSet(f, a.symbols) = 2 ^ Limit /\ SumFunctionOnSet(f, b.symbols) = 2 ^ Limit
    BY <1>1, <2>3 DEF Kraft
  <2>5. a.symbols \cap b.symbols = {}
    BY <1>1 DEF Tree
  <2>6. \A s \in a.symbols \union b.symbols: f[s] \in Nat
    BY <2>3
  <2>7. \A s \in T: f[s] = e[s] * 2 /\ e[s] \in Nat
    BY <2>3
  <2> HIDE DEF e, f
  <2>8. SumFunctionOnSet(f, T) = 2 ^ Limit + 2 ^ Limit
    BY <1>3, <2>4, <2>5, <2>6, SumUnion
  <2> HIDE DEF T
  <2>9. SumFunctionOnSet(f, T) = SumFunctionOnSet(e, T) * 2
    BY <2>1, <2>7, SumScaled
  <2>10. SumFunctionOnSet(e, T) \in Nat /\ 2 ^ Limit \in Nat
    BY <2>1, <2>7, SumType, PowType, MaxBitsType
  <2> QED BY <2>1, <2>8, <2>9, <2>10
<1> QED BY <1>2, <1>5, <1>6

\* The canonical order as ranks.
Rank(len, s) == Cardinality({t \in Symbols: CanonBefore(len, t, s)})
Ranked(len, i) == CHOOSE s \in Symbols: Rank(len, s) = i

LEMMA CanonicalOrder ==
    ASSUME NEW len \in [Symbols -> 1 .. Limit]
    PROVE  /\ \A s \in Symbols: Rank(len, s) \in Symbols /\ Ranked(len, Rank(len, s)) = s
           /\ \A i \in Symbols: Ranked(len, i) \in Symbols /\ Rank(len, Ranked(len, i)) = i
           /\ \A s, t \in Symbols: /\ CanonBefore(len, s, t) <=> Rank(len, s) < Rank(len, t)
                                   /\ CanonBefore(len, s, t) => len[s] <= len[t]
<1> DEFINE K == [x \in Symbols |-> len[x] * NumSymbols + x]
<1>1. ASSUME NEW x \in Symbols, NEW y \in Symbols
      PROVE  /\ K[x] \in Int /\ (K[x] < K[y] <=> CanonBefore(len, x, y))
             /\ K[x] = K[y] => x = y
             /\ K[x] < K[y] => len[x] <= len[y]
  <2>1. PICK n \in Nat \ {0}: n = NumSymbols
    BY SymbolsFinite
  <2>2. len[x] \in Nat /\ len[y] \in Nat /\ x \in 0 .. (n - 1) /\ y \in 0 .. (n - 1)
    BY <2>1, SymbolsFinite, MaxBitsType
  <2>3. len[x] * n + x < len[y] * n + y <=> len[x] < len[y] \/ (len[x] = len[y] /\ x < y)
    BY <2>2, PackLess
  <2>4. len[y] * n + y < len[x] * n + x <=> len[y] < len[x] \/ (len[y] = len[x] /\ y < x)
    BY <2>2, PackLess
  <2>5. K[x] = len[x] * n + x /\ K[y] = len[y] * n + y
    BY <2>1
  <2>6. len[x] * n + x \in Int /\ len[y] * n + y \in Int
    BY <2>2
  <2> HIDE DEF K
  <2>7. K[x] < K[y] <=> CanonBefore(len, x, y)
    BY <2>3, <2>5 DEF CanonBefore
  <2>8. K[x] = K[y] => x = y
    BY <2>2, <2>3, <2>4, <2>5, <2>6
  <2>9. K[x] < K[y] => len[x] <= len[y]
    BY <2>2, <2>3, <2>5
  <2> QED BY <2>5, <2>6, <2>7, <2>8, <2>9
<1> HIDE DEF K
<1>2. KeysApart(K, Symbols)
  BY <1>1 DEF KeysApart
<1>3. ASSUME NEW x \in Symbols PROVE Rank(len, x) = KeyRank(K, Symbols, x)
  <2>1. {t \in Symbols: CanonBefore(len, t, x)} = {t \in Symbols: K[t] < K[x]}
    BY <1>1
  <2> QED BY <2>1, Zenon DEF KeyRank, Rank
<1>4. /\ \A x \in Symbols: Rank(len, x) \in Symbols
      /\ \A x, y \in Symbols: CanonBefore(len, x, y) <=> Rank(len, x) < Rank(len, y)
      /\ \A x, y \in Symbols: Rank(len, x) = Rank(len, y) => x = y
  <2>1. /\ \A x \in Symbols: KeyRank(K, Symbols, x) \in 0 .. (Cardinality(Symbols) - 1)
        /\ \A x, y \in Symbols: K[x] < K[y] <=> KeyRank(K, Symbols, x) < KeyRank(K, Symbols, y)
        /\ \A x, y \in Symbols: KeyRank(K, Symbols, x) = KeyRank(K, Symbols, y) => x = y
    <3>1. IsFiniteSet(Symbols)
      BY SymbolsFinite
    <3> QED BY <1>2, <3>1, KeyRankGrows, Zenon
  <2>2. \A x \in Symbols: Rank(len, x) \in Symbols
    BY <1>3, <2>1, SymbolsFinite
  <2> QED BY <1>1, <1>3, <2>1, <2>2
<1>5. ASSUME NEW i \in Symbols PROVE Ranked(len, i) \in Symbols /\ Rank(len, Ranked(len, i)) = i
  <2>1. \E x \in Symbols: KeyRank(K, Symbols, x) = i
    <3>1. i \in 0 .. (Cardinality(Symbols) - 1)
      BY SymbolsFinite
    <3> QED BY <1>2, <3>1, SymbolsFinite, KeyRankOnto
  <2>2. \E x \in Symbols: Rank(len, x) = i
    BY <1>3, <2>1
  <2> QED BY <2>2 DEF Ranked
<1>6. ASSUME NEW x \in Symbols PROVE Ranked(len, Rank(len, x)) = x
  BY <1>4, <1>5
<1> QED BY <1>1, <1>4, <1>5, <1>6

\* The canonical codes, rank by rank.
LEMMA CanonicalSteps ==
    ASSUME NEW len \in [Symbols -> 1 .. Limit]
    PROVE  /\ \A s \in Symbols: Canonical(len)[s] \in Int
           /\ Canonical(len)[Ranked(len, 0)] = 0
           /\ \A i \in 1 .. (NumSymbols - 1):
                  Canonical(len)[Ranked(len, i)] =
                      (Canonical(len)[Ranked(len, i - 1)] + 1)
                          * 2 ^ (len[Ranked(len, i)] - len[Ranked(len, i - 1)])
<1> DEFINE power(i) == 2 ^ (len[Ranked(len, i)] - len[Ranked(len, i - 1)])
           F == [i \in 1 .. (NumSymbols - 1) |-> [v \in Int |-> (v + 1) * power(i)]]
           Rec(f) == f = [i \in Symbols |-> IF i = 0 THEN 0 ELSE (f[i - 1] + 1) * power(i)]
<1>1. ASSUME NEW i \in 1 .. (NumSymbols - 1) PROVE power(i) \in Nat
  <2>1. i \in Symbols /\ i - 1 \in Symbols /\ i - 1 < i
    BY SymbolsFinite
  <2>2. CanonBefore(len, Ranked(len, i - 1), Ranked(len, i))
    BY <2>1, CanonicalOrder
  <2>3. len[Ranked(len, i - 1)] <= len[Ranked(len, i)]
        /\ Ranked(len, i) \in Symbols /\ Ranked(len, i - 1) \in Symbols
    BY <2>1, <2>2, CanonicalOrder
  <2>4. len[Ranked(len, i)] \in 1 .. Limit /\ len[Ranked(len, i - 1)] \in 1 .. Limit
    BY <2>3
  <2>5. len[Ranked(len, i)] - len[Ranked(len, i - 1)] \in 0 .. MaxBits
    BY <2>3, <2>4, MaxBitsType
  <2> QED BY <2>5, PowType
<1>2. PICK f \in [Symbols -> Int]: Recursive(f, F, NumSymbols - 1)
  <2>1. F \in [1 .. (NumSymbols - 1) -> [Int -> Int]]
    <3>1. ASSUME NEW i \in 1 .. (NumSymbols - 1), NEW v \in Int PROVE (v + 1) * power(i) \in Int
      <4>1. PICK p \in Nat: p = power(i)
        BY <1>1
      <4> QED BY <4>1
    <3> HIDE DEF power
    <3> QED BY <3>1
  <2>2. NumSymbols - 1 \in Nat
    BY SymbolsFinite
  <2> HIDE DEF F
  <2> QED BY <2>1, <2>2, SymbolsFinite, RecursiveExists
<1> HIDE DEF power
<1>3. f[0] = 0 /\ \A i \in 1 .. (NumSymbols - 1): f[i] = (f[i - 1] + 1) * power(i)
  <2>1. ASSUME NEW i \in 1 .. (NumSymbols - 1) PROVE f[i - 1] \in Int
    <3>1. i - 1 \in Symbols
      BY SymbolsFinite
    <3> QED BY <1>2, <3>1
  <2> QED BY <1>2, <2>1 DEF Recursive
<1>4. Rec(f)
  <2> DEFINE e == [i \in Symbols |-> IF i = 0 THEN 0 ELSE (f[i - 1] + 1) * power(i)]
  <2>1. \A i \in Symbols: e[i] = f[i]
    BY <1>3, SymbolsFinite
  <2> QED BY <1>2, <2>1
<1> DEFINE code == CHOOSE h: Rec(h)
<1>5. Rec(code)
  <2> HIDE DEF Rec
  <2> QED BY <1>4
<1>6. ASSUME NEW h, Rec(h) PROVE \A i \in Symbols: h[i] = f[i]
  <2>1. \A i \in Symbols: h[i] = IF i = 0 THEN 0 ELSE (h[i - 1] + 1) * power(i)
    BY <1>6
  <2> DEFINE A == {i \in Symbols: h[i] # f[i]}
  <2> SUFFICES ASSUME A # {} PROVE FALSE
    OBVIOUS
  <2>2. PICK k \in A: \A j \in A: k <= j
    <3>1. A \in SUBSET Nat
      BY SymbolsFinite
    <3> HIDE DEF A
    <3> QED BY <3>1, LeastNumber
  <2>3. k \in Symbols /\ h[k] # f[k] /\ k # 0
    BY <1>3, <2>1, <2>2
  <2>4. k - 1 \in Symbols /\ k - 1 < k /\ k \in 1 .. (NumSymbols - 1)
    BY <2>3, SymbolsFinite
  <2>5. h[k - 1] = f[k - 1]
    BY <2>2, <2>4
  <2> HIDE DEF A, Rec
  <2> QED BY <1>3, <2>1, <2>3, <2>4, <2>5
<1> HIDE DEF Rec, code
<1>7. \A i \in Symbols: code[i] = f[i]
  BY <1>5, <1>6
<1>8. ASSUME NEW s \in Symbols PROVE Canonical(len)[s] = code[Rank(len, s)]
  BY DEF Canonical, code, Rec, power, Ranked, Rank
<1>9. ASSUME NEW i \in Symbols PROVE Canonical(len)[Ranked(len, i)] = f[i]
  BY <1>7, <1>8, CanonicalOrder
<1>10. \A s \in Symbols: Canonical(len)[s] \in Int
  BY <1>2, <1>7, <1>8, CanonicalOrder
<1>11. 0 \in Symbols /\ \A i \in 1 .. (NumSymbols - 1): i \in Symbols /\ i - 1 \in Symbols
  BY SymbolsFinite
<1>12. ASSUME NEW i \in 1 .. (NumSymbols - 1)
       PROVE  Canonical(len)[Ranked(len, i)]
                  = (Canonical(len)[Ranked(len, i - 1)] + 1) * power(i)
  BY <1>3, <1>9, <1>11
<1>13. Canonical(len)[Ranked(len, 0)] = 0
  BY <1>3, <1>9, <1>11
<1> QED BY <1>10, <1>12, <1>13 DEF power

\* The table entries of a code come after those of the codes before it.
CodesBefore(len, s) == {t \in Symbols: CanonBefore(len, t, s)}

LEMMA SharesFacts ==
    ASSUME NEW len \in [Symbols -> 1 .. Limit]
    PROVE  /\ \A s \in Symbols: Shares(len)[s] \in Nat \ {0}
           /\ \A T \in SUBSET Symbols: IsFiniteSet(T) /\ SumFunctionOnSet(Shares(len), T) \in Nat
           /\ \A T \in SUBSET Symbols: \A s \in Symbols \ T:
                  SumFunctionOnSet(Shares(len), T \union {s})
                      = SumFunctionOnSet(Shares(len), T) + Shares(len)[s]
           /\ \A U \in SUBSET Symbols: \A T \in SUBSET U:
                  SumFunctionOnSet(Shares(len), T) <= SumFunctionOnSet(Shares(len), U)
<1>1. \A s \in Symbols: Shares(len)[s] \in Nat \ {0}
  <2> SUFFICES ASSUME NEW s \in Symbols PROVE Shares(len)[s] \in Nat \ {0}
    OBVIOUS
  <2>1. len[s] \in Nat /\ len[s] <= Limit
    BY MaxBitsType
  <2> QED BY <2>1, ShareType DEF Shares
<1> DEFINE f == Shares(len)
<1>2. \A s \in Symbols: f[s] \in Nat
  BY <1>1
<1> HIDE DEF f
<1>3. \A T \in SUBSET Symbols: IsFiniteSet(T) /\ SumFunctionOnSet(f, T) \in Nat
  <2> SUFFICES ASSUME NEW T \in SUBSET Symbols
               PROVE  IsFiniteSet(T) /\ SumFunctionOnSet(f, T) \in Nat
    OBVIOUS
  <2>1. IsFiniteSet(T)
    BY SymbolsFinite, FS_Subset
  <2> QED BY <1>2, <2>1, SumType
<1>4. ASSUME NEW T \in SUBSET Symbols, NEW s \in Symbols \ T
      PROVE  SumFunctionOnSet(f, T \union {s}) = SumFunctionOnSet(f, T) + f[s]
  <2> DEFINE U == T \union {s}
  <2>1. IsFiniteSet(U) /\ s \in U /\ U \ {s} = T /\ \A x \in U: f[x] \in Nat
    BY <1>2, <1>3
  <2> HIDE DEF U
  <2>2. SumFunctionOnSet(f, U) = f[s] + SumFunctionOnSet(f, T)
    BY <2>1, SumRemove
  <2>3. SumFunctionOnSet(f, T) \in Nat /\ f[s] \in Nat
    BY <1>2, <1>3
  <2> QED BY <2>2, <2>3 DEF U
<1>5. ASSUME NEW U \in SUBSET Symbols, NEW T \in SUBSET U
      PROVE  SumFunctionOnSet(f, T) <= SumFunctionOnSet(f, U)
  <2> DEFINE V == U \ T
  <2>1. T \in SUBSET Symbols /\ V \in SUBSET Symbols /\ T \cap V = {} /\ T \union V = U
    OBVIOUS
  <2>2. \A x \in T \union V: f[x] \in Nat
    BY <1>2, <2>1
  <2> HIDE DEF V
  <2>3. IsFiniteSet(T) /\ IsFiniteSet(V)
    BY <1>3, <2>1
  <2>4. SumFunctionOnSet(f, T \union V) = SumFunctionOnSet(f, T) + SumFunctionOnSet(f, V)
    BY <2>1, <2>2, <2>3, SumUnion
  <2>5. SumFunctionOnSet(f, T) \in Nat /\ SumFunctionOnSet(f, V) \in Nat
    BY <1>3, <2>1
  <2>6. SumFunctionOnSet(f, U) = SumFunctionOnSet(f, T) + SumFunctionOnSet(f, V)
    BY <2>1, <2>4, Zenon
  <2> QED BY <2>5, <2>6
<1> QED BY <1>1, <1>3, <1>4, <1>5 DEF f

LEMMA CanonicalStart ==
    ASSUME NEW len \in [Symbols -> 1 .. Limit], NEW s \in Symbols
    PROVE  /\ Canonical(len)[s] \in Nat
           /\ Canonical(len)[s] * Shares(len)[s]
                  = SumFunctionOnSet(Shares(len), CodesBefore(len, s))
<1> DEFINE code == Canonical(len)
           f == Shares(len)
           Sum(T) == SumFunctionOnSet(f, T)
           Right(x) == code[x] \in Nat /\ code[x] * f[x] = Sum(CodesBefore(len, x))
           A == {i \in Symbols: ~ Right(Ranked(len, i))}
<1>1. SUFFICES ASSUME A # {} PROVE FALSE
  <2>1. Rank(len, s) \in Symbols /\ Ranked(len, Rank(len, s)) = s
    BY CanonicalOrder
  <2>2. Rank(len, s) \notin A
    BY <1>1
  <2>3. Right(s)
    BY <2>1, <2>2
  <2> QED BY <2>3
<1>2. PICK k \in A: \A j \in A: k <= j
  <2>1. A \in SUBSET Nat
    BY SymbolsFinite
  <2> HIDE DEF A
  <2> QED BY <1>1, <2>1, LeastNumber
<1>3. k \in Symbols /\ ~ Right(Ranked(len, k))
  BY <1>2
<1>4. PICK x \in Symbols: x = Ranked(len, k) /\ Rank(len, x) = k
  BY <1>3, CanonicalOrder
<1>5. ASSUME NEW y \in Symbols, NEW t \in Symbols
      PROVE  t \in CodesBefore(len, y) <=> Rank(len, t) < Rank(len, y)
  BY CanonicalOrder DEF CodesBefore
<1>6. ASSUME NEW t \in Symbols PROVE Rank(len, t) \in Nat
  <2>1. Rank(len, t) \in Symbols
    BY CanonicalOrder
  <2>2. \A n \in Symbols: n \in Nat
    BY SymbolsFinite
  <2> QED BY <2>1, <2>2
<1>7. CASE k = 0
  <2>1. code[x] = 0
    BY <1>4, <1>7, CanonicalSteps
  <2>2. CodesBefore(len, x) = {}
    <3>1. \A t \in Symbols: t \notin CodesBefore(len, x)
      BY <1>4, <1>5, <1>6, <1>7
    <3> QED BY <3>1 DEF CodesBefore
  <2>3. Sum(CodesBefore(len, x)) = 0
    BY <2>2, SumEmpty
  <2>4. f[x] \in Nat
    BY SharesFacts
  <2> HIDE DEF f, Sum, code
  <2> QED BY <1>3, <1>4, <2>1, <2>3, <2>4
<1>8. CASE k # 0
  <2>1. k - 1 \in Symbols /\ k \in 1 .. (NumSymbols - 1) /\ k - 1 < k /\ k \in Nat
    BY <1>3, <1>8, SymbolsFinite
  <2>2. k - 1 \notin A
    BY <1>2, <2>1
  <2>3. PICK y \in Symbols: y = Ranked(len, k - 1) /\ Rank(len, y) = k - 1
    BY <2>1, CanonicalOrder
  <2>4. Right(y)
    BY <2>1, <2>2, <2>3
  <2>5. code[x] = (code[y] + 1) * 2 ^ (len[x] - len[y])
    BY <1>4, <2>1, <2>3, CanonicalSteps
  <2>6. len[x] \in 1 .. Limit /\ len[y] \in 1 .. Limit /\ len[y] <= len[x]
    BY <1>4, <2>1, <2>3, CanonicalOrder
  <2>7. 2 ^ (Limit - len[y]) = 2 ^ (len[x] - len[y]) * 2 ^ (Limit - len[x])
    <3>1. /\ len[x] - len[y] \in Nat /\ Limit - len[x] \in Nat
          /\ (len[x] - len[y]) + (Limit - len[x]) = Limit - len[y] /\ Limit - len[y] <= MaxBits
      BY <2>6, MaxBitsType
    <3> QED BY <3>1, PowAdd
  <2>8. PICK p \in Nat, q \in Nat, r \in Nat, c \in Nat:
            /\ p = 2 ^ (len[x] - len[y]) /\ q = f[x] /\ r = f[y] /\ c = code[y]
            /\ r = p * q
    <3>1. len[x] - len[y] \in 0 .. MaxBits
      BY <2>6, MaxBitsType
    <3>2. f[x] \in Nat /\ f[y] \in Nat /\ f[x] = 2 ^ (Limit - len[x]) /\ f[y] = 2 ^ (Limit - len[y])
      BY SharesFacts DEF Shares
    <3>3. code[y] \in Nat
      BY <2>4
    <3> HIDE DEF f, code
    <3> QED BY <2>7, <3>1, <3>2, <3>3, PowType
  <2>9. ((c + 1) * p) * q = c * (p * q) + p * q /\ (c + 1) * p \in Nat
    BY SMT
  <2>10. CodesBefore(len, x) = CodesBefore(len, y) \union {y}
         /\ y \notin CodesBefore(len, y) /\ CodesBefore(len, y) \in SUBSET Symbols
    <3>1. ASSUME NEW t \in Symbols
          PROVE  t \in CodesBefore(len, x) <=> t \in CodesBefore(len, y) \/ t = y
      <4>1. Rank(len, t) = k - 1 => t = y
        <5>1. Ranked(len, Rank(len, t)) = t
          BY CanonicalOrder
        <5> QED BY <2>3, <5>1
      <4>2. Rank(len, t) < k <=> Rank(len, t) < k - 1 \/ Rank(len, t) = k - 1
        BY <1>6, <2>1
      <4> QED BY <1>4, <1>5, <2>3, <4>1, <4>2
    <3>2. y \notin CodesBefore(len, y)
      BY <1>5, <1>6
    <3>3. CodesBefore(len, y) \in SUBSET Symbols /\ CodesBefore(len, x) \in SUBSET Symbols
      BY DEF CodesBefore
    <3> QED BY <3>1, <3>2, <3>3
  <2>11. Sum(CodesBefore(len, x)) = Sum(CodesBefore(len, y)) + f[y]
    BY <2>10, SharesFacts
  <2>12. Sum(CodesBefore(len, y)) = c * r
    BY <2>4, <2>8
  <2> HIDE DEF f, Sum, code
  <2>13. code[x] = (c + 1) * p
    BY <2>5, <2>8
  <2>14. code[x] * f[x] = c * r + r
    BY <2>8, <2>9, <2>13
  <2> QED BY <1>3, <1>4, <2>8, <2>9, <2>11, <2>12, <2>13, <2>14
<1> QED BY <1>7, <1>8

\* Where a code's entries begin; those of all codes are next to each other.
Start(len, s) == SumFunctionOnSet(Shares(len), CodesBefore(len, s))

LEMMA CodesInOrder ==
    ASSUME NEW len \in [Symbols -> 1 .. Limit]
    PROVE  /\ \A s \in Symbols: CodesBefore(len, s) \in SUBSET Symbols
                                /\ s \notin CodesBefore(len, s)
           /\ \A s, t \in Symbols: Rank(len, t) < Rank(len, s)
                                   => CodesBefore(len, t) \union {t} \in SUBSET CodesBefore(len, s)
           /\ \A s, t \in Symbols: Rank(len, s) = Rank(len, t) + 1
                                   => CodesBefore(len, s) = CodesBefore(len, t) \union {t}
           /\ \A s \in Symbols: Rank(len, s) = 0 => CodesBefore(len, s) = {}
           /\ \A s \in Symbols: Rank(len, s) = NumSymbols - 1
                                => CodesBefore(len, s) \union {s} = Symbols
<1>1. ASSUME NEW s \in Symbols
      PROVE  /\ Rank(len, s) \in Nat /\ Rank(len, s) <= NumSymbols - 1
             /\ Ranked(len, Rank(len, s)) = s
  <2>1. Rank(len, s) \in Symbols /\ Ranked(len, Rank(len, s)) = s
    BY CanonicalOrder
  <2>2. \A n \in Symbols: n \in Nat /\ n <= NumSymbols - 1
    BY SymbolsFinite
  <2> QED BY <2>1, <2>2
<1>2. ASSUME NEW s \in Symbols, NEW t \in Symbols
      PROVE  /\ t \in CodesBefore(len, s) <=> Rank(len, t) < Rank(len, s)
             /\ Rank(len, s) = Rank(len, t) => s = t
  <2>1. t \in CodesBefore(len, s) <=> Rank(len, t) < Rank(len, s)
    BY CanonicalOrder DEF CodesBefore
  <2>2. Rank(len, s) = Rank(len, t) => s = t
    <3>1. Ranked(len, Rank(len, s)) = s /\ Ranked(len, Rank(len, t)) = t
      BY <1>1
    <3> QED BY <3>1
  <2> QED BY <2>1, <2>2
<1>3. ASSUME NEW s \in Symbols
      PROVE  CodesBefore(len, s) \in SUBSET Symbols /\ s \notin CodesBefore(len, s)
  <2>1. ~ Rank(len, s) < Rank(len, s)
    BY <1>1
  <2> QED BY <1>2, <2>1 DEF CodesBefore
<1>4. ASSUME NEW s \in Symbols, NEW t \in Symbols, Rank(len, t) < Rank(len, s)
      PROVE  CodesBefore(len, t) \union {t} \in SUBSET CodesBefore(len, s)
  <2>1. ASSUME NEW u \in CodesBefore(len, t) PROVE u \in CodesBefore(len, s)
    <3>1. u \in Symbols
      BY <1>3
    <3>2. Rank(len, u) < Rank(len, t) /\ Rank(len, u) \in Nat
      BY <1>1, <1>2, <3>1
    <3>3. Rank(len, t) \in Nat /\ Rank(len, s) \in Nat
      BY <1>1
    <3>4. Rank(len, u) < Rank(len, s)
      BY <1>4, <3>2, <3>3
    <3> QED BY <1>2, <3>1, <3>4
  <2>2. t \in CodesBefore(len, s)
    BY <1>2, <1>4
  <2> QED BY <2>1, <2>2
<1>5. ASSUME NEW s \in Symbols, NEW t \in Symbols, Rank(len, s) = Rank(len, t) + 1
      PROVE  CodesBefore(len, s) = CodesBefore(len, t) \union {t}
  <2>1. Rank(len, t) < Rank(len, s)
    BY <1>1, <1>5
  <2>2. ASSUME NEW u \in CodesBefore(len, s) PROVE u \in CodesBefore(len, t) \union {t}
    <3>1. u \in Symbols
      BY <1>3
    <3>2. Rank(len, u) < Rank(len, s) /\ Rank(len, u) \in Nat /\ Rank(len, t) \in Nat
      BY <1>1, <1>2, <3>1
    <3>3. Rank(len, u) < Rank(len, t) \/ Rank(len, t) = Rank(len, u)
      BY <1>5, <3>2
    <3> QED BY <1>2, <3>1, <3>3
  <2> QED BY <1>4, <2>1, <2>2
<1>6. ASSUME NEW s \in Symbols, Rank(len, s) = 0 PROVE CodesBefore(len, s) = {}
  <2>1. ASSUME NEW u \in CodesBefore(len, s) PROVE FALSE
    <3>1. u \in Symbols
      BY <1>3
    <3>2. Rank(len, u) < 0 /\ Rank(len, u) \in Nat
      BY <1>1, <1>2, <1>6, <3>1
    <3> QED BY <3>2
  <2> QED BY <2>1
<1>7. ASSUME NEW s \in Symbols, Rank(len, s) = NumSymbols - 1
      PROVE  CodesBefore(len, s) \union {s} = Symbols
  <2>1. ASSUME NEW u \in Symbols PROVE u \in CodesBefore(len, s) \union {s}
    <3>1. Rank(len, u) \in Nat /\ Rank(len, u) <= Rank(len, s) /\ Rank(len, s) \in Nat
      BY <1>1, <1>7
    <3>2. Rank(len, u) < Rank(len, s) \/ Rank(len, s) = Rank(len, u)
      BY <3>1
    <3> QED BY <1>2, <3>2
  <2>2. CodesBefore(len, s) \in SUBSET Symbols
    BY <1>3
  <2> QED BY <2>1, <2>2
<1> QED BY <1>3, <1>4, <1>5, <1>6, <1>7

\* If the shares fill the table, every entry belongs to one code.
LEMMA CodesCover ==
    ASSUME NEW len \in [Symbols -> 1 .. Limit],
           SumFunctionOnSet(Shares(len), Symbols) = 2 ^ Limit
    PROVE  /\ \A s \in Symbols: /\ Start(len, s) \in Nat
                                /\ Start(len, s) + Shares(len)[s] <= 2 ^ Limit
           /\ \A y \in Entries:
                  \E s \in Symbols:
                      \A t \in Symbols:
                          t = s <=> Start(len, t) <= y /\ y < Start(len, t) + Shares(len)[t]
<1> DEFINE share(s) == Shares(len)[s]
           first(s) == Start(len, s)
<1>1. ASSUME NEW s \in Symbols
      PROVE  /\ share(s) \in Nat \ {0} /\ first(s) \in Nat
             /\ first(s) + share(s) = SumFunctionOnSet(Shares(len), CodesBefore(len, s) \union {s})
             /\ first(s) + share(s) <= 2 ^ Limit
  <2>1. CodesBefore(len, s) \in SUBSET Symbols /\ s \notin CodesBefore(len, s)
    BY CodesInOrder
  <2>2. first(s) \in Nat
    BY <2>1, SharesFacts DEF Start
  <2>3. first(s) + share(s) = SumFunctionOnSet(Shares(len), CodesBefore(len, s) \union {s})
    <3>1. s \in Symbols \ CodesBefore(len, s)
      BY <2>1
    <3>2. SumFunctionOnSet(Shares(len), CodesBefore(len, s) \union {s})
              = SumFunctionOnSet(Shares(len), CodesBefore(len, s)) + Shares(len)[s]
      BY <2>1, <3>1, SharesFacts
    <3> QED BY <3>2 DEF Start
  <2>4. CodesBefore(len, s) \union {s} \in SUBSET Symbols
    BY <2>1
  <2>5. SumFunctionOnSet(Shares(len), CodesBefore(len, s) \union {s})
            <= SumFunctionOnSet(Shares(len), Symbols)
    BY <2>4, SharesFacts
  <2>6. share(s) \in Nat \ {0}
    BY SharesFacts
  <2> QED BY <2>2, <2>3, <2>5, <2>6
<1>2. ASSUME NEW s \in Symbols, NEW t \in Symbols, Rank(len, t) < Rank(len, s)
      PROVE  first(t) + share(t) <= first(s)
  <2>1. CodesBefore(len, t) \union {t} \in SUBSET CodesBefore(len, s)
        /\ CodesBefore(len, s) \in SUBSET Symbols
    BY <1>2, CodesInOrder
  <2>2. SumFunctionOnSet(Shares(len), CodesBefore(len, t) \union {t})
            <= SumFunctionOnSet(Shares(len), CodesBefore(len, s))
    BY <2>1, SharesFacts
  <2> QED BY <1>1, <2>2 DEF Start
<1>3. ASSUME NEW s \in Symbols, NEW t \in Symbols, Rank(len, s) = Rank(len, t) + 1
      PROVE  first(s) = first(t) + share(t)
  <2>1. CodesBefore(len, s) = CodesBefore(len, t) \union {t}
    BY <1>3, CodesInOrder
  <2> QED BY <1>1, <2>1, Zenon DEF Start
<1>4. ASSUME NEW s \in Symbols, Rank(len, s) = 0 PROVE first(s) = 0
  <2>1. CodesBefore(len, s) = {}
    BY <1>4, CodesInOrder
  <2> QED BY <2>1, SumEmpty DEF Start
<1>5. ASSUME NEW s \in Symbols, Rank(len, s) = NumSymbols - 1
      PROVE  first(s) + share(s) = 2 ^ Limit
  <2>1. CodesBefore(len, s) \union {s} = Symbols
    BY <1>5, CodesInOrder
  <2> QED BY <1>1, <2>1, Zenon
<1> HIDE DEF share, first
<1> DEFINE Holds(s, y) == first(s) <= y /\ y < first(s) + share(s)
<1>6. 2 ^ Limit \in Nat /\ Entries = 0 .. (2 ^ Limit - 1)
  BY PowType, MaxBitsType DEF Entries
<1>7. ASSUME NEW s \in Symbols
      PROVE  Rank(len, s) \in 0 .. (NumSymbols - 1) /\ Ranked(len, Rank(len, s)) = s
  <2>1. Rank(len, s) \in Symbols /\ Ranked(len, Rank(len, s)) = s
    BY CanonicalOrder
  <2>2. Symbols = 0 .. (NumSymbols - 1)
    BY SymbolsFinite
  <2> QED BY <2>1, <2>2
<1>8. ASSUME NEW y \in Entries PROVE \E s \in Symbols: Holds(s, y)
  <2> DEFINE A == {i \in Symbols: y < first(Ranked(len, i)) + share(Ranked(len, i))}
  <2>1. NumSymbols - 1 \in A
    <3>1. NumSymbols - 1 \in Symbols
      BY SymbolsFinite
    <3>2. PICK s \in Symbols: s = Ranked(len, NumSymbols - 1) /\ Rank(len, s) = NumSymbols - 1
      BY <3>1, CanonicalOrder
    <3>3. first(s) + share(s) = 2 ^ Limit
      BY <1>5, <3>2
    <3>4. y < 2 ^ Limit
      BY <1>6
    <3> QED BY <3>1, <3>2, <3>3, <3>4
  <2>2. PICK k \in A: \A j \in A: k <= j
    <3>1. A \in SUBSET Nat
      BY SymbolsFinite
    <3> HIDE DEF A
    <3> QED BY <2>1, <3>1, LeastNumber
  <2>3. k \in Symbols /\ y < first(Ranked(len, k)) + share(Ranked(len, k))
    BY <2>2
  <2>4. PICK s \in Symbols: s = Ranked(len, k) /\ Rank(len, s) = k
    BY <2>3, CanonicalOrder
  <2>5. y \in Nat
    BY <1>6
  <2>6. CASE k = 0
    <3>1. first(s) = 0
      BY <1>4, <2>4, <2>6
    <3> QED BY <2>3, <2>4, <2>5, <3>1
  <2>7. CASE k # 0
    <3>1. k \in Nat /\ k - 1 \in Symbols /\ ~ k <= k - 1 /\ k = (k - 1) + 1
      BY <2>3, <2>7, SymbolsFinite
    <3>2. k - 1 \notin A
      <4> HIDE DEF A
      <4> QED BY <2>2, <3>1
    <3>3. PICK t \in Symbols: t = Ranked(len, k - 1) /\ Rank(len, t) = k - 1
      BY <3>1, CanonicalOrder
    <3>4. ~ y < first(t) + share(t)
      BY <3>1, <3>2, <3>3
    <3>5. first(s) = first(t) + share(t)
      BY <1>3, <2>4, <3>1, <3>3
    <3>6. first(s) <= y
      <4>1. first(t) \in Nat /\ share(t) \in Nat
        BY <1>1
      <4> QED BY <2>5, <3>4, <3>5, <4>1
    <3> QED BY <2>3, <2>4, <3>6
  <2> QED BY <2>6, <2>7
<1>9. ASSUME NEW y \in Entries, NEW s \in Symbols, NEW t \in Symbols, Holds(s, y), Holds(t, y)
      PROVE  t = s
  <2>1. y \in Nat
    BY <1>6
  <2>2. ~ Rank(len, s) < Rank(len, t) /\ ~ Rank(len, t) < Rank(len, s)
    <3>1. /\ Rank(len, t) < Rank(len, s) => first(t) + share(t) <= first(s)
          /\ Rank(len, s) < Rank(len, t) => first(s) + share(s) <= first(t)
      BY <1>2
    <3>2. first(s) \in Nat /\ share(s) \in Nat /\ first(t) \in Nat /\ share(t) \in Nat
      BY <1>1
    <3> QED BY <1>9, <2>1, <3>1, <3>2
  <2>3. Rank(len, s) = Rank(len, t)
    BY <1>7, <2>2
  <2> QED BY <1>7, <2>3
<1>10. ASSUME NEW y \in Entries
       PROVE  \E s \in Symbols: \A t \in Symbols: t = s <=> Holds(t, y)
  <2>1. PICK s \in Symbols: Holds(s, y)
    BY <1>8
  <2>2. \A t \in Symbols: t = s <=> Holds(t, y)
    <3> SUFFICES ASSUME NEW t \in Symbols PROVE t = s <=> Holds(t, y)
      OBVIOUS
    <3>1. Holds(t, y) => t = s
      BY <1>9, <2>1
    <3> QED BY <2>1, <3>1
  <2> QED BY <2>2
<1> QED BY <1>1, <1>10 DEF first, share

\* Every table entry is written exactly once.
CodesOf(len) == [s \in Symbols |-> Reversed(Canonical(len)[s], len[s])]

LEMMA WritesEntry ==
    ASSUME NEW len \in [Symbols -> 1 .. Limit],
           SumFunctionOnSet(Shares(len), Symbols) = 2 ^ Limit,
           NEW x \in Entries, NEW s \in Symbols
    PROVE  s \in Writers(len, CodesOf(len), x)
               <=> /\ Start(len, s) <= Reversed(x, Limit)
                   /\ Reversed(x, Limit) < Start(len, s) + Shares(len)[s]
<1>1. PICK n \in 0 .. MaxBits: n = len[s] /\ n <= Limit
  BY MaxBitsType
<1>2. PICK d \in Nat: n + d = Limit /\ d = Limit - n
  BY <1>1, MaxBitsType
<1>3. n \in Nat /\ Limit <= MaxBits /\ Limit \in 0 .. MaxBits /\ d \in 0 .. MaxBits
  BY <1>1, <1>2, MaxBitsType
<1>4. PICK q \in Nat \ {0}: q = 2 ^ d /\ q = Shares(len)[s]
  <2>1. 2 ^ d \in Nat \ {0}
    BY <1>3, PowType
  <2> QED BY <1>1, <1>2, <2>1 DEF Shares
<1>5. PICK c \in Nat: c = Canonical(len)[s] /\ c * q = Start(len, s)
  BY <1>4, CanonicalStart DEF Start
<1>6. PICK p \in Nat \ {0}: p = 2 ^ n /\ 2 ^ Limit = p * q
  <2>1. 2 ^ Limit = 2 ^ n * 2 ^ d
    BY <1>2, <1>3, PowAdd
  <2> QED BY <1>3, <1>4, <2>1, PowType
<1>7. c \in 0 .. (p - 1)
  <2>1. c * q + q <= p * q
    BY <1>4, <1>5, <1>6, CodesCover
  <2>2. SUFFICES ASSUME c >= p PROVE FALSE
    OBVIOUS
  <2>3. PICK e \in Nat: c = p + e
    BY <2>2, SMT
  <2>4. c * q = p * q + e * q /\ e * q \in Nat /\ p * q \in Nat
    BY <2>3, SMT
  <2> QED BY <2>1, <2>4
<1>8. x \in Nat
  BY PowType, MaxBitsType DEF Entries
<1>9. PICK r \in 0 .. (q - 1), v \in Nat: v = Reversed(x, n) /\ Reversed(x, Limit) = v * q + r
  <2>1. \E r \in 0 .. (2 ^ d - 1): Reversed(x, n + d) = Reversed(x, n) * 2 ^ d + r
    BY <1>2, <1>3, <1>8, ReversedPrefix
  <2>2. Reversed(x, n) \in Nat
    BY <1>1, <1>8, ReversedRange
  <2> QED BY <1>2, <1>4, <2>1, <2>2
<1>10. s \in Writers(len, CodesOf(len), x) <=> x % p = Reversed(c, n)
  BY <1>1, <1>5, <1>6 DEF Writers, CodesOf
<1>11. x % p = Reversed(c, n) <=> v = c
  BY <1>1, <1>6, <1>7, <1>8, <1>9, ReversedTwice
<1>12. v = c <=> c * q <= v * q + r /\ v * q + r < c * q + q
  <2>1. CASE v < c
    <3>1. PICK e \in Nat: c = v + e + 1
      BY <2>1, SMT
    <3>2. c * q = v * q + e * q + q /\ e * q \in Nat /\ v * q \in Nat
      BY <3>1, SMT
    <3> QED BY <2>1, <3>2
  <2>2. CASE v > c
    <3>1. PICK e \in Nat: v = c + e + 1
      BY <2>2, SMT
    <3>2. v * q = c * q + e * q + q /\ e * q \in Nat /\ c * q \in Nat
      BY <3>1, SMT
    <3> QED BY <2>2, <3>2
  <2>3. CASE v = c
    <3>1. PICK z \in Nat: z = c * q
      BY SMT
    <3> QED BY <2>3, <3>1
  <2> QED BY <2>1, <2>2, <2>3
<1> QED BY <1>4, <1>5, <1>9, <1>10, <1>11, <1>12

LEMMA OneWriter ==
    ASSUME NEW len \in [Symbols -> 1 .. Limit],
           SumFunctionOnSet(Shares(len), Symbols) = 2 ^ Limit,
           NEW x \in Entries
    PROVE  Cardinality(Writers(len, CodesOf(len), x)) = 1
<1>1. PICK y \in Entries: y = Reversed(x, Limit)
  <2>1. Limit \in 0 .. MaxBits /\ x \in Int
    BY PowType, MaxBitsType DEF Entries
  <2>2. Reversed(x, Limit) \in Nat /\ Reversed(x, Limit) < 2 ^ Limit
    BY <2>1, ReversedRange
  <2>3. 2 ^ Limit \in Nat
    BY <2>1, PowType
  <2> QED BY <2>2, <2>3 DEF Entries
<1>2. PICK s \in Symbols:
          \A t \in Symbols: t = s <=> Start(len, t) <= y /\ y < Start(len, t) + Shares(len)[t]
  BY CodesCover
<1>3. \A t \in Symbols: t \in Writers(len, CodesOf(len), x) <=> t = s
  BY <1>1, <1>2, WritesEntry
<1>4. Writers(len, CodesOf(len), x) = {s}
  BY <1>3 DEF Writers
<1> QED BY <1>4, FS_Singleton

\* Neither assertion fails.
LEMMA AssertionsHold ==
    ASSUME Tree(heap, lengths), Kraft(heap, lengths), Assign
    PROVE  phase' = "coded"
<1>1. lengths \in [Symbols -> 1 .. Limit]
  <2>1. lengths \in [Symbols -> Nat] /\ ~ TooLong /\ Cardinality(heap) = 1
    BY DEF Assign, Tree
  <2>2. \A s \in Symbols: lengths[s] # 0 /\ lengths[s] \in Nat /\ ~ lengths[s] > Limit
    BY <2>1, OneNode DEF TooLong
  <2>3. \A s \in Symbols: lengths[s] \in 1 .. Limit
    BY <2>2, MaxBitsType
  <2> QED BY <2>1, <2>3
<1>2. PICK x \in heap: x.symbols = Symbols
  <2>1. Cardinality(heap) = 1 /\ IsFiniteSet(heap)
    BY DEF Assign, Tree
  <2>2. PICK x: heap = {x}
    BY <2>1, FS_Singleton
  <2>3. x.symbols \in SUBSET Symbols /\ \A s \in Symbols: s \in x.symbols
    BY <2>2 DEF Tree
  <2> QED BY <2>2, <2>3
<1>3. \A s \in Symbols: lengths[s] <= Limit
  BY <1>1, MaxBitsType
<1>4. SumFunctionOnSet(Shares(lengths), x.symbols) = 2 ^ Limit
  BY <1>2, <1>3 DEF Kraft
<1>5. SumFunctionOnSet(Shares(lengths), Symbols) = 2 ^ Limit
  BY <1>2, <1>4, Zenon
<1>6. codes' = CodesOf(lengths)
  BY DEF Assign, CodesOf
<1>7. \A y \in Entries: Cardinality(Writers(lengths, codes', y)) = 1
  BY <1>1, <1>5, <1>6, OneWriter
<1> QED BY <1>7 DEF Assign

LEMMA AssignedCode ==
    ASSUME Tree(heap, lengths), row \in [Positions -> Symbols], row' = row,
           Assign, phase' = "coded"
    PROVE  CodeInv'
<1>1. lengths' = lengths /\ lengths \in [Symbols -> 1 .. Limit]
  <2>1. lengths \in [Symbols -> Nat] /\ ~ TooLong /\ Cardinality(heap) = 1 /\ lengths' = lengths
    BY DEF Assign, Tree
  <2>2. \A s \in Symbols: lengths[s] # 0 /\ lengths[s] \in Nat /\ ~ lengths[s] > Limit
    BY <2>1, OneNode DEF TooLong
  <2>3. \A s \in Symbols: lengths[s] \in 1 .. Limit
    BY <2>2, MaxBitsType
  <2> QED BY <2>1, <2>3
<1>2. codes' = [s \in Symbols |-> Reversed(Canonical(lengths)[s], lengths[s])]
  BY DEF Assign
<1>3. \A s \in Symbols: codes'[s] \in Nat /\ codes'[s] < 2 ^ lengths[s]
  <2> SUFFICES ASSUME NEW s \in Symbols
               PROVE  codes'[s] \in Nat /\ codes'[s] < 2 ^ lengths[s]
    OBVIOUS
  <2>1. lengths[s] \in 0 .. MaxBits
    BY <1>1, MaxBitsType
  <2>2. Canonical(lengths)[s] \in Int
    BY <1>1, CanonicalStart
  <2> QED BY <1>2, <2>1, <2>2, ReversedRange
<1>4. CodedRow'
  BY <1>1, <1>2, <1>3 DEF CodedRow
<1>5. /\ \A x \in Entries: Cardinality(Writers(lengths, codes', x)) = 1
      /\ lut' = [x \in Entries |-> CHOOSE s \in Symbols: s \in Writers(lengths, codes', x)]
  <2>1. CASE \A x \in Entries: Cardinality(Writers(lengths, codes', x)) = 1
    BY <2>1 DEF Assign
  <2>2. CASE ~ \A x \in Entries: Cardinality(Writers(lengths, codes', x)) = 1
    BY <2>2 DEF Assign
  <2> QED BY <2>1, <2>2
<1>6. ASSUME NEW x \in Entries, NEW s \in Symbols, s \in Writers(lengths, codes', x)
      PROVE  lut'[x] = s
  <2> DEFINE W == Writers(lengths, codes', x)
  <2>1. W \in SUBSET Symbols
    BY DEF Writers
  <2>2. IsFiniteSet(W) /\ Cardinality(W) = 1
    BY <1>5, <2>1, SymbolsFinite, FS_Subset
  <2>3. lut'[x] = CHOOSE t \in Symbols: t \in W
    BY <1>5
  <2> HIDE DEF W
  <2>4. PICK t: W = {t}
    BY <2>2, FS_Singleton
  <2>5. s \in W
    BY <1>6 DEF W
  <2> QED BY <2>3, <2>4, <2>5
<1>7. \A x \in Entries: \A s \in Symbols: s \in Writers(lengths', codes', x) => lut'[x] = s
  BY <1>1, <1>6
<1> QED BY <1>4, <1>7 DEF CodeInv

-----------------------------------------------------------------------------
(* What is derived from the row and the code stays.                        *)

BitsOf(len, r, c) ==
    LET f[i \in Steps] == IF i = 0 THEN 0 ELSE f[i - 1] + len[r[c * Chunk + i - 1]]
    IN  f

LEMMA SameBits ==
    ASSUME row' = row, lengths' = lengths
    PROVE  /\ \A c: BitsBefore(c)' = BitsBefore(c)
           /\ \A c, i: Symbol(c, i)' = Symbol(c, i)
           /\ \A c, i: Before(c, i)' = Before(c, i)
           /\ \A c, k: At(c, k)' = At(c, k)
           /\ \A c: NumWords(c)' = NumWords(c)
<1>1. ASSUME NEW c PROVE BitsBefore(c)' = BitsBefore(c)
  <2>1. BitsBefore(c) = BitsOf(lengths, row, c)
    BY DEF BitsBefore, BitsOf
  <2>2. BitsBefore(c)' = BitsOf(lengths', row', c)
    BY DEF BitsBefore, BitsOf
  <2> QED BY <2>1, <2>2
<1>2. ASSUME NEW c, NEW i PROVE Before(c, i)' = Before(c, i) /\ Symbol(c, i)' = Symbol(c, i)
  BY <1>1 DEF Before, Size, Symbol
<1>3. ASSUME NEW c, NEW k PROVE At(c, k)' = At(c, k)
  BY <1>1 DEF At
<1>4. ASSUME NEW c PROVE NumWords(c)' = NumWords(c)
  BY <1>1 DEF NumWords
<1> QED BY <1>1, <1>2, <1>3, <1>4

LEMMA SameWords ==
    ASSUME row' = row, lengths' = lengths
    PROVE  /\ \A c: Base(c)' = Base(c)
           /\ AllWords' = AllWords /\ WordKeys' = WordKeys
           /\ \A g, i: TakenBefore(g, i)' = TakenBefore(g, i)
<1>1. \A c: NumWords(c)' = NumWords(c)
  BY SameBits
<1>2. \A c, k: At(c, k)' = At(c, k)
  BY SameBits
<1>3. WordCounts' = WordCounts
  BY <1>1 DEF WordCounts
<1>4. ASSUME NEW c PROVE Base(c)' = Base(c)
  BY <1>3 DEF Base
<1>5. AllWords' = AllWords
  BY <1>1 DEF AllWords
<1>6. \A w: KeyOf(w)' = KeyOf(w)
  BY <1>2 DEF KeyOf
<1>7. WordKeys' = WordKeys
  BY <1>5, <1>6 DEF WordKeys
<1>8. ASSUME NEW g, NEW i PROVE TakenBefore(g, i)' = TakenBefore(g, i)
  BY <1>2, <1>5 DEF TakenBefore
<1> QED BY <1>4, <1>5, <1>7, <1>8

LEMMA SameContent ==
    ASSUME row' = row, lengths' = lengths, codes' = codes
    PROVE  /\ \A c, k: Content(c, k)' = Content(c, k)
           /\ \A c, i, t: Pending(c, i, t)' = Pending(c, i, t)
<1>1. \A q: Offset(q)' = Offset(q)
  BY SameBits DEF Offset
<1>2. \A q: WordAt(q)' = WordAt(q)
  BY <1>1 DEF WordAt
<1>3. \A q: Head(q)' = Head(q)
  BY <1>1 DEF Head
<1>4. \A q: Rest(q)' = Rest(q)
  BY <1>1 DEF Rest
<1>5. Heads' = Heads /\ Rests' = Rests
  BY <1>3, <1>4 DEF Heads, Rests
<1>6. ASSUME NEW c, NEW k PROVE Content(c, k)' = Content(c, k)
  <2>1. HeadsIn(c, k)' = HeadsIn(c, k) /\ RestsIn(c, k)' = RestsIn(c, k)
    BY <1>2 DEF HeadsIn, RestsIn
  <2> QED BY <1>5, <2>1 DEF Content
<1>7. ASSUME NEW c, NEW i, NEW t PROVE Pending(c, i, t)' = Pending(c, i, t)
  <2>1. \A q: Piece(q, t)' = Piece(q, t)
    BY <1>2, <1>3, <1>4 DEF Piece
  <2>2. Loaded(t)' = Loaded(t)
    BY <2>1 DEF Loaded
  <2> QED BY <2>2 DEF Pending
<1> QED BY <1>6, <1>7

-----------------------------------------------------------------------------
(* The inductive invariant.                                                *)

Taken(c) == Cardinality(DOMAIN refills[c])
Done(c) == pos[c \div Lanes]

\* A lane has taken the words that the encoder takes before the symbols it
\* decoded, and holds their bits, less those of these symbols.
LaneInv(c) ==
    /\ Taken(c) \in Nat /\ DOMAIN refills[c] = 0 .. (Taken(c) - 1)
    /\ \A k \in Nat: k < Taken(c) <=> At(c, k) < Done(c)
    /\ level[c] \in Nat /\ level[c] + Before(c, Done(c)) = Word * Taken(c)
    /\ buf[c] \in Nat /\ buf[c] * 2 ^ Before(c, Done(c)) = Pending(c, Done(c), Taken(c))
    /\ before[c] = [j \in 0 .. Done(c) |-> Before(c, j)]

\* A group has read the words that come first in the record, up to those its
\* lanes take next.
GroupInv(g) == rp[g] = Cardinality(TakenBefore(g, pos[g]))

\* Every word is where its key puts it.
RecordInv ==
    /\ record.fixed = FixedWords
    /\ \A g \in 0 .. Groups: record.gstart[g] = Base(g * Lanes)
    /\ \A w \in AllWords: HuffWord(KeyRank(WordKeys, AllWords, w)) = Content(w[1], w[2])

DecodeInv ==
    /\ RecordInv
    /\ pos \in [GroupIds -> 0 .. Chunk]
    /\ DOMAIN rp = GroupIds
    /\ \A g \in GroupIds: GroupInv(g)
    /\ \A c \in Chunks: LaneInv(c)
    /\ DecodedIsRow

\* Nothing is decoded yet.
NothingDecoded ==
    /\ pos = [g \in GroupIds |-> 0]
    /\ rp = [g \in GroupIds |-> 0]
    /\ buf = [c \in Chunks |-> 0]
    /\ level = [c \in Chunks |-> 0]
    /\ before = [c \in Chunks |-> [j \in 0 .. 0 |-> 0]]
    /\ refills = [c \in Chunks |-> [w \in {} |-> 0]]

IInv ==
    /\ row \in Rows
    /\ phase \in {"tree", "coded", "decode", "rejected"}
    /\ phase = "tree" => Tree(heap, lengths) /\ Kraft(heap, lengths)
    /\ phase \in {"coded", "decode"} => CodeInv
    /\ phase # "decode" => NothingDecoded
    /\ phase = "decode" => DecodeInv

\* A lane takes its next word in this step exactly if its buffer is low; then
\* the word is one the encoder laid out, and the buffer holds a whole code.
LEMMA LaneReady ==
    ASSUME CodedRow, NEW c \in Chunks, Done(c) \in Steps, LaneInv(c)
    PROVE  LET i == Done(c)
               t == Taken(c)
               u == IF Low(level[c]) THEN t + 1 ELSE t
           IN  /\ \A k \in Nat: At(c, k) = i <=> Low(level[c]) /\ k = t
               /\ u \in Nat /\ \A k \in Nat: k < u <=> At(c, k) < i + 1
               /\ Before(c, i + 1) <= Word * u
               /\ Before(c, i) <= Word * t
               /\ Low(level[c]) => <<c, t>> \in AllWords /\ Word * t <= MaxBits
<1>1. PICK i \in Nat, n \in Nat, t \in Nat, v \in Nat, b \in Nat, w \in Nat:
          /\ i = Done(c) /\ n = Chunk /\ t = Taken(c) /\ v = level[c]
          /\ b = Before(c, i) /\ w = Word * t
  <2>1. Done(c) \in Nat /\ Done(c) \in 0 .. Chunk
    BY MaxBitsType DEF Steps
  <2>2. Before(c, Done(c)) \in Nat
    <3>1. Done(c) \in Done(c) .. Chunk
      BY <2>1
    <3> QED BY <2>1, <3>1, BeforeGrows
  <2>3. Taken(c) \in Nat /\ level[c] \in Nat
    BY DEF LaneInv
  <2>4. Word * Taken(c) \in Nat
    BY <2>3, ThresholdFacts
  <2> QED BY <2>1, <2>2, <2>3, <2>4, MaxBitsType
<1>2. i < n /\ i \in Steps /\ i \in 0 .. Chunk /\ i + 1 \in 0 .. Chunk
  BY <1>1 DEF Steps
<1>3. v + b = w
  BY <1>1 DEF LaneInv
<1>4. Low(level[c]) <=> v < Limit
  BY <1>1 DEF Low
<1>5. Limit \in Nat \ {0} /\ Word \in Nat /\ Limit <= Word /\ MaxBits \in Nat
  BY MaxBitsType
<1>6. Threshold(t) = w - (Limit - 1)
  BY <1>1 DEF Threshold
<1>7. \A k \in Nat: k < t <=> At(c, k) < i
  BY <1>1 DEF LaneInv
<1>8. \A k \in Nat: At(c, k) \in Nat /\ (At(c, k) < i + 1 <=> b >= Threshold(k))
  <2> SUFFICES ASSUME NEW k \in Nat
               PROVE  At(c, k) \in Nat /\ (At(c, k) < i + 1 <=> b >= Threshold(k))
    OBVIOUS
  <2>1. At(c, k) \in 0 .. Chunk
        /\ (At(c, k) < i + 1 <=> i + 1 > 0 /\ Before(c, (i + 1) - 1) >= Threshold(k))
    BY <1>2, AtBelow
  <2>2. (i + 1) - 1 = i /\ i + 1 > 0
    BY <1>1
  <2> QED BY <1>1, <2>1, <2>2
<1>9. At(c, t) < i + 1 <=> v < Limit
  BY <1>3, <1>5, <1>6, <1>8
<1>10. \A k \in Nat: k > t /\ v < Limit => ~ At(c, k) < i + 1
  <2> SUFFICES ASSUME NEW k \in Nat, k > t, v < Limit PROVE ~ At(c, k) < i + 1
    OBVIOUS
  <2>1. At(c, t) = i
    BY <1>7, <1>8, <1>9
  <2>2. At(c, t) < At(c, k)
    BY <1>1, <1>2, <2>1, AtIncreasing
  <2> QED BY <1>8, <2>1, <2>2
<1>11. \A k \in Nat: k >= t /\ ~ v < Limit => ~ At(c, k) < i + 1
  <2> SUFFICES ASSUME NEW k \in Nat, k >= t, ~ v < Limit, At(c, k) < i + 1 PROVE FALSE
    OBVIOUS
  <2>1. t \in 0 .. k
    OBVIOUS
  <2>2. Threshold(t) <= Threshold(k) /\ Threshold(k) \in Int /\ Threshold(t) \in Int
    BY <2>1, ThresholdFacts
  <2>3. b >= Threshold(t)
    BY <1>8, <2>2
  <2> QED BY <1>8, <1>9, <2>3
<1> DEFINE u == IF v < Limit THEN t + 1 ELSE t
<1>12. u \in Nat /\ \A k \in Nat: k < u <=> At(c, k) < i + 1
  <2>1. CASE v < Limit
    <3>1. \A k \in Nat: k < t => At(c, k) < i + 1
      BY <1>7, <1>8
    <3>2. u = t + 1
      BY <2>1
    <3> HIDE DEF u
    <3> QED BY <1>9, <1>10, <2>1, <3>1, <3>2
  <2>2. CASE ~ v < Limit
    <3>1. \A k \in Nat: k < t => At(c, k) < i + 1
      BY <1>7, <1>8
    <3>2. u = t
      BY <2>2
    <3> HIDE DEF u
    <3> QED BY <1>11, <2>2, <3>1, <3>2
  <2> QED BY <2>1, <2>2
<1>13. \A k \in Nat: At(c, k) = i <=> v < Limit /\ k = t
  <2>1. \A k \in Nat: At(c, k) = i <=> k < u /\ ~ k < t
    <3> HIDE DEF u
    <3> QED BY <1>7, <1>8, <1>12
  <2> QED BY <2>1
<1>14. Before(c, i + 1) <= Word * u
  <2>1. Before(c, i + 1) = b + Size(c, i) /\ Size(c, i) \in Nat /\ Size(c, i) <= Limit
    BY <1>1, <1>2, BeforeFacts, SymbolSize, MaxBitsType
  <2>2. Word * (t + 1) = w + Word
    BY <1>1, ThresholdFacts
  <2>3. CASE v < Limit
    <3>1. Word * u = w + Word
      BY <2>2, <2>3
    <3> HIDE DEF u
    <3> QED BY <1>3, <1>5, <2>1, <3>1
  <2>4. CASE ~ v < Limit
    <3>1. Word * u = w
      BY <1>1, <2>4
    <3> HIDE DEF u
    <3> QED BY <1>3, <1>5, <2>1, <2>4, <3>1
  <2> QED BY <2>3, <2>4
<1>15. ASSUME v < Limit PROVE <<c, t>> \in AllWords /\ w <= MaxBits
  <2>1. At(c, t) = i
    BY <1>7, <1>8, <1>9, <1>15
  <2>2. t < NumWords(c)
    BY <1>1, <1>2, <2>1, AtWords
  <2>3. b <= MaxBits - Word
    <3>1. i \in i .. Chunk
      BY <1>1, <1>2
    <3> QED BY <1>1, <1>2, <3>1, BeforeGrows
  <2>4. w <= MaxBits
    BY <1>3, <1>5, <1>15, <2>3
  <2> QED BY <2>2, <2>4 DEF AllWords
<1>16. b <= w
  BY <1>3
<1> HIDE DEF u
<1>17. u = IF Low(level[c]) THEN Taken(c) + 1 ELSE Taken(c)
  BY <1>1, <1>4 DEF u
<1> QED BY <1>1, <1>4, <1>12, <1>13, <1>14, <1>15, <1>16, <1>17

\* With the word it takes, a lane holds the bits of one word more.
LEMMA LaneFilled ==
    ASSUME CodedRow, NEW c \in Chunks, Done(c) \in Steps, LaneInv(c)
    PROVE  LET i == Done(c)
               t == Taken(c)
               u == IF Low(level[c]) THEN t + 1 ELSE t
               filled == IF Low(level[c]) THEN buf[c] + Content(c, t) * 2 ^ level[c] ELSE buf[c]
           IN  filled \in Nat /\ filled * 2 ^ Before(c, i) = Pending(c, i, u)
<1>1. PICK i \in 0 .. Chunk, t \in Nat, f \in Nat, v \in Nat:
          i = Done(c) /\ t = Taken(c) /\ f = buf[c] /\ v = level[c]
  <2>1. Done(c) \in 0 .. Chunk
    BY MaxBitsType DEF Steps
  <2> QED BY <2>1 DEF LaneInv
<1>2. f * 2 ^ Before(c, i) = Pending(c, i, t) /\ v + Before(c, i) = Word * t
  BY <1>1 DEF LaneInv
<1>3. CASE ~ Low(level[c])
  BY <1>1, <1>2, <1>3
<1>4. CASE Low(level[c])
  <2>1. Before(c, i) <= Word * t /\ Word * t <= MaxBits
    BY <1>1, <1>4, LaneReady
  <2>2. Content(c, t) \in Nat
        /\ Pending(c, i, t + 1) = Pending(c, i, t) + Content(c, t) * 2 ^ (Word * t)
    BY <2>1, PendingWord
  <2>3. PICK b \in Nat: b = Before(c, i)
    <3>1. i \in i .. Chunk
      BY MaxBitsType
    <3> QED BY <3>1, BeforeGrows
  <2>4. 2 ^ (Word * t) = 2 ^ v * 2 ^ b
    BY <1>2, <2>1, <2>3, PowAdd
  <2>5. v \in 0 .. MaxBits /\ b \in 0 .. MaxBits
    BY <1>2, <2>1, <2>3, MaxBitsType, ThresholdFacts
  <2>6. PICK x \in Nat, y \in Nat, z \in Nat: x = 2 ^ v /\ y = 2 ^ b /\ z = Content(c, t)
    BY <2>2, <2>5, PowType
  <2>7. f + z * x \in Nat /\ (f + z * x) * y = f * y + z * (x * y)
    BY SMT
  <2>8. Pending(c, i, t + 1) = f * y + z * (x * y)
    BY <1>2, <2>2, <2>3, <2>4, <2>6
  <2>9. f + z * x \in Nat /\ (f + z * x) * 2 ^ Before(c, i) = Pending(c, i, t + 1)
    BY <2>3, <2>6, <2>7, <2>8
  <2>10. f + z * x = buf[c] + Content(c, t) * 2 ^ level[c]
    BY <1>1, <2>6
  <2> QED BY <1>1, <1>4, <2>9, <2>10
<1> QED BY <1>3, <1>4

\* The remainder by a power of two shows in that by a larger one.
LEMMA RemainderOfRemainder ==
    ASSUME NEW a \in Nat, NEW m \in Nat \ {0}, NEW k \in Nat \ {0}
    PROVE  a % (k * m) \in 0 .. (k * m - 1) /\ (a % (k * m)) % m = a % m
<1>1. PICK n \in Nat \ {0}: n = k * m
  BY SMT
<1>2. PICK q \in Nat, x \in 0 .. (n - 1): a = q * n + x /\ x = a % n
  <2>1. PICK q \in Nat: q = a \div n
    BY SMT
  <2>2. a = q * n + (a % n) /\ a % n \in 0 .. (n - 1)
    BY <2>1, SMT
  <2> QED BY <2>2
<1>3. PICK p \in Nat, r \in 0 .. (m - 1): x = p * m + r /\ r = x % m
  <2>1. PICK p \in Nat: p = x \div m
    BY SMT
  <2>2. x = p * m + (x % m) /\ x % m \in 0 .. (m - 1)
    BY <2>1, SMT
  <2> QED BY <2>2
<1>4. q * (k * m) = (q * k) * m /\ q * k \in Nat
  BY SMT
<1>5. (q * k) * m + p * m = (q * k + p) * m /\ q * k + p \in Nat
  BY <1>4, SMT
<1>6. a = (q * k + p) * m + r
  <2>1. q * n = (q * k) * m
    BY <1>1, <1>4
  <2>2. PICK z \in Nat, y \in Nat: z = (q * k) * m /\ y = p * m
    BY <1>4, SMT
  <2>3. a = z + (y + r)
    BY <1>2, <1>3, <2>1, <2>2
  <2>4. (q * k + p) * m = z + y
    BY <1>5, <2>2
  <2> QED BY <2>2, <2>3, <2>4
<1>7. ((q * k + p) * m + r) % m = r
  BY <1>5, DivMod
<1> QED BY <1>1, <1>2, <1>3, <1>6, <1>7

\* The table finds the symbol, and what is left are the bits of the symbols
\* after it.
LEMMA SymbolDecoded ==
    ASSUME CodeInv, NEW c \in Chunks, NEW i \in Steps, NEW u \in Nat, NEW f \in Nat,
           Before(c, i + 1) <= Word * u, f * 2 ^ Before(c, i) = Pending(c, i, u)
    PROVE  /\ lut[f % 2 ^ Limit] = Symbol(c, i)
           /\ f \div 2 ^ Size(c, i) \in Nat
           /\ (f \div 2 ^ Size(c, i)) * 2 ^ Before(c, i + 1) = Pending(c, i + 1, u)
<1>1. CodedRow
  BY DEF CodeInv
<1>2. /\ Symbol(c, i) \in Symbols /\ Size(c, i) \in 1 .. Limit
      /\ codes[Symbol(c, i)] \in Nat /\ codes[Symbol(c, i)] < 2 ^ Size(c, i)
  BY <1>1, SymbolSize DEF CodedRow, Size
<1>3. i \in 0 .. Chunk /\ i + 1 \in 0 .. Chunk /\ i + 1 \in (i + 1) .. Chunk
  BY MaxBitsType DEF Steps
<1>4. PICK b \in Nat, s \in Nat: /\ b = Before(c, i) /\ s = Size(c, i) /\ s <= Limit /\ s \in 1 .. Limit
                                 /\ b + s = Before(c, i + 1) /\ b + s <= MaxBits
  <2>1. Before(c, i + 1) <= MaxBits - Word /\ Before(c, i) \in Nat
        /\ Before(c, i + 1) = Before(c, i) + Size(c, i)
    BY <1>1, <1>3, BeforeGrows, BeforeFacts
  <2> QED BY <1>2, <2>1, MaxBitsType
<1>5. PICK B \in Nat \ {0}, L \in Nat \ {0}: B = 2 ^ b /\ L = 2 ^ s
  BY <1>4, PowType, MaxBitsType
<1>6. 2 ^ Before(c, i + 1) = B * L
  BY <1>4, <1>5, PowAdd
<1>7. PICK m \in Nat: Pending(c, i + 1, u) = m * 2 ^ Before(c, i + 1)
  BY <1>1, <1>3, LoadedFacts
<1>8. PICK k \in 0 .. (L - 1): k = codes[Symbol(c, i)]
  BY <1>2, <1>4, <1>5
<1>9. f * B = k * B + m * (B * L)
  <2>1. Pending(c, i, u) = codes[Symbol(c, i)] * 2 ^ Before(c, i) + Pending(c, i + 1, u)
    BY <1>1, PendingSymbol
  <2> QED BY <1>4, <1>5, <1>6, <1>7, <1>8, <2>1
<1>10. k * B + m * (B * L) = (m * L + k) * B /\ m * L \in Nat
  BY SMT
<1>11. f = m * L + k
  <2>1. PICK a \in Nat: a = m * L + k
    BY <1>10
  <2>2. f * B = a * B
    BY <1>9, <1>10, <2>1
  <2> QED BY <2>1, <2>2, SMT
<1>12. f \div L = m /\ f % L = k
  <2>1. (m * L + k) \div L = m /\ (m * L + k) % L = k
    BY DivMod
  <2> QED BY <1>11, <2>1
<1>13. f % 2 ^ Limit \in Entries /\ (f % 2 ^ Limit) % L = k
  <2>0. Limit \in Nat /\ s <= Limit /\ Limit <= MaxBits
    BY <1>4, MaxBitsType
  <2>1. PICK e \in Nat \ {0}: 2 ^ Limit = e * L
    <3>1. \E e \in Nat \ {0}: 2 ^ Limit = e * 2 ^ s
      BY <2>0, PowMultiple
    <3> QED BY <1>5, <3>1
  <2>2. f % (e * L) \in 0 .. (e * L - 1) /\ (f % (e * L)) % L = f % L
    BY RemainderOfRemainder
  <2> QED BY <1>12, <2>1, <2>2 DEF Entries
<1>14. Symbol(c, i) \in Writers(lengths, codes, f % 2 ^ Limit)
  <2>1. lengths[Symbol(c, i)] = s
    BY <1>4 DEF Size
  <2>2. (f % 2 ^ Limit) % 2 ^ lengths[Symbol(c, i)] = codes[Symbol(c, i)]
    BY <1>5, <1>8, <1>13, <2>1
  <2> QED BY <1>2, <2>2 DEF Writers
<1>15. lut[f % 2 ^ Limit] = Symbol(c, i)
  BY <1>2, <1>13, <1>14 DEF CodeInv
<1>16. f \div 2 ^ Size(c, i) = m
  BY <1>4, <1>5, <1>12
<1> QED BY <1>7, <1>15, <1>16

\* The lanes that refill take the words that the encoder put there for them.
LEMMA GroupWords ==
    ASSUME CodedRow, DecodeInv, NEW g \in GroupIds, pos[g] < Chunk
    PROVE  LET R == {l \in LaneIds: Low(level[g * Lanes + l])}
           IN  /\ Cardinality(TakenBefore(g, pos[g] + 1))
                     = Cardinality(TakenBefore(g, pos[g])) + Cardinality(R)
               /\ \A l \in R: HuffWord(WordIndex(g, R, l))
                     = Content(g * Lanes + l, Taken(g * Lanes + l))
<1> DEFINE R == {l \in LaneIds: Low(level[g * Lanes + l])}
           t == [l \in LaneIds |-> Taken(g * Lanes + l)]
           i == pos[g]
<1>1. i \in Steps
  <2>1. pos[g] \in 0 .. Chunk
    BY DEF DecodeInv
  <2> QED BY <2>1, MaxBitsType DEF Steps
<1>2. ASSUME NEW l \in LaneIds
      PROVE  /\ g * Lanes + l \in Chunks /\ Done(g * Lanes + l) = i
             /\ LaneInv(g * Lanes + l) /\ t[l] \in Nat /\ t[l] = Taken(g * Lanes + l)
  <2>1. g * Lanes + l \in Chunks /\ (g * Lanes + l) \div Lanes = g
    BY LaneOfChunk
  <2> QED BY <2>1 DEF Done, DecodeInv, LaneInv
<1>3. ASSUME NEW l \in LaneIds, NEW k \in Nat
      PROVE  At(g * Lanes + l, k) = i <=> l \in R /\ k = t[l]
  <2>1. At(g * Lanes + l, k) = i <=> Low(level[g * Lanes + l]) /\ k = t[l]
    BY <1>1, <1>2, LaneReady
  <2> QED BY <2>1
<1>4. t \in [LaneIds -> Nat]
  BY <1>2
<1> HIDE DEF t
<1>5. R \subseteq LaneIds
  OBVIOUS
<1>6. LanesTake(g, i, R, t)
  <2> HIDE DEF R, i
  <2> QED BY <1>3, <1>4, <1>5 DEF LanesTake
<1>7. /\ Cardinality(TakenBefore(g, i + 1)) = Cardinality(TakenBefore(g, i)) + Cardinality(R)
      /\ \A l \in R: KeyRank(WordKeys, AllWords, <<g * Lanes + l, t[l]>>)
            = Cardinality(TakenBefore(g, i)) + Cardinality({h \in R: h <= l}) - 1
  <2> HIDE DEF R, i
  <2> QED BY <1>1, <1>6, StepWords
<1>8. ASSUME NEW l \in R
      PROVE  HuffWord(WordIndex(g, R, l)) = Content(g * Lanes + l, Taken(g * Lanes + l))
  <2> DEFINE w == <<g * Lanes + l, t[l]>>
  <2>1. l \in LaneIds /\ Low(level[g * Lanes + l])
    OBVIOUS
  <2>2. w \in AllWords
    BY <1>1, <1>2, <2>1, LaneReady
  <2>3. WordIndex(g, R, l) = KeyRank(WordKeys, AllWords, w)
    <3>1. rp[g] = Cardinality(TakenBefore(g, i))
      BY DEF DecodeInv, GroupInv
    <3> HIDE DEF R, i
    <3> QED BY <1>7, <3>1 DEF WordIndex
  <2>4. w[1] = g * Lanes + l /\ w[2] = t[l]
    OBVIOUS
  <2> HIDE DEF w
  <2>5. HuffWord(KeyRank(WordKeys, AllWords, w)) = Content(w[1], w[2])
    BY <2>2 DEF DecodeInv, RecordInv
  <2> QED BY <1>2, <2>1, <2>3, <2>4, <2>5
<1> QED BY <1>7, <1>8

\* The nibble is that of the position.
LEMMA NibbleOfPosition ==
    ASSUME record.fixed = FixedWords, NEW g \in GroupIds, NEW l \in LaneIds, NEW i \in Steps
    PROVE  Nibble(g, l, i) = (g * Lanes + l) * Chunk + i
<1> DEFINE perLane == Chunk \div Nibbles
           m == i \div Nibbles
           x == g * perLane + m
           j == x * Lanes + l
<1>1. PICK n \in Nat \ {0}, p \in Nat, L \in Nat \ {0}, G \in Nat:
          n = Nibbles /\ p = perLane /\ Chunk = p * n /\ L = Lanes /\ G = Groups
  <2>1. PICK n \in Nat \ {0}: n = Nibbles
    BY GeometryAssumption
  <2>2. PICK p \in Nat: p = Chunk \div n
    BY <2>1, MaxBitsType, SMT
  <2>3. Chunk = p * n + (Chunk % n)
    BY <2>2, MaxBitsType, SMT
  <2>4. Chunk % n = 0
    BY <2>1, GeometryAssumption
  <2>5. p * n \in Nat
    BY SMT
  <2>6. Chunk = p * n
    BY <2>3, <2>4, <2>5
  <2> QED BY <2>1, <2>2, <2>6, GeometryAssumption
<1>2. /\ i \in 0 .. (p * n - 1) /\ g \in 0 .. (G - 1) /\ l \in 0 .. (L - 1)
      /\ g \in Nat /\ i \in Nat
  BY <1>1 DEF Steps, GroupIds, LaneIds
<1>3. PICK a \in 0 .. (p - 1), r \in 0 .. (n - 1): a = m /\ r = i % Nibbles /\ i = a * n + r
  <2>1. i \div n \in 0 .. (p - 1) /\ i % n \in 0 .. (n - 1) /\ i = (i \div n) * n + (i % n)
    BY <1>1, <1>2, DivBelow
  <2> QED BY <1>1, <2>1
<1>4. p \in Nat \ {0} /\ a \in Nat
  BY <1>3
<1>5. x = g * p + a
  BY <1>1, <1>3
<1>6. g * p + a \in 0 .. (G * p - 1) /\ (g * p + a) \div p = g /\ (g * p + a) % p = a
  BY <1>2, <1>4, DivMod, PackBelow
<1>7. PICK y \in Nat: y = x /\ y \in 0 .. (G * p - 1) /\ y \div p = g /\ y % p = a
  BY <1>5, <1>6
<1>8. G * p \in Nat
  BY SMT
<1>9. y * L + l \in 0 .. ((G * p) * L - 1) /\ (y * L + l) \div L = y /\ (y * L + l) % L = l
  BY <1>2, <1>7, <1>8, DivMod, PackBelow
<1>10. (G * p) * L = (G * L) * p
  BY SMT
<1>11. j = y * L + l
  BY <1>1, <1>7
<1>12. j \in 0 .. (Groups * Lanes * perLane - 1)
  BY <1>1, <1>9, <1>10, <1>11
<1>13. j \div Lanes = y /\ j % Lanes = l
  BY <1>1, <1>9, <1>11
<1>14. j \div (Lanes * perLane) = g
  <2>1. y = g * p + a
    BY <1>5, <1>7
  <2>2. (g * p + a) * L + l = g * (L * p) + (a * L + l) /\ L * p \in Nat
    BY <1>2, <1>4, SMT
  <2>3. a * L + l \in 0 .. (p * L - 1)
    BY <1>2, PackBelow
  <2>4. p * L = L * p
    BY SMT
  <2>5. L * p \in Nat \ {0} /\ a * L + l \in 0 .. (L * p - 1)
    BY <2>2, <2>3, <2>4
  <2>6. (g * (L * p) + (a * L + l)) \div (L * p) = g
    <3> DEFINE width == L * p
               within == a * L + l
    <3>1. width \in Nat \ {0} /\ within \in 0 .. (width - 1)
      BY <2>5
    <3> HIDE DEF width, within
    <3>2. (g * width + within) \div width = g
      BY <1>2, <3>1, DivMod
    <3> QED BY <3>2 DEF width, within
  <2>7. j = g * (L * p) + (a * L + l)
    BY <1>11, <2>1, <2>2
  <2> QED BY <1>1, <2>6, <2>7
<1> DEFINE word(h) == [k \in 0 .. (Nibbles - 1) |->
                          ((h \div (Lanes * perLane)) * Lanes + (h % Lanes)) * Chunk
                              + ((h \div Lanes) % perLane) * Nibbles + k]
<1>15. FixedWords = [h \in 0 .. (Groups * Lanes * perLane - 1) |-> word(h)]
  BY DEF FixedWords
<1>16. record.fixed[j] = word(j)
  <2> HIDE DEF j, word
  <2> QED BY <1>12, <1>15
<1>17. i % Nibbles \in 0 .. (Nibbles - 1)
  BY <1>1, <1>3
<1>18. Nibble(g, l, i) = word(j)[i % Nibbles]
  BY <1>16 DEF Nibble
<1>19. word(j)[i % Nibbles] = (g * Lanes + l) * Chunk + (y % perLane) * Nibbles + (i % Nibbles)
  <2> HIDE DEF j
  <2> QED BY <1>13, <1>14, <1>17
<1>20. (y % perLane) * Nibbles = a * n /\ i % Nibbles = r
  BY <1>1, <1>3, <1>7
<1>21. PICK q \in Nat: q = (g * Lanes + l) * Chunk
  <2>1. PICK d \in Nat: d = g * Lanes + l
    BY LaneOfChunk, ChunksType
  <2>2. d * Chunk \in Nat
    BY MaxBitsType
  <2> QED BY <2>1, <2>2
<1>22. a * n \in Nat
  BY <1>4, SMT
<1> QED BY <1>3, <1>18, <1>19, <1>20, <1>21, <1>22

-----------------------------------------------------------------------------
(* A step of a group.                                                      *)

\* What a step does to a lane of its group: the lane decodes the symbol of the
\* row, and if its buffer is low it first takes the encoder's next word.
LaneStep(c, i) ==
    LET n == Size(c, i)
        u == IF Low(level[c]) THEN Taken(c) + 1 ELSE Taken(c)
    IN  /\ buf'[c] \in Nat
        /\ buf'[c] * 2 ^ Before(c, i + 1) = Pending(c, i + 1, u)
        /\ level'[c] = level[c] + (IF Low(level[c]) THEN Word ELSE 0) - n
        /\ before'[c] = [j \in 0 .. (i + 1) |->
                            IF j <= i THEN before[c][j] ELSE before[c][i] + n]
        /\ refills'[c] = IF Low(level[c])
                         THEN [w \in 0 .. Taken(c) |->
                                  IF w < Taken(c) THEN refills[c][w] ELSE i]
                         ELSE refills[c]
        /\ out'[c * Chunk + i] = <<Symbol(c, i), c * Chunk + i>>

LaneStays(c) ==
    /\ buf'[c] = buf[c] /\ level'[c] = level[c]
    /\ before'[c] = before[c] /\ refills'[c] = refills[c]

LEMMA GroupStep ==
    ASSUME CodeInv, DecodeInv, NEW g \in GroupIds, DecodeSymbol(g)
    PROVE  /\ pos[g] \in Steps
           /\ pos' = [pos EXCEPT ![g] = @ + 1]
           /\ rp' = [rp EXCEPT ![g] = Cardinality(TakenBefore(g, pos[g] + 1))]
           /\ \A c \in Chunks: c \div Lanes = g => LaneStep(c, pos[g])
           /\ \A c \in Chunks: c \div Lanes # g => LaneStays(c)
           /\ \A p \in Positions: ~ ((p \div Chunk) \div Lanes = g /\ p % Chunk = pos[g])
                                     => out'[p] = out[p]
<1> DEFINE i == pos[g]
           refill == {l \in LaneIds: Low(level[g * Lanes + l])}
           InGroup(c) == c \div Lanes = g
           Refills(c) == InGroup(c) /\ (c % Lanes) \in refill
           filled == [c \in Chunks |->
                         IF Refills(c)
                         THEN buf[c] + HuffWord(WordIndex(g, refill, c % Lanes)) * 2 ^ level[c]
                         ELSE buf[c]]
           symbol == [c \in Chunks |-> lut[filled[c] % 2 ^ Limit]]
           bits == [c \in Chunks |-> lengths[symbol[c]]]
<1>1. pos[g] < Chunk /\ pos' = [pos EXCEPT ![g] = @ + 1]
  BY DEF DecodeSymbol
<1>2. rp' = [rp EXCEPT ![g] = @ + Cardinality(refill)]
  BY DEF DecodeSymbol
<1>3. buf' = [c \in Chunks |-> IF InGroup(c) THEN filled[c] \div 2 ^ bits[c] ELSE buf[c]]
  BY DEF DecodeSymbol
<1>4. level' = [c \in Chunks |->
                   IF InGroup(c)
                   THEN level[c] + (IF Refills(c) THEN Word ELSE 0) - bits[c]
                   ELSE level[c]]
  BY DEF DecodeSymbol
<1>5. out' = [p \in Positions |->
                 IF InGroup(p \div Chunk) /\ p % Chunk = i
                 THEN <<symbol[p \div Chunk], Nibble(g, (p \div Chunk) % Lanes, i)>>
                 ELSE out[p]]
  BY DEF DecodeSymbol
<1>6. before' = [c \in Chunks |->
                    IF InGroup(c)
                    THEN [j \in 0 .. (i + 1) |->
                             IF j <= i THEN before[c][j] ELSE before[c][i] + bits[c]]
                    ELSE before[c]]
  BY DEF DecodeSymbol
<1>7. refills' = [c \in Chunks |->
                     IF Refills(c)
                     THEN [w \in 0 .. Taken(c) |->
                              IF w < Taken(c) THEN refills[c][w] ELSE i]
                     ELSE refills[c]]
  BY DEF DecodeSymbol, Taken
<1>8. CodedRow /\ i \in Steps
  <2>1. pos[g] \in 0 .. Chunk
    BY DEF DecodeInv
  <2> QED BY <1>1, <2>1, MaxBitsType DEF Steps, CodeInv
<1>9. /\ Cardinality(TakenBefore(g, i + 1)) = Cardinality(TakenBefore(g, i)) + Cardinality(refill)
      /\ \A l \in refill: HuffWord(WordIndex(g, refill, l))
            = Content(g * Lanes + l, Taken(g * Lanes + l))
  BY <1>1, <1>8, GroupWords
<1>10. rp' = [rp EXCEPT ![g] = Cardinality(TakenBefore(g, i + 1))]
  <2>1. rp[g] = Cardinality(TakenBefore(g, i))
    BY DEF DecodeInv, GroupInv
  <2> HIDE DEF refill, i
  <2> QED BY <1>2, <1>9, <2>1
<1>11. ASSUME NEW c \in Chunks, c \div Lanes = g
       PROVE  /\ c = g * Lanes + (c % Lanes) /\ c % Lanes \in LaneIds
              /\ Refills(c) <=> Low(level[c])
              /\ Refills(c) => HuffWord(WordIndex(g, refill, c % Lanes)) = Content(c, Taken(c))
  <2>1. c = g * Lanes + (c % Lanes) /\ c % Lanes \in LaneIds
    BY <1>11, ChunkOfLane
  <2>2. PICK l \in LaneIds: l = c % Lanes /\ c = g * Lanes + l
    BY <2>1
  <2>3. l \in refill <=> Low(level[c])
    BY <2>2
  <2> HIDE DEF refill
  <2> QED BY <1>9, <1>11, <2>1, <2>2, <2>3
<1>12. ASSUME NEW c \in Chunks, c \div Lanes = g
       PROVE  /\ symbol[c] = Symbol(c, i) /\ bits[c] = Size(c, i)
              /\ filled[c] \div 2 ^ Size(c, i) \in Nat
              /\ (filled[c] \div 2 ^ Size(c, i)) * 2 ^ Before(c, i + 1)
                    = Pending(c, i + 1, IF Low(level[c]) THEN Taken(c) + 1 ELSE Taken(c))
  <2> DEFINE u == IF Low(level[c]) THEN Taken(c) + 1 ELSE Taken(c)
  <2>1. LaneInv(c) /\ Done(c) = i
    BY <1>12 DEF DecodeInv, Done
  <2>2. filled[c] = IF Low(level[c]) THEN buf[c] + Content(c, Taken(c)) * 2 ^ level[c] ELSE buf[c]
    <3> HIDE DEF Refills
    <3> QED BY <1>11, <1>12
  <2>3. filled[c] \in Nat /\ filled[c] * 2 ^ Before(c, i) = Pending(c, i, u)
    <3> HIDE DEF filled
    <3> QED BY <1>8, <2>1, <2>2, LaneFilled
  <2>4. u \in Nat /\ Before(c, i + 1) <= Word * u
    BY <1>8, <2>1, LaneReady
  <2> HIDE DEF u
  <2>5. PICK f \in Nat: f = filled[c]
    BY <2>3
  <2>6. /\ lut[f % 2 ^ Limit] = Symbol(c, i)
        /\ f \div 2 ^ Size(c, i) \in Nat
        /\ (f \div 2 ^ Size(c, i)) * 2 ^ Before(c, i + 1) = Pending(c, i + 1, u)
    <3> HIDE DEF i
    <3> QED BY <1>8, <2>3, <2>4, <2>5, SymbolDecoded
  <2>7. symbol[c] = Symbol(c, i)
    <3> HIDE DEF filled
    <3> QED BY <2>5, <2>6
  <2>8. bits[c] = Size(c, i)
    <3> HIDE DEF symbol
    <3> QED BY <2>7 DEF Size
  <2> HIDE DEF filled, bits, symbol
  <2> QED BY <2>5, <2>6, <2>7, <2>8 DEF u
<1> HIDE DEF filled, symbol, bits, refill
<1>13. ASSUME NEW c \in Chunks, c \div Lanes = g
       PROVE  LaneStep(c, i)
  <2>1. InGroup(c) /\ (Refills(c) <=> Low(level[c]))
    BY <1>11, <1>13
  <2>2. bits[c] = Size(c, i) /\ symbol[c] = Symbol(c, i)
    BY <1>12, <1>13
  <2>3. buf'[c] = filled[c] \div 2 ^ Size(c, i)
    BY <1>3, <2>1, <2>2
  <2>4. buf'[c] \in Nat
        /\ buf'[c] * 2 ^ Before(c, i + 1)
              = Pending(c, i + 1, IF Low(level[c]) THEN Taken(c) + 1 ELSE Taken(c))
    BY <1>12, <1>13, <2>3
  <2>5. level'[c] = level[c] + (IF Low(level[c]) THEN Word ELSE 0) - Size(c, i)
    <3> HIDE DEF Refills
    <3> QED BY <1>4, <2>1, <2>2
  <2>6. before'[c] = [j \in 0 .. (i + 1) |->
                         IF j <= i THEN before[c][j] ELSE before[c][i] + Size(c, i)]
    BY <1>6, <2>1, <2>2
  <2>7. refills'[c] = IF Low(level[c])
                      THEN [w \in 0 .. Taken(c) |->
                               IF w < Taken(c) THEN refills[c][w] ELSE i]
                      ELSE refills[c]
    <3> HIDE DEF Refills
    <3> QED BY <1>7, <2>1
  <2>8. out'[c * Chunk + i] = <<Symbol(c, i), c * Chunk + i>>
    <3>1. PICK p \in Positions: p = c * Chunk + i /\ p \div Chunk = c /\ p % Chunk = i
      BY <1>8, StepOfPosition
    <3>2. out'[p] = <<symbol[c], Nibble(g, c % Lanes, i)>>
      BY <1>5, <2>1, <3>1
    <3>3. record.fixed = FixedWords /\ c % Lanes \in LaneIds
      BY <1>11, <1>13 DEF DecodeInv, RecordInv
    <3>4. Nibble(g, c % Lanes, i) = (g * Lanes + (c % Lanes)) * Chunk + i
      <4> HIDE DEF i
      <4> QED BY <1>8, <3>3, NibbleOfPosition
    <3>5. Nibble(g, c % Lanes, i) = c * Chunk + i
      BY <1>11, <1>13, <3>4, Zenon
    <3> QED BY <2>2, <3>1, <3>2, <3>5
  <2> QED BY <2>4, <2>5, <2>6, <2>7, <2>8, Zenon DEF LaneStep
<1>14. ASSUME NEW c \in Chunks, c \div Lanes # g PROVE LaneStays(c)
  <2>1. ~ InGroup(c) /\ ~ Refills(c)
    BY <1>14
  <2> HIDE DEF Refills, InGroup
  <2> QED BY <1>3, <1>4, <1>6, <1>7, <2>1 DEF LaneStays
<1>15. \A p \in Positions: ~ ((p \div Chunk) \div Lanes = g /\ p % Chunk = i) => out'[p] = out[p]
  BY <1>5
<1> QED BY <1>1, <1>8, <1>10, <1>13, <1>14, <1>15

LEMMA LaneKept ==
    ASSUME CodeInv, DecodeInv, NEW g \in GroupIds, DecodeSymbol(g), NEW c \in Chunks
    PROVE  LaneInv(c)'
<1>1. CodedRow /\ LaneInv(c) /\ row' = row /\ lengths' = lengths /\ codes' = codes
  BY DEF CodeInv, DecodeInv, DecodeSymbol, codeVars
<1>2. /\ \A j: Before(c, j)' = Before(c, j)
      /\ \A k: At(c, k)' = At(c, k)
      /\ \A j, t: Pending(c, j, t)' = Pending(c, j, t)
  BY <1>1, SameBits, SameContent
<1>3. /\ pos[g] \in Steps /\ pos' = [pos EXCEPT ![g] = @ + 1]
      /\ c \div Lanes = g => LaneStep(c, pos[g])
      /\ c \div Lanes # g => LaneStays(c)
      /\ c \div Lanes \in GroupIds /\ DOMAIN pos = GroupIds
  BY GroupStep, ChunkOfLane DEF DecodeInv
<1>4. CASE c \div Lanes # g
  <2>1. Done(c)' = Done(c)
    BY <1>3, <1>4 DEF Done
  <2>2. /\ buf'[c] = buf[c] /\ level'[c] = level[c]
        /\ before'[c] = before[c] /\ refills'[c] = refills[c]
    BY <1>3, <1>4 DEF LaneStays
  <2>3. Taken(c)' = Taken(c)
    BY <2>2 DEF Taken
  <2> QED BY <1>1, <1>2, <2>1, <2>2, <2>3 DEF LaneInv
<1>5. CASE c \div Lanes = g
  <2>1. PICK i \in Nat, t \in Nat: /\ i = pos[g] /\ i \in Steps /\ t = Taken(c) /\ Done(c) = i
                                   /\ Done(c)' = i + 1
    BY <1>1, <1>3, <1>5, MaxBitsType DEF Done, Steps, LaneInv
  <2> DEFINE u == IF Low(level[c]) THEN t + 1 ELSE t
             n == Size(c, i)
  <2>2. /\ buf'[c] \in Nat
        /\ buf'[c] * 2 ^ Before(c, i + 1) = Pending(c, i + 1, u)
        /\ level'[c] = level[c] + (IF Low(level[c]) THEN Word ELSE 0) - n
        /\ before'[c] = [j \in 0 .. (i + 1) |->
                            IF j <= i THEN before[c][j] ELSE before[c][i] + n]
        /\ refills'[c] = IF Low(level[c])
                         THEN [w \in 0 .. t |-> IF w < t THEN refills[c][w] ELSE i]
                         ELSE refills[c]
    BY <1>3, <1>5, <2>1 DEF LaneStep
  <2>3. /\ u \in Nat /\ \A k \in Nat: k < u <=> At(c, k) < i + 1
        /\ Before(c, i + 1) <= Word * u
    BY <1>1, <2>1, LaneReady
  <2>4. DOMAIN refills'[c] = 0 .. (u - 1)
    <3>1. DOMAIN refills[c] = 0 .. (t - 1)
      BY <1>1, <2>1 DEF LaneInv
    <3>2. CASE Low(level[c])
      BY <2>1, <2>2, <3>2
    <3>3. CASE ~ Low(level[c])
      BY <2>2, <3>1, <3>3
    <3> QED BY <3>2, <3>3
  <2>5. Taken(c)' = u
    <3>1. Cardinality(0 .. (u - 1)) = u
      <4> HIDE DEF u
      <4>1. u - 1 \in Int /\ 0 \in Int
        BY <2>3
      <4>2. Cardinality(0 .. (u - 1)) = IF 0 > u - 1 THEN 0 ELSE (u - 1) - 0 + 1
        BY <4>1, FS_Interval
      <4> QED BY <2>3, <4>2
    <3> QED BY <2>4, <3>1, Zenon DEF Taken
  <2>6. level'[c] \in Nat /\ level'[c] + Before(c, i + 1) = Word * u
    <3>1. PICK v \in Nat, b \in Nat, m \in Nat: v = level[c] /\ b = Before(c, i) /\ m = n
      <4>1. i \in i .. Chunk /\ i \in 0 .. Chunk
        BY <2>1, MaxBitsType DEF Steps
      <4> QED BY <1>1, <2>1, <4>1, BeforeGrows, SymbolSize DEF LaneInv
    <3>2. PICK w \in Nat: w = Word * t /\ v + b = w /\ Word * (t + 1) = w + Word /\ Word \in Nat
      <4>1. level[c] + Before(c, i) = Word * t
        BY <1>1, <2>1 DEF LaneInv
      <4>2. Word * t \in Nat /\ Word * (t + 1) = Word * t + Word
        BY <2>1, ThresholdFacts
      <4> QED BY <3>1, <4>1, <4>2, MaxBitsType
    <3>3. Before(c, i + 1) = b + m
      BY <1>1, <2>1, <3>1, BeforeFacts
    <3>4. CASE Low(level[c])
      <4>1. u = t + 1 /\ level'[c] = v + Word - m
        BY <2>2, <3>1, <3>4
      <4>2. Word * u = w + Word
        BY <3>2, <4>1
      <4> HIDE DEF u
      <4> QED BY <2>3, <3>2, <3>3, <4>1, <4>2
    <3>5. CASE ~ Low(level[c])
      <4>1. u = t /\ level'[c] = v + 0 - m
        BY <2>2, <3>1, <3>5
      <4>2. Word * u = w
        BY <3>2, <4>1
      <4> HIDE DEF u
      <4> QED BY <2>3, <3>2, <3>3, <4>1, <4>2
    <3> QED BY <3>4, <3>5
  <2>7. before'[c] = [j \in 0 .. (i + 1) |-> Before(c, j)]
    <3>1. before[c] = [j \in 0 .. i |-> Before(c, j)]
      BY <1>1, <2>1 DEF LaneInv
    <3>2. Before(c, i + 1) = Before(c, i) + n
      BY <1>1, <2>1, BeforeFacts
    <3>3. \A j \in 0 .. (i + 1): (IF j <= i THEN before[c][j] ELSE before[c][i] + n) = Before(c, j)
      <4> SUFFICES ASSUME NEW j \in 0 .. (i + 1)
                   PROVE  (IF j <= i THEN before[c][j] ELSE before[c][i] + n) = Before(c, j)
        OBVIOUS
      <4>1. CASE j <= i
        BY <2>1, <3>1, <4>1
      <4>2. CASE ~ j <= i
        <5>1. j = i + 1 /\ i \in 0 .. i
          BY <2>1, <4>2
        <5>2. before[c][i] = Before(c, i)
          BY <3>1, <5>1
        <5> QED BY <3>2, <4>2, <5>1, <5>2
      <4> QED BY <4>1, <4>2
    <3> HIDE DEF n
    <3> QED BY <2>2, <3>3
  <2> HIDE DEF u, n
  <2>8. DOMAIN refills[c]' = 0 .. (Taken(c)' - 1)
    BY <2>4, <2>5
  <2>9. Done(c)' = i + 1 /\ Taken(c)' = u
    BY <2>1, <2>5
  <2> QED BY <1>2, <2>2, <2>3, <2>6, <2>7, <2>8, <2>9 DEF LaneInv
<1> QED BY <1>4, <1>5

LEMMA GroupKept ==
    ASSUME CodeInv, DecodeInv, NEW g \in GroupIds, DecodeSymbol(g), NEW h \in GroupIds
    PROVE  GroupInv(h)'
<1>1. row' = row /\ lengths' = lengths /\ GroupInv(h) /\ DOMAIN rp = GroupIds /\ DOMAIN pos = GroupIds
  BY DEF DecodeSymbol, codeVars, DecodeInv
<1>2. \A i: TakenBefore(h, i)' = TakenBefore(h, i)
  BY <1>1, SameWords
<1>3. /\ pos' = [pos EXCEPT ![g] = @ + 1]
      /\ rp' = [rp EXCEPT ![g] = Cardinality(TakenBefore(g, pos[g] + 1))]
  BY GroupStep
<1>4. CASE h = g
  <2>1. pos'[h] = pos[g] + 1 /\ rp'[h] = Cardinality(TakenBefore(g, pos[g] + 1))
    BY <1>1, <1>3, <1>4
  <2> QED BY <1>2, <1>4, <2>1 DEF GroupInv
<1>5. CASE h # g
  <2>1. pos'[h] = pos[h] /\ rp'[h] = rp[h]
    BY <1>1, <1>3, <1>5
  <2> QED BY <1>1, <1>2, <2>1 DEF GroupInv
<1> QED BY <1>4, <1>5

LEMMA RowKept ==
    ASSUME CodeInv, DecodeInv, NEW g \in GroupIds, DecodeSymbol(g)
    PROVE  DecodedIsRow'
<1> SUFFICES ASSUME NEW h \in GroupIds, NEW l \in LaneIds, NEW i \in Steps, i < pos'[h]
             PROVE  LET p == (h * Lanes + l) * Chunk + i
                    IN  out'[p] = <<row'[p], p>>
  BY DEF DecodedIsRow
<1>1. PICK c \in Chunks: c = h * Lanes + l /\ c \div Lanes = h
  BY LaneOfChunk
<1>2. PICK p \in Positions: p = c * Chunk + i /\ p \div Chunk = c /\ p % Chunk = i
  BY StepOfPosition
<1>3. row' = row /\ pos \in [GroupIds -> 0 .. Chunk] /\ i \in Nat
  <2>1. row' = row
    BY DEF DecodeSymbol
  <2>2. i \in Nat
    BY MaxBitsType DEF Steps
  <2> QED BY <2>1, <2>2 DEF DecodeInv
<1>4. /\ pos[g] \in Steps /\ pos' = [pos EXCEPT ![g] = @ + 1]
      /\ c \div Lanes = g => LaneStep(c, pos[g])
      /\ ~ ((p \div Chunk) \div Lanes = g /\ p % Chunk = pos[g]) => out'[p] = out[p]
  BY GroupStep
<1>5. CASE h = g /\ i = pos[g]
  <2>1. out'[c * Chunk + i] = <<Symbol(c, i), c * Chunk + i>>
    BY <1>1, <1>4, <1>5 DEF LaneStep
  <2>2. Symbol(c, i) = row[c * Chunk + i]
    BY DEF Symbol
  <2> QED BY <1>1, <1>3, <2>1, <2>2
<1>6. CASE ~ (h = g /\ i = pos[g])
  <2>1. i < pos[h]
    <3>1. CASE h = g
      <4>1. pos'[h] = pos[g] + 1 /\ pos[g] \in Nat
        BY <1>3, <1>4, <3>1, MaxBitsType
      <4> QED BY <1>3, <1>6, <3>1, <4>1
    <3>2. CASE h # g
      BY <1>3, <1>4, <3>2
    <3> QED BY <3>1, <3>2
  <2>2. out'[p] = out[p]
    BY <1>1, <1>2, <1>4, <1>6
  <2>3. out[(h * Lanes + l) * Chunk + i] = <<row[(h * Lanes + l) * Chunk + i], (h * Lanes + l) * Chunk + i>>
    BY <2>1 DEF DecodeInv, DecodedIsRow
  <2>4. p = (h * Lanes + l) * Chunk + i
    BY <1>1, <1>2
  <2> QED BY <1>3, <2>2, <2>3, <2>4, Zenon
<1> QED BY <1>5, <1>6

LEMMA RecordKept ==
    ASSUME RecordInv, row' = row, lengths' = lengths, codes' = codes, record' = record
    PROVE  RecordInv'
<1>1. /\ \A c: Base(c)' = Base(c)
      /\ AllWords' = AllWords /\ WordKeys' = WordKeys
      /\ \A c, k: Content(c, k)' = Content(c, k)
  BY SameWords, SameContent
<1>2. ASSUME NEW w \in AllWords
      PROVE  (HuffWord(KeyRank(WordKeys, AllWords, w)) = Content(w[1], w[2]))'
  <2>1. HuffWord(KeyRank(WordKeys, AllWords, w)) = Content(w[1], w[2])
    BY DEF RecordInv
  <2>2. KeyRank(WordKeys, AllWords, w)' = KeyRank(WordKeys, AllWords, w)
    BY <1>1 DEF KeyRank
  <2>3. HuffWord(KeyRank(WordKeys, AllWords, w))' = HuffWord(KeyRank(WordKeys, AllWords, w))
    BY <2>2 DEF HuffWord
  <2> QED BY <1>1, <2>1, <2>3
<1>3. (\A w \in AllWords: HuffWord(KeyRank(WordKeys, AllWords, w)) = Content(w[1], w[2]))'
  BY <1>1, <1>2
<1>4. record'.fixed = FixedWords /\ \A g \in 0 .. Groups: record'.gstart[g] = Base(g * Lanes)'
  <2>1. ASSUME NEW g \in 0 .. Groups PROVE record'.gstart[g] = Base(g * Lanes)'
    <3>1. record.gstart[g] = Base(g * Lanes)
      BY DEF RecordInv
    <3> QED BY <1>1, <3>1
  <2> QED BY <2>1 DEF RecordInv
<1> QED BY <1>3, <1>4 DEF RecordInv

LEMMA DecodeKept ==
    ASSUME CodeInv, DecodeInv, NEW g \in GroupIds, DecodeSymbol(g)
    PROVE  DecodeInv'
<1>1. pos' \in [GroupIds -> 0 .. Chunk] /\ DOMAIN rp' = GroupIds
  <2>1. pos \in [GroupIds -> 0 .. Chunk] /\ DOMAIN rp = GroupIds
    BY DEF DecodeInv
  <2>2. pos[g] \in Steps /\ pos' = [pos EXCEPT ![g] = @ + 1] /\ DOMAIN rp' = DOMAIN rp
    BY GroupStep
  <2>3. pos[g] + 1 \in 0 .. Chunk
    BY <2>2, MaxBitsType DEF Steps
  <2> QED BY <2>1, <2>2, <2>3
<1>2. RecordInv'
  BY RecordKept DEF DecodeInv, DecodeSymbol, codeVars
<1>3. \A h \in GroupIds: GroupInv(h)'
  BY GroupKept
<1>4. \A c \in Chunks: LaneInv(c)'
  BY LaneKept
<1>5. DecodedIsRow'
  BY RowKept
<1> QED BY <1>1, <1>2, <1>3, <1>4, <1>5 DEF DecodeInv

-----------------------------------------------------------------------------
(* The steps before that.                                                  *)

LEMMA NothingPending ==
    ASSUME CodedRow, NEW c \in Chunks
    PROVE  Pending(c, 0, 0) = 0
<1>1. 0 \in 0 .. Chunk
  BY MaxBitsType
<1>2. From(c, 0) \subseteq Positions /\ IsFiniteSet(From(c, 0))
  BY <1>1, FromFacts
<1>3. \A q \in From(c, 0): Loaded(0)[q] = 0
  <2> SUFFICES ASSUME NEW q \in From(c, 0) PROVE Loaded(0)[q] = 0
    OBVIOUS
  <2>1. q \in Positions
    BY <1>2
  <2>2. WordAt(q) \in Nat
    BY <2>1, OffsetFacts
  <2>3. Piece(q, 0) = 0
    BY <2>2 DEF Piece
  <2> QED BY <2>1, <2>3 DEF Loaded
<1>4. \A q \in From(c, 0): Loaded(0)[q] \in Nat /\ \E k \in Nat: Loaded(0)[q] = k * 0
  BY <1>3
<1>5. \E k \in Nat: SumFunctionOnSet(Loaded(0), From(c, 0)) = k * 0
  BY <1>2, <1>4, SumMultiple
<1> QED BY <1>5 DEF Pending

LEMMA EncodeKept ==
    ASSUME CodeInv, NothingDecoded, Encode, phase' = "decode"
    PROVE  DecodeInv'
<1>1. CodedRow /\ row' = row /\ lengths' = lengths /\ codes' = codes
  BY DEF CodeInv, Encode
<1>2. record' = RecordOf /\ rp' = [g \in GroupIds |-> Base(g * Lanes)]
  BY <1>1, EncodedRecord
<1>3. UNCHANGED <<pos, buf, level, out, before, refills>>
  BY DEF Encode
<1>4. /\ \A c: Base(c)' = Base(c)
      /\ AllWords' = AllWords /\ WordKeys' = WordKeys
      /\ \A c, k: Content(c, k)' = Content(c, k)
      /\ \A g, i: TakenBefore(g, i)' = TakenBefore(g, i)
      /\ \A c, i: Before(c, i)' = Before(c, i)
      /\ \A c, k: At(c, k)' = At(c, k)
      /\ \A c, j, t: Pending(c, j, t)' = Pending(c, j, t)
  BY <1>1, SameWords, SameContent, SameBits
<1>5. RecordInv'
  <2>1. record'.fixed = FixedWords /\ \A g \in 0 .. Groups: record'.gstart[g] = Base(g * Lanes)
    BY <1>2 DEF RecordOf
  <2>2. ASSUME NEW w \in AllWords
        PROVE  (HuffWord(KeyRank(WordKeys, AllWords, w)) = Content(w[1], w[2]))'
    <3>1. PICK j: j = KeyRank(WordKeys, AllWords, w)
      OBVIOUS
    <3>2. j \in DOMAIN RecordOf.huff /\ RecordOf.huff[j] = Content(w[1], w[2])
      BY <1>1, <3>1, HuffAt
    <3>3. KeyRank(WordKeys, AllWords, w)' = j
      BY <1>4, <3>1 DEF KeyRank
    <3>4. record'.huff = RecordOf.huff
      BY <1>2
    <3> QED BY <1>4, <3>2, <3>3, <3>4 DEF HuffWord
  <2>3. (\A w \in AllWords: HuffWord(KeyRank(WordKeys, AllWords, w)) = Content(w[1], w[2]))'
    BY <1>4, <2>2
  <2>4. \A g \in 0 .. Groups: record'.gstart[g] = Base(g * Lanes)'
    <3>1. ASSUME NEW g \in 0 .. Groups PROVE record'.gstart[g] = Base(g * Lanes)'
      BY <1>4, <2>1
    <3> QED BY <3>1
  <2> QED BY <2>1, <2>3, <2>4 DEF RecordInv
<1>6. ASSUME NEW g \in GroupIds PROVE GroupInv(g)'
  <2>1. g \in 0 .. Groups
    BY GeometryAssumption DEF GroupIds
  <2>2. Cardinality(TakenBefore(g, 0)) = Base(g * Lanes)
    BY <1>1, <2>1, GroupsInOrder
  <2>3. pos'[g] = 0
    BY <1>3 DEF NothingDecoded
  <2> QED BY <1>2, <1>4, <2>2, <2>3 DEF GroupInv
<1>7. ASSUME NEW c \in Chunks PROVE LaneInv(c)'
  <2>1. Done(c)' = 0
    <3>1. c \div Lanes \in GroupIds
      BY ChunkOfLane
    <3> QED BY <1>3, <3>1 DEF NothingDecoded, Done
  <2>2. DOMAIN refills'[c] = {}
    BY <1>3 DEF NothingDecoded
  <2>3. Taken(c)' = 0
    BY <2>2, FS_EmptySet DEF Taken
  <2>4. level'[c] = 0 /\ buf'[c] = 0 /\ before'[c] = [j \in 0 .. 0 |-> 0]
    BY <1>3 DEF NothingDecoded
  <2>5. Before(c, 0) = 0 /\ Pending(c, 0, 0) = 0
    BY <1>1, BeforeFacts, NothingPending
  <2>6. before'[c] = [j \in 0 .. 0 |-> Before(c, j)]
    BY <2>4, <2>5
  <2>7. 2 ^ 0 \in Nat
    BY PowType, MaxBitsType
  <2>8. level'[c] + Before(c, 0) = Word * 0 /\ buf'[c] * 2 ^ Before(c, 0) = Pending(c, 0, 0)
    BY <2>4, <2>5, <2>7, MaxBitsType
  <2>9. \A k \in Nat: k < 0 <=> At(c, k) < 0
    <3>1. \A k \in Nat: At(c, k) \in 0 .. Chunk
      BY <1>1, AtBelow
    <3> QED BY <3>1, MaxBitsType
  <2>10. DOMAIN refills'[c] = 0 .. (0 - 1)
    BY <2>2
  <2> QED BY <1>4, <2>1, <2>3, <2>4, <2>6, <2>8, <2>9, <2>10 DEF LaneInv
<1>8. pos' \in [GroupIds -> 0 .. Chunk] /\ DOMAIN rp' = GroupIds
  BY <1>2, <1>3, MaxBitsType DEF NothingDecoded
<1>9. DecodedIsRow'
  <2>1. \A g \in GroupIds, i \in Steps: ~ i < pos'[g]
    BY <1>3, MaxBitsType DEF NothingDecoded, Steps
  <2> QED BY <2>1 DEF DecodedIsRow
<1> QED BY <1>5, <1>6, <1>7, <1>8, <1>9 DEF DecodeInv

LEMMA InitIInv == Init => IInv
<1> SUFFICES ASSUME Init PROVE IInv
  OBVIOUS
<1>1. phase = "tree" /\ heap = Leaves(counts) /\ lengths = NoLengths
  BY DEF Init, InitCode
<1>2. Tree(heap, lengths) /\ Kraft(heap, lengths)
  BY <1>1, LeavesAreTree, LeavesAreKraft
<1>3. NothingDecoded /\ row \in Rows
  BY DEF Init, NothingDecoded
<1> QED BY <1>1, <1>2, <1>3 DEF IInv

LEMMA BuildKept ==
    ASSUME IInv, BuildCode, UNCHANGED <<row, record, decodeVars>>
    PROVE  IInv'
<1>1. phase = "tree" /\ NothingDecoded' /\ row' \in Rows /\ row' = row
      /\ row \in [Positions -> Symbols] /\ Tree(heap, lengths) /\ Kraft(heap, lengths)
  <2>1. phase = "tree"
    BY DEF BuildCode, Merge, Raise, Assign
  <2>2. NothingDecoded
    BY <2>1 DEF IInv
  <2> QED BY <2>1, <2>2, GeometryAssumption DEF NothingDecoded, decodeVars, IInv
<1>2. CASE Merge
  <2>1. Tree(heap', lengths') /\ Kraft(heap', lengths') /\ phase' = "tree"
    BY <1>1, <1>2, MergeKeepsTree, MergeKeepsKraft DEF Merge
  <2> QED BY <1>1, <2>1 DEF IInv
<1>3. CASE Raise
  <2>1. heap' = Leaves(counts') /\ lengths' = NoLengths /\ phase' = "tree"
    BY <1>1, <1>3 DEF Raise
  <2>2. Tree(heap', lengths') /\ Kraft(heap', lengths')
    BY <2>1, LeavesAreTree, LeavesAreKraft
  <2> QED BY <1>1, <2>1, <2>2 DEF IInv
<1>4. CASE Assign
  <2>1. phase' = "coded"
    BY <1>1, <1>4, AssertionsHold
  <2>2. phase' = "coded" => CodeInv'
    BY <1>1, <1>4, AssignedCode
  <2> QED BY <1>1, <2>1, <2>2 DEF IInv
<1> QED BY <1>2, <1>3, <1>4 DEF BuildCode

LEMMA CodeKept ==
    ASSUME CodeInv, UNCHANGED <<row, lengths, codes, lut>>
    PROVE  CodeInv'
BY DEF CodeInv, CodedRow, Writers

LEMMA StepIInv == IInv /\ [Next]_vars => IInv'
<1> SUFFICES ASSUME IInv, [Next]_vars PROVE IInv'
  OBVIOUS
<1>1. CASE BuildCode /\ UNCHANGED <<row, record, decodeVars>>
  BY <1>1, BuildKept
<1>2. CASE Encode
  <2>1. phase = "coded" /\ UNCHANGED <<row, lengths, codes, lut>>
    BY <1>2 DEF Encode
  <2>2. CodeInv /\ NothingDecoded /\ row' \in Rows
    BY <2>1 DEF IInv
  <2>3. CodeInv'
    BY <2>1, <2>2, CodeKept
  <2>4. phase' = "decode" \/ (phase' = "rejected" /\ rp' = rp)
    BY <1>2 DEF Encode
  <2>5. CASE phase' = "decode"
    <3>1. DecodeInv'
      BY <1>2, <2>2, <2>5, EncodeKept
    <3> QED BY <2>2, <2>3, <2>5, <3>1 DEF IInv
  <2>6. CASE phase' = "rejected" /\ rp' = rp
    <3>1. UNCHANGED <<pos, buf, level, before, refills>>
      BY <1>2 DEF Encode
    <3>2. NothingDecoded'
      BY <2>2, <2>6, <3>1 DEF NothingDecoded
    <3> QED BY <2>2, <2>6, <3>2 DEF IInv
  <2> QED BY <2>4, <2>5, <2>6
<1>3. CASE \E g \in GroupIds: DecodeSymbol(g)
  <2>1. PICK g \in GroupIds: DecodeSymbol(g)
    BY <1>3
  <2>2. phase = "decode" /\ UNCHANGED <<codeVars, row, record>>
    BY <2>1 DEF DecodeSymbol
  <2>3. CodeInv /\ DecodeInv /\ row' \in Rows /\ phase' = "decode"
    BY <2>2 DEF IInv, codeVars
  <2>4. CodeInv'
    BY <2>2, <2>3, CodeKept DEF codeVars
  <2>5. DecodeInv'
    BY <2>1, <2>3, DecodeKept
  <2> QED BY <2>3, <2>4, <2>5 DEF IInv
<1>4. CASE UNCHANGED vars
  <2>1. /\ UNCHANGED <<row, record, lengths, codes, lut, phase, heap>>
        /\ UNCHANGED <<pos, rp, buf, level, out, before, refills>>
    BY <1>4 DEF vars, codeVars, decodeVars
  <2>2. /\ row' \in Rows
        /\ phase' \in {"tree", "coded", "decode", "rejected"}
        /\ phase' = "tree" => Tree(heap', lengths') /\ Kraft(heap', lengths')
        /\ phase' \in {"coded", "decode"} => CodeInv'
    BY <2>1, CodeKept DEF IInv
  <2>3. phase' # "decode" => NothingDecoded'
    BY <2>1 DEF IInv, NothingDecoded
  <2>4. ASSUME phase = "decode" PROVE DecodeInv'
    <3>1. DecodeInv
      BY <2>4 DEF IInv
    <3>2. /\ \A g, i: TakenBefore(g, i)' = TakenBefore(g, i)
          /\ \A c, i: Before(c, i)' = Before(c, i)
          /\ \A c, k: At(c, k)' = At(c, k)
          /\ \A c, j, t: Pending(c, j, t)' = Pending(c, j, t)
      BY <2>1, SameWords, SameContent, SameBits
    <3>3. RecordInv'
      BY <2>1, <3>1, RecordKept DEF DecodeInv
    <3>4. ASSUME NEW g \in GroupIds PROVE GroupInv(g)'
      BY <2>1, <3>1, <3>2 DEF DecodeInv, GroupInv
    <3>5. ASSUME NEW c \in Chunks PROVE LaneInv(c)'
      <4>1. LaneInv(c) /\ Done(c)' = Done(c) /\ Taken(c)' = Taken(c)
        BY <2>1, <3>1 DEF DecodeInv, Done, Taken
      <4> QED BY <2>1, <3>2, <4>1 DEF LaneInv
    <3>6. DecodedIsRow'
      BY <2>1, <3>1 DEF DecodeInv, DecodedIsRow
    <3> QED BY <2>1, <3>1, <3>3, <3>4, <3>5, <3>6 DEF DecodeInv
  <2> QED BY <2>1, <2>2, <2>3, <2>4 DEF IInv
<1> QED BY <1>1, <1>2, <1>3, <1>4 DEF Next

-----------------------------------------------------------------------------
(* Huffman's construction.                                                 *)

\* Bits of the row spent above the nodes, and below them if node x gets a code
\* of d[x] bits; the entries of such codes.
Paid(c, len) == SumFunctionOnSet([s \in Symbols |-> c[s] * len[s]], Symbols)
Spent(h, d) == SumFunctionOnSet([x \in h |-> x.count * d[x]], h)
Filled(h, d) == SumFunctionOnSet([x \in h |-> 2 ^ (Limit - d[x])], h)

\* The counts of the nodes.
Counted(c, h) ==
    /\ c \in [Symbols -> Nat]
    /\ \A x \in h: x.count = SumFunctionOnSet(c, x.symbols)

\* The tree can still be completed to a code as cheap as any.
Cheap(c, h, len) ==
    \A full \in FullCodes:
        \E d \in [h -> 0 .. Limit]:
            Filled(h, d) = 2 ^ Limit /\ Paid(c, len) + Spent(h, d) <= Paid(c, full)

LEMMA FilledType ==
    ASSUME NEW h, IsFiniteSet(h), \A x \in h: x.count \in Nat, NEW d \in [h -> 0 .. Limit]
    PROVE  /\ \A x \in h: d[x] \in Nat /\ d[x] <= Limit
                          /\ [y \in h |-> 2 ^ (Limit - d[y])][x] \in Nat
                          /\ [y \in h |-> y.count * d[y]][x] \in Nat
           /\ Filled(h, d) \in Nat /\ Spent(h, d) \in Nat
<1> DEFINE f == [y \in h |-> 2 ^ (Limit - d[y])]
           e == [y \in h |-> y.count * d[y]]
<1>1. ASSUME NEW x \in h
      PROVE  d[x] \in Nat /\ d[x] <= Limit /\ f[x] \in Nat /\ e[x] \in Nat
  <2>1. PICK n \in Nat: n = d[x] /\ n <= Limit
    BY MaxBitsType
  <2>2. 2 ^ (Limit - n) \in Nat
    BY <2>1, ShareType
  <2>3. PICK k \in Nat: k = x.count
    OBVIOUS
  <2>4. k * n \in Nat
    BY SMT
  <2> QED BY <2>1, <2>2, <2>3, <2>4
<1>2. Filled(h, d) = SumFunctionOnSet(f, h) /\ Spent(h, d) = SumFunctionOnSet(e, h)
  BY DEF Filled, Spent
<1> HIDE DEF f, e
<1>3. SumFunctionOnSet(f, h) \in Nat /\ SumFunctionOnSet(e, h) \in Nat
  BY <1>1, SumType
<1> QED BY <1>1, <1>2, <1>3 DEF f, e

\* Two nodes are at the greatest depth.
LEMMA DeepestTwo ==
    ASSUME NEW h, IsFiniteSet(h), \A x \in h: x.count \in Nat, NEW d \in [h -> 0 .. Limit],
           Filled(h, d) = 2 ^ Limit, NEW a \in h, NEW b \in h, a # b
    PROVE  \E p, q \in h: p # q /\ d[p] = d[q] /\ d[p] # 0 /\ \A x \in h: d[x] <= d[p]
<1> DEFINE f == [y \in h |-> 2 ^ (Limit - d[y])]
<1>1. \A x \in h: d[x] \in Nat /\ d[x] <= Limit /\ f[x] \in Nat
  BY FilledType
<1>2. PICK p \in h: \A x \in h: d[x] <= d[p]
  <2> DEFINE B == {Limit - d[x]: x \in h}
  <2>1. B \in SUBSET Nat /\ B # {}
    BY <1>1, MaxBitsType
  <2>2. PICK m \in B: \A k \in B: m <= k
    <3> HIDE DEF B
    <3> QED BY <2>1, LeastNumber
  <2>3. PICK p \in h: m = Limit - d[p]
    BY <2>2
  <2>4. \A x \in h: Limit - d[p] <= Limit - d[x]
    BY <2>2, <2>3
  <2>5. \A x \in h: d[x] <= d[p]
    BY <1>1, <2>4, MaxBitsType
  <2> QED BY <2>5
<1>3. PICK D \in Nat: D = d[p] /\ D <= Limit
  BY <1>1
<1>4. PICK N \in Nat \ {0}: N = 2 ^ Limit
  BY PowType, MaxBitsType
<1>5. SumFunctionOnSet(f, h) = N
  BY <1>4 DEF Filled
<1>6. D # 0
  <2> SUFFICES ASSUME D = 0 PROVE FALSE
    OBVIOUS
  <2>1. d[a] = 0 /\ d[b] = 0 /\ Limit - 0 = Limit
    BY <1>1, <1>2, <1>3, MaxBitsType
  <2>2. f[a] = N /\ f[b] = N
    BY <1>4, <2>1
  <2>4. \A x \in h: f[x] \in Nat
    BY <1>1
  <2> HIDE DEF f
  <2>3. /\ SumFunctionOnSet(f, h) = f[a] + f[b] + SumFunctionOnSet(f, h \ {a, b})
        /\ SumFunctionOnSet(f, h \ {a, b}) \in Nat /\ IsFiniteSet(h \ {a, b})
    BY <2>4, SumTwo, Zenon
  <2> QED BY <1>5, <2>2, <2>3
<1>7. SUFFICES ASSUME \A x \in h \ {p}: d[x] # D PROVE FALSE
  BY <1>2, <1>3, <1>6
<1>8. PICK u \in Nat \ {0}: u = 2 ^ (Limit - D) /\ Limit - D \in 0 .. MaxBits
  BY <1>3, ShareType
<1>9. PICK E \in Nat: D = E + 1
  BY <1>6
<1>10. PICK M \in Nat: N = u * (2 * M)
  <2>1. Limit - D \in Nat /\ D \in Nat /\ (Limit - D) + D = Limit /\ Limit <= MaxBits
        /\ E \in 0 .. MaxBits
    BY <1>3, <1>9, MaxBitsType
  <2>2. 2 ^ Limit = 2 ^ (Limit - D) * 2 ^ D
    BY <2>1, PowAdd
  <2>3. 2 ^ D = 2 * 2 ^ E /\ 2 ^ E \in Nat
    BY <1>9, <2>1, PowersAssumption
  <2> QED BY <1>4, <1>8, <2>2, <2>3
<1>11. \A x \in h \ {p}: \E k \in Nat: f[x] = k * (2 * u)
  <2> SUFFICES ASSUME NEW x \in h \ {p} PROVE \E k \in Nat: f[x] = k * (2 * u)
    OBVIOUS
  <2>1. PICK n \in Nat: n = d[x] /\ n < D /\ f[x] = 2 ^ (Limit - n)
    BY <1>1, <1>2, <1>3, <1>7
  <2>2. PICK j \in Nat: Limit - n = (Limit - D) + (j + 1) /\ Limit - n <= MaxBits
    <3>1. D - n - 1 \in Nat /\ Limit - n = (Limit - D) + ((D - n - 1) + 1) /\ Limit - n <= MaxBits
      BY <1>3, <2>1, MaxBitsType
    <3> QED BY <3>1
  <2>3. Limit - D \in Nat /\ j + 1 \in Nat /\ j \in 0 .. MaxBits
    BY <1>3, <2>2, MaxBitsType
  <2>4. 2 ^ ((Limit - D) + (j + 1)) = 2 ^ (Limit - D) * 2 ^ (j + 1)
    BY <2>2, <2>3, PowAdd
  <2>5. PICK k \in Nat: k = 2 ^ j /\ 2 ^ (j + 1) = 2 * k
    BY <2>3, PowersAssumption
  <2>6. u * (2 * k) = k * (2 * u)
    BY SMT
  <2>7. f[x] = u * (2 * k)
    BY <1>8, <2>1, <2>2, <2>4, <2>5
  <2> QED BY <2>6, <2>7
<1>12. f[p] = u
  BY <1>3, <1>8
<1> HIDE DEF f
<1>13. SumFunctionOnSet(f, h) = f[p] + SumFunctionOnSet(f, h \ {p})
  BY <1>1, SumRemove
<1>14. PICK K \in Nat: SumFunctionOnSet(f, h \ {p}) = K * (2 * u)
  <2>1. IsFiniteSet(h \ {p}) /\ 2 * u \in Nat
    BY FS_Subset
  <2>2. \A x \in h \ {p}: f[x] \in Nat /\ \E k \in Nat: f[x] = k * (2 * u)
    BY <1>1, <1>11
  <2> DEFINE w == 2 * u
             S == h \ {p}
  <2>3. IsFiniteSet(S) /\ w \in Nat
    BY <2>1
  <2>4. \A x \in S: \E k \in Nat: f[x] = k * w
    BY <2>2
  <2> HIDE DEF w, S
  <2>5. \E k \in Nat: SumFunctionOnSet(f, S) = k * w
    BY <2>3, <2>4, SumMultiple
  <2> QED BY <2>5 DEF w, S
<1>15. u + K * (2 * u) = u * (2 * M)
  BY <1>5, <1>10, <1>12, <1>13, <1>14
<1>16. u * (1 + 2 * K) = u * (2 * M)
  <2>1. u + K * (2 * u) = u * (1 + 2 * K)
    BY SMT
  <2> QED BY <1>15, <2>1
<1>17. 1 + 2 * K = 2 * M
  <2>1. PICK i \in Nat, j \in Nat: i = 1 + 2 * K /\ j = 2 * M
    BY SMT
  <2>2. u * i = u * j
    BY <1>16, <2>1
  <2>3. CASE i < j
    <3>1. PICK e \in Nat: j = i + e + 1
      BY <2>3, SMT
    <3>2. u * j = u * i + u * e + u /\ u * e \in Nat /\ u * i \in Nat
      BY <3>1, SMT
    <3> QED BY <2>2, <3>2
  <2>4. CASE j < i
    <3>1. PICK e \in Nat: i = j + e + 1
      BY <2>4, SMT
    <3>2. u * i = u * j + u * e + u /\ u * e \in Nat /\ u * j \in Nat
      BY <3>1, SMT
    <3> QED BY <2>2, <3>2
  <2> QED BY <2>1, <2>3, <2>4
<1> QED BY <1>17

\* Moving a rarer node to a greater depth, in exchange with the node that is
\* there, costs nothing.
LEMMA Exchange ==
    ASSUME NEW h, IsFiniteSet(h), \A x \in h: x.count \in Nat, NEW d \in [h -> 0 .. Limit],
           NEW a \in h, NEW p \in h, a # p, a.count <= p.count, d[a] <= d[p],
           NEW e \in [h -> 0 .. Limit],
           e[a] = d[p], e[p] = d[a], \A x \in h \ {a, p}: e[x] = d[x]
    PROVE  Filled(h, e) = Filled(h, d) /\ Spent(h, e) <= Spent(h, d)
<1> DEFINE R == h \ {a, p}
<1>1. e \in [h -> 0 .. Limit] /\ e[a] = d[p] /\ e[p] = d[a] /\ \A x \in R: e[x] = d[x]
  OBVIOUS
<1> DEFINE f == [x \in h |-> 2 ^ (Limit - d[x])]
           g == [x \in h |-> 2 ^ (Limit - e[x])]
           v == [x \in h |-> x.count * d[x]]
           w == [x \in h |-> x.count * e[x]]
<1>2. /\ \A x \in h: f[x] \in Nat /\ v[x] \in Nat /\ d[x] \in Nat
      /\ \A x \in h: g[x] \in Nat /\ w[x] \in Nat /\ e[x] \in Nat
  BY <1>1, FilledType
<1>3. /\ g[a] = f[p] /\ g[p] = f[a]
      /\ \A x \in R: g[x] = f[x] /\ w[x] = v[x]
  BY <1>1
<1>4. w[a] + w[p] <= v[a] + v[p]
  <2>1. PICK i \in Nat, j \in Nat: i = a.count /\ p.count = i + j
    <3>1. a.count \in Nat /\ p.count - a.count \in Nat
          /\ p.count = a.count + (p.count - a.count)
      OBVIOUS
    <3> QED BY <3>1
  <2>2. PICK k \in Nat, l \in Nat: k = d[a] /\ d[p] = k + l
    <3>1. d[a] \in Nat /\ d[p] - d[a] \in Nat /\ d[p] = d[a] + (d[p] - d[a])
      BY <1>2
    <3> QED BY <3>1
  <2>3. v[a] = i * k /\ v[p] = (i + j) * (k + l) /\ w[a] = i * (k + l) /\ w[p] = (i + j) * k
    BY <1>1, <2>1, <2>2
  <2>4. PICK m \in Nat: m = j * l
    BY SMT
  <2>5. i * k + (i + j) * (k + l) = (i * (k + l) + (i + j) * k) + j * l
    BY SMT
  <2>6. i * (k + l) \in Nat /\ (i + j) * k \in Nat
    BY SMT
  <2> QED BY <2>3, <2>4, <2>5, <2>6
<1>5. Filled(h, d) = SumFunctionOnSet(f, h) /\ Filled(h, e) = SumFunctionOnSet(g, h)
      /\ Spent(h, d) = SumFunctionOnSet(v, h) /\ Spent(h, e) = SumFunctionOnSet(w, h)
  BY DEF Filled, Spent
<1> HIDE DEF f, g, v, w
<1>6. /\ SumFunctionOnSet(f, h) = f[a] + f[p] + SumFunctionOnSet(f, R)
      /\ SumFunctionOnSet(f, R) \in Nat /\ IsFiniteSet(R)
  <2>1. \A x \in h: f[x] \in Nat
    BY <1>2
  <2> QED BY <2>1, SumTwo, Zenon
<1>7. /\ SumFunctionOnSet(g, h) = g[a] + g[p] + SumFunctionOnSet(g, R)
      /\ SumFunctionOnSet(g, R) \in Nat /\ IsFiniteSet(R)
  <2>1. \A x \in h: g[x] \in Nat
    BY <1>2
  <2> QED BY <2>1, SumTwo, Zenon
<1>8. /\ SumFunctionOnSet(v, h) = v[a] + v[p] + SumFunctionOnSet(v, R)
      /\ SumFunctionOnSet(v, R) \in Nat /\ IsFiniteSet(R)
  <2>1. \A x \in h: v[x] \in Nat
    BY <1>2
  <2> QED BY <2>1, SumTwo, Zenon
<1>9. /\ SumFunctionOnSet(w, h) = w[a] + w[p] + SumFunctionOnSet(w, R)
      /\ SumFunctionOnSet(w, R) \in Nat /\ IsFiniteSet(R)
  <2>1. \A x \in h: w[x] \in Nat
    BY <1>2
  <2> QED BY <2>1, SumTwo, Zenon
<1>10. \A x \in R: f[x] \in Nat /\ v[x] \in Nat
  BY <1>2
<1> HIDE DEF R
<1>11. SumFunctionOnSet(g, R) = SumFunctionOnSet(f, R)
  BY <1>3, <1>6, <1>10, SumSame
<1>12. SumFunctionOnSet(w, R) = SumFunctionOnSet(v, R)
  BY <1>3, <1>6, <1>10, SumSame
<1>13. Filled(h, e) = Filled(h, d)
  BY <1>2, <1>3, <1>5, <1>6, <1>7, <1>11
<1>14. Spent(h, e) <= Spent(h, d)
  BY <1>2, <1>4, <1>5, <1>8, <1>9, <1>12
<1> QED BY <1>13, <1>14

\* So the two rarest nodes may be the two deepest.
LEMMA RarestDeepest ==
    ASSUME NEW h, IsFiniteSet(h), \A x \in h: x.count \in Nat, NEW d \in [h -> 0 .. Limit],
           Filled(h, d) = 2 ^ Limit, NEW a \in h, NEW b \in h, a # b,
           \A x \in h \ {a}: a.count <= x.count,
           \A x \in h \ {a, b}: b.count <= x.count
    PROVE  \E e \in [h -> 0 .. Limit]:
               /\ e[a] = e[b] /\ e[a] # 0
               /\ Filled(h, e) = 2 ^ Limit /\ Spent(h, e) <= Spent(h, d)
<1>1. PICK p \in h, q \in h: p # q /\ d[p] = d[q] /\ d[p] # 0 /\ \A x \in h: d[x] <= d[p]
  BY DeepestTwo
<1>2. PICK D \in Nat: D = d[p] /\ D # 0
  BY <1>1, FilledType
<1>3. \A e \in [h -> 0 .. Limit]: Spent(h, e) \in Nat
  BY FilledType
<1>4. PICK c \in [h -> 0 .. Limit]:
          /\ c[a] = D /\ \E r \in h \ {a}: c[r] = D
          /\ \A x \in h: c[x] <= D
          /\ Filled(h, c) = 2 ^ Limit /\ Spent(h, c) <= Spent(h, d)
  <2>1. CASE d[a] = D
    <3>1. \E r \in h \ {a}: d[r] = D
      BY <1>1, <1>2
    <3>2. Spent(h, d) <= Spent(h, d)
      BY <1>3
    <3> QED BY <1>1, <1>2, <2>1, <3>1, <3>2
  <2>2. CASE d[a] # D
    <3>1. a # p /\ a # q /\ a.count <= p.count /\ d[a] <= d[p]
      BY <1>1, <1>2, <2>2
    <3>2. PICK e \in [h -> 0 .. Limit]:
              e[a] = d[p] /\ e[p] = d[a] /\ \A x \in h \ {a, p}: e[x] = d[x]
      <4> DEFINE e == [x \in h |-> IF x = a THEN d[p] ELSE IF x = p THEN d[a] ELSE d[x]]
      <4>1. e \in [h -> 0 .. Limit]
        OBVIOUS
      <4>2. e[a] = d[p] /\ e[p] = d[a] /\ \A x \in h \ {a, p}: e[x] = d[x]
        BY <3>1
      <4> HIDE DEF e
      <4> QED BY <4>1, <4>2
    <3>5. Filled(h, e) = Filled(h, d) /\ Spent(h, e) <= Spent(h, d)
      BY <3>1, <3>2, Exchange
    <3>3. e[a] = D /\ e[q] = D /\ q \in h \ {a}
      BY <1>1, <1>2, <3>1, <3>2
    <3>4. \A x \in h: e[x] <= D
      <4> SUFFICES ASSUME NEW x \in h PROVE e[x] <= D
        OBVIOUS
      <4>1. d[a] <= D /\ d[x] <= D /\ d[p] <= D
        BY <1>1, <1>2
      <4>2. x = a \/ x = p \/ x \in h \ {a, p}
        OBVIOUS
      <4> QED BY <3>2, <4>1, <4>2
    <3> QED BY <3>3, <3>4, <3>5
  <2> QED BY <2>1, <2>2
<1>5. PICK r \in h \ {a}: c[r] = D
  BY <1>4
<1>6. CASE c[b] = D
  BY <1>2, <1>4, <1>6
<1>7. CASE c[b] # D
  <2>1. b # r /\ r # a /\ b.count <= r.count /\ c[b] <= c[r]
    BY <1>4, <1>5, <1>7
  <2>2. PICK e \in [h -> 0 .. Limit]:
            e[b] = c[r] /\ e[r] = c[b] /\ \A x \in h \ {b, r}: e[x] = c[x]
    <3> DEFINE e == [x \in h |-> IF x = b THEN c[r] ELSE IF x = r THEN c[b] ELSE c[x]]
    <3>1. e \in [h -> 0 .. Limit]
      OBVIOUS
    <3>2. e[b] = c[r] /\ e[r] = c[b] /\ \A x \in h \ {b, r}: e[x] = c[x]
      BY <2>1
    <3> HIDE DEF e
    <3> QED BY <3>1, <3>2
  <2>5. Filled(h, e) = Filled(h, c) /\ Spent(h, e) <= Spent(h, c)
    BY <2>1, <2>2, Exchange
  <2>3. e[a] = D /\ e[b] = D
    BY <1>4, <1>5, <2>1, <2>2
  <2>4. Spent(h, e) <= Spent(h, d)
    <3>1. Spent(h, e) \in Nat /\ Spent(h, c) \in Nat /\ Spent(h, d) \in Nat
      BY <1>3
    <3> QED BY <1>4, <2>5, <3>1
  <2> QED BY <1>2, <1>4, <2>3, <2>4, <2>5
<1> QED BY <1>6, <1>7

\* The node that two become.
LEMMA MergedDepths ==
    ASSUME NEW h, IsFiniteSet(h), \A x \in h: x.count \in Nat, NEW e \in [h -> 0 .. Limit],
           NEW a \in h, NEW b \in h, a # b, e[a] = e[b], e[a] # 0,
           NEW i \in Nat, NEW j \in Nat, a.count = i, b.count = j,
           NEW n, n \notin h \ {a, b}, n.count = i + j,
           NEW k, k = (h \ {a, b}) \union {n},
           NEW d \in [k -> 0 .. Limit], d[n] + 1 = e[a], \A x \in h \ {a, b}: d[x] = e[x]
    PROVE  /\ Filled(k, d) = Filled(h, e)
           /\ Spent(k, d) \in Nat /\ Spent(h, e) = Spent(k, d) + (i + j)
<1> DEFINE R == h \ {a, b}
<1>1. PICK D \in Nat: e[a] = D + 1 /\ e[b] = D + 1 /\ D + 1 <= Limit
  <2>1. e[a] \in Nat /\ e[a] <= Limit
    BY FilledType
  <2>2. e[a] - 1 \in Nat /\ e[a] = (e[a] - 1) + 1
    BY <2>1
  <2> QED BY <2>1, <2>2
<1>2. n \in k
  OBVIOUS
<1>3. d[n] = D /\ \A x \in R: d[x] = e[x] /\ x # n
  <2>1. d[n] \in 0 .. Limit
    BY <1>2
  <2>2. d[n] = D
    BY <1>1, <2>1
  <2>3. \A x \in R: d[x] = e[x] /\ x # n
    OBVIOUS
  <2> QED BY <2>2, <2>3
<1>4. IsFiniteSet(k) /\ n \in k /\ k \ {n} = R /\ \A x \in k: x.count \in Nat
  <2>1. IsFiniteSet(R)
    BY FS_Subset
  <2>2. IsFiniteSet(R \union {n})
    BY <2>1, FS_AddElement
  <2> QED BY <2>2
<1> DEFINE f == [x \in k |-> 2 ^ (Limit - d[x])]
           g == [x \in h |-> 2 ^ (Limit - e[x])]
           v == [x \in k |-> x.count * d[x]]
           w == [x \in h |-> x.count * e[x]]
<1>5. /\ \A x \in k: f[x] \in Nat /\ v[x] \in Nat
      /\ \A x \in h: g[x] \in Nat /\ w[x] \in Nat
  BY <1>3, <1>4, FilledType
<1>6. f[n] = g[a] + g[b]
  <2>1. Limit - D = (Limit - (D + 1)) + 1 /\ Limit - (D + 1) \in 0 .. MaxBits
    BY <1>1, MaxBitsType
  <2>2. PICK u \in Nat: u = 2 ^ (Limit - (D + 1)) /\ 2 ^ (Limit - D) = 2 * u
    BY <2>1, PowersAssumption
  <2>3. f[n] = 2 ^ (Limit - D) /\ g[a] = u /\ g[b] = u
    BY <1>1, <1>3, <1>4, <2>2
  <2> QED BY <2>2, <2>3
<1>7. v[n] + (i + j) = w[a] + w[b]
  <2>1. v[n] = (i + j) * D /\ w[a] = i * (D + 1) /\ w[b] = j * (D + 1)
    BY <1>1, <1>3, <1>4
  <2>2. (i + j) * D + (i + j) = i * (D + 1) + j * (D + 1)
    BY SMT
  <2> QED BY <2>1, <2>2
<1>8. \A x \in R: f[x] = g[x] /\ v[x] = w[x]
  BY <1>3, <1>4
<1>9. Filled(k, d) = SumFunctionOnSet(f, k) /\ Filled(h, e) = SumFunctionOnSet(g, h)
      /\ Spent(k, d) = SumFunctionOnSet(v, k) /\ Spent(h, e) = SumFunctionOnSet(w, h)
  BY DEF Filled, Spent
<1> HIDE DEF f, g, v, w
<1>10. /\ SumFunctionOnSet(g, h) = g[a] + g[b] + SumFunctionOnSet(g, R)
       /\ SumFunctionOnSet(g, R) \in Nat /\ IsFiniteSet(R)
  <2>1. \A x \in h: g[x] \in Nat
    BY <1>5
  <2> QED BY <2>1, SumTwo, Zenon
<1>11. /\ SumFunctionOnSet(w, h) = w[a] + w[b] + SumFunctionOnSet(w, R)
       /\ SumFunctionOnSet(w, R) \in Nat /\ IsFiniteSet(R)
  <2>1. \A x \in h: w[x] \in Nat
    BY <1>5
  <2> QED BY <2>1, SumTwo, Zenon
<1>12. \A x \in R: g[x] \in Nat /\ w[x] \in Nat
  BY <1>5
<1> HIDE DEF R
<1>13. SumFunctionOnSet(f, k) = f[n] + SumFunctionOnSet(f, R)
  <2>1. \A x \in k: f[x] \in Nat
    BY <1>5
  <2>2. SumFunctionOnSet(f, k) = f[n] + SumFunctionOnSet(f, k \ {n})
    BY <1>4, <2>1, SumRemove
  <2> QED BY <1>4, <2>2, Zenon
<1>14. SumFunctionOnSet(v, k) = v[n] + SumFunctionOnSet(v, R)
  <2>1. \A x \in k: v[x] \in Nat
    BY <1>5
  <2>2. SumFunctionOnSet(v, k) = v[n] + SumFunctionOnSet(v, k \ {n})
    BY <1>4, <2>1, SumRemove
  <2> QED BY <1>4, <2>2, Zenon
<1>15. SumFunctionOnSet(f, R) = SumFunctionOnSet(g, R)
  BY <1>8, <1>10, <1>12, SumSame
<1>16. SumFunctionOnSet(v, R) = SumFunctionOnSet(w, R)
  BY <1>8, <1>10, <1>12, SumSame
<1>17. /\ f[n] \in Nat /\ v[n] \in Nat /\ g[a] \in Nat /\ g[b] \in Nat
       /\ w[a] \in Nat /\ w[b] \in Nat
  BY <1>4, <1>5
<1>18. Filled(k, d) = Filled(h, e)
  BY <1>6, <1>9, <1>10, <1>13, <1>15, <1>17
<1>19. Spent(k, d) \in Nat /\ Spent(h, e) = Spent(k, d) + (i + j)
  <2>1. PICK r \in Nat: r = SumFunctionOnSet(w, R)
    BY <1>11
  <2>2. Spent(k, d) = v[n] + r /\ Spent(h, e) = w[a] + w[b] + r /\ v[n] + r \in Nat
    BY <1>9, <1>11, <1>14, <1>16, <1>17, <2>1
  <2>3. w[a] + w[b] + r = (v[n] + r) + (i + j)
    BY <1>7, <1>17
  <2> QED BY <2>2, <2>3
<1> QED BY <1>18, <1>19

LEMMA PaidType ==
    ASSUME NEW c \in [Symbols -> Nat], NEW len \in [Symbols -> Nat]
    PROVE  Paid(c, len) \in Nat
<1> DEFINE f == [s \in Symbols |-> c[s] * len[s]]
<1>1. \A s \in Symbols: f[s] \in Nat
  <2> SUFFICES ASSUME NEW s \in Symbols PROVE f[s] \in Nat
    OBVIOUS
  <2>1. PICK k \in Nat, l \in Nat: k = c[s] /\ l = len[s]
    OBVIOUS
  <2>2. k * l \in Nat
    BY SMT
  <2> QED BY <2>1, <2>2
<1> HIDE DEF f
<1>2. SumFunctionOnSet(f, Symbols) \in Nat
  BY <1>1, SymbolsFinite, SumType
<1> QED BY <1>2 DEF Paid, f

\* A merge costs the symbols below it a bit each.
LEMMA PaidMore ==
    ASSUME NEW c \in [Symbols -> Nat], NEW len \in [Symbols -> Nat],
           NEW a \in SUBSET Symbols, NEW b \in SUBSET Symbols, a \cap b = {},
           NEW new, new = [s \in Symbols |-> IF s \in a \union b THEN len[s] + 1 ELSE len[s]]
    PROVE  Paid(c, new) = Paid(c, len)
                           + (SumFunctionOnSet(c, a) + SumFunctionOnSet(c, b))
<1> DEFINE f == [s \in Symbols |-> c[s] * len[s]]
           e == [s \in Symbols |-> c[s] * new[s]]
           T == a \union b
<1>1. ASSUME NEW s \in Symbols
      PROVE  /\ f[s] \in Nat /\ e[s] \in Nat /\ c[s] \in Nat
             /\ s \in T => e[s] = f[s] + c[s] * 1
             /\ s \notin T => e[s] = f[s]
  <2>1. PICK k \in Nat, l \in Nat: k = c[s] /\ l = len[s]
    OBVIOUS
  <2>2. k * l \in Nat /\ k * (l + 1) = k * l + k * 1 /\ k * (l + 1) \in Nat
    BY SMT
  <2>3. s \in T => new[s] = l + 1
    BY <2>1
  <2>4. s \notin T => new[s] = l
    BY <2>1
  <2>5. f[s] = k * l /\ e[s] = k * new[s]
    BY <2>1
  <2> HIDE DEF f, e, T
  <2> QED BY <2>1, <2>2, <2>3, <2>4, <2>5
<1>2. IsFiniteSet(Symbols) /\ IsFiniteSet(a) /\ IsFiniteSet(b) /\ T \in SUBSET Symbols
  BY SymbolsFinite, FS_Subset
<1>3. Paid(c, new) = SumFunctionOnSet(e, Symbols) /\ Paid(c, len) = SumFunctionOnSet(f, Symbols)
  BY DEF Paid
<1>4. \A s \in a \union b: c[s] \in Nat
  BY <1>2
<1>5. Extended(Symbols, f, e, c, 1, T)
  <2> HIDE DEF f, e, T
  <2>1. \A s \in Symbols: (s \in T => e[s] = f[s] + c[s] * 1) /\ (s \notin T => e[s] = f[s])
    BY <1>1
  <2> SUFFICES ASSUME NEW s \in Symbols
               PROVE  e[s] = f[s] + (IF s \in T THEN c[s] * 1 ELSE 0)
    BY DEF Extended
  <2>2. f[s] \in Nat /\ f[s] + 0 = f[s]
    BY <1>1
  <2> QED BY <2>1, <2>2
<1>6. /\ SumFunctionOnSet(c, a \union b) = SumFunctionOnSet(c, a) + SumFunctionOnSet(c, b)
      /\ SumFunctionOnSet(c, a) \in Nat /\ SumFunctionOnSet(c, b) \in Nat
  BY <1>2, <1>4, SumUnion
<1>7. SumFunctionOnSet(c, T)
          = SumFunctionOnSet(c, a) + SumFunctionOnSet(c, b)
  BY <1>6
<1> HIDE DEF f, e, T
<1>8. SumFunctionOnSet(e, Symbols)
          = SumFunctionOnSet(f, Symbols) + SumFunctionOnSet(c, T) * 1
  BY <1>1, <1>2, <1>5, SumExtended
<1>9. SumFunctionOnSet(f, Symbols) \in Nat
  BY <1>1, <1>2, SumType
<1> QED BY <1>3, <1>6, <1>7, <1>8, <1>9

\* The sums of Codec's properties are those of the lemmas.
Costs(c, len) ==
    (CHOOSE it: it = [u \in SUBSET Symbols |->
                         IF u = {} THEN 0
                         ELSE c[Choice(u)] * len[Choice(u)] + it[u \ {Choice(u)}]])[Symbols]

LEMMA CostIs ==
    ASSUME NEW c, NEW len
    PROVE  Costs(c, len) = Paid(c, len)
<1> DEFINE f == [s \in Symbols |-> c[s] * len[s]]
           Mapping(it) ==
               it = [u \in SUBSET Symbols |->
                        IF u = {} THEN 0
                        ELSE c[Choice(u)] * len[Choice(u)] + it[u \ {Choice(u)}]]
           g == CHOOSE it: Mapping(it)
<1>1. Costs(c, len) = g[Symbols]
  BY DEF Costs
<1>2. \A u \in SUBSET Symbols: u # {} => f[Choice(u)] = c[Choice(u)] * len[Choice(u)]
  BY ChoiceIn
<1> HIDE DEF f
<1>3. ASSUME NEW it PROVE Mapping(it) <=> Summing(f, it, Symbols)
  <2>1. [u \in SUBSET Symbols |-> IF u = {} THEN 0
                                  ELSE c[Choice(u)] * len[Choice(u)] + it[u \ {Choice(u)}]]
        = [u \in SUBSET Symbols |-> IF u = {} THEN 0 ELSE f[Choice(u)] + it[u \ {Choice(u)}]]
    BY <1>2
  <2> QED BY <2>1 DEF Summing
<1>4. \E it: Mapping(it)
  <2>1. PICK it: Summing(f, it, Symbols)
    BY SymbolsFinite, SummingExists
  <2> QED BY <1>3, <2>1
<1> HIDE DEF Mapping
<1>5. Mapping(g)
  BY <1>4
<1>6. Summing(f, g, Symbols)
  BY <1>3, <1>5
<1> HIDE DEF g
<1>7. SumFunctionOnSet(f, Symbols) = g[Symbols]
  BY <1>6, SymbolsFinite, SumIs
<1> QED BY <1>1, <1>7 DEF Paid, f

LEMMA FullCodeIs ==
    ASSUME NEW full \in FullCodes
    PROVE  full \in [Symbols -> 1 .. Limit] /\ SumFunctionOnSet(Shares(full), Symbols) = 2 ^ Limit
<1> DEFINE f == Shares(full)
           Mapping(it) ==
               it = [u \in SUBSET Symbols |->
                        IF u = {} THEN 0
                        ELSE 2 ^ (Limit - full[Choice(u)]) + it[u \ {Choice(u)}]]
           g == CHOOSE it: Mapping(it)
<1>1. full \in [Symbols -> 1 .. Limit] /\ g[Symbols] = 2 ^ Limit
  BY DEF FullCodes, MapThenSumSet, MapThenFoldSet, Choice
<1>2. \A u \in SUBSET Symbols: u # {} => f[Choice(u)] = 2 ^ (Limit - full[Choice(u)])
  BY ChoiceIn DEF Shares
<1> HIDE DEF f
<1>3. ASSUME NEW it PROVE Mapping(it) <=> Summing(f, it, Symbols)
  <2>1. [u \in SUBSET Symbols |-> IF u = {} THEN 0
                                  ELSE 2 ^ (Limit - full[Choice(u)]) + it[u \ {Choice(u)}]]
        = [u \in SUBSET Symbols |-> IF u = {} THEN 0 ELSE f[Choice(u)] + it[u \ {Choice(u)}]]
    BY <1>2
  <2> QED BY <2>1 DEF Summing
<1>4. \E it: Mapping(it)
  <2>1. PICK it: Summing(f, it, Symbols)
    BY SymbolsFinite, SummingExists
  <2> QED BY <1>3, <2>1
<1> HIDE DEF Mapping
<1>5. Mapping(g)
  BY <1>4
<1>6. Summing(f, g, Symbols)
  BY <1>3, <1>5
<1> HIDE DEF g
<1>7. SumFunctionOnSet(f, Symbols) = g[Symbols]
  BY <1>6, SymbolsFinite, SumIs
<1> QED BY <1>1, <1>7 DEF f

\* Before the first merge every code is a way to complete the tree.
LEMMA LeavesAreCheap ==
    ASSUME NEW c \in [Symbols -> Nat]
    PROVE  Counted(c, Leaves(c)) /\ Cheap(c, Leaves(c), NoLengths)
<1> DEFINE leaf(s) == [count |-> c[s], id |-> s, symbols |-> {s}]
           h == Leaves(c)
           g == [s \in Symbols |-> leaf(s)]
<1>1. /\ \A s \in Symbols: leaf(s) \in h
      /\ \A x \in h: \E s \in Symbols: x = leaf(s)
  BY DEF Leaves
<1>2. \A s \in Symbols: leaf(s).count = c[s] /\ leaf(s).id = s /\ leaf(s).symbols = {s}
  OBVIOUS
<1>3. /\ g \in [Symbols -> h] /\ \A s \in Symbols: g[s] = leaf(s)
      /\ \A s, t \in Symbols: g[s] = g[t] => s = t
      /\ \A x \in h: \E s \in Symbols: g[s] = x
  BY <1>1
<1> HIDE DEF leaf, h, g
<1>4. \A s \in Symbols: SumFunctionOnSet(c, {s}) = c[s]
  <2> SUFFICES ASSUME NEW s \in Symbols PROVE SumFunctionOnSet(c, {s}) = c[s]
    OBVIOUS
  <2> DEFINE S == {s}
  <2>1. IsFiniteSet(S) /\ s \in S /\ S \ {s} = {} /\ \A y \in S: c[y] \in Nat
    BY FS_Singleton
  <2> HIDE DEF S
  <2>2. SumFunctionOnSet(c, S) = c[s] + SumFunctionOnSet(c, S \ {s})
    BY <2>1, SumRemove
  <2>3. SumFunctionOnSet(c, S \ {s}) = 0
    BY <2>1, SumEmpty
  <2>4. c[s] \in Nat
    OBVIOUS
  <2> QED BY <2>2, <2>3, <2>4 DEF S
<1>5. Counted(c, h)
  BY <1>1, <1>2, <1>4 DEF Counted
<1>6. ASSUME NEW full \in FullCodes
      PROVE  \E d \in [h -> 0 .. Limit]:
                 Filled(h, d) = 2 ^ Limit /\ Paid(c, NoLengths) + Spent(h, d) <= Paid(c, full)
  <2>1. full \in [Symbols -> 1 .. Limit] /\ SumFunctionOnSet(Shares(full), Symbols) = 2 ^ Limit
    BY FullCodeIs
  <2> DEFINE d == [x \in h |-> full[x.id]]
             f == [x \in h |-> 2 ^ (Limit - d[x])]
             v == [x \in h |-> x.count * d[x]]
             e == Shares(full)
             w == [s \in Symbols |-> c[s] * full[s]]
             z == [s \in Symbols |-> c[s] * NoLengths[s]]
  <2>2. \A s \in Symbols: d[g[s]] = full[s] /\ full[s] \in Nat /\ full[s] \in 0 .. Limit
    BY <1>1, <1>2, <1>3, <2>1, MaxBitsType
  <2>3. d \in [h -> 0 .. Limit]
    <3>1. \A x \in h: d[x] \in 0 .. Limit
      <4> HIDE DEF d
      <4> QED BY <1>3, <2>2
    <3> QED BY <3>1
  <2>4. \A s \in Symbols: g[s] \in h /\ g[s].count = c[s]
    BY <1>1, <1>2, <1>3
  <2>5. \A s \in Symbols: e[s] = f[g[s]] /\ w[s] = v[g[s]]
    BY <2>2, <2>4 DEF Shares
  <2>6. IsFiniteSet(h) /\ \A x \in h: x.count \in Nat
    <3>1. \A x \in h: x.count \in Nat
      BY <1>1, <1>2
    <3>2. IsFiniteSet(h)
      BY <1>3, SymbolsFinite, SameSize
    <3> QED BY <3>1, <3>2
  <2>7. \A x \in h: f[x] \in Nat /\ v[x] \in Nat
    BY <2>3, <2>6, FilledType
  <2>8. Spent(h, d) \in Nat
    BY <2>3, <2>6, FilledType
  <2>9. Filled(h, d) = SumFunctionOnSet(f, h) /\ Spent(h, d) = SumFunctionOnSet(v, h)
    BY DEF Filled, Spent
  <2>10. Paid(c, full) = SumFunctionOnSet(w, Symbols)
    BY DEF Paid, w
  <2>11. Paid(c, NoLengths) = 0
    <3>1. \A s \in Symbols: z[s] = 0
      BY DEF NoLengths
    <3>2. PICK m \in Nat: m = 0
      OBVIOUS
    <3>3. \A s \in Symbols: \E k \in Nat: z[s] = k * m
      <4>1. 0 = 0 * m
        BY <3>2
      <4> QED BY <3>1, <4>1
    <3> HIDE DEF z
    <3>4. IsFiniteSet(Symbols)
      BY SymbolsFinite
    <3>5. \E k \in Nat: SumFunctionOnSet(z, Symbols) = k * m
      BY <3>3, <3>4, SumMultiple
    <3>6. SumFunctionOnSet(z, Symbols) = 0
      BY <3>2, <3>5
    <3> QED BY <3>6 DEF Paid, z
  <2> HIDE DEF d, f, v, e, w, z
  <2>12. IsFiniteSet(h) /\ SumFunctionOnSet(f, h) = SumFunctionOnSet(e, Symbols)
    <3>1. (\A x \in h: f[x] \in Nat) /\ (\A s \in Symbols: e[s] = f[g[s]]) /\ IsFiniteSet(Symbols)
      BY <2>5, <2>7, SymbolsFinite
    <3> QED BY <1>3, <3>1, SumRenamed
  <2>13. IsFiniteSet(h) /\ SumFunctionOnSet(v, h) = SumFunctionOnSet(w, Symbols)
    <3>1. (\A x \in h: v[x] \in Nat) /\ (\A s \in Symbols: w[s] = v[g[s]]) /\ IsFiniteSet(Symbols)
      BY <2>5, <2>7, SymbolsFinite
    <3> QED BY <1>3, <3>1, SumRenamed
  <2>14. Filled(h, d) = 2 ^ Limit
    BY <2>1, <2>9, <2>12 DEF e
  <2>15. Paid(c, NoLengths) + Spent(h, d) <= Paid(c, full)
    BY <2>8, <2>9, <2>10, <2>11, <2>13
  <2> QED BY <2>3, <2>14, <2>15
<1> QED BY <1>5, <1>6 DEF Cheap, h

LEMMA MergeKeepsCheap ==
    ASSUME Tree(heap, lengths), Counted(counts, heap), Cheap(counts, heap, lengths), Merge
    PROVE  Counted(counts', heap') /\ Cheap(counts', heap', lengths')
<1>1. PICK a \in heap, b \in heap, n \in heap':
          /\ a # b
          /\ \A x \in heap \ {a}: RarerThan(a, x)
          /\ \A x \in heap \ {a, b}: RarerThan(b, x)
          /\ n.count = a.count + b.count /\ n.symbols = a.symbols \union b.symbols
          /\ heap' = (heap \ {a, b}) \union {n}
          /\ lengths' = [s \in Symbols |->
                IF s \in a.symbols \union b.symbols THEN lengths[s] + 1 ELSE lengths[s]]
  <2>1. PICK a \in heap, b \in heap:
            /\ a # b
            /\ \A x \in heap \ {a}: RarerThan(a, x)
            /\ \A x \in heap \ {a, b}: RarerThan(b, x)
            /\ heap' = (heap \ {a, b}) \union
                  {[count   |-> a.count + b.count,
                    id      |-> 2 * NumSymbols - Cardinality(heap),
                    symbols |-> a.symbols \union b.symbols]}
            /\ lengths' = [s \in Symbols |->
                  IF s \in a.symbols \union b.symbols THEN lengths[s] + 1 ELSE lengths[s]]
    BY DEF Merge
  <2> DEFINE n == [count   |-> a.count + b.count,
                   id      |-> 2 * NumSymbols - Cardinality(heap),
                   symbols |-> a.symbols \union b.symbols]
  <2>2. n.count = a.count + b.count /\ n.symbols = a.symbols \union b.symbols
    OBVIOUS
  <2>3. heap' = (heap \ {a, b}) \union {n}
    BY <2>1
  <2>4. n \in heap'
    BY <2>3
  <2> HIDE DEF n
  <2> QED BY <2>1, <2>2, <2>3, <2>4
<1>2. counts' = counts /\ counts \in [Symbols -> Nat]
  BY DEF Merge, Counted
<1>3. IsFiniteSet(heap) /\ \A x \in heap: x.symbols \in SUBSET Symbols /\ IsFiniteSet(x.symbols)
  BY SymbolsFinite, FS_Subset DEF Tree
<1>4. \A x \in heap: x.count \in Nat /\ x.count = SumFunctionOnSet(counts, x.symbols)
  <2> SUFFICES ASSUME NEW x \in heap
               PROVE  x.count \in Nat /\ x.count = SumFunctionOnSet(counts, x.symbols)
    OBVIOUS
  <2>1. \A s \in x.symbols: counts[s] \in Nat
    BY <1>2, <1>3
  <2>2. SumFunctionOnSet(counts, x.symbols) \in Nat
    BY <1>3, <2>1, SumType
  <2> QED BY <2>2 DEF Counted
<1>5. a.symbols \cap b.symbols = {} /\ a.symbols # {}
  BY <1>1 DEF Tree
<1>6. n \notin heap \ {a, b}
  <2> SUFFICES ASSUME n \in heap, n # a PROVE FALSE
    OBVIOUS
  <2>1. n.symbols \cap a.symbols = {}
    BY DEF Tree
  <2> QED BY <1>1, <1>5, <2>1
<1>7. Counted(counts', heap')
  <2>1. n.count = SumFunctionOnSet(counts, n.symbols)
    <3>1. \A s \in a.symbols \union b.symbols: counts[s] \in Nat
      BY <1>2, <1>3
    <3>2. SumFunctionOnSet(counts, a.symbols \union b.symbols)
              = SumFunctionOnSet(counts, a.symbols) + SumFunctionOnSet(counts, b.symbols)
      BY <1>3, <1>5, <3>1, SumUnion
    <3> QED BY <1>1, <1>4, <3>2
  <2>2. \A x \in heap': x.count = SumFunctionOnSet(counts, x.symbols)
    BY <1>1, <1>4, <2>1
  <2> QED BY <1>2, <2>2 DEF Counted
<1>8. Paid(counts, lengths') = Paid(counts, lengths) + (a.count + b.count) /\ Paid(counts, lengths) \in Nat
  <2>1. a.symbols \in SUBSET Symbols /\ b.symbols \in SUBSET Symbols
        /\ lengths \in [Symbols -> Nat]
    BY <1>3 DEF Tree
  <2>2. Paid(counts, lengths') = Paid(counts, lengths)
            + (SumFunctionOnSet(counts, a.symbols) + SumFunctionOnSet(counts, b.symbols))
    BY <1>1, <1>2, <1>5, <2>1, PaidMore
  <2>3. Paid(counts, lengths) \in Nat
    BY <1>2, <2>1, PaidType
  <2> QED BY <1>4, <2>2, <2>3
<1>9. ASSUME NEW full \in FullCodes
      PROVE  \E d \in [heap' -> 0 .. Limit]:
                 Filled(heap', d) = 2 ^ Limit /\ Paid(counts, lengths') + Spent(heap', d) <= Paid(counts, full)
  <2>1. PICK c \in [heap -> 0 .. Limit]:
            Filled(heap, c) = 2 ^ Limit /\ Paid(counts, lengths) + Spent(heap, c) <= Paid(counts, full)
    BY DEF Cheap
  <2>2. /\ \A x \in heap \ {a}: a.count <= x.count
        /\ \A x \in heap \ {a, b}: b.count <= x.count
    BY <1>1, <1>4 DEF RarerThan
  <2>3. \A x \in heap: x.count \in Nat
    BY <1>4
  <2>4. PICK e \in [heap -> 0 .. Limit]:
            /\ e[a] = e[b] /\ e[a] # 0
            /\ Filled(heap, e) = 2 ^ Limit /\ Spent(heap, e) <= Spent(heap, c)
    BY <1>1, <1>3, <2>1, <2>2, <2>3, RarestDeepest
  <2>5. PICK i \in Nat, j \in Nat: a.count = i /\ b.count = j /\ n.count = i + j
    BY <1>1, <2>3
  <2>6. PICK d \in [heap' -> 0 .. Limit]:
            d[n] + 1 = e[a] /\ \A x \in heap \ {a, b}: d[x] = e[x]
    <3>1. PICK D \in Nat: e[a] = D + 1 /\ D \in 0 .. Limit
      <4>1. e[a] \in 0 .. Limit
        OBVIOUS
      <4>2. e[a] - 1 \in Nat /\ e[a] = (e[a] - 1) + 1 /\ e[a] - 1 \in 0 .. Limit
        BY <2>4, <4>1, MaxBitsType
      <4> QED BY <4>2
    <3> DEFINE d == [x \in heap' |-> IF x = n THEN D ELSE e[x]]
    <3>2. \A x \in heap': x = n \/ x \in heap \ {a, b}
      BY <1>1
    <3>3. d \in [heap' -> 0 .. Limit]
      BY <3>1, <3>2
    <3>4. n \in heap' /\ \A x \in heap \ {a, b}: x \in heap' /\ x # n
      BY <1>1, <1>6
    <3>5. d[n] + 1 = e[a] /\ \A x \in heap \ {a, b}: d[x] = e[x]
      BY <3>1, <3>4
    <3> QED BY <3>3, <3>5
  <2>10. Filled(heap', d) = Filled(heap, e) /\ Spent(heap', d) \in Nat
         /\ Spent(heap, e) = Spent(heap', d) + (i + j)
    <3>1. IsFiniteSet(heap) /\ a # b /\ heap' = (heap \ {a, b}) \union {n}
      BY <1>1, <1>3
    <3>2. e[a] = e[b] /\ e[a] # 0
      BY <2>4
    <3>3. a.count = i /\ b.count = j /\ n.count = i + j
      BY <2>5
    <3>4. d[n] + 1 = e[a] /\ \A x \in heap \ {a, b}: d[x] = e[x]
      BY <2>6
    <3> QED BY <1>6, <2>3, <3>1, <3>2, <3>3, <3>4, MergedDepths
  <2>7. Spent(heap, c) \in Nat
    BY <1>3, <2>3, FilledType
  <2>8. Paid(counts, full) \in Nat
    <3>1. full \in [Symbols -> 1 .. Limit]
      BY FullCodeIs
    <3>2. full \in [Symbols -> Nat]
      BY <3>1, MaxBitsType
    <3> QED BY <1>2, <3>2, PaidType
  <2>9. Paid(counts, lengths') + Spent(heap', d) <= Paid(counts, full)
    BY <1>8, <2>1, <2>4, <2>5, <2>7, <2>8, <2>10
  <2> QED BY <2>4, <2>9, <2>10
<1>10. Cheap(counts', heap', lengths')
  BY <1>2, <1>9 DEF Cheap
<1> QED BY <1>7, <1>10

\* A whole tree is a code, as cheap as any.
LEMMA WholeTreeCheap ==
    ASSUME Tree(heap, lengths), Cheap(counts, heap, lengths), Counted(counts, heap),
           Cardinality(heap) = 1, NEW full \in FullCodes
    PROVE  Paid(counts, lengths) <= Paid(counts, full)
<1>1. IsFiniteSet(heap) /\ IsFiniteSet(Symbols)
  BY SymbolsFinite DEF Tree
<1>2. PICK x: heap = {x}
  BY <1>1, FS_Singleton
<1>3. PICK d \in [heap -> 0 .. Limit]:
          Filled(heap, d) = 2 ^ Limit /\ Paid(counts, lengths) + Spent(heap, d) <= Paid(counts, full)
  BY DEF Cheap
<1>4. counts \in [Symbols -> Nat] /\ lengths \in [Symbols -> Nat]
      /\ full \in [Symbols -> Nat]
  <2>1. full \in [Symbols -> 1 .. Limit]
    BY FullCodeIs
  <2> QED BY <2>1, MaxBitsType DEF Counted, Tree
<1>5. \A y \in heap: y.count \in Nat
  <2> SUFFICES ASSUME NEW y \in heap PROVE y.count \in Nat
    OBVIOUS
  <2>1. y.symbols \in SUBSET Symbols
    BY DEF Tree
  <2>2. IsFiniteSet(y.symbols) /\ \A s \in y.symbols: counts[s] \in Nat
    BY <1>1, <1>4, <2>1, FS_Subset
  <2>3. SumFunctionOnSet(counts, y.symbols) \in Nat
    BY <2>2, SumType
  <2> QED BY <2>3 DEF Counted
<1>6. Spent(heap, d) \in Nat
  BY <1>1, <1>5, FilledType
<1>7. Paid(counts, lengths) \in Nat /\ Paid(counts, full) \in Nat
  BY <1>4, PaidType
<1> QED BY <1>3, <1>6, <1>7

\* The invariant of a tree that was never made shallower.
CheapInv ==
    /\ raises \in Nat
    /\ phase = "tree" /\ raises = 0 => Counted(counts, heap) /\ Cheap(counts, heap, lengths)
    /\ CheapestCode

LEMMA FirstCountsType ==
    ASSUME NEW r
    PROVE  FirstCounts([s \in Symbols |-> Cardinality({p \in Positions: r[p] = s})])
               \in [Symbols -> Nat]
<1> DEFINE hist == [s \in Symbols |-> Cardinality({p \in Positions: r[p] = s})]
<1>1. \A s \in Symbols: hist[s] \in Nat
  <2> SUFFICES ASSUME NEW s \in Symbols PROVE hist[s] \in Nat
    OBVIOUS
  <2>1. {p \in Positions: r[p] = s} \in SUBSET Positions
    OBVIOUS
  <2>2. IsFiniteSet({p \in Positions: r[p] = s})
    BY <2>1, PositionsFinite, FS_Subset
  <2> QED BY <2>2, FS_CardinalityType
<1> HIDE DEF hist
<1>2. FirstCounts(hist) \in [Symbols -> Nat]
  BY <1>1 DEF FirstCounts
<1> QED BY <1>2 DEF hist

LEMMA InitCheap == Init => CheapInv
<1> SUFFICES ASSUME Init PROVE CheapInv
  OBVIOUS
<1>1. /\ phase = "tree" /\ raises = 0 /\ heap = Leaves(counts) /\ lengths = NoLengths
      /\ counts = FirstCounts([s \in Symbols |-> Cardinality({p \in Positions: row[p] = s})])
  BY DEF Init, InitCode
<1>2. counts \in [Symbols -> Nat]
  BY <1>1, FirstCountsType
<1>3. Counted(counts, heap) /\ Cheap(counts, heap, lengths)
  BY <1>1, <1>2, LeavesAreCheap
<1>4. CheapestCode
  BY <1>1 DEF CheapestCode
<1> QED BY <1>1, <1>3, <1>4 DEF CheapInv

LEMMA StepCheap == IInv /\ CheapInv /\ [Next]_vars => CheapInv'
<1> SUFFICES ASSUME IInv, CheapInv, [Next]_vars PROVE CheapInv'
  OBVIOUS
<1>1. raises \in Nat
  BY DEF CheapInv
<1>2. CASE Merge
  <2>1. phase = "tree" /\ phase' = "tree" /\ raises' = raises
    BY <1>2 DEF Merge
  <2>2. CheapestCode'
    BY <2>1 DEF CheapestCode
  <2>3. raises = 0 => Counted(counts', heap') /\ Cheap(counts', heap', lengths')
    <3> SUFFICES ASSUME raises = 0
                 PROVE  Counted(counts', heap') /\ Cheap(counts', heap', lengths')
      OBVIOUS
    <3>1. Tree(heap, lengths) /\ Counted(counts, heap) /\ Cheap(counts, heap, lengths)
      BY <2>1 DEF IInv, CheapInv
    <3> QED BY <1>2, <3>1, MergeKeepsCheap
  <2> QED BY <1>1, <2>1, <2>2, <2>3 DEF CheapInv
<1>3. CASE Raise
  <2>1. raises' = raises + 1 /\ phase' = "tree"
    BY <1>3 DEF Raise
  <2>2. CheapestCode'
    BY <2>1 DEF CheapestCode
  <2>3. raises' \in Nat /\ raises' # 0
    BY <1>1, <2>1
  <2> QED BY <2>2, <2>3 DEF CheapInv
<1>4. CASE Assign
  <2>1. /\ phase = "tree" /\ Cardinality(heap) = 1
        /\ raises' = raises /\ counts' = counts /\ lengths' = lengths
    BY <1>4 DEF Assign
  <2>2. phase' = "coded"
    <3>1. Tree(heap, lengths) /\ Kraft(heap, lengths)
      BY <2>1 DEF IInv
    <3> QED BY <1>4, <3>1, AssertionsHold
  <2>3. CheapestCode'
    <3> SUFFICES ASSUME raises = 0, NEW full \in FullCodes
                 PROVE  Cost(lengths)' <= Cost(full)'
      BY <2>1 DEF CheapestCode
    <3>1. Tree(heap, lengths) /\ Counted(counts, heap) /\ Cheap(counts, heap, lengths)
      BY <2>1 DEF IInv, CheapInv
    <3>2. Paid(counts, lengths) <= Paid(counts, full)
      BY <2>1, <3>1, WholeTreeCheap
    <3>3. Cost(lengths)' = Costs(counts', lengths') /\ Cost(full)' = Costs(counts', full)
      BY DEF Cost, Costs, MapThenSumSet, MapThenFoldSet, Choice
    <3> QED BY <2>1, <3>2, <3>3, CostIs
  <2> QED BY <1>1, <2>1, <2>2, <2>3 DEF CheapInv
<1>5. CASE Encode \/ \E g \in GroupIds: DecodeSymbol(g)
  <2>1. raises' = raises /\ phase' \in {"decode", "rejected"}
    BY <1>5 DEF Encode, DecodeSymbol, codeVars, IInv
  <2>2. CheapestCode'
    BY <2>1 DEF CheapestCode
  <2> QED BY <1>1, <2>1, <2>2 DEF CheapInv
<1>6. CASE UNCHANGED vars
  <2>1. UNCHANGED <<phase, raises, counts, heap, lengths>>
    BY <1>6 DEF vars, codeVars
  <2>2. CheapestCode'
    <3>1. \A len: Cost(len) = Costs(counts, len)
      BY DEF Cost, Costs, MapThenSumSet, MapThenFoldSet, Choice
    <3>2. \A len: Cost(len)' = Costs(counts', len)
      BY DEF Cost, Costs, MapThenSumSet, MapThenFoldSet, Choice
    <3>3. Cost(lengths)' = Costs(counts', lengths')
      BY DEF Cost, Costs, MapThenSumSet, MapThenFoldSet, Choice
    <3> QED BY <2>1, <3>1, <3>2, <3>3 DEF CheapInv, CheapestCode
  <2> QED BY <1>1, <2>1, <2>2 DEF CheapInv
<1> QED BY <1>2, <1>3, <1>4, <1>5, <1>6 DEF Next, BuildCode

-----------------------------------------------------------------------------
(* The theorems.                                                           *)

\* Every reachable state of a row's coding satisfies the invariant: while a
\* record is expanded, every lane holds exactly the bits of the words it took
\* that its next symbols need, and every group stands at the words its lanes
\* take next (codec.py, _decode_group).
THEOREM CodecInvariant == Spec => []IInv
<1>1. Init => IInv
  BY InitIInv
<1>2. IInv /\ [Next]_vars => IInv'
  BY StepIInv
<1> QED BY <1>1, <1>2, PTL DEF Spec

\* Whatever lengths the loop of code_lengths accepts, the canonical codes write
\* every table entry exactly once: the two assertions of the class Code
\* (codec.py:114 and 116) hold for every histogram, alphabet and limit.
THEOREM CodesComplete == Spec => []CodesFillTable
<1>1. IInv => CodesFillTable
  BY DEF IInv, CodesFillTable
<1> QED BY <1>1, CodecInvariant, PTL

\* A tree that needs no second round of code_lengths is Huffman's: no prefix
\* code within the limit that fills the table spends fewer bits on the row
\* (codec.py, _huffman_lengths), whatever the counts.
THEOREM CodesAreCheapest == Spec => []CheapestCode
<1>1. Init => CheapInv
  BY InitCheap
<1>2. IInv /\ CheapInv /\ [Next]_vars => CheapInv'
  BY StepCheap
<1>3. CheapInv => CheapestCode
  BY DEF CheapInv
<1> QED BY <1>1, <1>2, <1>3, CodecInvariant, PTL DEF Spec

\* Whatever part of a record was expanded is the row, for every row, geometry,
\* word size and table size, and for every order in which the groups are
\* decoded.
THEOREM ExpandedIsRow == Spec => []DecodedIsRow
<1>1. IInv => DecodedIsRow
  <2> SUFFICES ASSUME IInv PROVE DecodedIsRow
    OBVIOUS
  <2>1. CASE phase = "decode"
    BY <2>1 DEF IInv, DecodeInv
  <2>2. CASE phase # "decode"
    <3>1. \A g \in GroupIds, i \in Steps: ~ i < pos[g]
      BY <2>2, MaxBitsType DEF IInv, NothingDecoded, Steps
    <3> QED BY <3>1 DEF DecodedIsRow
  <2> QED BY <2>1, <2>2
<1> QED BY <1>1, CodecInvariant, PTL

\* A group never reads a word of the next one, and when it is expanded it has
\* read all of its own.
THEOREM GroupsSeparate == Spec => []GroupsTakeOwnWords
<1>1. IInv => GroupsTakeOwnWords
  <2> SUFFICES ASSUME IInv, phase = "decode", NEW g \in GroupIds
               PROVE  /\ rp[g] <= record.gstart[g + 1]
                      /\ pos[g] = Chunk => rp[g] = record.gstart[g + 1]
    BY DEF GroupsTakeOwnWords
  <2>1. CodedRow /\ DecodeInv
    BY DEF IInv, CodeInv
  <2>2. g \in 0 .. Groups /\ g + 1 \in 0 .. Groups
    BY GeometryAssumption DEF GroupIds
  <2>3. /\ IsFiniteSet(TakenBefore(g + 1, 0))
        /\ Cardinality(TakenBefore(g + 1, 0)) = record.gstart[g + 1]
        /\ TakenBefore(g, Chunk) = TakenBefore(g + 1, 0)
    <3>1. record.gstart[g + 1] = Base((g + 1) * Lanes)
      BY <2>1, <2>2 DEF DecodeInv, RecordInv
    <3> QED BY <2>1, <2>2, <3>1, GroupsInOrder
  <2>4. rp[g] = Cardinality(TakenBefore(g, pos[g])) /\ pos[g] \in 0 .. Chunk
    BY <2>1 DEF DecodeInv, GroupInv
  <2>5. TakenBefore(g, pos[g]) \subseteq TakenBefore(g, Chunk)
    <3>1. \A w \in AllWords: At(w[1], w[2]) \in Steps
      BY <2>1, WordFacts
    <3> QED BY <2>4, <3>1, MaxBitsType DEF TakenBefore, Steps
  <2>6. rp[g] <= record.gstart[g + 1]
    <3>1. TakenBefore(g, pos[g]) \in SUBSET TakenBefore(g + 1, 0)
      BY <2>3, <2>5
    <3>2. Cardinality(TakenBefore(g, pos[g])) <= Cardinality(TakenBefore(g + 1, 0))
      BY <2>3, <3>1, FS_Subset
    <3> QED BY <2>3, <2>4, <3>2
  <2>7. pos[g] = Chunk => rp[g] = record.gstart[g + 1]
    BY <2>3, <2>4
  <2> QED BY <2>6, <2>7
<1> QED BY <1>1, CodecInvariant, PTL

\* Every lane of a decoder refills by the schedule that RefillSchedule states
\* and RefillProofs shows to be the encoder's: a step of a group is a step of
\* each of its lanes and no other lane moves.
THEOREM DecoderFollowsSchedule == Spec => LanesFollowSchedule
<1>1. Init => \A c \in Chunks: Lane(c)!Init
  <2> SUFFICES ASSUME Init, NEW c \in Chunks PROVE Lane(c)!Init
    OBVIOUS
  <2>1. c \div Lanes \in GroupIds
    BY ChunkOfLane
  <2>2. pos[c \div Lanes] = 0 /\ level[c] = 0 /\ before[c] = [j \in 0 .. 0 |-> 0]
        /\ refills[c] = [w \in {} |-> 0]
    BY <2>1 DEF Init
  <2>3. Cardinality(DOMAIN refills[c]) = 0
    <3>1. DOMAIN refills[c] = {}
      BY <2>2
    <3> QED BY <3>1, FS_EmptySet
  <2> QED BY <2>2, <2>3 DEF Lane!Init
<1>2. IInv /\ [Next]_vars => [\A c \in Chunks: Lane(c)!Step \/ UNCHANGED Lane(c)!vars]_vars
  <2> SUFFICES ASSUME IInv, Next, NEW c \in Chunks
               PROVE  Lane(c)!Step \/ UNCHANGED Lane(c)!vars
    OBVIOUS
  <2>1. CASE UNCHANGED <<pos, level, before, refills>>
    <3>1. /\ pos'[c \div Lanes] = pos[c \div Lanes] /\ level'[c] = level[c]
          /\ before'[c] = before[c] /\ refills'[c] = refills[c]
          /\ Cardinality(DOMAIN refills'[c]) = Cardinality(DOMAIN refills[c])
      BY <2>1
    <3> QED BY <3>1 DEF Lane!vars
  <2>2. CASE \E g \in GroupIds: DecodeSymbol(g)
    <3>1. PICK g \in GroupIds: DecodeSymbol(g)
      BY <2>2
    <3>2. CodeInv /\ DecodeInv /\ CodedRow
      BY <3>1 DEF DecodeSymbol, IInv, CodeInv
    <3>3. /\ pos[g] \in Steps /\ pos' = [pos EXCEPT ![g] = @ + 1]
          /\ c \div Lanes = g => LaneStep(c, pos[g])
          /\ c \div Lanes # g => LaneStays(c)
          /\ c \div Lanes \in GroupIds /\ DOMAIN pos = GroupIds
      BY <3>1, <3>2, GroupStep, ChunkOfLane DEF DecodeInv
    <3>4. CASE c \div Lanes # g
      <4>1. pos'[c \div Lanes] = pos[c \div Lanes]
        BY <3>3, <3>4
      <4>2. /\ level'[c] = level[c] /\ before'[c] = before[c] /\ refills'[c] = refills[c]
            /\ Cardinality(DOMAIN refills'[c]) = Cardinality(DOMAIN refills[c])
        BY <3>3, <3>4 DEF LaneStays
      <4> QED BY <4>1, <4>2 DEF Lane!vars
    <3>5. CASE c \div Lanes = g
      <4>1. PICK i \in Nat, t \in Nat, v \in Nat, n \in 1 .. Limit:
                /\ i = pos[g] /\ i \in Steps /\ t = Taken(c) /\ v = level[c] /\ n = Size(c, i)
                /\ LaneInv(c) /\ Done(c) = i
        <5>1. LaneInv(c) /\ Done(c) = pos[g]
          BY <3>2, <3>5 DEF DecodeInv, Done
        <5> QED BY <3>2, <3>3, <5>1, SymbolSize DEF LaneInv, Steps
      <4>2. /\ pos[c \div Lanes] = i /\ pos'[c \div Lanes] = i + 1 /\ i < Chunk
            /\ Cardinality(DOMAIN refills[c]) = t
        BY <3>3, <3>5, <4>1, MaxBitsType DEF Taken, Steps
      <4>3. /\ level'[c] = v + (IF Low(v) THEN Word ELSE 0) - n
            /\ before'[c] = [j \in 0 .. (i + 1) |->
                                IF j <= i THEN before[c][j] ELSE before[c][i] + n]
            /\ refills'[c] = IF Low(v)
                             THEN [w \in 0 .. t |-> IF w < t THEN refills[c][w] ELSE i]
                             ELSE refills[c]
        BY <3>3, <3>5, <4>1 DEF LaneStep
      <4>4. Lane(c)!Consume(n)
        BY <4>2, <4>3 DEF Lane!Consume
      <4>5. CASE Low(v)
        <5>1. v < Limit /\ level'[c] = v + Word - n
              /\ refills'[c] = [w \in 0 .. t |-> IF w < t THEN refills[c][w] ELSE i]
          BY <4>3, <4>5 DEF Low
        <5>2. Cardinality(DOMAIN refills'[c]) = t + 1
          <6>1. DOMAIN refills'[c] = 0 .. t
            BY <5>1
          <6>2. Cardinality(0 .. t) = t + 1
            <7>1. Cardinality(0 .. t) = IF 0 > t THEN 0 ELSE t - 0 + 1
              BY FS_Interval
            <7> QED BY <7>1
          <6> QED BY <6>1, <6>2
        <5>3. Lane(c)!Refill(n)
          BY <4>1, <4>2, <5>1, <5>2 DEF Lane!Refill
        <5> QED BY <4>4, <5>3 DEF Lane!Step
      <4>6. CASE ~ Low(v)
        <5>1. v >= Limit /\ level'[c] = v - n /\ refills'[c] = refills[c]
          BY <4>3, <4>6, MaxBitsType DEF Low
        <5>2. Lane(c)!Enough(n)
          BY <4>1, <5>1 DEF Lane!Enough
        <5> QED BY <4>4, <5>2 DEF Lane!Step
      <4> QED BY <4>5, <4>6
    <3> QED BY <3>4, <3>5
  <2>3. CASE BuildCode /\ UNCHANGED <<row, record, decodeVars>>
    BY <2>1, <2>3 DEF decodeVars
  <2>4. CASE Encode
    BY <2>1, <2>4 DEF Encode
  <2> QED BY <2>2, <2>3, <2>4 DEF Next
<1> QED BY <1>1, <1>2, CodecInvariant, PTL DEF Spec, LanesFollowSchedule
=============================================================================
