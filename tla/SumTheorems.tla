----------------------------- MODULE SumTheorems -----------------------------
(***************************************************************************)
(* Sums over finite sets.  A total of the books is MapThenSumSet, a fold    *)
(* whose recursive function is chosen by its equation; here that function  *)
(* is shown to exist, and not to depend on the order it adds things up in.  *)
(* Induction over sets is done with a smallest counterexample.             *)
(***************************************************************************)
EXTENDS Integers, FiniteSets, FiniteSetsExt, FiniteSetTheorems, WellFoundedInduction, TLAPS

Pick(s) == CHOOSE x \in s : TRUE

(* it is the function by which the fold adds up g over subsets of S.        *)
AddsUp(it, g, S) ==
  it = [s \in SUBSET S |-> IF s = {} THEN 0 ELSE g[Pick(s)] + it[s \ {Pick(s)}]]

Sums(it, g, S) == AddsUp(it, g, S) /\ it \in [SUBSET S -> Int]

LEMMA PickIn == ASSUME NEW s, s # {} PROVE Pick(s) \in s
  BY DEF Pick

(* A family of subsets of a finite set has a smallest member.               *)
LEMMA Smallest ==
  ASSUME NEW S, IsFiniteSet(S), NEW B, B \subseteq SUBSET S, B # {}
  PROVE  \E s \in B : \A t \in B : t \subseteq s => t = s
<1>1. IsWellFoundedOn(StrictSubsetOrdering(S), SUBSET S)
  BY FS_StrictSubsetOrderingWellFounded, FS_FiniteSubsetsOfFinite
<1>2. PICK s \in B : \A t \in B : ~(<<t, s>> \in StrictSubsetOrdering(S))
  BY <1>1, WFMin
<1>3. ASSUME NEW t \in B, t \subseteq s, t # s PROVE FALSE
  BY <1>2, <1>3 DEF StrictSubsetOrdering
<1> QED BY <1>3

LEMMA SumsAgree ==
  ASSUME NEW S, NEW U, IsFiniteSet(S), NEW g, NEW i, NEW j,
         AddsUp(i, g, S), AddsUp(j, g, U), S \subseteq U
  PROVE  \A s \in SUBSET S : i[s] = j[s]
<1> DEFINE B == {s \in SUBSET S : i[s] # j[s]}
<1> SUFFICES ASSUME B # {} PROVE FALSE
  OBVIOUS
<1>1. PICK s \in B : \A t \in B : t \subseteq s => t = s
  <2>1. B \subseteq SUBSET S
    OBVIOUS
  <2> HIDE DEF B
  <2> QED BY <2>1, Smallest
<1>2. s \in SUBSET S /\ s \in SUBSET U /\ i[s] # j[s]
  OBVIOUS
<1>3. s # {}
  BY <1>2 DEF AddsUp
<1>4. PICK p : p = Pick(s) /\ p \in s
  BY <1>3, PickIn
<1>5. i[s \ {p}] = j[s \ {p}]
  <2>1. s \ {p} \in SUBSET S /\ s \ {p} # s /\ s \ {p} \subseteq s
    BY <1>2, <1>4
  <2> QED BY <2>1, <1>1
<1>6. i[s] = g[p] + i[s \ {p}]
  BY <1>2, <1>3, <1>4 DEF AddsUp
<1>7. j[s] = g[p] + j[s \ {p}]
  BY <1>2, <1>3, <1>4 DEF AddsUp
<1> QED BY <1>2, <1>5, <1>6, <1>7

LEMMA SumsExist ==
  ASSUME NEW S, IsFiniteSet(S), NEW g, \A x \in S : g[x] \in Int
  PROVE  \E it : Sums(it, g, S)
<1> DEFINE B == {s \in SUBSET S : ~\E it : Sums(it, g, s)}
<1> SUFFICES ASSUME B # {} PROVE FALSE
  <2>1. S \in SUBSET S
    OBVIOUS
  <2> QED BY <2>1
<1>1. PICK T \in B : \A t \in B : t \subseteq T => t = T
  <2>1. B \subseteq SUBSET S
    OBVIOUS
  <2> HIDE DEF B
  <2> QED BY <2>1, Smallest
<1>2. T \in SUBSET S /\ ~\E it : Sums(it, g, T)
  OBVIOUS
<1> HIDE DEF B
<1> DEFINE F(s) == CHOOSE it : Sums(it, g, s)
<1>3. ASSUME NEW s \in SUBSET T, s # T PROVE Sums(F(s), g, s)
  <2>1. s \in SUBSET S /\ s \notin B
    BY <1>1, <1>2, <1>3
  <2>2. \E it : Sums(it, g, s)
    BY <2>1 DEF B
  <2> QED BY <2>2
<1> HIDE DEF F
<1>4. \A s \in SUBSET T : IsFiniteSet(s)
  BY <1>2, FS_Subset
<1>5. ASSUME NEW s \in SUBSET T, s # T, NEW t \in SUBSET s, t # s
      PROVE  F(s)[t] = F(t)[t]
  <2>1. Sums(F(s), g, s) /\ Sums(F(t), g, t)
    BY <1>3, <1>5
  <2>2. IsFiniteSet(t) /\ t \in SUBSET t /\ t \subseteq s
    BY <1>4
  <2> QED BY <2>1, <2>2, SumsAgree DEF Sums
<1> DEFINE Value(s) == IF s # T THEN F(s)[s]
                       ELSE IF s = {} THEN 0
                       ELSE g[Pick(s)] + F(s \ {Pick(s)})[s \ {Pick(s)}]
           it == [s \in SUBSET T |-> Value(s)]
<1>6. ASSUME NEW s \in SUBSET T, s # {}
      PROVE  /\ Pick(s) \in s /\ s \ {Pick(s)} \in SUBSET T
             /\ s \ {Pick(s)} # T /\ s \ {Pick(s)} \in SUBSET s /\ s \ {Pick(s)} # s
             /\ g[Pick(s)] \in Int
  BY <1>6, <1>2, PickIn
<1>7. \A s \in SUBSET T : Value(s) \in Int
  <2> SUFFICES ASSUME NEW s \in SUBSET T PROVE Value(s) \in Int
    OBVIOUS
  <2>1. \A t \in SUBSET T : t # T => F(t)[t] \in Int
    BY <1>3 DEF Sums, AddsUp
  <2>2. CASE s = {}
    BY <2>1, <2>2
  <2>3. CASE s # {}
    BY <2>1, <2>3, <1>6
  <2> QED BY <2>2, <2>3
<1>8. \A s \in SUBSET T :
        Value(s) = IF s = {} THEN 0 ELSE g[Pick(s)] + Value(s \ {Pick(s)})
  <2> SUFFICES ASSUME NEW s \in SUBSET T
               PROVE  Value(s) = IF s = {} THEN 0 ELSE g[Pick(s)] + Value(s \ {Pick(s)})
    OBVIOUS
  <2>1. CASE s = {}
    BY <2>1, <1>3 DEF Sums, AddsUp
  <2>2. CASE s # {}
    <3> DEFINE r == s \ {Pick(s)}
    <3>1. r \in SUBSET T /\ r # T /\ r \in SUBSET s /\ r # s
      BY <2>2, <1>6
    <3>2. Value(r) = F(r)[r]
      BY <3>1
    <3>3. CASE s = T
      BY <3>2, <3>3, <2>2
    <3>4. CASE s # T
      <4>1. F(s)[s] = g[Pick(s)] + F(s)[r]
        BY <3>4, <2>2, <1>3 DEF Sums, AddsUp
      <4>2. F(s)[r] = F(r)[r]
        BY <3>1, <3>4, <1>5
      <4> QED BY <4>1, <4>2, <3>2, <3>4, <2>2
    <3> QED BY <3>3, <3>4
  <2> QED BY <2>1, <2>2
<1> HIDE DEF Value
<1>9. Sums(it, g, T)
  <2>1. it \in [SUBSET T -> Int]
    BY <1>7
  <2>2. \A s \in SUBSET T : s \ {Pick(s)} \in SUBSET T
    OBVIOUS
  <2> QED BY <1>8, <2>1, <2>2 DEF Sums, AddsUp
<1> QED BY <1>2, <1>9

(* Whatever element is set apart, the rest is what is left of the sum.      *)
LEMMA SumsSplit ==
  ASSUME NEW S, IsFiniteSet(S), NEW g, \A x \in S : g[x] \in Int,
         NEW it, Sums(it, g, S), NEW U \in SUBSET S, NEW y \in U
  PROVE  it[U] = g[y] + it[U \ {y}]
<1> DEFINE B == {s \in SUBSET S : \E x \in s : it[s] # g[x] + it[s \ {x}]}
<1> SUFFICES ASSUME B # {} PROVE FALSE
  OBVIOUS
<1>1. PICK s \in B : \A t \in B : t \subseteq s => t = s
  <2>1. B \subseteq SUBSET S
    OBVIOUS
  <2> HIDE DEF B
  <2> QED BY <2>1, Smallest
<1>2. PICK x \in s : s \in SUBSET S /\ it[s] # g[x] + it[s \ {x}]
  OBVIOUS
<1>3. PICK p : p = Pick(s) /\ p \in s
  BY <1>2, PickIn
<1>4. it[s] = g[p] + it[s \ {p}]
  BY <1>2, <1>3 DEF Sums, AddsUp
<1>5. p # x
  BY <1>2, <1>4
<1>6. \A t \in SUBSET S : t \subseteq s /\ t # s => \A z \in t : it[t] = g[z] + it[t \ {z}]
  BY <1>1
<1> HIDE DEF B
<1>7. it[s \ {p}] = g[x] + it[(s \ {p}) \ {x}]
  <2>1. s \ {p} \in SUBSET S /\ s \ {p} \subseteq s /\ s \ {p} # s /\ x \in s \ {p}
    BY <1>2, <1>3, <1>5
  <2> QED BY <2>1, <1>6
<1>8. it[s \ {x}] = g[p] + it[(s \ {x}) \ {p}]
  <2>1. s \ {x} \in SUBSET S /\ s \ {x} \subseteq s /\ s \ {x} # s /\ p \in s \ {x}
    BY <1>2, <1>3, <1>5
  <2> QED BY <2>1, <1>6
<1>9. it[(s \ {p}) \ {x}] = it[(s \ {x}) \ {p}]
  <2>1. (s \ {p}) \ {x} = (s \ {x}) \ {p}
    OBVIOUS
  <2> QED BY <2>1
<1>10. PICK n \in Int : n = g[x]
  BY <1>2
<1>11. PICK m \in Int : m = g[p]
  BY <1>2, <1>3
<1>12. PICK r \in Int : r = it[(s \ {x}) \ {p}]
  <2>1. (s \ {x}) \ {p} \in SUBSET S
    BY <1>2
  <2> QED BY <2>1 DEF Sums, AddsUp
<1>13. it[s] = m + (n + r) /\ it[s \ {x}] = m + r
  BY <1>4, <1>7, <1>8, <1>9, <1>10, <1>11, <1>12
<1>14. m + (n + r) = n + (m + r)
  OBVIOUS
<1> QED BY <1>2, <1>10, <1>13, <1>14
-----------------------------------------------------------------------------
(* The sum of g over S, and what of it a total needs.                       *)
SumOver(g, S) == MapThenSumSet(LAMBDA x : g[x], S)

LEMMA ChosenAddsUp ==
  ASSUME NEW S, IsFiniteSet(S), NEW g, \A x \in S : g[x] \in Int, NEW it,
         it = CHOOSE i : AddsUp(i, g, S)
  PROVE  Sums(it, g, S)
<1>1. PICK jt : Sums(jt, g, S)
  BY SumsExist
<1>2. AddsUp(it, g, S)
  BY <1>1, Zenon DEF Sums
<1>3. \A s \in SUBSET S : it[s] = jt[s]
  BY <1>1, <1>2, SumsAgree DEF Sums
<1>4. it \in [SUBSET S -> Int]
  BY <1>1, <1>2, <1>3 DEF Sums, AddsUp
<1> QED BY <1>2, <1>4 DEF Sums

LEMMA SumIsFold ==
  ASSUME NEW S, IsFiniteSet(S), NEW g, \A x \in S : g[x] \in Int
  PROVE  \E it : Sums(it, g, S) /\ SumOver(g, S) = it[S]
<1>1. PICK it : it = CHOOSE i : AddsUp(i, g, S)
  OBVIOUS
<1>2. SumOver(g, S) = it[S]
  BY <1>1 DEF SumOver, MapThenSumSet, MapThenFoldSet, AddsUp, Pick
<1> QED BY <1>1, <1>2, ChosenAddsUp

(* Any function with the equation of the fold finds the same sum.            *)
LEMMA SumIsAny ==
  ASSUME NEW S, IsFiniteSet(S), NEW g, \A x \in S : g[x] \in Int,
         NEW jt, AddsUp(jt, g, S)
  PROVE  jt[S] = SumOver(g, S)
<1>1. PICK it : Sums(it, g, S) /\ SumOver(g, S) = it[S]
  BY SumIsFold
<1> QED BY <1>1, SumsAgree DEF Sums

LEMMA SumIsInt ==
  ASSUME NEW S, IsFiniteSet(S), NEW g, \A x \in S : g[x] \in Int
  PROVE  SumOver(g, S) \in Int
<1>1. PICK it : Sums(it, g, S) /\ SumOver(g, S) = it[S]
  BY SumIsFold
<1> QED BY <1>1 DEF Sums

LEMMA SumEmpty == ASSUME NEW g PROVE SumOver(g, {}) = 0
<1>1. IsFiniteSet({}) /\ \A x \in {} : g[x] \in Int
  BY FS_EmptySet
<1>2. PICK it : Sums(it, g, {}) /\ SumOver(g, {}) = it[{}]
  BY <1>1, SumIsFold
<1> QED BY <1>2 DEF Sums, AddsUp

(* One element more is its summand more.                                   *)
LEMMA SumAdd ==
  ASSUME NEW S, IsFiniteSet(S), NEW x, x \notin S,
         NEW g, \A y \in S \union {x} : g[y] \in Int
  PROVE  SumOver(g, S \union {x}) = SumOver(g, S) + g[x]
<1>1. IsFiniteSet(S \union {x})
  BY FS_AddElement
<1>2. PICK it : Sums(it, g, S \union {x}) /\ SumOver(g, S \union {x}) = it[S \union {x}]
  BY <1>1, SumIsFold
<1>3. PICK jt : Sums(jt, g, S) /\ SumOver(g, S) = jt[S]
  BY SumIsFold
<1>4. it[S] = jt[S]
  BY <1>2, <1>3, SumsAgree DEF Sums
<1>5. it[S \union {x}] = g[x] + it[(S \union {x}) \ {x}]
  <2>1. PICK T : T = S \union {x}
    OBVIOUS
  <2>2. T \in SUBSET T /\ x \in T /\ IsFiniteSet(T) /\ Sums(it, g, T)
        /\ \A y \in T : g[y] \in Int
    BY <1>1, <1>2, <2>1
  <2>3. it[T] = g[x] + it[T \ {x}]
    BY <2>2, SumsSplit
  <2> QED BY <2>1, <2>3
<1>6. (S \union {x}) \ {x} = S
  OBVIOUS
<1>7. it[S \union {x}] = g[x] + jt[S]
  BY <1>4, <1>5, <1>6
<1>8. g[x] \in Int /\ jt[S] \in Int
  BY <1>3 DEF Sums
<1> QED BY <1>2, <1>3, <1>7, <1>8

(* What a summand is outside the set does not matter.                      *)
LEMMA SumSame ==
  ASSUME NEW S, IsFiniteSet(S), NEW g, NEW h,
         \A x \in S : g[x] \in Int /\ g[x] = h[x]
  PROVE  SumOver(g, S) = SumOver(h, S)
<1>1. PICK it : Sums(it, g, S) /\ SumOver(g, S) = it[S]
  BY SumIsFold
<1>2. PICK jt : Sums(jt, h, S) /\ SumOver(h, S) = jt[S]
  BY SumIsFold
<1>3. AddsUp(it, h, S)
  <2>1. \A s \in SUBSET S : s # {} => g[Pick(s)] = h[Pick(s)]
    BY PickIn
  <2> QED BY <1>1, <2>1 DEF Sums, AddsUp
<1>4. it[S] = jt[S]
  BY <1>2, <1>3, SumsAgree DEF Sums
<1> QED BY <1>1, <1>2, <1>4
-----------------------------------------------------------------------------
(* Induction as a fact about sets: what holds where a set of numbers, or of  *)
(* subsets, begins, and goes on with each step, holds everywhere.           *)
LEMMA Climb ==
  ASSUME NEW n \in Nat, NEW B, 0 \in B, \A k \in 0..(n - 1) : k \in B => k + 1 \in B
  PROVE  \A k \in 0..n : k \in B
<1> DEFINE Gaps == {k \in Nat : k <= n /\ k \notin B}
<1> SUFFICES ASSUME Gaps # {} PROVE FALSE
  OBVIOUS
<1>1. PICK m \in Gaps : \A k \in Gaps : ~(<<k, m>> \in OpToRel(<, Nat))
  <2>1. Gaps \subseteq Nat
    OBVIOUS
  <2> HIDE DEF Gaps
  <2> QED BY <2>1, NatLessThanWellFounded, WFMin
<1>2. m \in Nat /\ m <= n /\ m \notin B /\ m # 0
  OBVIOUS
<1>3. m - 1 \in Nat /\ m - 1 \in 0..(n - 1) /\ m - 1 < m /\ (m - 1) + 1 = m
  BY <1>2
<1>4. m - 1 \notin B
  BY <1>2, <1>3
<1>5. m - 1 \in Gaps
  BY <1>2, <1>3, <1>4
<1> QED BY <1>1, <1>2, <1>3, <1>5 DEF OpToRel

LEMMA Grow ==
  ASSUME NEW S, IsFiniteSet(S), NEW B, {} \in B,
         \A T \in SUBSET S, x \in S : T \in B /\ x \notin T => T \union {x} \in B
  PROVE  S \in B
<1> DEFINE Gaps == {s \in SUBSET S : s \notin B}
<1> SUFFICES ASSUME Gaps # {} PROVE FALSE
  OBVIOUS
<1>1. PICK U \in Gaps : \A t \in Gaps : t \subseteq U => t = U
  <2>1. Gaps \subseteq SUBSET S
    OBVIOUS
  <2> HIDE DEF Gaps
  <2> QED BY <2>1, Smallest
<1>2. U \in SUBSET S /\ U \notin B /\ U # {}
  OBVIOUS
<1>3. PICK x \in U : TRUE
  BY <1>2
<1>4. PICK T : T = U \ {x}
  OBVIOUS
<1>5. T \in SUBSET S /\ x \in S /\ x \notin T /\ T \union {x} = U /\ T # U
  BY <1>2, <1>3, <1>4
<1>6. T \in B
  BY <1>1, <1>4, <1>5
<1> QED BY <1>2, <1>5, <1>6

-----------------------------------------------------------------------------
(* One summand changed, summands of 0 left out, ones counted, and a sum     *)
(* taken part by part.                                                     *)
LEMMA SumChange ==
  ASSUME NEW S, IsFiniteSet(S), NEW y \in S, NEW g, NEW h,
         \A x \in S : g[x] \in Int /\ h[x] \in Int /\ (x # y => g[x] = h[x])
  PROVE  SumOver(h, S) + g[y] = SumOver(g, S) + h[y]
<1>1. PICK T : T = S \ {y}
  OBVIOUS
<1>2. IsFiniteSet(T) /\ y \notin T /\ S = T \union {y}
  BY <1>1, FS_RemoveElement
<1>3. SumOver(g, S) = SumOver(g, T) + g[y] /\ SumOver(h, S) = SumOver(h, T) + h[y]
  BY <1>2, SumAdd
<1>4. SumOver(g, T) = SumOver(h, T)
  BY <1>2, SumSame
<1>5. SumOver(g, T) \in Int /\ g[y] \in Int /\ h[y] \in Int
  BY <1>2, SumIsInt
<1> QED BY <1>3, <1>4, <1>5

LEMMA SumZeros ==
  ASSUME NEW S, IsFiniteSet(S), NEW T \in SUBSET S, NEW g,
         \A x \in T : g[x] \in Int, \A x \in S \ T : g[x] = 0
  PROVE  SumOver(g, S) = SumOver(g, T)
<1> DEFINE B == {U \in SUBSET (S \ T) : SumOver(g, T \union U) = SumOver(g, T)}
<1>1. PICK R : R = S \ T
  OBVIOUS
<1>2. IsFiniteSet(R) /\ T \union R = S
  BY <1>1, FS_Subset
<1>3. {} \in B
  <2>1. T \union {} = T
    OBVIOUS
  <2> QED BY <2>1
<1>4. ASSUME NEW U \in SUBSET R, NEW x \in R, U \in B, x \notin U PROVE U \union {x} \in B
  <2>1. PICK V : V = T \union U
    OBVIOUS
  <2>2. IsFiniteSet(V) /\ x \notin V /\ \A z \in V \union {x} : g[z] \in Int
    <3>1. V \in SUBSET S
      BY <1>1, <2>1
    <3> QED BY <1>1, <1>4, <2>1, <3>1, FS_Subset
  <2>3. SumOver(g, V \union {x}) = SumOver(g, V) + g[x]
    BY <2>2, SumAdd
  <2>4. g[x] = 0 /\ SumOver(g, V) \in Int
    BY <1>1, <2>2, SumIsInt
  <2>5. SumOver(g, V \union {x}) = SumOver(g, V)
    BY <2>3, <2>4
  <2>6. T \union (U \union {x}) = V \union {x} /\ SumOver(g, V) = SumOver(g, T)
    BY <1>4, <2>1
  <2>7. SumOver(g, T \union (U \union {x})) = SumOver(g, T)
    BY <2>5, <2>6
  <2> QED BY <1>1, <1>4, <2>7
<1>5. R \in B
  <2> HIDE DEF B
  <2> QED BY <1>2, <1>3, <1>4, Grow
<1> QED BY <1>2, <1>5

LEMMA SumOnes ==
  ASSUME NEW S, IsFiniteSet(S), NEW g, \A x \in S : g[x] = 1
  PROVE  SumOver(g, S) = Cardinality(S)
<1> DEFINE B == {U \in SUBSET S : SumOver(g, U) = Cardinality(U)}
<1>1. {} \in B
  <2>1. SumOver(g, {}) = 0 /\ Cardinality({}) = 0
    BY SumEmpty, FS_EmptySet
  <2> QED BY <2>1
<1>2. ASSUME NEW U \in SUBSET S, NEW x \in S, U \in B, x \notin U PROVE U \union {x} \in B
  <2>1. IsFiniteSet(U) /\ \A z \in U \union {x} : g[z] \in Int
    BY FS_Subset
  <2>2. SumOver(g, U \union {x}) = SumOver(g, U) + g[x]
    BY <1>2, <2>1, SumAdd
  <2>3. Cardinality(U \union {x}) = Cardinality(U) + 1
    BY <1>2, <2>1, FS_AddElement
  <2> QED BY <1>2, <2>2, <2>3
<1>3. S \in B
  <2> HIDE DEF B
  <2> QED BY <1>1, <1>2, Grow
<1> QED BY <1>3

LEMMA SumParts ==
  ASSUME NEW S, IsFiniteSet(S), NEW K, IsFiniteSet(K),
         NEW key, \A x \in S : key[x] \in K, NEW g, \A x \in S : g[x] \in Int
  PROVE  SumOver([k \in K |-> SumOver(g, {x \in S : key[x] = k})], K) = SumOver(g, S)
<1> DEFINE Part(T, k) == {x \in T : key[x] = k}
           By(T) == [k \in K |-> SumOver(g, Part(T, k))]
           B == {T \in SUBSET S : SumOver(By(T), K) = SumOver(g, T)}
<1>1. \A T \in SUBSET S, k \in K : IsFiniteSet(Part(T, k)) /\ SumOver(g, Part(T, k)) \in Int
  <2> TAKE T \in SUBSET S, k \in K
  <2>1. Part(T, k) \in SUBSET S
    OBVIOUS
  <2> HIDE DEF Part
  <2>2. IsFiniteSet(Part(T, k))
    BY <2>1, FS_Subset
  <2>3. \A x \in Part(T, k) : g[x] \in Int
    BY <2>1
  <2> QED BY <2>2, <2>3, SumIsInt
<1>2. {} \in B
  <2>1. \A k \in K : By({})[k] = 0
    <3> TAKE k \in K
    <3>1. Part({}, k) = {}
      OBVIOUS
    <3> QED BY <3>1, SumEmpty
  <2>2. PICK h : h = By({})
    OBVIOUS
  <2>3. SumOver(h, K) = SumOver(h, {})
    <3>1. {} \in SUBSET K /\ \A k \in K \ {} : h[k] = 0
      BY <2>1, <2>2
    <3> QED BY <3>1, SumZeros
  <2>4. SumOver(h, K) = SumOver(g, {})
    BY <2>3, SumEmpty
  <2> QED BY <2>2, <2>4
<1>3. ASSUME NEW T \in SUBSET S, NEW x \in S, T \in B, x \notin T PROVE T \union {x} \in B
  <2>1. PICK U : U = T \union {x}
    OBVIOUS
  <2>2. PICK y \in K : y = key[x]
    OBVIOUS
  <2>3. PICK h : h = By(T)
    OBVIOUS
  <2>4. PICK j : j = By(U)
    OBVIOUS
  <2>5. U \in SUBSET S
    BY <2>1
  <2>6. \A k \in K : h[k] \in Int /\ j[k] \in Int
    BY <1>1, <2>3, <2>4, <2>5
  <2>7. \A k \in K : k # y => h[k] = j[k]
    <3> TAKE k \in K
    <3> HAVE k # y
    <3>1. Part(T, k) = Part(U, k)
      BY <2>1, <2>2
    <3> HIDE DEF Part
    <3> QED BY <2>3, <2>4, <3>1
  <2>8. j[y] = h[y] + g[x]
    <3>1. Part(U, y) = Part(T, y) \union {x} /\ x \notin Part(T, y)
      BY <1>3, <2>1, <2>2
    <3>2. \A z \in Part(T, y) \union {x} : g[z] \in Int
      OBVIOUS
    <3>3. IsFiniteSet(Part(T, y))
      BY <1>1
    <3>4. j[y] = SumOver(g, Part(U, y)) /\ h[y] = SumOver(g, Part(T, y))
      BY <2>3, <2>4
    <3> HIDE DEF Part
    <3>5. SumOver(g, Part(T, y) \union {x}) = SumOver(g, Part(T, y)) + g[x]
      BY <3>1, <3>2, <3>3, SumAdd
    <3> QED BY <3>1, <3>4, <3>5
  <2>9. SumOver(j, K) + h[y] = SumOver(h, K) + j[y]
    BY <2>6, <2>7, SumChange
  <2>10. SumOver(g, U) = SumOver(g, T) + g[x]
    <3>1. IsFiniteSet(T) /\ \A z \in T \union {x} : g[z] \in Int
      BY FS_Subset
    <3> QED BY <1>3, <2>1, <3>1, SumAdd
  <2>11. SumOver(h, K) = SumOver(g, T)
    BY <1>3, <2>3
  <2>12. SumOver(h, K) \in Int /\ SumOver(j, K) \in Int /\ g[x] \in Int
    BY <2>6, SumIsInt
  <2>13. SumOver(j, K) = SumOver(g, U)
    BY <2>6, <2>8, <2>9, <2>10, <2>11, <2>12
  <2> QED BY <2>1, <2>4, <2>5, <2>13
<1>4. S \in B
  <2> HIDE DEF B
  <2> QED BY <1>2, <1>3, Grow
<1> QED BY <1>4
=============================================================================
