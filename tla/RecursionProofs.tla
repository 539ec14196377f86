-------------------------- MODULE RecursionProofs ---------------------------
(***************************************************************************)
(* What the proofs of several components rest on.                          *)
(*                                                                         *)
(* Induction and recursion over the naturals, with sets and functions in   *)
(* the place of predicates and operators: to prove P(n) of every n, show   *)
(* that {n \in Nat : P(n)} satisfies NatSetInduction.  Folding a finite    *)
(* set, powers of two, and sequences whose elements have no type.          *)
(***************************************************************************)
EXTENDS Integers, FiniteSets, FiniteSetTheorems, FunctionTheorems, SequenceTheorems,
        WellFoundedInduction, TLAPS

\* The order of the naturals is well founded.
LEMMA NatOrder == IsWellFoundedOn({p \in Nat \X Nat : p[1] < p[2]}, Nat)
BY NatLessThanWellFounded DEF OpToRel

\* A set with 0 and the successors of its members has every natural number.
LEMMA NatSetInduction ==
    ASSUME NEW S, 0 \in S, \A n \in Nat : n \in S => n + 1 \in S
    PROVE  Nat \subseteq S
<1> DEFINE R == {p \in Nat \X Nat : p[1] < p[2]}
           T == Nat \ S
<1>1. SUFFICES ASSUME T # {} PROVE FALSE
  OBVIOUS
<1>2. T \subseteq Nat
  OBVIOUS
<1> HIDE DEF T
<1>3. IsWellFoundedOn(R, Nat)
  BY NatOrder
<1> HIDE DEF R
<1>4. PICK x \in T : \A y \in T : ~(<<y, x>> \in R)
  BY <1>1, <1>2, <1>3, WFMin
<1>5. x \in Nat /\ x # 0
  BY <1>2 DEF T
<1>6. x - 1 \in T
  BY <1>5 DEF T
<1>7. <<x - 1, x>> \in R
  BY <1>2, <1>5, <1>6 DEF R
<1> QED
  BY <1>4, <1>6, <1>7

\* Iterating a function defines a function on the naturals.
LEMMA Iteration ==
    ASSUME NEW V, NEW first \in V, NEW step \in [V -> V]
    PROVE  \E f \in [Nat -> V] : f[0] = first /\ \A n \in Nat : f[n + 1] = step[f[n]]
<1> DEFINE Upto(n, g) == /\ g[0] = first
                         /\ \A m \in 0 .. n - 1 : g[m + 1] = step[g[m]]
           Reached(n) == {v \in V : \E g \in [0 .. n -> V] : Upto(n, g) /\ g[n] = v}
           S == {n \in Nat : \E v \in V : Reached(n) = {v}}
<1>1. Reached(0) = {first}
  <2>1. /\ [m \in 0 .. 0 |-> first] \in [0 .. 0 -> V]
        /\ Upto(0, [m \in 0 .. 0 |-> first])
        /\ [m \in 0 .. 0 |-> first][0] = first
    OBVIOUS
  <2>2. first \in Reached(0)
    BY <2>1
  <2> QED
    BY <2>2
<1>2. ASSUME NEW n \in Nat PROVE Reached(n + 1) = {step[v] : v \in Reached(n)}
  <2>1. ASSUME NEW v \in Reached(n) PROVE step[v] \in Reached(n + 1)
    <3>1. PICK g \in [0 .. n -> V] : Upto(n, g) /\ g[n] = v
      BY <2>1
    <3> DEFINE h == [m \in 0 .. n + 1 |-> IF m = n + 1 THEN step[v] ELSE g[m]]
    <3>2. h \in [0 .. n + 1 -> V]
      OBVIOUS
    <3>3. h[0] = first
      BY <3>1
    <3>4. ASSUME NEW m \in 0 .. n PROVE h[m + 1] = step[h[m]]
      <4>1. h[m] = g[m]
        OBVIOUS
      <4>2. CASE m = n
        BY <3>1, <4>1, <4>2
      <4>3. CASE m < n
        <5>1. h[m + 1] = g[m + 1]
          BY <4>3
        <5>2. m \in 0 .. n - 1
          BY <4>3
        <5> QED
          BY <3>1, <4>1, <5>1, <5>2
      <4> QED
        BY <4>2, <4>3
    <3>5. h[n + 1] = step[v] /\ step[v] \in V
      BY <2>1
    <3> HIDE DEF h
    <3>6. Upto(n + 1, h)
      <4>1. 0 .. (n + 1) - 1 = 0 .. n
        OBVIOUS
      <4> QED
        BY <3>3, <3>4, <4>1
    <3> QED
      BY <3>2, <3>5, <3>6
  <2>2. ASSUME NEW w \in Reached(n + 1) PROVE \E v \in Reached(n) : w = step[v]
    <3>1. PICK g \in [0 .. n + 1 -> V] : Upto(n + 1, g) /\ g[n + 1] = w
      BY <2>2
    <3> DEFINE h == [m \in 0 .. n |-> g[m]]
    <3>2. h \in [0 .. n -> V]
      OBVIOUS
    <3>3. Upto(n, h)
      <4>1. ASSUME NEW m \in 0 .. n - 1 PROVE h[m + 1] = step[h[m]]
        <5>1. h[m + 1] = g[m + 1] /\ h[m] = g[m]
          OBVIOUS
        <5> QED
          BY <3>1, <5>1
      <4> QED
        BY <3>1, <4>1
    <3>4. h[n] = g[n]
      OBVIOUS
    <3>5. g[n] \in Reached(n)
      <4> HIDE DEF h
      <4> QED
        BY <3>1, <3>2, <3>3, <3>4
    <3>6. w = step[g[n]]
      BY <3>1
    <3> QED
      BY <3>5, <3>6
  <2> HIDE DEF Reached
  <2> QED
    BY <2>1, <2>2
<1> HIDE DEF Reached
<1>3. 0 \in S
  BY <1>1
<1>4. ASSUME NEW n \in Nat, n \in S PROVE n + 1 \in S
  <2>1. PICK v \in V : Reached(n) = {v}
    BY <1>4
  <2>2. Reached(n + 1) = {step[v]}
    BY <1>2, <2>1
  <2> QED
    BY <2>2
<1> HIDE DEF S
<1>5. Nat \subseteq S
  BY <1>3, <1>4, NatSetInduction
<1> DEFINE f == [n \in Nat |-> CHOOSE v \in V : Reached(n) = {v}]
<1>6. ASSUME NEW n \in Nat PROVE f[n] \in V /\ Reached(n) = {f[n]}
  <2>1. PICK v \in V : Reached(n) = {v}
    BY <1>5 DEF S
  <2>2. f[n] = v
    BY <2>1
  <2> QED
    BY <2>1, <2>2
<1>7. f \in [Nat -> V]
  BY <1>6
<1>8. f[0] = first
  BY <1>1, <1>6
<1> HIDE DEF f
<1>9. ASSUME NEW n \in Nat PROVE f[n + 1] = step[f[n]]
  <2>1. Reached(n + 1) = {step[f[n]]}
    <3>1. Reached(n) = {f[n]}
      BY <1>6
    <3> QED
      BY <1>2, <3>1
  <2>2. Reached(n + 1) = {f[n + 1]}
    BY <1>6
  <2> QED
    BY <2>1, <2>2
<1> QED
  BY <1>7, <1>8, <1>9

-----------------------------------------------------------------------------
\* Folding a set: the same for the subsets of a finite set.

\* Functions that pick an element of every subset but the empty one.
Picks(S) == {pick \in [(SUBSET S) \ {{}} -> S] : \A s \in (SUBSET S) \ {{}} : pick[s] \in s}

\* g joins the picked element of a subset with what the rest of it is mapped to.
FoldsSubsets(g, S, base, pick, join) ==
    \A s \in SUBSET S : g[s] = IF s = {} THEN base ELSE join[pick[s]][g[s \ {pick[s]}]]

\* Recursion over the subsets of a finite set defines a function.
LEMMA SubsetRecursion ==
    ASSUME NEW S, IsFiniteSet(S), NEW V, NEW base \in V, NEW pick \in Picks(S),
           NEW join \in [S -> [V -> V]]
    PROVE  \E g \in [SUBSET S -> V] : FoldsSubsets(g, S, base, pick, join)
<1>0. pick \in [(SUBSET S) \ {{}} -> S] /\ \A s \in (SUBSET S) \ {{}} : pick[s] \in s
  BY DEF Picks
<1> DEFINE Once(g) == [s \in SUBSET S |->
                          IF s = {} THEN base ELSE join[pick[s]][g[s \ {pick[s]}]]]
           G == [SUBSET S -> V]
           step == [g \in G |-> Once(g)]
           first == [s \in SUBSET S |-> base]
<1>1. ASSUME NEW g \in G PROVE Once(g) \in G
  <2>1. ASSUME NEW s \in SUBSET S, s # {} PROVE join[pick[s]][g[s \ {pick[s]}]] \in V
    <3>1. pick[s] \in S /\ g[s \ {pick[s]}] \in V
      BY <1>0, <2>1
    <3> QED
      BY <3>1
  <2> QED
    BY <2>1
<1>2. first \in G /\ step \in [G -> G]
  <2> HIDE DEF Once, G
  <2>1. step \in [G -> G]
    BY <1>1
  <2>2. first \in G
    BY DEF G
  <2> QED
    BY <2>1, <2>2
<1> HIDE DEF first, step, G
<1>3. PICK f \in [Nat -> G] : f[0] = first /\ \A n \in Nat : f[n + 1] = step[f[n]]
  <2>1. \A W : \A a \in W : \A k \in [W -> W] :
            \E f \in [Nat -> W] : f[0] = a /\ \A n \in Nat : f[n + 1] = k[f[n]]
    BY Iteration
  <2>2. \A a \in G : \A k \in [G -> G] :
            \E f \in [Nat -> G] : f[0] = a /\ \A n \in Nat : f[n + 1] = k[f[n]]
    BY <2>1
  <2>3. \A k \in [G -> G] :
            \E f \in [Nat -> G] : f[0] = first /\ \A n \in Nat : f[n + 1] = k[f[n]]
    BY <1>2, <2>2
  <2> QED
    BY <1>2, <2>3
<1>4. ASSUME NEW n \in Nat PROVE f[n] \in G /\ f[n + 1] = Once(f[n])
  <2>1. f[n] \in G /\ f[n + 1] = step[f[n]]
    BY <1>3
  <2> QED
    BY <2>1 DEF step
<1> DEFINE Settled == {n \in Nat : \A s \in SUBSET S : Cardinality(s) <= n => f[n + 1][s] = f[n][s]}
<1>5. 0 \in Settled
  <2>1. ASSUME NEW s \in SUBSET S, Cardinality(s) <= 0 PROVE f[0 + 1][s] = f[0][s]
    <3>1. s = {}
      <4>1. IsFiniteSet(s) /\ Cardinality(s) \in Nat
        BY FS_Subset, FS_CardinalityType
      <4> QED
        BY <2>1, <4>1, FS_EmptySet
    <3>2. f[0] \in G /\ f[0 + 1] = Once(f[0])
      BY <1>4
    <3>3. f[0][s] = base
      BY <1>3 DEF first
    <3>4. Once(f[0])[s] = base
      BY <3>1
    <3> QED
      BY <3>2, <3>3, <3>4
  <2> QED
    BY <2>1
<1>6. ASSUME NEW n \in Nat, n \in Settled PROVE n + 1 \in Settled
  <2>1. ASSUME NEW s \in SUBSET S, Cardinality(s) <= n + 1 PROVE f[(n + 1) + 1][s] = f[n + 1][s]
    <3>1. f[(n + 1) + 1] = Once(f[n + 1]) /\ f[n + 1] = Once(f[n])
      <4>1. n + 1 \in Nat
        OBVIOUS
      <4> HIDE DEF Once
      <4> QED
        BY <1>4, <4>1
    <3>2. CASE s = {}
      <4>1. Once(f[n + 1])[s] = base /\ Once(f[n])[s] = base
        BY <3>2
      <4> QED
        BY <3>1, <4>1
    <3>3. CASE s # {}
      <4> DEFINE r == s \ {pick[s]}
      <4>1. r \in SUBSET S /\ pick[s] \in s
        BY <1>0, <3>3
      <4>2. Cardinality(r) <= n
        <5>1. IsFiniteSet(s) /\ Cardinality(s) \in Nat
          BY FS_Subset, FS_CardinalityType
        <5>2. \A x \in s : Cardinality(s \ {x}) = Cardinality(s) - 1
          BY <5>1, FS_RemoveElement
        <5>3. Cardinality(r) = Cardinality(s) - 1
          BY <4>1, <5>2
        <5> HIDE DEF r
        <5> QED
          BY <2>1, <5>1, <5>3
      <4>3. f[n + 1][r] = f[n][r]
        BY <1>6, <4>1, <4>2
      <4>4. Once(f[n + 1])[s] = join[pick[s]][f[n + 1][r]]
        BY <3>3
      <4>5. Once(f[n])[s] = join[pick[s]][f[n][r]]
        BY <3>3
      <4> QED
        BY <3>1, <4>3, <4>4, <4>5
    <3> QED
      BY <3>2, <3>3
  <2> QED
    BY <2>1
<1> HIDE DEF Settled, Once
<1>7. Nat \subseteq Settled
  BY <1>5, <1>6, NatSetInduction
<1> DEFINE n == Cardinality(S)
<1>8. n \in Nat
  BY FS_CardinalityType
<1>9. ASSUME NEW s \in SUBSET S PROVE f[n + 1][s] = f[n][s]
  <2>1. Cardinality(s) <= n
    BY FS_Subset
  <2> QED
    BY <1>7, <1>8, <2>1 DEF Settled
<1>10. f[n] \in G /\ f[n + 1] = Once(f[n])
  BY <1>4, <1>8
<1> HIDE DEF n
<1>11. ASSUME NEW s \in SUBSET S
       PROVE  f[n][s] = IF s = {} THEN base ELSE join[pick[s]][f[n][s \ {pick[s]}]]
  <2>1. Once(f[n])[s] = f[n][s]
    BY <1>9, <1>10
  <2> QED
    BY <2>1 DEF Once
<1> QED
  BY <1>10, <1>11 DEF G, FoldsSubsets

-----------------------------------------------------------------------------
\* Powers of two.

\* A power of two is the number of subsets of a set: SMT knows nothing of powers.
LEMMA PowerIsPositive == \A i \in Nat : 2^i \in Nat \ {0}
<1> SUFFICES ASSUME NEW i \in Nat PROVE 2^i \in Nat \ {0}
  OBVIOUS
<1>1. IsFiniteSet(1 .. i) /\ Cardinality(1 .. i) = i
  BY FS_Interval
<1>2. IsFiniteSet(SUBSET (1 .. i)) /\ Cardinality(SUBSET (1 .. i)) = 2^Cardinality(1 .. i)
  BY <1>1, FS_SUBSET
<1>3. Cardinality(SUBSET (1 .. i)) = 2^i
  BY <1>1, <1>2
<1>4. Cardinality(SUBSET (1 .. i)) \in Nat /\ Cardinality(SUBSET (1 .. i)) # 0
  BY <1>2, FS_CardinalityType, FS_EmptySet
<1> QED
  BY <1>3, <1>4

\* The subsets of 1 .. n + 1 are those without n + 1 and as many with it.
LEMMA PowerDoubles == \A n \in Nat : 2^(n + 1) = 2 * 2^n
<1> SUFFICES ASSUME NEW n \in Nat PROVE 2^(n + 1) = 2 * 2^n
  OBVIOUS
<1> DEFINE A == SUBSET (1 .. n)
           B == {s \in SUBSET (1 .. n + 1) : n + 1 \in s}
           f == [s \in A |-> s \cup {n + 1}]
<1>1. \A k \in Nat : IsFiniteSet(SUBSET (1 .. k)) /\ Cardinality(SUBSET (1 .. k)) = 2^k
  <2> SUFFICES ASSUME NEW k \in Nat
               PROVE  IsFiniteSet(SUBSET (1 .. k)) /\ Cardinality(SUBSET (1 .. k)) = 2^k
    OBVIOUS
  <2>1. IsFiniteSet(1 .. k) /\ Cardinality(1 .. k) = k
    BY FS_Interval
  <2>2. IsFiniteSet(SUBSET (1 .. k)) /\ Cardinality(SUBSET (1 .. k)) = 2^Cardinality(1 .. k)
    BY <2>1, FS_SUBSET
  <2> QED
    BY <2>1, <2>2
<1>2. IsFiniteSet(A) /\ Cardinality(A) = 2^n
  BY <1>1
<1>3. Cardinality(B) = Cardinality(A) /\ IsFiniteSet(B)
  <2>1. f \in [A -> B]
    <3>1. ASSUME NEW s \in A PROVE s \cup {n + 1} \in B
      OBVIOUS
    <3> QED
      BY <3>1
  <2>2. ASSUME NEW s \in A, NEW t \in A, f[s] = f[t] PROVE s = t
    <3>1. n + 1 \notin s /\ n + 1 \notin t /\ s \cup {n + 1} = t \cup {n + 1}
      BY <2>2
    <3> QED
      BY <3>1
  <2>3. ASSUME NEW t \in B PROVE \E s \in A : f[s] = t
    <3>1. t \ {n + 1} \in A
      OBVIOUS
    <3>2. f[t \ {n + 1}] = (t \ {n + 1}) \cup {n + 1}
      BY <3>1
    <3>3. (t \ {n + 1}) \cup {n + 1} = t
      OBVIOUS
    <3> QED
      BY <3>1, <3>2, <3>3
  <2> HIDE DEF A, B, f
  <2>4. f \in Bijection(A, B)
    BY <2>1, <2>2, <2>3, Fun_IsBij
  <2>5. ExistsBijection(A, B)
    BY <2>4 DEF ExistsBijection
  <2> QED
    BY <1>2, <2>5, FS_Bijection
<1>4. SUBSET (1 .. n + 1) = A \cup B /\ A \cap B = {}
  <2>1. ASSUME NEW s \in SUBSET (1 .. n + 1), s \notin B PROVE s \in A
    <3>1. \A i \in s : i \in 1 .. n + 1 /\ i # n + 1
      BY <2>1
    <3>2. \A i \in s : i \in 1 .. n
      BY <3>1
    <3> QED
      BY <3>2
  <2>2. A \subseteq SUBSET (1 .. n + 1)
    OBVIOUS
  <2>3. \A s \in A : n + 1 \notin s
    OBVIOUS
  <2> QED
    BY <2>1, <2>2, <2>3
<1> HIDE DEF A, B
<1>5. Cardinality(A \cup B) = Cardinality(A) + Cardinality(B) - Cardinality(A \cap B)
  BY <1>2, <1>3, FS_Union
<1>6. Cardinality(A \cap B) = 0
  BY <1>4, FS_EmptySet
<1>7. n + 1 \in Nat /\ Cardinality(A) \in Nat
  BY <1>2, FS_CardinalityType
<1>8. Cardinality(SUBSET (1 .. n + 1)) = 2^(n + 1)
  BY <1>1, <1>7
<1>9. 2^(n + 1) = Cardinality(A) + Cardinality(A)
  <2>1. Cardinality(A \cup B) = 2^(n + 1)
    BY <1>4, <1>8
  <2> QED
    BY <1>3, <1>5, <1>6, <1>7, <2>1
<1> QED
  BY <1>2, <1>7, <1>9

\* The powers grow, and faster than their exponents.
LEMMA PowerGrows ==
    /\ 2^0 = 1 /\ 2^1 = 2
    /\ \A n \in Nat : 2^n >= n + 1
    /\ \A m, n \in Nat : m < n => 2 * 2^m <= 2^n
<1>1. 2^0 = 1
  <2>1. IsFiniteSet({}) /\ Cardinality({}) = 0
    BY FS_EmptySet
  <2>2. Cardinality(SUBSET {}) = 2^0
    BY <2>1, FS_SUBSET
  <2>3. SUBSET {} = {{}}
    OBVIOUS
  <2>4. Cardinality({{}}) = 1
    BY FS_Singleton
  <2> QED
    BY <2>2, <2>3, <2>4
<1>2. 2^1 = 2
  BY <1>1, PowerDoubles
<1> DEFINE S == {n \in Nat : 2^n >= n + 1}
<1>3. 0 \in S
  BY <1>1
<1>4. ASSUME NEW n \in Nat, n \in S PROVE n + 1 \in S
  <2>1. 2^n \in Nat /\ 2^(n + 1) = 2 * 2^n /\ 2^n >= n + 1
    BY <1>4, PowerIsPositive, PowerDoubles
  <2> QED
    BY <2>1
<1> HIDE DEF S
<1>5. Nat \subseteq S
  BY <1>3, <1>4, NatSetInduction
<1>6. ASSUME NEW m \in Nat PROVE \A n \in Nat : m < n => 2 * 2^m <= 2^n
  <2> DEFINE P == {n \in Nat : m < n => 2 * 2^m <= 2^n}
  <2>1. 0 \in P
    OBVIOUS
  <2>2. ASSUME NEW n \in Nat, n \in P PROVE n + 1 \in P
    <3>1. 2^n \in Nat /\ 2^m \in Nat /\ 2^(n + 1) = 2 * 2^n
      BY PowerIsPositive, PowerDoubles
    <3>2. CASE n = m
      BY <3>1, <3>2
    <3>3. CASE n # m
      BY <2>2, <3>1, <3>3
    <3> QED
      BY <3>2, <3>3
  <2> HIDE DEF P
  <2>3. Nat \subseteq P
    BY <2>1, <2>2, NatSetInduction
  <2> QED
    BY <2>3 DEF P
<1> QED
  BY <1>1, <1>2, <1>5, <1>6 DEF S

\* A set of numbers that are no greater than n has a greatest one.
LEMMA Greatest ==
    ASSUME NEW n \in Nat, NEW S \in SUBSET (0 .. n), S # {}
    PROVE  \E x \in S : \A y \in S : y <= x
<1> DEFINE P == {k \in Nat : (\E y \in S : y >= n - k) => \E x \in S : \A y \in S : y <= x}
<1>1. 0 \in P
  OBVIOUS
<1>2. ASSUME NEW k \in Nat, k \in P PROVE k + 1 \in P
  <2>1. CASE \E y \in S : y >= n - k
    BY <1>2, <2>1
  <2>2. CASE \A y \in S : ~(y >= n - k)
    BY <2>2
  <2> QED
    BY <2>1, <2>2
<1> HIDE DEF P
<1>3. Nat \subseteq P
  BY <1>1, <1>2, NatSetInduction
<1>4. (\E y \in S : y >= n - n) => \E x \in S : \A y \in S : y <= x
  <2>1. n \in P
    BY <1>3
  <2> QED
    BY <2>1 DEF P
<1>5. PICK y \in S : y \in 0 .. n
  OBVIOUS
<1>6. n - n = 0 /\ y >= 0
  BY <1>5
<1> QED
  BY <1>4, <1>6

-----------------------------------------------------------------------------
\* Sequences whose elements have no type: the words a step computes.

IsSeq(q) == q \in Seq(Range(q))

LEMMA SeqIsSeq ==
    ASSUME NEW S, NEW q \in Seq(S)
    PROVE  IsSeq(q)
  BY SeqOfRange DEF IsSeq

LEMMA IsSeqLen ==
    ASSUME NEW q, IsSeq(q)
    PROVE  Len(q) \in Nat /\ DOMAIN q = 1 .. Len(q)
  BY LenProperties DEF IsSeq

LEMMA AppendIsSeq ==
    ASSUME NEW q, NEW v, IsSeq(q)
    PROVE  /\ IsSeq(Append(q, v))
           /\ Len(Append(q, v)) = Len(q) + 1
           /\ \A i \in 1 .. Len(q) : Append(q, v)[i] = q[i]
  <1> DEFINE S == Range(q) \union {v}
  <1>1. q \in Seq(S)
    BY SeqMonotonic DEF IsSeq
  <1> HIDE DEF S
  <1>2. v \in S
    BY DEF S
  <1>3. /\ Append(q, v) \in Seq(S)
        /\ Len(Append(q, v)) = Len(q) + 1
        /\ \A i \in 1 .. Len(q) : Append(q, v)[i] = q[i]
    BY <1>1, <1>2, AppendProperties
  <1>4. QED
    BY <1>3, SeqIsSeq

\* A part of a sequence.
LEMMA PartIsSeq ==
    ASSUME NEW q, IsSeq(q), NEW m \in Nat \ {0}, NEW n \in 0 .. Len(q)
    PROVE  /\ IsSeq(SubSeq(q, m, n))
           /\ Len(SubSeq(q, m, n)) = IF m <= n THEN n - m + 1 ELSE 0
           /\ \A i \in 1 .. n - m + 1 : SubSeq(q, m, n)[i] = q[m + i - 1]
  <1>1. \A i \in m .. n : q[i] \in Range(q)
    BY IsSeqLen DEF Range
  <1>2. m \in Int /\ n \in Int
    BY IsSeqLen
  <1>3. /\ SubSeq(q, m, n) \in Seq(Range(q))
        /\ Len(SubSeq(q, m, n)) = IF m <= n THEN n - m + 1 ELSE 0
        /\ \A i \in 1 .. n - m + 1 : SubSeq(q, m, n)[i] = q[m + i - 1]
    BY <1>1, <1>2, SubSeqProperties
  <1>4. QED
    BY <1>3, SeqIsSeq

LEMMA PrefixIsSeq ==
    ASSUME NEW q, IsSeq(q), NEW k \in 0 .. Len(q)
    PROVE  /\ IsSeq(SubSeq(q, 1, k))
           /\ Len(SubSeq(q, 1, k)) = k
           /\ \A i \in 1 .. k : SubSeq(q, 1, k)[i] = q[i]
  <1>1. /\ IsSeq(SubSeq(q, 1, k))
        /\ Len(SubSeq(q, 1, k)) = IF 1 <= k THEN k - 1 + 1 ELSE 0
        /\ \A i \in 1 .. k - 1 + 1 : SubSeq(q, 1, k)[i] = q[1 + i - 1]
    BY PartIsSeq
  <1>2. QED
    BY <1>1, IsSeqLen

LEMMA ConcatIsSeq ==
    ASSUME NEW q, NEW r, IsSeq(q), IsSeq(r)
    PROVE  /\ IsSeq(q \o r)
           /\ Len(q \o r) = Len(q) + Len(r)
           /\ \A i \in 1 .. Len(q) + Len(r) :
                 (q \o r)[i] = IF i <= Len(q) THEN q[i] ELSE r[i - Len(q)]
  <1> DEFINE S == Range(q) \union Range(r)
  <1>1. q \in Seq(S) /\ r \in Seq(S)
    BY SeqMonotonic DEF IsSeq
  <1> HIDE DEF S
  <1>2. QED
    BY <1>1, ConcatProperties, SeqIsSeq

LEMMA SameElements ==
    ASSUME NEW q, NEW r, IsSeq(q), IsSeq(r), Len(q) = Len(r),
           \A i \in 1 .. Len(q) : q[i] = r[i]
    PROVE  q = r
  <1> DEFINE S == Range(q) \union Range(r)
  <1>1. q \in Seq(S) /\ r \in Seq(S)
    BY SeqMonotonic DEF IsSeq
  <1> HIDE DEF S
  <1>2. QED
    BY <1>1, SeqEqual

=============================================================================
