-------------------------- MODULE MerkleTreeProofs ---------------------------
(***************************************************************************)
(* What the operators on trees return, for leaves of every number: the     *)
(* levels of recal and how long they are, what getNode finds, where the    *)
(* proofs lead.                                                            *)
(***************************************************************************)
EXTENDS MerkleTree, RecursionProofs

-----------------------------------------------------------------------------
(***************************************************************************)
(* Levels.                                                                 *)
(***************************************************************************)

\* A function on 1 .. n is a sequence.
LEMMA FunctionIsSeq ==
    ASSUME NEW n \in Nat, NEW q, q = [i \in 1 .. n |-> q[i]]
    PROVE  IsSeq(q) /\ Len(q) = n
<1>1. \A i \in 1 .. n : q[i] \in Range(q)
  BY DEF Range
<1>2. q \in [1 .. n -> Range(q)]
  BY <1>1
<1>3. q \in Seq(Range(q))
  BY <1>2, SeqDef
<1>4. Len(q) \in Nat /\ DOMAIN q = 1 .. Len(q)
  BY <1>3, LenProperties
<1>5. 1 .. n = 1 .. Len(q)
  BY <1>2, <1>4
<1>6. Len(q) = n
  <2>1. n \in 1 .. n \/ n = 0
    OBVIOUS
  <2>2. Len(q) \in 1 .. Len(q) \/ Len(q) = 0
    BY <1>4
  <2> QED
    BY <1>4, <1>5, <2>1, <2>2
<1> QED
  BY <1>3, <1>6 DEF IsSeq

\* A level is padded to an even length.
LEMMA PaddedShape ==
    ASSUME NEW level, IsSeq(level)
    PROVE  /\ IsSeq(Padded(level))
           /\ Len(Padded(level)) = 2 * ((Len(level) + 1) \div 2)
           /\ Len(level) <= Len(Padded(level))
           /\ \A i \in 1 .. Len(level) : Padded(level)[i] = level[i]
           /\ \A i \in 1 .. Len(Padded(level)) : i > Len(level) => Padded(level)[i] = zero
<1>1. Len(level) \in Nat
  BY IsSeqLen
<1>2. CASE Len(level) % 2 = 0
  BY <1>1, <1>2 DEF Padded
<1>3. CASE Len(level) % 2 # 0
  <2>1. /\ IsSeq(Append(level, zero))
        /\ Len(Append(level, zero)) = Len(level) + 1
        /\ \A i \in 1 .. Len(level) : Append(level, zero)[i] = level[i]
    BY AppendIsSeq
  <2>2. Append(level, zero)[Len(level) + 1] = zero
    <3>1. level \in Seq(Range(level) \cup {zero})
      BY SeqMonotonic DEF IsSeq
    <3> HIDE DEF zero
    <3> QED
      BY <3>1, AppendProperties
  <2>3. Padded(level) = Append(level, zero)
    BY <1>3 DEF Padded
  <2> HIDE DEF zero
  <2> QED
    BY <1>1, <1>3, <2>1, <2>2, <2>3
<1> QED
  BY <1>2, <1>3

\* Above it is a node for every two.
LEMMA ParentsShape ==
    ASSUME NEW level, IsSeq(level)
    PROVE  /\ IsSeq(Parents(level))
           /\ Len(Parents(level)) = Len(level) \div 2
           /\ \A i \in 1 .. Len(level) \div 2 :
                  Parents(level)[i] =
                      [hash |-> hash(level[2 * i - 1].hash, level[2 * i].hash),
                       left |-> level[2 * i - 1].hash, right |-> level[2 * i].hash,
                       isLeaf |-> FALSE]
<1> DEFINE n == Len(level) \div 2
<1>1. n \in Nat
  BY IsSeqLen
<1>2. \A i \in 1 .. n :
          Parents(level)[i] =
              [hash |-> hash(level[2 * i - 1].hash, level[2 * i].hash),
               left |-> level[2 * i - 1].hash, right |-> level[2 * i].hash,
               isLeaf |-> FALSE]
  BY DEF Parents
<1>3. Parents(level) = [i \in 1 .. n |-> Parents(level)[i]]
  BY DEF Parents
<1> HIDE DEF n
<1>4. IsSeq(Parents(level)) /\ Len(Parents(level)) = n
  BY <1>1, <1>3, FunctionIsSeq
<1> QED
  BY <1>2, <1>4 DEF n

\* The nodes of level l that are not padding.
Nodes(tree, leaves, l) == IF l = 1 THEN leaves ELSE Parents(tree[l - 1])

\* The levels are padded but for the last, and built on one another.
Stacked(tree, leaves) ==
    /\ IsSeq(tree)
    /\ \A l \in 1 .. Len(tree) :
           /\ IsSeq(tree[l])
           /\ IsSeq(Nodes(tree, leaves, l))
           /\ Len(Nodes(tree, leaves, l)) >= 1
           /\ tree[l] = IF l < Len(tree) THEN Padded(Nodes(tree, leaves, l))
                        ELSE Nodes(tree, leaves, l)
    /\ \A l \in 2 .. Len(tree) - 1 : Len(Nodes(tree, leaves, l)) > 1

\* A tree over the leaves: complete, with one node on top.
TreeOver(tree, leaves) ==
    /\ Stacked(tree, leaves)
    /\ Len(tree) >= 2
    /\ Len(Nodes(tree, leaves, Len(tree))) = 1

\* One turn of recal's loop.
Grown(below) ==
    IF Len(Last(below)) <= 1 /\ Len(below) > 1 THEN below
    ELSE Front(below) \o <<Padded(Last(below)), Parents(Padded(Last(below)))>>

LEMMA PairIsSeq ==
    ASSUME NEW a, NEW b
    PROVE  /\ IsSeq(<<a, b>>) /\ Len(<<a, b>>) = 2
           /\ <<a, b>>[1] = a /\ <<a, b>>[2] = b
<1>1. <<a, b>> \in Seq({a, b})
  OBVIOUS
<1> QED
  BY <1>1, SeqIsSeq

\* It adds a level or is over.
LEMMA GrownShape ==
    ASSUME NEW below, NEW leaves, Stacked(below, leaves), Len(below) >= 1
    PROVE  /\ Stacked(Grown(below), leaves)
           /\ IF Len(Last(below)) <= 1 /\ Len(below) > 1 THEN Grown(below) = below
              ELSE /\ Len(Grown(below)) = Len(below) + 1
                   /\ Len(Last(Grown(below))) = (Len(Last(below)) + 1) \div 2
<1> DEFINE m == Len(below)
           last == Last(below)
           level == Padded(last)
           above == Parents(level)
<1>1. CASE Len(last) <= 1 /\ m > 1
  BY <1>1 DEF Grown
<1>2. CASE ~(Len(last) <= 1 /\ m > 1)
  <2> DEFINE grown == Front(below) \o <<level, above>>
  <2>1. Grown(below) = grown
    BY <1>2 DEF Grown
  <2>2. IsSeq(below) /\ m \in Nat /\ m >= 1
    BY IsSeqLen DEF Stacked
  <2>3. last = below[m] /\ IsSeq(last) /\ last = Nodes(below, leaves, m) /\ Len(last) >= 1
    BY <2>2 DEF Last, Stacked
  <2>4. Len(last) \in Nat
    BY <2>3, IsSeqLen
  <2>5. /\ IsSeq(level)
        /\ Len(level) = 2 * ((Len(last) + 1) \div 2)
    BY <2>3, PaddedShape
  <2>6. IsSeq(above) /\ Len(above) = (Len(last) + 1) \div 2
    <3>1. IsSeq(above) /\ Len(above) = Len(level) \div 2
      BY <2>5, ParentsShape
    <3> QED
      BY <2>4, <2>5, <3>1
  <2>7. /\ IsSeq(Front(below)) /\ Len(Front(below)) = m - 1
        /\ \A i \in 1 .. m - 1 : Front(below)[i] = below[i]
    <3>1. m - 1 \in 0 .. Len(below)
      BY <2>2
    <3> QED
      BY <2>2, <3>1, PrefixIsSeq DEF Front
  <2>8. IsSeq(<<level, above>>) /\ Len(<<level, above>>) = 2
    BY PairIsSeq
  <2>9. /\ IsSeq(grown) /\ Len(grown) = m + 1
        /\ \A i \in 1 .. m - 1 : grown[i] = below[i]
        /\ grown[m] = level /\ grown[m + 1] = above
    <3>1. /\ IsSeq(grown) /\ Len(grown) = (m - 1) + 2
          /\ \A i \in 1 .. (m - 1) + 2 :
                 grown[i] = IF i <= m - 1 THEN Front(below)[i] ELSE <<level, above>>[i - (m - 1)]
      <4> HIDE DEF level, above
      <4>1. /\ IsSeq(Front(below) \o <<level, above>>)
            /\ Len(Front(below) \o <<level, above>>) = Len(Front(below)) + Len(<<level, above>>)
            /\ \A i \in 1 .. Len(Front(below)) + Len(<<level, above>>) :
                 (Front(below) \o <<level, above>>)[i] =
                     IF i <= Len(Front(below)) THEN Front(below)[i]
                     ELSE <<level, above>>[i - Len(Front(below))]
        BY <2>7, <2>8, ConcatIsSeq
      <4> QED
        BY <2>2, <2>7, <2>8, <4>1
    <3> HIDE DEF grown, level, above
    <3>2. m \in 1 .. (m - 1) + 2 /\ m + 1 \in 1 .. (m - 1) + 2 /\ ~(m <= m - 1) /\ ~(m + 1 <= m - 1)
          /\ m - (m - 1) = 1 /\ (m + 1) - (m - 1) = 2 /\ (m - 1) + 2 = m + 1
      BY <2>2
    <3>3. grown[m] = <<level, above>>[m - (m - 1)] /\ grown[m + 1] = <<level, above>>[(m + 1) - (m - 1)]
      BY <3>1, <3>2
    <3>4. grown[m] = level /\ grown[m + 1] = above
      BY <3>2, <3>3
    <3>5. \A i \in 1 .. m - 1 : i \in 1 .. (m - 1) + 2 /\ i <= m - 1
      BY <2>2
    <3> QED
      BY <2>7, <3>1, <3>2, <3>4, <3>5
  <2>10. \A l \in 1 .. m : Nodes(grown, leaves, l) = Nodes(below, leaves, l)
    <3> HIDE DEF grown, level, above
    <3>1. \A l \in 1 .. m : l # 1 => l - 1 \in 1 .. m - 1
      BY <2>2
    <3> QED
      BY <2>9, <3>1 DEF Nodes
  <2>11. Nodes(grown, leaves, m + 1) = above
    <3> HIDE DEF grown, level
    <3>1. m + 1 # 1 /\ (m + 1) - 1 = m
      BY <2>2
    <3> QED
      BY <2>9, <3>1 DEF Nodes
  <2>12. Stacked(grown, leaves)
    <3> HIDE DEF grown, level, above
    <3>1. ASSUME NEW l \in 1 .. m + 1
          PROVE  /\ IsSeq(grown[l])
                 /\ IsSeq(Nodes(grown, leaves, l))
                 /\ Len(Nodes(grown, leaves, l)) >= 1
                 /\ grown[l] = IF l < m + 1 THEN Padded(Nodes(grown, leaves, l))
                               ELSE Nodes(grown, leaves, l)
      <4>1. CASE l = m + 1
        BY <2>2, <2>4, <2>6, <2>9, <2>11, <2>3, <4>1
      <4>2. CASE l = m
        <5>1. /\ IsSeq(Nodes(below, leaves, m))
              /\ Len(Nodes(below, leaves, m)) >= 1
          BY <2>2 DEF Stacked
        <5>2. Nodes(grown, leaves, m) = last /\ grown[m] = Padded(last)
          BY <2>2, <2>3, <2>9, <2>10 DEF level
        <5> QED
          BY <2>2, <2>3, <2>5, <2>9, <4>2, <5>1, <5>2
      <4>3. CASE l < m
        <5>1. l \in 1 .. m /\ l \in 1 .. m - 1
          BY <2>2, <4>3
        <5>2. /\ IsSeq(below[l])
              /\ IsSeq(Nodes(below, leaves, l))
              /\ Len(Nodes(below, leaves, l)) >= 1
              /\ below[l] = Padded(Nodes(below, leaves, l))
          BY <4>3, <5>1 DEF Stacked
        <5>3. grown[l] = below[l] /\ Nodes(grown, leaves, l) = Nodes(below, leaves, l) /\ l < m + 1
          BY <2>2, <2>9, <2>10, <5>1
        <5> QED
          BY <5>2, <5>3
      <4> QED
        BY <2>2, <4>1, <4>2, <4>3
    <3>2. ASSUME NEW l \in 2 .. m PROVE Len(Nodes(grown, leaves, l)) > 1
      <4>1. CASE l = m
        BY <1>2, <2>2, <2>3, <2>4, <2>10, <4>1
      <4>2. CASE l < m
        <5>1. l \in 2 .. m - 1 /\ l \in 1 .. m
          BY <2>2, <4>2
        <5> QED
          BY <2>10, <5>1 DEF Stacked
      <4> QED
        BY <2>2, <4>1, <4>2
    <3>3. (m + 1) - 1 = m
      BY <2>2
    <3> QED
      BY <2>9, <3>1, <3>2, <3>3 DEF Stacked
  <2>13. Last(grown) = above
    <3> HIDE DEF grown, above
    <3> QED
      BY <2>9 DEF Last
  <2> HIDE DEF grown, above, level
  <2> QED
    BY <1>2, <2>1, <2>6, <2>9, <2>12, <2>13
<1> QED
  BY <1>1, <1>2

\* The loop of recal, turn by turn.
LEMMA RecalTurns ==
    ASSUME NEW leaves, IsSeq(leaves), Len(leaves) >= 1
    PROVE  \E turns :
               /\ turns[0] = <<leaves>>
               /\ \A k \in 0 .. Len(leaves) :
                      turns[k + 1] =
                          LET below == turns[k]
                              level == Padded(Last(below))
                          IN  IF Len(Last(below)) <= 1 /\ k + 1 > 1 THEN below
                              ELSE Front(below) \o <<level, Parents(level)>>
               /\ recal(leaves) = turns[Len(leaves) + 1]
<1> DEFINE Turn(k, below) ==
               LET level == Padded(Last(below))
               IN  IF Len(Last(below)) <= 1 /\ k > 1 THEN below
                   ELSE Front(below) \o <<level, Parents(level)>>
           S == {n \in Nat : \E f : f = [k \in 0 .. n |->
                     IF k = 0 THEN <<leaves>> ELSE Turn(k, f[k - 1])]}
<1>1. 0 \in S
  <2> DEFINE f == [k \in 0 .. 0 |-> <<leaves>>]
  <2>1. f = [k \in 0 .. 0 |-> IF k = 0 THEN <<leaves>> ELSE Turn(k, f[k - 1])]
    <3> HIDE DEF Turn
    <3> QED
      OBVIOUS
  <2> HIDE DEF f, Turn
  <2> QED
    BY <2>1
<1>2. ASSUME NEW n \in Nat, n \in S PROVE n + 1 \in S
  <2> HIDE DEF Turn
  <2>1. PICK f : f = [k \in 0 .. n |-> IF k = 0 THEN <<leaves>> ELSE Turn(k, f[k - 1])]
    BY <1>2
  <2> DEFINE g == [k \in 0 .. n + 1 |-> IF k = n + 1 THEN Turn(n + 1, f[n]) ELSE f[k]]
  <2>2. ASSUME NEW k \in 0 .. n + 1
        PROVE  g[k] = IF k = 0 THEN <<leaves>> ELSE Turn(k, g[k - 1])
    <3>1. CASE k = n + 1
      <4>1. n \in 0 .. n + 1 /\ n # n + 1 /\ k - 1 = n /\ k # 0
        BY <3>1
      <4>2. g[k - 1] = f[n] /\ g[k] = Turn(n + 1, f[n])
        BY <3>1, <4>1
      <4> HIDE DEF g
      <4> QED
        BY <3>1, <4>1, <4>2
    <3>2. CASE k # n + 1
      <4>1. k \in 0 .. n /\ (k # 0 => k - 1 \in 0 .. n + 1 /\ k - 1 # n + 1)
        BY <3>2
      <4>2. g[k] = f[k] /\ (k # 0 => g[k - 1] = f[k - 1])
        BY <3>2, <4>1
      <4>3. f[k] = IF k = 0 THEN <<leaves>> ELSE Turn(k, f[k - 1])
        BY <2>1, <4>1
      <4> HIDE DEF g
      <4> QED
        BY <4>2, <4>3
    <3> QED
      BY <3>1, <3>2
  <2>3. g = [k \in 0 .. n + 1 |-> g[k]]
    OBVIOUS
  <2> HIDE DEF g
  <2>4. g = [k \in 0 .. n + 1 |-> IF k = 0 THEN <<leaves>> ELSE Turn(k, g[k - 1])]
    BY <2>2, <2>3
  <2> QED
    BY <2>4
<1>3. Nat \subseteq S
  <2> HIDE DEF S
  <2> QED
    BY <1>1, <1>2, NatSetInduction
<1> DEFINE n == Len(leaves) + 1
           upTo[k \in 0 .. Len(leaves) + 1] ==
               IF k = 0 THEN <<leaves>>
               ELSE LET below == upTo[k - 1]
                        level == Padded(Last(below))
                    IN  IF Len(Last(below)) <= 1 /\ k > 1 THEN below
                        ELSE Front(below) \o <<level, Parents(level)>>
<1>4. recal(leaves) = upTo[Len(leaves) + 1]
  BY DEF recal
<1>5. n \in Nat
  BY IsSeqLen
<1>6. \E f : f = [k \in 0 .. n |-> IF k = 0 THEN <<leaves>> ELSE Turn(k, f[k - 1])]
  <2> HIDE DEF n, Turn
  <2> QED
    BY <1>3, <1>5
<1>7. upTo = [k \in 0 .. Len(leaves) + 1 |->
               IF k = 0 THEN <<leaves>>
               ELSE LET below == upTo[k - 1]
                        level == Padded(Last(below))
                    IN  IF Len(Last(below)) <= 1 /\ k > 1 THEN below
                        ELSE Front(below) \o <<level, Parents(level)>>]
  BY <1>6
<1> HIDE DEF upTo
<1>8. ASSUME NEW k \in 0 .. Len(leaves)
      PROVE  upTo[k + 1] =
                 LET below == upTo[k]
                     level == Padded(Last(below))
                 IN  IF Len(Last(below)) <= 1 /\ k + 1 > 1 THEN below
                     ELSE Front(below) \o <<level, Parents(level)>>
  <2>1. k + 1 \in 0 .. Len(leaves) + 1 /\ k + 1 # 0 /\ (k + 1) - 1 = k
    BY IsSeqLen
  <2> QED
    BY <1>7, <2>1
<1>9. upTo[0] = <<leaves>>
  <2>1. 0 \in 0 .. Len(leaves) + 1
    BY IsSeqLen
  <2> QED
    BY <1>7, <2>1
<1> QED
  BY <1>4, <1>8, <1>9

\* recal builds a tree.
LEMMA RecalShape ==
    ASSUME NEW leaves, IsSeq(leaves), Len(leaves) >= 1
    PROVE  TreeOver(recal(leaves), leaves)
<1>0. Len(leaves) \in Nat
  BY IsSeqLen
<1>1. PICK turns :
          /\ turns[0] = <<leaves>>
          /\ \A k \in 0 .. Len(leaves) :
                 turns[k + 1] =
                     LET below == turns[k]
                         level == Padded(Last(below))
                     IN  IF Len(Last(below)) <= 1 /\ k + 1 > 1 THEN below
                         ELSE Front(below) \o <<level, Parents(level)>>
          /\ recal(leaves) = turns[Len(leaves) + 1]
  BY RecalTurns
\* Turn k made level k + 1, or the top was reached before.
<1> DEFINE Built(k) ==
               /\ Stacked(turns[k], leaves)
               /\ Len(turns[k]) >= 1 /\ Len(turns[k]) <= k + 1
               /\ k >= 1 => Len(turns[k]) >= 2
               /\ \/ Len(turns[k]) = k + 1 /\ Len(Last(turns[k])) + k <= Len(leaves) + 1
                  \/ Len(Last(turns[k])) = 1
           S == {k \in Nat : k <= Len(leaves) + 1 => Built(k)}
<1>2. 0 \in S
  <2>1. <<leaves>> \in Seq({leaves}) /\ Len(<<leaves>>) = 1 /\ <<leaves>>[1] = leaves
    OBVIOUS
  <2>2. IsSeq(<<leaves>>)
    BY <2>1, SeqIsSeq
  <2>3. Nodes(<<leaves>>, leaves, 1) = leaves
    BY DEF Nodes
  <2>4. Stacked(<<leaves>>, leaves)
    BY <2>1, <2>2, <2>3 DEF Stacked
  <2>5. Last(<<leaves>>) = leaves
    BY <2>1 DEF Last
  <2>6. turns[0] = <<leaves>>
    BY <1>1
  <2>7. Len(Last(turns[0])) + 0 <= Len(leaves) + 1 /\ Len(turns[0]) = 0 + 1
    BY <1>0, <2>1, <2>5, <2>6
  <2>8. Built(0)
    BY <2>4, <2>6, <2>7
  <2> QED
    BY <2>8
<1>3. ASSUME NEW k \in Nat, k \in S PROVE k + 1 \in S
  <2> SUFFICES ASSUME k + 1 <= Len(leaves) + 1 PROVE Built(k + 1)
    OBVIOUS
  <2> DEFINE below == turns[k]
             last == Last(below)
  <2>1. Built(k) /\ k \in 0 .. Len(leaves)
    BY <1>0, <1>3
  <2>2. IsSeq(below) /\ Len(below) \in Nat /\ IsSeq(last) /\ Len(last) \in Nat /\ Len(last) >= 1
    <3>1. IsSeq(below) /\ Len(below) \in Nat
      BY <2>1, IsSeqLen DEF Stacked
    <3>2. Len(below) \in 1 .. Len(below)
      BY <2>1, <3>1
    <3>3. IsSeq(below[Len(below)]) /\ Len(below[Len(below)]) >= 1
      BY <2>1, <3>2 DEF Stacked
    <3> QED
      BY <3>1, <3>3, IsSeqLen DEF Last
  <2>3. turns[k + 1] = Grown(below)
    <3>1. k + 1 > 1 <=> Len(below) > 1
      <4>1. Len(below) >= 1 /\ Len(below) <= k + 1 /\ (k >= 1 => Len(below) >= 2)
        BY <2>1
      <4> HIDE DEF below
      <4> QED
        BY <2>2, <4>1
    <3>2. turns[k + 1] =
              IF Len(last) <= 1 /\ k + 1 > 1 THEN below
              ELSE Front(below) \o <<Padded(last), Parents(Padded(last))>>
      BY <1>1, <2>1
    <3> HIDE DEF below
    <3> QED
      BY <3>1, <3>2 DEF Grown
  <2>4. /\ Stacked(Grown(below), leaves)
        /\ IF Len(last) <= 1 /\ Len(below) > 1 THEN Grown(below) = below
           ELSE /\ Len(Grown(below)) = Len(below) + 1
                /\ Len(Last(Grown(below))) = (Len(last) + 1) \div 2
    BY <2>1, GrownShape
  <2> HIDE DEF below
  <2>5. CASE Len(last) <= 1 /\ Len(below) > 1
    <3>1. turns[k + 1] = below
      BY <2>3, <2>4, <2>5
    <3>4. Stacked(below, leaves)
      BY <2>1 DEF below
    <3>5. Len(last) = 1 /\ Len(below) >= 2
      BY <2>2, <2>5
    <3>2. Len(below) <= k + 1
      BY <2>1 DEF below
    <3>3. Len(below) <= (k + 1) + 1
      BY <2>2, <3>2
    <3> HIDE DEF last
    <3> QED
      BY <2>2, <3>1, <3>3, <3>4, <3>5 DEF last
  <2>6. CASE ~(Len(last) <= 1 /\ Len(below) > 1)
    <3>1. /\ Stacked(turns[k + 1], leaves)
          /\ Len(turns[k + 1]) = Len(below) + 1
          /\ Len(Last(turns[k + 1])) = (Len(last) + 1) \div 2
      BY <2>3, <2>4, <2>6
    <3> DEFINE grown == turns[k + 1]
               top == (Len(last) + 1) \div 2
    <3>2. (Len(below) = k + 1 /\ Len(last) + k <= Len(leaves) + 1) \/ Len(last) = 1
      BY <2>1 DEF below
    <3>3. (Len(last) + 1) \div 2 = 1 \/ (Len(last) + 1) \div 2 <= Len(last) - 1
      BY <2>2
    <3>4. Len(below) >= 1 /\ Len(below) <= k + 1
      BY <2>1 DEF below
    <3>5. Len(last) = 1 => top = 1
      OBVIOUS
    <3>6. \/ Len(grown) = (k + 1) + 1 /\ Len(Last(grown)) + (k + 1) <= Len(leaves) + 1
          \/ Len(Last(grown)) = 1
      <4>1. top \in Nat /\ (top = 1 \/ top <= Len(last) - 1)
        BY <2>2, <3>3
      <4>2. Len(grown) = Len(below) + 1 /\ Len(Last(grown)) = top
        BY <3>1
      <4> HIDE DEF grown, top
      <4> QED
        BY <1>0, <2>2, <3>2, <3>5, <4>1, <4>2
    <3>7. Len(grown) >= 2 /\ Len(grown) <= (k + 1) + 1
      BY <2>2, <3>1, <3>4
    <3> HIDE DEF top
    <3> QED
      BY <3>1, <3>6, <3>7
  <2> QED
    BY <2>5, <2>6
<1> DEFINE n == Len(leaves) + 1
<1>4. Built(n)
  <2>1. Nat \subseteq S
    <3> HIDE DEF S
    <3> QED
      BY <1>2, <1>3, NatSetInduction
  <2>2. n \in Nat
    BY <1>0
  <2>3. n \in S
    BY <2>1, <2>2
  <2> QED
    BY <2>2, <2>3
<1> DEFINE tree == turns[n]
<1>5. /\ Stacked(tree, leaves) /\ Len(tree) >= 2
      /\ \/ Len(Last(tree)) + n <= n
         \/ Len(Last(tree)) = 1
  BY <1>0, <1>4
<1>6. Len(Nodes(tree, leaves, Len(tree))) = 1
  <2> HIDE DEF tree
  <2>1. Len(tree) \in 1 .. Len(tree)
    <3>1. Len(tree) \in Nat
      BY <1>5, IsSeqLen DEF Stacked
    <3> QED
      BY <1>5, <3>1
  <2>2. /\ tree[Len(tree)] = Nodes(tree, leaves, Len(tree))
        /\ IsSeq(tree[Len(tree)])
        /\ Len(Nodes(tree, leaves, Len(tree))) >= 1
    <3>1. Len(tree) \in Nat /\ ~(Len(tree) < Len(tree))
      BY <1>5, IsSeqLen DEF Stacked
    <3> QED
      BY <1>5, <2>1, <3>1 DEF Stacked
  <2> QED
    BY <1>0, <1>5, <2>1, <2>2, IsSeqLen DEF Last, Stacked
<1>7. recal(leaves) = tree
  BY <1>1
<1> HIDE DEF tree
<1> QED
  BY <1>5, <1>6, <1>7 DEF TreeOver

-----------------------------------------------------------------------------
(***************************************************************************)
(* The nodes of a tree.                                                    *)
(***************************************************************************)

Count(tree, leaves, l) == Len(Nodes(tree, leaves, l))

\* Node i of a level joins the nodes 2 * i - 1 and 2 * i below.
Joins(node, below, i) ==
    node = [hash |-> hash(below[2 * i - 1].hash, below[2 * i].hash),
            left |-> below[2 * i - 1].hash, right |-> below[2 * i].hash, isLeaf |-> FALSE]

\* The levels of a tree, padding included, and the nodes above them.
LEMMA LevelFacts ==
    ASSUME NEW leaves, NEW tree, TreeOver(tree, leaves), NEW l \in 1 .. Len(tree) - 1
    PROVE  /\ Len(tree) \in Nat /\ l + 1 \in 1 .. Len(tree) /\ l \in 1 .. Len(tree)
           /\ Count(tree, leaves, l) \in Nat \ {0}
           /\ Count(tree, leaves, l + 1) \in Nat \ {0}
           /\ Count(tree, leaves, l + 1) = (Count(tree, leaves, l) + 1) \div 2
           /\ IsSeq(tree[l]) /\ Len(tree[l]) = 2 * Count(tree, leaves, l + 1)
           /\ \A i \in 1 .. Count(tree, leaves, l) : tree[l][i] = Nodes(tree, leaves, l)[i]
           /\ \A i \in 1 .. Len(tree[l]) : i > Count(tree, leaves, l) => tree[l][i] = zero
           /\ \A i \in 1 .. Count(tree, leaves, l + 1) :
                  Joins(Nodes(tree, leaves, l + 1)[i], tree[l], i)
<1> DEFINE m == Len(tree)
           here == Nodes(tree, leaves, l)
           level == tree[l]
           above == Nodes(tree, leaves, l + 1)
<1>1. m \in Nat /\ m >= 2
  BY IsSeqLen DEF TreeOver, Stacked
<1>2. l \in 1 .. m /\ l + 1 \in 1 .. m /\ l < m
  BY <1>1
<1>3. /\ IsSeq(level) /\ IsSeq(here) /\ Len(here) >= 1
      /\ level = Padded(here)
      /\ IsSeq(above) /\ Len(above) >= 1
  BY <1>2 DEF TreeOver, Stacked
<1>4. above = Parents(level)
  BY <1>2 DEF Nodes
<1>5. Len(here) \in Nat /\ Len(above) \in Nat /\ Len(level) \in Nat
  BY <1>3, IsSeqLen
<1> HIDE DEF m, here, level, above
<1>6. /\ Len(level) = 2 * ((Len(here) + 1) \div 2)
      /\ \A i \in 1 .. Len(here) : level[i] = here[i]
      /\ \A i \in 1 .. Len(level) : i > Len(here) => level[i] = zero
  BY <1>3, PaddedShape
<1>7. /\ Len(above) = Len(level) \div 2
      /\ \A i \in 1 .. Len(level) \div 2 : Joins(above[i], level, i)
  BY <1>3, <1>4, ParentsShape DEF Joins
<1>8. Len(above) = (Len(here) + 1) \div 2
  BY <1>5, <1>6, <1>7
<1>9. Len(level) = 2 * Len(above)
  BY <1>6, <1>8
<1> QED
  BY <1>1, <1>2, <1>3, <1>5, <1>6, <1>7, <1>8, <1>9 DEF m, here, level, above, Count

\* One level is half as long as the one below.
LEMMA Halved ==
    ASSUME NEW leaves, NEW tree, TreeOver(tree, leaves), NEW l \in 1 .. Len(tree) - 1
    PROVE  \/ Count(tree, leaves, l) = 2 * Count(tree, leaves, l + 1)
           \/ Count(tree, leaves, l) = 2 * Count(tree, leaves, l + 1) - 1
<1> DEFINE n == Count(tree, leaves, l)
           up == Count(tree, leaves, l + 1)
<1>1. n \in Nat /\ up = (n + 1) \div 2
  BY LevelFacts
<1> HIDE DEF n, up
<1>2. n = 2 * up \/ n = 2 * up - 1
  BY <1>1
<1> QED
  BY <1>2 DEF n, up

\* The level of the root is a single node.
LEMMA TopFacts ==
    ASSUME NEW leaves, NEW tree, TreeOver(tree, leaves)
    PROVE  /\ Len(tree) \in Nat /\ Len(tree) >= 2
           /\ Count(tree, leaves, Len(tree)) = 1
           /\ IsSeq(tree[Len(tree)]) /\ Len(tree[Len(tree)]) = 1
           /\ root(tree) = tree[Len(tree)][1]
           /\ root(tree) = Nodes(tree, leaves, Len(tree))[1]
<1>1. Len(tree) \in Nat /\ Len(tree) >= 2
  BY IsSeqLen DEF TreeOver, Stacked
<1>2. Len(tree) \in 1 .. Len(tree) /\ ~(Len(tree) < Len(tree))
  BY <1>1
<1>3. tree[Len(tree)] = Nodes(tree, leaves, Len(tree)) /\ IsSeq(tree[Len(tree)])
  BY <1>2 DEF TreeOver, Stacked
<1>4. Len(Nodes(tree, leaves, Len(tree))) = 1
  BY DEF TreeOver
<1> QED
  BY <1>1, <1>3, <1>4 DEF Count, root, Last

\* Every level of a tree is a sequence, with the nodes in front of the padding.
LEMMA AnyLevel ==
    ASSUME NEW leaves, NEW tree, TreeOver(tree, leaves), NEW l \in 1 .. Len(tree)
    PROVE  /\ IsSeq(tree[l])
           /\ Count(tree, leaves, l) \in Nat \ {0}
           /\ Count(tree, leaves, l) <= Len(tree[l])
           /\ \A i \in 1 .. Count(tree, leaves, l) : tree[l][i] = Nodes(tree, leaves, l)[i]
           /\ \A i \in 1 .. Len(tree[l]) : i > Count(tree, leaves, l) => tree[l][i] = zero
<1>1. Len(tree) \in Nat /\ Len(tree) >= 2
  BY TopFacts
<1>2. CASE l = Len(tree)
  <2>1. ~(l < Len(tree))
    BY <1>1, <1>2
  <2>2. IsSeq(tree[l]) /\ tree[l] = Nodes(tree, leaves, l) /\ Len(tree[l]) = 1
    BY <1>2, <2>1, TopFacts DEF TreeOver, Stacked
  <2> QED
    BY <2>2 DEF Count
<1>3. CASE l # Len(tree)
  <2>1. l \in 1 .. Len(tree) - 1
    BY <1>1, <1>3
  <2>2. /\ IsSeq(tree[l])
        /\ Count(tree, leaves, l) \in Nat \ {0}
        /\ \A i \in 1 .. Count(tree, leaves, l) : tree[l][i] = Nodes(tree, leaves, l)[i]
        /\ \A i \in 1 .. Len(tree[l]) : i > Count(tree, leaves, l) => tree[l][i] = zero
        /\ Len(tree[l]) = 2 * Count(tree, leaves, l + 1)
        /\ Count(tree, leaves, l + 1) \in Nat \ {0}
    <3>1. IsSeq(tree[l]) /\ Len(tree[l]) = 2 * Count(tree, leaves, l + 1)
      BY <2>1, LevelFacts
    <3>2. Count(tree, leaves, l) \in Nat \ {0} /\ Count(tree, leaves, l + 1) \in Nat \ {0}
      BY <2>1, LevelFacts
    <3>3. \A i \in 1 .. Count(tree, leaves, l) : tree[l][i] = Nodes(tree, leaves, l)[i]
      BY <2>1, LevelFacts
    <3>4. \A i \in 1 .. Len(tree[l]) : i > Count(tree, leaves, l) => tree[l][i] = zero
      BY <2>1, LevelFacts
    <3> QED
      BY <3>1, <3>2, <3>3, <3>4
  <2>3. \/ Count(tree, leaves, l) = 2 * Count(tree, leaves, l + 1)
        \/ Count(tree, leaves, l) = 2 * Count(tree, leaves, l + 1) - 1
    BY <2>1, Halved
  <2>4. Count(tree, leaves, l) <= Len(tree[l])
    BY <2>2, <2>3
  <2> QED
    BY <2>2, <2>4
<1> QED
  BY <1>2, <1>3

\* The node on top of node i of a level, and the next one.
LEMMA Above ==
    ASSUME NEW leaves, NEW tree, TreeOver(tree, leaves), NEW l \in 1 .. Len(tree) - 1,
           NEW i \in 1 .. Count(tree, leaves, l + 1)
    PROVE  /\ Joins(tree[l + 1][i], tree[l], i)
           /\ 2 * i - 1 \in 1 .. Count(tree, leaves, l)
           /\ 2 * i \in 1 .. Len(tree[l])
           /\ 2 * i <= Count(tree, leaves, l) \/ (2 * i = Len(tree[l]) /\ tree[l][2 * i] = zero)
<1>1. /\ l + 1 \in 1 .. Len(tree)
      /\ Count(tree, leaves, l) \in Nat \ {0}
      /\ Count(tree, leaves, l + 1) \in Nat \ {0}
      /\ Len(tree[l]) = 2 * Count(tree, leaves, l + 1)
      /\ Joins(Nodes(tree, leaves, l + 1)[i], tree[l], i)
  BY LevelFacts
<1>2. \/ Count(tree, leaves, l) = 2 * Count(tree, leaves, l + 1)
      \/ Count(tree, leaves, l) = 2 * Count(tree, leaves, l + 1) - 1
  BY Halved
<1>3. Joins(tree[l + 1][i], tree[l], i)
  <2>1. tree[l + 1][i] = Nodes(tree, leaves, l + 1)[i]
    BY <1>1, AnyLevel
  <2> QED
    BY <1>1, <2>1
<1>4. 2 * i - 1 \in 1 .. Count(tree, leaves, l) /\ 2 * i \in 1 .. Len(tree[l])
  BY <1>1, <1>2
<1>5. 2 * i <= Count(tree, leaves, l) \/ (2 * i = Len(tree[l]) /\ 2 * i > Count(tree, leaves, l))
  BY <1>1, <1>2
<1>6. 2 * i > Count(tree, leaves, l) => tree[l][2 * i] = zero
  <2>1. \A j \in 1 .. Len(tree[l]) : j > Count(tree, leaves, l) => tree[l][j] = zero
    BY LevelFacts
  <2> QED
    BY <1>4, <2>1
<1> QED
  BY <1>3, <1>4, <1>5, <1>6

\* A tree of depth d is over at most 2^(d - 1) leaves, and unless d is two, over
\* more than half as many.
LEMMA DepthOfCount ==
    ASSUME NEW leaves, NEW tree, TreeOver(tree, leaves)
    PROVE  /\ Len(leaves) \in Nat
           /\ Len(leaves) <= 2^(Len(tree) - 1)
           /\ Len(tree) = 2 \/ Len(leaves) > 2^(Len(tree) - 2)
<1> DEFINE m == Len(tree)
           n(l) == Count(tree, leaves, l)
           S == {k \in Nat : m - k >= 1 => n(m - k) <= 2^k}
           T == {k \in Nat : m - 1 - k >= 1 => n(m - 1 - k) > 2^k}
<1>1. m \in Nat /\ m >= 2 /\ n(m) = 1
  BY TopFacts
<1>2. 2^0 = 1
  BY PowerGrows
<1>3. ASSUME NEW l \in 1 .. m - 1
      PROVE  /\ n(l) \in Nat /\ n(l + 1) \in Nat
             /\ n(l) = 2 * n(l + 1) \/ n(l) = 2 * n(l + 1) - 1
  BY LevelFacts, Halved
<1>4. ASSUME NEW k \in Nat PROVE 2^k \in Nat /\ 2^(k + 1) = 2 * 2^k
  BY PowerIsPositive, PowerDoubles
<1> HIDE DEF n
<1>5. Nat \subseteq S
  <2>1. 0 \in S
    BY <1>1, <1>2
  <2>2. ASSUME NEW k \in Nat, k \in S PROVE k + 1 \in S
    <3> SUFFICES ASSUME m - (k + 1) >= 1 PROVE n(m - (k + 1)) <= 2^(k + 1)
      OBVIOUS
    <3>1. m - (k + 1) \in 1 .. m - 1 /\ (m - (k + 1)) + 1 = m - k /\ m - k >= 1
      BY <1>1
    <3>2. n(m - k) <= 2^k
      BY <2>2, <3>1
    <3>3. /\ n(m - (k + 1)) \in Nat /\ n(m - k) \in Nat
          /\ n(m - (k + 1)) = 2 * n(m - k) \/ n(m - (k + 1)) = 2 * n(m - k) - 1
      BY <1>3, <3>1
    <3> QED
      BY <1>4, <3>2, <3>3
  <2> HIDE DEF S
  <2> QED
    BY <2>1, <2>2, NatSetInduction
<1>6. ASSUME m # 2 PROVE Nat \subseteq T
  <2>1. 0 \in T
    <3>1. m - 1 \in 2 .. m - 1
      <4> HIDE DEF m
      <4> QED
        BY <1>1, <1>6
    <3>2. \A l \in 2 .. m - 1 : n(l) > 1
      BY DEF n, Count, TreeOver, Stacked
    <3> HIDE DEF m
    <3> QED
      BY <1>1, <1>2, <3>1, <3>2
  <2>2. ASSUME NEW k \in Nat, k \in T PROVE k + 1 \in T
    <3> SUFFICES ASSUME m - 1 - (k + 1) >= 1 PROVE n(m - 1 - (k + 1)) > 2^(k + 1)
      OBVIOUS
    <3> DEFINE l == m - 1 - (k + 1)
    <3>1. l \in 1 .. m - 1 /\ l + 1 = m - 1 - k /\ m - 1 - k >= 1
      BY <1>1
    <3>2. n(l + 1) > 2^k
      BY <2>2, <3>1
    <3> HIDE DEF l
    <3>3. /\ n(l) \in Nat /\ n(l + 1) \in Nat
          /\ n(l) = 2 * n(l + 1) \/ n(l) = 2 * n(l + 1) - 1
      BY <1>3, <3>1
    <3>4. n(l) > 2^(k + 1)
      BY <1>4, <3>2, <3>3
    <3> QED
      BY <3>4 DEF l
  <2> HIDE DEF T
  <2> QED
    BY <2>1, <2>2, NatSetInduction
<1>7. n(1) = Len(leaves)
  BY DEF n, Count, Nodes
<1>8. n(1) <= 2^(m - 1)
  <2>1. m - 1 \in S
    BY <1>1, <1>5
  <2>2. m - (m - 1) = 1 /\ m - (m - 1) >= 1
    BY <1>1
  <2> QED
    BY <2>1, <2>2
<1>9. m = 2 \/ n(1) > 2^(m - 2)
  <2> SUFFICES ASSUME m # 2 PROVE n(1) > 2^(m - 2)
    OBVIOUS
  <2>1. m - 2 \in T
    BY <1>1, <1>6
  <2>2. m - 1 - (m - 2) = 1 /\ m - 1 - (m - 2) >= 1
    BY <1>1
  <2> QED
    BY <2>1, <2>2
<1>10. n(1) \in Nat
  BY <1>1, <1>3
<1> QED
  BY <1>7, <1>8, <1>9, <1>10

-----------------------------------------------------------------------------
(***************************************************************************)
(* What hashes tell.                                                       *)
(***************************************************************************)

\* Hashes of pairs without collisions: the pair can be told from the hash, which is
\* never zero.
Injective ==
    /\ \A a, b, c, d : hash(a, b) = hash(c, d) => a = c /\ b = d
    /\ \A a, b : hash(a, b) # ZERO_HASH

\* The leaves are no padding.
Hashed(leaves) == \A i \in 1 .. Len(leaves) : leaves[i].hash # ZERO_HASH

\* Only the padding has a zero hash.
LEMMA NodesAreHashed ==
    ASSUME Injective, NEW leaves, NEW tree, TreeOver(tree, leaves), Hashed(leaves),
           NEW l \in 1 .. Len(tree), NEW i \in 1 .. Count(tree, leaves, l)
    PROVE  tree[l][i].hash # ZERO_HASH
<1>1. tree[l][i] = Nodes(tree, leaves, l)[i]
  BY AnyLevel
<1>2. Len(tree) \in Nat
  BY TopFacts
<1>3. CASE l = 1
  BY <1>1, <1>3 DEF Hashed, Nodes, Count
<1>4. CASE l # 1
  <2>1. l - 1 \in 1 .. Len(tree) - 1 /\ (l - 1) + 1 = l
    BY <1>2, <1>4
  <2>2. Joins(tree[l][i], tree[l - 1], i)
    BY <2>1, Above
  <2> QED
    BY <2>2 DEF Joins, Injective
<1> QED
  BY <1>3, <1>4

\* Below nodes of the same hashes are nodes of the same hashes, and as many of them.
LEMMA SameHashesBelow ==
    ASSUME Injective,
           NEW leaves, NEW tree, TreeOver(tree, leaves), Hashed(leaves),
           NEW others, NEW other, TreeOver(other, others), Hashed(others),
           Len(other) = Len(tree), NEW l \in 1 .. Len(tree) - 1,
           Count(other, others, l + 1) = Count(tree, leaves, l + 1),
           \A i \in 1 .. Count(tree, leaves, l + 1) : other[l + 1][i].hash = tree[l + 1][i].hash
    PROVE  /\ Count(other, others, l) = Count(tree, leaves, l)
           /\ \A i \in 1 .. Count(tree, leaves, l) : other[l][i].hash = tree[l][i].hash
<1> DEFINE up == Count(tree, leaves, l + 1)
           n == Count(tree, leaves, l)
           o == Count(other, others, l)
<1>0. l \in 1 .. Len(tree) /\ l \in 1 .. Len(other) /\ l \in 1 .. Len(other) - 1
  BY LevelFacts
<1>1. /\ up \in Nat \ {0} /\ n \in Nat \ {0} /\ o \in Nat \ {0}
      /\ n = 2 * up \/ n = 2 * up - 1
      /\ o = 2 * up \/ o = 2 * up - 1
      /\ Len(tree[l]) = 2 * up /\ Len(other[l]) = 2 * up
  <2>1. /\ up \in Nat \ {0} /\ n \in Nat \ {0} /\ Len(tree[l]) = 2 * up
        /\ n = 2 * up \/ n = 2 * up - 1
    BY LevelFacts, Halved
  <2>2. l \in 1 .. Len(other) - 1 /\ up = Count(other, others, l + 1)
    OBVIOUS
  <2>3. /\ o \in Nat \ {0} /\ Len(other[l]) = 2 * Count(other, others, l + 1)
        /\ o = 2 * Count(other, others, l + 1) \/ o = 2 * Count(other, others, l + 1) - 1
    BY <2>2, LevelFacts, Halved
  <2> HIDE DEF up, n, o
  <2> QED
    BY <2>1, <2>2, <2>3
<1>2. ASSUME NEW i \in 1 .. up
      PROVE  /\ other[l][2 * i - 1].hash = tree[l][2 * i - 1].hash
             /\ other[l][2 * i].hash = tree[l][2 * i].hash
  <2>1. Joins(tree[l + 1][i], tree[l], i) /\ Joins(other[l + 1][i], other[l], i)
    BY <1>2, Above
  <2>2. hash(other[l][2 * i - 1].hash, other[l][2 * i].hash)
            = hash(tree[l][2 * i - 1].hash, tree[l][2 * i].hash)
    BY <1>2, <2>1 DEF Joins
  <2> QED
    BY <2>2 DEF Injective
<1>3. ASSUME NEW j \in 1 .. 2 * up PROVE other[l][j].hash = tree[l][j].hash
  <2>1. PICK i \in 1 .. up : j = 2 * i - 1 \/ j = 2 * i
    <3>1. (j + 1) \div 2 \in 1 .. up
      BY <1>1
    <3>2. j = 2 * ((j + 1) \div 2) - 1 \/ j = 2 * ((j + 1) \div 2)
      OBVIOUS
    <3> QED
      BY <3>1, <3>2
  <2> QED
    BY <1>2, <2>1
\* The last of the nodes below may be missing in both or in none.
<1>4. tree[l][2 * up].hash = ZERO_HASH <=> n = 2 * up - 1
  <2>1. n = 2 * up => tree[l][2 * up].hash # ZERO_HASH
    BY <1>0, <1>1, NodesAreHashed
  <2>2. n = 2 * up - 1 => tree[l][2 * up] = zero
    <3>1. \A i \in 1 .. Len(tree[l]) : i > n => tree[l][i] = zero
      BY LevelFacts
    <3> HIDE DEF up, n
    <3> QED
      BY <1>1, <3>1
  <2> HIDE DEF up, n
  <2> QED
    BY <1>1, <2>1, <2>2 DEF zero
<1>5. other[l][2 * up].hash = ZERO_HASH <=> o = 2 * up - 1
  <2>1. o = 2 * up => other[l][2 * up].hash # ZERO_HASH
    BY <1>0, <1>1, NodesAreHashed
  <2>2. o = 2 * up - 1 => other[l][2 * up] = zero
    <3>1. \A i \in 1 .. Len(other[l]) : i > o => other[l][i] = zero
      BY <1>0, LevelFacts
    <3> HIDE DEF up, o
    <3>2. o = 2 * up - 1 => 2 * up \in 1 .. Len(other[l]) /\ 2 * up > o
      BY <1>1
    <3> QED
      BY <3>1, <3>2
  <2> HIDE DEF up, o
  <2> QED
    BY <1>1, <2>1, <2>2 DEF zero
<1> HIDE DEF up, n, o
<1>6. other[l][2 * up].hash = tree[l][2 * up].hash
  BY <1>1, <1>3
<1>7. o = n
  BY <1>1, <1>4, <1>5, <1>6
<1>8. \A i \in 1 .. n : i \in 1 .. 2 * up
  BY <1>1
<1> QED
  BY <1>3, <1>7, <1>8 DEF n, o

\* The root of a tree of given depth tells the hashes of its leaves.
LEMMA RootTellsLeaves ==
    ASSUME Injective,
           NEW leaves, NEW tree, TreeOver(tree, leaves), Hashed(leaves),
           NEW others, NEW other, TreeOver(other, others), Hashed(others),
           Len(other) = Len(tree), root(other).hash = root(tree).hash
    PROVE  /\ Len(others) = Len(leaves)
           /\ \A i \in 1 .. Len(leaves) : others[i].hash = leaves[i].hash
<1> DEFINE m == Len(tree)
           Same(l) == /\ Count(other, others, l) = Count(tree, leaves, l)
                      /\ \A i \in 1 .. Count(tree, leaves, l) :
                             other[l][i].hash = tree[l][i].hash
           S == {k \in Nat : m - k >= 1 => Same(m - k)}
<1>1. m \in Nat /\ m >= 2
  BY TopFacts
<1>2. Same(m)
  <2>1. /\ Count(tree, leaves, m) = 1 /\ root(tree) = tree[m][1]
        /\ Count(other, others, m) = 1 /\ root(other) = other[m][1]
    BY TopFacts
  <2>2. \A i \in 1 .. 1 : i = 1
    OBVIOUS
  <2> HIDE DEF m
  <2> QED
    BY <2>1, <2>2
<1>3. ASSUME NEW l \in 1 .. m - 1, Same(l + 1) PROVE Same(l)
  BY <1>3, SameHashesBelow
<1> HIDE DEF Same
<1>4. Nat \subseteq S
  <2> HIDE DEF m
  <2>1. 0 \in S
    BY <1>1, <1>2
  <2>2. ASSUME NEW k \in Nat, k \in S PROVE k + 1 \in S
    <3> SUFFICES ASSUME m - (k + 1) >= 1 PROVE Same(m - (k + 1))
      OBVIOUS
    <3>1. m - (k + 1) \in 1 .. m - 1 /\ (m - (k + 1)) + 1 = m - k /\ m - k >= 1
      BY <1>1
    <3>2. Same(m - k)
      BY <2>2, <3>1
    <3> QED
      BY <1>3, <3>1, <3>2
  <2> HIDE DEF S
  <2> QED
    BY <2>1, <2>2, NatSetInduction
<1>5. Same(1)
  <2> HIDE DEF m
  <2>1. m - 1 \in S /\ m - (m - 1) = 1
    BY <1>1, <1>4
  <2> QED
    BY <2>1
<1>6. 1 \in 1 .. Len(tree) /\ 1 \in 1 .. Len(other)
  BY <1>1
<1>7. /\ \A i \in 1 .. Count(tree, leaves, 1) : tree[1][i] = Nodes(tree, leaves, 1)[i]
      /\ \A i \in 1 .. Count(other, others, 1) : other[1][i] = Nodes(other, others, 1)[i]
  BY <1>6, AnyLevel
<1> QED
  BY <1>5, <1>7 DEF Same, Count, Nodes

-----------------------------------------------------------------------------
(***************************************************************************)
(* Looking for a node.                                                     *)
(***************************************************************************)

\* What is found is one of the matches.
LEMMA FirstIsFound ==
    ASSUME NEW leaves, NEW tree, TreeOver(tree, leaves),
           NEW found \in SUBSET Places(tree), found # {}
    PROVE  \E l \in 1 .. Len(tree) : \E i \in 1 .. Len(tree[l]) :
               <<l, i>> \in found /\ FirstMatch(tree, found) = tree[l][i]
<1>1. Len(tree) \in Nat /\ DOMAIN tree = 1 .. Len(tree)
  BY IsSeqLen DEF TreeOver, Stacked
<1>2. ASSUME NEW at \in found
      PROVE  /\ at = <<at[1], at[2]>> /\ at[1] \in 1 .. Len(tree)
             /\ Len(tree[at[1]]) \in Nat /\ at[2] \in 1 .. Len(tree[at[1]])
  <2>1. PICK l \in 1 .. Len(tree) : at \in {l} \X DOMAIN tree[l]
    BY <1>1 DEF Places
  <2>2. IsSeq(tree[l])
    BY AnyLevel
  <2>3. Len(tree[l]) \in Nat /\ DOMAIN tree[l] = 1 .. Len(tree[l])
    BY <2>2, IsSeqLen
  <2> QED
    BY <2>1, <2>3
<1> DEFINE Levels == {l \in 0 .. Len(tree) : \E at \in found : at[1] = l}
<1>3. PICK l \in Levels : \A k \in Levels : k <= l
  <2>1. Levels # {}
    BY <1>1, <1>2
  <2> HIDE DEF Levels
  <2>2. Levels \in SUBSET (0 .. Len(tree))
    BY DEF Levels
  <2> QED
    BY <1>1, <2>1, <2>2, Greatest
<1>4. l \in 1 .. Len(tree) /\ Len(tree[l]) \in Nat
  BY <1>2, <1>3
<1> DEFINE Spots == {i \in 0 .. Len(tree[l]) : <<l, i>> \in found}
<1>5. PICK i \in Spots : \A j \in Spots : j <= i
  <2>1. Spots # {}
    <3>1. PICK at \in found : at[1] = l
      BY <1>3
    <3>2. at = <<l, at[2]>> /\ at[2] \in 0 .. Len(tree[l])
      BY <1>2, <1>4, <3>1
    <3> QED
      BY <3>2
  <2> HIDE DEF Spots
  <2>2. Spots \in SUBSET (0 .. Len(tree[l]))
    BY DEF Spots
  <2> QED
    BY <1>4, <2>1, <2>2, Greatest
<1> DEFINE First(a) == \A b \in found : b[1] < a[1] \/ (b[1] = a[1] /\ b[2] <= a[2])
           first == CHOOSE a \in found : First(a)
<1>6. First(<<l, i>>)
  <2> SUFFICES ASSUME NEW b \in found PROVE b[1] < l \/ (b[1] = l /\ b[2] <= i)
    OBVIOUS
  <2>1. b[1] \in Levels /\ b[1] \in Nat /\ l \in Nat
    BY <1>1, <1>2, <1>3
  <2>2. b[1] <= l
    BY <1>3, <2>1
  <2>3. b[1] = l => b[2] \in Spots
    <3>1. b[1] = l => b = <<l, b[2]>> /\ b[2] \in 0 .. Len(tree[l])
      BY <1>2, <1>4
    <3> QED
      BY <3>1
  <2> HIDE DEF Levels, Spots
  <2> QED
    BY <1>5, <2>1, <2>2, <2>3
<1>7. first \in found
  <2>1. <<l, i>> \in found
    BY <1>5
  <2> HIDE DEF First
  <2> QED
    BY <1>6, <2>1
<1>8. FirstMatch(tree, found) = tree[first[1]][first[2]]
  BY DEF FirstMatch
<1> HIDE DEF first
<1> QED
  BY <1>2, <1>7, <1>8

\* Every node has the hash of its halves.
Paired(leaves) == \A i \in 1 .. Len(leaves) : leaves[i].hash = hash(leaves[i].left, leaves[i].right)

LEMMA PairedIsHashed ==
    ASSUME Injective, NEW leaves, Paired(leaves)
    PROVE  Hashed(leaves)
BY DEF Injective, Paired, Hashed

LEMMA NodesArePaired ==
    ASSUME NEW leaves, NEW tree, TreeOver(tree, leaves), Paired(leaves),
           NEW l \in 1 .. Len(tree), NEW i \in 1 .. Count(tree, leaves, l)
    PROVE  tree[l][i].hash = hash(tree[l][i].left, tree[l][i].right)
<1>1. tree[l][i] = Nodes(tree, leaves, l)[i]
  BY AnyLevel
<1>2. Len(tree) \in Nat
  BY TopFacts
<1>3. CASE l = 1
  BY <1>1, <1>3 DEF Paired, Nodes, Count
<1>4. CASE l # 1
  <2>1. l - 1 \in 1 .. Len(tree) - 1 /\ (l - 1) + 1 = l
    BY <1>2, <1>4
  <2>2. Joins(tree[l][i], tree[l - 1], i)
    BY <2>1, Above
  <2> QED
    BY <2>2 DEF Joins
<1> QED
  BY <1>3, <1>4

\* A node found by its hash has the halves looked for, wherever in the tree it is.
LEMMA FoundNode ==
    ASSUME Injective, NEW leaves, NEW tree, TreeOver(tree, leaves), Paired(leaves),
           NEW l \in 1 .. Len(tree), NEW i \in 1 .. Count(tree, leaves, l)
    PROVE  /\ getNode(tree, tree[l][i].hash).hash = tree[l][i].hash
           /\ getNode(tree, tree[l][i].hash).left = tree[l][i].left
           /\ getNode(tree, tree[l][i].hash).right = tree[l][i].right
<1> DEFINE h == tree[l][i].hash
           found == {at \in Places(tree) : tree[at[1]][at[2]].hash = h}
<1>1. Len(tree) \in Nat /\ DOMAIN tree = 1 .. Len(tree)
  BY IsSeqLen DEF TreeOver, Stacked
<1>2. <<l, i>> \in Places(tree)
  <2>1. /\ IsSeq(tree[l]) /\ Count(tree, leaves, l) \in Nat
        /\ Count(tree, leaves, l) <= Len(tree[l])
    BY AnyLevel
  <2>2. Len(tree[l]) \in Nat /\ DOMAIN tree[l] = 1 .. Len(tree[l])
    BY <2>1, IsSeqLen
  <2>3. i \in DOMAIN tree[l]
    BY <2>1, <2>2
  <2> QED
    BY <1>1, <2>3 DEF Places
<1>3. <<l, i>> \in found /\ found \in SUBSET Places(tree)
  BY <1>2
<1>4. getNode(tree, h) = FirstMatch(tree, found)
  BY DEF getNode
<1>5. \A at \in found : tree[at[1]][at[2]].hash = h
  OBVIOUS
<1> HIDE DEF found
<1>6. PICK k \in 1 .. Len(tree) : \E j \in 1 .. Len(tree[k]) :
          <<k, j>> \in found /\ FirstMatch(tree, found) = tree[k][j]
  <2>1. found # {}
    BY <1>3
  <2> QED
    BY <1>3, <2>1, FirstIsFound
<1>7. PICK j \in 1 .. Len(tree[k]) :
          <<k, j>> \in found /\ FirstMatch(tree, found) = tree[k][j]
  BY <1>6
<1>8. tree[k][j].hash = h
  BY <1>5, <1>7
<1>9. h # ZERO_HASH
  BY PairedIsHashed, NodesAreHashed
<1>10. j \in 1 .. Count(tree, leaves, k)
  <2>1. Count(tree, leaves, k) \in Nat /\ IsSeq(tree[k])
    BY AnyLevel
  <2>2. j > Count(tree, leaves, k) => tree[k][j] = zero
    BY AnyLevel
  <2>3. tree[k][j] # zero
    BY <1>8, <1>9 DEF zero
  <2> HIDE DEF h
  <2> QED
    BY <2>1, <2>2, <2>3
<1>11. hash(tree[k][j].left, tree[k][j].right) = hash(tree[l][i].left, tree[l][i].right)
  <2>1. tree[k][j].hash = hash(tree[k][j].left, tree[k][j].right)
    BY <1>10, NodesArePaired
  <2>2. tree[l][i].hash = hash(tree[l][i].left, tree[l][i].right)
    BY NodesArePaired
  <2> QED
    BY <1>8, <2>1, <2>2
<1>12. tree[k][j].left = tree[l][i].left /\ tree[k][j].right = tree[l][i].right
  BY <1>11 DEF Injective
<1> QED
  BY <1>4, <1>7, <1>8, <1>12

-----------------------------------------------------------------------------
(***************************************************************************)
(* The proof of a result.                                                  *)
(***************************************************************************)

Pairs(left, right, m) == [k \in 1 .. m |-> <<left[k], right[k]>>]

\* Pairs one after the other.
LEMMA FlattenPairs ==
    ASSUME NEW m \in Nat \ {0}, NEW left, NEW right
    PROVE  LET flat == FlattenSeq(Pairs(left, right, m))
           IN  /\ IsSeq(flat) /\ Len(flat) = 2 * m
               /\ \A k \in 1 .. m : flat[2 * k - 1] = left[k] /\ flat[2 * k] = right[k]
<1> DEFINE pairs == Pairs(left, right, m)
<1>0. pairs = [k \in 1 .. m |-> <<left[k], right[k]>>]
  BY DEF Pairs
<1> HIDE DEF pairs
<1>1. Len(pairs) = m
  <2>1. pairs = [k \in 1 .. m |-> pairs[k]]
    BY <1>0
  <2> QED
    BY <2>1, FunctionIsSeq
<1>2. ASSUME NEW k \in 1 .. m
      PROVE  /\ IsSeq(pairs[k]) /\ Len(pairs[k]) = 2
             /\ pairs[k][1] = left[k] /\ pairs[k][2] = right[k]
  <2>1. pairs[k] = <<left[k], right[k]>>
    BY <1>0
  <2> QED
    BY <2>1, PairIsSeq
<1> DEFINE Flattens(f, n) ==
               f = [i \in 1 .. n |-> IF i = 1 THEN pairs[i] ELSE f[i - 1] \o pairs[i]]
           S == {n \in Nat : \E f : Flattens(f, n)}
<1>3. Nat \subseteq S
  <2>1. 0 \in S
    <3> DEFINE f == [i \in 1 .. 0 |-> pairs]
    <3>1. Flattens(f, 0)
      OBVIOUS
    <3> HIDE DEF f, Flattens
    <3> QED
      BY <3>1
  <2>2. ASSUME NEW n \in Nat, n \in S PROVE n + 1 \in S
    <3>1. PICK f : f = [i \in 1 .. n |-> IF i = 1 THEN pairs[i] ELSE f[i - 1] \o pairs[i]]
      BY <2>2
    <3> DEFINE v == IF n + 1 = 1 THEN pairs[n + 1] ELSE f[n] \o pairs[n + 1]
               g == [i \in 1 .. n + 1 |-> IF i = n + 1 THEN v ELSE f[i]]
    <3>2. ASSUME NEW i \in 1 .. n + 1
          PROVE  g[i] = IF i = 1 THEN pairs[i] ELSE g[i - 1] \o pairs[i]
      <4>1. CASE i = n + 1
        <5>1. g[i] = v
          BY <4>1
        <5>2. n + 1 # 1 => g[n] = f[n]
          <6> HIDE DEF v
          <6>1. n + 1 # 1 => n \in 1 .. n + 1 /\ n # n + 1
            OBVIOUS
          <6> QED
            BY <6>1
        <5>3. i - 1 = n
          BY <4>1
        <5> HIDE DEF g
        <5> QED
          BY <4>1, <5>1, <5>2, <5>3
      <4>2. CASE i # n + 1
        <5>1. i \in 1 .. n /\ (i # 1 => i - 1 \in 1 .. n + 1 /\ i - 1 # n + 1)
          BY <4>2
        <5> HIDE DEF v
        <5>2. g[i] = f[i] /\ (i # 1 => g[i - 1] = f[i - 1])
          BY <4>2, <5>1
        <5>3. f[i] = IF i = 1 THEN pairs[i] ELSE f[i - 1] \o pairs[i]
          BY <3>1, <5>1
        <5> HIDE DEF g
        <5> QED
          BY <5>2, <5>3
      <4> QED
        BY <4>1, <4>2
    <3>3. g = [i \in 1 .. n + 1 |-> g[i]]
      OBVIOUS
    <3> HIDE DEF g
    <3>4. Flattens(g, n + 1)
      BY <3>2, <3>3
    <3> HIDE DEF Flattens
    <3> QED
      BY <3>4
  <2> HIDE DEF S
  <2> QED
    BY <2>1, <2>2, NatSetInduction
<1> DEFINE flatten[i \in 1 .. Len(pairs)] ==
               IF i = 1 THEN pairs[i] ELSE flatten[i - 1] \o pairs[i]
<1>4. FlattenSeq(pairs) = flatten[m]
  BY <1>1 DEF FlattenSeq
<1>5. flatten = [i \in 1 .. m |-> IF i = 1 THEN pairs[i] ELSE flatten[i - 1] \o pairs[i]]
  <2>1. \E f : f = [i \in 1 .. m |-> IF i = 1 THEN pairs[i] ELSE f[i - 1] \o pairs[i]]
    BY <1>3
  <2> QED
    BY <1>1, <2>1
<1> HIDE DEF flatten, S
<1> DEFINE Flat(n) == /\ IsSeq(flatten[n]) /\ Len(flatten[n]) = 2 * n
                      /\ \A k \in 1 .. n : /\ flatten[n][2 * k - 1] = left[k]
                                           /\ flatten[n][2 * k] = right[k]
           T == {n \in Nat : n \in 1 .. m => Flat(n)}
<1> HIDE DEF Flat
<1>6. 0 \in T
  OBVIOUS
<1>7. ASSUME NEW n \in Nat, n \in T PROVE n + 1 \in T
  <2> SUFFICES ASSUME n + 1 \in 1 .. m PROVE Flat(n + 1)
    OBVIOUS
  <2>1. CASE n = 0
    <3>1. flatten[1] = pairs[1] /\ 1 \in 1 .. m
      BY <1>5
    <3>2. /\ IsSeq(flatten[1]) /\ Len(flatten[1]) = 2
          /\ flatten[1][1] = left[1] /\ flatten[1][2] = right[1]
      BY <1>2, <3>1
    <3>3. \A k \in 1 .. 1 : k = 1 /\ 2 * k - 1 = 1 /\ 2 * k = 2
      OBVIOUS
    <3>4. Len(flatten[1]) = 2 * 1
      BY <3>2
    <3>5. Flat(1)
      BY <3>1, <3>2, <3>3, <3>4 DEF Flat
    <3> QED
      BY <2>1, <3>5
  <2>2. CASE n # 0
    <3>1. n \in 1 .. m /\ n + 1 # 1 /\ (n + 1) - 1 = n
      BY <2>2
    <3>0. Flat(n)
      BY <1>7, <3>1
    <3>2. /\ IsSeq(flatten[n]) /\ Len(flatten[n]) = 2 * n
          /\ \A k \in 1 .. n : /\ flatten[n][2 * k - 1] = left[k]
                               /\ flatten[n][2 * k] = right[k]
      BY <3>0 DEF Flat
    <3>3. flatten[n + 1] = flatten[n] \o pairs[n + 1]
      BY <1>5, <3>1
    <3>4. /\ IsSeq(pairs[n + 1]) /\ Len(pairs[n + 1]) = 2
          /\ pairs[n + 1][1] = left[n + 1] /\ pairs[n + 1][2] = right[n + 1]
      BY <1>2
    <3>5. /\ IsSeq(flatten[n + 1]) /\ Len(flatten[n + 1]) = 2 * n + 2
          /\ \A i \in 1 .. 2 * n + 2 :
                 flatten[n + 1][i] = IF i <= 2 * n THEN flatten[n][i] ELSE pairs[n + 1][i - 2 * n]
      <4>1. /\ IsSeq(flatten[n] \o pairs[n + 1])
            /\ Len(flatten[n] \o pairs[n + 1]) = Len(flatten[n]) + Len(pairs[n + 1])
            /\ \A i \in 1 .. Len(flatten[n]) + Len(pairs[n + 1]) :
                   (flatten[n] \o pairs[n + 1])[i] =
                       IF i <= Len(flatten[n]) THEN flatten[n][i]
                       ELSE pairs[n + 1][i - Len(flatten[n])]
        BY <3>2, <3>4, ConcatIsSeq
      <4> QED
        BY <3>2, <3>3, <3>4, <4>1
    <3>6. ASSUME NEW k \in 1 .. n + 1
          PROVE  /\ flatten[n + 1][2 * k - 1] = left[k]
                 /\ flatten[n + 1][2 * k] = right[k]
      <4>1. CASE k = n + 1
        <5>1. 2 * k - 1 = 2 * n + 1 /\ 2 * k = 2 * n + 2
          BY <4>1
        <5>2. /\ 2 * n + 1 \in 1 .. 2 * n + 2 /\ 2 * n + 2 \in 1 .. 2 * n + 2
              /\ ~(2 * n + 1 <= 2 * n) /\ ~(2 * n + 2 <= 2 * n)
              /\ (2 * n + 1) - 2 * n = 1 /\ (2 * n + 2) - 2 * n = 2
          OBVIOUS
        <5>3. /\ flatten[n + 1][2 * n + 1] = left[n + 1]
              /\ flatten[n + 1][2 * n + 2] = right[n + 1]
          BY <3>4, <3>5, <5>2
        <5> QED
          BY <4>1, <5>1, <5>3
      <4>2. CASE k # n + 1
        <5>1. /\ 2 * k - 1 \in 1 .. 2 * n + 2 /\ 2 * k \in 1 .. 2 * n + 2
              /\ 2 * k - 1 <= 2 * n /\ 2 * k <= 2 * n /\ k \in 1 .. n
          BY <4>2
        <5> QED
          BY <3>2, <3>5, <5>1
      <4> QED
        BY <4>1, <4>2
    <3>7. Len(flatten[n + 1]) = 2 * (n + 1)
      BY <3>5
    <3> QED
      BY <3>5, <3>6, <3>7 DEF Flat
  <2> QED
    BY <2>1, <2>2
<1>8. Nat \subseteq T
  <2> HIDE DEF T
  <2> QED
    BY <1>6, <1>7, NatSetInduction
<1>9. Flat(m)
  <2>1. m \in T /\ m \in 1 .. m
    BY <1>8
  <2> QED
    BY <2>1
<1> QED
  BY <1>4, <1>9 DEF Flat, pairs

\* The last node of a level, the last but the padding.
LastOf(tree, leaves, l) == tree[l][Count(tree, leaves, l)]

\* It is below the last one of the level above, on the right unless that is padding.
LEMMA LastBelow ==
    ASSUME Injective, NEW leaves, NEW tree, TreeOver(tree, leaves), Paired(leaves),
           NEW l \in 1 .. Len(tree) - 1
    PROVE  RightUnlessZero(LastOf(tree, leaves, l + 1).left, LastOf(tree, leaves, l + 1).right)
               = LastOf(tree, leaves, l).hash
<1> DEFINE i == Count(tree, leaves, l + 1)
           n == Count(tree, leaves, l)
<1>1. i \in Nat \ {0} /\ n \in Nat \ {0} /\ l \in 1 .. Len(tree)
  BY LevelFacts
<1>2. Joins(tree[l + 1][i], tree[l], i)
  <2>1. i \in 1 .. Count(tree, leaves, l + 1)
    BY <1>1
  <2> QED
    BY <2>1, Above
<1>3. n = 2 * i \/ n = 2 * i - 1
  BY Halved
<1>4. tree[l][n].hash # ZERO_HASH
  <2>1. n \in 1 .. Count(tree, leaves, l)
    BY <1>1
  <2> QED
    BY <1>1, <2>1, PairedIsHashed, NodesAreHashed
<1>5. n = 2 * i - 1 => tree[l][2 * i].hash = ZERO_HASH
  <2>1. Len(tree[l]) = 2 * i /\ \A j \in 1 .. Len(tree[l]) : j > n => tree[l][j] = zero
    BY LevelFacts
  <2> HIDE DEF i, n
  <2>2. n = 2 * i - 1 => 2 * i \in 1 .. Len(tree[l]) /\ 2 * i > n
    BY <1>1, <2>1
  <2>3. n = 2 * i - 1 => tree[l][2 * i] = zero
    BY <2>1, <2>2
  <2> QED
    BY <2>3 DEF zero
<1>6. /\ LastOf(tree, leaves, l + 1) = tree[l + 1][i]
      /\ LastOf(tree, leaves, l) = tree[l][n]
  BY DEF LastOf
<1> HIDE DEF i, n
<1> QED
  BY <1>2, <1>3, <1>4, <1>5, <1>6 DEF Joins, RightUnlessZero

\* A node with the halves of another.
Alike(node, other) ==
    node.hash = other.hash /\ node.left = other.left /\ node.right = other.right

\* The way from the root by hash goes down the last nodes of the levels.
ResultPath(tree, node) ==
    node = [k \in 1 .. depth(tree) |->
               IF k = 1 THEN root(tree)
               ELSE getNode(tree, RightUnlessZero(node[k - 1].left, node[k - 1].right))]

LEMMA PathIsLast ==
    ASSUME Injective, NEW leaves, NEW tree, TreeOver(tree, leaves), Paired(leaves),
           NEW node, ResultPath(tree, node)
    PROVE  \A k \in 1 .. Len(tree) : Alike(node[k], LastOf(tree, leaves, Len(tree) - k + 1))
<1> DEFINE m == Len(tree)
           last(l) == LastOf(tree, leaves, l)
           S == {n \in Nat : n + 1 \in 1 .. m => Alike(node[n + 1], last(m - n))}
<1>1. m \in Nat /\ m >= 2 /\ Count(tree, leaves, m) = 1 /\ root(tree) = tree[m][1]
  BY TopFacts
<1>2. 0 \in S
  <2>1. node[1] = root(tree)
    BY <1>1 DEF ResultPath, depth
  <2> QED
    BY <1>1, <2>1 DEF Alike, LastOf
<1>3. ASSUME NEW n \in Nat, n \in S PROVE n + 1 \in S
  <2> SUFFICES ASSUME (n + 1) + 1 \in 1 .. m PROVE Alike(node[(n + 1) + 1], last(m - (n + 1)))
    OBVIOUS
  <2> DEFINE l == m - (n + 1)
             k == (n + 1) + 1
  <2>1. /\ l \in 1 .. m - 1 /\ l \in 1 .. m /\ l + 1 = m - n /\ n + 1 \in 1 .. m
        /\ k # 1 /\ k - 1 = n + 1 /\ k \in 1 .. m
    BY <1>1
  <2>2. Alike(node[n + 1], last(l + 1))
    BY <1>3, <2>1
  <2>3. node[k] = getNode(tree, RightUnlessZero(node[n + 1].left, node[n + 1].right))
    <3> HIDE DEF k, l
    <3> QED
      BY <2>1 DEF ResultPath, depth
  <2> HIDE DEF l, k
  <2>4. RightUnlessZero(last(l + 1).left, last(l + 1).right) = last(l).hash
    BY <2>1, LastBelow
  <2>5. node[k] = getNode(tree, last(l).hash)
    BY <2>2, <2>3, <2>4 DEF Alike
  <2>6. Alike(getNode(tree, last(l).hash), last(l))
    <3>1. Count(tree, leaves, l) \in 1 .. Count(tree, leaves, l)
      BY <2>1, AnyLevel
    <3> QED
      BY <2>1, <3>1, FoundNode DEF Alike, LastOf
  <2> QED
    BY <2>5, <2>6 DEF l, k
<1>4. Nat \subseteq S
  <2> HIDE DEF S
  <2> QED
    BY <1>2, <1>3, NatSetInduction
<1>5. ASSUME NEW k \in 1 .. m PROVE Alike(node[k], last(m - k + 1))
  <2>1. k - 1 \in S
    BY <1>4
  <2>2. (k - 1) + 1 = k /\ m - (k - 1) = m - k + 1
    BY <1>1
  <2> HIDE DEF last
  <2> QED
    BY <2>1, <2>2
<1> QED
  BY <1>5

\* There is such a way.
LEMMA PathExists ==
    ASSUME Injective, NEW leaves, NEW tree, TreeOver(tree, leaves), Paired(leaves)
    PROVE  \E node : ResultPath(tree, node)
<1> DEFINE m == Len(tree)
           last(l) == LastOf(tree, leaves, l)
           node == [k \in 1 .. m |-> IF k = 1 THEN root(tree) ELSE getNode(tree, last(m - k + 1).hash)]
<1>1. m \in Nat /\ m >= 2 /\ Count(tree, leaves, m) = 1 /\ root(tree) = tree[m][1]
  BY TopFacts
<1>2. ASSUME NEW k \in 1 .. m PROVE Alike(node[k], last(m - k + 1))
  <2>1. CASE k = 1
    <3>1. m - k + 1 = m /\ node[k] = root(tree)
      BY <1>1, <2>1
    <3> HIDE DEF node
    <3> QED
      BY <1>1, <3>1 DEF Alike, LastOf
  <2>2. CASE k # 1
    <3> DEFINE l == m - k + 1
    <3>1. l \in 1 .. m
      BY <1>1
    <3>2. node[k] = getNode(tree, last(l).hash)
      BY <2>2
    <3> HIDE DEF l, node
    <3>3. Count(tree, leaves, l) \in 1 .. Count(tree, leaves, l)
      BY <3>1, AnyLevel
    <3>4. Alike(getNode(tree, last(l).hash), last(l))
      BY <3>1, <3>3, FoundNode DEF Alike, LastOf
    <3> QED
      BY <3>2, <3>4 DEF l
  <2> QED
    BY <2>1, <2>2
<1>3. ASSUME NEW k \in 1 .. m, k # 1
      PROVE  last(m - k + 1).hash = RightUnlessZero(node[k - 1].left, node[k - 1].right)
  <2> DEFINE l == m - k + 1
  <2>1. l \in 1 .. m - 1 /\ k - 1 \in 1 .. m /\ m - (k - 1) + 1 = l + 1
    BY <1>1, <1>3
  <2>2. Alike(node[k - 1], last(m - (k - 1) + 1))
    BY <1>2, <2>1
  <2> HIDE DEF node, l
  <2>3. RightUnlessZero(last(l + 1).left, last(l + 1).right) = last(l).hash
    BY <2>1, LastBelow
  <2>4. Alike(node[k - 1], last(l + 1))
    BY <2>1, <2>2
  <2>5. last(l).hash = RightUnlessZero(node[k - 1].left, node[k - 1].right)
    BY <2>3, <2>4 DEF Alike
  <2> QED
    BY <2>5 DEF l
<1>4. \A k \in 1 .. m :
          node[k] = IF k = 1 THEN root(tree)
                    ELSE getNode(tree, RightUnlessZero(node[k - 1].left, node[k - 1].right))
  BY <1>3
<1>5. node = [k \in 1 .. m |-> node[k]]
  OBVIOUS
<1> HIDE DEF node
<1>6. ResultPath(tree, node)
  BY <1>4, <1>5 DEF ResultPath, depth
<1> QED
  BY <1>6

-----------------------------------------------------------------------------
(***************************************************************************)
(* The proof of a word of code.                                            *)
(***************************************************************************)

\* On the way up from slot, turn i comes from the left half.
IsLeft(slot, i) == (slot \div 2^(i - 1)) % 2 = 0

\* The hashes from the leaf up.
LeadsUp(up, leaf, slot, proof) ==
    up = [i \in 0 .. Len(proof) |->
             IF i = 0 THEN leaf
             ELSE IF (slot \div 2^(i - 1)) % 2 = 0 THEN hash(up[i - 1], proof[i])
             ELSE hash(proof[i], up[i - 1])]

LEMMA UpExists ==
    ASSUME NEW leaf, NEW slot, NEW proof, Len(proof) \in Nat
    PROVE  \E up : LeadsUp(up, leaf, slot, proof)
<1> DEFINE Turn(i, below) == IF (slot \div 2^(i - 1)) % 2 = 0 THEN hash(below, proof[i])
                             ELSE hash(proof[i], below)
           Climbs(f, n) == f = [i \in 0 .. n |-> IF i = 0 THEN leaf ELSE Turn(i, f[i - 1])]
           S == {n \in Nat : \E f : Climbs(f, n)}
<1>1. 0 \in S
  <2> DEFINE f == [i \in 0 .. 0 |-> leaf]
  <2>1. Climbs(f, 0)
    <3> HIDE DEF Turn
    <3> QED
      OBVIOUS
  <2> HIDE DEF f, Climbs
  <2> QED
    BY <2>1
<1>2. ASSUME NEW n \in Nat, n \in S PROVE n + 1 \in S
  <2> HIDE DEF Turn
  <2>1. PICK f : Climbs(f, n)
    BY <1>2
  <2> DEFINE v == Turn(n + 1, f[n])
             g == [i \in 0 .. n + 1 |-> IF i = n + 1 THEN v ELSE f[i]]
  <2>2. ASSUME NEW i \in 0 .. n + 1
        PROVE  g[i] = IF i = 0 THEN leaf ELSE Turn(i, g[i - 1])
    <3>1. CASE i = n + 1
      <4>1. n \in 0 .. n + 1 /\ n # n + 1 /\ i - 1 = n /\ i # 0
        BY <3>1
      <4>2. g[n] = f[n] /\ g[i] = Turn(n + 1, f[n])
        BY <3>1, <4>1
      <4> HIDE DEF g
      <4> QED
        BY <3>1, <4>1, <4>2
    <3>2. CASE i # n + 1
      <4>1. i \in 0 .. n /\ (i # 0 => i - 1 \in 0 .. n + 1 /\ i - 1 # n + 1)
        BY <3>2
      <4> HIDE DEF v
      <4>2. g[i] = f[i] /\ (i # 0 => g[i - 1] = f[i - 1])
        BY <3>2, <4>1
      <4>3. f[i] = IF i = 0 THEN leaf ELSE Turn(i, f[i - 1])
        BY <2>1, <4>1
      <4> HIDE DEF g
      <4> QED
        BY <4>2, <4>3
    <3> QED
      BY <3>1, <3>2
  <2>3. g = [i \in 0 .. n + 1 |-> g[i]]
    OBVIOUS
  <2> HIDE DEF g
  <2>4. Climbs(g, n + 1)
    BY <2>2, <2>3
  <2> HIDE DEF Climbs
  <2> QED
    BY <2>4
<1>3. Nat \subseteq S
  <2> HIDE DEF S
  <2> QED
    BY <1>1, <1>2, NatSetInduction
<1>4. PICK f : Climbs(f, Len(proof))
  BY <1>3
<1>5. LeadsUp(f, leaf, slot, proof)
  BY <1>4 DEF LeadsUp
<1> QED
  BY <1>5

\* The root is the last of them.
LEMMA ProvenRootIsUp ==
    ASSUME NEW leaf, NEW slot, NEW proof, Len(proof) \in Nat
    PROVE  \E up : /\ LeadsUp(up, leaf, slot, proof)
                   /\ ProvenRoot(leaf, slot, proof) = up[Len(proof)]
<1> DEFINE up[i \in 0 .. Len(proof)] ==
               IF i = 0 THEN leaf
               ELSE IF (slot \div 2^(i - 1)) % 2 = 0 THEN hash(up[i - 1], proof[i])
               ELSE hash(proof[i], up[i - 1])
<1>1. ProvenRoot(leaf, slot, proof) = up[Len(proof)]
  BY DEF ProvenRoot
<1>2. LeadsUp(up, leaf, slot, proof)
  <2>1. \E f : f = [i \in 0 .. Len(proof) |->
                    IF i = 0 THEN leaf
                    ELSE IF (slot \div 2^(i - 1)) % 2 = 0 THEN hash(f[i - 1], proof[i])
                    ELSE hash(proof[i], f[i - 1])]
    BY UpExists DEF LeadsUp
  <2> QED
    BY <2>1 DEF LeadsUp
<1> HIDE DEF up
<1> QED
  BY <1>1, <1>2

\* Step by step.
LEMMA UpSteps ==
    ASSUME NEW leaf, NEW slot, NEW proof, Len(proof) \in Nat, NEW up,
           LeadsUp(up, leaf, slot, proof)
    PROVE  /\ up[0] = leaf
           /\ \A i \in 1 .. Len(proof) :
                  up[i] = IF IsLeft(slot, i) THEN hash(up[i - 1], proof[i])
                          ELSE hash(proof[i], up[i - 1])
<1>1. up[0] = leaf
  BY DEF LeadsUp
<1>2. ASSUME NEW i \in 1 .. Len(proof)
      PROVE  up[i] = IF IsLeft(slot, i) THEN hash(up[i - 1], proof[i])
                     ELSE hash(proof[i], up[i - 1])
  <2>1. i \in 0 .. Len(proof) /\ i # 0
    OBVIOUS
  <2> QED
    BY <2>1 DEF LeadsUp, IsLeft
<1> QED
  BY <1>1, <1>2

\* A proof leads from different leaves to different roots.
LEMMA RootTellsLeaf ==
    ASSUME Injective, NEW leaf, NEW other, NEW slot, NEW proof, Len(proof) \in Nat,
           ProvenRoot(leaf, slot, proof) = ProvenRoot(other, slot, proof)
    PROVE  leaf = other
<1> DEFINE n == Len(proof)
<1>1. PICK up : LeadsUp(up, leaf, slot, proof) /\ ProvenRoot(leaf, slot, proof) = up[n]
  BY ProvenRootIsUp
<1>2. PICK vp : LeadsUp(vp, other, slot, proof) /\ ProvenRoot(other, slot, proof) = vp[n]
  BY ProvenRootIsUp
<1>3. /\ up[0] = leaf
      /\ \A i \in 1 .. n :
             up[i] = IF IsLeft(slot, i) THEN hash(up[i - 1], proof[i]) ELSE hash(proof[i], up[i - 1])
  BY <1>1, UpSteps
<1>4. /\ vp[0] = other
      /\ \A i \in 1 .. n :
             vp[i] = IF IsLeft(slot, i) THEN hash(vp[i - 1], proof[i]) ELSE hash(proof[i], vp[i - 1])
  BY <1>2, UpSteps
<1> HIDE DEF n
<1> DEFINE S == {k \in Nat : k <= n => up[n - k] = vp[n - k]}
<1>5. n \in Nat
  BY DEF n
<1>6. 0 \in S
  <2>1. n - 0 = n
    BY <1>5
  <2>2. up[n] = vp[n]
    BY <1>1, <1>2
  <2> QED
    BY <2>1, <2>2
<1>7. ASSUME NEW k \in Nat, k \in S PROVE k + 1 \in S
  <2> SUFFICES ASSUME k + 1 <= n PROVE up[n - (k + 1)] = vp[n - (k + 1)]
    OBVIOUS
  <2>1. n - k \in 1 .. n /\ (n - k) - 1 = n - (k + 1) /\ k <= n
    BY <1>5
  <2>2. up[n - k] = vp[n - k]
    BY <1>7, <2>1
  <2> DEFINE i == n - k
  <2> HIDE DEF i
  <2>3. up[i] = IF IsLeft(slot, i) THEN hash(up[i - 1], proof[i]) ELSE hash(proof[i], up[i - 1])
    BY <1>3, <2>1 DEF i
  <2>4. vp[i] = IF IsLeft(slot, i) THEN hash(vp[i - 1], proof[i]) ELSE hash(proof[i], vp[i - 1])
    BY <1>4, <2>1 DEF i
  <2>6. up[i] = vp[i]
    BY <2>2 DEF i
  <2>7. ASSUME IsLeft(slot, i) PROVE up[i - 1] = vp[i - 1]
    <3>1. hash(up[i - 1], proof[i]) = hash(vp[i - 1], proof[i])
      BY <2>3, <2>4, <2>6, <2>7
    <3> QED
      BY <3>1 DEF Injective
  <2>8. ASSUME ~IsLeft(slot, i) PROVE up[i - 1] = vp[i - 1]
    <3>1. hash(proof[i], up[i - 1]) = hash(proof[i], vp[i - 1])
      BY <2>3, <2>4, <2>6, <2>8
    <3> QED
      BY <3>1 DEF Injective
  <2>5. up[i - 1] = vp[i - 1]
    BY <2>7, <2>8
  <2> QED
    BY <2>1, <2>5 DEF i
<1>8. Nat \subseteq S
  <2> HIDE DEF S
  <2> QED
    BY <1>6, <1>7, NatSetInduction
<1>9. n \in S /\ n - n = 0
  BY <1>5, <1>8
<1> QED
  BY <1>3, <1>4, <1>5, <1>9

\* Slots are halved on the way up.
LEMMA Quotients ==
    ASSUME NEW s \in Nat, NEW i \in Nat
    PROVE  s \div 2^i \in Nat /\ s \div 2^(i + 1) = (s \div 2^i) \div 2
<1> DEFINE n == 2^i
<1>1. n \in Nat \ {0} /\ 2^(i + 1) = 2 * n
  BY PowerIsPositive, PowerDoubles
<1> HIDE DEF n
<1>2. s \div n \in Nat /\ s \div (2 * n) = (s \div n) \div 2
  BY <1>1
<1> QED
  BY <1>1, <1>2 DEF n

\* The node above a slot.
LEMMA SlotAbove ==
    ASSUME NEW leaves, NEW tree, TreeOver(tree, leaves),
           NEW slot \in 0 .. Len(leaves) - 1, NEW l \in 1 .. Len(tree)
    PROVE  slot \div 2^(l - 1) + 1 \in 1 .. Count(tree, leaves, l)
<1> DEFINE q(i) == slot \div 2^i
           n(k) == Count(tree, leaves, k)
           S == {k \in Nat : k + 1 \in 1 .. Len(tree) => q(k) + 1 \in 1 .. n(k + 1)}
<1>1. Len(tree) \in Nat /\ Len(leaves) \in Nat /\ slot \in Nat
  BY TopFacts, DepthOfCount
<1>2. \A k \in Nat : q(k) \in Nat /\ q(k + 1) = q(k) \div 2
  BY <1>1, Quotients
<1>3. q(0) = slot
  BY <1>1, PowerGrows
<1>4. n(1) = Len(leaves)
  BY DEF Count, Nodes
<1>5. ASSUME NEW k \in 1 .. Len(tree) - 1
      PROVE  n(k) \in Nat /\ n(k + 1) = (n(k) + 1) \div 2
  BY LevelFacts
<1> HIDE DEF q, n
<1>6. 0 \in S
  BY <1>1, <1>3, <1>4
<1>7. ASSUME NEW k \in Nat, k \in S PROVE k + 1 \in S
  <2> SUFFICES ASSUME (k + 1) + 1 \in 1 .. Len(tree) PROVE q(k + 1) + 1 \in 1 .. n((k + 1) + 1)
    OBVIOUS
  <2>1. k + 1 \in 1 .. Len(tree) - 1 /\ k + 1 \in 1 .. Len(tree)
    BY <1>1
  <2>2. q(k) + 1 \in 1 .. n(k + 1)
    BY <1>7, <2>1
  <2>3. n(k + 1) \in Nat /\ n((k + 1) + 1) = (n(k + 1) + 1) \div 2
    BY <1>5, <2>1
  <2>4. q(k) \in Nat /\ q(k + 1) = q(k) \div 2
    BY <1>2
  <2> QED
    BY <2>2, <2>3, <2>4
<1>8. Nat \subseteq S
  <2> HIDE DEF S
  <2> QED
    BY <1>6, <1>7, NatSetInduction
<1>9. l - 1 \in S /\ (l - 1) + 1 = l
  BY <1>1, <1>8
<1> QED
  BY <1>9 DEF q, n

\* The proof of a slot leads to the root.
LEMMA ProofLeadsToRoot ==
    ASSUME NEW leaves, NEW tree, TreeOver(tree, leaves), NEW slot \in 0 .. Len(leaves) - 1
    PROVE  /\ Len(calculateProof(tree, slot)) = Len(tree) - 1
           /\ ProvenRoot(tree[1][slot + 1].hash, slot, calculateProof(tree, slot)) = root(tree).hash
<1> DEFINE proof == calculateProof(tree, slot)
           m == Len(tree)
           q(i) == slot \div 2^i
<1>1. m \in Nat /\ m >= 2 /\ root(tree) = tree[m][1] /\ Count(tree, leaves, m) = 1
  BY TopFacts
<1>2. Len(leaves) \in Nat /\ slot \in Nat
  BY DepthOfCount
<1>3. \A l \in 1 .. m - 1 : proof[l] = tree[l][siblingOf(q(l - 1)) + 1].hash
  BY <1>1 DEF calculateProof, depth
<1>4. Len(proof) = m - 1
  <2>1. proof = [i \in 1 .. m - 1 |-> proof[i]]
    BY DEF calculateProof, depth
  <2>2. m - 1 \in Nat
    BY <1>1
  <2> HIDE DEF proof, m
  <2> QED
    BY <2>1, <2>2, FunctionIsSeq
<1>5. \A i \in Nat : q(i) \in Nat /\ q(i + 1) = q(i) \div 2
  BY <1>2, Quotients
<1>6. q(0) = slot
  BY <1>2, PowerGrows
<1>7. \A l \in 1 .. m : q(l - 1) + 1 \in 1 .. Count(tree, leaves, l)
  BY SlotAbove
<1>8. PICK up : /\ up[0] = tree[1][slot + 1].hash
                /\ \A i \in 1 .. Len(proof) :
                       up[i] = IF IsLeft(slot, i) THEN hash(up[i - 1], proof[i])
                               ELSE hash(proof[i], up[i - 1])
                /\ ProvenRoot(tree[1][slot + 1].hash, slot, proof) = up[Len(proof)]
  <2> DEFINE leaf == tree[1][slot + 1].hash
  <2> HIDE DEF proof, leaf
  <2>1. Len(proof) \in Nat
    BY <1>1, <1>4
  <2>2. PICK up : LeadsUp(up, leaf, slot, proof) /\ ProvenRoot(leaf, slot, proof) = up[Len(proof)]
    BY <2>1, ProvenRootIsUp
  <2>3. /\ up[0] = leaf
        /\ \A i \in 1 .. Len(proof) :
               up[i] = IF IsLeft(slot, i) THEN hash(up[i - 1], proof[i])
                       ELSE hash(proof[i], up[i - 1])
    BY <2>1, <2>2, UpSteps
  <2> HIDE DEF q
  <2> QED
    BY <2>2, <2>3 DEF leaf
<1> HIDE DEF proof, q
<1> DEFINE S == {i \in Nat : i + 1 \in 1 .. m => up[i] = tree[i + 1][q(i) + 1].hash}
<1>9. 0 \in S
  BY <1>6, <1>8
<1>10. ASSUME NEW k \in Nat, k \in S PROVE k + 1 \in S
  <2> SUFFICES ASSUME (k + 1) + 1 \in 1 .. m
               PROVE  up[k + 1] = tree[(k + 1) + 1][q(k + 1) + 1].hash
    OBVIOUS
  <2> DEFINE l == k + 1
             j == q(k + 1)
             p == q(k)
  <2>1. l \in 1 .. m - 1 /\ l - 1 = k /\ l \in 1 .. m /\ l + 1 \in 1 .. m /\ (l + 1) - 1 = l
    BY <1>1
  <2>2. up[k] = tree[l][p + 1].hash
    BY <1>10, <2>1
  <2>3. p \in Nat /\ j \in Nat /\ j = p \div 2
    <3>1. k \in Nat /\ k + 1 \in Nat
      OBVIOUS
    <3>2. q(k) \in Nat /\ q(k + 1) \in Nat /\ q(k + 1) = q(k) \div 2
      BY <1>5, <3>1
    <3> QED
      BY <3>2
  <2>4. j + 1 \in 1 .. Count(tree, leaves, l + 1)
    BY <1>7, <2>1
  <2>5. up[l] = IF p % 2 = 0 THEN hash(up[k], proof[l]) ELSE hash(proof[l], up[k])
    <3>1. IsLeft(slot, l) <=> p % 2 = 0
      BY <2>1 DEF IsLeft, q
    <3> HIDE DEF q
    <3> QED
      BY <1>4, <1>8, <2>1, <3>1
  <2>6. proof[l] = tree[l][siblingOf(p) + 1].hash
    BY <1>3, <2>1
  <2> HIDE DEF l, j, p
  <2>7. Joins(tree[l + 1][j + 1], tree[l], j + 1)
    BY <2>1, <2>4, Above
  <2>8. tree[l + 1][j + 1].hash = hash(tree[l][2 * j + 1].hash, tree[l][2 * j + 2].hash)
    <3>1. 2 * (j + 1) - 1 = 2 * j + 1 /\ 2 * (j + 1) = 2 * j + 2
      BY <2>3
    <3> QED
      BY <2>7, <3>1 DEF Joins
  <2>9. CASE p % 2 = 0
    <3>1. p + 1 = 2 * j + 1 /\ siblingOf(p) + 1 = 2 * j + 2
      BY <2>3, <2>9 DEF siblingOf
    <3> QED
      BY <2>2, <2>5, <2>6, <2>8, <2>9, <3>1 DEF l, j
  <2>10. CASE p % 2 # 0
    <3>1. p + 1 = 2 * j + 2 /\ siblingOf(p) + 1 = 2 * j + 1
      BY <2>3, <2>10 DEF siblingOf
    <3> QED
      BY <2>2, <2>5, <2>6, <2>8, <2>10, <3>1 DEF l, j
  <2> QED
    BY <2>9, <2>10
<1>11. Nat \subseteq S
  <2> HIDE DEF S
  <2> QED
    BY <1>9, <1>10, NatSetInduction
<1>12. up[m - 1] = tree[m][q(m - 1) + 1].hash
  <2>1. m - 1 \in S /\ (m - 1) + 1 = m /\ m \in 1 .. m
    BY <1>1, <1>11
  <2> HIDE DEF m
  <2> QED
    BY <2>1
<1>13. q(m - 1) + 1 = 1
  <2>1. q(m - 1) + 1 \in 1 .. Count(tree, leaves, m)
    BY <1>1, <1>7
  <2> QED
    BY <1>1, <2>1
<1> QED
  BY <1>1, <1>4, <1>8, <1>12, <1>13 DEF proof

\* The logarithm that verifyCode takes.
LEMMA Logarithm ==
    ASSUME NEW n \in Nat, NEW d \in Nat, 2^d <= n, n < 2^(d + 1)
    PROVE  (CHOOSE e \in 0 .. n : 2^e <= n /\ n < 2^(e + 1)) = d
<1>1. 2^d \in Nat /\ 2^d >= d + 1
  BY PowerIsPositive, PowerGrows
<1>2. d \in 0 .. n
  BY <1>1
<1>3. ASSUME NEW e \in 0 .. n, 2^e <= n, n < 2^(e + 1) PROVE e = d
  <2>1. /\ 2^e \in Nat /\ 2^(e + 1) \in Nat /\ 2^(d + 1) \in Nat
        /\ 2^(e + 1) = 2 * 2^e /\ 2^(d + 1) = 2 * 2^d
    BY PowerIsPositive, PowerDoubles
  <2>2. e < d => 2 * 2^e <= 2^d
    BY PowerGrows
  <2>3. d < e => 2 * 2^d <= 2^e
    BY PowerGrows
  <2>4. ~(e < d)
    BY <1>1, <1>3, <2>1, <2>2
  <2>5. ~(d < e)
    BY <1>1, <1>3, <2>1, <2>3
  <2> QED
    BY <2>4, <2>5
<1> QED
  BY <1>2, <1>3

-----------------------------------------------------------------------------
(***************************************************************************)
(* A tree cut down.                                                        *)
(***************************************************************************)

\* The leaves that are left.
LEMMA FirstLeaves ==
    ASSUME NEW leaves, NEW tree, TreeOver(tree, leaves), NEW d \in 1 .. Len(tree) - 1
    PROVE  LET first == SubSeq(tree[1], 1, LeavesBelow(d))
           IN  /\ IsSeq(first) /\ Len(first) = 2^(d - 1)
               /\ 2^(d - 1) \in Nat \ {0} /\ 2^(d - 1) <= Len(leaves)
               /\ \A i \in 1 .. 2^(d - 1) : first[i] = tree[1][i]
<1> DEFINE m == Len(tree)
           n == 2^(d - 1)
<1>1. m \in Nat /\ m >= 2
  BY TopFacts
<1>2. d - 1 \in Nat /\ m - 2 \in Nat /\ d - 1 <= m - 2
  BY <1>1
<1>3. n \in Nat \ {0} /\ 2^(m - 2) \in Nat
  BY <1>2, PowerIsPositive
<1>4. n <= 2^(m - 2)
  <2>1. d - 1 < m - 2 => 2 * 2^(d - 1) <= 2^(m - 2)
    BY <1>2, PowerGrows
  <2>2. d - 1 < m - 2 \/ d - 1 = m - 2
    BY <1>2
  <2> HIDE DEF m
  <2> QED
    BY <1>3, <2>1, <2>2
<1>5. Len(leaves) \in Nat /\ n <= Len(leaves)
  <2>1. Len(leaves) \in Nat /\ (m = 2 \/ Len(leaves) > 2^(m - 2))
    BY DepthOfCount
  <2>2. Len(leaves) >= 1
    <3>1. Count(tree, leaves, 1) \in Nat \ {0}
      BY <1>1, AnyLevel
    <3> QED
      BY <3>1 DEF Count, Nodes
  <2>3. m = 2 => n = 1
    <3>1. m = 2 => d - 1 = 0
      BY <1>2
    <3> QED
      BY <3>1, PowerGrows
  <2> HIDE DEF m, n
  <2> QED
    BY <1>3, <1>4, <2>1, <2>2, <2>3
<1>6. IsSeq(tree[1]) /\ Len(leaves) <= Len(tree[1]) /\ Len(tree[1]) \in Nat
  <2>1. 1 \in 1 .. Len(tree)
    BY <1>1
  <2>2. IsSeq(tree[1]) /\ Count(tree, leaves, 1) <= Len(tree[1])
    BY <2>1, AnyLevel
  <2> QED
    BY <2>2, IsSeqLen DEF Count, Nodes
<1> HIDE DEF n
<1>7. n \in 0 .. Len(tree[1])
  BY <1>3, <1>5, <1>6
<1>8. /\ IsSeq(SubSeq(tree[1], 1, n)) /\ Len(SubSeq(tree[1], 1, n)) = n
      /\ \A i \in 1 .. n : SubSeq(tree[1], 1, n)[i] = tree[1][i]
  BY <1>6, <1>7, PrefixIsSeq
<1> QED
  BY <1>3, <1>5, <1>8 DEF n, LeavesBelow

\* Cut to a depth of two or more, a tree is the left subtree with that depth, level by
\* level.
LEMMA CutIsLeftSubtree ==
    ASSUME NEW leaves, NEW tree, TreeOver(tree, leaves), NEW d \in 2 .. Len(tree) - 1
    PROVE  /\ Len(scaleDown(tree, d)) = d
           /\ \A l \in 1 .. d :
                  /\ Len(scaleDown(tree, d)[l]) = 2^(d - l)
                  /\ \A i \in 1 .. 2^(d - l) : scaleDown(tree, d)[l][i].hash = tree[l][i].hash
<1> DEFINE m == Len(tree)
           first == SubSeq(tree[1], 1, LeavesBelow(d))
           cut == recal(first)
           n(l) == Count(cut, first, l)
           N(l) == Count(tree, leaves, l)
<1>1. m \in Nat /\ m >= 2 /\ d \in Nat /\ d \in 1 .. m - 1 /\ d < m /\ d - 1 \in Nat
  BY TopFacts
<1>2. scaleDown(tree, d) = cut
  BY <1>1 DEF scaleDown, depth
<1>3. /\ IsSeq(first) /\ Len(first) = 2^(d - 1)
      /\ 2^(d - 1) \in Nat \ {0} /\ 2^(d - 1) <= Len(leaves)
      /\ \A i \in 1 .. 2^(d - 1) : first[i] = tree[1][i]
  BY <1>1, FirstLeaves
<1> HIDE DEF first
<1>4. TreeOver(cut, first)
  BY <1>3, RecalShape
<1> HIDE DEF cut
<1>5. Len(cut) = d
  <2> DEFINE c == Len(cut)
  <2>1. c \in Nat /\ c >= 2
    BY <1>4, TopFacts
  <2>2. 2^(d - 1) <= 2^(c - 1) /\ (c = 2 \/ 2^(d - 1) > 2^(c - 2))
    BY <1>3, <1>4, DepthOfCount
  <2> HIDE DEF c
  <2>3. c - 1 \in Nat /\ c - 2 \in Nat
    BY <2>1
  <2>4. 2^(c - 1) \in Nat /\ 2^(c - 2) \in Nat
    BY <2>3, PowerIsPositive
  <2>5. 2^(c - 1) \in Nat \ {0} /\ 2^(d - 1) \in Nat \ {0}
    BY <1>1, <2>3, PowerIsPositive
  <2>6. c - 1 < d - 1 => 2 * 2^(c - 1) <= 2^(d - 1)
    BY <1>1, <2>3, PowerGrows
  <2>7. d - 1 < c - 2 => 2 * 2^(d - 1) <= 2^(c - 2)
    BY <1>1, <2>3, PowerGrows
  <2>8. ~(c - 1 < d - 1)
    BY <2>2, <2>5, <2>6
  <2>9. c = 2 \/ ~(d - 1 < c - 2)
    BY <2>2, <2>4, <2>5, <2>7
  <2>10. c = 2 \/ d - 1 # c - 2
    BY <2>2, <2>4
  <2>11. c = d
    BY <1>1, <2>1, <2>8, <2>9, <2>10
  <2> QED
    BY <2>11 DEF c
\* Level by level, the cut tree has the nodes on the left of the whole one.
<1> DEFINE Left(l) == /\ n(l) = 2^(d - l) /\ n(l) <= N(l)
                      /\ \A i \in 1 .. n(l) : cut[l][i].hash = tree[l][i].hash
           S == {k \in Nat : k + 1 \in 1 .. d => Left(k + 1)}
<1>6. 0 \in S
  <2>1. n(1) = Len(first) /\ N(1) = Len(leaves) /\ 1 \in 1 .. Len(cut)
    BY <1>1, <1>5 DEF Count, Nodes
  <2>2. \A i \in 1 .. n(1) : cut[1][i] = first[i]
    <3>1. \A i \in 1 .. n(1) : cut[1][i] = Nodes(cut, first, 1)[i]
      BY <1>4, <2>1, AnyLevel
    <3> QED
      BY <3>1 DEF Nodes
  <2> HIDE DEF n, N
  <2>3. Left(1)
    BY <1>3, <2>1, <2>2
  <2> QED
    BY <2>3
<1>7. ASSUME NEW k \in Nat, k \in S PROVE k + 1 \in S
  <2> SUFFICES ASSUME (k + 1) + 1 \in 1 .. d PROVE Left((k + 1) + 1)
    OBVIOUS
  <2> DEFINE l == k + 1
             w == d - (l + 1)
  <2>1. /\ l \in 1 .. Len(cut) - 1 /\ l \in 1 .. m - 1 /\ l \in 1 .. d
        /\ w \in Nat /\ d - l = w + 1
    BY <1>1, <1>5
  <2>2. Left(l)
    BY <1>7, <2>1
  <2>3. 2^w \in Nat \ {0} /\ 2^(w + 1) = 2 * 2^w
    BY <2>1, PowerIsPositive, PowerDoubles
  <2>4. /\ n(l) \in Nat /\ n(l + 1) \in Nat /\ n(l + 1) = (n(l) + 1) \div 2
        /\ \A i \in 1 .. n(l + 1) : Joins(cut[l + 1][i], cut[l], i)
    <3> HIDE DEF l
    <3>1. /\ Count(cut, first, l) \in Nat /\ Count(cut, first, l + 1) \in Nat
          /\ Count(cut, first, l + 1) = (Count(cut, first, l) + 1) \div 2
      BY <1>4, <2>1, LevelFacts
    <3>2. \A i \in 1 .. Count(cut, first, l + 1) : Joins(cut[l + 1][i], cut[l], i)
      BY <1>4, <2>1, Above
    <3> QED
      BY <3>1, <3>2
  <2>5. /\ N(l) \in Nat /\ N(l + 1) \in Nat /\ N(l + 1) = (N(l) + 1) \div 2
        /\ \A i \in 1 .. N(l + 1) : Joins(tree[l + 1][i], tree[l], i)
    BY <2>1, LevelFacts, Above
  <2> HIDE DEF l, n, N
  <2>6. n(l) = 2^(w + 1) /\ n(l) <= N(l) /\ \A i \in 1 .. n(l) : cut[l][i].hash = tree[l][i].hash
    BY <2>1, <2>2
  <2> HIDE DEF w
  <2>7. n(l) = 2 * 2^w
    BY <2>3, <2>6
  <2>8. n(l + 1) = 2^w
    <3> DEFINE p == 2^w
    <3> HIDE DEF p
    <3>1. p \in Nat /\ n(l) = 2 * p /\ n(l + 1) = (n(l) + 1) \div 2
      BY <2>3, <2>4, <2>7 DEF p
    <3>2. n(l + 1) = p
      BY <3>1
    <3> QED
      BY <3>2 DEF p
  <2>9. n(l + 1) <= N(l + 1)
    BY <2>4, <2>5, <2>6
  <2>10. ASSUME NEW i \in 1 .. n(l + 1) PROVE cut[l + 1][i].hash = tree[l + 1][i].hash
    <3>1. i \in 1 .. N(l + 1)
      BY <2>4, <2>5, <2>9
    <3>2. Joins(cut[l + 1][i], cut[l], i) /\ Joins(tree[l + 1][i], tree[l], i)
      BY <2>4, <2>5, <3>1
    <3>3. 2 * i - 1 \in 1 .. n(l) /\ 2 * i \in 1 .. n(l)
      <4>1. n(l) = 2 * n(l + 1)
        BY <2>7, <2>8
      <4> DEFINE u == n(l + 1)
      <4>2. u \in Nat /\ i \in 1 .. u /\ n(l) = 2 * u
        BY <2>4, <4>1
      <4> HIDE DEF u
      <4> QED
        BY <4>2
    <3>4. /\ cut[l][2 * i - 1].hash = tree[l][2 * i - 1].hash
          /\ cut[l][2 * i].hash = tree[l][2 * i].hash
      BY <2>6, <3>3
    <3> QED
      BY <3>2, <3>4 DEF Joins
  <2> QED
    BY <2>8, <2>9, <2>10 DEF l, w
<1>8. Nat \subseteq S
  <2> HIDE DEF S
  <2> QED
    BY <1>6, <1>7, NatSetInduction
<1>9. ASSUME NEW l \in 1 .. d PROVE Left(l)
  <2> HIDE DEF Left
  <2>1. l - 1 \in S
    <3> HIDE DEF S
    <3> QED
      BY <1>1, <1>8
  <2>2. (l - 1) + 1 = l
    BY <1>1
  <2> QED
    BY <2>1, <2>2
\* No level of the cut tree is padded.
<1>10. ASSUME NEW l \in 1 .. d PROVE Len(cut[l]) = 2^(d - l)
  <2>1. CASE l = d
    <3>1. Len(cut[d]) = 1 /\ 2^0 = 1
      BY <1>4, <1>5, TopFacts, PowerGrows
    <3>2. d - l = 0
      BY <1>1, <2>1
    <3> QED
      BY <2>1, <3>1, <3>2
  <2>2. CASE l # d
    <3> DEFINE k == l + 1
               w == d - k
    <3>1. l \in 1 .. Len(cut) - 1 /\ k \in 1 .. d /\ w \in Nat /\ d - l = w + 1
      BY <1>1, <1>5, <2>2
    <3>2. Len(cut[l]) = 2 * Count(cut, first, l + 1)
      BY <1>4, <3>1, LevelFacts
    <3>3. Count(cut, first, k) = 2^w
      <4> HIDE DEF N
      <4> QED
        BY <1>9, <3>1
    <3>4. 2^(w + 1) = 2 * 2^w
      BY <3>1, PowerDoubles
    <3> HIDE DEF w
    <3> QED
      BY <3>1, <3>2, <3>3, <3>4
  <2> QED
    BY <2>1, <2>2
<1>11. \A l \in 1 .. d : \A i \in 1 .. 2^(d - l) : cut[l][i].hash = tree[l][i].hash
  <2> HIDE DEF n, N
  <2> QED
    BY <1>9
<1> QED
  BY <1>2, <1>5, <1>10, <1>11

=============================================================================
