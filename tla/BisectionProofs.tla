--------------------------- MODULE BisectionProofs ---------------------------
(***************************************************************************)
(* What the stored paths, witness and flags of a dispute mean, for trees   *)
(* of every depth and shape.                                               *)
(***************************************************************************)
EXTENDS Bisection, VerificationGameProofs, RecursionProofs

-----------------------------------------------------------------------------
(***************************************************************************)
(* Levels of a tree.                                                       *)
(***************************************************************************)

\* Both halves of a hash are hashes.
LEMMA HalvesHash ==
    ASSUME NEW h \in Hash
    PROVE  Halves(h).left \in Hash /\ Halves(h).right \in Hash
BY HashAssumption DEF Halves, ComputationPath

\* A level has a hash for each half of each hash above.
LEMMA LevelBelowShape ==
    ASSUME NEW above \in Seq(Hash)
    PROVE  /\ LevelBelow(above) \in Seq(Hash)
           /\ Len(LevelBelow(above)) = 2 * Len(above)
           /\ \A i \in 1 .. Len(above) :
                  /\ LevelBelow(above)[2 * i - 1] = Halves(above[i]).left
                  /\ LevelBelow(above)[2 * i] = Halves(above[i]).right
<1> DEFINE below == LevelBelow(above)
           n == Len(above)
<1>1. n \in Nat /\ \A i \in 1 .. n : above[i] \in Hash
  BY LenProperties, ElementOfSeq
<1>2. ASSUME NEW i \in 1 .. 2 * n
      PROVE  below[i] \in Hash
  <2>1. (i + 1) \div 2 \in 1 .. n
    BY <1>1
  <2>2. above[(i + 1) \div 2] \in Hash
    BY <1>1, <2>1
  <2> QED
    BY <2>2, HalvesHash DEF LevelBelow
<1>3. below = [i \in 1 .. 2 * n |-> below[i]]
  BY DEF LevelBelow
<1>4. below \in [1 .. 2 * n -> Hash]
  BY <1>2, <1>3
<1>5. ASSUME NEW i \in 1 .. n
      PROVE  /\ below[2 * i - 1] = Halves(above[i]).left
             /\ below[2 * i] = Halves(above[i]).right
  <2>1. /\ 2 * i - 1 \in 1 .. 2 * n /\ 2 * i \in 1 .. 2 * n
        /\ ((2 * i - 1) + 1) \div 2 = i /\ (2 * i + 1) \div 2 = i
        /\ (2 * i - 1) % 2 = 1 /\ (2 * i) % 2 # 1
    BY <1>1
  <2> QED
    BY <2>1 DEF LevelBelow
<1>6. 2 * n \in Nat
  BY <1>1
<1> HIDE DEF below, n
<1>7. below \in Seq(Hash) /\ Len(below) = 2 * n
  BY <1>4, <1>6, SeqDef, LenProperties
<1> QED
  BY <1>5, <1>7 DEF below, n

\* Level 0 is the root, and every level follows from the one above.
LEMMA LevelShape ==
    ASSUME NEW root \in Hash
    PROVE  /\ Levels(root)[0] = <<root>>
           /\ \A k \in Nat : /\ Levels(root)[k] \in Seq(Hash)
                             /\ Levels(root)[k + 1] = LevelBelow(Levels(root)[k])
<1> DEFINE V == Seq(Hash)
           first == <<root>>
           step == [above \in V |-> LevelBelow(above)]
<1>1. first \in V
  OBVIOUS
<1>2. step \in [V -> V]
  BY LevelBelowShape
<1> HIDE DEF V, first, step
<1>3. PICK f \in [Nat -> V] : f[0] = first /\ \A n \in Nat : f[n + 1] = step[f[n]]
  <2>1. \A W : \A a \in W : \A g \in [W -> W] :
            \E f \in [Nat -> W] : f[0] = a /\ \A n \in Nat : f[n + 1] = g[f[n]]
    BY Iteration
  <2>2. \A a \in V : \A g \in [V -> V] :
            \E f \in [Nat -> V] : f[0] = a /\ \A n \in Nat : f[n + 1] = g[f[n]]
    BY <2>1
  <2>3. \A g \in [V -> V] :
            \E f \in [Nat -> V] : f[0] = first /\ \A n \in Nat : f[n + 1] = g[f[n]]
    BY <1>1, <2>2
  <2> QED
    BY <1>2, <2>3
<1>4. f = [k \in Nat |-> IF k = 0 THEN <<root>> ELSE LevelBelow(f[k - 1])]
  <2>1. ASSUME NEW k \in Nat, k # 0
        PROVE  f[k] = LevelBelow(f[k - 1])
    <3>1. k - 1 \in Nat /\ (k - 1) + 1 = k
      BY <2>1
    <3>2. f[k] = step[f[k - 1]] /\ f[k - 1] \in V
      BY <1>3, <3>1
    <3> QED
      BY <3>2 DEF step
  <2> QED
    BY <1>3, <2>1 DEF first
<1> DEFINE level[k \in Nat] == IF k = 0 THEN <<root>> ELSE LevelBelow(level[k - 1])
<1>5. Levels(root) = level
  BY DEF Levels
<1>6. level = [k \in Nat |-> IF k = 0 THEN <<root>> ELSE LevelBelow(level[k - 1])]
  BY <1>4
<1> HIDE DEF level
<1>7. level[0] = <<root>>
  BY <1>6
<1>8. ASSUME NEW k \in Nat PROVE level[k + 1] = LevelBelow(level[k])
  <2>1. k + 1 \in Nat /\ k + 1 # 0 /\ (k + 1) - 1 = k
    OBVIOUS
  <2>2. level[k + 1] = LevelBelow(level[(k + 1) - 1])
    BY <1>6, <2>1
  <2> QED
    BY <2>1, <2>2
<1> DEFINE S == {k \in Nat : level[k] \in V}
<1>9. 0 \in S
  BY <1>1, <1>7 DEF first
<1>10. ASSUME NEW k \in Nat, k \in S PROVE k + 1 \in S
  <2>1. level[k] \in V
    BY <1>10
  <2>2. level[k + 1] \in V
    BY <1>8, <2>1, LevelBelowShape DEF V
  <2> QED
    BY <2>2
<1> HIDE DEF S
<1>11. Nat \subseteq S
  BY <1>9, <1>10, NatSetInduction
<1> QED
  BY <1>5, <1>7, <1>8, <1>11 DEF S, V

\* Level k of all trees has the same length.
LEMMA LevelLength ==
    ASSUME NEW one \in Hash, NEW other \in Hash, NEW k \in Nat
    PROVE  Len(Levels(one)[k]) = Len(Levels(other)[k])
<1> DEFINE S == {n \in Nat : Len(Levels(one)[n]) = Len(Levels(other)[n])}
<1>1. 0 \in S
  <2>1. Levels(one)[0] = <<one>> /\ Levels(other)[0] = <<other>>
    BY LevelShape
  <2>2. Len(<<one>>) = 1 /\ Len(<<other>>) = 1
    OBVIOUS
  <2> QED
    BY <2>1, <2>2
<1>2. ASSUME NEW n \in Nat, n \in S PROVE n + 1 \in S
  <2>1. /\ Levels(one)[n] \in Seq(Hash) /\ Levels(one)[n + 1] = LevelBelow(Levels(one)[n])
        /\ Levels(other)[n] \in Seq(Hash) /\ Levels(other)[n + 1] = LevelBelow(Levels(other)[n])
    BY LevelShape
  <2>2. Len(LevelBelow(Levels(one)[n])) = 2 * Len(Levels(one)[n])
    BY <2>1, LevelBelowShape
  <2>3. Len(LevelBelow(Levels(other)[n])) = 2 * Len(Levels(other)[n])
    BY <2>1, LevelBelowShape
  <2> QED
    BY <1>2, <2>1, <2>2, <2>3
<1> HIDE DEF S
<1>3. Nat \subseteq S
  BY <1>1, <1>2, NatSetInduction
<1> QED
  BY <1>3 DEF S

-----------------------------------------------------------------------------
(***************************************************************************)
(* The right edge of a registered tree, which its result proof goes down.  *)
(***************************************************************************)
EdgeBelow(h) == IF h \in DOMAIN Open THEN RightUnlessZero(Open[h]) ELSE Zero

\* The node below a hash on the edge is a hash.
LEMMA EdgeBelowHash == \A h \in Hash : EdgeBelow(h) \in Hash
BY HashAssumption DEF EdgeBelow, RightUnlessZero, ComputationPath

\* RightEdge satisfies the equation it is defined by.
LEMMA RightEdgeEquation ==
    RightEdge = [n \in Nat |->
        IF n = 0 THEN [root \in Hash |-> root]
        ELSE [root \in Hash |-> IF root \in DOMAIN Open
                                THEN RightEdge[n - 1][RightUnlessZero(Open[root])]
                                ELSE Zero]]
<1> DEFINE V == [Hash -> Hash]
           Down(g) == [root \in Hash |-> IF root \in DOMAIN Open
                                         THEN g[RightUnlessZero(Open[root])] ELSE Zero]
           first == [root \in Hash |-> root]
           step == [g \in V |-> Down(g)]
<1>1. first \in V
  OBVIOUS
<1>2. step \in [V -> V]
  <2>1. ASSUME NEW g \in V PROVE Down(g) \in V
    <3>1. \A root \in DOMAIN Open : RightUnlessZero(Open[root]) \in Hash
      BY EdgeBelowHash, HashAssumption DEF EdgeBelow
    <3> QED
      BY <3>1, HashAssumption
  <2> QED
    BY <2>1
<1> HIDE DEF V, first, step
<1>3. PICK f \in [Nat -> V] : f[0] = first /\ \A n \in Nat : f[n + 1] = step[f[n]]
  BY <1>1, <1>2, Iteration
<1>4. f = [n \in Nat |->
        IF n = 0 THEN [root \in Hash |-> root]
        ELSE [root \in Hash |-> IF root \in DOMAIN Open
                                THEN f[n - 1][RightUnlessZero(Open[root])]
                                ELSE Zero]]
  <2>1. ASSUME NEW n \in Nat, n # 0 PROVE f[n] = Down(f[n - 1])
    <3>1. n - 1 \in Nat /\ (n - 1) + 1 = n
      BY <2>1
    <3>2. f[n] = step[f[n - 1]] /\ f[n - 1] \in V
      BY <1>3, <3>1
    <3> QED
      BY <3>2 DEF step
  <2> QED
    BY <1>3, <2>1 DEF first
<1> QED
  BY <1>4 DEF RightEdge

\* The edge goes down one node at a time.
LEMMA RightEdgeDown ==
    ASSUME NEW n \in Nat
    PROVE  \A root \in Hash : /\ RightEdge[0][root] = root
                              /\ RightEdge[n][root] \in Hash
                              /\ RightEdge[n + 1][root] = EdgeBelow(RightEdge[n][root])
<1> DEFINE Down(m) == \A root \in Hash : /\ RightEdge[m][root] \in Hash
                                         /\ RightEdge[m + 1][root] = EdgeBelow(RightEdge[m][root])
           S == {m \in Nat : Down(m)}
<1>1. \A root \in Hash : RightEdge[0][root] = root
  BY RightEdgeEquation
<1>2. ASSUME NEW m \in Nat
      PROVE  \A root \in Hash : RightEdge[m + 1][root] =
                 IF root \in DOMAIN Open THEN RightEdge[m][RightUnlessZero(Open[root])] ELSE Zero
  <2>1. m + 1 \in Nat /\ m + 1 # 0 /\ (m + 1) - 1 = m
    OBVIOUS
  <2>2. RightEdge[m + 1] =
            [root \in Hash |-> IF root \in DOMAIN Open
                               THEN RightEdge[(m + 1) - 1][RightUnlessZero(Open[root])]
                               ELSE Zero]
    BY <2>1, RightEdgeEquation
  <2> QED
    BY <2>1, <2>2
<1>3. \A root \in DOMAIN Open : root \in Hash /\ RightUnlessZero(Open[root]) \in Hash
  BY EdgeBelowHash, HashAssumption DEF EdgeBelow
<1>4. 0 \in S
  <2>1. ASSUME NEW root \in Hash PROVE RightEdge[0 + 1][root] = EdgeBelow(root)
    BY <1>1, <1>2, <1>3 DEF EdgeBelow
  <2> QED
    BY <1>1, <2>1
<1>5. ASSUME NEW m \in Nat, m \in S PROVE m + 1 \in S
  <2>1. ASSUME NEW root \in Hash
        PROVE  /\ RightEdge[m + 1][root] \in Hash
               /\ RightEdge[(m + 1) + 1][root] = EdgeBelow(RightEdge[m + 1][root])
    <3>1. RightEdge[m + 1][root] \in Hash
      BY <1>5, EdgeBelowHash
    <3>2. m + 1 \in Nat
      OBVIOUS
    <3>3. CASE root \in DOMAIN Open
      <4> DEFINE below == RightUnlessZero(Open[root])
      <4>1. below \in Hash
        BY <1>3, <3>3
      <4> HIDE DEF below
      <4>2. RightEdge[(m + 1) + 1][root] = RightEdge[m + 1][below]
        BY <1>2, <3>2, <3>3 DEF below
      <4>3. RightEdge[m + 1][below] = EdgeBelow(RightEdge[m][below])
        BY <1>5, <4>1
      <4>4. RightEdge[m + 1][root] = RightEdge[m][below]
        BY <1>2, <3>3 DEF below
      <4> QED
        BY <3>1, <4>2, <4>3, <4>4
    <3>4. CASE root \notin DOMAIN Open
      <4>1. RightEdge[(m + 1) + 1][root] = Zero /\ RightEdge[m + 1][root] = Zero
        BY <1>2, <3>2, <3>4
      <4> QED
        BY <3>1, <4>1, HashAssumption DEF EdgeBelow
    <3> QED
      BY <3>1, <3>3, <3>4
  <2> QED
    BY <2>1
<1> HIDE DEF S
<1>6. Nat \subseteq S
  BY <1>4, <1>5, NatSetInduction
<1> QED
  BY <1>1, <1>6 DEF S

\* An accepted result proof opens every node of the edge above its last one.
LEMMA EdgeIsOpen ==
    ASSUME NEW root \in Hash, NEW depth \in Nat, VerifyResultProof(root, depth)
    PROVE  \A k \in 0 .. depth : /\ RightEdge[k][root] # Zero
                                 /\ k < depth => RightEdge[k][root] \in DOMAIN Open
<1> DEFINE S == {m \in Nat : m <= depth => RightEdge[depth - m][root] # Zero}
<1>1. 0 \in S
  BY HashAssumption DEF VerifyResultProof
<1>2. ASSUME NEW k \in Nat, RightEdge[k + 1][root] # Zero
      PROVE  RightEdge[k][root] # Zero /\ RightEdge[k][root] \in DOMAIN Open
  BY <1>2, RightEdgeDown, HashAssumption DEF EdgeBelow
<1>3. ASSUME NEW m \in Nat, m \in S PROVE m + 1 \in S
  <2>1. SUFFICES ASSUME m + 1 <= depth PROVE RightEdge[depth - (m + 1)][root] # Zero
    OBVIOUS
  <2>2. depth - (m + 1) \in Nat /\ (depth - (m + 1)) + 1 = depth - m
    BY <2>1
  <2>3. RightEdge[depth - m][root] # Zero
    BY <1>3, <2>1
  <2> QED
    BY <1>2, <2>2, <2>3
<1> HIDE DEF S
<1>4. Nat \subseteq S
  BY <1>1, <1>3, NatSetInduction
<1>5. ASSUME NEW k \in 0 .. depth PROVE RightEdge[k][root] # Zero
  <2>1. depth - k \in Nat /\ depth - k <= depth /\ depth - (depth - k) = k
    OBVIOUS
  <2>2. depth - k \in S
    BY <1>4, <2>1
  <2> QED
    BY <2>1, <2>2 DEF S
<1>6. ASSUME NEW k \in 0 .. depth, k < depth PROVE RightEdge[k][root] \in DOMAIN Open
  <2>1. k + 1 \in 0 .. depth /\ k \in Nat
    BY <1>6
  <2> QED
    BY <1>2, <1>5, <2>1
<1> QED
  BY <1>5, <1>6
-----------------------------------------------------------------------------
(***************************************************************************)
(* The walk.  SamePosition and EndFlagMeansLast are not inductive: the next *)
(* position follows from the pairs that were opened, and whether anything  *)
(* follows it from where the right edge of the solver's tree is.           *)
(***************************************************************************)

\* The right edge of a tree is at position p of the level s; only zeros follow.
EdgeAt(p, s, edge) ==
    /\ s[p] = edge
    /\ \A j \in DOMAIN s : j > p => s[j] = Zero

\* d stands at position i, END_OF_EXECUTION is set there if that is the right edge.
Stands(i, p, d, s, c, edge) ==
    /\ Explains(i, d, s, c)
    /\ EdgeAt(p, s, edge)
    /\ i <= p
    /\ "END_OF_EXECUTION" \in d.state <=> i = p

Position(d, id) ==
    LET k == id.depth - d.treeDepth
        s == Levels(id.execution.root)[k]
        c == Levels(id.challengerRoot)[k]
    IN  \E i, p \in DOMAIN s : Stands(i, p, d, s, c, RightEdge[k][id.execution.root])

Opened(path, h) == h \in DOMAIN Open /\ path = Open[h]

\* A recorded response opens the path of the party it is recorded for.
Answered(d) ==
    /\ "SOLVER_RESPONDED" \in d.state => Opened(d.solver, d.solverPath)
    /\ "CHALLENGER_RESPONDED" \in d.state => Opened(d.challenger, d.challengerPath)

\* Once both players are at a leaf, their pairs are the steps that the leaf belongs to.
AtLeaf(d, id) ==
    d.treeDepth = 0 =>
        LET s == Levels(id.execution.root)[id.depth]
            c == Levels(id.challengerRoot)[id.depth]
        IN  \E i \in DOMAIN s :
                /\ Explains(i, d, s, c)
                /\ Opened(d.solver, Levels(id.execution.root)[id.depth - 1][(i + 1) \div 2])
                /\ Opened(d.challenger, Levels(id.challengerRoot)[id.depth - 1][(i + 1) \div 2])

OnPath(d, id) ==
    /\ d.treeDepth <= id.depth
    /\ Position(d, id)
    /\ Answered(d)
    /\ AtLeaf(d, id)

\* All registrations and disputes are about trees with an accepted result proof.
Accepted ==
    /\ \A e \in DOMAIN executions : VerifyResultProof(e.root, executions[e].executionDepth)
    /\ \A id \in DOMAIN disputes : VerifyResultProof(id.execution.root, id.depth)

Walk == \A id \in DOMAIN disputes : Unresolved(id) => OnPath(disputes[id], id)

\* The record after a round.
LEMMA NextRoundFields ==
    ASSUME NEW d \in DisputeRecord
    PROVE  LET r == NextRound(d)
           IN  /\ r.treeDepth = d.treeDepth - 1
               /\ r.solver = d.solver
               /\ r.challenger = d.challenger
               /\ r.state \cap RESPONDED = {}
               /\ IF FollowsRight(d)
                  THEN /\ r.solverPath = d.solver.right
                       /\ r.challengerPath = d.challenger.right
                       /\ r.witness = d.solver.left
                       /\ "START_OF_EXECUTION" \notin r.state
                       /\ "END_OF_EXECUTION" \in r.state <=> "END_OF_EXECUTION" \in d.state
                  ELSE /\ r.solverPath = d.solver.left
                       /\ r.challengerPath = d.challenger.left
                       /\ r.witness = NextWitness(d)
                       /\ "START_OF_EXECUTION" \in r.state <=> "START_OF_EXECUTION" \in d.state
                       /\ "END_OF_EXECUTION" \in r.state
                              <=> "END_OF_EXECUTION" \in d.state /\ d.solver.right = Zero
<1> DEFINE q == [d EXCEPT !.witness = NextWitness(d),
                          !.timeout = getTimeout,
                          !.state = @ \ RESPONDED,
                          !.treeDepth = @ - 1]
<1>1. /\ q.solver = d.solver
      /\ q.challenger = d.challenger
      /\ q.witness = NextWitness(d)
      /\ q.treeDepth = d.treeDepth - 1
      /\ q.state = d.state \ RESPONDED
      /\ q = [f \in DOMAIN d |-> q[f]]
      /\ DOMAIN q = DOMAIN d
  BY DEF DisputeRecord
<1>2. NextRound(d) = IF FollowsRight(d) THEN GoRight(q) ELSE GoLeft(q)
  BY DEF NextRound
<1>3. DOMAIN q = {"challengerAddr", "solverPath", "challengerPath", "treeDepth", "witness",
                  "solver", "challenger", "state", "timeout"}
  BY DEF DisputeRecord
<1> HIDE DEF q
<1>4. /\ GoRight(q).treeDepth = q.treeDepth
      /\ GoRight(q).solver = q.solver
      /\ GoRight(q).challenger = q.challenger
      /\ GoRight(q).solverPath = q.solver.right
      /\ GoRight(q).challengerPath = q.challenger.right
      /\ GoRight(q).witness = q.solver.left
      /\ GoRight(q).state = q.state \ {"START_OF_EXECUTION"}
  BY <1>3 DEF GoRight
<1>5. /\ GoLeft(q).treeDepth = q.treeDepth
      /\ GoLeft(q).solver = q.solver
      /\ GoLeft(q).challenger = q.challenger
      /\ GoLeft(q).solverPath = q.solver.left
      /\ GoLeft(q).challengerPath = q.challenger.left
      /\ GoLeft(q).witness = q.witness
      /\ GoLeft(q).state = q.state \ (IF q.solver.right # Zero THEN {"END_OF_EXECUTION"} ELSE {})
  BY <1>3 DEF GoLeft
<1>6. CASE FollowsRight(d)
  BY <1>1, <1>2, <1>4, <1>6 DEF RESPONDED
<1>7. CASE ~FollowsRight(d)
  BY <1>1, <1>2, <1>5, <1>7 DEF RESPONDED
<1> QED
  BY <1>6, <1>7

\* Below the right edge of a level is the right edge of the next one.
LEMMA EdgeStep ==
    ASSUME NEW s \in Seq(Hash), NEW p \in DOMAIN s, NEW edge \in DOMAIN Open,
           EdgeAt(p, s, edge)
    PROVE  EdgeAt(IF Open[edge].right # Zero THEN 2 * p ELSE 2 * p - 1,
                  LevelBelow(s), EdgeBelow(edge))
<1> DEFINE n == Len(s)
           below == LevelBelow(s)
           half == Open[edge]
           q == IF half.right # Zero THEN 2 * p ELSE 2 * p - 1
<1>1. n \in Nat /\ DOMAIN s = 1 .. n
  BY LenProperties
<1>2. /\ DOMAIN below = 1 .. 2 * n
      /\ \A i \in 1 .. n : /\ below[2 * i - 1] = Halves(s[i]).left
                           /\ below[2 * i] = Halves(s[i]).right
  <2>1. below \in Seq(Hash) /\ Len(below) = 2 * n
    BY LevelBelowShape
  <2>2. DOMAIN below = 1 .. Len(below)
    BY <2>1, LenProperties
  <2> QED
    BY <2>1, <2>2, LevelBelowShape
<1> HIDE DEF n, below
<1>3. Halves(s[p]) = half /\ EdgeBelow(edge) = RightUnlessZero(half)
  BY DEF EdgeAt, Halves, EdgeBelow
<1> HIDE DEF half
<1>4. below[q] = EdgeBelow(edge)
  BY <1>1, <1>2, <1>3 DEF RightUnlessZero
<1>5. ASSUME NEW j \in 1 .. 2 * n, j > q PROVE below[j] = Zero
  <2>1. CASE j = 2 * p
    <3>1. half.right = Zero
      BY <1>1, <1>5, <2>1
    <3> QED
      BY <1>1, <1>2, <1>3, <2>1, <3>1
  <2>2. CASE j > 2 * p
    <3>1. PICK m \in 1 .. n : m > p /\ (j = 2 * m \/ j = 2 * m - 1)
      <4>1. (j + 1) \div 2 \in 1 .. n /\ (j + 1) \div 2 > p
        BY <1>1, <2>2
      <4>2. j = 2 * ((j + 1) \div 2) \/ j = 2 * ((j + 1) \div 2) - 1
        BY <1>1
      <4> QED
        BY <4>1, <4>2
    <3>2. s[m] = Zero
      BY <1>1, <3>1 DEF EdgeAt
    <3>3. Halves(s[m]).left = Zero /\ Halves(s[m]).right = Zero
      BY <3>2, HashAssumption DEF Halves
    <3> QED
      BY <1>2, <3>1, <3>3
  <2>3. j = 2 * p \/ j > 2 * p
    BY <1>1, <1>5
  <2> QED
    BY <2>1, <2>2, <2>3
<1> HIDE DEF q
<1>6. EdgeAt(q, below, EdgeBelow(edge))
  BY <1>2, <1>4, <1>5 DEF EdgeAt
<1> QED
  BY <1>6 DEF q, below, half

\* A round goes to one of the two halves of the position, the same in both trees,
\* with the half just left of it as witness.
LEMMA ExplainsStep ==
    ASSUME NEW s \in Seq(Hash), NEW c \in Seq(Hash), Len(s) = Len(c), NEW i \in DOMAIN s,
           NEW d \in DisputeRecord, Explains(i, d, s, c), WitnessOpened(d),
           d.solver = Halves(s[i]), d.challenger = Halves(c[i])
    PROVE  Explains(IF FollowsRight(d) THEN 2 * i ELSE 2 * i - 1,
                    NextRound(d), LevelBelow(s), LevelBelow(c))
<1> DEFINE n == Len(s)
           r == NextRound(d)
           sb == LevelBelow(s)
           cb == LevelBelow(c)
<1>1. n \in Nat /\ i \in 1 .. n
  BY LenProperties
<1>2. \A j \in 1 .. n : /\ sb[2 * j - 1] = Halves(s[j]).left
                       /\ sb[2 * j] = Halves(s[j]).right
                       /\ cb[2 * j - 1] = Halves(c[j]).left
                       /\ cb[2 * j] = Halves(c[j]).right
  BY LevelBelowShape
<1>3. /\ "START_OF_EXECUTION" \in d.state <=> i = 1
      /\ i = 1 => d.witness = Zero
      /\ i # 1 => d.witness = s[i - 1] /\ d.witness = c[i - 1]
  BY DEF Explains
<1> HIDE DEF n, r, sb, cb
<1>4. CASE FollowsRight(d)
  <2>1. /\ r.solverPath = d.solver.right
        /\ r.challengerPath = d.challenger.right
        /\ r.witness = d.solver.left
        /\ r.witness = d.challenger.left
        /\ "START_OF_EXECUTION" \notin r.state
    BY <1>4, NextRoundFields DEF r, FollowsRight
  <2>2. 2 * i # 1
    BY <1>1
  <2> DEFINE j == 2 * i
  <2>3. /\ r.solverPath = sb[j] /\ r.challengerPath = cb[j]
        /\ r.witness = sb[j - 1] /\ r.witness = cb[j - 1]
    BY <1>1, <1>2, <2>1
  <2>4. j # 1
    BY <2>2
  <2> HIDE DEF j
  <2>5. Explains(j, r, sb, cb)
    BY <2>1, <2>3, <2>4 DEF Explains
  <2> QED
    BY <1>4, <2>5 DEF j, r, sb, cb
<1>5. CASE ~FollowsRight(d)
  <2>1. /\ r.solverPath = d.solver.left
        /\ r.challengerPath = d.challenger.left
        /\ r.witness = NextWitness(d)
        /\ "START_OF_EXECUTION" \in r.state <=> "START_OF_EXECUTION" \in d.state
    BY <1>5, NextRoundFields DEF r
  <2>2. r.solverPath = sb[2 * i - 1] /\ r.challengerPath = cb[2 * i - 1]
    BY <1>1, <1>2, <2>1
  <2>3. CASE i = 1
    <3>1. r.witness = Zero /\ 2 * i - 1 = 1
      BY <1>3, <2>1, <2>3 DEF NextWitness
    <3> QED
      BY <1>3, <1>5, <2>1, <2>2, <2>3, <3>1 DEF Explains, r, sb, cb
  <2>4. CASE i # 1
    <3>1. i - 1 \in 1 .. n /\ (2 * i - 1) - 1 = 2 * (i - 1) /\ 2 * i - 1 # 1
      BY <1>1, <2>4
    <3>2. NextWitness(d) = Halves(d.witness).right
      BY HashAssumption DEF NextWitness, WitnessOpened, Halves
    <3>3. sb[(2 * i - 1) - 1] = Halves(s[i - 1]).right
      BY <1>2, <3>1
    <3>4. cb[(2 * i - 1) - 1] = Halves(c[i - 1]).right
      BY <1>2, <3>1
    <3>5. r.witness = sb[(2 * i - 1) - 1] /\ r.witness = cb[(2 * i - 1) - 1]
      BY <1>3, <2>1, <2>4, <3>2, <3>3, <3>4
    <3>6. "START_OF_EXECUTION" \notin r.state
      BY <1>3, <2>1, <2>4
    <3> DEFINE j == 2 * i - 1
    <3>7. /\ r.solverPath = sb[j] /\ r.challengerPath = cb[j]
          /\ r.witness = sb[j - 1] /\ r.witness = cb[j - 1]
          /\ j # 1
      BY <2>2, <3>1, <3>5
    <3> HIDE DEF j
    <3>8. Explains(j, r, sb, cb)
      BY <3>6, <3>7 DEF Explains
    <3> QED
      BY <1>5, <3>8 DEF j, r, sb, cb
  <2> QED
    BY <2>3, <2>4
<1> QED
  BY <1>4, <1>5

\* The position after a round stands to the right edge as its flag says.
LEMMA StandsStep ==
    ASSUME NEW s \in Seq(Hash), NEW c \in Seq(Hash), Len(s) = Len(c),
           NEW i \in DOMAIN s, NEW p \in DOMAIN s, NEW edge \in DOMAIN Open,
           NEW d \in DisputeRecord, Stands(i, p, d, s, c, edge), WitnessOpened(d),
           d.solver = Halves(s[i]), d.challenger = Halves(c[i])
    PROVE  LET j == IF FollowsRight(d) THEN 2 * i ELSE 2 * i - 1
           IN  /\ j \in DOMAIN LevelBelow(s)
               /\ \E q \in DOMAIN LevelBelow(s) :
                      Stands(j, q, NextRound(d), LevelBelow(s), LevelBelow(c), EdgeBelow(edge))
<1> DEFINE n == Len(s)
           r == NextRound(d)
           j == IF FollowsRight(d) THEN 2 * i ELSE 2 * i - 1
           q == IF Open[edge].right # Zero THEN 2 * p ELSE 2 * p - 1
<1>1. n \in Nat /\ i \in 1 .. n /\ p \in 1 .. n
  BY LenProperties
<1>2. DOMAIN LevelBelow(s) = 1 .. 2 * n
  <2>1. LevelBelow(s) \in Seq(Hash) /\ Len(LevelBelow(s)) = 2 * n
    BY LevelBelowShape
  <2> QED
    BY <2>1, LenProperties
<1>3. Explains(j, r, LevelBelow(s), LevelBelow(c))
  BY ExplainsStep DEF Stands
<1>4. EdgeAt(q, LevelBelow(s), EdgeBelow(edge))
  BY EdgeStep DEF Stands
<1>5. j \in 1 .. 2 * n /\ q \in 1 .. 2 * n
  BY <1>1
<1>6. /\ i <= p
      /\ "END_OF_EXECUTION" \in d.state <=> i = p
      /\ i = p => d.solver = Open[edge]
  BY DEF Stands, EdgeAt, Halves
<1>7. "END_OF_EXECUTION" \in r.state
          <=> "END_OF_EXECUTION" \in d.state /\ (FollowsRight(d) \/ d.solver.right = Zero)
  BY NextRoundFields
<1>8. FollowsRight(d) => d.solver.right # Zero
  BY DEF FollowsRight
<1> HIDE DEF r, n
<1>9. j <= q /\ ("END_OF_EXECUTION" \in r.state <=> j = q)
  <2>1. CASE i < p
    <3>1. j < q /\ "END_OF_EXECUTION" \notin r.state
      BY <1>1, <1>6, <1>7, <2>1
    <3> QED
      BY <1>5, <3>1
  <2>2. CASE i = p
    <3>1. "END_OF_EXECUTION" \in r.state <=> (FollowsRight(d) \/ Open[edge].right = Zero)
      BY <1>6, <1>7, <2>2
    <3>2. FollowsRight(d) => Open[edge].right # Zero
      BY <1>6, <1>8, <2>2
    <3> QED
      BY <1>1, <2>2, <3>1, <3>2
  <2> QED
    BY <1>1, <1>6, <2>1, <2>2
<1> HIDE DEF q
<1>10. Stands(j, q, r, LevelBelow(s), LevelBelow(c), EdgeBelow(edge))
  <2> HIDE DEF j
  <2> QED
    BY <1>3, <1>4, <1>9 DEF Stands
<1> QED
  BY <1>2, <1>5, <1>10 DEF r

\* A recorded response changes neither the position nor what was answered before.
LEMMA ReceivedOnPath ==
    ASSUME NEW id, NEW d \in DisputeRecord, OnPath(d, id),
           d.treeDepth > 0, NEW h \in {d.solverPath, d.challengerPath} \cap DOMAIN Open
    PROVE  OnPath(Received(d, h, Open[h]), id)
<1> DEFINE r == Received(d, h, Open[h])
<1>1. /\ r.solverPath = d.solverPath
      /\ r.challengerPath = d.challengerPath
      /\ r.treeDepth = d.treeDepth
      /\ r.witness = d.witness
      /\ r.solver = IF h = d.solverPath THEN Open[h] ELSE d.solver
      /\ r.challenger = IF h = d.challengerPath THEN Open[h] ELSE d.challenger
      /\ r.state = d.state \cup (IF h = d.solverPath THEN {"SOLVER_RESPONDED"} ELSE {})
                           \cup (IF h = d.challengerPath THEN {"CHALLENGER_RESPONDED"} ELSE {})
  BY DEF Received, DisputeRecord
<1> HIDE DEF r
<1>2. /\ "START_OF_EXECUTION" \in r.state <=> "START_OF_EXECUTION" \in d.state
      /\ "END_OF_EXECUTION" \in r.state <=> "END_OF_EXECUTION" \in d.state
      /\ "SOLVER_RESPONDED" \in r.state
             <=> "SOLVER_RESPONDED" \in d.state \/ h = d.solverPath
      /\ "CHALLENGER_RESPONDED" \in r.state
             <=> "CHALLENGER_RESPONDED" \in d.state \/ h = d.challengerPath
  BY <1>1
<1>3. ASSUME NEW i, NEW p, NEW s, NEW c, NEW edge, Stands(i, p, d, s, c, edge)
      PROVE  Stands(i, p, r, s, c, edge)
  <2>1. Explains(i, r, s, c)
    BY <1>1, <1>2, <1>3 DEF Stands, Explains
  <2> QED
    BY <1>2, <1>3, <2>1 DEF Stands
<1>4. Position(r, id)
  BY <1>1, <1>3 DEF OnPath, Position
<1>5. Answered(r)
  BY <1>1, <1>2 DEF OnPath, Answered, Opened
<1>6. AtLeaf(r, id)
  BY <1>1 DEF AtLeaf
<1> QED
  BY <1>1, <1>4, <1>5, <1>6 DEF OnPath, r

\* After a round both players stand one level further down.
LEMMA NextRoundOnPath ==
    ASSUME NEW id \in DisputeId, VerifyResultProof(id.execution.root, id.depth),
           NEW d \in DisputeRecord, OnPath(d, id), d.treeDepth > 0,
           RESPONDED \subseteq d.state, WitnessOpened(d)
    PROVE  OnPath(NextRound(d), id)
<1> DEFINE k == id.depth - d.treeDepth
           s == Levels(id.execution.root)[k]
           c == Levels(id.challengerRoot)[k]
           edge == RightEdge[k][id.execution.root]
           r == NextRound(d)
<1>1. /\ id.depth \in Nat /\ d.treeDepth \in Nat
      /\ id.execution.root \in Hash /\ id.challengerRoot \in Hash
  <2>1. id.depth \in 1 .. maxExecutionDepth
    BY DEF DisputeId
  <2> QED
    BY <2>1, HashAssumption, ParameterAssumption DEF DisputeId, ExecutionId, DisputeRecord
<1>2. k \in 0 .. id.depth /\ k < id.depth
  BY <1>1 DEF OnPath
<1>3. edge \in DOMAIN Open
  BY <1>1, <1>2, EdgeIsOpen
<1>4. PICK i \in DOMAIN s, p \in DOMAIN s : Stands(i, p, d, s, c, edge)
  BY DEF OnPath, Position
<1>5. r.treeDepth = d.treeDepth - 1 /\ r.state \cap RESPONDED = {}
  BY NextRoundFields
<1>6. k + 1 = id.depth - r.treeDepth /\ r.treeDepth <= id.depth
  BY <1>1, <1>2, <1>5
<1> HIDE DEF k
<1>7. /\ s \in Seq(Hash) /\ Levels(id.execution.root)[k + 1] = LevelBelow(s)
      /\ c \in Seq(Hash) /\ Levels(id.challengerRoot)[k + 1] = LevelBelow(c)
  <2>1. k \in Nat
    BY <1>1, <1>2
  <2>2. s \in Seq(Hash) /\ Levels(id.execution.root)[k + 1] = LevelBelow(s)
    BY <1>1, <2>1, LevelShape
  <2>3. c \in Seq(Hash) /\ Levels(id.challengerRoot)[k + 1] = LevelBelow(c)
    BY <1>1, <2>1, LevelShape
  <2> QED
    BY <2>2, <2>3
<1>8. Len(s) = Len(c)
  BY <1>1, <1>2, LevelLength
<1>9. RightEdge[k + 1][id.execution.root] = EdgeBelow(edge)
  BY <1>1, <1>2, RightEdgeDown
<1>10. d.solver = Halves(s[i]) /\ d.challenger = Halves(c[i])
  BY <1>4 DEF OnPath, Answered, Opened, Stands, Explains, Halves, RESPONDED
<1> HIDE DEF s, c, edge, r
<1>11. \E j, q \in DOMAIN LevelBelow(s) :
           Stands(j, q, r, LevelBelow(s), LevelBelow(c), EdgeBelow(edge))
  BY <1>3, <1>4, <1>7, <1>8, <1>10, StandsStep DEF r
<1>12. Position(r, id)
  BY <1>6, <1>7, <1>9, <1>11 DEF Position
<1>13. Answered(r)
  BY <1>5 DEF Answered, RESPONDED
<1>14. ASSUME r.treeDepth = 0 PROVE AtLeaf(r, id)
  <2> DEFINE j == IF FollowsRight(d) THEN 2 * i ELSE 2 * i - 1
             n == Len(s)
  <2>1. n \in Nat /\ i \in 1 .. n
    BY <1>7, LenProperties
  <2>2. DOMAIN LevelBelow(s) = 1 .. 2 * n
    <3>1. LevelBelow(s) \in Seq(Hash) /\ Len(LevelBelow(s)) = 2 * n
      BY <1>7, LevelBelowShape
    <3> QED
      BY <3>1, LenProperties
  <2>3. Explains(j, r, LevelBelow(s), LevelBelow(c))
    BY <1>4, <1>7, <1>8, <1>10, ExplainsStep DEF Stands, r
  <2>4. r.solver = d.solver /\ r.challenger = d.challenger
    BY NextRoundFields DEF r
  <2>5. Opened(d.solver, s[i]) /\ Opened(d.challenger, c[i])
    <3>1. Opened(d.solver, d.solverPath) /\ Opened(d.challenger, d.challengerPath)
      BY DEF OnPath, Answered, RESPONDED
    <3>2. d.solverPath = s[i] /\ d.challengerPath = c[i]
      BY <1>4 DEF Stands, Explains
    <3> QED
      BY <3>1, <3>2
  <2> HIDE DEF n
  <2>6. j \in 1 .. 2 * n /\ (j + 1) \div 2 = i
    <3>1. j = 2 * i \/ j = 2 * i - 1
      OBVIOUS
    <3> HIDE DEF j
    <3> QED
      BY <2>1, <3>1
  <2>7. k + 1 = id.depth /\ k = id.depth - 1
    BY <1>1, <1>2, <1>6, <1>14
  <2> HIDE DEF j
  <2>8. \E x \in DOMAIN LevelBelow(s) :
            /\ Explains(x, r, LevelBelow(s), LevelBelow(c))
            /\ Opened(r.solver, s[(x + 1) \div 2])
            /\ Opened(r.challenger, c[(x + 1) \div 2])
    BY <2>2, <2>3, <2>4, <2>5, <2>6
  <2>9. /\ Levels(id.execution.root)[id.depth] = LevelBelow(s)
        /\ Levels(id.challengerRoot)[id.depth] = LevelBelow(c)
        /\ Levels(id.execution.root)[id.depth - 1] = s
        /\ Levels(id.challengerRoot)[id.depth - 1] = c
    BY <1>7, <2>7 DEF s, c
  <2> QED
    BY <2>8, <2>9 DEF AtLeaf
<1>15. AtLeaf(r, id)
  BY <1>14 DEF AtLeaf
<1> QED
  BY <1>6, <1>12, <1>13, <1>15 DEF OnPath, r

\* A verdict sets a VERIFIED flag.
LEMMA ResolvedIsOver ==
    ASSUME NEW d \in DisputeRecord, NEW verdict
    PROVE  Resolved(d, verdict).state \cap VERIFIED # {}
BY DEF Resolved, DisputeRecord, VERIFIED

\* A move ends the game or keeps it on the path.
LEMMA PlayOnPath ==
    ASSUME TypeOK, Accepted, Walk, NEW id \in DOMAIN disputes, Play(id)
    PROVE  \E r : /\ disputes' = [disputes EXCEPT ![id] = r]
                  /\ r.state \cap VERIFIED = {} => OnPath(r, id)
<1> DEFINE d == disputes[id]
           Goal == \E r : /\ disputes' = [disputes EXCEPT ![id] = r]
                          /\ r.state \cap VERIFIED = {} => OnPath(r, id)
<1>1. d \in DisputeRecord /\ id \in DisputeId /\ VerifyResultProof(id.execution.root, id.depth)
  BY DEF TypeOK, Accepted
<1>2. Unresolved(id) => OnPath(d, id)
  BY DEF Walk
<1>3. ASSUME NEW h, NEW verdict \in Verdict, Respond(id, h, verdict)
      PROVE  Goal
  <2> DEFINE r == Received(d, h, Open[h])
  <2>1. /\ h \in {d.solverPath, d.challengerPath} \cap DOMAIN Open
        /\ d.treeDepth > 0
        /\ d.state \cap VERIFIED = {}
        /\ OnPath(d, id)
        /\ UpdateRound(id, r, verdict)
    BY <1>2, <1>3 DEF Respond, Playing, AboveLeaf, Unresolved
  <2>2. r \in DisputeRecord /\ r.treeDepth = d.treeDepth
    BY <1>1, <2>1, ReceivedMove
  <2>3. OnPath(r, id)
    BY <1>1, <2>1, ReceivedOnPath
  <2> HIDE DEF r, d
  <2>4. CASE disputes' = [disputes EXCEPT ![id] = r]
    BY <2>3, <2>4
  <2>5. CASE disputes' = [disputes EXCEPT ![id] = Resolved(r, verdict)]
    BY <2>2, <2>5, ResolvedIsOver
  <2>6. CASE /\ RESPONDED \subseteq r.state /\ WitnessOpened(r)
             /\ disputes' = [disputes EXCEPT ![id] = NextRound(r)]
    <3>1. OnPath(NextRound(r), id)
      BY <1>1, <2>1, <2>2, <2>3, <2>6, NextRoundOnPath
    <3> QED
      BY <2>6, <3>1
  <2> QED
    BY <2>1, <2>4, <2>5, <2>6 DEF UpdateRound
<1>4. ASSUME NEW input \in StateHash, NEW verdict \in Verdict,
             NEW o \in Outcomes[id.execution.task][input], SubmitProof(id, input, o, verdict)
      PROVE  Goal
  <2> DEFINE r == [d EXCEPT !.state = @ \cup Proven(d, o)]
  <2>1. OnPath(d, id) /\ disputes' = [disputes EXCEPT ![id] = r]
    BY <1>2, <1>4 DEF SubmitProof, Playing
  <2>2. Proven(d, o) \subseteq VERIFIED
    BY DEF Proven, VERIFIED
  <2>3. r.state \cap VERIFIED = {} => r = d
    <3>1. r.state = d.state \cup Proven(d, o) /\ d = [d EXCEPT !.state = d.state]
      BY <1>1 DEF DisputeRecord
    <3>2. r.state \cap VERIFIED = {} => d.state \cup Proven(d, o) = d.state
      BY <2>2, <3>1
    <3> QED
      BY <3>1, <3>2
  <2> HIDE DEF r, d
  <2> QED
    BY <2>1, <2>3
<1>5. ASSUME NEW verdict \in Verdict, ClaimTimeout(id, verdict)
      PROVE  Goal
  <2>1. disputes' = [disputes EXCEPT ![id] = Resolved(d, verdict)]
    BY <1>5 DEF ClaimTimeout
  <2> HIDE DEF d
  <2> QED
    BY <1>1, <2>1, ResolvedIsOver
<1> QED
  BY <1>3, <1>4, <1>5 DEF Play

\* A new dispute stands at both roots.
LEMMA DisputeOnPath ==
    ASSUME TypeOK, Accepted, NEW a \in Account, NEW execution \in DOMAIN executions,
           NEW root \in ChallengerRoot, Dispute(a, execution, root)
    PROVE  \E id, r : /\ disputes' = Put(disputes, id, r)
                      /\ VerifyResultProof(id.execution.root, id.depth)
                      /\ OnPath(r, id)
<1> DEFINE id == DisputeOf(execution, root)
           r == [challengerAddr |-> a,
                 solverPath |-> id.execution.root,
                 challengerPath |-> id.challengerRoot,
                 treeDepth |-> id.depth,
                 witness |-> Zero,
                 solver |-> [left |-> id.execution.root, right |-> id.execution.root],
                 challenger |-> [left |-> id.challengerRoot, right |-> id.challengerRoot],
                 state |-> INITIAL_STATE,
                 timeout |-> getTimeout]
<1>1. disputes' = Put(disputes, id, r)
  BY DEF Dispute, InitGame
<1>2. /\ id.execution = execution /\ id.challengerRoot = root
      /\ id.depth = executions[execution].executionDepth
      /\ execution.root \in Hash /\ root \in Hash /\ id.depth \in Nat \ {0}
  <2>1. execution \in ExecutionId /\ executions[execution] \in ExecutionResult
    BY DEF TypeOK, EnforcerTypeOK
  <2>2. executions[execution].executionDepth \in 1 .. maxExecutionDepth
    BY <2>1 DEF ExecutionResult
  <2> QED
    BY <2>1, <2>2, HashAssumption, ParameterAssumption DEF DisputeOf, ExecutionId
<1>3. VerifyResultProof(id.execution.root, id.depth)
  BY <1>2 DEF Accepted
<1> HIDE DEF id
<1>4. /\ r.solverPath = execution.root /\ r.challengerPath = root
      /\ r.treeDepth = id.depth /\ r.witness = Zero /\ r.state = INITIAL_STATE
  BY <1>2
<1> HIDE DEF r
<1>5. id.depth - r.treeDepth = 0 /\ r.treeDepth <= id.depth
  BY <1>2, <1>4
<1>6. /\ Levels(execution.root)[0] = <<execution.root>>
      /\ Levels(root)[0] = <<root>>
      /\ RightEdge[0][execution.root] = execution.root
  <2>1. Levels(execution.root)[0] = <<execution.root>> /\ Levels(root)[0] = <<root>>
    BY <1>2, LevelShape
  <2>2. RightEdge[0][execution.root] = execution.root
    BY <1>2, RightEdgeDown
  <2> QED
    BY <2>1, <2>2
<1>7. Stands(1, 1, r, <<execution.root>>, <<root>>, execution.root)
  <2>1. Explains(1, r, <<execution.root>>, <<root>>)
    BY <1>4 DEF Explains, INITIAL_STATE
  <2>2. EdgeAt(1, <<execution.root>>, execution.root)
    BY DEF EdgeAt
  <2> QED
    BY <1>4, <2>1, <2>2 DEF Stands, INITIAL_STATE
<1>8. 1 \in DOMAIN <<execution.root>>
  OBVIOUS
<1>9. Position(r, id)
  BY <1>2, <1>5, <1>6, <1>7, <1>8 DEF Position
<1>10. Answered(r)
  BY <1>4 DEF Answered, INITIAL_STATE
<1>11. AtLeaf(r, id)
  BY <1>2, <1>4 DEF AtLeaf
<1> QED
  BY <1>1, <1>3, <1>5, <1>9, <1>10, <1>11 DEF OnPath

\* Every step keeps all registrations accepted and all games on their paths.
LEMMA WalkStep ==
    TypeOK /\ TypeOK' /\ Accepted /\ Walk /\ [Next]_vars => Accepted' /\ Walk'
<1> SUFFICES ASSUME TypeOK, TypeOK', Accepted, Walk, [Next]_vars PROVE Accepted' /\ Walk'
  OBVIOUS
<1> DEFINE Registrations ==
               \A e \in DOMAIN executions :
                   VerifyResultProof(e.root, executions[e].executionDepth)
           Games ==
               \A id \in DOMAIN disputes :
                   /\ VerifyResultProof(id.execution.root, id.depth)
                   /\ Unresolved(id) => OnPath(disputes[id], id)
<1>1. Registrations /\ Games
  BY DEF Accepted, Walk
<1>2. Registrations' /\ Games' => Accepted' /\ Walk'
  BY DEF Accepted, Walk
<1>3. Registrations'
  <2>1. CASE UNCHANGED executions
    BY <1>1, <2>1
  <2>2. ASSUME NEW a \in Account, NEW new \in ExecutionId, NEW depth \in ProofDepth,
               Register(a, new, depth)
        PROVE  Registrations'
    <3> DEFINE entry == [startTime |-> now, executionDepth |-> depth, solver |-> a]
    <3>1. /\ executions' = Put(executions, new, entry)
          /\ VerifyResultProof(new.root, depth)
          /\ entry.executionDepth = depth
      BY <2>2 DEF Register
    <3> HIDE DEF entry
    <3>2. /\ DOMAIN executions' = DOMAIN executions \cup {new}
          /\ \A e \in DOMAIN executions' :
                 executions'[e] = IF e = new THEN entry ELSE executions[e]
      BY <3>1 DEF Put
    <3> QED
      BY <1>1, <3>1, <3>2
  <2>3. ASSUME NEW id \in DOMAIN disputes, Play(id) PROVE Registrations'
    <3>1. PICK r \in DisputeRecord, verdict \in Verdict : Played(id, r, verdict)
      BY <2>3, PlayStep
    <3>2. \A e \in DOMAIN executions' :
              e \in DOMAIN executions /\ executions'[e] = executions[e]
      BY <3>1 DEF Played, Notify, Result, SolverWon, ChallengerWon, Delete, enforcerVars
    <3> QED
      BY <1>1, <3>2
  <2> QED
    BY <2>1, <2>2, <2>3 DEF Next, vars, enforcerVars, Request, Dispute, ChargeChallenger
<1>4. Games'
  <2>1. CASE UNCHANGED disputes
    BY <1>1, <2>1 DEF Unresolved, Exists
  <2>2. ASSUME NEW id \in DOMAIN disputes, Play(id) PROVE Games'
    <3>1. PICK r : /\ disputes' = [disputes EXCEPT ![id] = r]
                   /\ r.state \cap VERIFIED = {} => OnPath(r, id)
      BY <2>2, PlayOnPath
    <3>2. /\ DOMAIN disputes' = DOMAIN disputes
          /\ \A x \in DOMAIN disputes : disputes'[x] = IF x = id THEN r ELSE disputes[x]
      BY <3>1
    <3> QED
      BY <1>1, <3>1, <3>2 DEF Unresolved, Exists
  <2>3. ASSUME NEW a \in Account, NEW execution \in DOMAIN executions,
               NEW root \in ChallengerRoot, Dispute(a, execution, root)
        PROVE  Games'
    <3>1. PICK id, r : /\ disputes' = Put(disputes, id, r)
                       /\ VerifyResultProof(id.execution.root, id.depth)
                       /\ OnPath(r, id)
      BY <2>3, DisputeOnPath
    <3>2. /\ DOMAIN disputes' = DOMAIN disputes \cup {id}
          /\ \A x \in DOMAIN disputes' : disputes'[x] = IF x = id THEN r ELSE disputes[x]
      BY <3>1 DEF Put
    <3> QED
      BY <1>1, <3>1, <3>2 DEF Unresolved, Exists
  <2> QED
    BY <2>1, <2>2, <2>3 DEF Next, vars
<1> QED
  BY <1>2, <1>3, <1>4

\* All registrations are accepted and all games on their paths.
LEMMA AlwaysOnPath == Spec => [](TypeOK /\ Accepted /\ Walk)
<1>1. Init => Accepted /\ Walk
  BY DEF Init, EnforcerInit, VerifierInit, NoEntries, Accepted, Walk
<1> QED
  BY <1>1, TypeCorrect, WalkStep, PTL DEF Spec

\* Solver and challenger are questioned about the same position of their trees,
\* whatever the trees are; the START flag and the witness are those of it.
THEOREM AlwaysSamePosition == Spec => []SamePosition
<1>1. Walk => SamePosition
  <2>1. ASSUME Walk, NEW id \in DOMAIN disputes, Unresolved(id)
        PROVE  \E i \in DOMAIN SolverLevel(id) :
                   Explains(i, disputes[id], SolverLevel(id), ChallengerLevel(id))
    BY <2>1 DEF Walk, OnPath, Position, Stands, SolverLevel, ChallengerLevel
  <2> QED
    BY <2>1 DEF SamePosition
<1> QED
  BY <1>1, AlwaysOnPath, PTL

\* END_OF_EXECUTION is set exactly at the solver's last position, whatever the trees
\* are: the result proof that register asks for shows that something nonzero is there.
THEOREM EndFlagAlwaysMeansLast == Spec => []EndFlagMeansLast
<1>1. TypeOK /\ Accepted /\ Walk => EndFlagMeansLast
  <2>1. ASSUME TypeOK, Accepted, Walk, NEW id \in DOMAIN disputes, Unresolved(id)
        PROVE  \E i \in DOMAIN SolverLevel(id) :
                   /\ Explains(i, disputes[id], SolverLevel(id), ChallengerLevel(id))
                   /\ "END_OF_EXECUTION" \in disputes[id].state
                          <=> \A j \in DOMAIN SolverLevel(id) :
                                  j > i => SolverLevel(id)[j] = Zero
    <3> DEFINE d == disputes[id]
               k == id.depth - d.treeDepth
               s == SolverLevel(id)
               edge == RightEdge[k][id.execution.root]
    <3> SUFFICES \E i \in DOMAIN s :
                     /\ Explains(i, d, s, ChallengerLevel(id))
                     /\ "END_OF_EXECUTION" \in d.state
                            <=> \A j \in DOMAIN s : j > i => s[j] = Zero
      OBVIOUS
    <3>1. /\ VerifyResultProof(id.execution.root, id.depth)
          /\ d.treeDepth \in Nat /\ d.treeDepth <= id.depth
          /\ id.depth \in Nat /\ id.execution.root \in Hash
      <4>1. id \in DisputeId /\ d \in DisputeRecord
        BY <2>1 DEF TypeOK
      <4>2. id.depth \in 1 .. maxExecutionDepth
        BY <4>1 DEF DisputeId
      <4> QED
        BY <2>1, <4>1, <4>2, HashAssumption, ParameterAssumption
           DEF Accepted, Walk, OnPath, DisputeId, ExecutionId, DisputeRecord
    <3>2. edge # Zero
      <4>1. k \in 0 .. id.depth
        BY <3>1
      <4> HIDE DEF k
      <4> QED
        BY <3>1, <4>1, EdgeIsOpen
    <3>3. PICK i \in DOMAIN s, p \in DOMAIN s : Stands(i, p, d, s, ChallengerLevel(id), edge)
      BY <2>1 DEF Walk, OnPath, Position, SolverLevel, ChallengerLevel
    <3>4. DOMAIN s \subseteq Int
      <4>1. k \in Nat
        BY <3>1
      <4>2. s \in Seq(Hash)
        BY <3>1, <4>1, LevelShape DEF SolverLevel
      <4> HIDE DEF s
      <4> QED
        BY <4>2, LenProperties
    <3> HIDE DEF d, s, edge
    <3>5. Explains(i, d, s, ChallengerLevel(id))
      BY <3>3 DEF Stands
    <3>6. "END_OF_EXECUTION" \in d.state <=> \A j \in DOMAIN s : j > i => s[j] = Zero
      <4>1. CASE i = p
        BY <3>3, <4>1 DEF Stands, EdgeAt
      <4>2. CASE i < p
        BY <3>2, <3>3, <3>4, <4>2 DEF Stands, EdgeAt
      <4> QED
        BY <3>3, <3>4, <4>1, <4>2 DEF Stands
    <3> QED
      BY <3>3, <3>5, <3>6
  <2> QED
    BY <2>1 DEF EndFlagMeansLast
<1> QED
  BY <1>1, AlwaysOnPath, PTL

=============================================================================
