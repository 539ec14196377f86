--------------------------- MODULE TreeUseProofs ----------------------------
(***************************************************************************)
(* What the players can do with a tree, for executions and codes of every  *)
(* length: the root commits to the execution, the proofs made off chain    *)
(* are the ones that the contracts take.                                   *)
(***************************************************************************)
EXTENDS TreeUse, MerkleTreeProofs

-----------------------------------------------------------------------------
(***************************************************************************)
(* What the trees are built over.                                          *)
(***************************************************************************)

\* Hashes without collisions: of two halves, of a state and of a word of code.
CollisionFree ==
    /\ Injective
    /\ \A a, b, c, d : stateHash(a, b) = stateHash(c, d) => a = c /\ b = d
    /\ \A a, b : stateHash(a, b) # ZERO_HASH
    /\ \A w, v, s, b : leafHash(w, s, b) = leafHash(v, s, b) => w = v

\* The leaves of an execution's tree and of a code's.
Steps(states) == [i \in 1 .. Len(states) - 1 |-> Step(states[i], states[i + 1])]
Words(words, byteLength) ==
    [i \in DOMAIN words |-> [zero EXCEPT !.hash = leafHash(words[i], i - 1, byteLength)]]

\* An execution has a step at least.
LEMMA ExecutionShape ==
    ASSUME NEW states \in Executions
    PROVE  /\ IsSeq(states) /\ Len(states) \in Nat /\ Len(states) >= 2
           /\ states = [i \in 1 .. Len(states) |-> states[i]]
           /\ \A i \in 1 .. Len(states) : states[i] \in State
<1>1. PICK n \in 1 .. MaxSteps : states \in [1 .. n + 1 -> State]
  BY DEF Executions
<1>2. n \in Nat /\ n >= 1 /\ n + 1 \in Nat
  BY TreeUseAssumption
<1>3. states = [i \in 1 .. n + 1 |-> states[i]]
  BY <1>1
<1>4. IsSeq(states) /\ Len(states) = n + 1
  BY <1>2, <1>3, FunctionIsSeq
<1> QED
  BY <1>1, <1>2, <1>3, <1>4

\* Its tree is over its steps, and a step has the hash of its two states.
LEMMA ExecutionTree ==
    ASSUME NEW states \in Executions
    PROVE  /\ TreeOver(run(states), Steps(states))
           /\ IsSeq(Steps(states)) /\ Len(Steps(states)) = Len(states) - 1
           /\ \A i \in 1 .. Len(states) - 1 : Steps(states)[i] = Step(states[i], states[i + 1])
           /\ Paired(Steps(states))
<1> DEFINE n == Len(states) - 1
           leaves == Steps(states)
<1>1. n \in Nat /\ n >= 1
  BY ExecutionShape
<1>2. leaves = [i \in 1 .. n |-> leaves[i]]
  BY DEF Steps
<1>3. \A i \in 1 .. n : leaves[i] = Step(states[i], states[i + 1])
  BY DEF Steps
<1>4. run(states) = recal(leaves)
  BY DEF run, Steps
<1> HIDE DEF n, leaves
<1>5. IsSeq(leaves) /\ Len(leaves) = n
  BY <1>1, <1>2, FunctionIsSeq
<1>6. TreeOver(recal(leaves), leaves)
  BY <1>1, <1>5, RecalShape
<1>7. Paired(leaves)
  BY <1>3, <1>5 DEF Paired, Step
<1> QED
  BY <1>3, <1>4, <1>5, <1>6, <1>7 DEF n, leaves

\* A state is known by its hash.
LEMMA StateOfHash ==
    ASSUME CollisionFree, NEW s \in State, NEW t \in State, hashOf(s) = hashOf(t)
    PROVE  s = t
<1>1. s.pre = t.pre /\ s.returnData = t.returnData
  BY DEF CollisionFree, hashOf
<1>2. /\ s = [pre |-> s.pre, returnData |-> s.returnData]
      /\ t = [pre |-> t.pre, returnData |-> t.returnData]
  BY TreeUseAssumption
<1> QED
  BY <1>1, <1>2

-----------------------------------------------------------------------------
(***************************************************************************)
(* The tree is the one of the input, or that tree cut down.                *)
(***************************************************************************)

Built ==
    /\ IsExecution =>
           /\ input.states \in Executions
           /\ uncut = run(input.states)
           /\ \/ claimDepth = 0 /\ tree = uncut
              \/ /\ claimDepth \in 1 .. MaxSteps /\ claimDepth < depth(uncut)
                 /\ tree = scaleDown(uncut, claimDepth)
    /\ claimDepth # 0 => IsExecution
    /\ input.class = "none" => claimDepth = 0
    /\ IsCode =>
           /\ input.words \in Codes
           /\ tree = runCode(input.words, input.byteLength)

\* Built holds in every state: nothing follows on the building of a tree but the
\* cutting of an execution's.
LEMMA AlwaysBuilt == Spec => []Built
<1>1. Init => Built
  BY DEF Init, Built, IsExecution, IsCode
<1>2. Built /\ [Next]_vars => Built'
  <2> SUFFICES ASSUME Built, [Next]_vars PROVE Built'
    OBVIOUS
  <2>1. ASSUME NEW states \in Executions, RunExecution(states) PROVE Built'
    <3>1. /\ input' = [class |-> "Merkelizer", states |-> states]
          /\ tree' = run(states) /\ uncut' = tree' /\ claimDepth' = 0
      BY <2>1 DEF RunExecution, Built
    <3>2. input'.class = "Merkelizer" /\ input'.states = states
      BY <3>1
    <3> QED
      BY <3>1, <3>2 DEF Built, IsExecution, IsCode
  <2>2. ASSUME NEW executionDepth \in 1 .. MaxSteps, ScaleDown(executionDepth) PROVE Built'
    <3>1. /\ IsExecution /\ tree = uncut /\ executionDepth < depth(tree)
          /\ tree' = scaleDown(tree, executionDepth) /\ input' = input /\ uncut' = uncut
          /\ claimDepth' = executionDepth
      BY <2>2, TreeUseAssumption DEF ScaleDown, Built
    <3> QED
      BY <3>1 DEF Built, IsExecution, IsCode
  <2>3. ASSUME NEW words \in Codes, NEW tail \in {1, WordBytes}, RunCode(words, tail) PROVE Built'
    <3> DEFINE byteLength == WordBytes * (Len(words) - 1) + tail
    <3>1. /\ input' = [class |-> "FragmentTree", words |-> words, byteLength |-> byteLength]
          /\ tree' = runCode(words, input'.byteLength) /\ claimDepth' = 0
      BY <2>3 DEF RunCode, Built
    <3> HIDE DEF byteLength
    <3>2. /\ input'.class = "FragmentTree" /\ input'.words = words
          /\ input'.byteLength = byteLength
      BY <3>1
    <3> QED
      BY <3>1, <3>2 DEF Built, IsExecution, IsCode
  <2>4. CASE UNCHANGED vars
    BY <2>4 DEF vars, Built, IsExecution, IsCode
  <2> QED
    BY <2>1, <2>2, <2>3, <2>4 DEF Next
<1> QED
  BY <1>1, <1>2, PTL DEF Spec

-----------------------------------------------------------------------------
(***************************************************************************)
(* The root.                                                               *)
(***************************************************************************)

\* Executions with trees of one depth and one root are the same.
LEMMA RootTellsExecution ==
    ASSUME CollisionFree, NEW states \in Executions, NEW others \in Executions,
           depth(run(others)) = depth(run(states)), root(run(others)).hash = root(run(states)).hash
    PROVE  others = states
<1> DEFINE leaves == Steps(states)
           rest == Steps(others)
           n == Len(states)
<1>1. /\ TreeOver(run(states), leaves) /\ Hashed(leaves)
      /\ TreeOver(run(others), rest) /\ Hashed(rest)
  BY ExecutionTree, PairedIsHashed DEF CollisionFree
<1>2. /\ Len(rest) = Len(leaves)
      /\ \A i \in 1 .. Len(leaves) : rest[i].hash = leaves[i].hash
  <2>1. Injective /\ Len(run(others)) = Len(run(states))
    BY DEF CollisionFree, depth
  <2> HIDE DEF leaves, rest
  <2> QED
    BY <1>1, <2>1, RootTellsLeaves
<1>3. Len(others) = n /\ n \in Nat /\ n >= 2 /\ Len(leaves) = n - 1
  BY <1>2, ExecutionTree, ExecutionShape
<1>4. ASSUME NEW i \in 1 .. n - 1
      PROVE  others[i] = states[i] /\ others[i + 1] = states[i + 1]
  <2>1. /\ leaves[i] = Step(states[i], states[i + 1])
        /\ rest[i] = Step(others[i], others[i + 1])
    BY <1>3, ExecutionTree
  <2>2. hash(hashOf(others[i]), hashOf(others[i + 1])) = hash(hashOf(states[i]), hashOf(states[i + 1]))
    BY <1>2, <1>3, <2>1 DEF Step
  <2>3. hashOf(others[i]) = hashOf(states[i]) /\ hashOf(others[i + 1]) = hashOf(states[i + 1])
    BY <2>2 DEF CollisionFree, Injective
  <2>4. i \in 1 .. n /\ i + 1 \in 1 .. n
    BY <1>3
  <2>5. /\ states[i] \in State /\ states[i + 1] \in State
        /\ others[i] \in State /\ others[i + 1] \in State
    BY <1>3, <2>4, ExecutionShape
  <2> QED
    BY <2>3, <2>5, StateOfHash
<1>5. \A i \in 1 .. n : others[i] = states[i]
  <2>1. \A i \in 1 .. n : i \in 1 .. n - 1 \/ (i - 1 \in 1 .. n - 1 /\ (i - 1) + 1 = i)
    BY <1>3
  <2> QED
    BY <1>4, <2>1
<1> QED
  BY <1>3, <1>5, ExecutionShape, SameElements

\* RootCommits: whatever else a solver executes, a tree of the same depth with the same
\* root is over the same states.
THEOREM RootCommitsHolds == ASSUME CollisionFree PROVE Spec => []RootCommits
<1>1. Built => RootCommits
  <2> SUFFICES ASSUME Built, IsExecution, claimDepth = 0, NEW other \in Executions,
                      Committed[other] = [root |-> root(tree).hash, depth |-> depth(tree)]
               PROVE  other = input.states
    BY DEF RootCommits
  <2>1. input.states \in Executions /\ tree = run(input.states)
    BY TreeUseAssumption DEF Built
  <2>2. Committed[other] = [root |-> root(run(other)).hash, depth |-> depth(run(other))]
    BY DEF Committed
  <2>3. root(run(other)).hash = root(tree).hash /\ depth(run(other)) = depth(tree)
    BY <2>2
  <2> QED
    BY <2>1, <2>3, RootTellsExecution
<1> QED
  BY <1>1, AlwaysBuilt, PTL

-----------------------------------------------------------------------------
(***************************************************************************)
(* The tree that a challenger cuts down.                                   *)
(***************************************************************************)

\* ScaledDownIsLeftSubtree: cut to the depth of a claim of two or more, a tree has that
\* depth, and on every level the nodes of the left subtree with that depth.  No hash is
\* assumed to be without collisions.
THEOREM ScaledDown == Spec => []ScaledDownIsLeftSubtree
<1>1. Built => ScaledDownIsLeftSubtree
  <2> SUFFICES ASSUME Built, claimDepth > 1
               PROVE  /\ depth(tree) = claimDepth
                      /\ \A level \in 1 .. claimDepth :
                             /\ Len(tree[level]) = 2^(claimDepth - level)
                             /\ \A i \in 1 .. 2^(claimDepth - level) :
                                    tree[level][i].hash = uncut[level][i].hash
    BY DEF ScaledDownIsLeftSubtree
  <2>1. /\ input.states \in Executions /\ uncut = run(input.states)
        /\ claimDepth \in 1 .. MaxSteps /\ claimDepth < depth(uncut)
        /\ tree = scaleDown(uncut, claimDepth)
    BY DEF Built
  <2>2. TreeOver(uncut, Steps(input.states))
    BY <2>1, ExecutionTree
  <2>3. Len(uncut) \in Nat /\ Len(uncut) >= 2
    BY <2>2, TopFacts
  <2>4. claimDepth \in 2 .. Len(uncut) - 1
    BY <2>1, <2>3, TreeUseAssumption DEF depth
  <2>5. /\ Len(scaleDown(uncut, claimDepth)) = claimDepth
        /\ \A l \in 1 .. claimDepth :
               /\ Len(scaleDown(uncut, claimDepth)[l]) = 2^(claimDepth - l)
               /\ \A i \in 1 .. 2^(claimDepth - l) :
                      scaleDown(uncut, claimDepth)[l][i].hash = uncut[l][i].hash
    BY <2>2, <2>4, CutIsLeftSubtree
  <2> QED
    BY <2>1, <2>5 DEF depth
<1> QED
  BY <1>1, AlwaysBuilt, PTL

-----------------------------------------------------------------------------
(***************************************************************************)
(* The words of a code.                                                    *)
(***************************************************************************)

\* A code's tree is over a leaf for each of its words.
LEMMA CodeTree ==
    ASSUME NEW words \in Codes, NEW byteLength
    PROVE  /\ Len(words) \in Nat /\ Len(words) >= 1
           /\ TreeOver(runCode(words, byteLength), Words(words, byteLength))
           /\ Len(Words(words, byteLength)) = Len(words)
           /\ \A i \in 1 .. Len(words) :
                  Words(words, byteLength)[i].hash = leafHash(words[i], i - 1, byteLength)
<1> DEFINE leaves == Words(words, byteLength)
<1>1. PICK n \in 1 .. MaxWords : words \in [1 .. n -> Fragment]
  BY DEF Codes
<1>2. n \in Nat /\ n >= 1
  BY TreeUseAssumption
<1>3. DOMAIN words = 1 .. n /\ words = [i \in 1 .. n |-> words[i]]
  BY <1>1
<1>4. Len(words) = n
  BY <1>2, <1>3, FunctionIsSeq
<1>5. /\ leaves = [i \in 1 .. n |-> leaves[i]]
      /\ \A i \in 1 .. n :
             leaves[i] = [zero EXCEPT !.hash = leafHash(words[i], i - 1, byteLength)]
  BY <1>3 DEF Words
<1>6. \A i \in 1 .. n : leaves[i].hash = leafHash(words[i], i - 1, byteLength)
  BY <1>5 DEF zero
<1>7. runCode(words, byteLength) = recal(leaves)
  BY DEF runCode, Words
<1> HIDE DEF leaves
<1>8. IsSeq(leaves) /\ Len(leaves) = n
  BY <1>2, <1>5, FunctionIsSeq
<1>9. TreeOver(recal(leaves), leaves)
  BY <1>2, <1>8, RecalShape
<1> QED
  BY <1>2, <1>4, <1>6, <1>7, <1>8, <1>9 DEF leaves

\* verifyCode expects as many hashes as the tree has levels below the root, for the
\* lengths next to a power of two and no other.
LEMMA DepthsAgree ==
    ASSUME NEW leaves, NEW t, TreeOver(t, leaves)
    PROVE  treeDepth(Len(leaves)) = Len(t) - 1 <=> SameDepth(Len(leaves))
<1> DEFINE w == Len(leaves)
           m == Len(t)
           top == 2^(m - 1)
           low == 2^(m - 2)
           count == w + (w % 2)
<1>1. w \in Nat /\ m \in Nat /\ m >= 2 /\ w >= 1
  <2>1. w \in Nat /\ m \in Nat /\ m >= 2
    BY TopFacts, DepthOfCount
  <2>2. Count(t, leaves, 1) \in Nat \ {0}
    <3>1. 1 \in 1 .. Len(t)
      BY <2>1
    <3> QED
      BY <3>1, AnyLevel
  <2> QED
    BY <2>1, <2>2 DEF Count, Nodes
<1>2. w <= top /\ (m = 2 \/ w > low)
  BY DepthOfCount
<1>3. m - 1 \in Nat /\ m - 2 \in Nat /\ (m - 2) + 1 = m - 1 /\ (m - 1) + 1 = m
  BY <1>1
<1>4. low \in Nat \ {0} /\ top \in Nat \ {0} /\ top = 2 * low /\ 2^m = 2 * top /\ top >= m
  <2>1. 2^((m - 2) + 1) = 2 * 2^(m - 2) /\ 2^((m - 1) + 1) = 2 * 2^(m - 1)
    BY <1>3, PowerDoubles
  <2>2. 2^(m - 1) >= (m - 1) + 1
    BY <1>3, PowerGrows
  <2> HIDE DEF m
  <2> QED
    BY <1>3, <2>1, <2>2, PowerIsPositive
<1>5. m = 2 => low = 1 /\ top = 2
  <2>1. m = 2 => m - 2 = 0 /\ m - 1 = 1
    BY <1>1
  <2> QED
    BY <2>1, PowerGrows
<1>6. treeDepth(w) = CHOOSE d \in 0 .. count : 2^d <= count /\ count < 2^(d + 1)
  BY DEF treeDepth
<1> HIDE DEF w, m, top, low
<1>7. count \in Nat /\ w <= count /\ count <= top
  BY <1>1, <1>2, <1>4
<1>8. count = top <=> w \in {top - 1, top}
  BY <1>1, <1>2, <1>4
<1> HIDE DEF count
<1>9. count = top => treeDepth(w) = m - 1
  <2> SUFFICES ASSUME count = top PROVE treeDepth(w) = m - 1
    OBVIOUS
  <2>1. 2^(m - 1) <= count /\ count < 2^((m - 1) + 1)
    BY <1>3, <1>4, <1>7 DEF top
  <2> QED
    BY <1>3, <1>6, <1>7, <2>1, Logarithm
<1>10. count # top => treeDepth(w) = m - 2
  <2> SUFFICES ASSUME count # top PROVE treeDepth(w) = m - 2
    OBVIOUS
  <2>1. low <= count /\ count < top
    BY <1>1, <1>2, <1>4, <1>5, <1>7
  <2>2. 2^(m - 2) <= count /\ count < 2^((m - 2) + 1)
    BY <1>3, <2>1 DEF top, low
  <2> QED
    BY <1>3, <1>6, <1>7, <2>2, Logarithm
<1>11. SameDepth(w) <=> w \in {top - 1, top}
  <2>1. ASSUME w \in {top - 1, top} PROVE SameDepth(w)
    <3>1. m - 1 \in 1 .. w + 1
      BY <1>1, <1>4, <2>1
    <3> QED
      BY <2>1, <3>1 DEF SameDepth, top
  <2>2. ASSUME SameDepth(w) PROVE w \in {top - 1, top}
    <3>1. PICK k \in 1 .. w + 1 : w \in {2^k - 1, 2^k}
      BY <2>2 DEF SameDepth
    <3>2. k \in Nat /\ k >= 1
      BY <1>1
    <3>3. 2^k \in Nat \ {0}
      BY <3>2, PowerIsPositive
    <3>4. k < m - 1 => 2 * 2^k <= top
      BY <1>3, <3>2, PowerGrows DEF top
    <3>5. m - 1 < k => 2 * top <= 2^k
      BY <1>3, <3>2, PowerGrows DEF top
    <3> DEFINE p == 2^k
    <3> HIDE DEF p
    <3>6. ~(m - 1 < k)
      <4>1. p \in Nat /\ (w = p - 1 \/ w = p) /\ (m - 1 < k => 2 * top <= p)
        BY <3>1, <3>3, <3>5 DEF p
      <4>2. top >= 2
        BY <1>1, <1>4
      <4> QED
        BY <1>1, <1>2, <1>4, <4>1, <4>2
    <3>7. ~(k < m - 1)
      <4>1. p \in Nat /\ (w = p - 1 \/ w = p) /\ (k < m - 1 => 2 * p <= top)
        BY <3>1, <3>3, <3>4 DEF p
      <4>2. m = 2 => ~(k < m - 1)
        BY <3>2
      <4> QED
        BY <1>1, <1>2, <1>4, <4>1, <4>2
    <3>8. k = m - 1
      BY <1>1, <3>2, <3>6, <3>7
    <3> QED
      BY <3>1, <3>8 DEF top
  <2> QED
    BY <2>1, <2>2
<1>12. m - 1 # m - 2
  BY <1>1
<1> QED
  BY <1>8, <1>9, <1>10, <1>11, <1>12 DEF w, m

\* FragmentsProvable: whatever the length of the code, a word can be supplied with the
\* proof that FragmentTree makes, and in its place no other; if the length is not next to
\* a power of two, none at all.
THEOREM Fragments == ASSUME CollisionFree PROVE Spec => []FragmentsProvable
<1>1. Built => FragmentsProvable
  <2> SUFFICES ASSUME Built, IsCode,
                      NEW slot \in 0 .. Len(input.words) - 1, NEW word \in Fragment
               PROVE  LET proof == calculateProof(tree, slot)
                      IN  /\ verifyProof(tree, tree[1][slot + 1].hash, slot, proof)
                          /\ verifyCode(root(tree).hash, word, slot, input.byteLength,
                                        Len(input.words), proof)
                                 = (word = input.words[slot + 1] /\ SameDepth(Len(input.words)))
    BY DEF FragmentsProvable
  <2> DEFINE words == input.words
             bytes == input.byteLength
             leaves == Words(words, bytes)
             proof == calculateProof(tree, slot)
             leaf == leafHash(word, slot, bytes)
             there == leafHash(words[slot + 1], slot, bytes)
  <2>1. words \in Codes /\ tree = runCode(words, bytes)
    BY DEF Built
  <2> HIDE DEF leaves
  <2>2. /\ Len(words) \in Nat /\ Len(words) >= 1
        /\ TreeOver(tree, leaves) /\ Len(leaves) = Len(words)
        /\ \A i \in 1 .. Len(words) : leaves[i].hash = leafHash(words[i], i - 1, bytes)
    BY <2>1, CodeTree DEF leaves
  <2>3. Len(tree) \in Nat /\ Len(tree) >= 2
    BY <2>2, TopFacts
  <2>4. Len(proof) = Len(tree) - 1 /\ ProvenRoot(tree[1][slot + 1].hash, slot, proof) = root(tree).hash
    <3>1. slot \in 0 .. Len(leaves) - 1
      BY <2>2
    <3> QED
      BY <2>2, <3>1, ProofLeadsToRoot
  <2>5. tree[1][slot + 1].hash = there
    <3>1. slot + 1 \in 1 .. Len(words) /\ (slot + 1) - 1 = slot /\ 1 \in 1 .. Len(tree)
      BY <2>2, <2>3
    <3>2. tree[1][slot + 1] = leaves[slot + 1]
      <4>1. \A i \in 1 .. Count(tree, leaves, 1) : tree[1][i] = Nodes(tree, leaves, 1)[i]
        BY <2>2, <3>1, AnyLevel
      <4> QED
        BY <2>2, <3>1, <4>1 DEF Count, Nodes
    <3>3. leaves[slot + 1].hash = leafHash(words[slot + 1], (slot + 1) - 1, bytes)
      BY <2>2, <3>1
    <3> QED
      BY <3>1, <3>2, <3>3
  <2>6. verifyProof(tree, tree[1][slot + 1].hash, slot, proof)
    BY <2>4 DEF verifyProof
  <2>7. Len(proof) = treeDepth(Len(words)) <=> SameDepth(Len(words))
    <3>1. treeDepth(Len(leaves)) = Len(tree) - 1 <=> SameDepth(Len(leaves))
      BY <2>2, DepthsAgree
    <3> QED
      BY <2>2, <2>4, <3>1
  <2>8. ProvenRoot(leaf, slot, proof) = root(tree).hash <=> word = words[slot + 1]
    <3>1. ProvenRoot(there, slot, proof) = root(tree).hash
      BY <2>4, <2>5
    <3>2. ASSUME ProvenRoot(leaf, slot, proof) = root(tree).hash PROVE leaf = there
      <4>1. Injective /\ Len(proof) \in Nat
        BY <2>3, <2>4 DEF CollisionFree
      <4>2. ProvenRoot(leaf, slot, proof) = ProvenRoot(there, slot, proof)
        BY <3>1, <3>2
      <4> HIDE DEF leaf, there, proof
      <4> QED
        BY <4>1, <4>2, RootTellsLeaf
    <3>3. leaf = there => word = words[slot + 1]
      BY DEF CollisionFree
    <3> QED
      BY <3>1, <3>2, <3>3
  <2>9. verifyCode(root(tree).hash, word, slot, bytes, Len(words), proof)
            <=> word = words[slot + 1] /\ SameDepth(Len(words))
    <3> HIDE DEF proof
    <3>1. Len(words) > 0
      BY <2>2
    <3> QED
      BY <2>7, <2>8, <3>1 DEF verifyCode
  <2> QED
    BY <2>6, <2>9 DEF verifyCode, SameDepth
<1> QED
  BY <1>1, AlwaysBuilt, PTL

-----------------------------------------------------------------------------
(***************************************************************************)
(* The result of an execution.                                             *)
(***************************************************************************)

\* What a proof of a result is for an execution: level by level from the root the halves
\* of the last node, in the last step the last state's preStateHash.
Proves(proof, states) ==
    LET t == run(states)
        m == Len(t)
        last(k) == LastOf(t, Steps(states), m - k + 1)
    IN  /\ IsSeq(proof) /\ Len(proof) = 2 * m
        /\ \A k \in 1 .. m - 1 : proof[2 * k - 1] = last(k).left /\ proof[2 * k] = last(k).right
        /\ proof[2 * m - 1] = last(m).left /\ proof[2 * m] = Last(states).pre

\* The last leaf is the last step.
LEMMA LastLeaf ==
    ASSUME NEW states \in Executions
    PROVE  LastOf(run(states), Steps(states), 1)
               = Step(states[Len(states) - 1], states[Len(states)])
<1> DEFINE t == run(states)
           leaves == Steps(states)
           n == Len(states)
<1>1. n \in Nat /\ n >= 2
  BY ExecutionShape
<1>2. TreeOver(t, leaves) /\ Len(leaves) = n - 1
  BY ExecutionTree
<1>3. leaves[n - 1] = Step(states[n - 1], states[n])
  <2>1. n - 1 \in 1 .. n - 1 /\ (n - 1) + 1 = n
    BY <1>1
  <2>2. leaves[n - 1] = Step(states[n - 1], states[(n - 1) + 1])
    BY <2>1, ExecutionTree
  <2> QED
    BY <2>1, <2>2
<1> HIDE DEF t, leaves
<1>4. Count(t, leaves, 1) = n - 1 /\ Nodes(t, leaves, 1) = leaves
  BY <1>2 DEF Count, Nodes
<1>5. t[1][n - 1] = leaves[n - 1]
  <2>1. 1 \in 1 .. Len(t)
    BY <1>2, TopFacts
  <2>2. \A i \in 1 .. Count(t, leaves, 1) : t[1][i] = Nodes(t, leaves, 1)[i]
    BY <1>2, <2>1, AnyLevel
  <2>3. n - 1 \in 1 .. n - 1
    BY <1>1
  <2> QED
    BY <1>4, <2>2, <2>3
<1> QED
  BY <1>3, <1>4, <1>5 DEF LastOf, t, leaves

\* computeResultProof makes one, with the return data of the last state.
LEMMA ResultProofMade ==
    ASSUME CollisionFree, NEW states \in Executions
    PROVE  LET r == computeResultProof(run(states), states)
           IN  Proves(r.resultProof, states) /\ r.returnData = Last(states).returnData
<1> DEFINE t == run(states)
           m == Len(t)
           n == Len(states)
           end == Last(states)
           at(k) == LastOf(t, Steps(states), m - k + 1)
<1>1. TreeOver(t, Steps(states)) /\ Paired(Steps(states)) /\ Injective
  BY ExecutionTree DEF CollisionFree
<1>2. m \in Nat /\ m >= 2
  BY <1>1, TopFacts
<1>3. n \in Nat /\ n >= 2 /\ end = states[n] /\ end \in State /\ end \in ToSet(states)
  <2>1. n \in Nat /\ n >= 2 /\ states = [i \in 1 .. n |-> states[i]]
    BY ExecutionShape
  <2>2. n \in DOMAIN states /\ n \in 1 .. n
    BY <2>1
  <2>3. states[n] \in State
    BY <2>2, ExecutionShape
  <2> QED
    BY <2>1, <2>2, <2>3 DEF Last, ToSet
<1> DEFINE stateOf(h) == CHOOSE s \in ToSet(states) : hashOf(s) = h
           node[k \in 1 .. depth(t)] ==
               IF k = 1 THEN root(t) ELSE getNode(t, RightUnlessZero(node[k - 1].left, node[k - 1].right))
           leaf == node[depth(t)]
           last == stateOf(IF leaf.right = ZERO_HASH THEN leaf.left ELSE leaf.right)
           halves == IF leaf.right = ZERO_HASH THEN <<last.pre, ZERO_HASH>> ELSE <<leaf.left, last.pre>>
           pairs == [k \in 1 .. depth(t) |->
                        IF k < depth(t) THEN <<node[k].left, node[k].right>> ELSE halves]
           r == computeResultProof(t, states)
<1>4. r = [resultProof |-> FlattenSeq(pairs), returnData |-> last.returnData]
  BY DEF computeResultProof
<1>5. ResultPath(t, node)
  <2>1. \E f : f = [k \in 1 .. depth(t) |->
                     IF k = 1 THEN root(t)
                     ELSE getNode(t, RightUnlessZero(f[k - 1].left, f[k - 1].right))]
    <3> HIDE DEF t
    <3> QED
      BY <1>1, PathExists DEF ResultPath
  <2> HIDE DEF t
  <2> QED
    BY <2>1 DEF ResultPath
<1> HIDE DEF node
<1>6. \A k \in 1 .. m : Alike(node[k], at(k))
  <2> HIDE DEF t
  <2> QED
    BY <1>1, <1>5, PathIsLast
<1>7. depth(t) = m
  BY DEF depth
<1>8. leaf.left = at(m).left /\ leaf.right = hashOf(end) /\ hashOf(end) # ZERO_HASH
  <2>1. m \in 1 .. m /\ m - m + 1 = 1
    BY <1>2
  <2>2. Alike(leaf, at(m))
    BY <1>6, <1>7, <2>1
  <2>3. at(m) = Step(states[n - 1], states[n])
    <3>1. LastOf(t, Steps(states), 1) = Step(states[n - 1], states[n])
      BY LastLeaf
    <3> HIDE DEF t, n, m
    <3> QED
      BY <2>1, <3>1
  <2>4. hashOf(end) # ZERO_HASH
    BY DEF CollisionFree, hashOf
  <2> QED
    BY <1>3, <2>2, <2>3, <2>4 DEF Alike, Step
<1> HIDE DEF leaf
<1>9. last = end
  <2>1. last = CHOOSE s \in ToSet(states) : hashOf(s) = hashOf(end)
    BY <1>8
  <2>2. ToSet(states) \subseteq State
    <3>1. \A i \in 1 .. n : states[i] \in State
      BY ExecutionShape
    <3>2. DOMAIN states = 1 .. n
      BY ExecutionShape
    <3> QED
      BY <3>1, <3>2 DEF ToSet
  <2>3. \A s \in ToSet(states) : hashOf(s) = hashOf(end) => s = end
    BY <1>3, <2>2, StateOfHash
  <2> HIDE DEF last, end
  <2> QED
    BY <1>3, <2>1, <2>3
<1> HIDE DEF last
<1>10. halves = <<leaf.left, end.pre>>
  BY <1>8, <1>9
<1> DEFINE left == [k \in 1 .. m |-> IF k < m THEN node[k].left ELSE leaf.left]
           right == [k \in 1 .. m |-> IF k < m THEN node[k].right ELSE end.pre]
<1>11. pairs = Pairs(left, right, m)
  <2>1. pairs = [k \in 1 .. m |-> IF k < m THEN <<node[k].left, node[k].right>> ELSE halves]
    BY <1>7
  <2>2. \A k \in 1 .. m : (IF k < m THEN <<node[k].left, node[k].right>> ELSE halves)
                              = <<left[k], right[k]>>
    BY <1>10
  <2> HIDE DEF left, right, halves, pairs, m
  <2> QED
    BY <2>1, <2>2 DEF Pairs
<1> DEFINE proof == FlattenSeq(pairs)
<1>12. /\ IsSeq(proof) /\ Len(proof) = 2 * m
       /\ \A k \in 1 .. m : proof[2 * k - 1] = left[k] /\ proof[2 * k] = right[k]
  <2>1. m \in Nat \ {0}
    BY <1>2
  <2> HIDE DEF pairs, left, right, m
  <2>2. LET flat == FlattenSeq(Pairs(left, right, m))
        IN  /\ IsSeq(flat) /\ Len(flat) = 2 * m
            /\ \A k \in 1 .. m : flat[2 * k - 1] = left[k] /\ flat[2 * k] = right[k]
    BY <2>1, FlattenPairs
  <2> QED
    BY <1>11, <2>2
<1> HIDE DEF pairs, proof
<1>13. ASSUME NEW k \in 1 .. m - 1
       PROVE  proof[2 * k - 1] = at(k).left /\ proof[2 * k] = at(k).right
  <2>1. k \in 1 .. m /\ k < m
    BY <1>2
  <2>2. left[k] = node[k].left /\ right[k] = node[k].right
    BY <2>1
  <2>3. Alike(node[k], at(k))
    BY <1>6, <2>1
  <2> HIDE DEF left, right, at
  <2> QED
    BY <1>12, <2>1, <2>2, <2>3 DEF Alike
<1>14. proof[2 * m - 1] = at(m).left /\ proof[2 * m] = end.pre
  <2>1. m \in 1 .. m /\ ~(m < m)
    BY <1>2
  <2>2. left[m] = leaf.left /\ right[m] = end.pre
    BY <2>1
  <2> HIDE DEF left, right, at
  <2> QED
    BY <1>8, <1>12, <2>1, <2>2
<1>15. Proves(proof, states)
  <2> HIDE DEF left, right, node
  <2> QED
    BY <1>12, <1>13, <1>14 DEF Proves
<1>16. r.resultProof = proof /\ r.returnData = end.returnData
  <2> HIDE DEF end, r, t
  <2> QED
    BY <1>4, <1>9 DEF proof
<1> QED
  BY <1>15, <1>16

\* With the last state's hash in its place, every pair has the hash of the half above it.
LEMMA ProofHashes ==
    ASSUME CollisionFree, NEW states \in Executions, NEW proof, Proves(proof, states), NEW data
    PROVE  verifyResultProof(proof, data, root(run(states)).hash)
               <=> stateHash(Last(states).pre, data) = hashOf(Last(states))
<1> DEFINE t == run(states)
           m == Len(t)
           n == Len(states)
           end == Last(states)
           at(k) == LastOf(t, Steps(states), m - k + 1)
           p == WithStateHash(proof, data)
           h == root(t).hash
           parent(i) == IF i = 1 THEN h ELSE RightUnlessZero(p[i - 2], p[i - 1])
           new == stateHash(end.pre, data)
<1>1. TreeOver(t, Steps(states)) /\ Paired(Steps(states)) /\ Injective
  BY ExecutionTree DEF CollisionFree
<1>2. /\ m \in Nat /\ m >= 2 /\ Count(t, Steps(states), m) = 1 /\ root(t) = t[m][1]
  BY <1>1, TopFacts
<1>3. /\ IsSeq(proof) /\ Len(proof) = 2 * m
      /\ \A k \in 1 .. m - 1 : proof[2 * k - 1] = at(k).left /\ proof[2 * k] = at(k).right
      /\ proof[2 * m - 1] = at(m).left /\ proof[2 * m] = end.pre
  BY DEF Proves
<1>4. end.pre # ZERO_HASH
  <2>1. n \in Nat /\ n >= 2 /\ \A i \in 1 .. n : states[i] \in State
    BY ExecutionShape
  <2>2. states[n] \in State
    BY <2>1
  <2> QED
    BY <2>2, TreeUseAssumption DEF Last
<1>5. at(m) = Step(states[n - 1], end)
  <2>1. m - m + 1 = 1
    BY <1>2
  <2>2. LastOf(t, Steps(states), 1) = Step(states[n - 1], states[n])
    BY LastLeaf
  <2> HIDE DEF t, m, n
  <2> QED
    BY <2>1, <2>2 DEF Last, n
<1>6. at(1).hash = h
  <2>1. m - 1 + 1 = m
    BY <1>2
  <2> HIDE DEF t, m
  <2> QED
    BY <1>2, <2>1 DEF LastOf
<1>7. ASSUME NEW k \in 1 .. m
      PROVE  at(k).hash = hash(at(k).left, at(k).right)
  <2> DEFINE l == m - k + 1
  <2>1. l \in 1 .. m
    BY <1>2
  <2> HIDE DEF l
  <2>2. Count(t, Steps(states), l) \in 1 .. Count(t, Steps(states), l)
    <3> HIDE DEF t
    <3>1. Count(t, Steps(states), l) \in Nat \ {0}
      BY <1>1, <2>1, AnyLevel
    <3> QED
      BY <3>1
  <2>3. LastOf(t, Steps(states), l).hash
            = hash(LastOf(t, Steps(states), l).left, LastOf(t, Steps(states), l).right)
    <3> HIDE DEF t
    <3> QED
      BY <1>1, <2>1, <2>2, NodesArePaired DEF LastOf
  <2> QED
    BY <2>3 DEF l
<1>8. ASSUME NEW k \in 2 .. m
      PROVE  at(k).hash = RightUnlessZero(at(k - 1).left, at(k - 1).right)
  <2> DEFINE l == m - k + 1
  <2>1. l \in 1 .. m - 1 /\ m - (k - 1) + 1 = l + 1
    BY <1>2
  <2> HIDE DEF l
  <2>2. RightUnlessZero(LastOf(t, Steps(states), l + 1).left, LastOf(t, Steps(states), l + 1).right)
            = LastOf(t, Steps(states), l).hash
    <3> HIDE DEF t
    <3> QED
      BY <1>1, <2>1, LastBelow
  <2> HIDE DEF t, m
  <2> QED
    BY <2>1, <2>2 DEF l
<1>9. /\ DOMAIN p = 1 .. 2 * m
      /\ \A i \in 1 .. 2 * m - 1 : p[i] = proof[i]
      /\ p[2 * m] = new
  <2> HIDE DEF m, end
  <2>1. DOMAIN proof = 1 .. 2 * m
    BY <1>3, IsSeqLen
  <2>2. p = [proof EXCEPT ![2 * m] = stateHash(@, data)]
    BY <1>3, <1>4 DEF WithStateHash
  <2>3. 2 * m \in 1 .. 2 * m
    BY <1>2
  <2> HIDE DEF p
  <2>4. p[2 * m] = stateHash(proof[2 * m], data)
    BY <2>1, <2>2, <2>3
  <2>5. \A i \in 1 .. 2 * m - 1 : p[i] = proof[i]
    BY <1>2, <2>1, <2>2
  <2>6. DOMAIN p = DOMAIN proof
    BY <2>2
  <2> QED
    BY <1>3, <2>1, <2>4, <2>5, <2>6
<1>10. verifyResultProof(proof, data, h)
           <=> \A i \in {j \in 1 .. 2 * m : j % 2 = 1} : hash(p[i], p[i + 1]) = parent(i)
  <2>1. Len(proof) >= 2 /\ Len(proof) % 2 = 0
    <3> HIDE DEF m
    <3> QED
      BY <1>2, <1>3
  <2> HIDE DEF m, h
  <2> QED
    BY <1>9, <2>1 DEF verifyResultProof
<1> HIDE DEF p, at, new
\* The parents are those of the nodes on the way.
<1>11. ASSUME NEW k \in 1 .. m PROVE parent(2 * k - 1) = at(k).hash
  <2>1. CASE k = 1
    <3>1. 2 * k - 1 = 1
      BY <2>1
    <3> HIDE DEF h
    <3> QED
      BY <1>6, <2>1, <3>1
  <2>2. CASE k # 1
    <3> HIDE DEF m, h
    <3>1. /\ k \in 2 .. m /\ k - 1 \in 1 .. m - 1 /\ 2 * k - 1 # 1
          /\ (2 * k - 1) - 2 = 2 * (k - 1) - 1 /\ (2 * k - 1) - 1 = 2 * (k - 1)
          /\ 2 * (k - 1) - 1 \in 1 .. 2 * m - 1 /\ 2 * (k - 1) \in 1 .. 2 * m - 1
      BY <1>2, <2>2
    <3>2. p[2 * (k - 1) - 1] = at(k - 1).left /\ p[2 * (k - 1)] = at(k - 1).right
      BY <1>3, <1>9, <3>1
    <3>3. parent(2 * k - 1) = RightUnlessZero(p[2 * (k - 1) - 1], p[2 * (k - 1)])
      BY <3>1
    <3> QED
      BY <1>8, <3>1, <3>2, <3>3
  <2> QED
    BY <2>1, <2>2
<1> HIDE DEF parent
<1>12. ASSUME NEW k \in 1 .. m - 1 PROVE hash(p[2 * k - 1], p[2 * k]) = parent(2 * k - 1)
  <2> HIDE DEF m
  <2>1. k \in 1 .. m /\ 2 * k - 1 \in 1 .. 2 * m - 1 /\ 2 * k \in 1 .. 2 * m - 1
    BY <1>2
  <2>2. p[2 * k - 1] = at(k).left /\ p[2 * k] = at(k).right
    BY <1>3, <1>9, <2>1
  <2> QED
    BY <1>7, <1>11, <2>1, <2>2
<1>13. hash(p[2 * m - 1], p[2 * m]) = parent(2 * m - 1) <=> new = hashOf(end)
  <2> HIDE DEF m, end
  <2>1. m \in 1 .. m /\ 2 * m - 1 \in 1 .. 2 * m - 1
    BY <1>2
  <2>2. p[2 * m - 1] = at(m).left /\ p[2 * m] = new
    BY <1>3, <1>9, <2>1
  <2>3. at(m).right = hashOf(end)
    BY <1>5 DEF Step
  <2>4. parent(2 * m - 1) = hash(at(m).left, hashOf(end))
    BY <1>7, <1>11, <2>1, <2>3
  <2> QED
    BY <1>1, <2>2, <2>4 DEF Injective
<1>14. (\A i \in {j \in 1 .. 2 * m : j % 2 = 1} : hash(p[i], p[i + 1]) = parent(i))
           <=> new = hashOf(end)
  <2> HIDE DEF m, end
  <2>1. ASSUME NEW i \in {j \in 1 .. 2 * m : j % 2 = 1}
        PROVE  \E k \in 1 .. m : i = 2 * k - 1 /\ i + 1 = 2 * k
    <3>1. (i + 1) \div 2 \in 1 .. m /\ i = 2 * ((i + 1) \div 2) - 1
      BY <1>2
    <3> QED
      BY <3>1
  <2>2. 2 * m - 1 \in {j \in 1 .. 2 * m : j % 2 = 1} /\ (2 * m - 1) + 1 = 2 * m
    BY <1>2
  <2>3. ASSUME new = hashOf(end), NEW i \in {j \in 1 .. 2 * m : j % 2 = 1}
        PROVE  hash(p[i], p[i + 1]) = parent(i)
    <3>1. PICK k \in 1 .. m : i = 2 * k - 1 /\ i + 1 = 2 * k
      BY <2>1
    <3>2. k = m \/ k \in 1 .. m - 1
      BY <1>2
    <3> QED
      BY <1>12, <1>13, <2>3, <3>1, <3>2
  <2> QED
    BY <1>13, <2>2, <2>3
<1> QED
  BY <1>10, <1>14 DEF new

\* ResultProofAccepted: the proof of every execution is accepted, with the return data of
\* the last state and no other.
THEOREM ResultProofs == ASSUME CollisionFree PROVE Spec => []ResultProofAccepted
<1>1. Built => ResultProofAccepted
  <2> SUFFICES ASSUME Built, IsExecution, claimDepth = 0
               PROVE  LET r == computeResultProof(tree, input.states)
                      IN  /\ Len(r.resultProof) = 2 * depth(tree)
                          /\ \A data \in {s.returnData : s \in State} :
                                 verifyResultProof(r.resultProof, data, root(tree).hash)
                                     = (data = Last(input.states).returnData)
    BY DEF ResultProofAccepted
  <2> DEFINE states == input.states
             proof == computeResultProof(tree, states).resultProof
             end == Last(states)
  <2>1. states \in Executions /\ tree = run(states)
    BY TreeUseAssumption DEF Built
  <2>2. Proves(proof, states)
    BY <2>1, ResultProofMade
  <2>3. Len(proof) = 2 * depth(tree)
    BY <2>1, <2>2 DEF Proves, depth
  <2> HIDE DEF proof
  <2>4. ASSUME NEW data
        PROVE  verifyResultProof(proof, data, root(tree).hash) <=> data = end.returnData
    <3>1. verifyResultProof(proof, data, root(run(states)).hash)
              <=> stateHash(end.pre, data) = hashOf(end)
      BY <2>1, <2>2, ProofHashes
    <3>2. stateHash(end.pre, data) = hashOf(end) <=> data = end.returnData
      BY DEF CollisionFree, hashOf
    <3> QED
      BY <2>1, <3>1, <3>2
  <2>5. \A data : verifyResultProof(proof, data, root(tree).hash) \in BOOLEAN
    BY DEF verifyResultProof
  <2>6. \A data : verifyResultProof(proof, data, root(tree).hash) = (data = end.returnData)
    BY <2>4, <2>5
  <2> QED
    BY <2>3, <2>6 DEF proof
<1> QED
  BY <1>1, AlwaysBuilt, PTL

=============================================================================
