----------------------------- MODULE MerkleTree -----------------------------
(***************************************************************************)
(* The trees off chain: utils/AbstractMerkleTree.js, Merkelizer.js for an  *)
(* execution and FragmentTree.js for a code, with the on-chain checks of   *)
(* their proofs (Enforcer.verifyResultProof, Verifier.verifyCode).         *)
(*                                                                         *)
(* tree[1] is the level of the leaves (this.tree[0]), the last level is    *)
(* the root's.  A node knows its hash and the hashes of its two halves; a  *)
(* leaf of an execution's tree is one step, from the state with hash left  *)
(* to the one with hash right.                                             *)
(***************************************************************************)
EXTENDS Integers, Sequences, SequencesExt

CONSTANTS
    ZERO_HASH,
    hash(_, _),          \* of two hashes
    stateHash(_, _),     \* of a preStateHash and the return data
    leafHash(_, _, _)    \* of a word of code, its slot and the code's length in bytes

zero == [hash |-> ZERO_HASH, left |-> ZERO_HASH, right |-> ZERO_HASH, isLeaf |-> FALSE]

-----------------------------------------------------------------------------
\* Plausible bugs of the definitions below; no specification here uses them.
PaddedWithCopy(level) == IF Len(level) % 2 = 0 THEN level ELSE Append(level, Last(level))
AlwaysRight(proof, returnData, rootHash) ==
    /\ Len(proof) >= 2 /\ Len(proof) % 2 = 0
    /\ LET p == [proof EXCEPT ![Len(proof)] = stateHash(@, returnData)]
       IN  \A i \in {j \in DOMAIN p : j % 2 = 1} :
               hash(p[i], p[i + 1]) = (IF i = 1 THEN rootHash ELSE p[i - 1])
OneLevelShort(executionDepth) == 2^executionDepth \div 4
TreeDepthNotMadeEven(words) == CHOOSE d \in 0 .. words : 2^d <= words /\ words < 2^(d + 1)
-----------------------------------------------------------------------------
\* AbstractMerkleTree.

root(tree) == Last(tree)[1]
\* "we also count leaves"
depth(tree) == Len(tree)

\* A level of odd length gets a zero node; the padding stays in the level.
Padded(level) == IF Len(level) % 2 = 0 THEN level ELSE Append(level, zero)

Parents(level) ==
    [i \in 1 .. Len(level) \div 2 |->
        [hash |-> hash(level[2 * i - 1].hash, level[2 * i].hash),
         left |-> level[2 * i - 1].hash, right |-> level[2 * i].hash, isLeaf |-> FALSE]]

\* Levels are built until one has a single node, but always at least one above
\* the leaves.
recal(leaves) ==
    LET upTo[k \in 0 .. Len(leaves) + 1] ==
            IF k = 0 THEN <<leaves>>
            ELSE LET below == upTo[k - 1]
                     level == Padded(Last(below))
                 IN  IF Len(Last(below)) <= 1 /\ k > 1 THEN below
                     ELSE Front(below) \o <<level, Parents(level)>>
    IN  upTo[Len(leaves) + 1]

\* The first match from the top down, in a level from the right; found are the places
\* <<level, index>> of the matches.
NoNode == [zero EXCEPT !.isLeaf = TRUE]
Places(tree) == UNION {{l} \X DOMAIN tree[l] : l \in DOMAIN tree}
FirstMatch(tree, found) ==
    LET first == CHOOSE a \in found : \A b \in found : b[1] < a[1] \/ (b[1] = a[1] /\ b[2] <= a[2])
    IN  IF found = {} THEN NoNode ELSE tree[first[1]][first[2]]

getNode(tree, h) == FirstMatch(tree, {at \in Places(tree) : tree[at[1]][at[2]].hash = h})
getPair(tree, leftHash, rightHash) ==
    FirstMatch(tree, {at \in Places(tree) :
        tree[at[1]][at[2]].left = leftHash /\ tree[at[1]][at[2]].right = rightHash})

-----------------------------------------------------------------------------
\* Merkelizer.  An execution is the sequence of its states, the initial one first; a
\* state is its preStateHash and its return data.

hashOf(state) == stateHash(state.pre, state.returnData)

Step(from, to) ==
    [hash |-> hash(hashOf(from), hashOf(to)), left |-> hashOf(from), right |-> hashOf(to),
     isLeaf |-> TRUE]

run(states) == recal([i \in 1 .. Len(states) - 1 |-> Step(states[i], states[i + 1])])

\* The half that a pair goes on with.
RightUnlessZero(left, right) == IF right = ZERO_HASH THEN left ELSE right

\* Level by level the halves of the node, in the leaf the last state's preStateHash;
\* at a leaf whose right half is zero the left state is the last one.
computeResultProof(tree, states) ==
    LET stateOf(h) == CHOOSE s \in ToSet(states) : hashOf(s) = h
        node[k \in 1 .. depth(tree)] ==
            IF k = 1 THEN root(tree) ELSE getNode(tree, RightUnlessZero(node[k - 1].left, node[k - 1].right))
        leaf == node[depth(tree)]
        last == stateOf(IF leaf.right = ZERO_HASH THEN leaf.left ELSE leaf.right)
        halves == IF leaf.right = ZERO_HASH THEN <<last.pre, ZERO_HASH>> ELSE <<leaf.left, last.pre>>
    IN  [resultProof |-> FlattenSeq([k \in 1 .. depth(tree) |->
                            IF k < depth(tree) THEN <<node[k].left, node[k].right>> ELSE halves]),
         returnData |-> last.returnData]

\* The proof with the last state's hash put in the place of its preStateHash.
WithStateHash(proof, returnData) ==
    LET n == Len(proof)
        at == IF proof[n] = ZERO_HASH THEN n - 1 ELSE n
    IN  [proof EXCEPT ![at] = stateHash(@, returnData)]

\* verifyResultProof, off chain and in the Enforcer: each pair hashes to the half
\* the pair above goes on with.
verifyResultProof(proof, returnData, rootHash) ==
    /\ Len(proof) >= 2 /\ Len(proof) % 2 = 0
    /\ LET p == WithStateHash(proof, returnData)
           parent(i) == IF i = 1 THEN rootHash ELSE RightUnlessZero(p[i - 2], p[i - 1])
       IN  \A i \in {j \in DOMAIN p : j % 2 = 1} : hash(p[i], p[i + 1]) = parent(i)

\* What a challenger does with a tree deeper than the claim.
LeavesBelow(executionDepth) == 2^(executionDepth - 1)
scaleDown(tree, executionDepth) ==
    IF executionDepth < depth(tree)
    THEN recal(SubSeq(tree[1], 1, LeavesBelow(executionDepth))) ELSE tree

-----------------------------------------------------------------------------
\* FragmentTree: a leaf for every word of the code.  Slots count from 0.

runCode(words, byteLength) ==
    recal([i \in DOMAIN words |->
              [zero EXCEPT !.hash = leafHash(words[i], i - 1, byteLength)]])

\* slot ^ 1
siblingOf(slot) == IF slot % 2 = 0 THEN slot + 1 ELSE slot - 1

calculateProof(tree, slot) ==
    [i \in 1 .. depth(tree) - 1 |-> tree[i][siblingOf(slot \div 2^(i - 1)) + 1].hash]

\* The root that a leaf and a proof lead to, on either side.
ProvenRoot(leaf, slot, proof) ==
    LET up[i \in 0 .. Len(proof)] ==
            IF i = 0 THEN leaf
            ELSE IF (slot \div 2^(i - 1)) % 2 = 0 THEN hash(up[i - 1], proof[i])
            ELSE hash(proof[i], up[i - 1])
    IN  up[Len(proof)]

verifyProof(tree, leaf, slot, proof) == ProvenRoot(leaf, slot, proof) = root(tree).hash

\* Verifier.verifyCode: the number of leaves is made even once and then halved,
\* rounding down; proofs have to have that many hashes.
treeDepth(words) ==
    LET leaveCount == words + (words % 2)
    IN  CHOOSE d \in 0 .. leaveCount : 2^d <= leaveCount /\ leaveCount < 2^(d + 1)

verifyCode(codeHash, word, slot, byteLength, words, proof) ==
    /\ words > 0
    /\ Len(proof) = treeDepth(words)
    /\ ProvenRoot(leafHash(word, slot, byteLength), slot, proof) = codeHash

=============================================================================
