----------------------------- MODULE PokerProofs -----------------------------
(***************************************************************************)
(* The bots on the contracts.  Whatever they compute and however late they *)
(* act, what reaches the contracts is a play of the verification game, so  *)
(* all that is proved of the game holds of them; and every answer that is  *)
(* still to be mined is the one that the dispute waits for.                *)
(***************************************************************************)
EXTENDS Poker, VerificationGameProofs, RecursionProofs

TreeFacts == INSTANCE MerkleTreeProofs WITH ZERO_HASH <- Zero

-----------------------------------------------------------------------------
(***************************************************************************)
(* The nodes of the bots' trees.                                           *)
(***************************************************************************)

\* The trees of Poker are those of MerkleTreeProofs.
LEMMA SameTrees ==
    /\ \A leaves : Trees!recal(leaves) = TreeFacts!recal(leaves)
    /\ \A tree, d : Trees!scaleDown(tree, d) = TreeFacts!scaleDown(tree, d)
    /\ \A tree : Trees!root(tree) = TreeFacts!root(tree)
    /\ \A tree, h : Trees!getNode(tree, h) = TreeFacts!getNode(tree, h)
    /\ \A tree, l, r : Trees!getPair(tree, l, r) = TreeFacts!getPair(tree, l, r)
    /\ Trees!NoNode = TreeFacts!NoNode
<1>1. \A leaves : Trees!recal(leaves) = TreeFacts!recal(leaves)
  BY DEF Trees!recal, TreeFacts!recal, Trees!Padded, TreeFacts!Padded, Trees!Parents,
         TreeFacts!Parents, Trees!zero, TreeFacts!zero, Trees!Last, TreeFacts!Last,
         Trees!Front, TreeFacts!Front
<1>2. \A tree, d : Trees!scaleDown(tree, d) = TreeFacts!scaleDown(tree, d)
  BY <1>1 DEF Trees!scaleDown, TreeFacts!scaleDown, Trees!depth, TreeFacts!depth,
              Trees!LeavesBelow, TreeFacts!LeavesBelow
<1>3. \A tree : Trees!root(tree) = TreeFacts!root(tree)
  BY DEF Trees!root, TreeFacts!root, Trees!Last, TreeFacts!Last
<1>4. Trees!NoNode = TreeFacts!NoNode
  BY Zenon DEF Trees!NoNode, TreeFacts!NoNode, Trees!zero, TreeFacts!zero
<1>5. \A tree, found : Trees!FirstMatch(tree, found) = TreeFacts!FirstMatch(tree, found)
  BY DEF Trees!FirstMatch, TreeFacts!FirstMatch, Trees!NoNode, TreeFacts!NoNode,
         Trees!zero, TreeFacts!zero
<1>6. \A tree : Trees!Places(tree) = TreeFacts!Places(tree)
  BY DEF Trees!Places, TreeFacts!Places
<1>7. \A tree, h : Trees!getNode(tree, h) = TreeFacts!getNode(tree, h)
  BY <1>5, <1>6, Zenon DEF Trees!getNode, TreeFacts!getNode
<1>8. \A tree, l, r : Trees!getPair(tree, l, r) = TreeFacts!getPair(tree, l, r)
  BY <1>5, <1>6, Zenon DEF Trees!getPair, TreeFacts!getPair
<1> QED
  BY <1>1, <1>2, <1>3, <1>4, <1>7, <1>8

\* A leaf is a step that begins in a state.
IsNode(node) == node.isLeaf /\ node # Trees!NoNode => node.left \in StateHash
AreSteps(leaves) == \A i \in 1 .. Len(leaves) : leaves[i].left \in StateHash

\* Its nodes are the leaves it was built over, and others that are none.
LEMMA NodesInTree ==
    ASSUME NEW leaves, NEW tree, TreeFacts!TreeOver(tree, leaves), AreSteps(leaves),
           NEW l \in 1 .. Len(tree), NEW i \in 1 .. Len(tree[l])
    PROVE  IsNode(tree[l][i])
<1> DEFINE m == Len(tree)
           count == Len(TreeFacts!Nodes(tree, leaves, l))
           nodes == TreeFacts!Nodes(tree, leaves, l)
<1>1. /\ m \in Nat /\ m >= 2
      /\ Len(TreeFacts!Nodes(tree, leaves, m)) = 1
      /\ Len(tree[m]) = 1
      /\ tree[m][1] = TreeFacts!Nodes(tree, leaves, m)[1]
  BY TreeFacts!TopFacts DEF TreeFacts!Count
<1>2. count \in Nat /\ (i \in 1 .. count => tree[l][i] = nodes[i])
                    /\ (i > count => tree[l][i] = TreeFacts!zero)
  <2>1. CASE l = m
    BY <1>1, <2>1
  <2>2. CASE l \in 1 .. m - 1
    BY <2>2, TreeFacts!LevelFacts DEF TreeFacts!Count
  <2> QED
    BY <1>1, <2>1, <2>2
<1>3. i \in Nat /\ i >= 1 /\ (i \in 1 .. count \/ i > count)
  BY <1>2
<1>4. CASE i > count
  <2>1. tree[l][i].isLeaf = FALSE
    BY <1>2, <1>4 DEF TreeFacts!zero
  <2> QED
    BY <2>1 DEF IsNode
<1>5. CASE i \in 1 .. count /\ l = 1
  <2>1. nodes = leaves
    BY <1>5 DEF TreeFacts!Nodes
  <2> QED
    BY <1>2, <1>5, <2>1 DEF IsNode, AreSteps
<1>6. CASE i \in 1 .. count /\ l # 1
  <2>1. l - 1 \in 1 .. m - 1 /\ l - 1 \in 1 .. m
    BY <1>1, <1>6
  <2>2. nodes = TreeFacts!Parents(tree[l - 1])
    BY <1>6 DEF TreeFacts!Nodes
  <2>3. TreeFacts!IsSeq(tree[l - 1])
    BY <2>1, TreeFacts!LevelFacts
  <2> DEFINE below == tree[l - 1]
  <2>4. /\ Len(nodes) = Len(below) \div 2
        /\ \A k \in 1 .. Len(below) \div 2 : nodes[k].isLeaf = FALSE
    <3> HIDE DEF below, nodes
    <3>1. nodes = TreeFacts!Parents(below) /\ TreeFacts!IsSeq(below)
      BY <2>2, <2>3 DEF below
    <3>2. \A k \in 1 .. Len(below) \div 2 :
              TreeFacts!Parents(below)[k] =
                  [hash |-> hash(below[2 * k - 1].hash, below[2 * k].hash),
                   left |-> below[2 * k - 1].hash, right |-> below[2 * k].hash,
                   isLeaf |-> FALSE]
      BY <3>1, TreeFacts!ParentsShape
    <3>3. Len(nodes) = Len(below) \div 2
      BY <3>1, TreeFacts!ParentsShape
    <3> QED
      BY <3>1, <3>2, <3>3
  <2>5. nodes[i].isLeaf = FALSE
    BY <1>6, <2>4
  <2> QED
    BY <1>2, <1>6, <2>5 DEF IsNode
<1> QED
  BY <1>3, <1>4, <1>5, <1>6

\* What is found in a tree is one of its nodes, and has the hash that was looked for.
LEMMA NodesFound ==
    ASSUME NEW leaves, NEW tree, TreeFacts!TreeOver(tree, leaves), AreSteps(leaves)
    PROVE  /\ IsNode(Trees!root(tree))
           /\ \A h : /\ IsNode(Trees!getNode(tree, h))
                     /\ Trees!getNode(tree, h) # Trees!NoNode => Trees!getNode(tree, h).hash = h
           /\ \A l, r : IsNode(Trees!getPair(tree, l, r))
<1>1. ASSUME NEW found \in SUBSET TreeFacts!Places(tree)
      PROVE  \/ TreeFacts!FirstMatch(tree, found) = TreeFacts!NoNode
             \/ \E at \in found : /\ TreeFacts!FirstMatch(tree, found) = tree[at[1]][at[2]]
                                  /\ IsNode(tree[at[1]][at[2]])
  <2>1. CASE found = {}
    BY <2>1 DEF TreeFacts!FirstMatch
  <2>2. CASE found # {}
    <3>1. PICK l \in 1 .. Len(tree) : \E i \in 1 .. Len(tree[l]) :
              <<l, i>> \in found /\ TreeFacts!FirstMatch(tree, found) = tree[l][i]
      BY <2>2, TreeFacts!FirstIsFound
    <3>2. PICK i \in 1 .. Len(tree[l]) :
              <<l, i>> \in found /\ TreeFacts!FirstMatch(tree, found) = tree[l][i]
      BY <3>1
    <3>3. IsNode(tree[l][i])
      BY NodesInTree
    <3> DEFINE at == <<l, i>>
    <3>4. at[1] = l /\ at[2] = i
      OBVIOUS
    <3> HIDE DEF at
    <3>5. at \in found /\ TreeFacts!FirstMatch(tree, found) = tree[at[1]][at[2]]
      BY <3>2, <3>4 DEF at
    <3> QED
      BY <3>3, <3>4, <3>5
  <2> QED
    BY <2>1, <2>2
<1>2. IsNode(Trees!NoNode)
  BY DEF IsNode
<1>3. ASSUME NEW h
      PROVE  /\ IsNode(Trees!getNode(tree, h))
             /\ Trees!getNode(tree, h) # Trees!NoNode => Trees!getNode(tree, h).hash = h
  <2> DEFINE found == {at \in TreeFacts!Places(tree) : tree[at[1]][at[2]].hash = h}
  <2>1. Trees!getNode(tree, h) = TreeFacts!FirstMatch(tree, found)
    BY SameTrees DEF TreeFacts!getNode
  <2>2. found \in SUBSET TreeFacts!Places(tree) /\ \A at \in found : tree[at[1]][at[2]].hash = h
    OBVIOUS
  <2> HIDE DEF found
  <2> QED
    BY <1>1, <1>2, <2>1, <2>2, SameTrees
<1>4. ASSUME NEW left, NEW right PROVE IsNode(Trees!getPair(tree, left, right))
  <2> DEFINE found == {at \in TreeFacts!Places(tree) :
                          tree[at[1]][at[2]].left = left /\ tree[at[1]][at[2]].right = right}
  <2>1. Trees!getPair(tree, left, right) = TreeFacts!FirstMatch(tree, found)
    BY SameTrees DEF TreeFacts!getPair
  <2>2. found \in SUBSET TreeFacts!Places(tree)
    OBVIOUS
  <2> HIDE DEF found
  <2> QED
    BY <1>1, <1>2, <2>1, <2>2, SameTrees
<1>5. IsNode(Trees!root(tree))
  <2>1. /\ Len(tree) \in 1 .. Len(tree) /\ 1 \in 1 .. Len(tree[Len(tree)])
        /\ TreeFacts!root(tree) = tree[Len(tree)][1]
    BY TreeFacts!TopFacts
  <2> QED
    BY <2>1, SameTrees, NodesInTree
<1> QED
  BY <1>3, <1>4, <1>5

\* The tree of an execution, and what is left of it at the depth of a claim.
LEMMA ExecutionTrees ==
    ASSUME NEW e \in Execution, NEW tree,
           tree = Tree[e] \/ \E d \in 1 .. maxExecutionDepth : tree = CutTree[e][d]
    PROVE  \E leaves : TreeFacts!TreeOver(tree, leaves) /\ AreSteps(leaves)
<1> DEFINE n == Len(e) - 1
           steps == [i \in 1 .. n |-> Trees!Step(e[i], e[i + 1])]
           whole == Tree[e]
<1>1. n \in Nat /\ n >= 1 /\ \A i \in 1 .. n + 1 : Trees!hashOf(e[i]) \in StateHash
  <2>1. Len(e) \in Nat \ {0, 1} /\ \A i \in 1 .. Len(e) : Trees!hashOf(e[i]) \in StateHash
    BY PokerAssumption, Zenon
  <2>2. n \in Nat /\ n >= 1 /\ n + 1 = Len(e)
    <3>1. \A l \in Nat \ {0, 1} : l - 1 \in Nat /\ l - 1 >= 1 /\ (l - 1) + 1 = l
      OBVIOUS
    <3>2. Len(e) \in Nat \ {0, 1}
      BY <2>1, Zenon
    <3> QED
      BY <3>1, <3>2, Zenon
  <2> QED
    BY <2>1, <2>2, Zenon
<1>2. /\ TreeFacts!IsSeq(steps) /\ Len(steps) = n
      /\ \A i \in 1 .. n : steps[i] = Trees!Step(e[i], e[i + 1])
  <2>1. n \in Nat /\ steps = [i \in 1 .. n |-> steps[i]]
    BY <1>1
  <2>2. \A i \in 1 .. n : steps[i] = Trees!Step(e[i], e[i + 1])
    OBVIOUS
  <2> HIDE DEF steps, n
  <2> QED
    BY <2>1, <2>2, TreeFacts!FunctionIsSeq
<1>3. whole = Trees!recal(steps)
  BY DEF Tree, Trees!run
<1> HIDE DEF n, steps
<1>4. AreSteps(steps)
  <2>1. \A from, to : Trees!Step(from, to).left = Trees!hashOf(from)
    BY DEF Trees!Step
  <2> SUFFICES ASSUME NEW i \in 1 .. Len(steps) PROVE steps[i].left \in StateHash
    BY DEF AreSteps
  <2>2. i \in 1 .. n /\ i \in 1 .. n + 1
    BY <1>1, <1>2
  <2>3. steps[i] = Trees!Step(e[i], e[i + 1])
    BY <1>2, <2>2
  <2>4. steps[i].left = Trees!hashOf(e[i])
    BY <2>1, <2>3
  <2> QED
    BY <1>1, <2>2, <2>4
<1>5. TreeFacts!TreeOver(whole, steps)
  BY <1>1, <1>2, <1>3, SameTrees, TreeFacts!RecalShape
<1> HIDE DEF whole
<1>6. CASE tree = whole
  BY <1>4, <1>5, <1>6
<1>7. ASSUME NEW d \in 1 .. maxExecutionDepth, tree = CutTree[e][d]
      PROVE  \E leaves : TreeFacts!TreeOver(tree, leaves) /\ AreSteps(leaves)
  <2>1. tree = TreeFacts!scaleDown(whole, d)
    <3>1. tree = Trees!scaleDown(whole, d)
      BY <1>7 DEF CutTree, whole
    <3> QED
      BY <3>1, SameTrees
  <2>2. CASE ~(d < Len(whole))
    <3>1. tree = whole
      BY <2>1, <2>2 DEF TreeFacts!scaleDown, TreeFacts!depth
    <3> QED
      BY <3>1, <1>4, <1>5
  <2>3. CASE d < Len(whole)
    <3> DEFINE first == SubSeq(whole[1], 1, TreeFacts!LeavesBelow(d))
    <3>1. Len(whole) \in Nat /\ Len(whole) >= 2 /\ d \in 1 .. Len(whole) - 1 /\ 1 \in 1 .. Len(whole) - 1
      <4>1. Len(whole) \in Nat /\ Len(whole) >= 2
        BY <1>5, TreeFacts!TopFacts
      <4>2. d \in Nat /\ d >= 1
        BY ParameterAssumption
      <4> QED
        BY <2>3, <4>1, <4>2
    <3>2. /\ TreeFacts!IsSeq(first) /\ Len(first) = 2^(d - 1)
          /\ 2^(d - 1) \in Nat \ {0} /\ 2^(d - 1) <= Len(steps)
          /\ \A i \in 1 .. 2^(d - 1) : first[i] = whole[1][i]
      BY <1>5, <3>1, TreeFacts!FirstLeaves
    <3>3. \A i \in 1 .. Len(steps) : whole[1][i] = steps[i]
      <4>1. TreeFacts!Nodes(whole, steps, 1) = steps
        BY DEF TreeFacts!Nodes
      <4>2. \A i \in 1 .. TreeFacts!Count(whole, steps, 1) :
                whole[1][i] = TreeFacts!Nodes(whole, steps, 1)[i]
        BY <1>5, <3>1, TreeFacts!LevelFacts
      <4> QED
        BY <4>1, <4>2 DEF TreeFacts!Count
    <3>4. tree = TreeFacts!recal(first)
      BY <2>1, <2>3 DEF TreeFacts!scaleDown, TreeFacts!depth
    <3> HIDE DEF first
    <3>5. TreeFacts!TreeOver(tree, first)
      <4>1. Len(first) >= 1
        BY <3>2
      <4> QED
        BY <3>2, <3>4, <4>1, TreeFacts!RecalShape
    <3>6. Len(steps) \in Nat
      BY <1>1, <1>2
    <3>7. AreSteps(first)
      <4>1. \A m \in Nat \ {0} : m <= Len(steps) => \A i \in 1 .. m : i \in 1 .. Len(steps)
        BY <3>6
      <4>2. \A i \in 1 .. 2^(d - 1) : i \in 1 .. Len(steps)
        BY <3>2, <4>1, Zenon
      <4> QED
        BY <1>4, <3>2, <3>3, <4>2, Zenon DEF AreSteps
    <3> QED
      BY <3>5, <3>7
  <2> QED
    BY <2>2, <2>3
<1> QED
  BY <1>6, <1>7 DEF whole

\* The trees that a bot plays with.
LEMMA TreesOfBots ==
    ASSUME computed \in [Account -> Execution], NEW a \in Account,
           NEW tree, tree = TreeOf(a) \/ \E d \in 1 .. maxExecutionDepth : tree = TreeAt(a, d)
    PROVE  /\ IsNode(Trees!root(tree))
           /\ \A h : /\ IsNode(Trees!getNode(tree, h))
                     /\ Trees!getNode(tree, h) # Trees!NoNode => Trees!getNode(tree, h).hash = h
           /\ \A l, r : IsNode(Trees!getPair(tree, l, r))
<1>1. computed[a] \in Execution
  OBVIOUS
<1>2. PICK leaves : TreeFacts!TreeOver(tree, leaves) /\ AreSteps(leaves)
  BY <1>1, ExecutionTrees DEF TreeOf, TreeAt
<1> QED
  BY <1>2, NodesFound


-----------------------------------------------------------------------------
(***************************************************************************)
(* Who does what: the account that requested a task registers an execution *)
(* of it and answers for it, everybody else validates and disputes.        *)
(***************************************************************************)

Requester(owner, a, t) == t \in TaskHash /\ tasks[t].startTime # 0 /\ owner[t] = a
Opponent(owner, a, t) == t \in TaskHash /\ tasks[t].startTime # 0 /\ owner[t] # a
Plays(owner, a, id) ==
    id \in DOMAIN disputes /\ (a = Challenger(id) \/ owner[id.execution.task] = a)

EventOK(owner, kind, e) ==
    \/ kind = "Requested" /\ Requester(owner, e.from, e.task)
    \/ /\ kind = "Registered" /\ Requester(owner, e.from, e.execution.task)
       /\ e.execution \in ExecutionId /\ e.depth \in 1 .. maxExecutionDepth
    \/ kind \in {"DisputeInitialised", "DisputeNewRound"} /\ e.id \in DOMAIN disputes

CallOK(owner, a, c) ==
    \/ c.fn = "registerExecution" /\ Requester(owner, a, c.task)
    \/ c.fn = "registered" /\ Requester(owner, a, c.execution.task)
    \/ /\ c.fn = "validateExecution" /\ Opponent(owner, a, c.execution.task)
       /\ c.execution \in ExecutionId /\ c.depth \in 1 .. maxExecutionDepth
    \/ c.fn = "disputed" /\ c.id \in DOMAIN disputes /\ a = Challenger(c.id)
    \/ c.fn \in {"submitRound", "respond"} /\ Plays(owner, a, c.id)

TxOK(owner, a, tx) ==
    \/ /\ tx.fn = "register" /\ Requester(owner, a, tx.execution.task)
       /\ tx.execution \in ExecutionId /\ tx.depth \in ProofDepth
    \/ /\ tx.fn = "dispute" /\ Opponent(owner, a, tx.execution.task)
       /\ tx.execution \in ExecutionId /\ tx.root \in ChallengerRoot
    \/ tx.fn = "respond" /\ Plays(owner, a, tx.id)
    \/ tx.fn = "submitProof" /\ tx.id \in DOMAIN disputes /\ IsNode(tx.leaf)
       /\ tx.leaf.isLeaf /\ tx.leaf # Trees!NoNode

Answers(tx, id) == tx.fn = "respond" /\ tx.id = id

\* What the bots keep has its shape.
BotShape ==
    /\ computed \in [Account -> Execution]
    /\ DOMAIN solutions = Account
    /\ DOMAIN paths = Account
    /\ DOMAIN inbox = Account
    /\ \A a \in Account : DOMAIN inbox[a] = EventKind
    /\ \A a \in Account, kind \in EventKind : IsSeq(inbox[a][kind])
    /\ DOMAIN calls = Account
    /\ DOMAIN txs = Account
    /\ \A a \in Account : IsSeq(txs[a])

SolutionsOK(owner) ==
    \A a \in Account : \A e \in solutions[a] : Requester(owner, a, e.task)
PathsOK(owner) ==
    \A a \in Account : \A id \in DOMAIN paths[a] : Plays(owner, a, id) /\ IsNode(paths[a][id])
InboxOK(owner) ==
    \A a \in Account, kind \in EventKind : \A i \in 1 .. Len(inbox[a][kind]) :
        EventOK(owner, kind, inbox[a][kind][i])
CallsOK(owner) == \A a \in Account : \A c \in calls[a] : CallOK(owner, a, c)
TxsOK(owner) == \A a \in Account : \A i \in 1 .. Len(txs[a]) : TxOK(owner, a, txs[a][i])
DisputesOK(owner) == \A id \in DOMAIN disputes : Opponent(owner, Challenger(id), id.execution.task)

Owned(owner) ==
    /\ SolutionsOK(owner) /\ PathsOK(owner) /\ InboxOK(owner)
    /\ CallsOK(owner) /\ TxsOK(owner) /\ DisputesOK(owner)

-----------------------------------------------------------------------------
(***************************************************************************)
(* What a step does to the queues.                                         *)
(***************************************************************************)

\* The head of a queue is gone, everything behind it is one place further.
LEMMA TailShape ==
    ASSUME NEW q, IsSeq(q), q # << >>
    PROVE  /\ Len(q) \in Nat /\ Len(q) >= 1 /\ Head(q) = q[1]
           /\ IsSeq(Tail(q)) /\ Len(Tail(q)) = Len(q) - 1
           /\ \A i \in 1 .. Len(q) - 1 : Tail(q)[i] = q[i + 1]
<1> DEFINE S == Range(q)
<1>1. q \in Seq(S)
  BY DEF IsSeq
<1> HIDE DEF S
<1>2. Len(q) \in Nat /\ Len(q) # 0
  BY <1>1, EmptySeq, LenProperties
<1>3. /\ Head(q) = q[1] /\ Tail(q) \in Seq(S) /\ Len(Tail(q)) = Len(q) - 1
      /\ \A i \in 1 .. Len(Tail(q)) : Tail(q)[i] = q[i + 1]
  BY <1>1, HeadTailProperties
<1>4. IsSeq(Tail(q))
  BY <1>3, SeqIsSeq
<1> QED
  BY <1>2, <1>3, <1>4

\* The last element of a queue.
LEMMA AppendLast ==
    ASSUME NEW q, IsSeq(q), NEW v
    PROVE  /\ Len(q) \in Nat
           /\ IsSeq(Append(q, v)) /\ Len(Append(q, v)) = Len(q) + 1
           /\ Append(q, v)[Len(q) + 1] = v
           /\ \A i \in 1 .. Len(q) : Append(q, v)[i] = q[i]
<1> DEFINE S == Range(q) \union {v}
<1>1. q \in Seq(S)
  BY SeqMonotonic DEF IsSeq
<1> HIDE DEF S
<1>2. v \in S
  BY DEF S
<1>3. Append(q, v)[Len(q) + 1] = v
  BY <1>1, <1>2, AppendProperties
<1> QED
  BY <1>3, AppendIsSeq, IsSeqLen

\* Where the elements of the queues of the next state come from.
InboxShape ==
    /\ DOMAIN inbox = Account
    /\ \A a \in Account : DOMAIN inbox[a] = EventKind
    /\ \A a \in Account, kind \in EventKind : IsSeq(inbox[a][kind])
TxsShape == DOMAIN txs = Account /\ \A a \in Account : IsSeq(txs[a])

\* An event that is handled leaves its queue.
LEMMA HandleShape ==
    ASSUME InboxShape, NEW b \in Account, NEW k \in EventKind, Told(b, k), Handle(b, k)
    PROVE  /\ InboxShape'
           /\ inbox[b][k] # << >> /\ inbox'[b][k] = Tail(inbox[b][k])
           /\ Event(b, k) = inbox[b][k][1] /\ 1 \in 1 .. Len(inbox[b][k])
           /\ \A a \in Account, kind \in EventKind :
                  ~(a = b /\ kind = k) => inbox'[a][kind] = inbox[a][kind]
           /\ \A a \in Account, kind \in EventKind : \A i \in 1 .. Len(inbox'[a][kind]) :
                  \E j \in 1 .. Len(inbox[a][kind]) : inbox'[a][kind][i] = inbox[a][kind][j]
<1>1. /\ inbox[b][k] # << >>
      /\ inbox' = [inbox EXCEPT ![b][k] = Tail(inbox[b][k])]
      /\ Event(b, k) = Head(inbox[b][k])
  BY DEF Told, Handle, Event
<1>2. IsSeq(inbox[b][k])
  BY DEF InboxShape
<1>3. /\ Len(inbox[b][k]) \in Nat /\ Len(inbox[b][k]) >= 1 /\ Head(inbox[b][k]) = inbox[b][k][1]
      /\ IsSeq(Tail(inbox[b][k])) /\ Len(Tail(inbox[b][k])) = Len(inbox[b][k]) - 1
      /\ \A i \in 1 .. Len(inbox[b][k]) - 1 : Tail(inbox[b][k])[i] = inbox[b][k][i + 1]
  BY <1>1, <1>2, TailShape
<1>4. /\ DOMAIN inbox' = Account /\ \A a \in Account : DOMAIN inbox'[a] = EventKind
      /\ inbox'[b][k] = Tail(inbox[b][k])
      /\ \A a \in Account, kind \in EventKind :
             ~(a = b /\ kind = k) => inbox'[a][kind] = inbox[a][kind]
  BY <1>1 DEF InboxShape
<1>5. ASSUME NEW a \in Account, NEW kind \in EventKind
      PROVE  /\ IsSeq(inbox'[a][kind])
             /\ \A i \in 1 .. Len(inbox'[a][kind]) :
                    \E j \in 1 .. Len(inbox[a][kind]) : inbox'[a][kind][i] = inbox[a][kind][j]
  <2>1. CASE a = b /\ kind = k
    <3> DEFINE q == inbox[b][k]
    <3>1. inbox[a][kind] = q /\ inbox'[a][kind] = Tail(q)
      BY <1>4, <2>1
    <3>2. /\ Len(q) \in Nat /\ IsSeq(Tail(q)) /\ Len(Tail(q)) = Len(q) - 1
          /\ \A i \in 1 .. Len(q) - 1 : Tail(q)[i] = q[i + 1]
      BY <1>3
    <3> HIDE DEF q
    <3>3. \A i \in 1 .. Len(q) - 1 : i + 1 \in 1 .. Len(q)
      BY <3>2
    <3> QED
      BY <3>1, <3>2, <3>3
  <2>2. CASE ~(a = b /\ kind = k)
    BY <1>4, <2>2 DEF InboxShape
  <2> QED
    BY <2>1, <2>2
<1>6. InboxShape'
  BY <1>4, <1>5 DEF InboxShape
<1>7. 1 \in 1 .. Len(inbox[b][k])
  BY <1>3
<1> QED
  BY <1>1, <1>3, <1>4, <1>5, <1>6, <1>7

\* An event that is emitted goes to the end of everybody's queue.
LEMMA EmitShape ==
    ASSUME InboxShape, NEW k \in EventKind, NEW e, Emit(k, e)
    PROVE  /\ InboxShape'
           /\ \A a \in Account : inbox'[a][k] = Append(inbox[a][k], e)
           /\ \A a \in Account, kind \in EventKind :
                  kind # k => inbox'[a][kind] = inbox[a][kind]
           /\ \A a \in Account, kind \in EventKind : \A i \in 1 .. Len(inbox'[a][kind]) :
                  \/ kind = k /\ inbox'[a][kind][i] = e
                  \/ \E j \in 1 .. Len(inbox[a][kind]) : inbox'[a][kind][i] = inbox[a][kind][j]
<1>1. inbox' = [a \in Account |-> [inbox[a] EXCEPT ![k] = Append(inbox[a][k], e)]]
  BY DEF Emit
<1>2. /\ DOMAIN inbox' = Account /\ \A a \in Account : DOMAIN inbox'[a] = EventKind
      /\ \A a \in Account : inbox'[a][k] = Append(inbox[a][k], e)
      /\ \A a \in Account, kind \in EventKind : kind # k => inbox'[a][kind] = inbox[a][kind]
  BY <1>1 DEF InboxShape
<1>3. ASSUME NEW a \in Account, NEW kind \in EventKind
      PROVE  /\ IsSeq(inbox'[a][kind])
             /\ \A i \in 1 .. Len(inbox'[a][kind]) :
                    \/ kind = k /\ inbox'[a][kind][i] = e
                    \/ \E j \in 1 .. Len(inbox[a][kind]) : inbox'[a][kind][i] = inbox[a][kind][j]
  <2>1. CASE kind = k
    <3> DEFINE q == inbox[a][k]
    <3>1. IsSeq(q) /\ inbox'[a][kind] = Append(q, e)
      BY <1>2, <2>1 DEF InboxShape
    <3> HIDE DEF q
    <3>2. /\ Len(q) \in Nat
          /\ IsSeq(Append(q, e)) /\ Len(Append(q, e)) = Len(q) + 1
          /\ Append(q, e)[Len(q) + 1] = e
          /\ \A i \in 1 .. Len(q) : Append(q, e)[i] = q[i]
      BY <3>1, AppendLast
    <3>3. \A i \in 1 .. Len(q) + 1 : i \in 1 .. Len(q) \/ i = Len(q) + 1
      BY <3>2
    <3>4. \A i \in 1 .. Len(Append(q, e)) :
              Append(q, e)[i] = e \/ \E j \in 1 .. Len(q) : Append(q, e)[i] = q[j]
      BY <3>2, <3>3
    <3> QED
      BY <2>1, <3>1, <3>2, <3>4 DEF q
  <2>2. CASE kind # k
    BY <1>2, <2>2 DEF InboxShape
  <2> QED
    BY <2>1, <2>2
<1>4. InboxShape'
  BY <1>2, <1>3 DEF InboxShape
<1> QED
  BY <1>2, <1>3, <1>4

\* A transaction that is sent goes to the end of its sender's queue.
LEMMA SendShape ==
    ASSUME TxsShape, NEW b \in Account, NEW tx, Send(b, tx)
    PROVE  /\ TxsShape'
           /\ txs'[b] = Append(txs[b], tx)
           /\ \A a \in Account \ {b} : txs'[a] = txs[a]
           /\ \A a \in Account : \A i \in 1 .. Len(txs'[a]) :
                  \/ a = b /\ txs'[a][i] = tx
                  \/ \E j \in 1 .. Len(txs[a]) : txs'[a][i] = txs[a][j]
<1> DEFINE q == txs[b]
<1>1. /\ DOMAIN txs' = Account /\ txs'[b] = Append(q, tx)
      /\ \A a \in Account \ {b} : txs'[a] = txs[a]
  BY DEF Send, TxsShape
<1>2. IsSeq(q)
  BY DEF TxsShape
<1> HIDE DEF q
<1>3. /\ Len(q) \in Nat
      /\ IsSeq(Append(q, tx)) /\ Len(Append(q, tx)) = Len(q) + 1
      /\ Append(q, tx)[Len(q) + 1] = tx
      /\ \A i \in 1 .. Len(q) : Append(q, tx)[i] = q[i]
  BY <1>2, AppendLast
<1>4. \A i \in 1 .. Len(q) + 1 : i \in 1 .. Len(q) \/ i = Len(q) + 1
  BY <1>3
<1>5. \A i \in 1 .. Len(Append(q, tx)) :
          Append(q, tx)[i] = tx \/ \E j \in 1 .. Len(q) : Append(q, tx)[i] = q[j]
  BY <1>3, <1>4
<1>6. ASSUME NEW a \in Account
      PROVE  /\ IsSeq(txs'[a])
             /\ \A i \in 1 .. Len(txs'[a]) :
                    \/ a = b /\ txs'[a][i] = tx
                    \/ \E j \in 1 .. Len(txs[a]) : txs'[a][i] = txs[a][j]
  <2>1. CASE a = b
    <3>1. txs[a] = q /\ txs'[a] = Append(q, tx)
      BY <1>1, <2>1 DEF q
    <3> QED
      BY <1>3, <1>5, <2>1, <3>1
  <2>2. CASE a # b
    BY <1>1, <2>2 DEF TxsShape
  <2> QED
    BY <2>1, <2>2
<1>7. TxsShape'
  BY <1>1, <1>6 DEF TxsShape
<1> QED
  BY <1>1, <1>6, <1>7 DEF q

\* A transaction that is mined leaves its sender's queue.
LEMMA MinedShape ==
    ASSUME TxsShape, NEW b \in Account, txs[b] # << >>, Mined(b)
    PROVE  /\ TxsShape'
           /\ txs'[b] = Tail(txs[b])
           /\ Head(txs[b]) = txs[b][1] /\ 1 \in 1 .. Len(txs[b])
           /\ \A a \in Account \ {b} : txs'[a] = txs[a]
           /\ \A a \in Account : \A i \in 1 .. Len(txs'[a]) :
                  \E j \in 1 .. Len(txs[a]) : txs'[a][i] = txs[a][j]
<1> DEFINE q == txs[b]
<1>1. /\ DOMAIN txs' = Account /\ txs'[b] = Tail(q)
      /\ \A a \in Account \ {b} : txs'[a] = txs[a]
  BY DEF Mined, TxsShape
<1>2. IsSeq(q) /\ q # << >>
  BY DEF TxsShape
<1> HIDE DEF q
<1>3. /\ Len(q) \in Nat /\ Len(q) >= 1 /\ Head(q) = q[1]
      /\ IsSeq(Tail(q)) /\ Len(Tail(q)) = Len(q) - 1
      /\ \A i \in 1 .. Len(q) - 1 : Tail(q)[i] = q[i + 1]
  BY <1>2, TailShape
<1>4. \A i \in 1 .. Len(q) - 1 : i + 1 \in 1 .. Len(q)
  BY <1>3
<1>5. 1 \in 1 .. Len(q) /\ \A i \in 1 .. Len(Tail(q)) : \E j \in 1 .. Len(q) : Tail(q)[i] = q[j]
  BY <1>3, <1>4
<1>6. ASSUME NEW a \in Account
      PROVE  /\ IsSeq(txs'[a])
             /\ \A i \in 1 .. Len(txs'[a]) :
                    \E j \in 1 .. Len(txs[a]) : txs'[a][i] = txs[a][j]
  <2>1. CASE a = b
    <3>1. txs[a] = q /\ txs'[a] = Tail(q)
      BY <1>1, <2>1 DEF q
    <3> QED
      BY <1>3, <1>5, <2>1, <3>1
  <2>2. CASE a # b
    BY <1>1, <2>2 DEF TxsShape
  <2> QED
    BY <2>1, <2>2
<1>7. TxsShape'
  BY <1>1, <1>6 DEF TxsShape
<1> QED
  BY <1>1, <1>3, <1>5, <1>6, <1>7 DEF q


-----------------------------------------------------------------------------
(***************************************************************************)
(* Nothing that was said of an event, a call or a transaction is ever      *)
(* taken back: a task keeps its requester, a dispute its challenger.       *)
(***************************************************************************)

KeptFor(owner, later) ==
    /\ \A t \in TaskHash : tasks[t].startTime # 0 =>
           tasks'[t].startTime # 0 /\ later[t] = owner[t]
    /\ \A id \in DOMAIN disputes :
           id \in DOMAIN disputes' /\ disputes'[id].challengerAddr = disputes[id].challengerAddr

\* What was right to say of an account, an event, a call or a transaction remains so.
LEMMA StillOK ==
    ASSUME NEW owner, NEW later, KeptFor(owner, later), DisputesOK(owner)
    PROVE  /\ \A a, t : Requester(owner, a, t) => Requester(later, a, t)'
           /\ \A a, t : Opponent(owner, a, t) => Opponent(later, a, t)'
           /\ \A a, id : Plays(owner, a, id) => Plays(later, a, id)'
           /\ \A kind, e : EventOK(owner, kind, e) => EventOK(later, kind, e)'
           /\ \A a, c : CallOK(owner, a, c) => CallOK(later, a, c)'
           /\ \A a, tx : TxOK(owner, a, tx) => TxOK(later, a, tx)'
           /\ \A id \in DOMAIN disputes : Opponent(later, Challenger(id), id.execution.task)'
<1>1. \A a, t : Requester(owner, a, t) => Requester(later, a, t)'
  BY DEF KeptFor, Requester
<1>2. \A a, t : Opponent(owner, a, t) => Opponent(later, a, t)'
  BY DEF KeptFor, Opponent
<1>3. \A id \in DOMAIN disputes :
          /\ id \in DOMAIN disputes' /\ Challenger(id)' = Challenger(id)
          /\ later[id.execution.task] = owner[id.execution.task]
          /\ Opponent(owner, Challenger(id), id.execution.task)
  BY DEF KeptFor, Challenger, DisputesOK, Opponent
<1>4. \A a, id : Plays(owner, a, id) => Plays(later, a, id)'
  BY <1>3 DEF Plays
<1>5. \A kind, e : EventOK(owner, kind, e) => EventOK(later, kind, e)'
  BY <1>1, <1>3 DEF EventOK
<1>6. \A a, c : CallOK(owner, a, c) => CallOK(later, a, c)'
  BY <1>1, <1>2, <1>3, <1>4 DEF CallOK
<1>7. \A a, tx : TxOK(owner, a, tx) => TxOK(later, a, tx)'
  BY <1>1, <1>2, <1>3, <1>4 DEF TxOK
<1>8. \A id \in DOMAIN disputes : Opponent(later, Challenger(id), id.execution.task)'
  BY <1>2, <1>3
<1> QED
  BY <1>1, <1>2, <1>4, <1>5, <1>6, <1>7, <1>8

\* So only what is new has to be looked at.
LEMMA OnlyNew ==
    ASSUME NEW owner, NEW later, KeptFor(owner, later), Owned(owner)
    PROVE  /\ (\A a \in Account : \A e \in solutions'[a] :
                  \/ a \in DOMAIN solutions /\ e \in solutions[a]
                  \/ Requester(later, a, e.task)')
                  => SolutionsOK(later)'
           /\ (\A a \in Account : \A id \in DOMAIN paths'[a] :
                  \/ id \in DOMAIN paths[a] /\ paths'[a][id] = paths[a][id]
                  \/ Plays(later, a, id)' /\ IsNode(paths'[a][id]))
                  => PathsOK(later)'
           /\ (\A a \in Account, kind \in EventKind : \A i \in 1 .. Len(inbox'[a][kind]) :
                  \/ EventOK(later, kind, inbox[a][kind][i])'
                  \/ \E j \in 1 .. Len(inbox[a][kind]) : inbox'[a][kind][i] = inbox[a][kind][j])
                  => InboxOK(later)'
           /\ (\A a \in Account : \A c \in calls'[a] : c \in calls[a] \/ CallOK(later, a, c)')
                  => CallsOK(later)'
           /\ (\A a \in Account : \A i \in 1 .. Len(txs'[a]) :
                  \/ TxOK(later, a, txs[a][i])'
                  \/ \E j \in 1 .. Len(txs[a]) : txs'[a][i] = txs[a][j])
                  => TxsOK(later)'
           /\ (\A id \in DOMAIN disputes' :
                  id \in DOMAIN disputes \/ Opponent(later, Challenger(id), id.execution.task)')
                  => DisputesOK(later)'
<1>0. /\ SolutionsOK(owner) /\ PathsOK(owner) /\ InboxOK(owner)
      /\ CallsOK(owner) /\ TxsOK(owner) /\ DisputesOK(owner)
  BY DEF Owned
<1>1. ASSUME \A a \in Account : \A e \in solutions'[a] :
                 \/ a \in DOMAIN solutions /\ e \in solutions[a]
                 \/ Requester(later, a, e.task)'
      PROVE  SolutionsOK(later)'
  BY <1>0, <1>1, StillOK DEF SolutionsOK
<1>2. ASSUME \A a \in Account : \A id \in DOMAIN paths'[a] :
                 \/ id \in DOMAIN paths[a] /\ paths'[a][id] = paths[a][id]
                 \/ Plays(later, a, id)' /\ IsNode(paths'[a][id])
      PROVE  PathsOK(later)'
  <2> SUFFICES ASSUME NEW a \in Account, NEW id \in DOMAIN paths'[a]
               PROVE  Plays(later, a, id)' /\ IsNode(paths'[a][id])
    BY DEF PathsOK
  <2>1. CASE id \in DOMAIN paths[a] /\ paths'[a][id] = paths[a][id]
    <3>1. Plays(owner, a, id) /\ IsNode(paths[a][id])
      BY <1>0, <2>1 DEF PathsOK
    <3> QED
      BY <1>0, <2>1, <3>1, StillOK
  <2> QED
    BY <1>2, <2>1
<1>3. ASSUME \A a \in Account, kind \in EventKind : \A i \in 1 .. Len(inbox'[a][kind]) :
                 \/ EventOK(later, kind, inbox[a][kind][i])'
                 \/ \E j \in 1 .. Len(inbox[a][kind]) : inbox'[a][kind][i] = inbox[a][kind][j]
      PROVE  InboxOK(later)'
  <2> SUFFICES ASSUME NEW a \in Account, NEW kind \in EventKind,
                      NEW i \in 1 .. Len(inbox'[a][kind])
               PROVE  EventOK(later, kind, inbox[a][kind][i])'
    BY DEF InboxOK
  <2>1. ASSUME NEW j \in 1 .. Len(inbox[a][kind]), inbox'[a][kind][i] = inbox[a][kind][j]
        PROVE  EventOK(later, kind, inbox[a][kind][i])'
    <3>1. EventOK(owner, kind, inbox[a][kind][j])
      BY <1>0 DEF InboxOK
    <3>2. \A k, e : EventOK(owner, k, e) => EventOK(later, k, e)'
      BY <1>0, StillOK
    <3> QED
      BY <2>1, <3>1, <3>2
  <2> QED
    BY <1>3, <2>1
<1>4. ASSUME \A a \in Account : \A c \in calls'[a] : c \in calls[a] \/ CallOK(later, a, c)'
      PROVE  CallsOK(later)'
  BY <1>0, <1>4, StillOK DEF CallsOK
<1>5. ASSUME \A a \in Account : \A i \in 1 .. Len(txs'[a]) :
                 \/ TxOK(later, a, txs[a][i])'
                 \/ \E j \in 1 .. Len(txs[a]) : txs'[a][i] = txs[a][j]
      PROVE  TxsOK(later)'
  <2> SUFFICES ASSUME NEW a \in Account, NEW i \in 1 .. Len(txs'[a])
               PROVE  TxOK(later, a, txs[a][i])'
    BY DEF TxsOK
  <2>1. ASSUME NEW j \in 1 .. Len(txs[a]), txs'[a][i] = txs[a][j]
        PROVE  TxOK(later, a, txs[a][i])'
    <3>1. TxOK(owner, a, txs[a][j])
      BY <1>0 DEF TxsOK
    <3>2. \A k, e : TxOK(owner, k, e) => TxOK(later, k, e)'
      BY <1>0, StillOK
    <3> QED
      BY <2>1, <3>1, <3>2
  <2> QED
    BY <1>5, <2>1
<1>6. ASSUME \A id \in DOMAIN disputes' :
                 id \in DOMAIN disputes \/ Opponent(later, Challenger(id), id.execution.task)'
      PROVE  DisputesOK(later)'
  BY <1>0, <1>6, StillOK DEF DisputesOK
<1> QED
  BY <1>1, <1>2, <1>3, <1>4, <1>5, <1>6


-----------------------------------------------------------------------------
(***************************************************************************)
(* The bots play the game: each of their steps is one of the contracts, or *)
(* none.                                                                   *)
(***************************************************************************)

\* The transaction to be mined next.
LEMMA NextTx ==
    ASSUME NEW owner, BotShape, TxsOK(owner), NEW a \in Account, NEW fn, ToMine(a, fn)
    PROVE  /\ TxOK(owner, a, Head(txs[a])) /\ Head(txs[a]).fn = fn
           /\ txs[a] # << >> /\ Head(txs[a]) = txs[a][1] /\ 1 \in 1 .. Len(txs[a])
<1>1. txs[a] # << >> /\ Head(txs[a]).fn = fn /\ IsSeq(txs[a])
  BY DEF ToMine, BotShape
<1>2. Head(txs[a]) = txs[a][1] /\ 1 \in 1 .. Len(txs[a])
  <2>1. Len(txs[a]) \in Nat /\ Len(txs[a]) >= 1 /\ Head(txs[a]) = txs[a][1]
    BY <1>1, TailShape
  <2> QED
    BY <2>1
<1> QED
  BY <1>1, <1>2 DEF TxsOK

\* A registration that is mined is one of the game.
LEMMA RegisterIsPlayed ==
    ASSUME NEW owner, BotShape, TxsOK(owner), NEW a \in Account, mineRegister(a)
    PROVE  Next
<1> DEFINE tx == Head(txs[a])
<1>1. /\ ToMine(a, "register") /\ Register(a, tx.execution, tx.depth)
      /\ UNCHANGED <<now, disputes>>
  BY DEF mineRegister
<1>2. TxOK(owner, a, tx) /\ tx.fn = "register"
  BY <1>1, NextTx
<1> HIDE DEF tx
<1>3. tx.execution \in ExecutionId /\ tx.depth \in ProofDepth
  BY <1>2 DEF TxOK
<1> QED
  BY <1>1, <1>3 DEF Next

\* So is a dispute, opened by somebody who did not request the task.
LEMMA DisputeIsPlayed ==
    ASSUME NEW owner, BotShape, TxsOK(owner), NEW a \in Account, mineDispute(a)
    PROVE  LET tx == Head(txs[a])
           IN  /\ Next
               /\ Dispute(a, tx.execution, tx.root)
               /\ tx.execution \in DOMAIN executions /\ tx.root \in ChallengerRoot
               /\ Opponent(owner, a, tx.execution.task)
<1> DEFINE tx == Head(txs[a])
<1>1. /\ ToMine(a, "dispute") /\ Dispute(a, tx.execution, tx.root)
      /\ now' = now
  BY DEF mineDispute
<1>2. TxOK(owner, a, tx) /\ tx.fn = "dispute"
  BY <1>1, NextTx
<1> HIDE DEF tx
<1>3. tx.root \in ChallengerRoot /\ Opponent(owner, a, tx.execution.task)
  BY <1>2 DEF TxOK
<1>4. tx.execution \in DOMAIN executions
  BY <1>1 DEF Dispute, ChargeChallenger, Registered
<1>5. Next
  BY <1>1, <1>3, <1>4 DEF Next
<1> QED
  BY <1>1, <1>3, <1>4, <1>5 DEF tx

\* So is a response, given by a player of the dispute.
LEMMA RespondIsPlayed ==
    ASSUME NEW owner, BotShape, TxsOK(owner), NEW a \in Account, mineRespond(a)
    PROVE  LET tx == Head(txs[a])
           IN  /\ Next
               /\ Plays(owner, a, tx.id) /\ Answers(tx, tx.id)
               /\ \E verdict \in Verdict : Respond(tx.id, tx.hash, verdict) /\ Notify(tx.id, verdict)
<1> DEFINE tx == Head(txs[a])
<1>1. ToMine(a, "respond") /\ RespondTaken(tx) /\ now' = now
  BY DEF mineRespond
<1>2. TxOK(owner, a, tx) /\ tx.fn = "respond"
  BY <1>1, NextTx
<1> HIDE DEF tx
<1>3. Plays(owner, a, tx.id) /\ tx.id \in DOMAIN disputes
  BY <1>2 DEF TxOK, Plays
<1>4. PICK verdict \in Verdict : Respond(tx.id, tx.hash, verdict) /\ Notify(tx.id, verdict)
  BY <1>1 DEF RespondTaken
<1>5. tx.hash \in {disputes[tx.id].solverPath, disputes[tx.id].challengerPath}
  BY <1>4 DEF Respond
<1>6. Play(tx.id)
  BY <1>4, <1>5 DEF Play
<1>7. Next
  BY <1>1, <1>3, <1>6 DEF Next
<1> QED
  BY <1>2, <1>3, <1>4, <1>7 DEF tx, Answers

\* So is a proof: the leaf that it is for begins in a state.
LEMMA ProofIsPlayed ==
    ASSUME NEW owner, BotShape, TxsOK(owner), NEW a \in Account, mineSubmitProof(a)
    PROVE  LET tx == Head(txs[a])
           IN  /\ Next
               /\ tx.id \in DOMAIN disputes /\ Play(tx.id) /\ ProofTaken(tx)
<1> DEFINE tx == Head(txs[a])
<1>1. ToMine(a, "submitProof") /\ ProofTaken(tx) /\ now' = now
  BY DEF mineSubmitProof
<1>2. TxOK(owner, a, tx) /\ tx.fn = "submitProof"
  BY <1>1, NextTx
<1> HIDE DEF tx
<1>3. tx.id \in DOMAIN disputes /\ tx.leaf.left \in StateHash
  BY <1>2 DEF TxOK, IsNode
<1>4. Play(tx.id)
  BY <1>1, <1>3 DEF ProofTaken, Play
<1>5. Next
  BY <1>1, <1>3, <1>4 DEF Next
<1> QED
  BY <1>1, <1>3, <1>4, <1>5 DEF tx

\* So is what no bot does.
LEMMA OutsideIsPlayed ==
    ASSUME Outside
    PROVE  /\ Next /\ UNCHANGED botVars
           /\ \/ UNCHANGED <<tasks, disputes>>
              \/ \E id \in DOMAIN disputes, verdict \in Verdict :
                     ClaimTimeout(id, verdict) /\ Notify(id, verdict)
<1>1. CASE Quiet /\ Tick /\ UNCHANGED <<enforcerVars, disputes, botVars>>
  BY <1>1 DEF Next, enforcerVars
<1>2. ASSUME NEW id \in DOMAIN disputes, NEW verdict \in Verdict,
             ClaimTimeout(id, verdict), Notify(id, verdict), UNCHANGED <<now, botVars>>
      PROVE  Next
  BY <1>2 DEF Next, Play
<1> QED
  BY <1>1, <1>2 DEF Outside

\* Every step of the bots and the chain is a step of the game, or none.
LEMMA PokerPlays ==
    ASSUME NEW owner, BotShape, TxsOK(owner), [PokerNext]_pokerVars
    PROVE  [Next]_vars
<1>1. ASSUME NEW a \in Account, NEW t \in TaskHash, requestExecution(a, t) PROVE Next
  BY <1>1 DEF requestExecution, Next
<1>2. ASSUME NEW a \in Account, Bot(a) PROVE UNCHANGED vars
  BY <1>2 DEF Bot, onRequested, onRegistered, onDisputeInitialised, onNewRound,
      registerExecution, registered, validateExecution, disputed, readDispute, submitRound
<1>3. ASSUME NEW a \in Account, Mine(a) PROVE [Next]_vars
  <2>1. CASE mineRegister(a)
    BY <2>1, RegisterIsPlayed
  <2>2. CASE mineDispute(a)
    BY <2>2, DisputeIsPlayed
  <2>3. CASE mineRespond(a)
    BY <2>3, RespondIsPlayed
  <2>4. CASE mineSubmitProof(a)
    BY <2>4, ProofIsPlayed
  <2>5. CASE mineInVain(a)
    BY <2>5 DEF mineInVain
  <2> QED
    BY <1>3, <2>1, <2>2, <2>3, <2>4, <2>5 DEF Mine
<1>4. CASE Outside
  BY <1>4, OutsideIsPlayed
<1>5. CASE UNCHANGED pokerVars
  BY <1>5 DEF pokerVars
<1> QED
  BY <1>1, <1>2, <1>3, <1>4, <1>5 DEF PokerNext, BotsAct


-----------------------------------------------------------------------------
(***************************************************************************)
(* Owned is kept.                                                          *)
(***************************************************************************)

\* The list of a task is written, or its time while it has none.
LEMMA StartsKept ==
    ASSUME NEW ts \in [TaskHash -> Task], NEW later
    PROVE  /\ \A k, list : later = [ts EXCEPT ![k].executions = list] =>
                  \A t \in TaskHash : later[t].startTime = ts[t].startTime
           /\ \A k \in TaskHash, n \in Nat \ {0} : later = [ts EXCEPT ![k].startTime = n] =>
                  \A t \in TaskHash : ts[t].startTime # 0 => later[t].startTime # 0
<1>0. \A t \in TaskHash : ts[t] \in Task
  OBVIOUS
<1>1. ASSUME NEW k, NEW list, later = [ts EXCEPT ![k].executions = list], NEW t \in TaskHash
      PROVE  later[t].startTime = ts[t].startTime
  <2>1. later[t] = IF t = k THEN [ts[k] EXCEPT !.executions = list] ELSE ts[t]
    BY <1>1
  <2> QED
    BY <1>0, <2>1 DEF Task
<1>2. ASSUME NEW k \in TaskHash, NEW n \in Nat \ {0}, later = [ts EXCEPT ![k].startTime = n],
             NEW t \in TaskHash, ts[t].startTime # 0
      PROVE  later[t].startTime # 0
  <2>1. later[t] = IF t = k THEN [ts[k] EXCEPT !.startTime = n] ELSE ts[t]
    BY <1>2
  <2> QED
    BY <1>0, <1>2, <2>1 DEF Task
<1> QED
  BY <1>1, <1>2

\* A task that was requested stays so, and a dispute keeps its challenger.
LEMMA GameKeeps ==
    ASSUME NEW owner, TypeOK, [Next]_vars
    PROVE  KeptFor(owner, owner)
<1>1. now \in Nat \ {0} /\ tasks \in [TaskHash -> Task]
  BY DEF TypeOK, EnforcerTypeOK
<1> DEFINE Started == \A t \in TaskHash : tasks[t].startTime # 0 => tasks'[t].startTime # 0
<1>2. Started
  <2>1. [EnforcerNext]_<<now, enforcerVars>>
    BY StepIsEnforcerStep
  <2>2. CASE UNCHANGED tasks
    BY <2>2
  <2>3. ASSUME NEW t \in TaskHash, Request(t) PROVE Started
    <3>1. tasks' = [tasks EXCEPT ![t].startTime = now]
      BY <2>3 DEF Request
    <3> QED
      BY <1>1, <3>1, StartsKept
  <2>4. ASSUME NEW k, NEW list, tasks' = [tasks EXCEPT ![k].executions = list] PROVE Started
    <3>1. \A t \in TaskHash : tasks'[t].startTime = tasks[t].startTime
      BY <1>1, <2>4, StartsKept
    <3> QED
      BY <3>1
  <2> HIDE DEF Started
  <2>5. ASSUME NEW a \in Account, NEW id \in ExecutionId, NEW depth \in ProofDepth,
               Register(a, id, depth)
        PROVE  Started
    <3>1. tasks' = [tasks EXCEPT ![id.task].executions = Append(tasks[id.task].executions, id)]
      BY <2>5 DEF Register
    <3> QED
      BY <2>4, <3>1
  <2>6. ASSUME NEW a, NEW id, NEW solverWon, Result(id, solverWon, a)
        PROVE  Started
    <3>1. CASE SolverWon(id, a)
      BY <2>2, <3>1 DEF SolverWon
    <3>2. CASE ChallengerWon(id, a)
      <4>1. tasks' = [tasks EXCEPT ![id.task].executions = ClearSlot(tasks[id.task].executions, id)]
        BY <3>2 DEF ChallengerWon
      <4> QED
        BY <2>4, <4>1
    <3> QED
      BY <2>6, <3>1, <3>2 DEF Result
  <2>7. ASSUME NEW a, NEW id, ChargeChallenger(a, id) PROVE Started
    BY <2>2, <2>7 DEF ChargeChallenger
  <2>8. CASE UNCHANGED enforcerVars
    BY <2>2, <2>8 DEF enforcerVars
  <2>9. CASE UNCHANGED <<now, enforcerVars>>
    BY <2>8, <2>9
  <2> QED
    BY <2>1, <2>3, <2>5, <2>6, <2>7, <2>8, <2>9 DEF EnforcerNext
<1>3. \A id \in DOMAIN disputes :
          id \in DOMAIN disputes' /\ disputes'[id].challengerAddr = disputes[id].challengerAddr
  <2> DEFINE Kept == \A id \in DOMAIN disputes :
          id \in DOMAIN disputes' /\ disputes'[id].challengerAddr = disputes[id].challengerAddr
  <2>1. ASSUME UNCHANGED disputes PROVE Kept
    BY <2>1
  <2>2. ASSUME NEW id \in DOMAIN disputes, Play(id) PROVE Kept
    <3>1. PICK r \in DisputeRecord, verdict \in Verdict : Played(id, r, verdict)
      BY <2>2, PlayStep
    <3>2. disputes' = [disputes EXCEPT ![id] = r] /\ r.challengerAddr = disputes[id].challengerAddr
      BY <3>1 DEF Played, Move
    <3> QED
      BY <3>2
  <2>3. ASSUME NEW a \in Account, NEW execution \in DOMAIN executions,
               NEW root \in ChallengerRoot, Dispute(a, execution, root)
        PROVE  Kept
    <3>1. PICK id \in DisputeId \ DOMAIN disputes, r \in DisputeRecord :
              disputes' = Put(disputes, id, r)
      BY <2>3, DisputeStep
    <3> QED
      BY <3>1 DEF Put
  <2> HIDE DEF Kept
  <2>4. Kept
    BY <2>1, <2>2, <2>3 DEF Next, vars
  <2> QED
    BY <2>4 DEF Kept
<1> QED
  BY <1>2, <1>3 DEF KeptFor, Started

\* What is not touched stays.
LEMMA SameStays ==
    ASSUME NEW owner, NEW later, KeptFor(owner, later), Owned(owner), BotShape
    PROVE  /\ solutions' = solutions => SolutionsOK(later)'
           /\ paths' = paths => PathsOK(later)'
           /\ inbox' = inbox => InboxOK(later)'
           /\ calls' = calls => CallsOK(later)'
           /\ txs' = txs => TxsOK(later)'
           /\ disputes' = disputes => DisputesOK(later)'
<1>1. solutions' = solutions => SolutionsOK(later)'
  BY OnlyNew DEF BotShape
<1>2. paths' = paths => PathsOK(later)'
  BY OnlyNew
<1>3. inbox' = inbox => InboxOK(later)'
  BY OnlyNew
<1>4. calls' = calls => CallsOK(later)'
  BY OnlyNew
<1>5. txs' = txs => TxsOK(later)'
  BY OnlyNew
<1>6. disputes' = disputes => DisputesOK(later)'
  BY OnlyNew
<1> QED
  BY <1>1, <1>2, <1>3, <1>4, <1>5, <1>6

\* An event that was handled is gone, one that was emitted is new.
LEMMA InboxKept ==
    ASSUME NEW owner, NEW later, KeptFor(owner, later), Owned(owner), BotShape,
           NEW k \in EventKind
    PROVE  /\ \A b \in Account : Told(b, k) /\ Handle(b, k) =>
                  /\ InboxShape' /\ InboxOK(later)'
                  /\ EventOK(owner, k, Event(b, k))
           /\ \A e : Emit(k, e) /\ EventOK(later, k, e)' => InboxShape' /\ InboxOK(later)'
<1>1. InboxShape /\ InboxOK(owner)
  BY DEF BotShape, InboxShape, Owned
<1>2. ASSUME NEW b \in Account, Told(b, k), Handle(b, k)
      PROVE  InboxShape' /\ InboxOK(later)' /\ EventOK(owner, k, Event(b, k))
  <2>1. /\ InboxShape'
        /\ Event(b, k) = inbox[b][k][1] /\ 1 \in 1 .. Len(inbox[b][k])
        /\ \A a \in Account, kind \in EventKind : \A i \in 1 .. Len(inbox'[a][kind]) :
               \E j \in 1 .. Len(inbox[a][kind]) : inbox'[a][kind][i] = inbox[a][kind][j]
    BY <1>1, <1>2, HandleShape
  <2>2. EventOK(owner, k, Event(b, k))
    BY <1>1, <2>1 DEF InboxOK
  <2>3. InboxOK(later)'
    BY <2>1, OnlyNew
  <2> QED
    BY <2>1, <2>2, <2>3
<1>3. ASSUME NEW e, Emit(k, e), EventOK(later, k, e)' PROVE InboxShape' /\ InboxOK(later)'
  <2>1. /\ InboxShape'
        /\ \A a \in Account, kind \in EventKind : \A i \in 1 .. Len(inbox'[a][kind]) :
               \/ kind = k /\ inbox'[a][kind][i] = e
               \/ \E j \in 1 .. Len(inbox[a][kind]) : inbox'[a][kind][i] = inbox[a][kind][j]
    BY <1>1, <1>3, EmitShape
  <2>2. \A a \in Account, kind \in EventKind : \A i \in 1 .. Len(inbox'[a][kind]) :
            \/ EventOK(later, kind, inbox[a][kind][i])'
            \/ \E j \in 1 .. Len(inbox[a][kind]) : inbox'[a][kind][i] = inbox[a][kind][j]
    BY <1>3, <2>1
  <2>3. InboxOK(later)'
    BY <2>2, OnlyNew
  <2> QED
    BY <2>1, <2>3
<1> QED
  BY <1>2, <1>3

\* So with a call that was suspended or resumed.
LEMMA CallsKept ==
    ASSUME NEW owner, NEW later, KeptFor(owner, later), Owned(owner), BotShape,
           NEW b \in Account
    PROVE  /\ \A c : Suspend(b, c) /\ CallOK(later, b, c)' => DOMAIN calls' = Account /\ CallsOK(later)'
           /\ \A c : Resume(b, c) => DOMAIN calls' = Account /\ CallsOK(later)'
           /\ \A c, next : calls' = [calls EXCEPT ![b] = (calls[b] \ {c}) \cup {next}]
                           /\ CallOK(later, b, next)' => DOMAIN calls' = Account /\ CallsOK(later)'
<1>0. DOMAIN calls = Account
  BY DEF BotShape
<1>1. ASSUME NEW c, Suspend(b, c), CallOK(later, b, c)' PROVE DOMAIN calls' = Account /\ CallsOK(later)'
  <2>1. /\ DOMAIN calls' = Account
        /\ \A a \in Account : \A s \in calls'[a] : s \in calls[a] \/ (a = b /\ s = c)
    BY <1>0, <1>1 DEF Suspend
  <2>2. \A a \in Account : \A s \in calls'[a] : s \in calls[a] \/ CallOK(later, a, s)'
    BY <1>1, <2>1
  <2> QED
    BY <2>1, <2>2, OnlyNew
<1>2. ASSUME NEW c, Resume(b, c) PROVE DOMAIN calls' = Account /\ CallsOK(later)'
  <2>1. DOMAIN calls' = Account /\ \A a \in Account : \A s \in calls'[a] : s \in calls[a]
    BY <1>0, <1>2 DEF Resume
  <2> QED
    BY <2>1, OnlyNew
<1>3. ASSUME NEW c, NEW next, calls' = [calls EXCEPT ![b] = (calls[b] \ {c}) \cup {next}],
             CallOK(later, b, next)'
      PROVE  DOMAIN calls' = Account /\ CallsOK(later)'
  <2>1. /\ DOMAIN calls' = Account
        /\ \A a \in Account : \A s \in calls'[a] : s \in calls[a] \/ (a = b /\ s = next)
    BY <1>0, <1>3
  <2>2. \A a \in Account : \A s \in calls'[a] : s \in calls[a] \/ CallOK(later, a, s)'
    BY <1>3, <2>1
  <2> QED
    BY <2>1, <2>2, OnlyNew
<1> QED
  BY <1>1, <1>2, <1>3

\* And with a transaction that was sent or mined.
LEMMA TxsKept ==
    ASSUME NEW owner, NEW later, KeptFor(owner, later), Owned(owner), BotShape,
           NEW b \in Account
    PROVE  /\ \A tx : Send(b, tx) /\ TxOK(later, b, tx)' => TxsShape' /\ TxsOK(later)'
           /\ txs[b] # << >> /\ Mined(b) => TxsShape' /\ TxsOK(later)'
<1>1. TxsShape
  BY DEF BotShape, TxsShape
<1>2. ASSUME NEW tx, Send(b, tx), TxOK(later, b, tx)' PROVE TxsShape' /\ TxsOK(later)'
  <2>1. /\ TxsShape'
        /\ \A a \in Account : \A i \in 1 .. Len(txs'[a]) :
               \/ a = b /\ txs'[a][i] = tx
               \/ \E j \in 1 .. Len(txs[a]) : txs'[a][i] = txs[a][j]
    BY <1>1, <1>2, SendShape
  <2>2. \A a \in Account : \A i \in 1 .. Len(txs'[a]) :
            \/ TxOK(later, a, txs[a][i])'
            \/ \E j \in 1 .. Len(txs[a]) : txs'[a][i] = txs[a][j]
    BY <1>2, <2>1
  <2> QED
    BY <2>1, <2>2, OnlyNew
<1>3. ASSUME txs[b] # << >>, Mined(b) PROVE TxsShape' /\ TxsOK(later)'
  <2>1. /\ TxsShape'
        /\ \A a \in Account : \A i \in 1 .. Len(txs'[a]) :
               \E j \in 1 .. Len(txs[a]) : txs'[a][i] = txs[a][j]
    BY <1>1, <1>3, MinedShape
  <2> QED
    BY <2>1, OnlyNew
<1> QED
  BY <1>2, <1>3

-----------------------------------------------------------------------------
\* The tree a bot plays a dispute with.
LEMMA TreesInPlay ==
    ASSUME TypeOK, BotShape, NEW a \in Account, NEW id \in DOMAIN disputes
    PROVE  /\ IsNode(Trees!root(TreeIn(a, id)))
           /\ \A h : /\ IsNode(Trees!getNode(TreeIn(a, id), h))
                     /\ Trees!getNode(TreeIn(a, id), h) # Trees!NoNode =>
                            Trees!getNode(TreeIn(a, id), h).hash = h
           /\ \A l, r : IsNode(Trees!getPair(TreeIn(a, id), l, r))
<1> DEFINE tree == TreeIn(a, id)
<1>1. id.depth \in 1 .. maxExecutionDepth
  BY DEF TypeOK, DisputeId
<1>2. tree = TreeOf(a) \/ \E d \in 1 .. maxExecutionDepth : tree = TreeAt(a, d)
  BY <1>1 DEF TreeIn
<1>3. computed \in [Account -> Execution]
  BY DEF BotShape
<1> HIDE DEF tree
<1>4. /\ IsNode(Trees!root(tree))
      /\ \A h : /\ IsNode(Trees!getNode(tree, h))
                /\ Trees!getNode(tree, h) # Trees!NoNode => Trees!getNode(tree, h).hash = h
      /\ \A l, r : IsNode(Trees!getPair(tree, l, r))
  BY <1>2, <1>3, TreesOfBots
<1> QED
  BY <1>4 DEF tree

\* What was owned is owned by the same, and what is new has an owner.
StaysOwned(owner) ==
    BotShape' /\ \E later \in [TaskHash -> Account] : KeptFor(owner, later) /\ Owned(later)'

\* A task gets its requester.
LEMMA RequestOwned ==
    ASSUME NEW owner \in [TaskHash -> Account], TypeOK, BotShape, Owned(owner),
           KeptFor(owner, owner), NEW a \in Account, NEW t \in TaskHash, requestExecution(a, t)
    PROVE  StaysOwned(owner)
<1> DEFINE later == [owner EXCEPT ![t] = a]
           e == [task |-> t, from |-> a]
<1>1. /\ tasks[t].startTime = 0 /\ tasks' = [tasks EXCEPT ![t].startTime = now]
      /\ Emit("Requested", e)
      /\ UNCHANGED <<disputes, computed, solutions, paths, calls, txs>>
  BY DEF requestExecution, Request
<1>2. now \in Nat \ {0} /\ tasks \in [TaskHash -> Task]
  BY DEF TypeOK, EnforcerTypeOK
<1>3. tasks'[t].startTime # 0
  <2>1. tasks[t] \in Task
    BY <1>2
  <2>2. tasks'[t] = [tasks[t] EXCEPT !.startTime = now]
    BY <1>1, <1>2
  <2> QED
    BY <1>2, <2>1, <2>2 DEF Task
<1>4. later \in [TaskHash -> Account] /\ later[t] = a /\ \A u \in TaskHash \ {t} : later[u] = owner[u]
  OBVIOUS
<1>5. e.task = t /\ e.from = a
  OBVIOUS
<1> HIDE DEF later, e
<1>6. KeptFor(owner, later)
  BY <1>1, <1>4 DEF KeptFor
<1>7. EventOK(later, "Requested", e)'
  BY <1>3, <1>4, <1>5 DEF EventOK, Requester
<1>8. "Requested" \in EventKind
  BY DEF EventKind
<1>9. InboxShape' /\ InboxOK(later)'
  BY <1>1, <1>6, <1>7, <1>8, InboxKept
<1>10. /\ SolutionsOK(later)' /\ PathsOK(later)'
       /\ CallsOK(later)' /\ TxsOK(later)' /\ DisputesOK(later)'
  BY <1>1, <1>6, SameStays
<1>11. BotShape'
  BY <1>1, <1>9 DEF BotShape, InboxShape
<1> QED
  BY <1>4, <1>6, <1>9, <1>10, <1>11 DEF StaysOwned, Owned

\* What a bot makes of the events it is told of.
LEMMA EventsOwned ==
    ASSUME NEW owner \in [TaskHash -> Account], TypeOK, BotShape, Owned(owner),
           KeptFor(owner, owner), NEW b \in Account,
           onRequested(b) \/ onRegistered(b) \/ onDisputeInitialised(b) \/ onNewRound(b)
    PROVE  StaysOwned(owner)
<1>1. {"Requested", "Registered", "DisputeInitialised", "DisputeNewRound"} \subseteq EventKind
  BY DEF EventKind
<1>2. DisputesOK(owner) /\ DOMAIN calls = Account
  BY DEF Owned, BotShape
<1>3. CASE onRequested(b)
  <2>0. PICK e : e = Event(b, "Requested")
    OBVIOUS
  <2> DEFINE c == [fn |-> "registerExecution", task |-> e.task]
  <2>1. /\ Told(b, "Requested") /\ Handle(b, "Requested")
        /\ IF e.from = b THEN Suspend(b, c) ELSE UNCHANGED calls
        /\ UNCHANGED <<vars, computed, solutions, paths, txs>>
    BY <1>3, <2>0 DEF onRequested
  <2>2. c.fn = "registerExecution" /\ c.task = e.task
    OBVIOUS
  <2>3. InboxShape' /\ InboxOK(owner)' /\ EventOK(owner, "Requested", e)
    BY <1>1, <2>0, <2>1, InboxKept
  <2> HIDE DEF c
  <2>4. Requester(owner, e.from, e.task)
    BY <2>3 DEF EventOK
  <2>5. e.from = b => CallOK(owner, b, c)
    BY <2>2, <2>4 DEF CallOK
  <2>6. e.from = b => CallOK(owner, b, c)'
    BY <1>2, <2>5, StillOK
  <2>7. DOMAIN calls' = Account /\ CallsOK(owner)'
    BY <1>2, <2>1, <2>6, CallsKept, SameStays
  <2>8. SolutionsOK(owner)' /\ PathsOK(owner)' /\ TxsOK(owner)' /\ DisputesOK(owner)'
    BY <2>1, SameStays DEF vars
  <2>9. BotShape'
    BY <2>1, <2>3, <2>7 DEF BotShape, InboxShape
  <2> QED
    BY <2>3, <2>7, <2>8, <2>9 DEF StaysOwned, Owned
<1>4. CASE onRegistered(b)
  <2>0. PICK e : e = Event(b, "Registered")
    OBVIOUS
  <2> DEFINE c == [fn |-> "validateExecution", execution |-> e.execution, depth |-> e.depth]
  <2>1. /\ Told(b, "Registered") /\ Handle(b, "Registered")
        /\ IF e.from = b THEN UNCHANGED calls ELSE Suspend(b, c)
        /\ UNCHANGED <<vars, computed, solutions, paths, txs>>
    BY <1>4, <2>0 DEF onRegistered
  <2>2. c.fn = "validateExecution" /\ c.execution = e.execution /\ c.depth = e.depth
    OBVIOUS
  <2>3. InboxShape' /\ InboxOK(owner)' /\ EventOK(owner, "Registered", e)
    BY <1>1, <2>0, <2>1, InboxKept
  <2> HIDE DEF c
  <2>4. /\ Requester(owner, e.from, e.execution.task)
        /\ e.execution \in ExecutionId /\ e.depth \in 1 .. maxExecutionDepth
    BY <2>3 DEF EventOK
  <2>5. e.from # b => CallOK(owner, b, c)
    BY <2>2, <2>4 DEF CallOK, Requester, Opponent
  <2>6. e.from # b => CallOK(owner, b, c)'
    BY <1>2, <2>5, StillOK
  <2>7. DOMAIN calls' = Account /\ CallsOK(owner)'
    BY <1>2, <2>1, <2>6, CallsKept, SameStays
  <2>8. SolutionsOK(owner)' /\ PathsOK(owner)' /\ TxsOK(owner)' /\ DisputesOK(owner)'
    BY <2>1, SameStays DEF vars
  <2>9. BotShape'
    BY <2>1, <2>3, <2>7 DEF BotShape, InboxShape
  <2> QED
    BY <2>3, <2>7, <2>8, <2>9 DEF StaysOwned, Owned
<1>5. CASE onDisputeInitialised(b)
  <2>0. PICK id : id = Event(b, "DisputeInitialised").id
    OBVIOUS
  <2> DEFINE c == FirstRound(id)
  <2>1. /\ Told(b, "DisputeInitialised") /\ Handle(b, "DisputeInitialised")
        /\ IF id.execution \in solutions[b] THEN initDispute(b, id) /\ Suspend(b, c)
           ELSE UNCHANGED <<paths, calls>>
        /\ UNCHANGED <<vars, computed, solutions, txs>>
    BY <1>5, <2>0 DEF onDisputeInitialised
  <2>2. c.fn = "submitRound" /\ c.id = id
    BY DEF FirstRound
  <2>3. InboxShape' /\ InboxOK(owner)' /\ EventOK(owner, "DisputeInitialised", Event(b, "DisputeInitialised"))
    BY <1>1, <2>0, <2>1, InboxKept
  <2>4. id \in DOMAIN disputes
    BY <2>0, <2>3 DEF EventOK
  <2> HIDE DEF c
  <2>5. id.execution \in solutions[b] => Plays(owner, b, id)
    BY <2>4 DEF Owned, SolutionsOK, Requester, Plays
  <2>6. id.execution \in solutions[b] => CallOK(owner, b, c)
    BY <2>2, <2>5 DEF CallOK
  <2>7. id.execution \in solutions[b] => CallOK(owner, b, c)' /\ Plays(owner, b, id)'
    BY <1>2, <2>5, <2>6, StillOK
  <2>8. DOMAIN calls' = Account /\ CallsOK(owner)'
    BY <1>2, <2>1, <2>7, CallsKept, SameStays
  <2>9. DOMAIN paths' = Account /\ PathsOK(owner)'
    <3>1. CASE id.execution \in solutions[b]
      <4>1. IsNode(Trees!root(TreeIn(b, id)))
        BY <2>4, TreesInPlay
      <4>2. /\ DOMAIN paths' = Account
            /\ \A a \in Account \ {b} : paths'[a] = paths[a]
            /\ paths'[b] = Put(paths[b], id, Trees!root(TreeIn(b, id)))
        BY <2>1, <3>1 DEF initDispute, BotShape
      <4>3. \A k \in DOMAIN paths'[b] :
                \/ k = id /\ paths'[b][k] = Trees!root(TreeIn(b, id))
                \/ k \in DOMAIN paths[b] /\ paths'[b][k] = paths[b][k]
        BY <4>2 DEF Put
      <4> QED
        BY <2>7, <3>1, <4>1, <4>2, <4>3, OnlyNew
    <3>2. CASE id.execution \notin solutions[b]
      BY <2>1, <3>2, SameStays DEF BotShape
    <3> QED
      BY <3>1, <3>2
  <2>10. SolutionsOK(owner)' /\ TxsOK(owner)' /\ DisputesOK(owner)'
    BY <2>1, SameStays DEF vars
  <2>11. BotShape'
    BY <2>1, <2>3, <2>8, <2>9 DEF BotShape, InboxShape
  <2> QED
    BY <2>3, <2>8, <2>9, <2>10, <2>11 DEF StaysOwned, Owned
<1>6. CASE onNewRound(b)
  <2>0. PICK e : e = Event(b, "DisputeNewRound")
    OBVIOUS
  <2>node. PICK node : node = paths[b][e.id]
    OBVIOUS
  <2> DEFINE c == [fn |-> "submitRound", id |-> e.id, round |-> e.round]
             tx == [fn |-> "submitProof", id |-> e.id, leaf |-> node]
             Known == e.id \in DOMAIN paths[b] /\ ~OffTree(b, e.id)
  <2>1. /\ Told(b, "DisputeNewRound") /\ Handle(b, "DisputeNewRound")
        /\ UNCHANGED <<vars, computed, solutions, paths>>
        /\ \/ UNCHANGED <<calls, txs>>
           \/ Known /\ node.isLeaf /\ Send(b, tx) /\ UNCHANGED calls
           \/ Known /\ Suspend(b, c) /\ UNCHANGED txs
    BY <1>6, <2>0, <2>node DEF onNewRound
  <2>2. /\ c.fn = "submitRound" /\ c.id = e.id
        /\ tx.fn = "submitProof" /\ tx.id = e.id /\ tx.leaf = node
    OBVIOUS
  <2>3. InboxShape' /\ InboxOK(owner)' /\ EventOK(owner, "DisputeNewRound", e)
    BY <1>1, <2>0, <2>1, InboxKept
  <2>4. Known => Plays(owner, b, e.id) /\ IsNode(node) /\ node # Trees!NoNode
    BY <2>node DEF Owned, PathsOK, OffTree
  <2> HIDE DEF c, tx, Known
  <2>5. /\ Known => CallOK(owner, b, c)
        /\ Known /\ node.isLeaf => TxOK(owner, b, tx)
    BY <2>2, <2>4 DEF CallOK, TxOK, Plays
  <2>6. /\ Known => CallOK(owner, b, c)'
        /\ Known /\ node.isLeaf => TxOK(owner, b, tx)'
    BY <1>2, <2>5, StillOK
  <2>7. DOMAIN calls' = Account /\ CallsOK(owner)'
    BY <1>2, <2>1, <2>6, CallsKept, SameStays
  <2>8. TxsShape' /\ TxsOK(owner)'
    BY <2>1, <2>6, TxsKept, SameStays DEF BotShape, TxsShape
  <2>9. SolutionsOK(owner)' /\ PathsOK(owner)' /\ DisputesOK(owner)'
    BY <2>1, SameStays DEF vars
  <2>10. BotShape'
    BY <2>1, <2>3, <2>7, <2>8 DEF BotShape, InboxShape, TxsShape
  <2> QED
    BY <2>3, <2>7, <2>8, <2>9, <2>10 DEF StaysOwned, Owned
<1> QED
  BY <1>3, <1>4, <1>5, <1>6
\* What a suspended function does when it goes on, in the registration of an execution.
LEMMA RegisteringOwned ==
    ASSUME NEW owner \in [TaskHash -> Account], TypeOK, BotShape, Owned(owner),
           KeptFor(owner, owner), NEW b \in Account,
           registerExecution(b) \/ registered(b) \/ validateExecution(b)
    PROVE  StaysOwned(owner)
<1>0. DisputesOK(owner) /\ CallsOK(owner) /\ InboxShape /\ TxsShape
  BY DEF Owned, BotShape, InboxShape, TxsShape
<1>1. CASE registerExecution(b)
  <2>1. PICK c \in Suspended(b, "registerExecution") :
            /\ Resume(b, c)
            /\ Send(b, [fn |-> "register", depth |-> Trees!depth(TreeOf(b)),
                        execution |-> [task |-> c.task, root |-> RootHash(TreeOf(b))]])
            /\ UNCHANGED <<vars, computed, solutions, paths, inbox>>
    BY <1>1 DEF registerExecution
  <2>2. PICK tree : tree = TreeOf(b)
    OBVIOUS
  <2> DEFINE tx == [fn |-> "register", depth |-> Trees!depth(tree),
                    execution |-> [task |-> c.task, root |-> RootHash(tree)]]
  <2>3. /\ tx.fn = "register" /\ tx.depth = Trees!depth(tree)
        /\ tx.execution = [task |-> c.task, root |-> RootHash(tree)]
    OBVIOUS
  <2>4. Send(b, tx)
    BY <2>1, <2>2
  <2> HIDE DEF tx
  <2>5. Requester(owner, b, c.task)
    BY <1>0, <2>1 DEF Suspended, CallsOK, CallOK
  <2>6. RootHash(tree) \in SolverRoot /\ Trees!depth(tree) \in ProofDepth
    <3>1. computed[b] \in Execution /\ tree = Tree[computed[b]]
      BY <2>2 DEF BotShape, TreeOf
    <3> QED
      BY <3>1, PokerAssumption, Zenon
  <2>7. TxOK(owner, b, tx)
    BY <2>3, <2>5, <2>6 DEF TxOK, Requester, ExecutionId
  <2>8. TxOK(owner, b, tx)'
    BY <1>0, <2>7, StillOK
  <2>9. TxsShape' /\ TxsOK(owner)' /\ DOMAIN calls' = Account /\ CallsOK(owner)'
    BY <2>1, <2>4, <2>8, TxsKept, CallsKept
  <2>10. SolutionsOK(owner)' /\ PathsOK(owner)' /\ InboxOK(owner)' /\ DisputesOK(owner)'
    BY <2>1, SameStays DEF vars
  <2>11. BotShape'
    BY <2>1, <2>9 DEF BotShape, TxsShape
  <2> QED
    BY <2>9, <2>10, <2>11 DEF StaysOwned, Owned
<1>2. CASE registered(b)
  <2>1. PICK c \in Suspended(b, "registered") :
            /\ Resume(b, c)
            /\ solutions' = [solutions EXCEPT ![b] = solutions[b] \cup {c.execution}]
            /\ UNCHANGED <<vars, computed, paths, inbox, txs>>
    BY <1>2 DEF registered
  <2>2. Requester(owner, b, c.execution.task)
    BY <1>0, <2>1 DEF Suspended, CallsOK, CallOK
  <2>3. Requester(owner, b, c.execution.task)'
    BY <1>0, <2>2, StillOK
  <2>4. DOMAIN calls' = Account /\ CallsOK(owner)'
    BY <2>1, CallsKept
  <2>5. DOMAIN solutions' = Account /\ SolutionsOK(owner)'
    <3>1. /\ DOMAIN solutions = Account /\ DOMAIN solutions' = Account
          /\ \A a \in Account : \A e \in solutions'[a] :
                 e \in solutions[a] \/ (a = b /\ e = c.execution)
      BY <2>1 DEF BotShape
    <3> QED
      BY <2>2, <2>3, <3>1, OnlyNew
  <2>6. PathsOK(owner)' /\ InboxOK(owner)' /\ TxsOK(owner)' /\ DisputesOK(owner)'
    BY <2>1, SameStays DEF vars
  <2>7. BotShape'
    BY <2>1, <2>4, <2>5 DEF BotShape
  <2> QED
    BY <2>4, <2>5, <2>6, <2>7 DEF StaysOwned, Owned
<1>3. CASE validateExecution(b)
  <2>1. PICK c \in Suspended(b, "validateExecution") :
            /\ Resume(b, c)
            /\ \/ Send(b, [fn |-> "dispute", execution |-> c.execution, root |-> OwnRoot(b, c.depth)])
               \/ UNCHANGED txs
            /\ UNCHANGED <<vars, computed, solutions, paths, inbox>>
    BY <1>3 DEF validateExecution
  <2>2. PICK root : root = OwnRoot(b, c.depth)
    OBVIOUS
  <2> DEFINE tx == [fn |-> "dispute", execution |-> c.execution, root |-> root]
  <2>3. tx.fn = "dispute" /\ tx.execution = c.execution /\ tx.root = root
    OBVIOUS
  <2>4. Send(b, tx) \/ UNCHANGED txs
    BY <2>1, <2>2
  <2> HIDE DEF tx
  <2>5. /\ Opponent(owner, b, c.execution.task)
        /\ c.execution \in ExecutionId /\ c.depth \in 1 .. maxExecutionDepth
    BY <1>0, <2>1 DEF Suspended, CallsOK, CallOK
  <2>6. root \in ChallengerRoot
    <3>1. computed[b] \in Execution /\ root = RootHash(CutTree[computed[b]][c.depth])
      BY <2>2 DEF BotShape, TreeAt, OwnRoot
    <3> QED
      BY <2>5, <3>1, PokerAssumption, Zenon
  <2>7. TxOK(owner, b, tx)
    BY <2>3, <2>5, <2>6 DEF TxOK
  <2>8. TxOK(owner, b, tx)'
    BY <1>0, <2>7, StillOK
  <2>9. TxsShape' /\ TxsOK(owner)' /\ DOMAIN calls' = Account /\ CallsOK(owner)'
    BY <1>0, <2>1, <2>4, <2>8, TxsKept, CallsKept, SameStays DEF TxsShape
  <2>10. SolutionsOK(owner)' /\ PathsOK(owner)' /\ InboxOK(owner)' /\ DisputesOK(owner)'
    BY <2>1, SameStays DEF vars
  <2>11. BotShape'
    BY <2>1, <2>9 DEF BotShape, TxsShape
  <2> QED
    BY <2>9, <2>10, <2>11 DEF StaysOwned, Owned
<1> QED
  BY <1>1, <1>2, <1>3

\* And in a dispute.
LEMMA PlayingOwned ==
    ASSUME NEW owner \in [TaskHash -> Account], TypeOK, BotShape, Owned(owner),
           KeptFor(owner, owner), NEW b \in Account,
           disputed(b) \/ readDispute(b) \/ submitRound(b)
    PROVE  StaysOwned(owner)
<1>0. DisputesOK(owner) /\ CallsOK(owner) /\ PathsOK(owner) /\ TxsShape
  BY DEF Owned, BotShape, TxsShape
<1>1. CASE disputed(b)
  <2>1. PICK c \in Suspended(b, "disputed") :
            /\ initDispute(b, c.id)
            /\ calls' = [calls EXCEPT ![b] = (calls[b] \ {c}) \cup {FirstRound(c.id)}]
            /\ UNCHANGED <<vars, computed, solutions, inbox, txs>>
    BY <1>1 DEF disputed
  <2>2. FirstRound(c.id).fn = "submitRound" /\ FirstRound(c.id).id = c.id
    BY DEF FirstRound
  <2>3. c.id \in DOMAIN disputes /\ b = Challenger(c.id)
    BY <1>0, <2>1 DEF Suspended, CallsOK, CallOK
  <2>4. Plays(owner, b, c.id) /\ CallOK(owner, b, FirstRound(c.id))
    BY <2>2, <2>3 DEF Plays, CallOK
  <2> DEFINE c2 == FirstRound(c.id)
  <2> HIDE DEF c2
  <2>5. Plays(owner, b, c.id)' /\ CallOK(owner, b, c2)'
    BY <1>0, <2>4, StillOK DEF c2
  <2>6. DOMAIN calls' = Account /\ CallsOK(owner)'
    <3>1. calls' = [calls EXCEPT ![b] = (calls[b] \ {c}) \cup {c2}]
      BY <2>1 DEF c2
    <3> QED
      BY <2>5, <3>1, CallsKept
  <2>7. DOMAIN paths' = Account /\ PathsOK(owner)'
    <3>1. IsNode(Trees!root(TreeIn(b, c.id)))
      BY <2>3, TreesInPlay
    <3>2. /\ DOMAIN paths' = Account
          /\ \A a \in Account \ {b} : paths'[a] = paths[a]
          /\ paths'[b] = Put(paths[b], c.id, Trees!root(TreeIn(b, c.id)))
      BY <2>1 DEF initDispute, BotShape
    <3>3. \A k \in DOMAIN paths'[b] :
              \/ k = c.id /\ paths'[b][k] = Trees!root(TreeIn(b, c.id))
              \/ k \in DOMAIN paths[b] /\ paths'[b][k] = paths[b][k]
      BY <3>2 DEF Put
    <3> QED
      BY <2>5, <3>1, <3>2, <3>3, OnlyNew
  <2>8. SolutionsOK(owner)' /\ InboxOK(owner)' /\ TxsOK(owner)' /\ DisputesOK(owner)'
    BY <2>1, SameStays DEF vars
  <2>9. BotShape'
    BY <2>1, <2>6, <2>7 DEF BotShape
  <2> QED
    BY <2>6, <2>7, <2>8, <2>9 DEF StaysOwned, Owned
<1>2. CASE readDispute(b)
  <2>1. PICK c \in Suspended(b, "submitRound") :
            /\ calls' = [calls EXCEPT ![b] = (calls[b] \ {c}) \cup
                   {[fn |-> "respond", id |-> c.id, round |-> c.round, dispute |-> disputes[c.id]]}]
            /\ UNCHANGED <<vars, computed, solutions, paths, inbox, txs>>
    BY <1>2 DEF readDispute
  <2>2. PICK d : d = disputes[c.id]
    OBVIOUS
  <2> DEFINE c2 == [fn |-> "respond", id |-> c.id, round |-> c.round, dispute |-> d]
  <2>3. c2.fn = "respond" /\ c2.id = c.id
    OBVIOUS
  <2>4. calls' = [calls EXCEPT ![b] = (calls[b] \ {c}) \cup {c2}]
    BY <2>1, <2>2
  <2> HIDE DEF c2
  <2>5. CallOK(owner, b, c2)
    BY <1>0, <2>1, <2>3 DEF Suspended, CallsOK, CallOK
  <2>6. CallOK(owner, b, c2)'
    BY <1>0, <2>5, StillOK
  <2>7. DOMAIN calls' = Account /\ CallsOK(owner)'
    BY <2>4, <2>6, CallsKept
  <2>8. /\ SolutionsOK(owner)' /\ PathsOK(owner)' /\ InboxOK(owner)' /\ TxsOK(owner)'
        /\ DisputesOK(owner)'
    BY <2>1, SameStays DEF vars
  <2>9. BotShape'
    BY <2>1, <2>7 DEF BotShape
  <2> QED
    BY <2>7, <2>8, <2>9 DEF StaysOwned, Owned
<1>3. CASE submitRound(b)
  <2>1. PICK c \in Suspended(b, "respond") :
            LET answer == Answer(b, c, c.dispute)
            IN  /\ Resume(b, c)
                /\ paths' = [paths EXCEPT ![b][c.id] = answer.node]
                /\ \/ Send(b, [fn |-> "respond", id |-> c.id, hash |-> answer.node.hash,
                               witness |-> c.dispute.witness])
                   \/ UNCHANGED txs
                /\ UNCHANGED <<vars, computed, solutions, inbox>>
    BY <1>3 DEF submitRound
  <2>2. PICK node : node = Answer(b, c, c.dispute).node
    OBVIOUS
  <2> DEFINE tx == [fn |-> "respond", id |-> c.id, hash |-> node.hash,
                    witness |-> c.dispute.witness]
  <2>3. tx.fn = "respond" /\ tx.id = c.id
    OBVIOUS
  <2>4. Send(b, tx) \/ UNCHANGED txs
    BY <2>1, <2>2
  <2> HIDE DEF tx
  <2>5. Plays(owner, b, c.id)
    BY <1>0, <2>1 DEF Suspended, CallsOK, CallOK
  <2>6. c.id \in DOMAIN disputes
    BY <2>5 DEF Plays
  <2>7. TxOK(owner, b, tx)
    BY <2>3, <2>5 DEF TxOK
  <2>8. TxOK(owner, b, tx)'
    BY <1>0, <2>7, StillOK
  <2>9. TxsShape' /\ TxsOK(owner)' /\ DOMAIN calls' = Account /\ CallsOK(owner)'
    BY <1>0, <2>1, <2>4, <2>8, TxsKept, CallsKept, SameStays DEF TxsShape
  <2>10. IsNode(node)
    <3>1. IsNode(Trees!NoNode)
      BY DEF IsNode
    <3>2. \/ node = Trees!NoNode
          \/ \E l, r : node = Trees!getPair(TreeIn(b, c.id), l, r)
          \/ \E h : node = Trees!getNode(TreeIn(b, c.id), h)
      BY <2>2 DEF Answer
    <3> QED
      BY <2>6, <3>1, <3>2, TreesInPlay
  <2>11. DOMAIN paths' = Account /\ PathsOK(owner)'
    <3>1. paths' = [paths EXCEPT ![b][c.id] = node] /\ DOMAIN paths = Account
      BY <2>1, <2>2 DEF BotShape
    <3>2. /\ DOMAIN paths' = Account
          /\ \A a \in Account \ {b} : paths'[a] = paths[a]
          /\ \A k \in DOMAIN paths'[b] :
                 /\ k \in DOMAIN paths[b]
                 /\ paths'[b][k] = IF k = c.id THEN node ELSE paths[b][k]
      BY <3>1
    <3>3. Plays(owner, b, c.id)'
      BY <1>0, <2>5, StillOK
    <3> QED
      BY <2>10, <3>2, <3>3, OnlyNew
  <2>12. SolutionsOK(owner)' /\ InboxOK(owner)' /\ DisputesOK(owner)'
    BY <2>1, SameStays DEF vars
  <2>13. BotShape'
    BY <2>1, <2>9, <2>11 DEF BotShape, TxsShape
  <2> QED
    BY <2>9, <2>11, <2>12, <2>13 DEF StaysOwned, Owned
<1> QED
  BY <1>1, <1>2, <1>3
\* What the chain does with the transactions.
LEMMA MiningOwned ==
    ASSUME NEW owner \in [TaskHash -> Account], TypeOK, BotShape, Owned(owner),
           KeptFor(owner, owner), NEW b \in Account, Mine(b)
    PROVE  StaysOwned(owner)
<1>0. /\ DisputesOK(owner) /\ TxsOK(owner) /\ InboxShape /\ TxsShape
      /\ {"Registered", "DisputeInitialised", "DisputeNewRound"} \subseteq EventKind
  BY DEF Owned, BotShape, InboxShape, TxsShape, EventKind
<1>1. CASE mineRegister(b)
  <2>1. PICK tx : tx = Head(txs[b])
    OBVIOUS
  <2> DEFINE e == [execution |-> tx.execution, depth |-> tx.depth, from |-> b]
             c == [fn |-> "registered", execution |-> tx.execution]
  <2>2. /\ ToMine(b, "register") /\ Register(b, tx.execution, tx.depth)
        /\ Emit("Registered", e) /\ Suspend(b, c) /\ Mined(b)
        /\ UNCHANGED <<disputes, computed, solutions, paths>>
    BY <1>1, <2>1 DEF mineRegister
  <2>3. /\ e.execution = tx.execution /\ e.depth = tx.depth /\ e.from = b
        /\ c.fn = "registered" /\ c.execution = tx.execution
    OBVIOUS
  <2> HIDE DEF e, c
  <2>4. txs[b] # << >> /\ TxOK(owner, b, tx) /\ tx.fn = "register"
    BY <1>0, <2>1, <2>2, NextTx
  <2>5. /\ Requester(owner, b, tx.execution.task)
        /\ tx.execution \in ExecutionId /\ tx.depth \in ProofDepth
    BY <2>4 DEF TxOK
  <2>6. tx.depth \in 1 .. maxExecutionDepth
    BY <2>2, <2>5, SlotAssumption, ParameterAssumption
       DEF Register, DepthAccepted, VerifyResultProof
  <2>7. EventOK(owner, "Registered", e) /\ CallOK(owner, b, c)
    BY <2>3, <2>5, <2>6 DEF EventOK, CallOK
  <2>8. EventOK(owner, "Registered", e)' /\ CallOK(owner, b, c)'
    BY <1>0, <2>7, StillOK
  <2>9. InboxShape' /\ InboxOK(owner)'
    BY <1>0, <2>2, <2>8, InboxKept
  <2>10. TxsShape' /\ TxsOK(owner)' /\ DOMAIN calls' = Account /\ CallsOK(owner)'
    BY <2>2, <2>4, <2>8, TxsKept, CallsKept
  <2>11. SolutionsOK(owner)' /\ PathsOK(owner)' /\ DisputesOK(owner)'
    BY <2>2, SameStays
  <2>12. BotShape'
    BY <2>2, <2>9, <2>10 DEF BotShape, TxsShape, InboxShape
  <2> QED
    BY <2>9, <2>10, <2>11, <2>12 DEF StaysOwned, Owned
<1>2. CASE mineDispute(b)
  <2>1. PICK tx : tx = Head(txs[b])
    OBVIOUS
  <2>2. PICK id : id = DisputeOf(tx.execution, tx.root)
    OBVIOUS
  <2> DEFINE e == [id |-> id]
             c == [fn |-> "disputed", id |-> id]
  <2>3. /\ Dispute(b, tx.execution, tx.root)
        /\ Emit("DisputeInitialised", e) /\ Suspend(b, c) /\ Mined(b) /\ ToMine(b, "dispute")
        /\ UNCHANGED <<computed, solutions, paths>>
    BY <1>2, <2>1, <2>2 DEF mineDispute
  <2>4. e.id = id /\ c.fn = "disputed" /\ c.id = id
    OBVIOUS
  <2> HIDE DEF e, c
  <2>5. Opponent(owner, b, tx.execution.task) /\ id.execution = tx.execution /\ txs[b] # << >>
    BY <1>0, <1>2, <2>1, <2>2, <2>3, DisputeIsPlayed DEF DisputeOf, ToMine
  <2>6. /\ DOMAIN disputes' = DOMAIN disputes \cup {id}
        /\ disputes'[id].challengerAddr = b
    BY <2>2, <2>3 DEF Dispute, InitGame, Put
  <2>7. id \in DOMAIN disputes' /\ Challenger(id)' = b /\ Opponent(owner, b, id.execution.task)'
    BY <1>0, <2>5, <2>6, StillOK DEF Challenger
  <2>8. EventOK(owner, "DisputeInitialised", e)' /\ CallOK(owner, b, c)'
    BY <2>4, <2>7 DEF EventOK, CallOK
  <2>9. InboxShape' /\ InboxOK(owner)'
    BY <1>0, <2>3, <2>8, InboxKept
  <2>10. TxsShape' /\ TxsOK(owner)' /\ DOMAIN calls' = Account /\ CallsOK(owner)'
    BY <2>3, <2>5, <2>8, TxsKept, CallsKept
  <2>11. SolutionsOK(owner)' /\ PathsOK(owner)'
    BY <2>3, SameStays
  <2>12. DisputesOK(owner)'
    BY <2>6, <2>7, OnlyNew
  <2>13. BotShape'
    BY <2>3, <2>9, <2>10 DEF BotShape, TxsShape, InboxShape
  <2> QED
    BY <2>9, <2>10, <2>11, <2>12, <2>13 DEF StaysOwned, Owned
<1>3. ASSUME DOMAIN disputes' \subseteq DOMAIN disputes, txs[b] # << >>, Mined(b),
             InboxShape' /\ InboxOK(owner)', UNCHANGED <<computed, solutions, paths, calls>>
      PROVE  StaysOwned(owner)
  <2>1. TxsShape' /\ TxsOK(owner)'
    BY <1>3, TxsKept
  <2>2. SolutionsOK(owner)' /\ PathsOK(owner)' /\ CallsOK(owner)'
    BY <1>3, SameStays
  <2>3. DisputesOK(owner)'
    BY <1>3, OnlyNew
  <2>4. BotShape'
    BY <1>3, <2>1 DEF BotShape, TxsShape, InboxShape
  <2> QED
    BY <1>3, <2>1, <2>2, <2>3, <2>4 DEF StaysOwned, Owned
<1>4. inbox' = inbox => InboxShape' /\ InboxOK(owner)'
  BY <1>0, SameStays DEF InboxShape
<1>5. CASE mineRespond(b)
  <2>1. PICK tx : tx = Head(txs[b])
    OBVIOUS
  <2>2. PICK round : round = disputes'[tx.id].treeDepth
    OBVIOUS
  <2> DEFINE e == [id |-> tx.id, round |-> round]
  <2>3. /\ RespondTaken(tx) /\ Mined(b) /\ ToMine(b, "respond")
        /\ Emit("DisputeNewRound", e) \/ UNCHANGED inbox
        /\ UNCHANGED <<computed, solutions, paths, calls>>
    BY <1>5, <2>1, <2>2 DEF mineRespond
  <2>4. e.id = tx.id
    OBVIOUS
  <2> HIDE DEF e
  <2>5. txs[b] # << >> /\ Plays(owner, b, tx.id)
    BY <1>0, <1>5, <2>1, <2>3, RespondIsPlayed DEF ToMine
  <2>6. DOMAIN disputes' \subseteq DOMAIN disputes
    BY <2>3 DEF RespondTaken, Respond, UpdateRound
  <2>7. EventOK(owner, "DisputeNewRound", e)
    BY <2>4, <2>5 DEF EventOK, Plays
  <2>8. EventOK(owner, "DisputeNewRound", e)'
    BY <1>0, <2>7, StillOK
  <2>9. InboxShape' /\ InboxOK(owner)'
    BY <1>0, <1>4, <2>3, <2>8, InboxKept
  <2> QED
    BY <1>3, <2>3, <2>5, <2>6, <2>9
<1>6. CASE mineSubmitProof(b)
  <2>1. DOMAIN disputes' \subseteq DOMAIN disputes
    BY <1>6 DEF mineSubmitProof, ProofTaken, SubmitProof
  <2> QED
    BY <1>3, <1>4, <1>6, <2>1 DEF mineSubmitProof, ToMine
<1>7. CASE mineInVain(b)
  BY <1>3, <1>4, <1>7 DEF mineInVain, vars
<1> QED
  BY <1>1, <1>2, <1>5, <1>6, <1>7 DEF Mine

\* So every step keeps it.
LEMMA OwnedKept ==
    ASSUME NEW owner \in [TaskHash -> Account], TypeOK, BotShape, Owned(owner),
           [PokerNext]_pokerVars
    PROVE  StaysOwned(owner)
<1>1. KeptFor(owner, owner)
  BY PokerPlays, GameKeeps DEF Owned
<1>2. ASSUME UNCHANGED botVars, DOMAIN disputes' \subseteq DOMAIN disputes PROVE StaysOwned(owner)
  <2>1. SolutionsOK(owner)' /\ PathsOK(owner)' /\ InboxOK(owner)' /\ CallsOK(owner)' /\ TxsOK(owner)'
    BY <1>1, <1>2, SameStays DEF botVars
  <2>2. DisputesOK(owner)'
    BY <1>1, <1>2, OnlyNew
  <2>3. BotShape'
    BY <1>2 DEF BotShape, botVars
  <2> QED
    BY <1>1, <2>1, <2>2, <2>3 DEF StaysOwned, Owned
<1>3. ASSUME NEW a \in Account, NEW t \in TaskHash, requestExecution(a, t) PROVE StaysOwned(owner)
  BY <1>1, <1>3, RequestOwned
<1>4. ASSUME NEW a \in Account, Bot(a) PROVE StaysOwned(owner)
  BY <1>1, <1>4, EventsOwned, RegisteringOwned, PlayingOwned DEF Bot
<1>5. ASSUME NEW a \in Account, Mine(a) PROVE StaysOwned(owner)
  BY <1>1, <1>5, MiningOwned
<1>6. ASSUME Outside PROVE StaysOwned(owner)
  <2>1. UNCHANGED botVars /\ DOMAIN disputes' \subseteq DOMAIN disputes
    BY <1>6 DEF Outside, ClaimTimeout
  <2> QED
    BY <1>2, <2>1
<1>7. ASSUME UNCHANGED pokerVars PROVE StaysOwned(owner)
  BY <1>2, <1>7 DEF pokerVars, vars
<1> QED
  BY <1>3, <1>4, <1>5, <1>6, <1>7 DEF PokerNext, BotsAct

\* Before anything was done there is nothing to own.
LEMMA InitOwned ==
    ASSUME PokerInit, NEW owner
    PROVE  BotShape /\ Owned(owner)
<1>1. \A a \in Account : inbox[a] = [k \in EventKind |-> << >>] /\ txs[a] = << >>
  BY DEF PokerInit
<1>2. IsSeq(<< >>) /\ Len(<< >>) = 0
  <2>1. << >> \in Seq({})
    BY EmptySeq
  <2> QED
    BY <2>1, EmptySeq, SeqIsSeq
<1>3. BotShape
  BY <1>1, <1>2 DEF BotShape, PokerInit
<1>4. \A i : i \notin 1 .. 0
  OBVIOUS
<1>5. SolutionsOK(owner) /\ PathsOK(owner) /\ CallsOK(owner) /\ DisputesOK(owner)
  BY DEF PokerInit, SolutionsOK, PathsOK, CallsOK, DisputesOK, NoEntries, Init, VerifierInit
<1>6. TxsOK(owner) /\ InboxOK(owner)
  BY <1>1, <1>2, <1>4 DEF TxsOK, InboxOK
<1> QED
  BY <1>3, <1>5, <1>6 DEF Owned
-----------------------------------------------------------------------------
(***************************************************************************)
(* In a round a player has one answer to give.  It is in one place: an     *)
(* event that was not handled, a suspended call, a transaction that was    *)
(* not mined; or it was given, and nothing of the player is under way.     *)
(***************************************************************************)

Place == {"nowhere", "initialised", "round", "call", "tx"}

NoEvent(a, kind, id) == \A i \in 1 .. Len(inbox[a][kind]) : inbox[a][kind][i].id # id
OneEvent(a, kind, id) ==
    \A i, j \in 1 .. Len(inbox[a][kind]) :
        inbox[a][kind][i].id = id /\ inbox[a][kind][j].id = id => i = j

WillAnswer(c, id) == c.fn \in {"disputed", "submitRound", "respond"} /\ c.id = id
NoCall(a, id) == \A c \in calls[a] : ~WillAnswer(c, id)
OneCall(a, id) == \A b, c \in calls[a] : WillAnswer(b, id) /\ WillAnswer(c, id) => b = c

NoAnswer(a, id) == \A i \in 1 .. Len(txs[a]) : ~Answers(txs[a][i], id)
OneAnswer(a, id) ==
    \A i, j \in 1 .. Len(txs[a]) : Answers(txs[a][i], id) /\ Answers(txs[a][j], id) => i = j

OwnFlag(a, d) == IF d.challengerAddr = a THEN "CHALLENGER_RESPONDED" ELSE "SOLVER_RESPONDED"

\* A challenger is not told of its own dispute, and does nothing when it is.
Turn(a, id, at) ==
    /\ OwnFlag(a, disputes[id]) \in disputes[id].state => at = "nowhere"
    /\ a # Challenger(id) => OneEvent(a, "DisputeInitialised", id)
    /\ a # Challenger(id) /\ at # "initialised" => NoEvent(a, "DisputeInitialised", id)
    /\ OneEvent(a, "DisputeNewRound", id) /\ (at # "round" => NoEvent(a, "DisputeNewRound", id))
    /\ OneCall(a, id) /\ (at # "call" => NoCall(a, id))
    /\ OneAnswer(a, id) /\ (at # "tx" => NoAnswer(a, id))

\* The answer is the one that is asked for in this round.
CallCurrent(a, id, c) ==
    c.fn = "respond" /\ c.id = id =>
        /\ OwnSide(a, c.dispute).target = OwnSide(a, disputes[id]).target
        /\ c.dispute.witness = disputes[id].witness
TxCurrent(a, id, tx) ==
    Answers(tx, id) =>
        tx.hash = OwnSide(a, disputes[id]).target /\ tx.witness = disputes[id].witness
Current(a, id) ==
    /\ \A c \in calls[a] : CallCurrent(a, id, c)
    /\ \A i \in 1 .. Len(txs[a]) : TxCurrent(a, id, txs[a][i])

InTurn(owner) ==
    \A a \in Account, id \in DOMAIN disputes :
        Plays(owner, a, id) /\ Unresolved(id) /\ Apart(id) =>
            (\E at \in Place : Turn(a, id, at)) /\ Current(a, id)

\* What the two are about, of a dispute, beside the flag of the player.
SameDispute(id) ==
    /\ disputes'[id].challengerAddr = disputes[id].challengerAddr
    /\ disputes'[id].solverPath = disputes[id].solverPath
    /\ disputes'[id].challengerPath = disputes[id].challengerPath
    /\ disputes'[id].witness = disputes[id].witness
FlagCalm(a, id) ==
    OwnFlag(a, disputes[id])' \in disputes'[id].state => OwnFlag(a, disputes[id]) \in disputes[id].state

\* A step that adds nothing.
EventsCalm(a, kind, id) ==
    (OneEvent(a, kind, id) => OneEvent(a, kind, id)') /\ (NoEvent(a, kind, id) => NoEvent(a, kind, id)')
CallsCalm(a, id) == (OneCall(a, id) => OneCall(a, id)') /\ (NoCall(a, id) => NoCall(a, id)')
AnswersCalm(a, id) ==
    (OneAnswer(a, id) => OneAnswer(a, id)') /\ (NoAnswer(a, id) => NoAnswer(a, id)')

\* An event is handled.
LEMMA HandleTurns ==
    ASSUME InboxShape, NEW b \in Account, NEW k \in EventKind, Told(b, k), Handle(b, k),
           NEW id, NEW e, e = Event(b, k)
    PROVE  /\ \A a \in Account, kind \in EventKind : EventsCalm(a, kind, id)
           /\ NoEvent(b, k, id) => e.id # id
           /\ OneEvent(b, k, id) /\ e.id = id => NoEvent(b, k, id)'
<1> DEFINE q == inbox[b][k]
           later == inbox'[b][k]
<1>1. /\ IsSeq(q) /\ q # << >> /\ later = Tail(q) /\ e = q[1]
      /\ \A a \in Account, kind \in EventKind :
             ~(a = b /\ kind = k) => inbox'[a][kind] = inbox[a][kind]
  BY HandleShape DEF InboxShape
<1>2. \A a \in Account, kind \in EventKind : ~(a = b /\ kind = k) => EventsCalm(a, kind, id)
  BY <1>1 DEF EventsCalm, OneEvent, NoEvent
<1>3. /\ NoEvent(b, k, id) <=> \A i \in 1 .. Len(q) : q[i].id # id
      /\ NoEvent(b, k, id)' <=> \A i \in 1 .. Len(later) : later[i].id # id
      /\ OneEvent(b, k, id) <=> \A i, j \in 1 .. Len(q) : q[i].id = id /\ q[j].id = id => i = j
      /\ OneEvent(b, k, id)' <=>
             \A i, j \in 1 .. Len(later) : later[i].id = id /\ later[j].id = id => i = j
  BY DEF NoEvent, OneEvent
<1> HIDE DEF q, later
<1>4. /\ Len(q) \in Nat /\ Len(q) >= 1 /\ Len(later) = Len(q) - 1
      /\ \A i \in 1 .. Len(q) - 1 : later[i] = q[i + 1]
  BY <1>1, TailShape
<1>5. /\ 1 \in 1 .. Len(q)
      /\ \A i \in 1 .. Len(later) : i + 1 \in 1 .. Len(q) /\ later[i] = q[i + 1] /\ i + 1 # 1
      /\ \A i, j \in 1 .. Len(later) : i + 1 = j + 1 => i = j
  BY <1>4
<1>6. EventsCalm(b, k, id)
  BY <1>3, <1>5 DEF EventsCalm
<1>7. NoEvent(b, k, id) => e.id # id
  BY <1>1, <1>3, <1>5
<1>8. OneEvent(b, k, id) /\ e.id = id => NoEvent(b, k, id)'
  BY <1>1, <1>3, <1>5
<1> QED
  BY <1>2, <1>6, <1>7, <1>8

\* An event is emitted.
LEMMA EmitTurns ==
    ASSUME InboxShape, NEW k \in EventKind, NEW e, Emit(k, e), NEW id, NEW a \in Account
    PROVE  /\ \A kind \in EventKind : kind # k \/ e.id # id => EventsCalm(a, kind, id)
           /\ NoEvent(a, k, id) => OneEvent(a, k, id)'
<1> DEFINE q == inbox[a][k]
           later == inbox'[a][k]
<1>1. /\ IsSeq(q) /\ later = Append(q, e)
      /\ \A kind \in EventKind : kind # k => inbox'[a][kind] = inbox[a][kind]
  BY EmitShape DEF InboxShape
<1>2. \A kind \in EventKind : kind # k => EventsCalm(a, kind, id)
  BY <1>1 DEF EventsCalm, OneEvent, NoEvent
<1>3. /\ NoEvent(a, k, id) <=> \A i \in 1 .. Len(q) : q[i].id # id
      /\ NoEvent(a, k, id)' <=> \A i \in 1 .. Len(later) : later[i].id # id
      /\ OneEvent(a, k, id) <=> \A i, j \in 1 .. Len(q) : q[i].id = id /\ q[j].id = id => i = j
      /\ OneEvent(a, k, id)' <=>
             \A i, j \in 1 .. Len(later) : later[i].id = id /\ later[j].id = id => i = j
  BY DEF NoEvent, OneEvent
<1> HIDE DEF q, later
<1>4. /\ Len(q) \in Nat /\ Len(later) = Len(q) + 1 /\ later[Len(q) + 1] = e
      /\ \A i \in 1 .. Len(q) : later[i] = q[i]
  BY <1>1, AppendLast
<1>5. \A i \in 1 .. Len(later) :
          (i \in 1 .. Len(q) /\ later[i] = q[i]) \/ (i = Len(q) + 1 /\ later[i] = e)
  BY <1>4
<1>6. e.id # id => EventsCalm(a, k, id)
  BY <1>3, <1>5 DEF EventsCalm
<1>7. NoEvent(a, k, id) => OneEvent(a, k, id)'
  BY <1>3, <1>5
<1> QED
  BY <1>2, <1>6, <1>7

\* A call is suspended, resumed or goes on as another one.
LEMMA CallTurns ==
    ASSUME DOMAIN calls = Account, NEW b \in Account, NEW c, NEW next, NEW id,
           \/ Suspend(b, next) /\ c = next
           \/ Resume(b, c)
           \/ calls' = [calls EXCEPT ![b] = (calls[b] \ {c}) \cup {next}]
    PROVE  /\ \A a \in Account \ {b} : CallsCalm(a, id) /\ calls'[a] = calls[a]
           /\ \A s \in calls'[b] : s \in calls[b] \/ s = next
           /\ ~WillAnswer(next, id) \/ Resume(b, c) => CallsCalm(b, id)
           /\ NoCall(b, id) => OneCall(b, id)'
           /\ OneCall(b, id) /\ WillAnswer(c, id) /\ c \in calls[b] /\ ~Suspend(b, next) =>
                  /\ OneCall(b, id)'
                  /\ Resume(b, c) => NoCall(b, id)'
<1>1. /\ \A a \in Account \ {b} : calls'[a] = calls[a]
      /\ \/ calls'[b] = calls[b] \cup {next} /\ Suspend(b, next)
         \/ calls'[b] = calls[b] \ {c} /\ Resume(b, c)
         \/ calls'[b] = (calls[b] \ {c}) \cup {next}
      /\ Resume(b, c) => calls'[b] = calls[b] \ {c}
  BY DEF Suspend, Resume
<1>2. \A a \in Account \ {b} : CallsCalm(a, id)
  BY <1>1 DEF CallsCalm, OneCall, NoCall
<1>3. \A s \in calls'[b] : s \in calls[b] \/ s = next
  BY <1>1
<1>4. Resume(b, c) => \A s \in calls'[b] : s \in calls[b]
  BY <1>1
<1>5. ~WillAnswer(next, id) \/ Resume(b, c) => CallsCalm(b, id)
  BY <1>3, <1>4 DEF CallsCalm, OneCall, NoCall
<1>6. NoCall(b, id) => OneCall(b, id)'
  BY <1>3 DEF OneCall, NoCall
<1>7. ASSUME OneCall(b, id), WillAnswer(c, id), c \in calls[b], ~Suspend(b, next)
      PROVE  OneCall(b, id)' /\ (Resume(b, c) => NoCall(b, id)')
  <2>1. \A s \in calls'[b] : WillAnswer(s, id) => s = next /\ ~Resume(b, c)
    BY <1>1, <1>7 DEF OneCall
  <2> QED
    BY <2>1 DEF OneCall, NoCall
<1> QED
  BY <1>1, <1>2, <1>3, <1>5, <1>6, <1>7

\* In particular, a function that is called is suspended at its first await.
LEMMA SuspendTurns ==
    ASSUME DOMAIN calls = Account, NEW b \in Account, NEW c, NEW id, Suspend(b, c)
    PROVE  /\ \A a \in Account \ {b} : CallsCalm(a, id) /\ calls'[a] = calls[a]
           /\ \A s \in calls'[b] : s \in calls[b] \/ s = c
           /\ ~WillAnswer(c, id) => CallsCalm(b, id)
           /\ NoCall(b, id) => OneCall(b, id)'
<1>1. PICK next : next = c
  OBVIOUS
<1>2. Suspend(b, next) /\ c = next
  BY <1>1
<1>3. /\ \A a \in Account \ {b} : CallsCalm(a, id) /\ calls'[a] = calls[a]
      /\ \A s \in calls'[b] : s \in calls[b] \/ s = next
      /\ ~WillAnswer(next, id) \/ Resume(b, c) => CallsCalm(b, id)
      /\ NoCall(b, id) => OneCall(b, id)'
  BY <1>2, CallTurns
<1> QED
  BY <1>1, <1>3

\* A transaction is sent.
LEMMA SendTurns ==
    ASSUME TxsShape, NEW b \in Account, NEW tx, Send(b, tx), NEW id
    PROVE  /\ \A a \in Account \ {b} : AnswersCalm(a, id)
           /\ ~Answers(tx, id) => AnswersCalm(b, id)
           /\ NoAnswer(b, id) => OneAnswer(b, id)'
<1> DEFINE q == txs[b]
           later == txs'[b]
<1>1. IsSeq(q) /\ later = Append(q, tx) /\ \A a \in Account \ {b} : txs'[a] = txs[a]
  BY SendShape DEF TxsShape
<1>2. \A a \in Account \ {b} : AnswersCalm(a, id)
  BY <1>1 DEF AnswersCalm, OneAnswer, NoAnswer
<1>3. /\ NoAnswer(b, id) <=> \A i \in 1 .. Len(q) : ~Answers(q[i], id)
      /\ NoAnswer(b, id)' <=> \A i \in 1 .. Len(later) : ~Answers(later[i], id)
      /\ OneAnswer(b, id) <=>
             \A i, j \in 1 .. Len(q) : Answers(q[i], id) /\ Answers(q[j], id) => i = j
      /\ OneAnswer(b, id)' <=>
             \A i, j \in 1 .. Len(later) : Answers(later[i], id) /\ Answers(later[j], id) => i = j
  BY DEF NoAnswer, OneAnswer
<1> HIDE DEF q, later
<1>4. /\ Len(q) \in Nat /\ Len(later) = Len(q) + 1 /\ later[Len(q) + 1] = tx
      /\ \A i \in 1 .. Len(q) : later[i] = q[i]
  BY <1>1, AppendLast
<1>5. \A i \in 1 .. Len(later) :
          (i \in 1 .. Len(q) /\ later[i] = q[i]) \/ (i = Len(q) + 1 /\ later[i] = tx)
  BY <1>4
<1>6. ~Answers(tx, id) => AnswersCalm(b, id)
  BY <1>3, <1>5 DEF AnswersCalm
<1>7. NoAnswer(b, id) => OneAnswer(b, id)'
  BY <1>3, <1>5
<1> QED
  BY <1>2, <1>6, <1>7

\* A transaction is mined.
LEMMA MinedTurns ==
    ASSUME TxsShape, NEW b \in Account, txs[b] # << >>, Mined(b), NEW id, NEW tx, tx = Head(txs[b])
    PROVE  /\ \A a \in Account : AnswersCalm(a, id)
           /\ NoAnswer(b, id) => ~Answers(tx, id)
           /\ OneAnswer(b, id) /\ Answers(tx, id) => NoAnswer(b, id)'
<1> DEFINE q == txs[b]
           later == txs'[b]
<1>1. /\ IsSeq(q) /\ q # << >> /\ later = Tail(q) /\ tx = q[1]
      /\ \A a \in Account \ {b} : txs'[a] = txs[a]
  BY MinedShape DEF TxsShape
<1>2. \A a \in Account \ {b} : AnswersCalm(a, id)
  BY <1>1 DEF AnswersCalm, OneAnswer, NoAnswer
<1>3. /\ NoAnswer(b, id) <=> \A i \in 1 .. Len(q) : ~Answers(q[i], id)
      /\ NoAnswer(b, id)' <=> \A i \in 1 .. Len(later) : ~Answers(later[i], id)
      /\ OneAnswer(b, id) <=>
             \A i, j \in 1 .. Len(q) : Answers(q[i], id) /\ Answers(q[j], id) => i = j
      /\ OneAnswer(b, id)' <=>
             \A i, j \in 1 .. Len(later) : Answers(later[i], id) /\ Answers(later[j], id) => i = j
  BY DEF NoAnswer, OneAnswer
<1> HIDE DEF q, later
<1>4. /\ Len(q) \in Nat /\ Len(q) >= 1 /\ Len(later) = Len(q) - 1
      /\ \A i \in 1 .. Len(q) - 1 : later[i] = q[i + 1]
  BY <1>1, TailShape
<1>5. /\ 1 \in 1 .. Len(q)
      /\ \A i \in 1 .. Len(later) : i + 1 \in 1 .. Len(q) /\ later[i] = q[i + 1] /\ i + 1 # 1
      /\ \A i, j \in 1 .. Len(later) : i + 1 = j + 1 => i = j
  BY <1>4
<1>6. AnswersCalm(b, id)
  BY <1>3, <1>5 DEF AnswersCalm
<1>7. NoAnswer(b, id) => ~Answers(tx, id)
  BY <1>1, <1>3, <1>5
<1>8. OneAnswer(b, id) /\ Answers(tx, id) => NoAnswer(b, id)'
  BY <1>1, <1>3, <1>5
<1> QED
  BY <1>2, <1>6, <1>7, <1>8
-----------------------------------------------------------------------------
\* A step that leaves the dispute, the events, the calls and the transactions of a player
\* as they are, takes some away or adds some that are not about the dispute.
InboxFine(a, id) ==
    EventsCalm(a, "DisputeInitialised", id) /\ EventsCalm(a, "DisputeNewRound", id)
CallsFine(a, id) ==
    /\ CallsCalm(a, id)
    /\ \A c \in calls'[a] : c \in calls[a] \/ CallCurrent(a, id, c)'
TxsFine(a, id) ==
    /\ AnswersCalm(a, id)
    /\ \A i \in 1 .. Len(txs'[a]) :
           \/ TxCurrent(a, id, txs[a][i])'
           \/ \E j \in 1 .. Len(txs[a]) : txs'[a][i] = txs[a][j]
GoesOn(a, id) == (\E at \in Place : Turn(a, id, at)') /\ Current(a, id)'

\* What is current stays so.
LEMMA CurrentKept ==
    ASSUME NEW a, NEW id, SameDispute(id), Current(a, id),
           \A c \in calls'[a] : c \in calls[a] \/ CallCurrent(a, id, c)',
           \A i \in 1 .. Len(txs'[a]) :
               \/ TxCurrent(a, id, txs[a][i])'
               \/ \E j \in 1 .. Len(txs[a]) : txs'[a][i] = txs[a][j]
    PROVE  Current(a, id)'
<1>1. /\ OwnSide(a, disputes[id]).target' = OwnSide(a, disputes[id]).target
      /\ disputes'[id].witness = disputes[id].witness
  BY DEF SameDispute, OwnSide
<1>2. \A c : CallCurrent(a, id, c) => CallCurrent(a, id, c)'
  BY <1>1 DEF CallCurrent
<1>3. \A tx : TxCurrent(a, id, tx) => TxCurrent(a, id, tx)'
  BY <1>1 DEF TxCurrent
<1>4. ASSUME NEW i \in 1 .. Len(txs'[a]) PROVE TxCurrent(a, id, txs[a][i])'
  <2>1. ASSUME NEW j \in 1 .. Len(txs[a]), txs'[a][i] = txs[a][j]
        PROVE  TxCurrent(a, id, txs[a][i])'
    BY <1>3, <2>1 DEF Current
  <2> QED
    BY <2>1
<1> QED
  BY <1>2, <1>4 DEF Current

\* After such a step the player's turn is where it was.
LEMMA CalmGoesOn ==
    ASSUME NEW a, NEW id, SameDispute(id), FlagCalm(a, id), \E at \in Place : Turn(a, id, at), Current(a, id),
           InboxFine(a, id), CallsFine(a, id), TxsFine(a, id)
    PROVE  GoesOn(a, id)
<1>1. PICK at \in Place : Turn(a, id, at)
  OBVIOUS
<1>3. Challenger(id)' = Challenger(id)
  BY DEF SameDispute, Challenger
<1>4. /\ EventsCalm(a, "DisputeInitialised", id) /\ EventsCalm(a, "DisputeNewRound", id)
      /\ CallsCalm(a, id) /\ AnswersCalm(a, id)
  BY DEF InboxFine, CallsFine, TxsFine
<1>5. Turn(a, id, at)'
  BY <1>1, <1>3, <1>4 DEF Turn, FlagCalm, EventsCalm, CallsCalm, AnswersCalm
<1>6. Current(a, id)'
  BY CurrentKept DEF CallsFine, TxsFine
<1> QED
  BY <1>5, <1>6 DEF GoesOn

\* When a step is such a one.
LEMMA InboxIsFine ==
    ASSUME InboxShape, NEW a \in Account, NEW id
    PROVE  /\ inbox' = inbox => InboxFine(a, id)
           /\ \A b \in Account, k \in EventKind : Told(b, k) /\ Handle(b, k) => InboxFine(a, id)
           /\ \A k \in EventKind : \A e :
                  Emit(k, e) /\ (k \in {"Requested", "Registered"} \/ e.id # id) => InboxFine(a, id)
<1>1. inbox' = inbox => InboxFine(a, id)
  BY DEF InboxFine, EventsCalm, OneEvent, NoEvent
<1>2. "DisputeInitialised" \in EventKind /\ "DisputeNewRound" \in EventKind
  BY DEF EventKind
<1>3. ASSUME NEW b \in Account, NEW k \in EventKind, Told(b, k), Handle(b, k)
      PROVE  InboxFine(a, id)
  <2>1. PICK e : e = Event(b, k)
    OBVIOUS
  <2>2. \A kind \in EventKind : EventsCalm(a, kind, id)
    BY <1>3, <2>1, HandleTurns
  <2> QED
    BY <1>2, <2>2 DEF InboxFine
<1>4. ASSUME NEW k \in EventKind, NEW e, Emit(k, e), k \in {"Requested", "Registered"} \/ e.id # id
      PROVE  InboxFine(a, id)
  <2>1. \A kind \in EventKind : kind # k \/ e.id # id => EventsCalm(a, kind, id)
    BY <1>4, EmitTurns
  <2> QED
    BY <1>2, <1>4, <2>1 DEF InboxFine
<1> QED
  BY <1>1, <1>3, <1>4

\* When the calls are not touched, or not by one that will answer in this dispute.
LEMMA CallsAreFine ==
    ASSUME DOMAIN calls = Account, NEW a \in Account, NEW id
    PROVE  /\ calls' = calls => CallsFine(a, id)
           /\ \A b \in Account : \A c : Resume(b, c) => CallsFine(a, id)
           /\ \A b \in Account : \A c :
                  Suspend(b, c) /\ (a # b \/ ~WillAnswer(c, id)) => CallsFine(a, id)
           /\ \A b \in Account : \A c, next :
                  /\ calls' = [calls EXCEPT ![b] = (calls[b] \ {c}) \cup {next}]
                  /\ a # b \/ ~WillAnswer(next, id)
                  => CallsFine(a, id)
<1>1. calls' = calls => CallsFine(a, id)
  BY DEF CallsFine, CallsCalm, OneCall, NoCall
<1>2. \A next : ~WillAnswer(next, id) => CallCurrent(a, id, next)'
  BY DEF WillAnswer, CallCurrent
<1>3. ASSUME NEW b \in Account, NEW c, Resume(b, c) PROVE CallsFine(a, id)
  <2>1. CallsCalm(a, id)
    BY <1>3, CallTurns
  <2>2. \A s \in calls'[a] : s \in calls[a]
    BY <1>3 DEF Resume
  <2> QED
    BY <2>1, <2>2 DEF CallsFine
<1>4. ASSUME NEW b \in Account, NEW c, Suspend(b, c), a # b \/ ~WillAnswer(c, id)
      PROVE  CallsFine(a, id)
  <2>1. /\ \A o \in Account \ {b} : CallsCalm(o, id) /\ calls'[o] = calls[o]
        /\ \A s \in calls'[b] : s \in calls[b] \/ s = c
        /\ ~WillAnswer(c, id) => CallsCalm(b, id)
    BY <1>4, SuspendTurns
  <2> QED
    BY <1>2, <1>4, <2>1 DEF CallsFine
<1>5. ASSUME NEW b \in Account, NEW c, NEW next,
             calls' = [calls EXCEPT ![b] = (calls[b] \ {c}) \cup {next}],
             a # b \/ ~WillAnswer(next, id)
      PROVE  CallsFine(a, id)
  <2>1. /\ \A o \in Account \ {b} : CallsCalm(o, id) /\ calls'[o] = calls[o]
        /\ \A s \in calls'[b] : s \in calls[b] \/ s = next
        /\ ~WillAnswer(next, id) => CallsCalm(b, id)
    BY <1>5, CallTurns
  <2> QED
    BY <1>2, <1>5, <2>1 DEF CallsFine
<1> QED
  BY <1>1, <1>3, <1>4, <1>5

\* When the transactions are not touched, or not by an answer in this dispute.
LEMMA TxsAreFine ==
    ASSUME TxsShape, NEW a \in Account, NEW id
    PROVE  /\ txs' = txs => TxsFine(a, id)
           /\ \A b \in Account : txs[b] # << >> /\ Mined(b) => TxsFine(a, id)
           /\ \A b \in Account : \A tx :
                  Send(b, tx) /\ (a # b \/ ~Answers(tx, id)) => TxsFine(a, id)
<1>1. txs' = txs => TxsFine(a, id)
  BY DEF TxsFine, AnswersCalm, OneAnswer, NoAnswer
<1>2. ASSUME NEW b \in Account, txs[b] # << >>, Mined(b) PROVE TxsFine(a, id)
  <2>1. PICK tx : tx = Head(txs[b])
    OBVIOUS
  <2>2. AnswersCalm(a, id)
    BY <1>2, <2>1, MinedTurns
  <2>3. \A i \in 1 .. Len(txs'[a]) : \E j \in 1 .. Len(txs[a]) : txs'[a][i] = txs[a][j]
    BY <1>2, MinedShape
  <2> QED
    BY <2>2, <2>3 DEF TxsFine
<1>3. ASSUME NEW b \in Account, NEW tx, Send(b, tx), a # b \/ ~Answers(tx, id)
      PROVE  TxsFine(a, id)
  <2>1. AnswersCalm(a, id)
    BY <1>3, SendTurns
  <2>2. ASSUME NEW i \in 1 .. Len(txs'[a])
        PROVE  \/ TxCurrent(a, id, txs[a][i])'
               \/ \E j \in 1 .. Len(txs[a]) : txs'[a][i] = txs[a][j]
    <3>1. \/ a = b /\ txs'[a][i] = tx
          \/ \E j \in 1 .. Len(txs[a]) : txs'[a][i] = txs[a][j]
      BY <1>3, SendShape
    <3>2. ~Answers(tx, id) => TxCurrent(a, id, tx)'
      BY DEF TxCurrent
    <3> QED
      BY <1>3, <3>1, <3>2
  <2> QED
    BY <2>1, <2>2 DEF TxsFine
<1> QED
  BY <1>1, <1>2, <1>3
-----------------------------------------------------------------------------
(***************************************************************************)
(* The turns of the players, step by step.                                 *)
(***************************************************************************)

\* What holds of a player whose answer matters.
MyTurn(owner, a, id) ==
    /\ Plays(owner, a, id) /\ Unresolved(id) /\ Apart(id)
    /\ \E at \in Place : Turn(a, id, at)
    /\ Current(a, id)

\* The bot is told of a dispute about its execution, or of a new round.
LEMMA EventsInTurn ==
    ASSUME NEW owner, TypeOK, BotShape, Owned(owner),
           NEW a \in Account, NEW id \in DOMAIN disputes, MyTurn(owner, a, id),
           NEW b \in Account,
           onRequested(b) \/ onRegistered(b) \/ onDisputeInitialised(b) \/ onNewRound(b)
    PROVE  GoesOn(a, id)
<1>1. /\ {"Requested", "Registered", "DisputeInitialised", "DisputeNewRound"} \subseteq EventKind
      /\ InboxShape /\ DOMAIN calls = Account /\ TxsShape
      /\ SolutionsOK(owner) /\ DisputesOK(owner)
  BY DEF EventKind, BotShape, InboxShape, TxsShape, Owned
<1>2. SameDispute(id) /\ FlagCalm(a, id) /\ Challenger(id)' = Challenger(id) /\ disputes' = disputes
  BY DEF onRequested, onRegistered, onDisputeInitialised, onNewRound, vars, SameDispute, FlagCalm, Challenger
<1>3. PICK at \in Place : Turn(a, id, at)
  BY DEF MyTurn
<1>4. ASSUME InboxFine(a, id), CallsFine(a, id), TxsFine(a, id) PROVE GoesOn(a, id)
  BY <1>2, <1>4, CalmGoesOn DEF MyTurn
<1>5. CASE onRequested(b)
  <2>0. PICK e : e = Event(b, "Requested")
    OBVIOUS
  <2> DEFINE c == [fn |-> "registerExecution", task |-> e.task]
  <2>1. /\ Told(b, "Requested") /\ Handle(b, "Requested")
        /\ Suspend(b, c) \/ UNCHANGED calls
        /\ UNCHANGED txs
    BY <1>5, <2>0 DEF onRequested
  <2>2. ~WillAnswer(c, id)
    BY DEF WillAnswer
  <2> HIDE DEF c
  <2> QED
    BY <1>1, <1>4, <2>1, <2>2, InboxIsFine, CallsAreFine, TxsAreFine
<1>6. CASE onRegistered(b)
  <2>0. PICK e : e = Event(b, "Registered")
    OBVIOUS
  <2> DEFINE c == [fn |-> "validateExecution", execution |-> e.execution, depth |-> e.depth]
  <2>1. /\ Told(b, "Registered") /\ Handle(b, "Registered")
        /\ Suspend(b, c) \/ UNCHANGED calls
        /\ UNCHANGED txs
    BY <1>6, <2>0 DEF onRegistered
  <2>2. ~WillAnswer(c, id)
    BY DEF WillAnswer
  <2> HIDE DEF c
  <2> QED
    BY <1>1, <1>4, <2>1, <2>2, InboxIsFine, CallsAreFine, TxsAreFine
<1>7. CASE onDisputeInitialised(b)
  <2>0. PICK e : e = Event(b, "DisputeInitialised")
    OBVIOUS
  <2> DEFINE c == FirstRound(e.id)
  <2>1. /\ Told(b, "DisputeInitialised") /\ Handle(b, "DisputeInitialised")
        /\ \/ e.id.execution \in solutions[b] /\ Suspend(b, c)
           \/ UNCHANGED calls
        /\ UNCHANGED txs
    BY <1>7, <2>0 DEF onDisputeInitialised
  <2>2. c.fn = "submitRound" /\ c.id = e.id
    BY DEF FirstRound
  <2>3. /\ \A kind \in EventKind : EventsCalm(b, kind, id)
        /\ NoEvent(b, "DisputeInitialised", id) => e.id # id
        /\ OneEvent(b, "DisputeInitialised", id) /\ e.id = id => NoEvent(b, "DisputeInitialised", id)'
    BY <1>1, <2>0, <2>1, HandleTurns
  <2>4. InboxFine(a, id) /\ TxsFine(a, id)
    BY <1>1, <2>1, InboxIsFine, TxsAreFine
  <2> HIDE DEF c
  <2>5. CASE a # b \/ e.id # id \/ UNCHANGED calls
    <3>1. a # b \/ ~WillAnswer(c, id) \/ UNCHANGED calls
      BY <2>2, <2>5 DEF WillAnswer
    <3> QED
      BY <1>1, <1>4, <2>1, <2>4, <3>1, CallsAreFine
  <2>6. CASE a = b /\ e.id = id /\ id.execution \in solutions[b] /\ Suspend(b, c)
    <3>1. a # Challenger(id)
      BY <1>1, <2>6 DEF SolutionsOK, DisputesOK, Requester, Opponent
    <3>2. at = "initialised" /\ OneEvent(a, "DisputeInitialised", id)
      BY <1>3, <2>3, <2>6, <3>1 DEF Turn
    <3>3. /\ OwnFlag(a, disputes[id]) \notin disputes[id].state
          /\ NoEvent(a, "DisputeNewRound", id) /\ OneEvent(a, "DisputeNewRound", id)
          /\ NoCall(a, id) /\ OneAnswer(a, id) /\ NoAnswer(a, id)
      BY <1>3, <3>2 DEF Turn
    <3>4. /\ OneCall(a, id)'
          /\ \A s \in calls'[a] : s \in calls[a] \/ s = c
      BY <1>1, <2>6, <3>3, SuspendTurns
    <3>5. /\ NoEvent(a, "DisputeInitialised", id)' /\ OneEvent(a, "DisputeInitialised", id)'
          /\ NoEvent(a, "DisputeNewRound", id)' /\ OneEvent(a, "DisputeNewRound", id)'
          /\ OneAnswer(a, id)' /\ NoAnswer(a, id)'
      BY <1>1, <2>3, <2>4, <2>6, <3>2, <3>3 DEF EventsCalm, TxsFine, AnswersCalm
    <3>6. (OwnFlag(a, disputes[id]) \notin disputes[id].state)'
      BY <1>2, <3>3
    <3>7. Turn(a, id, "call")'
      BY <3>4, <3>5, <3>6 DEF Turn
    <3>8. CallCurrent(a, id, c)'
      BY <2>2 DEF CallCurrent
    <3>9. Current(a, id)'
      BY <1>2, <2>4, <3>4, <3>8, CurrentKept DEF MyTurn, TxsFine
    <3> QED
      BY <3>7, <3>9 DEF GoesOn, Place
  <2> QED
    BY <2>1, <2>5, <2>6
<1>8. CASE onNewRound(b)
  <2>0. PICK e : e = Event(b, "DisputeNewRound")
    OBVIOUS
  <2>node. PICK node : node = paths[b][e.id]
    OBVIOUS
  <2> DEFINE c == [fn |-> "submitRound", id |-> e.id, round |-> e.round]
             tx == [fn |-> "submitProof", id |-> e.id, leaf |-> node]
  <2>1. /\ Told(b, "DisputeNewRound") /\ Handle(b, "DisputeNewRound")
        /\ \/ UNCHANGED calls /\ (UNCHANGED txs \/ Send(b, tx))
           \/ Suspend(b, c) /\ UNCHANGED txs
    BY <1>8, <2>0, <2>node DEF onNewRound
  <2>2. /\ c.fn = "submitRound" /\ c.id = e.id /\ ~Answers(tx, id)
    BY DEF Answers
  <2>3. /\ \A kind \in EventKind : EventsCalm(b, kind, id)
        /\ NoEvent(b, "DisputeNewRound", id) => e.id # id
        /\ OneEvent(b, "DisputeNewRound", id) /\ e.id = id => NoEvent(b, "DisputeNewRound", id)'
    BY <1>1, <2>0, <2>1, HandleTurns
  <2> HIDE DEF c, tx
  <2>4. InboxFine(a, id) /\ TxsFine(a, id)
    BY <1>1, <2>1, <2>2, InboxIsFine, TxsAreFine
  <2>5. CASE a # b \/ e.id # id \/ UNCHANGED calls
    <3>1. a # b \/ ~WillAnswer(c, id) \/ UNCHANGED calls
      BY <2>2, <2>5 DEF WillAnswer
    <3> QED
      BY <1>1, <1>4, <2>1, <2>4, <3>1, CallsAreFine
  <2>6. CASE a = b /\ e.id = id /\ Suspend(b, c)
    <3>1. at = "round" /\ OneEvent(a, "DisputeNewRound", id)
      BY <1>3, <2>3, <2>6 DEF Turn
    <3>2. /\ OwnFlag(a, disputes[id]) \notin disputes[id].state
          /\ a # Challenger(id) =>
                 OneEvent(a, "DisputeInitialised", id) /\ NoEvent(a, "DisputeInitialised", id)
          /\ NoCall(a, id) /\ OneAnswer(a, id) /\ NoAnswer(a, id)
      BY <1>3, <3>1 DEF Turn
    <3>3. /\ OneCall(a, id)'
          /\ \A s \in calls'[a] : s \in calls[a] \/ s = c
      BY <1>1, <2>6, <3>2, SuspendTurns
    <3>4. /\ a # Challenger(id) =>
                 OneEvent(a, "DisputeInitialised", id)' /\ NoEvent(a, "DisputeInitialised", id)'
          /\ NoEvent(a, "DisputeNewRound", id)' /\ OneEvent(a, "DisputeNewRound", id)'
          /\ OneAnswer(a, id)' /\ NoAnswer(a, id)'
      BY <1>1, <2>3, <2>4, <2>6, <3>1, <3>2 DEF EventsCalm, TxsFine, AnswersCalm
    <3>5. (OwnFlag(a, disputes[id]) \notin disputes[id].state)'
      BY <1>2, <3>2
    <3>6. Turn(a, id, "call")'
      BY <1>2, <3>3, <3>4, <3>5 DEF Turn
    <3>7. CallCurrent(a, id, c)'
      BY <2>2 DEF CallCurrent
    <3>8. Current(a, id)'
      BY <1>2, <2>4, <3>3, <3>7, CurrentKept DEF MyTurn, TxsFine
    <3> QED
      BY <3>6, <3>8 DEF GoesOn, Place
  <2> QED
    BY <2>1, <2>5, <2>6
<1> QED
  BY <1>5, <1>6, <1>7, <1>8
\* A suspended function goes on.
LEMMA CallsInTurn ==
    ASSUME NEW owner, TypeOK, BotShape, Owned(owner),
           NEW a \in Account, NEW id \in DOMAIN disputes, MyTurn(owner, a, id),
           NEW b \in Account,
           \/ registerExecution(b) \/ registered(b) \/ validateExecution(b)
           \/ disputed(b) \/ readDispute(b) \/ submitRound(b)
    PROVE  GoesOn(a, id)
<1>1. InboxShape /\ DOMAIN calls = Account /\ TxsShape
  BY DEF BotShape, InboxShape, TxsShape
<1>2. /\ SameDispute(id) /\ FlagCalm(a, id) /\ Challenger(id)' = Challenger(id)
      /\ disputes' = disputes /\ inbox' = inbox
  BY DEF registerExecution, registered, validateExecution, disputed, readDispute, submitRound,
      vars, SameDispute, FlagCalm, Challenger
<1>3. PICK at \in Place : Turn(a, id, at)
  BY DEF MyTurn
<1>4. InboxFine(a, id)
  BY <1>1, <1>2, InboxIsFine
<1>5. ASSUME CallsFine(a, id), TxsFine(a, id) PROVE GoesOn(a, id)
  BY <1>2, <1>4, <1>5, CalmGoesOn DEF MyTurn
<1>6. CASE registerExecution(b)
  <2>1. PICK c : \E tree : /\ Resume(b, c)
                           /\ Send(b, [fn |-> "register", depth |-> Trees!depth(tree),
                                       execution |-> [task |-> c.task, root |-> RootHash(tree)]])
    BY <1>6 DEF registerExecution
  <2>2. PICK tree : Send(b, [fn |-> "register", depth |-> Trees!depth(tree),
                             execution |-> [task |-> c.task, root |-> RootHash(tree)]])
    BY <2>1
  <2> DEFINE tx == [fn |-> "register", depth |-> Trees!depth(tree),
                    execution |-> [task |-> c.task, root |-> RootHash(tree)]]
  <2>3. Send(b, tx) /\ ~Answers(tx, id)
    BY <2>2 DEF Answers
  <2> HIDE DEF tx
  <2> QED
    BY <1>1, <1>5, <2>1, <2>3, CallsAreFine, TxsAreFine
<1>7. CASE registered(b)
  BY <1>1, <1>5, <1>7, CallsAreFine, TxsAreFine DEF registered
<1>8. CASE validateExecution(b)
  <2>1. PICK c, root : /\ Resume(b, c)
                       /\ \/ Send(b, [fn |-> "dispute", execution |-> c.execution, root |-> root])
                          \/ UNCHANGED txs
    BY <1>8 DEF validateExecution
  <2> DEFINE tx == [fn |-> "dispute", execution |-> c.execution, root |-> root]
  <2>2. (Send(b, tx) \/ UNCHANGED txs) /\ ~Answers(tx, id)
    BY <2>1 DEF Answers
  <2> HIDE DEF tx
  <2> QED
    BY <1>1, <1>5, <2>1, <2>2, CallsAreFine, TxsAreFine
<1>9. ASSUME NEW c \in calls[b], NEW next, WillAnswer(c, c.id), next.id = c.id,
             calls' = [calls EXCEPT ![b] = (calls[b] \ {c}) \cup {next}], UNCHANGED txs,
             c.id = id => CallCurrent(b, id, next)'
      PROVE  GoesOn(a, id)
  <2>1. TxsFine(a, id)
    BY <1>1, <1>9, TxsAreFine
  <2>2. CASE a # b \/ c.id # id
    <3>1. a # b \/ ~WillAnswer(next, id)
      BY <1>9, <2>2 DEF WillAnswer
    <3>2. CallsFine(a, id)
      BY <1>1, <1>9, <3>1, CallsAreFine
    <3> QED
      BY <1>5, <2>1, <3>2
  <2>3. CASE a = b /\ c.id = id
    <3>1. at = "call" /\ OneCall(a, id)
      BY <1>3, <1>9, <2>3 DEF Turn, NoCall
    <3>2. OneCall(a, id)' /\ \A s \in calls'[a] : s \in calls[a] \/ s = next
      <4>1. \A s \in calls'[a] : s \in calls[a] \/ s = next
        BY <1>1, <1>9, <2>3
      <4>2. \A s \in calls'[a] : WillAnswer(s, id) => s = next
        BY <1>1, <1>9, <2>3, <3>1 DEF OneCall
      <4> QED
        BY <4>1, <4>2 DEF OneCall
    <3>3. /\ OwnFlag(a, disputes[id]) \notin disputes[id].state
          /\ OneEvent(a, "DisputeNewRound", id) /\ NoEvent(a, "DisputeNewRound", id)
          /\ a # Challenger(id) =>
                 OneEvent(a, "DisputeInitialised", id) /\ NoEvent(a, "DisputeInitialised", id)
          /\ OneAnswer(a, id) /\ NoAnswer(a, id)
      BY <1>3, <3>1 DEF Turn
    <3>4. /\ OneEvent(a, "DisputeNewRound", id)' /\ NoEvent(a, "DisputeNewRound", id)'
          /\ a # Challenger(id) =>
                 OneEvent(a, "DisputeInitialised", id)' /\ NoEvent(a, "DisputeInitialised", id)'
          /\ OneAnswer(a, id)' /\ NoAnswer(a, id)'
      BY <1>4, <2>1, <3>3 DEF InboxFine, EventsCalm, TxsFine, AnswersCalm
    <3>5. (OwnFlag(a, disputes[id]) \notin disputes[id].state)'
      BY <1>2, <3>3
    <3>6. Turn(a, id, "call")'
      BY <1>2, <3>2, <3>4, <3>5 DEF Turn
    <3>7. Current(a, id)'
      BY <1>2, <1>9, <2>1, <2>3, <3>2, CurrentKept DEF MyTurn, TxsFine
    <3> QED
      BY <3>6, <3>7 DEF GoesOn, Place
  <2> QED
    BY <2>2, <2>3
<1>10. CASE disputed(b)
  <2>1. PICK c \in Suspended(b, "disputed") :
            /\ calls' = [calls EXCEPT ![b] = (calls[b] \ {c}) \cup {FirstRound(c.id)}]
            /\ UNCHANGED txs
    BY <1>10 DEF disputed
  <2> DEFINE next == FirstRound(c.id)
  <2>2. next.fn = "submitRound" /\ next.id = c.id
    BY DEF FirstRound
  <2>3. calls' = [calls EXCEPT ![b] = (calls[b] \ {c}) \cup {next}]
    BY <2>1
  <2> HIDE DEF next
  <2>4. c \in calls[b] /\ WillAnswer(c, c.id) /\ CallCurrent(b, id, next)'
    BY <2>1, <2>2 DEF Suspended, WillAnswer, CallCurrent
  <2> QED
    BY <1>9, <2>1, <2>2, <2>3, <2>4
<1>11. CASE readDispute(b)
  <2>1. PICK c, d :
            /\ c \in Suspended(b, "submitRound")
            /\ calls' = [calls EXCEPT ![b] = (calls[b] \ {c}) \cup
                   {[fn |-> "respond", id |-> c.id, round |-> c.round, dispute |-> d]}]
            /\ d = disputes[c.id]
            /\ UNCHANGED txs
    BY <1>11 DEF readDispute
  <2> DEFINE next == [fn |-> "respond", id |-> c.id, round |-> c.round, dispute |-> d]
  <2>2. next.fn = "respond" /\ next.id = c.id /\ next.dispute = d
    OBVIOUS
  <2>3. calls' = [calls EXCEPT ![b] = (calls[b] \ {c}) \cup {next}]
    BY <2>1
  <2> HIDE DEF next
  <2>4. c \in calls[b] /\ WillAnswer(c, c.id)
    BY <2>1 DEF Suspended, WillAnswer
  <2>5. c.id = id => CallCurrent(b, id, next)'
    BY <1>2, <2>1, <2>2 DEF CallCurrent
  <2> QED
    BY <1>9, <2>1, <2>2, <2>3, <2>4, <2>5
<1>12. CASE submitRound(b)
  <2>1. PICK c, answer :
            /\ c \in Suspended(b, "respond")
            /\ answer = Answer(b, c, c.dispute)
            /\ Resume(b, c)
            /\ IF answer.sends
               THEN Send(b, [fn |-> "respond", id |-> c.id, hash |-> answer.node.hash,
                             witness |-> c.dispute.witness])
               ELSE UNCHANGED txs
    BY <1>12 DEF submitRound
  <2> DEFINE tx == [fn |-> "respond", id |-> c.id, hash |-> answer.node.hash,
                    witness |-> c.dispute.witness]
  <2>2. /\ tx.fn = "respond" /\ tx.id = c.id
        /\ tx.hash = answer.node.hash /\ tx.witness = c.dispute.witness
    OBVIOUS
  <2>3. IF answer.sends THEN Send(b, tx) ELSE UNCHANGED txs
    BY <2>1
  <2> HIDE DEF tx
  <2>4. c \in calls[b] /\ c.fn = "respond" /\ CallsFine(a, id)
    BY <1>1, <2>1, CallsAreFine DEF Suspended
  <2>5. CASE a # b \/ c.id # id \/ UNCHANGED txs
    <3>1. TxsFine(a, id)
      BY <1>1, <2>2, <2>3, <2>5, TxsAreFine DEF Answers
    <3> QED
      BY <1>5, <2>4, <3>1
  <2>6. CASE a = b /\ c.id = id /\ answer.sends
    <3>1. WillAnswer(c, id) /\ CallCurrent(a, id, c) /\ Send(a, tx)
      BY <2>3, <2>4, <2>6 DEF WillAnswer, MyTurn, Current
    <3>2. at = "call" /\ OneCall(a, id)
      BY <1>3, <2>4, <2>6, <3>1 DEF Turn, NoCall
    <3>3. NoCall(a, id)' /\ OneCall(a, id)'
      <4>1. \A s \in calls'[a] : s \in calls[a] \ {c}
        BY <1>1, <2>1, <2>6 DEF Resume
      <4> QED
        BY <2>4, <2>6, <3>1, <3>2, <4>1 DEF NoCall, OneCall
    <3>4. /\ OwnFlag(a, disputes[id]) \notin disputes[id].state
          /\ OneEvent(a, "DisputeNewRound", id) /\ NoEvent(a, "DisputeNewRound", id)
          /\ a # Challenger(id) =>
                 OneEvent(a, "DisputeInitialised", id) /\ NoEvent(a, "DisputeInitialised", id)
          /\ NoAnswer(a, id)
      BY <1>3, <3>2 DEF Turn
    <3>5. /\ OneEvent(a, "DisputeNewRound", id)' /\ NoEvent(a, "DisputeNewRound", id)'
          /\ a # Challenger(id) =>
                 OneEvent(a, "DisputeInitialised", id)' /\ NoEvent(a, "DisputeInitialised", id)'
      BY <1>4, <3>4 DEF InboxFine, EventsCalm
    <3>6. OneAnswer(a, id)'
      BY <1>1, <3>1, <3>4, SendTurns
    <3>7. (OwnFlag(a, disputes[id]) \notin disputes[id].state)'
      BY <1>2, <3>4
    <3>8. Turn(a, id, "tx")'
      BY <1>2, <3>3, <3>5, <3>6, <3>7 DEF Turn
    <3>9. answer.node.hash = OwnSide(a, c.dispute).target
      <4>1. /\ answer.node = Trees!getNode(TreeIn(a, id), OwnSide(a, c.dispute).target)
            /\ answer.node # Trees!NoNode
        BY <2>1, <2>6 DEF Answer
      <4> QED
        BY <4>1, TreesInPlay
    <3>10. TxCurrent(a, id, tx)
      BY <2>2, <2>4, <2>6, <3>1, <3>9 DEF TxCurrent, CallCurrent
    <3>11. TxCurrent(a, id, tx)'
      BY <1>2, <3>10 DEF TxCurrent
    <3>12. \A i \in 1 .. Len(txs'[a]) :
               txs'[a][i] = tx \/ \E j \in 1 .. Len(txs[a]) : txs'[a][i] = txs[a][j]
      BY <1>1, <3>1, SendShape
    <3>13. \A i \in 1 .. Len(txs'[a]) :
               \/ TxCurrent(a, id, txs[a][i])'
               \/ \E j \in 1 .. Len(txs[a]) : txs'[a][i] = txs[a][j]
      BY <3>11, <3>12
    <3>14. Current(a, id)'
      BY <1>2, <2>4, <3>13, CurrentKept DEF MyTurn, CallsFine
    <3> QED
      BY <3>8, <3>14 DEF GoesOn, Place
  <2> QED
    BY <2>3, <2>5, <2>6
<1> QED
  BY <1>6, <1>7, <1>8, <1>10, <1>11, <1>12
\* What a response that is taken makes of its dispute, while that goes on and the players
\* are apart: it is recorded for the player who sent it, or both are and a round begins.
LEMMA ResponseTaken ==
    ASSUME NEW owner, TypeOK, BotShape, Owned(owner), NEW id \in DOMAIN disputes,
           Unresolved(id), Unresolved(id)', Apart(id),
           NEW b \in Account, Plays(owner, b, id), NEW tx, tx.id = id, TxCurrent(b, id, tx),
           tx.fn = "respond", NEW verdict \in Verdict, Respond(id, tx.hash, verdict)
    PROVE  LET own == OwnFlag(b, disputes[id])
               other == IF own = "SOLVER_RESPONDED" THEN "CHALLENGER_RESPONDED" ELSE "SOLVER_RESPONDED"
           IN  /\ disputes'[id].challengerAddr = disputes[id].challengerAddr
               /\ \/ /\ ~NextRoundStarted(id)
                     /\ disputes'[id].solverPath = disputes[id].solverPath
                     /\ disputes'[id].challengerPath = disputes[id].challengerPath
                     /\ disputes'[id].witness = disputes[id].witness
                     /\ other \in disputes'[id].state <=> other \in disputes[id].state
                  \/ /\ NextRoundStarted(id)
                     /\ other \in disputes[id].state
                     /\ disputes'[id].state \cap RESPONDED = {}
<1> DEFINE d == disputes[id]
           h == tx.hash
           r == Received(d, h, Open[h])
           own == OwnFlag(b, d)
           other == IF own = "SOLVER_RESPONDED" THEN "CHALLENGER_RESPONDED" ELSE "SOLVER_RESPONDED"
<1>1. d \in DisputeRecord /\ d.solverPath # d.challengerPath /\ d.state \cap VERIFIED = {}
  BY DEF TypeOK, Apart, Unresolved
<1>2. /\ h \in DOMAIN Open /\ d.treeDepth > 0 /\ UpdateRound(id, r, verdict)
      /\ h \in {d.solverPath, d.challengerPath}
  BY DEF Respond, AboveLeaf
<1>3. h = OwnSide(b, d).target
  BY DEF TxCurrent, Answers
<1>4. h = IF own = "SOLVER_RESPONDED" THEN d.solverPath ELSE d.challengerPath
  BY <1>3 DEF OwnSide, OwnFlag
<1>5. own \in RESPONDED /\ other \in RESPONDED /\ own # other
  BY DEF OwnFlag, RESPONDED
<1>6. r \in DisputeRecord /\ r.challengerAddr = d.challengerAddr /\ r.treeDepth = d.treeDepth
      /\ r.witness = d.witness /\ r.state \cap VERIFIED = {}
  BY <1>1, <1>2, ReceivedMove
<1>7. r.solverPath = d.solverPath /\ r.challengerPath = d.challengerPath
  BY <1>1 DEF Received, DisputeRecord
<1>8. r.state = d.state \cup {own}
  <2>1. r.state = (d.state \cup (IF h = d.solverPath THEN {"SOLVER_RESPONDED"} ELSE {}))
                      \cup (IF h = d.challengerPath THEN {"CHALLENGER_RESPONDED"} ELSE {})
    BY <1>1 DEF Received, DisputeRecord
  <2>2. own \in {"SOLVER_RESPONDED", "CHALLENGER_RESPONDED"}
    BY DEF OwnFlag
  <2> HIDE DEF r, own, h, d
  <2>3. CASE own = "SOLVER_RESPONDED"
    BY <1>1, <1>4, <2>1, <2>3
  <2>4. CASE own = "CHALLENGER_RESPONDED"
    BY <1>1, <1>4, <2>1, <2>4
  <2> QED
    BY <2>2, <2>3, <2>4
<1> HIDE DEF r, own, h, d
<1>9. CASE ~(RESPONDED \subseteq r.state)
  <2>1. disputes' = [disputes EXCEPT ![id] = r]
    BY <1>2, <1>9 DEF UpdateRound
  <2>2. disputes'[id] = r
    BY <2>1
  <2>3. ~NextRoundStarted(id)
    BY <1>6, <2>2 DEF NextRoundStarted, d
  <2> QED
    BY <1>5, <1>6, <1>7, <1>8, <2>2, <2>3 DEF d, own
<1>10. CASE RESPONDED \subseteq r.state
  <2>1. other \in d.state
    BY <1>5, <1>8, <1>10
  <2>2. \/ disputes' = [disputes EXCEPT ![id] = Resolved(r, verdict)]
        \/ disputes' = [disputes EXCEPT ![id] = NextRound(r)]
    BY <1>2, <1>10 DEF UpdateRound
  <2>3. disputes'[id] = Resolved(r, verdict) \/ disputes'[id] = NextRound(r)
    BY <2>2
  <2>4. Resolved(r, verdict).state \cap VERIFIED # {}
    BY <1>6 DEF Resolved, DisputeRecord, VERIFIED
  <2>5. disputes'[id] = NextRound(r)
    BY <2>3, <2>4 DEF Unresolved
  <2>6. /\ NextRound(r).challengerAddr = r.challengerAddr
        /\ NextRound(r).treeDepth = r.treeDepth - 1
        /\ NextRound(r).state \subseteq r.state \ RESPONDED
    BY <1>6 DEF NextRound, GoRight, GoLeft, DisputeRecord
  <2>7. r.treeDepth - 1 # r.treeDepth /\ NextRoundStarted(id)
    <3>1. r.treeDepth \in Nat
      BY <1>6 DEF DisputeRecord
    <3>2. r.treeDepth - 1 # r.treeDepth
      BY <3>1
    <3> QED
      BY <1>6, <2>5, <2>6, <3>2 DEF NextRoundStarted, d
  <2> QED
    BY <1>6, <2>1, <2>5, <2>6, <2>7 DEF d, own
<1> QED
  BY <1>9, <1>10
\* Players that are apart were so before, and in a game that was going on.
LEMMA ApartBefore ==
    ASSUME TypeOK, [Next]_vars, NEW id \in DOMAIN disputes, Unresolved(id)', Apart(id)'
    PROVE  Unresolved(id) /\ Apart(id)
<1> DEFINE d == disputes[id]
           Goal == Unresolved(id) /\ Apart(id)
<1>1. d \in DisputeRecord
  BY DEF TypeOK
<1>2. ASSUME disputes'[id] = d PROVE Goal
  BY <1>2 DEF Unresolved, Exists, Apart
<1>3. ASSUME NEW h, NEW verdict, Respond(id, h, verdict) PROVE Goal
  <2> DEFINE r == Received(d, h, Open[h])
  <2>1. /\ Unresolved(id) /\ h \in {d.solverPath, d.challengerPath} /\ h \in DOMAIN Open
        /\ UpdateRound(id, r, verdict)
    BY <1>3 DEF Respond, Playing
  <2>2. SUFFICES ASSUME d.solverPath = d.challengerPath PROVE FALSE
    BY <2>1 DEF Apart
  <2>3. /\ r.solver = r.challenger /\ r.solverPath = r.challengerPath
        /\ r \in DisputeRecord
    <3>1. r.solver = Open[h] /\ r.challenger = Open[h] /\ r.solverPath = d.solverPath
          /\ r.challengerPath = d.challengerPath
      BY <1>1, <2>1, <2>2 DEF Received, DisputeRecord
    <3>2. r \in DisputeRecord
      BY <1>1, <2>1, ReceivedMove DEF Unresolved
    <3> QED
      BY <2>2, <3>1, <3>2
  <2> HIDE DEF r
  <2>4. \/ disputes'[id] = r
        \/ disputes'[id] = Resolved(r, verdict)
        \/ disputes'[id] = NextRound(r)
    BY <2>1 DEF UpdateRound
  <2>5. Resolved(r, verdict).solverPath = Resolved(r, verdict).challengerPath
    BY <2>3 DEF Resolved, DisputeRecord
  <2>6. NextRound(r).solverPath = NextRound(r).challengerPath
    BY <2>3 DEF NextRound, GoRight, GoLeft, DisputeRecord
  <2> QED
    BY <2>3, <2>4, <2>5, <2>6 DEF Apart
<1>4. ASSUME NEW input, NEW o, NEW verdict, SubmitProof(id, input, o, verdict) PROVE Goal
  <2>1. Unresolved(id) /\ disputes' = [disputes EXCEPT ![id].state = d.state \cup Proven(d, o)]
    BY <1>4 DEF SubmitProof, Playing
  <2>2. disputes'[id].solverPath = d.solverPath /\ disputes'[id].challengerPath = d.challengerPath
    BY <1>1, <2>1 DEF DisputeRecord
  <2> QED
    BY <2>1, <2>2 DEF Apart
<1>5. ASSUME NEW verdict, ClaimTimeout(id, verdict) PROVE Goal
  <2>1. Unresolved(id) /\ disputes'[id] = Resolved(d, verdict)
    BY <1>5 DEF ClaimTimeout
  <2>2. disputes'[id].solverPath = d.solverPath /\ disputes'[id].challengerPath = d.challengerPath
    BY <1>1, <2>1 DEF Resolved, DisputeRecord
  <2> QED
    BY <2>1, <2>2 DEF Apart
<1>6. ASSUME NEW k \in DOMAIN disputes, Play(k) PROVE Goal
  <2>1. CASE k # id
    <3>1. disputes'[id] = d
      BY <1>6, <2>1 DEF Play, Respond, UpdateRound, SubmitProof, ClaimTimeout
    <3> QED
      BY <1>2, <3>1
  <2>2. CASE k = id
    BY <1>3, <1>4, <1>5, <1>6, <2>2 DEF Play
  <2> QED
    BY <2>1, <2>2
<1>7. ASSUME NEW a, NEW execution, NEW root, Dispute(a, execution, root) PROVE Goal
  <2>1. disputes'[id] = d
    BY <1>7 DEF Dispute, InitGame, Exists, Put
  <2> QED
    BY <1>2, <2>1
<1>8. ASSUME UNCHANGED disputes PROVE Goal
  BY <1>2, <1>8
<1> HIDE DEF Goal
<1>9. Goal
  BY <1>6, <1>7, <1>8 DEF Next, vars
<1> QED
  BY <1>9 DEF Goal

\* A dispute is opened: the solver is to be told of it, the challenger goes on itself.
LEMMA NewDisputeInTurn ==
    ASSUME NEW owner, TypeOK, BotShape, Owned(owner), NEW b \in Account, mineDispute(b),
           NEW a \in Account, NEW id \in DOMAIN disputes' \ DOMAIN disputes
    PROVE  GoesOn(a, id)
<1>1. /\ InboxShape /\ DOMAIN calls = Account /\ TxsShape
      /\ InboxOK(owner) /\ CallsOK(owner) /\ TxsOK(owner)
      /\ "DisputeInitialised" \in EventKind /\ "DisputeNewRound" \in EventKind
  BY DEF EventKind, BotShape, InboxShape, TxsShape, Owned
<1>2. PICK tx : tx = Head(txs[b])
  OBVIOUS
<1>3. /\ Dispute(b, tx.execution, tx.root) /\ Mined(b) /\ txs[b] # << >>
      /\ Emit("DisputeInitialised", [id |-> DisputeOf(tx.execution, tx.root)])
      /\ Suspend(b, [fn |-> "disputed", id |-> DisputeOf(tx.execution, tx.root)])
  BY <1>2 DEF mineDispute, ToMine
<1>4. /\ id = DisputeOf(tx.execution, tx.root)
      /\ disputes'[id].challengerAddr = b /\ disputes'[id].state = INITIAL_STATE
  BY <1>3 DEF Dispute, InitGame, Put
<1> DEFINE e == [id |-> id]
           c == [fn |-> "disputed", id |-> id]
<1>5. Emit("DisputeInitialised", e) /\ Suspend(b, c) /\ c.fn = "disputed" /\ e.id = id
  BY <1>3, <1>4
<1> HIDE DEF e, c
<1>6. NoEvent(a, "DisputeInitialised", id) /\ NoEvent(a, "DisputeNewRound", id)
  BY <1>1 DEF NoEvent, InboxOK, EventOK
<1>7. NoCall(a, id)
  BY <1>1 DEF NoCall, CallsOK, CallOK, WillAnswer, Plays
<1>8. NoAnswer(a, id)
  BY <1>1 DEF NoAnswer, TxsOK, TxOK, Answers, Plays
<1>9. /\ OneEvent(a, "DisputeInitialised", id)'
      /\ NoEvent(a, "DisputeNewRound", id)' /\ OneEvent(a, "DisputeNewRound", id)'
  <2>1. OneEvent(a, "DisputeNewRound", id)
    BY <1>6 DEF OneEvent, NoEvent
  <2>2. /\ EventsCalm(a, "DisputeNewRound", id)
        /\ NoEvent(a, "DisputeInitialised", id) => OneEvent(a, "DisputeInitialised", id)'
    BY <1>1, <1>5, EmitTurns
  <2> QED
    BY <1>6, <2>1, <2>2 DEF EventsCalm
<1>10. NoAnswer(a, id)' /\ OneAnswer(a, id)'
  <2>1. AnswersCalm(a, id)
    BY <1>1, <1>2, <1>3, MinedTurns
  <2> QED
    BY <1>8, <2>1 DEF AnswersCalm, NoAnswer, OneAnswer
<1>11. /\ \A s \in calls'[a] : s \in calls[a] \/ s = c
       /\ OneCall(a, id)' /\ (a # b => NoCall(a, id)')
  <2>1. /\ \A o \in Account \ {b} : calls'[o] = calls[o]
        /\ \A s \in calls'[b] : s \in calls[b] \/ s = c
        /\ NoCall(b, id) => OneCall(b, id)'
    BY <1>1, <1>5, SuspendTurns
  <2> QED
    BY <1>7, <2>1 DEF NoCall, OneCall
<1>12. (OwnFlag(a, disputes[id]) \notin disputes[id].state)'
  BY <1>4 DEF OwnFlag, INITIAL_STATE
<1>13. Challenger(id)' = b
  BY <1>4 DEF Challenger
<1>14. \E at \in Place : Turn(a, id, at)'
  <2>1. CASE a = b
    <3>1. Turn(a, id, "call")'
      BY <1>9, <1>10, <1>11, <1>12, <1>13, <2>1 DEF Turn
    <3> QED
      BY <3>1 DEF Place
  <2>2. CASE a # b
    <3>1. Turn(a, id, "initialised")'
      BY <1>9, <1>10, <1>11, <1>12, <1>13, <2>2 DEF Turn
    <3> QED
      BY <3>1 DEF Place
  <2> QED
    BY <2>1, <2>2
<1>15. Current(a, id)'
  <2>1. \A s \in calls'[a] : s.fn = "respond" /\ s.id = id => FALSE
    BY <1>5, <1>7, <1>11 DEF NoCall, WillAnswer
  <2> QED
    BY <1>10, <2>1 DEF Current, CallCurrent, TxCurrent, NoAnswer
<1> QED
  BY <1>14, <1>15 DEF GoesOn
\* A response is mined.
LEMMA ResponseInTurn ==
    ASSUME NEW owner, TypeOK, BotShape, Owned(owner),
           NEW a \in Account, NEW id \in DOMAIN disputes, InTurn(owner), MyTurn(owner, a, id),
           Unresolved(id)', NEW b \in Account, mineRespond(b)
    PROVE  GoesOn(a, id)
<1>1. /\ InboxShape /\ DOMAIN calls = Account /\ TxsShape /\ TxsOK(owner) /\ DisputesOK(owner)
      /\ "DisputeInitialised" \in EventKind /\ "DisputeNewRound" \in EventKind
  BY DEF EventKind, BotShape, InboxShape, TxsShape, Owned
<1>2. PICK tx, round : /\ tx = Head(txs[b]) /\ tx = txs[b][1] /\ 1 \in 1 .. Len(txs[b])
                       /\ tx.fn = "respond" /\ round = disputes'[tx.id].treeDepth
  BY <1>1, NextTx DEF mineRespond
<1> DEFINE e == [id |-> tx.id, round |-> round]
<1>3. /\ txs[b] # << >> /\ Mined(b) /\ UNCHANGED calls
      /\ IF NextRoundStarted(tx.id) THEN Emit("DisputeNewRound", e) ELSE UNCHANGED inbox
  BY <1>2 DEF mineRespond, ToMine
<1>4. e.id = tx.id
  OBVIOUS
<1> HIDE DEF e
<1>5. PICK verdict \in Verdict : Respond(tx.id, tx.hash, verdict)
  BY <1>1, <1>2, RespondIsPlayed
<1>6. Plays(owner, b, tx.id) /\ Answers(tx, tx.id)
  BY <1>1, <1>2, RespondIsPlayed
<1>7. CallsFine(a, id) /\ TxsFine(a, id)
  BY <1>1, <1>3, CallsAreFine, TxsAreFine
<1>8. PICK at \in Place : Turn(a, id, at)
  BY DEF MyTurn
<1>9. CASE tx.id # id
  <2>1. disputes'[id] = disputes[id]
    BY <1>5, <1>9 DEF Respond, UpdateRound
  <2>2. SameDispute(id) /\ FlagCalm(a, id)
    BY <2>1 DEF SameDispute, FlagCalm, OwnFlag
  <2>3. InboxFine(a, id)
    BY <1>1, <1>3, <1>4, <1>9, InboxIsFine
  <2> QED
    BY <1>7, <2>2, <2>3, CalmGoesOn DEF MyTurn
<1>10. CASE tx.id = id
  <2> DEFINE own == OwnFlag(b, disputes[id])
             other == IF own = "SOLVER_RESPONDED" THEN "CHALLENGER_RESPONDED" ELSE "SOLVER_RESPONDED"
  <2>1. TxCurrent(b, id, tx) /\ Plays(owner, b, id)
    BY <1>2, <1>6, <1>10 DEF InTurn, MyTurn, Current
  <2>2. /\ disputes'[id].challengerAddr = disputes[id].challengerAddr
        /\ \/ /\ ~NextRoundStarted(id) /\ SameDispute(id)
              /\ other \in disputes'[id].state <=> other \in disputes[id].state
           \/ /\ NextRoundStarted(id)
              /\ other \in disputes[id].state
              /\ disputes'[id].state \cap RESPONDED = {}
    BY <1>2, <1>5, <1>10, <2>1, ResponseTaken DEF MyTurn, SameDispute
  <2>3. OwnFlag(a, disputes[id]) = IF a = b THEN own ELSE other
    BY <1>1, <2>1 DEF MyTurn, Plays, OwnFlag, Challenger, DisputesOK, Opponent
  <2>4. /\ OwnFlag(a, disputes[id])' = OwnFlag(a, disputes[id])
        /\ OwnFlag(a, disputes[id]) \in RESPONDED /\ Challenger(id)' = Challenger(id)
    BY <2>2 DEF OwnFlag, RESPONDED, Challenger
  <2>5. a = b => at = "tx" /\ NoAnswer(a, id)'
    <3>1. a = b => OneAnswer(a, id)
      BY <1>8 DEF Turn
    <3>2. /\ NoAnswer(b, id) => ~Answers(tx, id)
          /\ OneAnswer(b, id) /\ Answers(tx, id) => NoAnswer(b, id)'
      BY <1>1, <1>2, <1>3, MinedTurns
    <3> QED
      BY <1>6, <1>8, <1>10, <3>1, <3>2 DEF Turn
  <2> HIDE DEF own, other
  <2>6. CASE ~NextRoundStarted(id)
    <3>1. InboxFine(a, id) /\ SameDispute(id)
      BY <1>1, <1>3, <1>10, <2>2, <2>6, InboxIsFine
    <3>2. CASE a # b
      <4>1. FlagCalm(a, id)
        BY <2>2, <2>3, <2>4, <2>6, <3>2 DEF FlagCalm
      <4> QED
        BY <1>7, <3>1, <4>1, CalmGoesOn DEF MyTurn
    <3>3. CASE a = b
      <4>1. /\ NoEvent(a, "DisputeNewRound", id) /\ NoCall(a, id)
            /\ OneEvent(a, "DisputeNewRound", id) /\ OneCall(a, id) /\ OneAnswer(a, id)
            /\ a # Challenger(id) =>
                   NoEvent(a, "DisputeInitialised", id) /\ OneEvent(a, "DisputeInitialised", id)
        BY <1>8, <2>5, <3>3 DEF Turn
      <4>2. /\ NoEvent(a, "DisputeNewRound", id)' /\ NoCall(a, id)'
            /\ OneEvent(a, "DisputeNewRound", id)' /\ OneCall(a, id)' /\ OneAnswer(a, id)'
            /\ a # Challenger(id) =>
                   NoEvent(a, "DisputeInitialised", id)' /\ OneEvent(a, "DisputeInitialised", id)'
        BY <1>7, <3>1, <4>1 DEF InboxFine, EventsCalm, CallsFine, CallsCalm, TxsFine, AnswersCalm
      <4>3. Turn(a, id, "nowhere")'
        BY <2>4, <2>5, <3>3, <4>2 DEF Turn
      <4>4. Current(a, id)'
        BY <1>7, <3>1, CurrentKept DEF MyTurn, CallsFine, TxsFine
      <4> QED
        BY <4>3, <4>4 DEF GoesOn, Place
    <3> QED
      BY <3>2, <3>3
  <2>7. CASE NextRoundStarted(id)
    <3>1. a # b => at = "nowhere"
      BY <1>8, <2>2, <2>3, <2>7 DEF Turn
    <3>2. /\ NoEvent(a, "DisputeNewRound", id) /\ NoCall(a, id)
          /\ OneCall(a, id) /\ OneAnswer(a, id) /\ (a # b => NoAnswer(a, id))
          /\ a # Challenger(id) =>
                 NoEvent(a, "DisputeInitialised", id) /\ OneEvent(a, "DisputeInitialised", id)
      BY <1>8, <2>5, <3>1 DEF Turn
    <3>3. NoCall(a, id)' /\ OneCall(a, id)' /\ OneAnswer(a, id)' /\ NoAnswer(a, id)'
      BY <1>7, <2>5, <3>2 DEF CallsFine, CallsCalm, TxsFine, AnswersCalm
    <3>4. /\ OneEvent(a, "DisputeNewRound", id)'
          /\ a # Challenger(id) =>
                 NoEvent(a, "DisputeInitialised", id)' /\ OneEvent(a, "DisputeInitialised", id)'
      <4>1. Emit("DisputeNewRound", e)
        BY <1>3, <1>10, <2>7
      <4>2. /\ EventsCalm(a, "DisputeInitialised", id)
            /\ NoEvent(a, "DisputeNewRound", id) => OneEvent(a, "DisputeNewRound", id)'
        BY <1>1, <4>1, EmitTurns
      <4> QED
        BY <3>2, <4>2 DEF EventsCalm
    <3>5. (OwnFlag(a, disputes[id]) \notin disputes[id].state)'
      BY <2>2, <2>4, <2>7
    <3>6. Turn(a, id, "round")'
      BY <2>4, <3>3, <3>4, <3>5 DEF Turn
    <3>7. Current(a, id)'
      BY <3>3 DEF Current, CallCurrent, TxCurrent, NoCall, NoAnswer, WillAnswer
    <3> QED
      BY <3>6, <3>7 DEF GoesOn, Place
  <2> QED
    BY <2>6, <2>7
<1> QED
  BY <1>9, <1>10
\* Another transaction is mined.
LEMMA MiningInTurn ==
    ASSUME NEW owner, TypeOK, BotShape, Owned(owner),
           NEW a \in Account, NEW id \in DOMAIN disputes, InTurn(owner), MyTurn(owner, a, id),
           Unresolved(id)', NEW b \in Account, Mine(b)
    PROVE  GoesOn(a, id)
<1>1. /\ InboxShape /\ DOMAIN calls = Account /\ TxsShape /\ TxsOK(owner)
      /\ {"Registered", "DisputeInitialised"} \subseteq EventKind
  BY DEF EventKind, BotShape, InboxShape, TxsShape, Owned
<1>2. ASSUME disputes'[id] = disputes[id], InboxFine(a, id), CallsFine(a, id), TxsFine(a, id)
      PROVE  GoesOn(a, id)
  <2>1. SameDispute(id) /\ FlagCalm(a, id)
    BY <1>2 DEF SameDispute, FlagCalm, OwnFlag
  <2> QED
    BY <1>2, <2>1, CalmGoesOn DEF MyTurn
<1>3. txs[b] # << >> /\ Mined(b) => TxsFine(a, id)
  BY <1>1, TxsAreFine
<1>4. UNCHANGED <<inbox, calls>> => InboxFine(a, id) /\ CallsFine(a, id)
  BY <1>1, InboxIsFine, CallsAreFine
<1>5. CASE mineRegister(b)
  <2>1. PICK tx : tx = Head(txs[b])
    OBVIOUS
  <2> DEFINE e == [execution |-> tx.execution, depth |-> tx.depth, from |-> b]
             c == [fn |-> "registered", execution |-> tx.execution]
  <2>2. /\ ToMine(b, "register") /\ Emit("Registered", e) /\ Suspend(b, c) /\ Mined(b)
        /\ disputes' = disputes
    BY <1>5, <2>1 DEF mineRegister
  <2>3. ~WillAnswer(c, id)
    BY DEF WillAnswer
  <2> HIDE DEF e, c
  <2>4. InboxFine(a, id) /\ CallsFine(a, id) /\ TxsFine(a, id)
    BY <1>1, <1>3, <2>2, <2>3, InboxIsFine, CallsAreFine DEF ToMine
  <2> QED
    BY <1>2, <2>2, <2>4
<1>6. CASE mineDispute(b)
  <2>1. PICK tx, new : tx = Head(txs[b]) /\ new = DisputeOf(tx.execution, tx.root)
    OBVIOUS
  <2> DEFINE e == [id |-> new]
             c == [fn |-> "disputed", id |-> new]
  <2>2. /\ ToMine(b, "dispute") /\ Dispute(b, tx.execution, tx.root)
        /\ Emit("DisputeInitialised", e) /\ Suspend(b, c) /\ Mined(b)
    BY <1>6, <2>1 DEF mineDispute
  <2>3. new # id /\ disputes'[id] = disputes[id]
    BY <2>1, <2>2 DEF Dispute, InitGame, Exists, Put
  <2>4. ~WillAnswer(c, id) /\ e.id # id
    BY <2>3 DEF WillAnswer
  <2> HIDE DEF e, c
  <2>5. InboxFine(a, id) /\ CallsFine(a, id) /\ TxsFine(a, id)
    BY <1>1, <1>3, <2>2, <2>4, InboxIsFine, CallsAreFine DEF ToMine
  <2> QED
    BY <1>2, <2>3, <2>5
<1>7. CASE mineSubmitProof(b)
  <2>1. PICK tx : ProofTaken(tx) /\ Mined(b) /\ txs[b] # << >> /\ UNCHANGED <<inbox, calls>>
    BY <1>7 DEF mineSubmitProof, ToMine
  <2>2. PICK verdict, o : SubmitProof(tx.id, tx.leaf.left, o, verdict)
    BY <2>1 DEF ProofTaken
  <2>3. disputes' = [disputes EXCEPT ![tx.id].state =
                         disputes[tx.id].state \cup Proven(disputes[tx.id], o)]
    BY <2>2 DEF SubmitProof
  <2>4. CASE tx.id # id
    <3>1. disputes'[id] = disputes[id]
      BY <2>3, <2>4
    <3> QED
      BY <1>2, <1>3, <1>4, <2>1, <3>1
  <2>5. CASE tx.id = id
    <3>1. disputes[id] \in DisputeRecord
      BY DEF TypeOK
    <3>2. SameDispute(id) /\ disputes'[id].state = disputes[id].state \cup Proven(disputes[id], o)
      BY <2>3, <2>5, <3>1 DEF SameDispute, DisputeRecord
    <3>3. FlagCalm(a, id)
      BY <3>2 DEF SameDispute, FlagCalm, OwnFlag, Proven
    <3> QED
      BY <1>3, <1>4, <2>1, <3>2, <3>3, CalmGoesOn DEF MyTurn
  <2> QED
    BY <2>4, <2>5
<1>8. CASE mineInVain(b)
  <2>1. txs[b] # << >> /\ Mined(b) /\ UNCHANGED <<inbox, calls, disputes>>
    BY <1>8 DEF mineInVain, vars
  <2> QED
    BY <1>2, <1>3, <1>4, <2>1
<1> QED
  BY <1>5, <1>6, <1>7, <1>8, ResponseInTurn DEF Mine

\* A request, the clock or a timeout.
LEMMA OthersInTurn ==
    ASSUME NEW owner, TypeOK, BotShape, Owned(owner),
           NEW a \in Account, NEW id \in DOMAIN disputes, MyTurn(owner, a, id), Unresolved(id)',
           \/ \E b \in Account, t \in TaskHash : requestExecution(b, t)
           \/ Outside
           \/ UNCHANGED pokerVars
    PROVE  GoesOn(a, id)
<1>1. /\ InboxShape /\ DOMAIN calls = Account /\ TxsShape /\ "Requested" \in EventKind
  BY DEF EventKind, BotShape, InboxShape, TxsShape
<1>2. ASSUME disputes'[id] = disputes[id], InboxFine(a, id), UNCHANGED <<calls, txs>>
      PROVE  GoesOn(a, id)
  <2>1. SameDispute(id) /\ FlagCalm(a, id)
    BY <1>2 DEF SameDispute, FlagCalm, OwnFlag
  <2>2. CallsFine(a, id) /\ TxsFine(a, id)
    BY <1>1, <1>2, CallsAreFine, TxsAreFine
  <2> QED
    BY <1>2, <2>1, <2>2, CalmGoesOn DEF MyTurn
<1>3. UNCHANGED inbox => InboxFine(a, id)
  BY <1>1, InboxIsFine
<1>4. ASSUME NEW b \in Account, NEW t \in TaskHash, requestExecution(b, t) PROVE GoesOn(a, id)
  <2> DEFINE e == [task |-> t, from |-> b]
  <2>1. Emit("Requested", e) /\ UNCHANGED <<disputes, calls, txs>>
    BY <1>4 DEF requestExecution
  <2> HIDE DEF e
  <2>2. InboxFine(a, id)
    BY <1>1, <2>1, InboxIsFine
  <2> QED
    BY <1>2, <2>1, <2>2
<1>5. ASSUME Outside PROVE GoesOn(a, id)
  <2>1. UNCHANGED <<inbox, calls, txs>>
    BY <1>5 DEF Outside, botVars
  <2>2. disputes'[id] = disputes[id]
    <3>1. ASSUME NEW k \in DOMAIN disputes, NEW verdict, ClaimTimeout(k, verdict)
          PROVE  disputes'[id] = disputes[id]
      <4>1. CASE k = id
        <5>1. disputes'[id] = Resolved(disputes[id], verdict) /\ disputes[id] \in DisputeRecord
          BY <3>1, <4>1 DEF ClaimTimeout, TypeOK
        <5>2. disputes'[id].state \cap VERIFIED # {}
          BY <5>1 DEF Resolved, DisputeRecord, VERIFIED
        <5> QED
          BY <5>2 DEF Unresolved
      <4>2. CASE k # id
        BY <3>1, <4>2 DEF ClaimTimeout
      <4> QED
        BY <4>1, <4>2
    <3> QED
      BY <1>5, <3>1 DEF Outside
  <2> QED
    BY <1>2, <1>3, <2>1, <2>2
<1>6. ASSUME UNCHANGED pokerVars PROVE GoesOn(a, id)
  BY <1>2, <1>3, <1>6 DEF pokerVars, vars, botVars
<1> QED
  BY <1>4, <1>5, <1>6

\* Every step keeps the turns.
LEMMA TurnsKept ==
    ASSUME NEW owner, NEW later, TypeOK, BotShape, Owned(owner), InTurn(owner),
           KeptFor(owner, later), [PokerNext]_pokerVars
    PROVE  InTurn(later)'
<1> SUFFICES ASSUME NEW a \in Account, NEW id \in DOMAIN disputes',
                    Plays(later, a, id)', Unresolved(id)', Apart(id)'
             PROVE  GoesOn(a, id)
  BY DEF InTurn, GoesOn
<1>1. CASE id \in DOMAIN disputes
  <2>1. Unresolved(id) /\ Apart(id)
    BY <1>1, PokerPlays, ApartBefore DEF Owned
  <2>2. Plays(owner, a, id)
    <3>1. /\ Challenger(id)' = Challenger(id)
          /\ later[id.execution.task] = owner[id.execution.task]
      BY <1>1 DEF KeptFor, Challenger, Owned, DisputesOK, Opponent
    <3> QED
      BY <1>1, <3>1 DEF Plays
  <2>3. MyTurn(owner, a, id)
    BY <1>1, <2>1, <2>2 DEF MyTurn, InTurn
  <2>4. ASSUME NEW b \in Account, Bot(b) PROVE GoesOn(a, id)
    BY <1>1, <2>3, <2>4, EventsInTurn, CallsInTurn DEF Bot
  <2>5. ASSUME NEW b \in Account, Mine(b) PROVE GoesOn(a, id)
    BY <1>1, <2>3, <2>5, MiningInTurn
  <2> QED
    BY <1>1, <2>3, <2>4, <2>5, OthersInTurn DEF PokerNext, BotsAct
<1>2. CASE id \notin DOMAIN disputes
  <2>1. PICK b \in Account : mineDispute(b)
    <3>1. ~UNCHANGED disputes
      BY <1>2
    <3>2. ASSUME NEW b \in Account, Bot(b) PROVE UNCHANGED disputes
      BY <3>2 DEF Bot, onRequested, onRegistered, onDisputeInitialised, onNewRound,
          registerExecution, registered, validateExecution, disputed, readDispute, submitRound, vars
    <3>3. ASSUME NEW b \in Account, Mine(b) PROVE mineDispute(b) \/ DOMAIN disputes' = DOMAIN disputes
      <4>1. mineRegister(b) \/ mineInVain(b) => disputes' = disputes
        BY DEF mineRegister, mineInVain, vars
      <4>2. mineRespond(b) => DOMAIN disputes' = DOMAIN disputes
        BY DEF mineRespond, RespondTaken, Respond, UpdateRound
      <4>3. mineSubmitProof(b) => DOMAIN disputes' = DOMAIN disputes
        BY DEF mineSubmitProof, ProofTaken, SubmitProof
      <4> QED
        BY <3>3, <4>1, <4>2, <4>3 DEF Mine
    <3>4. Outside => DOMAIN disputes' = DOMAIN disputes
      BY DEF Outside, ClaimTimeout
    <3>5. (\E b \in Account, t \in TaskHash : requestExecution(b, t)) => UNCHANGED disputes
      BY DEF requestExecution
    <3>6. UNCHANGED pokerVars => UNCHANGED disputes
      BY DEF pokerVars, vars
    <3> QED
      BY <1>2, <3>1, <3>2, <3>3, <3>4, <3>5, <3>6 DEF PokerNext, BotsAct
  <2> QED
    BY <1>2, <2>1, NewDisputeInTurn
<1> QED
  BY <1>1, <1>2

-----------------------------------------------------------------------------
\* What holds of the bots and the contracts at any time.
InPlay ==
    /\ TypeOK /\ BotShape
    /\ \E owner \in [TaskHash -> Account] : Owned(owner) /\ InTurn(owner)

\* Nothing is under way at first, whoever will request the tasks.
LEMMA InitInPlay == PokerInit => InPlay
<1> SUFFICES ASSUME PokerInit PROVE InPlay
  OBVIOUS
<1>1. PICK a \in Account : computed[a] = TrueExecution
  BY DEF PokerInit
<1> DEFINE owner == [t \in TaskHash |-> a]
<1>2. owner \in [TaskHash -> Account]
  OBVIOUS
<1> HIDE DEF owner
<1>3. BotShape /\ Owned(owner)
  BY InitOwned
<1>4. Init /\ DOMAIN disputes = {}
  BY DEF PokerInit, Init, VerifierInit, NoEntries
<1>5. InTurn(owner)
  BY <1>4 DEF InTurn
<1>6. TypeOK
  BY <1>4, InitTypeOK DEF TypeOK, Init, VerifierInit, NoEntries
<1> QED
  BY <1>2, <1>3, <1>5, <1>6 DEF InPlay

\* Every step keeps all of it, and is one of the game.
LEMMA StepInPlay == InPlay /\ [PokerNext]_pokerVars => InPlay' /\ [Next]_vars
<1> SUFFICES ASSUME InPlay, [PokerNext]_pokerVars PROVE InPlay' /\ [Next]_vars
  OBVIOUS
<1>1. PICK owner \in [TaskHash -> Account] : TypeOK /\ BotShape /\ Owned(owner) /\ InTurn(owner)
  BY DEF InPlay
<1>2. [Next]_vars
  BY <1>1, PokerPlays DEF Owned
<1>3. TypeOK'
  BY <1>1, <1>2, GameStepTypeOK
<1>4. PICK later \in [TaskHash -> Account] : KeptFor(owner, later) /\ Owned(later)'
  BY <1>1, OwnedKept DEF StaysOwned
<1>5. BotShape'
  BY <1>1, OwnedKept DEF StaysOwned
<1>6. InTurn(later)'
  BY <1>1, <1>4, TurnsKept
<1> QED
  BY <1>2, <1>3, <1>4, <1>5, <1>6 DEF InPlay

\* So it holds always.
LEMMA AlwaysInPlay == PokerSpec => []InPlay
<1> QED
  BY InitInPlay, StepInPlay, PTL DEF PokerSpec

\* The bots play the game: whatever they compute, however late an event comes or an
\* answer is mined, what reaches the contracts is a run of the verification game.  In
\* particular no bot claims or proves anything that the game does not know.
THEOREM PlaysTheGame == PokerSpec => Spec
<1>1. PokerInit => Init
  BY DEF PokerInit
<1> QED
  BY <1>1, AlwaysInPlay, StepInPlay, PTL DEF PokerSpec, Spec

\* So the bonds are accounted for, whoever runs a bot and whatever it computes.
THEOREM BondsAccountedWithBots == PokerSpec => []BondsAccounted
BY PlaysTheGame, BondsAlwaysAccounted, PTL

\* However long a bot was suspended, an answer that is under way is the one that the
\* dispute waits for, with the witness that was asked for.
THEOREM AnswersAlwaysTaken == PokerSpec => []AnswersTaken
<1>1. InPlay => AnswersTaken
  <2> SUFFICES ASSUME InPlay, NEW a \in Account, NEW i \in DOMAIN txs[a],
                      txs[a][i].fn = "respond", Unresolved(txs[a][i].id), Apart(txs[a][i].id)
               PROVE  /\ txs[a][i].hash = OwnSide(a, disputes[txs[a][i].id]).target
                      /\ WitnessFits(txs[a][i])
    BY DEF AnswersTaken
  <2>1. PICK owner \in [TaskHash -> Account] : BotShape /\ Owned(owner) /\ InTurn(owner)
    BY DEF InPlay
  <2>2. i \in 1 .. Len(txs[a])
    <3>1. IsSeq(txs[a])
      BY <2>1 DEF BotShape
    <3> QED
      BY <3>1, IsSeqLen
  <2>3. Plays(owner, a, txs[a][i].id) /\ txs[a][i].id \in DOMAIN disputes
    BY <2>1, <2>2 DEF Owned, TxsOK, TxOK, Plays
  <2>4. TxCurrent(a, txs[a][i].id, txs[a][i])
    BY <2>1, <2>2, <2>3 DEF InTurn, Current
  <2> QED
    BY <2>4 DEF TxCurrent, Answers, WitnessFits
<1> QED
  BY <1>1, AlwaysInPlay, PTL
=============================================================================
