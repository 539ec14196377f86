------------------------------ MODULE MCTrees -------------------------------
(***************************************************************************)
(* Hashes for TLC as the terms they commit to: the zero hash is the empty  *)
(* tuple, the hash of EVM state k is <<k>>, the hash of a pair is the pair *)
(* of hashes.  Distinct terms are distinct hashes.                         *)
(***************************************************************************)
EXTENDS Integers, Sequences

ZeroHash == << >>
State(k) == <<k>>
Pair(l, r) == <<l, r>>

Pairs(lefts, rights) == {Pair(l, r) : l \in lefts, r \in rights}

\* The nodes of a tree, itself included.
Children(nodes) == UNION {{n[1], n[2]} : n \in {m \in nodes : Len(m) = 2}}

\* Every hash in trees at most three pairs deep.
Closure(roots) ==
    LET one == roots \cup Children(roots)
        two == one \cup Children(one)
    IN  two \cup Children(two)

Openings(hashes) ==
    [h \in {n \in hashes : Len(n) = 2} |-> [left |-> h[1], right |-> h[2]]]

=============================================================================
