----------------------------- MODULE MCTreeUse ------------------------------
(***************************************************************************)
(* Hashes as the terms they commit to.  A state hash of 32 bytes of return *)
(* data has the preimage of a pair, and is one here.  Atoms are tuples of  *)
(* empty tuples, so that any two terms can be compared.                    *)
(***************************************************************************)
EXTENDS TreeUse

Atom(n) == [i \in 1 .. n + 3 |-> << >>]
ZeroHash == << >>
Pair(l, r) == <<l, r>>
Leaf(word, slot, byteLength) == <<word, Atom(slot), Atom(byteLength)>>

\* Two states with the same return data, and one with another.
MCState == {[pre |-> Atom(0), returnData |-> Atom(0)], [pre |-> Atom(1), returnData |-> Atom(0)],
            [pre |-> Atom(2), returnData |-> Atom(1)]}
MCFragment == {Atom(0), Atom(1)}

=============================================================================
