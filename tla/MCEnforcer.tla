----------------------------- MODULE MCEnforcer -----------------------------
(***************************************************************************)
(* The registry alone, with a verifier that may report any verdict on any  *)
(* registered execution at any time.                                       *)
(***************************************************************************)
EXTENDS Enforcer, MCTrees

RootA == Pair(State(0), State(1))
RootB == Pair(RootA, ZeroHash)

MCRoots == {RootA, RootB, Pair(ZeroHash, ZeroHash)}
MCHash == Closure(MCRoots) \cup {ZeroHash}
MCStateHash == {State(0), State(1)}
MCOpen == Openings(MCHash)

=============================================================================
