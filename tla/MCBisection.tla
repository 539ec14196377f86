---------------------------- MODULE MCBisection -----------------------------
(***************************************************************************)
(* One dispute between any two of a family of trees of up to three levels: *)
(* complete, padded with zeros, with steps missing, wrong or swapped, and  *)
(* with zeros where they do not belong.  All in one block, without timeouts. *)
(***************************************************************************)
EXTENDS Bisection, MCTrees

CONSTANTS t1

Step(k) == Pair(State(k), State(k + 1))
Lie == Pair(State(1), State(4))

Subtrees ==
    {Pair(Step(0), Step(1)), Pair(Step(0), Lie), Pair(Step(0), ZeroHash),
     Pair(Step(1), Step(0)), Pair(Step(2), Step(3)), Pair(Step(2), ZeroHash), State(2),
     Pair(ZeroHash, Step(1)), ZeroHash}
MCRoots == Pairs(Subtrees, Subtrees) \ {Pair(ZeroHash, ZeroHash)}
MCHash == Closure(MCRoots) \cup {ZeroHash}
MCStateHash == {State(k) : k \in 0 .. 4}
MCOpen == Openings(MCHash)
MCInitialState == [t \in {t1} |-> State(0)]
MCOutcomes ==
    [t \in {t1} |-> [s \in MCStateHash |->
        IF s = State(4) THEN {}
        ELSE {[next |-> State(s[1] + 1), halts |-> s = State(3), full |-> FALSE]}]]

=============================================================================
