---------------------------- MODULE MCHonestPlay ----------------------------
(***************************************************************************)
(* The true execution is s0 -> s1 -> s2 -> s3, three steps: a tree of      *)
(* depth three, padded with a zero leaf.  Everybody else uses trees from a *)
(* family of wrong ones.                                                   *)
(***************************************************************************)
EXTENDS HonestPlay, MCTrees

CONSTANTS t1

Step(k) == Pair(State(k), State(k + 1))

FirstHalves ==
    {Pair(Step(0), Step(1)), Pair(Step(0), ZeroHash),
     Pair(Step(0), Pair(State(1), State(4))), Pair(Step(1), Step(1)),
     Pair(Pair(State(4), State(1)), Step(1))}
SecondHalves ==
    {Pair(Step(2), ZeroHash), Pair(Step(2), Step(3)),
     Pair(Pair(State(2), State(4)), ZeroHash),
     Pair(ZeroHash, Step(2)), ZeroHash}
Truth == Pair(Pair(Step(0), Step(1)), Pair(Step(2), ZeroHash))

MCSolverRoot == Pairs(FirstHalves, SecondHalves) \cup {Pair(Step(0), Step(1)), Pair(Step(0), ZeroHash)}
MCChallengerRoot == MCSolverRoot \cup {Step(0)}
MCHash == Closure(MCChallengerRoot) \cup {ZeroHash}
MCStateHash == {State(k) : k \in 0 .. 4}
MCOpen == Openings(MCHash)
MCInitialState == [t \in {t1} |-> State(0)]
MCOutcomes ==
    [t \in {t1} |-> [s \in MCStateHash |->
        IF s = State(4) THEN {}
        ELSE {[next |-> State(s[1] + 1), halts |-> s = State(2), full |-> FALSE]}]]
MCTrueDepth == [t \in {t1} |-> 3]
MCTrueRoot == [t \in {t1} |-> <<Step(0), Pair(Step(0), Step(1)), Truth>>]

=============================================================================
