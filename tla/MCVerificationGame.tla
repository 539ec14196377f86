------------------------- MODULE MCVerificationGame -------------------------
(***************************************************************************)
(* The two contracts, two accounts and overlapping disputes about one      *)
(* claim.  The program runs s0 -> s1 -> s2 and halts with its memory full, *)
(* which is what the claim says; a challenger disputes it with the same    *)
(* tree or with one that lies about the last state.                        *)
(***************************************************************************)
EXTENDS VerificationGame, MCTrees, TLC

CONSTANTS t1

Right == Pair(Pair(State(0), State(1)), Pair(State(1), State(2)))
Wrong == Pair(Pair(State(0), State(1)), Pair(State(1), State(3)))

MCSolverRoot == {Right}
MCChallengerRoot == {Right, Wrong}
MCHash == Closure(MCChallengerRoot) \cup {ZeroHash}
MCStateHash == {State(k) : k \in 0 .. 3}
MCOpen == Openings(MCHash)
MCInitialState == [t \in {t1} |-> State(0)]
MCOutcomes ==
    [t \in {t1} |-> [s \in MCStateHash |->
        CASE s = State(0) -> {[next |-> State(1), halts |-> FALSE, full |-> FALSE]}
          [] s = State(1) -> {[next |-> State(2), halts |-> TRUE, full |-> TRUE]}
          [] OTHER -> {}]]

Symmetry == Permutations(Account)

=============================================================================
