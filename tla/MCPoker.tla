------------------------------ MODULE MCPoker -------------------------------
(***************************************************************************)
(* Two bots and one task.  The true execution has six steps, s0 to s6: the *)
(* right quarter of its tree is empty, so games about where it ends come   *)
(* to nodes that both players share two rounds above the leaves.           *)
(* Somebody's computation starts wrong, goes wrong in a state from which   *)
(* it then goes on, or is too short or too long.                           *)
(***************************************************************************)
EXTENDS Poker, MCTrees

CONSTANTS t1

St(k) == [pre |-> State(k), returnData |-> << >>]
Through(ks) == [i \in DOMAIN ks |-> St(ks[i])]
Counting(n) == [i \in 1 .. n + 1 |-> i - 1]
\* n steps, from step k on wrong ones
Astray(n, k) == [i \in 1 .. n + 1 |-> IF i <= k THEN i - 1 ELSE 10 + i]

MCTrueExecution == Through(Counting(6))
MCExecution == {Through(ks) : ks \in
    {Counting(6), Astray(6, 1), Astray(6, 4), Astray(6, 6), [Counting(6) EXCEPT ![1] = 10],
     Counting(4), Counting(5), Counting(7), Astray(3, 2), Astray(5, 5), Astray(7, 3),
     Counting(9), Astray(9, 2)}}

HashOfState(pre, returnData) == pre
NoLeaf(word, slot, byteLength) == ZeroHash

MCSolverRoot == {RootHash(Trees!run(e)) : e \in MCExecution}
MCChallengerRoot ==
    {RootHash(Trees!scaleDown(Trees!run(e), d)) : e \in MCExecution, d \in 1 .. 5}
MCStateHash == {State(k) : k \in 0 .. 20}
MCHash == Closure(Closure(MCChallengerRoot)) \cup MCStateHash \cup {ZeroHash}
MCOpen == Openings(MCHash)
MCInitialState == [t \in {t1} |-> State(0)]
MCOutcomes ==
    [t \in {t1} |-> [s \in MCStateHash |->
        {[next |-> State((s[1] + 1) % 21), halts |-> s = State(5), full |-> FALSE]}]]

=============================================================================
