----------------------------- MODULE TaskBoard ------------------------------
(***************************************************************************)
(* What Enforcer.sol promises its users, without clock, bonds or disputes: *)
(* a board of tasks on which results are posted while the task is open,    *)
(* refuted until it is closed, and then stand for good.                    *)
(***************************************************************************)
CONSTANTS Task, Execution

VARIABLES phase, standing

Before(p) ==    \* the phases an active task in phase p may be in later
    CASE p = "none" -> {}
      [] p = "open" -> {"open", "closing", "closed"}
      [] p = "closing" -> {"closing", "closed"}
      [] p = "closed" -> {"closed"}

Init ==
    /\ phase = [t \in Task |-> "none"]
    /\ standing = [t \in Task |-> {}]

\* With periods that leave no room, a task is past its open phase at once.
Request(t) ==
    /\ phase[t] = "none"
    /\ \E p \in {"open", "closing", "closed"} : phase' = [phase EXCEPT ![t] = p]
    /\ UNCHANGED standing

Post(t, e) ==
    /\ phase[t] = "open"
    /\ standing' = [standing EXCEPT ![t] = @ \cup {e}]
    /\ UNCHANGED phase

Refute(t, e) ==
    /\ phase[t] \in {"open", "closing"}
    /\ standing' = [standing EXCEPT ![t] = @ \ {e}]
    /\ UNCHANGED phase

TimePasses ==
    /\ phase' \in [Task -> {"none", "open", "closing", "closed"}]
    /\ \A t \in Task :
           IF phase[t] = "none" THEN phase'[t] = "none" ELSE phase'[t] \in Before(phase[t])
    /\ UNCHANGED standing

Next ==
    \/ \E t \in Task : Request(t)
    \/ \E t \in Task, e \in Execution : Post(t, e) \/ Refute(t, e)
    \/ TimePasses

Spec == Init /\ [][Next]_<<phase, standing>>

=============================================================================
