-------------------------- MODULE VerificationGame --------------------------
(***************************************************************************)
(* The two contracts together.  Enforcer.dispute calls Verifier.initGame,  *)
(* and a Verifier transaction that ends a game calls Enforcer.result; the  *)
(* whole call chain is one transaction and one step here.                  *)
(***************************************************************************)
EXTENDS Enforcer, Verifier

CONSTANT MaxDisputes    \* bound on the number of disputes

ASSUME DisputeAssumption == MaxDisputes \in Nat

vars == <<now, tasks, executions, bonds, balance, disputes>>

-----------------------------------------------------------------------------
\* Plausible bugs of the definitions below; no specification here uses them.
NotifyAlwaysSolver(id, verdict) ==
    IF verdict = "none"
    THEN UNCHANGED enforcerVars
    ELSE Result(id.execution, TRUE, disputes[id].challengerAddr)
NotifyAndIgnoreFailure(id, verdict) ==
    \/ UNCHANGED enforcerVars
    \/ Result(id.execution, verdict = "solver", disputes[id].challengerAddr)
-----------------------------------------------------------------------------

\* enforcer.result(executionId, solverWon, challengerAddr), if there is a verdict.
Notify(id, verdict) ==
    \/ verdict = "none" /\ UNCHANGED enforcerVars
    \/ verdict # "none" /\ Result(id.execution, verdict = "solver", disputes[id].challengerAddr)

\* The dispute that a challenge of a registered execution opens.
DisputeOf(execution, challengerRoot) ==
    [execution |-> execution, challengerRoot |-> challengerRoot,
     depth |-> executions[execution].executionDepth]

Dispute(sender, execution, challengerRoot) ==
    /\ Cardinality(DOMAIN disputes) < MaxDisputes
    /\ ChargeChallenger(sender, execution)
    /\ InitGame(DisputeOf(execution, challengerRoot), sender)

Play(id) ==
    \/ \E h \in {disputes[id].solverPath, disputes[id].challengerPath}, verdict \in Verdict :
           Respond(id, h, verdict) /\ Notify(id, verdict)
    \/ \E input \in StateHash, verdict \in Verdict :
           \E o \in Outcomes[id.execution.task][input] :
               SubmitProof(id, input, o, verdict) /\ Notify(id, verdict)
    \/ \E verdict \in Verdict : ClaimTimeout(id, verdict) /\ Notify(id, verdict)

Init == EnforcerInit /\ VerifierInit

Next ==
    \/ Tick /\ UNCHANGED <<enforcerVars, disputes>>
    \/ /\ UNCHANGED <<now, disputes>>
       /\ \/ \E t \in TaskHash : Request(t)
          \/ \E a \in Account, id \in ExecutionId, depth \in ProofDepth :
                 Register(a, id, depth)
    \/ /\ UNCHANGED now
       /\ \/ \E a \in Account, execution \in DOMAIN executions, root \in ChallengerRoot :
                 Dispute(a, execution, root)
          \/ \E id \in DOMAIN disputes : Play(id)

Spec == Init /\ [][Next]_vars

-----------------------------------------------------------------------------
\* The values the dispute records range over, beside the Enforcer's storage.
TypeOK ==
    /\ EnforcerTypeOK
    /\ DOMAIN disputes \subseteq DisputeId
    /\ disputes \in [DOMAIN disputes -> DisputeRecord]

\* The stakes an account still has in the contract: one for each execution it
\* registered that stands, one for each dispute it opened and has not lost.
Lost(id) == "SOLVER_VERIFIED" \in disputes[id].state
ExecutionsOf(a) == {id \in DOMAIN executions : executions[id].solver = a}
DisputesOf(a) == {id \in DOMAIN disputes : disputes[id].challengerAddr = a /\ ~Lost(id)}

\* Every bond is accounted for.  Over any sequence of registrations, overlapping
\* disputes, deletions and re-registrations, an account's bonds are exactly its
\* stakes, so the unchecked `bonds[...] -= bondAmount` in result never wraps.
BondsAccounted ==
    \A a \in Account :
        bonds[a] = bondAmount * (Cardinality(ExecutionsOf(a)) + Cardinality(DisputesOf(a)))

\* The ether the contract holds is one bond per standing execution and per
\* dispute not lost, so a payout in result never fails for lack of funds.
PayoutsFunded ==
    balance = bondAmount *
        (Cardinality(DOMAIN executions)
            + Cardinality({id \in DOMAIN disputes : ~Lost(id)}))

\* The rounds fit into the challenge period.  If every remaining round of an
\* unresolved dispute takes its full timeoutDuration, the last answer still comes
\* before the challenge period of the execution in dispute ends, so result accepts
\* what the players do in time; also when the execution was deleted by another
\* dispute and registered anew meanwhile.
PlayFitsChallenge ==
    \A id \in DOMAIN disputes :
        Unresolved(id) /\ Registered(id.execution) =>
            disputes[id].timeout + disputes[id].treeDepth * timeoutDuration
                < executions[id.execution].startTime + challengePeriod

\* contracts/Verifier.sol:149: "if that doesnt happen, this will finally timeout and
\* a final decision is made in `claimTimeout`".  claimTimeout is possible from one
\* second after the deadline; result must still accept a verdict then.
TimeoutDecides ==
    \A id \in DOMAIN disputes :
        Unresolved(id) /\ Registered(id.execution) =>
            disputes[id].timeout + 1 < executions[id.execution].startTime + challengePeriod

\* contracts/Verifier.sol:291: "already notified enforcer" is what claimTimeout says
\* of a dispute with a VERIFIED flag.  So whoever made result delete an execution
\* has set the flag of the dispute it was for.
VerdictIsRecorded ==
    [][\A e \in DOMAIN executions \ DOMAIN executions' :
           \E id \in DOMAIN disputes :
               id.execution = e /\ Unresolved(id) /\ ~Unresolved(id)']_vars

=============================================================================
