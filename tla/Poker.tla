------------------------------- MODULE Poker --------------------------------
(***************************************************************************)
(* The bots that play the game: utils/ExecutionPoker.js, at work on the    *)
(* contracts (every account runs one).  A bot is an event loop: it runs    *)
(* without interruption from one await to the next, and between two of its *)
(* segments anything may happen.                                           *)
(*                                                                         *)
(* inbox[a] holds the events bot a has yet to be told of.  Each of its     *)
(* filters is polled on its own: events of one kind arrive in the order of *)
(* the chain, events of two kinds in any order.  calls[a] are its          *)
(* suspended async functions, txs[a] the transactions it has sent, which   *)
(* are mined in that order.  A function that throws is gone.               *)
(*                                                                         *)
(* No bot ever waits for a timeout or claims one.  Somebody else may: the  *)
(* clock moves when the bots have nothing left to do.                      *)
(***************************************************************************)
EXTENDS VerificationGame, Sequences

LOCAL INSTANCE SequencesExt

CONSTANTS
    Execution,   \* what a bot may take for the execution of the task: sequences of states
    TrueExecution,
    alwaysChallenge,   \* the bots with that flag, which dispute what they agree with
    hash(_, _), stateHash(_, _), leafHash(_, _, _)

VARIABLES
    computed,     \* what computeCall returns: the truth, unless the bot is a cheat or broken
    taskParams,   \* the tasks a bot knows
    solutions,    \* the executions it registered
    paths,        \* this.disputes: the node of its tree where it takes a dispute to be
    inbox, calls, txs

botVars == <<computed, taskParams, solutions, paths, inbox, calls, txs>>
pokerVars == <<vars, botVars>>

Trees == INSTANCE MerkleTree WITH ZERO_HASH <- Zero

Tree == [e \in Execution |-> Trees!run(e)]
CutTree ==
    [e \in Execution |-> [depth \in 1 .. maxExecutionDepth |-> Trees!scaleDown(Tree[e], depth)]]
RootHash(tree) == Trees!root(tree).hash

\* An execution has a step at least.  Its states' hashes, and the roots and depths that
\* the bots send, are among those of the deployment.
ASSUME PokerAssumption ==
    /\ TrueExecution \in Execution
    /\ \A e \in Execution :
           /\ Len(e) \in Nat \ {0, 1} /\ e = [i \in 1 .. Len(e) |-> e[i]]
           /\ \A i \in 1 .. Len(e) : Trees!hashOf(e[i]) \in StateHash
           /\ RootHash(Tree[e]) \in SolverRoot /\ Trees!depth(Tree[e]) \in ProofDepth
           /\ \A depth \in 1 .. maxExecutionDepth : RootHash(CutTree[e][depth]) \in ChallengerRoot

\* The tree of computeCall, and the one to compare with a claim.
TreeOf(a) == Tree[computed[a]]
TreeAt(a, executionDepth) == CutTree[computed[a]][executionDepth]

\* The tree a bot plays a dispute with: its solution, or the one it validated with.
TreeIn(a, id) == IF id.execution \in solutions[a] THEN TreeOf(a) ELSE TreeAt(a, id.depth)

-----------------------------------------------------------------------------
\* Events, calls and transactions.

EventKind == {"Requested", "Registered", "DisputeInitialised", "DisputeNewRound"}

Emit(kind, event) ==
    inbox' = [a \in Account |-> [inbox[a] EXCEPT ![kind] = Append(@, event)]]

Told(a, kind) == inbox[a][kind] # << >>
Event(a, kind) == Head(inbox[a][kind])
Handle(a, kind) == inbox' = [inbox EXCEPT ![a][kind] = Tail(@)]

Suspended(a, fn) == {c \in calls[a] : c.fn = fn}
Suspend(a, call) == calls' = [calls EXCEPT ![a] = @ \cup {call}]
Resume(a, call) == calls' = [calls EXCEPT ![a] = @ \ {call}]

Send(a, tx) == txs' = [txs EXCEPT ![a] = Append(@, tx)]
ToMine(a, fn) == txs[a] # << >> /\ Head(txs[a]).fn = fn
Mined(a) == txs' = [txs EXCEPT ![a] = Tail(@)]

Quiet ==
    \A a \in Account : calls[a] = {} /\ txs[a] = << >> /\ \A k \in EventKind : ~Told(a, k)

-----------------------------------------------------------------------------
\* Plausible bugs of the definitions below; no specification here uses them.
AlwaysChallenge(a, execution, depth) == TRUE
SolversPath(a, d) == [target |-> d.solverPath, pair |-> d.solver]
AnswerLastRound(a, c, d) == [node |-> paths[a][c.id], sends |-> TRUE]
-----------------------------------------------------------------------------
\* A task is requested and its requester registers what it computes.

requestExecution(a, t) ==
    /\ Request(t)
    /\ Emit("Requested", [task |-> t, from |-> a])
    /\ UNCHANGED <<now, disputes, computed, taskParams, solutions, paths, calls, txs>>

onRequested(a) ==
    /\ Told(a, "Requested")
    /\ LET e == Event(a, "Requested")
       IN  /\ taskParams' = [taskParams EXCEPT ![a] = @ \cup {e.task}]
           /\ IF e.from = a
              THEN Suspend(a, [fn |-> "registerExecution", task |-> e.task])
              ELSE UNCHANGED calls
    /\ Handle(a, "Requested")
    /\ UNCHANGED <<vars, computed, solutions, paths, txs>>

registerExecution(a) ==
    \E c \in Suspended(a, "registerExecution") :
        /\ Resume(a, c)
        /\ Send(a, [fn |-> "register", depth |-> Trees!depth(TreeOf(a)),
                    execution |-> [task |-> c.task, root |-> RootHash(TreeOf(a))]])
        /\ UNCHANGED <<vars, computed, taskParams, solutions, paths, inbox>>

mineRegister(a) ==
    /\ ToMine(a, "register")
    /\ LET tx == Head(txs[a])
       IN  /\ Register(a, tx.execution, tx.depth)
           /\ Emit("Registered", [execution |-> tx.execution, depth |-> tx.depth, from |-> a])
           /\ Suspend(a, [fn |-> "registered", execution |-> tx.execution])
    /\ Mined(a)
    /\ UNCHANGED <<now, disputes, computed, taskParams, solutions, paths>>

\* The end of registerExecution: only now does the bot know its solution.
registered(a) ==
    \E c \in Suspended(a, "registered") :
        /\ Resume(a, c)
        /\ solutions' = [solutions EXCEPT ![a] = @ \cup {c.execution}]
        /\ UNCHANGED <<vars, computed, taskParams, paths, inbox, txs>>

-----------------------------------------------------------------------------
\* A registration of somebody else is validated and, if it differs, disputed.

onRegistered(a) ==
    /\ Told(a, "Registered")
    /\ LET e == Event(a, "Registered")
       IN  IF e.from = a THEN UNCHANGED calls
           ELSE Suspend(a, [fn |-> "validateExecution", execution |-> e.execution, depth |-> e.depth])
    /\ Handle(a, "Registered")
    /\ UNCHANGED <<vars, computed, taskParams, solutions, paths, txs>>

OwnRoot(a, depth) == RootHash(TreeAt(a, depth))
Challenges(a, execution, depth) ==
    OwnRoot(a, depth) # execution.root \/ a \in alwaysChallenge

\* Without the parameters of the task, computeCall throws.
validateExecution(a) ==
    \E c \in Suspended(a, "validateExecution") :
        /\ Resume(a, c)
        /\ IF c.execution.task \in taskParams[a] /\ Challenges(a, c.execution, c.depth)
           THEN Send(a, [fn |-> "dispute", execution |-> c.execution, root |-> OwnRoot(a, c.depth)])
           ELSE UNCHANGED txs
        /\ UNCHANGED <<vars, computed, taskParams, solutions, paths, inbox>>

mineDispute(a) ==
    /\ ToMine(a, "dispute")
    /\ LET tx == Head(txs[a])
           id == DisputeOf(tx.execution, tx.root)
       IN  /\ Dispute(a, tx.execution, tx.root)
           /\ Emit("DisputeInitialised", [id |-> id])
           /\ Suspend(a, [fn |-> "disputed", id |-> id])
    /\ Mined(a)
    /\ UNCHANGED <<now, computed, taskParams, solutions, paths>>

-----------------------------------------------------------------------------
\* The game.  A suspended submitRound is named by the round that it is for.

\* initDispute, with the submitRound that it starts.
initDispute(a, id) ==
    paths' = [paths EXCEPT ![a] = Put(@, id, Trees!root(TreeIn(a, id)))]
FirstRound(id) == [fn |-> "submitRound", id |-> id, round |-> id.depth]

\* The end of validateExecution.
disputed(a) ==
    \E c \in Suspended(a, "disputed") :
        /\ initDispute(a, c.id)
        /\ calls' = [calls EXCEPT ![a] = (@ \ {c}) \cup {FirstRound(c.id)}]
        /\ UNCHANGED <<vars, computed, taskParams, solutions, inbox, txs>>

\* A dispute about an execution the bot does not know as its own is not its business.
onDisputeInitialised(a) ==
    /\ Told(a, "DisputeInitialised")
    /\ LET id == Event(a, "DisputeInitialised").id
       IN  IF id.execution \in solutions[a]
           THEN initDispute(a, id) /\ Suspend(a, FirstRound(id))
           ELSE UNCHANGED <<paths, calls>>
    /\ Handle(a, "DisputeInitialised")
    /\ UNCHANGED <<vars, computed, taskParams, solutions, txs>>

\* computationPath is null: to look at it throws.
OffTree(a, id) == paths[a][id] = Trees!NoNode

\* submitRound up to its first await: at a leaf the step is proven, without a look at
\* the dispute.
onNewRound(a) ==
    /\ Told(a, "DisputeNewRound")
    /\ LET e == Event(a, "DisputeNewRound")
       IN  IF e.id \notin DOMAIN paths[a] \/ OffTree(a, e.id) THEN UNCHANGED <<calls, txs>>
           ELSE IF paths[a][e.id].isLeaf
           THEN Send(a, [fn |-> "submitProof", id |-> e.id, leaf |-> paths[a][e.id]]) /\ UNCHANGED calls
           ELSE Suspend(a, [fn |-> "submitRound", id |-> e.id, round |-> e.round]) /\ UNCHANGED txs
    /\ Handle(a, "DisputeNewRound")
    /\ UNCHANGED <<vars, computed, taskParams, solutions, paths>>

\* The node answers verifier.disputes(disputeId).
readDispute(a) ==
    \E c \in Suspended(a, "submitRound") :
        /\ calls' = [calls EXCEPT ![a] = (@ \ {c}) \cup
               {[fn |-> "respond", id |-> c.id, round |-> c.round, dispute |-> disputes[c.id]]}]
        /\ UNCHANGED <<vars, computed, taskParams, solutions, paths, inbox, txs>>

OwnSide(a, d) ==
    IF d.challengerAddr = a THEN [target |-> d.challengerPath, pair |-> d.challenger]
    ELSE [target |-> d.solverPath, pair |-> d.solver]

\* Where submitRound goes for the dispute d that it read, and whether it gets as far as
\* to answer: not when "submission already made by another party", when that took the
\* bot off its tree meanwhile, nor when the node of the witness is missing.
Answer(a, c, d) ==
    LET side == OwnSide(a, d)
        nextPath == Trees!getNode(TreeIn(a, c.id), side.target)
        Known(h) == Trees!getNode(TreeIn(a, c.id), h) # Trees!NoNode
    IN  IF nextPath = Trees!NoNode
        THEN [node |-> Trees!getPair(TreeIn(a, c.id), side.pair.left, side.pair.right), sends |-> FALSE]
        ELSE IF OffTree(a, c.id) THEN [node |-> Trees!NoNode, sends |-> FALSE]
        ELSE [node |-> nextPath, sends |-> d.witness = Zero \/ Known(d.witness)]

submitRound(a) ==
    \E c \in Suspended(a, "respond") :
        LET answer == Answer(a, c, c.dispute)
        IN  /\ Resume(a, c)
            /\ paths' = [paths EXCEPT ![a][c.id] = answer.node]
            /\ IF answer.sends
               THEN Send(a, [fn |-> "respond", id |-> c.id, hash |-> answer.node.hash,
                             witness |-> c.dispute.witness])
               ELSE UNCHANGED txs
            /\ UNCHANGED <<vars, computed, taskParams, solutions, inbox>>

NextRoundStarted(id) == disputes'[id].treeDepth # disputes[id].treeDepth

\* The witness sent with a response is looked at when the response completes a round.
WitnessFits(tx) == disputes[tx.id].witness \in {Zero, tx.witness}
RespondTaken(tx) ==
    /\ \E verdict \in Verdict : Respond(tx.id, tx.hash, verdict) /\ Notify(tx.id, verdict)
    /\ NextRoundStarted(tx.id) => WitnessFits(tx)

mineRespond(a) ==
    /\ ToMine(a, "respond")
    /\ LET tx == Head(txs[a])
       IN  /\ RespondTaken(tx)
           /\ IF NextRoundStarted(tx.id)
              THEN Emit("DisputeNewRound", [id |-> tx.id, round |-> disputes'[tx.id].treeDepth])
              ELSE UNCHANGED inbox
    /\ Mined(a)
    /\ UNCHANGED <<now, computed, taskParams, solutions, paths, calls>>

ProofTaken(tx) ==
    \E verdict \in Verdict, o \in Outcomes[tx.id.execution.task][tx.leaf.left] :
        SubmitProof(tx.id, tx.leaf.left, o, verdict) /\ Notify(tx.id, verdict)

mineSubmitProof(a) ==
    /\ ToMine(a, "submitProof")
    /\ ProofTaken(Head(txs[a]))
    /\ Mined(a)
    /\ UNCHANGED <<now, computed, taskParams, solutions, paths, inbox, calls>>

\* It reverts, or submitProof returns early; either way only the sender's wait is over.
Taken(a, tx) ==
    \/ tx.fn = "register" /\ Register(a, tx.execution, tx.depth)
    \/ tx.fn = "dispute" /\ Dispute(a, tx.execution, tx.root)
    \/ tx.fn = "respond" /\ RespondTaken(tx)
    \/ tx.fn = "submitProof" /\ ProofTaken(tx)
mineInVain(a) ==
    /\ txs[a] # << >> /\ ~ENABLED Taken(a, Head(txs[a]))
    /\ Mined(a)
    /\ UNCHANGED <<vars, computed, taskParams, solutions, paths, inbox, calls>>

-----------------------------------------------------------------------------
PokerInit ==
    /\ Init
    /\ computed \in [Account -> Execution]
    /\ \E a \in Account : computed[a] = TrueExecution
    /\ taskParams = [a \in Account |-> {}]
    /\ solutions = [a \in Account |-> {}]
    /\ paths = [a \in Account |-> NoEntries]
    /\ inbox = [a \in Account |-> [k \in EventKind |-> << >>]]
    /\ calls = [a \in Account |-> {}]
    /\ txs = [a \in Account |-> << >>]

\* What a bot does, and what the chain does with its transactions.
Bot(a) ==
    \/ onRequested(a) \/ onRegistered(a) \/ onDisputeInitialised(a) \/ onNewRound(a)
    \/ registerExecution(a) \/ registered(a) \/ validateExecution(a) \/ disputed(a)
    \/ readDispute(a) \/ submitRound(a)
Mine(a) ==
    mineRegister(a) \/ mineDispute(a) \/ mineRespond(a) \/ mineSubmitProof(a) \/ mineInVain(a)
BotsAct == \E a \in Account : Bot(a) \/ Mine(a)

\* Not done by any bot.
Outside ==
    \/ Quiet /\ Tick /\ UNCHANGED <<enforcerVars, disputes, botVars>>
    \/ \E id \in DOMAIN disputes, verdict \in Verdict :
           ClaimTimeout(id, verdict) /\ Notify(id, verdict) /\ UNCHANGED <<now, botVars>>

PokerNext ==
    \/ \E a \in Account, t \in TaskHash : requestExecution(a, t)
    \/ BotsAct
    \/ Outside

\* Events arrive, promises settle and transactions are mined: WF_pokerVars(BotsAct), in
\* a form that is faster to check.  Every event, call and transaction has a step that
\* takes it away, so BotsAct is enabled exactly when the bots are not quiet.
BotsGoOn == []<>Quiet \/ []<><<BotsAct>>_pokerVars

PokerSpec == PokerInit /\ [][PokerNext]_pokerVars /\ BotsGoOn

-----------------------------------------------------------------------------
\* What a bot is worth to somebody who runs it and computes the truth.

TrueClaim(id) == id.execution.root = RootHash(Tree[TrueExecution])
TrueChallenge(id) == id.challengerRoot = RootHash(CutTree[TrueExecution][id.depth])

Challenger(id) == disputes[id].challengerAddr
SolverInGame(id) == \E a \in Account \ {Challenger(id)} : id \in DOMAIN paths[a]
Apart(id) == disputes[id].solverPath # disputes[id].challengerPath

\* Claims that win against the truth (HonestPlay): they begin somewhere else and meet the
\* true execution at once, or do not end where it ends.
MisleadingRoots ==
    {RootHash(Tree[e]) : e \in
        {f \in Execution : \/ f[1] # TrueExecution[1] /\ f[2] = TrueExecution[2]
                           \/ IsStrictPrefix(TrueExecution, f)}}

SolverWins(id) == "SOLVER_VERIFIED" \in disputes[id].state
ChallengerWins(id) == ~SolverWins(id) /\ "CHALLENGER_VERIFIED" \in disputes[id].state

\* A bot that computes the truth does not lose, also when the other bot is a cheat, events
\* and answers of the node come late and somebody claims the timeouts.  As a solver unless
\* it missed the dispute (DisputeInitialised came before its solution was stored) or the
\* game came to a node both players share: there one answer serves both, a suspended
\* submitRound puts computationPath back, and nobody submits the proof.  As a challenger
\* unless the claim is deeper than its own tree, which it cannot pad, or misleading, or
\* alwaysChallenge made it dispute a true one.
RightVerdict ==
    \A id \in DOMAIN disputes :
        /\ TrueClaim(id) /\ SolverInGame(id) /\ Apart(id) => ~ChallengerWins(id)
        /\ /\ TrueChallenge(id)
           /\ id.depth <= Trees!depth(Tree[TrueExecution])
           /\ id.execution.root \notin MisleadingRoots
           /\ Challenger(id) \in alwaysChallenge => ~TrueClaim(id)
           => ~SolverWins(id)

\* Both bots play, with trees of the same depth, about a claim that has a last step to
\* prove: not one that ends before the true execution does.
Playable(id) ==
    /\ Trees!depth(TreeOf(Challenger(id))) = id.depth
    /\ \E a \in Account \ {Challenger(id)} :
           id \in DOMAIN paths[a] /\ Len(computed[a]) >= Len(TrueExecution)

\* The bots need nobody to claim a timeout: as long as events arrive, the game gets to the
\* leaf on which they disagree and one of them proves its step.  For a game that came to a
\* shared node this is not so, see above.
GamesEnd ==
    <>[](\A id \in DOMAIN disputes : Playable(id) /\ Apart(id) => ~Unresolved(id))

\* However long a bot was suspended between reading a dispute and answering it, and its
\* answer between sending and mining: the answer is still the one asked for, with the
\* witness asked for.  For a shared node this is not so: the other's answer served both.
AnswersTaken ==
    \A a \in Account : \A i \in DOMAIN txs[a] :
        LET tx == txs[a][i]
        IN  tx.fn = "respond" /\ Unresolved(tx.id) /\ Apart(tx.id) =>
                /\ tx.hash = OwnSide(a, disputes[tx.id]).target
                /\ WitnessFits(tx)

=============================================================================
