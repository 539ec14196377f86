-------------------------- MODULE HonestPlayProofs ---------------------------
(***************************************************************************)
(* What the game is for, for every value of the constants: a registration  *)
(* of the true execution stands, and a wrong registration falls, unless it *)
(* is one of the named exceptions.  First the solver's half, then the      *)
(* challenger's.                                                           *)
(***************************************************************************)
EXTENDS HonestPlay, BisectionProofs

-----------------------------------------------------------------------------
(***************************************************************************)
(* Trees of executions.                                                    *)
(***************************************************************************)

\* The pair that leads to a leaf is the two leaves of its step.
LEMMA LeafPair ==
    ASSUME NEW root \in Hash, NEW k \in Nat, NEW i \in DOMAIN Levels(root)[k + 1],
           NEW path, Opened(path, Levels(root)[k][(i + 1) \div 2])
    PROVE  LET leaf == Levels(root)[k + 1]
               j == (i + 1) \div 2
           IN  /\ i = 2 * j - 1 \/ i = 2 * j
               /\ i \in Nat \ {0}
               /\ j \in DOMAIN Levels(root)[k]
               /\ 2 * j - 1 \in DOMAIN leaf /\ path.left = leaf[2 * j - 1]
               /\ 2 * j \in DOMAIN leaf /\ path.right = leaf[2 * j]
<1> DEFINE above == Levels(root)[k]
           leaf == Levels(root)[k + 1]
           j == (i + 1) \div 2
           n == Len(above)
<1>1. above \in Seq(Hash) /\ leaf = LevelBelow(above)
  BY LevelShape
<1>2. /\ leaf \in Seq(Hash)
      /\ Len(leaf) = 2 * n
      /\ \A x \in 1 .. n : /\ leaf[2 * x - 1] = Halves(above[x]).left
                           /\ leaf[2 * x] = Halves(above[x]).right
  BY <1>1, LevelBelowShape
<1>3. n \in Nat /\ DOMAIN above = 1 .. n /\ DOMAIN leaf = 1 .. 2 * n
  BY <1>1, <1>2, LenProperties
<1>4. i \in 1 .. 2 * n
  BY <1>3
<1> HIDE DEF above, leaf, n
<1>5. /\ j \in 1 .. n
      /\ 2 * j - 1 \in 1 .. 2 * n
      /\ 2 * j \in 1 .. 2 * n
      /\ i = 2 * j - 1 \/ i = 2 * j
  BY <1>3, <1>4
<1>6. Halves(above[j]) = path
  BY DEF Opened, Halves, above
<1> HIDE DEF j
<1>7. path.left = leaf[2 * j - 1] /\ path.right = leaf[2 * j]
  BY <1>2, <1>5, <1>6
<1> QED
  BY <1>3, <1>4, <1>5, <1>7 DEF above, leaf, j

-----------------------------------------------------------------------------
\* The root is that of the true execution's tree of depth d.
TrueAt(e, d) == d \in TrueDepth[e.task] .. maxExecutionDepth /\ e.root = TrueRoot[e.task][d]

\* What is known of such a root.
LEMMA TrueAtFacts ==
    ASSUME NEW e \in ExecutionId, NEW d, TrueAt(e, d)
    PROVE  /\ d \in Nat \ {0}
           /\ e.root \in Hash
           /\ e.task \in TaskHash
           /\ ExecutionTree(e.task, e.root, d)
<1>1. e.task \in TaskHash /\ e.root \in Hash
  BY HashAssumption DEF ExecutionId
<1>2. TrueDepth[e.task] \in 1 .. maxExecutionDepth
  BY <1>1, TrueTreeAssumption
<1> QED
  BY <1>1, <1>2, TrueExecutionAssumption, ParameterAssumption DEF TrueAt

-----------------------------------------------------------------------------
(***************************************************************************)
(* In a game about the truth, at its own depth, no verdict goes against    *)
(* the solver.                                                             *)
(***************************************************************************)

\* The pairs the solver of the truth opens have a left half.
LEMMA TruthHasLeftHalves ==
    ASSUME NEW id \in DisputeId, TrueAt(id.execution, id.depth),
           NEW d \in DisputeRecord, OnPath(d, id), d.treeDepth > 0,
           Opened(d.solver, d.solverPath)
    PROVE  d.solver.left # Zero
<1> DEFINE k == id.depth - d.treeDepth
           s == Levels(id.execution.root)[k]
<1>1. id.execution \in ExecutionId /\ d.treeDepth \in Nat
  BY DEF DisputeId, DisputeRecord
<1>2. /\ id.depth \in Nat
      /\ ExecutionTree(id.execution.task, id.execution.root, id.depth)
  BY <1>1, TrueAtFacts
<1>3. k \in 0 .. id.depth - 1
  BY <1>1, <1>2 DEF OnPath
<1>4. PICK i \in DOMAIN s : d.solverPath = s[i]
  BY DEF OnPath, Position, Stands, Explains
<1> HIDE DEF k
<1>5. s[i] # Zero => Open[s[i]].left # Zero
  BY <1>2, <1>3 DEF ExecutionTree
<1> QED
  BY <1>4, <1>5, HashAssumption DEF Opened

\* The only state that a proof at a leaf of the truth can start from is the true one,
\* so it can only show what the player with the truth claims.
LEMMA TruthIsProven ==
    ASSUME NEW id \in DOMAIN disputes, id \in DisputeId, disputes[id] \in DisputeRecord,
           OnPath(disputes[id], id), disputes[id].treeDepth = 0,
           NEW root, NEW path,
           \/ root = id.execution.root /\ path = disputes[id].solver
           \/ root = id.challengerRoot /\ path = disputes[id].challenger,
           ExecutionTree(id.execution.task, root, id.depth),
           NEW input \in StateHash, AcceptsInput(id, input),
           NEW o \in Outcomes[id.execution.task][input]
    PROVE  input = path.left /\ o.next = path.right /\ ~o.full
<1> DEFINE d == disputes[id]
           leaf == Levels(root)[id.depth]
<1>1. /\ id.execution.root \in Hash /\ id.challengerRoot \in Hash /\ root \in Hash
      /\ id.depth \in Nat \ {0}
  BY HashAssumption, ParameterAssumption DEF DisputeId, ExecutionId
<1>2. PICK i \in DOMAIN leaf :
          /\ "START_OF_EXECUTION" \in d.state <=> i = 1
          /\ i # 1 => d.witness = leaf[i - 1]
          /\ Opened(path, Levels(root)[id.depth - 1][(i + 1) \div 2])
  <2> DEFINE s == Levels(id.execution.root)[id.depth]
             c == Levels(id.challengerRoot)[id.depth]
  <2>1. PICK i \in DOMAIN s :
            /\ Explains(i, d, s, c)
            /\ Opened(d.solver, Levels(id.execution.root)[id.depth - 1][(i + 1) \div 2])
            /\ Opened(d.challenger, Levels(id.challengerRoot)[id.depth - 1][(i + 1) \div 2])
    BY DEF OnPath, AtLeaf
  <2>2. DOMAIN s = DOMAIN c
    <3>1. s \in Seq(Hash) /\ c \in Seq(Hash)
      BY <1>1, LevelShape
    <3>2. Len(s) = Len(c)
      BY <1>1, LevelLength
    <3> HIDE DEF s, c
    <3> QED
      BY <3>1, <3>2, LenProperties
  <2>3. i \in DOMAIN leaf
    BY <2>1, <2>2
  <2>4. /\ "START_OF_EXECUTION" \in d.state <=> i = 1
        /\ i # 1 => d.witness = leaf[i - 1]
    BY <2>1 DEF Explains
  <2> QED
    BY <2>1, <2>3, <2>4
<1> DEFINE k == id.depth - 1
           j == (i + 1) \div 2
           step == Levels(root)[k][j]
<1>3. k \in Nat /\ k + 1 = id.depth /\ k \in 0 .. id.depth - 1
  BY <1>1
<1>4. /\ i = 2 * j - 1 \/ i = 2 * j
      /\ i \in Nat \ {0}
      /\ j \in DOMAIN Levels(root)[k]
      /\ 2 * j - 1 \in DOMAIN leaf /\ path.left = leaf[2 * j - 1]
      /\ 2 * j \in DOMAIN leaf /\ path.right = leaf[2 * j]
  <2>1. /\ i \in DOMAIN Levels(root)[k + 1]
        /\ Opened(path, Levels(root)[k][(i + 1) \div 2])
    BY <1>2, <1>3
  <2>2. leaf = Levels(root)[k + 1]
    BY <1>3
  <2> HIDE DEF d, k, leaf
  <2> QED
    BY <1>1, <1>3, <2>1, <2>2, LeafPair
<1> HIDE DEF k
<1>5. j \in Nat
  BY <1>4
<1>6. leaf[2 * j - 1] # Zero
  <2>1. step \in DOMAIN Open /\ path = Open[step]
    BY <1>2 DEF Opened, k
  <2>2. step # Zero => Open[step].left # Zero
    BY <1>3, <1>4 DEF ExecutionTree
  <2> QED
    BY <1>4, <2>1, <2>2, HashAssumption
<1> HIDE DEF step, j
<1>7. /\ "START_OF_EXECUTION" \in d.state => input = InitialState[id.execution.task]
      /\ d.witness # Zero => input = d.witness
  BY DEF AcceptsInput
<1>8. /\ leaf[1] = InitialState[id.execution.task]
      /\ \A x \in DOMAIN leaf : x % 2 = 1 /\ leaf[x] # Zero =>
             /\ x > 1 => leaf[x] = leaf[x - 1]
             /\ \A q \in Outcomes[id.execution.task][leaf[x]] : q.next = leaf[x + 1] /\ ~q.full
  BY DEF ExecutionTree
<1> HIDE DEF d, leaf
<1>9. input = leaf[2 * j - 1]
  <2>1. CASE i = 2 * j
    <3>1. i # 1 /\ i - 1 = 2 * j - 1
      BY <1>5, <2>1
    <3>2. d.witness = leaf[2 * j - 1]
      BY <1>2, <3>1
    <3> QED
      BY <1>6, <1>7, <3>2
  <2>2. CASE i = 2 * j - 1 /\ i = 1
    BY <1>2, <1>7, <1>8, <2>2
  <2>3. CASE i = 2 * j - 1 /\ i # 1
    <3>1. i % 2 = 1 /\ i > 1
      BY <1>4, <1>5, <2>3
    <3>2. leaf[i] = leaf[i - 1]
      BY <1>4, <1>6, <1>8, <2>3, <3>1
    <3> QED
      BY <1>2, <1>6, <1>7, <2>3, <3>2
  <2> QED
    BY <1>4, <2>1, <2>2, <2>3
<1>10. (2 * j - 1) % 2 = 1 /\ (2 * j - 1) + 1 = 2 * j
  BY <1>5
<1>11. o.next = leaf[2 * j] /\ ~o.full
  BY <1>4, <1>6, <1>8, <1>9, <1>10
<1> QED
  BY <1>4, <1>9, <1>11

\* No player can get a verdict against a solver of the truth who is not late.
LEMMA TruthWins ==
    ASSUME TypeOK, Accepted, Walk, NEW id \in DOMAIN disputes, NEW verdict \in Verdict,
           PlayWith(id, verdict), TrueAt(id.execution, id.depth),
           (disputes[id].treeDepth = 0 \/ "SOLVER_RESPONDED" \notin disputes[id].state)
               => now <= disputes[id].timeout
    PROVE  verdict # "challenger"
<1> DEFINE d == disputes[id]
<1>1. d \in DisputeRecord /\ id \in DisputeId /\ now \in Nat
  BY DEF TypeOK, EnforcerTypeOK
<1>2. Unresolved(id) => OnPath(d, id)
  BY DEF Walk
<1>3. ASSUME NEW h, Respond(id, h, verdict) PROVE verdict # "challenger"
  <2> DEFINE r == Received(d, h, Open[h])
  <2>1. /\ h \in {d.solverPath, d.challengerPath} \cap DOMAIN Open
        /\ d.treeDepth > 0
        /\ d.state \cap VERIFIED = {}
        /\ OnPath(d, id)
        /\ UpdateRound(id, r, verdict)
    BY <1>2, <1>3 DEF Respond, Playing, AboveLeaf, Unresolved
  <2>2. r \in DisputeRecord /\ r.treeDepth > 0
    BY <1>1, <2>1, ReceivedMove
  <2>3. OnPath(r, id)
    BY <1>1, <2>1, ReceivedOnPath
  <2> HIDE DEF r, d
  <2>4. CASE RESPONDED \subseteq r.state /\ verdict = ZeroLeftVerdict(r)
    <3>1. Opened(r.solver, r.solverPath)
      BY <2>3, <2>4 DEF OnPath, Answered, RESPONDED
    <3>2. r.solver.left # Zero
      BY <1>1, <2>2, <2>3, <3>1, TruthHasLeftHalves
    <3> QED
      BY <2>4, <3>2 DEF ZeroLeftVerdict
  <2> QED
    BY <2>1, <2>4 DEF UpdateRound
<1>4. ASSUME NEW input \in StateHash, NEW o \in Outcomes[id.execution.task][input],
             SubmitProof(id, input, o, verdict)
      PROVE  verdict # "challenger"
  <2>1. /\ d.treeDepth = 0
        /\ AcceptsInput(id, input)
        /\ OnPath(d, id)
        /\ verdict = IF "SOLVER_VERIFIED" \in Proven(d, o) THEN "solver" ELSE "challenger"
    BY <1>2, <1>4 DEF SubmitProof, Playing
  <2>2. ExecutionTree(id.execution.task, id.execution.root, id.depth)
    BY <1>1, TrueAtFacts DEF DisputeId
  <2>3. o.next = d.solver.right /\ ~o.full
    BY <1>1, <2>1, <2>2, TruthIsProven
  <2> QED
    BY <2>1, <2>3 DEF Proven
<1>5. CASE ClaimTimeout(id, verdict)
  <2>1. d.timeout < now /\ verdict = TimeoutWinner(d) /\ d.timeout \in Nat
    BY <1>1, <1>5 DEF ClaimTimeout, DisputeRecord
  <2>2. d.treeDepth # 0 /\ "SOLVER_RESPONDED" \in d.state
    BY <1>1, <2>1
  <2> QED
    BY <2>1, <2>2 DEF TimeoutWinner
<1> QED
  BY <1>3, <1>4, <1>5 DEF PlayWith

-----------------------------------------------------------------------------
(***************************************************************************)
(* What an honest solver needs: to be in time, and to register only when   *)
(* no game about its root is open.  A verdict is about whatever            *)
(* registration of the root stands: were the root registered before at     *)
(* another depth, a game left from then could delete the new registration. *)
(* Else any number of registrations is made and any number of games        *)
(* between any players is played.                                          *)
(***************************************************************************)
NoOldGameFor(e) == ~\E id \in DOMAIN disputes : Unresolved(id) /\ id.execution = e
RegistersWhenClear ==
    \A e \in DOMAIN executions' \ DOMAIN executions : Truthful(e)' => NoOldGameFor(e)

SolverInTime == \A id \in DOMAIN disputes : SolverMustAct(id) => now < disputes[id].timeout

SolverNext == Next /\ (now' # now => SolverInTime) /\ RegistersWhenClear

SolverSpec == Init /\ [][SolverNext]_vars

-----------------------------------------------------------------------------
(***************************************************************************)
(* The invariant of it.                                                    *)
(***************************************************************************)

\* An open game about a truthful registration is about all of its tree.
NoOldGames ==
    \A id \in DOMAIN disputes :
        Unresolved(id) /\ Registered(id.execution) /\ Truthful(id.execution) =>
            executions[id.execution].executionDepth = id.depth

\* A solver that registered the truth and has to act is not late.
Patient ==
    \A id \in DOMAIN disputes : SolverMustAct(id) => now <= disputes[id].timeout

\* A truthful registration has the true root of its depth.
LEMMA TruthfulIsTrueAt ==
    ASSUME TypeOK, NEW e \in DOMAIN executions
    PROVE  /\ executions[e].executionDepth \in 1 .. maxExecutionDepth
           /\ Truthful(e) <=> TrueAt(e, executions[e].executionDepth)
<1>1. executions[e].executionDepth \in 1 .. maxExecutionDepth /\ e \in ExecutionId
  BY DEF TypeOK, EnforcerTypeOK, ExecutionResult
<1>2. TrueDepth[e.task] \in 1 .. maxExecutionDepth
  BY <1>1, TrueTreeAssumption DEF ExecutionId
<1> QED
  BY <1>1, <1>2, ParameterAssumption DEF Truthful, TrueAt, TrueRootFor

\* A report to the Enforcer deletes at most the execution that lost.
LEMMA NotifyDeletes ==
    ASSUME NEW id, NEW verdict, Notify(id, verdict)
    PROVE  \/ UNCHANGED executions
           \/ /\ verdict = "challenger" \/ verdict \notin Verdict
              /\ executions' = Delete(executions, id.execution)
BY DEF Notify, Result, SolverWon, ChallengerWon, enforcerVars, Verdict

\* No verdict goes against a truthful registration.
LEMMA PlayAgainstTruth ==
    ASSUME TypeOK, Accepted, Walk, NoOldGames, Patient, NEW id \in DOMAIN disputes, Play(id),
           Registered(id.execution), Truthful(id.execution)
    PROVE  UNCHANGED executions
<1>1. PICK r \in DisputeRecord, verdict \in Verdict :
          PlayWith(id, verdict) /\ Played(id, r, verdict)
  BY PlayStep
<1>2. Unresolved(id) /\ executions[id.execution].executionDepth = id.depth
  BY <1>1 DEF Played, NoOldGames
<1>3. TrueAt(id.execution, id.depth)
  BY <1>2, TruthfulIsTrueAt DEF Registered
<1>4. (disputes[id].treeDepth = 0 \/ "SOLVER_RESPONDED" \notin disputes[id].state)
          => now <= disputes[id].timeout
  BY <1>2 DEF Patient, SolverMustAct
<1>5. verdict # "challenger"
  BY <1>1, <1>3, <1>4, TruthWins
<1> QED
  BY <1>1, <1>5, NotifyDeletes DEF Played

-----------------------------------------------------------------------------
(***************************************************************************)
(* The steps.                                                              *)
(***************************************************************************)

\* A new dispute is about a standing registration, at its depth, with time to answer.
LEMMA NewDispute ==
    ASSUME TypeOK, NEW a \in Account, NEW execution \in DOMAIN executions,
           NEW root \in ChallengerRoot, Dispute(a, execution, root)
    PROVE  \E id, r :
               /\ id \notin DOMAIN disputes
               /\ disputes' = Put(disputes, id, r)
               /\ id.execution = execution
               /\ id.depth = executions[execution].executionDepth
               /\ r.timeout = now + timeoutDuration
               /\ UNCHANGED executions
<1> DEFINE id == DisputeOf(execution, root)
           r == [challengerAddr |-> a,
                 solverPath |-> id.execution.root,
                 challengerPath |-> id.challengerRoot,
                 treeDepth |-> id.depth,
                 witness |-> Zero,
                 solver |-> [left |-> id.execution.root, right |-> id.execution.root],
                 challenger |-> [left |-> id.challengerRoot, right |-> id.challengerRoot],
                 state |-> INITIAL_STATE,
                 timeout |-> getTimeout]
<1>1. id \notin DOMAIN disputes /\ disputes' = Put(disputes, id, r)
  BY DEF Dispute, InitGame, Exists
<1>2. id.execution = execution /\ id.depth = executions[execution].executionDepth
  BY DEF DisputeOf
<1>3. r.timeout = now + timeoutDuration
  BY DEF getTimeout
<1>4. UNCHANGED executions
  BY DEF Dispute, ChargeChallenger
<1> HIDE DEF id, r
<1> QED
  BY <1>1, <1>2, <1>3, <1>4

\* A registration that is deleted is not truthful.
LEMMA PlayKeepsTruth ==
    ASSUME TypeOK, Accepted, Walk, NoOldGames, Patient, NEW other \in DOMAIN disputes, Play(other)
    PROVE  /\ NoOldGames'
           /\ \A e \in DOMAIN executions : Truthful(e) => e \in DOMAIN executions'
<1>1. PICK r \in DisputeRecord, verdict \in Verdict : Played(other, r, verdict)
  BY PlayStep
<1>2. /\ Unresolved(other)
      /\ disputes' = [disputes EXCEPT ![other] = r]
      /\ \/ UNCHANGED executions
         \/ executions' = Delete(executions, other.execution)
  BY <1>1, NotifyDeletes DEF Played
<1>3. \A e \in DOMAIN executions : Truthful(e) => e \in DOMAIN executions'
  BY <1>2, PlayAgainstTruth DEF Delete, Registered
<1>4. \A e \in DOMAIN executions' : e \in DOMAIN executions /\ executions'[e] = executions[e]
  BY <1>2 DEF Delete
<1>5. ASSUME NEW id \in DOMAIN disputes', Unresolved(id)',
             Registered(id.execution)', Truthful(id.execution)'
      PROVE  executions'[id.execution].executionDepth = id.depth
  <2>1. id \in DOMAIN disputes /\ Unresolved(id)
    BY <1>2, <1>5 DEF Unresolved, Exists
  <2>2. Registered(id.execution) /\ Truthful(id.execution)
    BY <1>4, <1>5 DEF Registered, Truthful, TrueRootFor
  <2> QED
    BY <1>4, <1>5, <2>1, <2>2 DEF NoOldGames, Registered
<1> QED
  BY <1>3, <1>5 DEF NoOldGames

\* A round starts the clock anew; everything else only takes an obligation away.
LEMMA PlayKeepsPatient ==
    ASSUME TypeOK, Patient, NEW other \in DOMAIN disputes, Play(other), UNCHANGED now
    PROVE  Patient'
<1>1. PICK r \in DisputeRecord, verdict \in Verdict : Played(other, r, verdict)
  BY PlayStep
<1>2. /\ Unresolved(other)
      /\ disputes' = [disputes EXCEPT ![other] = r]
      /\ Move(disputes[other], r, verdict)
      /\ \/ UNCHANGED executions
         \/ executions' = Delete(executions, other.execution)
  BY <1>1, NotifyDeletes DEF Played
<1>3. /\ DOMAIN disputes' = DOMAIN disputes
      /\ \A x \in DOMAIN disputes : disputes'[x] = IF x = other THEN r ELSE disputes[x]
  BY <1>2
<1>4. \A e \in DOMAIN executions' : e \in DOMAIN executions /\ executions'[e] = executions[e]
  BY <1>2 DEF Delete
<1> SUFFICES ASSUME NEW id \in DOMAIN disputes', SolverMustAct(id)'
             PROVE  now' <= disputes'[id].timeout
  BY DEF Patient
<1>5. /\ id \in DOMAIN disputes
      /\ Unresolved(id)'
      /\ Registered(id.execution)' /\ Truthful(id.execution)'
      /\ disputes'[id].treeDepth = 0 \/ "SOLVER_RESPONDED" \notin disputes'[id].state
  BY <1>3 DEF SolverMustAct
<1>6. Registered(id.execution) /\ Truthful(id.execution)
  BY <1>4, <1>5 DEF Registered, Truthful, TrueRootFor
<1>7. CASE id # other
  <2>1. disputes'[id] = disputes[id]
    BY <1>3, <1>5, <1>7
  <2>2. SolverMustAct(id)
    BY <1>5, <1>6, <2>1 DEF SolverMustAct, Unresolved, Exists
  <2> QED
    BY <1>5, <2>1, <2>2 DEF Patient
<1>8. CASE id = other
  <2>1. disputes'[id] = r /\ Unresolved(id)
    BY <1>2, <1>3, <1>8
  <2>2. r.state \cap VERIFIED = {}
    BY <1>5, <2>1 DEF Unresolved
  <2>3. CASE /\ r.treeDepth = disputes[id].treeDepth
             /\ r.timeout = disputes[id].timeout /\ disputes[id].state \subseteq r.state
    <3>1. SolverMustAct(id)
      BY <1>5, <1>6, <2>1, <2>3 DEF SolverMustAct
    <3> QED
      BY <1>5, <2>1, <2>3, <3>1 DEF Patient
  <2>4. CASE r.timeout = now + timeoutDuration
    BY <2>1, <2>4, ParameterAssumption DEF TypeOK, EnforcerTypeOK
  <2> QED
    BY <1>2, <1>8, <2>2, <2>3, <2>4 DEF Move
<1> QED
  BY <1>7, <1>8

\* Every step with such a solver keeps both, and all truthful registrations.
LEMMA SolverStep ==
    TypeOK /\ TypeOK' /\ Accepted /\ Walk /\ NoOldGames /\ Patient /\ [SolverNext]_vars
    => /\ NoOldGames' /\ Patient'
       /\ \A e \in DOMAIN executions : Truthful(e) => e \in DOMAIN executions'
<1> SUFFICES ASSUME TypeOK, TypeOK', Accepted, Walk, NoOldGames, Patient, [SolverNext]_vars
             PROVE  /\ NoOldGames' /\ Patient'
                    /\ \A e \in DOMAIN executions : Truthful(e) => e \in DOMAIN executions'
  OBVIOUS
<1> DEFINE Kept == \A e \in DOMAIN executions : Truthful(e) => e \in DOMAIN executions'
<1>1. CASE UNCHANGED <<executions, disputes>>
  <2>1. Kept /\ NoOldGames'
    BY <1>1 DEF NoOldGames, Unresolved, Exists, Registered, Truthful, TrueRootFor
  <2>2. ASSUME NEW id \in DOMAIN disputes, SolverMustAct(id)' PROVE now' <= disputes[id].timeout
    <3>1. SolverMustAct(id)
      BY <1>1, <2>2 DEF SolverMustAct, Unresolved, Exists, Registered, Truthful, TrueRootFor
    <3>2. now \in Nat /\ now' \in Nat /\ disputes[id].timeout \in Nat
      BY DEF TypeOK, EnforcerTypeOK, DisputeRecord
    <3>3. CASE now' = now
      BY <3>1, <3>3 DEF Patient
    <3>4. CASE now' # now
      <4>1. SolverNext /\ SolverInTime
        BY <3>4 DEF SolverNext, vars
      <4>2. Tick
        BY <3>4, <4>1 DEF SolverNext, Next
      <4>3. now < disputes[id].timeout /\ now' = now + 1
        BY <3>1, <4>1, <4>2 DEF SolverInTime, Tick
      <4> QED
        BY <3>2, <4>3
    <3> QED
      BY <3>3, <3>4
  <2> QED
    BY <1>1, <2>1, <2>2 DEF Patient
<1>2. ASSUME NEW a \in Account, NEW new \in ExecutionId, NEW depth \in ProofDepth,
             Register(a, new, depth), UNCHANGED <<now, disputes>>
      PROVE  NoOldGames' /\ Patient' /\ Kept
  <2> DEFINE entry == [startTime |-> now, executionDepth |-> depth, solver |-> a]
  <2>1. /\ executions' = Put(executions, new, entry)
        /\ ~Registered(new)
    BY <1>2 DEF Register
  <2> HIDE DEF entry
  <2>2. /\ DOMAIN executions' = DOMAIN executions \cup {new}
        /\ new \notin DOMAIN executions
        /\ \A e \in DOMAIN executions : e # new /\ executions'[e] = executions[e]
    BY <2>1 DEF Put, Registered
  <2>3. Kept
    BY <2>2
  <2>4. Truthful(new)' => NoOldGameFor(new)
    <3>1. executions' # executions
      BY <2>2
    <3>2. RegistersWhenClear
      BY <3>1 DEF SolverNext, vars
    <3> QED
      BY <2>2, <3>2 DEF RegistersWhenClear
  <2>5. ASSUME NEW id \in DOMAIN disputes, Unresolved(id),
               Registered(id.execution)', Truthful(id.execution)'
        PROVE  /\ Registered(id.execution) /\ Truthful(id.execution)
               /\ executions'[id.execution] = executions[id.execution]
    <3>1. id.execution # new
      BY <2>4, <2>5 DEF NoOldGameFor
    <3> QED
      BY <2>2, <2>5, <3>1 DEF Registered, Truthful, TrueRootFor
  <2>6. NoOldGames'
    BY <1>2, <2>5 DEF NoOldGames, Unresolved, Exists
  <2>7. ASSUME NEW id \in DOMAIN disputes, SolverMustAct(id)' PROVE now <= disputes[id].timeout
    <3>1. SolverMustAct(id)
      BY <1>2, <2>5, <2>7 DEF SolverMustAct, Unresolved, Exists
    <3> QED
      BY <3>1 DEF Patient
  <2>8. Patient'
    BY <1>2, <2>7 DEF Patient
  <2> QED
    BY <2>3, <2>6, <2>8
<1>3. ASSUME NEW a \in Account, NEW execution \in DOMAIN executions,
             NEW root \in ChallengerRoot, Dispute(a, execution, root), UNCHANGED now
      PROVE  NoOldGames' /\ Patient' /\ Kept
  <2>1. PICK new, r :
            /\ new \notin DOMAIN disputes
            /\ disputes' = Put(disputes, new, r)
            /\ new.execution = execution
            /\ new.depth = executions[execution].executionDepth
            /\ r.timeout = now + timeoutDuration
            /\ UNCHANGED executions
    BY <1>3, NewDispute
  <2>2. /\ DOMAIN disputes' = DOMAIN disputes \cup {new}
        /\ disputes'[new] = r
        /\ \A x \in DOMAIN disputes : x # new /\ disputes'[x] = disputes[x]
    BY <2>1 DEF Put
  <2>3. Kept
    BY <2>1
  <2>4. NoOldGames'
    BY <2>1, <2>2 DEF NoOldGames, Unresolved, Exists, Registered, Truthful, TrueRootFor
  <2>5. ASSUME NEW id \in DOMAIN disputes, SolverMustAct(id)' PROVE now <= disputes'[id].timeout
    <3>1. SolverMustAct(id)
      BY <2>1, <2>2, <2>5
         DEF SolverMustAct, Unresolved, Exists, Registered, Truthful, TrueRootFor
    <3> QED
      BY <2>2, <3>1 DEF Patient
  <2>6. now <= disputes'[new].timeout
    BY <2>1, <2>2, ParameterAssumption DEF TypeOK, EnforcerTypeOK
  <2>7. Patient'
    BY <1>3, <2>2, <2>5, <2>6 DEF Patient
  <2> QED
    BY <2>3, <2>4, <2>7
<1>4. ASSUME NEW id \in DOMAIN disputes, Play(id), UNCHANGED now
      PROVE  NoOldGames' /\ Patient' /\ Kept
  BY <1>4, PlayKeepsTruth, PlayKeepsPatient
<1>5. CASE Next
  BY <1>1, <1>2, <1>3, <1>4, <1>5 DEF Next, Tick, Request, enforcerVars
<1>6. CASE UNCHANGED vars
  BY <1>1, <1>6 DEF vars
<1> QED
  BY <1>5, <1>6 DEF SolverNext

-----------------------------------------------------------------------------
\* The invariant of play with an honest solver.
LEMMA AlwaysPatient == SolverSpec => [](TypeOK /\ Accepted /\ Walk /\ NoOldGames /\ Patient)
<1>1. Init => NoOldGames /\ Patient
  <2>1. DOMAIN NoEntries = {}
    BY DEF NoEntries
  <2> QED
    BY <2>1 DEF Init, EnforcerInit, VerifierInit, NoOldGames, Patient
<1>2. [SolverNext]_vars => [Next]_vars
  BY DEF SolverNext
<1> QED
  BY <1>1, <1>2, SolverStep, AlwaysOnPath, PTL DEF SolverSpec, Spec

\* A solver that registers the true execution and answers in time keeps its
\* registration, whoever disputes it with whatever tree.
THEOREM SolverKeepsTruth == SolverSpec => TruthStands
<1>1. TypeOK /\ TypeOK' /\ Accepted /\ Walk /\ NoOldGames /\ Patient /\ [SolverNext]_vars
      => [\A e \in DOMAIN executions : Truthful(e) => e \in DOMAIN executions']_vars
  BY SolverStep
<1> QED
  BY <1>1, AlwaysPatient, PTL DEF SolverSpec, TruthStands


-----------------------------------------------------------------------------
(***************************************************************************)
(* A game in which the challenger has the truth and the solver has not.    *)
(***************************************************************************)

\* The trees are the same left of position i of a level.
SameBefore(i, s, c) == \A j \in 1 .. i - 1 : s[j] = c[j]

\* The true execution goes on behind position i of the challenger's level.
GoesOn(i, c, id) ==
    \/ id.depth < TrueDepth[id.execution.task]
    \/ \E j \in DOMAIN c : j > i /\ c[j] # Zero

\* The players disagree on the node at i, or the solver says of one they share that it is
\* the last, and it is not.
Contested(i, d, s, c, id) ==
    s[i] # c[i] \/ ("END_OF_EXECUTION" \in d.state /\ GoesOn(i, c, id))

Gains(i, p, d, s, c, edge, id) ==
    /\ Stands(i, p, d, s, c, edge)
    /\ SameBefore(i, s, c)
    /\ c[i] # Zero
    /\ Contested(i, d, s, c, id)

Gaining(d, id) ==
    LET k == id.depth - d.treeDepth
        s == Levels(id.execution.root)[k]
        c == Levels(id.challengerRoot)[k]
    IN  \E i, p \in DOMAIN s : Gains(i, p, d, s, c, RightEdge[k][id.execution.root], id)

\* At the leaf no proof can verify the solver: the true step does not lead where he says,
\* or it would have to halt, which it does not.
NoProofForSolver(d, id) ==
    \/ d.solver.right # d.challenger.right
    \/ /\ "END_OF_EXECUTION" \in d.state
       /\ \A o \in Outcomes[id.execution.task][d.challenger.left] : ~o.halts

Winning(d, id) ==
    IF d.treeDepth = 0
    THEN d.state \cap RESPONDED = {} /\ NoProofForSolver(d, id)
    ELSE ~(RESPONDED \subseteq d.state) /\ Gaining(d, id)

-----------------------------------------------------------------------------
(***************************************************************************)
(* One round of it.                                                        *)
(***************************************************************************)

\* Where the trees are the same on one level, they are on the next.
LEMMA SameBelow ==
    ASSUME NEW s \in Seq(Hash), NEW c \in Seq(Hash), Len(s) = Len(c), NEW i \in DOMAIN s,
           SameBefore(i, s, c)
    PROVE  /\ SameBefore(2 * i - 1, LevelBelow(s), LevelBelow(c))
           /\ Halves(s[i]).left = Halves(c[i]).left
                  => SameBefore(2 * i, LevelBelow(s), LevelBelow(c))
<1> DEFINE n == Len(s)
           sb == LevelBelow(s)
           cb == LevelBelow(c)
<1>1. n \in Nat /\ i \in 1 .. n
  BY LenProperties
<1>2. \A j \in 1 .. n : /\ sb[2 * j - 1] = Halves(s[j]).left
                       /\ sb[2 * j] = Halves(s[j]).right
                       /\ cb[2 * j - 1] = Halves(c[j]).left
                       /\ cb[2 * j] = Halves(c[j]).right
  BY LevelBelowShape
<1> HIDE DEF n, sb, cb
<1>3. ASSUME NEW j \in 1 .. (2 * i - 1) - 1 PROVE sb[j] = cb[j]
  <2>1. PICK m \in 1 .. i - 1 : j = 2 * m - 1 \/ j = 2 * m
    <3>1. (j + 1) \div 2 \in 1 .. i - 1
      BY <1>1
    <3>2. j = 2 * ((j + 1) \div 2) - 1 \/ j = 2 * ((j + 1) \div 2)
      BY <1>1
    <3> QED
      BY <3>1, <3>2
  <2>2. s[m] = c[m] /\ m \in 1 .. n
    BY <1>1 DEF SameBefore
  <2> QED
    BY <1>2, <2>1, <2>2
<1>4. SameBefore(2 * i - 1, sb, cb)
  BY <1>3 DEF SameBefore
<1>5. ASSUME Halves(s[i]).left = Halves(c[i]).left PROVE SameBefore(2 * i, sb, cb)
  <2>1. sb[2 * i - 1] = cb[2 * i - 1]
    BY <1>1, <1>2, <1>5
  <2>2. ASSUME NEW j \in 1 .. 2 * i - 1 PROVE sb[j] = cb[j]
    <3>1. j = 2 * i - 1 \/ j \in 1 .. (2 * i - 1) - 1
      BY <1>1
    <3> QED
      BY <1>3, <2>1, <3>1
  <2> QED
    BY <2>2 DEF SameBefore
<1> QED
  BY <1>4, <1>5 DEF sb, cb

\* A true execution that goes on behind a node goes on behind all that is below it.
LEMMA GoesOnBelow ==
    ASSUME NEW id, NEW c \in Seq(Hash), NEW i \in DOMAIN c, GoesOn(i, c, id),
           \A j \in DOMAIN c : c[j] # Zero => Halves(c[j]).left # Zero
    PROVE  GoesOn(2 * i, LevelBelow(c), id)
<1> DEFINE n == Len(c)
           cb == LevelBelow(c)
<1>1. n \in Nat /\ DOMAIN c = 1 .. n
  BY LenProperties
<1>2. /\ DOMAIN cb = 1 .. 2 * n
      /\ \A j \in 1 .. n : cb[2 * j - 1] = Halves(c[j]).left
  <2>1. cb \in Seq(Hash) /\ Len(cb) = 2 * n
    BY LevelBelowShape
  <2>2. DOMAIN cb = 1 .. Len(cb)
    BY <2>1, LenProperties
  <2> QED
    BY <2>1, <2>2, LevelBelowShape
<1> HIDE DEF n, cb
<1>3. ASSUME NEW j \in DOMAIN c, j > i, c[j] # Zero
      PROVE  \E m \in DOMAIN cb : m > 2 * i /\ cb[m] # Zero
  <2>1. 2 * j - 1 \in 1 .. 2 * n /\ 2 * j - 1 > 2 * i
    BY <1>1, <1>3
  <2>2. cb[2 * j - 1] # Zero
    BY <1>1, <1>2, <1>3
  <2> QED
    BY <1>2, <2>1, <2>2
<1> QED
  BY <1>3 DEF GoesOn, cb

\* Where a round goes.
Below(i, d) == IF FollowsRight(d) THEN 2 * i ELSE 2 * i - 1

\* Players at different nodes get to different nodes, or to a shared one that the solver
\* says is the last.
LEMMA PartedStayContested ==
    ASSUME NEW id, NEW s \in Seq(Hash), NEW c \in Seq(Hash), Len(s) = Len(c), NEW i \in DOMAIN s,
           NEW d \in DisputeRecord, Opened(d.solver, s[i]), Opened(d.challenger, c[i]),
           s[i] # c[i],
           d.solver.left = d.challenger.left =>
               /\ d.challenger.right # Zero
               /\ d.solver.right = Zero => "END_OF_EXECUTION" \in d.state
    PROVE  Contested(Below(i, d), NextRound(d), LevelBelow(s), LevelBelow(c), id)
<1> DEFINE n == Len(s)
           r == NextRound(d)
           sb == LevelBelow(s)
           cb == LevelBelow(c)
<1>1. n \in Nat /\ i \in 1 .. n
  BY LenProperties
<1>2. /\ Halves(s[i]) = d.solver /\ Halves(c[i]) = d.challenger
  BY DEF Opened, Halves
<1>3. /\ sb[2 * i - 1] = d.solver.left /\ sb[2 * i] = d.solver.right
      /\ cb[2 * i - 1] = d.challenger.left /\ cb[2 * i] = d.challenger.right
  <2>1. sb[2 * i - 1] = Halves(s[i]).left /\ sb[2 * i] = Halves(s[i]).right
    BY <1>1, LevelBelowShape
  <2>2. cb[2 * i - 1] = Halves(c[i]).left /\ cb[2 * i] = Halves(c[i]).right
    BY <1>1, LevelBelowShape
  <2> QED
    BY <1>2, <2>1, <2>2
<1>4. DOMAIN cb = 1 .. 2 * n
  <2>1. cb \in Seq(Hash) /\ Len(cb) = 2 * n
    BY LevelBelowShape
  <2> QED
    BY <2>1, LenProperties
<1>5. d.solver.left # d.challenger.left \/ d.solver.right # d.challenger.right
  <2>1. Open[s[i]] # Open[c[i]]
    BY PreimageAssumption DEF Opened
  <2> QED
    BY <2>1 DEF Opened, DisputeRecord, ComputationPath
<1>6. "END_OF_EXECUTION" \in r.state
          <=> "END_OF_EXECUTION" \in d.state /\ (FollowsRight(d) \/ d.solver.right = Zero)
  BY NextRoundFields
<1> HIDE DEF n, r, sb, cb
<1>7. CASE FollowsRight(d)
  BY <1>3, <1>5, <1>7 DEF FollowsRight, Below, Contested, r, sb, cb
<1>8. CASE ~FollowsRight(d) /\ d.solver.left # d.challenger.left
  BY <1>3, <1>8 DEF Below, Contested, r, sb, cb
<1>9. CASE ~FollowsRight(d) /\ d.solver.left = d.challenger.left
  <2>1. d.challenger.right # Zero /\ d.solver.right = Zero
    BY <1>9 DEF FollowsRight
  <2>2. "END_OF_EXECUTION" \in r.state
    BY <1>6, <1>9, <2>1
  <2>3. 2 * i \in DOMAIN cb /\ 2 * i > 2 * i - 1 /\ cb[2 * i] # Zero
    BY <1>1, <1>3, <1>4, <2>1
  <2>4. GoesOn(2 * i - 1, cb, id)
    BY <2>3 DEF GoesOn
  <2> QED
    BY <1>9, <2>2, <2>4 DEF Below, Contested, r, sb, cb
<1> QED
  BY <1>7, <1>8, <1>9

\* From a shared node the flag goes along to where the solver says the execution ends.
LEMMA SharedStayContested ==
    ASSUME NEW id, NEW s \in Seq(Hash), NEW c \in Seq(Hash), Len(s) = Len(c), NEW i \in DOMAIN s,
           NEW d \in DisputeRecord, d.solver = d.challenger,
           "END_OF_EXECUTION" \in d.state, GoesOn(i, c, id),
           \A j \in DOMAIN c : c[j] # Zero => Halves(c[j]).left # Zero
    PROVE  /\ "END_OF_EXECUTION" \in NextRound(d).state
           /\ GoesOn(2 * i, LevelBelow(c), id)
           /\ GoesOn(Below(i, d), LevelBelow(c), id)
<1> DEFINE cb == LevelBelow(c)
<1>1. DOMAIN s = DOMAIN c /\ i \in Nat
  BY LenProperties
<1>2. GoesOn(2 * i, cb, id)
  BY <1>1, GoesOnBelow
<1>3. DOMAIN cb \subseteq Int
  <2>1. cb \in Seq(Hash)
    BY LevelBelowShape
  <2> HIDE DEF cb
  <2> QED
    BY <2>1, LenProperties
<1>4. "END_OF_EXECUTION" \in NextRound(d).state
          <=> "END_OF_EXECUTION" \in d.state /\ (FollowsRight(d) \/ d.solver.right = Zero)
  BY NextRoundFields
<1>5. FollowsRight(d) \/ d.solver.right = Zero
  BY DEF FollowsRight
<1> HIDE DEF cb
<1>6. GoesOn(2 * i - 1, cb, id)
  BY <1>1, <1>2, <1>3 DEF GoesOn
<1> QED
  BY <1>2, <1>4, <1>5, <1>6 DEF Below, cb

\* What the claim must do at a node on which the players part, unless it misleads.
LEMMA PartingClaim ==
    ASSUME NEW id, ~Misleading(id), id.depth \in Nat, NEW k \in 0 .. id.depth - 1,
           NEW s, s = Levels(id.execution.root)[k],
           NEW c, c = Levels(id.challengerRoot)[k],
           NEW i \in DOMAIN s, SameBefore(i, s, c), s[i] # c[i],
           NEW solver, Opened(solver, s[i]), NEW challenger, Opened(challenger, c[i])
    PROVE  /\ solver.left = challenger.left => challenger.right # Zero
           /\ solver.left = challenger.left /\ solver.right = Zero /\ k < id.depth - 1 =>
                  ~\E j \in DOMAIN s : j > i /\ s[j] # Zero
           /\ k = id.depth - 1 => solver.right # challenger.right
<1>1. PartAt(k, i, id)
  BY DEF PartAt, SolverNode, ChallengerNode, Opened, SameBefore
<1>2. /\ SolverPair(k, i, id) = solver /\ ChallengerPair(k, i, id) = challenger
      /\ i \in NodesOn(k, id)
  BY DEF SolverPair, ChallengerPair, SolverNode, ChallengerNode, NodesOn, Opened
<1>3. ASSUME solver.left = challenger.left PROVE challenger.right # Zero
  BY <1>1, <1>2, <1>3 DEF Misleading, Outlasts
<1>4. ASSUME solver.left = challenger.left, solver.right = Zero, k < id.depth - 1
      PROVE  ~\E j \in DOMAIN s : j > i /\ s[j] # Zero
  <2>1. k \in 0 .. id.depth - 2
    BY <1>4
  <2>2. ~\E j \in NodesOn(k, id) : j > i /\ SolverNode(k, j, id) # Zero
    BY <1>1, <1>2, <1>4, <2>1 DEF Misleading, Skips
  <2> QED
    BY <2>2 DEF NodesOn, SolverNode
<1>5. ASSUME k = id.depth - 1 PROVE solver.right # challenger.right
  BY <1>1, <1>2, <1>5 DEF Misleading, Misconnects
<1> QED
  BY <1>3, <1>4, <1>5

\* The tree of a challenger that has the truth.
LEMMA ChallengersTree ==
    ASSUME NEW id \in DisputeId, ChallengerHasTruth(id)
    PROVE  ExecutionTree(id.execution.task, id.challengerRoot, id.depth)
BY TrueExecutionAssumption DEF DisputeId, ExecutionId, ChallengerHasTruth

\* A round of a game the challenger is winning goes to one he is winning.
LEMMA RoundWins ==
    ASSUME NEW id \in DisputeId, VerifyResultProof(id.execution.root, id.depth),
           ChallengerHasTruth(id), ~Misleading(id),
           NEW d \in DisputeRecord, d.treeDepth > 0, d.treeDepth <= id.depth,
           RESPONDED \subseteq d.state, Answered(d), WitnessOpened(d), Gaining(d, id)
    PROVE  Winning(NextRound(d), id)
<1> DEFINE t == id.execution.task
           k == id.depth - d.treeDepth
           s == Levels(id.execution.root)[k]
           c == Levels(id.challengerRoot)[k]
           edge == RightEdge[k][id.execution.root]
           r == NextRound(d)
<1> SUFFICES Winning(r, id)
  OBVIOUS
<1>1. /\ id.depth \in Nat /\ d.treeDepth \in Nat
      /\ id.execution.root \in Hash /\ id.challengerRoot \in Hash
  <2>1. id.depth \in 1 .. maxExecutionDepth
    BY DEF DisputeId
  <2> QED
    BY <2>1, HashAssumption, ParameterAssumption DEF DisputeId, ExecutionId, DisputeRecord
<1>2. k \in 0 .. id.depth - 1 /\ k \in Nat /\ k \in 0 .. id.depth /\ k < id.depth
  BY <1>1
<1>3. edge \in DOMAIN Open /\ edge # Zero
  BY <1>1, <1>2, EdgeIsOpen, HashAssumption
<1>4. PICK i \in DOMAIN s, p \in DOMAIN s : Gains(i, p, d, s, c, edge, id)
  BY DEF Gaining
<1>5. /\ r.treeDepth = d.treeDepth - 1 /\ r.state \cap RESPONDED = {}
      /\ r.solver = d.solver /\ r.challenger = d.challenger
  BY NextRoundFields
<1>6. k + 1 = id.depth - r.treeDepth
  BY <1>1, <1>2, <1>5
<1>7. /\ \A j \in DOMAIN c : c[j] # Zero => c[j] \in DOMAIN Open /\ Open[c[j]].left # Zero
  BY <1>2, ChallengersTree DEF ExecutionTree
<1> HIDE DEF k
<1>8. /\ s \in Seq(Hash) /\ Levels(id.execution.root)[k + 1] = LevelBelow(s)
      /\ c \in Seq(Hash) /\ Levels(id.challengerRoot)[k + 1] = LevelBelow(c)
  <2>1. s \in Seq(Hash) /\ Levels(id.execution.root)[k + 1] = LevelBelow(s)
    BY <1>1, <1>2, LevelShape
  <2>2. c \in Seq(Hash) /\ Levels(id.challengerRoot)[k + 1] = LevelBelow(c)
    BY <1>1, <1>2, LevelShape
  <2> QED
    BY <2>1, <2>2
<1>9. Len(s) = Len(c)
  BY <1>1, <1>2, LevelLength
<1>10. RightEdge[k + 1][id.execution.root] = EdgeBelow(edge)
  BY <1>1, <1>2, RightEdgeDown
<1>11. Opened(d.solver, s[i]) /\ Opened(d.challenger, c[i])
  BY <1>4 DEF Answered, Gains, Stands, Explains, RESPONDED
<1>12. ASSUME s[i] # c[i]
       PROVE  /\ d.solver.left = d.challenger.left => d.challenger.right # Zero
              /\ d.solver.left = d.challenger.left /\ d.solver.right = Zero /\ k < id.depth - 1
                     => ~\E j \in DOMAIN s : j > i /\ s[j] # Zero
              /\ k = id.depth - 1 => d.solver.right # d.challenger.right
  <2>1. SameBefore(i, s, c)
    BY <1>4 DEF Gains
  <2>2. s = Levels(id.execution.root)[k] /\ c = Levels(id.challengerRoot)[k]
    OBVIOUS
  <2> HIDE DEF s, c
  <2> QED
    BY <1>1, <1>2, <1>11, <1>12, <2>1, <2>2, PartingClaim
<1> HIDE DEF s, c, edge, r, t
<1>13. /\ d.solver = Halves(s[i]) /\ d.challenger = Halves(c[i])
       /\ \A j \in DOMAIN c : c[j] # Zero => Halves(c[j]).left # Zero
       /\ DOMAIN s = DOMAIN c /\ i \in Nat /\ DOMAIN s \subseteq Nat
  <2>1. DOMAIN s = DOMAIN c /\ i \in Nat /\ DOMAIN s \subseteq Nat
    BY <1>8, <1>9, LenProperties
  <2> QED
    BY <1>7, <1>11, <2>1 DEF Opened, Halves
<1>14. s[i] = c[i] =>
           /\ "END_OF_EXECUTION" \in r.state
           /\ GoesOn(2 * i, LevelBelow(c), id)
           /\ GoesOn(Below(i, d), LevelBelow(c), id)
  <2>1. ASSUME s[i] = c[i] PROVE d.solver = d.challenger
    BY <1>13, <2>1
  <2>2. ASSUME s[i] = c[i] PROVE "END_OF_EXECUTION" \in d.state /\ GoesOn(i, c, id)
    BY <1>4, <2>2 DEF Gains, Contested
  <2> QED
    BY <1>8, <1>9, <1>13, <2>1, <2>2, SharedStayContested DEF r
<1>15. CASE d.treeDepth = 1
  <2>1. r.treeDepth = 0 /\ k = id.depth - 1 /\ k + 1 = id.depth
    BY <1>1, <1>5, <1>15 DEF k
  <2>2. CASE s[i] # c[i]
    BY <1>5, <1>12, <2>1, <2>2 DEF Winning, NoProofForSolver
  <2>3. CASE s[i] = c[i]
    <3> DEFINE leaf == Levels(id.challengerRoot)[id.depth]
    <3>1. leaf = LevelBelow(c)
      BY <1>8, <2>1
    <3>2. /\ \A j \in DOMAIN leaf : j % 2 = 1 /\ leaf[j] # Zero =>
                 \A o \in Outcomes[id.execution.task][leaf[j]] :
                     o.halts => /\ id.depth >= TrueDepth[id.execution.task]
                                /\ \A m \in DOMAIN leaf : m > j + 1 => leaf[m] = Zero
      BY ChallengersTree DEF ExecutionTree
    <3>3. /\ 2 * i - 1 \in DOMAIN leaf /\ leaf[2 * i - 1] = d.challenger.left
          /\ (2 * i - 1) % 2 = 1 /\ (2 * i - 1) + 1 = 2 * i
          /\ DOMAIN leaf \subseteq Nat
      <4>1. leaf \in Seq(Hash) /\ Len(leaf) = 2 * Len(c)
        BY <1>8, <3>1, LevelBelowShape
      <4>2. i \in 1 .. Len(c) /\ Len(c) \in Nat
        BY <1>8, <1>13, LenProperties
      <4>3. leaf[2 * i - 1] = Halves(c[i]).left
        BY <1>8, <3>1, <4>2, LevelBelowShape
      <4>4. DOMAIN leaf = 1 .. 2 * Len(c)
        BY <4>1, LenProperties
      <4> HIDE DEF leaf
      <4> QED
        BY <1>13, <4>2, <4>3, <4>4
    <3>4. d.challenger.left # Zero
      BY <1>4, <1>13 DEF Gains
    <3>5. GoesOn(2 * i, leaf, id)
      BY <1>14, <2>3, <3>1
    <3> HIDE DEF leaf
    <3>6. ASSUME NEW o \in Outcomes[id.execution.task][d.challenger.left], o.halts PROVE FALSE
      <4>1. /\ id.depth >= TrueDepth[id.execution.task]
            /\ \A m \in DOMAIN leaf : m > 2 * i => leaf[m] = Zero
        BY <3>2, <3>3, <3>4, <3>6
      <4>2. TrueDepth[id.execution.task] \in Nat
        BY TrueTreeAssumption DEF DisputeId, ExecutionId
      <4> QED
        BY <1>1, <3>5, <4>1, <4>2 DEF GoesOn
    <3> QED
      BY <1>5, <1>14, <2>1, <2>3, <3>6 DEF Winning, NoProofForSolver
  <2> QED
    BY <2>2, <2>3
<1>16. CASE d.treeDepth > 1
  <2> DEFINE j == Below(i, d)
  <2>1. r.treeDepth # 0 /\ k < id.depth - 1
    BY <1>1, <1>5, <1>16 DEF k
  <2>2. /\ j \in DOMAIN LevelBelow(s)
        /\ \E q \in DOMAIN LevelBelow(s) :
               Stands(j, q, r, LevelBelow(s), LevelBelow(c), EdgeBelow(edge))
    BY <1>3, <1>4, <1>8, <1>9, <1>13, StandsStep DEF Gains, Below, r
  <2>3. SameBefore(j, LevelBelow(s), LevelBelow(c))
    <3>1. /\ SameBefore(2 * i - 1, LevelBelow(s), LevelBelow(c))
          /\ Halves(s[i]).left = Halves(c[i]).left
                 => SameBefore(2 * i, LevelBelow(s), LevelBelow(c))
      BY <1>4, <1>8, <1>9, SameBelow DEF Gains
    <3> QED
      BY <1>13, <3>1 DEF Below, FollowsRight
  <2>4. LevelBelow(c)[j] # Zero
    <3>1. /\ LevelBelow(c)[2 * i - 1] = d.challenger.left
          /\ LevelBelow(c)[2 * i] = d.challenger.right
      <4>1. i \in 1 .. Len(c)
        BY <1>8, <1>13, LenProperties
      <4> QED
        BY <1>8, <1>13, <4>1, LevelBelowShape
    <3>2. d.challenger.left # Zero
      BY <1>4, <1>13 DEF Gains
    <3> QED
      BY <3>1, <3>2 DEF Below, FollowsRight
  <2>5. Contested(j, r, LevelBelow(s), LevelBelow(c), id)
    <3>1. CASE s[i] = c[i]
      BY <1>14, <3>1 DEF Contested
    <3>2. CASE s[i] # c[i]
      <4>1. ASSUME d.solver.left = d.challenger.left, d.solver.right = Zero
            PROVE  "END_OF_EXECUTION" \in d.state
        <5>1. ~\E m \in DOMAIN s : m > i /\ s[m] # Zero
          BY <1>12, <2>1, <3>2, <4>1
        <5>2. s[p] # Zero /\ i <= p /\ ("END_OF_EXECUTION" \in d.state <=> i = p)
          BY <1>3, <1>4 DEF Gains, Stands, EdgeAt
        <5> QED
          BY <1>4, <1>13, <5>1, <5>2
      <4>2. d.solver.left = d.challenger.left =>
                /\ d.challenger.right # Zero
                /\ d.solver.right = Zero => "END_OF_EXECUTION" \in d.state
        BY <1>12, <3>2, <4>1
      <4> QED
        BY <1>8, <1>9, <1>11, <3>2, <4>2, PartedStayContested DEF r
    <3> QED
      BY <3>1, <3>2
  <2>6. \E q \in DOMAIN LevelBelow(s) :
            Gains(j, q, r, LevelBelow(s), LevelBelow(c), EdgeBelow(edge), id)
    BY <2>2, <2>3, <2>4, <2>5 DEF Gains
  <2>7. Gaining(r, id)
    BY <1>6, <1>8, <1>10, <2>2, <2>6 DEF Gaining
  <2>8. ~(RESPONDED \subseteq r.state)
    BY <1>5 DEF RESPONDED
  <2> QED
    BY <2>1, <2>7, <2>8 DEF Winning
<1> QED
  BY <1>1, <1>15, <1>16 DEF r

-----------------------------------------------------------------------------
(***************************************************************************)
(* Its moves.                                                              *)
(***************************************************************************)

\* The pairs the challenger with the truth opens have a left half.
LEMMA GainingHasLeftHalf ==
    ASSUME NEW id \in DisputeId, ChallengerHasTruth(id),
           NEW d \in DisputeRecord, d.treeDepth > 0, d.treeDepth <= id.depth, Gaining(d, id),
           Opened(d.challenger, d.challengerPath)
    PROVE  d.challenger.left # Zero
<1> DEFINE k == id.depth - d.treeDepth
           c == Levels(id.challengerRoot)[k]
<1>1. k \in 0 .. id.depth - 1
  BY ParameterAssumption DEF DisputeId, DisputeRecord
<1>2. PICK i \in DOMAIN Levels(id.execution.root)[k] :
          c[i] # Zero /\ d.challengerPath = c[i] /\ i \in DOMAIN c
  <2> DEFINE s == Levels(id.execution.root)[k]
  <2>1. PICK i \in DOMAIN s, p \in DOMAIN s :
            Gains(i, p, d, s, c, RightEdge[k][id.execution.root], id)
    BY DEF Gaining
  <2>2. DOMAIN s = DOMAIN c
    <3>1. /\ id.execution.root \in Hash /\ id.challengerRoot \in Hash /\ k \in Nat
      BY <1>1, HashAssumption DEF DisputeId, ExecutionId
    <3>2. s \in Seq(Hash) /\ c \in Seq(Hash)
      <4> HIDE DEF k
      <4> QED
        BY <3>1, LevelShape
    <3>3. Len(s) = Len(c)
      <4> HIDE DEF k
      <4> QED
        BY <3>1, LevelLength
    <3> HIDE DEF s, c
    <3> QED
      BY <3>2, <3>3, LenProperties
  <2> QED
    BY <2>1, <2>2 DEF Gains, Stands, Explains
<1>3. c[i] \in DOMAIN Open /\ Open[c[i]].left # Zero
  <2>1. ExecutionTree(id.execution.task, id.challengerRoot, id.depth)
    BY ChallengersTree
  <2> QED
    BY <1>1, <1>2, <2>1 DEF ExecutionTree
<1> QED
  BY <1>2, <1>3 DEF Opened

\* A recorded response does not change who is winning.
LEMMA ReceivedGains ==
    ASSUME NEW id, NEW d \in DisputeRecord, Gaining(d, id), NEW h
    PROVE  Gaining(Received(d, h, Open[h]), id)
<1> DEFINE r == Received(d, h, Open[h])
<1>1. /\ r.solverPath = d.solverPath
      /\ r.challengerPath = d.challengerPath
      /\ r.treeDepth = d.treeDepth
      /\ r.witness = d.witness
      /\ r.state = d.state \cup (IF h = d.solverPath THEN {"SOLVER_RESPONDED"} ELSE {})
                           \cup (IF h = d.challengerPath THEN {"CHALLENGER_RESPONDED"} ELSE {})
  BY DEF Received, DisputeRecord
<1> HIDE DEF r
<1>2. /\ "START_OF_EXECUTION" \in r.state <=> "START_OF_EXECUTION" \in d.state
      /\ "END_OF_EXECUTION" \in r.state <=> "END_OF_EXECUTION" \in d.state
  BY <1>1
<1>3. ASSUME NEW i, NEW p, NEW s, NEW c, NEW edge, Gains(i, p, d, s, c, edge, id)
      PROVE  Gains(i, p, r, s, c, edge, id)
  <2>1. Explains(i, r, s, c)
    BY <1>1, <1>2, <1>3 DEF Gains, Stands, Explains
  <2>2. Stands(i, p, r, s, c, edge)
    BY <1>2, <1>3, <2>1 DEF Gains, Stands
  <2>3. Contested(i, r, s, c, id)
    BY <1>2, <1>3 DEF Gains, Contested
  <2> QED
    BY <1>3, <2>2, <2>3 DEF Gains
<1> QED
  BY <1>1, <1>3 DEF Gaining, r

\* A move in a game that the challenger is winning leaves it so, or ends it without the
\* solver being verified.
LEMMA PlayAgainstLie ==
    ASSUME TypeOK, Accepted, Walk, NEW id \in DOMAIN disputes, NEW verdict \in Verdict,
           PlayWith(id, verdict), ChallengerHasTruth(id), ~Misleading(id),
           Winning(disputes[id], id),
           disputes[id].treeDepth > 0 /\ "CHALLENGER_RESPONDED" \notin disputes[id].state
               => now <= disputes[id].timeout
    PROVE  \E r : /\ disputes' = [disputes EXCEPT ![id] = r]
                  /\ "SOLVER_VERIFIED" \notin r.state
                  /\ r.state \cap VERIFIED = {} => Winning(r, id)
<1> DEFINE d == disputes[id]
           Goal == \E r : /\ disputes' = [disputes EXCEPT ![id] = r]
                          /\ "SOLVER_VERIFIED" \notin r.state
                          /\ r.state \cap VERIFIED = {} => Winning(r, id)
<1>1. /\ d \in DisputeRecord /\ id \in DisputeId /\ now \in Nat
      /\ VerifyResultProof(id.execution.root, id.depth)
  BY DEF TypeOK, EnforcerTypeOK, Accepted
<1>2. Unresolved(id) => OnPath(d, id)
  BY DEF Walk
<1>3. ASSUME NEW h, Respond(id, h, verdict) PROVE Goal
  <2> DEFINE r == Received(d, h, Open[h])
  <2>1. /\ h \in {d.solverPath, d.challengerPath} \cap DOMAIN Open
        /\ d.treeDepth > 0
        /\ now <= d.timeout
        /\ d.state \cap VERIFIED = {}
        /\ OnPath(d, id)
        /\ UpdateRound(id, r, verdict)
    BY <1>2, <1>3 DEF Respond, Playing, AboveLeaf, Unresolved
  <2>2. /\ r \in DisputeRecord /\ r.treeDepth > 0 /\ r.timeout = d.timeout
        /\ r.state \cap VERIFIED = {}
    BY <1>1, <2>1, ReceivedMove
  <2>3. OnPath(r, id)
    BY <1>1, <2>1, ReceivedOnPath
  <2>4. Gaining(r, id)
    BY <1>1, <2>1, ReceivedGains DEF Winning
  <2> HIDE DEF r, d
  <2>5. CASE ~(RESPONDED \subseteq r.state) /\ disputes' = [disputes EXCEPT ![id] = r]
    <3>1. "SOLVER_VERIFIED" \notin r.state
      BY <2>2 DEF VERIFIED
    <3>2. Winning(r, id)
      BY <2>2, <2>4, <2>5 DEF Winning
    <3> QED
      BY <2>5, <3>1, <3>2
  <2>6. CASE /\ RESPONDED \subseteq r.state
             /\ verdict = ZeroLeftVerdict(r) /\ verdict # "none"
             /\ disputes' = [disputes EXCEPT ![id] = Resolved(r, verdict)]
    <3>1. Opened(r.challenger, r.challengerPath) /\ r.treeDepth <= id.depth
      BY <2>3, <2>6 DEF OnPath, Answered, RESPONDED
    <3>2. r.challenger.left # Zero
      BY <1>1, <2>2, <2>4, <3>1, GainingHasLeftHalf
    <3>3. verdict = "challenger"
      BY <2>6, <3>2 DEF ZeroLeftVerdict
    <3>4. Resolved(r, verdict).state = r.state \cup {"CHALLENGER_VERIFIED"}
      BY <2>2, <3>3 DEF Resolved, DisputeRecord
    <3>5. /\ "SOLVER_VERIFIED" \notin Resolved(r, verdict).state
          /\ Resolved(r, verdict).state \cap VERIFIED # {}
      BY <2>2, <3>4 DEF VERIFIED
    <3> QED
      BY <2>6, <3>5
  <2>7. CASE /\ RESPONDED \subseteq r.state /\ WitnessOpened(r)
             /\ disputes' = [disputes EXCEPT ![id] = NextRound(r)]
    <3>1. Answered(r) /\ r.treeDepth <= id.depth
      BY <2>3 DEF OnPath
    <3>2. Winning(NextRound(r), id)
      BY <1>1, <2>2, <2>4, <2>7, <3>1, RoundWins
    <3>3. now <= r.timeout
      BY <2>1, <2>2
    <3>4. Move(r, NextRound(r), "none")
      BY <1>1, <2>2, <2>7, <3>3, NextRoundMove
    <3> QED
      BY <2>7, <3>2, <3>4 DEF Move
  <2> QED
    BY <2>1, <2>5, <2>6, <2>7 DEF UpdateRound
<1>4. ASSUME NEW input \in StateHash, NEW o \in Outcomes[id.execution.task][input],
             SubmitProof(id, input, o, verdict)
      PROVE  Goal
  <2> DEFINE r == [d EXCEPT !.state = @ \cup Proven(d, o)]
  <2>1. /\ d.treeDepth = 0
        /\ d.state \cap VERIFIED = {}
        /\ AcceptsInput(id, input)
        /\ "END_OF_EXECUTION" \in d.state => o.halts
        /\ OnPath(d, id)
        /\ disputes' = [disputes EXCEPT ![id] = r]
    BY <1>2, <1>4 DEF SubmitProof, Playing, Unresolved
  <2>2. ExecutionTree(id.execution.task, id.challengerRoot, id.depth)
    BY <1>1, ChallengersTree
  <2>3. input = d.challenger.left /\ o.next = d.challenger.right /\ ~o.full
    BY <1>1, <2>1, <2>2, TruthIsProven
  <2>4. d.solver.right # d.challenger.right
    BY <2>1, <2>3 DEF Winning, NoProofForSolver
  <2>5. Proven(d, o) = {"CHALLENGER_VERIFIED"}
    BY <2>3, <2>4 DEF Proven
  <2>6. r.state = d.state \cup {"CHALLENGER_VERIFIED"}
    BY <1>1, <2>5 DEF DisputeRecord
  <2> HIDE DEF r, d
  <2> QED
    BY <2>1, <2>6 DEF VERIFIED
<1>5. CASE ClaimTimeout(id, verdict)
  <2>1. /\ d.timeout < now /\ verdict = TimeoutWinner(d) /\ d.timeout \in Nat
        /\ d.treeDepth \in Nat
        /\ d.state \cap VERIFIED = {}
        /\ disputes' = [disputes EXCEPT ![id] = Resolved(d, verdict)]
    BY <1>1, <1>5 DEF ClaimTimeout, DisputeRecord, Unresolved
  <2>2. ASSUME d.treeDepth # 0
        PROVE  "CHALLENGER_RESPONDED" \in d.state /\ "SOLVER_RESPONDED" \notin d.state
    <3>1. "CHALLENGER_RESPONDED" \in d.state
      BY <1>1, <2>1, <2>2
    <3> QED
      BY <2>2, <3>1 DEF Winning, RESPONDED
  <2>3. ASSUME d.treeDepth = 0 PROVE "SOLVER_RESPONDED" \notin d.state
    BY <2>3 DEF Winning, RESPONDED
  <2>4. verdict = "challenger"
    BY <2>1, <2>2, <2>3 DEF TimeoutWinner
  <2>5. Resolved(d, verdict).state = d.state \cup {"CHALLENGER_VERIFIED"}
    BY <1>1, <2>4 DEF Resolved, DisputeRecord
  <2>6. /\ "SOLVER_VERIFIED" \notin Resolved(d, verdict).state
        /\ Resolved(d, verdict).state \cap VERIFIED # {}
    BY <2>1, <2>5 DEF VERIFIED
  <2> HIDE DEF d
  <2> QED
    BY <2>1, <2>6
<1> QED
  BY <1>3, <1>4, <1>5 DEF PlayWith

\* A verdict in a game that the challenger plays with the truth sets a flag: the
\* memory is not full after a true step.
LEMMA VerdictEnds ==
    ASSUME TypeOK, Walk, NEW id \in DOMAIN disputes, NEW verdict \in Verdict,
           PlayWith(id, verdict), verdict # "none", ChallengerHasTruth(id)
    PROVE  ~Unresolved(id)'
<1> DEFINE d == disputes[id]
<1>1. d \in DisputeRecord /\ id \in DisputeId
  BY DEF TypeOK
<1>2. Unresolved(id) => OnPath(d, id)
  BY DEF Walk
<1>3. ASSUME NEW r, disputes' = [disputes EXCEPT ![id] = r], r.state \cap VERIFIED # {}
      PROVE  ~Unresolved(id)'
  BY <1>3 DEF Unresolved, Exists
<1>4. ASSUME NEW h, Respond(id, h, verdict) PROVE ~Unresolved(id)'
  <2> DEFINE r == Received(d, h, Open[h])
  <2>1. /\ h \in DOMAIN Open /\ d.state \cap VERIFIED = {}
        /\ UpdateRound(id, r, verdict)
    BY <1>4 DEF Respond, Playing, Unresolved
  <2>2. r \in DisputeRecord
    BY <1>1, <2>1, ReceivedMove
  <2> HIDE DEF r, d
  <2>3. disputes' = [disputes EXCEPT ![id] = Resolved(r, verdict)]
    BY <2>1 DEF UpdateRound
  <2> QED
    BY <1>3, <2>2, <2>3, ResolvedIsOver
<1>5. ASSUME NEW input \in StateHash, NEW o \in Outcomes[id.execution.task][input],
             SubmitProof(id, input, o, verdict)
      PROVE  ~Unresolved(id)'
  <2> DEFINE r == [d EXCEPT !.state = @ \cup Proven(d, o)]
  <2>1. /\ d.treeDepth = 0
        /\ AcceptsInput(id, input)
        /\ OnPath(d, id)
        /\ disputes' = [disputes EXCEPT ![id] = r]
    BY <1>2, <1>5 DEF SubmitProof, Playing
  <2>2. ExecutionTree(id.execution.task, id.challengerRoot, id.depth)
    BY <1>1, ChallengersTree
  <2>3. o.next = d.challenger.right
    BY <1>1, <2>1, <2>2, TruthIsProven
  <2>4. "CHALLENGER_VERIFIED" \in Proven(d, o)
    BY <2>3 DEF Proven
  <2>5. r.state = d.state \cup Proven(d, o)
    BY <1>1 DEF DisputeRecord
  <2>6. r.state \cap VERIFIED # {}
    BY <2>4, <2>5 DEF VERIFIED
  <2> HIDE DEF r, d
  <2> QED
    BY <1>3, <2>1, <2>6
<1>6. CASE ClaimTimeout(id, verdict)
  <2>1. disputes' = [disputes EXCEPT ![id] = Resolved(d, verdict)]
    BY <1>6 DEF ClaimTimeout
  <2> HIDE DEF d
  <2> QED
    BY <1>1, <1>3, <2>1, ResolvedIsOver
<1> QED
  BY <1>4, <1>5, <1>6 DEF PlayWith

\* Below a zero root there are only zeros.
LEMMA ZeroTree ==
    ASSUME NEW k \in Nat
    PROVE  1 \in DOMAIN Levels(Zero)[k] /\ Levels(Zero)[k][1] = Zero
<1> DEFINE L(m) == Levels(Zero)[m]
           S == {m \in Nat : 1 \in DOMAIN L(m) /\ L(m)[1] = Zero}
<1>1. Zero \in Hash /\ Zero \notin DOMAIN Open
  BY HashAssumption
<1>2. 0 \in S
  <2>1. Levels(Zero)[0] = <<Zero>>
    BY <1>1, LevelShape
  <2> QED
    BY <2>1
<1>3. ASSUME NEW m \in Nat, m \in S PROVE m + 1 \in S
  <2>1. L(m) \in Seq(Hash) /\ L(m + 1) = LevelBelow(L(m))
    BY <1>1, LevelShape
  <2> DEFINE above == L(m)
             below == L(m + 1)
  <2>2. 1 \in 1 .. Len(above) /\ Len(above) \in Nat
    BY <1>3, <2>1, LenProperties
  <2>3. LevelBelow(above)[2 * 1 - 1] = Halves(above[1]).left
    BY <2>1, <2>2, LevelBelowShape
  <2>4. below \in Seq(Hash) /\ Len(below) = 2 * Len(above)
    BY <2>1, LevelBelowShape
  <2>5. DOMAIN below = 1 .. 2 * Len(above)
    BY <2>4, LenProperties
  <2>6. above[1] = Zero
    BY <1>3
  <2>7. Halves(Zero).left = Zero
    BY <1>1 DEF Halves
  <2> QED
    BY <2>1, <2>2, <2>3, <2>5, <2>6, <2>7
<1> HIDE DEF S
<1>4. Nat \subseteq S
  BY <1>2, <1>3, NatSetInduction
<1> QED
  BY <1>4 DEF S

\* The game the challenger has to win.
Lie(id) == ChallengerHasTruth(id) /\ ~SolverHasTruth(id)

\* A new dispute with the true root is one the challenger is winning.
LEMMA FirstRound ==
    ASSUME TypeOK, Accepted, NEW a \in Account, NEW execution \in DOMAIN executions,
           NEW root \in ChallengerRoot, Dispute(a, execution, root)
    PROVE  LET id == DisputeOf(execution, root)
           IN  \E r : /\ id \in DisputeId
                      /\ id \notin DOMAIN disputes
                      /\ disputes' = Put(disputes, id, r)
                      /\ UNCHANGED executions
                      /\ r.timeout = now + timeoutDuration
                      /\ r.treeDepth = id.depth
                      /\ "SOLVER_VERIFIED" \notin r.state
                      /\ Lie(id) => Winning(r, id)
<1> DEFINE id == DisputeOf(execution, root)
           r == [challengerAddr |-> a,
                 solverPath |-> id.execution.root,
                 challengerPath |-> id.challengerRoot,
                 treeDepth |-> id.depth,
                 witness |-> Zero,
                 solver |-> [left |-> id.execution.root, right |-> id.execution.root],
                 challenger |-> [left |-> id.challengerRoot, right |-> id.challengerRoot],
                 state |-> INITIAL_STATE,
                 timeout |-> getTimeout]
           Goal == \E q : /\ id \in DisputeId
                          /\ id \notin DOMAIN disputes
                          /\ disputes' = Put(disputes, id, q)
                          /\ UNCHANGED executions
                          /\ q.timeout = now + timeoutDuration
                          /\ q.treeDepth = id.depth
                          /\ "SOLVER_VERIFIED" \notin q.state
                          /\ Lie(id) => Winning(q, id)
<1> SUFFICES Goal
  OBVIOUS
<1>1. id \notin DOMAIN disputes /\ disputes' = Put(disputes, id, r)
  BY DEF Dispute, InitGame, Exists
<1>2. /\ id.execution = execution /\ id.challengerRoot = root
      /\ id.execution.root \in Hash /\ root \in Hash
      /\ id.depth \in 1 .. maxExecutionDepth /\ id.depth \in Nat \ {0}
      /\ id \in DisputeId
  <2>1. execution \in ExecutionId /\ executions[execution] \in ExecutionResult
    BY DEF TypeOK, EnforcerTypeOK
  <2>2. executions[execution].executionDepth \in 1 .. maxExecutionDepth
    BY <2>1 DEF ExecutionResult
  <2> QED
    BY <2>1, <2>2, HashAssumption, ParameterAssumption DEF DisputeOf, ExecutionId, DisputeId
<1>3. UNCHANGED executions
  BY DEF Dispute, ChargeChallenger
<1> HIDE DEF id
<1>4. /\ r.solverPath = id.execution.root /\ r.challengerPath = root
      /\ r.treeDepth = id.depth /\ r.witness = Zero /\ r.state = INITIAL_STATE
      /\ r.timeout = now + timeoutDuration
  BY <1>2 DEF getTimeout
<1> HIDE DEF r
<1>5. /\ "SOLVER_VERIFIED" \notin r.state /\ ~(RESPONDED \subseteq r.state)
      /\ "START_OF_EXECUTION" \in r.state /\ "END_OF_EXECUTION" \in r.state
  BY <1>4 DEF INITIAL_STATE, RESPONDED
<1>6. ASSUME Lie(id) PROVE Winning(r, id)
  <2> DEFINE s == <<id.execution.root>>
             c == <<root>>
  <2>1. /\ Levels(id.execution.root)[0] = s
        /\ Levels(id.challengerRoot)[0] = c
        /\ RightEdge[0][id.execution.root] = id.execution.root
    <3>1. Levels(id.execution.root)[0] = s /\ Levels(root)[0] = c
      BY <1>2, LevelShape
    <3>2. RightEdge[0][id.execution.root] = id.execution.root
      BY <1>2, RightEdgeDown
    <3> QED
      BY <1>2, <3>1, <3>2
  <2>2. root # Zero
    <3>1. ExecutionTree(id.execution.task, root, id.depth)
      BY <1>2, <1>6, ChallengersTree DEF Lie
    <3>2. Levels(root)[id.depth][1] = InitialState[id.execution.task]
      BY <3>1 DEF ExecutionTree
    <3>3. InitialState[id.execution.task] # Zero
      BY <1>2, StepAssumption, HashAssumption DEF DisputeId, ExecutionId
    <3> QED
      BY <1>2, <3>2, <3>3, ZeroTree
  <2>3. 1 \in DOMAIN s /\ s[1] = id.execution.root /\ c[1] = root /\ DOMAIN s = 1 .. 1
    OBVIOUS
  <2>4. Contested(1, r, s, c, id)
    <3>1. CASE id.execution.root = root
      <4>1. id.depth < TrueDepth[id.execution.task]
        <5>1. TrueDepth[id.execution.task] \in Nat
          BY <1>2, TrueTreeAssumption DEF DisputeId, ExecutionId
        <5>2. id.execution.root = TrueRoot[id.execution.task][id.depth]
          BY <1>2, <1>6, <3>1 DEF Lie, ChallengerHasTruth
        <5>3. ~(id.depth >= TrueDepth[id.execution.task])
          BY <1>6, <5>2 DEF Lie, SolverHasTruth
        <5> QED
          BY <1>2, <5>1, <5>3
      <4> QED
        BY <1>5, <4>1 DEF Contested, GoesOn
    <3>2. CASE id.execution.root # root
      BY <2>3, <3>2 DEF Contested
    <3> QED
      BY <3>1, <3>2
  <2> HIDE DEF s, c
  <2>5. Stands(1, 1, r, s, c, id.execution.root)
    <3>1. Explains(1, r, s, c)
      BY <1>4, <1>5, <2>3 DEF Explains
    <3>2. EdgeAt(1, s, id.execution.root)
      BY <2>3 DEF EdgeAt
    <3> QED
      BY <1>5, <3>1, <3>2 DEF Stands
  <2>6. Gains(1, 1, r, s, c, id.execution.root, id)
    BY <2>2, <2>3, <2>4, <2>5 DEF Gains, SameBefore
  <2>7. id.depth - r.treeDepth = 0 /\ r.treeDepth # 0
    BY <1>2, <1>4
  <2>8. Gaining(r, id)
    BY <2>1, <2>3, <2>6, <2>7 DEF Gaining
  <2> QED
    BY <1>5, <2>7, <2>8 DEF Winning
<1> QED
  BY <1>1, <1>2, <1>3, <1>4, <1>5, <1>6

-----------------------------------------------------------------------------
(***************************************************************************)
(* Play in which every game has an honest side and honest parties are not  *)
(* late; any number of executions is registered, of any number of tasks.   *)
(***************************************************************************)
HonestGamesNext == Next /\ (now' # now => Punctual) /\ HonestGames'

HonestGamesSpec == Init /\ [][HonestGamesNext]_vars

\* The execution in dispute is registered, and the dispute is about all of its tree: what
\* deletes it ends the only game about it.
StandingGames ==
    \A id \in DOMAIN disputes : Unresolved(id) =>
        Registered(id.execution) /\ executions[id.execution].executionDepth = id.depth

\* The challenger with the truth is winning, and the solver is never verified.
LiesLose ==
    \A id \in DOMAIN disputes : Lie(id) /\ ~Misleading(id) =>
        /\ "SOLVER_VERIFIED" \notin disputes[id].state
        /\ Unresolved(id) => Winning(disputes[id], id)

\* A challenger with the truth who has to answer is not late.
ChallengerPatient ==
    \A id \in DOMAIN disputes :
        /\ Lie(id) /\ Unresolved(id)
        /\ disputes[id].treeDepth > 0 /\ "CHALLENGER_RESPONDED" \notin disputes[id].state
        => now <= disputes[id].timeout

ChallengeEnd(e) == executions[e].startTime + challengePeriod

\* His game can still be timed out when all its rounds have been.
InTime ==
    \A id \in DOMAIN disputes : Lie(id) /\ Unresolved(id) =>
        LatestEnd(id) + 1 < ChallengeEnd(id.execution) /\ now < ChallengeEnd(id.execution)

\* Where he has no dispute yet, there is time for one.
RoomToDispute ==
    \A e \in DOMAIN executions : ChallengerMustDispute(e) =>
        ChallengeEnd(e) > now + 1 + (executions[e].executionDepth + 1) * timeoutDuration

HonestInv ==
    /\ StandingGames
    /\ HonestGames
    /\ Patient
    /\ LiesLose
    /\ ChallengerPatient
    /\ InTime
    /\ RoomToDispute

\* In a game about all of a standing registration, whether a side has the truth says
\* whether the registration is true, and whether the dispute is the one with the true root.
LEMMA TruthInPlay ==
    ASSUME TypeOK, StandingGames, NEW id \in DOMAIN disputes, Unresolved(id)
    PROVE  /\ Registered(id.execution)
           /\ SolverHasTruth(id) <=> Truthful(id.execution)
           /\ ChallengerHasTruth(id) <=> id = TrueDispute(id.execution)
<1>1. /\ Registered(id.execution) /\ executions[id.execution].executionDepth = id.depth
      /\ id \in DisputeId
  BY DEF StandingGames, TypeOK
<1>2. SolverHasTruth(id) <=> Truthful(id.execution)
  BY <1>1 DEF SolverHasTruth, Truthful, TrueRootFor
<1>3. id = [execution |-> id.execution, challengerRoot |-> id.challengerRoot, depth |-> id.depth]
  BY <1>1 DEF DisputeId
<1>4. TrueDispute(id.execution) =
          [execution |-> id.execution, challengerRoot |-> TrueRoot[id.execution.task][id.depth],
           depth |-> id.depth]
  BY <1>1 DEF TrueDispute, DisputeOf, TrueRootFor
<1>5. ChallengerHasTruth(id) => id = TrueDispute(id.execution)
  BY <1>3, <1>4 DEF ChallengerHasTruth
<1>6. id = TrueDispute(id.execution) => ChallengerHasTruth(id)
  <2>1. TrueDispute(id.execution).challengerRoot = TrueRoot[id.execution.task][id.depth]
    BY <1>4
  <2> QED
    BY <2>1 DEF ChallengerHasTruth
<1> QED
  BY <1>1, <1>2, <1>5, <1>6

\* The dispute of a standing registration with the true root is a lie iff the registration is.
LEMMA TrueDisputeIsLie ==
    ASSUME TypeOK, NEW e \in DOMAIN executions
    PROVE  /\ ChallengerHasTruth(TrueDispute(e))
           /\ Lie(TrueDispute(e)) <=> ~Truthful(e)
BY DEF TrueDispute, DisputeOf, TrueRootFor, ChallengerHasTruth, Lie, SolverHasTruth, Truthful

\* A move deletes at most the execution of its own game, no other game is about it, and
\* this one is over.
LEMMA PlayDeletes ==
    ASSUME TypeOK, Accepted, Walk, Patient, StandingGames, HonestGames,
           NEW other \in DOMAIN disputes, Play(other)
    PROVE  \E r \in DisputeRecord, verdict \in Verdict :
               /\ PlayWith(other, verdict) /\ Played(other, r, verdict)
               /\ \A e \in DOMAIN executions' :
                      e \in DOMAIN executions /\ executions'[e] = executions[e]
               /\ \A id \in DOMAIN disputes : Unresolved(id)' =>
                      Unresolved(id) /\ id.execution \in DOMAIN executions'
<1>1. PICK r \in DisputeRecord, verdict \in Verdict :
          PlayWith(other, verdict) /\ Played(other, r, verdict)
  BY PlayStep
<1>2. /\ Unresolved(other)
      /\ disputes' = [disputes EXCEPT ![other] = r]
      /\ Notify(other, verdict)
      /\ \/ UNCHANGED executions
         \/ /\ verdict = "challenger" \/ verdict \notin Verdict
            /\ executions' = Delete(executions, other.execution)
  BY <1>1, NotifyDeletes DEF Played
<1>3. \A e \in DOMAIN executions' : e \in DOMAIN executions /\ executions'[e] = executions[e]
  BY <1>2 DEF Delete
<1>4. ASSUME NEW id \in DOMAIN disputes, Unresolved(id)'
      PROVE  Unresolved(id) /\ id.execution \in DOMAIN executions'
  <2>1. Unresolved(id)
    <3>1. CASE id = other
      BY <1>2, <3>1
    <3>2. CASE id # other
      BY <1>2, <1>4, <3>2 DEF Unresolved, Exists
    <3> QED
      BY <3>1, <3>2
  <2>2. Registered(id.execution)
    BY <2>1 DEF StandingGames
  <2>3. CASE UNCHANGED executions
    BY <2>1, <2>2, <2>3 DEF Registered
  <2>4. CASE /\ verdict = "challenger"
             /\ executions' = Delete(executions, other.execution)
             /\ id.execution = other.execution
    <3>1. ~Truthful(other.execution)
      <4>1. other.execution \notin DOMAIN executions'
        BY <2>4 DEF Delete
      <4>2. Registered(other.execution)
        BY <2>2, <2>4
      <4>3. ~UNCHANGED executions
        BY <4>1, <4>2 DEF Registered
      <4>4. NoOldGames
        BY DEF StandingGames, NoOldGames
      <4> QED
        BY <4>2, <4>3, <4>4, PlayAgainstTruth
    <3>2. ChallengerHasTruth(other) /\ ChallengerHasTruth(id)
      <4>1. ~SolverHasTruth(other) /\ ~SolverHasTruth(id)
        BY <1>2, <2>1, <2>4, <3>1, TruthInPlay
      <4> QED
        BY <4>1 DEF HonestGames
    <3>3. id = other
      <4>1. id = TrueDispute(id.execution) /\ other = TrueDispute(other.execution)
        BY <1>2, <2>1, <3>2, TruthInPlay
      <4> QED
        BY <2>4, <4>1
    <3>4. ~Unresolved(other)'
      BY <1>1, <2>4, <3>2, VerdictEnds
    <3> QED
      BY <1>4, <3>3, <3>4
  <2>5. CASE executions' = Delete(executions, other.execution) /\ id.execution # other.execution
    BY <2>1, <2>2, <2>5 DEF Delete, Registered
  <2> QED
    BY <1>2, <2>3, <2>4, <2>5
<1> QED
  BY <1>1, <1>3, <1>4

\* A game that still goes on after a move went on before, about a registration that stands.
LEMMA PlayKeepsHonest ==
    ASSUME TypeOK, TypeOK', Accepted, Walk, HonestInv,
           NEW other \in DOMAIN disputes, Play(other), UNCHANGED now
    PROVE  StandingGames' /\ LiesLose' /\ ChallengerPatient' /\ InTime' /\ RoomToDispute'
<1>1. PICK r \in DisputeRecord, verdict \in Verdict :
          /\ PlayWith(other, verdict) /\ Played(other, r, verdict)
          /\ \A e \in DOMAIN executions' :
                 e \in DOMAIN executions /\ executions'[e] = executions[e]
          /\ \A id \in DOMAIN disputes : Unresolved(id)' =>
                 Unresolved(id) /\ id.execution \in DOMAIN executions'
  BY PlayDeletes DEF HonestInv
<1>2. /\ Unresolved(other)
      /\ disputes' = [disputes EXCEPT ![other] = r]
      /\ Move(disputes[other], r, verdict)
  BY <1>1 DEF Played
<1>3. /\ DOMAIN disputes' = DOMAIN disputes
      /\ disputes'[other] = r
      /\ \A x \in DOMAIN disputes : x # other => disputes'[x] = disputes[x]
  BY <1>2
<1>4. ASSUME NEW id \in DOMAIN disputes', Unresolved(id)'
      PROVE  /\ id \in DOMAIN disputes /\ Unresolved(id)
             /\ Registered(id.execution)' /\ executions'[id.execution] = executions[id.execution]
             /\ executions'[id.execution].executionDepth = id.depth
             /\ ChallengeEnd(id.execution)' = ChallengeEnd(id.execution)
  <2>1. id \in DOMAIN disputes /\ Unresolved(id) /\ id.execution \in DOMAIN executions'
    BY <1>1, <1>3, <1>4
  <2>2. executions[id.execution].executionDepth = id.depth
    BY <2>1 DEF HonestInv, StandingGames
  <2> QED
    BY <1>1, <2>1, <2>2 DEF Registered, ChallengeEnd
<1>5. StandingGames'
  BY <1>4 DEF StandingGames
<1>6. LiesLose'
  <2>1. ASSUME NEW id \in DOMAIN disputes, Lie(id), ~Misleading(id)
        PROVE  /\ "SOLVER_VERIFIED" \notin disputes'[id].state
               /\ Unresolved(id)' => Winning(disputes'[id], id)
    <3>1. /\ "SOLVER_VERIFIED" \notin disputes[id].state
          /\ Unresolved(id) => Winning(disputes[id], id)
      BY <2>1 DEF HonestInv, LiesLose
    <3>2. CASE id # other
      BY <1>3, <3>1, <3>2 DEF Unresolved, Exists
    <3>3. CASE id = other
      <4>1. disputes[other].treeDepth > 0
                /\ "CHALLENGER_RESPONDED" \notin disputes[other].state
            => now <= disputes[other].timeout
        BY <1>2, <2>1, <3>3 DEF HonestInv, ChallengerPatient
      <4>2. ChallengerHasTruth(other) /\ ~Misleading(other) /\ Winning(disputes[other], other)
        BY <1>2, <2>1, <3>1, <3>3 DEF Lie
      <4>3. PICK q : /\ disputes' = [disputes EXCEPT ![other] = q]
                     /\ "SOLVER_VERIFIED" \notin q.state
                     /\ q.state \cap VERIFIED = {} => Winning(q, other)
        BY <1>1, <4>1, <4>2, PlayAgainstLie
      <4>4. disputes'[other] = q
        BY <4>3
      <4> QED
        BY <3>3, <4>3, <4>4 DEF Unresolved, Exists
    <3> QED
      BY <3>2, <3>3
  <2> QED
    BY <1>3, <2>1 DEF LiesLose, Lie, ChallengerHasTruth, SolverHasTruth
<1>7. ChallengerPatient'
  <2>1. ASSUME NEW id \in DOMAIN disputes', Lie(id), Unresolved(id)',
               disputes'[id].treeDepth > 0, "CHALLENGER_RESPONDED" \notin disputes'[id].state
        PROVE  now <= disputes'[id].timeout
    <3>1. id \in DOMAIN disputes /\ Unresolved(id)
      BY <1>4, <2>1
    <3>2. CASE disputes'[id].timeout = now + timeoutDuration
      BY <3>2, ParameterAssumption DEF TypeOK, EnforcerTypeOK
    <3>3. CASE /\ disputes'[id].treeDepth = disputes[id].treeDepth
               /\ disputes'[id].timeout = disputes[id].timeout
               /\ disputes[id].state \subseteq disputes'[id].state
      BY <2>1, <3>1, <3>3 DEF HonestInv, ChallengerPatient
    <3>4. disputes'[id].state \cap VERIFIED = {}
      BY <2>1 DEF Unresolved
    <3>5. CASE id = other
      BY <1>2, <1>3, <3>2, <3>3, <3>4, <3>5 DEF Move
    <3>6. CASE id # other
      BY <1>3, <3>1, <3>3, <3>6
    <3> QED
      BY <3>5, <3>6
  <2> QED
    BY <2>1 DEF ChallengerPatient, Lie, ChallengerHasTruth, SolverHasTruth
<1>8. InTime'
  <2>1. ASSUME NEW id \in DOMAIN disputes', Lie(id), Unresolved(id)'
        PROVE  /\ LatestEnd(id)' + 1 < ChallengeEnd(id.execution)
               /\ now < ChallengeEnd(id.execution)
               /\ ChallengeEnd(id.execution)' = ChallengeEnd(id.execution)
    <3>1. /\ id \in DOMAIN disputes /\ Unresolved(id)
          /\ ChallengeEnd(id.execution)' = ChallengeEnd(id.execution)
      BY <1>4, <2>1
    <3>2. LatestEnd(id) + 1 < ChallengeEnd(id.execution) /\ now < ChallengeEnd(id.execution)
      BY <2>1, <3>1 DEF HonestInv, InTime
    <3>3. LatestEnd(id)' <= LatestEnd(id)
      <4>1. LatestEnd(id)' = disputes'[id].timeout + disputes'[id].treeDepth * timeoutDuration
        BY DEF LatestEnd
      <4>2. CASE id = other
        <5>1. r.state \cap VERIFIED = {}
          BY <1>3, <2>1, <4>2 DEF Unresolved
        <5> QED
          BY <1>2, <1>3, <4>1, <4>2, <5>1, MoveEndsNoLater
      <4>3. CASE id # other
        <5>1. LatestEnd(id)' = LatestEnd(id)
          BY <1>3, <3>1, <4>1, <4>3 DEF LatestEnd
        <5>2. LatestEnd(id) \in Int
          BY <3>1, ParameterAssumption DEF LatestEnd, TypeOK, DisputeRecord
        <5> QED
          BY <5>1, <5>2
      <4> QED
        BY <4>2, <4>3
    <3>4. LatestEnd(id) \in Int /\ LatestEnd(id)' \in Int /\ ChallengeEnd(id.execution) \in Int
      <4>1. LatestEnd(id) \in Int
        BY <3>1, ParameterAssumption DEF LatestEnd, TypeOK, DisputeRecord
      <4>2. LatestEnd(id)' \in Int
        BY <2>1, ParameterAssumption DEF LatestEnd, TypeOK, DisputeRecord
      <4>3. id.execution \in DOMAIN executions
        BY <3>1 DEF HonestInv, StandingGames, Registered
      <4>4. ChallengeEnd(id.execution) \in Int
        BY <4>3, ParameterAssumption DEF ChallengeEnd, TypeOK, EnforcerTypeOK, ExecutionResult
      <4> QED
        BY <4>1, <4>2, <4>4
    <3> QED
      BY <3>1, <3>2, <3>3, <3>4
  <2> QED
    BY <2>1 DEF InTime, Lie, ChallengerHasTruth, SolverHasTruth
<1>9. RoomToDispute'
  <2>1. ASSUME NEW e \in DOMAIN executions', ChallengerMustDispute(e)'
        PROVE  ChallengerMustDispute(e) /\ executions'[e] = executions[e] /\ e \in DOMAIN executions
    BY <1>1, <1>3, <2>1
       DEF ChallengerMustDispute, Truthful, TrueRootFor, TrueDispute, DisputeOf, Exists
  <2> QED
    BY <2>1 DEF HonestInv, RoomToDispute, ChallengeEnd
<1> QED
  BY <1>5, <1>6, <1>7, <1>8, <1>9

\* A new dispute is about a standing registration; one with the true root is in time.
LEMMA DisputeKeepsHonest ==
    ASSUME TypeOK, Accepted, HonestInv, NEW a \in Account, NEW execution \in DOMAIN executions,
           NEW root \in ChallengerRoot, Dispute(a, execution, root), UNCHANGED now
    PROVE  StandingGames' /\ LiesLose' /\ ChallengerPatient' /\ InTime' /\ RoomToDispute'
<1> DEFINE new == DisputeOf(execution, root)
<1>1. PICK r : /\ new \in DisputeId
               /\ new \notin DOMAIN disputes
               /\ disputes' = Put(disputes, new, r)
               /\ UNCHANGED executions
               /\ r.timeout = now + timeoutDuration
               /\ r.treeDepth = new.depth
               /\ "SOLVER_VERIFIED" \notin r.state
               /\ Lie(new) => Winning(r, new)
  BY FirstRound
<1>2. new.execution = execution /\ new.depth = executions[execution].executionDepth
  BY DEF DisputeOf
<1>3. Lie(new) => ChallengerMustDispute(execution)
  <2>1. ASSUME Lie(new) PROVE root = TrueRootFor(execution) /\ ~Truthful(execution)
    BY <1>2, <2>1 DEF DisputeOf, Lie, ChallengerHasTruth, SolverHasTruth, TrueRootFor, Truthful
  <2>2. ASSUME Lie(new) PROVE new = TrueDispute(execution)
    BY <2>1, <2>2 DEF TrueDispute
  <2> QED
    BY <1>1, <2>1, <2>2 DEF ChallengerMustDispute, Exists
<1> HIDE DEF new
<1>4. /\ DOMAIN disputes' = DOMAIN disputes \cup {new}
      /\ disputes'[new] = r
      /\ \A x \in DOMAIN disputes : x # new /\ disputes'[x] = disputes[x]
  BY <1>1 DEF Put
<1>5. ASSUME NEW id \in DOMAIN disputes', Unresolved(id)', id # new
      PROVE  id \in DOMAIN disputes /\ Unresolved(id) /\ disputes'[id] = disputes[id]
  BY <1>4, <1>5 DEF Unresolved, Exists
<1>6. \A e : ChallengeEnd(e)' = ChallengeEnd(e)
  BY <1>1 DEF ChallengeEnd
<1>7. StandingGames'
  <2>1. ASSUME NEW id \in DOMAIN disputes', Unresolved(id)'
        PROVE  /\ id.execution \in DOMAIN executions
               /\ executions[id.execution].executionDepth = id.depth
    BY <1>2, <1>5, <2>1 DEF HonestInv, StandingGames, Registered
  <2> QED
    BY <1>1, <2>1 DEF StandingGames, Registered
<1>8. LiesLose'
  <2>1. ASSUME NEW id \in DOMAIN disputes', Lie(id), ~Misleading(id)
        PROVE  /\ "SOLVER_VERIFIED" \notin disputes'[id].state
               /\ Unresolved(id)' => Winning(disputes'[id], id)
    <3>1. CASE id = new
      BY <1>1, <1>4, <2>1, <3>1
    <3>2. CASE id # new
      BY <1>4, <1>5, <2>1, <3>2 DEF HonestInv, LiesLose
    <3> QED
      BY <3>1, <3>2
  <2> QED
    BY <2>1 DEF LiesLose, Lie, ChallengerHasTruth, SolverHasTruth
<1>9. now \in Nat /\ timeoutDuration \in Nat
  BY ParameterAssumption DEF TypeOK, EnforcerTypeOK
<1>10. ChallengerPatient'
  <2>1. ASSUME NEW id \in DOMAIN disputes', Lie(id), Unresolved(id)',
               disputes'[id].treeDepth > 0, "CHALLENGER_RESPONDED" \notin disputes'[id].state
        PROVE  now <= disputes'[id].timeout
    <3>1. CASE id = new
      BY <1>1, <1>4, <1>9, <3>1
    <3>2. CASE id # new
      BY <1>5, <2>1, <3>2 DEF HonestInv, ChallengerPatient
    <3> QED
      BY <3>1, <3>2
  <2> QED
    BY <2>1 DEF ChallengerPatient, Lie, ChallengerHasTruth, SolverHasTruth
<1>11. InTime'
  <2>1. ASSUME NEW id \in DOMAIN disputes', Lie(id), Unresolved(id)'
        PROVE  /\ LatestEnd(id)' + 1 < ChallengeEnd(id.execution)
               /\ now < ChallengeEnd(id.execution)
    <3>1. LatestEnd(id)' = disputes'[id].timeout + disputes'[id].treeDepth * timeoutDuration
      BY DEF LatestEnd
    <3>2. CASE id = new
      <4>1. ChallengeEnd(execution) > now + 1 + (new.depth + 1) * timeoutDuration
        BY <1>2, <1>3, <2>1, <3>2 DEF HonestInv, RoomToDispute
      <4>2. /\ LatestEnd(id)' = now + timeoutDuration + new.depth * timeoutDuration
            /\ new.depth \in Nat
        BY <1>1, <1>4, <3>1, <3>2, ParameterAssumption DEF DisputeId
      <4>3. (new.depth + 1) * timeoutDuration = new.depth * timeoutDuration + timeoutDuration
            /\ new.depth * timeoutDuration \in Nat
        BY <1>9, <4>2
      <4>4. ChallengeEnd(execution) \in Int
        BY ParameterAssumption DEF ChallengeEnd, TypeOK, EnforcerTypeOK, ExecutionResult
      <4>5. id.execution = execution
        BY <1>2, <3>2
      <4> HIDE DEF LatestEnd, ChallengeEnd
      <4> DEFINE rounds == new.depth * timeoutDuration
                 end == ChallengeEnd(execution)
      <4>6. /\ end > now + 1 + (rounds + timeoutDuration) /\ rounds \in Nat /\ end \in Int
            /\ LatestEnd(id)' = now + timeoutDuration + rounds
        BY <4>1, <4>2, <4>3, <4>4
      <4> HIDE DEF rounds, end
      <4>7. now + timeoutDuration + rounds + 1 < end /\ now < end
        BY <1>9, <4>6
      <4> QED
        BY <4>5, <4>6, <4>7 DEF end
    <3>3. CASE id # new
      <4>1. LatestEnd(id)' = LatestEnd(id)
        BY <1>5, <2>1, <3>1, <3>3 DEF LatestEnd
      <4> QED
        BY <1>5, <2>1, <3>3, <4>1 DEF HonestInv, InTime
    <3> QED
      BY <3>2, <3>3
  <2> QED
    BY <1>6, <2>1 DEF InTime, Lie, ChallengerHasTruth, SolverHasTruth
<1>12. RoomToDispute'
  <2>1. ASSUME NEW e \in DOMAIN executions, ChallengerMustDispute(e)'
        PROVE  ChallengerMustDispute(e)
    BY <1>1, <1>4, <2>1
       DEF ChallengerMustDispute, Truthful, TrueRootFor, TrueDispute, DisputeOf, Exists
  <2> QED
    BY <1>1, <1>6, <2>1 DEF HonestInv, RoomToDispute
<1> QED
  BY <1>7, <1>8, <1>10, <1>11, <1>12

\* The games of the deepest tree take longest.
LEMMA RoomForAll ==
    ASSUME NEW depth \in 1 .. maxExecutionDepth
    PROVE  challengePeriod > 1 + (depth + 1) * timeoutDuration
<1>1. /\ depth \in Nat /\ maxExecutionDepth \in Nat /\ timeoutDuration \in Nat
      /\ depth <= maxExecutionDepth /\ challengePeriod \in Nat
      /\ challengePeriod > 1 + (maxExecutionDepth + 1) * timeoutDuration
  BY ParameterAssumption, PeriodAssumption
<1> DEFINE more == maxExecutionDepth - depth
<1>2. more \in Nat /\ maxExecutionDepth + 1 = (depth + 1) + more
  BY <1>1
<1> HIDE DEF more
<1>3. (maxExecutionDepth + 1) * timeoutDuration
          = (depth + 1) * timeoutDuration + more * timeoutDuration
  BY <1>1, <1>2
<1>4. more * timeoutDuration \in Nat /\ (depth + 1) * timeoutDuration \in Nat
  BY <1>1, <1>2
<1> QED
  BY <1>1, <1>3, <1>4

\* A new registration is not in dispute, and there is time for it.
LEMMA RegisterKeepsHonest ==
    ASSUME TypeOK, TypeOK', HonestInv, NEW a \in Account, NEW new \in ExecutionId,
           NEW depth \in ProofDepth, Register(a, new, depth), UNCHANGED <<now, disputes>>
    PROVE  StandingGames' /\ LiesLose' /\ ChallengerPatient' /\ InTime' /\ RoomToDispute'
<1> DEFINE entry == [startTime |-> now, executionDepth |-> depth, solver |-> a]
<1>1. /\ executions' = Put(executions, new, entry)
      /\ ~Registered(new)
      /\ entry.startTime = now /\ entry.executionDepth = depth
  BY DEF Register
<1> HIDE DEF entry
<1>2. /\ DOMAIN executions' = DOMAIN executions \cup {new}
      /\ executions'[new] = entry
      /\ \A e \in DOMAIN executions : e # new /\ executions'[e] = executions[e]
  BY <1>1 DEF Put, Registered
<1>3. \A e \in DOMAIN executions : ChallengeEnd(e)' = ChallengeEnd(e)
  BY <1>2 DEF ChallengeEnd
<1>4. \A id \in DOMAIN disputes : /\ Unresolved(id)' <=> Unresolved(id)
                                  /\ Unresolved(id) => id.execution \in DOMAIN executions
  BY DEF HonestInv, StandingGames, Registered, Unresolved, Exists
<1>5. StandingGames'
  BY <1>2, <1>4 DEF HonestInv, StandingGames, Registered
<1>6. LiesLose'
  BY <1>4 DEF HonestInv, LiesLose, Lie, ChallengerHasTruth, SolverHasTruth
<1>7. ChallengerPatient'
  BY <1>4 DEF HonestInv, ChallengerPatient, Lie, ChallengerHasTruth, SolverHasTruth
<1>8. InTime'
  BY <1>3, <1>4
     DEF HonestInv, InTime, LatestEnd, Lie, ChallengerHasTruth, SolverHasTruth
<1>9. RoomToDispute'
  <2>1. ASSUME NEW e \in DOMAIN executions, ChallengerMustDispute(e)'
        PROVE  ChallengerMustDispute(e)
    BY <1>2, <2>1 DEF ChallengerMustDispute, Truthful, TrueRootFor, TrueDispute, DisputeOf, Exists
  <2>2. ChallengeEnd(new)' > now + 1 + (executions'[new].executionDepth + 1) * timeoutDuration
    <3>1. executions'[new].executionDepth = depth /\ depth \in 1 .. maxExecutionDepth
      BY <1>1, <1>2 DEF TypeOK, EnforcerTypeOK, ExecutionResult
    <3>2. challengePeriod > 1 + (depth + 1) * timeoutDuration
      BY <3>1, RoomForAll
    <3>3. ChallengeEnd(new)' = now + challengePeriod
      BY <1>1, <1>2 DEF ChallengeEnd
    <3> DEFINE rounds == (depth + 1) * timeoutDuration
    <3>4. now \in Nat /\ challengePeriod \in Nat /\ rounds \in Nat
      BY <3>1, ParameterAssumption DEF TypeOK, EnforcerTypeOK
    <3> HIDE DEF rounds
    <3>5. now + challengePeriod > now + 1 + rounds
      BY <3>2, <3>4 DEF rounds
    <3> QED
      BY <3>1, <3>3, <3>5 DEF rounds
  <2> QED
    BY <1>2, <1>3, <2>1, <2>2 DEF HonestInv, RoomToDispute
<1> QED
  BY <1>5, <1>6, <1>7, <1>8, <1>9

\* The clock leaves nobody honest behind.
LEMMA TickKeepsHonest ==
    ASSUME TypeOK, HonestInv, UNCHANGED <<executions, disputes>>,
           now' = now \/ (Tick /\ Punctual)
    PROVE  StandingGames' /\ LiesLose' /\ ChallengerPatient' /\ InTime' /\ RoomToDispute'
<1>1. /\ \A id : Unresolved(id)' <=> Unresolved(id)
      /\ \A id : LatestEnd(id)' = LatestEnd(id)
      /\ \A e : ChallengeEnd(e)' = ChallengeEnd(e)
      /\ \A e : ChallengerMustDispute(e)' <=> ChallengerMustDispute(e)
  BY DEF Unresolved, Exists, LatestEnd, ChallengeEnd,
         ChallengerMustDispute, Truthful, TrueRootFor, TrueDispute, DisputeOf
<1>2. StandingGames'
  BY <1>1 DEF HonestInv, StandingGames, Registered
<1>3. LiesLose'
  BY <1>1 DEF HonestInv, LiesLose, Lie, ChallengerHasTruth, SolverHasTruth
<1>4. CASE now' = now
  <2>1. ChallengerPatient'
    BY <1>1, <1>4 DEF HonestInv, ChallengerPatient, Lie, ChallengerHasTruth, SolverHasTruth
  <2>2. InTime'
    BY <1>1, <1>4 DEF HonestInv, InTime, Lie, ChallengerHasTruth, SolverHasTruth
  <2>3. RoomToDispute'
    BY <1>1, <1>4 DEF HonestInv, RoomToDispute
  <2> QED
    BY <1>2, <1>3, <2>1, <2>2, <2>3
<1>5. CASE Tick /\ Punctual
  <2>1. now' = now + 1 /\ now \in Nat
    BY <1>5 DEF Tick, TypeOK, EnforcerTypeOK
  <2>2. ASSUME NEW id \in DOMAIN disputes, Lie(id), Unresolved(id)
        PROVE  HonestDispute(id) /\ ~Truthful(id.execution)
    BY <2>2, TruthInPlay DEF HonestInv, Lie, HonestDispute
  <2>3. ChallengerPatient'
    <3>1. ASSUME NEW id \in DOMAIN disputes, Lie(id), Unresolved(id),
                 disputes[id].treeDepth > 0, "CHALLENGER_RESPONDED" \notin disputes[id].state
          PROVE  now' <= disputes[id].timeout
      <4>1. ChallengerMustAnswer(id)
        BY <2>2, <3>1 DEF ChallengerMustAnswer
      <4>2. now < disputes[id].timeout /\ disputes[id].timeout \in Nat
        BY <1>5, <4>1 DEF Punctual, TypeOK, DisputeRecord
      <4> QED
        BY <2>1, <4>2
    <3> QED
      BY <1>1, <3>1 DEF ChallengerPatient, Lie, ChallengerHasTruth, SolverHasTruth
  <2>4. InTime'
    <3>1. ASSUME NEW id \in DOMAIN disputes, Lie(id), Unresolved(id)
          PROVE  /\ LatestEnd(id) + 1 < ChallengeEnd(id.execution)
                 /\ now' < ChallengeEnd(id.execution)
      <4>1. LatestEnd(id) + 1 < ChallengeEnd(id.execution)
        BY <3>1 DEF HonestInv, InTime
      <4>2. id.execution \in DOMAIN executions
        BY <3>1 DEF HonestInv, StandingGames, Registered
      <4>3. ChallengeEnd(id.execution) \in Int
        BY <4>2, ParameterAssumption DEF ChallengeEnd, TypeOK, EnforcerTypeOK, ExecutionResult
      <4>4. /\ disputes[id].timeout \in Nat /\ disputes[id].treeDepth * timeoutDuration \in Nat
            /\ LatestEnd(id) = disputes[id].timeout + disputes[id].treeDepth * timeoutDuration
        BY ParameterAssumption DEF LatestEnd, TypeOK, DisputeRecord
      <4>5. disputes[id].timeout < now => now + 1 < ChallengeEnd(id.execution)
        BY <1>5, <2>2, <3>1 DEF Punctual, ChallengerMustClaim, ChallengeEnd
      <4> HIDE DEF LatestEnd, ChallengeEnd
      <4>6. disputes[id].timeout <= LatestEnd(id) /\ LatestEnd(id) \in Int
        BY <4>4
      <4> QED
        BY <2>1, <4>1, <4>3, <4>4, <4>5, <4>6
    <3> QED
      BY <1>1, <3>1 DEF InTime, Lie, ChallengerHasTruth, SolverHasTruth
  <2>5. RoomToDispute'
    <3>1. ASSUME NEW e \in DOMAIN executions, ChallengerMustDispute(e)
          PROVE  ChallengeEnd(e) > now' + 1 + (executions[e].executionDepth + 1) * timeoutDuration
      <4>1. ChallengeEnd(e) > now + 2 + (executions[e].executionDepth + 1) * timeoutDuration
        BY <1>5, <3>1 DEF Punctual, ChallengeEnd
      <4> DEFINE rounds == (executions[e].executionDepth + 1) * timeoutDuration
      <4>2. now' + 1 + rounds = now + 2 + rounds
        <5>1. rounds \in Int
          <6>1. executions[e].executionDepth \in Int
            BY DEF TypeOK, EnforcerTypeOK, ExecutionResult
          <6> QED
            BY <6>1, ParameterAssumption
        <5> HIDE DEF rounds
        <5> QED
          BY <2>1, <5>1
      <4> QED
        BY <4>1, <4>2
    <3> QED
      BY <1>1, <3>1 DEF RoomToDispute
  <2> QED
    BY <1>2, <1>3, <2>3, <2>4, <2>5
<1> QED
  BY <1>4, <1>5

\* In such play every step is one with the solver of SolverSpec: the execution of an open
\* game stands, so a root that can be registered is not in one.
LEMMA HonestGamesStepIsSolverStep ==
    TypeOK /\ HonestInv /\ [HonestGamesNext]_vars => NoOldGames /\ [SolverNext]_vars
<1> SUFFICES ASSUME TypeOK, HonestInv, [HonestGamesNext]_vars
             PROVE  NoOldGames /\ [SolverNext]_vars
  OBVIOUS
<1>1. NoOldGames
  BY DEF HonestInv, StandingGames, NoOldGames
<1>2. RegistersWhenClear
  BY DEF HonestInv, StandingGames, Registered, RegistersWhenClear, NoOldGameFor
<1>3. Punctual => SolverInTime
  BY DEF Punctual, SolverInTime
<1> QED
  BY <1>1, <1>2, <1>3 DEF HonestGamesNext, SolverNext

\* Every step of such play keeps the invariant.
LEMMA HonestGamesStep ==
    TypeOK /\ TypeOK' /\ Accepted /\ Walk /\ HonestInv /\ [HonestGamesNext]_vars => HonestInv'
<1> SUFFICES ASSUME TypeOK, TypeOK', Accepted, Walk, HonestInv, [HonestGamesNext]_vars
             PROVE  HonestInv'
  OBVIOUS
<1> DEFINE Rest == StandingGames /\ LiesLose /\ ChallengerPatient /\ InTime /\ RoomToDispute
<1>1. Patient'
  BY HonestGamesStepIsSolverStep, SolverStep DEF HonestInv
<1>2. HonestGames'
  <2>1. CASE UNCHANGED vars
    BY <2>1 DEF HonestInv, HonestGames, SolverHasTruth, ChallengerHasTruth, vars
  <2> QED
    BY <2>1 DEF HonestGamesNext
<1>3. CASE UNCHANGED <<executions, disputes>>
  <2>1. now' = now \/ (Tick /\ Punctual)
    BY DEF HonestGamesNext, Next, vars
  <2> QED
    BY <1>1, <1>2, <1>3, <2>1, TickKeepsHonest DEF HonestInv
<1>4. ASSUME NEW a \in Account, NEW new \in ExecutionId, NEW depth \in ProofDepth,
             Register(a, new, depth), UNCHANGED <<now, disputes>>
      PROVE  Rest'
  BY <1>4, RegisterKeepsHonest
<1>5. ASSUME NEW a \in Account, NEW execution \in DOMAIN executions,
             NEW root \in ChallengerRoot, Dispute(a, execution, root), UNCHANGED now
      PROVE  Rest'
  BY <1>5, DisputeKeepsHonest
<1>6. ASSUME NEW id \in DOMAIN disputes, Play(id), UNCHANGED now
      PROVE  Rest'
  BY <1>6, PlayKeepsHonest
<1>7. CASE UNCHANGED vars
  BY <1>3, <1>7 DEF vars
<1>8. CASE Next
  BY <1>1, <1>2, <1>3, <1>4, <1>5, <1>6, <1>8
     DEF Next, Tick, Request, enforcerVars, HonestInv
<1> QED
  BY <1>7, <1>8 DEF HonestGamesNext

\* The invariant of such play.
LEMMA AlwaysHonest == HonestGamesSpec => [](TypeOK /\ Accepted /\ Walk /\ HonestInv)
<1>1. Init => HonestInv
  <2>1. ASSUME Init PROVE DOMAIN disputes = {} /\ DOMAIN executions = {}
    BY <2>1 DEF Init, EnforcerInit, VerifierInit, NoEntries
  <2> QED
    BY <2>1 DEF HonestInv, StandingGames, HonestGames, Patient, LiesLose, ChallengerPatient,
                InTime, RoomToDispute
<1>2. [HonestGamesNext]_vars => [Next]_vars
  BY DEF HonestGamesNext
<1> QED
  BY <1>1, <1>2, HonestGamesStep, AlwaysOnPath, PTL DEF HonestGamesSpec, Spec

\* A wrong registration that is none of the exceptions does not outlive its challenge
\* period if one challenger knows the true execution and acts in time.
THEOREM LiesFall == HonestGamesSpec => []NoLieStands
<1>1. TypeOK /\ HonestInv => NoLieStands
  <2> SUFFICES ASSUME TypeOK, HonestInv, NEW e \in DOMAIN executions, Refutable(e)
               PROVE  InChallengePeriod(e)
    BY DEF NoLieStands
  <2> DEFINE id == TrueDispute(e)
  <2>1. /\ ~Truthful(e) /\ ~Misleading(id)
        /\ ~(Exists(id) /\ disputes[id].state \cap VERIFIED = {"CHALLENGER_VERIFIED"})
    BY DEF Refutable, AlreadyPlayed
  <2>2. Lie(id) /\ id.execution = e
    BY <2>1, TrueDisputeIsLie DEF TrueDispute, DisputeOf
  <2> HIDE DEF id
  <2>3. CASE ~Exists(id)
    <3>1. ChallengeEnd(e) > now + 1 + (executions[e].executionDepth + 1) * timeoutDuration
      BY <2>1, <2>3 DEF HonestInv, RoomToDispute, ChallengerMustDispute, id
    <3> DEFINE rounds == (executions[e].executionDepth + 1) * timeoutDuration
    <3>2. rounds \in Nat
      <4>1. executions[e].executionDepth \in Nat
        BY ParameterAssumption DEF TypeOK, EnforcerTypeOK, ExecutionResult
      <4> QED
        BY <4>1, ParameterAssumption
    <3> HIDE DEF rounds
    <3>3. ChallengeEnd(e) \in Int /\ now \in Nat
      BY ParameterAssumption DEF ChallengeEnd, TypeOK, EnforcerTypeOK, ExecutionResult
    <3> HIDE DEF ChallengeEnd
    <3>4. ChallengeEnd(e) > now
      BY <3>1, <3>2, <3>3 DEF rounds
    <3> QED
      BY <3>4 DEF InChallengePeriod, ChallengeEnd
  <2>4. CASE Unresolved(id)
    <3>1. now < ChallengeEnd(e)
      BY <2>2, <2>4 DEF HonestInv, InTime, Unresolved, Exists
    <3>2. ChallengeEnd(e) \in Int /\ now \in Nat
      BY ParameterAssumption DEF ChallengeEnd, TypeOK, EnforcerTypeOK, ExecutionResult
    <3> QED
      BY <3>1, <3>2 DEF InChallengePeriod, ChallengeEnd
  <2>5. CASE Exists(id) /\ ~Unresolved(id)
    <3>1. "SOLVER_VERIFIED" \notin disputes[id].state
      BY <2>1, <2>2, <2>5 DEF HonestInv, LiesLose, Exists
    <3>2. disputes[id].state \cap VERIFIED # {}
      BY <2>5 DEF Unresolved
    <3>3. disputes[id].state \cap VERIFIED = {"CHALLENGER_VERIFIED"}
      BY <3>1, <3>2 DEF VERIFIED
    <3> QED
      BY <2>1, <2>5, <3>3
  <2> QED
    BY <2>3, <2>4, <2>5
<1> QED
  BY <1>1, AlwaysHonest, PTL

\* And a true one stands in the same play.
THEOREM TruthStandsInHonestGames == HonestGamesSpec => TruthStands
<1>1. TypeOK /\ Accepted /\ Walk /\ HonestInv /\ [HonestGamesNext]_vars => [SolverNext]_vars
  BY HonestGamesStepIsSolverStep
<1> QED
  BY <1>1, AlwaysHonest, SolverKeepsTruth, PTL DEF HonestGamesSpec, SolverSpec

-----------------------------------------------------------------------------
\* What TLC checks is the special case of one registration at a time.
LEMMA HonestSpecIsHonestGames == HonestSpec => HonestGamesSpec
<1>1. [HonestNext]_vars => [HonestGamesNext]_vars
  BY DEF HonestNext, HonestGamesNext
<1> QED
  BY <1>1, PTL DEF HonestSpec, HonestGamesSpec

\* In the specification that the run checks no wrong registration stands that is none of
\* the exceptions.
THEOREM NoLieAlwaysStands == HonestSpec => []NoLieStands
BY HonestSpecIsHonestGames, LiesFall, PTL

\* And a true one does.
THEOREM TruthAlwaysStands == HonestSpec => TruthStands
BY HonestSpecIsHonestGames, TruthStandsInHonestGames, PTL

=============================================================================
