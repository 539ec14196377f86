# A verification development for solEVM-enforcer

solEVM-enforcer lets a *solver* claim, on an Ethereum chain and with a bond at
stake, what a program run by an EVM off chain returned. A *challenger* who got
another result disputes the claim; both open a Merkle tree over their steps
level by level until one step is left, and the chain executes that one step.

This directory holds TLA+ models of that protocol, their TLC configurations,
and theorems checked by the TLA+ proof system. The models are translated from
the Solidity code in `src/contracts` and the JavaScript in `src/utils`;
`PROJECT.json` names, for every definition, the lines it stands for.

## 1. Inventory

### Parts, their state and operations

| part | state | operations |
|---|---|---|
| `contracts/Enforcer.sol` | `tasks`, `executions`, `bonds`, the ether it holds | `request`, `register` (with `verifyResultProof`), `dispute`, `result`, `getStatus` |
| `contracts/Verifier.sol` | `disputes`: two paths, two opened pairs, a witness, flags, `treeDepth`, `timeout` | `initGame`, `respond` (with `updateRound`), `submitProof`, `claimTimeout` |
| `contracts/Merkelizer.slb` | - | hashes of a state, of its stack, memory and data |
| `contracts/EVMRuntime.sol`, `HydratedRuntime.sol`, `EthereumRuntime.sol` | one EVM: pc, gas, errno, stack, memory, return data | `_run`, one handler per opcode; the hashes after a partial run |
| `contracts/EVMStack.slb`, `EVMMemory.slb`, `EVMCode.slb`, `EVMTokenBag.slb` | the data structures of that EVM | push/pop/dup/swap; load/store; reading code from proven fragments; token transfers |
| `utils/Merkelizer.js`, `AbstractMerkleTree.js`, `FragmentTree.js` | a tree as a list of levels | `run`, `recal`, `getNode`, `computeResultProof`; code fragments |
| `utils/EVMRuntime.js`, `HydratedRuntime.js`, `RangeProofHelper.js`, `ProofHelper.js` | the EVM off chain and what each step touched | `run`, `runNextStep`; building the proof of a step |
| `utils/ExecutionPoker.js`, `challenger/` | a bot's tasks, solutions and disputes | handlers of five contract events |
| `contracts/PlasmaVerifier.sol` | - | a prototype with fixed answers |

### Interaction

A bot calls `request`, `register` and `dispute` on the Enforcer, and `respond`,
`submitProof` and `claimTimeout` on the Verifier. `Enforcer.dispute` calls
`Verifier.initGame`; every Verifier transaction that ends a game calls
`Enforcer.result`, which moves bonds and ether and may delete the execution.
The contracts tell the bots through events. Nobody is bound to a game: who
knows a preimage may answer for either side.

### What is hard, and what makes each part correct

* **Time.** Four periods interact: a task's, an execution's challenge period,
  a round's timeout, and the depth of the tree in rounds. *Correct:* what
  `getStatus` reports is final before the end it reports; a game that is played
  in time ends before its verdict would be refused.
* **Overlap.** Many disputes may be open about one execution. The first that
  the challenger wins deletes it, and the solver may register the same root
  again while the others go on. *Correct:* bonds are exactly the stakes at
  risk, although they are subtracted without a check; a task's list has each
  standing execution once.
* **Bisection.** The Verifier stores two hashes per side, not a position.
  *Correct:* both sides are at the same position of their trees, the witness is
  the agreed state just before it, the flags tell the first and last step.
* **Adversaries.** Anybody may answer, register and dispute anything, with trees
  of any shape. *Correct:* whoever knows the true execution and acts in time is
  never hurt, and what he disputes falls.
* **The two runtimes.** A step off chain and on chain must give one hash, from
  whatever part of the state its proof carries. *Correct:* they agree, including
  errors, gas and limits.
* **The bots.** Event handlers interleave at each `await`. *Correct:* a bot
  answers each round once, for the node it is asked about.

The `hazards` in `PROJECT.json` list these one by one, at their lines.

## 2. The modules

```
Deployment          accounts, hashes, parameters, block.timestamp
  +- Enforcer       contracts/Enforcer.sol; refines TaskBoard
  |    +- TaskBoard             what the registry promises
  +- Verifier       contracts/Verifier.sol
       +- VerificationGame      Enforcer + Verifier
            +- VerificationGameProofs   (and of Enforcer alone)
            +- Bisection        positions in the trees
            |    +- BisectionProofs       (with RecursionProofs: induction)
            |    +- HonestPlay  players who know the truth
            |         +- HonestPlayProofs
            +- Poker            utils/ExecutionPoker.js on the contracts
                 +- PokerProofs           (with MerkleTreeProofs, RecursionProofs)
MerkleTree          the trees off chain, and Verifier.verifyCode
  +- TreeUse        what is done with a tree; (also used by Poker)
  +- MerkleTreeProofs          trees and their hashes (with RecursionProofs)
       +- TreeUseProofs        both
Words               256-bit words and byte strings
  +- Runtime        utils/EVMRuntime.js, one step
       +- ChainRuntime          contracts/EVMRuntime.sol, one step
       +- HydratedRun           utils/HydratedRuntime.js: a run, and the proof
            |                   of each of its steps to ChainRuntime
            +- RunProofs        the stack and the memory carried along, gas,
                                resuming (with RecursionProofs)
MCTrees, and one MC module for each specification that is run
```

### The contracts

**Transactions are atomic**, so each is one action, and a call from one
contract to the other is part of the caller's action. A failing `require`
reverts everything: it is a guard of the action. An early `return` that changes
nothing is no step. `Notify` in `VerificationGame` makes `Enforcer.result` a
part of every action of the Verifier that reaches a verdict; if `result`
reverts, so does the whole action, flags included.

**Hashes** are values. `Open` maps a hash to the pair it commits to, when
anybody knows it; `StateHash` are hashes of EVM states somebody knows. In the
MC modules a hash is the term it commits to, which makes collisions impossible.
`executionId` is the pair (task, solver's root), a dispute's id the triple
(execution, challenger's root, depth): what else goes into the keccak is
determined by these.

**Mappings** are functions on the keys whose entry is not zero. An execution
registered at time 0 would look unregistered: the clock starts at 1.

**One EVM step** is the constant `Outcomes`: for a task and a state, the set of
next states with whether the opcode halts and whether memory is full (256
words). It is a set because the caller of `submitProof` chooses what part of the
state to supply; steps that end in an error are not in it. What an honest
party's step really computes, on both sides, is the subject of `HydratedRun`.

**Numbers.** `bonds` wrap at `Word` (2^256 in the code). Additions to them
cannot overflow, since all ether is `EtherSupply < Word`. Times and depths are
natural numbers: the code's sums of timestamps and periods stay far below
2^256 for periods in seconds.

**Named bounds**, all in guards: `MaxTime` (clock), `MaxSlots` (length of a
task's list), `MaxDisputes`, `EtherSupply` (deposits), `ProofDepth` (lengths of a
result proof that are tried). The proofs hold for every value of them.

### Correspondence

| action | code |
|---|---|
| `Request`, `Register` | `Enforcer.request`, `register` |
| `Dispute` | `Enforcer.dispute` = `ChargeChallenger`, then `Verifier.initGame` = `InitGame` |
| `Respond` + `Notify` | `Verifier.respond`, `updateRound`, `Enforcer.result` |
| `SubmitProof` + `Notify` | `Verifier.submitProof`, `Enforcer.result` |
| `ClaimTimeout` + `Notify` | `Verifier.claimTimeout`, `Enforcer.result` |
| `Tick` | the next block's timestamp |
| `VerifyResultProof`, `GetStatus` | `Enforcer.verifyResultProof`, `getStatus` |

`verifyResultProof` is modelled with a trait of the code that matters: any
64-byte preimage reads as "32 bytes of state, 32 bytes of return data", so an
inner node passes for the last state and the registered depth may be smaller
than the solver's tree.

### The bots

`Poker` puts one `ExecutionPoker` for every account on top of
`VerificationGame`. JavaScript runs a function without interruption from one
`await` to the next, so each such segment is an action, and what lies between
two of them is a suspended call in `calls[a]`. Each filter of the node is polled
on its own: `inbox[a]` has one queue per kind of event, in the chain's order,
and events of two kinds arrive in any order. `txs[a]` are the transactions a bot
has sent, mined in the order of their nonces, later than whatever happened in
between; one that would revert is mined in vain (`mineInVain`).

| action | code |
|---|---|
| `onRequested`, `registerExecution`, `registered` | the `Requested` handler; `registerExecution` before and after its `await`s |
| `onRegistered`, `validateExecution`, `disputed` | the `Registered` handler; `validateExecution`; `initDispute` after the transaction |
| `onDisputeInitialised`, `onNewRound` | the handlers that start `submitRound` |
| `readDispute`, `submitRound` | `submitRound` up to the `await` of `verifier.disputes`, and after it |
| `mineRegister`, `mineDispute`, `mineRespond`, `mineSubmitProof` | the contracts |
| `Outside` | the clock, and somebody who calls `claimTimeout` (no bot does) |

A bot's `computed[a]` is what its runtime returns: the true execution, or the
one of a cheat.

### The trees

`MerkleTree` is written as functions on levels: `recal` builds them, `getNode`
and `getPair` search them by hash as the code does (from the top, each level from the right). `TreeUse` builds a tree from every execution
and every code within the bounds, and cuts it to the depth of a claim (`claimDepth`).

### The two runtimes

`Runtime` is one step of `EVMRuntime.js`, `ChainRuntime` one step of
`EVMRuntime.sol` with the stack, memory and code libraries. They are translated
each from its own source, with their own tables of fees and arities and their
own order of checks, and share only arithmetic on words and the operators for
bytes. The results of the opcodes are written twice too: in JavaScript's way (bn.js,
two's complement conversions, loops over bits) and by the definition of the
EVM that Solidity's own operators implement.

`HydratedRun` runs a program with the first, exports each step as
`HydratedRuntime.js` does (its caches included), makes the step's proof as
`ProofHelper.js` does, and hands it to the second as `Verifier.submitProof`
does. A hash is what is hashed, so two states have one hash only if they are equal
in all that the hash covers. The action `Execute(op)` is a step of that opcode.

Words have `WordBytes` bytes of `ByteBits` bits; nothing in the code but
constants depends on 32 and 8. On chain the linked lists of memory and code are
sets of slots, the array behind the stack is a sequence.

### Plausible bugs

The definitions under "Plausible bugs" are used by no specification. Each is a
wrong variant of a definition; put in its place, it makes one property fail
(`mutants` in `PROJECT.json`), which shows that the property depends on that
line.

## 3. What TLC checks

All runs switch the deadlock check off: the clock and the other bounds really
stop the models. In the honest run `TimeGoesOn` says more than the absence of
deadlock.

| run | states | shows |
|---|---|---|
| `registry` | 232,665 | `Enforcer` with an arbitrary verifier: types, `TaskListsMatch`, `StatusIsFinal`, and the refinement `ImplementsBoard` |
| `game` | 289,968 | both contracts: types, `BondsAccounted`, `PayoutsFunded`, `PlayFitsChallenge` |
| `bisection` | 100,937 | `SamePosition`, `EndFlagMeansLast` |
| `honest` | 148,034 | `TruthStands`, `NoLieStands`, `TimeGoesOn` |
| `runtime` | 120,381 | `CompletedStepIsProven`, `FailedStepIsNotProven`, `StackCacheIsCurrent`, `MemoryCacheIsCurrent`, `ExportResumes`, `GasBoundsTheRun` |
| `tree` | 6,005 | `RootCommits`, `ResultProofAccepted`, `ScaledDownIsLeftSubtree`, `FragmentsProvable` |
| `poker` | 342,823 | `RightVerdict`, `AnswersTaken`, `GamesEnd` |

**Bounds.** *registry:* two tasks (they may not disturb each other),
three roots: one with a valid proof of depth one, one whose own tree is too deep and
which passes at depth one only as an inner node, and one without any valid proof; a list of
three slots, so that one root is registered, deleted and registered twice more; five
time units, past the end of registration and into the final period. One account is enough: only bonds and the receiver
of a payout depend on who acts, and bonds are the subject of *game*. *game:* two accounts (interchangeable, hence
the symmetry), one root that can be registered at depths 1 and 2, two challenger roots, four
disputes one after the other. The ether (`EtherSupply` is three bonds) is enough for two
unresolved disputes beside a standing execution, and for disputes that survive a new
registration of what they dispute; three or more at once are covered by the theorems only. The clock reaches past the challenge period. The program's last step
fills the memory, which takes the branch of `submitProof` that sets no flag.
*bisection:* 80 trees of up to three levels for either side, complete, padded,
with wrong, missing and swapped steps and zeros in wrong places, every
registered depth; all in one block, as the properties do not depend on time.
*honest:* a true execution of three steps (a padded tree of depth three),
solver trees from twenty-odd combinations of halves and challenger trees likewise,
in full time: 9 units with rounds of one unit and a challenge
period of seven, more than the five units `PeriodAssumption` asks for trees of depth three. One
registration at a time (`OneRegistration`, a bound of the run) and one dispute, which TLC
sees from the first registration to the verdict; any number of registrations and games is
what the theorems of `HonestPlayProofs` are about. No game between two
dishonest parties is played (`HonestGames`: one of them can lose such a game, which deletes the
registration in the middle of an honest game about it).
*runtime:* words of two bytes of two bits, so that all 16² operands of every
binary opcode are tried, a stack of 8, memory of 4 words, addresses of three bits. Signed, zero,
overflowing and out-of-range operands all occur, as do stack over- and
underflow, running out of gas in every part of a step, memory at its limit, code of up
to several fragments with push data across their border, and every sequence of
four out of ten instructions.
*tree:* executions of up to five steps over states that may repeat (depths two to four, with
padding on several levels), codes of up to nine words of two kinds.
*poker:* two bots, one task, a true execution of six steps (depth four, its
right quarter empty), thirteen executions for the cheat: wrong from the start, from the middle,
at the end, too short, too long, too deep. Three units of time, within which there is one registration and one dispute about it,
to its end by proof, by a missing half or by a timeout. `alwaysChallenge`, which only the
repository's tests set, is empty: a game about a tree that both bots share comes to shared nodes in every
round, and those are excepted (below).

**Fairness.** Only `HonestSpec` has any: `WF_vars(HonestNext)`, which says that
the chain does not stop. It is what blocks are for: `Tick` is always possible
unless it would make an honest party late, and in that case the honest party's
own transaction is. That this never leads nowhere is `TimeGoesOn`: no honest
move is ever refused, and there is always one. Punctuality (`Punctual`) is an
assumption about the honest party, not about the code: it answers before the
deadline, claims a timeout before the challenge period ends, and disputes with one second to
spare, for the reason that `timeout_decides` shows.

`PokerSpec` has `BotsGoOn`, which is `WF_pokerVars(BotsAct)` written out: events
are delivered, promises settle, transactions are mined. Node's event loop and the chain do
that. The clock moves only when the bots have nothing left to do: the bots
are fast against the periods of hours, and what happens when they are not is
`ClaimTimeout` at any time its guard allows. `HydratedRun` needs no fairness: that runs end is
`GasBoundsTheRun`, a step property.

**Four exceptions in `NoLieStands`** are excluded by name, all of them wrong registrations
that survive an honest challenger. Three are conditions on the first node at which the two
trees part on some level: `Outlasts` (the solver's tree is the true one and then
more steps), `Skips` (a right half is empty where the true execution goes on), `Misconnects`
(the first wrong step leads to the right state from a wrong one) and
`AlreadyPlayed` (the same dispute was won before). All are real. In the first three the game ends at a
step whose result both players claim; the proof verifies both, and then the solver wins.
Three of them are findings below.

**Exceptions in `RightVerdict` and `GamesEnd`**, likewise real:

* A solver whose `DisputeInitialised` arrives before its registration is stored
  (`ExecutionPoker.js:76`, 144) ignores the dispute, and loses if somebody claims the timeout.
* When the game comes to a node both players share (`Apart` does not hold), one answer
  serves both. A `submitRound` suspended at line 220 then puts `computationPath`
  back to where it was, nobody submits the proof, and the honest solver loses by timeout.
* A claim deeper than the bot's own tree is played without padding and lost (160).
* The misleading claims of `HonestPlay`.
* A true claim that a bot disputes because `alwaysChallenge` is set.
* A claim that is shorter than the truth cannot be proved by anybody and ends only by
  `claimTimeout`, which no bot calls (208). `GamesEnd` is about the other claims.

**Where the two runtimes part.** `CompletedStepIsProven` holds but for the
cases collected in `Diverges`, `FailedStepIsNotProven` but for those in
`Lenient`. Each was met as a counterexample and is described by a condition on the
operands and the state of the step that fails:

| opcode | operator | what happens |
|---|---|---|
| `MSIZE` | `SizeDiverges` | off chain it is not seen as a use of memory, so none is supplied and the chain pushes 0 |
| memory opcodes of length 0 | `EmptyRangePaid` | the chain charges up to the offset |
| `SHA3`, `RETURN`, `REVERT`, `STATICCALL` | `MisreadRange`, `MisplacedTail` | `EVMMemory.toBytes` (120) writes a slot to its absolute place instead of its place in the result: only input in slot 0 is read right; reading does not grow the memory |
| `CALLDATACOPY`, `RETURNDATACOPY` | `CopyDiverges` | from behind the source's end the loop on chain does not end; from an empty source only the chain writes zeroes |
| `RETURNDATACOPY` | `Uncounted` | off chain, memory is written without being charged or counted |
| `CODECOPY` | `CodeCopyDiverges` | from the start of the third or a later word: "Known code not enough"; length 0 from an unsupplied word: "Code not found" |
| `PUSH` | `PushDiverges` | its data reaches past the code's last word |
| end of code | `Refused` | code that runs off its end has no last opcode `submitProof` accepts; 256 words of memory are too many for the solver |
| `JUMP`, `JUMPI` | `JumpIntoData` | the chain accepts a `JUMPDEST` inside push data |
| `RETURNDATACOPY` | `CopiesPastEnd` | a copy that starts within the return data and goes past its end: the chain fills up with zeroes where the bot throws |
| `STATICCALL` | `CallsNobody` | to a target that is no known contract the chain goes on where the bot throws; of a target that is too long for an address, the chain looks at the low bits only |
| `SHA3`, `RETURN`, `REVERT`, `STATICCALL` | `ReadsPastLimit` | reading memory past its limit: on chain, reading does not grow the memory, so the limit is not met |

Steps that fail otherwise than by `REVERT` cannot be proved by anybody: `submitProof` accepts no
errno but these two. `ExportResumes` excepts what `initRunState` does not take: the
return data, and memory that a `RETURNDATACOPY` wrote past the counted words
(`EVMRuntime.js:660` does not charge for it), which the resumed run counts and the run
itself does not. `StackCacheIsCurrent` excepts the stack behind a failed `STATICCALL`,
which pops six elements twice (`EVMRuntime.js:951`).

**The trees.** `FragmentsProvable` shows that the words of a code given by its hash
can be supplied exactly for lengths of 2^k or 2^k - 1 words: `verifyCode` (405) computes
the depth after making the number of leaves even once, `FragmentTree` makes every
level even. For `ScaledDownIsLeftSubtree`, `claimDepth` keeps the depth of the claim the
tree was cut for: the cut tree has that depth, and the hashes of the uncut one's first nodes on every
level. It excepts a claim of depth one: a tree cut to one leaf has depth two.

### Findings

Five statements of the repository that the code does not keep; each has a run
with a counterexample.

1. `timeout_decides`: `Verifier.sol:149` promises a final decision in
   `claimTimeout`. If every round takes its full time, the timeout at the leaf can be
   claimed only when `Enforcer.result` refuses verdicts: the game stays
   undecided and the execution stands.
2. `verdict_recorded`: `Verifier.sol:291` reads a flag as "already notified
   enforcer". A proof of the solver's own last state with full memory notifies
   the Enforcer (the solver loses) without setting a flag.
3. `follows_disagreement`: `docs/Merkelizer.md:53` says both follow the path
   they do *not* agree on. If one right half is zero, both go left also when
   their left halves agree.
4. `dispute_available`: `docs/SystemDescriptionDocument.md:30` lets a validator
   open a dispute whenever results differ. A registration that lost and is
   registered again cannot be disputed with the same root again ("already
   init").
5. `leftmost_step`: `Verifier.sol:147` says the first step must begin in the
   initial state. `submitProof` requires it of the input that is submitted, and then verifies
   the solver by the state after the step (256), whatever the claim's own first state is:
   a tree that begins in a wrong state and joins the true execution after one step
   is proven, and what is wrong further to the right is never looked at.

## 4. What is proved

For every value of the constants that satisfies the named assumptions of `Deployment`,
`Enforcer`, `Verifier` and `VerificationGame` (finite sets of hashes, accounts and tasks;
natural parameters; `EtherSupply < Word`; the zero hash has no preimage; no two hashes have
the same one), for players of `HonestPlay` (the true trees are trees of executions;
`PeriodAssumption`), and of `Words`, `Runtime` and `HydratedRun`, and for bots whose
hashes are among those of the deployment (`PokerAssumption`):

* **`VerificationGameProofs`**, of the registry with an arbitrary verifier: `EnforcerTypeCorrect`,
  `TaskListsAlwaysMatch`, `StatusBecomesFinal`, `RegistryImplementsBoard`. `TaskListsMatch`
  is inductive with the types: an appended id was in no slot (`register` refuses registered
  ones), and `ClearSlotOnce` shows that clearing the first match clears the only one.
  `StatusBecomesFinal` rests on `ChallengeEndsBeforeTask`, which the lemma
  `PeriodsInvariant` proves: once a task is settled, no execution of it is in its challenge
  period. The refinement maps the clock to phases and the list with its empty slots to a
  set; it has one case per action (`StepRefines`).
* The same module, of the game: `TypeCorrect`, `PlayAlwaysFits`, and `ImplementsRegistry`:
  every step of the two contracts is a step of the registry, which carries its theorems over
  to the game (`StatusIsFinalInTheGame`). The lemma `PlayStep` says once what a Verifier
  transaction can do: a move in time goes one level down with a new deadline, or changes no
  deadline, or ends the game. `PlayFitsChallenge` alone is not inductive: the new deadline
  is counted from *now*, so one needs that a dispute's deadline is no later than one round
  from now (`FitsFromNow`), and, for a registration while disputes of the previous one are
  open, that those fit into a challenge period starting now. `BondsAlwaysAccounted` and
  `PayoutsAlwaysFunded` are also there: the invariant `Accounts` joins the two, with a
  verdict that slashes the party whose stake disappears in the same step; the counting is by
  cardinalities of finite sets (`OneLess`, `InStakes`). That the wrapping subtraction is
  exact follows from the invariant itself: the stakes slashed are there (`ExactWord`,
  `StakesBounded`).

* **`RunProofs`**: `StackCacheAlwaysCurrent`, for every set of programs whose cells are
  modelled instructions (`ProgramsAssumption`), every width of words, and every limit of
  stack and memory. The caches depend only on *positions*, not on the words, and `IsSeq` (a
  sequence of whatever is in it) is all the proof needs. `Below` says that a step leaves
  alone all but the last n elements; there is one lemma per handler, and `HandleKeeps` joins
  them with n the number `calculateStackProof` hands over (`TakenOff`). `JoinedHashes` then
  shows that the old hashes up to the common prefix and the partial ones above it are those
  of the whole new stack. The invariant `RunInv` adds that the code is one of the programs
  (so the next instruction is a modelled one) and that the exported error is the run's own:
  the stale caches behind a failed `STATICCALL` are then never used again.

* The same module: `GasAlwaysBoundsTheRun`, `MemoryCacheAlwaysCurrent`, `ExportsAlwaysResume`,
  in the same generality. Gas goes down only if every price is a natural number, and prices are
  computed from the words of the run: so the words must be numbers first. The lemmas on `Words`
  show that of sums over sets of bits, of powers (SMT has no theory of them: `PowerIsPositive`
  and `PowerDoubles` count subsets) and of the recursive `PowMod`; those on `Runtime` of every
  value an instruction pushes. `Typed` is the invariant, `Goes` what every part of a step does:
  it leads to a typed state with no more gas, and with the same memory unless the proxy saw it
  written. `OpcodesCost` is the table: only five opcodes are free, and all five end the run
  (`HandlerGoes`). For the memory, `SerialisedOnce` shows what `calculateMemProof` relies on:
  memory that was neither used nor written, and whose cached words are as many as the step
  counts, would be serialised the same again. That a run can be begun anew from what it exported
  is a statement about two runs. Their memories are not the same: the exported one is filled up
  with zeroes to whole words. `Alike` relates run states that read the same bytes at every
  position (`SameBytes`) and whose memory has all been counted, and is kept by every instruction
  (`HandleAlike`) and the step (`StepAlike`), so long as there is no return data: a copy of it
  is the one write that is not counted. `WordsFlattened` shows that the exported words are the
  memory again, and `ResumeInv` that the export is up to date, above all that the program
  counter left where it was by `RETURN`, `STOP` and a failure belongs to a run that has ended.
  The proof found the second exception in `ExportResumes`: the runs in TLC had no program that
  wrote uncounted memory and then emptied the return data; they have one now (`Recalled`). All
  three theorems assume `KeccakReturnsNumbers`, that `Keccak` maps sequences of numbers to
  numbers. It stands in the theorems and not among the assumptions of `Runtime` because TLC,
  which evaluates those, cannot enumerate all sequences.

* **`BisectionProofs`**: `AlwaysSamePosition`, `EndFlagAlwaysMeansLast`, for trees of every
  depth and shape. The Verifier keeps only two hashes per side and a witness; the invariant
  `Walk` says of every dispute what these mean: on level `depth - treeDepth` there is a
  position at which both paths lie, the witness is the node just left of it in both trees,
  and the flags tell whether the position is the first, and whether it is on the right edge
  of the solver's tree. `EndFlagMeansLast` does not follow from the game alone: it needs
  `Accepted`, that the right edge of every registered tree ends in a state that is not zero,
  which is what `verifyResultProof` is for.
* **`HonestPlayProofs`**: `SolverKeepsTruth`. A player with the tree of a real execution
  (`TrueExecutionAssumption`) can answer every round, and at a leaf the proof of the step
  verifies him (`TruthIsProven`, `TruthWins`); `Patient` says he has never let his deadline
  pass. `SolverSpec` constrains nobody else but for `RegistersWhenClear`: no game about an
  execution is still open when it is registered. Neither contract checks this. Without it a
  game from an earlier registration of the same root at another depth, in which the true
  tree was the wrong one, could delete the new registration.
* The same module, of the challenger: `LiesFall` and `TruthStandsInHonestGames` under `HonestGamesSpec`
  (any number of registrations and games of any number of tasks), and from these
  `NoLieAlwaysStands` and `TruthAlwaysStands` under the `HonestSpec` that TLC runs.
  `Winning` is what the challenger with the truth keeps in every round (`RoundWins`): the
  two trees agree left of the position, the two nodes at it differ or the solver calls a
  node his last that is not, and at the leaf no proof verifies the solver. Winning is of use
  only if the verdict is accepted, so the other half is about time: `RoomToDispute` (he
  opens his game in time), `ChallengerPatient` (he answers in time) and `InTime` (with all
  rounds at full length, the last deadline is more than one unit before the end of the
  challenge period). `RoomToDispute` holds after a registration by `PeriodAssumption`: the
  challenge period exceeds all the rounds of the deepest tree. No contract checks this of
  the periods it is deployed with.
* **`RecursionProofs`**: the library states induction and recursive definition with an
  operator as a parameter, which the provers cannot instantiate. `NatSetInduction` and
  `Iteration` are the same facts with a set and a function for it, `SubsetRecursion` is
  recursion over the subsets of a finite set, as the folds of the community modules are
  defined; `Levels` and `RightEdge` are defined so that they apply. The powers of two that
  the trees count with are there too.
* **`MerkleTreeProofs`** and **`TreeUseProofs`**: `RootCommitsHolds`, `ResultProofs`,
  `Fragments` and `ScaledDown`, for executions, claims and code of every length. `RecalShape`
  says what `recal` builds: each level pairs the one below, with a zero node where the number
  is odd, and the first level of one node, if it is not the lowest, is the root. From there on a
  node is a position, and what the code finds by hash is found by position: `NodesAreHashed`
  (every node but a zero one has the hash of its two children) and `SameHashesBelow` (equal
  hashes at one position have equal subtrees) give `RootTellsLeaves`, the reason why a root
  commits. For a registration, `PathIsLast` follows the right edge past the padding, where the
  `getNode` of `computeResultProof` may not take a zero half for a node; in the other
  direction `RootTellsLeaf` lets a proof the Enforcer takes stand for one state only. For code,
  `SlotAbove` joins the two ways of walking up: `calculateProof` takes the neighbour of a
  position, `verifyCode` halves the slot number; `Logarithm` is the depth `verifyCode` computes,
  and gives the lengths in `SameDepth`. `CutIsLeftSubtree` says level by level that the tree
  built over the first 2^(d-1) leaves has the nodes of the left subtree of depth d, and
  no level more or less.
  The invariant `Built` says which input the tree was built over, and for which claim it was cut. All but `ScaledDown`
  assume `CollisionFree`: no two pairs of halves, no two states, and no two words at one slot have
  the same hash, and none has the hash zero. It stands in the theorems, not among the
  assumptions of the model, because it is about all values and TLC could not enumerate them. The
  hashes of `MCTreeUse`, which are the terms they commit to, satisfy it.
  These proofs use `TreeUseAssumption` that the zero hash is the hash of no state; `zero` stands for
  "no step" in `AbstractMerkleTree`.

* **`PokerProofs`**: `PlaysTheGame` and `AnswersAlwaysTaken`, for any number of bots, tasks and
  disputes, whatever each bot computes. `PlaysTheGame` says that the bots with their inboxes,
  suspended calls and unmined transactions leave the contracts as some run of
  `VerificationGame` does. For this one needs that what a bot sends was computed from a node
  of one of its trees (`TreesOfBots`: a node that is found is a leaf that begins in a state,
  or no leaf), and that the sender is a player of that dispute. The latter is `Owned`: each
  task has one requester, only this bot registers its result, and only others validate and
  dispute it. The game's theorems then hold of the bots; `BondsAccountedWithBots` is one.
  For `AnswersAlwaysTaken`, `InTurn` follows a round through the bot: while the two nodes are
  apart, each player has at most one answer under way, in just one place: an event not yet
  handled, a suspended call, or a transaction not yet mined; once its RESPONDED flag is set,
  it has none (`Turn`). What a call has read and a transaction carries is up to date
  (`Current`), and stays so because path and witness change only when both have answered,
  and only then each is told of the next round.

**Model-checked only:** `TimeGoesOn`, `GamesEnd` and `BotsGoOn` are liveness under fairness,
and `mineInVain` uses `ENABLED`. What the instructions compute (beyond being a number), what
a proof of a step holds (`CompletedStepIsProven`, `FailedStepIsNotProven`)
are recursive over code and bytes; their properties are checked on all inputs within the
bounds. `RightVerdict` of the bots is checked as well: a proof would have to follow the
searches of two bots through their trees along the whole game, with the exceptions that
section 3 names.

## 5. Not modelled

* **`EVMTokenBag`, `CALL` and the token functions of `STATICCALL`.** The bag is not part of the state
  hash and `Verifier` hydrates none, so no dispute can be about it; only `EthereumRuntime`
  and its tests use one.
* **The precompiled contracts except `identity`**: cryptography. Their call, gas and
  result handling is that of `identity`.
* **`challenger/`**: a second bot whose moves in a dispute are those of `ExecutionPoker`. It
  also registers a result for every task with a proof of zeros, which `register` always
  refuses, and counts nonces itself; `index.js:35` passes it a variable that is
  not defined.
* **`PlasmaVerifier`** (fixed answers), **tools and scripts**, the test doubles
  (`contracts/mocks`, `EthereumRuntimeAdapter.js`, `EthereumRuntime.execute`).
* **`setEnforcer`** happens before the first state.
* **How a bot gets the code** (`getCodeForParams`): it takes the first twenty bytes of the code
  hash for an address, so code given by its hash is not supported by the bots.
* **A restart of a bot.** All its state is in memory, nothing is read back from the
  chain: after a restart it takes no further part in old disputes, which is the same
  as missing their events, and the game then goes on as in `honest` with a player who does nothing.
