---------------------------- MODULE HydratedRun ----------------------------
(***************************************************************************)
(* A run of HydratedRuntime.js: the off-chain runtime that exports, behind *)
(* every step, the state a player of the verification game commits to and  *)
(* what ProofHelper needs to have that one step repeated on chain.         *)
(*                                                                         *)
(* vm is the run state, cache what HydratedRuntime carries from step to    *)
(* step so as not to hash everything anew, step the state exported last    *)
(* and prev the one before it (at first, the initial state both players    *)
(* start from).  A hash is modelled by what is hashed: the hash of a stack *)
(* is the stack, that of the memory its words, ZERO_HASH the empty stack.  *)
(***************************************************************************)
EXTENDS Runtime

CONSTANT Programs   \* the [code, callData, gas] a run may begin with

ASSUME ProgramsAssumption ==
    \A p \in Programs :
        /\ p.code \in Seq(CodeCell) /\ p.code # << >>
        /\ p.callData \in Seq(Byte)
        /\ p.gas \in Nat

VARIABLES vm, cache, prev, step

vars == <<vm, cache, prev, step>>

Chain == INSTANCE ChainRuntime

-----------------------------------------------------------------------------
\* Plausible bugs of the definitions below; no specification here uses them.

\* DUP is taken at its word: it pops nothing, so nothing is supplied for it.
StackInOfTable(cell, c) ==
    Min({IF cell.op = "SWAP" THEN 2 * cell.n ELSE OPCODES(cell.op, cell.n)[2], Len(c.prevStack)})

\* SWAP is counted without the element it swaps the top with.
StackInOfSwap(cell, c) ==
    Min({IF cell.op \in {"SWAP", "DUP"} THEN cell.n ELSE OPCODES(cell.op, cell.n)[2],
         Len(c.prevStack)})

\* The cached memory is kept unless it grew or was read.
MemProofOfReads(s, c) ==
    IF s.memRead \/ Len(c.prevMem) # s.memoryWordCount
    THEN AsWords(PadToWords(s.memory, s.memoryWordCount)) ELSE c.prevMem

\* Only what was written is exported, not the words that were merely paid for.
SerialisedAsWritten(memory, words) == AsWords(PadToWords(memory, 0))

-----------------------------------------------------------------------------
\* Hashes.

stackHashes(stack, sibling) ==
    [i \in 1 .. Len(stack) + 1 |-> sibling \o SubSeq(stack, 1, i - 1)]

\* The memory as hashed: every word begun, and zeroes up to the words paid for.
Serialised(memory, words) == AsWords(PadToWords(memory, words))

\* Merkelizer.initialStateHash.
initialState(callData, gas) ==
    [op |-> "none", data |-> callData, compactStack |-> << >>, compactStackHash |-> << >>,
     stackHash |-> << >>, stackSize |-> 0, mem |-> << >>, memSize |-> 0, memUsed |-> FALSE,
     returnData |-> << >>, pc |-> 0, errno |-> NoError, gasRemaining |-> gas,
     codeReads |-> {}, counted |-> 0]

\* What stateHash hashes of an exported state.
stateHash(x) ==
    [stackHash |-> x.stackHash, mem |-> x.mem, data |-> x.data, pc |-> x.pc,
     gasRemaining |-> x.gasRemaining, stackSize |-> x.stackSize, memSize |-> x.memSize,
     returnData |-> x.returnData]

-----------------------------------------------------------------------------
\* What a step of HydratedRuntime adds to one of EVMRuntime: s is the run state
\* behind the step, cell the instruction.

calculateMemProof(s, c) ==
    IF s.memRead \/ s.memWrite \/ Len(c.prevMem) # s.memoryWordCount
    THEN Serialised(s.memory, s.memoryWordCount)
    ELSE c.prevMem

\* How many elements of the previous stack the step may have looked at.
StackIn(cell, c) ==
    LET n == CASE cell.op = "SWAP" -> 2 * cell.n
               [] cell.op = "DUP" -> cell.n
               [] OTHER -> OPCODES(cell.op, cell.n)[2]
    IN  Min({n, Len(c.prevStack)})

\* The elements taken off the previous stack, its hash below them, and the caches
\* with the elements the stack now has above that.
calculateStackProof(s, cell, c) ==
    LET kept == Len(c.prevStack) - StackIn(cell, c)
        sibling == c.stackHashes[kept + 1]
        newElements == SubSeq(s.stack, kept + 1, Len(s.stack))
        partialHashes == stackHashes(newElements, sibling)
        hashes == SubSeq(c.stackHashes, 1, kept + 1) \o Tail(partialHashes)
        changed == StackIn(cell, c) # 0 \/ Len(c.prevStack) # Len(s.stack)
    IN  IF changed
        THEN [compactStack |-> SubSeq(c.prevStack, kept + 1, Len(c.prevStack)),
              compactStackHash |-> sibling,
              prevStack |-> SubSeq(c.prevStack, 1, kept) \o newElements,
              stackHashes |-> hashes]
        ELSE [compactStack |-> << >>, compactStackHash |-> Last(c.stackHashes),
              prevStack |-> c.prevStack, stackHashes |-> c.stackHashes]

\* RETURN, STOP and a failing step leave the exported program counter where it was.
exportedPc(from, s, cell) ==
    IF Running(s) /\ cell.op \notin {"RETURN", "STOP"} THEN s.programCounter ELSE from

\* The exported state; counted is the runtime's own memory word count.
exported(from, s, cell, c) ==
    LET stackProof == calculateStackProof(s, cell, c)
        mem == calculateMemProof(s, c)
    IN  [op |-> cell.op, data |-> s.callData, compactStack |-> stackProof.compactStack,
         compactStackHash |-> stackProof.compactStackHash,
         stackHash |-> Last(stackProof.stackHashes), stackSize |-> Len(s.stack),
         mem |-> mem, memSize |-> Len(mem), memUsed |-> s.memRead \/ s.memWrite,
         returnData |-> s.returnValue, pc |-> exportedPc(from, s, cell), errno |-> s.error,
         gasRemaining |-> s.gasLeft, codeReads |-> {r \in s.codeReads : r < Len(s.code)},
         counted |-> s.memoryWordCount]

\* The caches of a run that begins in s.
freshCache(s) ==
    [prevStack |-> s.stack, stackHashes |-> stackHashes(s.stack, << >>), prevMem |-> << >>]

-----------------------------------------------------------------------------
\* ProofHelper.constructProof for the step from left to right, and what
\* Verifier.submitProof does with it.

\* The code fragments a proof supplies.
neededSlots(right) == {r \div WordBytes : r \in right.codeReads}

\* The struct the on-chain runtime begins with.  Memory is only supplied where the
\* step used it; the call data always is.
executionInput(code, left, right) ==
    [code |-> code, fragments |-> neededSlots(right), data |-> left.data,
     stack |-> right.compactStack, mem |-> IF right.memUsed THEN FlattenSeq(left.mem) ELSE << >>,
     gas |-> left.gasRemaining, returnData |-> left.returnData, pc |-> left.pc,
     errno |-> "no error"]

\* The state hash after the step: without memory its hash and size stay as they were.
hashAfter(left, right, e) ==
    [stackHash |-> right.compactStackHash \o e.stack,
     mem |-> IF e.mem = << >> THEN left.mem ELSE AsWords(e.mem),
     data |-> left.data, pc |-> e.pc, gasRemaining |-> e.gas,
     stackSize |-> Len(e.stack) + (left.stackSize - Len(right.compactStack)),
     memSize |-> IF e.mem = << >> THEN left.memSize ELSE Chain!Size(e),
     returnData |-> e.returnData]

\* Whether the submission is taken up at all: the supplied parts hash to the left
\* state, and at the end of the execution the instruction is one that ends it.
inputAccepted(code, left, right, isLast) ==
    /\ right.compactStackHash \o right.compactStack = left.stackHash
    /\ Len(right.compactStack) <= left.stackSize
    /\ isLast => Chain!getOpcodeAt([code |-> code], left.pc).op \in {"STOP", "RETURN", "REVERT"}

\* Whether the step goes through on chain, for a solver.
runAccepted(left, right, e) ==
    /\ e.errno \in {"no error", "state reverted"}
    /\ hashAfter(left, right, e).stackSize <= MaxStack
    /\ hashAfter(left, right, e).memSize < MaxMemWords

submitProof(code, left, right, isLast) ==
    LET e == Chain!RunOne(executionInput(code, left, right))
    IN  /\ inputAccepted(code, left, right, isLast)
        /\ runAccepted(left, right, e)
        /\ hashAfter(left, right, e) = stateHash(right)

-----------------------------------------------------------------------------
\* The run.

Init ==
    \E p \in Programs :
        /\ vm = initRunState(p.code, p.callData, << >>, << >>, 0, p.gas)
        /\ cache = freshCache(vm)
        /\ prev = initialState(p.callData, p.gas)
        /\ step = initialState(p.callData, p.gas)

carried(s, cell, c) ==
    LET stackProof == calculateStackProof(s, cell, c)
    IN  [prevStack |-> stackProof.prevStack, stackHashes |-> stackProof.stackHashes,
         prevMem |-> calculateMemProof(s, c)]

runNext ==
    /\ ~Halted(vm)
    /\ \E s \in {runNextStep([vm EXCEPT !.codeReads = {}])} :
           LET cell == vm.code[vm.programCounter + 1]
           IN  /\ prev' = step
               /\ step' = exported(vm.programCounter, s, cell, cache)
               /\ cache' = carried(s, cell, cache)
               /\ vm' = [s EXCEPT !.memRead = FALSE, !.memWrite = FALSE]

\* One action for every opcode, so that each of them is seen to happen.
Execute(op) == /\ vm.programCounter \in 0 .. Len(vm.code) - 1
               /\ vm.code[vm.programCounter + 1].op = op
               /\ runNext

Next == \E op \in Instructions : Execute(op)

Spec == Init /\ [][Next]_vars

-----------------------------------------------------------------------------
\* Where the two runtimes are known to part.  Each operator describes the state
\* before the step (prev) and the instruction (step.op); the README tells the cause.

Operand(i) == prev.stackHash[Len(prev.stackHash) - i + 1]

GrowsMemory(offset, length) == WordsFor(offset + length) > prev.memSize

\* On chain a range of length 0 is paid for up to its offset, and where no memory
\* is supplied it is paid for from 0 on.
EmptyRangePaid(offset, length) == length = 0 /\ offset > 0

\* Memory beyond slot 0 is laid out at the wrong place, and reading does not make
\* the memory grow on chain.
MisreadRange(offset, length) ==
    length > 0 /\ (offset >= WordBytes \/ GrowsMemory(offset, length))

\* The string handed over is longer than asked for, or its end is overwritten.
MisplacedTail(offset, length) ==
    IF offset % WordBytes = 0 THEN length % WordBytes # 0
    ELSE (offset % WordBytes) + length > WordBytes * WordsFor(length)

MemoryOps == {"SHA3", "RETURN", "REVERT", "MLOAD", "MSTORE", "MSTORE8", "CALLDATACOPY",
              "CODECOPY", "RETURNDATACOPY", "STATICCALL"}

\* RETURNDATACOPY fills memory the off-chain runtime does not count.
Uncounted == step.op \in MemoryOps /\ prev.memSize # prev.counted

ReadDiverges ==
    /\ step.op \in {"SHA3", "RETURN", "REVERT"}
    /\ \/ EmptyRangePaid(Operand(1), Operand(2))
       \/ MisreadRange(Operand(1), Operand(2))
       \/ step.op # "SHA3" /\ Operand(2) > 0 /\ MisplacedTail(Operand(1), Operand(2))

\* A copy from behind the end of the source never ends on chain, and from an empty
\* source it writes zeroes only there.
CopyDiverges ==
    /\ step.op \in {"CALLDATACOPY", "RETURNDATACOPY"}
    /\ LET source == IF step.op = "CALLDATACOPY" THEN prev.data ELSE prev.returnData
       IN  \/ EmptyRangePaid(Operand(1), Operand(3))
           \/ Operand(2) > Len(source)
           \/ source = << >> /\ Operand(3) > 0
           \/ step.op = "RETURNDATACOPY" /\ GrowsMemory(Operand(1), Operand(3))

\* A copy of code from the beginning of its third or a later word, or of no bytes
\* from a word that is not supplied.
CodeCopyDiverges ==
    /\ step.op = "CODECOPY"
    /\ \/ EmptyRangePaid(Operand(1), Operand(3))
       \/ /\ Operand(2) < Len(vm.code)
          /\ IF Operand(3) = 0 THEN Operand(2) \div WordBytes \notin neededSlots(step)
             ELSE Operand(2) % WordBytes = 0 /\ Operand(2) >= 2 * WordBytes

CallDiverges ==
    /\ step.op = "STATICCALL"
    /\ IF Operand(4) = 0 THEN Operand(6) > 0 \/ Operand(3) > 0 \/ Operand(5) > 0
       ELSE \/ MisreadRange(Operand(3), Operand(4))
            \/ MisplacedTail(Operand(3), Operand(4))
            \/ Operand(6) = 0 /\ GrowsMemory(Operand(5), 0)
            \/ step.returnData = << >> /\ GrowsMemory(Operand(5), Operand(6))

\* What a PUSH reads behind the code's end lies in a word the code does not have.
PushDiverges ==
    LET n == vm.code[prev.pc + 1].n
    IN  /\ step.op = "PUSH" /\ prev.pc + 1 < Len(vm.code)
        /\ (prev.pc + n) \div WordBytes > (Len(vm.code) - 1) \div WordBytes

\* No memory is supplied for MSIZE.
SizeDiverges == step.op = "MSIZE" /\ prev.memSize > 0

\* Refused by submitProof itself: an end of the code without an instruction that
\* ends it, and a memory of exactly the permitted size.
Refused ==
    \/ Halted(vm) /\ step.op \notin {"STOP", "RETURN", "REVERT"}
    \/ step.memSize >= MaxMemWords

Diverges ==
    \/ Uncounted \/ ReadDiverges \/ CopyDiverges \/ CodeCopyDiverges
    \/ CallDiverges \/ PushDiverges \/ SizeDiverges \/ Refused

\* What the on-chain runtime lets pass though the off-chain one fails: a jump to a
\* byte of data that reads as JUMPDEST, a copy of return data past its end, a call
\* to no known contract, and a read that takes the memory over its limit.
JumpIntoData(dest) ==
    dest < Len(vm.code) /\ vm.code[dest + 1].op = "JUMPDEST" /\ dest \notin vm.validJumps
CopiesPastEnd ==
    /\ Len(prev.stackHash) >= 3
    /\ Operand(2) <= Len(prev.returnData) /\ Operand(2) + Operand(3) > Len(prev.returnData)

CallsNobody == Len(prev.stackHash) >= 6 /\ Operand(2) # 4

ReadsPastLimit ==
    \/ step.op \in {"SHA3", "RETURN", "REVERT"}
    \/ step.op = "STATICCALL" /\ WordsFor(Operand(3) + Operand(4)) > MaxMemWords

Lenient ==
    \/ step.op \in {"JUMP", "JUMPI"} /\ prev.stackHash # << >> /\ JumpIntoData(Operand(1))
    \/ step.op = "RETURNDATACOPY" /\ CopiesPastEnd
    \/ step.op = "STATICCALL" /\ CallsNobody
    \/ step.errno = "internal error" /\ ReadsPastLimit

-----------------------------------------------------------------------------
\* Properties.

Stepped == step.op # "none"

\* An honest player can have every step proven that went through off chain: the
\* on-chain runtime, given what ProofHelper sends, arrives at the very state
\* HydratedRuntime exported (Verifier.submitProof against HydratedRuntime.js), but
\* for the cases named above.
CompletedStepIsProven ==
    Stepped /\ step.errno \in {NoError, "revert"} /\ ~Diverges =>
        submitProof(vm.code, prev, step, Halted(vm))

\* A step that failed off chain does not go through on chain with what the off-chain
\* runtime exports for it (the error paths of EVMRuntime.js against those of
\* EVMRuntime.sol), but for the cases named above.
FailedStepIsNotProven ==
    Stepped /\ step.errno \notin {NoError, "revert"} /\ ~Lenient =>
        ~runAccepted(prev, step, Chain!RunOne(executionInput(vm.code, prev, step)))

\* The stack and the stack hashes that HydratedRuntime carries from step to step, of which
\* it recomputes only what the step took off and put on, are those that hashing the whole
\* stack anew would give (calculateStackProof with its clipped ranges for SWAP and DUP,
\* HydratedRuntime.js 131-178): else a step's proof would begin in a state that never was.
\* Excepted is a failed call, which may drop six elements more.
StackCacheIsCurrent ==
    ~(step.op = "STATICCALL" /\ step.errno # NoError) =>
        /\ cache.prevStack = vm.stack
        /\ cache.stackHashes = stackHashes(vm.stack, << >>)

\* The memory that is serialised only when the proxies saw it used or when it grew, and
\* the cost already paid for it, are current too (calculateMemProof, HydratedRuntime.js
\* 98-129; subMemUsage).
MemoryCacheIsCurrent ==
    /\ cache.prevMem = Serialised(vm.memory, vm.memoryWordCount)
    /\ vm.highestMemCost = MemCost(vm.memoryWordCount)

SameResult(a, b) ==
    /\ a.stack = b.stack /\ a.gasLeft = b.gasLeft /\ a.programCounter = b.programCounter
    /\ a.error = b.error /\ a.stopped = b.stopped /\ a.returnValue = b.returnValue
    /\ Serialised(a.memory, a.memoryWordCount) = Serialised(b.memory, b.memoryWordCount)

\* A run that is begun anew from an exported state goes on as the run that exported
\* it (initRunState with stack, mem, pc and gasRemaining).  Excepted are the return data,
\* which initRunState does not take, and memory that RETURNDATACOPY filled without
\* counting it (EVMRuntime.js:660): it is exported, so the new run counts it.
ExportResumes ==
    LET resumed == initRunState(vm.code, vm.callData, step.stackHash, step.mem, step.pc,
                                step.gasRemaining)
    IN  ~Halted(vm) /\ vm.returnValue = << >> /\ step.memSize <= step.counted =>
            SameResult(runNextStep(vm), runNextStep(resumed))

\* Every run comes to an end, whatever the code: an instruction that does not end it
\* costs gas, and nothing ever gives gas back (the loop of EVMRuntime.run has no other
\* bound, and the depth of the players' trees follows from it).
GasBoundsTheRun == [][Halted(vm') \/ vm'.gasLeft < vm.gasLeft]_vars

=============================================================================
