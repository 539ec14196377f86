------------------------------ MODULE Runtime ------------------------------
(***************************************************************************)
(* The off-chain runtime (utils/EVMRuntime.js): what one step does to the  *)
(* run state s.  A cell of the code is what one byte of it can be read as: *)
(* an opcode op (with its number n for PUSHn, DUPn and SWAPn) and a byte   *)
(* value.  The stack is a sequence with its top at the end, the memory a   *)
(* byte string.  s.codeReads, s.memRead and s.memWrite are what the        *)
(* proxies of RangeProofHelper.js see during the step.  A thrown VmError   *)
(* is s.error; after it nothing else happens in the step.                  *)
(*                                                                         *)
(* Left out: CALL and the token functions of STATICCALL, which work on the *)
(* token bag; the precompiled contracts other than the identity; the block *)
(* hash, time and number, which neither side is given (they read as 0).    *)
(***************************************************************************)
EXTENDS Words, SequencesExt

CONSTANTS
    MaxStack,      \* 1024
    MaxMemWords,   \* MAX_MEM_WORD_COUNT, 256
    QuadDivisor,   \* 512
    Caller, Address,
    Keccak(_)      \* keccak256 of a byte string, as a word

ASSUME RuntimeAssumption ==
    /\ MaxStack \in Nat /\ MaxMemWords \in Nat /\ QuadDivisor \in Nat \ {0}
    /\ Caller \in Word /\ Address \in Word

NoError == "none"

\* <<fee, off stack, on stack>> of an opcode; n numbers a LOG.
OPCODES(op, n) ==
    CASE op \in {"ADD", "SUB", "LT", "GT", "SLT", "SGT", "EQ", "AND", "OR", "XOR", "BYTE", "SHL",
                 "SHR", "SAR"} -> <<3, 2, 1>>
      [] op \in {"MUL", "DIV", "SDIV", "MOD", "SMOD", "SIGNEXTEND"} -> <<5, 2, 1>>
      [] op \in {"ADDMOD", "MULMOD"} -> <<8, 3, 1>>
      [] op \in {"ISZERO", "NOT", "CALLDATALOAD", "MLOAD"} -> <<3, 1, 1>>
      [] op \in {"ADDRESS", "ORIGIN", "CALLER", "CALLVALUE", "CALLDATASIZE", "CODESIZE",
                 "GASPRICE", "RETURNDATASIZE", "COINBASE", "TIMESTAMP", "NUMBER", "DIFFICULTY",
                 "GASLIMIT", "PC", "MSIZE", "GAS"} -> <<2, 0, 1>>
      [] op \in {"CALLDATACOPY", "CODECOPY", "RETURNDATACOPY"} -> <<3, 3, 0>>
      [] op \in {"MSTORE", "MSTORE8"} -> <<3, 2, 0>>
      [] op \in {"PUSH", "DUP"} -> <<3, 0, 1>> [] op = "SWAP" -> <<3, 0, 0>>
      [] op \in {"STOP", "INVALID"} -> <<0, 0, 0>>
      [] op \in {"RETURN", "REVERT", "SSTORE"} -> <<0, 2, 0>>
      [] op \in {"BALANCE", "EXTCODEHASH"} -> <<400, 1, 1>>
      [] op \in {"DELEGATECALL", "STATICCALL"} -> <<700, 6, 1>>
      [] op = "EXP" -> <<10, 2, 1>> [] op = "SHA3" -> <<30, 2, 1>>
      [] op = "BLOCKHASH" -> <<20, 1, 1>> [] op = "POP" -> <<2, 1, 0>>
      [] op = "SLOAD" -> <<200, 1, 1>> [] op = "JUMP" -> <<8, 1, 0>>
      [] op = "JUMPI" -> <<10, 2, 0>> [] op = "JUMPDEST" -> <<1, 0, 0>>
      [] op = "LOG" -> <<375, n + 2, 0>> [] op = "EXTCODESIZE" -> <<700, 1, 1>>
      [] op = "EXTCODECOPY" -> <<700, 4, 0>> [] op = "CREATE" -> <<32000, 3, 1>>
      [] op = "CREATE2" -> <<32000, 4, 1>> [] op = "CALLCODE" -> <<700, 7, 1>>
      [] op = "SELFDESTRUCT" -> <<5000, 1, 0>>

-----------------------------------------------------------------------------
\* Stack, gas and memory.

Running(s) == s.error = NoError
Throw(s, error) == IF Running(s) THEN [s EXCEPT !.error = error] ELSE s

\* A plausible bug of subGas, which no specification here uses: the gas is compared
\* with the amount and not reduced.
ComparedOnly(s, amount) == IF s.gasLeft < amount THEN Throw(s, "out of gas") ELSE s

Arg(s, i) == s.stack[Len(s.stack) - i + 1]
Pop(s, n) == [s EXCEPT !.stack = SubSeq(@, 1, Len(@) - n)]
Push(s, v) == IF Running(s) THEN [s EXCEPT !.stack = Append(@, v)] ELSE s

subGas(s, amount) ==
    IF ~Running(s) THEN s
    ELSE IF s.gasLeft < amount THEN Throw([s EXCEPT !.gasLeft = 0], "out of gas")
    ELSE [s EXCEPT !.gasLeft = @ - amount]

MemCost(words) == words * 3 + (words * words) \div QuadDivisor

subMemUsage(s, offset, length) ==
    LET words == WordsFor(offset + length)
        cost == MemCost(words)
        paid == subGas(s, Max({0, cost - s.highestMemCost}))
    IN  IF length = 0 \/ words <= s.memoryWordCount \/ ~Running(s) THEN s
        ELSE IF ~Running(paid) THEN paid
        ELSE [paid EXCEPT !.highestMemCost = Max({@, cost}), !.memoryWordCount = words]

\* memLoad returns the bytes Loaded; this is what it does to s.
memLoad(s, offset, length) ==
    LET paid == subMemUsage(s, offset, length)
    IN  [paid EXCEPT !.memRead = @ \/ (Running(paid) /\ length > 0)]
Loaded(s, offset, length) == Slice(s.memory, offset, length)

\* The bytes of val from valOffset on, zeroes behind its end; an empty val leaves
\* the memory as it is.
Stored(s, offset, val, valOffset, length) ==
    IF ~Running(s) \/ length = 0 \/ val = << >> THEN s
    ELSE [s EXCEPT !.memory = Overwrite(@, offset, Slice(val, valOffset, length)),
                   !.memWrite = TRUE]
memStore(s, offset, val, valOffset, length, chargeMemory) ==
    Stored(IF chargeMemory THEN subMemUsage(s, offset, length) ELSE s,
           offset, val, valOffset, length)

-----------------------------------------------------------------------------
\* The value an instruction pushes, from the values it pops (a is the top).

Bool(p) == IF p THEN 1 ELSE 0

handleADD(a, b) == (a + b) % TWO_POW256
handleMUL(a, b) == (a * b) % TWO_POW256
handleSUB(a, b) == toTwos(a - b)
handleDIV(a, b) == IF b = 0 THEN 0 ELSE Quotient(a, b)
handleSDIV(a, b) == IF b = 0 THEN 0 ELSE toTwos(Quotient(fromTwos(a), fromTwos(b)))
handleMOD(a, b) == IF b = 0 THEN 0 ELSE a % b
handleSMOD(a, b) ==
    LET r == Abs(fromTwos(a)) % Abs(fromTwos(b))
    IN  IF b = 0 THEN 0 ELSE toTwos(IF fromTwos(a) < 0 THEN -r ELSE r)
handleADDMOD(a, b, c) == IF c = 0 THEN 0 ELSE (a + b) % c
handleMULMOD(a, b, c) == IF c = 0 THEN 0 ELSE (a * b) % c

handleSIGNEXTEND(k, val) ==
    LET signBit == k * ByteBits + (ByteBits - 1)
        mask == 2^signBit - 1
    IN  IF k >= WordBytes - 1 THEN val
        ELSE IF testn(val, signBit) THEN FromBits({i \in Bit : testn(val, i) \/ ~testn(mask, i)})
        ELSE FromBits({i \in Bit : testn(val, i) /\ testn(mask, i)})

handleLT(a, b) == Bool(a < b)
handleGT(a, b) == Bool(a > b)
handleSLT(a, b) == Bool(fromTwos(a) < fromTwos(b))
handleSGT(a, b) == Bool(fromTwos(a) > fromTwos(b))
handleEQ(a, b) == Bool(a = b)
handleISZERO(a) == Bool(a = 0)
handleAND(a, b) == FromBits({i \in Bit : testn(a, i) /\ testn(b, i)})
handleOR(a, b) == FromBits({i \in Bit : testn(a, i) \/ testn(b, i)})
handleXOR(a, b) == FromBits({i \in Bit : testn(a, i) # testn(b, i)})
handleNOT(a) == FromBits({i \in Bit : ~testn(a, i)})

handleBYTE(pos, word) ==
    IF pos >= WordBytes THEN 0
    ELSE (word \div 2^((WordBytes - 1 - pos) * ByteBits)) % ByteBase
handleSHL(a, b) == IF a >= WordBits THEN 0 ELSE (b * 2^a) % TWO_POW256
handleSHR(a, b) == IF a >= WordBits THEN 0 ELSE b \div 2^a
handleSAR(a, b) ==
    LET isSigned == testn(b, WordBits - 1)
        shiftedOutWidth == WordBits - 1 - a
    IN  IF a >= WordBits THEN (IF isSigned THEN MAX_INTEGER ELSE 0)
        ELSE FromBits({i \in Bit : testn(b \div 2^a, i) \/ (isSigned /\ i >= shiftedOutWidth)})

handleCALLDATALOAD(s, pos) ==
    IF pos > Len(s.callData) THEN 0 ELSE FromBytes(Slice(s.callData, pos, WordBytes))

\* The values of the instructions that pop one, two or three words.
UnaryValue(s, op, a) ==
    CASE op = "ISZERO" -> handleISZERO(a) [] op = "NOT" -> handleNOT(a)
      [] op = "CALLDATALOAD" -> handleCALLDATALOAD(s, a) [] op = "BLOCKHASH" -> 0

BinaryValue(op, a, b) ==
    CASE op = "ADD" -> handleADD(a, b) [] op = "MUL" -> handleMUL(a, b)
      [] op = "SUB" -> handleSUB(a, b) [] op = "DIV" -> handleDIV(a, b)
      [] op = "SDIV" -> handleSDIV(a, b) [] op = "MOD" -> handleMOD(a, b)
      [] op = "SMOD" -> handleSMOD(a, b) [] op = "SIGNEXTEND" -> handleSIGNEXTEND(a, b)
      [] op = "LT" -> handleLT(a, b) [] op = "GT" -> handleGT(a, b)
      [] op = "SLT" -> handleSLT(a, b) [] op = "SGT" -> handleSGT(a, b)
      [] op = "EQ" -> handleEQ(a, b) [] op = "AND" -> handleAND(a, b)
      [] op = "OR" -> handleOR(a, b) [] op = "XOR" -> handleXOR(a, b)
      [] op = "BYTE" -> handleBYTE(a, b) [] op = "SHL" -> handleSHL(a, b)
      [] op = "SHR" -> handleSHR(a, b) [] op = "SAR" -> handleSAR(a, b)

TernaryValue(op, a, b, c) ==
    IF op = "ADDMOD" THEN handleADDMOD(a, b, c) ELSE handleMULMOD(a, b, c)

\* The instructions that push something the run state holds; the program counter
\* already stands behind the instruction.
EnvironmentValue(s, op) ==
    CASE op = "ADDRESS" -> Address [] op \in {"ORIGIN", "CALLER"} -> Caller
      [] op \in {"CALLVALUE", "TIMESTAMP", "NUMBER"} -> 0
      [] op = "CALLDATASIZE" -> Len(s.callData) [] op = "CODESIZE" -> Len(s.code)
      [] op = "RETURNDATASIZE" -> Len(s.returnValue) [] op = "PC" -> s.programCounter - 1
      [] op = "MSIZE" -> s.memoryWordCount * WordBytes [] op = "GAS" -> s.gasLeft

Unary == {"ISZERO", "NOT", "CALLDATALOAD", "BLOCKHASH"}
Binary == {"ADD", "MUL", "SUB", "DIV", "SDIV", "MOD", "SMOD", "SIGNEXTEND", "LT", "GT", "SLT",
           "SGT", "EQ", "AND", "OR", "XOR", "BYTE", "SHL", "SHR", "SAR"}
Ternary == {"ADDMOD", "MULMOD"}
Environment == {"ADDRESS", "ORIGIN", "CALLER", "CALLVALUE", "CALLDATASIZE", "CODESIZE",
                "RETURNDATASIZE", "TIMESTAMP", "NUMBER", "PC", "MSIZE", "GAS"}
Unsupported == {"BALANCE", "EXTCODESIZE", "EXTCODECOPY", "EXTCODEHASH", "GASPRICE", "COINBASE",
                "DIFFICULTY", "GASLIMIT", "SLOAD", "SSTORE", "LOG", "CREATE", "CREATE2",
                "CALLCODE", "DELEGATECALL", "SELFDESTRUCT"}

\* All the instructions that are modelled.
Instructions ==
    Unary \union Binary \union Ternary \union Environment \union Unsupported
    \union {"EXP", "SHA3", "CALLDATACOPY", "CODECOPY", "RETURNDATACOPY", "POP", "MLOAD", "MSTORE",
            "MSTORE8", "JUMP", "JUMPI", "JUMPDEST", "PUSH", "DUP", "SWAP", "STOP", "STATICCALL",
            "RETURN", "REVERT", "INVALID"}

\* What one byte of a code can be; there is no PUSH, DUP or SWAP 0.
CodeCell == {cell \in [op : Instructions, n : Nat, byte : Byte] :
                cell.op \in {"PUSH", "DUP", "SWAP"} => cell.n > 0}

-----------------------------------------------------------------------------
\* The instructions that do more than push a value.

handleEXP(s) ==
    LET base == Arg(s, 1)
        exponent == Arg(s, 2)
        popped == Pop(s, 2)
    IN  IF exponent = 0 THEN Push(popped, 1)
        ELSE Push(subGas(popped, 50 * ByteLength(exponent)), PowMod(base, exponent))

handleSHA3(s) ==
    LET offset == Arg(s, 1)
        length == Arg(s, 2)
        loaded == memLoad(Pop(s, 2), offset, length)
    IN  Push(subGas(loaded, 6 * WordsFor(length)), Keccak(Loaded(s, offset, length)))

handleCALLDATACOPY(s) ==
    LET paid == subGas(Pop(s, 3), 3 * WordsFor(Arg(s, 3)))
    IN  memStore(paid, Arg(s, 1), s.callData, Arg(s, 2), Arg(s, 3), TRUE)

\* The proxy around the code sees which bytes are copied.
handleCODECOPY(s) ==
    LET codeOffset == Arg(s, 2)
        length == Arg(s, 3)
        paid == subGas(Pop(s, 3), 3 * WordsFor(length))
        stored == memStore(paid, Arg(s, 1), [i \in DOMAIN s.code |-> s.code[i].byte],
                           codeOffset, length, TRUE)
        reads == IF Running(stored) THEN codeOffset .. codeOffset + length - 1 ELSE {}
    IN  [stored EXCEPT !.codeReads = @ \union reads]

handleRETURNDATACOPY(s) ==
    LET paid == subGas(Pop(s, 3), 3 * WordsFor(Arg(s, 3)))
    IN  IF Arg(s, 2) + Arg(s, 3) > Len(s.returnValue) THEN Throw(Pop(s, 3), "out of gas")
        ELSE memStore(paid, Arg(s, 1), s.returnValue, Arg(s, 2), Arg(s, 3), FALSE)

handleMLOAD(s) ==
    Push(memLoad(Pop(s, 1), Arg(s, 1), WordBytes), FromBytes(Loaded(s, Arg(s, 1), WordBytes)))
handleMSTORE(s) == memStore(Pop(s, 2), Arg(s, 1), ToBytes(Arg(s, 2)), 0, WordBytes, TRUE)
handleMSTORE8(s) == memStore(Pop(s, 2), Arg(s, 1), <<Arg(s, 2) % ByteBase>>, 0, 1, TRUE)

\* Both jumps go on at pc, which HydratedRuntime adds to the code the step reads.
Continue(s, pc) == [s EXCEPT !.programCounter = pc, !.codeReads = @ \union {pc}]
handleJUMP(s) ==
    IF Arg(s, 1) \in s.validJumps THEN Continue(Pop(s, 1), Arg(s, 1))
    ELSE Throw(Pop(s, 1), "invalid JUMP")
handleJUMPI(s) ==
    IF Arg(s, 2) = 0 THEN Continue(Pop(s, 2), s.programCounter)
    ELSE IF Arg(s, 1) \in s.validJumps THEN Continue(Pop(s, 2), Arg(s, 1))
    ELSE Throw(Pop(s, 2), "invalid JUMP")

\* The numToPush bytes behind the instruction, with zeroes behind the code's end.
handlePUSH(s, numToPush) ==
    LET from == s.programCounter
        bytes == [i \in 1 .. numToPush |->
                     IF from + i \in DOMAIN s.code THEN s.code[from + i].byte ELSE 0]
    IN  [Push(s, FromBytes(bytes)) EXCEPT
            !.programCounter = from + numToPush,
            !.codeReads = @ \union from .. from + numToPush - 1]

handleDUP(s, stackPos) ==
    IF stackPos > Len(s.stack) THEN Throw(s, "stack underflow") ELSE Push(s, Arg(s, stackPos))
handleSWAP(s, stackPos) ==
    LET top == Len(s.stack)
        swap == top - stackPos
    IN  IF swap < 1 THEN Throw(s, "stack underflow")
        ELSE [s EXCEPT !.stack[top] = s.stack[swap], !.stack[swap] = s.stack[top]]

\* precompiled/04-identity.js.
Identity(gasLimit, data) ==
    LET gasUsed == 15 + 3 * WordsFor(Len(data))
    IN  IF gasLimit < gasUsed
        THEN [returnValue |-> << >>, gasUsed |-> gasLimit, exception |-> 0]
        ELSE [returnValue |-> data, gasUsed |-> gasUsed, exception |-> 1]

\* What Array.slice(0, n - 6) leaves of n elements: a negative end counts from the end.
DropSix(stack) ==
    LET n == Len(stack)
    IN  SubSeq(stack, 1, IF n >= 6 THEN n - 6 ELSE Max({0, 2 * n - 6}))

\* The result r of the contract, when its call was paid for.
Answered(s, r, outOffset, outLength) ==
    memStore(subGas([Push(s, r.exception) EXCEPT !.returnValue = r.returnValue], r.gasUsed),
             outOffset, r.returnValue, 0, outLength, TRUE)

CallPrecompile(s, toAddress, gasLimit, data, outOffset, outLength) ==
    IF ~Running(s) THEN s
    ELSE IF toAddress = 0 THEN Throw(s, "internal error")
    ELSE Answered(s, Identity(Min({gasLimit, s.gasLeft}), data), outOffset, outLength)

\* s has the input loaded and the operands off its stack.
CallNobody(s) ==
    IF Running(s)
    THEN Throw([s EXCEPT !.returnValue = << >>, !.stack = Append(DropSix(@), 0)],
               "instruction not supported")
    ELSE s

\* Any address but 0 and the identity's counts as nobody's.
handleSTATICCALL(s) ==
    LET loaded == memLoad(Pop(s, 6), Arg(s, 3), Arg(s, 4))
    IN  IF Arg(s, 2) \in {0, 4}
        THEN CallPrecompile(subMemUsage(loaded, Arg(s, 5), Arg(s, 6)), Arg(s, 2), Arg(s, 1),
                            Loaded(s, Arg(s, 3), Arg(s, 4)), Arg(s, 5), Arg(s, 6))
        ELSE CallNobody(loaded)

\* Both hand the memory over; a failing load leaves the return value alone.
Return(s) ==
    LET loaded == memLoad(Pop(s, 2), Arg(s, 1), Arg(s, 2))
    IN  IF Running(loaded)
        THEN [loaded EXCEPT !.returnValue = Loaded(s, Arg(s, 1), Arg(s, 2))] ELSE loaded
handleRETURN(s) == [Return(s) EXCEPT !.stopped = TRUE]
handleREVERT(s) == Throw(Return(s), "revert")

-----------------------------------------------------------------------------
\* One step, and the run state a run begins with.

Handle(s, cell) ==
    LET op == cell.op
    IN  CASE op \in Unary -> Push(Pop(s, 1), UnaryValue(s, op, Arg(s, 1)))
          [] op \in Binary -> Push(Pop(s, 2), BinaryValue(op, Arg(s, 1), Arg(s, 2)))
          [] op \in Ternary ->
                 Push(Pop(s, 3), TernaryValue(op, Arg(s, 1), Arg(s, 2), Arg(s, 3)))
          [] op \in Environment -> Push(s, EnvironmentValue(s, op))
          [] op = "EXP" -> handleEXP(s) [] op = "SHA3" -> handleSHA3(s)
          [] op = "CALLDATACOPY" -> handleCALLDATACOPY(s) [] op = "CODECOPY" -> handleCODECOPY(s)
          [] op = "RETURNDATACOPY" -> handleRETURNDATACOPY(s)
          [] op = "POP" -> Pop(s, 1) [] op = "MLOAD" -> handleMLOAD(s)
          [] op = "MSTORE" -> handleMSTORE(s) [] op = "MSTORE8" -> handleMSTORE8(s)
          [] op = "JUMP" -> handleJUMP(s) [] op = "JUMPI" -> handleJUMPI(s)
          [] op = "JUMPDEST" -> s [] op = "STOP" -> [s EXCEPT !.stopped = TRUE]
          [] op = "PUSH" -> handlePUSH(s, cell.n) [] op = "DUP" -> handleDUP(s, cell.n)
          [] op = "SWAP" -> handleSWAP(s, cell.n) [] op = "STATICCALL" -> handleSTATICCALL(s)
          [] op = "RETURN" -> handleRETURN(s) [] op = "REVERT" -> handleREVERT(s)
          [] op = "INVALID" -> Throw(s, "invalid opcode")
          [] op \in Unsupported -> Throw(s, "instruction not supported")

\* The stack is checked first, then the fee is paid, then the handler runs.
Charged(s, info) ==
    IF Len(s.stack) < info[2] THEN Throw(s, "stack underflow")
    ELSE IF Len(s.stack) - info[2] + info[3] > MaxStack THEN Throw(s, "stack overflow")
    ELSE subGas(s, info[1])
Handled(s, cell) == IF Running(s) THEN Handle([s EXCEPT !.programCounter = @ + 1], cell) ELSE s
WithinMemory(s) ==
    IF s.memoryWordCount > MaxMemWords THEN [s EXCEPT !.error = "internal error"] ELSE s

runNextStep(s) ==
    LET cell == s.code[s.programCounter + 1]
        fetched == [s EXCEPT !.codeReads = @ \union {s.programCounter}]
    IN  WithinMemory(Handled(Charged(fetched, OPCODES(cell.op, cell.n)), cell))

\* The condition of run's loop.
Halted(s) == s.stopped \/ ~Running(s) \/ s.programCounter >= Len(s.code)

\* Where an instruction begins when the code is read from its start: behind a PUSH
\* the bytes it pushes are skipped.
Starts(code) ==
    LET width(p) == IF code[p].op = "PUSH" THEN 1 + code[p].n ELSE 1
        upTo[p \in 0 .. Len(code)] ==
            IF p = 0 THEN {}
            ELSE LET before == upTo[p - 1]
                 IN  IF \E q \in before : p < q + width(q) THEN before ELSE before \union {p}
    IN  upTo[Len(code)]

\* mem is a sequence of words, each a string of WordBytes bytes.
initRunState(code, callData, stack, mem, pc, gasRemaining) ==
    [code |-> code, callData |-> callData, programCounter |-> pc, stack |-> stack,
     memory |-> FlattenSeq(mem), memoryWordCount |-> Len(mem),
     highestMemCost |-> MemCost(Len(mem)), gasLeft |-> gasRemaining, returnValue |-> << >>,
     stopped |-> FALSE, error |-> NoError,
     validJumps |-> {i - 1 : i \in {p \in Starts(code) : code[p].op = "JUMPDEST"}},
     codeReads |-> {}, memRead |-> FALSE, memWrite |-> FALSE]

=============================================================================
