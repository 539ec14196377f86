---------------------------- MODULE ChainRuntime ----------------------------
(***************************************************************************)
(* The on-chain runtime: one step of EVMRuntime._run on the libraries      *)
(* EVMStack, EVMMemory and EVMCode, as Verifier.submitProof calls it.  The *)
(* record e is the EVM struct: only the code fragments in e.fragments are  *)
(* known of e.code, e.stack holds only what the instruction needs, e.mem   *)
(* is the memory as a byte string of whole words.  Where a require or an   *)
(* assert fails the transaction reverts, and so does a loop that never     *)
(* ends: e.errno is then Reverts.  Words are written as in Words.tla; what *)
(* an instruction of the host chain computes is written here from its own  *)
(* definition and not from the off-chain handler.                          *)
(*                                                                         *)
(* Left out, as in Runtime.tla: the token bag, the other precompiled       *)
(* contracts, the wrap-around of an address plus a length at the word's    *)
(* width (no gas pays for such an address off chain).                      *)
(***************************************************************************)
EXTENDS Words, SequencesExt

CONSTANTS MaxStack, QuadDivisor, Caller, Address, Keccak(_)

Reverts == "transaction reverts"

\* A gas class of EVMConstants.sol, and what _run's table says of an opcode.
Row(fee, stackIn, stackOut) == [fee |-> fee, stackIn |-> stackIn, stackOut |-> stackOut]

GAS_BASE == 2
GAS_VERYLOW == 3
GAS_LOW == 5
GAS_MID == 8
GAS_HIGH == 10
GAS_CALL == 700

Table(op, n) ==
    CASE op \in {"STOP", "INVALID"} -> Row(0, 0, 0)
      [] op \in {"ADD", "SUB", "LT", "GT", "SLT", "SGT", "EQ", "AND", "OR", "XOR", "BYTE", "SHL",
                 "SHR", "SAR"} -> Row(GAS_VERYLOW, 2, 1)
      [] op \in {"MUL", "DIV", "SDIV", "MOD", "SMOD"} -> Row(GAS_LOW, 2, 1)
      [] op = "SIGNEXTEND" -> Row(GAS_LOW, 0, 0)
      [] op \in {"ADDMOD", "MULMOD"} -> Row(GAS_MID, 3, 1)
      [] op = "EXP" -> Row(10, 2, 1)
      [] op = "SHA3" -> Row(30, 2, 1)
      [] op \in {"ISZERO", "NOT", "CALLDATALOAD", "MLOAD"} -> Row(GAS_VERYLOW, 1, 1)
      [] op \in {"ADDRESS", "ORIGIN", "CALLER", "CALLVALUE", "CALLDATASIZE", "CODESIZE",
                 "GASPRICE", "RETURNDATASIZE", "COINBASE", "TIMESTAMP", "NUMBER", "DIFFICULTY",
                 "GASLIMIT", "PC", "MSIZE", "GAS"} -> Row(GAS_BASE, 0, 1)
      [] op \in {"CALLDATACOPY", "CODECOPY", "RETURNDATACOPY"} -> Row(GAS_VERYLOW, 3, 0)
      [] op \in {"MSTORE", "MSTORE8"} -> Row(GAS_VERYLOW, 2, 0)
      [] op \in {"BALANCE", "EXTCODEHASH"} -> Row(400, 1, 1)
      [] op = "EXTCODESIZE" -> Row(700, 1, 1)
      [] op = "EXTCODECOPY" -> Row(700, 4, 0)
      [] op = "BLOCKHASH" -> Row(20, 1, 1)
      [] op = "SLOAD" -> Row(200, 1, 1)
      [] op = "SSTORE" -> Row(0, 2, 0)
      [] op = "POP" -> Row(GAS_BASE, 1, 0)
      [] op = "JUMP" -> Row(GAS_MID, 1, 0)
      [] op = "JUMPI" -> Row(GAS_HIGH, 2, 0)
      [] op = "JUMPDEST" -> Row(1, 0, 0)
      [] op = "PUSH" -> Row(GAS_VERYLOW, 0, 1)
      [] op = "DUP" -> Row(GAS_VERYLOW, n, n + 1)
      [] op = "SWAP" -> Row(GAS_VERYLOW, n + 1, n + 1)
      [] op = "LOG" -> Row(375, n + 2, 0)
      [] op = "CREATE" -> Row(32000, 3, 1)
      [] op = "CREATE2" -> Row(32000, 4, 1)
      [] op = "CALLCODE" -> Row(GAS_CALL, 7, 1)
      [] op \in {"DELEGATECALL", "STATICCALL"} -> Row(GAS_CALL, 6, 1)
      [] op \in {"RETURN", "REVERT"} -> Row(0, 2, 0)
      [] op = "SELFDESTRUCT" -> Row(5000, 1, 0)

-----------------------------------------------------------------------------
\* Errors, gas and the stack.

Fine(e) == e.errno = "no error"
Fail(e, errno) == IF Fine(e) THEN [e EXCEPT !.errno = errno] ELSE e
Require(e, p) == IF p THEN e ELSE Fail(e, Reverts)

Pay(e, fee) ==
    IF ~Fine(e) THEN e
    ELSE IF fee > e.gas THEN Fail([e EXCEPT !.gas = 0], "out of gas")
    ELSE [e EXCEPT !.gas = @ - fee]

Peek(e, i) == e.stack[Len(e.stack) - i + 1]
pop(e, n) == [e EXCEPT !.stack = SubSeq(@, 1, Len(@) - n)]
push(e, v) == IF Fine(e) THEN [e EXCEPT !.stack = Append(@, v)] ELSE e

-----------------------------------------------------------------------------
\* EVMCode: fragments are words of the code, e.fragments the known ones.

Slot(pos) == pos \div WordBytes

getOpcodeAt(e, pos) ==
    IF pos >= Len(e.code) THEN [op |-> "STOP", n |-> 0, byte |-> 0] ELSE e.code[pos + 1]
OpcodeKnown(e, pos) == pos < Len(e.code) => Slot(pos) \in e.fragments

CodeBytes(e, pos, numBytes) ==
    [i \in 1 .. numBytes |-> IF pos + i \in DOMAIN e.code THEN e.code[pos + i].byte ELSE 0]

\* Whether toUint can read numBytes > 0 bytes: the first and, when they reach
\* into it, the next fragment.
UintKnown(e, pos, numBytes) ==
    pos < Len(e.code) => {Slot(pos), Slot(pos + numBytes - 1)} \subseteq e.fragments

\* Whether toBytes can: read from the beginning of a word the first fragment has to
\* be 0 or 1, for prevPos is still 0; the others have to be the ones behind it.
BytesKnown(e, pos, numBytes) ==
    pos < Len(e.code) =>
        /\ Slot(pos) \in e.fragments
        /\ numBytes > 0 =>
               /\ pos % WordBytes = 0 => Slot(pos) \in {0, 1}
               /\ Slot(pos) .. Slot(Min({pos + numBytes, Len(e.code)}) - 1) \subseteq e.fragments

-----------------------------------------------------------------------------
\* EVMMemory.

Size(e) == Len(e.mem) \div WordBytes

\* Slots come into being, with zeroes, when something in them is first used.
Touch(e, addr, len) ==
    IF len = 0 THEN e ELSE [e EXCEPT !.mem = PadToWords(@, WordsFor(addr + len))]

Store(e, addr, bytes) ==
    IF ~Fine(e) THEN e ELSE [Touch(e, addr, Len(bytes)) EXCEPT
                                !.mem = PadToWords(Overwrite(@, addr, bytes), 0)]

\* The length of bts less srcIdx wraps around when srcIdx lies behind the end: the
\* copy then never gets to its end.
storeBytesAndPadWithZeroes(e, bts, srcIdx, destIdx, len) ==
    Store(Require(e, srcIdx + len > Len(bts) => srcIdx <= Len(bts)), destIdx,
          Slice(bts, srcIdx, len))

\* What toBytes lays out in scratch space: a slot from start's on goes where its own
\* number says, not where it stands behind the first one.
Scratch(e, start, len, i) ==
    IF Slot(i) \in Slot(start) .. Slot(start + len) /\ i < Len(e.mem) THEN e.mem[i + 1] ELSE 0

\* memUPtr, of which len bytes are then hashed.
HashedBytes(e, start, len) ==
    [i \in 1 .. len |-> Scratch(e, start, len, (start % WordBytes) + (i - 1))]

\* toBytes keeps the rounded length unless start lies within a word; then the string
\* is moved up, and its end lies in space that later allocations clear.
toBytes(e, start, len) ==
    LET size == WordBytes * WordsFor(len)
        startoff == start % WordBytes
    IN  [i \in 1 .. (IF startoff = 0 THEN size ELSE len) |->
            IF startoff + i <= size THEN Scratch(e, start, len, startoff + i - 1) ELSE 0]

computeGasForMemory(e, mAddr) ==
    LET cost(words) == words * 3 + (words * words) \div QuadDivisor
    IN  Max({0, cost(WordsFor(mAddr)) - cost(Size(e))})
computeGasForMemoryCopy(e, mAddr, len) == computeGasForMemory(e, mAddr + len) + 3 * WordsFor(len)

-----------------------------------------------------------------------------
\* The instructions of the host chain, as its definition has them.

sgn(a) == fromTwos(a)
sdiv(a, b) == IF b = 0 THEN 0 ELSE toTwos(Quotient(sgn(a), sgn(b)))
smod(a, b) ==
    IF b = 0 THEN 0 ELSE toTwos(sgn(a) - sgn(b) * Quotient(sgn(a), sgn(b)))
signextend(a, b) ==
    LET t == ByteBits * (a + 1) - 1
    IN  IF a >= WordBytes THEN b ELSE FromBits({i \in Bit : testn(b, IF i > t THEN t ELSE i)})
byte(n, x) == IF n >= WordBytes THEN 0 ELSE ToBytes(x)[n + 1]
shl(a, b) == FromBits({i \in Bit : i >= a /\ testn(b, i - a)})
shr(a, b) == FromBits({i \in Bit : i + a < WordBits /\ testn(b, i + a)})
sar(a, b) == FromBits({i \in Bit : testn(b, Min({i + a, WordBits - 1}))})
Flag(p) == IF p THEN 1 ELSE 0

ChainValue(op, a, b) ==
    CASE op = "ADD" -> (a + b) % TWO_POW256 [] op = "MUL" -> (a * b) % TWO_POW256
      [] op = "SUB" -> (a - b + TWO_POW256) % TWO_POW256
      [] op = "DIV" -> (IF b = 0 THEN 0 ELSE a \div b)
      [] op = "MOD" -> (IF b = 0 THEN 0 ELSE a - b * (a \div b))
      [] op = "SDIV" -> sdiv(a, b) [] op = "SMOD" -> smod(a, b)
      [] op = "SIGNEXTEND" -> signextend(a, b) [] op = "BYTE" -> byte(a, b)
      [] op = "SHL" -> shl(a, b) [] op = "SHR" -> shr(a, b) [] op = "SAR" -> sar(a, b)
      [] op = "LT" -> Flag(a < b) [] op = "GT" -> Flag(b < a) [] op = "EQ" -> Flag(a = b)
      [] op = "SLT" -> Flag(sgn(a) < sgn(b)) [] op = "SGT" -> Flag(sgn(b) < sgn(a))
      [] op = "AND" -> FromBits({i \in Bit : testn(a, i) /\ testn(b, i)})
      [] op = "OR" -> FromBits({i \in Bit : testn(a, i) \/ testn(b, i)})
      [] op = "XOR" -> FromBits({i \in Bit : testn(a, i) # testn(b, i)})

\* A word of the call data: the bytes behind its end are masked out.
callDataLoad(e, addr) ==
    IF addr >= Len(e.data) THEN 0 ELSE FromBytes(Slice(e.data, addr, WordBytes))

\* What an instruction pushes that only reads the struct.
ChainEnvironment(e, op) ==
    CASE op = "ADDRESS" -> Address [] op \in {"ORIGIN", "CALLER"} -> Caller
      [] op \in {"CALLVALUE", "TIMESTAMP", "NUMBER"} -> 0
      [] op = "CALLDATASIZE" -> Len(e.data) [] op = "CODESIZE" -> Len(e.code)
      [] op = "RETURNDATASIZE" -> Len(e.returnData) [] op = "PC" -> e.pc
      [] op = "MSIZE" -> WordBytes * Size(e) [] op = "GAS" -> e.gas

-----------------------------------------------------------------------------
\* The handlers that do more.  A jump leaves its destination in e.pc.

chainEXP(e) ==
    push(Pay(pop(e, 2), 50 * ByteLength(Peek(e, 2))), PowMod(Peek(e, 1), Peek(e, 2)))

chainSHA3(e) ==
    LET p == Peek(e, 1)
        n == Peek(e, 2)
    IN  push(Pay(pop(e, 2), 6 * WordsFor(n) + computeGasForMemory(e, p + n)),
             Keccak(HashedBytes(e, p, n)))

\* CALLDATACOPY and RETURNDATACOPY.
chainCopy(e, source) ==
    storeBytesAndPadWithZeroes(
        Pay(pop(e, 3), computeGasForMemoryCopy(e, Peek(e, 1), Peek(e, 3))),
        source, Peek(e, 2), Peek(e, 1), Peek(e, 3))

chainCODECOPY(e) ==
    LET paid == Pay(pop(e, 3), computeGasForMemoryCopy(e, Peek(e, 1), Peek(e, 3)))
    IN  Store(Require(paid, BytesKnown(e, Peek(e, 2), Peek(e, 3))), Peek(e, 1),
              CodeBytes(e, Peek(e, 2), Peek(e, 3)))

chainMLOAD(e) ==
    LET paid == Pay(pop(e, 1), computeGasForMemory(e, Peek(e, 1) + WordBytes))
    IN  push(IF Fine(paid) THEN Touch(paid, Peek(e, 1), WordBytes) ELSE paid,
             FromBytes(Slice(e.mem, Peek(e, 1), WordBytes)))

chainMSTORE(e) ==
    Store(Pay(pop(e, 2), computeGasForMemory(e, Peek(e, 1) + WordBytes)),
          Peek(e, 1), ToBytes(Peek(e, 2)))
chainMSTORE8(e) ==
    Store(Pay(pop(e, 2), computeGasForMemory(e, Peek(e, 1) + 1)),
          Peek(e, 1), <<Peek(e, 2) % ByteBase>>)

\* A plausible bug of JumpTo, which no specification here uses: any destination
\* within the code is taken.
JumpAnywhere(e, dest) ==
    IF dest >= Len(e.code) THEN Fail(e, "invalid jump destination") ELSE [e EXCEPT !.pc = dest]

\* Only the byte at the destination is looked at, not whether it is code.
JumpTo(e, dest) ==
    IF dest >= Len(e.code) THEN Fail(e, "invalid jump destination")
    ELSE LET known == Require(e, OpcodeKnown(e, dest))
         IN  IF getOpcodeAt(e, dest).op = "JUMPDEST" THEN [known EXCEPT !.pc = dest]
             ELSE Fail(known, "invalid jump destination")
chainJUMP(e) == JumpTo(pop(e, 1), Peek(e, 1))
chainJUMPI(e) ==
    IF Peek(e, 2) = 0 THEN [pop(e, 2) EXCEPT !.pc = @ + 1] ELSE JumpTo(pop(e, 2), Peek(e, 1))

chainPUSH(e, n) ==
    push(Require(e, UintKnown(e, e.pc + 1, n)), FromBytes(CodeBytes(e, e.pc + 1, n)))

\* STATICCALL: the callee gets its gas, and gives back what it leaves.  Of the target
\* only an address is left.  The identity is the one contract modelled, any other
\* target counts as a failed call.
chainSTATICCALL(e) ==
    LET target == Peek(e, 2) % 2^AddressBits
        inEnd == Peek(e, 3) + Peek(e, 4)
        retEnd == Peek(e, 5) + Peek(e, 6)
        paid == Pay(pop(e, 6), computeGasForMemory(e, Max({inEnd, retEnd})))
        gas == Min({Peek(e, 1), paid.gas})
        cData == toBytes(e, Peek(e, 3), Peek(e, 4))
        gasFee == 15 + 3 * WordsFor(Len(cData))
        failed == [push(paid, 0) EXCEPT !.returnData = << >>]
        stored == storeBytesAndPadWithZeroes(push(paid, 1), cData, 0, Peek(e, 5), Peek(e, 6))
    IN  IF ~Fine(paid) THEN paid
        ELSE IF target # 4 THEN failed
        ELSE IF gasFee > gas THEN [failed EXCEPT !.gas = @ - gas]
        ELSE [stored EXCEPT !.returnData = cData, !.gas = @ - gasFee]

\* RETURN, and REVERT without its error.
chainRETURN(e) ==
    LET paid == Pay(pop(e, 2), computeGasForMemory(e, Peek(e, 1) + Peek(e, 2)))
    IN  IF Fine(paid) THEN [paid EXCEPT !.returnData = toBytes(e, Peek(e, 1), Peek(e, 2))]
        ELSE paid

-----------------------------------------------------------------------------
\* One turn of _run's loop.

ChainHandle(e, cell) ==
    LET op == cell.op
        top == Len(e.stack)
    IN  CASE op \in {"ADD", "MUL", "SUB", "DIV", "SDIV", "MOD", "SMOD", "SIGNEXTEND", "LT", "GT",
                     "SLT", "SGT", "EQ", "AND", "OR", "XOR", "BYTE", "SHL", "SHR", "SAR"} ->
                 IF top < 2 THEN Fail(e, Reverts)
                 ELSE push(pop(e, 2), ChainValue(op, Peek(e, 1), Peek(e, 2)))
          [] op = "ADDMOD" ->
                 push(pop(e, 3), IF Peek(e, 3) = 0 THEN 0
                                 ELSE (Peek(e, 1) + Peek(e, 2)) % Peek(e, 3))
          [] op = "MULMOD" ->
                 push(pop(e, 3), IF Peek(e, 3) = 0 THEN 0
                                 ELSE (Peek(e, 1) * Peek(e, 2)) % Peek(e, 3))
          [] op = "ISZERO" -> push(pop(e, 1), Flag(Peek(e, 1) = 0))
          [] op = "NOT" -> push(pop(e, 1), MAX_INTEGER - Peek(e, 1))
          [] op = "CALLDATALOAD" -> push(pop(e, 1), callDataLoad(e, Peek(e, 1)))
          [] op = "BLOCKHASH" -> push(pop(e, 1), 0)
          [] op \in {"ADDRESS", "ORIGIN", "CALLER", "CALLVALUE", "CALLDATASIZE", "CODESIZE",
                     "RETURNDATASIZE", "TIMESTAMP", "NUMBER", "PC", "MSIZE", "GAS"} ->
                 push(e, ChainEnvironment(e, op))
          [] op = "EXP" -> chainEXP(e) [] op = "SHA3" -> chainSHA3(e)
          [] op = "CALLDATACOPY" -> chainCopy(e, e.data)
          [] op = "RETURNDATACOPY" -> chainCopy(e, e.returnData)
          [] op = "CODECOPY" -> chainCODECOPY(e)
          [] op = "POP" -> pop(e, 1) [] op = "MLOAD" -> chainMLOAD(e)
          [] op = "MSTORE" -> chainMSTORE(e) [] op = "MSTORE8" -> chainMSTORE8(e)
          [] op = "JUMP" -> chainJUMP(e) [] op = "JUMPI" -> chainJUMPI(e)
          [] op \in {"JUMPDEST", "STOP"} -> e
          [] op = "PUSH" -> chainPUSH(e, cell.n)
          [] op = "DUP" -> push(e, Peek(e, cell.n))
          [] op = "SWAP" -> [e EXCEPT !.stack[top] = Peek(e, cell.n + 1),
                                      !.stack[top - cell.n] = Peek(e, 1)]
          [] op = "STATICCALL" -> chainSTATICCALL(e)
          [] op = "RETURN" -> chainRETURN(e)
          [] op = "REVERT" -> Fail(chainRETURN(e), "state reverted")
          [] op = "INVALID" -> Fail(e, "invalid opcode")
          [] OTHER -> Fail(e, "instruction not supported")

CheckStack(e, row) ==
    IF Len(e.stack) < row.stackIn THEN Fail(e, "stack underflow")
    ELSE IF row.stackOut > row.stackIn /\ Len(e.stack) + row.stackOut - row.stackIn > MaxStack
    THEN Fail(e, "stack overflow")
    ELSE e

HandleIfFine(e, cell) == IF Fine(e) THEN ChainHandle(e, cell) ELSE e

\* The program counter moves on only behind an instruction that neither failed nor
\* ends the program.
Advance(e, pc, cell) ==
    IF ~Fine(e) \/ cell.op \in {"STOP", "RETURN", "REVERT", "SELFDESTRUCT"} THEN [e EXCEPT !.pc = pc]
    ELSE IF cell.op \in {"JUMP", "JUMPI"} THEN e
    ELSE [e EXCEPT !.pc = pc + (IF cell.op = "PUSH" THEN cell.n + 1 ELSE 1)]

\* The fee is paid before the stack is looked at.
RunOne(e) ==
    LET cell == getOpcodeAt(e, e.pc)
        row == Table(cell.op, cell.n)
        paid == Pay(Require(e, OpcodeKnown(e, e.pc)), row.fee)
    IN  Advance(HandleIfFine(CheckStack(paid, row), cell), e.pc, cell)

=============================================================================
