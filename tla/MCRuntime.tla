----------------------------- MODULE MCRuntime -----------------------------
(***************************************************************************)
(* Programs for HydratedRun, with words of two bytes of two bits.          *)
(***************************************************************************)
EXTENDS HydratedRun

MCKeccak(bytes) == FoldLeft(LAMBDA h, b : (5 * h + b + 3) % 16, Len(bytes), bytes)

Cell(op, n, value) == [op |-> op, n |-> n, byte |-> value]
Do(op) == <<Cell(op, 0, 2)>>
\* PUSH1 or PUSH2; DUPn and SWAPn.
V(v) == IF v < 4 THEN <<Cell("PUSH", 1, 0), Cell("STOP", 0, v)>>
        ELSE <<Cell("PUSH", 2, 1), Cell("STOP", 0, v \div 4), Cell("STOP", 0, v % 4)>>
Nth(op, n) == <<Cell(op, n, 3)>>

\* An instruction on the operands args, the first on top.
Apply(op, args) == FlattenSeq([i \in 1 .. Len(args) |-> V(args[Len(args) + 1 - i])]) \o Do(op)

Run(code, callData, gas) == [code |-> code, callData |-> callData, gas |-> gas]
Stop == Do("STOP")
Plenty == 3000
Data == <<1, 2, 3>>

Arithmetic ==
    {Run(Apply(op, <<a, b>>) \o Stop, << >>, Plenty) : op \in Binary \union {"EXP"}, a, b \in Word}
    \union {Run(Apply("EXP", <<3, b>>) \o Stop, << >>, gas) : b \in {0, 3, 4}, gas \in {16, 66, 100}}
    \union {Run(Apply(op, <<a>>) \o Stop, Data, Plenty) : op \in Unary, a \in Word}
    \union {Run(Apply(op, <<a, b, c>>) \o Stop, << >>, Plenty) :
               op \in Ternary, a, b \in {0, 7, 9, 15}, c \in {0, 1, 4, 15}}

Preludes == {<< >>, Apply("MSTORE", <<0, 9>>), Apply("MSTORE", <<3, 6>>)}
Tail2 == Apply("MLOAD", <<2>>) \o Do("MSIZE") \o Stop

MemoryCode ==
    {Apply(op, <<offset, length>>) \o Stop :
        op \in {"SHA3", "RETURN", "REVERT"}, offset \in {0, 1, 2, 3, 5}, length \in 0 .. 4}
    \union {Apply("MLOAD", <<offset>>) \o Tail2 : offset \in {0, 1, 2, 4, 5, 15}}
    \union {Apply(op, <<offset, 11>>) \o Tail2 : op \in {"MSTORE", "MSTORE8"}, offset \in {0, 1, 2, 5, 6}}
    \union {Apply("CALLDATACOPY", <<dest, source, length>>) \o Tail2 :
               dest \in {0, 3}, source \in {0, 1, 3, 4}, length \in {0, 1, 3}}
    \union {Apply("CODECOPY", <<dest, source, length>>) \o Tail2 :
               dest \in {0, 3}, source \in {0, 1, 2, 5, 6, 14}, length \in {0, 1, 3}}

Memory == {Run(prelude \o code, callData, gas) :
              prelude \in Preludes, code \in MemoryCode, callData \in {<< >>, Data}, gas \in {20, Plenty}}

\* STATICCALL with all the gas, or with too little.
Call(gasLimit, target, inOffset, inLength, outOffset, outLength) ==
    V(outLength) \o V(outOffset) \o V(inLength) \o V(inOffset) \o V(target) \o gasLimit \o
    Do("STATICCALL")
Calls ==
    {Run(prelude \o Call(gasLimit, target, inOffset, inLength, outOffset, outLength) \o
             Do("RETURNDATASIZE") \o Stop, << >>, Plenty) :
        prelude \in Preludes, gasLimit \in {Do("GAS"), V(9)}, target \in {0, 4, 9, 12},
        inOffset \in {0, 1, 2}, inLength \in {0, 1, 2, 3}, outOffset \in {0, 3}, outLength \in {0, 3}}
    \union {Run(prelude \o Call(Do("GAS"), target, inOffset, inLength, outOffset, 2) \o Stop, << >>, Plenty) :
               prelude \in Preludes, target \in {4, 9}, inOffset, outOffset \in {0, 6, 8}, inLength \in {0, 2}}
Returned ==
    {Run(Apply("MSTORE", <<0, 9>>) \o Call(Do("GAS"), 4, 0, inLength, 0, 0) \o
             Apply("RETURNDATACOPY", <<dest, source, length>>) \o Tail2, << >>, Plenty) :
        inLength \in {0, 2}, dest \in {0, 1, 3}, source \in {0, 1, 3}, length \in {0, 1, 2}}

\* Memory that was filled by RETURNDATACOPY without being counted, and then, behind a
\* call that returns nothing, is counted after all.
Recalled ==
    {Run(Apply("MSTORE", <<0, 9>>) \o Call(Do("GAS"), 4, 0, 2, 0, 0) \o
             Apply("RETURNDATACOPY", <<dest, 0, 2>>) \o Call(Do("GAS"), 4, 0, 0, 0, 0) \o Tail2,
         << >>, Plenty) : dest \in {0, 1, 3}}

\* Jumps: loops that run out of gas or of stack, loops that end, jumps to the right
\* and the wrong places, and a jump into what a PUSH pushes.
Data1(op) == <<Cell("PUSH", 1, 0), Cell(op, 0, 1)>>
Jumps ==
    {Do("JUMPDEST") \o Apply("JUMP", <<0>>),
     Do("JUMPDEST") \o Do("CALLER") \o Apply("JUMP", <<0>>),
     Do("JUMPDEST") \o Apply("MSTORE8", <<0, 1>>) \o Do("MSIZE") \o Do("POP") \o Apply("JUMP", <<0>>),
     V(3) \o Do("JUMPDEST") \o V(1) \o Nth("SWAP", 1) \o Do("SUB") \o Nth("DUP", 1) \o V(2) \o
         Do("JUMPI") \o Stop,
     Data1("JUMPDEST") \o Apply("JUMP", <<1>>) \o Stop,
     Data1("JUMPDEST") \o V(1) \o V(1) \o Do("JUMPI") \o Stop}
    \union {Apply("JUMP", <<dest>>) \o Do("JUMPDEST") \o Stop : dest \in 0 .. 6}
    \union {V(cond) \o V(dest) \o Do("JUMPI") \o Do("JUMPDEST") \o Stop : cond \in {0, 1}, dest \in {0, 3, 6, 7}}

Depths == {FlattenSeq([i \in 1 .. n |-> V(i)]) : n \in 0 .. 8}
Stacks == {depth \o Nth(op, n) \o Do("ADD") \o Nth("SWAP", 2) \o Stop :
              depth \in Depths, op \in {"DUP", "SWAP"}, n \in 1 .. 4}
          \union {depth \o Do(op) \o Stop : depth \in Depths, op \in {"POP", "SIGNEXTEND", "ADDMOD", "STATICCALL"}}

\* All sequences of four out of instructions that move words between stack and memory.
Moves == {V(1), V(5), Nth("DUP", 1), Nth("DUP", 2), Nth("SWAP", 1), Nth("SWAP", 2), Do("MSTORE"),
          Do("MSTORE8"), Do("MLOAD"), Do("POP")}
Mixed == {V(9) \o V(0) \o a \o b \o c \o d \o Stop : a, b, c, d \in Moves}

\* Code that ends without an instruction that ends it, within or behind a PUSH.
Ends == {Do("CALLER"), V(2), <<Cell("PUSH", 2, 0)>>, <<Cell("PUSH", 2, 0), Cell("STOP", 0, 3)>>,
         Do("CALLER") \o <<Cell("PUSH", 2, 0), Cell("STOP", 0, 3)>>}

Others == {Do(op) \o Stop : op \in Environment \union {"INVALID"}}
          \union {Apply(op, <<1, 2, 3, 1, 2, 3, 1>>) \o Stop : op \in Unsupported \ {"GASLIMIT"}}
          \union {Do("GASLIMIT")}

MCPrograms ==
    Arithmetic \union Memory \union Calls \union Returned \union Recalled
    \union {Run(code, Data, gas) : code \in Jumps, gas \in {15, 60, 200}}
    \union {Run(code, Data, gas) : code \in Stacks \union Ends \union Others, gas \in {14, Plenty}}
    \union {Run(code, << >>, Plenty) : code \in Mixed}

=============================================================================
