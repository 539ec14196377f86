------------------------------ MODULE RunProofs ------------------------------
(***************************************************************************)
(* A run, for all programs, words, stacks and memories.                    *)
(*                                                                         *)
(* First StackCacheIsCurrent: the stack that HydratedRuntime carries from  *)
(* step to step is the run's own.  Nothing is said of the words            *)
(* themselves, which may be anything: that an instruction leaves alone all *)
(* but the elements it takes off is a matter of positions.  So the proof   *)
(* goes up from sequences without types over the parts of a step (gas and  *)
(* memory leave the stack alone) and the handlers, one lemma each, to the  *)
(* step, and from there to the caches, which are patched together from a   *)
(* prefix of the old and the new part.                                     *)
(*                                                                         *)
(* Then gas and memory: GasBoundsTheRun, MemoryCacheIsCurrent and          *)
(* ExportResumes.  That gas only goes down needs every price to be a       *)
(* natural number, and prices are computed from the words of the run.  So  *)
(* the proof goes up from the operators on words, which return numbers,    *)
(* over the parts of a step and the handlers to the step: each of them     *)
(* leads from a run state with numbers in it to a later one (Goes).        *)
(*                                                                         *)
(* That a run can be begun anew goes up the same way, from pairs of run    *)
(* states that read the same memory, however long it is (Alike), over the  *)
(* parts of a step, to the step.                                           *)
(***************************************************************************)
EXTENDS HydratedRun, RecursionProofs

-----------------------------------------------------------------------------
\* Arithmetic.

LEMMA SmallerOfTwo ==
    ASSUME NEW a \in Int, NEW b \in Int
    PROVE  Min({a, b}) = IF a <= b THEN a ELSE b
  BY DEF Min

-----------------------------------------------------------------------------
\* What the parts of a step do to the stack.

Fields == {"code", "callData", "programCounter", "stack", "memory", "memoryWordCount",
           "highestMemCost", "gasLeft", "returnValue", "stopped", "error", "validJumps",
           "codeReads", "memRead", "memWrite"}

IsRun(s) == DOMAIN s = Fields /\ IsSeq(s.stack)

\* t has the stack of s.
SameStack(s, t) == IsRun(t) /\ t.code = s.code /\ t.stack = s.stack

LEMMA ThrowKeeps ==
    ASSUME NEW s, NEW e, IsRun(s)
    PROVE  SameStack(s, Throw(s, e))
  BY DEF SameStack, IsRun, Throw, Fields

LEMMA subGasKeeps ==
    ASSUME NEW s, NEW amount, IsRun(s)
    PROVE  SameStack(s, subGas(s, amount))
  BY DEF SameStack, IsRun, subGas, Throw, Fields

LEMMA subMemUsageKeeps ==
    ASSUME NEW s, NEW offset, NEW length, IsRun(s)
    PROVE  SameStack(s, subMemUsage(s, offset, length))
  <1> DEFINE cost == MemCost(WordsFor(offset + length))
             paid == subGas(s, Max({0, cost - s.highestMemCost}))
  <1>1. SameStack(s, paid)
    BY subGasKeeps
  <1>2. SameStack(s, s)
    BY DEF SameStack
  <1>3. SameStack(s, [paid EXCEPT !.highestMemCost = Max({@, cost}),
                                  !.memoryWordCount = WordsFor(offset + length)])
    <2> HIDE DEF paid
    <2> QED BY <1>1 DEF SameStack, IsRun, Fields
  <1>4. QED
    BY <1>1, <1>2, <1>3 DEF subMemUsage

LEMMA memLoadKeeps ==
    ASSUME NEW s, NEW offset, NEW length, IsRun(s)
    PROVE  SameStack(s, memLoad(s, offset, length))
  <1> DEFINE paid == subMemUsage(s, offset, length)
  <1>1. SameStack(s, paid)
    BY subMemUsageKeeps
  <1> HIDE DEF paid
  <1>2. SameStack(s, [paid EXCEPT !.memRead = @ \/ (Running(paid) /\ length > 0)])
    BY <1>1 DEF SameStack, IsRun, Fields
  <1>3. QED
    BY <1>2 DEF memLoad, paid

LEMMA StoredKeeps ==
    ASSUME NEW s, NEW offset, NEW val, NEW valOffset, NEW length, IsRun(s)
    PROVE  SameStack(s, Stored(s, offset, val, valOffset, length))
  <1>1. SameStack(s, s)
    BY DEF SameStack
  <1>2. SameStack(s, [s EXCEPT !.memory = Overwrite(@, offset, Slice(val, valOffset, length)),
                               !.memWrite = TRUE])
    BY DEF SameStack, IsRun, Fields
  <1>3. QED
    BY <1>1, <1>2 DEF Stored

LEMMA memStoreKeeps ==
    ASSUME NEW s, NEW offset, NEW val, NEW valOffset, NEW length,
           NEW chargeMemory \in BOOLEAN, IsRun(s)
    PROVE  SameStack(s, memStore(s, offset, val, valOffset, length, chargeMemory))
  <1>1. SameStack(s, subMemUsage(s, offset, length))
    BY subMemUsageKeeps
  <1>2. SameStack(s, s)
    BY DEF SameStack
  <1>3. QED
    BY <1>1, <1>2, StoredKeeps DEF memStore, SameStack

\* t has the stack of s but for its last n elements.
Below(s, t, n) ==
    /\ IsRun(t) /\ t.code = s.code
    /\ Len(t.stack) >= Len(s.stack) - n
    /\ \A i \in 1 .. Len(s.stack) - n : t.stack[i] = s.stack[i]

LEMMA NewStack ==
    ASSUME NEW s, IsRun(s), NEW q, IsSeq(q)
    PROVE  LET t == [s EXCEPT !.stack = q] IN IsRun(t) /\ t.code = s.code /\ t.stack = q
  BY DEF IsRun, Fields

LEMMA PopKeeps ==
    ASSUME NEW s, IsRun(s), NEW n \in 0 .. Len(s.stack)
    PROVE  /\ Below(s, Pop(s, n), n)
           /\ Len(Pop(s, n).stack) = Len(s.stack) - n
  <1> DEFINE left == SubSeq(s.stack, 1, Len(s.stack) - n)
  <1>0. Len(s.stack) \in Nat
    BY IsSeqLen DEF IsRun
  <1>1. /\ IsSeq(left)
        /\ Len(left) = Len(s.stack) - n
        /\ \A i \in 1 .. Len(s.stack) - n : left[i] = s.stack[i]
    BY <1>0, PrefixIsSeq DEF IsRun
  <1>2. Pop(s, n) = [s EXCEPT !.stack = left]
    BY DEF Pop
  <1> HIDE DEF left
  <1>3. IsRun(Pop(s, n)) /\ Pop(s, n).code = s.code /\ Pop(s, n).stack = left
    BY <1>1, <1>2, NewStack
  <1>4. QED
    BY <1>0, <1>1, <1>3 DEF Below

LEMMA PushKeeps ==
    ASSUME NEW s, IsRun(s), NEW v
    PROVE  Below(s, Push(s, v), 0)
  <1> DEFINE more == Append(s.stack, v)
  <1>0. Len(s.stack) \in Nat
    BY IsSeqLen DEF IsRun
  <1>1. /\ IsSeq(more)
        /\ Len(more) = Len(s.stack) + 1
        /\ \A i \in 1 .. Len(s.stack) : more[i] = s.stack[i]
    BY AppendIsSeq DEF IsRun
  <1> HIDE DEF more
  <1>2. CASE Running(s)
    <2>1. Push(s, v) = [s EXCEPT !.stack = more]
      BY <1>2 DEF Push, more
    <2>2. IsRun(Push(s, v)) /\ Push(s, v).code = s.code /\ Push(s, v).stack = more
      BY <1>1, <2>1, NewStack
    <2>3. QED
      BY <1>0, <1>1, <2>2 DEF Below
  <1>3. CASE ~Running(s)
    BY <1>0, <1>3 DEF Push, Below
  <1>4. QED
    BY <1>2, <1>3

\* The same for one step of the program behind another.
LEMMA SameIsBelow ==
    ASSUME NEW s, NEW t, IsRun(s), SameStack(s, t)
    PROVE  Below(s, t, 0)
  BY IsSeqLen DEF SameStack, Below, IsRun

LEMMA BelowThenBelow ==
    ASSUME NEW s, NEW t, NEW u, NEW n \in Nat, IsRun(s), Below(s, t, n), Below(t, u, 0)
    PROVE  Below(s, u, n)
  <1>1. Len(s.stack) \in Nat /\ Len(t.stack) \in Nat /\ Len(u.stack) \in Nat
    BY IsSeqLen DEF Below, IsRun
  <1>2. QED
    BY <1>1 DEF Below

LEMMA BelowThenSame ==
    ASSUME NEW s, NEW t, NEW u, NEW n \in Nat, IsRun(s), Below(s, t, n), SameStack(t, u)
    PROVE  Below(s, u, n)
  BY DEF Below, SameStack

LEMMA SameThenBelow ==
    ASSUME NEW s, NEW t, NEW u, NEW n \in Nat, IsRun(s), SameStack(s, t), Below(t, u, n)
    PROVE  Below(s, u, n)
  BY DEF Below, SameStack

LEMMA BelowMore ==
    ASSUME NEW s, NEW t, NEW n \in Nat, NEW m \in Nat, n <= m, IsRun(s), Below(s, t, n)
    PROVE  Below(s, t, m)
  <1>1. Len(s.stack) \in Nat /\ Len(t.stack) \in Nat
    BY IsSeqLen DEF Below, IsRun
  <1>2. QED
    BY <1>1 DEF Below

LEMMA FailKeeps ==
    ASSUME NEW s, NEW e, NEW m \in Nat, IsRun(s)
    PROVE  Below(s, Throw(s, e), m)
  <1>1. SameStack(s, Throw(s, e)) /\ Len(s.stack) \in Nat
    BY ThrowKeeps, IsSeqLen DEF IsRun
  <1>2. QED
    BY <1>1 DEF SameStack, Below

-----------------------------------------------------------------------------
\* The handlers: each leaves alone all but the elements its instruction takes off.

LEMMA PopThenSame ==
    ASSUME NEW s, NEW u, NEW n \in 0 .. Len(s.stack), IsRun(s), SameStack(Pop(s, n), u)
    PROVE  Below(s, u, n)
  <1>1. n \in Nat
    BY IsSeqLen DEF IsRun
  <1>2. QED
    BY <1>1, PopKeeps, BelowThenSame

LEMMA PopThenBelow ==
    ASSUME NEW s, NEW u, NEW n \in 0 .. Len(s.stack), IsRun(s), Below(Pop(s, n), u, 0)
    PROVE  Below(s, u, n)
  <1>1. n \in Nat
    BY IsSeqLen DEF IsRun
  <1>2. QED
    BY <1>1, PopKeeps, BelowThenBelow

LEMMA PopPush ==
    ASSUME NEW s, NEW v, NEW n \in 0 .. Len(s.stack), IsRun(s)
    PROVE  Below(s, Push(Pop(s, n), v), n)
  <1>1. IsRun(Pop(s, n))
    BY PopKeeps DEF Below
  <1>2. QED
    BY <1>1, PushKeeps, PopThenBelow

\* Something is paid for or loaded, then the result is pushed.
LEMMA SamePush ==
    ASSUME NEW s, NEW t, NEW v, IsRun(s), SameStack(s, t)
    PROVE  Below(s, Push(t, v), 0)
  <1>1. IsRun(t)
    BY DEF SameStack
  <1>2. QED
    BY <1>1, PushKeeps, SameThenBelow

LEMMA SameTwice ==
    ASSUME NEW s, NEW t, NEW u, SameStack(s, t), SameStack(t, u)
    PROVE  SameStack(s, u)
  BY DEF SameStack

LEMMA EXPKeeps ==
    ASSUME NEW s, IsRun(s), 2 \in 0 .. Len(s.stack)
    PROVE  Below(s, handleEXP(s), 2)
  <1> DEFINE paid == subGas(Pop(s, 2), 50 * ByteLength(Arg(s, 2)))
             power == PowMod(Arg(s, 1), Arg(s, 2))
  <1>1. Below(s, Push(Pop(s, 2), 1), 2)
    BY PopPush
  <1>2. IsRun(Pop(s, 2))
    BY PopKeeps DEF Below
  <1>3. Below(Pop(s, 2), Push(paid, power), 0)
    BY <1>2, subGasKeeps, SamePush
  <1>4. Below(s, Push(paid, power), 2)
    BY <1>3, PopThenBelow
  <1>5. QED
    BY <1>1, <1>4 DEF handleEXP

LEMMA SHA3Keeps ==
    ASSUME NEW s, IsRun(s), 2 \in 0 .. Len(s.stack)
    PROVE  Below(s, handleSHA3(s), 2)
  <1> DEFINE loaded == memLoad(Pop(s, 2), Arg(s, 1), Arg(s, 2))
             paid == subGas(loaded, 6 * WordsFor(Arg(s, 2)))
  <1>1. IsRun(Pop(s, 2))
    BY PopKeeps DEF Below
  <1>2. SameStack(Pop(s, 2), loaded)
    BY <1>1, memLoadKeeps
  <1>3. SameStack(loaded, paid)
    BY <1>2, subGasKeeps DEF SameStack
  <1>4. SameStack(Pop(s, 2), paid)
    BY <1>2, <1>3, SameTwice
  <1>5. Below(Pop(s, 2), handleSHA3(s), 0)
    BY <1>1, <1>4, SamePush DEF handleSHA3
  <1>6. QED
    BY <1>5, PopThenBelow

\* What the three copying instructions have in common.
LEMMA CopyKeeps ==
    ASSUME NEW s, IsRun(s), NEW n \in 0 .. Len(s.stack), NEW fee, NEW offset, NEW val,
           NEW valOffset, NEW length, NEW chargeMemory \in BOOLEAN
    PROVE  SameStack(Pop(s, n), memStore(subGas(Pop(s, n), fee), offset, val, valOffset, length,
                                         chargeMemory))
  <1>1. IsRun(Pop(s, n))
    BY PopKeeps DEF Below
  <1>2. SameStack(Pop(s, n), subGas(Pop(s, n), fee))
    BY <1>1, subGasKeeps
  <1>3. IsRun(subGas(Pop(s, n), fee))
    BY <1>2 DEF SameStack
  <1>4. QED
    BY <1>2, <1>3, memStoreKeeps, SameTwice

LEMMA CALLDATACOPYKeeps ==
    ASSUME NEW s, IsRun(s), 3 \in 0 .. Len(s.stack)
    PROVE  Below(s, handleCALLDATACOPY(s), 3)
  BY CopyKeeps, PopThenSame DEF handleCALLDATACOPY

LEMMA CODECOPYKeeps ==
    ASSUME NEW s, IsRun(s), 3 \in 0 .. Len(s.stack)
    PROVE  Below(s, handleCODECOPY(s), 3)
  <1> DEFINE stored == memStore(subGas(Pop(s, 3), 3 * WordsFor(Arg(s, 3))), Arg(s, 1),
                                [i \in DOMAIN s.code |-> s.code[i].byte], Arg(s, 2), Arg(s, 3),
                                TRUE)
             reads == IF Running(stored) THEN Arg(s, 2) .. Arg(s, 2) + Arg(s, 3) - 1 ELSE {}
  <1>1. SameStack(Pop(s, 3), stored)
    BY CopyKeeps
  <1>2. handleCODECOPY(s) = [stored EXCEPT !.codeReads = @ \union reads]
    BY DEF handleCODECOPY
  <1> HIDE DEF stored, reads
  <1>3. SameStack(stored, handleCODECOPY(s))
    BY <1>1, <1>2 DEF SameStack, IsRun, Fields
  <1>4. QED
    BY <1>1, <1>3, SameTwice, PopThenSame

LEMMA RETURNDATACOPYKeeps ==
    ASSUME NEW s, IsRun(s), 3 \in 0 .. Len(s.stack)
    PROVE  Below(s, handleRETURNDATACOPY(s), 3)
  <1>1. IsRun(Pop(s, 3))
    BY PopKeeps DEF Below
  <1>2. SameStack(Pop(s, 3), Throw(Pop(s, 3), "out of gas"))
    BY <1>1, ThrowKeeps
  <1>3. SameStack(Pop(s, 3), handleRETURNDATACOPY(s))
    BY <1>2, CopyKeeps DEF handleRETURNDATACOPY
  <1>4. QED
    BY <1>3, PopThenSame

LEMMA MLOADKeeps ==
    ASSUME NEW s, IsRun(s), 1 \in 0 .. Len(s.stack)
    PROVE  Below(s, handleMLOAD(s), 1)
  <1>1. IsRun(Pop(s, 1))
    BY PopKeeps DEF Below
  <1>2. Below(Pop(s, 1), handleMLOAD(s), 0)
    BY <1>1, memLoadKeeps, SamePush DEF handleMLOAD
  <1>3. QED
    BY <1>2, PopThenBelow

LEMMA MSTOREKeeps ==
    ASSUME NEW s, IsRun(s), 2 \in 0 .. Len(s.stack)
    PROVE  Below(s, handleMSTORE(s), 2) /\ Below(s, handleMSTORE8(s), 2)
  <1>1. IsRun(Pop(s, 2))
    BY PopKeeps DEF Below
  <1>2. SameStack(Pop(s, 2), handleMSTORE(s)) /\ SameStack(Pop(s, 2), handleMSTORE8(s))
    BY <1>1, memStoreKeeps DEF handleMSTORE, handleMSTORE8
  <1>3. QED
    BY <1>2, PopThenSame

LEMMA ContinueKeeps ==
    ASSUME NEW s, NEW pc, IsRun(s)
    PROVE  SameStack(s, Continue(s, pc))
  BY DEF SameStack, IsRun, Continue, Fields

LEMMA JUMPKeeps ==
    ASSUME NEW s, IsRun(s), 1 \in 0 .. Len(s.stack)
    PROVE  Below(s, handleJUMP(s), 1)
  <1>1. IsRun(Pop(s, 1))
    BY PopKeeps DEF Below
  <1>2. SameStack(Pop(s, 1), handleJUMP(s))
    BY <1>1, ContinueKeeps, ThrowKeeps DEF handleJUMP
  <1>3. QED
    BY <1>2, PopThenSame

LEMMA JUMPIKeeps ==
    ASSUME NEW s, IsRun(s), 2 \in 0 .. Len(s.stack)
    PROVE  Below(s, handleJUMPI(s), 2)
  <1>1. IsRun(Pop(s, 2))
    BY PopKeeps DEF Below
  <1>2. SameStack(Pop(s, 2), handleJUMPI(s))
    BY <1>1, ContinueKeeps, ThrowKeeps DEF handleJUMPI
  <1>3. QED
    BY <1>2, PopThenSame

LEMMA PUSHKeeps ==
    ASSUME NEW s, IsRun(s), NEW numToPush
    PROVE  Below(s, handlePUSH(s, numToPush), 0)
  <1>1. PICK t, pc, reads : /\ Below(s, t, 0)
                            /\ handlePUSH(s, numToPush) =
                                  [t EXCEPT !.programCounter = pc, !.codeReads = @ \union reads]
    BY PushKeeps DEF handlePUSH
  <1>2. IsRun(t)
    BY <1>1 DEF Below
  <1>3. SameStack(t, handlePUSH(s, numToPush))
    BY <1>1, <1>2 DEF SameStack, IsRun, Fields
  <1>4. QED
    BY <1>1, <1>3, BelowThenSame

LEMMA DUPKeeps ==
    ASSUME NEW s, IsRun(s), NEW stackPos
    PROVE  Below(s, handleDUP(s, stackPos), 0)
  <1>1. Below(s, Throw(s, "stack underflow"), 0)
    BY ThrowKeeps, SameIsBelow
  <1>2. Below(s, Push(s, Arg(s, stackPos)), 0)
    BY PushKeeps
  <1>3. QED
    BY <1>1, <1>2 DEF handleDUP

LEMMA SWAPKeeps ==
    ASSUME NEW s, IsRun(s), NEW stackPos \in Nat
    PROVE  Below(s, handleSWAP(s, stackPos), 2 * stackPos)
  <1> DEFINE top == Len(s.stack)
             swap == top - stackPos
             once == [s.stack EXCEPT ![top] = s.stack[swap]]
             swapped == [once EXCEPT ![swap] = s.stack[top]]
  <1>1. top \in Nat /\ 2 * stackPos \in Nat
    BY IsSeqLen DEF IsRun
  <1>2. CASE swap < 1
    <2>1. Below(s, Throw(s, "stack underflow"), 2 * stackPos)
      BY <1>1, FailKeeps
    <2>2. QED
      BY <1>2, <2>1 DEF handleSWAP
  <1>3. CASE ~(swap < 1)
    <2>1. top \in 1 .. Len(s.stack) /\ swap \in 1 .. Len(s.stack)
      BY <1>1, <1>3
    <2>2. s.stack \in Seq(Range(s.stack)) /\ DOMAIN s.stack = 1 .. Len(s.stack)
      BY IsSeqLen DEF IsRun, IsSeq
    <2>3. s.stack[top] \in Range(s.stack) /\ s.stack[swap] \in Range(s.stack)
      BY <2>1, <2>2 DEF Range
    <2>4. /\ once \in Seq(Range(s.stack)) /\ Len(once) = Len(s.stack)
          /\ \A j \in 1 .. Len(s.stack) : once[j] = IF j = top THEN s.stack[swap] ELSE s.stack[j]
      BY <2>1, <2>2, <2>3, ExceptSeq
    <2> HIDE DEF once
    <2>5. /\ swapped \in Seq(Range(s.stack)) /\ Len(swapped) = Len(once)
          /\ \A j \in 1 .. Len(once) : swapped[j] = IF j = swap THEN s.stack[top] ELSE once[j]
      BY <2>1, <2>3, <2>4, ExceptSeq
    <2>6. IsSeq(swapped) /\ Len(swapped) = Len(s.stack)
      BY <2>4, <2>5, SeqIsSeq
    <2>7. \A j \in 1 .. Len(s.stack) - 2 * stackPos : swapped[j] = s.stack[j]
      <3>1. SUFFICES ASSUME NEW j \in 1 .. Len(s.stack) - 2 * stackPos
                     PROVE  swapped[j] = s.stack[j]
        OBVIOUS
      <3>2. j \in 1 .. Len(s.stack) /\ (stackPos = 0 \/ j < swap)
        BY <1>1
      <3>3. CASE stackPos = 0
        BY <1>1, <2>4, <2>5, <3>2, <3>3
      <3>4. CASE j < swap
        BY <1>1, <2>4, <2>5, <3>2, <3>4
      <3>5. QED
        BY <3>2, <3>3, <3>4
    <2>8. handleSWAP(s, stackPos) = [s EXCEPT !.stack = swapped]
      BY <1>3 DEF handleSWAP, once
    <2> HIDE DEF swapped
    <2>9. /\ IsRun(handleSWAP(s, stackPos)) /\ handleSWAP(s, stackPos).code = s.code
          /\ handleSWAP(s, stackPos).stack = swapped
      BY <2>6, <2>8, NewStack
    <2>10. QED
      BY <1>1, <2>6, <2>7, <2>9 DEF Below
  <1>4. QED
    BY <1>2, <1>3

LEMMA ReturnKeeps ==
    ASSUME NEW s, IsRun(s), 2 \in 0 .. Len(s.stack)
    PROVE  SameStack(Pop(s, 2), Return(s))
  <1> DEFINE loaded == memLoad(Pop(s, 2), Arg(s, 1), Arg(s, 2))
             data == Loaded(s, Arg(s, 1), Arg(s, 2))
  <1>1. IsRun(Pop(s, 2))
    BY PopKeeps DEF Below
  <1>2. SameStack(Pop(s, 2), loaded)
    BY <1>1, memLoadKeeps
  <1>3. Return(s) = IF Running(loaded) THEN [loaded EXCEPT !.returnValue = data] ELSE loaded
    BY DEF Return
  <1> HIDE DEF loaded, data
  <1>4. SameStack(Pop(s, 2), [loaded EXCEPT !.returnValue = data])
    BY <1>2 DEF SameStack, IsRun, Fields
  <1>5. QED
    BY <1>2, <1>3, <1>4

LEMMA StopKeeps ==
    ASSUME NEW s, IsRun(s)
    PROVE  SameStack(s, [s EXCEPT !.stopped = TRUE])
  BY DEF SameStack, IsRun, Fields

LEMMA RETURNKeeps ==
    ASSUME NEW s, IsRun(s), 2 \in 0 .. Len(s.stack)
    PROVE  Below(s, handleRETURN(s), 2) /\ Below(s, handleREVERT(s), 2)
  <1>1. SameStack(Pop(s, 2), Return(s)) /\ IsRun(Return(s))
    BY ReturnKeeps DEF SameStack
  <1>2. SameStack(Pop(s, 2), handleRETURN(s)) /\ SameStack(Pop(s, 2), handleREVERT(s))
    BY <1>1, StopKeeps, ThrowKeeps, SameTwice DEF handleRETURN, handleREVERT
  <1>3. QED
    BY <1>2, PopThenSame

LEMMA AnsweredKeeps ==
    ASSUME NEW s, IsRun(s), NEW r, NEW outOffset, NEW outLength
    PROVE  Below(s, Answered(s, r, outOffset, outLength), 0)
  <1> DEFINE pushed == Push(s, r.exception)
             given == [pushed EXCEPT !.returnValue = r.returnValue]
             paid == subGas(given, r.gasUsed)
  <1>1. Below(s, pushed, 0) /\ IsRun(pushed)
    BY PushKeeps DEF Below
  <1>2. SameStack(pushed, given) /\ IsRun(given)
    <2> HIDE DEF pushed
    <2> QED BY <1>1 DEF SameStack, IsRun, Fields
  <1>3. SameStack(given, paid) /\ IsRun(paid)
    BY <1>2, subGasKeeps DEF SameStack
  <1>4. SameStack(paid, Answered(s, r, outOffset, outLength))
    BY <1>3, memStoreKeeps DEF Answered
  <1> HIDE DEF pushed, given, paid
  <1>5. SameStack(pushed, Answered(s, r, outOffset, outLength))
    BY <1>2, <1>3, <1>4, SameTwice
  <1>6. QED
    BY <1>1, <1>5, BelowThenSame

LEMMA PrecompileKeeps ==
    ASSUME NEW s, IsRun(s), NEW toAddress, NEW gasLimit, NEW data, NEW outOffset, NEW outLength
    PROVE  Below(s, CallPrecompile(s, toAddress, gasLimit, data, outOffset, outLength), 0)
  <1>1. Below(s, Throw(s, "internal error"), 0)
    BY ThrowKeeps, SameIsBelow
  <1>2. Below(s, s, 0)
    BY SameIsBelow DEF SameStack
  <1>3. QED
    BY <1>1, <1>2, AnsweredKeeps DEF CallPrecompile

LEMMA DropSixIsSeq ==
    ASSUME NEW q, IsSeq(q)
    PROVE  IsSeq(DropSix(q))
  <1>1. Len(q) \in Nat
    BY IsSeqLen
  <1>2. Max({0, 2 * Len(q) - 6}) = IF 2 * Len(q) - 6 > 0 THEN 2 * Len(q) - 6 ELSE 0
    BY <1>1 DEF Max
  <1> DEFINE k == IF Len(q) >= 6 THEN Len(q) - 6 ELSE Max({0, 2 * Len(q) - 6})
  <1>3. k \in 0 .. Len(q)
    BY <1>1, <1>2
  <1> HIDE DEF k
  <1>4. IsSeq(SubSeq(q, 1, k))
    BY <1>3, PrefixIsSeq
  <1>5. QED
    BY <1>4 DEF DropSix, k

LEMMA CallNobodyFails ==
    ASSUME NEW s, IsRun(s)
    PROVE  /\ IsRun(CallNobody(s)) /\ CallNobody(s).code = s.code
           /\ ~Running(CallNobody(s))
  <1> DEFINE q == Append(DropSix(s.stack), 0)
             dropped == [s EXCEPT !.returnValue = << >>, !.stack = q]
  <1>1. IsSeq(q)
    BY DropSixIsSeq, AppendIsSeq DEF IsRun
  <1>2. CallNobody(s) = IF Running(s) THEN Throw(dropped, "instruction not supported") ELSE s
    BY DEF CallNobody
  <1> HIDE DEF q
  <1>3. IsRun(dropped) /\ dropped.code = s.code
    BY <1>1 DEF IsRun, Fields
  <1>4. /\ SameStack(dropped, Throw(dropped, "instruction not supported"))
        /\ ~Running(Throw(dropped, "instruction not supported"))
    <2> HIDE DEF dropped
    <2>1. SameStack(dropped, Throw(dropped, "instruction not supported"))
      BY <1>3, ThrowKeeps
    <2>2. ~Running(Throw(dropped, "instruction not supported"))
      BY <1>3 DEF IsRun, Fields, Throw, Running, NoError
    <2>3. QED
      BY <2>1, <2>2
  <1> HIDE DEF dropped
  <1>5. QED
    BY <1>2, <1>3, <1>4 DEF SameStack

\* A call keeps the stack below its operands, or fails.
LEMMA STATICCALLKeeps ==
    ASSUME NEW s, IsRun(s), 6 \in 0 .. Len(s.stack)
    PROVE  LET t == handleSTATICCALL(s)
           IN  Below(s, t, 6) \/ (IsRun(t) /\ t.code = s.code /\ ~Running(t))
  <1> DEFINE loaded == memLoad(Pop(s, 6), Arg(s, 3), Arg(s, 4))
             paid == subMemUsage(loaded, Arg(s, 5), Arg(s, 6))
             called == CallPrecompile(paid, Arg(s, 2), Arg(s, 1), Loaded(s, Arg(s, 3), Arg(s, 4)),
                                      Arg(s, 5), Arg(s, 6))
  <1>1. Below(s, Pop(s, 6), 6) /\ IsRun(Pop(s, 6)) /\ Pop(s, 6).code = s.code
    BY PopKeeps DEF Below
  <1>2. SameStack(Pop(s, 6), loaded) /\ IsRun(loaded)
    BY <1>1, memLoadKeeps DEF SameStack
  <1>3. SameStack(loaded, paid) /\ IsRun(paid)
    BY <1>2, subMemUsageKeeps DEF SameStack
  <1>4. SameStack(Pop(s, 6), paid)
    BY <1>2, <1>3, SameTwice
  <1>5. Below(paid, called, 0)
    BY <1>3, PrecompileKeeps
  <1>6. handleSTATICCALL(s) = IF Arg(s, 2) \in {0, 4} THEN called ELSE CallNobody(loaded)
    BY DEF handleSTATICCALL
  <1> HIDE DEF loaded, paid, called
  <1>7. Below(s, called, 6)
    BY <1>1, <1>4, <1>5, SameThenBelow, PopThenBelow
  <1>8. /\ IsRun(CallNobody(loaded)) /\ CallNobody(loaded).code = s.code
        /\ ~Running(CallNobody(loaded))
    BY <1>1, <1>2, CallNobodyFails DEF SameStack
  <1>9. QED
    BY <1>6, <1>7, <1>8

-----------------------------------------------------------------------------
\* One instruction.

\* How many elements a step's proof hands over of the stack before it (StackIn, without
\* the clipping to what the stack has).
TakenOff(cell) ==
    CASE cell.op = "SWAP" -> 2 * cell.n
      [] cell.op = "DUP" -> cell.n
      [] OTHER -> OPCODES(cell.op, cell.n)[2]

LEMMA OpcodesPop ==
    ASSUME NEW n \in Nat
    PROVE  /\ \A op \in Unary : OPCODES(op, n)[2] = 1
           /\ \A op \in Binary : OPCODES(op, n)[2] = 2
           /\ \A op \in Ternary : OPCODES(op, n)[2] = 3
           /\ \A op \in Environment : OPCODES(op, n)[2] = 0
           /\ \A op \in Instructions : OPCODES(op, n)[2] \in Nat
  <1>1. \A op \in Unary : OPCODES(op, n)[2] = 1
    BY DEF Unary, OPCODES
  <1>2. \A op \in Binary : OPCODES(op, n)[2] = 2
    BY DEF Binary, OPCODES
  <1>3. \A op \in Ternary : OPCODES(op, n)[2] = 3
    BY DEF Ternary, OPCODES
  <1>4. \A op \in Environment : OPCODES(op, n)[2] = 0
    BY DEF Environment, OPCODES
  <1>5. \A op \in Unsupported : OPCODES(op, n)[2] \in Nat
    BY DEF Unsupported, OPCODES
  <1>6. \A op \in Instructions \ (Unary \union Binary \union Ternary \union Environment
                                  \union Unsupported) : OPCODES(op, n)[2] \in Nat
    BY DEF Instructions, OPCODES
  <1>7. QED
    BY <1>1, <1>2, <1>3, <1>4, <1>5, <1>6

LEMMA TakenOffIsNat ==
    ASSUME NEW cell, cell.op \in Instructions, cell.n \in Nat
    PROVE  TakenOff(cell) \in Nat
  BY OpcodesPop DEF TakenOff

LEMMA PushedKeeps ==
    ASSUME NEW s, NEW cell, IsRun(s), cell.op \in Instructions, cell.n \in Nat,
           Len(s.stack) >= OPCODES(cell.op, cell.n)[2],
           cell.op \in Unary \union Binary \union Ternary \union Environment
    PROVE  Below(s, Handle(s, cell), TakenOff(cell))
  <1>1. Len(s.stack) \in Nat
    BY IsSeqLen DEF IsRun
  <1>2. CASE cell.op \in Unary
    <2>1. Handle(s, cell) = Push(Pop(s, 1), UnaryValue(s, cell.op, Arg(s, 1)))
      BY <1>2 DEF Handle, Unary, Binary, Ternary, Environment, Unsupported
    <2>2. 1 \in 0 .. Len(s.stack) /\ TakenOff(cell) = 1
      BY <1>1, <1>2, OpcodesPop DEF TakenOff, Unary
    <2>3. QED
      BY <2>1, <2>2, PopPush
  <1>3. CASE cell.op \in Binary
    <2>1. Handle(s, cell) = Push(Pop(s, 2), BinaryValue(cell.op, Arg(s, 1), Arg(s, 2)))
      BY <1>3 DEF Handle, Unary, Binary, Ternary, Environment, Unsupported
    <2>2. 2 \in 0 .. Len(s.stack) /\ TakenOff(cell) = 2
      BY <1>1, <1>3, OpcodesPop DEF TakenOff, Binary
    <2>3. QED
      BY <2>1, <2>2, PopPush
  <1>4. CASE cell.op \in Ternary
    <2>1. Handle(s, cell) =
             Push(Pop(s, 3), TernaryValue(cell.op, Arg(s, 1), Arg(s, 2), Arg(s, 3)))
      BY <1>4 DEF Handle, Unary, Binary, Ternary, Environment, Unsupported
    <2>2. 3 \in 0 .. Len(s.stack) /\ TakenOff(cell) = 3
      BY <1>1, <1>4, OpcodesPop DEF TakenOff, Ternary
    <2>3. QED
      BY <2>1, <2>2, PopPush
  <1>5. CASE cell.op \in Environment
    <2>1. Handle(s, cell) = Push(s, EnvironmentValue(s, cell.op))
      BY <1>5 DEF Handle, Unary, Binary, Ternary, Environment, Unsupported
    <2>2. TakenOff(cell) = 0
      BY <1>5, OpcodesPop DEF TakenOff, Environment
    <2>3. QED
      BY <2>1, <2>2, PushKeeps
  <1>6. QED
    BY <1>2, <1>3, <1>4, <1>5

\* The instructions that fail whatever the operands.
LEMMA FailingKeeps ==
    ASSUME NEW s, NEW cell, IsRun(s), cell.op \in Unsupported \union {"INVALID"}, cell.n \in Nat
    PROVE  Below(s, Handle(s, cell), TakenOff(cell))
  <1>1. cell.op \in Instructions
    BY DEF Instructions
  <1>2. TakenOff(cell) \in Nat
    BY <1>1, TakenOffIsNat
  <1>3. Handle(s, cell) = Throw(s, IF cell.op = "INVALID" THEN "invalid opcode"
                                   ELSE "instruction not supported")
    BY DEF Handle, Unary, Binary, Ternary, Environment, Unsupported
  <1>4. QED
    BY <1>2, <1>3, FailKeeps

Handlers == {"EXP", "SHA3", "CALLDATACOPY", "CODECOPY", "RETURNDATACOPY", "POP", "MLOAD", "MSTORE",
             "MSTORE8", "JUMP", "JUMPI", "JUMPDEST", "PUSH", "DUP", "SWAP", "STOP", "RETURN",
             "REVERT"}

LEMMA HandlerKeeps ==
    ASSUME NEW s, NEW cell, IsRun(s), cell.op \in Handlers, cell.n \in Nat,
           Len(s.stack) >= OPCODES(cell.op, cell.n)[2]
    PROVE  Below(s, Handle(s, cell), TakenOff(cell))
  <1> USE DEF Unary, Binary, Ternary, Environment, Unsupported
  <1>0. Len(s.stack) \in Nat
    BY IsSeqLen DEF IsRun
  <1>1. CASE cell.op = "EXP"
    <2>1. Handle(s, cell) = handleEXP(s) /\ TakenOff(cell) = 2 /\ 2 \in 0 .. Len(s.stack)
      BY <1>0, <1>1 DEF Handle, TakenOff, OPCODES
    <2>2. QED
      BY <2>1, EXPKeeps
  <1>2. CASE cell.op = "SHA3"
    <2>1. Handle(s, cell) = handleSHA3(s) /\ TakenOff(cell) = 2 /\ 2 \in 0 .. Len(s.stack)
      BY <1>0, <1>2 DEF Handle, TakenOff, OPCODES
    <2>2. QED
      BY <2>1, SHA3Keeps
  <1>3. CASE cell.op = "CALLDATACOPY"
    <2>1. Handle(s, cell) = handleCALLDATACOPY(s) /\ TakenOff(cell) = 3 /\ 3 \in 0 .. Len(s.stack)
      BY <1>0, <1>3 DEF Handle, TakenOff, OPCODES
    <2>2. QED
      BY <2>1, CALLDATACOPYKeeps
  <1>4. CASE cell.op = "CODECOPY"
    <2>1. Handle(s, cell) = handleCODECOPY(s) /\ TakenOff(cell) = 3 /\ 3 \in 0 .. Len(s.stack)
      BY <1>0, <1>4 DEF Handle, TakenOff, OPCODES
    <2>2. QED
      BY <2>1, CODECOPYKeeps
  <1>5. CASE cell.op = "RETURNDATACOPY"
    <2>1. Handle(s, cell) = handleRETURNDATACOPY(s) /\ TakenOff(cell) = 3 /\ 3 \in 0 .. Len(s.stack)
      BY <1>0, <1>5 DEF Handle, TakenOff, OPCODES
    <2>2. QED
      BY <2>1, RETURNDATACOPYKeeps
  <1>6. CASE cell.op = "POP"
    <2>1. Handle(s, cell) = Pop(s, 1) /\ TakenOff(cell) = 1 /\ 1 \in 0 .. Len(s.stack)
      BY <1>0, <1>6 DEF Handle, TakenOff, OPCODES
    <2>2. QED
      BY <2>1, PopKeeps
  <1>7. CASE cell.op = "MLOAD"
    <2>1. Handle(s, cell) = handleMLOAD(s) /\ TakenOff(cell) = 1 /\ 1 \in 0 .. Len(s.stack)
      BY <1>0, <1>7 DEF Handle, TakenOff, OPCODES
    <2>2. QED
      BY <2>1, MLOADKeeps
  <1>8. CASE cell.op = "MSTORE"
    <2>1. Handle(s, cell) = handleMSTORE(s) /\ TakenOff(cell) = 2 /\ 2 \in 0 .. Len(s.stack)
      BY <1>0, <1>8 DEF Handle, TakenOff, OPCODES
    <2>2. QED
      BY <2>1, MSTOREKeeps
  <1>9. CASE cell.op = "MSTORE8"
    <2>1. Handle(s, cell) = handleMSTORE8(s) /\ TakenOff(cell) = 2 /\ 2 \in 0 .. Len(s.stack)
      BY <1>0, <1>9 DEF Handle, TakenOff, OPCODES
    <2>2. QED
      BY <2>1, MSTOREKeeps
  <1>10. CASE cell.op = "JUMP"
    <2>1. Handle(s, cell) = handleJUMP(s) /\ TakenOff(cell) = 1 /\ 1 \in 0 .. Len(s.stack)
      BY <1>0, <1>10 DEF Handle, TakenOff, OPCODES
    <2>2. QED
      BY <2>1, JUMPKeeps
  <1>11. CASE cell.op = "JUMPI"
    <2>1. Handle(s, cell) = handleJUMPI(s) /\ TakenOff(cell) = 2 /\ 2 \in 0 .. Len(s.stack)
      BY <1>0, <1>11 DEF Handle, TakenOff, OPCODES
    <2>2. QED
      BY <2>1, JUMPIKeeps
  <1>12. CASE cell.op = "RETURN"
    <2>1. Handle(s, cell) = handleRETURN(s) /\ TakenOff(cell) = 2 /\ 2 \in 0 .. Len(s.stack)
      BY <1>0, <1>12 DEF Handle, TakenOff, OPCODES
    <2>2. QED
      BY <2>1, RETURNKeeps
  <1>13. CASE cell.op = "REVERT"
    <2>1. Handle(s, cell) = handleREVERT(s) /\ TakenOff(cell) = 2 /\ 2 \in 0 .. Len(s.stack)
      BY <1>0, <1>13 DEF Handle, TakenOff, OPCODES
    <2>2. QED
      BY <2>1, RETURNKeeps
  <1>14. CASE cell.op = "PUSH"
    <2>1. Handle(s, cell) = handlePUSH(s, cell.n) /\ TakenOff(cell) = 0 /\ 0 \in 0 .. Len(s.stack)
      BY <1>0, <1>14 DEF Handle, TakenOff, OPCODES
    <2>2. QED
      BY <2>1, PUSHKeeps
  <1>15. CASE cell.op = "JUMPDEST"
    <2>1. Handle(s, cell) = s /\ TakenOff(cell) = 0
      BY <1>15 DEF Handle, TakenOff, OPCODES
    <2>2. QED
      BY <2>1, SameIsBelow DEF SameStack
  <1>16. CASE cell.op = "STOP"
    <2>1. Handle(s, cell) = [s EXCEPT !.stopped = TRUE] /\ TakenOff(cell) = 0
      BY <1>16 DEF Handle, TakenOff, OPCODES
    <2>2. QED
      BY <2>1, StopKeeps, SameIsBelow
  <1>17. CASE cell.op = "DUP"
    <2>1. Handle(s, cell) = handleDUP(s, cell.n) /\ TakenOff(cell) = cell.n
      BY <1>17 DEF Handle, TakenOff
    <2>2. 0 \in Nat /\ 0 <= cell.n /\ Below(s, handleDUP(s, cell.n), 0)
      BY DUPKeeps
    <2>3. QED
      BY <2>1, <2>2, BelowMore
  <1>18. CASE cell.op = "SWAP"
    <2>1. Handle(s, cell) = handleSWAP(s, cell.n) /\ TakenOff(cell) = 2 * cell.n
      BY <1>18 DEF Handle, TakenOff
    <2>2. QED
      BY <2>1, SWAPKeeps
  <1>19. QED
    BY <1>1, <1>2, <1>3, <1>4, <1>5, <1>6, <1>7, <1>8, <1>9, <1>10, <1>11, <1>12,
       <1>13, <1>14, <1>15, <1>16, <1>17, <1>18 DEF Handlers

LEMMA CallKeeps ==
    ASSUME NEW s, NEW cell, IsRun(s), cell.op = "STATICCALL", cell.n \in Nat,
           Len(s.stack) >= OPCODES(cell.op, cell.n)[2]
    PROVE  LET t == Handle(s, cell)
           IN  Below(s, t, TakenOff(cell)) \/ (IsRun(t) /\ t.code = s.code /\ ~Running(t))
  <1>1. Len(s.stack) \in Nat
    BY IsSeqLen DEF IsRun
  <1>2. Handle(s, cell) = handleSTATICCALL(s) /\ TakenOff(cell) = 6 /\ 6 \in 0 .. Len(s.stack)
    BY <1>1 DEF Handle, TakenOff, OPCODES, Unary, Binary, Ternary, Environment, Unsupported
  <1>3. QED
    BY <1>2, STATICCALLKeeps

\* t, the run state behind an instruction, has the stack of s but for what the
\* instruction takes off; a failed call may have dropped more.
AfterInstruction(s, t, cell) ==
    \/ Below(s, t, TakenOff(cell))
    \/ IsRun(t) /\ t.code = s.code /\ ~Running(t) /\ cell.op = "STATICCALL"

LEMMA HandleKeeps ==
    ASSUME NEW s, NEW cell, IsRun(s), cell.op \in Instructions, cell.n \in Nat,
           Len(s.stack) >= OPCODES(cell.op, cell.n)[2]
    PROVE  AfterInstruction(s, Handle(s, cell), cell)
  <1>1. CASE cell.op \in Unary \union Binary \union Ternary \union Environment
    BY <1>1, PushedKeeps DEF AfterInstruction
  <1>2. CASE cell.op \in Unsupported \union {"INVALID"}
    BY <1>2, FailingKeeps DEF AfterInstruction
  <1>3. CASE cell.op = "STATICCALL"
    BY <1>3, CallKeeps DEF AfterInstruction
  <1>4. CASE cell.op \in Handlers
    BY <1>4, HandlerKeeps DEF AfterInstruction
  <1>5. QED
    BY <1>1, <1>2, <1>3, <1>4 DEF Instructions, Handlers

LEMMA ChargedKeeps ==
    ASSUME NEW s, NEW info, IsRun(s)
    PROVE  SameStack(s, Charged(s, info))
  BY ThrowKeeps, subGasKeeps DEF Charged

\* Charged lets an instruction on only if the stack has what it pops.
LEMMA ChargedChecks ==
    ASSUME NEW s, NEW info, IsRun(s), info[2] \in Nat, Running(Charged(s, info))
    PROVE  Len(s.stack) >= info[2]
  <1>1. Len(s.stack) \in Nat
    BY IsSeqLen DEF IsRun
  <1>2. ~Running(Throw(s, "stack underflow"))
    <2>1. [s EXCEPT !.error = "stack underflow"].error = "stack underflow"
      BY DEF IsRun, Fields
    <2>2. QED
      BY <2>1 DEF Throw, Running, NoError
  <1>3. ASSUME Len(s.stack) < info[2] PROVE FALSE
    <2>1. Charged(s, info) = Throw(s, "stack underflow")
      BY <1>3 DEF Charged
    <2>2. QED
      BY <1>2, <2>1
  <1>4. QED
    BY <1>1, <1>3

LEMMA AdvanceKeeps ==
    ASSUME NEW s, IsRun(s)
    PROVE  /\ SameStack(s, [s EXCEPT !.programCounter = @ + 1])
           /\ SameStack(s, [s EXCEPT !.codeReads = @ \union {s.programCounter}])
           /\ SameStack(s, [s EXCEPT !.codeReads = {}])
           /\ SameStack(s, [s EXCEPT !.memRead = FALSE, !.memWrite = FALSE])
  BY DEF SameStack, IsRun, Fields

\* The last check of a step does not repair a failed one.
LEMMA WithinMemoryKeeps ==
    ASSUME NEW s, IsRun(s)
    PROVE  /\ SameStack(s, WithinMemory(s))
           /\ ~Running(s) => ~Running(WithinMemory(s))
  <1>1. /\ SameStack(s, [s EXCEPT !.error = "internal error"])
        /\ [s EXCEPT !.error = "internal error"].error = "internal error"
    BY DEF SameStack, IsRun, Fields
  <1>2. SameStack(s, s)
    BY DEF SameStack
  <1>3. QED
    BY <1>1, <1>2 DEF WithinMemory, Running, NoError

LEMMA runNextStepKeeps ==
    ASSUME NEW s, NEW cell, IsRun(s), cell = s.code[s.programCounter + 1],
           cell.op \in Instructions, cell.n \in Nat
    PROVE  AfterInstruction(s, runNextStep(s), cell)
  <1> DEFINE fetched == [s EXCEPT !.codeReads = @ \union {s.programCounter}]
             info == OPCODES(cell.op, cell.n)
             charged == Charged(fetched, info)
             ready == [charged EXCEPT !.programCounter = @ + 1]
             handled == Handled(charged, cell)
  <1>1. SameStack(s, fetched) /\ IsRun(fetched)
    BY AdvanceKeeps DEF SameStack
  <1>2. SameStack(s, charged) /\ IsRun(charged)
    <2> HIDE DEF fetched, info
    <2>1. SameStack(fetched, charged) /\ IsRun(charged)
      BY <1>1, ChargedKeeps DEF SameStack
    <2>2. QED
      BY <1>1, <2>1, SameTwice
  <1>3. SameStack(s, ready) /\ IsRun(ready)
    <2> HIDE DEF charged
    <2>1. SameStack(charged, ready) /\ IsRun(ready)
      BY <1>2, AdvanceKeeps DEF SameStack
    <2>2. QED
      BY <1>2, <2>1, SameTwice
  <1>4. runNextStep(s) = WithinMemory(handled)
    BY DEF runNextStep
  <1>5. TakenOff(cell) \in Nat
    BY TakenOffIsNat
  <1>6. CASE Running(charged)
    <2>1. info[2] \in Nat
      BY OpcodesPop
    <2>2. Len(fetched.stack) >= info[2]
      BY <1>1, <1>6, <2>1, ChargedChecks
    <2>3. Len(ready.stack) >= info[2]
      BY <1>1, <1>3, <2>2 DEF SameStack
    <2>4. handled = Handle(ready, cell)
      BY <1>6 DEF Handled
    <2> HIDE DEF fetched, charged, ready
    <2>5. AfterInstruction(ready, handled, cell)
      BY <1>3, <2>3, <2>4, HandleKeeps
    <2> HIDE DEF handled, info
    <2>6. IsRun(handled)
      BY <2>5 DEF AfterInstruction, Below
    <2>7. /\ SameStack(handled, runNextStep(s))
          /\ ~Running(handled) => ~Running(runNextStep(s))
      BY <1>4, <2>6, WithinMemoryKeeps
    <2>8. CASE Below(ready, handled, TakenOff(cell))
      BY <1>3, <1>5, <2>7, <2>8, SameThenBelow, BelowThenSame DEF AfterInstruction
    <2>9. CASE /\ handled.code = ready.code /\ ~Running(handled)
               /\ cell.op = "STATICCALL"
      BY <1>3, <2>7, <2>9 DEF AfterInstruction, SameStack
    <2>10. QED
      BY <2>5, <2>8, <2>9 DEF AfterInstruction
  <1>7. CASE ~Running(charged)
    <2>1. handled = charged
      BY <1>7 DEF Handled
    <2> HIDE DEF fetched, charged, handled
    <2>2. SameStack(s, runNextStep(s))
      BY <1>2, <1>4, <2>1, WithinMemoryKeeps, SameTwice
    <2>3. Below(s, runNextStep(s), 0)
      BY <2>2, SameIsBelow
    <2>4. 0 \in Nat /\ 0 <= TakenOff(cell)
      BY <1>5
    <2>5. QED
      BY <1>5, <2>3, <2>4, BelowMore DEF AfterInstruction
  <1>8. QED
    BY <1>6, <1>7

-----------------------------------------------------------------------------
\* What a step carries over to the caches.

LEMMA StackHashes ==
    ASSUME NEW q, NEW below
    PROVE  LET h == stackHashes(q, below)
           IN  /\ DOMAIN h = 1 .. Len(q) + 1
               /\ \A i \in 1 .. Len(q) + 1 : h[i] = below \o SubSeq(q, 1, i - 1)
  BY DEF stackHashes

LEMMA HashesAreSeq ==
    ASSUME NEW q, NEW below, Len(q) \in Nat
    PROVE  LET h == stackHashes(q, below) IN IsSeq(h) /\ Len(h) = Len(q) + 1
  <1> DEFINE h == stackHashes(q, below)
             n == Len(q) + 1
  <1>1. n \in Nat /\ DOMAIN h = 1 .. n
    BY StackHashes
  <1>2. h \in [1 .. n -> Range(h)]
    <2>1. h = [i \in 1 .. n |-> h[i]]
      BY DEF stackHashes
    <2> HIDE DEF h, n
    <2>2. \A i \in 1 .. n : h[i] \in Range(h)
      BY <1>1 DEF Range
    <2>3. QED
      BY <2>1, <2>2
  <1> HIDE DEF h, n
  <1>3. h \in Seq(Range(h))
    BY <1>1, <1>2, SeqDef
  <1>4. Len(h) = n
    BY <1>1, <1>3, LenProperties
  <1>5. QED
    BY <1>3, <1>4 DEF IsSeq, h, n

LEMMA EmptyIsSeq == IsSeq(<< >>) /\ Len(<< >>) = 0
  BY EmptySeq, SeqIsSeq

\* Hashed from the empty stack, the i-th hash is that of the first i - 1 elements.
LEMMA HashesFromNothing ==
    ASSUME NEW q, IsSeq(q)
    PROVE  LET h == stackHashes(q, << >>)
           IN  /\ IsSeq(h) /\ Len(h) = Len(q) + 1
               /\ \A i \in 1 .. Len(q) + 1 : h[i] = SubSeq(q, 1, i - 1)
  <1> DEFINE h == stackHashes(q, << >>)
  <1>1. Len(q) \in Nat
    BY IsSeqLen
  <1>2. \A i \in 1 .. Len(q) + 1 : h[i] = SubSeq(q, 1, i - 1)
    <2>1. SUFFICES ASSUME NEW i \in 1 .. Len(q) + 1
                   PROVE  h[i] = SubSeq(q, 1, i - 1)
      OBVIOUS
    <2>2. h[i] = << >> \o SubSeq(q, 1, i - 1)
      BY StackHashes
    <2>3. i - 1 \in 0 .. Len(q)
      BY <1>1
    <2>4. SubSeq(q, 1, i - 1) \in Seq(Range(SubSeq(q, 1, i - 1)))
      BY <2>3, PrefixIsSeq DEF IsSeq
    <2>5. QED
      BY <2>2, <2>4, ConcatEmptySeq
  <1>3. IsSeq(h) /\ Len(h) = Len(q) + 1
    BY <1>1, HashesAreSeq
  <1>4. QED
    BY <1>2, <1>3

LEMMA CommonPrefix ==
    ASSUME NEW p, NEW q, IsSeq(p), IsSeq(q), NEW k \in 0 .. Len(p), k <= Len(q),
           \A i \in 1 .. k : p[i] = q[i]
    PROVE  SubSeq(p, 1, k) = SubSeq(q, 1, k)
  <1>1. k \in 0 .. Len(q)
    BY IsSeqLen
  <1>2. /\ IsSeq(SubSeq(p, 1, k)) /\ Len(SubSeq(p, 1, k)) = k
        /\ \A i \in 1 .. k : SubSeq(p, 1, k)[i] = p[i]
    BY PrefixIsSeq
  <1>3. /\ IsSeq(SubSeq(q, 1, k)) /\ Len(SubSeq(q, 1, k)) = k
        /\ \A i \in 1 .. k : SubSeq(q, 1, k)[i] = q[i]
    BY <1>1, PrefixIsSeq
  <1> DEFINE a == SubSeq(p, 1, k)
             b == SubSeq(q, 1, k)
  <1> HIDE DEF a, b
  <1>4. a = b
    BY <1>2, <1>3, SameElements DEF a, b
  <1>5. QED
    BY <1>4 DEF a, b

\* A prefix of q and a prefix of what is behind it.
LEMMA JoinedPrefix ==
    ASSUME NEW q, IsSeq(q), NEW kept \in 0 .. Len(q), NEW j \in 0 .. Len(q) - kept
    PROVE  SubSeq(q, 1, kept) \o SubSeq(SubSeq(q, kept + 1, Len(q)), 1, j) = SubSeq(q, 1, kept + j)
  <1> DEFINE a == SubSeq(q, 1, kept)
             new == SubSeq(q, kept + 1, Len(q))
             b == SubSeq(new, 1, j)
             c == SubSeq(q, 1, kept + j)
  <1>1. Len(q) \in Nat
    BY IsSeqLen
  <1>2. IsSeq(a) /\ Len(a) = kept /\ \A i \in 1 .. kept : a[i] = q[i]
    BY PrefixIsSeq
  <1>3. /\ IsSeq(new) /\ Len(new) = Len(q) - kept
        /\ \A i \in 1 .. Len(q) - kept : new[i] = q[kept + i]
    <2>1. kept + 1 \in Nat \ {0} /\ Len(q) \in 0 .. Len(q)
      BY <1>1
    <2> DEFINE m == kept + 1
    <2>2. m \in Nat \ {0}
      BY <2>1
    <2> HIDE DEF m
    <2>3. /\ IsSeq(SubSeq(q, m, Len(q)))
          /\ Len(SubSeq(q, m, Len(q))) = IF m <= Len(q) THEN Len(q) - m + 1 ELSE 0
          /\ \A i \in 1 .. Len(q) - m + 1 : SubSeq(q, m, Len(q))[i] = q[m + i - 1]
      BY <2>1, <2>2, PartIsSeq
    <2>4. QED
      BY <1>1, <2>3 DEF m
  <1> HIDE DEF new
  <1>4. IsSeq(b) /\ Len(b) = j /\ \A i \in 1 .. j : b[i] = new[i]
    BY <1>1, <1>3, PrefixIsSeq
  <1>5. kept + j \in 0 .. Len(q)
    BY <1>1
  <1>6. IsSeq(c) /\ Len(c) = kept + j /\ \A i \in 1 .. kept + j : c[i] = q[i]
    BY <1>5, PrefixIsSeq
  <1> HIDE DEF a, b, c
  <1>7. /\ IsSeq(a \o b) /\ Len(a \o b) = kept + j
        /\ \A i \in 1 .. kept + j : (a \o b)[i] = IF i <= kept THEN a[i] ELSE b[i - kept]
    BY <1>2, <1>4, ConcatIsSeq
  <1>8. \A i \in 1 .. kept + j : (a \o b)[i] = c[i]
    <2>1. SUFFICES ASSUME NEW i \in 1 .. kept + j
                   PROVE  (a \o b)[i] = c[i]
      OBVIOUS
    <2>2. CASE i <= kept
      BY <1>1, <1>2, <1>6, <1>7, <2>2
    <2>3. CASE ~(i <= kept)
      <3>1. i - kept \in 1 .. j /\ i - kept \in 1 .. Len(q) - kept /\ kept + (i - kept) = i
        BY <1>1, <2>3
      <3>2. b[i - kept] = new[i - kept] /\ new[i - kept] = q[kept + (i - kept)]
        BY <1>3, <1>4, <3>1
      <3>3. QED
        BY <1>6, <1>7, <2>3, <3>1, <3>2
    <2>4. QED
      BY <2>2, <2>3
  <1>9. a \o b = c
    BY <1>6, <1>7, <1>8, SameElements
  <1>10. QED
    BY <1>9 DEF a, b, c, new

LEMMA WholePrefix ==
    ASSUME NEW q, IsSeq(q)
    PROVE  SubSeq(q, 1, Len(q)) = q
  BY SubSeqFull DEF IsSeq

\* From the hashes of p, those of q are the ones of the common prefix, and then the
\* partial ones.
LEMMA JoinedHashes ==
    ASSUME NEW p, NEW q, IsSeq(p), IsSeq(q), NEW kept \in 0 .. Len(p), kept <= Len(q),
           \A i \in 1 .. kept : p[i] = q[i]
    PROVE  LET h == stackHashes(p, << >>)
               new == SubSeq(q, kept + 1, Len(q))
           IN  SubSeq(h, 1, kept + 1) \o Tail(stackHashes(new, h[kept + 1])) =
                  stackHashes(q, << >>)
  <1> DEFINE h == stackHashes(p, << >>)
             new == SubSeq(q, kept + 1, Len(q))
             partial == stackHashes(new, h[kept + 1])
             left == SubSeq(h, 1, kept + 1)
             right == Tail(partial)
             target == stackHashes(q, << >>)
  <1>1. Len(p) \in Nat /\ Len(q) \in Nat /\ kept \in 0 .. Len(q)
    BY IsSeqLen
  <1>2. /\ IsSeq(h) /\ Len(h) = Len(p) + 1
        /\ \A i \in 1 .. Len(p) + 1 : h[i] = SubSeq(p, 1, i - 1)
    BY HashesFromNothing
  <1>3. /\ IsSeq(target) /\ Len(target) = Len(q) + 1
        /\ \A i \in 1 .. Len(q) + 1 : target[i] = SubSeq(q, 1, i - 1)
    BY HashesFromNothing
  <1>4. Len(new) = Len(q) - kept
    <2> DEFINE m == kept + 1
    <2>1. m \in Nat \ {0} /\ Len(q) \in 0 .. Len(q)
      BY <1>1
    <2> HIDE DEF m
    <2>2. Len(SubSeq(q, m, Len(q))) = IF m <= Len(q) THEN Len(q) - m + 1 ELSE 0
      BY <2>1, PartIsSeq
    <2>3. QED
      BY <1>1, <2>2 DEF m
  <1>5. \A i \in 1 .. kept + 1 : h[i] = target[i]
    <2>1. SUFFICES ASSUME NEW i \in 1 .. kept + 1
                   PROVE  h[i] = target[i]
      OBVIOUS
    <2> DEFINE k == i - 1
    <2>2. k \in 0 .. Len(p) /\ k <= Len(q) /\ \A j \in 1 .. k : p[j] = q[j]
      BY <1>1
    <2>3. i \in 1 .. Len(p) + 1 /\ i \in 1 .. Len(q) + 1
      BY <1>1
    <2> HIDE DEF h, target
    <2>4. h[i] = SubSeq(p, 1, k) /\ target[i] = SubSeq(q, 1, k)
      BY <1>2, <1>3, <2>3
    <2> HIDE DEF k
    <2>5. QED
      BY <2>2, <2>4, CommonPrefix
  <1>6. h[kept + 1] = SubSeq(q, 1, kept)
    <2>1. kept + 1 \in 1 .. kept + 1 /\ kept + 1 \in 1 .. Len(q) + 1 /\ kept + 1 - 1 = kept
      BY <1>1
    <2> HIDE DEF h, target
    <2>2. QED
      BY <1>3, <1>5, <2>1
  <1>7. /\ IsSeq(partial) /\ Len(partial) = Len(q) - kept + 1
        /\ \A i \in 1 .. Len(q) - kept + 1 :
              partial[i] = SubSeq(q, 1, kept) \o SubSeq(new, 1, i - 1)
    <2>1. Len(new) \in Nat
      BY <1>1, <1>4
    <2> HIDE DEF h, new
    <2>2. IsSeq(partial) /\ Len(partial) = Len(new) + 1
      BY <2>1, HashesAreSeq
    <2>3. \A i \in 1 .. Len(new) + 1 : partial[i] = h[kept + 1] \o SubSeq(new, 1, i - 1)
      BY StackHashes
    <2> HIDE DEF partial
    <2>4. QED
      BY <1>4, <1>6, <2>2, <2>3
  <1>8. /\ IsSeq(left) /\ Len(left) = kept + 1
        /\ \A i \in 1 .. kept + 1 : left[i] = h[i]
    <2> DEFINE k == kept + 1
    <2> HIDE DEF h
    <2>1. k \in 0 .. Len(h)
      BY <1>1, <1>2
    <2> HIDE DEF k
    <2>2. /\ IsSeq(SubSeq(h, 1, k)) /\ Len(SubSeq(h, 1, k)) = k
          /\ \A i \in 1 .. k : SubSeq(h, 1, k)[i] = h[i]
      BY <1>2, <2>1, PrefixIsSeq
    <2>3. QED
      BY <2>2 DEF k
  <1> HIDE DEF h, partial, target
  <1>9. /\ IsSeq(right) /\ Len(right) = Len(q) - kept
        /\ \A i \in 1 .. Len(q) - kept : right[i] = partial[i + 1]
    <2>1. partial \in Seq(Range(partial)) /\ partial # << >>
      BY <1>1, <1>7, EmptyIsSeq DEF IsSeq
    <2>2. /\ right \in Seq(Range(partial)) /\ Len(right) = Len(partial) - 1
          /\ \A i \in 1 .. Len(right) : right[i] = partial[i + 1]
      BY <2>1, HeadTailProperties
    <2> HIDE DEF right
    <2>3. IsSeq(right)
      BY <2>2, SeqIsSeq
    <2>4. Len(right) = Len(q) - kept
      BY <1>1, <1>7, <2>2
    <2>5. QED
      BY <2>2, <2>3, <2>4
  <1> HIDE DEF left, right
  <1>10. /\ IsSeq(left \o right) /\ Len(left \o right) = Len(q) + 1
         /\ \A i \in 1 .. Len(q) + 1 :
               (left \o right)[i] = IF i <= kept + 1 THEN left[i] ELSE right[i - (kept + 1)]
    <2>1. /\ IsSeq(left \o right)
          /\ Len(left \o right) = Len(left) + Len(right)
          /\ \A i \in 1 .. Len(left) + Len(right) :
                (left \o right)[i] = IF i <= Len(left) THEN left[i] ELSE right[i - Len(left)]
      BY <1>8, <1>9, ConcatIsSeq
    <2>2. Len(left) + Len(right) = Len(q) + 1
      BY <1>1, <1>8, <1>9
    <2>3. QED
      BY <1>8, <2>1, <2>2
  <1>11. \A i \in 1 .. Len(q) + 1 : (left \o right)[i] = target[i]
    <2>1. SUFFICES ASSUME NEW i \in 1 .. Len(q) + 1
                   PROVE  (left \o right)[i] = target[i]
      OBVIOUS
    <2>2. CASE i <= kept + 1
      BY <1>1, <1>5, <1>8, <1>10, <2>2
    <2>3. CASE ~(i <= kept + 1)
      <3> DEFINE j == i - (kept + 1)
      <3>1. /\ j \in 1 .. Len(q) - kept /\ j + 1 \in 1 .. Len(q) - kept + 1 /\ (j + 1) - 1 = j
            /\ j \in 0 .. Len(q) - kept /\ kept + j = i - 1
        BY <1>1, <2>3
      <3>2. (left \o right)[i] = right[j]
        BY <1>10, <2>3
      <3> HIDE DEF j
      <3>3. right[j] = SubSeq(q, 1, kept) \o SubSeq(new, 1, j)
        BY <1>7, <1>9, <3>1
      <3>4. right[j] = SubSeq(q, 1, kept + j)
        BY <1>1, <3>1, <3>3, JoinedPrefix
      <3>5. target[i] = SubSeq(q, 1, i - 1)
        BY <1>3
      <3>6. QED
        BY <3>1, <3>2, <3>4, <3>5
    <2>4. QED
      BY <2>2, <2>3
  <1>12. left \o right = target
    BY <1>1, <1>3, <1>10, <1>11, SameElements
  <1>13. QED
    BY <1>12 DEF h, partial, target, left, right

\* The stack q behind the step agrees with the one before on all that the step's proof
\* does not hand over: then the caches the step carries over are those of q.
LEMMA CarriedIsCurrent ==
    ASSUME NEW s, NEW cell, NEW c, IsSeq(c.prevStack), IsSeq(s.stack),
           c.stackHashes = stackHashes(c.prevStack, << >>),
           StackIn(cell, c) \in 0 .. Len(c.prevStack),
           Len(s.stack) >= Len(c.prevStack) - StackIn(cell, c),
           \A i \in 1 .. Len(c.prevStack) - StackIn(cell, c) : s.stack[i] = c.prevStack[i]
    PROVE  /\ carried(s, cell, c).prevStack = s.stack
           /\ carried(s, cell, c).stackHashes = stackHashes(s.stack, << >>)
  <1> DEFINE p == c.prevStack
             q == s.stack
             kept == Len(p) - StackIn(cell, c)
             sibling == c.stackHashes[kept + 1]
             new == SubSeq(q, kept + 1, Len(q))
             hashes == SubSeq(c.stackHashes, 1, kept + 1) \o Tail(stackHashes(new, sibling))
             joined == SubSeq(p, 1, kept) \o new
             changed == StackIn(cell, c) # 0 \/ Len(p) # Len(q)
             stackProof == calculateStackProof(s, cell, c)
  <1>1. Len(p) \in Nat /\ Len(q) \in Nat
    BY IsSeqLen
  <1>2. /\ kept \in 0 .. Len(p) /\ kept <= Len(q) /\ kept \in 0 .. Len(q)
        /\ \A i \in 1 .. kept : p[i] = q[i]
    BY <1>1
  <1>3. /\ carried(s, cell, c).prevStack = stackProof.prevStack
        /\ carried(s, cell, c).stackHashes = stackProof.stackHashes
    BY DEF carried
  <1>4. CASE changed
    <2>1. stackProof.prevStack = joined /\ stackProof.stackHashes = hashes
      BY <1>4 DEF calculateStackProof
    <2>2. hashes = stackHashes(q, << >>)
      <3> HIDE DEF kept
      <3> DEFINE h == stackHashes(p, << >>)
      <3>1. IsSeq(p) /\ IsSeq(q)
        OBVIOUS
      <3>2. SubSeq(h, 1, kept + 1) \o Tail(stackHashes(new, h[kept + 1])) = stackHashes(q, << >>)
        BY <1>2, <3>1, JoinedHashes
      <3>3. QED
        BY <3>2
    <2>3. joined = q
      <3> DEFINE j == Len(q) - kept
      <3>1. j \in 0 .. Len(q) - kept /\ kept + j = Len(q)
        BY <1>1, <1>2
      <3> HIDE DEF kept
      <3>2. SubSeq(p, 1, kept) = SubSeq(q, 1, kept)
        BY <1>2, CommonPrefix
      <3>3. SubSeq(q, 1, kept) \o SubSeq(new, 1, j) = SubSeq(q, 1, kept + j)
        <4> HIDE DEF j
        <4> QED BY <1>2, <3>1, JoinedPrefix
      <3>4. SubSeq(new, 1, j) = new
        <4> DEFINE m == kept + 1
        <4>1. m \in Nat \ {0} /\ Len(q) \in 0 .. Len(q)
          BY <1>1, <1>2
        <4> HIDE DEF m
        <4>2. /\ IsSeq(SubSeq(q, m, Len(q)))
              /\ Len(SubSeq(q, m, Len(q))) = IF m <= Len(q) THEN Len(q) - m + 1 ELSE 0
          BY <4>1, PartIsSeq
        <4>3. IsSeq(new) /\ Len(new) = j
          BY <1>1, <1>2, <4>2 DEF m
        <4> HIDE DEF new, j
        <4>4. QED
          BY <4>3, WholePrefix
      <3>5. SubSeq(q, 1, kept + j) = q
        BY <3>1, WholePrefix
      <3>6. QED
        BY <3>2, <3>3, <3>4, <3>5
    <2>4. QED
      BY <1>3, <2>1, <2>2, <2>3
  <1>5. CASE ~changed
    <2>1. stackProof.prevStack = p /\ stackProof.stackHashes = c.stackHashes
      BY <1>5 DEF calculateStackProof
    <2>2. p = q
      BY <1>1, <1>2, <1>5, SameElements
    <2>3. QED
      BY <1>3, <2>1, <2>2
  <1>6. QED
    BY <1>4, <1>5

LEMMA StackInClips ==
    ASSUME NEW cell, NEW c, cell.op \in Instructions, cell.n \in Nat, Len(c.prevStack) \in Nat
    PROVE  StackIn(cell, c) =
              IF TakenOff(cell) <= Len(c.prevStack) THEN TakenOff(cell) ELSE Len(c.prevStack)
  <1>1. TakenOff(cell) \in Int /\ Len(c.prevStack) \in Int
    BY TakenOffIsNat
  <1>2. StackIn(cell, c) = Min({TakenOff(cell), Len(c.prevStack)})
    BY DEF StackIn, TakenOff
  <1>3. QED
    BY <1>1, <1>2, SmallerOfTwo

-----------------------------------------------------------------------------
\* The invariant.

\* StackCacheIsCurrent, and what it takes to know which instruction comes next: the
\* code is one of Programs, and the exported error is the run's own (a failed call,
\* after which the cache may be stale, is the last step).
RunInv ==
    /\ IsRun(vm)
    /\ \E p \in Programs : vm.code = p.code
    /\ step.errno = vm.error
    /\ StackCacheIsCurrent

LEMMA FreshRun ==
    ASSUME NEW code, NEW callData, NEW gas
    PROVE  LET s == initRunState(code, callData, << >>, << >>, 0, gas)
           IN  IsRun(s) /\ s.code = code /\ s.error = NoError /\ s.stack = << >>
  BY EmptyIsSeq DEF initRunState, IsRun, Fields

LEMMA RunBegins == Init => RunInv
  <1>1. SUFFICES ASSUME NEW p \in Programs,
                        vm = initRunState(p.code, p.callData, << >>, << >>, 0, p.gas),
                        cache = freshCache(vm), step = initialState(p.callData, p.gas)
                 PROVE  RunInv
    BY DEF Init
  <1>2. IsRun(vm) /\ vm.code = p.code /\ vm.error = NoError
    BY <1>1, FreshRun
  <1>3. step.errno = NoError /\ step.op = "none"
    BY <1>1 DEF initialState
  <1>4. cache.prevStack = vm.stack /\ cache.stackHashes = stackHashes(vm.stack, << >>)
    BY <1>1 DEF freshCache
  <1>5. QED
    BY <1>2, <1>3, <1>4 DEF RunInv, StackCacheIsCurrent

LEMMA StepKeepsRunInv ==
    ASSUME RunInv, NEW op \in Instructions, Execute(op)
    PROVE  RunInv'
  <1> DEFINE cell == vm.code[vm.programCounter + 1]
             begun == [vm EXCEPT !.codeReads = {}]
             s == runNextStep(begun)
  <1>1. /\ ~Halted(vm) /\ cell.op = op
        /\ step' = exported(vm.programCounter, s, cell, cache)
        /\ cache' = carried(s, cell, cache)
        /\ vm' = [s EXCEPT !.memRead = FALSE, !.memWrite = FALSE]
        /\ vm.programCounter \in 0 .. Len(vm.code) - 1
    BY DEF Execute, runNext
  <1>2. cell.op \in Instructions /\ cell.n \in Nat
    <2>1. PICK p \in Programs : vm.code = p.code
      BY DEF RunInv
    <2>2. p.code \in Seq(CodeCell)
      BY ProgramsAssumption
    <2>3. vm.programCounter + 1 \in 1 .. Len(p.code)
      BY <1>1, <2>1, <2>2, LenProperties
    <2>4. p.code[vm.programCounter + 1] \in CodeCell
      BY <2>2, <2>3, ElementOfSeq
    <2>5. QED
      BY <2>1, <2>4 DEF CodeCell
  <1>3. step.errno = NoError
    BY <1>1 DEF RunInv, Halted, Running
  <1>4. /\ IsSeq(vm.stack) /\ cache.prevStack = vm.stack
        /\ cache.stackHashes = stackHashes(vm.stack, << >>)
    BY <1>3 DEF RunInv, StackCacheIsCurrent, IsRun
  <1>5. SameStack(vm, begun) /\ IsRun(begun) /\ begun.programCounter = vm.programCounter
    BY AdvanceKeeps DEF RunInv, SameStack, IsRun, Fields
  <1>6. cell = begun.code[begun.programCounter + 1]
    BY <1>5 DEF SameStack
  <1> HIDE DEF cell, begun
  <1>7. AfterInstruction(begun, s, cell)
    BY <1>2, <1>5, <1>6, runNextStepKeeps
  <1> HIDE DEF s
  <1>8. IsRun(s) /\ s.code = vm.code
    BY <1>5, <1>7 DEF AfterInstruction, Below, SameStack
  <1>9. SameStack(s, vm') /\ IsRun(vm') /\ vm'.error = s.error
    <2>1. SameStack(s, vm')
      BY <1>1, <1>8, AdvanceKeeps
    <2>2. vm'.error = s.error
      BY <1>1, <1>8 DEF IsRun, Fields
    <2>3. QED
      BY <2>1, <2>2 DEF SameStack
  <1>10. step'.errno = s.error /\ step'.op = cell.op
    BY <1>1 DEF exported
  <1>11. StackCacheIsCurrent'
    <2>1. CASE Below(begun, s, TakenOff(cell))
      <3>1. /\ IsSeq(s.stack) /\ Len(s.stack) \in Nat /\ Len(vm.stack) \in Nat
            /\ TakenOff(cell) \in Nat
        BY <1>2, <1>4, <1>8, IsSeqLen, TakenOffIsNat DEF IsRun
      <3>2. /\ Len(s.stack) >= Len(vm.stack) - TakenOff(cell)
            /\ \A i \in 1 .. Len(vm.stack) - TakenOff(cell) : s.stack[i] = vm.stack[i]
        BY <1>5, <2>1 DEF Below, SameStack
      <3>3. StackIn(cell, cache) =
               IF TakenOff(cell) <= Len(vm.stack) THEN TakenOff(cell) ELSE Len(vm.stack)
        BY <1>2, <1>4, <3>1, StackInClips
      <3>4. /\ StackIn(cell, cache) \in 0 .. Len(vm.stack)
            /\ Len(s.stack) >= Len(vm.stack) - StackIn(cell, cache)
            /\ \A i \in 1 .. Len(vm.stack) - StackIn(cell, cache) : s.stack[i] = vm.stack[i]
        BY <3>1, <3>2, <3>3
      <3>5. /\ carried(s, cell, cache).prevStack = s.stack
            /\ carried(s, cell, cache).stackHashes = stackHashes(s.stack, << >>)
        BY <1>4, <3>1, <3>4, CarriedIsCurrent
      <3>6. QED
        BY <1>1, <1>9, <3>5 DEF StackCacheIsCurrent, SameStack, stackHashes
    <2>2. CASE ~Running(s) /\ cell.op = "STATICCALL"
      BY <1>10, <2>2 DEF StackCacheIsCurrent, Running
    <2>3. QED
      BY <1>7, <2>1, <2>2 DEF AfterInstruction
  <1>12. (\E p \in Programs : vm.code = p.code)'
    BY <1>8, <1>9 DEF RunInv, SameStack
  <1>13. QED
    BY <1>9, <1>10, <1>11, <1>12 DEF RunInv, IsRun, IsSeq, Fields

LEMMA StutterKeepsRunInv ==
    ASSUME RunInv, UNCHANGED vars
    PROVE  RunInv'
  BY DEF RunInv, vars, StackCacheIsCurrent, IsRun, IsSeq, stackHashes

\* For every program, every width of words and every size of stack and memory, the stack
\* and the stack hashes that HydratedRuntime carries along are those of the run's stack
\* (HydratedRuntime.js 131-178), in every state of every run.
THEOREM StackCacheAlwaysCurrent == Spec => []StackCacheIsCurrent
  <1>1. Init => RunInv
    BY RunBegins
  <1>2. RunInv /\ [Next]_vars => RunInv'
    BY StepKeepsRunInv, StutterKeepsRunInv DEF Next
  <1>3. RunInv => StackCacheIsCurrent
    BY DEF RunInv
  <1>4. QED
    BY <1>1, <1>2, <1>3, PTL DEF Spec


-----------------------------------------------------------------------------
\* Numbers.

\* A sum of natural numbers is one.
LEMMA SumIsNat ==
    ASSUME NEW S, IsFiniteSet(S), NEW f, \A x \in S : f[x] \in Nat
    PROVE  SumFunctionOnSet(f, S) \in Nat
<1> DEFINE P(g) == g = [s \in SUBSET S |->
                          IF s = {} THEN 0
                          ELSE f[CHOOSE x \in s : TRUE] + g[s \ {CHOOSE x \in s : TRUE}]]
           sum == CHOOSE g : P(g)
           pick == [s \in (SUBSET S) \ {{}} |-> CHOOSE x \in s : TRUE]
           join == [x \in S |-> [v \in Nat |-> f[x] + v]]
<1>1. SumFunctionOnSet(f, S) = sum[S]
  BY Zenon DEF SumFunctionOnSet, FoldFunctionOnSet, MapThenFoldSet
<1>2. pick \in Picks(S)
  <2>1. ASSUME NEW s \in (SUBSET S) \ {{}} PROVE (CHOOSE x \in s : TRUE) \in s
    OBVIOUS
  <2> QED
    BY <2>1 DEF Picks
<1>3. join \in [S -> [Nat -> Nat]]
  OBVIOUS
<1> HIDE DEF pick, join
<1>4. PICK g \in [SUBSET S -> Nat] : FoldsSubsets(g, S, 0, pick, join)
  BY <1>2, <1>3, SubsetRecursion
<1>5. P(g)
  <2>1. ASSUME NEW s \in SUBSET S
        PROVE  g[s] = IF s = {} THEN 0
                      ELSE f[CHOOSE x \in s : TRUE] + g[s \ {CHOOSE x \in s : TRUE}]
    <3>1. CASE s # {}
      <4>1. pick[s] \in S /\ g[s \ {pick[s]}] \in Nat /\ pick[s] = CHOOSE x \in s : TRUE
        BY <1>2, <3>1 DEF pick, Picks
      <4>2. join[pick[s]][g[s \ {pick[s]}]] = f[pick[s]] + g[s \ {pick[s]}]
        BY <4>1 DEF join
      <4> QED
        BY <1>4, <3>1, <4>1, <4>2 DEF FoldsSubsets
    <3> QED
      BY <1>4, <3>1 DEF FoldsSubsets
  <2> QED
    BY <2>1
<1>6. P(sum)
  BY <1>5
<1> HIDE DEF sum
<1> DEFINE Good == {n \in Nat : \A s \in SUBSET S : Cardinality(s) = n => sum[s] \in Nat}
<1>7. 0 \in Good
  <2>1. ASSUME NEW s \in SUBSET S, Cardinality(s) = 0 PROVE sum[s] = 0
    <3>1. s = {}
      BY <2>1, FS_Subset, FS_EmptySet
    <3> QED
      BY <1>6, <3>1
  <2> QED
    BY <2>1
<1>8. ASSUME NEW n \in Nat, n \in Good PROVE n + 1 \in Good
  <2>1. ASSUME NEW s \in SUBSET S, Cardinality(s) = n + 1 PROVE sum[s] \in Nat
    <3> DEFINE x == CHOOSE x \in s : TRUE
               r == s \ {x}
    <3>1. IsFiniteSet(s) /\ s # {}
      BY <2>1, FS_Subset, FS_EmptySet
    <3>2. x \in s
      BY <3>1
    <3>3. sum[s] = f[x] + sum[r]
      BY <1>6, <3>1
    <3> HIDE DEF x
    <3>4. \A y \in s : Cardinality(s \ {y}) = Cardinality(s) - 1
      BY <3>1, FS_RemoveElement
    <3>5. Cardinality(r) = n /\ r \in SUBSET S
      <4>1. Cardinality(r) = Cardinality(s) - 1
        BY <3>2, <3>4
      <4> QED
        BY <2>1, <4>1
    <3>6. sum[r] \in Nat
      BY <1>8, <3>5
    <3>7. f[x] \in Nat
      BY <3>2
    <3> QED
      BY <3>3, <3>6, <3>7
  <2> QED
    BY <2>1
<1> HIDE DEF Good, P
<1>9. Nat \subseteq Good
  BY <1>7, <1>8, NatSetInduction
<1>10. Cardinality(S) \in Nat
  BY FS_CardinalityType
<1>11. sum[S] \in Nat
  BY <1>9, <1>10 DEF Good
<1> QED
  BY <1>1, <1>11

\* The sizes of bytes and words.
LEMMA Sizes ==
    /\ WordBytes \in Nat \ {0} /\ ByteBits \in Nat \ {0}
    /\ WordBits \in Nat \ {0} /\ ByteBase \in Nat \ {0} /\ TWO_POW256 \in Nat \ {0}
    /\ MAX_INTEGER \in Nat
<1>1. WordBits \in Nat \ {0}
  BY WordsAssumption DEF WordBits
<1>2. ByteBase \in Nat \ {0} /\ TWO_POW256 \in Nat \ {0}
  BY <1>1, WordsAssumption, PowerIsPositive DEF ByteBase, TWO_POW256
<1> QED
  BY <1>1, <1>2, WordsAssumption DEF MAX_INTEGER

\* Division and remainder by a positive number.
LEMMA Division == \A x \in Int, k \in Nat \ {0} : x \div k \in Int /\ x % k \in Nat
OBVIOUS

LEMMA NaturalDivision == \A x \in Nat, k \in Nat \ {0} : x \div k \in Nat
OBVIOUS

-----------------------------------------------------------------------------
\* What the operators on words return.

\* Numbers from bits and bytes, and bytes from numbers.
LEMMA FromBitsIsNat ==
    ASSUME NEW bits \in SUBSET Bit
    PROVE  FromBits(bits) \in Nat
<1> DEFINE f == [i \in bits |-> 2^i]
<1>1. IsFiniteSet(bits)
  <2>1. WordBits - 1 \in Int /\ IsFiniteSet(0 .. WordBits - 1)
    BY Sizes, FS_Interval
  <2> QED
    BY <2>1, FS_Subset DEF Bit
<1>2. \A i \in bits : f[i] \in Nat
  <2>1. \A i \in bits : i \in Nat
    BY DEF Bit
  <2> QED
    BY <2>1, PowerIsPositive
<1> HIDE DEF f
<1>3. SumFunctionOnSet(f, bits) \in Nat
  BY <1>1, <1>2, SumIsNat
<1> QED
  BY <1>3 DEF FromBits, f

LEMMA FromBytesIsNat ==
    ASSUME NEW bytes \in Seq(Nat)
    PROVE  FromBytes(bytes) \in Nat
<1> DEFINE f == [i \in DOMAIN bytes |-> bytes[i] * 2^(ByteBits * (Len(bytes) - i))]
<1>1. Len(bytes) \in Nat /\ DOMAIN bytes = 1 .. Len(bytes)
  BY LenProperties
<1>2. IsFiniteSet(DOMAIN bytes)
  BY <1>1, FS_Interval
<1>3. ASSUME NEW i \in DOMAIN bytes PROVE f[i] \in Nat
  <2>1. bytes[i] \in Nat
    BY ElementOfSeq, <1>1
  <2>2. Len(bytes) - i \in Nat
    BY <1>1
  <2>3. ByteBits * (Len(bytes) - i) \in Nat
    BY <2>2, Sizes
  <2>4. 2^(ByteBits * (Len(bytes) - i)) \in Nat
    BY <2>3, PowerIsPositive
  <2> DEFINE p == 2^(ByteBits * (Len(bytes) - i))
  <2>5. f[i] = bytes[i] * p
    OBVIOUS
  <2> HIDE DEF p, f
  <2> QED
    BY <2>1, <2>4, <2>5 DEF p
<1> HIDE DEF f
<1>4. DOMAIN f = DOMAIN bytes
  BY DEF f
<1>5. SumFunctionOnSet(f, DOMAIN bytes) \in Nat
  BY <1>2, <1>3, SumIsNat
<1>6. SumFunction(f) = SumFunctionOnSet(f, DOMAIN bytes)
  BY <1>4 DEF SumFunction
<1> QED
  BY <1>5, <1>6 DEF FromBytes, f

LEMMA ToBytesAreNat ==
    ASSUME NEW x \in Nat
    PROVE  ToBytes(x) \in Seq(Nat)
<1>1. ASSUME NEW i \in 1 .. WordBytes
      PROVE  (x \div 2^(ByteBits * (WordBytes - i))) % ByteBase \in Nat
  <2>1. WordBytes - i \in Nat
    BY Sizes
  <2>2. ByteBits * (WordBytes - i) \in Nat
    BY <2>1, Sizes
  <2> DEFINE p == 2^(ByteBits * (WordBytes - i))
  <2>3. p \in Nat \ {0}
    BY <2>2, PowerIsPositive
  <2> HIDE DEF p
  <2>4. x \div p \in Int
    BY <2>3, Division
  <2>5. (x \div p) % ByteBase \in Nat
    BY <2>4, Sizes, Division
  <2> QED
    BY <2>5 DEF p
<1>2. ToBytes(x) \in [1 .. WordBytes -> Nat]
  BY <1>1 DEF ToBytes
<1> QED
  BY <1>2, Sizes, SeqDef

LEMMA ByteLengthIsNat == \A x : ByteLength(x) \in Nat
<1> SUFFICES ASSUME NEW x PROVE ByteLength(x) \in Nat
  OBVIOUS
<1>1. IsFiniteSet(0 .. WordBytes - 1)
  BY Sizes, FS_Interval
<1> DEFINE T == {i \in 0 .. WordBytes - 1 : x >= 2^(ByteBits * i)}
<1>2. T \subseteq 0 .. WordBytes - 1
  OBVIOUS
<1> HIDE DEF T
<1>3. Cardinality(T) \in Nat
  BY <1>1, <1>2, FS_Subset, FS_CardinalityType
<1> QED
  BY <1>3 DEF ByteLength, T

\* The recursive function of PowMod exists, so that it has its recursion's values.
LEMMA PowModIsNat ==
    ASSUME NEW base \in Nat, NEW exponent \in Nat
    PROVE  PowMod(base, exponent) \in Nat
<1> DEFINE P(g) == g = [i \in 0 .. exponent |->
                          IF i = 0 THEN 1 ELSE (base * g[i - 1]) % TWO_POW256]
           pow == CHOOSE g : P(g)
           times == [v \in Nat |-> (base * v) % TWO_POW256]
<1>1. PowMod(base, exponent) = pow[exponent]
  BY Zenon DEF PowMod
<1>2. ASSUME NEW v \in Nat PROVE (base * v) % TWO_POW256 \in Nat
  <2>1. base * v \in Nat
    OBVIOUS
  <2> QED
    BY <2>1, Sizes, Division
<1>3. times \in [Nat -> Nat] /\ \A v \in Nat : times[v] = (base * v) % TWO_POW256
  BY <1>2
<1> HIDE DEF times
<1>4. PICK f \in [Nat -> Nat] : f[0] = 1 /\ \A n \in Nat : f[n + 1] = times[f[n]]
  <2> DEFINE V == Nat
             first == 1
  <2>1. first \in V /\ times \in [V -> V]
    BY <1>3
  <2>2. \E f \in [Nat -> V] : f[0] = first /\ \A n \in Nat : f[n + 1] = times[f[n]]
    <3> HIDE DEF V, first
    <3>1. \A W : \A a \in W : \A k \in [W -> W] :
              \E f \in [Nat -> W] : f[0] = a /\ \A n \in Nat : f[n + 1] = k[f[n]]
      BY Iteration
    <3>2. \A a \in V : \A k \in [V -> V] :
              \E f \in [Nat -> V] : f[0] = a /\ \A n \in Nat : f[n + 1] = k[f[n]]
      BY <3>1
    <3>3. \A k \in [V -> V] :
              \E f \in [Nat -> V] : f[0] = first /\ \A n \in Nat : f[n + 1] = k[f[n]]
      BY <2>1, <3>2
    <3> QED
      BY <2>1, <3>3
  <2> QED
    BY <2>2
<1> DEFINE g == [i \in 0 .. exponent |-> f[i]]
<1>5. P(g)
  <2>1. ASSUME NEW i \in 0 .. exponent
        PROVE  g[i] = IF i = 0 THEN 1 ELSE (base * g[i - 1]) % TWO_POW256
    <3>1. CASE i # 0
      <4>1. i - 1 \in Nat /\ i - 1 \in 0 .. exponent /\ (i - 1) + 1 = i
        BY <3>1
      <4>2. f[i] = times[f[i - 1]]
        BY <1>4, <4>1
      <4>3. f[i - 1] \in Nat /\ g[i - 1] = f[i - 1] /\ g[i] = f[i]
        BY <4>1
      <4>4. g[i] = (base * g[i - 1]) % TWO_POW256
        BY <1>3, <4>2, <4>3
      <4> QED
        BY <3>1, <4>4
    <3>2. CASE i = 0
      BY <1>4, <3>2
    <3> QED
      BY <3>1, <3>2
  <2> HIDE DEF g
  <2>2. g = [i \in 0 .. exponent |-> g[i]]
    BY DEF g
  <2> QED
    BY <2>1, <2>2
<1>6. P(pow)
  BY <1>5
<1> HIDE DEF pow, g
<1> DEFINE Good == {n \in Nat : n <= exponent => pow[n] \in Nat}
<1>7. 0 \in Good
  BY <1>6
<1>8. ASSUME NEW n \in Nat, n \in Good PROVE n + 1 \in Good
  <2>1. ASSUME n + 1 <= exponent PROVE pow[n + 1] \in Nat
    <3>1. pow[n] \in Nat
      BY <1>8, <2>1
    <3>2. n + 1 \in 0 .. exponent /\ n + 1 # 0 /\ (n + 1) - 1 = n
      BY <2>1
    <3>3. pow[n + 1] = (base * pow[(n + 1) - 1]) % TWO_POW256
      BY <1>6, <3>2
    <3>4. pow[n + 1] = (base * pow[n]) % TWO_POW256
      BY <3>2, <3>3
    <3> QED
      BY <1>2, <3>1, <3>4
  <2> QED
    BY <2>1
<1> HIDE DEF Good, P
<1>9. Nat \subseteq Good
  BY <1>7, <1>8, NatSetInduction
<1> QED
  BY <1>1, <1>9 DEF Good

\* Two's complement; no word but 0 stands for 0.
LEMMA TwosAreNumbers ==
    /\ \A x \in Int : toTwos(x) \in Nat
    /\ \A x \in Nat : fromTwos(x) \in Int
    /\ \A x \in Nat : x # 0 => fromTwos(x) # 0
    /\ \A x \in Int : Abs(x) \in Nat
<1>1. ASSUME NEW x \in Nat, x # 0 PROVE fromTwos(x) # 0
  <2> DEFINE h == 2^(WordBits - 1)
  <2>1. WordBits - 1 \in Nat /\ (WordBits - 1) + 1 = WordBits
    BY Sizes
  <2>2. h \in Nat \ {0} /\ TWO_POW256 = 2 * h
    BY <2>1, PowerIsPositive, PowerDoubles DEF TWO_POW256
  <2>3. testn(x, WordBits - 1) <=> (x \div h) % 2 = 1
    BY DEF testn
  <2> HIDE DEF h
  <2>4. (2 * h) \div h = 2
    BY <2>2
  <2>5. testn(x, WordBits - 1) => x # TWO_POW256
    BY <2>2, <2>3, <2>4
  <2> QED
    BY <1>1, <2>5, Sizes DEF fromTwos
<1> QED
  BY <1>1, Sizes, Division DEF toTwos, fromTwos, Abs

\* The quotient that rounds towards zero.
LEMMA QuotientIsInt ==
    ASSUME NEW a \in Int, NEW b \in Int, b # 0
    PROVE  /\ Quotient(a, b) \in Int
           /\ a >= 0 /\ b >= 0 => Quotient(a, b) \in Nat
<1>1. Abs(a) \in Nat /\ Abs(b) \in Nat \ {0}
  BY DEF Abs
<1>2. Abs(a) \div Abs(b) \in Nat
  BY <1>1, NaturalDivision
<1> DEFINE q == Abs(a) \div Abs(b)
<1> HIDE DEF q
<1>3. Quotient(a, b) = IF (a < 0) # (b < 0) THEN -q ELSE q
  BY DEF Quotient, q
<1>4. q \in Nat
  BY <1>2 DEF q
<1>5. -q \in Int
  BY <1>4
<1>6. a >= 0 /\ b >= 0 => (a < 0) = (b < 0)
  OBVIOUS
<1> QED
  BY <1>3, <1>4, <1>5, <1>6

\* What the instructions on one, two and three words push.
LEMMA ArithmeticIsNat ==
    ASSUME NEW a \in Nat, NEW b \in Nat
    PROVE  /\ handleADD(a, b) \in Nat /\ handleMUL(a, b) \in Nat /\ handleSUB(a, b) \in Nat
           /\ handleDIV(a, b) \in Nat /\ handleSDIV(a, b) \in Nat
           /\ handleMOD(a, b) \in Nat /\ handleSMOD(a, b) \in Nat
<1>1. handleADD(a, b) \in Nat /\ handleSUB(a, b) \in Nat
  BY Sizes, Division, TwosAreNumbers DEF handleADD, handleSUB
<1>2. handleMUL(a, b) \in Nat
  <2>1. a * b \in Int
    OBVIOUS
  <2> QED
    BY <2>1, Sizes, Division DEF handleMUL
<1>3. handleDIV(a, b) \in Nat
  BY QuotientIsInt DEF handleDIV
<1>4. fromTwos(a) \in Int /\ fromTwos(b) \in Int
  BY TwosAreNumbers
<1>5. handleMOD(a, b) \in Nat
  BY Division DEF handleMOD
<1>6. handleSDIV(a, b) \in Nat
  <2>1. ASSUME b # 0 PROVE Quotient(fromTwos(a), fromTwos(b)) \in Int
    BY <1>4, <2>1, TwosAreNumbers, QuotientIsInt
  <2> QED
    BY <2>1, TwosAreNumbers DEF handleSDIV
<1>7. handleSMOD(a, b) \in Nat
  <2> DEFINE r == Abs(fromTwos(a)) % Abs(fromTwos(b))
  <2>1. ASSUME b # 0 PROVE r \in Nat
    <3>1. Abs(fromTwos(a)) \in Nat /\ Abs(fromTwos(b)) \in Nat \ {0}
      BY <1>4, <2>1, TwosAreNumbers DEF Abs
    <3> QED
      BY <3>1, Division
  <2> HIDE DEF r
  <2>2. ASSUME b # 0 PROVE r \in Int /\ -r \in Int
    BY <2>1, <2>2
  <2>3. handleSMOD(a, b) = IF b = 0 THEN 0 ELSE toTwos(IF fromTwos(a) < 0 THEN -r ELSE r)
    BY DEF handleSMOD, r
  <2> QED
    BY <2>2, <2>3, TwosAreNumbers
<1> QED
  BY <1>1, <1>2, <1>3, <1>5, <1>6, <1>7

LEMMA ModularIsNat ==
    ASSUME NEW a \in Nat, NEW b \in Nat, NEW c \in Nat
    PROVE  handleADDMOD(a, b, c) \in Nat /\ handleMULMOD(a, b, c) \in Nat
<1>1. a + b \in Int /\ a * b \in Int
  OBVIOUS
<1> QED
  BY <1>1, Division DEF handleADDMOD, handleMULMOD

LEMMA BitwiseIsNat ==
    ASSUME NEW a, NEW b
    PROVE  /\ handleAND(a, b) \in Nat /\ handleOR(a, b) \in Nat /\ handleXOR(a, b) \in Nat
           /\ handleNOT(a) \in Nat
           /\ b \in Nat => handleSIGNEXTEND(a, b) \in Nat
BY FromBitsIsNat DEF handleAND, handleOR, handleXOR, handleNOT, handleSIGNEXTEND

LEMMA ShiftsAreNat ==
    ASSUME NEW a \in Nat, NEW b \in Nat
    PROVE  /\ handleSHL(a, b) \in Nat /\ handleSHR(a, b) \in Nat /\ handleSAR(a, b) \in Nat
           /\ handleBYTE(a, b) \in Nat
<1> DEFINE p == 2^a
<1>1. p \in Nat \ {0}
  BY PowerIsPositive
<1> HIDE DEF p
<1>2. b * p \in Int /\ b \div p \in Nat
  BY <1>1, NaturalDivision
<1>3. (b * p) % TWO_POW256 \in Nat
  BY <1>2, Sizes, Division
<1>4. handleSHL(a, b) \in Nat
  BY <1>3 DEF handleSHL, p
<1>5. handleSHR(a, b) \in Nat
  BY <1>2 DEF handleSHR, p
<1>6. handleSAR(a, b) \in Nat
  BY Sizes, FromBitsIsNat DEF handleSAR
<1>7. handleBYTE(a, b) \in Nat
  <2>1. ASSUME ~(a >= WordBytes)
        PROVE  (b \div 2^((WordBytes - 1 - a) * ByteBits)) % ByteBase \in Nat
    <3> DEFINE k == (WordBytes - 1 - a) * ByteBits
    <3>1. WordBytes - 1 - a \in Nat
      BY <2>1, Sizes
    <3>2. k \in Nat
      BY <3>1, Sizes
    <3> HIDE DEF k
    <3>3. 2^k \in Nat \ {0}
      BY <3>2, PowerIsPositive
    <3>4. b \div 2^k \in Int
      BY <3>3, Division
    <3>5. (b \div 2^k) % ByteBase \in Nat
      BY <3>4, Sizes, Division
    <3> QED
      BY <3>5 DEF k
  <2> QED
    BY <2>1 DEF handleBYTE
<1> QED
  BY <1>4, <1>5, <1>6, <1>7

LEMMA ComparisonsAreNat ==
    ASSUME NEW a, NEW b
    PROVE  /\ handleLT(a, b) \in Nat /\ handleGT(a, b) \in Nat /\ handleSLT(a, b) \in Nat
           /\ handleSGT(a, b) \in Nat /\ handleEQ(a, b) \in Nat /\ handleISZERO(a) \in Nat
BY DEF handleLT, handleGT, handleSLT, handleSGT, handleEQ, handleISZERO, Bool

LEMMA BinaryIsNat ==
    ASSUME NEW op \in Binary, NEW a \in Nat, NEW b \in Nat
    PROVE  BinaryValue(op, a, b) \in Nat
BY ArithmeticIsNat, BitwiseIsNat, ShiftsAreNat, ComparisonsAreNat DEF Binary, BinaryValue

LEMMA TernaryIsNat ==
    ASSUME NEW op, NEW a \in Nat, NEW b \in Nat, NEW c \in Nat
    PROVE  TernaryValue(op, a, b, c) \in Nat
BY ModularIsNat DEF TernaryValue

-----------------------------------------------------------------------------
\* Sequences of numbers, and the price of memory.

NatSeq == Seq(Nat)

\* Slices, parts and overwritten byte strings are byte strings.
LEMMA SliceIsSeq ==
    ASSUME NEW bytes \in NatSeq, NEW pos \in Nat, NEW n \in Nat
    PROVE  Slice(bytes, pos, n) \in NatSeq /\ Len(Slice(bytes, pos, n)) = n
<1> USE DEF NatSeq
<1> DEFINE full == bytes \o Zeroes(pos + n)
<1>1. Zeroes(pos + n) \in NatSeq /\ Len(Zeroes(pos + n)) = pos + n
  <2>1. pos + n \in Nat /\ Zeroes(pos + n) \in [1 .. pos + n -> Nat]
    BY DEF Zeroes
  <2>2. Zeroes(pos + n) \in Seq(Nat)
    BY <2>1, SeqDef
  <2> QED
    BY <2>1, <2>2, LenProperties
<1>2. full \in NatSeq /\ Len(full) = Len(bytes) + (pos + n) /\ Len(bytes) \in Nat
  BY <1>1, ConcatProperties, LenProperties
<1> HIDE DEF full
<1>3. \A i \in pos + 1 .. pos + n : full[i] \in Nat
  BY <1>2, ElementOfSeq
<1> DEFINE m == pos + 1
           k == pos + n
<1>4. m \in Int /\ k \in Int /\ \A i \in m .. k : full[i] \in Nat
  BY <1>3
<1>5. (IF m <= k THEN k - m + 1 ELSE 0) = n
  OBVIOUS
<1> HIDE DEF m, k
<1>6. SubSeq(full, m, k) \in Seq(Nat) /\ Len(SubSeq(full, m, k)) = n
  BY <1>4, <1>5, SubSeqProperties
<1> QED
  BY <1>6 DEF Slice, full, m, k

LEMMA PartOfSeq ==
    ASSUME NEW q \in NatSeq, NEW m \in Nat \ {0}, NEW n \in Nat, n <= Len(q)
    PROVE  SubSeq(q, m, n) \in NatSeq
<1>1. m \in Int /\ n \in Int /\ \A i \in m .. n : q[i] \in Nat
  BY ElementOfSeq, LenProperties DEF NatSeq
<1> QED
  BY <1>1, SubSeqProperties DEF NatSeq

LEMMA OverwriteIsSeq ==
    ASSUME NEW bytes \in NatSeq, NEW pos \in Nat, NEW value \in NatSeq
    PROVE  Overwrite(bytes, pos, value) \in NatSeq
<1> DEFINE front == Slice(bytes, 0, pos)
           from == pos + Len(value) + 1
           back == SubSeq(bytes, from, Len(bytes))
<1>1. Len(value) \in Nat /\ Len(bytes) \in Nat
  BY LenProperties DEF NatSeq
<1>2. front \in NatSeq
  BY SliceIsSeq
<1>3. from \in Nat \ {0} /\ Len(bytes) <= Len(bytes)
  BY <1>1
<1> HIDE DEF front, from
<1>4. back \in NatSeq
  BY <1>1, <1>3, PartOfSeq
<1> HIDE DEF back
<1>5. front \o value \in NatSeq
  BY <1>2, ConcatProperties DEF NatSeq
<1>6. (front \o value) \o back \in NatSeq
  BY <1>4, <1>5, ConcatProperties DEF NatSeq
<1> QED
  BY <1>6 DEF Overwrite, front, back, from

LEMMA AppendNumber ==
    ASSUME NEW q \in NatSeq, NEW v \in Nat
    PROVE  Append(q, v) \in NatSeq
BY AppendProperties DEF NatSeq

LEMMA EmptyNumbers == << >> \in NatSeq
BY EmptySeq DEF NatSeq

LEMMA DropSixNumbers ==
    ASSUME NEW q \in NatSeq
    PROVE  DropSix(q) \in NatSeq
<1> DEFINE n == Len(q)
           to == IF n >= 6 THEN n - 6 ELSE Max({0, 2 * n - 6})
<1>1. n \in Nat
  BY LenProperties DEF NatSeq
<1>2. Max({0, 2 * n - 6}) = IF 2 * n - 6 >= 0 THEN 2 * n - 6 ELSE 0
  <2> DEFINE x == 2 * n - 6
  <2>1. x \in Int
    BY <1>1
  <2> HIDE DEF x
  <2>2. Max({0, x}) = IF x >= 0 THEN x ELSE 0
    BY <2>1 DEF Max
  <2> QED
    BY <2>2 DEF x
<1>3. to \in Nat /\ to <= n
  BY <1>1, <1>2
<1>4. DropSix(q) = SubSeq(q, 1, to)
  BY DEF DropSix
<1> HIDE DEF to, n
<1> QED
  BY <1>3, <1>4, PartOfSeq DEF n

\* Words needed for n bytes.
LEMMA WordsForIsNat ==
    ASSUME NEW n \in Nat
    PROVE  WordsFor(n) \in Nat
<1>1. n + WordBytes - 1 \in Nat /\ WordBytes \in Nat \ {0}
  BY Sizes
<1> DEFINE x == n + WordBytes - 1
<1> HIDE DEF x
<1>2. x \div WordBytes \in Nat
  BY <1>1, NaturalDivision DEF x
<1> QED
  BY <1>2 DEF WordsFor, divCeil, x

\* The price of memory grows with it.
LEMMA MemCostGrows ==
    ASSUME NEW m \in Nat, NEW n \in Nat
    PROVE  MemCost(m) \in Nat /\ (m <= n => MemCost(m) <= MemCost(n))
<1>1. QuadDivisor \in Nat \ {0}
  BY RuntimeAssumption
<1>2. m * m \in Nat /\ n * n \in Nat
  OBVIOUS
<1>3. m <= n => m * m <= n * n
  <2>1. m <= n => m * m <= m * n /\ m * n <= n * n
    OBVIOUS
  <2> QED
    BY <2>1
<1> DEFINE a == m * m
           b == n * n
<1> HIDE DEF a, b
<1>4. a \div QuadDivisor \in Nat /\ b \div QuadDivisor \in Nat
  BY <1>1, <1>2, NaturalDivision DEF a, b
<1>5. a <= b => a \div QuadDivisor <= b \div QuadDivisor
  <2>1. \A x \in Nat, y \in Nat, k \in Nat \ {0} : x <= y => x \div k <= y \div k
    OBVIOUS
  <2> QED
    BY <1>1, <1>2, <2>1 DEF a, b
<1> DEFINE c == a \div QuadDivisor
           d == b \div QuadDivisor
<1>6. MemCost(m) = m * 3 + c /\ MemCost(n) = n * 3 + d
  BY DEF MemCost, a, b
<1>7. c \in Nat /\ d \in Nat /\ (m <= n => c <= d)
  BY <1>3, <1>4, <1>5 DEF a, b
<1> HIDE DEF c, d
<1> QED
  BY <1>6, <1>7

-----------------------------------------------------------------------------
\* Later run states, and the parts of a step that lead to them.

\* A run state with numbers where numbers belong, and the memory paid for.
Typed(s) ==
    /\ IsRun(s)
    /\ s.code \in Seq(CodeCell)
    /\ s.callData \in NatSeq /\ s.stack \in NatSeq /\ s.memory \in NatSeq
    /\ s.returnValue \in NatSeq
    /\ s.gasLeft \in Nat /\ s.memoryWordCount \in Nat /\ s.programCounter \in Nat
    /\ s.highestMemCost = MemCost(s.memoryWordCount)
    /\ s.stopped \in BOOLEAN

\* What no part of a step undoes: gas is not given back, an error stays, and who
\* changes the memory is seen to write it.
Later(s, t) ==
    /\ t.code = s.code /\ t.callData = s.callData /\ t.validJumps = s.validJumps
    /\ t.gasLeft <= s.gasLeft
    /\ t.memory = s.memory \/ t.memWrite
    /\ s.memWrite => t.memWrite
    /\ Running(t) => Running(s)

Goes(s, t) == Typed(t) /\ Later(s, t)

\* Nothing done is a step, and steps can be put together.
LEMMA GoesNowhere ==
    ASSUME NEW s, Typed(s)
    PROVE  Goes(s, s)
BY DEF Goes, Typed, Later

LEMMA GoesOn ==
    ASSUME NEW s, NEW t, NEW u, Typed(s), Goes(s, t), Goes(t, u)
    PROVE  Goes(s, u)
<1>1. s.gasLeft \in Nat /\ t.gasLeft \in Nat /\ u.gasLeft \in Nat
  BY DEF Goes, Typed
<1> QED
  BY <1>1 DEF Goes, Later

\* Setting a field: what each of these needs to lead to a later state.
LEMMA SetGas ==
    ASSUME NEW s, Typed(s), NEW g \in Nat, g <= s.gasLeft
    PROVE  LET t == [s EXCEPT !.gasLeft = g]
           IN  Goes(s, t) /\ t.gasLeft = g /\ t.error = s.error
BY DEF Goes, Typed, Later, IsRun, Fields, Running

LEMMA SetError ==
    ASSUME NEW s, Typed(s), NEW e, e # NoError
    PROVE  LET t == [s EXCEPT !.error = e]
           IN  Goes(s, t) /\ ~Running(t) /\ t.stopped = s.stopped
BY DEF Goes, Typed, Later, IsRun, Fields, Running

LEMMA SetStack ==
    ASSUME NEW s, Typed(s), NEW q \in NatSeq
    PROVE  LET t == [s EXCEPT !.stack = q]
           IN  Goes(s, t) /\ t.stack = q /\ t.programCounter = s.programCounter
<1>1. IsSeq(q)
  BY SeqIsSeq DEF NatSeq
<1> QED
  BY <1>1 DEF Goes, Typed, Later, IsRun, Fields, Running

LEMMA SetMemory ==
    ASSUME NEW s, Typed(s), NEW m \in NatSeq
    PROVE  Goes(s, [s EXCEPT !.memory = m, !.memWrite = TRUE])
BY DEF Goes, Typed, Later, IsRun, Fields, Running

LEMMA SetWords ==
    ASSUME NEW s, Typed(s), NEW w \in Nat
    PROVE  Goes(s, [s EXCEPT !.highestMemCost = MemCost(w), !.memoryWordCount = w])
BY DEF Goes, Typed, Later, IsRun, Fields, Running

LEMMA SetSeen ==
    ASSUME NEW s, Typed(s), NEW r, NEW c
    PROVE  /\ Goes(s, [s EXCEPT !.memRead = r])
           /\ Goes(s, [s EXCEPT !.codeReads = c])
           /\ Goes(s, [s EXCEPT !.stopped = TRUE])
           /\ [s EXCEPT !.stopped = TRUE].stopped
BY DEF Goes, Typed, Later, IsRun, Fields, Running

LEMMA SetCounter ==
    ASSUME NEW s, Typed(s), NEW pc \in Nat, NEW c
    PROVE  /\ Goes(s, [s EXCEPT !.programCounter = pc])
           /\ [s EXCEPT !.programCounter = pc].programCounter = pc
           /\ Goes(s, [s EXCEPT !.programCounter = pc, !.codeReads = c])
BY DEF Goes, Typed, Later, IsRun, Fields, Running

LEMMA SetReturn ==
    ASSUME NEW s, Typed(s), NEW value \in NatSeq
    PROVE  /\ Goes(s, [s EXCEPT !.returnValue = value])
           /\ Goes(s, [s EXCEPT !.returnValue = value, !.stack = Append(DropSix(s.stack), 0)])
<1> DEFINE q == Append(DropSix(s.stack), 0)
<1>1. q \in NatSeq
  BY DropSixNumbers, AppendNumber DEF Typed
<1> HIDE DEF q
<1>2. IsSeq(q)
  BY <1>1, SeqIsSeq DEF NatSeq
<1>3. Goes(s, [s EXCEPT !.returnValue = value])
  BY DEF Goes, Typed, Later, IsRun, Fields, Running
<1>4. Goes(s, [s EXCEPT !.returnValue = value, !.stack = q])
  BY <1>1, <1>2 DEF Goes, Typed, Later, IsRun, Fields, Running
<1> QED
  BY <1>3, <1>4 DEF q

\* The parts of a step.
LEMMA ThrowGoes ==
    ASSUME NEW s, Typed(s), NEW e, e # NoError
    PROVE  Goes(s, Throw(s, e)) /\ ~Running(Throw(s, e))
BY SetError, GoesNowhere DEF Throw

LEMMA subGasGoes ==
    ASSUME NEW s, Typed(s), NEW amount \in Nat
    PROVE  /\ Goes(s, subGas(s, amount))
           /\ Running(subGas(s, amount)) => subGas(s, amount).gasLeft = s.gasLeft - amount
<1>0. s.gasLeft \in Nat
  BY DEF Typed
<1>1. CASE ~Running(s)
  BY <1>1, GoesNowhere DEF subGas
<1>2. CASE Running(s) /\ s.gasLeft < amount
  <2> DEFINE empty == [s EXCEPT !.gasLeft = 0]
  <2>1. Goes(s, empty)
    BY <1>0, SetGas
  <2> HIDE DEF empty
  <2>2. Goes(empty, Throw(empty, "out of gas")) /\ ~Running(Throw(empty, "out of gas"))
    BY <2>1, ThrowGoes DEF Goes, NoError
  <2>3. Goes(s, Throw(empty, "out of gas"))
    BY <2>1, <2>2, GoesOn
  <2>4. subGas(s, amount) = Throw(empty, "out of gas")
    BY <1>2 DEF subGas, empty
  <2> QED
    BY <2>2, <2>3, <2>4
<1>3. CASE Running(s) /\ ~(s.gasLeft < amount)
  <2> DEFINE g == s.gasLeft - amount
  <2>1. g \in Nat /\ g <= s.gasLeft
    BY <1>0, <1>3
  <2>2. subGas(s, amount) = [s EXCEPT !.gasLeft = g]
    BY <1>3 DEF subGas
  <2> HIDE DEF g
  <2>3. Goes(s, subGas(s, amount)) /\ subGas(s, amount).gasLeft = g
    BY <2>1, <2>2, SetGas
  <2> QED
    BY <2>3 DEF g
<1> QED
  BY <1>1, <1>2, <1>3

\* More memory than before costs more than was paid before, so what is paid for is the
\* price of the words counted.
LEMMA subMemUsageGoes ==
    ASSUME NEW s, Typed(s), NEW offset \in Nat, NEW length \in Nat
    PROVE  Goes(s, subMemUsage(s, offset, length))
<1> DEFINE words == WordsFor(offset + length)
           cost == MemCost(words)
           amount == Max({0, cost - s.highestMemCost})
           paid == subGas(s, amount)
<1>1. words \in Nat
  BY WordsForIsNat
<1>2. cost \in Nat /\ s.memoryWordCount \in Nat /\ s.highestMemCost \in Nat
  BY <1>1, MemCostGrows DEF Typed
<1>3. amount \in Nat
  <2> DEFINE x == cost - s.highestMemCost
  <2>1. x \in Int
    BY <1>2
  <2> HIDE DEF x
  <2>2. Max({0, x}) \in Nat
    BY <2>1 DEF Max
  <2> QED
    BY <2>2 DEF x
<1> HIDE DEF amount
<1>4. Goes(s, paid) /\ Typed(paid)
  BY <1>3, subGasGoes DEF Goes
<1>5. paid.highestMemCost = s.highestMemCost /\ paid.memoryWordCount = s.memoryWordCount
  BY DEF paid, subGas, Throw, Typed, IsRun, Fields
<1>6. CASE ~(length = 0 \/ words <= s.memoryWordCount \/ ~Running(s)) /\ Running(paid)
  <2> DEFINE c == Max({paid.highestMemCost, cost})
  <2>1. subMemUsage(s, offset, length) =
           [paid EXCEPT !.highestMemCost = c, !.memoryWordCount = words]
    BY <1>6 DEF subMemUsage, amount
  <2>2. c = cost
    <3>1. s.memoryWordCount <= words
      BY <1>1, <1>2, <1>6
    <3>2. s.highestMemCost <= cost
      BY <1>1, <1>2, <3>1, MemCostGrows DEF Typed
    <3> DEFINE h == paid.highestMemCost
    <3>3. h \in Nat /\ h <= cost
      BY <1>2, <1>5, <3>2
    <3> HIDE DEF h, cost, paid
    <3>4. Max({h, cost}) = cost
      BY <1>2, <3>3 DEF Max
    <3> QED
      BY <3>4 DEF h
  <2> HIDE DEF c, paid, words
  <2>3. Goes(paid, [paid EXCEPT !.highestMemCost = MemCost(words), !.memoryWordCount = words])
    BY <1>1, <1>4, SetWords
  <2>4. Goes(paid, subMemUsage(s, offset, length))
    BY <2>1, <2>2, <2>3
  <2> QED
    BY <1>4, <2>4, GoesOn
<1>7. CASE ~(length = 0 \/ words <= s.memoryWordCount \/ ~Running(s)) /\ ~Running(paid)
  BY <1>4, <1>7 DEF subMemUsage, amount
<1>8. CASE length = 0 \/ words <= s.memoryWordCount \/ ~Running(s)
  BY <1>8, GoesNowhere DEF subMemUsage
<1> QED
  BY <1>6, <1>7, <1>8

LEMMA memLoadGoes ==
    ASSUME NEW s, Typed(s), NEW offset \in Nat, NEW length \in Nat
    PROVE  Goes(s, memLoad(s, offset, length))
<1> DEFINE paid == subMemUsage(s, offset, length)
           seen == paid.memRead \/ (Running(paid) /\ length > 0)
<1>1. Goes(s, paid) /\ Typed(paid)
  BY subMemUsageGoes DEF Goes
<1>2. memLoad(s, offset, length) = [paid EXCEPT !.memRead = seen]
  BY DEF memLoad
<1> HIDE DEF paid, seen
<1>3. Goes(paid, [paid EXCEPT !.memRead = seen])
  BY <1>1, SetSeen
<1> QED
  BY <1>1, <1>2, <1>3, GoesOn

LEMMA LoadedNumbers ==
    ASSUME NEW s, Typed(s), NEW offset \in Nat, NEW length \in Nat
    PROVE  Loaded(s, offset, length) \in NatSeq
BY SliceIsSeq DEF Loaded, Typed

\* Only this changes the memory, and it says so.
LEMMA StoredGoes ==
    ASSUME NEW s, Typed(s), NEW offset \in Nat, NEW val \in NatSeq, NEW valOffset \in Nat,
           NEW length \in Nat
    PROVE  Goes(s, Stored(s, offset, val, valOffset, length))
<1> DEFINE m == Overwrite(s.memory, offset, Slice(val, valOffset, length))
<1>1. m \in NatSeq
  BY SliceIsSeq, OverwriteIsSeq DEF Typed
<1>2. Stored(s, offset, val, valOffset, length) =
         IF ~Running(s) \/ length = 0 \/ val = << >> THEN s
         ELSE [s EXCEPT !.memory = m, !.memWrite = TRUE]
  BY DEF Stored
<1> HIDE DEF m
<1> QED
  BY <1>1, <1>2, SetMemory, GoesNowhere

LEMMA memStoreGoes ==
    ASSUME NEW s, Typed(s), NEW offset \in Nat, NEW val \in NatSeq, NEW valOffset \in Nat,
           NEW length \in Nat, NEW chargeMemory \in BOOLEAN
    PROVE  Goes(s, memStore(s, offset, val, valOffset, length, chargeMemory))
<1> DEFINE t == IF chargeMemory THEN subMemUsage(s, offset, length) ELSE s
<1>1. Goes(s, t) /\ Typed(t)
  BY subMemUsageGoes, GoesNowhere DEF Goes
<1>2. memStore(s, offset, val, valOffset, length, chargeMemory) =
         Stored(t, offset, val, valOffset, length)
  BY DEF memStore
<1> HIDE DEF t
<1> QED
  BY <1>1, <1>2, StoredGoes, GoesOn

\* The operands are numbers.
LEMMA ArgIsNat ==
    ASSUME NEW s, Typed(s), NEW i \in 1 .. Len(s.stack)
    PROVE  Arg(s, i) \in Nat
<1> DEFINE k == Len(s.stack) - i + 1
<1>1. k \in 1 .. Len(s.stack)
  BY LenProperties DEF Typed, NatSeq
<1> HIDE DEF k
<1>2. s.stack[k] \in Nat
  BY <1>1, ElementOfSeq DEF Typed, NatSeq
<1> QED
  BY <1>2 DEF Arg, k

LEMMA PopGoes ==
    ASSUME NEW s, Typed(s), NEW n \in 0 .. Len(s.stack)
    PROVE  Goes(s, Pop(s, n)) /\ Pop(s, n).programCounter = s.programCounter
<1> DEFINE k == Len(s.stack) - n
<1>1. k \in Nat /\ k <= Len(s.stack)
  BY LenProperties DEF Typed, NatSeq
<1> DEFINE left == SubSeq(s.stack, 1, k)
<1>2. Pop(s, n) = [s EXCEPT !.stack = left]
  BY DEF Pop
<1> HIDE DEF k
<1>3. left \in NatSeq
  BY <1>1, PartOfSeq DEF Typed
<1> HIDE DEF left
<1> QED
  BY <1>2, <1>3, SetStack

LEMMA PushGoes ==
    ASSUME NEW s, Typed(s), NEW v \in Nat
    PROVE  Goes(s, Push(s, v))
<1> DEFINE q == Append(s.stack, v)
<1>1. q \in NatSeq
  BY AppendNumber DEF Typed
<1>2. Push(s, v) = IF Running(s) THEN [s EXCEPT !.stack = q] ELSE s
  BY DEF Push
<1> HIDE DEF q
<1> QED
  BY <1>1, <1>2, SetStack, GoesNowhere

-----------------------------------------------------------------------------
\* The handlers.

\* What the instructions on one word push, and those that read the run state.
LEMMA UnaryIsNat ==
    ASSUME NEW s, Typed(s), NEW op \in Unary, NEW a \in Nat
    PROVE  UnaryValue(s, op, a) \in Nat
<1>1. handleCALLDATALOAD(s, a) \in Nat
  <2>1. Slice(s.callData, a, WordBytes) \in NatSeq
    BY Sizes, SliceIsSeq DEF Typed
  <2>2. FromBytes(Slice(s.callData, a, WordBytes)) \in Nat
    BY <2>1, FromBytesIsNat DEF NatSeq
  <2> QED
    BY <2>2 DEF handleCALLDATALOAD
<1> QED
  BY <1>1, ComparisonsAreNat, BitwiseIsNat DEF Unary, UnaryValue

LEMMA EnvironmentIsNat ==
    ASSUME NEW s, Typed(s), s.programCounter # 0, NEW op \in Environment
    PROVE  EnvironmentValue(s, op) \in Nat
<1>1. Address \in Nat /\ Caller \in Nat
  BY RuntimeAssumption, Sizes DEF Word
<1>2. Len(s.callData) \in Nat /\ Len(s.code) \in Nat /\ Len(s.returnValue) \in Nat
  BY LenProperties DEF Typed, NatSeq
<1>3. s.programCounter - 1 \in Nat /\ s.gasLeft \in Nat
  BY DEF Typed
<1>4. s.memoryWordCount * WordBytes \in Nat
  BY Sizes DEF Typed
<1> DEFINE size == s.memoryWordCount * WordBytes
<1> HIDE DEF size
<1>5. size \in Nat
  BY <1>4 DEF size
<1> QED
  BY <1>1, <1>2, <1>3, <1>5 DEF Environment, EnvironmentValue, size

\* The hash of a byte string is a number.
KeccakReturnsNumbers == \A bytes \in Seq(Nat) : Keccak(bytes) \in Nat

\* Operands off, the result on.
LEMMA PopPushGoes ==
    ASSUME NEW s, Typed(s), NEW n \in 0 .. Len(s.stack), NEW v \in Nat
    PROVE  Goes(s, Push(Pop(s, n), v))
<1>1. Goes(s, Pop(s, n)) /\ Typed(Pop(s, n))
  BY PopGoes DEF Goes
<1>2. Goes(Pop(s, n), Push(Pop(s, n), v))
  BY <1>1, PushGoes
<1> QED
  BY <1>1, <1>2, GoesOn

LEMMA EXPGoes ==
    ASSUME NEW s, Typed(s), Len(s.stack) >= 2
    PROVE  Goes(s, handleEXP(s))
<1> DEFINE base == Arg(s, 1)
           exponent == Arg(s, 2)
           amount == 50 * ByteLength(exponent)
           popped == Pop(s, 2)
           paid == subGas(popped, amount)
<1>0. Len(s.stack) \in Nat /\ 2 \in 0 .. Len(s.stack)
  BY LenProperties DEF Typed, NatSeq
<1>1. base \in Nat /\ exponent \in Nat
  BY <1>0, ArgIsNat
<1>2. Goes(s, popped) /\ Typed(popped)
  BY <1>0, PopGoes DEF Goes
<1>3. amount \in Nat
  BY ByteLengthIsNat
<1>4. handleEXP(s) = IF exponent = 0 THEN Push(popped, 1)
                     ELSE Push(paid, PowMod(base, exponent))
  BY DEF handleEXP
<1> HIDE DEF base, exponent, amount, popped
<1>5. Goes(popped, paid) /\ Typed(paid)
  BY <1>2, <1>3, subGasGoes DEF Goes
<1>6. Goes(popped, Push(popped, 1))
  BY <1>2, PushGoes
<1> HIDE DEF paid
<1>7. Goes(paid, Push(paid, PowMod(base, exponent)))
  BY <1>1, <1>5, PowModIsNat, PushGoes
<1>8. Goes(s, paid)
  BY <1>2, <1>5, GoesOn
<1>9. Goes(s, Push(popped, 1)) /\ Goes(s, Push(paid, PowMod(base, exponent)))
  BY <1>2, <1>6, <1>7, <1>8, GoesOn
<1> QED
  BY <1>4, <1>9

LEMMA SHA3Goes ==
    ASSUME KeccakReturnsNumbers, NEW s, Typed(s), Len(s.stack) >= 2
    PROVE  Goes(s, handleSHA3(s))
<1> DEFINE offset == Arg(s, 1)
           length == Arg(s, 2)
           popped == Pop(s, 2)
           loaded == memLoad(popped, offset, length)
           amount == 6 * WordsFor(length)
           paid == subGas(loaded, amount)
           hash == Keccak(Loaded(s, offset, length))
<1>0. Len(s.stack) \in Nat /\ 2 \in 0 .. Len(s.stack)
  BY LenProperties DEF Typed, NatSeq
<1>1. offset \in Nat /\ length \in Nat
  BY <1>0, ArgIsNat
<1>2. Goes(s, popped) /\ Typed(popped)
  BY <1>0, PopGoes DEF Goes
<1>3. handleSHA3(s) = Push(paid, hash)
  BY DEF handleSHA3
<1> HIDE DEF offset, length, popped
<1>4. amount \in Nat
  <2>1. WordsFor(length) \in Nat
    BY <1>1, WordsForIsNat
  <2>2. \A n \in Nat : 6 * n \in Nat
    OBVIOUS
  <2> QED
    BY <2>1, <2>2
<1>5. hash \in Nat
  BY <1>1, LoadedNumbers DEF KeccakReturnsNumbers, NatSeq
<1> HIDE DEF amount, hash
<1>6. Goes(popped, loaded) /\ Typed(loaded)
  BY <1>1, <1>2, memLoadGoes DEF Goes
<1> HIDE DEF loaded
<1>7. Goes(loaded, paid) /\ Typed(paid)
  BY <1>4, <1>6, subGasGoes DEF Goes
<1> HIDE DEF paid
<1>8. Goes(paid, Push(paid, hash))
  BY <1>5, <1>7, PushGoes
<1>9. Goes(s, loaded)
  BY <1>2, <1>6, GoesOn
<1>10. Goes(s, paid)
  BY <1>7, <1>9, GoesOn
<1> QED
  BY <1>3, <1>8, <1>10, GoesOn

\* A copy to memory: three words off the stack, a fee by length, the bytes stored.
LEMMA CopyGoes ==
    ASSUME NEW s, Typed(s), Len(s.stack) >= 3, NEW val \in NatSeq, NEW chargeMemory \in BOOLEAN
    PROVE  LET paid == subGas(Pop(s, 3), 3 * WordsFor(Arg(s, 3)))
           IN  Goes(s, memStore(paid, Arg(s, 1), val, Arg(s, 2), Arg(s, 3), chargeMemory))
<1> DEFINE popped == Pop(s, 3)
           length == Arg(s, 3)
           amount == 3 * WordsFor(length)
           paid == subGas(popped, amount)
           stored == memStore(paid, Arg(s, 1), val, Arg(s, 2), length, chargeMemory)
<1>0. Len(s.stack) \in Nat /\ 3 \in 0 .. Len(s.stack)
  BY LenProperties DEF Typed, NatSeq
<1>1. Arg(s, 1) \in Nat /\ Arg(s, 2) \in Nat /\ length \in Nat
  BY <1>0, ArgIsNat
<1>2. Goes(s, popped) /\ Typed(popped)
  BY <1>0, PopGoes DEF Goes
<1> HIDE DEF popped, length
<1>3. amount \in Nat
  <2>1. WordsFor(length) \in Nat
    BY <1>1, WordsForIsNat
  <2> QED
    BY <2>1
<1> HIDE DEF amount
<1>4. Goes(popped, paid) /\ Typed(paid)
  BY <1>2, <1>3, subGasGoes DEF Goes
<1> HIDE DEF paid
<1>5. Goes(paid, stored)
  BY <1>1, <1>4, memStoreGoes
<1>6. Goes(s, paid)
  BY <1>2, <1>4, GoesOn
<1>7. Goes(s, stored)
  BY <1>5, <1>6, GoesOn
<1> QED
  BY <1>7 DEF stored, paid, amount, popped, length

LEMMA CALLDATACOPYGoes ==
    ASSUME NEW s, Typed(s), Len(s.stack) >= 3
    PROVE  Goes(s, handleCALLDATACOPY(s))
<1> DEFINE paid == subGas(Pop(s, 3), 3 * WordsFor(Arg(s, 3)))
           stored == memStore(paid, Arg(s, 1), s.callData, Arg(s, 2), Arg(s, 3), TRUE)
<1>1. s.callData \in NatSeq
  BY DEF Typed
<1>2. Goes(s, stored)
  BY <1>1, CopyGoes
<1>3. handleCALLDATACOPY(s) = stored
  BY DEF handleCALLDATACOPY
<1> QED
  BY <1>2, <1>3

LEMMA RETURNDATACOPYGoes ==
    ASSUME NEW s, Typed(s), Len(s.stack) >= 3
    PROVE  Goes(s, handleRETURNDATACOPY(s))
<1> DEFINE paid == subGas(Pop(s, 3), 3 * WordsFor(Arg(s, 3)))
           stored == memStore(paid, Arg(s, 1), s.returnValue, Arg(s, 2), Arg(s, 3), FALSE)
           failed == Throw(Pop(s, 3), "out of gas")
<1>1. s.returnValue \in NatSeq
  BY DEF Typed
<1>2. Goes(s, stored)
  BY <1>1, CopyGoes
<1>3. Goes(s, failed)
  <2>1. Len(s.stack) \in Nat /\ 3 \in 0 .. Len(s.stack)
    BY LenProperties DEF Typed, NatSeq
  <2>2. Goes(s, Pop(s, 3)) /\ Typed(Pop(s, 3))
    BY <2>1, PopGoes DEF Goes
  <2>3. Goes(Pop(s, 3), failed)
    BY <2>2, ThrowGoes DEF NoError
  <2> QED
    BY <2>2, <2>3, GoesOn
<1>4. handleRETURNDATACOPY(s) =
         IF Arg(s, 2) + Arg(s, 3) > Len(s.returnValue) THEN failed ELSE stored
  BY DEF handleRETURNDATACOPY
<1> HIDE DEF stored, failed
<1> QED
  BY <1>2, <1>3, <1>4

\* The bytes of the code.
LEMMA CellsAreNat ==
    ASSUME NEW s, Typed(s), NEW i \in DOMAIN s.code
    PROVE  s.code[i].byte \in Nat
<1>1. s.code[i] \in CodeCell
  BY LenProperties, ElementOfSeq DEF Typed
<1> QED
  BY <1>1, Sizes DEF CodeCell, Byte

LEMMA CODECOPYGoes ==
    ASSUME NEW s, Typed(s), Len(s.stack) >= 3
    PROVE  Goes(s, handleCODECOPY(s))
<1> DEFINE bytes == [i \in DOMAIN s.code |-> s.code[i].byte]
           paid == subGas(Pop(s, 3), 3 * WordsFor(Arg(s, 3)))
           stored == memStore(paid, Arg(s, 1), bytes, Arg(s, 2), Arg(s, 3), TRUE)
           read == stored.codeReads \union
                   (IF Running(stored) THEN Arg(s, 2) .. Arg(s, 2) + Arg(s, 3) - 1 ELSE {})
<1>1. bytes \in NatSeq
  <2>1. DOMAIN s.code = 1 .. Len(s.code) /\ Len(s.code) \in Nat
    BY LenProperties DEF Typed
  <2>2. bytes \in [1 .. Len(s.code) -> Nat]
    BY <2>1, CellsAreNat
  <2> QED
    BY <2>1, <2>2, SeqDef DEF NatSeq
<1>2. handleCODECOPY(s) = [stored EXCEPT !.codeReads = read]
  BY DEF handleCODECOPY
<1> HIDE DEF bytes
<1>3. Goes(s, stored) /\ Typed(stored)
  BY <1>1, CopyGoes DEF Goes
<1> HIDE DEF stored, read
<1>4. Goes(stored, [stored EXCEPT !.codeReads = read])
  BY <1>3, SetSeen
<1> QED
  BY <1>2, <1>3, <1>4, GoesOn

LEMMA MLOADGoes ==
    ASSUME NEW s, Typed(s), Len(s.stack) >= 1
    PROVE  Goes(s, handleMLOAD(s))
<1> DEFINE offset == Arg(s, 1)
           popped == Pop(s, 1)
           loaded == memLoad(popped, offset, WordBytes)
           word == FromBytes(Loaded(s, offset, WordBytes))
<1>0. Len(s.stack) \in Nat /\ 1 \in 0 .. Len(s.stack) /\ WordBytes \in Nat
  BY LenProperties, Sizes DEF Typed, NatSeq
<1>1. offset \in Nat
  BY <1>0, ArgIsNat
<1>2. Goes(s, popped) /\ Typed(popped)
  BY <1>0, PopGoes DEF Goes
<1>3. handleMLOAD(s) = Push(loaded, word)
  BY DEF handleMLOAD
<1> HIDE DEF offset, popped
<1>4. word \in Nat
  BY <1>0, <1>1, LoadedNumbers, FromBytesIsNat DEF NatSeq
<1> HIDE DEF word
<1>5. Goes(popped, loaded) /\ Typed(loaded)
  BY <1>0, <1>1, <1>2, memLoadGoes DEF Goes
<1> HIDE DEF loaded
<1>6. Goes(loaded, Push(loaded, word))
  BY <1>4, <1>5, PushGoes
<1>7. Goes(s, loaded)
  BY <1>2, <1>5, GoesOn
<1> QED
  BY <1>3, <1>6, <1>7, GoesOn

LEMMA MSTOREGoes ==
    ASSUME NEW s, Typed(s), Len(s.stack) >= 2
    PROVE  Goes(s, handleMSTORE(s)) /\ Goes(s, handleMSTORE8(s))
<1> DEFINE offset == Arg(s, 1)
           value == Arg(s, 2)
           popped == Pop(s, 2)
           word == ToBytes(value)
           byte == <<value % ByteBase>>
<1>0. /\ Len(s.stack) \in Nat /\ 2 \in 0 .. Len(s.stack) /\ WordBytes \in Nat
      /\ ByteBase \in Nat \ {0}
  BY LenProperties, Sizes DEF Typed, NatSeq
<1>1. offset \in Nat /\ value \in Nat
  BY <1>0, ArgIsNat
<1>2. Goes(s, popped) /\ Typed(popped)
  BY <1>0, PopGoes DEF Goes
<1>3. /\ handleMSTORE(s) = memStore(popped, offset, word, 0, WordBytes, TRUE)
      /\ handleMSTORE8(s) = memStore(popped, offset, byte, 0, 1, TRUE)
  BY DEF handleMSTORE, handleMSTORE8
<1> HIDE DEF offset, value, popped
<1>4. word \in NatSeq
  BY <1>1, ToBytesAreNat DEF NatSeq
<1>5. byte \in NatSeq
  <2> DEFINE b == value % ByteBase
  <2>1. b \in Nat
    BY <1>0, <1>1, Division
  <2> HIDE DEF b
  <2>2. <<b>> \in Seq(Nat)
    BY <2>1
  <2> QED
    BY <2>2 DEF b, NatSeq
<1> HIDE DEF word, byte
<1>6. /\ Goes(popped, memStore(popped, offset, word, 0, WordBytes, TRUE))
      /\ Goes(popped, memStore(popped, offset, byte, 0, 1, TRUE))
  BY <1>0, <1>1, <1>2, <1>4, <1>5, memStoreGoes
<1> QED
  BY <1>2, <1>3, <1>6, GoesOn

LEMMA ContinueGoes ==
    ASSUME NEW s, Typed(s), NEW pc \in Nat
    PROVE  Goes(s, Continue(s, pc))
BY SetCounter DEF Continue

\* A jump, or a failure to jump, with the operands off the stack.
LEMMA PopContinue ==
    ASSUME NEW s, Typed(s), NEW n \in 0 .. Len(s.stack), NEW pc \in Nat
    PROVE  /\ Goes(s, Continue(Pop(s, n), pc))
           /\ Goes(s, Throw(Pop(s, n), "invalid JUMP"))
<1>1. Goes(s, Pop(s, n)) /\ Typed(Pop(s, n))
  BY PopGoes DEF Goes
<1>2. Goes(Pop(s, n), Continue(Pop(s, n), pc))
  BY <1>1, ContinueGoes
<1>3. Goes(Pop(s, n), Throw(Pop(s, n), "invalid JUMP"))
  BY <1>1, ThrowGoes DEF NoError
<1> QED
  BY <1>1, <1>2, <1>3, GoesOn

LEMMA JUMPGoes ==
    ASSUME NEW s, Typed(s), Len(s.stack) >= 1
    PROVE  Goes(s, handleJUMP(s))
<1>1. Len(s.stack) \in Nat /\ 1 \in 0 .. Len(s.stack) /\ 1 \in 1 .. Len(s.stack)
  BY LenProperties DEF Typed, NatSeq
<1>2. Arg(s, 1) \in Nat
  BY <1>1, ArgIsNat
<1>3. /\ Goes(s, Continue(Pop(s, 1), Arg(s, 1)))
      /\ Goes(s, Throw(Pop(s, 1), "invalid JUMP"))
  BY <1>1, <1>2, PopContinue
<1> QED
  BY <1>3 DEF handleJUMP

LEMMA JUMPIGoes ==
    ASSUME NEW s, Typed(s), Len(s.stack) >= 2
    PROVE  Goes(s, handleJUMPI(s))
<1>1. Len(s.stack) \in Nat /\ 2 \in 0 .. Len(s.stack) /\ 1 \in 1 .. Len(s.stack)
  BY LenProperties DEF Typed, NatSeq
<1>2. Arg(s, 1) \in Nat /\ s.programCounter \in Nat
  BY <1>1, ArgIsNat DEF Typed
<1>3. /\ Goes(s, Continue(Pop(s, 2), Arg(s, 1)))
      /\ Goes(s, Continue(Pop(s, 2), s.programCounter))
      /\ Goes(s, Throw(Pop(s, 2), "invalid JUMP"))
  BY <1>1, <1>2, PopContinue
<1> QED
  BY <1>3 DEF handleJUMPI

LEMMA PUSHGoes ==
    ASSUME NEW s, Typed(s), NEW n \in Nat
    PROVE  Goes(s, handlePUSH(s, n))
<1> DEFINE from == s.programCounter
           bytes == [i \in 1 .. n |->
                        IF from + i \in DOMAIN s.code THEN s.code[from + i].byte ELSE 0]
           word == FromBytes(bytes)
           pushed == Push(s, word)
           read == pushed.codeReads \union from .. from + n - 1
           to == from + n
<1>1. bytes \in NatSeq
  <2>1. bytes \in [1 .. n -> Nat]
    BY CellsAreNat
  <2> QED
    BY <2>1, SeqDef DEF NatSeq
<1>2. handlePUSH(s, n) = [pushed EXCEPT !.programCounter = to, !.codeReads = read]
  BY DEF handlePUSH
<1>3. to \in Nat
  BY DEF Typed
<1> HIDE DEF bytes, to
<1>4. word \in Nat
  BY <1>1, FromBytesIsNat DEF NatSeq
<1> HIDE DEF word
<1>5. Goes(s, pushed) /\ Typed(pushed)
  BY <1>4, PushGoes DEF Goes
<1> HIDE DEF pushed, read
<1>6. Goes(pushed, [pushed EXCEPT !.programCounter = to, !.codeReads = read])
  BY <1>3, <1>5, SetCounter
<1> QED
  BY <1>2, <1>5, <1>6, GoesOn

LEMMA DUPGoes ==
    ASSUME NEW s, Typed(s), NEW n \in Nat \ {0}
    PROVE  Goes(s, handleDUP(s, n))
<1>1. Len(s.stack) \in Nat
  BY LenProperties DEF Typed, NatSeq
<1>2. CASE n > Len(s.stack)
  BY <1>2, ThrowGoes DEF handleDUP, NoError
<1>3. CASE ~(n > Len(s.stack))
  <2>1. Arg(s, n) \in Nat
    BY <1>1, <1>3, ArgIsNat
  <2> QED
    BY <1>3, <2>1, PushGoes DEF handleDUP
<1> QED
  BY <1>2, <1>3

LEMMA SWAPGoes ==
    ASSUME NEW s, Typed(s), NEW n \in Nat \ {0}
    PROVE  Goes(s, handleSWAP(s, n))
<1> DEFINE top == Len(s.stack)
           swap == top - n
           swapped == [s.stack EXCEPT ![top] = s.stack[swap], ![swap] = s.stack[top]]
<1>1. top \in Nat
  BY LenProperties DEF Typed, NatSeq
<1>2. CASE swap < 1
  BY <1>2, ThrowGoes DEF handleSWAP, NoError
<1>3. CASE ~(swap < 1)
  <2>1. top \in 1 .. top /\ swap \in 1 .. top /\ swap # top
    BY <1>1, <1>3
  <2>2. s.stack \in [1 .. top -> Nat]
    BY LenProperties DEF Typed, NatSeq
  <2>3. swapped \in [1 .. top -> Nat]
    <3> HIDE DEF top, swap
    <3> QED
      BY <2>1, <2>2
  <2>4. swapped \in NatSeq
    BY <1>1, <2>3, SeqDef DEF NatSeq
  <2>5. handleSWAP(s, n) = [s EXCEPT !.stack = swapped]
    BY <1>3 DEF handleSWAP, Typed, IsRun, Fields
  <2> HIDE DEF swapped
  <2> QED
    BY <2>4, <2>5, SetStack
<1> QED
  BY <1>2, <1>3

LEMMA ReturnGoes ==
    ASSUME NEW s, Typed(s), Len(s.stack) >= 2
    PROVE  Goes(s, Return(s))
<1> DEFINE offset == Arg(s, 1)
           length == Arg(s, 2)
           popped == Pop(s, 2)
           loaded == memLoad(popped, offset, length)
           bytes == Loaded(s, offset, length)
<1>0. Len(s.stack) \in Nat /\ 2 \in 0 .. Len(s.stack)
  BY LenProperties DEF Typed, NatSeq
<1>1. offset \in Nat /\ length \in Nat
  BY <1>0, ArgIsNat
<1>2. Goes(s, popped) /\ Typed(popped)
  BY <1>0, PopGoes DEF Goes
<1>3. Return(s) = IF Running(loaded) THEN [loaded EXCEPT !.returnValue = bytes] ELSE loaded
  BY DEF Return
<1> HIDE DEF offset, length, popped
<1>4. bytes \in NatSeq
  BY <1>1, LoadedNumbers
<1> HIDE DEF bytes
<1>5. Goes(popped, loaded) /\ Typed(loaded)
  BY <1>1, <1>2, memLoadGoes DEF Goes
<1> HIDE DEF loaded
<1>6. Goes(loaded, [loaded EXCEPT !.returnValue = bytes])
  BY <1>4, <1>5, SetReturn
<1>7. Goes(s, loaded)
  BY <1>2, <1>5, GoesOn
<1>8. Goes(s, [loaded EXCEPT !.returnValue = bytes])
  BY <1>6, <1>7, GoesOn
<1> QED
  BY <1>3, <1>7, <1>8

\* Both end the run.
LEMMA RETURNGoes ==
    ASSUME NEW s, Typed(s), Len(s.stack) >= 2
    PROVE  /\ Goes(s, handleRETURN(s)) /\ handleRETURN(s).stopped
           /\ Goes(s, handleREVERT(s)) /\ ~Running(handleREVERT(s))
<1> DEFINE r == Return(s)
<1>1. Goes(s, r) /\ Typed(r)
  BY ReturnGoes DEF Goes
<1>2. handleRETURN(s) = [r EXCEPT !.stopped = TRUE] /\ handleREVERT(s) = Throw(r, "revert")
  BY DEF handleRETURN, handleREVERT
<1> HIDE DEF r
<1>3. Goes(r, [r EXCEPT !.stopped = TRUE]) /\ [r EXCEPT !.stopped = TRUE].stopped
  BY <1>1, SetSeen
<1>4. Goes(r, Throw(r, "revert")) /\ ~Running(Throw(r, "revert"))
  BY <1>1, ThrowGoes DEF NoError
<1> QED
  BY <1>1, <1>2, <1>3, <1>4, GoesOn

\* What the identity answers: a flag, a price and bytes.
LEMMA IdentityAnswers ==
    ASSUME NEW gasLimit \in Nat, NEW data \in NatSeq
    PROVE  LET r == Identity(gasLimit, data)
           IN  r.exception \in Nat /\ r.gasUsed \in Nat /\ r.returnValue \in NatSeq
<1>1. Len(data) \in Nat
  BY LenProperties DEF NatSeq
<1>2. WordsFor(Len(data)) \in Nat
  BY <1>1, WordsForIsNat
<1> DEFINE gasUsed == 15 + 3 * WordsFor(Len(data))
<1>3. gasUsed \in Nat
  BY <1>2
<1>4. << >> \in NatSeq
  BY EmptyNumbers
<1>5. Identity(gasLimit, data) =
         IF gasLimit < gasUsed
         THEN [returnValue |-> << >>, gasUsed |-> gasLimit, exception |-> 0]
         ELSE [returnValue |-> data, gasUsed |-> gasUsed, exception |-> 1]
  BY DEF Identity
<1> HIDE DEF gasUsed
<1> QED
  BY <1>3, <1>4, <1>5

LEMMA AnsweredGoes ==
    ASSUME NEW s, Typed(s), NEW r, r.exception \in Nat, r.gasUsed \in Nat,
           r.returnValue \in NatSeq, NEW outOffset \in Nat, NEW outLength \in Nat
    PROVE  Goes(s, Answered(s, r, outOffset, outLength))
<1> DEFINE pushed == Push(s, r.exception)
           handed == [pushed EXCEPT !.returnValue = r.returnValue]
           paid == subGas(handed, r.gasUsed)
           stored == memStore(paid, outOffset, r.returnValue, 0, outLength, TRUE)
<1>1. Goes(s, pushed) /\ Typed(pushed)
  BY PushGoes DEF Goes
<1>2. Answered(s, r, outOffset, outLength) = stored
  BY DEF Answered
<1> HIDE DEF pushed
<1>3. Goes(pushed, handed) /\ Typed(handed)
  BY <1>1, SetReturn DEF Goes
<1> HIDE DEF handed
<1>4. Goes(handed, paid) /\ Typed(paid)
  BY <1>3, subGasGoes DEF Goes
<1> HIDE DEF paid
<1>5. Goes(paid, stored)
  BY <1>4, memStoreGoes
<1> HIDE DEF stored
<1>6. Goes(s, handed)
  BY <1>1, <1>3, GoesOn
<1>7. Goes(s, paid)
  BY <1>4, <1>6, GoesOn
<1> QED
  BY <1>2, <1>5, <1>7, GoesOn

LEMMA PrecompileGoes ==
    ASSUME NEW s, Typed(s), NEW toAddress, NEW gasLimit \in Nat, NEW data \in NatSeq,
           NEW outOffset \in Nat, NEW outLength \in Nat
    PROVE  Goes(s, CallPrecompile(s, toAddress, gasLimit, data, outOffset, outLength))
<1> DEFINE limit == Min({gasLimit, s.gasLeft})
           r == Identity(limit, data)
<1>1. limit \in Nat
  <2>1. s.gasLeft \in Nat
    BY DEF Typed
  <2> QED
    BY <2>1, SmallerOfTwo
<1> HIDE DEF limit
<1>2. r.exception \in Nat /\ r.gasUsed \in Nat /\ r.returnValue \in NatSeq
  BY <1>1, IdentityAnswers
<1> HIDE DEF r
<1>3. Goes(s, Answered(s, r, outOffset, outLength))
  BY <1>2, AnsweredGoes
<1>4. Goes(s, s) /\ Goes(s, Throw(s, "internal error"))
  BY GoesNowhere, ThrowGoes DEF NoError
<1> QED
  BY <1>3, <1>4 DEF CallPrecompile, r, limit

LEMMA CallNobodyGoes ==
    ASSUME NEW s, Typed(s)
    PROVE  Goes(s, CallNobody(s))
<1> DEFINE dropped == [s EXCEPT !.returnValue = << >>, !.stack = Append(DropSix(s.stack), 0)]
<1>1. Goes(s, dropped) /\ Typed(dropped)
  BY EmptyNumbers, SetReturn DEF Goes
<1>2. CallNobody(s) = IF Running(s) THEN Throw(dropped, "instruction not supported") ELSE s
  BY DEF CallNobody
<1> HIDE DEF dropped
<1>3. Goes(dropped, Throw(dropped, "instruction not supported"))
  BY <1>1, ThrowGoes DEF NoError
<1>4. Goes(s, Throw(dropped, "instruction not supported"))
  BY <1>1, <1>3, GoesOn
<1> QED
  BY <1>2, <1>4, GoesNowhere

LEMMA STATICCALLGoes ==
    ASSUME NEW s, Typed(s), Len(s.stack) >= 6
    PROVE  Goes(s, handleSTATICCALL(s))
<1> DEFINE popped == Pop(s, 6)
           loaded == memLoad(popped, Arg(s, 3), Arg(s, 4))
           data == Loaded(s, Arg(s, 3), Arg(s, 4))
           paid == subMemUsage(loaded, Arg(s, 5), Arg(s, 6))
           called == CallPrecompile(paid, Arg(s, 2), Arg(s, 1), data, Arg(s, 5), Arg(s, 6))
<1>0. Len(s.stack) \in Nat /\ 6 \in 0 .. Len(s.stack)
  BY LenProperties DEF Typed, NatSeq
<1>1. \A i \in 1 .. 6 : Arg(s, i) \in Nat
  BY <1>0, ArgIsNat
<1>2. /\ Arg(s, 1) \in Nat /\ Arg(s, 3) \in Nat /\ Arg(s, 4) \in Nat
      /\ Arg(s, 5) \in Nat /\ Arg(s, 6) \in Nat
  BY <1>1
<1>3. Goes(s, popped) /\ Typed(popped)
  BY <1>0, PopGoes DEF Goes
<1>4. handleSTATICCALL(s) = IF Arg(s, 2) \in {0, 4} THEN called ELSE CallNobody(loaded)
  BY DEF handleSTATICCALL
<1> HIDE DEF popped
<1>5. data \in NatSeq
  BY <1>2, LoadedNumbers
<1> HIDE DEF data
<1>6. Goes(popped, loaded) /\ Typed(loaded)
  BY <1>2, <1>3, memLoadGoes DEF Goes
<1> HIDE DEF loaded
<1>7. Goes(loaded, paid) /\ Typed(paid)
  BY <1>2, <1>6, subMemUsageGoes DEF Goes
<1> HIDE DEF paid
<1>8. Goes(paid, called)
  BY <1>2, <1>5, <1>7, PrecompileGoes
<1>9. Goes(loaded, CallNobody(loaded))
  BY <1>6, CallNobodyGoes
<1> HIDE DEF called
<1>10. Goes(s, loaded)
  BY <1>3, <1>6, GoesOn
<1>11. Goes(s, paid)
  BY <1>7, <1>10, GoesOn
<1>12. Goes(s, called) /\ Goes(s, CallNobody(loaded))
  BY <1>8, <1>9, <1>10, <1>11, GoesOn
<1> QED
  BY <1>4, <1>12

-----------------------------------------------------------------------------
\* One instruction, one step.

\* The instructions that push a value.
LEMMA PushedGoes ==
    ASSUME NEW s, Typed(s), s.programCounter # 0, NEW cell \in CodeCell,
           Len(s.stack) >= OPCODES(cell.op, cell.n)[2],
           cell.op \in Unary \union Binary \union Ternary \union Environment
    PROVE  Goes(s, Handle(s, cell))
<1>0. Len(s.stack) \in Nat /\ cell.n \in Nat
  BY LenProperties DEF Typed, NatSeq, CodeCell
<1>1. CASE cell.op \in Unary
  <2>1. Handle(s, cell) = Push(Pop(s, 1), UnaryValue(s, cell.op, Arg(s, 1)))
    BY <1>1 DEF Handle, Unary, Binary, Ternary, Environment, Unsupported
  <2>2. 1 \in 0 .. Len(s.stack) /\ Arg(s, 1) \in Nat
    BY <1>0, <1>1, OpcodesPop, ArgIsNat
  <2>3. UnaryValue(s, cell.op, Arg(s, 1)) \in Nat
    BY <1>1, <2>2, UnaryIsNat
  <2> QED
    BY <2>1, <2>2, <2>3, PopPushGoes
<1>2. CASE cell.op \in Binary
  <2>1. Handle(s, cell) = Push(Pop(s, 2), BinaryValue(cell.op, Arg(s, 1), Arg(s, 2)))
    BY <1>2 DEF Handle, Unary, Binary, Ternary, Environment, Unsupported
  <2>2. 2 \in 0 .. Len(s.stack) /\ Arg(s, 1) \in Nat /\ Arg(s, 2) \in Nat
    BY <1>0, <1>2, OpcodesPop, ArgIsNat
  <2>3. BinaryValue(cell.op, Arg(s, 1), Arg(s, 2)) \in Nat
    BY <1>2, <2>2, BinaryIsNat
  <2> QED
    BY <2>1, <2>2, <2>3, PopPushGoes
<1>3. CASE cell.op \in Ternary
  <2>1. Handle(s, cell) =
           Push(Pop(s, 3), TernaryValue(cell.op, Arg(s, 1), Arg(s, 2), Arg(s, 3)))
    BY <1>3 DEF Handle, Unary, Binary, Ternary, Environment, Unsupported
  <2>2. /\ 3 \in 0 .. Len(s.stack)
        /\ Arg(s, 1) \in Nat /\ Arg(s, 2) \in Nat /\ Arg(s, 3) \in Nat
    BY <1>0, <1>3, OpcodesPop, ArgIsNat
  <2>3. TernaryValue(cell.op, Arg(s, 1), Arg(s, 2), Arg(s, 3)) \in Nat
    BY <2>2, TernaryIsNat
  <2> QED
    BY <2>1, <2>2, <2>3, PopPushGoes
<1>4. CASE cell.op \in Environment
  <2>1. Handle(s, cell) = Push(s, EnvironmentValue(s, cell.op))
    BY <1>4 DEF Handle, Unary, Binary, Ternary, Environment, Unsupported
  <2>2. EnvironmentValue(s, cell.op) \in Nat
    BY <1>4, EnvironmentIsNat
  <2> QED
    BY <2>1, <2>2, PushGoes
<1> QED
  BY <1>1, <1>2, <1>3, <1>4

\* The instructions that cost nothing.
Free == {"STOP", "RETURN", "REVERT", "INVALID", "SSTORE"}

Ended(s) == s.stopped \/ ~Running(s)

\* The instructions that fail whatever the operands.
LEMMA FailingGoes ==
    ASSUME NEW s, Typed(s), NEW cell \in CodeCell, cell.op \in Unsupported \union {"INVALID"}
    PROVE  Goes(s, Handle(s, cell)) /\ Ended(Handle(s, cell))
<1>1. Handle(s, cell) = Throw(s, IF cell.op = "INVALID" THEN "invalid opcode"
                                 ELSE "instruction not supported")
  BY DEF Handle, Unary, Binary, Ternary, Environment, Unsupported
<1> QED
  BY <1>1, ThrowGoes DEF Ended, NoError

\* The others: each keeps to Goes, and those that are free end the run.
LEMMA HandlerGoes ==
    ASSUME KeccakReturnsNumbers, NEW s, Typed(s), NEW cell \in CodeCell,
           cell.op \in Handlers \union {"STATICCALL"},
           Len(s.stack) >= OPCODES(cell.op, cell.n)[2]
    PROVE  Goes(s, Handle(s, cell)) /\ (cell.op \in Free => Ended(Handle(s, cell)))
<1> USE DEF Unary, Binary, Ternary, Environment, Unsupported, Free, Ended
<1>0. Len(s.stack) \in Nat /\ cell.n \in Nat
  BY LenProperties DEF Typed, NatSeq, CodeCell
<1>1. CASE cell.op = "EXP"
  <2>1. Handle(s, cell) = handleEXP(s) /\ Len(s.stack) >= 2
    BY <1>1 DEF Handle, OPCODES
  <2> QED
    BY <1>1, <2>1, EXPGoes
<1>2. CASE cell.op = "SHA3"
  <2>1. Handle(s, cell) = handleSHA3(s) /\ Len(s.stack) >= 2
    BY <1>2 DEF Handle, OPCODES
  <2> QED
    BY <1>2, <2>1, SHA3Goes
<1>3. CASE cell.op = "CALLDATACOPY"
  <2>1. Handle(s, cell) = handleCALLDATACOPY(s) /\ Len(s.stack) >= 3
    BY <1>3 DEF Handle, OPCODES
  <2> QED
    BY <1>3, <2>1, CALLDATACOPYGoes
<1>4. CASE cell.op = "CODECOPY"
  <2>1. Handle(s, cell) = handleCODECOPY(s) /\ Len(s.stack) >= 3
    BY <1>4 DEF Handle, OPCODES
  <2> QED
    BY <1>4, <2>1, CODECOPYGoes
<1>5. CASE cell.op = "RETURNDATACOPY"
  <2>1. Handle(s, cell) = handleRETURNDATACOPY(s) /\ Len(s.stack) >= 3
    BY <1>5 DEF Handle, OPCODES
  <2> QED
    BY <1>5, <2>1, RETURNDATACOPYGoes
<1>6. CASE cell.op = "MLOAD"
  <2>1. Handle(s, cell) = handleMLOAD(s) /\ Len(s.stack) >= 1
    BY <1>6 DEF Handle, OPCODES
  <2> QED
    BY <1>6, <2>1, MLOADGoes
<1>7. CASE cell.op = "MSTORE"
  <2>1. Handle(s, cell) = handleMSTORE(s) /\ Len(s.stack) >= 2
    BY <1>7 DEF Handle, OPCODES
  <2> QED
    BY <1>7, <2>1, MSTOREGoes
<1>8. CASE cell.op = "MSTORE8"
  <2>1. Handle(s, cell) = handleMSTORE8(s) /\ Len(s.stack) >= 2
    BY <1>8 DEF Handle, OPCODES
  <2> QED
    BY <1>8, <2>1, MSTOREGoes
<1>9. CASE cell.op = "JUMP"
  <2>1. Handle(s, cell) = handleJUMP(s) /\ Len(s.stack) >= 1
    BY <1>9 DEF Handle, OPCODES
  <2> QED
    BY <1>9, <2>1, JUMPGoes
<1>10. CASE cell.op = "JUMPI"
  <2>1. Handle(s, cell) = handleJUMPI(s) /\ Len(s.stack) >= 2
    BY <1>10 DEF Handle, OPCODES
  <2> QED
    BY <1>10, <2>1, JUMPIGoes
<1>11. CASE cell.op = "RETURN"
  <2>1. Handle(s, cell) = handleRETURN(s) /\ Len(s.stack) >= 2
    BY <1>11 DEF Handle, OPCODES
  <2> QED
    BY <1>11, <2>1, RETURNGoes
<1>12. CASE cell.op = "REVERT"
  <2>1. Handle(s, cell) = handleREVERT(s) /\ Len(s.stack) >= 2
    BY <1>12 DEF Handle, OPCODES
  <2> QED
    BY <1>12, <2>1, RETURNGoes
<1>13. CASE cell.op = "STATICCALL"
  <2>1. Handle(s, cell) = handleSTATICCALL(s) /\ Len(s.stack) >= 6
    BY <1>13 DEF Handle, OPCODES
  <2> QED
    BY <1>13, <2>1, STATICCALLGoes
<1>14. CASE cell.op = "POP"
  <2>1. Handle(s, cell) = Pop(s, 1) /\ 1 \in 0 .. Len(s.stack)
    BY <1>0, <1>14 DEF Handle, OPCODES
  <2> QED
    BY <1>14, <2>1, PopGoes
<1>15. CASE cell.op = "PUSH"
  <2>1. Handle(s, cell) = handlePUSH(s, cell.n)
    BY <1>15 DEF Handle
  <2> QED
    BY <1>0, <1>15, <2>1, PUSHGoes
<1>16. CASE cell.op = "DUP"
  <2>1. Handle(s, cell) = handleDUP(s, cell.n) /\ cell.n \in Nat \ {0}
    BY <1>0, <1>16 DEF Handle, CodeCell
  <2> QED
    BY <1>16, <2>1, DUPGoes
<1>17. CASE cell.op = "SWAP"
  <2>1. Handle(s, cell) = handleSWAP(s, cell.n) /\ cell.n \in Nat \ {0}
    BY <1>0, <1>17 DEF Handle, CodeCell
  <2> QED
    BY <1>17, <2>1, SWAPGoes
<1>18. CASE cell.op = "JUMPDEST"
  <2>1. Handle(s, cell) = s
    BY <1>18 DEF Handle
  <2> QED
    BY <1>18, <2>1, GoesNowhere
<1>19. CASE cell.op = "STOP"
  <2>1. Handle(s, cell) = [s EXCEPT !.stopped = TRUE]
    BY <1>19 DEF Handle
  <2> QED
    BY <2>1, SetSeen
<1> QED
  BY <1>1, <1>2, <1>3, <1>4, <1>5, <1>6, <1>7, <1>8, <1>9, <1>10,
     <1>11, <1>12, <1>13, <1>14, <1>15, <1>16, <1>17, <1>18, <1>19 DEF Handlers

\* All instructions.
LEMMA HandleGoes ==
    ASSUME KeccakReturnsNumbers, NEW s, Typed(s), s.programCounter # 0, NEW cell \in CodeCell,
           Len(s.stack) >= OPCODES(cell.op, cell.n)[2]
    PROVE  Goes(s, Handle(s, cell)) /\ (cell.op \in Free => Ended(Handle(s, cell)))
<1>1. CASE cell.op \in Unary \union Binary \union Ternary \union Environment
  <2>1. cell.op \notin Free
    BY <1>1 DEF Unary, Binary, Ternary, Environment, Free
  <2> QED
    BY <1>1, <2>1, PushedGoes
<1>2. CASE cell.op \in Unsupported \union {"INVALID"}
  BY <1>2, FailingGoes
<1>3. CASE cell.op \in Handlers \union {"STATICCALL"}
  BY <1>3, HandlerGoes
<1>4. cell.op \in Instructions
  BY DEF CodeCell
<1> QED
  BY <1>1, <1>2, <1>3, <1>4 DEF Instructions, Handlers

\* Every other instruction has a price.
LEMMA OpcodesCost ==
    ASSUME NEW n \in Nat
    PROVE  \A op \in Instructions :
              OPCODES(op, n)[1] \in Nat /\ (op \notin Free => OPCODES(op, n)[1] # 0)
<1>1. \A op \in Unary : OPCODES(op, n)[1] \in Nat \ {0}
  BY DEF Unary, OPCODES
<1>2. \A op \in Binary : OPCODES(op, n)[1] \in Nat \ {0}
  BY DEF Binary, OPCODES
<1>3. \A op \in Ternary : OPCODES(op, n)[1] \in Nat \ {0}
  BY DEF Ternary, OPCODES
<1>4. \A op \in Environment : OPCODES(op, n)[1] \in Nat \ {0}
  BY DEF Environment, OPCODES
<1>5. \A op \in Unsupported \ {"SSTORE"} : OPCODES(op, n)[1] \in Nat \ {0}
  BY DEF Unsupported, OPCODES
<1>6. \A op \in Instructions \ (Unary \union Binary \union Ternary \union Environment
                                \union Unsupported \union Free) : OPCODES(op, n)[1] \in Nat \ {0}
  BY DEF Instructions, OPCODES, Free
<1>7. \A op \in Free : OPCODES(op, n)[1] = 0
  BY DEF Free, OPCODES
<1> QED
  BY <1>1, <1>2, <1>3, <1>4, <1>5, <1>6, <1>7 DEF Free

\* The fee is paid, or the step has failed.
LEMMA ChargedGoes ==
    ASSUME NEW s, Typed(s), NEW cell \in CodeCell
    PROVE  LET info == OPCODES(cell.op, cell.n)
               t == Charged(s, info)
           IN  /\ Goes(s, t)
               /\ Running(t) => t.gasLeft = s.gasLeft - info[1] /\ Len(t.stack) >= info[2]
<1> DEFINE info == OPCODES(cell.op, cell.n)
           t == Charged(s, info)
<1>1. info[1] \in Nat /\ info[2] \in Nat
  BY OpcodesCost, OpcodesPop DEF CodeCell
<1>2. IsRun(s)
  BY DEF Typed
<1> HIDE DEF info
<1>3. Running(t) => Len(s.stack) >= info[2]
  BY <1>1, <1>2, ChargedChecks
<1>4. t.stack = s.stack
  BY <1>2, ChargedKeeps DEF SameStack
<1>5. CASE t = subGas(s, info[1])
  <2>1. Goes(s, t) /\ (Running(t) => t.gasLeft = s.gasLeft - info[1])
    <3> HIDE DEF t
    <3> QED
      BY <1>1, <1>5, subGasGoes
  <2> QED
    BY <1>3, <1>4, <2>1 DEF info
<1>6. CASE t = Throw(s, "stack underflow") \/ t = Throw(s, "stack overflow")
  <2>1. Goes(s, t) /\ ~Running(t)
    <3> HIDE DEF t
    <3> QED
      BY <1>6, ThrowGoes DEF NoError
  <2> QED
    BY <2>1 DEF info
<1>7. t = subGas(s, info[1]) \/ t = Throw(s, "stack underflow") \/ t = Throw(s, "stack overflow")
  BY DEF Charged
<1> QED
  BY <1>5, <1>6, <1>7

\* The last check of a step.
LEMMA WithinMemoryGoes ==
    ASSUME NEW s, Typed(s)
    PROVE  Goes(s, WithinMemory(s)) /\ (Ended(s) => Ended(WithinMemory(s)))
<1>1. "internal error" # NoError
  BY DEF NoError
<1>2. CASE s.memoryWordCount > MaxMemWords
  BY <1>1, <1>2, SetError DEF WithinMemory, Ended
<1>3. CASE ~(s.memoryWordCount > MaxMemWords)
  BY <1>3, GoesNowhere DEF WithinMemory
<1> QED
  BY <1>2, <1>3

\* A step costs gas or ends the run, and ends it if the instruction is free.
LEMMA StepGoes ==
    ASSUME KeccakReturnsNumbers, NEW s, Typed(s), s.programCounter < Len(s.code)
    PROVE  LET t == runNextStep(s)
               cell == s.code[s.programCounter + 1]
           IN  /\ cell \in CodeCell
               /\ Goes(s, t) /\ (Ended(t) \/ t.gasLeft < s.gasLeft)
               /\ cell.op \in Free => Ended(t)
<1> DEFINE cell == s.code[s.programCounter + 1]
           reads == s.codeReads \union {s.programCounter}
           fetched == [s EXCEPT !.codeReads = reads]
           info == OPCODES(cell.op, cell.n)
           charged == Charged(fetched, info)
           ready == [charged EXCEPT !.programCounter = charged.programCounter + 1]
           handled == Handled(charged, cell)
<1>1. cell \in CodeCell
  <2>1. s.programCounter + 1 \in 1 .. Len(s.code)
    BY LenProperties DEF Typed
  <2> QED
    BY <2>1, ElementOfSeq DEF Typed
<1>2. runNextStep(s) = WithinMemory(handled)
  BY DEF runNextStep
<1>3. handled = IF Running(charged) THEN Handle(ready, cell) ELSE charged
  BY DEF Handled
<1>4. info[1] \in Nat /\ (cell.op \notin Free => info[1] # 0)
  BY <1>1, OpcodesCost DEF CodeCell
<1>5. Goes(s, fetched) /\ Typed(fetched)
  <2> HIDE DEF reads
  <2> QED
    BY SetSeen DEF Goes
<1>6. fetched.gasLeft <= s.gasLeft
  BY <1>5 DEF Goes, Later
<1> HIDE DEF cell, fetched
<1>7. /\ Goes(fetched, charged) /\ Typed(charged)
      /\ Running(charged) => charged.gasLeft = fetched.gasLeft - info[1]
                             /\ Len(charged.stack) >= info[2]
  BY <1>1, <1>5, ChargedGoes DEF Goes
<1> HIDE DEF info, charged
<1>8. Goes(s, charged)
  BY <1>5, <1>7, GoesOn
<1>9. s.gasLeft \in Nat /\ fetched.gasLeft \in Nat /\ charged.gasLeft \in Nat
  BY <1>5, <1>7 DEF Typed
<1>10. /\ Goes(s, handled) /\ Typed(handled) /\ (Ended(handled) \/ handled.gasLeft < s.gasLeft)
       /\ cell.op \in Free => Ended(handled)
  <2>1. CASE ~Running(charged)
    BY <1>3, <1>7, <1>8, <2>1 DEF Ended, Goes
  <2>2. CASE Running(charged)
    <3> DEFINE pc == charged.programCounter + 1
    <3>1. pc \in Nat /\ pc # 0
      BY <1>7 DEF Typed
    <3>2. ready = [charged EXCEPT !.programCounter = pc]
      OBVIOUS
    <3> HIDE DEF pc, ready
    <3>3. Goes(charged, ready) /\ Typed(ready) /\ ready.programCounter # 0
      BY <1>7, <3>1, <3>2, SetCounter DEF Goes
    <3>4. ready.stack = charged.stack
      BY <1>7, <3>2 DEF Typed, IsRun, Fields
    <3>5. Len(ready.stack) >= OPCODES(cell.op, cell.n)[2]
      BY <1>7, <2>2, <3>4 DEF info
    <3>6. handled = Handle(ready, cell)
      BY <1>3, <2>2
    <3> HIDE DEF handled
    <3>7. Goes(ready, handled) /\ (cell.op \in Free => Ended(handled))
      BY <1>1, <3>3, <3>5, <3>6, HandleGoes
    <3>8. Goes(s, ready)
      BY <1>8, <3>3, GoesOn
    <3>9. Goes(s, handled)
      BY <3>7, <3>8, GoesOn
    <3>10. handled.gasLeft <= charged.gasLeft
      <4>1. ready.gasLeft \in Nat /\ handled.gasLeft \in Nat
        BY <3>3, <3>7 DEF Goes, Typed
      <4> QED
        BY <1>9, <3>3, <3>7, <4>1 DEF Goes, Later
    <3>11. handled.gasLeft \in Nat
      BY <3>9 DEF Goes, Typed
    <3>12. cell.op \notin Free => handled.gasLeft < s.gasLeft
      BY <1>4, <1>6, <1>7, <1>9, <2>2, <3>10, <3>11
    <3> QED
      BY <3>7, <3>9, <3>12 DEF Goes
  <2> QED
    BY <2>1, <2>2
<1> HIDE DEF handled
<1>11. Goes(handled, WithinMemory(handled)) /\ (Ended(handled) => Ended(WithinMemory(handled)))
  BY <1>10, WithinMemoryGoes
<1>12. Goes(s, WithinMemory(handled))
  BY <1>10, <1>11, GoesOn
<1>13. WithinMemory(handled).gasLeft <= handled.gasLeft
  BY <1>11 DEF Goes, Later
<1>14. handled.gasLeft \in Nat /\ WithinMemory(handled).gasLeft \in Nat
  BY <1>10, <1>12 DEF Goes, Typed
<1>15. cell.op \in Free => Ended(WithinMemory(handled))
  BY <1>10, <1>11
<1> QED
  BY <1>1, <1>2, <1>9, <1>10, <1>11, <1>12, <1>13, <1>14, <1>15 DEF cell

-----------------------------------------------------------------------------
\* The run.

\* A function on 1 .. k is a sequence of length k.
LEMMA FunctionIsSeq ==
    ASSUME NEW k \in Nat, NEW f, DOMAIN f = 1 .. k, f = [i \in 1 .. k |-> f[i]]
    PROVE  Len(f) = k
<1> DEFINE S == {f[i] : i \in 1 .. k}
<1>1. f \in [1 .. k -> S]
  OBVIOUS
<1> HIDE DEF S
<1>2. f \in Seq(S)
  BY <1>1, SeqDef
<1>3. Len(f) \in Nat /\ DOMAIN f = 1 .. Len(f)
  BY <1>2, LenProperties
<1> QED
  BY <1>3

LEMMA LargerOfTwo ==
    ASSUME NEW a \in Int, NEW b \in Int
    PROVE  Max({a, b}) = IF a >= b THEN a ELSE b
BY DEF Max

\* The serialised memory has the words paid for and all words begun; serialised with as
\* many words as it has, it is the same.
LEMMA SerialisedOnce ==
    ASSUME NEW bytes \in NatSeq, NEW n \in Nat
    PROVE  LET words == Serialised(bytes, n)
           IN  Serialised(bytes, Len(words)) = words
<1> DEFINE begun == WordsFor(Len(bytes))
           m == Max({n, begun})
           padded == Slice(bytes, 0, WordBytes * m)
<1>1. begun \in Nat
  BY LenProperties, WordsForIsNat DEF NatSeq
<1>2. m \in Nat /\ Max({m, begun}) = m
  <2> HIDE DEF begun
  <2>1. m = IF n >= begun THEN n ELSE begun
    BY <1>1, LargerOfTwo
  <2>2. m \in Nat /\ m >= begun
    BY <1>1, <2>1
  <2> HIDE DEF m
  <2> QED
    BY <1>1, <2>2, LargerOfTwo
<1>3. Len(padded) = WordBytes * m
  <2> HIDE DEF m
  <2>1. WordBytes * m \in Nat
    BY <1>2, Sizes
  <2> QED
    BY <2>1, SliceIsSeq
<1>4. (WordBytes * m) \div WordBytes = m
  <2>1. \A k \in Nat \ {0}, x \in Nat : (k * x) \div k = x
    OBVIOUS
  <2> HIDE DEF m
  <2> QED
    BY <1>2, <2>1, Sizes
<1>5. Len(AsWords(padded)) = m
  <2> DEFINE words == AsWords(padded)
  <2> HIDE DEF padded, m
  <2>1. DOMAIN words = 1 .. m /\ words = [i \in 1 .. m |-> words[i]]
    BY <1>3, <1>4 DEF AsWords
  <2> HIDE DEF words
  <2>2. Len(words) = m
    BY <1>2, <2>1, FunctionIsSeq
  <2> QED
    BY <2>2 DEF words
<1>6. Serialised(bytes, n) = AsWords(padded)
  BY DEF Serialised, PadToWords
<1>7. Serialised(bytes, m) = AsWords(padded)
  <2>1. Serialised(bytes, m) = AsWords(Slice(bytes, 0, WordBytes * Max({m, begun})))
    BY DEF Serialised, PadToWords
  <2> QED
    BY <1>2, <2>1
<1> QED
  BY <1>5, <1>6, <1>7

\* The invariant: MemoryCacheIsCurrent, of a run state with numbers in it.
MemInv == Typed(vm) /\ MemoryCacheIsCurrent

\* The first state of a run.
LEMMA MemBegins == Init => MemInv
<1>1. SUFFICES ASSUME NEW p \in Programs,
                      vm = initRunState(p.code, p.callData, << >>, << >>, 0, p.gas),
                      cache = freshCache(vm)
               PROVE  MemInv
  BY DEF Init
<1>2. p.code \in Seq(CodeCell) /\ p.gas \in Nat
  BY ProgramsAssumption
<1>3. p.callData \in NatSeq
  <2>1. Byte \subseteq Nat
    BY DEF Byte
  <2> QED
    BY <2>1, ProgramsAssumption, SeqMonotonic DEF NatSeq
<1>4. << >> \in NatSeq /\ Len(<< >>) = 0
  BY EmptyNumbers, EmptyIsSeq
<1>5. FlattenSeq(<< >>) = << >>
  BY <1>4 DEF FlattenSeq
<1>6. IsRun(vm)
  BY <1>1, FreshRun
<1>7. /\ vm.code = p.code /\ vm.callData = p.callData /\ vm.stack = << >> /\ vm.memory = << >>
      /\ vm.returnValue = << >> /\ vm.gasLeft = p.gas /\ vm.memoryWordCount = 0
      /\ vm.programCounter = 0 /\ vm.highestMemCost = MemCost(0) /\ vm.stopped \in BOOLEAN
  BY <1>1, <1>4, <1>5 DEF initRunState
<1>8. Typed(vm)
  BY <1>2, <1>3, <1>4, <1>6, <1>7 DEF Typed
<1>9. Serialised(<< >>, 0) = << >>
  <2>1. WordsFor(0) = 0
    <3>1. (0 + WordBytes - 1) \div WordBytes = 0
      BY Sizes
    <3> QED
      BY <3>1 DEF WordsFor, divCeil
  <2>2. Max({0, 0}) = 0
    BY LargerOfTwo
  <2>3. WordBytes * 0 = 0 /\ 0 \div WordBytes = 0
    BY Sizes
  <2> DEFINE padded == Slice(<< >>, 0, 0)
  <2>4. Len(padded) = 0
    BY <1>4, SliceIsSeq
  <2>5. PadToWords(<< >>, 0) = padded
    BY <1>4, <2>1, <2>2, <2>3 DEF PadToWords
  <2> HIDE DEF padded
  <2>6. Serialised(<< >>, 0) = [i \in 1 .. 0 |-> Slice(padded, WordBytes * (i - 1), WordBytes)]
    BY <2>3, <2>4, <2>5 DEF Serialised, AsWords
  <2> QED
    BY <2>6
<1>10. cache.prevMem = << >>
  BY <1>1 DEF freshCache
<1> QED
  BY <1>7, <1>8, <1>9, <1>10 DEF MemInv, MemoryCacheIsCurrent

\* What a step of the run does, in one place.
LEMMA StepOfRun ==
    ASSUME KeccakReturnsNumbers, MemInv, NEW op \in Instructions, Execute(op)
    PROVE  /\ MemInv'
           /\ Halted(vm') \/ vm'.gasLeft < vm.gasLeft
<1> DEFINE cell == vm.code[vm.programCounter + 1]
           begun == [vm EXCEPT !.codeReads = {}]
           s == runNextStep(begun)
<1>1. /\ ~Halted(vm)
      /\ cache' = carried(s, cell, cache)
      /\ vm' = [s EXCEPT !.memRead = FALSE, !.memWrite = FALSE]
  BY DEF Execute, runNext
<1>2. Typed(vm) /\ cache.prevMem = Serialised(vm.memory, vm.memoryWordCount)
  BY DEF MemInv, MemoryCacheIsCurrent
<1>3. Typed(begun)
  BY <1>2, SetSeen DEF Goes
<1>4. /\ begun.code = vm.code /\ begun.programCounter = vm.programCounter
      /\ begun.memory = vm.memory /\ begun.gasLeft = vm.gasLeft
  BY <1>2 DEF Typed, IsRun, Fields
<1>5. begun.programCounter < Len(begun.code)
  <2>1. vm.programCounter \in Nat /\ Len(vm.code) \in Nat
    BY <1>2, LenProperties DEF Typed
  <2> QED
    BY <1>1, <1>4, <2>1 DEF Halted
<1> HIDE DEF begun
<1>6. Goes(begun, s) /\ (Ended(s) \/ s.gasLeft < begun.gasLeft)
  BY <1>3, <1>5, StepGoes
<1>7. cache'.prevMem = calculateMemProof(s, cache)
  BY <1>1 DEF carried
<1> HIDE DEF s, cell
<1>8. Typed(s)
  BY <1>6 DEF Goes
<1>9. /\ DOMAIN vm' = Fields
      /\ \A f \in Fields \ {"memRead", "memWrite"} : vm'[f] = s[f]
  BY <1>1, <1>8 DEF Typed, IsRun, Fields
<1>10. /\ vm'.code = s.code /\ vm'.callData = s.callData /\ vm'.stack = s.stack
       /\ vm'.memory = s.memory /\ vm'.returnValue = s.returnValue /\ vm'.gasLeft = s.gasLeft
       /\ vm'.memoryWordCount = s.memoryWordCount /\ vm'.programCounter = s.programCounter
       /\ vm'.highestMemCost = s.highestMemCost /\ vm'.stopped = s.stopped
       /\ vm'.error = s.error
  BY <1>9 DEF Fields
<1>11. Typed(vm)'
  BY <1>8, <1>9, <1>10 DEF Typed, IsRun, IsSeq
<1>12. (cache.prevMem = Serialised(vm.memory, vm.memoryWordCount))'
  <2>1. CASE s.memRead \/ s.memWrite \/ Len(cache.prevMem) # s.memoryWordCount
    <3>1. cache'.prevMem = Serialised(s.memory, s.memoryWordCount)
      BY <1>7, <2>1 DEF calculateMemProof
    <3> QED
      BY <1>10, <3>1 DEF Serialised
  <2>2. CASE ~(s.memRead \/ s.memWrite \/ Len(cache.prevMem) # s.memoryWordCount)
    <3>1. cache'.prevMem = cache.prevMem /\ s.memory = vm.memory
      BY <1>4, <1>6, <1>7, <2>2 DEF calculateMemProof, Goes, Later
    <3>2. vm.memory \in NatSeq /\ vm.memoryWordCount \in Nat
      BY <1>2 DEF Typed
    <3>3. Serialised(vm.memory, Len(cache.prevMem)) = cache.prevMem
      BY <1>2, <3>2, SerialisedOnce
    <3>4. Serialised(s.memory, s.memoryWordCount) = cache'.prevMem
      BY <2>2, <3>1, <3>3
    <3> QED
      BY <1>10, <3>4 DEF Serialised
  <2> QED
    BY <2>1, <2>2
<1>13. (vm.highestMemCost = MemCost(vm.memoryWordCount))'
  BY <1>8, <1>10 DEF Typed, MemCost
<1>14. Halted(vm') \/ vm'.gasLeft < vm.gasLeft
  BY <1>4, <1>6, <1>10 DEF Halted, Ended, Running
<1> QED
  BY <1>11, <1>12, <1>13, <1>14 DEF MemInv, MemoryCacheIsCurrent

LEMMA StutterKeepsMemInv ==
    ASSUME MemInv, UNCHANGED vars
    PROVE  MemInv'
BY DEF MemInv, MemoryCacheIsCurrent, vars, Typed, IsRun, IsSeq, Serialised, MemCost

LEMMA StepsKeepMemInv ==
    ASSUME KeccakReturnsNumbers, MemInv, [Next]_vars
    PROVE  MemInv'
BY StepOfRun, StutterKeepsMemInv DEF Next

\* For every program, every width of words and every size of stack and memory, and any
\* function from bytes to numbers in the place of keccak256: the serialised memory that
\* HydratedRuntime keeps while the proxies see no use of it (HydratedRuntime.js 98-129) is
\* that of the run's memory, and the price remembered is the price of the words counted.
THEOREM MemoryCacheAlwaysCurrent ==
    ASSUME KeccakReturnsNumbers
    PROVE  Spec => []MemoryCacheIsCurrent
<1>1. Init => MemInv
  BY MemBegins
<1>2. MemInv /\ [Next]_vars => MemInv'
  BY StepsKeepMemInv
<1>3. MemInv => MemoryCacheIsCurrent
  BY DEF MemInv
<1> QED
  BY <1>1, <1>2, <1>3, PTL DEF Spec

\* Under the same assumption, every step of every run costs gas or is its last one: the
\* instructions that cost nothing end the run, and no handler gives gas back
\* (EVMRuntime.js, run and runNextStep).
THEOREM GasAlwaysBoundsTheRun ==
    ASSUME KeccakReturnsNumbers
    PROVE  Spec => GasBoundsTheRun
<1>1. Init => MemInv
  BY MemBegins
<1>2. MemInv /\ [Next]_vars => MemInv'
  BY StepsKeepMemInv
<1>3. MemInv /\ [Next]_vars => [Halted(vm') \/ vm'.gasLeft < vm.gasLeft]_vars
  BY StepOfRun DEF Next
<1> QED
  BY <1>1, <1>2, <1>3, PTL DEF Spec, GasBoundsTheRun

-----------------------------------------------------------------------------
\* Memory, byte by byte: what is behind a byte string's end reads as zero.

ByteAt(bytes, i) == IF i \in 1 .. Len(bytes) THEN bytes[i] ELSE 0

SameBytes(m, k) == \A i \in Nat \ {0} : ByteAt(m, i) = ByteAt(k, i)

LEMMA SliceBytes ==
    ASSUME NEW bytes \in NatSeq, NEW pos \in Nat, NEW n \in Nat
    PROVE  \A i \in 1 .. n : Slice(bytes, pos, n)[i] = ByteAt(bytes, pos + i)
<1> USE DEF NatSeq
<1> DEFINE zeroes == Zeroes(pos + n)
           full == bytes \o zeroes
<1>1. zeroes \in Seq(Nat) /\ Len(zeroes) = pos + n /\ \A i \in 1 .. pos + n : zeroes[i] = 0
  <2>1. pos + n \in Nat /\ zeroes \in [1 .. pos + n -> Nat]
    BY DEF Zeroes
  <2>2. zeroes \in Seq(Nat)
    BY <2>1, SeqDef
  <2> QED
    BY <2>1, <2>2, LenProperties DEF Zeroes
<1>2. Len(bytes) \in Nat
  BY LenProperties
<1> HIDE DEF zeroes
<1>3. /\ full \in Seq(Nat) /\ Len(full) = Len(bytes) + (pos + n)
      /\ \A i \in 1 .. Len(bytes) + (pos + n) :
            full[i] = IF i <= Len(bytes) THEN bytes[i] ELSE zeroes[i - Len(bytes)]
  BY <1>1, ConcatProperties
<1>4. \A i \in 1 .. pos + n : full[i] = ByteAt(bytes, i)
  <2> TAKE i \in 1 .. pos + n
  <2>1. full[i] = IF i <= Len(bytes) THEN bytes[i] ELSE zeroes[i - Len(bytes)]
    BY <1>2, <1>3
  <2>2. CASE i <= Len(bytes)
    BY <1>2, <2>1, <2>2 DEF ByteAt
  <2>3. CASE ~(i <= Len(bytes))
    BY <1>1, <1>2, <2>1, <2>3 DEF ByteAt
  <2> QED
    BY <2>2, <2>3
<1> HIDE DEF full
<1>5. \A i \in pos + 1 .. pos + n : full[i] \in Nat
  BY <1>2, <1>3, ElementOfSeq
<1> DEFINE m == pos + 1
           k == pos + n
<1>6. m \in Int /\ k \in Int /\ \A i \in m .. k : full[i] \in Nat
  BY <1>5
<1>7. k - m + 1 = n
  OBVIOUS
<1> HIDE DEF m, k
<1>8. \A i \in 1 .. n : SubSeq(full, m, k)[i] = full[m + i - 1]
  BY <1>6, <1>7, SubSeqProperties
<1>9. SubSeq(full, m, k) = Slice(bytes, pos, n)
  BY DEF Slice, full, zeroes, m, k
<1>10. \A i \in 1 .. n : m + i - 1 \in 1 .. pos + n /\ m + i - 1 = pos + i
  BY DEF m
<1> QED
  BY <1>4, <1>8, <1>9, <1>10

LEMMA SameSlices ==
    ASSUME NEW m \in NatSeq, NEW k \in NatSeq, SameBytes(m, k), NEW pos \in Nat, NEW n \in Nat
    PROVE  Slice(m, pos, n) = Slice(k, pos, n)
<1>1. /\ Slice(m, pos, n) \in NatSeq /\ Len(Slice(m, pos, n)) = n
      /\ Slice(k, pos, n) \in NatSeq /\ Len(Slice(k, pos, n)) = n
  BY SliceIsSeq
<1>2. \A i \in 1 .. n : Slice(m, pos, n)[i] = Slice(k, pos, n)[i]
  <2> TAKE i \in 1 .. n
  <2>1. Slice(m, pos, n)[i] = ByteAt(m, pos + i) /\ Slice(k, pos, n)[i] = ByteAt(k, pos + i)
    BY SliceBytes
  <2>2. pos + i \in Nat \ {0}
    OBVIOUS
  <2> QED
    BY <2>1, <2>2 DEF SameBytes
<1> QED
  BY <1>1, <1>2, SeqEqual DEF NatSeq

\* A write puts its bytes in their place and leaves the others where they are.
LEMMA OverwriteBytes ==
    ASSUME NEW bytes \in NatSeq, NEW pos \in Nat, NEW value \in NatSeq, value # << >>
    PROVE  LET written == Overwrite(bytes, pos, value)
           IN  /\ written \in NatSeq
               /\ Len(written) = IF Len(bytes) > pos + Len(value) THEN Len(bytes)
                                 ELSE pos + Len(value)
               /\ \A i \in Nat \ {0} : ByteAt(written, i) =
                     IF i \in pos + 1 .. pos + Len(value) THEN value[i - pos]
                     ELSE ByteAt(bytes, i)
<1> DEFINE front == Slice(bytes, 0, pos)
           end == pos + Len(value)
           from == end + 1
           back == SubSeq(bytes, from, Len(bytes))
           written == Overwrite(bytes, pos, value)
<1>1. Len(bytes) \in Nat /\ Len(value) \in Nat
  BY LenProperties DEF NatSeq
<1>2. /\ front \in Seq(Nat) /\ Len(front) = pos
      /\ \A i \in 1 .. pos : front[i] = ByteAt(bytes, i)
  <2>1. \A i \in 1 .. pos : front[i] = ByteAt(bytes, 0 + i)
    <3>1. 0 \in Nat
      OBVIOUS
    <3> QED
      BY <3>1, SliceBytes
  <2>2. front \in Seq(Nat) /\ Len(front) = pos
    BY SliceIsSeq DEF NatSeq
  <2>3. \A i \in 1 .. pos : 0 + i = i
    OBVIOUS
  <2> HIDE DEF front
  <2> QED
    BY <2>1, <2>2, <2>3
<1>3. end \in Nat
  BY <1>1
<1>4. /\ back \in Seq(Nat)
      /\ Len(back) = IF Len(bytes) > end THEN Len(bytes) - end ELSE 0
      /\ \A i \in 1 .. Len(bytes) - end : back[i] = bytes[end + i]
  <2> HIDE DEF end
  <2>1. from \in Int /\ Len(bytes) \in Int /\ \A i \in from .. Len(bytes) : bytes[i] \in Nat
    BY <1>1, <1>3, ElementOfSeq DEF NatSeq
  <2>2. from = end + 1
    OBVIOUS
  <2> HIDE DEF from
  <2>3. /\ back \in Seq(Nat)
        /\ Len(back) = IF from <= Len(bytes) THEN Len(bytes) - from + 1 ELSE 0
        /\ \A i \in 1 .. Len(bytes) - from + 1 : back[i] = bytes[from + i - 1]
    BY <2>1, SubSeqProperties
  <2> HIDE DEF back
  <2>4. Len(bytes) - from + 1 = Len(bytes) - end
    BY <1>1, <1>3, <2>2
  <2>5. \A i \in 1 .. Len(bytes) - end :
           from + i - 1 = end + i /\ i \in 1 .. Len(bytes) - from + 1
    BY <1>1, <1>3, <2>2
  <2>6. Len(back) = IF Len(bytes) > end THEN Len(bytes) - end ELSE 0
    BY <1>1, <1>3, <2>2, <2>3
  <2>7. \A i \in 1 .. Len(bytes) - end : back[i] = bytes[end + i]
    BY <2>3, <2>5
  <2> QED
    BY <2>3, <2>6, <2>7
<1>5. written = (front \o value) \o back
  BY DEF Overwrite
<1> HIDE DEF front, back, written
<1> DEFINE head == front \o value
<1>6. /\ head \in Seq(Nat) /\ Len(head) = end
      /\ \A i \in 1 .. end : head[i] = IF i <= pos THEN front[i] ELSE value[i - pos]
  BY <1>2, ConcatProperties DEF NatSeq
<1> HIDE DEF head
<1>7. /\ written \in Seq(Nat) /\ Len(written) = end + Len(back)
      /\ \A i \in 1 .. end + Len(back) :
            written[i] = IF i <= end THEN head[i] ELSE back[i - end]
  <2>1. written = head \o back
    BY <1>5 DEF head
  <2> HIDE DEF end
  <2> QED
    BY <2>1, <1>4, <1>6, ConcatProperties
<1> HIDE DEF end
<1>8. Len(written) = IF Len(bytes) > end THEN Len(bytes) ELSE end
  BY <1>1, <1>3, <1>4, <1>7
<1>9. ASSUME NEW i \in Nat \ {0}
      PROVE  ByteAt(written, i) = IF i \in pos + 1 .. end THEN value[i - pos] ELSE ByteAt(bytes, i)
  <2>1. CASE i <= end
    <3>1. i \in 1 .. end /\ i \in 1 .. end + Len(back)
      BY <1>1, <1>3, <1>4, <2>1
    <3>2. written[i] = IF i <= pos THEN front[i] ELSE value[i - pos]
      BY <1>6, <1>7, <2>1, <3>1
    <3>3. ByteAt(written, i) = written[i]
      BY <1>7, <3>1 DEF ByteAt
    <3>4. i <= pos => front[i] = ByteAt(bytes, i)
      BY <1>2
    <3>5. i \in pos + 1 .. end <=> ~(i <= pos)
      BY <1>3, <2>1
    <3> QED
      BY <3>2, <3>3, <3>4, <3>5
  <2>2. CASE i > end /\ i <= Len(bytes)
    <3>1. i - end \in 1 .. Len(bytes) - end /\ i \in 1 .. Len(written) /\ i \in 1 .. Len(bytes)
      BY <1>1, <1>3, <1>8, <2>2
    <3>2. back[i - end] = bytes[i]
      <4>1. back[i - end] = bytes[end + (i - end)] /\ end + (i - end) = i
        BY <1>3, <1>4, <3>1
      <4> QED
        BY <4>1
    <3>3. written[i] = back[i - end]
      BY <1>3, <1>7, <2>2, <3>1
    <3>4. ~(i \in pos + 1 .. end)
      BY <1>3, <2>2
    <3> QED
      BY <3>1, <3>2, <3>3, <3>4 DEF ByteAt
  <2>3. CASE i > end /\ ~(i <= Len(bytes))
    <3>1. ~(i \in 1 .. Len(written)) /\ ~(i \in 1 .. Len(bytes)) /\ ~(i \in pos + 1 .. end)
      BY <1>1, <1>3, <1>8, <2>3
    <3> QED
      BY <3>1 DEF ByteAt
  <2> QED
    BY <1>3, <2>1, <2>2, <2>3
<1> QED
  BY <1>7, <1>8, <1>9 DEF written, end, NatSeq

LEMMA SameOverwrites ==
    ASSUME NEW m \in NatSeq, NEW k \in NatSeq, SameBytes(m, k), NEW pos \in Nat,
           NEW value \in NatSeq, value # << >>
    PROVE  SameBytes(Overwrite(m, pos, value), Overwrite(k, pos, value))
BY OverwriteBytes DEF SameBytes

-----------------------------------------------------------------------------
\* Run states that go on in the same way.

\* All the memory there is has been paid for and counted.
Counted(s) == Len(s.memory) <= WordBytes * s.memoryWordCount

\* Two run states between which a step cannot tell the difference: their memories read
\* the same, although one may be longer than the other.
Alike(s, t) ==
    /\ Typed(s) /\ Typed(t)
    /\ Counted(s) /\ Counted(t)
    /\ SameBytes(s.memory, t.memory)
    /\ t.code = s.code /\ t.callData = s.callData /\ t.validJumps = s.validJumps
    /\ t.programCounter = s.programCounter /\ t.stack = s.stack
    /\ t.memoryWordCount = s.memoryWordCount /\ t.gasLeft = s.gasLeft
    /\ t.returnValue = s.returnValue /\ t.stopped = s.stopped /\ t.error = s.error

\* Setting a field of both.
LEMMA AlikeStack ==
    ASSUME NEW s, NEW t, Alike(s, t), NEW q \in NatSeq
    PROVE  Alike([s EXCEPT !.stack = q], [t EXCEPT !.stack = q])
<1>1. IsSeq(q)
  BY SeqIsSeq DEF NatSeq
<1> QED
  BY <1>1 DEF Alike, Typed, IsRun, Fields, Counted

LEMMA AlikeGas ==
    ASSUME NEW s, NEW t, Alike(s, t), NEW g \in Nat
    PROVE  Alike([s EXCEPT !.gasLeft = g], [t EXCEPT !.gasLeft = g])
BY DEF Alike, Typed, IsRun, Fields, Counted

LEMMA AlikeError ==
    ASSUME NEW s, NEW t, Alike(s, t), NEW e
    PROVE  Alike([s EXCEPT !.error = e], [t EXCEPT !.error = e])
BY DEF Alike, Typed, IsRun, Fields, Counted

LEMMA AlikeStopped ==
    ASSUME NEW s, NEW t, Alike(s, t)
    PROVE  Alike([s EXCEPT !.stopped = TRUE], [t EXCEPT !.stopped = TRUE])
<1>1. /\ Typed([s EXCEPT !.stopped = TRUE]) /\ Typed([t EXCEPT !.stopped = TRUE])
  BY SetSeen DEF Goes, Alike
<1>2. [s EXCEPT !.stopped = TRUE].stopped = [t EXCEPT !.stopped = TRUE].stopped
  BY DEF Alike, Typed, IsRun, Fields
<1> QED
  BY <1>1, <1>2 DEF Alike, Typed, IsRun, Fields, Counted

LEMMA AlikeSeen ==
    ASSUME NEW s, NEW t, Alike(s, t), NEW a, NEW b
    PROVE  /\ Alike([s EXCEPT !.memRead = a], [t EXCEPT !.memRead = b])
           /\ Alike([s EXCEPT !.codeReads = a], [t EXCEPT !.codeReads = b])
BY DEF Alike, Typed, IsRun, Fields, Counted

LEMMA AlikeCounter ==
    ASSUME NEW s, NEW t, Alike(s, t), NEW pc \in Nat, NEW a, NEW b
    PROVE  /\ Alike([s EXCEPT !.programCounter = pc], [t EXCEPT !.programCounter = pc])
           /\ Alike([s EXCEPT !.programCounter = pc, !.codeReads = a],
                    [t EXCEPT !.programCounter = pc, !.codeReads = b])
BY DEF Alike, Typed, IsRun, Fields, Counted

LEMMA AlikeReturn ==
    ASSUME NEW s, NEW t, Alike(s, t), NEW value \in NatSeq
    PROVE  Alike([s EXCEPT !.returnValue = value], [t EXCEPT !.returnValue = value])
BY DEF Alike, Typed, IsRun, Fields, Counted

LEMMA AlikeWords ==
    ASSUME NEW s, NEW t, Alike(s, t), NEW w \in Nat, s.memoryWordCount <= w
    PROVE  Alike([s EXCEPT !.highestMemCost = MemCost(w), !.memoryWordCount = w],
                 [t EXCEPT !.highestMemCost = MemCost(w), !.memoryWordCount = w])
<1> DEFINE u == [s EXCEPT !.highestMemCost = MemCost(w), !.memoryWordCount = w]
           v == [t EXCEPT !.highestMemCost = MemCost(w), !.memoryWordCount = w]
<1>1. Typed(u) /\ Typed(v)
  BY SetWords DEF Goes, Alike
<1>2. Counted(u) /\ Counted(v)
  <2>1. u.memory = s.memory /\ v.memory = t.memory /\ u.memoryWordCount = w /\ v.memoryWordCount = w
    BY DEF Alike, Typed, IsRun, Fields
  <2>2. s.memoryWordCount \in Nat /\ t.memoryWordCount = s.memoryWordCount
    BY DEF Alike, Typed
  <2>3. \A b \in Nat, i \in Nat, j \in Nat : i <= j => b * i <= b * j
    OBVIOUS
  <2>4. WordBytes * s.memoryWordCount <= WordBytes * w
    BY <2>2, <2>3, Sizes
  <2>5. Len(s.memory) \in Nat /\ Len(t.memory) \in Nat
    BY LenProperties DEF Alike, Typed, NatSeq
  <2>6. /\ Len(s.memory) <= WordBytes * s.memoryWordCount
        /\ Len(t.memory) <= WordBytes * s.memoryWordCount
    BY <2>2 DEF Alike, Counted
  <2> DEFINE have == WordBytes * s.memoryWordCount
             want == WordBytes * w
  <2>7. have \in Nat /\ want \in Nat
    BY <2>2, Sizes
  <2> HIDE DEF have, want, u, v
  <2>8. Len(s.memory) <= want /\ Len(t.memory) <= want
    BY <2>4, <2>5, <2>6, <2>7 DEF have, want
  <2> QED
    BY <2>1, <2>8 DEF Counted, want
<1>3. /\ u.memory = s.memory /\ v.memory = t.memory /\ u.memoryWordCount = v.memoryWordCount
      /\ \A f \in Fields \ {"highestMemCost", "memoryWordCount"} : u[f] = s[f] /\ v[f] = t[f]
  BY DEF Alike, Typed, IsRun, Fields
<1> HIDE DEF u, v
<1>4. /\ v.code = u.code /\ v.callData = u.callData /\ v.validJumps = u.validJumps
      /\ v.programCounter = u.programCounter /\ v.stack = u.stack /\ v.gasLeft = u.gasLeft
      /\ v.returnValue = u.returnValue /\ v.stopped = u.stopped /\ v.error = u.error
  BY <1>3 DEF Alike, Fields
<1>5. SameBytes(u.memory, v.memory)
  BY <1>3 DEF Alike
<1> QED
  BY <1>1, <1>2, <1>3, <1>4, <1>5 DEF Alike, u, v

LEMMA AlikeMemory ==
    ASSUME NEW s, NEW t, Alike(s, t), NEW m \in NatSeq, NEW k \in NatSeq, SameBytes(m, k),
           Len(m) <= WordBytes * s.memoryWordCount, Len(k) <= WordBytes * s.memoryWordCount
    PROVE  Alike([s EXCEPT !.memory = m, !.memWrite = TRUE],
                 [t EXCEPT !.memory = k, !.memWrite = TRUE])
BY DEF Alike, Typed, IsRun, Fields, Counted

LEMMA AlikeRuns ==
    ASSUME NEW s, NEW t, Alike(s, t)
    PROVE  /\ Running(t) <=> Running(s)
           /\ s.gasLeft \in Nat /\ s.memoryWordCount \in Nat
BY DEF Alike, Typed, Running

\* Words needed for n bytes hold them, and fewer do not.
LEMMA WordsForHold ==
    ASSUME NEW n \in Nat, NEW w \in Nat
    PROVE  /\ n <= WordBytes * WordsFor(n)
           /\ WordsFor(n) <= w <=> n <= WordBytes * w
<1>1. \A k \in Nat \ {0}, x \in Nat, j \in Nat :
         LET q == (x + k - 1) \div k
         IN  x <= k * q /\ (q <= j <=> x <= k * j)
  <2> TAKE k \in Nat \ {0}, x \in Nat, j \in Nat
  <2> DEFINE y == x + k - 1
             q == y \div k
             r == y % k
  <2>1. y \in Nat
    OBVIOUS
  <2> HIDE DEF y
  <2>2. q \in Nat /\ r \in 0 .. k - 1 /\ y = k * q + r
    BY <2>1
  <2> HIDE DEF q, r
  <2> DEFINE a == k * q
             b == k * j
  <2>3. a \in Nat /\ b \in Nat
    BY <2>2
  <2>4. x <= a /\ a < x + k
    BY <2>2, <2>3 DEF y
  <2>5. q <= j => a <= b
    BY <2>2
  <2>6. j < q => b + k <= a
    <3>1. ASSUME j < q PROVE k * (j + 1) <= k * q
      BY <2>2, <3>1
    <3>2. k * (j + 1) = b + k
      OBVIOUS
    <3> QED
      BY <3>1, <3>2
  <2>7. q <= j <=> x <= b
    <3> HIDE DEF a, b
    <3> QED
      BY <2>2, <2>3, <2>4, <2>5, <2>6
  <2> QED
    BY <2>4, <2>7 DEF q, y
<1> QED
  BY <1>1, Sizes DEF WordsFor, divCeil

LEMMA ThrowAlike ==
    ASSUME NEW s, NEW t, Alike(s, t), NEW e
    PROVE  Alike(Throw(s, e), Throw(t, e))
BY AlikeRuns, AlikeError DEF Throw

LEMMA subGasAlike ==
    ASSUME NEW s, NEW t, Alike(s, t), NEW amount \in Nat
    PROVE  Alike(subGas(s, amount), subGas(t, amount))
<1>1. /\ Running(t) <=> Running(s)
      /\ s.gasLeft \in Nat /\ t.gasLeft = s.gasLeft
  BY AlikeRuns DEF Alike
<1>2. CASE ~Running(s)
  BY <1>1, <1>2 DEF subGas
<1>3. CASE Running(s) /\ s.gasLeft < amount
  <2> DEFINE u == [s EXCEPT !.gasLeft = 0]
             v == [t EXCEPT !.gasLeft = 0]
  <2>1. Alike(u, v)
    BY AlikeGas
  <2>2. subGas(s, amount) = Throw(u, "out of gas") /\ subGas(t, amount) = Throw(v, "out of gas")
    BY <1>1, <1>3 DEF subGas
  <2> HIDE DEF u, v
  <2> QED
    BY <2>1, <2>2, ThrowAlike
<1>4. CASE Running(s) /\ ~(s.gasLeft < amount)
  <2> DEFINE g == s.gasLeft - amount
  <2>1. g \in Nat
    BY <1>1, <1>4
  <2>2. subGas(s, amount) = [s EXCEPT !.gasLeft = g] /\ subGas(t, amount) = [t EXCEPT !.gasLeft = g]
    BY <1>1, <1>4 DEF subGas
  <2> HIDE DEF g
  <2> QED
    BY <2>1, <2>2, AlikeGas
<1> QED
  BY <1>2, <1>3, <1>4

\* What subMemUsage does to a run state with numbers in it: the price of words of memory
\* is charged, and they are counted.
Price(s, words) == Max({0, MemCost(words) - s.highestMemCost})
Charge(s, words) == subGas(s, Price(s, words))
Count(s, words) == [s EXCEPT !.highestMemCost = MemCost(words), !.memoryWordCount = words]

LEMMA PriceIsNat ==
    ASSUME NEW s, Typed(s), NEW words \in Nat
    PROVE  Price(s, words) \in Nat
<1> DEFINE x == MemCost(words) - s.highestMemCost
<1>0. MemCost(words) \in Nat /\ s.highestMemCost \in Nat
  BY MemCostGrows DEF Typed
<1>1. x \in Int
  BY <1>0
<1> HIDE DEF x
<1>2. Max({0, x}) \in Nat
  BY <1>1 DEF Max
<1> QED
  BY <1>2 DEF Price, x

LEMMA subMemUsageIs ==
    ASSUME NEW s, Typed(s), NEW offset \in Nat, NEW length \in Nat,
           NEW words, words = WordsFor(offset + length)
    PROVE  subMemUsage(s, offset, length) =
              IF length = 0 \/ words <= s.memoryWordCount \/ ~Running(s) THEN s
              ELSE IF ~Running(Charge(s, words)) THEN Charge(s, words)
              ELSE Count(Charge(s, words), words)
<1> DEFINE cost == MemCost(words)
           amount == Max({0, cost - s.highestMemCost})
           paid == subGas(s, amount)
<1>1. words \in Nat
  BY WordsForIsNat
<1>2. cost \in Nat /\ s.memoryWordCount \in Nat /\ s.highestMemCost \in Nat
  BY <1>1, MemCostGrows DEF Typed
<1>4. paid.highestMemCost = s.highestMemCost
  <2> HIDE DEF amount
  <2> QED
    BY DEF subGas, Throw, Typed, IsRun, Fields
<1>5. ~(words <= s.memoryWordCount) => Max({paid.highestMemCost, cost}) = cost
  <2> HAVE ~(words <= s.memoryWordCount)
  <2>1. s.memoryWordCount <= words
    BY <1>1, <1>2
  <2>2. s.highestMemCost <= cost
    BY <1>1, <1>2, <2>1, MemCostGrows DEF Typed
  <2> DEFINE h == paid.highestMemCost
  <2>3. h \in Nat /\ h <= cost
    BY <1>2, <1>4, <2>2
  <2> HIDE DEF h, cost, paid
  <2>4. Max({h, cost}) = cost
    BY <1>2, <2>3 DEF Max
  <2> QED
    BY <2>4 DEF h
<1>6. subMemUsage(s, offset, length) =
         IF length = 0 \/ words <= s.memoryWordCount \/ ~Running(s) THEN s
         ELSE IF ~Running(paid) THEN paid
         ELSE [paid EXCEPT !.highestMemCost = Max({paid.highestMemCost, cost}),
                           !.memoryWordCount = words]
  BY DEF subMemUsage
<1>7. paid = Charge(s, words)
  BY DEF Charge, Price
<1> HIDE DEF paid, amount
<1> QED
  BY <1>5, <1>6, <1>7 DEF Count

LEMMA CountAlike ==
    ASSUME NEW s, NEW t, Alike(s, t), NEW w \in Nat, s.memoryWordCount <= w
    PROVE  Alike(Count(s, w), Count(t, w)) /\ Count(s, w).memoryWordCount = w
<1>1. Count(s, w).memoryWordCount = w
  BY DEF Count, Alike, Typed, IsRun, Fields
<1> QED
  BY <1>1, AlikeWords DEF Count

LEMMA ChargeAlike ==
    ASSUME NEW s, NEW t, Alike(s, t), NEW w \in Nat
    PROVE  /\ Alike(Charge(s, w), Charge(t, w))
           /\ Charge(s, w).memoryWordCount = s.memoryWordCount
<1>1. Typed(s) /\ t.highestMemCost = s.highestMemCost
  BY DEF Alike, Typed
<1>2. Price(t, w) = Price(s, w) /\ Price(s, w) \in Nat
  BY <1>1, PriceIsNat DEF Price
<1>3. Charge(s, w).memoryWordCount = s.memoryWordCount
  BY <1>1 DEF Charge, subGas, Throw, Typed, IsRun, Fields
<1> QED
  BY <1>2, <1>3, subGasAlike DEF Charge

LEMMA subMemUsageAlike ==
    ASSUME NEW s, NEW t, Alike(s, t), NEW offset \in Nat, NEW length \in Nat
    PROVE  LET u == subMemUsage(s, offset, length)
               v == subMemUsage(t, offset, length)
           IN  /\ Alike(u, v)
               /\ Running(u) /\ length # 0 => offset + length <= WordBytes * u.memoryWordCount
<1> DEFINE end == offset + length
           words == WordsFor(end)
           p == Charge(s, words)
           q == Charge(t, words)
           u == subMemUsage(s, offset, length)
           v == subMemUsage(t, offset, length)
<1> SUFFICES Alike(u, v) /\ (Running(u) /\ length # 0 => end <= WordBytes * u.memoryWordCount)
  OBVIOUS
<1>1. /\ Typed(s) /\ Typed(t) /\ s.memoryWordCount \in Nat
      /\ t.memoryWordCount = s.memoryWordCount
      /\ Running(t) <=> Running(s)
  BY AlikeRuns DEF Alike
<1>2. end \in Nat /\ words \in Nat
  BY WordsForIsNat
<1>3. /\ u = IF length = 0 \/ words <= s.memoryWordCount \/ ~Running(s) THEN s
             ELSE IF ~Running(p) THEN p ELSE Count(p, words)
      /\ v = IF length = 0 \/ words <= t.memoryWordCount \/ ~Running(t) THEN t
             ELSE IF ~Running(q) THEN q ELSE Count(q, words)
  BY <1>1, subMemUsageIs
<1> HIDE DEF end, u, v
<1>4. /\ words <= s.memoryWordCount => end <= WordBytes * s.memoryWordCount
      /\ end <= WordBytes * words
  BY <1>1, <1>2, WordsForHold
<1> HIDE DEF words
<1>6. Alike(p, q) /\ p.memoryWordCount = s.memoryWordCount
  BY <1>2, ChargeAlike
<1> HIDE DEF p, q
<1>7. Running(q) <=> Running(p)
  BY <1>6, AlikeRuns
<1>8. CASE length = 0 \/ words <= s.memoryWordCount \/ ~Running(s)
  <2>1. u = s /\ v = t
    BY <1>1, <1>3, <1>8
  <2> QED
    BY <1>4, <1>8, <2>1
<1>9. CASE ~(length = 0 \/ words <= s.memoryWordCount \/ ~Running(s)) /\ ~Running(p)
  BY <1>1, <1>3, <1>6, <1>7, <1>9
<1>10. CASE ~(length = 0 \/ words <= s.memoryWordCount \/ ~Running(s)) /\ Running(p)
  <2>1. u = Count(p, words) /\ v = Count(q, words)
    BY <1>1, <1>3, <1>7, <1>10
  <2>2. p.memoryWordCount <= words
    BY <1>1, <1>2, <1>6, <1>10
  <2>3. Alike(Count(p, words), Count(q, words)) /\ Count(p, words).memoryWordCount = words
    BY <1>2, <1>6, <2>2, CountAlike
  <2> QED
    BY <1>4, <2>1, <2>3
<1> QED
  BY <1>8, <1>9, <1>10

LEMMA memLoadAlike ==
    ASSUME NEW s, NEW t, Alike(s, t), NEW offset \in Nat, NEW length \in Nat
    PROVE  Alike(memLoad(s, offset, length), memLoad(t, offset, length))
<1>1. Alike(subMemUsage(s, offset, length), subMemUsage(t, offset, length))
  BY subMemUsageAlike
<1> QED
  BY <1>1, AlikeSeen DEF memLoad

LEMMA LoadedAlike ==
    ASSUME NEW s, NEW t, Alike(s, t), NEW offset \in Nat, NEW length \in Nat
    PROVE  Loaded(t, offset, length) = Loaded(s, offset, length)
BY SameSlices DEF Loaded, Alike, Typed

\* A write within the room there is does not make a byte string longer than that.
LEMMA OverwriteFits ==
    ASSUME NEW bytes \in NatSeq, NEW pos \in Nat, NEW value \in NatSeq, value # << >>,
           NEW room, Len(bytes) <= room, pos + Len(value) <= room
    PROVE  Overwrite(bytes, pos, value) \in NatSeq /\ Len(Overwrite(bytes, pos, value)) <= room
BY OverwriteBytes

\* A store within the memory counted.
LEMMA StoredAlike ==
    ASSUME NEW s, NEW t, Alike(s, t), NEW offset \in Nat, NEW val \in NatSeq,
           NEW valOffset \in Nat, NEW length \in Nat,
           Running(s) /\ length # 0 => offset + length <= WordBytes * s.memoryWordCount
    PROVE  Alike(Stored(s, offset, val, valOffset, length),
                 Stored(t, offset, val, valOffset, length))
<1>1. Running(t) <=> Running(s)
  BY AlikeRuns
<1>2. CASE ~Running(s) \/ length = 0 \/ val = << >>
  BY <1>1, <1>2 DEF Stored
<1>3. CASE ~(~Running(s) \/ length = 0 \/ val = << >>)
  <2> DEFINE value == Slice(val, valOffset, length)
             m == Overwrite(s.memory, offset, value)
             k == Overwrite(t.memory, offset, value)
  <2>1. value \in NatSeq /\ Len(value) = length
    BY SliceIsSeq
  <2>2. /\ Stored(s, offset, val, valOffset, length) = [s EXCEPT !.memory = m, !.memWrite = TRUE]
        /\ Stored(t, offset, val, valOffset, length) = [t EXCEPT !.memory = k, !.memWrite = TRUE]
    BY <1>1, <1>3 DEF Stored
  <2>3. value # << >>
    <3>1. Len(<< >>) = 0
      BY EmptyIsSeq
    <3> QED
      BY <1>3, <2>1, <3>1
  <2> HIDE DEF value
  <2>4. s.memory \in NatSeq /\ t.memory \in NatSeq /\ SameBytes(s.memory, t.memory)
    BY DEF Alike, Typed
  <2>5. SameBytes(m, k)
    BY <2>1, <2>3, <2>4, SameOverwrites
  <2> DEFINE end == offset + Len(value)
             room == WordBytes * s.memoryWordCount
  <2>6. Len(s.memory) <= room /\ Len(t.memory) <= room /\ end <= room
    BY <1>3, <2>1 DEF Alike, Counted
  <2> HIDE DEF room
  <2>7. m \in NatSeq /\ Len(m) <= room /\ k \in NatSeq /\ Len(k) <= room
    BY <2>1, <2>3, <2>4, <2>6, OverwriteFits
  <2> HIDE DEF m, k
  <2> DEFINE u == [s EXCEPT !.memory = m, !.memWrite = TRUE]
             v == [t EXCEPT !.memory = k, !.memWrite = TRUE]
  <2>8. Alike(u, v)
    BY <2>5, <2>7, AlikeMemory DEF room
  <2>9. /\ Stored(s, offset, val, valOffset, length) = u
        /\ Stored(t, offset, val, valOffset, length) = v
    BY <2>2
  <2> HIDE DEF u, v
  <2> QED
    BY <2>8, <2>9
<1> QED
  BY <1>2, <1>3

LEMMA memStoreAlike ==
    ASSUME NEW s, NEW t, Alike(s, t), NEW offset \in Nat, NEW val \in NatSeq,
           NEW valOffset \in Nat, NEW length \in Nat
    PROVE  Alike(memStore(s, offset, val, valOffset, length, TRUE),
                 memStore(t, offset, val, valOffset, length, TRUE))
<1> DEFINE u == subMemUsage(s, offset, length)
           v == subMemUsage(t, offset, length)
<1>1. Alike(u, v) /\ (Running(u) /\ length # 0 => offset + length <= WordBytes * u.memoryWordCount)
  BY subMemUsageAlike
<1>2. /\ memStore(s, offset, val, valOffset, length, TRUE) =
            Stored(u, offset, val, valOffset, length)
      /\ memStore(t, offset, val, valOffset, length, TRUE) =
            Stored(v, offset, val, valOffset, length)
  BY DEF memStore
<1> HIDE DEF u, v
<1> QED
  BY <1>1, <1>2, StoredAlike

LEMMA ArgAlike ==
    ASSUME NEW s, NEW t, Alike(s, t), NEW i
    PROVE  Arg(t, i) = Arg(s, i)
BY DEF Alike, Arg

LEMMA PopAlike ==
    ASSUME NEW s, NEW t, Alike(s, t), NEW n \in 0 .. Len(s.stack)
    PROVE  Alike(Pop(s, n), Pop(t, n))
<1> DEFINE k == Len(s.stack) - n
           left == SubSeq(s.stack, 1, k)
<1>1. t.stack = s.stack /\ s.stack \in NatSeq
  BY DEF Alike, Typed
<1>2. k \in Nat /\ k <= Len(s.stack)
  BY <1>1, LenProperties DEF NatSeq
<1>3. Pop(s, n) = [s EXCEPT !.stack = left] /\ Pop(t, n) = [t EXCEPT !.stack = left]
  BY <1>1 DEF Pop
<1> HIDE DEF k
<1>4. left \in NatSeq
  BY <1>1, <1>2, PartOfSeq
<1> HIDE DEF left
<1> QED
  BY <1>3, <1>4, AlikeStack

LEMMA PushAlike ==
    ASSUME NEW s, NEW t, Alike(s, t), NEW v \in Nat
    PROVE  Alike(Push(s, v), Push(t, v))
<1> DEFINE q == Append(s.stack, v)
<1>1. t.stack = s.stack /\ s.stack \in NatSeq
  BY DEF Alike, Typed
<1>2. q \in NatSeq
  BY <1>1, AppendNumber
<1>3. /\ Push(s, v) = IF Running(s) THEN [s EXCEPT !.stack = q] ELSE s
      /\ Push(t, v) = IF Running(t) THEN [t EXCEPT !.stack = q] ELSE t
  BY <1>1 DEF Push
<1> HIDE DEF q
<1> QED
  BY <1>2, <1>3, AlikeRuns, AlikeStack

-----------------------------------------------------------------------------
\* The handlers.

\* What two such states share.
LEMMA AlikeViews ==
    ASSUME NEW s, NEW t, Alike(s, t)
    PROVE  /\ Typed(s) /\ Typed(t) /\ t.stack = s.stack /\ Len(s.stack) \in Nat
           /\ t.code = s.code /\ t.callData = s.callData /\ t.validJumps = s.validJumps
           /\ t.programCounter = s.programCounter /\ t.returnValue = s.returnValue
           /\ t.gasLeft = s.gasLeft /\ t.memoryWordCount = s.memoryWordCount
           /\ t.stopped = s.stopped /\ t.error = s.error
BY LenProperties DEF Alike, Typed, NatSeq

LEMMA PopPushAlike ==
    ASSUME NEW s, NEW t, Alike(s, t), NEW n \in 0 .. Len(s.stack), NEW v \in Nat
    PROVE  Alike(Push(Pop(s, n), v), Push(Pop(t, n), v))
<1> DEFINE p == Pop(s, n)
           q == Pop(t, n)
<1>1. Alike(p, q)
  BY PopAlike
<1>2. Alike(Push(p, v), Push(q, v))
  <2> HIDE DEF p, q
  <2> QED
    BY <1>1, PushAlike
<1> QED
  BY <1>2

LEMMA EXPAlike ==
    ASSUME NEW s, NEW t, Alike(s, t), Len(s.stack) >= 2
    PROVE  Alike(handleEXP(s), handleEXP(t))
<1> DEFINE base == Arg(s, 1)
           exponent == Arg(s, 2)
           amount == 50 * ByteLength(exponent)
           p == Pop(s, 2)
           q == Pop(t, 2)
           power == PowMod(base, exponent)
<1>0. Len(s.stack) \in Nat /\ 2 \in 0 .. Len(s.stack) /\ Typed(s)
  BY AlikeViews
<1>1. base \in Nat /\ exponent \in Nat /\ Arg(t, 1) = base /\ Arg(t, 2) = exponent
  BY <1>0, ArgIsNat, ArgAlike
<1>2. Alike(p, q)
  BY <1>0, PopAlike
<1>3. amount \in Nat
  BY ByteLengthIsNat
<1>4. /\ handleEXP(s) = IF exponent = 0 THEN Push(p, 1) ELSE Push(subGas(p, amount), power)
      /\ handleEXP(t) = IF exponent = 0 THEN Push(q, 1) ELSE Push(subGas(q, amount), power)
  BY <1>1 DEF handleEXP
<1>5. power \in Nat
  BY <1>1, PowModIsNat
<1> HIDE DEF base, exponent, amount, p, q, power
<1>6. Alike(Push(p, 1), Push(q, 1))
  BY <1>2, PushAlike
<1> DEFINE u == subGas(p, amount)
           v == subGas(q, amount)
<1>7. Alike(u, v)
  BY <1>2, <1>3, subGasAlike
<1> HIDE DEF u, v
<1>8. Alike(Push(u, power), Push(v, power))
  BY <1>5, <1>7, PushAlike
<1> QED
  BY <1>4, <1>6, <1>8 DEF u, v

LEMMA SHA3Alike ==
    ASSUME KeccakReturnsNumbers, NEW s, NEW t, Alike(s, t), Len(s.stack) >= 2
    PROVE  Alike(handleSHA3(s), handleSHA3(t))
<1> DEFINE offset == Arg(s, 1)
           length == Arg(s, 2)
           p == Pop(s, 2)
           q == Pop(t, 2)
           amount == 6 * WordsFor(length)
           bytes == Loaded(s, offset, length)
           hash == Keccak(bytes)
           u == memLoad(p, offset, length)
           v == memLoad(q, offset, length)
<1>0. Len(s.stack) \in Nat /\ 2 \in 0 .. Len(s.stack) /\ Typed(s)
  BY AlikeViews
<1>1. offset \in Nat /\ length \in Nat /\ Arg(t, 1) = offset /\ Arg(t, 2) = length
  BY <1>0, ArgIsNat, ArgAlike
<1>2. Alike(p, q)
  BY <1>0, PopAlike
<1>3. Loaded(t, offset, length) = bytes
  BY <1>1, LoadedAlike
<1>4. handleSHA3(s) = Push(subGas(u, amount), hash)
  BY DEF handleSHA3
<1>5. handleSHA3(t) = Push(subGas(v, amount), hash)
  BY <1>1, <1>3 DEF handleSHA3
<1>6. bytes \in NatSeq
  BY <1>0, <1>1, LoadedNumbers
<1> HIDE DEF offset, length, p, q, bytes
<1>7. hash \in Nat
  BY <1>6 DEF KeccakReturnsNumbers, NatSeq
<1>8. amount \in Nat
  <2>1. WordsFor(length) \in Nat
    BY <1>1, WordsForIsNat
  <2> QED
    BY <2>1
<1>9. Alike(u, v)
  BY <1>1, <1>2, memLoadAlike
<1> HIDE DEF amount, hash, u, v
<1> DEFINE x == subGas(u, amount)
           y == subGas(v, amount)
<1>10. Alike(x, y)
  BY <1>8, <1>9, subGasAlike
<1>12. handleSHA3(s) = Push(x, hash) /\ handleSHA3(t) = Push(y, hash)
  BY <1>4, <1>5
<1> HIDE DEF x, y
<1>11. Alike(Push(x, hash), Push(y, hash))
  BY <1>7, <1>10, PushAlike
<1> QED
  BY <1>11, <1>12

\* What the copies begin with: three words off the stack and a fee by length.
PaidCopy(s) == subGas(Pop(s, 3), 3 * WordsFor(Arg(s, 3)))

LEMMA PaidCopyAlike ==
    ASSUME NEW s, NEW t, Alike(s, t), Len(s.stack) >= 3
    PROVE  /\ Alike(PaidCopy(s), PaidCopy(t))
           /\ Arg(s, 1) \in Nat /\ Arg(s, 2) \in Nat /\ Arg(s, 3) \in Nat
           /\ Arg(t, 1) = Arg(s, 1) /\ Arg(t, 2) = Arg(s, 2) /\ Arg(t, 3) = Arg(s, 3)
<1> DEFINE length == Arg(s, 3)
           amount == 3 * WordsFor(length)
           p == Pop(s, 3)
           q == Pop(t, 3)
<1>0. Len(s.stack) \in Nat /\ 3 \in 0 .. Len(s.stack) /\ Typed(s)
  BY AlikeViews
<1>1. /\ Arg(s, 1) \in Nat /\ Arg(s, 2) \in Nat /\ Arg(s, 3) \in Nat
      /\ Arg(t, 1) = Arg(s, 1) /\ Arg(t, 2) = Arg(s, 2) /\ Arg(t, 3) = Arg(s, 3)
  BY <1>0, ArgIsNat, ArgAlike
<1>2. PaidCopy(s) = subGas(p, amount) /\ PaidCopy(t) = subGas(q, amount)
  BY <1>1 DEF PaidCopy
<1>3. Alike(p, q)
  BY <1>0, PopAlike
<1>4. WordsFor(length) \in Nat
  BY <1>1, WordsForIsNat
<1> HIDE DEF length, p, q
<1>5. amount \in Nat
  BY <1>4
<1> HIDE DEF amount
<1>6. Alike(subGas(p, amount), subGas(q, amount))
  BY <1>3, <1>5, subGasAlike
<1> QED
  BY <1>1, <1>2, <1>6

LEMMA CALLDATACOPYAlike ==
    ASSUME NEW s, NEW t, Alike(s, t), Len(s.stack) >= 3
    PROVE  Alike(handleCALLDATACOPY(s), handleCALLDATACOPY(t))
<1> DEFINE u == PaidCopy(s)
           v == PaidCopy(t)
<1>1. s.callData \in NatSeq /\ t.callData = s.callData
  BY AlikeViews DEF Typed
<1>2. /\ Alike(u, v)
      /\ Arg(s, 1) \in Nat /\ Arg(s, 2) \in Nat /\ Arg(s, 3) \in Nat
      /\ Arg(t, 1) = Arg(s, 1) /\ Arg(t, 2) = Arg(s, 2) /\ Arg(t, 3) = Arg(s, 3)
  BY PaidCopyAlike
<1>3. /\ handleCALLDATACOPY(s) = memStore(u, Arg(s, 1), s.callData, Arg(s, 2), Arg(s, 3), TRUE)
      /\ handleCALLDATACOPY(t) = memStore(v, Arg(t, 1), t.callData, Arg(t, 2), Arg(t, 3), TRUE)
  BY DEF handleCALLDATACOPY, PaidCopy
<1> HIDE DEF u, v
<1>4. Alike(memStore(u, Arg(s, 1), s.callData, Arg(s, 2), Arg(s, 3), TRUE),
            memStore(v, Arg(s, 1), s.callData, Arg(s, 2), Arg(s, 3), TRUE))
  BY <1>1, <1>2, memStoreAlike
<1> QED
  BY <1>1, <1>2, <1>3, <1>4

LEMMA CODECOPYAlike ==
    ASSUME NEW s, NEW t, Alike(s, t), Len(s.stack) >= 3
    PROVE  Alike(handleCODECOPY(s), handleCODECOPY(t))
<1> DEFINE bytes == [i \in DOMAIN s.code |-> s.code[i].byte]
           u == PaidCopy(s)
           v == PaidCopy(t)
           x == memStore(u, Arg(s, 1), bytes, Arg(s, 2), Arg(s, 3), TRUE)
           y == memStore(v, Arg(s, 1), bytes, Arg(s, 2), Arg(s, 3), TRUE)
           range == Arg(s, 2) .. Arg(s, 2) + Arg(s, 3) - 1
           xReads == x.codeReads \union (IF Running(x) THEN range ELSE {})
           yReads == y.codeReads \union (IF Running(y) THEN range ELSE {})
<1>0. t.code = s.code /\ Typed(s)
  BY AlikeViews
<1>1. bytes \in NatSeq
  <2>1. DOMAIN s.code = 1 .. Len(s.code) /\ Len(s.code) \in Nat
    BY <1>0, LenProperties DEF Typed
  <2>2. bytes \in [1 .. Len(s.code) -> Nat]
    BY <1>0, <2>1, CellsAreNat
  <2> QED
    BY <2>1, <2>2, SeqDef DEF NatSeq
<1>2. /\ Alike(u, v)
      /\ Arg(s, 1) \in Nat /\ Arg(s, 2) \in Nat /\ Arg(s, 3) \in Nat
      /\ Arg(t, 1) = Arg(s, 1) /\ Arg(t, 2) = Arg(s, 2) /\ Arg(t, 3) = Arg(s, 3)
  BY PaidCopyAlike
<1>3. handleCODECOPY(s) = [x EXCEPT !.codeReads = xReads]
  BY DEF handleCODECOPY, PaidCopy
<1>4. handleCODECOPY(t) = [y EXCEPT !.codeReads = yReads]
  BY <1>0, <1>2 DEF handleCODECOPY, PaidCopy
<1> HIDE DEF bytes, u, v
<1>5. Alike(x, y)
  BY <1>1, <1>2, memStoreAlike
<1> HIDE DEF x, y, xReads, yReads
<1>6. Alike([x EXCEPT !.codeReads = xReads], [y EXCEPT !.codeReads = yReads])
  BY <1>5, AlikeSeen
<1> QED
  BY <1>3, <1>4, <1>6

\* Without return data nothing is copied.
LEMMA RETURNDATACOPYAlike ==
    ASSUME NEW s, NEW t, Alike(s, t), Len(s.stack) >= 3, s.returnValue = << >>
    PROVE  Alike(handleRETURNDATACOPY(s), handleRETURNDATACOPY(t))
<1> DEFINE u == PaidCopy(s)
           v == PaidCopy(t)
           p == Pop(s, 3)
           q == Pop(t, 3)
<1>1. t.returnValue = << >> /\ 3 \in 0 .. Len(s.stack)
  BY AlikeViews
<1>2. /\ Alike(u, v) /\ Arg(t, 2) = Arg(s, 2) /\ Arg(t, 3) = Arg(s, 3)
  BY PaidCopyAlike
<1>3. /\ memStore(u, Arg(s, 1), << >>, Arg(s, 2), Arg(s, 3), FALSE) = u
      /\ memStore(v, Arg(t, 1), << >>, Arg(t, 2), Arg(t, 3), FALSE) = v
  BY DEF memStore, Stored
<1>4. /\ handleRETURNDATACOPY(s) =
            IF Arg(s, 2) + Arg(s, 3) > Len(<< >>) THEN Throw(p, "out of gas") ELSE u
      /\ handleRETURNDATACOPY(t) =
            IF Arg(s, 2) + Arg(s, 3) > Len(<< >>) THEN Throw(q, "out of gas") ELSE v
  BY <1>1, <1>2, <1>3 DEF handleRETURNDATACOPY, PaidCopy
<1>5. Alike(p, q)
  BY <1>1, PopAlike
<1> HIDE DEF p, q, u, v
<1>6. Alike(Throw(p, "out of gas"), Throw(q, "out of gas"))
  BY <1>5, ThrowAlike
<1> QED
  BY <1>2, <1>4, <1>6

LEMMA MLOADAlike ==
    ASSUME NEW s, NEW t, Alike(s, t), Len(s.stack) >= 1
    PROVE  Alike(handleMLOAD(s), handleMLOAD(t))
<1> DEFINE offset == Arg(s, 1)
           p == Pop(s, 1)
           q == Pop(t, 1)
           bytes == Loaded(s, offset, WordBytes)
           word == FromBytes(bytes)
           u == memLoad(p, offset, WordBytes)
           v == memLoad(q, offset, WordBytes)
<1>0. /\ Len(s.stack) \in Nat /\ 1 \in 0 .. Len(s.stack) /\ 1 \in 1 .. Len(s.stack)
      /\ Typed(s) /\ WordBytes \in Nat
  BY AlikeViews, Sizes
<1>1. offset \in Nat /\ Arg(t, 1) = offset
  BY <1>0, ArgIsNat, ArgAlike
<1>2. Alike(p, q)
  BY <1>0, PopAlike
<1>3. Loaded(t, offset, WordBytes) = bytes /\ bytes \in NatSeq
  BY <1>0, <1>1, LoadedAlike, LoadedNumbers
<1>4. handleMLOAD(s) = Push(u, word) /\ handleMLOAD(t) = Push(v, word)
  BY <1>1, <1>3 DEF handleMLOAD
<1> HIDE DEF offset, p, q, bytes
<1>5. word \in Nat
  BY <1>3, FromBytesIsNat DEF NatSeq
<1>6. Alike(u, v)
  BY <1>0, <1>1, <1>2, memLoadAlike
<1> HIDE DEF word, u, v
<1>7. Alike(Push(u, word), Push(v, word))
  BY <1>5, <1>6, PushAlike
<1> QED
  BY <1>4, <1>7

LEMMA MSTOREAlike ==
    ASSUME NEW s, NEW t, Alike(s, t), Len(s.stack) >= 2
    PROVE  /\ Alike(handleMSTORE(s), handleMSTORE(t))
           /\ Alike(handleMSTORE8(s), handleMSTORE8(t))
<1> DEFINE offset == Arg(s, 1)
           value == Arg(s, 2)
           p == Pop(s, 2)
           q == Pop(t, 2)
           word == ToBytes(value)
           byte == <<value % ByteBase>>
<1>0. /\ Len(s.stack) \in Nat /\ 2 \in 0 .. Len(s.stack)
      /\ 1 \in 1 .. Len(s.stack) /\ 2 \in 1 .. Len(s.stack)
      /\ Typed(s) /\ WordBytes \in Nat /\ ByteBase \in Nat \ {0}
  BY AlikeViews, Sizes
<1>1. offset \in Nat /\ value \in Nat /\ Arg(t, 1) = offset /\ Arg(t, 2) = value
  BY <1>0, ArgIsNat, ArgAlike
<1>2. Alike(p, q)
  BY <1>0, PopAlike
<1>3. /\ handleMSTORE(s) = memStore(p, offset, word, 0, WordBytes, TRUE)
      /\ handleMSTORE(t) = memStore(q, offset, word, 0, WordBytes, TRUE)
      /\ handleMSTORE8(s) = memStore(p, offset, byte, 0, 1, TRUE)
      /\ handleMSTORE8(t) = memStore(q, offset, byte, 0, 1, TRUE)
  BY <1>1 DEF handleMSTORE, handleMSTORE8
<1> HIDE DEF offset, value, p, q
<1>4. word \in NatSeq
  BY <1>1, ToBytesAreNat DEF NatSeq
<1>5. byte \in NatSeq
  <2> DEFINE b == value % ByteBase
  <2>1. b \in Nat
    BY <1>0, <1>1, Division
  <2> HIDE DEF b
  <2>2. <<b>> \in Seq(Nat)
    BY <2>1
  <2> QED
    BY <2>2 DEF b, NatSeq
<1> HIDE DEF word, byte
<1>6. 0 \in Nat /\ 1 \in Nat
  OBVIOUS
<1>7. Alike(memStore(p, offset, word, 0, WordBytes, TRUE),
            memStore(q, offset, word, 0, WordBytes, TRUE))
  BY <1>0, <1>1, <1>2, <1>4, <1>6, memStoreAlike
<1>8. Alike(memStore(p, offset, byte, 0, 1, TRUE), memStore(q, offset, byte, 0, 1, TRUE))
  BY <1>1, <1>2, <1>5, <1>6, memStoreAlike
<1> QED
  BY <1>3, <1>7, <1>8

\* A jump, or a failure to jump, with the operands off the stack.
LEMMA PopContinueAlike ==
    ASSUME NEW s, NEW t, Alike(s, t), NEW n \in 0 .. Len(s.stack), NEW pc \in Nat
    PROVE  /\ Alike(Continue(Pop(s, n), pc), Continue(Pop(t, n), pc))
           /\ Alike(Throw(Pop(s, n), "invalid JUMP"), Throw(Pop(t, n), "invalid JUMP"))
<1> DEFINE p == Pop(s, n)
           q == Pop(t, n)
<1>1. Alike(p, q)
  BY PopAlike
<1> SUFFICES /\ Alike(Continue(p, pc), Continue(q, pc))
             /\ Alike(Throw(p, "invalid JUMP"), Throw(q, "invalid JUMP"))
  OBVIOUS
<1> HIDE DEF p, q
<1>2. Alike(Continue(p, pc), Continue(q, pc))
  <2> DEFINE a == p.codeReads \union {pc}
             b == q.codeReads \union {pc}
             u == [p EXCEPT !.programCounter = pc, !.codeReads = a]
             v == [q EXCEPT !.programCounter = pc, !.codeReads = b]
  <2>1. Continue(p, pc) = u /\ Continue(q, pc) = v
    BY DEF Continue
  <2> HIDE DEF a, b
  <2>2. Alike(u, v)
    BY <1>1, AlikeCounter
  <2> HIDE DEF u, v
  <2> QED
    BY <2>1, <2>2
<1>3. Alike(Throw(p, "invalid JUMP"), Throw(q, "invalid JUMP"))
  BY <1>1, ThrowAlike
<1> QED
  BY <1>2, <1>3

LEMMA JUMPAlike ==
    ASSUME NEW s, NEW t, Alike(s, t), Len(s.stack) >= 1
    PROVE  Alike(handleJUMP(s), handleJUMP(t))
<1>1. /\ 1 \in 0 .. Len(s.stack) /\ 1 \in 1 .. Len(s.stack)
      /\ Typed(s) /\ t.validJumps = s.validJumps
  BY AlikeViews
<1>2. Arg(s, 1) \in Nat /\ Arg(t, 1) = Arg(s, 1)
  BY <1>1, ArgIsNat, ArgAlike
<1>3. /\ Alike(Continue(Pop(s, 1), Arg(s, 1)), Continue(Pop(t, 1), Arg(s, 1)))
      /\ Alike(Throw(Pop(s, 1), "invalid JUMP"), Throw(Pop(t, 1), "invalid JUMP"))
  BY <1>1, <1>2, PopContinueAlike
<1>4. CASE Arg(s, 1) \in s.validJumps
  <2>1. /\ handleJUMP(s) = Continue(Pop(s, 1), Arg(s, 1))
        /\ handleJUMP(t) = Continue(Pop(t, 1), Arg(s, 1))
    BY <1>1, <1>2, <1>4 DEF handleJUMP
  <2> QED
    BY <1>3, <2>1
<1>5. CASE Arg(s, 1) \notin s.validJumps
  <2>1. /\ handleJUMP(s) = Throw(Pop(s, 1), "invalid JUMP")
        /\ handleJUMP(t) = Throw(Pop(t, 1), "invalid JUMP")
    BY <1>1, <1>2, <1>5 DEF handleJUMP
  <2> QED
    BY <1>3, <2>1
<1> QED
  BY <1>4, <1>5

LEMMA JUMPIAlike ==
    ASSUME NEW s, NEW t, Alike(s, t), Len(s.stack) >= 2
    PROVE  Alike(handleJUMPI(s), handleJUMPI(t))
<1> DEFINE p == Pop(s, 2)
           q == Pop(t, 2)
<1>1. /\ 2 \in 0 .. Len(s.stack) /\ 1 \in 1 .. Len(s.stack) /\ 2 \in 1 .. Len(s.stack)
      /\ Typed(s) /\ t.validJumps = s.validJumps
      /\ s.programCounter \in Nat /\ t.programCounter = s.programCounter
  BY AlikeViews DEF Typed
<1>2. Arg(s, 1) \in Nat /\ Arg(t, 1) = Arg(s, 1) /\ Arg(t, 2) = Arg(s, 2)
  BY <1>1, ArgIsNat, ArgAlike
<1>3. /\ Alike(Continue(p, Arg(s, 1)), Continue(q, Arg(s, 1)))
      /\ Alike(Continue(p, s.programCounter), Continue(q, s.programCounter))
      /\ Alike(Throw(p, "invalid JUMP"), Throw(q, "invalid JUMP"))
  BY <1>1, <1>2, PopContinueAlike
<1>4. CASE Arg(s, 2) = 0
  <2>1. /\ handleJUMPI(s) = Continue(p, s.programCounter)
        /\ handleJUMPI(t) = Continue(q, s.programCounter)
    BY <1>1, <1>2, <1>4 DEF handleJUMPI
  <2> HIDE DEF p, q
  <2> QED
    BY <1>3, <2>1
<1>5. CASE Arg(s, 2) # 0 /\ Arg(s, 1) \in s.validJumps
  <2>1. /\ handleJUMPI(s) = Continue(p, Arg(s, 1))
        /\ handleJUMPI(t) = Continue(q, Arg(s, 1))
    BY <1>1, <1>2, <1>5 DEF handleJUMPI
  <2> HIDE DEF p, q
  <2> QED
    BY <1>3, <2>1
<1>6. CASE Arg(s, 2) # 0 /\ Arg(s, 1) \notin s.validJumps
  <2>1. /\ handleJUMPI(s) = Throw(p, "invalid JUMP")
        /\ handleJUMPI(t) = Throw(q, "invalid JUMP")
    BY <1>1, <1>2, <1>6 DEF handleJUMPI
  <2> HIDE DEF p, q
  <2> QED
    BY <1>3, <2>1
<1> QED
  BY <1>4, <1>5, <1>6

LEMMA PUSHAlike ==
    ASSUME NEW s, NEW t, Alike(s, t), NEW n \in Nat
    PROVE  Alike(handlePUSH(s, n), handlePUSH(t, n))
<1> DEFINE from == s.programCounter
           bytes == [i \in 1 .. n |->
                        IF from + i \in DOMAIN s.code THEN s.code[from + i].byte ELSE 0]
           word == FromBytes(bytes)
           p == Push(s, word)
           q == Push(t, word)
           a == p.codeReads \union from .. from + n - 1
           b == q.codeReads \union from .. from + n - 1
           to == from + n
<1>1. t.code = s.code /\ t.programCounter = from /\ Typed(s)
  BY AlikeViews
<1>2. bytes \in NatSeq
  <2>1. bytes \in [1 .. n -> Nat]
    BY <1>1, CellsAreNat
  <2> QED
    BY <2>1, SeqDef DEF NatSeq
<1>3. handlePUSH(s, n) = [p EXCEPT !.programCounter = to, !.codeReads = a]
  BY DEF handlePUSH
<1>4. handlePUSH(t, n) = [q EXCEPT !.programCounter = to, !.codeReads = b]
  BY <1>1 DEF handlePUSH
<1>5. to \in Nat
  BY <1>1 DEF Typed
<1> HIDE DEF bytes, to
<1>6. word \in Nat
  BY <1>2, FromBytesIsNat DEF NatSeq
<1> HIDE DEF word
<1>7. Alike(p, q)
  BY <1>6, PushAlike
<1> HIDE DEF p, q, a, b
<1>8. Alike([p EXCEPT !.programCounter = to, !.codeReads = a],
            [q EXCEPT !.programCounter = to, !.codeReads = b])
  BY <1>5, <1>7, AlikeCounter
<1> QED
  BY <1>3, <1>4, <1>8

LEMMA DUPAlike ==
    ASSUME NEW s, NEW t, Alike(s, t), NEW n \in Nat \ {0}
    PROVE  Alike(handleDUP(s, n), handleDUP(t, n))
<1>1. Len(s.stack) \in Nat /\ t.stack = s.stack /\ Typed(s) /\ Arg(t, n) = Arg(s, n)
  BY AlikeViews, ArgAlike
<1>2. CASE n > Len(s.stack)
  BY <1>1, <1>2, ThrowAlike DEF handleDUP
<1>3. CASE ~(n > Len(s.stack))
  <2>1. Arg(s, n) \in Nat
    BY <1>1, <1>3, ArgIsNat
  <2>2. Alike(Push(s, Arg(s, n)), Push(t, Arg(s, n)))
    BY <2>1, PushAlike
  <2> QED
    BY <1>1, <1>3, <2>2 DEF handleDUP
<1> QED
  BY <1>2, <1>3

LEMMA SWAPAlike ==
    ASSUME NEW s, NEW t, Alike(s, t), NEW n \in Nat \ {0}
    PROVE  Alike(handleSWAP(s, n), handleSWAP(t, n))
<1> DEFINE top == Len(s.stack)
           swap == top - n
           swapped == [s.stack EXCEPT ![top] = s.stack[swap], ![swap] = s.stack[top]]
<1>1. top \in Nat /\ t.stack = s.stack /\ Typed(s) /\ Typed(t)
  BY AlikeViews
<1>2. CASE swap < 1
  BY <1>1, <1>2, ThrowAlike DEF handleSWAP
<1>3. CASE ~(swap < 1)
  <2>1. top \in 1 .. top /\ swap \in 1 .. top /\ swap # top
    BY <1>1, <1>3
  <2>2. s.stack \in [1 .. top -> Nat]
    BY <1>1, LenProperties DEF Typed, NatSeq
  <2>3. swapped \in [1 .. top -> Nat]
    <3> HIDE DEF top, swap
    <3> QED
      BY <2>1, <2>2
  <2>4. swapped \in NatSeq
    BY <1>1, <2>3, SeqDef DEF NatSeq
  <2>5. handleSWAP(s, n) = [s EXCEPT !.stack = swapped]
    BY <1>1, <1>3 DEF handleSWAP, Typed, IsRun, Fields
  <2>6. handleSWAP(t, n) = [t EXCEPT !.stack = swapped]
    BY <1>1, <1>3 DEF handleSWAP, Typed, IsRun, Fields
  <2> HIDE DEF swapped
  <2>7. Alike([s EXCEPT !.stack = swapped], [t EXCEPT !.stack = swapped])
    BY <2>4, AlikeStack
  <2> QED
    BY <2>5, <2>6, <2>7
<1> QED
  BY <1>2, <1>3

LEMMA ReturnAlike ==
    ASSUME NEW s, NEW t, Alike(s, t), Len(s.stack) >= 2
    PROVE  Alike(Return(s), Return(t))
<1> DEFINE offset == Arg(s, 1)
           length == Arg(s, 2)
           p == Pop(s, 2)
           q == Pop(t, 2)
           bytes == Loaded(s, offset, length)
           u == memLoad(p, offset, length)
           v == memLoad(q, offset, length)
<1>0. /\ Len(s.stack) \in Nat /\ 2 \in 0 .. Len(s.stack) /\ Typed(s)
      /\ 1 \in 1 .. Len(s.stack) /\ 2 \in 1 .. Len(s.stack)
  BY AlikeViews
<1>1. offset \in Nat /\ length \in Nat /\ Arg(t, 1) = offset /\ Arg(t, 2) = length
  BY <1>0, ArgIsNat, ArgAlike
<1>2. Alike(p, q)
  BY <1>0, PopAlike
<1>3. Loaded(t, offset, length) = bytes /\ bytes \in NatSeq
  BY <1>0, <1>1, LoadedAlike, LoadedNumbers
<1>4. /\ Return(s) = IF Running(u) THEN [u EXCEPT !.returnValue = bytes] ELSE u
      /\ Return(t) = IF Running(v) THEN [v EXCEPT !.returnValue = bytes] ELSE v
  BY <1>1, <1>3 DEF Return
<1> HIDE DEF offset, length, p, q, bytes
<1>5. Alike(u, v)
  BY <1>1, <1>2, memLoadAlike
<1> HIDE DEF u, v
<1>6. Running(v) <=> Running(u)
  BY <1>5, AlikeRuns
<1> DEFINE x == [u EXCEPT !.returnValue = bytes]
           y == [v EXCEPT !.returnValue = bytes]
<1>7. Alike(x, y)
  BY <1>3, <1>5, AlikeReturn
<1>8. (Return(s) = x /\ Return(t) = y) \/ (Return(s) = u /\ Return(t) = v)
  BY <1>4, <1>6
<1> HIDE DEF x, y
<1> QED
  BY <1>5, <1>7, <1>8

LEMMA RETURNAlike ==
    ASSUME NEW s, NEW t, Alike(s, t), Len(s.stack) >= 2
    PROVE  /\ Alike(handleRETURN(s), handleRETURN(t))
           /\ Alike(handleREVERT(s), handleREVERT(t))
<1> DEFINE u == Return(s)
           v == Return(t)
<1>1. Alike(u, v)
  BY ReturnAlike
<1>2. /\ handleRETURN(s) = [u EXCEPT !.stopped = TRUE] /\ handleREVERT(s) = Throw(u, "revert")
      /\ handleRETURN(t) = [v EXCEPT !.stopped = TRUE] /\ handleREVERT(t) = Throw(v, "revert")
  BY DEF handleRETURN, handleREVERT
<1> HIDE DEF u, v
<1>3. /\ Alike([u EXCEPT !.stopped = TRUE], [v EXCEPT !.stopped = TRUE])
      /\ Alike(Throw(u, "revert"), Throw(v, "revert"))
  BY <1>1, AlikeStopped, ThrowAlike
<1> QED
  BY <1>2, <1>3

LEMMA AnsweredAlike ==
    ASSUME NEW s, NEW t, Alike(s, t), NEW r, r.exception \in Nat, r.gasUsed \in Nat,
           r.returnValue \in NatSeq, NEW outOffset \in Nat, NEW outLength \in Nat
    PROVE  Alike(Answered(s, r, outOffset, outLength), Answered(t, r, outOffset, outLength))
<1> DEFINE p == Push(s, r.exception)
           q == Push(t, r.exception)
           u == [p EXCEPT !.returnValue = r.returnValue]
           v == [q EXCEPT !.returnValue = r.returnValue]
           x == subGas(u, r.gasUsed)
           y == subGas(v, r.gasUsed)
<1>1. Alike(p, q)
  BY PushAlike
<1>2. /\ Answered(s, r, outOffset, outLength) =
            memStore(x, outOffset, r.returnValue, 0, outLength, TRUE)
      /\ Answered(t, r, outOffset, outLength) =
            memStore(y, outOffset, r.returnValue, 0, outLength, TRUE)
  BY DEF Answered
<1> HIDE DEF p, q
<1>3. Alike(u, v)
  BY <1>1, AlikeReturn
<1> HIDE DEF u, v
<1>4. Alike(x, y)
  BY <1>3, subGasAlike
<1> HIDE DEF x, y
<1>5. 0 \in Nat
  OBVIOUS
<1>6. Alike(memStore(x, outOffset, r.returnValue, 0, outLength, TRUE),
            memStore(y, outOffset, r.returnValue, 0, outLength, TRUE))
  BY <1>4, <1>5, memStoreAlike
<1> QED
  BY <1>2, <1>6

LEMMA PrecompileAlike ==
    ASSUME NEW s, NEW t, Alike(s, t), NEW toAddress, NEW gasLimit \in Nat, NEW data \in NatSeq,
           NEW outOffset \in Nat, NEW outLength \in Nat
    PROVE  Alike(CallPrecompile(s, toAddress, gasLimit, data, outOffset, outLength),
                 CallPrecompile(t, toAddress, gasLimit, data, outOffset, outLength))
<1> DEFINE limit == Min({gasLimit, s.gasLeft})
           r == Identity(limit, data)
           u == CallPrecompile(s, toAddress, gasLimit, data, outOffset, outLength)
           v == CallPrecompile(t, toAddress, gasLimit, data, outOffset, outLength)
<1>0. s.gasLeft \in Nat /\ t.gasLeft = s.gasLeft /\ (Running(t) <=> Running(s))
  BY AlikeRuns, AlikeViews
<1>1. limit \in Nat
  BY <1>0, SmallerOfTwo
<1>2. CASE ~Running(s)
  BY <1>0, <1>2 DEF CallPrecompile
<1>3. CASE Running(s) /\ toAddress = 0
  <2>1. u = Throw(s, "internal error") /\ v = Throw(t, "internal error")
    BY <1>0, <1>3 DEF CallPrecompile
  <2>2. Alike(Throw(s, "internal error"), Throw(t, "internal error"))
    BY ThrowAlike
  <2> QED
    BY <2>1, <2>2
<1>4. CASE Running(s) /\ toAddress # 0
  <2>1. u = Answered(s, r, outOffset, outLength) /\ v = Answered(t, r, outOffset, outLength)
    BY <1>0, <1>4 DEF CallPrecompile
  <2> HIDE DEF limit
  <2>2. r.exception \in Nat /\ r.gasUsed \in Nat /\ r.returnValue \in NatSeq
    BY <1>1, IdentityAnswers
  <2> HIDE DEF r, u, v
  <2>3. Alike(Answered(s, r, outOffset, outLength), Answered(t, r, outOffset, outLength))
    BY <2>2, AnsweredAlike
  <2> QED
    BY <2>1, <2>3 DEF u, v
<1> QED
  BY <1>2, <1>3, <1>4

LEMMA CallNobodyAlike ==
    ASSUME NEW s, NEW t, Alike(s, t)
    PROVE  Alike(CallNobody(s), CallNobody(t))
<1> DEFINE q == Append(DropSix(s.stack), 0)
           u == [s EXCEPT !.returnValue = << >>, !.stack = q]
           v == [t EXCEPT !.returnValue = << >>, !.stack = q]
<1>1. t.stack = s.stack /\ s.stack \in NatSeq /\ (Running(t) <=> Running(s))
  BY AlikeViews, AlikeRuns DEF Typed
<1>2. q \in NatSeq
  <2>1. DropSix(s.stack) \in NatSeq
    BY <1>1, DropSixNumbers
  <2> QED
    BY <2>1, AppendNumber
<1>3. CASE ~Running(s)
  BY <1>1, <1>3 DEF CallNobody
<1>4. CASE Running(s)
  <2>1. /\ CallNobody(s) = Throw(u, "instruction not supported")
        /\ CallNobody(t) = Throw(v, "instruction not supported")
    BY <1>1, <1>4 DEF CallNobody
  <2> HIDE DEF q
  <2>2. Alike(u, v)
    <3> DEFINE a == [s EXCEPT !.returnValue = << >>]
               b == [t EXCEPT !.returnValue = << >>]
    <3>1. Alike(a, b)
      BY EmptyNumbers, AlikeReturn
    <3>2. u = [a EXCEPT !.stack = q] /\ v = [b EXCEPT !.stack = q]
      OBVIOUS
    <3> HIDE DEF a, b, u, v
    <3> DEFINE x == [a EXCEPT !.stack = q]
               y == [b EXCEPT !.stack = q]
    <3>3. Alike(x, y)
      BY <1>2, <3>1, AlikeStack
    <3>4. u = x /\ v = y
      BY <3>2
    <3> HIDE DEF x, y
    <3> QED
      BY <3>3, <3>4
  <2> HIDE DEF u, v
  <2>3. Alike(Throw(u, "instruction not supported"), Throw(v, "instruction not supported"))
    BY <2>2, ThrowAlike
  <2> QED
    BY <2>1, <2>3
<1> QED
  BY <1>3, <1>4

LEMMA STATICCALLAlike ==
    ASSUME NEW s, NEW t, Alike(s, t), Len(s.stack) >= 6
    PROVE  Alike(handleSTATICCALL(s), handleSTATICCALL(t))
<1> DEFINE p == Pop(s, 6)
           q == Pop(t, 6)
           bytes == Loaded(s, Arg(s, 3), Arg(s, 4))
           u == memLoad(p, Arg(s, 3), Arg(s, 4))
           v == memLoad(q, Arg(s, 3), Arg(s, 4))
           x == subMemUsage(u, Arg(s, 5), Arg(s, 6))
           y == subMemUsage(v, Arg(s, 5), Arg(s, 6))
           call(z) == CallPrecompile(z, Arg(s, 2), Arg(s, 1), bytes, Arg(s, 5), Arg(s, 6))
<1>0. Len(s.stack) \in Nat /\ 6 \in 0 .. Len(s.stack) /\ Typed(s)
  BY AlikeViews
<1>1. \A i \in 1 .. 6 : Arg(s, i) \in Nat /\ Arg(t, i) = Arg(s, i)
  <2> TAKE i \in 1 .. 6
  <2>1. i \in 1 .. Len(s.stack)
    BY <1>0
  <2> QED
    BY <1>0, <2>1, ArgIsNat, ArgAlike
<1>2. /\ Arg(s, 1) \in Nat /\ Arg(s, 3) \in Nat /\ Arg(s, 4) \in Nat
      /\ Arg(s, 5) \in Nat /\ Arg(s, 6) \in Nat
      /\ Arg(t, 1) = Arg(s, 1) /\ Arg(t, 2) = Arg(s, 2) /\ Arg(t, 3) = Arg(s, 3)
      /\ Arg(t, 4) = Arg(s, 4) /\ Arg(t, 5) = Arg(s, 5) /\ Arg(t, 6) = Arg(s, 6)
  BY <1>1
<1>3. Alike(p, q)
  BY <1>0, PopAlike
<1>4. Loaded(t, Arg(s, 3), Arg(s, 4)) = bytes /\ bytes \in NatSeq
  BY <1>0, <1>2, LoadedAlike, LoadedNumbers
<1>5. handleSTATICCALL(s) = IF Arg(s, 2) \in {0, 4} THEN call(x) ELSE CallNobody(u)
  BY DEF handleSTATICCALL
<1>6. handleSTATICCALL(t) = IF Arg(s, 2) \in {0, 4} THEN call(y) ELSE CallNobody(v)
  BY <1>2, <1>4 DEF handleSTATICCALL
<1> HIDE DEF p, q, bytes
<1>7. Alike(u, v)
  BY <1>2, <1>3, memLoadAlike
<1> HIDE DEF u, v
<1>8. Alike(x, y)
  BY <1>2, <1>7, subMemUsageAlike
<1> HIDE DEF x, y
<1>9. Alike(call(x), call(y))
  BY <1>2, <1>4, <1>8, PrecompileAlike
<1>10. Alike(CallNobody(u), CallNobody(v))
  BY <1>7, CallNobodyAlike
<1> HIDE DEF call
<1>11. CASE Arg(s, 2) \in {0, 4}
  <2>1. handleSTATICCALL(s) = call(x) /\ handleSTATICCALL(t) = call(y)
    BY <1>5, <1>6, <1>11
  <2> QED
    BY <1>9, <2>1
<1>12. CASE Arg(s, 2) \notin {0, 4}
  <2>1. handleSTATICCALL(s) = CallNobody(u) /\ handleSTATICCALL(t) = CallNobody(v)
    BY <1>5, <1>6, <1>12
  <2> QED
    BY <1>10, <2>1
<1> QED
  BY <1>11, <1>12

-----------------------------------------------------------------------------
\* One instruction, one step.

LEMMA PushedAlike ==
    ASSUME NEW s, NEW t, Alike(s, t), s.programCounter # 0, NEW cell \in CodeCell,
           Len(s.stack) >= OPCODES(cell.op, cell.n)[2],
           cell.op \in Unary \union Binary \union Ternary \union Environment
    PROVE  Alike(Handle(s, cell), Handle(t, cell))
<1>0. /\ Len(s.stack) \in Nat /\ cell.n \in Nat /\ Typed(s) /\ Typed(t)
      /\ t.stack = s.stack
  BY AlikeViews DEF CodeCell
<1>a. \A i : Arg(t, i) = Arg(s, i)
  BY ArgAlike
<1>1. CASE cell.op \in Unary
  <2> DEFINE value == UnaryValue(s, cell.op, Arg(s, 1))
  <2>1. UnaryValue(t, cell.op, Arg(t, 1)) = value
    <3>1. handleCALLDATALOAD(t, Arg(s, 1)) = handleCALLDATALOAD(s, Arg(s, 1))
      BY AlikeViews DEF handleCALLDATALOAD
    <3> QED
      BY <1>1, <1>a, <3>1 DEF Unary, UnaryValue
  <2>2. /\ Handle(s, cell) = Push(Pop(s, 1), value)
        /\ Handle(t, cell) = Push(Pop(t, 1), UnaryValue(t, cell.op, Arg(t, 1)))
    BY <1>1 DEF Handle, Unary, Binary, Ternary, Environment, Unsupported
  <2>3. 1 \in 0 .. Len(s.stack) /\ Arg(s, 1) \in Nat
    BY <1>0, <1>1, OpcodesPop, ArgIsNat
  <2>4. value \in Nat
    BY <1>0, <1>1, <2>3, UnaryIsNat
  <2> HIDE DEF value
  <2>5. Alike(Push(Pop(s, 1), value), Push(Pop(t, 1), value))
    BY <2>3, <2>4, PopPushAlike
  <2> QED
    BY <2>1, <2>2, <2>5
<1>2. CASE cell.op \in Binary
  <2> DEFINE value == BinaryValue(cell.op, Arg(s, 1), Arg(s, 2))
  <2>2. /\ Handle(s, cell) = Push(Pop(s, 2), value)
        /\ Handle(t, cell) = Push(Pop(t, 2), BinaryValue(cell.op, Arg(t, 1), Arg(t, 2)))
    BY <1>2 DEF Handle, Unary, Binary, Ternary, Environment, Unsupported
  <2>3. 2 \in 0 .. Len(s.stack) /\ Arg(s, 1) \in Nat /\ Arg(s, 2) \in Nat
    BY <1>0, <1>2, OpcodesPop, ArgIsNat
  <2>4. value \in Nat
    BY <1>2, <2>3, BinaryIsNat
  <2>5. Handle(t, cell) = Push(Pop(t, 2), value)
    BY <1>a, <2>2
  <2> HIDE DEF value
  <2>6. Alike(Push(Pop(s, 2), value), Push(Pop(t, 2), value))
    BY <2>3, <2>4, PopPushAlike
  <2> QED
    BY <2>2, <2>5, <2>6
<1>3. CASE cell.op \in Ternary
  <2> DEFINE value == TernaryValue(cell.op, Arg(s, 1), Arg(s, 2), Arg(s, 3))
  <2>2. /\ Handle(s, cell) = Push(Pop(s, 3), value)
        /\ Handle(t, cell) =
              Push(Pop(t, 3), TernaryValue(cell.op, Arg(t, 1), Arg(t, 2), Arg(t, 3)))
    BY <1>3 DEF Handle, Unary, Binary, Ternary, Environment, Unsupported
  <2>3. /\ 3 \in 0 .. Len(s.stack)
        /\ Arg(s, 1) \in Nat /\ Arg(s, 2) \in Nat /\ Arg(s, 3) \in Nat
    BY <1>0, <1>3, OpcodesPop, ArgIsNat
  <2>4. value \in Nat
    BY <2>3, TernaryIsNat
  <2>5. Handle(t, cell) = Push(Pop(t, 3), value)
    BY <1>a, <2>2
  <2> HIDE DEF value
  <2>6. Alike(Push(Pop(s, 3), value), Push(Pop(t, 3), value))
    BY <2>3, <2>4, PopPushAlike
  <2> QED
    BY <2>2, <2>5, <2>6
<1>4. CASE cell.op \in Environment
  <2> DEFINE value == EnvironmentValue(s, cell.op)
  <2>1. EnvironmentValue(t, cell.op) = value
    BY <1>4, AlikeViews DEF EnvironmentValue, Environment
  <2>2. /\ Handle(s, cell) = Push(s, value)
        /\ Handle(t, cell) = Push(t, EnvironmentValue(t, cell.op))
    BY <1>4 DEF Handle, Unary, Binary, Ternary, Environment, Unsupported
  <2>3. value \in Nat
    BY <1>0, <1>4, EnvironmentIsNat
  <2> HIDE DEF value
  <2>4. Alike(Push(s, value), Push(t, value))
    BY <2>3, PushAlike
  <2> QED
    BY <2>1, <2>2, <2>4
<1> QED
  BY <1>1, <1>2, <1>3, <1>4

LEMMA FailingAlike ==
    ASSUME NEW s, NEW t, Alike(s, t), NEW cell \in CodeCell,
           cell.op \in Unsupported \union {"INVALID"}
    PROVE  Alike(Handle(s, cell), Handle(t, cell))
<1> DEFINE e == IF cell.op = "INVALID" THEN "invalid opcode" ELSE "instruction not supported"
<1>1. Handle(s, cell) = Throw(s, e) /\ Handle(t, cell) = Throw(t, e)
  BY DEF Handle, Unary, Binary, Ternary, Environment, Unsupported
<1> HIDE DEF e
<1>2. Alike(Throw(s, e), Throw(t, e))
  BY ThrowAlike
<1> QED
  BY <1>1, <1>2

LEMMA HandlerAlike ==
    ASSUME KeccakReturnsNumbers, NEW s, NEW t, Alike(s, t), s.returnValue = << >>,
           NEW cell \in CodeCell, cell.op \in Handlers \union {"STATICCALL"},
           Len(s.stack) >= OPCODES(cell.op, cell.n)[2]
    PROVE  Alike(Handle(s, cell), Handle(t, cell))
<1> USE DEF Unary, Binary, Ternary, Environment, Unsupported
<1>0. Len(s.stack) \in Nat /\ cell.n \in Nat
  BY AlikeViews DEF CodeCell
<1>1. CASE cell.op = "EXP"
  <2>1. Handle(s, cell) = handleEXP(s) /\ Handle(t, cell) = handleEXP(t) /\ Len(s.stack) >= 2
    BY <1>1 DEF Handle, OPCODES
  <2> QED
    BY <2>1, EXPAlike
<1>2. CASE cell.op = "SHA3"
  <2>1. Handle(s, cell) = handleSHA3(s) /\ Handle(t, cell) = handleSHA3(t) /\ Len(s.stack) >= 2
    BY <1>2 DEF Handle, OPCODES
  <2> QED
    BY <2>1, SHA3Alike
<1>3. CASE cell.op = "CALLDATACOPY"
  <2>1. /\ Handle(s, cell) = handleCALLDATACOPY(s) /\ Handle(t, cell) = handleCALLDATACOPY(t)
        /\ Len(s.stack) >= 3
    BY <1>3 DEF Handle, OPCODES
  <2> QED
    BY <2>1, CALLDATACOPYAlike
<1>4. CASE cell.op = "CODECOPY"
  <2>1. /\ Handle(s, cell) = handleCODECOPY(s) /\ Handle(t, cell) = handleCODECOPY(t)
        /\ Len(s.stack) >= 3
    BY <1>4 DEF Handle, OPCODES
  <2> QED
    BY <2>1, CODECOPYAlike
<1>5. CASE cell.op = "RETURNDATACOPY"
  <2>1. /\ Handle(s, cell) = handleRETURNDATACOPY(s)
        /\ Handle(t, cell) = handleRETURNDATACOPY(t) /\ Len(s.stack) >= 3
    BY <1>5 DEF Handle, OPCODES
  <2> QED
    BY <2>1, RETURNDATACOPYAlike
<1>6. CASE cell.op = "MLOAD"
  <2>1. Handle(s, cell) = handleMLOAD(s) /\ Handle(t, cell) = handleMLOAD(t) /\ Len(s.stack) >= 1
    BY <1>6 DEF Handle, OPCODES
  <2> QED
    BY <2>1, MLOADAlike
<1>7. CASE cell.op = "MSTORE"
  <2>1. /\ Handle(s, cell) = handleMSTORE(s) /\ Handle(t, cell) = handleMSTORE(t)
        /\ Len(s.stack) >= 2
    BY <1>7 DEF Handle, OPCODES
  <2> QED
    BY <2>1, MSTOREAlike
<1>8. CASE cell.op = "MSTORE8"
  <2>1. /\ Handle(s, cell) = handleMSTORE8(s) /\ Handle(t, cell) = handleMSTORE8(t)
        /\ Len(s.stack) >= 2
    BY <1>8 DEF Handle, OPCODES
  <2> QED
    BY <2>1, MSTOREAlike
<1>9. CASE cell.op = "JUMP"
  <2>1. Handle(s, cell) = handleJUMP(s) /\ Handle(t, cell) = handleJUMP(t) /\ Len(s.stack) >= 1
    BY <1>9 DEF Handle, OPCODES
  <2> QED
    BY <2>1, JUMPAlike
<1>10. CASE cell.op = "JUMPI"
  <2>1. Handle(s, cell) = handleJUMPI(s) /\ Handle(t, cell) = handleJUMPI(t) /\ Len(s.stack) >= 2
    BY <1>10 DEF Handle, OPCODES
  <2> QED
    BY <2>1, JUMPIAlike
<1>11. CASE cell.op = "RETURN"
  <2>1. /\ Handle(s, cell) = handleRETURN(s) /\ Handle(t, cell) = handleRETURN(t)
        /\ Len(s.stack) >= 2
    BY <1>11 DEF Handle, OPCODES
  <2> QED
    BY <2>1, RETURNAlike
<1>12. CASE cell.op = "REVERT"
  <2>1. /\ Handle(s, cell) = handleREVERT(s) /\ Handle(t, cell) = handleREVERT(t)
        /\ Len(s.stack) >= 2
    BY <1>12 DEF Handle, OPCODES
  <2> QED
    BY <2>1, RETURNAlike
<1>13. CASE cell.op = "STATICCALL"
  <2>1. /\ Handle(s, cell) = handleSTATICCALL(s) /\ Handle(t, cell) = handleSTATICCALL(t)
        /\ Len(s.stack) >= 6
    BY <1>13 DEF Handle, OPCODES
  <2> QED
    BY <2>1, STATICCALLAlike
<1>14. CASE cell.op = "POP"
  <2>1. Handle(s, cell) = Pop(s, 1) /\ Handle(t, cell) = Pop(t, 1) /\ 1 \in 0 .. Len(s.stack)
    BY <1>0, <1>14 DEF Handle, OPCODES
  <2> QED
    BY <2>1, PopAlike
<1>15. CASE cell.op = "PUSH"
  <2>1. Handle(s, cell) = handlePUSH(s, cell.n) /\ Handle(t, cell) = handlePUSH(t, cell.n)
    BY <1>15 DEF Handle
  <2> QED
    BY <1>0, <2>1, PUSHAlike
<1>16. CASE cell.op = "DUP"
  <2>1. /\ Handle(s, cell) = handleDUP(s, cell.n) /\ Handle(t, cell) = handleDUP(t, cell.n)
        /\ cell.n \in Nat \ {0}
    BY <1>0, <1>16 DEF Handle, CodeCell
  <2> QED
    BY <2>1, DUPAlike
<1>17. CASE cell.op = "SWAP"
  <2>1. /\ Handle(s, cell) = handleSWAP(s, cell.n) /\ Handle(t, cell) = handleSWAP(t, cell.n)
        /\ cell.n \in Nat \ {0}
    BY <1>0, <1>17 DEF Handle, CodeCell
  <2> QED
    BY <2>1, SWAPAlike
<1>18. CASE cell.op = "JUMPDEST"
  BY <1>18 DEF Handle
<1>19. CASE cell.op = "STOP"
  <2>1. /\ Handle(s, cell) = [s EXCEPT !.stopped = TRUE]
        /\ Handle(t, cell) = [t EXCEPT !.stopped = TRUE]
    BY <1>19 DEF Handle
  <2>2. Alike([s EXCEPT !.stopped = TRUE], [t EXCEPT !.stopped = TRUE])
    BY AlikeStopped
  <2> QED
    BY <2>1, <2>2
<1> QED
  BY <1>1, <1>2, <1>3, <1>4, <1>5, <1>6, <1>7, <1>8, <1>9, <1>10,
     <1>11, <1>12, <1>13, <1>14, <1>15, <1>16, <1>17, <1>18, <1>19 DEF Handlers

LEMMA HandleAlike ==
    ASSUME KeccakReturnsNumbers, NEW s, NEW t, Alike(s, t), s.returnValue = << >>,
           s.programCounter # 0, NEW cell \in CodeCell,
           Len(s.stack) >= OPCODES(cell.op, cell.n)[2]
    PROVE  Alike(Handle(s, cell), Handle(t, cell))
<1>1. CASE cell.op \in Unary \union Binary \union Ternary \union Environment
  BY <1>1, PushedAlike
<1>2. CASE cell.op \in Unsupported \union {"INVALID"}
  BY <1>2, FailingAlike
<1>3. CASE cell.op \in Handlers \union {"STATICCALL"}
  BY <1>3, HandlerAlike
<1>4. cell.op \in Instructions
  BY DEF CodeCell
<1> QED
  BY <1>1, <1>2, <1>3, <1>4 DEF Instructions, Handlers

LEMMA ChargedAlike ==
    ASSUME NEW s, NEW t, Alike(s, t), NEW info, info[1] \in Nat
    PROVE  Alike(Charged(s, info), Charged(t, info))
<1>1. t.stack = s.stack
  BY AlikeViews
<1>2. CASE Len(s.stack) < info[2]
  <2>1. /\ Charged(s, info) = Throw(s, "stack underflow")
        /\ Charged(t, info) = Throw(t, "stack underflow")
    BY <1>1, <1>2 DEF Charged
  <2>2. Alike(Throw(s, "stack underflow"), Throw(t, "stack underflow"))
    BY ThrowAlike
  <2> QED
    BY <2>1, <2>2
<1>3. CASE ~(Len(s.stack) < info[2]) /\ Len(s.stack) - info[2] + info[3] > MaxStack
  <2>1. /\ Charged(s, info) = Throw(s, "stack overflow")
        /\ Charged(t, info) = Throw(t, "stack overflow")
    BY <1>1, <1>3 DEF Charged
  <2>2. Alike(Throw(s, "stack overflow"), Throw(t, "stack overflow"))
    BY ThrowAlike
  <2> QED
    BY <2>1, <2>2
<1>4. CASE ~(Len(s.stack) < info[2]) /\ ~(Len(s.stack) - info[2] + info[3] > MaxStack)
  <2>1. Charged(s, info) = subGas(s, info[1]) /\ Charged(t, info) = subGas(t, info[1])
    BY <1>1, <1>4 DEF Charged
  <2>2. Alike(subGas(s, info[1]), subGas(t, info[1]))
    BY subGasAlike
  <2> QED
    BY <2>1, <2>2
<1> QED
  BY <1>2, <1>3, <1>4

LEMMA WithinMemoryAlike ==
    ASSUME NEW s, NEW t, Alike(s, t)
    PROVE  Alike(WithinMemory(s), WithinMemory(t))
<1>1. t.memoryWordCount = s.memoryWordCount
  BY AlikeViews
<1>2. CASE s.memoryWordCount > MaxMemWords
  <2>1. /\ WithinMemory(s) = [s EXCEPT !.error = "internal error"]
        /\ WithinMemory(t) = [t EXCEPT !.error = "internal error"]
    BY <1>1, <1>2 DEF WithinMemory
  <2>2. Alike([s EXCEPT !.error = "internal error"], [t EXCEPT !.error = "internal error"])
    BY AlikeError
  <2> QED
    BY <2>1, <2>2
<1>3. CASE ~(s.memoryWordCount > MaxMemWords)
  BY <1>1, <1>3 DEF WithinMemory
<1> QED
  BY <1>2, <1>3

\* Nothing before the handler changes the return value.
LEMMA ChargedReturn ==
    ASSUME NEW s, Typed(s), NEW info
    PROVE  Charged(s, info).returnValue = s.returnValue
BY DEF Charged, subGas, Throw, Typed, IsRun, Fields

LEMMA StepAlike ==
    ASSUME KeccakReturnsNumbers, NEW s, NEW t, Alike(s, t), s.returnValue = << >>,
           s.programCounter < Len(s.code)
    PROVE  Alike(runNextStep(s), runNextStep(t))
<1> DEFINE cell == s.code[s.programCounter + 1]
           info == OPCODES(cell.op, cell.n)
           a == s.codeReads \union {s.programCounter}
           b == t.codeReads \union {s.programCounter}
           f == [s EXCEPT !.codeReads = a]
           g == [t EXCEPT !.codeReads = b]
           p == Charged(f, info)
           q == Charged(g, info)
           x == Handled(p, cell)
           y == Handled(q, cell)
<1>0. /\ Typed(s) /\ Typed(t) /\ t.code = s.code /\ t.programCounter = s.programCounter
  BY AlikeViews
<1>1. cell \in CodeCell
  <2>1. s.programCounter + 1 \in 1 .. Len(s.code)
    BY <1>0, LenProperties DEF Typed
  <2> QED
    BY <1>0, <2>1, ElementOfSeq DEF Typed
<1>2. runNextStep(s) = WithinMemory(x)
  BY DEF runNextStep
<1>3. runNextStep(t) = WithinMemory(y)
  BY <1>0 DEF runNextStep
<1>4. info[1] \in Nat
  BY <1>1, OpcodesCost DEF CodeCell
<1>5. f.returnValue = << >>
  BY <1>0 DEF Typed, IsRun, Fields
<1> HIDE DEF a, b
<1>6. Alike(f, g)
  BY AlikeSeen
<1> HIDE DEF cell, f, g
<1>7. Typed(f) /\ p.returnValue = << >>
  BY <1>5, <1>6, AlikeViews, ChargedReturn
<1>8. Running(p) => Len(p.stack) >= info[2]
  BY <1>1, <1>7, ChargedGoes DEF info
<1> HIDE DEF info
<1>9. Alike(p, q)
  BY <1>4, <1>6, ChargedAlike
<1> HIDE DEF p, q
<1>10. (Running(q) <=> Running(p)) /\ q.programCounter = p.programCounter /\ Typed(p)
  BY <1>9, AlikeRuns, AlikeViews
<1>11. Alike(x, y)
  <2>1. CASE ~Running(p)
    BY <1>9, <1>10, <2>1 DEF Handled
  <2>2. CASE Running(p)
    <3> DEFINE pc == p.programCounter + 1
               u == [p EXCEPT !.programCounter = pc]
               v == [q EXCEPT !.programCounter = pc]
    <3>1. pc \in Nat /\ pc # 0
      BY <1>10 DEF Typed
    <3>2. x = Handle(u, cell) /\ y = Handle(v, cell)
      BY <1>10, <2>2 DEF Handled
    <3>3. u.programCounter = pc /\ u.stack = p.stack /\ u.returnValue = p.returnValue
      BY <1>10 DEF Typed, IsRun, Fields
    <3> HIDE DEF pc
    <3>4. Alike(u, v)
      BY <1>9, <3>1, AlikeCounter
    <3> HIDE DEF u, v
    <3>5. Len(u.stack) >= OPCODES(cell.op, cell.n)[2]
      BY <1>8, <2>2, <3>3 DEF info
    <3>6. Alike(Handle(u, cell), Handle(v, cell))
      BY <1>1, <1>7, <3>1, <3>3, <3>4, <3>5, HandleAlike
    <3> HIDE DEF x, y
    <3> QED
      BY <3>2, <3>6
  <2> QED
    BY <2>1, <2>2
<1> HIDE DEF x, y
<1>12. Alike(WithinMemory(x), WithinMemory(y))
  BY <1>11, WithinMemoryAlike
<1> QED
  BY <1>2, <1>3, <1>12

-----------------------------------------------------------------------------
\* The exported state.

\* One word after another, the words of a byte string are the string again.
LEMMA WordsFlattened ==
    ASSUME NEW x \in NatSeq, NEW n \in Nat, Len(x) = WordBytes * n
    PROVE  Len(AsWords(x)) = n /\ FlattenSeq(AsWords(x)) = x
<1> DEFINE words == AsWords(x)
           P(g) == g = [i \in 1 .. n |-> IF i = 1 THEN words[i] ELSE g[i - 1] \o words[i]]
           flatten == CHOOSE g : P(g)
           part(i) == SubSeq(x, 1, WordBytes * i)
           parts == [i \in 1 .. n |-> part(i)]
<1>0. WordBytes \in Nat \ {0}
  BY Sizes
<1>1. (WordBytes * n) \div WordBytes = n
  <2>1. \A k \in Nat \ {0}, j \in Nat : (k * j) \div k = j
    OBVIOUS
  <2> QED
    BY <1>0, <2>1
<1>2. words = [i \in 1 .. n |-> Slice(x, WordBytes * (i - 1), WordBytes)]
  BY <1>1 DEF AsWords
<1>3. Len(words) = n
  <2>1. DOMAIN words = 1 .. n /\ words = [i \in 1 .. n |-> words[i]]
    BY <1>2
  <2> HIDE DEF words
  <2> QED
    BY <2>1, FunctionIsSeq
\* Where the words lie.
<1>4. ASSUME NEW i \in 1 .. n
      PROVE  /\ WordBytes * (i - 1) \in Nat /\ WordBytes * i \in Nat
             /\ WordBytes * i = WordBytes * (i - 1) + WordBytes
             /\ WordBytes * i <= Len(x)
  <2>1. \A k \in Nat \ {0}, j \in Nat, m \in Nat :
           /\ k * j \in Nat /\ k * (j + 1) = k * j + k
           /\ j + 1 <= m => k * (j + 1) <= k * m
    OBVIOUS
  <2>2. i - 1 \in Nat /\ (i - 1) + 1 = i
    OBVIOUS
  <2> DEFINE j == i - 1
  <2>3. j \in Nat /\ j + 1 = i /\ j + 1 <= n
    OBVIOUS
  <2> HIDE DEF j
  <2>4. /\ WordBytes * j \in Nat /\ WordBytes * (j + 1) = WordBytes * j + WordBytes
        /\ WordBytes * (j + 1) <= WordBytes * n
    BY <1>0, <2>1, <2>3
  <2> QED
    BY <1>0, <2>3, <2>4 DEF j
<1>5. ASSUME NEW i \in 1 .. n
      PROVE  words[i] = SubSeq(x, WordBytes * (i - 1) + 1, WordBytes * i)
  <2> DEFINE pos == WordBytes * (i - 1)
             end == WordBytes * i
             word == Slice(x, pos, WordBytes)
             piece == SubSeq(x, pos + 1, end)
  <2>1. pos \in Nat /\ end \in Nat /\ end = pos + WordBytes /\ end <= Len(x)
    BY <1>4
  <2>2. words[i] = word
    BY <1>2
  <2> HIDE DEF pos, end
  <2>3. \A k \in 1 .. WordBytes : word[k] = ByteAt(x, pos + k)
    BY <1>0, <2>1, SliceBytes
  <2>4. word \in NatSeq /\ Len(word) = WordBytes
    BY <1>0, <2>1, SliceIsSeq
  <2>5. Len(x) \in Nat /\ \A k \in 1 .. Len(x) : x[k] \in Nat
    BY LenProperties, ElementOfSeq DEF NatSeq
  <2>6. /\ piece \in NatSeq /\ Len(piece) = WordBytes
        /\ \A k \in 1 .. WordBytes : piece[k] = x[pos + k]
    <3>1. pos + 1 \in Int /\ end \in Int /\ \A k \in pos + 1 .. end : x[k] \in Nat
      BY <2>1, <2>5
    <3> DEFINE from == pos + 1
    <3>2. from \in Int /\ end \in Int /\ \A k \in from .. end : x[k] \in Nat
      BY <3>1
    <3> HIDE DEF from
    <3>3. /\ SubSeq(x, from, end) \in Seq(Nat)
          /\ Len(SubSeq(x, from, end)) = IF from <= end THEN end - from + 1 ELSE 0
          /\ \A k \in 1 .. end - from + 1 : SubSeq(x, from, end)[k] = x[from + k - 1]
      BY <3>2, SubSeqProperties
    <3>4. end - from + 1 = WordBytes /\ from <= end
      BY <1>0, <2>1 DEF from
    <3>5. \A k \in 1 .. WordBytes : from + k - 1 = pos + k
      BY <1>0, <2>1 DEF from
    <3> QED
      BY <3>3, <3>4, <3>5 DEF from, NatSeq
  <2>7. \A k \in 1 .. WordBytes : ByteAt(x, pos + k) = x[pos + k]
    <3>1. \A k \in 1 .. WordBytes : pos + k \in 1 .. Len(x)
      BY <1>0, <2>1, <2>5
    <3> QED
      BY <3>1 DEF ByteAt
  <2> HIDE DEF word, piece
  <2>8. \A k \in 1 .. Len(word) : word[k] = piece[k]
    BY <2>3, <2>4, <2>6, <2>7
  <2>9. word = piece
    BY <2>4, <2>6, <2>8, SeqEqual DEF NatSeq
  <2> QED
    BY <2>2, <2>9 DEF piece, pos, end
\* Putting the next word to the words before it.
<1>6. ASSUME NEW i \in 1 .. n
      PROVE  part(i) = IF i = 1 THEN words[i] ELSE part(i - 1) \o words[i]
  <2>1. CASE i = 1
    <3>1. WordBytes * (1 - 1) + 1 = 1
      BY <1>0
    <3>2. words[1] = SubSeq(x, WordBytes * (1 - 1) + 1, WordBytes * 1)
      BY <1>5, <2>1
    <3> QED
      BY <2>1, <3>1, <3>2
  <2>2. CASE i # 1
    <3> DEFINE pos == WordBytes * (i - 1)
               end == WordBytes * i
    <3>1. pos \in Nat /\ end \in Nat /\ end = pos + WordBytes /\ end <= Len(x) /\ Len(x) \in Nat
      BY <1>4, LenProperties DEF NatSeq
    <3>2. words[i] = SubSeq(x, pos + 1, end)
      BY <1>5
    <3> HIDE DEF pos, end
    <3>3. 1 \in 1 .. Len(x) + 1 /\ pos \in 1 - 1 .. Len(x) /\ end \in pos .. Len(x)
      BY <1>0, <3>1
    <3>4. SubSeq(x, 1, pos) \o SubSeq(x, pos + 1, end) = SubSeq(x, 1, end)
      BY <3>3, ConcatAdjacentSubSeq DEF NatSeq
    <3> HIDE DEF words
    <3> QED
      BY <2>2, <3>2, <3>4 DEF pos, end
  <2> QED
    BY <2>1, <2>2
<1> HIDE DEF words, part
<1>7. P(parts)
  <2>1. ASSUME NEW i \in 1 .. n
        PROVE  parts[i] = IF i = 1 THEN words[i] ELSE parts[i - 1] \o words[i]
    <3>1. i # 1 => i - 1 \in 1 .. n
      OBVIOUS
    <3> QED
      BY <1>6, <3>1
  <2> HIDE DEF parts
  <2>2. parts = [i \in 1 .. n |-> parts[i]]
    BY DEF parts
  <2> QED
    BY <2>1, <2>2
<1>8. P(flatten)
  BY <1>7
<1> HIDE DEF flatten, parts
<1> DEFINE Good == {k \in Nat : k + 1 <= n => flatten[k + 1] = part(k + 1)}
<1>9. 0 \in Good
  <2>1. ASSUME 1 <= n PROVE flatten[1] = part(1)
    <3>1. 1 \in 1 .. n
      BY <2>1
    <3> QED
      BY <1>6, <1>8, <3>1
  <2>2. 0 + 1 = 1
    OBVIOUS
  <2> QED
    BY <2>1, <2>2
<1>10. ASSUME NEW k \in Nat, k \in Good PROVE k + 1 \in Good
  <2> SUFFICES ASSUME (k + 1) + 1 <= n PROVE flatten[(k + 1) + 1] = part((k + 1) + 1)
    OBVIOUS
  <2> DEFINE i == (k + 1) + 1
  <2>1. i \in 1 .. n /\ i # 1 /\ i - 1 = k + 1
    OBVIOUS
  <2>2. flatten[k + 1] = part(k + 1)
    BY <1>10
  <2> HIDE DEF i
  <2>3. flatten[i] = flatten[i - 1] \o words[i]
    BY <1>8, <2>1
  <2>4. part(i) = part(i - 1) \o words[i]
    BY <1>6, <2>1
  <2> QED
    BY <2>1, <2>2, <2>3, <2>4 DEF i
<1> HIDE DEF Good, P
<1>11. Nat \subseteq Good
  BY <1>9, <1>10, NatSetInduction
<1>12. CASE n = 0
  <2>1. Len(x) = 0
    BY <1>0, <1>12
  <2>2. x = << >>
    BY <2>1, EmptySeq DEF NatSeq
  <2>3. words = << >>
    BY <1>2, <1>12
  <2>4. FlattenSeq(words) = words
    BY <1>3, <1>12 DEF FlattenSeq
  <2> QED
    BY <1>3, <2>2, <2>3, <2>4 DEF words
<1>13. CASE n # 0
  <2>1. FlattenSeq(words) = flatten[n]
    BY <1>3, <1>13, Zenon DEF FlattenSeq, flatten, P
  <2>2. n - 1 \in Nat /\ (n - 1) + 1 = n
    BY <1>13
  <2>3. flatten[n] = part(n)
    <3> DEFINE k == n - 1
    <3>1. k \in Nat /\ k + 1 = n
      BY <2>2
    <3> HIDE DEF k
    <3>2. k \in Good
      BY <1>11, <3>1
    <3> QED
      BY <3>1, <3>2 DEF Good
  <2>4. part(n) = x
    BY SubSeqFull DEF part, NatSeq
  <2> QED
    BY <1>3, <2>1, <2>3, <2>4 DEF words
<1> QED
  BY <1>12, <1>13

\* A byte string with zeroes behind it, up to n words.
LEMMA PaddedReads ==
    ASSUME NEW bytes \in NatSeq, NEW n \in Nat, Len(bytes) <= WordBytes * n
    PROVE  LET padded == Slice(bytes, 0, WordBytes * n)
           IN  /\ Serialised(bytes, n) = AsWords(padded)
               /\ padded \in NatSeq /\ Len(padded) = WordBytes * n
               /\ SameBytes(bytes, padded)
<1> DEFINE room == WordBytes * n
           padded == Slice(bytes, 0, room)
           begun == WordsFor(Len(bytes))
<1>1. room \in Nat /\ Len(bytes) \in Nat /\ Len(bytes) <= room
  BY Sizes, LenProperties DEF NatSeq
<1>2. begun \in Nat /\ begun <= n
  BY <1>1, WordsForIsNat, WordsForHold
<1>3. Max({n, begun}) = n
  <2> HIDE DEF begun
  <2> QED
    BY <1>2, LargerOfTwo
<1>4. Serialised(bytes, n) = AsWords(padded)
  BY <1>3 DEF Serialised, PadToWords
<1> HIDE DEF room
<1>5. padded \in NatSeq /\ Len(padded) = room
  BY <1>1, SliceIsSeq
<1>6. \A i \in 1 .. room : padded[i] = ByteAt(bytes, 0 + i)
  BY <1>1, SliceBytes
<1>7. SameBytes(bytes, padded)
  <2> HIDE DEF padded
  <2>1. SUFFICES ASSUME NEW i \in Nat \ {0} PROVE ByteAt(bytes, i) = ByteAt(padded, i)
    BY DEF SameBytes
  <2>2. CASE i <= room
    <3>1. i \in 1 .. room /\ 0 + i = i
      BY <1>1, <2>2
    <3>2. padded[i] = ByteAt(bytes, i)
      BY <1>6, <3>1
    <3> QED
      BY <1>5, <3>1, <3>2 DEF ByteAt
  <2>3. CASE ~(i <= room)
    BY <1>1, <1>5, <2>3 DEF ByteAt
  <2> QED
    BY <2>2, <2>3
<1> QED
  BY <1>4, <1>5, <1>7 DEF room

\* As many words are exported as were counted, unless there is memory that was not.
LEMMA SerialisedFits ==
    ASSUME NEW bytes \in NatSeq, NEW n \in Nat, Len(Serialised(bytes, n)) <= n
    PROVE  Len(bytes) <= WordBytes * n
<1> DEFINE begun == WordsFor(Len(bytes))
           m == Max({n, begun})
           padded == Slice(bytes, 0, WordBytes * m)
<1>1. Len(bytes) \in Nat
  BY LenProperties DEF NatSeq
<1>2. begun \in Nat /\ (begun <= n <=> Len(bytes) <= WordBytes * n)
  BY <1>1, WordsForIsNat, WordsForHold
<1>3. Serialised(bytes, n) = AsWords(padded)
  BY DEF Serialised, PadToWords
<1> HIDE DEF begun
<1>4. m \in Nat /\ begun <= m
  BY <1>2, LargerOfTwo
<1> HIDE DEF m
<1>5. WordBytes * m \in Nat
  BY <1>4, Sizes
<1>6. padded \in NatSeq /\ Len(padded) = WordBytes * m
  BY <1>5, SliceIsSeq
<1>7. Len(AsWords(padded)) = m
  <2> HIDE DEF padded
  <2> QED
    BY <1>4, <1>6, WordsFlattened
<1> QED
  BY <1>2, <1>3, <1>4, <1>7

LEMMA AlikeResults ==
    ASSUME NEW s, NEW t, Alike(s, t)
    PROVE  SameResult(s, t)
<1> DEFINE n == s.memoryWordCount
<1>1. /\ n \in Nat /\ t.memoryWordCount = n
      /\ s.memory \in NatSeq /\ t.memory \in NatSeq /\ SameBytes(s.memory, t.memory)
      /\ Len(s.memory) <= WordBytes * n /\ Len(t.memory) <= WordBytes * n
  BY DEF Alike, Typed, Counted
<1> HIDE DEF n
<1>2. /\ Serialised(s.memory, n) = AsWords(Slice(s.memory, 0, WordBytes * n))
      /\ Serialised(t.memory, n) = AsWords(Slice(t.memory, 0, WordBytes * n))
  BY <1>1, PaddedReads
<1>3. WordBytes * n \in Nat /\ 0 \in Nat
  BY <1>1, Sizes
<1>4. Slice(s.memory, 0, WordBytes * n) = Slice(t.memory, 0, WordBytes * n)
  BY <1>1, <1>3, SameSlices
<1>5. Serialised(s.memory, s.memoryWordCount) = Serialised(t.memory, t.memoryWordCount)
  BY <1>1, <1>2, <1>4 DEF n
<1> QED
  BY <1>5 DEF SameResult, Alike

-----------------------------------------------------------------------------
\* The exported state of a run.

\* The jump destinations initRunState finds.
Jumps(code) == {i - 1 : i \in {p \in Starts(code) : code[p].op = "JUMPDEST"}}

\* The invariant of ExportResumes: the exported state has the memory kept along, the
\* words counted and the gas left, and while the run goes on its stack and its counter.
ResumeInv ==
    /\ RunInv /\ MemInv
    /\ \E p \in Programs : vm.code = p.code /\ vm.validJumps = Jumps(p.code)
    /\ step.mem = cache.prevMem /\ step.memSize = Len(step.mem)
    /\ step.counted = vm.memoryWordCount /\ step.gasRemaining = vm.gasLeft
    /\ ~Halted(vm) => step.stackHash = vm.stack /\ step.pc = vm.programCounter

\* The state begun anew is the exported one, with zeroes behind its memory.
LEMMA ResumedAlike ==
    ASSUME ResumeInv, ~Halted(vm), vm.returnValue = << >>, step.memSize <= step.counted
    PROVE  Alike(vm, initRunState(vm.code, vm.callData, step.stackHash, step.mem, step.pc,
                                  step.gasRemaining))
<1> DEFINE n == vm.memoryWordCount
           padded == Slice(vm.memory, 0, WordBytes * n)
           r == initRunState(vm.code, vm.callData, step.stackHash, step.mem, step.pc,
                             step.gasRemaining)
<1>1. /\ Typed(vm) /\ cache.prevMem = Serialised(vm.memory, n)
      /\ n \in Nat /\ vm.memory \in NatSeq
  BY DEF ResumeInv, MemInv, MemoryCacheIsCurrent, Typed
<1>2. /\ step.mem = Serialised(vm.memory, n) /\ Len(step.mem) <= n
      /\ step.stackHash = vm.stack /\ step.pc = vm.programCounter
      /\ step.gasRemaining = vm.gasLeft
  BY <1>1 DEF ResumeInv
<1>3. Len(vm.memory) <= WordBytes * n
  <2> HIDE DEF n
  <2> QED
    BY <1>1, <1>2, SerialisedFits
<1>4. /\ step.mem = AsWords(padded)
      /\ padded \in NatSeq /\ Len(padded) = WordBytes * n /\ SameBytes(vm.memory, padded)
  <2> HIDE DEF n
  <2> QED
    BY <1>1, <1>2, <1>3, PaddedReads
<1>5. Len(step.mem) = n /\ FlattenSeq(step.mem) = padded
  <2> HIDE DEF n, padded
  <2> QED
    BY <1>1, <1>4, WordsFlattened
<1>6. vm.validJumps = Jumps(vm.code)
  BY DEF ResumeInv
<1>7. ~vm.stopped /\ vm.error = NoError /\ vm.stopped = FALSE
  BY <1>1 DEF Halted, Running, Typed
<1>8. /\ DOMAIN r = Fields
      /\ r.code = vm.code /\ r.callData = vm.callData /\ r.programCounter = vm.programCounter
      /\ r.stack = vm.stack /\ r.memory = padded /\ r.memoryWordCount = n
      /\ r.highestMemCost = MemCost(n) /\ r.gasLeft = vm.gasLeft /\ r.returnValue = << >>
      /\ r.stopped = FALSE /\ r.error = NoError /\ r.validJumps = vm.validJumps
  <2>1. r = [code |-> vm.code, callData |-> vm.callData, programCounter |-> vm.programCounter,
             stack |-> vm.stack, memory |-> padded, memoryWordCount |-> n,
             highestMemCost |-> MemCost(n), gasLeft |-> vm.gasLeft, returnValue |-> << >>,
             stopped |-> FALSE, error |-> NoError, validJumps |-> vm.validJumps,
             codeReads |-> {}, memRead |-> FALSE, memWrite |-> FALSE]
    BY <1>2, <1>5, <1>6 DEF initRunState, Jumps
  <2> HIDE DEF r, n, padded
  <2> QED
    BY <2>1 DEF Fields
<1> HIDE DEF r
<1>9. Typed(r)
  BY <1>1, <1>4, <1>8, EmptyNumbers DEF Typed, IsRun
<1>10. Counted(vm) /\ Counted(r)
  <2> HIDE DEF padded
  <2>1. WordBytes * n \in Nat
    BY <1>1, Sizes
  <2> QED
    BY <1>3, <1>4, <1>8, <2>1 DEF Counted
<1>11. SameBytes(vm.memory, r.memory)
  BY <1>4, <1>8
<1> HIDE DEF padded
<1>12. Alike(vm, r)
  BY <1>1, <1>7, <1>8, <1>9, <1>10, <1>11 DEF Alike
<1> QED
  BY <1>12 DEF r

LEMMA ResumeInvShows ==
    ASSUME KeccakReturnsNumbers, ResumeInv
    PROVE  ExportResumes
<1> DEFINE r == initRunState(vm.code, vm.callData, step.stackHash, step.mem, step.pc,
                             step.gasRemaining)
<1>1. SUFFICES ASSUME ~Halted(vm), vm.returnValue = << >>, step.memSize <= step.counted
               PROVE  SameResult(runNextStep(vm), runNextStep(r))
  BY DEF ExportResumes
<1>2. Alike(vm, r)
  BY <1>1, ResumedAlike
<1> HIDE DEF r
<1>3. vm.programCounter < Len(vm.code)
  <2>1. vm.programCounter \in Nat /\ Len(vm.code) \in Nat
    BY LenProperties DEF ResumeInv, MemInv, Typed
  <2> QED
    BY <1>1, <2>1 DEF Halted
<1>4. Alike(runNextStep(vm), runNextStep(r))
  BY <1>1, <1>2, <1>3, StepAlike
<1> QED
  BY <1>4, AlikeResults

-----------------------------------------------------------------------------

\* The hash of a whole stack comes last.
LEMMA LastHash ==
    ASSUME NEW q \in NatSeq
    PROVE  Last(stackHashes(q, << >>)) = q
<1> DEFINE h == stackHashes(q, << >>)
           n == Len(q)
<1>1. IsSeq(q) /\ n \in Nat
  BY SeqIsSeq, LenProperties DEF NatSeq
<1>2. Len(h) = n + 1 /\ \A i \in 1 .. n + 1 : h[i] = SubSeq(q, 1, i - 1)
  BY <1>1, HashesFromNothing
<1>3. SubSeq(q, 1, n) = q
  BY SubSeqFull DEF NatSeq
<1> HIDE DEF h, n
<1>4. n + 1 \in 1 .. n + 1 /\ (n + 1) - 1 = n
  BY <1>1
<1>5. h[n + 1] = q
  BY <1>2, <1>3, <1>4
<1>6. Last(h) = q
  BY <1>2, <1>5 DEF Last
<1> QED
  BY <1>6 DEF h

LEMMA ResumeBegins == Init => ResumeInv
<1>1. SUFFICES ASSUME NEW p \in Programs,
                      vm = initRunState(p.code, p.callData, << >>, << >>, 0, p.gas),
                      cache = freshCache(vm), step = initialState(p.callData, p.gas)
               PROVE  /\ \E q \in Programs : vm.code = q.code /\ vm.validJumps = Jumps(q.code)
                      /\ step.mem = cache.prevMem /\ step.memSize = Len(step.mem)
                      /\ step.counted = vm.memoryWordCount /\ step.gasRemaining = vm.gasLeft
                      /\ step.stackHash = vm.stack /\ step.pc = vm.programCounter
  BY RunBegins, MemBegins DEF Init, ResumeInv
<1>2. Len(<< >>) = 0
  BY EmptyIsSeq
<1>3. /\ vm.code = p.code /\ vm.validJumps = Jumps(p.code) /\ vm.memoryWordCount = 0
      /\ vm.gasLeft = p.gas /\ vm.stack = << >> /\ vm.programCounter = 0
  BY <1>1, <1>2 DEF initRunState, Jumps
<1>4. /\ step.mem = << >> /\ step.memSize = 0 /\ step.counted = 0 /\ step.gasRemaining = p.gas
      /\ step.stackHash = << >> /\ step.pc = 0 /\ cache.prevMem = << >>
  BY <1>1 DEF initialState, freshCache
<1> QED
  BY <1>2, <1>3, <1>4

LEMMA StepKeepsResumeInv ==
    ASSUME KeccakReturnsNumbers, ResumeInv, NEW op \in Instructions, Execute(op)
    PROVE  ResumeInv'
<1> DEFINE cell == vm.code[vm.programCounter + 1]
           begun == [vm EXCEPT !.codeReads = {}]
           s == runNextStep(begun)
<1>1. /\ ~Halted(vm)
      /\ step' = exported(vm.programCounter, s, cell, cache)
      /\ cache' = carried(s, cell, cache)
      /\ vm' = [s EXCEPT !.memRead = FALSE, !.memWrite = FALSE]
  BY DEF Execute, runNext
<1>2. RunInv' /\ MemInv'
  BY StepKeepsRunInv, StepOfRun DEF ResumeInv
<1>3. Typed(begun)
  BY SetSeen DEF ResumeInv, MemInv, Goes
<1>4. /\ begun.code = vm.code /\ begun.programCounter = vm.programCounter
      /\ begun.validJumps = vm.validJumps
  BY DEF ResumeInv, MemInv, Typed, IsRun, Fields
<1>5. begun.programCounter < Len(begun.code)
  <2>1. vm.programCounter \in Nat /\ Len(vm.code) \in Nat
    BY LenProperties DEF ResumeInv, MemInv, Typed
  <2> QED
    BY <1>1, <1>4, <2>1 DEF Halted
<1>6. cell = begun.code[begun.programCounter + 1]
  BY <1>4
<1> HIDE DEF begun, cell
<1>7. Goes(begun, s) /\ (cell.op \in Free => Ended(s))
  BY <1>3, <1>5, <1>6, StepGoes
<1>8. /\ step'.mem = calculateMemProof(s, cache) /\ step'.memSize = Len(step'.mem)
      /\ step'.counted = s.memoryWordCount /\ step'.gasRemaining = s.gasLeft
      /\ step'.stackHash = Last(calculateStackProof(s, cell, cache).stackHashes)
      /\ step'.pc = exportedPc(vm.programCounter, s, cell)
  BY <1>1 DEF exported
<1>9. /\ cache'.prevMem = calculateMemProof(s, cache)
      /\ cache'.stackHashes = calculateStackProof(s, cell, cache).stackHashes
  BY <1>1 DEF carried
<1> HIDE DEF s
<1>10. /\ vm'.code = s.code /\ vm'.validJumps = s.validJumps /\ vm'.gasLeft = s.gasLeft
       /\ vm'.memoryWordCount = s.memoryWordCount /\ vm'.programCounter = s.programCounter
       /\ vm'.stopped = s.stopped /\ vm'.error = s.error
  BY <1>1, <1>7 DEF Goes, Typed, IsRun, Fields
<1>11. (\E p \in Programs : vm.code = p.code /\ vm.validJumps = Jumps(p.code))'
  <2>1. PICK p \in Programs : vm.code = p.code /\ vm.validJumps = Jumps(p.code)
    BY DEF ResumeInv
  <2>2. vm'.code = p.code /\ vm'.validJumps = Jumps(p.code)
    BY <1>4, <1>7, <1>10, <2>1 DEF Goes, Later
  <2> QED
    BY <2>2
<1>12. ASSUME ~Halted(vm') PROVE step'.stackHash = vm'.stack /\ step'.pc = vm'.programCounter
  <2>1. vm'.error = NoError /\ Running(s) /\ ~Ended(s)
    BY <1>10, <1>12 DEF Halted, Running, Ended
  <2>2. step'.errno = NoError
    BY <1>2, <2>1 DEF RunInv
  <2>3. cache'.stackHashes = stackHashes(vm'.stack, << >>)
    BY <1>2, <2>2 DEF RunInv, StackCacheIsCurrent, stackHashes
  <2>4. vm'.stack \in NatSeq
    BY <1>2 DEF MemInv, Typed
  <2>5. Last(stackHashes(vm'.stack, << >>)) = vm'.stack
    BY <2>4, LastHash
  <2>6. cell.op \notin {"RETURN", "STOP"}
    BY <1>7, <2>1 DEF Free
  <2> QED
    BY <1>8, <1>9, <1>10, <2>1, <2>3, <2>5, <2>6 DEF exportedPc
<1> QED
  BY <1>2, <1>8, <1>9, <1>10, <1>11, <1>12 DEF ResumeInv, Halted, Running

LEMMA StutterKeepsResumeInv ==
    ASSUME ResumeInv, UNCHANGED vars
    PROVE  ResumeInv'
<1>1. RunInv' /\ MemInv'
  BY StutterKeepsRunInv, StutterKeepsMemInv DEF ResumeInv
<1> QED
  BY <1>1 DEF ResumeInv, vars, Halted, Running

\* Under the same assumption, a run begun anew from an exported state goes on as the run
\* that exported it, step by step and instruction by instruction: what initRunState takes
\* (EVMRuntime.js, with mem, stack, pc and gasRemaining from HydratedRuntime's export) is
\* all a step can see, but for the return data and for memory that was not counted.
THEOREM ExportsAlwaysResume ==
    ASSUME KeccakReturnsNumbers
    PROVE  Spec => []ExportResumes
<1>1. Init => ResumeInv
  BY ResumeBegins
<1>2. ResumeInv /\ [Next]_vars => ResumeInv'
  BY StepKeepsResumeInv, StutterKeepsResumeInv DEF Next
<1>3. ResumeInv => ExportResumes
  BY ResumeInvShows
<1> QED
  BY <1>1, <1>2, <1>3, PTL DEF Spec

=============================================================================
