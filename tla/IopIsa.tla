------------------------------- MODULE IopIsa --------------------------------
(***************************************************************************)
(* What the IOP core's instructions compute: all that its interpreter      *)
(* implements but the ones of the control and of COP0, which are IopCore's *)
(* (liborbum/src/Controller/Iop/Core/Interpreter).  A register is a word.  *)
(* An instruction i has the fields of one of EeIsa's.                      *)
(***************************************************************************)
EXTENDS EeAlu, Sequences

CONSTANTS Registers, MemoryTop

VARIABLES
  gpr, lo, hi,    \* the R3000's
  mem,            \* the memory behind the bus, in bytes
  taken           \* a history: which of the branches and exceptions were taken

vars == <<gpr, lo, hi, mem, taken>>

Words == 0..Top(4) - 1
Truncated(value) == Unsigned(4, value)
SignedWord(word) == Signed(4, word)

\* Register 0 is read only.
Writes(r, value) == gpr' = IF r = 0 THEN gpr ELSE [gpr EXCEPT ![r] = Truncated(value)]
-----------------------------------------------------------------------------
(* ALU.  The check for an overflow is the one for a sum, also of SUB.      *)
Immediates == {"ADDI", "ADDIU", "SLTI", "SLTIU"}
RightOperand(i) == IF i.op \in Immediates THEN i.imm ELSE SignedWord(gpr[i.rt])
Overflows(i) ==
  i.op \in {"ADD", "ADDI", "SUB"} /\ TestOverOrUnderflow(4, SignedWord(gpr[i.rs]), RightOperand(i))
RunSum(i) ==
  /\ i.op \in {"ADD", "ADDI", "ADDIU", "ADDU", "SUB", "SUBU"}
  /\ IF Overflows(i) THEN UNCHANGED gpr /\ taken' = Append(taken, i.op)
     ELSE /\ LET x == SignedWord(gpr[i.rs])
             IN  Writes(i.rd, IF i.op \in {"SUB", "SUBU"} THEN x - RightOperand(i) ELSE x + RightOperand(i))
          /\ UNCHANGED taken
  /\ UNCHANGED <<lo, hi, mem>>

RunCompare(i) ==
  /\ i.op \in {"SLT", "SLTI", "SLTU", "SLTIU"}
  /\ LET less == IF i.op \in {"SLT", "SLTI"} THEN SignedWord(gpr[i.rs]) < RightOperand(i)
                 ELSE gpr[i.rs] < Truncated(RightOperand(i))
     IN  Writes(i.rd, IF less THEN 1 ELSE 0)
  /\ UNCHANGED <<lo, hi, mem, taken>>

\* The immediate of a logical instruction is not sign extended.
RunLogical(i) ==
  /\ i.op \in {"AND", "OR", "XOR", "NOR", "ANDI", "ORI", "XORI"}
  /\ LET s == gpr[i.rs]
         t == IF i.op \in {"ANDI", "ORI", "XORI"} THEN Unsigned(2, i.imm) ELSE gpr[i.rt]
     IN  Writes(i.rd, CASE i.op \in {"AND", "ANDI"} -> And(s, t) [] i.op \in {"OR", "ORI"} -> Or(s, t)
                        [] i.op \in {"XOR", "XORI"} -> Xor(s, t) [] i.op = "NOR" -> Ones(4) - Or(s, t))
  /\ UNCHANGED <<lo, hi, mem, taken>>

RunShift(i) ==
  /\ i.op \in {"SLL", "SRL", "SRA", "SLLV", "SRLV", "SRAV"}
  /\ LET n == IF i.op \in {"SLL", "SRL", "SRA"} THEN i.imm ELSE gpr[i.rs] % Bits(4)
         t == gpr[i.rt]
     IN  Writes(i.rd, CASE i.op \in {"SLL", "SLLV"} -> t * 2^n [] i.op \in {"SRL", "SRLV"} -> t \div 2^n
                        [] i.op \in {"SRA", "SRAV"} -> SignedWord(t) \div 2^n)
  /\ UNCHANGED <<lo, hi, mem, taken>>

\* C++ divides toward zero; a division by zero does nothing, and the least number by -1 gives itself.
Towards(a, b) == LET q == Magnitude(a) \div Magnitude(b) IN IF (a < 0) = (b < 0) THEN q ELSE -q
RunDivide(i) ==
  /\ i.op \in {"DIV", "DIVU"}
  /\ LET a == IF i.op = "DIV" THEN SignedWord(gpr[i.rs]) ELSE gpr[i.rs]
         b == IF i.op = "DIV" THEN SignedWord(gpr[i.rt]) ELSE gpr[i.rt]
     IN  IF b = 0 THEN UNCHANGED <<lo, hi>>
         ELSE lo' = Truncated(Towards(a, b)) /\ hi' = Truncated(a - b * Towards(a, b))
  /\ UNCHANGED <<gpr, mem, taken>>
RunMultiply(i) ==
  /\ i.op \in {"MULT", "MULTU"}
  /\ LET product == IF i.op = "MULT" THEN SignedWord(gpr[i.rs]) * SignedWord(gpr[i.rt])
                    ELSE gpr[i.rs] * gpr[i.rt]
     IN  lo' = Truncated(product) /\ hi' = Truncated(product \div Top(4))
  /\ UNCHANGED <<gpr, mem, taken>>

\* SPECIAL_TRANSFER: MTLO and MTHI, too, have their register in Rd.
RunTransfer(i) ==
  /\ i.op \in {"MFLO", "MFHI", "MTLO", "MTHI"}
  /\ IF i.op \in {"MFLO", "MFHI"} THEN Writes(i.rd, IF i.op = "MFLO" THEN lo ELSE hi) ELSE UNCHANGED gpr
  /\ lo' = IF i.op = "MTLO" THEN gpr[i.rd] ELSE lo
  /\ hi' = IF i.op = "MTHI" THEN gpr[i.rd] ELSE hi
  /\ UNCHANGED <<mem, taken>>
-----------------------------------------------------------------------------
(* LOAD_STORE_MEM, of an address that the translation has let through.     *)
Address(i) == (gpr[i.rs] + i.imm) % MemoryTop
Read(a, w) ==
  LET byte(k) == IF k < w THEN mem[(a + k) % MemoryTop] * Top(k) ELSE 0
  IN  byte(0) + byte(1) + byte(2) + byte(3)
Write(a, w, value) ==
  mem' = [b \in 0..MemoryTop - 1 |->
            LET k == (b - a) % MemoryTop IN IF k < w THEN ByteOf(value, k) ELSE mem[b]]

\* LWL, LWR, SWL and SWR: the aligned word, how far to shift, and the bits that are kept.
Aligned(a) == a - (a % 4)
Shift(a) == Bits(a % 4)
LowBits(value, n) == value % 2^n
HighBits(value, n) == value - (value % 2^n)
\* Mutant: the mask is not shifted.
LoadLeftWide(a, d) == LowBits(d, Bits(3)) + LowBits(Read(Aligned(a), 4), Bits(1)) * 2^(Bits(3) - Shift(a))
LoadLeft(a, d) ==
  LowBits(d, Bits(3) - Shift(a)) + Truncated(Read(Aligned(a), 4) * 2^(Bits(3) - Shift(a)))
LoadRight(a, d) == HighBits(d, Bits(4) - Shift(a)) + Read(Aligned(a), 4) \div 2^Shift(a)
StoredLeft(a, t) ==
  t \div 2^(Bits(3) - Shift(a)) + HighBits(Read(Aligned(a), 4), Bits(1) + Shift(a))
StoredRight(a, t) == Truncated(t * 2^Shift(a)) + LowBits(Read(Aligned(a), 4), Shift(a))

RunLoad(i) ==
  /\ i.op \in {"L", "LU", "LLEFT", "LRIGHT", "LUI"} /\ i.w \in {1, 2, 4}
  /\ LET a == Address(i)
     IN  Writes(i.rd, CASE i.op = "L" -> Signed(i.w, Read(a, i.w)) [] i.op = "LU" -> Read(a, i.w)
                        [] i.op = "LLEFT" -> LoadLeft(a, gpr[i.rd]) [] i.op = "LRIGHT" -> LoadRight(a, gpr[i.rd])
                        [] i.op = "LUI" -> i.imm * Top(2))
  /\ UNCHANGED <<lo, hi, mem, taken>>
RunStore(i) ==
  /\ i.op \in {"S", "SLEFT", "SRIGHT"} /\ i.w \in {1, 2, 4}
  /\ LET a == Address(i)
     IN  CASE i.op = "S" -> Write(a, i.w, gpr[i.rt])
           [] i.op = "SLEFT" -> Write(Aligned(a), 4, StoredLeft(a, gpr[i.rt]))
           [] i.op = "SRIGHT" -> Write(Aligned(a), 4, StoredRight(a, gpr[i.rt]))
  /\ UNCHANGED <<gpr, lo, hi, taken>>

\* BRANCH_JUMP: the conditions.
RunBranch(i) ==
  /\ i.op \in {"BEQ", "BNE", "BLEZ", "BGTZ", "BLTZ", "BGEZ"}
  /\ LET s == SignedWord(gpr[i.rs])
         holds == CASE i.op = "BEQ" -> s = SignedWord(gpr[i.rt]) [] i.op = "BNE" -> s # SignedWord(gpr[i.rt])
                    [] i.op = "BLEZ" -> s <= 0 [] i.op = "BGTZ" -> s > 0
                    [] i.op = "BLTZ" -> s < 0 [] i.op = "BGEZ" -> s >= 0
     IN  taken' = IF holds THEN Append(taken, i.op) ELSE taken
  /\ UNCHANGED <<gpr, lo, hi, mem>>

Runs(i) == \/ RunSum(i) \/ RunCompare(i) \/ RunLogical(i) \/ RunShift(i) \/ RunDivide(i) \/ RunMultiply(i)
           \/ RunTransfer(i) \/ RunLoad(i) \/ RunStore(i) \/ RunBranch(i)
-----------------------------------------------------------------------------
TypeOK == /\ gpr \in [Registers -> Words] /\ gpr[0] = 0 /\ {lo, hi} \subseteq Words
          /\ mem \in [0..MemoryTop - 1 -> Bytes]
=============================================================================
