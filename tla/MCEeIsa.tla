------------------------------- MODULE MCEeIsa -------------------------------
(***************************************************************************)
(* Programs for EeIsa.  Each belongs to a law that ties instructions       *)
(* written apart from each other: it computes the same thing in two ways   *)
(* and leaves the results in the registers R8 and R9.                      *)
(***************************************************************************)
EXTENDS EeIsa

I(op, w, rd, rs, rt, imm) == [op |-> op, w |-> w, rd |-> rd, rs |-> rs, rt |-> rt, imm |-> imm]
R(op, w, rd, rs, rt) == I(op, w, rd, rs, rt, 0)
Copy(rd, r) == R("POR", 16, rd, r, 0)
P(law, code) == [law |-> law, code |-> code]

\* a + b is the complement of ~a - b, whatever happens at the ends of the range.
SumByComplement(add, sub, w) ==
  P("SumsDual", <<R("PNOR", 16, 3, 1, 0), R(sub, w, 4, 3, 2), R("PNOR", 16, 8, 4, 0), R(add, w, 9, 1, 2)>>)
SumPrograms ==
  {SumByComplement("PADD", "PSUB", w) : w \in {1, 2, 4}} \cup {SumByComplement("PADDS", "PSUBS", w) : w \in {1, 2, 4}}
  \cup {SumByComplement("PADDU", "PSUBU", w) : w \in {1, 2, 4}}

\* Permuting the lanes before an operation or after it.
Permuted(op, w, permutation) ==
  P("LanesApart", <<R(permutation, w, 3, 0, 1), R(permutation, w, 4, 0, 2), R(op, w, 8, 3, 4),
                    R(op, w, 5, 1, 2), R(permutation, w, 9, 0, 5)>>)
LanePrograms ==
  {Permuted(op, 2, perm) : op \in LaneOps \cup {"PADSBH", "PABSH"}, perm \in {"PREVH", "PEXCH", "PEXEH"}}
  \cup {Permuted(op, 4, perm) : op \in LaneOps, perm \in {"PROT3W", "PEXEW"}}
  \cup {Permuted(op, 1, "PREVH") : op \in LaneOps}

Twice(op) == P("ReorderingsInvert", <<R(op, 2, 3, 0, 1), R(op, 2, 8, 0, 3), Copy(9, 1)>>)
ReorderPrograms ==
  {Twice(op) : op \in {"PEXCH", "PEXEH", "PREVH", "PEXCW", "PEXEW"}} \cup
  {P("ReorderingsInvert", <<R("PROT3W", 4, 3, 0, 1), R("PROT3W", 4, 4, 0, 3), R("PROT3W", 4, 8, 0, 4), Copy(9, 1)>>),
   P("ReorderingsInvert", <<R("PCPYUD", 8, 3, 2, 1), R("PCPYLD", 8, 4, 3, 2), R("PCPYLD", 8, 5, 2, 2), R("PCPYUD", 8, 6, 5, 2),
                            R("PCPYUD", 8, 7, 2, 2), R("PCPYLD", 8, 8, 7, 2), Copy(9, 2)>>),
   P("ReorderingsInvert", <<R("PCPYUD", 8, 3, 1, 0), R("PEXTL", 2, 8, 3, 2), R("PINTH", 2, 9, 1, 2)>>),
   P("ReorderingsInvert", <<R("PPAC", 2, 3, 1, 2), R("PINTH", 2, 8, 3, 3), R("PINTEH", 2, 9, 1, 2)>>),
   P("ReorderingsInvert", <<R("PCPYH", 2, 8, 0, 1), R("PEXCH", 2, 3, 0, 1), R("PCPYH", 2, 9, 0, 3)>>)} \cup
  {P("ReorderingsInvert", <<R("PEXTU", w, 3, 1, 2), R("PEXTL", w, 4, 1, 2), R("PPAC", w, 8, 3, 4), Copy(9, 2)>>) : w \in {1, 2, 4}}

\* Dividend = quotient * divisor + remainder, in a word.
Division(div, mult) ==
  P("DivisionsRestore", <<R(div, 4, 0, 1, 2), R("MFLO", 8, 3, 0, 0), R("MFHI", 8, 4, 0, 0), R(mult, 4, 5, 3, 2),
                          R("ADDU", 4, 6, 5, 4), R("SLL", 4, 8, 0, 6), R("SLL", 4, 9, 0, 1)>>)
DivisionPrograms == {Division("DIV", "MULT"), Division("DIVU", "MULTU"), Division("PDIVW", "MULT"), Division("PDIVUW", "MULTU")}

ShiftPrograms ==
  {P("ShiftFormsAgree", <<I("SRA", 4, 8, 0, 1, n), I("DSLL32", 8, 3, 0, 1, 0), I("DSRA32", 8, 9, 0, 3, n)>>) : n \in {0, 1, Bits(4) - 1}} \cup
  {P("ShiftFormsAgree", <<I("SRL", 4, 8, 0, 1, n), I("DSLL32", 8, 3, 0, 1, 0), I("DSRL32", 8, 4, 0, 3, n), R("SLL", 4, 9, 0, 4)>>) : n \in {0, 3}} \cup
  {P("ShiftFormsAgree", <<I("ORI", 8, 3, 0, 0, n), R(by_reg, 4, 8, 3, 1), I(by_imm, 4, 9, 0, 1, n)>>) :
     <<by_reg, by_imm, n>> \in {<<"SLLV", "SLL", 1>>, <<"SLLV", "SLL", Bits(4) - 1>>, <<"SRLV", "SRL", 5>>, <<"SRAV", "SRA", 6>>,
                                <<"DSLLV", "DSLL", 7>>, <<"DSRLV", "DSRL", 3>>, <<"DSRAV", "DSRA", 1>>}} \cup
  {P("ShiftFormsAgree", <<I("ORI", 8, 3, 0, 0, n + Bits(4)), R(by_reg, 8, 8, 3, 1), I(by_more, 8, 9, 0, 1, n)>>) :
     <<by_reg, by_more, n>> \in {<<"DSLLV", "DSLL32", 2>>, <<"DSRLV", "DSRL32", 0>>, <<"DSRAV", "DSRA32", 7>>}} \cup
  {P("ShiftFormsAgree", <<R(parallel, 4, 3, 2, 1), R(single, 4, 4, 2, 1), R("SLL", 4, 8, 0, 3), R("SLL", 4, 9, 0, 4)>>) :
     <<parallel, single>> \in {<<"PSLLVW", "SLLV">>, <<"PSRLVW", "SRLV">>, <<"PSRAVW", "SRAV">>}} \cup
  {P("ShiftFormsAgree", <<I(lanes, 4, 3, 0, 1, n), R("SLL", 4, 8, 0, 3), I(single, 4, 9, 0, 1, n)>>) :
     <<lanes, single, n>> \in {<<"PSLL", "SLL", 3>>, <<"PSRL", "SRL", 4>>, <<"PSRA", "SRA", 7>>}} \cup
  {P("ShiftFormsAgree", <<I("PSRA", 2, 8, 0, 1, 2), I("PSRA", 2, 3, 0, 1, 1), I("PSRA", 2, 9, 0, 3, 1)>>)}

\* A word or doubleword stored in two parts at an address of any alignment, and loaded in two parts.
Unaligned(w, a) ==
  P("UnalignedWhole", <<I("SLEFT", w, 0, 0, 1, a + w - 1), I("SRIGHT", w, 0, 0, 1, a),
                        I("LLEFT", w, 3, 0, 0, a + w - 1), I("LRIGHT", w, 3, 0, 0, a),
                        R(IF w = 4 THEN "SLL" ELSE "DSLL", w, 8, 0, 3), R(IF w = 4 THEN "SLL" ELSE "DSLL", w, 9, 0, 1)>>)
AsBytes(a) ==
  P("UnalignedWhole", <<I("S", 4, 0, 0, 1, a), I("LU", 1, 3, 0, 0, a), I("LU", 1, 4, 0, 0, a + 1), I("DSLL", 8, 4, 0, 4, ByteBits),
                        R("OR", 8, 3, 3, 4), I("LU", 2, 4, 0, 0, a + 2), I("DSLL", 8, 4, 0, 4, 2 * ByteBits), R("OR", 8, 3, 3, 4),
                        R("SLL", 4, 8, 0, 3), I("L", 4, 9, 0, 0, a)>>)
MemoryPrograms == {Unaligned(w, a) : w \in {4, 8}, a \in 0..8} \cup {AsBytes(a) : a \in {0, 4}} \cup
  {P("UnalignedWhole", <<I("S", 16, 0, 0, 1, 0), I("LQ", 16, 8, 0, 0, 0), Copy(9, 1)>>),
   P("UnalignedWhole", <<I("S", 8, 0, 0, 1, 8), I("L", 8, 8, 0, 0, 8), R("DSLL", 8, 9, 0, 1)>>)}

\* What was added to the accumulators is taken away.
Accumulation(add, sub) ==
  P("AccumulatorsRestored", <<R("PMTLO", 16, 0, 1, 0), R("PMTHI", 16, 0, 2, 0), R(add, 4, 3, 1, 2), R(sub, 4, 3, 1, 2),
                              R("PMFLO", 16, 8, 0, 0), Copy(9, 1)>>)
AccumulatorPrograms == {Accumulation("PMADDH", "PMSUBH")}

\* A condition in a register, a branch on it and the trap of the same comparison.
Comparison(slt, less, geq, imm) ==
  P("ComparisonsAgree", <<I(slt, 8, 8, 1, 2, imm), R("BNE", 8, 0, 8, 0), I(less, 8, 0, 1, 2, imm), I(geq, 8, 0, 1, 2, imm),
                          R("BEQ", 8, 0, 8, 0), Copy(9, 8)>>)
ComparisonPrograms == {Comparison("SLT", "TLT", "TGE", 0), Comparison("SLTU", "TLTU", "TGEU", 0)} \cup
  {Comparison("SLTI", "TLTI", "TGEI", imm) : imm \in {-1, 3}} \cup {Comparison("SLTIU", "TLTIU", "TGEIU", imm) : imm \in {-1, 3}}

(* Programs of instructions that the IOP has as well, which uses words:    *)
(* the operands are sign extended first.                                   *)
Common(code) == P("CoresAgree", <<R("SLL", 4, 1, 0, 1), R("SLL", 4, 2, 0, 2)>> \o code)
CommonPrograms ==
  {Common(<<R("ADD", 4, 3, 1, 2), R("SUB", 4, 4, 1, 2), I("ADDI", 4, 5, 1, 0, -3), R("ADDU", 4, 6, 1, 2),
            R("SUBU", 4, 7, 1, 2), I("ADDIU", 4, 8, 2, 0, 5), R("SUBU", 4, 9, 8, 6)>>),
   Common(<<R("SLT", 8, 3, 1, 2), R("SLTU", 8, 4, 1, 2), I("SLTI", 8, 5, 1, 0, -1), I("SLTIU", 8, 6, 1, 0, -1)>>),
   Common(<<R("AND", 8, 3, 1, 2), R("OR", 8, 4, 1, 2), R("XOR", 8, 5, 1, 2), R("NOR", 8, 6, 1, 2), I("ANDI", 8, 7, 1, 0, -1),
            I("ORI", 8, 8, 1, 0, 5), I("XORI", 8, 9, 1, 0, -2), I("LUI", 4, 0, 0, 0, 1), I("LUI", 4, 3, 0, 0, -2)>>),
   Common(<<I("SLL", 4, 3, 0, 1, 3), I("SRL", 4, 4, 0, 1, 2), I("SRA", 4, 5, 0, 1, 2), R("SLLV", 4, 6, 2, 1),
            R("SRLV", 4, 7, 2, 1), R("SRAV", 4, 8, 2, 1)>>),
   Common(<<R("BEQ", 8, 0, 1, 2), R("BNE", 8, 0, 1, 2), R("BLEZ", 8, 0, 1, 0), R("BGTZ", 8, 0, 1, 0), R("BLTZ", 8, 0, 1, 0),
            R("BGEZ", 8, 0, 1, 0)>>)} \cup
  {Common(<<R("MTLO", 8, 1, 0, 0), R("MTHI", 8, 2, 0, 0), R(op, 4, 0, 1, 2), R("MFLO", 8, 3, 0, 0), R("MFHI", 8, 4, 0, 0)>>) :
     op \in {"MULT", "MULTU", "DIV", "DIVU"}} \cup
  {Common(<<I("SLEFT", 4, 0, 0, 1, a), I("LLEFT", 4, 2, 0, 0, a + 1), I("SRIGHT", 4, 0, 0, 2, a + 3), I("LRIGHT", 4, 3, 0, 0, a + 2)>>) :
     a \in 4..7} \cup
  {Common(<<I("S", w, 0, 0, 1, 4), I("L", w, 3, 0, 0, 4), I("LU", IF w = 4 THEN 2 ELSE w, 4, 0, 0, 6), I("S", w, 0, 0, 2, 5),
            I("L", 4, 5, 0, 0, 4)>>) : w \in {1, 2, 4}}

\* The remaining instructions, one after another.
Rest == P("none", <<
  R("PABSW", 4, 3, 0, 1), R("PLZCW", 4, 3, 1, 0), I("SRL", 4, 4, 0, 1, 1), R("QFSRV", 16, 3, 1, 2), R("AND", 8, 3, 1, 2),
  R("XOR", 8, 3, 1, 2), R("NOR", 8, 3, 1, 2), R("PAND", 16, 3, 1, 2), R("PXOR", 16, 3, 1, 2), I("ANDI", 8, 3, 1, 0, -1),
  I("XORI", 8, 3, 1, 0, 5), R("ADD", 4, 3, 1, 2), I("ADDI", 4, 3, 1, 0, -3), I("ADDIU", 4, 3, 1, 0, -3), R("DADD", 8, 3, 1, 2),
  I("DADDI", 8, 3, 1, 0, 7), I("DADDIU", 8, 3, 1, 0, 7), R("DADDU", 8, 3, 1, 2), R("DSUB", 8, 3, 1, 2), R("DSUBU", 8, 3, 1, 2),
  R("SUB", 4, 3, 1, 2), R("SUBU", 4, 3, 1, 2), R("PEXT5", 4, 3, 0, 1), R("PPAC5", 4, 3, 0, 1), R("PDIVBW", 4, 0, 1, 2),
  R("MADD", 4, 3, 1, 2), R("MADDU", 4, 3, 1, 2), R("PHMADH", 4, 3, 1, 2), R("PHMSBH", 4, 3, 1, 2), R("PMULTH", 4, 3, 1, 2),
  R("PMULTW", 4, 3, 1, 2), R("PMULTUW", 4, 3, 1, 2), R("PMADDW", 4, 3, 1, 2), R("PMADDUW", 4, 3, 1, 2), R("PMSUBW", 4, 3, 1, 2),
  R("MFLO1", 8, 3, 0, 0), R("MFHI1", 8, 3, 0, 0), R("PMFHI", 16, 3, 0, 0)>>
  \o [k \in 1..5 |-> R("PMFHL", <<"LW", "UW", "SLW", "LH", "SH">>[k], 3, 0, 0)] \o <<
  R("MOVN", 8, 3, 1, 2), R("MOVZ", 8, 3, 1, 2), R("MTLO", 8, 1, 0, 0), R("MTHI", 8, 1, 0, 0), R("MTLO1", 8, 1, 0, 0),
  R("MTHI1", 8, 1, 0, 0), R("PMTHL", 4, 0, 1, 0), R("MTSA", 4, 0, 1, 0), R("MFSA", 8, 3, 0, 0), I("MTSAB", 4, 0, 1, 0, 3),
  R("QFSRV", 16, 3, 1, 2), I("MTSAH", 4, 0, 1, 0, 5), R("QFSRV", 16, 3, 1, 2), I("LUI", 4, 3, 0, 0, -2), R("TEQ", 8, 0, 1, 2),
  R("TNE", 8, 0, 1, 2), R("BLEZ", 8, 0, 1, 0), R("BGTZ", 8, 0, 1, 0), R("BLTZ", 8, 0, 1, 0), R("BGEZ", 8, 0, 1, 0),
  I("TEQI", 8, 0, 1, 0, 3), I("TNEI", 8, 0, 1, 0, 3)>>)

MCPrograms == SumPrograms \cup LanePrograms \cup ReorderPrograms \cup DivisionPrograms \cup ShiftPrograms
              \cup MemoryPrograms \cup AccumulatorPrograms \cup ComparisonPrograms
              \cup CommonPrograms \cup {Rest}

\* Quads with lanes at the ends of the signed and the unsigned range, and mixed ones.
Mixed == [k \in 0..15 |-> (k * k + k \div 3) % Base]
Ends == FromLanes(2, LAMBDA k : <<SignedMin(2), SignedMax(2), 0, -1, 1, SignedMin(2), -1, SignedMax(2)>>[k + 1])
Words == FromLanes(4, LAMBDA k : <<SignedMin(4), -1, SignedMax(4), 3>>[k + 1])
Minus == FromLanes(4, LAMBDA k : <<-1, SignedMin(4), -3, SignedMin(4)>>[k + 1])
Small == FromLanes(2, LAMBDA k : <<5, 0, -2, -1, 9, 1, 3, 0>>[k + 1])
MCQuads == {Mixed, Ends, Words, Minus, Small, Zeroes}
MCOperands == MCQuads \X MCQuads
MCMemories == {[b \in 0..MemoryTop - 1 |-> (b + b \div 4) % Base]}
-----------------------------------------------------------------------------
Agree(law) == Done /\ program.law = law => gpr[8] = gpr[9]

\* Each parallel sum is the complement of the difference with a complement: wrapping, clamped to the
\* signed range and clamped to the unsigned one (PADD*, PSUB* in CEeCoreInterpreter_INTEGER_ADD_SUB.cpp).
SumsDual == Agree("SumsDual")

\* An instruction on lanes treats them alike and apart from each other: to permute its operands
\* is to permute its result.
LanesApart == Agree("LanesApart")

\* The reorderings undo and compose each other as the ones they are built like.
ReorderingsInvert == Agree("ReorderingsInvert")

\* The quotient and the remainder that a division leaves in LO and HI give back the dividend.
DivisionsRestore ==
  Done /\ program.law = "DivisionsRestore" /\ Word(gpr[2], 0) # 0 => gpr[8] = gpr[9]

\* A shift by an immediate, by a register, of a half of a doubleword and of a lane are the same shift.
ShiftFormsAgree == Agree("ShiftFormsAgree")

\* A word or doubleword stored in parts and loaded in parts, at any alignment, is whole, and the
\* memory around it is as it was.
UnalignedWhole ==
  /\ Agree("UnalignedWhole")
  /\ Done /\ program.law = "UnalignedWhole" =>
       \A b \in 0..MemoryTop - 1 :
         \/ \E k \in DOMAIN program.code : LET j == program.code[k] IN
              \/ j.op = "S" /\ b \in j.imm..j.imm + j.w - 1
              \/ j.op = "SRIGHT" /\ b \in j.imm..j.imm + j.w - 1
         \/ \E m \in Memories : m[b] = mem[b]

\* Subtracting the products that were added restores the accumulators in LO and HI.
AccumulatorsRestored ==
  Agree("AccumulatorsRestored") /\ (Done /\ program.law = "AccumulatorsRestored" => hi = gpr[2])

\* A comparison into a register, a branch on that register and the trap of the same comparison agree.
ComparisonsAgree ==
  Done /\ program.law = "ComparisonsAgree" =>
    taken = IF Dword(gpr[8], 0) = 1 THEN <<"BNE", program.code[3].op>> ELSE <<program.code[4].op, "BEQ">>
=============================================================================
