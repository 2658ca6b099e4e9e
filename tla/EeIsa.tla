-------------------------------- MODULE EeIsa --------------------------------
(***************************************************************************)
(* The EE core's interpreter running a straight program on its registers   *)
(* (liborbum/src/Controller/Ee/Core/Interpreter): the integer and          *)
(* multimedia instructions, the loads and stores, and the conditions of    *)
(* branches and traps.  When an instruction runs, how an exception or a    *)
(* branch goes on and how an address is translated is EeCore's subject.    *)
(* An instruction has its operation, the width of its lanes, the registers *)
(* rd (the destination, also of those that encode it in Rt), rs and rt,    *)
(* and an immediate.                                                       *)
(***************************************************************************)
EXTENDS EeMultiply, EeMoves

CONSTANTS
  Programs,       \* records: a law and the sequence of instructions it is about
  Operands,       \* the pairs of quads that R1 and R2 hold at first
  Memories        \* what the memory holds at first

Registers == 0..9

VARIABLES program, pc, gpr, lo, hi, sa, mem,
  wide,           \* whether the build computes an overflowing sum of ints in 64 bits
  taken           \* a history: which of the branches and traps were taken

vars == <<program, pc, gpr, lo, hi, sa, mem, wide, taken>>

Zeroes == [k \in 0..15 |-> 0]

Init ==
  /\ program \in Programs /\ pc = 1
  /\ \E quads \in Operands :
       gpr = [r \in Registers |-> IF r = 1 THEN quads[1] ELSE IF r = 2 THEN quads[2] ELSE Zeroes]
  /\ lo = Zeroes /\ hi = Zeroes /\ sa = 0 /\ mem \in Memories
  /\ wide \in BOOLEAN /\ taken = <<>>

Done == pc > Len(program.code)
i == program.code[pc]
S == gpr[i.rs]
T == gpr[i.rt]
D == gpr[i.rd]

\* Register 0 is read only.
Writes(q) == gpr' = IF i.rd = 0 THEN gpr ELSE [gpr EXCEPT ![i.rd] = q]
Runs(ops) == ~Done /\ i.op \in ops /\ pc' = pc + 1 /\ UNCHANGED <<program, wide>>
-----------------------------------------------------------------------------
LaneOps == {"PADD", "PADDS", "PADDU", "PSUB", "PSUBS", "PSUBU", "PCEQ", "PCGT", "PMAX", "PMIN"}
LaneOp(op, w, a, b) ==
  CASE op = "PADD" -> Padd(w, a, b) [] op = "PSUB" -> Psub(w, a, b)
    [] op = "PADDS" -> PaddSigned(w, a, b) [] op = "PSUBS" -> PsubSigned(w, a, b)
    [] op = "PADDU" -> PaddUnsigned(w, a, b) [] op = "PSUBU" -> PsubUnsigned(w, a, b)
    [] op = "PCEQ" -> Pceq(w, a, b) [] op = "PCGT" -> Pcgt(w, a, b)
    [] op = "PMAX" -> Pmax(w, a, b) [] op = "PMIN" -> Pmin(w, a, b)
RunLanes == /\ Runs(LaneOps)
            /\ Writes(Lanewise(i.w, LAMBDA a, b : LaneOp(i.op, i.w, a, b), S, T))
            /\ UNCHANGED <<lo, hi, sa, mem, taken>>

\* An overflow raises an exception, and the destination stays.
RunSum == /\ Runs(SumOps)
          /\ IF SumTraps(i.op, S, T, i.imm) THEN UNCHANGED gpr /\ taken' = Append(taken, i.op)
             ELSE Writes(Sum(i.op, S, T, D, i.imm, wide)) /\ UNCHANGED taken
          /\ UNCHANGED <<lo, hi, sa, mem>>

OtherAlu == {"PADSBH", "PABSH", "PABSW", "PLZCW", "SLT", "SLTU", "SLTI", "SLTIU", "QFSRV",
             "AND", "OR", "XOR", "NOR", "PAND", "POR", "PXOR", "PNOR", "ANDI", "ORI", "XORI"}
RunOther ==
  /\ Runs(OtherAlu)
  /\ Writes(CASE i.op = "PADSBH" -> Padsbh(S, T) [] i.op = "PABSH" -> Pabsh(T) [] i.op = "PABSW" -> Pabsw(T)
              [] i.op = "PLZCW" -> Plzcw(S, D) [] i.op = "QFSRV" -> Qfsrv(S, T, sa)
              [] i.op \in {"SLT", "SLTU", "SLTI", "SLTIU"} -> Low(D, IF LessThan(i.op, S, T, i.imm) THEN 1 ELSE 0)
              [] i.op \in {"AND", "OR", "XOR", "NOR"} -> LowLogical(i.op, S, T, D)
              [] i.op = "PAND" -> Logical("AND", S, T) [] i.op = "POR" -> Logical("OR", S, T)
              [] i.op = "PXOR" -> Logical("XOR", S, T) [] i.op = "PNOR" -> Logical("NOR", S, T)
              [] i.op = "ANDI" -> LowLogical("AND", S, Immediate(i.imm), D)
              [] i.op = "ORI" -> LowLogical("OR", S, Immediate(i.imm), D)
              [] i.op = "XORI" -> LowLogical("XOR", S, Immediate(i.imm), D))
  /\ UNCHANGED <<lo, hi, sa, mem, taken>>

Kind(op) ==
  CASE op \in {"SLL", "SLLV", "DSLL", "DSLL32", "DSLLV", "PSLL", "PSLLVW"} -> "left"
    [] op \in {"SRL", "SRLV", "DSRL", "DSRL32", "DSRLV", "PSRL", "PSRLVW"} -> "logical"
    [] op \in {"SRA", "SRAV", "DSRA", "DSRA32", "DSRAV", "PSRA", "PSRAVW"} -> "arithmetic"
Shifts == [by_imm |-> {"SLL", "SRL", "SRA"}, by_reg |-> {"SLLV", "SRLV", "SRAV"},
           d_by_imm |-> {"DSLL", "DSRL", "DSRA"}, d_by_more |-> {"DSLL32", "DSRL32", "DSRA32"},
           d_by_reg |-> {"DSLLV", "DSRLV", "DSRAV"}, lanes |-> {"PSLL", "PSRL", "PSRA"},
           words |-> {"PSLLVW", "PSRLVW", "PSRAVW"}]
RunShift ==
  /\ Runs(UNION {Shifts[f] : f \in DOMAIN Shifts})
  /\ Writes(CASE i.op \in Shifts.by_imm -> WordShift(Kind(i.op), T, D, i.imm)
              [] i.op \in Shifts.by_reg -> WordShift(Kind(i.op), T, D, Counted(4, Word(S, 0)))
              [] i.op \in Shifts.d_by_imm -> DoubleShift(Kind(i.op), T, D, i.imm)
              [] i.op \in Shifts.d_by_more -> DoubleShift(Kind(i.op), T, D, i.imm + Bits(4))
              [] i.op \in Shifts.d_by_reg -> DoubleShift(Kind(i.op), T, D, Counted(8, Word(S, 0)))
              [] i.op \in Shifts.lanes -> LaneShift(Kind(i.op), i.w, T, Counted(i.w, i.imm))
              [] i.op \in Shifts.words -> VariableShift(Kind(i.op), S, T, D))
  /\ UNCHANGED <<lo, hi, sa, mem, taken>>

Exchanges == {"PEXCH", "PEXEH", "PREVH", "PCPYH", "PEXCW", "PEXEW", "PROT3W"}
RunReorder ==
  /\ Runs(Exchanges \cup {"PEXTL", "PEXTU", "PINTH", "PINTEH", "PPAC", "PCPYLD", "PCPYUD", "PEXT5", "PPAC5"})
  /\ Writes(CASE i.op \in Exchanges -> Exchange(i.op, T)
              [] i.op = "PEXTL" -> ExtendLower(i.w, S, T) [] i.op = "PEXTU" -> ExtendUpper(i.w, S, T)
              [] i.op = "PINTH" -> Pinth(S, T) [] i.op = "PINTEH" -> Pinteh(S, T)
              [] i.op = "PPAC" -> Pack(i.w, S, T)
              [] i.op = "PCPYLD" -> Pcpyld(S, T) [] i.op = "PCPYUD" -> Pcpyud(S, T)
              [] i.op = "PEXT5" -> Pext5(T) [] i.op = "PPAC5" -> Ppac5(T, D))
  /\ UNCHANGED <<lo, hi, sa, mem, taken>>
-----------------------------------------------------------------------------
Divisions == {"DIV", "DIVU"}
Products == {"MULT", "MULTU"}
HalfProducts == {"PMULTH", "PMADDH", "PMSUBH"}
WordProducts == {"PMULTW", "PMULTUW", "PMADDW", "PMADDUW", "PMSUBW"}
MultiplyOps == Divisions \cup {"PDIVW", "PDIVUW", "PDIVBW", "MADD", "MADDU", "PHMADH", "PHMSBH"}
               \cup Products \cup HalfProducts \cup WordProducts
Multiplied ==
  LET m == [lo |-> lo, hi |-> hi, d |-> D]
  IN  CASE i.op \in Divisions -> Div(i.op, m, S, T)
        [] i.op \in {"PDIVW", "PDIVUW", "PDIVBW"} -> ParallelDiv(i.op, m, S, T)
        [] i.op \in Products -> Mult(i.op, m, S, T)
        [] i.op \in {"MADD", "MADDU"} -> Madd(i.op, m, S, T, wide)
        [] i.op \in HalfProducts -> ParallelHalf(i.op, m, S, T)
        [] i.op \in {"PHMADH", "PHMSBH"} -> HorizontalHalf(i.op, m, S, T)
        [] i.op \in WordProducts -> ParallelWord(i.op, m, S, T)
RunMultiply ==
  /\ Runs(MultiplyOps)
  /\ lo' = Multiplied.lo /\ hi' = Multiplied.hi /\ Writes(Multiplied.d)
  /\ UNCHANGED <<sa, mem, taken>>

RunFrom ==
  /\ Runs({"MFLO", "MFHI", "MFLO1", "MFHI1", "PMFLO", "PMFHI", "PMFHL", "MOVN", "MOVZ", "MFSA"})
  /\ Writes(CASE i.op = "MFLO" -> FromHalf(lo, D, 0) [] i.op = "MFHI" -> FromHalf(hi, D, 0)
              [] i.op = "MFLO1" -> FromHalf(lo, D, 1) [] i.op = "MFHI1" -> FromHalf(hi, D, 1)
              [] i.op = "PMFLO" -> lo [] i.op = "PMFHI" -> hi
              [] i.op = "PMFHL" -> Pmfhl(i.w, lo, hi) [] i.op = "MFSA" -> Low(D, sa)
              [] i.op \in {"MOVN", "MOVZ"} -> MovedIf(i.op, S, T, D))
  /\ UNCHANGED <<lo, hi, sa, mem, taken>>
RunTo ==
  /\ Runs({"MTLO", "MTHI", "MTLO1", "MTHI1", "PMTLO", "PMTHI", "PMTHL", "MTSA", "MTSAB", "MTSAH"})
  /\ lo' = CASE i.op = "MTLO" -> ToHalf(lo, D, 0) [] i.op = "MTLO1" -> ToHalf(lo, D, 1)
             [] i.op = "PMTLO" -> S [] i.op = "PMTHL" -> PmthlLo(lo, S) [] OTHER -> lo
  /\ hi' = CASE i.op = "MTHI" -> ToHalf(hi, D, 0) [] i.op = "MTHI1" -> ToHalf(hi, D, 1)
             [] i.op = "PMTHI" -> S [] i.op = "PMTHL" -> PmthlHi(hi, S) [] OTHER -> hi
  /\ sa' = CASE i.op = "MTSA" -> Word(S, 0) [] i.op = "MTSAB" -> ShiftAmount(1, S, i.imm)
             [] i.op = "MTSAH" -> ShiftAmount(2, S, i.imm) [] OTHER -> sa
  /\ UNCHANGED <<gpr, mem, taken>>
-----------------------------------------------------------------------------
Address == (Word(S, 0) + i.imm) % MemoryTop
RunLoad ==
  /\ Runs({"L", "LU", "LQ", "LLEFT", "LRIGHT", "LUI"})
  /\ Writes(CASE i.op = "L" -> Load(i.w, mem, Address, D) [] i.op = "LU" -> LoadUnsigned(i.w, mem, Address, D)
              [] i.op = "LQ" -> LoadQuad(mem, Address)
              [] i.op = "LLEFT" -> PartLoaded(i.w, D, LoadLeft(i.w, mem, Address, D))
              [] i.op = "LRIGHT" -> PartLoaded(i.w, D, LoadRight(i.w, mem, Address, D))
              [] i.op = "LUI" -> LowSigned(D, i.imm * Top(2)))
  /\ UNCHANGED <<lo, hi, sa, mem, taken>>
RunStore ==
  /\ Runs({"S", "SLEFT", "SRIGHT"})
  /\ mem' = CASE i.op = "S" -> Store(i.w, mem, Address, T) [] i.op = "SLEFT" -> StoreLeft(i.w, mem, Address, T)
              [] i.op = "SRIGHT" -> StoreRight(i.w, mem, Address, T)
  /\ UNCHANGED <<gpr, lo, hi, sa, taken>>

\* The conditions of the branches and of the traps, which compare whole doublewords.
Compares(op, s, t, imm) ==
  CASE op \in {"BEQ", "TEQ"} -> Dword(s, 0) = Dword(t, 0)
    [] op \in {"BNE", "TNE"} -> Dword(s, 0) # Dword(t, 0)
    [] op = "BLEZ" -> SignedLane(s, 8, 0) <= 0 [] op = "BGTZ" -> SignedLane(s, 8, 0) > 0
    [] op = "BLTZ" -> SignedLane(s, 8, 0) < 0 [] op = "BGEZ" -> SignedLane(s, 8, 0) >= 0
Traps(op, s, t, imm) ==
  CASE op = "TGE" -> ~LessThan("SLT", s, t, imm) [] op = "TLT" -> LessThan("SLT", s, t, imm)
    [] op = "TGEU" -> ~LessThan("SLTU", s, t, imm) [] op = "TLTU" -> LessThan("SLTU", s, t, imm)
    [] op = "TGEI" -> ~LessThan("SLTI", s, t, imm) [] op = "TLTI" -> LessThan("SLTI", s, t, imm)
    [] op = "TGEIU" -> ~LessThan("SLTIU", s, t, imm) [] op = "TLTIU" -> LessThan("SLTIU", s, t, imm)
    [] op = "TEQI" -> SignedLane(s, 8, 0) = imm [] op = "TNEI" -> SignedLane(s, 8, 0) # imm
Branches == {"BEQ", "TEQ", "BNE", "TNE", "BLEZ", "BGTZ", "BLTZ", "BGEZ"}
RunCondition ==
  /\ Runs(Branches \cup {"TGE", "TLT", "TGEU", "TLTU", "TGEI", "TLTI", "TGEIU", "TLTIU", "TEQI", "TNEI"})
  /\ taken' = IF (IF i.op \in Branches THEN Compares(i.op, S, T, i.imm) ELSE Traps(i.op, S, T, i.imm))
              THEN Append(taken, i.op) ELSE taken
  /\ UNCHANGED <<gpr, lo, hi, sa, mem>>

Next == \/ RunLanes \/ RunSum \/ RunOther \/ RunShift \/ RunReorder \/ RunMultiply
        \/ RunFrom \/ RunTo \/ RunLoad \/ RunStore \/ RunCondition

Spec == Init /\ [][Next]_vars
-----------------------------------------------------------------------------
\* The registers hold bytes, and SA a word.
TypeOK ==
  /\ program \in Programs /\ pc \in 1..Len(program.code) + 1
  /\ gpr \in [Registers -> Quads] /\ gpr[0] = Zeroes
  /\ lo \in Quads /\ hi \in Quads /\ sa \in 0..Top(4) - 1
  /\ mem \in [0..MemoryTop - 1 -> Bytes]
  /\ wide \in BOOLEAN /\ taken \in Seq({each.op : each \in {program.code[k] : k \in DOMAIN program.code}})
=============================================================================
