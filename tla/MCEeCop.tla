------------------------------- MODULE MCEeCop -------------------------------
(***************************************************************************)
(* Programs for EeCop, each of a law that its end, or every state of it,   *)
(* keeps.  VF1, VF2, FPR1 and FPR2 hold the operands and are not written.  *)
(***************************************************************************)
EXTENDS EeCop

All == Fields
Inst(cop, op, form, dest, fd, fs, ft, bc, number) ==
  [cop |-> cop, op |-> op, form |-> form, dest |-> dest, fd |-> fd, fs |-> fs, ft |-> ft, bc |-> bc,
   fsf |-> bc, ftf |-> bc, number |-> number]
F(op, fd, fs, ft) == Inst(1, op, "v", {}, fd, fs, ft, X, 0)
V(op, fd, fs, ft) == Inst(2, op, "v", All, fd, fs, ft, X, 0)
VX(op, fd, fs, ft) == Inst(2, op, "v", {X}, fd, fs, ft, X, 0)
VB(op, form, fd, fs, ft, bc) == Inst(2, op, form, All, fd, fs, ft, bc, 0)
VN(op, fs, ft, number) == Inst(2, op, "v", All, 0, fs, ft, X, number)
P(law, code) == [law |-> law, code |-> code]

\* Sequences of sums and products, with each form of the second operand.
FlagPrograms ==
  {P("PsFloatsKept", <<V(op, 3, 1, 2), V("VMUL", 4, 3, 1), VB(op, "bc", 4, 4, 2, Z), V("VSUB", 5, 4, 3), VB(op, "q", 5, 5, 0, X)>>) :
     op \in {"VADD", "VADDA", "VSUB", "VSUBA", "VMUL", "VMULA", "VMADD", "VMADDA", "VMSUB", "VMSUBA", "VOPMULA", "VOPMSUB"}} \cup
  {P("PsFloatsKept", <<F("MULA_S", 0, 1, 2), F("ADD_S", 3, 1, 2), F(op, 4, 3, 2), F(op, 4, 4, 4), F("MUL_S", 5, 4, 4)>>) :
     op \in ToFpr \cup ToAcc \cup {"DIV_S", "SQRT_S", "RSQRT_S", "ABS_S", "NEG_S", "MAX_S", "MIN_S"}} \cup
  {P("PsFloatsKept", <<VB(op, "v", 0, 1, 2, W), VB("VADD", "q", 3, 1, 0, X), V(op, 3, 2, 3), VB("VMUL", "q", 4, 3, 0, X)>>) :
     op \in {"VDIV", "VSQRT", "VRSQRT"}} \cup
  {P("PsFloatsKept", <<V(op, 3, 1, 2), VB(op, "bc", 4, 1, 2, Y), V("VABS", 0, 1, 5), VB(op, "i", 5, 2, 0, X)>>) : op \in {"VMAX", "VMINI"}}

\* The same in both coprocessors.
Pairs == {<<"VADD", "ADD_S">>, <<"VSUB", "SUB_S">>, <<"VMUL", "MUL_S">>, <<"VMADD", "MADD_S">>, <<"VMSUB", "MSUB_S">>,
          <<"VMAX", "MAX_S">>, <<"VMINI", "MIN_S">>}
AccPairs == {<<"VADDA", "ADDA_S">>, <<"VSUBA", "SUBA_S">>, <<"VMULA", "MULA_S">>, <<"VMADDA", "MADDA_S">>, <<"VMSUBA", "MSUBA_S">>}
DividePairs == {<<"VDIV", "DIV_S">>, <<"VSQRT", "SQRT_S">>, <<"VRSQRT", "RSQRT_S">>}
AgreePrograms ==
  {P("CoprocessorsAgree", <<VX("VADDA", 0, 1, 0), F("ADDA_S", 0, 1, 0), VX(pair[1], 3, 1, 2), F(pair[2], 3, 1, 2)>>) : pair \in Pairs} \cup
  {P("CoprocessorsAgree", <<VX("VADDA", 0, 1, 0), F("ADDA_S", 0, 1, 0), VX(pair[1], 3, 1, 2), F(pair[2], 3, 1, 2),
                            VX("VMADD", 3, 0, 0), F("MADD_S", 3, 0, 0)>>) : pair \in AccPairs} \cup
  {P("CoprocessorsAgree", <<VX(pair[1], 3, 1, 2), F(pair[2], 3, 1, 2), Inst(2, "VADD", "q", {X}, 3, 0, 0, X, 0)>>) : pair \in DividePairs}

\* A multiplication and addition in one instruction and in two.
ProductPrograms ==
  {P("ProductsCompose", <<V("VADDA", 0, 1, 0), V("VMADD", 3, 1, 2), V("VMUL", 4, 1, 2), V("VADD", 4, 1, 4)>>),
   P("ProductsCompose", <<V("VADDA", 0, 1, 0), V("VMSUB", 3, 1, 2), V("VMUL", 4, 1, 2), V("VSUB", 4, 1, 4)>>),
   P("ProductsCompose", <<V("VSUBA", 0, 1, 0), V("VMADDA", 0, 1, 2), V("VMADD", 3, 0, 0), V("VMUL", 4, 1, 2), V("VADD", 4, 1, 4)>>)}
CrossPrograms ==
  {P("CrossOpposed", <<V("VOPMULA", 0, 1, 2), V("VOPMSUB", 3, 2, 1), V("VOPMULA", 0, 2, 1), V("VOPMSUB", 4, 1, 2)>>)}

ClipPrograms ==
  {P("Clip", <<V("VCLIP", 0, 1, 2), V("VCLIP", 0, 2, 1), V("VADD", 3, 1, 2), V("VCLIP", 0, 3, 2), V("VCLIP", 0, 3, 1), V("VCLIP", 0, 1, 2)>>)}

RandomPrograms ==
  {P("RandomInRange", <<VB("VRINIT", "v", 0, 1, 0, c), V("VRNEXT", 0, 0, 3), VB("VRXOR", "v", 0, 0, 2, c), V("VRNEXT", 0, 0, 3),
                        V("VRNEXT", 0, 0, 3), V("VRGET", 0, 0, 3)>>) : c \in {X, W}}

\* Two vectors pushed and popped, growing upwards and downwards, at the register's end too.
StackPrograms ==
  {P("StackRestores", <<VN("VIADDI", 0, 1, n), VN("VIADDI", 0, 2, n), V("VSQI", 0, 1, 1), V("VSQI", 0, 2, 1),
                        V("VLQD", 0, 1, 3), V("VLQD", 0, 1, 4)>>) : n \in {1, 6}} \cup
  {P("StackRestores", <<VN("VIADDI", 0, 1, n), VN("VIADDI", 0, 2, n), V("VSQD", 0, 1, 1), V("VSQD", 0, 2, 1),
                        V("VLQI", 0, 1, 3), V("VLQI", 0, 1, 4)>>) : n \in {1, 3}} \cup
  {P("StackRestores", <<VN("VIADDI", 0, 1, 1), VN("VIADDI", 0, 2, 1), V("VSQI", 0, 1, 1), Inst(2, "VSQI", "v", {X, W}, 0, 2, 1, X, 0),
                        Inst(2, "VLQD", "v", {X, W}, 0, 1, 3, X, 0), V("VLQD", 0, 1, 4)>>)}

\* (a & b) + (a | b) = a + b, and b taken away again.
IntegerPrograms ==
  {P("IntegersCompose", <<VN("VMTIR", 1, 1, 0), VN("VMTIR", 2, 2, 0), VN("VIADDI", 1, 3, 0), VN("VIADDI", 1, 4, 0), VN("VIADDI", 1, 5, 0),
                          VN("VIAND", 3, 2, 0), VN("VIOR", 4, 2, 0), VN("VIADD", 3, 4, 0), VN("VIADD", 1, 2, 0), VN("VISUB", 3, 2, 0),
                          VN("VIADDI", 5, 1, 0)>>)}

ConvertPrograms ==
  {P("ConversionsInvert", <<VN("VITOF", 1, 3, n), VN("VFTOI", 3, 4, n), F("CVT_S_W", 3, 1, 0), F("CVT_W_S", 4, 3, 0)>>) : n \in {0, 1}}

\* Transfers, and what goes astray.
MovePrograms ==
  {P("Moves", <<V("QMFC2", 1, 0, 1), V("QMTC2", 3, 0, 1), V("CTC2", 1, 0, 1), V("CTC2", r, 0, 1), V("CFC2", r, 0, 2), V("CFC2", 1, 0, 3),
                F("MFC1", 0, 1, 1), F("MTC1", 4, 4, 1), F("MOV_S", 5, 4, 0), F("CVT_W_S", 3, 2, 0), VN("VFTOI", 2, 5, 0)>>) : r \in {20, 21, 22}} \cup
  {P("Moves", <<VN("VIADDI", 0, 1, 2), V(op, 0, 1, 3), V("VISWR", 0, 1, 1), Inst(2, "VILWR", "v", {Z}, 0, 1, 2, X, 0), V("VILWR", 0, 1, 2)>>) :
     op \in {"VMOVE", "VMFIR", "VMR32"}} \cup
  {P("Moves", <<V(op, 0, 0, 3), F(compare, 0, 1, 2)>>) : op \in {"VMOVE", "VMR32"}, compare \in {"C_EQ_S", "C_F_S", "C_LE_S", "C_LT_S"}}

MCPrograms == FlagPrograms \cup AgreePrograms \cup ProductPrograms \cup CrossPrograms \cup ClipPrograms \cup RandomPrograms
              \cup StackPrograms \cup IntegerPrograms \cup ConvertPrograms \cup MovePrograms

Vector(a, b, c, d) == [f \in Fields |-> IF f = X THEN a ELSE IF f = Y THEN b ELSE IF f = Z THEN c ELSE d]
\* Zeroes, ones, a half, the least and the greatest, of either sign.
MCVectors1 == {Vector(0, One, 2, Fmax), Vector(SignBit + One, Fmax, SignBit, 4), Vector(3, SignBit + 12, 20, SignBit + 2),
               Vector(7, SignBit + Fmax, 30, 5), Vector(MinNormal, 6, SignBit + Fmax, 0)}
MCVectors2 == {Vector(One, 0, 2, SignBit + 3), Vector(SignBit + Fmax, 24, 9, One), Vector(SignBit, 5, 2, 2),
               Vector(5, SignBit + 7, Fmax, SignBit + 9), Vector(MinNormal, SignBit + One, 18, 0)}
\* A word that no PlayStation 2 float is, as a transfer from a general register can bring it.
MCAstray == Vector(Infinity, 1, NotANumber, SignBit + 1)
MCOperands == (MCVectors1 \X MCVectors2) \cup {<<MCAstray, Vector(One, 12, 0, NotANumber)>>}
MCUndefinedWords == {0, SignBit}
-----------------------------------------------------------------------------
Ended(law) == program.law = law /\ pc > Len(program.code) /\ unusable = 0
OperandsFloat == \A f \in Fields : vu.vf[1][f] \in PsFloats /\ vu.vf[2][f] \in PsFloats

\* From operands that a PlayStation 2 has, the sums, products, quotients and roots of both units leave only
\* such in every register, with no infinity and no NaN for the next instruction (to_ps2_float).
PsFloatsKept ==
  program.law \in {"PsFloatsKept", "ProductsCompose", "CrossOpposed", "CoprocessorsAgree"} /\ OperandsFloat =>
    /\ \A n \in 0..VfRegisters - 1 : fpr[n] \in PsFloats /\ \A f \in Fields : vu.vf[n][f] \in PsFloats
    /\ facc \in PsFloats /\ vu.q \in PsFloats /\ \A f \in Fields : vu.acc[f] \in PsFloats

\* The FPU's instruction and the vector unit's for one field give the same number, where the code does not set
\* out to differ: a divisor is not zero, and the product of a sum is one that needs no clamping.
CoprocessorsAgree ==
  Ended("CoprocessorsAgree") /\ OperandsFloat /\ ~IsZero(vu.vf[2][X]) /\ Times(vu.vf[1][X], vu.vf[2][X]) \in PsFloats =>
    Value(vu.vf[3][X]) = Value(fpr[3])

\* MADD, MADDA and MSUB are the product and then the sum or difference, each clamped.
ProductsCompose == Ended("ProductsCompose") /\ OperandsFloat => \A f \in Fields : Value(vu.vf[3][f]) = Value(vu.vf[4][f])

\* The outer product of two vectors is the opposite of that of the two swapped.
CrossOpposed ==
  Ended("CrossOpposed") /\ OperandsFloat /\ vu.sticky \cap {"U", "O"} = {} =>
    \A f \in {X, Y, Z} : Value(vu.vf[3][f]) = -Value(vu.vf[4][f])

\* Once it is initialised the random register is a number from 1 to 2.
RandomInRange == program.law = "RandomInRange" /\ 2 \in usable /\ pc > 1 => vu.r \in One..2 * One - 1

\* What SQI pushed LQD pops, and what SQD pushed LQI pops, and the pointer is back where it was.
StackRestores ==
  Ended("StackRestores") => /\ vu.vf[4] = vu.vf[1] /\ vu.vi[1] = vu.vi[2]
                            /\ program.code[4].dest = All => vu.vf[3] = vu.vf[2]

\* The integer instructions agree with each other, over the width of a register.
IntegersCompose == Ended("IntegersCompose") => vu.vi[3] = vu.vi[1]

\* An integer that a float can hold comes back from it, in each unit and with each number of fraction bits.
ConversionsInvert ==
  Ended("ConversionsInvert") =>
    /\ \A f \in Fields : vu.vf[1][f] * One <= Fmax => vu.vf[4][f] = vu.vf[1][f]
    /\ fpr[1] * One <= Fmax => fpr[4] = fpr[1]
=============================================================================
