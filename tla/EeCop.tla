-------------------------------- MODULE EeCop --------------------------------
(***************************************************************************)
(* The EE core's coprocessors 1, the FPU, and 2, the vector unit VU0 in    *)
(* macro mode, running a straight program                                  *)
(* (liborbum/src/Controller/Ee/Core/Interpreter: CEeCoreInterpreter_FLOAT, *)
(* ..._COP2 and the *_S instructions of the other files).  An instruction  *)
(* of a coprocessor that Status does not enable raises an exception and    *)
(* does nothing else; those of COP2 hand themselves on to the vector       *)
(* unit's.  For COP1 an instruction's fs, ft and fd are the FPU's.         *)
(***************************************************************************)
EXTENDS Vu

CONSTANTS
  Programs,       \* records: a law, the sequence of instructions, and whether each is enabled
  Operands,       \* pairs of vectors, for VF1 and VF2, and their fields x for FPR1 and FPR2
  UndefinedWords  \* what a cast with no defined result gives

VARIABLES program, pc, fpr, facc, csr, vu,
  gpr,            \* the general purpose registers that the transfers use
  usable,         \* the coprocessors that Status.CU enables
  unusable,       \* a history: how often the exception was raised
  seen,           \* a history: the flags that were ever set in a MAC register or a csr
  judged          \* a history: the judgements of the CLIPs, newest first

vars == <<program, pc, fpr, facc, csr, vu, gpr, usable, unusable, seen, judged>>

NoSeen == [cop1 |-> {}, cop2 |-> {}]

Init ==
  /\ program \in Programs /\ pc = 1
  /\ \E v \in Operands :
       /\ fpr = [n \in 0..VfRegisters - 1 |-> IF n = 1 THEN v[1][X] ELSE IF n = 2 THEN v[2][X] ELSE 0]
       /\ vu = [vf |-> [n \in 0..VfRegisters - 1 |-> IF n = 1 THEN v[1] ELSE IF n = 2 THEN v[2] ELSE Zeroes],
                acc |-> Zeroes, vi |-> [n \in 0..ViRegisters - 1 |-> 0], i |-> 0, q |-> 0, r |-> 0,
                mac |-> {}, status |-> {}, sticky |-> {}, clipping |-> 0,
                mem |-> [b \in 0..MemoryQuads - 1 |-> Zeroes], lost |-> FALSE]
  /\ facc = 0 /\ csr = [c |-> FALSE, flags |-> {}, sticky |-> {}]
  /\ gpr = [n \in 0..3 |-> Zeroes]
  /\ usable \in {{1, 2}, {1}, {2}}
  /\ unusable = 0 /\ seen = NoSeen /\ judged = <<>>

Done == pc > Len(program.code) \/ vu.lost
inst == program.code[pc]
Fetches(cop, ops) == ~Done /\ inst.cop = cop /\ inst.op \in ops /\ pc' = pc + 1 /\ UNCHANGED <<program, usable>>

\* handle_cop1_usable and handle_cop2_usable
HandleUnusable ==
  /\ ~Done /\ inst.cop \notin usable
  /\ unusable' = unusable + 1 /\ pc' = pc + 1
  /\ UNCHANGED <<program, fpr, facc, csr, vu, gpr, usable, seen, judged>>
-----------------------------------------------------------------------------
(* COP1.  Most instructions clear the flags and set those of their result, *)
(* of which only U and O have a place in the register.                     *)
Cop1(ops) == Fetches(1, ops) /\ 1 \in usable /\ UNCHANGED <<vu, unusable, judged>>
\* clear_flags, then the flags set, each with its sticky one
CsrSet(flags) == [csr EXCEPT !.flags = flags, !.sticky = @ \cup flags]
Sets(flags) == csr' = CsrSet(flags) /\ seen' = [seen EXCEPT !.cop1 = @ \cup flags]

a1 == fpr[inst.fs]
b1 == fpr[inst.ft]
\* The product of a sum is not clamped before it is added.
Cop1Result(op) ==
  CASE op \in {"ADD_S", "ADDA_S"} -> Plus(a1, b1) [] op \in {"SUB_S", "SUBA_S"} -> Minus(a1, b1)
    [] op \in {"MUL_S", "MULA_S"} -> Times(a1, b1)
    [] op \in {"MADD_S", "MADDA_S"} -> Plus(facc, Times(a1, b1))
    [] op \in {"MSUB_S", "MSUBA_S"} -> Minus(facc, Times(a1, b1))
ToFpr == {"ADD_S", "SUB_S", "MUL_S", "MADD_S", "MSUB_S"}
ToAcc == {"ADDA_S", "SUBA_S", "MULA_S", "MADDA_S", "MSUBA_S"}
FloatSum ==
  LET result == ToPs2(Cop1Result(inst.op))
  IN  /\ Cop1(ToFpr \cup ToAcc) /\ Sets(result.flags \cap {"U", "O"})
      /\ IF inst.op \in ToAcc THEN facc' = result.word /\ UNCHANGED fpr
         ELSE fpr' = [fpr EXCEPT ![inst.fd] = result.word] /\ UNCHANGED facc
      /\ UNCHANGED gpr

DIV_S ==
  LET result == ToPs2(Over(a1, b1))
      zero == Same(b1, 0)
  IN  /\ Cop1({"DIV_S"})
      /\ Sets(IF ~zero THEN result.flags \cap {"U", "O"} ELSE {IF Same(a1, 0) THEN "I" ELSE "D"})
      /\ fpr' = [fpr EXCEPT ![inst.fd] = IF zero /\ ~IsNan(a1) THEN Fmax ELSE result.word]
      /\ UNCHANGED <<facc, gpr>>

\* The case of a negative zero is never taken: it asks for a number that is zero and less.
Roots(a, b) == IF inst.op = "SQRT_S" THEN SquareRoot(Absolute(b)) ELSE Over(a, SquareRoot(Absolute(b)))
RSQRT_S ==
  LET zero == inst.op = "RSQRT_S" /\ Same(b1, 0)
      result == ToPs2(IF zero THEN Fmax ELSE Roots(a1, b1))
      invalid == IF zero THEN {"D"} ELSE IF Less(b1, 0) THEN {"I"} ELSE {}
  IN  /\ Cop1({"SQRT_S", "RSQRT_S"})
      /\ Sets(invalid \cup (result.flags \cap {"U", "O"}))
      /\ fpr' = [fpr EXCEPT ![inst.fd] = result.word]
      /\ UNCHANGED <<facc, gpr>>

\* These rely on the registers to hold what a PlayStation 2's can.
FloatSelect ==
  /\ Cop1({"ABS_S", "NEG_S", "MAX_S", "MIN_S"}) /\ Sets({})
  /\ fpr' = [fpr EXCEPT ![inst.fd] =
       CASE inst.op = "ABS_S" -> Absolute(a1) [] inst.op = "NEG_S" -> Negated(a1)
         [] inst.op = "MAX_S" -> IF Less(b1, a1) \/ Same(a1, b1) THEN a1 ELSE b1
         [] inst.op = "MIN_S" -> IF Less(a1, b1) \/ Same(a1, b1) THEN a1 ELSE b1]
  /\ UNCHANGED <<facc, gpr>>

FloatCompare ==
  /\ Cop1({"C_EQ_S", "C_F_S", "C_LE_S", "C_LT_S"})
  /\ csr' = [csr EXCEPT !.c =
       CASE inst.op = "C_EQ_S" -> Same(a1, b1) [] inst.op = "C_F_S" -> FALSE
         [] inst.op = "C_LE_S" -> Less(a1, b1) \/ Same(a1, b1) [] inst.op = "C_LT_S" -> Less(a1, b1)]
  /\ UNCHANGED <<fpr, facc, gpr, seen>>

(* CVT.S.W takes the word as unsigned.  CVT.W.S clamps when the exponent   *)
(* that frexp gives, as an unsigned byte, is above 0x9D: no float's is but *)
(* those below a half, whose exponent is negative.                         *)
BelowHalf(w) == ~IsZero(w) /\ ~IsNan(w) /\ 2 * Magnitude(w) < One
CVT ==
  /\ Cop1({"CVT_S_W", "CVT_W_S"})
  /\ \E undefined \in UndefinedWords :
       fpr' = [fpr EXCEPT ![inst.fd] =
         IF inst.op = "CVT_S_W" THEN Itof(a1, 0)
         ELSE IF ~BelowHalf(a1) THEN Ftoi(a1, 0, undefined)
         ELSE IF IsNegative(a1) THEN SignBit ELSE SignBit - 1]
  /\ UNCHANGED <<facc, csr, gpr, seen>>

FloatMove ==
  /\ Cop1({"MOV_S", "MTC1", "MFC1"})
  /\ fpr' = CASE inst.op = "MOV_S" -> [fpr EXCEPT ![inst.fd] = a1]
              [] inst.op = "MTC1" -> [fpr EXCEPT ![inst.fs] = gpr[inst.ft][X]] [] OTHER -> fpr
  /\ gpr' = IF inst.op # "MFC1" THEN gpr
            ELSE [gpr EXCEPT ![inst.ft] =
                   [f \in Fields |-> IF f = X THEN a1 ELSE IF Less(a1, 0) THEN 2 * SignBit - 1 ELSE 0]]
  /\ UNCHANGED <<facc, csr, seen>>
-----------------------------------------------------------------------------
(* COP2: each V instruction checks Status and calls the vector unit's.     *)
Cop2(ops) == Fetches(2, ops) /\ 2 \in usable /\ UNCHANGED <<fpr, facc, csr, unusable>>
Delegates(op, method(_, _)) ==
  /\ Cop2({op}) /\ vu' = method(vu, inst)
  /\ seen' = [seen EXCEPT !.cop2 = @ \cup {set[1] : set \in vu'.mac}]
  /\ UNCHANGED <<gpr, judged>>

VADD == Delegates("VADD", ADD)
VADDA == Delegates("VADDA", ADDA)
VSUB == Delegates("VSUB", SUB)
VSUBA == Delegates("VSUBA", SUBA)
VMUL == Delegates("VMUL", MUL)
VMULA == Delegates("VMULA", MULA)
VMADD == Delegates("VMADD", MADD)
VMADDA == Delegates("VMADDA", MADDA)
VMSUB == Delegates("VMSUB", MSUB)
VMSUBA == Delegates("VMSUBA", MSUBA)
VMAX == Delegates("VMAX", MAX)
VMINI == Delegates("VMINI", MINI)
VABS == Delegates("VABS", ABS)
VOuter == Delegates("VOPMULA", OPMULA) \/ Delegates("VOPMSUB", OPMSUB)
VDivide == Delegates("VDIV", DIV) \/ Delegates("VSQRT", SQRT) \/ Delegates("VRSQRT", RSQRT)
VConvert ==
  \/ Delegates("VITOF", ITOF)
  \/ \E undefined \in UndefinedWords : Delegates("VFTOI", LAMBDA u, n : FTOI(u, n, undefined))
VCLIP ==
  /\ Cop2({"VCLIP"}) /\ vu' = CLIP(vu, inst)
  /\ judged' = <<Judgements(vu, inst)>> \o judged
  /\ UNCHANGED <<gpr, seen>>
VRandom == \/ Delegates("VRINIT", RINIT) \/ Delegates("VRGET", RGET)
           \/ Delegates("VRNEXT", RNEXT) \/ Delegates("VRXOR", RXOR)
VInteger == \/ Delegates("VIADD", IADD) \/ Delegates("VIADDI", IADDI) \/ Delegates("VISUB", ISUB)
            \/ Delegates("VIAND", IAND) \/ Delegates("VIOR", IOR)
VTransfer == \/ Delegates("VMOVE", MOVE) \/ Delegates("VMFIR", MFIR) \/ Delegates("VMTIR", MTIR)
             \/ Delegates("VMR32", MR32)
VMemory == \/ Delegates("VLQD", LQD) \/ Delegates("VLQI", LQI) \/ Delegates("VSQD", SQD)
           \/ Delegates("VSQI", SQI) \/ Delegates("VILWR", ILWR) \/ Delegates("VISWR", ISWR)

\* QMFC2 and QMTC2, and CFC2 and CTC2 with the integer registers and R, I and Q.
Control(n) == CASE n < ViRegisters -> vu.vi[n] [] n = 20 -> vu.r [] n = 21 -> vu.i [] n = 22 -> vu.q
WithControl(n, word) == CASE n < ViRegisters -> SetVi(vu, n, word) [] n = 20 -> [vu EXCEPT !.r = word]
                          [] n = 21 -> [vu EXCEPT !.i = word] [] n = 22 -> [vu EXCEPT !.q = word]
VMoves ==
  /\ Cop2({"QMFC2", "QMTC2", "CFC2", "CTC2"})
  /\ vu' = CASE inst.op = "QMTC2" -> [vu EXCEPT !.vf[inst.fd] = gpr[inst.ft]]
             [] inst.op = "CTC2" -> WithControl(inst.fd, gpr[inst.ft][X]) [] OTHER -> vu
  /\ gpr' = CASE inst.op = "QMFC2" -> [gpr EXCEPT ![inst.ft] = vu.vf[inst.fd]]
              [] inst.op = "CFC2" -> [gpr EXCEPT ![inst.ft][X] = Control(inst.fd), ![inst.ft][Y] = 0]
              [] OTHER -> gpr
  /\ UNCHANGED <<seen, judged>>

Next ==
  \/ HandleUnusable
  \/ FloatSum \/ DIV_S \/ RSQRT_S \/ FloatSelect \/ FloatCompare \/ CVT \/ FloatMove
  \/ VADD \/ VADDA \/ VSUB \/ VSUBA \/ VMUL \/ VMULA \/ VMADD \/ VMADDA \/ VMSUB \/ VMSUBA
  \/ VMAX \/ VMINI \/ VABS \/ VOuter \/ VDivide \/ VConvert \/ VCLIP \/ VRandom \/ VInteger
  \/ VTransfer \/ VMemory \/ VMoves

Spec == Init /\ [][Next]_vars
-----------------------------------------------------------------------------
\* The registers hold words, and the units' flags are among theirs.
TypeOK ==
  /\ program \in Programs /\ pc \in 1..Len(program.code) + 1
  /\ fpr \in [0..VfRegisters - 1 -> Words] /\ facc \in Words /\ vu \in Units
  /\ csr \in [c : BOOLEAN, flags : SUBSET {"U", "O", "D", "I"}, sticky : SUBSET {"U", "O", "D", "I"}]
  /\ gpr \in [0..3 -> [Fields -> Words]] /\ usable \subseteq {1, 2} /\ unusable \in 0..Len(program.code)
  /\ seen.cop1 \subseteq Flags /\ seen.cop2 \subseteq Flags /\ judged \in Seq(0..63)

\* A flag that was ever left set in the MAC register, of whichever field, or in the FPU's csr, is among
\* the sticky flags whatever ran since
\* (VuUnitRegister_Mac::update_vector_field, EeCoreFpuRegister_Csr).
FlagsStick == seen.cop2 \subseteq vu.sticky /\ seen.cop1 \subseteq csr.sticky

\* The clipping register holds the last four judgements, the newest in its lowest six bits
\* (VuUnitRegister_Clipping::shift_judgement).
LastFourJudged ==
  LET kept(n) == IF n <= Len(judged) THEN judged[n] * 64^(n - 1) ELSE 0
  IN  vu.clipping = kept(1) + kept(2) + kept(3) + kept(4)
=============================================================================
