---------------------------- MODULE MCInstructions -----------------------------
(***************************************************************************)
(* The instructions of the EE core, of its coprocessors and of the IOP     *)
(* core.  A behaviour runs one program: of MCEeCop, on the FPU and the     *)
(* vector unit, or of MCEeIsa, on the core's own registers and memory,     *)
(* where the IOP core keeps step with it if the program is one for both.   *)
(* The rest stays as it is.                                                *)
(***************************************************************************)
EXTENDS MCEeCop, TLC

CONSTANTS ByteBits, MemoryTop       \* EeIsa's
VARIABLES core, isa_program, isa_pc, isa_gpr, lo, hi, sa, mem, wide, taken,
  iop_gpr, iop_lo, iop_hi, iop_mem, iop_taken

\* The values of MCEeIsa for the constants of EeIsa.
Values == INSTANCE MCEeIsa WITH Programs <- {}, Operands <- {}, Memories <- {},
                                program <- isa_program, pc <- isa_pc, gpr <- isa_gpr
Isa == INSTANCE MCEeIsa WITH Programs <- Values!MCPrograms, Operands <- Values!MCOperands,
                             Memories <- Values!MCMemories,
                             program <- isa_program, pc <- isa_pc, gpr <- isa_gpr

Iop == INSTANCE IopIsa WITH Registers <- Isa!Registers, gpr <- iop_gpr, lo <- iop_lo, hi <- iop_hi,
                            mem <- iop_mem, taken <- iop_taken

ASSUME InstructionsAssumption == ByteBits \in Nat \ {0} /\ MemoryTop \in Nat

iop_vars == <<iop_gpr, iop_lo, iop_hi, iop_mem, iop_taken>>
isa_vars == <<isa_program, isa_pc, isa_gpr, lo, hi, sa, mem, wide, taken, iop_vars>>
ForBoth == isa_program.law = "CoresAgree"
all == <<core, vars, isa_vars>>
NoProgram == [law |-> "none", code |-> <<>>]
\* What the registers of the part that does not run hold says nothing.
IsaStill == /\ isa_program = NoProgram /\ isa_pc = 1 /\ isa_gpr = [r \in Isa!Registers |-> Isa!Zeroes]
            /\ lo = Isa!Zeroes /\ hi = Isa!Zeroes /\ sa = 0 /\ wide = FALSE /\ taken = <<>>
            /\ mem = [b \in 0..MemoryTop - 1 |-> 0]
CopStill == /\ program = NoProgram /\ pc = 1 /\ fpr = [n \in 0..VfRegisters - 1 |-> 0] /\ facc = 0
            /\ csr = [c |-> FALSE, flags |-> {}, sticky |-> {}] /\ gpr = [n \in 0..3 |-> Zeroes]
            /\ vu = [vf |-> [n \in 0..VfRegisters - 1 |-> Zeroes], acc |-> Zeroes,
                     vi |-> [n \in 0..ViRegisters - 1 |-> 0], i |-> 0, q |-> 0, r |-> 0,
                     mac |-> {}, status |-> {}, sticky |-> {}, clipping |-> 0,
                     mem |-> [b \in 0..MemoryQuads - 1 |-> Zeroes], lost |-> FALSE]
            /\ usable = {} /\ unusable = 0 /\ seen = NoSeen /\ judged = <<>>

\* The IOP's registers hold the low words of the EE core's, and its memory the same.
InitIop ==
  /\ iop_gpr = [r \in Isa!Registers |-> IF ForBoth THEN Isa!Word(isa_gpr[r], 0) ELSE 0]
  /\ iop_lo = 0 /\ iop_hi = 0 /\ iop_mem = mem /\ iop_taken = <<>>

InitInstructions ==
  /\ \/ core = "cop" /\ Init /\ IsaStill
     \/ core = "isa" /\ Isa!Init /\ CopStill
  /\ InitIop
Of(part, step, others) == core = part /\ step /\ UNCHANGED <<core, others>>
CopStep == Of("cop", Next, isa_vars)
IsaStep == ~ForBoth /\ Of("isa", Isa!Next, <<vars, iop_vars>>)
BothStep == ForBoth /\ Of("isa", Isa!Next /\ Iop!Runs(Isa!i), vars)
NextInstructions == CopStep \/ IsaStep \/ BothStep
SpecInstructions == InitInstructions /\ [][NextInstructions]_all
-----------------------------------------------------------------------------
(* Two computations of one thing agree: sums and complemented differences, *)
(* an operation before and after a permutation of its lanes, a dividend    *)
(* and its quotient, the forms of a shift, products added and taken away,  *)
(* a comparison as a value, a branch and a trap                            *)
(* (CEeCoreInterpreter_{INTEGER,SHIFT,COMPARE,BREAK_TRAP,...}.cpp).        *)
ArithmeticLaws ==
  core = "isa" =>
    /\ Isa!SumsDual /\ Isa!LanesApart /\ Isa!DivisionsRestore /\ Isa!ShiftFormsAgree
    /\ Isa!AccumulatorsRestored /\ Isa!ComparisonsAgree

(* What the reorderings, transfers, loads and stores move arrives whole,   *)
(* in bytes of the registers' width, and nothing else is disturbed         *)
(* (..._REORDERING, _REG_TRANSFER, _LOAD_MEM and _STORE_MEM.cpp).          *)
MovementLaws == core = "isa" => Isa!TypeOK /\ Isa!ReorderingsInvert /\ Isa!UnalignedWhole

(* The two cores, whose interpreters were written apart from each other,   *)
(* compute the same: after each instruction that both have, the IOP's      *)
(* registers hold the low words of the EE core's, and the memories, the    *)
(* branches and the overflows are the same (CIopCoreInterpreter_ALU.cpp,   *)
(* ..._LOAD_STORE_MEM.cpp, ..._SPECIAL_TRANSFER.cpp, ..._BRANCH_JUMP.cpp). *)
(* In a build that widens its overflows the EE's may hold more than words. *)
CoresAgree ==
  core = "isa" /\ ForBoth =>
    /\ Iop!TypeOK
    /\ ~wide => /\ \A r \in Isa!Registers : iop_gpr[r] = Isa!Word(isa_gpr[r], 0)
                /\ iop_lo = Isa!Word(lo, 0) /\ iop_hi = Isa!Word(hi, 0)
                /\ iop_mem = mem /\ iop_taken = taken

(* The FPU and the vector unit leave only floats of the PlayStation 2 and  *)
(* give the same results, compound instructions are what they are composed *)
(* of, and conversions invert each other (..._FLOAT.cpp of both); so it is *)
(* with the vector unit's integers, its random number and its stack        *)
(* (CVuInterpreter_{INTEGER,OTHER,TRANSFER}.cpp).  No flag is forgotten:   *)
(* every one that an instruction ever left is among the sticky ones, and   *)
(* the clipping register holds the last four judgements                    *)
(* (VuUnitRegisters.cpp, EeCoreFpuRegisters.cpp).                          *)
CoprocessorLaws ==
  core = "cop" =>
    /\ TypeOK /\ PsFloatsKept /\ CoprocessorsAgree /\ ProductsCompose /\ CrossOpposed /\ ConversionsInvert
    /\ RandomInRange /\ StackRestores /\ IntegersCompose
    /\ FlagsStick /\ LastFourJudged
=============================================================================
