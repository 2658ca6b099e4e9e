--------------------------------- MODULE Vu ---------------------------------
(***************************************************************************)
(* The vector unit's instructions                                          *)
(* (liborbum/src/Controller/Ee/Vpu/Vu/Interpreter), each a function of the *)
(* unit and the instruction as each is a method with these parameters.     *)
(* The program of a unit of its own is not run by the code                 *)
(* (CVuInterpreter::time_step is empty); the EE core calls the             *)
(* instructions of VU0, see EeCop.  An instruction has its operation, the  *)
(* form of its second operand (a vector "v", a component "bc" of one, or   *)
(* the registers "i" and "q"), the fields of its destination, the          *)
(* registers fs, ft and fd, the components bc, fsf and ftf, and a number.  *)
(***************************************************************************)
EXTENDS PsFloat, Sequences, FiniteSets

CONSTANTS
  VfRegisters, ViRegisters,      \* the number of each
  HalfBits,                      \* of an integer register
  MemoryQuads                    \* the number of quadwords of the unit's memory

X == 0
Y == 1
Z == 2
W == 3
Fields == X..W
Halves == 0..2^HalfBits - 1
Flags == {"Z", "S", "U", "O", "I", "D"}

Units == [vf : [0..VfRegisters - 1 -> [Fields -> Words]], acc : [Fields -> Words],
          vi : [0..ViRegisters - 1 -> Halves], i : Words, q : Words, r : Words,
          mac : SUBSET ({"Z", "S", "U", "O"} \X Fields),
          status : SUBSET Flags, sticky : SUBSET Flags,
          clipping : 0..2^24 - 1, mem : [0..MemoryQuads - 1 -> [Fields -> Words]],
          lost : BOOLEAN]        \* whether it wrote or read outside a register

Zeroes == [f \in Fields |-> 0]

\* Register VI0 is read only.
SetVi(unit, n, value) == IF n = 0 THEN unit ELSE [unit EXCEPT !.vi[n] = value % 2^HalfBits]

\* For each field in order: the ones of the destination, and the others.
EachField(unit, inst, selected(_, _), other(_, _)) ==
  LET after[n \in 0..4] == IF n = 0 THEN unit
                           ELSE IF n - 1 \in inst.dest THEN selected(after[n - 1], n - 1)
                           ELSE other(after[n - 1], n - 1)
  IN  after[4]
Keep(unit, field) == unit
EachSelected(unit, inst, selected(_, _)) == EachField(unit, inst, selected, Keep)
-----------------------------------------------------------------------------
(* VuUnitRegisters: the flags of a field, and with them those of the       *)
(* status register, whose sticky ones stay.                                *)
\* Mutant: a flag that was raised is not remembered once it is clear.
UpdateVectorFieldForgets(unit, field, flags) ==
  [unit EXCEPT !.mac = {set \in @ : set[2] # field} \cup (flags \X {field}),
               !.status = (@ \cap {"I", "D"}) \cup flags,
               !.sticky = (@ \cap {"I", "D"}) \cup flags]
UpdateVectorField(unit, field, flags) ==
  [unit EXCEPT !.mac = {set \in @ : set[2] # field} \cup (flags \X {field}),
               !.status = (@ \cap {"I", "D"}) \cup flags,
               !.sticky = @ \cup flags]
ClearVectorField(unit, field) == UpdateVectorField(unit, field, {})
Raise(unit, flag) == [unit EXCEPT !.status = @ \cup {flag}, !.sticky = @ \cup {flag}]

Operand(unit, inst, field) ==
  CASE inst.form = "v" -> unit.vf[inst.ft][field] [] inst.form = "bc" -> unit.vf[inst.ft][inst.bc]
    [] inst.form = "i" -> unit.i [] inst.form = "q" -> unit.q

Written(unit, inst, to, field, word) ==
  IF to = "acc" THEN [unit EXCEPT !.acc[field] = word] ELSE [unit EXCEPT !.vf[inst.fd][field] = word]

\* The sums and the products; the operands of a field are read after the fields before it are written.
Fmac(unit, inst, to, op(_, _)) ==
  EachField(unit, inst,
    LAMBDA u, f : LET result == ToPs2(op(u.vf[inst.fs][f], Operand(u, inst, f)))
                  IN  Written(UpdateVectorField(u, f, result.flags), inst, to, f, result.word),
    ClearVectorField)
\* The product first, clamped with its flags, then the sum or difference with the accumulator.
FmacAcc(unit, inst, to, op(_, _)) ==
  EachField(unit, inst,
    LAMBDA u, f : LET product == ToPs2(Times(u.vf[inst.fs][f], Operand(u, inst, f)))
                      result == ToPs2(op(u.acc[f], product.word))
                  IN  Written(UpdateVectorField(UpdateVectorField(u, f, product.flags), f, result.flags),
                              inst, to, f, result.word),
    ClearVectorField)

\* Each with its i, q and bc forms, and bc with one method for each component.
ADD(unit, inst) == Fmac(unit, inst, "vf", Plus)
ADDA(unit, inst) == Fmac(unit, inst, "acc", Plus)
SUB(unit, inst) == Fmac(unit, inst, "vf", Minus)
SUBA(unit, inst) == Fmac(unit, inst, "acc", Minus)
MUL(unit, inst) == Fmac(unit, inst, "vf", Times)
MULA(unit, inst) == Fmac(unit, inst, "acc", Times)
MADD(unit, inst) == FmacAcc(unit, inst, "vf", Plus)
MADDA(unit, inst) == FmacAcc(unit, inst, "acc", Plus)
MSUB(unit, inst) == FmacAcc(unit, inst, "vf", Minus)
MSUBA(unit, inst) == FmacAcc(unit, inst, "acc", Minus)

\* std::max and std::min, which keep the first of two that do not compare
MAX(unit, inst) ==
  EachSelected(unit, inst, LAMBDA u, f : LET a == u.vf[inst.fs][f]
                                             b == Operand(u, inst, f)
                                         IN  Written(u, inst, "vf", f, IF Less(a, b) THEN b ELSE a))
MINI(unit, inst) ==
  EachSelected(unit, inst, LAMBDA u, f : LET a == u.vf[inst.fs][f]
                                             b == Operand(u, inst, f)
                                         IN  Written(u, inst, "vf", f, IF Less(b, a) THEN b ELSE a))
ABS(unit, inst) ==
  EachSelected(unit, inst, LAMBDA u, f : [u EXCEPT !.vf[inst.ft][f] = Absolute(u.vf[inst.fs][f])])

\* The outer products: x from y and z, y from z and x, z from x and y, one written after the other.
Outer(unit, inst, to, result(_, _, _)) ==
  LET step(u, f) ==
        LET r == ToPs2(result(u.acc[f], u.vf[inst.fs][(f + 1) % 3], u.vf[inst.ft][(f + 2) % 3]))
        IN  UpdateVectorField(Written(u, inst, to, f, r.word), f, r.flags)
  IN  ClearVectorField(step(step(step(unit, X), Y), Z), W)
OPMULA(unit, inst) == Outer(unit, inst, "acc", LAMBDA c, a, b : Times(a, b))
OPMSUB(unit, inst) == Outer(unit, inst, "vf", LAMBDA c, a, b : Minus(c, Times(a, b)))
-----------------------------------------------------------------------------
(* The divider.  Its flags are set and, but for SQRT's, never cleared.     *)
DIV(unit, inst) ==
  LET a == unit.vf[inst.fs][inst.fsf]
      b == unit.vf[inst.ft][inst.ftf]
      flagged == IF ~IsZero(b) THEN unit ELSE Raise(unit, IF IsZero(a) THEN "I" ELSE "D")
  IN  [flagged EXCEPT !.q = ToPs2(Over(a, b)).word]
SQRT(unit, inst) ==
  LET b == unit.vf[inst.ft][inst.ftf]
      flagged == IF IsNegative(b) THEN Raise(unit, "I") ELSE unit
  IN  [flagged EXCEPT !.status = @ \ {"D"}, !.q = SquareRoot(Absolute(b))]
RSQRT(unit, inst) ==
  LET a == unit.vf[inst.fs][inst.fsf]
      b == unit.vf[inst.ft][inst.ftf]
      negative == IF IsNegative(b) THEN Raise(unit, "I") ELSE unit
      flagged == IF IsZero(b) THEN Raise(negative, "D") ELSE negative
  IN  [flagged EXCEPT !.q = ToPs2(Over(a, SquareRoot(Absolute(b)))).word]

(* Conversions with inst.number bits of fraction (0, 4, 12 or 15 in the    *)
(* code).  The cast of a float that no word holds has no defined result:   *)
(* undefined is what the build gives it.  An integer is taken as unsigned, *)
(* and none is too large for a float.                                      *)
Ftoi(word, bits, undefined) ==
  LET scaled == Times(word, One * 2^bits)
      truncated == Magnitude(scaled) \div One
  IN  IF IsNan(scaled) \/ IsInfinite(scaled) \/ (IsNegative(word) /\ truncated > 0) THEN undefined
      ELSE truncated
Itof(word, bits) == LET value == (word * One) \div 2^bits IN IF value > Fmax THEN Fmax ELSE value
FTOI(unit, inst, undefined) ==
  EachSelected(unit, inst, LAMBDA u, f : [u EXCEPT !.vf[inst.ft][f] = Ftoi(u.vf[inst.fs][f], inst.number, undefined)])
ITOF(unit, inst) ==
  EachSelected(unit, inst, LAMBDA u, f : [u EXCEPT !.vf[inst.ft][f] = Itof(u.vf[inst.fs][f], inst.number)])

\* The judgement of three components, and the last four of them in the register.
Judgement(a, bound) == (IF Less(bound, a) THEN 2 ELSE 0) + (IF Less(a, Negated(bound)) THEN 1 ELSE 0)
Judgements(unit, inst) ==
  LET bound == Absolute(unit.vf[inst.ft][W])
      of(f) == Judgement(unit.vf[inst.fs][f], bound)
  IN  of(X) + 4 * of(Y) + 16 * of(Z)
CLIP(unit, inst) == [unit EXCEPT !.clipping = ((@ * 64) % 2^24) + Judgements(unit, inst)]
-----------------------------------------------------------------------------
(* The random register: the mantissa of a number from 1 to 2.  RNEXT steps *)
(* the generator, with bit 0 for the code's bit 4, and writes no vector    *)
(* register.                                                               *)
Mantissa(word) == word % One
Bit(word, n) == (word \div 2^n) % 2
TopBit == CHOOSE n \in 0..WordBits : 2 * 2^n = One
RINIT(unit, inst) == [unit EXCEPT !.r = One + Mantissa(unit.vf[inst.fs][inst.fsf])]
RGET(unit, inst) == EachSelected(unit, inst, LAMBDA u, f : [u EXCEPT !.vf[inst.ft][f] = u.r])
RNEXT(unit, inst) ==
  LET feedback == (Bit(unit.r, 0) + Bit(unit.r, TopBit)) % 2
  IN  [unit EXCEPT !.r = One + Mantissa(2 * @) + feedback]
XorWords(a, b) ==
  LET sum[n \in 0..WordBits] ==
        IF n = 0 THEN 0 ELSE sum[n - 1] + ((Bit(a, n - 1) + Bit(b, n - 1)) % 2) * 2^(n - 1)
  IN  sum[WordBits]
RXOR(unit, inst) == [unit EXCEPT !.r = XorWords(@, Mantissa(unit.vf[inst.ft][inst.fsf]))]

(* The integer instructions.  VuInstruction::id gives the field of is, so  *)
(* the ones of three registers write their first source.                   *)
Id(inst) == inst.fs
IADD(unit, inst) == SetVi(unit, Id(inst), unit.vi[inst.fs] + unit.vi[inst.ft])
ISUB(unit, inst) == SetVi(unit, Id(inst), unit.vi[inst.fs] - unit.vi[inst.ft])
IADDI(unit, inst) == SetVi(unit, inst.ft, unit.vi[inst.fs] + inst.number)
BothBits(a, b, keep(_, _)) ==
  LET sum[n \in 0..HalfBits] == IF n = 0 THEN 0 ELSE sum[n - 1] + keep(Bit(a, n - 1), Bit(b, n - 1)) * 2^(n - 1)
  IN  sum[HalfBits]
IAND(unit, inst) ==
  SetVi(unit, Id(inst), BothBits(unit.vi[inst.fs], unit.vi[inst.ft], LAMBDA a, b : a * b))
IOR(unit, inst) ==
  SetVi(unit, Id(inst), BothBits(unit.vi[inst.fs], unit.vi[inst.ft], LAMBDA a, b : a + b - a * b))
-----------------------------------------------------------------------------
(* Transfers.  MOVE, MFIR and MR32 give write_uword the value as the  *)
(* offset and the field as the value.  Past the register's four words a    *)
(* debug build throws and another writes what is behind it.                *)
Misplaced(unit, register, value, field) ==
  IF value \in Fields THEN [unit EXCEPT !.vf[register][value] = field] ELSE [unit EXCEPT !.lost = TRUE]
MOVE(unit, inst) == EachSelected(unit, inst, LAMBDA u, f : Misplaced(u, inst.ft, u.vf[inst.fs][f], f))
MFIR(unit, inst) == EachSelected(unit, inst, LAMBDA u, f : Misplaced(u, inst.ft, u.vi[inst.fs], f))
MR32(unit, inst) ==
  LET step(u, from, to) == Misplaced(u, inst.ft, u.vf[inst.fs][from], to)
  IN  step(step(step(step(unit, W, X), X, Y), Y, Z), Z, W)
MTIR(unit, inst) == SetVi(unit, inst.ft, unit.vf[inst.fs][inst.fsf])

\* The memory repeats in the part of the bus that is for it.
At(address) == address % MemoryQuads
LoadQuad(unit, inst, address) ==
  EachSelected(unit, inst, LAMBDA u, f : [u EXCEPT !.vf[inst.ft][f] = u.mem[At(address)][f]])
StoreQuad(unit, inst, address) ==
  EachSelected(unit, inst, LAMBDA u, f : [u EXCEPT !.mem[At(address)][f] = u.vf[inst.fs][f]])
\* Mutant: the address is used before it is decremented.
LQDLate(unit, inst) ==
  SetVi(LoadQuad(unit, inst, unit.vi[inst.fs]), inst.fs, unit.vi[inst.fs] - 1)
LQD(unit, inst) ==
  LET before == SetVi(unit, inst.fs, unit.vi[inst.fs] - 1) IN LoadQuad(before, inst, before.vi[inst.fs])
LQI(unit, inst) == SetVi(LoadQuad(unit, inst, unit.vi[inst.fs]), inst.fs, unit.vi[inst.fs] + 1)
SQD(unit, inst) ==
  LET before == SetVi(unit, inst.ft, unit.vi[inst.ft] - 1) IN StoreQuad(before, inst, before.vi[inst.ft])
SQI(unit, inst) == SetVi(StoreQuad(unit, inst, unit.vi[inst.ft]), inst.ft, unit.vi[inst.ft] + 1)

(* ILW and ILWR take the bits of the destination (x is the highest) as the *)
(* number of the word that they load.                                      *)
DestBits(inst) == (IF X \in inst.dest THEN 8 ELSE 0) + (IF Y \in inst.dest THEN 4 ELSE 0)
                  + (IF Z \in inst.dest THEN 2 ELSE 0) + (IF W \in inst.dest THEN 1 ELSE 0)
ILWR(unit, inst) ==
  IF DestBits(inst) \notin Fields THEN [unit EXCEPT !.lost = TRUE]
  ELSE SetVi(unit, inst.ft, unit.mem[At(unit.vi[inst.fs])][DestBits(inst)])
ISWR(unit, inst) ==
  EachSelected(unit, inst, LAMBDA u, f : [u EXCEPT !.mem[At(u.vi[inst.fs])][f] = u.vi[inst.ft]])
=============================================================================
