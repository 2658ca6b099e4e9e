-------------------------------- MODULE EeAlu --------------------------------
(***************************************************************************)
(* What the integer and multimedia instructions of the EE core compute     *)
(* (liborbum/src/Controller/Ee/Core/Interpreter).  The instructions of a   *)
(* family differ in the width w of their lanes; s, t and d are the         *)
(* contents of Rs, Rt and of the destination.  Where the code adds two     *)
(* ints and widens the sum, an overflow is undefined: a build either wraps *)
(* or computes in the wider type from the start (wide).                    *)
(***************************************************************************)
EXTENDS Lanes
LOCAL INSTANCE FiniteSetsExt

Bits(w) == w * ByteBits
Ones(w) == Top(w) - 1

\* A 64-bit result: the upper half of the destination stays.
Low(d, value) == WithLane(d, 8, 0, value)
\* A 32-bit value sign extended to the low half, or to half i.
LowSigned(d, word) == Low(d, Signed(4, Unsigned(4, word)))
HalfSigned(d, i, word) == WithLane(d, 8, i, Signed(4, Unsigned(4, word)))
Widened(wide, sum) == IF wide THEN sum ELSE Signed(4, Unsigned(4, sum))

Lanewise(w, op(_, _), s, t) == FromLanes(w, LAMBDA i : op(Lane(s, w, i), Lane(t, w, i)))
-----------------------------------------------------------------------------
(* INTEGER_ADD_SUB.                                                        *)
TestOverOrUnderflow(w, x, y) ==
  (x > 0 /\ y > SignedMax(w) - x) \/ (x < 0 /\ y < SignedMin(w) - x)

DoubleSums == {"DADD", "DADDI", "DADDIU", "DADDU", "DSUB", "DSUBU"}
ImmediateSums == {"ADDI", "ADDIU", "DADDI", "DADDIU"}
Differences == {"SUB", "SUBU", "DSUB", "DSUBU"}
CheckedSums == {"ADD", "ADDI", "SUB", "DADD", "DADDI", "DSUB"}
SumOps == DoubleSums \cup {"ADD", "ADDI", "ADDIU", "ADDU", "SUB", "SUBU"}
SumWidth(op) == IF op \in DoubleSums THEN 8 ELSE 4

\* The second operand; the check is the one for a sum, also of the differences.
Addend(op, t, imm) == IF op \in ImmediateSums THEN imm ELSE SignedLane(t, SumWidth(op), 0)
SumTraps(op, s, t, imm) ==
  op \in CheckedSums /\ TestOverOrUnderflow(SumWidth(op), SignedLane(s, SumWidth(op), 0), Addend(op, t, imm))
Sum(op, s, t, d, imm, wide) ==
  LET x == SignedLane(s, SumWidth(op), 0)
      y == Addend(op, t, imm)
      sum == IF op \in Differences THEN x - y ELSE x + y
  IN  Low(d, IF op \in DoubleSums THEN sum ELSE Widened(wide, sum))

Padd(w, a, b) == a + b
PaddSigned(w, a, b) == Saturate(w, Signed(w, a) + Signed(w, b))
PaddUnsigned(w, a, b) == IF a + b > Ones(w) THEN Ones(w) ELSE a + b
Psub(w, a, b) == a - b
PsubSigned(w, a, b) == Saturate(w, Signed(w, a) - Signed(w, b))
PsubUnsigned(w, a, b) == IF a - b < 0 THEN 0 ELSE a - b
Padsbh(s, t) ==
  FromLanes(2, LAMBDA i : IF i < 4 THEN Half(s, i) - Half(t, i) ELSE Half(s, i) + Half(t, i))

(* COMPARE, LOGICAL, MIN_MAX and ALU_OTHERS.  PCGT, PMAX and PMIN compare  *)
(* the lanes as unsigned numbers, and PABSW looks for the least number in  *)
(* its first lane only.                                                    *)
LessThan(op, s, t, imm) ==
  CASE op = "SLT" -> SignedLane(s, 8, 0) < SignedLane(t, 8, 0)
    [] op = "SLTU" -> Dword(s, 0) < Dword(t, 0)
    [] op = "SLTI" -> SignedLane(s, 8, 0) < imm
    [] op = "SLTIU" -> Dword(s, 0) < Unsigned(8, imm)
Pceq(w, a, b) == IF a = b THEN Ones(w) ELSE 0
Pcgt(w, a, b) == IF a > b THEN Ones(w) ELSE 0
Pmax(w, a, b) == IF a < b THEN b ELSE a
Pmin(w, a, b) == IF b < a THEN b ELSE a

\* The places of the ones of a word, or of a part of one, and the number that has them there.
SetBits(value) == {k \in 0..Bits(4) - 1 : (value \div 2^k) % 2 = 1}
FromBits(places) == SumSet({2^k : k \in places})
Or(a, b) == FromBits(SetBits(a) \cup SetBits(b))
And(a, b) == FromBits(SetBits(a) \cap SetBits(b))
Xor(a, b) == FromBits((SetBits(a) \cup SetBits(b)) \ (SetBits(a) \cap SetBits(b)))

Logical(op, s, t) ==
  [k \in 0..15 |-> CASE op = "AND" -> And(s[k], t[k]) [] op = "OR" -> Or(s[k], t[k])
                     [] op = "XOR" -> Xor(s[k], t[k]) [] op = "NOR" -> Ones(1) - Or(s[k], t[k])]
\* ANDI, ORI and XORI, whose immediate is not sign extended; the word ones change the low half only.
Immediate(imm) == FromLanes(8, LAMBDA i : IF i = 0 THEN Unsigned(2, imm) ELSE 0)
LowLogical(op, s, t, d) == Low(d, Dword(Logical(op, s, t), 0))

Magnitude(x) == IF x < 0 THEN -x ELSE x
Pabsh(t) == FromLanes(2, LAMBDA i : Saturate(2, Magnitude(SignedLane(t, 2, i))))
Pabsw(t) ==
  FromLanes(4, LAMBDA i : IF SignedLane(t, 4, 0) = SignedMin(4) THEN SignedMax(4)
                          ELSE Magnitude(SignedLane(t, 4, i)))
\* count_leading_bits: the bits above the highest that differs from the sign
CountLeadingBits(value) ==
  LET conditioned == IF value < 0 THEN -value - 1 ELSE value
      zeros == {n \in 0..Bits(4) : conditioned < 2^(Bits(4) - n)}
  IN  CHOOSE n \in zeros : \A m \in zeros : m <= n
Plzcw(s, d) ==
  LET count(i) == CountLeadingBits(SignedLane(s, 4, i)) - 1
  IN  WithLane(WithLane(d, 4, 0, count(0)), 4, 1, count(1))
-----------------------------------------------------------------------------
(* SHIFT.  A count of an immediate has the bits that number a word's bits. *)
ShiftLeft(value, n) == value * 2^n
ShiftRight(value, n) == value \div 2^n     \* arithmetic for a negative value: rounds down
Counted(w, n) == n % Bits(w)

DoubleShift(kind, t, d, n) ==
  Low(d, CASE kind = "left" -> ShiftLeft(Dword(t, 0) % 2^(Bits(8) - n), n)
           [] kind = "logical" -> ShiftRight(Dword(t, 0), n)
           [] kind = "arithmetic" -> ShiftRight(SignedLane(t, 8, 0), n))
ShiftedWord(kind, word, n) ==
  CASE kind = "left" -> ShiftLeft(word % 2^(Bits(4) - n), n)
    [] kind = "logical" -> ShiftRight(word, n)
    [] kind = "arithmetic" -> ShiftRight(Signed(4, word), n)
WordShift(kind, t, d, n) == LowSigned(d, ShiftedWord(kind, Word(t, 0), n))

\* PSLLH, PSRLH, PSRAH, PSLLW, PSRLW and PSRAW
LaneShift(kind, w, t, n) ==
  FromLanes(w, LAMBDA i : IF kind = "left" THEN ShiftLeft(Lane(t, w, i) % 2^(Bits(w) - n), n)
                          ELSE ShiftRight(IF kind = "logical" THEN Lane(t, w, i) ELSE SignedLane(t, w, i), n))
\* PSLLVW, PSRLVW and PSRAVW
VariableShift(kind, s, t, d) ==
  LET shifted(i) == ShiftedWord(kind, Word(t, 2 * i), Counted(4, Word(s, 2 * i)))
  IN  HalfSigned(HalfSigned(d, 0, shifted(0)), 1, shifted(1))

(* QFSRV concatenates its four doublewords from Rt's first to Rs's second. *)
(* SA counts bits; MTSAB and MTSAH write multiples of a byte.              *)
Qfsrv(s, t, sa) ==
  LET dwords == <<Dword(s, 1), Dword(s, 0), Dword(t, 1), Dword(t, 0)>>
      byte(k) == IF k > 31 THEN 0 ELSE ByteOf(dwords[k \div 8 + 1], k % 8)
  IN  [k \in 0..15 |-> byte(k + sa \div ByteBits)]
=============================================================================
