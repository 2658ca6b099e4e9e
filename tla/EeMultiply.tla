------------------------------ MODULE EeMultiply -----------------------------
(***************************************************************************)
(* What the EE core's multiplications and divisions leave in LO, HI and    *)
(* Rd, and the transfers between these registers                           *)
(* (Interpreter/CEeCoreInterpreter_INTEGER_MULT_ADD.cpp,                   *)
(* ..._INTEGER_MULT_DIV.cpp, ..._REG_TRANSFER.cpp).  The instructions of   *)
(* the second pipeline (MULT1, DIV1, MADD1 ...) call the ones of the       *)
(* first, with its LO and HI.                                              *)
(***************************************************************************)
EXTENDS EeAlu

\* The low and the high word of a 64-bit result.
LoWord(result) == Unsigned(4, result)
HiWord(result) == Unsigned(4, result \div Top(4))

\* C++ divides toward zero, and the remainder has the dividend's sign.
Quotient(a, b) == LET q == Magnitude(a) \div Magnitude(b) IN IF (a < 0) = (b < 0) THEN q ELSE -q
Remainder(a, b) == a - b * Quotient(a, b)

\* Mutant: the remainder is never negative.
SignedDivisionFloor(a, b) ==
  IF a = SignedMin(4) /\ b = -1 THEN [q |-> SignedMin(4), r |-> 0]
  ELSE [q |-> Quotient(a, b), r |-> Magnitude(Remainder(a, b))]
\* DIV, and the lanes of PDIVW and PDIVBW; a division by zero has no result here.
SignedDivision(a, b) ==
  IF a = SignedMin(4) /\ b = -1 THEN [q |-> SignedMin(4), r |-> 0]
  ELSE [q |-> Quotient(a, b), r |-> Remainder(a, b)]
UnsignedDivision(a, b) == [q |-> a \div b, r |-> a % b]

\* DIV and DIVU do nothing when they divide by zero, the parallel ones leave zeroes.
Div(op, m, s, t) ==
  LET a == IF op = "DIV" THEN SignedLane(s, 4, 0) ELSE Word(s, 0)
      b == IF op = "DIV" THEN SignedLane(t, 4, 0) ELSE Word(t, 0)
      result == IF op = "DIV" THEN SignedDivision(a, b) ELSE UnsignedDivision(a, b)
  IN  IF b = 0 THEN m
      ELSE [m EXCEPT !.lo = LowSigned(@, result.q), !.hi = LowSigned(@, result.r)]

ByLane(op, s, t, i) ==
  LET a == IF op = "PDIVUW" THEN Word(s, i) ELSE SignedLane(s, 4, i)
      b == CASE op = "PDIVW" -> SignedLane(t, 4, i) [] op = "PDIVUW" -> Word(t, i)
             [] op = "PDIVBW" -> SignedLane(t, 2, 0)
  IN  IF b = 0 THEN [q |-> 0, r |-> 0]
      ELSE IF op = "PDIVUW" THEN UnsignedDivision(a, b) ELSE SignedDivision(a, b)
\* PDIVW compares the unsigned words with the least number and -1, which comes to the same.
ParallelDiv(op, m, s, t) ==
  LET q(i) == ByLane(op, s, t, i).q
      r(i) == ByLane(op, s, t, i).r
  IN  IF op = "PDIVBW" THEN [m EXCEPT !.lo = FromLanes(4, q), !.hi = FromLanes(4, r)]
      ELSE [m EXCEPT !.lo = HalfSigned(HalfSigned(@, 0, q(0)), 1, q(2)),
                     !.hi = HalfSigned(HalfSigned(@, 0, r(0)), 1, r(2))]

\* MULT and MULTU
Mult(op, m, s, t) ==
  LET result == IF op = "MULT" THEN SignedLane(s, 4, 0) * SignedLane(t, 4, 0) ELSE Word(s, 0) * Word(t, 0)
  IN  [m EXCEPT !.lo = LowSigned(@, LoWord(result)), !.hi = LowSigned(@, HiWord(result)),
                !.d = LowSigned(@, LoWord(result))]

(* MADD multiplies in an int, and its LO, widened with its sign, covers HI *)
(* when it is negative; MADDU multiplies in a word and does not extend     *)
(* what it writes.                                                         *)
Accumulated(hi, lo) == IF lo < 0 THEN lo ELSE hi * Top(4) + lo
Madd(op, m, s, t, wide) ==
  LET signed == op = "MADD"
      product == IF signed THEN Widened(wide, SignedLane(s, 4, 0) * SignedLane(t, 4, 0))
                 ELSE Unsigned(4, Word(s, 0) * Word(t, 0))
      held == IF signed THEN Accumulated(SignedLane(m.hi, 4, 0), SignedLane(m.lo, 4, 0))
              ELSE Word(m.hi, 0) * Top(4) + Word(m.lo, 0)
      write(q, word) == IF signed THEN LowSigned(q, word) ELSE Low(q, word)
  IN  [m EXCEPT !.lo = write(@, LoWord(held + product)), !.hi = write(@, HiWord(held + product)),
                !.d = write(@, LoWord(held + product))]

(* PMULTH, PMADDH and PMSUBH: eight products of halfwords, numbers 0, 1, 4 *)
(* and 5 in LO.  The last word of Rd is number 5's in the accumulating     *)
(* ones, where the multiplication has number 6's.                          *)
Hwords(lo, hi, i) == Word(IF i \in {0, 1, 4, 5} THEN lo ELSE hi, (2 * (i \div 4)) + (i % 2))
ParallelHalf(op, m, s, t) ==
  LET product(i) == SignedLane(s, 2, i) * SignedLane(t, 2, i)
      value(i) == CASE op = "PMULTH" -> product(i)
                    [] op = "PMADDH" -> Hwords(m.lo, m.hi, i) + product(i)
                    [] op = "PMSUBH" -> Hwords(m.lo, m.hi, i) - product(i)
      last == IF op = "PMULTH" THEN 6 ELSE 5
  IN  [m EXCEPT !.lo = FromLanes(4, LAMBDA k : value(<<0, 1, 4, 5>>[k + 1])),
                !.hi = FromLanes(4, LAMBDA k : value(<<2, 3, 6, 7>>[k + 1])),
                !.d = FromLanes(4, LAMBDA k : value(<<0, 2, 4, last>>[k + 1]))]

\* PHMADH and PHMSBH: the sum or difference of the products of neighbours; the odd words of LO and HI stay.
HorizontalHalf(op, m, s, t) ==
  LET product(i) == SignedLane(s, 2, i) * SignedLane(t, 2, i)
      value(k) == IF op = "PHMADH" THEN product(2 * k + 1) + product(2 * k) ELSE product(2 * k + 1) - product(2 * k)
  IN  [m EXCEPT !.lo = WithLane(WithLane(@, 4, 0, value(0)), 4, 2, value(2)),
                !.hi = WithLane(WithLane(@, 4, 0, value(1)), 4, 2, value(3)),
                !.d = FromLanes(4, value)]

(* PMULTW, PMULTUW, PMADDW, PMADDUW and PMSUBW: words 0 and 2.  The two    *)
(* multiplications take both factors from Rs.                              *)
ParallelWord(op, m, s, t) ==
  LET unsigned == op \in {"PMULTUW", "PMADDUW"}
      word(q, i) == IF unsigned THEN Word(q, i) ELSE SignedLane(q, 4, i)
      held(i) == IF unsigned THEN word(m.hi, 2 * i) * Top(4) + word(m.lo, 2 * i)
                 ELSE Accumulated(word(m.hi, 2 * i), word(m.lo, 2 * i))
      result(i) == CASE op \in {"PMULTW", "PMULTUW"} -> word(s, 2 * i) * word(s, 2 * i)
                     [] op \in {"PMADDW", "PMADDUW"} -> held(i) + word(s, 2 * i) * word(t, 2 * i)
                     [] op = "PMSUBW" -> held(i) - word(s, 2 * i) * word(t, 2 * i)
  IN  [m EXCEPT !.lo = HalfSigned(HalfSigned(@, 0, LoWord(result(0))), 1, LoWord(result(1))),
                !.hi = HalfSigned(HalfSigned(@, 0, HiWord(result(0))), 1, HiWord(result(1))),
                !.d = FromLanes(8, result)]
=============================================================================
