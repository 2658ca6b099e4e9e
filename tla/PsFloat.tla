------------------------------- MODULE PsFloat -------------------------------
(***************************************************************************)
(* The words that the floating point units keep.  A word is a sign bit and *)
(* a magnitude, whose codes are in the order of the values as those of     *)
(* IEEE 754 are: zero, the subnormal numbers, the normal ones up to Fmax,  *)
(* infinity, and one that is not a number.  The values are evenly spaced   *)
(* here, and a result between two of them is the one nearer to zero.       *)
(***************************************************************************)
EXTENDS Integers

CONSTANTS
  WordBits,
  One,            \* the code of 1, a power of two
  MinNormal       \* the code of the least normal number

ASSUME PsFloatAssumption ==
  /\ WordBits \in Nat /\ One \in Nat /\ MinNormal \in Nat
  /\ WordBits > 3 /\ 1 < MinNormal /\ MinNormal < One /\ One < 2^(WordBits - 2)

SignBit == 2^(WordBits - 1)
Words == 0..2 * SignBit - 1
NotANumber == SignBit - 1
Infinity == SignBit - 2
Fmax == SignBit - 3

IsNegative(w) == w >= SignBit
Magnitude(w) == w % SignBit
Value(w) == IF IsNegative(w) THEN -Magnitude(w) ELSE Magnitude(w)
Negated(w) == (w + SignBit) % (2 * SignBit)

\* What a register of the PlayStation 2's units can hold as a float.
PsFloats == {w \in Words : Magnitude(w) = 0 \/ Magnitude(w) \in MinNormal..Fmax}

IsNan(w) == Magnitude(w) = NotANumber
IsInfinite(w) == Magnitude(w) = Infinity
IsZero(w) == Magnitude(w) = 0
Less(a, b) == ~IsNan(a) /\ ~IsNan(b) /\ Value(a) < Value(b)
Same(a, b) == ~IsNan(a) /\ ~IsNan(b) /\ Value(a) = Value(b)

\* A result of the given sign and magnitude, which may be too large.
Result(negative, magnitude) ==
  (IF magnitude > Fmax THEN Infinity ELSE magnitude) + (IF negative THEN SignBit ELSE 0)

Plus(a, b) ==
  IF IsNan(a) \/ IsNan(b) \/ (IsInfinite(a) /\ b = Negated(a)) THEN NotANumber
  ELSE IF IsInfinite(a) THEN a ELSE IF IsInfinite(b) THEN b
  ELSE LET sum == Value(a) + Value(b)
       IN  IF sum = 0 THEN Result(IsNegative(a) /\ IsNegative(b), 0)
           ELSE Result(sum < 0, IF sum < 0 THEN -sum ELSE sum)
Minus(a, b) == Plus(a, Negated(b))

Times(a, b) ==
  IF IsNan(a) \/ IsNan(b) \/ (IsInfinite(a) /\ IsZero(b)) \/ (IsZero(a) /\ IsInfinite(b)) THEN NotANumber
  ELSE Result(IsNegative(a) # IsNegative(b), IF IsInfinite(a) \/ IsInfinite(b) THEN Infinity
                                             ELSE (Magnitude(a) * Magnitude(b)) \div One)
Over(a, b) ==
  IF IsNan(a) \/ IsNan(b) \/ (IsZero(a) /\ IsZero(b)) \/ (IsInfinite(a) /\ IsInfinite(b)) THEN NotANumber
  ELSE Result(IsNegative(a) # IsNegative(b),
              IF IsInfinite(a) \/ IsZero(b) THEN Infinity ELSE IF IsInfinite(b) THEN 0
              ELSE (Magnitude(a) * One) \div Magnitude(b))
SquareRoot(a) ==
  IF IsNan(a) \/ (IsNegative(a) /\ ~IsZero(a)) THEN NotANumber
  ELSE IF IsInfinite(a) \/ IsZero(a) THEN a
  ELSE CHOOSE w \in 0..Fmax : w * w <= Magnitude(a) * One /\ Magnitude(a) * One < (w + 1) * (w + 1)
Absolute(w) == Magnitude(w)

(* to_ps2_float (liborbum/src/Utilities/Utilities.cpp): the word that the  *)
(* units keep of a result, and the flags Z, S, U and O that it raises.  A  *)
(* number is compared with zero for the sign, so -0 and NaN have none.     *)
\* Mutant: what is not a number is not clamped.
ToPs2Nan(w) ==
  LET sign == IF Less(w, 0) THEN {"S"} ELSE {}
      signed(magnitude) == Result(Less(w, 0), magnitude)
  IN  IF IsInfinite(w) THEN [word |-> signed(Fmax), flags |-> sign \cup {"O"}]
      ELSE IF IsZero(w) THEN [word |-> w, flags |-> sign \cup {"Z"}]
      ELSE IF Magnitude(w) < MinNormal THEN [word |-> signed(0), flags |-> sign \cup {"U"}]
      ELSE [word |-> w, flags |-> sign]
ToPs2(w) ==
  LET sign == IF Less(w, 0) THEN {"S"} ELSE {}
      signed(magnitude) == Result(Less(w, 0), magnitude)
  IN  IF IsInfinite(w) \/ IsNan(w) THEN [word |-> signed(Fmax), flags |-> sign \cup {"O"}]
      ELSE IF IsZero(w) THEN [word |-> w, flags |-> sign \cup {"Z"}]
      ELSE IF Magnitude(w) < MinNormal THEN [word |-> signed(0), flags |-> sign \cup {"U"}]
      ELSE [word |-> w, flags |-> sign]
=============================================================================
