-------------------------------- MODULE Lanes --------------------------------
(***************************************************************************)
(* The registers of the cores, the vector units and the memory behind them *)
(* (liborbum/src/Common/Types/Register/SizedQwordRegister.hpp and its word *)
(* sized relatives): a union of bytes, halfwords, words and doublewords,   *)
(* little end first.  A byte has ByteBits bits, so that the same           *)
(* definitions are checked on registers that are narrow enough.            *)
(***************************************************************************)
EXTENDS Integers

CONSTANT ByteBits   \* 8 in the program, any positive number here

Base == 2^ByteBits
Bytes == 0..Base - 1
Quads == [0..15 -> Bytes]

\* The values of w bytes, and the number of lanes of w bytes.
Top(w) == Base^w
Lanes(w) == 16 \div w

Half(q, i) == q[2 * i] + Base * q[2 * i + 1]
Word(q, i) == Half(q, 2 * i) + Top(2) * Half(q, 2 * i + 1)
Dword(q, i) == Word(q, 2 * i) + Top(4) * Word(q, 2 * i + 1)

\* read_ubyte, read_uhword, read_uword and read_udword
Lane(q, w, i) ==
  CASE w = 1 -> q[i] [] w = 2 -> Half(q, i) [] w = 4 -> Word(q, i) [] w = 8 -> Dword(q, i)

ByteOf(value, k) == (value \div Top(k)) % Base

\* All the lanes written: value has a number for each.
FromLanes(w, value(_)) == [k \in 0..15 |-> ByteOf(value(k \div w) % Top(w), k % w)]

\* One lane written, the others kept.
WithLane(q, w, i, value) ==
  [k \in 0..15 |-> IF k \div w = i THEN ByteOf(value % Top(w), k % w) ELSE q[k]]

SignedMin(w) == -(Top(w) \div 2)
SignedMax(w) == Top(w) \div 2 - 1
Signed(w, value) == IF value > SignedMax(w) THEN value - Top(w) ELSE value
Unsigned(w, value) == value % Top(w)
SignedLane(q, w, i) == Signed(w, Lane(q, w, i))

\* saturate_word_to_hword, saturate_dword_to_word and the clamps written out
Saturate(w, value) ==
  IF value > SignedMax(w) THEN SignedMax(w) ELSE IF value < SignedMin(w) THEN SignedMin(w) ELSE value
=============================================================================
