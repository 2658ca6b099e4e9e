------------------------------- MODULE EeMoves -------------------------------
(***************************************************************************)
(* The EE core's instructions that only move what is there: the            *)
(* reorderings of a vector's lanes, the transfers from and to LO, HI and   *)
(* SA, and the loads and stores of part of a word                          *)
(* (CEeCoreInterpreter_REORDERING.cpp, ..._REG_TRANSFER.cpp, ..._DFC.cpp,  *)
(* ..._SPECIAL_TRANSFER.cpp, ..._LOAD_MEM.cpp and ..._STORE_MEM.cpp).      *)
(***************************************************************************)
EXTENDS EeAlu, Sequences

CONSTANT MemoryTop      \* the number of bytes of the memory behind the bus

\* Lane k of the result is lane picks[k + 1] of the source.
Select(w, t, picks) == FromLanes(w, LAMBDA k : Lane(t, w, picks[k + 1]))

Exchange(op, t) ==
  CASE op = "PEXCH" -> Select(2, t, <<0, 2, 1, 3, 4, 6, 5, 7>>)
    [] op = "PEXEH" -> Select(2, t, <<2, 1, 0, 3, 6, 5, 4, 7>>)
    [] op = "PREVH" -> Select(2, t, <<3, 2, 1, 0, 7, 6, 5, 4>>)
    [] op = "PCPYH" -> Select(2, t, <<0, 0, 0, 0, 4, 4, 4, 4>>)
    [] op = "PEXCW" -> Select(4, t, <<0, 2, 1, 3>>)
    [] op = "PEXEW" -> Select(4, t, <<2, 1, 0, 3>>)
    [] op = "PROT3W" -> Select(4, t, <<1, 2, 0, 3>>)

\* Rt gives the even lanes, Rs the odd ones.
Interleave(w, even(_), odd(_)) ==
  FromLanes(w, LAMBDA k : IF k % 2 = 0 THEN even(k \div 2) ELSE odd(k \div 2))
\* PEXTLB, PEXTLH and PEXTLW; PEXTUB, PEXTUH and PEXTUW; PINTH; PINTEH
ExtendLower(w, s, t) == Interleave(w, LAMBDA i : Lane(t, w, i), LAMBDA i : Lane(s, w, i))
ExtendUpper(w, s, t) ==
  Interleave(w, LAMBDA i : Lane(t, w, i + Lanes(w) \div 2), LAMBDA i : Lane(s, w, i + Lanes(w) \div 2))
Pinth(s, t) == Interleave(2, LAMBDA i : Half(t, i), LAMBDA i : Half(s, i + 4))
Pinteh(s, t) == Interleave(2, LAMBDA i : Half(t, 2 * i), LAMBDA i : Half(s, 2 * i))
\* PPACB, PPACH and PPACW
Pack(w, s, t) ==
  FromLanes(w, LAMBDA k : IF k < Lanes(w) \div 2 THEN Lane(t, w, 2 * k)
                          ELSE Lane(s, w, 2 * k - Lanes(w)))
Pcpyld(s, t) == FromLanes(8, LAMBDA i : IF i = 0 THEN Dword(t, 0) ELSE Dword(s, 0))
Pcpyud(s, t) == FromLanes(8, LAMBDA i : IF i = 0 THEN Dword(s, 1) ELSE Dword(t, 1))

(* The 1-5-5-5 pixels of DFC: each component goes to the top of a byte.    *)
(* PEXT5 shifts the alpha bit out before it would place it.  Of PPAC5's    *)
(* four writes the last two are behind the register.                       *)
ColorBits == (2 * ByteBits - 1) \div 3
Pext5(t) ==
  LET component(i, k) == (Half(t, 2 * i) \div 2^(ColorBits * k)) % 2^ColorBits
      placed(i, k) == component(i, k) * 2^(ByteBits - ColorBits) * Top(k)
  IN  FromLanes(4, LAMBDA i : placed(i, 0) + placed(i, 1) + placed(i, 2))
Ppac5(t, d) ==
  LET component(i, k) == (ByteOf(Word(t, i), k) \div 2^(ByteBits - ColorBits)) * 2^(ColorBits * k)
      alpha(i) == (Word(t, i) \div 2^(Bits(4) - 1)) * 2^(Bits(2) - 1)
      packed(i) == component(i, 0) + component(i, 1) + component(i, 2) + alpha(i)
  IN  WithLane(WithLane(d, 4, 0, packed(0)), 4, 2, packed(1))
-----------------------------------------------------------------------------
(* Transfers.  MFHI1 and MFLO1 read the upper half, MTHI1 and MTLO1 write  *)
(* it; all four of the writers take their value from the register that the *)
(* Rd field names.                                                         *)
FromHalf(q, d, i) == Low(d, Dword(q, i))
ToHalf(q, rd, i) == WithLane(q, 8, i, Dword(rd, 0))
\* MOVN and MOVZ
MovedIf(op, s, t, d) == IF (op = "MOVN") = (Dword(t, 0) # 0) THEN Low(d, Dword(s, 0)) ELSE d

\* PMFHL, by the variant that its shift field names; SLW does not shift HI to its place.
Pmfhl(variant, lo, hi) ==
  LET either(k, n) == IF (k \div n) % 2 = 0 THEN lo ELSE hi
  IN  CASE variant = "LW" -> FromLanes(4, LAMBDA k : Word(either(k, 1), 2 * (k \div 2)))
        [] variant = "UW" -> FromLanes(4, LAMBDA k : Word(either(k, 1), 2 * (k \div 2) + 1))
        [] variant = "SLW" -> FromLanes(8, LAMBDA i : Saturate(4, Or(Word(lo, 2 * i), Word(hi, 2 * i))))
        [] variant = "LH" -> FromLanes(2, LAMBDA k : Half(either(k, 2), 4 * (k \div 4) + 2 * (k % 2)))
        [] variant = "SH" -> FromLanes(2, LAMBDA k : Saturate(2, SignedLane(either(k, 2), 4, 2 * (k \div 4) + (k % 2))))
\* PMTHL.LW: the even words.
PmthlLo(lo, s) == WithLane(WithLane(lo, 4, 0, Word(s, 0)), 4, 2, Word(s, 2))
PmthlHi(hi, s) == WithLane(WithLane(hi, 4, 0, Word(s, 1)), 4, 2, Word(s, 3))

\* MTSAB and MTSAH: unit bytes at a time
ShiftAmount(unit, s, imm) == Xor(Word(s, 0) % Lanes(unit), imm % Lanes(unit)) * Bits(unit)
-----------------------------------------------------------------------------
(* Loads and stores, of an address that the MMU has let through.  Nothing  *)
(* checks the alignment of one that is not for part of a word.             *)
MemoryValue(mem, a, w) ==
  LET byte(k) == mem[(a + k) % MemoryTop] * Top(k)
  IN  CASE w = 1 -> byte(0) [] w = 2 -> byte(0) + byte(1)
        [] w = 4 -> byte(0) + byte(1) + byte(2) + byte(3)
        [] w = 8 -> byte(0) + byte(1) + byte(2) + byte(3) + byte(4) + byte(5) + byte(6) + byte(7)
\* LB, LH, LW, LD; LBU, LHU, LWU; LQ
Load(w, mem, a, d) == Low(d, Signed(w, MemoryValue(mem, a, w)))
LoadUnsigned(w, mem, a, d) == Low(d, MemoryValue(mem, a, w))
LoadQuad(mem, a) == [k \in 0..15 |-> mem[(a + k) % MemoryTop]]
\* SB, SH, SW, SD and SQ
Store(w, mem, a, t) ==
  [b \in 0..MemoryTop - 1 |-> LET k == (b - a) % MemoryTop IN IF k < w THEN t[k] ELSE mem[b]]

\* The bytes from the address down to the aligned one go to the top of the register ...
LoadLeft(w, mem, a, d) ==
  LET skipped == w - 1 - (a % w)
      byte(k) == (IF k >= skipped THEN mem[(a - (a % w)) + k - skipped] ELSE d[k]) * Top(k)
  IN  byte(0) + byte(1) + byte(2) + byte(3) + (IF w = 4 THEN 0 ELSE byte(4) + byte(5) + byte(6) + byte(7))
\* ... and those from the address up to its bottom.
LoadRight(w, mem, a, d) ==
  LET byte(k) == (IF k <= w - 1 - (a % w) THEN mem[a + k] ELSE d[k]) * Top(k)
  IN  byte(0) + byte(1) + byte(2) + byte(3) + (IF w = 4 THEN 0 ELSE byte(4) + byte(5) + byte(6) + byte(7))
\* LWL, LDL, LWR and LDR; the ones of a word extend its sign
PartLoaded(w, d, value) == Low(d, Signed(w, value))

\* SWL, SDL, SWR and SDR: the word is read, and written with the register's part in its place.
\* Mutant: the byte at the address is left out.
StoreLeftShort(w, mem, a, t) ==
  LET start == a - (a % w)
  IN  [b \in 0..MemoryTop - 1 |->
         IF b \in start..(a - 1) THEN t[(b - start) + w - 1 - (a % w)] ELSE mem[b]]
StoreLeft(w, mem, a, t) ==
  LET start == a - (a % w)
  IN  [b \in 0..MemoryTop - 1 |->
         IF b \in start..a THEN t[(b - start) + w - 1 - (a % w)] ELSE mem[b]]
StoreRight(w, mem, a, t) ==
  [b \in 0..MemoryTop - 1 |-> IF b \in a..(a - (a % w)) + w - 1 THEN t[b - a] ELSE mem[b]]
=============================================================================
