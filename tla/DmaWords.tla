------------------------------ MODULE DmaWords ------------------------------
(***************************************************************************)
(* The words that both DMA controllers move: what a DmaFifoQueue holds and *)
(* what is in the memories.  A controller that expects a tag takes any     *)
(* word that comes for a part of one (Resources/Ee/Dmac/EeDmatag.hpp,      *)
(* Resources/Iop/Dmac/IopDmatag.hpp), so that a word has the fields of all *)
(* of them, and a payload d that tells words apart.                        *)
(***************************************************************************)
EXTENDS Integers, Sequences

(* In the tag of the EE the first word holds id, qwc and irq, the second   *)
(* one spr and addr; in that of the IOP addr, irq and ert, and length.     *)
Uword == [d : Nat, id : 0..7, qwc : Nat, irq : BOOLEAN, spr : BOOLEAN, addr : Nat,
          ert : BOOLEAN, length : Nat]
Zero == [d |-> 0, id |-> 0, qwc |-> 0, irq |-> FALSE, spr |-> FALSE, addr |-> 0,
         ert |-> FALSE, length |-> 0]
Payload(n) == [Zero EXCEPT !.d = n]

FROM == 0
TO == 1

\* What the first k packets of p are together, and the beginning of a sequence.
Joined(p) ==
  LET upto[k \in 0..Len(p)] == IF k = 0 THEN <<>> ELSE upto[k - 1] \o p[k]
  IN  upto
Begins(s, all) == Len(s) <= Len(all) /\ \A i \in 1..Len(s) : s[i] = all[i]
=============================================================================
