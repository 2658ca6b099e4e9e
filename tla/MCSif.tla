------------------------------- MODULE MCSif --------------------------------
(* Both directions of the SIF at once, small enough for TLC. *)
EXTENDS Sif, SequencesExt

ASSUME WiredAssumption == Wired

Word(n) == Payload(n)
Words4(n) == [i \in 1..4 |-> Word(n + i - 1)]

\* The two words of a tag for the EE, and for the IOP.
EeTag(id, qwc, addr) ==
  <<[Zero EXCEPT !.id = id, !.qwc = qwc], [Zero EXCEPT !.addr = addr]>>
IopTag(addr, length, ert) ==
  <<[Zero EXCEPT !.addr = addr, !.ert = ert], [Zero EXCEPT !.length = length]>>

(* To the IOP: the EE sends one packet of a qword, then, in a transfer of  *)
(* its own, another; the IOP's chain takes both.                           *)
EeMemory ==
  LET qwords == 0 :> EeTag(REFE, 1, 1) \o IopTag(24, 4, FALSE) @@ 1 :> Words4(100)
                @@ 2 :> EeTag(REFE, 1, 3) \o IopTag(28, 4, TRUE) @@ 3 :> Words4(104)
  IN  [p \in Place |-> IF p[2] \in DOMAIN qwords THEN qwords[p[2]] ELSE Words4(0)]

EeRegs(tadr) == [op |-> "regs", madr |-> Addr(FALSE, 0), qwc |-> 0,
                 tadr |-> Addr(FALSE, tadr), sadr |-> 0]
EeStart(dir, tte) == [op |-> "start", MOD |-> "CHAIN", DIR |-> dir, TIE |-> FALSE, TTE |-> tte]

EeScenarios ==
  {[STS |-> 0, STD |-> 0, STADR |-> 0, memory |-> EeMemory,
    program |-> 5 :> <<EeStart(FROM, FALSE)>> @@
                6 :> <<EeRegs(0), EeStart(TO, TRUE), EeRegs(2), EeStart(TO, TRUE)>>,
    input |-> [c \in Channels |-> <<>>],
    chains |-> [c \in Channels |-> <<>>], fresh |-> {}, toggles |-> 0]}

(* To the EE: the IOP sends a packet of three words and one of two in a    *)
(* chain, then, after the interrupt, a packet in a transfer of its own;    *)
(* the EE's chain takes all three.                                         *)
IopMemory ==
  LET words == IopTag(12, 3, FALSE) \o EeTag(CNT, 1, 4)
               \o IopTag(16, 2, TRUE) \o EeTag(CNT, 1, 5)
               \o IopTag(20, 4, TRUE) \o EeTag(END, 1, 6)
               \o Words4(200) \o Words4(204) \o Words4(208)
  IN  [a \in 0..IopMemSize - 1 |-> IF a < Len(words) THEN words[a + 1] ELSE Word(0)]

IopRegs(tadr) == [op |-> "regs", BS |-> 0, BA |-> 0, madr |-> 0, tadr |-> tadr]
IopStart == [op |-> "start", SM |-> 3, TD |-> 0, MAS |-> FALSE, CE |-> TRUE]
IopAwait == [op |-> "await"]

IopScenario ==
  {[TCM |-> IopChannels, IQE |-> {}, memory |-> IopMemory,
    program |-> 9 :> <<IopRegs(0), IopStart, IopAwait, IopRegs(8), IopStart, IopAwait>> @@
                10 :> <<IopStart, IopAwait>>,
    input |-> [q \in Channels |-> <<>>], chains |-> [c \in IopChannels |-> 0], toggles |-> 0]}
(* Where a behaviour is torn, neither property below says anything of it:  *)
(* TLC follows it no further.                                              *)
Untorn == ~torn
-----------------------------------------------------------------------------
(* Framing: each side takes for a tag what the other has sent as a tag, so *)
(* that the data comes to its place: no other word ever gets there, the    *)
(* length of an IOP packet being a multiple of a qword or not; and when a  *)
(* receiving channel ends, all the data is there                           *)
(* (CIopDmac.cpp:400-404, CEeDmac.cpp:528-543).  Not so when the IOP's     *)
(* DMAC has moved SIF1 on in the middle of the write of its CHCR.          *)
DataInPlace == torn \/
  /\ \A q \in 4..6 :
       memory[<<FALSE, q>>] \in {Words4(200 + 4 * (q - 4))} \cup (IF 5 \in stat THEN {} ELSE {Words4(0)})
  /\ \A a \in 24..31 :
       iop_memory[a] \in {Word(76 + a)} \cup (IF 10 \in icr.TCI \cup handler.seen THEN {} ELSE {Word(0)})

(* All transfers of both directions end, neither DMAC waiting for the      *)
(* other, and the queues between them are empty then: no word is left that *)
(* the next transfer would take for its tag (CEeDmac.cpp:240-262,          *)
(* CIopDmac.cpp:219-236).  The exception is that of DataInPlace.           *)
SifCompletes ==
  \/ <>[](/\ \A c \in Channels : program[c] = <<>> /\ ~channels[c].STR
          /\ \A c \in IopChannels : iop_program[c] = <<>> /\ ~iop_channels[c].START
          /\ \A c \in Channels : fifo[c] = <<>>)
  \/ <>torn
=============================================================================
