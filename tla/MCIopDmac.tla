----------------------------- MODULE MCIopDmac ------------------------------
(* Programs for the IOP DMAC, small enough for TLC, and what they are to do. *)
EXTENDS IopDmac, TLC

Word(n) == Payload(n)
\* A tag of four words: two for the IOP's DMAC, two to pass on.
TagWords(addr, length, irq, ert, n) ==
  <<[Zero EXCEPT !.addr = addr, !.irq = irq, !.ert = ert], [Zero EXCEPT !.length = length],
    Word(n), Word(n + 1)>>

\* Memory whose words are told apart by their addresses.
Plain == [a \in 0..MemSize - 1 |-> Word(a)]
\* The words of s are at address a and after it.
Put(mem, a, s) == [b \in DOMAIN mem |-> IF b \in a..a + Len(s) - 1 THEN s[b - a + 1] ELSE mem[b]]

Regs(madr, bs, ba, tadr) == [op |-> "regs", madr |-> madr, BS |-> bs, BA |-> ba, tadr |-> tadr]
Start(sm, td, mas, ce) == [op |-> "start", SM |-> sm, TD |-> td, MAS |-> mas, CE |-> ce]
Resume == [op |-> "resume"]
Stop == [op |-> "stop"]
WaitForEnd == [op |-> "await"]
Scenario(tcm, iqe, mem, prog, in) ==
  [TCM |-> tcm, IQE |-> iqe, memory |-> mem,
   program |-> [c \in Channels |-> IF c \in DOMAIN prog THEN prog[c] ELSE <<>>],
   input |-> [q \in Queues |-> IF q \in DOMAIN in THEN in[q] ELSE <<>>],
   chains |-> [c \in Channels |-> 0], toggles |-> 0]
NoInput == [q \in {} |-> <<>>]
-----------------------------------------------------------------------------
(* A source chain to the EE, of three packets; the second one's tag asks   *)
(* for an interrupt, and the program then resumes the channel.             *)

ChainMemory ==
  Put(Plain, 0, TagWords(12, 2, FALSE, FALSE, 50) \o TagWords(16, 4, TRUE, FALSE, 60)
                \o TagWords(12, 1, FALSE, TRUE, 70))
ChainProgram == <<Regs(0, 0, 0, 0), Start(CHAIN, TO, FALSE, TRUE), Resume>>
\* The control registers are written twice, at any moment.
Chain == [Scenario({9}, {9}, ChainMemory, 9 :> ChainProgram, NoInput)
           EXCEPT !.chains[9] = 3, !.toggles = 2]

\* The same on two channels at once, the second one to the SPU2.
TwoChains ==
  [Scenario({4, 9}, {}, ChainMemory,
            9 :> <<Regs(0, 0, 0, 4), Start(CHAIN, TO, FALSE, TRUE)>> @@
            4 :> <<Regs(0, 0, 0, 8), Start(CHAIN, TO, FALSE, TRUE)>>, NoInput)
     EXCEPT !.chains[9] = 2, !.chains[4] = 1]
-----------------------------------------------------------------------------
(* A sector from the CDVD in burst mode, downwards in memory; blocks to    *)
(* the SPU2 in slice mode; a chain from the EE.  Each program waits for    *)
(* the interrupt of its transfer, the SPU2's then sends what the CDVD sent.*)

FromEe == TagWords(20, 2, FALSE, FALSE, 50) \o <<Word(200), Word(201)>>
          \o TagWords(22, 1, FALSE, TRUE, 51) \o <<Word(202)>>
AgainFromEe == TagWords(20, 1, FALSE, TRUE, 52) \o <<Word(203)>>
IopScenarios ==
  {Chain, TwoChains,
   Scenario({3, 4, 10}, {}, Plain,
            3 :> <<Regs(9, 2, 0, 0), Start(BURST, FROM, TRUE, FALSE), WaitForEnd>> @@
            4 :> <<Regs(0, 1, 2, 0), Start(SLICE, TO, FALSE, FALSE), WaitForEnd>> @@
            10 :> <<Regs(0, 0, 0, 0), Start(SLICE, FROM, FALSE, TRUE), WaitForEnd>>,
            103 :> <<Word(100), Word(101)>> @@ 6 :> AgainFromEe),
   Scenario({10}, {}, Plain,
            10 :> <<Start(SLICE, FROM, FALSE, TRUE), WaitForEnd,
                    Start(SLICE, FROM, FALSE, TRUE), WaitForEnd>>,
            6 :> FromEe \o AgainFromEe),
   Scenario({3, 4}, {}, Plain,
            3 :> <<Regs(8, 1, 0, 0), Start(BURST, FROM, FALSE, FALSE), Stop,
                   Regs(8, 1, 0, 0), Start(BURST, FROM, FALSE, FALSE), WaitForEnd>>,
            103 :> <<Word(110), Word(111)>>),
   Scenario({}, {}, Plain, 4 :> <<Start(CHAIN, TO, FALSE, FALSE)>>, NoInput)}

(* A program that has waited for its interrupt finds the data in place:    *)
(* when the handler has seen the channel's TCI bit, memory holds what the  *)
(* peripheral has sent, or the peripheral has what memory holds; and no    *)
(* register or queue ever leaves its range (IopDmac's TypeOK).  Not so     *)
(* when the DMAC has moved SIF1 on by flags that the write of CHCR was     *)
(* still to reset: "Reset DMA flags on suspended -> start" comes after the *)
(* bit that starts it (IopDmacChannelRegisters.cpp:27-36, 122).            *)
DataBeforeInterrupt ==
  /\ TypeOK
  /\ torn \/ \A c \in handler.seen :
       /\ c = 3 => \/ memory[9] = Word(100) /\ memory[8] = Word(101)
                   \/ memory[8].d >= 110   \* the second program
       /\ c = 4 /\ setup.chains[4] = 0 => received[104] = <<Word(0), Word(1)>>
       /\ c = 10 => IF Written(10) = 1   \* the first of two transfers
                    THEN \A i \in 0..2 : memory[20 + i] = Word(200 + i)
                    ELSE memory[20] = Word(203)

(* Every transfer ends, with the whole chain sent if there is one, and no  *)
(* interrupt is lost: a program that waits for the end of a transfer gets  *)
(* there, whatever other channels end while the handler runs; unless the   *)
(* DMAC or the chain's channel remains switched off, it has thrown, or it  *)
(* has moved SIF1 on in the middle of a write of CHCR                      *)
(* (CIopDmac.cpp:125, 225, 348, IopDmacRegisters.cpp:7-61).                *)
TransfersEnd ==
  \/ <>[]\A c \in Channels :
         /\ ~channels[c].START /\ program[c] = <<>>
         /\ setup.chains[c] > 0 => received[Queue(c)] = Packets(setup, c)[setup.chains[c]]
  \/ <>[](9 \notin pcr) \/ <>[]~gctrl \/ <>(dmac.at = "fault") \/ <>torn
-----------------------------------------------------------------------------
\* A command to the SIO2.
Sio2Scenarios ==
  {Scenario({}, {}, Plain, 11 :> <<Regs(0, 1, 1, 0), Start(SLICE, TO, FALSE, FALSE)>>, NoInput)}

(* RIopDmac.hpp:40: "channel_tosio2; // CH 11".  The SIO2 takes what is    *)
(* sent to it from fifo_tosio2 (CSio2.cpp:157), queue 111 here.            *)
ReachesSio2 == \A q \in Queues : received[q] \o fifo[q] # <<>> => q = 111
=============================================================================
