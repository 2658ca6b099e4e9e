------------------------------ MODULE MCEeDmac ------------------------------
(* Programs for the EE DMAC, small enough for TLC, and what they are to do. *)
EXTENDS EeDmac, TLC

\* Word i of the qword that stands for n.
Word(n, i) == Payload(4 * n + i)
Qword(n) == [i \in 1..4 |-> Word(n, i)]
TagQword(id, qwc, int, addr, n) ==
  <<[Zero EXCEPT !.id = id, !.qwc = qwc, !.irq = int], [Zero EXCEPT !.addr = addr],
    Word(n, 3), Word(n, 4)>>

\* Memory whose qwords are told apart by their addresses; the scratchpad's are 100 on.
Plain == [p \in Place |-> Qword(IF p[1] THEN 100 + p[2] ELSE p[2])]
With(f) == [p \in Place |-> IF ~p[1] /\ p[2] \in DOMAIN f THEN f[p[2]] ELSE Plain[p]]

Regs(madr, qwc, tadr, sadr) ==
  [op |-> "regs", madr |-> Addr(FALSE, madr), qwc |-> qwc,
   tadr |-> Addr(FALSE, tadr), sadr |-> sadr]
Start(mod, dir, tie, tte) ==
  [op |-> "start", MOD |-> mod, DIR |-> dir, TIE |-> tie, TTE |-> tte]
Stop == [op |-> "stop"]
Resume == [op |-> "resume"]
NoInput == [c \in {} |-> <<>>]
Nothing(f) == [c \in Channels |-> IF c \in DOMAIN f THEN f[c] ELSE <<>>]
Scenario(sts, std, stadr0, mem, prog, in) ==
  [STS |-> sts, STD |-> std, STADR |-> stadr0, memory |-> mem,
   program |-> Nothing(prog), input |-> Nothing(in), chains |-> Nothing(NoInput),
   fresh |-> {}, toggles |-> 0]
-----------------------------------------------------------------------------
(* A source chain to the GIF, with an interrupt after its second packet.      *)

ChainMemory ==
  With(0 :> TagQword(CNT, 1, FALSE, 0, 50) @@ 2 :> TagQword(REF, 2, TRUE, 8, 52)
       @@ 3 :> TagQword(NEXT, 1, FALSE, 6, 53)
       @@ 6 :> TagQword(REFE, 1, FALSE, 1, 56))
Tags(addrs) == [i \in DOMAIN addrs |-> Addr(FALSE, addrs[i])]
ChainProgram == <<Regs(0, 0, 0, 0), Start("CHAIN", TO, TRUE, TRUE), Resume>>
\* D_STAT and D_CTRL are written twice, at any moment.
Chain ==
  [Scenario(0, 0, 0, ChainMemory, 2 :> ChainProgram, NoInput)
     EXCEPT !.chains[2] = Tags(<<0, 2, 3, 6>>), !.toggles = 2]

(* CEeDmac::handle_interrupt_check: while the DMAC is on, line 3 follows   *)
(* STAT, also when the core clears or masks bits between two time steps.   *)
LineFollowsStat ==
  /\ stat \cap mask # {} ~> irq \/ stat \cap mask = {} \/ ~ctrl.DMAE
  /\ stat \cap mask = {} ~> ~irq \/ stat \cap mask # {} \/ ~ctrl.DMAE
-----------------------------------------------------------------------------
(* Stall control: a source writes qwords 100 and 101 over the stale qwords *)
(* 4 and 5 of memory, and VIF1 drains them from there.                     *)

Drain == <<Regs(4, 2, 0, 0), Start("NORMAL", TO, FALSE, FALSE)>>

Fresh == {Word(n, i) : n \in {100, 101}, i \in 1..4}

\* fromSPR to VIF1, in normal mode.
NormalStall(drain) ==
  [Scenario(2, 1, 4, Plain,
            1 :> drain @@
            8 :> <<Regs(4, 2, 0, 0), Start("NORMAL", FROM, FALSE, FALSE)>>,
            NoInput)
     EXCEPT !.fresh = Fresh]

\* SIF0 to VIF1, with the tags cnts and refs.
ChainStall ==
  [Scenario(1, 1, 4,
            With(0 :> TagQword(REFS, 2, FALSE, 4, 50) @@ 1 :> TagQword(END, 0, FALSE, 0, 51)),
            1 :> <<Regs(0, 0, 0, 0), Start("CHAIN", TO, FALSE, FALSE)>> @@
            5 :> <<Start("CHAIN", FROM, FALSE, FALSE)>>,
            5 :> TagQword(CNTS, 2, FALSE, 4, 60) \o Qword(100) \o Qword(101)
                 \o TagQword(END, 1, FALSE, 8, 61) \o Qword(102))
     EXCEPT !.fresh = Fresh]

\* toSPR fills the scratchpad from a chain, while fromSPR copies from there.
ToSpr == <<Regs(0, 0, 2, 4), Start("CHAIN", TO, FALSE, FALSE)>>
Copy ==
  Scenario(0, 0, 0,
           With(2 :> TagQword(CNT, 2, FALSE, 0, 50) @@ 5 :> TagQword(END, 0, FALSE, 0, 51)),
           9 :> ToSpr @@ 8 :> <<Regs(6, 1, 0, 4), Start("NORMAL", FROM, FALSE, FALSE)>>,
           NoInput)

\* A transfer of nothing to VIF1: the DMAC throws (CEeDmac.cpp:236).
Empty == Scenario(0, 0, 0, Plain, 1 :> <<Regs(4, 0, 0, 0), Start("NORMAL", TO, FALSE, FALSE)>>,
                  NoInput)

\* Two channels that send chains at once.
TwoChains ==
  [Scenario(0, 0, 0,
            With(0 :> TagQword(END, 1, FALSE, 0, 50) @@ 1 :> Qword(102) @@ 2 :> TagQword(NEXT, 1, FALSE, 4, 52)
                 @@ 4 :> TagQword(END, 1, FALSE, 0, 54)),
            1 :> <<Regs(0, 0, 0, 0), Start("CHAIN", TO, FALSE, FALSE)>> @@
            2 :> <<Regs(0, 0, 2, 0), Start("CHAIN", TO, FALSE, TRUE)>>, NoInput)
     EXCEPT !.chains[1] = Tags(<<0>>), !.chains[2] = Tags(<<2, 4>>)]

EeScenarios == {Chain, TwoChains, NormalStall(Drain), NormalStall(Drain \o <<Stop>> \o Drain),
                ChainStall, Copy, Empty}

(* Every transfer ends, with the whole chain sent if there is one: no      *)
(* cycle is skipped for ever and no drain is left stalled, unless the DMAC *)
(* is switched off or has thrown (CEeDmac.cpp:249, 303, 340, 472).         *)
TransfersEnd ==
  \/ <>[]\A c \in Channels :
         /\ ~channels[c].STR /\ program[c] = <<>>
         /\ setup.chains[c] # <<>> => received[c] = Packets(setup, c)[NumTags(setup, c)]
  \/ <>[]~ctrl.DMAE \/ <>(dmac.at = "fault")
=============================================================================
