------------------------------- MODULE EeDmac -------------------------------
(***************************************************************************)
(* The EE DMA controller:                                                  *)
(*   liborbum/src/Controller/Ee/Dmac/CEeDmac.cpp, CEeDmac_CHAIN.cpp        *)
(*   liborbum/src/Resources/Ee/Dmac/   its registers and channels          *)
(*                                                                         *)
(* Three kinds of thread meet here: the DMAC, which goes through its       *)
(* channels once per time step; the EE core, whose program writes the      *)
(* registers; and the peripherals at the other ends of the FIFO queues.    *)
(* The DMAC looks at CHCR.STR of a channel before it takes the lock of     *)
(* CHCR; what it does under that lock is one step.                         *)
(*                                                                         *)
(* Addresses count qwords (the code masks the low four bits of MADR).  A   *)
(* FIFO queue holds words, four to a qword; any word may be taken for a    *)
(* part of a DMAtag.                                                       *)
(***************************************************************************)
EXTENDS DmaWords, Sequences, FiniteSets

CONSTANTS
  Channels,       \* the channels in use: a subset of the ids 0..9
  MemSize,        \* bound: qwords of main memory, and of the scratchpad
  FifoCap,        \* words that a DmaFifoQueue holds (1024 bytes)
  Scenarios       \* what the EE core's program has set up (memory, STS, STD,
                  \* STADR), what it will write to each channel, the chains
                  \* it has built, what the peripherals will send, the words
                  \* that a source is to write before a drain sends them; and
                  \* a bound: its writes to D_STAT and D_CTRL.DMAE

ASSUME ChannelsAssumption == Channels \subseteq 0..9 /\ Channels # {}
ASSUME SizesAssumption == MemSize \in Nat \ {0} /\ FifoCap \in Nat

SIS == 13                       \* the bit of STAT.SIS
SPRS == {8, 9}                  \* fromSPR and toSPR move memory to memory
WithAsr == {0, 1, 2}            \* the channels that have ASR registers

(* EeDmacConstants: the channels that CTRL.STS and CTRL.STD stand for.     *)
STS_MAP == <<0, 5, 8, 3>>
STD_MAP == <<0, 1, 2, 6>>

Place == BOOLEAN \X (0..MemSize - 1)     \* scratchpad or not, and where
Addr(spr, addr) == [spr |-> spr, addr |-> addr]
At(a) == <<a.spr, a.addr % MemSize>>
Plus(a, n) == [a EXCEPT !.addr = @ + n]

Modes == {"NORMAL", "CHAIN", "INTERLEAVED"}
Address == [spr : BOOLEAN, addr : Nat]
Uqword == [1..4 -> Uword]
\* What the program writes to a channel: its registers, or CHCR.
Writes == [op : {"regs"}, qwc : Nat, madr : Address, tadr : Address, sadr : Nat]
          \cup [op : {"start"}, MOD : Modes, DIR : {FROM, TO}, TIE : BOOLEAN, TTE : BOOLEAN]
          \cup [op : {"resume", "stop"}]
ASSUME ScenariosAssumption ==
  \A s \in Scenarios :
    /\ s.STS \in 0..3 /\ s.STD \in 0..3 /\ s.STADR \in Nat /\ s.memory \in [Place -> Uqword]
    /\ s.program \in [Channels -> Seq(Writes)] /\ s.input \in [Channels -> Seq(Uword)]
    /\ s.chains \in [Channels -> Seq(Address)] /\ s.fresh \subseteq Uword /\ s.toggles \in Nat

VARIABLES
  setup,      \* the scenario of this behaviour
  ctrl,       \* D_CTRL: DMAE, STS, STD
  stadr,      \* D_STADR
  stat, mask, \* the bits of D_STAT: CISn is n, SIS is 13
  irq,        \* line 3 of COP0.Cause
  channels,   \* the registers of each channel, with the flags of CHCR
  fifo,       \* dma_fifo_queue of each channel
  memory,
  dmac,       \* where the DMAC is in its time step
  program, input, received, \* what is left to write and to send; what has arrived
  toggles     \* writes to D_STAT and D_CTRL left

env == <<setup, program, input, received, toggles>>
shared == <<ctrl, stadr, stat, mask, irq, channels, fifo, memory>>
vars == <<shared, dmac, env>>

Idle == [at |-> "idle", c |-> 0]

\* The registers after reset.
Blank == [STR |-> FALSE, MOD |-> "NORMAL", DIR |-> FROM, TIE |-> FALSE,
          TTE |-> FALSE, ASP |-> 0,
          dma_started |-> FALSE, tag_exit |-> FALSE, tag_stall |-> FALSE,
          tag_irq |-> FALSE,
          qwc |-> 0, madr |-> Addr(FALSE, 0), tadr |-> Addr(FALSE, 0), sadr |-> 0,
          asr |-> [i \in 0..1 |-> Addr(FALSE, 0)]]

Init ==
  /\ setup \in Scenarios
  /\ ctrl = [DMAE |-> TRUE, STS |-> setup.STS, STD |-> setup.STD]
  /\ stadr = setup.STADR /\ memory = setup.memory
  /\ program = setup.program /\ input = setup.input /\ toggles = setup.toggles
  /\ stat = {} /\ mask = Channels /\ irq = FALSE
  /\ channels = [c \in Channels |-> Blank]
  /\ fifo = [c \in Channels |-> <<>>]
  /\ dmac = Idle
  /\ received = [c \in Channels |-> <<>>]
-----------------------------------------------------------------------------
(* CHCR: what every write to it does besides.                              *)

\* The directions that the hardware fixes.
Direction(c, dir) == CASE c = 5 -> FROM [] c = 6 -> TO [] OTHER -> dir

\* EeDmacChannelRegister_Chcr::write_uword, from the old registers to the new.
WriteChcr(c, old, new) ==
  LET forced == [new EXCEPT !.DIR = Direction(c, @)]
  IN  IF ~old.STR /\ new.STR
      THEN [forced EXCEPT !.dma_started = FALSE, !.tag_exit = FALSE,
                          !.tag_stall = FALSE, !.tag_irq = FALSE]
      ELSE forced

SetChannel(c, ch) == channels' = [channels EXCEPT ![c] = ch]
-----------------------------------------------------------------------------
(* The EE core's program.  It sets a channel up and starts it, or resumes  *)
(* it, while the channel is stopped; it may stop one at any time.          *)

CoreWrite(c) ==
  /\ program[c] # <<>>
  /\ program' = [program EXCEPT ![c] = Tail(@)]
  /\ LET w == Head(program[c])
         ch == channels[c]
         chcr == CASE w.op = "start" ->
                        [ch EXCEPT !.STR = TRUE, !.MOD = w.MOD, !.DIR = w.DIR,
                                   !.TIE = w.TIE, !.TTE = w.TTE, !.ASP = 0]
                   [] w.op = "resume" -> [ch EXCEPT !.STR = TRUE]
                   [] w.op = "stop" -> [ch EXCEPT !.STR = FALSE]
     IN  \/ /\ w.op = "regs" /\ ~ch.STR
            /\ SetChannel(c, [ch EXCEPT !.qwc = w.qwc, !.madr = w.madr,
                                        !.tadr = w.tadr, !.sadr = w.sadr])
         \/ /\ w.op = "stop" \/ (w.op \in {"start", "resume"} /\ ~ch.STR)
            /\ SetChannel(c, WriteChcr(c, ch, chcr))
  /\ UNCHANGED <<ctrl, stadr, stat, mask, irq, fifo, memory, dmac, setup, input,
                 received, toggles>>

\* EeDmacRegister_Stat::byte_bus_write_uword: bits are cleared and reversed.
WriteStat(clr, rev) ==
  /\ toggles > 0 /\ toggles' = toggles - 1
  /\ stat' = stat \ clr
  /\ mask' = (mask \ rev) \cup (rev \ mask)
  /\ UNCHANGED <<ctrl, stadr, irq, channels, fifo, memory, dmac, setup,
                 program, input, received>>

WriteDmae ==
  /\ toggles > 0 /\ toggles' = toggles - 1
  /\ ctrl' = [ctrl EXCEPT !.DMAE = ~@]
  /\ UNCHANGED <<stadr, stat, mask, irq, channels, fifo, memory, dmac,
                 setup, program, input, received>>
-----------------------------------------------------------------------------
(* The peripherals: a consumer and a producer of words.                    *)

PeripheralRead(c) ==
  /\ channels[c].DIR = TO /\ fifo[c] # <<>>
  /\ received' = [received EXCEPT ![c] = Append(@, Head(fifo[c]))]
  /\ fifo' = [fifo EXCEPT ![c] = Tail(@)]
  /\ UNCHANGED <<ctrl, stadr, stat, mask, irq, channels, memory, dmac,
                 setup, program, input, toggles>>

PeripheralWrite(c) ==
  /\ input[c] # <<>> /\ Len(fifo[c]) < FifoCap
  /\ fifo' = [fifo EXCEPT ![c] = Append(@, Head(input[c]))]
  /\ input' = [input EXCEPT ![c] = Tail(@)]
  /\ UNCHANGED <<ctrl, stadr, stat, mask, irq, channels, memory, dmac,
                 setup, program, received, toggles>>
-----------------------------------------------------------------------------
(* The DMAC's way through the channels: CEeDmac::time_step.                *)

First(S) == CHOOSE c \in S : \A d \in S : c <= d
After(c) == {d \in Channels : d > c}
Advance(c) == dmac' = IF After(c) = {} THEN [at |-> "irq", c |-> c]
                      ELSE [at |-> "scan", c |-> First(After(c))]

\* With CTRL.DMAE off there is nothing to do, not even for the interrupt line.
TimeStep ==
  /\ dmac.at = "idle"
  /\ dmac' = IF ctrl.DMAE THEN [at |-> "scan", c |-> First(Channels)] ELSE dmac
  /\ UNCHANGED <<shared, env>>

\* CHCR.STR is read before CHCR is locked.
Check ==
  /\ dmac.at = "scan"
  /\ IF channels[dmac.c].STR THEN dmac' = [dmac EXCEPT !.at = "transfer"]
                             ELSE Advance(dmac.c)
  /\ UNCHANGED <<shared, env>>

\* Mutant: the line is only ever set.
InterruptCheckSets ==
  /\ dmac.at = "irq"
  /\ irq' = (irq \/ stat \cap mask # {})
  /\ dmac' = Idle
  /\ UNCHANGED <<ctrl, stadr, stat, mask, channels, fifo, memory, env>>

\* handle_interrupt_check, at the end of the time step.
InterruptCheck ==
  /\ dmac.at = "irq"
  /\ irq' = (stat \cap mask # {})
  /\ dmac' = Idle
  /\ UNCHANGED <<ctrl, stadr, stat, mask, channels, fifo, memory, env>>

Transferring(c) == dmac = [at |-> "transfer", c |-> c]
-----------------------------------------------------------------------------
(* transfer_normal and transfer_chain, one action for each outcome.        *)

Begin(c) ==
  LET ch == channels[c]
  IN  /\ Transferring(c) /\ ~ch.dma_started
      /\ ch.MOD = "CHAIN" \/ (ch.MOD = "NORMAL" /\ ch.qwc > 0)
      /\ SetChannel(c, [ch EXCEPT !.dma_started = TRUE])
      /\ Advance(c)
      /\ UNCHANGED <<ctrl, stadr, stat, mask, irq, fifo, memory, env>>

\* Mutant: the direction of the drain channels.
SourceStallOnDrain(c) == channels[c].DIR = TO /\ c = STS_MAP[ctrl.STS + 1]

SourceStallOn(c) == channels[c].DIR = FROM /\ c = STS_MAP[ctrl.STS + 1]
DrainStallOn(c) == channels[c].DIR = TO /\ c = STD_MAP[ctrl.STD + 1]
StallTag(c) == channels[c].MOD = "NORMAL" \/ channels[c].tag_stall

\* Mutant: stalls one qword late.
DrainWaitingLate(c) == channels[c].madr.addr > stadr

(* MADR + 8 > STADR, of byte addresses that are multiples of 16.           *)
DrainWaiting(c) == channels[c].madr.addr >= stadr

DrainStalls(c) == DrainStallOn(c) /\ DrainWaiting(c) /\ StallTag(c)

\* The data is not there yet: STAT.SIS is set and the cycle skipped.
Stall(c) ==
  /\ Transferring(c) /\ channels[c].dma_started /\ channels[c].qwc > 0
  /\ DrainStalls(c)
  /\ stat' = stat \cup {SIS}
  /\ Advance(c)
  /\ UNCHANGED <<ctrl, stadr, mask, irq, channels, fifo, memory, env>>

\* Mutant: any room is enough.
CanMoveByte(c) == \/ c \in SPRS
                  \/ channels[c].DIR = FROM /\ Len(fifo[c]) >= 4
                  \/ channels[c].DIR = TO /\ Len(fifo[c]) < FifoCap

\* The FIFO has a qword to read, or room to write one; the SPRs need none.
CanMove(c) == \/ c \in SPRS
              \/ channels[c].DIR = FROM /\ Len(fifo[c]) >= 4
              \/ channels[c].DIR = TO /\ Len(fifo[c]) + 4 <= FifoCap

Words(s) == SubSeq(s, 1, 4)
Rest(s) == SubSeq(s, 5, Len(s))

(* transfer_data, with the update of D_STADR after it. *)
Move(c) ==
  LET ch == channels[c]
      spr == <<TRUE, ch.sadr % MemSize>>
  IN  /\ Transferring(c) /\ ch.dma_started /\ ch.qwc > 0
      /\ ~DrainStalls(c) /\ CanMove(c)
      /\ \/ /\ c \in SPRS /\ ch.DIR = FROM
            /\ memory' = [memory EXCEPT ![<<FALSE, At(ch.madr)[2]>>] = memory[spr]]
            /\ UNCHANGED fifo
         \/ /\ c \in SPRS /\ ch.DIR = TO
            /\ memory' = [memory EXCEPT ![spr] = memory[<<FALSE, At(ch.madr)[2]>>]]
            /\ UNCHANGED fifo
         \/ /\ c \notin SPRS /\ ch.DIR = FROM
            /\ memory' = [memory EXCEPT ![At(ch.madr)] = Words(fifo[c])]
            /\ fifo' = [fifo EXCEPT ![c] = Rest(@)]
         \/ /\ c \notin SPRS /\ ch.DIR = TO
            /\ fifo' = [fifo EXCEPT ![c] = @ \o memory[At(ch.madr)]]
            /\ UNCHANGED memory
      /\ SetChannel(c, [ch EXCEPT !.madr = Plus(@, 1), !.qwc = @ - 1,
                                  !.sadr = IF c \in SPRS THEN @ + 1 ELSE @])
      /\ stadr' = IF SourceStallOn(c) /\ StallTag(c) THEN ch.madr.addr + 1 ELSE stadr
      /\ Advance(c)
      /\ UNCHANGED <<ctrl, stat, mask, irq, env>>

\* Nothing can be moved in this cycle.
Blocked(c) ==
  /\ Transferring(c) /\ channels[c].dma_started /\ channels[c].qwc > 0
  /\ ~DrainStalls(c) /\ ~CanMove(c)
  /\ Advance(c)
  /\ UNCHANGED <<shared, env>>

\* The transfer is over: its last tag, or in normal mode its last qword, is done.
Finished(ch) == /\ ch.dma_started /\ ch.qwc = 0
                /\ ch.MOD = "CHAIN" => (ch.TIE /\ ch.tag_irq) \/ ch.tag_exit

\* Mutant: nobody asks the peripheral.
InFlightIgnored(c) == FALSE

\* The peripheral has not taken all the data yet.
InFlight(c) == channels[c].DIR = TO /\ c # 9 /\ fifo[c] # <<>>

AwaitPeripheral(c) ==
  /\ Transferring(c) /\ Finished(channels[c]) /\ InFlight(c)
  /\ Advance(c)
  /\ UNCHANGED <<shared, env>>

\* set_state_suspended.
Suspend(c) ==
  LET ch == WriteChcr(c, channels[c], [channels[c] EXCEPT !.STR = FALSE])
  IN  /\ Transferring(c) /\ Finished(channels[c]) /\ ~InFlight(c)
      /\ stat' = stat \cup {c}
      /\ SetChannel(c, ch)
      /\ Advance(c)
      /\ UNCHANGED <<ctrl, stadr, mask, irq, fifo, memory, env>>
-----------------------------------------------------------------------------
(* The chain tags: the registers after the handler of each.  In the tables *)
(* of the handlers, ID 0 is REFE of a source and CNTS of a destination.    *)

REFE == 0
CNTS == 0
CNT == 1
NEXT == 2
REF == 3
REFS == 4
CALL == 5
RET == 6
END == 7

NextQword(ch) == Plus(ch.tadr, 1)
Load(ch, tag, madr) == [ch EXCEPT !.qwc = tag.qwc, !.madr = madr]
ToAddr(tag) == Addr(tag.spr, tag.addr)

SRC_CNT(ch, tag) == [Load(ch, tag, NextQword(ch)) EXCEPT !.tadr = Plus(@, tag.qwc + 1)]
SRC_NEXT(ch, tag) == [Load(ch, tag, NextQword(ch)) EXCEPT !.tadr = ToAddr(tag)]
SRC_REFStays(ch, tag) == Load(ch, tag, ToAddr(tag))   \* mutant: TADR stays
SRC_REF(ch, tag) == [Load(ch, tag, ToAddr(tag)) EXCEPT !.tadr = Plus(@, 1)]
SRC_REFS(ch, tag) == [SRC_REF(ch, tag) EXCEPT !.tag_stall = TRUE]
SRC_REFE(ch, tag) == [SRC_REF(ch, tag) EXCEPT !.tag_exit = TRUE]
SRC_END(ch, tag) == [Load(ch, tag, NextQword(ch)) EXCEPT !.tag_exit = TRUE]

\* The address pushed is that after the new TADR.
SRC_CALL(ch, tag) ==
  LET called == [Load(ch, tag, NextQword(ch)) EXCEPT !.tadr = ToAddr(tag)]
  IN  IF ch.ASP >= 2 THEN [called EXCEPT !.tag_exit = TRUE]
      ELSE [called EXCEPT !.asr[ch.ASP] = NextQword(called), !.ASP = @ + 1]

(* Both fields of ASR[ASP] are written to TADR.ADDR, one after the other:  *)
(* what remains is the SPR bit, a byte address in the first qword.         *)
SRC_RET(ch, tag) ==
  LET returned == IF ch.ASP = 0 THEN [ch EXCEPT !.tag_exit = TRUE]
                  ELSE [ch EXCEPT !.tadr.addr = 0, !.ASP = @ - 1]
  IN  Load(returned, tag, NextQword(returned))

(* A missing ASR register is a null pointer, and ASR[2] is no register.    *)
AsrAccess(c, ch, tag) ==
  \/ tag.id = CALL /\ ch.ASP < 2 /\ c \notin WithAsr
  \/ tag.id = RET /\ ch.ASP > 0 /\ (c \notin WithAsr \/ ch.ASP > 1)

SourceTag(ch, tag) ==
  CASE tag.id = REFE -> SRC_REFE(ch, tag)
    [] tag.id = CNT -> SRC_CNT(ch, tag)
    [] tag.id = NEXT -> SRC_NEXT(ch, tag)
    [] tag.id = REF -> SRC_REF(ch, tag)
    [] tag.id = REFS -> SRC_REFS(ch, tag)
    [] tag.id = CALL -> SRC_CALL(ch, tag)
    [] tag.id = RET -> SRC_RET(ch, tag)
    [] tag.id = END -> SRC_END(ch, tag)

DestTag(ch, tag) ==
  [Load(ch, tag, ToAddr(tag)) EXCEPT !.tag_stall = @ \/ tag.id = CNTS,
                                     !.tag_exit = @ \/ tag.id = END]

\* The two words of a tag, as EeDmatag reads them.
Tag(w0, w1) == [id |-> w0.id, qwc |-> w0.qwc, irq |-> w0.irq,
                spr |-> w1.spr, addr |-> w1.addr]

WantsTag(c) == /\ Transferring(c) /\ channels[c].MOD = "CHAIN"
               /\ channels[c].dma_started /\ channels[c].qwc = 0
               /\ ~Finished(channels[c])

\* The last lines of transfer_chain: the IRQ flag, and CHCR.TAG is written.
TagDone(c, ch, tag) ==
  /\ SetChannel(c, [WriteChcr(c, channels[c], ch) EXCEPT !.tag_irq = tag.irq])
  /\ Advance(c)

ReadSourceTag(c) ==
  LET ch == channels[c]
      q == memory[At(ch.tadr)]
      tag == Tag(q[1], q[2])
  IN  /\ WantsTag(c) /\ ch.DIR = TO
      /\ ~AsrAccess(c, ch, tag)
      /\ ch.TTE => c \notin SPRS /\ CanMove(c)
      /\ fifo' = IF ch.TTE THEN [fifo EXCEPT ![c] = @ \o <<q[3], q[4], Zero, Zero>>]
                 ELSE fifo
      /\ TagDone(c, SourceTag(ch, tag), tag)
      /\ UNCHANGED <<ctrl, stadr, stat, mask, irq, memory, env>>

ReadDestTag(c) ==
  LET ch == channels[c]
      tag == Tag(fifo[c][1], fifo[c][2])
  IN  /\ WantsTag(c) /\ ch.DIR = FROM /\ ~ch.TTE
      /\ c \notin SPRS /\ CanMove(c)
      /\ tag.id \in {CNTS, CNT, END}
      /\ fifo' = [fifo EXCEPT ![c] = Rest(@)]
      /\ TagDone(c, DestTag(ch, tag), tag)
      /\ UNCHANGED <<ctrl, stadr, stat, mask, irq, memory, env>>

\* A tag that cannot be read, or whose qword cannot be sent, in this cycle.
TagBlocked(c) ==
  /\ WantsTag(c) /\ c \notin SPRS /\ ~CanMove(c)
  /\ channels[c].DIR = FROM \/ channels[c].TTE
  /\ Advance(c)
  /\ UNCHANGED <<shared, env>>

(* What ends in an exception, or in a bad access: an empty transfer, the   *)
(* interleaved mode, tags that are not implemented, the ASR.               *)
Unsupported(c) ==
  LET ch == channels[c]
  IN  \/ ch.MOD = "INTERLEAVED"
      \/ ch.MOD = "NORMAL" /\ ~ch.dma_started /\ ch.qwc = 0
      \/ /\ WantsTag(c) /\ ch.DIR = TO
         /\ LET q == memory[At(ch.tadr)] IN AsrAccess(c, ch, Tag(q[1], q[2]))
      \/ /\ WantsTag(c) /\ ch.DIR = FROM /\ CanMove(c)
         /\ ch.TTE \/ fifo[c][1].id \notin {CNTS, CNT, END}
      \/ WantsTag(c) /\ c \in SPRS /\ (ch.DIR = FROM \/ ch.TTE)

Fault(c) ==
  /\ Transferring(c) /\ Unsupported(c)
  /\ dmac' = [at |-> "fault", c |-> c]
  /\ UNCHANGED <<shared, env>>
\* The exception has stopped the core.
Faulted == dmac.at = "fault" /\ UNCHANGED vars
-----------------------------------------------------------------------------
Transfer(c) == \/ Begin(c) \/ Stall(c) \/ Move(c) \/ Blocked(c)
               \/ AwaitPeripheral(c) \/ Suspend(c)
               \/ ReadSourceTag(c) \/ ReadDestTag(c) \/ TagBlocked(c) \/ Fault(c)

DmacNext == \/ TimeStep \/ Check \/ InterruptCheck
            \/ \E c \in Channels : Transfer(c)
\* Bound: in D_STAT the program writes the bits of the channels it uses only.
Used == {c \in Channels : program[c] # <<>> \/ channels[c] # Blank}
CoreNext == \/ \E c \in Channels : CoreWrite(c)
            \/ \E clr, rev \in SUBSET (Used \cup {SIS}) : WriteStat(clr, rev)
            \/ WriteDmae
PeripheralNext(c) == PeripheralRead(c) \/ PeripheralWrite(c)

Next == DmacNext \/ Faulted \/ CoreNext \/ \E c \in Channels : PeripheralNext(c)

Spec == Init /\ [][Next]_vars

(* Every run of the core gives the DMAC time, the peripherals are given    *)
(* time as well, and the EE core carries on with its program.              *)
FairSpec == /\ Spec /\ WF_vars(DmacNext)
            /\ \A c \in Channels : WF_vars(PeripheralNext(c)) /\ WF_vars(CoreWrite(c))
-----------------------------------------------------------------------------
(* Every variable has the type of the C++ object: no queue overflows, QWC  *)
(* does not go below zero and ASP stays within the stack, in whatever      *)
(* order the program, the DMAC and the peripherals act.                    *)
Registers ==
  [STR : BOOLEAN, MOD : Modes, DIR : {FROM, TO}, TIE : BOOLEAN, TTE : BOOLEAN, ASP : 0..2,
   dma_started : BOOLEAN, tag_exit : BOOLEAN, tag_stall : BOOLEAN, tag_irq : BOOLEAN,
   qwc : Nat, madr : Address, tadr : Address, sadr : Nat, asr : [0..1 -> Address]]
TypeOK ==
  /\ ctrl \in [DMAE : BOOLEAN, STS : 0..3, STD : 0..3] /\ stadr \in Nat
  /\ stat \subseteq Channels \cup {SIS} /\ mask \subseteq Channels \cup {SIS}
  /\ irq \in BOOLEAN
  /\ dmac \in {Idle} \cup [at : {"scan", "transfer", "irq", "fault"}, c : Channels]
  /\ channels \in [Channels -> Registers] /\ memory \in [Place -> Uqword]
  /\ fifo \in [Channels -> Seq(Uword)] /\ \A c \in Channels : Len(fifo[c]) <= FifoCap
  /\ program \in [Channels -> Seq(Writes)] /\ input \in [Channels -> Seq(Uword)]
  /\ received \in [Channels -> Seq(Uword)] /\ toggles \in Nat /\ setup \in Scenarios
-----------------------------------------------------------------------------
(* Chains.  s.chains[c] is the addresses of the tags that the program has  *)
(* built for channel c, none if it sends no chain.  Where the data of a    *)
(* tag and the next tag are is what the handlers' comments say             *)
(* (CEeDmac_CHAIN.cpp:15, 29, 43, 56, 72, 136): the QWC qwords after the   *)
(* tag or at its ADDR; the qword that follows, or the one at ADDR.         *)
TagAt(s, a) == Tag(s.memory[At(a)][1], s.memory[At(a)][2])
DataAt(s, a) == IF TagAt(s, a).id \in {REF, REFS, REFE} THEN ToAddr(TagAt(s, a))
                ELSE Plus(a, 1)
NextAt(s, a) == CASE TagAt(s, a).id = CNT -> Plus(a, TagAt(s, a).qwc + 1)
                  [] TagAt(s, a).id = NEXT -> ToAddr(TagAt(s, a))
                  [] OTHER -> Plus(a, 1)

(* The program sets TADR, starts the channel, and resumes it not more      *)
(* often than a tag has suspended it.                                      *)
NumTags(s, c) == Len(s.chains[c])
Pauses(s, c) == {k \in 1..NumTags(s, c) - 1 : s.program[c][2].TIE /\ TagAt(s, s.chains[c][k]).irq}
IsChain(s, c) ==
  LET tags == s.chains[c]
      writes == s.program[c]
  IN  /\ \A k \in 1..NumTags(s, c) :
           TagAt(s, tags[k]).id \in IF k = NumTags(s, c) THEN {REFE, END} ELSE {CNT, NEXT, REF, REFS}
      /\ \A k \in 1..NumTags(s, c) - 1 : tags[k + 1] = NextAt(s, tags[k])
      /\ c \notin SPRS \cup {5} /\ s.input[c] = <<>>
      /\ Len(writes) >= 2 /\ Len(writes) - 2 <= Cardinality(Pauses(s, c))
      /\ writes[1].op = "regs" /\ writes[1].qwc = 0 /\ writes[1].tadr = tags[1]
      /\ writes[2].op = "start" /\ writes[2].MOD = "CHAIN" /\ writes[2].DIR = TO
      /\ \A i \in 3..Len(writes) : writes[i].op = "resume"

(* When a channel sends a chain, no channel does anything else.            *)
Chained(s) == \E c \in Channels : s.chains[c] # <<>>
ASSUME ChainsAssumption ==
  \A s \in Scenarios : Chained(s) =>
    \A c \in Channels : IF s.chains[c] = <<>> THEN s.program[c] = <<>> ELSE IsChain(s, c)

(* What the tags up to the k-th stand for: the upper half of each, if TTE  *)
(* asks for it, and its data.                                              *)
Qwords(s, a, n) == [i \in 1..4 * n |-> s.memory[At(Plus(a, (i - 1) \div 4))][((i - 1) % 4) + 1]]
Packet(s, c, k) ==
  LET a == s.chains[c][k]
      q == s.memory[At(a)]
  IN  (IF s.program[c][2].TTE THEN <<q[3], q[4], Zero, Zero>> ELSE <<>>)
      \o Qwords(s, DataAt(s, a), TagAt(s, a).qwc)
Packets(s, c) == Joined([k \in 1..NumTags(s, c) |-> Packet(s, c, k)])

(* Where a chain's channel is, after k tags: what the program still has to *)
(* write, and what the registers say of the rest of the chain.             *)
Sent(c) == received[c] \o fifo[c]
Unused(c) == channels[c] = Blank /\ program[c] = <<>> /\ ~Transferring(c)
Written(c) == Len(setup.program[c]) - Len(program[c])
ToCome(c, k) == {j \in Pauses(setup, c) : j > k \/ (j = k /\ channels[c].tag_irq)}
Programmed(c, k) ==
  /\ input[c] = <<>>
  /\ Written(c) \in 0..Len(setup.program[c])
  /\ program[c] = SubSeq(setup.program[c], Written(c) + 1, Len(setup.program[c]))
  /\ Written(c) <= 1 => k = 0 /\ ~channels[c].STR /\ ~Transferring(c)
  /\ CASE Written(c) = 0 -> channels[c] = Blank
       [] Written(c) = 1 -> ~channels[c].tag_irq
       [] OTHER ->
            /\ channels[c].MOD = "CHAIN" /\ channels[c].DIR = TO
            /\ channels[c].TIE = setup.program[c][2].TIE
            /\ channels[c].TTE = setup.program[c][2].TTE
            /\ Len(program[c]) <= Cardinality(ToCome(c, k))

Follows(c, k) ==
  LET ch == channels[c]
      tags == setup.chains[c]
      all == Packets(setup, c)[k]
  IN  /\ Len(Sent(c)) + 4 * ch.qwc = Len(all) /\ Begins(Sent(c), all)
      /\ ch.tag_exit <=> k = NumTags(setup, c)
      /\ k < NumTags(setup, c) /\ Written(c) > 0 => ch.tadr = tags[k + 1]
      /\ ch.tag_irq => k > 0 /\ TagAt(setup, tags[k]).irq
      /\ ch.qwc > 0 => /\ k > 0 /\ ch.qwc <= TagAt(setup, tags[k]).qwc
                       /\ ch.madr = Plus(DataAt(setup, tags[k]), TagAt(setup, tags[k]).qwc - ch.qwc)

ChainsKnown == Chained(setup) =>
  /\ memory = setup.memory
  /\ \A c \in Channels :
       IF setup.chains[c] = <<>> THEN Unused(c)
       ELSE \E k \in 0..NumTags(setup, c) : Programmed(c, k) /\ Follows(c, k)

(* CEeDmac::transfer_chain sends the packets of the chain, in order, none  *)
(* twice, across the suspension by a tag's IRQ bit and the resumption.     *)
SendsChain ==
  /\ ChainsKnown
  /\ \A c \in Channels : setup.chains[c] # <<>> =>
       Begins(Sent(c), Packets(setup, c)[NumTags(setup, c)])

(* "check that the peripheral received the data before interrupting EE     *)
(* Core" (CEeDmac.cpp:245, 319): when the channel's bit in STAT rises, all *)
(* the packets up to a tag that suspends the chain, or all, are received.  *)
InterruptAfterData ==
  [][\A c \in Channels : setup.chains[c] # <<>> /\ c \in stat' \ stat =>
       \E k \in Pauses(setup, c) \cup {NumTags(setup, c)} : received[c] = Packets(setup, c)[k]]_vars
-----------------------------------------------------------------------------
(* Stall control: the words of s.fresh take the place of stale ones in     *)
(* memory.  The source moves them there from the scratchpad or from its    *)
(* peripheral, from the address in D_STADR upwards, and the drain, which   *)
(* the program may stop and start again, is to send only from there.       *)
SourceOf(s) == STS_MAP[s.STS + 1]
DrainOf(s) == STD_MAP[s.STD + 1]
Words4Of(s, n) == {s.memory[<<TRUE, n % MemSize>>][i] : i \in 1..4}
StallsNormal(s) ==
  LET source == s.program[SourceOf(s)]
      drain == s.program[DrainOf(s)]
  IN  /\ SourceOf(s) \in Channels /\ DrainOf(s) \in Channels /\ SourceOf(s) # DrainOf(s)
      /\ \A c \in Channels \ {SourceOf(s), DrainOf(s)} : s.program[c] = <<>>
      /\ Len(source) = 2 /\ source[1].op = "regs" /\ source[1].madr = Addr(FALSE, s.STADR)
      /\ source[2].op = "start" /\ source[2].MOD = "NORMAL" /\ source[2].DIR = FROM
      /\ s.STADR + source[1].qwc <= MemSize
      /\ IF SourceOf(s) \in SPRS
         THEN \A n \in 0..source[1].qwc - 1 : Words4Of(s, source[1].sadr + n) \subseteq s.fresh
         ELSE \A i \in DOMAIN s.input[SourceOf(s)] : s.input[SourceOf(s)][i] \in s.fresh
      /\ s.input[DrainOf(s)] = <<>>
      /\ drain # <<>> => drain[1].op = "regs"
      /\ \A i \in DOMAIN drain :
           \/ drain[i].op = "regs" /\ drain[i].madr.spr = FALSE /\ drain[i].madr.addr >= s.STADR
           \/ drain[i].op = "start" /\ drain[i].MOD = "NORMAL" /\ drain[i].DIR = TO
           \/ drain[i].op = "stop"

(* CEeDmac.cpp:258, 294: the drain channel never sends a qword that the    *)
(* source has not written yet, whichever is started first, and also when   *)
(* the program stops the drain and starts it again from the beginning.     *)
NoStaleData ==
  setup.fresh # {} /\ DrainOf(setup) \in Channels =>
    \A i \in DOMAIN Sent(DrainOf(setup)) : Sent(DrainOf(setup))[i] \in setup.fresh
=============================================================================
