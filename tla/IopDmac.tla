------------------------------ MODULE IopDmac -------------------------------
(***************************************************************************)
(* The IOP DMA controller:                                                 *)
(*   liborbum/src/Controller/Iop/Dmac/CIopDmac.cpp                         *)
(*   liborbum/src/Resources/Iop/Dmac/   its registers and channels         *)
(*                                                                         *)
(* As in EeDmac, three kinds of thread meet: the DMAC, which goes through  *)
(* its channels once per time step; the IOP core, whose program writes the *)
(* registers; and whatever is at the other ends of the FIFO queues.  The   *)
(* DMAC looks at PCR and at CHCR.START of a channel before it takes the    *)
(* lock of CHCR; what it does under that lock is one step.  So is a write  *)
(* of CHCR, but for SIF1's, which takes no lock.                           *)
(*                                                                         *)
(* Addresses count words, any of which may be taken for a part of a tag.   *)
(***************************************************************************)
EXTENDS DmaWords, Sequences, FiniteSets

CONSTANTS
  Channels,       \* the channels in use: a subset of the ids 0..12
  MemSize,        \* bound: words of the IOP's memory
  FifoCap,        \* words that a DmaFifoQueue holds (1024 bytes)
  FieldSize,      \* BCR.BS and BCR.BA are below it (2^16)
  TagLimit,       \* the length of a source tag is taken modulo it (2^20)
  Scenarios       \* what is in memory, what the IOP's program has enabled and
                  \* will write to each channel (it stops none of SIF1's
                  \* transfers), how many tags the chains have that it has
                  \* built, what is sent into the queues; and a bound: its
                  \* writes to PCR, GCTRL, ICR0 and ICR1

WithTadr == {4, 9}              \* the channels that have a TADR register
LowChannels == 0..6             \* those of ICR0; the others belong to ICR1

\* CHCR.SM
BURST == 0
SLICE == 1
LINKEDLIST == 2
CHAIN == 3

(* The FIFO queue that each channel is wired to.  A SIF queue is named by  *)
(* the EE's channel at its other end, the others by 100 + the channel they *)
(* are called after in RResources: fromsio2 is 112, tosio2 111.            *)
Queue(c) == CASE c = 2 -> 7 [] c = 9 -> 5 [] c = 10 -> 6
              [] c = 0 -> 101 [] c = 1 -> 100
              [] c = 11 -> 112 [] c = 12 -> 111
              [] OTHER -> 100 + c
Queues == {Queue(c) : c \in Channels}

Fields == 0..FieldSize - 1
\* What the program writes to a channel: its registers, or CHCR.
Writes == [op : {"regs"}, BS : Fields, BA : Fields, madr : Nat, tadr : Nat]
          \cup [op : {"start"}, SM : 0..3, TD : {FROM, TO}, MAS : BOOLEAN, CE : BOOLEAN]
          \cup [op : {"resume", "stop", "await"}]
ConstantsTyped ==
  /\ Channels \subseteq 0..12 /\ Channels # {} /\ FifoCap \in Nat
  /\ {MemSize, FieldSize, TagLimit} \subseteq Nat \ {0}
  /\ \A s \in Scenarios :
       /\ s.TCM \subseteq Channels /\ s.IQE \subseteq Channels
       /\ s.memory \in [0..MemSize - 1 -> Uword] /\ s.toggles \in Nat
       /\ s.program \in [Channels -> Seq(Writes)] /\ s.input \in [Queues -> Seq(Uword)]
       /\ s.chains \in [Channels -> Nat]
       /\ \A c \in Channels \cap {10} : \A i \in DOMAIN s.program[c] : s.program[c][i].op # "stop"
ASSUME IopDmacAssumption == ConstantsTyped

\* The queues that EE DMAC (5), SPU2 and SIO2 read from; they write to the others.
Drained == {5, 104, 107, 111}

VARIABLES
  setup,      \* the scenario of this behaviour
  gctrl,      \* the DMAC is on
  pcr,        \* PCR0 and PCR1: the channels that are enabled
  icr,        \* ICR0 and ICR1: the sets TCM, TCI and IQE, and the bits of ICR0
  intc,       \* the DMAC bit of the INTC's STAT
  channels,   \* the registers of each channel, with what CHCR and BCR keep
  fifo, memory,
  dmac,       \* where the DMAC is in its time step
  program, input, received, \* what is left to write and to send; what has arrived
  handler,    \* the program's interrupt handler: in it, and what it has seen
  toggles,    \* writes to the control registers left
  chcr_write, \* how far the IOP is with writing SIF1's CHCR
  torn        \* history: has the DMAC moved SIF1 on in the middle of such a write

env == <<setup, program, input, received, handler, toggles, chcr_write>>
control == <<gctrl, pcr, icr, intc>>
vars == <<control, channels, fifo, memory, dmac, env, torn>>

Idle == [at |-> "idle", c |-> 0]
NoTag == [addr |-> 0, irq |-> FALSE, ert |-> FALSE, length |-> 0]

\* The registers after reset.
Blank == [START |-> FALSE, SM |-> BURST, TD |-> FROM, MAS |-> FALSE, CE |-> FALSE,
          dma_started |-> FALSE, dma_tag |-> NoTag,
          BS |-> 0, BA |-> 0, transfer_length |-> 0, madr |-> 0, tadr |-> 0]

Init ==
  /\ gctrl = TRUE /\ pcr = Channels /\ intc = FALSE
  /\ setup \in Scenarios
  /\ icr = [TCM |-> setup.TCM, TCI |-> {}, IQE |-> setup.IQE, ENABLE |-> TRUE, MASTER |-> FALSE]
  /\ memory = setup.memory /\ program = setup.program /\ input = setup.input
  /\ toggles = setup.toggles
  /\ channels = [c \in Channels |-> Blank]
  /\ fifo = [q \in Queues |-> <<>>]
  /\ dmac = Idle
  /\ received = [q \in Queues |-> <<>>]
  /\ handler = [taken |-> FALSE, seen |-> {}]
  /\ chcr_write = "none" /\ torn = FALSE
-----------------------------------------------------------------------------
(* CHCR: what every write to it does besides.                              *)

\* What is hardwired: the direction of SIF0 and SIF1, the chain bit of SIF1.
Hardwired(c, ch) ==
  CASE c = 9 -> [ch EXCEPT !.TD = TO]
    [] c = 10 -> [ch EXCEPT !.TD = FROM, !.SM = IF @ < 2 THEN @ + 2 ELSE @]
    [] OTHER -> ch

\* Mutant: the tag of the last transfer stays.
WriteChcrKeepsTag(c, old, new) ==
  IF ~old.START /\ new.START THEN [Hardwired(c, new) EXCEPT !.dma_started = FALSE]
  ELSE Hardwired(c, new)

\* IopDmacChannelRegister_Chcr::write_uword, from the old registers to the new,
\* in one step: under the lock of CHCR.
WriteChcr(c, old, new) ==
  IF ~old.START /\ new.START
  THEN [Hardwired(c, new) EXCEPT !.dma_started = FALSE, !.dma_tag = NoTag]
  ELSE Hardwired(c, new)

SetChannel(c, ch) == channels' = [channels EXCEPT ![c] = ch]
-----------------------------------------------------------------------------
(* The IOP core's program.  It sets a channel up and starts it, or resumes *)
(* it, while the channel is stopped; it may stop one at any time.  When it *)
(* awaits the end of a transfer it waits for its interrupt handler.        *)

CoreWrite(c) ==
  /\ program[c] # <<>> /\ Head(program[c]).op # "await"
  /\ program' = [program EXCEPT ![c] = Tail(@)]
  /\ LET w == Head(program[c])
         ch == channels[c]
         chcr == CASE w.op = "start" ->
                        [ch EXCEPT !.START = TRUE, !.SM = w.SM, !.TD = w.TD,
                                   !.MAS = w.MAS, !.CE = w.CE]
                   [] w.op = "resume" -> [ch EXCEPT !.START = TRUE]
                   [] w.op = "stop" -> [ch EXCEPT !.START = FALSE]
     IN  \/ /\ w.op = "regs" /\ ~ch.START
            /\ SetChannel(c, [ch EXCEPT !.BS = w.BS, !.BA = w.BA, !.madr = w.madr,
                                        !.tadr = w.tadr])
            /\ UNCHANGED chcr_write
         \/ /\ c # 10
            /\ w.op = "stop" \/ (w.op \in {"start", "resume"} /\ ~ch.START)
            /\ SetChannel(c, WriteChcr(c, ch, chcr)) /\ UNCHANGED chcr_write
         \/ /\ c = 10 /\ w.op \in {"start", "resume"} /\ ~ch.START
            /\ SetChannel(c, Hardwired(c, chcr)) /\ chcr_write' = "written"
  /\ UNCHANGED <<control, fifo, memory, dmac, setup, input, received, handler, toggles, torn>>

(* IopDmacChannelRegister_Chcr_Sif1::byte_bus_write_uword takes no lock:   *)
(* between the write of the fields (CoreWrite), the look at the new START  *)
(* bit and the two resets that it asks for, the DMAC may act on channel 10. *)
FinishWrite(c) ==
  /\ c = 10
  /\ \/ /\ chcr_write = "written"
        /\ chcr_write' = IF channels[c].START THEN "starting" ELSE "none"
        /\ UNCHANGED channels
     \/ /\ chcr_write = "starting" /\ chcr_write' = "flagged"
        /\ SetChannel(c, [channels[c] EXCEPT !.dma_started = FALSE])
     \/ /\ chcr_write = "flagged" /\ chcr_write' = "none"
        /\ SetChannel(c, [channels[c] EXCEPT !.dma_tag = NoTag])
  /\ UNCHANGED <<control, fifo, memory, dmac, setup, program, input, received, handler,
                 toggles, torn>>

Await(c) ==
  /\ program[c] # <<>> /\ Head(program[c]).op = "await" /\ c \in handler.seen
  /\ program' = [program EXCEPT ![c] = Tail(@)]
  /\ handler' = [handler EXCEPT !.seen = @ \ {c}]
  /\ UNCHANGED <<control, channels, fifo, memory, dmac, setup, input, received, toggles,
                 chcr_write, torn>>

\* The interrupt is acknowledged at the INTC first; then the handler reads ICR0
\* and ICR1, and clears the TCI bits it has read.
TakeInterrupt ==
  /\ intc /\ ~handler.taken
  /\ intc' = FALSE /\ handler' = [handler EXCEPT !.taken = TRUE]
  /\ UNCHANGED <<gctrl, pcr, icr, channels, fifo, memory, dmac, setup, program,
                 input, received, toggles, chcr_write, torn>>

HandleInterrupt ==
  /\ handler.taken
  /\ handler' = [taken |-> FALSE, seen |-> handler.seen \cup icr.TCI]
  /\ icr' = [icr EXCEPT !.TCI = {}]
  /\ UNCHANGED <<gctrl, pcr, intc, channels, fifo, memory, dmac, setup, program,
                 input, received, toggles, chcr_write, torn>>

Toggle == toggles > 0 /\ toggles' = toggles - 1

(* ICR0 and ICR1, byte_bus_write_uword: TCM and ENABLE are replaced, the   *)
(* bits of TCI cleared where 1 is written, MASTER stays.  The program      *)
(* writes back the IQE bits it finds.                                      *)
WriteIcr0(tcm, enable, clr) ==
  /\ Toggle
  /\ icr' = [icr EXCEPT !.TCM = (@ \ LowChannels) \cup (tcm \cap LowChannels),
                        !.ENABLE = enable, !.TCI = @ \ (clr \cap LowChannels)]
  /\ UNCHANGED <<gctrl, pcr, intc, channels, fifo, memory, dmac, setup,
                 program, input, received, handler, chcr_write, torn>>

WriteIcr1(tcm, clr) ==
  /\ Toggle
  /\ icr' = [icr EXCEPT !.TCM = (@ \cap LowChannels) \cup (tcm \ LowChannels),
                        !.TCI = @ \ (clr \ LowChannels)]
  /\ UNCHANGED <<gctrl, pcr, intc, channels, fifo, memory, dmac, setup,
                 program, input, received, handler, chcr_write, torn>>

WritePcr(enabled) ==
  /\ Toggle /\ pcr' = enabled
  /\ UNCHANGED <<gctrl, icr, intc, channels, fifo, memory, dmac, setup,
                 program, input, received, handler, chcr_write, torn>>

WriteGctrl ==
  /\ Toggle /\ gctrl' = ~gctrl
  /\ UNCHANGED <<pcr, icr, intc, channels, fifo, memory, dmac, setup,
                 program, input, received, handler, chcr_write, torn>>
-----------------------------------------------------------------------------
(* The other ends of the queues: a consumer or a producer of words.        *)

PeripheralRead(q) ==
  /\ q \in Drained /\ fifo[q] # <<>>
  /\ received' = [received EXCEPT ![q] = Append(@, Head(fifo[q]))]
  /\ fifo' = [fifo EXCEPT ![q] = Tail(@)]
  /\ UNCHANGED <<control, channels, memory, dmac, setup, program, input,
                 handler, toggles, chcr_write, torn>>

PeripheralWrite(q) ==
  /\ input[q] # <<>> /\ Len(fifo[q]) < FifoCap
  /\ fifo' = [fifo EXCEPT ![q] = Append(@, Head(input[q]))]
  /\ input' = [input EXCEPT ![q] = Tail(@)]
  /\ UNCHANGED <<control, channels, memory, dmac, setup, program, received,
                 handler, toggles, chcr_write, torn>>
-----------------------------------------------------------------------------
(* The DMAC's way through the channels: CIopDmac::time_step.               *)

First(S) == CHOOSE c \in S : \A d \in S : c <= d
After(c) == {d \in Channels : d > c}
Advance(c) == dmac' = IF After(c) = {} THEN Idle
                      ELSE [at |-> "scan", c |-> First(After(c))]

TimeStep ==
  /\ dmac.at = "idle"
  /\ dmac' = IF gctrl THEN [at |-> "scan", c |-> First(Channels)] ELSE dmac
  /\ UNCHANGED <<control, channels, fifo, memory, env>>

\* PCR and CHCR.START are read before CHCR is locked.
Check ==
  /\ dmac.at = "scan"
  /\ IF dmac.c \in pcr /\ channels[dmac.c].START THEN dmac' = [dmac EXCEPT !.at = "transfer"]
                                                ELSE Advance(dmac.c)
  /\ UNCHANGED <<control, channels, fifo, memory, env>>

Transferring(c) == dmac = [at |-> "transfer", c |-> c]
-----------------------------------------------------------------------------
(* transfer_normal_burst, _slice and _chain, one action for each outcome.  *)

(* IopDmacChannelRegister_Bcr::calculate: 0 stands for FieldSize, and the  *)
(* product is one of uwords.                                               *)
OrFull(n) == IF n > 0 THEN n ELSE FieldSize
Calculate(ch, use_blocks) ==
  IF use_blocks THEN (OrFull(ch.BA) * OrFull(ch.BS)) % (FieldSize * FieldSize)
  ELSE OrFull(ch.BS)

Begin(c) ==
  LET ch == channels[c]
  IN  /\ Transferring(c) /\ ~ch.dma_started /\ ch.SM # LINKEDLIST
      /\ SetChannel(c, [ch EXCEPT !.dma_started = TRUE,
                          !.transfer_length = IF ch.SM = CHAIN THEN 0
                                              ELSE Calculate(ch, ch.SM = SLICE)])
      /\ Advance(c)
      /\ UNCHANGED <<control, fifo, memory, env>>

Moving(c) == /\ Transferring(c) /\ channels[c].SM # LINKEDLIST
             /\ channels[c].dma_started /\ channels[c].transfer_length > 0

\* Mutant: any room is enough.
CanMoveOne(c, n) == IF channels[c].TD = FROM THEN Len(fifo[Queue(c)]) >= n
                    ELSE Len(fifo[Queue(c)]) < FifoCap

\* The FIFO has n words to read, or room to write them.
CanMove(c, n) == IF channels[c].TD = FROM THEN Len(fifo[Queue(c)]) >= n
                 ELSE Len(fifo[Queue(c)]) + n <= FifoCap

\* transfer_data: one word.
Move(c) ==
  LET ch == channels[c]
      q == Queue(c)
      at == ch.madr % MemSize
  IN  /\ Moving(c) /\ CanMove(c, 1)
      /\ \/ /\ ch.TD = FROM
            /\ memory' = [memory EXCEPT ![at] = Head(fifo[q])]
            /\ fifo' = [fifo EXCEPT ![q] = Tail(@)]
         \/ /\ ch.TD = TO
            /\ fifo' = [fifo EXCEPT ![q] = Append(@, memory[at])]
            /\ UNCHANGED memory
      /\ SetChannel(c, [ch EXCEPT !.madr = IF ch.MAS THEN @ - 1 ELSE @ + 1,
                                  !.transfer_length = @ - 1])
      /\ Advance(c)
      /\ UNCHANGED <<control, env>>

\* Nothing can be moved in this cycle.
Blocked(c) ==
  /\ Moving(c) /\ ~CanMove(c, 1)
  /\ Advance(c)
  /\ UNCHANGED <<control, channels, fifo, memory, env>>

\* Mutant: a receiver does not wait for its last packet.
FinishedEarly(c) ==
  LET ch == channels[c]
  IN  /\ Transferring(c) /\ ch.SM # LINKEDLIST /\ ch.dma_started
      /\ ch.transfer_length = 0 \/ ch.TD = FROM
      /\ ch.SM = CHAIN => (c \in icr.IQE /\ ch.dma_tag.irq) \/ ch.dma_tag.ert

\* The transfer is over; a chain is with the tag that says so.
Finished(c) ==
  LET ch == channels[c]
  IN  /\ Transferring(c) /\ ch.SM # LINKEDLIST
      /\ ch.dma_started /\ ch.transfer_length = 0
      /\ ch.SM = CHAIN => (c \in icr.IQE /\ ch.dma_tag.irq) \/ ch.dma_tag.ert

\* Mutant: nobody asks the peripheral.
InFlightIgnored(c) == FALSE
InFlight(c) == channels[c].TD = TO /\ fifo[Queue(c)] # <<>>

AwaitPeripheral(c) ==
  /\ Finished(c) /\ InFlight(c)
  /\ Advance(c)
  /\ UNCHANGED <<control, channels, fifo, memory, env>>

(* is_interrupt_pending_and_set_master of ICR0 and ICR1 (the ERROR bit is  *)
(* never set).                                                             *)
Pending(tci) == icr.ENABLE /\ icr.TCM \cap tci # {}

\* Mutant: the interrupt is checked for before the bit is set.
SuspendChecksFirst(c) ==
  LET ch == WriteChcr(c, channels[c], [channels[c] EXCEPT !.START = FALSE])
  IN  /\ Finished(c) /\ ~InFlight(c)
      /\ SetChannel(c, ch)
      /\ icr' = [icr EXCEPT !.TCI = @ \cup {c}, !.MASTER = @ \/ Pending(icr.TCI)]
      /\ intc' = (intc \/ Pending(icr.TCI))
      /\ Advance(c)
      /\ UNCHANGED <<gctrl, pcr, fifo, memory, env>>

\* set_state_suspended and handle_interrupt_check, under the locks of ICR0 and ICR1.
Suspend(c) ==
  LET ch == WriteChcr(c, channels[c], [channels[c] EXCEPT !.START = FALSE])
      tci == icr.TCI \cup {c}
  IN  /\ Finished(c) /\ ~InFlight(c)
      /\ SetChannel(c, ch)
      /\ icr' = [icr EXCEPT !.TCI = tci, !.MASTER = @ \/ Pending(tci)]
      /\ intc' = (intc \/ Pending(tci))
      /\ Advance(c)
      /\ UNCHANGED <<gctrl, pcr, fifo, memory, env>>
-----------------------------------------------------------------------------
(* The tags of a chain.                                                    *)

Tag(w0, w1) == [addr |-> w0.addr, irq |-> w0.irq, ert |-> w0.ert, length |-> w1.length]

\* Mutant: the length as it is in the tag.
SourceLengthRaw(tag) == tag.length % TagLimit

\* (length + 3) & 0xFFFFC
SourceLength(tag) == (4 * ((tag.length + 3) \div 4)) % TagLimit

WantsTag(c) == /\ Transferring(c) /\ channels[c].SM = CHAIN
               /\ channels[c].dma_started /\ channels[c].transfer_length = 0
               /\ ~Finished(c)

\* The tag's upper half goes first: it is the tag of the EE.
ReadSourceTag(c) ==
  LET ch == channels[c]
      w == [i \in 0..3 |-> memory[(ch.tadr + i) % MemSize]]
      tag == Tag(w[0], w[1])
  IN  /\ WantsTag(c) /\ ch.TD = TO /\ c \in WithTadr /\ ch.CE /\ CanMove(c, 4)
      /\ fifo' = [fifo EXCEPT ![Queue(c)] = @ \o <<w[2], w[3], Zero, Zero>>]
      /\ SetChannel(c, [ch EXCEPT !.dma_tag = tag, !.transfer_length = SourceLength(tag),
                                  !.tadr = @ + 4, !.madr = tag.addr])
      /\ Advance(c)
      /\ UNCHANGED <<control, memory, env>>

ReadDestTag(c) ==
  LET ch == channels[c]
      q == Queue(c)
      tag == Tag(fifo[q][1], fifo[q][2])
  IN  /\ WantsTag(c) /\ ch.TD = FROM /\ ch.CE /\ CanMove(c, 4)
      /\ fifo' = [fifo EXCEPT ![q] = SubSeq(@, 5, Len(@))]
      /\ SetChannel(c, [ch EXCEPT !.dma_tag = tag, !.transfer_length = tag.length,
                                  !.madr = tag.addr])
      /\ Advance(c)
      /\ UNCHANGED <<control, memory, env>>

\* A tag that cannot be read, or whose qword cannot be sent, in this cycle.
TagBlocked(c) ==
  /\ WantsTag(c) /\ ~CanMove(c, 4)
  /\ channels[c].TD = TO => c \in WithTadr /\ channels[c].CE
  /\ Advance(c)
  /\ UNCHANGED <<control, channels, fifo, memory, env>>

(* What ends in an exception, or in a null pointer: linked lists, chains   *)
(* without CE, and a source chain without TADR.                            *)
Unsupported(c) ==
  \/ Transferring(c) /\ channels[c].SM = LINKEDLIST
  \/ WantsTag(c) /\ channels[c].TD = TO /\ ~(c \in WithTadr /\ channels[c].CE)
  \/ WantsTag(c) /\ channels[c].TD = FROM /\ CanMove(c, 4) /\ ~channels[c].CE

Fault(c) ==
  /\ Unsupported(c)
  /\ dmac' = [at |-> "fault", c |-> c]
  /\ UNCHANGED <<control, channels, fifo, memory, env>>
\* The exception has stopped the core.
Faulted == dmac.at = "fault" /\ UNCHANGED vars
-----------------------------------------------------------------------------
Transfer(c) == \/ Begin(c) \/ Move(c) \/ Blocked(c) \/ AwaitPeripheral(c) \/ Suspend(c)
               \/ ReadSourceTag(c) \/ ReadDestTag(c) \/ TagBlocked(c) \/ Fault(c)

\* A tag is read, a word moved or the channel suspended by flags that the write
\* of CHCR is still to reset.
Tears(c) == /\ c = 10 /\ chcr_write # "none" /\ channels[c].dma_started
            /\ channels' # channels

DmacNext == \/ (TimeStep \/ Check) /\ UNCHANGED torn
            \/ \E c \in Channels : Transfer(c) /\ torn' = (torn \/ Tears(c))
\* The core, its handler included, does one thing at a time.
Writing == chcr_write # "none"
ProgramNext(c) == \/ ~Writing /\ (CoreWrite(c) \/ Await(c))
                  \/ FinishWrite(c)
HandlerNext == ~Writing /\ (TakeInterrupt \/ HandleInterrupt)
\* Bound: in the control registers the program writes the bits of the channels
\* it uses only.
Used == {c \in Channels : program[c] # <<>> \/ channels[c] # Blank}
ToggleNext == \/ \E tcm, clr \in SUBSET Used :
                   \/ \E enable \in BOOLEAN : WriteIcr0(tcm, enable, clr)
                   \/ WriteIcr1(tcm, clr)
              \/ WriteGctrl
              \/ \E enabled \in SUBSET Used : WritePcr(enabled)
CoreNext == (\E c \in Channels : ProgramNext(c)) \/ HandlerNext \/ (~Writing /\ ToggleNext)
PeripheralNext(q) == PeripheralRead(q) \/ PeripheralWrite(q)

Next == DmacNext \/ Faulted \/ CoreNext \/ \E q \in Queues : PeripheralNext(q)

Spec == Init /\ [][Next]_vars

(* Every run of the core gives the DMAC time, the other ends are given     *)
(* time as well, and the IOP core carries on with its program.             *)
FairSpec == /\ Spec /\ WF_vars(DmacNext)
            /\ \A q \in Queues : WF_vars(PeripheralNext(q))
            /\ WF_vars(HandlerNext) /\ \A c \in Channels : WF_vars(ProgramNext(c))
-----------------------------------------------------------------------------
(* Every variable has the type of the C++ object: no queue overflows and   *)
(* no transfer length goes below zero, in whatever order the program, the  *)
(* DMAC and the peripherals act.                                           *)
Registers ==
  [START : BOOLEAN, SM : 0..3, TD : {FROM, TO}, MAS : BOOLEAN, CE : BOOLEAN,
   dma_started : BOOLEAN, dma_tag : [addr : Nat, irq : BOOLEAN, ert : BOOLEAN, length : Nat],
   BS : Fields, BA : Fields, transfer_length : Nat, madr : Int, tadr : Nat]
TypeOK ==
  /\ gctrl \in BOOLEAN /\ pcr \subseteq Channels /\ intc \in BOOLEAN
  /\ icr \in [TCM : SUBSET Channels, TCI : SUBSET Channels, IQE : SUBSET Channels,
              ENABLE : BOOLEAN, MASTER : BOOLEAN]
  /\ dmac \in {Idle} \cup [at : {"scan", "transfer", "fault"}, c : Channels]
  /\ channels \in [Channels -> Registers] /\ memory \in [0..MemSize - 1 -> Uword]
  /\ fifo \in [Queues -> Seq(Uword)] /\ \A q \in Queues : Len(fifo[q]) <= FifoCap
  /\ program \in [Channels -> Seq(Writes)] /\ input \in [Queues -> Seq(Uword)]
  /\ received \in [Queues -> Seq(Uword)] /\ toggles \in Nat
  /\ handler \in [taken : BOOLEAN, seen : SUBSET Channels] /\ setup \in Scenarios
  /\ chcr_write \in {"none", "written", "starting", "flagged"} /\ torn \in BOOLEAN
-----------------------------------------------------------------------------
(* Chains.  s.chains[c] is the number of tags that the program has built   *)
(* for channel c, one behind the other from the address that it writes to  *)
(* TADR, or 0.  What they stand for is what CIopDmac.cpp:378 and :404 say: *)
(* the upper half of the tag, and its data "rounded up to the nearest      *)
(* qword".                                                                 *)
WordOf(s, a) == s.memory[a % MemSize]
AddrOf(s, c, k) == s.program[c][1].tadr + 4 * (k - 1)
TagOf(s, c, k) == Tag(WordOf(s, AddrOf(s, c, k)), WordOf(s, AddrOf(s, c, k) + 1))
Rounded(n) == 4 * ((n + 3) \div 4)
Packet(s, c, k) ==
  LET a == AddrOf(s, c, k)
      tag == TagOf(s, c, k)
  IN  <<WordOf(s, a + 2), WordOf(s, a + 3), Zero, Zero>>
      \o [i \in 1..Rounded(tag.length) |-> WordOf(s, tag.addr + (i - 1))]
Packets(s, c) == Joined([k \in 1..s.chains[c] |-> Packet(s, c, k)])

(* The program sets TADR, starts the channel, and resumes it not more      *)
(* often than a tag has suspended it.                                      *)
Pauses(s, c) == {k \in 1..s.chains[c] - 1 : c \in s.IQE /\ TagOf(s, c, k).irq}
IsChain(s, c) ==
  LET writes == s.program[c]
  IN  /\ \A k \in 1..s.chains[c] : /\ TagOf(s, c, k).ert <=> k = s.chains[c]
                                  /\ Rounded(TagOf(s, c, k).length) < TagLimit
      /\ c \in WithTadr /\ s.input[Queue(c)] = <<>>
      /\ Len(writes) >= 2 /\ Len(writes) - 2 <= Cardinality(Pauses(s, c))
      /\ writes[1].op = "regs" /\ writes[2].op = "start"
      /\ writes[2].SM = CHAIN /\ writes[2].TD = TO /\ writes[2].CE /\ ~writes[2].MAS
      /\ \A i \in 3..Len(writes) : writes[i].op = "resume"

(* When a channel sends a chain, no channel does anything else.            *)
Chained(s) == \E c \in Channels : s.chains[c] > 0
ChainsBuilt ==
  \A s \in Scenarios : Chained(s) =>
    \A c \in Channels : IF s.chains[c] = 0 THEN s.program[c] = <<>> ELSE IsChain(s, c)
ASSUME ChainsAssumption == ChainsBuilt

(* Where a chain's channel is, after k tags: what the program still has to *)
(* write, and what the registers say of the rest of the chain.             *)
Sent(c) == received[Queue(c)] \o fifo[Queue(c)]
Unused(c) == channels[c] = Blank /\ program[c] = <<>> /\ ~Transferring(c)
Written(c) == Len(setup.program[c]) - Len(program[c])
ToCome(c, k) == {j \in Pauses(setup, c) : j > k \/ (j = k /\ channels[c].dma_tag.irq)}
Programmed(c, k) ==
  /\ input[Queue(c)] = <<>>
  /\ Written(c) \in 0..Len(setup.program[c])
  /\ program[c] = SubSeq(setup.program[c], Written(c) + 1, Len(setup.program[c]))
  /\ Transferring(c) => channels[c].START
  /\ Written(c) <= 1 => k = 0 /\ ~channels[c].START /\ channels[c].dma_tag = NoTag
  /\ Written(c) > 1 => /\ channels[c].SM = CHAIN /\ channels[c].TD = TO
                       /\ channels[c].CE /\ ~channels[c].MAS
                       /\ Len(program[c]) <= Cardinality(ToCome(c, k))

Follows(c, k) ==
  LET ch == channels[c]
      all == Packets(setup, c)[k]
      size == Rounded(TagOf(setup, c, k).length)
  IN  /\ Len(Sent(c)) + ch.transfer_length = Len(all) /\ Begins(Sent(c), all)
      /\ ch.dma_tag # NoTag \/ k = setup.chains[c] => k > 0 /\ ch.dma_tag = TagOf(setup, c, k)
      /\ k < setup.chains[c] /\ Written(c) > 0 => ch.tadr = AddrOf(setup, c, k + 1)
      /\ ch.transfer_length > 0 => /\ ch.START /\ ch.dma_started
                                   /\ k > 0 /\ ch.transfer_length <= size
                                   /\ ch.madr = TagOf(setup, c, k).addr + (size - ch.transfer_length)

ChainsKnown == Chained(setup) =>
  /\ memory = setup.memory /\ icr.IQE = setup.IQE
  /\ \A c \in Channels :
       IF setup.chains[c] = 0 THEN Unused(c)
       ELSE \E k \in 0..setup.chains[c] : Programmed(c, k) /\ Follows(c, k)

(* CIopDmac::transfer_chain sends the packets of the chain, whole qwords,  *)
(* in order and none twice, also when PCR, GCTRL, ICR0 and ICR1 are        *)
(* written meanwhile, and across the suspension by the tag's IRQ bit.      *)
SendsChain ==
  /\ ChainsKnown
  /\ \A c \in Channels : setup.chains[c] > 0 =>
       Begins(Sent(c), Packets(setup, c)[setup.chains[c]])

(* "check that the peripheral received the data before interrupting IOP    *)
(* INTC" (CIopDmac.cpp:125, 225): when the bit of TCI rises, all the       *)
(* packets up to a tag that suspends the chain, or all, are there.         *)
InterruptAfterData ==
  [][\A c \in Channels : setup.chains[c] > 0 /\ c \in icr'.TCI \ icr.TCI =>
       \E k \in Pauses(setup, c) \cup {setup.chains[c]} :
         received[Queue(c)] = Packets(setup, c)[k]]_vars
=============================================================================
