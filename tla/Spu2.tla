-------------------------------- MODULE Spu2 --------------------------------
(***************************************************************************)
(* One core of the SPU2 (liborbum/src/Controller/Spu2, Resources/Spu2).    *)
(* A program on the IOP sets up ATTR, ADMAS and the addresses, starts its  *)
(* DMA channel, waits for the channel's interrupt and then until STATX     *)
(* asks for data again.  The SPU2 takes a halfword of the queue in each    *)
(* time step and writes it to its memory, at TSA or, with automatic DMA,   *)
(* by turns to a block of the left and of the right channel; the DMA       *)
(* channel sends a word byte by byte, so that its first half may be there  *)
(* alone (CIopDmac.cpp:322, FifoQueue.hpp:33-37).  Writing to              *)
(* the address in IRQA sets a bit of SPDIF_IRQINFO, which raises the       *)
(* interrupt.  ATTR's write takes a lock that the SPU2 does not; ADMAS has *)
(* none.  There is no sound generation in the code.                        *)
(***************************************************************************)
EXTENDS Integers, Sequences, FiniteSets, Functions

CONSTANTS
  CoreId,        \* 0 or 1
  Block,         \* halfwords in a block of a channel (0x100)
  MemoryBlocks,  \* the size of the memory, in blocks (0x1000)
  Attrs,         \* what the program writes to ATTR
  Starts,        \* ... to TSA
  Watched,       \* ... to IRQA
  Words,         \* ... and to BCR: the words of a transfer
  QueueCap,      \* bound: the words that the queue holds
  MaxSounds      \* bound: transfers

MemorySize == MemoryBlocks * Block
Attr == [DMABITS : BOOLEAN, DMAMODE : 0..3, IRQENABLE : BOOLEAN]
AutoWrite == 0
AutoRead == 1
ManualWrite == 2

Spu2Assumption ==
  /\ CoreId \in {0, 1} /\ Block \in Nat \ {0} /\ MemoryBlocks \in Nat \ {0}
  /\ Attrs \subseteq Attr /\ Starts \subseteq 0..MemorySize - 1 /\ Watched \subseteq Nat
  /\ Words \subseteq Nat \ {0} /\ QueueCap \in Nat \ {0} /\ MaxSounds \in Nat

VARIABLES
  attr, dma_offset,  \* ATTR and the transfer's position that it carries
  admas,             \* ADMAS: the core's bit, and the bits that say "running" when they are clear
  dreq,              \* STATX.DREQ
  tsa, irqa,
  irqinfo,           \* the core's bit of SPDIF_IRQINFO
  memory,            \* the halfwords that have been written, by address
  fifo,              \* the DMA channel's queue
  dma,               \* the halfwords left to send, those sent, its interrupt
  stat,              \* the SPU's bit of the INTC's STAT
  spu,               \* the SPU2's place in time_step, and what it has read
  prog,              \* the program's place
  sounds,            \* transfers so far
  raised,            \* history: the SPU2 has raised its interrupt in this transfer
  between,           \* history: it has looked between the halves of the last word
  early              \* history: a transfer was set up with a halfword in its hands

registers == <<attr, dma_offset, admas, dreq, tsa, irqa, irqinfo>>
channel == <<fifo, dma>>
history == <<raised, between, early>>
vars == <<registers, memory, channel, stat, spu, prog, sounds, history>>

Off == [enabled |-> FALSE, running |-> TRUE]     \* ADMAS = 0
Nothing == [at |-> "look", data |-> <<0, 0>>, admas |-> Off, offset |-> 0]

Init ==
  /\ attr = [DMABITS |-> FALSE, DMAMODE |-> AutoWrite, IRQENABLE |-> FALSE] /\ dma_offset = 0
  /\ admas = Off /\ dreq = FALSE /\ tsa = 0 /\ irqa = 0 /\ irqinfo = FALSE
  /\ memory = <<>> /\ fifo = <<>> /\ dma = [left |-> 0, sent |-> 0, done |-> FALSE]
  /\ stat = FALSE /\ spu = Nothing
  /\ prog = [at |-> "choose", attr |-> attr, words |-> 0] /\ sounds = 0
  /\ raised = FALSE /\ between = FALSE /\ early = FALSE
-----------------------------------------------------------------------------
(* The program and the DMA channel.                                        *)
Prog(place) == prog.at = place
ProgGoto(place) == prog' = [prog EXCEPT !.at = place]
Automatic(a) == a.DMAMODE \in {AutoWrite, AutoRead}

\* The SPU2 has a halfword in its hands.
HasData == spu.data # <<0, 0>>
Carrying == \/ spu.at \in {"read_admas", "write_admas", "dreq"} /\ HasData
            \/ spu.at \in {"store", "read_offset", "write_offset"}

\* The addresses, with the interrupt of the transfer before acknowledged.
Choose ==
  /\ Prog("choose") /\ sounds < MaxSounds /\ sounds' = sounds + 1
  /\ \E a \in Attrs, start \in Starts, watched \in Watched, words \in Words :
       /\ prog' = [at |-> "attr", attr |-> a, words |-> words]
       /\ tsa' = start /\ irqa' = watched
  /\ irqinfo' = FALSE /\ stat' = FALSE /\ raised' = FALSE
  /\ between' = FALSE /\ early' = (early \/ Carrying)
  /\ UNCHANGED <<attr, dma_offset, admas, dreq, memory, channel, spu>>

\* Mutant: ATTR's write lets the position go on.
ResetOffsetNever ==
  /\ Prog("attr") /\ ProgGoto("value") /\ dma_offset' = dma_offset
  /\ UNCHANGED <<attr, admas, dreq, tsa, irqa, irqinfo, memory, channel, stat, spu, sounds, history>>

\* byte_bus_write_uhword of ATTR, under a lock that nobody else takes: the position ...
ResetOffset ==
  /\ Prog("attr") /\ ProgGoto("value") /\ dma_offset' = 0
  /\ UNCHANGED <<attr, admas, dreq, tsa, irqa, irqinfo, memory, channel, stat, spu, sounds, history>>

\* ... and the value.
WriteAttr ==
  /\ Prog("value") /\ attr' = prog.attr
  /\ ProgGoto(IF Automatic(prog.attr) THEN "admas" ELSE "start")
  /\ UNCHANGED <<dma_offset, admas, dreq, tsa, irqa, irqinfo, memory, channel, stat, spu, sounds, history>>

EnableAdma ==
  /\ Prog("admas") /\ admas' = [enabled |-> TRUE, running |-> TRUE] /\ ProgGoto("start")
  /\ UNCHANGED <<attr, dma_offset, dreq, tsa, irqa, irqinfo, memory, channel, stat, spu, sounds, history>>

StartChannel ==
  /\ Prog("start") /\ ProgGoto("interrupt")
  /\ dma' = [left |-> 2 * prog.words, sent |-> 0, done |-> FALSE]
  /\ UNCHANGED <<registers, memory, fifo, stat, spu, sounds, history>>

\* transfer_data of the channel: with room for a word, its bytes one after the
\* other, of which the SPU2 sees each second one: the word's halfwords.
Send ==
  /\ dma.left > 0 /\ (dma.sent % 2 = 0 => Len(fifo) + 2 <= 2 * QueueCap)
  /\ fifo' = Append(fifo, <<sounds, dma.sent>>)
  /\ dma' = [dma EXCEPT !.left = @ - 1, !.sent = @ + 1]
  /\ UNCHANGED <<registers, memory, stat, spu, prog, sounds, history>>

\* The channel ends when the SPU2 has taken the last halfword.
EndChannel ==
  /\ Prog("interrupt") /\ dma.left = 0 /\ dma.sent > 0 /\ fifo = <<>>
  /\ dma' = [dma EXCEPT !.sent = 0, !.done = TRUE] /\ ProgGoto("dreq")
  /\ UNCHANGED <<registers, memory, fifo, stat, spu, sounds, history>>

PollDreq ==
  /\ Prog("dreq") /\ dreq /\ ProgGoto("done")
  /\ UNCHANGED <<registers, memory, channel, stat, spu, sounds, history>>

\* The program may switch the automatic DMA off.
Finish ==
  /\ Prog("done") /\ ProgGoto("choose")
  /\ admas' \in {admas, Off}
  /\ UNCHANGED <<attr, dma_offset, dreq, tsa, irqa, irqinfo, memory, channel, stat, spu, sounds, history>>

Program == \/ Choose \/ ResetOffset \/ WriteAttr \/ EnableAdma \/ StartChannel
           \/ PollDreq \/ Finish
-----------------------------------------------------------------------------
(* The SPU2's time step.                                                   *)
At(place) == spu.at = place
Goto(place) == spu' = [spu EXCEPT !.at = place]

\* handle_dma_transfer: the mode, and whether there is data.
Active == attr.DMAMODE = ManualWrite \/ (attr.DMAMODE = AutoWrite /\ admas.enabled)
Look ==
  /\ At("look")
  /\ IF attr.DMABITS \/ attr.DMAMODE = 3 \/ (attr.DMAMODE = AutoRead /\ admas.enabled)
     THEN Goto("failed") /\ UNCHANGED fifo
     ELSE IF ~Active THEN Goto("check") /\ UNCHANGED fifo
     ELSE LET next == IF Automatic(attr) THEN "read_admas" ELSE "dreq"
          IN  IF fifo = <<>> THEN spu' = [Nothing EXCEPT !.at = next] /\ UNCHANGED fifo
              ELSE spu' = [Nothing EXCEPT !.at = next, !.data = Head(fifo)] /\ fifo' = Tail(fifo)
  /\ between' = (between \/ (Active /\ fifo = <<>> /\ dma.left = 1))
  /\ UNCHANGED <<registers, memory, dma, stat, prog, sounds, raised, early>>

\* set_adma_running, which reads ADMAS and writes it.
ReadAdmas ==
  /\ At("read_admas") /\ spu' = [spu EXCEPT !.at = "write_admas", !.admas = admas]
  /\ UNCHANGED <<registers, memory, channel, stat, prog, sounds, history>>
WriteAdmas ==
  /\ At("write_admas") /\ admas' = [spu.admas EXCEPT !.running = HasData] /\ Goto("dreq")
  /\ UNCHANGED <<attr, dma_offset, dreq, tsa, irqa, irqinfo, memory, channel, stat, prog, sounds, history>>

SetDreq ==
  /\ At("dreq") /\ dreq' = ~HasData /\ Goto(IF HasData THEN "store" ELSE "check")
  /\ UNCHANGED <<attr, dma_offset, admas, tsa, irqa, irqinfo, memory, channel, stat, prog, sounds, history>>

\* The blocks are for the left and for the right channel by turns.
BaseLeft == (32 + 4 * CoreId) * Block
BaseRight == (34 + 4 * CoreId) * Block
AutoAddress(offset) ==
  LET block == offset \div Block
      left == block % 2 = 0
      channel_offset == IF left THEN offset - (block \div 2) * Block
                        ELSE offset - (block \div 2 + 1) * Block
  IN  (IF left THEN BaseLeft ELSE BaseRight) + (channel_offset % (4 * Block))
Address(offset) == IF Automatic(attr) THEN AutoAddress(offset) ELSE (tsa + offset) % MemorySize

\* write_hword_memory: the comparison with IRQA, and the memory.
Store ==
  LET address == Address(dma_offset)
  IN  /\ At("store") /\ Goto("read_offset")
      /\ irqinfo' = (irqinfo \/ irqa = address)
      /\ memory' = [a \in DOMAIN memory \cup {address} |-> IF a = address THEN spu.data ELSE memory[a]]
      /\ UNCHANGED <<attr, dma_offset, admas, dreq, tsa, irqa, channel, stat, prog, sounds, history>>

\* dma_offset += 1, in two steps: ATTR's write does not keep out of the way.
ReadOffset ==
  /\ At("read_offset") /\ spu' = [spu EXCEPT !.at = "write_offset", !.offset = dma_offset]
  /\ UNCHANGED <<registers, memory, channel, stat, prog, sounds, history>>
WriteOffset ==
  /\ At("write_offset") /\ dma_offset' = spu.offset + 1 /\ Goto("check")
  /\ UNCHANGED <<attr, admas, dreq, tsa, irqa, irqinfo, memory, channel, stat, prog, sounds, history>>

\* handle_interrupt_check.
CheckIrq ==
  /\ At("check") /\ Goto(IF attr.IRQENABLE /\ irqinfo THEN "raise" ELSE "look")
  /\ UNCHANGED <<registers, memory, channel, stat, prog, sounds, history>>
RaiseIrq ==
  /\ At("raise") /\ stat' = TRUE /\ raised' = TRUE /\ spu' = Nothing
  /\ UNCHANGED <<registers, memory, channel, prog, sounds, between, early>>

SpuStep == \/ Look \/ ReadAdmas \/ WriteAdmas \/ SetDreq \/ Store
           \/ ReadOffset \/ WriteOffset \/ CheckIrq \/ RaiseIrq

\* The handler: the INTC's bit, then SPDIF_IRQINFO's.
Acknowledge ==
  /\ stat /\ stat' = FALSE /\ irqinfo' = FALSE
  /\ UNCHANGED <<attr, dma_offset, admas, dreq, tsa, irqa, memory, channel, spu, prog, sounds, history>>

Channel == Send \/ EndChannel
Next == Program \/ Channel \/ SpuStep \/ Acknowledge

(* The SPU2 and the DMA controller get a Time event in each block, and the *)
(* IOP core runs its program.                                              *)
Spec == Init /\ [][Next]_vars /\ WF_vars(SpuStep) /\ WF_vars(Channel) /\ WF_vars(Program)
-----------------------------------------------------------------------------
Halfwords == (1..MaxSounds) \X Nat
Admas == [enabled : BOOLEAN, running : BOOLEAN]
SpuStates ==
  [at : {"look", "read_admas", "write_admas", "dreq", "store", "read_offset", "write_offset",
         "check", "raise", "failed"},
   data : Halfwords \cup {<<0, 0>>}, admas : Admas, offset : Nat]
ProgramStates ==
  [at : {"choose", "attr", "value", "admas", "start", "interrupt", "dreq", "done"},
   attr : Attr, words : Words \cup {0}]
TypeOK ==
  /\ attr \in Attr /\ dma_offset \in Nat /\ admas \in Admas
  /\ dreq \in BOOLEAN /\ irqinfo \in BOOLEAN /\ stat \in BOOLEAN
  /\ raised \in BOOLEAN /\ between \in BOOLEAN /\ early \in BOOLEAN
  /\ tsa \in Starts \cup {0} /\ irqa \in Watched \cup {0}
  /\ DOMAIN memory \subseteq Nat /\ \A a \in DOMAIN memory : memory[a] \in Halfwords
  /\ fifo \in Seq(Halfwords) /\ Len(fifo) <= 2 * QueueCap
  /\ dma \in [left : Nat, sent : Nat, done : BOOLEAN]
  /\ spu \in SpuStates /\ prog \in ProgramStates /\ sounds \in 0..MaxSounds

\* Where halfword i of a transfer belongs: by turns in the two buffers of each channel.
Place(i) ==
  IF Automatic(attr)
  THEN (IF (i \div Block) % 2 = 0 THEN BaseLeft ELSE BaseRight)
         + (((i \div (2 * Block)) % 2) * Block) + (i % Block)
  ELSE (tsa + i) % MemorySize
Fits == 2 * prog.words <= IF Automatic(attr) THEN 4 * Block ELSE MemorySize

(* When the channel's interrupt has come and STATX asks for data again,    *)
(* every halfword of the transfer is in its place, whatever the transfers  *)
(* before it have left behind (CSpu2.cpp:64-214).  One may be missing: the *)
(* last, if the SPU2 has looked for it between the two halves of its word, *)
(* and it has it in its hands.  A program that goes on then writes ATTR at *)
(* the same time as the SPU2, and nothing is said of what follows.  A      *)
(* transfer of more than the memory overwrites itself, and an automatic    *)
(* one of more than the two buffers of each channel those of the other     *)
(* channel (CSpu2.cpp:155).                                                *)
SoundInPlace ==
  ~early /\ Prog("done") /\ Fits =>
    \A i \in 0..2 * prog.words - 1 :
      \/ Place(i) \in DOMAIN memory /\ memory[Place(i)] = <<sounds, i>>
      \/ i = 2 * prog.words - 1 /\ between /\ Carrying /\ spu.data = <<sounds, i>>

(* By then the interrupt of the watched address has been raised too        *)
(* (CSpu2.cpp:235-260), with the same exception.                           *)
WatchedRaised ==
  ~early /\ Prog("done") /\ Fits /\ attr.IRQENABLE /\ ~raised =>
    \A i \in 0..2 * prog.words - 1 : irqa = Place(i) => i = 2 * prog.words - 1 /\ between

(* What these rest on: how much of the transfer is in the queue, in the    *)
(* SPU2's hands and in memory; that, unless it has looked between the last *)
(* word's halves, STATX does not ask for data with one halfword to go; and *)
(* that an interrupt which is due is that of the halfword stored last, and *)
(* is raised before STATX asks for data.                                   *)
Transferring == prog.at \in {"interrupt", "dreq", "done"}
Storing == spu.at \in {"store", "read_offset", "write_offset"}
Held == IF Carrying THEN 1 ELSE 0
Taken == IF Prog("interrupt") THEN dma.sent - Len(fifo) ELSE IF Transferring THEN 2 * prog.words ELSE 0
Stored == dma_offset + IF spu.at \in {"read_offset", "write_offset"} THEN 1 ELSE 0
ChannelKnown ==
  /\ ~Prog("choose") => sounds # 0
  /\ ~Prog("interrupt") => dma.left = 0 /\ fifo = <<>>
  /\ Prog("interrupt") => dma.left + dma.sent = 2 * prog.words /\ Len(fifo) <= dma.sent
  /\ Prog("interrupt") /\ dma.sent % 2 # 0 => Len(fifo) < 2 * QueueCap
  /\ \A i \in 1..Len(fifo) : fifo[i] = <<sounds, Taken + i - 1>>
  /\ Storing => HasData
OffsetKnown ==
  /\ Carrying => /\ spu.data = <<sounds, dma_offset>>
                 /\ Transferring \/ Prog("choose")
                 /\ Prog("done") \/ Prog("choose") => between
  /\ prog.at \notin {"choose", "attr"} => Taken = dma_offset + Held
  /\ At("write_offset") => spu.offset = dma_offset
LookedInVain == spu.at \in {"read_admas", "write_admas", "dreq"} /\ ~HasData
DreqTrue ==
  /\ (dreq \/ LookedInVain) /\ prog.at \notin {"choose", "attr"} =>
       between \/ dma_offset # 2 * prog.words - 1
  /\ Storing => ~dreq
  /\ Prog("done") => dreq \/ between
InPlace ==
  Transferring /\ Fits =>
    \A i \in 0..Stored - 1 : Place(i) \in DOMAIN memory /\ memory[Place(i)] = <<sounds, i>>
Touched == irqa \in {Place(i) : i \in 0..Stored - 1}
WatchKnown ==
  /\ stat => raised
  /\ irqinfo => Transferring \/ Prog("choose")
  /\ Transferring /\ Fits /\ Touched => irqinfo \/ raised
  /\ Transferring /\ attr.IRQENABLE /\ irqinfo /\ ~raised =>
       /\ spu.at \in {"read_offset", "write_offset", "check", "raise"} /\ ~dreq
       /\ Fits => irqa = Place(Stored - 1)
Orderly == OffsetKnown /\ DreqTrue /\ InPlace /\ WatchKnown
SoundInv == TypeOK /\ ChannelKnown /\ (~early => Orderly)

(* Every transfer comes to its end, unless the SPU2 throws or its update   *)
(* of ADMAS has undone the program's write to it                           *)
(* (Spu2CoreRegisters.cpp:26-32).                                          *)
Undone == Automatic(attr) /\ ~admas.enabled
SoundWaits == Prog("interrupt")
SoundEnded == Prog("choose") \/ At("failed") \/ Undone
=============================================================================
