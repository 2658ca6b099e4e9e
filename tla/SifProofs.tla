------------------------------ MODULE SifProofs ------------------------------
(***************************************************************************)
(* Proofs about the two DMA controllers, each on its own and both at the   *)
(* ends of the SIF, whatever the programs write to the registers, whatever *)
(* is in the memories and whatever the peripherals send: every register,   *)
(* queue and memory keeps its type.  And about the chains that channels of *)
(* either send: that their packets arrive, whole and in order, and before  *)
(* the interrupt; and about stall control of the EE's, that no drain       *)
(* overtakes its source.                                                   *)
(***************************************************************************)
EXTENDS Sif, SequenceTheorems, FiniteSetTheorems, WellFoundedInduction, TLAPS

-----------------------------------------------------------------------------
(* The EE's side: the way through the channels.                            *)
DmacPlaces == {Idle} \cup [at : {"scan", "transfer", "irq", "fault"}, c : Channels]

LEMMA FirstOf ==
  ASSUME NEW S, S \subseteq Nat, S # {}
  PROVE  First(S) \in S
<1>1. PICK x \in S : \A y \in S : ~(<<y, x>> \in OpToRel(<, Nat))
  BY NatLessThanWellFounded, WFMin
<1>2. \A y \in S : ~(y < x)
  BY <1>1 DEF OpToRel
<1>3. \A y \in S : x <= y
  BY <1>2
<1> QED
  BY <1>3 DEF First

LEMMA AdvanceType ==
  ASSUME NEW c \in Channels, Advance(c)
  PROVE  dmac' \in DmacPlaces
<1>1. After(c) # {} => First(After(c)) \in Channels
  <2>1. After(c) \subseteq Channels
    BY DEF After
  <2>2. Channels \subseteq Nat
    BY ChannelsAssumption
  <2> QED
    BY <2>1, <2>2, FirstOf
<1> QED
  BY <1>1 DEF Advance, DmacPlaces

LEMMA TransferringIn ==
  ASSUME NEW c \in Channels, Transferring(c)
  PROVE  dmac.c = c /\ dmac.at = "transfer"
BY DEF Transferring

(* What is written to CHCR.                                                *)
LEMMA WriteChcrType ==
  ASSUME NEW c \in Channels, NEW old \in Registers, NEW new \in Registers
  PROVE  WriteChcr(c, old, new) \in Registers
<1>1. Direction(c, new.DIR) \in {FROM, TO}
  BY DEF Direction, Registers
<1> DEFINE forced == [new EXCEPT !.DIR = Direction(c, @)]
<1>2. forced \in Registers
  BY <1>1 DEF Registers
<1> HIDE DEF forced
<1>3. [forced EXCEPT !.dma_started = FALSE, !.tag_exit = FALSE, !.tag_stall = FALSE,
                     !.tag_irq = FALSE] \in Registers
  BY <1>2 DEF Registers
<1> QED
  BY <1>2, <1>3 DEF WriteChcr, forced

LEMMA SetChannelType ==
  ASSUME channels \in [Channels -> Registers], NEW c \in Channels, NEW ch \in Registers,
         SetChannel(c, ch)
  PROVE  channels' \in [Channels -> Registers]
BY DEF SetChannel

LEMMA BlankType == Blank \in Registers
BY DEF Blank, Registers, Modes, Address, Addr, FROM, TO

(* What the program writes, one operation after the other.                 *)
LEMMA WrittenType ==
  ASSUME NEW ch \in Registers, NEW w \in Writes
  PROVE  /\ w.op \in {"regs", "start", "resume", "stop"}
         /\ w.op = "regs" => [ch EXCEPT !.qwc = w.qwc, !.madr = w.madr,
                                        !.tadr = w.tadr, !.sadr = w.sadr] \in Registers
         /\ w.op = "start" => [ch EXCEPT !.STR = TRUE, !.MOD = w.MOD, !.DIR = w.DIR,
                                         !.TIE = w.TIE, !.TTE = w.TTE, !.ASP = 0] \in Registers
         /\ [ch EXCEPT !.STR = TRUE] \in Registers
         /\ [ch EXCEPT !.STR = FALSE] \in Registers
<1>0. [ch EXCEPT !.STR = TRUE] \in Registers /\ [ch EXCEPT !.STR = FALSE] \in Registers
  BY DEF Registers
<1>1. CASE w \in [op : {"regs"}, qwc : Nat, madr : Address, tadr : Address, sadr : Nat]
  BY <1>0, <1>1 DEF Registers
<1>2. CASE w \in [op : {"start"}, MOD : Modes, DIR : {FROM, TO}, TIE : BOOLEAN, TTE : BOOLEAN]
  <2>1. w.op = "start" /\ w.MOD \in Modes /\ w.DIR \in {FROM, TO} /\ w.TIE \in BOOLEAN
        /\ w.TTE \in BOOLEAN
    BY <1>2
  <2> 0 \in 0..2
    OBVIOUS
  <2>2. [ch EXCEPT !.STR = TRUE, !.MOD = w.MOD, !.DIR = w.DIR, !.TIE = w.TIE,
                   !.TTE = w.TTE, !.ASP = 0] \in Registers
    BY <2>1 DEF Registers
  <2> QED
    BY <1>0, <2>1, <2>2
<1>3. CASE w \in [op : {"resume", "stop"}]
  BY <1>0, <1>3
<1> QED
  BY <1>1, <1>2, <1>3 DEF Writes

LEMMA InitTypes == Init => TypeOK
<1> SUFFICES ASSUME Init PROVE TypeOK
  OBVIOUS
<1> DEFINE s == setup
<1>1. /\ s \in Scenarios /\ ctrl = [DMAE |-> TRUE, STS |-> s.STS, STD |-> s.STD]
      /\ stadr = s.STADR /\ memory = s.memory
      /\ program = s.program /\ input = s.input /\ toggles = s.toggles
  BY DEF Init
<1>2. /\ s.STS \in 0..3 /\ s.STD \in 0..3 /\ s.STADR \in Nat /\ s.memory \in [Place -> Uqword]
      /\ s.program \in [Channels -> Seq(Writes)] /\ s.input \in [Channels -> Seq(Uword)]
      /\ s.toggles \in Nat
  BY <1>1, ScenariosAssumption
<1>3. channels \in [Channels -> Registers]
  BY BlankType DEF Init
<1>4. /\ fifo \in [Channels -> Seq(Uword)] /\ \A c \in Channels : Len(fifo[c]) <= FifoCap
      /\ received \in [Channels -> Seq(Uword)]
  BY EmptySeq, SizesAssumption DEF Init
<1>5. ctrl \in [DMAE : BOOLEAN, STS : 0..3, STD : 0..3]
  BY <1>1, <1>2
<1>6. dmac \in DmacPlaces
  BY DEF Init, DmacPlaces
<1> QED
  BY <1>1, <1>2, <1>3, <1>4, <1>5, <1>6 DEF Init, TypeOK, DmacPlaces

(* The EE core's program.                                                  *)
LEMMA CoreWriteTypes ==
  ASSUME TypeOK, NEW c \in Channels, CoreWrite(c)
  PROVE  TypeOK'
<1> DEFINE w == Head(program[c])
           ch == channels[c]
           started == [ch EXCEPT !.STR = TRUE, !.MOD = w.MOD, !.DIR = w.DIR,
                                 !.TIE = w.TIE, !.TTE = w.TTE, !.ASP = 0]
           chcr == CASE w.op = "start" -> started
                     [] w.op = "resume" -> [ch EXCEPT !.STR = TRUE]
                     [] w.op = "stop" -> [ch EXCEPT !.STR = FALSE]
           set == [ch EXCEPT !.qwc = w.qwc, !.madr = w.madr, !.tadr = w.tadr, !.sadr = w.sadr]
<1>1. program[c] \in Seq(Writes) /\ program[c] # <<>> /\ ch \in Registers
  BY DEF TypeOK, CoreWrite
<1>2. w \in Writes /\ Tail(program[c]) \in Seq(Writes)
  BY <1>1, HeadTailProperties
<1>3. program' \in [Channels -> Seq(Writes)]
  BY <1>2 DEF TypeOK, CoreWrite
<1>4. CASE w.op = "regs" /\ SetChannel(c, set)
  <2>1. set \in Registers
    BY <1>1, <1>2, <1>4, WrittenType
  <2>2. channels' \in [Channels -> Registers]
    BY <1>4, <2>1, SetChannelType DEF TypeOK
  <2> QED
    BY <1>3, <1>4, <2>2 DEF TypeOK, CoreWrite
<1>5. CASE /\ w.op \in {"start", "resume", "stop"}
           /\ SetChannel(c, WriteChcr(c, ch, chcr))
  <2>1. chcr \in Registers
    <3>1. CASE w.op = "start"
      BY <3>1, <1>1, <1>2, WrittenType
    <3>2. CASE w.op = "resume"
      BY <3>2, <1>1, <1>2, WrittenType
    <3>3. CASE w.op = "stop"
      BY <3>3, <1>1, <1>2, WrittenType
    <3> QED
      BY <1>5, <3>1, <3>2, <3>3
  <2> HIDE DEF chcr
  <2>2. WriteChcr(c, ch, chcr) \in Registers
    BY <1>1, <2>1, WriteChcrType
  <2>3. channels' \in [Channels -> Registers]
    BY <1>5, <2>2, SetChannelType DEF TypeOK
  <2> QED
    BY <1>3, <2>3 DEF TypeOK, CoreWrite
<1> QED
  BY <1>4, <1>5 DEF CoreWrite

(* The peripherals, and the control registers.                             *)
LEMMA PeripheralTypes ==
  ASSUME TypeOK, NEW c \in Channels, PeripheralNext(c)
  PROVE  TypeOK'
<1>1. /\ fifo[c] \in Seq(Uword) /\ Len(fifo[c]) <= FifoCap /\ input[c] \in Seq(Uword)
      /\ received[c] \in Seq(Uword) /\ fifo \in [Channels -> Seq(Uword)]
  BY DEF TypeOK
<1>2. CASE PeripheralRead(c)
  <2>1. fifo[c] # <<>>
    BY <1>2 DEF PeripheralRead
  <2>2. /\ Head(fifo[c]) \in Uword /\ Tail(fifo[c]) \in Seq(Uword)
        /\ Len(Tail(fifo[c])) = Len(fifo[c]) - 1
    BY <1>1, <2>1, HeadTailProperties
  <2>3. Append(received[c], Head(fifo[c])) \in Seq(Uword)
    BY <1>1, <2>2
  <2>4. received' \in [Channels -> Seq(Uword)]
    BY <1>2, <2>3 DEF TypeOK, PeripheralRead
  <2>5. fifo' = [fifo EXCEPT ![c] = Tail(fifo[c])]
    BY <1>2 DEF PeripheralRead
  <2>6. Len(Tail(fifo[c])) <= FifoCap
    BY <1>1, <2>2, LenProperties, SizesAssumption
  <2>7. fifo' \in [Channels -> Seq(Uword)] /\ \A d \in Channels : Len(fifo'[d]) <= FifoCap
    BY <1>1, <2>2, <2>5, <2>6 DEF TypeOK
  <2> QED
    BY <1>2, <2>4, <2>7 DEF TypeOK, PeripheralRead
<1>3. CASE PeripheralWrite(c)
  <2>1. input[c] # <<>> /\ Len(fifo[c]) < FifoCap
    BY <1>3 DEF PeripheralWrite
  <2>2. Head(input[c]) \in Uword /\ Tail(input[c]) \in Seq(Uword)
    BY <1>1, <2>1, HeadTailProperties
  <2>3. /\ Append(fifo[c], Head(input[c])) \in Seq(Uword)
        /\ Len(Append(fifo[c], Head(input[c]))) = Len(fifo[c]) + 1
    BY <1>1, <2>2
  <2>4. input' \in [Channels -> Seq(Uword)]
    BY <1>3, <2>2 DEF TypeOK, PeripheralWrite
  <2>5. fifo' = [fifo EXCEPT ![c] = Append(fifo[c], Head(input[c]))]
    BY <1>3 DEF PeripheralWrite
  <2>6. Len(Append(fifo[c], Head(input[c]))) <= FifoCap
    BY <1>1, <2>1, <2>3, LenProperties, SizesAssumption
  <2>7. fifo' \in [Channels -> Seq(Uword)] /\ \A d \in Channels : Len(fifo'[d]) <= FifoCap
    BY <1>1, <2>3, <2>5, <2>6 DEF TypeOK
  <2> QED
    BY <1>3, <2>4, <2>7 DEF TypeOK, PeripheralWrite
<1> QED
  BY <1>2, <1>3 DEF PeripheralNext

LEMMA ControlTypes ==
  ASSUME TypeOK,
         (\E clr, rev \in SUBSET (Used \cup {SIS}) : WriteStat(clr, rev)) \/ WriteDmae
  PROVE  TypeOK'
<1>1. CASE \E clr, rev \in SUBSET (Used \cup {SIS}) : WriteStat(clr, rev)
  <2>1. PICK clr, rev \in SUBSET (Used \cup {SIS}) : WriteStat(clr, rev)
    BY <1>1
  <2>2. rev \subseteq Channels \cup {SIS}
    BY DEF Used
  <2>3. stat' \subseteq Channels \cup {SIS} /\ mask' \subseteq Channels \cup {SIS}
    BY <2>1, <2>2 DEF TypeOK, WriteStat
  <2>4. toggles' \in Nat
    BY <2>1 DEF TypeOK, WriteStat
  <2> QED
    BY <2>1, <2>3, <2>4 DEF TypeOK, WriteStat
<1>2. CASE WriteDmae
  <2>1. ctrl' \in [DMAE : BOOLEAN, STS : 0..3, STD : 0..3]
    BY <1>2 DEF TypeOK, WriteDmae
  <2>2. toggles' \in Nat
    BY <1>2 DEF TypeOK, WriteDmae
  <2> QED
    BY <1>2, <2>1, <2>2 DEF TypeOK, WriteDmae
<1> QED
  BY <1>1, <1>2

(* The steps of a time step that leave the transfers alone.                *)
LEMMA PassTypes ==
  ASSUME TypeOK, dmac' \in DmacPlaces, UNCHANGED <<shared, env>>
  PROVE  TypeOK'
BY DEF TypeOK, DmacPlaces, shared, env

LEMMA TimeStepTypes ==
  ASSUME TypeOK, TimeStep \/ Check \/ InterruptCheck
  PROVE  TypeOK'
<1>0. dmac \in DmacPlaces
  BY DEF TypeOK, DmacPlaces
<1>1. CASE TimeStep
  <2>0. Channels \subseteq Nat /\ Channels # {}
    BY ChannelsAssumption
  <2>1. First(Channels) \in Channels
    BY <2>0, FirstOf
  <2>2. dmac' \in DmacPlaces
    BY <1>0, <1>1, <2>1 DEF TimeStep, DmacPlaces
  <2> QED
    BY <1>1, <2>2, PassTypes DEF TimeStep
<1>2. CASE Check
  <2>1. dmac.at = "scan" /\ dmac.c \in Channels
    BY <1>0, <1>2 DEF Check, DmacPlaces, Idle
  <2>2. CASE dmac' = [dmac EXCEPT !.at = "transfer"]
    <3>1. dmac' \in DmacPlaces
      BY <1>0, <2>1, <2>2 DEF DmacPlaces, Idle
    <3> QED
      BY <1>2, <3>1, PassTypes DEF Check
  <2>3. CASE Advance(dmac.c)
    BY <1>2, <2>1, <2>3, AdvanceType, PassTypes DEF Check
  <2> QED
    BY <1>2, <2>2, <2>3 DEF Check
<1>3. CASE InterruptCheck
  <2>1. dmac' \in DmacPlaces /\ irq' \in BOOLEAN
    BY <1>3 DEF InterruptCheck, DmacPlaces
  <2> QED
    BY <1>3, <2>1 DEF InterruptCheck, TypeOK, DmacPlaces, env
<1> QED
  BY <1>1, <1>2, <1>3

(* Where qwords are, in the memories and in the queues.                    *)
LEMMA PlaceType ==
  ASSUME NEW spr \in BOOLEAN, NEW n \in Nat
  PROVE  <<spr, n % MemSize>> \in Place
<1>1. MemSize \in Nat /\ MemSize > 0
  BY SizesAssumption
<1>2. n % MemSize \in 0..MemSize - 1
  BY <1>1
<1> QED
  BY <1>2 DEF Place

LEMMA AtType ==
  ASSUME NEW a \in Address
  PROVE  At(a) \in Place /\ <<FALSE, At(a)[2]>> \in Place
<1>1. a.spr \in BOOLEAN /\ a.addr \in Nat
  BY DEF Address
<1>2. At(a)[2] = a.addr % MemSize
  BY DEF At
<1> QED
  BY <1>1, <1>2, PlaceType DEF At

LEMMA PlusType ==
  ASSUME NEW a \in Address, NEW n \in Nat
  PROVE  Plus(a, n) \in Address
BY DEF Plus, Address

LEMMA WordsType ==
  ASSUME NEW s \in Seq(Uword), Len(s) >= 4
  PROVE  /\ Words(s) \in Uqword
         /\ Rest(s) \in Seq(Uword) /\ Len(Rest(s)) = Len(s) - 4
<1>1. Len(s) \in Nat /\ \A i \in 1..Len(s) : s[i] \in Uword
  BY LenProperties, ElementOfSeq
<1>2. Words(s) \in Seq(Uword) /\ Len(Words(s)) = 4
  <2>1. \A i \in 1..4 : s[i] \in Uword
    BY <1>1
  <2> QED
    BY <2>1, SubSeqProperties DEF Words
<1>3. Words(s) \in Uqword
  <2>1. Words(s) \in [1..Len(Words(s)) -> Uword]
    BY <1>2, LenProperties
  <2> QED
    BY <1>2, <2>1 DEF Uqword
<1>4. Rest(s) \in Seq(Uword) /\ Len(Rest(s)) = IF 5 <= Len(s) THEN Len(s) - 5 + 1 ELSE 0
  <2>1. \A i \in 5..Len(s) : s[i] \in Uword
    BY <1>1
  <2> QED
    BY <1>1, <2>1, SubSeqProperties DEF Rest
<1>5. Len(Rest(s)) = Len(s) - 4
  <2>1. \A n \in Nat : n >= 4 => (IF 5 <= n THEN n - 5 + 1 ELSE 0) = n - 4
    OBVIOUS
  <2> QED
    BY <1>1, <1>4, <2>1
<1> QED
  BY <1>3, <1>4, <1>5

LEMMA QwordAppended ==
  ASSUME NEW s \in Seq(Uword), NEW q \in Uqword
  PROVE  s \o q \in Seq(Uword) /\ Len(s \o q) = Len(s) + 4
<1>1. q \in [1..4 -> Uword]
  BY DEF Uqword
<1>2. q \in Seq(Uword)
  <2>1. 4 \in Nat
    OBVIOUS
  <2>2. q \in UNION {[1..n -> Uword] : n \in Nat}
    BY <1>1, <2>1
  <2> QED
    BY <2>2, SeqDef
<1>3. Len(q) = 4
  <2>1. DOMAIN q = 1..4
    BY <1>1
  <2>2. Len(q) \in Nat /\ DOMAIN q = 1..Len(q)
    BY <1>2, LenProperties
  <2>3. \A n \in Nat : 1..n = 1..4 => n = 4
    <3> SUFFICES ASSUME NEW n \in Nat, 1..n = 1..4 PROVE n = 4
      OBVIOUS
    <3>0. 4 \in 1..4 /\ 5 \notin 1..4
      OBVIOUS
    <3>1. 4 \in 1..n /\ 5 \notin 1..n
      BY <3>0, Zenon
    <3> QED
      BY <3>1
  <2> QED
    BY <2>1, <2>2, <2>3
<1>4. s \o q \in Seq(Uword) /\ Len(s \o q) = Len(s) + Len(q)
  BY <1>2, ConcatProperties
<1> QED
  BY <1>3, <1>4

(* A queue after a qword was taken from it or put into it.                 *)
LEMMA QueueType ==
  ASSUME TypeOK, NEW c \in Channels, NEW s \in Seq(Uword), Len(s) <= FifoCap,
         fifo' = [fifo EXCEPT ![c] = s]
  PROVE  fifo' \in [Channels -> Seq(Uword)] /\ \A d \in Channels : Len(fifo'[d]) <= FifoCap
BY DEF TypeOK

LEMMA RoomType ==
  ASSUME TypeOK, NEW c \in Channels, CanMove(c), c \notin SPRS
  PROVE  /\ fifo[c] \in Seq(Uword) /\ Len(fifo[c]) \in Nat
         /\ channels[c].DIR = FROM =>
              Len(fifo[c]) >= 4 /\ Len(fifo[c]) - 4 <= FifoCap
         /\ channels[c].DIR = TO => Len(fifo[c]) + 4 <= FifoCap
<1>1. fifo[c] \in Seq(Uword) /\ Len(fifo[c]) <= FifoCap
  BY DEF TypeOK
<1>2. Len(fifo[c]) \in Nat /\ FifoCap \in Nat
  BY <1>1, LenProperties, SizesAssumption
<1>3. FROM # TO
  BY DEF FROM, TO
<1> QED
  BY <1>1, <1>2, <1>3 DEF CanMove

(* transfer_data.                                                          *)
LEMMA MoveTypes ==
  ASSUME TypeOK, NEW c \in Channels, Move(c)
  PROVE  TypeOK'
<1> DEFINE ch == channels[c]
           moved == [ch EXCEPT !.madr = Plus(@, 1), !.qwc = @ - 1,
                               !.sadr = IF c \in SPRS THEN @ + 1 ELSE @]
<1>1. ch \in Registers /\ ch.madr \in Address /\ ch.qwc \in Nat /\ ch.qwc > 0 /\ ch.sadr \in Nat
  BY DEF TypeOK, Registers, Move
<1>2. channels' \in [Channels -> Registers]
  <2>1. Plus(ch.madr, 1) \in Address /\ ch.qwc - 1 \in Nat
        /\ (IF c \in SPRS THEN ch.sadr + 1 ELSE ch.sadr) \in Nat
    BY <1>1, PlusType
  <2>2. moved \in Registers
    BY <1>1, <2>1 DEF Registers
  <2>3. SetChannel(c, moved)
    BY DEF Move
  <2> QED
    BY <2>2, <2>3, SetChannelType DEF TypeOK
<1>3. stadr' \in Nat
  BY <1>1 DEF Move, TypeOK, Address
<1>4. dmac' \in DmacPlaces
  BY AdvanceType DEF Move
<1>5. /\ memory \in [Place -> Uqword] /\ At(ch.madr) \in Place /\ <<FALSE, At(ch.madr)[2]>> \in Place
      /\ <<TRUE, ch.sadr % MemSize>> \in Place
  BY <1>1, AtType, PlaceType DEF TypeOK
<1>6. CanMove(c)
  BY DEF Move
<1>7. /\ memory' \in [Place -> Uqword]
      /\ fifo' \in [Channels -> Seq(Uword)] /\ \A d \in Channels : Len(fifo'[d]) <= FifoCap
  <2>1. CASE /\ c \in SPRS
             /\ \/ memory' = [memory EXCEPT ![<<FALSE, At(ch.madr)[2]>>] =
                                              memory[<<TRUE, ch.sadr % MemSize>>]]
                \/ memory' = [memory EXCEPT ![<<TRUE, ch.sadr % MemSize>>] =
                                              memory[<<FALSE, At(ch.madr)[2]>>]]
             /\ UNCHANGED fifo
    BY <1>5, <2>1 DEF TypeOK
  <2>2. CASE /\ c \notin SPRS /\ ch.DIR = FROM
             /\ memory' = [memory EXCEPT ![At(ch.madr)] = Words(fifo[c])]
             /\ fifo' = [fifo EXCEPT ![c] = Rest(@)]
    <3>1. fifo[c] \in Seq(Uword) /\ Len(fifo[c]) >= 4 /\ Len(fifo[c]) - 4 <= FifoCap
      BY <1>6, <2>2, RoomType
    <3>2. /\ Words(fifo[c]) \in Uqword
          /\ Rest(fifo[c]) \in Seq(Uword) /\ Len(Rest(fifo[c])) <= FifoCap
      BY <3>1, WordsType
    <3>3. fifo' = [fifo EXCEPT ![c] = Rest(fifo[c])]
      BY <2>2
    <3>4. memory' \in [Place -> Uqword]
      BY <1>5, <2>2, <3>2
    <3> QED
      BY <3>2, <3>3, <3>4, QueueType
  <2>3. CASE /\ c \notin SPRS /\ ch.DIR = TO
             /\ fifo' = [fifo EXCEPT ![c] = @ \o memory[At(ch.madr)]]
             /\ UNCHANGED memory
    <3>1. fifo[c] \in Seq(Uword) /\ Len(fifo[c]) + 4 <= FifoCap
      BY <1>6, <2>3, RoomType
    <3>2. memory[At(ch.madr)] \in Uqword
      BY <1>5
    <3>3. /\ fifo[c] \o memory[At(ch.madr)] \in Seq(Uword)
          /\ Len(fifo[c] \o memory[At(ch.madr)]) <= FifoCap
      BY <3>1, <3>2, QwordAppended
    <3>4. fifo' = [fifo EXCEPT ![c] = fifo[c] \o memory[At(ch.madr)]]
      BY <2>3
    <3> QED
      BY <1>5, <2>3, <3>3, <3>4, QueueType
  <2> QED
    BY <2>1, <2>2, <2>3 DEF Move
<1> QED
  BY <1>2, <1>3, <1>4, <1>7 DEF Move, TypeOK, DmacPlaces, env

(* The chain tags: every handler leaves registers behind, and no handler   *)
(* takes ASP beyond the stack.                                             *)
Tags == [id : 0..7, qwc : Nat, irq : BOOLEAN, spr : BOOLEAN, addr : Nat]

LEMMA TagType ==
  ASSUME NEW w0 \in Uword, NEW w1 \in Uword
  PROVE  Tag(w0, w1) \in Tags
BY DEF Tag, Tags, Uword

LEMMA LoadType ==
  ASSUME NEW ch \in Registers, NEW tag \in Tags, NEW madr \in Address
  PROVE  Load(ch, tag, madr) \in Registers
<1>1. tag.qwc \in Nat
  BY DEF Tags
<1> QED
  BY <1>1 DEF Load, Registers

LEMMA SetType ==
  ASSUME NEW ch \in Registers, NEW e \in BOOLEAN
  PROVE  /\ [ch EXCEPT !.tag_irq = e] \in Registers
         /\ [ch EXCEPT !.STR = FALSE] \in Registers
         /\ [ch EXCEPT !.dma_started = TRUE] \in Registers
BY DEF Registers

LEMMA StackType ==
  ASSUME NEW ch \in Registers, NEW a \in Address
  PROVE  /\ ch.ASP < 2 => [ch EXCEPT !.asr[ch.ASP] = a, !.ASP = @ + 1] \in Registers
         /\ ch.ASP > 0 => [ch EXCEPT !.tadr = a, !.ASP = @ - 1] \in Registers
<1>1. ch.ASP \in 0..2 /\ ch.asr \in [0..1 -> Address]
  BY DEF Registers
<1>2. ASSUME ch.ASP < 2
      PROVE  [ch EXCEPT !.asr[ch.ASP] = a, !.ASP = @ + 1] \in Registers
  <2>1. ch.ASP + 1 \in 0..2
    BY <1>1, <1>2
  <2>2. [ch.asr EXCEPT ![ch.ASP] = a] \in [0..1 -> Address]
    BY <1>1
  <2>3. \A s \in [0..1 -> Address], n \in 0..2 : [ch EXCEPT !.asr = s, !.ASP = n] \in Registers
    BY DEF Registers
  <2> QED
    BY <2>1, <2>2, <2>3
<1>3. ASSUME ch.ASP > 0
      PROVE  [ch EXCEPT !.tadr = a, !.ASP = @ - 1] \in Registers
  <2>1. ch.ASP - 1 \in 0..2
    BY <1>1, <1>3
  <2>2. \A n \in 0..2 : [ch EXCEPT !.tadr = a, !.ASP = n] \in Registers
    BY DEF Registers
  <2> QED
    BY <2>1, <2>2
<1> QED
  BY <1>2, <1>3

LEMMA SourceTagType ==
  ASSUME NEW ch \in Registers, NEW tag \in Tags
  PROVE  SourceTag(ch, tag) \in Registers
<1>0. \A r \in Registers : /\ [r EXCEPT !.tag_exit = TRUE] \in Registers
                           /\ [r EXCEPT !.tag_stall = TRUE] \in Registers
                           /\ \A a \in Address : [r EXCEPT !.tadr = a] \in Registers
  <2> SUFFICES ASSUME NEW r \in Registers
               PROVE  /\ [r EXCEPT !.tag_exit = TRUE] \in Registers
                      /\ [r EXCEPT !.tag_stall = TRUE] \in Registers
                      /\ \A a \in Address : [r EXCEPT !.tadr = a] \in Registers
    OBVIOUS
  <2> QED
    BY DEF Registers
<1>1. /\ tag.id \in 0..7 /\ tag.qwc \in Nat /\ tag.qwc + 1 \in Nat
      /\ tag.spr \in BOOLEAN /\ tag.addr \in Nat
      /\ ch.tadr \in Address /\ ch.ASP \in 0..2 /\ ch.asr \in [0..1 -> Address]
  BY DEF Tags, Registers
<1>2. ToAddr(tag) \in Address
  BY <1>1 DEF ToAddr, Addr, Address
<1>3. \A a \in Address : Plus(a, 1) \in Address
  BY PlusType
<1>4. NextQword(ch) \in Address /\ Plus(ch.tadr, tag.qwc + 1) \in Address
  BY <1>1, <1>3, PlusType DEF NextQword
<1>5. \A a \in Address : Load(ch, tag, a) \in Registers /\ Load(ch, tag, a).tadr = ch.tadr
  BY LoadType DEF Load, Registers
<1> DEFINE next == Load(ch, tag, NextQword(ch))
           ref == Load(ch, tag, ToAddr(tag))
<1>6. /\ next \in Registers /\ next.tadr = ch.tadr /\ next.ASP = ch.ASP
      /\ ref \in Registers /\ ref.tadr = ch.tadr
  BY <1>2, <1>4, <1>5 DEF Load, Registers
<1> HIDE DEF next, ref
<1>7. SRC_CNT(ch, tag) \in Registers
  <2>1. SRC_CNT(ch, tag) = [next EXCEPT !.tadr = Plus(ch.tadr, tag.qwc + 1)]
    BY <1>6 DEF SRC_CNT, next
  <2> QED
    BY <1>0, <1>4, <1>6, <2>1
<1>8. SRC_NEXT(ch, tag) \in Registers
  BY <1>0, <1>2, <1>6 DEF SRC_NEXT, next
<1>9. SRC_REF(ch, tag) \in Registers
  <2>1. SRC_REF(ch, tag) = [ref EXCEPT !.tadr = Plus(ch.tadr, 1)]
    BY <1>6 DEF SRC_REF, ref
  <2>2. Plus(ch.tadr, 1) \in Address
    BY <1>1, <1>3
  <2> QED
    BY <1>0, <1>6, <2>1, <2>2
<1>10. SRC_REFS(ch, tag) \in Registers /\ SRC_REFE(ch, tag) \in Registers
  BY <1>0, <1>9 DEF SRC_REFS, SRC_REFE
<1>11. SRC_END(ch, tag) \in Registers
  BY <1>0, <1>6 DEF SRC_END, next
<1>12. SRC_CALL(ch, tag) \in Registers
  <2> DEFINE called == [next EXCEPT !.tadr = ToAddr(tag)]
  <2>1. called \in Registers /\ called.ASP = ch.ASP /\ called.tadr = ToAddr(tag)
    BY <1>0, <1>2, <1>6 DEF Registers
  <2> HIDE DEF called
  <2>2. SRC_CALL(ch, tag) = IF ch.ASP >= 2 THEN [called EXCEPT !.tag_exit = TRUE]
                            ELSE [called EXCEPT !.asr[ch.ASP] = NextQword(called), !.ASP = @ + 1]
    BY DEF SRC_CALL, called, next
  <2>3. NextQword(called) \in Address
    BY <1>2, <1>3, <2>1 DEF NextQword
  <2>4. CASE ch.ASP >= 2
    <3>1. SRC_CALL(ch, tag) = [called EXCEPT !.tag_exit = TRUE]
      BY <2>2, <2>4
    <3> QED
      BY <1>0, <2>1, <3>1
  <2>5. CASE ~(ch.ASP >= 2)
    <3>1. SRC_CALL(ch, tag) = [called EXCEPT !.asr[called.ASP] = NextQword(called), !.ASP = @ + 1]
      BY <2>1, <2>2, <2>5
    <3>2. called.ASP < 2
      BY <1>1, <2>1, <2>5
    <3> QED
      BY <2>1, <2>3, <3>1, <3>2, StackType
  <2> QED
    BY <2>4, <2>5
<1>13. SRC_RET(ch, tag) \in Registers
  <2> DEFINE returned == IF ch.ASP = 0 THEN [ch EXCEPT !.tag_exit = TRUE]
                         ELSE [ch EXCEPT !.tadr.addr = 0, !.ASP = @ - 1]
  <2>1. returned \in Registers
    <3>1. CASE ch.ASP = 0
      <4>1. returned = [ch EXCEPT !.tag_exit = TRUE]
        BY <3>1
      <4> QED
        BY <1>0, <4>1
    <3>2. CASE ch.ASP # 0
      <4>1. [ch.tadr EXCEPT !.addr = 0] \in Address
        BY <1>1 DEF Address
      <4>2. returned = [ch EXCEPT !.tadr = [ch.tadr EXCEPT !.addr = 0], !.ASP = @ - 1]
        BY <3>2
      <4>3. ch.ASP > 0
        BY <1>1, <3>2
      <4> QED
        BY <4>1, <4>2, <4>3, StackType
    <3> QED
      BY <3>1, <3>2
  <2>2. SRC_RET(ch, tag) = Load(returned, tag, NextQword(returned))
    BY DEF SRC_RET
  <2> HIDE DEF returned
  <2>3. NextQword(returned) \in Address
    BY <1>3, <2>1 DEF NextQword, Registers
  <2> QED
    BY <2>1, <2>2, <2>3, LoadType
<1> QED
  BY <1>1, <1>7, <1>8, <1>9, <1>10, <1>11, <1>12, <1>13
  DEF SourceTag, REFE, CNT, NEXT, REF, REFS, CALL, RET, END

LEMMA DestTagType ==
  ASSUME NEW ch \in Registers, NEW tag \in Tags
  PROVE  DestTag(ch, tag) \in Registers
<1>1. ToAddr(tag) \in Address
  BY DEF ToAddr, Addr, Address, Tags
<1> DEFINE ref == Load(ch, tag, ToAddr(tag))
<1>2. ref \in Registers
  BY <1>1, LoadType
<1> HIDE DEF ref
<1>3. \A stall, exit \in BOOLEAN :
        [ref EXCEPT !.tag_stall = stall, !.tag_exit = exit] \in Registers
  BY <1>2 DEF Registers
<1>4. (ref.tag_stall \/ tag.id = CNTS) \in BOOLEAN /\ (ref.tag_exit \/ tag.id = END) \in BOOLEAN
  OBVIOUS
<1> QED
  BY <1>3, <1>4 DEF DestTag, ref

(* What is left of a transfer: its beginning, the cycles that move         *)
(* nothing, its end, and the tags.                                         *)
LEMMA SkipTypes ==
  ASSUME TypeOK, NEW c \in Channels,
         Begin(c) \/ Stall(c) \/ Blocked(c) \/ AwaitPeripheral(c) \/ TagBlocked(c) \/ Fault(c)
  PROVE  TypeOK'
<1>0. channels[c] \in Registers
  BY DEF TypeOK
<1>1. CASE Begin(c)
  <2>1. channels' \in [Channels -> Registers]
    <3>1. [channels[c] EXCEPT !.dma_started = TRUE] \in Registers
      BY <1>0, SetType
    <3> QED
      BY <1>1, <3>1, SetChannelType DEF Begin, TypeOK
  <2>2. dmac' \in DmacPlaces
    BY <1>1, AdvanceType DEF Begin
  <2> QED
    BY <1>1, <2>1, <2>2 DEF Begin, TypeOK, DmacPlaces, env
<1>2. CASE Stall(c)
  <2>1. dmac' \in DmacPlaces
    BY <1>2, AdvanceType DEF Stall
  <2> QED
    BY <1>2, <2>1 DEF Stall, TypeOK, DmacPlaces, env
<1>3. CASE Blocked(c) \/ AwaitPeripheral(c) \/ TagBlocked(c)
  <2>1. dmac' \in DmacPlaces
    BY <1>3, AdvanceType DEF Blocked, AwaitPeripheral, TagBlocked
  <2> QED
    BY <1>3, <2>1, PassTypes DEF Blocked, AwaitPeripheral, TagBlocked
<1>4. CASE Fault(c)
  <2>1. dmac' \in DmacPlaces
    BY <1>4 DEF Fault, DmacPlaces
  <2> QED
    BY <1>4, <2>1, PassTypes DEF Fault
<1> QED
  BY <1>1, <1>2, <1>3, <1>4

LEMMA SuspendTypes ==
  ASSUME TypeOK, NEW c \in Channels, Suspend(c)
  PROVE  TypeOK'
<1> DEFINE ch == WriteChcr(c, channels[c], [channels[c] EXCEPT !.STR = FALSE])
<1>0. channels[c] \in Registers
  BY DEF TypeOK
<1>1. ch \in Registers
  BY <1>0, SetType, WriteChcrType
<1>2. SetChannel(c, ch)
  BY DEF Suspend
<1> HIDE DEF ch
<1>3. channels' \in [Channels -> Registers]
  BY <1>1, <1>2, SetChannelType DEF TypeOK
<1>4. dmac' \in DmacPlaces
  BY AdvanceType DEF Suspend
<1> QED
  BY <1>3, <1>4 DEF Suspend, TypeOK, DmacPlaces, env

LEMMA TagDoneType ==
  ASSUME TypeOK, NEW c \in Channels, NEW ch \in Registers, NEW tag \in Tags, TagDone(c, ch, tag)
  PROVE  channels' \in [Channels -> Registers] /\ dmac' \in DmacPlaces
<1>0. channels[c] \in Registers
  BY DEF TypeOK
<1>1. WriteChcr(c, channels[c], ch) \in Registers
  BY <1>0, WriteChcrType
<1>2. tag.irq \in BOOLEAN
  BY DEF Tags
<1>3. [WriteChcr(c, channels[c], ch) EXCEPT !.tag_irq = tag.irq] \in Registers
  BY <1>1, <1>2, SetType
<1>4. channels' \in [Channels -> Registers]
  BY <1>3, SetChannelType DEF TypeOK, TagDone
<1>5. dmac' \in DmacPlaces
  BY AdvanceType DEF TagDone
<1> QED
  BY <1>4, <1>5

LEMMA ReadSourceTagTypes ==
  ASSUME TypeOK, NEW c \in Channels, ReadSourceTag(c)
  PROVE  TypeOK'
<1> DEFINE ch == channels[c]
           q == memory[At(ch.tadr)]
           tag == Tag(q[1], q[2])
           sent == <<q[3], q[4], Zero, Zero>>
<1>1. ch \in Registers /\ q \in Uqword
  BY AtType DEF TypeOK, Registers
<1>2. q[1] \in Uword /\ q[2] \in Uword /\ q[3] \in Uword /\ q[4] \in Uword
  BY <1>1 DEF Uqword
<1>3. tag \in Tags
  BY <1>2, TagType
<1>4. SourceTag(ch, tag) \in Registers /\ TagDone(c, SourceTag(ch, tag), tag)
  BY <1>1, <1>3, SourceTagType DEF ReadSourceTag
<1>5. channels' \in [Channels -> Registers] /\ dmac' \in DmacPlaces
  BY <1>3, <1>4, TagDoneType
<1>6. fifo' \in [Channels -> Seq(Uword)] /\ \A d \in Channels : Len(fifo'[d]) <= FifoCap
  <2>1. CASE ch.TTE
    <3>1. c \notin SPRS /\ CanMove(c) /\ ch.DIR = TO /\ fifo' = [fifo EXCEPT ![c] = fifo[c] \o sent]
      BY <2>1 DEF ReadSourceTag
    <3>2. fifo[c] \in Seq(Uword) /\ Len(fifo[c]) + 4 <= FifoCap
      BY <3>1, RoomType
    <3>3. sent \in Uqword
      <4>1. Zero \in Uword
        BY DEF Zero, Uword
      <4> QED
        BY <1>2, <4>1 DEF Uqword
    <3>4. fifo[c] \o sent \in Seq(Uword) /\ Len(fifo[c] \o sent) <= FifoCap
      BY <3>2, <3>3, QwordAppended
    <3> QED
      BY <3>1, <3>4, QueueType
  <2>2. CASE ~ch.TTE
    BY <2>2 DEF ReadSourceTag, TypeOK
  <2> QED
    BY <2>1, <2>2
<1> QED
  BY <1>5, <1>6 DEF ReadSourceTag, TypeOK, DmacPlaces, env

LEMMA ReadDestTagTypes ==
  ASSUME TypeOK, NEW c \in Channels, ReadDestTag(c)
  PROVE  TypeOK'
<1> DEFINE ch == channels[c]
           tag == Tag(fifo[c][1], fifo[c][2])
<1>1. ch \in Registers /\ c \notin SPRS /\ CanMove(c) /\ ch.DIR = FROM
  BY DEF TypeOK, ReadDestTag
<1>2. fifo[c] \in Seq(Uword) /\ Len(fifo[c]) >= 4 /\ Len(fifo[c]) - 4 <= FifoCap /\ Len(fifo[c]) \in Nat
  BY <1>1, RoomType
<1>3. tag \in Tags
  <2>1. 1 \in 1..Len(fifo[c]) /\ 2 \in 1..Len(fifo[c])
    BY <1>2
  <2>2. fifo[c][1] \in Uword /\ fifo[c][2] \in Uword
    BY <1>2, <2>1, ElementOfSeq
  <2> QED
    BY <2>2, TagType
<1>4. DestTag(ch, tag) \in Registers /\ TagDone(c, DestTag(ch, tag), tag)
  BY <1>1, <1>3, DestTagType DEF ReadDestTag
<1>5. channels' \in [Channels -> Registers] /\ dmac' \in DmacPlaces
  BY <1>3, <1>4, TagDoneType
<1>6. fifo' \in [Channels -> Seq(Uword)] /\ \A d \in Channels : Len(fifo'[d]) <= FifoCap
  <2>1. Rest(fifo[c]) \in Seq(Uword) /\ Len(Rest(fifo[c])) <= FifoCap
    BY <1>2, WordsType
  <2>2. fifo' = [fifo EXCEPT ![c] = Rest(fifo[c])]
    BY DEF ReadDestTag
  <2> QED
    BY <2>1, <2>2, QueueType
<1> QED
  BY <1>5, <1>6 DEF ReadDestTag, TypeOK, DmacPlaces, env

LEMMA DmacTypes ==
  ASSUME TypeOK, DmacNext
  PROVE  TypeOK'
<1>1. CASE \E c \in Channels : Transfer(c)
  <2>1. PICK c \in Channels : Transfer(c)
    BY <1>1
  <2> QED
    BY <2>1, MoveTypes, SkipTypes, SuspendTypes, ReadSourceTagTypes, ReadDestTagTypes DEF Transfer
<1> QED
  BY <1>1, TimeStepTypes DEF DmacNext

(* In the EE's DMA controller no queue overflows, QWC does not go below    *)
(* zero and ASP stays within the stack, in whatever order the program, the *)
(* DMAC and the peripherals act.                                           *)
THEOREM EeTypes == Spec => []TypeOK
<1>1. TypeOK /\ [Next]_vars => TypeOK'
  <2> SUFFICES ASSUME TypeOK, [Next]_vars PROVE TypeOK'
    OBVIOUS
  <2>1. CASE DmacNext
    BY <2>1, DmacTypes
  <2>2. CASE Faulted \/ UNCHANGED vars
    BY <2>2 DEF Faulted, TypeOK, vars, shared, env
  <2>3. CASE CoreNext
    BY <2>3, CoreWriteTypes, ControlTypes DEF CoreNext
  <2>4. CASE \E c \in Channels : PeripheralNext(c)
    BY <2>4, PeripheralTypes
  <2> QED
    BY <2>1, <2>2, <2>3, <2>4 DEF Next
<1> QED
  BY InitTypes, <1>1, PTL DEF Spec
-----------------------------------------------------------------------------
(* The EE's chains: what each channel has sent, and what it still has to,  *)
(* is known from the tag it is at.                                         *)

(* A claim that holds for 0, and for each number up to a bound if it holds *)
(* for the one before, holds for all of them.                              *)
LEMMA UpTo ==
  ASSUME NEW n \in Nat, NEW holds, 0 \in holds, \A p \in 1..n : p - 1 \in holds => p \in holds
  PROVE  0..n \subseteq holds
<1> SUFFICES ASSUME ~(0..n \subseteq holds)
             PROVE  FALSE
  OBVIOUS
<1> DEFINE rest == {p \in 0..n : p \notin holds}
<1>1. rest # {} /\ rest \subseteq Nat
  OBVIOUS
<1> HIDE DEF rest
<1>2. \E x \in rest : \A y \in rest : ~(<<y, x>> \in OpToRel(<, Nat))
  BY <1>1, NatLessThanWellFounded, WFMin
<1>3. PICK x \in rest : \A y \in rest : ~(y < x)
  BY <1>1, <1>2 DEF OpToRel
<1> USE DEF rest
<1>4. x \in 1..n
  BY <1>3
<1>5. x - 1 \in holds
  <2>1. x - 1 \in 0..n /\ x - 1 < x
    BY <1>4
  <2> QED
    BY <1>3, <2>1
<1> QED
  BY <1>3, <1>4, <1>5

(* A recursion over the numbers up to a bound defines a function.          *)
LEMMA Recursion ==
  ASSUME NEW n \in Nat, NEW S, NEW a \in S, NEW step \in [1..n -> [S -> S]]
  PROVE  \E f \in [0..n -> S] : f[0] = a /\ \A p \in 1..n : f[p] = step[p][f[p - 1]]
<1> DEFINE Defines(m, f) == f[0] = a /\ \A p \in 1..m : f[p] = step[p][f[p - 1]]
<1> DEFINE holds == {m \in 0..n : \E f \in [0..m -> S] : Defines(m, f)}
<1>1. 0 \in holds
  <2>1. Defines(0, [p \in 0..0 |-> a]) /\ [p \in 0..0 |-> a] \in [0..0 -> S]
    OBVIOUS
  <2>2. 0 \in 0..n
    OBVIOUS
  <2> HIDE DEF Defines
  <2> QED
    BY <2>1, <2>2
<1>2. ASSUME NEW m \in 1..n, m - 1 \in holds
      PROVE  m \in holds
  <2>1. PICK f \in [0..m - 1 -> S] : Defines(m - 1, f)
    BY <1>2
  <2> DEFINE g == [p \in 0..m |-> IF p = m THEN step[m][f[m - 1]] ELSE f[p]]
  <2>2. m \in Nat /\ m # 0 /\ m \in 1..n /\ m - 1 \in 0..m - 1 /\ f[m - 1] \in S
    OBVIOUS
  <2>3. ASSUME NEW p \in 0..m
        PROVE  g[p] \in S /\ IF p = 0 THEN g[p] = a ELSE g[p] = step[p][g[p - 1]]
    <3>1. CASE p = m
      BY <2>2, <3>1
    <3>2. CASE p # m
      <4>1. p \in 0..m - 1 /\ g[p] = f[p]
        BY <2>2, <3>2
      <4>2. IF p = 0 THEN f[p] = a ELSE f[p] = step[p][f[p - 1]]
        BY <2>1, <4>1
      <4>3. p # 0 => p - 1 \in 0..m /\ p - 1 # m
        BY <2>2
      <4> QED
        BY <4>1, <4>2, <4>3
    <3> QED
      BY <3>1, <3>2
  <2>4. Defines(m, g) /\ g \in [0..m -> S]
    BY <2>3
  <2>5. m \in 0..n
    OBVIOUS
  <2> HIDE DEF Defines, g
  <2> QED
    BY <2>4, <2>5
<1>3. n \in holds
  <2>1. n \in 0..n
    OBVIOUS
  <2> HIDE DEF holds
  <2> QED
    BY <1>1, <1>2, <2>1, UpTo
<1> QED
  BY <1>3

(* A function on 1..n is a sequence of length n.                           *)
LEMMA FunctionSeq ==
  ASSUME NEW S, NEW n \in Nat, NEW f \in [1..n -> S]
  PROVE  f \in Seq(S) /\ Len(f) = n
<1>1. f \in Seq(S)
  <2>1. f \in UNION {[1..m -> S] : m \in Nat}
    OBVIOUS
  <2> QED
    BY <2>1, SeqDef
<1>2. Len(f) \in Nat /\ 1..Len(f) = 1..n
  BY <1>1, LenProperties
<1>3. ASSUME NEW m \in Nat, 1..m = 1..n
      PROVE  m = n
  <2>1. m \in 1..m \/ m = 0
    OBVIOUS
  <2>2. n \in 1..n \/ n = 0
    OBVIOUS
  <2>3. m \in 1..n \/ m = 0
    BY <1>3, <2>1, Zenon
  <2>4. n \in 1..m \/ n = 0
    BY <1>3, <2>2, Zenon
  <2> QED
    BY <2>3, <2>4
<1> QED
  BY <1>1, <1>2, <1>3

(* What the tags of a chain stand for.                                     *)
LEMMA QwordsAre ==
  ASSUME NEW s \in Scenarios, NEW a \in Address, NEW n \in Nat
  PROVE  /\ Qwords(s, a, n) \in Seq(Uword) /\ Len(Qwords(s, a, n)) = 4 * n
         /\ \A j \in 0..n - 1 : \A i \in 1..4 :
              Qwords(s, a, n)[4 * j + i] = s.memory[At(Plus(a, j))][i]
<1>1. s.memory \in [Place -> Uqword]
  BY ScenariosAssumption
<1>2. \A i \in 1..4 * n : (i - 1) \div 4 \in Nat /\ ((i - 1) % 4) + 1 \in 1..4
  OBVIOUS
<1>3. \A j \in Nat : s.memory[At(Plus(a, j))] \in Uqword
  BY <1>1, AtType, PlusType
<1>4. \A i \in 1..4 * n : s.memory[At(Plus(a, (i - 1) \div 4))][((i - 1) % 4) + 1] \in Uword
  BY <1>2, <1>3 DEF Uqword
<1>5. 4 * n \in Nat
  OBVIOUS
<1>6. Qwords(s, a, n) \in [1..4 * n -> Uword]
  BY <1>4 DEF Qwords
<1>7. Qwords(s, a, n) \in Seq(Uword) /\ Len(Qwords(s, a, n)) = 4 * n
  BY <1>5, <1>6, FunctionSeq
<1>8. ASSUME NEW j \in 0..n - 1, NEW i \in 1..4
      PROVE  Qwords(s, a, n)[4 * j + i] = s.memory[At(Plus(a, j))][i]
  <2>1. 4 * j + i \in 1..4 * n /\ ((4 * j + i) - 1) \div 4 = j /\ (((4 * j + i) - 1) % 4) + 1 = i
    OBVIOUS
  <2> QED
    BY <2>1 DEF Qwords
<1> QED
  BY <1>7, <1>8

LEMMA TagsOf ==
  ASSUME NEW s \in Scenarios, NEW c \in Channels, NEW k \in 1..NumTags(s, c)
  PROVE  /\ s.chains[c] \in Seq(Address) /\ NumTags(s, c) \in Nat /\ s.chains[c][k] \in Address
         /\ s.memory[At(s.chains[c][k])] \in Uqword
         /\ TagAt(s, s.chains[c][k]) \in Tags /\ DataAt(s, s.chains[c][k]) \in Address
<1>1. s.memory \in [Place -> Uqword] /\ s.chains[c] \in Seq(Address)
  BY ScenariosAssumption
<1>2. NumTags(s, c) \in Nat /\ s.chains[c][k] \in Address
  BY <1>1, LenProperties, ElementOfSeq DEF NumTags
<1> DEFINE a == s.chains[c][k]
           q == s.memory[At(a)]
<1> HIDE DEF a
<1>3. q \in Uqword
  BY <1>1, <1>2, AtType DEF a
<1>4. q[1] \in Uword /\ q[2] \in Uword
  BY <1>3 DEF Uqword
<1>5. TagAt(s, a) \in Tags
  BY <1>4, TagType DEF TagAt
<1>6. DataAt(s, a) \in Address
  BY <1>2, <1>5, PlusType DEF DataAt, ToAddr, Addr, Address, Tags, a
<1> QED
  BY <1>1, <1>2, <1>3, <1>5, <1>6 DEF a

Heading(s, c, k) ==
  IF s.program[c][2].TTE
  THEN <<s.memory[At(s.chains[c][k])][3], s.memory[At(s.chains[c][k])][4], Zero, Zero>> ELSE <<>>

LEMMA QwordSeq ==
  ASSUME NEW q \in Uqword
  PROVE  q \in Seq(Uword) /\ Len(q) = 4
BY FunctionSeq DEF Uqword

LEMMA HeadingIs ==
  ASSUME NEW s \in Scenarios, NEW c \in Channels, NEW k \in 1..NumTags(s, c)
  PROVE  /\ Heading(s, c, k) \in Seq(Uword)
         /\ Len(Heading(s, c, k)) = IF s.program[c][2].TTE THEN 4 ELSE 0
         /\ Packet(s, c, k) = Heading(s, c, k) \o
              Qwords(s, DataAt(s, s.chains[c][k]), TagAt(s, s.chains[c][k]).qwc)
         /\ Packet(s, c, k) \in Seq(Uword)
         /\ Len(Packet(s, c, k)) = Len(Heading(s, c, k)) + 4 * TagAt(s, s.chains[c][k]).qwc
<1> DEFINE q == s.memory[At(s.chains[c][k])]
           data == Qwords(s, DataAt(s, s.chains[c][k]), TagAt(s, s.chains[c][k]).qwc)
<1>1. q \in Uqword /\ TagAt(s, s.chains[c][k]).qwc \in Nat
  BY TagsOf DEF Tags
<1>2. q[3] \in Uword /\ q[4] \in Uword /\ Zero \in Uword
  BY <1>1 DEF Uqword, Uword, Zero
<1>3. <<q[3], q[4], Zero, Zero>> \in Seq(Uword) /\ Len(<<q[3], q[4], Zero, Zero>>) = 4
  BY <1>2
<1>4. <<>> \in Seq(Uword) /\ Len(<<>>) = 0
  OBVIOUS
<1>5. /\ Heading(s, c, k) \in Seq(Uword)
      /\ Len(Heading(s, c, k)) = IF s.program[c][2].TTE THEN 4 ELSE 0
  <2> HIDE DEF q
  <2>1. Heading(s, c, k) = IF s.program[c][2].TTE THEN <<q[3], q[4], Zero, Zero>> ELSE <<>>
    BY DEF Heading, q
  <2> QED
    BY <1>3, <1>4, <2>1
<1>6. data \in Seq(Uword) /\ Len(data) = 4 * TagAt(s, s.chains[c][k]).qwc
  BY <1>1, TagsOf, QwordsAre
<1>7. Packet(s, c, k) = Heading(s, c, k) \o data
  BY DEF Packet, Heading
<1> HIDE DEF data
<1> QED
  BY <1>5, <1>6, <1>7, ConcatProperties DEF data

(* Packets joined one after the other.                                     *)
LEMMA JoinedAre ==
  ASSUME NEW n \in Nat, NEW p \in [1..n -> Seq(Uword)]
  PROVE  /\ Joined(p) \in [0..n -> Seq(Uword)] /\ Joined(p)[0] = <<>>
         /\ \A k \in 1..n : Joined(p)[k] = Joined(p)[k - 1] \o p[k]
<1> DEFINE S == Seq(Uword)
           step == [k \in 1..n |-> [t \in S |-> t \o p[k]]]
           f == Joined(p)
<1>1. Len(p) = n
  BY FunctionSeq
<1>2. \A k \in 1..n : p[k] \in S
  OBVIOUS
<1>3. step \in [1..n -> [S -> S]]
  <2>1. \A k \in 1..n : \A t \in S : t \o p[k] \in S
    BY <1>2, ConcatProperties
  <2> HIDE DEF S
  <2> QED
    BY <2>1
<1>4. PICK g \in [0..n -> S] : g[0] = <<>> /\ \A k \in 1..n : g[k] = step[k][g[k - 1]]
  <2> DEFINE Defined(T, a, t) ==
        \E g \in [0..n -> T] : g[0] = a /\ \A q \in 1..n : g[q] = t[q][g[q - 1]]
  <2>1. \A T : \A a \in T : \A t \in [1..n -> [T -> T]] : Defined(T, a, t)
    BY Recursion
  <2>2. <<>> \in S
    OBVIOUS
  <2>3. Defined(S, <<>>, step)
    <3> HIDE DEF Defined, S, step
    <3> QED
      BY <1>3, <2>1, <2>2, Zenon
  <2> QED
    BY <2>3
<1>5. ASSUME NEW k \in 0..n
      PROVE  g[k] = IF k = 0 THEN <<>> ELSE g[k - 1] \o p[k]
  <2>1. k # 0 => k - 1 \in 0..n /\ k \in 1..n /\ g[k - 1] \in S
    OBVIOUS
  <2> HIDE DEF S
  <2> QED
    BY <1>4, <2>1
<1>6. g = [k \in 0..n |-> IF k = 0 THEN <<>> ELSE g[k - 1] \o p[k]]
  BY <1>5
<1>7. f = [k \in 0..n |-> IF k = 0 THEN <<>> ELSE f[k - 1] \o p[k]]
  BY <1>1, <1>6 DEF Joined
<1> HIDE DEF f
<1>8. f[0] = <<>> /\ \A k \in 1..n : f[k] = f[k - 1] \o p[k]
  <2>1. ASSUME NEW k \in 0..n
        PROVE  f[k] = IF k = 0 THEN <<>> ELSE f[k - 1] \o p[k]
    BY <1>7, Zenon
  <2>2. 0 \in 0..n /\ \A k \in 1..n : k \in 0..n /\ k # 0
    OBVIOUS
  <2> QED
    BY <2>1, <2>2, Zenon
<1>9. f \in [0..n -> S]
  <2> DEFINE holds == {k \in 0..n : f[k] \in S}
  <2>1. 0 \in holds
    <3>1. 0 \in 0..n /\ <<>> \in S
      OBVIOUS
    <3> QED
      BY <1>8, <3>1, Zenon
  <2>2. ASSUME NEW k \in 1..n, k - 1 \in holds
        PROVE  k \in holds
    <3>1. f[k - 1] \in S /\ f[k] = f[k - 1] \o p[k] /\ p[k] \in S
      BY <1>2, <1>8, <2>2, Zenon
    <3>2. f[k - 1] \o p[k] \in S
      BY <3>1, ConcatProperties
    <3>3. k \in 0..n
      OBVIOUS
    <3> QED
      BY <3>1, <3>2, <3>3, Zenon
  <2>3. 0..n \subseteq holds
    <3> HIDE DEF holds
    <3> QED
      BY <2>1, <2>2, UpTo
  <2> QED
    BY <1>7, <2>3
<1> QED
  BY <1>8, <1>9 DEF f

LEMMA PacketsAre ==
  ASSUME NEW s \in Scenarios, NEW c \in Channels
  PROVE  /\ NumTags(s, c) \in Nat /\ Packets(s, c) \in [0..NumTags(s, c) -> Seq(Uword)]
         /\ Packets(s, c)[0] = <<>>
         /\ \A k \in 1..NumTags(s, c) : Packets(s, c)[k] = Packets(s, c)[k - 1] \o Packet(s, c, k)
<1> DEFINE n == NumTags(s, c)
           p == [k \in 1..n |-> Packet(s, c, k)]
<1>1. n \in Nat
  BY ScenariosAssumption, LenProperties DEF NumTags
<1>2. p \in [1..n -> Seq(Uword)]
  BY HeadingIs
<1>3. Packets(s, c) = Joined(p)
  BY DEF Packets
<1> HIDE DEF n
<1>4. \A k \in 1..n : p[k] = Packet(s, c, k)
  OBVIOUS
<1> HIDE DEF p
<1> QED
  BY <1>1, <1>2, <1>3, <1>4, JoinedAre DEF n

(* The beginning of a sequence.                                            *)
LEMMA BeginsMore ==
  ASSUME NEW s \in Seq(Uword), NEW all \in Seq(Uword), NEW q \in Seq(Uword), Begins(s, all),
         Len(s) + Len(q) <= Len(all), \A i \in 1..Len(q) : all[Len(s) + i] = q[i]
  PROVE  s \o q \in Seq(Uword) /\ Len(s \o q) = Len(s) + Len(q) /\ Begins(s \o q, all)
<1>1. /\ Len(s) \in Nat /\ Len(q) \in Nat /\ s \o q \in Seq(Uword) /\ Len(s \o q) = Len(s) + Len(q)
      /\ \A i \in 1..Len(s) + Len(q) : (s \o q)[i] = IF i <= Len(s) THEN s[i] ELSE q[i - Len(s)]
  BY ConcatProperties, LenProperties
<1>2. ASSUME NEW i \in 1..Len(s \o q)
      PROVE  (s \o q)[i] = all[i]
  <2>1. CASE i <= Len(s)
    BY <1>1, <2>1 DEF Begins
  <2>2. CASE ~(i <= Len(s))
    <3>1. i - Len(s) \in 1..Len(q) /\ Len(s) + (i - Len(s)) = i
      BY <1>1, <2>2
    <3>2. (s \o q)[i] = q[i - Len(s)]
      BY <1>1, <2>2
    <3>3. all[Len(s) + (i - Len(s))] = q[i - Len(s)]
      BY <3>1
    <3> QED
      BY <3>1, <3>2, <3>3
  <2> QED
    BY <2>1, <2>2
<1> QED
  BY <1>1, <1>2 DEF Begins

LEMMA BeginsLonger ==
  ASSUME NEW s \in Seq(Uword), NEW all \in Seq(Uword), NEW t \in Seq(Uword), Begins(s, all)
  PROVE  all \o t \in Seq(Uword) /\ Len(all \o t) = Len(all) + Len(t) /\ Begins(s, all \o t)
<1>1. /\ Len(s) \in Nat /\ Len(all) \in Nat /\ Len(t) \in Nat
      /\ all \o t \in Seq(Uword) /\ Len(all \o t) = Len(all) + Len(t)
      /\ \A i \in 1..Len(all) + Len(t) : (all \o t)[i] = IF i <= Len(all) THEN all[i] ELSE t[i - Len(all)]
  BY ConcatProperties, LenProperties
<1>2. ASSUME NEW i \in 1..Len(s)
      PROVE  s[i] = (all \o t)[i]
  BY <1>1 DEF Begins
<1> QED
  BY <1>1, <1>2 DEF Begins

(* ... which all of it is, when it is as long.                             *)
LEMMA BeginsWhole ==
  ASSUME NEW s \in Seq(Uword), NEW all \in Seq(Uword), Begins(s, all), Len(s) = Len(all)
  PROVE  s = all
BY SeqEqual DEF Begins

(* The data of the k-th tag, from the end.                                 *)
LEMMA DataOf ==
  ASSUME NEW s \in Scenarios, NEW c \in Channels, NEW k \in 1..NumTags(s, c),
         NEW left \in 1..TagAt(s, s.chains[c][k]).qwc, NEW i \in 1..4
  PROVE  /\ 4 * left <= Len(Packets(s, c)[k])
         /\ Packets(s, c)[k][(Len(Packets(s, c)[k]) - 4 * left) + i] =
              s.memory[At(Plus(DataAt(s, s.chains[c][k]), TagAt(s, s.chains[c][k]).qwc - left))][i]
<1> DEFINE a == DataAt(s, s.chains[c][k])
           n == TagAt(s, s.chains[c][k]).qwc
           p == Packets(s, c)[k - 1]
           h == Heading(s, c, k)
           d == Qwords(s, a, n)
           all == Packets(s, c)[k]
<1>1. a \in Address /\ n \in Nat /\ k \in Nat /\ k - 1 \in 0..NumTags(s, c)
  BY TagsOf DEF Tags
<1>2. d \in Seq(Uword) /\ Len(d) = 4 * n
      /\ \A j \in 0..n - 1 : \A m \in 1..4 : d[4 * j + m] = s.memory[At(Plus(a, j))][m]
  BY <1>1, QwordsAre
<1>3. h \in Seq(Uword) /\ Packet(s, c, k) = h \o d
  BY HeadingIs
<1>4. p \in Seq(Uword) /\ all = p \o (h \o d)
  BY <1>1, <1>3, PacketsAre
<1> HIDE DEF a, n, p, h, d, all
<1>5. /\ Len(h) \in Nat /\ h \o d \in Seq(Uword) /\ Len(h \o d) = Len(h) + Len(d)
      /\ \A m \in 1..Len(h) + Len(d) : (h \o d)[m] = IF m <= Len(h) THEN h[m] ELSE d[m - Len(h)]
  BY <1>2, <1>3, ConcatProperties, LenProperties
<1>6. /\ Len(p) \in Nat /\ all \in Seq(Uword) /\ Len(all) = Len(p) + Len(h \o d)
      /\ \A m \in 1..Len(p) + Len(h \o d) : all[m] = IF m <= Len(p) THEN p[m] ELSE (h \o d)[m - Len(p)]
  BY <1>4, <1>5, ConcatProperties, LenProperties
<1>7. left \in 1..n
  BY DEF n
<1> DEFINE x == 4 * (n - left) + i
<1>8. /\ x \in 1..4 * n /\ n - left \in 0..n - 1 /\ x \in Int
      /\ (Len(all) - 4 * left) + i = Len(p) + (Len(h) + x)
      /\ 4 * left <= Len(all)
  <2>1. Len(all) = Len(p) + (Len(h) + 4 * n)
    BY <1>2, <1>5, <1>6
  <2>2. left \in Nat /\ left >= 1 /\ left <= n /\ i \in Nat /\ i >= 1 /\ i <= 4
    BY <1>1, <1>7
  <2> DEFINE lp == Len(p)
             lh == Len(h)
             la == Len(all)
  <2>3. lp \in Nat /\ lh \in Nat /\ la = lp + (lh + 4 * n)
    BY <1>5, <1>6, <2>1
  <2> HIDE DEF lp, lh, la
  <2>4. /\ x \in 1..4 * n /\ n - left \in 0..n - 1 /\ x \in Int
        /\ (la - 4 * left) + i = lp + (lh + x) /\ 4 * left <= la
    BY <1>1, <2>2, <2>3
  <2> QED
    BY <2>4 DEF lp, lh, la
<1>9. d[x] = s.memory[At(Plus(a, n - left))][i]
  BY <1>2, <1>8
<1> HIDE DEF x
<1>10. (h \o d)[Len(h) + x] = d[x]
  <2>1. Len(h) + x \in 1..Len(h) + Len(d) /\ ~(Len(h) + x <= Len(h)) /\ (Len(h) + x) - Len(h) = x
    BY <1>1, <1>2, <1>5, <1>8
  <2> QED
    BY <1>5, <2>1
<1>11. all[Len(p) + (Len(h) + x)] = (h \o d)[Len(h) + x]
  <2> DEFINE y == Len(h) + x
  <2>1. y \in 1..Len(h \o d)
    BY <1>1, <1>2, <1>5, <1>8
  <2> HIDE DEF y
  <2>2. Len(p) + y \in 1..Len(p) + Len(h \o d) /\ ~(Len(p) + y <= Len(p)) /\ (Len(p) + y) - Len(p) = y
    BY <1>5, <1>6, <2>1, LenProperties
  <2>3. all[Len(p) + y] = (h \o d)[y]
    BY <1>6, <2>2
  <2> QED
    BY <2>3 DEF y
<1>12. all[(Len(all) - 4 * left) + i] = s.memory[At(Plus(a, n - left))][i]
  BY <1>8, <1>9, <1>10, <1>11
<1> QED
  BY <1>8, <1>12 DEF all, a, n

(* What begins the first packets begins all of them.                       *)
LEMMA JoinedBegin ==
  ASSUME NEW n \in Nat, NEW p \in [1..n -> Seq(Uword)], NEW k \in 0..n,
         NEW t \in Seq(Uword), Begins(t, Joined(p)[k])
  PROVE  Begins(t, Joined(p)[n])
<1> DEFINE f == Joined(p)
           holds == {m \in 0..n - k : Begins(t, f[k + m])}
<1>1. n \in Nat /\ k \in Nat /\ k <= n /\ n - k \in Nat
  OBVIOUS
<1>2. f \in [0..n -> Seq(Uword)] /\ \A m \in 1..n : f[m] = f[m - 1] \o p[m]
  BY JoinedAre
<1> HIDE DEF f
<1>3. 0 \in holds
  BY <1>1 DEF f
<1>4. ASSUME NEW m \in 1..n - k, m - 1 \in holds
      PROVE  m \in holds
  <2>1. k + m \in 1..n /\ (k + m) - 1 = k + (m - 1) /\ k + (m - 1) \in 0..n /\ m \in 0..n - k
    BY <1>1
  <2> DEFINE u == f[k + (m - 1)]
             v == p[k + m]
  <2>2. f[k + m] = u \o v /\ u \in Seq(Uword) /\ v \in Seq(Uword) /\ Begins(t, u)
    BY <1>2, <1>4, <2>1
  <2>3. Begins(t, u \o v)
    <3> HIDE DEF u, v
    <3> QED
      BY <2>2, BeginsLonger
  <2> QED
    BY <2>1, <2>2, <2>3
<1>5. n - k \in holds
  <2>1. n - k \in 0..n - k
    BY <1>1
  <2> HIDE DEF holds
  <2> QED
    BY <1>1, <1>3, <1>4, <2>1, UpTo
<1>6. k + (n - k) = n
  BY <1>1
<1> QED
  BY <1>5, <1>6 DEF f

LEMMA PacketsBegin ==
  ASSUME NEW s \in Scenarios, NEW c \in Channels, NEW k \in 0..NumTags(s, c),
         NEW t \in Seq(Uword), Begins(t, Packets(s, c)[k])
  PROVE  Begins(t, Packets(s, c)[NumTags(s, c)])
<1> DEFINE n == NumTags(s, c)
           p == [m \in 1..n |-> Packet(s, c, m)]
<1>1. n \in Nat
  BY ScenariosAssumption, LenProperties DEF NumTags
<1>2. p \in [1..n -> Seq(Uword)]
  BY HeadingIs
<1>3. Packets(s, c) = Joined(p)
  BY DEF Packets
<1> HIDE DEF n, p
<1> QED
  BY <1>1, <1>2, <1>3, JoinedBegin DEF n

(* What the handler of a tag leaves in the registers.                      *)
LEMMA SourceTagRead ==
  ASSUME NEW ch \in Registers, NEW tag \in Tags,
         tag.id \in {CNT, NEXT, REF, REFS, REFE, END}
  PROVE  LET new == SourceTag(ch, tag)
         IN  /\ new \in Registers /\ new.qwc = tag.qwc
             /\ new.madr = IF tag.id \in {REF, REFS, REFE} THEN ToAddr(tag) ELSE Plus(ch.tadr, 1)
             /\ tag.id \notin {REFE, END} =>
                  new.tadr = CASE tag.id = CNT -> Plus(ch.tadr, tag.qwc + 1)
                               [] tag.id = NEXT -> ToAddr(tag)
                               [] OTHER -> Plus(ch.tadr, 1)
             /\ new.tag_exit = (ch.tag_exit \/ tag.id \in {REFE, END})
             /\ new.STR = ch.STR /\ new.MOD = ch.MOD /\ new.DIR = ch.DIR
             /\ new.TIE = ch.TIE /\ new.TTE = ch.TTE
<1> DEFINE Same(r) == /\ r.STR = ch.STR /\ r.MOD = ch.MOD /\ r.DIR = ch.DIR
                      /\ r.TIE = ch.TIE /\ r.TTE = ch.TTE /\ r.qwc = tag.qwc
           Ref(r) == Same(r) /\ r.madr = ToAddr(tag)
           Follow(r) == Same(r) /\ r.madr = Plus(ch.tadr, 1)
<1>1. SourceTag(ch, tag) \in Registers
  BY SourceTagType
<1>2. /\ Follow(SRC_CNT(ch, tag)) /\ SRC_CNT(ch, tag).tag_exit = ch.tag_exit
      /\ SRC_CNT(ch, tag).tadr = Plus(ch.tadr, tag.qwc + 1)
  BY DEF SRC_CNT, Load, NextQword, Registers
<1>3. /\ Follow(SRC_NEXT(ch, tag)) /\ SRC_NEXT(ch, tag).tag_exit = ch.tag_exit
      /\ SRC_NEXT(ch, tag).tadr = ToAddr(tag)
  BY DEF SRC_NEXT, Load, NextQword, Registers
<1>4. /\ Ref(SRC_REF(ch, tag)) /\ SRC_REF(ch, tag).tag_exit = ch.tag_exit
      /\ SRC_REF(ch, tag).tadr = Plus(ch.tadr, 1)
  BY DEF SRC_REF, Load, Registers
<1>5. /\ Ref(SRC_REFS(ch, tag)) /\ SRC_REFS(ch, tag).tag_exit = ch.tag_exit
      /\ SRC_REFS(ch, tag).tadr = Plus(ch.tadr, 1)
  BY DEF SRC_REFS, SRC_REF, Load, Registers
<1>6. Ref(SRC_REFE(ch, tag)) /\ SRC_REFE(ch, tag).tag_exit = TRUE
  BY DEF SRC_REFE, SRC_REF, Load, Registers
<1>7. Follow(SRC_END(ch, tag)) /\ SRC_END(ch, tag).tag_exit = TRUE
  BY DEF SRC_END, Load, NextQword, Registers
<1>8. ch.tag_exit \in BOOLEAN
  BY DEF Registers
<1> DEFINE new == SourceTag(ch, tag)
<1> HIDE DEF Same
<1>9. CASE tag.id = CNT
  BY <1>1, <1>2, <1>8, <1>9 DEF SourceTag, CNT, NEXT, REF, REFS, REFE, END, CALL, RET, Same
<1>10. CASE tag.id = NEXT
  BY <1>1, <1>3, <1>8, <1>10 DEF SourceTag, CNT, NEXT, REF, REFS, REFE, END, CALL, RET, Same
<1>11. CASE tag.id = REF
  BY <1>1, <1>4, <1>8, <1>11 DEF SourceTag, CNT, NEXT, REF, REFS, REFE, END, CALL, RET, Same
<1>12. CASE tag.id = REFS
  BY <1>1, <1>5, <1>8, <1>12 DEF SourceTag, CNT, NEXT, REF, REFS, REFE, END, CALL, RET, Same
<1>13. CASE tag.id = REFE
  <2>1. new = SRC_REFE(ch, tag)
    BY <1>13 DEF SourceTag, CNT, NEXT, REF, REFS, REFE, END, CALL, RET
  <2>2. tag.id \in {REFE, END} /\ (tag.id \in {REF, REFS, REFE}) = TRUE
    BY <1>13 DEF CNT, NEXT, REF, REFS, REFE, END, CALL, RET
  <2>3. new.tag_exit = TRUE
    BY <1>6, <2>1
  <2>4. new.tag_exit = (ch.tag_exit \/ tag.id \in {REFE, END})
    BY <2>2, <2>3, Zenon
  <2>5. Same(new) /\ new.madr = IF tag.id \in {REF, REFS, REFE} THEN ToAddr(tag) ELSE Plus(ch.tadr, 1)
    BY <1>6, <2>1, <2>2
  <2> HIDE DEF new
  <2> QED
    BY <1>1, <2>2, <2>4, <2>5 DEF Same, new
<1>14. CASE tag.id = END
  <2>1. new = SRC_END(ch, tag)
    BY <1>14 DEF SourceTag, CNT, NEXT, REF, REFS, REFE, END, CALL, RET
  <2>2. tag.id \in {REFE, END} /\ (tag.id \in {REF, REFS, REFE}) = FALSE
    BY <1>14 DEF CNT, NEXT, REF, REFS, REFE, END, CALL, RET
  <2>3. new.tag_exit = TRUE
    BY <1>7, <2>1
  <2>4. new.tag_exit = (ch.tag_exit \/ tag.id \in {REFE, END})
    BY <2>2, <2>3, Zenon
  <2>5. Same(new) /\ new.madr = IF tag.id \in {REF, REFS, REFE} THEN ToAddr(tag) ELSE Plus(ch.tadr, 1)
    BY <1>7, <2>1, <2>2
  <2> HIDE DEF new
  <2> QED
    BY <1>1, <2>2, <2>4, <2>5 DEF Same, new
<1> QED
  BY <1>9, <1>10, <1>11, <1>12, <1>13, <1>14

(* What the program has built for a channel that sends a chain.            *)
LEMMA ChainIs ==
  ASSUME NEW s \in Scenarios, NEW c \in Channels, s.chains[c] # <<>>
  PROVE  /\ IsChain(s, c) /\ NumTags(s, c) \in Nat /\ NumTags(s, c) > 0
         /\ s.program[c] \in Seq(Writes) /\ Len(s.program[c]) \in Nat
         /\ IsFiniteSet(Pauses(s, c)) /\ Pauses(s, c) \subseteq 1..NumTags(s, c) - 1
         /\ Direction(c, TO) = TO
<1>1. IsChain(s, c)
  BY ChainsAssumption DEF Chained
<1>2. s.chains[c] \in Seq(Address) /\ s.program[c] \in Seq(Writes)
  BY ScenariosAssumption
<1>3. NumTags(s, c) \in Nat /\ NumTags(s, c) > 0
  BY <1>2, EmptySeq DEF NumTags
<1>4. Pauses(s, c) \in SUBSET (1..NumTags(s, c) - 1)
  BY DEF Pauses
<1>5. IsFiniteSet(Pauses(s, c))
  <2>1. NumTags(s, c) - 1 \in Int /\ 1 \in Int
    BY <1>3
  <2>2. IsFiniteSet(1..NumTags(s, c) - 1)
    BY <2>1, FS_Interval
  <2> QED
    BY <1>4, <2>2, FS_Subset
<1>6. c # 5
  BY <1>1 DEF IsChain
<1>7. Direction(c, TO) = TO
  BY <1>6 DEF Direction
<1> QED
  BY <1>1, <1>2, <1>3, <1>4, <1>5, <1>7, LenProperties

(* After a transfer the DMAC is at none.                                   *)
LEMMA NoneTransferring ==
  ASSUME NEW c \in Channels, Advance(c) \/ dmac' = [at |-> "fault", c |-> c] \/ dmac' = Idle, NEW d
  PROVE  ~Transferring(d)'
<1>1. dmac'.at # "transfer"
  BY DEF Advance, Idle
<1> QED
  BY <1>1 DEF Transferring

(* What a chain's channel is known to do stays true when nobody touches it.*)
LEMMA ChainKept ==
  ASSUME NEW c \in Channels, NEW k, Programmed(c, k), Follows(c, k),
         setup' = setup, program'[c] = program[c], input'[c] = input[c],
         channels'[c] = channels[c], Sent(c)' = Sent(c),
         Transferring(c)' => Transferring(c) \/ channels[c].STR
  PROVE  Programmed(c, k)' /\ Follows(c, k)'
<1>1. Written(c)' = Written(c) /\ ToCome(c, k)' = ToCome(c, k)
  BY DEF Written, ToCome
<1>2. Programmed(c, k)'
  BY <1>1 DEF Programmed
<1>3. Follows(c, k)'
  BY <1>1 DEF Follows
<1> QED
  BY <1>2, <1>3

(* The next write of the program.                                          *)
LEMMA NextWrite ==
  ASSUME NEW all \in Seq(Writes), NEW n \in 0..Len(all), NEW rest,
         rest = SubSeq(all, n + 1, Len(all)), rest # <<>>
  PROVE  /\ n + 1 \in 1..Len(all) /\ Head(rest) = all[n + 1] /\ Head(rest) \in Writes
         /\ Tail(rest) = SubSeq(all, n + 2, Len(all))
         /\ Len(rest) = Len(all) - n /\ Len(Tail(rest)) = Len(all) - (n + 1)
<1>1. Len(all) \in Nat /\ n \in Nat /\ n <= Len(all)
  BY LenProperties
<1>2. n # Len(all)
  <2> SUFFICES ASSUME n = Len(all) PROVE FALSE
    OBVIOUS
  <2> QED
    BY <1>1, SubSeqEmpty
<1>3. n + 1 \in 1..Len(all) /\ Len(all) \in n + 1..Len(all)
  BY <1>1, <1>2
<1>4. Head(rest) = all[n + 1] /\ Tail(rest) = SubSeq(all, (n + 1) + 1, Len(all))
  BY <1>3, HeadTailOfSubSeq
<1>5. (n + 1) + 1 = n + 2
  BY <1>1
<1>6. all[n + 1] \in Writes
  BY <1>3, ElementOfSeq
<1>7. rest \in Seq(Writes) /\ Len(rest) = Len(all) - n
  <2>1. \A i \in n + 1..Len(all) : all[i] \in Writes
    BY <1>1, ElementOfSeq
  <2>2. n + 1 \in Int /\ Len(all) \in Int
    BY <1>1
  <2>3. /\ rest \in Seq(Writes)
        /\ Len(rest) = IF n + 1 <= Len(all) THEN Len(all) - (n + 1) + 1 ELSE 0
    BY <2>1, <2>2, SubSeqProperties
  <2> QED
    BY <1>1, <1>3, <2>3
<1>8. Len(Tail(rest)) = Len(all) - (n + 1)
  BY <1>1, <1>7, HeadTailProperties
<1> QED
  BY <1>3, <1>4, <1>5, <1>6, <1>7, <1>8

(* Tags that are still to suspend the chain.                               *)
LEMMA ToComeOf ==
  ASSUME NEW s \in Scenarios, NEW c \in Channels, s.chains[c] # <<>>, NEW k \in Nat,
         NEW come, NEW next,
         next = {j \in Pauses(s, c) : j > k},
         come \subseteq {j \in Pauses(s, c) : j >= k}
  PROVE  /\ Cardinality(come) \in Nat /\ Cardinality(next) \in Nat
         /\ Cardinality(next) >= Cardinality(come) - 1
         /\ Cardinality(come) > 0 => k < NumTags(s, c)
<1>1. /\ IsFiniteSet(Pauses(s, c)) /\ Pauses(s, c) \subseteq 1..NumTags(s, c) - 1
      /\ NumTags(s, c) \in Nat
  BY ChainIs
<1>2. come \in SUBSET Pauses(s, c) /\ next \in SUBSET Pauses(s, c)
  OBVIOUS
<1>3. IsFiniteSet(come) /\ IsFiniteSet(next)
  BY <1>1, <1>2, FS_Subset
<1>4. Cardinality(come) \in Nat /\ Cardinality(next) \in Nat
  BY <1>3, FS_CardinalityType
<1>5. Cardinality(next) >= Cardinality(come) - 1
  <2>1. come \ {k} \in SUBSET next
    BY <1>1
  <2>2. Cardinality(come \ {k}) <= Cardinality(next)
    BY <1>3, <2>1, FS_Subset
  <2>3. Cardinality(come \ {k}) = IF k \in come THEN Cardinality(come) - 1 ELSE Cardinality(come)
    BY <1>3, FS_RemoveElement
  <2> QED
    BY <1>4, <2>2, <2>3
<1>6. Cardinality(come) > 0 => k < NumTags(s, c)
  <2> SUFFICES ASSUME Cardinality(come) > 0 PROVE k < NumTags(s, c)
    OBVIOUS
  <2>1. come # {}
    <3>1. Cardinality({}) = 0 /\ ~(0 > 0)
      BY FS_EmptySet
    <3> QED
      BY <3>1
  <2>2. PICK j \in come : TRUE
    BY <2>1
  <2> QED
    BY <1>1, <2>2
<1> QED
  BY <1>4, <1>5, <1>6

(* The program's writes to a channel that sends a chain.                   *)
LEMMA ChainWrites ==
  ASSUME TypeOK, NEW c \in Channels, setup.chains[c] # <<>>, NEW k \in 0..NumTags(setup, c),
         Programmed(c, k), Follows(c, k), CoreWrite(c)
  PROVE  Programmed(c, k)' /\ Follows(c, k)'
<1> DEFINE all == setup.program[c]
           n == Written(c)
           w == Head(program[c])
           ch == channels[c]
           new == channels'[c]
           started == [ch EXCEPT !.STR = TRUE, !.MOD = w.MOD, !.DIR = w.DIR,
                                 !.TIE = w.TIE, !.TTE = w.TTE, !.ASP = 0]
           resumed == [ch EXCEPT !.STR = TRUE]
           chcr == CASE w.op = "start" -> started
                     [] w.op = "resume" -> resumed
                     [] w.op = "stop" -> [ch EXCEPT !.STR = FALSE]
           set == [ch EXCEPT !.qwc = w.qwc, !.madr = w.madr, !.tadr = w.tadr, !.sadr = w.sadr]
<1>1. /\ setup \in Scenarios /\ ch \in Registers /\ channels \in [Channels -> Registers]
      /\ program \in [Channels -> Seq(Writes)]
  BY DEF TypeOK
<1>2. /\ IsChain(setup, c) /\ all \in Seq(Writes) /\ Len(all) \in Nat /\ Direction(c, TO) = TO
      /\ NumTags(setup, c) \in Nat /\ NumTags(setup, c) > 0
  BY <1>1, ChainIs
<1>3. /\ program[c] # <<>> /\ program' = [program EXCEPT ![c] = Tail(program[c])]
      /\ setup' = setup /\ input' = input /\ received' = received /\ fifo' = fifo /\ dmac' = dmac
  BY DEF CoreWrite
<1>4. n \in 0..Len(all) /\ program[c] = SubSeq(all, n + 1, Len(all))
  BY DEF Programmed
<1>5. /\ n + 1 \in 1..Len(all) /\ w = all[n + 1] /\ w \in Writes
      /\ Tail(program[c]) = SubSeq(all, n + 2, Len(all))
      /\ Len(program[c]) = Len(all) - n /\ Len(Tail(program[c])) = Len(all) - (n + 1)
  BY <1>2, <1>3, <1>4, NextWrite
<1>6. program'[c] = Tail(program[c])
  BY <1>1, <1>3
<1>7. Written(c)' = n + 1 /\ Len(program'[c]) = Len(program[c]) - 1
  <2>1. Written(c)' = Len(all) - Len(Tail(program[c]))
    BY <1>3, <1>6 DEF Written
  <2> HIDE DEF n, all
  <2>2. n \in Int /\ Len(all) \in Int
    BY <1>2, <1>4
  <2>3. Len(all) - (Len(all) - (n + 1)) = n + 1 /\ Len(all) - (n + 1) = (Len(all) - n) - 1
    BY <2>2
  <2> QED
    BY <1>5, <1>6, <2>1, <2>3
<1>8. Sent(c)' = Sent(c) /\ (Transferring(c)' <=> Transferring(c))
  BY <1>3 DEF Sent, Transferring
<1>9. /\ input'[c] = <<>> /\ Written(c)' \in 0..Len(all)
      /\ program'[c] = SubSeq(all, Written(c)' + 1, Len(all))
  <2>1. (n + 1) + 1 = n + 2 /\ n + 1 \in 0..Len(all)
    BY <1>2, <1>4, <1>5
  <2> QED
    BY <1>3, <1>5, <1>6, <1>7, <2>1 DEF Programmed
<1>10. n \in Nat
  BY <1>2, <1>4
<1>11. /\ w.op = "regs" => new = set /\ ~ch.STR
       /\ w.op # "regs" => new = WriteChcr(c, ch, chcr)
       /\ w.op \in {"start", "resume"} => ~ch.STR
  BY <1>1 DEF CoreWrite, SetChannel
<1> HIDE DEF n, w, all
<1>12. CASE n = 0
  <2>1. w.op = "regs" /\ w.qwc = 0 /\ w.tadr = setup.chains[c][1]
    BY <1>2, <1>5, <1>12 DEF IsChain, all
  <2>2. k = 0 /\ ch = Blank /\ ~Transferring(c)
    BY <1>12 DEF Programmed, n
  <2>3. /\ new.STR = FALSE /\ new.tag_irq = FALSE /\ new.tag_exit = FALSE
        /\ new.qwc = 0 /\ new.tadr = setup.chains[c][1]
    <3>1. new = set
      BY <1>11, <2>1
    <3>2. /\ set.STR = ch.STR /\ set.tag_irq = ch.tag_irq /\ set.tag_exit = ch.tag_exit
          /\ set.qwc = w.qwc /\ set.tadr = w.tadr
      BY <1>1 DEF Registers
    <3>3. ch.STR = FALSE /\ ch.tag_irq = FALSE /\ ch.tag_exit = FALSE
      BY <2>2 DEF Blank
    <3> HIDE DEF new, set, ch
    <3> QED
      BY <2>1, <3>1, <3>2, <3>3
  <2>4. Programmed(c, k)'
    <3>1. Written(c)' = 1
      BY <1>7, <1>12
    <3> QED
      BY <1>3, <1>8, <1>9, <2>2, <2>3, <3>1 DEF Programmed, all
  <2>5. Follows(c, k)'
    <3>1. Len(Sent(c)) + 4 * 0 = Len(Packets(setup, c)[k]) /\ Begins(Sent(c), Packets(setup, c)[k])
      BY <2>2 DEF Follows, Blank
    <3>2. 0 + 1 = 1 /\ ~(0 > 0)
      OBVIOUS
    <3> QED
      BY <1>2, <1>3, <1>8, <2>2, <2>3, <3>1, <3>2 DEF Follows
  <2> QED
    BY <2>4, <2>5
<1>13. CASE n = 1
  <2>1. w.op = "start" /\ w.MOD = "CHAIN" /\ w.DIR = TO /\ w = all[2]
    BY <1>2, <1>5, <1>13 DEF IsChain, all
  <2>2. k = 0 /\ ~ch.STR /\ ~Transferring(c)
    BY <1>13 DEF Programmed, n
  <2>3. started.DIR = TO /\ started.STR = TRUE
    BY <1>1, <2>1 DEF Registers
  <2>4. new = WriteChcr(c, ch, started)
    BY <1>11, <2>1
  <2> HIDE DEF new
  <2>5. /\ new.STR = TRUE /\ new.MOD = "CHAIN" /\ new.DIR = TO /\ new.TIE = w.TIE /\ new.TTE = w.TTE
        /\ new.tag_irq = FALSE /\ new.tag_exit = FALSE
        /\ new.qwc = ch.qwc /\ new.madr = ch.madr /\ new.tadr = ch.tadr
    BY <1>1, <1>2, <2>1, <2>2, <2>3, <2>4 DEF WriteChcr, Registers
  <2>6. Programmed(c, k)'
    <3>1. ToCome(c, k)' = Pauses(setup, c)
      <4>1. ToCome(c, k)' = {j \in Pauses(setup, c) : j > k \/ (j = k /\ new.tag_irq)}
        BY <1>3 DEF ToCome, new
      <4> QED
        <5>1. Pauses(setup, c) \subseteq 1..NumTags(setup, c) - 1
          BY <1>1, ChainIs
        <5>2. \A j \in Pauses(setup, c) : j > 0
          BY <1>2, <5>1
        <5> QED
          BY <2>2, <4>1, <5>2
    <3>2. Len(all) - 2 <= Cardinality(Pauses(setup, c))
      BY <1>2 DEF IsChain, all
    <3>3. Written(c)' = 2 /\ Len(program'[c]) = Len(all) - 2
      BY <1>2, <1>5, <1>7, <1>13
    <3>4. Len(program'[c]) <= Cardinality(ToCome(c, k)')
      BY <3>1, <3>2, <3>3
    <3>5. ~(Written(c)' <= 1) /\ Written(c)' # 0 /\ Written(c)' # 1
      BY <3>3
    <3>6. new.TIE = all[2].TIE /\ new.TTE = all[2].TTE
      BY <2>1, <2>5
    <3> QED
      BY <1>3, <1>9, <2>5, <3>4, <3>5, <3>6 DEF Programmed, all, new
  <2>7. Follows(c, k)'
    <3>1. /\ Len(Sent(c)) + 4 * ch.qwc = Len(Packets(setup, c)[k])
          /\ Begins(Sent(c), Packets(setup, c)[k])
          /\ ch.tadr = setup.chains[c][k + 1] /\ ~(ch.qwc > 0)
      BY <1>2, <1>13, <2>2 DEF Follows, n
    <3> QED
      BY <1>2, <1>3, <1>8, <2>2, <2>5, <3>1 DEF Follows, new
  <2> QED
    BY <2>6, <2>7
<1>14. CASE n >= 2
  <2>1. w.op = "resume"
    <3>1. n + 1 \in 3..Len(all)
      BY <1>2, <1>5, <1>10, <1>14
    <3> QED
      BY <1>2, <1>5, <3>1 DEF IsChain, all
  <2>2. ~ch.STR /\ new = WriteChcr(c, ch, resumed)
    BY <1>11, <2>1
  <2>3. /\ ch.MOD = "CHAIN" /\ ch.DIR = TO /\ ch.TIE = all[2].TIE /\ ch.TTE = all[2].TTE
        /\ Len(program[c]) <= Cardinality(ToCome(c, k))
    <3>1. n # 0 /\ n # 1
      BY <1>14
    <3> QED
      BY <3>1 DEF Programmed, n, all
  <2>4. resumed.DIR = TO /\ resumed.STR = TRUE
    BY <1>1, <2>3 DEF Registers
  <2> HIDE DEF new
  <2>5. /\ new.STR = TRUE /\ new.MOD = ch.MOD /\ new.DIR = TO /\ new.TIE = ch.TIE /\ new.TTE = ch.TTE
        /\ new.tag_irq = FALSE /\ new.tag_exit = FALSE
        /\ new.qwc = ch.qwc /\ new.madr = ch.madr /\ new.tadr = ch.tadr
    BY <1>1, <1>2, <2>2, <2>3, <2>4 DEF WriteChcr, Registers
  <2>6. k \in Nat
    BY <1>2
  <2> DEFINE come == ToCome(c, k)
             next == ToCome(c, k)'
  <2>7. next = {j \in Pauses(setup, c) : j > k} /\ come \subseteq {j \in Pauses(setup, c) : j >= k}
    <3>1. ToCome(c, k)' = {j \in Pauses(setup, c) : j > k \/ (j = k /\ new.tag_irq)}
      BY <1>3 DEF ToCome, new
    <3>2. next = {j \in Pauses(setup, c) : j > k}
      BY <2>5, <3>1
    <3>3. come \subseteq {j \in Pauses(setup, c) : j >= k}
      BY <1>1, <2>6, ChainIs DEF ToCome
    <3> QED
      BY <3>2, <3>3
  <2> HIDE DEF come, next
  <2>8. /\ Cardinality(come) \in Nat /\ Cardinality(next) \in Nat
        /\ Cardinality(next) >= Cardinality(come) - 1
        /\ Cardinality(come) > 0 => k < NumTags(setup, c)
    BY <1>1, <2>6, <2>7, ToComeOf
  <2>9. Len(program[c]) \in Nat /\ Len(program[c]) > 0
    BY <1>2, <1>5, <1>10
  <2>10. k < NumTags(setup, c)
    BY <2>3, <2>8, <2>9 DEF come
  <2>11. Programmed(c, k)'
    <3>1. Len(program'[c]) <= Cardinality(next)
      BY <1>7, <2>3, <2>8, <2>9 DEF come
    <3>2. Written(c)' > 1
      BY <1>7, <1>10, <1>14
    <3>3. ~(Written(c)' <= 1) /\ Written(c)' # 0 /\ Written(c)' # 1
      BY <1>7, <1>10, <3>2
    <3> QED
      BY <1>3, <1>9, <2>3, <2>5, <3>1, <3>3 DEF Programmed, all, new, next
  <2>12. Follows(c, k)'
    <3>1. Written(c) > 0
      BY <1>10, <1>14 DEF n
    <3>2. k # NumTags(setup, c)
      BY <1>2, <2>6, <2>10
    <3> QED
      BY <1>3, <1>8, <2>5, <3>1, <3>2 DEF Follows, new
  <2> QED
    BY <2>11, <2>12
<1> QED
  BY <1>10, <1>12, <1>13, <1>14

(* What is known of the channel of a chain that the DMAC attends to.       *)
LEMMA ChainRuns ==
  ASSUME TypeOK, NEW c \in Channels, NEW k, Programmed(c, k), Transferring(c)
  PROVE  /\ Written(c) \in Nat /\ Written(c) > 1
         /\ channels[c].MOD = "CHAIN" /\ channels[c].DIR = TO
         /\ channels[c].TIE = setup.program[c][2].TIE
         /\ channels[c].TTE = setup.program[c][2].TTE
         /\ Len(program[c]) <= Cardinality(ToCome(c, k))
<1>1. setup.program[c] \in Seq(Writes)
  BY ScenariosAssumption DEF TypeOK
<1>2. Written(c) \in Nat
  BY <1>1, LenProperties DEF Programmed
<1>3. ~(Written(c) <= 1)
  BY DEF Programmed
<1>4. Written(c) > 1 /\ Written(c) # 0 /\ Written(c) # 1
  BY <1>2, <1>3
<1> QED
  BY <1>2, <1>4 DEF Programmed

LEMMA ChainRunsOn ==
  ASSUME NEW c \in Channels, NEW k, NEW m, Programmed(c, k), Written(c) \in Nat, Written(c) > 1,
         setup' = setup, program'[c] = program[c], input'[c] = input[c],
         channels'[c].MOD = channels[c].MOD, channels'[c].DIR = channels[c].DIR,
         channels'[c].TIE = channels[c].TIE, channels'[c].TTE = channels[c].TTE,
         ToCome(c, m)' = ToCome(c, k)
  PROVE  Programmed(c, m)'
<1>1. Written(c)' = Written(c)
  BY DEF Written
<1>2. ~(Written(c) <= 1) /\ Written(c) # 0 /\ Written(c) # 1
  OBVIOUS
<1> QED
  BY <1>1, <1>2 DEF Programmed

(* The steps that move no data and read no tag.                            *)
LEMMA ChainSkips ==
  ASSUME TypeOK, NEW c \in Channels, setup.chains[c] # <<>>, NEW k \in 0..NumTags(setup, c),
         Programmed(c, k), Follows(c, k),
         \/ Begin(c) \/ Stall(c) \/ Blocked(c) \/ AwaitPeripheral(c) \/ TagBlocked(c)
         \/ Fault(c) \/ Suspend(c)
  PROVE  Programmed(c, k)' /\ Follows(c, k)' /\ memory' = memory
<1> DEFINE ch == channels[c]
           new == channels'[c]
<1>1. /\ setup \in Scenarios /\ ch \in Registers /\ channels \in [Channels -> Registers]
      /\ Direction(c, TO) = TO
  BY ChainIs DEF TypeOK
<1>2. Transferring(c)
  BY DEF Begin, Stall, Blocked, AwaitPeripheral, TagBlocked, WantsTag, Fault, Suspend
<1>3. /\ Written(c) \in Nat /\ Written(c) > 1 /\ ch.DIR = TO
  BY <1>2, ChainRuns
<1>4. /\ setup' = setup /\ program' = program /\ input' = input /\ received' = received
      /\ fifo' = fifo /\ memory' = memory
  BY DEF Begin, Stall, Blocked, AwaitPeripheral, TagBlocked, Fault, Suspend, env, shared
<1>5. /\ new.MOD = ch.MOD /\ new.DIR = ch.DIR /\ new.TIE = ch.TIE /\ new.TTE = ch.TTE
      /\ new.tag_irq = ch.tag_irq /\ new.tag_exit = ch.tag_exit
      /\ new.qwc = ch.qwc /\ new.madr = ch.madr /\ new.tadr = ch.tadr
  <2>1. CASE Begin(c)
    <3>1. new = [ch EXCEPT !.dma_started = TRUE]
      BY <1>1, <2>1 DEF Begin, SetChannel
    <3> QED
      BY <1>1, <3>1 DEF Registers
  <2>2. CASE Suspend(c)
    <3> DEFINE stopped == [ch EXCEPT !.STR = FALSE]
    <3>1. new = WriteChcr(c, ch, stopped)
      BY <1>1, <2>2 DEF Suspend, SetChannel
    <3>2. stopped.DIR = TO /\ stopped.STR = FALSE
      BY <1>1, <1>3 DEF Registers
    <3> HIDE DEF new
    <3> QED
      BY <1>1, <1>3, <3>1, <3>2 DEF WriteChcr, Registers
  <2>3. CASE Stall(c) \/ Blocked(c) \/ AwaitPeripheral(c) \/ TagBlocked(c) \/ Fault(c)
    BY <2>3 DEF Stall, Blocked, AwaitPeripheral, TagBlocked, Fault, shared
  <2> QED
    BY <2>1, <2>2, <2>3
<1>6. Sent(c)' = Sent(c) /\ ToCome(c, k)' = ToCome(c, k) /\ Written(c)' = Written(c)
  BY <1>4, <1>5 DEF Sent, ToCome, Written
<1> HIDE DEF new, ch
<1>7. Programmed(c, k)'
  BY <1>3, <1>4, <1>5, <1>6, ChainRunsOn DEF new, ch
<1>8. Follows(c, k)'
  BY <1>4, <1>5, <1>6 DEF Follows, new, ch
<1> QED
  BY <1>4, <1>7, <1>8

(* A qword of data is sent: the next one.                                  *)
LEMMA ChainMoves ==
  ASSUME TypeOK, NEW c \in Channels, setup.chains[c] # <<>>, NEW k \in 0..NumTags(setup, c),
         Programmed(c, k), Follows(c, k), memory = setup.memory, Move(c)
  PROVE  Programmed(c, k)' /\ Follows(c, k)' /\ memory' = memory
<1> DEFINE ch == channels[c]
           new == channels'[c]
           q == memory[At(ch.madr)]
           all == Packets(setup, c)[k]
           a == DataAt(setup, setup.chains[c][k])
           n == TagAt(setup, setup.chains[c][k]).qwc
<1>1. /\ setup \in Scenarios /\ ch \in Registers /\ channels \in [Channels -> Registers]
      /\ fifo \in [Channels -> Seq(Uword)] /\ fifo[c] \in Seq(Uword) /\ received[c] \in Seq(Uword)
      /\ memory \in [Place -> Uqword]
  BY DEF TypeOK
<1>2. Transferring(c) /\ ch.qwc > 0 /\ ch.qwc \in Nat /\ ch.madr \in Address
  BY <1>1 DEF Move, Registers
<1>3. Written(c) \in Nat /\ Written(c) > 1 /\ ch.DIR = TO
  BY <1>2, ChainRuns
<1>4. c \notin SPRS
  BY <1>1, ChainIs DEF IsChain
<1>5. FROM # TO
  BY DEF FROM, TO
<1>6. fifo' = [fifo EXCEPT ![c] = fifo[c] \o q] /\ memory' = memory
  BY <1>3, <1>4, <1>5 DEF Move
<1>7. setup' = setup /\ program' = program /\ input' = input /\ received' = received
  BY DEF Move, env
<1>8. new = [ch EXCEPT !.madr = Plus(@, 1), !.qwc = @ - 1, !.sadr = @]
  BY <1>1, <1>4 DEF Move, SetChannel
<1>9. /\ new.MOD = ch.MOD /\ new.DIR = ch.DIR /\ new.TIE = ch.TIE /\ new.TTE = ch.TTE
      /\ new.tag_irq = ch.tag_irq /\ new.tag_exit = ch.tag_exit /\ new.tadr = ch.tadr
      /\ new.qwc = ch.qwc - 1 /\ new.madr = Plus(ch.madr, 1)
  BY <1>1, <1>8 DEF Registers
<1>10. q \in Uqword /\ q \in Seq(Uword) /\ Len(q) = 4
  BY <1>1, <1>2, AtType, QwordSeq
<1>11. Sent(c)' = Sent(c) \o q /\ Sent(c) \in Seq(Uword)
  <2>1. Sent(c)' = received[c] \o (fifo[c] \o q)
    BY <1>1, <1>6, <1>7 DEF Sent
  <2> HIDE DEF q
  <2>2. (received[c] \o fifo[c]) \o q = received[c] \o (fifo[c] \o q)
    <3>1. \A s, t, u \in Seq(Uword) : (s \o t) \o u = s \o (t \o u)
      BY ConcatAssociative
    <3> QED
      BY <1>1, <1>10, <3>1, Zenon
  <2>3. Sent(c) = received[c] \o fifo[c] /\ Sent(c) \in Seq(Uword)
    BY <1>1, ConcatProperties DEF Sent
  <2> QED
    BY <2>1, <2>2, <2>3
<1>12. /\ Len(Sent(c)) + 4 * ch.qwc = Len(all) /\ Begins(Sent(c), all)
       /\ k > 0 /\ ch.qwc <= n /\ ch.madr = Plus(a, n - ch.qwc)
  BY <1>2 DEF Follows
<1>13. k \in 1..NumTags(setup, c) /\ NumTags(setup, c) \in Nat
  BY <1>1, <1>12, ChainIs
<1>14. n \in Nat /\ a \in Address /\ all \in Seq(Uword) /\ Len(all) \in Nat
  <2>1. n \in Nat /\ a \in Address
    BY <1>1, <1>13, TagsOf DEF Tags
  <2>2. k \in 0..NumTags(setup, c)
    OBVIOUS
  <2>3. all \in Seq(Uword)
    BY <1>1, <2>2, PacketsAre
  <2> QED
    BY <2>1, <2>3, LenProperties
<1>15. \A i \in 1..4 : all[Len(Sent(c)) + i] = q[i]
  <2> SUFFICES ASSUME NEW i \in 1..4 PROVE all[Len(Sent(c)) + i] = q[i]
    OBVIOUS
  <2>1. ch.qwc \in 1..n
    BY <1>2, <1>12, <1>14
  <2>2. all[(Len(all) - 4 * ch.qwc) + i] = setup.memory[At(Plus(a, n - ch.qwc))][i]
    BY <1>1, <1>13, <2>1, DataOf
  <2>3. Len(all) - 4 * ch.qwc = Len(Sent(c))
    <3>1. Len(Sent(c)) \in Nat
      BY <1>11, LenProperties
    <3> HIDE DEF all, ch
    <3> QED
      BY <1>2, <1>12, <1>14, <3>1
  <2>4. setup.memory[At(Plus(a, n - ch.qwc))] = q
    BY <1>12
  <2> QED
    BY <2>2, <2>3, <2>4, Zenon
<1> HIDE DEF q, all, a, n, new, ch
<1>16. /\ Len(Sent(c)') = Len(Sent(c)) + 4 /\ Begins(Sent(c), all)'
       /\ Len(Sent(c)) \in Nat
  <2>1. Len(Sent(c)) \in Nat /\ Len(Sent(c)) + Len(q) <= Len(all)
    BY <1>2, <1>10, <1>11, <1>12, <1>14, LenProperties
  <2>2. Len(Sent(c) \o q) = Len(Sent(c)) + Len(q) /\ Begins(Sent(c) \o q, all)
    BY <1>10, <1>11, <1>12, <1>14, <1>15, <2>1, BeginsMore
  <2>3. Begins(Sent(c), all)' <=> Begins(Sent(c) \o q, all)
    BY <1>7, <1>11 DEF all
  <2> QED
    BY <1>10, <1>11, <2>1, <2>2, <2>3
<1>17. ToCome(c, k)' = ToCome(c, k) /\ Written(c)' = Written(c)
  BY <1>7, <1>9 DEF ToCome, Written, new, ch
<1>18. Programmed(c, k)'
  BY <1>3, <1>7, <1>9, <1>17, ChainRunsOn DEF new, ch
<1>19. Follows(c, k)'
  <2>1. Len(Sent(c)') + 4 * new.qwc = Len(all)
    <3>1. new.qwc = ch.qwc - 1
      BY <1>9
    <3> QED
      BY <1>2, <1>12, <1>14, <1>16, <3>1
  <2>2. new.qwc <= n /\ new.madr = Plus(a, n - new.qwc)
    <3>1. n - (ch.qwc - 1) = (n - ch.qwc) + 1 /\ ch.qwc - 1 <= n /\ n - ch.qwc \in Nat
      BY <1>2, <1>12, <1>14
    <3>2. Plus(Plus(a, n - ch.qwc), 1) = Plus(a, (n - ch.qwc) + 1)
      <4> DEFINE m == n - ch.qwc
      <4>1. m \in Nat
        BY <3>1
      <4> HIDE DEF m
      <4>2. (a.addr + m) + 1 = a.addr + (m + 1)
        BY <1>14, <4>1 DEF Address
      <4>3. Plus(Plus(a, m), 1) = [a EXCEPT !.addr = (a.addr + m) + 1]
        BY <1>14 DEF Plus, Address
      <4> QED
        BY <4>2, <4>3 DEF Plus, m
    <3> QED
      BY <1>9, <1>12, <3>1, <3>2
  <2>3. (Begins(Sent(c), all))' <=> Begins(Sent(c)', all)
    BY <1>7 DEF all
  <2>4. /\ ch.tag_exit <=> k = NumTags(setup, c)
        /\ k < NumTags(setup, c) /\ Written(c) > 0 => ch.tadr = setup.chains[c][k + 1]
        /\ ch.tag_irq => k > 0 /\ TagAt(setup, setup.chains[c][k]).irq
    BY DEF Follows, ch
  <2> QED
    BY <1>7, <1>9, <1>12, <1>16, <1>17, <2>1, <2>2, <2>3, <2>4 DEF Follows, new, all, a, n
<1> QED
  BY <1>6, <1>18, <1>19

(* The next tag is read: its heading is sent, its data is to be.           *)
LEMMA ChainTags ==
  ASSUME TypeOK, NEW c \in Channels, setup.chains[c] # <<>>, NEW k \in 0..NumTags(setup, c),
         Programmed(c, k), Follows(c, k), memory = setup.memory, ReadSourceTag(c)
  PROVE  /\ k + 1 \in 0..NumTags(setup, c) /\ memory' = memory
         /\ Programmed(c, k + 1)' /\ Follows(c, k + 1)'
<1> DEFINE ch == channels[c]
           new == channels'[c]
           m == k + 1
           a == setup.chains[c][m]
           q == memory[At(ch.tadr)]
           tag == Tag(q[1], q[2])
           read == SourceTag(ch, tag)
           forced == [read EXCEPT !.DIR = Direction(c, @)]
           h == Heading(setup, c, m)
           d == Qwords(setup, DataAt(setup, a), TagAt(setup, a).qwc)
           before == Packets(setup, c)[k]
           after == Packets(setup, c)[m]
<1>1. /\ setup \in Scenarios /\ ch \in Registers /\ channels \in [Channels -> Registers]
      /\ fifo \in [Channels -> Seq(Uword)] /\ fifo[c] \in Seq(Uword) /\ received[c] \in Seq(Uword)
  BY DEF TypeOK
<1>2. /\ Transferring(c) /\ ch.qwc = 0 /\ ch.dma_started /\ ~Finished(ch)
      /\ setup' = setup /\ program' = program /\ input' = input /\ received' = received
      /\ memory' = memory
  BY DEF ReadSourceTag, WantsTag, env
<1>3. /\ Written(c) \in Nat /\ Written(c) > 1 /\ ch.MOD = "CHAIN" /\ ch.DIR = TO
      /\ ch.TIE = setup.program[c][2].TIE /\ ch.TTE = setup.program[c][2].TTE
  BY <1>2, ChainRuns
<1>4. ~ch.tag_exit /\ ~(ch.TIE /\ ch.tag_irq)
  BY <1>2, <1>3 DEF Finished
<1>5. /\ IsChain(setup, c) /\ NumTags(setup, c) \in Nat /\ Direction(c, TO) = TO
      /\ Pauses(setup, c) \subseteq 1..NumTags(setup, c) - 1
  BY <1>1, ChainIs
<1>6. k \in Nat /\ k < NumTags(setup, c) /\ ch.tadr = a
  <2>1. k # NumTags(setup, c)
    BY <1>4 DEF Follows
  <2>2. k \in Nat /\ k < NumTags(setup, c)
    BY <1>5, <2>1
  <2> QED
    BY <1>3, <2>2 DEF Follows
<1>7. m \in 1..NumTags(setup, c) /\ m \in 0..NumTags(setup, c) /\ m - 1 = k
  BY <1>5, <1>6
<1>8. /\ q = setup.memory[At(a)] /\ tag = TagAt(setup, a)
      /\ a \in Address /\ q \in Uqword /\ tag \in Tags /\ DataAt(setup, a) \in Address
  <2>1. q = setup.memory[At(a)] /\ tag = TagAt(setup, a)
    BY <1>6 DEF TagAt
  <2> HIDE DEF q, tag
  <2> QED
    BY <1>1, <1>7, <2>1, TagsOf
<1>9. tag.id \in IF m = NumTags(setup, c) THEN {REFE, END} ELSE {CNT, NEXT, REF, REFS}
  <2> HIDE DEF tag
  <2>1. TagAt(setup, a).id \in IF m = NumTags(setup, c) THEN {REFE, END} ELSE {CNT, NEXT, REF, REFS}
    BY <1>5, <1>7 DEF IsChain
  <2> QED
    BY <1>8, <2>1
<1>10. /\ tag.id \in {CNT, NEXT, REF, REFS, REFE, END}
       /\ tag.id \in {REFE, END} <=> m = NumTags(setup, c)
  BY <1>9 DEF CNT, NEXT, REF, REFS, REFE, END
<1>11. TagDone(c, read, tag) /\ (ch.TTE => fifo' = [fifo EXCEPT ![c] = fifo[c] \o <<q[3], q[4], Zero, Zero>>])
       /\ (~ch.TTE => fifo' = fifo)
  BY DEF ReadSourceTag
<1> HIDE DEF tag
<1>12. /\ read \in Registers /\ read.qwc = tag.qwc
       /\ read.madr = IF tag.id \in {REF, REFS, REFE} THEN ToAddr(tag) ELSE Plus(ch.tadr, 1)
       /\ tag.id \notin {REFE, END} =>
            read.tadr = CASE tag.id = CNT -> Plus(ch.tadr, tag.qwc + 1)
                          [] tag.id = NEXT -> ToAddr(tag)
                          [] OTHER -> Plus(ch.tadr, 1)
       /\ read.tag_exit = (ch.tag_exit \/ tag.id \in {REFE, END})
       /\ read.STR = ch.STR /\ read.MOD = ch.MOD /\ read.DIR = ch.DIR
       /\ read.TIE = ch.TIE /\ read.TTE = ch.TTE
  BY <1>1, <1>8, <1>10, SourceTagRead
<1> HIDE DEF read, ch, m
<1>13. new = [WriteChcr(c, ch, read) EXCEPT !.tag_irq = tag.irq]
  BY <1>1, <1>11 DEF TagDone, SetChannel, ch
<1>14. WriteChcr(c, ch, read) = forced
  BY <1>12 DEF WriteChcr
<1> HIDE DEF new
<1>15. /\ new.MOD = ch.MOD /\ new.DIR = ch.DIR /\ new.TIE = ch.TIE /\ new.TTE = ch.TTE
       /\ new.tag_irq = tag.irq /\ new.tag_exit = read.tag_exit
       /\ new.qwc = read.qwc /\ new.madr = read.madr /\ new.tadr = read.tadr
  <2>1. read.DIR = TO
    BY <1>3, <1>12
  <2>2. new = [forced EXCEPT !.tag_irq = tag.irq]
    BY <1>13, <1>14
  <2>3. new = [read EXCEPT !.DIR = TO, !.tag_irq = tag.irq]
    BY <1>5, <1>12, <2>1, <2>2 DEF Registers
  <2> QED
    BY <1>3, <1>12, <2>3 DEF Registers
<1>16. h \in Seq(Uword) /\ d \in Seq(Uword) /\ Len(d) = 4 * tag.qwc /\ tag.qwc \in Nat
       /\ Packet(setup, c, m) = h \o d
  <2>1. tag.qwc \in Nat
    BY <1>8 DEF Tags
  <2>2. d \in Seq(Uword) /\ Len(d) = 4 * TagAt(setup, a).qwc
    BY <1>1, <1>8, <2>1, QwordsAre
  <2>3. h \in Seq(Uword) /\ Packet(setup, c, m) = h \o d
    BY <1>1, <1>7, HeadingIs DEF m
  <2> HIDE DEF h, d
  <2> QED
    BY <1>8, <2>1, <2>2, <2>3
<1>17. before \in Seq(Uword) /\ after \in Seq(Uword) /\ after = before \o (h \o d)
  BY <1>1, <1>7, <1>16, PacketsAre DEF m
<1>18. Sent(c) = before
  <2>1. Len(Sent(c)) + 4 * 0 = Len(before) /\ Begins(Sent(c), before)
    BY <1>2 DEF Follows, ch
  <2>2. Sent(c) \in Seq(Uword)
    BY <1>1, ConcatProperties DEF Sent
  <2> HIDE DEF before
  <2>3. Len(Sent(c)) = Len(before)
    BY <2>1, <2>2, LenProperties
  <2> QED
    BY <1>17, <2>1, <2>2, <2>3, BeginsWhole
<1>19. Sent(c)' = before \o h
  <2>1. CASE ch.TTE
    <3> DEFINE up == <<q[3], q[4], Zero, Zero>>
    <3>1. h = up
      BY <1>3, <1>8, <2>1 DEF Heading, ch, m
    <3>2. fifo'[c] = fifo[c] \o up
      BY <1>1, <1>11, <2>1
    <3> HIDE DEF up, h
    <3>3. \A s, t, u \in Seq(Uword) : (s \o t) \o u = s \o (t \o u)
      BY ConcatAssociative
    <3>4. (received[c] \o fifo[c]) \o h = received[c] \o (fifo[c] \o h)
      BY <1>1, <1>16, <3>3, Zenon
    <3> QED
      BY <1>2, <1>18, <3>1, <3>2, <3>4 DEF Sent
  <2>2. CASE ~ch.TTE
    <3>1. h = <<>>
      BY <1>3, <2>2 DEF Heading
    <3>2. Sent(c)' = Sent(c)
      BY <1>2, <1>11, <2>2 DEF Sent
    <3> HIDE DEF h, before
    <3>3. before \o h = before
      BY <1>17, <3>1, ConcatEmptySeq
    <3> QED
      BY <1>18, <3>2, <3>3
  <2> QED
    BY <2>1, <2>2
<1> HIDE DEF h, d, before, after
<1>20. /\ Len(Sent(c)') + 4 * tag.qwc = Len(after) /\ Begins(Sent(c)', after)
  <2> DEFINE x == before \o h
  <2>1. x \in Seq(Uword)
    BY <1>16, <1>17, ConcatProperties
  <2>2. x \o d = before \o (h \o d)
    <3>1. \A s, t, u \in Seq(Uword) : (s \o t) \o u = s \o (t \o u)
      BY ConcatAssociative
    <3> QED
      BY <1>16, <1>17, <3>1, Zenon
  <2> HIDE DEF x
  <2>3. Begins(x, x)
    BY <2>1, LenProperties DEF Begins
  <2>4. Len(x \o d) = Len(x) + Len(d) /\ Begins(x, x \o d)
    BY <1>16, <2>1, <2>3, BeginsLonger
  <2> QED
    BY <1>16, <1>17, <1>19, <2>2, <2>4 DEF x
<1>21. ToCome(c, m)' = ToCome(c, k) /\ Written(c)' = Written(c)
  <2>1. ToCome(c, m)' = {j \in Pauses(setup, c) : j > m \/ (j = m /\ tag.irq)}
    BY <1>2, <1>15 DEF ToCome, new
  <2>2. ToCome(c, k) = {j \in Pauses(setup, c) : j > k \/ (j = k /\ ch.tag_irq)}
    BY DEF ToCome, ch
  <2>3. \A j \in Pauses(setup, c) : j \in Nat /\ setup.program[c][2].TIE /\ TagAt(setup, setup.chains[c][j]).irq
    BY <1>5 DEF Pauses
  <2>4. ASSUME NEW j \in Pauses(setup, c)
        PROVE  (j > m \/ (j = m /\ tag.irq)) <=> (j > k \/ (j = k /\ ch.tag_irq))
    <3>1. ~(j = k /\ ch.tag_irq)
      BY <1>3, <1>4, <2>3
    <3>2. j = m => tag.irq
      BY <1>8, <2>3
    <3>3. j > k <=> j > m \/ j = m
      BY <1>6, <2>3 DEF m
    <3> QED
      BY <3>1, <3>2, <3>3
  <2>5. Written(c)' = Written(c)
    BY <1>2 DEF Written
  <2> QED
    BY <2>1, <2>2, <2>4, <2>5
<1>22. Programmed(c, m)'
  BY <1>2, <1>3, <1>15, <1>21, ChainRunsOn DEF new, ch
<1>23. Follows(c, m)'
  <2>1. new.tag_exit <=> m = NumTags(setup, c)
    BY <1>4, <1>10, <1>12, <1>15
  <2>2. m < NumTags(setup, c) => new.tadr = setup.chains[c][m + 1]
    <3> SUFFICES ASSUME m < NumTags(setup, c) PROVE new.tadr = setup.chains[c][m + 1]
      OBVIOUS
    <3>1. m \in 1..NumTags(setup, c) - 1
      BY <1>5, <1>7
    <3>2. setup.chains[c][m + 1] = NextAt(setup, a)
      BY <1>5, <3>1 DEF IsChain
    <3>3. tag.id \notin {REFE, END}
      BY <1>5, <1>7, <1>10, <3>1
    <3>4. NextAt(setup, a) = CASE tag.id = CNT -> Plus(ch.tadr, tag.qwc + 1)
                               [] tag.id = NEXT -> ToAddr(tag)
                               [] OTHER -> Plus(ch.tadr, 1)
      BY <1>6, <1>8 DEF NextAt, ch, m
    <3> QED
      BY <1>12, <1>15, <3>2, <3>3, <3>4
  <2>3. m > 0 /\ (new.tag_irq => TagAt(setup, a).irq)
    BY <1>7, <1>8, <1>15
  <2>4. new.qwc <= TagAt(setup, a).qwc
        /\ new.madr = Plus(DataAt(setup, a), TagAt(setup, a).qwc - new.qwc)
    <3>1. new.madr = DataAt(setup, a)
      BY <1>6, <1>8, <1>12, <1>15 DEF DataAt, ch, m
    <3>2. Plus(DataAt(setup, a), 0) = DataAt(setup, a)
      <4> DEFINE b == DataAt(setup, a)
      <4>1. b \in Address /\ b.addr + 0 = b.addr
        BY <1>8 DEF Address
      <4> HIDE DEF b
      <4> QED
        BY <4>1 DEF Plus, Address, b
    <3>3. TagAt(setup, a).qwc - new.qwc = 0 /\ new.qwc <= TagAt(setup, a).qwc
      BY <1>8, <1>12, <1>15, <1>16
    <3> QED
      BY <3>1, <3>2, <3>3
  <2>5. Len(Sent(c)') + 4 * new.qwc = Len(after) /\ (Begins(Sent(c), Packets(setup, c)[m]))'
    <3>1. (Begins(Sent(c), Packets(setup, c)[m]))' <=> Begins(Sent(c)', after)
      BY <1>2 DEF after, m
    <3> QED
      BY <1>12, <1>15, <1>20, <3>1
  <2> QED
    BY <1>2, <2>1, <2>2, <2>3, <2>4, <2>5 DEF Follows, new, after, m
<1> QED
  BY <1>2, <1>7, <1>22, <1>23 DEF m

(* The peripheral takes a word off the queue.                              *)
LEMMA ChainReceived ==
  ASSUME TypeOK, NEW c \in Channels, PeripheralRead(c)
  PROVE  Sent(c)' = Sent(c)
<1> DEFINE r == received[c]
           f == fifo[c]
<1>1. r \in Seq(Uword) /\ f \in Seq(Uword) /\ f # <<>>
  BY DEF TypeOK, PeripheralRead
<1>2. received'[c] = Append(r, Head(f)) /\ fifo'[c] = Tail(f)
  BY DEF TypeOK, PeripheralRead
<1> HIDE DEF r, f
<1>3. Head(f) \in Uword /\ Tail(f) \in Seq(Uword) /\ <<Head(f)>> \in Seq(Uword)
  BY <1>1, HeadTailProperties
<1>4. Append(r, Head(f)) = r \o <<Head(f)>>
  BY <1>1, <1>3, AppendIsConcat
<1>5. <<Head(f)>> \o Tail(f) = f
  <2>1. Len(f) \in Nat \ {0}
    BY <1>1, EmptySeq
  <2>2. 1 \in 1..Len(f) /\ Len(f) \in 1..Len(f)
    BY <2>1
  <2>3. SubSeq(f, 1, Len(f)) = <<f[1]>> \o SubSeq(f, 1 + 1, Len(f))
    BY <1>1, <2>2, SubSeqRecursiveFirst
  <2>4. SubSeq(f, 1, Len(f)) = f
    BY <1>1, SubSeqFull
  <2>5. Tail(f) = SubSeq(f, 2, Len(f)) /\ Head(f) = f[1]
    BY <1>1, TailIsSubSeq
  <2> QED
    BY <2>3, <2>4, <2>5
<1>6. (r \o <<Head(f)>>) \o Tail(f) = r \o (<<Head(f)>> \o Tail(f))
  <2>1. \A s, t, u \in Seq(Uword) : (s \o t) \o u = s \o (t \o u)
    BY ConcatAssociative
  <2> QED
    BY <1>1, <1>3, <2>1, Zenon
<1> QED
  BY <1>2, <1>4, <1>5, <1>6 DEF Sent, r, f

(* What is known of a channel, whether it sends a chain or not.            *)
Known(c) ==
  IF setup.chains[c] = <<>> THEN Unused(c)
  ELSE \E k \in 0..NumTags(setup, c) : Programmed(c, k) /\ Follows(c, k)

LEMMA KnownStays ==
  ASSUME TypeOK, NEW c \in Channels, Known(c),
         setup' = setup, program'[c] = program[c], input'[c] = input[c],
         channels'[c] = channels[c], Sent(c)' = Sent(c),
         Transferring(c)' => Transferring(c) \/ channels[c].STR
  PROVE  Known(c)'
<1>1. CASE setup.chains[c] = <<>>
  <2>1. Unused(c)
    BY <1>1 DEF Known
  <2>2. ~channels[c].STR
    BY <2>1 DEF Unused, Blank
  <2>3. Unused(c)'
    BY <2>1, <2>2 DEF Unused
  <2> QED
    BY <1>1, <2>3 DEF Known
<1>2. CASE setup.chains[c] # <<>>
  <2>1. PICK k \in 0..NumTags(setup, c) : Programmed(c, k) /\ Follows(c, k)
    BY <1>2 DEF Known
  <2>2. Programmed(c, k)' /\ Follows(c, k)'
    BY <2>1, ChainKept
  <2> QED
    BY <1>2, <2>2 DEF Known
<1> QED
  BY <1>1, <1>2

(* A step of one channel leaves the others alone.                          *)
LEMMA OthersKept ==
  ASSUME TypeOK, NEW c \in Channels, NEW d \in Channels, c # d,
         CoreWrite(d) \/ PeripheralNext(d) \/ Transfer(d)
  PROVE  /\ setup' = setup /\ program'[c] = program[c] /\ input'[c] = input[c]
         /\ channels'[c] = channels[c] /\ Sent(c)' = Sent(c)
         /\ fifo'[c] = fifo[c] /\ received'[c] = received[c]
         /\ Transferring(c)' => Transferring(c)
<1> USE DEF TypeOK
<1>1. CASE CoreWrite(d)
  <2>1. channels'[c] = channels[c]
    BY <1>1 DEF CoreWrite, SetChannel
  <2> QED
    BY <1>1, <2>1 DEF CoreWrite, Sent, Transferring
<1>2. CASE PeripheralNext(d)
  <2>1. fifo'[c] = fifo[c] /\ received'[c] = received[c] /\ input'[c] = input[c]
    BY <1>2 DEF PeripheralNext, PeripheralRead, PeripheralWrite
  <2>2. channels' = channels /\ setup' = setup /\ program' = program /\ dmac' = dmac
    BY <1>2 DEF PeripheralNext, PeripheralRead, PeripheralWrite
  <2> QED
    BY <2>1, <2>2 DEF Sent, Transferring
<1>3. CASE Transfer(d)
  <2>1. Advance(d) \/ dmac' = [at |-> "fault", c |-> d]
    BY <1>3 DEF Transfer, Begin, Stall, Move, Blocked, AwaitPeripheral, Suspend, ReadSourceTag,
                ReadDestTag, TagBlocked, Fault, TagDone
  <2>2. ~Transferring(c)'
    BY <2>1, NoneTransferring
  <2>3. setup' = setup /\ program' = program /\ input' = input /\ received' = received
    BY <1>3 DEF Transfer, Begin, Stall, Move, Blocked, AwaitPeripheral, Suspend, ReadSourceTag,
                ReadDestTag, TagBlocked, Fault, env
  <2>4. channels'[c] = channels[c]
    BY <1>3 DEF Transfer, Begin, Stall, Move, Blocked, AwaitPeripheral, Suspend, ReadSourceTag,
                ReadDestTag, TagBlocked, Fault, TagDone, SetChannel, shared
  <2>5. fifo'[c] = fifo[c]
    BY <1>3 DEF Transfer, Begin, Stall, Move, Blocked, AwaitPeripheral, Suspend, ReadSourceTag,
                ReadDestTag, TagBlocked, Fault, shared
  <2> QED
    BY <2>2, <2>3, <2>4, <2>5 DEF Sent
<1> QED
  BY <1>1, <1>2, <1>3

(* ... and does to its own what is known of it.                            *)
LEMMA ActorKnown ==
  ASSUME TypeOK, NEW d \in Channels, Known(d), memory = setup.memory,
         CoreWrite(d) \/ PeripheralNext(d) \/ Transfer(d)
  PROVE  Known(d)' /\ memory' = memory
<1>1. CASE setup.chains[d] = <<>>
  <2>1. channels[d] = Blank /\ program[d] = <<>> /\ ~Transferring(d)
    BY <1>1 DEF Known, Unused
  <2>2. ~CoreWrite(d)
    BY <2>1 DEF CoreWrite
  <2>3. ~Transfer(d)
    BY <2>1 DEF Transfer, Begin, Stall, Move, Blocked, AwaitPeripheral, Suspend, ReadSourceTag,
                ReadDestTag, TagBlocked, Fault, WantsTag
  <2>4. /\ setup' = setup /\ channels' = channels /\ program' = program /\ dmac' = dmac
        /\ memory' = memory
    BY <2>2, <2>3 DEF PeripheralNext, PeripheralRead, PeripheralWrite
  <2> QED
    BY <1>1, <2>1, <2>4 DEF Known, Unused, Transferring
<1>2. CASE setup.chains[d] # <<>>
  <2>1. PICK k \in 0..NumTags(setup, d) : Programmed(d, k) /\ Follows(d, k)
    BY <1>2 DEF Known
  <2>2. /\ setup' = setup
        /\ \E m \in 0..NumTags(setup, d) : Programmed(d, m)' /\ Follows(d, m)'
        /\ memory' = memory
    <3>1. CASE CoreWrite(d)
      <4>1. setup' = setup /\ memory' = memory
        BY <3>1 DEF CoreWrite
      <4> QED
        BY <1>2, <2>1, <3>1, <4>1, ChainWrites
    <3>2. CASE PeripheralRead(d)
      <4>1. /\ setup' = setup /\ memory' = memory /\ program' = program /\ input' = input
            /\ channels' = channels /\ dmac' = dmac
        BY <3>2 DEF PeripheralRead
      <4>2. Sent(d)' = Sent(d) /\ (Transferring(d)' => Transferring(d))
        BY <3>2, <4>1, ChainReceived DEF Transferring
      <4>3. Programmed(d, k)' /\ Follows(d, k)'
        BY <2>1, <4>1, <4>2, ChainKept
      <4> QED
        BY <4>1, <4>3
    <3>3. CASE PeripheralWrite(d)
      BY <2>1, <3>3 DEF PeripheralWrite, Programmed
    <3>4. CASE Transfer(d)
      <4>1. setup' = setup
        BY <3>4 DEF Transfer, Begin, Stall, Move, Blocked, AwaitPeripheral, Suspend, ReadSourceTag,
                    ReadDestTag, TagBlocked, Fault, env
      <4>2. CASE \/ Begin(d) \/ Stall(d) \/ Blocked(d) \/ AwaitPeripheral(d) \/ TagBlocked(d)
                 \/ Fault(d) \/ Suspend(d)
        BY <1>2, <2>1, <4>1, <4>2, ChainSkips
      <4>3. CASE Move(d)
        BY <1>2, <2>1, <4>1, <4>3, ChainMoves
      <4>4. CASE ReadSourceTag(d)
        BY <1>2, <2>1, <4>1, <4>4, ChainTags
      <4>5. CASE ReadDestTag(d)
        <5>1. Transferring(d) /\ channels[d].DIR = FROM
          BY <4>5 DEF ReadDestTag, WantsTag
        <5>2. channels[d].DIR = TO
          BY <2>1, <5>1, ChainRuns
        <5> QED
          BY <5>1, <5>2 DEF FROM, TO
      <4> QED
        BY <3>4, <4>2, <4>3, <4>4, <4>5 DEF Transfer
    <3> QED
      BY <3>1, <3>2, <3>3, <3>4 DEF PeripheralNext
  <2> QED
    BY <1>2, <2>2 DEF Known
<1> QED
  BY <1>1, <1>2

LEMMA ChainsInit == Init => ChainsKnown
<1> SUFFICES ASSUME Init, Chained(setup)
             PROVE  memory = setup.memory /\ \A c \in Channels : Known(c)
  BY DEF ChainsKnown, Known
<1>1. TypeOK
  BY InitTypes
<1>2. setup \in Scenarios /\ memory = setup.memory
  BY DEF Init
<1>3. ASSUME NEW c \in Channels
      PROVE  Known(c)
  <2>1. /\ channels[c] = Blank /\ program[c] = setup.program[c] /\ input[c] = setup.input[c]
        /\ fifo[c] = <<>> /\ received[c] = <<>> /\ ~Transferring(c)
    BY DEF Init, Transferring, Idle
  <2>2. CASE setup.chains[c] = <<>>
    <3>1. setup.program[c] = <<>>
      BY <1>2, <2>2, ChainsAssumption
    <3> QED
      BY <2>1, <2>2, <3>1 DEF Known, Unused
  <2>3. CASE setup.chains[c] # <<>>
    <3>1. /\ IsChain(setup, c) /\ NumTags(setup, c) \in Nat /\ NumTags(setup, c) > 0
          /\ setup.program[c] \in Seq(Writes) /\ Len(setup.program[c]) \in Nat
      BY <1>2, <2>3, ChainIs
    <3>2. Written(c) = 0
      BY <2>1, <3>1 DEF Written
    <3>3. Programmed(c, 0)
      <4>1. SubSeq(setup.program[c], 1, Len(setup.program[c])) = setup.program[c]
        BY <3>1, SubSeqFull
      <4>2. 0 + 1 = 1 /\ 0 \in 0..Len(setup.program[c]) /\ 0 <= 1
        BY <3>1
      <4>3. input[c] = <<>>
        BY <2>1, <3>1 DEF IsChain
      <4>4. ~channels[c].STR
        BY <2>1 DEF Blank
      <4> QED
        BY <2>1, <3>2, <4>1, <4>2, <4>3, <4>4 DEF Programmed
    <3>4. Follows(c, 0)
      <4>1. Packets(setup, c)[0] = <<>>
        BY <1>2, PacketsAre
      <4>2. Sent(c) = <<>>
        BY <2>1 DEF Sent
      <4>3. channels[c].qwc = 0 /\ ~channels[c].tag_exit /\ ~channels[c].tag_irq
        BY <2>1 DEF Blank
      <4>4. Len(Sent(c)) + 4 * 0 = Len(Packets(setup, c)[0]) /\ Begins(Sent(c), Packets(setup, c)[0])
        BY <4>1, <4>2 DEF Begins
      <4> QED
        BY <3>1, <3>2, <4>3, <4>4 DEF Follows
    <3>5. 0 \in 0..NumTags(setup, c)
      BY <3>1
    <3> QED
      BY <2>3, <3>3, <3>4, <3>5 DEF Known
  <2> QED
    BY <2>2, <2>3
<1> QED
  BY <1>2, <1>3

(* Steps that are not a channel's own.                                     *)
LEMMA Bystanders ==
  ASSUME TypeOK, [Next]_vars, ~\E d \in Channels : CoreWrite(d) \/ PeripheralNext(d) \/ Transfer(d),
         NEW c \in Channels
  PROVE  /\ setup' = setup /\ program' = program /\ input' = input /\ channels' = channels
         /\ fifo' = fifo /\ received' = received /\ memory' = memory /\ stadr' = stadr
         /\ ctrl'.STS = ctrl.STS /\ ctrl'.STD = ctrl.STD
         /\ Transferring(c)' => Transferring(c) \/ channels[c].STR
<1>1. /\ setup' = setup /\ program' = program /\ input' = input /\ channels' = channels
      /\ fifo' = fifo /\ received' = received /\ memory' = memory /\ stadr' = stadr
  BY DEF Next, DmacNext, TimeStep, Check, InterruptCheck, Faulted, CoreNext, WriteStat,
         WriteDmae, vars, env, shared
<1>2. ctrl'.STS = ctrl.STS /\ ctrl'.STD = ctrl.STD
  <2>1. CASE WriteDmae
    BY <2>1 DEF WriteDmae, TypeOK
  <2>2. CASE ~WriteDmae
    BY <2>2 DEF Next, DmacNext, TimeStep, Check, InterruptCheck, Faulted, CoreNext, WriteStat,
                vars, env, shared
  <2> QED
    BY <2>1, <2>2
<1>3. Transferring(c)' => Transferring(c) \/ channels[c].STR
  <2>1. CASE Check
    <3>1. dmac.c \in Channels
      BY <2>1 DEF Check, TypeOK, Idle
    <3>2. CASE Advance(dmac.c)
      BY <3>1, <3>2, NoneTransferring
    <3>3. CASE channels[dmac.c].STR /\ dmac' = [dmac EXCEPT !.at = "transfer"]
      <4>1. dmac \in [at : {"scan", "transfer", "irq", "fault"}, c : Channels]
        BY <2>1 DEF Check, TypeOK, Idle
      <4>2. dmac'.c = dmac.c
        BY <3>3, <4>1
      <4> QED
        BY <3>3, <4>2 DEF Transferring
    <3> QED
      BY <2>1, <3>2, <3>3 DEF Check
  <2>2. CASE TimeStep \/ InterruptCheck
    <3>1. Transferring(c)' => Transferring(c)
      BY <2>2 DEF TimeStep, InterruptCheck, Transferring, Idle
    <3> QED
      BY <3>1
  <2>3. CASE ~Check /\ ~TimeStep /\ ~InterruptCheck
    <3>1. dmac' = dmac
      BY <2>3 DEF Next, DmacNext, Faulted, CoreNext, WriteStat, WriteDmae, vars
    <3> QED
      BY <3>1 DEF Transferring
  <2> QED
    BY <2>1, <2>2, <2>3
<1> QED
  BY <1>1, <1>2, <1>3

LEMMA ChainsStep ==
  ASSUME TypeOK, ChainsKnown, [Next]_vars
  PROVE  ChainsKnown'
<1>1. setup' = setup
  BY DEF Next, DmacNext, TimeStep, Check, InterruptCheck, Transfer, Begin, Stall, Move, Blocked,
         AwaitPeripheral, Suspend, ReadSourceTag, ReadDestTag, TagBlocked, Fault, Faulted, CoreNext,
         CoreWrite, WriteStat, WriteDmae, PeripheralNext, PeripheralRead, PeripheralWrite, vars, env
<1> SUFFICES ASSUME Chained(setup)
             PROVE  memory' = setup.memory /\ \A c \in Channels : Known(c)'
  BY <1>1 DEF ChainsKnown, Known
<1>2. memory = setup.memory /\ \A c \in Channels : Known(c)
  BY DEF ChainsKnown, Known
<1>3. CASE \E d \in Channels : CoreWrite(d) \/ PeripheralNext(d) \/ Transfer(d)
  <2>1. PICK d \in Channels : CoreWrite(d) \/ PeripheralNext(d) \/ Transfer(d)
    BY <1>3
  <2>2. Known(d)' /\ memory' = memory
    BY <1>2, <2>1, ActorKnown
  <2>3. ASSUME NEW c \in Channels, c # d
        PROVE  Known(c)'
    BY <1>2, <2>1, <2>3, OthersKept, KnownStays
  <2> QED
    BY <1>2, <2>2, <2>3
<1>4. CASE ~\E d \in Channels : CoreWrite(d) \/ PeripheralNext(d) \/ Transfer(d)
  <2>1. memory' = memory
    BY <1>4, ChannelsAssumption, Bystanders
  <2>2. ASSUME NEW c \in Channels
        PROVE  Known(c)'
    <3>1. /\ program' = program /\ input' = input /\ channels' = channels /\ fifo' = fifo
          /\ received' = received /\ (Transferring(c)' => Transferring(c) \/ channels[c].STR)
      BY <1>4, Bystanders
    <3>2. Sent(c)' = Sent(c)
      BY <3>1 DEF Sent
    <3> QED
      BY <1>1, <1>2, <3>1, <3>2, KnownStays
  <2> QED
    BY <1>2, <2>1, <2>2
<1> QED
  BY <1>3, <1>4

(* Whatever chains the program has built, in whatever order it, the DMAC   *)
(* and the peripherals act, each channel sends the packets of its chain:   *)
(* all of each, in order, none twice.                                      *)
THEOREM ChainInvariance == Spec => []SendsChain
<1>1. TypeOK /\ ChainsKnown => SendsChain
  <2> SUFFICES ASSUME TypeOK, ChainsKnown, NEW c \in Channels, setup.chains[c] # <<>>
               PROVE  Begins(Sent(c), Packets(setup, c)[NumTags(setup, c)])
    BY DEF SendsChain
  <2>1. Chained(setup)
    BY DEF Chained
  <2>2. PICK k \in 0..NumTags(setup, c) : Follows(c, k)
    BY <2>1 DEF ChainsKnown
  <2>3. Begins(Sent(c), Packets(setup, c)[k])
    BY <2>2 DEF Follows
  <2>4. Sent(c) \in Seq(Uword) /\ setup \in Scenarios
    BY ConcatProperties DEF Sent, TypeOK
  <2> QED
    BY <2>3, <2>4, PacketsBegin
<1> QED
  BY <1>1, EeTypes, ChainsInit, ChainsStep, PTL DEF Spec

(* No interrupt of a chain is flagged before the peripheral has received   *)
(* all that the chain has sent up to the tag that asks for it.             *)
LEMMA SuspendedAfterData ==
  ASSUME TypeOK, ChainsKnown, [Next]_vars,
         NEW c \in Channels, setup.chains[c] # <<>>, c \in stat' \ stat
  PROVE  \E k \in Pauses(setup, c) \cup {NumTags(setup, c)} : received[c] = Packets(setup, c)[k]
<1>1. PICK k \in 0..NumTags(setup, c) : Programmed(c, k) /\ Follows(c, k)
  BY DEF ChainsKnown, Chained
<1>2. c # SIS
  BY ChannelsAssumption DEF SIS
<1>3. Suspend(c)
  <2>1. \E d \in Channels : Stall(d) \/ Suspend(d)
    BY DEF Next, DmacNext, TimeStep, Check, InterruptCheck, Transfer, Begin, Move, Blocked,
           AwaitPeripheral, ReadSourceTag, ReadDestTag, TagBlocked, Fault, Faulted, CoreNext,
           CoreWrite, WriteStat, WriteDmae, PeripheralNext, PeripheralRead, PeripheralWrite,
           vars, shared
  <2> QED
    BY <1>2, <2>1 DEF Stall, Suspend
<1> DEFINE ch == channels[c]
<1>4. Transferring(c) /\ Finished(ch) /\ ~InFlight(c)
  BY <1>3 DEF Suspend
<1>5. ch.MOD = "CHAIN" /\ ch.DIR = TO /\ ch.TIE = setup.program[c][2].TIE
  BY <1>1, <1>4, ChainRuns
<1>6. setup \in Scenarios /\ received[c] \in Seq(Uword)
  BY DEF TypeOK
<1>7. /\ IsChain(setup, c) /\ NumTags(setup, c) \in Nat
  BY <1>6, ChainIs
<1>8. fifo[c] = <<>>
  BY <1>4, <1>5, <1>7 DEF InFlight, IsChain, SPRS
<1>9. Sent(c) = received[c]
  BY <1>6, <1>8, ConcatEmptySeq DEF Sent
<1>10. received[c] = Packets(setup, c)[k]
  <2> DEFINE all == Packets(setup, c)[k]
  <2>1. all \in Seq(Uword)
    BY <1>6, PacketsAre
  <2>2. Len(received[c]) + 4 * 0 = Len(all) /\ Begins(received[c], all)
    BY <1>1, <1>4, <1>9 DEF Follows, Finished
  <2> HIDE DEF all
  <2>3. Len(received[c]) = Len(all)
    BY <1>6, <2>2, LenProperties
  <2>4. received[c] = all
    BY <1>6, <2>1, <2>2, <2>3, BeginsWhole
  <2> QED
    BY <2>4 DEF all
<1>11. k \in Pauses(setup, c) \cup {NumTags(setup, c)}
  <2>1. CASE ch.tag_exit
    BY <1>1, <2>1 DEF Follows
  <2>2. CASE ch.TIE /\ ch.tag_irq
    <3>1. k > 0 /\ TagAt(setup, setup.chains[c][k]).irq
      BY <1>1, <2>2 DEF Follows
    <3>2. k # NumTags(setup, c) => k \in 1..NumTags(setup, c) - 1
      BY <1>7, <3>1
    <3> QED
      BY <1>5, <2>2, <3>1, <3>2 DEF Pauses
  <2> QED
    BY <1>4, <1>5, <2>1, <2>2 DEF Finished
<1> QED
  BY <1>10, <1>11

THEOREM Interrupts == Spec => InterruptAfterData
<1> DEFINE A == \A c \in Channels : setup.chains[c] # <<>> /\ c \in stat' \ stat =>
                  \E k \in Pauses(setup, c) \cup {NumTags(setup, c)} :
                    received[c] = Packets(setup, c)[k]
<1>1. TypeOK /\ ChainsKnown /\ [Next]_vars => [A]_vars
  BY SuspendedAfterData
<1> HIDE DEF A
<1>2. Spec => [][A]_vars
  BY <1>1, EeTypes, ChainsInit, ChainsStep, PTL DEF Spec
<1> QED
  BY <1>2 DEF InterruptAfterData, A
-----------------------------------------------------------------------------
(* Stall control, in normal mode.                                          *)

(* A program that has been followed so far.                                *)
Steadily(c) ==
  /\ Written(c) \in 0..Len(setup.program[c])
  /\ program[c] = SubSeq(setup.program[c], Written(c) + 1, Len(setup.program[c]))
  /\ Written(c) = 0 => channels[c] = Blank /\ ~Transferring(c)

(* The source: MADR and SADR are as far as D_STADR, and what is in its     *)
(* queue is fresh.                                                         *)
Fills(c) ==
  LET regs == setup.program[c][1]
      ch == channels[c]
  IN  /\ Steadily(c)
      /\ Written(c) = 0 => stadr = setup.STADR
      /\ Written(c) <= 1 => ~ch.STR /\ ~Transferring(c)
      /\ Written(c) > 0 => /\ ch.madr.spr = FALSE /\ ch.madr.addr = stadr
                           /\ setup.STADR <= stadr
                           /\ stadr + ch.qwc = setup.STADR + regs.qwc
                           /\ c \in SPRS => ch.sadr = regs.sadr + (stadr - setup.STADR)
      /\ Written(c) > 1 => ch.MOD = "NORMAL" /\ ch.DIR = FROM
      /\ c \notin SPRS => fifo[c] \in Seq(setup.fresh) /\ input[c] \in Seq(setup.fresh)

(* The drain: it reads nothing below the first qword of the source, and is *)
(* started to normal transfers to its peripheral only.                     *)
Drains(c) ==
  LET ch == channels[c]
  IN  /\ Steadily(c) /\ input[c] = <<>>
      /\ Written(c) > 0 => ch.madr.spr = FALSE /\ ch.madr.addr >= setup.STADR
      /\ ch.STR \/ Transferring(c) => ch.MOD = "NORMAL" /\ ch.DIR = TO
      /\ received[c] \in Seq(setup.fresh) /\ fifo[c] \in Seq(setup.fresh)

(* What the source has written; the scratchpad is as it was.               *)
FreshBelow ==
  /\ \A p \in Place : p[1] => memory[p] = setup.memory[p]
  /\ \A a \in setup.STADR..stadr - 1 : memory[<<FALSE, a>>] \in [1..4 -> setup.fresh]

Filled ==
  /\ ctrl.STS = setup.STS /\ ctrl.STD = setup.STD
  /\ Fills(SourceOf(setup)) /\ Drains(DrainOf(setup)) /\ FreshBelow
  /\ \A c \in Channels \ {SourceOf(setup), DrainOf(setup)} : Unused(c)
DrainsKnown == StallsNormal(setup) => Filled

(* The next write of a program that has been followed so far.              *)
LEMMA WriteTaken ==
  ASSUME TypeOK, NEW c \in Channels, CoreWrite(c), Steadily(c),
         NEW w, w = Head(program[c])
  PROVE  /\ Written(c) \in Nat /\ Written(c)' = Written(c) + 1
         /\ Written(c) + 1 \in 1..Len(setup.program[c])
         /\ w = setup.program[c][Written(c) + 1] /\ w \in Writes
         /\ Steadily(c)'
         /\ w.op = "regs" =>
              /\ ~channels[c].STR /\ ~channels'[c].STR
              /\ channels'[c].MOD = channels[c].MOD /\ channels'[c].DIR = channels[c].DIR
              /\ channels'[c].qwc = w.qwc /\ channels'[c].madr = w.madr /\ channels'[c].sadr = w.sadr
         /\ w.op # "regs" =>
              /\ channels'[c].qwc = channels[c].qwc /\ channels'[c].madr = channels[c].madr
              /\ channels'[c].sadr = channels[c].sadr
         /\ w.op = "start" =>
              /\ channels'[c].MOD = w.MOD /\ channels'[c].DIR = Direction(c, w.DIR)
         /\ w.op = "stop" =>
              /\ ~channels'[c].STR /\ channels'[c].MOD = channels[c].MOD
              /\ channels'[c].DIR = Direction(c, channels[c].DIR)
<1> DEFINE all == setup.program[c]
           n == Written(c)
           ch == channels[c]
           new == channels'[c]
           started == [ch EXCEPT !.STR = TRUE, !.MOD = w.MOD, !.DIR = w.DIR,
                                 !.TIE = w.TIE, !.TTE = w.TTE, !.ASP = 0]
           resumed == [ch EXCEPT !.STR = TRUE]
           stopped == [ch EXCEPT !.STR = FALSE]
           chcr == CASE w.op = "start" -> started
                     [] w.op = "resume" -> resumed
                     [] w.op = "stop" -> stopped
           set == [ch EXCEPT !.qwc = w.qwc, !.madr = w.madr, !.tadr = w.tadr, !.sadr = w.sadr]
<1>1. /\ setup \in Scenarios /\ ch \in Registers /\ channels \in [Channels -> Registers]
      /\ program \in [Channels -> Seq(Writes)]
  BY DEF TypeOK
<1>2. all \in Seq(Writes) /\ Len(all) \in Nat
  BY <1>1, ScenariosAssumption, LenProperties
<1>3. /\ program[c] # <<>> /\ program' = [program EXCEPT ![c] = Tail(program[c])]
      /\ setup' = setup /\ dmac' = dmac
  BY DEF CoreWrite
<1>4. n \in 0..Len(all) /\ program[c] = SubSeq(all, n + 1, Len(all))
  BY DEF Steadily
<1>5. /\ n + 1 \in 1..Len(all) /\ w = all[n + 1] /\ w \in Writes
      /\ Tail(program[c]) = SubSeq(all, n + 2, Len(all))
      /\ Len(Tail(program[c])) = Len(all) - (n + 1)
  BY <1>2, <1>3, <1>4, NextWrite
<1>6. program'[c] = Tail(program[c])
  BY <1>1, <1>3
<1>7. n \in Nat /\ Written(c)' = n + 1
  <2>1. Written(c)' = Len(all) - Len(Tail(program[c]))
    BY <1>3, <1>6 DEF Written
  <2> HIDE DEF n, all
  <2>2. n \in Nat /\ Len(all) \in Int
    BY <1>2, <1>4
  <2>3. Len(all) - (Len(all) - (n + 1)) = n + 1
    BY <2>2
  <2> QED
    BY <1>5, <2>1, <2>2, <2>3
<1>8. Steadily(c)'
  <2>1. (n + 1) + 1 = n + 2 /\ n + 1 \in 0..Len(all) /\ n + 1 # 0
    BY <1>2, <1>4, <1>5, <1>7
  <2> QED
    BY <1>3, <1>5, <1>6, <1>7, <2>1 DEF Steadily
<1>9. /\ w.op = "regs" => new = set /\ ~ch.STR
      /\ w.op # "regs" => new = WriteChcr(c, ch, chcr)
  BY <1>1 DEF CoreWrite, SetChannel
<1> HIDE DEF new, ch
<1>10. w.op = "regs" =>
         /\ ~ch.STR /\ ~new.STR /\ new.MOD = ch.MOD /\ new.DIR = ch.DIR
         /\ new.qwc = w.qwc /\ new.madr = w.madr /\ new.sadr = w.sadr
  BY <1>1, <1>9 DEF Registers
<1>11. w.op # "regs" => /\ new.qwc = ch.qwc /\ new.madr = ch.madr /\ new.sadr = ch.sadr
  <2> SUFFICES ASSUME w.op # "regs"
               PROVE  new.qwc = ch.qwc /\ new.madr = ch.madr /\ new.sadr = ch.sadr
    OBVIOUS
  <2>1. w.op \in {"start", "resume", "stop"}
    BY <1>5 DEF Writes
  <2>2. chcr.qwc = ch.qwc /\ chcr.madr = ch.madr /\ chcr.sadr = ch.sadr
        /\ DOMAIN chcr = DOMAIN ch
    BY <1>1, <2>1 DEF Registers
  <2> HIDE DEF chcr
  <2>3. DOMAIN ch = {"STR", "MOD", "DIR", "TIE", "TTE", "ASP", "dma_started", "tag_exit", "tag_stall",
                     "tag_irq", "qwc", "madr", "tadr", "sadr", "asr"}
    BY <1>1 DEF Registers
  <2> QED
    BY <1>9, <2>2, <2>3 DEF WriteChcr
<1>12. w.op = "start" => new.MOD = w.MOD /\ new.DIR = Direction(c, w.DIR)
  <2> SUFFICES ASSUME w.op = "start" PROVE new.MOD = w.MOD /\ new.DIR = Direction(c, w.DIR)
    OBVIOUS
  <2>1. new = WriteChcr(c, ch, started)
    BY <1>9
  <2>2. started.MOD = w.MOD /\ started.DIR = w.DIR /\ {"MOD", "DIR"} \subseteq DOMAIN started
    BY <1>1 DEF Registers
  <2> HIDE DEF started
  <2> QED
    BY <2>1, <2>2 DEF WriteChcr
<1>13. w.op = "stop" => ~new.STR /\ new.MOD = ch.MOD /\ new.DIR = Direction(c, ch.DIR)
  <2> SUFFICES ASSUME w.op = "stop" PROVE ~new.STR /\ new.MOD = ch.MOD /\ new.DIR = Direction(c, ch.DIR)
    OBVIOUS
  <2>1. new = WriteChcr(c, ch, stopped)
    BY <1>9
  <2>2. stopped.MOD = ch.MOD /\ stopped.DIR = ch.DIR /\ stopped.STR = FALSE
        /\ {"MOD", "DIR", "STR"} \subseteq DOMAIN stopped
    BY <1>1 DEF Registers
  <2> HIDE DEF stopped
  <2> QED
    BY <2>1, <2>2 DEF WriteChcr
<1> QED
  BY <1>4, <1>5, <1>7, <1>8, <1>10, <1>11, <1>12, <1>13 DEF ch, new

LEMMA WordsIn ==
  ASSUME NEW S, NEW s \in Seq(S), Len(s) >= 4
  PROVE  Words(s) \in [1..4 -> S] /\ Rest(s) \in Seq(S)
<1>1. Len(s) \in Nat /\ \A i \in 1..Len(s) : s[i] \in S
  BY LenProperties, ElementOfSeq
<1>2. Words(s) \in Seq(S) /\ Len(Words(s)) = 4
  <2>1. \A i \in 1..4 : s[i] \in S
    BY <1>1
  <2> QED
    BY <2>1, SubSeqProperties DEF Words
<1>3. Words(s) \in [1..4 -> S]
  BY <1>2, LenProperties
<1>4. Rest(s) \in Seq(S)
  <2>1. \A i \in 5..Len(s) : s[i] \in S
    BY <1>1
  <2> QED
    BY <1>1, <2>1, SubSeqProperties DEF Rest
<1> QED
  BY <1>3, <1>4

LEMMA QwordIn ==
  ASSUME NEW S, NEW s \in Seq(S), NEW q \in [1..4 -> S]
  PROVE  s \o q \in Seq(S)
<1>1. 4 \in Nat
  OBVIOUS
<1>2. q \in UNION {[1..n -> S] : n \in Nat}
  BY <1>1
<1>3. q \in Seq(S)
  BY <1>2, SeqDef
<1> QED
  BY <1>3, ConcatProperties

(* The source and the drain of a program that stalls.                      *)
LEMMA StallIs ==
  ASSUME NEW s \in Scenarios, StallsNormal(s), NEW c, NEW d, c = SourceOf(s), d = DrainOf(s)
  PROVE  /\ c \in Channels /\ d \in Channels /\ c # d /\ d \notin SPRS
         /\ Direction(c, FROM) = FROM /\ Direction(d, TO) = TO
         /\ s.program[c] \in Seq(Writes) /\ Len(s.program[c]) = 2
         /\ s.program[c][1] \in Writes /\ s.program[c][1].qwc \in Nat
         /\ s.program[c][1].sadr \in Nat /\ s.STADR \in Nat
         /\ s.program[d] \in Seq(Writes)
<1>1. /\ s.STS \in 0..3 /\ s.STD \in 0..3 /\ s.STADR \in Nat
      /\ s.program \in [Channels -> Seq(Writes)]
  BY ScenariosAssumption
<1>2. /\ c \in Channels /\ d \in Channels /\ c # d /\ Len(s.program[c]) = 2
      /\ s.program[c][1].op = "regs"
  BY DEF StallsNormal
<1>3. d \in {0, 1, 2, 6} /\ c \in {0, 5, 8, 3}
  BY <1>1 DEF SourceOf, DrainOf, STS_MAP, STD_MAP
<1>4. s.program[c] \in Seq(Writes) /\ s.program[d] \in Seq(Writes)
  BY <1>1, <1>2
<1>5. s.program[c][1] \in Writes
  BY <1>2, <1>4, ElementOfSeq
<1>6. s.program[c][1].qwc \in Nat /\ s.program[c][1].sadr \in Nat
  BY <1>2, <1>5 DEF Writes
<1> QED
  BY <1>1, <1>2, <1>3, <1>4, <1>5, <1>6 DEF Direction, SPRS

(* What is known of both stays true when nobody touches them.              *)
LEMMA SteadilyKept ==
  ASSUME NEW c, Steadily(c), setup' = setup, program'[c] = program[c], channels'[c] = channels[c],
         Transferring(c)' => Transferring(c) \/ channels[c].STR
  PROVE  Written(c)' = Written(c) /\ Steadily(c)'
<1>1. Written(c)' = Written(c)
  BY DEF Written
<1>2. channels[c] = Blank => ~channels[c].STR
  BY DEF Blank
<1> QED
  BY <1>1, <1>2 DEF Steadily

LEMMA FillsKept ==
  ASSUME NEW c, Fills(c), setup' = setup, stadr' = stadr, program'[c] = program[c],
         channels'[c] = channels[c],
         fifo'[c] = fifo[c], input'[c] = input[c],
         Transferring(c)' => Transferring(c) \/ channels[c].STR
  PROVE  Fills(c)'
<1>1. Written(c)' = Written(c) /\ Steadily(c)'
  BY SteadilyKept DEF Fills
<1> QED
  BY <1>1 DEF Fills

LEMMA DrainsKept ==
  ASSUME NEW c, Drains(c), setup' = setup, program'[c] = program[c],
         channels'[c] = channels[c],
         received'[c] = received[c], fifo'[c] = fifo[c], input'[c] = input[c],
         Transferring(c)' => Transferring(c) \/ channels[c].STR
  PROVE  Drains(c)'
<1>1. Written(c)' = Written(c) /\ Steadily(c)'
  BY SteadilyKept DEF Drains
<1> QED
  BY <1>1 DEF Drains

(* The program's writes to the source and to the drain.                    *)
LEMMA SourceWrites ==
  ASSUME TypeOK, StallsNormal(setup), NEW c, c = SourceOf(setup), Fills(c), CoreWrite(c)
  PROVE  Fills(c)' /\ stadr' = stadr /\ memory' = memory
<1> DEFINE all == setup.program[c]
           n == Written(c)
           w == Head(program[c])
           new == channels'[c]
<1>1. setup \in Scenarios /\ c \in Channels /\ channels[c].qwc \in Nat /\ stadr \in Nat
  BY StallIs DEF TypeOK, Registers
<1>2. /\ Direction(c, FROM) = FROM /\ Len(all) = 2 /\ all[1].qwc \in Nat /\ all[1].sadr \in Nat
      /\ setup.STADR \in Nat
  BY <1>1, StallIs
<1>3. /\ all[1].op = "regs" /\ all[1].madr = Addr(FALSE, setup.STADR)
      /\ all[2].op = "start" /\ all[2].MOD = "NORMAL" /\ all[2].DIR = FROM
  BY DEF StallsNormal
<1>4. /\ stadr' = stadr /\ memory' = memory /\ fifo' = fifo /\ input' = input /\ setup' = setup
      /\ dmac' = dmac
  BY DEF CoreWrite
<1>5. Steadily(c)
  BY DEF Fills
<1>6. /\ n \in Nat /\ Written(c)' = n + 1 /\ n + 1 \in 1..Len(all) /\ w = all[n + 1]
      /\ Steadily(c)'
      /\ w.op = "regs" =>
              /\ ~new.STR
              /\ new.qwc = w.qwc /\ new.madr = w.madr /\ new.sadr = w.sadr
      /\ w.op # "regs" =>
              /\ new.qwc = channels[c].qwc /\ new.madr = channels[c].madr
              /\ new.sadr = channels[c].sadr
      /\ w.op = "start" => new.MOD = w.MOD /\ new.DIR = Direction(c, w.DIR)
  BY <1>1, <1>5, WriteTaken
<1> HIDE DEF w, new
<1>7. Transferring(c)' <=> Transferring(c)
  BY <1>4 DEF Transferring
<1>8. CASE n = 0
  <2>1. w = all[1] /\ Written(c)' = 1
    BY <1>6, <1>8
  <2>2. stadr = setup.STADR /\ ~Transferring(c)
    BY <1>8 DEF Fills, n
  <2>3. /\ new.madr.spr = FALSE /\ new.madr.addr = stadr
        /\ new.qwc = all[1].qwc /\ new.sadr = all[1].sadr /\ ~new.STR
    BY <1>3, <1>6, <2>1, <2>2 DEF Addr
  <2>4. all[1].sadr = all[1].sadr + (stadr - setup.STADR) /\ setup.STADR <= stadr
        /\ stadr + all[1].qwc = setup.STADR + all[1].qwc
    BY <1>2, <2>2
  <2>5. c \notin SPRS => fifo[c] \in Seq(setup.fresh) /\ input[c] \in Seq(setup.fresh)
    BY DEF Fills
  <2>6. 1 <= 1 /\ 1 # 0 /\ ~(1 > 1)
    OBVIOUS
  <2> QED
    BY <1>4, <1>6, <1>7, <2>1, <2>2, <2>3, <2>4, <2>5, <2>6 DEF Fills, all, new
<1>9. CASE n = 1
  <2>1. w = all[2] /\ Written(c)' = 2
    BY <1>6, <1>9
  <2>2. /\ channels[c].madr.spr = FALSE /\ channels[c].madr.addr = stadr /\ setup.STADR <= stadr
        /\ stadr + channels[c].qwc = setup.STADR + all[1].qwc
        /\ c \in SPRS => channels[c].sadr = all[1].sadr + (stadr - setup.STADR)
    <3>1. Written(c) > 0
      BY <1>9
    <3> QED
      BY <3>1 DEF Fills
  <2>3. /\ new.madr = channels[c].madr /\ new.qwc = channels[c].qwc /\ new.sadr = channels[c].sadr
        /\ new.MOD = "NORMAL" /\ new.DIR = FROM
    BY <1>2, <1>3, <1>6, <2>1
  <2>4. c \notin SPRS => fifo[c] \in Seq(setup.fresh) /\ input[c] \in Seq(setup.fresh)
    BY DEF Fills
  <2>5. ~(2 <= 1) /\ 2 # 0
    OBVIOUS
  <2> QED
    BY <1>4, <1>6, <1>7, <2>1, <2>2, <2>3, <2>4, <2>5 DEF Fills, all, new
<1> QED
  BY <1>2, <1>6, <1>8, <1>9

LEMMA DrainWrites ==
  ASSUME TypeOK, StallsNormal(setup), NEW c, c = DrainOf(setup), Drains(c), CoreWrite(c)
  PROVE  Drains(c)' /\ stadr' = stadr /\ memory' = memory
<1> DEFINE all == setup.program[c]
           n == Written(c)
           w == Head(program[c])
           ch == channels[c]
           new == channels'[c]
<1>1. setup \in Scenarios /\ c \in Channels /\ all \in Seq(Writes) /\ Direction(c, TO) = TO
  BY StallIs DEF TypeOK
<1>2. /\ stadr' = stadr /\ memory' = memory /\ fifo' = fifo /\ input' = input /\ setup' = setup
      /\ dmac' = dmac /\ received' = received
  BY DEF CoreWrite
<1>3. Steadily(c)
  BY DEF Drains
<1>4. /\ n \in Nat /\ Written(c)' = n + 1 /\ n + 1 \in 1..Len(all) /\ w = all[n + 1]
      /\ Steadily(c)'
      /\ w.op = "regs" =>
              /\ ~ch.STR /\ ~new.STR
              /\ new.MOD = ch.MOD /\ new.DIR = ch.DIR
              /\ new.qwc = w.qwc /\ new.madr = w.madr /\ new.sadr = w.sadr
      /\ w.op # "regs" => new.madr = ch.madr
      /\ w.op = "start" => new.MOD = w.MOD /\ new.DIR = Direction(c, w.DIR)
      /\ w.op = "stop" => /\ ~new.STR /\ new.MOD = ch.MOD /\ new.DIR = Direction(c, ch.DIR)
  BY <1>1, <1>3, WriteTaken
<1> HIDE DEF w, ch, new
<1>5. Transferring(c)' <=> Transferring(c)
  BY <1>2 DEF Transferring
<1>6. /\ \/ w.op = "regs" /\ w.madr.spr = FALSE /\ w.madr.addr >= setup.STADR
         \/ w.op = "start" /\ w.MOD = "NORMAL" /\ w.DIR = TO
         \/ w.op = "stop"
      /\ n = 0 => w.op = "regs"
  <2>1. n + 1 \in DOMAIN all /\ all # <<>>
    BY <1>1, <1>4, EmptySeq, LenProperties
  <2>2. \/ w.op = "regs" /\ w.madr.spr = FALSE /\ w.madr.addr >= setup.STADR
        \/ w.op = "start" /\ w.MOD = "NORMAL" /\ w.DIR = TO
        \/ w.op = "stop"
    BY <1>4, <2>1 DEF StallsNormal
  <2>3. n = 0 => w = all[1]
    BY <1>4
  <2> QED
    BY <2>1, <2>2, <2>3 DEF StallsNormal
<1>7. new.madr.spr = FALSE /\ new.madr.addr >= setup.STADR
  <2>1. n > 0 => ch.madr.spr = FALSE /\ ch.madr.addr >= setup.STADR
    BY DEF Drains, n, ch
  <2>2. n = 0 \/ n > 0
    BY <1>4
  <2> QED
    BY <1>4, <1>6, <2>1, <2>2
<1>8. new.STR \/ Transferring(c)' => new.MOD = "NORMAL" /\ new.DIR = TO
  <2>1. ch.STR \/ Transferring(c) => ch.MOD = "NORMAL" /\ ch.DIR = TO
    BY DEF Drains, ch
  <2> QED
    BY <1>1, <1>4, <1>5, <1>6, <2>1
<1>9. input[c] = <<>> /\ received[c] \in Seq(setup.fresh) /\ fifo[c] \in Seq(setup.fresh)
  BY DEF Drains
<1> QED
  BY <1>2, <1>4, <1>7, <1>8, <1>9 DEF Drains, new

(* The cycles in which nothing is moved.                                   *)
LEMMA SkipsKeep ==
  ASSUME TypeOK, NEW c \in Channels, Direction(c, channels[c].DIR) = channels[c].DIR,
         \/ Begin(c) \/ Stall(c) \/ Blocked(c) \/ AwaitPeripheral(c) \/ Fault(c) \/ Suspend(c)
  PROVE  /\ setup' = setup /\ program' = program /\ input' = input /\ received' = received
         /\ fifo' = fifo /\ memory' = memory /\ stadr' = stadr
         /\ channels'[c].MOD = channels[c].MOD /\ channels'[c].DIR = channels[c].DIR
         /\ channels'[c].qwc = channels[c].qwc /\ channels'[c].madr = channels[c].madr
         /\ channels'[c].sadr = channels[c].sadr
<1> DEFINE ch == channels[c]
           new == channels'[c]
<1>1. ch \in Registers /\ channels \in [Channels -> Registers]
  BY DEF TypeOK
<1>2. /\ setup' = setup /\ program' = program /\ input' = input /\ received' = received
      /\ fifo' = fifo /\ memory' = memory /\ stadr' = stadr
  BY DEF Begin, Stall, Blocked, AwaitPeripheral, Fault, Suspend, env, shared
<1>3. /\ new.MOD = ch.MOD /\ new.DIR = ch.DIR /\ new.qwc = ch.qwc /\ new.madr = ch.madr
      /\ new.sadr = ch.sadr
  <2>1. CASE Begin(c)
    <3>1. new = [ch EXCEPT !.dma_started = TRUE]
      BY <1>1, <2>1 DEF Begin, SetChannel
    <3> QED
      BY <1>1, <3>1 DEF Registers
  <2>2. CASE Suspend(c)
    <3> DEFINE stopped == [ch EXCEPT !.STR = FALSE]
    <3>1. new = WriteChcr(c, ch, stopped)
      BY <1>1, <2>2 DEF Suspend, SetChannel
    <3>2. stopped.DIR = ch.DIR /\ stopped.STR = FALSE
      BY <1>1 DEF Registers
    <3> HIDE DEF new
    <3> QED
      BY <1>1, <3>1, <3>2 DEF WriteChcr, Registers
  <2>3. CASE Stall(c) \/ Blocked(c) \/ AwaitPeripheral(c) \/ Fault(c)
    BY <2>3 DEF Stall, Blocked, AwaitPeripheral, Fault, shared
  <2> QED
    BY <2>1, <2>2, <2>3
<1> QED
  BY <1>2, <1>3

LEMMA SourceSkips ==
  ASSUME TypeOK, StallsNormal(setup), NEW c, c = SourceOf(setup), Fills(c), Transfer(c), ~Move(c)
  PROVE  Fills(c)' /\ stadr' = stadr /\ memory' = memory
<1>1. c \in Channels /\ Direction(c, FROM) = FROM /\ Len(setup.program[c]) = 2
  BY StallIs DEF TypeOK
<1>2. Transferring(c)
  BY DEF Transfer, Begin, Stall, Move, Blocked, AwaitPeripheral, Suspend, ReadSourceTag,
         ReadDestTag, TagBlocked, WantsTag, Fault
<1>3. Written(c) \in 0..2 /\ ~(Written(c) <= 1)
  BY <1>1, <1>2 DEF Fills, Steadily
<1>4. Written(c) > 1 /\ Written(c) > 0 /\ Written(c) # 0
  BY <1>3
<1>5. channels[c].MOD = "NORMAL" /\ channels[c].DIR = FROM
  BY <1>4 DEF Fills
<1>6. Begin(c) \/ Stall(c) \/ Blocked(c) \/ AwaitPeripheral(c) \/ Fault(c) \/ Suspend(c)
  BY <1>5 DEF Transfer, ReadSourceTag, ReadDestTag, TagBlocked, WantsTag
<1>7. /\ setup' = setup /\ program' = program /\ input' = input
      /\ fifo' = fifo /\ memory' = memory /\ stadr' = stadr
      /\ channels'[c].MOD = channels[c].MOD /\ channels'[c].DIR = channels[c].DIR
      /\ channels'[c].qwc = channels[c].qwc /\ channels'[c].madr = channels[c].madr
      /\ channels'[c].sadr = channels[c].sadr
  BY <1>1, <1>5, <1>6, SkipsKeep
<1>8. Written(c)' = Written(c)
  BY <1>7 DEF Written
<1>9. Steadily(c)'
  BY <1>4, <1>7, <1>8 DEF Fills, Steadily
<1> QED
  BY <1>3, <1>4, <1>7, <1>8, <1>9 DEF Fills

LEMMA DrainRuns ==
  ASSUME TypeOK, StallsNormal(setup), NEW c, c = DrainOf(setup), Drains(c), Transfer(c)
  PROVE  /\ c \in Channels /\ Direction(c, TO) = TO
         /\ channels[c].MOD = "NORMAL" /\ channels[c].DIR = TO
         /\ Written(c) # 0 /\ Written(c) > 0
         /\ ~Transferring(c)'
<1>1. c \in Channels /\ Direction(c, TO) = TO /\ setup.program[c] \in Seq(Writes)
  BY StallIs DEF TypeOK
<1>2. Transferring(c)
  BY DEF Transfer, Begin, Stall, Move, Blocked, AwaitPeripheral, Suspend, ReadSourceTag,
         ReadDestTag, TagBlocked, WantsTag, Fault
<1>3. Written(c) \in Nat /\ Written(c) # 0
  BY <1>1, <1>2, LenProperties DEF Drains, Steadily
<1>4. Advance(c) \/ dmac' = [at |-> "fault", c |-> c]
  BY DEF Transfer, Begin, Stall, Move, Blocked, AwaitPeripheral, Suspend, ReadSourceTag,
         ReadDestTag, TagBlocked, Fault, TagDone
<1>5. ~Transferring(c)'
  BY <1>1, <1>4, NoneTransferring
<1> QED
  BY <1>1, <1>2, <1>3, <1>5 DEF Drains

LEMMA DrainSkips ==
  ASSUME TypeOK, StallsNormal(setup), NEW c, c = DrainOf(setup), Drains(c), Transfer(c), ~Move(c)
  PROVE  Drains(c)' /\ stadr' = stadr /\ memory' = memory
<1>1. /\ c \in Channels /\ Direction(c, TO) = TO
      /\ channels[c].MOD = "NORMAL" /\ channels[c].DIR = TO
      /\ Written(c) # 0 /\ Written(c) > 0
  BY DrainRuns
<1>2. Begin(c) \/ Stall(c) \/ Blocked(c) \/ AwaitPeripheral(c) \/ Fault(c) \/ Suspend(c)
  BY <1>1 DEF Transfer, ReadSourceTag, ReadDestTag, TagBlocked, WantsTag
<1>3. /\ setup' = setup /\ program' = program /\ input' = input /\ received' = received
      /\ fifo' = fifo /\ memory' = memory /\ stadr' = stadr
      /\ channels'[c].MOD = channels[c].MOD /\ channels'[c].DIR = channels[c].DIR
      /\ channels'[c].madr = channels[c].madr
  BY <1>1, <1>2, SkipsKeep
<1>4. Written(c)' = Written(c)
  BY <1>3 DEF Written
<1>5. Steadily(c)'
  BY <1>1, <1>3, <1>4 DEF Drains, Steadily
<1> QED
  BY <1>1, <1>3, <1>4, <1>5 DEF Drains

(* D_STADR stays between the first qword of the source and the last.       *)
LEMMA StadrIn ==
  ASSUME TypeOK, StallsNormal(setup), NEW c, c = SourceOf(setup), Fills(c)
  PROVE  /\ stadr \in Nat /\ setup.STADR \in Nat /\ setup.STADR <= stadr /\ stadr <= MemSize
         /\ Written(c) > 0 /\ channels[c].qwc > 0 =>
              stadr < MemSize /\ stadr - setup.STADR \in 0..setup.program[c][1].qwc - 1
<1>1. setup \in Scenarios /\ stadr \in Nat /\ channels \in [Channels -> Registers]
  BY DEF TypeOK
<1>2. /\ c \in Channels /\ setup.STADR \in Nat /\ setup.program[c][1].qwc \in Nat
      /\ Len(setup.program[c]) = 2
  BY <1>1, StallIs
<1>3. channels[c].qwc \in Nat
  BY <1>1, <1>2 DEF Registers
<1>4. setup.STADR + setup.program[c][1].qwc <= MemSize /\ MemSize \in Nat
  BY SizesAssumption DEF StallsNormal
<1>5. CASE Written(c) = 0
  <2>1. stadr = setup.STADR /\ ~(0 > 0)
    BY <1>5 DEF Fills
  <2> QED
    BY <1>1, <1>2, <1>4, <1>5, <2>1
<1>6. CASE Written(c) > 0
  <2>1. setup.STADR <= stadr /\ stadr + channels[c].qwc = setup.STADR + setup.program[c][1].qwc
    BY <1>6 DEF Fills
  <2> DEFINE q == channels[c].qwc
             n == setup.program[c][1].qwc
             a == setup.STADR
  <2>2. q \in Nat /\ n \in Nat /\ a \in Nat /\ a <= stadr /\ stadr + q = a + n /\ a + n <= MemSize
    BY <1>2, <1>3, <1>4, <2>1
  <2> HIDE DEF q, n, a
  <2>3. stadr <= MemSize /\ (q > 0 => stadr < MemSize /\ stadr - a \in 0..n - 1)
    BY <1>1, <1>4, <2>2
  <2> QED
    BY <1>1, <2>2, <2>3 DEF q, n, a
<1>7. Written(c) \in 0..2
  BY <1>2 DEF Fills, Steadily
<1> QED
  BY <1>5, <1>6, <1>7

LEMMA SourceMoves ==
  ASSUME TypeOK, StallsNormal(setup), NEW c, c = SourceOf(setup), Fills(c), FreshBelow, Move(c),
         ctrl.STS = setup.STS
  PROVE  Fills(c)' /\ FreshBelow'
<1> DEFINE ch == channels[c]
           new == channels'[c]
           regs == setup.program[c][1]
           moved == [ch EXCEPT !.madr = Plus(@, 1), !.qwc = @ - 1,
                               !.sadr = IF c \in SPRS THEN @ + 1 ELSE @]
           spr == <<TRUE, ch.sadr % MemSize>>
           F == setup.fresh
<1>1. /\ setup \in Scenarios /\ c \in Channels /\ ch \in Registers
      /\ channels \in [Channels -> Registers] /\ memory \in [Place -> Uqword]
      /\ setup.memory \in [Place -> Uqword]
      /\ fifo \in [Channels -> Seq(Uword)]
  BY StallIs, ScenariosAssumption DEF TypeOK
<1>2. /\ Len(setup.program[c]) = 2 /\ regs.qwc \in Nat /\ regs.sadr \in Nat
      /\ Direction(c, FROM) = FROM /\ MemSize \in Nat /\ MemSize > 0
  BY <1>1, StallIs, SizesAssumption
<1>3. Transferring(c) /\ ch.qwc > 0 /\ CanMove(c) /\ SetChannel(c, moved)
  BY DEF Move
<1>4. Written(c) \in 0..2 /\ ~(Written(c) <= 1)
  BY <1>2, <1>3 DEF Fills, Steadily
<1>5. Written(c) > 1 /\ Written(c) > 0 /\ Written(c) # 0
  BY <1>4
<1>6. /\ ch.MOD = "NORMAL" /\ ch.DIR = FROM /\ ch.madr.spr = FALSE /\ ch.madr.addr = stadr
      /\ c \in SPRS => ch.sadr = regs.sadr + (stadr - setup.STADR)
      /\ stadr + ch.qwc = setup.STADR + regs.qwc
  BY <1>5 DEF Fills
<1>7. /\ stadr \in Nat /\ setup.STADR \in Nat /\ setup.STADR <= stadr /\ stadr < MemSize
      /\ stadr - setup.STADR \in 0..regs.qwc - 1
  BY <1>3, <1>5, StadrIn
<1>8. At(ch.madr) = <<FALSE, stadr>> /\ <<FALSE, stadr>> \in Place
  <2>1. stadr % MemSize = stadr /\ stadr \in 0..MemSize - 1
    BY <1>2, <1>7
  <2> QED
    BY <1>6, <2>1 DEF At, Place
<1>9. /\ setup' = setup /\ program' = program /\ input' = input /\ received' = received
      /\ ctrl' = ctrl
  BY DEF Move, env
<1>10. stadr' = stadr + 1
  <2>1. SourceStallOn(c) /\ StallTag(c)
    BY <1>6 DEF SourceStallOn, StallTag, SourceOf
  <2> QED
    BY <1>6, <2>1 DEF Move
<1>11. /\ new.MOD = ch.MOD /\ new.DIR = ch.DIR /\ new.qwc = ch.qwc - 1
       /\ new.madr.spr = FALSE /\ new.madr.addr = stadr'
       /\ c \in SPRS => new.sadr = ch.sadr + 1
  <2>1. new = moved
    BY <1>1, <1>3 DEF SetChannel
  <2>2. /\ moved.MOD = ch.MOD /\ moved.DIR = ch.DIR /\ moved.madr = Plus(ch.madr, 1)
        /\ moved.qwc = ch.qwc - 1 /\ (c \in SPRS => moved.sadr = ch.sadr + 1)
    BY <1>1 DEF Registers
  <2>3. Plus(ch.madr, 1).spr = FALSE /\ Plus(ch.madr, 1).addr = stadr + 1
    <3>1. ch.madr \in Address
      BY <1>1 DEF Registers
    <3> QED
      BY <1>6, <3>1 DEF Plus, Address
  <2> HIDE DEF new, moved
  <2> QED
    BY <1>10, <2>1, <2>2, <2>3
<1> HIDE DEF new, ch, regs
<1>12. PICK q \in [1..4 -> F] :
         /\ memory' = [memory EXCEPT ![<<FALSE, stadr>>] = q]
         /\ c \notin SPRS => fifo'[c] \in Seq(F)
  <2>1. CASE c \in SPRS
    <3>1. memory' = [memory EXCEPT ![<<FALSE, stadr>>] = memory[spr]]
      <4>1. <<FALSE, At(ch.madr)[2]>> = <<FALSE, stadr>>
        BY <1>8
      <4>2. FROM # TO
        BY DEF FROM, TO
      <4> QED
        BY <1>6, <2>1, <4>1, <4>2 DEF Move, ch
    <3>2. memory[spr] \in [1..4 -> F]
      <4> DEFINE m == stadr - setup.STADR
      <4>1. m \in 0..regs.qwc - 1 /\ m \in Nat /\ ch.sadr = regs.sadr + m /\ ch.sadr \in Nat
        BY <1>2, <1>6, <1>7, <2>1
      <4>2. Words4Of(setup, regs.sadr + m) \subseteq F
        BY <2>1, <4>1 DEF StallsNormal, regs
      <4>3. spr \in Place
        BY <4>1, PlaceType
      <4>4. memory[spr] = setup.memory[spr]
        BY <4>3 DEF FreshBelow
      <4>5. setup.memory[spr] \in [1..4 -> Uword]
        BY <1>1, <4>3 DEF Uqword
      <4>6. \A i \in 1..4 : setup.memory[spr][i] \in F
        BY <4>1, <4>2 DEF Words4Of
      <4> QED
        BY <4>4, <4>5, <4>6
    <3> QED
      BY <2>1, <3>1, <3>2
  <2>2. CASE c \notin SPRS
    <3>1. /\ memory' = [memory EXCEPT ![<<FALSE, stadr>>] = Words(fifo[c])]
          /\ fifo' = [fifo EXCEPT ![c] = Rest(fifo[c])]
      <4>1. FROM # TO
        BY DEF FROM, TO
      <4> QED
        BY <1>6, <1>8, <2>2, <4>1 DEF Move, ch
    <3>2. fifo[c] \in Seq(F)
      BY <2>2 DEF Fills
    <3>3. Len(fifo[c]) >= 4
      BY <1>1, <1>3, <1>6, <2>2, RoomType DEF ch
    <3>4. Words(fifo[c]) \in [1..4 -> F] /\ Rest(fifo[c]) \in Seq(F)
      BY <3>2, <3>3, WordsIn
    <3> QED
      BY <1>1, <3>1, <3>4
  <2> QED
    BY <2>1, <2>2
<1>13. FreshBelow'
  <2>1. ASSUME NEW p \in Place, p[1]
        PROVE  memory'[p] = setup.memory[p]
    <3>1. p # <<FALSE, stadr>>
      <4> SUFFICES ASSUME p = <<FALSE, stadr>> PROVE FALSE
        OBVIOUS
      <4>1. p[1] = FALSE
        OBVIOUS
      <4> QED
        BY <2>1, <4>1
    <3>2. memory[p] = setup.memory[p]
      BY <2>1 DEF FreshBelow
    <3> QED
      BY <1>1, <1>12, <3>1, <3>2
  <2>2. ASSUME NEW a \in setup.STADR..stadr
        PROVE  memory'[<<FALSE, a>>] \in [1..4 -> F]
    <3>1. CASE a = stadr
      BY <1>1, <1>8, <1>12, <3>1
    <3>2. CASE a # stadr
      <4>1. a \in setup.STADR..stadr - 1 /\ a \in 0..MemSize - 1
        BY <1>2, <1>7, <3>2
      <4>2. memory[<<FALSE, a>>] \in [1..4 -> F]
        BY <4>1 DEF FreshBelow
      <4>3. <<FALSE, a>> \in Place /\ <<FALSE, a>> # <<FALSE, stadr>>
        BY <3>2, <4>1 DEF Place
      <4> QED
        BY <1>1, <1>12, <4>2, <4>3
    <3> QED
      BY <3>1, <3>2
  <2>3. stadr' - 1 = stadr
    BY <1>7, <1>10
  <2> QED
    BY <1>9, <2>1, <2>2, <2>3 DEF FreshBelow
<1>14. Fills(c)'
  <2>1. Written(c)' = Written(c)
    BY <1>9 DEF Written
  <2>2. Steadily(c)'
    BY <1>5, <1>9, <2>1 DEF Fills, Steadily
  <2>3. /\ setup.STADR <= stadr' /\ stadr' + new.qwc = setup.STADR + regs.qwc
        /\ c \in SPRS => new.sadr = regs.sadr + (stadr' - setup.STADR)
    <3>1. ch.qwc \in Nat
      BY <1>1 DEF Registers
    <3>2. stadr' + new.qwc = setup.STADR + regs.qwc
      BY <1>2, <1>6, <1>7, <1>10, <1>11, <3>1
    <3>3. c \in SPRS => new.sadr = regs.sadr + (stadr' - setup.STADR)
      BY <1>2, <1>6, <1>7, <1>10, <1>11
    <3> QED
      BY <1>7, <1>10, <3>2, <3>3
  <2>4. c \notin SPRS => fifo'[c] \in Seq(F) /\ input'[c] \in Seq(F)
    BY <1>9, <1>12 DEF Fills
  <2> QED
    BY <1>4, <1>5, <1>6, <1>9, <1>11, <2>1, <2>2, <2>3, <2>4 DEF Fills, new, regs, ch
<1> QED
  BY <1>13, <1>14

LEMMA DrainMoves ==
  ASSUME TypeOK, StallsNormal(setup), NEW c, c = DrainOf(setup), Drains(c), FreshBelow, Move(c),
         ctrl.STD = setup.STD, setup.STADR \in Nat, stadr <= MemSize
  PROVE  Drains(c)' /\ stadr' = stadr /\ memory' = memory
<1> DEFINE ch == channels[c]
           new == channels'[c]
           moved == [ch EXCEPT !.madr = Plus(@, 1), !.qwc = @ - 1,
                               !.sadr = IF c \in SPRS THEN @ + 1 ELSE @]
           a == ch.madr.addr
           F == setup.fresh
<1>1. /\ setup \in Scenarios /\ c \in Channels /\ c \notin SPRS /\ ch \in Registers /\ stadr \in Nat
      /\ channels \in [Channels -> Registers] /\ fifo \in [Channels -> Seq(Uword)]
  BY StallIs DEF TypeOK
<1>2. MemSize \in Nat /\ MemSize > 0 /\ FROM # TO
  BY SizesAssumption DEF FROM, TO
<1>3. Transfer(c) /\ SetChannel(c, moved) /\ ~DrainStalls(c)
  BY DEF Move, Transfer
<1>4. /\ ch.MOD = "NORMAL" /\ ch.DIR = TO /\ Written(c) # 0 /\ Written(c) > 0 /\ ~Transferring(c)'
  BY <1>3, DrainRuns
<1>5. ch.madr.spr = FALSE /\ a >= setup.STADR /\ a \in Nat
  BY <1>1, <1>4 DEF Drains, Registers, Address
<1>6. a < stadr
  <2>1. DrainStallOn(c) /\ StallTag(c)
    BY <1>4 DEF DrainStallOn, StallTag, DrainOf
  <2>2. ~(a >= stadr)
    BY <1>3, <2>1 DEF DrainStalls, DrainWaiting
  <2> QED
    BY <1>1, <1>5, <2>2
<1>7. At(ch.madr) = <<FALSE, a>>
  <2>1. a % MemSize = a
    <3>1. a \in Nat /\ a < MemSize
      BY <1>1, <1>2, <1>5, <1>6
    <3> HIDE DEF a
    <3> QED
      BY <1>2, <3>1
  <2> QED
    BY <1>5, <2>1 DEF At
<1>8. memory[At(ch.madr)] \in [1..4 -> F]
  <2>1. a \in setup.STADR..stadr - 1
    BY <1>1, <1>5, <1>6
  <2> QED
    BY <1>7, <2>1 DEF FreshBelow
<1>9. /\ setup' = setup /\ program' = program /\ input' = input /\ received' = received
      /\ memory' = memory /\ fifo' = [fifo EXCEPT ![c] = fifo[c] \o memory[At(ch.madr)]]
  BY <1>1, <1>2, <1>4 DEF Move, env
<1>10. fifo'[c] \in Seq(F) /\ received'[c] \in Seq(F)
  <2>1. fifo[c] \in Seq(F) /\ received[c] \in Seq(F)
    BY DEF Drains
  <2>2. fifo[c] \o memory[At(ch.madr)] \in Seq(F)
    BY <1>8, <2>1, QwordIn
  <2> QED
    BY <1>1, <1>9, <2>1, <2>2
<1>11. stadr' = stadr
  <2>1. ~SourceStallOn(c)
    BY <1>2, <1>4 DEF SourceStallOn
  <2> QED
    BY <2>1 DEF Move
<1>12. /\ new.MOD = ch.MOD /\ new.DIR = ch.DIR
       /\ new.madr.spr = FALSE /\ new.madr.addr >= setup.STADR
  <2>1. new = moved
    BY <1>1, <1>3 DEF SetChannel
  <2>2. moved.MOD = ch.MOD /\ moved.DIR = ch.DIR /\ moved.madr = Plus(ch.madr, 1)
    BY <1>1 DEF Registers
  <2>3. Plus(ch.madr, 1).spr = FALSE /\ Plus(ch.madr, 1).addr = a + 1
    <3>1. ch.madr \in Address
      BY <1>1 DEF Registers
    <3> QED
      BY <1>5, <3>1 DEF Plus, Address
  <2> HIDE DEF new, moved
  <2> QED
    BY <1>5, <2>1, <2>2, <2>3
<1>13. Written(c)' = Written(c)
  BY <1>9 DEF Written
<1>14. Steadily(c)' /\ input'[c] = <<>>
  BY <1>4, <1>9, <1>13 DEF Drains, Steadily
<1> QED
  BY <1>4, <1>9, <1>10, <1>11, <1>12, <1>13, <1>14 DEF Drains

(* The peripherals.                                                        *)
LEMMA SourceFed ==
  ASSUME TypeOK, NEW c \in Channels, Fills(c), PeripheralNext(c)
  PROVE  Fills(c)' /\ stadr' = stadr /\ memory' = memory
<1>1. /\ setup' = setup /\ stadr' = stadr /\ program' = program /\ channels' = channels
      /\ dmac' = dmac /\ memory' = memory
  BY DEF PeripheralNext, PeripheralRead, PeripheralWrite
<1>2. Written(c)' = Written(c) /\ (Transferring(c)' <=> Transferring(c))
  BY <1>1 DEF Written, Transferring
<1>3. Steadily(c)'
  BY <1>1, <1>2 DEF Fills, Steadily
<1>4. c \notin SPRS => fifo'[c] \in Seq(setup.fresh) /\ input'[c] \in Seq(setup.fresh)
  <2> SUFFICES ASSUME c \notin SPRS
               PROVE  fifo'[c] \in Seq(setup.fresh) /\ input'[c] \in Seq(setup.fresh)
    OBVIOUS
  <2> DEFINE f == fifo[c]
             i == input[c]
             F == setup.fresh
  <2>1. f \in Seq(F) /\ i \in Seq(F)
    BY DEF Fills
  <2>2. CASE PeripheralRead(c)
    <3>1. f # <<>> /\ fifo'[c] = Tail(f) /\ input'[c] = i
      BY <2>2 DEF PeripheralRead, TypeOK
    <3> HIDE DEF f, i
    <3>2. Tail(f) \in Seq(F)
      BY <2>1, <3>1
    <3> QED
      BY <2>1, <3>1, <3>2
  <2>3. CASE PeripheralWrite(c)
    <3>1. i # <<>> /\ fifo'[c] = Append(f, Head(i)) /\ input'[c] = Tail(i)
      BY <2>3 DEF PeripheralWrite, TypeOK
    <3> HIDE DEF f, i
    <3>2. Tail(i) \in Seq(F) /\ Append(f, Head(i)) \in Seq(F)
      BY <2>1, <3>1
    <3> QED
      BY <3>1, <3>2
  <2> QED
    BY <2>2, <2>3 DEF PeripheralNext
<1> QED
  BY <1>1, <1>2, <1>3, <1>4 DEF Fills

LEMMA DrainRead ==
  ASSUME TypeOK, NEW c \in Channels, Drains(c), PeripheralNext(c)
  PROVE  Drains(c)' /\ stadr' = stadr /\ memory' = memory
<1>1. PeripheralRead(c)
  BY DEF PeripheralNext, PeripheralWrite, Drains
<1>2. /\ setup' = setup /\ stadr' = stadr /\ program' = program /\ channels' = channels
      /\ dmac' = dmac /\ memory' = memory /\ input' = input
  BY <1>1 DEF PeripheralRead
<1>3. Written(c)' = Written(c) /\ (Transferring(c)' <=> Transferring(c))
  BY <1>2 DEF Written, Transferring
<1>4. Steadily(c)'
  BY <1>2, <1>3 DEF Drains, Steadily
<1>5. fifo'[c] \in Seq(setup.fresh) /\ received'[c] \in Seq(setup.fresh)
  <2> DEFINE f == fifo[c]
             r == received[c]
             F == setup.fresh
  <2>1. f \in Seq(F) /\ r \in Seq(F)
    BY DEF Drains
  <2>2. f # <<>> /\ fifo'[c] = Tail(f) /\ received'[c] = Append(r, Head(f))
    BY <1>1 DEF PeripheralRead, TypeOK
  <2> HIDE DEF f, r
  <2>3. Tail(f) \in Seq(F) /\ Append(r, Head(f)) \in Seq(F)
    BY <2>1, <2>2
  <2> QED
    BY <2>2, <2>3
<1> QED
  BY <1>2, <1>3, <1>4, <1>5 DEF Drains

LEMMA FilledInit == Init => DrainsKnown
<1> SUFFICES ASSUME Init, StallsNormal(setup)
             PROVE  Filled
  BY DEF DrainsKnown
<1> DEFINE src == SourceOf(setup)
           drn == DrainOf(setup)
<1>1. /\ setup \in Scenarios /\ memory = setup.memory /\ stadr = setup.STADR
      /\ ctrl.STS = setup.STS /\ ctrl.STD = setup.STD
  BY DEF Init
<1>2. ASSUME NEW c \in Channels
      PROVE  /\ channels[c] = Blank /\ program[c] = setup.program[c] /\ input[c] = setup.input[c]
             /\ fifo[c] = <<>> /\ received[c] = <<>> /\ ~Transferring(c) /\ ~channels[c].STR
             /\ Written(c) = 0 /\ Steadily(c)
  <2>1. /\ channels[c] = Blank /\ program[c] = setup.program[c] /\ input[c] = setup.input[c]
        /\ fifo[c] = <<>> /\ received[c] = <<>> /\ ~Transferring(c)
    BY DEF Init, Transferring, Idle
  <2>2. setup.program[c] \in Seq(Writes) /\ Len(setup.program[c]) \in Nat
    BY <1>1, ScenariosAssumption, LenProperties
  <2>3. Written(c) = 0
    BY <2>1, <2>2 DEF Written
  <2>4. SubSeq(setup.program[c], 1, Len(setup.program[c])) = setup.program[c]
    BY <2>2, SubSeqFull
  <2>5. 0 + 1 = 1 /\ 0 \in 0..Len(setup.program[c])
    BY <2>2
  <2>6. Steadily(c)
    BY <2>1, <2>3, <2>4, <2>5 DEF Steadily
  <2> QED
    BY <2>1, <2>3, <2>6 DEF Blank
<1>3. src \in Channels /\ drn \in Channels /\ setup.STADR \in Nat
  BY <1>1, StallIs
<1> HIDE DEF src, drn
<1>4. 0 <= 1 /\ ~(0 > 0) /\ ~(0 > 1) /\ <<>> \in Seq(setup.fresh)
  BY EmptySeq
<1>5. Fills(src)
  <2>1. src \notin SPRS => input[src] \in Seq(setup.fresh)
    <3> SUFFICES ASSUME src \notin SPRS PROVE input[src] \in Seq(setup.fresh)
      OBVIOUS
    <3>1. setup.input[src] \in Seq(Uword)
      BY <1>1, <1>3, ScenariosAssumption
    <3>2. \A i \in DOMAIN setup.input[src] : setup.input[src][i] \in setup.fresh
      BY DEF StallsNormal, src
    <3>3. setup.input[src] \in Seq(setup.fresh)
      <4> DEFINE s == setup.input[src]
      <4>1. Len(s) \in Nat /\ s \in [1..Len(s) -> Uword] /\ DOMAIN s = 1..Len(s)
        BY <3>1, LenProperties
      <4> HIDE DEF s
      <4>2. s \in [1..Len(s) -> setup.fresh]
        BY <3>2, <4>1 DEF s
      <4>3. s \in UNION {[1..n -> setup.fresh] : n \in Nat}
        BY <4>1, <4>2
      <4>4. s \in Seq(setup.fresh)
        BY <4>3, SeqDef
      <4> QED
        BY <4>4 DEF s
    <3> QED
      BY <1>2, <1>3, <3>3
  <2> QED
    BY <1>1, <1>2, <1>3, <1>4, <2>1 DEF Fills
<1>6. Drains(drn)
  <2>1. setup.input[drn] = <<>>
    BY DEF StallsNormal, drn
  <2> QED
    BY <1>1, <1>2, <1>3, <1>4, <2>1 DEF Drains
<1>7. FreshBelow
  <2>1. setup.STADR..stadr - 1 = {}
    BY <1>1, <1>3
  <2> QED
    BY <1>1, <2>1 DEF FreshBelow
<1>8. \A c \in Channels \ {src, drn} : Unused(c)
  <2>1. \A c \in Channels \ {src, drn} : setup.program[c] = <<>>
    BY DEF StallsNormal, src, drn
  <2> QED
    BY <1>2, <2>1 DEF Unused
<1> QED
  BY <1>1, <1>5, <1>6, <1>7, <1>8 DEF Filled, src, drn

(* A step of a channel that has no program.                                *)
LEMMA UnusedStep ==
  ASSUME TypeOK, NEW c \in Channels, Unused(c), CoreWrite(c) \/ PeripheralNext(c) \/ Transfer(c)
  PROVE  Unused(c)' /\ stadr' = stadr /\ memory' = memory
<1>1. channels[c] = Blank /\ program[c] = <<>> /\ ~Transferring(c)
  BY DEF Unused
<1>2. PeripheralNext(c)
  BY <1>1 DEF CoreWrite, Transfer, Begin, Stall, Move, Blocked, AwaitPeripheral, Suspend,
              ReadSourceTag, ReadDestTag, TagBlocked, Fault, WantsTag
<1>3. /\ channels' = channels /\ program' = program /\ dmac' = dmac
      /\ stadr' = stadr /\ memory' = memory
  BY <1>2 DEF PeripheralNext, PeripheralRead, PeripheralWrite
<1> QED
  BY <1>1, <1>3 DEF Unused, Transferring

LEMMA FilledStep ==
  ASSUME TypeOK, DrainsKnown, [Next]_vars
  PROVE  DrainsKnown'
<1>1. setup' = setup
  BY DEF Next, DmacNext, TimeStep, Check, InterruptCheck, Transfer, Begin, Stall, Move, Blocked,
         AwaitPeripheral, Suspend, ReadSourceTag, ReadDestTag, TagBlocked, Fault, Faulted, CoreNext,
         CoreWrite, WriteStat, WriteDmae, PeripheralNext, PeripheralRead, PeripheralWrite, vars, env
<1> SUFFICES ASSUME StallsNormal(setup)
             PROVE  Filled'
  BY <1>1 DEF DrainsKnown
<1>0. PICK src, drn : src = SourceOf(setup) /\ drn = DrainOf(setup)
  OBVIOUS
<1> DEFINE Actor(d) == CoreWrite(d) \/ PeripheralNext(d) \/ Transfer(d)
<1>2. /\ ctrl.STS = setup.STS /\ ctrl.STD = setup.STD
      /\ Fills(src) /\ Drains(drn) /\ FreshBelow
      /\ \A c \in Channels \ {src, drn} : Unused(c)
  BY <1>0 DEF DrainsKnown, Filled
<1>3. src \in Channels /\ drn \in Channels /\ src # drn
  BY <1>0, StallIs DEF TypeOK
<1>4. stadr \in Nat /\ setup.STADR \in Nat /\ stadr <= MemSize
  BY <1>0, <1>2, StadrIn
<1>5. SourceOf(setup)' = src /\ DrainOf(setup)' = drn
  BY <1>0, <1>1 DEF SourceOf, DrainOf
<1>6. stadr' = stadr /\ memory' = memory => FreshBelow'
  BY <1>1, <1>2 DEF FreshBelow
<1>7. ASSUME NEW d \in Channels, Actor(d)
      PROVE  Filled'
  <2>1. ctrl' = ctrl
    BY <1>7 DEF CoreWrite, PeripheralNext, PeripheralRead, PeripheralWrite, Transfer, Begin, Stall,
                Move, Blocked, AwaitPeripheral, Suspend, ReadSourceTag, ReadDestTag, TagBlocked,
                Fault, shared
  <2>2. ASSUME NEW c \in Channels, c # d
        PROVE  /\ program'[c] = program[c] /\ input'[c] = input[c] /\ channels'[c] = channels[c]
               /\ fifo'[c] = fifo[c] /\ received'[c] = received[c]
               /\ Transferring(c)' => Transferring(c)
    BY <1>7, <2>2, OthersKept
  <2>3. ASSUME NEW c \in Channels \ {src, drn}, c # d
        PROVE  Unused(c)'
    BY <1>2, <2>2, <2>3 DEF Unused
  <2>4. d # drn => Drains(drn)'
    BY <1>1, <1>2, <1>3, <2>2, DrainsKept
  <2>5. d # src /\ stadr' = stadr => Fills(src)'
    BY <1>1, <1>2, <1>3, <2>2, FillsKept
  <2>6. CASE d = src
    <3>1. Fills(src)' /\ FreshBelow'
      <4>1. CASE CoreWrite(d)
        BY <1>0, <1>2, <1>6, <2>6, <4>1, SourceWrites
      <4>2. CASE PeripheralNext(d)
        BY <1>2, <1>3, <1>6, <2>6, <4>2, SourceFed
      <4>3. CASE Transfer(d) /\ Move(d)
        BY <1>0, <1>2, <2>6, <4>3, SourceMoves
      <4>4. CASE Transfer(d) /\ ~Move(d)
        BY <1>0, <1>2, <1>6, <2>6, <4>4, SourceSkips
      <4> QED
        BY <1>7, <4>1, <4>2, <4>3, <4>4
    <3> QED
      BY <1>1, <1>2, <1>3, <1>5, <2>1, <2>3, <2>4, <2>6, <3>1 DEF Filled
  <2>7. CASE d = drn
    <3>1. Drains(drn)' /\ stadr' = stadr /\ memory' = memory
      <4>1. CASE CoreWrite(d)
        BY <1>0, <1>2, <2>7, <4>1, DrainWrites
      <4>2. CASE PeripheralNext(d)
        BY <1>2, <1>3, <2>7, <4>2, DrainRead
      <4>3. CASE Transfer(d) /\ Move(d)
        BY <1>0, <1>2, <1>4, <2>7, <4>3, DrainMoves
      <4>4. CASE Transfer(d) /\ ~Move(d)
        BY <1>0, <1>2, <2>7, <4>4, DrainSkips
      <4> QED
        BY <1>7, <4>1, <4>2, <4>3, <4>4
    <3> QED
      BY <1>1, <1>2, <1>3, <1>5, <1>6, <2>1, <2>3, <2>5, <2>7, <3>1 DEF Filled
  <2>8. CASE d # src /\ d # drn
    <3>1. Unused(d)' /\ stadr' = stadr /\ memory' = memory
      BY <1>2, <1>7, <2>8, UnusedStep
    <3> QED
      BY <1>1, <1>2, <1>3, <1>5, <1>6, <2>1, <2>3, <2>4, <2>5, <2>8, <3>1 DEF Filled
  <2> QED
    BY <2>6, <2>7, <2>8
<1>8. CASE ~\E d \in Channels : Actor(d)
  <2>1. ASSUME NEW c \in Channels
        PROVE  /\ program' = program /\ input' = input /\ channels' = channels
               /\ fifo' = fifo /\ received' = received /\ memory' = memory /\ stadr' = stadr
               /\ ctrl'.STS = ctrl.STS /\ ctrl'.STD = ctrl.STD
               /\ Transferring(c)' => Transferring(c) \/ channels[c].STR
    BY <1>8, Bystanders
  <2>2. Fills(src)' /\ Drains(drn)' /\ FreshBelow'
    BY <1>1, <1>2, <1>3, <1>6, <2>1, FillsKept, DrainsKept
  <2>3. ASSUME NEW c \in Channels \ {src, drn}
        PROVE  Unused(c)'
    <3>1. channels[c] = Blank /\ program[c] = <<>> /\ ~Transferring(c)
      BY <1>2 DEF Unused
    <3>2. ~channels[c].STR
      BY <3>1 DEF Blank
    <3> QED
      BY <2>1, <3>1, <3>2 DEF Unused
  <2> QED
    BY <1>1, <1>2, <1>3, <1>5, <2>1, <2>2, <2>3 DEF Filled
<1> QED
  BY <1>7, <1>8

(* For any source and any drain of D_CTRL, any lengths and addresses, and  *)
(* however often the program stops the drain, sets it up and starts it     *)
(* again: as long as both transfer in normal mode, the drain sends only    *)
(* what the source has written (CEeDmac.cpp:258, 294).                     *)
THEOREM DrainInvariance == Spec => [](StallsNormal(setup) => NoStaleData)
<1>1. TypeOK /\ DrainsKnown => (StallsNormal(setup) => NoStaleData)
  <2> SUFFICES ASSUME TypeOK, DrainsKnown, StallsNormal(setup)
               PROVE  \A i \in DOMAIN Sent(DrainOf(setup)) : Sent(DrainOf(setup))[i] \in setup.fresh
    BY DEF NoStaleData
  <2> DEFINE all == Sent(DrainOf(setup))
             F == setup.fresh
  <2>1. received[DrainOf(setup)] \in Seq(F) /\ fifo[DrainOf(setup)] \in Seq(F)
    BY DEF DrainsKnown, Filled, Drains
  <2>2. all \in Seq(F)
    BY <2>1, ConcatProperties DEF Sent
  <2> HIDE DEF all, F
  <2>3. \A i \in DOMAIN all : all[i] \in F
    BY <2>2, LenProperties
  <2> QED
    BY <2>3 DEF all, F
<1> QED
  BY <1>1, EeTypes, FilledInit, FilledStep, PTL DEF Spec
-----------------------------------------------------------------------------
(* The IOP's side, in the same order.                                      *)
IopPlaces == {Iop!Idle} \cup [at : {"scan", "transfer", "fault"}, c : IopChannels]

LEMMA IopWords ==
  Iop!FROM = FROM /\ Iop!TO = TO /\ Iop!Zero = Zero /\ Iop!Uword = Uword /\ FROM # TO
BY DEF Iop!FROM, FROM, Iop!TO, TO, Iop!Zero, Zero, Iop!Uword, Uword

LEMMA IopConstants ==
  /\ IopChannels \subseteq Nat /\ IopChannels # {} /\ FifoCap \in Nat
  /\ IopMemSize \in Nat /\ IopMemSize > 0 /\ FieldSize \in Nat /\ FieldSize > 0
  /\ TagLimit \in Nat /\ TagLimit > 0
<1>1. IopChannels \subseteq 0..12 /\ IopChannels # {} /\ FifoCap \in Nat
  BY IopAssumption DEF Iop!ConstantsTyped
<1>2. {IopMemSize, FieldSize, TagLimit} \subseteq Nat \ {0}
  BY IopAssumption DEF Iop!ConstantsTyped
<1>3. /\ IopMemSize \in Nat /\ IopMemSize > 0 /\ FieldSize \in Nat /\ FieldSize > 0
      /\ TagLimit \in Nat /\ TagLimit > 0
  BY <1>2
<1>4. IopChannels \subseteq Nat
  BY <1>1
<1> QED
  BY <1>1, <1>3, <1>4

LEMMA IopFirstOf ==
  ASSUME NEW S, S \subseteq Nat, S # {}
  PROVE  Iop!First(S) \in S
<1>1. Iop!First(S) = First(S)
  BY DEF Iop!First, First
<1> QED
  BY <1>1, FirstOf

LEMMA IopAdvanceType ==
  ASSUME NEW c \in IopChannels, Iop!Advance(c)
  PROVE  iop_dmac' \in IopPlaces
<1>1. Iop!After(c) # {} => Iop!First(Iop!After(c)) \in IopChannels
  <2>1. Iop!After(c) \subseteq IopChannels
    BY DEF Iop!After
  <2> QED
    BY <2>1, IopConstants, IopFirstOf
<1> QED
  BY <1>1 DEF Iop!Advance, IopPlaces

LEMMA IopRegisters ==
  ASSUME NEW ch \in Iop!Registers
  PROVE  /\ [ch EXCEPT !.TD = FROM] \in Iop!Registers
         /\ [ch EXCEPT !.TD = TO] \in Iop!Registers
         /\ \A n \in 0..3 : [ch EXCEPT !.TD = FROM, !.SM = n] \in Iop!Registers
         /\ [ch EXCEPT !.dma_started = FALSE, !.dma_tag = Iop!NoTag] \in Iop!Registers
         /\ \A n \in Nat :
              [ch EXCEPT !.dma_started = TRUE, !.transfer_length = n] \in Iop!Registers
         /\ [ch EXCEPT !.START = FALSE] \in Iop!Registers
         /\ [ch EXCEPT !.START = TRUE] \in Iop!Registers
         /\ \A m \in Int, n \in Nat :
              [ch EXCEPT !.madr = m, !.transfer_length = n] \in Iop!Registers
<1>1. Iop!NoTag \in [addr : Nat, irq : BOOLEAN, ert : BOOLEAN, length : Nat]
  BY DEF Iop!NoTag
<1> QED
  BY <1>1, IopWords DEF Iop!Registers

LEMMA IopHardwiredType ==
  ASSUME NEW c \in IopChannels, NEW new \in Iop!Registers
  PROVE  Iop!Hardwired(c, new) \in Iop!Registers
<1>1. (IF new.SM < 2 THEN new.SM + 2 ELSE new.SM) \in 0..3
  BY DEF Iop!Registers
<1>2. [new EXCEPT !.TD = FROM, !.SM = IF @ < 2 THEN @ + 2 ELSE @] \in Iop!Registers
  BY <1>1, IopRegisters
<1> QED
  BY <1>2, IopRegisters, IopWords DEF Iop!Hardwired

LEMMA IopWriteChcrType ==
  ASSUME NEW c \in IopChannels, NEW old \in Iop!Registers, NEW new \in Iop!Registers
  PROVE  Iop!WriteChcr(c, old, new) \in Iop!Registers
BY IopHardwiredType, IopRegisters DEF Iop!WriteChcr

LEMMA IopSetChannelType ==
  ASSUME iop_channels \in [IopChannels -> Iop!Registers], NEW c \in IopChannels,
         NEW ch \in Iop!Registers, Iop!SetChannel(c, ch)
  PROVE  iop_channels' \in [IopChannels -> Iop!Registers]
BY DEF Iop!SetChannel

LEMMA IopWrittenType ==
  ASSUME NEW ch \in Iop!Registers, NEW w \in Iop!Writes
  PROVE  /\ w.op \in {"regs", "start", "resume", "stop", "await"}
         /\ w.op = "regs" => [ch EXCEPT !.BS = w.BS, !.BA = w.BA, !.madr = w.madr,
                                        !.tadr = w.tadr] \in Iop!Registers
         /\ w.op = "start" => [ch EXCEPT !.START = TRUE, !.SM = w.SM, !.TD = w.TD,
                                         !.MAS = w.MAS, !.CE = w.CE] \in Iop!Registers
<1>1. CASE w \in [op : {"regs"}, BS : Iop!Fields, BA : Iop!Fields, madr : Nat, tadr : Nat]
  <2>1. /\ w.op = "regs" /\ w.BS \in Iop!Fields /\ w.BA \in Iop!Fields /\ w.madr \in Int
        /\ w.tadr \in Nat
    BY <1>1
  <2>2. [ch EXCEPT !.BS = w.BS, !.BA = w.BA, !.madr = w.madr, !.tadr = w.tadr] \in Iop!Registers
    BY <2>1, IopWords DEF Iop!Registers
  <2> QED
    BY <2>1, <2>2
<1>2. CASE w \in [op : {"start"}, SM : 0..3, TD : {FROM, TO}, MAS : BOOLEAN, CE : BOOLEAN]
  <2>1. /\ w.op = "start" /\ w.SM \in 0..3 /\ w.TD \in {FROM, TO} /\ w.MAS \in BOOLEAN
        /\ w.CE \in BOOLEAN
    BY <1>2
  <2>2. [ch EXCEPT !.START = TRUE, !.SM = w.SM, !.TD = w.TD, !.MAS = w.MAS,
                   !.CE = w.CE] \in Iop!Registers
    BY <2>1, IopWords DEF Iop!Registers
  <2> QED
    BY <2>1, <2>2
<1>3. CASE w \in [op : {"resume", "stop", "await"}]
  BY <1>3
<1> QED
  BY <1>1, <1>2, <1>3, IopWords DEF Iop!Writes

LEMMA IopInitTypes == Iop!Init => Iop!TypeOK
<1> SUFFICES ASSUME Iop!Init PROVE Iop!TypeOK
  OBVIOUS
<1>1. PICK s \in IopScenarios :
        /\ icr = [TCM |-> s.TCM, TCI |-> {}, IQE |-> s.IQE, ENABLE |-> TRUE, MASTER |-> FALSE]
        /\ iop_memory = s.memory /\ iop_program = s.program /\ iop_input = s.input
        /\ iop_toggles = s.toggles
  BY DEF Iop!Init
<1>2. /\ s.TCM \subseteq IopChannels /\ s.IQE \subseteq IopChannels
      /\ s.memory \in [0..IopMemSize - 1 -> Uword] /\ s.toggles \in Nat
      /\ s.program \in [IopChannels -> Seq(Iop!Writes)]
      /\ s.input \in [Iop!Queues -> Seq(Uword)]
  BY IopAssumption, IopWords DEF Iop!ConstantsTyped
<1>3. iop_channels \in [IopChannels -> Iop!Registers]
  <2>1. Iop!NoTag \in [addr : Nat, irq : BOOLEAN, ert : BOOLEAN, length : Nat]
    BY DEF Iop!NoTag
  <2>2. 0 \in Iop!Fields /\ 0 \in 0..3
    BY IopConstants DEF Iop!Fields
  <2>3. Iop!Blank \in Iop!Registers
    BY <2>1, <2>2 DEF Iop!Blank, Iop!Registers, Iop!BURST
  <2> QED
    BY <2>3 DEF Iop!Init
<1>4. /\ fifo \in [Iop!Queues -> Seq(Uword)] /\ \A q \in Iop!Queues : Len(fifo[q]) <= FifoCap
      /\ iop_received \in [Iop!Queues -> Seq(Uword)]
  BY EmptySeq, IopConstants DEF Iop!Init
<1>5. icr \in [TCM : SUBSET IopChannels, TCI : SUBSET IopChannels, IQE : SUBSET IopChannels,
               ENABLE : BOOLEAN, MASTER : BOOLEAN]
  BY <1>1, <1>2
<1>6. iop_dmac \in IopPlaces /\ handler \in [taken : BOOLEAN, seen : SUBSET IopChannels]
  BY DEF Iop!Init, IopPlaces
<1> QED
  BY <1>1, <1>2, <1>3, <1>4, <1>5, <1>6, IopWords DEF Iop!Init, Iop!TypeOK, IopPlaces

(* The IOP core's program and its interrupt handler.                       *)
LEMMA IopCoreWriteTypes ==
  ASSUME Iop!TypeOK, NEW c \in IopChannels, Iop!CoreWrite(c)
  PROVE  Iop!TypeOK'
<1> DEFINE w == Head(iop_program[c])
           ch == iop_channels[c]
           started == [ch EXCEPT !.START = TRUE, !.SM = w.SM, !.TD = w.TD,
                                 !.MAS = w.MAS, !.CE = w.CE]
           chcr == CASE w.op = "start" -> started
                     [] w.op = "resume" -> [ch EXCEPT !.START = TRUE]
                     [] w.op = "stop" -> [ch EXCEPT !.START = FALSE]
           set == [ch EXCEPT !.BS = w.BS, !.BA = w.BA, !.madr = w.madr, !.tadr = w.tadr]
<1>1. iop_program[c] \in Seq(Iop!Writes) /\ iop_program[c] # <<>> /\ ch \in Iop!Registers
  BY DEF Iop!TypeOK, Iop!CoreWrite
<1>2. w \in Iop!Writes /\ Tail(iop_program[c]) \in Seq(Iop!Writes)
  BY <1>1, HeadTailProperties
<1>3. iop_program' \in [IopChannels -> Seq(Iop!Writes)]
  BY <1>2 DEF Iop!TypeOK, Iop!CoreWrite
<1>4. CASE w.op = "regs" /\ Iop!SetChannel(c, set) /\ UNCHANGED chcr_write
  <2>1. set \in Iop!Registers
    BY <1>1, <1>2, <1>4, IopWrittenType
  <2>2. iop_channels' \in [IopChannels -> Iop!Registers]
    BY <1>4, <2>1, IopSetChannelType DEF Iop!TypeOK
  <2> QED
    BY <1>3, <1>4, <2>2 DEF Iop!TypeOK, Iop!CoreWrite, Iop!control
<1>5. CASE /\ w.op \in {"start", "resume", "stop"}
           /\ \/ Iop!SetChannel(c, Iop!WriteChcr(c, ch, chcr)) /\ UNCHANGED chcr_write
              \/ Iop!SetChannel(c, Iop!Hardwired(c, chcr)) /\ chcr_write' = "written"
  <2>1. chcr \in Iop!Registers
    <3>1. CASE w.op = "start"
      BY <3>1, <1>1, <1>2, IopWrittenType
    <3>2. CASE w.op = "resume"
      BY <3>2, <1>1, IopRegisters
    <3>3. CASE w.op = "stop"
      BY <3>3, <1>1, IopRegisters
    <3> QED
      BY <1>5, <3>1, <3>2, <3>3
  <2> HIDE DEF chcr
  <2>2. Iop!WriteChcr(c, ch, chcr) \in Iop!Registers /\ Iop!Hardwired(c, chcr) \in Iop!Registers
    BY <1>1, <2>1, IopWriteChcrType, IopHardwiredType
  <2>3. iop_channels' \in [IopChannels -> Iop!Registers]
    BY <1>5, <2>2, IopSetChannelType DEF Iop!TypeOK
  <2>4. chcr_write' \in {"none", "written", "starting", "flagged"}
    BY <1>5 DEF Iop!TypeOK
  <2> QED
    BY <1>3, <2>3, <2>4 DEF Iop!TypeOK, Iop!CoreWrite, Iop!control
<1> QED
  BY <1>4, <1>5 DEF Iop!CoreWrite

\* The rest of a write of SIF1's CHCR.
LEMMA IopFinishWriteTypes ==
  ASSUME Iop!TypeOK, NEW c \in IopChannels, Iop!FinishWrite(c)
  PROVE  Iop!TypeOK'
<1> DEFINE ch == iop_channels[c]
<1>1. ch \in Iop!Registers
  BY DEF Iop!TypeOK
<1>2. /\ [ch EXCEPT !.dma_started = FALSE] \in Iop!Registers
      /\ [ch EXCEPT !.dma_tag = Iop!NoTag] \in Iop!Registers
  <2>1. Iop!NoTag \in [addr : Nat, irq : BOOLEAN, ert : BOOLEAN, length : Nat]
    BY DEF Iop!NoTag
  <2> QED
    BY <1>1, <2>1 DEF Iop!Registers
<1>3. \/ UNCHANGED iop_channels
      \/ Iop!SetChannel(c, [ch EXCEPT !.dma_started = FALSE])
      \/ Iop!SetChannel(c, [ch EXCEPT !.dma_tag = Iop!NoTag])
  BY DEF Iop!FinishWrite
<1>4. iop_channels' \in [IopChannels -> Iop!Registers]
  BY <1>2, <1>3, IopSetChannelType DEF Iop!TypeOK
<1>5. chcr_write' \in {"none", "written", "starting", "flagged"}
  BY DEF Iop!FinishWrite
<1> QED
  BY <1>4, <1>5 DEF Iop!FinishWrite, Iop!TypeOK, Iop!control

LEMMA IopProgramTypes ==
  ASSUME Iop!TypeOK, (\E c \in IopChannels : Iop!ProgramNext(c)) \/ Iop!HandlerNext
  PROVE  Iop!TypeOK'
<1>1. CASE \E c \in IopChannels : Iop!CoreWrite(c) \/ Iop!FinishWrite(c)
  BY <1>1, IopCoreWriteTypes, IopFinishWriteTypes
<1>2. CASE \E c \in IopChannels : Iop!Await(c)
  <2>1. PICK c \in IopChannels : Iop!Await(c)
    BY <1>2
  <2>2. iop_program[c] \in Seq(Iop!Writes) /\ iop_program[c] # <<>>
    BY <2>1 DEF Iop!TypeOK, Iop!Await
  <2>3. Tail(iop_program[c]) \in Seq(Iop!Writes)
    BY <2>2, HeadTailProperties
  <2>4. iop_program' \in [IopChannels -> Seq(Iop!Writes)]
    BY <2>1, <2>3 DEF Iop!TypeOK, Iop!Await
  <2>5. handler' \in [taken : BOOLEAN, seen : SUBSET IopChannels]
    BY <2>1 DEF Iop!TypeOK, Iop!Await
  <2> QED
    BY <2>1, <2>4, <2>5 DEF Iop!TypeOK, Iop!Await, Iop!control
<1>3. CASE Iop!TakeInterrupt
  <2>1. handler' \in [taken : BOOLEAN, seen : SUBSET IopChannels] /\ intc' \in BOOLEAN
    BY <1>3 DEF Iop!TypeOK, Iop!TakeInterrupt
  <2> QED
    BY <1>3, <2>1 DEF Iop!TypeOK, Iop!TakeInterrupt
<1>4. CASE Iop!HandleInterrupt
  <2>1. handler.seen \subseteq IopChannels /\ icr.TCI \subseteq IopChannels
    BY DEF Iop!TypeOK
  <2>2. /\ handler' \in [taken : BOOLEAN, seen : SUBSET IopChannels]
        /\ icr' \in [TCM : SUBSET IopChannels, TCI : SUBSET IopChannels,
                     IQE : SUBSET IopChannels, ENABLE : BOOLEAN, MASTER : BOOLEAN]
    BY <1>4, <2>1 DEF Iop!TypeOK, Iop!HandleInterrupt
  <2> QED
    BY <1>4, <2>2 DEF Iop!TypeOK, Iop!HandleInterrupt
<1> QED
  BY <1>1, <1>2, <1>3, <1>4 DEF Iop!ProgramNext, Iop!HandlerNext

LEMMA IopToggleTypes ==
  ASSUME Iop!TypeOK, Iop!ToggleNext
  PROVE  Iop!TypeOK'
<1> DEFINE Icr == [TCM : SUBSET IopChannels, TCI : SUBSET IopChannels, IQE : SUBSET IopChannels,
                   ENABLE : BOOLEAN, MASTER : BOOLEAN]
<1>1. icr \in Icr /\ iop_toggles \in Nat
  BY DEF Iop!TypeOK
<1>2. Iop!Used \subseteq IopChannels
  BY DEF Iop!Used
<1>3. Iop!Toggle => iop_toggles' \in Nat
  BY <1>1 DEF Iop!Toggle
<1>4. CASE \E tcm, clr \in SUBSET Iop!Used :
             \/ \E enable \in BOOLEAN : Iop!WriteIcr0(tcm, enable, clr)
             \/ Iop!WriteIcr1(tcm, clr)
  <2>1. PICK tcm, clr \in SUBSET Iop!Used :
               \/ \E enable \in BOOLEAN : Iop!WriteIcr0(tcm, enable, clr)
               \/ Iop!WriteIcr1(tcm, clr)
    BY <1>4
  <2>2. tcm \subseteq IopChannels
    BY <1>2
  <2>3. CASE \E enable \in BOOLEAN : Iop!WriteIcr0(tcm, enable, clr)
    <3>1. PICK enable \in BOOLEAN : Iop!WriteIcr0(tcm, enable, clr)
      BY <2>3
    <3>2. /\ (icr.TCM \ Iop!LowChannels) \cup (tcm \cap Iop!LowChannels) \in SUBSET IopChannels
          /\ icr.TCI \ (clr \cap Iop!LowChannels) \in SUBSET IopChannels
      BY <1>1, <2>2
    <3>3. icr' \in Icr
      BY <1>1, <3>1, <3>2 DEF Iop!WriteIcr0
    <3> QED
      BY <1>3, <3>1, <3>3 DEF Iop!WriteIcr0, Iop!TypeOK
  <2>4. CASE Iop!WriteIcr1(tcm, clr)
    <3>1. /\ (icr.TCM \cap Iop!LowChannels) \cup (tcm \ Iop!LowChannels) \in SUBSET IopChannels
          /\ icr.TCI \ (clr \ Iop!LowChannels) \in SUBSET IopChannels
      BY <1>1, <2>2
    <3>2. icr' \in Icr
      BY <1>1, <2>4, <3>1 DEF Iop!WriteIcr1
    <3> QED
      BY <1>3, <2>4, <3>2 DEF Iop!WriteIcr1, Iop!TypeOK
  <2> QED
    BY <2>1, <2>3, <2>4
<1>5. CASE Iop!WriteGctrl
  BY <1>3, <1>5 DEF Iop!WriteGctrl, Iop!TypeOK
<1>6. CASE \E enabled \in SUBSET Iop!Used : Iop!WritePcr(enabled)
  <2>1. PICK enabled \in SUBSET Iop!Used : Iop!WritePcr(enabled)
    BY <1>6
  <2> QED
    BY <1>2, <1>3, <2>1 DEF Iop!WritePcr, Iop!TypeOK
<1> QED
  BY <1>4, <1>5, <1>6 DEF Iop!ToggleNext

LEMMA IopPeripheralTypes ==
  ASSUME Iop!TypeOK, NEW q \in Iop!Queues, Iop!PeripheralNext(q)
  PROVE  Iop!TypeOK'
<1>1. /\ fifo[q] \in Seq(Uword) /\ Len(fifo[q]) <= FifoCap /\ iop_input[q] \in Seq(Uword)
      /\ iop_received[q] \in Seq(Uword) /\ fifo \in [Iop!Queues -> Seq(Uword)]
  BY IopWords DEF Iop!TypeOK
<1>2. CASE Iop!PeripheralRead(q)
  <2>1. fifo[q] # <<>>
    BY <1>2 DEF Iop!PeripheralRead
  <2>2. /\ Head(fifo[q]) \in Uword /\ Tail(fifo[q]) \in Seq(Uword)
        /\ Len(Tail(fifo[q])) = Len(fifo[q]) - 1
    BY <1>1, <2>1, HeadTailProperties
  <2>3. Append(iop_received[q], Head(fifo[q])) \in Seq(Uword)
    BY <1>1, <2>2
  <2>4. iop_received' \in [Iop!Queues -> Seq(Uword)]
    BY <1>2, <2>3, IopWords DEF Iop!TypeOK, Iop!PeripheralRead
  <2>5. fifo' = [fifo EXCEPT ![q] = Tail(fifo[q])]
    BY <1>2 DEF Iop!PeripheralRead
  <2>6. Len(Tail(fifo[q])) <= FifoCap
    BY <1>1, <2>2, LenProperties, IopConstants
  <2>7. fifo' \in [Iop!Queues -> Seq(Uword)] /\ \A d \in Iop!Queues : Len(fifo'[d]) <= FifoCap
    BY <1>1, <2>2, <2>5, <2>6 DEF Iop!TypeOK
  <2> QED
    BY <1>2, <2>4, <2>7, IopWords DEF Iop!TypeOK, Iop!PeripheralRead, Iop!control
<1>3. CASE Iop!PeripheralWrite(q)
  <2>1. iop_input[q] # <<>> /\ Len(fifo[q]) < FifoCap
    BY <1>3 DEF Iop!PeripheralWrite
  <2>2. Head(iop_input[q]) \in Uword /\ Tail(iop_input[q]) \in Seq(Uword)
    BY <1>1, <2>1, HeadTailProperties
  <2>3. /\ Append(fifo[q], Head(iop_input[q])) \in Seq(Uword)
        /\ Len(Append(fifo[q], Head(iop_input[q]))) = Len(fifo[q]) + 1
    BY <1>1, <2>2
  <2>4. iop_input' \in [Iop!Queues -> Seq(Uword)]
    BY <1>3, <2>2, IopWords DEF Iop!TypeOK, Iop!PeripheralWrite
  <2>5. fifo' = [fifo EXCEPT ![q] = Append(fifo[q], Head(iop_input[q]))]
    BY <1>3 DEF Iop!PeripheralWrite
  <2>6. Len(Append(fifo[q], Head(iop_input[q]))) <= FifoCap
    BY <1>1, <2>1, <2>3, LenProperties, IopConstants
  <2>7. fifo' \in [Iop!Queues -> Seq(Uword)] /\ \A d \in Iop!Queues : Len(fifo'[d]) <= FifoCap
    BY <1>1, <2>3, <2>5, <2>6 DEF Iop!TypeOK
  <2> QED
    BY <1>3, <2>4, <2>7, IopWords DEF Iop!TypeOK, Iop!PeripheralWrite, Iop!control
<1> QED
  BY <1>2, <1>3 DEF Iop!PeripheralNext

(* The steps of a time step that leave the transfers alone.                *)
LEMMA IopPassTypes ==
  ASSUME Iop!TypeOK, iop_dmac' \in IopPlaces,
         UNCHANGED <<Iop!control, iop_channels, fifo, iop_memory, Iop!env>>, torn' \in BOOLEAN
  PROVE  Iop!TypeOK'
BY DEF Iop!TypeOK, IopPlaces, Iop!control, Iop!env

LEMMA IopTimeStepTypes ==
  ASSUME Iop!TypeOK, Iop!TimeStep \/ Iop!Check, torn' \in BOOLEAN
  PROVE  Iop!TypeOK'
<1>0. iop_dmac \in IopPlaces
  BY DEF Iop!TypeOK, IopPlaces
<1>1. CASE Iop!TimeStep
  <2>1. Iop!First(IopChannels) \in IopChannels
    BY IopFirstOf, IopConstants
  <2>2. iop_dmac' \in IopPlaces
    BY <1>0, <1>1, <2>1 DEF Iop!TimeStep, IopPlaces
  <2> QED
    BY <1>1, <2>2, IopPassTypes DEF Iop!TimeStep
<1>2. CASE Iop!Check
  <2>1. iop_dmac.at = "scan" /\ iop_dmac.c \in IopChannels
    BY <1>0, <1>2 DEF Iop!Check, IopPlaces, Iop!Idle
  <2>2. CASE iop_dmac' = [iop_dmac EXCEPT !.at = "transfer"]
    <3>1. iop_dmac' \in IopPlaces
      BY <1>0, <2>1, <2>2 DEF IopPlaces, Iop!Idle
    <3> QED
      BY <1>2, <3>1, IopPassTypes DEF Iop!Check
  <2>3. CASE Iop!Advance(iop_dmac.c)
    BY <1>2, <2>1, <2>3, IopAdvanceType, IopPassTypes DEF Iop!Check
  <2> QED
    BY <1>2, <2>2, <2>3 DEF Iop!Check
<1> QED
  BY <1>1, <1>2

(* The queues and the memory.                                              *)
LEMMA IopQueueType ==
  ASSUME Iop!TypeOK, NEW q \in Iop!Queues, NEW s \in Seq(Uword), Len(s) <= FifoCap,
         fifo' = [fifo EXCEPT ![q] = s]
  PROVE  /\ fifo' \in [Iop!Queues -> Seq(Iop!Uword)]
         /\ \A d \in Iop!Queues : Len(fifo'[d]) <= FifoCap
BY IopWords DEF Iop!TypeOK

LEMMA IopMemoryType ==
  ASSUME Iop!TypeOK, NEW a \in Int
  PROVE  /\ a % IopMemSize \in 0..IopMemSize - 1
         /\ iop_memory[a % IopMemSize] \in Uword
<1>1. a % IopMemSize \in 0..IopMemSize - 1
  BY IopConstants
<1> QED
  BY <1>1, IopWords DEF Iop!TypeOK

LEMMA IopRoomType ==
  ASSUME Iop!TypeOK, NEW c \in IopChannels, NEW n \in Nat, Iop!CanMove(c, n)
  PROVE  /\ Iop!Queue(c) \in Iop!Queues
         /\ fifo[Iop!Queue(c)] \in Seq(Uword) /\ Len(fifo[Iop!Queue(c)]) \in Nat
         /\ iop_channels[c].TD = FROM =>
              Len(fifo[Iop!Queue(c)]) >= n /\ Len(fifo[Iop!Queue(c)]) - n <= FifoCap
         /\ iop_channels[c].TD = TO => Len(fifo[Iop!Queue(c)]) + n <= FifoCap
<1>0. Iop!Queue(c) \in Iop!Queues
  BY DEF Iop!Queues
<1>1. fifo[Iop!Queue(c)] \in Seq(Uword) /\ Len(fifo[Iop!Queue(c)]) <= FifoCap
  BY <1>0, IopWords DEF Iop!TypeOK
<1>2. Len(fifo[Iop!Queue(c)]) \in Nat /\ FifoCap \in Nat
  BY <1>1, LenProperties, IopConstants
<1> QED
  BY <1>0, <1>1, <1>2, IopWords DEF Iop!CanMove

(* BCR: what is calculated from its fields is a length.                    *)
LEMMA IopCalculateType ==
  ASSUME NEW ch \in Iop!Registers, NEW use_blocks \in BOOLEAN
  PROVE  Iop!Calculate(ch, use_blocks) \in Nat
<1>1. ch.BA \in Nat /\ ch.BS \in Nat
  BY IopConstants DEF Iop!Registers, Iop!Fields
<1>2. Iop!OrFull(ch.BA) \in Nat /\ Iop!OrFull(ch.BS) \in Nat
  BY <1>1, IopConstants DEF Iop!OrFull
<1>3. \A m, n \in Nat : m * n \in Nat /\ (m > 0 /\ n > 0 => m * n > 0)
  OBVIOUS
<1>4. FieldSize * FieldSize \in Nat /\ FieldSize * FieldSize > 0
  BY <1>3, IopConstants
<1>5. \A m, n \in Nat : n > 0 => m % n \in Nat
  OBVIOUS
<1>6. (Iop!OrFull(ch.BA) * Iop!OrFull(ch.BS)) % (FieldSize * FieldSize) \in Nat
  BY <1>2, <1>3, <1>4, <1>5
<1> QED
  BY <1>2, <1>6 DEF Iop!Calculate

LEMMA IopTagType ==
  ASSUME NEW w0 \in Uword, NEW w1 \in Uword
  PROVE  /\ Iop!Tag(w0, w1) \in [addr : Nat, irq : BOOLEAN, ert : BOOLEAN, length : Nat]
         /\ Iop!SourceLength(Iop!Tag(w0, w1)) \in Nat
<1>1. w1.length \in Nat
  BY DEF Uword
<1>2. Iop!Tag(w0, w1) \in [addr : Nat, irq : BOOLEAN, ert : BOOLEAN, length : Nat]
  BY DEF Iop!Tag, Uword
<1>3. \A n \in Nat : 4 * ((n + 3) \div 4) \in Nat
  OBVIOUS
<1>4. \A m, n \in Nat : n > 0 => m % n \in Nat
  OBVIOUS
<1> QED
  BY <1>1, <1>2, <1>3, <1>4, IopConstants DEF Iop!SourceLength, Iop!Tag

LEMMA IopTagged ==
  ASSUME NEW ch \in Iop!Registers, NEW length \in Nat, NEW addr \in Nat,
         NEW tag \in [addr : Nat, irq : BOOLEAN, ert : BOOLEAN, length : Nat]
  PROVE  /\ [ch EXCEPT !.dma_tag = tag, !.transfer_length = length, !.tadr = @ + 4,
                       !.madr = addr] \in Iop!Registers
         /\ [ch EXCEPT !.dma_tag = tag, !.transfer_length = length,
                       !.madr = addr] \in Iop!Registers
<1>1. ch.tadr + 4 \in Nat /\ addr \in Int
  BY DEF Iop!Registers
<1>2. \A n \in Nat : [ch EXCEPT !.dma_tag = tag, !.transfer_length = length, !.tadr = n,
                                !.madr = addr] \in Iop!Registers
  BY <1>1 DEF Iop!Registers
<1>3. [ch EXCEPT !.dma_tag = tag, !.transfer_length = length, !.madr = addr] \in Iop!Registers
  BY <1>1 DEF Iop!Registers
<1> QED
  BY <1>1, <1>2, <1>3

(* transfer_data.                                                          *)
LEMMA IopMoveTypes ==
  ASSUME Iop!TypeOK, NEW c \in IopChannels, Iop!Move(c), torn' \in BOOLEAN
  PROVE  Iop!TypeOK'
<1> DEFINE ch == iop_channels[c]
           q == Iop!Queue(c)
           at == ch.madr % IopMemSize
           moved == [ch EXCEPT !.madr = IF ch.MAS THEN @ - 1 ELSE @ + 1,
                               !.transfer_length = @ - 1]
<1>1. /\ ch \in Iop!Registers /\ ch.madr \in Int
      /\ ch.transfer_length \in Nat /\ ch.transfer_length > 0
  BY DEF Iop!TypeOK, Iop!Registers, Iop!Move, Iop!Moving
<1>2. iop_channels' \in [IopChannels -> Iop!Registers]
  <2>1. (IF ch.MAS THEN ch.madr - 1 ELSE ch.madr + 1) \in Int /\ ch.transfer_length - 1 \in Nat
    BY <1>1
  <2>2. moved \in Iop!Registers
    BY <1>1, <2>1, IopRegisters
  <2>3. Iop!SetChannel(c, moved)
    BY DEF Iop!Move
  <2> QED
    BY <2>2, <2>3, IopSetChannelType DEF Iop!TypeOK
<1>3. iop_dmac' \in IopPlaces
  BY IopAdvanceType DEF Iop!Move
<1>4. /\ q \in Iop!Queues /\ fifo[q] \in Seq(Uword) /\ Len(fifo[q]) \in Nat
      /\ ch.TD = FROM => Len(fifo[q]) >= 1 /\ Len(fifo[q]) - 1 <= FifoCap
      /\ ch.TD = TO => Len(fifo[q]) + 1 <= FifoCap
  BY IopRoomType DEF Iop!Move
<1>5. at \in 0..IopMemSize - 1 /\ iop_memory[at] \in Uword
  BY <1>1, IopMemoryType
<1>6. iop_memory \in [0..IopMemSize - 1 -> Uword]
  BY IopWords DEF Iop!TypeOK
<1>7. /\ iop_memory' \in [0..IopMemSize - 1 -> Uword]
      /\ fifo' \in [Iop!Queues -> Seq(Iop!Uword)] /\ \A d \in Iop!Queues : Len(fifo'[d]) <= FifoCap
  <2>1. CASE /\ ch.TD = FROM
             /\ iop_memory' = [iop_memory EXCEPT ![at] = Head(fifo[q])]
             /\ fifo' = [fifo EXCEPT ![q] = Tail(fifo[q])]
    <3>1. fifo[q] # <<>>
      BY <1>4, <2>1, EmptySeq
    <3>2. /\ Head(fifo[q]) \in Uword /\ Tail(fifo[q]) \in Seq(Uword)
          /\ Len(Tail(fifo[q])) = Len(fifo[q]) - 1
      BY <1>4, <3>1, HeadTailProperties
    <3>3. iop_memory' \in [0..IopMemSize - 1 -> Uword]
      BY <1>5, <1>6, <2>1, <3>2
    <3>4. Len(Tail(fifo[q])) <= FifoCap
      BY <1>4, <2>1, <3>2
    <3> QED
      BY <1>4, <2>1, <3>2, <3>3, <3>4, IopQueueType
  <2>2. CASE /\ ch.TD = TO
             /\ fifo' = [fifo EXCEPT ![q] = Append(fifo[q], iop_memory[at])]
             /\ UNCHANGED iop_memory
    <3>1. /\ Append(fifo[q], iop_memory[at]) \in Seq(Uword)
          /\ Len(Append(fifo[q], iop_memory[at])) = Len(fifo[q]) + 1
      BY <1>4, <1>5
    <3>2. Len(Append(fifo[q], iop_memory[at])) <= FifoCap
      BY <1>4, <2>2, <3>1
    <3> QED
      BY <1>4, <1>6, <2>2, <3>1, <3>2, IopQueueType
  <2> QED
    BY <2>1, <2>2, IopWords DEF Iop!Move
<1> QED
  BY <1>2, <1>3, <1>7, IopWords DEF Iop!Move, Iop!TypeOK, IopPlaces, Iop!env, Iop!control

(* What is left of a transfer: its beginning, the cycles that move         *)
(* nothing, its end, and the tags.                                         *)
LEMMA IopSkipTypes ==
  ASSUME Iop!TypeOK, NEW c \in IopChannels,
         Iop!Begin(c) \/ Iop!Blocked(c) \/ Iop!AwaitPeripheral(c) \/ Iop!TagBlocked(c)
           \/ Iop!Fault(c),
         torn' \in BOOLEAN
  PROVE  Iop!TypeOK'
<1>0. iop_channels[c] \in Iop!Registers
  BY DEF Iop!TypeOK
<1>1. CASE Iop!Begin(c)
  <2> DEFINE ch == iop_channels[c]
             length == IF ch.SM = Iop!CHAIN THEN 0 ELSE Iop!Calculate(ch, ch.SM = Iop!SLICE)
  <2>1. length \in Nat
    <3>1. (ch.SM = Iop!SLICE) \in BOOLEAN
      OBVIOUS
    <3>2. Iop!Calculate(ch, ch.SM = Iop!SLICE) \in Nat
      BY <1>0, <3>1, IopCalculateType
    <3> QED
      BY <3>2
  <2>2. [ch EXCEPT !.dma_started = TRUE, !.transfer_length = length] \in Iop!Registers
    BY <1>0, <2>1, IopRegisters
  <2>3. Iop!SetChannel(c, [ch EXCEPT !.dma_started = TRUE, !.transfer_length = length])
    BY <1>1 DEF Iop!Begin
  <2> HIDE DEF length
  <2>4. iop_channels' \in [IopChannels -> Iop!Registers]
    BY <2>2, <2>3, IopSetChannelType DEF Iop!TypeOK
  <2>5. iop_dmac' \in IopPlaces
    BY <1>1, IopAdvanceType DEF Iop!Begin
  <2> QED
    BY <1>1, <2>4, <2>5 DEF Iop!Begin, Iop!TypeOK, IopPlaces, Iop!env, Iop!control
<1>2. CASE Iop!Blocked(c) \/ Iop!AwaitPeripheral(c) \/ Iop!TagBlocked(c)
  <2>1. iop_dmac' \in IopPlaces
    BY <1>2, IopAdvanceType DEF Iop!Blocked, Iop!AwaitPeripheral, Iop!TagBlocked
  <2> QED
    BY <1>2, <2>1, IopPassTypes DEF Iop!Blocked, Iop!AwaitPeripheral, Iop!TagBlocked
<1>3. CASE Iop!Fault(c)
  <2>1. iop_dmac' \in IopPlaces
    BY <1>3 DEF Iop!Fault, IopPlaces
  <2> QED
    BY <1>3, <2>1, IopPassTypes DEF Iop!Fault
<1> QED
  BY <1>1, <1>2, <1>3

LEMMA IopSuspendTypes ==
  ASSUME Iop!TypeOK, NEW c \in IopChannels, Iop!Suspend(c), torn' \in BOOLEAN
  PROVE  Iop!TypeOK'
<1> DEFINE ch == Iop!WriteChcr(c, iop_channels[c], [iop_channels[c] EXCEPT !.START = FALSE])
           tci == icr.TCI \cup {c}
<1>0. iop_channels[c] \in Iop!Registers
  BY DEF Iop!TypeOK
<1>1. ch \in Iop!Registers
  BY <1>0, IopRegisters, IopWriteChcrType
<1>2. Iop!SetChannel(c, ch)
  BY DEF Iop!Suspend
<1>3. /\ icr' = [icr EXCEPT !.TCI = tci, !.MASTER = @ \/ Iop!Pending(tci)]
      /\ intc' = (intc \/ Iop!Pending(tci))
  BY DEF Iop!Suspend
<1> HIDE DEF ch
<1>4. iop_channels' \in [IopChannels -> Iop!Registers]
  BY <1>1, <1>2, IopSetChannelType DEF Iop!TypeOK
<1>5. /\ icr' \in [TCM : SUBSET IopChannels, TCI : SUBSET IopChannels,
                   IQE : SUBSET IopChannels, ENABLE : BOOLEAN, MASTER : BOOLEAN]
      /\ intc' \in BOOLEAN
  <2>1. tci \in SUBSET IopChannels
    BY DEF Iop!TypeOK
  <2>2. (icr.MASTER \/ Iop!Pending(tci)) \in BOOLEAN /\ (intc \/ Iop!Pending(tci)) \in BOOLEAN
    OBVIOUS
  <2>3. \A b \in BOOLEAN :
          [icr EXCEPT !.TCI = tci, !.MASTER = b] \in
            [TCM : SUBSET IopChannels, TCI : SUBSET IopChannels,
             IQE : SUBSET IopChannels, ENABLE : BOOLEAN, MASTER : BOOLEAN]
    BY <2>1 DEF Iop!TypeOK
  <2> QED
    BY <1>3, <2>2, <2>3
<1>6. iop_dmac' \in IopPlaces
  BY IopAdvanceType DEF Iop!Suspend
<1> QED
  BY <1>4, <1>5, <1>6 DEF Iop!Suspend, Iop!TypeOK, IopPlaces, Iop!env

LEMMA IopReadSourceTagTypes ==
  ASSUME Iop!TypeOK, NEW c \in IopChannels, Iop!ReadSourceTag(c), torn' \in BOOLEAN
  PROVE  Iop!TypeOK'
<1> DEFINE ch == iop_channels[c]
           w == [i \in 0..3 |-> iop_memory[(ch.tadr + i) % IopMemSize]]
           tag == Iop!Tag(w[0], w[1])
           sent == <<w[2], w[3], Zero, Zero>>
           q == Iop!Queue(c)
           tagged == [ch EXCEPT !.dma_tag = tag, !.transfer_length = Iop!SourceLength(tag),
                                !.tadr = @ + 4, !.madr = tag.addr]
<1>1. ch \in Iop!Registers /\ ch.tadr \in Nat
  BY DEF Iop!TypeOK, Iop!Registers
<1>2. w[0] \in Uword /\ w[1] \in Uword /\ w[2] \in Uword /\ w[3] \in Uword
  <2>1. \A i \in 0..3 : ch.tadr + i \in Int
    BY <1>1
  <2> QED
    BY <2>1, IopMemoryType
<1>3. /\ tag \in [addr : Nat, irq : BOOLEAN, ert : BOOLEAN, length : Nat]
      /\ Iop!SourceLength(tag) \in Nat
  BY <1>2, IopTagType
<1>4. Iop!SetChannel(c, tagged) /\ fifo' = [fifo EXCEPT ![q] = fifo[q] \o sent]
  BY IopWords DEF Iop!ReadSourceTag
<1> HIDE DEF w, tag
<1>5. iop_channels' \in [IopChannels -> Iop!Registers]
  <2>1. tag.addr \in Nat
    BY <1>3
  <2>2. tagged \in Iop!Registers
    BY <1>1, <1>3, <2>1, IopTagged
  <2> QED
    BY <1>4, <2>2, IopSetChannelType DEF Iop!TypeOK
<1>6. /\ fifo' \in [Iop!Queues -> Seq(Iop!Uword)]
      /\ \A d \in Iop!Queues : Len(fifo'[d]) <= FifoCap
  <2>1. Iop!CanMove(c, 4) /\ ch.TD = TO
    BY IopWords DEF Iop!ReadSourceTag
  <2>2. q \in Iop!Queues /\ fifo[q] \in Seq(Uword) /\ Len(fifo[q]) + 4 <= FifoCap
    BY <2>1, IopRoomType
  <2>3. sent \in Uqword
    <3>1. Zero \in Uword
      BY DEF Zero, Uword
    <3> QED
      BY <1>2, <3>1 DEF Uqword
  <2>4. fifo[q] \o sent \in Seq(Uword) /\ Len(fifo[q] \o sent) <= FifoCap
    BY <2>2, <2>3, QwordAppended
  <2> QED
    BY <1>4, <2>2, <2>4, IopQueueType
<1>7. iop_dmac' \in IopPlaces
  BY IopAdvanceType DEF Iop!ReadSourceTag
<1> QED
  BY <1>5, <1>6, <1>7 DEF Iop!ReadSourceTag, Iop!TypeOK, IopPlaces, Iop!env, Iop!control

LEMMA IopReadDestTagTypes ==
  ASSUME Iop!TypeOK, NEW c \in IopChannels, Iop!ReadDestTag(c), torn' \in BOOLEAN
  PROVE  Iop!TypeOK'
<1> DEFINE ch == iop_channels[c]
           q == Iop!Queue(c)
           tag == Iop!Tag(fifo[q][1], fifo[q][2])
           tagged == [ch EXCEPT !.dma_tag = tag, !.transfer_length = tag.length,
                                !.madr = tag.addr]
<1>1. ch \in Iop!Registers /\ Iop!CanMove(c, 4) /\ ch.TD = FROM
  BY IopWords DEF Iop!TypeOK, Iop!ReadDestTag
<1>2. /\ q \in Iop!Queues /\ fifo[q] \in Seq(Uword) /\ Len(fifo[q]) \in Nat
      /\ Len(fifo[q]) >= 4 /\ Len(fifo[q]) - 4 <= FifoCap
  BY <1>1, IopRoomType
<1>3. tag \in [addr : Nat, irq : BOOLEAN, ert : BOOLEAN, length : Nat]
  <2>1. 1 \in 1..Len(fifo[q]) /\ 2 \in 1..Len(fifo[q])
    BY <1>2
  <2>2. fifo[q][1] \in Uword /\ fifo[q][2] \in Uword
    BY <1>2, <2>1, ElementOfSeq
  <2> QED
    BY <2>2, IopTagType
<1>4. Iop!SetChannel(c, tagged) /\ fifo' = [fifo EXCEPT ![q] = SubSeq(fifo[q], 5, Len(fifo[q]))]
  BY DEF Iop!ReadDestTag
<1> HIDE DEF tag
<1>5. iop_channels' \in [IopChannels -> Iop!Registers]
  <2>1. tag.addr \in Nat /\ tag.length \in Nat
    BY <1>3
  <2>2. tagged \in Iop!Registers
    BY <1>1, <1>3, <2>1, IopTagged
  <2> QED
    BY <1>4, <2>2, IopSetChannelType DEF Iop!TypeOK
<1>6. /\ fifo' \in [Iop!Queues -> Seq(Iop!Uword)]
      /\ \A d \in Iop!Queues : Len(fifo'[d]) <= FifoCap
  <2>1. Rest(fifo[q]) \in Seq(Uword) /\ Len(Rest(fifo[q])) <= FifoCap
    BY <1>2, WordsType
  <2>2. fifo' = [fifo EXCEPT ![q] = Rest(fifo[q])]
    BY <1>4 DEF Rest
  <2> QED
    BY <1>2, <2>1, <2>2, IopQueueType
<1>7. iop_dmac' \in IopPlaces
  BY IopAdvanceType DEF Iop!ReadDestTag
<1> QED
  BY <1>5, <1>6, <1>7 DEF Iop!ReadDestTag, Iop!TypeOK, IopPlaces, Iop!env, Iop!control

LEMMA IopDmacTypes ==
  ASSUME Iop!TypeOK, Iop!DmacNext
  PROVE  Iop!TypeOK'
<1>1. CASE \E c \in IopChannels : Iop!Transfer(c) /\ torn' = (torn \/ Iop!Tears(c))
  <2>1. PICK c \in IopChannels : Iop!Transfer(c) /\ torn' = (torn \/ Iop!Tears(c))
    BY <1>1
  <2>2. torn' \in BOOLEAN
    BY <2>1
  <2> QED
    BY <2>1, <2>2, IopMoveTypes, IopSkipTypes, IopSuspendTypes, IopReadSourceTagTypes,
       IopReadDestTagTypes DEF Iop!Transfer
<1>2. CASE (Iop!TimeStep \/ Iop!Check) /\ UNCHANGED torn
  <2>1. torn' \in BOOLEAN
    BY <1>2 DEF Iop!TypeOK
  <2> QED
    BY <1>2, <2>1, IopTimeStepTypes
<1> QED
  BY <1>1, <1>2 DEF Iop!DmacNext

(* In the IOP's DMA controller no queue overflows and no transfer length   *)
(* goes below zero, in whatever order the program, its interrupt handler,  *)
(* the DMAC and the peripherals act.                                       *)
THEOREM IopTypes == Iop!Spec => []Iop!TypeOK
<1>1. Iop!TypeOK /\ [Iop!Next]_(Iop!vars) => Iop!TypeOK'
  <2> SUFFICES ASSUME Iop!TypeOK, [Iop!Next]_(Iop!vars) PROVE Iop!TypeOK'
    OBVIOUS
  <2>1. CASE Iop!DmacNext
    BY <2>1, IopDmacTypes
  <2>2. CASE Iop!Faulted \/ UNCHANGED Iop!vars
    BY <2>2 DEF Iop!Faulted, Iop!TypeOK, Iop!vars, Iop!control, Iop!env
  <2>3. CASE Iop!CoreNext
    BY <2>3, IopProgramTypes, IopToggleTypes DEF Iop!CoreNext
  <2>4. CASE \E q \in Iop!Queues : Iop!PeripheralNext(q)
    BY <2>4, IopPeripheralTypes
  <2> QED
    BY <2>1, <2>2, <2>3, <2>4 DEF Iop!Next
<1> QED
  BY IopInitTypes, <1>1, PTL DEF Iop!Spec
-----------------------------------------------------------------------------
(* The IOP's chains: what each channel has sent, and what it still has to, *)
(* is known from the number of tags that it has read.                      *)
IopTags == [addr : Nat, irq : BOOLEAN, ert : BOOLEAN, length : Nat]

LEMMA IopShared ==
  /\ \A p : Iop!Joined(p) = Joined(p)
  /\ \A s, all : Iop!Begins(s, all) <=> Begins(s, all)
  /\ \A S : Iop!Cardinality(S) = Cardinality(S)
BY DEF Iop!Joined, Joined, Iop!Begins, Begins, Iop!Cardinality, Cardinality

LEMMA IopQueuesDiffer ==
  ASSUME NEW c \in IopChannels, NEW d \in IopChannels, c # d
  PROVE  Iop!Queue(c) # Iop!Queue(d)
<1>1. c \in 0..12 /\ d \in 0..12
  BY IopAssumption DEF Iop!ConstantsTyped
<1> QED
  BY <1>1 DEF Iop!Queue

LEMMA IopScenarioIs ==
  ASSUME NEW s \in IopScenarios, NEW c \in IopChannels
  PROVE  /\ s.memory \in [0..IopMemSize - 1 -> Uword] /\ s.program \in [IopChannels -> Seq(Iop!Writes)]
         /\ s.program[c] \in Seq(Iop!Writes) /\ Len(s.program[c]) \in Nat
         /\ s.chains[c] \in Nat /\ \A a \in Int : Iop!WordOf(s, a) \in Uword
<1>1. /\ s.memory \in [0..IopMemSize - 1 -> Uword] /\ s.chains \in [IopChannels -> Nat]
      /\ s.program \in [IopChannels -> Seq(Iop!Writes)]
  BY IopAssumption, IopWords DEF Iop!ConstantsTyped
<1>2. \A a \in Int : a % IopMemSize \in 0..IopMemSize - 1
  BY IopConstants
<1> QED
  BY <1>1, <1>2, LenProperties DEF Iop!WordOf

(* What the program has built for a channel that sends a chain.            *)
LEMMA IopChainIs ==
  ASSUME NEW s \in IopScenarios, NEW c \in IopChannels, s.chains[c] > 0
  PROVE  /\ Iop!IsChain(s, c) /\ s.program[c][1].tadr \in Nat /\ c \in {4, 9}
         /\ IsFiniteSet(Iop!Pauses(s, c)) /\ Iop!Pauses(s, c) \subseteq 1..s.chains[c] - 1
<1>1. s.chains[c] \in Nat /\ s.program[c] \in Seq(Iop!Writes) /\ Len(s.program[c]) \in Nat
  BY IopScenarioIs
<1>2. Iop!IsChain(s, c)
  <2>1. s.chains[c] # 0
    BY <1>1
  <2> QED
    BY <2>1, IopAssumption DEF Iop!ChainsBuilt, Iop!Chained
<1>3. s.program[c][1].tadr \in Nat
  <2>1. Len(s.program[c]) >= 2 /\ s.program[c][1].op = "regs"
    BY <1>2 DEF Iop!IsChain
  <2>2. 1 \in 1..Len(s.program[c])
    BY <1>1, <2>1
  <2>3. s.program[c][1] \in Iop!Writes
    BY <1>1, <2>2, ElementOfSeq
  <2> QED
    BY <2>1, <2>3 DEF Iop!Writes
<1>4. c \in {4, 9}
  BY <1>2 DEF Iop!IsChain, Iop!WithTadr
<1>5. Iop!Pauses(s, c) \in SUBSET (1..s.chains[c] - 1)
  BY DEF Iop!Pauses
<1>6. IsFiniteSet(Iop!Pauses(s, c))
  <2>1. s.chains[c] - 1 \in Int /\ 1 \in Int
    BY <1>1
  <2>2. IsFiniteSet(1..s.chains[c] - 1)
    BY <2>1, FS_Interval
  <2> QED
    BY <1>5, <2>2, FS_Subset
<1> QED
  BY <1>2, <1>3, <1>4, <1>5, <1>6

IopHeading(s, c, k) ==
  <<Iop!WordOf(s, Iop!AddrOf(s, c, k) + 2), Iop!WordOf(s, Iop!AddrOf(s, c, k) + 3), Zero, Zero>>
IopSize(s, c, k) == Iop!Rounded(Iop!TagOf(s, c, k).length)
IopData(s, c, k) ==
  [i \in 1..IopSize(s, c, k) |-> Iop!WordOf(s, Iop!TagOf(s, c, k).addr + (i - 1))]

(* The k-th tag and its packet.                                            *)
LEMMA IopPacketIs ==
  ASSUME NEW s \in IopScenarios, NEW c \in IopChannels, s.chains[c] > 0,
         NEW k \in 1..s.chains[c]
  PROVE  /\ Iop!AddrOf(s, c, k) \in Nat /\ Iop!TagOf(s, c, k) \in IopTags
         /\ IopHeading(s, c, k) \in Seq(Uword) /\ Len(IopHeading(s, c, k)) = 4
         /\ IopSize(s, c, k) \in Nat
         /\ IopData(s, c, k) \in Seq(Uword) /\ Len(IopData(s, c, k)) = IopSize(s, c, k)
         /\ Iop!Packet(s, c, k) = IopHeading(s, c, k) \o IopData(s, c, k)
         /\ Iop!Packet(s, c, k) \in Seq(Uword)
<1> DEFINE a == Iop!AddrOf(s, c, k)
           tag == Iop!TagOf(s, c, k)
<1>1. a \in Nat
  <2>1. s.program[c][1].tadr \in Nat
    BY IopChainIs
  <2>2. 4 * (k - 1) \in Nat
    BY IopScenarioIs
  <2> QED
    BY <2>1, <2>2 DEF Iop!AddrOf
<1> HIDE DEF a
<1>2. /\ Iop!WordOf(s, a) \in Uword /\ Iop!WordOf(s, a + 1) \in Uword
      /\ Iop!WordOf(s, a + 2) \in Uword /\ Iop!WordOf(s, a + 3) \in Uword
  <2>1. a \in Int /\ a + 1 \in Int /\ a + 2 \in Int /\ a + 3 \in Int
    BY <1>1
  <2> QED
    BY <2>1, IopScenarioIs
<1>3. tag \in IopTags
  <2>1. tag = Iop!Tag(Iop!WordOf(s, a), Iop!WordOf(s, a + 1))
    BY DEF Iop!TagOf, a
  <2> HIDE DEF tag
  <2> QED
    BY <1>2, <2>1, IopTagType DEF IopTags
<1>4. IopHeading(s, c, k) \in Seq(Uword) /\ Len(IopHeading(s, c, k)) = 4
  <2>1. Zero \in Uword
    BY DEF Zero, Uword
  <2> DEFINE w2 == Iop!WordOf(s, a + 2)
             w3 == Iop!WordOf(s, a + 3)
  <2> HIDE DEF w2, w3
  <2>2. <<w2, w3, Zero, Zero>> \in Seq(Uword) /\ Len(<<w2, w3, Zero, Zero>>) = 4
    BY <1>2, <2>1 DEF w2, w3
  <2> QED
    BY <2>2 DEF IopHeading, a, w2, w3
<1> HIDE DEF tag
<1>5. IopSize(s, c, k) \in Nat
  <2>1. tag.length \in Nat
    BY <1>3 DEF IopTags
  <2>2. \A n \in Nat : 4 * ((n + 3) \div 4) \in Nat
    OBVIOUS
  <2> QED
    BY <2>1, <2>2 DEF IopSize, Iop!Rounded, tag
<1>6. IopData(s, c, k) \in [1..IopSize(s, c, k) -> Uword]
  <2>1. tag.addr \in Nat
    BY <1>3 DEF IopTags
  <2>2. \A i \in 1..IopSize(s, c, k) : tag.addr + (i - 1) \in Int
    BY <1>5, <2>1
  <2>3. \A i \in 1..IopSize(s, c, k) : Iop!WordOf(s, tag.addr + (i - 1)) \in Uword
    BY <2>2, IopScenarioIs
  <2> QED
    BY <2>3 DEF IopData, tag
<1>7. IopData(s, c, k) \in Seq(Uword) /\ Len(IopData(s, c, k)) = IopSize(s, c, k)
  BY <1>5, <1>6, FunctionSeq
<1>8. Iop!Packet(s, c, k) = IopHeading(s, c, k) \o IopData(s, c, k)
  BY IopWords DEF Iop!Packet, IopHeading, IopData, IopSize
<1>9. Iop!Packet(s, c, k) \in Seq(Uword)
  BY <1>4, <1>7, <1>8, ConcatProperties
<1> QED
  BY <1>1, <1>3, <1>4, <1>5, <1>7, <1>8, <1>9 DEF a, tag

LEMMA IopPacketsAre ==
  ASSUME NEW s \in IopScenarios, NEW c \in IopChannels, s.chains[c] > 0
  PROVE  /\ s.chains[c] \in Nat /\ Iop!Packets(s, c) \in [0..s.chains[c] -> Seq(Uword)]
         /\ Iop!Packets(s, c)[0] = <<>>
         /\ \A k \in 1..s.chains[c] :
              Iop!Packets(s, c)[k] = Iop!Packets(s, c)[k - 1] \o Iop!Packet(s, c, k)
         /\ \A k \in 0..s.chains[c] : \A t \in Seq(Uword) :
              Begins(t, Iop!Packets(s, c)[k]) => Begins(t, Iop!Packets(s, c)[s.chains[c]])
<1> DEFINE n == s.chains[c]
           p == [k \in 1..n |-> Iop!Packet(s, c, k)]
<1>1. n \in Nat
  BY IopScenarioIs
<1>2. p \in [1..n -> Seq(Uword)]
  BY IopPacketIs
<1>3. Iop!Packets(s, c) = Joined(p)
  BY IopShared DEF Iop!Packets
<1> HIDE DEF n
<1>4. \A k \in 1..n : p[k] = Iop!Packet(s, c, k)
  OBVIOUS
<1> HIDE DEF p
<1> QED
  BY <1>1, <1>2, <1>3, <1>4, JoinedAre, JoinedBegin DEF n

(* The data of the k-th tag, from the end.                                 *)
LEMMA IopDataOf ==
  ASSUME NEW s \in IopScenarios, NEW c \in IopChannels, s.chains[c] > 0,
         NEW k \in 1..s.chains[c], NEW left \in 1..IopSize(s, c, k)
  PROVE  /\ left <= Len(Iop!Packets(s, c)[k])
         /\ Iop!Packets(s, c)[k][(Len(Iop!Packets(s, c)[k]) - left) + 1] =
              Iop!WordOf(s, Iop!TagOf(s, c, k).addr + (IopSize(s, c, k) - left))
<1> DEFINE n == IopSize(s, c, k)
           p == Iop!Packets(s, c)[k - 1]
           h == IopHeading(s, c, k)
           d == IopData(s, c, k)
           all == Iop!Packets(s, c)[k]
<1>1. n \in Nat /\ k \in Nat /\ k - 1 \in 0..s.chains[c]
  BY IopPacketIs, IopScenarioIs
<1>2. /\ d \in Seq(Uword) /\ Len(d) = n /\ h \in Seq(Uword) /\ Iop!Packet(s, c, k) = h \o d
  BY IopPacketIs
<1>3. p \in Seq(Uword) /\ all = p \o (h \o d)
  BY <1>1, <1>2, IopPacketsAre
<1>4. left \in 1..n
  OBVIOUS
<1> DEFINE x == (n - left) + 1
<1>5. x \in 1..n /\ x - 1 = n - left
  BY <1>1, <1>4
<1>6. d[x] = Iop!WordOf(s, Iop!TagOf(s, c, k).addr + (n - left))
  BY <1>5 DEF IopData
<1> HIDE DEF n, p, h, d, all
<1>7. /\ Len(h) \in Nat /\ h \o d \in Seq(Uword) /\ Len(h \o d) = Len(h) + Len(d)
      /\ \A m \in 1..Len(h) + Len(d) : (h \o d)[m] = IF m <= Len(h) THEN h[m] ELSE d[m - Len(h)]
  BY <1>2, ConcatProperties, LenProperties
<1>8. /\ Len(p) \in Nat /\ all \in Seq(Uword) /\ Len(all) = Len(p) + Len(h \o d)
      /\ \A m \in 1..Len(p) + Len(h \o d) : all[m] = IF m <= Len(p) THEN p[m] ELSE (h \o d)[m - Len(p)]
  BY <1>3, <1>7, ConcatProperties, LenProperties
<1>9. (Len(all) - left) + 1 = Len(p) + (Len(h) + x) /\ left <= Len(all)
  <2> DEFINE lp == Len(p)
             lh == Len(h)
             la == Len(all)
  <2>1. lp \in Nat /\ lh \in Nat /\ la = lp + (lh + n)
    BY <1>2, <1>7, <1>8
  <2> HIDE DEF lp, lh, la
  <2>2. (la - left) + 1 = lp + (lh + x) /\ left <= la
    BY <1>1, <1>4, <2>1
  <2> QED
    BY <2>2 DEF lp, lh, la
<1> HIDE DEF x
<1>10. (h \o d)[Len(h) + x] = d[x]
  <2>1. Len(h) + x \in 1..Len(h) + Len(d) /\ ~(Len(h) + x <= Len(h)) /\ (Len(h) + x) - Len(h) = x
    BY <1>1, <1>2, <1>5, <1>7
  <2> QED
    BY <1>7, <2>1
<1>11. all[Len(p) + (Len(h) + x)] = (h \o d)[Len(h) + x]
  <2> DEFINE y == Len(h) + x
  <2>1. y \in 1..Len(h \o d)
    BY <1>1, <1>2, <1>5, <1>7
  <2> HIDE DEF y
  <2>2. Len(p) + y \in 1..Len(p) + Len(h \o d) /\ ~(Len(p) + y <= Len(p)) /\ (Len(p) + y) - Len(p) = y
    BY <1>7, <1>8, <2>1, LenProperties
  <2>3. all[Len(p) + y] = (h \o d)[y]
    BY <1>8, <2>2
  <2> QED
    BY <2>3 DEF y
<1>12. all[(Len(all) - left) + 1] = Iop!WordOf(s, Iop!TagOf(s, c, k).addr + (n - left))
  BY <1>6, <1>9, <1>10, <1>11
<1> QED
  BY <1>9, <1>12 DEF all, n

LEMMA IopNoneTransferring ==
  ASSUME NEW c \in IopChannels, Iop!Advance(c) \/ iop_dmac' = [at |-> "fault", c |-> c], NEW d
  PROVE  ~Iop!Transferring(d)'
<1>1. iop_dmac'.at # "transfer"
  BY DEF Iop!Advance, Iop!Idle
<1> QED
  BY <1>1 DEF Iop!Transferring

(* What a chain's channel is known to do stays true when nobody touches it.*)
LEMMA IopChainKept ==
  ASSUME NEW c \in IopChannels, NEW k, Iop!Programmed(c, k), Iop!Follows(c, k),
         iop_setup' = iop_setup, iop_program'[c] = iop_program[c],
         iop_input'[Iop!Queue(c)] = iop_input[Iop!Queue(c)],
         iop_channels'[c] = iop_channels[c], Iop!Sent(c)' = Iop!Sent(c),
         Iop!Transferring(c)' => Iop!Transferring(c) \/ iop_channels[c].START
  PROVE  Iop!Programmed(c, k)' /\ Iop!Follows(c, k)'
<1>1. Iop!Written(c)' = Iop!Written(c) /\ Iop!ToCome(c, k)' = Iop!ToCome(c, k)
  BY DEF Iop!Written, Iop!ToCome
<1>2. Iop!Programmed(c, k)'
  BY <1>1 DEF Iop!Programmed
<1>3. Iop!Follows(c, k)'
  BY <1>1 DEF Iop!Follows
<1> QED
  BY <1>2, <1>3

(* The next write of the program.                                          *)
LEMMA IopNextWrite ==
  ASSUME NEW all \in Seq(Iop!Writes), NEW n \in 0..Len(all), NEW rest,
         rest = SubSeq(all, n + 1, Len(all)), rest # <<>>
  PROVE  /\ n + 1 \in 1..Len(all) /\ Head(rest) = all[n + 1] /\ Head(rest) \in Iop!Writes
         /\ Tail(rest) = SubSeq(all, n + 2, Len(all))
         /\ Len(rest) = Len(all) - n /\ Len(Tail(rest)) = Len(all) - (n + 1)
<1>1. Len(all) \in Nat /\ n \in Nat /\ n <= Len(all)
  BY LenProperties
<1>2. n # Len(all)
  <2> SUFFICES ASSUME n = Len(all) PROVE FALSE
    OBVIOUS
  <2> QED
    BY <1>1, SubSeqEmpty
<1>3. n + 1 \in 1..Len(all) /\ Len(all) \in n + 1..Len(all)
  BY <1>1, <1>2
<1>4. Head(rest) = all[n + 1] /\ Tail(rest) = SubSeq(all, (n + 1) + 1, Len(all))
  BY <1>3, HeadTailOfSubSeq
<1>5. (n + 1) + 1 = n + 2
  BY <1>1
<1>6. all[n + 1] \in Iop!Writes
  BY <1>3, ElementOfSeq
<1>7. rest \in Seq(Iop!Writes) /\ Len(rest) = Len(all) - n
  <2>1. \A i \in n + 1..Len(all) : all[i] \in Iop!Writes
    BY <1>1, ElementOfSeq
  <2>2. n + 1 \in Int /\ Len(all) \in Int
    BY <1>1
  <2>3. /\ rest \in Seq(Iop!Writes)
        /\ Len(rest) = IF n + 1 <= Len(all) THEN Len(all) - (n + 1) + 1 ELSE 0
    BY <2>1, <2>2, SubSeqProperties
  <2> QED
    BY <1>1, <1>3, <2>3
<1>8. Len(Tail(rest)) = Len(all) - (n + 1)
  BY <1>1, <1>7, HeadTailProperties
<1> QED
  BY <1>3, <1>4, <1>5, <1>6, <1>7, <1>8

(* Tags that are still to suspend the chain.                               *)
LEMMA IopToComeOf ==
  ASSUME NEW s \in IopScenarios, NEW c \in IopChannels, s.chains[c] > 0, NEW k \in Nat,
         NEW come, NEW next,
         next = {j \in Iop!Pauses(s, c) : j > k},
         come \subseteq {j \in Iop!Pauses(s, c) : j >= k}
  PROVE  /\ Cardinality(come) \in Nat /\ Cardinality(next) \in Nat
         /\ Cardinality(next) >= Cardinality(come) - 1
         /\ Cardinality(come) > 0 => k < s.chains[c]
<1>1. /\ IsFiniteSet(Iop!Pauses(s, c)) /\ Iop!Pauses(s, c) \subseteq 1..s.chains[c] - 1
      /\ s.chains[c] \in Nat
  BY IopChainIs, IopScenarioIs
<1>2. come \in SUBSET Iop!Pauses(s, c) /\ next \in SUBSET Iop!Pauses(s, c)
  OBVIOUS
<1>3. IsFiniteSet(come) /\ IsFiniteSet(next)
  BY <1>1, <1>2, FS_Subset
<1>4. Cardinality(come) \in Nat /\ Cardinality(next) \in Nat
  BY <1>3, FS_CardinalityType
<1>5. Cardinality(next) >= Cardinality(come) - 1
  <2>1. come \ {k} \in SUBSET next
    BY <1>1
  <2>2. Cardinality(come \ {k}) <= Cardinality(next)
    BY <1>3, <2>1, FS_Subset
  <2>3. Cardinality(come \ {k}) = IF k \in come THEN Cardinality(come) - 1 ELSE Cardinality(come)
    BY <1>3, FS_RemoveElement
  <2> QED
    BY <1>4, <2>2, <2>3
<1>6. Cardinality(come) > 0 => k < s.chains[c]
  <2> SUFFICES ASSUME Cardinality(come) > 0 PROVE k < s.chains[c]
    OBVIOUS
  <2>1. come # {}
    <3>1. Cardinality({}) = 0 /\ ~(0 > 0)
      BY FS_EmptySet
    <3> QED
      BY <3>1
  <2>2. PICK j \in come : TRUE
    BY <2>1
  <2> QED
    BY <1>1, <2>2
<1> QED
  BY <1>4, <1>5, <1>6

(* What a chain's program writes to CHCR.                                  *)
IopStarts(ch, new) ==
  /\ ch.START = TRUE /\ ch.SM = new.SM /\ ch.TD = TO /\ ch.CE = new.CE /\ ch.MAS = new.MAS
  /\ ch.dma_tag = Iop!NoTag /\ ch.transfer_length = new.transfer_length
  /\ ch.madr = new.madr /\ ch.tadr = new.tadr

LEMMA IopStarted ==
  ASSUME NEW c \in {4, 9}, NEW old \in Iop!Registers, NEW new \in Iop!Registers,
         ~old.START, new.START = TRUE, new.TD = TO
  PROVE  IopStarts(Iop!WriteChcr(c, old, new), new)
<1> DEFINE hard == Iop!Hardwired(c, new)
           ch == Iop!WriteChcr(c, old, new)
<1>1. hard = new \/ hard = [new EXCEPT !.TD = TO]
  BY IopWords DEF Iop!Hardwired
<1>2. /\ hard \in Iop!Registers /\ hard.START = TRUE /\ hard.SM = new.SM /\ hard.TD = TO
      /\ hard.CE = new.CE /\ hard.MAS = new.MAS /\ hard.transfer_length = new.transfer_length
      /\ hard.madr = new.madr /\ hard.tadr = new.tadr
  BY <1>1, IopWords DEF Iop!Registers
<1> HIDE DEF hard
<1>3. ch = [hard EXCEPT !.dma_started = FALSE, !.dma_tag = Iop!NoTag]
  BY DEF Iop!WriteChcr, hard
<1> HIDE DEF ch
<1>4. IopStarts(ch, new)
  BY <1>2, <1>3 DEF Iop!Registers, IopStarts
<1> QED
  BY <1>4 DEF ch

(* The program's writes to a channel that sends a chain.                   *)
LEMMA IopChainWrites ==
  ASSUME Iop!TypeOK, NEW c \in IopChannels, iop_setup.chains[c] > 0,
         NEW k \in 0..iop_setup.chains[c],
         Iop!Programmed(c, k), Iop!Follows(c, k), Iop!CoreWrite(c)
  PROVE  Iop!Programmed(c, k)' /\ Iop!Follows(c, k)'
<1> DEFINE all == iop_setup.program[c]
           n == Iop!Written(c)
           w == Head(iop_program[c])
           ch == iop_channels[c]
           new == iop_channels'[c]
           started == [ch EXCEPT !.START = TRUE, !.SM = w.SM, !.TD = w.TD,
                                 !.MAS = w.MAS, !.CE = w.CE]
           resumed == [ch EXCEPT !.START = TRUE]
           chcr == CASE w.op = "start" -> started
                     [] w.op = "resume" -> resumed
                     [] w.op = "stop" -> [ch EXCEPT !.START = FALSE]
           set == [ch EXCEPT !.BS = w.BS, !.BA = w.BA, !.madr = w.madr, !.tadr = w.tadr]
           tags == iop_setup.chains[c]
<1>1. /\ iop_setup \in IopScenarios /\ ch \in Iop!Registers
      /\ iop_channels \in [IopChannels -> Iop!Registers]
      /\ iop_program \in [IopChannels -> Seq(Iop!Writes)]
      /\ ch.transfer_length \in Nat
  BY DEF Iop!TypeOK, Iop!Registers
<1>2. /\ Iop!IsChain(iop_setup, c) /\ all \in Seq(Iop!Writes) /\ Len(all) \in Nat
      /\ tags \in Nat /\ tags > 0 /\ c \in {4, 9} /\ all[1].tadr \in Nat
  BY <1>1, IopChainIs, IopScenarioIs
<1>3. /\ iop_program[c] # <<>>
      /\ iop_program' = [iop_program EXCEPT ![c] = Tail(iop_program[c])]
      /\ iop_setup' = iop_setup /\ iop_input' = iop_input /\ iop_received' = iop_received
      /\ fifo' = fifo /\ iop_dmac' = iop_dmac
  BY DEF Iop!CoreWrite
<1>4. n \in 0..Len(all) /\ iop_program[c] = SubSeq(all, n + 1, Len(all))
  BY DEF Iop!Programmed
<1>5. /\ n + 1 \in 1..Len(all) /\ w = all[n + 1] /\ w \in Iop!Writes
      /\ Tail(iop_program[c]) = SubSeq(all, n + 2, Len(all))
      /\ Len(iop_program[c]) = Len(all) - n /\ Len(Tail(iop_program[c])) = Len(all) - (n + 1)
  BY <1>2, <1>3, <1>4, IopNextWrite
<1>6. iop_program'[c] = Tail(iop_program[c])
  BY <1>1, <1>3
<1>7. Iop!Written(c)' = n + 1 /\ Len(iop_program'[c]) = Len(iop_program[c]) - 1
  <2>1. Iop!Written(c)' = Len(all) - Len(Tail(iop_program[c]))
    BY <1>3, <1>6 DEF Iop!Written
  <2> HIDE DEF n, all
  <2>2. n \in Int /\ Len(all) \in Int
    BY <1>2, <1>4
  <2>3. Len(all) - (Len(all) - (n + 1)) = n + 1 /\ Len(all) - (n + 1) = (Len(all) - n) - 1
    BY <2>2
  <2> QED
    BY <1>5, <1>6, <2>1, <2>3
<1>8. Iop!Sent(c)' = Iop!Sent(c) /\ (Iop!Transferring(c)' <=> Iop!Transferring(c))
  BY <1>3 DEF Iop!Sent, Iop!Transferring
<1>9. /\ iop_input'[Iop!Queue(c)] = <<>> /\ Iop!Written(c)' \in 0..Len(all)
      /\ iop_program'[c] = SubSeq(all, Iop!Written(c)' + 1, Len(all))
  <2>1. (n + 1) + 1 = n + 2 /\ n + 1 \in 0..Len(all)
    <3> HIDE DEF n, all
    <3>1. n \in Nat
      BY <1>2, <1>4
    <3>2. n + 1 \in 1..Len(all) /\ Len(all) \in Nat
      BY <1>2, <1>5, Zenon
    <3> QED
      BY <3>1, <3>2
  <2> QED
    BY <1>3, <1>5, <1>6, <1>7, <2>1 DEF Iop!Programmed
<1>10. n \in Nat
  BY <1>2, <1>4
<1>11. /\ w.op = "regs" => new = set /\ ~ch.START
       /\ w.op # "regs" => new = Iop!WriteChcr(c, ch, chcr)
       /\ w.op \in {"start", "resume"} => ~ch.START
  <2>1. c # 10
    BY <1>2
  <2> QED
    BY <1>1, <2>1 DEF Iop!CoreWrite, Iop!SetChannel
<1>12. ~ch.START => ch.transfer_length = 0
  BY <1>1 DEF Iop!Follows
<1> HIDE DEF n, w, all, tags
<1>13. CASE n = 0
  <2>1. w.op = "regs" /\ w.tadr = all[1].tadr
    BY <1>2, <1>5, <1>13 DEF Iop!IsChain, all
  <2>2. k = 0 /\ ~ch.START /\ ~Iop!Transferring(c) /\ ch.dma_tag = Iop!NoTag
    BY <1>13 DEF Iop!Programmed, n
  <2>3. new = set
    BY <1>11, <2>1
  <2>4. /\ set.START = ch.START /\ set.dma_tag = ch.dma_tag
        /\ set.transfer_length = ch.transfer_length /\ set.tadr = w.tadr
    BY <1>1 DEF Iop!Registers
  <2> HIDE DEF new, set
  <2>5. ~new.START /\ new.dma_tag = Iop!NoTag /\ new.transfer_length = 0 /\ new.tadr = all[1].tadr
    BY <1>12, <2>1, <2>2, <2>3, <2>4
  <2>6. Iop!Written(c)' = 1
    BY <1>7, <1>13
  <2>7. Iop!Programmed(c, k)'
    <3>1. Iop!Written(c)' <= 1 /\ ~(Iop!Written(c)' > 1)
      BY <2>6
    <3> QED
      BY <1>3, <1>8, <1>9, <2>2, <2>5, <3>1 DEF Iop!Programmed, all, new
  <2>8. Iop!Follows(c, k)'
    <3>1. /\ Len(Iop!Sent(c)) + 0 = Len(Iop!Packets(iop_setup, c)[k])
          /\ Iop!Begins(Iop!Sent(c), Iop!Packets(iop_setup, c)[k])
      BY <1>12, <2>2 DEF Iop!Follows
    <3>2. Iop!AddrOf(iop_setup, c, 0 + 1) = all[1].tadr
      BY <1>2 DEF Iop!AddrOf, all
    <3> QED
      BY <1>2, <1>3, <1>8, <2>2, <2>5, <2>6, <3>1, <3>2 DEF Iop!Follows, new, tags
  <2> QED
    BY <2>7, <2>8
<1>14. CASE n = 1
  <2>1. /\ w.op = "start" /\ w.SM = Iop!CHAIN /\ w.TD = TO /\ w.CE = TRUE /\ w.MAS = FALSE
    <3>1. w = all[2]
      BY <1>5, <1>14
    <3>2. all[2].op = "start" /\ all[2].SM = Iop!CHAIN /\ all[2].TD = TO /\ all[2].CE /\ ~all[2].MAS
      BY <1>2, IopWords DEF Iop!IsChain, all
    <3>3. w \in [op : {"start"}, SM : 0..3, TD : {Iop!FROM, Iop!TO}, MAS : BOOLEAN, CE : BOOLEAN]
      BY <1>5, <3>1, <3>2 DEF Iop!Writes
    <3> QED
      BY <3>1, <3>2, <3>3
  <2>2. k = 0 /\ ~ch.START /\ ~Iop!Transferring(c)
    BY <1>14 DEF Iop!Programmed, n
  <2>3. /\ started \in Iop!Registers /\ started.TD = TO /\ started.START = TRUE
        /\ started.SM = Iop!CHAIN /\ started.CE = TRUE /\ started.MAS = FALSE
        /\ started.transfer_length = ch.transfer_length /\ started.madr = ch.madr
        /\ started.tadr = ch.tadr
    <3>1. started \in Iop!Registers
      BY <1>1, <1>5, <2>1, IopWrittenType
    <3> QED
      BY <1>1, <2>1, <3>1 DEF Iop!Registers
  <2>4. new = Iop!WriteChcr(c, ch, started)
    BY <1>11, <2>1
  <2> HIDE DEF new, started
  <2>5. /\ new.START = TRUE /\ new.SM = Iop!CHAIN /\ new.TD = TO /\ new.CE = TRUE
        /\ new.MAS = FALSE /\ new.dma_tag = Iop!NoTag
        /\ new.transfer_length = 0 /\ new.tadr = ch.tadr
    <3>1. ch \in Iop!Registers /\ c \in {4, 9} /\ ch.transfer_length = 0
      BY <1>1, <1>2, <1>12, <2>2
    <3> HIDE DEF ch
    <3>2. IopStarts(new, started)
      BY <2>2, <2>3, <2>4, <3>1, IopStarted, Zenon
    <3> QED
      BY <2>3, <3>1, <3>2 DEF IopStarts
  <2>6. Iop!Programmed(c, k)'
    <3>1. Iop!ToCome(c, k)' = Iop!Pauses(iop_setup, c)
      <4>1. Iop!ToCome(c, k)' =
              {j \in Iop!Pauses(iop_setup, c) : j > k \/ (j = k /\ new.dma_tag.irq)}
        BY <1>3 DEF Iop!ToCome, new
      <4> QED
        <5>1. Iop!Pauses(iop_setup, c) \subseteq 1..iop_setup.chains[c] - 1
          BY <1>1, IopChainIs
        <5>2. \A j \in Iop!Pauses(iop_setup, c) : j > 0
          BY <1>2, <5>1 DEF tags
        <5> QED
          BY <2>2, <4>1, <5>2
    <3>2. Len(all) - 2 <= Cardinality(Iop!Pauses(iop_setup, c))
      BY <1>2, IopShared DEF Iop!IsChain, all
    <3>3. Iop!Written(c)' = 2 /\ Len(iop_program'[c]) = Len(all) - 2
      BY <1>2, <1>5, <1>7, <1>14
    <3>4. Len(iop_program'[c]) <= Cardinality(Iop!ToCome(c, k)')
      BY <3>1, <3>2, <3>3
    <3>5. ~(Iop!Written(c)' <= 1)
      BY <3>3
    <3> QED
      BY <1>3, <1>9, <2>5, <3>4, <3>5, IopWords, IopShared DEF Iop!Programmed, all, new
  <2>7. Iop!Follows(c, k)'
    <3>1. /\ Len(Iop!Sent(c)) + 0 = Len(Iop!Packets(iop_setup, c)[k])
          /\ Iop!Begins(Iop!Sent(c), Iop!Packets(iop_setup, c)[k])
      BY <1>12, <2>2 DEF Iop!Follows
    <3>2. ch.tadr = Iop!AddrOf(iop_setup, c, k + 1)
      BY <1>2, <1>14, <2>2 DEF Iop!Follows, n, tags
    <3> QED
      BY <1>2, <1>3, <1>8, <2>2, <2>5, <3>1, <3>2 DEF Iop!Follows, new, tags
  <2> QED
    BY <2>6, <2>7
<1>15. CASE n >= 2
  <2>1. w.op = "resume"
    <3>1. n + 1 \in 3..Len(all)
      BY <1>2, <1>5, <1>10, <1>15
    <3> QED
      BY <1>2, <1>5, <3>1 DEF Iop!IsChain, all
  <2>2. ~ch.START /\ new = Iop!WriteChcr(c, ch, resumed)
    BY <1>11, <2>1
  <2>3. /\ ch.SM = Iop!CHAIN /\ ch.TD = TO /\ ch.CE /\ ~ch.MAS
        /\ Len(iop_program[c]) <= Cardinality(Iop!ToCome(c, k))
    <3>1. n > 1
      BY <1>10, <1>15
    <3> QED
      BY <3>1, IopWords, IopShared DEF Iop!Programmed, n
  <2>4. /\ resumed \in Iop!Registers /\ resumed.TD = TO /\ resumed.START = TRUE
        /\ resumed.SM = Iop!CHAIN /\ resumed.CE = ch.CE /\ resumed.MAS = ch.MAS
        /\ resumed.transfer_length = ch.transfer_length /\ resumed.tadr = ch.tadr
    BY <1>1, <2>3, IopWords DEF Iop!Registers
  <2> HIDE DEF new, resumed
  <2>5. /\ new.START = TRUE /\ new.SM = Iop!CHAIN /\ new.TD = TO /\ new.CE = ch.CE
        /\ new.MAS = ch.MAS /\ new.dma_tag = Iop!NoTag
        /\ new.transfer_length = 0 /\ new.tadr = ch.tadr
    <3>1. ch \in Iop!Registers /\ c \in {4, 9} /\ ch.transfer_length = 0
      BY <1>1, <1>2, <1>12, <2>2
    <3> HIDE DEF ch
    <3>2. IopStarts(new, resumed)
      BY <2>2, <2>4, <3>1, IopStarted, Zenon
    <3> QED
      BY <2>4, <3>1, <3>2 DEF IopStarts
  <2>6. k \in Nat
    BY <1>2 DEF tags
  <2> DEFINE come == Iop!ToCome(c, k)
             next == Iop!ToCome(c, k)'
  <2>7. /\ next = {j \in Iop!Pauses(iop_setup, c) : j > k}
        /\ come \subseteq {j \in Iop!Pauses(iop_setup, c) : j >= k}
    <3>1. next = {j \in Iop!Pauses(iop_setup, c) : j > k \/ (j = k /\ new.dma_tag.irq)}
      BY <1>3 DEF Iop!ToCome, new
    <3>2. new.dma_tag.irq = FALSE
      BY <2>5 DEF Iop!NoTag
    <3>3. next = {j \in Iop!Pauses(iop_setup, c) : j > k}
      BY <3>1, <3>2
    <3>4. come \subseteq {j \in Iop!Pauses(iop_setup, c) : j >= k}
      BY <1>1, <1>2, <2>6, IopChainIs DEF Iop!ToCome, tags
    <3> QED
      BY <3>3, <3>4
  <2> HIDE DEF come, next
  <2>8. /\ Cardinality(come) \in Nat /\ Cardinality(next) \in Nat
        /\ Cardinality(next) >= Cardinality(come) - 1
        /\ Cardinality(come) > 0 => k < tags
    BY <1>1, <2>6, <2>7, IopToComeOf DEF tags
  <2>9. Len(iop_program[c]) \in Nat /\ Len(iop_program[c]) > 0
    BY <1>2, <1>5, <1>10
  <2>10. k < tags
    BY <2>3, <2>8, <2>9 DEF come
  <2>11. Iop!Programmed(c, k)'
    <3>1. Len(iop_program'[c]) <= Cardinality(next)
      BY <1>7, <2>3, <2>8, <2>9 DEF come
    <3>2. ~(Iop!Written(c)' <= 1)
      BY <1>7, <1>10, <1>15
    <3> QED
      BY <1>3, <1>9, <2>3, <2>5, <3>1, <3>2, IopWords, IopShared DEF Iop!Programmed, all, new, next
  <2>12. Iop!Follows(c, k)'
    <3>1. Iop!Written(c) > 0
      BY <1>10, <1>15 DEF n
    <3>2. k # tags
      BY <1>2, <2>6, <2>10
    <3>3. /\ Len(Iop!Sent(c)) + 0 = Len(Iop!Packets(iop_setup, c)[k])
          /\ Iop!Begins(Iop!Sent(c), Iop!Packets(iop_setup, c)[k])
          /\ ch.tadr = Iop!AddrOf(iop_setup, c, k + 1)
      BY <1>12, <2>2, <2>10, <3>1 DEF Iop!Follows, tags
    <3> QED
      BY <1>3, <1>8, <2>5, <3>2, <3>3 DEF Iop!Follows, new, tags
  <2> QED
    BY <2>11, <2>12
<1> QED
  BY <1>10, <1>13, <1>14, <1>15

(* What is known of the channel of a chain that the DMAC attends to.       *)
LEMMA IopChainRuns ==
  ASSUME Iop!TypeOK, NEW c \in IopChannels, NEW k, Iop!Programmed(c, k), Iop!Transferring(c)
  PROVE  /\ Iop!Written(c) \in Nat /\ Iop!Written(c) > 1
         /\ iop_channels[c].SM = Iop!CHAIN /\ iop_channels[c].TD = TO
         /\ iop_channels[c].CE /\ ~iop_channels[c].MAS
<1>1. Len(iop_setup.program[c]) \in Nat
  BY IopScenarioIs DEF Iop!TypeOK
<1>2. Iop!Written(c) \in Nat
  BY <1>1 DEF Iop!Programmed
<1>3. ~(Iop!Written(c) <= 1)
  BY DEF Iop!Programmed
<1>4. Iop!Written(c) > 1
  BY <1>2, <1>3
<1> QED
  BY <1>2, <1>4, IopWords DEF Iop!Programmed

LEMMA IopChainRunsOn ==
  ASSUME NEW c \in IopChannels, NEW k, NEW m, Iop!Programmed(c, k),
         Iop!Written(c) \in Nat, Iop!Written(c) > 1,
         iop_setup' = iop_setup, iop_program' = iop_program, iop_input' = iop_input,
         iop_channels'[c].SM = iop_channels[c].SM, iop_channels'[c].TD = iop_channels[c].TD,
         iop_channels'[c].CE = iop_channels[c].CE, iop_channels'[c].MAS = iop_channels[c].MAS,
         Iop!ToCome(c, m)' = Iop!ToCome(c, k), ~Iop!Transferring(c)'
  PROVE  Iop!Programmed(c, m)'
<1>1. Iop!Written(c)' = Iop!Written(c)
  BY DEF Iop!Written
<1>2. ~(Iop!Written(c) <= 1)
  OBVIOUS
<1> QED
  BY <1>1, <1>2 DEF Iop!Programmed

(* The steps that move no data and read no tag.                            *)
LEMMA IopChainSkips ==
  ASSUME Iop!TypeOK, NEW c \in IopChannels, iop_setup.chains[c] > 0,
         NEW k \in 0..iop_setup.chains[c],
         Iop!Programmed(c, k), Iop!Follows(c, k),
         \/ Iop!Begin(c) \/ Iop!Blocked(c) \/ Iop!AwaitPeripheral(c) \/ Iop!TagBlocked(c)
         \/ Iop!Fault(c) \/ Iop!Suspend(c)
  PROVE  Iop!Programmed(c, k)' /\ Iop!Follows(c, k)' /\ iop_memory' = iop_memory
<1> DEFINE ch == iop_channels[c]
           new == iop_channels'[c]
<1>1. /\ iop_setup \in IopScenarios /\ ch \in Iop!Registers
      /\ iop_channels \in [IopChannels -> Iop!Registers] /\ c \in {4, 9}
      /\ ch.transfer_length \in Nat
  BY IopChainIs DEF Iop!TypeOK, Iop!Registers
<1>2. Iop!Transferring(c)
  BY DEF Iop!Begin, Iop!Blocked, Iop!Moving, Iop!AwaitPeripheral, Iop!Finished, Iop!TagBlocked,
         Iop!WantsTag, Iop!Fault, Iop!Unsupported, Iop!Suspend
<1>3. /\ Iop!Written(c) \in Nat /\ Iop!Written(c) > 1 /\ ch.TD = TO /\ ch.SM = Iop!CHAIN
  BY <1>2, IopChainRuns
<1>4. /\ iop_setup' = iop_setup /\ iop_program' = iop_program /\ iop_input' = iop_input
      /\ iop_received' = iop_received /\ fifo' = fifo /\ iop_memory' = iop_memory
  BY DEF Iop!Begin, Iop!Blocked, Iop!AwaitPeripheral, Iop!TagBlocked, Iop!Fault, Iop!Suspend,
         Iop!env
<1>5. ch.transfer_length > 0 => ch.START /\ ch.dma_started
  BY DEF Iop!Follows
<1>6. /\ new.SM = ch.SM /\ new.TD = ch.TD /\ new.CE = ch.CE /\ new.MAS = ch.MAS
      /\ new.dma_tag = ch.dma_tag /\ new.transfer_length = ch.transfer_length
      /\ new.madr = ch.madr /\ new.tadr = ch.tadr
      /\ new.transfer_length > 0 => new.START /\ new.dma_started
  <2>1. CASE Iop!Begin(c)
    <3>1. new = [ch EXCEPT !.dma_started = TRUE, !.transfer_length = 0]
      BY <1>1, <1>3, <2>1 DEF Iop!Begin, Iop!SetChannel
    <3>2. ch.transfer_length = 0
      BY <1>1, <1>5, <2>1 DEF Iop!Begin
    <3> HIDE DEF new
    <3> QED
      BY <1>1, <3>1, <3>2 DEF Iop!Registers
  <2>2. CASE Iop!Suspend(c)
    <3> DEFINE stopped == [ch EXCEPT !.START = FALSE]
    <3>1. new = Iop!WriteChcr(c, ch, stopped)
      BY <1>1, <2>2 DEF Iop!Suspend, Iop!SetChannel
    <3>2. stopped \in Iop!Registers /\ stopped.TD = TO /\ stopped.START = FALSE
      BY <1>1, <1>3 DEF Iop!Registers
    <3>3. new = Iop!Hardwired(c, stopped)
      BY <3>1, <3>2 DEF Iop!WriteChcr
    <3>4. new = stopped \/ new = [stopped EXCEPT !.TD = TO]
      BY <1>1, <3>3, IopWords DEF Iop!Hardwired
    <3>5. ch.transfer_length = 0
      BY <2>2 DEF Iop!Suspend, Iop!Finished
    <3>6. /\ stopped.SM = ch.SM /\ stopped.TD = TO /\ stopped.CE = ch.CE /\ stopped.MAS = ch.MAS
          /\ stopped.dma_tag = ch.dma_tag /\ stopped.transfer_length = ch.transfer_length
          /\ stopped.madr = ch.madr /\ stopped.tadr = ch.tadr
      BY <1>1, <3>2 DEF Iop!Registers
    <3> HIDE DEF new, stopped
    <3>7. /\ new.SM = ch.SM /\ new.TD = TO /\ new.CE = ch.CE /\ new.MAS = ch.MAS
          /\ new.dma_tag = ch.dma_tag /\ new.transfer_length = ch.transfer_length
          /\ new.madr = ch.madr /\ new.tadr = ch.tadr
      BY <3>2, <3>4, <3>6 DEF Iop!Registers
    <3> QED
      BY <1>3, <3>5, <3>7
  <2>3. CASE Iop!Blocked(c) \/ Iop!AwaitPeripheral(c) \/ Iop!TagBlocked(c) \/ Iop!Fault(c)
    <3>1. iop_channels' = iop_channels
      BY <2>3 DEF Iop!Blocked, Iop!AwaitPeripheral, Iop!TagBlocked, Iop!Fault
    <3> QED
      BY <1>5, <3>1
  <2> QED
    BY <2>1, <2>2, <2>3
<1>7. /\ Iop!Sent(c)' = Iop!Sent(c) /\ Iop!ToCome(c, k)' = Iop!ToCome(c, k)
      /\ Iop!Written(c)' = Iop!Written(c)
  BY <1>4, <1>6 DEF Iop!Sent, Iop!ToCome, Iop!Written
<1> HIDE DEF new, ch
<1>8. ~Iop!Transferring(c)'
  BY IopNoneTransferring DEF Iop!Begin, Iop!Blocked, Iop!AwaitPeripheral, Iop!TagBlocked,
     Iop!Fault, Iop!Suspend
<1>9. Iop!Programmed(c, k)'
  BY <1>3, <1>4, <1>6, <1>7, <1>8, IopChainRunsOn DEF new, ch
<1>10. Iop!Follows(c, k)'
  BY <1>4, <1>6, <1>7 DEF Iop!Follows, new, ch
<1> QED
  BY <1>4, <1>9, <1>10

(* A word of data is sent: the next one.                                   *)
LEMMA IopChainMoves ==
  ASSUME Iop!TypeOK, NEW c \in IopChannels, iop_setup.chains[c] > 0,
         NEW k \in 0..iop_setup.chains[c],
         Iop!Programmed(c, k), Iop!Follows(c, k), iop_memory = iop_setup.memory, Iop!Move(c)
  PROVE  Iop!Programmed(c, k)' /\ Iop!Follows(c, k)' /\ iop_memory' = iop_memory
<1> DEFINE ch == iop_channels[c]
           new == iop_channels'[c]
           q == Iop!Queue(c)
           w == iop_memory[ch.madr % IopMemSize]
           all == Iop!Packets(iop_setup, c)[k]
           addr == Iop!TagOf(iop_setup, c, k).addr
           n == IopSize(iop_setup, c, k)
           left == ch.transfer_length
<1>1. /\ iop_setup \in IopScenarios /\ ch \in Iop!Registers
      /\ iop_channels \in [IopChannels -> Iop!Registers] /\ q \in Iop!Queues
      /\ fifo \in [Iop!Queues -> Seq(Uword)] /\ fifo[q] \in Seq(Uword)
      /\ iop_received[q] \in Seq(Uword)
  BY IopWords DEF Iop!TypeOK, Iop!Queues
<1>2. Iop!Transferring(c) /\ left > 0 /\ left \in Nat /\ ch.madr \in Int
  BY <1>1 DEF Iop!Move, Iop!Moving, Iop!Registers
<1>3. /\ Iop!Written(c) \in Nat /\ Iop!Written(c) > 1 /\ ch.TD = TO /\ ~ch.MAS
  BY <1>2, IopChainRuns
<1>4. w \in Uword /\ w = Iop!WordOf(iop_setup, ch.madr)
  BY <1>2, IopMemoryType DEF Iop!WordOf
<1>5. fifo' = [fifo EXCEPT ![q] = Append(fifo[q], w)] /\ iop_memory' = iop_memory
  BY <1>3, IopWords DEF Iop!Move
<1>6. /\ iop_setup' = iop_setup /\ iop_program' = iop_program /\ iop_input' = iop_input
      /\ iop_received' = iop_received
  BY DEF Iop!Move, Iop!env
<1>7. new = [ch EXCEPT !.madr = ch.madr + 1, !.transfer_length = left - 1]
  BY <1>1, <1>3 DEF Iop!Move, Iop!SetChannel
<1>8. /\ new.SM = ch.SM /\ new.TD = ch.TD /\ new.CE = ch.CE /\ new.MAS = ch.MAS
      /\ new.dma_tag = ch.dma_tag /\ new.tadr = ch.tadr
      /\ new.START = ch.START /\ new.dma_started = ch.dma_started
      /\ new.transfer_length = left - 1 /\ new.madr = ch.madr + 1
  BY <1>1, <1>7 DEF Iop!Registers
<1>9. Iop!Sent(c)' = Iop!Sent(c) \o <<w>> /\ Iop!Sent(c) \in Seq(Uword)
  <2> HIDE DEF w
  <2>1. <<w>> \in Seq(Uword) /\ Append(fifo[q], w) = fifo[q] \o <<w>>
    BY <1>1, <1>4, AppendProperties, AppendIsConcat
  <2>2. Iop!Sent(c)' = iop_received[q] \o (fifo[q] \o <<w>>)
    BY <1>1, <1>5, <1>6, <2>1 DEF Iop!Sent
  <2>3. (iop_received[q] \o fifo[q]) \o <<w>> = iop_received[q] \o (fifo[q] \o <<w>>)
    <3>1. \A s, t, u \in Seq(Uword) : (s \o t) \o u = s \o (t \o u)
      BY ConcatAssociative
    <3> QED
      BY <1>1, <2>1, <3>1, Zenon
  <2>4. Iop!Sent(c) = iop_received[q] \o fifo[q] /\ Iop!Sent(c) \in Seq(Uword)
    BY <1>1, ConcatProperties DEF Iop!Sent
  <2> QED
    BY <2>2, <2>3, <2>4
<1>10. /\ Len(Iop!Sent(c)) + left = Len(all) /\ Begins(Iop!Sent(c), all)
       /\ k > 0 /\ left <= n /\ ch.madr = addr + (n - left) /\ ch.START /\ ch.dma_started
  BY <1>2, IopShared DEF Iop!Follows, IopSize
<1>11. k \in 1..iop_setup.chains[c] /\ iop_setup.chains[c] \in Nat
  BY <1>1, <1>10, IopScenarioIs
<1>12. n \in Nat /\ addr \in Nat /\ all \in Seq(Uword) /\ Len(all) \in Nat
  <2>1. n \in Nat /\ addr \in Nat
    BY <1>1, <1>11, IopPacketIs DEF IopTags
  <2>2. all \in Seq(Uword)
    BY <1>1, IopPacketsAre
  <2> QED
    BY <2>1, <2>2, LenProperties
<1>13. all[Len(Iop!Sent(c)) + 1] = w
  <2>1. left \in 1..n
    BY <1>2, <1>10, <1>12
  <2>2. all[(Len(all) - left) + 1] = Iop!WordOf(iop_setup, addr + (n - left))
    BY <1>1, <1>11, <2>1, IopDataOf
  <2>3. Len(all) - left = Len(Iop!Sent(c))
    <3>1. Len(Iop!Sent(c)) \in Nat
      BY <1>9, LenProperties
    <3> HIDE DEF all, left
    <3> QED
      BY <1>2, <1>10, <1>12, <3>1
  <2> QED
    BY <1>4, <1>10, <2>2, <2>3, Zenon
<1> HIDE DEF w, all, addr, n, new, ch, left
<1>14. /\ Len(Iop!Sent(c)') = Len(Iop!Sent(c)) + 1 /\ Begins(Iop!Sent(c)', all)
       /\ Len(Iop!Sent(c)) \in Nat
  <2> DEFINE s == Iop!Sent(c)
             one == <<w>>
  <2>1. one \in Seq(Uword) /\ Len(one) = 1 /\ one[1] = w
    BY <1>4
  <2>2. s \in Seq(Uword) /\ Len(s) \in Nat /\ Begins(s, all) /\ all[Len(s) + 1] = w
        /\ Len(s) + left = Len(all)
    BY <1>9, <1>10, <1>13, LenProperties
  <2>3. s' = s \o one
    BY <1>9
  <2> HIDE DEF s, one
  <2>4. Len(s) + Len(one) <= Len(all) /\ \A i \in 1..Len(one) : all[Len(s) + i] = one[i]
    BY <1>2, <1>12, <2>1, <2>2
  <2>5. Len(s \o one) = Len(s) + 1 /\ Begins(s \o one, all)
    BY <1>12, <2>1, <2>2, <2>4, BeginsMore
  <2>6. Iop!Sent(c)' = s \o one
    BY <2>3 DEF s
  <2> QED
    BY <2>2, <2>5, <2>6 DEF s
<1>15. Iop!ToCome(c, k)' = Iop!ToCome(c, k) /\ Iop!Written(c)' = Iop!Written(c)
  BY <1>6, <1>8 DEF Iop!ToCome, Iop!Written, new, ch
<1>16. Iop!Programmed(c, k)'
  <2>1. ~Iop!Transferring(c)'
    BY IopNoneTransferring DEF Iop!Move
  <2> QED
    BY <1>3, <1>6, <1>8, <1>15, <2>1, IopChainRunsOn DEF new, ch
<1>17. Iop!Follows(c, k)'
  <2>1. Len(Iop!Sent(c)') + new.transfer_length = Len(all)
    BY <1>2, <1>8, <1>10, <1>12, <1>14
  <2>2. new.transfer_length <= n /\ new.madr = addr + (n - new.transfer_length)
    BY <1>2, <1>8, <1>10, <1>12
  <2>3. (Iop!Begins(Iop!Sent(c), Iop!Packets(iop_setup, c)[k]))' <=> Begins(Iop!Sent(c)', all)
    BY <1>6, IopShared DEF all
  <2>4. /\ ch.dma_tag # Iop!NoTag \/ k = iop_setup.chains[c] =>
             k > 0 /\ ch.dma_tag = Iop!TagOf(iop_setup, c, k)
        /\ k < iop_setup.chains[c] /\ Iop!Written(c) > 0 => ch.tadr = Iop!AddrOf(iop_setup, c, k + 1)
    BY DEF Iop!Follows, ch
  <2> QED
    BY <1>6, <1>8, <1>10, <1>14, <1>15, <2>1, <2>2, <2>3, <2>4
       DEF Iop!Follows, IopSize, new, all, addr, n
<1> QED
  BY <1>5, <1>16, <1>17

(* The next tag is read: its heading is sent, its data is to be.           *)
LEMMA IopChainTags ==
  ASSUME Iop!TypeOK, NEW c \in IopChannels, iop_setup.chains[c] > 0,
         NEW k \in 0..iop_setup.chains[c], Iop!Programmed(c, k), Iop!Follows(c, k),
         iop_memory = iop_setup.memory, icr.IQE = iop_setup.IQE, Iop!ReadSourceTag(c)
  PROVE  /\ k + 1 \in 0..iop_setup.chains[c] /\ iop_memory' = iop_memory
         /\ Iop!Programmed(c, k + 1)' /\ Iop!Follows(c, k + 1)'
<1> DEFINE ch == iop_channels[c]
           new == iop_channels'[c]
           last == iop_setup.chains[c]
           m == k + 1
           q == Iop!Queue(c)
           a == Iop!AddrOf(iop_setup, c, m)
           w == [i \in 0..3 |-> iop_memory[(ch.tadr + i) % IopMemSize]]
           tag == Iop!Tag(w[0], w[1])
           h == IopHeading(iop_setup, c, m)
           d == IopData(iop_setup, c, m)
           size == IopSize(iop_setup, c, m)
           before == Iop!Packets(iop_setup, c)[k]
           after == Iop!Packets(iop_setup, c)[m]
<1>1. /\ iop_setup \in IopScenarios /\ ch \in Iop!Registers
      /\ iop_channels \in [IopChannels -> Iop!Registers] /\ q \in Iop!Queues
      /\ fifo \in [Iop!Queues -> Seq(Uword)] /\ fifo[q] \in Seq(Uword)
      /\ iop_received[q] \in Seq(Uword)
  BY IopWords DEF Iop!TypeOK, Iop!Queues
<1>2. /\ Iop!Transferring(c) /\ ch.transfer_length = 0 /\ ch.dma_started /\ ~Iop!Finished(c)
      /\ iop_setup' = iop_setup /\ iop_program' = iop_program /\ iop_input' = iop_input
      /\ iop_received' = iop_received /\ iop_memory' = iop_memory
  BY DEF Iop!ReadSourceTag, Iop!WantsTag, Iop!env
<1>3. /\ Iop!Written(c) \in Nat /\ Iop!Written(c) > 1 /\ ch.SM = Iop!CHAIN /\ ch.TD = TO
  BY <1>2, IopChainRuns
<1>4. ~ch.dma_tag.ert /\ ~(c \in iop_setup.IQE /\ ch.dma_tag.irq)
  BY <1>2, <1>3 DEF Iop!Finished, Iop!CHAIN, Iop!LINKEDLIST
<1>5. /\ last \in Nat /\ last > 0
      /\ \A j \in 1..last : /\ Iop!TagOf(iop_setup, c, j).ert <=> j = last
                            /\ Iop!Rounded(Iop!TagOf(iop_setup, c, j).length) < TagLimit
      /\ Iop!Pauses(iop_setup, c) \subseteq 1..last - 1
  BY <1>1, IopChainIs, IopScenarioIs DEF Iop!IsChain
<1>6. k \in Nat /\ k < last /\ ch.tadr = a
  <2>1. k # last
    <3> SUFFICES ASSUME k = last PROVE FALSE
      OBVIOUS
    <3>1. ch.dma_tag = Iop!TagOf(iop_setup, c, last)
      BY DEF Iop!Follows
    <3>2. last \in 1..last
      BY <1>5
    <3> HIDE DEF last
    <3>3. Iop!TagOf(iop_setup, c, last).ert
      BY <1>5, <3>2
    <3> QED
      BY <1>4, <3>1, <3>3
  <2>2. k \in Nat /\ k < last
    BY <1>5, <2>1
  <2> QED
    BY <1>3, <2>2 DEF Iop!Follows
<1>7. m \in 1..last /\ m \in 0..last /\ m - 1 = k
  BY <1>5, <1>6
<1>8. a \in Nat /\ Iop!TagOf(iop_setup, c, m) \in IopTags /\ size \in Nat
  BY <1>1, <1>7, IopPacketIs
<1>9. /\ w[0] = Iop!WordOf(iop_setup, a) /\ w[1] = Iop!WordOf(iop_setup, a + 1)
      /\ w[2] = Iop!WordOf(iop_setup, a + 2) /\ w[3] = Iop!WordOf(iop_setup, a + 3)
  <2> HIDE DEF a
  <2>1. \A i \in 0..3 : w[i] = Iop!WordOf(iop_setup, a + i)
    BY <1>6 DEF Iop!WordOf
  <2>2. a + 0 = a
    BY <1>8
  <2> HIDE DEF w
  <2> QED
    BY <2>1, <2>2
<1>10. tag = Iop!TagOf(iop_setup, c, m)
  <2> HIDE DEF w
  <2> QED
    BY <1>9 DEF Iop!TagOf
<1> DEFINE up == <<w[2], w[3], Zero, Zero>>
<1>11. /\ new = [ch EXCEPT !.dma_tag = tag, !.transfer_length = Iop!SourceLength(tag),
                           !.tadr = ch.tadr + 4, !.madr = tag.addr]
       /\ fifo' = [fifo EXCEPT ![q] = fifo[q] \o up]
  BY <1>1, IopWords DEF Iop!ReadSourceTag, Iop!SetChannel
<1>12. h = up
  <2> HIDE DEF w
  <2> QED
    BY <1>9 DEF IopHeading
<1> HIDE DEF w, tag
<1>13. tag \in IopTags /\ Iop!SourceLength(tag) = size
  <2>1. tag \in IopTags /\ Iop!Rounded(tag.length) < TagLimit /\ Iop!Rounded(tag.length) = size
    BY <1>5, <1>7, <1>8, <1>10 DEF IopSize
  <2>2. \A x \in Nat : x < TagLimit => x % TagLimit = x
    BY IopConstants
  <2>3. Iop!SourceLength(tag) = Iop!Rounded(tag.length) % TagLimit
    BY DEF Iop!SourceLength, Iop!Rounded
  <2> HIDE DEF size
  <2> QED
    BY <1>8, <2>1, <2>2, <2>3
<1> HIDE DEF new, a, m, size
<1>14. /\ new.SM = ch.SM /\ new.TD = ch.TD /\ new.CE = ch.CE /\ new.MAS = ch.MAS
       /\ new.START = ch.START /\ new.dma_started = ch.dma_started
       /\ new.dma_tag = tag /\ new.transfer_length = size /\ new.madr = tag.addr
       /\ new.tadr = a + 4
  BY <1>1, <1>6, <1>11, <1>13 DEF Iop!Registers
<1>15. /\ h \in Seq(Uword) /\ d \in Seq(Uword) /\ Len(d) = size
       /\ Iop!Packet(iop_setup, c, m) = h \o d
  BY <1>1, <1>7, IopPacketIs DEF size
<1>16. before \in Seq(Uword) /\ after \in Seq(Uword) /\ after = before \o (h \o d)
  BY <1>1, <1>7, <1>15, IopPacketsAre
<1>17. Iop!Sent(c) = before
  <2>1. Len(Iop!Sent(c)) + 0 = Len(before) /\ Begins(Iop!Sent(c), before)
    BY <1>2, IopShared DEF Iop!Follows
  <2>2. Iop!Sent(c) \in Seq(Uword)
    BY <1>1, ConcatProperties DEF Iop!Sent
  <2> HIDE DEF before
  <2>3. Len(Iop!Sent(c)) = Len(before)
    BY <2>1, <2>2, LenProperties
  <2> QED
    BY <1>16, <2>1, <2>2, <2>3, BeginsWhole
<1>18. Iop!Sent(c)' = before \o h
  <2>1. fifo'[q] = fifo[q] \o h
    BY <1>1, <1>11, <1>12
  <2> HIDE DEF h
  <2>2. \A s, t, u \in Seq(Uword) : (s \o t) \o u = s \o (t \o u)
    BY ConcatAssociative
  <2>3. (iop_received[q] \o fifo[q]) \o h = iop_received[q] \o (fifo[q] \o h)
    BY <1>1, <1>15, <2>2, Zenon
  <2> QED
    BY <1>2, <1>17, <2>1, <2>3 DEF Iop!Sent
<1> HIDE DEF h, d, before, after
<1>19. Len(Iop!Sent(c)') + size = Len(after) /\ Begins(Iop!Sent(c)', after)
  <2> DEFINE x == before \o h
  <2>1. x \in Seq(Uword)
    BY <1>15, <1>16, ConcatProperties
  <2>2. x \o d = before \o (h \o d)
    <3>1. \A s, t, u \in Seq(Uword) : (s \o t) \o u = s \o (t \o u)
      BY ConcatAssociative
    <3> QED
      BY <1>15, <1>16, <3>1, Zenon
  <2> HIDE DEF x
  <2>3. Begins(x, x)
    BY <2>1, LenProperties DEF Begins
  <2>4. Len(x \o d) = Len(x) + Len(d) /\ Begins(x, x \o d)
    BY <1>15, <2>1, <2>3, BeginsLonger
  <2> QED
    BY <1>15, <1>16, <1>18, <2>2, <2>4 DEF x
<1>20. Iop!ToCome(c, m)' = Iop!ToCome(c, k)
  <2>1. Iop!ToCome(c, m)' = {j \in Iop!Pauses(iop_setup, c) : j > m \/ (j = m /\ tag.irq)}
    BY <1>2, <1>14 DEF Iop!ToCome, new
  <2>2. Iop!ToCome(c, k) = {j \in Iop!Pauses(iop_setup, c) : j > k \/ (j = k /\ ch.dma_tag.irq)}
    BY DEF Iop!ToCome
  <2>3. \A j \in Iop!Pauses(iop_setup, c) :
          j \in Nat /\ c \in iop_setup.IQE /\ Iop!TagOf(iop_setup, c, j).irq
    BY <1>5 DEF Iop!Pauses
  <2>4. ASSUME NEW j \in Iop!Pauses(iop_setup, c)
        PROVE  (j > m \/ (j = m /\ tag.irq)) <=> (j > k \/ (j = k /\ ch.dma_tag.irq))
    <3>1. ~(j = k /\ ch.dma_tag.irq)
      BY <1>4, <2>3
    <3>2. j = m => tag.irq
      BY <1>10, <2>3 DEF m
    <3>3. j > k <=> j > m \/ j = m
      BY <1>6, <2>3 DEF m
    <3> QED
      BY <3>1, <3>2, <3>3
  <2> QED
    BY <2>1, <2>2, <2>4
<1>21. Iop!Programmed(c, m)'
  <2>1. ~Iop!Transferring(c)'
    BY IopNoneTransferring DEF Iop!ReadSourceTag
  <2> QED
    BY <1>2, <1>3, <1>14, <1>20, <2>1, IopChainRunsOn DEF new
<1>22. Iop!Follows(c, m)'
  <2>1. m < last => a + 4 = Iop!AddrOf(iop_setup, c, m + 1)
    <3>1. iop_setup.program[c][1].tadr \in Nat
      BY <1>1, IopChainIs
    <3> QED
      BY <1>7, <3>1 DEF Iop!AddrOf, a, m
  <2>2. ch.START
    BY <1>2 DEF Iop!Programmed
  <2>3. Iop!Written(c)' = Iop!Written(c)
    BY <1>2 DEF Iop!Written
  <2>4. tag.addr = tag.addr + (size - size) /\ size <= size /\ m > 0
    <3>1. tag.addr \in Nat
      BY <1>13 DEF IopTags
    <3> QED
      BY <1>6, <1>8, <3>1 DEF m
  <2>5. (Iop!Begins(Iop!Sent(c), Iop!Packets(iop_setup, c)[m]))' <=> Begins(Iop!Sent(c)', after)
    BY <1>2, IopShared DEF after, m
  <2>6. /\ new.dma_tag = Iop!TagOf(iop_setup, c, m) /\ new.madr = Iop!TagOf(iop_setup, c, m).addr
        /\ size = Iop!Rounded(Iop!TagOf(iop_setup, c, m).length)
    BY <1>10, <1>14 DEF IopSize, size
  <2>7. Len(Iop!Sent(c)') + new.transfer_length = Len(after) /\ Begins(Iop!Sent(c)', after)
    BY <1>14, <1>19
  <2>8. new.transfer_length > 0 =>
          /\ new.START /\ new.dma_started /\ m > 0 /\ new.transfer_length <= size
          /\ new.madr = Iop!TagOf(iop_setup, c, m).addr + (size - new.transfer_length)
    BY <1>2, <1>10, <1>14, <2>2, <2>4
  <2>9. m < last => new.tadr = Iop!AddrOf(iop_setup, c, m + 1)
    BY <1>14, <2>1
  <2> HIDE DEF last
  <2> QED
    BY <1>2, <2>3, <2>4, <2>5, <2>6, <2>7, <2>8, <2>9 DEF Iop!Follows, new, after, last
<1> QED
  BY <1>2, <1>7, <1>21, <1>22 DEF m

(* The peripheral takes a word off the queue.                              *)
LEMMA IopChainReceived ==
  ASSUME Iop!TypeOK, NEW c \in IopChannels, Iop!PeripheralRead(Iop!Queue(c))
  PROVE  Iop!Sent(c)' = Iop!Sent(c)
<1> DEFINE q == Iop!Queue(c)
           r == iop_received[q]
           f == fifo[q]
<1>1. q \in Iop!Queues
  BY DEF Iop!Queues
<1>2. r \in Seq(Uword) /\ f \in Seq(Uword) /\ f # <<>>
  BY <1>1, IopWords DEF Iop!TypeOK, Iop!PeripheralRead
<1>3. iop_received'[q] = Append(r, Head(f)) /\ fifo'[q] = Tail(f)
  BY <1>1 DEF Iop!TypeOK, Iop!PeripheralRead
<1> HIDE DEF r, f
<1>4. Head(f) \in Uword /\ Tail(f) \in Seq(Uword) /\ <<Head(f)>> \in Seq(Uword)
  BY <1>2, HeadTailProperties
<1>5. Append(r, Head(f)) = r \o <<Head(f)>>
  BY <1>2, <1>4, AppendIsConcat
<1>6. <<Head(f)>> \o Tail(f) = f
  <2>1. Len(f) \in Nat \ {0}
    BY <1>2, EmptySeq
  <2>2. 1 \in 1..Len(f) /\ Len(f) \in 1..Len(f)
    BY <2>1
  <2>3. SubSeq(f, 1, Len(f)) = <<f[1]>> \o SubSeq(f, 1 + 1, Len(f))
    BY <1>2, <2>2, SubSeqRecursiveFirst
  <2>4. SubSeq(f, 1, Len(f)) = f
    BY <1>2, SubSeqFull
  <2>5. Tail(f) = SubSeq(f, 2, Len(f)) /\ Head(f) = f[1]
    BY <1>2, TailIsSubSeq
  <2> QED
    BY <2>3, <2>4, <2>5
<1>7. (r \o <<Head(f)>>) \o Tail(f) = r \o (<<Head(f)>> \o Tail(f))
  <2>1. \A s, t, u \in Seq(Uword) : (s \o t) \o u = s \o (t \o u)
    BY ConcatAssociative
  <2> QED
    BY <1>2, <1>4, <2>1, Zenon
<1> QED
  BY <1>3, <1>5, <1>6, <1>7 DEF Iop!Sent, r, f

(* What is known of a channel, whether it sends a chain or not.            *)
IopKnown(c) ==
  IF iop_setup.chains[c] = 0 THEN Iop!Unused(c)
  ELSE \E k \in 0..iop_setup.chains[c] : Iop!Programmed(c, k) /\ Iop!Follows(c, k)

LEMMA IopKnownStays ==
  ASSUME NEW c \in IopChannels, IopKnown(c),
         iop_setup' = iop_setup, iop_program'[c] = iop_program[c],
         iop_input'[Iop!Queue(c)] = iop_input[Iop!Queue(c)],
         iop_channels'[c] = iop_channels[c], Iop!Sent(c)' = Iop!Sent(c),
         Iop!Transferring(c)' => Iop!Transferring(c) \/ iop_channels[c].START
  PROVE  IopKnown(c)'
<1>1. CASE iop_setup.chains[c] = 0
  <2>1. Iop!Unused(c)
    BY <1>1 DEF IopKnown
  <2>2. ~iop_channels[c].START
    BY <2>1 DEF Iop!Unused, Iop!Blank
  <2>3. Iop!Unused(c)'
    BY <2>1, <2>2 DEF Iop!Unused
  <2> QED
    BY <1>1, <2>3 DEF IopKnown
<1>2. CASE iop_setup.chains[c] # 0
  <2>1. PICK k \in 0..iop_setup.chains[c] : Iop!Programmed(c, k) /\ Iop!Follows(c, k)
    BY <1>2 DEF IopKnown
  <2>2. Iop!Programmed(c, k)' /\ Iop!Follows(c, k)'
    BY <2>1, IopChainKept
  <2> QED
    BY <1>2, <2>2 DEF IopKnown
<1> QED
  BY <1>1, <1>2

(* The steps of one channel: its program's, its transfers' and those at    *)
(* the other end of its queue.  They leave the others alone.               *)
IopActs(d) == Iop!ProgramNext(d) \/ Iop!PeripheralNext(Iop!Queue(d)) \/ Iop!Transfer(d)

LEMMA IopOthersKept ==
  ASSUME Iop!TypeOK, NEW c \in IopChannels, NEW d \in IopChannels, c # d, IopActs(d)
  PROVE  /\ iop_setup' = iop_setup /\ iop_program'[c] = iop_program[c]
         /\ iop_input'[Iop!Queue(c)] = iop_input[Iop!Queue(c)]
         /\ iop_channels'[c] = iop_channels[c] /\ Iop!Sent(c)' = Iop!Sent(c)
         /\ Iop!Transferring(c)' => Iop!Transferring(c)
<1>1. Iop!Queue(c) # Iop!Queue(d) /\ Iop!Queue(c) \in Iop!Queues /\ Iop!Queue(d) \in Iop!Queues
  BY IopQueuesDiffer DEF Iop!Queues
<1>2. /\ iop_channels \in [IopChannels -> Iop!Registers]
      /\ iop_program \in [IopChannels -> Seq(Iop!Writes)]
      /\ fifo \in [Iop!Queues -> Seq(Uword)] /\ iop_received \in [Iop!Queues -> Seq(Uword)]
      /\ iop_input \in [Iop!Queues -> Seq(Uword)]
  BY IopWords DEF Iop!TypeOK
<1>3. CASE Iop!ProgramNext(d)
  <2>1. iop_channels'[c] = iop_channels[c] /\ iop_program'[c] = iop_program[c]
    BY <1>2, <1>3 DEF Iop!ProgramNext, Iop!CoreWrite, Iop!FinishWrite, Iop!Await, Iop!SetChannel
  <2>2. /\ iop_setup' = iop_setup /\ iop_input' = iop_input /\ fifo' = fifo
        /\ iop_received' = iop_received /\ iop_dmac' = iop_dmac
    BY <1>3 DEF Iop!ProgramNext, Iop!CoreWrite, Iop!FinishWrite, Iop!Await
  <2> QED
    BY <2>1, <2>2 DEF Iop!Sent, Iop!Transferring
<1>4. CASE Iop!PeripheralNext(Iop!Queue(d))
  <2>1. /\ fifo'[Iop!Queue(c)] = fifo[Iop!Queue(c)]
        /\ iop_received'[Iop!Queue(c)] = iop_received[Iop!Queue(c)]
        /\ iop_input'[Iop!Queue(c)] = iop_input[Iop!Queue(c)]
    BY <1>1, <1>2, <1>4 DEF Iop!PeripheralNext, Iop!PeripheralRead, Iop!PeripheralWrite
  <2>2. /\ iop_channels' = iop_channels /\ iop_setup' = iop_setup /\ iop_program' = iop_program
        /\ iop_dmac' = iop_dmac
    BY <1>4 DEF Iop!PeripheralNext, Iop!PeripheralRead, Iop!PeripheralWrite
  <2> QED
    BY <2>1, <2>2 DEF Iop!Sent, Iop!Transferring
<1>5. CASE Iop!Transfer(d)
  <2>1. Iop!Advance(d) \/ iop_dmac' = [at |-> "fault", c |-> d]
    BY <1>5 DEF Iop!Transfer, Iop!Begin, Iop!Move, Iop!Blocked, Iop!AwaitPeripheral, Iop!Suspend,
                Iop!ReadSourceTag, Iop!ReadDestTag, Iop!TagBlocked, Iop!Fault
  <2>2. ~Iop!Transferring(c)'
    BY <2>1, IopNoneTransferring
  <2>3. /\ iop_setup' = iop_setup /\ iop_program' = iop_program /\ iop_input' = iop_input
        /\ iop_received' = iop_received
    BY <1>5 DEF Iop!Transfer, Iop!Begin, Iop!Move, Iop!Blocked, Iop!AwaitPeripheral, Iop!Suspend,
                Iop!ReadSourceTag, Iop!ReadDestTag, Iop!TagBlocked, Iop!Fault, Iop!env
  <2>4. iop_channels'[c] = iop_channels[c]
    BY <1>2, <1>5 DEF Iop!Transfer, Iop!Begin, Iop!Move, Iop!Blocked, Iop!AwaitPeripheral,
                Iop!Suspend, Iop!ReadSourceTag, Iop!ReadDestTag, Iop!TagBlocked, Iop!Fault,
                Iop!SetChannel
  <2>5. fifo'[Iop!Queue(c)] = fifo[Iop!Queue(c)]
    BY <1>1, <1>2, <1>5 DEF Iop!Transfer, Iop!Begin, Iop!Move, Iop!Blocked, Iop!AwaitPeripheral,
                Iop!Suspend, Iop!ReadSourceTag, Iop!ReadDestTag, Iop!TagBlocked, Iop!Fault
  <2> QED
    BY <2>2, <2>3, <2>4, <2>5 DEF Iop!Sent
<1> QED
  BY <1>3, <1>4, <1>5 DEF IopActs

(* A chain's program does not wait for its interrupts.                     *)
LEMMA IopNoAwait ==
  ASSUME Iop!TypeOK, NEW c \in IopChannels, iop_setup.chains[c] > 0,
         NEW k, Iop!Programmed(c, k), iop_program[c] # <<>>
  PROVE  Head(iop_program[c]).op # "await"
<1> DEFINE all == iop_setup.program[c]
           n == Iop!Written(c)
           w == Head(iop_program[c])
<1>1. iop_setup \in IopScenarios
  BY DEF Iop!TypeOK
<1>2. all \in Seq(Iop!Writes) /\ Len(all) \in Nat
  BY <1>1, IopScenarioIs
<1>3. n \in 0..Len(all) /\ iop_program[c] = SubSeq(all, n + 1, Len(all))
  BY DEF Iop!Programmed
<1>4. n + 1 \in 1..Len(all) /\ w = all[n + 1]
  BY <1>2, <1>3, IopNextWrite
<1>5. /\ all[1].op = "regs" /\ all[2].op = "start"
      /\ \A i \in 3..Len(all) : all[i].op = "resume"
  BY <1>1, IopChainIs DEF Iop!IsChain
<1> HIDE DEF all, n, w
<1>6. n + 1 = 1 \/ n + 1 = 2 \/ n + 1 \in 3..Len(all)
  BY <1>2, <1>3, <1>4
<1> QED
  BY <1>4, <1>5, <1>6 DEF w

LEMMA ExceptSame ==
  ASSUME NEW f, f = [x \in DOMAIN f |-> f[x]], NEW i, NEW v, v = f[i]
  PROVE  [f EXCEPT ![i] = v] = f
OBVIOUS

(* ... and a channel's own steps do to it what is known of it.             *)
LEMMA IopActorKnown ==
  ASSUME Iop!TypeOK, NEW d \in IopChannels, IopKnown(d), iop_memory = iop_setup.memory,
         icr.IQE = iop_setup.IQE, IopActs(d)
  PROVE  IopKnown(d)' /\ iop_memory' = iop_memory
<1>1. CASE iop_setup.chains[d] = 0
  <2>1. iop_channels[d] = Iop!Blank /\ iop_program[d] = <<>> /\ ~Iop!Transferring(d)
    BY <1>1 DEF IopKnown, Iop!Unused
  <2>2. ~Iop!CoreWrite(d) /\ ~Iop!Await(d)
    BY <2>1 DEF Iop!CoreWrite, Iop!Await
  <2>3. ~Iop!Transfer(d)
    BY <2>1 DEF Iop!Transfer, Iop!Begin, Iop!Move, Iop!Moving, Iop!Blocked, Iop!AwaitPeripheral,
                Iop!Suspend, Iop!Finished, Iop!ReadSourceTag, Iop!ReadDestTag, Iop!TagBlocked,
                Iop!Fault, Iop!Unsupported, Iop!WantsTag
  <2>4. iop_channels'[d] = Iop!Blank
    <3>1. CASE Iop!FinishWrite(d)
      <4> DEFINE Reset(ch) == {[ch EXCEPT !.dma_started = FALSE], [ch EXCEPT !.dma_tag = Iop!NoTag]}
      <4>1. Reset(Iop!Blank) = {Iop!Blank}
        <5>1. Iop!Blank = [f \in DOMAIN Iop!Blank |-> Iop!Blank[f]]
          BY DEF Iop!Blank
        <5>2. FALSE = Iop!Blank["dma_started"] /\ Iop!NoTag = Iop!Blank["dma_tag"]
          BY DEF Iop!Blank
        <5>3. /\ [Iop!Blank EXCEPT !.dma_started = FALSE] = Iop!Blank
              /\ [Iop!Blank EXCEPT !.dma_tag = Iop!NoTag] = Iop!Blank
          BY <5>1, <5>2, ExceptSame
        <5> QED
          BY <5>3
      <4>2. iop_channels \in [IopChannels -> Iop!Registers]
        BY DEF Iop!TypeOK
      <4>3. iop_channels'[d] \in {iop_channels[d]} \cup Reset(iop_channels[d])
        BY <3>1, <4>2 DEF Iop!FinishWrite, Iop!SetChannel
      <4> HIDE DEF Reset
      <4> QED
        BY <2>1, <4>1, <4>3
    <3>2. CASE ~Iop!FinishWrite(d)
      BY <2>1, <2>2, <2>3, <3>2 DEF IopActs, Iop!ProgramNext, Iop!PeripheralNext,
         Iop!PeripheralRead, Iop!PeripheralWrite
    <3> QED
      BY <3>1, <3>2
  <2>5. /\ iop_setup' = iop_setup /\ iop_program' = iop_program
        /\ iop_dmac' = iop_dmac /\ iop_memory' = iop_memory
    BY <2>2, <2>3 DEF IopActs, Iop!ProgramNext, Iop!FinishWrite, Iop!PeripheralNext,
       Iop!PeripheralRead, Iop!PeripheralWrite
  <2> QED
    BY <1>1, <2>1, <2>4, <2>5 DEF IopKnown, Iop!Unused, Iop!Transferring
<1>2. CASE iop_setup.chains[d] # 0
  <2>0. iop_setup.chains[d] > 0
    BY <1>2, IopScenarioIs DEF Iop!TypeOK
  <2>1. PICK k \in 0..iop_setup.chains[d] : Iop!Programmed(d, k) /\ Iop!Follows(d, k)
    BY <1>2 DEF IopKnown
  <2>2. /\ iop_setup' = iop_setup
        /\ \E m \in 0..iop_setup.chains[d] : Iop!Programmed(d, m)' /\ Iop!Follows(d, m)'
        /\ iop_memory' = iop_memory
    <3>1. CASE Iop!CoreWrite(d)
      <4>1. iop_setup' = iop_setup /\ iop_memory' = iop_memory
        BY <3>1 DEF Iop!CoreWrite
      <4> QED
        BY <2>0, <2>1, <3>1, <4>1, IopChainWrites
    <3>2. CASE Iop!Await(d)
      BY <2>0, <2>1, <3>2, IopNoAwait DEF Iop!Await
    <3>6. ~Iop!FinishWrite(d)
      <4>1. iop_setup \in IopScenarios
        BY DEF Iop!TypeOK
      <4>2. d \in {4, 9}
        BY <2>0, <4>1, IopChainIs
      <4> QED
        BY <4>2 DEF Iop!FinishWrite
    <3>3. CASE Iop!PeripheralRead(Iop!Queue(d))
      <4>1. /\ iop_setup' = iop_setup /\ iop_memory' = iop_memory /\ iop_program' = iop_program
            /\ iop_input' = iop_input /\ iop_channels' = iop_channels /\ iop_dmac' = iop_dmac
        BY <3>3 DEF Iop!PeripheralRead
      <4>2. Iop!Sent(d)' = Iop!Sent(d) /\ (Iop!Transferring(d)' => Iop!Transferring(d))
        BY <3>3, <4>1, IopChainReceived DEF Iop!Transferring
      <4>3. Iop!Programmed(d, k)' /\ Iop!Follows(d, k)'
        BY <2>1, <4>1, <4>2, IopChainKept
      <4> QED
        BY <4>1, <4>3
    <3>4. CASE Iop!PeripheralWrite(Iop!Queue(d))
      BY <2>1, <3>4 DEF Iop!PeripheralWrite, Iop!Programmed
    <3>5. CASE Iop!Transfer(d)
      <4>1. iop_setup' = iop_setup
        BY <3>5 DEF Iop!Transfer, Iop!Begin, Iop!Move, Iop!Blocked, Iop!AwaitPeripheral,
                    Iop!Suspend, Iop!ReadSourceTag, Iop!ReadDestTag, Iop!TagBlocked, Iop!Fault,
                    Iop!env
      <4>2. CASE \/ Iop!Begin(d) \/ Iop!Blocked(d) \/ Iop!AwaitPeripheral(d) \/ Iop!TagBlocked(d)
                 \/ Iop!Fault(d) \/ Iop!Suspend(d)
        BY <2>0, <2>1, <4>1, <4>2, IopChainSkips
      <4>3. CASE Iop!Move(d)
        BY <2>0, <2>1, <4>1, <4>3, IopChainMoves
      <4>4. CASE Iop!ReadSourceTag(d)
        BY <2>0, <2>1, <4>1, <4>4, IopChainTags
      <4>5. CASE Iop!ReadDestTag(d)
        <5>1. Iop!Transferring(d) /\ iop_channels[d].TD = FROM
          BY <4>5, IopWords DEF Iop!ReadDestTag, Iop!WantsTag
        <5>2. iop_channels[d].TD = TO
          BY <2>1, <5>1, IopChainRuns
        <5> QED
          BY <5>1, <5>2, IopWords
      <4> QED
        BY <3>5, <4>2, <4>3, <4>4, <4>5 DEF Iop!Transfer
    <3> QED
      BY <3>1, <3>2, <3>3, <3>4, <3>5, <3>6 DEF IopActs, Iop!ProgramNext, Iop!PeripheralNext
  <2> QED
    BY <1>2, <2>2 DEF IopKnown
<1> QED
  BY <1>1, <1>2

LEMMA IopChainsInit == Iop!Init => Iop!ChainsKnown
<1> SUFFICES ASSUME Iop!Init, Iop!Chained(iop_setup)
             PROVE  /\ iop_memory = iop_setup.memory /\ icr.IQE = iop_setup.IQE
                    /\ \A c \in IopChannels : IopKnown(c)
  BY DEF Iop!ChainsKnown, IopKnown
<1>1. /\ iop_setup \in IopScenarios /\ iop_memory = iop_setup.memory
      /\ icr.IQE = iop_setup.IQE
  BY DEF Iop!Init
<1>2. ASSUME NEW c \in IopChannels
      PROVE  IopKnown(c)
  <2>0. Iop!Queue(c) \in Iop!Queues
    BY DEF Iop!Queues
  <2>1. /\ iop_channels[c] = Iop!Blank /\ iop_program[c] = iop_setup.program[c]
        /\ iop_input[Iop!Queue(c)] = iop_setup.input[Iop!Queue(c)]
        /\ fifo[Iop!Queue(c)] = <<>> /\ iop_received[Iop!Queue(c)] = <<>>
        /\ ~Iop!Transferring(c)
    BY <2>0 DEF Iop!Init, Iop!Transferring, Iop!Idle
  <2>2. CASE iop_setup.chains[c] = 0
    <3>1. iop_setup.program[c] = <<>>
      BY <1>1, <2>2, IopAssumption DEF Iop!ChainsBuilt
    <3> QED
      BY <2>1, <2>2, <3>1 DEF IopKnown, Iop!Unused
  <2>3. CASE iop_setup.chains[c] # 0
    <3> DEFINE all == iop_setup.program[c]
               last == iop_setup.chains[c]
    <3>1. last \in Nat /\ last > 0 /\ all \in Seq(Iop!Writes) /\ Len(all) \in Nat
      BY <1>1, <2>3, IopScenarioIs
    <3>2. Iop!IsChain(iop_setup, c)
      BY <1>1, <3>1, IopChainIs
    <3>3. Iop!Written(c) = 0
      BY <2>1, <3>1 DEF Iop!Written
    <3>4. iop_input[Iop!Queue(c)] = <<>>
      BY <2>1, <3>2 DEF Iop!IsChain
    <3>5. /\ ~iop_channels[c].START /\ iop_channels[c].dma_tag = Iop!NoTag
          /\ iop_channels[c].transfer_length = 0
      BY <2>1 DEF Iop!Blank
    <3>6. Iop!Programmed(c, 0)
      <4>1. SubSeq(all, 1, Len(all)) = all
        BY <3>1, SubSeqFull
      <4>2. 0 + 1 = 1 /\ 0 \in 0..Len(all) /\ 0 <= 1 /\ ~(0 > 1)
        BY <3>1
      <4> HIDE DEF all
      <4> QED
        BY <2>1, <3>3, <3>4, <3>5, <4>1, <4>2 DEF Iop!Programmed, all
    <3>7. Iop!Follows(c, 0)
      <4>1. Iop!Packets(iop_setup, c)[0] = <<>>
        BY <1>1, <3>1, IopPacketsAre
      <4>2. Iop!Sent(c) = <<>>
        BY <2>1 DEF Iop!Sent
      <4>3. Len(<<>>) + 0 = Len(<<>>) /\ Begins(<<>>, <<>>)
        BY DEF Begins
      <4>4. ~(iop_channels[c].transfer_length > 0) /\ ~(0 > 0) /\ 0 # last
        BY <3>1, <3>5
      <4> HIDE DEF last
      <4> QED
        BY <3>3, <3>5, <4>1, <4>2, <4>3, <4>4, IopShared DEF Iop!Follows, last
    <3>8. 0 \in 0..last
      BY <3>1
    <3> QED
      BY <2>3, <3>6, <3>7, <3>8 DEF IopKnown
  <2> QED
    BY <2>2, <2>3
<1> QED
  BY <1>1, <1>2

(* Steps that are not a channel's own.                                     *)
LEMMA IopBystanders ==
  ASSUME Iop!TypeOK, [Iop!Next]_(Iop!vars), ~\E d \in IopChannels : IopActs(d),
         NEW c \in IopChannels
  PROVE  /\ iop_setup' = iop_setup /\ iop_program' = iop_program /\ iop_input' = iop_input
         /\ iop_channels' = iop_channels /\ fifo' = fifo /\ iop_received' = iop_received
         /\ iop_memory' = iop_memory /\ icr'.IQE = icr.IQE
         /\ Iop!Transferring(c)' => Iop!Transferring(c) \/ iop_channels[c].START
<1>1. \/ Iop!TimeStep \/ Iop!Check \/ Iop!HandlerNext \/ Iop!ToggleNext
      \/ UNCHANGED Iop!vars
  <2>1. ~\E q \in Iop!Queues : Iop!PeripheralNext(q)
    BY DEF IopActs, Iop!Queues
  <2>2. /\ ~\E d \in IopChannels : Iop!ProgramNext(d)
        /\ ~\E d \in IopChannels : Iop!Transfer(d)
    BY DEF IopActs
  <2> QED
    BY <2>1, <2>2 DEF Iop!Next, Iop!DmacNext, Iop!CoreNext, Iop!Faulted
<1>2. /\ iop_setup' = iop_setup /\ iop_program' = iop_program /\ iop_input' = iop_input
      /\ iop_channels' = iop_channels /\ fifo' = fifo /\ iop_received' = iop_received
      /\ iop_memory' = iop_memory
  BY <1>1 DEF Iop!TimeStep, Iop!Check, Iop!HandlerNext, Iop!TakeInterrupt, Iop!HandleInterrupt,
     Iop!ToggleNext, Iop!WriteIcr0, Iop!WriteIcr1, Iop!WriteGctrl, Iop!WritePcr, Iop!vars,
     Iop!env, Iop!control
<1>3. icr'.IQE = icr.IQE
  <2>1. icr \in [TCM : SUBSET IopChannels, TCI : SUBSET IopChannels, IQE : SUBSET IopChannels,
                 ENABLE : BOOLEAN, MASTER : BOOLEAN]
    BY DEF Iop!TypeOK
  <2>2. CASE Iop!HandlerNext
    BY <2>1, <2>2 DEF Iop!HandlerNext, Iop!TakeInterrupt, Iop!HandleInterrupt
  <2>3. CASE Iop!ToggleNext
    BY <2>1, <2>3 DEF Iop!ToggleNext, Iop!WriteIcr0, Iop!WriteIcr1, Iop!WriteGctrl, Iop!WritePcr
  <2>4. CASE Iop!TimeStep \/ Iop!Check \/ UNCHANGED Iop!vars
    BY <2>4 DEF Iop!TimeStep, Iop!Check, Iop!vars, Iop!control
  <2> QED
    BY <1>1, <2>2, <2>3, <2>4
<1>4. Iop!Transferring(c)' => Iop!Transferring(c) \/ iop_channels[c].START
  <2>1. CASE Iop!Check
    <3>1. iop_dmac.c \in IopChannels
      BY <2>1 DEF Iop!Check, Iop!TypeOK, Iop!Idle
    <3>2. CASE Iop!Advance(iop_dmac.c)
      BY <3>1, <3>2, IopNoneTransferring
    <3>3. CASE iop_channels[iop_dmac.c].START /\ iop_dmac' = [iop_dmac EXCEPT !.at = "transfer"]
      <4>1. iop_dmac \in [at : {"scan", "transfer", "fault"}, c : IopChannels]
        BY <2>1 DEF Iop!Check, Iop!TypeOK, Iop!Idle
      <4>2. iop_dmac'.c = iop_dmac.c
        BY <3>3, <4>1
      <4> QED
        BY <3>3, <4>2 DEF Iop!Transferring
    <3> QED
      BY <2>1, <3>2, <3>3 DEF Iop!Check
  <2>2. CASE Iop!TimeStep
    <3>1. Iop!Transferring(c)' => Iop!Transferring(c)
      BY <2>2 DEF Iop!TimeStep, Iop!Transferring, Iop!Idle
    <3> QED
      BY <3>1
  <2>3. CASE Iop!HandlerNext \/ Iop!ToggleNext \/ UNCHANGED Iop!vars
    <3>1. iop_dmac' = iop_dmac
      BY <2>3 DEF Iop!HandlerNext, Iop!TakeInterrupt, Iop!HandleInterrupt, Iop!ToggleNext,
         Iop!WriteIcr0, Iop!WriteIcr1, Iop!WriteGctrl, Iop!WritePcr, Iop!vars
    <3> QED
      BY <3>1 DEF Iop!Transferring
  <2> QED
    BY <1>1, <2>1, <2>2, <2>3
<1> QED
  BY <1>2, <1>3, <1>4

(* A channel's own steps leave the enables in ICR0 and ICR1 as they are.   *)
LEMMA IopEnablesKept ==
  ASSUME Iop!TypeOK, NEW d \in IopChannels, IopActs(d)
  PROVE  icr'.IQE = icr.IQE /\ iop_setup' = iop_setup
<1>1. icr \in [TCM : SUBSET IopChannels, TCI : SUBSET IopChannels, IQE : SUBSET IopChannels,
               ENABLE : BOOLEAN, MASTER : BOOLEAN]
  BY DEF Iop!TypeOK
<1>2. CASE Iop!Suspend(d)
  BY <1>1, <1>2 DEF Iop!Suspend, Iop!env
<1>3. CASE ~Iop!Suspend(d)
  BY <1>3 DEF IopActs, Iop!ProgramNext, Iop!CoreWrite, Iop!FinishWrite, Iop!Await, Iop!PeripheralNext,
     Iop!PeripheralRead, Iop!PeripheralWrite, Iop!Transfer, Iop!Begin, Iop!Move, Iop!Blocked,
     Iop!AwaitPeripheral, Iop!ReadSourceTag, Iop!ReadDestTag, Iop!TagBlocked, Iop!Fault,
     Iop!env, Iop!control
<1> QED
  BY <1>2, <1>3

LEMMA IopChainsStep ==
  ASSUME Iop!TypeOK, Iop!ChainsKnown, [Iop!Next]_(Iop!vars)
  PROVE  Iop!ChainsKnown'
<1>0. PICK any \in IopChannels : TRUE
  BY IopAssumption DEF Iop!ConstantsTyped
<1>1. iop_setup' = iop_setup
  BY <1>0, IopEnablesKept, IopBystanders
<1> SUFFICES ASSUME Iop!Chained(iop_setup)
             PROVE  /\ iop_memory' = iop_setup.memory /\ icr'.IQE = iop_setup.IQE
                    /\ \A c \in IopChannels : IopKnown(c)'
  BY <1>1 DEF Iop!ChainsKnown, IopKnown
<1>2. /\ iop_memory = iop_setup.memory /\ icr.IQE = iop_setup.IQE
      /\ \A c \in IopChannels : IopKnown(c)
  BY DEF Iop!ChainsKnown, IopKnown
<1>3. CASE \E d \in IopChannels : IopActs(d)
  <2>1. PICK d \in IopChannels : IopActs(d)
    BY <1>3
  <2>2. IopKnown(d)' /\ iop_memory' = iop_memory
    BY <1>2, <2>1, IopActorKnown
  <2>3. ASSUME NEW c \in IopChannels, c # d
        PROVE  IopKnown(c)'
    BY <1>2, <2>1, <2>3, IopOthersKept, IopKnownStays
  <2>4. icr'.IQE = icr.IQE
    BY <2>1, IopEnablesKept
  <2> QED
    BY <1>2, <2>2, <2>3, <2>4
<1>4. CASE ~\E d \in IopChannels : IopActs(d)
  <2>1. iop_memory' = iop_memory /\ icr'.IQE = icr.IQE
    BY <1>0, <1>4, IopBystanders
  <2>2. ASSUME NEW c \in IopChannels
        PROVE  IopKnown(c)'
    <3>1. /\ iop_program' = iop_program /\ iop_input' = iop_input
          /\ iop_channels' = iop_channels /\ fifo' = fifo /\ iop_received' = iop_received
          /\ Iop!Transferring(c)' => Iop!Transferring(c) \/ iop_channels[c].START
      BY <1>4, IopBystanders
    <3>2. Iop!Sent(c)' = Iop!Sent(c)
      BY <3>1 DEF Iop!Sent
    <3> QED
      BY <1>1, <1>2, <3>1, <3>2, IopKnownStays
  <2> QED
    BY <1>2, <2>1, <2>2
<1> QED
  BY <1>3, <1>4

(* Whatever chains the IOP's program has built, in whatever order it, its  *)
(* interrupt handler, the DMAC and the peripherals act, and whatever is    *)
(* written to PCR, GCTRL, ICR0 and ICR1 meanwhile, CIopDmac::transfer_chain *)
(* sends the packets of each: whole, in order, none twice.                 *)
THEOREM IopChains == Iop!Spec => []Iop!SendsChain
<1>1. Iop!TypeOK /\ Iop!ChainsKnown => Iop!SendsChain
  <2> SUFFICES ASSUME Iop!TypeOK, Iop!ChainsKnown, NEW c \in IopChannels,
                      iop_setup.chains[c] > 0
               PROVE  Iop!Begins(Iop!Sent(c),
                                 Iop!Packets(iop_setup, c)[iop_setup.chains[c]])
    BY DEF Iop!SendsChain
  <2>1. Iop!Chained(iop_setup) /\ iop_setup.chains[c] # 0 /\ iop_setup \in IopScenarios
    BY IopScenarioIs DEF Iop!Chained, Iop!TypeOK
  <2>2. PICK k \in 0..iop_setup.chains[c] : Iop!Follows(c, k)
    BY <2>1 DEF Iop!ChainsKnown
  <2>3. Begins(Iop!Sent(c), Iop!Packets(iop_setup, c)[k])
    BY <2>2, IopShared DEF Iop!Follows
  <2>4. Iop!Sent(c) \in Seq(Uword)
    <3>1. Iop!Queue(c) \in Iop!Queues
      BY DEF Iop!Queues
    <3>2. iop_received[Iop!Queue(c)] \in Seq(Uword) /\ fifo[Iop!Queue(c)] \in Seq(Uword)
      BY <3>1, IopWords DEF Iop!TypeOK
    <3> QED
      BY <3>2, ConcatProperties DEF Iop!Sent
  <2> QED
    BY <2>1, <2>2, <2>3, <2>4, IopPacketsAre, IopShared
<1> QED
  BY <1>1, IopTypes, IopChainsInit, IopChainsStep, PTL DEF Iop!Spec

(* A bit of TCI rises only when the peripheral has received all that the   *)
(* chain has sent up to the tag that suspends it.                          *)
LEMMA IopSuspendedAfterData ==
  ASSUME Iop!TypeOK, Iop!ChainsKnown, [Iop!Next]_(Iop!vars),
         NEW c \in IopChannels, iop_setup.chains[c] > 0, c \in icr'.TCI \ icr.TCI
  PROVE  \E k \in Iop!Pauses(iop_setup, c) \cup {iop_setup.chains[c]} :
           iop_received[Iop!Queue(c)] = Iop!Packets(iop_setup, c)[k]
<1>1. iop_setup \in IopScenarios /\ iop_setup.chains[c] \in Nat
  BY IopScenarioIs DEF Iop!TypeOK
<1>2. iop_setup.chains[c] # 0 /\ Iop!Chained(iop_setup)
  BY <1>1 DEF Iop!Chained
<1>3. PICK k \in 0..iop_setup.chains[c] : Iop!Programmed(c, k) /\ Iop!Follows(c, k)
  BY <1>2 DEF Iop!ChainsKnown
<1>4. icr.IQE = iop_setup.IQE
  BY <1>2 DEF Iop!ChainsKnown
<1>5. icr \in [TCM : SUBSET IopChannels, TCI : SUBSET IopChannels, IQE : SUBSET IopChannels,
               ENABLE : BOOLEAN, MASTER : BOOLEAN]
  BY DEF Iop!TypeOK
<1>6. Iop!Suspend(c)
  <2>1. \E d \in IopChannels : Iop!Suspend(d)
    <3>1. CASE Iop!HandlerNext \/ Iop!ToggleNext
      <4>1. icr'.TCI \subseteq icr.TCI
        BY <1>5, <3>1 DEF Iop!HandlerNext, Iop!TakeInterrupt, Iop!HandleInterrupt,
           Iop!ToggleNext, Iop!WriteIcr0, Iop!WriteIcr1, Iop!WriteGctrl, Iop!WritePcr
      <4> QED
        BY <4>1
    <3>2. CASE ~(Iop!HandlerNext \/ Iop!ToggleNext)
      BY <3>2 DEF Iop!Next, Iop!DmacNext, Iop!TimeStep, Iop!Check, Iop!Transfer, Iop!Begin,
         Iop!Move, Iop!Blocked, Iop!AwaitPeripheral, Iop!ReadSourceTag, Iop!ReadDestTag,
         Iop!TagBlocked, Iop!Fault, Iop!Faulted, Iop!CoreNext, Iop!ProgramNext, Iop!CoreWrite,
         Iop!FinishWrite, Iop!Await, Iop!PeripheralNext, Iop!PeripheralRead, Iop!PeripheralWrite,
         Iop!vars, Iop!control
    <3> QED
      BY <3>1, <3>2
  <2>2. PICK d \in IopChannels : Iop!Suspend(d)
    BY <2>1
  <2>3. icr'.TCI = icr.TCI \cup {d}
    BY <1>5, <2>2 DEF Iop!Suspend
  <2> QED
    BY <2>2, <2>3
<1> DEFINE ch == iop_channels[c]
           q == Iop!Queue(c)
           last == iop_setup.chains[c]
<1>7. Iop!Transferring(c) /\ Iop!Finished(c) /\ ~Iop!InFlight(c)
  BY <1>6 DEF Iop!Suspend, Iop!Finished
<1>8. ch.SM = Iop!CHAIN /\ ch.TD = TO
  BY <1>3, <1>7, IopChainRuns
<1>9. q \in Iop!Queues
  BY DEF Iop!Queues
<1>10. iop_received[q] \in Seq(Uword) /\ fifo[q] = <<>>
  BY <1>7, <1>8, <1>9, IopWords DEF Iop!TypeOK, Iop!InFlight
<1>11. Iop!Sent(c) = iop_received[q]
  BY <1>10, ConcatEmptySeq DEF Iop!Sent
<1>12. iop_received[q] = Iop!Packets(iop_setup, c)[k]
  <2> DEFINE all == Iop!Packets(iop_setup, c)[k]
  <2>1. all \in Seq(Uword)
    BY <1>1, IopPacketsAre
  <2>2. ch.transfer_length = 0
    BY <1>7 DEF Iop!Finished
  <2>3. Len(iop_received[q]) + 0 = Len(all) /\ Begins(iop_received[q], all)
    BY <1>3, <1>11, <2>2, IopShared DEF Iop!Follows
  <2> HIDE DEF all
  <2>4. Len(iop_received[q]) = Len(all)
    BY <1>10, <2>3, LenProperties
  <2>5. iop_received[q] = all
    BY <1>10, <2>1, <2>3, <2>4, BeginsWhole
  <2> QED
    BY <2>5 DEF all
<1>13. k \in Iop!Pauses(iop_setup, c) \cup {last}
  <2>1. (c \in icr.IQE /\ ch.dma_tag.irq) \/ ch.dma_tag.ert
    BY <1>7, <1>8 DEF Iop!Finished
  <2>2. ch.dma_tag # Iop!NoTag
    BY <2>1 DEF Iop!NoTag
  <2>3. k > 0 /\ ch.dma_tag = Iop!TagOf(iop_setup, c, k)
    BY <1>3, <2>2 DEF Iop!Follows
  <2>4. k \in 1..last /\ (k # last => k \in 1..last - 1)
    BY <1>1, <2>3
  <2>5. Iop!TagOf(iop_setup, c, k).ert <=> k = last
    <3>1. Iop!IsChain(iop_setup, c)
      BY <1>1, IopChainIs
    <3> QED
      BY <2>4, <3>1 DEF Iop!IsChain
  <2> QED
    BY <1>4, <2>1, <2>3, <2>4, <2>5 DEF Iop!Pauses
<1> QED
  BY <1>12, <1>13

(* "check that the peripheral received the data before interrupting IOP    *)
(* INTC" (CIopDmac.cpp:125, 225) holds of chains, also across the          *)
(* suspensions by the tags' IRQ bits.                                      *)
THEOREM IopInterrupts == Iop!Spec => Iop!InterruptAfterData
<1> DEFINE A == \A c \in IopChannels : iop_setup.chains[c] > 0 /\ c \in icr'.TCI \ icr.TCI =>
                  \E k \in Iop!Pauses(iop_setup, c) \cup {iop_setup.chains[c]} :
                    iop_received[Iop!Queue(c)] = Iop!Packets(iop_setup, c)[k]
<1>1. Iop!TypeOK /\ Iop!ChainsKnown /\ [Iop!Next]_(Iop!vars) => [A]_(Iop!vars)
  BY IopSuspendedAfterData
<1> HIDE DEF A
<1>2. Iop!Spec => [][A]_(Iop!vars)
  BY <1>1, IopTypes, IopChainsInit, IopChainsStep, PTL DEF Iop!Spec
<1> QED
  BY <1>2 DEF Iop!InterruptAfterData, A
-----------------------------------------------------------------------------
(* Both at once: a step of either side leaves the queues as the other side *)
(* needs them.                                                             *)
LEMMA IopKept ==
  ASSUME Wired, TypeOK', Iop!TypeOK, UNCHANGED iopVars
  PROVE  Iop!TypeOK'
<1>1. /\ fifo' \in [Iop!Queues -> Seq(Iop!Uword)]
      /\ \A q \in Iop!Queues : Len(fifo'[q]) <= FifoCap
  BY IopWords DEF Wired, TypeOK
<1> QED
  BY <1>1 DEF Iop!TypeOK, iopVars

LEMMA EeKept ==
  ASSUME Wired, Iop!TypeOK', TypeOK, UNCHANGED eeVars
  PROVE  TypeOK'
<1>1. /\ fifo' \in [Channels -> Seq(Uword)]
      /\ \A c \in Channels : Len(fifo'[c]) <= FifoCap
  BY IopWords DEF Wired, Iop!TypeOK
<1> QED
  BY <1>1 DEF TypeOK, eeVars, env

(* The two DMA controllers that share the queues of the SIF: neither is    *)
(* made to overflow a queue, or to leave its types, by the other one.      *)
THEOREM SifTypes == Wired => (SifSpec => [](TypeOK /\ Iop!TypeOK))
<1> SUFFICES ASSUME Wired PROVE SifSpec => [](TypeOK /\ Iop!TypeOK)
  OBVIOUS
<1>1. SifInit => TypeOK /\ Iop!TypeOK
  BY InitTypes, IopInitTypes DEF SifInit
<1>2. (TypeOK /\ Iop!TypeOK) /\ [SifNext]_sifVars => (TypeOK /\ Iop!TypeOK)'
  <2> SUFFICES ASSUME TypeOK, Iop!TypeOK, [SifNext]_sifVars
               PROVE  TypeOK' /\ Iop!TypeOK'
    OBVIOUS
  <2>1. CASE EeDmacStep \/ \E c \in Channels : EeProgramStep(c)
    <3>1. UNCHANGED iopVars /\ (DmacNext \/ \E c \in Channels : CoreWrite(c))
      BY <2>1 DEF EeDmacStep, EeProgramStep
    <3>2. TypeOK'
      BY <3>1, DmacTypes, CoreWriteTypes
    <3> QED
      BY <3>1, <3>2, IopKept
  <2>2. CASE IopDmacStep \/ IopHandlerStep \/ \E c \in IopChannels : IopProgramStep(c)
    <3>1. UNCHANGED eeVars /\ (\/ Iop!DmacNext \/ Iop!HandlerNext
                               \/ \E c \in IopChannels : Iop!ProgramNext(c))
      BY <2>2 DEF IopDmacStep, IopHandlerStep, IopProgramStep
    <3>2. Iop!TypeOK'
      BY <3>1, IopDmacTypes, IopProgramTypes
    <3> QED
      BY <3>1, <3>2, EeKept
  <2>3. CASE UNCHANGED sifVars
    BY <2>3 DEF sifVars, eeVars, iopVars, env, TypeOK, Iop!TypeOK
  <2> QED
    BY <2>1, <2>2, <2>3 DEF SifNext
<1> QED
  BY <1>1, <1>2, PTL DEF SifSpec
=============================================================================
