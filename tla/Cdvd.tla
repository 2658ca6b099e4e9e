-------------------------------- MODULE Cdvd --------------------------------
(***************************************************************************)
(* The CDVD's commands (liborbum/src/Controller/Cdvd, Resources/Cdvd).     *)
(* A program on the IOP pushes parameters into DATA_IN, writes the         *)
(* command, waits until READY no longer says busy and pops the results     *)
(* from DATA_OUT until READY says that it is empty.  READY is one byte,    *)
(* and its two flags are changed by the write of the command and by the    *)
(* CDVD under the command's lock, and by DATA_OUT under a lock of its own. *)
(* The configuration commands read and write the blocks of the NVRAM.      *)
(***************************************************************************)
EXTENDS Integers, Sequences, FiniteSets, SequencesExt

CONSTANTS
  Contents,      \* what a block of the NVRAM may hold
  Zero,          \* a block of zeros, one of Contents
  BlockBytes,    \* the bytes of a block (16)
  MaxBlocks,     \* the values of 40's parameter max_blocks
  MaxCommands,   \* bound: commands that a program writes
  Nobody         \* holds no lock

Areas == 0..2
Actors == {"cdvd", "iop"}
AreaBlocks == <<4, 2, 7>>
SizeOf(area) == AreaBlocks[area + 1]
Blocks == {b \in Areas \X (0..6) : b[2] < SizeOf(b[1])}
Bytes(content) == [i \in 1..BlockBytes |-> <<content, i>>]
Done == <<"done">>                                  \* a result byte of 15, 40, 42 or 43
Time == [i \in 1..8 |-> <<"time", i>>]              \* what 08 returns

CdvdAssumption ==
  /\ Zero \in Contents /\ BlockBytes \in Nat \ {0} /\ MaxBlocks \subseteq Nat /\ MaxCommands \in Nat
  /\ Nobody \notin Actors

\* A command and its parameters.  N commands and the other S commands throw.
Commands ==
  [name : {"08", "15", "41", "43", "unknown"}, params : {<<>>}]
    \cup [name : {"40"}, params : {<<rw, area, max>> : rw \in 0..1, area \in Areas, max \in MaxBlocks}]
    \cup [name : {"42"}, params : {Bytes(c) : c \in Contents}]

VARIABLES
  ready,         \* the flags EMPTY and BUSY of READY
  command, latch,
  data_in, data_out,
  lock,          \* who holds the command's lock, and DATA_OUT's
  access,        \* the NVRAM's access parameters
  nvram,         \* the contents of its blocks, by address
  cdvd,          \* the CDVD's place in time_step, what it has read, the results left to push
  prog,          \* the program's place, what it has read, its command and results
  commands,
  config,        \* history: the area that is open, and the block that is next
  written,       \* history: what each block was last written with
  wanted,        \* history: the results the program should see
  runs           \* history: commands that have been run

device == <<ready, command, latch, data_in, data_out>>
store == <<access, nvram>>
drive_history == <<config, written, wanted, runs>>
drive_vars == <<device, lock, store, cdvd, prog, commands, drive_history>>

Flags == [EMPTY : BOOLEAN, BUSY : BOOLEAN]
Closed == [mode |-> "closed", area |-> 0, max |-> 0, next |-> 0]
NoCommand == [name |-> "unknown", params |-> <<>>]
NoFlags == [EMPTY |-> FALSE, BUSY |-> FALSE]

\* Byte addresses of the areas, in blocks.
Address(area, block) == (CASE area = 0 -> 640 [] area = 1 -> 768 [] OTHER -> 512) \div 16 + block

DriveInit ==
  /\ ready = [EMPTY |-> TRUE, BUSY |-> FALSE] /\ command = NoCommand /\ latch = FALSE
  /\ data_in = <<>> /\ data_out = <<>>
  /\ lock = [command |-> Nobody, data_out |-> Nobody]
  /\ access = [read_write |-> 0, area |-> 0, max |-> 0, block |-> 0]
  /\ nvram = [a \in 32..49 |-> Zero]
  /\ cdvd = [at |-> "idle", read |-> NoFlags, out |-> <<>>]
  /\ prog = [at |-> "choose", read |-> NoFlags, command |-> NoCommand, got |-> <<>>]
  /\ commands = 0
  /\ config = Closed
  /\ written = [b \in Blocks |-> Zero] /\ wanted = <<>> /\ runs = 0
-----------------------------------------------------------------------------
(* What a program may expect of a command, from the area that is open and  *)
(* what the blocks were last written with: blocks come in order, from that *)
(* area and as they were written; past the end of an area there are zeros. *)
Inside(open) == open.next < SizeOf(open.area)
Legal(open, c) ==
  CASE c.name = "unknown" -> FALSE
    [] c.name = "41" -> open.mode = "reading" /\ (Inside(open) => open.next < open.max)
    [] c.name = "42" -> open.mode = "writing" /\ Inside(open) /\ open.next < open.max
    [] OTHER -> TRUE
Results(open, blocks, c) ==
  CASE c.name = "08" -> Time
    [] c.name = "41" -> Bytes(IF Inside(open) THEN blocks[<<open.area, open.next>>] ELSE Zero)
    [] OTHER -> <<Done>>
Answer(open, blocks, c) == IF Legal(open, c) THEN Results(open, blocks, c) ELSE <<>>

OpenAfter(open, c) ==
  CASE c.name = "40" -> [mode |-> IF c.params[1] = 0 THEN "reading" ELSE "writing",
                         area |-> c.params[2], max |-> c.params[3], next |-> 0]
    [] c.name = "43" -> Closed
    [] c.name \in {"41", "42"} /\ Inside(open) -> [open EXCEPT !.next = @ + 1]
    [] OTHER -> open
BlocksAfter(open, blocks, c) ==
  IF c.name = "42" /\ Legal(open, c) THEN [blocks EXCEPT ![<<open.area, open.next>>] = c.params[1][1]]
                                     ELSE blocks

Record(c) ==
  /\ wanted' = Answer(config, written, c)
  /\ config' = OpenAfter(config, c) /\ written' = BlocksAfter(config, written, c)
  /\ UNCHANGED runs
-----------------------------------------------------------------------------
(* The program.                                                            *)
Prog(place) == prog.at = place
ProgGoto(place) == prog' = [prog EXCEPT !.at = place]

Choose ==
  /\ Prog("choose") /\ commands < MaxCommands /\ commands' = commands + 1
  /\ \E c \in Commands :
       /\ prog' = [prog EXCEPT !.at = "command", !.command = c, !.got = <<>>]
       /\ data_in' = data_in \o c.params
       /\ Record(c)
  /\ UNCHANGED <<ready, command, latch, data_out, lock, store, cdvd>>

\* Mutant: the write does not wait for the CDVD to finish with the last one.
WriteCommandUnlocked ==
  /\ Prog("command")
  /\ prog' = [prog EXCEPT !.at = "busy", !.read = ready] /\ command' = prog.command
  /\ UNCHANGED <<ready, latch, data_in, data_out, lock, store, cdvd, commands, drive_history>>

\* byte_bus_write_ubyte of the command: the write, BUSY and the latch under its lock.
WriteCommand ==
  /\ Prog("command") /\ lock.command = Nobody
  /\ lock' = [lock EXCEPT !.command = "iop"]
  /\ prog' = [prog EXCEPT !.at = "busy", !.read = ready] /\ command' = prog.command
  /\ UNCHANGED <<ready, latch, data_in, data_out, store, cdvd, commands, drive_history>>

SetBusy ==
  /\ Prog("busy") /\ ready' = [prog.read EXCEPT !.BUSY = TRUE] /\ ProgGoto("latch")
  /\ UNCHANGED <<command, latch, data_in, data_out, lock, store, cdvd, commands, drive_history>>

SetLatch ==
  /\ Prog("latch") /\ latch' = TRUE /\ ProgGoto("wait")
  /\ lock' = [lock EXCEPT !.command = Nobody]
  /\ UNCHANGED <<ready, command, data_in, data_out, store, cdvd, commands, drive_history>>

ReadReady ==
  \/ /\ Prog("wait") /\ ~ready.BUSY /\ ProgGoto("results")
     /\ UNCHANGED <<device, lock, store, cdvd, commands, drive_history>>
  \/ /\ Prog("results") /\ ProgGoto(IF ready.EMPTY THEN "choose" ELSE "pop")
     /\ UNCHANGED <<device, lock, store, cdvd, commands, drive_history>>

\* DATA_OUT's read_ubyte; the pop throws if there is nothing.
PopResult ==
  /\ Prog("pop") /\ lock.data_out = Nobody /\ data_out # <<>>
  /\ data_out' = Tail(data_out)
  /\ prog' = [prog EXCEPT !.got = Append(@, Head(data_out)), !.read = ready,
                          !.at = IF Tail(data_out) = <<>> THEN "empty" ELSE "results"]
  /\ lock' = [lock EXCEPT !.data_out = IF Tail(data_out) = <<>> THEN "iop" ELSE @]
  /\ UNCHANGED <<ready, command, latch, data_in, store, cdvd, commands, drive_history>>

SetEmpty ==
  /\ Prog("empty") /\ ready' = [prog.read EXCEPT !.EMPTY = TRUE] /\ ProgGoto("results")
  /\ lock' = [lock EXCEPT !.data_out = Nobody]
  /\ UNCHANGED <<command, latch, data_in, data_out, store, cdvd, commands, drive_history>>

Program == Choose \/ WriteCommand \/ SetBusy \/ SetLatch \/ ReadReady \/ PopResult \/ SetEmpty
-----------------------------------------------------------------------------
(* The CDVD.                                                               *)
Cdvd(place) == cdvd.at = place

SeeLatch ==
  /\ Cdvd("idle") /\ latch /\ cdvd' = [cdvd EXCEPT !.at = "lock"]
  /\ UNCHANGED <<device, lock, store, prog, commands, drive_history>>

LockCommand ==
  /\ Cdvd("lock") /\ lock.command = Nobody
  /\ lock' = [lock EXCEPT !.command = "cdvd"] /\ cdvd' = [cdvd EXCEPT !.at = "run"]
  /\ UNCHANGED <<device, store, prog, commands, drive_history>>

\* The entry of SCMD_INSTRUCTION_TABLE: it leaves results ...
Leave(results) == cdvd' = [cdvd EXCEPT !.at = "push", !.out = results]
\* ... or throws, which releases the lock and ends the run of the core.
Throw == cdvd' = [cdvd EXCEPT !.at = "failed"] /\ UNCHANGED store

OutOfArea == access.area \in Areas /\ access.block >= SizeOf(access.area)

ReadBlock ==
  IF access.read_write # 0 \/ (~OutOfArea /\ access.block >= access.max)
  THEN Throw
  ELSE /\ UNCHANGED nvram
       /\ access' = [access EXCEPT !.block = IF OutOfArea THEN @ ELSE @ + 1]
       /\ Leave(Bytes(IF OutOfArea THEN Zero ELSE nvram[Address(access.area, access.block)]))

WriteBlock(content) ==
  IF access.read_write # 1 \/ OutOfArea \/ access.block >= access.max
  THEN Throw
  ELSE /\ nvram' = [nvram EXCEPT ![Address(access.area, access.block)] = content]
       /\ access' = [access EXCEPT !.block = @ + 1]
       /\ Leave(<<Done>>)

SetAccessParams(rw, area, max) ==
  /\ access' = [read_write |-> rw, area |-> area, max |-> max, block |-> 0]
  /\ UNCHANGED nvram /\ Leave(<<Done>>)

Needs(name) == CASE name = "40" -> 3 [] name = "42" -> BlockBytes [] OTHER -> 0

RunCommand ==
  LET name == command.name
      params == SubSeq(data_in, 1, Needs(name))
  IN  /\ Cdvd("run") /\ Len(data_in) >= Needs(name)
      /\ data_in' = SubSeq(data_in, Needs(name) + 1, Len(data_in))
      /\ runs' = runs + 1
      /\ CASE name = "08" -> Leave(Time) /\ UNCHANGED store
           [] name = "15" -> Leave(<<Done>>) /\ UNCHANGED store
           [] name = "40" -> SetAccessParams(params[1], params[2], params[3])
           [] name = "41" -> ReadBlock
           [] name = "42" -> WriteBlock(params[1][1])
           [] name = "43" -> SetAccessParams(0, 0, 0)
           [] OTHER -> Throw
      /\ lock' = [lock EXCEPT !.command = IF cdvd'.at = "failed" THEN Nobody ELSE @]
      /\ UNCHANGED <<ready, command, latch, data_out, prog, commands, config, written, wanted>>

\* DATA_OUT's write_ubyte, once for each byte.
PushResult ==
  /\ Cdvd("push") /\ lock.data_out = Nobody
  /\ lock' = [lock EXCEPT !.data_out = "cdvd"]
  /\ data_out' = Append(data_out, Head(cdvd.out))
  /\ cdvd' = [at |-> "some", read |-> ready, out |-> Tail(cdvd.out)]
  /\ UNCHANGED <<ready, command, latch, data_in, store, prog, commands, drive_history>>

ClearEmpty ==
  /\ Cdvd("some") /\ ready' = [cdvd.read EXCEPT !.EMPTY = FALSE]
  /\ lock' = [lock EXCEPT !.data_out = Nobody]
  /\ cdvd' = [cdvd EXCEPT !.at = IF cdvd.out = <<>> THEN "ended" ELSE "push"]
  /\ UNCHANGED <<command, latch, data_in, data_out, store, prog, commands, drive_history>>

ReadFlags ==
  /\ Cdvd("ended") /\ cdvd' = [cdvd EXCEPT !.at = "unbusy", !.read = ready]
  /\ UNCHANGED <<device, lock, store, prog, commands, drive_history>>

\* Mutant: all of READY is written.
ClearBusyAll ==
  /\ Cdvd("unbusy") /\ ready' = [EMPTY |-> TRUE, BUSY |-> FALSE]
  /\ cdvd' = [cdvd EXCEPT !.at = "unlatch"]
  /\ UNCHANGED <<command, latch, data_in, data_out, lock, store, prog, commands, drive_history>>

ClearBusy ==
  /\ Cdvd("unbusy") /\ ready' = [cdvd.read EXCEPT !.BUSY = FALSE]
  /\ cdvd' = [cdvd EXCEPT !.at = "unlatch"]
  /\ UNCHANGED <<command, latch, data_in, data_out, lock, store, prog, commands, drive_history>>

ClearLatch ==
  /\ Cdvd("unlatch") /\ latch' = FALSE /\ lock' = [lock EXCEPT !.command = Nobody]
  /\ cdvd' = [cdvd EXCEPT !.at = "idle"]
  /\ UNCHANGED <<ready, command, data_in, data_out, store, prog, commands, drive_history>>

CdvdStep == \/ SeeLatch \/ LockCommand \/ RunCommand \/ PushResult \/ ClearEmpty
            \/ ReadFlags \/ ClearBusy \/ ClearLatch
-----------------------------------------------------------------------------
DriveNext == Program \/ CdvdStep

-----------------------------------------------------------------------------
ResultBytes == {Done} \cup {<<"time", i>> : i \in 1..8} \cup (Contents \X (1..BlockBytes))
Locks == [command : Actors \cup {Nobody}, data_out : Actors \cup {Nobody}]
Accesses == [read_write : 0..1, area : Areas, max : MaxBlocks \cup {0}, block : 0..7]
Opens == [mode : {"closed", "reading", "writing"}, area : Areas, max : MaxBlocks \cup {0}, next : 0..7]
DriveStates ==
  [at : {"idle", "lock", "run", "push", "some", "ended", "unbusy", "unlatch", "failed"},
   read : Flags, out : Seq(ResultBytes)]
ProgramStates ==
  [at : {"choose", "command", "busy", "latch", "wait", "results", "pop", "empty"},
   read : Flags, command : Commands, got : Seq(ResultBytes)]
DriveTypeOK ==
  /\ ready \in Flags /\ latch \in BOOLEAN /\ command \in Commands /\ lock \in Locks
  /\ access \in Accesses /\ nvram \in [32..49 -> Contents]
  /\ cdvd \in DriveStates /\ prog \in ProgramStates /\ commands \in Nat /\ runs \in Int
  /\ config \in Opens /\ written \in [Blocks -> Contents]
  /\ data_out \in Seq(ResultBytes) /\ wanted \in Seq(ResultBytes)

(* When the program goes on to its next command, it has got exactly the    *)
(* results of this one, run once: no byte is missing because READY said    *)
(* too early that the queue is empty or that nothing is pending, none is   *)
(* left for the next command, and a block that it reads is what it wrote,  *)
(* whatever it wrote to the other areas (CdvdRegisters.cpp:27-38,          *)
(* CdvdFifoQueues.cpp:5-26, CCdvd.cpp:71-79, CdvdNvrams.cpp:25-121).       *)
CommandsAnswered ==
  /\ Prog("choose") => prog.got = wanted /\ runs = commands
  /\ Prog("pop") => data_out # <<>>

(* The flags tell the truth to whoever may look at them.                   *)
FlagsTrue ==
  /\ Prog("results") => ready.EMPTY = (data_out = <<>>)
  /\ ready.BUSY /\ Prog("wait") => latch

(* Only a command that breaks the rules makes the CDVD throw.              *)
ThrowsIfIllegal == Cdvd("failed") => wanted = <<>>

(* What these rest on: where the drive may be while the program is at a    *)
(* place, who holds which lock, what the flags that someone has read are   *)
(* worth, and that what has been answered and stored is what the commands  *)
(* asked for, but for the one that has not been run yet.                   *)
Waiting == Prog("wait") /\ ready.BUSY
InTurn ==
  /\ prog.at \in {"busy", "latch"} => Cdvd("idle")
  /\ Waiting => latch /\ cdvd.at \in {"idle", "lock", "run", "push", "some", "ended", "unbusy", "failed"}
  /\ ~Waiting => cdvd.at \in {"idle", "unlatch"} /\ latch = Cdvd("unlatch")
  /\ ready.BUSY => Waiting \/ Prog("latch")
  /\ Prog("latch") => ready.BUSY
LocksHeld ==
  /\ lock.command = (IF prog.at \in {"busy", "latch"} THEN "iop"
                     ELSE IF cdvd.at \in {"idle", "lock", "failed"} THEN Nobody ELSE "cdvd")
  /\ lock.data_out = (IF Prog("empty") THEN "iop" ELSE IF Cdvd("some") THEN "cdvd" ELSE Nobody)
FlagsKnown ==
  /\ prog.at \in {"busy", "empty"} => prog.read = ready
  /\ cdvd.at \in {"some", "unbusy"} => cdvd.read = ready
  /\ Prog("empty") => data_out = <<>>
  /\ Prog("pop") \/ Cdvd("some") => data_out # <<>>
  /\ ~Prog("empty") /\ ~Cdvd("some") => ready.EMPTY = (data_out = <<>>)

Pending == prog.at \in {"command", "busy", "latch"} \/ (Waiting /\ cdvd.at \in {"idle", "lock", "run"})
Open == [mode |-> IF access.read_write = 0 THEN "reading" ELSE "writing", area |-> access.area,
         max |-> access.max, next |-> access.block]
Stored == [b \in Blocks |-> nvram[Address(b[1], b[2])]]
Same(open, other) == open = other \/ (open = Closed /\ other = [Closed EXCEPT !.mode = "reading"])
CommandKnown ==
  /\ data_in = IF Pending THEN prog.command.params ELSE <<>>
  /\ prog.at \in {"busy", "latch"} \/ Waiting => command = prog.command
  /\ Pending => /\ prog.got = <<>> /\ data_out = <<>> /\ runs = commands - 1
                /\ wanted = Answer(Open, Stored, prog.command)
                /\ wanted # <<>> => /\ Same(config, OpenAfter(Open, prog.command))
                                    /\ written = BlocksAfter(Open, Stored, prog.command)
ResultsKnown ==
  /\ Cdvd("push") => cdvd.out # <<>>
  /\ cdvd.at \notin {"push", "some"} => cdvd.out = <<>>
  /\ Prog("choose") => data_out = <<>>
  /\ Prog("wait") => prog.got = <<>>
  /\ Cdvd("failed") => wanted = <<>>
  /\ ~Pending => runs = commands
  /\ ~Pending /\ ~Cdvd("failed") => /\ (prog.got \o data_out) \o cdvd.out = wanted
                                    /\ Same(config, Open) /\ written = Stored
CdvdInv == DriveTypeOK /\ InTurn /\ LocksHeld /\ FlagsKnown /\ CommandKnown /\ ResultsKnown

(* Every command that keeps to them is answered, although the program may  *)
(* write the next one while the CDVD still has to clear the latch of the   *)
(* last (CCdvd.cpp:78).                                                    *)
Commanded == Prog("command")
Complete == Prog("choose") \/ Cdvd("failed")
=============================================================================
