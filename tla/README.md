# Orbum in TLA+

Orbum is an emulator of a console with two processors, the EE and the IOP, and
their peripherals. Every piece of hardware is a *controller* that is given a
slice of time and handles it on a thread of a pool; the controllers share
*resources*: registers, memories and FIFO queues. This directory holds TLA+
modules of the parts in which those threads meet, TLC configurations that check
them on small instances, and TLAPS proofs of the results that matter most.

Paths below are relative to `src/liborbum/src/` unless they start with `src/`.

## 1. The system

### The parts, their state and what makes them correct

| Part | State | Operations | What is hard | What makes it correct |
|---|---|---|---|---|
| **Core::run and the task executor** (`Core.cpp`, `src/utilities/src/TaskExecutor.hpp`, `Queues.hpp`, `OrbumFront.cpp`) | event queue, pending, running and error queues, busy counter, two exit flags per worker | `run`, `enqueue_controller_event`, `dispatch`, `wait_for_idle`, the worker loop, the destructors | interleaving of pop, count and wait; lost wake-ups; bounded queues; a handler that throws | runs are synchronised blocks; every event is handled once; no failure is lost; `run` and the destructor return |
| **EE DMAC** (`Controller/Ee/Dmac`, `Resources/Ee/Dmac`) | ten channels (CHCR, MADR, QWC, TADR, ASR, SADR, flags), CTRL, STAT, STADR, the core's interrupt line | the time step: normal and chain transfer, the tags, stall control, the interrupt check; register writes | CHCR.STR is read before its lock; the queues have another thread at the other end; the drain follows the source | the data of a chain arrives whole, in order and once; the interrupt comes after it; a drain never sends what is not written; transfers end |
| **IOP DMAC** (`Controller/Iop/Dmac`, `Resources/Iop/Dmac`) | thirteen channels (CHCR, BCR, MADR, TADR, tag), PCR, GCTRL, ICR0, ICR1, the INTC's bit | burst, slice and chain transfer, the interrupt check; register writes | as above; an interrupt that comes while the handler runs | as above, and no interrupt is lost |
| **SIF** (`Resources/RResources.cpp`, `SbusFifoQueues`) | the queues SIF0, SIF1 and SIF2 | both DMACs | two controllers that agree on tags only by counting words, each waiting for the other | framing, completion, no word left behind |
| **SBUS registers** (`Resources/SbusRegisters.cpp`) | MSCOM, MSFLG, SMFLG, F240 | bus writes of either core, updates by CHCR writes | read-modify-writes by four threads | no bit comes or goes but by a write about it |
| **INTCs** (`Controller/{Ee,Iop}/Intc`) | STAT, MASK (and CTRL on the IOP), the cores' Cause registers | raising by devices, acknowledging, masking, the line | STAT and MASK are read apart, the line is set later; the return from a handler clears it | no raised bit is lost to an acknowledgement of another; each reaches the handler; old values mislead a core a bounded number of times |
| **Timers** (`Controller/{Ee,Iop}/Timers`) | COUNT, MODE, COMPARE, write latch, prescaler, sticky overflow flag | tick by Time or HBlank, bus writes | Time and HBlank tasks of one controller run at once; wrap; a flag that is only cleared when it is looked at | each tick of the source counts once; one interrupt per target or overflow that is asked for; the events come to an end |
| **CDVD** (`Controller/Cdvd`) | N and S command registers with write latches, READY, parameter and result queues, the NVRAM's blocks | command, results | READY is changed under two different locks | each command is answered with what the ones before it stored; the polled flags tell the truth |
| **SIO0, SIO2** (`Controller/Iop/Sio0`, `Sio2`) | CTRL, STAT, ports, write latches, queues | reset, port transfer, command bytes | latches, nested locks, a command during a transfer, an unlocked update of STAT | each byte is answered once, on its port, before the interrupt |
| **SPU2** (`Controller/Spu2`) | per-core ATTR with the transfer's position, TSA, IRQA, ADMAS, STATX, queue, memory | manual and automatic DMA, interrupt check | the position and ADMAS are changed by the program at the same time; two buffers per channel | each halfword in its place when the program goes on; an interrupt when the watched address is written |
| **CRTC** (`Controller/Gs/Crtc`) | row and column | HBlank events, VBlank interrupts | it enqueues events from inside a block | every HBlank is delivered in the next block |
| **VIF** (`Controller/Ee/Vpu/Vif`) | the unit's registers, the queue | command loop, UNPACK | continuing a command across queue reads | every word is a command or its data, as its tag says |
| **EE and IOP cores** (`Controller/Ee/Core`, `Iop/Core`) | PC, delay slot, registers, Cop0, TLB, caches of translations | the time step, exceptions and ERET, address translation, the instructions | an exception in a delay slot or in a handler; a translation that is out of date; an interrupt that is looked for now and then only; lanes of four widths | no instruction is lost or run without its branch; the handler comes next; only the TLB's translations are used; the instructions compute what is asked of them |
| **FPU and VU** (`Interpreter/*_FLOAT.cpp`, `Ee/Vpu/Vu`) | FPR, ACC, control; VF, VI, ACC, flags, Q, I, R, memory | arithmetic with flags, conversions, clipping, integers, transfers | the host's infinities, NaNs and denormals; flags of four fields in one register | only floats of the machine are left; both units agree; no flag is forgotten |
| **Caches** (`src/utilities/src/Caches.hpp`, `TranslationCache.hpp`) | entries with time stamps | get, insert, flush | eviction and ties of time stamps | a map that forgets |
| **Bus, memories, register classes** | bytes | reads and writes | width | storage |
| **GIF, IPU, GS core** | none | `time_step` does nothing | | |

### How they interact

* `Core::run` enqueues one Time event for every controller, turns the queued
  events into tasks, hands these to the workers and waits until all are done.
  So all controllers of a block run concurrently, in any order.
* Controllers share resources. A register has a *scope lock*
  (`Common/Types/ScopeLock.hpp`) that code takes when it sees fit; a FIFO queue
  is a lock-free single-producer single-consumer ring.
* A DMA channel is wired to a queue (`RResources.cpp:283-297`), whose other end
  is a peripheral or the DMAC of the other processor. Starting or ending a SIF
  channel also changes SBUS_F240.
* A DMAC tells its processor of the end of a transfer through D_STAT and the
  core's interrupt line (EE) or through ICR0/ICR1 and the INTC (IOP).
* A program of the emulated console writes all these registers at any moment.
  It is the environment of the models.

## 2. The modules

| Module | What it is |
|---|---|
| `SyncBlocks` | abstract specification: events, synchronised blocks, failure |
| `TaskExecutor` | `Core::run`, worker pool, queues, errors, shutdown; properties and `IInv` |
| `MCTaskExecutor` | values for TLC |
| `TaskExecutorProofs` | invariance of `IInv`, `Resynchronised`, refinement of `SyncBlocks` |
| `DmaWords` | the words that both DMACs move |
| `EeDmac`, `MCEeDmac` | the EE DMAC; programs for it, and what they are to do |
| `IopDmac`, `MCIopDmac` | the IOP DMAC, likewise |
| `Sif`, `MCSif` | both composed over the SIF queues |
| `SifProofs` | the types of both DMACs, alone and together; the chains of both; the stall control of the EE's |
| `Sbus`, `MCSbus`, `SbusProofs` | the shared registers taken apart into reads and writes; values; proofs |
| `Intc`, `MCIntc`, `IntcProofs` | both INTCs between the devices and the cores' handlers; values; proofs |
| `Timers`, `MCTimers`, `TimersProofs` | the units of both timer controllers, several tasks at once; values; proofs of `TimersInv` and `CountsEachTick` |
| `Cdvd` | the drive's S commands and the program that polls READY; properties and `CdvdInv` |
| `Sio` | SIO2 and SIO0, their queues and the program |
| `Spu2` | one core of the SPU2, its DMA channel and the program |
| `BranchDelay`, `TranslationCache` | the delay slot; the cache of translations, by ranks of time stamps |
| `TranslationCacheProofs` | what a cache of translations keeps, for both cores' proofs |
| `EeCore`, `MCEeCore` | the control of the EE core: time step, exceptions, TLB, caches; values |
| `EeCoreProofs` | invariance of `CoreInv`, `NextIsHandler` and `TranslationsKnown` |
| `Lanes` | a register or memory as bytes, halfwords, words, doublewords at once |
| `EeAlu`, `EeMultiply`, `EeMoves` | what the integer and multimedia instructions compute, as functions |
| `EeIsa`, `MCEeIsa` | the interpreter over straight programs of these; the programs and laws |
| `PsFloat`, `Vu` | the words that the floating point units keep; the vector unit's instructions |
| `EeCop`, `MCEeCop` | the FPU and VU0 in macro mode over straight programs; the programs and laws |
| `IopCore` | the control of the IOP core: time step, exceptions, RFE, isolated cache; its invariant |
| `IopDevices`, `MCIopDevices` | `IopCore`, `Cdvd`, `Sio` and `Spu2`, one of which is driven in a behaviour; values |
| `IopProofs` | invariance of `IopCoreInv`, `DriveAnswers`, `SoundArrives` and `PortsAnswer` |
| `IopIsa` | what the IOP core's instructions compute |
| `MCInstructions` | `EeIsa`, alone or in step with `IopIsa`, and `EeCop` in one run; values |

Mutated forms of definitions (comments that begin with "Mutant") stand next to
the definition they vary: each property is shown to fail with one of them, so
that it does say something about the code.

### TaskExecutor

`main` is where the main thread is: in the frontend's loop, in one of the loops
of `Core::run`, in `dispatch`, in one of the two waits of `wait_for_idle`, at
the error check, or in a destructor. `worker[w]` is where a worker is in
`main_thread_`. A step is what a thread does under one lock. `TryPop` counts the
worker busy *inside* the queue's lock and before the pop (`TaskExecutor.hpp:98-103`
passes the increment to `try_pop` as `atomic_fn`), so the lock is held over two
steps, `TryPop` and `Pop`: the whole point of that argument is what the main
thread can see in between.

Waits of the main thread on a condition variable need a notification: `asleep`
is cleared only by the code's `notify` calls (and by `SpuriousWake`, without
fairness). A worker's wait has a timeout of 500 ns, so it is simply an empty
poll. A handler is one or more steps: the CRTC's may enqueue HBlank events one
by one, any handler of `Throwing` may end in an exception. The ids of events and
`handled`, `failed`, `runs` and `issued` are history.

`BlockStatus`, `BlockNext` and `BlockTodo` are the refinement mapping into
`SyncBlocks`: a block begins when packaging ends and ends with the error check;
its tasks are those pending, queued or in the hands of a worker that has not
returned from its handler.

### EeDmac

The DMAC's time step goes over the channels (`dmac`); `Check` reads CHCR.STR
*before* the lock and `Transfer(c)` is what happens under it, one action for each
outcome: `Begin`, `Stall`, `Move` (one qword), `Blocked`, `AwaitPeripheral`,
`Suspend`, `ReadSourceTag`, `ReadDestTag`, `TagBlocked`, and `Fault` for what
throws. `InterruptCheck` ends the time step. Between `Check` and the transfer the
program may stop the channel and set it up anew; as the code does not look at
STR again, one more step is then made with the new registers.

A word is a record, payload or half of a tag, and addresses count qwords.
`program[c]` is what the EE's program will write to channel c (`regs`, `start`,
`resume`, `stop`), `input[c]` what a peripheral will send, `received[c]` what one
has taken. `Direction` is the override of CHCR for single channels; what the overrides
of the SIF channels do to SBUS_F240, which no controller reads, is in `Sbus`.
`SRC_CALL` and `SRC_RET` do what the handlers do, field by field.

`setup` is what the program has prepared (`Scenarios`): memory, stall settings, the
writes to come, and two things that only the properties read. `chains[c]` is the
addresses of the tags of the chain that channel c sends; from these and the memory
`Packets(s, c)[k]` is what the first k tags stand for, by the comments above the
handlers and not by what the handlers do. `fresh` is the words that a source is to
write over stale ones before a drain sends them.

### IopDmac

The same structure, in words. `Calculate` is `BCR::calculate` with its width:
zero stands for the full field, and the product wraps. `SourceLength` rounds as
`(length + 3) & 0xFFFFC` does. ICR0 and ICR1 are one record of sets, divided by
`LowChannels`. The interrupt handler of the program acknowledges the INTC's bit
first (`TakeInterrupt`), then reads and clears the TCI bits (`HandleInterrupt`);
a channel may end in between. `Queue` is the wiring, with that of channels 11 and
12 as `RResources.cpp:296-297` has it.

The write of SIF1's CHCR is the one that takes no lock
(`IopDmacChannelRegisters.cpp:122`), and is taken apart: `CoreWrite` writes the
fields, then `FinishWrite` looks at START again (it may have been cleared by the
DMAC) and resets the two flags of the transfer, one after the other. `chcr_write`
is how far it is; the DMAC may act between any two of these. `torn` is history:
the DMAC has moved channel 10 on by `dma_started`, which the write was still to
reset or was about to. Then the code may read data for a tag, or a tag for data,
and no property says anything of what follows (section 5).

`setup` is the scenario. `chains[c]` is the number of tags that the program has
built for channel c, one behind the other from the address that goes to TADR;
`Packets(s, c)[k]` is what the first k of them stand for by the comments at
`CIopDmac.cpp:378` and `:404`: the upper half of the tag, then its data "rounded up
to the nearest qword". Only the properties read them.

### Sif

`EeDmac` extended, `IopDmac` instantiated, over a common `fifo`. Each of the five
kinds of step (two DMACs, two programs, the IOP's handler) leaves the other side's
variables alone. `CONSTRAINT Untorn` of its run drops the states in which a write
of SIF1's CHCR is torn: both properties hold of every behaviour that has one, so
nothing is missed by not following it.

### Sbus

Each update is a sequence of read-modify-writes, each of a `Read` and a `Write`
step; a bus write holds the register's lock from `Lock` to `Return`, an update by
a CHCR write does not lock. The four threads are the two cores and the two
DMACs.

### Intc

Each thread that changes a STAT (`update[a]`) goes through `Lock`, `Read`,
`Write` and `Release`; the CRTC, which raises VBlank at both processors, locks
the EE's STAT and then the IOP's. An INTC's time step is taken apart as well:
`ReadCtrl`, then `ReadStat` and `ReadMask` in either order (they are the two
operands of one `&`), then `UpdateLine`. A core runs its program or its handler:
`TakeInterrupt` is the interrupt check and the exception, `Acknowledge` begins an
update, and `Return` is ERET or RFE with the flush of the lines. `Open` and
`Close` are a program that masks its interrupts for a while with MASK or, on the
IOP, CTRL. `idle[p]` is history: how many interrupts p has taken since one was
pending or its program changed MASK or CTRL.

### Timers

A block (`Block`) gives each task its ticks, when the tasks of the one before are
done. A task goes over the units of its controller: `Take` takes the lock of
MODE, looks at the latch and decides whether this unit counts this event;
`Count` reads COUNT, `Store` writes it, `Check` is the overflow, target and
interrupt check with its one read of COUNT and COMPARE, and `RaiseIrq` is under
the lock of STAT. `Advance` releases the lock and goes on to the next unit, tick
or event. The program's writes to MODE take the lock, those to COUNT and COMPARE
do not and may fall between any two steps. `elapsed`, `raised` and `steady` are
history: ticks of the unit's source and interrupts since MODE was last seen
written, and whether the program has touched COUNT or COMPARE since.
`CountsEachTick` compares COUNT and the interrupts with a closed formula of the
elapsed ticks. `Stored` is `byte_bus_write_uword` of MODE, which on the EE keeps
none of the value (finding 1); so no EE unit ever counts, and `TimersInv` says so.

### IopDevices: IopCore, Cdvd, Sio, Spu2

`IopDevices` puts the IOP's core beside three of its peripherals. In these models
they share no state (the interrupts by which the devices reach the core are in
`Intc`), so `driven` names the one that moves and the others stay as after a reset.

The program is part of each of them: what it may rely on depends on what it polls.

`Cdvd`: the write of the command is `WriteCommand`, `SetBusy` and `SetLatch`
under the command's lock, popping a result is `PopResult` and `SetEmpty` under
DATA_OUT's, and the drive's time step is taken apart in the same way; each update
of READY is a read and a write of both flags. `RunCommand` is the table of S
commands with the NVRAM's blocks and areas. `Answer`, `OpenAfter` and `BlocksAfter`
are the reference, functions of an area that is open, the contents of the blocks
and a command; `Record` applies them, when the program picks a command, to
`config` and `written`, which the drive never sees.

`Sio`: the SIO2's time step begins with `CtrlCheck` and holds the lock of its CTRL
until it is `Free` again. `PortTransfer` decides what the current port can do;
`SelectPort`, `SendByte` and `ReceiveByte` do it, `ReadStat` and `WriteStat` tell
it, and `NextPort` goes on. The SIO0's step is `ResetCheck`, then `Look` and
`SetReady` (STAT without its lock) or `Answer` and `TellAnswer`. A byte's answer is
the byte with its port. The program sends (`Send`), asks for the answers
(`Receive`) and takes them (`Collect`); it writes CTRL only when the last value
has been seen, since the latch keeps one.

`Spu2`: ATTR's write is `ResetOffset` and `WriteAttr`; `dma_offset += 1` is
`ReadOffset` and `WriteOffset`, `set_adma_running` is `ReadAdmas` and `WriteAdmas`,
and the DMA channel ends (`EndChannel`) when the queue is empty, which is before the
last halfword is in memory. The program goes on when the channel's interrupt has
come *and* STATX asks for data: without the second it would overwrite the position
of its own transfer (the run then finds `SoundInPlace` violated). The channel sends
a word byte by byte, once it has room for all of it (`CIopDmac.cpp:322`), and the
SPU2 takes halfwords: `Send` is a halfword, so that the SPU2 may look for data
between the two halves of a word, find none and set DREQ. With the last word that is
an old DREQ by the time the channel's interrupt comes, and the program may go on
with the last halfword still in the SPU2's hands. `between` is the history of such a
look, `early` that of a program that has gone on so. `SoundInPlace` and
`WatchedRaised` except the last halfword in the first case and say nothing of the
second. `Place` says where a halfword belongs, for a transfer that `Fits`: a manual
one of at most the memory, an automatic one of at most the two buffers of each
channel.

### EeCore

`phase` cuts `time_step` into `InterruptCheck`, `Fetch`, one action for
each kind of instruction, and `Advance` (delay slot, PC, ticks), since the INTC
raises the line at any moment. `HandleException` is `handle_exception` with the
correction of the PC that its callers make. The TLB is a function of the entries
that have been written, searched in the order of `find_tlb_entry_index`
(`SearchOrder`); `Fallback` is `translate_address_fallback` with its stages, and
`Lookup` and `After` are the cache in front of it. `branch`, `owed`,
`context_written` and `handler` are history; `handler` is the vector that an
exception or interrupt since the last fetch is to go to, or `"slot"` for an
exception in a delay slot of an outer handler, which does not get there
(section 5). Which instruction is at an address is
nondeterministic: `program` only says which kinds there are.

### Lanes, EeAlu, EeMultiply, EeMoves, EeIsa

A register is one number whose lanes of any width are read and written as in the
union of `SizedQwordRegister`. The instructions are functions, one for each
family with the width as parameter; `EeIsa` runs straight programs of them.
Where the code leaves the result to the compiler (an `int` sum that overflows),
`wide` chooses. `MCEeIsa` has the programs: each computes a thing in two ways
that the code has written apart, and a law compares the two results.

### IopCore, IopIsa

`IopCore` cuts the IOP's `time_step` as `EeCore` does the EE's. There is no TLB
and no EXL: Status holds three levels of interrupt enable and mode (`stack`),
which an exception pushes and RFE pops, and the return is a JR to an address
that the handler has saved, with RFE in its slot (`JumpBack`, `Rfe`). The
programs are those that keep to the protocol: a handler saves EPC before it
enables interrupts or traps, masks them before it returns, and nests as often as
the three levels allow. `saved` is the program's memory, `owed` the history of
what it should go on with. With the cache isolated a store passes the translation
cache by (`Bypasses`) and has no address below `UserPages`; `stored` remembers
where the last one went. Outside of the kernel nothing is translated and the
fetch throws (`"failed"`).

`IopIsa` has the instructions over words, with the masks and shifts of
`CIopCoreInterpreter_*.cpp`. In the programs of law `CoresAgree` it runs each
instruction together with `EeIsa`, from registers that hold the EE's low words;
`CoresAgree` says that they still do after each instruction.

### PsFloat, Vu, EeCop

A float is a sign and a code in the order of the values; arithmetic is done on
evenly spaced values and truncated, and the host's infinities, NaNs and
denormals are codes beyond. `ToPs2` is `to_ps2_float`. `Vu` has the vector unit's
instructions, `EeCop` the FPU's and the dispatch of COP2 to VU0. The properties
are about clamping, flags and the agreement of the two units, which depend on
the order of these codes and not on the spacing.

## 3. What is checked

Every run ends within about three minutes.

| Run | Instance | States | What it shows |
|---|---|---|---|
| `task_executor` | 3 workers, 3 controllers (two timers, CRTC), at most 1 HBlank per slice, 3 runs; queues of 5, 5, 2 and 2 | 239 173 | `IInv`, `Resynchronised`; implements `SyncBlocks` (`RunsInBlocks`); `RunReturns`; `ShutdownCompletes` |
| `ee_dmac` | seven programs: a chain to the GIF of CNT, REF+IRQ, NEXT and REFE through a queue of two qwords, with 2 writes to D_STAT or D_CTRL; chains to VIF1 and the GIF at once; VIF1 draining fromSPR or SIF0, in normal and chain mode, stopped and restarted; both SPR channels; an empty transfer that throws | 38 977 | `TypeOK`; packets in order and whole (`SendsChain`); `NoStaleData`; `InterruptAfterData`; the line follows D_STAT (`LineFollowsStat`); `TransfersEnd` |
| `iop_dmac` | six programs: SIF0, three packets of 2, 4 and 1 words, IRQ and resumption, with writes to PCR, GCTRL or ICR; chains to SIF0 and the SPU2 at once; CDVD burst downwards, SPU2 slice and SIF1 chain with the handler; two SIF1 transfers, one after the other; one stopped and restarted; a chain that throws | 253 143 | `SendsChain`, `DataBeforeInterrupt` (with `TypeOK`), `InterruptAfterData`, `TransfersEnd` |
| `sif` | two packets to the IOP, three to the EE (3, 2 and 4 words), two transfers each way; queues of two qwords | 151 335 | `DataInPlace`, `SifCompletes` |
| `sbus` | all four registers, two flags and the F240 bits, 3 updates at once | 131 306 | `SbusInv`, `MailboxesKept` |
| `intc` | the CRTC and the timers each raise once, the program of either processor masks up to twice | 140 855 | `IntcInv`, `RaisedKept`, `MisledTwice`, `RaisesAcknowledged` |
| `timers` | a narrow unit (0 to 2) and a wide one (0 to 3) of the IOP; a Time task and two HBlank tasks; 2 blocks, 2 writes | 269 744 | `TimersInv`, `CountsEachTick`, `EventsHandled` |
| `iop_devices` | the drive: 6 commands, two contents of a block, areas of 2, 4 and 7 blocks; SIO: 2 ports, 2 transfers; SPU2: blocks of 2 halfwords, 2 transfers of 1 or 3 words; core programs on 2 pages of 2 instructions, with handlers that nest twice, isolated stores, and user mode | 355 128 | `IopCoreInv`, `DriveAnswers`, `PortsAnswer`, `SoundArrives`, `IrqTaken`, `DevicesFinish` |
| `ee_core` | 3 pages of 2 instructions; a program of branches, traps, ERET, EI and DI, and one of accesses, TLB writes and changes of context | 353 188 | `CoreInv`, `NextIsHandler`, `TranslationsKnown`, `IrqTaken` |
| `instructions` | programs of up to six instructions over operands at the ends of the ranges, on the EE, on both cores, or on FPU and VU | 109 755 | `ArithmeticLaws`, `MovementLaws`, `CoresAgree`, `CoprocessorLaws` |
| `timers_ee` | a write to MODE of a unit of the EE | | violated: finding 1 |
| `iop_dmac_sio2` | a transfer on channel 11 | | violated: finding 2 |

### The bounds, and why they are enough

* `MaxRuns = 3`: what a run leaves for the next one (an HBlank event, an error, a
  worker still on its way to its loop test) is seen by a second run, and what
  that leaves in turn by a third. `MaxHBlank = 1` gives two events into a queue
  that is not being emptied. `RunningCap = 2` is below the number of tasks, so
  `dispatch` has to wait for room; `EventCap` and `PendingCap` are exactly the
  three controllers plus the two HBlank events, and `ErrorCap` exactly the number
  of tasks that may throw in one run. The real capacities are 128, 128, 128 and
  32 for about twenty controllers.
* `FifoCap` is two qwords for the EE and one or two for the IOP instead of 1024
  bytes, so that queues run full and empty.
* The `toggles` of a DMAC scenario (writes to control registers) are 2, one to
  disturb and one to restore, where that is the question, else 1 or 0. `MaxJobs = 3`
  in `Sbus` is one more than two actors need to lose an update; that nothing is lost
  for any number is proved.
* `MaxRaises = 1` for each of two devices gives two interrupts at one processor,
  so that one is acknowledged while the other is raised. `MaxSections = 2`: a
  program can mask by MASK and by CTRL, or twice. One processor uses interrupts
  at a time (`EitherProgram`); both at once, and all other numbers, are covered
  by the proofs, and only `RaisesAcknowledged` is not.
* `FieldSize` and `TagLimit` stand for 2^16 and 2^20. The lengths used are below
  them.
* `Timers`: `NarrowMax = 2` and `WideMax = 3` let a unit wrap within the four
  ticks that two blocks of two give it, with a target below, at and beyond the
  end; two writes are one to MODE and one to COUNT or COMPARE, or a second
  restart. Three tasks put two HBlanks into one block.
* `iop_devices`: six commands open an area, write two blocks, open it again and read
  them, which is the length of the NVRAM's protocol; blocks of two bytes make a
  result queue that is popped halfway; `MaxBlocks` is above the size of one area and
  below the others'. Two transfers let what the first leaves behind disturb the second.
  `Block = 2`: three words are three blocks, both buffers of the left channel and one of the
  right, with a word's halves apart in the queue; TSA is at the end of the memory,
  so that addresses wrap. Four blocks and more are in the proof only.
* `IopDmac`: no program stops SIF1, and nothing tells apart what follows a torn
  write of its CHCR.
* `EeCore`: a page of each kind of segment, one branch target, one more TLB entry
  (index 13, in another range of the search than the first, 38), caches of one
  entry so that each insertion evicts. An event of 19 ticks has a multiple of 16
  in it that is not its first.
* `IopCore`: a page of the low addresses and one of kseg0, two instructions each,
  a branch target in the first and both vectors in the second; caches of one entry.
  Two handlers may run in each other, which is what three levels of Status can
  hold; the traps and interrupts of a program that nests are not combined with
  its loads and stores. `IopProofs` has no such bounds but the nesting.
* Instructions: bytes of 2 bits (words of 8, quadwords of 32) keep all four
  widths apart; operands are the ends of the ranges and what is beside them.
  Floats of 7 bits have four denormals and infinity and NaN beyond.
* Memories are as large as the scenario needs; all words have different values,
  so that a misplaced word is always noticed.

`CHECK_DEADLOCK FALSE` is said where the system stops: in `Sbus` when all
`MaxJobs` updates are made, in `Timers`, `Cdvd`, `Sio` and `Spu2` when the bounds
on blocks, commands and transfers are reached or a task has thrown, in `EeCore`
and `IopCore` when a fetch fails as the code's does, and at the end of a straight
program.
Everywhere else the time step, or `Terminated` or `Faulted` at the end, goes on
for ever, and a state without a step would be an error.

### Fairness

The fairness is weak but for `Sio`'s:

* `TaskExecutor`: of the main thread and of each worker. The operating system
  runs every thread that can run; the mutexes are held for a few instructions.
  `SpuriousWake` is not fair, so liveness does not rest on it.
* `EeDmac`, `IopDmac`, `Sif`: of the DMACs, because `Core::run` gives each
  controller a Time event in every block (which `RunsInBlocks` and `RunReturns`
  show is handled); of the peripherals for the same reason; of the programs,
  because the cores are controllers too and a program that has more registers to
  write goes on. Writes to the control registers (`WriteStat`, `WriteDmae`,
  `WritePcr`, ...) are not fair. The liveness properties name the cases in which
  the program itself has switched the DMAC or the channel off for good.

* `Intc`: of each update, of the INTCs and of the handlers, which are controllers
  too; of `Open`, as a program masks for a while only. `Raise` and `Close` are not
  fair. Weak fairness of `Lock` is enough as each device raises a bounded number
  of times.

* `Timers`: of each task, which a worker takes and runs to its end. The blocks and
  the program's writes are not fair.
* `Cdvd`, `Spu2`: of the device, of its DMA channel and of the program.
* `Sio`: strong fairness of both controllers and the program, because a block does
  not end before both have done their time steps: one cannot keep the other from
  its lock for ever.
* `EeCore`, `IopCore`: of the core's steps, and of the INTC's raising of the line
  for `IrqTaken`.

## 4. What is proved

For every set of workers, every order of controllers, every number of runs and
all queue capacities (`WorkersAssumption`, `ControllersAssumption`,
`BoundsAssumption`, `NoTaskAssumption`), in `TaskExecutorProofs`:

* `Invariance`: `Spec => []IInv`.
* `Resynchronisation`: `Spec => []Resynchronised`.
* `Refinement`: `Spec => RunsInBlocks`.

The argument. `Resynchronised` is not inductive: that the queue is empty and the
counter zero when the main thread goes on says nothing about a worker between
its pop and its release. The strengthening is `IInv`:

* `CounterInv`: the counter is the number of busy workers, and is zero outside a
  block. A worker is busy from `TryPop`, *before* the task leaves the queue, to
  `Release`. The steps on the counter are steps on a cardinality.
* `QueueInv`: which queues may be non-empty at which place of the main thread,
  and that at most one worker is in "Pop" (it holds the mutex), with a non-empty
  queue. Hence when the main thread has seen the queue empty it stays empty; and
  a counter of zero after that means that no worker is busy.
* `PlaceInv`: no event is in two places or twice in one, and all ids are below
  `issued`. This is what the refinement needs for "exactly once".
* `ErrorInv`: a failure is on its way to the error queue, in it, or has stopped
  the core.

The proof that a step preserves it has one step per action; the refinement maps
`EnqueueTime` and `EnqueueHBlank` to `Enqueue`, the end of `Package` to `Begin`,
`RunTask` to `Handle`, `CheckErrors` to `End`, `Quit` to `Quit`, and everything
else to a stutter. For the fact that the error queue never blocks, see run
`task_executor` (it depends on its capacity).

For any set of registers, values and number of updates (`SbusAssumption`), in
`SbusProofs`:

* `SbusInvariance`: `Spec => []SbusInv`. `LockDiscipline` says that whoever is
  between the read and the write of a register other than F240 holds its lock,
  and that what was read is still there.
* `Mailboxes`: `Spec => MailboxesKept`, from it: a write then changes only the
  bits it is about.

For any devices, sources, combinations of bits that they raise, numbers of raises
and maskings, and for programs on either or both processors (`IntcAssumption`),
in `IntcProofs`:

* `IntcInvariance`: `Spec => []IntcInv`. Each thread is disciplined: its locks
  are among those that it needs, it reads and writes under them, and what it has
  read is still there when it writes; who holds the IOP's lock does not wait for
  the EE's. One lemma for each step of an update, and one for all that leave
  STAT alone.
* `Raised`: `Spec => RaisedKept`, from it.
* `Misleading`: `Spec => []MisledTwice`. That `idle` stays below three says
  nothing of why; the strengthening is `MisledInv`, a measure. What can mislead
  the program is the line, if it is set, and the INTC's step in progress, if it
  may yet decide to set it (`MayDecide`); each counts once, `idle` plus
  what is left is at most two, and `idle` is zero while an interrupt is pending. An
  interrupt uses up the line, `UpdateLine` turns a decision into a line, and a
  step of the INTC that begins while nothing is pending decides rightly. While a
  handler runs its INTC may set the line from old values; `Return` flushes it,
  which is needed, as the mutant `ReturnUnflushed` shows.

For any units, widths, tasks, and values that programs write (`TimersAssumption`),
in `TimersProofs`:

* `TimersInvariance`: `Spec => []TimersInv`. The invariant is inductive as it is
  stated: a task is inside a unit exactly when it holds the lock of its MODE, and
  then nobody else writes the unit but a program that writes COUNT or COMPARE,
  which ends `steady`. That no EE unit is enabled follows from `Stored`, and with
  it that a task inside a unit is one of the IOP's. One lemma for each step and
  part that it can disturb.
* `Counting`: `Spec => []CountsEachTick`, the closed formula for any number of
  ticks, from `TimersAssumption`, which asks that a counter counts to 2 at least.
  `CountingInv` is the strengthening: `Exact(u)` says what COUNT, the sticky flag
  and the interrupts are at each place (`Stage(u)`) that a task may be in the
  unit. `elapsed` counts the tick when the task takes it, so that COUNT lags
  behind by one until `Store` and the interrupts until `RaiseIrq`
  (`Underway`); the sticky flag is up only between the wrap and the check. The
  formula goes from n to n + 1 by two lemmas of its own (`ShowsNext`, `DueNext`:
  arithmetic of `%` and a cardinality that grows by one or not at all). The steps
  of others leave the unit still (`StillExact`), since the lock of MODE keeps other
  tasks out and a write of COUNT or COMPARE ends `steady`.

For any channels, sizes of memory and queues, stall settings, programs and inputs
(`ChannelsAssumption`, `SizesAssumption`, `ScenariosAssumption`, which say no more
than of what type they are, and `ConstantsTyped` on the IOP; the theorems about
chains and stalls name one more), in `SifProofs`:

* `EeTypes`: `Spec => []TypeOK` of `EeDmac`, and `IopTypes` of `IopDmac`. These say
  more than types: a queue never holds more than `FifoCap` words, as room for a
  whole qword is looked for before each write; QWC and the length left never go
  below zero, although the program may write the registers between the check of
  CHCR.STR and the transfer; ASP never leaves 0 to 2; and all that for any words,
  whatever a controller takes for a tag. One lemma for each step; those of a
  transfer share what reads and writes of one qword keep (`WordsType`,
  `QwordAppended`).
* `ChainInvariance`: `Spec => []SendsChain`, and `Interrupts`: `Spec =>
  InterruptAfterData`, for chains of any number of tags on any channels at once.
  `ChainsAssumption` says what a chain is: CNT, NEXT, REF or REFS tags, each
  where the one before it says, closed by REFE or END; the program writes TADR,
  starts the channel, and resumes it at most once for each tag that suspends it
  (IRQ with TIE); and whatever sends no chain has no program, so that nobody writes
  over tags or data. CALL and RET are left out, as they do not do what their
  comments say (section 5). `ChainsKnown` is the inductive invariant: for each
  channel there is a number k of tags read such that what has been sent
  (`received \o fifo`) and the QWC qwords to come are together the first k
  packets, TADR is at tag k + 1, MADR is where the rest of tag k's data is, and
  the flags are those of tag k (`Follows`); and the program has not more
  resumptions left than tags still to suspend the chain, k counted until it has
  (`Programmed`), without which a resumption could follow the last tag and send
  what is behind it. `Packets` is a recursive function; that one exists is
  `Recursion`, and `PacketsBegin`, that each is the beginning of the next,
  `UpTo`. The interrupt comes after the data since `InFlight` is false when a
  channel is suspended: the queue is empty, so that what was received is all
  that was sent, and QWC is zero (`SuspendedAfterData`).
* `DrainInvariance`: `Spec => [](StallsNormal(setup) => NoStaleData)`, for any of
  the sources and drains of D_CTRL, both in normal mode, with any addresses,
  lengths and memory; the source moves fresh words from the scratchpad or from its
  peripheral to memory from D_STADR upwards, and the program of the drain is any
  sequence of stops, starts and new addresses from there on. `Filled` is the
  inductive invariant: MADR and SADR of the source are as far as D_STADR
  (`Fills`), all qwords of memory below it and above where it began are fresh
  (`FreshBelow`), and the drain's MADR is not below the beginning (`Drains`); as
  it moves only below D_STADR, what it sends is fresh. That holds also for the
  one step that a drain makes after it was stopped and given a new address.
* `IopChains`: `Iop!Spec => []Iop!SendsChain`, and `IopInterrupts`: `Iop!Spec =>
  Iop!InterruptAfterData`, the formulas of `IopDmac` that `iop_dmac` checks, for source
  chains of any number of tags on channels 4 and 9, one or both, with any writes to
  PCR, GCTRL, ICR0 and ICR1 meanwhile.
  `Iop!ChainsBuilt` says what a chain is: tags one behind the other, of which
  the last and only the last has ERT, with lengths that the 20 bits of the
  controller's mask hold; the program writes TADR, starts the channel with CE and
  upwards, and resumes it at most once for each tag that suspends it (IRQ, when
  IQE has the channel); the other channels have no program. `Iop!ChainsKnown` is the
  inductive invariant, as on the EE: what was sent and the words left to send are
  together the first k packets, TADR is at tag k + 1, MADR where the rest of tag
  k's data is. Here CHCR keeps the whole tag, and a start clears it, so that a tag
  that is there is the k-th; the tag of the time before would end a chain that is
  resumed (`WriteChcr`). That only whole qwords are sent, so that the
  EE finds its next tag at a qword, is in `Packets`: the code's
  `(length + 3) & 0xFFFFC` is `Rounded` for the lengths that fit (`IopChainTags`).
* `SifTypes`: `Wired => (SifSpec => [](TypeOK /\ Iop!TypeOK))`. Each side writes
  queues that the other side's invariant is about; `IopKept` and `EeKept`
  say that what one leaves there has the types of the other. `Wired`, the wiring
  of `RResources.cpp:283-297`, is what `MCSif` assumes of its constants.

For any address space, vectors, targets, TLB entries and programs
(`EeCoreAssumption`), in `EeCoreProofs`:

* `CoreInvariance`: `Spec => []CoreInv`. That a handler returns to where the
  program is owed (`ReturnsToOwed`) is not inductive: it needs to know where a
  pending branch was (`SlotFollowsBranch`), that no branch outlives an exception
  and where the PC is on its way to the vector (`BeforeHandler`), and that ERL is
  never set.
* `HandlerNext`: `Spec => NextIsHandler`: when the core next fetches after any
  exception or interrupt, the PC is the vector and no branch is pending. The
  corrections differ: an exception leaves the PC at the vector less one and
  `Advance` adds one, an interrupt comes before the fetch and leaves it at the
  vector. `BeforeHandler` is that, at each phase in between. An exception in a
  delay slot of an outer handler is not covered, as the code does not stop the
  branch there (section 5).

* `TranslationsInvariance`: `Spec => []TranslationsKnown`. `EntriesFound` holds in
  every state, by `SearchOrder`: it names each index but 47. That the lowest
  place of a match exists is the least-number principle on Nat. The rest is the
  inductive `Mappings`: the cache lemmas (`TouchedKeeps`, `InsertedKeeps`: an
  operation leaves nothing in the cache that was not there or inserted), the
  lemma that a translation depends on nothing but TLB, Status and EntryHi
  (`SameContext`), and for each step that it either leaves these alone, flushes
  both caches, or sets `context_written`.

For any address space, vectors, targets and sizes of the caches, and programs in
which not more than two handlers run at a time (`IopCoreAssumption`; `IopDevices`
asserts it of its constants as `CoreAssumption`), in `IopProofs`:

* `IopCoreInvariance`: `Spec => []IopCoreInv`. That a handler returns to what is
  owed needs three facts besides itself: where a pending branch was
  (`SlotFollowsBranch`), that the pending branch of a return leads to what is
  owed (`Returning`), and that a program owes as many levels of `stack` as
  handlers run. `Exception` pushes a level and `RfeInv` pops it: with two handlers
  the third level is in use, and a third handler would lose it, which is where the
  bound of `nesting` enters. That a store lands needs the cached translations
  (`CachesAgree`), and that no instruction runs outside of the kernel
  (`FailsInUser`, with an empty cache of instructions since the last RFE).

and for any contents and size of a block, limits and number of commands
(`CdvdAssumption`), there too:

* `DriveInvariance`: `SpecDevices => []DriveAnswers`. The strengthening is
  `CdvdInv`. `InTurn` says where the drive may be while the program is at a place:
  the drive works only while the program waits, but for clearing the latch, which
  may fall anywhere before the program's next write. `LocksHeld` follows, and from
  it `FlagsKnown`: whoever has read READY and not yet written it back has what
  READY still is, so neither flag is lost, although they are updated under two
  different locks. `CommandKnown` and `ResultsKnown` tie the reference to the
  device: until the command has run, what is wanted is `Answer(Open, Stored, c)`,
  computed from the access parameters (`Open`) and the NVRAM (`Stored`) as they
  are; afterwards it is, in this order, what the program has got, what is queued
  and what the drive has left to push, and `config` and `written` are `Open` and
  `Stored` again. A closed area is not the same for the drive as for the reference:
  43 opens area 0 for reading no block; `SameAnswers` says that no command can
  tell. That the areas' addresses do not overlap is `AddressOf`.

and for any sizes of a block, of the memory and of the queue, and any modes,
addresses and lengths that the program may choose (`Spu2Assumption`):

* `SoundInvariance`: `SpecDevices => []SoundArrives`. The strengthening is
  `SoundInv`. `ChannelKnown` and `OffsetKnown` account for each halfword: `Taken` is
  what has left the queue, `Held` is one while the SPU2 has a halfword in its hands
  (from `Look` to `WriteOffset`), and `Taken = dma_offset + Held`, so that the
  position cannot be reset or stepped twice under a transfer. `DreqTrue` is how far
  the program may rely on STATX: it asks when the SPU2 has looked in vain, which it
  does with one halfword of the transfer to go only if it has looked between the
  halves of the last word (`between`); so a program that sees the request after the
  channel's interrupt knows that all but the last halfword are in memory, and the
  last too if there was no such look. All this is said until a program has gone on
  with a halfword still on its way (`~early => Orderly`). `InPlace` then needs that
  no two halfwords of a transfer belong to one place and that `Address` is `Place`
  for each (`SoundPlaces`), which is true of a transfer that `Fits`: the code's
  formula and the two buffers of each channel agree on four blocks and no more.
  `WatchKnown` says that an interrupt that is due is that of the halfword stored
  last, and is raised before STATX asks again.

and for any number of ports, lengths of commands and answers and capacity of the
queue (`SioAssumption`, which also has that `Nobody` is none of the controllers):

* `PortsInvariance`: `SpecDevices => []PortsAnswer`. The strengthening is `PortsInv`.
  `Phase` says which transfer the SIO2 can be in while the program is at a place,
  and that the interrupt is there exactly when the program waits and the transfer
  has ended. `Counted`: until then the queue holds `Received` bytes, what the ports
  before this one asked for (`Asked`, a sum over the ports) and what this one has
  had, and never more than its capacity. `Ordered` puts the four queues that a byte
  goes through one behind the other: their bytes increase from the last queue to
  the first (`Way`), and each step moves a head to an end (`MoveHead`) or throws
  away a part of the chain (`ThrownAway`); that the answers are in order is the
  front of it. `ReadyKnown` is why the unlocked update of STAT (`CSio0.cpp:126`)
  does not lose TX_RDY1: whoever has read STAT and not yet written it back has the
  TX_RDY1 that is still there, since only the reset sets it, and in the first
  transfer it is clear until then, so that nothing is sent that the reset could
  discard. Sums over the ports are recursive functions; `Recursion` shows that
  one exists over `0..n` and `AskedSum` that it is one, both with `UpTo`, induction
  in first-order form (there is no least counterexample).

The lemmas of both cores about what a cache keeps are in
`TranslationCacheProofs`, for any size and keys.

Only model-checked:

* The drain that goes through REFS tags while its source goes through CNTS tags
  (the part of `NoStaleData` that `DrainInvariance` leaves out); the IOP's
  burst, slice and destination-chain transfers (`DataBeforeInterrupt` of `MCIopDmac`);
  both DMACs together: `DataInPlace` of `MCSif`. These are about
  the programs and the memory of the MC modules.
* The laws of the instructions: lanes are `\div` and `%` by powers of `2^ByteBits`,
  and arithmetic that is not linear is beyond the solver.
* All liveness (`RunReturns`, `ShutdownCompletes`, `TransfersEnd`, `SifCompletes`,
  `LineFollowsStat`, `RaisesAcknowledged`, `EventsHandled`, `DevicesFinish`, `IrqTaken`
  of both cores), which the prover does not support under fairness.

## 5. Findings

1. **The EE timers' MODE is never written.** `EeTimersUnitRegisters.hpp:71` says
   that a write "caches the timer event source"; `EeTimersUnitRegisters.cpp:69`
   writes the old value back, without two flags, and the source cached from it
   is that of the reset. No EE timer ever counts (run `timers_ee`).
2. **SIO2's channels are exchanged.** `RIopDmac.hpp:40` says that tosio2 is
   channel 11, `RResources.cpp:296` wires 11 to `fifo_fromsio2` (run
   `iop_dmac_sio2`).

Seen while modelling, without a run of their own:

DMA, interrupts and timers

* VIF0 stalls without stall control: `EeDmacConstants.hpp:35` says that a 0 in the
  table means "No stall control", `is_drain_stall_control_on` (`CEeDmac.cpp:455`)
  compares the channel's id with it, and VIF0's id is 0.
* CALL pushes after it has overwritten TADR, and RET writes both fields of ASR to
  TADR.ADDR (`CEeDmac_CHAIN.cpp:86-111`).
* The IOP's master interrupt bit is never cleared: `CIopDmac.cpp:279` announces an
  `else` that is not there.
* SIF1's CHCR on the IOP is written without a lock, and "Reset DMA flags on
  suspended -> start" (`IopDmacChannelRegisters.cpp:31`) comes after the bit that
  starts the channel. A DMAC that looks in between goes on with the flags of the
  transfer before (data where a tag should be), or has its own tag of the new one
  thrown away. The properties of `iop_dmac` and `sif` except these writes (`torn`).
* F240 loses updates: those of the CHCR registers
  (`EeDmacChannelRegisters.cpp:61-133` and the IOP's) take no lock. Its bit 13 is
  cleared by the EE when SIF0's transfer ends there; the IOP may already have
  started the next one and set the bit.
* ERET and RFE flush the interrupt lines against interrupts that are not there
  (`CEeCoreInterpreter_BREAK_TRAP.cpp:226`); an INTC that has read STAT before the
  acknowledgement sets the line after the flush. `MisledTwice` says what the
  flush does achieve. The IOP's core may take an interrupt after its program has
  read CTRL, which clears it, as the INTC may have looked at CTRL before.
* With BS = BA = 0 in slice mode the product of two 65536s wraps and the transfer
  is empty (`IopDmacChannelRegisters.cpp:62`).
* The length of a chain packet *to* the IOP is taken as it is in the tag and not
  rounded (a TODO in `CIopDmac.cpp` at the destination tag), although a sender
  fills up to a qword; in the models the EE sends whole qwords of that length.
* A timer with RESET_MODE and COMPARE = 0 never reaches its target; one that wraps
  goes from its maximum plus one to 1 (`IopTimersUnitRegisters.cpp:52`).

Devices

* The SIO0 sets TX_RDY2 without STAT's lock (`CSio0.cpp:126`), so that RX_NONEMPTY
  may be written back as it was; the SIO2 then waits for the next answer or pops an
  empty queue, which throws. A CTRL of the SIO2 written twice before it is seen
  loses the first value (`Sio2Registers.cpp:37`). `PortsAnswer` therefore speaks
  of what the interrupt announces, `DevicesFinish` of the first transfer.
* ATTR is to be "scope locked by the SPU2 controller" (`Spu2CoreRegisters.hpp:78`);
  `CSpu2` takes no lock. Its update of ADMAS can undo the program's
  (`Spu2CoreRegisters.cpp:29`). The positions of an automatic transfer wrap after
  four blocks where a channel has two buffers (`CSpu2.cpp:155`), so that a fifth
  block of a transfer lands in the other channel's.
* STATX may ask for data while the last halfword is on its way: the channel writes
  a word byte by byte (`CIopDmac.cpp:322`, `FifoQueue.hpp:33-37`), and an SPU2 that
  looks between the two halves of the last word sets DREQ (`CSpu2.cpp:189`). When
  the program then sees the channel's interrupt and this DREQ, the halfword may be
  neither in memory nor its interrupt raised; a program that goes on writes ATTR,
  and with it the position, under the SPU2's update.

The EE core

* A write to Compare stores nothing and clears line 8 of an array of eight
  (`EeCoreCop0Registers.cpp:106-109`), not 7.
* TLB entry 47 is never found (`EeCoreTlb.cpp:35`; the comment says 38 to 47); the
  first entry with the right page but another ASID ends the search.
* MTC0 and TLBR change what a translation depends on and leave the caches as they
  are, which is why `TranslationsKnown` has an exception for `context_written`; a
  page that was cached by a load lets a store past the check of D.
* A fetch that misses the TLB throws in `.value()`; an exception in a delay slot
  while EXL is set does not stop the branch; one of level 1 clears ERL.
* ADDU, ADDIU and SUBU add host `int`s; MULT1, DIV1 and MADD1 write LO and HI;
  MADD ORs a sign-extended word over the upper half and MADDU multiplies in 32
  bits; PMADDH and PMSUBH take word 3 of Rd from another lane; PCGT, PMAX and PMIN
  compare unsigned lanes; PABSW tests lane 0; PEXT5 loses its last field; MTHI and
  MTLO read Rd.
* The status flags of an FMAC are those of its last field only; DIV and RSQRT never
  clear I and D; IADD, ISUB, IAND and IOR write the register that the fs field
  names; MOVE, MFIR and MR32 exchange the arguments of a write; vf0 is not
  constant; CVT.W.S clamps a negative below a half; MTC1 and QMTC2 let in floats
  that the arithmetic never makes.

The IOP core

* SUB tests the sum of its operands for an overflow
  (`CIopCoreInterpreter_ALU.cpp:77-95`), as the EE's does; MTLO and MTHI read Rd.
* A SWL or SWR with the cache isolated reads the word before through the
  translation cache and then stores nowhere; both kinds of access to one address
  do not agree on whether it exists, which is harmless.

## 6. What the models leave out

* FIFO queues are read and written a byte at a time in the code
  (`FifoQueue.hpp`). In `EeDmac` and `IopDmac` a step moves a qword or a word, what
  a controller moves at a time. Each queue has one producer and one consumer, and
  both check for enough room or data first, so an end that has looked is not stopped
  halfway, and one that looks while the other is at it finds too little for its own
  unit, as if it had looked before. Only the IOP, which takes words of the EE's
  qwords, may take some before the last is there; the EE looks at the queue again
  after the whole qword. In `Spu2` the unit is a halfword, because there the
  consumer announces what it has seen in between (DREQ).
* `EeDmac` and `IopDmac` leave F240 out: they write it, and nothing they do depends
  on it. `Sbus` has these writes, taken apart. There, F240's toggle, which tests
  and then changes bits, is one read and one write.
* Reading and writing a CHCR is one step, but for SIF1's bus write on the IOP, which
  takes no lock. Its own parts are steps; that the DMAC writes a field of the same
  word back while the bus write goes on (a lost START) is not taken apart further.
* Programs set a channel up only while it is stopped, start or resume it only
  then, and write the IQE bits back as they find them. They may stop a channel at
  any moment.
* In `Intc` a handler runs to its end: it does not set IE anew or clear EXL. Only
  line 2 of Cause is there, with its bit of IM set; `EeDmac` has the DMAC's line 3
  and leaves out that ERET clears it. `read_uword` of Cause reads the lines one by
  one, which makes no difference to line 2.
* PCR, SQWC, RBOR and RBSR of the EE DMAC are stored and never read by the
  controller.
* SIF2 is in `EeDmac` and `IopDmac`. The composition leaves it out: its PIO end
  goes through SBUS_F300, which throws. Likewise not modelled: the halfword
  writes of F240, which mirror the word ones.
* The worker flags `exit` and `local_exit` are not atomic in the code
  (`TaskExecutor.hpp:97`). `LoopTest` reads them in every turn, which is what the
  compiled loop does, as its body contains calls and locks that it cannot see
  through; the mutant `LoopTestHoisted` is the other possibility and does not
  terminate.
* Logging, options, host input and output, the time-to-ticks conversion.
* In `Timers` the checks for overflow, target and interrupt are one step, `Check`,
  under the lock of MODE. COUNT and COMPARE have no lock: a write of theirs that
  falls between two of these checks is taken as made before or after all of them.
* `EeCore` chooses instructions from `program.kinds` and physical frames, not
  addresses: what is at an address and what a load returns does not matter to it.
* Floats are few codes on an even scale. Rounding to the last bit, and the spacing
  of exponents, are not there.

Not modelled:

* VIF: the handlers of its codes are empty or store one immediate value; nothing is
  unpacked, no code is continued. GIF, IPU and GS core: `time_step` is empty.
* What only a VU microprogram uses (branches, flag tests, EFU, LQ, SQ, ILW, ISW,
  XGKICK): no time step runs one. CFC1, CTC1, LWC1, SWC1, LQC2, SQC2 and BC1x, BC2x.
* The links of the IOP core's JAL, JALR, BGEZAL and BLTZAL; the registers of COP0
  but Status and EPC; kseg1 and the addresses above it, which are translated like
  kseg0; the instructions of the GTE and the TLB, which only throw.
* The decoding tables and the bus maps: tables without behaviour.
* The SPU2's second core, which runs the same steps on registers of its own, and
  its reads, which throw; the drive's N commands, which all throw, and its clock's
  counting; the SIO0's own interrupt; the CRTC's row and column.

## 7. Plan

What is left, in this order:

1. **SifChannel**, an abstract specification of one direction of the SIF (packets
   of qwords, delivered in order and once, then done), and `Sif` shown to
   implement it.
2. **More proofs**: what the IOP's other modes move; both ends of the SIF at once;
   stall control with a chain at either end.
3. **Lanes**: lemmas that what is written in one width is read in another, so that
   the laws of `EeIsa` hold for every `ByteBits`.
4. The VU's microprograms, when a time step runs them.
