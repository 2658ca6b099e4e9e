------------------------------- MODULE IopCore -------------------------------
(***************************************************************************)
(* The control of the IOP core (liborbum/src/Controller/Iop/Core/          *)
(* CIopCore.cpp and Interpreter/CIopCoreInterpreter.cpp; Resources/Iop/    *)
(* Core).  A time step looks for an interrupt, fetches the instruction at  *)
(* the PC, runs it and advances the PC.  COP0.Status keeps three levels of *)
(* interrupt enable and mode: an exception pushes one, RFE pops it.  The   *)
(* return itself is a JR, to the EPC that the handler has saved, with RFE  *)
(* in its delay slot.  What the instructions compute is IopIsa's subject.  *)
(*                                                                         *)
(* The pages below UserPages are the undocumented low addresses, the ones  *)
(* above them kseg0, and programs use these.                               *)
(***************************************************************************)
EXTENDS BranchDelay, TranslationCache

CONSTANTS
  PageLen, UserPages,
  Targets,        \* of branches
  Vectors,        \* the address of the exception vector while Status.BEV is set, or not
  Programs        \* sets of kinds of instructions, with how many handlers may run in each other

IopCoreAssumption ==
  /\ {Addresses, PageLen, Size} \subseteq Nat \ {0} /\ UserPages \in Nat
  /\ Addresses % PageLen = 0
  /\ Targets \subseteq 0..Addresses - 1
  /\ Vectors \in [BOOLEAN -> 0..Addresses - 1]
  /\ \A p \in Programs : p.nesting \in 0..2       \* Status has three levels

VARIABLES
  program,        \* the instructions of this behaviour
  phase,          \* "check", "fetch", "run", "advance" of time_step, "failed" when it threw
  pc, bdelay,
  stack,          \* Status.(IE|KU)(c|p|o)
  isc, bev,       \* Status.ISC and Status.BEV
  epc,
  data_cache, inst_cache,
  lines,          \* the Cause's interrupt lines that Status.IM lets through
  source,         \* the INTC has an interrupt pending
  saved,          \* the program's own: the EPCs that the running handlers have saved
  returning,      \* the next instruction is the RFE of a return
  branch,         \* history: where the pending branch is
  owed,           \* history: what each interrupted program is to go on with
  stored,         \* history: the store of this time step
  raised          \* history: an exception of this time step's instruction

status == <<stack, isc, bev>>
caches == <<data_cache, inst_cache>>
control == <<pc, bdelay>>
interrupts == <<lines, source>>
history == <<branch, owed, stored, raised>>
vars == <<program, phase, control, status, epc, caches, interrupts, saved, returning, history>>

Pages == 0..(Addresses \div PageLen) - 1
Page(address) == address \div PageLen
Level(enabled, user) == [ie |-> enabled, ku |-> user]
Levels == [ie : BOOLEAN, ku : BOOLEAN]
NoStore == [page |-> -1, isolated |-> FALSE, frame |-> -1]

\* The BIOS, at the boot vectors.
Init ==
  /\ program \in Programs /\ phase = "check"
  /\ pc = Vectors[TRUE] /\ bdelay = NoBranch /\ epc = 0
  /\ stack = [n \in 1..3 |-> Level(FALSE, FALSE)] /\ isc = FALSE /\ bev = TRUE
  /\ data_cache = Flushed /\ inst_cache = Flushed
  /\ lines = {} /\ source = FALSE
  /\ saved = <<>> /\ returning = FALSE
  /\ branch = 0 /\ owed = <<>> /\ stored = NoStore /\ raised = FALSE
-----------------------------------------------------------------------------
InterruptsMasked == ~stack[1].ie
InKernel == ~stack[1].ku

PushExceptionStack == stack' = <<Level(FALSE, FALSE), stack[1], stack[2]>>
PopExceptionStack == stack' = <<stack[2], stack[3], stack[3]>>

(* translate_address_fallback: there is no TLB.  A write to the low        *)
(* addresses with the cache isolated has no address; outside of the kernel *)
(* it throws.                                                              *)
Nothing == -1
Throws == -2
Direct(page) == IF page < UserPages THEN page ELSE page - UserPages
Fallback(page, access) ==
  IF ~InKernel THEN Throws
  ELSE IF page < UserPages /\ isc /\ access = "WRITE" THEN Nothing
  ELSE Direct(page)

Lookup(cache, page, access) ==
  IF Hit(cache, page) THEN Cached(cache, page) ELSE Fallback(page, access)
After(cache, page, access) ==
  IF Hit(cache, page) THEN Touched(cache, page)
  ELSE IF Fallback(page, access) < 0 THEN cache
  ELSE Inserted(cache, page, Fallback(page, access))

\* Mutant: the writes with the cache isolated look into the translation cache as well.
BypassesNever(access) == FALSE
Bypasses(access) == isc /\ access = "WRITE"
\* translate_address_data
DataFrame(cache, page, access) ==
  IF Bypasses(access) THEN Fallback(page, access) ELSE Lookup(cache, page, access)
DataAfter(cache, page, access) ==
  IF Bypasses(access) THEN cache ELSE After(cache, page, access)
-----------------------------------------------------------------------------
\* Mutant: EPC is the delay slot's address.
HandleExceptionSlot(exception) ==
  /\ epc' = pc
  /\ bdelay' = IF IsBranchPending(bdelay) THEN StopBranch ELSE bdelay
  /\ pc' = IF exception = "interrupt" THEN Vectors[bev] ELSE Wrap(Vectors[bev] - 1)
  /\ PushExceptionStack /\ UNCHANGED <<isc, bev>>
  /\ data_cache' = Flushed /\ inst_cache' = Flushed
  /\ owed' = Append(owed, [pc |-> IF IsBranchPending(bdelay) THEN branch ELSE pc, ie |-> stack[1].ie])
  /\ raised' = (exception # "interrupt")

(* handle_exception: nothing raises those of the TLB or a reset, so the    *)
(* vector is the common one.                                               *)
HandleException(exception) ==
  /\ epc' = IF IsBranchPending(bdelay) THEN Wrap(pc - 1) ELSE pc
  /\ bdelay' = IF IsBranchPending(bdelay) THEN StopBranch ELSE bdelay
  /\ pc' = IF exception = "interrupt" THEN Vectors[bev] ELSE Wrap(Vectors[bev] - 1)
  /\ PushExceptionStack /\ UNCHANGED <<isc, bev>>
  /\ data_cache' = Flushed /\ inst_cache' = Flushed
  /\ owed' = Append(owed, [pc |-> IF IsBranchPending(bdelay) THEN branch ELSE pc, ie |-> stack[1].ie])
  /\ raised' = (exception # "interrupt")

\* Mutant: no interrupt is taken at the boot vectors.
InterruptCheckBooted ==
  /\ phase = "check" /\ phase' = "fetch"
  /\ IF ~InterruptsMasked /\ ~bev /\ lines # {}
     THEN HandleException("interrupt") /\ UNCHANGED <<branch, stored>>
     ELSE UNCHANGED <<control, status, epc, caches, history>>
  /\ UNCHANGED <<program, interrupts, saved, returning>>

\* handle_interrupt_check
InterruptCheck ==
  /\ phase = "check" /\ phase' = "fetch"
  /\ IF ~InterruptsMasked /\ lines # {}
     THEN HandleException("interrupt") /\ UNCHANGED <<branch, stored>>
     ELSE UNCHANGED <<control, status, epc, caches, history>>
  /\ UNCHANGED <<program, interrupts, saved, returning>>

Fetch ==
  /\ phase = "fetch"
  /\ IF Lookup(inst_cache, Page(pc), "READ") = Throws
     THEN phase' = "failed" /\ UNCHANGED inst_cache
     ELSE phase' = "run" /\ inst_cache' = After(inst_cache, Page(pc), "READ")
  /\ UNCHANGED <<program, control, status, epc, data_cache, interrupts, saved, returning, history>>

(* The instructions, as programs use them.  A handler saves EPC before it  *)
(* may be interrupted, and masks interrupts before it returns.             *)
Runs(kind) == phase = "run" /\ kind \in program.kinds /\ phase' = "advance" /\ ~returning
EpcSaved == Len(saved) = Len(owed)
Continues == UNCHANGED <<program, interrupts>>

Plain == Runs("plain") /\ Continues /\ UNCHANGED <<control, status, epc, caches, saved, returning, history>>

\* A branch or a jump that is taken; it is not put into a delay slot.
TakeBranch ==
  /\ Runs("branch") /\ ~IsBranchPending(bdelay)
  /\ \E target \in Targets : bdelay' = SetBranch(target)
  /\ branch' = pc
  /\ Continues /\ UNCHANGED <<pc, status, epc, caches, saved, returning, owed, stored, raised>>

\* SYSCALL, BREAK or an overflow
Trap ==
  /\ Runs("trap") /\ EpcSaved /\ Len(owed) < program.nesting
  /\ HandleException("trap")
  /\ Continues /\ UNCHANGED <<saved, returning, branch, stored>>

\* MFC0, of EPC
SaveEpc ==
  /\ Runs("status") /\ ~EpcSaved /\ saved' = Append(saved, epc)
  /\ Continues /\ UNCHANGED <<control, status, epc, caches, returning, history>>

\* MTC0, of Status; in kernel mode COP0 is usable.
WriteStatus ==
  /\ Runs("status") /\ EpcSaved
  /\ \E enabled, isolated, boot, user \in BOOLEAN :
       /\ enabled => Len(owed) < program.nesting
       /\ isolated => "memory" \in program.kinds
       /\ boot => bev
       /\ user => "user" \in program.kinds /\ owed # <<>>
       /\ stack' = [stack EXCEPT ![1].ie = enabled, ![2].ku = user]
       /\ isc' = isolated /\ bev' = boot
  /\ Continues /\ UNCHANGED <<control, epc, caches, saved, returning, history>>

\* The JR of a return, and the RFE in its slot.
JumpBack ==
  /\ Runs("status") /\ EpcSaved /\ owed # <<>> /\ InterruptsMasked /\ ~IsBranchPending(bdelay)
  /\ bdelay' = SetBranch(saved[Len(saved)]) /\ branch' = pc /\ returning' = TRUE
  /\ Continues /\ UNCHANGED <<pc, status, epc, caches, saved, owed, stored, raised>>
Rfe ==
  /\ phase = "run" /\ returning /\ phase' = "advance"
  /\ PopExceptionStack /\ lines' = {}
  /\ data_cache' = Flushed /\ inst_cache' = Flushed
  /\ returning' = FALSE
  /\ saved' = SubSeq(saved, 1, Len(saved) - 1) /\ owed' = SubSeq(owed, 1, Len(owed) - 1)
  /\ UNCHANGED <<program, control, isc, bev, epc, source, branch, stored, raised>>

\* LB to LWR
Load ==
  /\ Runs("memory")
  /\ \E page \in Pages : data_cache' = DataAfter(data_cache, page, "READ")
  /\ Continues /\ UNCHANGED <<control, status, epc, inst_cache, saved, returning, history>>
\* SB, SH and SW; SWL and SWR read the word before (part).
Store ==
  /\ Runs("memory")
  /\ \E page \in Pages, part \in BOOLEAN :
       LET before == IF part THEN DataAfter(data_cache, page, "READ") ELSE data_cache
       IN  /\ data_cache' = DataAfter(before, page, "WRITE")
           /\ stored' = [page |-> page, isolated |-> isc, frame |-> DataFrame(before, page, "WRITE")]
  /\ Continues /\ UNCHANGED <<control, status, epc, inst_cache, saved, returning, branch, owed, raised>>

Run == Plain \/ TakeBranch \/ Trap \/ SaveEpc \/ WriteStatus \/ JumpBack \/ Rfe \/ Load \/ Store

\* advance_pc, with which the time step ends
Advance ==
  /\ phase = "advance" /\ phase' = "check"
  /\ pc' = AdvancedPc(bdelay, pc) /\ bdelay' = AdvanceSlot(bdelay)
  /\ stored' = NoStore /\ raised' = FALSE
  /\ branch' = IF IsBranchPending(AdvanceSlot(bdelay)) THEN branch ELSE 0
  /\ UNCHANGED <<program, status, epc, caches, interrupts, saved, returning, owed>>

Step == InterruptCheck \/ Fetch \/ Run \/ Advance

(* The INTC raises the line again and again until a handler acknowledges.  *)
Irq ==
  /\ "interrupt" \in program.kinds
  /\ \/ ~source /\ source' = TRUE /\ UNCHANGED lines
     \/ source /\ lines' = {"irq"} /\ UNCHANGED source
     \/ owed # <<>> /\ source /\ source' = FALSE /\ lines' = {}
  /\ UNCHANGED <<program, phase, control, status, epc, caches, saved, returning, history>>
Raise == source /\ lines = {} /\ Irq /\ lines' = {"irq"}

Next == Step \/ Irq
Spec == Init /\ [][Next]_vars /\ WF_vars(Step) /\ WF_vars(Raise)
-----------------------------------------------------------------------------
TypeOK ==
  /\ program \in Programs /\ phase \in {"check", "fetch", "run", "advance", "failed"}
  /\ {pc, epc, branch} \subseteq 0..Addresses - 1
  /\ bdelay \in [current_slot : 0..2, branch_pc : 0..Addresses - 1]
  /\ stack \in [1..3 -> Levels] /\ {isc, bev, source, returning, raised} \subseteq BOOLEAN
  /\ lines \subseteq {"irq"}
  /\ saved \in Seq(0..Addresses - 1) /\ owed \in Seq([pc : 0..Addresses - 1, ie : BOOLEAN])
  /\ CacheTyped(data_cache, Pages) /\ CacheTyped(inst_cache, Pages)

(* Where a handler returns to, with what is left of the stack in Status:   *)
(* each handler that runs has saved, or finds in EPC, the instruction that *)
(* did not run to its end, or the branch whose slot that is, and the level *)
(* that its RFE will pop enables interrupts as they were                   *)
(* (CIopCore.cpp:294-330, IopCoreCop0Registers.cpp:12-24,                  *)
(* CIopCoreInterpreter_OTHERS.cpp:84-105).                                 *)
ReturnsToOwed ==
  /\ Len(owed) <= program.nesting
  /\ Len(saved) \in {Len(owed), Len(owed) - 1}
  /\ \A n \in 1..Len(saved) : saved[n] = owed[n].pc
  /\ ~EpcSaved => epc = owed[Len(owed)].pc /\ InterruptsMasked
  /\ \A n \in 1..Len(owed) : stack[Len(owed) - n + 2].ie = owed[n].ie
  /\ Len(owed) = program.nesting => InterruptsMasked
Returning ==
  returning => /\ owed # <<>> /\ EpcSaved /\ InterruptsMasked /\ IsBranchPending(bdelay)
               /\ bdelay.branch_pc = owed[Len(owed)].pc
               /\ phase = "advance" => bdelay.current_slot = 2

(* A delay slot comes right after its branch, and after an exception of    *)
(* the instruction itself the PC is before the vector.                     *)
SlotFollowsBranch ==
  /\ bdelay.current_slot = 2 => phase = "advance" /\ pc = branch
  /\ bdelay.current_slot = 1 => Wrap(pc - 1) = branch
BeforeHandler ==
  raised => phase = "advance" /\ ~IsBranchPending(bdelay) /\ pc = Wrap(Vectors[bev] - 1)

(* A store reaches the memory behind its address, and none does to the low *)
(* addresses while the cache is isolated, whatever translations the loads  *)
(* have left in the cache (CIopCore.cpp:365-370, 435-448).                 *)
StoresLand ==
  stored # NoStore =>
    stored.frame = IF stored.isolated /\ stored.page < UserPages THEN Nothing ELSE Direct(stored.page)
Agrees(cache) == \A i \in 1..Len(cache.entries) : cache.entries[i].value = Direct(cache.entries[i].key)
CachesAgree == Agrees(data_cache) /\ Agrees(inst_cache)

\* Only a program that leaves the kernel makes the core throw.
FailsInUser ==
  /\ phase = "failed" => ~InKernel
  /\ ~InKernel => phase # "run" /\ inst_cache = Flushed
  /\ \A n \in 1..3 : stack[n].ku => "user" \in program.kinds

IopCoreInv == /\ TypeOK /\ ReturnsToOwed /\ Returning /\ SlotFollowsBranch /\ BeforeHandler
              /\ StoresLand /\ CachesAgree /\ FailsInUser

(* An interrupt is taken while it is not masked (CIopCore.cpp:87-109).     *)
IrqTaken == source /\ ~InterruptsMasked ~> ~source \/ InterruptsMasked \/ phase = "failed"
=============================================================================
