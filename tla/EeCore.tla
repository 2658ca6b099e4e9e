------------------------------- MODULE EeCore --------------------------------
(***************************************************************************)
(* The control of the EE core (liborbum/src/Controller/Ee/Core/CEeCore.cpp *)
(* and Interpreter/CEeCoreInterpreter.cpp; Resources/Ee/Core): a time step *)
(* looks for an interrupt, fetches the instruction at the PC, runs it,     *)
(* advances the PC through the branch delay slot and updates COP0.Count.   *)
(* Its phases are actions of their own, since the other controllers raise  *)
(* the interrupt lines at any time.  An instruction counts for what it     *)
(* does to the control: branch, likely branch, trap (SYSCALL, BREAK,       *)
(* overflow, unusable coprocessor), ERET, EI, DI, MTC0, the TLB's, loads   *)
(* and stores.  What it computes is the subject of the EeIsa modules.      *)
(*                                                                         *)
(* A page is 4KB and holds PageLen addresses.  Pages below UserPages are   *)
(* kuseg, the ones above kseg0, which has the exception vectors.           *)
(***************************************************************************)
EXTENDS BranchDelay, TranslationCache

CONSTANTS
  PageLen, UserPages,
  Targets,        \* of branches
  Vectors,        \* address of each kind of vector: "refill", "interrupt", "common"
  LoPairs,        \* what a program may write to PageMask, EntryLo0 and EntryLo1 before TLBWI
  Vpn2s, Asids,   \* ... and to EntryHi
  Indices,        \* ... and to Index
  Modes,          \* ... and to Status.KSU
  MaxWrites,      \* bound: writes of the TLB
  FirstLo,        \* what the BIOS has mapped
  Programs        \* sets of kinds of instructions, with the ticks of an event: a behaviour uses one

Pages == 0..(Addresses \div PageLen) - 1
Page(address) == address \div PageLen
Entries == 0..47

LoEntries == [size : Nat \ {0}, s : BOOLEAN, g : BOOLEAN,
              info : [{0, 1} -> [pfn : Nat, v : BOOLEAN, d : BOOLEAN]]]
TlbEntries == [size : Nat \ {0}, s : BOOLEAN, g : BOOLEAN,
               info : [{0, 1} -> [pfn : Nat, v : BOOLEAN, d : BOOLEAN]], vpn2 : Nat, asid : Nat]

ASSUME EeCoreAssumption ==
  /\ {Addresses, PageLen, Size} \subseteq Nat \ {0} /\ UserPages \in Nat
  /\ Addresses % PageLen = 0
  /\ Targets \subseteq 0..Addresses - 1
  /\ Vectors \in [{"refill", "interrupt", "common"} -> {a \in 0..Addresses - 1 : Page(a) >= UserPages}]
  /\ Indices \subseteq Entries /\ Vpn2s \subseteq Nat /\ Asids \subseteq Nat
  /\ LoPairs \subseteq LoEntries /\ FirstLo \in LoEntries
  /\ \A p \in Programs : p.time_to_ticks \in Nat \ {0}

VARIABLES
  program,        \* the instructions of this behaviour
  phase,          \* "check", "fetch", "run", "advance" of time_step, "failed" when it threw
  ticks,          \* ticks_remaining of handle_event
  pc, bdelay,
  status, epc, entryhi, random,     \* COP0
  tlb,            \* the entries that have been written; no other one matches
  data_cache, inst_cache,
  lines,          \* the Cause's interrupt lines that Status.IM lets through: "irq" and "count"
  source,         \* the INTC has an interrupt pending
  writes,         \* writes of the TLB so far
  branch,         \* history: where the pending branch is
  owed,           \* history: where the interrupted program is to go on
  context_written, \* history: MTC0 wrote Status or EntryHi since the last flush
  handler         \* history: the vector of the exception since the last fetch, "none", or "slot"
                  \* for one in a delay slot of an outer handler, which does not stop the branch

cop0 == <<status, epc, entryhi, random>>
caches == <<data_cache, inst_cache>>
control == <<pc, bdelay>>
history == <<branch, owed, context_written, handler>>
maps == <<tlb, writes>>
vars == <<program, phase, ticks, control, cop0, maps, caches, lines, source, history>>

\* What TLBWI writes, of EntryHi, EntryLo0, EntryLo1 and PageMask.
Entry(lo, hi) == [size |-> lo.size, s |-> lo.s, g |-> lo.g, info |-> lo.info,
                  vpn2 |-> hi.vpn2, asid |-> hi.asid]

(* The BIOS has cleared the TLB, mapped its program and left the reset     *)
(* state with ERL = BEV = 0.                                               *)
Init ==
  /\ program \in Programs
  /\ phase = "check" /\ ticks = program.time_to_ticks /\ pc = 0 /\ bdelay = NoBranch
  /\ status = [ERL |-> FALSE, EXL |-> FALSE, IE |-> TRUE, EIE |-> TRUE, KSU |-> "Kernel"]
  /\ epc = 0 /\ entryhi = [vpn2 |-> 0, asid |-> 0] /\ random = 47
  /\ tlb = [index \in {38} |-> Entry(FirstLo, [vpn2 |-> 0, asid |-> 0])]
  /\ data_cache = Flushed /\ inst_cache = Flushed
  /\ lines = {} /\ source = FALSE /\ writes = 0
  /\ branch = 0 /\ owed = 0 /\ context_written = FALSE /\ handler = "none"
-----------------------------------------------------------------------------
(* COP0.Status caches what follows from its fields at each write.          *)
InterruptsMasked == status.ERL \/ status.EXL \/ ~status.IE \/ ~status.EIE
OperatingContext == IF status.ERL \/ status.EXL THEN "Kernel" ELSE status.KSU

(* The TLB.  An entry maps a pair of pages of its size, or the 16KB of the *)
(* scratchpad.  The search takes the first match in an order of its own    *)
(* and does not look at the ASID.                                          *)
IsMatch(page, entry) ==
  \/ entry.s /\ page \div 4 = entry.vpn2 \div 2
  \/ (page \div (2 * entry.size)) * entry.size = entry.vpn2

SearchOrder == <<0>> \o [i \in 1..18 |-> 12 + i] \o [i \in 1..12 |-> i]
               \o [i \in 1..7 |-> 30 + i] \o [i \in 1..9 |-> 37 + i]

FindTlbEntryIndex(page) ==
  LET found == {i \in 1..Len(SearchOrder) :
                  SearchOrder[i] \in DOMAIN tlb /\ IsMatch(page, tlb[SearchOrder[i]])}
  IN  IF found = {} THEN -1 ELSE SearchOrder[First(found)]

ScratchpadFrame == 1000
Refill(access) == IF access = "READ" THEN "refill_load" ELSE "refill_store"
AddressError(access) == IF access = "READ" THEN "address_load" ELSE "address_store"
Frame(n) == [frame |-> n, exception |-> "none"]
Raises(exception) == [frame |-> -1, exception |-> exception]

\* The third and fourth stages, on the entry that was found.
ThroughEntry(page, access, entry) ==
  LET info == entry.info[(page \div entry.size) % 2]
  IN  IF (~entry.g /\ entry.asid # entryhi.asid) \/ ~info.v THEN Raises(Refill(access))
      ELSE IF ~info.d /\ access = "WRITE" THEN Raises("modified")
      ELSE IF entry.s THEN Frame(ScratchpadFrame + (page % 4))
      ELSE Frame(info.pfn + (page % entry.size))

\* translate_address_fallback; the bounds of the supervisor's segments let all of kseg0 through.
Fallback(page, access) ==
  LET index == FindTlbEntryIndex(page)
  IN  IF OperatingContext = "User" /\ page >= UserPages THEN Raises(AddressError(access))
      ELSE IF OperatingContext = "Kernel" /\ page >= UserPages THEN Frame(page - UserPages)
      ELSE IF OperatingContext = "Kernel" /\ status.ERL THEN Frame(page)
      ELSE IF index = -1 THEN Raises(Refill(access))
      ELSE ThroughEntry(page, access, tlb[index])

\* TranslationCache::lookup, and the cache after it.
Lookup(cache, page, access) ==
  IF Hit(cache, page) THEN Frame(Cached(cache, page)) ELSE Fallback(page, access)
After(cache, page, access) ==
  IF Hit(cache, page) THEN Touched(cache, page)
  ELSE IF Fallback(page, access).frame = -1 THEN cache
  ELSE Inserted(cache, page, Fallback(page, access).frame)
-----------------------------------------------------------------------------
(* handle_exception, of level 1: nothing raises one of level 2.            *)
VectorOf(exception) ==
  IF status.EXL THEN "common"
  ELSE IF exception \in {"refill_load", "refill_store"} THEN "refill"
  ELSE IF exception = "interrupt" THEN "interrupt" ELSE "common"
Vector(exception) == Vectors[VectorOf(exception)]

\* Mutant: EPC is the delay slot's address.
HandleExceptionSlot(exception) ==
  /\ status' = [status EXCEPT !.ERL = FALSE, !.EXL = TRUE]
  /\ IF status.EXL THEN UNCHANGED <<epc, bdelay, owed>>
     ELSE /\ epc' = pc
          /\ bdelay' = StopBranch
          /\ owed' = IF IsBranchPending(bdelay) THEN branch ELSE pc
  /\ pc' = IF exception = "interrupt" THEN Vector(exception) ELSE Wrap(Vector(exception) - 1)
  /\ data_cache' = Flushed /\ inst_cache' = Flushed /\ context_written' = FALSE
  /\ handler' = IF status.EXL /\ IsBranchPending(bdelay) THEN "slot" ELSE VectorOf(exception)

\* Mutant: the PC is set back for an interrupt too, which no instruction has raised.
HandleExceptionBack(exception) ==
  /\ status' = [status EXCEPT !.ERL = FALSE, !.EXL = TRUE]
  /\ IF status.EXL THEN UNCHANGED <<epc, bdelay, owed>>
     ELSE /\ epc' = IF IsBranchPending(bdelay) THEN Wrap(pc - 1) ELSE pc
          /\ bdelay' = StopBranch
          /\ owed' = IF IsBranchPending(bdelay) THEN branch ELSE pc
  /\ pc' = Wrap(Vector(exception) - 1)
  /\ data_cache' = Flushed /\ inst_cache' = Flushed /\ context_written' = FALSE
  /\ handler' = IF status.EXL /\ IsBranchPending(bdelay) THEN "slot" ELSE VectorOf(exception)

HandleException(exception) ==
  /\ status' = [status EXCEPT !.ERL = FALSE, !.EXL = TRUE]
  /\ IF status.EXL THEN UNCHANGED <<epc, bdelay, owed>>
     ELSE /\ epc' = IF IsBranchPending(bdelay) THEN Wrap(pc - 1) ELSE pc
          /\ bdelay' = StopBranch
          /\ owed' = IF IsBranchPending(bdelay) THEN branch ELSE pc
  /\ pc' = IF exception = "interrupt" THEN Vector(exception) ELSE Wrap(Vector(exception) - 1)
  /\ data_cache' = Flushed /\ inst_cache' = Flushed /\ context_written' = FALSE
  /\ handler' = IF status.EXL /\ IsBranchPending(bdelay) THEN "slot" ELSE VectorOf(exception)

\* handle_mmu_error, whose index is always -1
HandleMmuError(page, exception) ==
  /\ entryhi' = [entryhi EXCEPT !.vpn2 = page \div 2] /\ random' = 47
  /\ HandleException(exception)
-----------------------------------------------------------------------------
Due == ticks % 16 = 0

\* handle_interrupt_check
InterruptCheck ==
  /\ phase = "check" /\ phase' = "fetch"
  /\ IF Due /\ ~InterruptsMasked /\ lines # {}
     THEN HandleException("interrupt") /\ UNCHANGED branch
     ELSE UNCHANGED <<control, status, epc, caches, history>>
  /\ UNCHANGED <<program, ticks, entryhi, random, maps, lines, source>>

\* translate_address_inst(pc).value() throws when the MMU has raised an exception.
Fetch ==
  /\ phase = "fetch"
  /\ LET fetched == Lookup(inst_cache, Page(pc), "READ")
     IN  IF fetched.frame = -1
         THEN /\ HandleMmuError(Page(pc), fetched.exception) /\ phase' = "failed"
              /\ UNCHANGED branch
         ELSE /\ inst_cache' = After(inst_cache, Page(pc), "READ") /\ phase' = "run"
              /\ handler' = "none"
              /\ UNCHANGED <<control, cop0, data_cache, branch, owed, context_written>>
  /\ UNCHANGED <<program, ticks, maps, lines, source>>

(* The instructions.                                                       *)
Runs(kind) == phase = "run" /\ kind \in program.kinds /\ phase' = "advance"
InHandler == status.EXL \/ status.ERL

Plain ==
  /\ Runs("plain") /\ UNCHANGED <<program, ticks, control, cop0, maps, caches, lines, source, history>>

\* A branch is not put into a delay slot.
TakeBranch ==
  /\ Runs("branch") /\ ~IsBranchPending(bdelay)
  /\ \E target \in Targets : bdelay' = SetBranch(target)
  /\ branch' = pc
  /\ UNCHANGED <<program, ticks, pc, cop0, maps, caches, lines, source,
                 owed, context_written, handler>>

\* A likely branch that is not taken goes past its slot at once.
SkipSlot ==
  /\ Runs("branch") /\ ~IsBranchPending(bdelay)
  /\ pc' = AdvancedPc(bdelay, pc) /\ bdelay' = AdvanceSlot(bdelay)
  /\ UNCHANGED <<program, ticks, cop0, maps, caches, lines, source, history>>

Trap ==
  /\ Runs("trap") /\ HandleException("trap")
  /\ UNCHANGED <<program, ticks, entryhi, random, maps, lines, source, branch>>

\* It has no delay slot, and is not put into one.
Eret ==
  /\ Runs("eret") /\ InHandler /\ ~IsBranchPending(bdelay)
  /\ pc' = Wrap(epc - 1) /\ owed' = 0
  /\ status' = IF status.ERL THEN [status EXCEPT !.ERL = FALSE] ELSE [status EXCEPT !.EXL = FALSE]
  /\ lines' = {} /\ data_cache' = Flushed /\ inst_cache' = Flushed /\ context_written' = FALSE
  /\ UNCHANGED <<program, ticks, bdelay, epc, entryhi, random, maps, source,
                 branch, handler>>

EnableInterrupts ==
  /\ Runs("enable")
  /\ \E enabled \in BOOLEAN :
       status' = IF InHandler \/ status.KSU = "Kernel" THEN [status EXCEPT !.EIE = enabled] ELSE status
  /\ UNCHANGED <<program, ticks, control, epc, entryhi, random, maps, caches, lines, source,
                 history>>

\* MTC0, of the registers that a translation depends on; in kernel mode COP0 is usable.
WriteContext ==
  /\ Runs("context") /\ OperatingContext = "Kernel"
  /\ \/ \E ksu \in Modes :
          status' = [status EXCEPT !.KSU = ksu] /\ UNCHANGED entryhi
     \/ \E vpn2 \in Vpn2s, asid \in Asids :
          entryhi' = [vpn2 |-> vpn2, asid |-> asid] /\ UNCHANGED status
  /\ context_written' = TRUE
  /\ UNCHANGED <<program, ticks, control, epc, random, maps, caches, lines, source,
                 branch, owed, handler>>

\* Mutant: the instruction cache of translations is not flushed.
WriteTlbDataOnly(index, lo) ==
  /\ tlb' = [i \in DOMAIN tlb \cup {index} |-> IF i = index THEN Entry(lo, entryhi) ELSE tlb[i]]
  /\ data_cache' = Flushed /\ UNCHANGED inst_cache
  /\ context_written' = FALSE

WriteTlbEntry(index, lo) ==
  /\ tlb' = [i \in DOMAIN tlb \cup {index} |-> IF i = index THEN Entry(lo, entryhi) ELSE tlb[i]]
  /\ data_cache' = Flushed /\ inst_cache' = Flushed
  /\ context_written' = FALSE

\* TLBWI and TLBWR
WriteTlb ==
  /\ Runs("tlb") /\ OperatingContext = "Kernel"
  /\ \E index \in Indices \cup {random}, lo \in LoPairs : WriteTlbEntry(index, lo)
  /\ writes < MaxWrites /\ writes' = writes + 1
  /\ UNCHANGED <<program, ticks, control, cop0, lines, source, branch, owed, handler>>

\* TLBR: EntryHi is read back, which a translation depends on.
ReadTlb ==
  /\ Runs("tlb") /\ OperatingContext = "Kernel"
  /\ \E index \in Indices \cap DOMAIN tlb : entryhi' = [vpn2 |-> tlb[index].vpn2, asid |-> tlb[index].asid]
  /\ context_written' = TRUE
  /\ UNCHANGED <<program, ticks, control, status, epc, random, maps, caches, lines, source,
                 branch, owed, handler>>

\* A load, a store, or a store of part of a word, which first reads it.
Access(page, access) ==
  LET found == Lookup(data_cache, page, access)
  IN  IF found.frame = -1 THEN HandleMmuError(page, found.exception) /\ UNCHANGED branch
      ELSE /\ data_cache' = After(data_cache, page, access)
           /\ UNCHANGED <<control, cop0, inst_cache, history>>

Memory ==
  /\ Runs("memory")
  /\ \E page \in Pages, access \in {"READ", "WRITE"} : Access(page, access)
  /\ UNCHANGED <<program, ticks, maps, lines, source>>

Run == \/ Plain \/ TakeBranch \/ SkipSlot \/ Trap \/ Eret \/ EnableInterrupts
       \/ WriteContext \/ WriteTlb \/ ReadTlb \/ Memory
-----------------------------------------------------------------------------
\* Mutant: the rest of the CPI makes the counter miss the multiples of 16.
AdvanceByFour ==
  /\ phase = "advance" /\ phase' = "check"
  /\ pc' = AdvancedPc(bdelay, pc) /\ bdelay' = AdvanceSlot(bdelay)
  /\ ticks' = IF ticks > 4 THEN ticks - 4 ELSE program.time_to_ticks
  /\ UNCHANGED <<program, cop0, maps, caches, lines, source, history>>

(* advance_pc and the end of time_step, with which the next event may      *)
(* begin.  handle_count_update finds Count >= Compare, since Compare's     *)
(* write_uword never stores a value; IM[7] is off in these programs.       *)
Advance ==
  /\ phase = "advance" /\ phase' = "check"
  /\ pc' = AdvancedPc(bdelay, pc) /\ bdelay' = AdvanceSlot(bdelay)
  /\ ticks' = IF ticks > 3 THEN ticks - 3 ELSE program.time_to_ticks
  /\ UNCHANGED <<program, cop0, maps, caches, lines, source, history>>

Step == InterruptCheck \/ Fetch \/ Run \/ Advance

(* The INTC: an interrupt comes when the program uses them, its line is    *)
(* raised again and again, and the handler acknowledges it.                *)
Irq ==
  /\ "enable" \in program.kinds
  /\ \/ ~source /\ source' = TRUE /\ UNCHANGED lines
     \/ source /\ lines' = {"irq"} /\ UNCHANGED source
     \/ status.EXL /\ source /\ source' = FALSE /\ lines' = {}
  /\ UNCHANGED <<program, phase, ticks, control, cop0, maps, caches, history>>

Raise == source /\ lines = {} /\ Irq /\ lines' = {"irq"}

Next == Step \/ Irq

(* The executor runs the core's events, and the INTC's in each block.      *)
Spec == Init /\ [][Next]_vars /\ WF_vars(Step) /\ WF_vars(Raise)
-----------------------------------------------------------------------------
TypeOK ==
  /\ phase \in {"check", "fetch", "run", "advance", "failed"}
  /\ program \in Programs /\ ticks \in 1..program.time_to_ticks
  /\ {pc, epc, branch} \subseteq 0..Addresses - 1
  /\ bdelay \in [current_slot : 0..2, branch_pc : 0..Addresses - 1]
  /\ status \in [ERL : BOOLEAN, EXL : BOOLEAN, IE : BOOLEAN, EIE : BOOLEAN, KSU : Modes \cup {"Kernel"}]
  /\ lines \subseteq {"irq"} /\ handler \in {"none", "slot"} \cup DOMAIN Vectors

(* A handler returns to the instruction that did not run to its end, or to *)
(* the branch that its delay slot belongs to: neither an instruction is    *)
(* lost nor one is run without its branch (CEeCore.cpp:344-361, 422-427,   *)
(* BranchDelaySlot.hpp, CEeCoreInterpreter.cpp:59).  What makes it hold: a *)
(* branch is set at the PC, its slot comes next, and nothing is at level 2.*)
ReturnsToOwed == status.EXL => epc = owed
SlotFollowsBranch ==
  /\ bdelay.current_slot = 2 => phase = "advance"
  /\ ~status.EXL => /\ bdelay.current_slot = 2 => pc = branch
                    /\ bdelay.current_slot = 1 => Wrap(pc - 1) = branch
BeforeHandler ==
  /\ handler # "none" => phase # "run" /\ status.EXL
  /\ handler \in DOMAIN Vectors =>
       /\ ~IsBranchPending(bdelay)
       /\ phase = "advance" => pc = Wrap(Vectors[handler] - 1)
       /\ phase \in {"check", "fetch"} => pc = Vectors[handler]
CoreInv == TypeOK /\ ReturnsToOwed /\ SlotFollowsBranch /\ BeforeHandler /\ ~status.ERL

(* After an exception or an interrupt, the next instruction that is looked *)
(* up is the first one at its vector, and no branch takes it away from     *)
(* there: the PC is still to advance after an instruction that raises an   *)
(* exception, and is not when an interrupt is taken before one             *)
(* (CEeCore.cpp:419-427).  Not so for an exception in a delay slot of an   *)
(* outer handler, whose branch nothing stops (CEeCore.cpp:380-388).        *)
NextIsHandler ==
  [][phase = "fetch" /\ phase' # phase /\ handler \in DOMAIN Vectors =>
       pc = Vectors[handler] /\ ~IsBranchPending(bdelay)]_vars

(* A cached translation is the one that the full lookup gives, and none is *)
(* an exception's: the writes of the TLB, the exceptions and ERET flush    *)
(* the caches.  MTC0 does not, although it may change the context          *)
(* (CEeCore.hpp:67-72).                                                    *)
Agrees(cache) ==
  \A page \in Pages, i \in 1..Len(cache.entries) :
    cache.entries[i].key = page => Fallback(page, "READ").frame = cache.entries[i].value
CachesAgree == ~context_written => Agrees(data_cache) /\ Agrees(inst_cache)

(* Each entry of the TLB that can be searched is found, wherever it is     *)
(* (EeCoreTlb.cpp:10-41).                                                  *)
Findable(index) == \A page \in Pages : IsMatch(page, tlb[index]) => FindTlbEntryIndex(page) # -1
EntriesFound == \A index \in DOMAIN tlb \ {47} : Findable(index)
TlbTyped ==
  /\ tlb \in [DOMAIN tlb -> TlbEntries] /\ DOMAIN tlb \subseteq Entries
  /\ entryhi \in [vpn2 : Nat, asid : Nat] /\ random \in Entries
TranslationsKnown ==
  /\ CachesAgree /\ EntriesFound
  /\ TlbTyped /\ CacheTyped(data_cache, Pages) /\ CacheTyped(inst_cache, Pages)

(* An interrupt is taken while it is not masked: every event is long       *)
(* enough to come by a multiple of 16 ticks (CEeCoreInterpreter.cpp:20).   *)
IrqTaken == source /\ ~InterruptsMasked ~> ~source \/ InterruptsMasked \/ phase = "failed"
=============================================================================
