---------------------------- MODULE EeCoreProofs -----------------------------
(***************************************************************************)
(* Proofs about EeCore, whatever the programs, addresses, vectors and      *)
(* mappings are: exceptions and the branch delay slot; and the address     *)
(* translation, whatever the size of the caches is: the cached             *)
(* translations are those of the TLB.                                      *)
(***************************************************************************)
EXTENDS EeCore, TranslationCacheProofs, TLAPS

(* The program counter's arithmetic.                                       *)
LEMMA WrapType ==
  ASSUME NEW a \in Int
  PROVE  Wrap(a) \in 0..Addresses - 1
BY EeCoreAssumption DEF Wrap

LEMMA WrapBack ==
  ASSUME NEW a \in 0..Addresses - 1
  PROVE  Wrap(Wrap(a + 1) - 1) = a /\ Wrap(Wrap(a - 1) + 1) = a
<1>1. Addresses \in Nat \ {0}
  BY EeCoreAssumption
<1>2. \A n \in Nat \ {0} : \A i \in 0..n - 1 : i % n = i /\ n % n = 0 /\ (0 - 1) % n = n - 1
  OBVIOUS
<1>3. CASE a + 1 < Addresses /\ a > 0
  BY <1>1, <1>2, <1>3 DEF Wrap
<1>4. CASE a = 0
  BY <1>1, <1>2, <1>4 DEF Wrap
<1>5. CASE a + 1 = Addresses
  BY <1>1, <1>2, <1>5 DEF Wrap
<1> QED
  BY <1>1, <1>3, <1>4, <1>5

(* The slot after a step of the program counter.                           *)
LEMMA Slots ==
  ASSUME NEW slot \in [current_slot : 0..2, branch_pc : 0..Addresses - 1],
         NEW a \in 0..Addresses - 1
  PROVE  /\ AdvanceSlot(slot) \in [current_slot : 0..2, branch_pc : 0..Addresses - 1]
         /\ AdvanceSlot(slot).current_slot \in {0, 1}
         /\ AdvanceSlot(slot).current_slot = 1 <=> slot.current_slot = 2
         /\ AdvancedPc(slot, a) \in 0..Addresses - 1
         /\ slot.current_slot # 1 => AdvancedPc(slot, a) = Wrap(a + 1)
         /\ NoBranch \in [current_slot : 0..2, branch_pc : 0..Addresses - 1]
         /\ NoBranch.current_slot = 0
<1>1. Wrap(a + 1) \in 0..Addresses - 1 /\ 0 \in 0..Addresses - 1
  BY WrapType, EeCoreAssumption
<1> QED
  BY <1>1 DEF AdvanceSlot, AdvancedPc, NoBranch

LEMMA InitCore == Init => CoreInv
<1> SUFFICES ASSUME Init PROVE CoreInv
  OBVIOUS
<1>1. program.time_to_ticks \in Nat \ {0} /\ 0 \in 0..Addresses - 1
  BY EeCoreAssumption DEF Init
<1>2. bdelay \in [current_slot : 0..2, branch_pc : 0..Addresses - 1] /\ bdelay.current_slot = 0
  BY <1>1 DEF Init, NoBranch
<1>3. /\ status \in [ERL : BOOLEAN, EXL : BOOLEAN, IE : BOOLEAN, EIE : BOOLEAN, KSU : Modes \cup {"Kernel"}]
      /\ ~status.ERL /\ ~status.EXL
  BY DEF Init
<1>4. TypeOK
  <2>1. ticks \in 1..program.time_to_ticks
    BY <1>1 DEF Init
  <2>2. pc = 0 /\ epc = 0 /\ branch = 0 /\ phase = "check" /\ lines = {} /\ handler = "none"
        /\ program \in Programs
    BY DEF Init
  <2> QED
    BY <1>1, <1>2, <1>3, <2>1, <2>2 DEF TypeOK
<1>5. BeforeHandler
  <2>1. handler = "none" /\ "none" \notin DOMAIN Vectors
    BY EeCoreAssumption DEF Init
  <2> QED
    BY <2>1 DEF BeforeHandler
<1> QED
  BY <1>2, <1>3, <1>4, <1>5 DEF Init, CoreInv, ReturnsToOwed, SlotFollowsBranch
-----------------------------------------------------------------------------
LEMMA NoVector == "none" \notin DOMAIN Vectors
BY EeCoreAssumption

(* An exception leaves the handler's address, or the one before it, in the *)
(* PC, and what it owes in EPC.                                            *)
LEMMA Exception ==
  ASSUME CoreInv, NEW exception, HandleException(exception),
         phase # "advance", exception = "interrupt" => phase' = "fetch",
         exception # "interrupt" => phase' \in {"advance", "failed"},
         UNCHANGED <<program, ticks, lines, branch>>
  PROVE  CoreInv'
<1> DEFINE target == Vector(exception)
<1>1. /\ VectorOf(exception) \in DOMAIN Vectors /\ target = Vectors[VectorOf(exception)]
      /\ target \in 0..Addresses - 1 /\ {"none", "slot"} \cap DOMAIN Vectors = {}
  BY EeCoreAssumption DEF Vector, VectorOf
<1>2. pc' = IF exception = "interrupt" THEN target ELSE Wrap(target - 1)
  BY DEF HandleException
<1>3. pc' \in 0..Addresses - 1
  BY <1>1, <1>2, WrapType
<1>4. /\ status' \in [ERL : BOOLEAN, EXL : BOOLEAN, IE : BOOLEAN, EIE : BOOLEAN, KSU : Modes \cup {"Kernel"}]
      /\ status'.EXL /\ ~status'.ERL
  BY DEF CoreInv, TypeOK, HandleException
<1>5. handler' = IF status.EXL /\ IsBranchPending(bdelay) THEN "slot" ELSE VectorOf(exception)
  BY DEF HandleException
<1>6. /\ bdelay \in [current_slot : 0..2, branch_pc : 0..Addresses - 1]
      /\ bdelay.current_slot # 2 /\ pc \in 0..Addresses - 1 /\ branch \in 0..Addresses - 1
      /\ epc \in 0..Addresses - 1
  BY DEF CoreInv, TypeOK, SlotFollowsBranch
<1>7. /\ bdelay' \in [current_slot : 0..2, branch_pc : 0..Addresses - 1]
      /\ bdelay'.current_slot # 2 /\ epc' = owed' /\ epc' \in 0..Addresses - 1
      /\ IsBranchPending(bdelay)' => status.EXL /\ IsBranchPending(bdelay)
  <2>1. CASE status.EXL
    BY <1>6, <2>1 DEF HandleException, CoreInv, ReturnsToOwed
  <2>2. CASE ~status.EXL
    <3>1. bdelay' = NoBranch
      BY <2>2 DEF HandleException, StopBranch
    <3>2. IsBranchPending(bdelay) => bdelay.current_slot = 1 /\ Wrap(pc - 1) = branch
      BY <1>6, <2>2 DEF CoreInv, SlotFollowsBranch, IsBranchPending
    <3>3. epc' = owed' /\ epc' \in 0..Addresses - 1
      BY <1>6, <2>2, <3>2 DEF HandleException
    <3> QED
      BY <1>6, <3>1, <3>3, Slots DEF IsBranchPending
  <2> QED
    BY <2>1, <2>2
<1>8. TypeOK'
  <2>1. handler' \in {"none", "slot"} \cup DOMAIN Vectors
    BY <1>1, <1>5
  <2> QED
    BY <1>3, <1>4, <1>6, <1>7, <2>1 DEF CoreInv, TypeOK
<1>9. BeforeHandler'
  <2>1. phase' # "run" /\ status'.EXL
    BY <1>4
  <2>2. ASSUME handler' \in DOMAIN Vectors
        PROVE  /\ handler' = VectorOf(exception) /\ ~(status.EXL /\ IsBranchPending(bdelay))
    BY <1>1, <1>5, <2>2
  <2>3. ASSUME handler' \in DOMAIN Vectors, phase' = "advance"
        PROVE  pc' = Wrap(Vectors[handler'] - 1)
    BY <1>1, <1>2, <2>2, <2>3
  <2>4. ASSUME handler' \in DOMAIN Vectors, phase' \in {"check", "fetch"}
        PROVE  pc' = Vectors[handler']
    BY <1>1, <1>2, <2>2, <2>4
  <2> QED
    BY <1>7, <2>1, <2>2, <2>3, <2>4 DEF BeforeHandler
<1>10. ReturnsToOwed' /\ SlotFollowsBranch'
  BY <1>4, <1>7 DEF ReturnsToOwed, SlotFollowsBranch
<1> QED
  BY <1>4, <1>8, <1>9, <1>10 DEF CoreInv
-----------------------------------------------------------------------------
(* A step that leaves the control alone may only go on to the next phase.  *)
LEMMA Onwards ==
  ASSUME CoreInv, UNCHANGED <<program, ticks, control, epc, branch>>,
         phase # "advance" \/ phase' = "advance",
         phase' \in {"check", "fetch", "run", "advance", "failed"},
         handler' \in {handler, "none"},
         handler' # "none" => phase' = phase \/ (phase = "check" /\ phase' = "fetch"),
         status' \in [ERL : BOOLEAN, EXL : BOOLEAN, IE : BOOLEAN, EIE : BOOLEAN,
                      KSU : Modes \cup {"Kernel"}],
         status'.EXL = status.EXL, ~status'.ERL, owed' = owed, lines' \subseteq {"irq"}
  PROVE  CoreInv'
<1>1. TypeOK'
  BY DEF CoreInv, TypeOK, control
<1>2. ReturnsToOwed' /\ BeforeHandler'
  <2>1. "none" \notin DOMAIN Vectors
    BY EeCoreAssumption
  <2> QED
    BY <2>1 DEF CoreInv, ReturnsToOwed, BeforeHandler, IsBranchPending, control
<1>3. SlotFollowsBranch'
  BY DEF CoreInv, SlotFollowsBranch, control
<1> QED
  BY <1>1, <1>2, <1>3 DEF CoreInv

(* The MMU's exceptions are none of the interrupts'.                       *)
LEMMA LookupRaises ==
  ASSUME NEW cache, NEW page, NEW access
  PROVE  Lookup(cache, page, access).exception # "interrupt"
<1>1. \A n : Frame(n).exception # "interrupt"
  BY DEF Frame
<1>2. /\ Raises(Refill(access)).exception # "interrupt"
      /\ Raises(AddressError(access)).exception # "interrupt"
      /\ Raises("modified").exception # "interrupt"
  BY DEF Raises, Refill, AddressError
<1>3. \A entry : ThroughEntry(page, access, entry).exception # "interrupt"
  BY <1>1, <1>2 DEF ThroughEntry
<1>4. Fallback(page, access).exception # "interrupt"
  BY <1>1, <1>2, <1>3 DEF Fallback
<1> QED
  BY <1>1, <1>4 DEF Lookup

LEMMA InterruptCheckInv == CoreInv /\ InterruptCheck => CoreInv'
<1> SUFFICES ASSUME CoreInv, InterruptCheck PROVE CoreInv'
  OBVIOUS
<1>1. phase = "check" /\ phase' = "fetch"
  BY DEF InterruptCheck
<1>2. CASE HandleException("interrupt") /\ UNCHANGED branch
  BY <1>1, <1>2, Exception DEF InterruptCheck
<1>3. CASE UNCHANGED <<control, status, epc, caches, history>>
  BY <1>1, <1>3, Onwards DEF InterruptCheck, CoreInv, TypeOK, history
<1> QED
  BY <1>2, <1>3 DEF InterruptCheck

LEMMA FetchInv == CoreInv /\ Fetch => CoreInv'
<1> SUFFICES ASSUME CoreInv, Fetch PROVE CoreInv'
  OBVIOUS
<1> DEFINE fetched == Lookup(inst_cache, Page(pc), "READ")
<1>1. phase = "fetch" /\ UNCHANGED <<program, ticks, lines>>
  BY DEF Fetch
<1>2. CASE /\ HandleMmuError(Page(pc), fetched.exception) /\ phase' = "failed"
           /\ UNCHANGED branch
  <2>1. HandleException(fetched.exception) /\ fetched.exception # "interrupt"
    BY <1>2, LookupRaises DEF HandleMmuError
  <2> HIDE DEF fetched
  <2> QED
    BY <1>1, <1>2, <2>1, Exception
<1>3. CASE /\ phase' = "run" /\ handler' = "none"
           /\ UNCHANGED <<control, cop0, data_cache, branch, owed, context_written>>
  BY <1>1, <1>3, Onwards DEF CoreInv, TypeOK, cop0
<1> QED
  BY <1>2, <1>3 DEF Fetch

(* What an instruction finds.                                              *)
LEMMA Running ==
  ASSUME CoreInv, NEW kind, Runs(kind)
  PROVE  /\ phase = "run" /\ phase' = "advance" /\ handler = "none" /\ ~status.ERL
         /\ bdelay \in [current_slot : 0..2, branch_pc : 0..Addresses - 1]
         /\ bdelay.current_slot # 2 /\ pc \in 0..Addresses - 1
         /\ status \in [ERL : BOOLEAN, EXL : BOOLEAN, IE : BOOLEAN, EIE : BOOLEAN,
                        KSU : Modes \cup {"Kernel"}]
         /\ lines \subseteq {"irq"}
BY DEF CoreInv, TypeOK, Runs, BeforeHandler, SlotFollowsBranch

(* The instructions that change neither the PC nor what is to come of it.  *)
LEMMA SimpleInv ==
  ASSUME CoreInv, Plain \/ EnableInterrupts \/ WriteContext \/ WriteTlb \/ ReadTlb
  PROVE  CoreInv'
<1>1. CASE Plain
  <2>1. Runs("plain")
    BY <1>1 DEF Plain
  <2> QED
    BY <1>1, <2>1, Running, Onwards DEF Plain, cop0, history
<1>2. CASE EnableInterrupts
  <2>1. Runs("enable")
    BY <1>2 DEF EnableInterrupts
  <2>2. status \in [ERL : BOOLEAN, EXL : BOOLEAN, IE : BOOLEAN, EIE : BOOLEAN,
                    KSU : Modes \cup {"Kernel"}]
    BY <2>1, Running
  <2>3. \A enabled \in BOOLEAN :
          LET new == [status EXCEPT !.EIE = enabled]
          IN  /\ new \in [ERL : BOOLEAN, EXL : BOOLEAN, IE : BOOLEAN, EIE : BOOLEAN,
                          KSU : Modes \cup {"Kernel"}]
              /\ new.EXL = status.EXL /\ new.ERL = status.ERL
    BY <2>2
  <2>4. /\ status' \in [ERL : BOOLEAN, EXL : BOOLEAN, IE : BOOLEAN, EIE : BOOLEAN,
                        KSU : Modes \cup {"Kernel"}]
        /\ status'.EXL = status.EXL /\ status'.ERL = status.ERL
    BY <1>2, <2>2, <2>3 DEF EnableInterrupts
  <2> QED
    BY <1>2, <2>1, <2>4, Running, Onwards DEF EnableInterrupts, history
<1>3. CASE WriteContext
  <2>1. Runs("context")
    BY <1>3 DEF WriteContext
  <2>2. status \in [ERL : BOOLEAN, EXL : BOOLEAN, IE : BOOLEAN, EIE : BOOLEAN,
                    KSU : Modes \cup {"Kernel"}]
    BY <2>1, Running
  <2>3. \A ksu \in Modes :
          LET new == [status EXCEPT !.KSU = ksu]
          IN  /\ new \in [ERL : BOOLEAN, EXL : BOOLEAN, IE : BOOLEAN, EIE : BOOLEAN,
                          KSU : Modes \cup {"Kernel"}]
              /\ new.EXL = status.EXL /\ new.ERL = status.ERL
    BY <2>2
  <2>4. /\ status' \in [ERL : BOOLEAN, EXL : BOOLEAN, IE : BOOLEAN, EIE : BOOLEAN,
                        KSU : Modes \cup {"Kernel"}]
        /\ status'.EXL = status.EXL /\ status'.ERL = status.ERL
    BY <1>3, <2>2, <2>3 DEF WriteContext
  <2> QED
    BY <1>3, <2>1, <2>4, Running, Onwards DEF WriteContext
<1>4. CASE WriteTlb \/ ReadTlb
  <2>1. Runs("tlb")
    BY <1>4 DEF WriteTlb, ReadTlb
  <2>2. UNCHANGED <<program, ticks, control, status, epc, lines, branch, owed, handler>>
    BY <1>4 DEF WriteTlb, ReadTlb, cop0
  <2> QED
    BY <2>1, <2>2, Running, Onwards
<1> QED
  BY <1>1, <1>2, <1>3, <1>4

(* A branch is where the PC is.                                            *)
LEMMA TakeBranchInv == CoreInv /\ TakeBranch => CoreInv'
<1> SUFFICES ASSUME CoreInv, TakeBranch PROVE CoreInv'
  OBVIOUS
<1>1. Runs("branch") /\ UNCHANGED <<program, ticks, pc, status, epc, lines, owed, handler>>
      /\ branch' = pc
  BY DEF TakeBranch, cop0
<1>2. PICK target \in Targets : bdelay' = SetBranch(target)
  BY DEF TakeBranch
<1>3. bdelay' \in [current_slot : 0..2, branch_pc : 0..Addresses - 1] /\ bdelay'.current_slot = 2
  <2>1. target \in 0..Addresses - 1
    BY EeCoreAssumption
  <2> QED
    BY <1>2, <2>1 DEF SetBranch
<1>4. phase' = "advance" /\ handler' = "none" /\ pc' \in 0..Addresses - 1
  BY <1>1, Running
<1>5. TypeOK'
  BY <1>1, <1>3, <1>4 DEF CoreInv, TypeOK
<1> QED
  BY <1>1, <1>3, <1>4, <1>5, NoVector DEF CoreInv, ReturnsToOwed, SlotFollowsBranch, BeforeHandler

(* A likely branch that is not taken goes past its slot.                   *)
LEMMA SkipSlotInv == CoreInv /\ SkipSlot => CoreInv'
<1> SUFFICES ASSUME CoreInv, SkipSlot PROVE CoreInv'
  OBVIOUS
<1>1. Runs("branch") /\ UNCHANGED <<program, ticks, status, epc, lines, owed, branch, handler>>
      /\ pc' = AdvancedPc(bdelay, pc) /\ bdelay' = AdvanceSlot(bdelay)
  BY DEF SkipSlot, cop0, history
<1>2. bdelay \in [current_slot : 0..2, branch_pc : 0..Addresses - 1] /\ pc \in 0..Addresses - 1
      /\ phase' = "advance" /\ handler' = "none"
  BY <1>1, Running
<1>3. bdelay.current_slot = 0
  BY <1>2 DEF SkipSlot, IsBranchPending
<1>4. /\ bdelay' \in [current_slot : 0..2, branch_pc : 0..Addresses - 1]
      /\ bdelay'.current_slot = 0 /\ pc' \in 0..Addresses - 1
  BY <1>1, <1>2, <1>3, Slots
<1>5. TypeOK'
  BY <1>1, <1>2, <1>4 DEF CoreInv, TypeOK
<1> QED
  BY <1>1, <1>2, <1>4, <1>5, NoVector DEF CoreInv, ReturnsToOwed, SlotFollowsBranch, BeforeHandler

LEMMA TrapInv == CoreInv /\ Trap => CoreInv'
<1> SUFFICES ASSUME CoreInv, Trap PROVE CoreInv'
  OBVIOUS
<1>1. Runs("trap")
  BY DEF Trap
<1> QED
  BY <1>1, Running, Exception DEF Trap

(* ERET leaves no branch behind.                                           *)
LEMMA EretInv == CoreInv /\ Eret => CoreInv'
<1> SUFFICES ASSUME CoreInv, Eret PROVE CoreInv'
  OBVIOUS
<1>1. Runs("eret") /\ UNCHANGED <<program, ticks, bdelay, epc, branch, handler>>
      /\ pc' = Wrap(epc - 1) /\ lines' = {}
  BY DEF Eret
<1>2. /\ phase' = "advance" /\ handler' = "none" /\ ~status.ERL
      /\ status \in [ERL : BOOLEAN, EXL : BOOLEAN, IE : BOOLEAN, EIE : BOOLEAN,
                     KSU : Modes \cup {"Kernel"}]
      /\ bdelay \in [current_slot : 0..2, branch_pc : 0..Addresses - 1]
  BY <1>1, Running
<1>3. /\ status' \in [ERL : BOOLEAN, EXL : BOOLEAN, IE : BOOLEAN, EIE : BOOLEAN,
                      KSU : Modes \cup {"Kernel"}]
      /\ ~status'.EXL /\ ~status'.ERL
  BY <1>2 DEF Eret
<1>4. bdelay'.current_slot = 0
  BY <1>1, <1>2 DEF Eret, IsBranchPending
<1>5. pc' \in 0..Addresses - 1
  <2>1. epc \in Int
    BY DEF CoreInv, TypeOK
  <2> QED
    BY <1>1, <2>1, WrapType
<1>6. TypeOK'
  BY <1>1, <1>2, <1>3, <1>5 DEF CoreInv, TypeOK
<1> QED
  BY <1>2, <1>3, <1>4, <1>6, NoVector DEF CoreInv, ReturnsToOwed, SlotFollowsBranch, BeforeHandler

LEMMA MemoryInv == CoreInv /\ Memory => CoreInv'
<1> SUFFICES ASSUME CoreInv, Memory PROVE CoreInv'
  OBVIOUS
<1>1. Runs("memory") /\ UNCHANGED <<program, ticks, lines>>
  BY DEF Memory
<1>2. PICK page \in Pages, access \in {"READ", "WRITE"} : Access(page, access)
  BY DEF Memory
<1> DEFINE found == Lookup(data_cache, page, access)
<1>3. CASE HandleMmuError(page, found.exception) /\ UNCHANGED branch
  <2>1. HandleException(found.exception) /\ found.exception # "interrupt"
    BY <1>3, LookupRaises DEF HandleMmuError
  <2> HIDE DEF found
  <2> QED
    BY <1>1, <1>3, <2>1, Running, Exception
<1>4. CASE UNCHANGED <<control, cop0, inst_cache, history>>
  BY <1>1, <1>4, Running, Onwards DEF cop0, history
<1> QED
  BY <1>2, <1>3, <1>4 DEF Access
-----------------------------------------------------------------------------
(* The end of the time step: a branch comes to its slot, or the slot to    *)
(* the branch's target.                                                    *)
LEMMA AdvanceInv == CoreInv /\ Advance => CoreInv'
<1> SUFFICES ASSUME CoreInv, Advance PROVE CoreInv'
  OBVIOUS
<1>1. /\ phase' = "check" /\ phase = "advance" /\ handler' = handler
      /\ UNCHANGED <<program, status, epc, lines, branch, owed>>
      /\ pc' = AdvancedPc(bdelay, pc) /\ bdelay' = AdvanceSlot(bdelay)
  BY DEF Advance, cop0, history
<1>2. bdelay \in [current_slot : 0..2, branch_pc : 0..Addresses - 1] /\ pc \in 0..Addresses - 1
  BY DEF CoreInv, TypeOK
<1>3. /\ bdelay' \in [current_slot : 0..2, branch_pc : 0..Addresses - 1]
      /\ bdelay'.current_slot \in {0, 1} /\ pc' \in 0..Addresses - 1
  BY <1>1, <1>2, Slots
<1>4. ticks' \in 1..program'.time_to_ticks
  <2>1. program \in Programs /\ ticks \in 1..program.time_to_ticks
        /\ program.time_to_ticks \in Nat \ {0}
    BY EeCoreAssumption DEF CoreInv, TypeOK
  <2> QED
    BY <1>1, <2>1 DEF Advance
<1>5. TypeOK'
  BY <1>1, <1>3, <1>4 DEF CoreInv, TypeOK
<1>6. SlotFollowsBranch'
  <2>1. ASSUME ~status'.EXL, bdelay'.current_slot = 1 PROVE Wrap(pc' - 1) = branch'
    <3>1. bdelay.current_slot = 2
      BY <1>1, <1>2, <2>1, Slots
    <3>2. pc = branch /\ pc' = Wrap(pc + 1)
      BY <1>1, <1>2, <2>1, <3>1, Slots DEF CoreInv, SlotFollowsBranch
    <3> QED
      BY <1>1, <1>2, <3>2, WrapBack
  <2> QED
    BY <1>3, <2>1 DEF SlotFollowsBranch
<1>7. BeforeHandler'
  <2>1. ASSUME handler \in DOMAIN Vectors
        PROVE  pc' = Vectors[handler] /\ ~IsBranchPending(bdelay)'
    <3>1. /\ bdelay.current_slot = 0 /\ pc = Wrap(Vectors[handler] - 1)
          /\ Vectors[handler] \in 0..Addresses - 1
      BY <1>1, <1>2, <2>1, EeCoreAssumption DEF CoreInv, BeforeHandler, IsBranchPending
    <3>2. pc' = Wrap(pc + 1) /\ bdelay'.current_slot = 0
      BY <1>1, <1>2, <1>3, <3>1, Slots
    <3> QED
      BY <3>1, <3>2, WrapBack DEF IsBranchPending
  <2>2. handler # "none" => status'.EXL
    BY <1>1 DEF CoreInv, BeforeHandler
  <2> QED
    BY <1>1, <2>1, <2>2 DEF BeforeHandler
<1> QED
  BY <1>1, <1>5, <1>6, <1>7 DEF CoreInv, ReturnsToOwed

LEMMA IrqInv == CoreInv /\ Irq => CoreInv'
<1> SUFFICES ASSUME CoreInv, Irq PROVE CoreInv'
  OBVIOUS
<1>1. UNCHANGED <<program, phase, ticks, control, status, epc, branch, owed, handler>>
      /\ lines' \subseteq {"irq"}
  BY DEF Irq, CoreInv, TypeOK, cop0, history
<1>2. TypeOK'
  BY <1>1 DEF CoreInv, TypeOK, control
<1> QED
  BY <1>1, <1>2 DEF CoreInv, ReturnsToOwed, SlotFollowsBranch, BeforeHandler, IsBranchPending, control

LEMMA CoreStep == CoreInv /\ [Next]_vars => CoreInv'
<1> SUFFICES ASSUME CoreInv, [Next]_vars PROVE CoreInv'
  OBVIOUS
<1>1. CASE Run
  BY <1>1, SimpleInv, TakeBranchInv, SkipSlotInv, TrapInv, EretInv, MemoryInv DEF Run
<1>2. CASE InterruptCheck \/ Fetch \/ Advance \/ Irq
  BY <1>2, InterruptCheckInv, FetchInv, AdvanceInv, IrqInv
<1>3. CASE UNCHANGED vars
  BY <1>3 DEF vars, cop0, history, control, CoreInv, TypeOK, ReturnsToOwed, SlotFollowsBranch,
              BeforeHandler, IsBranchPending
<1> QED
  BY <1>1, <1>2, <1>3 DEF Next, Step

(* Every handler, whatever it was entered for and wherever the interrupted *)
(* program was, returns to the instruction that did not run to its end or  *)
(* to the branch of its delay slot (CEeCore.cpp:344-361, 422-427).         *)
THEOREM CoreInvariance == Spec => []CoreInv
<1>1. Init => CoreInv
  BY InitCore
<1>2. CoreInv /\ [Next]_vars => CoreInv'
  BY CoreStep
<1> QED
  BY <1>1, <1>2, PTL DEF Spec

(* Whatever the vectors are, and wherever in a program an exception or an  *)
(* interrupt comes, the next instruction that is looked up is the first    *)
(* one at its vector, and no branch is on its way elsewhere: none is       *)
(* skipped and no other one comes before it.  What is left out is an       *)
(* exception in a delay slot of an outer handler (CEeCore.cpp:380-388,     *)
(* 419-427, BranchDelaySlot.hpp).                                          *)
THEOREM HandlerNext == Spec => NextIsHandler
<1> DEFINE Lands == phase = "fetch" /\ phase' # phase /\ handler \in DOMAIN Vectors
                      => pc = Vectors[handler] /\ ~IsBranchPending(bdelay)
<1>1. CoreInv => [Lands]_vars
  BY DEF CoreInv, BeforeHandler
<1> QED
  BY <1>1, CoreInvariance, PTL DEF Spec, NextIsHandler
-----------------------------------------------------------------------------
(* The full lookup.  The search goes over the places of all entries but    *)
(* the last.                                                               *)
LEMMA SearchOrderIs ==
  /\ Len(SearchOrder) = 47
  /\ \A i \in 1..47 : SearchOrder[i] = IF i = 1 THEN 0 ELSE IF i <= 19 THEN i + 11
                                       ELSE IF i <= 31 THEN i - 19 ELSE i - 1
  BY DEF SearchOrder

Found(page) == {i \in 1..Len(SearchOrder) :
                  SearchOrder[i] \in DOMAIN tlb /\ IsMatch(page, tlb[SearchOrder[i]])}

LEMMA Search ==
  ASSUME NEW page
  PROVE  /\ FindTlbEntryIndex(page) = IF Found(page) = {} THEN -1 ELSE SearchOrder[First(Found(page))]
         /\ Found(page) # {} => First(Found(page)) \in Found(page)
<1>1. Found(page) \subseteq Nat
  BY SearchOrderIs DEF Found
<1>2. Found(page) # {} => First(Found(page)) \in Found(page)
  BY <1>1, FirstOf
<1> QED
  BY <1>2 DEF FindTlbEntryIndex, Found

(* No entry but the last is passed over.                                   *)
LEMMA AllFound == TlbTyped => EntriesFound
<1> SUFFICES ASSUME TlbTyped, NEW index \in DOMAIN tlb \ {47}, NEW page \in Pages,
                    IsMatch(page, tlb[index])
             PROVE  FindTlbEntryIndex(page) # -1
  BY DEF EntriesFound, Findable
<1>1. index \in 0..46
  BY DEF TlbTyped, Entries
<1>2. PICK i \in 1..47 : SearchOrder[i] = index
  <2> DEFINE place == IF index = 0 THEN 1 ELSE IF index \in 13..30 THEN index - 11
                      ELSE IF index <= 12 THEN index + 19 ELSE index + 1
  <2>1. place \in 1..47 /\ SearchOrder[place] = index
    BY <1>1, SearchOrderIs
  <2> QED
    BY <2>1
<1>3. i \in Found(page)
  BY <1>2, SearchOrderIs DEF Found
<1>4. First(Found(page)) \in 1..47
  BY <1>3, Search, SearchOrderIs DEF Found
<1>5. SearchOrder[First(Found(page))] \in 0..46
  BY <1>4, SearchOrderIs
<1> QED
  BY <1>3, <1>5, Search

(* A translation is a frame or an exception, and a store that is let       *)
(* through gets the frame that a load gets.                                *)
LEMMA FallbackFrame ==
  ASSUME TlbTyped, NEW page \in Nat, NEW access \in {"READ", "WRITE"}
  PROVE  /\ Fallback(page, access).frame \in Nat \cup {-1}
         /\ Fallback(page, access).frame # -1
              => Fallback(page, "READ").frame = Fallback(page, access).frame
<1>1. \A exception : Raises(exception).frame = -1
  BY DEF Raises
<1>2. \A n : Frame(n).frame = n
  BY DEF Frame
<1> DEFINE index == FindTlbEntryIndex(page)
<1>3. UserPages \in Nat
  BY EeCoreAssumption
<1>4. index # -1 => tlb[index] \in TlbEntries
  BY Search DEF TlbTyped, Found
<1>5. ASSUME NEW entry \in TlbEntries
      PROVE  /\ ThroughEntry(page, access, entry).frame \in Nat \cup {-1}
             /\ ThroughEntry(page, access, entry).frame # -1
                  => ThroughEntry(page, "READ", entry).frame = ThroughEntry(page, access, entry).frame
  <2> DEFINE info == entry.info[(page \div entry.size) % 2]
  <2>1. (page \div entry.size) % 2 \in {0, 1} /\ page % entry.size \in Nat /\ page % 4 \in Nat
    <3>1. entry.size \in Nat \ {0}
      BY DEF TlbEntries
    <3>2. \A a \in Nat, b \in Nat \ {0} : a \div b \in Nat /\ a % b \in Nat
      OBVIOUS
    <3> QED
      BY <3>1, <3>2
  <2>2. entry.info \in [{0, 1} -> [pfn : Nat, v : BOOLEAN, d : BOOLEAN]]
    BY DEF TlbEntries
  <2>3. info.pfn \in Nat
    BY <2>1, <2>2
  <2> HIDE DEF info
  <2>4. ThroughEntry(page, access, entry) =
          IF (~entry.g /\ entry.asid # entryhi.asid) \/ ~info.v THEN Raises(Refill(access))
          ELSE IF ~info.d /\ access = "WRITE" THEN Raises("modified")
          ELSE IF entry.s THEN Frame(ScratchpadFrame + (page % 4))
          ELSE Frame(info.pfn + (page % entry.size))
    BY DEF ThroughEntry, info
  <2>5. ThroughEntry(page, "READ", entry) =
          IF (~entry.g /\ entry.asid # entryhi.asid) \/ ~info.v THEN Raises(Refill("READ"))
          ELSE IF entry.s THEN Frame(ScratchpadFrame + (page % 4))
          ELSE Frame(info.pfn + (page % entry.size))
    BY DEF ThroughEntry, info
  <2>6. ScratchpadFrame + (page % 4) \in Nat /\ info.pfn + (page % entry.size) \in Nat
    BY <2>1, <2>3 DEF ScratchpadFrame
  <2> QED
    BY <1>1, <1>2, <2>4, <2>5, <2>6
<1> HIDE DEF index
<1>6. \A a \in {"READ", "WRITE"} : Fallback(page, a) =
        IF OperatingContext = "User" /\ page >= UserPages THEN Raises(AddressError(a))
        ELSE IF OperatingContext = "Kernel" /\ page >= UserPages THEN Frame(page - UserPages)
        ELSE IF OperatingContext = "Kernel" /\ status.ERL THEN Frame(page)
        ELSE IF index = -1 THEN Raises(Refill(a))
        ELSE ThroughEntry(page, a, tlb[index])
  BY DEF Fallback, index
<1>7. page >= UserPages => page - UserPages \in Nat
  BY <1>3
<1>8. CASE index = -1
  BY <1>1, <1>2, <1>6, <1>7, <1>8
<1>9. CASE index # -1
  <2>1. /\ ThroughEntry(page, access, tlb[index]).frame \in Nat \cup {-1}
        /\ ThroughEntry(page, access, tlb[index]).frame # -1
             => ThroughEntry(page, "READ", tlb[index]).frame
                  = ThroughEntry(page, access, tlb[index]).frame
    BY <1>4, <1>5, <1>9
  <2> QED
    BY <1>1, <1>2, <1>6, <1>7, <1>9, <2>1
<1> QED
  BY <1>8, <1>9

(* What a translation depends on.                                          *)
LEMMA SameContext ==
  ASSUME OperatingContext' = OperatingContext, status'.ERL = status.ERL, tlb' = tlb,
         entryhi' = entryhi, NEW page
  PROVE  Fallback(page, "READ")' = Fallback(page, "READ")
<1>1. FindTlbEntryIndex(page)' = FindTlbEntryIndex(page)
  BY DEF FindTlbEntryIndex
<1>2. \A entry : ThroughEntry(page, "READ", entry)' = ThroughEntry(page, "READ", entry)
  BY DEF ThroughEntry
<1> QED
  BY <1>1, <1>2 DEF Fallback

LEMMA PageOf ==
  /\ Pages \subseteq Nat
  /\ \A address \in 0..Addresses - 1 : Page(address) \in Pages
<1>1. Addresses \in Nat \ {0} /\ PageLen \in Nat \ {0} /\ Addresses % PageLen = 0
  BY EeCoreAssumption
<1>2. \A a \in Nat, b \in Nat \ {0} : a \div b \in Nat /\ a = b * (a \div b) + (a % b) /\ a % b \in 0..b - 1
  OBVIOUS
<1> DEFINE n == Addresses \div PageLen
<1>3. n \in Nat /\ Addresses = PageLen * n
  BY <1>1, <1>2
<1>4. ASSUME NEW address \in 0..Addresses - 1 PROVE Page(address) \in 0..n - 1
  <2> DEFINE q == address \div PageLen
  <2>1. q \in Nat /\ PageLen * q <= address
    BY <1>1, <1>2
  <2>2. ~(q >= n)
    <3>1. \A b, x, y \in Nat : x >= y => b * x >= b * y
      OBVIOUS
    <3> HIDE DEF q, n
    <3> QED
      BY <1>1, <1>3, <2>1, <3>1
  <2> HIDE DEF n
  <2> QED
    BY <1>3, <2>1, <2>2 DEF Page
<1> QED
  BY <1>3, <1>4 DEF Pages
-----------------------------------------------------------------------------
(* What the steps keep.  EntriesFound follows.                             *)
Mappings == TlbTyped /\ CacheTyped(data_cache, Pages) /\ CacheTyped(inst_cache, Pages) /\ CachesAgree

LEMMA EnoughToKnow == Mappings => TranslationsKnown
BY AllFound DEF Mappings, TranslationsKnown

(* A lookup that finds a frame leaves a cache that is as good as it was.   *)
LEMMA AfterLookup ==
  ASSUME TlbTyped, NEW cache, CacheTyped(cache, Pages),
         NEW page \in Pages, NEW access \in {"READ", "WRITE"},
         Lookup(cache, page, access).frame # -1
  PROVE  /\ CacheTyped(After(cache, page, access), Pages)
         /\ Agrees(cache) => Agrees(After(cache, page, access))
<1> DEFINE frame == Fallback(page, access).frame
           new == After(cache, page, access)
<1>1. page \in Nat
  BY PageOf
<1>2. CASE Hit(cache, page)
  <2>1. new = Touched(cache, page)
    BY <1>2 DEF After
  <2>2. CacheTyped(Touched(cache, page), Pages) /\ Kept(Touched(cache, page), cache)
    BY <1>2, TouchedKeeps
  <2> QED
    BY <2>1, <2>2 DEF Kept, Agrees
<1>3. CASE ~Hit(cache, page)
  <2>1. frame # -1
    BY <1>3 DEF Lookup
  <2>2. frame \in Nat /\ Fallback(page, "READ").frame = frame
    BY <1>1, <2>1, FallbackFrame
  <2>3. new = Inserted(cache, page, frame)
    BY <1>3, <2>1 DEF After
  <2> HIDE DEF frame, new
  <2>4. /\ CacheTyped(new, Pages)
        /\ \A i \in 1..Len(new.entries) :
             \/ new.entries[i].key = page /\ new.entries[i].value = frame
             \/ \E j \in 1..Len(cache.entries) : /\ new.entries[i].key = cache.entries[j].key
                                               /\ new.entries[i].value = cache.entries[j].value
    <3>1. Size \in Nat
      BY EeCoreAssumption
    <3> QED
      BY <2>2, <2>3, <3>1, InsertedKeeps
  <2>5. ASSUME Agrees(cache), NEW p \in Pages, NEW i \in 1..Len(new.entries), new.entries[i].key = p
        PROVE  Fallback(p, "READ").frame = new.entries[i].value
    <3>1. CASE new.entries[i].key = page /\ new.entries[i].value = frame
      BY <2>2, <2>5, <3>1
    <3>2. CASE \E j \in 1..Len(cache.entries) : /\ new.entries[i].key = cache.entries[j].key
                                              /\ new.entries[i].value = cache.entries[j].value
      BY <2>5, <3>2 DEF Agrees
    <3> QED
      BY <2>4, <3>1, <3>2
  <2>6. Agrees(cache) => Agrees(new)
    BY <2>5 DEF Agrees
  <2> QED
    BY <2>4, <2>6 DEF new
<1> QED
  BY <1>2, <1>3

(* A step that flushes both caches.                                        *)
LEMMA FlushesBoth ==
  ASSUME data_cache' = Flushed, inst_cache' = Flushed, TlbTyped'
  PROVE  Mappings'
<1>1. CacheTyped(data_cache, Pages)' /\ CacheTyped(inst_cache, Pages)'
  BY FlushedTyped, EeCoreAssumption DEF CacheTyped
<1>2. \A cache : Len(cache.entries) = 0 => 1..Len(cache.entries) = {}
  OBVIOUS
<1>3. 1..Len(data_cache'.entries) = {} /\ 1..Len(inst_cache'.entries) = {}
  BY <1>2, FlushedTyped, EeCoreAssumption
<1> QED
  BY <1>1, <1>3 DEF Mappings, CachesAgree, Agrees

(* A step that leaves the context of the translations alone, or says that  *)
(* it has changed.                                                         *)
LEMMA KeepsContext ==
  ASSUME Mappings, TlbTyped', UNCHANGED caches,
         \/ context_written'
         \/ /\ OperatingContext' = OperatingContext /\ status'.ERL = status.ERL
            /\ UNCHANGED <<tlb, entryhi, context_written>>
  PROVE  Mappings'
<1>1. CacheTyped(data_cache, Pages)' /\ CacheTyped(inst_cache, Pages)'
  BY DEF Mappings, caches, CacheTyped
<1>2. CASE context_written'
  BY <1>1, <1>2 DEF Mappings, CachesAgree
<1>3. CASE /\ OperatingContext' = OperatingContext /\ status'.ERL = status.ERL
           /\ UNCHANGED <<tlb, entryhi, context_written>>
  <2>1. \A page \in Pages : Fallback(page, "READ")' = Fallback(page, "READ")
    BY <1>3, SameContext
  <2>2. Agrees(data_cache) => Agrees(data_cache)'
    BY <2>1 DEF Agrees, caches
  <2>3. Agrees(inst_cache) => Agrees(inst_cache)'
    BY <2>1 DEF Agrees, caches
  <2> QED
    BY <1>1, <1>3, <2>2, <2>3 DEF Mappings, CachesAgree
<1> QED
  BY <1>2, <1>3

(* A step that looks a page up in one of the caches.                       *)
LEMMA LooksUp ==
  ASSUME Mappings, UNCHANGED <<tlb, cop0, context_written>>, NEW page \in Pages,
         NEW access \in {"READ", "WRITE"},
         \/ /\ Lookup(data_cache, page, access).frame # -1
            /\ data_cache' = After(data_cache, page, access) /\ UNCHANGED inst_cache
         \/ /\ Lookup(inst_cache, page, access).frame # -1
            /\ inst_cache' = After(inst_cache, page, access) /\ UNCHANGED data_cache
  PROVE  Mappings'
<1>1. TlbTyped /\ CacheTyped(data_cache, Pages) /\ CacheTyped(inst_cache, Pages)
  BY DEF Mappings
<1>2. PICK data, inst : /\ data_cache' = data /\ CacheTyped(data, Pages)
                        /\ inst_cache' = inst /\ CacheTyped(inst, Pages)
                        /\ Agrees(data_cache) => Agrees(data)
                        /\ Agrees(inst_cache) => Agrees(inst)
  BY <1>1, AfterLookup
<1>3. \A p \in Pages : Fallback(p, "READ")' = Fallback(p, "READ")
  BY SameContext DEF OperatingContext, cop0
<1>4. TlbTyped' /\ CacheTyped(data_cache, Pages)' /\ CacheTyped(inst_cache, Pages)'
  BY <1>1, <1>2 DEF TlbTyped, CacheTyped, cop0
<1>5. Agrees(data) => Agrees(data_cache)'
  BY <1>2, <1>3 DEF Agrees
<1>6. Agrees(inst) => Agrees(inst_cache)'
  BY <1>2, <1>3 DEF Agrees
<1> QED
  BY <1>1, <1>2, <1>4, <1>5, <1>6 DEF Mappings, CachesAgree

(* Exceptions flush the caches.                                            *)
LEMMA ExceptionMaps ==
  ASSUME Mappings, NEW exception, HandleException(exception), UNCHANGED <<tlb, entryhi, random>>
  PROVE  Mappings'
<1>1. data_cache' = Flushed /\ inst_cache' = Flushed
  BY DEF HandleException
<1>2. TlbTyped'
  BY DEF Mappings, TlbTyped
<1> QED
  BY <1>1, <1>2, FlushesBoth

LEMMA MmuErrorMaps ==
  ASSUME Mappings, NEW page \in Pages, NEW exception, HandleMmuError(page, exception),
         UNCHANGED tlb
  PROVE  Mappings'
<1>1. data_cache' = Flushed /\ inst_cache' = Flushed
  BY DEF HandleMmuError, HandleException
<1>2. entryhi' \in [vpn2 : Nat, asid : Nat]
  <2>1. page \div 2 \in Nat
    BY PageOf
  <2>2. entryhi' = [entryhi EXCEPT !.vpn2 = page \div 2]
    BY DEF HandleMmuError
  <2> QED
    BY <2>1, <2>2 DEF Mappings, TlbTyped
<1>3. random' = 47
  BY DEF HandleMmuError
<1>4. TlbTyped'
  BY <1>2, <1>3 DEF Mappings, TlbTyped, Entries
<1> QED
  BY <1>1, <1>4, FlushesBoth

LEMMA InitMaps == Init => Mappings
<1> SUFFICES ASSUME Init PROVE Mappings
  OBVIOUS
<1>1. Entry(FirstLo, [vpn2 |-> 0, asid |-> 0]) \in TlbEntries
  BY EeCoreAssumption DEF Entry, LoEntries, TlbEntries
<1>2. tlb = [index \in {38} |-> Entry(FirstLo, [vpn2 |-> 0, asid |-> 0])]
      /\ entryhi = [vpn2 |-> 0, asid |-> 0] /\ random = 47
  BY DEF Init
<1>3. TlbTyped
  BY <1>1, <1>2 DEF TlbTyped, Entries
<1>4. data_cache = Flushed /\ inst_cache = Flushed
  BY DEF Init
<1>5. \A cache : Len(cache.entries) = 0 => 1..Len(cache.entries) = {}
  OBVIOUS
<1> QED
  BY <1>3, <1>4, <1>5, FlushedTyped, EeCoreAssumption DEF Mappings, CachesAgree, Agrees
-----------------------------------------------------------------------------
(* The writes of the TLB and of EntryHi.                                   *)
LEMMA WriteTlbMaps == Mappings /\ WriteTlb => Mappings'
<1> SUFFICES ASSUME Mappings, WriteTlb PROVE Mappings'
  OBVIOUS
<1>1. PICK index \in Indices \cup {random}, lo \in LoPairs : WriteTlbEntry(index, lo)
  BY DEF WriteTlb
<1>2. TlbTyped /\ index \in Entries /\ lo \in LoEntries
  BY EeCoreAssumption DEF Mappings, TlbTyped
<1>3. Entry(lo, entryhi) \in TlbEntries
  BY <1>2 DEF Entry, LoEntries, TlbEntries, TlbTyped
<1>4. tlb' = [i \in DOMAIN tlb \cup {index} |-> IF i = index THEN Entry(lo, entryhi) ELSE tlb[i]]
      /\ data_cache' = Flushed /\ inst_cache' = Flushed
  BY <1>1 DEF WriteTlbEntry
<1>5. DOMAIN tlb' \subseteq Entries /\ tlb' \in [DOMAIN tlb' -> TlbEntries]
  BY <1>2, <1>3, <1>4 DEF TlbTyped
<1>6. TlbTyped'
  BY <1>2, <1>5 DEF WriteTlb, TlbTyped, cop0
<1> QED
  BY <1>4, <1>6, FlushesBoth

LEMMA ReadTlbMaps == Mappings /\ ReadTlb => Mappings'
<1> SUFFICES ASSUME Mappings, ReadTlb PROVE Mappings'
  OBVIOUS
<1>1. PICK index \in Indices \cap DOMAIN tlb :
        entryhi' = [vpn2 |-> tlb[index].vpn2, asid |-> tlb[index].asid]
  BY DEF ReadTlb
<1>2. tlb[index] \in TlbEntries
  BY <1>1 DEF Mappings, TlbTyped
<1>3. entryhi' \in [vpn2 : Nat, asid : Nat]
  BY <1>1, <1>2 DEF TlbEntries
<1>4. UNCHANGED <<tlb, random, caches>> /\ context_written'
  BY DEF ReadTlb, maps
<1>5. TlbTyped'
  BY <1>3, <1>4 DEF Mappings, TlbTyped
<1> QED
  BY <1>4, <1>5, KeepsContext

LEMMA WriteContextMaps == Mappings /\ WriteContext => Mappings'
<1> SUFFICES ASSUME Mappings, WriteContext PROVE Mappings'
  OBVIOUS
<1>1. entryhi' \in [vpn2 : Nat, asid : Nat]
  <2>1. CASE UNCHANGED entryhi
    BY <2>1 DEF Mappings, TlbTyped
  <2>2. CASE \E vpn2 \in Vpn2s, asid \in Asids : entryhi' = [vpn2 |-> vpn2, asid |-> asid]
    BY <2>2, EeCoreAssumption
  <2> QED
    BY <2>1, <2>2 DEF WriteContext
<1>2. UNCHANGED <<tlb, random, caches>> /\ context_written'
  BY DEF WriteContext, maps
<1>3. TlbTyped'
  BY <1>1, <1>2 DEF Mappings, TlbTyped
<1> QED
  BY <1>2, <1>3, KeepsContext

(* The steps that look pages up.                                           *)
LEMMA FetchMaps == CoreInv /\ Mappings /\ Fetch => Mappings'
<1> SUFFICES ASSUME CoreInv, Mappings, Fetch PROVE Mappings'
  OBVIOUS
<1>1. Page(pc) \in Pages /\ UNCHANGED tlb
  BY PageOf DEF CoreInv, TypeOK, Fetch, maps
<1> DEFINE fetched == Lookup(inst_cache, Page(pc), "READ")
<1>2. CASE fetched.frame = -1
  <2>1. HandleMmuError(Page(pc), fetched.exception)
    BY <1>2 DEF Fetch
  <2> HIDE DEF fetched
  <2> QED
    BY <1>1, <2>1, MmuErrorMaps
<1>3. CASE fetched.frame # -1
  <2>1. /\ inst_cache' = After(inst_cache, Page(pc), "READ")
        /\ UNCHANGED <<cop0, data_cache, context_written>>
    BY <1>3 DEF Fetch, history
  <2> QED
    BY <1>1, <1>3, <2>1, LooksUp
<1> QED
  BY <1>2, <1>3

LEMMA MemoryMaps == Mappings /\ Memory => Mappings'
<1> SUFFICES ASSUME Mappings, Memory PROVE Mappings'
  OBVIOUS
<1>1. PICK page \in Pages, access \in {"READ", "WRITE"} : Access(page, access)
  BY DEF Memory
<1>2. UNCHANGED tlb
  BY DEF Memory, maps
<1> DEFINE found == Lookup(data_cache, page, access)
<1>3. CASE found.frame = -1
  <2>1. HandleMmuError(page, found.exception)
    BY <1>1, <1>3 DEF Access
  <2> HIDE DEF found
  <2> QED
    BY <1>2, <2>1, MmuErrorMaps
<1>4. CASE found.frame # -1
  <2>1. /\ data_cache' = After(data_cache, page, access)
        /\ UNCHANGED <<cop0, inst_cache, context_written>>
    BY <1>1, <1>4 DEF Access, history
  <2> QED
    BY <1>2, <1>4, <2>1, LooksUp
<1> QED
  BY <1>3, <1>4

(* ERET changes the context and flushes the caches.                        *)
LEMMA EretMaps == Mappings /\ Eret => Mappings'
<1> SUFFICES ASSUME Mappings, Eret PROVE Mappings'
  OBVIOUS
<1>1. data_cache' = Flushed /\ inst_cache' = Flushed /\ UNCHANGED <<tlb, entryhi, random>>
  BY DEF Eret, maps
<1>2. TlbTyped'
  BY <1>1 DEF Mappings, TlbTyped
<1> QED
  BY <1>1, <1>2, FlushesBoth

(* The steps that have nothing to do with it.                              *)
LEMMA OtherMaps ==
  ASSUME Mappings, UNCHANGED <<tlb, entryhi, random, caches, context_written>>,
         status'.EXL = status.EXL, status'.ERL = status.ERL, status'.KSU = status.KSU
  PROVE  Mappings'
<1>1. TlbTyped'
  BY DEF Mappings, TlbTyped
<1>2. OperatingContext' = OperatingContext
  BY DEF OperatingContext
<1> QED
  BY <1>1, <1>2, KeepsContext

LEMMA EnableMaps == CoreInv /\ Mappings /\ EnableInterrupts => Mappings'
<1> SUFFICES ASSUME CoreInv, Mappings, EnableInterrupts PROVE Mappings'
  OBVIOUS
<1>1. status \in [ERL : BOOLEAN, EXL : BOOLEAN, IE : BOOLEAN, EIE : BOOLEAN,
                 KSU : Modes \cup {"Kernel"}]
  BY DEF CoreInv, TypeOK
<1>2. PICK enabled \in BOOLEAN :
        status' = IF InHandler \/ status.KSU = "Kernel" THEN [status EXCEPT !.EIE = enabled] ELSE status
  BY DEF EnableInterrupts
<1>3. status'.EXL = status.EXL /\ status'.ERL = status.ERL /\ status'.KSU = status.KSU
  BY <1>1, <1>2
<1>4. UNCHANGED <<tlb, entryhi, random, caches, context_written>>
  BY DEF EnableInterrupts, maps, history
<1> QED
  BY <1>3, <1>4, OtherMaps

LEMMA MapsStep == CoreInv /\ Mappings /\ [Next]_vars => Mappings'
<1> SUFFICES ASSUME CoreInv, Mappings, [Next]_vars PROVE Mappings'
  OBVIOUS
<1>1. CASE WriteTlb \/ ReadTlb \/ WriteContext \/ Eret \/ EnableInterrupts
  BY <1>1, WriteTlbMaps, ReadTlbMaps, WriteContextMaps, EretMaps, EnableMaps
<1>2. CASE Fetch \/ Memory
  BY <1>2, FetchMaps, MemoryMaps
<1>3. CASE Trap
  <2>1. HandleException("trap") /\ UNCHANGED <<tlb, entryhi, random>>
    BY <1>3 DEF Trap, maps
  <2> QED
    BY <2>1, ExceptionMaps
<1>4. CASE InterruptCheck
  <2>1. CASE HandleException("interrupt") /\ UNCHANGED branch
    <3>1. UNCHANGED <<tlb, entryhi, random>>
      BY <1>4 DEF InterruptCheck, maps
    <3> QED
      BY <2>1, <3>1, ExceptionMaps
  <2>2. CASE UNCHANGED <<control, status, epc, caches, history>>
    BY <1>4, <2>2, OtherMaps DEF InterruptCheck, maps, history
  <2> QED
    BY <1>4, <2>1, <2>2 DEF InterruptCheck
<1>5. CASE Plain \/ TakeBranch \/ SkipSlot \/ Advance \/ Irq \/ UNCHANGED vars
  <2>1. UNCHANGED <<cop0, tlb, caches, context_written>>
    BY <1>5 DEF Plain, TakeBranch, SkipSlot, Advance, Irq, vars, maps, history
  <2> QED
    BY <2>1, OtherMaps DEF cop0
<1> QED
  BY <1>1, <1>2, <1>3, <1>4, <1>5 DEF Next, Step, Run

(* Unless MTC0 or TLBR has changed the context since the last flush, no    *)
(* access goes where an older mapping or the context of another handler    *)
(* led (CEeCore.hpp:67-72); the caches keep to their size, and the search  *)
(* of the TLB finds every entry but the last (EeCoreTlb.cpp:10-41).        *)
THEOREM TranslationsInvariance == Spec => []TranslationsKnown
<1>1. Init => CoreInv /\ Mappings
  BY InitCore, InitMaps
<1>2. (CoreInv /\ Mappings) /\ [Next]_vars => (CoreInv /\ Mappings)'
  BY CoreStep, MapsStep
<1>3. CoreInv /\ Mappings => TranslationsKnown
  BY EnoughToKnow
<1> QED
  BY <1>1, <1>2, <1>3, PTL DEF Spec
=============================================================================
