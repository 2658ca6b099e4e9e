------------------------------- MODULE Timers -------------------------------
(***************************************************************************)
(* The timers of the EE and the IOP                                        *)
(* (liborbum/src/Controller/{Ee,Iop}/Timers,                               *)
(* Resources/{Ee,Iop}/Timers).  In a block of Core::run a controller gets  *)
(* one Time event and an HBlank event for each HBlank of the CRTC, and the *)
(* tasks that handle them run at the same time.  Each ticks all the units, *)
(* one after the other, under the scope lock of the unit's MODE.  The      *)
(* cores' writes to MODE take the lock; those to COUNT and COMPARE do not. *)
(***************************************************************************)
EXTENDS Integers, Sequences, FiniteSets, Functions

CONSTANTS
  Units,         \* the units of each controller, [{"ee", "iop"} -> Seq(unit)]
  Wide,          \* the IOP's units 3 to 5, which count to WideMax
  NarrowMax,     \* VALUE_UHWORD_MAX
  WideMax,       \* VALUE_UWORD_MAX
  Tasks,         \* the events of a block: records of controller and event
  Modes,         \* the values that the programs write to MODE, for each unit
  Values,        \* the values that they write to COUNT and COMPARE
  MaxTicks,      \* bound: ticks that a Time event stands for
  MaxBlocks,     \* bound: blocks
  MaxWrites,     \* bound: writes of the programs
  Nobody         \* holds no lock

Controllers == {"ee", "iop"}
AllUnits == UNION {Range(Units[c]) : c \in Controllers}
Controller(u) == CHOOSE c \in Controllers : u \in Range(Units[c])
MaxOf(u) == IF u \in Wide THEN WideMax ELSE NarrowMax

IopMode == [SYNC_ENABLE : BOOLEAN, RESET_MODE : BOOLEAN, IRQ_ON_TARGET : BOOLEAN,
            IRQ_ON_OF : BOOLEAN, IRQ_REPEAT : BOOLEAN, IRQ_TOGGLE : BOOLEAN,
            EVENT_SRC : {"Time", "HBlank"}, PRESCALE : BOOLEAN, IRQ_REQUEST : BOOLEAN,
            REACH_TARGET : BOOLEAN, REACH_OF : BOOLEAN]
EeMode == [CLKS : 0..3, GATE : BOOLEAN, GATS : BOOLEAN, ZRET : BOOLEAN, CUE : BOOLEAN,
           CMPE : BOOLEAN, OVFE : BOOLEAN, EQUF : BOOLEAN, OVFF : BOOLEAN]

ASSUME TimersAssumption ==
  /\ Units \in [Controllers -> Seq(AllUnits)]
  /\ Range(Units["ee"]) \cap Range(Units["iop"]) = {} /\ Wide \subseteq Range(Units["iop"])
  /\ NarrowMax \in Nat \ {0, 1} /\ WideMax \in Nat \ {0, 1} /\ Values \subseteq Nat
  /\ \A t \in Tasks : /\ t.controller \in Controllers /\ Units[t.controller] # <<>>
                      /\ t.event \in {"Time", "HBlank"}
  /\ \A u \in Range(Units["ee"]) : Modes[u] \subseteq EeMode
  /\ \A u \in Range(Units["iop"]) : Modes[u] \subseteq IopMode
  /\ {MaxTicks, MaxBlocks, MaxWrites} \subseteq Nat /\ Nobody \notin Tasks

VARIABLES
  mode, latch,    \* MODE and its write_latch
  count, compare, \* COUNT and COMPARE
  prescale,       \* prescale_target and prescale_count of COUNT
  overflowed,     \* is_overflowed of COUNT
  lock,           \* who holds the scope lock of MODE
  task,           \* what each task does: ticks left, the unit, its place, what it has read
  stat,           \* the timers' bits of both INTCs' STAT
  blocks, writes,
  elapsed,        \* history: ticks of its source since the unit was restarted
  raised,         \* history: interrupts since then
  steady          \* history: COUNT and COMPARE are not written since then

unit == <<mode, latch, count, compare, prescale, overflowed>>
history == <<elapsed, raised, steady>>
vars == <<unit, lock, task, stat, blocks, writes, history>>

Idle == [left |-> 0, unit |-> 1, at |-> "idle", read |-> 0]
ZeroMode(c) ==
  IF c = "ee"
  THEN [CLKS |-> 0, GATE |-> FALSE, GATS |-> FALSE, ZRET |-> FALSE, CUE |-> FALSE,
        CMPE |-> FALSE, OVFE |-> FALSE, EQUF |-> FALSE, OVFF |-> FALSE]
  ELSE [SYNC_ENABLE |-> FALSE, RESET_MODE |-> FALSE, IRQ_ON_TARGET |-> FALSE,
        IRQ_ON_OF |-> FALSE, IRQ_REPEAT |-> FALSE, IRQ_TOGGLE |-> FALSE,
        EVENT_SRC |-> "Time", PRESCALE |-> FALSE, IRQ_REQUEST |-> FALSE,
        REACH_TARGET |-> FALSE, REACH_OF |-> FALSE]

\* The programs may have set COMPARE before.
Init ==
  /\ mode = [u \in AllUnits |-> ZeroMode(Controller(u))] /\ latch = [u \in AllUnits |-> FALSE]
  /\ count = [u \in AllUnits |-> 0] /\ compare \in [AllUnits -> Values]
  /\ prescale = [u \in AllUnits |-> [target |-> 1, count |-> 0]]
  /\ overflowed = [u \in AllUnits |-> FALSE]
  /\ lock = [u \in AllUnits |-> Nobody] /\ task = [t \in Tasks |-> Idle]
  /\ stat = {} /\ blocks = 0 /\ writes = 0
  /\ elapsed = [u \in AllUnits |-> 0] /\ raised = [u \in AllUnits |-> 0]
  /\ steady = [u \in AllUnits |-> TRUE]

\* A block: an HBlank event stands for one tick, and there may be fewer of them.
Block ==
  /\ blocks < MaxBlocks /\ blocks' = blocks + 1
  /\ \A t \in Tasks : task[t].at = "idle"
  /\ \E ticks \in [Tasks -> 0..MaxTicks] :
       /\ \A t \in Tasks : t.event = "HBlank" => ticks[t] <= 1
       /\ task' = [t \in Tasks |->
                     IF ticks[t] = 0 THEN Idle ELSE [Idle EXCEPT !.left = ticks[t], !.at = "take"]]
  /\ UNCHANGED <<unit, lock, stat, writes, history>>
-----------------------------------------------------------------------------
(* MODE: get_properties, is_enabled and what throws.                       *)
Prescale(u) == IF Controller(u) = "iop" THEN 1
               ELSE CASE mode[u].CLKS = 1 -> 16 [] mode[u].CLKS = 2 -> 256 [] OTHER -> 1
Source(u) == IF Controller(u) = "iop" THEN mode[u].EVENT_SRC
             ELSE IF mode[u].CLKS = 3 THEN "HBlank" ELSE "Time"
Implemented(u) == Controller(u) = "iop" =>
  ~mode[u].PRESCALE /\ (u \in Wide => mode[u].EVENT_SRC = "Time")
Enabled(u) == IF Controller(u) = "iop" THEN mode[u].IRQ_ON_OF \/ mode[u].IRQ_ON_TARGET
              ELSE mode[u].CUE
Gated(u) == IF Controller(u) = "iop" THEN mode[u].SYNC_ENABLE
            ELSE mode[u].GATE /\ ~(mode[u].CLKS = 3 /\ ~mode[u].GATS)

Current(t) == Units[t.controller][task[t].unit]
At(t, place) == task[t].at = place
Goto(t, place) == task' = [task EXCEPT ![t].at = place]

\* The end of tick_timer's loop over the units, and of handle_event's over the ticks.
Onward(t) ==
  IF task[t].unit < Len(Units[t.controller])
  THEN [left |-> task[t].left, unit |-> task[t].unit + 1, at |-> "take", read |-> 0]
  ELSE IF task[t].left > 1 THEN [left |-> task[t].left - 1, unit |-> 1, at |-> "take", read |-> 0]
  ELSE Idle

\* Mutant: the lock is released at the end of a round only.
AdvanceKeepsLock(t) ==
  /\ lock' = IF task[t].unit < Len(Units[t.controller]) THEN lock
             ELSE [lock EXCEPT ![Current(t)] = Nobody]
  /\ task' = [task EXCEPT ![t] = Onward(t)]

\* The lock of one round ends with it.
Advance(t) ==
  /\ lock' = [lock EXCEPT ![Current(t)] = Nobody]
  /\ task' = [task EXCEPT ![t] = Onward(t)]

\* The exception ends the task, and releases the lock.
Throw(t) == /\ lock' = [lock EXCEPT ![Current(t)] = Nobody]
            /\ task' = [task EXCEPT ![t] = [Idle EXCEPT !.at = "failed"]]

\* reset_prescale, when MODE has been written.
Restart(u) ==
  IF latch[u]
  THEN /\ count' = [count EXCEPT ![u] = 0] /\ latch' = [latch EXCEPT ![u] = FALSE]
       /\ prescale' = [prescale EXCEPT ![u] = [target |-> Prescale(u), count |-> 0]]
       /\ raised' = [raised EXCEPT ![u] = 0] /\ steady' = [steady EXCEPT ![u] = TRUE]
  ELSE UNCHANGED <<count, latch, prescale, raised, steady>>

Counts(t) == Enabled(Current(t)) /\ Source(Current(t)) = t.event

Tick(t) ==
  LET u == Current(t)
  IN  /\ elapsed' = [elapsed EXCEPT ![u] = IF Counts(t) /\ ~Gated(u)
                                           THEN IF latch[u] THEN 1 ELSE @ + 1
                                           ELSE IF latch[u] THEN 0 ELSE @]
      /\ Restart(u)
      /\ IF ~Counts(t) THEN Advance(t)
         ELSE IF Gated(u) THEN Throw(t)
         ELSE Goto(t, "count") /\ lock' = [lock EXCEPT ![u] = t]

\* Mutant: nobody waits for MODE's lock.
TakeNever(t) ==
  /\ At(t, "take")
  /\ IF Implemented(Current(t)) THEN Tick(t)
     ELSE Throw(t) /\ UNCHANGED <<latch, count, prescale, history>>
  /\ UNCHANGED <<mode, compare, overflowed, stat, blocks, writes>>

Take(t) ==
  /\ At(t, "take") /\ lock[Current(t)] = Nobody
  /\ IF Implemented(Current(t)) THEN Tick(t)
     ELSE Throw(t) /\ UNCHANGED <<latch, count, prescale, history>>
  /\ UNCHANGED <<mode, compare, overflowed, stat, blocks, writes>>

\* increment(1): COUNT is read, if the prescale is reached ...
Count(t) ==
  LET u == Current(t)
      reached == prescale[u].count + 1 >= prescale[u].target
  IN  /\ At(t, "count")
      /\ prescale' = [prescale EXCEPT ![u].count = IF reached THEN @ + 1 - prescale[u].target
                                                   ELSE @ + 1]
      /\ task' = [task EXCEPT ![t] = [@ EXCEPT !.at = IF reached THEN "store" ELSE "check",
                                               !.read = count[u]]]
      /\ UNCHANGED <<mode, latch, count, compare, overflowed, lock, stat, blocks, writes, history>>

\* Mutant: COUNT wraps as it reaches its maximum.
WrapEarly(u, value) == IF value >= MaxOf(u) THEN value % MaxOf(u) ELSE value

\* ... and written; after its maximum it is not zero but one.
Wrap(u, value) == IF value > MaxOf(u) THEN value % MaxOf(u) ELSE value

Store(t) ==
  LET u == Current(t)
  IN  /\ At(t, "store")
      /\ count' = [count EXCEPT ![u] = Wrap(u, task[t].read + 1)]
      /\ overflowed' = [overflowed EXCEPT ![u] = @ \/ task[t].read + 1 > MaxOf(u)]
      /\ Goto(t, "check")
      /\ UNCHANGED <<mode, latch, compare, prescale, lock, stat, blocks, writes, history>>
-----------------------------------------------------------------------------
(* handle_timer_overflow, handle_timer_target and handle_timer_interrupt   *)
(* of the IOP.  COUNT and COMPARE are each read once.  No unit of the EE   *)
(* comes here: Stored, below, says why none is ever enabled.               *)

Flagged(u, overflow, target, answered) ==
  [mode[u] EXCEPT !.REACH_OF = @ \/ overflow, !.REACH_TARGET = @ \/ target,
                  !.IRQ_REQUEST = @ /\ ~answered]

Check(t) ==
  LET u == Current(t)
      overflow == overflowed[u]
      value == IF overflow /\ ~mode[u].RESET_MODE THEN 0 ELSE count[u]
      target == value = compare[u]
      interrupt == \/ mode[u].IRQ_ON_TARGET /\ target
                   \/ mode[u].IRQ_ON_OF /\ overflow
      throws == interrupt /\ (~mode[u].IRQ_REPEAT \/ mode[u].IRQ_TOGGLE)
  IN  /\ At(t, "check")
      /\ overflowed' = [overflowed EXCEPT ![u] = FALSE]
      /\ count' = [count EXCEPT ![u] = IF target /\ mode[u].RESET_MODE THEN 0 ELSE value]
      /\ mode' = [mode EXCEPT ![u] = Flagged(u, overflow, target, interrupt /\ ~throws)]
      /\ IF throws THEN Throw(t)
         ELSE IF interrupt THEN Goto(t, "raise") /\ UNCHANGED lock
         ELSE Advance(t)
      /\ UNCHANGED <<latch, compare, prescale, stat, blocks, writes, history>>

\* Under the scope lock of STAT, which its holders keep for a moment only.
RaiseIrq(t) ==
  /\ At(t, "raise")
  /\ stat' = stat \cup {Current(t)} /\ raised' = [raised EXCEPT ![Current(t)] = @ + 1]
  /\ Advance(t)
  /\ UNCHANGED <<unit, blocks, writes, elapsed, steady>>

TaskStep(t) == Take(t) \/ Count(t) \/ Store(t) \/ Check(t) \/ RaiseIrq(t)
-----------------------------------------------------------------------------
(* The programs.  They write MODE to start a unit anew ...                 *)

\* What MODE holds after value is written to it; the EE's keeps all but EQUF and OVFF.
Stored(u, value) ==
  IF Controller(u) = "iop" THEN value
  ELSE [mode[u] EXCEPT !.EQUF = @ /\ ~value.EQUF, !.OVFF = @ /\ ~value.OVFF]

WriteMode(u) ==
  /\ writes < MaxWrites /\ writes' = writes + 1 /\ lock[u] = Nobody
  /\ \E value \in Modes[u] : mode' = [mode EXCEPT ![u] = Stored(u, value)]
  /\ latch' = [latch EXCEPT ![u] = TRUE]
  /\ UNCHANGED <<count, compare, prescale, overflowed, lock, task, stat, blocks, history>>

\* ... and COUNT and COMPARE whenever they like.
WriteCount(u) ==
  /\ writes < MaxWrites /\ writes' = writes + 1
  /\ \E value \in Values : count' = [count EXCEPT ![u] = value]
  /\ steady' = [steady EXCEPT ![u] = FALSE]
  /\ UNCHANGED <<mode, latch, compare, prescale, overflowed, lock, task, stat, blocks, elapsed, raised>>

\* COMPARE is written before the unit is restarted: steady once MODE is written.
WriteCompare(u) ==
  /\ writes < MaxWrites /\ writes' = writes + 1
  /\ \E value \in Values : compare' = [compare EXCEPT ![u] = value]
  /\ steady' = [steady EXCEPT ![u] = FALSE]
  /\ UNCHANGED <<mode, latch, count, prescale, overflowed, lock, task, stat, blocks, elapsed, raised>>

Acknowledge(u) ==
  /\ u \in stat /\ stat' = stat \ {u}
  /\ UNCHANGED <<unit, lock, task, blocks, writes, history>>

Program(u) == WriteMode(u) \/ WriteCount(u) \/ WriteCompare(u) \/ Acknowledge(u)
-----------------------------------------------------------------------------
Next == \/ Block
        \/ \E t \in Tasks : TaskStep(t)
        \/ \E u \in AllUnits : Program(u)

(* A worker takes every task and runs it to its end.                       *)
Fairness == \A t \in Tasks : WF_vars(TaskStep(t))
Spec == Init /\ [][Next]_vars /\ Fairness
-----------------------------------------------------------------------------
TypeOK ==
  /\ mode \in [AllUnits -> EeMode \cup IopMode]
  /\ \A u \in AllUnits : mode[u] \in IF Controller(u) = "ee" THEN EeMode ELSE IopMode
  /\ latch \in [AllUnits -> BOOLEAN] /\ overflowed \in [AllUnits -> BOOLEAN]
  /\ count \in [AllUnits -> Nat] /\ compare \in [AllUnits -> Nat]
  /\ prescale \in [AllUnits -> [target : {1, 16, 256}, count : 0..255]]
  /\ lock \in [AllUnits -> Tasks \cup {Nobody}] /\ stat \subseteq AllUnits
  /\ task \in [Tasks -> [left : 0..MaxTicks, unit : Nat \ {0}, read : Nat,
        at : {"idle", "take", "count", "store", "check", "raise", "failed"}]]
  /\ \A t \in Tasks : task[t].unit <= Len(Units[t.controller])
  /\ elapsed \in [AllUnits -> Nat] /\ raised \in [AllUnits -> Nat]
  /\ steady \in [AllUnits -> BOOLEAN]

(* A task that is at a unit holds its lock and no other, and what it has   *)
(* read of COUNT is still there unless a program wrote to it               *)
(* (CIopTimers.cpp:59, CEeTimers.cpp:60).  The prescaler stays below its   *)
(* target.  No unit of the EE is ever enabled, so that no task counts one  *)
(* (EeTimersUnitRegisters.cpp:69).                                         *)
Inside(t) == task[t].at \in {"count", "store", "check", "raise"}
Exclusive(t) ==
  /\ \A u \in AllUnits : lock[u] = t <=> Inside(t) /\ u = Current(t)
  /\ Inside(t) => t.controller = "iop"
  /\ At(t, "store") /\ steady[Current(t)] => task[t].read = count[Current(t)]
TimersInv ==
  /\ TypeOK
  /\ \A u \in AllUnits : prescale[u].count < prescale[u].target
  /\ \A u \in Range(Units["ee"]) : ~mode[u].CUE
  /\ \A t \in Tasks : Exclusive(t)

(* What a timer that counts from zero to its period shows after n ticks,   *)
(* and how many interrupts it has raised.  A counter that does not restart *)
(* at its target overflows to zero; one that does, and whose target is out *)
(* of its reach, overflows to one (IopTimersUnitRegisters.cpp:52-56).      *)
Restarts(u) == mode[u].RESET_MODE /\ compare[u] \in 1..MaxOf(u)
ShowsAfter(u, n) ==
  IF Restarts(u) THEN n % compare[u]
  ELSE IF ~mode[u].RESET_MODE THEN n % (MaxOf(u) + 1)
  ELSE IF n = 0 THEN 0 ELSE ((n - 1) % MaxOf(u)) + 1
Overflows(u, k) == /\ ~Restarts(u) /\ k > MaxOf(u)
                   /\ IF mode[u].RESET_MODE THEN (k - 1) % MaxOf(u) = 0 ELSE k % (MaxOf(u) + 1) = 0
Hits(u, k) == IF Restarts(u) THEN k % compare[u] = 0 ELSE ShowsAfter(u, k) = compare[u]
Due(u, n) == Cardinality({k \in 1..n : \/ mode[u].IRQ_ON_TARGET /\ Hits(u, k)
                                       \/ mode[u].IRQ_ON_OF /\ Overflows(u, k)})

(* However its Time and HBlank tasks, those of other units and the writes  *)
(* to MODE fall, a unit that nobody is ticking shows one count for each    *)
(* event of its source since it was restarted, and has raised one          *)
(* interrupt for each time it came around, while no unit throws            *)
(* (CIopTimers.cpp:52-178).                                                *)
CountsEachTick ==
  \A u \in Range(Units["iop"]) :
    lock[u] = Nobody /\ ~latch[u] /\ steady[u] /\ (\A t \in Tasks : ~At(t, "failed")) =>
      count[u] = ShowsAfter(u, elapsed[u]) /\ raised[u] = Due(u, elapsed[u])

(* No task keeps a unit's lock when it ends or throws, so the events of a  *)
(* block are handled to the last tick (CIopTimers.cpp:73, 79).             *)
EventsHandled == \A t \in Tasks : task[t].left > 0 ~> task[t].at \in {"idle", "failed"}

(* EeTimersUnitRegisters.hpp:71: MODE, "when written to, caches the timer  *)
(* event source".  A unit that a program sets to the HBlank follows it.    *)
EeSourceCached ==
  [][\A u \in Range(Units["ee"]) : WriteMode(u) /\ (\A value \in Modes[u] : value.CLKS = 3)
       => mode'[u].CLKS = 3]_vars
=============================================================================
