-------------------------------- MODULE Intc --------------------------------
(***************************************************************************)
(* The interrupt controllers of the EE and the IOP                         *)
(* (liborbum/src/Controller/Ee/Intc, Controller/Iop/Intc): devices raise   *)
(* bits of STAT, the INTC's time step turns STAT and MASK (and CTRL on the *)
(* IOP) into line 2 of the core's Cause register, the core takes an        *)
(* interrupt and its handler acknowledges bits.  All of them run on        *)
(* threads of their own.  Updates of STAT hold its scope lock and are      *)
(* taken apart into reads and writes here; the INTC reads without a lock   *)
(* and sets the line some time later.                                      *)
(***************************************************************************)
EXTENDS Integers, Sequences, FiniteSets

CONSTANTS
  Sources,        \* bits of STAT and MASK
  Devices,        \* controllers that raise interrupts
  Raises,         \* the interrupts each may raise: for both processors, the bits
  MaxRaises,      \* bound: interrupts raised by each device
  MaxSections,    \* bound: times a program masks its interrupts
  Programs,       \* which processors run a program that uses interrupts
  Nobody          \* holds no lock

Processors == {"ee", "iop"}
Actors == Devices \cup Processors

ASSUME IntcAssumption ==
  /\ Devices \cap Processors = {} /\ Nobody \notin Actors
  /\ Raises \in [Devices -> SUBSET [Processors -> SUBSET Sources]]
  /\ MaxRaises \in Nat /\ MaxSections \in Nat /\ Programs \subseteq SUBSET Processors

VARIABLES
  stat, mask,     \* of both INTCs: sets of sources
  ctrl,           \* the IOP's CTRL
  lock,           \* who holds the scope lock of each STAT
  update,         \* what each thread is doing to STAT: bits that are left to raise
                  \* or to acknowledge, its place, and what it has read
  intc,           \* place in the INTC's time step, and what it has read
  line,           \* irq_lines[2] of Cause
  status,         \* IE (with EIE) and EXL of the EE, IEc, IEp and IEo of the IOP
  core,           \* what each core runs: "program", or a place of its handler
  raised, sections,
  idle            \* history: interrupts taken since one was pending or
                  \* the program changed MASK or CTRL

registers == <<stat, mask, ctrl>>
bounds == <<raised, sections>>
cores == <<status, core>>
vars == <<registers, lock, update, intc, line, cores, bounds, idle>>

NoUpdate == [bits |-> [p \in Processors |-> {}], at |-> "idle", read |-> {}]
Start(p) == [at |-> IF p = "iop" THEN "ctrl" ELSE "both", read |-> {}]

\* The programs have installed their handlers and enabled interrupts.
Init ==
  \E on \in Programs :
    /\ stat = [p \in Processors |-> {}] /\ ctrl = ("iop" \in on)
    /\ mask = [p \in Processors |-> IF p \in on THEN Sources ELSE {}]
    /\ lock = [p \in Processors |-> Nobody] /\ update = [a \in Actors |-> NoUpdate]
    /\ intc = [p \in Processors |-> Start(p)] /\ line = [p \in Processors |-> FALSE]
    /\ status = [ee |-> [IE |-> "ee" \in on, EXL |-> FALSE], iop |-> <<"iop" \in on, FALSE, FALSE>>]
    /\ core = [p \in Processors |-> "program"]
    /\ raised = [d \in Devices |-> 0] /\ sections = 0
    /\ idle = [p \in Processors |-> 0]

\* What an INTC should tell its core.
Pending(p) == stat[p] \cap mask[p] # {} /\ (p = "iop" => ctrl)
-----------------------------------------------------------------------------
(* A read-modify-write of STAT.  The CRTC changes both at once, and takes  *)
(* the EE's lock first.                                                    *)
Targets(a) == {p \in Processors : update[a].bits[p] # {}}
Held(a) == {p \in Processors : lock[p] = a}
First(S) == IF "ee" \in S THEN "ee" ELSE "iop"

Begin(a, bits) ==
  update' = [update EXCEPT ![a] = [bits |-> bits, at |-> "lock", read |-> {}]]

Raise(d) ==
  /\ update[d].at = "idle" /\ raised[d] < MaxRaises
  /\ \E bits \in Raises[d] : (\E p \in Processors : bits[p] # {}) /\ Begin(d, bits)
  /\ raised' = [raised EXCEPT ![d] = @ + 1]
  /\ UNCHANGED <<registers, lock, intc, line, cores, sections, idle>>

\* Mutant: nobody waits for the lock.
LockNever(a) ==
  /\ update[a].at = "lock" /\ update' = [update EXCEPT ![a].at = "read"]
  /\ UNCHANGED <<registers, lock, intc, line, cores, bounds, idle>>

Lock(a) ==
  LET p == First(Targets(a) \ Held(a))
  IN  /\ update[a].at = "lock" /\ lock[p] = Nobody
      /\ lock' = [lock EXCEPT ![p] = a]
      /\ update' = [update EXCEPT ![a].at = IF Targets(a) \subseteq Held(a) \cup {p}
                                            THEN "read" ELSE "lock"]
      /\ UNCHANGED <<registers, intc, line, cores, bounds, idle>>

Read(a) ==
  /\ update[a].at = "read" /\ Targets(a) # {}
  /\ update' = [update EXCEPT ![a].at = "write", ![a].read = stat[First(Targets(a))]]
  /\ UNCHANGED <<registers, lock, intc, line, cores, bounds, idle>>

\* Mutant: the IOP's write is not combined with the old value.
AcknowledgedPlain(p, old, value) == IF p = "ee" THEN old \ value ELSE value

\* STAT's byte_bus_write_uword; a program writes to it for it to forget the bits.
Acknowledged(p, old, value) == IF p = "ee" THEN old \ value ELSE old \cap value
ValueFor(p, bits) == IF p = "ee" THEN bits ELSE Sources \ bits

Write(a) ==
  LET p == First(Targets(a))
      bits == update[a].bits[p]
  IN  /\ update[a].at = "write"
      /\ stat' = [stat EXCEPT ![p] =
                    IF a \in Devices THEN update[a].read \cup bits
                    ELSE Acknowledged(p, update[a].read, ValueFor(p, bits))]
      /\ update' = [update EXCEPT ![a] = [bits |-> [@.bits EXCEPT ![p] = {}],
                                          at |-> "read", read |-> {}]]
      /\ UNCHANGED <<mask, ctrl, lock, intc, line, cores, bounds>>
      /\ idle' = [q \in Processors |-> IF Pending(q)' THEN 0 ELSE idle[q]]

Release(a) ==
  /\ update[a].at = "read" /\ Targets(a) = {}
  /\ lock' = [p \in Processors |-> IF lock[p] = a THEN Nobody ELSE lock[p]]
  /\ update' = [update EXCEPT ![a] = NoUpdate]
  /\ core' = [p \in Processors |-> IF p = a THEN "return" ELSE core[p]]
  /\ UNCHANGED <<registers, intc, line, status, bounds, idle>>

Update(a) == Lock(a) \/ Read(a) \/ Write(a) \/ Release(a)
-----------------------------------------------------------------------------
(* The INTC's time step.  The order of the reads of STAT and MASK, the two *)
(* operands of one &, is not specified.                                    *)
Goto(p, place, read) == /\ intc' = [intc EXCEPT ![p] = [at |-> place, read |-> read]]
                        /\ UNCHANGED <<registers, lock, update, line, cores, bounds, idle>>
Decide(p, both) == Goto(p, IF both # {} THEN "set" ELSE "clear", {})

ReadCtrl(p) == intc[p].at = "ctrl" /\ Goto(p, IF ctrl THEN "both" ELSE "clear", {})
ReadStat(p) == \/ intc[p].at = "both" /\ Goto(p, "mask", stat[p])
               \/ intc[p].at = "stat" /\ Decide(p, stat[p] \cap intc[p].read)
ReadMask(p) == \/ intc[p].at = "both" /\ Goto(p, "stat", mask[p])
               \/ intc[p].at = "mask" /\ Decide(p, mask[p] \cap intc[p].read)

UpdateLine(p) ==
  /\ intc[p].at \in {"set", "clear"}
  /\ line' = [line EXCEPT ![p] = intc[p].at = "set"]
  /\ intc' = [intc EXCEPT ![p] = Start(p)]
  /\ UNCHANGED <<registers, lock, update, cores, bounds, idle>>

IntcStep(p) == ReadCtrl(p) \/ ReadStat(p) \/ ReadMask(p) \/ UpdateLine(p)
-----------------------------------------------------------------------------
(* A core.  Its handler reads STAT and MASK, acknowledges some of the bits *)
(* that it finds, and returns.                                             *)
InterruptsMasked(p) ==
  IF p = "ee" THEN status.ee.EXL \/ ~status.ee.IE ELSE ~status.iop[1]
PushExceptionStack(s) == <<FALSE, s[1], s[2]>>

\* Mutant: the stack is shifted by two places.
PopTwice(s) == <<s[3], s[3], s[3]>>
PopExceptionStack(s) == <<s[2], s[3], s[3]>>

TakeInterrupt(p) ==
  /\ core[p] = "program" /\ line[p] /\ ~InterruptsMasked(p)
  /\ status' = IF p = "ee" THEN [status EXCEPT !.ee.EXL = TRUE]
               ELSE [status EXCEPT !.iop = PushExceptionStack(@)]
  /\ core' = [core EXCEPT ![p] = "handler"]
  /\ idle' = [idle EXCEPT ![p] = IF Pending(p) \/ @ = 3 THEN @ ELSE @ + 1]
  /\ UNCHANGED <<registers, lock, update, intc, line, bounds>>

Acknowledge(p) ==
  /\ core[p] = "handler" /\ stat[p] \cap mask[p] # {}
  /\ \E bits \in (SUBSET (stat[p] \cap mask[p])) \ {{}} :
       Begin(p, [q \in Processors |-> IF q = p THEN bits ELSE {}])
  /\ core' = [core EXCEPT ![p] = "acknowledge"]
  /\ UNCHANGED <<registers, lock, intc, line, status, bounds, idle>>

FindNothing(p) ==
  /\ core[p] = "handler" /\ stat[p] \cap mask[p] = {}
  /\ core' = [core EXCEPT ![p] = "return"]
  /\ UNCHANGED <<registers, lock, update, intc, line, status, bounds, idle>>

\* Mutant: the lines are left as they are.
ReturnUnflushed(p) ==
  /\ core[p] = "return"
  /\ status' = IF p = "ee" THEN [status EXCEPT !.ee.EXL = FALSE]
               ELSE [status EXCEPT !.iop = PopExceptionStack(@)]
  /\ core' = [core EXCEPT ![p] = "program"]
  /\ UNCHANGED <<registers, lock, update, intc, line, bounds, idle>>

\* ERET and RFE, which flush the interrupt lines.
Return(p) ==
  /\ core[p] = "return"
  /\ status' = IF p = "ee" THEN [status EXCEPT !.ee.EXL = FALSE]
               ELSE [status EXCEPT !.iop = PopExceptionStack(@)]
  /\ line' = [line EXCEPT ![p] = FALSE]
  /\ core' = [core EXCEPT ![p] = "program"]
  /\ UNCHANGED <<registers, lock, update, intc, bounds, idle>>

\* A program that uses interrupts changes MASK, or CTRL on the IOP, outside its handler.
\* MASK's byte_bus_write_uword: the EE's write reverses bits.
Masked(p, old, value) == IF p = "ee" THEN (old \ value) \cup (value \ old) ELSE value

WriteMask(p) ==
  /\ core[p] = "program" /\ ~InterruptsMasked(p)
  /\ mask' = [mask EXCEPT ![p] = Masked(p, @, IF p = "iop" /\ @ # {} THEN {} ELSE Sources)]
  /\ idle' = [idle EXCEPT ![p] = 0]
  /\ UNCHANGED <<stat, ctrl, lock, update, intc, line, cores, raised>>

\* CTRL's byte_bus_read_uword clears it, and the IOP's program writes it back.
WriteCtrl ==
  /\ core["iop"] = "program" /\ ~InterruptsMasked("iop")
  /\ ctrl' = ~ctrl
  /\ idle' = [idle EXCEPT !["iop"] = 0]
  /\ UNCHANGED <<stat, mask, lock, update, intc, line, cores, raised>>

\* A program masks its interrupts for a while.
Open(p) == \/ mask[p] = {} /\ WriteMask(p) /\ UNCHANGED sections
           \/ p = "iop" /\ ~ctrl /\ WriteCtrl /\ UNCHANGED sections
Close(p) == /\ sections < MaxSections /\ sections' = sections + 1
            /\ \/ mask[p] # {} /\ WriteMask(p)
               \/ p = "iop" /\ ctrl /\ WriteCtrl

Handler(p) == TakeInterrupt(p) \/ Acknowledge(p) \/ FindNothing(p) \/ Return(p)
-----------------------------------------------------------------------------
Next == \/ \E d \in Devices : Raise(d)
        \/ \E a \in Actors : Update(a)
        \/ \E p \in Processors : IntcStep(p) \/ Handler(p) \/ Open(p) \/ Close(p)

(* Every controller gets a Time event in each block, and a program that    *)
(* has masked its interrupts does so for a while only.                     *)
Fairness == /\ \A a \in Actors : WF_vars(Update(a))
            /\ \A p \in Processors : /\ WF_vars(IntcStep(p)) /\ WF_vars(Handler(p))
                                     /\ WF_vars(Open(p))
Spec == Init /\ [][Next]_vars /\ Fairness
-----------------------------------------------------------------------------
TypeOK ==
  /\ stat \in [Processors -> SUBSET Sources] /\ mask \in [Processors -> SUBSET Sources]
  /\ ctrl \in BOOLEAN /\ line \in [Processors -> BOOLEAN]
  /\ lock \in [Processors -> Actors \cup {Nobody}]
  /\ update \in [Actors -> [bits : [Processors -> SUBSET Sources],
                            at : {"idle", "lock", "read", "write"}, read : SUBSET Sources]]
  /\ intc \in [Processors -> [at : {"ctrl", "both", "stat", "mask", "set", "clear"},
                              read : SUBSET Sources]]
  /\ core \in [Processors -> {"program", "handler", "acknowledge", "return"}]

(* Whoever reads and writes a STAT holds its lock, and what was read is    *)
(* still there when it is written back.  Nobody waits for the EE's lock    *)
(* with the IOP's in hand, so that there is no circle.                     *)
Disciplined(a) ==
  /\ update[a].at = "idle" => Targets(a) = {} /\ Held(a) = {}
  /\ update[a].at = "lock" => ~(Targets(a) \subseteq Held(a)) /\ Held(a) \subseteq Targets(a)
  /\ update[a].at \in {"read", "write"} => Targets(a) \subseteq Held(a)
  /\ update[a].at = "write" => Targets(a) # {} /\ update[a].read = stat[First(Targets(a))]
  /\ update[a].at = "lock" /\ lock["iop"] = a => "ee" \notin Targets(a) \ Held(a)

(* A core updates its own INTC only, and only in its handler.              *)
CoreDisciplined(p) == /\ Targets(p) \subseteq {p}
                      /\ update[p].at # "idle" <=> core[p] = "acknowledge"

(* All of it, which every step preserves (EeIntcRegisters.cpp:3-12,        *)
(* IopIntcRegisters.cpp:13-24, CCrtc.cpp:76-98).                           *)
IntcInv == /\ TypeOK
           /\ \A a \in Actors : Disciplined(a)
           /\ \A p \in Processors : CoreDisciplined(p)

(* No bit of STAT goes but by its own core's acknowledgement of that bit,  *)
(* and none comes but by a device that raises it: an interrupt that is     *)
(* raised while the handler acknowledges another is not lost, and an       *)
(* acknowledged one does not come back (EeIntcRegisters.cpp:5,             *)
(* IopIntcRegisters.cpp:15).                                               *)
Writes(a) == update[a].at = "write" /\ update'[a] # update[a]
RaisedKept ==
  [][\A p \in Processors :
       /\ \A s \in stat[p] \ stat'[p] : Writes(p) /\ s \in update[p].bits[p]
       /\ \A s \in stat'[p] \ stat[p] :
            \E d \in Devices : Writes(d) /\ s \in update[d].bits[p]]_vars

(* The INTC decides on values that may be old, and the line stays as it is *)
(* until it does.  Still it misleads a core at most twice after each       *)
(* change, once by the old line and once by an old decision                *)
(* (CEeIntc.cpp:54-58, CIopIntc.cpp:56-66, the flush at ERET and RFE).     *)
MisledTwice == \A p \in Processors : idle[p] <= 2

(* Why: the INTC's step in progress may yet decide to set the line, or the *)
(* line may be set; each can mislead the program once, and neither comes   *)
(* about anew unless something is pending or the program masks.            *)
MayDecide(p) ==
  \/ intc[p].at = "set"
  \/ intc[p].at \in {"both", "stat", "mask"} /\ p = "iop" /\ ~ctrl
  \/ intc[p].at = "stat" /\ (intc[p].read # mask[p] \/ intc[p].read \cap stat[p] # {})
  \/ intc[p].at = "mask" /\ intc[p].read \cap mask[p] # {}
Misled(p) ==
  /\ idle[p] \in 0..2
  /\ Pending(p) => idle[p] = 0
  /\ line[p] /\ core[p] = "program" => idle[p] < 2
  /\ MayDecide(p) => idle[p] < 2
  /\ line[p] /\ core[p] = "program" /\ MayDecide(p) => idle[p] = 0
MisledInv == idle \in [Processors -> 0..2] /\ \A p \in Processors : Misled(p)

(* Every interrupt that is raised reaches the handler of a program that    *)
(* uses interrupts, which acknowledges it.  This needs the INTC to set the *)
(* line again after each flush (CIopCoreInterpreter_OTHERS.cpp:84-99).     *)
Uses(p) == IF p = "ee" THEN status.ee.IE ELSE status.iop[1] \/ status.iop[2]
RaisesAcknowledged ==
  \A p \in Processors, s \in Sources : s \in stat[p] /\ Uses(p) ~> s \notin stat[p]
=============================================================================
