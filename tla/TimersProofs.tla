---------------------------- MODULE TimersProofs ----------------------------
(***************************************************************************)
(* Proofs about Timers, whatever the units, the tasks and the programs     *)
(* are: the lock of MODE gives a task the unit that it ticks, and so no    *)
(* tick of it is lost or counted twice.                                    *)
(***************************************************************************)
EXTENDS Timers, FiniteSetTheorems, TLAPS

(* A task is always at a unit of its controller.                           *)
LEMMA CurrentUnit ==
  ASSUME TypeOK, NEW t \in Tasks
  PROVE  Current(t) \in Range(Units[t.controller]) /\ Current(t) \in AllUnits
<1>1. t.controller \in Controllers /\ Units[t.controller] \in Seq(AllUnits)
  BY TimersAssumption
<1>2. task[t].unit \in DOMAIN Units[t.controller]
  BY <1>1 DEF TypeOK
<1>3. Current(t) \in Range(Units[t.controller])
  BY <1>2 DEF Current, Range
<1> QED
  BY <1>1, <1>3 DEF AllUnits

(* The controller of a unit that only the IOP has.                         *)
LEMMA UnitOf ==
  ASSUME NEW u \in AllUnits
  PROVE  /\ Controller(u) \in Controllers /\ u \in Range(Units[Controller(u)])
         /\ u \in Range(Units["ee"]) => Controller(u) = "ee"
         /\ u \in Range(Units["iop"]) => Controller(u) = "iop"
<1>1. \E c \in Controllers : u \in Range(Units[c])
  BY DEF AllUnits
<1>2. Controller(u) \in Controllers /\ u \in Range(Units[Controller(u)])
  BY <1>1 DEF Controller
<1> QED
  BY <1>2, TimersAssumption DEF Controllers

(* A task that is not concerned: nobody gives it a lock or takes one from  *)
(* it, and who changes the COUNT that it has read says so.                 *)
LEMMA Bystander ==
  ASSUME TypeOK, NEW b \in Tasks, Exclusive(b), task'[b] = task[b],
         \A u \in AllUnits : lock'[u] = b <=> lock[u] = b,
         LET u == Current(b)
         IN  Inside(b) /\ steady'[u] => steady[u] /\ count'[u] = count[u]
  PROVE  Exclusive(b)'
<1>1. Current(b)' = Current(b) /\ (Inside(b)' <=> Inside(b)) /\ (At(b, "store")' <=> At(b, "store"))
  BY DEF Current, Inside, At
<1>2. At(b, "store") => Inside(b)
  BY DEF At, Inside
<1> QED
  BY <1>1, <1>2 DEF Exclusive

(* What MODE holds after the reset.                                        *)
LEMMA ZeroModeType ==
  /\ ZeroMode("ee") \in EeMode /\ ~ZeroMode("ee").CUE
  /\ \A c : c # "ee" => ZeroMode(c) \in IopMode
  BY DEF ZeroMode, EeMode, IopMode

LEMMA InitInv == Init => TimersInv
<1> SUFFICES ASSUME Init PROVE TimersInv
  OBVIOUS
<1>1. ASSUME NEW u \in AllUnits
      PROVE  mode[u] \in IF Controller(u) = "ee" THEN EeMode ELSE IopMode
  <2>1. mode[u] = ZeroMode(Controller(u))
    BY DEF Init
  <2> QED
    BY <2>1, ZeroModeType
<1>2. \A t \in Tasks : Len(Units[t.controller]) >= 1
  BY TimersAssumption
<1>3. TypeOK
  <2>1. mode \in [AllUnits -> EeMode \cup IopMode]
    BY ZeroModeType DEF Init
  <2>2. task \in [Tasks -> [left : 0..MaxTicks, unit : Nat \ {0}, read : Nat,
                  at : {"idle", "take", "count", "store", "check", "raise", "failed"}]]
    BY TimersAssumption DEF Init, Idle
  <2>3. \A t \in Tasks : task[t].unit <= Len(Units[t.controller])
    BY <1>2 DEF Init, Idle
  <2>4. compare \in [AllUnits -> Nat]
    BY TimersAssumption DEF Init
  <2> QED
    BY <1>1, <2>1, <2>2, <2>3, <2>4 DEF Init, TypeOK
<1>4. \A u \in AllUnits : prescale[u].count < prescale[u].target
  BY DEF Init
<1>5. \A u \in Range(Units["ee"]) : ~mode[u].CUE
  BY UnitOf, ZeroModeType DEF Init, AllUnits, Controllers
<1>6. \A t \in Tasks : Exclusive(t)
  BY TimersAssumption DEF Init, Exclusive, Inside, At, Idle
<1> QED
  BY <1>3, <1>4, <1>5, <1>6 DEF TimersInv
-----------------------------------------------------------------------------
(* What TypeOK says of the tasks.                                          *)
Places == {"idle", "take", "count", "store", "check", "raise", "failed"}
TaskRecords == [left : 0..MaxTicks, unit : Nat \ {0}, read : Nat, at : Places]
TasksTyped ==
  /\ task \in [Tasks -> TaskRecords]
  /\ \A t \in Tasks : task[t].unit <= Len(Units[t.controller])
LocksTyped == lock \in [AllUnits -> Tasks \cup {Nobody}]

(* Nobody else notices that a task takes or releases the lock of its unit. *)
Apart(t) == \A b \in Tasks \ {t} :
  task'[b] = task[b] /\ \A u \in AllUnits : lock'[u] = b <=> lock[u] = b

(* The changes of a task's record.                                         *)
Put(t, place, value) == [task[t] EXCEPT !.at = place, !.read = value]

LEMMA RecordAt ==
  ASSUME NEW t \in Tasks, TasksTyped, NEW place \in Places, NEW value \in Nat
  PROVE  /\ Put(t, place, value) \in TaskRecords /\ Put(t, place, value).unit = task[t].unit
         /\ Put(t, place, value).at = place /\ Put(t, place, value).read = value
<1>1. task[t] \in TaskRecords
  BY DEF TasksTyped
<1> QED
  BY <1>1 DEF TaskRecords, Put

LEMMA Records ==
  ASSUME NEW t \in Tasks, TasksTyped
  PROVE  /\ Onward(t) \in TaskRecords /\ Onward(t).unit <= Len(Units[t.controller])
         /\ Onward(t).at \in {"idle", "take"}
         /\ [Idle EXCEPT !.at = "failed"] \in TaskRecords
         /\ [Idle EXCEPT !.at = "failed"].unit = 1 /\ [Idle EXCEPT !.at = "failed"].at = "failed"
<1>1. MaxTicks \in Nat
  BY TimersAssumption
<1>2. task[t] \in TaskRecords /\ Len(Units[t.controller]) \in Nat \ {0}
  BY TimersAssumption DEF TasksTyped
<1>3. /\ Onward(t) \in TaskRecords /\ Onward(t).unit <= Len(Units[t.controller])
      /\ Onward(t).at \in {"idle", "take"}
  BY <1>1, <1>2 DEF TaskRecords, Places, Onward, Idle
<1>4. /\ [Idle EXCEPT !.at = "failed"] \in TaskRecords
      /\ [Idle EXCEPT !.at = "failed"].unit = 1 /\ [Idle EXCEPT !.at = "failed"].at = "failed"
  BY <1>1 DEF TaskRecords, Places, Idle
<1> QED
  BY <1>3, <1>4

(* One task has changed, and is still what it should be.                   *)
LEMMA OneTask ==
  ASSUME TasksTyped, NEW t \in Tasks, NEW new, task' = [task EXCEPT ![t] = new],
         new \in TaskRecords,
         new.unit <= Len(Units[t.controller])
  PROVE  TasksTyped' /\ task'[t] = new /\ \A b \in Tasks \ {t} : task'[b] = task[b]
<1>1. task'[t] = new /\ \A b \in Tasks \ {t} : task'[b] = task[b]
  BY DEF TasksTyped
<1>2. task' \in [Tasks -> TaskRecords]
  BY DEF TasksTyped
<1>3. \A b \in Tasks : task'[b].unit <= Len(Units[b.controller])
  BY <1>1 DEF TasksTyped
<1> QED
  BY <1>1, <1>2, <1>3 DEF TasksTyped

(* A task that goes on, or throws, leaves its unit's lock.                 *)
LEMMA Leaving ==
  ASSUME TimersInv, NEW t \in Tasks, Advance(t) \/ Throw(t), lock[Current(t)] \in {t, Nobody}
  PROVE  TasksTyped' /\ LocksTyped' /\ Apart(t) /\ Exclusive(t)'
<1> DEFINE u == Current(t)
<1> USE DEF TimersInv
<1>1. u \in AllUnits /\ t \notin {Nobody} /\ Nobody \notin Tasks
  BY CurrentUnit, TimersAssumption
<1>2. lock' = [lock EXCEPT ![u] = Nobody]
  BY DEF Advance, Throw
<1>3. Len(Units[t.controller]) \in Nat \ {0} /\ \A b \in Tasks : Len(Units[b.controller]) \in Nat \ {0}
  BY TimersAssumption
<1>4. TasksTyped /\ task[t] \in TaskRecords
  BY DEF TypeOK, Places, TasksTyped, TaskRecords
<1>5. /\ TasksTyped' /\ task'[t].at \in {"idle", "take", "failed"}
      /\ \A b \in Tasks \ {t} : task'[b] = task[b]
  <2>1. CASE Advance(t)
    <3>1. task' = [task EXCEPT ![t] = Onward(t)]
      BY <2>1 DEF Advance
    <3>2. /\ Onward(t) \in TaskRecords /\ Onward(t).unit <= Len(Units[t.controller])
          /\ Onward(t).at \in {"idle", "take"}
      BY <1>4, Records
    <3> HIDE DEF TimersInv
    <3> QED
      BY <3>1, <3>2, <1>4, OneTask
  <2>2. CASE Throw(t)
    <3>1. task' = [task EXCEPT ![t] = [Idle EXCEPT !.at = "failed"]]
      BY <2>2 DEF Throw
    <3>2. /\ [Idle EXCEPT !.at = "failed"] \in TaskRecords
          /\ [Idle EXCEPT !.at = "failed"].unit = 1 /\ [Idle EXCEPT !.at = "failed"].at = "failed"
      BY <1>4, Records
    <3>3. 1 <= Len(Units[t.controller])
      BY <1>3
    <3> HIDE DEF TimersInv
    <3> QED
      BY <3>1, <3>2, <3>3, <1>4, OneTask
  <2> QED
    BY <2>1, <2>2
<1>6. LocksTyped'
  BY <1>2 DEF TypeOK, LocksTyped
<1>7. Apart(t)
  BY <1>1, <1>2, <1>5 DEF TypeOK, Apart
<1>8. Exclusive(t)'
  <2>1. ~Inside(t)' /\ ~At(t, "store")'
    BY <1>5 DEF Inside, At
  <2>2. \A v \in AllUnits : lock'[v] # t
    BY <1>1, <1>2 DEF TypeOK, Exclusive
  <2> QED
    BY <2>1, <2>2 DEF Exclusive
<1> QED
  BY <1>5, <1>6, <1>7, <1>8

(* A task that holds its unit's lock, or takes it, goes on with it.        *)
LEMMA Staying ==
  ASSUME TypeOK, NEW t \in Tasks, \A b \in Tasks : Exclusive(b),
         NEW place \in {"count", "store", "check", "raise"}, NEW value \in Nat,
         lock[Current(t)] \in {t, Nobody}, lock' = [lock EXCEPT ![Current(t)] = t],
         t.controller = "iop",
         task' = [task EXCEPT ![t] = Put(t, place, value)],
         place = "store" /\ steady'[Current(t)] => value = count'[Current(t)]
  PROVE  TasksTyped' /\ LocksTyped' /\ Apart(t) /\ Exclusive(t)'
<1> DEFINE u == Current(t)
           new == Put(t, place, value)
<1>1. u \in AllUnits /\ Nobody \notin Tasks /\ lock \in [AllUnits -> Tasks \cup {Nobody}]
  BY CurrentUnit, TimersAssumption DEF TypeOK
<1>2. TasksTyped /\ place \in Places /\ task[t].unit <= Len(Units[t.controller])
  BY DEF TypeOK, TasksTyped, TaskRecords, Places
<1>3. new \in TaskRecords /\ new.unit = task[t].unit /\ new.at = place /\ new.read = value
  BY <1>2, RecordAt
<1>4. TasksTyped' /\ task'[t] = new /\ \A b \in Tasks \ {t} : task'[b] = task[b]
  <2>1. task' = [task EXCEPT ![t] = new]
    OBVIOUS
  <2>2. new.unit <= Len(Units[t.controller])
    BY <1>2, <1>3
  <2> HIDE DEF new
  <2> QED
    BY <1>2, <1>3, <2>1, <2>2, OneTask
<1>5. Current(t)' = u
  BY <1>3, <1>4 DEF Current
<1>6. Inside(t)' /\ (At(t, "store")' => place = "store") /\ task'[t].read = value
  BY <1>3, <1>4 DEF Inside, At
<1>7. \A v \in AllUnits : lock'[v] = t <=> v = u
  BY <1>1 DEF Exclusive
<1>8. LocksTyped' /\ \A b \in Tasks \ {t} : \A v \in AllUnits : lock'[v] = b <=> lock[v] = b
  BY <1>1 DEF LocksTyped
<1>9. Exclusive(t)'
  BY <1>5, <1>6, <1>7 DEF Exclusive
<1> QED
  BY <1>4, <1>8, <1>9 DEF Apart
-----------------------------------------------------------------------------
(* What the invariant says of the units alone.                             *)
UnitsTyped ==
  /\ mode \in [AllUnits -> EeMode \cup IopMode]
  /\ \A u \in AllUnits : mode[u] \in IF Controller(u) = "ee" THEN EeMode ELSE IopMode
  /\ latch \in [AllUnits -> BOOLEAN] /\ overflowed \in [AllUnits -> BOOLEAN]
  /\ count \in [AllUnits -> Nat] /\ compare \in [AllUnits -> Nat]
  /\ prescale \in [AllUnits -> [target : {1, 16, 256}, count : 0..255]]
  /\ stat \subseteq AllUnits
  /\ elapsed \in [AllUnits -> Nat] /\ raised \in [AllUnits -> Nat]
  /\ steady \in [AllUnits -> BOOLEAN]
UnitsSound ==
  /\ UnitsTyped
  /\ \A u \in AllUnits : prescale[u].count < prescale[u].target
  /\ \A u \in Range(Units["ee"]) : ~mode[u].CUE

LEMMA Parts == TimersInv <=> /\ UnitsSound /\ TasksTyped /\ LocksTyped
                             /\ \A t \in Tasks : Exclusive(t)
BY DEF TimersInv, TypeOK, UnitsSound, UnitsTyped, TasksTyped, TaskRecords, Places, LocksTyped

LEMMA PartsNext == UnitsSound' /\ TasksTyped' /\ LocksTyped' /\ (\A t \in Tasks : Exclusive(t)')
                     => TimersInv'
BY DEF TimersInv, TypeOK, UnitsSound, UnitsTyped, TasksTyped, TaskRecords, Places, LocksTyped

(* A task works on a unit that no other task is at.                        *)
LEMMA OnlyItsUnit ==
  ASSUME TimersInv, NEW t \in Tasks, lock[Current(t)] \in {t, Nobody},
         UnitsSound', TasksTyped', LocksTyped', Apart(t), Exclusive(t)',
         \A u \in AllUnits \ {Current(t)} : steady'[u] = steady[u] /\ count'[u] = count[u]
  PROVE  TimersInv'
<1>1. TypeOK /\ Nobody \notin Tasks /\ \A b \in Tasks : Exclusive(b)
  BY TimersAssumption DEF TimersInv
<1>2. ASSUME NEW b \in Tasks \ {t} PROVE Exclusive(b)'
  <2>1. Current(b) \in AllUnits /\ Exclusive(b)
    BY <1>1, CurrentUnit
  <2>2. Inside(b) => Current(b) # Current(t)
    BY <1>1, <2>1 DEF Exclusive
  <2>3. LET u == Current(b)
        IN  Inside(b) /\ steady'[u] => steady[u] /\ count'[u] = count[u]
    BY <2>1, <2>2
  <2>4. task'[b] = task[b] /\ \A u \in AllUnits : lock'[u] = b <=> lock[u] = b
    BY DEF Apart
  <2> QED
    BY <1>1, <2>1, <2>3, <2>4, Bystander
<1> QED
  BY <1>2, PartsNext

(* ... and one that leaves it need only see to what the unit holds.        *)
LEMMA LeavingInv ==
  ASSUME TimersInv, NEW t \in Tasks, lock[Current(t)] \in {t, Nobody},
         Advance(t) \/ Throw(t), UnitsSound',
         \A u \in AllUnits \ {Current(t)} : steady'[u] = steady[u] /\ count'[u] = count[u]
  PROVE  TimersInv'
<1>1. TasksTyped' /\ LocksTyped' /\ Apart(t) /\ Exclusive(t)'
  BY Leaving
<1> QED
  BY <1>1, OnlyItsUnit

(* A step of a program leaves the tasks and their locks alone.             *)
LEMMA ProgramInv ==
  ASSUME TimersInv, UNCHANGED <<task, lock>>, UnitsSound',
         \A u \in AllUnits : steady'[u] => steady[u] /\ count'[u] = count[u]
  PROVE  TimersInv'
<1>1. TypeOK /\ \A b \in Tasks : Exclusive(b)
  BY DEF TimersInv
<1>2. ASSUME NEW b \in Tasks PROVE Exclusive(b)'
  <2>1. Current(b) \in AllUnits /\ Exclusive(b)
    BY <1>1, CurrentUnit
  <2>2. LET u == Current(b)
        IN  Inside(b) /\ steady'[u] => steady[u] /\ count'[u] = count[u]
    BY <2>1
  <2>3. task'[b] = task[b] /\ \A u \in AllUnits : lock'[u] = b <=> lock[u] = b
    OBVIOUS
  <2> QED
    BY <1>1, <2>1, <2>2, <2>3, Bystander
<1>3. TasksTyped' /\ LocksTyped'
  BY Parts DEF TasksTyped, LocksTyped
<1> QED
  BY <1>2, <1>3, PartsNext
-----------------------------------------------------------------------------
(* The actions.  A block gives idle tasks their ticks.                     *)
LEMMA BlockInv == TimersInv /\ Block => TimersInv'
<1> SUFFICES ASSUME TimersInv, Block PROVE TimersInv'
  OBVIOUS
<1>1. UnitsSound /\ TasksTyped /\ LocksTyped /\ \A t \in Tasks : Exclusive(t)
  BY Parts
<1>2. PICK ticks \in [Tasks -> 0..MaxTicks] :
        task' = [t \in Tasks |->
                   IF ticks[t] = 0 THEN Idle ELSE [Idle EXCEPT !.left = ticks[t], !.at = "take"]]
  BY DEF Block
<1>3. \A t \in Tasks : MaxTicks \in Nat /\ Len(Units[t.controller]) \in Nat \ {0}
  BY TimersAssumption
<1>4. ASSUME NEW t \in Tasks
      PROVE  /\ task'[t] \in TaskRecords /\ task'[t].unit = 1 /\ task'[t].at \in {"idle", "take"}
  <2>1. ticks[t] \in 0..MaxTicks
    OBVIOUS
  <2>2. task'[t] = IF ticks[t] = 0 THEN Idle ELSE [Idle EXCEPT !.left = ticks[t], !.at = "take"]
    BY <1>2
  <2>3. ticks[t] \in 0..MaxTicks /\ 0 \in 0..MaxTicks
    BY <1>3, <2>1
  <2>4. CASE ticks[t] = 0
    BY <2>2, <2>3, <2>4 DEF TaskRecords, Places, Idle
  <2>5. CASE ticks[t] # 0
    <3>1. task'[t] = [left |-> ticks[t], unit |-> 1, at |-> "take", read |-> 0]
      BY <2>2, <2>5 DEF Idle
    <3> QED
      BY <2>3, <3>1 DEF TaskRecords, Places
  <2> QED
    BY <2>4, <2>5
<1>5. TasksTyped'
  <2>1. task' \in [Tasks -> TaskRecords]
    BY <1>2, <1>4
  <2> QED
    BY <1>3, <1>4, <2>1 DEF TasksTyped
<1>6. UNCHANGED <<unit, lock, stat, history>>
  BY DEF Block
<1>7. LocksTyped' /\ UnitsSound'
  BY <1>1, <1>6 DEF LocksTyped, UnitsSound, UnitsTyped, unit, history
<1>8. ASSUME NEW t \in Tasks PROVE Exclusive(t)'
  <2>1. ~Inside(t) /\ ~Inside(t)' /\ ~At(t, "store")'
    BY <1>4 DEF Block, Inside, At
  <2>2. \A u \in AllUnits : lock'[u] # t
    BY <1>1, <1>6, <2>1 DEF Exclusive
  <2> QED
    BY <2>1, <2>2 DEF Exclusive
<1> QED
  BY <1>5, <1>7, <1>8, PartsNext

(* The programs: EE's MODE keeps CUE whatever is written to it.            *)
LEMMA WriteModeInv ==
  ASSUME TimersInv, NEW u \in AllUnits, WriteMode(u)
  PROVE  TimersInv'
<1>1. UnitsSound
  BY Parts
<1>2. PICK value \in Modes[u] : mode' = [mode EXCEPT ![u] = Stored(u, value)]
  BY DEF WriteMode
<1>3. Controller(u) \in Controllers /\ u \in Range(Units[Controller(u)])
  BY UnitOf
<1>4. Stored(u, value) \in IF Controller(u) = "ee" THEN EeMode ELSE IopMode
  <2>1. CASE Controller(u) = "ee"
    <3>1. mode[u] \in EeMode /\ value \in EeMode
      BY <1>1, <1>3, <2>1, TimersAssumption DEF UnitsSound, UnitsTyped
    <3> DEFINE equf == mode[u].EQUF /\ ~value.EQUF
               ovff == mode[u].OVFF /\ ~value.OVFF
    <3>2. Stored(u, value) = [mode[u] EXCEPT !.EQUF = equf, !.OVFF = ovff]
      BY <2>1 DEF Stored
    <3>3. equf \in BOOLEAN /\ ovff \in BOOLEAN
      OBVIOUS
    <3> HIDE DEF equf, ovff
    <3>4. ASSUME NEW old \in EeMode PROVE [old EXCEPT !.EQUF = equf, !.OVFF = ovff] \in EeMode
      BY <3>3 DEF EeMode
    <3> QED
      BY <2>1, <3>1, <3>2, <3>4
  <2>2. CASE Controller(u) = "iop"
    BY <1>3, <2>2, TimersAssumption DEF Stored
  <2> QED
    BY <1>3, <2>1, <2>2 DEF Controllers
<1>5. u \in Range(Units["ee"]) => ~Stored(u, value).CUE
  <2> SUFFICES ASSUME u \in Range(Units["ee"]) PROVE ~Stored(u, value).CUE
    OBVIOUS
  <2>1. Controller(u) = "ee" /\ ~mode[u].CUE /\ mode[u] \in EeMode
    BY <1>1, UnitOf DEF UnitsSound, UnitsTyped
  <2> QED
    BY <2>1 DEF Stored, EeMode
<1>6. UnitsSound'
  <2>1. mode' \in [AllUnits -> EeMode \cup IopMode]
    BY <1>1, <1>2, <1>4 DEF UnitsSound, UnitsTyped
  <2>2. \A v \in AllUnits : mode'[v] \in IF Controller(v) = "ee" THEN EeMode ELSE IopMode
    BY <1>1, <1>2, <1>4 DEF UnitsSound, UnitsTyped
  <2>3. \A v \in Range(Units["ee"]) : ~mode'[v].CUE
    BY <1>1, <1>2, <1>5 DEF UnitsSound, UnitsTyped, AllUnits, Controllers
  <2>4. latch' \in [AllUnits -> BOOLEAN]
    BY <1>1 DEF WriteMode, UnitsSound, UnitsTyped
  <2> QED
    BY <1>1, <2>1, <2>2, <2>3, <2>4 DEF WriteMode, UnitsSound, UnitsTyped, history
<1> QED
  BY <1>6, ProgramInv DEF WriteMode, history

(* COUNT and COMPARE are written without the lock, and steady says so.     *)
LEMMA WriteValueInv ==
  ASSUME TimersInv, NEW u \in AllUnits, WriteCount(u) \/ WriteCompare(u)
  PROVE  TimersInv'
<1>1. UnitsSound /\ Values \subseteq Nat
  BY Parts, TimersAssumption
<1>2. count' \in [AllUnits -> Nat] /\ compare' \in [AllUnits -> Nat]
  BY <1>1 DEF WriteCount, WriteCompare, UnitsSound, UnitsTyped
<1>3. steady' \in [AllUnits -> BOOLEAN] /\ steady' = [steady EXCEPT ![u] = FALSE]
  BY <1>1 DEF WriteCount, WriteCompare, UnitsSound, UnitsTyped
<1>4. \A v \in AllUnits : steady'[v] => steady[v] /\ count'[v] = count[v]
  BY <1>1, <1>3 DEF WriteCount, WriteCompare, UnitsSound, UnitsTyped
<1>5. UnitsSound'
  BY <1>1, <1>2, <1>3 DEF WriteCount, WriteCompare, UnitsSound, UnitsTyped
<1> QED
  BY <1>4, <1>5, ProgramInv DEF WriteCount, WriteCompare

LEMMA AcknowledgeInv ==
  ASSUME TimersInv, NEW u \in AllUnits, Acknowledge(u)
  PROVE  TimersInv'
<1>1. UnitsSound
  BY Parts
<1>2. UnitsSound'
  BY <1>1 DEF Acknowledge, UnitsSound, UnitsTyped, unit, history
<1> QED
  BY <1>2, ProgramInv DEF Acknowledge, unit, history
-----------------------------------------------------------------------------
(* A task's steps.  The lock that a task inside a unit holds is the unit's.*)
LEMMA HoldsIt ==
  ASSUME TimersInv, NEW t \in Tasks, Inside(t)
  PROVE  /\ lock[Current(t)] = t /\ t.controller = "iop"
         /\ lock = [lock EXCEPT ![Current(t)] = t]
<1>1. Current(t) \in AllUnits /\ lock \in [AllUnits -> Tasks \cup {Nobody}] /\ Exclusive(t)
  BY CurrentUnit DEF TimersInv, TypeOK
<1> QED
  BY <1>1 DEF Exclusive

LEMMA Going ==
  ASSUME TasksTyped, NEW t \in Tasks, NEW place \in Places
  PROVE  /\ Goto(t, place) => task' = [task EXCEPT ![t] = Put(t, place, task[t].read)]
         /\ task[t].read \in Nat
<1>1. task[t] \in TaskRecords
  BY DEF TasksTyped
<1>2. [task[t] EXCEPT !.at = place] = Put(t, place, task[t].read)
  BY <1>1 DEF TaskRecords, Put
<1> QED
  BY <1>1, <1>2 DEF Goto, TaskRecords

(* reset_prescale leaves the prescaler at the start of a period.           *)
LEMMA RestartSound ==
  ASSUME UnitsTyped, NEW u \in AllUnits, Restart(u),
         \A v \in AllUnits : prescale[v].count < prescale[v].target
  PROVE  /\ latch' \in [AllUnits -> BOOLEAN] /\ count' \in [AllUnits -> Nat]
         /\ prescale' \in [AllUnits -> [target : {1, 16, 256}, count : 0..255]]
         /\ raised' \in [AllUnits -> Nat] /\ steady' \in [AllUnits -> BOOLEAN]
         /\ \A v \in AllUnits : prescale'[v].count < prescale'[v].target
         /\ \A v \in AllUnits \ {u} : steady'[v] = steady[v] /\ count'[v] = count[v]
<1>1. CASE latch[u]
  <2> DEFINE new == [target |-> Prescale(u), count |-> 0]
  <2>1. Prescale(u) \in {1, 16, 256}
    BY DEF Prescale
  <2>2. new \in [target : {1, 16, 256}, count : 0..255] /\ new.count < new.target
    BY <2>1
  <2>3. prescale' = [prescale EXCEPT ![u] = new]
    BY <1>1 DEF Restart
  <2>4. prescale' \in [AllUnits -> [target : {1, 16, 256}, count : 0..255]]
    BY <2>2, <2>3 DEF UnitsTyped
  <2>5. \A v \in AllUnits : prescale'[v].count < prescale'[v].target
    BY <2>2, <2>3 DEF UnitsTyped
  <2>6. /\ count' = [count EXCEPT ![u] = 0] /\ latch' = [latch EXCEPT ![u] = FALSE]
        /\ raised' = [raised EXCEPT ![u] = 0] /\ steady' = [steady EXCEPT ![u] = TRUE]
    BY <1>1 DEF Restart
  <2>7. latch' \in [AllUnits -> BOOLEAN] /\ steady' \in [AllUnits -> BOOLEAN]
    BY <2>6 DEF UnitsTyped
  <2>8. count' \in [AllUnits -> Nat] /\ raised' \in [AllUnits -> Nat]
    BY <2>6 DEF UnitsTyped
  <2>9. \A v \in AllUnits \ {u} : steady'[v] = steady[v] /\ count'[v] = count[v]
    BY <2>6 DEF UnitsTyped
  <2> QED
    BY <2>4, <2>5, <2>7, <2>8, <2>9
<1>2. CASE ~latch[u]
  <2>1. UNCHANGED <<count, latch, prescale, raised, steady>>
    BY <1>2 DEF Restart
  <2> QED
    BY <2>1 DEF UnitsTyped
<1> QED
  BY <1>1, <1>2

LEMMA TakeInv ==
  ASSUME TimersInv, NEW t \in Tasks, Take(t)
  PROVE  TimersInv'
<1> DEFINE u == Current(t)
<1>1. /\ UnitsSound /\ TasksTyped /\ LocksTyped /\ TypeOK /\ u \in AllUnits
      /\ u \in Range(Units[t.controller]) /\ t.controller \in Controllers
  BY Parts, CurrentUnit, TimersAssumption DEF TimersInv
<1>2. lock[u] = Nobody
  BY DEF Take
<1>3. CASE ~Implemented(u)
  <2>1. Throw(t) /\ UNCHANGED <<unit, stat, history>>
    BY <1>3 DEF Take, unit
  <2>2. UnitsSound'
    BY <1>1, <2>1 DEF UnitsSound, UnitsTyped, unit, history
  <2> QED
    BY <1>2, <2>1, <2>2, LeavingInv DEF unit, history
<1>4. CASE Implemented(u)
  <2>1. Tick(t) /\ UNCHANGED <<mode, compare, overflowed, stat>>
    BY <1>4 DEF Take
  <2>2. Restart(u)
    BY <2>1 DEF Tick
  <2>3. elapsed' \in [AllUnits -> Nat]
    <3>1. elapsed' = [elapsed EXCEPT ![u] = IF Counts(t) /\ ~Gated(u)
                                            THEN IF latch[u] THEN 1 ELSE elapsed[u] + 1
                                            ELSE IF latch[u] THEN 0 ELSE elapsed[u]]
      BY <2>1 DEF Tick
    <3> QED
      BY <1>1, <3>1 DEF UnitsSound, UnitsTyped
  <2>4. /\ UnitsSound'
        /\ \A v \in AllUnits \ {u} : steady'[v] = steady[v] /\ count'[v] = count[v]
    BY <1>1, <2>1, <2>2, <2>3, RestartSound DEF UnitsSound, UnitsTyped
  <2>5. CASE ~Counts(t) \/ Gated(u)
    <3>1. Advance(t) \/ Throw(t)
      BY <2>1, <2>5 DEF Tick
    <3> QED
      BY <1>2, <2>4, <3>1, LeavingInv
  <2>6. CASE Counts(t) /\ ~Gated(u)
    <3>1. Goto(t, "count") /\ lock' = [lock EXCEPT ![u] = t]
      BY <2>1, <2>6 DEF Tick
    <3>2. t.controller = "iop"
      <4>1. t.controller = "ee" => ~mode[u].CUE /\ Controller(u) = "ee"
        BY <1>1, UnitOf DEF UnitsSound
      <4>2. Enabled(u)
        BY <2>6 DEF Counts
      <4> QED
        BY <1>1, <4>1, <4>2 DEF Enabled, Controllers
    <3>3. /\ task' = [task EXCEPT ![t] = Put(t, "count", task[t].read)] /\ task[t].read \in Nat
          /\ \A b \in Tasks : Exclusive(b)
      BY <1>1, <3>1, Going DEF Places, TimersInv
    <3>4. TasksTyped' /\ LocksTyped' /\ Apart(t) /\ Exclusive(t)'
      BY <1>1, <1>2, <3>1, <3>2, <3>3, Staying
    <3> QED
      BY <1>2, <2>4, <3>4, OnlyItsUnit
  <2> QED
    BY <2>5, <2>6
<1> QED
  BY <1>3, <1>4

(* The prescaler comes around at its target.                               *)
LEMMA CountInv ==
  ASSUME TimersInv, NEW t \in Tasks, Count(t)
  PROVE  TimersInv'
<1> DEFINE u == Current(t)
           reached == prescale[u].count + 1 >= prescale[u].target
           place == IF reached THEN "store" ELSE "check"
           next == IF reached THEN prescale[u].count + 1 - prescale[u].target
                   ELSE prescale[u].count + 1
<1>1. /\ UnitsSound /\ TasksTyped /\ LocksTyped /\ TypeOK /\ u \in AllUnits
      /\ \A b \in Tasks : Exclusive(b)
  BY Parts, CurrentUnit DEF TimersInv
<1>2. Inside(t) /\ place \in Places /\ place \in {"count", "store", "check", "raise"}
  BY DEF Count, At, Inside, Places
<1>3. lock[u] = t /\ t.controller = "iop" /\ lock' = [lock EXCEPT ![u] = t]
  BY <1>2, HoldsIt DEF Count
<1>4. prescale' = [prescale EXCEPT ![u].count = next]
  BY DEF Count
<1>5. UnitsSound'
  <2>1. /\ prescale[u] \in [target : {1, 16, 256}, count : 0..255]
        /\ prescale[u].count < prescale[u].target
    BY <1>1 DEF UnitsSound, UnitsTyped
  <2>2. next \in 0..255 /\ next < prescale[u].target
    <3>1. \A target \in {1, 16, 256}, k \in 0..255 :
            k < target /\ k + 1 >= target => k + 1 - target \in 0..255 /\ k + 1 - target < target
      OBVIOUS
    <3>2. \A target \in {1, 16, 256}, k \in 0..255 :
            k < target /\ ~(k + 1 >= target) => k + 1 \in 0..255 /\ k + 1 < target
      OBVIOUS
    <3>3. prescale[u].target \in {1, 16, 256} /\ prescale[u].count \in 0..255
      BY <2>1
    <3>4. CASE reached
      <4>1. next = prescale[u].count + 1 - prescale[u].target
        BY <3>4
      <4> HIDE DEF next, u
      <4> QED
        BY <2>1, <3>1, <3>3, <3>4, <4>1
    <3>5. CASE ~reached
      <4>1. next = prescale[u].count + 1
        BY <3>5
      <4> HIDE DEF next, u
      <4> QED
        BY <2>1, <3>2, <3>3, <3>5, <4>1
    <3> QED
      BY <3>4, <3>5
  <2>3. prescale' \in [AllUnits -> [target : {1, 16, 256}, count : 0..255]]
    <3> HIDE DEF next
    <3> QED
      BY <1>1, <1>4, <2>2 DEF UnitsSound, UnitsTyped
  <2>4. \A v \in AllUnits : prescale'[v].count < prescale'[v].target
    <3> HIDE DEF next
    <3> QED
      BY <1>1, <1>4, <2>2 DEF UnitsSound, UnitsTyped
  <2>5. UNCHANGED <<mode, latch, count, compare, overflowed, stat, history>>
    BY DEF Count
  <2> QED
    BY <1>1, <2>3, <2>4, <2>5 DEF UnitsSound, UnitsTyped, history
<1>6. task' = [task EXCEPT ![t] = Put(t, place, count[u])] /\ count[u] \in Nat
  <2>1. task' = [task EXCEPT ![t] = [task[t] EXCEPT !.at = place, !.read = count[u]]]
    BY DEF Count
  <2> QED
    BY <1>1, <2>1 DEF Put, UnitsSound, UnitsTyped
<1>7. UNCHANGED <<count, history>>
  BY DEF Count
<1>8. TasksTyped' /\ LocksTyped' /\ Apart(t) /\ Exclusive(t)'
  <2> HIDE DEF place
  <2> QED
    BY <1>1, <1>2, <1>3, <1>6, <1>7, Staying
<1> QED
  BY <1>3, <1>5, <1>7, <1>8, OnlyItsUnit DEF history

LEMMA StoreInv ==
  ASSUME TimersInv, NEW t \in Tasks, Store(t)
  PROVE  TimersInv'
<1> DEFINE u == Current(t)
           new == Wrap(u, task[t].read + 1)
<1>1. /\ UnitsSound /\ TasksTyped /\ LocksTyped /\ TypeOK /\ u \in AllUnits
      /\ \A b \in Tasks : Exclusive(b)
  BY Parts, CurrentUnit DEF TimersInv
<1>2. Inside(t) /\ "check" \in Places
  BY DEF Store, At, Inside, Places
<1>3. lock[u] = t /\ t.controller = "iop" /\ lock' = [lock EXCEPT ![u] = t]
  BY <1>2, HoldsIt DEF Store
<1>4. task' = [task EXCEPT ![t] = Put(t, "check", task[t].read)] /\ task[t].read \in Nat
  BY <1>1, <1>2, Going DEF Store
<1>5. new \in Nat
  <2>1. MaxOf(u) \in Nat \ {0}
    BY TimersAssumption DEF MaxOf
  <2>2. \A a \in Nat, b \in Nat \ {0} : a % b \in Nat
    OBVIOUS
  <2> QED
    BY <1>4, <2>1, <2>2 DEF Wrap
<1>6. count' = [count EXCEPT ![u] = new] /\ UNCHANGED history
  BY DEF Store
<1>7. UnitsSound'
  <2> HIDE DEF new
  <2>1. count' \in [AllUnits -> Nat]
    BY <1>1, <1>5, <1>6 DEF UnitsSound, UnitsTyped
  <2>2. overflowed' \in [AllUnits -> BOOLEAN]
    BY <1>1 DEF Store, UnitsSound, UnitsTyped
  <2>3. UNCHANGED <<mode, latch, compare, prescale, stat>>
    BY DEF Store
  <2> QED
    BY <1>1, <1>6, <2>1, <2>2, <2>3 DEF UnitsSound, UnitsTyped, history
<1>8. TasksTyped' /\ LocksTyped' /\ Apart(t) /\ Exclusive(t)'
  BY <1>1, <1>3, <1>4, Staying
<1>9. \A v \in AllUnits \ {u} : steady'[v] = steady[v] /\ count'[v] = count[v]
  BY <1>1, <1>6 DEF UnitsSound, UnitsTyped, history
<1> QED
  BY <1>3, <1>7, <1>8, <1>9, OnlyItsUnit

LEMMA FlaggedMode ==
  ASSUME NEW u, mode[u] \in IopMode
  PROVE  \A o, reached, answered \in BOOLEAN : Flagged(u, o, reached, answered) \in IopMode
<1> SUFFICES ASSUME NEW o \in BOOLEAN, NEW reached \in BOOLEAN, NEW answered \in BOOLEAN
             PROVE  Flagged(u, o, reached, answered) \in IopMode
  OBVIOUS
<1> DEFINE a == mode[u].REACH_OF \/ o
           b == mode[u].REACH_TARGET \/ reached
           c == mode[u].IRQ_REQUEST /\ ~answered
<1>1. a \in BOOLEAN /\ b \in BOOLEAN /\ c \in BOOLEAN
  OBVIOUS
<1>2. Flagged(u, o, reached, answered) =
        [mode[u] EXCEPT !.REACH_OF = a, !.REACH_TARGET = b, !.IRQ_REQUEST = c]
  BY Zenon DEF Flagged
<1> HIDE DEF a, b, c
<1> QED
  BY <1>1, <1>2 DEF IopMode

(* Only a unit of the IOP is checked, so that MODE keeps its shape.        *)
LEMMA CheckInv ==
  ASSUME TimersInv, NEW t \in Tasks, Check(t)
  PROVE  TimersInv'
<1> DEFINE u == Current(t)
<1>1. /\ UnitsSound /\ TasksTyped /\ LocksTyped /\ TypeOK /\ u \in AllUnits
      /\ \A b \in Tasks : Exclusive(b)
  BY Parts, CurrentUnit DEF TimersInv
<1>2. Inside(t) /\ "raise" \in Places
  BY DEF Check, At, Inside, Places
<1>3. lock[u] = t /\ t.controller = "iop" /\ lock = [lock EXCEPT ![u] = t]
  BY <1>2, HoldsIt
<1>4. Controller(u) = "iop" /\ mode[u] \in IopMode
  BY <1>1, <1>3, CurrentUnit, UnitOf DEF UnitsSound, UnitsTyped
<1>5. PICK new \in IopMode : mode' = [mode EXCEPT ![u] = new]
  <2>1. \E o, reached, answered \in BOOLEAN :
          mode' = [mode EXCEPT ![u] = Flagged(u, o, reached, answered)]
    <3> DEFINE value == IF overflowed[u] /\ ~mode[u].RESET_MODE THEN 0 ELSE count[u]
               target == value = compare[u]
               interrupt == \/ mode[u].IRQ_ON_TARGET /\ target
                            \/ mode[u].IRQ_ON_OF /\ overflowed[u]
               throws == interrupt /\ (~mode[u].IRQ_REPEAT \/ mode[u].IRQ_TOGGLE)
               answered == interrupt /\ ~throws
    <3>1. overflowed[u] \in BOOLEAN /\ target \in BOOLEAN /\ answered \in BOOLEAN
      BY <1>1 DEF UnitsSound, UnitsTyped
    <3>2. mode' = [mode EXCEPT ![u] = Flagged(u, overflowed[u], target, answered)]
      BY Zenon DEF Check
    <3> HIDE DEF target, answered
    <3> QED
      BY <3>1, <3>2
  <2> QED
    BY <1>4, <2>1, FlaggedMode
<1>6. \E value \in Nat : count' = [count EXCEPT ![u] = value]
  <2>1. count[u] \in Nat /\ 0 \in Nat
    BY <1>1 DEF UnitsSound, UnitsTyped
  <2> QED
    BY <2>1 DEF Check
<1>7. UnitsSound'
  <2>1. /\ mode' \in [AllUnits -> EeMode \cup IopMode] /\ mode'[u] \in IopMode
        /\ \A v \in AllUnits \ {u} : mode'[v] = mode[v]
    BY <1>1, <1>5 DEF UnitsSound, UnitsTyped
  <2>2. \A v \in AllUnits : mode'[v] \in IF Controller(v) = "ee" THEN EeMode ELSE IopMode
    BY <1>1, <1>4, <2>1 DEF UnitsSound, UnitsTyped
  <2>3. \A v \in Range(Units["ee"]) : ~mode'[v].CUE
    <3>1. \A v \in Range(Units["ee"]) : v \in AllUnits /\ v # u
      BY <1>4, UnitOf DEF AllUnits, Controllers
    <3> QED
      BY <1>1, <2>1, <3>1 DEF UnitsSound
  <2>4. count' \in [AllUnits -> Nat]
    BY <1>1, <1>6 DEF UnitsSound, UnitsTyped
  <2>5. overflowed' \in [AllUnits -> BOOLEAN]
    BY <1>1 DEF Check, UnitsSound, UnitsTyped
  <2>6. UNCHANGED <<latch, compare, prescale, stat, history>>
    BY DEF Check
  <2> QED
    BY <1>1, <2>1, <2>2, <2>3, <2>4, <2>5, <2>6 DEF UnitsSound, UnitsTyped, history
<1>8. \A v \in AllUnits \ {u} : steady'[v] = steady[v] /\ count'[v] = count[v]
  BY <1>1, <1>6 DEF Check, UnitsSound, UnitsTyped, history
<1>9. Throw(t) \/ Advance(t) \/ (Goto(t, "raise") /\ UNCHANGED lock)
  BY DEF Check
<1>10. CASE Throw(t) \/ Advance(t)
  BY <1>3, <1>7, <1>8, <1>10, LeavingInv
<1>11. CASE Goto(t, "raise") /\ UNCHANGED lock
  <2>1. task' = [task EXCEPT ![t] = Put(t, "raise", task[t].read)] /\ task[t].read \in Nat
    BY <1>1, <1>2, <1>11, Going
  <2>2. lock' = [lock EXCEPT ![u] = t]
    BY <1>3, <1>11
  <2>3. TasksTyped' /\ LocksTyped' /\ Apart(t) /\ Exclusive(t)'
    BY <1>1, <1>3, <2>1, <2>2, Staying
  <2> QED
    BY <1>3, <1>7, <1>8, <2>3, OnlyItsUnit
<1> QED
  BY <1>9, <1>10, <1>11

LEMMA RaiseIrqInv ==
  ASSUME TimersInv, NEW t \in Tasks, RaiseIrq(t)
  PROVE  TimersInv'
<1>1. UnitsSound /\ Current(t) \in AllUnits
  BY Parts, CurrentUnit DEF TimersInv
<1>2. lock[Current(t)] = t
  BY HoldsIt DEF RaiseIrq, At, Inside
<1>3. UNCHANGED <<unit, elapsed, steady>> /\ stat' = stat \cup {Current(t)}
      /\ raised' = [raised EXCEPT ![Current(t)] = @ + 1]
  BY DEF RaiseIrq
<1>4. UnitsSound'
  BY <1>1, <1>3 DEF UnitsSound, UnitsTyped, unit
<1> QED
  BY <1>2, <1>3, <1>4, LeavingInv DEF RaiseIrq, unit
-----------------------------------------------------------------------------
(* A task that ticks a unit has it for itself: the other tasks of its      *)
(* controller and the writes to MODE wait, what it reads of COUNT is what  *)
(* it replaces unless a program writes COUNT or COMPARE, which take no     *)
(* lock, and no task holds two units; no unit of the EE is ever ticked     *)
(* (CIopTimers.cpp:59, CEeTimers.cpp:60, EeTimersUnitRegisters.cpp:69).    *)
THEOREM TimersInvariance == Spec => []TimersInv
<1>1. Init => TimersInv
  BY InitInv
<1>2. TimersInv /\ [Next]_vars => TimersInv'
  <2> SUFFICES ASSUME TimersInv, [Next]_vars PROVE TimersInv'
    OBVIOUS
  <2>1. CASE Block
    BY <2>1, BlockInv
  <2>2. ASSUME NEW t \in Tasks, TaskStep(t) PROVE TimersInv'
    BY <2>2, TakeInv, CountInv, StoreInv, CheckInv, RaiseIrqInv DEF TaskStep
  <2>3. ASSUME NEW u \in AllUnits, Program(u) PROVE TimersInv'
    BY <2>3, WriteModeInv, WriteValueInv, AcknowledgeInv DEF Program
  <2>4. CASE UNCHANGED vars
    <3>1. UNCHANGED <<unit, lock, task, stat, history>>
      BY <2>4 DEF vars
    <3>2. UnitsSound'
      BY <3>1, Parts DEF UnitsSound, UnitsTyped, unit, history
    <3> QED
      BY <3>1, <3>2, ProgramInv DEF unit, history
  <2> QED
    BY <2>1, <2>2, <2>3, <2>4 DEF Next
<1> QED
  BY <1>1, <1>2, PTL DEF Spec
-----------------------------------------------------------------------------
(* A remainder goes on by one, and to zero at its period.                  *)
LEMMA Remainder ==
  ASSUME NEW p \in Nat \ {0}, NEW q \in Int, NEW r \in 0..p - 1
  PROVE  (p * q + r) % p = r
OBVIOUS

LEMMA NextRemainder ==
  ASSUME NEW p \in Nat \ {0}, NEW n \in Nat
  PROVE  /\ n % p \in 0..p - 1 /\ n % p <= n /\ 0 % p = 0
         /\ (n + 1) % p = IF (n % p) + 1 = p THEN 0 ELSE (n % p) + 1
<1> DEFINE q == n \div p
           r == n % p
<1>1. n = p * q + r /\ r \in 0..p - 1 /\ q \in Nat
  OBVIOUS
<1>2. r <= n /\ 0 % p = 0
  OBVIOUS
<1> HIDE DEF q, r
<1>3. CASE r + 1 = p
  <2>1. n + 1 = p * (q + 1) + 0
    BY <1>1, <1>3
  <2>2. (p * (q + 1) + 0) % p = 0
    <3>1. q + 1 \in Int /\ 0 \in 0..p - 1
      BY <1>1
    <3> QED
      BY <3>1, Remainder
  <2> QED
    BY <1>1, <1>2, <1>3, <2>1, <2>2 DEF r
<1>4. CASE r + 1 # p
  <2>1. n + 1 = p * q + (r + 1)
    BY <1>1
  <2>2. (p * q + (r + 1)) % p = r + 1
    <3>1. q \in Int /\ r + 1 \in 0..p - 1
      BY <1>1, <1>4
    <3> QED
      BY <3>1, Remainder
  <2> QED
    BY <1>1, <1>2, <1>4, <2>1, <2>2 DEF r
<1> QED
  BY <1>3, <1>4

(* What Check makes of a COUNT that showed the right number of ticks.      *)
Ticked(u, c) == IF c + 1 > MaxOf(u) /\ ~mode[u].RESET_MODE THEN 0 ELSE Wrap(u, c + 1)

LEMMA ShowsNext ==
  ASSUME UnitsTyped, NEW u \in AllUnits, NEW n \in Nat
  PROVE  LET c == ShowsAfter(u, n)
             hit == Ticked(u, c) = compare[u]
         IN  /\ c \in Nat /\ ShowsAfter(u, 0) = 0
             /\ ShowsAfter(u, n + 1) = IF hit /\ mode[u].RESET_MODE THEN 0 ELSE Ticked(u, c)
             /\ Hits(u, n + 1) <=> hit
             /\ Overflows(u, n + 1) <=> c + 1 > MaxOf(u)
<1> DEFINE M == MaxOf(u)
           p == compare[u]
           reset == mode[u].RESET_MODE
           c == ShowsAfter(u, n)
<1>1. M \in Nat \ {0, 1} /\ p \in Nat
  BY TimersAssumption DEF MaxOf, UnitsTyped
<1>2. \A k \in Nat : k > M => Wrap(u, k) = k % M
  BY DEF Wrap
<1>3. \A k \in Nat : ~(k > M) => Wrap(u, k) = k
  BY DEF Wrap
<1>4. CASE Restarts(u)
  <2>1. reset /\ p \in 1..M
    BY <1>4 DEF Restarts
  <2>2. c = n % p /\ ShowsAfter(u, n + 1) = (n + 1) % p /\ ShowsAfter(u, 0) = 0 % p
    BY <1>4 DEF ShowsAfter
  <2>3. ~Overflows(u, n + 1) /\ (Hits(u, n + 1) <=> (n + 1) % p = 0)
    BY <1>4 DEF Overflows, Hits
  <2>4. /\ c \in 0..p - 1 /\ 0 % p = 0
        /\ (n + 1) % p = IF c + 1 = p THEN 0 ELSE c + 1
    <3>1. p \in Nat \ {0}
      BY <1>1, <2>1
    <3> HIDE DEF p, M, c
    <3>2. /\ n % p \in 0..p - 1 /\ 0 % p = 0
          /\ (n + 1) % p = IF (n % p) + 1 = p THEN 0 ELSE (n % p) + 1
      BY <3>1, NextRemainder
    <3> QED
      BY <2>2, <3>2
  <2>5. Ticked(u, c) = c + 1 /\ ~(c + 1 > M)
    BY <1>1, <1>3, <2>1, <2>4 DEF Ticked
  <2> HIDE DEF M, p, reset, c
  <2>6. c \in Nat /\ c + 1 # 0
    BY <1>1, <2>1, <2>4
  <2> QED
    BY <2>1, <2>2, <2>3, <2>4, <2>5, <2>6 DEF c, M, p, reset
<1>5. CASE ~Restarts(u) /\ ~reset
  <2>2. /\ c = n % (M + 1) /\ ShowsAfter(u, n + 1) = (n + 1) % (M + 1)
        /\ ShowsAfter(u, 0) = 0 % (M + 1)
    BY <1>5 DEF ShowsAfter
  <2>3. /\ Overflows(u, n + 1) <=> n + 1 > M /\ (n + 1) % (M + 1) = 0
        /\ Hits(u, n + 1) <=> ShowsAfter(u, n + 1) = p
    BY <1>5 DEF Overflows, Hits
  <2>4. /\ c \in 0..M /\ c <= n /\ 0 % (M + 1) = 0
        /\ (n + 1) % (M + 1) = IF c = M THEN 0 ELSE c + 1
    <3>1. M + 1 \in Nat \ {0}
      BY <1>1
    <3>2. /\ n % (M + 1) \in 0..(M + 1) - 1 /\ n % (M + 1) <= n /\ 0 % (M + 1) = 0
          /\ (n + 1) % (M + 1) = IF (n % (M + 1)) + 1 = M + 1 THEN 0 ELSE (n % (M + 1)) + 1
      BY <3>1, NextRemainder
    <3> HIDE DEF M, c
    <3> QED
      BY <1>1, <2>2, <3>2
  <2>5. Ticked(u, c) = IF c = M THEN 0 ELSE c + 1
    <3>1. c = M => c + 1 > M
      BY <1>1
    <3>2. c # M => ~(c + 1 > M)
      BY <1>1, <2>4
    <3> QED
      BY <1>3, <1>5, <2>4, <3>1, <3>2 DEF Ticked
  <2>6. c + 1 > M <=> n + 1 > M /\ (n + 1) % (M + 1) = 0
    <3> HIDE DEF M, c
    <3> QED
      BY <1>1, <2>4
  <2> QED
    BY <1>5, <2>2, <2>3, <2>4, <2>5, <2>6
<1>6. CASE ~Restarts(u) /\ reset
  <2>1. p \notin 1..M
    BY <1>6 DEF Restarts
  <2>2. /\ c = IF n = 0 THEN 0 ELSE ((n - 1) % M) + 1
        /\ ShowsAfter(u, n + 1) = (n % M) + 1 /\ ShowsAfter(u, 0) = 0
    BY <1>6 DEF ShowsAfter
  <2>3. /\ Overflows(u, n + 1) <=> n + 1 > M /\ n % M = 0
        /\ Hits(u, n + 1) <=> ShowsAfter(u, n + 1) = p
    BY <1>6 DEF Overflows, Hits
  <2>4. /\ c \in 0..M /\ n % M \in 0..M - 1 /\ n % M <= n
        /\ n # 0 => c # 0 /\ n % M = IF c = M THEN 0 ELSE c
    <3>1. CASE n = 0
      <4>1. 0 % M = 0 /\ 0 \in 0..M /\ 0 \in 0..M - 1
        BY <1>1
      <4>2. c = 0
        BY <2>2, <3>1
      <4> QED
        BY <3>1, <4>1, <4>2
    <3>2. CASE n # 0
      <4>1. n - 1 \in Nat /\ (n - 1) + 1 = n
        BY <3>2
      <4>2. /\ (n - 1) % M \in 0..M - 1
            /\ n % M = IF ((n - 1) % M) + 1 = M THEN 0 ELSE ((n - 1) % M) + 1
        <5> DEFINE k == n - 1
        <5>1. k \in Nat /\ n = k + 1
          BY <4>1
        <5> HIDE DEF k, M
        <5>2. /\ k % M \in 0..M - 1
              /\ (k + 1) % M = IF (k % M) + 1 = M THEN 0 ELSE (k % M) + 1
          BY <1>1, <5>1, NextRemainder
        <5> QED
          BY <5>1, <5>2 DEF k
      <4>3. n % M \in 0..M - 1 /\ n % M <= n
        BY <1>1, NextRemainder
      <4> HIDE DEF M, c
      <4> QED
        BY <1>1, <2>2, <3>2, <4>2, <4>3
    <3> QED
      BY <3>1, <3>2
  <2>5. Wrap(u, c + 1) = (n % M) + 1
    <3>1. CASE c = M
      <4>1. c + 1 > M /\ M \in Nat /\ (M + 1) % M = 1
        BY <1>1, <3>1
      <4>2. n # 0
        BY <1>1, <2>2, <3>1
      <4> QED
        BY <1>2, <2>4, <3>1, <4>1, <4>2
    <3>2. CASE c # M
      <4>1. ~(c + 1 > M) /\ c + 1 \in Nat
        BY <1>1, <2>4, <3>2
      <4>2. n = 0 => c = 0 /\ n % M = 0
        BY <1>1, <2>2, NextRemainder
      <4> QED
        BY <1>3, <2>4, <3>2, <4>1, <4>2
    <3> QED
      BY <3>1, <3>2
  <2>6. Ticked(u, c) = (n % M) + 1 /\ (n % M) + 1 # p
    <3>1. (n % M) + 1 \in 1..M
      BY <1>1, <2>4
    <3> QED
      BY <1>6, <2>1, <2>5, <3>1 DEF Ticked
  <2>7. c + 1 > M <=> n + 1 > M /\ n % M = 0
    <3>1. n = 0 => c = 0
      BY <2>2
    <3>2. n < M => n % M = n
      BY <1>1
    <3> DEFINE r == n % M
    <3>3. r \in 0..M - 1
      BY <2>4
    <3> HIDE DEF M, c, r
    <3>4. CASE c = M
      <4>1. n # 0 /\ r = 0
        BY <1>1, <2>4, <3>1, <3>4 DEF r
      <4>2. ~(n < M)
        BY <3>2, <4>1 DEF r
      <4> QED
        BY <1>1, <3>4, <4>1, <4>2 DEF r
    <3>5. CASE c # M
      <4>1. ~(c + 1 > M)
        BY <1>1, <2>4, <3>5
      <4>2. n # 0 => r # 0
        BY <2>4, <3>5 DEF r
      <4>3. n = 0 => ~(n + 1 > M)
        BY <1>1
      <4> QED
        BY <4>1, <4>2, <4>3 DEF r
    <3> QED
      BY <3>4, <3>5
  <2> QED
    BY <1>6, <2>2, <2>3, <2>4, <2>6, <2>7
<1> QED
  BY <1>4, <1>5, <1>6

(* The ticks at which a unit comes around.                                 *)
Comes(u, k) == \/ mode[u].IRQ_ON_TARGET /\ Hits(u, k)
               \/ mode[u].IRQ_ON_OF /\ Overflows(u, k)

LEMMA DueNext ==
  ASSUME NEW u \in AllUnits, NEW n \in Nat
  PROVE  /\ Due(u, 0) = 0 /\ Due(u, n) \in Nat
         /\ Due(u, n + 1) = IF Comes(u, n + 1) THEN Due(u, n) + 1 ELSE Due(u, n)
<1> DEFINE S(k) == {i \in 1..k : Comes(u, i)}
<1>1. \A k : Due(u, k) = Cardinality(S(k))
  BY DEF Due, Comes
<1>2. S(0) = {} /\ Cardinality({}) = 0
  BY FS_EmptySet
<1>3. IsFiniteSet(S(n)) /\ Cardinality(S(n)) \in Nat
  <2>1. IsFiniteSet(1..n)
    BY FS_Interval
  <2>2. S(n) \in SUBSET (1..n)
    OBVIOUS
  <2> HIDE DEF S
  <2> QED
    BY <2>1, <2>2, FS_Subset, FS_CardinalityType
<1>4. S(n + 1) = IF Comes(u, n + 1) THEN S(n) \cup {n + 1} ELSE S(n)
  OBVIOUS
<1>5. n + 1 \notin S(n)
  OBVIOUS
<1> HIDE DEF S
<1>6. Cardinality(S(n) \cup {n + 1}) = Cardinality(S(n)) + 1
  BY <1>3, <1>5, FS_AddElement
<1>7. Due(u, 0) = 0 /\ Due(u, n) \in Nat
  BY <1>1, <1>2, <1>3
<1> QED
  BY <1>1, <1>4, <1>6, <1>7

(* Both depend on what MODE and COMPARE say of the counting alone.         *)
LEMMA SameDue ==
  ASSUME NEW u \in AllUnits, NEW n, compare'[u] = compare[u],
         mode'[u].RESET_MODE = mode[u].RESET_MODE,
         mode'[u].IRQ_ON_TARGET = mode[u].IRQ_ON_TARGET,
         mode'[u].IRQ_ON_OF = mode[u].IRQ_ON_OF
  PROVE  ShowsAfter(u, n)' = ShowsAfter(u, n) /\ Due(u, n)' = Due(u, n)
<1>1. Restarts(u)' <=> Restarts(u)
  BY DEF Restarts
<1>2. \A k : ShowsAfter(u, k)' = ShowsAfter(u, k)
  BY <1>1 DEF ShowsAfter
<1>3. \A k : (Hits(u, k)' <=> Hits(u, k)) /\ (Overflows(u, k)' <=> Overflows(u, k))
  BY <1>1, <1>2 DEF Hits, Overflows
<1>4. \A k : Comes(u, k)' <=> Comes(u, k)
  BY <1>3 DEF Comes
<1>5. {k \in 1..n : Comes(u, k)}' = {k \in 1..n : Comes(u, k)}
  BY <1>4
<1>6. Due(u, n) = Cardinality({k \in 1..n : Comes(u, k)})
  BY DEF Due, Comes
<1>7. Due(u, n)' = Cardinality({k \in 1..n : Comes(u, k)})'
  BY DEF Due, Comes
<1> QED
  BY <1>2, <1>5, <1>6, <1>7
-----------------------------------------------------------------------------
(* How far the tick is that a task makes at a unit, and what the unit's    *)
(* COUNT and the interrupts that it has raised are then.                   *)
Stage(u) == IF lock[u] = Nobody THEN "free" ELSE task[lock[u]].at
Counted(u, n) == count[u] = ShowsAfter(u, n) /\ raised[u] = Due(u, n)
Underway(u) ==
  LET n == elapsed[u] - 1
      next == ShowsAfter(u, n) + 1
  IN  /\ Stage(u) = "free" => Counted(u, elapsed[u])
      /\ Stage(u) # "free" => n \in Nat
      /\ Stage(u) \in {"count", "store"} => Counted(u, n)
      /\ Stage(u) = "check" => /\ count[u] = Wrap(u, next) /\ raised[u] = Due(u, n)
                               /\ overflowed[u] = (next > MaxOf(u))
      /\ Stage(u) = "raise" => /\ count[u] = ShowsAfter(u, elapsed[u])
                               /\ raised[u] + 1 = Due(u, elapsed[u])
Exact(u) ==
  /\ prescale[u] = [target |-> 1, count |-> 0]
  /\ Stage(u) # "check" => ~overflowed[u]
  /\ Stage(u) # "free" => ~latch[u]
  /\ steady[u] /\ ~latch[u] => Underway(u)
NobodyFailed == \A t \in Tasks : ~At(t, "failed")
CountingInv == NobodyFailed => \A u \in Range(Units["iop"]) : Exact(u)

(* A unit's stage is that of the one task that is at it.                   *)
LEMMA Stages ==
  ASSUME TimersInv, NEW u \in AllUnits
  PROVE  /\ Stage(u) \in {"free", "count", "store", "check", "raise"}
         /\ Stage(u) = "free" <=> lock[u] = Nobody
         /\ \A t \in Tasks : Inside(t) /\ u = Current(t) => Stage(u) = task[t].at
<1>1. lock[u] \in Tasks \cup {Nobody} /\ Nobody \notin Tasks /\ \A t \in Tasks : Exclusive(t)
  BY TimersAssumption DEF TimersInv, TypeOK
<1>2. lock[u] \in Tasks => Inside(lock[u]) /\ u = Current(lock[u])
  BY <1>1 DEF Exclusive
<1>3. \A t \in Tasks : Inside(t) /\ u = Current(t) => lock[u] = t
  BY <1>1 DEF Exclusive
<1> QED
  BY <1>1, <1>2, <1>3 DEF Stage, Inside

(* What a unit is exact about.                                             *)
Same(u) ==
  /\ compare'[u] = compare[u] /\ mode'[u].RESET_MODE = mode[u].RESET_MODE
  /\ mode'[u].IRQ_ON_TARGET = mode[u].IRQ_ON_TARGET /\ mode'[u].IRQ_ON_OF = mode[u].IRQ_ON_OF
Still(u) ==
  /\ Same(u) /\ latch'[u] = latch[u] /\ count'[u] = count[u] /\ prescale'[u] = prescale[u]
  /\ overflowed'[u] = overflowed[u] /\ elapsed'[u] = elapsed[u] /\ raised'[u] = raised[u]
  /\ steady'[u] = steady[u]

LEMMA StillExact ==
  ASSUME NEW u \in AllUnits, Still(u), Stage(u)' = Stage(u), Exact(u)
  PROVE  Exact(u)'
<1>1. \A n : ShowsAfter(u, n)' = ShowsAfter(u, n) /\ Due(u, n)' = Due(u, n)
  BY SameDue DEF Still, Same
<1>2. \A n : Counted(u, n)' <=> Counted(u, n)
  BY <1>1 DEF Counted, Still
<1>3. Underway(u) => Underway(u)'
  BY <1>1, <1>2 DEF Underway, Still, Wrap, MaxOf
<1> QED
  BY <1>3 DEF Exact, Still

(* A step of a task leaves the other units exact, so that its own is to be *)
(* looked at: if it is one of the IOP.                                     *)
LEMMA OtherUnits ==
  ASSUME TimersInv, TimersInv', CountingInv, NEW t \in Tasks, ~At(t, "failed"),
         \A b \in Tasks \ {t} : task'[b] = task[b],
         \A v \in AllUnits \ {Current(t)} : Still(v) /\ lock'[v] = lock[v],
         \A u \in Range(Units["iop"]) :
           u = Current(t) /\ NobodyFailed' /\ Exact(u) => Exact(u)'
  PROVE  CountingInv'
<1> SUFFICES ASSUME NobodyFailed', NEW v \in Range(Units["iop"]) PROVE Exact(v)'
  BY DEF CountingInv
<1>1. NobodyFailed /\ v \in AllUnits
  BY DEF NobodyFailed, At, AllUnits, Controllers
<1>2. Exact(v)
  BY <1>1 DEF CountingInv
<1>3. CASE v = Current(t)
  BY <1>2, <1>3
<1>4. CASE v # Current(t)
  <2>1. Exclusive(t) /\ lock[v] \in Tasks \cup {Nobody} /\ Nobody \notin Tasks
    BY <1>1, TimersAssumption DEF TimersInv, TypeOK
  <2>4. lock[v] # t
    BY <1>1, <1>4, <2>1 DEF Exclusive
  <2>2. Still(v) /\ lock'[v] = lock[v]
    BY <1>1, <1>4
  <2>3. Stage(v)' = Stage(v)
    BY <2>1, <2>2, <2>4 DEF Stage
  <2> QED
    BY <1>1, <1>2, <2>2, <2>3, StillExact
<1> QED
  BY <1>3, <1>4

(* A step that is none of a task's leaves the stages as they are.          *)
LEMMA ProgramExact ==
  ASSUME TimersInv, CountingInv, UNCHANGED <<lock, task>>,
         \A v \in AllUnits : Still(v) \/ /\ prescale'[v] = prescale[v]
                                         /\ overflowed'[v] = overflowed[v]
                                         /\ latch'[v] => latch[v] \/ lock[v] = Nobody
                                         /\ latch'[v] \/ ~steady'[v]
  PROVE  CountingInv'
<1> SUFFICES ASSUME NobodyFailed', NEW v \in Range(Units["iop"]) PROVE Exact(v)'
  BY DEF CountingInv
<1>1. NobodyFailed /\ v \in AllUnits
  BY DEF NobodyFailed, At, AllUnits, Controllers
<1>2. Exact(v) /\ Stage(v)' = Stage(v)
  BY <1>1 DEF CountingInv, Stage
<1>3. CASE Still(v)
  BY <1>1, <1>2, <1>3, StillExact
<1>4. CASE ~Still(v)
  <2>1. Stage(v) = "free" <=> lock[v] = Nobody
    BY <1>1, Stages
  <2> QED
    BY <1>1, <1>2, <1>4, <2>1 DEF Exact
<1> QED
  BY <1>3, <1>4

(* What a task's step does to its own record and to the units' locks.      *)
LEMMA Moves ==
  ASSUME TasksTyped, NEW t \in Tasks, NEW place \in Places
  PROVE  /\ Goto(t, place) => task'[t].at = place
         /\ Advance(t) => task'[t].at \in {"idle", "take"}
         /\ Throw(t) => At(t, "failed")'
         /\ Goto(t, place) \/ Advance(t) \/ Throw(t) =>
              \A b \in Tasks \ {t} : task'[b] = task[b]
<1>1. task \in [Tasks -> TaskRecords] /\ task[t] \in TaskRecords
  BY DEF TasksTyped
<1>2. ASSUME Goto(t, place) PROVE task'[t].at = place /\ \A b \in Tasks \ {t} : task'[b] = task[b]
  BY <1>1, <1>2 DEF Goto, TaskRecords
<1>3. ASSUME Advance(t)
      PROVE  task'[t].at \in {"idle", "take"} /\ \A b \in Tasks \ {t} : task'[b] = task[b]
  <2>1. task'[t] = Onward(t) /\ \A b \in Tasks \ {t} : task'[b] = task[b]
    BY <1>1, <1>3 DEF Advance
  <2> QED
    BY <2>1, Records
<1>4. ASSUME Throw(t) PROVE At(t, "failed")' /\ \A b \in Tasks \ {t} : task'[b] = task[b]
  BY <1>1, <1>4 DEF Throw, At, Idle
<1> QED
  BY <1>2, <1>3, <1>4

(* RaiseIrq: the interrupt that was due.                                   *)
LEMMA RaiseIrqCounts ==
  ASSUME TimersInv, CountingInv, NEW t \in Tasks, RaiseIrq(t)
  PROVE  CountingInv'
<1>1. /\ TimersInv' /\ Inside(t) /\ At(t, "raise") /\ ~At(t, "failed")
      /\ UnitsTyped /\ TasksTyped /\ "raise" \in Places
  BY RaiseIrqInv, Parts DEF RaiseIrq, Inside, At, UnitsSound, Places
<1>2. /\ UNCHANGED <<unit, elapsed, steady>> /\ Advance(t)
      /\ raised' = [raised EXCEPT ![Current(t)] = @ + 1]
      /\ lock' = [lock EXCEPT ![Current(t)] = Nobody]
  BY DEF RaiseIrq, Advance
<1>3. \A b \in Tasks \ {t} : task'[b] = task[b]
  BY <1>1, <1>2, Moves
<1>4. \A v \in AllUnits \ {Current(t)} : Still(v) /\ lock'[v] = lock[v]
  BY <1>1, <1>2 DEF Still, Same, unit, UnitsTyped, TimersInv, TypeOK
<1>5. ASSUME NEW u \in Range(Units["iop"]), u = Current(t), NobodyFailed', Exact(u)
      PROVE  Exact(u)'
  <2>1. u \in AllUnits /\ Stage(u) = "raise"
    <3>1. u \in AllUnits
      BY DEF AllUnits, Controllers
    <3> QED
      BY <1>1, <1>5, <3>1, Stages DEF At
  <2>2. lock'[u] = Nobody /\ raised'[u] = raised[u] + 1
    BY <1>1, <1>2, <1>5, <2>1 DEF UnitsTyped, TimersInv, TypeOK
  <2>3. Stage(u)' = "free"
    BY <2>2 DEF Stage
  <2>4. \A n : ShowsAfter(u, n)' = ShowsAfter(u, n) /\ Due(u, n)' = Due(u, n)
    BY <1>2, <2>1, SameDue DEF unit
  <2>5. Underway(u) => Counted(u, elapsed[u])'
    BY <1>2, <2>1, <2>2, <2>4 DEF Underway, Counted, unit
  <2> QED
    BY <1>2, <1>5, <2>1, <2>3, <2>5 DEF Exact, Underway, unit
<1> QED
  BY <1>1, <1>3, <1>4, <1>5, OtherUnits

(* Count: the prescaler of the IOP lets every tick through.                *)
LEMMA CountCounts ==
  ASSUME TimersInv, CountingInv, NEW t \in Tasks, Count(t)
  PROVE  CountingInv'
<1> DEFINE place == IF prescale[Current(t)].count + 1 >= prescale[Current(t)].target
                    THEN "store" ELSE "check"
<1>1. /\ TimersInv' /\ Inside(t) /\ At(t, "count") /\ ~At(t, "failed")
      /\ UnitsTyped /\ TasksTyped /\ LocksTyped
  BY CountInv, Parts DEF Count, Inside, At, UnitsSound
<1>2. /\ UNCHANGED <<mode, latch, count, compare, overflowed, lock, history>>
      /\ task' = [task EXCEPT ![t] = [task[t] EXCEPT !.at = place, !.read = count[Current(t)]]]
      /\ prescale' = [prescale EXCEPT ![Current(t)].count =
                        IF prescale[Current(t)].count + 1 >= prescale[Current(t)].target
                        THEN @ + 1 - prescale[Current(t)].target ELSE @ + 1]
  BY DEF Count
<1>3. (\A b \in Tasks \ {t} : task'[b] = task[b]) /\ task'[t].at = place
  BY <1>1, <1>2 DEF TasksTyped, TaskRecords
<1>4. \A v \in AllUnits \ {Current(t)} : Still(v) /\ lock'[v] = lock[v]
  BY <1>1, <1>2 DEF Still, Same, history, UnitsTyped
<1>5. ASSUME NEW u \in Range(Units["iop"]), u = Current(t), NobodyFailed', Exact(u)
      PROVE  Exact(u)'
  <2>1. u \in AllUnits
    BY DEF AllUnits, Controllers
  <2>2. lock[u] = t /\ Stage(u) = "count"
    BY <1>1, <1>5, <2>1, Stages, HoldsIt DEF At
  <2>3. prescale[u] = [target |-> 1, count |-> 0]
    BY <1>5 DEF Exact
  <2>4. prescale[u].count + 1 >= prescale[u].target
    BY <2>3
  <2>5. place = "store" /\ prescale'[u] = [prescale[u] EXCEPT !.count = @ + 1 - prescale[u].target]
    BY <1>1, <1>2, <1>5, <2>1, <2>4 DEF UnitsTyped
  <2>6. prescale'[u] = prescale[u]
    BY <2>3, <2>5
  <2>7. Stage(u)' = "store"
    <3>1. t # Nobody
      BY TimersAssumption
    <3> QED
      BY <1>2, <1>3, <2>2, <2>5, <3>1 DEF Stage
  <2>8. \A n : ShowsAfter(u, n)' = ShowsAfter(u, n) /\ Due(u, n)' = Due(u, n)
    BY <1>2, <2>1, SameDue
  <2>9. Underway(u) => Underway(u)'
    <3> HIDE DEF place
    <3> QED
      BY <1>2, <2>2, <2>7, <2>8 DEF Underway, Counted, history
  <2> QED
    BY <1>2, <1>5, <2>2, <2>6, <2>7, <2>9 DEF Exact, history
<1> QED
  BY <1>1, <1>3, <1>4, <1>5, OtherUnits

(* Store: what it read is still there, unless a program wrote COUNT.       *)
LEMMA StoreCounts ==
  ASSUME TimersInv, CountingInv, NEW t \in Tasks, Store(t)
  PROVE  CountingInv'
<1>1. /\ TimersInv' /\ Inside(t) /\ At(t, "store") /\ ~At(t, "failed")
      /\ UnitsTyped /\ TasksTyped /\ LocksTyped /\ "check" \in Places /\ Exclusive(t)
  BY StoreInv, Parts DEF Store, Inside, At, UnitsSound, Places
<1>2. /\ UNCHANGED <<mode, latch, compare, prescale, lock, history>> /\ Goto(t, "check")
      /\ count' = [count EXCEPT ![Current(t)] = Wrap(Current(t), task[t].read + 1)]
      /\ overflowed' = [overflowed EXCEPT
                          ![Current(t)] = @ \/ task[t].read + 1 > MaxOf(Current(t))]
  BY DEF Store
<1>3. (\A b \in Tasks \ {t} : task'[b] = task[b]) /\ task'[t].at = "check"
  BY <1>1, <1>2, Moves
<1>4. \A v \in AllUnits \ {Current(t)} : Still(v) /\ lock'[v] = lock[v]
  BY <1>1, <1>2 DEF Still, Same, history, UnitsTyped
<1>5. ASSUME NEW u \in Range(Units["iop"]), u = Current(t), NobodyFailed', Exact(u)
      PROVE  Exact(u)'
  <2>1. u \in AllUnits
    BY DEF AllUnits, Controllers
  <2>2. lock[u] = t /\ Stage(u) = "store"
    BY <1>1, <1>5, <2>1, Stages, HoldsIt DEF At
  <2>3. steady[u] => task[t].read = count[u]
    BY <1>1, <1>5 DEF Exclusive
  <2>4. /\ count'[u] = Wrap(u, task[t].read + 1)
        /\ overflowed'[u] = (overflowed[u] \/ task[t].read + 1 > MaxOf(u))
    BY <1>1, <1>2, <1>5, <2>1 DEF UnitsTyped
  <2>5. Stage(u)' = "check"
    <3>1. t # Nobody
      BY TimersAssumption
    <3> QED
      BY <1>2, <1>3, <2>2, <3>1 DEF Stage
  <2>6. \A n : ShowsAfter(u, n)' = ShowsAfter(u, n) /\ Due(u, n)' = Due(u, n)
    BY <1>2, <2>1, SameDue
  <2>7. ~overflowed[u] /\ ~latch[u]
    BY <1>5, <2>2 DEF Exact
  <2>8. steady[u] /\ Underway(u) => Underway(u)'
    <3> SUFFICES ASSUME steady[u], Underway(u) PROVE Underway(u)'
      OBVIOUS
    <3> DEFINE n == elapsed[u] - 1
    <3>1. Counted(u, n) /\ n \in Nat
      BY <2>2 DEF Underway
    <3>2. UNCHANGED <<elapsed, raised>> /\ task[t].read = ShowsAfter(u, n)
      BY <1>2, <2>3, <3>1 DEF Counted, history
    <3>3. count'[u] = Wrap(u, ShowsAfter(u, n) + 1) /\ raised'[u] = Due(u, n)
      BY <2>4, <3>1, <3>2 DEF Counted
    <3>4. overflowed'[u] = (ShowsAfter(u, n) + 1 > MaxOf(u))
      BY <2>4, <2>7, <3>2
    <3> QED
      BY <2>5, <2>6, <3>1, <3>2, <3>3, <3>4 DEF Underway, Wrap, MaxOf
  <2> QED
    BY <1>2, <1>5, <2>2, <2>5, <2>7, <2>8 DEF Exact, history
<1> QED
  BY <1>1, <1>3, <1>4, <1>5, OtherUnits

(* What Flagged leaves alone.                                              *)
LEMMA FlaggedSame ==
  ASSUME NEW u \in AllUnits, mode[u] \in IopMode, NEW o, NEW reached, NEW answered
  PROVE  LET new == Flagged(u, o, reached, answered)
         IN  /\ new.RESET_MODE = mode[u].RESET_MODE
             /\ new.IRQ_ON_TARGET = mode[u].IRQ_ON_TARGET
             /\ new.IRQ_ON_OF = mode[u].IRQ_ON_OF
BY DEF Flagged, IopMode

(* Check: COUNT comes around, and raises its interrupt, when it should.    *)
LEMMA CheckCounts ==
  ASSUME TimersInv, CountingInv, NEW t \in Tasks, Check(t)
  PROVE  CountingInv'
<1> DEFINE w == Current(t)
           over == overflowed[w]
           value == IF over /\ ~mode[w].RESET_MODE THEN 0 ELSE count[w]
           hit == value = compare[w]
           interrupt == \/ mode[w].IRQ_ON_TARGET /\ hit
                        \/ mode[w].IRQ_ON_OF /\ over
           throws == interrupt /\ (~mode[w].IRQ_REPEAT \/ mode[w].IRQ_TOGGLE)
<1>1. /\ TimersInv' /\ Inside(t) /\ At(t, "check") /\ ~At(t, "failed") /\ w \in AllUnits
      /\ UnitsTyped /\ TasksTyped /\ LocksTyped /\ "raise" \in Places /\ Exclusive(t)
  BY CheckInv, Parts, CurrentUnit DEF Check, Inside, At, UnitsSound, Places, TimersInv
<1>2. /\ UNCHANGED <<latch, compare, prescale, history>>
      /\ overflowed' = [overflowed EXCEPT ![w] = FALSE]
      /\ count' = [count EXCEPT ![w] = IF hit /\ mode[w].RESET_MODE THEN 0 ELSE value]
      /\ mode' = [mode EXCEPT ![w] = Flagged(w, over, hit, interrupt /\ ~throws)]
      /\ IF throws THEN Throw(t)
         ELSE IF interrupt THEN Goto(t, "raise") /\ UNCHANGED lock
         ELSE Advance(t)
  BY Zenon DEF Check
<1>3. \A b \in Tasks \ {t} : task'[b] = task[b]
  <2>1. Throw(t) \/ Goto(t, "raise") \/ Advance(t)
    BY <1>2
  <2> QED
    BY <1>1, <2>1, Moves
<1>4. mode[w] \in IopMode
  <2>1. Controller(w) = "iop"
    BY <1>1, CurrentUnit, UnitOf DEF TimersInv, Exclusive
  <2> QED
    BY <1>1, <2>1 DEF UnitsTyped
<1>5. \A v \in AllUnits : Same(v)
  <2>1. Flagged(w, over, hit, interrupt /\ ~throws).RESET_MODE = mode[w].RESET_MODE
    BY <1>1, <1>4, FlaggedSame
  <2>2. Flagged(w, over, hit, interrupt /\ ~throws).IRQ_ON_TARGET = mode[w].IRQ_ON_TARGET
    BY <1>1, <1>4, FlaggedSame
  <2>3. Flagged(w, over, hit, interrupt /\ ~throws).IRQ_ON_OF = mode[w].IRQ_ON_OF
    BY <1>1, <1>4, FlaggedSame
  <2> DEFINE new == Flagged(w, over, hit, interrupt /\ ~throws)
  <2>4. mode' = [mode EXCEPT ![w] = new]
    BY <1>2
  <2> HIDE DEF new
  <2>5. new.RESET_MODE = mode[w].RESET_MODE /\ new.IRQ_ON_TARGET = mode[w].IRQ_ON_TARGET
        /\ new.IRQ_ON_OF = mode[w].IRQ_ON_OF
    BY <2>1, <2>2, <2>3 DEF new
  <2> QED
    BY <1>1, <1>2, <2>4, <2>5 DEF Same, UnitsTyped
<1>6. \A v \in AllUnits \ {w} : Still(v) /\ lock'[v] = lock[v]
  <2>1. \A v \in AllUnits \ {w} : lock'[v] = lock[v]
    BY <1>1, <1>2 DEF LocksTyped, Throw, Advance
  <2>2. \A v \in AllUnits \ {w} : count'[v] = count[v] /\ overflowed'[v] = overflowed[v]
    BY <1>1, <1>2 DEF UnitsTyped
  <2> QED
    BY <1>2, <1>5, <2>1, <2>2 DEF Still, history
<1>7. ASSUME NEW u \in Range(Units["iop"]), u = w, NobodyFailed', Exact(u)
      PROVE  Exact(u)'
  <2>1. u \in AllUnits /\ t # Nobody
    BY TimersAssumption DEF AllUnits, Controllers
  <2>2. lock[u] = t /\ Stage(u) = "check"
    BY <1>1, <1>7, <2>1, Stages, HoldsIt DEF At
  <2>3. ~latch[u]
    BY <1>7, <2>2 DEF Exact
  <2>4. /\ ~overflowed'[u]
        /\ count'[u] = IF hit /\ mode[w].RESET_MODE THEN 0 ELSE value
    BY <1>1, <1>2, <1>7 DEF UnitsTyped
  <2>5. Stage(u)' = IF interrupt THEN "raise" ELSE "free"
    <3>1. ~Throw(t)
      BY <1>1, <1>7, Moves DEF NobodyFailed
    <3>2. CASE interrupt
      <4>1. task'[t].at = "raise" /\ lock'[u] = t
        BY <1>1, <1>2, <2>2, <3>1, <3>2, Moves
      <4> QED
        BY <2>1, <3>2, <4>1 DEF Stage
    <3>3. CASE ~interrupt
      <4>1. lock'[u] = Nobody
        BY <1>1, <1>2, <1>7, <3>1, <3>3 DEF Advance, LocksTyped
      <4> QED
        BY <3>3, <4>1 DEF Stage
    <3> QED
      BY <3>2, <3>3
  <2>6. \A n : ShowsAfter(u, n)' = ShowsAfter(u, n) /\ Due(u, n)' = Due(u, n)
    BY <1>5, <2>1, SameDue DEF Same
  <2>7. Underway(u) => Underway(u)'
    <3> SUFFICES ASSUME Underway(u) PROVE Underway(u)'
      OBVIOUS
    <3> DEFINE n == elapsed[u] - 1
               c == ShowsAfter(u, n)
    <3>1. /\ n \in Nat /\ count[u] = Wrap(u, c + 1) /\ raised[u] = Due(u, n)
          /\ overflowed[u] = (c + 1 > MaxOf(u))
      BY <2>2 DEF Underway
    <3>2. n + 1 = elapsed[u] /\ UNCHANGED <<elapsed, raised>>
      BY <1>1, <1>2, <2>1 DEF UnitsTyped, history
    <3>3. value = Ticked(u, c)
      BY <1>7, <3>1 DEF Ticked
    <3>4. /\ ShowsAfter(u, n + 1) = IF Ticked(u, c) = compare[u] /\ mode[u].RESET_MODE
                                    THEN 0 ELSE Ticked(u, c)
          /\ Hits(u, n + 1) <=> Ticked(u, c) = compare[u]
          /\ Overflows(u, n + 1) <=> c + 1 > MaxOf(u)
      BY <1>1, <2>1, <3>1, ShowsNext
    <3>5. hit <=> Hits(u, n + 1)
      BY <1>7, <3>3, <3>4
    <3>6. over <=> Overflows(u, n + 1)
      BY <1>7, <3>1, <3>4
    <3>7. interrupt <=> Comes(u, n + 1)
      BY <1>7, <3>5, <3>6 DEF Comes
    <3>8. count'[u] = ShowsAfter(u, n + 1)
      BY <1>7, <2>4, <3>3, <3>4
    <3>9. Due(u, n + 1) = IF interrupt THEN Due(u, n) + 1 ELSE Due(u, n)
      BY <2>1, <3>1, <3>7, DueNext
    <3> HIDE DEF n, c, interrupt, hit, value, over, throws
    <3>10. count'[u] = ShowsAfter(u, elapsed[u])' /\ elapsed'[u] = elapsed[u]
      BY <2>6, <3>2, <3>8
    <3>11. raised'[u] = raised[u] /\ raised[u] = Due(u, n)
      BY <3>1, <3>2
    <3>12. Due(u, elapsed[u])' = Due(u, n + 1)
      BY <2>6, <3>2
    <3>13. elapsed'[u] - 1 \in Nat
      BY <3>1, <3>2 DEF n
    <3>14. Stage(u)' \notin {"count", "store", "check"}
      BY <2>5
    <3> QED
      BY <2>5, <3>9, <3>10, <3>11, <3>12, <3>13, <3>14 DEF Underway, Counted
  <2> QED
    BY <1>2, <1>7, <2>3, <2>4, <2>7 DEF Exact, history
<1> QED
  <2> HIDE DEF w
  <2> QED
    BY <1>1, <1>3, <1>6, <1>7, OtherUnits DEF w

(* Take: a unit whose MODE has been written starts from zero.              *)
LEMMA TakeCounts ==
  ASSUME TimersInv, CountingInv, NEW t \in Tasks, Take(t)
  PROVE  CountingInv'
<1> DEFINE w == Current(t)
           counts == Counts(t) /\ ~Gated(w)
<1>1. /\ TimersInv' /\ At(t, "take") /\ ~At(t, "failed") /\ w \in AllUnits /\ lock[w] = Nobody
      /\ UnitsTyped /\ TasksTyped /\ LocksTyped /\ "count" \in Places /\ t # Nobody
  BY TakeInv, Parts, CurrentUnit, TimersAssumption DEF Take, At, UnitsSound, Places, TimersInv
<1>2. UNCHANGED <<mode, compare, overflowed>>
  BY DEF Take
<1>3. Throw(t) \/ (Tick(t) /\ (Advance(t) \/ (Goto(t, "count") /\ lock' = [lock EXCEPT ![w] = t])))
  BY DEF Take, Tick
<1>4. \A b \in Tasks \ {t} : task'[b] = task[b]
  BY <1>1, <1>3, Moves
<1>5. \A v \in AllUnits \ {w} : lock'[v] = lock[v]
  BY <1>1, <1>3 DEF LocksTyped, Throw, Advance
<1>6. \A v \in AllUnits \ {w} : Still(v)
  <2>1. CASE UNCHANGED <<latch, count, prescale, history>>
    BY <1>2, <2>1 DEF Still, Same, history
  <2>2. CASE Tick(t)
    <3>1. Restart(w) /\ \A v \in AllUnits \ {w} : elapsed'[v] = elapsed[v]
      <4>1. elapsed' = [elapsed EXCEPT ![w] = IF counts THEN IF latch[w] THEN 1 ELSE @ + 1
                                              ELSE IF latch[w] THEN 0 ELSE @]
        BY <2>2 DEF Tick
      <4> HIDE DEF counts
      <4> QED
        BY <1>1, <2>2, <4>1 DEF Tick, UnitsTyped
    <3>2. \A v \in AllUnits \ {w} :
            /\ latch'[v] = latch[v] /\ count'[v] = count[v] /\ prescale'[v] = prescale[v]
            /\ raised'[v] = raised[v] /\ steady'[v] = steady[v]
      BY <1>1, <3>1 DEF Restart, UnitsTyped
    <3> QED
      BY <1>2, <3>1, <3>2 DEF Still, Same
  <2>3. UNCHANGED <<latch, count, prescale, history>> \/ Tick(t)
    BY DEF Take
  <2> QED
    BY <2>1, <2>2, <2>3
<1>7. ASSUME NEW u \in Range(Units["iop"]), u = w, NobodyFailed', Exact(u)
      PROVE  Exact(u)'
  <2>1. u \in AllUnits
    BY DEF AllUnits, Controllers
  <2>2. Stage(u) = "free" /\ ~overflowed[u] /\ prescale[u] = [target |-> 1, count |-> 0]
    BY <1>1, <1>7, <2>1, Stages DEF Exact
  <2>3. Tick(t) /\ IF counts THEN Goto(t, "count") /\ lock' = [lock EXCEPT ![u] = t] ELSE Advance(t)
    <3>1. ~Throw(t)
      BY <1>1, <1>7, Moves DEF NobodyFailed
    <3> QED
      BY <1>7, <3>1 DEF Take, Tick
  <2>4. elapsed' = [elapsed EXCEPT ![u] = IF counts THEN IF latch[u] THEN 1 ELSE @ + 1
                                          ELSE IF latch[u] THEN 0 ELSE @]
    BY <1>7, <2>3 DEF Tick
  <2>5. Stage(u)' = IF counts THEN "count" ELSE "free"
    <3>1. counts => lock'[u] = t /\ task'[t].at = "count"
      BY <1>1, <2>1, <2>3, Moves DEF LocksTyped
    <3>2. ~counts => lock'[u] = Nobody
      BY <1>1, <1>7, <2>1, <2>3 DEF Advance, LocksTyped
    <3> HIDE DEF counts
    <3> QED
      BY <1>1, <3>1, <3>2 DEF Stage
  <2>6. \A n : ShowsAfter(u, n)' = ShowsAfter(u, n) /\ Due(u, n)' = Due(u, n)
    BY <1>2, <2>1, SameDue
  <2>7. Restart(u) /\ elapsed \in [AllUnits -> Nat]
    BY <1>1, <1>7, <2>3 DEF Tick, UnitsTyped
  <2> HIDE DEF counts, w
  <2>8. CASE latch[u]
    <3>1. /\ count'[u] = 0 /\ ~latch'[u] /\ raised'[u] = 0
          /\ prescale'[u] = [target |-> Prescale(u), count |-> 0]
      BY <1>1, <2>1, <2>7, <2>8 DEF Restart, UnitsTyped
    <3>2. Prescale(u) = 1
      BY <2>1, UnitOf DEF Prescale
    <3>3. elapsed'[u] = IF counts THEN 1 ELSE 0
      BY <2>1, <2>4, <2>7, <2>8
    <3>4. Counted(u, 0)'
      <4>1. ShowsAfter(u, 0) = 0 /\ Due(u, 0) = 0
        BY <1>1, <2>1, ShowsNext, DueNext
      <4> QED
        BY <2>6, <3>1, <4>1 DEF Counted
    <3>5. Underway(u)'
      <4>1. CASE counts
        <5>1. elapsed'[u] - 1 = 0 /\ Stage(u)' = "count"
          BY <2>5, <3>3, <4>1
        <5> QED
          BY <3>4, <5>1 DEF Underway
      <4>2. CASE ~counts
        BY <2>5, <3>3, <3>4, <4>2 DEF Underway
      <4> QED
        BY <4>1, <4>2
    <3> QED
      BY <1>2, <2>2, <3>1, <3>2, <3>5 DEF Exact
  <2>9. CASE ~latch[u]
    <3>1. UNCHANGED <<count, latch, prescale, raised, steady>>
      BY <2>7, <2>9 DEF Restart
    <3>2. elapsed'[u] = IF counts THEN elapsed[u] + 1 ELSE elapsed[u]
      BY <2>1, <2>4, <2>7, <2>9
    <3>3. steady[u] => Counted(u, elapsed[u])
      BY <1>7, <2>2, <2>9 DEF Exact, Underway
    <3>4. steady[u] => \A n : n = elapsed[u] => Counted(u, n)'
      BY <2>6, <3>1, <3>3 DEF Counted
    <3>5. steady[u] => Underway(u)'
      <4>1. CASE counts
        <5>1. elapsed'[u] - 1 = elapsed[u] /\ elapsed[u] \in Nat /\ Stage(u)' = "count"
          BY <2>1, <2>5, <2>7, <3>2, <4>1
        <5> QED
          BY <3>4, <5>1 DEF Underway
      <4>2. CASE ~counts
        BY <2>5, <3>2, <3>4, <4>2 DEF Underway
      <4> QED
        BY <4>1, <4>2
    <3> QED
      BY <1>2, <2>2, <2>9, <3>1, <3>5 DEF Exact
  <2> QED
    BY <2>8, <2>9
<1> QED
  <2> HIDE DEF w
  <2> QED
    BY <1>1, <1>4, <1>5, <1>6, <1>7, OtherUnits DEF w

(* The programs and the start of a block.                                  *)
LEMMA ProgramCounts ==
  ASSUME TimersInv, CountingInv, NEW u \in AllUnits, Program(u)
  PROVE  CountingInv'
<1>1. UnitsTyped
  BY Parts DEF UnitsSound
<1>2. CASE WriteMode(u)
  <2>1. /\ lock[u] = Nobody /\ latch' = [latch EXCEPT ![u] = TRUE]
        /\ \E value : mode' = [mode EXCEPT ![u] = value]
        /\ UNCHANGED <<count, compare, prescale, overflowed, lock, task, history>>
    BY <1>2 DEF WriteMode
  <2>2. \A v \in AllUnits \ {u} : Still(v)
    BY <1>1, <2>1 DEF Still, Same, UnitsTyped, history
  <2>3. latch'[u] /\ lock[u] = Nobody
    BY <1>1, <2>1 DEF UnitsTyped
  <2> QED
    BY <2>1, <2>2, <2>3, ProgramExact
<1>3. CASE WriteCount(u) \/ WriteCompare(u)
  <2>1. /\ steady' = [steady EXCEPT ![u] = FALSE]
        /\ \E value : \/ count' = [count EXCEPT ![u] = value] /\ compare' = compare
                      \/ compare' = [compare EXCEPT ![u] = value] /\ count' = count
        /\ UNCHANGED <<mode, latch, prescale, overflowed, lock, task, elapsed, raised>>
    BY <1>3 DEF WriteCount, WriteCompare
  <2>2. \A v \in AllUnits \ {u} : Still(v)
    BY <1>1, <2>1 DEF Still, Same, UnitsTyped
  <2>3. ~steady'[u]
    BY <1>1, <2>1 DEF UnitsTyped
  <2> QED
    BY <2>1, <2>2, <2>3, ProgramExact
<1>4. CASE Acknowledge(u)
  BY <1>4, ProgramExact DEF Acknowledge, Still, Same, unit, history
<1> QED
  BY <1>2, <1>3, <1>4 DEF Program

LEMMA BlockCounts ==
  ASSUME TimersInv, CountingInv, Block
  PROVE  CountingInv'
<1> SUFFICES ASSUME NobodyFailed', NEW u \in Range(Units["iop"]) PROVE Exact(u)'
  BY DEF CountingInv
<1>1. u \in AllUnits /\ UNCHANGED <<unit, lock, history>> /\ \A t \in Tasks : task[t].at = "idle"
  BY DEF Block, AllUnits, Controllers
<1>2. lock[u] = Nobody
  <2>1. lock[u] \in Tasks \cup {Nobody} /\ \A t \in Tasks : Exclusive(t) /\ ~Inside(t)
    BY <1>1 DEF TimersInv, TypeOK, Inside
  <2> QED
    BY <1>1, <2>1 DEF Exclusive
<1>3. Stage(u)' = Stage(u)
  BY <1>1, <1>2 DEF Stage
<1>4. Exact(u) /\ Still(u)
  BY <1>1 DEF CountingInv, NobodyFailed, At, Still, Same, unit, history
<1> QED
  BY <1>1, <1>3, <1>4, StillExact

LEMMA InitCounts == Init => CountingInv
<1> SUFFICES ASSUME Init, NEW u \in Range(Units["iop"]) PROVE Exact(u)
  BY DEF CountingInv
<1>1. TimersInv /\ UnitsTyped /\ u \in AllUnits
  BY InitInv, Parts DEF UnitsSound, AllUnits, Controllers
<1>2. /\ count[u] = 0 /\ raised[u] = 0 /\ elapsed[u] = 0 /\ ~overflowed[u] /\ lock[u] = Nobody
      /\ prescale[u] = [target |-> 1, count |-> 0]
  BY <1>1 DEF Init
<1>3. ShowsAfter(u, 0) = 0 /\ Due(u, 0) = 0
  BY <1>1, ShowsNext, DueNext
<1> QED
  BY <1>2, <1>3 DEF Exact, Underway, Counted, Stage
-----------------------------------------------------------------------------
(* However the tasks of a block and the programs' writes fall, a unit of   *)
(* the IOP that nobody is ticking shows a count for each event of its      *)
(* source since it was restarted and has raised an interrupt for each time *)
(* that it came around, whatever its width, its target and its mode        *)
(* (CIopTimers.cpp:52-178).                                                *)
THEOREM Counting == Spec => []CountsEachTick
<1>1. Init => TimersInv /\ CountingInv
  BY InitInv, InitCounts
<1>2. TimersInv /\ CountingInv /\ [Next]_vars => CountingInv'
  <2> SUFFICES ASSUME TimersInv, CountingInv, [Next]_vars PROVE CountingInv'
    OBVIOUS
  <2>1. CASE Block
    BY <2>1, BlockCounts
  <2>2. ASSUME NEW t \in Tasks, TaskStep(t) PROVE CountingInv'
    BY <2>2, TakeCounts, CountCounts, StoreCounts, CheckCounts, RaiseIrqCounts DEF TaskStep
  <2>3. ASSUME NEW u \in AllUnits, Program(u) PROVE CountingInv'
    BY <2>3, ProgramCounts
  <2>4. CASE UNCHANGED vars
    BY <2>4, ProgramExact DEF vars, unit, history, Still, Same
  <2> QED
    BY <2>1, <2>2, <2>3, <2>4 DEF Next
<1>3. TimersInv /\ CountingInv => CountsEachTick
  <2> SUFFICES ASSUME TimersInv, CountingInv, NEW u \in Range(Units["iop"]),
                      lock[u] = Nobody, ~latch[u], steady[u], NobodyFailed
               PROVE  Counted(u, elapsed[u])
    BY DEF CountsEachTick, Counted, NobodyFailed
  <2>1. u \in AllUnits /\ Exact(u)
    BY DEF CountingInv, AllUnits, Controllers
  <2>2. Stage(u) = "free"
    BY DEF Stage
  <2> QED
    BY <2>1, <2>2 DEF Exact, Underway
<1> QED
  BY <1>1, <1>2, <1>3, TimersInvariance, PTL DEF Spec
=============================================================================
