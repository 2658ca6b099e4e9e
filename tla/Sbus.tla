-------------------------------- MODULE Sbus --------------------------------
(***************************************************************************)
(* The SBUS registers that the EE and the IOP share                        *)
(* (liborbum/src/Resources/SbusRegisters.cpp), taken apart into the reads  *)
(* and writes of which their updates consist.  A write over a bus holds    *)
(* the register's scope lock for its whole duration; the updates of F240   *)
(* by the CHCR registers of the SIF channels (EeDmacChannelRegisters.cpp   *)
(* and IopDmacChannelRegisters.cpp) do not.  Neither DMAC ever looks at    *)
(* F240, and EeDmac and IopDmac leave its updates to this module.          *)
(***************************************************************************)
EXTENDS Integers, Sequences, FiniteSets

CONSTANTS
  Registers,      \* the registers in use, of "MSCOM", "MSFLG", "SMFLG", "F240"
  Values,         \* the values written over the buses: sets of bits
  MaxJobs,        \* bound: updates that begin
  Nobody          \* holds no lock

\* The threads that run the two cores and the two DMACs.
Actors == {"EeCore", "IopCore", "EeDmac", "IopDmac"}
Cores == {"EeCore", "IopCore"}

ASSUME SbusAssumption ==
  /\ Registers \subseteq {"MSCOM", "MSFLG", "SMFLG", "F240"}
  /\ Values \subseteq SUBSET (0..15) /\ MaxJobs \in Nat /\ Nobody \notin Actors

VARIABLES
  register,   \* the bits that are set in each
  lock,       \* who holds the scope lock of each
  job,        \* what each thread is doing
  jobs
vars == <<register, lock, job, jobs>>

\* The steps of a read-modify-write each: bits to clear, to set and to toggle.
Set(bits) == [clr |-> {}, set |-> bits, toggle |-> {}]
Clear(bits) == [clr |-> bits, set |-> {}, toggle |-> {}]
Toggle(bits) == [clr |-> {}, set |-> {}, toggle |-> bits]
\* All the bits that are to be toggled are cleared when one of them is set.
Apply(old, s) ==
  LET v == (old \ s.clr) \cup s.set
  IN  IF v \cap s.toggle # {} THEN v \ s.toggle ELSE v \cup s.toggle

Done == [register |-> "none", scoped |-> FALSE, at |-> "idle", steps |-> <<>>, read |-> {}]
Init == /\ register = [r \in Registers |-> {}] /\ lock = [r \in Registers |-> Nobody]
        /\ job = [a \in Actors |-> Done] /\ jobs = 0
-----------------------------------------------------------------------------
\* SbusRegister_F240::byte_bus_write_uword.
F240Steps(core, v) ==
  IF core = "EeCore" THEN <<[Set(v \cap {8}) EXCEPT !.clr = {8}]>>
  ELSE (IF v \cap {5, 7} # {} THEN <<Clear(12..15), Set({13})>> ELSE <<>>)
       \o <<Toggle(v \cap 4..7)>>

\* What a core's write of v to each register does, under the lock.
Steps(core, r, v) ==
  CASE r = "MSCOM" -> IF core = "EeCore" THEN <<[Set(v) EXCEPT !.clr = 0..15]>> ELSE <<>>
    [] r = "MSFLG" -> IF core = "EeCore" THEN <<Set(v)>> ELSE <<Clear(v)>>
    [] r = "SMFLG" -> IF core = "EeCore" THEN <<Clear(v)>> ELSE <<Set(v)>>
    [] r = "F240" -> F240Steps(core, v)

(* handle_sbus_update_start, when a core starts SIF1 (the EE), SIF0 (the   *)
(* IOP) or SIF2; _finish, at the end of SIF0 (the EE), SIF1 (the IOP) or   *)
(* SIF2, by the DMAC or by a core that writes CHCR.                        *)
StartSteps(ee) == {<<Set({IF ee THEN 14 ELSE 13})>>, <<Set({15})>>}
FinishSteps(ee) == {IF ee THEN <<Clear({5}), Clear({13})>> ELSE <<Clear({6}), Clear({14})>>,
                    <<Clear({7}), Clear({15})>>}

Begin(a, j) == /\ job[a] = Done /\ jobs < MaxJobs
               /\ job' = [job EXCEPT ![a] = j] /\ jobs' = jobs + 1
               /\ UNCHANGED <<register, lock>>

BusWrite(core, r, v) ==
  Begin(core, [register |-> r, scoped |-> TRUE, at |-> "lock",
               steps |-> Steps(core, r, v), read |-> {}])

ChcrUpdate(a) ==
  LET ee == a \in {"EeCore", "EeDmac"}
  IN  /\ "F240" \in Registers
      /\ \E steps \in FinishSteps(ee) \cup (IF a \in Cores THEN StartSteps(ee) ELSE {}) :
           Begin(a, [register |-> "F240", scoped |-> FALSE, at |-> "read",
                     steps |-> steps, read |-> {}])

Goto(a, at) == job' = [job EXCEPT ![a].at = at]

\* Mutant: nobody waits for the lock.
LockNever(a) == job[a].at = "lock" /\ Goto(a, "read") /\ UNCHANGED <<register, lock, jobs>>

Lock(a) ==
  /\ job[a].at = "lock" /\ lock[job[a].register] = Nobody
  /\ lock' = [lock EXCEPT ![job[a].register] = a]
  /\ Goto(a, "read") /\ UNCHANGED <<register, jobs>>

Read(a) ==
  /\ job[a].at = "read" /\ job[a].steps # <<>>
  /\ job' = [job EXCEPT ![a].at = "write", ![a].read = register[job[a].register]]
  /\ UNCHANGED <<register, lock, jobs>>

Write(a) ==
  /\ job[a].at = "write"
  /\ register' = [register EXCEPT ![job[a].register] = Apply(job[a].read, Head(job[a].steps))]
  /\ job' = [job EXCEPT ![a].at = "read", ![a].steps = Tail(@)]
  /\ UNCHANGED <<lock, jobs>>

Return(a) ==
  /\ job[a].at = "read" /\ job[a].steps = <<>>
  /\ lock' = IF job[a].scoped THEN [lock EXCEPT ![job[a].register] = Nobody] ELSE lock
  /\ job' = [job EXCEPT ![a] = Done]
  /\ UNCHANGED <<register, jobs>>

Work(a) == Lock(a) \/ Read(a) \/ Write(a) \/ Return(a)
Next == \/ \E a \in Actors : Work(a) \/ ChcrUpdate(a)
        \/ \E core \in Cores, r \in Registers, v \in Values : BusWrite(core, r, v)
Spec == Init /\ [][Next]_vars
-----------------------------------------------------------------------------
(* A bit of the register comes or goes only by a write that is about that  *)
(* bit: no update is lost, nor undone by another that had read before it.  *)
Kept(r) ==
  \A b \in (register'[r] \ register[r]) \cup (register[r] \ register'[r]) :
    \E a \in Actors :
      /\ job[a].register = r /\ job[a].at = "write" /\ job'[a].at = "read"
      /\ b \in Head(job[a].steps).clr \cup Head(job[a].steps).set \cup Head(job[a].steps).toggle

Bits == 0..15
Step == [clr : SUBSET Bits, set : SUBSET Bits, toggle : SUBSET Bits]
Job == [register : Registers \cup {"none"}, scoped : BOOLEAN,
        at : {"idle", "lock", "read", "write"}, steps : Seq(Step), read : SUBSET Bits]
TypeOK ==
  /\ register \in [Registers -> SUBSET Bits] /\ lock \in [Registers -> Actors \cup {Nobody}]
  /\ job \in [Actors -> Job] /\ jobs \in 0..MaxJobs

(* Why nothing is lost: whoever is in the middle of a bus write holds the  *)
(* lock, only F240 is updated by anybody else, and what was read of the    *)
(* other registers is still there when it is written back.                 *)
LockDiscipline ==
  \A a \in Actors :
    /\ job[a].at # "idle" => job[a].register \in Registers
    /\ job[a].scoped \/ job[a].register \in {"F240", "none"}
    /\ job[a].scoped /\ job[a].at \in {"read", "write"} => lock[job[a].register] = a
    /\ job[a].at = "write" /\ job[a].register # "F240"
         => job[a].read = register[job[a].register]
    /\ job[a].at = "write" => job[a].steps # <<>>

(* Both, which every step preserves (ScopeLock.hpp:5, SbusRegisters.cpp).  *)
SbusInv == TypeOK /\ LockDiscipline

(* MSFLG and SMFLG: no flag that the EE raises is lost while the IOP       *)
(* acknowledges others, nor does an acknowledged one come back, and the    *)
(* other way round (SbusRegisters.cpp:13-35).                              *)
MailboxesKept == [][\A r \in Registers \ {"F240"} : Kept(r)]_vars
=============================================================================
