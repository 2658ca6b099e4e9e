----------------------------- MODULE SbusProofs -----------------------------
(***************************************************************************)
(* Proofs about Sbus, whatever is written to the registers.                *)
(***************************************************************************)
EXTENDS Sbus, SequenceTheorems, TLAPS

(* A read-modify-write stays within the 16 bits, and only the bits that it *)
(* is about are different after it.                                        *)
LEMMA ApplyBits ==
  ASSUME NEW old \in SUBSET Bits, NEW s \in Step
  PROVE  /\ Apply(old, s) \in SUBSET Bits
         /\ \A b \in (Apply(old, s) \ old) \cup (old \ Apply(old, s)) :
              b \in s.clr \cup s.set \cup s.toggle
<1>1. s.clr \subseteq Bits /\ s.set \subseteq Bits /\ s.toggle \subseteq Bits
  BY DEF Step
<1> QED
  BY <1>1 DEF Apply

(* What the two cores write is made of such steps.                         *)
LEMMA StepsType ==
  ASSUME NEW core \in Cores, NEW r \in Registers, NEW v \in Values
  PROVE  Steps(core, r, v) \in Seq(Step)
<1>1. v \subseteq Bits /\ r \in {"MSCOM", "MSFLG", "SMFLG", "F240"}
  BY SbusAssumption DEF Bits
<1>2. \A bits \in SUBSET Bits :
        Set(bits) \in Step /\ Clear(bits) \in Step /\ Toggle(bits) \in Step
  BY DEF Set, Clear, Toggle, Step
<1>3. /\ v \cap {8} \in SUBSET Bits /\ {8} \in SUBSET Bits /\ v \cap 4..7 \in SUBSET Bits
      /\ 12..15 \in SUBSET Bits /\ {13} \in SUBSET Bits /\ 0..15 \in SUBSET Bits
      /\ v \in SUBSET Bits
  BY <1>1 DEF Bits
<1>4. /\ [Set(v \cap {8}) EXCEPT !.clr = {8}] \in Step
      /\ [Set(v) EXCEPT !.clr = 0..15] \in Step
  BY <1>3 DEF Set, Step
<1>5. F240Steps(core, v) \in Seq(Step)
  <2>1. <<Clear(12..15), Set({13})>> \in Seq(Step) /\ <<Toggle(v \cap 4..7)>> \in Seq(Step)
    BY <1>2, <1>3
  <2>2. <<>> \in Seq(Step)
    OBVIOUS
  <2>3. <<[Set(v \cap {8}) EXCEPT !.clr = {8}]>> \in Seq(Step)
    BY <1>4
  <2> DEFINE magic == IF v \cap {5, 7} # {} THEN <<Clear(12..15), Set({13})>> ELSE <<>>
             last == <<Toggle(v \cap 4..7)>>
  <2>4. magic \in Seq(Step) /\ last \in Seq(Step)
    BY <2>1, <2>2
  <2> HIDE DEF magic, last
  <2>5. magic \o last \in Seq(Step)
    BY <2>4, ConcatProperties
  <2> QED
    BY <2>3, <2>5 DEF F240Steps, magic, last
<1>6. /\ <<[Set(v) EXCEPT !.clr = 0..15]>> \in Seq(Step) /\ <<>> \in Seq(Step)
      /\ <<Set(v)>> \in Seq(Step) /\ <<Clear(v)>> \in Seq(Step)
  BY <1>2, <1>3, <1>4
<1> QED
  BY <1>1, <1>5, <1>6 DEF Steps

(* So are the updates by the CHCR registers.                               *)
LEMMA ChcrStepsType ==
  ASSUME NEW ee \in BOOLEAN, NEW steps \in FinishSteps(ee) \cup StartSteps(ee)
  PROVE  steps \in Seq(Step)
<1>1. \A b \in Bits : Set({b}) \in Step /\ Clear({b}) \in Step
  BY DEF Set, Clear, Step
<1>2. \A b \in {5, 6, 7, 13, 14, 15} : b \in Bits
  BY DEF Bits
<1>3. /\ <<Set({14})>> \in Seq(Step) /\ <<Set({13})>> \in Seq(Step)
      /\ <<Set({15})>> \in Seq(Step)
      /\ <<Clear({5}), Clear({13})>> \in Seq(Step)
      /\ <<Clear({6}), Clear({14})>> \in Seq(Step)
      /\ <<Clear({7}), Clear({15})>> \in Seq(Step)
  BY <1>1, <1>2
<1>4. CASE ee
  BY <1>3, <1>4 DEF FinishSteps, StartSteps
<1>5. CASE ~ee
  BY <1>3, <1>5 DEF FinishSteps, StartSteps
<1> QED
  BY <1>4, <1>5

(* No register is written, no lock held and no thread busy at first.       *)
LEMMA InitInv == Init => SbusInv
<1> SUFFICES ASSUME Init PROVE SbusInv
  OBVIOUS
<1>1. Done \in Job /\ Done.at = "idle" /\ Done.register = "none" /\ Done.scoped = FALSE
  BY DEF Done, Job
<1>2. TypeOK
  BY <1>1, SbusAssumption DEF Init, TypeOK
<1>3. \A a \in Actors : job[a] = Done
  BY DEF Init
<1>4. LockDiscipline
  BY <1>1, <1>3 DEF LockDiscipline
<1> QED
  BY <1>2, <1>4 DEF SbusInv

(* A thread begins a job: it does not hold a lock yet.                     *)
LEMMA BeginInv ==
  ASSUME SbusInv, NEW a \in Actors, NEW j \in Job, Begin(a, j),
         j.register \in Registers, j.scoped \/ j.register = "F240",
         j.scoped => j.at = "lock", j.at \in {"lock", "read"}
  PROVE  SbusInv'
<1>1. TypeOK'
  BY SbusAssumption DEF SbusInv, TypeOK, Begin
<1>2. LockDiscipline'
  <2> SUFFICES ASSUME NEW b \in Actors
               PROVE  (/\ job[b].at # "idle" => job[b].register \in Registers
                       /\ job[b].scoped \/ job[b].register \in {"F240", "none"}
                       /\ job[b].scoped /\ job[b].at \in {"read", "write"}
                            => lock[job[b].register] = b
                       /\ job[b].at = "write" /\ job[b].register # "F240"
                            => job[b].read = register[job[b].register]
                       /\ job[b].at = "write" => job[b].steps # <<>>)'
    BY DEF LockDiscipline
  <2>1. CASE b = a
    <3>1. job'[b] = j
      BY <2>1 DEF Begin, SbusInv, TypeOK
    <3>2. j.register \in Registers /\ (j.scoped \/ j.register = "F240")
      OBVIOUS
    <3>3. ~(j.scoped /\ j.at \in {"read", "write"}) /\ j.at # "write"
      <4>1. "lock" # "read" /\ "lock" # "write" /\ "read" # "write"
        OBVIOUS
      <4> QED
        BY <4>1, Zenon
    <3> QED
      BY <3>1, <3>2, <3>3, Zenon
  <2>2. CASE b # a
    <3>1. job'[b] = job[b] /\ lock' = lock /\ register' = register
      BY <2>2 DEF Begin, SbusInv, TypeOK
    <3> QED
      BY <3>1 DEF SbusInv, LockDiscipline
  <2> QED
    BY <2>1, <2>2
<1> QED
  BY <1>1, <1>2 DEF SbusInv

(* Every step preserves the invariant.                                     *)
LEMMA NextInv == SbusInv /\ [Next]_vars => SbusInv'
<1> SUFFICES ASSUME SbusInv, [Next]_vars PROVE SbusInv'
  OBVIOUS
<1>t. TypeOK /\ LockDiscipline
  BY DEF SbusInv
<1> DEFINE Good(b) ==
      /\ job[b].at # "idle" => job[b].register \in Registers
      /\ job[b].scoped \/ job[b].register \in {"F240", "none"}
      /\ job[b].scoped /\ job[b].at \in {"read", "write"} => lock[job[b].register] = b
      /\ job[b].at = "write" /\ job[b].register # "F240"
           => job[b].read = register[job[b].register]
      /\ job[b].at = "write" => job[b].steps # <<>>
<1>g. \A b \in Actors : Good(b)
  BY <1>t DEF LockDiscipline
<1>h. ASSUME TypeOK', \A b \in Actors : Good(b)' PROVE SbusInv'
  BY <1>h DEF SbusInv, LockDiscipline
<1>1. ASSUME NEW core \in Cores, NEW r \in Registers, NEW v \in Values, BusWrite(core, r, v)
      PROVE  SbusInv'
  <2> DEFINE j == [register |-> r, scoped |-> TRUE, at |-> "lock",
                   steps |-> Steps(core, r, v), read |-> {}]
  <2>1. core \in Actors
    BY DEF Actors, Cores
  <2>2. j \in Job
    BY StepsType DEF Job
  <2>3. Begin(core, j)
    BY <1>1 DEF BusWrite
  <2>4. j.register \in Registers /\ j.scoped = TRUE /\ j.at = "lock"
    OBVIOUS
  <2> HIDE DEF j
  <2> QED
    BY <2>1, <2>2, <2>3, <2>4, BeginInv
<1>2. ASSUME NEW a \in Actors, ChcrUpdate(a) PROVE SbusInv'
  <2> DEFINE ee == a \in {"EeCore", "EeDmac"}
             j(steps) == [register |-> "F240", scoped |-> FALSE, at |-> "read",
                          steps |-> steps, read |-> {}]
  <2>1. PICK steps \in FinishSteps(ee) \cup (IF a \in Cores THEN StartSteps(ee) ELSE {}) :
          Begin(a, j(steps))
    BY <1>2 DEF ChcrUpdate
  <2>2. "F240" \in Registers
    BY <1>2 DEF ChcrUpdate
  <2>3. steps \in FinishSteps(ee) \cup StartSteps(ee) /\ ee \in BOOLEAN
    OBVIOUS
  <2> HIDE DEF ee
  <2>4. steps \in Seq(Step)
    BY <2>3, ChcrStepsType
  <2>5. j(steps) \in Job
    BY <2>2, <2>4 DEF Job
  <2>6. /\ j(steps).register = "F240" /\ j(steps).scoped = FALSE
        /\ j(steps).at = "read"
    OBVIOUS
  <2> HIDE DEF j
  <2> QED
    BY <2>1, <2>2, <2>5, <2>6, BeginInv
<1>3. ASSUME NEW a \in Actors, Lock(a) PROVE SbusInv'
  <2>1. TypeOK'
    <3>1. lock' = [lock EXCEPT ![job[a].register] = a] /\ job' = [job EXCEPT ![a] = [job[a] EXCEPT !.at = "read"]]
          /\ UNCHANGED <<register, jobs>>
      BY <1>3 DEF Lock, Goto
    <3>2. job[a] \in Job
      BY <1>t DEF TypeOK
    <3>3. [job[a] EXCEPT !.at = "read"] \in Job
      BY <3>2 DEF Job
    <3> QED
      BY <3>1, <3>3, <1>t DEF TypeOK
  <2>2. ASSUME NEW b \in Actors PROVE Good(b)'
    <3>1. CASE b = a
      <4>1. /\ job'[b].at = "read" /\ job'[b].register = job[b].register
            /\ job'[b].scoped = job[b].scoped
        BY <3>1, <1>3, <1>t DEF Lock, Goto, TypeOK, Job
      <4>2. job[b].register \in Registers /\ lock'[job[b].register] = b
        BY <3>1, <1>3, <1>t, <1>g DEF Lock, TypeOK
      <4> QED
        BY <4>1, <4>2, <1>g
    <3>2. CASE b # a
      <4>1. job'[b] = job[b] /\ register' = register
        BY <3>2, <1>3, <1>t DEF Lock, Goto, TypeOK
      <4>2. ASSUME job[b].scoped, job[b].at \in {"read", "write"}
            PROVE  lock'[job[b].register] = lock[job[b].register]
        <5>1. lock[job[b].register] = b /\ b # Nobody
          BY <4>2, <1>g, SbusAssumption
        <5>2. job[b].register # job[a].register
          BY <5>1, <1>3 DEF Lock
        <5>3. job[b].register \in Registers
          BY <4>2, <1>g
        <5> QED
          BY <5>2, <5>3, <1>3, <1>t DEF Lock, TypeOK
      <4> QED
        BY <4>1, <4>2, <1>g
    <3> QED
      BY <3>1, <3>2
  <2> QED
    BY <2>1, <2>2, <1>h
<1>4. ASSUME NEW a \in Actors, Read(a) PROVE SbusInv'
  <2>0. job[a].register \in Registers
    BY <1>4, <1>g DEF Read
  <2>1. TypeOK'
    <3> DEFINE found == register[job[a].register]
    <3>1. job' = [job EXCEPT ![a] = [job[a] EXCEPT !.at = "write", !.read = found]]
          /\ UNCHANGED <<register, lock, jobs>>
      BY <1>4 DEF Read
    <3>2. job[a] \in Job /\ found \in SUBSET Bits
      BY <2>0, <1>t DEF TypeOK
    <3> HIDE DEF found
    <3>3. [job[a] EXCEPT !.at = "write", !.read = found] \in Job
      BY <3>2 DEF Job
    <3> QED
      BY <3>1, <3>3, <1>t DEF TypeOK
  <2>2. ASSUME NEW b \in Actors PROVE Good(b)'
    <3>1. CASE b = a
      <4>1. /\ job'[b].at = "write" /\ job'[b].register = job[b].register
            /\ job'[b].scoped = job[b].scoped
            /\ job'[b].read = register[job[b].register]
            /\ job'[b].steps # <<>>
            /\ register' = register /\ lock' = lock
        BY <3>1, <1>4, <1>t DEF Read, TypeOK, Job
      <4>2. job[b].at = "read"
        BY <3>1, <1>4 DEF Read
      <4> QED
        BY <4>1, <4>2, <2>0, <3>1, <1>g
    <3>2. CASE b # a
      <4>1. job'[b] = job[b] /\ register' = register /\ lock' = lock
        BY <3>2, <1>4, <1>t DEF Read, TypeOK
      <4> QED
        BY <4>1, <1>g
    <3> QED
      BY <3>1, <3>2
  <2> QED
    BY <2>1, <2>2, <1>h
<1>5. ASSUME NEW a \in Actors, Write(a) PROVE SbusInv'
  <2> DEFINE r == job[a].register
             new == Apply(job[a].read, Head(job[a].steps))
  <2>0. r \in Registers
    BY <1>5, <1>g DEF Write
  <2>1. TypeOK'
    <3>1. job[a].steps \in Seq(Step) /\ job[a].read \in SUBSET Bits
      BY <1>t DEF TypeOK, Job
    <3>2. job[a].steps # <<>>
      BY <1>5, <1>g DEF Write
    <3>3. Head(job[a].steps) \in Step /\ Tail(job[a].steps) \in Seq(Step)
      BY <3>1, <3>2, HeadTailProperties
    <3>4. new \in SUBSET Bits
      BY <3>1, <3>3, ApplyBits
    <3> DEFINE rest == Tail(job[a].steps)
    <3>5. register' = [register EXCEPT ![r] = new] /\ rest \in Seq(Step)
          /\ job' = [job EXCEPT ![a].at = "read", ![a].steps = rest]
          /\ lock' = lock /\ jobs' = jobs
      BY <1>5, <3>3 DEF Write
    <3> HIDE DEF new, rest
    <3>6. [job[a] EXCEPT !.at = "read", !.steps = rest] \in Job
      BY <3>5, <1>t DEF TypeOK, Job
    <3>7. job' = [job EXCEPT ![a] = [job[a] EXCEPT !.at = "read", !.steps = rest]]
      BY <3>5
    <3> QED
      BY <3>4, <3>5, <3>6, <3>7, <2>0, <1>t DEF TypeOK
  <2>2. ASSUME NEW b \in Actors PROVE Good(b)'
    <3>1. CASE b = a
      <4>1. /\ job'[b].at = "read" /\ job'[b].register = job[b].register
            /\ job'[b].scoped = job[b].scoped /\ lock' = lock
        BY <3>1, <1>5, <1>t DEF Write, TypeOK, Job
      <4>2. job[b].at = "write"
        BY <3>1, <1>5 DEF Write
      <4> QED
        BY <4>1, <4>2, <2>0, <3>1, <1>g
    <3>2. CASE b # a
      <4>1. job'[b] = job[b] /\ lock' = lock
        BY <3>2, <1>5, <1>t DEF Write, TypeOK
      <4>2. ASSUME job[b].at = "write", job[b].register # "F240"
            PROVE  register'[job[b].register] = register[job[b].register]
        <5>1. job[b].register \in Registers /\ lock[job[b].register] = b
          <6>1. job[b].register \in Registers
            BY <4>2, <1>g
          <6>2. "none" \notin Registers
            BY SbusAssumption
          <6>3. job[b].scoped
            BY <4>2, <1>g, <6>1, <6>2
          <6> QED
            BY <4>2, <1>g, <6>1, <6>3
        <5>2. job[b].register # r
          <6>1. SUFFICES ASSUME job[b].register = r PROVE FALSE
            OBVIOUS
          <6>2. "none" \notin Registers
            BY SbusAssumption
          <6>3. job[a].scoped /\ job[a].at \in {"read", "write"}
            BY <6>1, <6>2, <2>0, <4>2, <1>5, <1>g DEF Write
          <6>4. lock[r] = a
            BY <6>3, <1>g
          <6> QED
            BY <6>1, <6>4, <5>1, <3>2
        <5> QED
          BY <5>1, <5>2, <1>5, <1>t DEF Write, TypeOK
      <4> QED
        BY <4>1, <4>2, <1>g
    <3> QED
      BY <3>1, <3>2
  <2> QED
    BY <2>1, <2>2, <1>h
<1>6. ASSUME NEW a \in Actors, Return(a) PROVE SbusInv'
  <2>0. job[a].register \in Registers /\ job[a].at = "read"
    BY <1>6, <1>g DEF Return
  <2>d. /\ Done \in Job /\ Done.at = "idle" /\ Done.register = "none"
        /\ Done.scoped = FALSE
    BY DEF Done, Job
  <2>1. TypeOK'
    BY <2>0, <2>d, <1>6, <1>t DEF TypeOK, Return
  <2>2. ASSUME NEW b \in Actors PROVE Good(b)'
    <3>1. CASE b = a
      <4>1. job'[b] = Done
        BY <3>1, <1>6, <1>t DEF Return, TypeOK
      <4> QED
        BY <4>1, <2>d
    <3>2. CASE b # a
      <4>1. job'[b] = job[b] /\ register' = register
        BY <3>2, <1>6, <1>t DEF Return, TypeOK
      <4>2. ASSUME job[b].scoped, job[b].at \in {"read", "write"}
            PROVE  lock'[job[b].register] = b
        <5>1. lock[job[b].register] = b /\ job[b].register \in Registers
          BY <4>2, <1>g
        <5>2. CASE job[a].scoped
          <6>1. lock[job[a].register] = a
            BY <5>2, <2>0, <1>g
          <6>2. job[b].register # job[a].register
            BY <6>1, <5>1, <3>2
          <6> QED
            BY <6>2, <5>1, <5>2, <1>6, <1>t DEF Return, TypeOK
        <5>3. CASE ~job[a].scoped
          BY <5>1, <5>3, <1>6 DEF Return
        <5> QED
          BY <5>2, <5>3
      <4> QED
        BY <4>1, <4>2, <1>g
    <3> QED
      BY <3>1, <3>2
  <2> QED
    BY <2>1, <2>2, <1>h
<1>7. CASE UNCHANGED vars
  <2>1. TypeOK'
    BY <1>7, <1>t DEF vars, TypeOK
  <2>2. ASSUME NEW b \in Actors PROVE Good(b)'
    BY <1>7, <1>g DEF vars
  <2> QED
    BY <2>1, <2>2, <1>h
<1> QED
  BY <1>1, <1>2, <1>3, <1>4, <1>5, <1>6, <1>7 DEF Next, Work

(* SbusRegisters.cpp: every thread that updates a register under its scope *)
(* lock finds, when it writes, what it has read.                           *)
THEOREM SbusInvariance == Spec => []SbusInv
<1> QED
  BY InitInv, NextInv, PTL DEF Spec

(* A step changes only bits that the write which it is, if it is one, is   *)
(* about, in every register that is written under its lock only.           *)
LEMMA StepKeeps ==
  ASSUME SbusInv, [Next]_vars, NEW r \in Registers \ {"F240"}
  PROVE  Kept(r)
<1>t. TypeOK /\ LockDiscipline
  BY DEF SbusInv
<1>1. ASSUME NEW a \in Actors, Write(a) PROVE Kept(r)
  <2> DEFINE s == Head(job[a].steps)
  <2>0. job[a].register \in Registers
    BY <1>1, <1>t DEF Write, LockDiscipline
  <2>1. CASE job[a].register = r
    <3>1. job[a].read = register[r]
      BY <1>1, <2>1, <1>t DEF Write, LockDiscipline
    <3>2. register'[r] = Apply(register[r], s)
      BY <1>1, <2>1, <3>1, <1>t DEF Write, TypeOK
    <3>3. s \in Step /\ register[r] \in SUBSET Bits
      <4>1. job[a].steps \in Seq(Step) /\ job[a].steps # <<>>
        BY <1>1, <1>t DEF Write, TypeOK, Job, LockDiscipline
      <4> QED
        BY <4>1, <1>t, HeadTailProperties DEF TypeOK
    <3>4. job[a].at = "write" /\ job'[a].at = "read"
      BY <1>1, <1>t DEF Write, TypeOK, Job
    <3> HIDE DEF s
    <3>5. \A b \in (register'[r] \ register[r]) \cup (register[r] \ register'[r]) :
            b \in s.clr \cup s.set \cup s.toggle
      BY <3>2, <3>3, ApplyBits
    <3> QED
      BY <3>4, <3>5, <2>1 DEF Kept, s
  <2>2. CASE job[a].register # r
    <3>1. register'[r] = register[r]
      BY <1>1, <2>0, <2>2, <1>t DEF Write, TypeOK
    <3> QED
      BY <3>1 DEF Kept
  <2> QED
    BY <2>1, <2>2
<1>2. CASE register' = register
  BY <1>2 DEF Kept
<1>3. ASSUME ~ \E a \in Actors : Write(a) PROVE register' = register
  BY <1>3 DEF Next, Work, vars, BusWrite, ChcrUpdate, Begin, Lock, Read, Return
<1> QED
  BY <1>1, <1>2, <1>3

(* MSFLG and SMFLG are mailboxes: no flag is lost, none comes back.        *)
THEOREM Mailboxes == Spec => MailboxesKept
<1>1. SbusInv /\ [Next]_vars => [\A r \in Registers \ {"F240"} : Kept(r)]_vars
  BY StepKeeps
<1> QED
  BY <1>1, SbusInvariance, PTL DEF Spec, MailboxesKept
=============================================================================
