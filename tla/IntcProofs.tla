----------------------------- MODULE IntcProofs -----------------------------
(***************************************************************************)
(* Proofs about Intc, whatever the devices and the sources are.            *)
(***************************************************************************)
EXTENDS Intc, TLAPS

(* The first of a set of processors is one of them.                        *)
LEMMA FirstIn == ASSUME NEW S \in SUBSET Processors, S # {} PROVE First(S) \in S
  BY DEF First, Processors

(* A thread that neither moves nor gains or loses a lock keeps the         *)
(* discipline, as long as nobody writes a STAT that it has locked.         *)
LEMMA Frame ==
  ASSUME TypeOK, NEW b \in Actors, Disciplined(b), update'[b] = update[b],
         Held(b)' = Held(b), \A q \in Held(b) : stat'[q] = stat[q]
  PROVE  Disciplined(b)' /\ Targets(b)' = Targets(b)
<1>1. Targets(b)' = Targets(b) /\ Targets(b) \in SUBSET Processors
  BY DEF Targets
<1>2. (lock["iop"] = b)' <=> lock["iop"] = b
  BY DEF Held, Processors
<1>3. update[b].at = "write" => First(Targets(b)) \in Held(b)
  BY <1>1, FirstIn DEF Disciplined
<1>4. update[b].at = "write" => stat'[First(Targets(b))] = stat[First(Targets(b))]
  BY <1>3
<1> QED
  BY <1>1, <1>2, <1>4 DEF Disciplined

(* Nobody holds a lock at first.                                           *)
LEMMA InitInv == Init => IntcInv
<1> SUFFICES ASSUME Init PROVE IntcInv
  OBVIOUS
<1>1. TypeOK
  BY IntcAssumption DEF Init, TypeOK, NoUpdate, Start, Processors
<1>2. ASSUME NEW a \in Actors
      PROVE  Targets(a) = {} /\ Held(a) = {} /\ update[a].at = "idle"
  BY IntcAssumption DEF Init, NoUpdate, Targets, Held
<1>3. \A a \in Actors : Disciplined(a)
  BY <1>2 DEF Disciplined
<1>4. \A p \in Processors : CoreDisciplined(p)
  BY <1>2 DEF CoreDisciplined, Init, Actors
<1> QED
  BY <1>1, <1>3, <1>4 DEF IntcInv

(* An update begins: no lock is held yet.                                  *)
LEMMA BeginInv ==
  ASSUME IntcInv, NEW a \in Actors, update[a].at = "idle",
         NEW bits \in [Processors -> SUBSET Sources], \E p \in Processors : bits[p] # {},
         Begin(a, bits), UNCHANGED <<stat, lock>>
  PROVE  /\ update' \in [Actors -> [bits : [Processors -> SUBSET Sources],
                         at : {"idle", "lock", "read", "write"}, read : SUBSET Sources]]
         /\ \A b \in Actors : Disciplined(b)'
         /\ Targets(a)' = {p \in Processors : bits[p] # {}} /\ update'[a].at = "lock"
         /\ \A b \in Actors \ {a} : Targets(b)' = Targets(b) /\ update'[b] = update[b]
<1> USE DEF IntcInv
<1>1. update' \in [Actors -> [bits : [Processors -> SUBSET Sources],
                   at : {"idle", "lock", "read", "write"}, read : SUBSET Sources]]
  BY DEF TypeOK, Begin
<1>2. update'[a] = [bits |-> bits, at |-> "lock", read |-> {}]
  BY DEF TypeOK, Begin
<1>3. \A b \in Actors : Held(b)' = Held(b)
  BY DEF Held
<1>4. ASSUME NEW b \in Actors \ {a}
      PROVE  Disciplined(b)' /\ Targets(b)' = Targets(b) /\ update'[b] = update[b]
  <2>1. update'[b] = update[b]
    BY DEF TypeOK, Begin
  <2> QED
    BY <2>1, <1>3, Frame
<1>5. Targets(a)' = {p \in Processors : bits[p] # {}}
  BY <1>2 DEF Targets
<1>6. Held(a)' = {}
  BY <1>3 DEF Disciplined
<1>7. Disciplined(a)'
  <2>1. "iop" \in Held(a)' <=> (lock["iop"] = a)'
    BY DEF Held, Processors
  <2> QED
    BY <1>2, <1>5, <1>6, <2>1 DEF Disciplined
<1> QED
  BY <1>1, <1>2, <1>4, <1>5, <1>7

(* The locks are taken one by one, the EE's first.                         *)
LEMMA LockInv == ASSUME IntcInv, NEW a \in Actors, Lock(a) PROVE IntcInv'
<1> USE DEF IntcInv
<1> DEFINE p == First(Targets(a) \ Held(a))
<1>1. p \in Targets(a) \ Held(a) /\ p \in Processors
  BY FirstIn DEF Lock, Disciplined, Targets
<1>2. lock[p] = Nobody /\ lock' = [lock EXCEPT ![p] = a] /\ Nobody \notin Actors
  BY IntcAssumption DEF Lock
<1>3. Held(a)' = Held(a) \cup {p}
  BY <1>1, <1>2 DEF Held, TypeOK
<1>4. \A b \in Actors \ {a} : Held(b)' = Held(b)
  BY <1>1, <1>2 DEF Held, TypeOK
<1>5. update' = [update EXCEPT ![a].at = IF Targets(a) \subseteq Held(a) \cup {p}
                                         THEN "read" ELSE "lock"]
  BY DEF Lock
<1>6. UNCHANGED <<stat, mask, ctrl, intc, line, core>>
  BY DEF Lock, registers, cores
<1>7. TypeOK'
  <2>1. lock' \in [Processors -> Actors \cup {Nobody}]
    BY <1>1, <1>2 DEF TypeOK
  <2>2. \A at \in {"read", "lock"} :
          [update EXCEPT ![a].at = at]
            \in [Actors -> [bits : [Processors -> SUBSET Sources],
                            at : {"idle", "lock", "read", "write"}, read : SUBSET Sources]]
    BY DEF TypeOK
  <2>3. update' \in [Actors -> [bits : [Processors -> SUBSET Sources],
                      at : {"idle", "lock", "read", "write"}, read : SUBSET Sources]]
    BY <1>5, <2>2
  <2> QED
    BY <1>6, <2>1, <2>3 DEF TypeOK
<1>8. /\ update'[a].bits = update[a].bits
      /\ update'[a].at = IF Targets(a) \subseteq Held(a) \cup {p} THEN "read" ELSE "lock"
  BY <1>5 DEF TypeOK
<1>9. Targets(a)' = Targets(a)
  BY <1>8 DEF Targets
<1>10. ASSUME NEW b \in Actors \ {a} PROVE Disciplined(b)' /\ Targets(b)' = Targets(b)
  <2>1. update'[b] = update[b]
    BY <1>5 DEF TypeOK
  <2> QED
    BY <1>4, <1>6, <2>1, Frame
<1>11. Disciplined(a)'
  <2>1. Held(a) \subseteq Targets(a) /\ update[a].at = "lock"
    BY DEF Lock, Disciplined
  <2>2. (lock["iop"] = a)' /\ update'[a].at = "lock" => "ee" \notin Targets(a) \ Held(a)'
    <3>1. CASE p = "ee"
      BY <3>1, <1>3
    <3>2. CASE p # "ee"
      BY <3>2, <1>3 DEF First
    <3> QED
      BY <3>1, <3>2
  <2> QED
    BY <1>1, <1>3, <1>8, <1>9, <2>1, <2>2 DEF Disciplined
<1>12. \A q \in Processors : CoreDisciplined(q)'
  <2> SUFFICES ASSUME NEW q \in Processors PROVE CoreDisciplined(q)'
    OBVIOUS
  <2>1. q \in Actors /\ Targets(q)' = Targets(q)
    BY <1>9, <1>10 DEF Actors
  <2>2. (update'[q].at # "idle") <=> (update[q].at # "idle")
    BY <2>1, <1>5, <1>8 DEF TypeOK, Lock
  <2> QED
    BY <1>6, <2>1, <2>2 DEF CoreDisciplined
<1> QED
  BY <1>7, <1>10, <1>11, <1>12

(* What is read is what STAT holds.                                        *)
LEMMA ReadInv == ASSUME IntcInv, NEW a \in Actors, Read(a) PROVE IntcInv'
<1> USE DEF IntcInv
<1> DEFINE p == First(Targets(a))
<1>1. p \in Targets(a) /\ p \in Processors
  BY FirstIn DEF Read, Targets
<1>2. update' = [update EXCEPT ![a].at = "write", ![a].read = stat[p]]
  BY DEF Read
<1>3. UNCHANGED <<stat, mask, ctrl, lock, intc, line, core>>
  BY DEF Read, registers, cores
<1> DEFINE Updates == [bits : [Processors -> SUBSET Sources],
                      at : {"idle", "lock", "read", "write"}, read : SUBSET Sources]
<1>4. TypeOK'
  <2>1. update[a] \in Updates /\ stat[p] \in SUBSET Sources
    BY <1>1 DEF TypeOK
  <2>2. [update[a] EXCEPT !.at = "write", !.read = stat[p]] \in Updates
    BY <2>1
  <2>3. update' \in [Actors -> Updates]
    BY <1>2, <2>2 DEF TypeOK
  <2> QED
    BY <1>3, <2>3 DEF TypeOK
<1>5. update'[a] = [update[a] EXCEPT !.at = "write", !.read = stat[p]]
  BY <1>2 DEF TypeOK
<1>6. update'[a].bits = update[a].bits /\ update'[a].at = "write" /\ update'[a].read = stat[p]
  BY <1>5 DEF TypeOK
<1>7. Targets(a)' = Targets(a) /\ \A b \in Actors : Held(b)' = Held(b)
  BY <1>3, <1>6 DEF Targets, Held
<1>8. ASSUME NEW b \in Actors \ {a} PROVE Disciplined(b)' /\ Targets(b)' = Targets(b)
  <2>1. update'[b] = update[b]
    BY <1>2 DEF TypeOK
  <2> QED
    BY <1>3, <1>7, <2>1, Frame
<1>9. Disciplined(a)'
  BY <1>1, <1>3, <1>6, <1>7 DEF Disciplined, Read
<1>10. \A q \in Processors : CoreDisciplined(q)'
  <2> SUFFICES ASSUME NEW q \in Processors PROVE CoreDisciplined(q)'
    OBVIOUS
  <2>1. q \in Actors /\ Targets(q)' = Targets(q)
    BY <1>7, <1>8 DEF Actors
  <2>2. (update'[q].at # "idle") <=> (update[q].at # "idle")
    BY <2>1, <1>2, <1>6 DEF TypeOK, Read
  <2> QED
    BY <1>3, <2>1, <2>2 DEF CoreDisciplined
<1> QED
  BY <1>4, <1>8, <1>9, <1>10

(* What a write makes of the old value: nothing but the bits it is about   *)
(* comes or goes, as what was read is what STAT holds.                     *)
LEMMA WriteEffect ==
  ASSUME IntcInv, NEW a \in Actors, Write(a)
  PROVE  LET p == First(Targets(a))
         IN  /\ p \in Targets(a) /\ p \in Held(a) /\ p \in Processors
             /\ stat' = [stat EXCEPT ![p] = stat'[p]] /\ stat'[p] \in SUBSET Sources
             /\ IF a \in Devices THEN stat'[p] = stat[p] \cup update[a].bits[p]
                ELSE p = a /\ stat'[p] = stat[p] \ update[a].bits[p]
<1> USE DEF IntcInv
<1> DEFINE p == First(Targets(a))
<1>1. /\ Targets(a) # {} /\ Targets(a) \subseteq Held(a) /\ update[a].read = stat[p]
      /\ update[a].at = "write"
  BY DEF Write, Disciplined
<1>2. p \in Targets(a) /\ p \in Processors
  BY <1>1, FirstIn DEF Targets
<1>3. update[a].bits[p] \in SUBSET Sources /\ stat[p] \in SUBSET Sources
  BY <1>2 DEF TypeOK
<1>4. stat' = [stat EXCEPT ![p] =
                 IF a \in Devices THEN update[a].read \cup update[a].bits[p]
                 ELSE Acknowledged(p, update[a].read, ValueFor(p, update[a].bits[p]))]
  BY DEF Write
<1>5. stat'[p] = IF a \in Devices THEN stat[p] \cup update[a].bits[p]
                 ELSE Acknowledged(p, stat[p], ValueFor(p, update[a].bits[p]))
  BY <1>1, <1>2, <1>4 DEF TypeOK
<1>6. a \notin Devices => p = a
  BY <1>2 DEF CoreDisciplined, Actors
<1>7. Acknowledged(p, stat[p], ValueFor(p, update[a].bits[p])) = stat[p] \ update[a].bits[p]
  BY <1>3 DEF Acknowledged, ValueFor
<1>8. stat' = [stat EXCEPT ![p] = stat'[p]]
  BY <1>4 DEF TypeOK
<1>9. stat'[p] \in SUBSET Sources
  BY <1>3, <1>5, <1>7
<1> QED
  BY <1>1, <1>2, <1>5, <1>6, <1>7, <1>8, <1>9

(* Nobody else is between read and write of a STAT that is written.        *)
LEMMA WriteInv == ASSUME IntcInv, NEW a \in Actors, Write(a) PROVE IntcInv'
<1> USE DEF IntcInv
<1> DEFINE p == First(Targets(a))
<1>1. /\ p \in Targets(a) /\ p \in Held(a) /\ p \in Processors
      /\ stat' = [stat EXCEPT ![p] = stat'[p]] /\ stat'[p] \in SUBSET Sources
  BY WriteEffect
<1>2. update' = [update EXCEPT ![a] = [bits |-> [update[a].bits EXCEPT ![p] = {}],
                                       at |-> "read", read |-> {}]]
  BY DEF Write, TypeOK
<1>3. UNCHANGED <<mask, ctrl, lock, intc, line, core>>
  BY DEF Write, cores
<1>4. update'[a] = [bits |-> [update[a].bits EXCEPT ![p] = {}], at |-> "read", read |-> {}]
  BY <1>2 DEF TypeOK
<1>5. update' = [update EXCEPT ![a] = update'[a]]
  BY <1>2 DEF TypeOK
<1>6. TypeOK'
  <2>1. update'[a].bits \in [Processors -> SUBSET Sources]
    BY <1>1, <1>4 DEF TypeOK
  <2>2. update'[a] \in [bits : [Processors -> SUBSET Sources],
                        at : {"idle", "lock", "read", "write"}, read : SUBSET Sources]
    BY <1>4, <2>1
  <2>3. update' \in [Actors -> [bits : [Processors -> SUBSET Sources],
                      at : {"idle", "lock", "read", "write"}, read : SUBSET Sources]]
    BY <1>5, <2>2 DEF TypeOK
  <2>4. stat' \in [Processors -> SUBSET Sources]
    BY <1>1 DEF TypeOK
  <2> QED
    BY <1>3, <2>3, <2>4 DEF TypeOK
<1>7. \A b \in Actors : Held(b)' = Held(b)
  BY <1>3 DEF Held
<1>8. Targets(a)' \subseteq Targets(a)
  <2>1. \A q \in Processors : update'[a].bits[q] = IF q = p THEN {} ELSE update[a].bits[q]
    BY <1>1, <1>4 DEF TypeOK
  <2> QED
    BY <2>1 DEF Targets
<1>9. ASSUME NEW b \in Actors \ {a} PROVE Disciplined(b)' /\ Targets(b)' = Targets(b)
  <2>1. update'[b] = update[b]
    BY <1>5 DEF TypeOK
  <2>2. p \notin Held(b)
    BY <1>1 DEF Held
  <2>3. \A q \in Held(b) : stat'[q] = stat[q]
    BY <1>1, <2>2 DEF TypeOK, Held
  <2> QED
    BY <1>7, <2>1, <2>3, Frame
<1>10. Disciplined(a)'
  BY <1>4, <1>7, <1>8 DEF Disciplined, Write
<1>11. \A q \in Processors : CoreDisciplined(q)'
  <2> SUFFICES ASSUME NEW q \in Processors PROVE CoreDisciplined(q)'
    OBVIOUS
  <2>1. q \in Actors /\ Targets(q)' \subseteq Targets(q)
    BY <1>8, <1>9 DEF Actors
  <2>2. (update'[q].at # "idle") <=> (update[q].at # "idle")
    BY <2>1, <1>4, <1>5 DEF TypeOK, Write
  <2> QED
    BY <1>3, <2>1, <2>2 DEF CoreDisciplined
<1> QED
  BY <1>6, <1>9, <1>10, <1>11

(* All locks are given back at the end of an update.                       *)
LEMMA ReleaseInv == ASSUME IntcInv, NEW a \in Actors, Release(a) PROVE IntcInv'
<1> USE DEF IntcInv
<1>1. /\ lock' = [p \in Processors |-> IF lock[p] = a THEN Nobody ELSE lock[p]]
      /\ update' = [update EXCEPT ![a] = NoUpdate]
      /\ core' = [p \in Processors |-> IF p = a THEN "return" ELSE core[p]]
      /\ UNCHANGED <<stat, mask, ctrl, intc, line>>
  BY DEF Release, registers
<1>2. NoUpdate \in [bits : [Processors -> SUBSET Sources],
                   at : {"idle", "lock", "read", "write"}, read : SUBSET Sources]
  BY DEF NoUpdate
<1>3. TypeOK'
  <2>1. update' \in [Actors -> [bits : [Processors -> SUBSET Sources],
                      at : {"idle", "lock", "read", "write"}, read : SUBSET Sources]]
    BY <1>1, <1>2 DEF TypeOK
  <2>2. lock' \in [Processors -> Actors \cup {Nobody}]
    BY <1>1 DEF TypeOK
  <2>3. core' \in [Processors -> {"program", "handler", "acknowledge", "return"}]
    BY <1>1 DEF TypeOK
  <2> QED
    BY <1>1, <2>1, <2>2, <2>3 DEF TypeOK
<1>4. update'[a] = NoUpdate /\ \A b \in Actors \ {a} : update'[b] = update[b]
  BY <1>1 DEF TypeOK
<1>5. Targets(a)' = {}
  BY <1>4 DEF Targets, NoUpdate
<1>6. Held(a)' = {} /\ \A b \in Actors \ {a} : Held(b)' = Held(b)
  BY <1>1, IntcAssumption DEF Held
<1>7. Disciplined(a)'
  BY <1>4, <1>5, <1>6 DEF Disciplined, NoUpdate
<1>8. ASSUME NEW b \in Actors \ {a} PROVE Disciplined(b)' /\ Targets(b)' = Targets(b)
  BY <1>1, <1>4, <1>6, Frame
<1>9. ASSUME NEW q \in Processors PROVE CoreDisciplined(q)'
  <2>1. CASE q = a
    <3>1. core'[q] = "return" /\ update'[q].at = "idle" /\ Targets(q)' = {}
      BY <1>1, <1>4, <1>5, <2>1 DEF NoUpdate
    <3> QED
      BY <3>1 DEF CoreDisciplined
  <2>2. CASE q # a
    <3>1. q \in Actors \ {a} /\ core'[q] = core[q] /\ update'[q] = update[q]
      BY <1>1, <1>4, <2>2 DEF Actors
    <3> QED
      BY <3>1, <1>8 DEF CoreDisciplined
  <2> QED
    BY <2>1, <2>2
<1> QED
  BY <1>3, <1>7, <1>8, <1>9

(* A device begins to raise its bits.                                      *)
LEMMA RaiseInv == ASSUME IntcInv, NEW d \in Devices, Raise(d) PROVE IntcInv'
<1>1. d \in Actors /\ d \notin Processors
  BY IntcAssumption DEF Actors
<1>2. PICK bits \in Raises[d] : (\E p \in Processors : bits[p] # {}) /\ Begin(d, bits)
  BY DEF Raise
<1>3. bits \in [Processors -> SUBSET Sources] /\ update[d].at = "idle"
  BY IntcAssumption DEF Raise
<1>4. UNCHANGED <<stat, mask, ctrl, lock, intc, line, core>>
  BY DEF Raise, registers, cores
<1>5. /\ update' \in [Actors -> [bits : [Processors -> SUBSET Sources],
                      at : {"idle", "lock", "read", "write"}, read : SUBSET Sources]]
      /\ \A b \in Actors : Disciplined(b)'
      /\ \A b \in Actors \ {d} : Targets(b)' = Targets(b) /\ update'[b] = update[b]
  BY <1>1, <1>2, <1>3, <1>4, BeginInv
<1>6. TypeOK'
  BY <1>4, <1>5 DEF TypeOK, IntcInv
<1>7. \A q \in Processors : CoreDisciplined(q)'
  BY <1>1, <1>4, <1>5 DEF CoreDisciplined, IntcInv, Actors
<1> QED
  BY <1>5, <1>6, <1>7 DEF IntcInv

(* A core's handler begins to acknowledge bits of its own INTC.            *)
LEMMA AcknowledgeInv == ASSUME IntcInv, NEW p \in Processors, Acknowledge(p) PROVE IntcInv'
<1>1. p \in Actors
  BY DEF Actors
<1>2. PICK set \in (SUBSET (stat[p] \cap mask[p])) \ {{}} :
        Begin(p, [q \in Processors |-> IF q = p THEN set ELSE {}])
  BY DEF Acknowledge
<1> DEFINE bits == [q \in Processors |-> IF q = p THEN set ELSE {}]
<1>3. /\ bits \in [Processors -> SUBSET Sources] /\ \E q \in Processors : bits[q] # {}
      /\ {q \in Processors : bits[q] # {}} \subseteq {p}
  <2>1. set \in SUBSET Sources /\ set # {}
    <3>1. stat[p] \in SUBSET Sources
      BY DEF IntcInv, TypeOK
    <3> QED
      BY <3>1
  <2>2. \A q \in Processors : bits[q] = IF q = p THEN set ELSE {}
    OBVIOUS
  <2>3. bits \in [Processors -> SUBSET Sources]
    BY <2>1
  <2> HIDE DEF bits
  <2> QED
    BY <2>1, <2>2, <2>3
<1>4. update[p].at = "idle" /\ core[p] = "handler"
  BY DEF Acknowledge, IntcInv, CoreDisciplined
<1>5. UNCHANGED <<stat, mask, ctrl, lock, intc, line>>
      /\ core' = [core EXCEPT ![p] = "acknowledge"]
  BY DEF Acknowledge, registers
<1>6. /\ update' \in [Actors -> [bits : [Processors -> SUBSET Sources],
                      at : {"idle", "lock", "read", "write"}, read : SUBSET Sources]]
      /\ \A b \in Actors : Disciplined(b)'
      /\ Targets(p)' = {q \in Processors : bits[q] # {}} /\ update'[p].at = "lock"
      /\ \A b \in Actors \ {p} : Targets(b)' = Targets(b) /\ update'[b] = update[b]
  <2> HIDE DEF bits
  <2> QED
    BY <1>1, <1>2, <1>3, <1>4, <1>5, BeginInv DEF bits
<1>7. TypeOK'
  BY <1>5, <1>6 DEF TypeOK, IntcInv
<1>8. \A q \in Processors : CoreDisciplined(q)'
  <2> SUFFICES ASSUME NEW q \in Processors PROVE CoreDisciplined(q)'
    OBVIOUS
  <2>1. core'[q] = IF q = p THEN "acknowledge" ELSE core[q]
    BY <1>5 DEF IntcInv, TypeOK
  <2>2. CASE q = p
    <3>1. Targets(q)' \subseteq {q} /\ update'[q].at = "lock"
      BY <1>3, <1>6, <2>2
    <3> QED
      BY <2>1, <2>2, <3>1 DEF CoreDisciplined
  <2>3. CASE q # p
    <3>1. Targets(q)' = Targets(q) /\ update'[q] = update[q]
      BY <1>6, <2>3 DEF Actors
    <3> QED
      BY <2>1, <2>3, <3>1 DEF CoreDisciplined, IntcInv
  <2> QED
    BY <2>2, <2>3
<1> QED
  BY <1>6, <1>7, <1>8 DEF IntcInv

(* Whatever leaves STAT and its updates alone.                             *)
LEMMA OtherInv ==
  ASSUME IntcInv, UNCHANGED <<stat, lock, update>>, TypeOK',
         \A p \in Processors : (core'[p] = "acknowledge") <=> (core[p] = "acknowledge")
  PROVE  IntcInv'
<1>1. \A a \in Actors : Disciplined(a)'
  <2>1. \A a \in Actors : Held(a)' = Held(a)
    BY DEF Held
  <2> QED
    BY <2>1, Frame DEF IntcInv
<1>2. \A p \in Processors : CoreDisciplined(p)'
  BY DEF IntcInv, CoreDisciplined, Targets
<1> QED
  BY <1>1, <1>2 DEF IntcInv

(* The INTC only reads.                                                    *)
LEMMA IntcStepInv == ASSUME IntcInv, NEW p \in Processors, IntcStep(p) PROVE IntcInv'
<1>1. UNCHANGED <<stat, mask, ctrl, lock, update, core>>
  BY DEF IntcStep, ReadCtrl, ReadStat, ReadMask, UpdateLine, Decide, Goto, registers, cores
<1>2. stat[p] \in SUBSET Sources /\ mask[p] \in SUBSET Sources
  BY DEF IntcInv, TypeOK
<1>3. TypeOK'
  <2>1. CASE UpdateLine(p)
    BY <1>1, <2>1 DEF UpdateLine, Start, IntcInv, TypeOK
  <2>2. CASE ReadCtrl(p) \/ ReadStat(p) \/ ReadMask(p)
    <3>1. PICK at \in {"both", "mask", "stat", "set", "clear"}, read \in SUBSET Sources :
            Goto(p, at, read)
      BY <1>2, <2>2 DEF ReadCtrl, ReadStat, ReadMask, Decide
    <3>2. intc' = [intc EXCEPT ![p] = [at |-> at, read |-> read]] /\ UNCHANGED line
      BY <3>1 DEF Goto
    <3> QED
      BY <1>1, <3>2 DEF IntcInv, TypeOK
  <2> QED
    BY <2>1, <2>2 DEF IntcStep
<1> QED
  BY <1>1, <1>3, OtherInv

(* Of the handler's steps only Acknowledge touches an update.              *)
LEMMA HandlerInv == ASSUME IntcInv, NEW p \in Processors, Handler(p) PROVE IntcInv'
<1>1. CASE TakeInterrupt(p)
  <2>1. UNCHANGED <<stat, mask, ctrl, lock, update, intc, line>>
        /\ core' = [core EXCEPT ![p] = "handler"] /\ core[p] = "program"
    BY <1>1 DEF TakeInterrupt, registers
  <2>2. TypeOK' /\ \A q \in Processors : (core'[q] = "acknowledge") <=> (core[q] = "acknowledge")
    BY <2>1 DEF IntcInv, TypeOK
  <2> QED
    BY <2>1, <2>2, OtherInv
<1>2. CASE FindNothing(p)
  <2>1. UNCHANGED <<stat, mask, ctrl, lock, update, intc, line>>
        /\ core' = [core EXCEPT ![p] = "return"] /\ core[p] = "handler"
    BY <1>2 DEF FindNothing, registers
  <2>2. TypeOK' /\ \A q \in Processors : (core'[q] = "acknowledge") <=> (core[q] = "acknowledge")
    BY <2>1 DEF IntcInv, TypeOK
  <2> QED
    BY <2>1, <2>2, OtherInv
<1>3. CASE Return(p)
  <2>1. UNCHANGED <<stat, mask, ctrl, lock, update, intc>> /\ line' = [line EXCEPT ![p] = FALSE]
        /\ core' = [core EXCEPT ![p] = "program"] /\ core[p] = "return"
    BY <1>3 DEF Return, registers
  <2>2. TypeOK' /\ \A q \in Processors : (core'[q] = "acknowledge") <=> (core[q] = "acknowledge")
    BY <2>1 DEF IntcInv, TypeOK
  <2> QED
    BY <2>1, <2>2, OtherInv
<1> QED
  BY <1>1, <1>2, <1>3, AcknowledgeInv DEF Handler

(* Masking leaves STAT and its updates alone.                              *)
LEMMA ProgramInv == ASSUME IntcInv, NEW p \in Processors, Open(p) \/ Close(p) PROVE IntcInv'
<1>1. CASE WriteMask(p)
  <2>1. /\ UNCHANGED <<stat, ctrl, lock, update, intc, line, core>>
        /\ mask' = [mask EXCEPT ![p] = Masked(p, @, IF p = "iop" /\ @ # {} THEN {} ELSE Sources)]
    BY <1>1 DEF WriteMask, cores
  <2>2. TypeOK'
    BY <2>1 DEF IntcInv, TypeOK, Masked
  <2> QED
    BY <2>1, <2>2, OtherInv
<1>2. CASE WriteCtrl
  <2>1. UNCHANGED <<stat, mask, lock, update, intc, line, core>> /\ ctrl' = ~ctrl
    BY <1>2 DEF WriteCtrl, cores
  <2>2. TypeOK'
    BY <2>1 DEF IntcInv, TypeOK
  <2> QED
    BY <2>1, <2>2, OtherInv
<1> QED
  BY <1>1, <1>2 DEF Open, Close

(* Every step preserves the invariant.                                     *)
LEMMA StepInv == IntcInv /\ [Next]_vars => IntcInv'
<1> SUFFICES ASSUME IntcInv, [Next]_vars PROVE IntcInv'
  OBVIOUS
<1>1. CASE UNCHANGED vars
  <2>1. UNCHANGED <<stat, mask, ctrl, lock, update, intc, line, core>>
    BY <1>1 DEF vars, registers, cores
  <2>2. TypeOK'
    BY <2>1 DEF IntcInv, TypeOK
  <2> QED
    BY <2>1, <2>2, OtherInv
<1>2. CASE \E d \in Devices : Raise(d)
  BY <1>2, RaiseInv
<1>3. CASE \E a \in Actors : Update(a)
  BY <1>3, LockInv, ReadInv, WriteInv, ReleaseInv DEF Update
<1>4. CASE \E p \in Processors : IntcStep(p) \/ Handler(p) \/ Open(p) \/ Close(p)
  BY <1>4, IntcStepInv, HandlerInv, ProgramInv
<1> QED
  BY <1>1, <1>2, <1>3, <1>4 DEF Next

(* Whatever devices there are: whoever reads and writes a STAT holds its   *)
(* lock and knows its value, and the locks are taken in one order.         *)
THEOREM IntcInvariance == Spec => []IntcInv
<1>1. Spec => Init /\ [][Next]_vars
  BY PTL DEF Spec
<1> QED
  BY <1>1, InitInv, StepInv, PTL

(* A step that changes a STAT is a write by a thread about those bits.     *)
LEMMA OnlyWrites ==
  ASSUME IntcInv, [Next]_vars, stat' # stat
  PROVE  \E a \in Actors : Write(a)
<1>1. ASSUME NEW p \in Processors, IntcStep(p) PROVE UNCHANGED stat
  BY <1>1 DEF IntcStep, ReadCtrl, ReadStat, ReadMask, UpdateLine, Decide, Goto, registers
<1>2. ASSUME NEW p \in Processors, Handler(p) PROVE UNCHANGED stat
  BY <1>2 DEF Handler, TakeInterrupt, Acknowledge, FindNothing, Return, registers
<1>3. ASSUME NEW p \in Processors, Open(p) \/ Close(p) PROVE UNCHANGED stat
  BY <1>3 DEF Open, Close, WriteMask, WriteCtrl
<1>4. ASSUME NEW a \in Actors, Lock(a) \/ Read(a) \/ Release(a) PROVE UNCHANGED stat
  BY <1>4 DEF Lock, Read, Release, registers
<1>5. ASSUME NEW d \in Devices, Raise(d) PROVE UNCHANGED stat
  BY <1>5 DEF Raise, registers
<1>6. UNCHANGED vars => UNCHANGED stat
  BY DEF vars, registers
<1> QED
  BY <1>1, <1>2, <1>3, <1>4, <1>5, <1>6 DEF Next, Update

(* No interrupt is lost to an acknowledgement of another, and none comes   *)
(* back, whatever the devices raise at the same time.                      *)
THEOREM Raised == Spec => RaisedKept
<1> DEFINE Kept == \A p \in Processors :
             /\ \A s \in stat[p] \ stat'[p] : Writes(p) /\ s \in update[p].bits[p]
             /\ \A s \in stat'[p] \ stat[p] :
                  \E d \in Devices : Writes(d) /\ s \in update[d].bits[p]
<1>1. ASSUME IntcInv, [Next]_vars PROVE [Kept]_vars
  <2>1. CASE stat' = stat
    BY <2>1
  <2>2. CASE stat' # stat
    <3>1. PICK a \in Actors : Write(a)
      BY <1>1, <2>2, OnlyWrites
    <3> DEFINE p == First(Targets(a))
    <3>2. /\ p \in Targets(a) /\ p \in Processors
          /\ stat' = [stat EXCEPT ![p] = stat'[p]]
          /\ IF a \in Devices THEN stat'[p] = stat[p] \cup update[a].bits[p]
             ELSE p = a /\ stat'[p] = stat[p] \ update[a].bits[p]
      BY <1>1, <3>1, WriteEffect
    <3>3. Writes(a)
      <4>1. update[a].at = "write" /\ update'[a].at = "read"
        BY <1>1, <3>1 DEF Write, IntcInv, TypeOK
      <4> QED
        BY <4>1 DEF Writes
    <3>4. \A q \in Processors \ {p} : stat'[q] = stat[q]
      BY <1>1, <3>2 DEF IntcInv, TypeOK
    <3> HIDE DEF p
    <3>5. CASE a \in Devices
      BY <3>2, <3>3, <3>4, <3>5
    <3>6. CASE a \notin Devices
      BY <3>2, <3>3, <3>4, <3>6
    <3> QED
      BY <3>5, <3>6
  <2> QED
    BY <2>1, <2>2
<1>2. Spec => []IntcInv /\ [][Next]_vars
  BY IntcInvariance, PTL DEF Spec
<1>3. [][Kept]_vars <=> RaisedKept
  BY DEF RaisedKept
<1> QED
  BY <1>1, <1>2, <1>3, PTL
-----------------------------------------------------------------------------
(* Steps of other threads: nothing that Misled speaks of changes for q.    *)
LEMMA MisledFrame ==
  ASSUME NEW q \in Processors, Misled(q), stat'[q] = stat[q], mask'[q] = mask[q],
         q = "iop" => ctrl' = ctrl, intc'[q] = intc[q], line'[q] = line[q],
         idle'[q] = idle[q], core'[q] = "program" => core[q] = "program"
  PROVE  Misled(q)'
  BY DEF Misled, Pending, MayDecide

(* A device may make something pending, which starts the count again; a    *)
(* write that does not leaves the decision of the INTC as it was.          *)
LEMMA MisledWrite ==
  ASSUME IntcInv, NEW a \in Actors, Write(a), NEW q \in Processors,
         Misled(q), idle \in [Processors -> 0..2]
  PROVE  Misled(q)'
<1>1. idle'[q] = IF Pending(q)' THEN 0 ELSE idle[q]
  BY DEF Write
<1>2. UNCHANGED <<mask, ctrl, intc, line, core>>
  BY DEF Write, cores
<1>3. CASE Pending(q)'
  BY <1>1, <1>3 DEF Misled
<1>4. CASE ~Pending(q)'
  <2>1. MayDecide(q)' => MayDecide(q)
    BY <1>2, <1>4 DEF MayDecide, Pending
  <2> QED
    BY <1>1, <1>2, <1>4, <2>1 DEF Misled
<1> QED
  BY <1>3, <1>4

(* The INTC may be about to set the line for nothing only if it was        *)
(* before, or if something is pending.                                     *)
LEMMA MisledIntc ==
  ASSUME IntcInv, NEW p \in Processors, IntcStep(p), Misled(p)
  PROVE  Misled(p)'
<1>1. UNCHANGED <<stat, mask, ctrl, core, idle>>
  BY DEF IntcStep, ReadCtrl, ReadStat, ReadMask, UpdateLine, Decide, Goto, registers, cores
<1>2. Pending(p)' <=> Pending(p)
  BY <1>1 DEF Pending
<1>3. CASE UpdateLine(p)
  <2>1. /\ line'[p] <=> intc[p].at = "set" /\ intc[p].at \in {"set", "clear"}
        /\ intc'[p] = Start(p)
    BY <1>3 DEF UpdateLine, IntcInv, TypeOK
  <2>2. ~MayDecide(p)'
    BY <1>1, <2>1 DEF MayDecide, Start, Processors
  <2>3. line'[p] => MayDecide(p)
    BY <2>1 DEF MayDecide
  <2> QED
    BY <1>1, <1>2, <2>2, <2>3 DEF Misled
<1>4. CASE ReadCtrl(p) \/ ReadStat(p) \/ ReadMask(p)
  <2>1. UNCHANGED line
    BY <1>4 DEF ReadCtrl, ReadStat, ReadMask, Decide, Goto
  <2>2. MayDecide(p)' => MayDecide(p) \/ Pending(p)
    <3>1. CASE ReadCtrl(p)
      <4>1. intc'[p] = [at |-> IF ctrl THEN "both" ELSE "clear", read |-> {}]
        BY <3>1 DEF ReadCtrl, Goto, IntcInv, TypeOK
      <4> QED
        BY <1>1, <4>1 DEF MayDecide
    <3>2. CASE intc[p].at = "both" /\ ReadStat(p)
      <4>1. intc'[p] = [at |-> "mask", read |-> stat[p]]
        BY <3>2 DEF ReadStat, Goto, IntcInv, TypeOK
      <4> QED
        BY <1>1, <3>2, <4>1 DEF MayDecide, Pending
    <3>3. CASE intc[p].at = "both" /\ ReadMask(p)
      <4>1. intc'[p] = [at |-> "stat", read |-> mask[p]]
        BY <3>3 DEF ReadMask, Goto, IntcInv, TypeOK
      <4> QED
        BY <1>1, <3>3, <4>1 DEF MayDecide, Pending
    <3>4. CASE intc[p].at = "stat" /\ ReadStat(p)
      <4>1. intc'[p] = [at |-> IF stat[p] \cap intc[p].read # {} THEN "set" ELSE "clear",
                        read |-> {}]
        BY <3>4 DEF ReadStat, Decide, Goto, IntcInv, TypeOK
      <4> QED
        BY <1>1, <3>4, <4>1 DEF MayDecide
    <3>5. CASE intc[p].at = "mask" /\ ReadMask(p)
      <4>1. intc'[p] = [at |-> IF mask[p] \cap intc[p].read # {} THEN "set" ELSE "clear",
                        read |-> {}]
        BY <3>5 DEF ReadMask, Decide, Goto, IntcInv, TypeOK
      <4> QED
        BY <1>1, <3>5, <4>1 DEF MayDecide
    <3> QED
      BY <1>4, <3>1, <3>2, <3>3, <3>4, <3>5 DEF ReadStat, ReadMask
  <2> QED
    BY <1>1, <1>2, <2>1, <2>2 DEF Misled
<1> QED
  BY <1>3, <1>4 DEF IntcStep

(* An interrupt that finds nothing uses up the line; the return flushes    *)
(* the one that was set meanwhile.                                         *)
LEMMA MisledHandler ==
  ASSUME IntcInv, NEW p \in Processors, Handler(p), Misled(p), idle \in [Processors -> 0..2]
  PROVE  Misled(p)'
<1>1. UNCHANGED <<stat, mask, ctrl, intc>>
  BY DEF Handler, TakeInterrupt, Acknowledge, FindNothing, Return, registers
<1>2. (Pending(p)' <=> Pending(p)) /\ (MayDecide(p)' <=> MayDecide(p))
  BY <1>1 DEF Pending, MayDecide
<1>3. CASE TakeInterrupt(p)
  <2>1. /\ line[p] /\ core[p] = "program" /\ core'[p] = "handler"
        /\ idle'[p] = IF Pending(p) \/ idle[p] = 3 THEN idle[p] ELSE idle[p] + 1
    BY <1>3 DEF TakeInterrupt, IntcInv, TypeOK
  <2> QED
    BY <1>2, <2>1 DEF Misled
<1>4. CASE Acknowledge(p) \/ FindNothing(p)
  <2>1. core'[p] # "program" /\ UNCHANGED <<line, idle>>
    BY <1>4 DEF Acknowledge, FindNothing, IntcInv, TypeOK
  <2> QED
    BY <1>2, <2>1 DEF Misled
<1>5. CASE Return(p)
  <2>1. line'[p] = FALSE /\ UNCHANGED idle
    BY <1>5 DEF Return, IntcInv, TypeOK
  <2> QED
    BY <1>2, <2>1 DEF Misled
<1> QED
  BY <1>3, <1>4, <1>5 DEF Handler

(* Every step preserves MisledInv.                                         *)
LEMMA MisledStep == IntcInv /\ MisledInv /\ [Next]_vars => MisledInv'
<1> SUFFICES ASSUME IntcInv, MisledInv, [Next]_vars PROVE MisledInv'
  OBVIOUS
<1>0. idle' \in [Processors -> 0..2] /\ (\A q \in Processors : Misled(q)') => MisledInv'
  BY DEF MisledInv
<1>1. idle \in [Processors -> 0..2] /\ \A q \in Processors : Misled(q)
  BY DEF MisledInv
<1>2. CASE UNCHANGED vars
  <2>1. UNCHANGED <<stat, mask, ctrl, intc, line, idle, core>>
    BY <1>2 DEF vars, registers, cores
  <2> QED
    BY <1>1, <2>1, MisledFrame, <1>0
<1>3. CASE \E d \in Devices : Raise(d)
  <2>1. UNCHANGED <<stat, mask, ctrl, intc, line, idle, core>>
    BY <1>3 DEF Raise, registers, cores
  <2> QED
    BY <1>1, <2>1, MisledFrame, <1>0
<1>4. ASSUME NEW a \in Actors, Lock(a) \/ Read(a) \/ Release(a) PROVE MisledInv'
  <2>1. UNCHANGED <<stat, mask, ctrl, intc, line, idle>>
    BY <1>4 DEF Lock, Read, Release, registers
  <2>2. \A q \in Processors : core'[q] = "program" => core[q] = "program"
    BY <1>4 DEF Lock, Read, Release, cores
  <2> QED
    BY <1>1, <2>1, <2>2, MisledFrame, <1>0
<1>5. ASSUME NEW a \in Actors, Write(a) PROVE MisledInv'
  <2>1. idle' \in [Processors -> 0..2]
    BY <1>1, <1>5 DEF Write
  <2> QED
    BY <1>1, <1>5, <2>1, MisledWrite, <1>0
<1>6. ASSUME NEW p \in Processors, IntcStep(p) PROVE MisledInv'
  <2>1. UNCHANGED <<stat, mask, ctrl, core, idle>>
    BY <1>6 DEF IntcStep, ReadCtrl, ReadStat, ReadMask, UpdateLine, Decide, Goto, registers, cores
  <2>2. \A q \in Processors \ {p} : intc'[q] = intc[q] /\ line'[q] = line[q]
    BY <1>6 DEF IntcStep, ReadCtrl, ReadStat, ReadMask, UpdateLine, Decide, Goto, IntcInv, TypeOK
  <2>3. \A q \in Processors \ {p} : Misled(q)'
    BY <1>1, <2>1, <2>2, MisledFrame
  <2> QED
    BY <1>1, <1>6, <2>1, <2>3, MisledIntc, <1>0
<1>7. ASSUME NEW p \in Processors, Handler(p) PROVE MisledInv'
  <2>1. /\ UNCHANGED <<stat, mask, ctrl, intc>>
        /\ \A q \in Processors \ {p} : /\ line'[q] = line[q] /\ idle'[q] = idle[q]
                                       /\ core'[q] = core[q]
    BY <1>1, <1>7 DEF Handler, TakeInterrupt, Acknowledge, FindNothing, Return, registers,
                      IntcInv, TypeOK
  <2>2. Misled(p)' /\ \A q \in Processors \ {p} : Misled(q)'
    BY <1>1, <1>7, <2>1, MisledHandler, MisledFrame
  <2>3. idle' \in [Processors -> 0..2]
    <3>1. CASE UNCHANGED idle
      BY <1>1, <3>1
    <3>2. CASE TakeInterrupt(p)
      <4>1. idle'[p] \in 0..2
        BY <2>2 DEF Misled
      <4>2. idle' = [idle EXCEPT ![p] = idle'[p]]
        BY <1>1, <3>2 DEF TakeInterrupt
      <4> QED
        BY <1>1, <4>1, <4>2
    <3> QED
      BY <1>7, <3>1, <3>2 DEF Handler, Acknowledge, FindNothing, Return
  <2> QED
    BY <2>2, <2>3, <1>0
<1>8. ASSUME NEW p \in Processors, WriteMask(p) PROVE MisledInv'
  <2>1. /\ idle' = [idle EXCEPT ![p] = 0] /\ UNCHANGED <<stat, ctrl, intc, line, core>>
        /\ \A q \in Processors \ {p} : mask'[q] = mask[q]
    BY <1>8 DEF WriteMask, cores, IntcInv, TypeOK
  <2>2. Misled(p)'
    BY <1>1, <2>1 DEF Misled
  <2>3. \A q \in Processors \ {p} : Misled(q)'
    BY <1>1, <2>1, MisledFrame
  <2> QED
    BY <1>1, <2>1, <2>2, <2>3, <1>0
<1>9. ASSUME WriteCtrl PROVE MisledInv'
  <2>1. idle' = [idle EXCEPT !["iop"] = 0] /\ UNCHANGED <<stat, mask, intc, line, core>>
    BY <1>9 DEF WriteCtrl, cores
  <2>2. Misled("iop")'
    BY <1>1, <2>1 DEF Misled, Processors
  <2>3. \A q \in Processors \ {"iop"} : Misled(q)'
    BY <1>1, <2>1, MisledFrame
  <2>4. idle' \in [Processors -> 0..2]
    <3>1. "iop" \in Processors
      BY DEF Processors
    <3> QED
      BY <1>1, <2>1, <3>1
  <2>5. \A q \in Processors : Misled(q)'
    BY <2>2, <2>3
  <2> QED
    BY <2>4, <2>5, <1>0
<1> QED
  BY <1>2, <1>3, <1>4, <1>5, <1>6, <1>7, <1>8, <1>9 DEF Next, Update, Open, Close

(* Old values mislead a core at most twice after each change, whatever the *)
(* devices and sources and however often the program masks.                *)
THEOREM Misleading == Spec => []MisledTwice
<1>1. Init => MisledInv
  <2> SUFFICES ASSUME Init PROVE MisledInv
    OBVIOUS
  <2>1. ASSUME NEW p \in Processors PROVE Misled(p)
    BY DEF Init, Misled, Pending, MayDecide, Start, Processors
  <2> QED
    BY <2>1 DEF MisledInv, Init
<1>2. MisledInv => MisledTwice
  BY DEF MisledInv, MisledTwice
<1>3. Spec => []IntcInv /\ Init /\ [][Next]_vars
  BY IntcInvariance, PTL DEF Spec
<1> QED
  BY <1>1, <1>2, <1>3, MisledStep, PTL
=============================================================================
