------------------------- MODULE TaskExecutorProofs -------------------------
(***************************************************************************)
(* Proofs about TaskExecutor for every number of workers and controllers   *)
(* and every capacity of the queues.                                       *)
(***************************************************************************)
EXTENDS TaskExecutor, SequenceTheorems, FiniteSetTheorems, TLAPS

USE DEF MainAt, WorkerAt

(* Appending to a queue (MpmcQueue::_push) adds one element to its range,  *)
(* and keeps its elements distinct when the element is new.                *)
LEMMA PushRange ==
  ASSUME NEW S, NEW s \in Seq(S), NEW x \in S
  PROVE  /\ Append(s, x) \in Seq(S)
         /\ Append(s, x) # <<>>
         /\ Len(Append(s, x)) = Len(s) + 1
         /\ Range(Append(s, x)) = Range(s) \cup {x}
         /\ Distinct(s) /\ x \notin Range(s) => Distinct(Append(s, x))
<1> DEFINE t == Append(s, x)
<1>1. /\ t \in Seq(S) /\ t # <<>> /\ Len(t) = Len(s) + 1
      /\ \A i \in 1..Len(s) : t[i] = s[i]
      /\ t[Len(s) + 1] = x
  BY AppendProperties
<1>2. Range(s) = {s[i] : i \in 1..Len(s)}
  BY RangeEquality
<1>3. Range(t) = {t[i] : i \in 1..Len(t)}
  BY <1>1, RangeEquality
<1>4. Len(s) \in Nat
  BY LenProperties
<1> HIDE DEF t
<1>5. Range(t) = Range(s) \cup {x}
  BY <1>1, <1>2, <1>3, <1>4
<1>6. ASSUME Distinct(s), x \notin Range(s)
      PROVE  Distinct(t)
  <2> SUFFICES ASSUME NEW i \in 1..Len(t), NEW j \in 1..Len(t), t[i] = t[j]
               PROVE  i = j
    BY DEF Distinct
  <2>1. CASE i \in 1..Len(s) /\ j \in 1..Len(s)
    BY <1>1, <1>6, <2>1 DEF Distinct
  <2>2. CASE i = Len(s) + 1 \/ j = Len(s) + 1
    BY <1>1, <1>2, <1>4, <1>6, <2>2
  <2> QED
    BY <1>1, <1>4, <2>1, <2>2
<1> QED
  BY <1>1, <1>5, <1>6 DEF t

(* Popping a queue of distinct elements (MpmcQueue::_pop) removes exactly  *)
(* its head from its range.                                                *)
LEMMA PopRange ==
  ASSUME NEW S, NEW s \in Seq(S), s # <<>>
  PROVE  /\ Head(s) \in S /\ Head(s) \in Range(s)
         /\ Tail(s) \in Seq(S)
         /\ Len(Tail(s)) = Len(s) - 1
         /\ Distinct(s) => /\ Range(Tail(s)) = Range(s) \ {Head(s)}
                           /\ Distinct(Tail(s))
<1> DEFINE t == Tail(s)
<1>1. /\ Head(s) \in S /\ t \in Seq(S) /\ Len(t) = Len(s) - 1
      /\ \A i \in 1..Len(t) : t[i] = s[i + 1]
  BY HeadTailProperties
<1>2. Range(s) = {s[i] : i \in 1..Len(s)} /\ Range(t) = {t[i] : i \in 1..Len(t)}
  BY <1>1, RangeEquality
<1>3. Len(s) \in Nat \ {0} /\ Head(s) = s[1]
  BY EmptySeq
<1> HIDE DEF t
<1>4. ASSUME Distinct(s)
      PROVE  Range(t) = Range(s) \ {Head(s)} /\ Distinct(t)
  <2>1. \A i \in 1..Len(t) : i + 1 \in 1..Len(s) /\ i + 1 # 1
    BY <1>1, <1>3
  <2>2. Distinct(t)
    BY <1>1, <1>3, <1>4, <2>1 DEF Distinct
  <2>3. ASSUME NEW y \in Range(t) PROVE y \in Range(s) \ {Head(s)}
    <3>1. PICK i \in 1..Len(t) : y = t[i]
      BY <1>2
    <3> QED
      BY <1>1, <1>2, <1>3, <1>4, <2>1, <3>1 DEF Distinct
  <2>4. ASSUME NEW y \in Range(s) \ {Head(s)} PROVE y \in Range(t)
    <3>1. PICK i \in 1..Len(s) : y = s[i]
      BY <1>2
    <3>2. i - 1 \in 1..Len(t) /\ t[i - 1] = y
      BY <1>1, <1>3, <3>1
    <3> QED
      BY <1>2, <3>2
  <2> QED
    BY <2>2, <2>3, <2>4
<1> QED
  BY <1>1, <1>2, <1>3, <1>4 DEF t

(* Facts about the empty queue. *)
LEMMA EmptyRange == Range(<<>>) = {} /\ Distinct(<<>>) /\ Len(<<>>) = 0
BY DEF Range, Distinct
-----------------------------------------------------------------------------
(* What Crtc may push is a sequence of controllers.                        *)
LEMMA PushesType ==
  ASSUME NEW ev PROVE PushesOf(ev) \subseteq Seq(Controllers)
<1>1. <<>> \in Seq(Controllers)
  BY EmptySeq
<1>2. ASSUME NEW n \in 0..MaxHBlank
      PROVE  [i \in 1..n * Len(HBlankTargets) |->
                HBlankTargets[((i - 1) % Len(HBlankTargets)) + 1]] \in Seq(Controllers)
  <2> DEFINE L == Len(HBlankTargets)
             m == n * L
  <2>1. L \in Nat
    BY ControllersAssumption, LenProperties
  <2>2. n \in Nat /\ m \in Nat
    BY <2>1, BoundsAssumption
  <2>3. ASSUME NEW i \in 1..m
        PROVE  HBlankTargets[((i - 1) % L) + 1] \in Controllers
    <3>1. L # 0
      BY <2>1, <2>2, <2>3
    <3>2. ((i - 1) % L) + 1 \in 1..L
      BY <2>1, <2>2, <2>3, <3>1
    <3> QED
      BY <3>2, ControllersAssumption, ElementOfSeq DEF Controllers
  <2> HIDE DEF L, m
  <2>4. [i \in 1..m |-> HBlankTargets[((i - 1) % L) + 1]] \in [1..m -> Controllers]
    BY <2>3
  <2> QED
    BY <2>2, <2>4, SeqDef DEF L, m
<1> QED
  BY <1>1, <1>2 DEF PushesOf, HBlankPushes

(* The capacities and the number of controllers are natural numbers.      *)
LEMMA Caps ==
  /\ MaxHBlank \in Nat /\ MaxRuns \in Nat /\ EventCap \in Nat
  /\ PendingCap \in Nat /\ RunningCap \in Nat /\ ErrorCap \in Nat
  /\ Len(ControllerOrder) \in Nat
BY BoundsAssumption, ControllersAssumption, LenProperties

(* The type invariant holds initially.                                     *)
LEMMA InitType == Init => TypeOK
<1> SUFFICES ASSUME Init PROVE TypeOK
  OBVIOUS
<1>1. <<>> \in Seq(Event) /\ <<>> \in Seq(Controllers) /\ Len(<<>>) = 0
  BY EmptySeq, EmptyRange
<1>2. /\ controller_event_queue \in Seq(Event) /\ pending_task_queue \in Seq(Event)
      /\ running_task_queue \in Seq(Event) /\ thread_error_queue \in Seq(Event)
      /\ Len(controller_event_queue) <= EventCap /\ Len(pending_task_queue) <= PendingCap
      /\ Len(running_task_queue) <= RunningCap /\ Len(thread_error_queue) <= ErrorCap
  BY <1>1, Caps DEF Init
<1>3. /\ index \in 1..Len(ControllerOrder) + 1
      /\ runs \in 0..MaxRuns
  BY Caps DEF Init
<1>4. to_push \in [Workers -> Seq(Controllers)] 
  BY <1>1 DEF Init
<1>5. worker \in [Workers -> WorkerAt]
  BY DEF Init
<1>6. task_fn \in [Workers -> Event \cup {NoTask}]
  BY DEF Init
<1>7. exit \in BOOLEAN /\ local_exit \in [Workers -> BOOLEAN]
  BY DEF Init
<1> QED
  BY <1>1, <1>2, <1>3, <1>4, <1>5, <1>6, <1>7 DEF Init, TypeOK

(* Every step keeps the types: a queue is pushed only when it has room and *)
(* popped only when it has an element.                                     *)
LEMMA TypeStep == IInv /\ [Next]_vars => TypeOK'
<1> SUFFICES ASSUME IInv, [Next]_vars PROVE TypeOK'
  OBVIOUS
<1> USE DEF queues, history, flags, pool
<1>t. TypeOK
  BY DEF IInv
<1>q. /\ controller_event_queue \in Seq(Event) /\ pending_task_queue \in Seq(Event)
      /\ running_task_queue \in Seq(Event) /\ thread_error_queue \in Seq(Event)
  BY <1>t DEF TypeOK
<1>l. /\ Len(controller_event_queue) \in Nat /\ Len(pending_task_queue) \in Nat
      /\ Len(running_task_queue) \in Nat /\ Len(thread_error_queue) \in Nat
  BY <1>q, LenProperties
<1>1. CASE RunBegin
  BY <1>t, Caps, <1>1 DEF TypeOK, RunBegin
<1>2. CASE EnqueueTime
  <2>1. CASE index <= Len(ControllerOrder)
    <3> DEFINE ev == [t |-> ControllerOrder[index], e |-> "Time", id |-> issued]
    <3>1. index \in 1..Len(ControllerOrder) /\ ControllerOrder[index] \in Controllers
      BY <1>t, Caps, <2>1, ControllersAssumption, ElementOfSeq DEF TypeOK, Controllers
    <3>2. ev \in Event
      BY <1>t, <3>1 DEF TypeOK, Event
    <3>3. /\ controller_event_queue' = Append(controller_event_queue, ev)
          /\ Len(controller_event_queue) < EventCap
      BY <1>2, <2>1 DEF EnqueueTime, PushEvent
    <3> HIDE DEF ev
    <3>4. /\ controller_event_queue' \in Seq(Event)
          /\ Len(controller_event_queue') = Len(controller_event_queue) + 1
      BY <1>q, <3>2, <3>3, PushRange
    <3> QED
      BY <1>t, Caps, <1>l, <1>2, <2>1, <3>1, <3>3, <3>4 DEF EnqueueTime, PushEvent, TypeOK
  <2>2. CASE ~(index <= Len(ControllerOrder))
    BY <1>t, <1>2, <2>2 DEF EnqueueTime, TypeOK
  <2> QED
    BY <2>1, <2>2
<1>3. CASE Package
  <2>1. CASE controller_event_queue # <<>>
    <3>1. /\ Tail(controller_event_queue) \in Seq(Event)
          /\ Len(Tail(controller_event_queue)) = Len(controller_event_queue) - 1
          /\ Head(controller_event_queue) \in Event
      BY <1>q, <2>1, PopRange
    <3>2. LET q == Append(pending_task_queue, Head(controller_event_queue))
          IN  q \in Seq(Event) /\ Len(q) = Len(pending_task_queue) + 1
      BY <1>q, <3>1, PushRange
    <3>3. /\ controller_event_queue' \in Seq(Event)
          /\ Len(controller_event_queue') <= EventCap
          /\ pending_task_queue' \in Seq(Event)
          /\ Len(pending_task_queue') <= PendingCap
      <4>1. /\ controller_event_queue' = Tail(controller_event_queue)
            /\ pending_task_queue' =
                 Append(pending_task_queue, Head(controller_event_queue))
            /\ Len(pending_task_queue) < PendingCap
        BY <1>3, <2>1 DEF Package
      <4>2. Len(controller_event_queue) <= EventCap
        BY <1>t DEF TypeOK
      <4> QED
        BY Caps, <1>l, <3>1, <3>2, <4>1, <4>2
    <3>4. UNCHANGED <<main, asleep, index, pool, running_task_queue,
                      thread_error_queue, busy_counter, flags, history>>
      BY <1>3, <2>1 DEF Package
    <3> QED
      BY <1>t, <3>3, <3>4 DEF TypeOK
  <2>2. CASE controller_event_queue = <<>>
    BY <1>t, <1>3, <2>2 DEF Package, TypeOK
  <2> QED
    BY <2>1, <2>2
<1>4. CASE Dispatch
  <2>1. CASE pending_task_queue # <<>> /\ Len(running_task_queue) < RunningCap
    <3>1. /\ Tail(pending_task_queue) \in Seq(Event)
          /\ Len(Tail(pending_task_queue)) = Len(pending_task_queue) - 1
          /\ Head(pending_task_queue) \in Event
      BY <1>q, <2>1, PopRange
    <3>2. LET q == Append(running_task_queue, Head(pending_task_queue))
          IN  q \in Seq(Event) /\ Len(q) = Len(running_task_queue) + 1
      BY <1>q, <3>1, PushRange
    <3>3. /\ pending_task_queue' \in Seq(Event)
          /\ Len(pending_task_queue') <= PendingCap
          /\ running_task_queue' \in Seq(Event)
          /\ Len(running_task_queue') <= RunningCap
      <4>1. /\ pending_task_queue' = Tail(pending_task_queue)
            /\ running_task_queue' =
                 Append(running_task_queue, Head(pending_task_queue))
        BY <1>4, <2>1 DEF Dispatch
      <4>2. Len(pending_task_queue) <= PendingCap
        BY <1>t DEF TypeOK
      <4> QED
        BY Caps, <1>l, <2>1, <3>1, <3>2, <4>1, <4>2
    <3>4. UNCHANGED <<main, asleep, index, pool, controller_event_queue,
                      thread_error_queue, busy_counter, flags, history>>
      BY <1>4, <2>1 DEF Dispatch
    <3> QED
      BY <1>t, <3>3, <3>4 DEF TypeOK
  <2>2. CASE ~(pending_task_queue # <<>> /\ Len(running_task_queue) < RunningCap)
    BY <1>t, <1>4, <2>2 DEF Dispatch, TypeOK
  <2> QED
    BY <2>1, <2>2
<1>5. CASE WaitForEmpty
  BY <1>t, <1>5 DEF WaitForEmpty, TypeOK
<1>6. CASE WaitForIdle
  BY <1>t, <1>6 DEF WaitForIdle, TypeOK
<1>7. CASE CheckErrors
  <2>1. CASE thread_error_queue = <<>>
    BY <1>t, <1>7, <2>1 DEF CheckErrors, TypeOK
  <2>2. CASE thread_error_queue # <<>>
    <3>1. /\ Tail(thread_error_queue) \in Seq(Event)
          /\ Len(Tail(thread_error_queue)) = Len(thread_error_queue) - 1
      BY <1>q, <2>2, PopRange
    <3>2. /\ thread_error_queue' \in Seq(Event)
          /\ Len(thread_error_queue') <= ErrorCap
      <4>1. thread_error_queue' = Tail(thread_error_queue)
        BY <1>7, <2>2 DEF CheckErrors
      <4>2. Len(thread_error_queue) <= ErrorCap
        BY <1>t DEF TypeOK
      <4> QED
        BY Caps, <1>l, <3>1, <4>1, <4>2
    <3>3. /\ main' = "Destroy"
          /\ UNCHANGED <<asleep, index, pool, queues, busy_counter, flags, history>>
      BY <1>7, <2>2 DEF CheckErrors
    <3> QED
      BY <1>t, <3>2, <3>3 DEF TypeOK
  <2> QED
    BY <2>1, <2>2
<1>8. CASE Quit
  BY <1>t, <1>8 DEF Quit, TypeOK
<1>9. CASE Destroy
  BY <1>t, <1>9 DEF Destroy, TypeOK
<1>10. CASE Join
  BY <1>t, <1>10 DEF Join, TypeOK
<1>11. ASSUME NEW w \in Workers, LoopTest(w) PROVE TypeOK'
  BY <1>t, <1>11 DEF LoopTest, Goto, TypeOK
<1>12. ASSUME NEW w \in Workers, TryPop(w) PROVE TypeOK'
  <2>1. asleep' \in BOOLEAN
    BY <1>t, <1>12, Zenon DEF TryPop, Notify, TypeOK
  <2>2. /\ \E l \in {"Pop", "Loop"} : worker' = [worker EXCEPT ![w] = l]
        /\ busy_counter' = busy_counter + 1 \/ busy_counter' = busy_counter
    BY <1>12 DEF TryPop, Goto
  <2>3. UNCHANGED <<main, index, task_fn, to_push, queues, thread_error_queue,
                    flags, history>>
    BY <1>12 DEF TryPop
  <2> QED
    BY <1>t, <2>1, <2>2, <2>3 DEF TypeOK
<1>13. ASSUME NEW w \in Workers, Pop(w) PROVE TypeOK'
  <2>0. running_task_queue # <<>>
    BY <1>13 DEF IInv, QueueInv, Pop
  <2>1. /\ Tail(running_task_queue) \in Seq(Event)
        /\ Len(Tail(running_task_queue)) = Len(running_task_queue) - 1
        /\ Head(running_task_queue) \in Event
    BY <1>q, <2>0, PopRange
  <2>2. to_push' \in [Workers -> Seq(Controllers)]
    BY <1>t, <1>13, PushesType DEF Pop, TypeOK
  <2> QED
    BY <1>t, Caps, <1>l, <1>13, <2>1, <2>2 DEF Pop, Goto, Notify, TypeOK
<1>14. ASSUME NEW w \in Workers, EnqueueHBlank(w) PROVE TypeOK'
  <2> DEFINE ev == [t |-> Head(to_push[w]), e |-> "HBlank", id |-> issued]
  <2>1. Head(to_push[w]) \in Controllers /\ Tail(to_push[w]) \in Seq(Controllers)
    BY <1>t, <1>14, PopRange DEF EnqueueHBlank, TypeOK
  <2>2. ev \in Event
    BY <1>t, <2>1 DEF TypeOK, Event
  <2>3. /\ controller_event_queue' = Append(controller_event_queue, ev)
        /\ Len(controller_event_queue) < EventCap
    BY <1>14 DEF EnqueueHBlank, PushEvent
  <2> HIDE DEF ev
  <2>4. /\ controller_event_queue' \in Seq(Event)
        /\ Len(controller_event_queue') = Len(controller_event_queue) + 1
    BY <1>q, <2>2, <2>3, PushRange
  <2> QED
    BY <1>t, Caps, <1>l, <1>14, <2>1, <2>3, <2>4 DEF EnqueueHBlank, PushEvent, TypeOK
<1>15. ASSUME NEW w \in Workers, RunTask(w) PROVE TypeOK'
  <2>1. task_fn[w] \in Event
    BY <1>t, <1>15 DEF IInv, CounterInv, RunTask, TypeOK
  <2> QED
    BY <1>t, <1>15, <2>1 DEF RunTask, Goto, TypeOK
<1>16. ASSUME NEW w \in Workers, PushError(w) PROVE TypeOK'
  <2>1. task_fn[w] \in Event
    BY <1>t, <1>16 DEF IInv, CounterInv, PushError, TypeOK
  <2>2. LET q == Append(thread_error_queue, task_fn[w])
        IN  q \in Seq(Event) /\ Len(q) = Len(thread_error_queue) + 1
    BY <1>q, <2>1, PushRange
  <2> QED
    BY <1>t, Caps, <1>l, <1>16, <2>2 DEF PushError, Goto, TypeOK
<1>17. ASSUME NEW w \in Workers, Release(w) PROVE TypeOK'
  <2>1. busy_counter # 0
    <3>1. IsFiniteSet({v \in Workers : Busy(v)}) /\ w \in {v \in Workers : Busy(v)}
      BY <1>17, FS_Subset, WorkersAssumption DEF Release, Busy
    <3> QED
      BY <3>1, FS_EmptySet DEF IInv, CounterInv
  <2> QED
    BY <1>t, <1>17, <2>1 DEF Release, Goto, Notify, TypeOK
<1>18. CASE SpuriousWake
  BY <1>t, <1>18 DEF SpuriousWake, TypeOK
<1>19. CASE UNCHANGED vars
  BY <1>t, <1>19 DEF vars, TypeOK
<1> QED
  BY <1>1, <1>2, <1>3, <1>4, <1>5, <1>6, <1>7, <1>8, <1>9, <1>10, <1>11, <1>12,
     <1>13, <1>14, <1>15, <1>16, <1>17, <1>18, <1>19
     DEF Next, MainNext, WorkerNext, Terminated
-----------------------------------------------------------------------------
(* A busy worker keeps the counter up, so the core is in a block.          *)
LEMMA BusyInBlock ==
  ASSUME IInv, NEW w \in Workers, Busy(w) PROVE busy_counter # 0 /\ InBlock
<1>1. IsFiniteSet({v \in Workers : Busy(v)}) /\ w \in {v \in Workers : Busy(v)}
  BY FS_Subset, WorkersAssumption
<1>2. busy_counter # 0
  BY <1>1, FS_EmptySet DEF IInv, CounterInv
<1> QED
  BY <1>2 DEF IInv, CounterInv

(* The counter follows the set of busy workers through every step.         *)
LEMMA CounterStep == IInv /\ [Next]_vars => CounterInv'
<1> SUFFICES ASSUME IInv, [Next]_vars PROVE CounterInv'
  OBVIOUS
<1> USE DEF queues, history, flags, pool
<1> DEFINE B == {w \in Workers : Busy(w)}
<1>t. /\ worker \in [Workers -> WorkerAt] /\ busy_counter \in Nat
      /\ task_fn \in [Workers -> Event \cup {NoTask}]
  BY DEF IInv, TypeOK
<1>c. /\ busy_counter = Cardinality(B)
      /\ ~InBlock => busy_counter = 0
      /\ \A w \in Workers : (task_fn[w] = NoTask) = (worker[w] \notin {"Run", "Error", "Release"})
  BY DEF IInv, CounterInv
<1>f. IsFiniteSet(B)
  BY FS_Subset, WorkersAssumption
<1>m. ASSUME UNCHANGED <<pool, busy_counter>>, ~InBlock' => busy_counter' = 0
      PROVE  CounterInv'
  <2>1. B' = B
    BY <1>m DEF Busy
  <2> QED
    BY <1>m, <1>c, <2>1 DEF CounterInv
<1>1. CASE RunBegin \/ EnqueueTime \/ Quit \/ Destroy \/ Join \/ CheckErrors
  <2>1. UNCHANGED <<pool, busy_counter>> /\ ~InBlock
    BY <1>1 DEF RunBegin, EnqueueTime, Quit, Destroy, Join, CheckErrors, InBlock
  <2> QED
    BY <1>c, <1>m, <2>1
<1>2. CASE Package
  <2>1. UNCHANGED <<pool, busy_counter>> /\ ~InBlock
    BY <1>2 DEF Package, InBlock
  <2> QED
    BY <1>c, <1>m, <2>1
<1>3. CASE Dispatch \/ WaitForEmpty \/ SpuriousWake
  <2>1. /\ UNCHANGED <<pool, busy_counter>>
        /\ (InBlock /\ InBlock') \/ UNCHANGED main
    BY <1>3 DEF Dispatch, WaitForEmpty, SpuriousWake, InBlock
  <2> QED
    BY <1>c, <1>m, <2>1 DEF InBlock
<1>4. CASE WaitForIdle
  <2>1. UNCHANGED <<pool, busy_counter>> /\ (busy_counter = 0 \/ InBlock')
    BY <1>4 DEF WaitForIdle, InBlock
  <2> QED
    BY <1>m, <2>1
<1>5. ASSUME NEW w \in Workers, LoopTest(w) PROVE CounterInv'
  <2>1. /\ \E l \in {"Exited", "TryPop"} : worker' = [worker EXCEPT ![w] = l]
        /\ UNCHANGED <<main, task_fn, busy_counter>> /\ worker[w] = "Loop"
    BY <1>5 DEF LoopTest, Goto
  <2>2. B' = B
    BY <1>t, <2>1 DEF Busy
  <2> QED
    BY <1>t, <1>c, <2>1, <2>2 DEF CounterInv, InBlock
<1>6. ASSUME NEW w \in Workers, TryPop(w) PROVE CounterInv'
  <2>1. UNCHANGED <<main, task_fn>> /\ worker[w] = "TryPop"
    BY <1>6 DEF TryPop
  <2>2. CASE running_task_queue # <<>>
    <3>1. worker' = [worker EXCEPT ![w] = "Pop"] /\ busy_counter' = busy_counter + 1
      BY <1>6, <2>2 DEF TryPop, Goto
    <3>2. B' = B \cup {w} /\ w \notin B
      BY <1>t, <2>1, <3>1 DEF Busy
    <3>3. busy_counter' = Cardinality(B')
      BY <1>c, <1>f, <3>1, <3>2, FS_AddElement
    <3>4. InBlock'
      BY <2>1, <2>2 DEF IInv, QueueInv, InBlock
    <3> QED
      BY <1>t, <1>c, <2>1, <3>1, <3>3, <3>4 DEF CounterInv
  <2>3. CASE running_task_queue = <<>>
    <3>1. worker' = [worker EXCEPT ![w] = "Loop"] /\ busy_counter' = busy_counter
      BY <1>6, <2>3 DEF TryPop, Goto
    <3>2. B' = B
      BY <1>t, <2>1, <3>1 DEF Busy
    <3> QED
      BY <1>t, <1>c, <2>1, <3>1, <3>2 DEF CounterInv, InBlock
  <2> QED
    BY <2>2, <2>3
<1>7. ASSUME NEW w \in Workers, Pop(w) PROVE CounterInv'
  <2>1. /\ worker' = [worker EXCEPT ![w] = "Run"] /\ worker[w] = "Pop"
        /\ task_fn' = [task_fn EXCEPT ![w] = Head(running_task_queue)]
        /\ UNCHANGED <<main, busy_counter>>
    BY <1>7 DEF Pop, Goto
  <2>2. B' = B
    BY <1>t, <2>1 DEF Busy
  <2>3. Head(running_task_queue) \in Event
    BY <2>1, PopRange DEF IInv, QueueInv, TypeOK
  <2>4. \A v \in Workers : (task_fn'[v] = NoTask) = (worker'[v] \notin {"Run", "Error", "Release"})
    BY <1>t, <1>c, <2>1, <2>3, NoTaskAssumption
  <2> QED
    BY <1>c, <2>1, <2>2, <2>4 DEF CounterInv, InBlock
<1>8. ASSUME NEW w \in Workers, EnqueueHBlank(w) PROVE CounterInv'
  <2>1. UNCHANGED <<main, worker, task_fn, busy_counter>>
    BY <1>8 DEF EnqueueHBlank
  <2>2. B' = B
    BY <2>1 DEF Busy
  <2> QED
    BY <1>c, <2>1, <2>2 DEF CounterInv, InBlock
<1>9. ASSUME NEW w \in Workers, RunTask(w) \/ PushError(w) PROVE CounterInv'
  <2>1. /\ \E l \in {"Release", "Error"} : worker' = [worker EXCEPT ![w] = l]
        /\ worker[w] \in {"Run", "Error"} /\ UNCHANGED <<main, task_fn, busy_counter>>
    BY <1>9 DEF RunTask, PushError, Goto
  <2>2. B' = B
    BY <1>t, <2>1 DEF Busy
  <2> QED
    BY <1>t, <1>c, <2>1, <2>2 DEF CounterInv, InBlock
<1>10. ASSUME NEW w \in Workers, Release(w) PROVE CounterInv'
  <2>1. /\ worker' = [worker EXCEPT ![w] = "Loop"] /\ worker[w] = "Release"
        /\ task_fn' = [task_fn EXCEPT ![w] = NoTask]
        /\ busy_counter' = busy_counter - 1 /\ UNCHANGED main
    BY <1>10 DEF Release, Goto
  <2>2. B' = B \ {w} /\ w \in B
    BY <1>t, <2>1 DEF Busy
  <2>3. busy_counter' = Cardinality(B')
    BY <1>c, <1>f, <2>1, <2>2, FS_RemoveElement
  <2>4. InBlock'
    BY <2>1, <2>2, BusyInBlock DEF InBlock
  <2>5. \A v \in Workers : (task_fn'[v] = NoTask) = (worker'[v] \notin {"Run", "Error", "Release"})
    BY <1>t, <1>c, <2>1
  <2> QED
    BY <2>3, <2>4, <2>5 DEF CounterInv
<1>11. CASE UNCHANGED vars
  BY <1>c, <1>m, <1>11 DEF vars, InBlock
<1> QED
  BY <1>1, <1>2, <1>3, <1>4, <1>5, <1>6, <1>7, <1>8, <1>9, <1>10, <1>11
     DEF Next, MainNext, WorkerNext, Terminated

(* The queues are empty where the main thread has seen them so, and only   *)
(* the worker that holds the mutex relies on running_task_queue.           *)
LEMMA QueueStep == IInv /\ [Next]_vars => QueueInv'
<1> SUFFICES ASSUME IInv, [Next]_vars PROVE QueueInv'
  OBVIOUS
<1> USE DEF queues, history, flags, pool
<1>t. worker \in [Workers -> WorkerAt] /\ main \in MainAt
  BY DEF IInv, TypeOK
<1>q. QueueInv
  BY DEF IInv
<1>1. CASE RunBegin \/ EnqueueTime \/ Quit \/ Destroy \/ Join \/ CheckErrors
  <2>1. /\ UNCHANGED <<worker, pending_task_queue, running_task_queue>>
        /\ main \notin {"Package", "Dispatch", "WaitEmpty"}
    BY <1>1 DEF RunBegin, EnqueueTime, Quit, Destroy, Join, CheckErrors
  <2> QED
    BY <1>q, <2>1 DEF QueueInv
<1>2. CASE Package
  <2>1. /\ UNCHANGED <<worker, running_task_queue>> /\ main = "Package"
        /\ main' \in {"Package", "Dispatch"}
    BY <1>2 DEF Package
  <2> QED
    BY <1>q, <2>1 DEF QueueInv
<1>3. CASE Dispatch
  <2>1. CASE pending_task_queue = <<>>
    <3>1. /\ main = "Dispatch" /\ main' = "WaitEmpty"
          /\ UNCHANGED <<worker, pending_task_queue, running_task_queue>>
      BY <1>3, <2>1 DEF Dispatch
    <3> QED
      BY <1>q, <2>1, <3>1 DEF QueueInv
  <2>2. CASE pending_task_queue # <<>>
    <3>1. /\ main = "Dispatch" /\ main' = main /\ RunningQueueUnlocked
          /\ UNCHANGED worker
      BY <1>3, <2>2 DEF Dispatch
    <3> QED
      BY <1>q, <3>1 DEF QueueInv, RunningQueueUnlocked
  <2> QED
    BY <2>1, <2>2
<1>4. CASE WaitForEmpty
  <2>1. /\ main = "WaitEmpty" /\ UNCHANGED <<worker, pending_task_queue, running_task_queue>>
        /\ main' = main \/ (main' = "WaitIdle" /\ running_task_queue = <<>>)
    BY <1>4 DEF WaitForEmpty
  <2> QED
    BY <1>q, <2>1 DEF QueueInv
<1>5. CASE WaitForIdle \/ SpuriousWake
  <2>1. /\ UNCHANGED <<worker, pending_task_queue, running_task_queue>>
        /\ main' = main \/ (main = "WaitIdle" /\ main' = "CheckErrors")
    BY <1>5 DEF WaitForIdle, SpuriousWake
  <2> QED
    BY <1>q, <2>1 DEF QueueInv
<1>6. ASSUME NEW w \in Workers,
             LoopTest(w) \/ RunTask(w) \/ PushError(w) \/ Release(w)
      PROVE  QueueInv'
  <2>1. /\ UNCHANGED <<main, pending_task_queue, running_task_queue>>
        /\ \E l \in WorkerAt \ {"Pop"} : worker' = [worker EXCEPT ![w] = l]
    BY <1>6 DEF LoopTest, RunTask, PushError, Release, Goto
  <2>2. \A v \in Workers : worker'[v] = "Pop" => worker[v] = "Pop"
    BY <1>t, <2>1
  <2> QED
    BY <1>q, <2>1, <2>2 DEF QueueInv
<1>7. ASSUME NEW w \in Workers, TryPop(w) PROVE QueueInv'
  <2>1. UNCHANGED <<main, pending_task_queue, running_task_queue>> /\ RunningQueueUnlocked
    BY <1>7 DEF TryPop
  <2>2. \/ running_task_queue # <<>> /\ worker' = [worker EXCEPT ![w] = "Pop"]
        \/ worker' = [worker EXCEPT ![w] = "Loop"]
    BY <1>7 DEF TryPop, Goto
  <2>3. \A v \in Workers : worker'[v] = "Pop" => v = w /\ running_task_queue # <<>>
    BY <1>t, <2>1, <2>2 DEF RunningQueueUnlocked
  <2> QED
    BY <1>q, <2>1, <2>3 DEF QueueInv
<1>8. ASSUME NEW w \in Workers, Pop(w) PROVE QueueInv'
  <2>1. /\ worker[w] = "Pop" /\ worker' = [worker EXCEPT ![w] = "Run"]
        /\ UNCHANGED <<main, pending_task_queue>>
    BY <1>8 DEF Pop, Goto
  <2>2. \A v \in Workers : worker'[v] # "Pop"
    BY <1>t, <1>q, <2>1 DEF QueueInv
  <2>3. main \in {"Dispatch", "WaitEmpty"}
    BY <1>q, <2>1 DEF QueueInv
  <2> QED
    BY <1>q, <2>1, <2>2, <2>3 DEF QueueInv
<1>9. ASSUME NEW w \in Workers, EnqueueHBlank(w) PROVE QueueInv'
  <2>1. UNCHANGED <<main, worker, pending_task_queue, running_task_queue>>
    BY <1>9 DEF EnqueueHBlank
  <2> QED
    BY <1>q, <2>1 DEF QueueInv
<1>10. CASE UNCHANGED vars
  BY <1>q, <1>10 DEF vars, QueueInv
<1> QED
  BY <1>1, <1>2, <1>3, <1>4, <1>5, <1>6, <1>7, <1>8, <1>9, <1>10
     DEF Next, MainNext, WorkerNext, Terminated
-----------------------------------------------------------------------------
(* A freshly enqueued event is in no other place.                          *)
LEMMA PlacePush ==
  ASSUME IInv, NEW c \in Controllers, NEW type \in {"Time", "HBlank"},
         PushEvent(c, type),
         UNCHANGED <<worker, task_fn, pending_task_queue, running_task_queue, handled>>
  PROVE  /\ PlaceInv'
         /\ \E ev \in Event :
              /\ ev \notin Range(controller_event_queue) \cup Range(pending_task_queue)
                            \cup Range(running_task_queue) \cup InHand \cup handled
              /\ Range(controller_event_queue') = Range(controller_event_queue) \cup {ev}
<1> DEFINE ev == [t |-> c, e |-> type, id |-> issued]
<1>1. /\ controller_event_queue' = Append(controller_event_queue, ev)
      /\ issued' = issued + 1 /\ ev.id = issued
  BY DEF PushEvent
<1>2. controller_event_queue \in Seq(Event) /\ issued \in Nat /\ ev \in Event
  BY DEF IInv, TypeOK, Event
<1>3. ev \notin Range(controller_event_queue) \cup Range(pending_task_queue)
                \cup Range(running_task_queue) \cup InHand \cup handled
  BY <1>1, <1>2 DEF IInv, PlaceInv
<1> HIDE DEF ev
<1>4. /\ Range(controller_event_queue') = Range(controller_event_queue) \cup {ev}
      /\ Distinct(controller_event_queue) => Distinct(controller_event_queue')
  BY <1>1, <1>2, <1>3, PushRange
<1>5. InHand' = InHand
  BY DEF InHand
<1>6. \A x \in Range(controller_event_queue) \cup Range(pending_task_queue)
               \cup Range(running_task_queue) \cup InHand \cup handled :
        x \in Event /\ x.id < issued
  <2>1. /\ pending_task_queue \in Seq(Event) /\ running_task_queue \in Seq(Event)
        /\ handled \subseteq Event
    BY DEF IInv, TypeOK
  <2>2. InHand \subseteq Event
    BY DEF IInv, TypeOK, CounterInv, InHand
  <2> QED
    BY <1>2, <2>1, <2>2, RangeOfSeq DEF IInv, PlaceInv
<1>7. \A x \in Event : x.id \in Nat
  BY DEF Event
<1>8. \A x \in Range(controller_event_queue') \cup Range(pending_task_queue')
               \cup Range(running_task_queue') \cup InHand' \cup handled' :
        x.id < issued'
  BY <1>1, <1>2, <1>4, <1>5, <1>6, <1>7
<1>9. PlaceInv
  BY DEF IInv
<1>10. PlaceInv'
  BY <1>3, <1>4, <1>5, <1>8, <1>9 DEF PlaceInv
<1> QED
  BY <1>2, <1>3, <1>4, <1>10

(* No step duplicates an event or puts it back.                            *)
LEMMA PlaceStep == IInv /\ [Next]_vars => PlaceInv'
<1> SUFFICES ASSUME IInv, [Next]_vars PROVE PlaceInv'
  OBVIOUS
<1> USE DEF queues, history, flags, pool
<1>p. PlaceInv
  BY DEF IInv
<1>q. /\ controller_event_queue \in Seq(Event) /\ pending_task_queue \in Seq(Event)
      /\ running_task_queue \in Seq(Event)
      /\ worker \in [Workers -> WorkerAt]
      /\ task_fn \in [Workers -> Event \cup {NoTask}]
  BY DEF IInv, TypeOK
<1>1. CASE \/ RunBegin \/ WaitForEmpty \/ WaitForIdle \/ CheckErrors \/ Quit
           \/ Destroy \/ Join \/ SpuriousWake \/ UNCHANGED vars
  <2>1. UNCHANGED <<worker, task_fn, queues, issued, handled>>
    BY <1>1 DEF RunBegin, WaitForEmpty, WaitForIdle, CheckErrors, Quit, Destroy,
                Join, SpuriousWake, vars
  <2>2. InHand' = InHand
    BY <2>1 DEF InHand
  <2> QED
    BY <1>p, <2>1, <2>2 DEF PlaceInv
<1>2. CASE EnqueueTime
  <2>1. CASE index <= Len(ControllerOrder)
    <3>1. ControllerOrder[index] \in Controllers
      BY <2>1, Caps, ControllersAssumption, ElementOfSeq DEF IInv, TypeOK, Controllers
    <3>2. /\ PushEvent(ControllerOrder[index], "Time")
          /\ UNCHANGED <<worker, task_fn, pending_task_queue, running_task_queue, handled>>
      BY <1>2, <2>1 DEF EnqueueTime
    <3> QED
      BY <3>1, <3>2, PlacePush
  <2>2. CASE ~(index <= Len(ControllerOrder))
    <3>1. UNCHANGED <<worker, task_fn, queues, issued, handled>>
      BY <1>2, <2>2 DEF EnqueueTime
    <3>2. InHand' = InHand
      BY <3>1 DEF InHand
    <3> QED
      BY <1>p, <3>1, <3>2 DEF PlaceInv
  <2> QED
    BY <2>1, <2>2
<1>3. CASE Package
  <2>0. UNCHANGED <<worker, task_fn, running_task_queue, issued, handled>>
    BY <1>3 DEF Package
  <2>h. InHand' = InHand
    BY <2>0 DEF InHand
  <2>1. CASE controller_event_queue # <<>>
    <3> DEFINE x == Head(controller_event_queue)
    <3>1. /\ controller_event_queue' = Tail(controller_event_queue)
          /\ pending_task_queue' = Append(pending_task_queue, x)
      BY <1>3, <2>1 DEF Package
    <3> HIDE DEF x
    <3>2. /\ x \in Event /\ x \in Range(controller_event_queue)
          /\ Range(controller_event_queue') = Range(controller_event_queue) \ {x}
          /\ Distinct(controller_event_queue')
      BY <1>p, <1>q, <2>1, <3>1, PopRange DEF PlaceInv, x
    <3>3. x \notin Range(pending_task_queue)
      BY <1>p, <3>2 DEF PlaceInv
    <3>4. /\ Range(pending_task_queue') = Range(pending_task_queue) \cup {x}
          /\ Distinct(pending_task_queue')
      BY <1>p, <1>q, <3>1, <3>2, <3>3, PushRange DEF PlaceInv
    <3> QED
      BY <1>p, <2>0, <2>h, <3>2, <3>4 DEF PlaceInv
  <2>2. CASE controller_event_queue = <<>>
    <3>1. UNCHANGED queues
      BY <1>3, <2>2 DEF Package
    <3> QED
      BY <1>p, <2>0, <2>h, <3>1 DEF PlaceInv
  <2> QED
    BY <2>1, <2>2
<1>4. CASE Dispatch
  <2>0. UNCHANGED <<worker, task_fn, controller_event_queue, issued, handled>>
    BY <1>4 DEF Dispatch
  <2>h. InHand' = InHand
    BY <2>0 DEF InHand
  <2>1. CASE pending_task_queue # <<>> /\ Len(running_task_queue) < RunningCap
    <3> DEFINE x == Head(pending_task_queue)
    <3>1. /\ pending_task_queue' = Tail(pending_task_queue)
          /\ running_task_queue' = Append(running_task_queue, x)
      BY <1>4, <2>1 DEF Dispatch
    <3> HIDE DEF x
    <3>2. /\ x \in Event /\ x \in Range(pending_task_queue)
          /\ Range(pending_task_queue') = Range(pending_task_queue) \ {x}
          /\ Distinct(pending_task_queue')
      BY <1>p, <1>q, <2>1, <3>1, PopRange DEF PlaceInv, x
    <3>3. x \notin Range(running_task_queue)
      BY <1>p, <3>2 DEF PlaceInv
    <3>4. /\ Range(running_task_queue') = Range(running_task_queue) \cup {x}
          /\ Distinct(running_task_queue')
      BY <1>p, <1>q, <3>1, <3>2, <3>3, PushRange DEF PlaceInv
    <3> QED
      BY <1>p, <2>0, <2>h, <3>2, <3>4 DEF PlaceInv
  <2>2. CASE ~(pending_task_queue # <<>> /\ Len(running_task_queue) < RunningCap)
    <3>1. UNCHANGED queues
      BY <1>4, <2>2 DEF Dispatch
    <3> QED
      BY <1>p, <2>0, <2>h, <3>1 DEF PlaceInv
  <2> QED
    BY <2>1, <2>2
<1>5. ASSUME NEW w \in Workers,
             LoopTest(w) \/ TryPop(w) \/ PushError(w) \/ Release(w)
      PROVE  PlaceInv'
  <2>1. /\ UNCHANGED <<queues, issued, handled>> /\ worker[w] # "Run"
        /\ \E l \in WorkerAt \ {"Run"} : worker' = [worker EXCEPT ![w] = l]
        /\ task_fn' = task_fn \/ task_fn' = [task_fn EXCEPT ![w] = NoTask]
    BY <1>5 DEF LoopTest, TryPop, PushError, Release, Goto
  <2>2. \A v \in Workers : /\ worker'[v] = "Run" <=> worker[v] = "Run"
                           /\ worker[v] = "Run" => task_fn'[v] = task_fn[v]
    BY <1>q, <2>1
  <2>3. InHand' = InHand
    BY <2>2 DEF InHand
  <2> QED
    BY <1>p, <2>1, <2>2, <2>3 DEF PlaceInv
<1>6. ASSUME NEW w \in Workers, Pop(w) PROVE PlaceInv'
  <2> DEFINE x == Head(running_task_queue)
  <2>1. /\ worker[w] = "Pop" /\ worker' = [worker EXCEPT ![w] = "Run"]
        /\ task_fn' = [task_fn EXCEPT ![w] = x]
        /\ running_task_queue' = Tail(running_task_queue)
        /\ UNCHANGED <<controller_event_queue, pending_task_queue, issued, handled>>
    BY <1>6 DEF Pop, Goto
  <2> HIDE DEF x
  <2>2. running_task_queue # <<>>
    BY <2>1 DEF IInv, QueueInv
  <2>3. /\ x \in Range(running_task_queue)
        /\ Range(running_task_queue') = Range(running_task_queue) \ {x}
        /\ Distinct(running_task_queue')
    BY <1>p, <1>q, <2>1, <2>2, PopRange DEF PlaceInv, x
  <2>4. x \notin InHand
    BY <1>p, <2>3 DEF PlaceInv
  <2>5. \A v \in Workers : /\ worker'[v] = "Run" <=> v = w \/ worker[v] = "Run"
                           /\ task_fn'[v] = IF v = w THEN x ELSE task_fn[v]
    BY <1>q, <2>1
  <2>6. InHand' = InHand \cup {x}
    BY <2>1, <2>5 DEF InHand
  <2>7. \A v, u \in Workers :
          (worker'[v] = "Run" /\ worker'[u] = "Run" /\ task_fn'[v] = task_fn'[u]) => v = u
    BY <1>p, <2>4, <2>5 DEF PlaceInv, InHand
  <2> QED
    BY <1>p, <2>1, <2>3, <2>6, <2>7 DEF PlaceInv
<1>7. ASSUME NEW w \in Workers, EnqueueHBlank(w) PROVE PlaceInv'
  <2>1. Head(to_push[w]) \in Controllers
    BY <1>7, PopRange DEF EnqueueHBlank, IInv, TypeOK
  <2>2. /\ PushEvent(Head(to_push[w]), "HBlank")
        /\ UNCHANGED <<worker, task_fn, pending_task_queue, running_task_queue, handled>>
    BY <1>7 DEF EnqueueHBlank
  <2> QED
    BY <2>1, <2>2, PlacePush
<1>8. ASSUME NEW w \in Workers, RunTask(w) PROVE PlaceInv'
  <2> DEFINE x == task_fn[w]
  <2>1. /\ worker[w] = "Run" /\ handled' = handled \cup {x}
        /\ \E l \in WorkerAt \ {"Run"} : worker' = [worker EXCEPT ![w] = l]
        /\ UNCHANGED <<task_fn, queues, issued>>
    BY <1>8 DEF RunTask, Goto
  <2>2. \A v \in Workers : worker'[v] = "Run" <=> v # w /\ worker[v] = "Run"
    BY <1>q, <2>1
  <2>3. x \in InHand /\ InHand' = InHand \ {x}
    BY <1>p, <2>1, <2>2 DEF InHand, PlaceInv
  <2> HIDE DEF x
  <2> QED
    BY <1>p, <2>1, <2>2, <2>3 DEF PlaceInv
<1> QED
  BY <1>1, <1>2, <1>3, <1>4, <1>5, <1>6, <1>7, <1>8
     DEF Next, MainNext, WorkerNext, Terminated

(* A failure never gets lost on its way to the main thread.                *)
LEMMA ErrorStep == IInv /\ [Next]_vars => ErrorInv'
<1> SUFFICES ASSUME IInv, [Next]_vars PROVE ErrorInv'
  OBVIOUS
<1> USE DEF queues, history, flags, pool
<1>e. ErrorInv
  BY DEF IInv
<1>t. worker \in [Workers -> WorkerAt] /\ thread_error_queue \in Seq(Event)
  BY DEF IInv, TypeOK
<1>1. CASE \/ RunBegin \/ EnqueueTime \/ Package \/ Dispatch \/ WaitForEmpty
           \/ WaitForIdle \/ Quit \/ Destroy \/ Join \/ SpuriousWake \/ UNCHANGED vars
  <2>1. /\ UNCHANGED <<worker, thread_error_queue, failed>>
        /\ main \in {"Destroy", "Join", "Done"} => main' \in {"Destroy", "Join", "Done"}
    BY <1>1 DEF RunBegin, EnqueueTime, Package, Dispatch, WaitForEmpty,
                WaitForIdle, Quit, Destroy, Join, SpuriousWake, vars
  <2> QED
    BY <1>e, <2>1 DEF ErrorInv
<1>2. CASE CheckErrors
  <2>1. /\ UNCHANGED <<worker, failed>> /\ main = "CheckErrors"
        /\ \/ thread_error_queue = <<>> /\ thread_error_queue' = <<>>
           \/ thread_error_queue # <<>> /\ main' = "Destroy"
    BY <1>2 DEF CheckErrors
  <2>2. \A w \in Workers : worker[w] # "Error"
    BY <2>1, BusyInBlock DEF InBlock, Busy
  <2> QED
    BY <1>e, <2>1, <2>2 DEF ErrorInv
<1>3. ASSUME NEW w \in Workers,
             LoopTest(w) \/ TryPop(w) \/ Pop(w) \/ EnqueueHBlank(w) \/ Release(w)
      PROVE  ErrorInv'
  <2>1. /\ UNCHANGED <<main, thread_error_queue, failed>>
        /\ \/ UNCHANGED worker
           \/ /\ worker[w] # "Error"
              /\ \E l \in WorkerAt \ {"Error"} : worker' = [worker EXCEPT ![w] = l]
    BY <1>3 DEF LoopTest, TryPop, Pop, EnqueueHBlank, Release, Goto
  <2>2. \A v \in Workers : worker'[v] = "Error" <=> worker[v] = "Error"
    BY <1>t, <2>1
  <2> QED
    BY <1>e, <2>1, <2>2 DEF ErrorInv
<1>4. ASSUME NEW w \in Workers, RunTask(w) PROVE ErrorInv'
  <2>1. /\ UNCHANGED <<main, thread_error_queue>> /\ worker[w] = "Run"
        /\ \/ worker' = [worker EXCEPT ![w] = "Release"] /\ UNCHANGED failed
           \/ /\ worker' = [worker EXCEPT ![w] = "Error"]
              /\ failed' = failed \cup {task_fn[w]}
    BY <1>4 DEF RunTask, Goto
  <2>2. CASE worker' = [worker EXCEPT ![w] = "Release"] /\ UNCHANGED failed
    <3>1. \A v \in Workers : worker'[v] = "Error" <=> worker[v] = "Error"
      BY <1>t, <2>1, <2>2
    <3> QED
      BY <1>e, <2>1, <2>2, <3>1 DEF ErrorInv
  <2>3. CASE /\ worker' = [worker EXCEPT ![w] = "Error"]
             /\ failed' = failed \cup {task_fn[w]}
    <3>1. worker'[w] = "Error" /\ failed' # {}
      BY <1>t, <2>3
    <3> QED
      BY <3>1 DEF ErrorInv
  <2> QED
    BY <2>1, <2>2, <2>3
<1>5. ASSUME NEW w \in Workers, PushError(w) PROVE ErrorInv'
  <2>1. /\ worker[w] = "Error" /\ UNCHANGED failed
        /\ thread_error_queue' = Append(thread_error_queue, task_fn[w])
    BY <1>5 DEF PushError
  <2>2. task_fn[w] \in Event
    BY <2>1 DEF IInv, TypeOK, CounterInv
  <2>3. thread_error_queue' # <<>>
    BY <1>t, <2>1, <2>2, PushRange
  <2>4. failed # {}
    BY <1>e, <2>1 DEF ErrorInv
  <2> QED
    BY <2>1, <2>3, <2>4 DEF ErrorInv
<1> QED
  BY <1>1, <1>2, <1>3, <1>4, <1>5 DEF Next, MainNext, WorkerNext, Terminated
-----------------------------------------------------------------------------
(* The inductive invariant holds in every state.                           *)
THEOREM Invariance == Spec => []IInv
<1>1. Init => IInv
  <2> SUFFICES ASSUME Init PROVE IInv
    OBVIOUS
  <2>1. TypeOK
    BY InitType
  <2>2. {w \in Workers : Busy(w)} = {} /\ InHand = {}
    BY DEF Init, Busy, InHand
  <2>3. CounterInv
    BY <2>2, FS_EmptySet DEF Init, CounterInv
  <2>4. QueueInv
    BY DEF Init, QueueInv
  <2>5. PlaceInv
    BY <2>2, EmptyRange DEF Init, PlaceInv
  <2>6. ErrorInv
    BY DEF Init, ErrorInv
  <2> QED
    BY <2>1, <2>3, <2>4, <2>5, <2>6 DEF IInv
<1>2. IInv /\ [Next]_vars => IInv'
  BY TypeStep, CounterStep, QueueStep, PlaceStep, ErrorStep DEF IInv
<1> QED
  BY <1>1, <1>2, PTL DEF Spec

(* Between two blocks no task is queued and no worker is busy: Core.hpp:94 *)
(* for every number of workers, and why the check of Core.cpp:215 never    *)
(* throws.                                                                 *)
THEOREM Resynchronisation == Spec => []Resynchronised
<1>1. IInv => Resynchronised
  <2> SUFFICES ASSUME IInv, ~InBlock PROVE /\ running_task_queue = <<>> /\ busy_counter = 0
                               /\ \A w \in Workers : ~Busy(w) /\ task_fn[w] = NoTask
    BY DEF Resynchronised
  <2>1. running_task_queue = <<>> /\ busy_counter = 0
    BY DEF IInv, QueueInv, CounterInv, InBlock
  <2>2. \A w \in Workers : ~Busy(w)
    BY <2>1, BusyInBlock
  <2>3. \A w \in Workers : task_fn[w] = NoTask
    BY <2>2 DEF IInv, CounterInv, Busy
  <2> QED
    BY <2>1, <2>2, <2>3
<1> QED
  BY <1>1, Invariance, PTL
-----------------------------------------------------------------------------
(* The steps that move a task from one place of its block to another are   *)
(* invisible in SyncBlocks.                                                *)
LEMMA StutterStep ==
  ASSUME IInv, IInv',
         \/ RunBegin \/ (EnqueueTime /\ UNCHANGED controller_event_queue)
         \/ (Package /\ UNCHANGED main)
         \/ Dispatch \/ WaitForEmpty \/ WaitForIdle \/ Destroy \/ Join \/ SpuriousWake
  PROVE  UNCHANGED <<BlockStatus, BlockNext, BlockTodo, handled, failed>>
<1> USE DEF queues, history, flags, pool
<1>q. /\ controller_event_queue \in Seq(Event) /\ pending_task_queue \in Seq(Event)
      /\ running_task_queue \in Seq(Event)
  BY DEF IInv, TypeOK
<1>1. UNCHANGED <<worker, task_fn, handled, failed>>
  BY DEF RunBegin, EnqueueTime, Package, Dispatch, WaitForEmpty, WaitForIdle,
         Destroy, Join, SpuriousWake
<1>2. InHand' = InHand
  BY <1>1 DEF InHand
<1>3. CASE \/ RunBegin \/ WaitForEmpty \/ WaitForIdle \/ Destroy \/ Join \/ SpuriousWake
  <2>1. /\ UNCHANGED queues
        /\ \/ UNCHANGED main
           \/ main = "Front" /\ main' = "EnqueueTime"
           \/ main = "WaitEmpty" /\ main' = "WaitIdle"
           \/ main = "WaitIdle" /\ main' = "CheckErrors"
           \/ main = "Destroy" /\ main' = "Join"
           \/ main = "Join" /\ main' = "Done"
    BY <1>3 DEF RunBegin, WaitForEmpty, WaitForIdle, Destroy, Join, SpuriousWake
  <2>2. BlockStatus' = BlockStatus
    BY <2>1 DEF BlockStatus, InBlock
  <2> QED
    BY <1>1, <1>2, <2>1, <2>2 DEF BlockNext, BlockTodo
<1>4. CASE EnqueueTime /\ UNCHANGED controller_event_queue
  <2>1. /\ UNCHANGED queues /\ main = "EnqueueTime" /\ main' \in {"EnqueueTime", "Package"}
    BY <1>4 DEF EnqueueTime
  <2>2. Range(pending_task_queue) = {}
    BY <2>1, EmptyRange DEF IInv, QueueInv
  <2> QED
    BY <1>1, <1>2, <2>1, <2>2 DEF BlockStatus, BlockNext, BlockTodo, InBlock
<1>5. CASE Package /\ UNCHANGED main
  <2> DEFINE x == Head(controller_event_queue)
  <2>1. /\ main = "Package" /\ UNCHANGED <<main, running_task_queue>>
        /\ controller_event_queue # <<>>
        /\ controller_event_queue' = Tail(controller_event_queue)
        /\ pending_task_queue' = Append(pending_task_queue, x)
    BY <1>5 DEF Package
  <2> HIDE DEF x
  <2>2. /\ x \in Event /\ x \in Range(controller_event_queue)
        /\ Range(controller_event_queue') = Range(controller_event_queue) \ {x}
    BY <1>q, <2>1, PopRange DEF IInv, PlaceInv, x
  <2>3. Range(pending_task_queue') = Range(pending_task_queue) \cup {x}
    BY <1>q, <2>1, <2>2, PushRange
  <2> QED
    BY <1>1, <1>2, <2>1, <2>2, <2>3 DEF BlockStatus, BlockNext, BlockTodo, InBlock
<1>6. CASE Dispatch
  <2>0. UNCHANGED controller_event_queue /\ main = "Dispatch" /\ main' \in {"Dispatch", "WaitEmpty"}
    BY <1>6 DEF Dispatch
  <2>1. CASE pending_task_queue # <<>> /\ Len(running_task_queue) < RunningCap
    <3> DEFINE x == Head(pending_task_queue)
    <3>1. /\ pending_task_queue' = Tail(pending_task_queue)
          /\ running_task_queue' = Append(running_task_queue, x)
      BY <1>6, <2>1 DEF Dispatch
    <3> HIDE DEF x
    <3>2. /\ x \in Event /\ x \in Range(pending_task_queue)
          /\ Range(pending_task_queue') = Range(pending_task_queue) \ {x}
      BY <1>q, <2>1, <3>1, PopRange DEF IInv, PlaceInv, x
    <3>3. Range(running_task_queue') = Range(running_task_queue) \cup {x}
      BY <1>q, <3>1, <3>2, PushRange
    <3> QED
      BY <1>1, <1>2, <2>0, <3>2, <3>3 DEF BlockStatus, BlockNext, BlockTodo, InBlock
  <2>2. CASE ~(pending_task_queue # <<>> /\ Len(running_task_queue) < RunningCap)
    <3>1. UNCHANGED <<pending_task_queue, running_task_queue>>
      BY <1>6, <2>2 DEF Dispatch
    <3> QED
      BY <1>1, <1>2, <2>0, <3>1 DEF BlockStatus, BlockNext, BlockTodo, InBlock
  <2> QED
    BY <2>1, <2>2
<1> QED
  BY <1>3, <1>4, <1>5, <1>6

(* A worker's steps are invisible too, but for the one that handles the    *)
(* event and the ones in which the handler enqueues new events.            *)
LEMMA WorkerStutter ==
  ASSUME IInv, NEW w \in Workers,
         LoopTest(w) \/ TryPop(w) \/ Pop(w) \/ PushError(w) \/ Release(w)
  PROVE  UNCHANGED <<BlockStatus, BlockNext, BlockTodo, handled, failed>>
<1> USE DEF queues, history, flags, pool
<1>q. /\ running_task_queue \in Seq(Event) /\ worker \in [Workers -> WorkerAt]
      /\ task_fn \in [Workers -> Event \cup {NoTask}]
  BY DEF IInv, TypeOK
<1>1. /\ UNCHANGED <<main, controller_event_queue, pending_task_queue, handled, failed>>
  BY DEF LoopTest, TryPop, Pop, PushError, Release
<1>2. CASE LoopTest(w) \/ TryPop(w) \/ PushError(w) \/ Release(w)
  <2>1. /\ UNCHANGED running_task_queue /\ worker[w] # "Run"
        /\ \E l \in WorkerAt \ {"Run"} : worker' = [worker EXCEPT ![w] = l]
        /\ task_fn' = task_fn \/ task_fn' = [task_fn EXCEPT ![w] = NoTask]
    BY <1>2 DEF LoopTest, TryPop, PushError, Release, Goto
  <2>2. \A v \in Workers : (worker'[v] = "Run") = (worker[v] = "Run")
    BY <1>q, <2>1
  <2>3. \A v \in Workers : worker[v] = "Run" => task_fn'[v] = task_fn[v]
    BY <1>q, <2>1
  <2>4. InHand' = InHand
    BY <2>2, <2>3 DEF InHand
  <2> QED
    BY <1>1, <2>1, <2>4 DEF BlockStatus, BlockNext, BlockTodo, InBlock
<1>3. CASE Pop(w)
  <2> DEFINE x == Head(running_task_queue)
  <2>1. /\ worker[w] = "Pop" /\ worker' = [worker EXCEPT ![w] = "Run"]
        /\ task_fn' = [task_fn EXCEPT ![w] = x]
        /\ running_task_queue' = Tail(running_task_queue)
    BY <1>3 DEF Pop, Goto
  <2> HIDE DEF x
  <2>2. running_task_queue # <<>>
    BY <2>1 DEF IInv, QueueInv
  <2>3. /\ x \in Range(running_task_queue)
        /\ Range(running_task_queue') = Range(running_task_queue) \ {x}
    BY <1>q, <2>1, <2>2, PopRange DEF IInv, PlaceInv, x
  <2>4. \A v \in Workers : (worker'[v] = "Run") = (v = w \/ worker[v] = "Run")
    BY <1>q, <2>1
  <2>5. \A v \in Workers : task_fn'[v] = IF v = w THEN x ELSE task_fn[v]
    BY <1>q, <2>1
  <2>6. InHand' = InHand \cup {x}
    BY <2>1, <2>4, <2>5 DEF InHand
  <2> QED
    BY <1>1, <2>3, <2>6 DEF BlockStatus, BlockNext, BlockTodo, InBlock
<1> QED
  BY <1>2, <1>3

(* Core::run implements the synchronised blocks of SyncBlocks, for every   *)
(* number of workers and controllers and every capacity of the queues.     *)
THEOREM Refinement == Spec => RunsInBlocks
<1>1. Init => Blocks!Init
  <2> SUFFICES ASSUME Init PROVE Blocks!Init
    OBVIOUS
  <2>1. InHand = {}
    BY DEF Init, InHand
  <2> QED
    BY <2>1, EmptyRange DEF Init, Blocks!Init, BlockStatus, BlockNext, BlockTodo
<1>2. IInv /\ IInv' /\ [Next]_vars => [Blocks!Next]_(Blocks!avars)
  <2> SUFFICES ASSUME IInv, IInv', [Next]_vars
               PROVE  Blocks!Next \/ UNCHANGED <<BlockStatus, BlockNext, BlockTodo, handled, failed>>
    BY DEF Blocks!avars
  <2> USE DEF queues, history, flags, pool
  <2>1. CASE \/ RunBegin \/ (EnqueueTime /\ UNCHANGED controller_event_queue)
             \/ (Package /\ UNCHANGED main)
             \/ Dispatch \/ WaitForEmpty \/ WaitForIdle \/ Destroy \/ Join \/ SpuriousWake
    BY <2>1, StutterStep
  <2>2. ASSUME NEW c \in Controllers, NEW type \in {"Time", "HBlank"}, PushEvent(c, type),
               UNCHANGED <<main, worker, task_fn, pending_task_queue,
                           running_task_queue, handled, failed>>
        PROVE  Blocks!Enqueue
    <3>1. PICK ev \in Event :
              /\ ev \notin Range(controller_event_queue) \cup Range(pending_task_queue)
                            \cup Range(running_task_queue) \cup InHand \cup handled
              /\ Range(controller_event_queue') = Range(controller_event_queue) \cup {ev}
      BY <2>2, PlacePush
    <3>2. InHand' = InHand
      BY <2>2 DEF InHand
    <3>3. /\ ev \notin BlockNext \cup BlockTodo \cup handled
          /\ BlockNext' = BlockNext \cup {ev} /\ BlockTodo' = BlockTodo
          /\ BlockStatus' = BlockStatus
      BY <2>2, <3>1, <3>2 DEF BlockNext, BlockTodo, BlockStatus, InBlock
    <3> QED
      BY <2>2, <3>3 DEF Blocks!Enqueue
  <2>3. CASE EnqueueTime /\ ~UNCHANGED controller_event_queue
    <3>1. /\ index <= Len(ControllerOrder) /\ PushEvent(ControllerOrder[index], "Time")
          /\ UNCHANGED <<main, worker, task_fn, pending_task_queue,
                         running_task_queue, handled, failed>>
      BY <2>3 DEF EnqueueTime
    <3>2. ControllerOrder[index] \in Controllers
      <4>1. index \in 1..Len(ControllerOrder)
        BY <3>1, Caps DEF IInv, TypeOK
      <4>2. ControllerOrder \in Seq(Range(ControllerOrder))
        BY ControllersAssumption
      <4> QED
        BY <4>1, <4>2, ControllersAssumption, ElementOfSeq DEF Controllers
    <3> QED
      BY <2>2, <3>1, <3>2 DEF Blocks!Next
  <2>4. CASE Package /\ ~UNCHANGED main
    <3>1. /\ main = "Package" /\ main' = "Dispatch" /\ controller_event_queue = <<>>
          /\ UNCHANGED <<worker, task_fn, queues, handled, failed>>
      BY <2>4 DEF Package
    <3>2. running_task_queue = <<>> /\ \A w \in Workers : worker[w] # "Run"
      BY <3>1, BusyInBlock DEF IInv, QueueInv, InBlock, Busy
    <3>3. InHand = {} /\ InHand' = {}
      BY <3>1, <3>2 DEF InHand
    <3>4. Range(running_task_queue) = {} /\ Range(controller_event_queue) = {}
      BY <3>1, <3>2, EmptyRange
    <3>5. /\ BlockStatus = "between" /\ BlockStatus' = "block"
          /\ BlockTodo' = BlockNext /\ BlockNext' = {}
      BY <3>1, <3>3, <3>4 DEF BlockStatus, BlockNext, BlockTodo, InBlock
    <3> QED
      BY <3>1, <3>5 DEF Blocks!Next, Blocks!Begin
  <2>5. CASE CheckErrors
    <3>1. /\ main = "CheckErrors" /\ UNCHANGED <<worker, task_fn, queues, handled, failed>>
          /\ \/ thread_error_queue = <<>> /\ main' = "Front"
             \/ thread_error_queue # <<>> /\ main' = "Destroy"
      BY <2>5 DEF CheckErrors
    <3>2. /\ running_task_queue = <<>> /\ pending_task_queue = <<>>
          /\ \A w \in Workers : worker[w] \notin {"Run", "Error"}
      BY <3>1, BusyInBlock DEF IInv, QueueInv, InBlock, Busy
    <3>3. InHand = {} /\ InHand' = {}
      BY <3>1, <3>2 DEF InHand
    <3>4. Range(running_task_queue) = {} /\ Range(pending_task_queue) = {}
      BY <3>2, EmptyRange
    <3>5. failed = {} <=> thread_error_queue = <<>>
      BY <3>1, <3>2 DEF IInv, ErrorInv
    <3>6. /\ BlockTodo = {} /\ BlockTodo' = {} /\ BlockNext' = BlockNext
          /\ BlockStatus = "block"
          /\ BlockStatus' = IF failed = {} THEN "between" ELSE "stopped"
      BY <3>1, <3>3, <3>4, <3>5 DEF BlockStatus, BlockNext, BlockTodo, InBlock
    <3> QED
      BY <3>1, <3>6 DEF Blocks!Next, Blocks!End
  <2>6. CASE Quit
    <3>1. /\ main = "Front" /\ main' = "Destroy"
          /\ UNCHANGED <<worker, task_fn, queues, handled, failed>>
      BY <2>6 DEF Quit
    <3>2. InHand' = InHand
      BY <3>1 DEF InHand
    <3>3. /\ BlockStatus = "between" /\ BlockStatus' = "stopped"
          /\ BlockNext' = BlockNext /\ BlockTodo' = BlockTodo
      BY <3>1, <3>2 DEF BlockStatus, BlockNext, BlockTodo, InBlock
    <3> QED
      BY <3>1, <3>3 DEF Blocks!Next, Blocks!Quit
  <2>7. ASSUME NEW w \in Workers,
               LoopTest(w) \/ TryPop(w) \/ Pop(w) \/ PushError(w) \/ Release(w)
        PROVE  UNCHANGED <<BlockStatus, BlockNext, BlockTodo, handled, failed>>
    BY <2>7, WorkerStutter
  <2>8. ASSUME NEW w \in Workers, EnqueueHBlank(w) PROVE Blocks!Next
    <3>1. /\ PushEvent(Head(to_push[w]), "HBlank") /\ to_push[w] # <<>>
          /\ UNCHANGED <<main, worker, task_fn, pending_task_queue,
                         running_task_queue, handled, failed>>
      BY <2>8 DEF EnqueueHBlank
    <3>2. Head(to_push[w]) \in Controllers
      BY <3>1, PopRange DEF IInv, TypeOK
    <3> QED
      BY <2>2, <3>1, <3>2 DEF Blocks!Next
  <2>9. ASSUME NEW w \in Workers, RunTask(w) PROVE Blocks!Next
    <3> DEFINE x == task_fn[w]
    <3>1. /\ worker[w] = "Run" /\ handled' = handled \cup {x}
          /\ failed' \in {failed, failed \cup {x}}
          /\ \E l \in WorkerAt \ {"Run"} : worker' = [worker EXCEPT ![w] = l]
          /\ UNCHANGED <<main, task_fn, queues>>
      BY <2>9 DEF RunTask, Goto
    <3>2. \A v \in Workers : (worker'[v] = "Run") = (v # w /\ worker[v] = "Run")
      BY <3>1 DEF IInv, TypeOK
    <3>3. x \in InHand /\ InHand' = InHand \ {x}
      BY <3>1, <3>2 DEF InHand, IInv, PlaceInv
    <3>4. InBlock
      BY <3>1, BusyInBlock DEF Busy
    <3>5. x \notin Range(pending_task_queue) \cup Range(running_task_queue)
      BY <3>3 DEF IInv, PlaceInv
    <3> HIDE DEF x
    <3>6. /\ BlockStatus = "block" /\ BlockStatus' = "block" /\ BlockNext' = BlockNext
          /\ x \in BlockTodo /\ BlockTodo' = BlockTodo \ {x}
      BY <3>1, <3>3, <3>4, <3>5 DEF BlockStatus, BlockNext, BlockTodo, InBlock
    <3>7. Blocks!Handle(x)
      BY <3>1, <3>6 DEF Blocks!Handle
    <3> QED
      BY <3>6, <3>7 DEF Blocks!Next
  <2>10. CASE UNCHANGED vars
    <3>1. InHand' = InHand
      BY <2>10 DEF vars, InHand
    <3> QED
      BY <2>10, <3>1 DEF vars, BlockStatus, BlockNext, BlockTodo, InBlock
  <2> QED
    BY <2>1, <2>3, <2>4, <2>5, <2>6, <2>7, <2>8, <2>9, <2>10
       DEF Next, MainNext, WorkerNext, Terminated
<1> QED
  BY <1>1, <1>2, Invariance, PTL DEF Spec, RunsInBlocks, Blocks!Spec
=============================================================================
