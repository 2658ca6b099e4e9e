---------------------------- MODULE TaskExecutor ----------------------------
(***************************************************************************)
(* Core::run, the thread pool that it drives and the queues between them:  *)
(*   liborbum/src/Core.cpp, Core.hpp          the synchronised run;        *)
(*   utilities/src/TaskExecutor.hpp           workers, busy counter;       *)
(*   utilities/src/Queues.hpp                 MpmcQueue;                   *)
(*   orbumfront/src/OrbumFront.cpp            the loop around Core::run.   *)
(*                                                                         *)
(* One step is what a thread does under one lock.  A worker holds the      *)
(* mutex of running_task_queue across two steps ("Pop"), because the       *)
(* counter that it increments inside is visible to the main thread before  *)
(* the pop is.  Of the waits on condition variables, those of the main     *)
(* thread in dispatch() and wait_for_idle() depend on a notification: it   *)
(* is `asleep` until it gets one.  A worker's wait for a task has a        *)
(* timeout of 500 ns, after which it looks again whether it was notified   *)
(* or not, so it is no more than its two outcomes.  A wait that no other   *)
(* thread can end (a push to a queue that only the pushing thread, or the  *)
(* main thread waiting for it, would pop) is a step that is not enabled.   *)
(***************************************************************************)
EXTENDS Naturals, Sequences, FiniteSets, Functions

CONSTANTS
  Workers,           \* the worker threads (options.number_workers)
  ControllerOrder,   \* ControllerType::Type, in enumeration order
  Crtc,              \* the controller that enqueues events of its own ...
  HBlankTargets,     \* ... to these, in this order, at every HBlank
  Throwing,          \* the controllers whose handler may throw
  MaxHBlank,         \* bound: HBlanks within one time slice
  MaxRuns,           \* bound: calls of Core::run
  EventCap,          \* capacity of controller_event_queue (128)
  PendingCap,        \* capacity of pending_task_queue (128)
  RunningCap,        \* capacity of running_task_queue (128)
  ErrorCap,          \* capacity of thread_error_queue (32)
  NoTask             \* an empty std::function

Controllers == Range(ControllerOrder) \cup Range(HBlankTargets)

(* An entry of controller_event_queue.  Its id tells apart entries that    *)
(* are otherwise equal; it is not part of the program.                     *)
Event == [t : Controllers, e : {"Time", "HBlank"}, id : Nat]

ASSUME WorkersAssumption == IsFiniteSet(Workers) /\ Workers # {}
ASSUME ControllersAssumption == /\ ControllerOrder \in Seq(Range(ControllerOrder))
                                /\ HBlankTargets \in Seq(Range(HBlankTargets))
ASSUME BoundsAssumption ==
  /\ MaxHBlank \in Nat /\ MaxRuns \in Nat
  /\ {EventCap, PendingCap, RunningCap, ErrorCap} \subseteq Nat \ {0}
ASSUME NoTaskAssumption == NoTask \notin Event

VARIABLES
  main,                    \* where the main thread is
  asleep,                  \* the main thread is in condition_variable::wait
  index,                   \* Core::run's loop over the controller types
  worker,                  \* where each worker is
  task_fn,                 \* the task each worker holds
  to_push,                 \* the controllers that a Crtc task has yet to notify
  controller_event_queue, pending_task_queue, running_task_queue,
  thread_error_queue,      \* the events whose handler threw
  busy_counter,
  exit, local_exit,
  runs, issued, handled, failed   \* history: calls of run, ids given out,
                                  \* events handled, events whose handler threw

queues == <<controller_event_queue, pending_task_queue, running_task_queue>>
history == <<runs, issued, handled, failed>>
flags == <<exit, local_exit>>
pool == <<worker, task_fn, to_push>>
vars == <<main, asleep, index, pool, queues, thread_error_queue, busy_counter,
          flags, history>>

MainAt == {"Front", "EnqueueTime", "Package", "Dispatch", "WaitEmpty",
           "WaitIdle", "CheckErrors", "Destroy", "Join", "Done"}
WorkerAt == {"Loop", "TryPop", "Pop", "Run", "Error", "Release", "Exited"}

Init ==
  /\ main = "Front" /\ asleep = FALSE /\ index = 1
  /\ worker = [w \in Workers |-> "Loop"]
  /\ task_fn = [w \in Workers |-> NoTask]
  /\ to_push = [w \in Workers |-> <<>>]
  /\ controller_event_queue = <<>> /\ pending_task_queue = <<>>
  /\ running_task_queue = <<>> /\ thread_error_queue = <<>>
  /\ busy_counter = 0
  /\ exit = FALSE /\ local_exit = [w \in Workers |-> FALSE]
  /\ runs = 0 /\ issued = 0 /\ handled = {} /\ failed = {}
-----------------------------------------------------------------------------
(* MpmcQueue::mutex of running_task_queue is held by a worker in "Pop".    *)
RunningQueueUnlocked == \A w \in Workers : worker[w] # "Pop"

\* Core::enqueue_controller_event: push, which waits for room.
PushEvent(c, type) ==
  /\ Len(controller_event_queue) < EventCap
  /\ controller_event_queue' =
       Append(controller_event_queue, [t |-> c, e |-> type, id |-> issued])
  /\ issued' = issued + 1

\* A notification to the main thread, if it waits at one of these places.
Notify(places) == asleep' = (asleep /\ main \notin places)

(* Worker w goes on to l. *)
Goto(w, l) == worker' = [worker EXCEPT ![w] = l]
-----------------------------------------------------------------------------
(* The main thread: OrbumFront's loop, Core::run, ~TaskExecutor.           *)

RunBegin ==
  /\ main = "Front" /\ runs < MaxRuns
  /\ main' = "EnqueueTime" /\ runs' = runs + 1 /\ index' = 1
  /\ UNCHANGED <<asleep, pool, queues, thread_error_queue, busy_counter, flags,
                 issued, handled, failed>>

\* One turn of the loop that enqueues a time event for every controller.
EnqueueTime ==
  /\ main = "EnqueueTime"
  /\ IF index <= Len(ControllerOrder)
     THEN /\ PushEvent(ControllerOrder[index], "Time")
          /\ index' = index + 1
          /\ UNCHANGED main
     ELSE /\ main' = "Package"
          /\ UNCHANGED <<index, controller_event_queue, issued>>
  /\ UNCHANGED <<asleep, pool, pending_task_queue, running_task_queue,
                 thread_error_queue, busy_counter, flags, runs, handled, failed>>

\* One turn of the loop that packages the events into tasks.
Package ==
  /\ main = "Package"
  /\ IF controller_event_queue # <<>>
     THEN /\ Len(pending_task_queue) < PendingCap
          /\ pending_task_queue' =
               Append(pending_task_queue, Head(controller_event_queue))
          /\ controller_event_queue' = Tail(controller_event_queue)
          /\ UNCHANGED main
     ELSE /\ main' = "Dispatch"
          /\ UNCHANGED <<controller_event_queue, pending_task_queue>>
  /\ UNCHANGED <<asleep, index, pool, running_task_queue, thread_error_queue,
                 busy_counter, flags, history>>

(* One turn of TaskExecutor::dispatch.  While the push waits for room the  *)
(* popped task is in a local variable; it is shown as still pending, which *)
(* no other thread can tell.                                               *)
Dispatch ==
  /\ main = "Dispatch" /\ ~asleep
  /\ \/ /\ pending_task_queue = <<>>
        /\ main' = "WaitEmpty"
        /\ UNCHANGED <<asleep, pending_task_queue, running_task_queue>>
     \/ /\ pending_task_queue # <<>> /\ RunningQueueUnlocked
        /\ IF Len(running_task_queue) < RunningCap
           THEN /\ running_task_queue' =
                     Append(running_task_queue, Head(pending_task_queue))
                /\ pending_task_queue' = Tail(pending_task_queue)
                /\ UNCHANGED asleep
           ELSE /\ asleep' = TRUE
                /\ UNCHANGED <<pending_task_queue, running_task_queue>>
        /\ UNCHANGED main
  /\ UNCHANGED <<index, pool, controller_event_queue, thread_error_queue,
                 busy_counter, flags, history>>

\* TaskExecutor::wait_for_idle: running_task_queue.wait_for_empty() ...
WaitForEmpty ==
  /\ main = "WaitEmpty" /\ ~asleep /\ RunningQueueUnlocked
  /\ IF running_task_queue = <<>>
     THEN main' = "WaitIdle" /\ UNCHANGED asleep
     ELSE asleep' = TRUE /\ UNCHANGED main
  /\ UNCHANGED <<index, pool, queues, thread_error_queue, busy_counter, flags,
                 history>>

\* Mutant: run() goes on as soon as the queue is empty.
WaitForIdleSkipped ==
  /\ main = "WaitIdle" /\ ~asleep
  /\ main' = "CheckErrors" /\ UNCHANGED asleep
  /\ UNCHANGED <<index, pool, queues, thread_error_queue, busy_counter, flags,
                 history>>

\* ... thread_busy_counter.wait_for_idle() ...
WaitForIdle ==
  /\ main = "WaitIdle" /\ ~asleep
  /\ IF busy_counter = 0
     THEN main' = "CheckErrors" /\ UNCHANGED asleep
     ELSE asleep' = TRUE /\ UNCHANGED main
  /\ UNCHANGED <<index, pool, queues, thread_error_queue, busy_counter, flags,
                 history>>

\* Mutant: the error is popped and not rethrown.
CheckErrorsSwallowed ==
  /\ main = "CheckErrors" /\ main' = "Front"
  /\ thread_error_queue' = IF thread_error_queue = <<>> THEN <<>>
                           ELSE Tail(thread_error_queue)
  /\ UNCHANGED <<asleep, index, pool, queues, busy_counter, flags, history>>

(* ... and one error, if there is any, rethrown through Core::run to the   *)
(* frontend, which then leaves its loop.                                   *)
CheckErrors ==
  /\ main = "CheckErrors"
  /\ IF thread_error_queue = <<>>
     THEN main' = "Front" /\ UNCHANGED thread_error_queue
     ELSE /\ main' = "Destroy"
          /\ thread_error_queue' = Tail(thread_error_queue)
  /\ UNCHANGED <<asleep, index, pool, queues, busy_counter, flags, history>>

\* The frontend's loop ends: the user quit.
Quit ==
  /\ main = "Front" /\ main' = "Destroy"
  /\ UNCHANGED <<asleep, index, pool, queues, thread_error_queue, busy_counter,
                 flags, history>>

\* ~TaskExecutor: exit is set, then the members are destroyed.
Destroy ==
  /\ main = "Destroy" /\ main' = "Join"
  /\ exit' = TRUE
  /\ UNCHANGED <<asleep, index, pool, queues, thread_error_queue, busy_counter,
                 local_exit, history>>

\* ~Worker of each worker in turn, and ~TaskSync after the last.
Join ==
  /\ main = "Join"
  /\ \A w \in Workers : local_exit[w] => worker[w] = "Exited"
  /\ \/ /\ \E w \in Workers : /\ ~local_exit[w]
                              /\ local_exit' = [local_exit EXCEPT ![w] = TRUE]
        /\ UNCHANGED main
     \/ /\ \A w \in Workers : local_exit[w]
        /\ main' = "Done" /\ UNCHANGED local_exit
  /\ UNCHANGED <<asleep, index, pool, queues, thread_error_queue, busy_counter,
                 exit, history>>
-----------------------------------------------------------------------------
(* A worker: Worker::main_thread_.                                         *)

\* Mutant: the flags, which are not atomic, are read once before the loop.
LoopTestHoisted(w) ==
  /\ worker[w] = "Loop" /\ Goto(w, "TryPop")
  /\ UNCHANGED <<main, asleep, index, task_fn, to_push, queues,
                 thread_error_queue, busy_counter, flags, history>>

\* The loop condition.
LoopTest(w) ==
  /\ worker[w] = "Loop"
  /\ Goto(w, IF exit \/ local_exit[w] THEN "Exited" ELSE "TryPop")
  /\ UNCHANGED <<main, asleep, index, task_fn, to_push, queues,
                 thread_error_queue, busy_counter, flags, history>>

\* try_pop takes the lock, and calls atomic_fn before it pops; or it times out.
TryPop(w) ==
  /\ worker[w] = "TryPop" /\ RunningQueueUnlocked
  /\ IF running_task_queue # <<>>
     THEN /\ busy_counter' = busy_counter + 1
          /\ Notify({"WaitIdle"})
          /\ Goto(w, "Pop")
     ELSE Goto(w, "Loop") /\ UNCHANGED <<asleep, busy_counter>>
  /\ UNCHANGED <<main, index, task_fn, to_push, queues, thread_error_queue,
                 flags, history>>

\* The controllers that one time slice of the Crtc notifies, in order.
HBlankPushes ==
  {[i \in 1..n * Len(HBlankTargets) |->
      HBlankTargets[((i - 1) % Len(HBlankTargets)) + 1]] : n \in 0..MaxHBlank}

PushesOf(ev) == IF ev.t = Crtc /\ ev.e = "Time" THEN HBlankPushes ELSE {<<>>}

\* Mutant: the front is copied and never popped.
PopKeepsFront(w) ==
  /\ worker[w] = "Pop"
  /\ task_fn' = [task_fn EXCEPT ![w] = Head(running_task_queue)]
  /\ \E s \in PushesOf(Head(running_task_queue)) :
       to_push' = [to_push EXCEPT ![w] = s]
  /\ Notify({"Dispatch"})
  /\ Goto(w, "Run")
  /\ UNCHANGED <<main, index, queues, thread_error_queue, busy_counter, flags,
                 history>>

\* Mutant: only pop_cv is notified, never empty_cv.
PopForgetsEmpty(w) ==
  /\ worker[w] = "Pop"
  /\ task_fn' = [task_fn EXCEPT ![w] = Head(running_task_queue)]
  /\ running_task_queue' = Tail(running_task_queue)
  /\ \E s \in PushesOf(Head(running_task_queue)) :
       to_push' = [to_push EXCEPT ![w] = s]
  /\ Notify({"Dispatch"})
  /\ Goto(w, "Run")
  /\ UNCHANGED <<main, index, controller_event_queue, pending_task_queue,
                 thread_error_queue, busy_counter, flags, history>>

\* MpmcQueue::_pop, with its notifications, and the unlock.
Pop(w) ==
  /\ worker[w] = "Pop"
  /\ task_fn' = [task_fn EXCEPT ![w] = Head(running_task_queue)]
  /\ running_task_queue' = Tail(running_task_queue)
  /\ \E s \in PushesOf(Head(running_task_queue)) :
       to_push' = [to_push EXCEPT ![w] = s]
  /\ Notify(IF running_task_queue' = <<>> THEN {"WaitEmpty", "Dispatch"}
                                          ELSE {"Dispatch"})
  /\ Goto(w, "Run")
  /\ UNCHANGED <<main, index, controller_event_queue, pending_task_queue,
                 thread_error_queue, busy_counter, flags, history>>

\* CCrtc's handler enqueues an event for the next run.
EnqueueHBlank(w) ==
  /\ worker[w] = "Run" /\ to_push[w] # <<>>
  /\ PushEvent(Head(to_push[w]), "HBlank")
  /\ to_push' = [to_push EXCEPT ![w] = Tail(@)]
  /\ UNCHANGED <<main, asleep, index, worker, task_fn, pending_task_queue,
                 running_task_queue, thread_error_queue, busy_counter, flags,
                 runs, handled, failed>>

\* The handler returns, or throws an exception that the worker catches.
RunTask(w) ==
  /\ worker[w] = "Run" /\ to_push[w] = <<>>
  /\ handled' = handled \cup {task_fn[w]}
  /\ \/ Goto(w, "Release") /\ UNCHANGED failed
     \/ /\ task_fn[w].t \in Throwing
        /\ failed' = failed \cup {task_fn[w]}
        /\ Goto(w, "Error")
  /\ UNCHANGED <<main, asleep, index, task_fn, to_push, queues,
                 thread_error_queue, busy_counter, flags, runs, issued>>

PushError(w) ==
  /\ worker[w] = "Error" /\ Len(thread_error_queue) < ErrorCap
  /\ thread_error_queue' = Append(thread_error_queue, task_fn[w])
  /\ Goto(w, "Release")
  /\ UNCHANGED <<main, asleep, index, task_fn, to_push, queues, busy_counter,
                 flags, history>>

\* The counter goes down, and task_fn goes out of scope.
Release(w) ==
  /\ worker[w] = "Release"
  /\ busy_counter' = busy_counter - 1
  /\ Notify({"WaitIdle"})
  /\ task_fn' = [task_fn EXCEPT ![w] = NoTask]
  /\ Goto(w, "Loop")
  /\ UNCHANGED <<main, index, to_push, queues, thread_error_queue, flags,
                 history>>
-----------------------------------------------------------------------------
\* The C++ standard lets a wait end without a notification.
SpuriousWake ==
  /\ asleep /\ asleep' = FALSE
  /\ UNCHANGED <<main, index, pool, queues, thread_error_queue, busy_counter,
                 flags, history>>

\* Everything is destroyed; nothing happens any more.
Terminated == main = "Done" /\ UNCHANGED vars

MainNext == \/ RunBegin \/ EnqueueTime \/ Package \/ Dispatch \/ WaitForEmpty
            \/ WaitForIdle \/ CheckErrors \/ Quit \/ Destroy \/ Join
WorkerNext(w) == \/ LoopTest(w) \/ TryPop(w) \/ Pop(w) \/ EnqueueHBlank(w)
                 \/ RunTask(w) \/ PushError(w) \/ Release(w)

Next == MainNext \/ (\E w \in Workers : WorkerNext(w)) \/ SpuriousWake
        \/ Terminated

Spec == Init /\ [][Next]_vars

(* The operating system runs every thread that can run; none of the        *)
(* mutexes is held for longer than a few instructions.                     *)
FairSpec == /\ Spec
            /\ WF_vars(MainNext)
            /\ \A w \in Workers : WF_vars(WorkerNext(w))
-----------------------------------------------------------------------------
(* Properties.                                                             *)

\* Every variable has the type of the C++ object, and no queue overflows.
TypeOK ==
  /\ main \in MainAt /\ asleep \in BOOLEAN
  /\ index \in 1..Len(ControllerOrder) + 1
  /\ worker \in [Workers -> WorkerAt]
  /\ task_fn \in [Workers -> Event \cup {NoTask}]
  /\ to_push \in [Workers -> Seq(Controllers)]
  /\ controller_event_queue \in Seq(Event)
  /\ pending_task_queue \in Seq(Event)
  /\ running_task_queue \in Seq(Event)
  /\ thread_error_queue \in Seq(Event)
  /\ Len(controller_event_queue) <= EventCap
  /\ Len(pending_task_queue) <= PendingCap
  /\ Len(running_task_queue) <= RunningCap
  /\ Len(thread_error_queue) <= ErrorCap
  /\ busy_counter \in Nat
  /\ exit \in BOOLEAN /\ local_exit \in [Workers -> BOOLEAN]
  /\ runs \in 0..MaxRuns /\ issued \in Nat
  /\ handled \subseteq Event /\ failed \subseteq Event

\* A worker between its busy_counter++ and its busy_counter--.
Busy(w) == worker[w] \in {"Pop", "Run", "Error", "Release"}

\* Core::run is between its first dispatch and the end of wait_for_idle.
InBlock == main \in {"Dispatch", "WaitEmpty", "WaitIdle"}

(* Core.hpp:94 and the check of Core.cpp:215 ("Task queue was not          *)
(* empty!"): whenever the core is not waiting for a block, no task is      *)
(* queued for the workers and no worker holds one, whatever the            *)
(* interleaving of pops, increments and the main thread's two waits.       *)
Resynchronised ==
  ~InBlock => /\ running_task_queue = <<>> /\ busy_counter = 0
              /\ \A w \in Workers : ~Busy(w) /\ task_fn[w] = NoTask

(* Core::run always returns or throws: no wake-up of the main thread is    *)
(* lost and no worker keeps the counter up (Queues.hpp:48-52,              *)
(* TaskExecutor.hpp:40-44).                                                *)
RunReturns == main = "EnqueueTime" ~> main \in {"Front", "Destroy"}

(* ~TaskExecutor always returns, also after an error stopped the core, and *)
(* by then no thread that uses its members is left (TaskExecutor.hpp:88).  *)
ShutdownCompletes ==
  main = "Destroy" ~> main = "Done" /\ \A w \in Workers : worker[w] = "Exited"
-----------------------------------------------------------------------------
(* The inductive invariant behind these properties.                        *)

\* busy_counter counts the busy workers, and is down once a run is over.
CounterInv ==
  /\ busy_counter = Cardinality({w \in Workers : Busy(w)})
  /\ ~InBlock => busy_counter = 0
  /\ \A w \in Workers : (task_fn[w] = NoTask) = (worker[w] \notin {"Run", "Error", "Release"})

\* Which queues may hold something where the main thread is, and what the
\* mutex of running_task_queue protects.
QueueInv ==
  /\ main \notin {"Package", "Dispatch"} => pending_task_queue = <<>>
  /\ main \notin {"Dispatch", "WaitEmpty"} => running_task_queue = <<>>
  /\ \A w \in Workers : worker[w] = "Pop" => running_task_queue # <<>>
  /\ \A v, w \in Workers : worker[v] = "Pop" /\ worker[w] = "Pop" => v = w

InHand == {task_fn[w] : w \in {v \in Workers : worker[v] = "Run"}}
Distinct(s) == \A i, j \in 1..Len(s) : s[i] = s[j] => i = j

\* No event is in two places, or twice in one; all have ids already issued.
PlaceInv ==
  LET E == Range(controller_event_queue) P == Range(pending_task_queue)
      R == Range(running_task_queue)
  IN  /\ Distinct(controller_event_queue) /\ Distinct(pending_task_queue)
      /\ Distinct(running_task_queue)
      /\ \A v, w \in Workers :
           (worker[v] = "Run" /\ worker[w] = "Run" /\ task_fn[v] = task_fn[w]) => v = w
      /\ E \cap (P \cup R \cup InHand \cup handled) = {}
      /\ P \cap (R \cup InHand \cup handled) = {}
      /\ R \cap (InHand \cup handled) = {}
      /\ InHand \cap handled = {}
      /\ \A e \in E \cup P \cup R \cup InHand \cup handled : e.id < issued

\* A failure is on its way to the error queue, in it, or has stopped the core.
ErrorInv ==
  /\ failed # {} => \/ thread_error_queue # <<>>
                    \/ \E w \in Workers : worker[w] = "Error"
                    \/ main \in {"Destroy", "Join", "Done"}
  /\ thread_error_queue # <<>> \/ (\E w \in Workers : worker[w] = "Error")
       => failed # {}

IInv == TypeOK /\ CounterInv /\ QueueInv /\ PlaceInv /\ ErrorInv
-----------------------------------------------------------------------------
(* The run is a block of SyncBlocks, from the first dispatch to the end of *)
(* the error check; the tasks not handled yet are those pending, queued or *)
(* in the hands of a worker that has not returned from the handler.        *)
BlockStatus == IF main \in {"Front", "EnqueueTime", "Package"} THEN "between"
               ELSE IF InBlock \/ main = "CheckErrors" THEN "block"
               ELSE "stopped"
BlockNext == Range(controller_event_queue) \cup
             (IF main = "Package" THEN Range(pending_task_queue) ELSE {})
BlockTodo == (IF main = "Package" THEN {} ELSE Range(pending_task_queue))
             \cup Range(running_task_queue) \cup InHand

Blocks == INSTANCE SyncBlocks WITH
            status <- BlockStatus, next <- BlockNext, block <- BlockTodo

(* Core.hpp:92-95: every event, also one that a handler enqueues while     *)
(* other handlers run, is handled exactly once, in the first block that    *)
(* begins after it was enqueued; the block does not end before, and a      *)
(* handler's exception always stops the core.                              *)
RunsInBlocks == Blocks!Spec
=============================================================================
