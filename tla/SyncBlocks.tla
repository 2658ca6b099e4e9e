----------------------------- MODULE SyncBlocks -----------------------------
(***************************************************************************)
(* What Core promises of its execution (comment at liborbum/src/Core.hpp,  *)
(* lines 92-95): "Execution occurs in synchronised blocks - the core waits *)
(* until all events are processed by the controllers before dispatching    *)
(* any new ones".                                                          *)
(*                                                                         *)
(* Events are enqueued at any time, by the core or by a controller that is *)
(* handling one.  A block takes every event enqueued before it began, each *)
(* of them is handled exactly once, in any order, and the block ends when  *)
(* all are handled.  A block in which a handler failed stops the core.     *)
(***************************************************************************)

VARIABLES status,       \* "between" blocks, in a "block", or "stopped"
          next,         \* the events waiting for the next block
          block,        \* the events of this block not handled yet
          handled,      \* the events handled so far
          failed        \* those whose handler threw

avars == <<status, next, block, handled, failed>>

Init ==
  /\ status = "between"
  /\ next = {} /\ block = {} /\ handled = {} /\ failed = {}

\* Some event that was never seen before arrives.
Enqueue ==
  /\ \E e \in next' \ (next \cup block \cup handled) : next' = next \cup {e}
  /\ UNCHANGED <<status, block, handled, failed>>

Begin ==
  /\ status = "between"
  /\ status' = "block" /\ block' = next /\ next' = {}
  /\ UNCHANGED <<handled, failed>>

\* The handler of e returns, or throws.
Handle(e) ==
  /\ status = "block"
  /\ block' = block \ {e}
  /\ handled' = handled \cup {e}
  /\ failed' \in {failed, failed \cup {e}}
  /\ UNCHANGED <<status, next>>

\* The block ends, and a failure in it is never silent.
End ==
  /\ status = "block" /\ block = {}
  /\ status' = IF failed = {} THEN "between" ELSE "stopped"
  /\ UNCHANGED <<next, block, handled, failed>>

Quit ==
  /\ status = "between" /\ status' = "stopped"
  /\ UNCHANGED <<next, block, handled, failed>>

Next == Enqueue \/ Begin \/ (\E e \in block : Handle(e)) \/ End \/ Quit

Spec == Init /\ [][Next]_avars
=============================================================================
