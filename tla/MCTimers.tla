------------------------------ MODULE MCTimers ------------------------------
(* The IOP's narrow unit counts HBlanks or time, restarts at its target or *)
(* overflows; its wide unit counts time.  Two HBlanks fall into one block. *)
EXTENDS Timers
MCUnits == [ee |-> <<>>, iop |-> <<"I0", "I3">>]
MCTasks == {[controller |-> "iop", event |-> "Time", id |-> 1],
            [controller |-> "iop", event |-> "HBlank", id |-> 1],
            [controller |-> "iop", event |-> "HBlank", id |-> 2]}
MCEeTasks == {[controller |-> "ee", event |-> "HBlank", id |-> 1]}
MCEeUnits == [ee |-> <<"E0">>, iop |-> <<>>]
On(u, reset, target, of, src) ==
  [ZeroMode("iop") EXCEPT !.RESET_MODE = reset, !.IRQ_ON_TARGET = target, !.IRQ_ON_OF = of,
                      !.EVENT_SRC = src, !.IRQ_REPEAT = TRUE, !.IRQ_REQUEST = TRUE]
MCModes ==
  [u \in {"E0", "I0", "I3"} |->
    CASE u = "E0" -> {[ZeroMode("ee") EXCEPT !.CLKS = 3, !.CUE = TRUE, !.CMPE = TRUE]}
      [] u = "I0" -> {On(u, TRUE, TRUE, FALSE, "HBlank"), On(u, FALSE, TRUE, TRUE, "HBlank"),
                      On(u, TRUE, FALSE, TRUE, "Time")}
      [] u = "I3" -> {On(u, FALSE, FALSE, TRUE, "Time"),
                      [On(u, TRUE, TRUE, FALSE, "Time") EXCEPT !.SYNC_ENABLE = TRUE]}]
=============================================================================
