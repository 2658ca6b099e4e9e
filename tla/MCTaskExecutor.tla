--------------------------- MODULE MCTaskExecutor ---------------------------
(* Two timers and the Crtc that notifies them, for TLC. *)
EXTENDS TaskExecutor

CONSTANTS EeTimers, IopTimers

MCOrder == <<EeTimers, IopTimers, Crtc>>
MCTargets == <<EeTimers, IopTimers>>
=============================================================================
