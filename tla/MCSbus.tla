------------------------------- MODULE MCSbus -------------------------------
(* The values written in the runs of Sbus. *)
EXTENDS Sbus
Flags == {{1}, {2}, {1, 2}}
Magic == {{5}, {6}, {8}}
=============================================================================
