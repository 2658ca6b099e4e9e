------------------------------- MODULE MCIntc -------------------------------
(* The CRTC raises VBlank at both processors; the timers, at either. *)
EXTENDS Intc
MCDevices == {"Crtc", "Timers"}
Only(p, bits) == [q \in Processors |-> IF q = p THEN bits ELSE {}]
MCRaises == [d \in MCDevices |-> IF d = "Crtc" THEN {[p \in Processors |-> {"VBlank"}]}
                                 ELSE {Only(p, {"Timer"}) : p \in Processors}]
EitherProgram == {{"ee"}, {"iop"}}
=============================================================================
