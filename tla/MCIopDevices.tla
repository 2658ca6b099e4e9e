----------------------------- MODULE MCIopDevices -----------------------------
(* Values for TLC: of the IOP's core and of its peripherals. *)
EXTENDS IopDevices, TLC

MCVectors == (TRUE :> 3 @@ FALSE :> 2)
MCProgram(nesting, kinds) == [nesting |-> nesting, kinds |-> kinds]
MCPrograms == {MCProgram(2, {"plain", "branch", "trap", "status", "interrupt"}),
               MCProgram(1, {"memory", "status", "trap"}), MCProgram(1, {"status", "trap", "user"})}

\* Two ports, of which one may have nothing to send or ask for no answer.
MCLength(cmdlen, bufsz) == [CMDLEN |-> cmdlen, BUFSZ |-> bufsz]
MCLengths == {(0 :> MCLength(2, 1) @@ 1 :> MCLength(1, 1)), (0 :> MCLength(1, 1) @@ 1 :> MCLength(0, 0)),
              (0 :> MCLength(0, 0) @@ 1 :> MCLength(2, 2))}

\* Both ways of writing, and what throws.
MCAttr(bits, mode, irq) == [DMABITS |-> bits, DMAMODE |-> mode, IRQENABLE |-> irq]
MCAttrs == {MCAttr(FALSE, 0, TRUE), MCAttr(FALSE, 2, TRUE),
            MCAttr(FALSE, 1, TRUE), MCAttr(FALSE, 3, FALSE), MCAttr(TRUE, 2, FALSE)}
=============================================================================
