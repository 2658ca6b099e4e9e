-------------------------------- MODULE Sif ---------------------------------
(***************************************************************************)
(* The SIF: the two DMA controllers, each with its processor's program,    *)
(* connected by the FIFO queues SIF0 and SIF1, which they share            *)
(* (RResources.cpp:224-226, 287-295; for SBUS_F240, see Sbus).  The EE's   *)
(* side is EeDmac, the IOP's is Iop; neither has other peripherals here.   *)
(***************************************************************************)
EXTENDS EeDmac

CONSTANTS IopChannels, IopMemSize, FieldSize, TagLimit, IopScenarios

VARIABLES iop_setup, gctrl, pcr, icr, intc, iop_channels, iop_memory, iop_dmac,
          iop_program, iop_input, iop_received, handler, iop_toggles, chcr_write, torn

Iop == INSTANCE IopDmac WITH
  Channels <- IopChannels, MemSize <- IopMemSize, Scenarios <- IopScenarios,
  channels <- iop_channels, memory <- iop_memory, dmac <- iop_dmac,
  program <- iop_program, input <- iop_input, received <- iop_received,
  toggles <- iop_toggles, setup <- iop_setup

\* What is the EE's, what is the IOP's, and all of it.
eeVars == <<ctrl, stadr, stat, mask, irq, channels, memory, dmac, env>>
iopVars == <<iop_setup, gctrl, pcr, icr, intc, iop_channels, iop_memory, iop_dmac,
             iop_program, iop_input, iop_received, handler, iop_toggles,
             chcr_write, torn>>
sifVars == <<eeVars, iopVars, fifo>>

ASSUME IopAssumption == Iop!ConstantsTyped /\ Iop!ChainsBuilt

\* The queue of an IOP channel has the number of the EE channel at its other end.
Wired == Channels = Iop!Queues /\ Channels \subseteq {5, 6}

SifInit == Init /\ Iop!Init

EeDmacStep == DmacNext /\ UNCHANGED iopVars
EeProgramStep(c) == CoreWrite(c) /\ UNCHANGED iopVars
IopDmacStep == Iop!DmacNext /\ UNCHANGED eeVars
IopProgramStep(c) == Iop!ProgramNext(c) /\ UNCHANGED eeVars
IopHandlerStep == Iop!HandlerNext /\ UNCHANGED eeVars

SifNext ==
  \/ EeDmacStep \/ IopDmacStep \/ IopHandlerStep
  \/ \E c \in Channels : EeProgramStep(c)
  \/ \E c \in IopChannels : IopProgramStep(c)

SifSpec == SifInit /\ [][SifNext]_sifVars

(* Both DMACs are tasks of every run of the core, and both processors      *)
(* carry on with their programs.                                           *)
SifFairSpec ==
  /\ SifSpec /\ WF_sifVars(EeDmacStep) /\ WF_sifVars(IopDmacStep)
  /\ WF_sifVars(IopHandlerStep)
  /\ \A c \in Channels : WF_sifVars(EeProgramStep(c))
  /\ \A c \in IopChannels : WF_sifVars(IopProgramStep(c))
=============================================================================
