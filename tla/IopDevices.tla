------------------------------ MODULE IopDevices ------------------------------
(***************************************************************************)
(* The IOP: its core, and the peripherals that a program gives commands    *)
(* to: the CDVD drive, the serial interfaces and the SPU2, each with the   *)
(* program that drives it.  In these models they share nothing, so one of  *)
(* them is driven in a behaviour and the others stay as after a reset.     *)
(***************************************************************************)
EXTENDS IopCore, Cdvd

CONSTANTS
  Ports, Lengths, OutCap, MaxTransfers,                       \* the serial interfaces'
  CoreId, Block, MemoryBlocks, Attrs, Starts, Watched, Words, QueueCap, MaxSounds  \* the SPU2's

VARIABLES
  driven,
  ctrl, ctrl3, sio0_ctrl, stat, command_queue, response_queue, fifo_tosio2, fifo_fromsio2,
  ctrl_lock, stat_lock, sio2, sio0, intc, sio_program, transfers, discarded,
  attr, dma_offset, admas, dreq, tsa, irqa, irqinfo, memory, fifo, dma,
  spu_stat, spu, spu_prog, sounds, spu_raised, between, early

Serial == INSTANCE Sio WITH program <- sio_program
Sound == INSTANCE Spu2 WITH stat <- spu_stat, prog <- spu_prog, raised <- spu_raised

ASSUME CoreAssumption == IopCoreAssumption
ASSUME DriveAssumption == CdvdAssumption
ASSUME SerialAssumption == Serial!SioAssumption
ASSUME SoundAssumption == Sound!Spu2Assumption

serial_vars == <<ctrl, ctrl3, sio0_ctrl, stat, command_queue, response_queue, fifo_tosio2, fifo_fromsio2,
                 ctrl_lock, stat_lock, sio2, sio0, intc, sio_program, transfers, discarded>>
sound_vars == <<attr, dma_offset, admas, dreq, tsa, irqa, irqinfo, memory, fifo, dma,
                spu_stat, spu, spu_prog, sounds, spu_raised, between, early>>
all == <<driven, vars, drive_vars, serial_vars, sound_vars>>

\* A core that is not driven has one program only.
InitDevices ==
  /\ driven \in {"core", "cdvd", "sio", "spu2"}
  /\ Init /\ DriveInit /\ Serial!Init /\ Sound!Init
  /\ driven # "core" => program = CHOOSE p \in Programs : TRUE
Drives(part) == driven = part /\ UNCHANGED driven
OfCore(step) == Drives("core") /\ step /\ UNCHANGED <<drive_vars, serial_vars, sound_vars>>
OfCdvd(step) == Drives("cdvd") /\ step /\ UNCHANGED <<vars, serial_vars, sound_vars>>
OfSio(step) == Drives("sio") /\ step /\ UNCHANGED <<vars, drive_vars, sound_vars>>
OfSpu2(step) == Drives("spu2") /\ step /\ UNCHANGED <<vars, drive_vars, serial_vars>>
NextDevices == OfCore(Next) \/ OfCdvd(DriveNext) \/ OfSio(Serial!Next) \/ OfSpu2(Sound!Next)

\* The fairness of each module.
SpecDevices ==
  /\ InitDevices /\ [][NextDevices]_all
  /\ WF_all(OfCore(Step)) /\ WF_all(OfCore(Raise))
  /\ WF_all(OfCdvd(CdvdStep)) /\ WF_all(OfCdvd(Program))
  /\ SF_all(OfSio(Serial!Sio2Step)) /\ SF_all(OfSio(Serial!Sio0Step)) /\ SF_all(OfSio(Serial!Program))
  /\ WF_all(OfSpu2(Sound!SpuStep)) /\ WF_all(OfSpu2(Sound!Channel)) /\ WF_all(OfSpu2(Sound!Program))
-----------------------------------------------------------------------------
(* Each command of the drive's program is answered with what the commands  *)
(* before it have stored, in their order; the flags that it polls tell the *)
(* state of the queue and of the command, whoever has read them and not    *)
(* yet written them back; and the drive throws only on a command that      *)
(* breaks the rules of the NVRAM's areas (CCdvd_SCMD.cpp:5-77,             *)
(* CCdvd.cpp:53-82, CdvdRegisters.cpp:27-38).                              *)
DriveAnswers == CdvdInv /\ CommandsAnswered /\ FlagsTrue /\ ThrowsIfIllegal

(* What the interrupt of the SIO2 announces is every answer, in the order  *)
(* of the bytes sent (CSio2.cpp:138-149, 227-233), and the reset of the    *)
(* SIO0 discards no byte of the first transfer (CSio0.cpp:80-82).          *)
PortsAnswer == Serial!PortsInv /\ Serial!AnswersInOrder /\ Serial!FirstTransferWhole

(* Once the SPU2 asks for data again, each halfword of the transfer is in  *)
(* its place and the interrupt of the watched address has been raised      *)
(* (CSpu2.cpp:123-260).  The last may still be in the SPU2's hands, if it  *)
(* has looked for it between the halves of its word (CIopDmac.cpp:322);    *)
(* nothing is said of the transfers of a program that has gone on then.    *)
SoundArrives == Sound!SoundInv /\ Sound!SoundInPlace /\ Sound!WatchedRaised

(* Each command comes to its end and its program gets on, and so does the  *)
(* first transfer of the serial interfaces and each one of the SPU2's that *)
(* does not fail for one of the two reasons given there (CCdvd.cpp:53-82,  *)
(* CSio2.cpp:68-150, CSpu2.cpp:47-214).                                    *)
Waits == \/ driven = "cdvd" /\ Commanded
         \/ driven = "sio" /\ Serial!FirstTransferWaits
         \/ driven = "spu2" /\ Sound!SoundWaits
Ended == \/ driven = "cdvd" /\ Complete
         \/ driven = "sio" /\ Serial!FirstTransferEnded
         \/ driven = "spu2" /\ Sound!SoundEnded
DevicesFinish == Waits ~> Ended
=============================================================================
