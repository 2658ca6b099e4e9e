-------------------------------- MODULE Sio ---------------------------------
(***************************************************************************)
(* The SIO2 and the SIO0 behind it                                         *)
(* (liborbum/src/Controller/Iop/{Sio0,Sio2}, Resources/Iop/{Sio0,Sio2}).   *)
(* A program starts the SIO2 by writing CTRL: first to send the bytes of   *)
(* fifo_tosio2 to the SIO0, CMDLEN of them for each port, then to receive  *)
(* the answers, BUFSZ for each port, into fifo_fromsio2.  The SIO0 answers *)
(* each byte of its command queue.  The two controllers run on threads of  *)
(* their own and share the SIO0's CTRL and STAT.  A time step holds the    *)
(* lock of its own CTRL; STAT has a lock that one of the updates does not  *)
(* take, and the queues have none.                                         *)
(*                                                                         *)
(* The program answers every byte with 0; here an answer is the byte       *)
(* itself, with the port that was selected, to tell them apart.  Nothing   *)
(* sets STAT.DSR, so that handle_irq_check has no effect.                  *)
(***************************************************************************)
EXTENDS Integers, Sequences, FiniteSets

CONSTANTS
  Ports,          \* NUMBER_PORTS
  Lengths,        \* CMDLEN and BUFSZ of each port that a program may write
  OutCap,         \* the capacity of fifo_fromsio2
  MaxTransfers,   \* bound: transfers, in both directions
  Nobody          \* holds no lock

PortNumbers == 0..Ports - 1
SioAssumption ==
  /\ Ports \in Nat \ {0} /\ Lengths \subseteq [PortNumbers -> [CMDLEN : Nat, BUFSZ : Nat]]
  /\ OutCap \in Nat \ {0} /\ MaxTransfers \in Nat /\ Nobody \notin {"sio0", "sio2"}

VARIABLES
  ctrl,           \* the SIO2's CTRL: DIRECTION, write_latch and the state of the transfer
  ctrl3,          \* CTRL3 of each port: its length, write_latch, port_transfer_started
  sio0_ctrl,      \* SIO_RESET and PORT
  stat,           \* TX_RDY1, TX_RDY2 and RX_NONEMPTY of the SIO0
  command_queue, response_queue, fifo_tosio2, fifo_fromsio2,
  ctrl_lock,      \* who holds the lock of the SIO0's CTRL
  stat_lock,      \* ... and of its STAT
  sio2, sio0,     \* place in each time step, and what it has read
  intc,           \* the SIO2 bit of the INTC
  program, transfers,
  discarded       \* history: bytes of this transfer that a reset of the SIO0 threw away

queues == <<command_queue, response_queue, fifo_tosio2, fifo_fromsio2>>
registers == <<ctrl, ctrl3, sio0_ctrl>>
locks == <<ctrl_lock, stat_lock>>
progs == <<program, transfers>>
vars == <<registers, stat, queues, locks, sio2, sio0, intc, progs, discarded>>

Init ==
  /\ ctrl = [DIRECTION |-> "none", write_latch |-> FALSE, started |-> FALSE, port |-> 0,
             count |-> 0, direction |-> "none"]
  /\ ctrl3 = [p \in PortNumbers |->
                [length |-> [CMDLEN |-> 0, BUFSZ |-> 0], write_latch |-> FALSE, started |-> FALSE]]
  /\ sio0_ctrl = [SIO_RESET |-> FALSE, PORT |-> 0]
  /\ stat = [TX_RDY1 |-> FALSE, TX_RDY2 |-> FALSE, RX_NONEMPTY |-> FALSE]
  /\ command_queue = <<>> /\ response_queue = <<>> /\ fifo_tosio2 = <<>> /\ fifo_fromsio2 = <<>>
  /\ ctrl_lock = Nobody /\ stat_lock = Nobody
  /\ sio2 = [at |-> "idle", read |-> stat, some |-> FALSE] /\ sio0 = [at |-> "idle", read |-> stat]
  /\ intc = FALSE /\ program = "send" /\ transfers = 0 /\ discarded = 0
-----------------------------------------------------------------------------
(* The SIO2's time step.                                                   *)
At2(place) == sio2.at = place
Goto2(place) == sio2' = [sio2 EXCEPT !.at = place]

CtrlCheck ==
  /\ At2("idle")
  /\ IF ctrl.write_latch /\ ~ctrl.started
     THEN /\ ctrl' = [DIRECTION |-> "none", write_latch |-> FALSE, started |-> TRUE,
                      port |-> 0, count |-> 0, direction |-> ctrl.DIRECTION]
          /\ Goto2(IF ctrl.DIRECTION = "TX" THEN "reset" ELSE "port")
     ELSE UNCHANGED ctrl /\ Goto2("port")
  /\ UNCHANGED <<ctrl3, sio0_ctrl, stat, queues, locks, sio0, intc, progs, discarded>>

\* handle_sio0_reset: the SIO0 will do it.
Sio0Reset ==
  /\ At2("reset") /\ ctrl_lock = Nobody
  /\ sio0_ctrl' = [sio0_ctrl EXCEPT !.SIO_RESET = TRUE] /\ Goto2("port")
  /\ UNCHANGED <<ctrl, ctrl3, stat, queues, locks, sio0, intc, progs, discarded>>

Length == LET length == ctrl3[ctrl.port].length
          IN  IF ctrl.direction = "TX" THEN length.CMDLEN ELSE length.BUFSZ
Finished == ctrl.count = Length
Waits == ~ctrl.started \/ (~ctrl3[ctrl.port].started /\ ~ctrl3[ctrl.port].write_latch)

\* Mutant: the first byte does not wait for the SIO0.
PortTransferEager ==
  /\ At2("port")
  /\ IF Waits THEN Goto2("idle") /\ UNCHANGED ctrl3
     ELSE /\ ctrl3' = [ctrl3 EXCEPT ![ctrl.port].started = TRUE,
                                    ![ctrl.port].write_latch = @ /\ ctrl3[ctrl.port].started]
          /\ IF Finished THEN Goto2("next")
             ELSE IF ctrl.direction = "TX"
             THEN Goto2(IF fifo_tosio2 = <<>> THEN "idle" ELSE "send")
             ELSE Goto2(IF Len(fifo_fromsio2) = OutCap \/ ~stat.RX_NONEMPTY THEN "idle"
                        ELSE "receive")
  /\ UNCHANGED <<ctrl, sio0_ctrl, stat, queues, locks, sio0, intc, progs, discarded>>

\* handle_port_transfer, and what transfer_data_tx and transfer_data_rx wait for.
PortTransfer ==
  /\ At2("port")
  /\ IF Waits THEN Goto2("idle") /\ UNCHANGED ctrl3
     ELSE /\ ctrl3' = [ctrl3 EXCEPT ![ctrl.port].started = TRUE,
                                    ![ctrl.port].write_latch = @ /\ ctrl3[ctrl.port].started]
          /\ IF Finished THEN Goto2("next")
             ELSE IF ctrl.direction = "TX"
             THEN Goto2(IF ~stat.TX_RDY1 \/ fifo_tosio2 = <<>> THEN "idle"
                        ELSE IF ctrl.count > 0 THEN "send"
                        ELSE IF stat.TX_RDY2 THEN "select" ELSE "idle")
             ELSE Goto2(IF Len(fifo_fromsio2) = OutCap \/ ~stat.RX_NONEMPTY THEN "idle"
                        ELSE "receive")
  /\ UNCHANGED <<ctrl, sio0_ctrl, stat, queues, locks, sio0, intc, progs, discarded>>

SelectPort ==
  /\ At2("select") /\ ctrl_lock = Nobody
  /\ sio0_ctrl' = [sio0_ctrl EXCEPT !.PORT = ctrl.port] /\ Goto2("send")
  /\ UNCHANGED <<ctrl, ctrl3, stat, queues, locks, sio0, intc, progs, discarded>>

\* The SIO0's DATA, write_ubyte: the queue first ...
SendByte ==
  /\ At2("send") /\ Goto2("sent")
  /\ fifo_tosio2' = Tail(fifo_tosio2)
  /\ command_queue' = Append(command_queue, Head(fifo_tosio2))
  /\ UNCHANGED <<registers, stat, response_queue, fifo_fromsio2, locks, sio0, intc, progs, discarded>>

\* ... and read_ubyte, which throws if there is nothing.
ReceiveByte ==
  /\ At2("receive")
  /\ IF response_queue = <<>>
     THEN Goto2("failed") /\ UNCHANGED <<response_queue, fifo_fromsio2>>
     ELSE /\ Goto2("received") /\ response_queue' = Tail(response_queue)
          /\ fifo_fromsio2' = Append(fifo_fromsio2, Head(response_queue))
  /\ UNCHANGED <<registers, stat, command_queue, fifo_tosio2, locks, sio0, intc, progs, discarded>>

\* ... then STAT, under its lock; the command queue never fills.
ReadStat ==
  /\ sio2.at \in {"sent", "received"} /\ stat_lock = Nobody /\ stat_lock' = "sio2"
  /\ sio2' = [at |-> IF At2("sent") THEN "tx" ELSE "rx", read |-> stat,
              some |-> response_queue # <<>>]
  /\ UNCHANGED <<registers, stat, queues, ctrl_lock, sio0, intc, progs, discarded>>

WriteStat ==
  /\ sio2.at \in {"tx", "rx"} /\ stat_lock' = Nobody
  /\ stat' = IF At2("tx") THEN [sio2.read EXCEPT !.TX_RDY1 = TRUE, !.TX_RDY2 = FALSE]
             ELSE [sio2.read EXCEPT !.RX_NONEMPTY = sio2.some]
  /\ ctrl' = [ctrl EXCEPT !.count = @ + 1]
  /\ Goto2("next")
  /\ UNCHANGED <<ctrl3, sio0_ctrl, queues, ctrl_lock, sio0, intc, progs, discarded>>

\* The next port, and the interrupt after the last one.
NextPort ==
  /\ At2("next") /\ Goto2("idle")
  /\ IF ~Finished THEN UNCHANGED <<ctrl, ctrl3, intc>>
     ELSE /\ ctrl' = [ctrl EXCEPT !.port = @ + 1, !.count = 0, !.started = ctrl.port + 1 # Ports]
          /\ ctrl3' = [ctrl3 EXCEPT ![ctrl.port].started = @ /\ ctrl.direction # "RX"]
          /\ intc' = (intc \/ (ctrl.direction = "RX" /\ ctrl.port + 1 = Ports))
  /\ UNCHANGED <<sio0_ctrl, stat, queues, locks, sio0, progs, discarded>>

Sio2Step == \/ CtrlCheck \/ Sio0Reset \/ PortTransfer \/ SelectPort \/ SendByte
            \/ ReceiveByte \/ ReadStat \/ WriteStat \/ NextPort
-----------------------------------------------------------------------------
(* The SIO0's time step.                                                   *)
At0(place) == sio0.at = place
Goto0(place) == sio0' = [sio0 EXCEPT !.at = place]

ResetCheck ==
  /\ At0("idle") /\ ctrl_lock = Nobody /\ stat_lock = Nobody /\ ctrl_lock' = "sio0"
  /\ Goto0("transfer")
  /\ IF sio0_ctrl.SIO_RESET
     THEN /\ command_queue' = <<>> /\ response_queue' = <<>>
          /\ stat' = [stat EXCEPT !.TX_RDY1 = TRUE]
          /\ sio0_ctrl' = [sio0_ctrl EXCEPT !.SIO_RESET = FALSE]
          /\ discarded' = discarded + Len(command_queue)
     ELSE UNCHANGED <<command_queue, response_queue, stat, sio0_ctrl, discarded>>
  /\ UNCHANGED <<ctrl, ctrl3, fifo_tosio2, fifo_fromsio2, stat_lock, sio2, intc, progs>>

\* handle_transfer: with nothing to do it sets TX_RDY2, without STAT's lock ...
Look ==
  /\ At0("transfer") /\ command_queue = <<>>
  /\ sio0' = [at |-> "ready", read |-> stat]
  /\ UNCHANGED <<registers, stat, queues, locks, sio2, intc, progs, discarded>>

SetReady ==
  /\ At0("ready") /\ Goto0("idle")
  /\ stat' = [sio0.read EXCEPT !.TX_RDY2 = TRUE] /\ ctrl_lock' = Nobody
  /\ UNCHANGED <<registers, queues, stat_lock, sio2, intc, progs, discarded>>

\* ... and otherwise answers a byte, which it tells with the lock.
Answer ==
  /\ At0("transfer") /\ command_queue # <<>> /\ Goto0("answered")
  /\ command_queue' = Tail(command_queue)
  /\ response_queue' = Append(response_queue, [byte |-> Head(command_queue), port |-> sio0_ctrl.PORT])
  /\ UNCHANGED <<registers, stat, fifo_tosio2, fifo_fromsio2, locks, sio2, intc, progs, discarded>>

TellAnswer ==
  /\ At0("answered") /\ stat_lock = Nobody /\ Goto0("idle")
  /\ stat' = [stat EXCEPT !.RX_NONEMPTY = TRUE] /\ ctrl_lock' = Nobody
  /\ UNCHANGED <<registers, queues, stat_lock, sio2, intc, progs, discarded>>

Sio0Step == ResetCheck \/ Look \/ SetReady \/ Answer \/ TellAnswer
-----------------------------------------------------------------------------
(* The program: it writes CTRL to send, CTRL3 of each port and the bytes,  *)
(* then CTRL to receive, and pops the answers after the interrupt.  It     *)
(* does not write CTRL again before the SIO2 has seen the last value: its  *)
(* latch keeps one only.                                                   *)
Free == At2("idle")     \* the lock of the SIO2's CTRL
WriteCtrl(direction) == ctrl' = [ctrl EXCEPT !.DIRECTION = direction, !.write_latch = TRUE]

BytesFor(lengths) ==
  LET of[p \in 0..Ports] == IF p = 0 THEN <<>>
        ELSE of[p - 1] \o [i \in 1..lengths[p - 1].CMDLEN |-> <<transfers + 1, p - 1, i>>]
  IN  of[Ports]

\* CTRL3 and the bytes are written at once: the transfer waits for both.
Send ==
  /\ program = "send" /\ transfers < MaxTransfers /\ transfers' = transfers + 1
  /\ Free /\ ~ctrl.write_latch /\ WriteCtrl("TX") /\ program' = "receive"
  /\ \E lengths \in Lengths :
       /\ ctrl3' = [p \in PortNumbers |-> [ctrl3[p] EXCEPT !.length = lengths[p], !.write_latch = TRUE]]
       /\ fifo_tosio2' = fifo_tosio2 \o BytesFor(lengths)
  /\ discarded' = 0
  /\ UNCHANGED <<sio0_ctrl, stat, command_queue, response_queue, fifo_fromsio2, locks, sio2, sio0, intc>>

Receive ==
  /\ program = "receive" /\ Free /\ ~ctrl.write_latch /\ WriteCtrl("RX") /\ program' = "wait"
  /\ UNCHANGED <<ctrl3, sio0_ctrl, stat, queues, locks, sio2, sio0, intc, transfers, discarded>>

Collect ==
  /\ program = "wait" /\ intc /\ intc' = FALSE /\ program' = "send"
  /\ fifo_fromsio2' = <<>>
  /\ UNCHANGED <<registers, stat, command_queue, response_queue, fifo_tosio2, locks, sio2, sio0,
                 transfers, discarded>>

Program == Send \/ Receive \/ Collect
-----------------------------------------------------------------------------
Next == Sio2Step \/ Sio0Step \/ Program

(* Both controllers get a Time event in each block.  Fairness is strong    *)
(* because a block does not end before both have done their time steps:    *)
(* one cannot keep the other from its lock for ever.                       *)
Fairness == SF_vars(Sio2Step) /\ SF_vars(Sio0Step) /\ SF_vars(Program)
Spec == Init /\ [][Next]_vars /\ Fairness
-----------------------------------------------------------------------------
(* What the proofs rest on: where the transfer is when the program and the  *)
(* SIO2 are at a place, ...                                                *)
Directions == {"none", "TX", "RX"}
Stats == [TX_RDY1 : BOOLEAN, TX_RDY2 : BOOLEAN, RX_NONEMPTY : BOOLEAN]
Bytes == Nat \X PortNumbers \X Nat
Answers == [byte : Bytes, port : PortNumbers]
Places == {"idle", "reset", "port", "select", "send", "sent", "tx", "receive", "received", "rx",
           "next", "failed"}
TypeOK ==
  /\ ctrl \in [DIRECTION : Directions, write_latch : BOOLEAN, started : BOOLEAN,
               port : 0..Ports, count : Nat, direction : Directions]
  /\ ctrl3 \in [PortNumbers -> [length : [CMDLEN : Nat, BUFSZ : Nat],
                                write_latch : BOOLEAN, started : BOOLEAN]]
  /\ sio0_ctrl \in [SIO_RESET : BOOLEAN, PORT : PortNumbers] /\ stat \in Stats
  /\ command_queue \in Seq(Bytes) /\ fifo_tosio2 \in Seq(Bytes)
  /\ response_queue \in Seq(Answers) /\ fifo_fromsio2 \in Seq(Answers)
  /\ ctrl_lock \in {Nobody, "sio0"} /\ stat_lock \in {Nobody, "sio2"}
  /\ sio2 \in [at : Places, read : Stats, some : BOOLEAN]
  /\ sio0 \in [at : {"idle", "transfer", "ready", "answered"}, read : Stats]
  /\ intc \in BOOLEAN /\ program \in {"send", "receive", "wait"}
  /\ transfers \in 0..MaxTransfers /\ discarded \in Nat

AskedOf(lengths) == LET sum[p \in 0..Ports] == IF p = 0 THEN 0 ELSE sum[p - 1] + lengths[p - 1]
                    IN  sum
Asked == AskedOf([p \in PortNumbers |-> ctrl3[p].length.BUFSZ])
Total == Asked[Ports]
Received == IF ctrl.started
            THEN Asked[ctrl.port] + ctrl.count + (IF sio2.at \in {"received", "rx"} THEN 1 ELSE 0)
            ELSE Total
Phase ==
  /\ ctrl.started => ctrl.port < Ports /\ ctrl.direction # "none"
  /\ sio2.at \notin {"idle", "port"} => ctrl.started
  /\ sio2.at \in {"reset", "select", "send", "sent", "tx"} => ctrl.direction = "TX"
  /\ sio2.at \in {"receive", "received", "rx", "failed"} => ctrl.direction = "RX"
  /\ sio2.at \in {"select", "send"} => fifo_tosio2 # <<>>
  /\ (intc => program = "wait") /\ (transfers = 0 => program = "send")
  /\ program = "send" => ~ctrl.write_latch /\ ~ctrl.started
  /\ program = "receive" =>
       IF ctrl.write_latch THEN ctrl.DIRECTION = "TX" /\ ~ctrl.started ELSE ctrl.direction = "TX"
  /\ program = "wait" =>
       IF ctrl.write_latch THEN ctrl.DIRECTION = "RX" /\ ctrl.direction = "TX" /\ ~intc
       ELSE ctrl.direction = "RX" /\ intc = ~ctrl.started
Counted ==
  /\ Len(fifo_fromsio2) = IF program = "wait" /\ ~ctrl.write_latch THEN Received ELSE 0
  /\ Len(fifo_fromsio2) <= OutCap /\ (At2("receive") => Len(fifo_fromsio2) < OutCap)

(* ... that a byte never overtakes another one on its way through the four *)
(* queues ...                                                              *)
Before(b, c) == \/ b[1] < c[1]
                \/ (b[1] = c[1] /\ b[2] < c[2])
                \/ (b[1] = c[1] /\ b[2] = c[2] /\ b[3] < c[3])
Increasing(bytes) == \A i, j \in 1..Len(bytes) : i < j => Before(bytes[i], bytes[j])
BytesOf(answers) == [i \in 1..Len(answers) |-> answers[i].byte]
Way == (BytesOf(fifo_fromsio2) \o BytesOf(response_queue)) \o (command_queue \o fifo_tosio2)
Ordered == Increasing(Way) /\ \A i \in 1..Len(Way) : Way[i][1] <= transfers

(* ... and that TX_RDY1, which only the reset sets, is what everyone who   *)
(* has read STAT, and not yet written it back, has seen.                   *)
Commanded == ctrl.write_latch /\ ctrl.DIRECTION = "TX"
ReadyKnown ==
  /\ stat_lock = "sio2" <=> sio2.at \in {"tx", "rx"}
  /\ sio2.at \in {"tx", "rx"} => sio2.read.TX_RDY1 = stat.TX_RDY1
  /\ At0("ready") => sio0.read.TX_RDY1 = stat.TX_RDY1
  /\ command_queue # <<>> \/ sio2.at \in {"select", "send", "sent", "tx"} => stat.TX_RDY1
  /\ transfers <= 1 =>
       /\ discarded = 0 /\ (sio0_ctrl.SIO_RESET => ~stat.TX_RDY1)
       /\ transfers = 0 \/ At2("reset") \/ Commanded => ~stat.TX_RDY1 /\ ~sio0_ctrl.SIO_RESET

PortsInv == TypeOK /\ Phase /\ Counted /\ Ordered /\ ReadyKnown

(* The answers that the program finds when the interrupt comes are as many *)
(* as it asked for, in the order of the bytes that it has sent, each once  *)
(* (CSio2.cpp:138-149, 227-233).                                           *)
AnswersInOrder ==
  /\ intc => Len(fifo_fromsio2) = Total
  /\ \A i \in 2..Len(fifo_fromsio2) : Before(fifo_fromsio2[i - 1].byte, fifo_fromsio2[i].byte)

(* The first transfer waits for TX_RDY1, which only the reset sets, so the *)
(* reset finds nothing to discard (CSio0.cpp:80-82, CSio2.cpp:169).        *)
FirstTransferWhole == transfers = 1 => discarded = 0

(* It comes to its end.                                                    *)
FirstTransferWaits == program = "wait" /\ transfers = 1
FirstTransferEnded == program = "send" \/ At2("failed")
=============================================================================
