------------------------------- MODULE HalSpi -------------------------------
(***************************************************************************)
(* The SPI driver of the board: hal_bmlite_spi_write_read and              *)
(* spi_write_read (HAL_Driver/src/hal_spi.c) over nrfx_spi_xfer and its    *)
(* interrupt handler (sdk/modules/nrfx/drivers/src/nrfx_spi.c).  The       *)
(* transfer is cut in rounds of 255 bytes; in each the interrupt moves the *)
(* bytes while the main program sleeps until the last one is done.  Every  *)
(* caller asks for chip select to go up at the end (leave_cs_asserted is   *)
(* false in platform.c).                                                   *)
(*                                                                         *)
(* The interrupt runs to its end, so it is one action.  The main program   *)
(* is cut where the interrupt or the SPI peripheral may come in between.   *)
(* Bytes are numbered as in SpiTransfer; 0 is the driver's over-run        *)
(* character.  The peripheral is external: two bytes may wait to be sent,  *)
(* the one under way included, and two received ones to be read.           *)
(***************************************************************************)
EXTENDS Integers, Sequences

CONSTANTS
  ROUND,   \* bytes of a round; 255
  Sizes    \* sizes of the transfers

\* num_of_rounds is a uint8_t.
ASSUME SpiAssumption ==
  /\ ROUND \in Nat /\ ROUND > 0
  /\ Sizes \subseteq Nat \ {0}
  /\ \A n \in Sizes : n \div ROUND < 256

VARIABLES
  \* hal_spi.c
  pc,          \* "idle", or what the main program does next
  size,        \* size of the call
  left,        \* what the loop over the rounds has left of it
  offset,      \* of p_write and p_read in their buffers
  rounds,      \* rounds of ROUND bytes still to begin
  spi_xfer_done,
  cs,          \* chip select: TRUE is high
  read,        \* the read buffer
  \* nrfx_spi.c
  transfer_in_progress,
  length,      \* tx_length and rx_length, which are equal
  bytes_transferred,
  \* the peripheral and the processor
  inten,       \* the READY interrupt is enabled
  ready,       \* the READY event
  txd,         \* bytes to send
  rxd,         \* bytes received
  wire,        \* bytes sent in this call
  event        \* the event register of the processor

halVars  == <<pc, size, left, offset, rounds, cs>>
nrfxVars == <<transfer_in_progress, length, bytes_transferred>>
spiVars  == <<halVars, spi_xfer_done, read, nrfxVars, inten, ready, txd, rxd,
              wire, event>>

ORC == 0

-----------------------------------------------------------------------------
(* Helpers.  Beside some of them a variant with a mistake, not used by the     *)
(* specification, that shows which property would notice.                      *)

\* A byte written to TXD; a third one would be lost.
TxdSet(queue, byte) == IF Len(queue) < 2 THEN Append(queue, byte) ELSE queue

\* The code of the loop over the rounds: size -= 255, p_read += 255.
NextLeftForgotten(l) == l
NextLeft(l) == l - ROUND
NextOffset(o) == o + ROUND

\* Bytes of the round that begins: ROUND, or what is left in the last one.
RoundLength == IF rounds > 0 THEN ROUND ELSE left

-----------------------------------------------------------------------------
(* hal_bmlite_spi_write_read *)

Call(n) ==
  /\ pc = "idle"
  /\ pc' = "select"
  /\ size' = n
  /\ left' = n
  /\ offset' = 0
  /\ rounds' = n \div ROUND
  /\ read' = [i \in 1..n |-> ORC]
  /\ wire' = <<>>
  /\ UNCHANGED <<spi_xfer_done, cs, nrfxVars, inten, ready, txd, rxd, event>>

\* spi_write_read up to the call of the driver.
Select ==
  /\ pc = "select"
  /\ spi_xfer_done' = FALSE
  /\ cs' = FALSE
  /\ pc' = "xfer"
  /\ UNCHANGED <<size, left, offset, rounds, read, nrfxVars, inten, ready, txd,
                 rxd, wire, event>>

\* nrfx_spi_xfer up to the first byte.  If the driver is busy it returns an error,
\* which nobody looks at.
Xfer ==
  /\ pc = "xfer"
  /\ \/ /\ transfer_in_progress
        /\ pc' = "test"
        /\ UNCHANGED <<nrfxVars, inten, ready, txd>>
     \/ /\ ~transfer_in_progress
        /\ transfer_in_progress' = TRUE
        /\ length' = RoundLength
        /\ bytes_transferred' = 0
        /\ inten' = FALSE
        /\ ready' = FALSE
        /\ txd' = TxdSet(txd, IF RoundLength > 0 THEN offset + 1 ELSE ORC)
        /\ pc' = "second"
  /\ UNCHANGED <<size, left, offset, rounds, spi_xfer_done, cs, read, rxd, wire,
                 event>>

XferSecondByte ==
  /\ pc = "second"
  /\ txd' = IF length > 1 THEN TxdSet(txd, offset + 2) ELSE txd
  /\ pc' = "enable"
  /\ UNCHANGED <<size, left, offset, rounds, spi_xfer_done, cs, read, nrfxVars,
                 inten, ready, rxd, wire, event>>

\* (with the mistake that spi_write_read clears the flag after the transfer began)
EnableThenClear ==
  /\ \/ /\ pc = "enable"
        /\ inten' = TRUE
        /\ pc' = "clear"
        /\ UNCHANGED spi_xfer_done
     \/ /\ pc = "clear"
        /\ spi_xfer_done' = FALSE
        /\ pc' = "test"
        /\ UNCHANGED inten
  /\ UNCHANGED <<size, left, offset, rounds, cs, read, nrfxVars, ready, txd, rxd,
                 wire, event>>

XferEnable ==
  /\ pc = "enable"
  /\ inten' = TRUE
  /\ pc' = "test"
  /\ UNCHANGED <<size, left, offset, rounds, spi_xfer_done, cs, read, nrfxVars,
                 ready, txd, rxd, wire, event>>

\* while (!spi_xfer_done).  Behind the loop chip select goes up after the last
\* round only.  (The first does not wait for the end of the transfer, the third
\* lets go of the module after each round.)
DoneAtOnce == TRUE
Done == spi_xfer_done

KeepSelectedNever == FALSE
KeepSelected == rounds > 0

TestDone ==
  /\ pc = "test"
  /\ \/ /\ ~Done
        /\ pc' = "wfe"
        /\ UNCHANGED <<left, offset, rounds, cs>>
     \/ /\ Done
        /\ cs' = (cs \/ ~KeepSelected)
        /\ \/ /\ rounds > 0
              /\ rounds' = rounds - 1
              /\ left' = NextLeft(left)
              /\ offset' = NextOffset(offset)
              /\ pc' = "select"
           \/ /\ rounds = 0
              /\ left' = 0 /\ offset' = 0
              /\ pc' = "idle"
              /\ UNCHANGED rounds
  /\ UNCHANGED <<size, spi_xfer_done, read, nrfxVars, inten, ready, txd, rxd,
                 wire, event>>

\* __WFE sleeps until the event register is set, and clears it.
Wfe ==
  /\ pc = "wfe"
  /\ event
  /\ event' = FALSE
  /\ pc' = "test"
  /\ UNCHANGED <<size, left, offset, rounds, cs, spi_xfer_done, read, nrfxVars,
                 inten, ready, txd, rxd, wire>>

-----------------------------------------------------------------------------
(* The interrupt *)

\* irq_handler with transfer_byte; the last byte calls finish_transfer and with
\* it spi_event_handler.
SpiInterrupt ==
  /\ inten
  /\ ready
  /\ rxd # <<>>
  /\ rxd' = Tail(rxd)
  /\ ready' = (Tail(rxd) # <<>>)
  /\ read' = IF bytes_transferred < length
             THEN [read EXCEPT ![offset + bytes_transferred + 1] = Head(rxd)]
             ELSE read
  /\ bytes_transferred' = bytes_transferred + 1
  /\ LET used == bytes_transferred' + 1
     IN  \/ /\ used < length
            /\ txd' = TxdSet(txd, offset + used + 1)
            /\ UNCHANGED <<transfer_in_progress, spi_xfer_done>>
         \/ /\ used >= length
            /\ bytes_transferred' < length
            /\ UNCHANGED <<txd, transfer_in_progress, spi_xfer_done>>
         \/ /\ bytes_transferred' >= length
            /\ transfer_in_progress' = FALSE
            /\ spi_xfer_done' = TRUE
            /\ UNCHANGED txd
  /\ event' = TRUE
  /\ UNCHANGED <<halVars, length, inten, wire>>

\* Another interrupt: the timer's.
OtherInterrupt ==
  /\ event' = TRUE
  /\ UNCHANGED <<halVars, spi_xfer_done, read, nrfxVars, inten, ready, txd, rxd,
                 wire>>

\* The peripheral has clocked a byte out and one in; a third unread one is lost.
ByteClocked ==
  /\ txd # <<>>
  /\ txd' = Tail(txd)
  /\ wire' = Append(wire, Head(txd))
  /\ rxd' = IF Len(rxd) < 2 THEN Append(rxd, Len(wire) + 1) ELSE rxd
  /\ ready' = (ready \/ rxd = <<>>)
  /\ UNCHANGED <<halVars, spi_xfer_done, read, nrfxVars, inten, event>>

-----------------------------------------------------------------------------

SpiInit ==
  /\ pc = "idle"
  /\ size = 0
  /\ left = 0
  /\ offset = 0
  /\ rounds = 0
  /\ spi_xfer_done = FALSE
  /\ cs = TRUE
  /\ read = <<>>
  /\ transfer_in_progress = FALSE
  /\ length = 0
  /\ bytes_transferred = 0
  /\ inten = TRUE
  /\ ready = FALSE
  /\ txd = <<>>
  /\ rxd = <<>>
  /\ wire = <<>>
  /\ event = FALSE

MainProgram == \/ Select \/ Xfer \/ XferSecondByte \/ XferEnable
               \/ TestDone \/ Wfe

SpiNext == \/ \E n \in Sizes : Call(n)
           \/ MainProgram
           \/ SpiInterrupt
           \/ OtherInterrupt
           \/ ByteClocked

SpiSpec == SpiInit /\ [][SpiNext]_spiVars

\* The processor runs on when it is not asleep, takes interrupts, and the
\* peripheral clocks.  No other interrupt need come.
SpiFairness ==
  WF_spiVars(MainProgram) /\ WF_spiVars(SpiInterrupt) /\ WF_spiVars(ByteClocked)

SpiFairSpec == SpiSpec /\ SpiFairness

-----------------------------------------------------------------------------
(* Properties *)

\* The types; offset and the driver's count never leave the buffers.
SpiTypeOK ==
  /\ pc \in {"idle", "select", "xfer", "second", "enable", "test", "wfe"}
  /\ size \in Sizes \cup {0}
  /\ left \in 0..size
  /\ offset \in 0..size
  /\ rounds \in 0..255
  /\ spi_xfer_done \in BOOLEAN
  /\ cs \in BOOLEAN
  /\ read \in [1..size -> Nat]
  /\ transfer_in_progress \in BOOLEAN
  /\ length \in 0..ROUND
  /\ bytes_transferred \in 0..(length + 1)
  /\ inten \in BOOLEAN
  /\ ready \in BOOLEAN
  /\ txd \in Seq(Nat) /\ Len(txd) <= 2
  /\ rxd \in Seq(Nat) /\ Len(rxd) <= 2
  /\ wire \in Seq(Nat)
  /\ event \in BOOLEAN

\* The driver is never found busy: its error would be ignored (hal_spi.c 69) and
\* the wait would take the flag of another transfer for its own.
NeverBusy == pc = "xfer" => ~transfer_in_progress

\* hal_bmlite_spi_write_read clocks out its bytes, each once and in order, with
\* the module selected throughout, and has read as many when it returns; the
\* interrupt and the next round never get in each other's way.  Whole rounds are
\* followed by the byte NoExtraByte is about.
Transfer == INSTANCE SpiTransfer WITH
  phase <- IF pc = "idle" THEN "idle" ELSE IF cs THEN "asked" ELSE "selected",
  read  <- IF pc = "idle" THEN read ELSE <<>>
ImplementsTransfer == Transfer!Spec

\* Every transfer ends: the wait for spi_xfer_done does not sleep through the last
\* interrupt, wherever that comes between the test and __WFE (hal_spi.c 71-74).
TransferEnds == pc # "idle" ~> pc = "idle"

\* No more bytes are clocked than were asked for: nrfx_spi.c 328-331 goes on
\* "until all requested bytes are transferred".
NoExtraByte == Len(wire) <= size

=============================================================================
