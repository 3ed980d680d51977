---------------------------- MODULE SpiTransfer ----------------------------
(***************************************************************************)
(* What hal_bmlite_spi_write_read promises (BMLite_sdk/inc/bmlite_hal.h):  *)
(* with the module selected from the first to the last byte it clocks out  *)
(* the bytes of one buffer, each once and in order, and then has in the    *)
(* other buffer the bytes that came in.  Byte i of either is the number i. *)
(* A transfer of whole rounds only has one byte more on the wire, which is *)
(* no data: number 0.                                                      *)
(*                                                                         *)
(* HalSpi implements this specification.                                   *)
(***************************************************************************)
EXTENDS Integers, Sequences

CONSTANTS
  Sizes,    \* sizes of the transfers
  ROUND     \* bytes of a round; 255

VARIABLES
  phase,  \* "idle", "asked", or "selected": chip select is low
  size,   \* size of the running or last transfer
  wire,   \* the bytes clocked out in it
  read    \* the bytes it has delivered, none while it runs

stvars == <<phase, size, wire, read>>

Count(n) == [i \in 1..n |-> i]

\* The bytes on the wire of a transfer of n bytes.
OnWire(n) == Count(n) \o (IF n > 0 /\ n % ROUND = 0 THEN <<0>> ELSE <<>>)

Ask(n) ==
  /\ phase = "idle"
  /\ phase' = "asked"
  /\ size' = n
  /\ wire' = <<>>
  /\ read' = <<>>

Select ==
  /\ phase = "asked"
  /\ phase' = "selected"
  /\ UNCHANGED <<size, wire, read>>

Clock ==
  /\ phase = "selected"
  /\ Len(wire) < Len(OnWire(size))
  /\ wire' = Append(wire, OnWire(size)[Len(wire) + 1])
  /\ UNCHANGED <<phase, size, read>>

Deselect ==
  /\ phase = "selected"
  /\ wire = OnWire(size)
  /\ phase' = "idle"
  /\ read' = Count(size)
  /\ UNCHANGED <<size, wire>>

Init ==
  /\ phase = "idle"
  /\ size = 0
  /\ wire = <<>>
  /\ read = <<>>

Next == (\E n \in Sizes : Ask(n)) \/ Select \/ Clock \/ Deselect

Spec == Init /\ [][Next]_stvars

=============================================================================
