------------------------------- MODULE MCCrc -------------------------------
(***************************************************************************)
(* Frames for TLC: the last ones of a command of two frames, with a byte   *)
(* of payload and without (an empty last frame).                           *)
(***************************************************************************)
EXTENDS Crc

\* The bits of a number.
ByteOf(n) == {k \in 0..7 : (n \div 2 ^ k) % 2 = 1}

LastFrame(payload) == <<ByteOf(Len(payload)), {}, {1}, {}, {1}, {}>> \o payload

\* Every byte takes the register to another entry of the table.
MCBodies == {LastFrame(<<>>)} \cup {LastFrame(<<b>>) : b \in Byte}

MCDisturbed == {LastFrame(<<>>), LastFrame(<<ByteOf(165)>>)}

\* Every burst of up to seven bits, and wider ones: two bits, all bits, every other.
MCBursts ==
  {{0} \cup s : s \in SUBSET (1..6)}
  \cup {{0, d} : d \in 7..31}
  \cup {0..31, {2 * k : k \in 0..15}}

=============================================================================
