---------------------------- MODULE HalSpiProofs ----------------------------
(***************************************************************************)
(* Proofs about HalSpi for every length of a round, every set of sizes and *)
(* any timing of the interrupt and the peripheral: the types, that the     *)
(* driver is never found busy, and that transfers are those of             *)
(* SpiTransfer.                                                            *)
(*                                                                         *)
(* The bytes of a round are in four places: behind the wire in the module, *)
(* on their way out (txd), on their way in (rxd) and read.  The invariant  *)
(* says how many are where (Running): two are under way until the driver   *)
(* runs out of bytes, which is why neither queue of the peripheral         *)
(* overflows, and none is when the flag is set, which is why the next      *)
(* round finds the driver at rest.                                         *)
(***************************************************************************)
EXTENDS HalSpi, SequenceTheorems, TLAPS

\* Byte number i of a transfer; the over-run character behind its end.
Number(i) == IF i <= size THEN i ELSE ORC

\* Bytes the driver clocks in the round: one, if it was asked for none.
Clocked == IF length = 0 THEN 1 ELSE length

\* The loop over the rounds has cut whole rounds off the transfer.
Cut ==
  /\ pc = "idle" => rounds = 0
  /\ pc # "idle" =>
       /\ size \in Sizes
       /\ left + offset = size
       /\ left \div ROUND = rounds
       /\ offset % ROUND = 0

\* Bytes on their way out or in.
Under == Len(txd) + Len(rxd)

\* Nothing is under way.
Resting == ~transfer_in_progress /\ txd = <<>> /\ rxd = <<>>

Running ==
  /\ transfer_in_progress
  /\ ~spi_xfer_done
  /\ length = RoundLength
  /\ bytes_transferred < Clocked
  /\ Len(wire) = offset + bytes_transferred + Len(rxd)
  /\ pc \in {"second", "enable"} => ~inten /\ bytes_transferred = 0
  /\ pc = "second" => Under = 1
  /\ pc # "second" =>
       Under = IF bytes_transferred + 2 <= Clocked THEN 2
               ELSE Clocked - bytes_transferred

\* The round is over.
Over ==
  /\ Resting
  /\ spi_xfer_done
  /\ length = RoundLength
  /\ Len(wire) = offset + Clocked

Places ==
  /\ pc \in {"idle", "select", "xfer"} => Resting
  /\ pc \in {"select", "xfer"} => Len(wire) = offset
  /\ pc = "xfer" => ~spi_xfer_done
  /\ pc \in {"second", "enable"} => Running
  /\ pc \in {"test", "wfe"} => Running \/ Over

\* Every byte is where its number says.
Sent == \A i \in 1..Len(wire) : wire[i] = Number(i)
Queued == \A i \in 1..Len(txd) : txd[i] = Number(Len(wire) + i)
Received == \A i \in 1..Len(rxd) : rxd[i] = Len(wire) - Len(rxd) + i
Delivered == pc # "idle" =>
               \A i \in 1..size : i <= Len(wire) - Len(rxd) => read[i] = i
Data == Sent /\ Queued /\ Received /\ Delivered

Selected ==
  /\ pc = "idle" => cs
  /\ pc \notin {"idle", "select"} => ~cs
  /\ pc = "select" /\ cs => wire = <<>>

\* The inductive invariant.
SpiInv == SpiTypeOK /\ Cut /\ Places /\ Data /\ Selected

-----------------------------------------------------------------------------
(* The constants, the rounds and the queues *)

\* What SpiAssumption says of the constants.
LEMMA RoundFacts ==
  /\ ROUND \in Nat /\ ROUND > 0
  /\ \A n \in Sizes : n \in Nat /\ n > 0 /\ n \div ROUND \in 0..255
<1>1. ROUND \in Nat /\ ROUND > 0 /\ Sizes \subseteq Nat \ {0}
  BY SpiAssumption
<1>2. ASSUME NEW n \in Sizes PROVE n \div ROUND \in 0..255
  <2>1. n \in Nat /\ n \div ROUND < 256  BY <1>1, SpiAssumption
  <2>2. n \div ROUND \in Nat  BY <1>1, <2>1
  <2> QED  BY <2>1, <2>2
<1> QED  BY <1>1, <1>2

\* Cutting one round off takes one off their number.
LEMMA CutRound ==
  ASSUME NEW n \in Nat
  PROVE  /\ n \div ROUND \in Nat
         /\ n < ROUND <=> n \div ROUND = 0
         /\ n >= ROUND => (n - ROUND) \div ROUND = n \div ROUND - 1
BY RoundFacts

\* The rest of a transfer behind whole rounds.
LEMMA CutRest ==
  ASSUME NEW o \in Nat, o % ROUND = 0
  PROVE  /\ (o + ROUND) % ROUND = 0
         /\ \A r \in 0..(ROUND - 1) : (o + r) % ROUND = r
<1>1. o = ROUND * (o \div ROUND)  BY RoundFacts
<1>2. (o + ROUND) % ROUND = 0
  <2>1. o \div ROUND \in Nat  BY RoundFacts
  <2>2. o + ROUND = ROUND * (o \div ROUND + 1)  BY <1>1, <2>1, RoundFacts
  <2>3. ASSUME NEW q \in Nat PROVE (ROUND * q) % ROUND = 0  BY RoundFacts
  <2> QED  BY <2>1, <2>2, <2>3
<1>3. ASSUME NEW r \in 0..(ROUND - 1) PROVE (o + r) % ROUND = r
  BY RoundFacts
<1> QED  BY <1>2, <1>3

\* A byte put at the end of a queue, or of the wire.
LEMMA Appended ==
  ASSUME NEW s \in Seq(Nat), NEW b \in Nat
  PROVE  /\ Append(s, b) \in Seq(Nat)
         /\ Len(s) \in Nat
         /\ Len(Append(s, b)) = Len(s) + 1
         /\ \A i \in 1..Len(s) : Append(s, b)[i] = s[i]
         /\ Append(s, b)[Len(s) + 1] = b
BY AppendProperties, LenProperties

\* The first byte of a queue is taken.
LEMMA Taken ==
  ASSUME NEW s \in Seq(Nat), s # <<>>
  PROVE  /\ Tail(s) \in Seq(Nat)
         /\ Head(s) = s[1] /\ s[1] \in Nat
         /\ Len(s) \in Nat /\ Len(s) > 0
         /\ Len(Tail(s)) = Len(s) - 1
         /\ \A i \in 1..Len(Tail(s)) : Tail(s)[i] = s[i + 1]
BY HeadTailProperties, LenProperties

\* A number is one.
LEMMA NumberType == ASSUME NEW i \in Nat PROVE Number(i) \in Nat
BY DEF Number, ORC

\* The types of the flags, and of the rest.
Flags ==
  /\ spi_xfer_done \in BOOLEAN
  /\ cs \in BOOLEAN
  /\ transfer_in_progress \in BOOLEAN
  /\ inten \in BOOLEAN
  /\ ready \in BOOLEAN
  /\ event \in BOOLEAN

Counts ==
  /\ pc \in {"idle", "select", "xfer", "second", "enable", "test", "wfe"}
  /\ size \in Sizes \cup {0}
  /\ left \in 0..size
  /\ offset \in 0..size
  /\ rounds \in 0..255
  /\ read \in [1..size -> Nat]
  /\ length \in 0..ROUND
  /\ bytes_transferred \in 0..(length + 1)
  /\ txd \in Seq(Nat) /\ Len(txd) <= 2
  /\ rxd \in Seq(Nat) /\ Len(rxd) <= 2
  /\ wire \in Seq(Nat)

\* Together they are SpiTypeOK.
LEMMA TypeParts ==
  /\ SpiTypeOK <=> Flags /\ Counts
  /\ Flags' /\ Counts' => SpiTypeOK'
BY DEF SpiTypeOK, Flags, Counts

\* The counters are numbers.
LEMMA CountFacts ==
  ASSUME Counts
  PROVE  /\ size \in Nat /\ left \in Nat /\ offset \in Nat /\ rounds \in Nat
         /\ length \in Nat /\ bytes_transferred \in Nat
         /\ Len(txd) \in Nat /\ Len(rxd) \in Nat /\ Len(wire) \in Nat
         /\ Clocked \in Nat /\ Clocked > 0
BY RoundFacts, LenProperties DEF Counts, Clocked

\* The length of a round, of which only the last may be less than ROUND.
LEMMA RoundLengthFacts ==
  ASSUME Counts, Cut, pc # "idle"
  PROVE  /\ RoundLength \in 0..ROUND
         /\ offset + RoundLength <= size
         /\ rounds > 0 => left >= ROUND
         /\ rounds = 0 => left < ROUND
<1>1. left \in Nat /\ offset \in Nat /\ rounds \in Nat /\ size \in Nat  BY CountFacts
<1>2. rounds > 0 => left >= ROUND  BY <1>1, CutRound, RoundFacts DEF Cut
<1>3. rounds = 0 => left < ROUND  BY <1>1, CutRound, RoundFacts DEF Cut
<1> QED  BY <1>1, <1>2, <1>3, RoundFacts DEF RoundLength, Cut

-----------------------------------------------------------------------------
(* The invariant holds initially, and every action preserves it *)

\* Nothing is asked for at the start.
LEMMA SpiStart == SpiInit => SpiInv
<1> SUFFICES ASSUME SpiInit PROVE SpiInv  OBVIOUS
<1>1. Counts
  <2>1. <<>> \in Seq(Nat) /\ Len(<<>>) = 0  OBVIOUS
  <2>2. read \in [1..0 -> Nat]  BY DEF SpiInit
  <2> QED  BY <2>1, <2>2, RoundFacts DEF SpiInit, Counts
<1>2. Flags  BY DEF SpiInit, Flags
<1>3. Cut /\ Selected  BY DEF SpiInit, Cut, Selected
<1>4. Places  BY DEF SpiInit, Places, Resting
<1>5. Data
  <2>1. Len(wire) = 0 /\ Len(txd) = 0 /\ Len(rxd) = 0 /\ pc = "idle"  BY DEF SpiInit
  <2> QED  BY <2>1 DEF Data, Sent, Queued, Received, Delivered
<1> QED  BY <1>1, <1>2, <1>3, <1>4, <1>5, TypeParts DEF SpiInv

\* A call cuts nothing yet.
LEMMA CallStep ==
  ASSUME SpiInv, NEW n \in Sizes, Call(n)
  PROVE  SpiInv'
<1>1. /\ pc' = "select" /\ size' = n /\ left' = n /\ offset' = 0
      /\ rounds' = n \div ROUND /\ wire' = <<>>
      /\ UNCHANGED <<length, bytes_transferred, txd, rxd>>
  BY DEF Call, nrfxVars
<1>2. Counts /\ Flags /\ Resting /\ cs /\ pc = "idle"
  BY TypeParts DEF SpiInv, Places, Selected, Call
<1>3. n \in Nat /\ n \div ROUND \in 0..255  BY RoundFacts
<1>4. read' \in [1..n -> Nat]  BY DEF Call, ORC
<1>5. Counts'
  <2>1. <<>> \in Seq(Nat)  OBVIOUS
  <2> QED  BY <1>1, <1>2, <1>3, <1>4, <2>1 DEF Counts
<1>6. Flags'  BY <1>2 DEF Flags, Call, nrfxVars
<1>7. Cut'
  <2>1. 0 % ROUND = 0  BY RoundFacts
  <2> QED  BY <1>1, <1>3, <2>1 DEF Cut
<1>8. Places'
  <2>1. Resting'  BY <1>1, <1>2 DEF Resting, Call, nrfxVars
  <2>2. Len(wire') = 0  BY <1>1
  <2> QED  BY <1>1, <2>1, <2>2 DEF Places
<1>9. Data'
  <2>1. Len(wire') = 0 /\ Len(txd') = 0 /\ Len(rxd') = 0  BY <1>1, <1>2 DEF Resting
  <2> QED  BY <1>1, <2>1 DEF Data, Sent, Queued, Received, Delivered
<1>10. Selected'  BY <1>1 DEF Selected
<1> QED  BY <1>5, <1>6, <1>7, <1>8, <1>9, <1>10, TypeParts DEF SpiInv

\* The flag is cleared before the transfer begins,
LEMMA SelectStep ==
  ASSUME SpiInv, Select
  PROVE  SpiInv'
<1>1. /\ pc = "select" /\ pc' = "xfer"
      /\ UNCHANGED <<size, left, offset, rounds, read, length, bytes_transferred,
                     txd, rxd, wire>>
  BY DEF Select, nrfxVars
<1>2. Counts /\ Flags /\ Resting
  BY <1>1, TypeParts DEF SpiInv, Places
<1>3. Counts'  BY <1>1, <1>2 DEF Counts
<1>4. Flags'  BY <1>2 DEF Flags, Select, nrfxVars
<1>5. Cut'  BY <1>1 DEF SpiInv, Cut
<1>6. Places'
  <2>1. Resting'  BY <1>1, <1>2 DEF Resting, Select, nrfxVars
  <2>2. ~spi_xfer_done'  BY DEF Select
  <2> QED  BY <1>1, <2>1, <2>2 DEF SpiInv, Places
<1>7. Data'
  BY <1>1 DEF SpiInv, Data, Sent, Queued, Received, Delivered, Number
<1>8. Selected'  BY <1>1 DEF Selected, Select
<1> QED  BY <1>3, <1>4, <1>5, <1>6, <1>7, <1>8, TypeParts DEF SpiInv

\* The driver is at rest and begins; it is not busy.
LEMMA XferStep ==
  ASSUME SpiInv, Xfer
  PROVE  SpiInv'
<1>1. pc = "xfer" /\ UNCHANGED <<size, left, offset, rounds, read, rxd, wire>>
  BY DEF Xfer
<1>2. Counts /\ Flags /\ Resting /\ Cut /\ ~spi_xfer_done /\ Len(wire) = offset
  BY <1>1, TypeParts DEF SpiInv, Places
<1>3. /\ transfer_in_progress'
      /\ length' = RoundLength /\ bytes_transferred' = 0 /\ ~inten' /\ ~ready'
      /\ txd' = TxdSet(txd, IF RoundLength > 0 THEN offset + 1 ELSE ORC)
      /\ pc' = "second"
  BY <1>2 DEF Xfer, Resting
<1>4. /\ offset \in Nat /\ size \in Nat /\ left \in Nat /\ Len(wire) \in Nat
      /\ RoundLength \in 0..ROUND /\ offset + RoundLength <= size
  BY <1>1, <1>2, CountFacts, RoundLengthFacts
<1>5. (IF RoundLength > 0 THEN offset + 1 ELSE ORC) = Number(Len(wire) + 1)
  <2>1. CASE RoundLength > 0
    <3>1. offset + 1 <= size  BY <1>4, <2>1, RoundFacts
    <3> QED  BY <1>2, <2>1, <3>1 DEF Number
  <2>2. CASE RoundLength = 0
    <3>1. left = 0  BY <1>1, <1>2, <1>4, <2>2, RoundFacts, RoundLengthFacts DEF RoundLength
    <3>2. offset = size  BY <1>1, <1>2, <1>4, <3>1 DEF Cut
    <3> QED  BY <1>2, <1>4, <2>2, <3>2 DEF Number, ORC
  <2> QED  BY <1>4, <2>1, <2>2
<1>6. /\ Len(wire) + 1 \in Nat /\ Number(Len(wire) + 1) \in Nat
      /\ txd = <<>> /\ rxd = <<>>
  BY <1>2, <1>4, NumberType DEF Resting
<1>7. txd' = <<Number(Len(wire) + 1)>>
  BY <1>3, <1>5, <1>6 DEF TxdSet
<1>8. Len(txd') = 1 /\ txd'[1] = Number(Len(wire) + 1) /\ txd' \in Seq(Nat)
  BY <1>6, <1>7
<1>9. Counts'
  <2>1. length' \in 0..ROUND /\ bytes_transferred' \in 0..(length' + 1)
    BY <1>3, <1>4, RoundFacts
  <2>2. pc' = "second"  BY <1>3
  <2>3. txd' \in Seq(Nat) /\ Len(txd') <= 2  BY <1>8
  <2>4. length' \in 0..ROUND  BY <2>1
  <2>5. bytes_transferred' \in 0..(length' + 1)  BY <2>1
  <2> QED  BY <1>1, <1>2, <2>2, <2>3, <2>4, <2>5 DEF Counts
<1>10. Flags'
  <2>1. UNCHANGED <<spi_xfer_done, cs, event>>  BY DEF Xfer
  <2> QED  BY <1>2, <1>3, <2>1 DEF Flags, Xfer, nrfxVars
<1>11. Cut'  BY <1>1, <1>2, <1>3 DEF Cut
<1>12. Places'
  <2>1. RoundLength' = RoundLength  BY <1>1 DEF RoundLength
  <2>2. Len(rxd') = 0  BY <1>1, <1>6
  <2>3. Clocked' > 0  BY <1>3, <1>4 DEF Clocked
  <2>4. ~spi_xfer_done'  BY <1>2 DEF Xfer
  <2> QED
    BY <1>1, <1>2, <1>3, <1>4, <1>8, <2>1, <2>2, <2>3, <2>4 DEF Places, Running, Under
<1>13. Data'
  <2>1. Sent' /\ Received' /\ Delivered'
    BY <1>1, <1>3 DEF SpiInv, Data, Sent, Received, Delivered, Number
  <2>2. Queued'  BY <1>1, <1>8 DEF Queued, Number
  <2> QED  BY <2>1, <2>2 DEF Data
<1>14. Selected'
  BY <1>1, <1>3 DEF SpiInv, Selected, Xfer
<1> QED  BY <1>9, <1>10, <1>11, <1>12, <1>13, <1>14, TypeParts DEF SpiInv

\* A second byte follows if there is one,
LEMMA SecondStep ==
  ASSUME SpiInv, XferSecondByte
  PROVE  SpiInv'
<1>1. /\ pc = "second" /\ pc' = "enable"
      /\ UNCHANGED <<size, left, offset, rounds, read, length, bytes_transferred,
                     rxd, wire>>
      /\ txd' = IF length > 1 THEN TxdSet(txd, offset + 2) ELSE txd
  BY DEF XferSecondByte, nrfxVars
<1>2. Counts /\ Flags /\ Cut /\ Running
  BY <1>1, TypeParts DEF SpiInv, Places
<1>3. /\ size \in Nat /\ left \in Nat /\ offset \in Nat /\ rounds \in Nat
      /\ length \in Nat /\ Len(txd) \in Nat /\ Len(rxd) \in Nat /\ Len(wire) \in Nat
  BY <1>2, CountFacts
<1>4. /\ length = RoundLength /\ bytes_transferred = 0
      /\ Len(wire) = offset + Len(rxd) /\ Len(txd) + Len(rxd) = 1
      /\ offset + length <= size
  BY <1>1, <1>2, <1>3, RoundLengthFacts DEF Running, Under
<1>5. /\ txd' \in Seq(Nat) /\ Queued'
      /\ Len(txd') = Len(txd) + (IF length > 1 THEN 1 ELSE 0)
  <2>1. CASE length > 1
    <3>1. txd' = Append(txd, offset + 2)  BY <1>1, <1>3, <1>4, <2>1 DEF TxdSet
    <3>2. offset + 2 = Number(Len(wire) + Len(txd) + 1)
      BY <1>3, <1>4, <2>1 DEF Number
    <3>3. /\ txd' \in Seq(Nat) /\ Len(txd') = Len(txd) + 1
          /\ \A i \in 1..Len(txd) : txd'[i] = txd[i]
          /\ txd'[Len(txd) + 1] = Number(Len(wire) + Len(txd) + 1)
      BY <1>2, <1>3, <3>1, <3>2, Appended DEF Counts
    <3>4. ASSUME NEW i \in 1..(Len(txd) + 1) PROVE txd'[i] = Number(Len(wire) + i)
      <4>1. CASE i \in 1..Len(txd)  BY <3>3, <4>1 DEF SpiInv, Data, Queued
      <4>2. CASE i = Len(txd) + 1
        <5>1. Len(wire) + Len(txd) + 1 = Len(wire) + i  BY <1>3, <4>2
        <5> QED  BY <3>3, <4>2, <5>1
      <4> QED  BY <1>3, <4>1, <4>2
    <3>5. Queued'  BY <1>1, <3>3, <3>4 DEF Queued, Number
    <3> QED  BY <2>1, <3>3, <3>5
  <2>2. CASE length <= 1
    <3>1. txd' = txd  BY <1>1, <1>3, <2>2
    <3>2. Queued'  BY <1>1, <3>1 DEF SpiInv, Data, Queued, Number
    <3> QED  BY <1>2, <1>3, <2>2, <3>1, <3>2 DEF Counts
  <2> QED  BY <1>3, <2>1, <2>2
<1>6. Counts'  BY <1>1, <1>2, <1>3, <1>4, <1>5 DEF Counts
<1>7. Flags'  BY <1>2 DEF Flags, XferSecondByte, nrfxVars
<1>8. Cut'  BY <1>1, <1>2 DEF Cut
<1>9. Places'
  <2>1. RoundLength' = RoundLength /\ Clocked' = Clocked
    BY <1>1 DEF RoundLength, Clocked
  <2>2. transfer_in_progress' /\ ~spi_xfer_done' /\ ~inten'
    BY <1>1, <1>2 DEF XferSecondByte, nrfxVars, Running
  <2>3. Len(txd') + Len(rxd') = IF 2 <= Clocked THEN 2 ELSE Clocked
    BY <1>1, <1>3, <1>4, <1>5 DEF Clocked
  <2> QED
    BY <1>1, <1>2, <1>3, <1>4, <2>1, <2>2, <2>3 DEF Places, Running, Under, Clocked
<1>10. Sent' /\ Received' /\ Delivered'
  BY <1>1 DEF SpiInv, Data, Sent, Received, Delivered, Number
<1>11. Selected'
  BY <1>1 DEF SpiInv, Selected, XferSecondByte
<1> QED
  BY <1>5, <1>6, <1>7, <1>8, <1>9, <1>10, <1>11, TypeParts DEF SpiInv, Data

\* and only then may the interrupt come.
LEMMA EnableStep ==
  ASSUME SpiInv, XferEnable
  PROVE  SpiInv'
<1>1. /\ pc = "enable" /\ pc' = "test"
      /\ UNCHANGED <<size, left, offset, rounds, read, length, bytes_transferred,
                     txd, rxd, wire>>
  BY DEF XferEnable, nrfxVars
<1>2. Counts /\ Flags /\ Running  BY <1>1, TypeParts DEF SpiInv, Places
<1>3. Counts'  BY <1>1, <1>2 DEF Counts
<1>4. Flags'  BY <1>2 DEF Flags, XferEnable, nrfxVars
<1>5. Cut'  BY <1>1 DEF SpiInv, Cut
<1>6. Places'
  <2>1. UNCHANGED <<RoundLength, Clocked, Under>>
    BY <1>1 DEF RoundLength, Clocked, Under
  <2>2. transfer_in_progress' /\ ~spi_xfer_done'
    BY <1>2 DEF XferEnable, nrfxVars, Running
  <2> QED  BY <1>1, <1>2, <2>1, <2>2 DEF Places, Running
<1>7. Data'
  BY <1>1 DEF SpiInv, Data, Sent, Queued, Received, Delivered, Number
<1>8. Selected'  BY <1>1 DEF SpiInv, Selected, XferEnable
<1> QED  BY <1>3, <1>4, <1>5, <1>6, <1>7, <1>8, TypeParts DEF SpiInv

\* The flag ends the round; the next one begins behind it.
LEMMA TestStep ==
  ASSUME SpiInv, TestDone
  PROVE  SpiInv'
<1>1. /\ pc = "test"
      /\ UNCHANGED <<size, read, length, bytes_transferred, txd, rxd, wire>>
  BY DEF TestDone, nrfxVars
<1>2. Counts /\ Flags /\ Cut /\ ~cs  BY <1>1, TypeParts DEF SpiInv, Selected
<1>3. Flags'
  <2>1. cs' \in BOOLEAN  BY <1>2 DEF TestDone, Flags
  <2> QED  BY <1>2, <2>1 DEF Flags, TestDone, nrfxVars
<1>4. Data'
  BY <1>1 DEF SpiInv, Data, Sent, Queued, Received, Delivered, Number
<1>5. CASE pc' = "wfe" /\ UNCHANGED <<left, offset, rounds, cs>>
  <2>1. Counts'  BY <1>1, <1>2, <1>5 DEF Counts
  <2>2. Cut'  BY <1>1, <1>2, <1>5 DEF Cut
  <2>3. Places'
    <3>1. UNCHANGED <<RoundLength, Clocked, Under>>
      BY <1>1, <1>5 DEF RoundLength, Clocked, Under
    <3>2. UNCHANGED <<transfer_in_progress, spi_xfer_done>>  BY DEF TestDone, nrfxVars
    <3>3. Running => Running'  BY <1>1, <1>5, <3>1, <3>2 DEF Running
    <3>4. Over => Over'  BY <1>1, <1>5, <3>1, <3>2 DEF Over, Resting
    <3> QED  BY <1>1, <1>5, <3>3, <3>4 DEF SpiInv, Places
  <2>4. Selected'  BY <1>2, <1>5 DEF Selected
  <2> QED  BY <1>3, <1>4, <2>1, <2>2, <2>3, <2>4, TypeParts DEF SpiInv
<1>6. CASE spi_xfer_done
  <2>1. Over  BY <1>1, <1>6 DEF SpiInv, Places, Running
  <2>2. Resting'  BY <1>1, <2>1 DEF Over, Resting, TestDone, nrfxVars
  <2>3. /\ size \in Nat /\ left \in Nat /\ offset \in Nat /\ rounds \in Nat
        /\ left + offset = size /\ left \div ROUND = rounds /\ offset % ROUND = 0
    BY <1>1, <1>2, CountFacts DEF Cut
  <2>4. CASE /\ rounds > 0 /\ rounds' = rounds - 1 /\ pc' = "select"
             /\ left' = NextLeft(left) /\ offset' = NextOffset(offset)
    <3>1. left >= ROUND /\ left' = left - ROUND /\ offset' = offset + ROUND
      BY <1>1, <1>2, <2>4, RoundLengthFacts DEF NextLeft, NextOffset
    <3>2. left' \in 0..size /\ offset' \in 0..size /\ left' + offset' = size
      BY <2>3, <3>1, RoundFacts
    <3>3. left' \div ROUND = rounds'  BY <2>3, <2>4, <3>1, CutRound
    <3>4. offset' % ROUND = 0  BY <2>3, <3>1, CutRest
    <3>5. rounds' \in 0..255  BY <1>2, <2>3, <2>4 DEF Counts
    <3>6. Counts'  BY <1>1, <1>2, <2>4, <3>2, <3>5 DEF Counts
    <3>7. Cut'  BY <1>1, <1>2, <2>4, <3>2, <3>3, <3>4 DEF Cut
    <3>8. Places'
      <4>1. Len(wire) = offset + ROUND
        BY <2>1, <2>4, RoundFacts DEF Over, Clocked, RoundLength
      <4> QED  BY <1>1, <2>2, <2>4, <3>1, <4>1 DEF Places
    <3>9. Selected'
      <4>1. ~cs'  BY <1>2, <1>6, <2>4 DEF TestDone, Done, KeepSelected
      <4> QED  BY <2>4, <4>1 DEF Selected
    <3> QED  BY <1>3, <1>4, <3>6, <3>7, <3>8, <3>9, TypeParts DEF SpiInv
  <2>5. CASE /\ rounds = 0 /\ left' = 0 /\ offset' = 0 /\ pc' = "idle"
             /\ UNCHANGED rounds
    <3>1. Counts'
      <4>1. 0 \in 0..size  BY <2>3
      <4> QED  BY <1>1, <1>2, <2>5, <4>1 DEF Counts
    <3>2. Cut' /\ Places'  BY <2>2, <2>5 DEF Cut, Places
    <3>3. Selected'
      <4>1. ~KeepSelected  BY <2>5 DEF KeepSelected
      <4>2. cs'  BY <1>6, <2>5, <4>1 DEF TestDone, Done
      <4> QED  BY <2>5, <4>2 DEF Selected
    <3> QED  BY <1>3, <1>4, <3>1, <3>2, <3>3, TypeParts DEF SpiInv
  <2> QED  BY <1>1, <1>6, <2>4, <2>5 DEF TestDone, Done
<1> QED  BY <1>5, <1>6 DEF TestDone, Done

\* Sleeping changes nothing,
LEMMA WfeStep ==
  ASSUME SpiInv, Wfe
  PROVE  SpiInv'
<1>1. /\ pc = "wfe" /\ pc' = "test"
      /\ UNCHANGED <<size, left, offset, rounds, read, length, bytes_transferred,
                     txd, rxd, wire>>
  BY DEF Wfe, nrfxVars
<1>2. Counts /\ Flags  BY TypeParts DEF SpiInv
<1>3. Counts'  BY <1>1, <1>2 DEF Counts
<1>4. Flags'  BY <1>2 DEF Flags, Wfe, nrfxVars
<1>5. Cut'  BY <1>1 DEF SpiInv, Cut
<1>6. Places'
  <2>1. UNCHANGED <<RoundLength, Clocked, Under>>
    BY <1>1 DEF RoundLength, Clocked, Under
  <2>2. UNCHANGED <<transfer_in_progress, spi_xfer_done>>  BY DEF Wfe, nrfxVars
  <2>3. Running => Running'  BY <1>1, <2>1, <2>2 DEF Running
  <2>4. Over => Over'  BY <1>1, <2>1, <2>2 DEF Over, Resting
  <2> QED  BY <1>1, <2>3, <2>4 DEF SpiInv, Places
<1>7. Data'
  BY <1>1 DEF SpiInv, Data, Sent, Queued, Received, Delivered, Number
<1>8. Selected'  BY <1>1 DEF SpiInv, Selected, Wfe
<1> QED  BY <1>3, <1>4, <1>5, <1>6, <1>7, <1>8, TypeParts DEF SpiInv

\* The interrupt finds a running transfer behind the setup.
LEMMA InterruptFinds ==
  ASSUME SpiInv, SpiInterrupt
  PROVE  pc \in {"test", "wfe"} /\ Running
<1>1. Counts  BY TypeParts DEF SpiInv
<1>2. inten /\ rxd # <<>>  BY DEF SpiInterrupt
<1> QED  BY <1>1, <1>2 DEF SpiInv, Places, Resting, Over, Running, Counts

\* It reads a byte and sends the one after the next, or sets the flag.
LEMMA InterruptStep ==
  ASSUME SpiInv, SpiInterrupt
  PROVE  SpiInv'
<1> DEFINE bt == bytes_transferred
<1>1. /\ UNCHANGED <<pc, size, left, offset, rounds, length, wire>>
      /\ rxd # <<>> /\ rxd' = Tail(rxd) /\ bytes_transferred' = bt + 1
  BY DEF SpiInterrupt, halVars
<1>2. Counts /\ Flags /\ Cut /\ Data  BY TypeParts DEF SpiInv
<1>3. pc \in {"test", "wfe"} /\ Running  BY InterruptFinds
<1>4. /\ size \in Nat /\ left \in Nat /\ offset \in Nat /\ rounds \in Nat
      /\ length \in Nat /\ bt \in Nat /\ Clocked \in Nat
      /\ Len(txd) \in Nat /\ Len(rxd) \in Nat /\ Len(wire) \in Nat
  BY <1>2, CountFacts
<1>5. /\ length = RoundLength /\ bt < Clocked
      /\ Len(wire) = offset + bt + Len(rxd)
      /\ Len(txd) + Len(rxd) = IF bt + 2 <= Clocked THEN 2 ELSE Clocked - bt
  BY <1>3 DEF Running, Under
<1>6. /\ Tail(rxd) \in Seq(Nat) /\ Len(Tail(rxd)) = Len(rxd) - 1
      /\ Len(rxd) > 0 /\ Head(rxd) = rxd[1] /\ rxd[1] \in Nat
      /\ \A i \in 1..Len(Tail(rxd)) : Tail(rxd)[i] = rxd[i + 1]
  BY <1>1, <1>2, Taken DEF Counts
<1>7. offset + length <= size  BY <1>2, <1>3, <1>5, RoundLengthFacts
<1>8. Flags'
  <2>1. ready' \in BOOLEAN  BY DEF SpiInterrupt
  <2>2. /\ transfer_in_progress' \in BOOLEAN /\ spi_xfer_done' \in BOOLEAN
        /\ event' \in BOOLEAN
    BY <1>2 DEF Flags, SpiInterrupt
  <2> QED  BY <1>2, <2>1, <2>2 DEF Flags, SpiInterrupt, halVars
<1>9. read' \in [1..size -> Nat] /\ Delivered'
  <2>1. read \in [1..size -> Nat]  BY <1>2 DEF Counts
  <2>2. rxd[1] = offset + bt + 1
    BY <1>2, <1>4, <1>5, <1>6 DEF Data, Received
  <2>3. \A i \in 1..size : i <= offset + bt => read[i] = i
    BY <1>2, <1>3, <1>4, <1>5 DEF Data, Delivered
  <2>4. Len(wire') - Len(rxd') = offset + bt + 1
    BY <1>1, <1>4, <1>5, <1>6
  <2>5. CASE bt < length
    <3>1. read' = [read EXCEPT ![offset + bt + 1] = rxd[1]]
      BY <1>6, <2>5 DEF SpiInterrupt
    <3>2. read' \in [1..size -> Nat]  BY <1>6, <2>1, <3>1
    <3>3. ASSUME NEW i \in 1..size, i <= offset + bt + 1 PROVE read'[i] = i
      BY <1>4, <2>1, <2>2, <2>3, <3>1, <3>3
    <3> QED  BY <1>1, <2>4, <3>2, <3>3 DEF Delivered
  <2>6. CASE bt >= length
    <3>1. read' = read  BY <1>4, <2>6 DEF SpiInterrupt
    <3>2. bt = 0 /\ length = 0  BY <1>4, <1>5, <2>6 DEF Clocked
    <3>3. offset = size
      <4>1. rounds = 0  BY <1>4, <1>5, <3>2, RoundFacts DEF RoundLength
      <4> QED  BY <1>2, <1>3, <1>4, <1>5, <3>2, <4>1 DEF RoundLength, Cut
    <3> QED  BY <1>1, <1>4, <2>1, <2>3, <2>4, <3>1, <3>2, <3>3 DEF Delivered
  <2> QED  BY <1>4, <2>5, <2>6
<1>10. Sent' /\ Received'
  <2>1. Sent'  BY <1>1, <1>2 DEF Data, Sent, Number
  <2>2. ASSUME NEW i \in 1..Len(Tail(rxd))
        PROVE  Tail(rxd)[i] = Len(wire) - Len(Tail(rxd)) + i
    <3>1. rxd[i + 1] = Len(wire) - Len(rxd) + (i + 1)
      BY <1>2, <1>4, <1>6 DEF Data, Received
    <3> QED  BY <1>4, <1>6, <3>1
  <2> QED  BY <1>1, <2>1, <2>2 DEF Received
<1>11. Cut'  BY <1>1, <1>2 DEF Cut
<1>12. Selected'  BY <1>1 DEF SpiInv, Selected, SpiInterrupt, halVars
<1>13. bytes_transferred' \in 0..(length + 1)
  BY <1>1, <1>4, <1>5 DEF Clocked
<1>14. RoundLength' = RoundLength /\ Clocked' = Clocked
  BY <1>1 DEF RoundLength, Clocked
<1>15. /\ txd' \in Seq(Nat) /\ Len(txd') <= 2 /\ Queued' /\ (Running' \/ Over')
  <2>1. CASE bt + 2 < length /\ txd' = TxdSet(txd, offset + (bt + 2) + 1)
              /\ UNCHANGED <<transfer_in_progress, spi_xfer_done>>
    <3>1. Clocked = length /\ Len(txd) < 2 /\ Len(txd) + Len(rxd) = 2
      BY <1>4, <1>5, <1>6, <2>1 DEF Clocked
    <3>2. txd' = Append(txd, offset + (bt + 2) + 1)  BY <2>1, <3>1 DEF TxdSet
    <3>3. offset + (bt + 2) + 1 = Number(Len(wire) + (Len(txd) + 1))
      BY <1>4, <1>5, <1>7, <2>1, <3>1 DEF Number
    <3>4. /\ txd' \in Seq(Nat) /\ Len(txd') = Len(txd) + 1
          /\ \A i \in 1..Len(txd) : txd'[i] = txd[i]
          /\ txd'[Len(txd) + 1] = offset + (bt + 2) + 1
      BY <1>2, <1>4, <3>2, Appended DEF Counts
    <3>5. ASSUME NEW i \in 1..(Len(txd) + 1) PROVE txd'[i] = Number(Len(wire) + i)
      <4>1. CASE i \in 1..Len(txd)  BY <1>2, <3>4, <4>1 DEF Data, Queued
      <4>2. CASE i = Len(txd) + 1  BY <3>3, <3>4, <4>2
      <4> QED  BY <1>4, <4>1, <4>2
    <3>6. Queued'  BY <1>1, <3>4, <3>5 DEF Queued, Number
    <3>7. transfer_in_progress' /\ ~spi_xfer_done'  BY <1>3, <2>1 DEF Running
    <3>8. Len(txd') + Len(rxd') = 2 /\ bt + 1 < Clocked /\ (bt + 1) + 2 <= Clocked
      BY <1>1, <1>4, <1>6, <2>1, <3>1, <3>4
    <3>9. Len(wire') = offset' + (bt + 1) + Len(rxd')  BY <1>1, <1>4, <1>5, <1>6
    <3>10. Running'
      BY <1>1, <1>3, <1>5, <1>14, <3>7, <3>8, <3>9 DEF Running, Under
    <3> QED  BY <1>4, <3>1, <3>4, <3>6, <3>10
  <2>2. CASE bt + 2 >= length /\ bt + 1 < length
              /\ UNCHANGED <<txd, transfer_in_progress, spi_xfer_done>>
    <3>1. Clocked = length /\ length = bt + 2 /\ Len(txd) + Len(rxd) = 2
      BY <1>4, <1>5, <2>2 DEF Clocked
    <3>2. Queued'  BY <1>1, <1>2, <2>2 DEF Data, Queued, Number
    <3>3. transfer_in_progress' /\ ~spi_xfer_done'  BY <1>3, <2>2 DEF Running
    <3>4. Len(txd') + Len(rxd') = Clocked - (bt + 1) /\ bt + 1 < Clocked
          /\ ~((bt + 1) + 2 <= Clocked)
      BY <1>1, <1>4, <1>6, <2>2, <3>1
    <3>5. Len(wire') = offset' + (bt + 1) + Len(rxd')  BY <1>1, <1>4, <1>5, <1>6
    <3>6. Running'
      BY <1>1, <1>3, <1>5, <1>14, <3>3, <3>4, <3>5 DEF Running, Under
    <3> QED  BY <1>2, <2>2, <3>2, <3>6 DEF Counts
  <2>3. CASE bt + 1 >= length /\ UNCHANGED txd
              /\ transfer_in_progress' = FALSE /\ spi_xfer_done' = TRUE
    <3>1. bt + 1 = Clocked /\ Len(txd) = 0 /\ Len(rxd) = 1
      BY <1>4, <1>5, <1>6, <2>3 DEF Clocked
    <3>2. txd' = <<>> /\ rxd' = <<>>
      <4>1. txd \in Seq(Nat)  BY <1>2 DEF Counts
      <4>2. Len(Tail(rxd)) = 0  BY <1>6, <3>1
      <4> QED  BY <1>1, <1>6, <2>3, <3>1, <4>1, <4>2, EmptySeq
    <3>3. Queued'  BY <3>2 DEF Queued
    <3>4. Resting' /\ spi_xfer_done'  BY <2>3, <3>2 DEF Resting
    <3>5. Len(wire') = offset' + Clocked  BY <1>1, <1>4, <1>5, <3>1
    <3>6. Over'  BY <1>1, <1>5, <1>14, <3>4, <3>5 DEF Over
    <3> QED  BY <1>2, <2>3, <3>3, <3>6 DEF Counts
  <2>4. bytes_transferred' = bt + 1 /\ bytes_transferred' + 1 = bt + 2
    BY <1>1, <1>4
  <2>5. \/ /\ bt + 2 < length
           /\ txd' = TxdSet(txd, offset + (bt + 2) + 1)
           /\ UNCHANGED <<transfer_in_progress, spi_xfer_done>>
        \/ /\ bt + 2 >= length /\ bt + 1 < length
           /\ UNCHANGED <<txd, transfer_in_progress, spi_xfer_done>>
        \/ /\ bt + 1 >= length /\ UNCHANGED txd
           /\ transfer_in_progress' = FALSE /\ spi_xfer_done' = TRUE
    BY <2>4, Zenon DEF SpiInterrupt
  <2> QED  BY <2>1, <2>2, <2>3, <2>5
<1>16. Counts'
  <2>1. Len(rxd') <= 2 /\ rxd' \in Seq(Nat)  BY <1>1, <1>2, <1>4, <1>6 DEF Counts
  <2> QED  BY <1>1, <1>2, <1>9, <1>13, <1>15, <2>1 DEF Counts
<1>17. Places'  BY <1>1, <1>3, <1>15 DEF Places
<1> QED
  BY <1>8, <1>9, <1>10, <1>11, <1>12, <1>15, <1>16, <1>17, TypeParts DEF SpiInv, Data

\* nor does another interrupt,
LEMMA OtherStep ==
  ASSUME SpiInv, OtherInterrupt
  PROVE  SpiInv'
<1>1. UNCHANGED <<halVars, read, length, bytes_transferred, txd, rxd, wire,
                  transfer_in_progress, spi_xfer_done, inten>>
  BY DEF OtherInterrupt, nrfxVars
<1>2. Counts /\ Flags  BY TypeParts DEF SpiInv
<1>3. Counts'  BY <1>1, <1>2 DEF Counts, halVars
<1>4. Flags'  BY <1>2 DEF Flags, OtherInterrupt, nrfxVars, halVars
<1>5. Cut' /\ Selected'  BY <1>1 DEF SpiInv, Cut, Selected, halVars
<1>6. Places'
  BY <1>1 DEF SpiInv, Places, Resting, Running, Over, RoundLength, Clocked, Under, halVars
<1>7. Data'
  BY <1>1 DEF SpiInv, Data, Sent, Queued, Received, Delivered, Number, halVars
<1> QED  BY <1>3, <1>4, <1>5, <1>6, <1>7, TypeParts DEF SpiInv

\* nor a step elsewhere.
LEMMA SpiStutter ==
  ASSUME SpiInv, UNCHANGED spiVars
  PROVE  SpiInv'
<1>1. UNCHANGED <<halVars, read, length, bytes_transferred, txd, rxd, wire,
                  transfer_in_progress, spi_xfer_done, inten>>
  BY DEF spiVars, nrfxVars
<1>2. Counts /\ Flags  BY TypeParts DEF SpiInv
<1>3. Counts'  BY <1>1, <1>2 DEF Counts, halVars
<1>4. Flags'  BY <1>2 DEF Flags, spiVars, nrfxVars, halVars
<1>5. Cut' /\ Selected'  BY <1>1 DEF SpiInv, Cut, Selected, halVars
<1>6. Places'
  BY <1>1 DEF SpiInv, Places, Resting, Running, Over, RoundLength, Clocked, Under, halVars
<1>7. Data'
  BY <1>1 DEF SpiInv, Data, Sent, Queued, Received, Delivered, Number, halVars
<1> QED  BY <1>3, <1>4, <1>5, <1>6, <1>7, TypeParts DEF SpiInv

\* A byte is clocked only while a transfer runs, and there is room for what comes in.
LEMMA ClockFinds ==
  ASSUME SpiInv, ByteClocked
  PROVE  /\ pc \in {"second", "enable", "test", "wfe"} /\ Running
         /\ txd # <<>> /\ txd \in Seq(Nat) /\ Len(txd) > 0 /\ Len(rxd) < 2
<1>1. Counts  BY TypeParts DEF SpiInv
<1>2. txd # <<>>  BY DEF ByteClocked
<1>3. pc \in {"second", "enable", "test", "wfe"} /\ Running
  BY <1>1, <1>2 DEF SpiInv, Places, Resting, Over, Counts
<1>4. txd \in Seq(Nat) /\ Len(txd) > 0  BY <1>1, <1>2, Taken DEF Counts
<1>5. Len(txd) + Len(rxd) <= 2
  BY <1>1, <1>3, CountFacts DEF Running, Under
<1> QED  BY <1>1, <1>2, <1>3, <1>4, <1>5, CountFacts

\* The byte moves from the one queue to the wire, and one comes in.
LEMMA ClockedStep ==
  ASSUME SpiInv, ByteClocked
  PROVE  SpiInv'
<1>1. /\ UNCHANGED <<pc, size, left, offset, rounds, read, length, bytes_transferred>>
      /\ txd' = Tail(txd) /\ wire' = Append(wire, Head(txd))
      /\ rxd' = Append(rxd, Len(wire) + 1)
      /\ pc \in {"second", "enable", "test", "wfe"} /\ Running
      /\ txd # <<>>
  BY ClockFinds DEF ByteClocked, halVars, nrfxVars
<1>2. Counts /\ Flags /\ Data  BY TypeParts DEF SpiInv
<1>3. /\ Len(txd) \in Nat /\ Len(rxd) \in Nat /\ Len(wire) \in Nat
      /\ offset \in Nat /\ bytes_transferred \in Nat
  BY <1>2, CountFacts
<1>4. /\ Tail(txd) \in Seq(Nat) /\ Head(txd) = txd[1] /\ txd[1] \in Nat
      /\ Len(txd) > 0 /\ Len(Tail(txd)) = Len(txd) - 1
      /\ \A i \in 1..Len(Tail(txd)) : Tail(txd)[i] = txd[i + 1]
  BY <1>1, <1>2, Taken DEF Counts
<1>5. /\ wire' \in Seq(Nat) /\ Len(wire') = Len(wire) + 1
      /\ \A i \in 1..Len(wire) : wire'[i] = wire[i]
      /\ wire'[Len(wire) + 1] = txd[1]
  BY <1>1, <1>2, <1>4, Appended DEF Counts
<1>6. /\ rxd' \in Seq(Nat) /\ Len(rxd') = Len(rxd) + 1
      /\ \A i \in 1..Len(rxd) : rxd'[i] = rxd[i]
      /\ rxd'[Len(rxd) + 1] = Len(wire) + 1
  BY <1>1, <1>2, <1>3, Appended DEF Counts
<1>7. Counts'
  <2>1. Len(txd') <= 2  BY <1>1, <1>2, <1>3, <1>4 DEF Counts
  <2>2. Len(rxd') <= 2  BY <1>3, <1>6, ClockFinds
  <2>3. txd' \in Seq(Nat)  BY <1>1, <1>4
  <2> QED  BY <1>1, <1>2, <1>5, <1>6, <2>1, <2>2, <2>3 DEF Counts
<1>8. Flags'
  <2>1. ready' \in BOOLEAN  BY DEF ByteClocked
  <2> QED  BY <1>2, <2>1 DEF Flags, ByteClocked, halVars, nrfxVars
<1>9. Cut' /\ Selected'
  BY <1>1 DEF SpiInv, Cut, Selected, ByteClocked, halVars
<1>10. Places'
  <2>1. Under' = Under  BY <1>1, <1>3, <1>4, <1>6 DEF Under
  <2>2. RoundLength' = RoundLength /\ Clocked' = Clocked
    BY <1>1 DEF RoundLength, Clocked
  <2>3. Len(wire') = offset' + bytes_transferred' + Len(rxd')
    BY <1>1, <1>3, <1>5, <1>6 DEF Running
  <2>4. UNCHANGED <<transfer_in_progress, spi_xfer_done, inten>>
    BY DEF ByteClocked, nrfxVars
  <2>5. Running'  BY <1>1, <2>1, <2>2, <2>3, <2>4 DEF Running
  <2> QED  BY <1>1, <2>5 DEF Places
<1>11. Sent'
  <2>1. ASSUME NEW i \in 1..(Len(wire) + 1) PROVE wire'[i] = Number(i)
    <3>1. CASE i \in 1..Len(wire)  BY <1>2, <1>5, <3>1 DEF Data, Sent
    <3>2. CASE i = Len(wire) + 1
      <4>1. txd[1] = Number(Len(wire) + 1)  BY <1>2, <1>3, <1>4 DEF Data, Queued
      <4> QED  BY <1>5, <3>2, <4>1
    <3> QED  BY <1>3, <3>1, <3>2
  <2> QED  BY <1>1, <1>5, <2>1 DEF Sent, Number
<1>12. Queued'
  <2>1. ASSUME NEW i \in 1..Len(Tail(txd))
        PROVE  Tail(txd)[i] = Number((Len(wire) + 1) + i)
    <3>1. txd[i + 1] = Number(Len(wire) + (i + 1))
      BY <1>2, <1>3, <1>4 DEF Data, Queued
    <3>2. Len(wire) + (i + 1) = (Len(wire) + 1) + i  BY <1>3, <1>4
    <3> QED  BY <1>4, <3>1, <3>2
  <2> QED  BY <1>1, <1>5, <2>1 DEF Queued, Number
<1>13. Received'
  <2>1. ASSUME NEW i \in 1..(Len(rxd) + 1)
        PROVE  rxd'[i] = (Len(wire) + 1) - (Len(rxd) + 1) + i
    <3>1. CASE i \in 1..Len(rxd)
      <4>1. rxd[i] = Len(wire) - Len(rxd) + i  BY <1>2, <3>1 DEF Data, Received
      <4> QED  BY <1>3, <1>6, <3>1, <4>1
    <3>2. CASE i = Len(rxd) + 1  BY <1>3, <1>6, <3>2
    <3> QED  BY <1>3, <3>1, <3>2
  <2> QED  BY <1>5, <1>6, <2>1 DEF Received
<1>14. Delivered'
  <2>1. Len(wire') - Len(rxd') = Len(wire) - Len(rxd)  BY <1>3, <1>5, <1>6
  <2> QED  BY <1>1, <1>2, <2>1 DEF Data, Delivered
<1> QED
  BY <1>7, <1>8, <1>9, <1>10, <1>11, <1>12, <1>13, <1>14, TypeParts DEF SpiInv, Data

\* No step breaks the invariant.
LEMMA SpiStep == SpiInv /\ [SpiNext]_spiVars => SpiInv'
BY CallStep, SelectStep, XferStep, SecondStep, EnableStep, TestStep, WfeStep,
   InterruptStep, OtherStep, ClockedStep, SpiStutter
DEF SpiNext, MainProgram

\* SpiInv always holds: at every place of a round, the bytes that are sent, under way,
\* received and read are accounted for (hal_spi.c 56-105, nrfx_spi.c).
THEOREM SpiInvariant == SpiSpec => []SpiInv
BY SpiStart, SpiStep, PTL DEF SpiSpec

\* So neither the offsets of hal_bmlite_spi_write_read nor the counts of the driver leave
\* the buffers, and the peripheral's queues never hold more than two bytes.
THEOREM SpiTypeCorrect == SpiSpec => []SpiTypeOK
<1>1. SpiInv => SpiTypeOK  BY DEF SpiInv
<1> QED  BY <1>1, SpiInvariant, PTL

\* nrfx_spi_xfer never returns NRFX_ERROR_BUSY, which spi_write_read would ignore.
THEOREM DriverNeverBusy == SpiSpec => []NeverBusy
<1>1. SpiInv => NeverBusy  BY DEF SpiInv, Places, Resting, NeverBusy
<1> QED  BY <1>1, SpiInvariant, PTL

-----------------------------------------------------------------------------
(* The refinement *)

\* The bytes SpiTransfer wants on the wire.
LEMMA OnWireIs ==
  ASSUME NEW n \in Nat
  PROVE  /\ Transfer!OnWire(n) \in Seq(Nat)
         /\ Len(Transfer!OnWire(n)) = IF n > 0 /\ n % ROUND = 0 THEN n + 1 ELSE n
         /\ \A i \in 1..Len(Transfer!OnWire(n)) :
              Transfer!OnWire(n)[i] = IF i <= n THEN i ELSE 0
<1>1. /\ Transfer!Count(n) \in Seq(Nat) /\ Len(Transfer!Count(n)) = n
      /\ \A i \in 1..n : Transfer!Count(n)[i] = i
  BY DEF Transfer!Count
<1>2. CASE n > 0 /\ n % ROUND = 0
  <2>1. Transfer!OnWire(n) = Transfer!Count(n) \o <<0>>
    BY <1>2 DEF Transfer!OnWire
  <2>2. <<0>> \in Seq(Nat) /\ Len(<<0>>) = 1 /\ <<0>>[1] = 0  OBVIOUS
  <2> QED  BY <1>1, <1>2, <2>1, <2>2, ConcatProperties
<1>3. CASE ~(n > 0 /\ n % ROUND = 0)
  <2>1. Transfer!OnWire(n) = Transfer!Count(n) \o <<>>
    BY <1>3 DEF Transfer!OnWire
  <2>2. Transfer!OnWire(n) = Transfer!Count(n)  BY <1>1, <2>1, ConcatEmptySeq
  <2> QED  BY <1>1, <1>3, <2>2
<1> QED  BY <1>2, <1>3

\* The last round ends where the wire of SpiTransfer does.
LEMMA EndOfWire ==
  ASSUME Counts, Cut, pc # "idle", length = RoundLength
  PROVE  /\ offset + Clocked <= Len(Transfer!OnWire(size))
         /\ rounds = 0 => offset + Clocked = Len(Transfer!OnWire(size))
<1>1. /\ size \in Nat /\ size > 0 /\ left \in Nat /\ offset \in Nat /\ rounds \in Nat
      /\ left + offset = size /\ offset % ROUND = 0
  BY CountFacts, RoundFacts DEF Cut
<1>2. Len(Transfer!OnWire(size)) = IF size % ROUND = 0 THEN size + 1 ELSE size
  BY <1>1, OnWireIs
<1>3. CASE rounds > 0
  <2>1. Clocked = ROUND /\ offset + ROUND <= size
    BY <1>1, <1>3, RoundFacts, RoundLengthFacts DEF RoundLength, Clocked
  <2>2. Len(Transfer!OnWire(size)) \in Nat /\ Len(Transfer!OnWire(size)) >= size
    BY <1>1, <1>2
  <2> QED  BY <1>1, <1>3, <2>1, <2>2, RoundFacts
<1>4. CASE rounds = 0
  <2>1. length = left /\ left \in 0..(ROUND - 1)
    BY <1>1, <1>4, RoundLengthFacts, RoundFacts DEF RoundLength
  <2>2. size % ROUND = left
    <3>1. offset + left = size  BY <1>1
    <3> QED  BY <1>1, <2>1, <3>1, CutRest
  <2> QED  BY <1>1, <1>2, <2>1, <2>2 DEF Clocked
<1> QED  BY <1>1, <1>3, <1>4

\* Initial states are initial states.
LEMMA TransferStart == SpiInit => Transfer!Init
BY DEF SpiInit, Transfer!Init

\* A byte clocked is the next byte,
LEMMA ClockedMaps ==
  ASSUME SpiInv, ByteClocked
  PROVE  Transfer!Clock
<1>1. /\ pc \in {"second", "enable", "test", "wfe"} /\ Running
      /\ txd # <<>> /\ txd \in Seq(Nat) /\ Len(txd) > 0
      /\ wire' = Append(wire, Head(txd)) /\ UNCHANGED <<pc, cs, size>>
  BY ClockFinds DEF ByteClocked, halVars
<1>2. Counts /\ Cut /\ Data /\ ~cs
  BY <1>1, TypeParts DEF SpiInv, Selected
<1>3. /\ Len(txd) \in Nat /\ Len(rxd) \in Nat /\ Len(wire) \in Nat
      /\ offset \in Nat /\ bytes_transferred \in Nat /\ size \in Nat
      /\ Clocked \in Nat
  BY <1>2, CountFacts
<1>4. offset + Clocked <= Len(Transfer!OnWire(size))
  BY <1>1, <1>2, EndOfWire DEF Running
<1>5. Len(wire) + Len(txd) <= offset + Clocked
  <2>1. /\ bytes_transferred < Clocked
        /\ Len(wire) = offset + bytes_transferred + Len(rxd)
        /\ pc = "second" => bytes_transferred = 0 /\ Len(txd) + Len(rxd) = 1
        /\ pc # "second" =>
             Len(txd) + Len(rxd) = IF bytes_transferred + 2 <= Clocked THEN 2
                                   ELSE Clocked - bytes_transferred
    BY <1>1 DEF Running, Under
  <2> QED  BY <1>3, <2>1
<1>6. Len(Transfer!OnWire(size)) \in Nat  BY <1>3, OnWireIs
<1>7. Len(wire) < Len(Transfer!OnWire(size))  BY <1>1, <1>3, <1>4, <1>5, <1>6
<1>8. Head(txd) = Transfer!OnWire(size)[Len(wire) + 1]
  <2>1. Head(txd) = txd[1]  BY <1>1, Taken
  <2>2. txd[1] = Number(Len(wire) + 1)  BY <1>1, <1>2, <1>3 DEF Data, Queued
  <2>3. Len(wire) + 1 \in 1..Len(Transfer!OnWire(size))  BY <1>3, <1>6, <1>7
  <2>4. Transfer!OnWire(size)[Len(wire) + 1] = IF Len(wire) + 1 <= size
                                               THEN Len(wire) + 1 ELSE 0
    BY <1>3, <2>3, OnWireIs
  <2> QED  BY <2>1, <2>2, <2>4 DEF Number, ORC
<1> QED  BY <1>1, <1>2, <1>7, <1>8 DEF Transfer!Clock

\* a transfer ends when all are sent and read,
LEMMA TestMaps ==
  ASSUME SpiInv, TestDone
  PROVE  Transfer!Deselect \/ UNCHANGED Transfer!stvars
<1>1. pc = "test" /\ ~cs /\ UNCHANGED <<size, wire, read>>
  BY DEF SpiInv, Selected, TestDone
<1>2. CASE pc' \in {"wfe", "select"}
  <2>1. ~cs'  BY <1>1, <1>2 DEF TestDone, KeepSelected
  <2> QED  BY <1>1, <1>2, <2>1 DEF Transfer!stvars
<1>3. CASE pc' = "idle"
  <2>1. spi_xfer_done /\ rounds = 0  BY <1>1, <1>3 DEF TestDone, Done
  <2>2. Counts /\ Cut /\ Data /\ Over
    BY <1>1, <2>1, TypeParts DEF SpiInv, Places, Running
  <2>3. /\ size \in Nat /\ offset \in Nat /\ left \in Nat /\ Len(wire) \in Nat
        /\ left + offset = size
    BY <1>1, <2>2, CountFacts DEF Cut
  <2>4. Len(wire) = Len(Transfer!OnWire(size))
    BY <1>1, <2>1, <2>2, EndOfWire DEF Over
  <2>5. Len(wire) >= size  BY <2>3, <2>4, OnWireIs
  <2>6. wire = Transfer!OnWire(size)
    <3>1. \A i \in 1..Len(wire) : wire[i] = Transfer!OnWire(size)[i]
      BY <2>2, <2>3, <2>4, OnWireIs DEF Data, Sent, Number, ORC
    <3>2. wire \in Seq(Nat) /\ Transfer!OnWire(size) \in Seq(Nat)
      BY <2>2, <2>3, OnWireIs DEF Counts
    <3> QED  BY <2>4, <3>1, <3>2, SeqEqual
  <2>7. read = Transfer!Count(size)
    <3>1. read \in [1..size -> Nat]  BY <2>2 DEF Counts
    <3>2. \A i \in 1..size : read[i] = i
      BY <1>1, <2>2, <2>3, <2>5 DEF Data, Delivered, Over, Resting
    <3> QED  BY <3>1, <3>2 DEF Transfer!Count
  <2> QED  BY <1>1, <1>3, <2>6, <2>7 DEF Transfer!Deselect
<1> QED  BY <1>1, <1>2, <1>3 DEF TestDone

\* and no other step of the driver shows.
LEMMA OthersMap ==
  ASSUME SpiInv,
         \/ Xfer \/ XferSecondByte \/ XferEnable \/ Wfe
         \/ SpiInterrupt \/ OtherInterrupt \/ UNCHANGED spiVars
  PROVE  UNCHANGED Transfer!stvars
<1>1. UNCHANGED <<cs, size, wire>>
  BY DEF Xfer, XferSecondByte, XferEnable, Wfe, SpiInterrupt, OtherInterrupt,
         halVars, spiVars
<1>2. CASE Xfer \/ XferSecondByte \/ XferEnable \/ Wfe
  BY <1>1, <1>2
  DEF Xfer, XferSecondByte, XferEnable, Wfe, SpiInv, Selected, Transfer!stvars
<1>3. CASE SpiInterrupt
  <2>1. pc # "idle" /\ pc' = pc  BY <1>3, InterruptFinds DEF SpiInterrupt, halVars
  <2> QED  BY <1>1, <2>1 DEF Transfer!stvars
<1>4. CASE OtherInterrupt \/ UNCHANGED spiVars
  BY <1>1, <1>4 DEF OtherInterrupt, spiVars, halVars, Transfer!stvars
<1> QED  BY <1>2, <1>3, <1>4

\* A call asks for a transfer.
LEMMA CallMaps ==
  ASSUME SpiInv, NEW n \in Sizes, Call(n)
  PROVE  Transfer!Ask(n)
BY DEF SpiInv, Selected, Call, Transfer!Ask

\* Chip select goes down once.
LEMMA SelectMaps ==
  ASSUME SpiInv, Select
  PROVE  Transfer!Select \/ UNCHANGED Transfer!stvars
<1>1. pc = "select" /\ pc' = "xfer" /\ cs' = FALSE /\ UNCHANGED <<size, wire>>
  BY DEF Select
<1>2. CASE cs  BY <1>1, <1>2 DEF Transfer!Select
<1>3. CASE ~cs  BY <1>1, <1>3 DEF Transfer!stvars
<1> QED  BY <1>2, <1>3

\* Every step is one of SpiTransfer or none.
LEMMA TransferStep ==
  SpiInv /\ [SpiNext]_spiVars => [Transfer!Next]_Transfer!stvars
BY CallMaps, SelectMaps, TestMaps, ClockedMaps, OthersMap
DEF SpiNext, MainProgram, Transfer!Next

\* hal_bmlite_spi_write_read implements SpiTransfer for every size and length of a round:
\* the bytes go out once, in order and under one chip select, and those that came in
\* are in the read buffer when it returns.
THEOREM SpiImplementsTransfer == SpiSpec => ImplementsTransfer
BY TransferStart, TransferStep, SpiInvariant, PTL
DEF SpiSpec, ImplementsTransfer, Transfer!Spec

-----------------------------------------------------------------------------
(* The byte behind whole rounds *)

\* No more is on the wire than SpiTransfer wants there in the end.
WireWithin == Len(wire) <= Len(Transfer!OnWire(size))

LEMMA WireStays ==
  ASSUME SpiInv, WireWithin, [SpiNext]_spiVars
  PROVE  WireWithin'
<1>1. [Transfer!Next]_Transfer!stvars  BY TransferStep
<1>2. /\ wire \in Seq(Nat) /\ Len(wire) \in Nat /\ size \in Nat
      /\ \A n \in Sizes \cup {0} : n \in Nat
  BY RoundFacts, LenProperties DEF SpiInv, SpiTypeOK
<1>3. CASE \E n \in Sizes : Transfer!Ask(n)
  <2>1. PICK n \in Sizes : Transfer!Ask(n)  BY <1>3
  <2>2. wire' = <<>> /\ size' = n  BY <2>1 DEF Transfer!Ask
  <2>3. Len(Transfer!OnWire(n)) \in Nat  BY <1>2, OnWireIs, LenProperties
  <2>4. Len(Transfer!OnWire(n)) >= 0 /\ Len(<<>>) = 0  BY <2>3
  <2>5. WireWithin' <=> Len(wire') <= Len(Transfer!OnWire(size'))
    BY DEF WireWithin, Transfer!OnWire, Transfer!Count
  <2> QED  BY <2>2, <2>4, <2>5
<1>4. CASE Transfer!Clock
  <2>1. /\ wire' = Append(wire, Transfer!OnWire(size)[Len(wire) + 1]) /\ size' = size
        /\ Len(wire) < Len(Transfer!OnWire(size))
    BY <1>4 DEF Transfer!Clock
  <2>2. Transfer!OnWire(size) \in Seq(Nat) /\ Len(Transfer!OnWire(size)) \in Nat
    BY <1>2, OnWireIs, LenProperties
  <2>3. Transfer!OnWire(size)[Len(wire) + 1] \in Nat
    BY <1>2, <2>1, <2>2, ElementOfSeq
  <2>4. Len(wire') = Len(wire) + 1  BY <1>2, <2>1, <2>3, Appended
  <2> QED  BY <1>2, <2>1, <2>2, <2>4 DEF WireWithin, Transfer!OnWire, Transfer!Count
<1>5. CASE UNCHANGED <<size, wire>>
  BY <1>5 DEF WireWithin, Transfer!OnWire, Transfer!Count
<1> QED
  BY <1>1, <1>3, <1>4, <1>5
  DEF Transfer!Next, Transfer!Select, Transfer!Deselect, Transfer!stvars

\* At no time is more on the wire than SpiTransfer wants.
THEOREM WireAlwaysWithin == SpiSpec => []WireWithin
<1>1. SpiInit => WireWithin
  <2> SUFFICES ASSUME SpiInit PROVE WireWithin  OBVIOUS
  <2>1. size = 0 /\ wire = <<>>  BY DEF SpiInit
  <2>2. Len(Transfer!OnWire(0)) \in Nat /\ Len(<<>>) = 0
    BY OnWireIs
  <2> QED  BY <2>1, <2>2 DEF WireWithin
<1>2. SpiInv /\ WireWithin /\ [SpiNext]_spiVars => WireWithin'  BY WireStays
<1> QED  BY <1>1, <1>2, SpiInvariant, PTL DEF SpiSpec

\* The extra byte is one, and it is clocked only in transfers of whole rounds: no round
\* but an empty last one (hal_spi.c 95) makes the driver send what was not asked for.
THEOREM ExtraByteOnlyBehindRounds ==
  SpiSpec => []( /\ Len(wire) <= size + 1
                 /\ size % ROUND # 0 => NoExtraByte )
<1>1. SpiInv /\ WireWithin => /\ Len(wire) <= size + 1
                              /\ size % ROUND # 0 => NoExtraByte
  <2> SUFFICES ASSUME SpiInv, WireWithin
               PROVE  /\ Len(wire) <= size + 1
                      /\ size % ROUND # 0 => NoExtraByte
    OBVIOUS
  <2>1. Len(wire) \in Nat /\ size \in Nat
    BY RoundFacts, LenProperties DEF SpiInv, SpiTypeOK
  <2>2. Len(Transfer!OnWire(size)) = IF size > 0 /\ size % ROUND = 0 THEN size + 1 ELSE size
    BY <2>1, OnWireIs
  <2> QED  BY <2>1, <2>2 DEF WireWithin, NoExtraByte
<1> QED  BY <1>1, SpiInvariant, WireAlwaysWithin, PTL

=============================================================================
