------------------------- MODULE HcpTransportProofs -------------------------
(***************************************************************************)
(* Proofs about HcpTransport for every MTU, packet size, set of sizes and  *)
(* bound, every set of faults and every reset policy.                      *)
(*                                                                         *)
(* Neither TypeOK nor SentWhole is inductive.  That p stays inside         *)
(* pkt_buffer while a command is sent rests on the count of frames, which  *)
(* bmlite_send computes once by a division and then counts down one frame  *)
(* at a time (FramesLeft); that the module's frames are well-formed rests  *)
(* on its never having sent more than its reply (ReplyLeft).               *)
(***************************************************************************)
EXTENDS HcpTransport, SequenceTheorems, TLAPS

\* While bmlite_send runs, the frames still to come are those that the bytes
\* still to send make by the formula of seq_len.
FramesLeft ==
  /\ pc = "tx" => seq_len - seq_nr = data_left \div APP_MTU
  /\ pc = "ack" => /\ seq_nr <= seq_len
                   /\ seq_nr = seq_len => data_left = 0
                   /\ seq_nr < seq_len =>
                        seq_len - seq_nr = data_left \div APP_MTU + 1

\* The module has sent no more than there is of its reply.
ReplyLeft == mJob.phase # "none" => mJob.sent <= rsp[mJob.call].size

Inv == TypeOK /\ SentWhole /\ FramesLeft /\ ReplyLeft

-----------------------------------------------------------------------------

(* Facts about the constants and the helpers *)

\* What the assumptions say of the packet sizes.
LEMMA SizeFacts == /\ PKT_SIZE_MAX \in Nat
                   /\ PKT_SIZE_MAX > 0
                   /\ CmdSizes \subseteq 1..PKT_SIZE_MAX
                   /\ RspSizes \subseteq Nat
                   /\ MaxCalls \in Nat
                   /\ MaxFaults \in Nat
BY TransportAssumption

\* A frame holds at least one byte of a packet.
LEMMA MtuFacts == /\ MTU \in Nat
                  /\ MTU >= 15
                  /\ APP_MTU \in Nat
                  /\ APP_MTU > 0
BY TransportAssumption DEF APP_MTU, OVERHEAD

\* Taking a full frame off the data takes one off the quotient.
LEMMA DivStep ==
  ASSUME NEW d \in Nat
  PROVE  /\ d \div APP_MTU \in Nat
         /\ d < APP_MTU => d \div APP_MTU = 0
         /\ d >= APP_MTU => (d - APP_MTU) \div APP_MTU = (d \div APP_MTU) - 1
BY MtuFacts

\* seq_len is a number.
LEMMA FrameCountType == ASSUME NEW n \in Nat PROVE FrameCount(n) \in Nat
BY DivStep DEF FrameCount

\* Frame builds a transport frame.
LEMMA FrameType ==
  ASSUME NEW nr \in Nat, NEW len \in Nat, NEW pld \in Seq(Bytes)
  PROVE  /\ Frame(nr, len, pld) \in Frames
         /\ LinkSize(Frame(nr, len, pld)) \in Nat
         /\ Frame(nr, len, pld).t_size = Len(pld)
         /\ Frame(nr, len, pld).t_seq_nr = nr
         /\ Frame(nr, len, pld).t_seq_len = len
<1>1. Len(pld) \in Nat
  BY LenProperties
<1> QED
  BY <1>1 DEF Frame, Frames, LinkSize

\* The frame txrx_buffer holds at first is one.
LEMMA NoFrameType == NoFrame \in Frames
<1>1. <<>> \in Seq(Bytes)
  BY EmptySeq
<1> QED
  BY <1>1, FrameType DEF NoFrame

\* A status found in a packet buffer is one of the two the module reports.
LEMMA BepResultType ==
  ASSUME rsp \in [Calls -> Answers], NEW buf \in [1..PKT_SIZE_MAX -> Bytes]
  PROVE  BepResultOf(buf) \in {"OK", "FAILED"}
<1>1. buf[1] \in Bytes
  BY SizeFacts
<1>2. buf[1][1] = "rsp" => buf[1][2] \in Calls
  BY <1>1 DEF Bytes
<1> QED
  BY <1>2 DEF BepResultOf, Answers

\* memcpy of a payload leaves a packet buffer of bytes.
LEMMA StoredType ==
  ASSUME p \in Nat, pkt_buffer \in [1..PKT_SIZE_MAX -> Bytes], NEW pld \in Seq(Bytes)
  PROVE  Stored(pld) \in [1..PKT_SIZE_MAX -> Bytes]
<1>1. ASSUME NEW i \in 1..PKT_SIZE_MAX, i \in (p + 1)..(p + Len(pld))
      PROVE  pld[i - p] \in Bytes
  <2>1. i - p \in 1..Len(pld)
    BY <1>1, LenProperties
  <2> QED
    BY <2>1, ElementOfSeq
<1> QED
  BY <1>1 DEF Stored

\* Reading the bus takes a unit off a queue of units.
LEMMA HeadUnit ==
  ASSUME mTx \in Seq(Units), mTx # <<>>
  PROVE  Head(mTx) \in Units /\ Tail(mTx) \in Seq(Units)
BY HeadTailProperties

\* Taking a write of the host leaves a queue of writes.
LEMMA HeadWrite ==
  ASSUME mRx \in Seq(Writes), mRx # <<>>
  PROVE  Head(mRx) \in Writes /\ Tail(mRx) \in Seq(Writes)
BY HeadTailProperties

-----------------------------------------------------------------------------
(* Every action preserves the invariant *)

\* The initial states satisfy the invariant.
LEMMA InitInv == Init => Inv
<1> SUFFICES ASSUME Init PROVE Inv
  OBVIOUS
<1>0. /\ <<>> \in Seq(Bytes)
      /\ <<>> \in Seq(Units)
      /\ <<>> \in Seq(Writes)
  BY EmptySeq
<1>1. HostTypes
  BY SizeFacts DEF Init, HostTypes, Results
<1>2. BufferTypes
  <2>1. pkt_buffer \in [1..PKT_SIZE_MAX -> Bytes]
    BY DEF Init, Bytes
  <2>2. txrx \in [lnk_size : Nat, frm : Frames, crc_size : Nat]
    BY NoFrameType, MtuFacts DEF Init, NoCrc
  <2> QED
    BY <2>1, <2>2 DEF Init, BufferTypes
<1>3. BusTypes
  BY <1>0 DEF Init, BusTypes
<1>4. ModuleTypes
  <2>1. rsp \in [Calls -> Answers]
    BY <1>0 DEF Init, Answers, NoRsp
  <2>2. mJob \in Jobs /\ mCmd \in [nr : Nat, bytes : Seq(Bytes)]
    BY <1>0 DEF Init, Jobs, NoJob, NoCmd
  <2>3. cmdSize \in [Calls -> 0..PKT_SIZE_MAX]
    BY SizeFacts DEF Init
  <2> QED
    BY <2>1, <2>2, <2>3 DEF ModuleTypes
<1>5. SentWhole /\ FramesLeft /\ ReplyLeft
  BY DEF Init, SentWhole, FramesLeft, ReplyLeft, NoJob
<1> QED
  BY <1>1, <1>2, <1>3, <1>4, <1>5 DEF Inv, TypeOK


\* A new call sets up the count of frames.
LEMMA TranceiveInv ==
  ASSUME Inv, NEW n \in CmdSizes, Tranceive(n)
  PROVE  Inv'
<1> USE DEF Inv, TypeOK
<1>0. /\ n \in 1..PKT_SIZE_MAX
      /\ call + 1 \in Calls
      /\ FrameCount(n) \in Nat
  BY FrameCountType, SizeFacts DEF HostTypes, Tranceive, Calls
<1>1. HostTypes'
  BY <1>0, SizeFacts DEF HostTypes, Tranceive, Calls
<1>2. BufferTypes'
  BY <1>0 DEF BufferTypes, Tranceive, Bytes
<1>3. BusTypes'
  BY DEF BusTypes, Tranceive, module
<1>4. ModuleTypes'
  BY <1>0 DEF ModuleTypes, Tranceive, module
<1>5. SentWhole'
  BY <1>0 DEF Tranceive, SentWhole
<1>6. FramesLeft'
  BY <1>0, DivStep DEF Tranceive, FramesLeft, FrameCount
<1>7. ReplyLeft'
  BY DEF Tranceive, ReplyLeft, module
<1> QED
  BY <1>1, <1>2, <1>3, <1>4, <1>5, <1>6, <1>7


\* Sending a frame moves its bytes from data_left to p.
LEMMA TxLinkWriteInv ==
  ASSUME Inv, TxLinkWrite
  PROVE  Inv'
<1> USE DEF Inv, TypeOK
<1> DEFINE t_size == IF data_left < APP_MTU THEN data_left ELSE APP_MTU
           pld == SubSeq(pkt_buffer, p + 1, p + t_size)
           frm == Frame(seq_nr, seq_len, pld)
<1>0. /\ txrx' = [lnk_size |-> LinkSize(frm), frm |-> frm,
                  crc_size |-> LinkSize(frm)]
      /\ p' = p + t_size
      /\ data_left' = data_left - t_size
      /\ mRx' = Append(mRx, FrameWrite(call, frm))
      /\ pc = "tx" /\ pc' = "ack"
      /\ UNCHANGED <<pkt_buffer, pkt_size, seq_nr, seq_len, com_result, result,
                     bep_result, call, cmdSize, mTx, mCmd, mJob, rsp, faults>>
  BY DEF TxLinkWrite, Advance
<1>1. /\ t_size \in Nat
      /\ t_size <= data_left
      /\ p \in Nat /\ p + t_size <= pkt_size
      /\ p + t_size <= PKT_SIZE_MAX
  BY <1>0, MtuFacts, SizeFacts DEF HostTypes, SentWhole
<1> HIDE DEF t_size
<1>2. pld \in Seq(Bytes)
  <2>1. \A i \in (p + 1)..(p + t_size) : pkt_buffer[i] \in Bytes
    BY <1>1, SizeFacts DEF BufferTypes
  <2> QED
    BY <2>1, <1>1, SubSeqProperties
<1> HIDE DEF pld
<1>3. frm \in Frames /\ LinkSize(frm) \in Nat
  BY <1>2, FrameType DEF HostTypes
<1> HIDE DEF frm
<1>4. HostTypes'
  BY <1>0, <1>1, SizeFacts DEF HostTypes
<1>5. BufferTypes'
  BY <1>0, <1>3 DEF BufferTypes
<1>6. BusTypes'
  <2>1. FrameWrite(call, frm) \in Writes
    BY <1>0, <1>3 DEF HostTypes, FrameWrite, Writes
  <2> QED
    BY <2>1, <1>0 DEF BusTypes
<1>7. ModuleTypes'
  BY <1>0 DEF ModuleTypes
<1>8. SentWhole'
  BY <1>0, <1>1 DEF HostTypes, SentWhole
<1>9. FramesLeft'
  <2>1. seq_len - seq_nr = data_left \div APP_MTU
    BY <1>0 DEF FramesLeft
  <2>2. CASE data_left < APP_MTU
    BY <2>1, <2>2, <1>0, DivStep, MtuFacts DEF t_size, FramesLeft, HostTypes
  <2>3. CASE data_left >= APP_MTU
    <3>1. data_left' = data_left - APP_MTU
      BY <2>3, <1>0, MtuFacts DEF t_size, HostTypes
    <3>2. /\ data_left \div APP_MTU \in Nat
          /\ data_left' \div APP_MTU = data_left \div APP_MTU - 1
          /\ data_left' \div APP_MTU \in Nat
      BY <3>1, <2>3, DivStep, MtuFacts, SizeFacts DEF HostTypes
    <3> QED
      BY <2>1, <3>1, <3>2, <1>0 DEF FramesLeft, HostTypes
  <2> QED
    BY <2>2, <2>3, MtuFacts DEF HostTypes
<1>10. ReplyLeft'
  BY <1>0 DEF ReplyLeft
<1> QED
  BY <1>4, <1>5, <1>6, <1>7, <1>8, <1>9, <1>10

\* The answer to a frame; the last ACK finds nothing left.
LEMMA TxLinkAckInv ==
  ASSUME Inv, TxLinkAck
  PROVE  Inv'
<1> USE DEF Inv, TypeOK
<1>1. HostTypes'
  BY SizeFacts DEF HostTypes, TxLinkAck, SendFails, Results
<1>2. BufferTypes'
  BY DEF BufferTypes, TxLinkAck, SendFails
<1>3. BusTypes'
  BY HeadUnit DEF BusTypes, TxLinkAck
<1>4. ModuleTypes'
  BY DEF ModuleTypes, TxLinkAck
<1>5. SentWhole' /\ FramesLeft'
  <2>1. data_left \div APP_MTU \in Nat
    BY DivStep DEF HostTypes
  <2> QED
    BY <2>1 DEF HostTypes, SentWhole, FramesLeft, TxLinkAck, SendFails
<1>6. ReplyLeft'
  BY DEF ReplyLeft, TxLinkAck
<1> QED
  BY <1>1, <1>2, <1>3, <1>4, <1>5, <1>6

\* A missing ACK ends the call.
LEMMA TxLinkAckTimeoutInv ==
  ASSUME Inv, TxLinkAckTimeout
  PROVE  Inv'
<1> USE DEF Inv, TypeOK
<1>1. HostTypes'
  BY SizeFacts DEF HostTypes, TxLinkAckTimeout, SendFails, Results
<1>2. BufferTypes' /\ BusTypes' /\ ModuleTypes'
  BY DEF BufferTypes, BusTypes, ModuleTypes, TxLinkAckTimeout, SendFails, module
<1>3. SentWhole' /\ FramesLeft' /\ ReplyLeft'
  BY DEF SentWhole, FramesLeft, ReplyLeft, TxLinkAckTimeout, SendFails, module
<1> QED
  BY <1>1, <1>2, <1>3

\* What ReceiveFails leaves of the invariant, whatever the bus does meanwhile.
LEMMA ReceiveFailsInv ==
  ASSUME Inv, NEW r \in {"IO_ERROR", "TIMEOUT"}, ReceiveFails(r),
         UNCHANGED <<call, cmdSize, mCmd, mJob, rsp, faults>>,
         BusTypes', txrx' \in [lnk_size : Nat, frm : Frames, crc_size : Nat]
  PROVE  Inv'
<1> USE DEF Inv, TypeOK
<1>1. HostTypes'
  BY SizeFacts DEF HostTypes, ReceiveFails, Results
<1>2. bep_result' \in {"OK", "FAILED"}
  BY BepResultType DEF ReceiveFails, BufferTypes, ModuleTypes
<1>3. BufferTypes'
  BY <1>2 DEF BufferTypes, ReceiveFails
<1>4. ModuleTypes'
  BY DEF ModuleTypes
<1>5. SentWhole' /\ FramesLeft' /\ ReplyLeft'
  BY DEF SentWhole, FramesLeft, ReplyLeft, ReceiveFails
<1> QED
  BY <1>1, <1>3, <1>4, <1>5

\* A header, of whatever size.
LEMMA RxLinkHeaderInv ==
  ASSUME Inv, RxLinkHeader
  PROVE  Inv'
<1> USE DEF Inv, TypeOK
<1> DEFINE size == HeaderSize(Head(mTx))
<1>1. size \in Nat
  <2>1. Head(mTx) \in Units
    BY HeadUnit DEF BusTypes, RxLinkHeader
  <2> QED
    BY <2>1, MtuFacts DEF HeaderSize, Units, Frames
<1>2. /\ pc = "hdr"
      /\ mTx' = Tail(mTx)
      /\ txrx' = [txrx EXCEPT !.lnk_size = size]
      /\ UNCHANGED <<call, cmdSize, mRx, mCmd, mJob, rsp, faults>>
  BY DEF RxLinkHeader
<1>3. txrx' \in [lnk_size : Nat, frm : Frames, crc_size : Nat]
  BY <1>1, <1>2 DEF BufferTypes
<1>4. BusTypes'
  BY <1>2, HeadUnit DEF BusTypes, RxLinkHeader
<1>5. CASE ReceiveFails("IO_ERROR")
  BY <1>2, <1>3, <1>4, <1>5, ReceiveFailsInv
<1>6. CASE /\ pc' = "body"
           /\ UNCHANGED <<pkt_buffer, pkt_size, seq_nr, seq_len, data_left, p,
                          com_result, result, bep_result>>
  <2>1. HostTypes'
    BY <1>2, <1>6 DEF HostTypes
  <2>2. BufferTypes' /\ ModuleTypes'
    BY <1>2, <1>3, <1>6 DEF BufferTypes, ModuleTypes
  <2>3. SentWhole' /\ FramesLeft' /\ ReplyLeft'
    BY <1>2, <1>6 DEF SentWhole, FramesLeft, ReplyLeft
  <2> QED
    BY <2>1, <2>2, <2>3, <1>4
<1> QED
  BY <1>5, <1>6 DEF RxLinkHeader

\* A missing header ends the call, be it by the timeout or by the button.
LEMMA NoHeaderInv ==
  ASSUME Inv, NoHeader
  PROVE  Inv'
<1>1. /\ BusTypes'
      /\ txrx' \in [lnk_size : Nat, frm : Frames, crc_size : Nat]
  BY DEF Inv, TypeOK, BusTypes, BufferTypes, NoHeader, module
<1> QED
  BY <1>1, ReceiveFailsInv DEF NoHeader, module

\* What bmlite_receive does with a frame whose CRC is right.
LEMMA ReassembleInv ==
  ASSUME Inv, pc = "body",
         NEW b \in [lnk_size : Nat, frm : Frames, crc_size : Nat],
         Reassemble(b), txrx' = b, BusTypes',
         UNCHANGED <<call, cmdSize, mCmd, mJob, rsp, faults>>
  PROVE  Inv'
<1> USE DEF Inv, TypeOK
<1> DEFINE frm == b.frm
           stored == frm.t_size = b.lnk_size - 6 /\ Fits(frm)
<1>1. /\ frm \in Frames
      /\ frm.t_size \in Nat
      /\ frm.t_seq_nr \in Nat
      /\ frm.t_seq_len \in Nat
      /\ frm.t_pld \in Seq(Bytes)
  BY DEF Frames
<1>2. /\ seq_nr' = frm.t_seq_nr
      /\ seq_len' = frm.t_seq_len
      /\ pkt_buffer' = IF stored THEN Stored(frm.t_pld) ELSE pkt_buffer
      /\ p' = IF stored THEN p + frm.t_size ELSE p
      /\ com_result' \in {"IO_ERROR", "NO_MEMORY", com_result}
      /\ data_left' = data_left
      /\ \/ /\ pc' = "hdr"
            /\ UNCHANGED <<pkt_size, result, bep_result>>
         \/ /\ pc' = "idle"
            /\ pkt_size' = p'
            /\ result' = com_result'
            /\ bep_result' = BepResultOf(pkt_buffer')
  BY DEF Reassemble, Advance
<1>3. p' \in 0..PKT_SIZE_MAX
  BY <1>1, <1>2, SizeFacts DEF HostTypes, Fits
<1>4. pkt_buffer' \in [1..PKT_SIZE_MAX -> Bytes]
  BY <1>1, <1>2, StoredType DEF BufferTypes, HostTypes
<1>5. HostTypes'
  BY <1>1, <1>2, <1>3 DEF HostTypes, Results
<1>6. ModuleTypes'
  BY DEF ModuleTypes
<1>7. BufferTypes'
  <2>1. BepResultOf(pkt_buffer') \in {"OK", "FAILED"}
    BY <1>4, BepResultType DEF ModuleTypes
  <2> QED
    BY <1>2, <1>4, <2>1 DEF BufferTypes
<1>8. SentWhole' /\ FramesLeft' /\ ReplyLeft'
  BY <1>2 DEF SentWhole, FramesLeft, ReplyLeft
<1> QED
  BY <1>5, <1>6, <1>7, <1>8

\* The CRC check of _rx_link, for any content of txrx_buffer.
LEMMA CheckCrcInv ==
  ASSUME Inv, pc = "body",
         NEW b \in [lnk_size : Nat, frm : Frames, crc_size : Nat],
         CheckCrc(b), mTx' \in Seq(Units),
         UNCHANGED <<call, cmdSize, mCmd, mJob, rsp, faults>>
  PROVE  Inv'
<1>1. AckWrite \in Writes
  BY DEF AckWrite, Writes
<1>2. BusTypes' /\ txrx' = b
  BY <1>1 DEF CheckCrc, Inv, TypeOK, BusTypes
<1>3. CASE ReceiveFails("IO_ERROR")
  BY <1>2, <1>3, ReceiveFailsInv
<1>4. CASE Reassemble(b)
  BY <1>2, <1>4, ReassembleInv
<1> QED
  BY <1>3, <1>4 DEF CheckCrc

\* A body, of whatever content.
LEMMA RxLinkBodyInv ==
  ASSUME Inv, RxLinkBody
  PROVE  Inv'
<1>1. Head(mTx) \in Units /\ Tail(mTx) \in Seq(Units)
  BY HeadUnit DEF Inv, TypeOK, BusTypes, RxLinkBody
<1> DEFINE b == BodyRead(Head(mTx))
<1>2. b \in [lnk_size : Nat, frm : Frames, crc_size : Nat]
  <2>1. txrx \in [lnk_size : Nat, frm : Frames, crc_size : Nat]
    BY DEF Inv, TypeOK, BufferTypes
  <2>2. CASE Head(mTx).kind = "body"
    <3>1. Head(mTx).frm \in Frames
      BY <1>1, <2>2 DEF Units
    <3>2. LinkSize(Head(mTx).frm) \in Nat
      BY <3>1 DEF LinkSize, Frames
    <3> QED
      BY <2>1, <2>2, <3>1, <3>2 DEF BodyRead
  <2>3. CASE Head(mTx).kind = "zero" /\ txrx.lnk_size = 0
    <3>1. Frame(0, txrx.frm.t_seq_len, <<>>) \in Frames
      <4>1. txrx.frm.t_seq_len \in Nat /\ <<>> \in Seq(Bytes)
        BY <2>1, EmptySeq DEF Frames
      <4> QED
        BY <4>1, FrameType
    <3>2. b = [txrx EXCEPT !.frm = Frame(0, txrx.frm.t_seq_len, <<>>),
                           !.crc_size = 0]
      BY <2>3 DEF BodyRead
    <3>3. 0 \in Nat
      OBVIOUS
    <3> DEFINE f == Frame(0, txrx.frm.t_seq_len, <<>>)
    <3> HIDE DEF b, f
    <3> QED
      BY <2>1, <3>1, <3>2, <3>3 DEF f
  <2>4. CASE /\ Head(mTx).kind # "body"
             /\ ~(Head(mTx).kind = "zero" /\ txrx.lnk_size = 0)
    BY <2>1, <2>4, MtuFacts DEF BodyRead, NoCrc
  <2> QED
    BY <2>2, <2>3, <2>4
<1> HIDE DEF b
<1>3. /\ pc = "body"
      /\ CheckCrc(b)
      /\ mTx' = Tail(mTx)
      /\ UNCHANGED <<call, cmdSize, mCmd, mJob, rsp, faults>>
  BY DEF RxLinkBody, b
<1> QED
  BY <1>1, <1>2, <1>3, CheckCrcInv

\* A missing body leaves txrx_buffer as it was.
LEMMA RxLinkBodyTimeoutInv ==
  ASSUME Inv, RxLinkBodyTimeout
  PROVE  Inv'
<1>1. /\ pc = "body"
      /\ CheckCrc(txrx)
      /\ UNCHANGED <<call, cmdSize, mTx, mCmd, mJob, rsp, faults>>
  BY DEF RxLinkBodyTimeout
<1>2. /\ txrx \in [lnk_size : Nat, frm : Frames, crc_size : Nat]
      /\ mTx' \in Seq(Units)
  BY <1>1 DEF Inv, TypeOK, BufferTypes, BusTypes
<1> QED
  BY <1>1, <1>2, CheckCrcInv

\* A reset forgets what the module was doing.
LEMMA HwResetInv ==
  ASSUME Inv, HwReset
  PROVE  Inv'
<1> USE DEF Inv, TypeOK
<1>1. HostTypes' /\ BufferTypes'
  BY DEF HostTypes, BufferTypes, HwReset
<1>2. BusTypes'
  BY EmptySeq DEF BusTypes, HwReset
<1>3. ModuleTypes'
  BY EmptySeq DEF ModuleTypes, HwReset, NoCmd, NoJob, Jobs
<1>4. SentWhole' /\ FramesLeft' /\ ReplyLeft'
  BY DEF SentWhole, FramesLeft, ReplyLeft, HwReset, NoJob
<1> QED
  BY <1>1, <1>2, <1>3, <1>4


\* The module takes a frame of a command.
LEMMA ModuleTakesFrameInv ==
  ASSUME Inv, ModuleTakesFrame
  PROVE  Inv'
<1> USE DEF Inv, TypeOK
<1> DEFINE w == Head(mRx)
           frm == w.frm
           bytes == IF frm.t_seq_nr = 1 THEN frm.t_pld ELSE mCmd.bytes \o frm.t_pld
<1>1. w \in Writes /\ Tail(mRx) \in Seq(Writes) /\ w.kind = "frame"
  BY HeadWrite DEF BusTypes, ModuleTakesFrame
<1>2. w.call \in Calls /\ frm \in Frames
  BY <1>1 DEF Writes
<1>3. /\ frm.t_seq_nr \in Nat
      /\ bytes \in Seq(Bytes)
  BY <1>2, ConcatProperties DEF ModuleTypes, Frames
<1>4. /\ mRx' = Tail(mRx)
      /\ UNCHANGED <<pc, pkt_buffer, pkt_size, txrx, seq_nr, seq_len, data_left,
                     p, com_result, result, bep_result, call, cmdSize, faults>>
      /\ \/ mTx' = mTx
         \/ mTx' = Append(mTx, AckUnit)
      /\ \/ mCmd' = NoCmd
         \/ mCmd' = [nr |-> frm.t_seq_nr, bytes |-> bytes]
      /\ \/ mJob' = NoJob /\ rsp' = rsp
         \/ /\ mJob' = [phase |-> "hdr", call |-> w.call, nr |-> 1, sent |-> 0]
            /\ \E size \in RspSizes, status \in {"OK", "FAILED"} :
                 rsp' = [rsp EXCEPT ![w.call] =
                           [size |-> size, status |-> status, cmd |-> bytes]]
  BY DEF ModuleTakesFrame, host
<1> HIDE DEF w, frm, bytes
<1>5. HostTypes' /\ BufferTypes'
  BY <1>4 DEF HostTypes, BufferTypes
<1>6. BusTypes'
  <2>1. AckUnit \in Units
    BY DEF AckUnit, Units
  <2> QED
    BY <2>1, <1>1, <1>4 DEF BusTypes
<1>7. rsp' \in [Calls -> Answers]
  <2>1. CASE rsp' = rsp
    BY <2>1 DEF ModuleTypes
  <2>2. ASSUME NEW size \in RspSizes, NEW status \in {"OK", "FAILED"},
               rsp' = [rsp EXCEPT ![w.call] =
                         [size |-> size, status |-> status, cmd |-> bytes]]
        PROVE  rsp' \in [Calls -> Answers]
    <3>1. [size |-> size, status |-> status, cmd |-> bytes] \in Answers
      BY <1>3, SizeFacts DEF Answers
    <3> QED
      BY <2>2, <3>1, <1>2 DEF ModuleTypes
  <2> QED
    BY <2>1, <2>2, <1>4
<1>8. ModuleTypes'
  <2>1. mCmd' \in [nr : Nat, bytes : Seq(Bytes)]
    <3>1. NoCmd \in [nr : Nat, bytes : Seq(Bytes)]
      BY EmptySeq DEF NoCmd
    <3>2. [nr |-> frm.t_seq_nr, bytes |-> bytes] \in [nr : Nat, bytes : Seq(Bytes)]
      BY <1>3
    <3> QED
      BY <3>1, <3>2, <1>4
  <2>2. mJob' \in Jobs
    BY <1>2, <1>4 DEF Jobs, NoJob
  <2> QED
    BY <2>1, <2>2, <1>4, <1>7 DEF ModuleTypes
<1>9. SentWhole' /\ FramesLeft'
  BY <1>4 DEF SentWhole, FramesLeft
<1>10. ReplyLeft'
  BY <1>2, <1>4, <1>7 DEF ReplyLeft, NoJob, Answers
<1> QED
  BY <1>5, <1>6, <1>8, <1>9, <1>10

\* The frame the module sends is a part of its reply, and does not run past it.
LEMMA ReplyFrameType ==
  ASSUME Inv, mJob.phase # "none"
  PROVE  /\ ReplyFrame \in Frames
         /\ mJob.sent + ReplyFrame.t_size <= rsp[mJob.call].size
         /\ LinkSize(ReplyFrame) \in Nat
<1> USE DEF Inv, TypeOK
<1> DEFINE size == rsp[mJob.call].size
           left == size - mJob.sent
           n == IF left < APP_MTU THEN left ELSE APP_MTU
           pld == SubSeq(RspPacket(mJob.call, size), mJob.sent + 1, mJob.sent + n)
<1>1. /\ mJob.call \in Calls /\ mJob.nr \in Nat /\ mJob.sent \in Nat
      /\ size \in Nat
      /\ mJob.sent <= size
  BY DEF ModuleTypes, Jobs, Answers, ReplyLeft
<1>2. n \in Nat /\ mJob.sent + n <= size
  BY <1>1, MtuFacts
<1> HIDE DEF n, size
<1>3. pld \in Seq(Bytes) /\ Len(pld) = n
  <2>1. \A i \in (mJob.sent + 1)..(mJob.sent + n) :
           RspPacket(mJob.call, size)[i] \in Bytes
    BY <1>1, <1>2 DEF RspPacket, Bytes
  <2> QED
    BY <2>1, <1>1, <1>2, SubSeqProperties
<1> HIDE DEF pld
<1>4. FrameCount(size) \in Nat
  BY <1>1, FrameCountType
<1>5. ReplyFrame = Frame(mJob.nr, FrameCount(size), pld)
  BY DEF ReplyFrame, pld, n, size
<1>6. /\ ReplyFrame \in Frames
      /\ LinkSize(ReplyFrame) \in Nat
      /\ ReplyFrame.t_size = n
  <2> DEFINE nr == mJob.nr
             len == FrameCount(size)
  <2>1. nr \in Nat /\ len \in Nat
    BY <1>1, <1>4
  <2> HIDE DEF nr, len
  <2>2. /\ Frame(nr, len, pld) \in Frames
        /\ LinkSize(Frame(nr, len, pld)) \in Nat
        /\ Frame(nr, len, pld).t_size = n
    BY <2>1, <1>3, FrameType
  <2> QED
    BY <2>2, <1>5 DEF nr, len
<1> QED
  BY <1>2, <1>6 DEF size

\* The module puts up a header or a body.
LEMMA ModulePutsInv ==
  ASSUME Inv, ModulePutsHeader \/ ModulePutsBody
  PROVE  Inv'
<1> USE DEF Inv, TypeOK
<1>1. mJob.phase # "none"
  BY DEF ModulePutsHeader, ModulePutsBody
<1>2. ReplyFrame \in Frames /\ LinkSize(ReplyFrame) \in Nat
  BY <1>1, ReplyFrameType
<1>3. \E u \in Units : mTx' = Append(mTx, u)
  BY <1>2 DEF ModulePutsHeader, ModulePutsBody, HdrUnit, BodyUnit, Units
<1>4. /\ UNCHANGED <<host, mRx, mCmd, rsp, faults>>
      /\ mJob' \in Jobs
      /\ mJob'.sent = mJob.sent /\ mJob'.call = mJob.call
  BY <1>1 DEF ModulePutsHeader, ModulePutsBody, ModuleTypes, Jobs
<1>5. HostTypes' /\ BufferTypes'
  BY <1>4 DEF HostTypes, BufferTypes, host
<1>6. BusTypes'
  BY <1>3, <1>4 DEF BusTypes
<1>7. ModuleTypes'
  BY <1>4 DEF ModuleTypes, host
<1>8. SentWhole' /\ FramesLeft' /\ ReplyLeft'
  BY <1>1, <1>4 DEF SentWhole, FramesLeft, ReplyLeft, host
<1> QED
  BY <1>5, <1>6, <1>7, <1>8

\* The module takes an ACK and goes on to the next part of its reply.
LEMMA ModuleTakesAckInv ==
  ASSUME Inv, ModuleTakesAck
  PROVE  Inv'
<1> USE DEF Inv, TypeOK
<1>1. UNCHANGED <<host, mTx, mCmd, rsp, faults>> /\ mRx' = Tail(mRx)
  BY DEF ModuleTakesAck
<1>2. HostTypes' /\ BufferTypes'
  BY <1>1 DEF HostTypes, BufferTypes, host
<1>3. BusTypes'
  BY <1>1, HeadWrite DEF BusTypes, ModuleTakesAck
<1>4. mJob' \in Jobs /\ ReplyLeft'
  <2>1. CASE mJob' = mJob
    BY <2>1, <1>1 DEF ModuleTypes, ReplyLeft
  <2>2. CASE mJob' = NoJob
    BY <2>2 DEF NoJob, Jobs, ReplyLeft
  <2>3. CASE /\ mJob.phase = "await"
             /\ mJob' = [mJob EXCEPT !.phase = "hdr", !.nr = mJob.nr + 1,
                                     !.sent = mJob.sent + ReplyFrame.t_size]
    <3>1. /\ ReplyFrame.t_size \in Nat
          /\ mJob.sent + ReplyFrame.t_size <= rsp[mJob.call].size
      BY <2>3, ReplyFrameType DEF Frames
    <3>2. mJob \in [phase : {"hdr", "body", "await"}, call : Calls, nr : Nat,
                    sent : Nat]
      BY <2>3 DEF ModuleTypes, Jobs
    <3>3. /\ mJob' \in [phase : {"hdr", "body", "await"}, call : Calls, nr : Nat,
                         sent : Nat]
          /\ mJob'.sent = mJob.sent + ReplyFrame.t_size
          /\ mJob'.call = mJob.call
      <4> DEFINE t_size == ReplyFrame.t_size
      <4>1. mJob.nr + 1 \in Nat /\ mJob.sent + t_size \in Nat
        BY <3>1, <3>2
      <4>2. mJob' = [mJob EXCEPT !.phase = "hdr", !.nr = mJob.nr + 1,
                                 !.sent = mJob.sent + t_size]
        BY <2>3
      <4> HIDE DEF t_size
      <4>3. /\ mJob' \in [phase : {"hdr", "body", "await"}, call : Calls,
                           nr : Nat, sent : Nat]
            /\ mJob'.sent = mJob.sent + t_size
            /\ mJob'.call = mJob.call
        BY <4>1, <4>2, <3>2
      <4> QED
        BY <4>3 DEF t_size
    <3> QED
      BY <3>1, <3>3, <1>1 DEF Jobs, ReplyLeft
  <2> QED
    BY <2>1, <2>2, <2>3 DEF ModuleTakesAck
<1>5. ModuleTypes'
  BY <1>1, <1>4 DEF ModuleTypes, host
<1>6. SentWhole' /\ FramesLeft'
  BY <1>1 DEF SentWhole, FramesLeft, host
<1> QED
  BY <1>2, <1>3, <1>4, <1>5, <1>6

\* Disturbances of the bus keep the types.
LEMMA BusFaultInv ==
  ASSUME Inv, BusFault
  PROVE  Inv'
<1> USE DEF Inv, TypeOK
<1>1. UNCHANGED <<host, rsp>> /\ faults' \in 0..MaxFaults
  BY SizeFacts
  DEF HostTypes, BusFault, CorruptWrite, CorruptRead, SpuriousIrq, ModuleRestart, Fault
<1>2. HostTypes' /\ BufferTypes'
  BY <1>1 DEF HostTypes, BufferTypes, host
<1>3. SentWhole' /\ FramesLeft'
  BY <1>1 DEF SentWhole, FramesLeft, host
<1>4. BusTypes'
  <2>1. CASE CorruptWrite
    BY <2>1, HeadWrite DEF BusTypes, CorruptWrite
  <2>2. CASE CorruptRead
    <3>1. PICK u \in {NoiseUnit} \cup {HdrUnit(n) : n \in 0..(MTU - 7)} :
             mTx' = <<u>> \o Tail(mTx) /\ mRx' = mRx
      BY <2>2 DEF CorruptRead
    <3>2. u \in Units
      BY MtuFacts DEF NoiseUnit, HdrUnit, Units
    <3>3. Tail(mTx) \in Seq(Units)
      BY <2>2, HeadUnit DEF BusTypes, CorruptRead
    <3> QED
      BY <3>1, <3>2, <3>3, ConcatProperties DEF BusTypes
  <2>3. CASE SpuriousIrq
    BY <2>3 DEF BusTypes, SpuriousIrq, ZeroUnit, Units
  <2>4. CASE ModuleRestart
    BY <2>4, EmptySeq DEF BusTypes, ModuleRestart
  <2> QED
    BY <2>1, <2>2, <2>3, <2>4 DEF BusFault
<1>5. ModuleTypes' /\ ReplyLeft'
  <2>1. CASE mCmd' = mCmd /\ mJob' = mJob
    BY <1>1, <2>1 DEF ModuleTypes, ReplyLeft, host
  <2>2. CASE mCmd' = NoCmd /\ mJob' = NoJob
    BY <1>1, <2>2, EmptySeq DEF ModuleTypes, ReplyLeft, NoCmd, NoJob, Jobs, host
  <2> QED
    BY <2>1, <2>2
    DEF BusFault, CorruptWrite, CorruptRead, SpuriousIrq, ModuleRestart
<1> QED
  BY <1>2, <1>3, <1>4, <1>5

-----------------------------------------------------------------------------
(* The theorems *)

\* Every step preserves the invariant.
LEMMA NextInv == Inv /\ [Next]_vars => Inv'
<1> SUFFICES ASSUME Inv, [Next]_vars PROVE Inv'
  OBVIOUS
<1>1. CASE UNCHANGED vars
  BY <1>1 DEF vars, host, module, Inv, TypeOK, HostTypes, BufferTypes, BusTypes,
              ModuleTypes, SentWhole, FramesLeft, ReplyLeft
<1>2. CASE HostStep
  BY <1>2, TranceiveInv, TxLinkWriteInv, TxLinkAckInv, TxLinkAckTimeoutInv,
     RxLinkHeaderInv, NoHeaderInv, RxLinkBodyInv, RxLinkBodyTimeoutInv, HwResetInv
     DEF HostStep, HostWaits, RxLinkHeaderTimeout, ButtonEndsWait
<1>3. CASE ModuleStep
  BY <1>3, ModuleTakesFrameInv, ModulePutsInv, ModuleTakesAckInv DEF ModuleStep
<1>4. CASE BusFault
  BY <1>4, BusFaultInv
<1> QED
  BY <1>1, <1>2, <1>3, <1>4 DEF Next, Finished

\* The variables keep their types; in particular no offset bmlite_send or
\* bmlite_receive computes ever leaves pkt_buffer, whatever comes over the bus.
THEOREM TypeCorrect == Spec => []TypeOK
<1>1. Inv => TypeOK
  BY DEF Inv
<1> QED
  BY <1>1, InitInv, NextInv, PTL DEF Spec

\* Before bmlite_receive is entered the whole command has been sent, whatever its
\* size; while it is being sent, what is behind p and what is left make it up.
THEOREM CommandSentWhole == Spec => []SentWhole
<1>1. Inv => SentWhole
  BY DEF Inv
<1> QED
  BY <1>1, InitInv, NextInv, PTL DEF Spec

=============================================================================
